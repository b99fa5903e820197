------------------------------ MODULE MCServices ------------------------------
(***************************************************************************)
(* The components next to the session loop, one of them in each behaviour: *)
(* they share no state, so `part` says which one runs and the others stay  *)
(* as they are initially, where none of their fair actions is enabled.     *)
(*                                                                         *)
(* KvFifo has three buckets of 12 bytes.  Items of 2 bytes share a bucket, *)
(* one of 5 leaves room for another small one, and one of 11 (13 with its  *)
(* brackets) is over the limit even alone.                                 *)
(*                                                                         *)
(* SessionTree runs as part tree, where three sessions see one request and *)
(* two sessions two, and as part rows, where somebody looks at the         *)
(* sub-agent of a tree of two, which sees one.                             *)
(***************************************************************************)
EXTENDS KvFifo, Handoff, TurnWait, EventFeed, CodexTurns, HistoryPane, SessionTree

VARIABLE part

MCItemBytes == {2, 5, 11}

(* The workers are alike: it does not matter which one is used first.      *)
FirstWorker == CHOOSE w \in Worker : TRUE
NoneUsed == \A w \in Worker : warm[w] = {} /\ dir[w] = {} /\ act[w] = NoActivity
StartsOnFirst == NoneUsed /\ archive = {} /\ troubles = 0 => bound' \in {NoWorker, FirstWorker}

ViewedFirst == viewer.of = IF part = "rows" THEN 2 ELSE NoParent
SmallTree ==
    LET spawned == sessions'[3].row # "none"
    IN  IF part = "rows" THEN ~spawned /\ requests' <= 1 ELSE spawned => requests' <= 1

Idle(others) == UNCHANGED <<part, others>>

ServicesInit ==
    /\ part \in {"buffer", "handoff", "wait", "feed", "codex", "pane", "tree", "rows"}
    /\ Init /\ HandoffInit /\ TurnWaitInit /\ EventFeedInit /\ CodexInit /\ PaneInit /\ TreeInit /\ ViewedFirst

ServicesNext ==
    \/ part = "buffer" /\ Next /\ Idle(<<handoffVars, turnWaitVars, feedVars, codexVars, paneVars, treeVars>>)
    \/ /\ part = "handoff" /\ HandoffNext /\ StartsOnFirst
       /\ Idle(<<vars, turnWaitVars, feedVars, codexVars, paneVars, treeVars>>)
    \/ part = "wait" /\ TurnWaitNext /\ Idle(<<vars, handoffVars, feedVars, codexVars, paneVars, treeVars>>)
    \/ part = "feed" /\ EventFeedNext /\ Idle(<<vars, handoffVars, turnWaitVars, codexVars, paneVars, treeVars>>)
    \/ part = "codex" /\ CodexNext /\ Idle(<<vars, handoffVars, turnWaitVars, feedVars, paneVars, treeVars>>)
    \/ part = "pane" /\ PaneNext /\ Idle(<<vars, handoffVars, turnWaitVars, feedVars, codexVars, treeVars>>)
    \/ /\ part \in {"tree", "rows"} /\ TreeNext /\ SmallTree
       /\ Idle(<<vars, handoffVars, turnWaitVars, feedVars, codexVars, paneVars>>)

(* The fairness of each component, where it runs.                          *)
ServicesFairness ==
    /\ WF_handoffVars(part = "handoff" /\ HandoffOwed)
    /\ WF_turnWaitVars(part = "wait" /\ TurnWaitOwed)
    /\ WF_feedVars(part = "feed" /\ Writer) /\ WF_feedVars(part = "feed" /\ Polls)
    /\ WF_codexVars(part = "codex" /\ Owed)
    /\ WF_paneVars(part = "pane" /\ PaneOwed)
    /\ WF_treeVars(part = "rows" /\ Views) /\ WF_treeVars(part = "rows" /\ LateTurns)

ServicesSpec ==
    /\ ServicesInit /\ [][ServicesNext]_<<part, vars, handoffVars, turnWaitVars, feedVars, codexVars, paneVars, treeVars>>
    /\ ServicesFairness

(* Every component's variables keep their types.                           *)
ServicesTypeOK ==
    TypeOK /\ HandoffTypeOK /\ TurnWaitTypeOK /\ EventFeedTypeOK /\ CodexTypeOK /\ PaneTypeOK /\ TreeTypeOK
=============================================================================
