-------------------------- MODULE SessionLoopProofs --------------------------
(***************************************************************************)
(* Theorems about the event loop of one session.                           *)
(***************************************************************************)
EXTENDS SessionLoop, SequenceTheorems, WellFoundedInduction, TLAPS, FiniteSetTheorems

----------------------------------------------------------------------------
(* Numbers and sequences.                                                  *)

LEMMA Bounds ==
    /\ MAX_RETRIES \in Nat /\ MAX_DRAIN_PER_TURN \in Nat /\ MAX_ITERATIONS_PER_EXECUTION \in Nat
    /\ ShutdownPolls \in Nat /\ MaxSurprises \in Nat /\ COPILOT_CONNECTION_CLOSED_MAX_RETRIES \in Nat
    /\ MAX_RETRIES > 0 /\ MAX_DRAIN_PER_TURN > 0 /\ MAX_ITERATIONS_PER_EXECUTION > 0
    /\ ShutdownPolls > 0
  BY BoundsPositive, BoundsNat

LEMMA LeastElement ==
    ASSUME NEW T \in SUBSET Nat, T # {}
    PROVE  Min(T) \in T /\ \A y \in T : Min(T) <= y
  <1>1. PICK x \in T : \A y \in T : ~ (<<y, x>> \in OpToRel(<, Nat))
    BY NatLessThanWellFounded, WFMin
  <1>2. OpToRel(<, Nat) = {ss \in Nat \X Nat : ss[1] < ss[2]}
    BY Zenon DEF OpToRel
  <1>3. ASSUME NEW y \in Nat, NEW z \in Nat, y < z
        PROVE  <<y, z>> \in {ss \in Nat \X Nat : ss[1] < ss[2]}
    BY <1>3
  <1>4. \A y \in T : ~(y < x)
    BY <1>1, <1>2, <1>3
  <1>5. \E z \in T : \A y \in T : z <= y
    BY <1>4
  <1>6. QED
    BY <1>5, Zenon DEF Min

(* What applyCronAction takes from the front of the queued actions: the    *)
(* cron actions up to the first other one.                                 *)
LEMMA LeadingOnes ==
    ASSUME NEW actions \in Seq(QueuedAction)
    PROVE  /\ LeadingCrons(actions) \in 0 .. Len(actions)
           /\ \A i \in 1 .. LeadingCrons(actions) : actions[i] \in Cron
           /\ LeadingCrons(actions) < Len(actions) => actions[LeadingCrons(actions) + 1] \notin Cron
  <1> DEFINE others == {i \in DOMAIN actions : actions[i] \notin Cron}
  <1>1. DOMAIN actions = 1 .. Len(actions) /\ Len(actions) \in Nat
    OBVIOUS
  <1>2. CASE others = {}
    <2>1. LeadingCrons(actions) = Len(actions)
      BY <1>2, Zenon DEF LeadingCrons
    <2>2. QED
      BY <1>1, <1>2, <2>1
  <1>3. CASE others # {}
    <2>1. others \in SUBSET Nat
      BY <1>1
    <2>2. Min(others) \in others /\ \A i \in others : Min(others) <= i
      BY <1>3, <2>1, LeastElement
    <2>3. PICK n \in others : n = Min(others)
      BY <2>2
    <2>4. LeadingCrons(actions) = n - 1
      BY <1>3, <2>3, Zenon DEF LeadingCrons
    <2>5. n \in 1 .. Len(actions) /\ actions[n] \notin Cron
      BY <1>1
    <2>6. ASSUME NEW i \in 1 .. n - 1 PROVE actions[i] \in Cron
      <3>1. i \in DOMAIN actions /\ ~(n <= i)
        BY <1>1, <2>5
      <3>2. i \notin others
        BY <2>2, <2>3, <3>1
      <3>3. QED
        BY <3>1, <3>2
    <2>7. QED
      BY <1>1, <2>4, <2>5, <2>6
  <1>4. QED
    BY <1>2, <1>3

----------------------------------------------------------------------------
(* The fields of the state of the orchestration, by the names of their     *)
(* types.                                                                  *)

Point == {"loop", "drain", "parked", "decide", "turn", "ended"}
Loops == 0 .. MAX_ITERATIONS_PER_EXECUTION
Drains == 0 .. MAX_DRAIN_PER_TURN
Seen == SUBSET (Child \X {"completed", "cancelled", "wait"})
Items == Seq(Item)
Actions == Seq(QueuedAction)
Texts == SUBSET Part
Prompts == SUBSET Prompt
Digest == {"none", "open", "ready"}
Agents == [Child -> AgentStatus \union {"none"}]
Children == SUBSET Child
Result == {"none", "done", "cancelled", "deleted", "failed", "crashed"}
Surprises == 0 .. MaxSurprises
Responses == [Command -> Nat]
Flag == BOOLEAN
Count == Nat

Fields ==
    [input : Inputs, pc : Point, loop : Loops, drained : Drains, seen : Seen,
     stash : Items, fifo : Items, timer : Timer, pendingPrompt : Texts, toolActions : Actions,
     turn : Texts, heldWait : Left, heldCron : Left, cron : Flag, question : Flag,
     digest : Digest, agents : Agents, awaited : Children, shutdown : Shutdown,
     needsHydration : Flag, retryCount : Count, nudged : Flag, status : Status,
     result : Result, failures : Failures, surprises : Surprises, handled : Prompts,
     abandoned : Prompts, responses : Responses]

LEMMA SessionFields == Session = Fields
  BY Zenon DEF Session, Fields, Point, Loops, Drains, Seen, Items, Actions, Texts, Prompts, Digest,
               Agents, Children, Result, Surprises, Responses, Flag, Count

LEMMA Blank ==
    /\ 0 \in Loops /\ 0 \in Drains /\ 0 \in Count /\ 0 \in Surprises /\ NoFailures \in Failures
    /\ {} \in Seen /\ {} \in Texts /\ {} \in Children /\ <<>> \in Items /\ <<>> \in Actions
    /\ FALSE \in Flag /\ TRUE \in Flag
  BY Bounds DEF Loops, Drains, Count, Surprises, Seen, Texts, Children, Items, Actions, Flag,
                Failures, NoFailures

LEMMA FailuresTyped == \A f \in Failures : FailedAgain(f) \in Failures /\ HandedOff(f) \in Failures
  BY DEF Failures, FailedAgain, HandedOff

LEMMA Literals ==
    /\ {"loop", "drain", "parked", "decide", "turn", "ended"} \subseteq Point
    /\ {"none", "zero", "some"} \subseteq Left /\ {"none", "open", "ready"} \subseteq Digest
    /\ {"none", "wait", "cron", "idle", "agent-poll", "input-grace"} \subseteq Timer
    /\ {"idle", "running", "waiting", "input_required", "error", "completed", "cancelled",
        "failed"} \subseteq Status
    /\ {"none", "done", "cancelled", "deleted", "failed", "crashed"} \subseteq Result
    /\ {{"answer"}, {"text"}, {"system"}} \subseteq Texts /\ NoShutdown \in Shutdown
    /\ \A p \in Prompt : {p} \in Texts
  BY DEF Point, Left, Digest, Timer, Status, Result, Texts, Part, Shutdown

----------------------------------------------------------------------------
(* The helpers of the orchestration return a state.                        *)

LEMMA NextIterationTyped == ASSUME NEW m \in Fields PROVE NextIteration(m) \in Fields
  <1>1. {} \in Texts /\ "loop" \in Point
    BY Blank, Literals
  <1>2. QED
    BY <1>1, Zenon DEF NextIteration, Fields

LEMMA ContinueAsNewTyped == ASSUME NEW m \in Fields PROVE ContinueAsNew(m) \in Fields
  <1>1. "loop" \in Point /\ "none" \in Result
    BY Literals
  <1>2. QED
    BY <1>1, Blank, Zenon DEF ContinueAsNew, Fields

LEMMA AbandonTyped == ASSUME NEW m \in Fields PROVE Abandon(m) \in Fields
  <1>1. PICK n \in Fields : n = NextIteration(m)
    BY NextIterationTyped
  <1>2. n.abandoned \union (m.turn \intersect Prompt) \in Prompts /\ "error" \in Status
    BY Literals DEF Fields, Prompts
  <1>3. NoFailures \in Failures
    BY Blank
  <1>4. QED
    BY <1>1, <1>2, <1>3, Zenon DEF Abandon, Fields

LEMMA GiveUpTyped == ASSUME NEW m \in Fields PROVE GiveUp(m) \in Fields
  <1>1. PICK n \in Fields : n = Abandon(m)
    BY AbandonTyped
  <1>2. 0 \in Count
    BY Blank
  <1>3. QED
    BY <1>1, <1>2, ZenonT(60) DEF GiveUp, Fields

LEMMA RetryWithTyped ==
    ASSUME s \in Fields, NEW m \in Fields, NEW parts \in Texts, NEW n \in Nat
    PROVE  RetryWith(m, parts, n) \in Fields
  <1>1. PICK k \in Fields : k = ContinueAsNew(m)
    BY ContinueAsNewTyped
  <1>2. s.input \in Inputs /\ k.needsHydration \in BOOLEAN
    BY DEF Fields, Flag
  <1>3. (BlobEnabled \/ k.needsHydration) \in Flag
    BY <1>2, InputsAssumption DEF BlobEnabled, Flag
  <1>4. "error" \in Status /\ n \in Count
    BY Literals DEF Count
  <1>5. QED
    BY <1>1, <1>3, <1>4, ZenonT(60) DEF RetryWith, Fields

LEMMA RetryTurnTyped ==
    ASSUME s \in Fields, NEW m \in Fields, NEW n \in Nat PROVE RetryTurn(m, n) \in Fields
  <1>1. m.turn \in Texts /\ m.pendingPrompt \union {"text"} \in Texts
    BY DEF Fields, Texts, Part
  <1>2. QED
    BY <1>1, RetryWithTyped DEF RetryTurn

LEMMA DehydrationsTyped == ASSUME NEW m \in Fields PROVE Dehydrations(m) \subseteq Fields
  <1>1. ASSUME NEW h \in BOOLEAN PROVE [m EXCEPT !.needsHydration = h] \in Fields
    <2>1. h \in Flag
      BY DEF Flag
    <2>2. QED
      BY <2>1, Zenon DEF Fields
  <1>2. QED
    BY <1>1 DEF Dehydrations

LEMMA FollowupTyped == ASSUME NEW m \in Fields PROVE queueFollowup(m) \in Fields
  <1>1. m.pendingPrompt \union {"text"} \in Texts
    BY DEF Fields, Texts, Part
  <1>2. QED
    BY <1>1, Zenon DEF queueFollowup, Fields

LEMMA FlushTyped == ASSUME NEW m \in Fields PROVE FlushStash(m) \in Fields
  <1>1. m.fifo \in Seq(Item) /\ m.stash \in Seq(Item)
    BY DEF Fields, Items
  <1>2. m.fifo \o m.stash \in Items /\ <<>> \in Items
    BY <1>1, ConcatProperties, Blank DEF Items
  <1>3. QED
    BY <1>2, Zenon DEF FlushStash, Fields

LEMMA CronsDrainedTyped ==
    ASSUME NEW m \in Fields PROVE drainLeadingQueuedCronActions(m) \in Fields
  <1>1. PICK actions \in Seq(QueuedAction) : actions = m.toolActions
    BY DEF Fields, Actions
  <1>2. PICK n \in 0 .. Len(actions) : n = LeadingCrons(actions)
    BY LeadingOnes
  <1>3. SubSeq(actions, n + 1, Len(actions)) \in Actions
    <2>1. \A i \in n + 1 .. Len(actions) : actions[i] \in QueuedAction
      BY <1>2
    <2>2. n + 1 \in Int /\ Len(actions) \in Int
      BY <1>2
    <2>3. QED
      BY <2>1, <2>2, SubSeqProperties DEF Actions
  <1>4. (actions[n] = "cron_set") \in Flag /\ "none" \in Left
    BY Literals DEF Flag
  <1>5. [m EXCEPT !.cron = (m.toolActions[n] = "cron_set"), !.heldCron = "none",
                  !.toolActions = SubSeq(@, n + 1, Len(@))] \in Fields
    BY <1>1, <1>3, <1>4, Zenon DEF Fields
  <1>6. QED
    BY <1>1, <1>2, <1>5 DEF drainLeadingQueuedCronActions

(* refreshTrackedSubAgents and what the loop knows of its sub-agents.      *)
LEMMA PublishedTyped ==
    ASSUME child \in [Child -> ChildStatus], NEW c \in Child
    PROVE  Published(c) \in AgentStatus \union {"none"}
  BY DEF Published, ChildStatus, AgentStatus

LEMMA RefreshesTyped ==
    ASSUME child \in [Child -> ChildStatus], NEW m \in Fields PROVE Refreshes(m) \subseteq Fields
  <1>1. [c \in Child |-> Published(c)] \in Agents
    BY PublishedTyped DEF Agents
  <1>2. Refreshed(m) \in Fields
    BY <1>1, Zenon DEF Refreshed, Fields
  <1>3. QED
    BY <1>2 DEF Refreshes

LEMMA PolledTyped ==
    ASSUME child \in [Child -> ChildStatus], NEW m \in Fields PROVE Polled(m) \in Fields
  <1>1. PICK agents \in Agents : agents = m.agents
    BY DEF Fields
  <1>2. [c \in Child |-> IF c \in Live(m, m.awaited) /\ Published(c) \notin {"running", "none"}
                         THEN Published(c) ELSE agents[c]] \in Agents
    BY PublishedTyped DEF Agents
  <1>3. QED
    BY <1>1, <1>2, Zenon DEF Polled, Fields

LEMMA ChildUpdateTyped ==
    ASSUME child \in [Child -> ChildStatus], NEW m \in Fields, NEW c \in Child,
           NEW kind \in {"completed", "cancelled", "wait"}
    PROVE  ApplyChildUpdate(m, c, kind) \in Fields
  <1>1. PICK agents \in Agents : agents = m.agents
    BY DEF Fields
  <1>2. PICK now \in AgentStatus \union {"none"} : now = Published(c)
    BY PublishedTyped
  <1>3. PICK claimed \in AgentStatus \union {"none"} :
          claimed = (IF kind = "wait" THEN agents[c] ELSE kind)
    BY DEF AgentStatus, Agents
  <1>4. PICK status \in AgentStatus \union {"none"} :
          status = (IF now \in {"running", "none"} THEN claimed ELSE now)
    OBVIOUS
  <1>5. [agents EXCEPT ![c] = status] \in Agents
    BY DEF Agents
  <1>6. [m EXCEPT !.agents = [agents EXCEPT ![c] = status]] \in Fields
    BY <1>5, Zenon DEF Fields
  <1>7. [m EXCEPT !.agents[c] = status] = [m EXCEPT !.agents = [agents EXCEPT ![c] = status]]
    BY <1>1
  <1>8. QED
    BY <1>1, <1>2, <1>3, <1>4, <1>6, <1>7 DEF ApplyChildUpdate

LEMMA BufferTyped == ASSUME NEW m \in Fields PROVE BufferChildUpdate(m) \in Fields
  <1>1. [m EXCEPT !.digest = "open"] \in Fields
    <2>1. "open" \in Digest
      BY Literals
    <2>2. QED
      BY <2>1, Zenon DEF Fields
  <1>2. QED
    BY <1>1 DEF BufferChildUpdate

(* Responses and the ends of a shutdown.                                   *)
LEMMA RespondTyped ==
    ASSUME NEW m \in Fields, NEW c \in Command PROVE Respond(m, c) \in Fields
  <1>1. PICK responses \in Responses : responses = m.responses
    BY DEF Fields
  <1>2. [responses EXCEPT ![c] = responses[c] + 1] \in Responses
    BY DEF Responses
  <1>3. [m EXCEPT !.responses = [responses EXCEPT ![c] = responses[c] + 1]] \in Fields
    BY <1>2, Zenon DEF Fields
  <1>4. QED
    BY <1>1, <1>3 DEF Respond

LEMMA FinishTyped ==
    ASSUME NEW m \in Fields, NEW mode \in Signal, NEW c \in Command
    PROVE  FinishShutdown(m, mode, c) \in Fields
  <1>1. PICK n \in Fields : n = Respond(m, c)
    BY RespondTyped
  <1>2. PICK status \in Status :
          status = (CASE mode = "done" -> "completed"
                      [] mode = "cancel" -> "cancelled"
                      [] mode = "delete" -> n.status)
    BY Literals DEF Signal, Fields
  <1>3. PICK result \in Result :
          result = (CASE mode = "done" -> "done"
                      [] mode = "cancel" -> "cancelled"
                      [] mode = "delete" -> "deleted")
    BY Literals DEF Signal
  <1>4. NoShutdown \in Shutdown /\ {} \in Children /\ "none" \in Digest /\ "none" \in Timer
    BY Blank, Literals
  <1>5. [n EXCEPT !.shutdown = NoShutdown, !.awaited = {}, !.digest = "none", !.timer = "none",
                  !.status = status, !.result = result] \in Fields
    BY <1>4, Zenon DEF Fields
  <1>6. QED
    BY <1>1, <1>2, <1>3, <1>5, Zenon DEF FinishShutdown

(* What a shutdown in progress is about.                                   *)
LEMMA ShutdownParts ==
    ASSUME NEW m \in Fields, m.shutdown # NoShutdown
    PROVE  /\ m.shutdown.mode \in Signal /\ m.shutdown.cmd \in Command
           /\ m.shutdown.age \in 0 .. ShutdownPolls
           /\ m.shutdown = [mode |-> m.shutdown.mode, cmd |-> m.shutdown.cmd, age |-> m.shutdown.age]
  BY DEF Fields, Shutdown, Signal

LEMMA FailureTyped ==
    ASSUME NEW m \in Fields, m.shutdown # NoShutdown PROVE failPendingShutdown(m) \in Fields
  <1>1. PICK n \in Fields : n = Respond(m, m.shutdown.cmd)
    BY RespondTyped, ShutdownParts
  <1>2. NoShutdown \in Shutdown /\ {} \in Children /\ "none" \in Digest /\ "none" \in Timer
        /\ "failed" \in Status /\ "failed" \in Result /\ "ended" \in Point
    BY Blank, Literals
  <1>3. QED
    BY <1>1, <1>2, ZenonT(60) DEF failPendingShutdown, Fields

LEMMA ResolveTyped == ASSUME NEW m \in Fields PROVE ResolveAgentWait(m) \in Fields
  <1>1. CASE Resolved(m) /\ m.shutdown # NoShutdown
    BY <1>1, ShutdownParts, FinishTyped DEF ResolveAgentWait
  <1>2. CASE Resolved(m) /\ m.shutdown = NoShutdown
    <2>1. PICK n \in Fields : n = queueFollowup(m)
      BY FollowupTyped
    <2>2. {} \in Children /\ "none" \in Digest /\ "none" \in Timer
      BY Blank, Literals
    <2>3. [n EXCEPT !.awaited = {}, !.digest = "none", !.timer = "none"] \in Fields
      BY <2>2, Zenon DEF Fields
    <2>4. QED
      BY <1>2, <2>1, <2>3 DEF ResolveAgentWait
  <1>3. QED
    BY <1>1, <1>2 DEF ResolveAgentWait

(* The point of control they leave the session at.                         *)
LEMMA MovePoints ==
    ASSUME NEW m \in Fields
    PROVE  /\ NextIteration(m).pc = "loop" /\ ContinueAsNew(m).pc = "loop" /\ Abandon(m).pc = "loop"
           /\ GiveUp(m).pc = "loop"
           /\ \A parts, n : RetryWith(m, parts, n).pc = "loop"
           /\ \A n : RetryTurn(m, n).pc = "loop"
  <1>1. NextIteration(m).pc = "loop" /\ ContinueAsNew(m).pc = "loop"
    BY DEF NextIteration, ContinueAsNew, Fields
  <1>2. Abandon(m).pc = "loop"
    BY <1>1, NextIterationTyped DEF Abandon, Fields
  <1>3. GiveUp(m).pc = "loop"
    BY <1>2, AbandonTyped DEF GiveUp, Fields
  <1>4. ASSUME NEW parts, NEW n PROVE RetryWith(m, parts, n).pc = "loop"
    BY <1>1, ContinueAsNewTyped DEF RetryWith, Fields
  <1>5. QED
    BY <1>1, <1>2, <1>3, <1>4 DEF RetryTurn

LEMMA StayPoints ==
    ASSUME NEW m \in Fields
    PROVE  /\ \A d \in Dehydrations(m) : d.pc = m.pc
           /\ queueFollowup(m).pc = m.pc /\ FlushStash(m).pc = m.pc
           /\ drainLeadingQueuedCronActions(m).pc = m.pc
           /\ \A r \in Refreshes(m) : r.pc = m.pc
           /\ Polled(m).pc = m.pc /\ BufferChildUpdate(m).pc = m.pc
           /\ \A c, kind : ApplyChildUpdate(m, c, kind).pc = m.pc
           /\ \A c : Respond(m, c).pc = m.pc
           /\ \A mode : \A c \in Command : FinishShutdown(m, mode, c).pc = m.pc
           /\ ResolveAgentWait(m).pc = m.pc
  <1>1. \A d \in Dehydrations(m) : d.pc = m.pc
    BY DEF Dehydrations, Fields
  <1>2. queueFollowup(m).pc = m.pc /\ FlushStash(m).pc = m.pc
    BY DEF queueFollowup, FlushStash, Fields
  <1>3. drainLeadingQueuedCronActions(m).pc = m.pc
    BY DEF drainLeadingQueuedCronActions, Fields
  <1>4. \A r \in Refreshes(m) : r.pc = m.pc
    BY DEF Refreshes, Refreshed, Fields
  <1>5. Polled(m).pc = m.pc /\ BufferChildUpdate(m).pc = m.pc
    BY DEF Polled, BufferChildUpdate, Fields
  <1>6. ASSUME NEW c, NEW kind PROVE ApplyChildUpdate(m, c, kind).pc = m.pc
    BY DEF ApplyChildUpdate, Fields
  <1>7. ASSUME NEW c PROVE Respond(m, c).pc = m.pc
    BY DEF Respond, Fields
  <1>8. ASSUME NEW mode, NEW c \in Command PROVE FinishShutdown(m, mode, c).pc = m.pc
    <2>1. PICK n \in Fields : n = Respond(m, c) /\ n.pc = m.pc
      BY <1>7, RespondTyped
    <2>2. FinishShutdown(m, mode, c).pc = n.pc
      BY <2>1 DEF FinishShutdown, Fields
    <2>3. QED
      BY <2>1, <2>2
  <1>9. ResolveAgentWait(m).pc = m.pc
    <2>1. CASE Resolved(m) /\ m.shutdown # NoShutdown
      BY <1>8, <2>1, ShutdownParts DEF ResolveAgentWait
    <2>2. CASE Resolved(m) /\ m.shutdown = NoShutdown
      <3>1. PICK n \in Fields : n = queueFollowup(m) /\ n.pc = m.pc
        BY <1>2, FollowupTyped
      <3>2. QED
        BY <2>2, <3>1 DEF ResolveAgentWait, Fields
    <2>3. QED
      BY <2>1, <2>2 DEF ResolveAgentWait
  <1>10. QED
    BY <1>1, <1>2, <1>3, <1>4, <1>5, <1>6, <1>7, <1>8, <1>9

----------------------------------------------------------------------------
(* The actions keep the types.                                             *)

Settled == s' \in Fields /\ s'.pc \in {"loop", "ended"}

LEMMA LoopPoint == ASSUME NEW m \in Fields PROVE m.pc \in Point
  BY DEF Fields

LEMMA InputFlags ==
    ASSUME s \in Fields
    PROVE  {BlobEnabled, IdleTimer, IsSubAgent, IsSystem} \subseteq BOOLEAN
  <1>1. s.input \in Inputs
    BY DEF Fields
  <1>2. QED
    BY <1>1, InputsAssumption DEF BlobEnabled, IdleTimer, IsSubAgent, IsSystem

LEMMA AgentTyped ==
    ASSUME NEW m \in Fields, NEW c \in Child, NEW status \in AgentStatus \union {"none"}
    PROVE  [m EXCEPT !.agents[c] = status] \in Fields
  <1>1. PICK agents \in Agents : agents = m.agents
    BY DEF Fields
  <1>2. [agents EXCEPT ![c] = status] \in Agents
    BY DEF Agents
  <1>3. [m EXCEPT !.agents = [agents EXCEPT ![c] = status]] \in Fields
    BY <1>2, Zenon DEF Fields
  <1>4. QED
    BY <1>1, <1>3

LEMMA FollowupSettles == ASSUME NEW m \in Fields, Followup(m) PROVE Settled
  <1>1. queueFollowup(m) \in Fields
    BY FollowupTyped
  <1>2. QED
    BY <1>1, NextIterationTyped, MovePoints DEF Followup, Settled

LEMMA WaitSettles ==
    ASSUME NEW m \in Fields, NEW timer \in Timer, WaitFor(m, timer) PROVE Settled
  <1>1. PICK n \in Fields : n = NextIteration(m) /\ n.pc = "loop"
    BY NextIterationTyped, MovePoints
  <1>2. DehydrationsForWait(n) \subseteq Fields /\ \A d \in DehydrationsForWait(n) : d.pc = "loop"
    BY <1>1, DehydrationsTyped, StayPoints DEF DehydrationsForWait
  <1>3. PICK d \in Fields : d.pc = "loop" /\ s' = [d EXCEPT !.timer = timer, !.status = "waiting"]
    BY <1>1, <1>2 DEF WaitFor
  <1>4. "waiting" \in Status
    BY Literals
  <1>5. [d EXCEPT !.timer = timer, !.status = "waiting"] \in Fields
    BY <1>4, Zenon DEF Fields
  <1>6. QED
    BY <1>3, <1>5 DEF Settled, Fields

LEMMA CompletedSettles == ASSUME s \in Fields, NEW m \in Fields, Completed(m) PROVE Settled
  <1>1. CASE CompletedSubAgent(m)
    <2>1. "ended" \in Point /\ {} \in Texts /\ "completed" \in Status /\ "done" \in Result
      BY Blank, Literals
    <2>2. [m EXCEPT !.pc = "ended", !.turn = {}, !.status = "completed", !.result = "done"] \in Fields
      BY <2>1, Zenon DEF Fields
    <2>3. [m EXCEPT !.pc = "ended", !.turn = {}, !.status = "completed", !.result = "done"].pc = "ended"
      BY DEF Fields
    <2>4. QED
      BY <1>1, <2>2, <2>3, NextIterationTyped, MovePoints DEF CompletedSubAgent, Settled
  <1>2. CASE CompletedNudged(m)
    <2>1. PICK n \in Fields : n = ContinueAsNew(queueFollowup(m)) /\ n.pc = "loop"
      BY FollowupTyped, ContinueAsNewTyped, MovePoints
    <2>2. [n EXCEPT !.nudged = TRUE] \in Fields
      BY Blank, Zenon DEF Fields
    <2>3. s' = [n EXCEPT !.nudged = TRUE]
      BY <1>2, <2>1 DEF CompletedNudged
    <2>4. QED
      BY <2>1, <2>2, <2>3 DEF Settled, Fields
  <1>3. CASE CompletedResumesWait(m)
    <2>1. [m EXCEPT !.heldWait = "none"] \in Fields
      BY Literals, Zenon DEF Fields
    <2>2. QED
      BY <1>3, <2>1, WaitSettles, Literals DEF CompletedResumesWait
  <1>4. CASE CompletedResumesCron(m)
    <2>1. "none" \in Left /\ "cron" \in Timer
      BY Literals
    <2>2. [m EXCEPT !.heldCron = "none"] \in Fields
      BY <2>1, Zenon DEF Fields
    <2>3. QED
      BY <1>4, <2>1, <2>2, WaitSettles DEF CompletedResumesCron
  <1>5. CASE CompletedArmsCron(m)
    BY <1>5, WaitSettles, Literals DEF CompletedArmsCron
  <1>6. CASE CompletedGoesIdle(m)
    <2>1. PICK n \in Fields : n = NextIteration(m) /\ n.pc = "loop"
      BY NextIterationTyped, MovePoints
    <2>2. "idle" \in Timer /\ "idle" \in Status
      BY Literals
    <2>3. [n EXCEPT !.timer = "idle", !.status = "idle"] \in Fields
      BY <2>2, Zenon DEF Fields
    <2>4. [n EXCEPT !.timer = "idle", !.status = "idle"].pc = "loop"
      BY <2>1 DEF Fields
    <2>5. QED
      BY <1>6, <2>1, <2>3, <2>4 DEF CompletedGoesIdle, Settled
  <1>7. QED
    BY <1>1, <1>2, <1>3, <1>4, <1>5, <1>6 DEF Completed

LEMMA InputSettles == ASSUME s \in Fields, NEW m \in Fields, InputRequired(m) PROVE Settled
  <1>1. PICK n \in Fields : n = NextIteration(m) /\ n.pc = "loop"
    BY NextIterationTyped, MovePoints
  <1>2. TRUE \in Flag /\ "input_required" \in Status /\ "input-grace" \in Timer
    BY Blank, Literals
  <1>3. PICK asked \in Fields :
          asked = [n EXCEPT !.question = TRUE, !.status = "input_required"]
    <2>1. [n EXCEPT !.question = TRUE, !.status = "input_required"] \in Fields
      BY <1>2, Zenon DEF Fields
    <2>2. QED
      BY <2>1
  <1>4. asked.pc = "loop"
    BY <1>1, <1>3 DEF Fields
  <1>5. PICK graced \in Fields : graced = [asked EXCEPT !.timer = "input-grace"]
    <2>1. [asked EXCEPT !.timer = "input-grace"] \in Fields
      BY <1>2, Zenon DEF Fields
    <2>2. QED
      BY <2>1
  <1>6. graced.pc = "loop"
    BY <1>4, <1>5 DEF Fields
  <1>7. s' = asked \/ s' \in Dehydrations(asked) \/ s' = graced
    BY <1>1, <1>3, <1>5, Zenon DEF InputRequired
  <1>8. QED
    BY <1>4, <1>6, <1>7, DehydrationsTyped, StayPoints DEF Settled

LEMMA CheckSettles == ASSUME s \in Fields, NEW m \in Fields, CheckAgents(m) PROVE Settled
  <1>1. PICK agents \in Agents : agents = m.agents
    BY DEF Fields
  <1>2. PICK idle \in SUBSET Child :
          Followup([m EXCEPT !.agents =
            [c \in Child |->
               IF c \in idle THEN "completed"
               ELSE IF agents[c] # "none" /\ Published(c) \in {"completed", "failed"}
               THEN Published(c) ELSE agents[c]]])
    BY <1>1, Zenon DEF CheckAgents, Tracked
  <1>3. [c \in Child |->
           IF c \in idle THEN "completed"
           ELSE IF agents[c] # "none" /\ Published(c) \in {"completed", "failed"}
           THEN Published(c) ELSE agents[c]] \in Agents
    BY DEF Agents, AgentStatus
  <1>4. [m EXCEPT !.agents =
            [c \in Child |->
               IF c \in idle THEN "completed"
               ELSE IF agents[c] # "none" /\ Published(c) \in {"completed", "failed"}
               THEN Published(c) ELSE agents[c]]] \in Fields
    BY <1>3, Zenon DEF Fields
  <1>5. QED
    BY <1>2, <1>4, FollowupSettles

LEMMA AgentWaitSettles == ASSUME NEW m \in Fields, WaitForAgents(m) PROVE Settled
  <1>1. PICK n \in Fields : n = NextIteration(m) /\ n.pc = "loop"
    BY NextIterationTyped, MovePoints
  <1>2. CASE Followup(m)
    BY <1>2, FollowupSettles
  <1>3. ASSUME NEW C \in SUBSET Child,
               s' = [n EXCEPT !.awaited = C, !.timer = "agent-poll", !.status = "running"]
        PROVE  Settled
    <2>1. C \in Children /\ "agent-poll" \in Timer /\ "running" \in Status
      BY Literals DEF Children
    <2>2. [n EXCEPT !.awaited = C, !.timer = "agent-poll", !.status = "running"] \in Fields
      BY <2>1, Zenon DEF Fields
    <2>3. QED
      BY <1>1, <1>3, <2>2 DEF Settled, Fields
  <1>4. QED
    BY <1>1, <1>2, <1>3 DEF WaitForAgents, Tracked

LEMMA ErrorSettles == ASSUME s \in Fields, NEW m \in Fields, TurnError(m) PROVE Settled
  <1>1. PICK failed \in Fields :
          failed = [m EXCEPT !.retryCount = m.retryCount + 1, !.failures = FailedAgain(m.failures)]
    <2>1. m.retryCount + 1 \in Count /\ FailedAgain(m.failures) \in Failures
      BY FailuresTyped DEF Fields, Count
    <2>2. [m EXCEPT !.retryCount = m.retryCount + 1, !.failures = FailedAgain(m.failures)] \in Fields
      BY <2>1, Zenon DEF Fields
    <2>3. QED
      BY <2>2
  <1>2. PICK parts \in Texts : parts = (IF m.turn = {"system"} THEN {"text"} ELSE m.turn)
    BY Literals DEF Fields
  <1>3. s' = GiveUp(failed) \/ s' = RetryWith(failed, parts, failed.retryCount)
    BY <1>1, <1>2 DEF TurnError
  <1>4. PICK n \in Nat : n = failed.retryCount
    BY DEF Fields, Count
  <1>5. CASE s' = GiveUp(failed)
    BY <1>5, GiveUpTyped, MovePoints DEF Settled
  <1>6. CASE s' = RetryWith(failed, parts, n)
    <2>1. RetryWith(failed, parts, n) \in Fields /\ RetryWith(failed, parts, n).pc = "loop"
      BY RetryWithTyped, MovePoints
    <2>2. QED
      BY <1>6, <2>1 DEF Settled
  <1>7. QED
    BY <1>3, <1>4, <1>5, <1>6

LEMMA CrashSettles ==
    ASSUME NEW m \in Fields, NEW status \in Status, Crash(m, status) PROVE Settled
  <1>1. "ended" \in Point /\ {} \in Texts /\ "crashed" \in Result
    BY Blank, Literals
  <1>2. [m EXCEPT !.pc = "ended", !.turn = {}, !.status = status, !.result = "crashed"] \in Fields
    BY <1>1, Zenon DEF Fields
  <1>3. [m EXCEPT !.pc = "ended", !.turn = {}, !.status = status, !.result = "crashed"].pc = "ended"
    BY DEF Fields
  <1>4. QED
    BY <1>2, <1>3 DEF Crash, Settled

(* handleTurnResult: what it does with the session and its sub-agents.     *)
LEMMA ResultSettles ==
    ASSUME TypeOK, s \in Fields, NEW m \in Fields, NEW action, HandleTurnResult(m, action)
    PROVE  /\ Settled
           /\ child' \in [Child -> ChildStatus] /\ told' \in [Child -> {"none"} \union Signal]
  <1>1. child \in [Child -> ChildStatus] /\ told \in [Child -> {"none"} \union Signal]
        /\ {"running", "none"} \subseteq ChildStatus
    BY DEF TypeOK, ChildStatus, AgentStatus
  <1>2. CASE action = "completed" /\ Completed(m) /\ UNCHANGED <<child, told>>
    BY <1>1, <1>2, CompletedSettles
  <1>3. CASE action = "wait" /\ Waits(m) /\ UNCHANGED <<child, told>>
    <2>1. "none" \in Left /\ "wait" \in Timer
      BY Literals
    <2>2. [m EXCEPT !.heldWait = "none"] \in Fields
      BY <2>1, Zenon DEF Fields
    <2>3. QED
      BY <1>1, <1>3, <2>1, <2>2, WaitSettles DEF Waits
  <1>4. CASE action = "input_required" /\ InputRequired(m) /\ UNCHANGED <<child, told>>
    BY <1>1, <1>4, InputSettles
  <1>5. CASE action = "cancelled" /\ s' = NextIteration(m) /\ UNCHANGED <<child, told>>
    BY <1>1, <1>5, NextIterationTyped, MovePoints DEF Settled
  <1>6. CASE action = "tool" /\ Followup(m) /\ UNCHANGED <<child, told>>
    BY <1>1, <1>6, FollowupSettles
  <1>7. CASE action = "check_agents" /\ CheckAgents(m) /\ UNCHANGED <<child, told>>
    BY <1>1, <1>7, CheckSettles
  <1>8. CASE action = "wait_for_agents" /\ WaitForAgents(m) /\ UNCHANGED <<child, told>>
    BY <1>1, <1>8, AgentWaitSettles
  <1>9. CASE action = "error" /\ TurnError(m) /\ UNCHANGED <<child, told>>
    BY <1>1, <1>9, ErrorSettles
  <1>10. CASE action = "missing" /\ Crash(m, "failed") /\ UNCHANGED <<child, told>>
    BY <1>1, <1>10, CrashSettles, Literals
  <1>11. CASE action = "spawn_agent" /\ SpawnAgent(m) /\ UNCHANGED told
    <2>1. CASE Followup(m) /\ UNCHANGED child
      BY <1>1, <1>11, <2>1, FollowupSettles
    <2>2. ASSUME NEW c \in Child, child' = [child EXCEPT ![c] = "running"],
                 Followup([m EXCEPT !.agents[c] = "running"])
          PROVE  Settled /\ child' \in [Child -> ChildStatus]
      <3>1. [m EXCEPT !.agents[c] = "running"] \in Fields
        BY AgentTyped DEF AgentStatus
      <3>2. Settled
        BY <2>2, <3>1, FollowupSettles
      <3>3. QED
        BY <1>1, <2>2, <3>2
    <2>3. QED
      BY <1>1, <1>11, <2>1, <2>2 DEF SpawnAgent
  <1>12. CASE action = "signal_agent" /\ SignalAgent(m) /\ UNCHANGED child
    BY <1>1, <1>12, FollowupSettles DEF SignalAgent, Tracked
  <1>13. CASE action = "delete_agent" /\ DeleteAgent(m) /\ UNCHANGED told
    <2>1. PICK c \in Child : child' = [child EXCEPT ![c] = "none"] /\ Followup([m EXCEPT !.agents[c] = "none"])
      BY <1>13 DEF DeleteAgent, Tracked
    <2>2. [m EXCEPT !.agents[c] = "none"] \in Fields
      BY AgentTyped
    <2>3. Settled
      BY <2>1, <2>2, FollowupSettles
    <2>4. QED
      BY <1>1, <1>13, <2>1, <2>3
  <1>14. QED
    BY <1>2, <1>3, <1>4, <1>5, <1>6, <1>7, <1>8, <1>9, <1>10, <1>11, <1>12, <1>13
       DEF HandleTurnResult

(* processPrompt up to the turn, and the ends of a turn.                   *)
Awoken == s' \in Fields /\ s'.pc # "parked"

LEMMA SettledAwoken == Settled => Awoken
  BY DEF Settled, Awoken

LEMMA StartAwakes ==
    ASSUME s \in Fields, NEW m \in Fields, NEW parts \in Texts, StartTurn(m, parts) PROVE Awoken
  <1>1. PICK hydration \in Flag : hydration = (m.needsHydration /\ ~BlobEnabled)
    BY InputFlags DEF Fields, Flag
  <1>2. "turn" \in Point /\ "running" \in Status /\ TRUE \in Flag
    BY Blank, Literals
  <1>3. PICK n \in Fields :
          n = [m EXCEPT !.pc = "turn", !.turn = parts, !.status = "running",
                        !.needsHydration = hydration]
    <2>1. [m EXCEPT !.pc = "turn", !.turn = parts, !.status = "running",
                    !.needsHydration = hydration] \in Fields
      BY <1>2, Zenon DEF Fields
    <2>2. QED
      BY <2>1
  <1>4. CASE s' = n
    BY <1>3, <1>4 DEF Awoken, Fields
  <1>5. CASE /\ m.surprises < MaxSurprises
             /\ s' = Abandon([m EXCEPT !.turn = parts, !.needsHydration = TRUE,
                                       !.surprises = m.surprises + 1])
    <2>1. m.surprises + 1 \in Surprises
      BY <1>5, Bounds DEF Fields, Surprises
    <2>2. [m EXCEPT !.turn = parts, !.needsHydration = TRUE, !.surprises = m.surprises + 1] \in Fields
      BY <1>2, <2>1, Zenon DEF Fields
    <2>3. QED
      BY <1>5, <2>2, AbandonTyped, MovePoints DEF Awoken
  <1>6. QED
    BY <1>1, <1>3, <1>4, <1>5, Zenon DEF StartTurn

LEMMA PlainIsOutcome == PlainOutcome \in Outcome
  <1>1. <<>> \in Seq(QueuedAction)
    OBVIOUS
  <1>2. QED
    BY <1>1 DEF PlainOutcome, Outcome, Action, Cron

LEMMA OutcomeParts ==
    ASSUME NEW outcome \in Outcome
    PROVE  outcome.main \in Action \ Cron /\ outcome.queued \in Seq(QueuedAction)
  BY DEF Outcome

LEMMA ReturnedTyped ==
    ASSUME NEW m \in Fields, NEW outcome \in Outcome PROVE Returned(m, outcome) \in Fields
  <1>1. PICK queued \in Seq(QueuedAction) : queued = outcome.queued
    BY OutcomeParts
  <1>2. PICK actions \in Seq(QueuedAction) : actions = m.toolActions
    BY DEF Fields, Actions
  <1>3. actions \o queued \in Actions
    BY ConcatProperties DEF Actions
  <1>4. PICK failures \in Failures : failures = (IF outcome.main = "error" THEN m.failures ELSE NoFailures)
    BY Blank DEF Fields
  <1>5. PICK handled \in Prompts :
          handled = (IF outcome.main = "error" THEN m.handled
                     ELSE m.handled \union (m.turn \intersect Prompt))
    BY DEF Fields, Prompts
  <1>6. 0 \in Count
    BY Blank
  <1>7. [m EXCEPT !.retryCount = 0, !.toolActions = actions \o queued, !.failures = failures,
                  !.handled = handled] \in Fields
    BY <1>3, <1>6, Zenon DEF Fields
  <1>8. Returned(m, outcome) =
          drainLeadingQueuedCronActions(
            [m EXCEPT !.retryCount = 0, !.toolActions = actions \o queued, !.failures = failures,
                      !.handled = handled])
    BY <1>1, <1>2, <1>4, <1>5, Zenon DEF Returned
  <1>9. QED
    BY <1>7, <1>8, CronsDrainedTyped

LEMMA TurnTyped ==
    ASSUME TypeOK, s \in Fields, Turn
    PROVE  /\ Settled /\ UNCHANGED <<messages, sent>>
           /\ child' \in [Child -> ChildStatus] /\ told' \in [Child -> {"none"} \union Signal]
  <1>1. child \in [Child -> ChildStatus] /\ told \in [Child -> {"none"} \union Signal]
    BY DEF TypeOK
  <1>2. ASSUME NEW outcome \in Outcome, TurnReturns(outcome)
        PROVE  /\ Settled /\ UNCHANGED <<messages, sent>>
               /\ child' \in [Child -> ChildStatus] /\ told' \in [Child -> {"none"} \union Signal]
    <2>1. PICK m \in Fields :
            /\ outcome # PlainOutcome => s.surprises < MaxSurprises
            /\ m.surprises = s.surprises
            /\ HandleTurnResult(
                 [m EXCEPT !.surprises = IF outcome = PlainOutcome THEN @ ELSE @ + 1], outcome.main)
      <3>1. Refreshes(Returned(s, outcome)) \subseteq Fields
        BY <1>1, ReturnedTyped, RefreshesTyped
      <3>2. Returned(s, outcome).surprises = s.surprises
        BY DEF Returned, drainLeadingQueuedCronActions, Fields
      <3>3. \A m \in Refreshes(Returned(s, outcome)) : m.surprises = s.surprises
        BY <3>2, ReturnedTyped DEF Refreshes, Refreshed, Fields
      <3>4. QED
        BY <1>2, <3>1, <3>3 DEF TurnReturns
    <2>2. PICK surprises \in Surprises :
            surprises = (IF outcome = PlainOutcome THEN m.surprises ELSE m.surprises + 1)
      BY <2>1, Bounds DEF Fields, Surprises
    <2>3. [m EXCEPT !.surprises = surprises] \in Fields
      BY Zenon DEF Fields
    <2>4. HandleTurnResult([m EXCEPT !.surprises = surprises], outcome.main)
      BY <2>1, <2>2
    <2>5. UNCHANGED <<messages, sent>>
      BY <1>2 DEF TurnReturns
    <2>6. QED
      BY <2>3, <2>4, <2>5, ResultSettles
  <1>3. ASSUME s.surprises < MaxSurprises PROVE Failed \in Fields
    <2>1. s.retryCount + 1 \in Count /\ FailedAgain(s.failures) \in Failures /\ s.surprises + 1 \in Surprises
      BY FailuresTyped, <1>3, Bounds DEF Fields, Count, Surprises
    <2>2. QED
      BY <2>1, Zenon DEF Failed, Fields
  <1>4. ASSUME NEW failure, Failing(failure)
        PROVE  /\ Failed \in Fields /\ UNCHANGED <<messages, sent>>
               /\ child' \in [Child -> ChildStatus] /\ told' \in [Child -> {"none"} \union Signal]
    BY <1>1, <1>3, <1>4 DEF Failing
  <1>5. CASE TurnLosesState
    BY <1>4, <1>5, CrashSettles, Literals DEF TurnLosesState
  <1>6. ASSUME NEW f \in Fields, NEW n \in Nat, NEW r, r = RetryTurn(f, n)
        PROVE  /\ r \in Fields /\ r.pc = "loop"
               /\ [r EXCEPT !.failures = HandedOff(r.failures)] \in Fields
               /\ [r EXCEPT !.failures = HandedOff(r.failures)].pc = "loop"
    <2>1. r \in Fields /\ r.pc = "loop"
      BY <1>6, RetryTurnTyped, MovePoints
    <2>2. HandedOff(r.failures) \in Failures
      <3>1. r.failures \in Failures
        BY <2>1 DEF Fields
      <3>2. QED
        BY <3>1, FailuresTyped
    <2>3. [r EXCEPT !.failures = HandedOff(r.failures)] \in Fields
      BY <2>1, <2>2, Zenon DEF Fields
    <2>4. [r EXCEPT !.failures = HandedOff(r.failures)].pc = "loop"
      BY <2>1 DEF Fields
    <2>5. QED
      BY <2>1, <2>3, <2>4
  <1>7. ASSUME NEW f \in Fields, f = Failed PROVE f.retryCount \in Nat
    BY DEF Fields, Count
  <1>8. CASE TurnLosesConnection
    <2>1. PICK f \in Fields : f = Failed
      BY <1>4, <1>8 DEF TurnLosesConnection
    <2>2. PICK n \in Nat :
            n = (IF f.retryCount > COPILOT_CONNECTION_CLOSED_MAX_RETRIES THEN 0 ELSE f.retryCount)
      BY <1>7, <2>1
    <2>3. PICK r : r = RetryTurn(f, n)
      OBVIOUS
    <2>4. s' = r \/ s' = [r EXCEPT !.failures = HandedOff(r.failures)] \/ s' = GiveUp(f)
      BY <1>8, <2>1, <2>2, <2>3 DEF TurnLosesConnection
    <2>5. Settled
      BY <1>6, <2>3, <2>4, GiveUpTyped, MovePoints, ZenonT(60) DEF Settled
    <2>6. QED
      BY <1>4, <1>8, <2>5 DEF TurnLosesConnection
  <1>9. CASE TurnFails
    <2>1. PICK f \in Fields : f = Failed
      BY <1>4, <1>9 DEF TurnFails
    <2>2. PICK n \in Nat : n = f.retryCount
      BY <1>7, <2>1
    <2>3. PICK r : r = RetryTurn(f, n)
      OBVIOUS
    <2>4. s' = r \/ s' = GiveUp(f)
      BY <1>9, <2>1, <2>2, <2>3 DEF TurnFails
    <2>5. Settled
      BY <1>6, <2>3, <2>4, GiveUpTyped, MovePoints DEF Settled
    <2>6. QED
      BY <1>4, <1>9, <2>5 DEF TurnFails
  <1>10. QED
    BY <1>2, <1>5, <1>8, <1>9, PlainIsOutcome, OutcomeAssumption DEF Turn

(* What decide starts from.                                                *)
LEMMA DecidedTyped == ASSUME s \in Fields PROVE Decided \in Fields
  BY CronsDrainedTyped DEF Decided

LEMMA PoppedTyped == ASSUME s \in Fields, s.fifo # <<>> PROVE Popped \in Fields
  <1>1. PICK d \in Fields : d = Decided
    BY DecidedTyped
  <1>2. d.fifo = s.fifo
    BY <1>1 DEF Decided, drainLeadingQueuedCronActions, Fields
  <1>3. Tail(d.fifo) \in Items
    BY <1>2, HeadTailProperties DEF Fields, Items
  <1>4. [d EXCEPT !.fifo = Tail(d.fifo)] \in Fields
    BY <1>3, Zenon DEF Fields
  <1>5. QED
    BY <1>1, <1>4 DEF Popped

LEMMA InterruptionsTyped == ASSUME NEW m \in Fields PROVE Interruptions(m) \subseteq Fields
  <1>1. "none" \in Timer /\ {} \in Children
    BY Blank, Literals
  <1>2. ASSUME NEW t \in {"zero", "some"}
        PROVE  /\ [m EXCEPT !.timer = "none", !.heldWait = t] \in Fields
               /\ [m EXCEPT !.timer = "none", !.heldCron = t] \in Fields
    <2>1. t \in Left
      BY Literals
    <2>2. QED
      BY <1>1, <2>1, Zenon DEF Fields
  <1>3. [m EXCEPT !.timer = "none"] \in Fields /\ [m EXCEPT !.timer = "none", !.awaited = {}] \in Fields
    BY <1>1, Zenon DEF Fields
  <1>4. QED
    BY <1>2, <1>3 DEF Interruptions

(* A shutdown polled once more.                                            *)
LEMMA AgedTyped ==
    ASSUME NEW m \in Fields, m.shutdown # NoShutdown, NEW age \in 0 .. ShutdownPolls
    PROVE  [m EXCEPT !.shutdown.age = age, !.timer = "agent-poll", !.status = "waiting"] \in Fields
  <1>1. PICK shutdown \in Shutdown : shutdown = m.shutdown
    BY DEF Fields
  <1>2. [shutdown EXCEPT !.age = age] \in Shutdown
    BY <1>1 DEF Shutdown
  <1>3. "agent-poll" \in Timer /\ "waiting" \in Status
    BY Literals
  <1>4. [m EXCEPT !.shutdown = [shutdown EXCEPT !.age = age], !.timer = "agent-poll",
                  !.status = "waiting"] \in Fields
    BY <1>2, <1>3, Zenon DEF Fields
  <1>5. QED
    BY <1>1, <1>4

LEMMA PolledShutdown == ASSUME NEW m \in Fields PROVE Polled(m).shutdown = m.shutdown
  BY DEF Polled, Fields

LEMMA PoppedShutdown ==
    ASSUME s \in Fields PROVE Popped.shutdown = s.shutdown
  <1>1. PICK d \in Fields : d = Decided
    BY DecidedTyped
  <1>2. d.shutdown = s.shutdown
    BY <1>1 DEF Decided, drainLeadingQueuedCronActions, Fields
  <1>3. QED
    BY <1>1, <1>2 DEF Popped, Fields

LEMMA NextIterationShutdown == ASSUME NEW m \in Fields PROVE NextIteration(m).shutdown = m.shutdown
  BY DEF NextIteration, Fields

LEMMA DecideTyped ==
    ASSUME TypeOK, s \in Fields, Decide
    PROVE  /\ Awoken /\ UNCHANGED <<messages, sent>>
           /\ child' \in [Child -> ChildStatus] /\ told' \in [Child -> {"none"} \union Signal]
  <1>1. child \in [Child -> ChildStatus] /\ told \in [Child -> {"none"} \union Signal]
    BY DEF TypeOK
  <1>2. PICK d \in Fields : d = Decided
    BY DecidedTyped
  <1>3. CASE ReplayToolAction
    <2>1. Tail(d.toolActions) \in Actions
      BY <1>2, <1>3, HeadTailProperties DEF ReplayToolAction, Fields, Actions
    <2>2. [d EXCEPT !.toolActions = Tail(d.toolActions)] \in Fields
      BY <2>1, Zenon DEF Fields
    <2>3. HandleTurnResult([d EXCEPT !.toolActions = Tail(d.toolActions)], Head(d.toolActions))
          /\ UNCHANGED <<messages, sent>>
      BY <1>2, <1>3 DEF ReplayToolAction
    <2>4. QED
      BY <2>2, <2>3, ResultSettles, SettledAwoken
  <1>4. CASE TakePendingPrompt
    <2>1. {} \in Texts /\ s.pendingPrompt \in Texts
      BY Blank DEF Fields
    <2>2. [d EXCEPT !.pendingPrompt = {}] \in Fields
      BY <2>1, Zenon DEF Fields
    <2>3. StartTurn([d EXCEPT !.pendingPrompt = {}], s.pendingPrompt)
          /\ UNCHANGED <<messages, sent, child, told>>
      BY <1>2, <1>4 DEF TakePendingPrompt
    <2>4. Awoken
      BY <2>1, <2>2, <2>3, StartAwakes
    <2>5. QED
      BY <1>1, <2>3, <2>4
  <1>5. ASSUME NEW item, Popping(item)
        PROVE  /\ Popped \in Fields /\ UNCHANGED <<messages, sent>>
               /\ child' \in [Child -> ChildStatus] /\ told' \in [Child -> {"none"} \union Signal]
    BY <1>1, <1>5, PoppedTyped DEF Popping
  <1>6. CASE ProcessPrompt
    BY <1>5, <1>6, StartAwakes, Literals DEF ProcessPrompt
  <1>7. CASE ProcessAnswer
    <2>1. PICK m \in Fields : m = Popped
      BY <1>5, <1>7 DEF ProcessAnswer
    <2>2. [m EXCEPT !.question = FALSE] \in Fields
      BY Blank, Zenon DEF Fields
    <2>3. {"answer"} \in Texts
      BY Literals
    <2>4. Awoken
      BY <1>7, <2>1, <2>2, <2>3, StartAwakes DEF ProcessAnswer
    <2>5. QED
      BY <1>5, <1>7, <2>4 DEF ProcessAnswer
  <1>8. CASE ProcessWaitTimer
    BY <1>5, <1>8, StartAwakes, Literals DEF ProcessWaitTimer, Fired
  <1>9. CASE ProcessCronTimer
    <2>1. PICK m \in Fields : m = Popped
      BY <1>5, <1>9 DEF ProcessCronTimer, Fired
    <2>2. m.status \in Status
      BY DEF Fields
    <2>3. (\E parts \in Texts : StartTurn(m, parts)) \/ Crash(m, m.status)
      BY <1>9, <2>1, Literals DEF ProcessCronTimer, WakeUps
    <2>4. Awoken
      BY <2>2, <2>3, StartAwakes, CrashSettles, SettledAwoken, Literals
    <2>5. QED
      BY <1>5, <1>9, <2>4 DEF ProcessCronTimer, Fired
  <1>10. ASSUME NEW m \in Fields, s' \in Dehydrations(NextIteration(m)) PROVE Awoken
    <2>1. PICK n \in Fields : n = NextIteration(m) /\ n.pc = "loop"
      BY NextIterationTyped, MovePoints
    <2>2. QED
      BY <1>10, <2>1, DehydrationsTyped, StayPoints DEF Awoken
  <1>11. CASE ProcessIdleTimer
    BY <1>5, <1>10, <1>11 DEF ProcessIdleTimer, Fired
  <1>12. CASE ProcessGraceTimer
    BY <1>5, <1>10, <1>12 DEF ProcessGraceTimer, Fired
  <1>13. CASE ProcessStalePoll
    BY <1>5, <1>13, NextIterationTyped, MovePoints DEF ProcessStalePoll, Fired, Awoken
  <1>14. ASSUME NEW item, Popping(item), NEW p, p = Polled(Popped)
         PROVE  p \in Fields /\ p.shutdown = s.shutdown
    <2>1. PICK q \in Fields : q = Popped
      BY <1>5, <1>14
    <2>2. p = Polled(q) /\ q.shutdown = s.shutdown
      BY <1>14, <2>1, PoppedShutdown
    <2>3. QED
      BY <1>1, <2>1, <2>2, PolledTyped, PolledShutdown
  <1>15. CASE ProcessPollResolved
    <2>1. PICK p : p = Polled(Popped)
      OBVIOUS
    <2>2. PICK m \in Fields : m = ResolveAgentWait(p)
      BY <1>14, <1>15, <2>1, ResolveTyped DEF ProcessPollResolved, Fired
    <2>3. s' = NextIteration(m) \/ s' = [m EXCEPT !.pc = "ended"]
      BY <1>15, <2>1, <2>2 DEF ProcessPollResolved
    <2>4. "ended" \in Point
      BY Literals
    <2>5. [m EXCEPT !.pc = "ended"] \in Fields
      BY <2>4, Zenon DEF Fields
    <2>6. [m EXCEPT !.pc = "ended"].pc = "ended"
      BY DEF Fields
    <2>7. Awoken
      BY <2>3, <2>5, <2>6, NextIterationTyped, MovePoints DEF Awoken
    <2>8. QED
      BY <1>5, <1>15, <2>7 DEF ProcessPollResolved, Fired
  <1>16. CASE ProcessPollAgain
    <2>1. PICK p \in Fields : p = Polled(Popped)
      BY <1>14, <1>16 DEF ProcessPollAgain, Fired
    <2>2. PICK n \in Fields : n = NextIteration(p) /\ n.pc = "loop"
      BY NextIterationTyped, MovePoints
    <2>3. s' = [n EXCEPT !.timer = "agent-poll"]
      BY <1>16, <2>1, <2>2 DEF ProcessPollAgain
    <2>4. "agent-poll" \in Timer
      BY Literals
    <2>5. [n EXCEPT !.timer = "agent-poll"] \in Fields
      BY <2>4, Zenon DEF Fields
    <2>6. Awoken
      BY <2>2, <2>3, <2>5 DEF Awoken, Fields
    <2>7. QED
      BY <1>5, <1>16, <2>6 DEF ProcessPollAgain, Fired
  <1>17. CASE ProcessShutdownPoll
    <2>1. PICK p \in Fields : p = Polled(Popped) /\ p.shutdown = s.shutdown
      BY <1>14, <1>17 DEF ProcessShutdownPoll, Fired
    <2>2. PICK n \in Fields : n = NextIteration(p) /\ n.pc = "loop" /\ n.shutdown = p.shutdown
      BY NextIterationTyped, MovePoints, NextIterationShutdown
    <2>3. s.shutdown # NoShutdown
      BY <1>17 DEF ProcessShutdownPoll
    <2>4. PICK age \in s.shutdown.age + 1 .. ShutdownPolls :
            \/ s' = failPendingShutdown(p)
            \/ s' = [n EXCEPT !.shutdown.age = age, !.timer = "agent-poll", !.status = "waiting"]
      BY <1>17, <2>1, <2>2 DEF ProcessShutdownPoll
    <2>5. age \in 0 .. ShutdownPolls
      <3>1. PICK passed \in 0 .. ShutdownPolls : passed = s.shutdown.age
        BY <2>3, ShutdownParts
      <3>2. age \in passed + 1 .. ShutdownPolls
        BY <2>4, <3>1
      <3>3. QED
        BY <3>2, Bounds
    <2>6. failPendingShutdown(p) \in Fields /\ failPendingShutdown(p).pc = "ended"
      <3>1. PICK k \in Fields : k = Respond(p, p.shutdown.cmd)
        BY <2>1, <2>3, RespondTyped, ShutdownParts
      <3>2. failPendingShutdown(p).pc = "ended"
        BY <3>1 DEF failPendingShutdown, Fields
      <3>3. QED
        BY <2>1, <2>3, <3>2, FailureTyped
    <2>7. [n EXCEPT !.shutdown.age = age, !.timer = "agent-poll", !.status = "waiting"] \in Fields
      BY <2>1, <2>2, <2>3, <2>5, AgedTyped
    <2>8. [n EXCEPT !.shutdown.age = age, !.timer = "agent-poll", !.status = "waiting"].pc = "loop"
      BY <2>2 DEF Fields
    <2>9. Awoken
      BY <2>4, <2>6, <2>7, <2>8 DEF Awoken
    <2>10. QED
      BY <1>5, <1>17, <2>9 DEF ProcessShutdownPoll, Fired
  <1>18. CASE ProcessDigest
    <2>1. PICK m \in Fields : StartTurn([m EXCEPT !.digest = "none"], {"system"})
      BY <1>2, <1>18, InterruptionsTyped DEF ProcessDigest
    <2>2. [m EXCEPT !.digest = "none"] \in Fields
      <3>1. "none" \in Digest
        BY Literals
      <3>2. QED
        BY <3>1, Zenon DEF Fields
    <2>3. Awoken
      BY <2>1, <2>2, StartAwakes, Literals
    <2>4. QED
      BY <1>1, <1>18, <2>3 DEF ProcessDigest, NothingPopped
  <1>19. CASE DecideNothing
    <2>1. s' = NextIteration(d) \/ s' = ContinueAsNew(d)
      BY <1>2, <1>19 DEF DecideNothing
    <2>2. Awoken
      BY <2>1, NextIterationTyped, ContinueAsNewTyped, MovePoints DEF Awoken
    <2>3. QED
      BY <1>1, <1>19, <2>2 DEF DecideNothing, NothingPopped
  <1>20. QED
    BY <1>3, <1>4, <1>6, <1>7, <1>8, <1>9, <1>11, <1>12, <1>13, <1>15, <1>16, <1>17, <1>18, <1>19
       DEF Decide

----------------------------------------------------------------------------
(* The actions of the loop outside turn and decide.                        *)

(* A blocked session has taken nothing in this drain.                      *)
Awake == s.pc = "parked" => s.drained = 0

(* The bookkeeping of the drain.                                           *)
LEMMA LeaveDrainTyped ==
    ASSUME NEW m \in Fields PROVE LeaveDrain(m) \in Fields /\ LeaveDrain(m).pc # "parked"
  <1>1. PICK n \in Fields : n = FlushStash(m)
    BY FlushTyped
  <1>2. PICK point \in Point : point = (IF m.result = "none" THEN "decide" ELSE "ended")
    BY Literals
  <1>3. [n EXCEPT !.pc = point, !.drained = 0, !.seen = {}] \in Fields
    BY Blank, Zenon DEF Fields
  <1>4. LeaveDrain(m) = [n EXCEPT !.pc = point, !.drained = 0, !.seen = {}]
    BY <1>1, <1>2, Zenon DEF LeaveDrain
  <1>5. LeaveDrain(m).pc # "parked"
    BY <1>2, <1>4 DEF Fields
  <1>6. QED
    BY <1>3, <1>4, <1>5

LEMMA AppendTyped ==
    ASSUME NEW m \in Fields, NEW item \in Item
    PROVE  Append(m.stash, item) \in Items
  BY AppendProperties DEF Fields, Items

LEMMA ItemKinds ==
    /\ \A timer \in Timer \ {"none"} : [kind |-> "timer", timer |-> timer] \in Item
    /\ [kind |-> "answer"] \in Item
    /\ \A p \in Prompt : [kind |-> "prompt", parts |-> {p}] \in Item
  BY DEF Item, Part

LEMMA StepTyped ==
    ASSUME TypeOK, s \in Fields,
           IterationCap \/ HistoryCap \/ StartDrain \/ TimerFires \/ DigestDue \/ Park \/ EndDrain
    PROVE  /\ s' \in Fields /\ (s'.pc = "parked" => s'.drained = 0)
           /\ UNCHANGED <<messages, sent, child, told>>
  <1>1. CASE IterationCap \/ HistoryCap
    BY <1>1, ContinueAsNewTyped, MovePoints DEF IterationCap, HistoryCap
  <1>2. CASE StartDrain
    <2>1. s.loop + 1 \in Loops /\ "drain" \in Point
      BY <1>2, Bounds, Literals DEF StartDrain, Fields, Loops
    <2>2. [s EXCEPT !.pc = "drain", !.loop = s.loop + 1, !.drained = 0, !.seen = {}] \in Fields
      BY <2>1, Blank, Zenon DEF Fields
    <2>3. QED
      BY <1>2, <2>2 DEF StartDrain, Fields
  <1>3. CASE TimerFires
    <2>1. s.drained + 1 \in Drains /\ "none" \in Timer
      BY <1>3, Bounds, Literals DEF TimerFires, Draining, Fields, Drains
    <2>2. [kind |-> "timer", timer |-> s.timer] \in Item
      BY <1>3, ItemKinds DEF TimerFires, Fields
    <2>3. PICK stash \in Items : stash = Append(s.stash, [kind |-> "timer", timer |-> s.timer])
      BY <2>2, AppendTyped
    <2>4. [s EXCEPT !.stash = stash, !.timer = "none", !.drained = s.drained + 1] \in Fields
      BY <2>1, Zenon DEF Fields
    <2>5. s' = [s EXCEPT !.stash = stash, !.timer = "none", !.drained = s.drained + 1]
      BY <1>3, <2>3 DEF TimerFires
    <2>6. s.pc = "drain" /\ UNCHANGED <<messages, sent, child, told>>
      BY <1>3 DEF TimerFires, Draining
    <2>7. QED
      BY <2>4, <2>5, <2>6 DEF Fields
  <1>4. CASE DigestDue
    <2>1. "ready" \in Digest
      BY Literals
    <2>2. [s EXCEPT !.digest = "ready"] \in Fields
      BY <2>1, Zenon DEF Fields
    <2>3. QED
      BY <1>4, <2>2, LeaveDrainTyped DEF DigestDue
  <1>5. CASE Park
    <2>1. PICK status \in Status : status = (IF s.question THEN "input_required" ELSE "idle")
      BY Literals
    <2>2. "parked" \in Point
      BY Literals
    <2>3. [s EXCEPT !.pc = "parked", !.status = status] \in Fields
      BY <2>2, Zenon DEF Fields
    <2>4. s' = [s EXCEPT !.pc = "parked", !.status = status]
      BY <1>5, <2>1 DEF Park
    <2>5. s.drained = 0 /\ UNCHANGED <<messages, sent, child, told>>
      BY <1>5 DEF Park
    <2>6. QED
      BY <2>3, <2>4, <2>5 DEF Fields
  <1>6. CASE EndDrain
    BY <1>6, LeaveDrainTyped DEF EndDrain
  <1>7. QED
    BY <1>1, <1>2, <1>3, <1>4, <1>5, <1>6

LEMMA TakeTyped ==
    ASSUME TypeOK, s \in Fields, Awake, NEW message, Take(message)
    PROVE  /\ messages' \in Seq(Message) /\ sent' = sent /\ message \in Message
           /\ Dequeued \in Fields /\ Dequeued.pc = "drain"
  <1>1. messages \in Seq(Message) /\ messages # <<>>
    BY DEF TypeOK, Take, MayDequeue
  <1>2. Head(messages) \in Message /\ Tail(messages) \in Seq(Message)
    BY <1>1, HeadTailProperties
  <1>3. s.drained < MAX_DRAIN_PER_TURN
    BY Bounds DEF Take, MayDequeue, Draining, Awake
  <1>4. s.drained + 1 \in Drains /\ "drain" \in Point
    BY <1>3, Bounds, Literals DEF Fields, Drains
  <1>5. Dequeued \in Fields
    BY <1>4, Zenon DEF Dequeued, Fields
  <1>6. Dequeued.pc = "drain"
    BY DEF Dequeued, Fields
  <1>7. QED
    BY <1>2, <1>5, <1>6 DEF Take

LEMMA AfterCommandTyped ==
    ASSUME NEW m \in Fields, m.pc # "parked"
    PROVE  AfterCommand(m) \in Fields /\ AfterCommand(m).pc # "parked"
  <1>1. "ended" \in Point
    BY Literals
  <1>2. [m EXCEPT !.pc = "ended"] \in Fields
    BY <1>1, Zenon DEF Fields
  <1>3. [m EXCEPT !.pc = "ended"].pc = "ended"
    BY DEF Fields
  <1>4. QED
    BY <1>2, <1>3 DEF AfterCommand

LEMMA StatusTyped ==
    ASSUME NEW m \in Fields, NEW status \in Status
    PROVE  [m EXCEPT !.status = status] \in Fields /\ [m EXCEPT !.status = status].pc = m.pc
  <1>1. [m EXCEPT !.status = status] \in Fields
    BY Zenon DEF Fields
  <1>2. QED
    BY <1>1 DEF Fields

LEMMA DequeueTyped ==
    ASSUME TypeOK, s \in Fields, Awake, Dequeue
    PROVE  /\ Awoken /\ messages' \in Seq(Message) /\ sent' = sent
           /\ child' = child /\ told' \in [Child -> {"none"} \union Signal]
  <1>1. child \in [Child -> ChildStatus] /\ told \in [Child -> {"none"} \union Signal]
    BY DEF TypeOK
  <1>2. CASE \E p \in Prompt : RoutePrompt(p)
    <2>1. PICK p \in Prompt : RoutePrompt(p)
      BY <1>2
    <2>2. Take([kind |-> "prompt", prompt |-> p]) /\ UNCHANGED <<child, told>>
      BY <2>1 DEF RoutePrompt
    <2>3. PICK m \in Fields :
            /\ m \in Interruptions(Dequeued)
            /\ s' = [m EXCEPT !.digest = "none",
                              !.stash = Append(m.stash, [kind |-> "prompt", parts |-> {p}])]
      BY <2>1, <2>2, TakeTyped, InterruptionsTyped DEF RoutePrompt
    <2>4. m.pc = "drain"
      <3>1. PICK d \in Fields : d = Dequeued /\ d.pc = "drain"
        BY <2>2, TakeTyped
      <3>2. QED
        BY <2>3, <3>1, ZenonT(60) DEF Interruptions, Fields
    <2>5. PICK stash \in Items : stash = Append(m.stash, [kind |-> "prompt", parts |-> {p}])
      BY AppendTyped, ItemKinds
    <2>6. "none" \in Digest
      BY Literals
    <2>7. [m EXCEPT !.digest = "none", !.stash = stash] \in Fields
      BY <2>6, Zenon DEF Fields
    <2>8. s' = [m EXCEPT !.digest = "none", !.stash = stash]
      BY <2>3, <2>5
    <2>9. Awoken
      BY <2>4, <2>7, <2>8 DEF Awoken, Fields
    <2>10. QED
      BY <1>1, <2>2, <2>9, TakeTyped
  <1>3. CASE RouteAnswer
    <2>1. Take([kind |-> "answer"]) /\ UNCHANGED <<child, told>>
      BY <1>3 DEF RouteAnswer
    <2>2. PICK d \in Fields : d = Dequeued /\ d.pc = "drain"
      BY <2>1, TakeTyped
    <2>3. PICK stash \in Items : stash = Append(d.stash, [kind |-> "answer"])
      BY AppendTyped, ItemKinds
    <2>4. [d EXCEPT !.stash = stash] \in Fields
      BY Zenon DEF Fields
    <2>5. s' = [d EXCEPT !.stash = stash]
      BY <1>3, <2>2, <2>3 DEF RouteAnswer
    <2>6. Awoken
      BY <2>2, <2>4, <2>5 DEF Awoken, Fields
    <2>7. QED
      BY <1>1, <2>1, <2>6, TakeTyped
  <1>4. CASE \E c \in Child, kind \in {"completed", "cancelled", "wait"} : RouteChildUpdate(c, kind)
    <2>1. PICK c \in Child, kind \in {"completed", "cancelled", "wait"} : RouteChildUpdate(c, kind)
      BY <1>4
    <2>2. Take(Update(c, kind)) /\ UNCHANGED <<child, told>>
      BY <2>1 DEF RouteChildUpdate
    <2>3. PICK d \in Fields : d = Dequeued /\ d.pc = "drain"
      BY <2>2, TakeTyped
    <2>4. PICK e \in Fields : e = [d EXCEPT !.seen = d.seen \union {<<c, kind>>}] /\ e.pc = "drain"
      <3>1. d.seen \union {<<c, kind>>} \in Seen
        BY DEF Fields, Seen
      <3>2. [d EXCEPT !.seen = d.seen \union {<<c, kind>>}] \in Fields
        BY <3>1, Zenon DEF Fields
      <3>3. [d EXCEPT !.seen = d.seen \union {<<c, kind>>}].pc = "drain"
        BY <2>3 DEF Fields
      <3>4. QED
        BY <3>2, <3>3
    <2>5. PICK f \in Fields : f = ApplyChildUpdate(e, c, kind) /\ f.pc = "drain"
      <3>1. ApplyChildUpdate(e, c, kind) \in Fields
        BY <1>1, ChildUpdateTyped
      <3>2. \A k, u : ApplyChildUpdate(e, k, u).pc = e.pc
        BY StayPoints
      <3>3. QED
        BY <2>4, <3>1, <3>2
    <2>6. PICK g \in Fields : g = BufferChildUpdate(f) /\ g.pc = "drain"
      BY <2>5, BufferTyped, StayPoints
    <2>7. PICK h \in Fields : h = ResolveAgentWait(g) /\ h.pc = "drain"
      BY <2>6, ResolveTyped, StayPoints
    <2>8. s' = h \/ s' = d
      BY <2>1, <2>3, <2>4, <2>5, <2>6, <2>7 DEF RouteChildUpdate
    <2>9. Awoken
      BY <2>3, <2>7, <2>8 DEF Awoken
    <2>10. QED
      BY <1>1, <2>2, <2>9, TakeTyped
  <1>5. ASSUME NEW c \in Command, Take([kind |-> "cmd", cmd |-> c])
        PROVE  /\ messages' \in Seq(Message) /\ sent' = sent
               /\ FlushStash(Dequeued) \in Fields /\ FlushStash(Dequeued).pc = "drain"
    <2>1. PICK d \in Fields : d = Dequeued /\ d.pc = "drain"
      BY <1>5, TakeTyped
    <2>2. FlushStash(d) \in Fields /\ FlushStash(d).pc = "drain"
      BY <2>1, FlushTyped, StayPoints
    <2>3. QED
      BY <1>5, <2>1, <2>2, TakeTyped
  <1>6. ASSUME NEW c \in Command, Take([kind |-> "cmd", cmd |-> c]), NEW r, r = Respond(FlushStash(Dequeued), c)
        PROVE  r \in Fields /\ r.pc = "drain"
    <2>1. PICK f \in Fields : f = FlushStash(Dequeued) /\ f.pc = "drain"
      BY <1>5, <1>6
    <2>2. QED
      BY <1>6, <2>1, RespondTyped, StayPoints
  <1>7. CASE \E c \in Command : RouteQuery(c)
    <2>1. PICK c \in Command : RouteQuery(c)
      BY <1>7
    <2>2. PICK r \in Fields : r = Respond(FlushStash(Dequeued), c) /\ r.pc = "drain"
      BY <1>6, <2>1 DEF RouteQuery
    <2>3. PICK t \in Fields : t = [r EXCEPT !.status = "idle"] /\ t.pc = "drain"
      BY <2>2, StatusTyped, Literals
    <2>4. Awoken
      BY <2>1, <2>2, <2>3, AfterCommandTyped DEF RouteQuery, Awoken
    <2>5. QED
      BY <1>1, <1>5, <2>1, <2>4 DEF RouteQuery
  <1>8. CASE \E c \in Command : RouteSetModel(c)
    <2>1. PICK c \in Command : RouteSetModel(c)
      BY <1>8
    <2>2. PICK r \in Fields : r = Respond(FlushStash(Dequeued), c) /\ r.pc = "drain"
      BY <1>6, <2>1 DEF RouteSetModel
    <2>3. PICK n \in Fields : n = ContinueAsNew(r) /\ n.pc = "loop"
      BY ContinueAsNewTyped, MovePoints
    <2>4. [n EXCEPT !.status = "idle"] \in Fields /\ [n EXCEPT !.status = "idle"].pc = "loop"
      BY <2>3, StatusTyped, Literals
    <2>5. Awoken
      BY <2>1, <2>2, <2>3, <2>4 DEF RouteSetModel, Awoken
    <2>6. QED
      BY <1>1, <1>5, <2>1, <2>5 DEF RouteSetModel
  <1>9. CASE \E c \in Command : RouteSecondShutdown(c)
    <2>1. PICK c \in Command : RouteSecondShutdown(c)
      BY <1>9
    <2>2. PICK r \in Fields : r = Respond(FlushStash(Dequeued), c) /\ r.pc = "drain"
      BY <1>6, <2>1 DEF RouteSecondShutdown
    <2>3. [r EXCEPT !.status = "waiting"] \in Fields /\ [r EXCEPT !.status = "waiting"].pc = "drain"
      BY <2>2, StatusTyped, Literals
    <2>4. Awoken
      BY <2>1, <2>2, <2>3 DEF RouteSecondShutdown, Awoken
    <2>5. QED
      BY <1>1, <1>5, <2>1, <2>4 DEF RouteSecondShutdown
  <1>10. ASSUME NEW c \in Command, Take([kind |-> "cmd", cmd |-> c])
         PROVE  \A m \in Refreshes(FlushStash(Dequeued)) : m \in Fields /\ m.pc = "drain"
    <2>1. PICK f \in Fields : f = FlushStash(Dequeued) /\ f.pc = "drain"
      BY <1>5, <1>10
    <2>2. QED
      BY <1>1, <2>1, RefreshesTyped, StayPoints
  <1>11. CASE \E c \in Command : RouteShutdownNow(c)
    <2>1. PICK c \in Command : RouteShutdownNow(c)
      BY <1>11
    <2>2. PICK m \in Fields : s' = [FinishShutdown(m, cmdOf[c], c) EXCEPT !.pc = "ended"]
      BY <1>10, <2>1 DEF RouteShutdownNow
    <2>3. cmdOf[c] \in Signal
      BY <2>1 DEF RouteShutdownNow, Signal
    <2>4. PICK n \in Fields : n = FinishShutdown(m, cmdOf[c], c)
      BY <2>3, FinishTyped
    <2>5. "ended" \in Point
      BY Literals
    <2>6. [n EXCEPT !.pc = "ended"] \in Fields
      BY <2>5, Zenon DEF Fields
    <2>7. Awoken
      BY <2>2, <2>4, <2>6 DEF Awoken, Fields
    <2>8. QED
      BY <1>1, <1>5, <2>1, <2>7 DEF RouteShutdownNow
  <1>12. CASE \E c \in Command : RouteShutdownCascade(c)
    <2>1. PICK c \in Command : RouteShutdownCascade(c)
      BY <1>12
    <2>2. PICK m \in Fields, targets \in SUBSET Child, reached \in SUBSET Child :
            /\ m.pc = "drain"
            /\ told' = [k \in Child |-> IF k \notin reached THEN told[k]
                                        ELSE IF cmdOf[c] = "done" THEN "done" ELSE "cancel"]
            /\ s' = AfterCommand(
                      [m EXCEPT !.shutdown = [mode |-> cmdOf[c], cmd |-> c, age |-> 0],
                                !.awaited = targets, !.digest = "none",
                                !.timer = "agent-poll", !.status = "waiting"])
      <3>1. PICK m \in Refreshes(FlushStash(Dequeued)) :
              LET targets == Live(m, Child) IN
              /\ \E reached \in SUBSET targets :
                   told' = [k \in Child |-> IF k \notin reached THEN told[k]
                                            ELSE IF cmdOf[c] = "done" THEN "done" ELSE "cancel"]
              /\ s' = AfterCommand(
                        [m EXCEPT !.shutdown = [mode |-> cmdOf[c], cmd |-> c, age |-> 0],
                                  !.awaited = targets, !.digest = "none",
                                  !.timer = "agent-poll", !.status = "waiting"])
        BY <2>1 DEF RouteShutdownCascade
      <3>2. m \in Fields /\ m.pc = "drain"
        BY <1>10, <2>1 DEF RouteShutdownCascade
      <3>3. Live(m, Child) \in SUBSET Child
        BY DEF Live
      <3>4. QED
        BY <3>1, <3>2, <3>3
    <2>3. [mode |-> cmdOf[c], cmd |-> c, age |-> 0] \in Shutdown
      BY <2>1, Bounds DEF RouteShutdownCascade, Shutdown
    <2>4. targets \in Children /\ "none" \in Digest /\ "agent-poll" \in Timer /\ "waiting" \in Status
      BY Literals DEF Children
    <2>5. [m EXCEPT !.shutdown = [mode |-> cmdOf[c], cmd |-> c, age |-> 0],
                    !.awaited = targets, !.digest = "none",
                    !.timer = "agent-poll", !.status = "waiting"] \in Fields
      BY <2>3, <2>4, Zenon DEF Fields
    <2>6. [m EXCEPT !.shutdown = [mode |-> cmdOf[c], cmd |-> c, age |-> 0],
                    !.awaited = targets, !.digest = "none",
                    !.timer = "agent-poll", !.status = "waiting"].pc = "drain"
      BY <2>2 DEF Fields
    <2>7. Awoken
      BY <2>2, <2>5, <2>6, AfterCommandTyped DEF Awoken
    <2>8. told' \in [Child -> {"none"} \union Signal]
      BY <1>1, <2>2 DEF Signal
    <2>9. QED
      BY <1>1, <1>5, <2>1, <2>7, <2>8 DEF RouteShutdownCascade
  <1>13. QED
    BY <1>2, <1>3, <1>4, <1>7, <1>8, <1>9, <1>11, <1>12 DEF Dequeue

----------------------------------------------------------------------------
(* Users, clients and sub-agents.                                          *)

LEMMA EnqueueTyped ==
    ASSUME TypeOK, NEW message \in Message, Enqueue(message)
    PROVE  messages' \in Seq(Message)
  BY AppendProperties DEF TypeOK, Enqueue

LEMMA UpdateTyped ==
    ASSUME NEW c \in Child, NEW kind \in {"completed", "cancelled", "wait"}
    PROVE  Update(c, kind) \in Message
  BY DEF Update, Message

LEMMA ToolTyped ==
    ASSUME s \in Fields, ToolCalled PROVE s' \in Fields /\ s'.pc = "turn" /\ UNCHANGED <<messages, sent>>
  <1>1. s.surprises + 1 \in Surprises
    BY Bounds DEF ToolCalled, Fields, Surprises
  <1>2. [s EXCEPT !.surprises = s.surprises + 1] \in Fields
    BY <1>1, Zenon DEF Fields
  <1>3. QED
    BY <1>2 DEF ToolCalled, Fields

LEMMA EnvironmentTyped ==
    ASSUME TypeOK, s \in Fields, Environment
    PROVE  /\ messages' \in Seq(Message) /\ sent' \subseteq Prompt \union Command
           /\ child' \in [Child -> ChildStatus] /\ told' \in [Child -> {"none"} \union Signal]
           /\ s' = s \/ (s' \in Fields /\ s'.pc = "turn")
  <1>1. /\ messages \in Seq(Message) /\ sent \subseteq Prompt \union Command
        /\ child \in [Child -> ChildStatus] /\ told \in [Child -> {"none"} \union Signal]
    BY DEF TypeOK
  <1>2. CASE \E p \in Prompt : UserSends(p)
    <2>1. PICK p \in Prompt : UserSends(p)
      BY <1>2
    <2>2. [kind |-> "prompt", prompt |-> p] \in Message
      BY DEF Message
    <2>3. QED
      BY <1>1, <2>1, <2>2, EnqueueTyped DEF UserSends
  <1>3. CASE UserAnswers
    <2>1. [kind |-> "answer"] \in Message
      BY DEF Message
    <2>2. QED
      BY <1>1, <1>3, <2>1, EnqueueTyped DEF UserAnswers
  <1>4. CASE \E c \in Command : ClientCommands(c)
    <2>1. PICK c \in Command : ClientCommands(c)
      BY <1>4
    <2>2. [kind |-> "cmd", cmd |-> c] \in Message
      BY DEF Message
    <2>3. QED
      BY <1>1, <2>1, <2>2, EnqueueTyped DEF ClientCommands
  <1>5. CASE ChildStep
    <2>1. PICK c \in Child :
            \/ ChildCompletes(c) \/ ChildEnds(c) \/ ChildWaits(c) \/ ChildResumes(c)
            \/ ChildFails(c) \/ ChildObeys(c) \/ SpawnInTurn(c) \/ DeleteInTurn(c)
            \/ \E cmd \in Signal : SignalInTurn(c, cmd)
      BY <1>5 DEF ChildStep
    <2>2. /\ {"running", "finishing", "completed", "waiting", "resumed", "failed", "cancelled", "none"}
               \subseteq ChildStatus
      BY DEF ChildStatus, AgentStatus
    <2>3. CASE ChildCompletes(c)
      BY <1>1, <2>2, <2>3, UpdateTyped, EnqueueTyped DEF ChildCompletes
    <2>4. CASE ChildEnds(c) \/ ChildResumes(c) \/ ChildFails(c)
      BY <1>1, <2>2, <2>4 DEF ChildEnds, ChildResumes, ChildFails
    <2>5. CASE ChildWaits(c)
      BY <1>1, <2>2, <2>5, UpdateTyped, EnqueueTyped DEF ChildWaits
    <2>6. CASE ChildObeys(c)
      <3>1. told[c] \in {"done", "cancel", "delete"}
        BY <1>1, <2>6 DEF ChildObeys, Signal
      <3>2. PICK status \in ChildStatus : child' = [child EXCEPT ![c] = status]
        BY <2>2, <2>6, <3>1 DEF ChildObeys
      <3>3. PICK kind \in {"completed", "cancelled", "wait"} : Enqueue(Update(c, kind))
        BY <2>6 DEF ChildObeys
      <3>4. messages' \in Seq(Message)
        BY <3>3, UpdateTyped, EnqueueTyped
      <3>5. QED
        BY <1>1, <2>6, <3>2, <3>4 DEF ChildObeys
    <2>7. CASE SpawnInTurn(c)
      BY <1>1, <2>2, <2>7, ToolTyped DEF SpawnInTurn
    <2>8. CASE DeleteInTurn(c)
      BY <1>1, <2>2, <2>8, ToolTyped DEF DeleteInTurn
    <2>9. CASE \E cmd \in Signal : SignalInTurn(c, cmd)
      BY <1>1, <2>9, ToolTyped DEF SignalInTurn
    <2>10. QED
      BY <2>1, <2>3, <2>4, <2>5, <2>6, <2>7, <2>8, <2>9
  <1>6. QED
    BY <1>2, <1>3, <1>4, <1>5 DEF Environment

----------------------------------------------------------------------------
LEMMA InitTyped == Init => TypeOK /\ Awake
  <1> SUFFICES ASSUME Init PROVE TypeOK /\ Awake
    OBVIOUS
  <1>1. PICK input \in Inputs :
         s = [input |-> input, pc |-> "loop", loop |-> 0, drained |-> 0, seen |-> {},
              stash |-> <<>>, fifo |-> <<>>, timer |-> "none", pendingPrompt |-> {},
              toolActions |-> <<>>, turn |-> {}, heldWait |-> "none", heldCron |-> "none",
              cron |-> FALSE, question |-> FALSE, digest |-> "none",
              agents |-> [c \in Child |-> IF c \in InitialChild THEN "running" ELSE "none"],
              awaited |-> {}, shutdown |-> NoShutdown, needsHydration |-> FALSE,
              retryCount |-> 0, nudged |-> FALSE, status |-> "idle", result |-> "none",
              failures |-> NoFailures, surprises |-> 0, handled |-> {}, abandoned |-> {},
              responses |-> [c \in Command |-> 0]]
    BY DEF Init
  <1>2. PICK agents \in Agents :
          agents = [c \in Child |-> IF c \in InitialChild THEN "running" ELSE "none"]
    BY DEF Agents, AgentStatus
  <1>3. PICK responses \in Responses : responses = [c \in Command |-> 0]
    BY DEF Responses
  <1>4. "loop" \in Point /\ "none" \in Timer /\ "none" \in Left /\ "none" \in Digest
        /\ "idle" \in Status /\ "none" \in Result /\ NoShutdown \in Shutdown /\ {} \in Prompts
    BY Literals DEF Prompts
  <1>5. s \in Fields
    BY <1>1, <1>2, <1>3, <1>4, Blank, Zenon DEF Fields
  <1>6. s.pc = "loop"
    BY <1>1
  <1>7. /\ messages \in Seq(Message) /\ sent \subseteq Prompt \union Command
        /\ child \in [Child -> ChildStatus] /\ told \in [Child -> {"none"} \union Signal]
    BY DEF Init, ChildStatus, AgentStatus
  <1>8. QED
    BY <1>5, <1>6, <1>7, SessionFields DEF TypeOK, Awake

LEMMA NextTyped == TypeOK /\ Awake /\ [Next]_vars => TypeOK' /\ Awake'
  <1> SUFFICES ASSUME TypeOK, Awake, [Next]_vars PROVE TypeOK' /\ Awake'
    OBVIOUS
  <1>1. /\ s \in Fields /\ messages \in Seq(Message) /\ sent \subseteq Prompt \union Command
        /\ child \in [Child -> ChildStatus] /\ told \in [Child -> {"none"} \union Signal]
    BY SessionFields DEF TypeOK
  <1>2. SUFFICES /\ messages' \in Seq(Message) /\ sent' \subseteq Prompt \union Command
                 /\ child' \in [Child -> ChildStatus] /\ told' \in [Child -> {"none"} \union Signal]
                 /\ s' \in Fields /\ (s'.pc = "parked" => s'.drained = 0)
    BY SessionFields DEF TypeOK, Awake
  <1>3. CASE IterationCap \/ HistoryCap \/ StartDrain \/ TimerFires \/ DigestDue \/ Park \/ EndDrain
    BY <1>1, <1>3, StepTyped
  <1>4. CASE Dequeue
    BY <1>1, <1>4, DequeueTyped DEF Awoken
  <1>5. CASE Decide
    BY <1>1, <1>5, DecideTyped DEF Awoken
  <1>6. CASE Turn
    BY <1>1, <1>6, TurnTyped DEF Settled
  <1>7. CASE Environment
    BY <1>1, <1>7, EnvironmentTyped DEF Awake
  <1>8. CASE UNCHANGED vars
    BY <1>1, <1>8 DEF vars, Awake
  <1>9. QED
    BY <1>3, <1>4, <1>5, <1>6, <1>7, <1>8 DEF Next, Loop

(* Every variable of the session keeps its type: in particular the drain   *)
(* never takes more messages than its limit, which needs that a blocked    *)
(* session has not taken any, the iterations of an execution stay within   *)
(* their cap, and a queued action is one that may be replayed.             *)
THEOREM TypeCorrect == Spec => []TypeOK
  <1>1. Init => TypeOK /\ Awake
    BY InitTyped
  <1>2. TypeOK /\ Awake /\ [Next]_vars => (TypeOK /\ Awake)'
    BY NextTyped
  <1>3. QED
    BY <1>1, <1>2, PTL DEF Spec

----------------------------------------------------------------------------
(* The messages of users: where each may be, and how a step moves it.      *)

PromptMessage(p) == [kind |-> "prompt", prompt |-> p]
PromptItem(p) == [kind |-> "prompt", parts |-> {p}]

Within(q, x) == \E i \in 1 .. Len(q) : q[i] = x
Once(q, x) == \A i \in 1 .. Len(q) : \A j \in 1 .. Len(q) : q[i] = x /\ q[j] = x => i = j

LEMMA WithinAppend ==
    ASSUME NEW S, NEW q \in Seq(S), NEW y \in S, NEW x
    PROVE  /\ Within(Append(q, y), x) <=> Within(q, x) \/ y = x
           /\ Once(q, x) /\ (y = x => ~Within(q, x)) => Once(Append(q, y), x)
  <1>1. /\ Len(Append(q, y)) = Len(q) + 1 /\ Len(q) \in Nat
        /\ \A i \in 1 .. Len(q) : Append(q, y)[i] = q[i]
        /\ Append(q, y)[Len(q) + 1] = y
    BY AppendProperties
  <1>2. PICK r : r = Append(q, y)
    OBVIOUS
  <1>3. \A i \in 1 .. Len(r) : i \in 1 .. Len(q) \/ i = Len(q) + 1
    BY <1>1, <1>2
  <1>4. \A i \in 1 .. Len(q) : i \in 1 .. Len(r) /\ r[i] = q[i]
    BY <1>1, <1>2
  <1>5. Len(q) + 1 \in 1 .. Len(r) /\ r[Len(q) + 1] = y
    BY <1>1, <1>2
  <1>6. Within(r, x) <=> Within(q, x) \/ y = x
    BY <1>3, <1>4, <1>5 DEF Within
  <1>7. Once(q, x) /\ (y = x => ~Within(q, x)) => Once(r, x)
    BY <1>3, <1>4, <1>5 DEF Within, Once
  <1>8. QED
    BY <1>2, <1>6, <1>7

LEMMA WithinConcat ==
    ASSUME NEW S, NEW a \in Seq(S), NEW b \in Seq(S), NEW x
    PROVE  /\ Within(a \o b, x) <=> Within(a, x) \/ Within(b, x)
           /\ Once(a, x) /\ Once(b, x) /\ ~(Within(a, x) /\ Within(b, x)) => Once(a \o b, x)
  <1>1. /\ Len(a \o b) = Len(a) + Len(b) /\ Len(a) \in Nat /\ Len(b) \in Nat
        /\ \A i \in 1 .. Len(a) + Len(b) : (a \o b)[i] = IF i <= Len(a) THEN a[i] ELSE b[i - Len(a)]
    BY ConcatProperties
  <1>2. PICK c : c = a \o b
    OBVIOUS
  <1>3. \A i \in 1 .. Len(c) : \/ i \in 1 .. Len(a) /\ c[i] = a[i]
                               \/ i > Len(a) /\ i - Len(a) \in 1 .. Len(b) /\ c[i] = b[i - Len(a)]
    BY <1>1, <1>2
  <1>4. \A i \in 1 .. Len(a) : i \in 1 .. Len(c) /\ c[i] = a[i]
    BY <1>1, <1>2
  <1>5. \A i \in 1 .. Len(b) : Len(a) + i \in 1 .. Len(c) /\ c[Len(a) + i] = b[i]
    <2>1. ASSUME NEW i \in 1 .. Len(b) PROVE Len(a) + i \in 1 .. Len(c) /\ c[Len(a) + i] = b[i]
      <3>1. Len(a) + i \in 1 .. Len(a) + Len(b) /\ ~(Len(a) + i <= Len(a)) /\ Len(a) + i - Len(a) = i
        BY <1>1
      <3>2. QED
        BY <1>1, <1>2, <3>1
    <2>2. QED
      BY <2>1
  <1>6. Within(c, x) <=> Within(a, x) \/ Within(b, x)
    BY <1>3, <1>4, <1>5 DEF Within
  <1>7. ASSUME Once(a, x), Once(b, x), ~(Within(a, x) /\ Within(b, x)) PROVE Once(c, x)
    <2>1. SUFFICES ASSUME NEW i \in 1 .. Len(c), NEW j \in 1 .. Len(c), c[i] = x, c[j] = x
                   PROVE  i = j
      BY DEF Once
    <2>2. CASE i \in 1 .. Len(a) /\ c[i] = a[i] /\ j \in 1 .. Len(a) /\ c[j] = a[j]
      BY <1>7, <2>1, <2>2 DEF Once
    <2>3. CASE i - Len(a) \in 1 .. Len(b) /\ c[i] = b[i - Len(a)]
               /\ j - Len(a) \in 1 .. Len(b) /\ c[j] = b[j - Len(a)]
      <3>1. i - Len(a) = j - Len(a)
        BY <1>7, <2>1, <2>3 DEF Once
      <3>2. QED
        BY <1>1, <3>1
    <2>4. CASE i \in 1 .. Len(a) /\ c[i] = a[i] /\ j - Len(a) \in 1 .. Len(b) /\ c[j] = b[j - Len(a)]
      BY <1>7, <2>1, <2>4 DEF Within
    <2>5. CASE j \in 1 .. Len(a) /\ c[j] = a[j] /\ i - Len(a) \in 1 .. Len(b) /\ c[i] = b[i - Len(a)]
      BY <1>7, <2>1, <2>5 DEF Within
    <2>6. QED
      BY <1>3, <2>2, <2>3, <2>4, <2>5
  <1>8. QED
    BY <1>2, <1>6, <1>7

LEMMA WithinTail ==
    ASSUME NEW S, NEW q \in Seq(S), q # <<>>, NEW x
    PROVE  /\ Within(q, x) <=> Head(q) = x \/ Within(Tail(q), x)
           /\ Once(q, x) => Once(Tail(q), x)
           /\ Once(q, x) /\ Head(q) = x => ~Within(Tail(q), x)
  <1>1. /\ Head(q) = q[1] /\ Len(Tail(q)) = Len(q) - 1 /\ Len(q) \in Nat /\ Len(q) > 0
        /\ \A i \in 1 .. Len(q) - 1 : Tail(q)[i] = q[i + 1]
    BY HeadTailProperties, EmptySeq
  <1>2. PICK t : t = Tail(q)
    OBVIOUS
  <1>3. \A i \in 1 .. Len(t) : i + 1 \in 1 .. Len(q) /\ t[i] = q[i + 1] /\ i + 1 # 1
    BY <1>1, <1>2
  <1>4. \A i \in 1 .. Len(q) : i = 1 \/ (i - 1 \in 1 .. Len(t) /\ t[i - 1] = q[i])
    <2>1. ASSUME NEW i \in 1 .. Len(q), i # 1 PROVE i - 1 \in 1 .. Len(t) /\ t[i - 1] = q[i]
      <3>1. i - 1 \in 1 .. Len(q) - 1 /\ (i - 1) + 1 = i
        BY <1>1, <2>1
      <3>2. QED
        BY <1>1, <1>2, <3>1
    <2>2. QED
      BY <2>1
  <1>5. 1 \in 1 .. Len(q)
    BY <1>1
  <1>6. Within(q, x) <=> Head(q) = x \/ Within(t, x)
    BY <1>1, <1>3, <1>4, <1>5, SMTT(30) DEF Within
  <1>7. ASSUME Once(q, x) PROVE Once(t, x)
    <2>1. SUFFICES ASSUME NEW i \in 1 .. Len(t), NEW j \in 1 .. Len(t), t[i] = x, t[j] = x
                   PROVE  i = j
      BY DEF Once
    <2>2. i + 1 = j + 1
      BY <1>3, <1>7, <2>1 DEF Once
    <2>3. QED
      BY <2>2
  <1>8. Once(q, x) /\ Head(q) = x => ~Within(t, x)
    BY <1>1, <1>3, <1>5 DEF Once, Within
  <1>9. QED
    BY <1>2, <1>6, <1>7, <1>8

(* What a record of the session says of the messages of users.             *)
Pending(m) == m.pendingPrompt \intersect Prompt
Running(m) == m.turn \intersect Prompt
Past(m, n) == n.handled = m.handled /\ n.abandoned = m.abandoned
Rest(m, n) == n.stash = m.stash /\ n.fifo = m.fifo /\ Past(m, n)
Same(m, n) == Rest(m, n) /\ Pending(n) = Pending(m)

LEMMA NoTexts == \A part \in {"answer", "text", "system"} : {part} \intersect Prompt = {}
  BY PromptAssumption

LEMMA SameTwice == \A k, m, n : Same(k, m) /\ Same(m, n) => Same(k, n)
  BY DEF Same, Rest, Past

(* The helpers of the loop move none of them, save to end a turn.          *)
LEMMA HelpersSame ==
    ASSUME NEW m \in Fields
    PROVE  /\ Same(m, NextIteration(m)) /\ NextIteration(m).turn = {}
           /\ Same(m, ContinueAsNew(m)) /\ ContinueAsNew(m).turn = {}
           /\ \A d \in Dehydrations(m) : Same(m, d) /\ d.turn = m.turn
           /\ Same(m, queueFollowup(m)) /\ queueFollowup(m).turn = m.turn
           /\ Same(m, drainLeadingQueuedCronActions(m)) /\ drainLeadingQueuedCronActions(m).turn = m.turn
           /\ \A r \in Refreshes(m) : Same(m, r) /\ r.turn = m.turn
           /\ Same(m, Polled(m)) /\ Polled(m).turn = m.turn
           /\ Same(m, BufferChildUpdate(m)) /\ BufferChildUpdate(m).turn = m.turn
  <1>1. Same(m, NextIteration(m)) /\ NextIteration(m).turn = {}
    BY DEF NextIteration, Fields, Same, Rest, Past, Pending
  <1>2. Same(m, ContinueAsNew(m)) /\ ContinueAsNew(m).turn = {}
    BY DEF ContinueAsNew, Fields, Same, Rest, Past, Pending
  <1>3. \A d \in Dehydrations(m) : Same(m, d) /\ d.turn = m.turn
    BY DEF Dehydrations, Fields, Same, Rest, Past, Pending
  <1>4. Same(m, queueFollowup(m)) /\ queueFollowup(m).turn = m.turn
    <2>1. queueFollowup(m).pendingPrompt = m.pendingPrompt \union {"text"}
      BY DEF queueFollowup, Fields
    <2>2. Pending(queueFollowup(m)) = Pending(m)
      BY <2>1, NoTexts DEF Pending
    <2>3. Rest(m, queueFollowup(m)) /\ queueFollowup(m).turn = m.turn
      BY DEF queueFollowup, Fields, Rest, Past
    <2>4. QED
      BY <2>2, <2>3 DEF Same
  <1>5. Same(m, drainLeadingQueuedCronActions(m)) /\ drainLeadingQueuedCronActions(m).turn = m.turn
    BY DEF drainLeadingQueuedCronActions, Fields, Same, Rest, Past, Pending
  <1>6. \A r \in Refreshes(m) : Same(m, r) /\ r.turn = m.turn
    BY DEF Refreshes, Refreshed, Fields, Same, Rest, Past, Pending
  <1>7. Same(m, Polled(m)) /\ Polled(m).turn = m.turn
    BY DEF Polled, Fields, Same, Rest, Past, Pending
  <1>8. Same(m, BufferChildUpdate(m)) /\ BufferChildUpdate(m).turn = m.turn
    BY DEF BufferChildUpdate, Fields, Same, Rest, Past, Pending
  <1>9. QED
    BY <1>1, <1>2, <1>3, <1>4, <1>5, <1>6, <1>7, <1>8

LEMMA UpdatesSame ==
    ASSUME NEW m \in Fields, NEW c, NEW kind
    PROVE  Same(m, ApplyChildUpdate(m, c, kind)) /\ ApplyChildUpdate(m, c, kind).turn = m.turn
  BY DEF ApplyChildUpdate, Fields, Same, Rest, Past, Pending

LEMMA ShutdownsSame ==
    ASSUME NEW m \in Fields, NEW c \in Command
    PROVE  /\ Same(m, Respond(m, c)) /\ Respond(m, c).turn = m.turn
           /\ \A mode : Same(m, FinishShutdown(m, mode, c)) /\ FinishShutdown(m, mode, c).turn = m.turn
  <1>1. PICK n \in Fields : n = Respond(m, c)
    BY RespondTyped
  <1>2. Same(m, n) /\ n.turn = m.turn
    BY <1>1 DEF Respond, Fields, Same, Rest, Past, Pending
  <1>3. ASSUME NEW mode PROVE Same(n, FinishShutdown(m, mode, c)) /\ FinishShutdown(m, mode, c).turn = n.turn
    BY <1>1 DEF FinishShutdown, Fields, Same, Rest, Past, Pending
  <1>4. QED
    BY <1>1, <1>2, <1>3, SameTwice

LEMMA ResolveSame ==
    ASSUME NEW m \in Fields
    PROVE  Same(m, ResolveAgentWait(m)) /\ ResolveAgentWait(m).turn = m.turn
  <1>1. Same(m, m)
    BY DEF Same, Rest, Past
  <1>2. CASE Resolved(m) /\ m.shutdown # NoShutdown
    BY <1>2, ShutdownParts, ShutdownsSame DEF ResolveAgentWait
  <1>3. CASE Resolved(m) /\ m.shutdown = NoShutdown
    <2>1. PICK n \in Fields : n = queueFollowup(m) /\ Same(m, n) /\ n.turn = m.turn
      BY FollowupTyped, HelpersSame
    <2>2. ResolveAgentWait(m) = [n EXCEPT !.awaited = {}, !.digest = "none", !.timer = "none"]
      BY <1>3, <2>1 DEF ResolveAgentWait
    <2>3. Same(n, ResolveAgentWait(m)) /\ ResolveAgentWait(m).turn = n.turn
      BY <2>2 DEF Fields, Same, Rest, Past, Pending
    <2>4. QED
      BY <2>1, <2>3, SameTwice
  <1>4. QED
    BY <1>1, <1>2, <1>3 DEF ResolveAgentWait

LEMMA FailureSame ==
    ASSUME NEW m \in Fields, m.shutdown # NoShutdown
    PROVE  Same(m, failPendingShutdown(m)) /\ failPendingShutdown(m).turn = m.turn
  <1>1. PICK c \in Command : c = m.shutdown.cmd
    BY ShutdownParts
  <1>2. PICK n \in Fields : n = Respond(m, c) /\ Same(m, n) /\ n.turn = m.turn
    BY RespondTyped, ShutdownsSame
  <1>3. Same(n, failPendingShutdown(m)) /\ failPendingShutdown(m).turn = n.turn
    BY <1>1, <1>2 DEF failPendingShutdown, Fields, Same, Rest, Past, Pending
  <1>4. QED
    BY <1>2, <1>3, SameTwice

LEMMA InterruptionsSame ==
    ASSUME NEW m \in Fields, NEW n \in Interruptions(m)
    PROVE  Same(m, n) /\ n.turn = m.turn /\ n.pc = m.pc
  <1>1. m.timer = "wait" => \E t : n = [m EXCEPT !.timer = "none", !.heldWait = t]
    BY DEF Interruptions
  <1>2. m.timer = "cron" => \E t : n = [m EXCEPT !.timer = "none", !.heldCron = t]
    BY DEF Interruptions
  <1>3. \/ \E t : n = [m EXCEPT !.timer = "none", !.heldWait = t]
        \/ \E t : n = [m EXCEPT !.timer = "none", !.heldCron = t]
        \/ n = [m EXCEPT !.timer = "none"] \/ n = [m EXCEPT !.timer = "none", !.awaited = {}] \/ n = m
    BY <1>1, <1>2 DEF Interruptions
  <1>4. QED
    BY <1>3, ZenonT(60) DEF Fields, Same, Rest, Past, Pending

(* A turn that is given up or retried.                                     *)
LEMMA AbandonMoves ==
    ASSUME NEW m \in Fields, NEW n, n = Abandon(m) \/ n = GiveUp(m)
    PROVE  /\ n.stash = m.stash /\ n.fifo = m.fifo /\ n.handled = m.handled
           /\ n.abandoned = m.abandoned \union Running(m)
           /\ Pending(n) = Pending(m) /\ n.turn = {}
  <1>1. PICK k \in Fields : k = NextIteration(m) /\ Same(m, k) /\ k.turn = {}
    BY NextIterationTyped, HelpersSame
  <1>2. PICK a \in Fields : a = Abandon(m)
    BY AbandonTyped
  <1>3. /\ a.stash = k.stash /\ a.fifo = k.fifo /\ a.handled = k.handled /\ a.turn = k.turn
        /\ a.abandoned = k.abandoned \union Running(m) /\ a.pendingPrompt = k.pendingPrompt
    BY <1>1, <1>2 DEF Abandon, Fields, Running
  <1>4. n = a \/ n = [a EXCEPT !.retryCount = 0]
    BY <1>2 DEF GiveUp
  <1>5. /\ n.stash = a.stash /\ n.fifo = a.fifo /\ n.handled = a.handled /\ n.turn = a.turn
        /\ n.abandoned = a.abandoned /\ n.pendingPrompt = a.pendingPrompt
    BY <1>4 DEF Fields
  <1>6. QED
    BY <1>1, <1>3, <1>5 DEF Same, Rest, Past, Pending

LEMMA RetryMoves ==
    ASSUME NEW m \in Fields, NEW parts, NEW k
    PROVE  /\ Rest(m, RetryWith(m, parts, k))
           /\ RetryWith(m, parts, k).pendingPrompt = parts /\ RetryWith(m, parts, k).turn = {}
  <1>1. PICK n \in Fields : n = ContinueAsNew(m) /\ Same(m, n) /\ n.turn = {}
    BY ContinueAsNewTyped, HelpersSame
  <1>2. /\ Rest(n, RetryWith(m, parts, k)) /\ RetryWith(m, parts, k).pendingPrompt = parts
        /\ RetryWith(m, parts, k).turn = n.turn
    BY <1>1 DEF RetryWith, Fields, Rest, Past
  <1>3. QED
    BY <1>1, <1>2 DEF Same, Rest, Past

(* handleTurnResult ends the turn and moves no message; what it could not  *)
(* answer is given up, or is the prompt of the next execution.             *)
Concludes(m) == Same(m, s') /\ s'.turn = {}

LEMMA SameConcludes ==
    ASSUME NEW m, NEW n, Same(m, n), Concludes(n) PROVE Concludes(m)
  BY SameTwice DEF Concludes

LEMMA FollowupConcludes == ASSUME NEW m \in Fields, Followup(m) PROVE Concludes(m)
  <1>1. PICK n \in Fields : n = queueFollowup(m) /\ Same(m, n)
    BY FollowupTyped, HelpersSame
  <1>2. Concludes(n)
    BY <1>1, HelpersSame DEF Followup, Concludes
  <1>3. QED
    BY <1>1, <1>2, SameConcludes

LEMMA AgentSame ==
    ASSUME NEW m \in Fields, NEW c, NEW status PROVE Same(m, [m EXCEPT !.agents[c] = status])
  BY DEF Fields, Same, Rest, Past, Pending

LEMMA WaitConcludes ==
    ASSUME NEW m \in Fields, NEW timer, WaitFor(m, timer) PROVE Concludes(m)
  <1>1. PICK n \in Fields : n = NextIteration(m) /\ Same(m, n) /\ n.turn = {}
    BY NextIterationTyped, HelpersSame
  <1>2. PICK d \in DehydrationsForWait(n) : s' = [d EXCEPT !.timer = timer, !.status = "waiting"]
    BY <1>1 DEF WaitFor
  <1>3. d \in Fields /\ Same(n, d) /\ d.turn = {}
    <2>1. Same(n, n)
      BY DEF Same, Rest, Past
    <2>2. d \in Dehydrations(n) \/ d = n
      BY <1>2 DEF DehydrationsForWait
    <2>3. d \in Fields
      BY <2>2, DehydrationsTyped
    <2>4. Same(n, d) /\ d.turn = n.turn
      BY <2>1, <2>2, HelpersSame
    <2>5. QED
      BY <1>1, <2>3, <2>4
  <1>4. Same(d, s') /\ s'.turn = d.turn
    BY <1>2, <1>3 DEF Fields, Same, Rest, Past, Pending
  <1>5. QED
    BY <1>1, <1>3, <1>4, SameTwice DEF Concludes

LEMMA HeldSame ==
    ASSUME NEW m \in Fields, NEW t \in Left
    PROVE  /\ [m EXCEPT !.heldWait = t] \in Fields /\ Same(m, [m EXCEPT !.heldWait = t])
           /\ [m EXCEPT !.heldCron = t] \in Fields /\ Same(m, [m EXCEPT !.heldCron = t])
  <1>1. [m EXCEPT !.heldWait = t] \in Fields /\ [m EXCEPT !.heldCron = t] \in Fields
    BY Zenon DEF Fields
  <1>2. QED
    BY <1>1 DEF Fields, Same, Rest, Past, Pending

LEMMA CompletedConcludes == ASSUME NEW m \in Fields, Completed(m) PROVE Concludes(m)
  <1>1. CASE CompletedSubAgent(m)
    <2>1. CASE s' = NextIteration(m)
      BY <2>1, HelpersSame DEF Concludes
    <2>2. CASE s' = [m EXCEPT !.pc = "ended", !.turn = {}, !.status = "completed", !.result = "done"]
      BY <2>2 DEF Fields, Concludes, Same, Rest, Past, Pending
    <2>3. QED
      BY <1>1, <2>1, <2>2 DEF CompletedSubAgent
  <1>2. CASE CompletedNudged(m)
    <2>1. PICK q \in Fields : q = queueFollowup(m) /\ Same(m, q)
      BY FollowupTyped, HelpersSame
    <2>2. PICK n \in Fields : n = ContinueAsNew(q) /\ Same(q, n) /\ n.turn = {}
      BY ContinueAsNewTyped, HelpersSame
    <2>3. s' = [n EXCEPT !.nudged = TRUE]
      BY <1>2, <2>1, <2>2 DEF CompletedNudged
    <2>4. Same(n, s') /\ s'.turn = n.turn
      BY <2>3 DEF Fields, Same, Rest, Past, Pending
    <2>5. QED
      BY <2>1, <2>2, <2>4, SameTwice DEF Concludes
  <1>3. "none" \in Left
    BY Literals
  <1>4. CASE CompletedResumesWait(m)
    BY <1>3, <1>4, HeldSame, WaitConcludes, SameConcludes DEF CompletedResumesWait
  <1>5. CASE CompletedResumesCron(m)
    BY <1>3, <1>5, HeldSame, WaitConcludes, SameConcludes DEF CompletedResumesCron
  <1>6. CASE CompletedArmsCron(m)
    BY <1>6, WaitConcludes DEF CompletedArmsCron
  <1>7. CASE CompletedGoesIdle(m)
    <2>1. PICK n \in Fields : n = NextIteration(m) /\ Same(m, n) /\ n.turn = {}
      BY NextIterationTyped, HelpersSame
    <2>2. s' = n \/ s' = [n EXCEPT !.timer = "idle", !.status = "idle"]
      BY <1>7, <2>1 DEF CompletedGoesIdle
    <2>3. Same(n, s') /\ s'.turn = n.turn
      BY <2>2, ZenonT(60) DEF Fields, Same, Rest, Past, Pending
    <2>4. QED
      BY <2>1, <2>3, SameTwice DEF Concludes
  <1>8. QED
    BY <1>1, <1>2, <1>4, <1>5, <1>6, <1>7 DEF Completed

LEMMA InputConcludes == ASSUME NEW m \in Fields, InputRequired(m) PROVE Concludes(m)
  <1>1. PICK n \in Fields : n = NextIteration(m) /\ Same(m, n) /\ n.turn = {}
    BY NextIterationTyped, HelpersSame
  <1>2. PICK asked \in Fields :
          asked = [n EXCEPT !.question = TRUE, !.status = "input_required"]
    <2>1. TRUE \in Flag /\ "input_required" \in Status
      BY Blank, Literals
    <2>2. [n EXCEPT !.question = TRUE, !.status = "input_required"] \in Fields
      BY <2>1, Zenon DEF Fields
    <2>3. QED
      BY <2>2
  <1>3. Same(n, asked) /\ asked.turn = n.turn
    BY <1>2 DEF Fields, Same, Rest, Past, Pending
  <1>4. s' = asked \/ s' \in Dehydrations(asked) \/ s' = [asked EXCEPT !.timer = "input-grace"]
    BY <1>1, <1>2, Zenon DEF InputRequired
  <1>5. CASE s' = asked \/ s' = [asked EXCEPT !.timer = "input-grace"]
    <2>1. Same(asked, s') /\ s'.turn = asked.turn
      BY <1>5 DEF Fields, Same, Rest, Past, Pending
    <2>2. QED
      BY <1>1, <1>3, <2>1, SameTwice DEF Concludes
  <1>6. CASE s' \in Dehydrations(asked)
    <2>1. Same(asked, s') /\ s'.turn = asked.turn
      BY <1>6, HelpersSame
    <2>2. QED
      BY <1>1, <1>3, <2>1, SameTwice DEF Concludes
  <1>7. QED
    BY <1>4, <1>5, <1>6

LEMMA CheckConcludes == ASSUME NEW m \in Fields, CheckAgents(m) PROVE Concludes(m)
  <1>1. PICK agents \in Agents : agents = m.agents
    BY DEF Fields
  <1>2. PICK idle \in SUBSET Child :
          Followup([m EXCEPT !.agents =
            [c \in Child |->
               IF c \in idle THEN "completed"
               ELSE IF agents[c] # "none" /\ Published(c) \in {"completed", "failed"}
               THEN Published(c) ELSE agents[c]]])
    BY <1>1, Zenon DEF CheckAgents, Tracked
  <1>3. PICK checked \in Agents :
          checked = [c \in Child |->
               IF c \in idle THEN "completed"
               ELSE IF agents[c] # "none" /\ Published(c) \in {"completed", "failed"}
               THEN Published(c) ELSE agents[c]]
    BY DEF Agents, AgentStatus
  <1>4. [m EXCEPT !.agents = checked] \in Fields
    BY Zenon DEF Fields
  <1>5. Same(m, [m EXCEPT !.agents = checked])
    BY DEF Fields, Same, Rest, Past, Pending
  <1>6. Followup([m EXCEPT !.agents = checked])
    BY <1>2, <1>3
  <1>7. QED
    BY <1>4, <1>5, <1>6, FollowupConcludes, SameConcludes

LEMMA AgentWaitConcludes == ASSUME NEW m \in Fields, WaitForAgents(m) PROVE Concludes(m)
  <1>1. PICK n \in Fields : n = NextIteration(m) /\ Same(m, n) /\ n.turn = {}
    BY NextIterationTyped, HelpersSame
  <1>2. CASE Followup(m)
    BY <1>2, FollowupConcludes
  <1>3. ASSUME NEW C, s' = [n EXCEPT !.awaited = C, !.timer = "agent-poll", !.status = "running"]
        PROVE  Concludes(m)
    <2>1. Same(n, s') /\ s'.turn = n.turn
      BY <1>3 DEF Fields, Same, Rest, Past, Pending
    <2>2. QED
      BY <1>1, <2>1, SameTwice DEF Concludes
  <1>4. QED
    BY <1>1, <1>2, <1>3 DEF WaitForAgents

GivesUp(m) ==
    /\ s'.stash = m.stash /\ s'.fifo = m.fifo /\ s'.handled = m.handled /\ s'.turn = {}
    /\ s'.abandoned = m.abandoned \union Running(m) /\ Pending(s') = Pending(m)

Retries(m) == Rest(m, s') /\ s'.turn = {} /\ Pending(s') = Running(m)

LEMMA ErrorMoves ==
    ASSUME NEW m \in Fields, TurnError(m) PROVE GivesUp(m) \/ Retries(m)
  <1>1. PICK failed \in Fields :
          failed = [m EXCEPT !.retryCount = m.retryCount + 1, !.failures = FailedAgain(m.failures)]
    <2>1. m.retryCount + 1 \in Count /\ FailedAgain(m.failures) \in Failures
      BY FailuresTyped DEF Fields, Count
    <2>2. [m EXCEPT !.retryCount = m.retryCount + 1, !.failures = FailedAgain(m.failures)] \in Fields
      BY <2>1, Zenon DEF Fields
    <2>3. QED
      BY <2>2
  <1>2. Same(m, failed) /\ failed.turn = m.turn
    BY <1>1 DEF Fields, Same, Rest, Past, Pending
  <1>3. PICK parts : parts = (IF m.turn = {"system"} THEN {"text"} ELSE m.turn)
    OBVIOUS
  <1>4. parts \intersect Prompt = Running(m)
    BY <1>3, NoTexts DEF Running
  <1>5. s' = GiveUp(failed) \/ s' = RetryWith(failed, parts, failed.retryCount)
    BY <1>1, <1>3 DEF TurnError
  <1>6. CASE s' = GiveUp(failed)
    <2>1. PICK n : n = GiveUp(failed)
      OBVIOUS
    <2>2. /\ n.stash = failed.stash /\ n.fifo = failed.fifo /\ n.handled = failed.handled
          /\ n.abandoned = failed.abandoned \union Running(failed)
          /\ Pending(n) = Pending(failed) /\ n.turn = {}
      BY <2>1, AbandonMoves
    <2>3. QED
      BY <1>2, <1>6, <2>1, <2>2 DEF GivesUp, Same, Rest, Past, Running
  <1>7. CASE s' = RetryWith(failed, parts, failed.retryCount)
    <2>1. Rest(failed, s') /\ s'.pendingPrompt = parts /\ s'.turn = {}
      BY <1>7, RetryMoves
    <2>2. Pending(s') = Running(m)
      BY <1>4, <2>1 DEF Pending
    <2>3. QED
      BY <1>2, <2>1, <2>2 DEF Retries, Same, Rest, Past
  <1>8. QED
    BY <1>5, <1>6, <1>7

LEMMA CrashConcludes == ASSUME NEW m \in Fields, NEW status, Crash(m, status) PROVE Concludes(m)
  BY DEF Crash, Fields, Concludes, Same, Rest, Past, Pending

LEMMA ResultMoves ==
    ASSUME NEW m \in Fields, NEW action, HandleTurnResult(m, action)
    PROVE  Concludes(m) \/ (action = "error" /\ (GivesUp(m) \/ Retries(m)))
  <1>1. CASE action = "completed" /\ Completed(m)
    BY <1>1, CompletedConcludes
  <1>2. CASE action = "wait" /\ Waits(m)
    <2>1. "none" \in Left
      BY Literals
    <2>2. QED
      BY <1>2, <2>1, HeldSame, WaitConcludes, SameConcludes DEF Waits
  <1>3. CASE action = "input_required" /\ InputRequired(m)
    BY <1>3, InputConcludes
  <1>4. CASE action = "cancelled" /\ s' = NextIteration(m)
    BY <1>4, HelpersSame DEF Concludes
  <1>5. CASE action = "tool" /\ Followup(m)
    BY <1>5, FollowupConcludes
  <1>6. CASE action = "check_agents" /\ CheckAgents(m)
    BY <1>6, CheckConcludes
  <1>7. CASE action = "wait_for_agents" /\ WaitForAgents(m)
    BY <1>7, AgentWaitConcludes
  <1>8. CASE action = "error" /\ TurnError(m)
    BY <1>8, ErrorMoves
  <1>9. CASE action = "missing" /\ Crash(m, "failed")
    BY <1>9, CrashConcludes
  <1>10. ASSUME NEW c \in Child, NEW status \in AgentStatus \union {"none"},
                Followup([m EXCEPT !.agents[c] = status])
         PROVE  Concludes(m)
    BY <1>10, AgentTyped, AgentSame, FollowupConcludes, SameConcludes
  <1>11. CASE action = "spawn_agent" /\ SpawnAgent(m)
    BY <1>10, <1>11, FollowupConcludes DEF SpawnAgent, AgentStatus
  <1>12. CASE action = "signal_agent" /\ SignalAgent(m)
    BY <1>12, FollowupConcludes DEF SignalAgent
  <1>13. CASE action = "delete_agent" /\ DeleteAgent(m)
    BY <1>10, <1>13 DEF DeleteAgent, Tracked
  <1>14. QED
    BY <1>1, <1>2, <1>3, <1>4, <1>5, <1>6, <1>7, <1>8, <1>9, <1>11, <1>12, <1>13
       DEF HandleTurnResult

(* The steps of the session as they look from the messages of its users.   *)
Sends(p) ==
    /\ p \notin sent /\ sent' = sent \union {p}
    /\ messages' = Append(messages, PromptMessage(p)) /\ s' = s

QueuePasses ==
    \/ messages' = messages
    \/ messages # <<>> /\ Head(messages).kind # "prompt" /\ messages' = Tail(messages)
    \/ \E x \in Message : x.kind # "prompt" /\ messages' = Append(messages, x)

BufferPasses ==
    \/ s'.stash = s.stash /\ s'.fifo = s.fifo
    \/ s'.stash = <<>> /\ s'.fifo = s.fifo \o s.stash
    \/ s'.fifo = s.fifo /\ \E x \in Item : x.kind # "prompt" /\ s'.stash = Append(s.stash, x)
    \/ s'.stash = s.stash /\ s.fifo # <<>> /\ Head(s.fifo).kind # "prompt" /\ s'.fifo = Tail(s.fifo)

Passes ==
    /\ sent' \intersect Prompt = sent \intersect Prompt /\ QueuePasses /\ BufferPasses
    /\ Pending(s') = Pending(s) /\ Past(s, s')
    /\ \/ s'.turn = s.turn /\ s'.pc = s.pc
       \/ /\ s.pc # "turn" /\ Running(s') \subseteq Running(s)
          /\ s'.pc = "turn" => Pending(s') = {} \/ s.awaited # {}

Routes(p) ==
    /\ sent' = sent /\ s.pc # "turn" /\ s'.pc # "turn"
    /\ messages # <<>> /\ Head(messages) = PromptMessage(p) /\ messages' = Tail(messages)
    /\ s'.fifo = s.fifo /\ s'.stash = Append(s.stash, PromptItem(p))
    /\ Pending(s') = Pending(s) /\ Past(s, s') /\ s'.turn = s.turn

Takes(parts) ==
    \/ s'.stash = s.stash /\ s'.fifo = s.fifo /\ parts = Pending(s) /\ Pending(s') = {}
    \/ /\ s.fifo # <<>> /\ \E p \in Prompt : Head(s.fifo) = PromptItem(p) /\ parts = {p}
       /\ s'.stash = s.stash /\ s'.fifo = Tail(s.fifo) /\ Pending(s') = Pending(s)
       /\ Pending(s) = {} \/ s.awaited # {}

Starts(parts) ==
    /\ sent' = sent /\ messages' = messages /\ s.pc # "turn"
    /\ Takes(parts) /\ s'.handled = s.handled
    /\ \/ s'.pc = "turn" /\ Running(s') = parts /\ s'.abandoned = s.abandoned
       \/ s'.pc # "turn" /\ s'.turn = {} /\ s'.abandoned = s.abandoned \union parts

(* Whether any turn is ever run again.                                     *)
MayRetry == {"closed", "other"} \intersect TurnFailure # {} \/ \E o \in TurnOutcome : o.main = "error"

Ends ==
    /\ sent' = sent /\ messages' = messages /\ s.pc = "turn" /\ s'.pc # "turn" /\ s'.turn = {}
    /\ s'.stash = s.stash /\ s'.fifo = s.fifo
    /\ \/ /\ s'.handled = s.handled \union Running(s) /\ s'.abandoned = s.abandoned
          /\ Pending(s') = Pending(s)
       \/ /\ s'.handled = s.handled /\ s'.abandoned = s.abandoned \union Running(s)
          /\ Pending(s') = Pending(s)
       \/ s'.handled = s.handled /\ s'.abandoned = s.abandoned /\ Pending(s') = Pending(s)
          /\ s'.pc = "ended"
       \/ /\ s'.handled = s.handled /\ s'.abandoned = s.abandoned
          /\ \/ MayRetry /\ Pending(s') = Running(s)
             \/ Running(s) = {} /\ Pending(s') = Pending(s)

LEMMA EnvironmentMoves ==
    ASSUME TypeOK, s \in Fields, Environment
    PROVE  Passes \/ \E p \in Prompt : Sends(p)
  <1>1. ASSUME sent' \intersect Prompt = sent \intersect Prompt, QueuePasses,
               s' = s \/ s' = [s EXCEPT !.surprises = s.surprises + 1]
        PROVE  Passes
    <2>1. Same(s, s') /\ s'.turn = s.turn /\ s'.pc = s.pc
      BY <1>1 DEF Fields, Same, Rest, Past, Pending
    <2>2. QED
      BY <1>1, <2>1 DEF Passes, BufferPasses, Same, Rest
  <1>2. ASSUME NEW p \in Prompt, UserSends(p) PROVE Sends(p)
    BY <1>2 DEF UserSends, Sends, Enqueue, PromptMessage
  <1>3. CASE UserAnswers
    <2>1. [kind |-> "answer"] \in Message /\ [kind |-> "answer"].kind # "prompt"
      BY DEF Message
    <2>2. QED
      BY <1>1, <1>3, <2>1 DEF UserAnswers, Enqueue, QueuePasses
  <1>4. ASSUME NEW c \in Command, ClientCommands(c) PROVE Passes
    <2>1. [kind |-> "cmd", cmd |-> c] \in Message /\ [kind |-> "cmd", cmd |-> c].kind # "prompt"
      BY DEF Message
    <2>2. c \notin Prompt
      BY PromptAssumption
    <2>3. sent' \intersect Prompt = sent \intersect Prompt
      BY <1>4, <2>2 DEF ClientCommands
    <2>4. QED
      BY <1>1, <1>4, <2>1, <2>3 DEF ClientCommands, Enqueue, QueuePasses
  <1>5. CASE ChildStep
    <2>1. PICK c \in Child :
            \/ ChildCompletes(c) \/ ChildEnds(c) \/ ChildWaits(c) \/ ChildResumes(c)
            \/ ChildFails(c) \/ ChildObeys(c) \/ SpawnInTurn(c) \/ DeleteInTurn(c)
            \/ \E cmd \in Signal : SignalInTurn(c, cmd)
      BY <1>5 DEF ChildStep
    <2>2. \A kind \in {"completed", "cancelled", "wait"} :
            Update(c, kind) \in Message /\ Update(c, kind).kind # "prompt"
      BY DEF Update, Message
    <2>3. CASE ChildCompletes(c) \/ ChildWaits(c) \/ ChildObeys(c)
      <3>1. \E kind \in {"completed", "cancelled", "wait"} : Enqueue(Update(c, kind))
        BY <2>3 DEF ChildCompletes, ChildWaits, ChildObeys
      <3>2. sent' = sent /\ s' = s
        BY <2>3 DEF ChildCompletes, ChildWaits, ChildObeys
      <3>3. QED
        BY <1>1, <2>2, <3>1, <3>2 DEF Enqueue, QueuePasses
    <2>4. CASE ChildEnds(c) \/ ChildResumes(c) \/ ChildFails(c)
      BY <1>1, <2>4 DEF ChildEnds, ChildResumes, ChildFails, QueuePasses
    <2>5. CASE ToolCalled
      BY <1>1, <2>5 DEF ToolCalled, QueuePasses
    <2>6. QED
      BY <2>1, <2>3, <2>4, <2>5 DEF SpawnInTurn, DeleteInTurn, SignalInTurn
  <1>6. QED
    BY <1>2, <1>3, <1>4, <1>5 DEF Environment

LEMMA LeaveDrainMoves ==
    ASSUME NEW m \in Fields
    PROVE  /\ LeaveDrain(m).stash = <<>> /\ LeaveDrain(m).fifo = m.fifo \o m.stash
           /\ Pending(LeaveDrain(m)) = Pending(m) /\ Past(m, LeaveDrain(m))
           /\ LeaveDrain(m).turn = m.turn /\ LeaveDrain(m).pc \in {"decide", "ended"}
  <1>1. PICK n \in Fields : n = FlushStash(m)
    BY FlushTyped
  <1>2. /\ n.stash = <<>> /\ n.fifo = m.fifo \o m.stash /\ n.turn = m.turn
        /\ n.pendingPrompt = m.pendingPrompt /\ n.handled = m.handled /\ n.abandoned = m.abandoned
    BY <1>1 DEF FlushStash, Fields
  <1>3. PICK l : l = LeaveDrain(m)
    OBVIOUS
  <1>4. /\ l.stash = n.stash /\ l.fifo = n.fifo /\ l.turn = n.turn
        /\ l.pendingPrompt = n.pendingPrompt /\ l.handled = n.handled /\ l.abandoned = n.abandoned
        /\ l.pc \in {"decide", "ended"}
    BY <1>1, <1>3 DEF LeaveDrain, Fields
  <1>5. QED
    BY <1>2, <1>3, <1>4 DEF Pending, Past

LEMMA DrainMoves ==
    ASSUME TypeOK, s \in Fields,
           IterationCap \/ HistoryCap \/ StartDrain \/ TimerFires \/ DigestDue \/ Park \/ EndDrain
    PROVE  Passes
  <1>1. UNCHANGED <<messages, sent>>
    BY DEF IterationCap, HistoryCap, StartDrain, TimerFires, DigestDue, Park, EndDrain
  <1>2. s.pc # "turn"
    BY DEF IterationCap, HistoryCap, StartDrain, TimerFires, DigestDue, Park, EndDrain, Draining
  <1>3. SUFFICES /\ BufferPasses /\ Pending(s') = Pending(s) /\ Past(s, s')
                 /\ s'.turn \in {s.turn, {}} /\ s'.pc # "turn"
    BY <1>1, <1>2 DEF Passes, QueuePasses, Running
  <1>4. CASE IterationCap \/ HistoryCap
    <2>1. s' = ContinueAsNew(s)
      BY <1>4 DEF IterationCap, HistoryCap
    <2>2. QED
      BY <2>1, HelpersSame, MovePoints DEF BufferPasses, Same, Rest
  <1>5. CASE StartDrain \/ Park
    <2>1. \/ s' = [s EXCEPT !.pc = "drain", !.loop = s.loop + 1, !.drained = 0, !.seen = {}]
          \/ \E status : s' = [s EXCEPT !.pc = "parked", !.status = status]
      BY <1>5 DEF StartDrain, Park
    <2>2. Same(s, s') /\ s'.turn = s.turn /\ s'.pc # "turn"
      BY <2>1, ZenonT(60) DEF Fields, Same, Rest, Past, Pending
    <2>3. QED
      BY <2>2 DEF BufferPasses, Same, Rest
  <1>6. CASE TimerFires
    <2>1. PICK x \in Item : x.kind # "prompt" /\ x = [kind |-> "timer", timer |-> s.timer]
      <3>1. [kind |-> "timer", timer |-> s.timer] \in Item
        BY <1>6, ItemKinds DEF TimerFires, Fields
      <3>2. [kind |-> "timer", timer |-> s.timer].kind # "prompt"
        OBVIOUS
      <3>3. QED
        BY <3>1, <3>2
    <2>2. s' = [s EXCEPT !.stash = Append(s.stash, x), !.timer = "none", !.drained = s.drained + 1]
          /\ s.pc = "drain"
      BY <1>6, <2>1 DEF TimerFires, Draining
    <2>3. /\ s'.stash = Append(s.stash, x) /\ s'.fifo = s.fifo /\ Pending(s') = Pending(s)
          /\ Past(s, s') /\ s'.turn = s.turn /\ s'.pc = s.pc
      BY <2>2 DEF Fields, Past, Pending
    <2>4. QED
      BY <2>1, <2>2, <2>3 DEF BufferPasses
  <1>7. CASE DigestDue
    <2>1. PICK m \in Fields : m = [s EXCEPT !.digest = "ready"]
      <3>1. "ready" \in Digest
        BY Literals
      <3>2. [s EXCEPT !.digest = "ready"] \in Fields
        BY <3>1, Zenon DEF Fields
      <3>3. QED
        BY <3>2
    <2>2. Same(s, m) /\ m.turn = s.turn
      BY <2>1 DEF Fields, Same, Rest, Past, Pending
    <2>3. s' = LeaveDrain(m)
      BY <1>7, <2>1 DEF DigestDue
    <2>4. QED
      BY <2>2, <2>3, LeaveDrainMoves DEF BufferPasses, Same, Rest, Past
  <1>8. CASE EndDrain
    BY <1>8, LeaveDrainMoves DEF EndDrain, BufferPasses
  <1>9. QED
    BY <1>4, <1>5, <1>6, <1>7, <1>8

LEMMA DequeueMoves ==
    ASSUME TypeOK, s \in Fields, Awake, Dequeue
    PROVE  Passes \/ \E p \in Prompt : Routes(p)
  <1>1. ASSUME NEW x, Take(x)
        PROVE  /\ Dequeued \in Fields /\ Dequeued.pc = "drain" /\ Dequeued.turn = s.turn
               /\ Same(s, Dequeued) /\ s.pc # "turn"
               /\ sent' = sent /\ messages # <<>> /\ Head(messages) = x /\ messages' = Tail(messages)
    <2>1. Dequeued \in Fields /\ Dequeued.pc = "drain"
      BY <1>1, TakeTyped
    <2>2. Dequeued.turn = s.turn /\ Same(s, Dequeued)
      BY DEF Dequeued, Fields, Same, Rest, Past, Pending
    <2>3. s.pc # "turn" /\ sent' = sent /\ messages # <<>> /\ Head(messages) = x
          /\ messages' = Tail(messages)
      BY <1>1 DEF Take, MayDequeue, Draining
    <2>4. QED
      BY <2>1, <2>2, <2>3
  <1>2. ASSUME NEW x, Take(x), x.kind # "prompt", BufferPasses, Pending(s') = Pending(s), Past(s, s'),
               s'.turn \in {s.turn, {}}, s'.pc # "turn"
        PROVE  Passes
    BY <1>1, <1>2 DEF Passes, QueuePasses, Running
  <1>3. ASSUME NEW p \in Prompt, RoutePrompt(p) PROVE Routes(p)
    <2>1. Take([kind |-> "prompt", prompt |-> p])
      BY <1>3 DEF RoutePrompt
    <2>2. PICK d \in Fields : d = Dequeued /\ d.pc = "drain" /\ Same(s, d) /\ d.turn = s.turn
      BY <1>1, <2>1
    <2>3. PICK m \in Interruptions(d) :
            s' = [m EXCEPT !.digest = "none",
                           !.stash = Append(m.stash, [kind |-> "prompt", parts |-> {p}])]
      BY <1>3, <2>2 DEF RoutePrompt
    <2>4. m \in Fields /\ Same(d, m) /\ m.turn = d.turn /\ m.pc = d.pc
      BY InterruptionsTyped, InterruptionsSame
    <2>5. /\ s'.stash = Append(m.stash, PromptItem(p)) /\ s'.fifo = m.fifo
          /\ Pending(s') = Pending(m) /\ Past(m, s') /\ s'.turn = m.turn /\ s'.pc = m.pc
      BY <2>3, <2>4 DEF Fields, Pending, Past, PromptItem
    <2>6. QED
      BY <1>1, <2>1, <2>2, <2>4, <2>5 DEF Routes, PromptMessage, Same, Rest, Past
  <1>4. CASE RouteAnswer
    <2>1. Take([kind |-> "answer"]) /\ [kind |-> "answer"].kind # "prompt"
      BY <1>4 DEF RouteAnswer
    <2>2. PICK d \in Fields : d = Dequeued /\ d.pc = "drain" /\ Same(s, d) /\ d.turn = s.turn
      BY <1>1, <2>1
    <2>3. PICK x \in Item : x = [kind |-> "answer"]
      BY ItemKinds
    <2>4. s' = [d EXCEPT !.stash = Append(d.stash, x)]
      BY <1>4, <2>2, <2>3 DEF RouteAnswer
    <2>5. /\ s'.stash = Append(d.stash, x) /\ s'.fifo = d.fifo /\ Pending(s') = Pending(d)
          /\ Past(d, s') /\ s'.turn = d.turn /\ s'.pc = d.pc
      BY <2>4 DEF Fields, Pending, Past
    <2>6. x.kind # "prompt"
      BY <2>3
    <2>7. BufferPasses
      BY <2>2, <2>5, <2>6 DEF BufferPasses, Same, Rest
    <2>8. QED
      BY <1>2, <2>1, <2>2, <2>5, <2>7 DEF Same, Rest, Past
  <1>5. ASSUME NEW c \in Child, NEW kind \in {"completed", "cancelled", "wait"},
               RouteChildUpdate(c, kind)
        PROVE  Passes
    <2>1. Take(Update(c, kind)) /\ Update(c, kind).kind # "prompt"
      BY <1>5 DEF RouteChildUpdate, Update
    <2>2. PICK d \in Fields : d = Dequeued /\ d.pc = "drain" /\ Same(s, d) /\ d.turn = s.turn
      BY <1>1, <2>1
    <2>3. PICK e \in Fields : /\ e = [d EXCEPT !.seen = d.seen \union {<<c, kind>>}]
                              /\ e.pc = "drain" /\ Same(d, e) /\ e.turn = d.turn
      <3>1. d.seen \union {<<c, kind>>} \in Seen
        BY DEF Fields, Seen
      <3>2. [d EXCEPT !.seen = d.seen \union {<<c, kind>>}] \in Fields
        BY <3>1, Zenon DEF Fields
      <3>3. PICK e \in Fields : e = [d EXCEPT !.seen = d.seen \union {<<c, kind>>}]
        BY <3>2
      <3>4. e.pc = "drain" /\ Same(d, e) /\ e.turn = d.turn
        BY <2>2, <3>3 DEF Fields, Same, Rest, Past, Pending
      <3>5. QED
        BY <3>3, <3>4
    <2>4. PICK f \in Fields : /\ f = ApplyChildUpdate(e, c, kind)
                              /\ f.pc = "drain" /\ Same(e, f) /\ f.turn = e.turn
      <3>1. ApplyChildUpdate(e, c, kind) \in Fields
        BY ChildUpdateTyped DEF TypeOK
      <3>2. \A k, u : ApplyChildUpdate(e, k, u).pc = e.pc
        BY StayPoints
      <3>3. Same(e, ApplyChildUpdate(e, c, kind)) /\ ApplyChildUpdate(e, c, kind).turn = e.turn
        BY UpdatesSame
      <3>4. QED
        BY <2>3, <3>1, <3>2, <3>3
    <2>5. PICK g \in Fields : /\ g = BufferChildUpdate(f)
                              /\ g.pc = "drain" /\ Same(f, g) /\ g.turn = f.turn
      BY <2>4, BufferTyped, StayPoints, HelpersSame
    <2>6. PICK h \in Fields : /\ h = ResolveAgentWait(g)
                              /\ h.pc = "drain" /\ Same(g, h) /\ h.turn = g.turn
      BY <2>5, ResolveTyped, StayPoints, ResolveSame
    <2>7. s' = h \/ s' = d
      BY <1>5, <2>2, <2>3, <2>4, <2>5, <2>6 DEF RouteChildUpdate
    <2>8. Same(s, s') /\ s'.turn = s.turn /\ s'.pc = "drain"
      BY <2>2, <2>3, <2>4, <2>5, <2>6, <2>7, SameTwice
    <2>9. QED
      BY <1>2, <2>1, <2>8 DEF Same, Rest, BufferPasses
  <1>6. ASSUME NEW c \in Command, Take([kind |-> "cmd", cmd |-> c]),
               NEW m, Same(FlushStash(Dequeued), m), m.turn = FlushStash(Dequeued).turn,
               Same(m, s'), s'.turn \in {m.turn, {}}, s'.pc # "turn"
        PROVE  Passes
    <2>1. PICK d \in Fields : d = Dequeued /\ Same(s, d) /\ d.turn = s.turn
      BY <1>1, <1>6
    <2>2. PICK f : f = FlushStash(d)
      OBVIOUS
    <2>3. /\ f.stash = <<>> /\ f.fifo = d.fifo \o d.stash /\ f.turn = d.turn
          /\ Pending(f) = Pending(d) /\ Past(d, f)
      BY <2>2 DEF FlushStash, Fields, Pending, Past
    <2>4. BufferPasses /\ Pending(s') = Pending(s) /\ Past(s, s') /\ s'.turn \in {s.turn, {}}
      BY <1>6, <2>1, <2>2, <2>3 DEF BufferPasses, Same, Rest, Past
    <2>5. [kind |-> "cmd", cmd |-> c].kind # "prompt"
      OBVIOUS
    <2>6. QED
      BY <1>2, <1>6, <2>4, <2>5
  <1>7. ASSUME NEW c \in Command, Take([kind |-> "cmd", cmd |-> c])
        PROVE  /\ FlushStash(Dequeued) \in Fields /\ FlushStash(Dequeued).pc = "drain"
               /\ Respond(FlushStash(Dequeued), c) \in Fields
               /\ Respond(FlushStash(Dequeued), c).pc = "drain"
               /\ Same(FlushStash(Dequeued), Respond(FlushStash(Dequeued), c))
               /\ Respond(FlushStash(Dequeued), c).turn = FlushStash(Dequeued).turn
    <2>1. PICK d \in Fields : d = Dequeued /\ d.pc = "drain"
      BY <1>1, <1>7
    <2>2. PICK f \in Fields : f = FlushStash(d) /\ f.pc = "drain"
      BY <2>1, FlushTyped, StayPoints
    <2>3. QED
      BY <2>1, <2>2, RespondTyped, StayPoints, ShutdownsSame
  <1>8. ASSUME NEW r \in Fields, r.pc # "turn", NEW status, NEW n,
               n \in {[r EXCEPT !.status = status], AfterCommand([r EXCEPT !.status = status])}
        PROVE  Same(r, n) /\ n.turn = r.turn /\ n.pc # "turn"
    <2>1. n = [r EXCEPT !.status = status] \/ n = [[r EXCEPT !.status = status] EXCEPT !.pc = "ended"]
      BY <1>8 DEF AfterCommand
    <2>2. QED
      BY <1>8, <2>1, ZenonT(60) DEF Fields, Same, Rest, Past, Pending
  <1>9. ASSUME NEW c \in Command, RouteQuery(c) \/ RouteSecondShutdown(c) PROVE Passes
    <2>1. Take([kind |-> "cmd", cmd |-> c])
      BY <1>9 DEF RouteQuery, RouteSecondShutdown
    <2>2. PICK r \in Fields : /\ r = Respond(FlushStash(Dequeued), c) /\ r.pc = "drain"
                              /\ Same(FlushStash(Dequeued), r) /\ r.turn = FlushStash(Dequeued).turn
      BY <1>7, <2>1
    <2>3. \E status : s' \in {[r EXCEPT !.status = status], AfterCommand([r EXCEPT !.status = status])}
      BY <1>9, <2>2 DEF RouteQuery, RouteSecondShutdown
    <2>4. Same(r, s') /\ s'.turn = r.turn /\ s'.pc # "turn"
      BY <1>8, <2>2, <2>3
    <2>5. QED
      BY <1>6, <2>1, <2>2, <2>4
  <1>10. ASSUME NEW c \in Command, RouteSetModel(c) PROVE Passes
    <2>1. Take([kind |-> "cmd", cmd |-> c])
      BY <1>10 DEF RouteSetModel
    <2>2. PICK r \in Fields : /\ r = Respond(FlushStash(Dequeued), c) /\ r.pc = "drain"
                              /\ Same(FlushStash(Dequeued), r) /\ r.turn = FlushStash(Dequeued).turn
      BY <1>7, <2>1
    <2>3. PICK n \in Fields : n = ContinueAsNew(r) /\ n.pc = "loop" /\ Same(r, n) /\ n.turn = {}
      BY ContinueAsNewTyped, MovePoints, HelpersSame
    <2>4. s' = [n EXCEPT !.status = "idle"]
      BY <1>10, <2>2, <2>3 DEF RouteSetModel
    <2>5. Same(n, s') /\ s'.turn = n.turn /\ s'.pc # "turn"
      BY <1>8, <2>3, <2>4
    <2>6. Same(r, s') /\ s'.turn = {}
      BY <2>3, <2>5, SameTwice
    <2>7. QED
      BY <1>6, <2>1, <2>2, <2>5, <2>6
  <1>11. ASSUME NEW c \in Command, Take([kind |-> "cmd", cmd |-> c]),
                NEW m \in Refreshes(FlushStash(Dequeued))
         PROVE  /\ m \in Fields /\ m.pc = "drain" /\ Same(FlushStash(Dequeued), m)
                /\ m.turn = FlushStash(Dequeued).turn
    <2>1. PICK f \in Fields : f = FlushStash(Dequeued) /\ f.pc = "drain"
      BY <1>7, <1>11
    <2>2. child \in [Child -> ChildStatus]
      BY DEF TypeOK
    <2>3. m \in Refreshes(f)
      BY <2>1
    <2>4. m \in Fields /\ m.pc = f.pc
      BY <2>2, <2>3, RefreshesTyped, StayPoints
    <2>5. Same(f, m) /\ m.turn = f.turn
      BY <2>3, HelpersSame
    <2>6. QED
      BY <2>1, <2>4, <2>5
  <1>12. ASSUME NEW c \in Command, RouteShutdownNow(c) PROVE Passes
    <2>1. Take([kind |-> "cmd", cmd |-> c]) /\ cmdOf[c] \in Signal
      BY <1>12 DEF RouteShutdownNow, Signal
    <2>2. PICK m \in Refreshes(FlushStash(Dequeued)) :
            s' = [FinishShutdown(m, cmdOf[c], c) EXCEPT !.pc = "ended"]
      BY <1>12 DEF RouteShutdownNow
    <2>3. m \in Fields /\ Same(FlushStash(Dequeued), m) /\ m.turn = FlushStash(Dequeued).turn
      BY <1>11, <2>1
    <2>4. PICK n \in Fields : n = FinishShutdown(m, cmdOf[c], c) /\ Same(m, n) /\ n.turn = m.turn
      BY <2>1, <2>3, FinishTyped, ShutdownsSame
    <2>5. Same(n, s') /\ s'.turn = n.turn /\ s'.pc # "turn"
      BY <2>2, <2>4 DEF Fields, Same, Rest, Past, Pending
    <2>6. Same(m, s') /\ s'.turn = m.turn
      BY <2>4, <2>5, SameTwice
    <2>7. QED
      BY <1>6, <2>1, <2>3, <2>5, <2>6
  <1>13. ASSUME NEW c \in Command, RouteShutdownCascade(c) PROVE Passes
    <2>1. Take([kind |-> "cmd", cmd |-> c])
      BY <1>13 DEF RouteShutdownCascade
    <2>2. PICK m \in Refreshes(FlushStash(Dequeued)) : \E targets, shutdown :
            LET n == [m EXCEPT !.shutdown = shutdown, !.awaited = targets, !.digest = "none",
                               !.timer = "agent-poll", !.status = "waiting"] IN
              s' = n \/ s' = [n EXCEPT !.pc = "ended"]
      BY <1>13 DEF RouteShutdownCascade, AfterCommand
    <2>3. /\ m \in Fields /\ m.pc = "drain" /\ Same(FlushStash(Dequeued), m)
          /\ m.turn = FlushStash(Dequeued).turn
      BY <1>11, <2>1
    <2>4. PICK n : /\ \E targets, shutdown :
                         n = [m EXCEPT !.shutdown = shutdown, !.awaited = targets, !.digest = "none",
                                       !.timer = "agent-poll", !.status = "waiting"]
                   /\ s' = n \/ s' = [n EXCEPT !.pc = "ended"]
      BY <2>2
    <2>5. /\ s'.stash = m.stash /\ s'.fifo = m.fifo /\ s'.pendingPrompt = m.pendingPrompt
          /\ s'.handled = m.handled /\ s'.abandoned = m.abandoned /\ s'.turn = m.turn
          /\ s'.pc \in {m.pc, "ended"}
      <3>1. /\ n.stash = m.stash /\ n.fifo = m.fifo /\ n.pendingPrompt = m.pendingPrompt
            /\ n.handled = m.handled /\ n.abandoned = m.abandoned /\ n.turn = m.turn /\ n.pc = m.pc
            /\ DOMAIN n = DOMAIN m /\ "pc" \in DOMAIN m
        BY <2>3, <2>4 DEF Fields
      <3>2. CASE s' = n
        BY <3>1, <3>2
      <3>3. CASE s' = [n EXCEPT !.pc = "ended"]
        BY <3>1, <3>3
      <3>4. QED
        BY <2>4, <3>2, <3>3
    <2>6. Same(m, s') /\ s'.turn = m.turn /\ s'.pc # "turn"
      BY <2>3, <2>5 DEF Same, Rest, Past, Pending
    <2>7. QED
      BY <1>6, <2>1, <2>3, <2>6
  <1>14. QED
    BY <1>3, <1>4, <1>5, <1>9, <1>10, <1>12, <1>13 DEF Dequeue

LEMMA StartMoves ==
    ASSUME NEW m \in Fields, NEW parts, StartTurn(m, parts)
    PROVE  /\ s'.stash = m.stash /\ s'.fifo = m.fifo /\ s'.handled = m.handled
           /\ Pending(s') = Pending(m)
           /\ \/ s'.pc = "turn" /\ s'.turn = parts /\ s'.abandoned = m.abandoned
              \/ /\ s'.pc # "turn" /\ s'.turn = {}
                 /\ s'.abandoned = m.abandoned \union (parts \intersect Prompt)
  <1>1. CASE \E h : s' = [m EXCEPT !.pc = "turn", !.turn = parts, !.status = "running",
                                   !.needsHydration = h]
    BY <1>1 DEF Fields, Pending
  <1>2. CASE /\ m.surprises < MaxSurprises
             /\ s' = Abandon([m EXCEPT !.turn = parts, !.needsHydration = TRUE,
                                       !.surprises = m.surprises + 1])
    <2>1. PICK k : k = [m EXCEPT !.turn = parts, !.needsHydration = TRUE,
                                 !.surprises = m.surprises + 1]
      OBVIOUS
    <2>2. /\ k.stash = m.stash /\ k.fifo = m.fifo /\ k.handled = m.handled
          /\ k.abandoned = m.abandoned /\ k.turn = parts /\ k.pendingPrompt = m.pendingPrompt
          /\ DOMAIN k = DOMAIN m
      BY <2>1 DEF Fields
    <2>3. PICK n : n = NextIteration(k)
      OBVIOUS
    <2>4. /\ n.stash = k.stash /\ n.fifo = k.fifo /\ n.handled = k.handled /\ n.pc = "loop"
          /\ n.abandoned = k.abandoned /\ n.turn = {} /\ n.pendingPrompt = k.pendingPrompt
          /\ DOMAIN n = DOMAIN m
      BY <2>2, <2>3 DEF NextIteration, Fields
    <2>5. s' = [n EXCEPT !.abandoned = n.abandoned \union (k.turn \intersect Prompt),
                         !.failures = NoFailures, !.status = "error"]
      BY <1>2, <2>1, <2>3, Zenon DEF Abandon
    <2>6. /\ s'.stash = n.stash /\ s'.fifo = n.fifo /\ s'.handled = n.handled /\ s'.pc = "loop"
          /\ s'.abandoned = n.abandoned \union (k.turn \intersect Prompt) /\ s'.turn = {}
          /\ s'.pendingPrompt = n.pendingPrompt
      BY <2>4, <2>5 DEF Fields
    <2>7. QED
      BY <2>2, <2>4, <2>6 DEF Pending
  <1>3. QED
    BY <1>1, <1>2 DEF StartTurn

(* What decide starts from, and what it takes from the work buffer.        *)
LEMMA DecidedSame ==
    ASSUME s \in Fields
    PROVE  /\ Same(s, Decided) /\ Decided.turn = s.turn /\ Decided.pc = s.pc
           /\ Decided.pendingPrompt = s.pendingPrompt /\ Decided.awaited = s.awaited
  <1>1. Same(s, Decided) /\ Decided.turn = s.turn /\ Decided.pc = s.pc
    BY HelpersSame, StayPoints DEF Decided
  <1>2. Decided.pendingPrompt = s.pendingPrompt /\ Decided.awaited = s.awaited
    BY DEF Decided, drainLeadingQueuedCronActions, Fields
  <1>3. QED
    BY <1>1, <1>2

LEMMA PoppedMoves ==
    ASSUME s \in Fields, NEW item, Popping(item)
    PROVE  /\ Popped \in Fields /\ Popped.stash = s.stash /\ Popped.fifo = Tail(s.fifo)
           /\ Pending(Popped) = Pending(s) /\ Past(s, Popped) /\ Popped.turn = s.turn
           /\ Popped.pc = "decide" /\ s.pc = "decide"
           /\ Pending(s) = {} \/ s.awaited # {}
           /\ s.fifo # <<>> /\ item = Head(s.fifo) /\ messages' = messages /\ sent' = sent
  <1>1. PICK d \in Fields : /\ d = Decided /\ Same(s, d) /\ d.turn = s.turn /\ d.pc = s.pc
                            /\ d.pendingPrompt = s.pendingPrompt /\ d.awaited = s.awaited
    BY DecidedTyped, DecidedSame
  <1>2. Popped = [d EXCEPT !.fifo = Tail(d.fifo)]
    BY <1>1 DEF Popped
  <1>3. /\ Popped.stash = d.stash /\ Popped.fifo = Tail(d.fifo) /\ Pending(Popped) = Pending(d)
        /\ Past(d, Popped) /\ Popped.turn = d.turn /\ Popped.pc = d.pc
    BY <1>2 DEF Fields, Pending, Past
  <1>4. d.pendingPrompt = {} \/ d.awaited # {}
    BY <1>1 DEF Popping, PendingPromptReady
  <1>5. s.pc = "decide" /\ s.fifo # <<>> /\ item = Head(s.fifo) /\ messages' = messages /\ sent' = sent
    BY DEF Popping, Deciding
  <1>6. QED
    BY <1>1, <1>3, <1>4, <1>5, PoppedTyped DEF Same, Rest, Past, Pending

LEMMA DecideMoves ==
    ASSUME TypeOK, s \in Fields, Decide
    PROVE  Passes \/ \E parts \in SUBSET Prompt : Starts(parts)
  <1>1. PICK d \in Fields : /\ d = Decided /\ Same(s, d) /\ d.turn = s.turn /\ d.pc = s.pc
                            /\ d.pendingPrompt = s.pendingPrompt /\ d.awaited = s.awaited
    BY DecidedTyped, DecidedSame
  <1>2. ASSUME s.pc = "decide", UNCHANGED <<messages, sent>>, Same(s, s'),
               Running(s') \subseteq Running(s),
               s'.pc = "turn" => Pending(s) = {} \/ s.awaited # {}
        PROVE  Passes
    BY <1>2 DEF Passes, QueuePasses, BufferPasses, Same, Rest
  <1>3. ASSUME NEW item, item.kind # "prompt", Popping(item), NEW m, Same(Popped, m), Same(m, s'),
               Running(s') \subseteq Running(s)
        PROVE  Passes
    <2>1. /\ s'.stash = s.stash /\ s'.fifo = Tail(s.fifo) /\ s.fifo # <<>> /\ Head(s.fifo).kind # "prompt"
          /\ Pending(s') = Pending(s) /\ Past(s, s')
      BY <1>3, PoppedMoves DEF Same, Rest, Past
    <2>2. /\ Pending(s) = {} \/ s.awaited # {}
          /\ s.pc = "decide" /\ messages' = messages /\ sent' = sent
      BY <1>3, PoppedMoves
    <2>3. QED
      BY <1>3, <2>1, <2>2 DEF Passes, QueuePasses, BufferPasses
  <1>4. \A m : Same(m, m)
    BY DEF Same, Rest, Past
  <1>5. CASE ReplayToolAction
    <2>1. PICK m : m = [d EXCEPT !.toolActions = Tail(d.toolActions)]
      OBVIOUS
    <2>2. m \in Fields
      <3>1. Tail(d.toolActions) \in Actions
        BY <1>1, <1>5, HeadTailProperties DEF ReplayToolAction, Fields, Actions
      <3>2. QED
        BY <2>1, <3>1, Zenon DEF Fields
    <2>3. Same(d, m) /\ m.turn = d.turn
      BY <2>1 DEF Fields, Same, Rest, Past, Pending
    <2>4. PICK action \in QueuedAction : action = Head(d.toolActions)
      BY <1>1, <1>5, HeadTailProperties DEF ReplayToolAction, Fields, Actions
    <2>5. HandleTurnResult(m, action) /\ s.pc = "decide" /\ UNCHANGED <<messages, sent>>
      BY <1>1, <1>5, <2>1, <2>4 DEF ReplayToolAction, Deciding
    <2>6. Concludes(m)
      BY <2>2, <2>4, <2>5, ResultMoves DEF QueuedAction
    <2>7. s'.pc # "turn"
      BY <2>2, <2>5, ResultSettles DEF Settled
    <2>8. Same(s, s') /\ Running(s') = {}
      BY <1>1, <2>3, <2>6, SameTwice DEF Concludes, Running
    <2>9. QED
      BY <1>2, <2>5, <2>7, <2>8
  <1>6. CASE TakePendingPrompt
    <2>1. PICK m \in Fields : m = [d EXCEPT !.pendingPrompt = {}]
      <3>1. {} \in Texts
        BY Blank
      <3>2. [d EXCEPT !.pendingPrompt = {}] \in Fields
        BY <3>1, Zenon DEF Fields
      <3>3. QED
        BY <3>2
    <2>2. Rest(d, m) /\ Pending(m) = {}
      BY <2>1 DEF Fields, Rest, Past, Pending
    <2>3. StartTurn(m, s.pendingPrompt) /\ s.pc = "decide" /\ UNCHANGED <<messages, sent>>
      BY <1>1, <1>6, <2>1 DEF TakePendingPrompt, Deciding
    <2>4. Starts(Pending(s))
      BY <1>1, <2>2, <2>3, StartMoves DEF Starts, Takes, Same, Rest, Past, Running, Pending
    <2>5. Pending(s) \in SUBSET Prompt
      BY DEF Pending
    <2>6. QED
      BY <2>4, <2>5
  <1>7. ASSUME NEW p \in Prompt, Popping([kind |-> "prompt", parts |-> {p}]), StartTurn(Popped, {p})
        PROVE  Starts({p})
    <2>1. PICK m \in Fields : m = Popped
      BY <1>7, PoppedMoves
    <2>2. /\ s'.stash = m.stash /\ s'.fifo = m.fifo /\ s'.handled = m.handled
          /\ Pending(s') = Pending(m)
          /\ \/ s'.pc = "turn" /\ s'.turn = {p} /\ s'.abandoned = m.abandoned
             \/ /\ s'.pc # "turn" /\ s'.turn = {}
                /\ s'.abandoned = m.abandoned \union ({p} \intersect Prompt)
      BY <1>7, <2>1, StartMoves
    <2>3. /\ m.stash = s.stash /\ m.fifo = Tail(s.fifo) /\ Pending(m) = Pending(s) /\ Past(s, m)
          /\ s.pc = "decide" /\ (Pending(s) = {} \/ s.awaited # {})
          /\ s.fifo # <<>> /\ Head(s.fifo) = PromptItem(p) /\ messages' = messages /\ sent' = sent
      BY <1>7, <2>1, PoppedMoves DEF PromptItem
    <2>4. {p} \intersect Prompt = {p}
      OBVIOUS
    <2>5. Takes({p})
      BY <2>2, <2>3 DEF Takes
    <2>6. QED
      BY <2>2, <2>3, <2>4, <2>5 DEF Starts, Past, Running
  <1>8. ASSUME NEW item, item.kind # "prompt", Popping(item), NEW m \in Fields, Same(Popped, m),
               NEW part \in {"answer", "text", "system"}, StartTurn(m, {part})
        PROVE  Passes
    <2>1. Same(m, s') /\ Running(s') = {}
      <3>1. {part} \intersect Prompt = {}
        BY NoTexts
      <3>2. /\ s'.stash = m.stash /\ s'.fifo = m.fifo /\ s'.handled = m.handled
            /\ Pending(s') = Pending(m)
            /\ \/ s'.turn = {part} /\ s'.abandoned = m.abandoned
               \/ s'.turn = {} /\ s'.abandoned = m.abandoned \union ({part} \intersect Prompt)
        BY <1>8, StartMoves
      <3>3. QED
        BY <3>1, <3>2 DEF Same, Rest, Past, Running
    <2>2. QED
      BY <1>3, <1>8, <2>1
  <1>9. CASE ProcessAnswer
    <2>1. Popping([kind |-> "answer"]) /\ [kind |-> "answer"].kind # "prompt"
      BY <1>9 DEF ProcessAnswer
    <2>2. PICK m \in Fields : m = Popped
      BY <2>1, PoppedMoves
    <2>3. [m EXCEPT !.question = FALSE] \in Fields
      BY Blank, Zenon DEF Fields
    <2>4. Same(m, [m EXCEPT !.question = FALSE])
      BY DEF Fields, Same, Rest, Past, Pending
    <2>5. StartTurn([m EXCEPT !.question = FALSE], {"answer"})
      BY <1>9, <2>2 DEF ProcessAnswer
    <2>6. QED
      BY <1>8, <2>1, <2>2, <2>3, <2>4, <2>5
  <1>10. \A timer : [kind |-> "timer", timer |-> timer].kind # "prompt"
    OBVIOUS
  <1>11. ASSUME NEW timer, Fired(timer)
         PROVE  /\ Popping([kind |-> "timer", timer |-> timer]) /\ Popped \in Fields
                /\ Same(Popped, Popped)
    BY <1>4, <1>11, PoppedMoves DEF Fired
  <1>12. CASE ProcessWaitTimer
    BY <1>8, <1>10, <1>11, <1>12 DEF ProcessWaitTimer
  <1>13. ASSUME NEW timer, Fired(timer), NEW m, Same(Popped, m), Same(m, s'), s'.turn \in {s.turn, {}}
         PROVE  Passes
    BY <1>3, <1>10, <1>11, <1>13 DEF Running
  <1>14. CASE ProcessCronTimer
    <2>1. CASE \E part \in {"system", "text"} : StartTurn(Popped, {part})
      BY <1>8, <1>10, <1>11, <1>14, <2>1 DEF ProcessCronTimer
    <2>2. CASE Crash(Popped, Popped.status)
      <3>1. Popped \in Fields /\ Fired("cron") /\ Same(Popped, Popped)
        BY <1>11, <1>14 DEF ProcessCronTimer
      <3>2. PICK m \in Fields : m = Popped
        BY <3>1
      <3>3. Concludes(m)
        BY <2>2, <3>2, CrashConcludes
      <3>4. QED
        BY <1>13, <3>1, <3>2, <3>3 DEF Concludes
    <2>3. QED
      BY <1>14, <2>1, <2>2 DEF ProcessCronTimer, WakeUps
  <1>15. ASSUME NEW timer, Fired(timer), s' \in Dehydrations(NextIteration(Popped)) PROVE Passes
    <2>1. PICK m \in Fields : m = Popped
      BY <1>11, <1>15
    <2>2. PICK n \in Fields : n = NextIteration(m) /\ Same(m, n) /\ n.turn = {}
      BY NextIterationTyped, HelpersSame
    <2>3. Same(n, s') /\ s'.turn = {}
      BY <1>15, <2>1, <2>2, HelpersSame
    <2>4. QED
      BY <1>13, <1>15, <2>1, <2>2, <2>3
  <1>16. CASE ProcessIdleTimer
    BY <1>15, <1>16 DEF ProcessIdleTimer
  <1>17. CASE ProcessGraceTimer
    BY <1>15, <1>17 DEF ProcessGraceTimer
  <1>18. CASE ProcessStalePoll
    <2>1. PICK m \in Fields : m = Popped
      BY <1>11, <1>18 DEF ProcessStalePoll
    <2>2. Same(m, s') /\ s'.turn = {}
      BY <1>18, <2>1, HelpersSame DEF ProcessStalePoll
    <2>3. QED
      BY <1>4, <1>13, <1>18, <2>1, <2>2 DEF ProcessStalePoll
  <1>19. ASSUME NEW timer, Fired(timer)
         PROVE  \E q \in Fields : /\ q = Polled(Popped) /\ Same(Popped, q) /\ q.turn = s.turn
                                  /\ q.shutdown = s.shutdown
    <2>1. PICK m \in Fields : m = Popped /\ m.turn = s.turn /\ m.shutdown = s.shutdown
      BY <1>11, <1>19, PoppedMoves, PoppedShutdown
    <2>2. child \in [Child -> ChildStatus]
      BY DEF TypeOK
    <2>3. Polled(m) \in Fields /\ Same(m, Polled(m)) /\ Polled(m).turn = m.turn
          /\ Polled(m).shutdown = m.shutdown
      BY <2>2, PolledTyped, HelpersSame, PolledShutdown
    <2>4. QED
      BY <2>1, <2>3
  <1>20. CASE ProcessPollResolved
    <2>1. PICK q \in Fields : q = Polled(Popped) /\ Same(Popped, q) /\ q.turn = s.turn
      BY <1>19, <1>20 DEF ProcessPollResolved
    <2>2. PICK m \in Fields : m = ResolveAgentWait(q) /\ Same(q, m) /\ m.turn = q.turn
      BY ResolveTyped, ResolveSame
    <2>3. s' = NextIteration(m) \/ s' = [m EXCEPT !.pc = "ended"]
      BY <1>20, <2>1, <2>2 DEF ProcessPollResolved
    <2>4. CASE s' = NextIteration(m)
      BY <1>13, <1>20, <2>1, <2>2, <2>4, HelpersSame, SameTwice DEF ProcessPollResolved
    <2>5. CASE s' = [m EXCEPT !.pc = "ended"]
      <3>1. Same(m, s') /\ s'.turn = m.turn
        BY <2>5 DEF Fields, Same, Rest, Past, Pending
      <3>2. QED
        BY <1>13, <1>20, <2>1, <2>2, <3>1, SameTwice DEF ProcessPollResolved
    <2>6. QED
      BY <2>3, <2>4, <2>5
  <1>21. ASSUME NEW timer, Fired(timer), NEW n, Same(NextIteration(Polled(Popped)), n), n.turn = {}, s' = n
         PROVE  Passes
    <2>1. PICK q \in Fields : q = Polled(Popped) /\ Same(Popped, q) /\ q.turn = s.turn
      BY <1>19, <1>21
    <2>2. Same(q, NextIteration(q))
      BY HelpersSame
    <2>3. QED
      BY <1>13, <1>21, <2>1, <2>2, SameTwice
  <1>22. CASE ProcessPollAgain
    <2>1. PICK q \in Fields : q = Polled(Popped)
      BY <1>19, <1>22 DEF ProcessPollAgain
    <2>2. PICK n \in Fields : n = NextIteration(q) /\ n.turn = {}
      BY NextIterationTyped, HelpersSame
    <2>3. s' = [n EXCEPT !.timer = "agent-poll"]
      BY <1>22, <2>1, <2>2 DEF ProcessPollAgain
    <2>4. Same(n, s') /\ s'.turn = n.turn
      BY <2>3 DEF Fields, Same, Rest, Past, Pending
    <2>5. QED
      BY <1>21, <1>22, <2>1, <2>2, <2>4 DEF ProcessPollAgain
  <1>23. CASE ProcessShutdownPoll
    <2>1. PICK q \in Fields : /\ q = Polled(Popped) /\ Same(Popped, q) /\ q.turn = s.turn
                              /\ q.shutdown = s.shutdown
      BY <1>19, <1>23 DEF ProcessShutdownPoll
    <2>2. PICK n \in Fields : n = NextIteration(q) /\ n.turn = {}
      BY NextIterationTyped, HelpersSame
    <2>3. PICK age :
            \/ s' = failPendingShutdown(q)
            \/ s' = [n EXCEPT !.shutdown.age = age, !.timer = "agent-poll", !.status = "waiting"]
      BY <1>23, <2>1, <2>2 DEF ProcessShutdownPoll
    <2>4. CASE s' = failPendingShutdown(q)
      <3>1. q.shutdown # NoShutdown
        BY <1>23, <2>1 DEF ProcessShutdownPoll
      <3>2. Same(q, s') /\ s'.turn = q.turn
        BY <2>4, <3>1, FailureSame
      <3>3. QED
        BY <1>13, <1>23, <2>1, <3>2 DEF ProcessShutdownPoll
    <2>5. CASE s' = [n EXCEPT !.shutdown.age = age, !.timer = "agent-poll", !.status = "waiting"]
      <3>1. Same(n, s') /\ s'.turn = n.turn
        BY <2>5 DEF Fields, Same, Rest, Past, Pending
      <3>2. QED
        BY <1>21, <1>23, <2>1, <2>2, <3>1 DEF ProcessShutdownPoll
    <2>6. QED
      BY <2>3, <2>4, <2>5
  <1>24. CASE ProcessDigest \/ DecideNothing
    <2>1. s.pc = "decide" /\ UNCHANGED <<messages, sent>> /\ (Pending(s) = {} \/ s.awaited # {})
      BY <1>1, <1>24 DEF ProcessDigest, DecideNothing, NothingPopped, Deciding, PendingPromptReady,
                         Pending
    <2>2. CASE DecideNothing
      <3>1. s' = NextIteration(d) \/ s' = ContinueAsNew(d)
        BY <1>1, <2>2 DEF DecideNothing
      <3>2. Same(d, s') /\ s'.turn = {}
        BY <3>1, HelpersSame
      <3>3. Same(s, s') /\ Running(s') = {}
        BY <1>1, <3>2, SameTwice DEF Running
      <3>4. QED
        BY <1>2, <2>1, <3>3
    <2>3. CASE ProcessDigest
      <3>1. PICK m \in Interruptions(d) : StartTurn([m EXCEPT !.digest = "none"], {"system"})
        BY <1>1, <2>3 DEF ProcessDigest
      <3>2. m \in Fields /\ Same(d, m)
        BY InterruptionsTyped, InterruptionsSame
      <3>3. PICK n \in Fields : n = [m EXCEPT !.digest = "none"]
        <4>1. "none" \in Digest
          BY Literals
        <4>2. [m EXCEPT !.digest = "none"] \in Fields
          BY <3>2, <4>1, Zenon DEF Fields
        <4>3. QED
          BY <4>2
      <3>4. Same(m, n)
        BY <3>2, <3>3 DEF Fields, Same, Rest, Past, Pending
      <3>5. {"system"} \intersect Prompt = {}
        BY NoTexts
      <3>6. /\ s'.stash = n.stash /\ s'.fifo = n.fifo /\ s'.handled = n.handled
            /\ Pending(s') = Pending(n)
            /\ \/ s'.turn = {"system"} /\ s'.abandoned = n.abandoned
               \/ s'.turn = {} /\ s'.abandoned = n.abandoned \union ({"system"} \intersect Prompt)
        BY <3>1, <3>3, StartMoves
      <3>7. Same(n, s') /\ Running(s') = {}
        BY <3>5, <3>6 DEF Same, Rest, Past, Running
      <3>8. Same(s, s')
        BY <1>1, <3>2, <3>4, <3>7, SameTwice
      <3>9. QED
        BY <1>2, <2>1, <3>7, <3>8
    <2>4. QED
      BY <1>24, <2>2, <2>3
  <1>25. CASE ProcessPrompt
    <2>1. PICK p \in Prompt : Popping([kind |-> "prompt", parts |-> {p}]) /\ StartTurn(Popped, {p})
      BY <1>25 DEF ProcessPrompt
    <2>2. Starts({p}) /\ {p} \in SUBSET Prompt
      BY <1>7, <2>1
    <2>3. QED
      BY <2>2
  <1>26. QED
    BY <1>5, <1>6, <1>9, <1>12, <1>14, <1>16, <1>17, <1>18, <1>20, <1>22, <1>23, <1>24, <1>25
       DEF Decide

LEMMA RetryTurnMoves ==
    ASSUME NEW m \in Fields, NEW k, NEW n, n = RetryTurn(m, k)
    PROVE  /\ Rest(m, n) /\ n.turn = {}
           /\ Pending(n) = Running(m) \/ (Running(m) = {} /\ Pending(n) = Pending(m))
  <1>1. PICK parts : parts = (IF m.turn = {"system"} THEN m.pendingPrompt \union {"text"} ELSE m.turn)
    OBVIOUS
  <1>2. n = RetryWith(m, parts, k)
    BY <1>1 DEF RetryTurn
  <1>3. Rest(m, n) /\ n.pendingPrompt = parts /\ n.turn = {}
    BY <1>2, RetryMoves
  <1>4. CASE m.turn = {"system"}
    <2>1. Running(m) = {} /\ parts = m.pendingPrompt \union {"text"}
      BY <1>1, <1>4, NoTexts DEF Running
    <2>2. {"text"} \intersect Prompt = {}
      BY NoTexts
    <2>3. Pending(n) = Pending(m)
      BY <1>3, <2>1, <2>2 DEF Pending
    <2>4. QED
      BY <1>3, <2>1, <2>3
  <1>5. CASE m.turn # {"system"}
    BY <1>1, <1>3, <1>5 DEF Pending, Running
  <1>6. QED
    BY <1>4, <1>5

LEMMA ReturnedMoves ==
    ASSUME s \in Fields, NEW outcome \in Outcome
    PROVE  LET r == Returned(s, outcome) IN
             /\ r \in Fields /\ r.stash = s.stash /\ r.fifo = s.fifo /\ Pending(r) = Pending(s)
             /\ r.turn = s.turn /\ r.abandoned = s.abandoned
             /\ r.handled = IF outcome.main = "error" THEN s.handled ELSE s.handled \union Running(s)
  <1>1. PICK handled \in Prompts :
          handled = (IF outcome.main = "error" THEN s.handled ELSE s.handled \union Running(s))
    BY DEF Fields, Prompts, Running
  <1>2. PICK failures \in Failures : failures = (IF outcome.main = "error" THEN s.failures ELSE NoFailures)
    BY Blank DEF Fields
  <1>3. PICK actions \in Actions : actions = s.toolActions \o outcome.queued
    <2>1. s.toolActions \o outcome.queued \in Actions
      BY OutcomeParts, ConcatProperties DEF Fields, Actions
    <2>2. QED
      BY <2>1
  <1>4. PICK m \in Fields : m = [s EXCEPT !.retryCount = 0, !.toolActions = actions,
                                          !.failures = failures, !.handled = handled]
    <2>1. 0 \in Count
      BY Blank
    <2>2. [s EXCEPT !.retryCount = 0, !.toolActions = actions,
                    !.failures = failures, !.handled = handled] \in Fields
      BY <2>1, Zenon DEF Fields
    <2>3. QED
      BY <2>2
  <1>5. Returned(s, outcome) = drainLeadingQueuedCronActions(m)
    BY <1>1, <1>2, <1>3, <1>4, Zenon DEF Returned, Running
  <1>6. /\ m.stash = s.stash /\ m.fifo = s.fifo /\ Pending(m) = Pending(s) /\ m.turn = s.turn
        /\ m.abandoned = s.abandoned /\ m.handled = handled
    BY <1>4 DEF Fields, Pending
  <1>7. Same(m, drainLeadingQueuedCronActions(m)) /\ drainLeadingQueuedCronActions(m).turn = m.turn
    BY HelpersSame
  <1>8. QED
    BY <1>1, <1>5, <1>6, <1>7, CronsDrainedTyped DEF Same, Rest, Past

LEMMA TurnMoves ==
    ASSUME TypeOK, s \in Fields, Turn
    PROVE  Ends
  <1>1. s.pc = "turn"
    BY DEF Turn, TurnReturns, TurnLosesState, TurnLosesConnection, TurnFails, Failing
  <1>2. UNCHANGED <<messages, sent>> /\ s'.pc # "turn"
    BY TurnTyped DEF Settled
  <1>3. ASSUME NEW outcome \in Outcome, TurnReturns(outcome),
               outcome.main = "error" => outcome \in TurnOutcome
        PROVE  Ends
    <2>1. PICK r \in Fields :
            /\ r = Returned(s, outcome)
            /\ r.stash = s.stash /\ r.fifo = s.fifo /\ Pending(r) = Pending(s)
            /\ r.turn = s.turn /\ r.abandoned = s.abandoned
            /\ r.handled = IF outcome.main = "error" THEN s.handled ELSE s.handled \union Running(s)
      BY ReturnedMoves
    <2>2. PICK m \in Refreshes(r) :
            HandleTurnResult(
              [m EXCEPT !.surprises = IF outcome = PlainOutcome THEN @ ELSE @ + 1], outcome.main)
            /\ (outcome # PlainOutcome => s.surprises < MaxSurprises)
      BY <1>3, <2>1 DEF TurnReturns
    <2>3. m \in Fields /\ Same(r, m) /\ m.turn = r.turn
      BY <2>1, RefreshesTyped, HelpersSame DEF TypeOK
    <2>4. m.surprises = s.surprises
      <3>1. Returned(s, outcome).surprises = s.surprises
        BY DEF Returned, drainLeadingQueuedCronActions, Fields
      <3>2. m.surprises = r.surprises
        BY <2>1 DEF Refreshes, Refreshed, Fields
      <3>3. QED
        BY <2>1, <3>1, <3>2
    <2>5. PICK surprises \in Surprises :
            surprises = (IF outcome = PlainOutcome THEN m.surprises ELSE m.surprises + 1)
      BY <2>2, <2>3, <2>4, Bounds DEF Fields, Surprises
    <2>6. PICK n \in Fields : n = [m EXCEPT !.surprises = surprises]
      <3>1. [m EXCEPT !.surprises = surprises] \in Fields
        BY <2>3, Zenon DEF Fields
      <3>2. QED
        BY <3>1
    <2>7. Same(m, n) /\ n.turn = m.turn
      BY <2>3, <2>6 DEF Fields, Same, Rest, Past, Pending
    <2>8. HandleTurnResult(n, outcome.main)
      BY <2>2, <2>5, <2>6
    <2>9. /\ n.stash = s.stash /\ n.fifo = s.fifo /\ Pending(n) = Pending(s) /\ Running(n) = Running(s)
          /\ n.abandoned = s.abandoned
          /\ n.handled = IF outcome.main = "error" THEN s.handled ELSE s.handled \union Running(s)
      BY <2>1, <2>3, <2>7 DEF Same, Rest, Past, Running
    <2>10. CASE outcome.main # "error"
      <3>1. Concludes(n)
        BY <2>8, <2>10, ResultMoves
      <3>2. QED
        BY <1>1, <1>2, <2>9, <2>10, <3>1 DEF Ends, Concludes, Same, Rest, Past
    <2>11. CASE outcome.main = "error"
      <3>1. TurnError(n)
        BY <2>8, <2>11 DEF HandleTurnResult
      <3>2. GivesUp(n) \/ Retries(n)
        BY <3>1, ErrorMoves
      <3>3. MayRetry
        BY <1>3, <2>11 DEF MayRetry
      <3>4. CASE GivesUp(n)
        BY <1>1, <1>2, <2>9, <2>11, <3>4 DEF Ends, GivesUp
      <3>5. CASE Retries(n)
        BY <1>1, <1>2, <2>9, <2>11, <3>3, <3>5 DEF Ends, Retries, Rest, Past
      <3>6. QED
        BY <3>2, <3>4, <3>5
    <2>12. QED
      BY <2>10, <2>11
  <1>4. ASSUME NEW failure, Failing(failure)
        PROVE  Failed \in Fields /\ Same(s, Failed) /\ Failed.turn = s.turn /\ failure \in TurnFailure
    <2>1. s.retryCount + 1 \in Count /\ FailedAgain(s.failures) \in Failures /\ s.surprises + 1 \in Surprises
      BY FailuresTyped, <1>4, Bounds DEF Failing, Fields, Count, Surprises
    <2>2. Failed \in Fields
      BY <2>1, Zenon DEF Failed, Fields
    <2>3. Same(s, Failed) /\ Failed.turn = s.turn
      BY DEF Failed, Fields, Same, Rest, Past, Pending
    <2>4. QED
      BY <1>4, <2>2, <2>3 DEF Failing
  <1>5. CASE TurnLosesState
    <2>1. PICK f \in Fields : f = Failed /\ Same(s, f)
      BY <1>4, <1>5 DEF TurnLosesState
    <2>2. Crash(f, "failed")
      BY <1>5, <2>1 DEF TurnLosesState
    <2>3. Concludes(f) /\ s'.pc = "ended"
      <3>1. Concludes(f)
        BY <2>2, CrashConcludes
      <3>2. s'.pc = "ended"
        BY <2>2 DEF Crash, Fields
      <3>3. QED
        BY <3>1, <3>2
    <2>4. QED
      BY <1>1, <1>2, <2>1, <2>3 DEF Ends, Concludes, Same, Rest, Past
  <1>6. ASSUME NEW f \in Fields, f = Failed, Same(s, f), f.turn = s.turn, s' = GiveUp(f) PROVE Ends
    <2>1. /\ s'.stash = f.stash /\ s'.fifo = f.fifo /\ s'.handled = f.handled
          /\ s'.abandoned = f.abandoned \union Running(f)
          /\ Pending(s') = Pending(f) /\ s'.turn = {}
      BY <1>6, AbandonMoves
    <2>2. Running(f) = Running(s)
      BY <1>6 DEF Running
    <2>3. QED
      BY <1>1, <1>2, <1>6, <2>1, <2>2 DEF Ends, Same, Rest, Past
  <1>7. ASSUME NEW f \in Fields, f = Failed, Same(s, f), f.turn = s.turn, MayRetry,
               NEW k, NEW n, n = RetryTurn(f, k), s' = n \/ s' = [n EXCEPT !.failures = HandedOff(n.failures)], n \in Fields
        PROVE  Ends
    <2>1. /\ Rest(f, n) /\ n.turn = {}
          /\ Pending(n) = Running(f) \/ (Running(f) = {} /\ Pending(n) = Pending(f))
      BY <1>7, RetryTurnMoves
    <2>2. Running(f) = Running(s)
      BY <1>7 DEF Running
    <2>3. Same(n, s') /\ s'.turn = n.turn
      BY <1>7 DEF Fields, Same, Rest, Past, Pending
    <2>4. QED
      BY <1>1, <1>2, <1>7, <2>1, <2>2, <2>3 DEF Ends, Same, Rest, Past
  <1>8. CASE TurnLosesConnection
    <2>1. PICK f \in Fields : f = Failed /\ Same(s, f) /\ f.turn = s.turn
      BY <1>4, <1>8 DEF TurnLosesConnection
    <2>2. PICK k \in Nat :
            k = (IF f.retryCount > COPILOT_CONNECTION_CLOSED_MAX_RETRIES THEN 0 ELSE f.retryCount)
      BY DEF Fields, Count
    <2>3. PICK n \in Fields : n = RetryTurn(f, k)
      BY RetryTurnTyped
    <2>4. s' = n \/ s' = [n EXCEPT !.failures = HandedOff(n.failures)] \/ s' = GiveUp(f)
      BY <1>8, <2>1, <2>2, <2>3 DEF TurnLosesConnection
    <2>5. MayRetry
      BY <1>8 DEF TurnLosesConnection, Failing, MayRetry
    <2>6. QED
      BY <1>6, <1>7, <2>1, <2>3, <2>4, <2>5
  <1>9. CASE TurnFails
    <2>1. PICK f \in Fields : f = Failed /\ Same(s, f) /\ f.turn = s.turn
      BY <1>4, <1>9 DEF TurnFails
    <2>2. PICK k \in Nat : k = f.retryCount
      BY DEF Fields, Count
    <2>3. PICK n \in Fields : n = RetryTurn(f, k)
      BY RetryTurnTyped
    <2>4. s' = n \/ s' = GiveUp(f)
      BY <1>9, <2>1, <2>2, <2>3 DEF TurnFails
    <2>5. MayRetry
      BY <1>9 DEF TurnFails, Failing, MayRetry
    <2>6. QED
      BY <1>6, <1>7, <2>1, <2>3, <2>4, <2>5
  <1>10. PlainOutcome.main # "error"
    BY DEF PlainOutcome
  <1>11. QED
    BY <1>3, <1>5, <1>8, <1>9, <1>10, PlainIsOutcome, OutcomeAssumption DEF Turn

LEMMA PromptMoves ==
    ASSUME TypeOK, s \in Fields, Awake, [Next]_vars
    PROVE  \/ Passes \/ Ends
           \/ \E p \in Prompt : Sends(p) \/ Routes(p)
           \/ \E parts \in SUBSET Prompt : Starts(parts)
  <1>1. CASE IterationCap \/ HistoryCap \/ StartDrain \/ TimerFires \/ DigestDue \/ Park \/ EndDrain
    BY <1>1, DrainMoves
  <1>2. CASE Dequeue
    BY <1>2, DequeueMoves
  <1>3. CASE Decide
    BY <1>3, DecideMoves
  <1>4. CASE Turn
    BY <1>4, TurnMoves
  <1>5. CASE Environment
    BY <1>5, EnvironmentMoves
  <1>6. CASE UNCHANGED vars
    <2>1. s' = s /\ messages' = messages /\ sent' = sent
      BY <1>6 DEF vars
    <2>2. QED
      BY <2>1 DEF Passes, QueuePasses, BufferPasses, Past
  <1>7. QED
    BY <1>1, <1>2, <1>3, <1>4, <1>5, <1>6 DEF Next, Loop

----------------------------------------------------------------------------
(* Every message of a user is in one place at most.                        *)

Queued(p) == Within(messages, PromptMessage(p))
Kept(p) == Within(s.stash, PromptItem(p)) \/ Within(s.fifo, PromptItem(p))
KeptOnce(p) ==
    /\ Once(s.stash, PromptItem(p)) /\ Once(s.fifo, PromptItem(p))
    /\ ~(Within(s.stash, PromptItem(p)) /\ Within(s.fifo, PromptItem(p)))

OnePlace(p) ==
    /\ Once(messages, PromptMessage(p)) /\ KeptOnce(p)
    /\ Queued(p) =>
         p \in sent /\ ~Kept(p) /\ p \notin Pending(s) /\ p \notin Running(s) /\ p \notin s.handled
    /\ Kept(p) => p \in sent /\ p \notin Pending(s) /\ p \notin Running(s) /\ p \notin s.handled
    /\ p \in Pending(s) => p \in sent /\ p \notin Running(s) /\ p \notin s.handled
    /\ p \in Running(s) => p \in sent /\ p \notin s.handled
    /\ p \in s.handled => p \in sent

Quiet == s.pc # "turn" => Running(s) = {}

LEMMA PromptKinds ==
    ASSUME NEW p \in Prompt
    PROVE  /\ PromptMessage(p) \in Message /\ PromptMessage(p).kind = "prompt"
           /\ PromptItem(p) \in Item /\ PromptItem(p).kind = "prompt"
           /\ \A q \in Prompt : PromptMessage(q) = PromptMessage(p) => q = p
           /\ \A q \in Prompt : PromptItem(q) = PromptItem(p) => q = p
  <1>1. PromptMessage(p) \in Message /\ PromptMessage(p).kind = "prompt"
    BY DEF PromptMessage, Message
  <1>2. PromptItem(p) \in Item /\ PromptItem(p).kind = "prompt"
    BY ItemKinds DEF PromptItem
  <1>3. ASSUME NEW q \in Prompt, PromptMessage(q) = PromptMessage(p) PROVE q = p
    <2>1. PromptMessage(q).prompt = PromptMessage(p).prompt
      BY <1>3
    <2>2. QED
      BY <2>1 DEF PromptMessage
  <1>4. ASSUME NEW q \in Prompt, PromptItem(q) = PromptItem(p) PROVE q = p
    <2>1. PromptItem(q).parts = PromptItem(p).parts
      BY <1>4
    <2>2. {q} = {p}
      BY <2>1 DEF PromptItem
    <2>3. QED
      BY <2>2
  <1>5. QED
    BY <1>1, <1>2, <1>3, <1>4

LEMMA QueueKeeps ==
    ASSUME TypeOK, NEW p \in Prompt, QueuePasses
    PROVE  /\ Queued(p)' <=> Queued(p)
           /\ Once(messages, PromptMessage(p)) => Once(messages', PromptMessage(p))
  <1>1. messages \in Seq(Message)
    BY DEF TypeOK
  <1>2. PICK x : x = PromptMessage(p) /\ x.kind = "prompt"
    BY PromptKinds
  <1>3. SUFFICES (Within(messages', x) <=> Within(messages, x))
                 /\ (Once(messages, x) => Once(messages', x))
    BY <1>2 DEF Queued
  <1>4. CASE messages' = messages
    BY <1>4
  <1>5. CASE messages # <<>> /\ Head(messages).kind # "prompt" /\ messages' = Tail(messages)
    <2>1. Head(messages) # x
      BY <1>2, <1>5
    <2>2. QED
      BY <1>1, <1>5, <2>1, WithinTail
  <1>6. CASE \E y \in Message : y.kind # "prompt" /\ messages' = Append(messages, y)
    <2>1. PICK y \in Message : y # x /\ messages' = Append(messages, y)
      BY <1>2, <1>6
    <2>2. QED
      BY <1>1, <2>1, WithinAppend
  <1>7. QED
    BY <1>4, <1>5, <1>6 DEF QueuePasses

LEMMA BufferKeeps ==
    ASSUME s \in Fields, NEW p \in Prompt, BufferPasses
    PROVE  (Kept(p)' <=> Kept(p)) /\ (KeptOnce(p) => KeptOnce(p)')
  <1>1. s.stash \in Seq(Item) /\ s.fifo \in Seq(Item)
    BY DEF Fields, Items
  <1>2. PICK x \in Item : x = PromptItem(p) /\ x.kind = "prompt"
    BY PromptKinds
  <1>3. SUFFICES /\ (Within(s'.stash, x) \/ Within(s'.fifo, x)) <=> (Within(s.stash, x) \/ Within(s.fifo, x))
                 /\ Once(s.stash, x) /\ Once(s.fifo, x) /\ ~(Within(s.stash, x) /\ Within(s.fifo, x))
                      => /\ Once(s'.stash, x) /\ Once(s'.fifo, x)
                         /\ ~(Within(s'.stash, x) /\ Within(s'.fifo, x))
    BY <1>2 DEF Kept, KeptOnce
  <1>4. CASE s'.stash = s.stash /\ s'.fifo = s.fifo
    BY <1>4
  <1>5. CASE s'.stash = <<>> /\ s'.fifo = s.fifo \o s.stash
    <2>1. ~Within(<<>>, x) /\ Once(<<>>, x)
      BY DEF Within, Once
    <2>2. /\ Within(s.fifo \o s.stash, x) <=> Within(s.fifo, x) \/ Within(s.stash, x)
          /\ Once(s.fifo, x) /\ Once(s.stash, x) /\ ~(Within(s.fifo, x) /\ Within(s.stash, x))
               => Once(s.fifo \o s.stash, x)
      BY <1>1, WithinConcat
    <2>3. QED
      BY <1>5, <2>1, <2>2
  <1>6. CASE s'.fifo = s.fifo /\ \E y \in Item : y.kind # "prompt" /\ s'.stash = Append(s.stash, y)
    <2>1. PICK y \in Item : y # x /\ s'.stash = Append(s.stash, y)
      BY <1>2, <1>6
    <2>2. /\ Within(Append(s.stash, y), x) <=> Within(s.stash, x) \/ y = x
          /\ Once(s.stash, x) /\ (y = x => ~Within(s.stash, x)) => Once(Append(s.stash, y), x)
      BY <1>1, WithinAppend
    <2>3. QED
      BY <1>6, <2>1, <2>2
  <1>7. CASE s'.stash = s.stash /\ s.fifo # <<>> /\ Head(s.fifo).kind # "prompt" /\ s'.fifo = Tail(s.fifo)
    <2>1. Head(s.fifo) # x
      BY <1>2, <1>7
    <2>2. /\ Within(s.fifo, x) <=> Head(s.fifo) = x \/ Within(Tail(s.fifo), x)
          /\ Once(s.fifo, x) => Once(Tail(s.fifo), x)
      BY <1>1, <1>7, WithinTail
    <2>3. QED
      BY <1>7, <2>1, <2>2
  <1>8. QED
    BY <1>4, <1>5, <1>6, <1>7 DEF BufferPasses

LEMMA PassesPlaces ==
    ASSUME TypeOK, s \in Fields, NEW p \in Prompt, Quiet, OnePlace(p), Passes
    PROVE  OnePlace(p)' /\ Quiet' /\ s'.handled = s.handled
  <1>1. Queued(p)' <=> Queued(p)
    BY QueueKeeps DEF Passes
  <1>2. Once(messages, PromptMessage(p))'
    BY QueueKeeps DEF Passes, OnePlace, PromptMessage
  <1>3. (Kept(p)' <=> Kept(p)) /\ KeptOnce(p)'
    BY BufferKeeps DEF Passes, OnePlace
  <1>4. /\ p \in sent' <=> p \in sent
        /\ Pending(s)' = Pending(s) /\ s'.handled = s.handled
    BY DEF Passes, Past, Pending
  <1>5. Running(s)' \subseteq Running(s) /\ Quiet'
    BY DEF Passes, Running, Quiet
  <1>6. QED
    BY <1>1, <1>2, <1>3, <1>4, <1>5 DEF OnePlace

LEMMA SendsPlaces ==
    ASSUME TypeOK, s \in Fields, NEW p \in Prompt, Quiet, OnePlace(p), NEW q \in Prompt, Sends(q)
    PROVE  OnePlace(p)' /\ Quiet' /\ s'.handled = s.handled
  <1>1. s' = s /\ q \notin sent /\ sent' = sent \union {q}
    BY DEF Sends
  <1>2. messages \in Seq(Message) /\ PromptMessage(q) \in Message
    BY PromptKinds DEF TypeOK
  <1>3. messages' = Append(messages, PromptMessage(q))
    BY DEF Sends
  <1>4. /\ Within(messages', PromptMessage(p)) <=>
             Within(messages, PromptMessage(p)) \/ PromptMessage(q) = PromptMessage(p)
        /\ Once(messages, PromptMessage(p))
             /\ (PromptMessage(q) = PromptMessage(p) => ~Within(messages, PromptMessage(p)))
             => Once(messages', PromptMessage(p))
    BY <1>2, <1>3, WithinAppend
  <1>5. PromptMessage(q) = PromptMessage(p) => q = p
    BY PromptKinds
  <1>6. Queued(p)' <=> Within(messages', PromptMessage(p))
    BY DEF Queued, PromptMessage
  <1>7. Once(messages, PromptMessage(p))' <=> Once(messages', PromptMessage(p))
    BY DEF PromptMessage
  <1>8. (Kept(p)' <=> Kept(p)) /\ (KeptOnce(p)' <=> KeptOnce(p)) /\ Pending(s)' = Pending(s)
        /\ Running(s)' = Running(s) /\ s'.handled = s.handled /\ Quiet'
    BY <1>1 DEF Kept, KeptOnce, Pending, Running, Quiet
  <1>9. p = q => ~Queued(p) /\ ~Kept(p) /\ p \notin Pending(s) /\ p \notin Running(s) /\ p \notin s.handled
    BY <1>1 DEF OnePlace
  <1>10. QED
    BY <1>1, <1>4, <1>5, <1>6, <1>7, <1>8, <1>9 DEF OnePlace, Queued

LEMMA RoutesPlaces ==
    ASSUME TypeOK, s \in Fields, NEW p \in Prompt, Quiet, OnePlace(p), NEW q \in Prompt, Routes(q)
    PROVE  OnePlace(p)' /\ Quiet' /\ s'.handled = s.handled
  <1>1. messages \in Seq(Message) /\ s.stash \in Seq(Item) /\ PromptItem(q) \in Item
    BY PromptKinds DEF TypeOK, Fields, Items
  <1>2. /\ messages # <<>> /\ Head(messages) = PromptMessage(q) /\ messages' = Tail(messages)
        /\ s'.fifo = s.fifo /\ s'.stash = Append(s.stash, PromptItem(q)) /\ sent' = sent
    BY DEF Routes
  <1>3. PICK x : x = PromptMessage(p)
    OBVIOUS
  <1>4. /\ Within(messages, x) <=> Head(messages) = x \/ Within(messages', x)
        /\ Once(messages, x) => Once(messages', x)
        /\ Once(messages, x) /\ Head(messages) = x => ~Within(messages', x)
    BY <1>1, <1>2, WithinTail
  <1>5. PICK y : y = PromptItem(p)
    OBVIOUS
  <1>6. /\ Within(s'.stash, y) <=> Within(s.stash, y) \/ PromptItem(q) = y
        /\ Once(s.stash, y) /\ (PromptItem(q) = y => ~Within(s.stash, y)) => Once(s'.stash, y)
    BY <1>1, <1>2, WithinAppend
  <1>7. (PromptMessage(q) = x <=> q = p) /\ (PromptItem(q) = y <=> q = p)
    BY <1>3, <1>5, PromptKinds
  <1>8. (Queued(p)' <=> Within(messages', x)) /\ (Queued(p) <=> Within(messages, x))
        /\ (Once(messages, PromptMessage(p))' <=> Once(messages', x))
    BY <1>3 DEF Queued, PromptMessage
  <1>9. /\ Kept(p)' <=> Within(s'.stash, y) \/ Within(s.fifo, y)
        /\ Kept(p) <=> Within(s.stash, y) \/ Within(s.fifo, y)
        /\ KeptOnce(p)' <=> /\ Once(s'.stash, y) /\ Once(s.fifo, y)
                            /\ ~(Within(s'.stash, y) /\ Within(s.fifo, y))
        /\ KeptOnce(p) <=> /\ Once(s.stash, y) /\ Once(s.fifo, y)
                           /\ ~(Within(s.stash, y) /\ Within(s.fifo, y))
    BY <1>2, <1>5 DEF Kept, KeptOnce, PromptItem
  <1>10. Pending(s)' = Pending(s) /\ Running(s)' = Running(s) /\ s'.handled = s.handled /\ Quiet'
    BY DEF Routes, Pending, Running, Past, Quiet
  <1>11. Once(messages, x) /\ KeptOnce(p)
    BY <1>3 DEF OnePlace
  <1>12. Queued(p) => /\ p \in sent /\ ~Kept(p) /\ p \notin Pending(s) /\ p \notin Running(s)
                      /\ p \notin s.handled
    BY DEF OnePlace
  <1>13. Kept(p) => p \in sent /\ p \notin Pending(s) /\ p \notin Running(s) /\ p \notin s.handled
    BY DEF OnePlace
  <1>14. CASE q = p
    <2>1. Queued(p) /\ ~Queued(p)' /\ Kept(p)' /\ KeptOnce(p)'
      BY <1>2, <1>4, <1>6, <1>7, <1>8, <1>9, <1>11, <1>12, <1>14
    <2>2. Once(messages, PromptMessage(p))'
      BY <1>4, <1>8, <1>11
    <2>3. QED
      BY <1>2, <1>10, <1>12, <2>1, <2>2 DEF OnePlace
  <1>15. CASE q # p
    <2>1. (Queued(p)' <=> Queued(p)) /\ (Kept(p)' <=> Kept(p)) /\ KeptOnce(p)'
      BY <1>2, <1>4, <1>6, <1>7, <1>8, <1>9, <1>11, <1>15
    <2>2. Once(messages, PromptMessage(p))'
      BY <1>4, <1>8, <1>11
    <2>3. QED
      BY <1>2, <1>10, <2>1, <2>2 DEF OnePlace
  <1>16. QED
    BY <1>10, <1>14, <1>15

LEMMA StartsPlaces ==
    ASSUME TypeOK, s \in Fields, NEW p \in Prompt, Quiet, OnePlace(p),
           NEW parts \in SUBSET Prompt, Starts(parts)
    PROVE  OnePlace(p)' /\ Quiet' /\ s'.handled = s.handled
  <1>1. messages' = messages /\ sent' = sent /\ s'.handled = s.handled
    BY DEF Starts
  <1>2. (Queued(p)' <=> Queued(p))
        /\ (Once(messages, PromptMessage(p))' <=> Once(messages, PromptMessage(p)))
    BY <1>1 DEF Queued, PromptMessage
  <1>3. /\ Quiet' /\ Running(s) = {}
        /\ p \in Running(s') => p \in parts
    BY DEF Starts, Quiet, Running
  <1>4. Pending(s)' = Pending(s') /\ Running(s)' = Running(s')
    BY DEF Pending, Running
  <1>5. s.fifo \in Seq(Item)
    BY DEF Fields, Items
  <1>6. CASE s'.stash = s.stash /\ s'.fifo = s.fifo /\ parts = Pending(s) /\ Pending(s') = {}
    <2>1. (Kept(p)' <=> Kept(p)) /\ (KeptOnce(p)' <=> KeptOnce(p))
      BY <1>6 DEF Kept, KeptOnce, PromptItem
    <2>2. QED
      BY <1>1, <1>2, <1>3, <1>4, <1>6, <2>1 DEF OnePlace
  <1>7. ASSUME s.fifo # <<>>, NEW q \in Prompt, Head(s.fifo) = PromptItem(q), parts = {q},
               s'.stash = s.stash, s'.fifo = Tail(s.fifo), Pending(s') = Pending(s)
        PROVE  OnePlace(p)'
    <2>1. PICK y : y = PromptItem(p)
      OBVIOUS
    <2>2. /\ Within(s.fifo, y) <=> PromptItem(q) = y \/ Within(s'.fifo, y)
          /\ Once(s.fifo, y) => Once(s'.fifo, y)
          /\ Once(s.fifo, y) /\ PromptItem(q) = y => ~Within(s'.fifo, y)
      BY <1>5, <1>7, WithinTail
    <2>3. PromptItem(q) = y <=> q = p
      BY <2>1, PromptKinds
    <2>4. /\ Kept(p)' <=> Within(s.stash, y) \/ Within(s'.fifo, y)
          /\ Kept(p) <=> Within(s.stash, y) \/ Within(s.fifo, y)
          /\ KeptOnce(p)' <=> /\ Once(s.stash, y) /\ Once(s'.fifo, y)
                              /\ ~(Within(s.stash, y) /\ Within(s'.fifo, y))
          /\ KeptOnce(p) <=> /\ Once(s.stash, y) /\ Once(s.fifo, y)
                             /\ ~(Within(s.stash, y) /\ Within(s.fifo, y))
      BY <1>7, <2>1 DEF Kept, KeptOnce, PromptItem
    <2>5. KeptOnce(p) /\ Once(messages, PromptMessage(p))
      BY DEF OnePlace
    <2>6. KeptOnce(p)' /\ (Kept(p)' => Kept(p)) /\ (p = q => Kept(p) /\ ~Kept(p)')
      BY <2>2, <2>3, <2>4, <2>5
    <2>7. p \in Running(s') => p = q
      BY <1>3, <1>7
    <2>8. QED
      BY <1>1, <1>2, <1>4, <1>7, <2>5, <2>6, <2>7 DEF OnePlace
  <1>8. QED
    BY <1>1, <1>3, <1>6, <1>7 DEF Starts, Takes

LEMMA EndsPlaces ==
    ASSUME TypeOK, s \in Fields, NEW p \in Prompt, Quiet, OnePlace(p), Ends
    PROVE  OnePlace(p)' /\ Quiet' /\ s.handled \subseteq s'.handled
  <1>1. messages' = messages /\ sent' = sent /\ s'.stash = s.stash /\ s'.fifo = s.fifo
    BY DEF Ends
  <1>2. (Queued(p)' <=> Queued(p))
        /\ (Once(messages, PromptMessage(p))' <=> Once(messages, PromptMessage(p)))
        /\ (Kept(p)' <=> Kept(p)) /\ (KeptOnce(p)' <=> KeptOnce(p))
    BY <1>1 DEF Queued, PromptMessage, Kept, KeptOnce, PromptItem
  <1>3. Pending(s)' = Pending(s') /\ Running(s)' = {} /\ Quiet'
    BY DEF Ends, Pending, Running, Quiet
  <1>4. /\ s.handled \subseteq s'.handled /\ s'.handled \subseteq s.handled \union Running(s)
        /\ \/ Pending(s') = Pending(s)
           \/ Pending(s') = Running(s) /\ s'.handled = s.handled
    BY DEF Ends
  <1>5. QED
    BY <1>1, <1>2, <1>3, <1>4 DEF OnePlace

LEMMA InitPlaces == Init => Quiet /\ \A p \in Prompt : OnePlace(p)
  <1> SUFFICES ASSUME Init PROVE Quiet /\ \A p \in Prompt : OnePlace(p)
    OBVIOUS
  <1>1. /\ messages = <<>> /\ s.stash = <<>> /\ s.fifo = <<>> /\ s.pendingPrompt = {}
        /\ s.turn = {} /\ s.handled = {}
    BY DEF Init
  <1>2. \A x : ~Within(<<>>, x) /\ Once(<<>>, x)
    BY DEF Within, Once
  <1>3. QED
    BY <1>1, <1>2 DEF Quiet, OnePlace, Queued, Kept, KeptOnce, Pending, Running

Placed == Quiet /\ \A p \in Prompt : OnePlace(p)

LEMMA NextPlaces ==
    ASSUME TypeOK, Awake, Placed, [Next]_vars
    PROVE  Placed' /\ s.handled \subseteq s'.handled
  <1>1. s \in Fields
    BY SessionFields DEF TypeOK
  <1>2. \/ Passes \/ Ends
        \/ \E q \in Prompt : Sends(q) \/ Routes(q)
        \/ \E parts \in SUBSET Prompt : Starts(parts)
    BY <1>1, PromptMoves
  <1>3. ASSUME NEW p \in Prompt PROVE OnePlace(p)'
    BY <1>1, <1>2, PassesPlaces, EndsPlaces, SendsPlaces, RoutesPlaces, StartsPlaces DEF Placed
  <1>4. s.handled \subseteq s'.handled
    BY <1>2 DEF Passes, Past, Ends, Sends, Routes, Starts
  <1>5. Quiet'
    BY <1>2 DEF Placed, Quiet, Passes, Ends, Sends, Routes, Starts, Running
  <1>6. QED
    BY <1>3, <1>4, <1>5 DEF Placed

(* A message that was answered is never part of another turn: for any      *)
(* number of messages, retries, failures and restarts of the execution,    *)
(* because each is in one place at most -- the durable queue, the stash or *)
(* the work buffer, the prompt carried along, the turn -- and in none of   *)
(* them once it is answered.                                               *)
THEOREM NoReplayHolds == Spec => NoReplay
  <1>1. Init => TypeOK /\ Awake /\ Placed
    BY InitTyped, InitPlaces DEF Placed
  <1>2. TypeOK /\ Awake /\ Placed /\ [Next]_vars => (TypeOK /\ Awake /\ Placed)'
    BY NextTyped, NextPlaces
  <1>3. TypeOK /\ Awake /\ Placed /\ [Next]_vars
          => [s.pc # "turn" /\ s'.pc = "turn" => s'.turn \intersect s.handled = {}]_vars
    <2> SUFFICES ASSUME TypeOK, Awake, Placed, [Next]_vars PROVE s'.turn \intersect s.handled = {}
      OBVIOUS
    <2>1. Placed' /\ s.handled \subseteq s'.handled
      BY NextPlaces
    <2>2. s.handled \subseteq Prompt
      BY SessionFields DEF TypeOK, Fields, Prompts
    <2>3. ASSUME NEW p \in s'.turn, p \in s.handled PROVE FALSE
      <3>1. p \in Prompt /\ p \in Running(s') /\ p \in s'.handled
        BY <2>1, <2>2, <2>3 DEF Running
      <3>2. OnePlace(p)'
        BY <2>1, <3>1 DEF Placed
      <3>3. Running(s)' = Running(s')
        BY DEF Running
      <3>4. QED
        BY <3>1, <3>2, <3>3 DEF OnePlace
    <2>4. QED
      BY <2>3
  <1>4. QED
    BY <1>1, <1>2, <1>3, PTL DEF Spec, NoReplay

----------------------------------------------------------------------------
(* No message of a user disappears.                                        *)

Place(p) == Queued(p) \/ Kept(p) \/ p \in Pending(s) \union Running(s) \union s.handled \union s.abandoned

Unlost == s.pc # "ended" => \A p \in Prompt \intersect sent : Place(p)

(* A turn that may be run again as the prompt of the next execution must   *)
(* find no other prompt carried along.                                     *)
NoneHeld == Child = {} /\ s.pc = "turn" => Pending(s) = {}

LEMMA EndedStays ==
    ASSUME s.pc = "ended", [Next]_vars PROVE s'.pc = "ended"
  <1>1. CASE IterationCap \/ HistoryCap \/ StartDrain
    BY <1>1 DEF IterationCap, HistoryCap, StartDrain
  <1>2. CASE TimerFires \/ DigestDue \/ Park \/ EndDrain
    BY <1>2 DEF TimerFires, DigestDue, Park, EndDrain, Draining
  <1>3. CASE Dequeue
    <2>1. ASSUME NEW x, Take(x) PROVE FALSE
      BY <2>1 DEF Take, MayDequeue, Draining
    <2>2. QED
      BY <1>3, <2>1 DEF Dequeue, RoutePrompt, RouteAnswer, RouteChildUpdate, RouteQuery,
                        RouteSetModel, RouteSecondShutdown, RouteShutdownNow, RouteShutdownCascade
  <1>4. CASE Decide
    <2>1. ~Deciding /\ ~NothingPopped /\ \A x : ~Popping(x)
      BY DEF Deciding, NothingPopped, Popping
    <2>2. QED
      BY <1>4, <2>1 DEF Decide, ReplayToolAction, TakePendingPrompt, ProcessPrompt, ProcessAnswer,
                        ProcessWaitTimer, ProcessCronTimer, ProcessIdleTimer, ProcessGraceTimer,
                        ProcessStalePoll, ProcessPollResolved, ProcessPollAgain,
                        ProcessShutdownPoll, ProcessDigest, DecideNothing, Fired
  <1>5. CASE Turn
    BY <1>5 DEF Turn, TurnReturns, TurnLosesState, TurnLosesConnection, TurnFails, Failing
  <1>6. CASE Environment
    <2>1. ~ToolCalled
      BY DEF ToolCalled
    <2>2. s' = s
      BY <1>6, <2>1 DEF Environment, UserSends, UserAnswers, ClientCommands, ChildStep,
                        ChildCompletes, ChildEnds, ChildWaits, ChildResumes, ChildFails, ChildObeys,
                        SpawnInTurn, SignalInTurn, DeleteInTurn
    <2>3. QED
      BY <2>2
  <1>7. CASE UNCHANGED vars
    BY <1>7 DEF vars
  <1>8. QED
    BY <1>1, <1>2, <1>3, <1>4, <1>5, <1>6, <1>7 DEF Next, Loop

LEMMA PassesKeep ==
    ASSUME TypeOK, s \in Fields, Quiet, NEW p \in Prompt, Place(p), Passes
    PROVE  Place(p)'
  <1>1. (Queued(p)' <=> Queued(p)) /\ (Kept(p)' <=> Kept(p))
    BY QueueKeeps, BufferKeeps DEF Passes
  <1>2. /\ Pending(s)' = Pending(s) /\ s'.handled = s.handled /\ s'.abandoned = s.abandoned
        /\ Running(s) \subseteq Running(s)'
    BY DEF Passes, Past, Pending, Quiet, Running
  <1>3. QED
    BY <1>1, <1>2 DEF Place

LEMMA SendsKeep ==
    ASSUME TypeOK, NEW p \in Prompt, NEW q \in Prompt, Sends(q), Place(p) \/ p = q
    PROVE  Place(p)'
  <1>1. messages \in Seq(Message) /\ PromptMessage(q) \in Message
    BY PromptKinds DEF TypeOK
  <1>2. s' = s /\ messages' = Append(messages, PromptMessage(q))
    BY DEF Sends
  <1>3. Within(messages', PromptMessage(p)) <=>
          Within(messages, PromptMessage(p)) \/ PromptMessage(q) = PromptMessage(p)
    BY <1>1, <1>2, WithinAppend
  <1>4. Queued(p)' <=> Queued(p) \/ PromptMessage(q) = PromptMessage(p)
    BY <1>3 DEF Queued, PromptMessage
  <1>5. /\ Kept(p)' <=> Kept(p) 
        /\ Pending(s)' = Pending(s) /\ Running(s)' = Running(s)
        /\ s'.handled = s.handled /\ s'.abandoned = s.abandoned
    BY <1>2 DEF Kept, PromptItem, Pending, Running
  <1>6. QED
    BY <1>4, <1>5 DEF Place

LEMMA RoutesKeep ==
    ASSUME TypeOK, s \in Fields, NEW p \in Prompt, NEW q \in Prompt, Routes(q), Place(p)
    PROVE  Place(p)'
  <1>1. messages \in Seq(Message) /\ s.stash \in Seq(Item) /\ PromptItem(q) \in Item
    BY PromptKinds DEF TypeOK, Fields, Items
  <1>2. /\ messages # <<>> /\ Head(messages) = PromptMessage(q) /\ messages' = Tail(messages)
        /\ s'.fifo = s.fifo /\ s'.stash = Append(s.stash, PromptItem(q))
    BY DEF Routes
  <1>3. Within(messages, PromptMessage(p)) <=>
          PromptMessage(q) = PromptMessage(p) \/ Within(messages', PromptMessage(p))
    BY <1>1, <1>2, WithinTail
  <1>4. Within(s'.stash, PromptItem(p)) <=>
          Within(s.stash, PromptItem(p)) \/ PromptItem(q) = PromptItem(p)
    BY <1>1, <1>2, WithinAppend
  <1>5. PromptMessage(q) = PromptMessage(p) => q = p
    BY PromptKinds
  <1>6. Queued(p) => Queued(p)' \/ Kept(p)'
    BY <1>3, <1>4, <1>5 DEF Queued, Kept, PromptMessage, PromptItem
  <1>7. Kept(p) => Kept(p)'
    BY <1>2, <1>4 DEF Kept, PromptItem
  <1>8. /\ Pending(s)' = Pending(s) /\ Running(s)' = Running(s)
        /\ s'.handled = s.handled /\ s'.abandoned = s.abandoned
    BY DEF Routes, Past, Pending, Running
  <1>9. QED
    BY <1>6, <1>7, <1>8 DEF Place

LEMMA StartsKeep ==
    ASSUME TypeOK, s \in Fields, Quiet, NEW p \in Prompt, Place(p), NEW parts \in SUBSET Prompt,
           Starts(parts)
    PROVE  Place(p)'
  <1>1. messages' = messages /\ s'.handled = s.handled
    BY DEF Starts
  <1>2. Queued(p) => Queued(p)'
    BY <1>1 DEF Queued, PromptMessage
  <1>3. /\ Running(s) = {} /\ s.abandoned \subseteq s'.abandoned
        /\ p \in parts => p \in Running(s') \union s'.abandoned
    BY DEF Starts, Quiet
  <1>4. Pending(s)' = Pending(s') /\ Running(s)' = Running(s')
    BY DEF Pending, Running
  <1>5. CASE s'.stash = s.stash /\ s'.fifo = s.fifo /\ parts = Pending(s)
    <2>1. Kept(p)' <=> Kept(p)
      BY <1>5 DEF Kept, PromptItem
    <2>2. QED
      BY <1>1, <1>2, <1>3, <1>4, <1>5, <2>1 DEF Place
  <1>6. ASSUME s.fifo # <<>>, NEW q \in Prompt, Head(s.fifo) = PromptItem(q), parts = {q},
               s'.stash = s.stash, s'.fifo = Tail(s.fifo), Pending(s') = Pending(s)
        PROVE  Place(p)'
    <2>1. s.fifo \in Seq(Item)
      BY DEF Fields, Items
    <2>2. Within(s.fifo, PromptItem(p)) <=>
            PromptItem(q) = PromptItem(p) \/ Within(s'.fifo, PromptItem(p))
      BY <1>6, <2>1, WithinTail
    <2>3. PromptItem(q) = PromptItem(p) => q = p
      BY PromptKinds
    <2>4. Kept(p) => Kept(p)' \/ p \in parts
      BY <1>6, <2>2, <2>3 DEF Kept, PromptItem
    <2>5. QED
      BY <1>1, <1>2, <1>3, <1>4, <1>6, <2>4 DEF Place
  <1>7. QED
    BY <1>5, <1>6 DEF Starts, Takes

LEMMA EndsKeep ==
    ASSUME NEW p \in Prompt, Place(p), Ends, s'.pc # "ended", MayRetry => Pending(s) = {}
    PROVE  Place(p)'
  <1>1. messages' = messages /\ s'.stash = s.stash /\ s'.fifo = s.fifo
    BY DEF Ends
  <1>2. (Queued(p)' <=> Queued(p)) /\ (Kept(p)' <=> Kept(p))
    BY <1>1 DEF Queued, PromptMessage, Kept, PromptItem
  <1>3. Pending(s)' = Pending(s')
    BY DEF Pending
  <1>4. /\ Pending(s) \union Running(s) \subseteq Pending(s') \union s'.handled \union s'.abandoned
        /\ s.handled \subseteq s'.handled /\ s.abandoned \subseteq s'.abandoned
    BY DEF Ends
  <1>5. QED
    BY <1>2, <1>3, <1>4 DEF Place

LEMMA NextHolds ==
    ASSUME TypeOK, Awake, Placed, NoneHeld, [Next]_vars PROVE NoneHeld'
  <1>1. s \in Fields
    BY SessionFields DEF TypeOK
  <1>2. SUFFICES ASSUME Child = {}, s'.pc = "turn" PROVE Pending(s') = {}
    BY DEF NoneHeld, Pending
  <1>3. s.awaited = {}
    BY <1>1, <1>2 DEF Fields, Children
  <1>4. \/ Passes \/ Ends
        \/ \E q \in Prompt : Sends(q) \/ Routes(q)
        \/ \E parts \in SUBSET Prompt : Starts(parts)
    BY <1>1, PromptMoves
  <1>5. CASE Passes
    BY <1>2, <1>3, <1>5 DEF Passes, NoneHeld
  <1>6. ASSUME NEW q \in Prompt, Sends(q) \/ Routes(q) PROVE Pending(s') = {}
    BY <1>2, <1>6 DEF Sends, Routes, NoneHeld
  <1>7. ASSUME NEW parts \in SUBSET Prompt, Starts(parts) PROVE Pending(s') = {}
    BY <1>3, <1>7 DEF Starts, Takes
  <1>8. QED
    BY <1>2, <1>4, <1>5, <1>6, <1>7 DEF Ends

LEMMA NextKeeps ==
    ASSUME Child = {} \/ ~MayRetry, TypeOK, Awake, Placed, NoneHeld, Unlost, [Next]_vars
    PROVE  Unlost'
  <1>1. s \in Fields
    BY SessionFields DEF TypeOK
  <1>2. SUFFICES ASSUME s'.pc # "ended", NEW p \in Prompt, p \in sent' PROVE Place(p)'
    BY DEF Unlost
  <1>3. s.pc # "ended"
    BY <1>2, EndedStays
  <1>4. \/ Passes \/ Ends
        \/ \E q \in Prompt : Sends(q) \/ Routes(q)
        \/ \E parts \in SUBSET Prompt : Starts(parts)
    BY <1>1, PromptMoves
  <1>5. Quiet
    BY DEF Placed
  <1>6. CASE Passes
    BY <1>1, <1>2, <1>3, <1>5, <1>6, PassesKeep DEF Passes, Unlost
  <1>7. CASE Ends
    <2>1. MayRetry => Pending(s) = {}
      BY <1>7 DEF Ends, NoneHeld
    <2>2. QED
      BY <1>2, <1>3, <1>7, <2>1, EndsKeep DEF Ends, Unlost
  <1>8. ASSUME NEW q \in Prompt, Sends(q) PROVE Place(p)'
    BY <1>2, <1>3, <1>8, SendsKeep DEF Sends, Unlost
  <1>9. ASSUME NEW q \in Prompt, Routes(q) PROVE Place(p)'
    BY <1>1, <1>2, <1>3, <1>9, RoutesKeep DEF Routes, Unlost
  <1>10. ASSUME NEW parts \in SUBSET Prompt, Starts(parts) PROVE Place(p)'
    BY <1>1, <1>2, <1>3, <1>5, <1>10, StartsKeep DEF Starts, Unlost
  <1>11. QED
    BY <1>4, <1>6, <1>7, <1>8, <1>9, <1>10

LEMMA WithinToSet == ASSUME NEW q, NEW x, Within(q, x) PROVE x \in ToSet(q)
  BY DEF Within, ToSet

LEMMA UnlostAccounted == ASSUME TypeOK, Unlost PROVE PromptsAccounted
  <1>1. s \in Fields
    BY SessionFields DEF TypeOK
  <1>2. SUFFICES ASSUME s.pc # "ended", NEW p \in Prompt, p \in sent
                 PROVE  \/ InQueue(p) \/ InBuffer(p)
                        \/ p \in s.pendingPrompt \union s.turn \union s.handled \union s.abandoned
    BY DEF PromptsAccounted
  <1>3. Place(p)
    BY <1>2 DEF Unlost
  <1>4. CASE Queued(p)
    BY <1>4, WithinToSet DEF Queued, PromptMessage, InQueue
  <1>5. CASE Kept(p)
    <2>1. s.stash \in Seq(Item) /\ s.fifo \in Seq(Item)
      BY <1>1 DEF Fields, Items
    <2>2. Within(s.stash \o s.fifo, PromptItem(p))
      BY <1>5, <2>1, WithinConcat DEF Kept
    <2>3. QED
      BY <2>2, WithinToSet DEF PromptItem, InBuffer, Buffered
  <1>6. CASE p \in Pending(s) \union Running(s) \union s.handled \union s.abandoned
    BY <1>6 DEF Pending, Running
  <1>7. QED
    BY <1>3, <1>4, <1>5, <1>6 DEF Place

(* No message of a user disappears: in a session without sub-agents, or    *)
(* whose turns are never run again, every message sent is queued, buffered,*)
(* carried to the next execution, being run, answered or given up with an  *)
(* error, through every drain, hydration, retry and continueAsNew.  With   *)
(* both it is false, as loop_prompt_dropped shows: a retry then replaces a *)
(* prompt that is held back while the session waits for sub-agents.        *)
THEOREM PromptsAccountedFor ==
    ASSUME Child = {} \/ ~MayRetry PROVE Spec => []PromptsAccounted
  <1>1. Init => TypeOK /\ Awake /\ Placed /\ NoneHeld /\ Unlost
    <2>1. Init => sent = {} /\ s.pc # "turn"
      BY DEF Init
    <2>2. QED
      BY <2>1, InitTyped, InitPlaces DEF Placed, NoneHeld, Unlost
  <1>2. TypeOK /\ Awake /\ Placed /\ NoneHeld /\ Unlost /\ [Next]_vars
          => (TypeOK /\ Awake /\ Placed /\ NoneHeld /\ Unlost)'
    BY NextTyped, NextPlaces, NextHolds, NextKeeps
  <1>3. TypeOK /\ Unlost => PromptsAccounted
    BY UnlostAccounted
  <1>4. QED
    BY <1>1, <1>2, <1>3, PTL DEF Spec

----------------------------------------------------------------------------
(* What the helpers and a turn that ends leave as it is.  Steady: no       *)
(* command is answered, no shutdown begins or concludes, no schedule is    *)
(* changed, and a cron timer is armed or held only where there was one or  *)
(* a schedule; if a session is ended by commands only, it goes on.  Calm:  *)
(* and nothing failed, or a retry counter goes back to 0.                  *)
OnlyShutdownEnds ==
    /\ \A input \in Inputs : input.isSubAgent => input.isSystem
    /\ "missing" \notin TurnFailure
    /\ \A o \in TurnOutcome :
          o.main # "missing" /\ \A i \in 1 .. Len(o.queued) : o.queued[i] # "cron_cancel"

CronTrace(m) == m.timer = "cron" \/ m.heldCron # "none"

Steady(m, n) ==
    /\ n.responses = m.responses /\ n.shutdown = m.shutdown
    /\ n.toolActions = m.toolActions /\ n.cron = m.cron
    /\ CronTrace(n) => CronTrace(m) \/ m.cron
    /\ OnlyShutdownEnds => n.result \in {m.result, "none"} /\ (n.pc = "ended" => m.pc = "ended")

Even(m, n) == n.failures = m.failures /\ n.retryCount \in {m.retryCount, 0}

Calm(m, n) == Steady(m, n) /\ Even(m, n)

LEMMA SteadyTwice == \A k, m, n : Steady(k, m) /\ Steady(m, n) => Steady(k, n)
  BY DEF Steady

LEMMA EvenTwice == \A k, m, n : Even(k, m) /\ Even(m, n) => Even(k, n)
  BY DEF Even

LEMMA CalmTwice == \A k, m, n : Calm(k, m) /\ Calm(m, n) => Calm(k, n)
  BY SteadyTwice, EvenTwice DEF Calm

LEMMA HelpersCalm ==
    ASSUME NEW m \in Fields
    PROVE  /\ Calm(m, NextIteration(m)) /\ Calm(m, ContinueAsNew(m))
           /\ \A d \in Dehydrations(m) : Calm(m, d)
           /\ Calm(m, queueFollowup(m)) /\ Calm(m, Polled(m))
           /\ \A r \in Refreshes(m) : Calm(m, r)
  <1>1. Calm(m, NextIteration(m)) /\ Calm(m, ContinueAsNew(m))
    BY DEF NextIteration, ContinueAsNew, Fields, Calm, Even, Steady, CronTrace
  <1>2. \A d \in Dehydrations(m) : Calm(m, d)
    BY DEF Dehydrations, Fields, Calm, Even, Steady, CronTrace
  <1>3. Calm(m, queueFollowup(m)) /\ Calm(m, Polled(m))
    BY DEF queueFollowup, Polled, Fields, Calm, Even, Steady, CronTrace
  <1>4. \A r \in Refreshes(m) : Calm(m, r)
    BY DEF Refreshes, Refreshed, Fields, Calm, Even, Steady, CronTrace
  <1>5. QED
    BY <1>1, <1>2, <1>3, <1>4

LEMMA InterruptionsCalm ==
    ASSUME NEW m \in Fields, NEW n \in Interruptions(m) PROVE Calm(m, n)
  <1>1. m.timer = "wait" => \E t : n = [m EXCEPT !.timer = "none", !.heldWait = t]
    BY DEF Interruptions
  <1>2. m.timer = "cron" => \E t : n = [m EXCEPT !.timer = "none", !.heldCron = t]
    BY DEF Interruptions
  <1>3. \/ \E t : n = [m EXCEPT !.timer = "none", !.heldWait = t]
        \/ m.timer = "cron" /\ \E t : n = [m EXCEPT !.timer = "none", !.heldCron = t]
        \/ n = [m EXCEPT !.timer = "none"] \/ n = [m EXCEPT !.timer = "none", !.awaited = {}] \/ n = m
    BY <1>1, <1>2 DEF Interruptions
  <1>4. /\ n.responses = m.responses /\ n.shutdown = m.shutdown /\ n.toolActions = m.toolActions
        /\ n.cron = m.cron /\ n.result = m.result /\ n.pc = m.pc /\ n.failures = m.failures
        /\ n.retryCount = m.retryCount /\ (n.timer = "none" \/ n.timer = m.timer)
        /\ (m.timer = "cron" \/ n.heldCron = m.heldCron)
    <2>1. m.timer = "cron" \/ n.heldCron = m.heldCron
      BY <1>3 DEF Fields
    <2>2. QED
      BY <1>3, <2>1, ZenonT(60) DEF Fields
  <1>5. QED
    BY <1>4 DEF Calm, Even, Steady, CronTrace

(* A turn that ends without an error is not another attempt.               *)
LEMMA FollowupCalm == ASSUME NEW m \in Fields, Followup(m) PROVE Calm(m, s')
  <1>1. PICK n \in Fields : n = queueFollowup(m) /\ Calm(m, n)
    BY FollowupTyped, HelpersCalm
  <1>2. Calm(n, s')
    BY <1>1, HelpersCalm DEF Followup
  <1>3. QED
    BY <1>1, <1>2, CalmTwice

LEMMA WaitCalm ==
    ASSUME NEW k \in Fields, NEW m \in Fields, Calm(k, m), NEW timer, WaitFor(m, timer),
           timer = "cron" => CronTrace(k) \/ k.cron
    PROVE  Calm(k, s')
  <1>1. PICK n \in Fields : n = NextIteration(m) /\ Calm(m, n)
    BY NextIterationTyped, HelpersCalm
  <1>2. PICK d \in DehydrationsForWait(n) : s' = [d EXCEPT !.timer = timer, !.status = "waiting"]
    BY <1>1 DEF WaitFor
  <1>3. d \in Fields /\ Calm(n, d)
    <2>1. d \in Dehydrations(n) \/ d = n
      BY <1>2 DEF DehydrationsForWait
    <2>2. Calm(n, n)
      BY DEF Calm, Even, Steady
    <2>3. QED
      BY <2>1, <2>2, DehydrationsTyped, HelpersCalm
  <1>4. Calm(k, d)
    BY <1>1, <1>3, CalmTwice
  <1>5. /\ s'.responses = d.responses /\ s'.shutdown = d.shutdown /\ s'.toolActions = d.toolActions
        /\ s'.cron = d.cron /\ s'.result = d.result /\ s'.pc = d.pc /\ s'.failures = d.failures
        /\ s'.retryCount = d.retryCount /\ s'.timer = timer /\ s'.heldCron = d.heldCron
    BY <1>2, <1>3 DEF Fields
  <1>6. CronTrace(s') => CronTrace(k) \/ k.cron
    BY <1>4, <1>5 DEF CronTrace, Calm, Even, Steady
  <1>7. QED
    BY <1>4, <1>5, <1>6 DEF Calm, Even, Steady

LEMMA CalmSelf == \A m : Calm(m, m)
  BY DEF Calm, Even, Steady

LEMMA HeldCalm ==
    ASSUME NEW m \in Fields
    PROVE  Calm(m, [m EXCEPT !.heldWait = "none"]) /\ Calm(m, [m EXCEPT !.heldCron = "none"])
  BY DEF Fields, Calm, Even, Steady, CronTrace

LEMMA CompletedCalm == ASSUME s \in Fields, NEW m \in Fields, Completed(m) PROVE Calm(m, s')
  <1>1. CASE CompletedSubAgent(m)
    <2>1. CASE s' = NextIteration(m)
      BY <2>1, HelpersCalm
    <2>2. CASE s' = [m EXCEPT !.pc = "ended", !.turn = {}, !.status = "completed", !.result = "done"]
      <3>1. CASE ~OnlyShutdownEnds
        BY <2>2, <3>1 DEF Fields, Calm, Even, Steady, CronTrace
      <3>2. CASE OnlyShutdownEnds
        <4>1. s.input \in Inputs
          BY DEF Fields
        <4>2. s' = NextIteration(m)
          BY <1>1, <3>2, <4>1 DEF OnlyShutdownEnds, CompletedSubAgent, IsSubAgent, IsSystem
        <4>3. QED
          BY <4>2, HelpersCalm
      <3>3. QED
        BY <3>1, <3>2
    <2>3. QED
      BY <1>1, <2>1, <2>2 DEF CompletedSubAgent
  <1>2. CASE CompletedNudged(m)
    <2>1. PICK q \in Fields : q = queueFollowup(m) /\ Calm(m, q)
      BY FollowupTyped, HelpersCalm
    <2>2. PICK n \in Fields : n = ContinueAsNew(q) /\ Calm(q, n)
      BY ContinueAsNewTyped, HelpersCalm
    <2>3. s' = [n EXCEPT !.nudged = TRUE]
      BY <1>2, <2>1, <2>2 DEF CompletedNudged
    <2>4. Calm(n, s')
      BY <2>3 DEF Fields, Calm, Even, Steady, CronTrace
    <2>5. QED
      BY <2>1, <2>2, <2>4, CalmTwice
  <1>3. "none" \in Left
    BY Literals
  <1>4. CASE CompletedResumesWait(m)
    BY <1>3, <1>4, HeldSame, HeldCalm, WaitCalm DEF CompletedResumesWait
  <1>5. CASE CompletedResumesCron(m)
    <2>1. CronTrace(m)
      BY <1>5 DEF CompletedResumesCron, CronTrace
    <2>2. QED
      BY <1>3, <1>5, <2>1, HeldSame, HeldCalm, WaitCalm DEF CompletedResumesCron
  <1>6. CASE CompletedArmsCron(m)
    BY <1>6, WaitCalm, CalmSelf DEF CompletedArmsCron
  <1>7. CASE CompletedGoesIdle(m)
    <2>1. PICK n \in Fields : n = NextIteration(m) /\ Calm(m, n)
      BY NextIterationTyped, HelpersCalm
    <2>2. s' = n \/ s' = [n EXCEPT !.timer = "idle", !.status = "idle"]
      BY <1>7, <2>1 DEF CompletedGoesIdle
    <2>3. CASE s' = [n EXCEPT !.timer = "idle", !.status = "idle"]
      <3>1. /\ s'.responses = n.responses /\ s'.shutdown = n.shutdown /\ s'.cron = n.cron
            /\ s'.toolActions = n.toolActions /\ s'.timer = "idle" /\ s'.heldCron = n.heldCron
            /\ s'.result = n.result /\ s'.pc = n.pc
            /\ s'.failures = n.failures /\ s'.retryCount = n.retryCount
        BY <2>3 DEF Fields
      <3>2. Calm(n, s')
        BY <3>1 DEF Calm, Even, Steady, CronTrace
      <3>3. QED
        BY <2>1, <3>2, CalmTwice
    <2>4. QED
      BY <2>1, <2>2, <2>3
  <1>8. QED
    BY <1>1, <1>2, <1>4, <1>5, <1>6, <1>7 DEF Completed

LEMMA InputCalm == ASSUME NEW m \in Fields, InputRequired(m) PROVE Calm(m, s')
  <1>1. PICK n \in Fields : n = NextIteration(m) /\ Calm(m, n)
    BY NextIterationTyped, HelpersCalm
  <1>2. PICK asked \in Fields :
          asked = [n EXCEPT !.question = TRUE, !.status = "input_required"]
    <2>1. TRUE \in Flag /\ "input_required" \in Status
      BY Blank, Literals
    <2>2. [n EXCEPT !.question = TRUE, !.status = "input_required"] \in Fields
      BY <2>1, Zenon DEF Fields
    <2>3. QED
      BY <2>2
  <1>3. Calm(n, asked)
    BY <1>2 DEF Fields, Calm, Even, Steady, CronTrace
  <1>4. s' = asked \/ s' \in Dehydrations(asked) \/ s' = [asked EXCEPT !.timer = "input-grace"]
    BY <1>1, <1>2, Zenon DEF InputRequired
  <1>5. CASE s' = asked \/ s' = [asked EXCEPT !.timer = "input-grace"]
    <2>1. Calm(asked, s')
      BY <1>5 DEF Fields, Calm, Even, Steady, CronTrace
    <2>2. QED
      BY <1>1, <1>3, <2>1, CalmTwice
  <1>6. CASE s' \in Dehydrations(asked)
    <2>1. Calm(asked, s')
      BY <1>6, HelpersCalm
    <2>2. QED
      BY <1>1, <1>3, <2>1, CalmTwice
  <1>7. QED
    BY <1>4, <1>5, <1>6

LEMMA AgentsCalm ==
    ASSUME NEW m \in Fields, NEW agents, [m EXCEPT !.agents = agents] \in Fields,
           Followup([m EXCEPT !.agents = agents])
    PROVE  Calm(m, s')
  <1>1. PICK n \in Fields : n = [m EXCEPT !.agents = agents]
    OBVIOUS
  <1>2. Calm(m, n)
    BY <1>1 DEF Fields, Calm, Even, Steady, CronTrace
  <1>3. Calm(n, s')
    BY <1>1, FollowupCalm
  <1>4. QED
    BY <1>2, <1>3, CalmTwice

LEMMA CheckCalm == ASSUME NEW m \in Fields, CheckAgents(m) PROVE Calm(m, s')
  <1>1. PICK agents \in Agents : agents = m.agents
    BY DEF Fields
  <1>2. PICK idle \in SUBSET Child :
          Followup([m EXCEPT !.agents =
            [c \in Child |->
               IF c \in idle THEN "completed"
               ELSE IF agents[c] # "none" /\ Published(c) \in {"completed", "failed"}
               THEN Published(c) ELSE agents[c]]])
    BY <1>1, Zenon DEF CheckAgents, Tracked
  <1>3. PICK checked \in Agents :
          checked = [c \in Child |->
               IF c \in idle THEN "completed"
               ELSE IF agents[c] # "none" /\ Published(c) \in {"completed", "failed"}
               THEN Published(c) ELSE agents[c]]
    BY DEF Agents, AgentStatus
  <1>4. [m EXCEPT !.agents = checked] \in Fields
    BY Zenon DEF Fields
  <1>5. Followup([m EXCEPT !.agents = checked])
    BY <1>2, <1>3
  <1>6. QED
    BY <1>4, <1>5, AgentsCalm

LEMMA AgentWaitCalm == ASSUME NEW m \in Fields, WaitForAgents(m) PROVE Calm(m, s')
  <1>1. PICK n \in Fields : n = NextIteration(m) /\ Calm(m, n)
    BY NextIterationTyped, HelpersCalm
  <1>2. CASE Followup(m)
    BY <1>2, FollowupCalm
  <1>3. ASSUME NEW C, s' = [n EXCEPT !.awaited = C, !.timer = "agent-poll", !.status = "running"]
        PROVE  Calm(m, s')
    <2>1. Calm(n, s')
      BY <1>3 DEF Fields, Calm, Even, Steady, CronTrace
    <2>2. QED
      BY <1>1, <2>1, CalmTwice
  <1>4. QED
    BY <1>1, <1>2, <1>3 DEF WaitForAgents

LEMMA ResultCalm ==
    ASSUME s \in Fields, NEW m \in Fields, NEW action, HandleTurnResult(m, action),
           action # "error", action = "missing" => ~OnlyShutdownEnds
    PROVE  Calm(m, s')
  <1>1. CASE action = "completed" /\ Completed(m)
    BY <1>1, CompletedCalm
  <1>2. CASE action = "wait" /\ Waits(m)
    <2>1. "none" \in Left
      BY Literals
    <2>2. QED
      BY <1>2, <2>1, HeldSame, HeldCalm, WaitCalm DEF Waits
  <1>3. CASE action = "input_required" /\ InputRequired(m)
    BY <1>3, InputCalm
  <1>4. CASE action = "cancelled" /\ s' = NextIteration(m)
    BY <1>4, HelpersCalm
  <1>5. CASE action = "tool" /\ Followup(m)
    BY <1>5, FollowupCalm
  <1>6. CASE action = "check_agents" /\ CheckAgents(m)
    BY <1>6, CheckCalm
  <1>7. CASE action = "wait_for_agents" /\ WaitForAgents(m)
    BY <1>7, AgentWaitCalm
  <1>8. CASE action = "missing" /\ Crash(m, "failed")
    BY <1>8 DEF Crash, Fields, Calm, Even, Steady, CronTrace
  <1>9. ASSUME NEW c \in Child, NEW status \in AgentStatus \union {"none"},
               Followup([m EXCEPT !.agents[c] = status])
        PROVE  Calm(m, s')
    <2>1. PICK n \in Fields : n = [m EXCEPT !.agents[c] = status]
      BY AgentTyped
    <2>2. Calm(m, n)
      BY <2>1 DEF Fields, Calm, Even, Steady, CronTrace
    <2>3. Calm(n, s')
      BY <1>9, <2>1, FollowupCalm
    <2>4. QED
      BY <2>2, <2>3, CalmTwice
  <1>10. CASE action = "spawn_agent" /\ SpawnAgent(m)
    BY <1>9, <1>10, FollowupCalm DEF SpawnAgent, AgentStatus
  <1>11. CASE action = "signal_agent" /\ SignalAgent(m)
    BY <1>11, FollowupCalm DEF SignalAgent
  <1>12. CASE action = "delete_agent" /\ DeleteAgent(m)
    BY <1>9, <1>12 DEF DeleteAgent, Tracked
  <1>13. QED
    BY <1>1, <1>2, <1>3, <1>4, <1>5, <1>6, <1>7, <1>8, <1>10, <1>11, <1>12 DEF HandleTurnResult

(* What a step of drain leaves as it is.                                   *)
Carries(m, n) ==
    /\ n.failures = m.failures /\ n.retryCount = m.retryCount
    /\ n.toolActions = m.toolActions /\ n.pendingPrompt = m.pendingPrompt

LEMMA CarriesTwice == \A k, m, n : Carries(k, m) /\ Carries(m, n) => Carries(k, n)
  BY DEF Carries

LEMMA HelpersCarry ==
    ASSUME NEW m \in Fields
    PROVE  /\ Carries(m, FlushStash(m))
           /\ \A r \in Refreshes(m) : Carries(m, r)
           /\ \A c \in Command : Carries(m, Respond(m, c))
           /\ \A mode : \A c \in Command : Carries(m, FinishShutdown(m, mode, c))
  <1>1. Carries(m, FlushStash(m))
    BY DEF FlushStash, Fields, Carries
  <1>2. \A r \in Refreshes(m) : Carries(m, r)
    BY DEF Refreshes, Refreshed, Fields, Carries
  <1>3. ASSUME NEW c \in Command PROVE Carries(m, Respond(m, c))
    BY DEF Respond, Fields, Carries
  <1>4. ASSUME NEW mode, NEW c \in Command PROVE Carries(m, FinishShutdown(m, mode, c))
    <2>1. PICK n \in Fields : n = Respond(m, c) /\ Carries(m, n)
      BY <1>3, RespondTyped
    <2>2. Carries(n, FinishShutdown(m, mode, c))
      BY <2>1 DEF FinishShutdown, Fields, Carries
    <2>3. QED
      BY <2>1, <2>2, CarriesTwice
  <1>5. QED
    BY <1>1, <1>2, <1>3, <1>4

LEMMA InterruptionsCarry ==
    ASSUME NEW m \in Fields, NEW n \in Interruptions(m) PROVE Carries(m, n)
  <1>1. m.timer = "wait" => \E t : n = [m EXCEPT !.timer = "none", !.heldWait = t]
    BY DEF Interruptions
  <1>2. m.timer = "cron" => \E t : n = [m EXCEPT !.timer = "none", !.heldCron = t]
    BY DEF Interruptions
  <1>3. \/ \E t : n = [m EXCEPT !.timer = "none", !.heldWait = t]
        \/ m.timer = "cron" /\ \E t : n = [m EXCEPT !.timer = "none", !.heldCron = t]
        \/ n = [m EXCEPT !.timer = "none"] \/ n = [m EXCEPT !.timer = "none", !.awaited = {}] \/ n = m
    BY <1>1, <1>2 DEF Interruptions
  <1>4. QED
    BY <1>3, ZenonT(60) DEF Fields, Carries

LEMMA LeaveDrainCarries ==
    ASSUME NEW m \in Fields
    PROVE  Carries(m, LeaveDrain(m)) /\ LeaveDrain(m).pc \in {"decide", "ended"}
  <1>1. PICK n \in Fields : n = FlushStash(m) /\ Carries(m, n)
    BY FlushTyped, HelpersCarry
  <1>2. Carries(n, LeaveDrain(m))
    BY <1>1 DEF LeaveDrain, Fields, Carries
  <1>3. QED
    BY <1>1, <1>2, CarriesTwice, LeaveDrainMoves

(* The sessions the bound is about.  The retry counter starts again when   *)
(* the model is changed between two attempts, when a turn returns an error *)
(* (it was reset when the activity returned), and, were the history looked *)
(* at in every iteration, before every attempt; and a session that waits   *)
(* for sub-agents runs other turns before the retry.                       *)
PlainRetries ==
    /\ Child = {} /\ \A c \in Command : cmdOf[c] # "set_model"
    /\ \A o \in TurnOutcome : o.main # "error"
    /\ HISTORY_SIZE_CHECK_INTERVAL_ITERATIONS # 1

(* A failed turn on its way to its next attempt.                           *)
Resuming(m) ==
    /\ m.pc \in {"loop", "drain", "decide"} /\ (m.pc = "loop" => m.loop = 0)
    /\ m.toolActions = <<>> /\ m.pendingPrompt # {}

Allowed(n) == n < Attempts

(* Each lost worker made Attempts of the tries, the last one n.            *)
Spent(f, n) == f.tries <= f.handoffs * Attempts + n

(* The failed attempts are those the retry counter has counted and those   *)
(* made before a hand-off, and a failed turn is the next thing to run.     *)
CountedIn(m) ==
    m.pc # "ended" =>
      /\ Spent(m.failures, m.retryCount) /\ Allowed(m.retryCount)
      /\ m.pc = "turn" => m.toolActions = <<>> /\ m.turn # {}
      /\ m.failures.tries > 0 /\ m.pc # "turn" => Resuming(m)

LEMMA Numbers ==
    ASSUME NEW m \in Fields
    PROVE  m.failures \in Failures /\ m.failures.tries \in Nat /\ m.retryCount \in Nat
  BY DEF Fields, Count, Failures

LEMMA AttemptsNat ==
    /\ Attempts \in Nat /\ Attempts > 0
    /\ \A n \in Nat : n < MAX_RETRIES \/ n <= COPILOT_CONNECTION_CLOSED_MAX_RETRIES => Allowed(n)
  BY Bounds DEF Attempts, Allowed

LEMMA Spends ==
    /\ NoFailures \in Failures /\ NoFailures.tries = 0
    /\ \A f \in Failures, n \in Nat :
         /\ f.tries = 0 => Spent(f, n)
         /\ Spent(f, n) => Spent(FailedAgain(f), n + 1)
         /\ Spent(f, n) /\ n <= Attempts => Spent(HandedOff(f), 0)
         /\ Spent(f, n) /\ Allowed(n) => f.tries < (f.handoffs + 1) * Attempts
  <1>1. NoFailures \in Failures /\ NoFailures.tries = 0
    BY DEF NoFailures, Failures
  <1>2. ASSUME NEW f \in Failures, NEW n \in Nat
        PROVE  /\ f.tries = 0 => Spent(f, n)
               /\ Spent(f, n) => Spent(FailedAgain(f), n + 1)
               /\ Spent(f, n) /\ n <= Attempts => Spent(HandedOff(f), 0)
               /\ Spent(f, n) /\ Allowed(n) => f.tries < (f.handoffs + 1) * Attempts
    <2>1. PICK h \in Nat, k \in Nat, a \in Nat : h = f.handoffs /\ k = f.tries /\ a = Attempts
      BY AttemptsNat DEF Failures
    <2>2. h * a \in Nat /\ (h + 1) * a = h * a + a
      BY <2>1
    <2>3. /\ FailedAgain(f).tries = k + 1 /\ FailedAgain(f).handoffs = h
          /\ HandedOff(f).tries = k /\ HandedOff(f).handoffs = h + 1
      BY <2>1 DEF FailedAgain, HandedOff, Failures
    <2>4. PICK e \in Nat : e = h * a
      BY <2>2
    <2>5. QED
      BY <2>1, <2>2, <2>3, <2>4 DEF Spent, Allowed
  <1>3. QED
    BY <1>1, <1>2

LEMMA EvenCounts ==
    ASSUME NEW m \in Fields, NEW n \in Fields, CountedIn(m), m.pc # "ended", m.failures.tries = 0,
           Even(m, n), n.pc # "turn"
    PROVE  CountedIn(n)
  <1>1. n.failures = m.failures /\ Allowed(0) /\ Allowed(m.retryCount)
    BY Numbers, AttemptsNat, Bounds DEF Even, CountedIn
  <1>2. Spent(n.failures, 0) /\ Spent(n.failures, m.retryCount)
    BY <1>1, Numbers, Spends
  <1>3. QED
    BY <1>1, <1>2 DEF CountedIn, Even

LEMMA CarriesCounts ==
    ASSUME NEW m \in Fields, NEW n \in Fields, CountedIn(m), m.pc \notin {"turn", "ended"},
           Carries(m, n), n.pc \in {"drain", "decide", "ended"} \/ (n.pc = "parked" /\ m.pendingPrompt = {})
    PROVE  CountedIn(n)
  BY Numbers DEF CountedIn, Carries, Resuming

LEMMA DrainCounts ==
    ASSUME s \in Fields, s' \in Fields, PlainRetries, CountedIn(s),
           IterationCap \/ HistoryCap \/ StartDrain \/ TimerFires \/ DigestDue \/ Park \/ EndDrain
    PROVE  CountedIn(s')
  <1>1. CASE IterationCap \/ HistoryCap
    <2>1. s' = ContinueAsNew(s) /\ s.pc = "loop"
      BY <1>1 DEF IterationCap, HistoryCap
    <2>2. s.loop # 0
      <3>1. CASE IterationCap
        BY <3>1, Bounds DEF IterationCap
      <3>2. CASE HistoryCap
        <4>1. PICK k \in Nat \ {0} : k = HISTORY_SIZE_CHECK_INTERVAL_ITERATIONS
          BY BoundsPositive
        <4>2. k # 1
          BY <4>1 DEF PlainRetries
        <4>3. (0 + 1) % k # 0
          BY <4>2
        <4>4. QED
          BY <3>2, <4>1, <4>3 DEF HistoryCap
      <3>3. QED
        BY <1>1, <3>1, <3>2
    <2>3. s.failures.tries = 0
      BY <2>1, <2>2, Numbers DEF CountedIn, Resuming
    <2>4. Even(s, s') /\ s'.pc = "loop"
      BY <2>1, HelpersCalm, MovePoints DEF Calm
    <2>5. QED
      BY <2>1, <2>3, <2>4, EvenCounts
  <1>2. CASE StartDrain
    <2>1. s' = [s EXCEPT !.pc = "drain", !.loop = s.loop + 1, !.drained = 0, !.seen = {}] /\ s.pc = "loop"
      BY <1>2 DEF StartDrain
    <2>2. Carries(s, s') /\ s'.pc = "drain"
      BY <2>1 DEF Fields, Carries
    <2>3. QED
      BY <2>1, <2>2, CarriesCounts
  <1>3. CASE TimerFires
    <2>1. PICK stash : /\ s' = [s EXCEPT !.stash = stash, !.timer = "none", !.drained = s.drained + 1]
                       /\ s.pc = "drain"
      BY <1>3 DEF TimerFires, Draining
    <2>2. Carries(s, s') /\ s'.pc = "drain"
      BY <2>1 DEF Fields, Carries
    <2>3. QED
      BY <2>1, <2>2, CarriesCounts
  <1>4. CASE DigestDue
    <2>1. PICK m \in Fields : m = [s EXCEPT !.digest = "ready"]
      <3>1. "ready" \in Digest
        BY Literals
      <3>2. [s EXCEPT !.digest = "ready"] \in Fields
        BY <3>1, Zenon DEF Fields
      <3>3. QED
        BY <3>2
    <2>2. Carries(s, m)
      BY <2>1 DEF Fields, Carries
    <2>3. s' = LeaveDrain(m) /\ s.pc = "drain"
      BY <1>4, <2>1 DEF DigestDue, Draining
    <2>4. Carries(s, s') /\ s'.pc \in {"decide", "ended"}
      BY <2>2, <2>3, LeaveDrainCarries, CarriesTwice
    <2>5. QED
      BY <2>3, <2>4, CarriesCounts
  <1>5. CASE Park
    <2>1. PICK status : s' = [s EXCEPT !.pc = "parked", !.status = status]
      BY <1>5 DEF Park
    <2>2. s.pc = "drain" /\ s.pendingPrompt = {}
      BY <1>5 DEF Park, Draining, needsBlockingDequeue
    <2>3. Carries(s, s') /\ s'.pc = "parked"
      BY <2>1 DEF Fields, Carries
    <2>4. QED
      BY <2>2, <2>3, CarriesCounts
  <1>6. CASE EndDrain
    <2>1. s' = LeaveDrain(s) /\ s.pc = "drain"
      BY <1>6 DEF EndDrain
    <2>2. Carries(s, s') /\ s'.pc \in {"decide", "ended"}
      BY <2>1, LeaveDrainCarries
    <2>3. QED
      BY <2>1, <2>2, CarriesCounts
  <1>7. QED
    BY <1>1, <1>2, <1>3, <1>4, <1>5, <1>6

LEMMA DequeueCounts ==
    ASSUME TypeOK, Awake, s \in Fields, s' \in Fields, PlainRetries, CountedIn(s), Dequeue
    PROVE  CountedIn(s')
  <1>1. ASSUME NEW x, Take(x)
        PROVE  \E d \in Fields : d = Dequeued /\ d.pc = "drain" /\ Carries(s, d)
    <2>1. Dequeued \in Fields /\ Dequeued.pc = "drain"
      BY <1>1, TakeTyped
    <2>2. Carries(s, Dequeued)
      BY DEF Dequeued, Fields, Carries
    <2>3. QED
      BY <2>1, <2>2
  <1>2. ASSUME NEW x, Take(x), Carries(s, s'), s'.pc \in {"drain", "ended"} PROVE CountedIn(s')
    <2>1. s.pc \notin {"turn", "ended"}
      BY <1>2 DEF Take, MayDequeue, Draining
    <2>2. QED
      BY <1>2, <2>1, CarriesCounts
  <1>3. ASSUME NEW p \in Prompt, RoutePrompt(p) PROVE CountedIn(s')
    <2>1. Take([kind |-> "prompt", prompt |-> p])
      BY <1>3 DEF RoutePrompt
    <2>2. PICK d \in Fields : d = Dequeued /\ d.pc = "drain" /\ Carries(s, d)
      BY <1>1, <2>1
    <2>3. PICK m \in Interruptions(d) : \E stash : s' = [m EXCEPT !.digest = "none", !.stash = stash]
      BY <1>3, <2>2 DEF RoutePrompt
    <2>4. m \in Fields /\ Carries(d, m) /\ m.pc = d.pc
      BY InterruptionsTyped, InterruptionsCarry, InterruptionsSame
    <2>5. Carries(m, s') /\ s'.pc = m.pc
      BY <2>3, <2>4 DEF Fields, Carries
    <2>6. Carries(s, s') /\ s'.pc = "drain"
      BY <2>2, <2>4, <2>5, CarriesTwice
    <2>7. QED
      BY <1>2, <2>1, <2>6
  <1>4. CASE RouteAnswer
    <2>1. Take([kind |-> "answer"])
      BY <1>4 DEF RouteAnswer
    <2>2. PICK d \in Fields : d = Dequeued /\ d.pc = "drain" /\ Carries(s, d)
      BY <1>1, <2>1
    <2>3. \E stash : s' = [d EXCEPT !.stash = stash]
      BY <1>4, <2>2 DEF RouteAnswer
    <2>4. Carries(d, s') /\ s'.pc = "drain"
      BY <2>2, <2>3 DEF Fields, Carries
    <2>5. QED
      BY <1>2, <2>1, <2>2, <2>4, CarriesTwice
  <1>5. ASSUME NEW c \in Command, Take([kind |-> "cmd", cmd |-> c])
        PROVE  \E f \in Fields : /\ f = FlushStash(Dequeued) /\ f.pc = "drain" /\ Carries(s, f)
    <2>1. PICK d \in Fields : d = Dequeued /\ d.pc = "drain" /\ Carries(s, d)
      BY <1>1, <1>5
    <2>2. FlushStash(d) \in Fields /\ FlushStash(d).pc = "drain" /\ Carries(d, FlushStash(d))
      BY <2>1, FlushTyped, StayPoints, HelpersCarry
    <2>3. QED
      BY <2>1, <2>2, CarriesTwice
  <1>6. ASSUME NEW c \in Command, RouteQuery(c) \/ RouteSecondShutdown(c) PROVE CountedIn(s')
    <2>1. Take([kind |-> "cmd", cmd |-> c])
      BY <1>6 DEF RouteQuery, RouteSecondShutdown
    <2>2. PICK f \in Fields : f = FlushStash(Dequeued) /\ f.pc = "drain" /\ Carries(s, f)
      BY <1>5, <2>1
    <2>3. PICK r \in Fields : r = Respond(f, c) /\ r.pc = "drain" /\ Carries(f, r)
      BY <2>2, RespondTyped, StayPoints, HelpersCarry
    <2>4. PICK n : /\ \E status : n = [r EXCEPT !.status = status]
                   /\ s' = n \/ s' = [n EXCEPT !.pc = "ended"]
      BY <1>6, <2>2, <2>3 DEF RouteQuery, RouteSecondShutdown, AfterCommand
    <2>5. /\ Carries(r, n) /\ n.pc = "drain"
          /\ {"pc", "failures", "retryCount", "toolActions", "pendingPrompt"} \subseteq DOMAIN n
      BY <2>3, <2>4 DEF Fields, Carries
    <2>6. Carries(n, s') /\ s'.pc \in {"drain", "ended"}
      <3>1. CASE s' = n
        BY <2>5, <3>1 DEF Carries
      <3>2. CASE s' = [n EXCEPT !.pc = "ended"]
        BY <2>5, <3>2 DEF Carries
      <3>3. QED
        BY <2>4, <3>1, <3>2
    <2>7. QED
      BY <1>2, <2>1, <2>2, <2>3, <2>5, <2>6, CarriesTwice
  <1>7. ASSUME NEW c \in Command, RouteShutdownNow(c) PROVE CountedIn(s')
    <2>1. Take([kind |-> "cmd", cmd |-> c]) /\ cmdOf[c] \in Signal
      BY <1>7 DEF RouteShutdownNow, Signal
    <2>2. PICK f \in Fields : f = FlushStash(Dequeued) /\ f.pc = "drain" /\ Carries(s, f)
      BY <1>5, <2>1
    <2>3. PICK m \in Refreshes(f) : s' = [FinishShutdown(m, cmdOf[c], c) EXCEPT !.pc = "ended"]
      BY <1>7, <2>2 DEF RouteShutdownNow
    <2>4. m \in Fields /\ Carries(f, m)
      BY <2>2, RefreshesTyped, HelpersCarry DEF TypeOK
    <2>5. PICK n \in Fields : n = FinishShutdown(m, cmdOf[c], c)
      BY <2>1, <2>4, FinishTyped
    <2>6. Carries(m, n)
      BY <2>4, <2>5, HelpersCarry
    <2>7. Carries(n, s') /\ s'.pc = "ended"
      BY <2>3, <2>5 DEF Fields, Carries
    <2>8. QED
      BY <1>2, <2>1, <2>2, <2>4, <2>6, <2>7, CarriesTwice
  <1>8. ASSUME NEW c \in Command PROVE ~RouteShutdownCascade(c) /\ ~RouteSetModel(c)
    BY DEF PlainRetries, RouteShutdownCascade, RouteSetModel, Live
  <1>9. QED
    BY <1>3, <1>4, <1>6, <1>7, <1>8 DEF Dequeue, PlainRetries

(* A turn begins where the failed one left off, or afresh.                 *)
LEMMA StartCounts ==
    ASSUME NEW m \in Fields, NEW parts, StartTurn(m, parts)
    PROVE  \/ /\ s'.pc = "turn" /\ s'.turn = parts /\ s'.toolActions = m.toolActions
              /\ s'.failures = m.failures /\ s'.retryCount = m.retryCount
           \/ s'.pc = "loop" /\ s'.failures = NoFailures /\ s'.retryCount = m.retryCount
  <1>1. CASE \E h : s' = [m EXCEPT !.pc = "turn", !.turn = parts, !.status = "running",
                                   !.needsHydration = h]
    BY <1>1 DEF Fields
  <1>2. CASE s' = Abandon([m EXCEPT !.turn = parts, !.needsHydration = TRUE,
                                    !.surprises = m.surprises + 1])
    <2>1. PICK k : k = [m EXCEPT !.turn = parts, !.needsHydration = TRUE,
                                 !.surprises = m.surprises + 1]
      OBVIOUS
    <2>2. k.retryCount = m.retryCount /\ DOMAIN k = DOMAIN m
      BY <2>1 DEF Fields
    <2>3. PICK n : n = NextIteration(k)
      OBVIOUS
    <2>4. n.retryCount = k.retryCount /\ n.pc = "loop" /\ DOMAIN n = DOMAIN m
      BY <2>2, <2>3 DEF NextIteration, Fields
    <2>5. s' = [n EXCEPT !.abandoned = n.abandoned \union (k.turn \intersect Prompt),
                         !.failures = NoFailures, !.status = "error"]
      BY <1>2, <2>1, <2>3, Zenon DEF Abandon
    <2>6. s'.pc = "loop" /\ s'.failures = NoFailures /\ s'.retryCount = n.retryCount
      BY <2>4, <2>5 DEF Fields
    <2>7. QED
      BY <2>2, <2>4, <2>6
  <1>3. QED
    BY <1>1, <1>2 DEF StartTurn

LEMMA StartedCounts ==
    ASSUME s \in Fields, s' \in Fields, CountedIn(s), s.pc = "decide",
           NEW m \in Fields, NEW parts, parts # {}, StartTurn(m, parts),
           m.failures = s.failures, m.retryCount = s.retryCount, m.toolActions = <<>>
    PROVE  CountedIn(s')
  <1>1. Spent(s.failures, s.retryCount) /\ Allowed(s.retryCount)
    BY DEF CountedIn
  <1>2. CASE /\ s'.pc = "turn" /\ s'.turn = parts /\ s'.toolActions = m.toolActions
             /\ s'.failures = m.failures /\ s'.retryCount = m.retryCount
    BY <1>1, <1>2 DEF CountedIn
  <1>3. CASE s'.pc = "loop" /\ s'.failures = NoFailures /\ s'.retryCount = m.retryCount
    BY <1>1, <1>3, Numbers, Spends DEF CountedIn
  <1>4. QED
    BY <1>2, <1>3, StartCounts

LEMMA DecidedCounts ==
    ASSUME s \in Fields
    PROVE  /\ Decided.failures = s.failures /\ Decided.retryCount = s.retryCount
           /\ Decided.awaited = s.awaited /\ Decided.pendingPrompt = s.pendingPrompt
           /\ s.toolActions = <<>> => Decided.toolActions = <<>>
  <1>1. /\ Decided.failures = s.failures /\ Decided.retryCount = s.retryCount
        /\ Decided.awaited = s.awaited /\ Decided.pendingPrompt = s.pendingPrompt
    BY DEF Decided, drainLeadingQueuedCronActions, Fields
  <1>2. ASSUME s.toolActions = <<>> PROVE Decided.toolActions = <<>>
    <2>1. LeadingCrons(s.toolActions) \in 0 .. Len(s.toolActions)
      BY LeadingOnes DEF Fields, Actions
    <2>2. LeadingCrons(s.toolActions) = 0
      BY <1>2, <2>1
    <2>3. QED
      BY <1>2, <2>2 DEF Decided, drainLeadingQueuedCronActions
  <1>3. QED
    BY <1>1, <1>2

LEMMA DecideCounts ==
    ASSUME TypeOK, s \in Fields, s' \in Fields, PlainRetries, CountedIn(s), Decide
    PROVE  CountedIn(s')
  <1>1. s.pc = "decide" /\ s.awaited = {}
    <2>1. s.pc = "decide"
      BY DEF Decide, ReplayToolAction, TakePendingPrompt, ProcessPrompt, ProcessAnswer,
             ProcessWaitTimer, ProcessCronTimer, ProcessIdleTimer, ProcessGraceTimer,
             ProcessStalePoll, ProcessPollResolved, ProcessPollAgain, ProcessShutdownPoll,
             ProcessDigest, DecideNothing, Fired, Popping, NothingPopped, Deciding
    <2>2. s.awaited = {}
      BY DEF PlainRetries, Fields, Children
    <2>3. QED
      BY <2>1, <2>2
  <1>2. PICK d \in Fields :
          /\ d = Decided /\ d.failures = s.failures /\ d.retryCount = s.retryCount
          /\ d.awaited = {} /\ d.pendingPrompt = s.pendingPrompt
          /\ s.toolActions = <<>> => d.toolActions = <<>>
    BY <1>1, DecidedTyped, DecidedCounts
  <1>3. CASE TakePendingPrompt
    <2>1. PICK m \in Fields : m = [d EXCEPT !.pendingPrompt = {}]
      <3>1. {} \in Texts
        BY Blank
      <3>2. [d EXCEPT !.pendingPrompt = {}] \in Fields
        BY <3>1, Zenon DEF Fields
      <3>3. QED
        BY <3>2
    <2>2. m.failures = d.failures /\ m.retryCount = d.retryCount /\ m.toolActions = d.toolActions
      BY <2>1 DEF Fields
    <2>3. StartTurn(m, s.pendingPrompt) /\ d.toolActions = <<>> /\ s.pendingPrompt # {}
      BY <1>2, <1>3, <2>1 DEF TakePendingPrompt, PendingPromptReady
    <2>4. QED
      BY <1>1, <1>2, <2>2, <2>3, StartedCounts
  <1>4. s.failures.tries > 0 => PendingPromptReady(Decided)
    BY <1>1, <1>2 DEF CountedIn, Resuming, PendingPromptReady
  <1>5. CASE s.failures.tries > 0 /\ ~TakePendingPrompt
    BY <1>4, <1>5 DEF Decide, ReplayToolAction, ProcessPrompt, ProcessAnswer,
             ProcessWaitTimer, ProcessCronTimer, ProcessIdleTimer, ProcessGraceTimer,
             ProcessStalePoll, ProcessPollResolved, ProcessPollAgain, ProcessShutdownPoll,
             ProcessDigest, DecideNothing, Fired, Popping, NothingPopped, PendingPromptReady
  <1>6. ASSUME s.failures.tries = 0, Even(d, s'), s'.pc # "turn" PROVE CountedIn(s')
    <2>1. Even(s, s')
      BY <1>2, <1>6 DEF Even
    <2>2. QED
      BY <1>1, <1>6, <2>1, EvenCounts
  <1>7. CASE s.failures.tries = 0 /\ ReplayToolAction
    <2>1. PICK m : m = [d EXCEPT !.toolActions = Tail(d.toolActions)]
      OBVIOUS
    <2>2. m \in Fields
      <3>1. Tail(d.toolActions) \in Actions
        BY <1>2, <1>7, HeadTailProperties DEF ReplayToolAction, Fields, Actions
      <3>2. QED
        BY <2>1, <3>1, Zenon DEF Fields
    <2>3. Even(d, m)
      BY <2>1 DEF Fields, Even
    <2>4. PICK action \in QueuedAction : action = Head(d.toolActions)
      BY <1>2, <1>7, HeadTailProperties DEF ReplayToolAction, Fields, Actions
    <2>5. HandleTurnResult(m, action) /\ action \notin {"error", "missing"}
      BY <1>2, <1>7, <2>1, <2>4 DEF ReplayToolAction, QueuedAction
    <2>6. Even(m, s') /\ s'.pc # "turn"
      BY <2>2, <2>5, ResultCalm, ResultSettles DEF Settled, Calm
    <2>7. QED
      BY <1>6, <1>7, <2>3, <2>6, EvenTwice
  <1>8. ASSUME NEW item, Popping(item)
        PROVE  \E m \in Fields : /\ m = Popped /\ m.failures = s.failures
                                 /\ m.retryCount = s.retryCount /\ m.toolActions = <<>>
    <2>1. PICK m \in Fields : m = Popped
      BY <1>8, PoppedMoves
    <2>2. m = [d EXCEPT !.fifo = Tail(d.fifo)] /\ d.toolActions = <<>>
      BY <1>2, <1>8, <2>1 DEF Popped, Popping
    <2>3. m.failures = d.failures /\ m.retryCount = d.retryCount /\ m.toolActions = d.toolActions
      BY <2>2 DEF Fields
    <2>4. QED
      BY <1>2, <2>1, <2>2, <2>3
  <1>9. CASE ProcessPrompt
    <2>1. PICK p \in Prompt : Popping([kind |-> "prompt", parts |-> {p}]) /\ StartTurn(Popped, {p})
      BY <1>9 DEF ProcessPrompt
    <2>2. QED
      BY <1>1, <1>8, <2>1, StartedCounts
  <1>10. CASE ProcessAnswer
    <2>1. PICK m \in Fields : /\ m = Popped /\ m.failures = s.failures
                              /\ m.retryCount = s.retryCount /\ m.toolActions = <<>>
      BY <1>8, <1>10 DEF ProcessAnswer
    <2>2. PICK n \in Fields : n = [m EXCEPT !.question = FALSE]
      <3>1. [m EXCEPT !.question = FALSE] \in Fields
        BY Blank, Zenon DEF Fields
      <3>2. QED
        BY <3>1
    <2>3. n.failures = s.failures /\ n.retryCount = s.retryCount /\ n.toolActions = <<>>
      BY <2>1, <2>2 DEF Fields
    <2>4. StartTurn(n, {"answer"}) /\ {"answer"} # {}
      BY <1>10, <2>1, <2>2 DEF ProcessAnswer
    <2>5. QED
      BY <1>1, <2>3, <2>4, StartedCounts
  <1>11. CASE ProcessWaitTimer
    <2>1. StartTurn(Popped, {"text"}) /\ {"text"} # {}
      BY <1>11 DEF ProcessWaitTimer
    <2>2. QED
      BY <1>1, <1>8, <1>11, <2>1, StartedCounts DEF ProcessWaitTimer, Fired
  <1>12. ASSUME s.failures.tries = 0, NEW m \in Fields, m.failures = s.failures,
                m.retryCount = s.retryCount, Even(m, s'), s'.pc # "turn"
         PROVE  CountedIn(s')
    BY <1>2, <1>6, <1>12 DEF Even
  <1>13. CASE s.failures.tries = 0 /\ ProcessCronTimer
    <2>1. PICK m \in Fields : /\ m = Popped /\ m.failures = s.failures
                              /\ m.retryCount = s.retryCount /\ m.toolActions = <<>>
      BY <1>8, <1>13 DEF ProcessCronTimer, Fired
    <2>2. CASE \E parts \in {{"system"}, {"text"}} : StartTurn(m, parts)
      <3>1. PICK parts : parts # {} /\ StartTurn(m, parts)
        BY <2>2
      <3>2. QED
        BY <1>1, <2>1, <3>1, StartedCounts
    <2>3. CASE Crash(m, m.status)
      <3>1. Even(m, s') /\ s'.pc # "turn"
        BY <2>3 DEF Crash, Fields, Even
      <3>2. QED
        BY <1>12, <1>13, <2>1, <3>1
    <2>4. QED
      BY <1>13, <2>1, <2>2, <2>3 DEF ProcessCronTimer, WakeUps
  <1>14. CASE s.failures.tries = 0 /\ (ProcessIdleTimer \/ ProcessGraceTimer \/ ProcessStalePoll)
    <2>1. PICK m \in Fields : /\ m = Popped /\ m.failures = s.failures
                              /\ m.retryCount = s.retryCount /\ m.toolActions = <<>>
      BY <1>8, <1>14 DEF ProcessIdleTimer, ProcessGraceTimer, ProcessStalePoll, Fired
    <2>2. PICK n \in Fields : n = NextIteration(m) /\ n.pc = "loop" /\ Even(m, n)
      BY NextIterationTyped, MovePoints, HelpersCalm DEF Calm
    <2>3. s' \in Dehydrations(n) \/ s' = n
      BY <1>14, <2>1, <2>2 DEF ProcessIdleTimer, ProcessGraceTimer, ProcessStalePoll
    <2>4. Even(n, s') /\ s'.pc # "turn"
      <3>1. CASE s' \in Dehydrations(n)
        BY <2>2, <3>1, HelpersCalm, StayPoints DEF Calm
      <3>2. CASE s' = n
        BY <2>2, <3>2 DEF Even
      <3>3. QED
        BY <2>3, <3>1, <3>2
    <2>5. QED
      BY <1>12, <1>14, <2>1, <2>2, <2>4, EvenTwice
  <1>15. ~ProcessPollResolved /\ ~ProcessPollAgain /\ ~ProcessShutdownPoll
    <2>1. ASSUME ProcessPollResolved PROVE FALSE
      <3>1. PICK m \in Fields : m = Popped
        BY <1>8, <2>1 DEF ProcessPollResolved, Fired
      <3>2. m.awaited \in SUBSET Child
        BY DEF Fields, Children
      <3>3. Polled(m).awaited = m.awaited
        BY DEF Polled, Fields
      <3>4. Polled(m).awaited # {}
        BY <2>1, <3>1 DEF ProcessPollResolved, Resolved
      <3>5. QED
        BY <3>2, <3>3, <3>4 DEF PlainRetries
    <2>2. QED
      BY <1>1, <2>1 DEF ProcessPollAgain, ProcessShutdownPoll
  <1>16. CASE s.failures.tries = 0 /\ DecideNothing
    <2>1. s' = NextIteration(d) \/ s' = ContinueAsNew(d)
      BY <1>2, <1>16 DEF DecideNothing
    <2>2. Even(d, s') /\ s'.pc # "turn"
      BY <2>1, HelpersCalm, MovePoints DEF Calm
    <2>3. QED
      BY <1>6, <1>16, <2>2
  <1>17. CASE ProcessDigest
    <2>1. PICK m \in Interruptions(d) : StartTurn([m EXCEPT !.digest = "none"], {"system"})
      BY <1>2, <1>17 DEF ProcessDigest
    <2>2. m \in Fields /\ Carries(d, m)
      BY InterruptionsTyped, InterruptionsCarry
    <2>3. PICK n \in Fields : n = [m EXCEPT !.digest = "none"]
      <3>1. "none" \in Digest
        BY Literals
      <3>2. [m EXCEPT !.digest = "none"] \in Fields
        BY <2>2, <3>1, Zenon DEF Fields
      <3>3. QED
        BY <3>2
    <2>4. Carries(m, n)
      BY <2>2, <2>3 DEF Fields, Carries
    <2>5. d.toolActions = <<>>
      BY <1>2, <1>17 DEF ProcessDigest, NothingPopped
    <2>6. n.failures = s.failures /\ n.retryCount = s.retryCount /\ n.toolActions = <<>>
      BY <1>2, <2>2, <2>4, <2>5 DEF Carries
    <2>7. {"system"} # {}
      OBVIOUS
    <2>8. QED
      BY <1>1, <2>1, <2>3, <2>6, <2>7, StartedCounts
  <1>18. s.failures.tries > 0 \/ s.failures.tries = 0
    BY Numbers
  <1>19. QED
    BY <1>3, <1>5, <1>7, <1>9, <1>10, <1>11, <1>13, <1>14, <1>15, <1>16, <1>17, <1>18 DEF Decide

LEMMA RetryTurnCounts ==
    ASSUME NEW m \in Fields, NEW k, NEW n, n = RetryTurn(m, k), m.turn # {}
    PROVE  /\ n.failures = m.failures /\ n.retryCount = k /\ n.toolActions = m.toolActions
           /\ n.pc = "loop" /\ n.loop = 0 /\ n.pendingPrompt # {}
  <1>1. PICK parts : parts = (IF m.turn = {"system"} THEN m.pendingPrompt \union {"text"} ELSE m.turn)
    OBVIOUS
  <1>2. parts # {} /\ n = RetryWith(m, parts, k)
    BY <1>1 DEF RetryTurn
  <1>3. PICK c \in Fields : c = ContinueAsNew(m)
    BY ContinueAsNewTyped
  <1>4. c.failures = m.failures /\ c.toolActions = m.toolActions /\ c.pc = "loop" /\ c.loop = 0
    BY <1>3 DEF ContinueAsNew, Fields
  <1>5. PICK h : n = [c EXCEPT !.pendingPrompt = parts, !.retryCount = k, !.needsHydration = h,
                               !.status = "error"]
    BY <1>2, <1>3 DEF RetryWith
  <1>6. /\ n.failures = c.failures /\ n.retryCount = k /\ n.toolActions = c.toolActions
        /\ n.pc = c.pc /\ n.loop = c.loop /\ n.pendingPrompt = parts
    BY <1>5 DEF Fields
  <1>7. QED
    BY <1>2, <1>4, <1>6

LEMMA GiveUpCounts ==
    ASSUME NEW m \in Fields, NEW n, n = GiveUp(m)
    PROVE  n.failures = NoFailures /\ n.retryCount = 0 /\ n.pc = "loop"
  <1>1. PICK a \in Fields : a = Abandon(m)
    BY AbandonTyped
  <1>2. a.failures = NoFailures
    <2>1. PICK k \in Fields : k = NextIteration(m)
      BY NextIterationTyped
    <2>2. QED
      BY <1>1, <2>1 DEF Abandon, Fields
  <1>3. n.failures = a.failures /\ n.retryCount = 0
    BY <1>1 DEF GiveUp, Fields
  <1>4. QED
    BY <1>2, <1>3, MovePoints

LEMMA TurnCounts ==
    ASSUME TypeOK, s \in Fields, s' \in Fields, PlainRetries, CountedIn(s), Turn
    PROVE  CountedIn(s')
  <1>1. s.pc = "turn" /\ Spent(s.failures, s.retryCount) /\ Allowed(s.retryCount) /\ s.toolActions = <<>> /\ s.turn # {}
    <2>1. s.pc = "turn"
      BY DEF Turn, TurnReturns, TurnLosesState, TurnLosesConnection, TurnFails, Failing
    <2>2. QED
      BY <2>1 DEF CountedIn
  <1>2. s'.pc # "turn"
    BY TurnTyped DEF Settled
  <1>3. ASSUME NEW outcome \in {PlainOutcome} \union TurnOutcome, outcome.main # "error",
               TurnReturns(outcome)
        PROVE  CountedIn(s')
    <2>1. PICK r \in Fields : r = Returned(s, outcome)
      BY PlainIsOutcome, OutcomeAssumption, ReturnedMoves
    <2>2. r.failures = NoFailures /\ r.retryCount = 0
      BY <1>3, <2>1 DEF Returned, drainLeadingQueuedCronActions, Fields
    <2>3. PICK m \in Refreshes(r) :
            HandleTurnResult(
              [m EXCEPT !.surprises = IF outcome = PlainOutcome THEN @ ELSE @ + 1], outcome.main)
            /\ (outcome # PlainOutcome => s.surprises < MaxSurprises)
      BY <1>3, <2>1 DEF TurnReturns
    <2>4. m \in Fields /\ Even(r, m)
      BY <2>1, RefreshesTyped, HelpersCalm DEF TypeOK, Calm
    <2>5. m.surprises = s.surprises
      <3>1. Returned(s, outcome).surprises = s.surprises
        BY DEF Returned, drainLeadingQueuedCronActions, Fields
      <3>2. m.surprises = r.surprises
        BY <2>1 DEF Refreshes, Refreshed, Fields
      <3>3. QED
        BY <2>1, <3>1, <3>2
    <2>6. PICK surprises \in Surprises :
            surprises = (IF outcome = PlainOutcome THEN m.surprises ELSE m.surprises + 1)
      BY <2>3, <2>4, <2>5, Bounds DEF Fields, Surprises
    <2>7. PICK n \in Fields : n = [m EXCEPT !.surprises = surprises]
      <3>1. [m EXCEPT !.surprises = surprises] \in Fields
        BY <2>4, Zenon DEF Fields
      <3>2. QED
        BY <3>1
    <2>8. Even(m, n)
      BY <2>4, <2>7 DEF Fields, Even
    <2>9. HandleTurnResult(n, outcome.main)
      BY <2>3, <2>6, <2>7
    <2>10. Even(n, s')
      <3>1. outcome.main = "missing" => ~OnlyShutdownEnds
        BY DEF PlainOutcome, OnlyShutdownEnds
      <3>2. QED
        BY <1>3, <2>9, <3>1, ResultCalm DEF Calm
    <2>11. s'.failures = NoFailures /\ s'.retryCount = 0
      BY <2>2, <2>4, <2>8, <2>10 DEF Even
    <2>12. QED
      BY <1>2, <2>11, Spends, AttemptsNat DEF CountedIn, Allowed
  <1>4. ASSUME NEW failure, Failing(failure)
        PROVE  \E f \in Fields : /\ f = Failed /\ f.failures = FailedAgain(s.failures)
                                 /\ f.retryCount = s.retryCount + 1
                                 /\ f.toolActions = s.toolActions /\ f.turn = s.turn
    <2>1. s.retryCount + 1 \in Count /\ FailedAgain(s.failures) \in Failures /\ s.surprises + 1 \in Surprises
      BY FailuresTyped, <1>4, Bounds DEF Failing, Fields, Count, Surprises
    <2>2. Failed \in Fields
      BY <2>1, Zenon DEF Failed, Fields
    <2>3. /\ Failed.failures = FailedAgain(s.failures) /\ Failed.retryCount = s.retryCount + 1
          /\ Failed.toolActions = s.toolActions /\ Failed.turn = s.turn
      BY DEF Failed, Fields
    <2>4. QED
      BY <2>2, <2>3
  <1>5. CASE TurnLosesState
    <2>1. PICK f \in Fields : f = Failed
      BY <1>4, <1>5 DEF TurnLosesState
    <2>2. s'.pc = "ended"
      BY <1>5, <2>1 DEF TurnLosesState, Crash, Fields
    <2>3. QED
      BY <2>2 DEF CountedIn
  <1>6. ASSUME NEW f \in Fields, s' = GiveUp(f) PROVE CountedIn(s')
    <2>1. s'.failures = NoFailures /\ s'.retryCount = 0 /\ s'.pc = "loop"
      BY <1>6, GiveUpCounts
    <2>2. QED
      BY <2>1, Spends, AttemptsNat DEF CountedIn, Allowed
  <1>7. ASSUME NEW f \in Fields, f.failures = FailedAgain(s.failures), f.retryCount = s.retryCount + 1,
               f.toolActions = s.toolActions, f.turn = s.turn, Allowed(f.retryCount),
               s' = RetryTurn(f, f.retryCount)
        PROVE  CountedIn(s')
    <2>1. PICK n : n = RetryTurn(f, f.retryCount)
      OBVIOUS
    <2>2. /\ n.failures = FailedAgain(s.failures) /\ n.retryCount = s.retryCount + 1 /\ n.toolActions = <<>>
          /\ n.pc = "loop" /\ n.loop = 0 /\ n.pendingPrompt # {}
      BY <1>1, <1>7, <2>1, RetryTurnCounts
    <2>3. QED
      BY <1>1, <1>7, <2>1, <2>2, Numbers, Spends DEF CountedIn, Resuming
  <1>8. CASE TurnLosesConnection
    <2>1. PICK f \in Fields : /\ f = Failed /\ f.failures = FailedAgain(s.failures)
                              /\ f.retryCount = s.retryCount + 1
                              /\ f.toolActions = s.toolActions /\ f.turn = s.turn
      BY <1>4, <1>8 DEF TurnLosesConnection
    <2>2. CASE f.retryCount > COPILOT_CONNECTION_CLOSED_MAX_RETRIES
      <3>1. PICK n \in Fields : n = RetryTurn(f, 0)
        BY RetryTurnTyped
      <3>2. s' = GiveUp(f) \/ s' = [n EXCEPT !.failures = HandedOff(n.failures)]
        BY <1>8, <2>1, <2>2, <3>1 DEF TurnLosesConnection
      <3>3. CASE s' = [n EXCEPT !.failures = HandedOff(n.failures)]
        <4>1. /\ n.failures = f.failures /\ n.retryCount = 0 /\ n.toolActions = <<>>
              /\ n.pc = "loop" /\ n.loop = 0 /\ n.pendingPrompt # {}
          BY <1>1, <2>1, <3>1, RetryTurnCounts
        <4>2. /\ s'.failures = HandedOff(f.failures) /\ s'.retryCount = 0 /\ s'.toolActions = <<>>
              /\ s'.pc = "loop" /\ s'.loop = 0 /\ s'.pendingPrompt # {}
          BY <3>3, <4>1 DEF Fields
        <4>3. Spent(f.failures, s.retryCount + 1) /\ s.retryCount + 1 <= Attempts
          BY <1>1, <2>1, Numbers, Spends, AttemptsNat DEF Allowed
        <4>4. Spent(s'.failures, 0)
          BY <2>1, <4>2, <4>3, Numbers, Spends
        <4>5. QED
          BY <4>2, <4>4, AttemptsNat DEF CountedIn, Resuming, Allowed
      <3>4. QED
        BY <1>6, <3>2, <3>3
    <2>3. CASE ~(f.retryCount > COPILOT_CONNECTION_CLOSED_MAX_RETRIES)
      <3>1. s' = RetryTurn(f, f.retryCount)
        BY <1>8, <2>1, <2>3 DEF TurnLosesConnection
      <3>2. Allowed(f.retryCount)
        BY <2>3, Numbers, AttemptsNat, Bounds
      <3>3. QED
        BY <1>7, <2>1, <3>1, <3>2
    <2>4. QED
      BY <2>2, <2>3
  <1>9. CASE TurnFails
    <2>1. PICK f \in Fields : /\ f = Failed /\ f.failures = FailedAgain(s.failures)
                              /\ f.retryCount = s.retryCount + 1
                              /\ f.toolActions = s.toolActions /\ f.turn = s.turn
      BY <1>4, <1>9 DEF TurnFails
    <2>2. s' = GiveUp(f) \/ (s' = RetryTurn(f, f.retryCount) /\ ~(f.retryCount >= MAX_RETRIES))
      BY <1>9, <2>1 DEF TurnFails
    <2>3. ~(f.retryCount >= MAX_RETRIES) => Allowed(f.retryCount)
      BY Numbers, AttemptsNat, Bounds
    <2>4. QED
      BY <1>6, <1>7, <2>1, <2>2, <2>3
  <1>10. PlainOutcome.main # "error"
    BY DEF PlainOutcome
  <1>11. QED
    BY <1>3, <1>5, <1>8, <1>9, <1>10, PlainIsOutcome, OutcomeAssumption DEF Turn, PlainRetries

Counted == CountedIn(s)

LEMMA NextCounts ==
    ASSUME PlainRetries PROVE TypeOK /\ Awake /\ Counted /\ [Next]_vars => Counted'
  <1>1. SUFFICES ASSUME TypeOK, Awake, Counted, [Next]_vars PROVE CountedIn(s')
    BY DEF Counted, CountedIn
  <1>2. s \in Fields /\ s' \in Fields
    <2>1. TypeOK'
      BY <1>1, NextTyped
    <2>2. s \in Session /\ s' \in Session
      BY <1>1, <2>1 DEF TypeOK
    <2>3. QED
      BY <2>2, SessionFields
  <1>3. CountedIn(s)
    BY <1>1 DEF Counted
  <1>4. CASE IterationCap \/ HistoryCap \/ StartDrain \/ TimerFires \/ DigestDue \/ Park \/ EndDrain
    BY <1>2, <1>3, <1>4, DrainCounts
  <1>5. CASE Dequeue
    BY <1>1, <1>2, <1>3, <1>5, DequeueCounts
  <1>6. CASE Decide
    BY <1>1, <1>2, <1>3, <1>6, DecideCounts
  <1>7. CASE Turn
    BY <1>1, <1>2, <1>3, <1>7, TurnCounts
  <1>8. CASE Environment \/ UNCHANGED vars
    <2>1. ~ChildStep
      BY DEF PlainRetries, ChildStep
    <2>2. s' = s
      BY <1>8, <2>1 DEF Environment, UserSends, UserAnswers, ClientCommands, vars
    <2>3. QED
      BY <1>3, <2>2
  <1>9. QED
    BY <1>1, <1>4, <1>5, <1>6, <1>7, <1>8 DEF Next, Loop

(* The attempts at one turn are bounded for each worker, as long as        *)
(* nothing starts the retry counter again between two attempts: a turn     *)
(* whose activity fails MAX_RETRIES times, or loses its connection once    *)
(* more than its limit, is given up or handed to another worker, through   *)
(* every continueAsNew and whatever arrives in between.  So more than      *)
(* Attempts tries take a lossy hand-off for every Attempts of them; the    *)
(* hand-offs themselves are not bounded.  loop_error_retry shows what      *)
(* happens when the turn returns the error instead.                        *)
THEOREM FailuresStayBounded ==
    ASSUME PlainRetries PROVE Spec => []FailuresBounded
  <1>1. Init => Counted
    <2>1. Init => s.pc = "loop" /\ s.failures = NoFailures /\ s.retryCount = 0
      BY DEF Init
    <2>2. QED
      BY <2>1, Spends, AttemptsNat DEF Counted, CountedIn, Allowed
  <1>2. TypeOK /\ Counted => FailuresBounded
    <2>1. SUFFICES ASSUME TypeOK, Counted, s.pc # "ended"
                   PROVE  s.failures.tries < (s.failures.handoffs + 1) * Attempts
      BY DEF FailuresBounded
    <2>2. s \in Fields
      BY <2>1, SessionFields DEF TypeOK
    <2>3. Spent(s.failures, s.retryCount) /\ Allowed(s.retryCount)
      BY <2>1 DEF Counted, CountedIn
    <2>4. QED
      BY <2>2, <2>3, Numbers, Spends
  <1>3. QED
    BY <1>1, <1>2, InitTyped, NextTyped, NextCounts, PTL DEF Spec

----------------------------------------------------------------------------
(* Every command is answered.  A cron timer that fires without a schedule  *)
(* would end a session; Scheduled says that there is none.                 *)
CronItem == [kind |-> "timer", timer |-> "cron"]

Scheduled(m) ==
    /\ CronTrace(m) \/ Within(m.stash, CronItem) \/ Within(m.fifo, CronItem) => m.cron
    /\ \A i \in 1 .. Len(m.toolActions) : m.toolActions[i] # "cron_cancel"

(* Commands are where they were, and nothing but a command ends a session  *)
(* if OnlyShutdownEnds.                                                    *)
SameShutdown(m, n) ==
    IF m.shutdown = NoShutdown THEN n.shutdown = NoShutdown
    ELSE n.shutdown # NoShutdown /\ n.shutdown.cmd = m.shutdown.cmd

Serves(m, n) ==
    /\ n.responses = m.responses /\ SameShutdown(m, n)
    /\ OnlyShutdownEnds /\ Scheduled(m) =>
         /\ Scheduled(n) /\ n.result \in {m.result, "none"}
         /\ n.pc = "ended" => m.pc = "ended" \/ m.result # "none"

LEMMA ServesTwice == \A k, m, n : Serves(k, m) /\ Serves(m, n) => Serves(k, n)
  BY DEF Serves, SameShutdown

LEMMA SteadyServes ==
    ASSUME NEW m, NEW n, Steady(m, n), n.stash = m.stash, n.fifo = m.fifo
    PROVE  Serves(m, n)
  BY DEF Steady, Serves, Scheduled, SameShutdown

LEMMA HelpersServe ==
    ASSUME NEW m \in Fields
    PROVE  /\ Serves(m, NextIteration(m)) /\ Serves(m, ContinueAsNew(m))
           /\ \A d \in Dehydrations(m) : Serves(m, d)
           /\ Serves(m, queueFollowup(m)) /\ Serves(m, Polled(m))
           /\ \A r \in Refreshes(m) : Serves(m, r)
           /\ \A n \in Interruptions(m) : Serves(m, n)
  <1>1. \A n : Calm(m, n) /\ Same(m, n) => Serves(m, n)
    BY SteadyServes DEF Calm, Same, Rest
  <1>2. QED
    BY <1>1, HelpersCalm, HelpersSame, InterruptionsCalm, InterruptionsSame

LEMMA FlushServes == ASSUME NEW m \in Fields PROVE Serves(m, FlushStash(m))
  <1>1. PICK n \in Fields : n = FlushStash(m)
    BY FlushTyped
  <1>2. /\ n.responses = m.responses /\ n.shutdown = m.shutdown /\ n.toolActions = m.toolActions
        /\ n.cron = m.cron /\ n.result = m.result /\ n.pc = m.pc
        /\ n.timer = m.timer /\ n.heldCron = m.heldCron
        /\ n.stash = <<>> /\ n.fifo = m.fifo \o m.stash
    BY <1>1 DEF FlushStash, Fields
  <1>3. ~Within(n.stash, CronItem)
    BY <1>2 DEF Within
  <1>4. Within(n.fifo, CronItem) <=> Within(m.fifo, CronItem) \/ Within(m.stash, CronItem)
    BY <1>2, WithinConcat DEF Fields, Items
  <1>5. QED
    BY <1>1, <1>2, <1>3, <1>4 DEF Serves, Scheduled, CronTrace, SameShutdown

LEMMA LeaveDrainServes == ASSUME NEW m \in Fields PROVE Serves(m, LeaveDrain(m))
  <1>1. PICK n \in Fields : n = FlushStash(m) /\ Serves(m, n)
    BY FlushTyped, FlushServes
  <1>2. PICK l : l = LeaveDrain(m)
    OBVIOUS
  <1>3. n.result = m.result
    BY <1>1 DEF FlushStash, Fields
  <1>4. /\ l.responses = n.responses /\ l.shutdown = n.shutdown /\ l.toolActions = n.toolActions
        /\ l.cron = n.cron /\ l.result = n.result /\ l.timer = n.timer /\ l.heldCron = n.heldCron
        /\ l.stash = n.stash /\ l.fifo = n.fifo /\ (l.pc = "ended" => n.result # "none")
    BY <1>1, <1>2, <1>3 DEF LeaveDrain, Fields
  <1>5. Serves(n, l)
    BY <1>4 DEF Serves, Scheduled, CronTrace, SameShutdown
  <1>6. QED
    BY <1>1, <1>2, <1>5, ServesTwice

LEMMA CronsServe == ASSUME NEW m \in Fields PROVE Serves(m, drainLeadingQueuedCronActions(m))
  <1>1. PICK actions \in Seq(QueuedAction) : actions = m.toolActions
    BY DEF Fields, Actions
  <1>2. PICK k \in 0 .. Len(actions) :
          k = LeadingCrons(actions) /\ \A i \in 1 .. k : actions[i] \in Cron
    BY LeadingOnes
  <1>3. CASE k = 0
    BY <1>1, <1>2, <1>3 DEF drainLeadingQueuedCronActions, Serves, SameShutdown
  <1>4. CASE k # 0
    <2>1. PICK n \in Fields : n = drainLeadingQueuedCronActions(m)
      BY CronsDrainedTyped
    <2>2. /\ n.responses = m.responses /\ n.shutdown = m.shutdown /\ n.result = m.result /\ n.pc = m.pc
          /\ n.cron = (actions[k] = "cron_set") /\ n.toolActions = SubSeq(actions, k + 1, Len(actions))
      BY <1>1, <1>2, <1>4, <2>1 DEF drainLeadingQueuedCronActions, Fields
    <2>3. ASSUME Scheduled(m) PROVE Scheduled(n)
      <3>1. \A i \in 1 .. Len(actions) : actions[i] # "cron_cancel"
        BY <1>1, <2>3 DEF Scheduled
      <3>2. actions[k] \in Cron /\ actions[k] # "cron_cancel"
        BY <1>2, <1>4, <3>1
      <3>3. n.cron
        BY <2>2, <3>2 DEF Cron
      <3>4. \A i \in 1 .. Len(n.toolActions) : n.toolActions[i] # "cron_cancel"
        BY <1>2, <2>2, <3>1
      <3>5. QED
        BY <3>3, <3>4 DEF Scheduled
    <2>4. QED
      BY <2>1, <2>2, <2>3 DEF Serves, SameShutdown
  <1>5. QED
    BY <1>3, <1>4

LEMMA AbandonServes ==
    ASSUME NEW m \in Fields PROVE Serves(m, Abandon(m)) /\ Serves(m, GiveUp(m))
  <1>1. PICK k \in Fields : k = NextIteration(m) /\ Serves(m, k)
    BY NextIterationTyped, HelpersServe
  <1>2. PICK a \in Fields : a = Abandon(m)
    BY AbandonTyped
  <1>3. Steady(k, a) /\ a.stash = k.stash /\ a.fifo = k.fifo
    BY <1>1, <1>2 DEF Abandon, Fields, Steady, CronTrace
  <1>4. PICK g : g = GiveUp(m)
    OBVIOUS
  <1>5. Steady(a, g) /\ g.stash = a.stash /\ g.fifo = a.fifo
    BY <1>2, <1>4 DEF GiveUp, Fields, Steady, CronTrace
  <1>6. QED
    BY <1>1, <1>2, <1>3, <1>4, <1>5, SteadyServes, ServesTwice

LEMMA RetryServes ==
    ASSUME NEW m \in Fields, NEW parts, NEW k PROVE Serves(m, RetryWith(m, parts, k))
  <1>1. PICK n \in Fields : n = ContinueAsNew(m) /\ Serves(m, n)
    BY ContinueAsNewTyped, HelpersServe
  <1>2. PICK r : r = RetryWith(m, parts, k)
    OBVIOUS
  <1>3. Steady(n, r) /\ r.stash = n.stash /\ r.fifo = n.fifo
    BY <1>1, <1>2 DEF RetryWith, Fields, Steady, CronTrace
  <1>4. QED
    BY <1>1, <1>2, <1>3, SteadyServes, ServesTwice

LEMMA ErrorServes == ASSUME NEW m \in Fields, TurnError(m) PROVE Serves(m, s')
  <1>1. m.retryCount + 1 \in Count /\ FailedAgain(m.failures) \in Failures
    BY FailuresTyped DEF Fields, Count
  <1>2. PICK f \in Fields : f = [m EXCEPT !.retryCount = m.retryCount + 1, !.failures = FailedAgain(m.failures)]
    <2>1. [m EXCEPT !.retryCount = m.retryCount + 1, !.failures = FailedAgain(m.failures)] \in Fields
      BY <1>1, Zenon DEF Fields
    <2>2. QED
      BY <2>1
  <1>3. Steady(m, f) /\ f.stash = m.stash /\ f.fifo = m.fifo
    BY <1>2 DEF Fields, Steady, CronTrace
  <1>4. s' = GiveUp(f) \/ \E parts, k : s' = RetryWith(f, parts, k)
    BY <1>2 DEF TurnError
  <1>5. QED
    BY <1>3, <1>4, AbandonServes, RetryServes, SteadyServes, ServesTwice

LEMMA ResultServes ==
    ASSUME s \in Fields, NEW m \in Fields, NEW action, HandleTurnResult(m, action),
           action = "missing" => ~OnlyShutdownEnds
    PROVE  Serves(m, s')
  <1>1. CASE action = "error"
    <2>1. TurnError(m)
      BY <1>1 DEF HandleTurnResult
    <2>2. QED
      BY <2>1, ErrorServes
  <1>2. CASE action # "error"
    <2>1. Steady(m, s')
      BY <1>2, ResultCalm DEF Calm
    <2>2. Concludes(m)
      BY <1>2, ResultMoves
    <2>3. QED
      BY <2>1, <2>2, SteadyServes DEF Concludes, Same, Rest
  <1>3. QED
    BY <1>1, <1>2

(* A command is answered at once; a shutdown begins, or is concluded and   *)
(* answered.                                                               *)
Answers(m, n, c) ==
    /\ n.responses = [m.responses EXCEPT ![c] = m.responses[c] + 1]
    /\ SameShutdown(m, n)
    /\ OnlyShutdownEnds /\ Scheduled(m) =>
         /\ Scheduled(n)
         /\ cmdOf[c] \notin Signal =>
              n.result \in {m.result, "none"} /\ (n.pc = "ended" => m.pc = "ended" \/ m.result # "none")

Begins(m, n, c) ==
    /\ n.responses = m.responses
    /\ m.shutdown = NoShutdown /\ n.shutdown # NoShutdown /\ n.shutdown.cmd = c
    /\ cmdOf[c] \in Signal /\ Child # {}
    /\ OnlyShutdownEnds /\ Scheduled(m) =>
         /\ Scheduled(n) /\ n.result \in {m.result, "none"}
         /\ n.pc = "ended" => m.pc = "ended" \/ m.result # "none"

Finishes(m, n) ==
    /\ m.shutdown # NoShutdown /\ n.shutdown = NoShutdown
    /\ n.responses = [m.responses EXCEPT ![m.shutdown.cmd] = m.responses[m.shutdown.cmd] + 1]
    /\ OnlyShutdownEnds /\ Scheduled(m) => Scheduled(n)

LEMMA AnswersServed ==
    ASSUME NEW k, NEW m, NEW n, NEW c
    PROVE  /\ Serves(k, m) /\ Answers(m, n, c) => Answers(k, n, c)
           /\ Answers(k, m, c) /\ Serves(m, n) => Answers(k, n, c)
           /\ Serves(k, m) /\ Begins(m, n, c) => Begins(k, n, c)
           /\ Serves(k, m) /\ Finishes(m, n) => Finishes(k, n)
           /\ Finishes(k, m) /\ Serves(m, n) => Finishes(k, n)
  <1>1. Serves(k, m) /\ Answers(m, n, c) => Answers(k, n, c)
    BY DEF Serves, Answers, SameShutdown
  <1>2. Answers(k, m, c) /\ Serves(m, n) => Answers(k, n, c)
    BY DEF Serves, Answers, SameShutdown
  <1>3. Serves(k, m) /\ Begins(m, n, c) => Begins(k, n, c)
    BY DEF Serves, Begins, SameShutdown
  <1>4. Serves(k, m) /\ Finishes(m, n) => Finishes(k, n)
    BY DEF Serves, Finishes, SameShutdown
  <1>5. Finishes(k, m) /\ Serves(m, n) => Finishes(k, n)
    BY DEF Serves, Finishes, SameShutdown
  <1>6. QED
    BY <1>1, <1>2, <1>3, <1>4, <1>5

LEMMA RespondAnswers ==
    ASSUME NEW m \in Fields, NEW c \in Command
    PROVE  /\ Answers(m, Respond(m, c), c)
           /\ Respond(m, c).result = m.result /\ Respond(m, c).pc = m.pc
  <1>1. PICK n \in Fields : n = Respond(m, c)
    BY RespondTyped
  <1>2. PICK responses \in Responses : responses = m.responses
    BY DEF Fields
  <1>3. PICK more \in Responses : more = [responses EXCEPT ![c] = responses[c] + 1]
    <2>1. [responses EXCEPT ![c] = responses[c] + 1] \in Responses
      BY DEF Responses
    <2>2. QED
      BY <2>1
  <1>4. n = [m EXCEPT !.responses = more]
    BY <1>1, <1>2, <1>3, Zenon DEF Respond
  <1>5. /\ n.responses = more /\ n.shutdown = m.shutdown /\ n.result = m.result /\ n.pc = m.pc
        /\ n.toolActions = m.toolActions /\ n.cron = m.cron /\ n.timer = m.timer
        /\ n.heldCron = m.heldCron /\ n.stash = m.stash /\ n.fifo = m.fifo
    BY <1>4 DEF Fields
  <1>6. QED
    BY <1>1, <1>2, <1>3, <1>5 DEF Answers, Scheduled, CronTrace, SameShutdown

LEMMA FinishAnswers ==
    ASSUME NEW m \in Fields, NEW mode, NEW c \in Command
    PROVE  LET n == FinishShutdown(m, mode, c) IN
             /\ n.responses = [m.responses EXCEPT ![c] = m.responses[c] + 1]
             /\ n.shutdown = NoShutdown /\ (OnlyShutdownEnds /\ Scheduled(m) => Scheduled(n))
  <1>1. PICK r \in Fields : r = Respond(m, c) /\ Answers(m, r, c)
    BY RespondTyped, RespondAnswers
  <1>2. PICK n : n = FinishShutdown(m, mode, c)
    OBVIOUS
  <1>3. /\ n.responses = r.responses /\ n.shutdown = NoShutdown /\ n.toolActions = r.toolActions
        /\ n.cron = r.cron /\ n.timer = "none" /\ n.heldCron = r.heldCron
        /\ n.stash = r.stash /\ n.fifo = r.fifo
    BY <1>1, <1>2 DEF FinishShutdown, Fields
  <1>4. QED
    BY <1>1, <1>2, <1>3 DEF Answers, Scheduled, CronTrace, SameShutdown

LEMMA ResolveServes ==
    ASSUME NEW m \in Fields
    PROVE  Serves(m, ResolveAgentWait(m)) \/ Finishes(m, ResolveAgentWait(m))
  <1>1. CASE ~Resolved(m)
    BY <1>1 DEF ResolveAgentWait, Serves, SameShutdown
  <1>2. CASE Resolved(m) /\ m.shutdown # NoShutdown
    <2>1. PICK c \in Command : c = m.shutdown.cmd
      BY <1>2, ShutdownParts
    <2>2. PICK n : n = FinishShutdown(m, m.shutdown.mode, c)
      OBVIOUS
    <2>3. ResolveAgentWait(m) = n
      BY <1>2, <2>1, <2>2 DEF ResolveAgentWait
    <2>4. /\ n.responses = [m.responses EXCEPT ![c] = m.responses[c] + 1]
          /\ n.shutdown = NoShutdown /\ (OnlyShutdownEnds /\ Scheduled(m) => Scheduled(n))
      BY <2>2, FinishAnswers
    <2>5. QED
      BY <1>2, <2>1, <2>3, <2>4 DEF Finishes
  <1>3. CASE Resolved(m) /\ m.shutdown = NoShutdown
    <2>1. PICK n \in Fields : n = queueFollowup(m) /\ Serves(m, n)
      BY FollowupTyped, HelpersServe
    <2>2. PICK r : r = [n EXCEPT !.awaited = {}, !.digest = "none", !.timer = "none"]
      OBVIOUS
    <2>3. Steady(n, r) /\ r.stash = n.stash /\ r.fifo = n.fifo
      BY <2>2 DEF Fields, Steady, CronTrace
    <2>4. Serves(m, r)
      BY <2>1, <2>3, SteadyServes, ServesTwice
    <2>5. QED
      BY <1>3, <2>1, <2>2, <2>4 DEF ResolveAgentWait
  <1>4. QED
    BY <1>1, <1>2, <1>3

LEMMA FailureFinishes ==
    ASSUME NEW m \in Fields, m.shutdown # NoShutdown PROVE Finishes(m, failPendingShutdown(m))
  <1>1. PICK c \in Command : c = m.shutdown.cmd
    BY ShutdownParts
  <1>2. PICK r \in Fields : r = Respond(m, c) /\ Answers(m, r, c)
    BY RespondTyped, RespondAnswers
  <1>3. PICK n : n = failPendingShutdown(m)
    OBVIOUS
  <1>4. /\ n.responses = r.responses /\ n.shutdown = NoShutdown /\ n.toolActions = r.toolActions
        /\ n.cron = r.cron /\ n.timer = "none" /\ n.heldCron = r.heldCron
        /\ n.stash = r.stash /\ n.fifo = r.fifo
    BY <1>1, <1>2, <1>3 DEF failPendingShutdown, Fields
  <1>5. QED
    BY <1>1, <1>2, <1>3, <1>4 DEF Answers, Finishes, Scheduled, CronTrace, SameShutdown

LEMMA StartServes ==
    ASSUME NEW m \in Fields, NEW parts, StartTurn(m, parts) PROVE Serves(m, s')
  <1>1. CASE \E h : s' = [m EXCEPT !.pc = "turn", !.turn = parts, !.status = "running",
                                   !.needsHydration = h]
    <2>1. Steady(m, s') /\ s'.stash = m.stash /\ s'.fifo = m.fifo
      BY <1>1 DEF Fields, Steady, CronTrace
    <2>2. QED
      BY <2>1, SteadyServes
  <1>2. CASE s' = Abandon([m EXCEPT !.turn = parts, !.needsHydration = TRUE,
                                    !.surprises = m.surprises + 1])
    <2>1. PICK k : k = [m EXCEPT !.turn = parts, !.needsHydration = TRUE,
                                 !.surprises = m.surprises + 1]
      OBVIOUS
    <2>2. /\ k.responses = m.responses /\ k.shutdown = m.shutdown /\ k.toolActions = m.toolActions
          /\ k.cron = m.cron /\ k.timer = m.timer /\ k.heldCron = m.heldCron
          /\ k.result = m.result /\ k.stash = m.stash /\ k.fifo = m.fifo /\ DOMAIN k = DOMAIN m
      BY <2>1 DEF Fields
    <2>3. PICK n : n = NextIteration(k)
      OBVIOUS
    <2>4. /\ n.responses = k.responses /\ n.shutdown = k.shutdown /\ n.toolActions = k.toolActions
          /\ n.cron = k.cron /\ n.timer = k.timer /\ n.heldCron = k.heldCron
          /\ n.result = k.result /\ n.stash = k.stash /\ n.fifo = k.fifo
          /\ n.pc = "loop" /\ DOMAIN n = DOMAIN m
      BY <2>2, <2>3 DEF NextIteration, Fields
    <2>5. s' = [n EXCEPT !.abandoned = n.abandoned \union (k.turn \intersect Prompt),
                         !.failures = NoFailures, !.status = "error"]
      BY <1>2, <2>1, <2>3, Zenon DEF Abandon
    <2>6. /\ s'.responses = n.responses /\ s'.shutdown = n.shutdown /\ s'.toolActions = n.toolActions
          /\ s'.cron = n.cron /\ s'.timer = n.timer /\ s'.heldCron = n.heldCron
          /\ s'.result = n.result /\ s'.stash = n.stash /\ s'.fifo = n.fifo /\ s'.pc = "loop"
      BY <2>4, <2>5 DEF Fields
    <2>7. Steady(m, s') /\ s'.stash = m.stash /\ s'.fifo = m.fifo
      BY <2>2, <2>4, <2>6 DEF Steady, CronTrace
    <2>8. QED
      BY <2>7, SteadyServes
  <1>3. QED
    BY <1>1, <1>2 DEF StartTurn

LEMMA DrainServes ==
    ASSUME TypeOK, s \in Fields,
           IterationCap \/ HistoryCap \/ StartDrain \/ TimerFires \/ DigestDue \/ Park \/ EndDrain
    PROVE  Serves(s, s')
  <1>1. CASE IterationCap \/ HistoryCap
    BY <1>1, HelpersServe DEF IterationCap, HistoryCap
  <1>2. CASE StartDrain \/ Park
    <2>1. \/ s' = [s EXCEPT !.pc = "drain", !.loop = s.loop + 1, !.drained = 0, !.seen = {}]
          \/ \E status : s' = [s EXCEPT !.pc = "parked", !.status = status]
      BY <1>2 DEF StartDrain, Park
    <2>2. /\ s'.responses = s.responses /\ s'.shutdown = s.shutdown /\ s'.toolActions = s.toolActions
          /\ s'.cron = s.cron /\ s'.timer = s.timer /\ s'.heldCron = s.heldCron
          /\ s'.result = s.result /\ s'.stash = s.stash /\ s'.fifo = s.fifo /\ s'.pc # "ended"
      BY <2>1, ZenonT(60) DEF Fields
    <2>3. QED
      BY <2>2 DEF Serves, Scheduled, CronTrace, SameShutdown
  <1>3. CASE TimerFires
    <2>1. PICK x \in Item : x = [kind |-> "timer", timer |-> s.timer]
      <3>1. [kind |-> "timer", timer |-> s.timer] \in Item
        BY <1>3, ItemKinds DEF TimerFires, Fields
      <3>2. QED
        BY <3>1
    <2>2. s' = [s EXCEPT !.stash = Append(s.stash, x), !.timer = "none", !.drained = s.drained + 1]
      BY <1>3, <2>1 DEF TimerFires, Draining
    <2>3. /\ s'.responses = s.responses /\ s'.shutdown = s.shutdown /\ s'.toolActions = s.toolActions
          /\ s'.cron = s.cron /\ s'.timer = "none" /\ s'.heldCron = s.heldCron
          /\ s'.result = s.result /\ s'.stash = Append(s.stash, x) /\ s'.fifo = s.fifo
          /\ s'.pc = s.pc
      BY <2>2 DEF Fields
    <2>4. Within(s'.stash, CronItem) <=> Within(s.stash, CronItem) \/ x = CronItem
      BY <2>1, <2>3, WithinAppend DEF Fields, Items
    <2>5. x = CronItem => s.timer = "cron"
      BY <2>1 DEF CronItem
    <2>6. QED
      BY <2>3, <2>4, <2>5 DEF Serves, Scheduled, CronTrace, SameShutdown
  <1>4. CASE DigestDue
    <2>1. PICK m \in Fields : m = [s EXCEPT !.digest = "ready"]
      <3>1. "ready" \in Digest
        BY Literals
      <3>2. [s EXCEPT !.digest = "ready"] \in Fields
        BY <3>1, Zenon DEF Fields
      <3>3. QED
        BY <3>2
    <2>2. Steady(s, m) /\ m.stash = s.stash /\ m.fifo = s.fifo
      BY <2>1 DEF Fields, Steady, CronTrace
    <2>3. s' = LeaveDrain(m)
      BY <1>4, <2>1 DEF DigestDue
    <2>4. QED
      BY <2>2, <2>3, LeaveDrainServes, SteadyServes, ServesTwice
  <1>5. CASE EndDrain
    BY <1>5, LeaveDrainServes DEF EndDrain
  <1>6. QED
    BY <1>1, <1>2, <1>3, <1>4, <1>5

LEMMA ReturnedServes ==
    ASSUME s \in Fields, NEW outcome \in {PlainOutcome} \union TurnOutcome
    PROVE  Serves(s, Returned(s, outcome))
  <1>1. outcome \in Outcome
    BY PlainIsOutcome, OutcomeAssumption
  <1>2. PICK handled \in Prompts :
          handled = (IF outcome.main = "error" THEN s.handled ELSE s.handled \union Running(s))
    BY DEF Fields, Prompts, Running
  <1>3. PICK failures \in Failures : failures = (IF outcome.main = "error" THEN s.failures ELSE NoFailures)
    BY Blank DEF Fields
  <1>4. PICK before \in Seq(QueuedAction), queued \in Seq(QueuedAction) :
          before = s.toolActions /\ queued = outcome.queued
    BY <1>1, OutcomeParts DEF Fields, Actions
  <1>5. PICK actions \in Actions : actions = before \o queued
    <2>1. before \o queued \in Actions
      BY ConcatProperties DEF Actions
    <2>2. QED
      BY <2>1
  <1>6. PICK m \in Fields : m = [s EXCEPT !.retryCount = 0, !.toolActions = actions,
                                          !.failures = failures, !.handled = handled]
    <2>1. 0 \in Count
      BY Blank
    <2>2. [s EXCEPT !.retryCount = 0, !.toolActions = actions,
                    !.failures = failures, !.handled = handled] \in Fields
      BY <2>1, Zenon DEF Fields
    <2>3. QED
      BY <2>2
  <1>7. Returned(s, outcome) = drainLeadingQueuedCronActions(m)
    BY <1>2, <1>3, <1>4, <1>5, <1>6, Zenon DEF Returned, Running
  <1>8. /\ m.responses = s.responses /\ m.shutdown = s.shutdown /\ m.toolActions = actions
        /\ m.cron = s.cron /\ m.timer = s.timer /\ m.heldCron = s.heldCron
        /\ m.result = s.result /\ m.stash = s.stash /\ m.fifo = s.fifo /\ m.pc = s.pc
    BY <1>6 DEF Fields
  <1>9. ASSUME OnlyShutdownEnds, Scheduled(s), NEW i \in 1 .. Len(actions)
        PROVE  actions[i] # "cron_cancel"
    <2>1. \A k \in 1 .. Len(before) : before[k] # "cron_cancel"
      BY <1>4, <1>9 DEF Scheduled
    <2>2. \A k \in 1 .. Len(queued) : queued[k] # "cron_cancel"
      BY <1>4, <1>9 DEF OnlyShutdownEnds, PlainOutcome
    <2>3. i \in Nat /\ Len(before) \in Nat /\ Len(queued) \in Nat /\ i <= Len(before) + Len(queued)
          /\ i >= 1
      BY <1>5, <1>9
    <2>4. CASE i <= Len(before)
      BY <1>5, <2>1, <2>3, <2>4
    <2>5. CASE ~(i <= Len(before))
      <3>1. i - Len(before) \in 1 .. Len(queued)
        BY <2>3, <2>5
      <3>2. actions[i] = queued[i - Len(before)]
        BY <1>5, <2>3, <2>5
      <3>3. QED
        BY <2>2, <3>1, <3>2
    <2>6. QED
      BY <2>4, <2>5
  <1>10. Serves(s, m)
    BY <1>8, <1>9 DEF Serves, Scheduled, CronTrace, SameShutdown
  <1>11. QED
    BY <1>7, <1>10, CronsServe, ServesTwice

LEMMA TurnServes ==
    ASSUME TypeOK, s \in Fields, s' \in Fields, Turn PROVE Serves(s, s')
  <1>1. ASSUME NEW outcome \in {PlainOutcome} \union TurnOutcome, TurnReturns(outcome)
        PROVE  Serves(s, s')
    <2>1. PICK r \in Fields : r = Returned(s, outcome)
      BY PlainIsOutcome, OutcomeAssumption, ReturnedMoves
    <2>2. PICK m \in Refreshes(r) :
            HandleTurnResult(
              [m EXCEPT !.surprises = IF outcome = PlainOutcome THEN @ ELSE @ + 1], outcome.main)
            /\ (outcome # PlainOutcome => s.surprises < MaxSurprises)
      BY <1>1, <2>1 DEF TurnReturns
    <2>3. m \in Fields /\ Serves(r, m)
      BY <2>1, RefreshesTyped, HelpersServe DEF TypeOK
    <2>4. m.surprises = s.surprises
      <3>1. Returned(s, outcome).surprises = s.surprises
        BY DEF Returned, drainLeadingQueuedCronActions, Fields
      <3>2. m.surprises = r.surprises
        BY <2>1 DEF Refreshes, Refreshed, Fields
      <3>3. QED
        BY <2>1, <3>1, <3>2
    <2>5. PICK surprises \in Surprises :
            surprises = (IF outcome = PlainOutcome THEN m.surprises ELSE m.surprises + 1)
      BY <2>2, <2>3, <2>4, Bounds DEF Fields, Surprises
    <2>6. PICK n \in Fields : n = [m EXCEPT !.surprises = surprises]
      <3>1. [m EXCEPT !.surprises = surprises] \in Fields
        BY <2>3, Zenon DEF Fields
      <3>2. QED
        BY <3>1
    <2>7. Steady(m, n) /\ n.stash = m.stash /\ n.fifo = m.fifo
      BY <2>3, <2>6 DEF Fields, Steady, CronTrace
    <2>8. HandleTurnResult(n, outcome.main)
      BY <2>2, <2>5, <2>6
    <2>9. outcome.main = "missing" => ~OnlyShutdownEnds
      BY DEF PlainOutcome, OnlyShutdownEnds
    <2>10. Serves(n, s')
      BY <2>8, <2>9, ResultServes
    <2>11. QED
      BY <2>1, <2>3, <2>7, <2>10, ReturnedServes, SteadyServes, ServesTwice
  <1>2. ASSUME NEW failure, Failing(failure)
        PROVE  \E f \in Fields : f = Failed /\ Serves(s, f) /\ failure \in TurnFailure
    <2>1. s.retryCount + 1 \in Count /\ FailedAgain(s.failures) \in Failures /\ s.surprises + 1 \in Surprises
      BY FailuresTyped, <1>2, Bounds DEF Failing, Fields, Count, Surprises
    <2>2. Failed \in Fields
      BY <2>1, Zenon DEF Failed, Fields
    <2>3. Steady(s, Failed) /\ Failed.stash = s.stash /\ Failed.fifo = s.fifo
      BY DEF Failed, Fields, Steady, CronTrace
    <2>4. QED
      BY <1>2, <2>2, <2>3, SteadyServes DEF Failing
  <1>3. CASE TurnLosesState
    <2>1. PICK f \in Fields : f = Failed /\ Serves(s, f) /\ "missing" \in TurnFailure
      BY <1>2, <1>3 DEF TurnLosesState
    <2>2. s' = [f EXCEPT !.pc = "ended", !.turn = {}, !.status = "failed", !.result = "crashed"]
      BY <1>3, <2>1 DEF TurnLosesState, Crash
    <2>3. s'.responses = f.responses /\ s'.shutdown = f.shutdown
      BY <2>2 DEF Fields
    <2>4. Serves(f, s')
      BY <2>1, <2>3 DEF Serves, OnlyShutdownEnds, SameShutdown
    <2>5. QED
      BY <2>1, <2>4, ServesTwice
  <1>4. ASSUME NEW f \in Fields, NEW k PROVE Serves(f, RetryTurn(f, k))
    BY RetryServes DEF RetryTurn
  <1>5. CASE TurnLosesConnection
    <2>1. PICK f \in Fields : f = Failed /\ Serves(s, f)
      BY <1>2, <1>5 DEF TurnLosesConnection
    <2>2. PICK k \in Nat :
            k = (IF f.retryCount > COPILOT_CONNECTION_CLOSED_MAX_RETRIES THEN 0 ELSE f.retryCount)
      BY DEF Fields, Count
    <2>3. PICK n \in Fields : n = RetryTurn(f, k) /\ Serves(f, n)
      BY <1>4, RetryTurnTyped
    <2>4. s' = n \/ s' = [n EXCEPT !.failures = HandedOff(n.failures)] \/ s' = GiveUp(f)
      BY <1>5, <2>1, <2>2, <2>3 DEF TurnLosesConnection
    <2>5. CASE s' = n \/ s' = [n EXCEPT !.failures = HandedOff(n.failures)]
      <3>1. Steady(n, s') /\ s'.stash = n.stash /\ s'.fifo = n.fifo
        BY <2>5 DEF Fields, Steady, CronTrace
      <3>2. QED
        BY <2>1, <2>3, <3>1, SteadyServes, ServesTwice
    <2>6. CASE s' = GiveUp(f)
      BY <2>1, <2>6, AbandonServes, ServesTwice
    <2>7. QED
      BY <2>4, <2>5, <2>6
  <1>6. CASE TurnFails
    <2>1. PICK f \in Fields : f = Failed /\ Serves(s, f)
      BY <1>2, <1>6 DEF TurnFails
    <2>2. s' = GiveUp(f) \/ s' = RetryTurn(f, f.retryCount)
      BY <1>6, <2>1 DEF TurnFails
    <2>3. QED
      BY <1>4, <2>1, <2>2, AbandonServes, ServesTwice
  <1>7. QED
    BY <1>1, <1>3, <1>5, <1>6 DEF Turn

LEMMA DecidedServes ==
    ASSUME s \in Fields
    PROVE  Serves(s, Decided) /\ Decided.fifo = s.fifo
  <1>1. Serves(s, Decided)
    BY CronsServe DEF Decided
  <1>2. QED
    BY <1>1, DecidedSame DEF Same, Rest

LEMMA PoppedServes ==
    ASSUME s \in Fields, NEW item, Popping(item)
    PROVE  /\ Popped \in Fields /\ Serves(s, Popped) /\ Popped.shutdown = s.shutdown
           /\ OnlyShutdownEnds /\ Scheduled(s) /\ item = CronItem => Popped.cron
  <1>1. PICK d \in Fields : d = Decided /\ Serves(s, d) /\ d.fifo = s.fifo
    BY DecidedTyped, DecidedServes
  <1>2. PICK m \in Fields : m = Popped /\ item = Head(d.fifo) /\ d.fifo # <<>>
    BY <1>1, PoppedMoves
  <1>3. m = [d EXCEPT !.fifo = Tail(d.fifo)]
    BY <1>1, <1>2 DEF Popped
  <1>4. /\ m.responses = d.responses /\ m.shutdown = d.shutdown /\ m.toolActions = d.toolActions
        /\ m.cron = d.cron /\ m.timer = d.timer /\ m.heldCron = d.heldCron
        /\ m.result = d.result /\ m.pc = d.pc /\ m.stash = d.stash /\ m.fifo = Tail(d.fifo)
    BY <1>3 DEF Fields
  <1>5. Within(d.fifo, CronItem) <=> item = CronItem \/ Within(Tail(d.fifo), CronItem)
    BY <1>2, WithinTail DEF Fields, Items
  <1>6. Serves(d, m) /\ (Scheduled(d) /\ item = CronItem => m.cron)
    BY <1>4, <1>5 DEF Serves, Scheduled, CronTrace, SameShutdown
  <1>7. Serves(s, m)
    BY <1>1, <1>6, ServesTwice
  <1>8. QED
    BY <1>1, <1>2, <1>6, <1>7, PoppedShutdown DEF Serves

LEMMA DecideServes ==
    ASSUME TypeOK, s \in Fields, s' \in Fields, Decide
    PROVE  Serves(s, s') \/ Finishes(s, s')
  <1>1. PICK d \in Fields : d = Decided /\ Serves(s, d)
    BY DecidedTyped, DecidedServes
  <1>2. CASE ReplayToolAction
    <2>1. PICK m : m = [d EXCEPT !.toolActions = Tail(d.toolActions)]
      OBVIOUS
    <2>2. PICK actions \in Seq(QueuedAction) : actions = d.toolActions /\ actions # <<>>
      BY <1>1, <1>2 DEF ReplayToolAction, Fields, Actions
    <2>3. Tail(actions) \in Actions /\ Head(actions) \in QueuedAction
      BY <2>2, HeadTailProperties DEF Actions
    <2>4. m \in Fields
      BY <2>1, <2>2, <2>3, Zenon DEF Fields
    <2>5. /\ m.responses = d.responses /\ m.shutdown = d.shutdown /\ m.toolActions = Tail(actions)
          /\ m.cron = d.cron /\ m.timer = d.timer /\ m.heldCron = d.heldCron
          /\ m.result = d.result /\ m.pc = d.pc /\ m.stash = d.stash /\ m.fifo = d.fifo
      BY <2>1, <2>2 DEF Fields
    <2>6. ASSUME \A i \in 1 .. Len(actions) : actions[i] # "cron_cancel"
          PROVE  \A i \in 1 .. Len(Tail(actions)) : Tail(actions)[i] # "cron_cancel"
      <3>1. /\ Len(Tail(actions)) = Len(actions) - 1 /\ Len(actions) \in Nat
            /\ \A i \in 1 .. Len(actions) - 1 : Tail(actions)[i] = actions[i + 1]
        BY <2>2
      <3>2. QED
        BY <2>6, <3>1
    <2>7. Serves(d, m)
      BY <2>2, <2>5, <2>6 DEF Serves, Scheduled, CronTrace, SameShutdown
    <2>8. HandleTurnResult(m, Head(actions)) /\ Head(actions) # "missing"
      BY <1>1, <1>2, <2>1, <2>2, <2>3 DEF ReplayToolAction, QueuedAction
    <2>9. Serves(m, s')
      BY <2>4, <2>8, ResultServes
    <2>10. QED
      BY <1>1, <2>7, <2>9, ServesTwice
  <1>3. CASE TakePendingPrompt
    <2>1. PICK m \in Fields : m = [d EXCEPT !.pendingPrompt = {}]
      <3>1. {} \in Texts
        BY Blank
      <3>2. [d EXCEPT !.pendingPrompt = {}] \in Fields
        BY <3>1, Zenon DEF Fields
      <3>3. QED
        BY <3>2
    <2>2. Steady(d, m) /\ m.stash = d.stash /\ m.fifo = d.fifo
      BY <2>1 DEF Fields, Steady, CronTrace
    <2>3. StartTurn(m, s.pendingPrompt)
      BY <1>1, <1>3, <2>1 DEF TakePendingPrompt
    <2>4. QED
      BY <1>1, <2>2, <2>3, StartServes, SteadyServes, ServesTwice
  <1>4. ASSUME NEW item, Popping(item)
        PROVE  \E m \in Fields : m = Popped /\ Serves(s, m) /\ m.shutdown = s.shutdown
    BY <1>4, PoppedServes
  <1>5. ASSUME NEW item, Popping(item), NEW parts, StartTurn(Popped, parts) PROVE Serves(s, s')
    BY <1>4, <1>5, StartServes, ServesTwice
  <1>6. CASE ProcessPrompt \/ ProcessWaitTimer
    BY <1>5, <1>6 DEF ProcessPrompt, ProcessWaitTimer, Fired
  <1>7. CASE ProcessAnswer
    <2>1. PICK m \in Fields : m = Popped /\ Serves(s, m)
      BY <1>4, <1>7 DEF ProcessAnswer
    <2>2. PICK n \in Fields : n = [m EXCEPT !.question = FALSE]
      <3>1. [m EXCEPT !.question = FALSE] \in Fields
        BY Blank, Zenon DEF Fields
      <3>2. QED
        BY <3>1
    <2>3. Steady(m, n) /\ n.stash = m.stash /\ n.fifo = m.fifo
      BY <2>2 DEF Fields, Steady, CronTrace
    <2>4. StartTurn(n, {"answer"})
      BY <1>7, <2>1, <2>2 DEF ProcessAnswer
    <2>5. QED
      BY <2>1, <2>3, <2>4, StartServes, SteadyServes, ServesTwice
  <1>8. CASE ProcessCronTimer
    <2>1. PICK m \in Fields :
            /\ m = Popped /\ Serves(s, m) /\ (OnlyShutdownEnds /\ Scheduled(s) => m.cron)
      BY <1>8, PoppedServes DEF ProcessCronTimer, Fired, CronItem
    <2>2. CASE m.cron
      BY <1>5, <1>8, <2>1, <2>2 DEF ProcessCronTimer, Fired
    <2>3. CASE ~m.cron
      <3>1. s' = [m EXCEPT !.pc = "ended", !.turn = {}, !.status = m.status, !.result = "crashed"]
        BY <1>8, <2>1, <2>3 DEF ProcessCronTimer, Crash
      <3>2. s'.responses = m.responses /\ s'.shutdown = m.shutdown
        BY <3>1 DEF Fields
      <3>3. QED
        BY <2>1, <2>3, <3>2 DEF Serves, SameShutdown
    <2>4. QED
      BY <2>2, <2>3
  <1>9. CASE ProcessIdleTimer \/ ProcessGraceTimer \/ ProcessStalePoll
    <2>1. PICK m \in Fields : m = Popped /\ Serves(s, m)
      BY <1>4, <1>9 DEF ProcessIdleTimer, ProcessGraceTimer, ProcessStalePoll, Fired
    <2>2. PICK n \in Fields : n = NextIteration(m) /\ Serves(m, n)
      BY NextIterationTyped, HelpersServe
    <2>3. s' \in Dehydrations(n) \/ s' = n
      BY <1>9, <2>1, <2>2 DEF ProcessIdleTimer, ProcessGraceTimer, ProcessStalePoll
    <2>4. QED
      BY <2>1, <2>2, <2>3, HelpersServe, ServesTwice
  <1>10. ASSUME NEW item, Popping(item)
         PROVE  \E q \in Fields : q = Polled(Popped) /\ Serves(s, q) /\ q.shutdown = s.shutdown
    <2>1. PICK m \in Fields : m = Popped /\ Serves(s, m) /\ m.shutdown = s.shutdown
      BY <1>4, <1>10
    <2>2. PICK q \in Fields : q = Polled(m) /\ Serves(m, q) /\ q.shutdown = m.shutdown
      BY PolledTyped, PolledShutdown, HelpersServe DEF TypeOK
    <2>3. QED
      BY <2>1, <2>2, ServesTwice
  <1>11. CASE ProcessPollResolved
    <2>1. PICK q \in Fields : q = Polled(Popped) /\ Serves(s, q)
      BY <1>10, <1>11 DEF ProcessPollResolved, Fired
    <2>2. PICK m \in Fields : m = ResolveAgentWait(q) /\ (Serves(q, m) \/ Finishes(q, m))
      BY ResolveTyped, ResolveServes
    <2>3. s' = NextIteration(m) \/ (s' = [m EXCEPT !.pc = "ended"] /\ m.result # "none")
      BY <1>11, <2>1, <2>2 DEF ProcessPollResolved
    <2>4. Serves(m, s')
      <3>1. CASE s' = NextIteration(m)
        BY <3>1, HelpersServe
      <3>2. CASE s' = [m EXCEPT !.pc = "ended"] /\ m.result # "none"
        <4>1. /\ s'.responses = m.responses /\ s'.shutdown = m.shutdown
              /\ s'.toolActions = m.toolActions /\ s'.cron = m.cron /\ s'.timer = m.timer
              /\ s'.heldCron = m.heldCron /\ s'.result = m.result /\ s'.stash = m.stash
              /\ s'.fifo = m.fifo
          BY <3>2 DEF Fields
        <4>2. QED
          BY <3>2, <4>1 DEF Serves, Scheduled, CronTrace, SameShutdown
      <3>3. QED
        BY <2>3, <3>1, <3>2
    <2>5. QED
      BY <2>1, <2>2, <2>4, ServesTwice, AnswersServed
  <1>12. CASE ProcessPollAgain
    <2>1. PICK q \in Fields : q = Polled(Popped) /\ Serves(s, q)
      BY <1>10, <1>12 DEF ProcessPollAgain, Fired
    <2>2. PICK n \in Fields : n = NextIteration(q) /\ Serves(q, n)
      BY NextIterationTyped, HelpersServe
    <2>3. s' = [n EXCEPT !.timer = "agent-poll"]
      BY <1>12, <2>1, <2>2 DEF ProcessPollAgain
    <2>4. Steady(n, s') /\ s'.stash = n.stash /\ s'.fifo = n.fifo
      BY <2>3 DEF Fields, Steady, CronTrace
    <2>5. QED
      BY <2>1, <2>2, <2>4, SteadyServes, ServesTwice
  <1>13. CASE ProcessDigest
    <2>1. PICK m \in Interruptions(d) : StartTurn([m EXCEPT !.digest = "none"], {"system"})
      BY <1>1, <1>13 DEF ProcessDigest
    <2>2. m \in Fields /\ Serves(d, m)
      BY InterruptionsTyped, HelpersServe
    <2>3. PICK n \in Fields : n = [m EXCEPT !.digest = "none"]
      <3>1. "none" \in Digest
        BY Literals
      <3>2. [m EXCEPT !.digest = "none"] \in Fields
        BY <2>2, <3>1, Zenon DEF Fields
      <3>3. QED
        BY <3>2
    <2>4. Steady(m, n) /\ n.stash = m.stash /\ n.fifo = m.fifo
      BY <2>2, <2>3 DEF Fields, Steady, CronTrace
    <2>5. Serves(n, s')
      BY <2>1, <2>3, StartServes
    <2>6. QED
      BY <1>1, <2>2, <2>4, <2>5, SteadyServes, ServesTwice
  <1>14. CASE DecideNothing
    <2>1. s' = NextIteration(d) \/ s' = ContinueAsNew(d)
      BY <1>1, <1>14 DEF DecideNothing
    <2>2. QED
      BY <1>1, <2>1, HelpersServe, ServesTwice
  <1>15. CASE ProcessShutdownPoll
    <2>1. PICK q \in Fields : q = Polled(Popped) /\ Serves(s, q) /\ q.shutdown # NoShutdown
      BY <1>10, <1>15 DEF ProcessShutdownPoll, Fired
    <2>2. PICK n \in Fields : n = NextIteration(q) /\ Serves(q, n) /\ n.shutdown # NoShutdown
      BY <2>1, NextIterationTyped, NextIterationShutdown, HelpersServe
    <2>3. PICK age :
            \/ s' = failPendingShutdown(q)
            \/ s' = [n EXCEPT !.shutdown.age = age, !.timer = "agent-poll", !.status = "waiting"]
      BY <1>15, <2>1, <2>2 DEF ProcessShutdownPoll
    <2>4. CASE s' = failPendingShutdown(q)
      BY <2>1, <2>4, FailureFinishes, AnswersServed
    <2>5. CASE s' = [n EXCEPT !.shutdown.age = age, !.timer = "agent-poll", !.status = "waiting"]
      <3>1. PICK shutdown : /\ shutdown = [n.shutdown EXCEPT !.age = age]
                            /\ shutdown # NoShutdown /\ shutdown.cmd = n.shutdown.cmd
        <4>1. PICK mode, c, old : n.shutdown = [mode |-> mode, cmd |-> c, age |-> old]
          BY <2>2, ShutdownParts
        <4>2. PICK shutdown : shutdown = [mode |-> mode, cmd |-> c, age |-> age]
          OBVIOUS
        <4>3. shutdown = [n.shutdown EXCEPT !.age = age]
          BY <4>1, <4>2
        <4>4. shutdown # NoShutdown
          <5>1. "cmd" \in DOMAIN shutdown /\ "cmd" \notin DOMAIN NoShutdown
            BY <4>2 DEF NoShutdown
          <5>2. QED
            BY <5>1
        <4>5. QED
          BY <4>1, <4>2, <4>3, <4>4
      <3>2. s' = [n EXCEPT !.shutdown = shutdown, !.timer = "agent-poll", !.status = "waiting"]
        BY <2>5, <3>1
      <3>3. /\ s'.responses = n.responses /\ s'.shutdown = shutdown
            /\ s'.toolActions = n.toolActions /\ s'.cron = n.cron /\ s'.timer = "agent-poll"
            /\ s'.heldCron = n.heldCron /\ s'.result = n.result /\ s'.stash = n.stash
            /\ s'.fifo = n.fifo /\ s'.pc = n.pc
        BY <3>2 DEF Fields
      <3>4. Serves(n, s')
        BY <2>2, <3>1, <3>3 DEF Serves, SameShutdown, Scheduled, CronTrace
      <3>5. QED
        BY <2>1, <2>2, <3>4, ServesTwice
    <2>6. QED
      BY <2>3, <2>4, <2>5
  <1>16. QED
    BY <1>2, <1>3, <1>6, <1>7, <1>8, <1>9, <1>11, <1>12, <1>13, <1>14, <1>15 DEF Decide

CmdMessage(c) == [kind |-> "cmd", cmd |-> c]

(* The next message, if it is not a command, or the command c.             *)
TakesOther == messages # <<>> /\ Head(messages).kind # "cmd" /\ messages' = Tail(messages) /\ sent' = sent
TakesCommand(c) ==
    messages # <<>> /\ Head(messages) = CmdMessage(c) /\ messages' = Tail(messages) /\ sent' = sent

LEMMA AfterCommandServes ==
    ASSUME NEW m \in Fields, NEW status, NEW n, n = [m EXCEPT !.status = status],
           s' \in {n, AfterCommand(n)}
    PROVE  Serves(m, s')
  <1>1. /\ n.responses = m.responses /\ n.shutdown = m.shutdown /\ n.toolActions = m.toolActions
        /\ n.cron = m.cron /\ n.timer = m.timer /\ n.heldCron = m.heldCron
        /\ n.result = m.result /\ n.stash = m.stash /\ n.fifo = m.fifo /\ n.pc = m.pc
        /\ DOMAIN n = DOMAIN m
    BY DEF Fields
  <1>2. s' = n \/ (s' = [n EXCEPT !.pc = "ended"] /\ n.result # "none")
    BY DEF AfterCommand
  <1>3. /\ s'.responses = n.responses /\ s'.shutdown = n.shutdown /\ s'.toolActions = n.toolActions
        /\ s'.cron = n.cron /\ s'.timer = n.timer /\ s'.heldCron = n.heldCron
        /\ s'.result = n.result /\ s'.stash = n.stash /\ s'.fifo = n.fifo
        /\ (s'.pc = n.pc \/ n.result # "none")
    <2>1. CASE s' = n
      BY <2>1
    <2>2. CASE s' = [n EXCEPT !.pc = "ended"] /\ n.result # "none"
      BY <1>1, <2>2 DEF Fields
    <2>3. QED
      BY <1>2, <2>1, <2>2
  <1>4. QED
    BY <1>1, <1>3 DEF Serves, SameShutdown, Scheduled, CronTrace

LEMMA DequeueServes ==
    ASSUME TypeOK, Awake, s \in Fields, s' \in Fields, Dequeue
    PROVE  \/ TakesOther /\ (Serves(s, s') \/ Finishes(s, s'))
           \/ \E c \in Command : TakesCommand(c) /\ (Answers(s, s', c) \/ Begins(s, s', c))
  <1>1. ASSUME NEW x, Take(x)
        PROVE  /\ \E d \in Fields : d = Dequeued /\ Serves(s, d)
               /\ messages # <<>> /\ Head(messages) = x /\ messages' = Tail(messages) /\ sent' = sent
    <2>1. Dequeued \in Fields
      BY <1>1, TakeTyped
    <2>2. PICK d \in Fields : d = Dequeued /\ d.pc = "drain"
      BY <2>1 DEF Dequeued, Fields
    <2>3. /\ d.responses = s.responses /\ d.shutdown = s.shutdown /\ d.toolActions = s.toolActions
          /\ d.cron = s.cron /\ d.timer = s.timer /\ d.heldCron = s.heldCron
          /\ d.result = s.result /\ d.stash = s.stash /\ d.fifo = s.fifo
      BY <2>2 DEF Dequeued, Fields
    <2>4. Serves(s, d)
      BY <2>2, <2>3 DEF Serves, SameShutdown, Scheduled, CronTrace
    <2>5. messages # <<>> /\ Head(messages) = x /\ messages' = Tail(messages) /\ sent' = sent
      BY <1>1 DEF Take, MayDequeue
    <2>6. QED
      BY <2>2, <2>4, <2>5
  <1>2. ASSUME NEW m \in Fields, NEW y \in Item, y.kind # "timer", NEW n,
               n.stash = Append(m.stash, y), n.fifo = m.fifo, Steady(m, n)
        PROVE  Serves(m, n)
    <2>1. y # CronItem
      BY <1>2 DEF CronItem
    <2>2. Within(n.stash, CronItem) <=> Within(m.stash, CronItem)
      BY <1>2, <2>1, WithinAppend DEF Fields, Items
    <2>3. QED
      BY <1>2, <2>2 DEF Steady, Serves, SameShutdown, Scheduled
  <1>3. ASSUME NEW p \in Prompt, RoutePrompt(p) PROVE TakesOther /\ Serves(s, s')
    <2>1. Take([kind |-> "prompt", prompt |-> p]) /\ [kind |-> "prompt", prompt |-> p].kind # "cmd"
      BY <1>3 DEF RoutePrompt
    <2>2. PICK d \in Fields : d = Dequeued /\ Serves(s, d)
      BY <1>1, <2>1
    <2>3. PICK y \in Item : y = PromptItem(p) /\ y.kind # "timer"
      BY ItemKinds DEF PromptItem
    <2>4. PICK m \in Interruptions(d) :
            s' = [m EXCEPT !.digest = "none", !.stash = Append(m.stash, y)]
      BY <1>3, <2>2, <2>3 DEF RoutePrompt, PromptItem
    <2>5. m \in Fields /\ Serves(d, m)
      BY InterruptionsTyped, HelpersServe
    <2>6. Steady(m, s') /\ s'.stash = Append(m.stash, y) /\ s'.fifo = m.fifo
      BY <2>4, <2>5 DEF Fields, Steady, CronTrace
    <2>7. Serves(s, s')
      BY <1>2, <2>2, <2>3, <2>5, <2>6, ServesTwice
    <2>8. QED
      BY <1>1, <2>1, <2>7 DEF TakesOther
  <1>4. CASE RouteAnswer
    <2>1. Take([kind |-> "answer"]) /\ [kind |-> "answer"].kind # "cmd"
      BY <1>4 DEF RouteAnswer
    <2>2. PICK d \in Fields : d = Dequeued /\ Serves(s, d)
      BY <1>1, <2>1
    <2>3. PICK y \in Item : y = [kind |-> "answer"] /\ y.kind # "timer"
      BY ItemKinds
    <2>4. s' = [d EXCEPT !.stash = Append(d.stash, y)]
      BY <1>4, <2>2, <2>3 DEF RouteAnswer
    <2>5. Steady(d, s') /\ s'.stash = Append(d.stash, y) /\ s'.fifo = d.fifo
      BY <2>4 DEF Fields, Steady, CronTrace
    <2>6. Serves(s, s')
      BY <1>2, <2>2, <2>3, <2>5, ServesTwice
    <2>7. QED
      BY <1>1, <2>1, <2>6 DEF TakesOther
  <1>5. ASSUME NEW c \in Child, NEW kind \in {"completed", "cancelled", "wait"},
               RouteChildUpdate(c, kind)
        PROVE  TakesOther /\ (Serves(s, s') \/ Finishes(s, s'))
    <2>1. Take(Update(c, kind)) /\ Update(c, kind).kind # "cmd"
      BY <1>5 DEF RouteChildUpdate, Update
    <2>2. PICK d \in Fields : d = Dequeued /\ Serves(s, d)
      BY <1>1, <2>1
    <2>3. PICK e \in Fields : e = [d EXCEPT !.seen = d.seen \union {<<c, kind>>}]
      <3>1. d.seen \union {<<c, kind>>} \in Seen
        BY DEF Fields, Seen
      <3>2. [d EXCEPT !.seen = d.seen \union {<<c, kind>>}] \in Fields
        BY <3>1, Zenon DEF Fields
      <3>3. QED
        BY <3>2
    <2>4. Steady(d, e) /\ e.stash = d.stash /\ e.fifo = d.fifo
      BY <2>3 DEF Fields, Steady, CronTrace
    <2>5. PICK f \in Fields : f = ApplyChildUpdate(e, c, kind)
      BY ChildUpdateTyped DEF TypeOK
    <2>6. Steady(e, f) /\ f.stash = e.stash /\ f.fifo = e.fifo
      BY <2>5 DEF ApplyChildUpdate, Fields, Steady, CronTrace
    <2>7. PICK g \in Fields : g = BufferChildUpdate(f)
      BY BufferTyped
    <2>8. Steady(f, g) /\ g.stash = f.stash /\ g.fifo = f.fifo
      BY <2>7 DEF BufferChildUpdate, Fields, Steady, CronTrace
    <2>9. PICK h \in Fields : h = ResolveAgentWait(g) /\ (Serves(g, h) \/ Finishes(g, h))
      BY ResolveTyped, ResolveServes
    <2>10. s' = h \/ s' = d
      BY <1>5, <2>2, <2>3, <2>5, <2>7, <2>9 DEF RouteChildUpdate
    <2>11. Serves(s, g)
      BY <2>2, <2>4, <2>6, <2>8, SteadyServes, ServesTwice
    <2>12. Serves(s, s') \/ Finishes(s, s')
      BY <2>2, <2>9, <2>10, <2>11, ServesTwice, AnswersServed
    <2>13. QED
      BY <1>1, <2>1, <2>12 DEF TakesOther
  <1>6. ASSUME NEW c \in Command, Take(CmdMessage(c))
        PROVE  TakesCommand(c) /\ \E f \in Fields : f = FlushStash(Dequeued) /\ Serves(s, f)
    <2>1. PICK d \in Fields : d = Dequeued /\ Serves(s, d)
      BY <1>1, <1>6
    <2>2. FlushStash(d) \in Fields /\ Serves(d, FlushStash(d))
      BY FlushTyped, FlushServes
    <2>3. QED
      BY <1>1, <1>6, <2>1, <2>2, ServesTwice DEF TakesCommand
  <1>7. ASSUME NEW c \in Command, RouteQuery(c) \/ RouteSecondShutdown(c)
        PROVE  TakesCommand(c) /\ Answers(s, s', c)
    <2>1. Take(CmdMessage(c))
      BY <1>7 DEF RouteQuery, RouteSecondShutdown, CmdMessage
    <2>2. PICK f \in Fields : f = FlushStash(Dequeued) /\ Serves(s, f)
      BY <1>6, <2>1
    <2>3. PICK r \in Fields : r = Respond(f, c) /\ Answers(f, r, c)
      BY RespondTyped, RespondAnswers
    <2>4. PICK n : (\E status : n = [r EXCEPT !.status = status]) /\ s' \in {n, AfterCommand(n)}
      BY <1>7, <2>2, <2>3 DEF RouteQuery, RouteSecondShutdown
    <2>5. Serves(r, s')
      BY <2>4, AfterCommandServes
    <2>6. QED
      BY <1>6, <2>1, <2>2, <2>3, <2>5, AnswersServed
  <1>8. ASSUME NEW c \in Command, RouteSetModel(c) PROVE TakesCommand(c) /\ Answers(s, s', c)
    <2>1. Take(CmdMessage(c))
      BY <1>8 DEF RouteSetModel, CmdMessage
    <2>2. PICK f \in Fields : f = FlushStash(Dequeued) /\ Serves(s, f)
      BY <1>6, <2>1
    <2>3. PICK r \in Fields : r = Respond(f, c) /\ Answers(f, r, c)
      BY RespondTyped, RespondAnswers
    <2>4. PICK n \in Fields : n = ContinueAsNew(r) /\ Serves(r, n)
      BY ContinueAsNewTyped, HelpersServe
    <2>5. s' = [n EXCEPT !.status = "idle"]
      BY <1>8, <2>2, <2>3, <2>4 DEF RouteSetModel
    <2>6. Serves(n, s')
      BY <2>5, AfterCommandServes
    <2>7. QED
      BY <1>6, <2>1, <2>2, <2>3, <2>4, <2>6, ServesTwice, AnswersServed
  <1>9. ASSUME NEW c \in Command, RouteShutdownNow(c) PROVE TakesCommand(c) /\ Answers(s, s', c)
    <2>1. Take(CmdMessage(c)) /\ cmdOf[c] \in Signal /\ s.shutdown = NoShutdown
      BY <1>9 DEF RouteShutdownNow, Signal, CmdMessage
    <2>2. PICK f \in Fields : f = FlushStash(Dequeued) /\ Serves(s, f)
      BY <1>6, <2>1
    <2>3. PICK m \in Refreshes(f) : s' = [FinishShutdown(m, cmdOf[c], c) EXCEPT !.pc = "ended"]
      BY <1>9, <2>2 DEF RouteShutdownNow
    <2>4. m \in Fields /\ Serves(f, m)
      BY <2>2, RefreshesTyped, HelpersServe DEF TypeOK
    <2>5. Serves(s, m)
      BY <2>2, <2>4, ServesTwice
    <2>6. PICK n \in Fields : n = FinishShutdown(m, cmdOf[c], c)
      BY <2>1, <2>4, FinishTyped
    <2>7. /\ n.responses = [m.responses EXCEPT ![c] = m.responses[c] + 1]
          /\ n.shutdown = NoShutdown /\ (OnlyShutdownEnds /\ Scheduled(m) => Scheduled(n))
      BY <2>4, <2>6, FinishAnswers
    <2>8. /\ s'.responses = n.responses /\ s'.shutdown = n.shutdown
          /\ s'.toolActions = n.toolActions /\ s'.cron = n.cron /\ s'.timer = n.timer
          /\ s'.heldCron = n.heldCron /\ s'.stash = n.stash /\ s'.fifo = n.fifo
      BY <2>3, <2>6 DEF Fields
    <2>9. m.shutdown = NoShutdown
      BY <2>1, <2>5 DEF Serves, SameShutdown
    <2>10. Answers(m, s', c)
      BY <2>1, <2>7, <2>8, <2>9 DEF Answers, SameShutdown, Scheduled, CronTrace
    <2>11. QED
      BY <1>6, <2>1, <2>5, <2>10, AnswersServed
  <1>10. ASSUME NEW c \in Command, RouteShutdownCascade(c) PROVE TakesCommand(c) /\ Begins(s, s', c)
    <2>1. Take(CmdMessage(c)) /\ cmdOf[c] \in Signal /\ s.shutdown = NoShutdown
      BY <1>10 DEF RouteShutdownCascade, Signal, CmdMessage
    <2>2. PICK f \in Fields : f = FlushStash(Dequeued) /\ Serves(s, f)
      BY <1>6, <2>1
    <2>3. PICK shutdown : shutdown = [mode |-> cmdOf[c], cmd |-> c, age |-> 0]
      OBVIOUS
    <2>4. PICK m \in Refreshes(f) :
            /\ Live(m, Child) # {}
            /\ s' = AfterCommand([m EXCEPT !.shutdown = shutdown, !.awaited = Live(m, Child),
                                           !.digest = "none", !.timer = "agent-poll",
                                           !.status = "waiting"])
      BY <1>10, <2>2, <2>3 DEF RouteShutdownCascade
    <2>5. PICK n : /\ n = [m EXCEPT !.shutdown = shutdown, !.awaited = Live(m, Child),
                                    !.digest = "none", !.timer = "agent-poll", !.status = "waiting"]
                   /\ s' = AfterCommand(n)
      BY <2>4
    <2>6. m \in Fields /\ Serves(f, m)
      BY <2>2, RefreshesTyped, HelpersServe DEF TypeOK
    <2>7. Serves(s, m)
      BY <2>2, <2>6, ServesTwice
    <2>8. shutdown # NoShutdown /\ shutdown.cmd = c
      <3>1. "cmd" \in DOMAIN shutdown /\ "cmd" \notin DOMAIN NoShutdown
        BY <2>3 DEF NoShutdown
      <3>2. QED
        BY <2>3, <3>1
    <2>9. /\ n.responses = m.responses /\ n.shutdown = shutdown /\ n.toolActions = m.toolActions
          /\ n.cron = m.cron /\ n.timer = "agent-poll" /\ n.heldCron = m.heldCron
          /\ n.result = m.result /\ n.stash = m.stash /\ n.fifo = m.fifo /\ n.pc = m.pc
          /\ DOMAIN n = DOMAIN m
      BY <2>5, <2>6 DEF Fields
    <2>10. s' = n \/ (s' = [n EXCEPT !.pc = "ended"] /\ n.result # "none")
      BY <2>5 DEF AfterCommand
    <2>11. /\ s'.responses = n.responses /\ s'.shutdown = n.shutdown
           /\ s'.toolActions = n.toolActions /\ s'.cron = n.cron /\ s'.timer = n.timer
           /\ s'.heldCron = n.heldCron /\ s'.result = n.result /\ s'.stash = n.stash
           /\ s'.fifo = n.fifo /\ (s'.pc = n.pc \/ n.result # "none")
      BY <2>6, <2>9, <2>10 DEF Fields
    <2>12. m.shutdown = NoShutdown
      BY <2>1, <2>7 DEF Serves, SameShutdown
    <2>13. Child # {}
      BY <2>4 DEF Live
    <2>14. Begins(m, s', c)
      BY <2>1, <2>8, <2>9, <2>11, <2>12, <2>13 DEF Begins, Scheduled, CronTrace
    <2>15. QED
      BY <1>6, <2>1, <2>7, <2>14, AnswersServed
  <1>11. QED
    BY <1>3, <1>4, <1>5, <1>7, <1>8, <1>9, <1>10 DEF Dequeue

(* What a step does to the queue, as far as commands go.                   *)
Mails ==
    /\ sent' \intersect Command = sent \intersect Command
    /\ \/ messages' = messages
       \/ messages # <<>> /\ Head(messages).kind # "cmd" /\ messages' = Tail(messages)
       \/ \E x \in Message : x.kind # "cmd" /\ messages' = Append(messages, x)

Asks(c) ==
    /\ c \notin sent /\ sent' = sent \union {c}
    /\ messages' = Append(messages, CmdMessage(c)) /\ s' = s

LEMMA CmdKinds ==
    ASSUME NEW c \in Command
    PROVE  /\ CmdMessage(c) \in Message /\ CmdMessage(c).kind = "cmd"
           /\ \A d \in Command : CmdMessage(d) = CmdMessage(c) => d = c
  <1>1. CmdMessage(c) \in Message /\ CmdMessage(c).kind = "cmd"
    BY DEF CmdMessage, Message
  <1>2. ASSUME NEW d \in Command, CmdMessage(d) = CmdMessage(c) PROVE d = c
    <2>1. CmdMessage(d).cmd = CmdMessage(c).cmd
      BY <1>2
    <2>2. QED
      BY <2>1 DEF CmdMessage
  <1>3. QED
    BY <1>1, <1>2

LEMMA EnvironmentMails ==
    ASSUME TypeOK, s \in Fields, Environment
    PROVE  (Mails /\ Serves(s, s')) \/ \E c \in Command : Asks(c)
  <1>1. ASSUME s' = s \/ s' = [s EXCEPT !.surprises = s.surprises + 1] PROVE Serves(s, s')
    <2>1. Steady(s, s') /\ s'.stash = s.stash /\ s'.fifo = s.fifo
      BY <1>1 DEF Fields, Steady, CronTrace
    <2>2. QED
      BY <2>1, SteadyServes
  <1>2. ASSUME NEW p \in Prompt, UserSends(p) PROVE Mails /\ s' = s
    <2>1. [kind |-> "prompt", prompt |-> p] \in Message /\ [kind |-> "prompt", prompt |-> p].kind # "cmd"
      BY DEF Message
    <2>2. p \notin Command
      BY PromptAssumption
    <2>3. sent' \intersect Command = sent \intersect Command
      BY <1>2, <2>2 DEF UserSends
    <2>4. QED
      BY <1>2, <2>1, <2>3 DEF UserSends, Enqueue, Mails
  <1>3. CASE UserAnswers
    <2>1. [kind |-> "answer"] \in Message /\ [kind |-> "answer"].kind # "cmd"
      BY DEF Message
    <2>2. Mails /\ s' = s
      BY <1>3, <2>1 DEF UserAnswers, Enqueue, Mails
    <2>3. QED
      BY <1>1, <2>2
  <1>4. ASSUME NEW c \in Command, ClientCommands(c) PROVE Asks(c)
    BY <1>4 DEF ClientCommands, Asks, Enqueue, CmdMessage
  <1>5. CASE ChildStep
    <2>1. PICK c \in Child :
            \/ ChildCompletes(c) \/ ChildEnds(c) \/ ChildWaits(c) \/ ChildResumes(c)
            \/ ChildFails(c) \/ ChildObeys(c) \/ SpawnInTurn(c) \/ DeleteInTurn(c)
            \/ \E cmd \in Signal : SignalInTurn(c, cmd)
      BY <1>5 DEF ChildStep
    <2>2. \A kind \in {"completed", "cancelled", "wait"} :
            Update(c, kind) \in Message /\ Update(c, kind).kind # "cmd"
      BY DEF Update, Message
    <2>3. CASE ChildCompletes(c) \/ ChildWaits(c) \/ ChildObeys(c)
      <3>1. \E kind \in {"completed", "cancelled", "wait"} : Enqueue(Update(c, kind))
        BY <2>3 DEF ChildCompletes, ChildWaits, ChildObeys
      <3>2. sent' = sent /\ s' = s
        BY <2>3 DEF ChildCompletes, ChildWaits, ChildObeys
      <3>3. QED
        BY <1>1, <2>2, <3>1, <3>2 DEF Enqueue, Mails
    <2>4. CASE ChildEnds(c) \/ ChildResumes(c) \/ ChildFails(c)
      BY <1>1, <2>4 DEF ChildEnds, ChildResumes, ChildFails, Mails
    <2>5. CASE ToolCalled
      BY <1>1, <2>5 DEF ToolCalled, Mails
    <2>6. QED
      BY <2>1, <2>3, <2>4, <2>5 DEF SpawnInTurn, DeleteInTurn, SignalInTurn
  <1>6. QED
    BY <1>1, <1>2, <1>3, <1>4, <1>5 DEF Environment

LEMMA NextServes ==
    ASSUME TypeOK, Awake, s \in Fields, s' \in Fields, [Next]_vars
    PROVE  \/ Mails /\ (Serves(s, s') \/ Finishes(s, s'))
           \/ \E c \in Command : TakesCommand(c) /\ (Answers(s, s', c) \/ Begins(s, s', c))
           \/ \E c \in Command : Asks(c)
  <1>1. ASSUME messages' = messages, sent' = sent PROVE Mails
    BY <1>1 DEF Mails
  <1>2. CASE IterationCap \/ HistoryCap \/ StartDrain \/ TimerFires \/ DigestDue \/ Park \/ EndDrain
    <2>1. messages' = messages /\ sent' = sent
      BY <1>2, StepTyped
    <2>2. QED
      BY <1>1, <1>2, <2>1, DrainServes
  <1>3. CASE Dequeue
    <2>1. TakesOther => Mails
      BY DEF TakesOther, Mails
    <2>2. QED
      BY <1>3, <2>1, DequeueServes
  <1>4. CASE Decide
    <2>1. messages' = messages /\ sent' = sent
      BY <1>4 DEF Decide, ReplayToolAction, TakePendingPrompt, ProcessPrompt, ProcessAnswer,
                  ProcessWaitTimer, ProcessCronTimer, ProcessIdleTimer, ProcessGraceTimer,
                  ProcessStalePoll, ProcessPollResolved, ProcessPollAgain, ProcessShutdownPoll,
                  ProcessDigest, DecideNothing, Popping, Fired, NothingPopped
    <2>2. QED
      BY <1>1, <1>4, <2>1, DecideServes
  <1>5. CASE Turn
    <2>1. messages' = messages /\ sent' = sent
      BY <1>5 DEF Turn, TurnReturns, TurnLosesState, TurnLosesConnection, TurnFails, Failing
    <2>2. QED
      BY <1>1, <1>5, <2>1, TurnServes
  <1>6. CASE Environment
    BY <1>6, EnvironmentMails
  <1>7. CASE UNCHANGED vars
    <2>1. messages' = messages /\ sent' = sent /\ s' = s
      BY <1>7 DEF vars
    <2>2. Steady(s, s') /\ s'.stash = s.stash /\ s'.fifo = s.fifo
      BY <2>1 DEF Steady, CronTrace
    <2>3. QED
      BY <1>1, <2>1, <2>2, SteadyServes
  <1>8. QED
    BY <1>2, <1>3, <1>4, <1>5, <1>6, <1>7 DEF Next, Loop

(* The ledger of a command: it is in the queue at most once; until it is   *)
(* taken it has no response; then it has one, unless its shutdown is in    *)
(* progress.                                                               *)
Asked(c) == Within(messages, CmdMessage(c))
Underway(c) == s.shutdown # NoShutdown /\ s.shutdown.cmd = c

Ledger(c) ==
    /\ Once(messages, CmdMessage(c))
    /\ c \notin sent => ~Asked(c)
    /\ c \notin sent \/ Asked(c) => s.responses[c] = 0 /\ ~Underway(c)
    /\ c \in sent /\ ~Asked(c) => s.responses[c] = (IF Underway(c) THEN 0 ELSE 1)

(* A shutdown in progress belongs to a command that asked for it.          *)
ShutdownOwned ==
    s.shutdown # NoShutdown =>
      Child # {} /\ s.shutdown.cmd \in Command /\ cmdOf[s.shutdown.cmd] \in Signal

(* A session that commands alone end has answered one when it has ended.   *)
EndAnswered ==
    OnlyShutdownEnds =>
      /\ Scheduled(s)
      /\ s.result # "none" \/ s.pc = "ended" =>
           \E d \in Command : cmdOf[d] \in Signal /\ s.responses[d] # 0

Booked == ShutdownOwned /\ EndAnswered /\ \A c \in Command : Ledger(c)

LEMMA MailKeeps ==
    ASSUME TypeOK, NEW c \in Command, Mails
    PROVE  /\ Asked(c)' <=> Asked(c)
           /\ Once(messages, CmdMessage(c)) => Once(messages', CmdMessage(c))
           /\ c \in sent' <=> c \in sent
  <1>1. messages \in Seq(Message)
    BY DEF TypeOK
  <1>2. PICK x : x = CmdMessage(c) /\ x.kind = "cmd"
    BY CmdKinds
  <1>3. SUFFICES (Within(messages', x) <=> Within(messages, x))
                 /\ (Once(messages, x) => Once(messages', x))
    BY <1>2 DEF Asked, Mails
  <1>4. CASE messages' = messages
    BY <1>4
  <1>5. CASE messages # <<>> /\ Head(messages).kind # "cmd" /\ messages' = Tail(messages)
    <2>1. Head(messages) # x
      BY <1>2, <1>5
    <2>2. QED
      BY <1>1, <1>5, <2>1, WithinTail
  <1>6. CASE \E y \in Message : y.kind # "cmd" /\ messages' = Append(messages, y)
    <2>1. PICK y \in Message : y # x /\ messages' = Append(messages, y)
      BY <1>2, <1>6
    <2>2. QED
      BY <1>1, <2>1, WithinAppend
  <1>7. QED
    BY <1>4, <1>5, <1>6 DEF Mails

LEMMA InitBooked == Init => Booked
  <1>1. SUFFICES ASSUME Init PROVE Booked
    OBVIOUS
  <1>2. /\ messages = <<>> /\ sent = {} /\ s.shutdown = NoShutdown /\ s.pc = "loop"
        /\ s.result = "none" /\ s.timer = "none" /\ s.heldCron = "none"
        /\ s.stash = <<>> /\ s.fifo = <<>> /\ s.toolActions = <<>>
        /\ s.responses = [c \in Command |-> 0]
    BY <1>1 DEF Init
  <1>3. Scheduled(s)
    BY <1>2 DEF Scheduled, CronTrace, Within
  <1>4. ASSUME NEW c \in Command PROVE Ledger(c)
    BY <1>2 DEF Ledger, Asked, Underway, Once, Within
  <1>5. QED
    BY <1>2, <1>3, <1>4 DEF Booked, ShutdownOwned, EndAnswered

LEMMA ServesBooked ==
    ASSUME TypeOK, Booked, s \in Fields, s' \in Fields, Mails, Serves(s, s') PROVE Booked'
  <1>1. s'.responses = s.responses /\ SameShutdown(s, s')
    BY DEF Serves
  <1>2. ShutdownOwned'
    BY <1>1 DEF Booked, ShutdownOwned, SameShutdown
  <1>3. EndAnswered'
    BY <1>1 DEF Booked, EndAnswered, Serves
  <1>4. ASSUME NEW c \in Command PROVE Ledger(c)'
    <2>1. Ledger(c)
      BY DEF Booked
    <2>2. Underway(c)' <=> Underway(c)
      BY <1>1 DEF Underway, SameShutdown
    <2>3. QED
      BY <1>1, <2>1, <2>2, MailKeeps DEF Ledger
  <1>5. QED
    BY <1>2, <1>3, <1>4 DEF Booked

LEMMA FinishesBooked ==
    ASSUME TypeOK, Booked, s \in Fields, s' \in Fields, Mails, Finishes(s, s') PROVE Booked'
  <1>1. PICK d \in Command : d = s.shutdown.cmd /\ cmdOf[d] \in Signal /\ Underway(d)
    BY DEF Finishes, Booked, ShutdownOwned, Underway
  <1>2. /\ s'.shutdown = NoShutdown
        /\ s'.responses = [s.responses EXCEPT ![d] = s.responses[d] + 1]
        /\ (OnlyShutdownEnds /\ Scheduled(s) => Scheduled(s'))
    BY <1>1 DEF Finishes
  <1>3. s.responses \in [Command -> Nat]
    BY DEF Fields, Responses
  <1>4. d \in sent /\ ~Asked(d) /\ s.responses[d] = 0
    BY <1>1 DEF Booked, Ledger
  <1>5. s'.responses[d] = 1
    BY <1>2, <1>3, <1>4
  <1>6. ShutdownOwned'
    BY <1>2 DEF ShutdownOwned
  <1>7. EndAnswered'
    BY <1>1, <1>2, <1>5 DEF Booked, EndAnswered
  <1>8. ASSUME NEW c \in Command PROVE Ledger(c)'
    <2>1. Ledger(c) /\ ~Underway(c)'
      BY <1>2 DEF Booked, Underway
    <2>2. CASE c = d
      BY <1>4, <1>5, <2>1, <2>2, MailKeeps DEF Ledger
    <2>3. CASE c # d
      <3>1. s'.responses[c] = s.responses[c] /\ ~Underway(c)
        BY <1>1, <1>2, <1>3, <2>3 DEF Underway
      <3>2. QED
        BY <2>1, <3>1, MailKeeps DEF Ledger
    <2>4. QED
      BY <2>2, <2>3
  <1>9. QED
    BY <1>6, <1>7, <1>8 DEF Booked

LEMMA AskKeeps ==
    ASSUME TypeOK, NEW c \in Command, NEW d \in Command, Asks(c)
    PROVE  /\ Asked(d)' <=> Asked(d) \/ d = c
           /\ Once(messages, CmdMessage(d)) /\ (d = c => ~Asked(d)) => Once(messages', CmdMessage(d))
  <1>1. messages \in Seq(Message)
    BY DEF TypeOK
  <1>2. PICK x \in Message : x = CmdMessage(d)
    BY CmdKinds
  <1>3. PICK y \in Message : y = CmdMessage(c)
    BY CmdKinds
  <1>4. y = x <=> d = c
    BY <1>2, <1>3, CmdKinds
  <1>5. messages' = Append(messages, y)
    BY <1>3 DEF Asks
  <1>6. /\ Within(Append(messages, y), x) <=> Within(messages, x) \/ y = x
        /\ Once(messages, x) /\ (y = x => ~Within(messages, x)) => Once(Append(messages, y), x)
    BY <1>1, WithinAppend
  <1>7. QED
    BY <1>2, <1>4, <1>5, <1>6 DEF Asked

LEMMA AsksBooked ==
    ASSUME TypeOK, Booked, NEW c \in Command, Asks(c) PROVE Booked'
  <1>1. s' = s /\ sent' = sent \union {c} /\ c \notin sent
    BY DEF Asks
  <1>2. ShutdownOwned' /\ EndAnswered'
    BY <1>1 DEF Booked, ShutdownOwned, EndAnswered
  <1>3. ASSUME NEW d \in Command PROVE Ledger(d)'
    <2>1. Ledger(d) /\ (Underway(d)' <=> Underway(d))
      BY <1>1 DEF Booked, Underway
    <2>2. CASE d = c
      BY <1>1, <2>1, <2>2, AskKeeps DEF Ledger
    <2>3. CASE d # c
      BY <1>1, <2>1, <2>3, AskKeeps DEF Ledger
    <2>4. QED
      BY <2>2, <2>3
  <1>4. QED
    BY <1>2, <1>3 DEF Booked

LEMMA TakeKeeps ==
    ASSUME TypeOK, NEW c \in Command, NEW d \in Command, TakesCommand(c), Once(messages, CmdMessage(d))
    PROVE  /\ Once(messages', CmdMessage(d)) /\ Asked(c)
           /\ d = c => ~Asked(d)'
           /\ d # c => (Asked(d)' <=> Asked(d))
  <1>1. messages \in Seq(Message) /\ messages # <<>> /\ messages' = Tail(messages)
    BY DEF TypeOK, TakesCommand
  <1>2. PICK x : x = CmdMessage(d)
    OBVIOUS
  <1>3. PICK y : y = CmdMessage(c) /\ Head(messages) = y
    BY DEF TakesCommand
  <1>4. y = x <=> d = c
    BY <1>2, <1>3, CmdKinds
  <1>5. /\ Within(messages, x) <=> Head(messages) = x \/ Within(Tail(messages), x)
        /\ Once(messages, x) => Once(Tail(messages), x)
        /\ Once(messages, x) /\ Head(messages) = x => ~Within(Tail(messages), x)
    BY <1>1, WithinTail
  <1>6. Within(messages, y)
    BY <1>1, <1>3, WithinTail
  <1>7. QED
    BY <1>1, <1>2, <1>3, <1>4, <1>5, <1>6 DEF Asked

LEMMA TakenBooked ==
    ASSUME TypeOK, Booked, s \in Fields, s' \in Fields, NEW c \in Command, TakesCommand(c),
           Answers(s, s', c) \/ Begins(s, s', c)
    PROVE  Booked'
  <1>1. \A d \in Command : Ledger(d)
    BY DEF Booked
  <1>2. /\ \A d \in Command : Once(messages', CmdMessage(d)) /\ (d # c => (Asked(d)' <=> Asked(d)))
        /\ Asked(c) /\ ~Asked(c)'
    BY <1>1, TakeKeeps DEF Ledger
  <1>3. sent' = sent /\ c \in sent /\ s.responses[c] = 0 /\ ~Underway(c)
    BY <1>1, <1>2 DEF TakesCommand, Ledger
  <1>4. s.responses \in [Command -> Nat]
    BY DEF Fields, Responses
  <1>5. CASE Answers(s, s', c)
    <2>1. /\ s'.responses = [s.responses EXCEPT ![c] = s.responses[c] + 1]
          /\ SameShutdown(s, s')
      BY <1>5 DEF Answers
    <2>2. s'.responses[c] = 1 /\ \A d \in Command : d # c => s'.responses[d] = s.responses[d]
      BY <1>3, <1>4, <2>1
    <2>3. \A d \in Command : Underway(d)' <=> Underway(d)
      BY <2>1 DEF Underway, SameShutdown
    <2>4. ShutdownOwned'
      BY <2>1 DEF Booked, ShutdownOwned, SameShutdown
    <2>5. EndAnswered'
      <3>1. SUFFICES ASSUME OnlyShutdownEnds, s'.result # "none" \/ s'.pc = "ended"
                     PROVE  \E d \in Command : cmdOf[d] \in Signal /\ s'.responses[d] # 0
        BY <1>5 DEF Booked, EndAnswered, Answers
      <3>2. CASE cmdOf[c] \in Signal
        BY <2>2, <3>2
      <3>3. CASE cmdOf[c] \notin Signal
        <4>1. s.result # "none" \/ s.pc = "ended"
          BY <1>5, <3>1, <3>3 DEF Answers, Booked, EndAnswered
        <4>2. PICK d \in Command : cmdOf[d] \in Signal /\ s.responses[d] # 0
          BY <3>1, <4>1 DEF Booked, EndAnswered
        <4>3. QED
          BY <2>2, <3>3, <4>2
      <3>4. QED
        BY <3>2, <3>3
    <2>6. ASSUME NEW d \in Command PROVE Ledger(d)'
      BY <1>1, <1>2, <1>3, <2>2, <2>3 DEF Ledger
    <2>7. QED
      BY <2>4, <2>5, <2>6 DEF Booked
  <1>6. CASE Begins(s, s', c)
    <2>1. /\ s'.responses = s.responses /\ s.shutdown = NoShutdown
          /\ s'.shutdown # NoShutdown /\ s'.shutdown.cmd = c
      BY <1>6 DEF Begins
    <2>2. \A d \in Command : ~Underway(d) /\ (Underway(d)' <=> d = c)
      BY <2>1 DEF Underway
    <2>3. ShutdownOwned'
      BY <1>6 DEF Begins, ShutdownOwned
    <2>4. EndAnswered'
      BY <1>6, <2>1 DEF Begins, Booked, EndAnswered
    <2>5. ASSUME NEW d \in Command PROVE Ledger(d)'
      BY <1>1, <1>2, <1>3, <2>1, <2>2 DEF Ledger
    <2>6. QED
      BY <2>3, <2>4, <2>5 DEF Booked
  <1>7. QED
    BY <1>5, <1>6

LEMMA NextBooked == TypeOK /\ Awake /\ Booked /\ [Next]_vars => Booked'
  <1>1. SUFFICES ASSUME TypeOK, Awake, Booked, [Next]_vars PROVE Booked'
    OBVIOUS
  <1>2. s \in Fields /\ s' \in Fields
    <2>1. TypeOK'
      BY <1>1, NextTyped
    <2>2. s \in Session /\ s' \in Session
      BY <1>1, <2>1 DEF TypeOK
    <2>3. QED
      BY <2>2, SessionFields
  <1>3. \/ Mails /\ (Serves(s, s') \/ Finishes(s, s'))
        \/ \E c \in Command : TakesCommand(c) /\ (Answers(s, s', c) \/ Begins(s, s', c))
        \/ \E c \in Command : Asks(c)
    BY <1>1, <1>2, NextServes
  <1>4. QED
    BY <1>1, <1>2, <1>3, ServesBooked, FinishesBooked, TakenBooked, AsksBooked

(* Every command a client sends is answered once, in a session without     *)
(* sub-agents, in one that is sent no done, cancel or delete, and in one   *)
(* that nothing but such a command ends: it waits in the queue, or has its *)
(* one response, or is the shutdown in progress, whatever else the session *)
(* does meanwhile.  A shutdown without a response in a session that has    *)
(* ended can only be one begun after another one had concluded.  Without   *)
(* the hypothesis a turn that completes the task of a sub-agent, or whose  *)
(* state is lost, may end the session while its shutdown waits.            *)
THEOREM CommandsGetAnswered ==
    ASSUME Child = {} \/ (\A c \in Command : cmdOf[c] \notin Signal) \/ OnlyShutdownEnds
    PROVE  Spec => []CommandsAnswered
  <1>1. TypeOK /\ Booked => CommandsAnswered
    <2>1. SUFFICES ASSUME TypeOK, Booked, NEW c \in Command, c \in sent
                   PROVE  \/ [kind |-> "cmd", cmd |-> c] \in ToSet(messages)
                          \/ s.responses[c] = 1
                          \/ /\ s.responses[c] = 0 /\ s.shutdown # NoShutdown /\ s.shutdown.cmd = c
                             /\ \/ s.pc # "ended"
                                \/ \E d \in Command \ {c} : cmdOf[d] \in Signal /\ s.responses[d] = 1
      BY DEF CommandsAnswered
    <2>2. Ledger(c)
      BY <2>1 DEF Booked
    <2>3. CASE Asked(c)
      BY <2>3, WithinToSet DEF Asked, CmdMessage
    <2>4. CASE ~Asked(c) /\ ~Underway(c)
      BY <2>1, <2>2, <2>4 DEF Ledger
    <2>5. CASE ~Asked(c) /\ Underway(c)
      <3>1. s.responses[c] = 0 /\ s.shutdown # NoShutdown /\ s.shutdown.cmd = c
        BY <2>1, <2>2, <2>5 DEF Ledger, Underway
      <3>2. OnlyShutdownEnds
        BY <2>1, <3>1 DEF Booked, ShutdownOwned
      <3>3. ASSUME s.pc = "ended"
            PROVE  \E d \in Command \ {c} : cmdOf[d] \in Signal /\ s.responses[d] = 1
        <4>1. PICK d \in Command : cmdOf[d] \in Signal /\ s.responses[d] # 0
          BY <2>1, <3>2, <3>3 DEF Booked, EndAnswered
        <4>2. s.responses[d] = 1
          BY <2>1, <4>1 DEF Booked, Ledger
        <4>3. QED
          BY <3>1, <4>1, <4>2
      <3>4. QED
        BY <3>1, <3>3
    <2>6. QED
      BY <2>3, <2>4, <2>5
  <1>2. QED
    BY <1>1, InitTyped, NextTyped, InitBooked, NextBooked, PTL DEF Spec

----------------------------------------------------------------------------
(* A wait with time left is kept.  Untouched: a helper that finds no wait  *)
(* armed arms none, and leaves one that is held.  Rearms: so does a        *)
(* handler, unless it ends the session or arms a wait itself, which is the *)
(* last thing it does.                                                     *)
Untouched(m, n) ==
    /\ m.digest = "none" => n.digest = "none"
    /\ m.timer # "wait" => n.timer # "wait" /\ n.heldWait = m.heldWait

Rearms(m, n) ==
    /\ m.digest = "none" => n.digest = "none"
    /\ m.timer # "wait" =>
         /\ n.timer = "wait" => n.pc = "loop" /\ n.status = "waiting"
         /\ m.heldWait = "some" => n.heldWait = "some" \/ n.timer = "wait" \/ n.result # "none"

LEMMA UntouchedTwice ==
    /\ \A k, m, n : Untouched(k, m) /\ Untouched(m, n) => Untouched(k, n)
    /\ \A k, m, n : Untouched(k, m) /\ Rearms(m, n) => Rearms(k, n)
    /\ \A m, n : Untouched(m, n) => Rearms(m, n)
  BY DEF Untouched, Rearms

LEMMA HelpersLeave ==
    ASSUME NEW m \in Fields
    PROVE  /\ Untouched(m, NextIteration(m)) /\ Untouched(m, ContinueAsNew(m))
           /\ \A d \in Dehydrations(m) : Untouched(m, d)
           /\ Untouched(m, queueFollowup(m))
           /\ \A r \in Refreshes(m) : Untouched(m, r)
           /\ Untouched(m, drainLeadingQueuedCronActions(m))
  <1>1. Untouched(m, NextIteration(m)) /\ Untouched(m, ContinueAsNew(m))
    BY DEF NextIteration, ContinueAsNew, Fields, Untouched
  <1>2. \A d \in Dehydrations(m) : Untouched(m, d)
    BY DEF Dehydrations, Fields, Untouched
  <1>3. Untouched(m, queueFollowup(m))
    BY DEF queueFollowup, Fields, Untouched
  <1>4. \A r \in Refreshes(m) : Untouched(m, r)
    BY DEF Refreshes, Refreshed, Fields, Untouched
  <1>5. Untouched(m, drainLeadingQueuedCronActions(m))
    BY DEF drainLeadingQueuedCronActions, Fields, Untouched
  <1>6. QED
    BY <1>1, <1>2, <1>3, <1>4, <1>5

LEMMA AbandonLeaves ==
    ASSUME NEW m \in Fields PROVE Untouched(m, Abandon(m)) /\ Untouched(m, GiveUp(m))
  <1>1. PICK k \in Fields : k = NextIteration(m) /\ Untouched(m, k)
    BY NextIterationTyped, HelpersLeave
  <1>2. PICK a \in Fields : a = Abandon(m)
    BY AbandonTyped
  <1>3. Untouched(k, a)
    BY <1>1, <1>2 DEF Abandon, Fields, Untouched
  <1>4. Untouched(a, GiveUp(m))
    BY <1>2 DEF GiveUp, Fields, Untouched
  <1>5. QED
    BY <1>1, <1>2, <1>3, <1>4, UntouchedTwice

LEMMA RetryLeaves ==
    ASSUME NEW m \in Fields, NEW parts, NEW k PROVE Untouched(m, RetryWith(m, parts, k))
  <1>1. PICK n \in Fields : n = ContinueAsNew(m) /\ Untouched(m, n)
    BY ContinueAsNewTyped, HelpersLeave
  <1>2. Untouched(n, RetryWith(m, parts, k))
    BY <1>1 DEF RetryWith, Fields, Untouched
  <1>3. QED
    BY <1>1, <1>2, UntouchedTwice

LEMMA FollowupLeaves == ASSUME NEW m \in Fields, Followup(m) PROVE Untouched(m, s')
  <1>1. PICK n \in Fields : n = queueFollowup(m) /\ Untouched(m, n)
    BY FollowupTyped, HelpersLeave
  <1>2. Untouched(n, s')
    BY <1>1, HelpersLeave DEF Followup
  <1>3. QED
    BY <1>1, <1>2, UntouchedTwice

LEMMA WaitLeaves ==
    ASSUME NEW m \in Fields, NEW timer, WaitFor(m, timer)
    PROVE  /\ s'.timer = timer /\ s'.status = "waiting" /\ s'.pc = "loop"
           /\ s'.heldWait = m.heldWait /\ s'.digest = m.digest
  <1>1. PICK n \in Fields : n = NextIteration(m)
    BY NextIterationTyped
  <1>2. n.heldWait = m.heldWait /\ n.digest = m.digest /\ n.pc = "loop"
    BY <1>1 DEF NextIteration, Fields
  <1>3. PICK d \in DehydrationsForWait(n) : s' = [d EXCEPT !.timer = timer, !.status = "waiting"]
    BY <1>1 DEF WaitFor
  <1>4. d \in Dehydrations(n) \/ d = n
    BY <1>3 DEF DehydrationsForWait
  <1>5. d \in Fields /\ d.heldWait = n.heldWait /\ d.digest = n.digest /\ d.pc = n.pc
    BY <1>4, DehydrationsTyped DEF Dehydrations, Fields
  <1>6. /\ s'.timer = timer /\ s'.status = "waiting" /\ s'.pc = d.pc
        /\ s'.heldWait = d.heldWait /\ s'.digest = d.digest
    BY <1>3, <1>5 DEF Fields
  <1>7. QED
    BY <1>2, <1>5, <1>6

LEMMA HeldTyped ==
    ASSUME NEW m \in Fields
    PROVE  /\ \E n \in Fields : /\ n = [m EXCEPT !.heldWait = "none"]
                                /\ n.digest = m.digest
           /\ \E n \in Fields : /\ n = [m EXCEPT !.heldCron = "none"]
                                /\ n.digest = m.digest /\ n.heldWait = m.heldWait
  <1>1. "none" \in Left
    BY Literals
  <1>2. [m EXCEPT !.heldWait = "none"] \in Fields /\ [m EXCEPT !.heldCron = "none"] \in Fields
    BY <1>1, Zenon DEF Fields
  <1>3. QED
    BY <1>2 DEF Fields

LEMMA CompletedRearms == ASSUME NEW m \in Fields, Completed(m) PROVE Rearms(m, s')
  <1>1. CASE CompletedSubAgent(m)
    <2>1. \/ s' = NextIteration(m)
          \/ s' = [m EXCEPT !.pc = "ended", !.turn = {}, !.status = "completed", !.result = "done"]
      BY <1>1 DEF CompletedSubAgent
    <2>2. CASE s' = NextIteration(m)
      BY <2>2, HelpersLeave, UntouchedTwice
    <2>3. CASE s' = [m EXCEPT !.pc = "ended", !.turn = {}, !.status = "completed", !.result = "done"]
      BY <2>3 DEF Fields, Rearms
    <2>4. QED
      BY <2>1, <2>2, <2>3
  <1>2. CASE CompletedNudged(m)
    <2>1. PICK q \in Fields : q = queueFollowup(m) /\ Untouched(m, q)
      BY FollowupTyped, HelpersLeave
    <2>2. PICK n \in Fields : n = ContinueAsNew(q) /\ Untouched(q, n)
      BY <2>1, ContinueAsNewTyped, HelpersLeave
    <2>3. s' = [n EXCEPT !.nudged = TRUE]
      BY <1>2, <2>1, <2>2 DEF CompletedNudged
    <2>4. Untouched(n, s')
      BY <2>2, <2>3 DEF Fields, Untouched
    <2>5. QED
      BY <2>1, <2>2, <2>4, UntouchedTwice
  <1>3. CASE CompletedResumesWait(m)
    <2>1. PICK n \in Fields : n = [m EXCEPT !.heldWait = "none"] /\ n.digest = m.digest
      BY HeldTyped
    <2>2. WaitFor(n, "wait")
      BY <1>3, <2>1 DEF CompletedResumesWait
    <2>3. QED
      BY <2>1, <2>2, WaitLeaves DEF Rearms
  <1>4. CASE CompletedResumesCron(m)
    <2>1. PICK n \in Fields : /\ n = [m EXCEPT !.heldCron = "none"]
                              /\ n.digest = m.digest /\ n.heldWait = m.heldWait
      BY HeldTyped
    <2>2. WaitFor(n, "cron")
      BY <1>4, <2>1 DEF CompletedResumesCron
    <2>3. QED
      BY <2>1, <2>2, WaitLeaves DEF Rearms
  <1>5. CASE CompletedArmsCron(m)
    BY <1>5, WaitLeaves DEF CompletedArmsCron, Rearms
  <1>6. CASE CompletedGoesIdle(m)
    <2>1. PICK n \in Fields : n = NextIteration(m) /\ Untouched(m, n)
      BY NextIterationTyped, HelpersLeave
    <2>2. s' = n \/ s' = [n EXCEPT !.timer = "idle", !.status = "idle"]
      BY <1>6, <2>1 DEF CompletedGoesIdle
    <2>3. CASE s' = [n EXCEPT !.timer = "idle", !.status = "idle"]
      <3>1. Untouched(n, s')
        BY <2>1, <2>3 DEF Fields, Untouched
      <3>2. QED
        BY <2>1, <3>1, UntouchedTwice
    <2>4. QED
      BY <2>1, <2>2, <2>3, UntouchedTwice
  <1>7. QED
    BY <1>1, <1>2, <1>3, <1>4, <1>5, <1>6 DEF Completed

LEMMA InputLeaves == ASSUME NEW m \in Fields, InputRequired(m) PROVE Untouched(m, s')
  <1>1. PICK n \in Fields : n = NextIteration(m) /\ Untouched(m, n)
    BY NextIterationTyped, HelpersLeave
  <1>2. PICK asked \in Fields :
          asked = [n EXCEPT !.question = TRUE, !.status = "input_required"]
    <2>1. TRUE \in Flag /\ "input_required" \in Status
      BY Blank, Literals
    <2>2. [n EXCEPT !.question = TRUE, !.status = "input_required"] \in Fields
      BY <1>1, <2>1, ZenonT(60) DEF Fields
    <2>3. QED
      BY <2>2
  <1>3. Untouched(n, asked)
    BY <1>1, <1>2 DEF Fields, Untouched
  <1>4. s' = asked \/ s' \in Dehydrations(asked) \/ s' = [asked EXCEPT !.timer = "input-grace"]
    BY <1>1, <1>2, Zenon DEF InputRequired
  <1>5. Untouched(asked, [asked EXCEPT !.timer = "input-grace"])
    BY <1>2 DEF Fields, Untouched
  <1>6. QED
    BY <1>1, <1>2, <1>3, <1>4, <1>5, HelpersLeave, UntouchedTwice

LEMMA AgentsLeave ==
    ASSUME NEW m \in Fields, NEW agents, [m EXCEPT !.agents = agents] \in Fields,
           Followup([m EXCEPT !.agents = agents])
    PROVE  Untouched(m, s')
  <1>1. PICK n \in Fields : n = [m EXCEPT !.agents = agents]
    OBVIOUS
  <1>2. Untouched(m, n)
    BY <1>1 DEF Fields, Untouched
  <1>3. Untouched(n, s')
    BY <1>1, FollowupLeaves
  <1>4. QED
    BY <1>2, <1>3, UntouchedTwice

LEMMA CheckLeaves == ASSUME NEW m \in Fields, CheckAgents(m) PROVE Untouched(m, s')
  <1>1. PICK agents \in Agents : agents = m.agents
    BY DEF Fields
  <1>2. PICK idle \in SUBSET Child :
          Followup([m EXCEPT !.agents =
            [c \in Child |->
               IF c \in idle THEN "completed"
               ELSE IF agents[c] # "none" /\ Published(c) \in {"completed", "failed"}
               THEN Published(c) ELSE agents[c]]])
    BY <1>1, Zenon DEF CheckAgents, Tracked
  <1>3. PICK checked \in Agents :
          checked = [c \in Child |->
               IF c \in idle THEN "completed"
               ELSE IF agents[c] # "none" /\ Published(c) \in {"completed", "failed"}
               THEN Published(c) ELSE agents[c]]
    BY DEF Agents, AgentStatus
  <1>4. [m EXCEPT !.agents = checked] \in Fields
    BY Zenon DEF Fields
  <1>5. Followup([m EXCEPT !.agents = checked])
    BY <1>2, <1>3
  <1>6. QED
    BY <1>4, <1>5, AgentsLeave

LEMMA ErrorLeaves == ASSUME NEW m \in Fields, TurnError(m) PROVE Untouched(m, s')
  <1>1. m.retryCount + 1 \in Count /\ FailedAgain(m.failures) \in Failures
    BY FailuresTyped DEF Fields, Count
  <1>2. PICK f \in Fields : f = [m EXCEPT !.retryCount = m.retryCount + 1, !.failures = FailedAgain(m.failures)]
    <2>1. [m EXCEPT !.retryCount = m.retryCount + 1, !.failures = FailedAgain(m.failures)] \in Fields
      BY <1>1, Zenon DEF Fields
    <2>2. QED
      BY <2>1
  <1>3. Untouched(m, f)
    BY <1>2 DEF Fields, Untouched
  <1>4. s' = GiveUp(f) \/ \E parts, k : s' = RetryWith(f, parts, k)
    BY <1>2 DEF TurnError
  <1>5. QED
    BY <1>3, <1>4, AbandonLeaves, RetryLeaves, UntouchedTwice

LEMMA ResultRearms ==
    ASSUME NEW m \in Fields, NEW action, HandleTurnResult(m, action) PROVE Rearms(m, s')
  <1>1. CASE Completed(m)
    BY <1>1, CompletedRearms
  <1>2. CASE Waits(m)
    <2>1. PICK n \in Fields : n = [m EXCEPT !.heldWait = "none"] /\ n.digest = m.digest
      BY HeldTyped
    <2>2. WaitFor(n, "wait")
      BY <1>2, <2>1 DEF Waits
    <2>3. QED
      BY <2>1, <2>2, WaitLeaves DEF Rearms
  <1>3. CASE InputRequired(m)
    BY <1>3, InputLeaves, UntouchedTwice
  <1>4. CASE s' = NextIteration(m)
    BY <1>4, HelpersLeave, UntouchedTwice
  <1>5. CASE Followup(m)
    BY <1>5, FollowupLeaves, UntouchedTwice
  <1>6. CASE CheckAgents(m)
    BY <1>6, CheckLeaves, UntouchedTwice
  <1>7. CASE WaitForAgents(m)
    <2>1. PICK n \in Fields : n = NextIteration(m) /\ Untouched(m, n)
      BY NextIterationTyped, HelpersLeave
    <2>2. ASSUME NEW C, s' = [n EXCEPT !.awaited = C, !.timer = "agent-poll", !.status = "running"]
          PROVE  Rearms(m, s')
      <3>1. Untouched(n, s')
        BY <2>1, <2>2 DEF Fields, Untouched
      <3>2. QED
        BY <2>1, <3>1, UntouchedTwice
    <2>3. QED
      BY <1>5, <1>7, <2>1, <2>2 DEF WaitForAgents
  <1>8. CASE TurnError(m)
    BY <1>8, ErrorLeaves, UntouchedTwice
  <1>9. CASE Crash(m, "failed")
    BY <1>9 DEF Crash, Fields, Rearms
  <1>10. ASSUME NEW c \in Child, NEW status \in AgentStatus \union {"none"},
                Followup([m EXCEPT !.agents[c] = status])
         PROVE  Rearms(m, s')
    <2>1. PICK n \in Fields : n = [m EXCEPT !.agents[c] = status]
      BY AgentTyped
    <2>2. Untouched(m, n)
      BY <2>1 DEF Fields, Untouched
    <2>3. Untouched(n, s')
      BY <1>10, <2>1, FollowupLeaves
    <2>4. QED
      BY <2>2, <2>3, UntouchedTwice
  <1>11. CASE SpawnAgent(m)
    BY <1>5, <1>10, <1>11 DEF SpawnAgent, AgentStatus
  <1>12. CASE SignalAgent(m)
    BY <1>5, <1>12 DEF SignalAgent
  <1>13. CASE DeleteAgent(m)
    BY <1>10, <1>13 DEF DeleteAgent, Tracked
  <1>14. QED
    BY <1>1, <1>2, <1>3, <1>4, <1>5, <1>6, <1>7, <1>8, <1>9, <1>11, <1>12, <1>13 DEF HandleTurnResult

LEMMA StartLeaves ==
    ASSUME NEW m \in Fields, NEW parts, StartTurn(m, parts) PROVE Untouched(m, s')
  <1>1. CASE \E h : s' = [m EXCEPT !.pc = "turn", !.turn = parts, !.status = "running",
                                   !.needsHydration = h]
    BY <1>1 DEF Fields, Untouched
  <1>2. CASE s' = Abandon([m EXCEPT !.turn = parts, !.needsHydration = TRUE,
                                    !.surprises = m.surprises + 1])
    <2>1. PICK k : k = [m EXCEPT !.turn = parts, !.needsHydration = TRUE,
                                 !.surprises = m.surprises + 1]
      OBVIOUS
    <2>2. /\ k.timer = m.timer /\ k.heldWait = m.heldWait /\ k.digest = m.digest
          /\ DOMAIN k = DOMAIN m
      BY <2>1 DEF Fields
    <2>3. PICK n : n = NextIteration(k)
      OBVIOUS
    <2>4. /\ n.timer = k.timer /\ n.heldWait = k.heldWait /\ n.digest = k.digest
          /\ DOMAIN n = DOMAIN m
      BY <2>2, <2>3 DEF NextIteration, Fields
    <2>5. s' = [n EXCEPT !.abandoned = n.abandoned \union (k.turn \intersect Prompt),
                         !.failures = NoFailures, !.status = "error"]
      BY <1>2, <2>1, <2>3, Zenon DEF Abandon
    <2>6. s'.timer = n.timer /\ s'.heldWait = n.heldWait /\ s'.digest = n.digest
      BY <2>4, <2>5 DEF Fields
    <2>7. QED
      BY <2>2, <2>4, <2>6 DEF Untouched
  <1>3. QED
    BY <1>1, <1>2 DEF StartTurn

LEMMA ReturnedLeaves ==
    ASSUME s \in Fields, NEW outcome \in {PlainOutcome} \union TurnOutcome
    PROVE  Untouched(s, Returned(s, outcome))
  BY DEF Returned, drainLeadingQueuedCronActions, Fields, Untouched

LEMMA TurnRearms ==
    ASSUME TypeOK, s \in Fields, Turn PROVE Rearms(s, s')
  <1>1. ASSUME NEW outcome \in {PlainOutcome} \union TurnOutcome, TurnReturns(outcome)
        PROVE  Rearms(s, s')
    <2>1. PICK r \in Fields : r = Returned(s, outcome)
      BY PlainIsOutcome, OutcomeAssumption, ReturnedMoves
    <2>2. PICK m \in Refreshes(r) :
            HandleTurnResult(
              [m EXCEPT !.surprises = IF outcome = PlainOutcome THEN @ ELSE @ + 1], outcome.main)
            /\ (outcome # PlainOutcome => s.surprises < MaxSurprises)
      BY <1>1, <2>1 DEF TurnReturns
    <2>3. m \in Fields /\ Untouched(r, m)
      BY <2>1, RefreshesTyped, HelpersLeave DEF TypeOK
    <2>4. m.surprises = s.surprises
      <3>1. Returned(s, outcome).surprises = s.surprises
        BY DEF Returned, drainLeadingQueuedCronActions, Fields
      <3>2. m.surprises = r.surprises
        BY <2>1 DEF Refreshes, Refreshed, Fields
      <3>3. QED
        BY <2>1, <3>1, <3>2
    <2>5. PICK surprises \in Surprises :
            surprises = (IF outcome = PlainOutcome THEN m.surprises ELSE m.surprises + 1)
      BY <2>2, <2>3, <2>4, Bounds DEF Fields, Surprises
    <2>6. PICK n \in Fields : n = [m EXCEPT !.surprises = surprises]
      <3>1. [m EXCEPT !.surprises = surprises] \in Fields
        BY <2>3, Zenon DEF Fields
      <3>2. QED
        BY <3>1
    <2>7. Untouched(m, n)
      BY <2>3, <2>6 DEF Fields, Untouched
    <2>8. HandleTurnResult(n, outcome.main)
      BY <2>2, <2>5, <2>6
    <2>9. Rearms(n, s')
      BY <2>8, ResultRearms
    <2>10. QED
      BY <2>1, <2>3, <2>7, <2>9, ReturnedLeaves, UntouchedTwice
  <1>2. ASSUME NEW failure, Failing(failure)
        PROVE  \E f \in Fields : f = Failed /\ Untouched(s, f)
    <2>1. s.retryCount + 1 \in Count /\ FailedAgain(s.failures) \in Failures /\ s.surprises + 1 \in Surprises
      BY FailuresTyped, <1>2, Bounds DEF Failing, Fields, Count, Surprises
    <2>2. Failed \in Fields
      BY <2>1, Zenon DEF Failed, Fields
    <2>3. Untouched(s, Failed)
      BY DEF Failed, Fields, Untouched
    <2>4. QED
      BY <2>2, <2>3
  <1>3. CASE TurnLosesState
    <2>1. PICK f \in Fields : f = Failed /\ Untouched(s, f)
      BY <1>2, <1>3 DEF TurnLosesState
    <2>2. s' = [f EXCEPT !.pc = "ended", !.turn = {}, !.status = "failed", !.result = "crashed"]
      BY <1>3, <2>1 DEF TurnLosesState, Crash
    <2>3. Rearms(f, s')
      BY <2>2 DEF Fields, Rearms
    <2>4. QED
      BY <2>1, <2>3, UntouchedTwice
  <1>4. ASSUME NEW f \in Fields, NEW k PROVE Untouched(f, RetryTurn(f, k))
    BY RetryLeaves DEF RetryTurn
  <1>5. CASE TurnLosesConnection
    <2>1. PICK f \in Fields : f = Failed /\ Untouched(s, f)
      BY <1>2, <1>5 DEF TurnLosesConnection
    <2>2. PICK k \in Nat :
            k = (IF f.retryCount > COPILOT_CONNECTION_CLOSED_MAX_RETRIES THEN 0 ELSE f.retryCount)
      BY DEF Fields, Count
    <2>3. PICK n \in Fields : n = RetryTurn(f, k) /\ Untouched(f, n)
      BY <1>4, RetryTurnTyped
    <2>4. s' = n \/ s' = [n EXCEPT !.failures = HandedOff(n.failures)] \/ s' = GiveUp(f)
      BY <1>5, <2>1, <2>2, <2>3 DEF TurnLosesConnection
    <2>5. Untouched(n, [n EXCEPT !.failures = HandedOff(n.failures)])
      BY DEF Fields, Untouched
    <2>6. QED
      BY <2>1, <2>3, <2>4, <2>5, AbandonLeaves, UntouchedTwice
  <1>6. CASE TurnFails
    <2>1. PICK f \in Fields : f = Failed /\ Untouched(s, f)
      BY <1>2, <1>6 DEF TurnFails
    <2>2. s' = GiveUp(f) \/ s' = RetryTurn(f, f.retryCount)
      BY <1>6, <2>1 DEF TurnFails
    <2>3. QED
      BY <1>4, <2>1, <2>2, AbandonLeaves, UntouchedTwice
  <1>7. QED
    BY <1>1, <1>3, <1>5, <1>6 DEF Turn

LEMMA PoppedLeaves ==
    ASSUME s \in Fields, NEW item, Popping(item)
    PROVE  \E m \in Fields : m = Popped /\ Untouched(s, m)
  <1>1. PICK d \in Fields : d = Decided /\ Untouched(s, d)
    BY DecidedTyped, HelpersLeave DEF Decided
  <1>2. PICK m \in Fields : m = Popped
    BY PoppedMoves
  <1>3. m = [d EXCEPT !.fifo = Tail(d.fifo)]
    BY <1>1, <1>2 DEF Popped
  <1>4. Untouched(d, m)
    BY <1>1, <1>3 DEF Fields, Untouched
  <1>5. QED
    BY <1>1, <1>2, <1>4, UntouchedTwice

LEMMA DecideRearms ==
    ASSUME TypeOK, s \in Fields, Decide, Child = {}, s.digest = "none" PROVE Rearms(s, s')
  <1>1. PICK d \in Fields : d = Decided /\ Untouched(s, d)
    BY DecidedTyped, HelpersLeave DEF Decided
  <1>2. CASE ReplayToolAction
    <2>1. PICK m : m = [d EXCEPT !.toolActions = Tail(d.toolActions)]
      OBVIOUS
    <2>2. PICK actions \in Seq(QueuedAction) : actions = d.toolActions /\ actions # <<>>
      BY <1>1, <1>2 DEF ReplayToolAction, Fields, Actions
    <2>3. Tail(actions) \in Actions
      BY <2>2, HeadTailProperties DEF Actions
    <2>4. m \in Fields
      BY <1>1, <2>1, <2>2, <2>3, ZenonT(60) DEF Fields
    <2>5. Untouched(d, m)
      BY <1>1, <2>1 DEF Fields, Untouched
    <2>6. HandleTurnResult(m, Head(actions))
      BY <1>1, <1>2, <2>1, <2>2 DEF ReplayToolAction
    <2>7. QED
      BY <1>1, <2>4, <2>5, <2>6, ResultRearms, UntouchedTwice
  <1>3. CASE TakePendingPrompt
    <2>1. PICK m \in Fields : m = [d EXCEPT !.pendingPrompt = {}]
      <3>1. {} \in Texts
        BY Blank
      <3>2. [d EXCEPT !.pendingPrompt = {}] \in Fields
        BY <1>1, <3>1, ZenonT(60) DEF Fields
      <3>3. QED
        BY <3>2
    <2>2. Untouched(d, m)
      BY <1>1, <2>1 DEF Fields, Untouched
    <2>3. StartTurn(m, s.pendingPrompt)
      BY <1>1, <1>3, <2>1 DEF TakePendingPrompt
    <2>4. QED
      BY <1>1, <2>1, <2>2, <2>3, StartLeaves, UntouchedTwice
  <1>4. ASSUME NEW item, Popping(item), NEW parts, StartTurn(Popped, parts) PROVE Rearms(s, s')
    BY <1>4, PoppedLeaves, StartLeaves, UntouchedTwice
  <1>5. CASE ProcessPrompt \/ ProcessWaitTimer
    BY <1>4, <1>5 DEF ProcessPrompt, ProcessWaitTimer, Fired
  <1>6. CASE ProcessAnswer
    <2>1. PICK m \in Fields : m = Popped /\ Untouched(s, m)
      BY <1>6, PoppedLeaves DEF ProcessAnswer
    <2>2. PICK n \in Fields : n = [m EXCEPT !.question = FALSE]
      <3>1. [m EXCEPT !.question = FALSE] \in Fields
        BY <2>1, Blank, ZenonT(60) DEF Fields
      <3>2. QED
        BY <3>1
    <2>3. Untouched(m, n)
      BY <2>1, <2>2 DEF Fields, Untouched
    <2>4. StartTurn(n, {"answer"})
      BY <1>6, <2>1, <2>2 DEF ProcessAnswer
    <2>5. QED
      BY <2>1, <2>2, <2>3, <2>4, StartLeaves, UntouchedTwice
  <1>7. CASE ProcessCronTimer
    <2>1. PICK m \in Fields : m = Popped /\ Untouched(s, m)
      BY <1>7, PoppedLeaves DEF ProcessCronTimer, Fired
    <2>2. CASE m.cron
      BY <1>4, <1>7, <2>1, <2>2 DEF ProcessCronTimer, Fired
    <2>3. CASE ~m.cron
      <3>1. s' = [m EXCEPT !.pc = "ended", !.turn = {}, !.status = m.status, !.result = "crashed"]
        BY <1>7, <2>1, <2>3 DEF ProcessCronTimer, Crash
      <3>2. Rearms(m, s')
        BY <2>1, <3>1 DEF Fields, Rearms
      <3>3. QED
        BY <2>1, <3>2, UntouchedTwice
    <2>4. QED
      BY <2>2, <2>3
  <1>8. CASE ProcessIdleTimer \/ ProcessGraceTimer \/ ProcessStalePoll
    <2>1. PICK m \in Fields : m = Popped /\ Untouched(s, m)
      BY <1>8, PoppedLeaves DEF ProcessIdleTimer, ProcessGraceTimer, ProcessStalePoll, Fired
    <2>2. PICK n \in Fields : n = NextIteration(m) /\ Untouched(m, n)
      BY <2>1, NextIterationTyped, HelpersLeave
    <2>3. s' \in Dehydrations(n) \/ s' = n
      BY <1>8, <2>1, <2>2 DEF ProcessIdleTimer, ProcessGraceTimer, ProcessStalePoll
    <2>4. QED
      BY <2>1, <2>2, <2>3, HelpersLeave, UntouchedTwice
  <1>9. CASE ProcessPollResolved \/ ProcessPollAgain \/ ProcessShutdownPoll
    <2>1. s.awaited = {}
      BY DEF Fields, Children
    <2>2. PICK m \in Fields : m = Popped
      BY <1>9, PoppedLeaves DEF ProcessPollResolved, ProcessPollAgain, ProcessShutdownPoll, Fired
    <2>3. PICK q \in Fields : q = Polled(m)
      BY <2>2, PolledTyped DEF TypeOK
    <2>4. q.awaited = {}
      BY <2>3 DEF Fields, Children
    <2>5. QED
      BY <1>9, <2>1, <2>2, <2>3, <2>4
         DEF ProcessPollResolved, ProcessPollAgain, ProcessShutdownPoll, Resolved
  <1>10. CASE ProcessDigest
    BY <1>10 DEF ProcessDigest, DigestReady
  <1>11. CASE DecideNothing
    <2>1. s' = NextIteration(d) \/ s' = ContinueAsNew(d)
      BY <1>1, <1>11 DEF DecideNothing
    <2>2. QED
      BY <1>1, <2>1, HelpersLeave, UntouchedTwice
  <1>12. QED
    BY <1>2, <1>3, <1>5, <1>6, <1>7, <1>8, <1>9, <1>10, <1>11 DEF Decide

(* Who may send messages that do not interrupt a wait: the answer to a     *)
(* question, once, and each query, once.  Together they must be too few to *)
(* fill a drain.                                                           *)
AnswerMessage == [kind |-> "answer"]
Query == {c \in Command : cmdOf[c] = "get_info"}
Told(m) == {c \in Query : m.responses[c] # 0}

Patience ==
    /\ Child = {}
    /\ IsFiniteSet(Query) /\ Cardinality(Query) + 1 < MAX_DRAIN_PER_TURN

(* A wait is armed between turns only, never while a question is on        *)
(* display, and no drain has taken more messages than those since.         *)
Alert ==
    /\ Once(messages, AnswerMessage)
    /\ s.digest = "none"
    /\ s.timer = "wait" =>
         /\ s.pc \in {"loop", "drain", "ended"} /\ s.status # "input_required"
         /\ s.pc = "drain" =>
              s.drained <= Cardinality(Told(s)) + (IF Within(messages, AnswerMessage) THEN 0 ELSE 1)

(* What a wait that is armed or held becomes.                              *)
Stays(m, n) ==
    /\ m.timer = "wait" =>
         n.timer = "wait" \/ n.heldWait # "none" \/ Within(n.stash, WaitItem) \/ n.result # "none"
    /\ m.heldWait = "some" =>
         n.heldWait # "none" \/ n.timer = "wait" \/ n.result # "none"

LEMMA ToldFinite ==
    ASSUME Patience, NEW m \in Fields
    PROVE  /\ IsFiniteSet(Told(m)) /\ Cardinality(Told(m)) \in Nat
           /\ Cardinality(Told(m)) + 1 < MAX_DRAIN_PER_TURN
  <1>1. Told(m) \in SUBSET Query /\ IsFiniteSet(Query)
    BY DEF Told, Patience
  <1>2. IsFiniteSet(Told(m)) /\ Cardinality(Told(m)) <= Cardinality(Query)
    BY <1>1, FS_Subset
  <1>3. Cardinality(Told(m)) \in Nat /\ Cardinality(Query) \in Nat
    BY <1>1, <1>2, FS_CardinalityType
  <1>4. MAX_DRAIN_PER_TURN \in Nat
    BY Bounds
  <1>5. QED
    BY <1>2, <1>3, <1>4 DEF Patience

LEMMA AnswerKinds ==
    /\ AnswerMessage \in Message /\ AnswerMessage.kind = "answer"
  BY DEF AnswerMessage, Message

LEMMA TailAnswers ==
    ASSUME TypeOK, Once(messages, AnswerMessage), messages # <<>>, messages' = Tail(messages)
    PROVE  /\ Once(messages', AnswerMessage)
           /\ Within(messages', AnswerMessage) => Within(messages, AnswerMessage)
           /\ Head(messages) = AnswerMessage =>
                Within(messages, AnswerMessage) /\ ~Within(messages', AnswerMessage)
           /\ Head(messages) # AnswerMessage =>
                (Within(messages', AnswerMessage) <=> Within(messages, AnswerMessage))
  <1>1. messages \in Seq(Message)
    BY DEF TypeOK
  <1>2. QED
    BY <1>1, WithinTail

LEMMA RunAlert ==
    ASSUME TypeOK, s \in Fields, Patience, Alert, Decide \/ Turn, messages' = messages
    PROVE  Alert' /\ Stays(s, s')
  <1>1. s.pc \in {"decide", "turn"}
    BY DEF Decide, Turn, ReplayToolAction, TakePendingPrompt, ProcessPrompt, ProcessAnswer,
           ProcessWaitTimer, ProcessCronTimer, ProcessIdleTimer, ProcessGraceTimer,
           ProcessStalePoll, ProcessPollResolved, ProcessPollAgain, ProcessShutdownPoll,
           ProcessDigest, DecideNothing, Popping, Fired, NothingPopped, Deciding,
           TurnReturns, TurnLosesState, TurnLosesConnection, TurnFails, Failing
  <1>2. s.timer # "wait" /\ s.digest = "none"
    BY <1>1 DEF Alert
  <1>3. Rearms(s, s')
    BY <1>2, DecideRearms, TurnRearms DEF Patience
  <1>4. QED
    BY <1>2, <1>3 DEF Rearms, Alert, Stays

LEMMA DrainAlert ==
    ASSUME TypeOK, s \in Fields, Patience, Alert,
           IterationCap \/ HistoryCap \/ StartDrain \/ TimerFires \/ DigestDue \/ Park \/ EndDrain
    PROVE  Alert' /\ Stays(s, s')
  <1>1. messages' = messages
    BY StepTyped
  <1>2. CASE IterationCap \/ HistoryCap
    <2>1. s' = ContinueAsNew(s)
      BY <1>2 DEF IterationCap, HistoryCap
    <2>2. /\ s'.timer = s.timer /\ s'.heldWait = s.heldWait /\ s'.digest = s.digest
          /\ s'.pc = "loop" /\ s'.status = s.status
      BY <2>1 DEF ContinueAsNew, Fields
    <2>3. QED
      BY <1>1, <2>2 DEF Alert, Stays
  <1>3. CASE StartDrain
    <2>1. s' = [s EXCEPT !.pc = "drain", !.loop = s.loop + 1, !.drained = 0, !.seen = {}]
      BY <1>3 DEF StartDrain
    <2>2. /\ s'.timer = s.timer /\ s'.heldWait = s.heldWait /\ s'.digest = s.digest
          /\ s'.pc = "drain" /\ s'.status = s.status /\ s'.drained = 0 /\ s'.responses = s.responses
      BY <2>1 DEF Fields
    <2>3. Told(s') = Told(s) /\ Cardinality(Told(s)) \in Nat
      BY <2>2, ToldFinite DEF Told
    <2>4. QED
      BY <1>1, <2>2, <2>3 DEF Alert, Stays
  <1>4. CASE TimerFires
    <2>1. PICK x \in Item : x = [kind |-> "timer", timer |-> s.timer]
      <3>1. [kind |-> "timer", timer |-> s.timer] \in Item
        BY <1>4, ItemKinds DEF TimerFires, Fields
      <3>2. QED
        BY <3>1
    <2>2. s' = [s EXCEPT !.stash = Append(s.stash, x), !.timer = "none", !.drained = s.drained + 1]
      BY <1>4, <2>1 DEF TimerFires
    <2>3. /\ s'.timer = "none" /\ s'.heldWait = s.heldWait /\ s'.digest = s.digest
          /\ s'.stash = Append(s.stash, x)
      BY <2>2 DEF Fields
    <2>4. s.timer = "wait" => Within(s'.stash, WaitItem)
      BY <2>1, <2>3, WithinAppend DEF Fields, Items, WaitItem
    <2>5. QED
      BY <1>1, <2>3, <2>4 DEF Alert, Stays
  <1>5. CASE DigestDue
    BY <1>5 DEF DigestDue, Alert
  <1>6. CASE Park
    <2>1. PICK status : s' = [s EXCEPT !.pc = "parked", !.status = status]
      BY <1>6 DEF Park
    <2>2. s.timer = "none"
      BY <1>6 DEF Park, Racing
    <2>3. s'.timer = s.timer /\ s'.heldWait = s.heldWait /\ s'.digest = s.digest
      BY <2>1 DEF Fields
    <2>4. QED
      BY <1>1, <2>2, <2>3 DEF Alert, Stays
  <1>7. CASE EndDrain
    <2>1. s.timer # "wait"
      <3>1. SUFFICES ASSUME s.timer = "wait" PROVE FALSE
        OBVIOUS
      <3>2. s.pc = "drain" /\ s.drained = MAX_DRAIN_PER_TURN
        BY <1>7, <3>1 DEF EndDrain, Racing
      <3>3. PICK k \in Nat : k = Cardinality(Told(s)) /\ k + 1 < MAX_DRAIN_PER_TURN
        BY ToldFinite
      <3>4. s.drained <= k + (IF Within(messages, AnswerMessage) THEN 0 ELSE 1)
        BY <3>1, <3>2, <3>3 DEF Alert
      <3>5. MAX_DRAIN_PER_TURN \in Nat
        BY Bounds
      <3>6. QED
        BY <3>2, <3>3, <3>4, <3>5
    <2>2. PICK n \in Fields : n = FlushStash(s)
      BY FlushTyped
    <2>3. n.timer = s.timer /\ n.heldWait = s.heldWait /\ n.digest = s.digest
      BY <2>2 DEF FlushStash, Fields
    <2>4. PICK point : s' = [n EXCEPT !.pc = point, !.drained = 0, !.seen = {}]
      BY <1>7, <2>2 DEF EndDrain, LeaveDrain
    <2>5. s'.timer = n.timer /\ s'.heldWait = n.heldWait /\ s'.digest = n.digest
      BY <2>2, <2>4 DEF Fields
    <2>6. QED
      BY <1>1, <2>1, <2>3, <2>5 DEF Alert, Stays
  <1>8. QED
    BY <1>2, <1>3, <1>4, <1>5, <1>6, <1>7

LEMMA EnvironmentAlert ==
    ASSUME TypeOK, s \in Fields, Patience, Alert, Environment
    PROVE  Alert' /\ Stays(s, s')
  <1>1. messages \in Seq(Message)
    BY DEF TypeOK
  <1>2. ~ChildStep
    BY DEF ChildStep, Patience
  <1>3. ASSUME NEW x \in Message, messages' = Append(messages, x), s' = s,
               x = AnswerMessage => ~Within(messages, AnswerMessage) /\ s.timer # "wait"
        PROVE  Alert' /\ Stays(s, s')
    <2>1. /\ Within(messages', AnswerMessage) <=> Within(messages, AnswerMessage) \/ x = AnswerMessage
          /\ Once(messages, AnswerMessage) => Once(messages', AnswerMessage)
      BY <1>1, <1>3, WithinAppend
    <2>2. QED
      BY <1>3, <2>1 DEF Alert, Stays
  <1>4. ASSUME NEW p \in Prompt, UserSends(p) PROVE Alert' /\ Stays(s, s')
    <2>1. PICK x \in Message : x = [kind |-> "prompt", prompt |-> p]
      BY DEF Message
    <2>2. x # AnswerMessage
      BY <2>1, AnswerKinds
    <2>3. QED
      BY <1>3, <1>4, <2>1, <2>2 DEF UserSends, Enqueue
  <1>5. ASSUME NEW c \in Command, ClientCommands(c) PROVE Alert' /\ Stays(s, s')
    <2>1. PICK x \in Message : x = [kind |-> "cmd", cmd |-> c]
      BY DEF Message
    <2>2. x # AnswerMessage
      BY <2>1, AnswerKinds
    <2>3. QED
      BY <1>3, <1>5, <2>1, <2>2 DEF ClientCommands, Enqueue
  <1>6. CASE UserAnswers
    <2>1. s.status = "input_required" /\ s.pc # "ended" /\ s' = s
      BY <1>6 DEF UserAnswers
    <2>2. messages' = Append(messages, AnswerMessage) /\ AnswerMessage \notin ToSet(messages)
      BY <1>6 DEF UserAnswers, Enqueue, AnswerMessage
    <2>3. s.timer # "wait"
      BY <2>1 DEF Alert
    <2>4. ~Within(messages, AnswerMessage)
      BY <2>2, WithinToSet
    <2>5. QED
      BY <1>3, <2>1, <2>2, <2>3, <2>4, AnswerKinds
  <1>7. QED
    BY <1>2, <1>4, <1>5, <1>6 DEF Environment

LEMMA DequeueAlert ==
    ASSUME TypeOK, Awake, Booked, s \in Fields, Patience, Alert, Dequeue
    PROVE  Alert' /\ Stays(s, s')
  <1>1. ASSUME NEW x, Take(x)
        PROVE  /\ \E d \in Fields :
                    /\ d = Dequeued /\ d.timer = s.timer /\ d.heldWait = s.heldWait
                    /\ d.digest = s.digest /\ d.status = s.status /\ d.pc = "drain"
                    /\ d.drained = s.drained + 1 /\ d.responses = s.responses
                    /\ d.result = s.result
               /\ s.timer = "wait" => s.pc = "drain"
               /\ messages # <<>> /\ Head(messages) = x /\ messages' = Tail(messages)
    <2>1. PICK d \in Fields : d = Dequeued
      BY <1>1, TakeTyped
    <2>2. /\ d.timer = s.timer /\ d.heldWait = s.heldWait /\ d.digest = s.digest
          /\ d.status = s.status /\ d.pc = "drain" /\ d.drained = s.drained + 1
          /\ d.responses = s.responses /\ d.result = s.result
      BY <2>1 DEF Dequeued, Fields
    <2>3. /\ messages # <<>> /\ Head(messages) = x /\ messages' = Tail(messages)
          /\ s.pc \in {"drain", "parked"}
      BY <1>1 DEF Take, MayDequeue, Draining
    <2>4. s.timer = "wait" => s.pc = "drain"
      BY <2>3 DEF Alert
    <2>5. QED
      BY <2>1, <2>2, <2>3, <2>4
  <1>2. s.drained \in Nat /\ Cardinality(Told(s)) \in Nat
    BY Bounds, ToldFinite DEF Fields, Drains
  <1>3. ASSUME NEW p \in Prompt, RoutePrompt(p) PROVE Alert' /\ Stays(s, s')
    <2>1. Take([kind |-> "prompt", prompt |-> p])
      BY <1>3 DEF RoutePrompt
    <2>2. PICK d \in Fields : d = Dequeued /\ d.timer = s.timer /\ d.heldWait = s.heldWait
      BY <1>1, <2>1
    <2>3. PICK m \in Interruptions(d) :
            \E y : s' = [m EXCEPT !.digest = "none", !.stash = Append(m.stash, y)]
      BY <1>3, <2>2 DEF RoutePrompt
    <2>4. m \in Fields
      BY <2>2, <2>3, InterruptionsTyped
    <2>5. CASE d.timer = "wait"
      <3>1. PICK left \in {"zero", "some"} : m = [d EXCEPT !.timer = "none", !.heldWait = left]
        BY <2>3, <2>5 DEF Interruptions
      <3>2. m.timer = "none" /\ m.heldWait = left
        BY <2>2, <3>1 DEF Fields
      <3>3. s'.timer = "none" /\ s'.heldWait = left /\ s'.digest = "none"
        BY <2>3, <2>4, <3>2 DEF Fields
      <3>4. messages # <<>> /\ messages' = Tail(messages)
        BY <1>1, <2>1
      <3>5. QED
        BY <3>1, <3>3, <3>4, TailAnswers DEF Alert, Stays
    <2>6. CASE d.timer # "wait"
      <3>1. \/ \E left : m = [d EXCEPT !.timer = "none", !.heldCron = left]
            \/ m = [d EXCEPT !.timer = "none"] \/ m = [d EXCEPT !.timer = "none", !.awaited = {}]
            \/ m = d
        BY <2>3, <2>6 DEF Interruptions
      <3>2. m.timer # "wait" /\ m.heldWait = d.heldWait
        <4>1. DOMAIN d = DOMAIN s /\ {"timer", "heldWait", "heldCron", "awaited"} \subseteq DOMAIN d
          BY <2>2 DEF Fields
        <4>2. CASE \E left : m = [d EXCEPT !.timer = "none", !.heldCron = left]
          BY <4>1, <4>2
        <4>3. CASE m = [d EXCEPT !.timer = "none"] \/ m = [d EXCEPT !.timer = "none", !.awaited = {}]
          BY <4>1, <4>3
        <4>4. CASE m = d
          BY <2>6, <4>4
        <4>5. QED
          BY <3>1, <4>2, <4>3, <4>4
      <3>3. s'.timer # "wait" /\ s'.heldWait = s.heldWait /\ s'.digest = "none"
        BY <2>2, <2>3, <2>4, <3>2 DEF Fields
      <3>4. messages # <<>> /\ messages' = Tail(messages)
        BY <1>1, <2>1
      <3>5. QED
        BY <2>2, <2>6, <3>3, <3>4, TailAnswers DEF Alert, Stays
    <2>7. QED
      BY <2>5, <2>6
  <1>4. CASE RouteAnswer
    <2>1. Take(AnswerMessage)
      BY <1>4 DEF RouteAnswer, AnswerMessage
    <2>2. PICK d \in Fields :
            /\ d = Dequeued /\ d.timer = s.timer /\ d.heldWait = s.heldWait
            /\ d.digest = s.digest /\ d.status = s.status /\ d.pc = "drain"
            /\ d.drained = s.drained + 1 /\ d.responses = s.responses
      BY <1>1, <2>1
    <2>3. PICK y : s' = [d EXCEPT !.stash = Append(d.stash, y)]
      BY <1>4, <2>2 DEF RouteAnswer
    <2>4. /\ s'.timer = s.timer /\ s'.heldWait = s.heldWait
          /\ s'.digest = s.digest /\ s'.status = s.status /\ s'.pc = "drain"
          /\ s'.drained = s.drained + 1 /\ s'.responses = s.responses
      BY <2>2, <2>3 DEF Fields
    <2>5. /\ messages # <<>> /\ Head(messages) = AnswerMessage /\ messages' = Tail(messages)
          /\ (s.timer = "wait" => s.pc = "drain")
      BY <1>1, <2>1
    <2>6. /\ Once(messages', AnswerMessage)
          /\ Within(messages, AnswerMessage) /\ ~Within(messages', AnswerMessage)
      BY <2>5, TailAnswers DEF Alert
    <2>7. PICK k \in Nat : k = Cardinality(Told(s)) /\ Told(s') = Told(s)
      BY <1>2, <2>4 DEF Told
    <2>8. s.timer = "wait" => s'.drained <= k + 1
      BY <1>2, <2>4, <2>5, <2>6, <2>7 DEF Alert
    <2>9. QED
      BY <2>4, <2>6, <2>7, <2>8 DEF Alert, Stays
  <1>5. ASSUME NEW c \in Command, Take(CmdMessage(c))
        PROVE  /\ Once(messages', AnswerMessage)
               /\ Within(messages', AnswerMessage) <=> Within(messages, AnswerMessage)
               /\ s.timer = "wait" => s.pc = "drain"
               /\ s.responses[c] = 0
               /\ \E r \in Fields :
                    /\ r = Respond(FlushStash(Dequeued), c)
                    /\ r.timer = s.timer /\ r.heldWait = s.heldWait /\ r.digest = s.digest
                    /\ r.pc = "drain" /\ r.drained = s.drained + 1
                    /\ r.responses = [s.responses EXCEPT ![c] = s.responses[c] + 1]
    <2>1. PICK d \in Fields :
            /\ d = Dequeued /\ d.timer = s.timer /\ d.heldWait = s.heldWait
            /\ d.digest = s.digest /\ d.pc = "drain"
            /\ d.drained = s.drained + 1 /\ d.responses = s.responses
      BY <1>1, <1>5
    <2>2. /\ messages # <<>> /\ Head(messages) = CmdMessage(c) /\ messages' = Tail(messages)
          /\ (s.timer = "wait" => s.pc = "drain")
      BY <1>1, <1>5
    <2>3. CmdMessage(c) # AnswerMessage
      BY CmdKinds, AnswerKinds
    <2>4. PICK f \in Fields : f = FlushStash(d)
      BY FlushTyped
    <2>5. /\ f.timer = d.timer /\ f.heldWait = d.heldWait /\ f.digest = d.digest
          /\ f.pc = d.pc /\ f.drained = d.drained /\ f.responses = d.responses
      BY <2>1, <2>4 DEF FlushStash, Fields
    <2>6. PICK r \in Fields : r = Respond(f, c)
      BY <2>4, RespondTyped
    <2>7. PICK responses : responses = [f.responses EXCEPT ![c] = f.responses[c] + 1]
      OBVIOUS
    <2>8. r = [f EXCEPT !.responses = responses]
      BY <2>6, <2>7, Zenon DEF Respond
    <2>9. /\ r.timer = f.timer /\ r.heldWait = f.heldWait /\ r.digest = f.digest
          /\ r.pc = f.pc /\ r.drained = f.drained /\ r.responses = responses
      BY <2>4, <2>8 DEF Fields
    <2>10. s.responses[c] = 0
      <3>1. CmdMessage(c) \in Message
        BY CmdKinds
      <3>2. Within(messages, CmdMessage(c))
        BY <2>2, WithinTail DEF TypeOK
      <3>3. Ledger(c)
        BY DEF Booked
      <3>4. QED
        BY <3>2, <3>3 DEF Ledger, Asked
    <2>11. /\ Once(messages', AnswerMessage)
           /\ Within(messages', AnswerMessage) <=> Within(messages, AnswerMessage)
      BY <2>2, <2>3, TailAnswers DEF Alert
    <2>12. r.responses = [s.responses EXCEPT ![c] = s.responses[c] + 1]
      BY <2>1, <2>5, <2>7, <2>9
    <2>13. r = Respond(FlushStash(Dequeued), c)
      BY <2>1, <2>4, <2>6
    <2>14. QED
      BY <2>1, <2>2, <2>5, <2>9, <2>10, <2>11, <2>12, <2>13
  <1>6. ASSUME NEW c \in Command, RouteQuery(c) PROVE Alert' /\ Stays(s, s')
    <2>1. Take(CmdMessage(c)) /\ c \in Query
      BY <1>6 DEF RouteQuery, CmdMessage, Query
    <2>2. PICK r \in Fields :
            /\ r = Respond(FlushStash(Dequeued), c)
            /\ r.timer = s.timer /\ r.heldWait = s.heldWait /\ r.digest = s.digest
            /\ r.pc = "drain" /\ r.drained = s.drained + 1
            /\ r.responses = [s.responses EXCEPT ![c] = s.responses[c] + 1]
      BY <1>5, <2>1
    <2>3. PICK n : n = [r EXCEPT !.status = "idle"] /\ s' = AfterCommand(n)
      BY <1>6, <2>2 DEF RouteQuery
    <2>4. /\ n.timer = r.timer /\ n.heldWait = r.heldWait /\ n.digest = r.digest
          /\ n.pc = r.pc /\ n.drained = r.drained /\ n.responses = r.responses
          /\ n.status = "idle" /\ DOMAIN n = DOMAIN r
      BY <2>2, <2>3 DEF Fields
    <2>5. s' = n \/ s' = [n EXCEPT !.pc = "ended"]
      BY <2>3 DEF AfterCommand
    <2>6. /\ s'.timer = n.timer /\ s'.heldWait = n.heldWait /\ s'.digest = n.digest
          /\ s'.pc \in {"drain", "ended"} /\ s'.drained = n.drained /\ s'.responses = n.responses
          /\ s'.status = "idle"
      BY <2>2, <2>4, <2>5 DEF Fields
    <2>7. s.responses \in [Command -> Nat] /\ s.responses[c] = 0
      BY <1>5, <2>1 DEF Fields, Responses
    <2>8. Told(s') = Told(s) \union {c} /\ c \notin Told(s)
      BY <2>1, <2>2, <2>4, <2>6, <2>7 DEF Told, Query
    <2>9. PICK k \in Nat : k = Cardinality(Told(s)) /\ Cardinality(Told(s')) = k + 1
      BY <1>2, <2>8, ToldFinite, FS_AddElement
    <2>10. PICK extra \in {0, 1} : extra = (IF Within(messages, AnswerMessage) THEN 0 ELSE 1)
      OBVIOUS
    <2>11. s.timer = "wait" => s.drained <= k + extra
      BY <1>5, <2>1, <2>9, <2>10 DEF Alert
    <2>12. s.timer = "wait" => s'.drained <= (k + 1) + extra
      BY <1>2, <2>2, <2>4, <2>6, <2>11
    <2>13. /\ Once(messages', AnswerMessage)
           /\ extra = (IF Within(messages', AnswerMessage) THEN 0 ELSE 1)
      BY <1>5, <2>1, <2>10
    <2>14. s'.timer = s.timer /\ s'.heldWait = s.heldWait /\ s'.digest = "none"
      BY <2>2, <2>4, <2>6 DEF Alert
    <2>15. QED
      BY <2>6, <2>9, <2>12, <2>13, <2>14 DEF Alert, Stays
  <1>7. ASSUME NEW c \in Command, RouteSetModel(c) PROVE Alert' /\ Stays(s, s')
    <2>1. Take(CmdMessage(c))
      BY <1>7 DEF RouteSetModel, CmdMessage
    <2>2. PICK r \in Fields :
            /\ r = Respond(FlushStash(Dequeued), c)
            /\ r.timer = s.timer /\ r.heldWait = s.heldWait /\ r.digest = s.digest
      BY <1>5, <2>1
    <2>3. PICK n \in Fields : n = ContinueAsNew(r)
      BY <2>2, ContinueAsNewTyped
    <2>4. n.timer = r.timer /\ n.heldWait = r.heldWait /\ n.digest = r.digest /\ n.pc = "loop"
      BY <2>2, <2>3 DEF ContinueAsNew, Fields
    <2>5. s' = [n EXCEPT !.status = "idle"]
      BY <1>7, <2>2, <2>3 DEF RouteSetModel
    <2>6. /\ s'.timer = s.timer /\ s'.heldWait = s.heldWait /\ s'.digest = s.digest
          /\ s'.pc = "loop" /\ s'.status = "idle"
      BY <2>2, <2>3, <2>4, <2>5 DEF Fields
    <2>7. Once(messages', AnswerMessage)
      BY <1>5, <2>1
    <2>8. QED
      BY <2>6, <2>7 DEF Alert, Stays
  <1>8. ASSUME NEW c \in Command PROVE ~RouteSecondShutdown(c) /\ ~RouteShutdownCascade(c)
    <2>1. ~RouteSecondShutdown(c)
      BY DEF RouteSecondShutdown, Booked, ShutdownOwned, Patience
    <2>2. ~RouteShutdownCascade(c)
      BY DEF RouteShutdownCascade, Live, Patience
    <2>3. QED
      BY <2>1, <2>2
  <1>9. ASSUME NEW c \in Command, RouteShutdownNow(c) PROVE Alert' /\ Stays(s, s')
    <2>1. Take(CmdMessage(c)) /\ cmdOf[c] \in Signal
      BY <1>9 DEF RouteShutdownNow, Signal, CmdMessage
    <2>2. FlushStash(Dequeued) \in Fields
      BY <1>1, <2>1, FlushTyped
    <2>3. PICK m \in Refreshes(FlushStash(Dequeued)) :
            s' = [FinishShutdown(m, cmdOf[c], c) EXCEPT !.pc = "ended"]
      BY <1>9 DEF RouteShutdownNow
    <2>4. m \in Fields
      BY <2>2, RefreshesTyped DEF TypeOK
    <2>5. PICK n \in Fields : n = FinishShutdown(m, cmdOf[c], c)
      BY <2>1, <2>4, FinishTyped
    <2>6. PICK r \in Fields : r = Respond(m, c)
      BY <2>4, RespondTyped
    <2>7. n.timer = "none" /\ n.digest = "none" /\ n.result # "none"
      BY <2>1, <2>5, <2>6 DEF FinishShutdown, Fields, Signal
    <2>8. s'.timer = "none" /\ s'.digest = "none" /\ s'.result # "none"
      BY <2>3, <2>5, <2>7 DEF Fields
    <2>9. Once(messages', AnswerMessage)
      BY <1>5, <2>1
    <2>10. QED
      BY <2>8, <2>9 DEF Alert, Stays
  <1>10. QED
    BY <1>3, <1>4, <1>6, <1>7, <1>8, <1>9 DEF Dequeue, Patience

LEMMA InitAlert == Init => Alert
  <1>1. SUFFICES ASSUME Init PROVE Alert
    OBVIOUS
  <1>2. messages = <<>> /\ s.digest = "none" /\ s.timer = "none"
    BY <1>1 DEF Init
  <1>3. QED
    BY <1>2 DEF Alert, Once

LEMMA NextAlert ==
    ASSUME Patience
    PROVE  TypeOK /\ Awake /\ Booked /\ Alert /\ [Next]_vars => Alert' /\ Stays(s, s')
  <1>1. SUFFICES ASSUME TypeOK, Awake, Booked, Alert, [Next]_vars PROVE Alert' /\ Stays(s, s')
    OBVIOUS
  <1>2. s \in Fields
    BY <1>1, SessionFields DEF TypeOK
  <1>3. CASE IterationCap \/ HistoryCap \/ StartDrain \/ TimerFires \/ DigestDue \/ Park \/ EndDrain
    BY <1>1, <1>2, <1>3, DrainAlert
  <1>4. CASE Dequeue
    BY <1>1, <1>2, <1>4, DequeueAlert
  <1>5. CASE Decide
    <2>1. messages' = messages
      BY <1>5 DEF Decide, ReplayToolAction, TakePendingPrompt, ProcessPrompt, ProcessAnswer,
                  ProcessWaitTimer, ProcessCronTimer, ProcessIdleTimer, ProcessGraceTimer,
                  ProcessStalePoll, ProcessPollResolved, ProcessPollAgain, ProcessShutdownPoll,
                  ProcessDigest, DecideNothing, Popping, Fired, NothingPopped
    <2>2. QED
      BY <1>1, <1>2, <1>5, <2>1, RunAlert
  <1>6. CASE Turn
    <2>1. messages' = messages
      BY <1>6 DEF Turn, TurnReturns, TurnLosesState, TurnLosesConnection, TurnFails, Failing
    <2>2. QED
      BY <1>1, <1>2, <1>6, <2>1, RunAlert
  <1>7. CASE Environment
    BY <1>1, <1>2, <1>7, EnvironmentAlert
  <1>8. CASE UNCHANGED vars
    <2>1. messages' = messages /\ s' = s
      BY <1>8 DEF vars
    <2>2. QED
      BY <1>1, <2>1 DEF Alert, Stays
  <1>9. QED
    BY <1>1, <1>3, <1>4, <1>5, <1>6, <1>7, <1>8 DEF Next, Loop

(* A wait that has fired stays in the buffer until it is processed.        *)
Fires(m) == Within(m.stash, WaitItem) \/ Within(m.fifo, WaitItem)

LEMMA WaitKind == WaitItem \in Item /\ \A p \in Prompt : WaitItem # PromptItem(p)
  <1>1. WaitItem \in Item
    BY Literals, ItemKinds DEF WaitItem
  <1>2. WaitItem.kind = "timer"
    BY DEF WaitItem
  <1>3. QED
    BY <1>1, <1>2, PromptKinds

LEMMA BufferWaits ==
    ASSUME TypeOK, s \in Fields, Awake, [Next]_vars, Fires(s)
    PROVE  \/ Fires(s')
           \/ s.fifo # <<>> /\ Head(s.fifo) = WaitItem /\ Len(s'.fifo) < Len(s.fifo)
  <1>1. s.stash \in Seq(Item) /\ s.fifo \in Seq(Item)
    BY DEF Fields, Items
  <1>2. PICK x \in Item : x = WaitItem /\ \A p \in Prompt : x # PromptItem(p)
    BY WaitKind
  <1>3. SUFFICES \/ Within(s'.stash, x) \/ Within(s'.fifo, x)
                 \/ s.fifo # <<>> /\ Head(s.fifo) = x /\ Len(s'.fifo) < Len(s.fifo)
    BY <1>2 DEF Fires
  <1>4. Within(s.stash, x) \/ Within(s.fifo, x)
    BY <1>2 DEF Fires
  <1>5. CASE s'.stash = s.stash /\ s'.fifo = s.fifo
    BY <1>4, <1>5
  <1>6. CASE s'.stash = <<>> /\ s'.fifo = s.fifo \o s.stash
    <2>1. Within(s.fifo \o s.stash, x) <=> Within(s.fifo, x) \/ Within(s.stash, x)
      BY <1>1, WithinConcat
    <2>2. QED
      BY <1>4, <1>6, <2>1
  <1>7. CASE s'.fifo = s.fifo /\ \E y \in Item : s'.stash = Append(s.stash, y)
    <2>1. PICK y \in Item : s'.stash = Append(s.stash, y)
      BY <1>7
    <2>2. Within(Append(s.stash, y), x) <=> Within(s.stash, x) \/ y = x
      BY <1>1, WithinAppend
    <2>3. QED
      BY <1>4, <1>7, <2>1, <2>2
  <1>8. CASE s'.stash = s.stash /\ s.fifo # <<>> /\ s'.fifo = Tail(s.fifo)
    <2>1. Within(s.fifo, x) <=> Head(s.fifo) = x \/ Within(Tail(s.fifo), x)
      BY <1>1, <1>8, WithinTail
    <2>2. Len(Tail(s.fifo)) < Len(s.fifo)
      BY <1>1, <1>8, HeadTailProperties
    <2>3. QED
      BY <1>4, <1>8, <2>1, <2>2
  <1>9. CASE Passes
    BY <1>5, <1>6, <1>7, <1>8, <1>9 DEF Passes, BufferPasses
  <1>10. CASE Ends
    BY <1>5, <1>10 DEF Ends
  <1>11. ASSUME NEW p \in Prompt, Sends(p) \/ Routes(p)
         PROVE  \/ Within(s'.stash, x) \/ Within(s'.fifo, x)
                \/ s.fifo # <<>> /\ Head(s.fifo) = x /\ Len(s'.fifo) < Len(s.fifo)
    <2>1. CASE Sends(p)
      <3>1. s'.stash = s.stash /\ s'.fifo = s.fifo
        BY <2>1 DEF Sends
      <3>2. QED
        BY <1>5, <3>1
    <2>2. CASE Routes(p)
      <3>1. s'.fifo = s.fifo /\ s'.stash = Append(s.stash, PromptItem(p)) /\ PromptItem(p) \in Item
        BY <2>2, PromptKinds DEF Routes
      <3>2. QED
        BY <1>7, <3>1
    <2>3. QED
      BY <1>11, <2>1, <2>2
  <1>12. ASSUME NEW parts \in SUBSET Prompt, Starts(parts)
         PROVE  \/ Within(s'.stash, x) \/ Within(s'.fifo, x)
                \/ s.fifo # <<>> /\ Head(s.fifo) = x /\ Len(s'.fifo) < Len(s.fifo)
    BY <1>5, <1>8, <1>12 DEF Starts, Takes
  <1>13. QED
    BY <1>9, <1>10, <1>11, <1>12, PromptMoves

LEMMA FiresBuffered ==
    ASSUME NEW m \in Fields PROVE WaitItem \in ToSet(Buffered(m)) <=> Fires(m)
  <1>1. m.stash \in Seq(Item) /\ m.fifo \in Seq(Item)
    BY DEF Fields, Items
  <1>2. PICK x : x = WaitItem
    OBVIOUS
  <1>3. Within(m.stash \o m.fifo, x) <=> Within(m.stash, x) \/ Within(m.fifo, x)
    BY <1>1, WithinConcat
  <1>4. PICK q \in Seq(Item) : q = m.stash \o m.fifo
    BY <1>1, ConcatProperties
  <1>5. x \in ToSet(q) <=> Within(q, x)
    <2>1. DOMAIN q = 1 .. Len(q)
      BY <1>4, LenProperties
    <2>2. QED
      BY <2>1 DEF ToSet, Within
  <1>6. QED
    BY <1>2, <1>3, <1>4, <1>5 DEF Buffered, Fires

(* A wait of the model with time left is kept through every drain,         *)
(* interruption, hydration, retry and continueAsNew of a session without   *)
(* sub-agents: it stays armed, or is held while a turn runs, or has fired  *)
(* and is buffered, until it is processed, has no time left, or the        *)
(* session concludes.  The hypothesis excludes the two ways to run a turn  *)
(* on buffered work beside a wait that is armed, and to arm another timer  *)
(* in its place: a drain that ends because news of sub-agents is due, and  *)
(* one that ends at its limit, full of queries and of an answer, which do  *)
(* not interrupt the wait.                                                 *)
THEOREM WaitIsKept == ASSUME Patience PROVE Spec => WaitKept
  <1>1. TypeOK /\ Awake /\ Booked /\ Alert /\ [Next]_vars =>
          [HasWait(s) /\ ~HasWait(s') =>
             \/ s'.heldWait = "zero"
             \/ s.fifo # <<>> /\ Head(s.fifo) = WaitItem /\ Len(s'.fifo) < Len(s.fifo)
             \/ s'.shutdown # NoShutdown \/ s'.result # "none"]_vars
    <2>1. SUFFICES ASSUME TypeOK, Awake, Booked, Alert, [Next]_vars, HasWait(s), ~HasWait(s')
                   PROVE  \/ s'.heldWait = "zero"
                          \/ s.fifo # <<>> /\ Head(s.fifo) = WaitItem /\ Len(s'.fifo) < Len(s.fifo)
                          \/ s'.shutdown # NoShutdown \/ s'.result # "none"
      OBVIOUS
    <2>2. s \in Fields /\ s' \in Fields
      BY <2>1, NextTyped, SessionFields DEF TypeOK
    <2>3. Stays(s, s')
      BY <2>1, NextAlert
    <2>4. s'.heldWait \in Left
      BY <2>2 DEF Fields
    <2>5. s'.timer # "wait" /\ s'.heldWait # "some" /\ ~Fires(s')
      BY <2>1, <2>2, FiresBuffered DEF HasWait
    <2>6. CASE s.timer = "wait" \/ s.heldWait = "some"
      BY <2>3, <2>4, <2>5, <2>6 DEF Stays, Fires, Left
    <2>7. CASE Fires(s)
      BY <2>1, <2>2, <2>5, <2>7, BufferWaits
    <2>8. QED
      BY <2>1, <2>2, <2>6, <2>7, FiresBuffered DEF HasWait
  <1>2. QED
    BY <1>1, InitTyped, NextTyped, InitBooked, NextBooked, InitAlert, NextAlert, PTL
       DEF Spec, WaitKept

----------------------------------------------------------------------------
(* A session on a schedule is never asleep without something that wakes it. *)
(* Roused: a timer, an open question, a prompt to run, an action of a turn *)
(* to replay, or a buffered item that starts a turn.  Due: the session has *)
(* a schedule, or an action still to be replayed sets one.                 *)
PollItem == [kind |-> "timer", timer |-> "agent-poll"]

Has(m, x) == Within(m.stash, x) \/ Within(m.fifo, x)
Wakes(m, x) == x.kind = "prompt" \/ x \in {WaitItem, CronItem} \/ (x = PollItem /\ m.awaited # {})
Pends(m) == \E i \in 1 .. Len(m.toolActions) : m.toolActions[i] \notin Cron

Roused(m) ==
    \/ m.timer \in {"wait", "cron"} \/ (m.timer = "agent-poll" /\ m.awaited # {})
    \/ m.question \/ m.pendingPrompt # {} \/ Pends(m)
    \/ \E x : Has(m, x) /\ Wakes(m, x)

Due(m) == m.cron \/ \E i \in 1 .. Len(m.toolActions) : m.toolActions[i] = "cron_set"
Sound(m) == Due(m) => Roused(m)

(* What neither of them depends on may change.                             *)
Beside(m, n) ==
    /\ n.timer = m.timer /\ n.question = m.question /\ n.pendingPrompt = m.pendingPrompt
    /\ n.stash = m.stash /\ n.fifo = m.fifo /\ n.awaited = m.awaited
Like(m, n) == Beside(m, n) /\ n.toolActions = m.toolActions /\ n.cron = m.cron

LEMMA LikeTwice == \A k, m, n : Like(k, m) /\ Like(m, n) => Like(k, n)
  BY DEF Like, Beside

LEMMA LikeSound ==
    ASSUME NEW m, NEW n, Like(m, n)
    PROVE  /\ Sound(n) <=> Sound(m)
           /\ Pends(n) <=> Pends(m)
           /\ Due(n) <=> Due(m)
  BY DEF Like, Beside, Sound, Due, Roused, Pends, Has, Wakes

LEMMA HelpersLike ==
    ASSUME NEW m \in Fields
    PROVE  /\ Like(m, NextIteration(m)) /\ Like(m, ContinueAsNew(m))
           /\ \A d \in Dehydrations(m) : Like(m, d)
           /\ \A r \in Refreshes(m) : Like(m, r) /\ r.turn = m.turn /\ r.retryCount = m.retryCount
  <1>1. Like(m, NextIteration(m)) /\ Like(m, ContinueAsNew(m))
    BY DEF NextIteration, ContinueAsNew, Fields, Like, Beside
  <1>2. \A d \in Dehydrations(m) : Like(m, d)
    BY DEF Dehydrations, Fields, Like, Beside
  <1>3. \A r \in Refreshes(m) : Like(m, r) /\ r.turn = m.turn /\ r.retryCount = m.retryCount
    BY DEF Refreshes, Refreshed, Fields, Like, Beside
  <1>4. QED
    BY <1>1, <1>2, <1>3

(* The items of stash and buffer.                                          *)
LEMMA FlushHas ==
    ASSUME NEW m \in Fields
    PROVE  \E n \in Fields :
             /\ n = FlushStash(m) /\ n.stash = <<>> /\ n.pc = m.pc
             /\ \A x : Has(n, x) <=> Has(m, x)
             /\ n.timer = m.timer /\ n.question = m.question /\ n.pendingPrompt = m.pendingPrompt
             /\ n.awaited = m.awaited /\ n.toolActions = m.toolActions /\ n.cron = m.cron
             /\ n.result = m.result /\ n.drained = m.drained /\ n.shutdown = m.shutdown
             /\ n.status = m.status
  <1>1. m.stash \in Seq(Item) /\ m.fifo \in Seq(Item)
    BY DEF Fields, Items
  <1>2. PICK n \in Fields : n = FlushStash(m)
    BY FlushTyped
  <1>3. /\ n.stash = <<>> /\ n.fifo = m.fifo \o m.stash /\ n.pc = m.pc
        /\ n.timer = m.timer /\ n.question = m.question /\ n.pendingPrompt = m.pendingPrompt
        /\ n.awaited = m.awaited /\ n.toolActions = m.toolActions /\ n.cron = m.cron
        /\ n.result = m.result /\ n.drained = m.drained /\ n.shutdown = m.shutdown
        /\ n.status = m.status
    BY <1>2 DEF FlushStash, Fields
  <1>4. ASSUME NEW x PROVE Has(n, x) <=> Has(m, x)
    <2>1. Within(m.fifo \o m.stash, x) <=> Within(m.fifo, x) \/ Within(m.stash, x)
      BY <1>1, WithinConcat
    <2>2. ~Within(<<>>, x)
      BY DEF Within
    <2>3. QED
      BY <1>3, <2>1, <2>2 DEF Has
  <1>5. QED
    BY <1>2, <1>3, <1>4

LEMMA AppendHas ==
    ASSUME NEW m \in Fields, NEW y \in Item, NEW n, n.stash = Append(m.stash, y), n.fifo = m.fifo
    PROVE  \A x : Has(n, x) <=> Has(m, x) \/ x = y
  <1>1. m.stash \in Seq(Item)
    BY DEF Fields, Items
  <1>2. ASSUME NEW x PROVE Within(Append(m.stash, y), x) <=> Within(m.stash, x) \/ y = x
    BY <1>1, WithinAppend
  <1>3. QED
    BY <1>2 DEF Has

LEMMA TailHas ==
    ASSUME NEW m \in Fields, NEW n, n.stash = m.stash, m.fifo # <<>>, n.fifo = Tail(m.fifo)
    PROVE  \A x : Has(m, x) => x = Head(m.fifo) \/ Has(n, x)
  <1>1. m.fifo \in Seq(Item)
    BY DEF Fields, Items
  <1>2. ASSUME NEW x PROVE Within(m.fifo, x) <=> Head(m.fifo) = x \/ Within(Tail(m.fifo), x)
    BY <1>1, WithinTail
  <1>3. QED
    BY <1>2 DEF Has

(* The schedules at the front of what a turn has queued are applied.       *)
LEMMA CronsDrained ==
    ASSUME NEW m \in Fields
    PROVE  \E n \in Fields :
             /\ n = drainLeadingQueuedCronActions(m) /\ Beside(m, n)
             /\ n.turn = m.turn /\ n.retryCount = m.retryCount /\ n.pc = m.pc
             /\ Due(n) => Due(m)
             /\ Pends(m) => Pends(n)
             /\ n.toolActions # <<>> => Pends(n)
  <1>1. PICK actions \in Seq(QueuedAction) : actions = m.toolActions
    BY DEF Fields, Actions
  <1>2. PICK k \in 0 .. Len(actions) :
          /\ k = LeadingCrons(actions) /\ \A i \in 1 .. k : actions[i] \in Cron
          /\ k < Len(actions) => actions[k + 1] \notin Cron
    BY LeadingOnes
  <1>3. PICK n \in Fields : n = drainLeadingQueuedCronActions(m)
    BY CronsDrainedTyped
  <1>4. CASE k = 0
    <2>1. n = m
      BY <1>1, <1>2, <1>3, <1>4 DEF drainLeadingQueuedCronActions
    <2>2. ASSUME m.toolActions # <<>> PROVE Pends(m)
      <3>1. Len(actions) \in Nat /\ Len(actions) # 0
        BY <1>1, <2>2, EmptySeq
      <3>2. 1 \in 1 .. Len(actions) /\ actions[1] \notin Cron
        BY <1>2, <1>4, <3>1
      <3>3. QED
        BY <1>1, <3>2 DEF Pends
    <2>3. QED
      BY <1>3, <2>1, <2>2 DEF Beside
  <1>5. CASE k # 0
    <2>1. /\ Beside(m, n) /\ n.turn = m.turn /\ n.retryCount = m.retryCount /\ n.pc = m.pc
          /\ n.cron = (actions[k] = "cron_set") /\ n.toolActions = SubSeq(actions, k + 1, Len(actions))
      BY <1>1, <1>2, <1>3, <1>5 DEF drainLeadingQueuedCronActions, Fields, Beside
    <2>2. PICK rest : rest = SubSeq(actions, k + 1, Len(actions))
      OBVIOUS
    <2>3. /\ Len(rest) = Len(actions) - k /\ Len(actions) \in Nat /\ k \in Nat
          /\ \A i \in 1 .. Len(rest) : rest[i] = actions[k + i] /\ k + i \in 1 .. Len(actions)
          /\ \A i \in k + 1 .. Len(actions) : i - k \in 1 .. Len(rest) /\ rest[i - k] = actions[i]
      <3>1. Len(actions) \in Nat /\ k \in Nat /\ k <= Len(actions)
        BY <1>2
      <3>2. /\ k + 1 \in 1 .. Len(actions) + 1 /\ k + 1 \in Int /\ Len(actions) \in Int
        BY <3>1
      <3>3. Len(rest) = Len(actions) - k /\ \A i \in 1 .. Len(rest) : rest[i] = actions[k + i]
        BY <3>1, <3>2, <2>2, SubSeqProperties
      <3>4. \A i \in 1 .. Len(rest) : k + i \in 1 .. Len(actions)
        BY <3>1, <3>3
      <3>5. ASSUME NEW i \in k + 1 .. Len(actions)
            PROVE  i - k \in 1 .. Len(rest) /\ rest[i - k] = actions[i]
        <4>1. i - k \in 1 .. Len(rest) /\ k + (i - k) = i
          BY <3>1, <3>3
        <4>2. rest[i - k] = actions[k + (i - k)]
          BY <3>3, <4>1
        <4>3. QED
          BY <4>1, <4>2
      <3>6. QED
        BY <3>1, <3>3, <3>4, <3>5
    <2>4. k \in 1 .. Len(actions)
      BY <1>2, <1>5
    <2>5. ASSUME Due(n) PROVE Due(m)
      <3>1. CASE n.cron
        <4>1. actions[k] = "cron_set"
          BY <2>1, <3>1
        <4>2. QED
          BY <1>1, <2>4, <4>1 DEF Due
      <3>2. CASE \E i \in 1 .. Len(n.toolActions) : n.toolActions[i] = "cron_set"
        <4>1. PICK i \in 1 .. Len(rest) : rest[i] = "cron_set"
          BY <2>1, <2>2, <3>2
        <4>2. actions[k + i] = "cron_set" /\ k + i \in 1 .. Len(actions)
          BY <2>3, <4>1
        <4>3. QED
          BY <1>1, <4>2 DEF Due
      <3>3. QED
        BY <2>5, <3>1, <3>2 DEF Due
    <2>6. ASSUME Pends(m) PROVE Pends(n)
      <3>1. PICK i \in 1 .. Len(actions) : actions[i] \notin Cron
        BY <1>1, <2>6 DEF Pends
      <3>2. i \in k + 1 .. Len(actions)
        BY <1>2, <3>1
      <3>3. i - k \in 1 .. Len(rest) /\ rest[i - k] \notin Cron
        BY <2>3, <3>1, <3>2
      <3>4. QED
        BY <2>1, <2>2, <3>3 DEF Pends
    <2>7. ASSUME n.toolActions # <<>> PROVE Pends(n)
      <3>1. n.toolActions \in Seq(QueuedAction)
        BY DEF Fields, Actions
      <3>2. Len(rest) # 0 /\ Len(rest) \in Nat
        BY <2>1, <2>2, <2>7, <3>1, EmptySeq
      <3>3. k < Len(actions)
        BY <2>3, <3>2
      <3>4. 1 \in 1 .. Len(rest) /\ rest[1] = actions[k + 1]
        BY <2>3, <3>2
      <3>5. QED
        BY <1>2, <2>1, <2>2, <3>3, <3>4 DEF Pends
    <2>8. QED
      BY <1>3, <2>1, <2>5, <2>6, <2>7
  <1>6. QED
    BY <1>4, <1>5

(* What a turn, or an action queued by one, leaves behind wakes the        *)
(* session again if it is on a schedule.                                   *)
Rests(m) == s'.pc = "ended" \/ (s'.pc = "loop" /\ s'.stash = m.stash /\ Sound(s'))

LEMMA RestsAlike ==
    ASSUME NEW m, NEW n, n.stash = m.stash, Rests(n) PROVE Rests(m)
  BY DEF Rests

LEMMA FollowupRests == ASSUME NEW m \in Fields, Followup(m) PROVE Rests(m)
  <1>1. PICK n \in Fields : n = queueFollowup(m)
    BY FollowupTyped
  <1>2. n.stash = m.stash /\ "text" \in n.pendingPrompt
    BY <1>1 DEF queueFollowup, Fields
  <1>3. s' = NextIteration(n)
    BY <1>1 DEF Followup
  <1>4. s'.pc = "loop" /\ s'.stash = n.stash /\ s'.pendingPrompt = n.pendingPrompt
    BY <1>1, <1>3 DEF NextIteration, Fields
  <1>5. s'.pendingPrompt # {}
    BY <1>2, <1>4
  <1>6. QED
    BY <1>2, <1>4, <1>5 DEF Rests, Sound, Roused

LEMMA WaitRests ==
    ASSUME NEW m \in Fields, NEW timer \in {"wait", "cron"}, WaitFor(m, timer) PROVE Rests(m)
  <1>1. s'.timer = timer /\ s'.pc = "loop"
    BY WaitLeaves
  <1>2. Concludes(m)
    BY WaitConcludes
  <1>3. s'.stash = m.stash
    BY <1>2 DEF Concludes, Same, Rest
  <1>4. QED
    BY <1>1, <1>3 DEF Rests, Sound, Roused

LEMMA CompletedRests ==
    ASSUME NEW m \in Fields, Completed(m), Due(m) => m.cron \/ Pends(m) PROVE Rests(m)
  <1>1. CASE CompletedSubAgent(m)
    <2>1. \/ s' = NextIteration(m)
          \/ s' = [m EXCEPT !.pc = "ended", !.turn = {}, !.status = "completed", !.result = "done"]
      BY <1>1 DEF CompletedSubAgent
    <2>2. CASE s' = NextIteration(m)
      <3>1. s'.pc = "loop" /\ Like(m, s')
        BY <2>2, HelpersLike DEF NextIteration, Fields
      <3>2. ~m.cron
        BY <1>1 DEF CompletedSubAgent
      <3>3. Sound(s') /\ s'.stash = m.stash
        BY <3>1, <3>2, LikeSound DEF Like, Beside, Sound, Roused
      <3>4. QED
        BY <3>1, <3>3 DEF Rests
    <2>3. CASE s' = [m EXCEPT !.pc = "ended", !.turn = {}, !.status = "completed", !.result = "done"]
      BY <2>3 DEF Fields, Rests
    <2>4. QED
      BY <2>1, <2>2, <2>3
  <1>2. CASE CompletedNudged(m)
    <2>1. PICK q \in Fields : q = queueFollowup(m)
      BY FollowupTyped
    <2>2. q.stash = m.stash /\ "text" \in q.pendingPrompt
      BY <2>1 DEF queueFollowup, Fields
    <2>3. PICK n \in Fields : n = ContinueAsNew(q) /\ Like(q, n) /\ n.pc = "loop"
      <3>1. ContinueAsNew(q).pc = "loop"
        BY <2>1 DEF ContinueAsNew, Fields
      <3>2. QED
        BY <2>1, <3>1, ContinueAsNewTyped, HelpersLike
    <2>4. s' = [n EXCEPT !.nudged = TRUE]
      BY <1>2, <2>1, <2>3 DEF CompletedNudged
    <2>5. s'.pc = "loop" /\ s'.stash = n.stash /\ s'.pendingPrompt = n.pendingPrompt
      BY <2>3, <2>4 DEF Fields
    <2>6. s'.pendingPrompt # {} /\ s'.stash = m.stash
      BY <2>2, <2>3, <2>5 DEF Like, Beside
    <2>7. QED
      BY <2>5, <2>6 DEF Rests, Sound, Roused
  <1>3. CASE CompletedResumesWait(m)
    <2>1. PICK n \in Fields : n = [m EXCEPT !.heldWait = "none"]
      BY HeldTyped
    <2>2. n.stash = m.stash
      BY <2>1 DEF Fields
    <2>3. WaitFor(n, "wait")
      BY <1>3, <2>1 DEF CompletedResumesWait
    <2>4. QED
      BY <2>2, <2>3, WaitRests, RestsAlike
  <1>4. CASE CompletedResumesCron(m)
    <2>1. PICK n \in Fields : n = [m EXCEPT !.heldCron = "none"]
      BY HeldTyped
    <2>2. n.stash = m.stash
      BY <2>1 DEF Fields
    <2>3. WaitFor(n, "cron")
      BY <1>4, <2>1 DEF CompletedResumesCron
    <2>4. QED
      BY <2>2, <2>3, WaitRests, RestsAlike
  <1>5. CASE CompletedArmsCron(m)
    BY <1>5, WaitRests DEF CompletedArmsCron
  <1>6. CASE CompletedGoesIdle(m)
    <2>1. PICK n \in Fields : n = NextIteration(m) /\ Like(m, n) /\ n.pc = "loop"
      <3>1. NextIteration(m).pc = "loop"
        BY DEF NextIteration, Fields
      <3>2. QED
        BY <3>1, NextIterationTyped, HelpersLike
    <2>2. s' = n \/ s' = [n EXCEPT !.timer = "idle", !.status = "idle"]
      BY <1>6, <2>1 DEF CompletedGoesIdle
    <2>3. /\ s'.pc = "loop" /\ s'.stash = n.stash /\ s'.toolActions = n.toolActions /\ s'.cron = n.cron
      <3>1. CASE s' = n
        BY <2>1, <3>1
      <3>2. CASE s' = [n EXCEPT !.timer = "idle", !.status = "idle"]
        BY <2>1, <3>2 DEF Fields
      <3>3. QED
        BY <2>2, <3>1, <3>2
    <2>4. ~m.cron
      BY <1>6 DEF CompletedGoesIdle
    <2>5. (Due(s') <=> Due(m)) /\ (Pends(s') <=> Pends(m)) /\ s'.stash = m.stash
      BY <2>1, <2>3 DEF Like, Beside, Due, Pends
    <2>6. QED
      BY <2>3, <2>4, <2>5 DEF Rests, Sound, Roused
  <1>7. QED
    BY <1>1, <1>2, <1>3, <1>4, <1>5, <1>6 DEF Completed

LEMMA InputRests == ASSUME NEW m \in Fields, InputRequired(m) PROVE Rests(m)
  <1>1. PICK n \in Fields : n = NextIteration(m)
    BY NextIterationTyped
  <1>2. n.pc = "loop" /\ n.stash = m.stash
    BY <1>1 DEF NextIteration, Fields
  <1>3. PICK asked \in Fields :
          asked = [n EXCEPT !.question = TRUE, !.status = "input_required"]
    <2>1. TRUE \in Flag /\ "input_required" \in Status
      BY Blank, Literals
    <2>2. [n EXCEPT !.question = TRUE, !.status = "input_required"] \in Fields
      BY <1>1, <2>1, ZenonT(60) DEF Fields
    <2>3. QED
      BY <2>2
  <1>4. asked.question = TRUE /\ asked.pc = n.pc /\ asked.stash = n.stash
    BY <1>1, <1>3 DEF Fields
  <1>5. s' = asked \/ s' \in Dehydrations(asked) \/ s' = [asked EXCEPT !.timer = "input-grace"]
    BY <1>1, <1>3, Zenon DEF InputRequired
  <1>6. s'.question = asked.question /\ s'.pc = asked.pc /\ s'.stash = asked.stash
    <2>1. CASE s' = asked
      BY <2>1
    <2>2. CASE s' \in Dehydrations(asked)
      <3>1. PICK h \in BOOLEAN : s' = [asked EXCEPT !.needsHydration = h]
        BY <2>2, Zenon DEF Dehydrations
      <3>2. QED
        BY <1>3, <3>1 DEF Fields
    <2>3. CASE s' = [asked EXCEPT !.timer = "input-grace"]
      BY <1>3, <2>3 DEF Fields
    <2>4. QED
      BY <1>5, <2>1, <2>2, <2>3
  <1>7. QED
    BY <1>2, <1>4, <1>6 DEF Rests, Sound, Roused

LEMMA AgentsRest ==
    ASSUME NEW m \in Fields, NEW agents, [m EXCEPT !.agents = agents] \in Fields,
           Followup([m EXCEPT !.agents = agents])
    PROVE  Rests(m)
  <1>1. PICK n \in Fields : n = [m EXCEPT !.agents = agents]
    OBVIOUS
  <1>2. n.stash = m.stash
    BY <1>1 DEF Fields
  <1>3. Rests(n)
    BY <1>1, FollowupRests
  <1>4. QED
    BY <1>2, <1>3, RestsAlike

LEMMA CheckRests == ASSUME NEW m \in Fields, CheckAgents(m) PROVE Rests(m)
  <1>1. PICK agents \in Agents : agents = m.agents
    BY DEF Fields
  <1>2. PICK idle \in SUBSET Child :
          Followup([m EXCEPT !.agents =
            [c \in Child |->
               IF c \in idle THEN "completed"
               ELSE IF agents[c] # "none" /\ Published(c) \in {"completed", "failed"}
               THEN Published(c) ELSE agents[c]]])
    BY <1>1, Zenon DEF CheckAgents, Tracked
  <1>3. PICK checked \in Agents :
          checked = [c \in Child |->
               IF c \in idle THEN "completed"
               ELSE IF agents[c] # "none" /\ Published(c) \in {"completed", "failed"}
               THEN Published(c) ELSE agents[c]]
    BY DEF Agents, AgentStatus
  <1>4. [m EXCEPT !.agents = checked] \in Fields
    BY Zenon DEF Fields
  <1>5. Followup([m EXCEPT !.agents = checked])
    BY <1>2, <1>3
  <1>6. QED
    BY <1>4, <1>5, AgentsRest

LEMMA AgentWaitRests == ASSUME NEW m \in Fields, WaitForAgents(m) PROVE Rests(m)
  <1>1. PICK n \in Fields : n = NextIteration(m)
    BY NextIterationTyped
  <1>2. n.pc = "loop" /\ n.stash = m.stash
    BY <1>1 DEF NextIteration, Fields
  <1>3. ASSUME NEW C, C # {},
               s' = [n EXCEPT !.awaited = C, !.timer = "agent-poll", !.status = "running"]
        PROVE  Rests(m)
    <2>1. s'.pc = "loop" /\ s'.stash = m.stash /\ s'.timer = "agent-poll" /\ s'.awaited = C
      BY <1>1, <1>2, <1>3 DEF Fields
    <2>2. QED
      BY <1>3, <2>1 DEF Rests, Sound, Roused
  <1>4. CASE Followup(m)
    BY <1>4, FollowupRests
  <1>5. QED
    BY <1>1, <1>3, <1>4 DEF WaitForAgents

LEMMA RetryRests ==
    ASSUME NEW m \in Fields, NEW parts \in SUBSET Part, parts # {}, NEW k \in Nat,
           s' = RetryWith(m, parts, k)
    PROVE  Rests(m)
  <1>1. PICK n \in Fields : n = ContinueAsNew(m)
    BY ContinueAsNewTyped
  <1>2. n.pc = "loop" /\ n.stash = m.stash
    BY <1>1 DEF ContinueAsNew, Fields
  <1>3. s'.pc = n.pc /\ s'.stash = n.stash /\ s'.pendingPrompt = parts
    BY <1>1 DEF RetryWith, Fields
  <1>4. QED
    BY <1>2, <1>3 DEF Rests, Sound, Roused

LEMMA ErrorRests ==
    ASSUME NEW m \in Fields, TurnError(m), m.turn # {}, m.retryCount = 0, MAX_RETRIES > 1
    PROVE  Rests(m)
  <1>1. m.retryCount + 1 \in Count /\ FailedAgain(m.failures) \in Failures
    BY FailuresTyped DEF Fields, Count
  <1>2. PICK f \in Fields : f = [m EXCEPT !.retryCount = m.retryCount + 1, !.failures = FailedAgain(m.failures)]
    <2>1. [m EXCEPT !.retryCount = m.retryCount + 1, !.failures = FailedAgain(m.failures)] \in Fields
      BY <1>1, Zenon DEF Fields
    <2>2. QED
      BY <2>1
  <1>3. f.retryCount = 1 /\ f.stash = m.stash /\ f.turn = m.turn
    BY <1>2 DEF Fields
  <1>4. PICK parts \in SUBSET Part : parts = (IF m.turn = {"system"} THEN {"text"} ELSE m.turn)
    BY DEF Fields, Texts, Part
  <1>5. parts # {}
    BY <1>4
  <1>6. ~(1 >= MAX_RETRIES)
    BY Bounds
  <1>7. s' = RetryWith(f, parts, f.retryCount)
    BY <1>2, <1>3, <1>4, <1>6 DEF TurnError
  <1>8. Rests(f)
    BY <1>3, <1>5, <1>7, RetryRests
  <1>9. QED
    BY <1>3, <1>8, RestsAlike

LEMMA ResultRests ==
    ASSUME NEW m \in Fields, NEW action, HandleTurnResult(m, action),
           action # "cancelled",
           action = "completed" => (Due(m) => m.cron \/ Pends(m)),
           action = "error" => m.turn # {} /\ m.retryCount = 0 /\ MAX_RETRIES > 1
    PROVE  Rests(m)
  <1>1. CASE action = "completed" /\ Completed(m)
    BY <1>1, CompletedRests
  <1>2. CASE Waits(m)
    <2>1. PICK n \in Fields : n = [m EXCEPT !.heldWait = "none"]
      BY HeldTyped
    <2>2. n.stash = m.stash
      BY <2>1 DEF Fields
    <2>3. WaitFor(n, "wait")
      BY <1>2, <2>1 DEF Waits
    <2>4. QED
      BY <2>2, <2>3, WaitRests, RestsAlike
  <1>3. CASE InputRequired(m)
    BY <1>3, InputRests
  <1>5. CASE Followup(m)
    BY <1>5, FollowupRests
  <1>6. CASE CheckAgents(m)
    BY <1>6, CheckRests
  <1>7. CASE WaitForAgents(m)
    BY <1>7, AgentWaitRests
  <1>8. CASE action = "error" /\ TurnError(m)
    BY <1>8, ErrorRests
  <1>9. CASE Crash(m, "failed")
    BY <1>9 DEF Crash, Fields, Rests
  <1>10. ASSUME NEW c \in Child, NEW status \in AgentStatus \union {"none"},
                Followup([m EXCEPT !.agents[c] = status])
         PROVE  Rests(m)
    <2>1. PICK n \in Fields : n = [m EXCEPT !.agents[c] = status]
      BY AgentTyped
    <2>2. n.stash = m.stash
      BY <2>1 DEF Fields
    <2>3. Rests(n)
      BY <1>10, <2>1, FollowupRests
    <2>4. QED
      BY <2>2, <2>3, RestsAlike
  <1>11. CASE SpawnAgent(m)
    BY <1>5, <1>10, <1>11 DEF SpawnAgent, AgentStatus
  <1>12. CASE SignalAgent(m)
    BY <1>5, <1>12 DEF SignalAgent
  <1>13. CASE DeleteAgent(m)
    BY <1>10, <1>13 DEF DeleteAgent, Tracked
  <1>14. QED
    BY <1>1, <1>2, <1>3, <1>5, <1>6, <1>7, <1>8, <1>9, <1>11, <1>12, <1>13 DEF HandleTurnResult

(* A turn that starts has a prompt, and finds the stash empty.             *)
Opens == s'.pc = "turn" /\ s'.turn # {} /\ s'.stash = <<>>

LEMMA StartOpens ==
    ASSUME NEW m \in Fields, NEW parts, parts # {}, StartTurn(m, parts), ~BlobEnabled \/ ~HydrateMayFail,
           m.stash = <<>>
    PROVE  Opens
  <1>1. s' = [m EXCEPT !.pc = "turn", !.turn = parts, !.status = "running",
                      !.needsHydration = @ /\ ~BlobEnabled]
    BY DEF StartTurn
  <1>2. QED
    BY <1>1 DEF Fields, Opens

LEMMA ReturnedRests ==
    ASSUME s \in Fields, NEW outcome \in Outcome
    PROVE  \E r \in Fields :
             /\ r = Returned(s, outcome)
             /\ r.stash = s.stash /\ r.turn = s.turn /\ r.retryCount = 0
             /\ r.surprises = s.surprises
             /\ Due(r) => r.cron \/ Pends(r)
  <1>1. PICK handled \in Prompts :
          handled = (IF outcome.main = "error" THEN s.handled
                     ELSE s.handled \union (s.turn \intersect Prompt))
    BY DEF Fields, Prompts
  <1>2. PICK failures \in Failures : failures = (IF outcome.main = "error" THEN s.failures ELSE NoFailures)
    BY Blank DEF Fields
  <1>3. PICK actions \in Actions : actions = s.toolActions \o outcome.queued
    <2>1. s.toolActions \o outcome.queued \in Actions
      BY OutcomeParts, ConcatProperties DEF Fields, Actions
    <2>2. QED
      BY <2>1
  <1>4. PICK m \in Fields : m = [s EXCEPT !.retryCount = 0, !.toolActions = actions,
                                          !.failures = failures, !.handled = handled]
    <2>1. 0 \in Count
      BY Blank
    <2>2. [s EXCEPT !.retryCount = 0, !.toolActions = actions,
                    !.failures = failures, !.handled = handled] \in Fields
      BY <2>1, Zenon DEF Fields
    <2>3. QED
      BY <2>2
  <1>5. Returned(s, outcome) = drainLeadingQueuedCronActions(m)
    BY <1>1, <1>2, <1>3, <1>4, Zenon DEF Returned
  <1>6. m.stash = s.stash /\ m.turn = s.turn /\ m.retryCount = 0 /\ m.surprises = s.surprises
    BY <1>4 DEF Fields
  <1>7. PICK r \in Fields :
          /\ r = drainLeadingQueuedCronActions(m) /\ Beside(m, r)
          /\ r.turn = m.turn /\ r.retryCount = m.retryCount /\ r.pc = m.pc
          /\ Due(r) => Due(m)
          /\ Pends(m) => Pends(r)
          /\ r.toolActions # <<>> => Pends(r)
    BY CronsDrained
  <1>8. r.surprises = m.surprises
    BY <1>7 DEF drainLeadingQueuedCronActions, Fields
  <1>9. r.toolActions = <<>> => ~\E i \in 1 .. Len(r.toolActions) : r.toolActions[i] = "cron_set"
    OBVIOUS
  <1>10. Due(r) => r.cron \/ Pends(r)
    BY <1>7, <1>9 DEF Due
  <1>11. r = Returned(s, outcome) /\ r.stash = m.stash
    BY <1>5, <1>7 DEF Beside
  <1>12. QED
    BY <1>6, <1>7, <1>8, <1>10, <1>11

(* The schedules a session keeps by itself.  Excluded are the turns after  *)
(* which nothing is armed: cancelled by the model runtime, given up after  *)
(* the last attempt, or not started because the state could not be loaded; *)
(* and a change of the model requested behind a shutdown that concludes    *)
(* while the queue is drained, which lets the session go on.               *)
Undisturbed == \A c \in Command : cmdOf[c] # "set_model"
Punctual ==
    /\ Child = {} \/ (\A c \in Command : cmdOf[c] \notin Signal) \/ Undisturbed
    /\ HydrateMayFail => \A input \in Inputs : ~input.blobEnabled
    /\ \A o \in TurnOutcome : o.main # "cancelled" /\ (o.main = "error" => MAX_RETRIES > 1)
    /\ "other" \notin TurnFailure
    /\ "closed" \in TurnFailure => \A input \in Inputs : input.blobEnabled

LEMMA InputsPunctual ==
    ASSUME s \in Fields, Punctual
    PROVE  (~BlobEnabled \/ ~HydrateMayFail) /\ ("closed" \in TurnFailure => BlobEnabled)
  <1>1. s.input \in Inputs
    BY DEF Fields
  <1>2. QED
    BY <1>1 DEF Punctual, BlobEnabled

LEMMA TurnRests ==
    ASSUME TypeOK, s \in Fields, Punctual, Turn, s.turn # {} PROVE Rests(s)
  <1>1. ASSUME NEW outcome \in {PlainOutcome} \union TurnOutcome, TurnReturns(outcome)
        PROVE  Rests(s)
    <2>1. PICK r \in Fields :
             /\ r = Returned(s, outcome)
             /\ r.stash = s.stash /\ r.turn = s.turn /\ r.retryCount = 0
             /\ r.surprises = s.surprises
             /\ Due(r) => r.cron \/ Pends(r)
      BY PlainIsOutcome, OutcomeAssumption, ReturnedRests
    <2>2. PICK m \in Refreshes(r) :
            HandleTurnResult(
              [m EXCEPT !.surprises = IF outcome = PlainOutcome THEN @ ELSE @ + 1], outcome.main)
            /\ (outcome # PlainOutcome => s.surprises < MaxSurprises)
      BY <1>1, <2>1 DEF TurnReturns
    <2>3. m \in Fields /\ Like(r, m) /\ m.turn = r.turn /\ m.retryCount = r.retryCount
      BY <2>1, RefreshesTyped, HelpersLike DEF TypeOK
    <2>4. m.surprises = s.surprises
      BY <2>1 DEF Refreshes, Refreshed, Fields
    <2>5. PICK surprises \in Surprises :
            surprises = (IF outcome = PlainOutcome THEN m.surprises ELSE m.surprises + 1)
      BY <2>2, <2>3, <2>4, Bounds DEF Fields, Surprises
    <2>6. PICK n \in Fields : n = [m EXCEPT !.surprises = surprises]
      <3>1. [m EXCEPT !.surprises = surprises] \in Fields
        BY <2>3, Zenon DEF Fields
      <3>2. QED
        BY <3>1
    <2>7. Like(m, n) /\ n.turn = m.turn /\ n.retryCount = m.retryCount
      BY <2>3, <2>6 DEF Fields, Like, Beside
    <2>8. HandleTurnResult(n, outcome.main)
      BY <2>2, <2>5, <2>6
    <2>9. Like(r, n)
      BY <2>3, <2>7, LikeTwice
    <2>10. Due(n) => n.cron \/ Pends(n)
      BY <2>1, <2>9, LikeSound DEF Like
    <2>11. n.turn # {} /\ n.retryCount = 0 /\ n.stash = s.stash
      BY <2>1, <2>3, <2>7, <2>9 DEF Like, Beside
    <2>12. outcome.main # "cancelled" /\ (outcome.main = "error" => MAX_RETRIES > 1)
      BY DEF Punctual, PlainOutcome
    <2>13. Rests(n)
      BY <2>8, <2>10, <2>11, <2>12, ResultRests
    <2>14. QED
      BY <2>11, <2>13, RestsAlike
  <1>2. ASSUME NEW failure, Failing(failure)
        PROVE  \E f \in Fields : f = Failed /\ f.stash = s.stash /\ f.turn = s.turn
    <2>1. s.retryCount + 1 \in Count /\ FailedAgain(s.failures) \in Failures /\ s.surprises + 1 \in Surprises
      BY FailuresTyped, <1>2, Bounds DEF Failing, Fields, Count, Surprises
    <2>2. Failed \in Fields
      BY <2>1, Zenon DEF Failed, Fields
    <2>3. Failed.stash = s.stash /\ Failed.turn = s.turn
      BY DEF Failed, Fields
    <2>4. QED
      BY <2>2, <2>3
  <1>3. CASE TurnLosesState
    <2>1. PICK f \in Fields : f = Failed
      BY <1>2, <1>3 DEF TurnLosesState
    <2>2. s' = [f EXCEPT !.pc = "ended", !.turn = {}, !.status = "failed", !.result = "crashed"]
      BY <1>3, <2>1 DEF TurnLosesState, Crash
    <2>3. QED
      BY <2>2 DEF Fields, Rests
  <1>4. CASE TurnLosesConnection
    <2>1. PICK f \in Fields : f = Failed /\ f.stash = s.stash /\ f.turn = s.turn
      BY <1>2, <1>4 DEF TurnLosesConnection
    <2>2. PICK k \in Nat :
            k = (IF f.retryCount > COPILOT_CONNECTION_CLOSED_MAX_RETRIES THEN 0 ELSE f.retryCount)
      BY DEF Fields, Count
    <2>3. PICK parts \in SUBSET Part :
            parts = (IF f.turn = {"system"} THEN f.pendingPrompt \union {"text"} ELSE f.turn)
      BY DEF Fields, Texts, Part
    <2>4. parts # {}
      BY <2>1, <2>3
    <2>5. PICK n : n = RetryWith(f, parts, k)
      OBVIOUS
    <2>6. n = RetryTurn(f, k)
      BY <2>3, <2>5 DEF RetryTurn
    <2>7. BlobEnabled
      BY <1>4, InputsPunctual DEF TurnLosesConnection, Failing
    <2>8. s' = n \/ s' = [n EXCEPT !.failures = HandedOff(n.failures)]
      BY <1>4, <2>1, <2>2, <2>6, <2>7 DEF TurnLosesConnection
    <2>9. n.pc = "loop" /\ n.stash = f.stash /\ n.pendingPrompt = parts /\ n \in Fields
      <3>1. PICK c \in Fields : c = ContinueAsNew(f)
        BY ContinueAsNewTyped
      <3>2. c.pc = "loop" /\ c.stash = f.stash
        BY <3>1 DEF ContinueAsNew, Fields
      <3>3. n.pc = c.pc /\ n.stash = c.stash /\ n.pendingPrompt = parts
        BY <2>5, <3>1 DEF RetryWith, Fields
      <3>4. QED
        BY <2>3, <2>5, <3>2, <3>3, RetryWithTyped DEF Texts
    <2>10. s'.pc = "loop" /\ s'.stash = s.stash /\ s'.pendingPrompt = parts
      BY <2>1, <2>8, <2>9 DEF Fields
    <2>11. QED
      BY <2>4, <2>10 DEF Rests, Sound, Roused
  <1>5. CASE TurnFails
    BY <1>5 DEF TurnFails, Failing, Punctual
  <1>6. QED
    BY <1>1, <1>3, <1>4, <1>5 DEF Turn

LEMMA FinishEnds ==
    ASSUME NEW m \in Fields, NEW mode \in Signal, NEW c \in Command
    PROVE  LET n == FinishShutdown(m, mode, c) IN
             n.stash = m.stash /\ n.pc = m.pc /\ n.drained = m.drained /\ n.result # "none"
  <1>1. PICK r \in Fields : r = Respond(m, c)
    BY RespondTyped
  <1>2. r.stash = m.stash /\ r.pc = m.pc /\ r.drained = m.drained
    BY <1>1 DEF Respond, Fields
  <1>3. PICK n \in Fields : n = FinishShutdown(m, mode, c)
    BY FinishTyped
  <1>4. n.stash = r.stash /\ n.pc = r.pc /\ n.drained = r.drained
    BY <1>1, <1>3 DEF FinishShutdown, Fields
  <1>5. n.result # "none"
    BY <1>1, <1>3 DEF FinishShutdown, Fields, Signal
  <1>6. QED
    BY <1>2, <1>3, <1>4, <1>5

LEMMA ResolveRouses ==
    ASSUME NEW m \in Fields
    PROVE  \E n \in Fields :
             /\ n = ResolveAgentWait(m) /\ n.stash = m.stash /\ n.pc = m.pc /\ n.drained = m.drained
             /\ \/ ~Resolved(m) /\ n = m
                \/ Resolved(m) /\ m.shutdown = NoShutdown /\ n.pendingPrompt # {} /\ n.result = m.result
                \/ Resolved(m) /\ m.shutdown # NoShutdown /\ n.result # "none"
  <1>1. CASE ~Resolved(m)
    BY <1>1 DEF ResolveAgentWait
  <1>2. CASE Resolved(m) /\ m.shutdown = NoShutdown
    <2>1. PICK q \in Fields : q = queueFollowup(m)
      BY FollowupTyped
    <2>2. /\ q.stash = m.stash /\ q.pc = m.pc /\ q.drained = m.drained /\ q.result = m.result
          /\ "text" \in q.pendingPrompt
      BY <2>1 DEF queueFollowup, Fields
    <2>3. PICK n : n = [q EXCEPT !.awaited = {}, !.digest = "none", !.timer = "none"]
      OBVIOUS
    <2>4. n = ResolveAgentWait(m)
      BY <1>2, <2>1, <2>3 DEF ResolveAgentWait
    <2>5. n \in Fields
      BY <2>4, ResolveTyped
    <2>6. /\ n.stash = q.stash /\ n.pc = q.pc /\ n.drained = q.drained /\ n.result = q.result
          /\ n.pendingPrompt = q.pendingPrompt
      BY <2>1, <2>3 DEF Fields
    <2>7. n.pendingPrompt # {}
      BY <2>2, <2>6
    <2>8. QED
      BY <1>2, <2>2, <2>4, <2>5, <2>6, <2>7
  <1>3. CASE Resolved(m) /\ m.shutdown # NoShutdown
    <2>1. m.shutdown.mode \in Signal /\ m.shutdown.cmd \in Command
      BY <1>3, ShutdownParts
    <2>2. PICK n \in Fields : n = FinishShutdown(m, m.shutdown.mode, m.shutdown.cmd)
      BY <2>1, FinishTyped
    <2>3. n = ResolveAgentWait(m)
      BY <1>3, <2>2 DEF ResolveAgentWait
    <2>4. n.stash = m.stash /\ n.pc = m.pc /\ n.drained = m.drained /\ n.result # "none"
      BY <2>1, <2>2, FinishEnds
    <2>5. QED
      BY <1>3, <2>2, <2>3, <2>4
  <1>4. QED
    BY <1>1, <1>2, <1>3

(* What the item at the head of the buffer leaves behind when it is taken. *)
LEMMA PoppedSound ==
    ASSUME s \in Fields, NEW item, Popping(item), Sound(s)
    PROVE  \E p \in Fields :
             /\ p = Popped /\ p.stash = s.stash /\ p.awaited = s.awaited /\ p.shutdown = s.shutdown
             /\ Wakes(s, item) \/ Sound(p)
  <1>1. PICK d \in Fields :
          /\ d = Decided /\ Beside(s, d)
          /\ d.turn = s.turn /\ d.retryCount = s.retryCount /\ d.pc = s.pc
          /\ Due(d) => Due(s)
          /\ Pends(s) => Pends(d)
          /\ d.toolActions # <<>> => Pends(d)
    BY CronsDrained DEF Decided
  <1>2. PICK p \in Fields : p = Popped /\ item = Head(s.fifo) /\ s.fifo # <<>>
    BY PoppedMoves
  <1>3. p = [d EXCEPT !.fifo = Tail(d.fifo)]
    BY <1>1, <1>2 DEF Popped
  <1>4. /\ p.timer = d.timer /\ p.question = d.question /\ p.pendingPrompt = d.pendingPrompt
        /\ p.stash = d.stash /\ p.fifo = Tail(d.fifo) /\ p.awaited = d.awaited
        /\ p.toolActions = d.toolActions /\ p.cron = d.cron /\ p.shutdown = d.shutdown
    BY <1>1, <1>3 DEF Fields
  <1>5. d.shutdown = s.shutdown
    BY <1>1 DEF Decided, drainLeadingQueuedCronActions, Fields
  <1>6. \A x : Has(s, x) => x = item \/ Has(p, x)
    <2>1. p.stash = s.stash /\ p.fifo = Tail(s.fifo)
      BY <1>1, <1>4 DEF Beside
    <2>2. QED
      BY <1>2, <2>1, TailHas
  <1>7. \A x : Wakes(s, x) <=> Wakes(p, x)
    BY <1>1, <1>4 DEF Wakes, Beside
  <1>8. ASSUME ~Wakes(s, item), Due(p) PROVE Roused(p)
    <2>1. Due(d)
      BY <1>4, <1>8 DEF Due
    <2>2. Roused(s)
      BY <1>1, <2>1 DEF Sound
    <2>3. CASE \E x : Has(s, x) /\ Wakes(s, x)
      <3>1. PICK x : Has(s, x) /\ Wakes(s, x)
        BY <2>3
      <3>2. Has(p, x) /\ Wakes(p, x)
        BY <1>6, <1>7, <1>8, <3>1
      <3>3. QED
        BY <3>2 DEF Roused
    <2>4. CASE Pends(s)
      <3>1. Pends(p)
        BY <1>1, <1>4, <2>4 DEF Pends
      <3>2. QED
        BY <3>1 DEF Roused
    <2>5. QED
      BY <1>1, <1>4, <2>2, <2>3, <2>4 DEF Roused, Beside
  <1>9. QED
    BY <1>1, <1>2, <1>4, <1>5, <1>8 DEF Sound, Beside

LEMMA PolledLike ==
    ASSUME NEW m \in Fields PROVE Like(m, Polled(m))
  BY DEF Polled, Fields, Like, Beside

LEMMA IterationRests ==
    ASSUME NEW m \in Fields, Sound(m), s' = NextIteration(m) \/ s' \in Dehydrations(NextIteration(m))
    PROVE  Rests(m)
  <1>1. PICK n \in Fields : n = NextIteration(m) /\ Like(m, n) /\ n.pc = "loop"
    <2>1. NextIteration(m).pc = "loop"
      BY DEF NextIteration, Fields
    <2>2. QED
      BY <2>1, NextIterationTyped, HelpersLike
  <1>2. Like(n, s') /\ s'.pc = n.pc
    <2>1. CASE s' = n
      BY <2>1 DEF Like, Beside
    <2>2. CASE s' \in Dehydrations(n)
      <3>1. Like(n, s')
        BY <2>2, HelpersLike
      <3>2. s'.pc = n.pc
        BY <2>2 DEF Dehydrations, Fields
      <3>3. QED
        BY <3>1, <3>2
    <2>3. QED
      BY <1>1, <2>1, <2>2
  <1>3. Like(m, s')
    BY <1>1, <1>2, LikeTwice
  <1>4. Sound(s') /\ s'.stash = m.stash
    BY <1>3, LikeSound DEF Like, Beside
  <1>5. QED
    BY <1>1, <1>2, <1>4 DEF Rests

LEMMA DecideRests ==
    ASSUME TypeOK, s \in Fields, Punctual, Decide, Sound(s), s.stash = <<>>
    PROVE  Rests(s) \/ Opens
  <1>1. PICK d \in Fields :
          /\ d = Decided /\ Beside(s, d)
          /\ d.turn = s.turn /\ d.retryCount = s.retryCount /\ d.pc = s.pc
          /\ Due(d) => Due(s)
          /\ Pends(s) => Pends(d)
          /\ d.toolActions # <<>> => Pends(d)
    BY CronsDrained DEF Decided
  <1>2. ASSUME NEW m \in Fields, m.stash = s.stash, NEW parts, parts # {}, StartTurn(m, parts)
        PROVE  Opens
    BY <1>2, InputsPunctual, StartOpens
  <1>3. ASSUME NEW item, Popping(item)
        PROVE  \E p \in Fields :
                 /\ p = Popped /\ p.stash = s.stash /\ p.awaited = s.awaited /\ p.shutdown = s.shutdown
                 /\ Wakes(s, item) \/ Sound(p)
    BY <1>3, PoppedSound
  <1>4. CASE ReplayToolAction
    <2>1. PICK m : m = [d EXCEPT !.toolActions = Tail(d.toolActions)]
      OBVIOUS
    <2>2. PICK actions \in Seq(QueuedAction) : actions = d.toolActions /\ actions # <<>>
      BY <1>1, <1>4 DEF ReplayToolAction, Fields, Actions
    <2>3. Tail(actions) \in Actions /\ Head(actions) \in QueuedAction
      BY <2>2, HeadTailProperties DEF Actions
    <2>4. m \in Fields
      BY <1>1, <2>1, <2>2, <2>3, ZenonT(60) DEF Fields
    <2>5. m.stash = s.stash
      BY <1>1, <2>1 DEF Fields, Beside
    <2>6. HandleTurnResult(m, Head(actions))
      BY <1>1, <1>4, <2>1, <2>2 DEF ReplayToolAction
    <2>7. Head(actions) \notin {"completed", "cancelled", "error"}
      BY <2>3 DEF QueuedAction
    <2>8. Rests(m)
      BY <2>4, <2>6, <2>7, ResultRests
    <2>9. QED
      BY <2>5, <2>8, RestsAlike
  <1>5. CASE TakePendingPrompt
    <2>1. PICK m \in Fields : m = [d EXCEPT !.pendingPrompt = {}]
      <3>1. {} \in Texts
        BY Blank
      <3>2. [d EXCEPT !.pendingPrompt = {}] \in Fields
        BY <1>1, <3>1, ZenonT(60) DEF Fields
      <3>3. QED
        BY <3>2
    <2>2. m.stash = s.stash
      BY <1>1, <2>1 DEF Fields, Beside
    <2>3. StartTurn(m, s.pendingPrompt) /\ s.pendingPrompt # {}
      BY <1>1, <1>5, <2>1 DEF TakePendingPrompt, PendingPromptReady, Beside
    <2>4. QED
      BY <1>2, <2>2, <2>3
  <1>6. ASSUME NEW item, Popping(item), NEW parts, parts # {}, StartTurn(Popped, parts) PROVE Opens
    BY <1>2, <1>3, <1>6
  <1>7. CASE ProcessPrompt
    <2>1. PICK p \in Prompt : Popping([kind |-> "prompt", parts |-> {p}]) /\ StartTurn(Popped, {p})
      BY <1>7 DEF ProcessPrompt
    <2>2. QED
      BY <1>6, <2>1
  <1>8. CASE ProcessWaitTimer
    BY <1>6, <1>8 DEF ProcessWaitTimer, Fired
  <1>9. CASE ProcessAnswer
    <2>1. PICK m \in Fields : m = Popped /\ m.stash = s.stash
      BY <1>3, <1>9 DEF ProcessAnswer
    <2>2. PICK n \in Fields : n = [m EXCEPT !.question = FALSE]
      <3>1. [m EXCEPT !.question = FALSE] \in Fields
        BY <2>1, Blank, ZenonT(60) DEF Fields
      <3>2. QED
        BY <3>1
    <2>3. n.stash = m.stash
      BY <2>1, <2>2 DEF Fields
    <2>4. StartTurn(n, {"answer"})
      BY <1>9, <2>1, <2>2 DEF ProcessAnswer
    <2>5. QED
      BY <1>2, <2>1, <2>3, <2>4
  <1>10. CASE ProcessCronTimer
    <2>1. PICK m \in Fields : m = Popped
      BY <1>3, <1>10 DEF ProcessCronTimer, Fired
    <2>2. CASE m.cron
      <3>1. PICK parts \in WakeUps : StartTurn(Popped, parts)
        BY <1>10, <2>1, <2>2 DEF ProcessCronTimer
      <3>2. parts # {}
        BY DEF WakeUps
      <3>3. QED
        BY <1>6, <1>10, <3>1, <3>2 DEF ProcessCronTimer, Fired
    <2>3. CASE ~m.cron
      <3>1. s' = [m EXCEPT !.pc = "ended", !.turn = {}, !.status = m.status, !.result = "crashed"]
        BY <1>10, <2>1, <2>3 DEF ProcessCronTimer, Crash
      <3>2. QED
        BY <2>1, <3>1 DEF Fields, Rests
    <2>4. QED
      BY <2>2, <2>3
  <1>11. ASSUME NEW t \in {"idle", "input-grace"}
         PROVE  ~Wakes(s, [kind |-> "timer", timer |-> t])
    <2>1. PICK x : x = [kind |-> "timer", timer |-> t]
      OBVIOUS
    <2>2. x.kind = "timer" /\ x.timer = t
      BY <2>1
    <2>3. WaitItem.timer = "wait" /\ CronItem.timer = "cron" /\ PollItem.timer = "agent-poll"
      BY DEF WaitItem, CronItem, PollItem
    <2>4. QED
      BY <2>1, <2>2, <2>3 DEF Wakes
  <1>12. CASE ProcessIdleTimer \/ ProcessGraceTimer
    <2>1. PICK t \in {"idle", "input-grace"} :
            Popping([kind |-> "timer", timer |-> t]) /\ s' \in Dehydrations(NextIteration(Popped))
      BY <1>12 DEF ProcessIdleTimer, ProcessGraceTimer, Fired
    <2>2. PICK p \in Fields : p = Popped /\ p.stash = s.stash /\ Sound(p)
      BY <1>3, <1>11, <2>1
    <2>3. QED
      BY <2>1, <2>2, IterationRests, RestsAlike
  <1>13. PollItem # WaitItem /\ PollItem # CronItem /\ PollItem.kind = "timer"
    <2>1. WaitItem.timer = "wait" /\ CronItem.timer = "cron" /\ PollItem.timer = "agent-poll"
      BY DEF WaitItem, CronItem, PollItem
    <2>2. PollItem.kind = "timer"
      BY DEF PollItem
    <2>3. QED
      BY <2>1, <2>2
  <1>14. CASE ProcessStalePoll
    <2>1. Popping(PollItem) /\ s.awaited = {} /\ s' = NextIteration(Popped)
      BY <1>14 DEF ProcessStalePoll, Fired, PollItem
    <2>2. ~Wakes(s, PollItem)
      BY <1>13, <2>1 DEF Wakes
    <2>3. PICK p \in Fields : p = Popped /\ p.stash = s.stash /\ Sound(p)
      BY <1>3, <2>1, <2>2
    <2>4. QED
      BY <2>1, <2>3, IterationRests, RestsAlike
  <1>15. CASE ProcessPollResolved \/ ProcessPollAgain \/ ProcessShutdownPoll
    <2>1. PICK p \in Fields :
            p = Popped /\ p.stash = s.stash /\ p.awaited = s.awaited /\ p.shutdown = s.shutdown
      BY <1>3, <1>15 DEF ProcessPollResolved, ProcessPollAgain, ProcessShutdownPoll, Fired
    <2>2. PICK q \in Fields : q = Polled(p)
      BY PolledTyped DEF TypeOK
    <2>3. q.stash = s.stash /\ q.awaited = s.awaited /\ q.shutdown = s.shutdown
      BY <2>1, <2>2, PolledLike, PolledShutdown DEF Like, Beside
    <2>4. CASE ProcessPollResolved
      <3>1. PICK n \in Fields :
             /\ n = ResolveAgentWait(q) /\ n.stash = q.stash
             /\ \/ ~Resolved(q) /\ n = q
                \/ Resolved(q) /\ q.shutdown = NoShutdown /\ n.pendingPrompt # {} /\ n.result = q.result
                \/ Resolved(q) /\ q.shutdown # NoShutdown /\ n.result # "none"
        BY ResolveRouses
      <3>2. /\ Resolved(q)
            /\ s' = IF n.result = "none" THEN NextIteration(n) ELSE [n EXCEPT !.pc = "ended"]
        BY <2>1, <2>2, <2>4, <3>1 DEF ProcessPollResolved
      <3>3. CASE n.result = "none"
        <4>1. Sound(n)
          BY <3>1, <3>2, <3>3 DEF Sound, Roused
        <4>2. QED
          BY <2>3, <3>1, <3>2, <3>3, <4>1, IterationRests, RestsAlike
      <3>4. CASE s' = [n EXCEPT !.pc = "ended"]
        BY <3>1, <3>4 DEF Fields, Rests
      <3>5. QED
        BY <3>2, <3>3, <3>4
    <2>5. PICK n \in Fields : n = NextIteration(q)
      BY NextIterationTyped
    <2>6. n.pc = "loop" /\ n.stash = q.stash /\ n.awaited = q.awaited
      BY <2>2, <2>5 DEF NextIteration, Fields
    <2>7. CASE ProcessPollAgain
      <3>1. s' = [n EXCEPT !.timer = "agent-poll"] /\ s.awaited # {}
        BY <2>1, <2>2, <2>5, <2>7 DEF ProcessPollAgain
      <3>2. /\ s'.pc = n.pc /\ s'.stash = n.stash /\ s'.awaited = n.awaited /\ s'.timer = "agent-poll"
        BY <2>5, <3>1 DEF Fields
      <3>3. QED
        BY <2>3, <2>6, <3>1, <3>2 DEF Rests, Sound, Roused
    <2>8. CASE ProcessShutdownPoll
      <3>1. PICK age :
              \/ s' = failPendingShutdown(q)
              \/ s' = [n EXCEPT !.shutdown.age = age, !.timer = "agent-poll", !.status = "waiting"]
        BY <2>1, <2>2, <2>5, <2>8 DEF ProcessShutdownPoll
      <3>2. s.shutdown # NoShutdown /\ s.awaited # {}
        BY <2>8 DEF ProcessShutdownPoll
      <3>3. CASE s' = failPendingShutdown(q)
        <4>1. PICK k \in Fields : k = Respond(q, q.shutdown.cmd)
          BY <2>3, <3>2, RespondTyped, ShutdownParts
        <4>2. s'.pc = "ended"
          BY <3>3, <4>1 DEF failPendingShutdown, Fields
        <4>3. QED
          BY <4>2 DEF Rests
      <3>4. CASE s' = [n EXCEPT !.shutdown.age = age, !.timer = "agent-poll", !.status = "waiting"]
        <4>1. /\ s'.pc = n.pc /\ s'.stash = n.stash /\ s'.awaited = n.awaited
              /\ s'.timer = "agent-poll"
          BY <2>5, <3>4 DEF Fields
        <4>2. QED
          BY <2>3, <2>6, <3>2, <4>1 DEF Rests, Sound, Roused
      <3>5. QED
        BY <3>1, <3>3, <3>4
    <2>9. QED
      BY <1>15, <2>4, <2>7, <2>8
  <1>17. CASE ProcessDigest
    <2>1. PICK m \in Interruptions(d) : StartTurn([m EXCEPT !.digest = "none"], {"system"})
      BY <1>1, <1>17 DEF ProcessDigest
    <2>2. m \in Fields /\ m.stash = s.stash
      BY <1>1, <2>1, InterruptionsTyped, InterruptionsSame DEF Same, Rest, Beside
    <2>3. PICK n \in Fields : n = [m EXCEPT !.digest = "none"]
      <3>1. "none" \in Digest
        BY Literals
      <3>2. [m EXCEPT !.digest = "none"] \in Fields
        BY <2>2, <3>1, ZenonT(60) DEF Fields
      <3>3. QED
        BY <3>2
    <2>4. n.stash = m.stash
      BY <2>2, <2>3 DEF Fields
    <2>5. QED
      BY <1>2, <2>1, <2>2, <2>3, <2>4
  <1>18. CASE DecideNothing
    <2>1. s' = NextIteration(d) \/ s' = ContinueAsNew(d)
      BY <1>1, <1>18 DEF DecideNothing
    <2>2. Sound(d)
      <3>1. \A x : (Has(s, x) <=> Has(d, x)) /\ (Wakes(s, x) <=> Wakes(d, x))
        BY <1>1 DEF Beside, Has, Wakes
      <3>2. Roused(s) => Roused(d)
        BY <1>1, <3>1 DEF Beside, Roused
      <3>3. QED
        BY <1>1, <3>2 DEF Sound
    <2>3. CASE s' = NextIteration(d)
      BY <1>1, <2>2, <2>3, IterationRests, RestsAlike DEF Beside
    <2>4. CASE s' = ContinueAsNew(d)
      <3>1. Like(d, s') /\ s'.pc = "loop"
        BY <1>1, <2>4, HelpersLike DEF ContinueAsNew, Fields
      <3>2. Sound(s') /\ s'.stash = d.stash
        BY <2>2, <3>1, LikeSound DEF Like, Beside
      <3>3. QED
        BY <1>1, <3>1, <3>2 DEF Rests, Beside
    <2>5. QED
      BY <2>1, <2>3, <2>4
  <1>19. QED
    BY <1>4, <1>5, <1>7, <1>8, <1>9, <1>10, <1>12, <1>14, <1>15, <1>17, <1>18 DEF Decide

(* The end of a drain, and the other steps between two drains.  A drain in *)
(* which a shutdown has concluded ends the session.                        *)
Over(m) == Undisturbed /\ m.result # "none" /\ m.drained # 0
Ready(m) ==
    /\ m.pc \in {"loop", "parked", "decide"} => Sound(m)
    /\ m.pc = "drain" => Sound(m) \/ Over(m)
Swept(m) ==
    m.pc \in {"loop", "decide", "turn"} \/ (m.pc \in {"drain", "parked"} /\ m.drained = 0)
      => m.stash = <<>>
Asleep(m) ==
    m.pc = "parked" =>
      m.timer = "none" /\ m.fifo = <<>> /\ m.toolActions = <<>> /\ m.pendingPrompt = {}

OnTime == Ready(s) /\ Swept(s) /\ Asleep(s) /\ (s.pc = "turn" => s.turn # {})

LEMMA RestsOnTime ==
    ASSUME s.stash = <<>>, Rests(s) \/ Opens PROVE OnTime'
  BY DEF Rests, Opens, OnTime, Ready, Swept, Asleep

LEMMA FlushSound ==
    ASSUME NEW m \in Fields
    PROVE  \E n \in Fields :
             /\ n = FlushStash(m) /\ n.stash = <<>> /\ n.pc = m.pc /\ n.drained = m.drained
             /\ n.result = m.result /\ n.shutdown = m.shutdown
             /\ Sound(m) => Sound(n)
  <1>1. PICK n \in Fields :
             /\ n = FlushStash(m) /\ n.stash = <<>> /\ n.pc = m.pc
             /\ \A x : Has(n, x) <=> Has(m, x)
             /\ n.timer = m.timer /\ n.question = m.question /\ n.pendingPrompt = m.pendingPrompt
             /\ n.awaited = m.awaited /\ n.toolActions = m.toolActions /\ n.cron = m.cron
             /\ n.result = m.result /\ n.drained = m.drained /\ n.shutdown = m.shutdown
             /\ n.status = m.status
    BY FlushHas
  <1>2. \A x : Wakes(n, x) <=> Wakes(m, x)
    BY <1>1 DEF Wakes
  <1>3. (Due(n) <=> Due(m)) /\ (Pends(n) <=> Pends(m))
    BY <1>1 DEF Due, Pends
  <1>4. Roused(m) => Roused(n)
    BY <1>1, <1>2, <1>3 DEF Roused
  <1>5. QED
    BY <1>1, <1>3, <1>4 DEF Sound

LEMMA LeaveDrainOnTime ==
    ASSUME NEW m \in Fields, Sound(m) \/ m.result # "none", s' = LeaveDrain(m) PROVE OnTime'
  <1>1. PICK n \in Fields : n = FlushStash(m) /\ n.stash = <<>> /\ (Sound(m) => Sound(n))
    BY FlushSound
  <1>2. PICK point \in {"decide", "ended"} :
          /\ s' = [n EXCEPT !.pc = point, !.drained = 0, !.seen = {}]
          /\ m.result # "none" => point = "ended"
    BY <1>1 DEF LeaveDrain
  <1>3. s'.pc = point /\ Like(n, s')
    BY <1>1, <1>2 DEF Fields, Like, Beside
  <1>4. s'.stash = <<>> /\ (Sound(m) => Sound(s'))
    BY <1>1, <1>3, LikeSound DEF Like, Beside
  <1>5. QED
    BY <1>2, <1>3, <1>4 DEF OnTime, Ready, Swept, Asleep

LEMMA DrainOnTime ==
    ASSUME TypeOK, s \in Fields, OnTime,
           IterationCap \/ HistoryCap \/ StartDrain \/ TimerFires \/ DigestDue \/ Park \/ EndDrain
    PROVE  OnTime'
  <1>1. CASE IterationCap \/ HistoryCap
    <2>1. s' = ContinueAsNew(s) /\ s.pc = "loop"
      BY <1>1 DEF IterationCap, HistoryCap
    <2>2. Like(s, s') /\ s'.pc = "loop"
      BY <2>1, HelpersLike DEF ContinueAsNew, Fields
    <2>3. QED
      BY <2>1, <2>2, LikeSound DEF OnTime, Ready, Swept, Asleep, Like, Beside
  <1>2. CASE StartDrain
    <2>1. s' = [s EXCEPT !.pc = "drain", !.loop = s.loop + 1, !.drained = 0, !.seen = {}] /\ s.pc = "loop"
      BY <1>2 DEF StartDrain
    <2>2. Like(s, s') /\ s'.pc = "drain"
      BY <2>1 DEF Like, Beside, Fields
    <2>3. QED
      BY <2>1, <2>2, LikeSound DEF OnTime, Ready, Swept, Asleep, Like, Beside
  <1>3. CASE TimerFires
    <2>1. PICK x \in Item : x = [kind |-> "timer", timer |-> s.timer]
      <3>1. [kind |-> "timer", timer |-> s.timer] \in Item
        BY <1>3, ItemKinds DEF TimerFires, Fields
      <3>2. QED
        BY <3>1
    <2>2. s' = [s EXCEPT !.stash = Append(s.stash, x), !.timer = "none", !.drained = s.drained + 1]
      BY <1>3, <2>1 DEF TimerFires
    <2>3. /\ s'.stash = Append(s.stash, x) /\ s'.fifo = s.fifo /\ s'.drained = s.drained + 1
          /\ s'.pc = s.pc /\ s'.question = s.question /\ s'.pendingPrompt = s.pendingPrompt
          /\ s'.awaited = s.awaited /\ s'.toolActions = s.toolActions /\ s'.cron = s.cron
      BY <2>2 DEF Fields
    <2>4. s.pc = "drain" /\ s.drained \in Nat
      BY <1>3, Bounds DEF TimerFires, Draining, Fields, Drains
    <2>5. \A y : Has(s', y) <=> Has(s, y) \/ y = x
      BY <2>3, AppendHas
    <2>6. \A y : Wakes(s', y) <=> Wakes(s, y)
      BY <2>3 DEF Wakes
    <2>7. (Due(s') <=> Due(s)) /\ (Pends(s') <=> Pends(s))
      BY <2>3 DEF Due, Pends
    <2>8. \/ s.timer \in {"wait", "cron"} \/ (s.timer = "agent-poll" /\ s.awaited # {})
          => Wakes(s', x)
      BY <2>1, <2>3 DEF Wakes, WaitItem, CronItem, PollItem
    <2>9. Roused(s) => Roused(s')
      BY <2>3, <2>5, <2>6, <2>7, <2>8 DEF Roused
    <2>10. s'.result = s.result
      BY <2>2 DEF Fields
    <2>11. QED
      BY <2>3, <2>4, <2>7, <2>9, <2>10 DEF OnTime, Ready, Swept, Asleep, Sound, Over
  <1>4. CASE DigestDue
    <2>1. PICK m \in Fields : m = [s EXCEPT !.digest = "ready"]
      <3>1. "ready" \in Digest
        BY Literals
      <3>2. [s EXCEPT !.digest = "ready"] \in Fields
        BY <3>1, ZenonT(60) DEF Fields
      <3>3. QED
        BY <3>2
    <2>2. Like(s, m) /\ m.result = s.result
      BY <2>1 DEF Like, Beside, Fields
    <2>3. s' = LeaveDrain(m) /\ s.pc = "drain"
      BY <1>4, <2>1 DEF DigestDue, Draining
    <2>4. QED
      BY <2>2, <2>3, LikeSound, LeaveDrainOnTime DEF OnTime, Ready, Over
  <1>5. CASE Park
    <2>1. PICK status : s' = [s EXCEPT !.pc = "parked", !.status = status]
      BY <1>5 DEF Park
    <2>2. /\ s.timer = "none" /\ s.fifo = <<>> /\ s.toolActions = <<>> /\ s.pendingPrompt = {}
          /\ s.pc = "drain" /\ s.drained = 0
      BY <1>5 DEF Park, Racing, needsBlockingDequeue, Draining
    <2>3. Like(s, s') /\ s'.pc = "parked"
      BY <2>1 DEF Like, Beside, Fields
    <2>4. QED
      BY <2>2, <2>3, LikeSound DEF OnTime, Ready, Swept, Asleep, Like, Beside, Over
  <1>6. CASE EndDrain
    <2>1. s' = LeaveDrain(s) /\ s.pc = "drain"
      BY <1>6 DEF EndDrain
    <2>2. QED
      BY <2>1, LeaveDrainOnTime DEF OnTime, Ready, Over
  <1>7. QED
    BY <1>1, <1>2, <1>3, <1>4, <1>5, <1>6

LEMMA DequeueOnTime ==
    ASSUME TypeOK, Awake, Booked, s \in Fields, Punctual, OnTime, Dequeue
    PROVE  OnTime'
  <1>1. s.shutdown # NoShutdown => Undisturbed
    BY DEF Booked, ShutdownOwned, Punctual
  <1>2. ASSUME NEW x, Take(x)
        PROVE  \E d \in Fields :
                 /\ d = Dequeued /\ d.pc = "drain" /\ d.drained = s.drained + 1 /\ d.drained # 0
                 /\ d.shutdown = s.shutdown /\ d.result = s.result
                 /\ Sound(d) \/ Over(d)
    <2>1. PICK d \in Fields : d = Dequeued
      BY <1>2, TakeTyped
    <2>2. /\ d.pc = "drain" /\ d.drained = s.drained + 1 /\ d.shutdown = s.shutdown
          /\ d.result = s.result /\ Like(s, d)
      BY <2>1 DEF Dequeued, Fields, Like, Beside
    <2>3. s.pc \in {"drain", "parked"} /\ s.drained \in Nat
      BY <1>2, Bounds DEF Take, MayDequeue, Draining, Fields, Drains
    <2>4. Sound(d) \/ Over(d)
      BY <2>2, <2>3, LikeSound DEF OnTime, Ready, Over
    <2>5. QED
      BY <1>1, <2>1, <2>2, <2>3, <2>4
  <1>3. ASSUME s'.pc \in {"drain", "ended"},
               s'.pc = "drain" => s'.drained # 0 /\ (Sound(s') \/ Over(s'))
        PROVE  OnTime'
    BY <1>3 DEF OnTime, Ready, Swept, Asleep
  <1>4. ASSUME NEW p \in Prompt, RoutePrompt(p) PROVE OnTime'
    <2>1. Take([kind |-> "prompt", prompt |-> p])
      BY <1>4 DEF RoutePrompt
    <2>2. PICK d \in Fields : d = Dequeued /\ d.pc = "drain" /\ d.drained # 0
      BY <1>2, <2>1
    <2>3. PICK m \in Interruptions(d) :
            s' = [m EXCEPT !.digest = "none", !.stash = Append(m.stash, PromptItem(p))]
      BY <1>4, <2>2 DEF RoutePrompt, PromptItem
    <2>4. m \in Fields
      BY <2>2, <2>3, InterruptionsTyped
    <2>5. m.pc = d.pc /\ m.drained = d.drained
      <3>1. m.pc = d.pc
        BY <2>2, <2>3, InterruptionsSame
      <3>2. \/ \E t : m = [d EXCEPT !.timer = "none", !.heldWait = t]
            \/ \E t : m = [d EXCEPT !.timer = "none", !.heldCron = t]
            \/ m = [d EXCEPT !.timer = "none"] \/ m = [d EXCEPT !.timer = "none", !.awaited = {}] \/ m = d
        BY <2>3 DEF Interruptions
      <3>3. m.drained = d.drained
        BY <2>2, <3>2 DEF Fields
      <3>4. QED
        BY <3>1, <3>3
    <2>6. s'.pc = m.pc /\ s'.drained = m.drained /\ s'.fifo = m.fifo
          /\ s'.stash = Append(m.stash, PromptItem(p))
      BY <2>3, <2>4 DEF Fields
    <2>7. Has(s', PromptItem(p))
      BY <2>4, <2>6, AppendHas, PromptKinds
    <2>8. Wakes(s', PromptItem(p))
      BY PromptKinds DEF Wakes
    <2>9. Sound(s')
      BY <2>7, <2>8 DEF Sound, Roused
    <2>10. QED
      BY <1>3, <2>2, <2>5, <2>6, <2>9
  <1>5. CASE RouteAnswer
    <2>1. Take([kind |-> "answer"])
      BY <1>5 DEF RouteAnswer
    <2>2. PICK d \in Fields :
            d = Dequeued /\ d.pc = "drain" /\ d.drained # 0 /\ (Sound(d) \/ Over(d))
      BY <1>2, <2>1
    <2>3. PICK y \in Item : y = [kind |-> "answer"]
      BY ItemKinds
    <2>4. s' = [d EXCEPT !.stash = Append(d.stash, y)]
      BY <1>5, <2>2, <2>3 DEF RouteAnswer
    <2>5. /\ s'.stash = Append(d.stash, y) /\ s'.fifo = d.fifo /\ s'.drained = d.drained
          /\ s'.pc = d.pc /\ s'.question = d.question /\ s'.pendingPrompt = d.pendingPrompt
          /\ s'.awaited = d.awaited /\ s'.toolActions = d.toolActions /\ s'.cron = d.cron
          /\ s'.timer = d.timer /\ s'.result = d.result
      BY <2>2, <2>4 DEF Fields
    <2>6. \A x : Has(s', x) <=> Has(d, x) \/ x = y
      BY <2>2, <2>5, AppendHas
    <2>7. \A x : Wakes(s', x) <=> Wakes(d, x)
      BY <2>5 DEF Wakes
    <2>8. (Due(s') <=> Due(d)) /\ (Pends(s') <=> Pends(d))
      BY <2>5 DEF Due, Pends
    <2>9. Roused(d) => Roused(s')
      BY <2>5, <2>6, <2>7, <2>8 DEF Roused
    <2>10. QED
      BY <1>3, <2>2, <2>5, <2>8, <2>9 DEF Sound, Over
  <1>6. ASSUME NEW c \in Child, NEW kind \in {"completed", "cancelled", "wait"},
               RouteChildUpdate(c, kind)
        PROVE  OnTime'
    <2>1. Take(Update(c, kind))
      BY <1>6 DEF RouteChildUpdate
    <2>2. PICK d \in Fields :
            /\ d = Dequeued /\ d.pc = "drain" /\ d.drained # 0
            /\ d.shutdown = s.shutdown /\ (Sound(d) \/ Over(d))
      BY <1>2, <2>1
    <2>3. CASE s' = d
      BY <1>3, <2>2, <2>3
    <2>4. CASE s' = ResolveAgentWait(BufferChildUpdate(ApplyChildUpdate(
                  [d EXCEPT !.seen = @ \union {<<c, kind>>}], c, kind)))
      <3>1. PICK e \in Fields : e = [d EXCEPT !.seen = @ \union {<<c, kind>>}]
        <4>1. d.seen \union {<<c, kind>>} \in Seen
          BY <2>2 DEF Fields, Seen
        <4>2. [d EXCEPT !.seen = d.seen \union {<<c, kind>>}] \in Fields
          BY <2>2, <4>1, ZenonT(60) DEF Fields
        <4>3. QED
          BY <4>2
      <3>2. /\ Like(d, e) /\ e.pc = d.pc /\ e.drained = d.drained /\ e.shutdown = d.shutdown
            /\ e.result = d.result
        BY <2>2, <3>1 DEF Fields, Like, Beside
      <3>3. PICK a \in Fields : a = ApplyChildUpdate(e, c, kind)
        BY ChildUpdateTyped DEF TypeOK
      <3>4. /\ Like(e, a) /\ a.pc = e.pc /\ a.drained = e.drained /\ a.shutdown = e.shutdown
            /\ a.result = e.result
        BY <3>1, <3>3 DEF ApplyChildUpdate, Fields, Like, Beside
      <3>5. PICK b \in Fields : b = BufferChildUpdate(a)
        BY BufferTyped
      <3>6. /\ Like(a, b) /\ b.pc = a.pc /\ b.drained = a.drained /\ b.shutdown = a.shutdown
            /\ b.result = a.result
        BY <3>3, <3>5 DEF BufferChildUpdate, Fields, Like, Beside
      <3>7. Like(d, b)
        BY <3>2, <3>4, <3>6, LikeTwice
      <3>8. b.shutdown = s.shutdown /\ b.pc = "drain" /\ b.drained # 0 /\ (Sound(b) \/ Over(b))
        BY <2>2, <3>2, <3>4, <3>6, <3>7, LikeSound DEF Over
      <3>9. PICK n \in Fields :
              /\ n = ResolveAgentWait(b) /\ n.pc = b.pc /\ n.drained = b.drained
              /\ \/ ~Resolved(b) /\ n = b
                 \/ Resolved(b) /\ b.shutdown = NoShutdown /\ n.pendingPrompt # {} /\ n.result = b.result
                 \/ Resolved(b) /\ b.shutdown # NoShutdown /\ n.result # "none"
        BY <3>5, ResolveRouses
      <3>10. s' = n
        BY <2>4, <3>1, <3>3, <3>5, <3>9
      <3>11. Sound(n) \/ Over(n)
        BY <1>1, <3>8, <3>9 DEF Sound, Roused, Over
      <3>12. QED
        BY <1>3, <3>8, <3>9, <3>10, <3>11
    <2>5. QED
      BY <1>6, <2>2, <2>3, <2>4 DEF RouteChildUpdate
  <1>7. ASSUME NEW x, Take(x)
        PROVE  \E f \in Fields :
                 /\ f = FlushStash(Dequeued) /\ f.stash = <<>> /\ f.pc = "drain" /\ f.drained # 0
                 /\ f.result = s.result /\ f.shutdown = s.shutdown
                 /\ Sound(f) \/ Over(f)
    <2>1. PICK d \in Fields :
            /\ d = Dequeued /\ d.pc = "drain" /\ d.drained # 0
            /\ d.shutdown = s.shutdown /\ d.result = s.result /\ (Sound(d) \/ Over(d))
      BY <1>2, <1>7
    <2>2. PICK f \in Fields :
             /\ f = FlushStash(d) /\ f.stash = <<>> /\ f.pc = d.pc /\ f.drained = d.drained
             /\ f.result = d.result /\ f.shutdown = d.shutdown
             /\ Sound(d) => Sound(f)
      BY FlushSound
    <2>3. QED
      BY <2>1, <2>2 DEF Over
  <1>8. ASSUME NEW m \in Fields, NEW c \in Command
        PROVE  \E r \in Fields :
                 /\ r = Respond(m, c) /\ Like(m, r) /\ r.pc = m.pc /\ r.drained = m.drained
                 /\ r.result = m.result
    <2>1. PICK r \in Fields : r = Respond(m, c)
      BY RespondTyped
    <2>2. Like(m, r) /\ r.pc = m.pc /\ r.drained = m.drained /\ r.result = m.result
      BY <2>1 DEF Respond, Fields, Like, Beside
    <2>3. QED
      BY <2>1, <2>2
  <1>9. ASSUME NEW c \in Command, RouteQuery(c) \/ RouteSecondShutdown(c) PROVE OnTime'
    <2>1. Take(CmdMessage(c))
      BY <1>9 DEF RouteQuery, RouteSecondShutdown, CmdMessage
    <2>2. PICK f \in Fields :
            f = FlushStash(Dequeued) /\ f.pc = "drain" /\ f.drained # 0 /\ (Sound(f) \/ Over(f))
      BY <1>7, <2>1
    <2>3. PICK r \in Fields :
            /\ r = Respond(f, c) /\ Like(f, r) /\ r.pc = f.pc /\ r.drained = f.drained
            /\ r.result = f.result
      BY <1>8
    <2>4. PICK status : s' = [r EXCEPT !.status = status] \/ s' = AfterCommand([r EXCEPT !.status = status])
      BY <1>9, <2>2, <2>3 DEF RouteQuery, RouteSecondShutdown
    <2>5. PICK n : n = [r EXCEPT !.status = status]
      OBVIOUS
    <2>6. /\ Like(r, n) /\ n.pc = r.pc /\ n.drained = r.drained /\ n.result = r.result
          /\ DOMAIN n = DOMAIN r
      BY <2>3, <2>5 DEF Fields, Like, Beside
    <2>7. s' = n \/ s' = [n EXCEPT !.pc = "ended"]
      BY <2>4, <2>5 DEF AfterCommand
    <2>8. CASE s' = n
      <3>1. Sound(n) \/ Over(n)
        BY <2>2, <2>3, <2>6, LikeSound DEF Over
      <3>2. QED
        BY <1>3, <2>2, <2>3, <2>6, <2>8, <3>1
    <2>9. CASE s' = [n EXCEPT !.pc = "ended"]
      <3>1. s'.pc = "ended"
        BY <2>3, <2>6, <2>9 DEF Fields
      <3>2. QED
        BY <1>3, <3>1
    <2>10. QED
      BY <2>7, <2>8, <2>9
  <1>10. ASSUME NEW c \in Command, RouteSetModel(c) PROVE OnTime'
    <2>1. Take(CmdMessage(c))
      BY <1>10 DEF RouteSetModel, CmdMessage
    <2>2. PICK f \in Fields : f = FlushStash(Dequeued) /\ f.stash = <<>> /\ Sound(f)
      BY <1>7, <1>10, <2>1 DEF RouteSetModel, Over, Undisturbed
    <2>3. PICK r \in Fields : r = Respond(f, c) /\ Like(f, r)
      BY <1>8
    <2>4. PICK n \in Fields : n = ContinueAsNew(r) /\ Like(r, n) /\ n.pc = "loop"
      <3>1. ContinueAsNew(r).pc = "loop"
        BY <2>3 DEF ContinueAsNew, Fields
      <3>2. QED
        BY <2>3, <3>1, ContinueAsNewTyped, HelpersLike
    <2>5. s' = [n EXCEPT !.status = "idle"]
      BY <1>10, <2>2, <2>3, <2>4 DEF RouteSetModel
    <2>6. Like(n, s') /\ s'.pc = "loop"
      BY <2>4, <2>5 DEF Fields, Like, Beside
    <2>7. Sound(s')
      BY <2>2, <2>3, <2>4, <2>6, LikeSound
    <2>8. s'.stash = <<>>
      BY <2>2, <2>3, <2>4, <2>6 DEF Like, Beside
    <2>9. QED
      BY <2>6, <2>7, <2>8 DEF OnTime, Ready, Swept, Asleep
  <1>11. ASSUME NEW c \in Command, RouteShutdownCascade(c) PROVE OnTime'
    <2>1. Take(CmdMessage(c))
      BY <1>11 DEF RouteShutdownCascade, CmdMessage
    <2>2. PICK f \in Fields : f = FlushStash(Dequeued) /\ f.pc = "drain" /\ f.drained # 0
      BY <1>7, <2>1
    <2>3. PICK m \in Refreshes(f) : \E targets, shutdown :
            /\ targets # {}
            /\ s' = AfterCommand(
                      [m EXCEPT !.shutdown = shutdown, !.awaited = targets, !.digest = "none",
                                !.timer = "agent-poll", !.status = "waiting"])
      BY <1>11, <2>2 DEF RouteShutdownCascade
    <2>4. PICK targets, shutdown, n :
            /\ targets # {} /\ s' = AfterCommand(n)
            /\ n = [m EXCEPT !.shutdown = shutdown, !.awaited = targets, !.digest = "none",
                             !.timer = "agent-poll", !.status = "waiting"]
      BY <2>3
    <2>5. m \in Fields /\ m.pc = f.pc /\ m.drained = f.drained
      <3>1. m \in Fields
        BY <2>2, <2>3, RefreshesTyped DEF TypeOK
      <3>2. m.pc = f.pc /\ m.drained = f.drained
        BY <2>2, <2>3 DEF Refreshes, Refreshed, Fields
      <3>3. QED
        BY <3>1, <3>2
    <2>6. /\ n.pc = "drain" /\ n.drained # 0 /\ n.timer = "agent-poll" /\ n.awaited = targets
          /\ DOMAIN n = DOMAIN m
      BY <2>2, <2>4, <2>5 DEF Fields
    <2>7. s' = n \/ s' = [n EXCEPT !.pc = "ended"]
      BY <2>4 DEF AfterCommand
    <2>8. CASE s' = n
      BY <1>3, <2>4, <2>6, <2>8 DEF Sound, Roused
    <2>9. CASE s' = [n EXCEPT !.pc = "ended"]
      <3>1. s'.pc = "ended"
        BY <2>5, <2>6, <2>9 DEF Fields
      <3>2. QED
        BY <1>3, <3>1
    <2>10. QED
      BY <2>7, <2>8, <2>9
  <1>12. ASSUME NEW c \in Command, RouteShutdownNow(c) PROVE OnTime'
    <2>1. Take(CmdMessage(c)) /\ cmdOf[c] \in Signal
      BY <1>12 DEF RouteShutdownNow, Signal, CmdMessage
    <2>2. PICK f \in Fields : f = FlushStash(Dequeued)
      BY <1>7, <2>1
    <2>3. PICK m \in Refreshes(f) : s' = [FinishShutdown(m, cmdOf[c], c) EXCEPT !.pc = "ended"]
      BY <1>12, <2>2 DEF RouteShutdownNow
    <2>4. m \in Fields
      BY <2>2, <2>3, RefreshesTyped DEF TypeOK
    <2>5. PICK n \in Fields : n = FinishShutdown(m, cmdOf[c], c)
      BY <2>1, <2>4, FinishTyped
    <2>6. s'.pc = "ended"
      BY <2>3, <2>5 DEF Fields
    <2>7. QED
      BY <1>3, <2>6
  <1>13. QED
    BY <1>4, <1>5, <1>6, <1>9, <1>10, <1>11, <1>12 DEF Dequeue

LEMMA InitOnTime == Init => OnTime
  <1>1. SUFFICES ASSUME Init PROVE OnTime
    OBVIOUS
  <1>2. s.pc = "loop" /\ s.stash = <<>> /\ s.cron = FALSE /\ s.toolActions = <<>>
    BY <1>1 DEF Init
  <1>3. ~Due(s)
    BY <1>2 DEF Due
  <1>4. QED
    BY <1>2, <1>3 DEF OnTime, Ready, Swept, Asleep, Sound

LEMMA NextOnTime ==
    ASSUME Punctual
    PROVE  TypeOK /\ Awake /\ Booked /\ OnTime /\ [Next]_vars => OnTime'
  <1>1. SUFFICES ASSUME TypeOK, Awake, Booked, OnTime, [Next]_vars PROVE OnTime'
    OBVIOUS
  <1>2. s \in Fields
    BY <1>1, SessionFields DEF TypeOK
  <1>3. CASE IterationCap \/ HistoryCap \/ StartDrain \/ TimerFires \/ DigestDue \/ Park \/ EndDrain
    BY <1>1, <1>2, <1>3, DrainOnTime
  <1>4. CASE Dequeue
    BY <1>1, <1>2, <1>4, DequeueOnTime
  <1>5. CASE Decide
    <2>1. s.pc = "decide"
      BY <1>5 DEF Decide, ReplayToolAction, TakePendingPrompt, ProcessPrompt, ProcessAnswer,
                  ProcessWaitTimer, ProcessCronTimer, ProcessIdleTimer, ProcessGraceTimer,
                  ProcessStalePoll, ProcessPollResolved, ProcessPollAgain, ProcessShutdownPoll,
                  ProcessDigest, DecideNothing, Popping, Fired, NothingPopped, Deciding
    <2>2. Sound(s) /\ s.stash = <<>>
      BY <1>1, <2>1 DEF OnTime, Ready, Swept
    <2>3. QED
      BY <1>1, <1>2, <1>5, <2>2, DecideRests, RestsOnTime
  <1>6. CASE Turn
    <2>1. s.pc = "turn"
      BY <1>6 DEF Turn, TurnReturns, TurnLosesState, TurnLosesConnection, TurnFails, Failing
    <2>2. s.turn # {} /\ s.stash = <<>>
      BY <1>1, <2>1 DEF OnTime, Swept
    <2>3. QED
      BY <1>1, <1>2, <1>6, <2>2, TurnRests, RestsOnTime
  <1>7. CASE Environment
    <2>1. s' = s \/ s' = [s EXCEPT !.surprises = s.surprises + 1]
      BY <1>7 DEF Environment, UserSends, UserAnswers, ClientCommands, ChildStep, ChildCompletes,
                  ChildEnds, ChildWaits, ChildResumes, ChildFails, ChildObeys, SpawnInTurn,
                  SignalInTurn, DeleteInTurn, ToolCalled
    <2>2. /\ Like(s, s') /\ s'.pc = s.pc /\ s'.drained = s.drained /\ s'.turn = s.turn
          /\ s'.result = s.result
      BY <1>2, <2>1 DEF Fields, Like, Beside
    <2>3. QED
      BY <1>1, <2>2, LikeSound DEF OnTime, Ready, Swept, Asleep, Like, Beside, Over
  <1>8. CASE UNCHANGED vars
    <2>1. s' = s
      BY <1>8 DEF vars
    <2>2. QED
      BY <1>1, <2>1 DEF OnTime
  <1>9. QED
    BY <1>1, <1>3, <1>4, <1>5, <1>6, <1>7, <1>8 DEF Next, Loop

(* A session with a recurring schedule is never asleep without a timer,    *)
(* except while a question is open: whatever its turns, drains, retries    *)
(* and new executions did to the timer of the schedule, there was          *)
(* something left to start the next turn, after which it is armed again.   *)
THEOREM ScheduleStaysAwake == ASSUME Punctual PROVE Spec => []CronNeverParked
  <1>1. OnTime /\ Awake => CronNeverParked
    <2>1. SUFFICES ASSUME OnTime, Awake, s.pc = "parked", s.cron PROVE s.question
      BY DEF CronNeverParked
    <2>2. /\ s.timer = "none" /\ s.fifo = <<>> /\ s.toolActions = <<>> /\ s.pendingPrompt = {}
          /\ s.stash = <<>> /\ Roused(s)
      BY <2>1 DEF OnTime, Asleep, Swept, Awake, Ready, Sound, Due
    <2>3. ~Pends(s) /\ \A x : ~Has(s, x)
      BY <2>2 DEF Pends, Has, Within
    <2>4. QED
      BY <2>2, <2>3 DEF Roused
  <1>2. QED
    BY <1>1, InitTyped, NextTyped, InitBooked, NextBooked, InitOnTime, NextOnTime, PTL DEF Spec
=============================================================================
