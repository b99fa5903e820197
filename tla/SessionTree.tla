------------------------------ MODULE SessionTree ------------------------------
(***************************************************************************)
(* Sessions that spawn sub-agents, end in a graceful shutdown and are      *)
(* deleted, with their rows in the catalog: the shutdown of                *)
(* orchestration.ts, the activities of session-proxy.ts that change rows   *)
(* and instances, getSession and deleteSession of management-client.ts,    *)
(* the derivation of session-status.ts and cleanup_session of              *)
(* sweeper-tools.ts (all under src/packages/sdk/src).                      *)
(*                                                                         *)
(* Three things say what a session is: its row, the instance of its        *)
(* orchestration and the status that one publishes.  They are written by   *)
(* turns, shutdowns, deletions and by everybody who looks at the session,  *)
(* and none of these excludes the others.  SessionLoop has the inside of   *)
(* one session; here a session is where it stands in its loop.             *)
(***************************************************************************)
EXTENDS Naturals, FiniteSets

CONSTANTS
    MaxSessions,   \* bound: sessions, numbered as they are created; 1 has no parent
    Scheduled,     \* sub-agents on a schedule: they go on after a completed turn
    MaxRequests,   \* bound: commands, deletions by a client and sweeps
    MaxHitches     \* bound: failing queries, signals and deletions

ASSUME TreeBounds ==
    /\ MaxSessions \in Nat \ {0} /\ {MaxRequests, MaxHitches} \subseteq Nat
    /\ Scheduled \subseteq 2 .. MaxSessions

VARIABLES
    sessions,      \* row, instance and loop of each session
    viewer,        \* somebody who looks at one session again and again (getSession)
    deletion,      \* deleteSession of a management client
    sweep,         \* cleanup_session of the sweeper
    felled,        \* sessions that were deleted with their descendants
    spared,        \* sessions such a deletion cannot reach or know of, or where a
                   \* call of it failed unnoticed, see Spare
    requests, hitches   \* the counters of their bounds

treeVars == <<sessions, viewer, deletion, sweep, felled, spared, requests, hitches>>

Sid == 1 .. MaxSessions
NoParent == 0
Terminal == {"completed", "cancelled", "failed"}
State == Terminal \union {"none", "active"}
Lifecycle == {"done", "cancel", "delete"}

(* A session that deletes itself is cancelled until it has enumerated its  *)
(* descendants; doomed are those it has still to delete.  An instance is   *)
(* gone when it was removed or could not be started.                       *)
SessionState ==
    [parent : 0 .. MaxSessions, row : State, deleted : BOOLEAN,
     instance : {"none", "Running", "Completed", "Failed", "gone"}, published : State,
     stage : {"loop", "turn", "shutdown", "cancelled", "deleting"}, mode : Lifecycle \union {"none"},
     activity : BOOLEAN, agents : [Sid -> {"untracked", "running", "terminal"}],
     awaited : SUBSET Sid, doomed : SUBSET Sid, inbox : SUBSET Lifecycle, reports : SUBSET Sid]

Absent == [parent |-> NoParent, row |-> "none", deleted |-> FALSE, instance |-> "none",
           published |-> "none", stage |-> "loop", mode |-> "none", activity |-> FALSE,
           agents |-> [c \in Sid |-> "untracked"], awaited |-> {}, doomed |-> {},
           inbox |-> {}, reports |-> {}]

TreeInit ==
    /\ sessions = [s \in Sid |-> IF s = 1 THEN [Absent EXCEPT !.row = "active", !.instance = "Running"]
                                 ELSE Absent]
    /\ \E s \in {NoParent} \union Sid : viewer = [pc |-> "away", of |-> s, row |-> "none", write |-> "none"]
    /\ deletion = [pc |-> "none", of |-> 1, misread |-> FALSE]
    /\ sweep = [of |-> NoParent, doomed |-> {}]
    /\ felled = {} /\ spared = {} /\ requests = 0 /\ hitches = 0

Hitch == hitches < MaxHitches /\ hitches' = hitches + 1
Request == requests < MaxRequests /\ requests' = requests + 1

Runs(s) == sessions[s].instance = "Running"
Listed(s) == sessions[s].row # "none" /\ ~sessions[s].deleted
ChildrenOf(s) == {c \in Sid : sessions[c].parent = s}

(* The least set that contains the children of s and those of its members. *)
Below(s, kids) ==
    {d \in Sid : \A S \in SUBSET Sid :
                   kids[s] \subseteq S /\ (\A c \in S : kids[c] \subseteq S) => d \in S}

(* cms_get_descendant_session_ids goes through rows that are not deleted.  *)
ListedChildren(s) == {c \in ChildrenOf(s) : Listed(c)}

(* Fault: the children only.                                               *)
DescendantsDirect(s) == ListedChildren(s)
Descendants(s) == Below(s, [p \in Sid |-> ListedChildren(p)])
Offspring(s) == Below(s, [p \in Sid |-> ChildrenOf(p)])

(* A schedule is part of the custom status and void once the instance has  *)
(* ended.  (System sessions, which are no sub-agents here, are left out.)  *)
OnSchedule(s) == s \in Scheduled /\ Runs(s) /\ sessions[s].published # "none"

(* deriveSessionStatus.                                                    *)
Shown(s) ==
    LET n == sessions[s]
        row == IF n.deleted THEN "none" ELSE n.row
        published == IF n.instance = "gone" THEN "none" ELSE n.published
    IN  IF n.instance = "Failed" THEN "failed"
        ELSE IF /\ n.parent # NoParent /\ ~OnSchedule(s)
                /\ row # "none" /\ "completed" \in {row, published}
        THEN "completed"
        ELSE IF published # "none" THEN published
        ELSE IF n.instance = "Running" /\ row \in {"failed", "completed"} THEN "active" ELSE row

(* Fault: only the state of the row is looked at.                          *)
CorrectionUnsynced(n, row) ==
    IF n.instance = "Failed" /\ row # "failed" THEN "failed" ELSE "none"

(* Whoever reads the status of a session corrects its row with it:         *)
(* shouldSyncCompletedStatus, shouldSyncFailedStatus, the recovered state. *)
Correction(n, row) ==
    CASE n.parent # NoParent /\ row # "completed" /\ n.published = "completed" -> "completed"
      [] n.instance = "Failed" /\ row # "failed" -> "failed"
      [] n.instance = "Running" /\ row = "failed" ->
           IF n.published \in {"completed", "cancelled"} THEN n.published ELSE "active"
      [] OTHER -> "none"

Corrected(states, looked) ==
    [c \in Sid |-> LET fix == Correction(states[c], states[c].row)
                   IN  IF c \in looked /\ fix # "none" THEN [states[c] EXCEPT !.row = fix]
                       ELSE states[c]]

----------------------------------------------------------------------------
(* Turns and sub-agents.                                                   *)

RestOfTree == UNCHANGED <<viewer, deletion, sweep, felled>>
NoCounters == UNCHANGED <<requests, hitches>>

(* Marks the row running before the turn.                                  *)
TurnStarts(s) ==
    /\ Runs(s) /\ sessions[s].stage = "loop"
    /\ sessions' = [sessions EXCEPT ![s].stage = "turn", ![s].activity = TRUE,
                                    ![s].row = "active", ![s].published = "active"]
    /\ UNCHANGED spared /\ RestOfTree /\ NoCounters

(* A deletion that has enumerated the descendants of s or of a session     *)
(* above it, or deleted one of these, does not reach what s spawns.        *)
OutOfReach(s) ==
    \/ s \in spared
    \/ \E a \in Sid : s \in {a} \union Offspring(a) /\
         (sessions[a].deleted \/ sessions[a].stage = "deleting" \/ sweep.of = a)

(* spawnAgent writes the row first and then starts the orchestration.      *)
SpawnRow(s) ==
    /\ sessions[s].activity
    /\ \E c \in Sid :
         /\ sessions[c].row = "none" /\ \A b \in 1 .. c - 1 : sessions[b].row # "none"
         /\ sessions' = [sessions EXCEPT ![c] = [Absent EXCEPT !.parent = s, !.row = "active"]]
         /\ spared' = spared \union (IF OutOfReach(s) THEN {c} ELSE {})
    /\ RestOfTree /\ NoCounters

SpawnInstance(c) ==
    /\ sessions[c].row # "none" /\ sessions[c].instance = "none"
    /\ sessions' = [sessions EXCEPT ![c].instance = "Running", ![c].row = "active"]
    /\ UNCHANGED spared /\ RestOfTree /\ NoCounters

SpawnFails(c) ==
    /\ sessions[c].row # "none" /\ sessions[c].instance = "none" /\ Hitch
    /\ sessions' = [sessions EXCEPT ![c].instance = "gone"]
    /\ UNCHANGED <<spared, requests>> /\ RestOfTree

Spawned(s) == \A c \in ChildrenOf(s) : sessions[c].instance # "none"

(* refreshTrackedSubAgents lists the children with the status they show;   *)
(* when it fails the list stays as it is.                                  *)
Listing(s) ==
    [c \in Sid |-> IF c \notin ListedChildren(s) THEN "untracked"
                   ELSE IF Shown(c) \in Terminal THEN "terminal" ELSE "running"]
Relisted(s, agents, states) ==
    \/ agents = Listing(s) /\ states = Corrected(sessions, ListedChildren(s)) /\ UNCHANGED hitches
    \/ agents = sessions[s].agents /\ states = sessions /\ Hitch

Notify(states, s) ==
    IF states[s].parent = NoParent THEN states
    ELSE [states EXCEPT ![states[s].parent].reports = @ \union {s}]

(* The result of the turn is written to the row; the loop goes on.  A      *)
(* sub-agent on a schedule reports a completed turn to its parent.         *)
TurnContinues(s) ==
    /\ Runs(s) /\ sessions[s].activity /\ Spawned(s)
    /\ \E agents \in {Listing(s), sessions[s].agents}, reports \in BOOLEAN,
          states \in {sessions, Corrected(sessions, ListedChildren(s))} :
         /\ Relisted(s, agents, states) /\ (reports => s \in Scheduled)
         /\ LET next == [states EXCEPT ![s].stage = "loop", ![s].activity = FALSE,
                                         ![s].row = "active", ![s].agents = agents]
            IN  sessions' = IF reports THEN Notify(next, s) ELSE next
    /\ UNCHANGED <<spared, requests>> /\ RestOfTree

(* A sub-agent without a schedule ends with its first completed turn,      *)
(* whatever its own sub-agents do; the row says idle.                      *)
TurnCompletesTask(s) ==
    /\ Runs(s) /\ sessions[s].activity /\ Spawned(s)
    /\ sessions[s].parent # NoParent /\ s \notin Scheduled
    /\ sessions' = Notify([sessions EXCEPT ![s].activity = FALSE, ![s].row = "active",
                                           ![s].published = "completed",
                                           ![s].instance = "Completed"], s)
    /\ UNCHANGED spared /\ RestOfTree /\ NoCounters

(* The turn of a session whose instance was cancelled or deleted notices   *)
(* it late: it may still write its result.                                 *)
TurnCancelled(s) ==
    /\ ~Runs(s) /\ sessions[s].activity /\ Spawned(s)
    /\ \E row \in {"active", sessions[s].row} :
         sessions' = [sessions EXCEPT ![s].activity = FALSE, ![s].row = row]
    /\ UNCHANGED spared /\ RestOfTree /\ NoCounters

----------------------------------------------------------------------------
(* Graceful shutdown.                                                      *)

CommandSent(s, cmd) ==
    /\ Runs(s) /\ Request
    /\ sessions' = [sessions EXCEPT ![s].inbox = @ \union {cmd}]
    /\ UNCHANGED <<spared, hitches>> /\ RestOfTree

(* completeShutdownSession and cancelShutdownSession.                      *)
Concludes(states, s, cmd) ==
    CASE cmd = "done" ->
           Notify([states EXCEPT ![s].row = "completed", ![s].published = "completed",
                                 ![s].instance = "Completed"], s)
      [] cmd = "cancel" ->
           Notify([states EXCEPT ![s].row = "cancelled", ![s].published = "cancelled",
                                 ![s].instance = "Completed"], s)
      [] cmd = "delete" ->
           Notify([states EXCEPT ![s].stage = "cancelled"], s)

(* Fault: one sub-agent that has ended is enough.                          *)
SomeTerminal(agents, awaited) == awaited = {} \/ \E c \in awaited : agents[c] = "terminal"

AllTerminal(agents, awaited) == \A c \in awaited : agents[c] = "terminal"

Signalled(states, targets, cmd) ==
    [c \in Sid |-> IF c \in targets /\ states[c].instance = "Running"
                   THEN [states[c] EXCEPT !.inbox = @ \union {cmd}] ELSE states[c]]

ShutdownBegins(s, cmd) ==
    /\ Runs(s) /\ sessions[s].stage = "loop" /\ cmd \in sessions[s].inbox
    /\ \E agents \in {Listing(s), sessions[s].agents}, lost \in {{}} \union {{c} : c \in Sid},
          states \in {sessions, Corrected(sessions, ListedChildren(s))} :
         LET targets == {c \in Sid : agents[c] = "running"}
             begun == [states EXCEPT ![s].inbox = @ \ {cmd}, ![s].agents = agents]
         IN  /\ lost \subseteq targets
             /\ IF lost = {} THEN Relisted(s, agents, states)
                ELSE agents = Listing(s) /\ states = Corrected(sessions, ListedChildren(s)) /\ Hitch
             /\ IF targets = {} THEN sessions' = Concludes(begun, s, cmd)
                ELSE sessions' = Signalled([begun EXCEPT ![s].stage = "shutdown", ![s].mode = cmd,
                                                          ![s].awaited = targets,
                                                          ![s].published = "active"],
                                           targets \ lost, IF cmd = "done" THEN "done" ELSE "cancel")
             /\ spared' = spared \union
                    {c \in ListedChildren(s) : agents[c] = "untracked"}
    /\ UNCHANGED requests /\ RestOfTree

(* A shutdown is already in progress.                                      *)
CommandIgnored(s, cmd) ==
    /\ Runs(s) /\ sessions[s].stage = "shutdown" /\ cmd \in sessions[s].inbox
    /\ sessions' = [sessions EXCEPT ![s].inbox = @ \ {cmd}]
    /\ UNCHANGED spared /\ RestOfTree /\ NoCounters

(* maybeResolveAgentWaitCompletion.                                        *)
Settling(states, s, agents, awaited) ==
    LET known == [states EXCEPT ![s].agents = agents]
    IN  IF states[s].stage = "shutdown" /\ AllTerminal(agents, awaited)
        THEN Concludes(known, s, states[s].mode) ELSE known

(* applyChildUpdate: the report says that the sub-agent has ended, its     *)
(* status may then say that it waits.                                      *)
ReportHeard(s, c) ==
    /\ Runs(s) /\ sessions[s].stage \in {"loop", "shutdown"} /\ c \in sessions[s].reports
    /\ \E state \in {"terminal"} \union (IF Shown(c) = "active" THEN {"running"} ELSE {}) :
         LET agents == IF sessions[s].agents[c] = "untracked" THEN sessions[s].agents
                       ELSE [sessions[s].agents EXCEPT ![c] = state]
         IN  sessions' = Settling(Corrected([sessions EXCEPT ![s].reports = @ \ {c}],
                                            {c} \intersect ListedChildren(s)),
                                  s, agents, sessions[s].awaited)
    /\ UNCHANGED spared /\ RestOfTree /\ NoCounters

(* The poll asks for the status of those it takes for running.             *)
AgentsPolled(s) ==
    /\ Runs(s) /\ sessions[s].stage = "shutdown"
    /\ LET ended == {c \in sessions[s].awaited : Shown(c) \in Terminal}
           agents == [c \in Sid |-> IF c \in ended THEN "terminal" ELSE sessions[s].agents[c]]
           looked == {c \in sessions[s].awaited : Listed(c) /\ sessions[s].agents[c] = "running"}
       IN  sessions' = Settling(Corrected(sessions, looked), s, agents, sessions[s].awaited)
    /\ UNCHANGED spared /\ RestOfTree /\ NoCounters

(* A poll at the deadline finds that not all have ended.                   *)
(* failPendingShutdown does not tell the parent.                           *)
ShutdownTimesOut(s) ==
    /\ Runs(s) /\ sessions[s].stage = "shutdown"
    /\ \E c \in sessions[s].awaited : sessions[s].agents[c] # "terminal" /\ Shown(c) \notin Terminal
    /\ sessions' = [sessions EXCEPT ![s].row = "failed", ![s].published = "failed",
                                    ![s].instance = "Completed"]
    /\ UNCHANGED spared /\ RestOfTree /\ NoCounters

----------------------------------------------------------------------------
(* Deletion.                                                               *)

(* Out of reach from now on: what was spawned but not started, what is     *)
(* below a row deleted by itself, and where a call failed.                 *)
Spare(d, others) ==
    spared' = spared \union (IF sessions[d].instance = "none" THEN {d} ELSE {}) \union others

(* The row goes first, then the instance: a failing call for the instance  *)
(* is swallowed by every deletion, and one that runs goes on running.      *)
InstanceSurvives(states, d) ==
    Runs(d) /\ Hitch /\ sessions' = [states EXCEPT ![d].deleted = TRUE]

(* client.deleteSession.                                                   *)
Erased(states, d, others) ==
    \/ /\ sessions' = [states EXCEPT ![d].deleted = TRUE,
                                      ![d].instance = IF @ = "Running" THEN "Failed" ELSE @]
       /\ Spare(d, others) /\ UNCHANGED hitches
    \/ InstanceSurvives(states, d) /\ Spare(d, others \union {d})

(* What deletions in progress have still to delete, and what of it a       *)
(* further enumeration misses, below a row that is deleted already.        *)
Doomed == sweep.doomed \union UNION {sessions[a].doomed : a \in {b \in Sid : Runs(b)}}
Missed(s) == (Offspring(s) \intersect Doomed) \ Descendants(s)

DescendantsEnumerated(s) ==
    /\ Runs(s) /\ sessions[s].stage = "cancelled"
    /\ \/ /\ sessions' = [sessions EXCEPT ![s].stage = "deleting", ![s].doomed = Descendants(s)]
          /\ spared' = spared \union Missed(s) /\ UNCHANGED hitches
       \/ /\ sessions' = [sessions EXCEPT ![s].stage = "deleting"]
          /\ spared' = spared \union Offspring(s) /\ Hitch
    /\ UNCHANGED requests /\ RestOfTree

DescendantDeleted(s, d) ==
    /\ Runs(s) /\ sessions[s].stage = "deleting" /\ d \in sessions[s].doomed
    /\ LET states == [sessions EXCEPT ![s].doomed = @ \ {d}] IN
         \/ Erased(states, d, {})
         \/ sessions' = states /\ Spare(d, {d}) /\ Hitch
    /\ UNCHANGED requests /\ RestOfTree

(* The session cancels its own instance, which may have returned before.   *)
(* When the deletion fails it returns with its row as it is.               *)
SelfDeleted(s) ==
    /\ Runs(s) /\ sessions[s].stage = "deleting" /\ sessions[s].doomed = {}
    /\ \/ /\ \E result \in {"Completed", "Failed"} :
              sessions' = [sessions EXCEPT ![s].deleted = TRUE, ![s].instance = result]
          /\ felled' = felled \union {s} /\ UNCHANGED hitches
       \/ /\ sessions' = [sessions EXCEPT ![s].instance = "Completed"]
          /\ UNCHANGED felled /\ Hitch
    /\ UNCHANGED <<viewer, deletion, sweep, spared, requests>>

(* deleteAgent during a turn deletes a child that shows a terminal status; *)
(* another one is sent a command (CommandSent).                            *)
AgentDeleted(s, c) ==
    /\ sessions[s].activity /\ c \in ListedChildren(s) /\ Shown(c) \in Terminal /\ Request
    /\ Erased(sessions, c, Offspring(c)) /\ RestOfTree

(* _forceDeleteSession writes a row of its own before it deletes it: when  *)
(* that fails the row stays.  Its instance has ended and is left if it     *)
(* cannot be removed.                                                      *)
Forced(s) ==
    \/ \E instance \in {"gone", sessions[s].instance} :
         /\ IF instance = "gone" THEN UNCHANGED hitches ELSE Hitch
         /\ sessions' = [sessions EXCEPT ![s].row = "failed", ![s].deleted = TRUE,
                                         ![s].instance = instance]
         /\ Spare(s, Offspring(s)) /\ deletion' = [deletion EXCEPT !.pc = "ok", !.of = s]
    \/ /\ sessions' = [sessions EXCEPT ![s].row = "failed"] /\ Hitch
       /\ UNCHANGED spared /\ deletion' = [deletion EXCEPT !.pc = "failed", !.of = s]

(* deleteSession of the management client: by force, or by a command after *)
(* which it polls until the session is not found.                          *)
DeletionRequested(s) ==
    /\ deletion.pc = "none" /\ Listed(s) /\ Request
    /\ IF Shown(s) \in Terminal \/ sessions[s].instance \in {"Completed", "Failed"} THEN Forced(s)
       ELSE /\ sessions' = [Corrected(sessions, {s}) EXCEPT ![s].inbox =
                                IF Runs(s) THEN @ \union {"delete"} ELSE @]
            /\ UNCHANGED <<spared, hitches>> /\ deletion' = [deletion EXCEPT !.pc = "sent", !.of = s]
    /\ UNCHANGED <<viewer, sweep, felled>>

(* _waitForSession takes a query that fails for a session not found.       *)
DeletionSettles ==
    /\ deletion.pc = "sent"
    /\ \/ sessions[deletion.of].deleted /\ deletion' = [deletion EXCEPT !.pc = "ok"]
          /\ UNCHANGED hitches
       \/ ~sessions[deletion.of].deleted /\ Hitch
          /\ deletion' = [deletion EXCEPT !.pc = "ok", !.misread = TRUE]
       \/ deletion' = [deletion EXCEPT !.pc = "timedOut"] /\ UNCHANGED hitches
    /\ UNCHANGED <<sessions, viewer, sweep, felled, spared, requests>>

(* cleanup_session, for what the scan lists: sessions that have ended, and *)
(* sub-agents that are idle.  It removes the instances by force.           *)
SweepBegins(s) ==
    /\ sweep.of = NoParent /\ Listed(s) /\ Request
    /\ ~Runs(s) \/ (sessions[s].parent # NoParent /\ sessions[s].stage = "loop")
    /\ sessions[s].instance # "none"
    /\ sweep' = [of |-> s, doomed |-> Descendants(s)] /\ spared' = spared \union Missed(s)
    /\ UNCHANGED <<sessions, viewer, deletion, felled, hitches>>

Removed(d) ==
    \/ /\ sessions' = [sessions EXCEPT ![d].deleted = TRUE,
                                        ![d].instance = IF @ = "none" THEN @ ELSE "gone"]
       /\ Spare(d, {}) /\ UNCHANGED hitches
    \/ InstanceSurvives(sessions, d) /\ Spare(d, {d})

(* It goes on past a descendant whose row it cannot delete, and reports ok.*)
SweepContinues ==
    /\ sweep.of # NoParent /\ sweep.doomed # {}
    /\ \E d \in sweep.doomed :
         /\ Removed(d) \/ (UNCHANGED sessions /\ Spare(d, {d}) /\ Hitch)
         /\ sweep' = [sweep EXCEPT !.doomed = @ \ {d}]
    /\ UNCHANGED <<viewer, deletion, felled, requests>>

SweepEnds ==
    /\ sweep.of # NoParent /\ sweep.doomed = {}
    /\ \/ Removed(sweep.of) /\ felled' = felled \union {sweep.of}
       \/ UNCHANGED <<sessions, spared, felled>> /\ Hitch
    /\ sweep' = [of |-> NoParent, doomed |-> {}]
    /\ UNCHANGED <<viewer, deletion, requests>>

----------------------------------------------------------------------------
(* getSession reads the row, then the instance, and corrects the row.      *)

Unviewed == UNCHANGED <<sessions, deletion, sweep, felled, spared>> /\ NoCounters

RowViewed ==
    /\ viewer.pc = "away" /\ viewer.of # NoParent /\ Listed(viewer.of)
    /\ viewer' = [viewer EXCEPT !.pc = "row", !.row = sessions[viewer.of].row]
    /\ Unviewed

StatusViewed ==
    /\ viewer.pc = "row"
    /\ viewer' = [viewer EXCEPT !.pc = "write", !.row = "none",
                                !.write = Correction(sessions[viewer.of], viewer.row)]
    /\ Unviewed

RowCorrected ==
    /\ viewer.pc = "write"
    /\ viewer' = [viewer EXCEPT !.pc = "away", !.write = "none"]
    /\ sessions' = [sessions EXCEPT ![viewer.of].row =
                        IF viewer.write = "none" THEN @ ELSE viewer.write]
    /\ UNCHANGED <<deletion, sweep, felled, spared>> /\ NoCounters

Views == RowViewed \/ StatusViewed \/ RowCorrected

TreeNext ==
    \/ \E s \in Sid :
         \/ TurnStarts(s) \/ SpawnRow(s) \/ SpawnInstance(s) \/ SpawnFails(s)
         \/ TurnContinues(s) \/ TurnCompletesTask(s) \/ TurnCancelled(s)
         \/ \E cmd \in Lifecycle : CommandSent(s, cmd) \/ ShutdownBegins(s, cmd) \/ CommandIgnored(s, cmd)
         \/ \E c \in Sid : ReportHeard(s, c) \/ DescendantDeleted(s, c) \/ AgentDeleted(s, c)
         \/ AgentsPolled(s) \/ ShutdownTimesOut(s) \/ DescendantsEnumerated(s) \/ SelfDeleted(s)
         \/ DeletionRequested(s) \/ SweepBegins(s)
    \/ DeletionSettles \/ SweepContinues \/ SweepEnds \/ Views

(* Somebody goes on looking at the session, and turns end.                 *)
LateTurns == \E s \in Sid : TurnCancelled(s)
TreeFairness == WF_treeVars(Views) /\ WF_treeVars(LateTurns)

TreeSpec == TreeInit /\ [][TreeNext]_treeVars /\ TreeFairness

----------------------------------------------------------------------------
(* Properties.                                                             *)

TreeTypeOK ==
    /\ sessions \in [Sid -> SessionState]
    /\ viewer \in [pc : {"away", "row", "write"}, of : 0 .. MaxSessions, row : State, write : State]
    /\ deletion \in [pc : {"none", "sent", "ok", "timedOut", "failed"}, of : Sid, misread : BOOLEAN]
    /\ sweep \in [of : 0 .. MaxSessions, doomed : SUBSET Sid]
    /\ felled \subseteq Sid /\ spared \subseteq Sid
    /\ requests \in 0 .. MaxRequests /\ hitches \in 0 .. MaxHitches

(* A deletion leaves nothing of the session and of what it had spawned: no *)
(* row is listed and no instance runs, except where it did not reach, or a *)
(* call of it failed and nobody was told (spared).  So it is when the      *)
(* session has deleted itself and when the sweeper has; a client that was  *)
(* not misled by a failing query may hear of it while the deletion of a    *)
(* session above still goes on.                                            *)
Gone(d) == sessions[d].deleted /\ ~Runs(d)
GoneWithOffspring ==
    /\ \A s \in felled : \A d \in ({s} \union Offspring(s)) \ spared : Gone(d)
    /\ deletion.pc = "ok" /\ ~deletion.misread =>
         \A d \in ({deletion.of} \union Offspring(deletion.of)) \ (spared \union Doomed) : Gone(d)

(* A graceful shutdown goes bottom-up: when it concludes, no sub-agent of  *)
(* the session runs that it knew of and did not see deleting itself.  One  *)
(* on a schedule is an exception: each of its completed turns is reported  *)
(* like an end, and concludes the shutdown of its parent.                  *)
EndsAfterSubAgents ==
    [][\A s \in Sid :
         (/\ sessions[s].stage \in {"loop", "shutdown"} /\ Runs(s)
          /\ sessions'[s].stage = "cancelled" \/ sessions'[s].published \in {"completed", "cancelled"})
         => \A c \in ListedChildren(s) \ (spared' \union Scheduled) :
              ~Runs(c) \/ sessions[c].stage \in {"cancelled", "deleting"}]_treeVars

(* listSessions reads rows only: the row of a session somebody looks at    *)
(* comes to agree with what its instance shows, although a turn writes     *)
(* idle when the orchestration decides completed.  A deletion by force that*)
(* failed after it had written its row is an exception: nobody corrects it.*)
Unsettled(s) == deletion.pc = "failed" /\ deletion.of = s
RowsSettle ==
    <>[](\A s \in Sid : viewer.of = s /\ Listed(s) => sessions[s].row = Shown(s) \/ Unsettled(s))
=============================================================================
