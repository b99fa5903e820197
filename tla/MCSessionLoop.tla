---------------------------- MODULE MCSessionLoop ----------------------------
(***************************************************************************)
(* Instances of SessionLoop.  Each cfg picks the inputs, messages,         *)
(* commands, sub-agents and turn outcomes of the behaviours it is about.   *)
(***************************************************************************)
EXTENDS SessionLoop

(* A session of a user, with blob storage and a grace period, ...          *)
UserSession ==
    [blobEnabled |-> TRUE, idleTimer |-> TRUE, inputGrace |-> "timer",
     isSubAgent |-> FALSE, isSystem |-> FALSE]
(* ... a system sub-agent that dehydrates at once when it asks, ...        *)
SystemSubAgent ==
    [UserSession EXCEPT !.inputGrace = "zero", !.isSubAgent = TRUE, !.isSystem = TRUE]
(* ... and a sub-agent of a worker without blob storage.                   *)
LocalSubAgent == [UserSession EXCEPT !.blobEnabled = FALSE, !.isSubAgent = TRUE]

UserOnly == {UserSession}
UserOrSystem == {UserSession, SystemSubAgent}
UserOrLocal == {UserSession, LocalSubAgent}

(* One run for two questions: the turns of UserSession work with           *)
(* sub-agents, those of the others only end, and a client shuts them down. *)
Impatient == [UserSession EXCEPT !.inputGrace = "zero"]
AgentsOrShutdown == {UserSession, Impatient, SystemSubAgent}
OneQuestion == IF s.input = UserSession THEN UNCHANGED sent ELSE s'.surprises = 0

NoCommand == <<>>
Queries == [info |-> "get_info", model |-> "set_model"]
Done == [done |-> "done"]
DoneOrCancel == [done |-> "done", cancel |-> "cancel", info |-> "get_info"]
DoneAndSetModel == [done |-> "done", model |-> "set_model"]

Just(actions) == {[main |-> a, queued |-> <<>>] : a \in actions}
WithCron(actions, crons) == {[main |-> a, queued |-> <<c>>] : a \in actions, c \in crons}

(* Turns that wait, ask and are cancelled, and schedules set and cancelled. *)
Schedules == WithCron({"completed"}, {"cron_set", "cron_cancel"}) \union WithCron({"wait"}, {"cron_set"})
ToolThenWait == {[main |-> "tool", queued |-> <<"wait">>]}
UserOutcomes == Just({"wait", "input_required"}) \union ToolThenWait \union Schedules
RetryOutcomes == Just({"wait", "input_required", "cancelled", "tool"}) \union Schedules
WaitOutcomes == Just({"wait", "input_required", "cancelled"})
Errors == Just({"error"})

(* Sub-agents.                                                             *)
AgentWaits == Just({"wait_for_agents"})
AgentOutcomes == Just({"wait_for_agents", "check_agents", "spawn_agent", "signal_agent",
                       "delete_agent", "tool", "wait"})
=============================================================================
