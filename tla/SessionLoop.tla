----------------------------- MODULE SessionLoop -----------------------------
(***************************************************************************)
(* One durable session: the flat event loop of                             *)
(* src/packages/sdk/src/orchestration.ts.                                  *)
(*                                                                         *)
(* The loop alternates `drain`, which moves messages of the durable queue  *)
(* and fired timers to the work buffer, and `decide`, which processes one  *)
(* piece of buffered work, usually by running a turn of the language model *)
(* in an activity.  Everything the generator owns is in one record s, as   *)
(* it is in the input that continueAsNew hands to the next execution.      *)
(*                                                                         *)
(* Abstractions.  Time: a timer may fire at any moment; only whether an    *)
(* interrupted one has time left is kept.  Texts: a prompt is the set of   *)
(* its parts, the messages of users in it, an answer, text of the          *)
(* orchestration ("text") or only [SYSTEM: ...] context ("system").  The   *)
(* work buffer is the queue KvFifo implements.  An exception of an         *)
(* activity the code does not catch fails the execution and is left out.   *)
(***************************************************************************)
EXTENDS Naturals, Sequences, FiniteSets, SequencesExt

CONSTANTS
    Prompt,              \* messages users may send, each at most once
    cmdOf,               \* what each command a client may send, at most once, asks for
    Child,               \* sub-agents this session may have
    InitialChild,        \* those it has from the start
    TurnOutcome,         \* how a turn may end besides "completed"
    TurnFailure,         \* how the runTurn activity may fail
    MaxSurprises,        \* bound: outcomes other than a plain "completed", and failures
    Inputs,              \* the inputs the orchestration may be started with
    HydrateMayFail,
    RefreshMayFail,
    MAX_RETRIES,
    COPILOT_CONNECTION_CLOSED_MAX_RETRIES,
    MAX_DRAIN_PER_TURN,
    MAX_ITERATIONS_PER_EXECUTION,
    HISTORY_SIZE_CHECK_INTERVAL_ITERATIONS,
    ShutdownPolls        \* SHUTDOWN_TIMEOUT_MS / SHUTDOWN_POLL_INTERVAL_MS

ASSUME BoundsPositive ==
    {MAX_RETRIES, MAX_DRAIN_PER_TURN, MAX_ITERATIONS_PER_EXECUTION,
     HISTORY_SIZE_CHECK_INTERVAL_ITERATIONS, ShutdownPolls} \subseteq Nat \ {0}
ASSUME BoundsNat ==
    MaxSurprises \in Nat /\ COPILOT_CONNECTION_CLOSED_MAX_RETRIES \in Nat
ASSUME SwitchesBoolean == {HydrateMayFail, RefreshMayFail} \subseteq BOOLEAN
ASSUME ChildAssumption == InitialChild \subseteq Child /\ IsFiniteSet(Child)
ASSUME CommandAssumption ==
    cmdOf \in [DOMAIN cmdOf -> {"done", "cancel", "delete", "set_model", "get_info"}]
ASSUME InputsAssumption ==
    Inputs \subseteq [blobEnabled : BOOLEAN, idleTimer : BOOLEAN,
                      inputGrace : {"never", "zero", "timer"},
                      isSubAgent : BOOLEAN, isSystem : BOOLEAN]

VARIABLES
    messages,    \* the durable queue "messages" of the session
    sent,        \* the prompts and commands sent so far
    child,       \* what each sub-agent has published as its status
    told,        \* the last command signalled to each sub-agent
    s            \* the state of the orchestration

vars == <<messages, sent, child, told, s>>

(* What is constant in the input of every execution of the session:        *)
(* blobEnabled, idleTimeout >= 0, inputGracePeriod, parentSessionId.       *)
BlobEnabled == s.input.blobEnabled
IdleTimer == s.input.idleTimer
InputGrace == s.input.inputGrace
IsSubAgent == s.input.isSubAgent
IsSystem == s.input.isSystem

Command == DOMAIN cmdOf
Part == Prompt \union {"answer", "text", "system"}
Timer == {"none", "wait", "cron", "idle", "agent-poll", "input-grace"}
AgentStatus == {"running", "waiting", "completed", "failed", "cancelled"}
ChildStatus == AgentStatus \union {"none", "resumed", "finishing"}
Status == {"idle", "running", "waiting", "input_required", "error",
           "completed", "cancelled", "failed"}
Signal == {"done", "cancel", "delete"}
Left == {"none", "zero", "some"}   \* time left of an interrupted timer
Cron == {"cron_set", "cron_cancel"}
Action == Cron \union
          {"completed", "wait", "input_required", "cancelled", "error", "missing",
           "tool", "spawn_agent", "check_agents", "wait_for_agents",
           "signal_agent", "delete_agent"}
QueuedAction == Action \ {"completed", "cancelled", "error", "missing"}
Outcome == [main : Action \ Cron, queued : Seq(QueuedAction)]

ASSUME PromptAssumption == Prompt \intersect (Command \union {"answer", "text", "system"}) = {}
ASSUME OutcomeAssumption == TurnOutcome \subseteq Outcome

Message ==
    [kind : {"prompt"}, prompt : Prompt] \union [kind : {"answer"}]
      \union [kind : {"cmd"}, cmd : Command]
      \union [kind : {"child"}, child : Child, update : {"completed", "cancelled", "wait"}]
Item ==
    [kind : {"prompt"}, parts : SUBSET Part] \union [kind : {"answer"}]
      \union [kind : {"timer"}, timer : Timer \ {"none"}]

NoShutdown == [mode |-> "none"]
Shutdown == {NoShutdown} \union
            [mode : {"done", "cancel", "delete"}, cmd : Command, age : 0 .. ShutdownPolls]

(* s.pc is where the generator is; "parked" is the blocking dequeue of an  *)
(* idle session, "turn" an activity runTurn in progress.  Five fields only *)
(* record what happened: handled the prompts a turn has answered, abandoned *)
(* those given up with an error status, responses how often each command   *)
(* was answered, failures how often the work in hand failed and was handed *)
(* to another worker, and surprises is the counter of its bound.           *)
Failures == [tries : Nat, handoffs : Nat]
NoFailures == [tries |-> 0, handoffs |-> 0]

FailedAgain(f) == [f EXCEPT !.tries = @ + 1]
HandedOff(f) == [f EXCEPT !.handoffs = @ + 1]

Session ==
    [input : Inputs,
     pc : {"loop", "drain", "parked", "decide", "turn", "ended"},
     loop : 0 .. MAX_ITERATIONS_PER_EXECUTION,
     drained : 0 .. MAX_DRAIN_PER_TURN,
     seen : SUBSET (Child \X {"completed", "cancelled", "wait"}),
     stash : Seq(Item),
     fifo : Seq(Item),
     timer : Timer,
     pendingPrompt : SUBSET Part,
     toolActions : Seq(QueuedAction),
     turn : SUBSET Part,
     heldWait : Left,
     heldCron : Left,
     cron : BOOLEAN,
     question : BOOLEAN,
     digest : {"none", "open", "ready"},
     agents : [Child -> AgentStatus \union {"none"}],
     awaited : SUBSET Child,
     shutdown : Shutdown,
     needsHydration : BOOLEAN,
     retryCount : Nat,
     nudged : BOOLEAN,
     status : Status,
     result : {"none", "done", "cancelled", "deleted", "failed", "crashed"},
     failures : Failures,
     surprises : 0 .. MaxSurprises,
     handled : SUBSET Prompt,
     abandoned : SUBSET Prompt,
     responses : [Command -> Nat]]

Init ==
    /\ messages = <<>>
    /\ sent = {}
    /\ child = [c \in Child |-> IF c \in InitialChild THEN "running" ELSE "none"]
    /\ told = [c \in Child |-> "none"]
    /\ \E input \in Inputs :
         s = [input |-> input, pc |-> "loop", loop |-> 0, drained |-> 0, seen |-> {},
              stash |-> <<>>, fifo |-> <<>>, timer |-> "none", pendingPrompt |-> {},
              toolActions |-> <<>>, turn |-> {}, heldWait |-> "none", heldCron |-> "none",
              cron |-> FALSE, question |-> FALSE, digest |-> "none",
              agents |-> [c \in Child |-> IF c \in InitialChild THEN "running" ELSE "none"],
              awaited |-> {}, shutdown |-> NoShutdown, needsHydration |-> FALSE,
              retryCount |-> 0, nudged |-> FALSE, status |-> "idle", result |-> "none",
              failures |-> NoFailures, surprises |-> 0, handled |-> {}, abandoned |-> {},
              responses |-> [c \in Command |-> 0]]

----------------------------------------------------------------------------
(* Users, clients and sub-agents.                                          *)

isSubAgentTerminalStatus(status) == status \in {"completed", "failed", "cancelled"}

Enqueue(message) == messages' = Append(messages, message)

UserSends(p) ==
    /\ s.pc # "ended" /\ p \notin sent
    /\ Enqueue([kind |-> "prompt", prompt |-> p])
    /\ sent' = sent \union {p}
    /\ UNCHANGED <<child, told, s>>

(* A user answers the question on display, once.                           *)
UserAnswers ==
    /\ s.pc # "ended" /\ s.status = "input_required"
    /\ [kind |-> "answer"] \notin ToSet(messages) \union ToSet(s.stash) \union ToSet(s.fifo)
    /\ Enqueue([kind |-> "answer"])
    /\ UNCHANGED <<sent, child, told, s>>

ClientCommands(c) ==
    /\ s.pc # "ended" /\ c \notin sent
    /\ Enqueue([kind |-> "cmd", cmd |-> c])
    /\ sent' = sent \union {c}
    /\ UNCHANGED <<child, told, s>>

Update(c, kind) == [kind |-> "child", child |-> c, update |-> kind]

(* A sub-agent that completes its task tells the parent first and ends     *)
(* afterwards; until then its published status is still "running".         *)
ChildCompletes(c) ==
    /\ child[c] \in {"running", "resumed"}
    /\ child' = [child EXCEPT ![c] = "finishing"]
    /\ Enqueue(Update(c, "completed"))
    /\ UNCHANGED <<sent, told, s>>

ChildEnds(c) ==
    /\ child[c] = "finishing"
    /\ child' = [child EXCEPT ![c] = "completed"]
    /\ UNCHANGED <<messages, sent, told, s>>

(* A sub-agent arms a wait of its own and reports it; bound: it waits once. *)
ChildWaits(c) ==
    /\ child[c] = "running"
    /\ child' = [child EXCEPT ![c] = "waiting"]
    /\ Enqueue(Update(c, "wait"))
    /\ UNCHANGED <<sent, told, s>>

ChildResumes(c) ==
    /\ child[c] = "waiting"
    /\ child' = [child EXCEPT ![c] = "resumed"]
    /\ UNCHANGED <<messages, sent, told, s>>

(* A sub-agent whose orchestration fails sends no update.                  *)
ChildFails(c) ==
    /\ child[c] \in {"running", "waiting", "resumed"}
    /\ child' = [child EXCEPT ![c] = "failed"]
    /\ UNCHANGED <<messages, sent, told, s>>

ChildObeys(c) ==
    /\ child[c] \in {"running", "waiting", "resumed"} /\ told[c] # "none"
    /\ child' = [child EXCEPT ![c] = CASE told[c] = "done" -> "completed"
                                       [] told[c] = "cancel" -> "cancelled"
                                       [] told[c] = "delete" -> "none"]
    /\ Enqueue(Update(c, IF told[c] = "done" THEN "completed" ELSE "cancelled"))
    /\ UNCHANGED <<sent, told, s>>

(* The sub-agent tools that run inside a turn, through controlToolBridge.  *)
ToolCalled ==
    /\ s.pc = "turn" /\ s.surprises < MaxSurprises
    /\ s' = [s EXCEPT !.surprises = @ + 1]
    /\ UNCHANGED <<messages, sent>>

SpawnInTurn(c) ==
    /\ ToolCalled /\ child[c] = "none"
    /\ child' = [child EXCEPT ![c] = "running"]
    /\ UNCHANGED told

SignalInTurn(c, cmd) ==
    /\ ToolCalled /\ child[c] # "none"
    /\ told' = [told EXCEPT ![c] = cmd]
    /\ UNCHANGED child

DeleteInTurn(c) ==
    /\ ToolCalled /\ isSubAgentTerminalStatus(child[c])
    /\ child' = [child EXCEPT ![c] = "none"]
    /\ UNCHANGED told

ChildStep ==
    \E c \in Child :
        \/ ChildCompletes(c) \/ ChildEnds(c) \/ ChildWaits(c) \/ ChildResumes(c)
        \/ ChildFails(c) \/ ChildObeys(c) \/ SpawnInTurn(c) \/ DeleteInTurn(c)
        \/ \E cmd \in Signal : SignalInTurn(c, cmd)

----------------------------------------------------------------------------
(* Helpers of the orchestration, on a session record m.                    *)

Published(c) == IF child[c] \in {"resumed", "finishing"} THEN "running" ELSE child[c]

(* Fault: continueInput does not carry the interrupted wait.               *)
ContinueWithoutWait(m) ==
    [m EXCEPT !.pc = "loop", !.loop = 0, !.retryCount = 0, !.nudged = FALSE, !.turn = {},
              !.drained = 0, !.seen = {}, !.heldWait = "none"]

(* versionedContinueAsNew(continueInput()).  The new execution has no      *)
(* result yet, whatever this one had.                                      *)
ContinueAsNew(m) ==
    [m EXCEPT !.pc = "loop", !.loop = 0, !.retryCount = 0, !.nudged = FALSE, !.turn = {},
              !.drained = 0, !.seen = {}, !.result = "none"]

(* continueInput({prompt, retryCount, needsHydration}): the prompt of the  *)
(* new execution takes the place of a pending one.                         *)
RetryWith(m, parts, n) ==
    [ContinueAsNew(m) EXCEPT
        !.pendingPrompt = parts,
        !.retryCount = n,
        !.needsHydration = BlobEnabled \/ @,
        !.status = "error"]

(* Fault: the retry does not carry its count.                              *)
RetryUncounted(m, n) == RetryWith(m, m.turn, 0)

(* Fault: the retry does not carry the prompt of the failed turn.          *)
RetryWithoutPrompt(m, n) == RetryWith(m, m.pendingPrompt, n)

(* A turn of system context only carries no prompt of its own.             *)
RetryTurn(m, n) ==
    RetryWith(m, IF m.turn = {"system"} THEN m.pendingPrompt \union {"text"} ELSE m.turn, n)

NextIteration(m) == [m EXCEPT !.pc = "loop", !.turn = {}]

(* Giving up on a turn: an error status and no further attempt.            *)
Abandon(m) ==
    [NextIteration(m) EXCEPT
        !.abandoned = @ \union (m.turn \intersect Prompt), !.failures = NoFailures, !.status = "error"]

GiveUp(m) == [Abandon(m) EXCEPT !.retryCount = 0]

(* dehydrateForNextTurn; a lossy handoff leaves nothing to hydrate.        *)
Dehydrations(m) == {[m EXCEPT !.needsHydration = h] : h \in BOOLEAN}

(* The same, when planWaitHandling asks for it.                            *)
DehydrationsForWait(m) == IF BlobEnabled THEN Dehydrations(m) \union {m} ELSE {m}

queueFollowup(m) == [m EXCEPT !.pendingPrompt = @ \union {"text"}]

(* appendToFifo(stash).                                                    *)
FlushStash(m) == [m EXCEPT !.fifo = @ \o m.stash, !.stash = <<>>]

(* applyCronAction, for the cron actions at the front of the queue.        *)
LeadingCrons(actions) ==
    LET others == {i \in DOMAIN actions : actions[i] \notin Cron} IN
      IF others = {} THEN Len(actions) ELSE Min(others) - 1

drainLeadingQueuedCronActions(m) ==
    LET n == LeadingCrons(m.toolActions) IN
      IF n = 0 THEN m
      ELSE [m EXCEPT !.cron = (m.toolActions[n] = "cron_set"),
                     !.heldCron = "none",
                     !.toolActions = SubSeq(@, n + 1, Len(@))]

(* refreshTrackedSubAgents: the tracked list becomes what is published.    *)
Refreshed(m) == [m EXCEPT !.agents = [c \in Child |-> Published(c)]]
Refreshes(m) == IF RefreshMayFail THEN {m, Refreshed(m)} ELSE {Refreshed(m)}

Tracked(m) == {c \in Child : m.agents[c] # "none"}
Live(m, C) == {c \in C : m.agents[c] # "none" /\ ~isSubAgentTerminalStatus(m.agents[c])}
areTrackedAgentsTerminal(m, C) == \A c \in C : isSubAgentTerminalStatus(m.agents[c])

Respond(m, c) == [m EXCEPT !.responses[c] = @ + 1]

(* Fault: a shutdown that had to wait is not answered.                     *)
FinishUnanswered(m, mode, c) ==
    [m EXCEPT !.shutdown = NoShutdown, !.awaited = {}, !.digest = "none", !.timer = "none",
              !.status = "completed", !.result = "done"]

(* completeShutdownSession, cancelShutdownSession: the state they leave.   *)
FinishShutdown(m, mode, c) ==
    [Respond(m, c) EXCEPT
        !.shutdown = NoShutdown, !.awaited = {}, !.digest = "none", !.timer = "none",
        !.status = CASE mode = "done" -> "completed"
                     [] mode = "cancel" -> "cancelled"
                     [] mode = "delete" -> @,
        !.result = CASE mode = "done" -> "done"
                     [] mode = "cancel" -> "cancelled"
                     [] mode = "delete" -> "deleted"]

failPendingShutdown(m) ==
    [Respond(m, m.shutdown.cmd) EXCEPT
        !.shutdown = NoShutdown, !.awaited = {}, !.digest = "none", !.timer = "none",
        !.status = "failed", !.result = "failed", !.pc = "ended"]

(* maybeResolveAgentWaitCompletion.                                        *)
Resolved(m) == m.awaited # {} /\ areTrackedAgentsTerminal(m, m.awaited)

ResolveAgentWait(m) ==
    IF ~Resolved(m) THEN m
    ELSE IF m.shutdown # NoShutdown
         THEN FinishShutdown(m, m.shutdown.mode, m.shutdown.cmd)
         ELSE [queueFollowup(m) EXCEPT !.awaited = {}, !.digest = "none", !.timer = "none"]

----------------------------------------------------------------------------
(* The main loop.                                                          *)

(* MAX_ITERATIONS_PER_EXECUTION, or a history over its size limit.         *)
IterationCap ==
    /\ s.pc = "loop" /\ s.loop = MAX_ITERATIONS_PER_EXECUTION
    /\ s' = ContinueAsNew(s)
    /\ UNCHANGED <<messages, sent, child, told>>

HistoryCap ==
    /\ s.pc = "loop" /\ s.loop < MAX_ITERATIONS_PER_EXECUTION
    /\ (s.loop + 1) % HISTORY_SIZE_CHECK_INTERVAL_ITERATIONS = 0
    /\ s' = ContinueAsNew(s)
    /\ UNCHANGED <<messages, sent, child, told>>

(* Fault: the iteration cap is one too high.                               *)
StartDrainPastCap ==
    /\ s.pc = "loop" /\ s.loop <= MAX_ITERATIONS_PER_EXECUTION
    /\ s' = [s EXCEPT !.pc = "drain", !.loop = @ + 1, !.drained = 0, !.seen = {}]
    /\ UNCHANGED <<messages, sent, child, told>>

StartDrain ==
    /\ s.pc = "loop" /\ s.loop < MAX_ITERATIONS_PER_EXECUTION
    /\ s' = [s EXCEPT !.pc = "drain", !.loop = @ + 1, !.drained = 0, !.seen = {}]
    /\ UNCHANGED <<messages, sent, child, told>>

----------------------------------------------------------------------------
(* drain.                                                                  *)

Racing == s.timer # "none" \/ s.digest = "open"

(* Fault: buffered work does not keep the session awake.                   *)
BlocksOnBufferedWork == s.timer = "none" /\ s.toolActions = <<>> /\ s.pendingPrompt = {}

needsBlockingDequeue ==
    s.timer = "none" /\ s.toolActions = <<>> /\ s.pendingPrompt = {} /\ s.fifo = <<>>

Draining == s.pc = "drain" /\ s.drained < MAX_DRAIN_PER_TURN

(* Fault: the stash is not appended to the work buffer.                    *)
LeaveDrainUnflushed(m) ==
    [m EXCEPT !.stash = <<>>, !.drained = 0, !.seen = {},
              !.pc = IF m.result = "none" THEN "decide" ELSE "ended"]

(* The end of drain: a shutdown concluded during it ends the session.      *)
LeaveDrain(m) ==
    [FlushStash(m) EXCEPT !.pc = IF m.result = "none" THEN "decide" ELSE "ended",
                          !.drained = 0, !.seen = {}]

(* Mode 1: the timer wins the race.                                        *)
TimerFires ==
    /\ Draining /\ s.timer # "none"
    /\ s' = [s EXCEPT !.stash = Append(@, [kind |-> "timer", timer |-> s.timer]),
                      !.timer = "none", !.drained = @ + 1]
    /\ UNCHANGED <<messages, sent, child, told>>

(* Mode 1: the batching window of the child updates ends.                  *)
DigestDue ==
    /\ Draining /\ s.digest = "open"
    /\ s' = LeaveDrain([s EXCEPT !.digest = "ready"])
    /\ UNCHANGED <<messages, sent, child, told>>

(* Mode 2: nothing to do, publish that and block.                          *)
Park ==
    /\ Draining /\ ~Racing /\ needsBlockingDequeue /\ s.drained = 0
    /\ s' = [s EXCEPT !.pc = "parked",
                      !.status = IF s.question THEN "input_required" ELSE "idle"]
    /\ UNCHANGED <<messages, sent, child, told>>

(* Mode 3 found the queue empty, mode 2 was reached after the first        *)
(* message, or the drain took as many as it may.                           *)
EndDrain ==
    /\ s.pc = "drain"
    /\ \/ s.drained = MAX_DRAIN_PER_TURN
       \/ ~Racing /\ needsBlockingDequeue /\ s.drained > 0
       \/ ~Racing /\ ~needsBlockingDequeue /\ messages = <<>>
    /\ s' = LeaveDrain(s)
    /\ UNCHANGED <<messages, sent, child, told>>

(* A message can be taken: mode 1 or 3, or the blocking dequeue.           *)
MayDequeue ==
    /\ messages # <<>>
    /\ \/ s.pc = "parked"
       \/ Draining /\ (Racing \/ ~needsBlockingDequeue)

Dequeued == [s EXCEPT !.pc = "drain", !.drained = @ + 1]

Take(message) ==
    /\ MayDequeue
    /\ message = Head(messages)
    /\ messages' = Tail(messages)
    /\ UNCHANGED sent

(* Fault: an interrupted wait is not kept.                                 *)
InterruptionsUnsaved(m) ==
    IF m.timer = "agent-poll" THEN {[m EXCEPT !.timer = "none", !.awaited = {}]}
    ELSE IF m.timer \in {"wait", "cron", "idle"} THEN {[m EXCEPT !.timer = "none"]}
    ELSE {m}

(* A user prompt interrupts what the session is waiting for.               *)
Interruptions(m) ==
    CASE m.timer = "wait" -> {[m EXCEPT !.timer = "none", !.heldWait = t] : t \in {"zero", "some"}}
      [] m.timer = "cron" -> {[m EXCEPT !.timer = "none", !.heldCron = t] : t \in {"zero", "some"}}
      [] m.timer = "idle" -> {[m EXCEPT !.timer = "none"]}
      [] m.timer = "agent-poll" -> {[m EXCEPT !.timer = "none", !.awaited = {}]}
      [] OTHER -> {m}

RoutePrompt(p) ==
    /\ Take([kind |-> "prompt", prompt |-> p])
    /\ \E m \in Interruptions(Dequeued) :
         s' = [m EXCEPT !.digest = "none",
                        !.stash = Append(@, [kind |-> "prompt", parts |-> {p}])]
    /\ UNCHANGED <<child, told>>

RouteAnswer ==
    /\ Take([kind |-> "answer"])
    /\ s' = [Dequeued EXCEPT !.stash = Append(@, [kind |-> "answer"])]
    /\ UNCHANGED <<child, told>>

(* applyChildUpdate: the update sets the status of the agent, then the     *)
(* status the agent publishes overrides it; a deleted agent publishes none.*)
ApplyChildUpdate(m, c, kind) ==
    LET claimed == IF kind = "wait" THEN m.agents[c] ELSE kind
        now == Published(c) IN
      IF m.agents[c] = "none" THEN m
      ELSE [m EXCEPT !.agents[c] = IF now \in {"running", "none"} THEN claimed ELSE now]

BufferChildUpdate(m) ==
    IF m.shutdown = NoShutdown /\ m.digest = "none" THEN [m EXCEPT !.digest = "open"] ELSE m

RouteChildUpdate(c, kind) ==
    /\ Take(Update(c, kind))
    /\ \/ s' = ResolveAgentWait(BufferChildUpdate(ApplyChildUpdate(
                  [Dequeued EXCEPT !.seen = @ \union {<<c, kind>>}], c, kind)))
       \/ /\ <<c, kind>> \in s.seen     \* with the same content
          /\ s' = Dequeued
    /\ UNCHANGED <<child, told>>

(* Commands are handled at once, after the stash is flushed, and drain     *)
(* returns if the session has a result.                                    *)
AfterCommand(m) == IF m.result = "none" THEN m ELSE [m EXCEPT !.pc = "ended"]

RouteQuery(c) ==
    /\ cmdOf[c] = "get_info"
    /\ Take([kind |-> "cmd", cmd |-> c])
    /\ s' = AfterCommand([Respond(FlushStash(Dequeued), c) EXCEPT !.status = "idle"])
    /\ UNCHANGED <<child, told>>

(* Fault: the command continues as new before it writes its response.      *)
SetModelUnanswered(c) ==
    /\ cmdOf[c] = "set_model"
    /\ Take([kind |-> "cmd", cmd |-> c])
    /\ s' = [ContinueAsNew(FlushStash(Dequeued)) EXCEPT !.status = "idle"]
    /\ UNCHANGED <<child, told>>

RouteSetModel(c) ==
    /\ cmdOf[c] = "set_model"
    /\ Take([kind |-> "cmd", cmd |-> c])
    /\ s' = [ContinueAsNew(Respond(FlushStash(Dequeued), c)) EXCEPT !.status = "idle"]
    /\ UNCHANGED <<child, told>>

(* beginGracefulShutdown.                                                  *)
RouteSecondShutdown(c) ==
    /\ cmdOf[c] \in {"done", "cancel", "delete"} /\ s.shutdown # NoShutdown
    /\ Take([kind |-> "cmd", cmd |-> c])
    /\ s' = [Respond(FlushStash(Dequeued), c) EXCEPT !.status = "waiting"]
    /\ UNCHANGED <<child, told>>

RouteShutdownNow(c) ==
    /\ cmdOf[c] \in {"done", "cancel", "delete"} /\ s.shutdown = NoShutdown
    /\ Take([kind |-> "cmd", cmd |-> c])
    /\ \E m \in Refreshes(FlushStash(Dequeued)) :
         /\ Live(m, Child) = {}
         /\ s' = [FinishShutdown(m, cmdOf[c], c) EXCEPT !.pc = "ended"]
    /\ UNCHANGED <<child, told>>

RouteShutdownCascade(c) ==
    /\ cmdOf[c] \in {"done", "cancel", "delete"} /\ s.shutdown = NoShutdown
    /\ Take([kind |-> "cmd", cmd |-> c])
    /\ \E m \in Refreshes(FlushStash(Dequeued)) :
         LET targets == Live(m, Child) IN
           /\ targets # {}
           /\ \E reached \in SUBSET targets :     \* a signal that fails is ignored
                told' = [k \in Child |-> IF k \notin reached THEN told[k]
                                         ELSE IF cmdOf[c] = "done" THEN "done" ELSE "cancel"]
           /\ s' = AfterCommand(
                     [m EXCEPT !.shutdown = [mode |-> cmdOf[c], cmd |-> c, age |-> 0],
                               !.awaited = targets, !.digest = "none",
                               !.timer = "agent-poll", !.status = "waiting"])
    /\ UNCHANGED child

Dequeue ==
    \/ \E p \in Prompt : RoutePrompt(p)
    \/ RouteAnswer
    \/ \E c \in Child, kind \in {"completed", "cancelled", "wait"} : RouteChildUpdate(c, kind)
    \/ \E c \in Command :
         \/ RouteQuery(c) \/ RouteSetModel(c) \/ RouteSecondShutdown(c)
         \/ RouteShutdownNow(c) \/ RouteShutdownCascade(c)

----------------------------------------------------------------------------
(* handleTurnResult, for the result of a turn or an action queued by one.  *)
(* m is the session after the bookkeeping that precedes it.                *)

WaitFor(m, timer) ==
    \E d \in DehydrationsForWait(NextIteration(m)) :
        s' = [d EXCEPT !.timer = timer, !.status = "waiting"]

CompletedSubAgent(m) ==
    /\ IsSubAgent /\ ~m.cron
    /\ s' = IF IsSystem THEN NextIteration(m)
            ELSE [m EXCEPT !.pc = "ended", !.turn = {}, !.status = "completed", !.result = "done"]

LivesOnAfterTurn(m) == ~IsSubAgent \/ m.cron

(* Forgotten-timer safety net, once per execution.                         *)
Forgotten(m) == ~m.nudged /\ ~m.cron /\ \E c \in Child : m.agents[c] = "running"

CompletedNudged(m) ==
    /\ LivesOnAfterTurn(m) /\ Forgotten(m)
    /\ s' = [ContinueAsNew(queueFollowup(m)) EXCEPT !.nudged = TRUE]

CompletedResumesWait(m) ==
    /\ LivesOnAfterTurn(m) /\ ~Forgotten(m) /\ m.heldWait = "some"
    /\ WaitFor([m EXCEPT !.heldWait = "none"], "wait")

CompletedResumesCron(m) ==
    /\ LivesOnAfterTurn(m) /\ ~Forgotten(m) /\ m.heldWait # "some" /\ m.heldCron = "some"
    /\ WaitFor([m EXCEPT !.heldCron = "none"], "cron")

(* Fault: only an interrupted cron timer is armed again.                   *)
CompletedForgetsCron(m) ==
    /\ LivesOnAfterTurn(m) /\ ~Forgotten(m) /\ m.heldWait # "some" /\ m.heldCron # "some"
    /\ m.cron
    /\ s' = NextIteration(m)

CompletedArmsCron(m) ==
    /\ LivesOnAfterTurn(m) /\ ~Forgotten(m) /\ m.heldWait # "some" /\ m.heldCron # "some"
    /\ m.cron
    /\ WaitFor(m, "cron")

CompletedGoesIdle(m) ==
    /\ LivesOnAfterTurn(m) /\ ~Forgotten(m) /\ m.heldWait # "some" /\ m.heldCron # "some"
    /\ ~m.cron
    /\ s' = IF BlobEnabled /\ IdleTimer
            THEN [NextIteration(m) EXCEPT !.timer = "idle", !.status = "idle"]
            ELSE NextIteration(m)

Completed(m) ==
    \/ CompletedSubAgent(m) \/ CompletedNudged(m) \/ CompletedResumesWait(m)
    \/ CompletedResumesCron(m) \/ CompletedArmsCron(m) \/ CompletedGoesIdle(m)

(* The model calls wait() itself: an interrupted wait is forgotten.        *)
Waits(m) == WaitFor([m EXCEPT !.heldWait = "none"], "wait")

InputRequired(m) ==
    LET asked == [NextIteration(m) EXCEPT !.question = TRUE, !.status = "input_required"] IN
      IF ~BlobEnabled \/ InputGrace = "never" THEN s' = asked
      ELSE IF InputGrace = "zero" THEN s' \in Dehydrations(asked)
      ELSE s' = [asked EXCEPT !.timer = "input-grace"]

(* Tools whose result is a follow-up prompt: message_agent, list_sessions, *)
(* and every sub-agent tool that is refused or fails.                      *)
Followup(m) == s' = NextIteration(queueFollowup(m))

SpawnAgent(m) ==
    \/ Followup(m) /\ UNCHANGED child
    \/ \E c \in Child :
         /\ child[c] = "none"
         /\ child' = [child EXCEPT ![c] = "running"]
         /\ Followup([m EXCEPT !.agents[c] = "running"])

(* A sub-agent that is between two turns publishes "idle", which this tool *)
(* takes for completed.                                                    *)
CheckAgents(m) ==
    \E idle \in SUBSET {c \in Tracked(m) : Published(c) = "running"} :
        Followup([m EXCEPT !.agents =
            [c \in Child |->
               IF c \in idle THEN "completed"
               ELSE IF @[c] # "none" /\ Published(c) \in {"completed", "failed"}
               THEN Published(c) ELSE @[c]]])

WaitForAgents(m) ==
    IF Tracked(m) = {} THEN Followup(m)
    ELSE \E C \in (SUBSET Tracked(m)) \ {{}} :
           IF Live(m, C) = {} THEN Followup(m)
           ELSE s' = [NextIteration(m) EXCEPT
                        !.awaited = C, !.timer = "agent-poll", !.status = "running"]

(* complete_agent, cancel_agent, and delete_agent of a sub-agent believed  *)
(* live.                                                                   *)
SignalAgent(m) ==
    \/ Followup(m) /\ UNCHANGED told
    \/ \E c \in Tracked(m), cmd \in Signal :
         told' = [told EXCEPT ![c] = cmd] /\ Followup(m)

DeleteAgent(m) ==
    \E c \in Tracked(m) :
        /\ isSubAgentTerminalStatus(m.agents[c])
        /\ child' = [child EXCEPT ![c] = "none"]
        /\ Followup([m EXCEPT !.agents[c] = "none"])

(* The turn ended with an error: retried like a failed activity.  The      *)
(* count was reset when the activity returned, so a lost connection never  *)
(* gets to the attempt after which it is handed to another worker.         *)
TurnError(m) ==
    LET failed == [m EXCEPT !.retryCount = @ + 1, !.failures = FailedAgain(@)] IN
      s' = IF failed.retryCount >= MAX_RETRIES THEN GiveUp(failed)
           ELSE RetryWith(failed, IF m.turn = {"system"} THEN {"text"} ELSE m.turn,
                          failed.retryCount)

Crash(m, status) ==
    s' = [m EXCEPT !.pc = "ended", !.turn = {}, !.status = status, !.result = "crashed"]

HandleTurnResult(m, action) ==
    \/ /\ \/ action = "completed" /\ Completed(m)
          \/ action = "wait" /\ Waits(m)
          \/ action = "input_required" /\ InputRequired(m)
          \/ action = "cancelled" /\ s' = NextIteration(m)
          \/ action = "tool" /\ Followup(m)
          \/ action = "check_agents" /\ CheckAgents(m)
          \/ action = "wait_for_agents" /\ WaitForAgents(m)
          \/ action = "error" /\ TurnError(m)
          \/ action = "missing" /\ Crash(m, "failed")
       /\ UNCHANGED <<child, told>>
    \/ action = "spawn_agent" /\ SpawnAgent(m) /\ UNCHANGED told
    \/ action = "signal_agent" /\ SignalAgent(m) /\ UNCHANGED child
    \/ action = "delete_agent" /\ DeleteAgent(m) /\ UNCHANGED told

----------------------------------------------------------------------------
(* processPrompt.                                                          *)

(* Up to the start of the activity: the state is hydrated first when it is *)
(* needed, or when the worker finds its files gone.                        *)
StartTurn(m, parts) ==
    \/ s' = [m EXCEPT !.pc = "turn", !.turn = parts, !.status = "running",
                      !.needsHydration = @ /\ ~BlobEnabled]
    \/ /\ BlobEnabled /\ HydrateMayFail
       /\ m.surprises < MaxSurprises
       /\ s' = Abandon([m EXCEPT !.turn = parts, !.needsHydration = TRUE,
                                 !.surprises = @ + 1])

(* The activity returns.                                                   *)
Returned(m, outcome) ==
    drainLeadingQueuedCronActions(
        [m EXCEPT !.retryCount = 0, !.toolActions = @ \o outcome.queued,
                  !.failures = IF outcome.main = "error" THEN @ ELSE NoFailures,
                  !.handled = IF outcome.main = "error" THEN @
                              ELSE @ \union (m.turn \intersect Prompt)])

PlainOutcome == [main |-> "completed", queued |-> <<>>]

TurnReturns(outcome) ==
    /\ s.pc = "turn"
    /\ outcome # PlainOutcome => s.surprises < MaxSurprises
    /\ \E m \in Refreshes(Returned(s, outcome)) :
         HandleTurnResult(
             [m EXCEPT !.surprises = IF outcome = PlainOutcome THEN @ ELSE @ + 1],
             outcome.main)
    /\ UNCHANGED <<messages, sent>>

(* The activity fails.                                                     *)
Failing(failure) ==
    /\ s.pc = "turn" /\ failure \in TurnFailure /\ s.surprises < MaxSurprises
    /\ UNCHANGED <<messages, sent, child, told>>

Failed == [s EXCEPT !.retryCount = @ + 1, !.failures = FailedAgain(@), !.surprises = @ + 1]

TurnLosesState == Failing("missing") /\ Crash(Failed, "failed")

(* A lost connection is retried; after the last attempt the session is     *)
(* handed to another worker, which begins to count at 0 with the same      *)
(* prompt.                                                                 *)
TurnLosesConnection ==
    /\ Failing("closed")
    /\ LET last == Failed.retryCount > COPILOT_CONNECTION_CLOSED_MAX_RETRIES
           retried == RetryTurn(Failed, IF last THEN 0 ELSE Failed.retryCount) IN
         s' = IF ~last THEN retried
              ELSE IF BlobEnabled THEN [retried EXCEPT !.failures = HandedOff(@)]
              ELSE GiveUp(Failed)

TurnFails ==
    /\ Failing("other")
    /\ s' = IF Failed.retryCount >= MAX_RETRIES
            THEN GiveUp(Failed)
            ELSE RetryTurn(Failed, Failed.retryCount)

----------------------------------------------------------------------------
(* decide.                                                                 *)

Deciding == s.pc = "decide"

(* Its first statement, before every alternative.                          *)
Decided == drainLeadingQueuedCronActions(s)

ReplayToolAction ==
    /\ Deciding /\ Decided.toolActions # <<>>
    /\ HandleTurnResult([Decided EXCEPT !.toolActions = Tail(@)], Head(Decided.toolActions))
    /\ UNCHANGED <<messages, sent>>

PendingPromptReady(m) == m.toolActions = <<>> /\ m.pendingPrompt # {} /\ m.awaited = {}

(* Fault: the pending prompt is not cleared when its turn starts.          *)
TakePendingPromptAgain ==
    /\ Deciding /\ PendingPromptReady(Decided)
    /\ StartTurn(Decided, s.pendingPrompt)
    /\ UNCHANGED <<messages, sent, child, told>>

TakePendingPrompt ==
    /\ Deciding /\ PendingPromptReady(Decided)
    /\ StartTurn([Decided EXCEPT !.pendingPrompt = {}], s.pendingPrompt)
    /\ UNCHANGED <<messages, sent, child, told>>

(* popFifoItem.                                                            *)
Popping(item) ==
    /\ Deciding /\ Decided.toolActions = <<>> /\ ~PendingPromptReady(Decided)
    /\ s.fifo # <<>> /\ item = Head(s.fifo)
    /\ UNCHANGED <<messages, sent, child, told>>

(* Fault: the item stays in the buffer.                                    *)
Peeked == Decided

Popped == [Decided EXCEPT !.fifo = Tail(@)]

ProcessPrompt ==
    \E p \in Prompt :
        /\ Popping([kind |-> "prompt", parts |-> {p}])
        /\ StartTurn(Popped, {p})

ProcessAnswer ==
    /\ Popping([kind |-> "answer"])
    /\ StartTurn([Popped EXCEPT !.question = FALSE], {"answer"})

Fired(timer) == Popping([kind |-> "timer", timer |-> timer])

ProcessWaitTimer == Fired("wait") /\ StartTurn(Popped, {"text"})

(* The wake-up names the schedule: without one the access throws.  With    *)
(* the state to rehydrate (shouldRehydrate) it is text around the context. *)
WakeUps == IF BlobEnabled THEN {{"system"}, {"text"}} ELSE {{"system"}}

ProcessCronTimer ==
    /\ Fired("cron")
    /\ IF Popped.cron THEN \E parts \in WakeUps : StartTurn(Popped, parts)
       ELSE Crash(Popped, Popped.status)

ProcessIdleTimer == Fired("idle") /\ s' \in Dehydrations(NextIteration(Popped))

ProcessGraceTimer == Fired("input-grace") /\ s' \in Dehydrations(NextIteration(Popped))

(* The fallback poll asks for the status of every sub-agent still running. *)
(* Left out: a query that fails, after which the code keeps the status it  *)
(* knew and the next poll asks again.                                      *)
Polled(m) ==
    [m EXCEPT !.agents = [c \in Child |->
        IF c \in Live(m, m.awaited) /\ Published(c) \notin {"running", "none"}
        THEN Published(c) ELSE @[c]]]

ProcessStalePoll ==
    Fired("agent-poll") /\ s.awaited = {} /\ s' = NextIteration(Popped)

ProcessPollResolved ==
    /\ Fired("agent-poll") /\ Resolved(Polled(Popped))
    /\ LET m == ResolveAgentWait(Polled(Popped)) IN
         s' = IF m.result = "none" THEN NextIteration(m) ELSE [m EXCEPT !.pc = "ended"]

(* Fault: the fallback poll is not armed again.                            *)
PollOnlyOnce ==
    /\ Fired("agent-poll") /\ s.awaited # {} /\ ~Resolved(Polled(Popped))
    /\ s.shutdown = NoShutdown
    /\ s' = NextIteration(Polled(Popped))

ProcessPollAgain ==
    /\ Fired("agent-poll") /\ s.awaited # {} /\ ~Resolved(Polled(Popped))
    /\ s.shutdown = NoShutdown
    /\ s' = [NextIteration(Polled(Popped)) EXCEPT !.timer = "agent-poll"]

(* Fault: a shutdown is polled once and has no deadline.                   *)
ShutdownPollOnlyOnce ==
    /\ Fired("agent-poll") /\ s.awaited # {} /\ ~Resolved(Polled(Popped))
    /\ s.shutdown # NoShutdown
    /\ s' = NextIteration(Polled(Popped))

(* A poll of a shutdown comes at least SHUTDOWN_POLL_INTERVAL_MS later.    *)
ProcessShutdownPoll ==
    /\ Fired("agent-poll") /\ s.awaited # {} /\ ~Resolved(Polled(Popped))
    /\ s.shutdown # NoShutdown
    /\ \E age \in s.shutdown.age + 1 .. ShutdownPolls :
         s' = IF age = ShutdownPolls THEN failPendingShutdown(Polled(Popped))
              ELSE [NextIteration(Polled(Popped)) EXCEPT
                      !.shutdown.age = age, !.timer = "agent-poll", !.status = "waiting"]

NothingPopped ==
    /\ Deciding /\ Decided.toolActions = <<>> /\ ~PendingPromptReady(Decided)
    /\ s.fifo = <<>>
    /\ UNCHANGED <<messages, sent, child, told>>

DigestReady == s.digest = "ready" /\ s.awaited = {}

(* processPendingChildDigest.                                              *)
ProcessDigest ==
    /\ NothingPopped /\ DigestReady
    /\ \E m \in Interruptions(Decided) : StartTurn([m EXCEPT !.digest = "none"], {"system"})

(* Nothing to do: back to the drain while a timer or a question is open,   *)
(* a new execution otherwise.                                              *)
DecideNothing ==
    /\ NothingPopped /\ ~DigestReady
    /\ s' = IF s.timer # "none" \/ s.question THEN NextIteration(Decided)
            ELSE ContinueAsNew(Decided)

Decide ==
    \/ ReplayToolAction \/ TakePendingPrompt \/ ProcessPrompt \/ ProcessAnswer
    \/ ProcessWaitTimer \/ ProcessCronTimer \/ ProcessIdleTimer \/ ProcessGraceTimer
    \/ ProcessStalePoll \/ ProcessPollResolved \/ ProcessPollAgain \/ ProcessShutdownPoll
    \/ ProcessDigest \/ DecideNothing

----------------------------------------------------------------------------
Turn ==
    \/ TurnReturns(PlainOutcome)
    \/ \E outcome \in TurnOutcome : TurnReturns(outcome)
    \/ TurnLosesState \/ TurnLosesConnection \/ TurnFails

Loop ==
    \/ IterationCap \/ HistoryCap \/ StartDrain
    \/ TimerFires \/ DigestDue \/ Park \/ EndDrain \/ Dequeue \/ Decide \/ Turn

Environment ==
    \/ \E p \in Prompt : UserSends(p)
    \/ UserAnswers
    \/ \E c \in Command : ClientCommands(c)
    \/ ChildStep

Next == Loop \/ Environment

Spec == Init /\ [][Next]_vars

(* The runtime keeps executing the orchestration, a message in the queue   *)
(* wins a race against a timer that is not due, and a turn that could end  *)
(* plainly does not fail for ever.                                         *)
Fairness ==
    /\ WF_vars(Loop)
    /\ SF_vars(Dequeue)
    /\ SF_vars(TurnReturns(PlainOutcome))

FairSpec == Spec /\ Fairness

----------------------------------------------------------------------------
(* Type correctness.                                                       *)
TypeOK ==
    /\ messages \in Seq(Message)
    /\ sent \subseteq Prompt \union Command
    /\ child \in [Child -> ChildStatus]
    /\ told \in [Child -> {"none"} \union Signal]
    /\ s \in Session

Buffered(m) == m.stash \o m.fifo
InBuffer(p) == [kind |-> "prompt", parts |-> {p}] \in ToSet(Buffered(s))
InQueue(p) == [kind |-> "prompt", prompt |-> p] \in ToSet(messages)

(* No message of a user disappears: until the session ends it is queued,   *)
(* buffered, carried to the next execution, being run, answered, or given  *)
(* up with an error status the user sees.                                  *)
PromptsAccounted ==
    s.pc # "ended" =>
      \A p \in Prompt \intersect sent :
         \/ InQueue(p) \/ InBuffer(p)
         \/ p \in s.pendingPrompt \union s.turn \union s.handled \union s.abandoned

(* A message that was answered is not run again by a retry or by the next  *)
(* execution.                                                              *)
NoReplay == [][s.pc # "turn" /\ s'.pc = "turn" => s'.turn \intersect s.handled = {}]_vars

(* The attempts at one turn are bounded: each worker makes at most so many *)
(* of them before the turn is given up or the session is handed to another *)
(* worker, through every continueAsNew and whatever arrives in between.    *)
(* Only lost connections hand it over, and nothing bounds how often.       *)
Attempts ==
    IF MAX_RETRIES > COPILOT_CONNECTION_CLOSED_MAX_RETRIES THEN MAX_RETRIES
    ELSE COPILOT_CONNECTION_CLOSED_MAX_RETRIES + 1

FailuresBounded ==
    s.pc # "ended" => s.failures.tries < (s.failures.handoffs + 1) * Attempts

(* Every command taken from the queue has one response.  Without are only  *)
(* the one whose shutdown is in progress, and a shutdown begun after       *)
(* another one had already concluded.                                      *)
CommandsAnswered ==
    \A c \in Command \intersect sent :
       \/ [kind |-> "cmd", cmd |-> c] \in ToSet(messages)
       \/ s.responses[c] = 1
       \/ /\ s.responses[c] = 0 /\ s.shutdown # NoShutdown /\ s.shutdown.cmd = c
          /\ \/ s.pc # "ended"
             \/ \E d \in Command \ {c} : cmdOf[d] \in Signal /\ s.responses[d] = 1

(* Once it is decided how the session ended, that and the status shown for *)
(* it do not change, though drain may go on for a while.                   *)
TerminalIsFinal ==
    [][s.result # "none" => s'.result = s.result /\ s'.status = s.status]_vars

(* A graceful shutdown ends the session, by completion of the sub-agents   *)
(* or by its timeout.                                                      *)
ShutdownEnds == s.shutdown # NoShutdown ~> s.pc = "ended"

(* A session with a recurring schedule does not go to sleep without a      *)
(* timer, unless it is waiting for an answer.                              *)
CronNeverParked == s.pc = "parked" /\ s.cron => s.question

WaitItem == [kind |-> "timer", timer |-> "wait"]
HasWait(m) == m.timer = "wait" \/ m.heldWait = "some" \/ WaitItem \in ToSet(Buffered(m))

(* A wait of the model with time left is not forgotten: it fires and is    *)
(* processed, or it is interrupted and kept, until the session shuts down. *)
WaitKept ==
    [][HasWait(s) /\ ~HasWait(s') =>
         \/ s'.heldWait = "zero"
         \/ s.fifo # <<>> /\ Head(s.fifo) = WaitItem /\ Len(s'.fifo) < Len(s.fifo)
         \/ s'.shutdown # NoShutdown \/ s'.result # "none"]_vars

(* Every message sent to a session is eventually answered or given up.     *)
PromptsHandled ==
    \A p \in Prompt :
        p \in sent ~> s.pc = "ended" \/ p \in s.handled \union s.abandoned

(* A session that waits for sub-agents which have all ended notices it,    *)
(* though the update of a sub-agent may come before the sub-agent ends, or *)
(* never.                                                                  *)
AgentWaitEnds ==
    s.awaited # {} /\ (\A c \in s.awaited : isSubAgentTerminalStatus(child[c]))
      ~> s.awaited = {} \/ s.pc = "ended"

(* A batch of child updates is eventually shown to the model.              *)
DigestDelivered == s.digest # "none" ~> s.digest = "none" \/ s.pc = "ended"
=============================================================================
