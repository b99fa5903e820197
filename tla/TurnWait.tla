------------------------------- MODULE TurnWait -------------------------------
(***************************************************************************)
(* How a client waits for the answer to its prompt: sendAndWait and        *)
(* _waitForTurnResult of src/packages/sdk/src/client.ts.                   *)
(*                                                                         *)
(* Nothing ties an answer to a prompt.  The orchestration writes a         *)
(* numbered response to the key-value store, overwriting the one before,   *)
(* and publishes a status that carries the number; the client polls        *)
(* the status, reads the response in a second call and takes a completed   *)
(* response seen with an idle status for the answer.  Several waits of one *)
(* client share what it remembers to have seen.                            *)
(***************************************************************************)
EXTENDS Naturals, Sequences

CONSTANTS
    Wait,          \* calls of sendAndWait on one client and one session
    MaxDetours     \* bound: turns that do not just complete

ASSUME DetoursAssumption == MaxDetours \in Nat

VARIABLES
    queue,         \* the durable queue of the session
    turnFor,       \* the wait whose prompt the running turn serves
    timerDue,      \* a response is written, the wait that follows it not yet published
    asking,        \* the wait whose turn asked the pending question
    status,        \* the custom status, as published
    response,      \* the key response.latest
    lastSeenStatusVersion, lastSeenResponseVersion,   \* the client's maps
    wait,          \* the locals of each _waitForTurnResult
    detours,       \* the counter of its bound
    overlapped,    \* waits that were not alone, or began behind the responses
    overtaken,     \* waits that read a response newer than the status they held
    unread         \* waits whose last read of a response failed

orchVars == <<turnFor, timerDue, asking, status, response, detours>>
clientVars == <<lastSeenStatusVersion, lastSeenResponseVersion, wait, overlapped, overtaken, unread>>
turnWaitVars == <<queue, orchVars, clientVars>>

Nobody == "nobody"
ASSUME NobodyAssumption == Nobody \notin Wait

Asker == Wait \union {Nobody}
Queued == [kind : {"prompt", "answer"}, by : Wait]
StatusValue == {"none", "running", "idle", "waiting", "input_required", "error"}
Published == [version : Nat, status : StatusValue, responseVersion : Nat]
Response == [version : Nat, type : {"none", "completed", "wait", "input_required"}, for : Asker]
Local == [pc : {"new", "poll", "read", "ask", "returned", "timedOut"},
          seenStatus : Nat, seenResponse : Nat, snapshot : Published, got : Asker]

TurnWaitInit ==
    /\ queue = <<>> /\ turnFor = Nobody /\ timerDue = FALSE /\ asking = Nobody
    /\ status = [version |-> 0, status |-> "none", responseVersion |-> 0]
    /\ response = [version |-> 0, type |-> "none", for |-> Nobody]
    /\ lastSeenStatusVersion = 0 /\ lastSeenResponseVersion = 0
    /\ wait = [w \in Wait |-> [pc |-> "new", seenStatus |-> 0, seenResponse |-> 0,
                               snapshot |-> status, got |-> Nobody]]
    /\ detours = 0 /\ overlapped = {} /\ overtaken = {} /\ unread = {}

----------------------------------------------------------------------------
(* The orchestration, as far as a client can see it.                       *)

publishStatus(value, number) ==
    status' = [version |-> status.version + 1, status |-> value, responseVersion |-> number]

writeLatestResponse(type) ==
    response' = [version |-> response.version + 1, type |-> type, for |-> turnFor]

TurnRunning == turnFor # Nobody /\ ~timerDue /\ status.status = "running"

(* A prompt starts a turn, also in the middle of a wait.  An answer goes   *)
(* on with the turn that asked; one nobody asked for starts a turn of its  *)
(* own.                                                                    *)
StartTurn ==
    /\ turnFor = Nobody \/ status.status = "waiting"
    /\ ~timerDue /\ queue # <<>>
    /\ LET item == Head(queue) IN
         IF item.kind = "answer"
         THEN turnFor' = (IF asking = Nobody THEN item.by ELSE asking) /\ asking' = Nobody
         ELSE turnFor' = item.by /\ UNCHANGED asking
    /\ queue' = Tail(queue) /\ publishStatus("running", response.version)
    /\ UNCHANGED <<timerDue, response, detours, clientVars>>

Detour == detours < MaxDetours /\ detours' = detours + 1

(* No yield between the response and the status: they appear together.     *)
Respond(type, value) ==
    /\ TurnRunning /\ writeLatestResponse(type) /\ publishStatus(value, response.version + 1)
    /\ UNCHANGED <<queue, timerDue, clientVars>>

CompleteTurn == Respond("completed", "idle") /\ turnFor' = Nobody /\ UNCHANGED <<asking, detours>>
WaitInTurn == Respond("wait", "waiting") /\ Detour /\ UNCHANGED <<turnFor, asking>>
AskInTurn ==
    /\ asking = Nobody /\ Respond("input_required", "input_required") /\ Detour
    /\ asking' = turnFor /\ turnFor' = Nobody

(* With a schedule, or an interrupted wait to resume, the session is never *)
(* idle after the answer: several yields later its status is waiting.      *)
CompleteBeforeTimer ==
    /\ TurnRunning /\ writeLatestResponse("completed") /\ Detour /\ timerDue' = TRUE
    /\ UNCHANGED <<queue, turnFor, asking, status, clientVars>>

PublishTimer ==
    /\ timerDue /\ timerDue' = FALSE /\ turnFor' = Nobody
    /\ publishStatus("waiting", response.version)
    /\ UNCHANGED <<queue, asking, response, detours, clientVars>>

(* The timer of a wait fires and the turn goes on.                         *)
WaitOver ==
    /\ turnFor # Nobody /\ status.status = "waiting" /\ publishStatus("running", response.version)
    /\ UNCHANGED <<queue, turnFor, timerDue, asking, response, detours, clientVars>>

(* The retries are used up: an error status and no response.               *)
GiveTurnUp ==
    /\ TurnRunning /\ Detour /\ publishStatus("error", response.version) /\ turnFor' = Nobody
    /\ UNCHANGED <<queue, timerDue, asking, response, clientVars>>

----------------------------------------------------------------------------
(* The client.                                                             *)

Waiting(w) == wait[w].pc \in {"poll", "read", "ask"}

Alone(w) ==
    /\ queue = <<>> /\ turnFor = Nobody /\ asking = Nobody
    /\ \A v \in Wait \ {w} : ~Waiting(v)

(* _startAndWait: the prompt is enqueued, then the wait begins with what   *)
(* the client remembers.                                                   *)
SendAndWait(w) ==
    /\ wait[w].pc = "new"
    /\ queue' = Append(queue, [kind |-> "prompt", by |-> w])
    /\ wait' = [wait EXCEPT ![w].pc = "poll", ![w].seenStatus = lastSeenStatusVersion,
                            ![w].seenResponse = lastSeenResponseVersion]
    /\ overlapped' = IF Alone(w) /\ response.version = lastSeenResponseVersion THEN overlapped
                     ELSE overlapped \union {w} \union {v \in Wait : Waiting(v)}
    /\ UNCHANGED <<orchVars, lastSeenStatusVersion, lastSeenResponseVersion, overtaken, unread>>

(* Fault: a response that was seen already is read again.                  *)
PollSeenResponse(w) ==
    /\ wait[w].pc = "poll" /\ status.version > wait[w].seenStatus
    /\ wait' = [wait EXCEPT ![w].seenStatus = status.version, ![w].snapshot = status,
                            ![w].pc = IF status.responseVersion >= wait[w].seenResponse
                                      THEN "read" ELSE "poll"]
    /\ UNCHANGED <<queue, orchVars, lastSeenStatusVersion, lastSeenResponseVersion,
                   overlapped, overtaken, unread>>

(* Fault: the number of the response is compared with that of the status.  *)
PollByStatusNumber(w) ==
    /\ wait[w].pc = "poll" /\ status.version > wait[w].seenStatus
    /\ wait' = [wait EXCEPT ![w].seenStatus = status.version, ![w].snapshot = status,
                            ![w].pc = IF status.responseVersion > wait[w].seenStatus
                                      THEN "read" ELSE "poll"]
    /\ UNCHANGED <<queue, orchVars, lastSeenStatusVersion, lastSeenResponseVersion,
                   overlapped, overtaken, unread>>

(* waitForStatusChange returns a status newer than the last one seen.      *)
Poll(w) ==
    /\ wait[w].pc = "poll" /\ status.version > wait[w].seenStatus
    /\ wait' = [wait EXCEPT ![w].seenStatus = status.version, ![w].snapshot = status,
                            ![w].pc = IF status.responseVersion > wait[w].seenResponse
                                      THEN "read" ELSE "poll"]
    /\ UNCHANGED <<queue, orchVars, lastSeenStatusVersion, lastSeenResponseVersion,
                   overlapped, overtaken, unread>>

Answers(w) == response.type = "completed" /\ wait[w].snapshot.status = "idle"

ReadAnswer(w) ==
    /\ wait[w].pc = "read" /\ Answers(w)
    /\ wait' = [wait EXCEPT ![w].pc = "returned", ![w].seenResponse = response.version,
                            ![w].got = response.for]
    /\ lastSeenStatusVersion' = wait[w].seenStatus
    /\ lastSeenResponseVersion' = response.version
    /\ UNCHANGED <<queue, orchVars, overlapped, overtaken, unread>>

(* Fault: a question that was passed on is not marked as seen.             *)
ReadOtherUnseen(w) ==
    /\ wait[w].pc = "read" /\ ~Answers(w)
    /\ wait' = [wait EXCEPT ![w].pc = IF response.type = "input_required" THEN "ask" ELSE "poll"]
    /\ UNCHANGED <<queue, orchVars, lastSeenStatusVersion, lastSeenResponseVersion,
                   overlapped, overtaken, unread>>

(* Any other response is marked as seen as well; a question is passed on.  *)
ReadOther(w) ==
    /\ wait[w].pc = "read" /\ ~Answers(w)
    /\ wait' = [wait EXCEPT ![w].pc = IF response.type = "input_required" THEN "ask" ELSE "poll",
                            ![w].seenResponse = response.version]
    /\ overtaken' = IF response.version > wait[w].snapshot.responseVersion
                    THEN overtaken \union {w} ELSE overtaken
    /\ unread' = unread \ {w}
    /\ UNCHANGED <<queue, orchVars, lastSeenStatusVersion, lastSeenResponseVersion, overlapped>>

(* _getLatestResponse turns an error into null, and the response whose     *)
(* number the status gave counts as seen although nobody has read it.      *)
ReadFails(w) ==
    /\ wait[w].pc = "read"
    /\ LET number == wait[w].snapshot.responseVersion IN
         wait' = [wait EXCEPT ![w].pc = "poll",
                              ![w].seenResponse = IF @ > number THEN @ ELSE number]
    /\ unread' = unread \union {w}
    /\ UNCHANGED <<queue, orchVars, lastSeenStatusVersion, lastSeenResponseVersion,
                   overlapped, overtaken>>

(* onUserInput returns and its result is sent.                             *)
AnswerQuestion(w) ==
    /\ wait[w].pc = "ask" /\ wait' = [wait EXCEPT ![w].pc = "poll"]
    /\ queue' = Append(queue, [kind |-> "answer", by |-> w])
    /\ UNCHANGED <<orchVars, lastSeenStatusVersion, lastSeenResponseVersion, overlapped, overtaken,
                   unread>>

(* The deadline has passed when the loop is entered again.                 *)
Timeout(w) ==
    /\ wait[w].pc = "poll" /\ wait' = [wait EXCEPT ![w].pc = "timedOut"]
    /\ lastSeenResponseVersion' = wait[w].seenResponse
    /\ UNCHANGED <<queue, orchVars, lastSeenStatusVersion, overlapped, overtaken, unread>>

OrchestrationTurn ==
    \/ StartTurn \/ CompleteTurn \/ WaitInTurn \/ AskInTurn
    \/ CompleteBeforeTimer \/ PublishTimer \/ WaitOver \/ GiveTurnUp
Client(w) == Poll(w) \/ ReadAnswer(w) \/ ReadOther(w) \/ ReadFails(w) \/ AnswerQuestion(w)

TurnWaitNext ==
    OrchestrationTurn \/ \E w \in Wait : SendAndWait(w) \/ Client(w) \/ Timeout(w)

(* A turn ends, the timer of a wait fires, and the loop of a wait goes on. *)
TurnWaitOwed == OrchestrationTurn \/ \E w \in Wait : Client(w)
TurnWaitFairness == WF_turnWaitVars(TurnWaitOwed)

TurnWaitSpec == TurnWaitInit /\ [][TurnWaitNext]_turnWaitVars /\ TurnWaitFairness

----------------------------------------------------------------------------
(* Properties.                                                             *)

TurnWaitTypeOK ==
    /\ queue \in Seq(Queued) /\ {turnFor, asking} \subseteq Asker
    /\ timerDue \in BOOLEAN /\ status \in Published /\ response \in Response
    /\ {lastSeenStatusVersion, lastSeenResponseVersion} \subseteq Nat
    /\ wait \in [Wait -> Local] /\ detours \in 0 .. MaxDetours
    /\ {overlapped, overtaken, unread} \subseteq SUBSET Wait

(* What sendAndWait returns is the answer to its own prompt, if nothing    *)
(* else went on in the session when it began or since, and the client had  *)
(* seen every earlier response.  Nothing but the numbers says so.          *)
OwnAnswerReturned ==
    \A w \in Wait : wait[w].pc = "returned" /\ w \notin overlapped => wait[w].got = w

(* A question is answered once: as long as waits do not overlap, an answer *)
(* on its way finds its question still pending, and there is one at most.  *)
QuestionAnsweredOnce ==
    \A i \in DOMAIN queue :
      queue[i].kind = "answer" /\ queue[i].by \notin overlapped =>
        /\ asking = queue[i].by
        /\ \A j \in DOMAIN queue \ {i} : queue[j].kind # "answer"

(* An answer published with an idle status reaches the wait for it, unless *)
(* waits overlap, the wait times out, it read this response while it held  *)
(* an older status (the response is then seen, but not taken), or its last *)
(* read failed (the response is then seen, but was never there to take).   *)
Passed == overlapped \union overtaken \union unread
AnswerReachesWait ==
    (\E w \in Wait \ Passed :
        /\ Waiting(w) /\ response.type = "completed" /\ response.for = w
        /\ status.status = "idle" /\ status.responseVersion = response.version)
      ~> \A w \in Wait : ~Waiting(w) \/ w \in Passed
=============================================================================
