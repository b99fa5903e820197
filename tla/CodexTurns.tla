------------------------------ MODULE CodexTurns ------------------------------
(***************************************************************************)
(* Turns of several sessions on one Codex app-server:                      *)
(* CodexRuntimeClient and CodexRuntimeSession of codex-runtime.ts, called  *)
(* by runTurn of managed-session.ts (both under src/packages/sdk/src).     *)
(*                                                                         *)
(* A client runs one turn at a time.  The job of a send waits in the       *)
(* client's turnQueue, attaches its session to the app-server, starts the  *)
(* turn there and holds the queue until the turn is terminal.  Meanwhile   *)
(* runTurn waits for the acknowledgement of the send and for session.idle, *)
(* may time out and abort, the session may be disconnected, deleted and    *)
(* resumed under a new handle, the app-server may die and the client stop. *)
(*                                                                         *)
(* The app-server is external: it knows the threads of the handles that    *)
(* were started or resumed in its lifetime, runs one turn of a thread at a *)
(* time and concludes each with turn/completed.                            *)
(***************************************************************************)
EXTENDS Naturals, Sequences

CONSTANTS
    Session,       \* one thread each
    MaxSends,      \* bound: calls of runTurn
    MaxHandles,    \* bound: handles opened, by whichever session
    MaxFaults      \* bound: crashes, timeouts, aborts, disconnects, refused requests
                   \* and error notifications

ASSUME CodexBounds == {MaxSends, MaxHandles, MaxFaults} \subseteq Nat
ASSUME SomeSession == Session # {}

Send == 1 .. MaxSends
NoSend == 0
Handle == 1 .. MaxHandles
NoHandle == 0

VARIABLES
    link,          \* the client's transport, up once initialized
    generation,    \* transportGeneration
    known,         \* handles whose thread the app-server streams
    registered,    \* the client's map sessions
    handle,        \* the fields of each CodexRuntimeSession
    send,          \* each send: its job, its runTurn and its turn on the server
    turnQueue,     \* jobs that have not returned; the first one runs
    stopping,      \* "no", "closing" or "stopped"
    faults         \* the counter of its bound

codexVars == <<link, generation, known, registered, handle, send, turnQueue, stopping, faults>>

HandleState == [of : Session, open : {"no", "yes", "closing", "closed"},
                current : Send \union {NoSend}, active : Send \union {NoSend},
                turnEndFired : BOOLEAN, resolver : BOOLEAN, attached : 0 .. MaxFaults + 1]

(* job is the progress of the queued function, ack the promise send        *)
(* returned, run the runTurn that waits for it with what it has heard, and *)
(* server the turn on the app-server.  misled records that it was marked   *)
(* terminal by an event about another turn, or while the job was waiting   *)
(* and goes on all the same.                                               *)
SendState == [on : Handle \union {NoHandle},
              job : {"none", "queued", "attach", "start", "hold", "over"},
              aborted : BOOLEAN, terminal : BOOLEAN, ack : {"pending", "resolved", "rejected"},
              run : {"none", "running", "completed", "error"},
              idle : BOOLEAN, erred : BOOLEAN,
              server : {"none", "requested", "live", "ended"},
              interrupted : BOOLEAN, misled : BOOLEAN]

CodexInit ==
    /\ link = "down" /\ generation = 0 /\ known = {}
    /\ registered = [s \in Session |-> NoHandle]
    /\ handle = [h \in Handle |-> [of |-> CHOOSE s \in Session : TRUE, open |-> "no",
                                   current |-> NoSend, active |-> NoSend,
                                   turnEndFired |-> FALSE, resolver |-> FALSE, attached |-> 0]]
    /\ send = [k \in Send |-> [on |-> NoHandle, job |-> "none", aborted |-> FALSE,
                               terminal |-> FALSE, ack |-> "pending", run |-> "none",
                               idle |-> FALSE, erred |-> FALSE,
                               server |-> "none", interrupted |-> FALSE, misled |-> FALSE]]
    /\ turnQueue = <<>> /\ stopping = "no" /\ faults = 0

Fault == faults < MaxFaults /\ faults' = faults + 1
Registered == {registered[s] : s \in Session} \ {NoHandle}
Running(k) == turnQueue # <<>> /\ Head(turnQueue) = k

----------------------------------------------------------------------------
(* The end of a turn: _markTurnTerminal and the events its callers emit.   *)

(* Listeners hear the events of a handle until _teardown.                  *)
Hears(k, H) ==
    send[k].run = "running" /\ send[k].on \in H /\ handle[send[k].on].open # "closed"

Ended(h) == [handle[h] EXCEPT !.active = NoSend, !.turnEndFired = TRUE, !.resolver = FALSE]
HandlesEnded(H) == [h \in Handle |-> IF h \in H THEN Ended(h) ELSE handle[h]]

(* The sends as the handles of H mark them; about are those the event is   *)
(* about, and erred says that session.error is emitted first.              *)
SendsEnded(H, about, erred) ==
    [k \in Send |->
       LET marked == send[k].on \in H /\ handle[send[k].on].current = k
       IN  [send[k] EXCEPT
              !.terminal = @ \/ marked,
              !.misled = @ \/ /\ marked /\ k \notin about
                              /\ send[k].job # "over" /\ send[k].server # "ended",
              !.erred = @ \/ (erred /\ Hears(k, H)),
              !.idle = @ \/ (Hears(k, H) /\ ~handle[send[k].on].turnEndFired)]]

Settled(state, ack) == IF state.ack = "pending" THEN [state EXCEPT !.ack = ack] ELSE state
Over(state, ack) == [Settled(state, ack) EXCEPT !.job = "over"]
Forgets(hs, h, k) == [hs EXCEPT ![h].current = IF @ = k THEN NoSend ELSE @]

(* The turn abort would interrupt.                                         *)
Interruptible(h) ==
    LET k == handle[h].current IN
    IF link = "down" \/ (k # NoSend /\ send[k].terminal) THEN NoSend
    ELSE IF handle[h].active # NoSend THEN handle[h].active
    ELSE IF k # NoSend /\ send[k].job = "hold" THEN k ELSE NoSend

Aborted(h) ==
    [k \in Send |-> [send[k] EXCEPT !.aborted = @ \/ k = handle[h].current,
                                    !.interrupted = @ \/ k = Interruptible(h)]]

----------------------------------------------------------------------------
(* The client: opening sessions and sending.                               *)

(* createSession or resumeSession: a new handle, once the handshake with   *)
(* the app-server is over.                                                 *)
OpenSession(s) ==
    /\ registered[s] # NoHandle => handle[registered[s]].open = "closing"
    /\ stopping = "no" /\ \E h \in Handle : handle[h].open = "no"
    /\ \/ link = "down" /\ link' = "connecting" /\ UNCHANGED <<registered, handle, known>>
       \/ /\ link = "up" /\ UNCHANGED link
          /\ \E h \in Handle :
               /\ handle[h].open = "no" /\ \A i \in 1 .. h - 1 : handle[i].open # "no"
               /\ registered' = [registered EXCEPT ![s] = h]
               /\ handle' = [handle EXCEPT ![h].of = s, ![h].open = "yes", ![h].attached = generation]
               /\ known' = known \union {h}
    /\ UNCHANGED <<generation, send, turnQueue, stopping, faults>>

(* _ensureInitialized ends; every caller waits for the same promise.       *)
Initialized ==
    /\ link = "connecting" /\ link' = "up" /\ generation' = generation + 1
    /\ UNCHANGED <<known, registered, handle, send, turnQueue, stopping, faults>>

(* runTurn subscribes and calls send, which throws on a stopped client.    *)
RunTurn(s) ==
    LET h == registered[s] IN
    /\ h # NoHandle /\ handle[h].open = "yes" /\ stopping = "no"
    /\ \A k \in Send : send[k].on = h => send[k].run # "running"
    /\ \E k \in Send :
         /\ send[k].job = "none" /\ \A j \in 1 .. k - 1 : send[j].job # "none"
         /\ send' = [send EXCEPT ![k].on = h, ![k].job = "queued", ![k].run = "running"]
         /\ handle' = [handle EXCEPT ![h].current = k]
         /\ turnQueue' = Append(turnQueue, k)
    /\ UNCHANGED <<link, generation, known, registered, stopping, faults>>

(* runTurn unsubscribes and returns.                                       *)
Returned(state, result) == [state EXCEPT !.run = result, !.idle = FALSE, !.erred = FALSE]

(* Fault: runTurn does not wait for session.idle.                          *)
ReturnsOnAcknowledgement(k) ==
    /\ send[k].run = "running" /\ send[k].ack # "pending"
    /\ send' = [send EXCEPT ![k] = Returned(@, IF send[k].ack = "resolved" THEN "completed" ELSE "error")]
    /\ UNCHANGED <<link, generation, known, registered, handle, turnQueue, stopping, faults>>

(* send was rejected, or it was acknowledged and session.idle heard: after *)
(* a session.error the turn is an error unless the assistant had spoken.   *)
RunTurnReturns(k) ==
    /\ send[k].run = "running"
    /\ \/ send[k].ack = "rejected" /\ send' = [send EXCEPT ![k] = Returned(@, "error")]
       \/ /\ send[k].ack = "resolved" /\ send[k].idle
          /\ \/ send' = [send EXCEPT ![k] = Returned(@, "completed")]
             \/ send[k].erred /\ send' = [send EXCEPT ![k] = Returned(@, "error")]
    /\ UNCHANGED <<link, generation, known, registered, handle, turnQueue, stopping, faults>>

(* The timeout wins: the session is aborted and the turn is an error.      *)
RunTurnTimesOut(k) ==
    /\ send[k].run = "running" /\ Fault
    /\ send' = [Aborted(send[k].on) EXCEPT ![k] = Returned(@, "error")]
    /\ UNCHANGED <<link, generation, known, registered, handle, turnQueue, stopping>>

----------------------------------------------------------------------------
(* The queued job of a send.                                               *)

(* A send that was closed while it waited is skipped, one that was only    *)
(* aborted ends its turn itself.                                           *)
SkipTurn(k) ==
    LET h == send[k].on
        opened == [handle EXCEPT ![h].turnEndFired = FALSE]
    IN
    /\ Running(k) /\ send[k].job = "queued" /\ send[k].aborted
    /\ \/ /\ send[k].terminal
          /\ send' = [send EXCEPT ![k] = Over(@, "resolved")] /\ handle' = Forgets(handle, h, k)
       \/ /\ ~send[k].terminal
          /\ send' = [[j \in Send |-> [SendsEnded({h}, {k}, FALSE)[j] EXCEPT
                                         !.idle = @ \/ Hears(j, {h})]]
                        EXCEPT ![k] = Over(@, "resolved")]
          /\ handle' = Forgets(HandlesEnded({h}), h, k)
    /\ turnQueue' = Tail(turnQueue)
    /\ UNCHANGED <<link, generation, known, registered, stopping, faults>>

(* Fault: turnEndFired stays set from the turn before.                     *)
BeginWithinLastTurn(k) ==
    LET h == send[k].on
        passes == link # "down" /\ handle[h].attached = generation
    IN
    /\ Running(k) /\ send[k].job = "queued" /\ ~send[k].aborted
    /\ handle' = [handle EXCEPT ![h].resolver = passes]
    /\ send' = IF passes THEN [send EXCEPT ![k].job = "start", ![k].server = "requested"]
               ELSE [send EXCEPT ![k].job = "attach"]
    /\ link' = IF link = "down" THEN "connecting" ELSE link
    /\ UNCHANGED <<generation, known, registered, turnQueue, stopping, faults>>

(* The turn is opened.  The gate of _ensureAttachedToCurrentTransport lets *)
(* it start at once when a transport is there, be it one that is still     *)
(* connecting, and no handshake has ended since the session was attached.  *)
BeginTurn(k) ==
    LET h == send[k].on
        passes == link # "down" /\ handle[h].attached = generation
    IN
    /\ Running(k) /\ send[k].job = "queued" /\ ~send[k].aborted
    /\ handle' = [handle EXCEPT ![h].turnEndFired = FALSE, ![h].resolver = passes]
    /\ send' = IF passes THEN [send EXCEPT ![k].job = "start", ![k].server = "requested"]
               ELSE [send EXCEPT ![k].job = "attach"]
    /\ link' = IF link = "down" THEN "connecting" ELSE link
    /\ UNCHANGED <<generation, known, registered, turnQueue, stopping, faults>>

(* thread/resume is answered and turn/start sent.                          *)
AttachTurn(k) ==
    LET h == send[k].on IN
    /\ Running(k) /\ send[k].job = "attach" /\ link = "up"
    /\ handle' = [handle EXCEPT ![h].attached = generation, ![h].resolver = TRUE]
    /\ known' = known \union {h}
    /\ send' = [send EXCEPT ![k].job = "start", ![k].server = "requested"]
    /\ UNCHANGED <<link, generation, registered, turnQueue, stopping, faults>>

(* The handshake, thread/resume or turn/start is refused, the last for     *)
(* certain when the app-server does not know the thread.                   *)
RefuseTurn(k) ==
    LET h == send[k].on IN
    /\ Running(k)
    /\ \/ send[k].job = "attach" /\ Fault
       \/ send[k].server = "requested" /\ h \notin known /\ UNCHANGED faults
       \/ send[k].server = "requested" /\ h \in known /\ Fault
    /\ handle' = HandlesEnded({h})
    /\ send' = [SendsEnded({h}, {k}, TRUE) EXCEPT
                  ![k] = [Over(@, "rejected") EXCEPT !.server = "none"]]
    /\ turnQueue' = Tail(turnQueue)
    /\ UNCHANGED <<link, generation, known, registered, stopping>>

(* turn/start is answered: the id of the turn is latched unless the turn   *)
(* is over already, and an abort that came too early is made good.         *)
TurnStarted(k) ==
    LET h == send[k].on IN
    /\ Running(k) /\ send[k].job = "start" /\ send[k].server \in {"live", "ended"}
    /\ handle' = IF handle[h].current = k /\ ~send[k].terminal /\ ~send[k].aborted
                 THEN [handle EXCEPT ![h].active = k] ELSE handle
    /\ send' = [send EXCEPT ![k] = [Settled(send[k], "resolved") EXCEPT !.job = "hold",
                                      !.interrupted = send[k].interrupted \/ send[k].aborted]]
    /\ UNCHANGED <<link, generation, known, registered, turnQueue, stopping, faults>>

(* Fault: the queue is released when the turn has started.                 *)
ReleaseUnawaited(k) ==
    /\ Running(k) /\ send[k].job = "hold"
    /\ handle' = Forgets(handle, send[k].on, k)
    /\ send' = [send EXCEPT ![k].job = "over"] /\ turnQueue' = Tail(turnQueue)
    /\ UNCHANGED <<link, generation, known, registered, stopping, faults>>

(* The completion is resolved and the queue released.                      *)
ReleaseTurn(k) ==
    LET h == send[k].on IN
    /\ Running(k) /\ send[k].job = "hold" /\ ~handle[h].resolver
    /\ handle' = Forgets(handle, h, k)
    /\ send' = [send EXCEPT ![k].job = "over"] /\ turnQueue' = Tail(turnQueue)
    /\ UNCHANGED <<link, generation, known, registered, stopping, faults>>

----------------------------------------------------------------------------
(* The app-server.  What it says about a thread goes to the handle that is *)
(* registered for it now.                                                  *)

Thread(k) == handle[send[k].on].of
Receiver(k) == {registered[Thread(k)]} \intersect known

(* turn/start is accepted and turn/started sent.                           *)
AcceptTurn(k) ==
    /\ send[k].server = "requested" /\ send[k].on \in known
    /\ \A j \in Send : send[j].server = "live" => Thread(j) # Thread(k)
    /\ send' = [send EXCEPT ![k].server = "live"]
    /\ handle' = [h \in Handle |-> IF h \in Receiver(k) THEN [handle[h] EXCEPT !.active = k]
                                   ELSE handle[h]]
    /\ UNCHANGED <<link, generation, known, registered, turnQueue, stopping, faults>>

(* turn/completed, whatever its status, or an error notification, which    *)
(* the client takes for the end of the turn as well.  That the app-server  *)
(* has ended its turn by then is assumed of it: the code of the client     *)
(* ends its own side only.                                                 *)
Conclude(k) ==
    /\ send[k].server = "live"
    /\ handle' = HandlesEnded(Receiver(k))
    /\ \/ /\ send' = [SendsEnded(Receiver(k), {k}, FALSE) EXCEPT ![k].server = "ended"]
          /\ UNCHANGED faults
       \/ Fault /\ send' = [SendsEnded(Receiver(k), {k}, TRUE) EXCEPT ![k].server = "ended"]
    /\ UNCHANGED <<link, generation, known, registered, turnQueue, stopping>>

(* The transport closes: pending requests are rejected, which ends the job *)
(* that waits for one, and every registered session hears of it.           *)
Requesting == {k \in Send : Running(k) /\ send[k].job \in {"attach", "start"}}

SendsClosed(about) ==
    LET after == SendsEnded(Registered \union {send[k].on : k \in Requesting}, about, TRUE) IN
    [k \in Send |->
       LET state == IF k \in Requesting THEN Over(after[k], "rejected") ELSE after[k]
       IN  [state EXCEPT !.server = IF @ = "none" THEN @ ELSE "ended"]]

Closes ==
    /\ handle' = HandlesEnded(Registered \union {send[k].on : k \in Requesting})
    /\ turnQueue' = IF Requesting # {} THEN Tail(turnQueue) ELSE turnQueue
    /\ link' = "down" /\ known' = {}

AppServerDies ==
    /\ link # "down" /\ Fault /\ Closes
    /\ send' = SendsClosed({k \in Send : send[k].job # "queued"})
    /\ UNCHANGED <<generation, registered, stopping>>

----------------------------------------------------------------------------
(* Closing.                                                                *)

(* The activity that waits for the turn is cancelled: the session aborts.  *)
AbortTurn(h) ==
    /\ handle[h].open = "yes" /\ handle[h].current # NoSend /\ Fault
    /\ send' = Aborted(h)
    /\ UNCHANGED <<link, generation, known, registered, handle, turnQueue, stopping>>

(* disconnect, and the beginning of deleteSession: abort, settle the turn  *)
(* that is not over, and ask the app-server to stop streaming.             *)
Disconnect(h) ==
    LET k == handle[h].current
        over == k = NoSend \/ send[k].terminal
        settled == IF over THEN send ELSE SendsEnded({h}, {j \in Send : send[j].job # "attach"}, TRUE)
    IN
    /\ handle[h].open = "yes" /\ Fault
    /\ send' = [j \in Send |->
                  LET state == IF j = k THEN Settled(settled[j], "rejected") ELSE settled[j]
                  IN  [state EXCEPT !.aborted = Aborted(h)[j].aborted,
                                    !.interrupted = Aborted(h)[j].interrupted]]
    /\ handle' = [IF over THEN handle ELSE HandlesEnded({h}) EXCEPT ![h].open = "closing"]
    /\ known' = known \ {h}
    /\ UNCHANGED <<link, generation, registered, turnQueue, stopping>>

(* The answer arrives.  A handle that was replaced leaves the map alone.   *)
(* Left out: deleteSession removes whatever handle the session has then.   *)
Disconnected(h) ==
    /\ handle[h].open = "closing"
    /\ registered' = [s \in Session |-> IF registered[s] = h THEN NoHandle ELSE registered[s]]
    /\ handle' = [handle EXCEPT ![h].open = "closed"]
    /\ UNCHANGED <<link, generation, known, send, turnQueue, stopping, faults>>

(* stop rejects what waits, closes the transport and settles what is left. *)
Stop ==
    LET current == {handle[h].current : h \in Registered} IN
    /\ stopping = "no" /\ stopping' = "closing" /\ Closes
    /\ send' = [k \in Send |->
                  LET state == SendsClosed(Send)[k]
                  IN  IF k \in current THEN [Settled(state, "rejected") EXCEPT !.aborted = TRUE]
                      ELSE state]
    /\ UNCHANGED <<generation, registered, faults>>

(* The turn queue is drained and the listeners go.                         *)
Stopped ==
    /\ stopping = "closing" /\ turnQueue = <<>> /\ stopping' = "stopped"
    /\ handle' = [h \in Handle |-> IF h \in Registered THEN [handle[h] EXCEPT !.open = "closed"]
                                  ELSE handle[h]]
    /\ registered' = [s \in Session |-> NoHandle]
    /\ UNCHANGED <<link, generation, known, send, turnQueue, faults>>

----------------------------------------------------------------------------
JobStep(k) == SkipTurn(k) \/ BeginTurn(k) \/ AttachTurn(k) \/ TurnStarted(k) \/ ReleaseTurn(k)
ServerStep(k) == AcceptTurn(k) \/ Conclude(k)

CodexNext ==
    \/ Initialized \/ AppServerDies \/ Stop \/ Stopped
    \/ \E s \in Session : OpenSession(s) \/ RunTurn(s)
    \/ \E h \in Handle : AbortTurn(h) \/ Disconnect(h) \/ Disconnected(h)
    \/ \E k \in Send : RunTurnReturns(k) \/ RunTurnTimesOut(k) \/ RefuseTurn(k)
    \/ \E k \in Send : JobStep(k) \/ ServerStep(k)

(* What the client and the app-server owe: promises that are resolved are  *)
(* acted upon, each request is answered and each turn ends.                *)
Owed ==
    \/ Initialized \/ Stopped
    \/ \E h \in Handle : Disconnected(h)
    \/ \E k \in Send :
         \/ RunTurnReturns(k) \/ JobStep(k) \/ ServerStep(k)
         \/ RefuseTurn(k) /\ faults' = faults

CodexFairness == WF_codexVars(Owed)

CodexSpec == CodexInit /\ [][CodexNext]_codexVars /\ CodexFairness

----------------------------------------------------------------------------
CodexTypeOK ==
    /\ link \in {"down", "connecting", "up"} /\ generation \in Nat /\ known \subseteq Handle
    /\ registered \in [Session -> Handle \union {NoHandle}]
    /\ handle \in [Handle -> HandleState] /\ send \in [Send -> SendState]
    /\ turnQueue \in Seq(Send) /\ stopping \in {"no", "closing", "stopped"}
    /\ faults \in 0 .. MaxFaults

(* A turn that was neither aborted nor marked terminal out of turn is      *)
(* reported completed only when the app-server has concluded that turn, or *)
(* died with it, whatever became of the turns before and after it.         *)
CompletedMeansConcluded ==
    \A k \in Send :
        send[k].run = "completed" /\ ~send[k].misled /\ ~send[k].aborted => send[k].server = "ended"

(* The queue serializes the client: two turns that nothing interrupted run *)
(* on the app-server at once only when one was marked terminal out of turn.*)
OneTurnAtATime ==
    \A j, k \in {i \in Send : send[i].server = "live" /\ ~send[i].interrupted /\ ~send[i].misled} :
        j = k

(* The comment of _settleActiveTurnForClose and the test of disconnect: a  *)
(* session that is closed does not hold the queue of the other sessions.   *)
QueueFreedByClose ==
    \A k \in Send :
        Running(k) /\ send[k].job = "hold" /\ handle[send[k].on].open = "closed"
            => ~handle[send[k].on].resolver

(* Whatever is aborted, closed, refused or crashes, and however the turns  *)
(* of the sessions queue up behind each other, every runTurn returns and   *)
(* stop finishes, unless a turn was marked terminal out of turn or the     *)
(* queue is held as above.                                                 *)
Derailed == (\E k \in Send : send[k].misled) \/ ~QueueFreedByClose
TurnsReturn ==
    LET waiting == stopping = "closing" \/ \E k \in Send : send[k].run = "running"
    IN  []<>(~waiting \/ Derailed)
=============================================================================
