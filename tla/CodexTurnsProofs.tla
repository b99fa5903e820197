--------------------------- MODULE CodexTurnsProofs ---------------------------
(***************************************************************************)
(* Proofs about CodexTurns for every number of sessions, sends, handles    *)
(* and faults.                                                             *)
(***************************************************************************)
EXTENDS CodexTurns, SequenceTheorems, TLAPS

----------------------------------------------------------------------------
(* Types.  A session is attached to a transport that has existed, and the  *)
(* transport is replaced only after a fault: once the client stops, what   *)
(* still waits is aborted and starts nothing.                              *)

Attached ==
    /\ generation <= faults + 1
    /\ stopping = "no" /\ link # "up" => generation <= faults
    /\ \A h \in Handle : handle[h].attached <= generation

LEMMA Bounds == MaxSends \in Nat /\ MaxHandles \in Nat /\ MaxFaults \in Nat
  BY CodexBounds

LEMMA Numbers == NoSend \notin Send /\ NoHandle \notin Handle
  BY DEF NoSend, NoHandle, Send, Handle

LEMMA InitTypes == CodexInit => CodexTypeOK
  <1> SUFFICES ASSUME CodexInit PROVE CodexTypeOK
    OBVIOUS
  <1>1. PICK first \in Session : first = (CHOOSE s \in Session : TRUE)
    BY SomeSession
  <1>2. handle \in [Handle -> HandleState]
    <2>1. handle = [h \in Handle |-> [of |-> first, open |-> "no", current |-> NoSend,
                                      active |-> NoSend, turnEndFired |-> FALSE,
                                      resolver |-> FALSE, attached |-> 0]]
      BY <1>1 DEF CodexInit
    <2>2. 0 \in 0 .. MaxFaults + 1
      BY Bounds
    <2>3. QED
      BY <1>1, <2>1, <2>2 DEF HandleState
  <1>3. send \in [Send -> SendState]
    BY DEF CodexInit, SendState
  <1>4. turnQueue \in Seq(Send) /\ faults \in 0 .. MaxFaults /\ generation \in Nat
    BY Bounds DEF CodexInit
  <1>5. registered \in [Session -> Handle \union {NoHandle}]
    BY DEF CodexInit
  <1>6. QED
    BY <1>2, <1>3, <1>4, <1>5 DEF CodexInit, CodexTypeOK

(* What marks the ends of turns keeps the types.                           *)
LEMMA MarksTypes ==
    ASSUME CodexTypeOK, NEW H \in SUBSET Handle, NEW about, NEW erred \in BOOLEAN
    PROVE  /\ HandlesEnded(H) \in [Handle -> HandleState]
           /\ SendsEnded(H, about, erred) \in [Send -> SendState]
  <1>1. ASSUME NEW h \in Handle PROVE Ended(h) \in HandleState
    BY DEF CodexTypeOK, HandleState, Ended
  <1>2. HandlesEnded(H) \in [Handle -> HandleState]
    BY <1>1 DEF HandlesEnded, CodexTypeOK
  <1>3. ASSUME NEW k \in Send PROVE SendsEnded(H, about, erred)[k] \in SendState
    <2>1. send[k] \in SendState
      BY DEF CodexTypeOK
    <2> DEFINE marked == send[k].on \in H /\ handle[send[k].on].current = k
               t == send[k].terminal \/ marked
               m == send[k].misled \/ (/\ marked /\ k \notin about
                              /\ send[k].job # "over" /\ send[k].server # "ended")
               e == send[k].erred \/ (erred /\ Hears(k, H))
               i == send[k].idle \/ (Hears(k, H) /\ ~handle[send[k].on].turnEndFired)
    <2>2. SendsEnded(H, about, erred)[k] =
            [send[k] EXCEPT !.terminal = t, !.misled = m, !.erred = e, !.idle = i]
      BY DEF SendsEnded
    <2>3. t \in BOOLEAN /\ m \in BOOLEAN /\ e \in BOOLEAN /\ i \in BOOLEAN
      OBVIOUS
    <2> HIDE DEF t, m, e, i
    <2>4. QED
      BY <2>1, <2>2, <2>3 DEF SendState
  <1>4. SendsEnded(H, about, erred) \in [Send -> SendState]
    <2>1. SendsEnded(H, about, erred) = [k \in Send |-> SendsEnded(H, about, erred)[k]]
      BY DEF SendsEnded
    <2>2. QED
      BY <1>3, <2>1
  <1>5. QED
    BY <1>2, <1>4

LEMMA SettledTypes ==
    ASSUME NEW state \in SendState, NEW ack \in {"pending", "resolved", "rejected"}
    PROVE  Settled(state, ack) \in SendState /\ Over(state, ack) \in SendState
  BY DEF Settled, Over, SendState

LEMMA AbortedTypes ==
    ASSUME CodexTypeOK, NEW h
    PROVE  Aborted(h) \in [Send -> SendState]
  <1>1. ASSUME NEW k \in Send PROVE Aborted(h)[k] \in SendState
    <2> DEFINE a == send[k].aborted \/ k = handle[h].current
               i == send[k].interrupted \/ k = Interruptible(h)
    <2>1. Aborted(h)[k] = [send[k] EXCEPT !.aborted = a, !.interrupted = i]
      BY DEF Aborted
    <2>2. send[k] \in SendState /\ a \in BOOLEAN /\ i \in BOOLEAN
      BY DEF CodexTypeOK
    <2> HIDE DEF a, i
    <2>3. QED
      BY <2>1, <2>2 DEF SendState
  <1>2. Aborted(h) = [k \in Send |-> Aborted(h)[k]]
    BY DEF Aborted
  <1>3. QED
    BY <1>1, <1>2

LEMMA ForgetsTypes ==
    ASSUME NEW hs \in [Handle -> HandleState], NEW h \in Handle, NEW k
    PROVE  Forgets(hs, h, k) \in [Handle -> HandleState]
  BY DEF Forgets, HandleState

LEMMA ReturnedTypes ==
    ASSUME NEW state \in SendState, NEW result \in {"completed", "error"}
    PROVE  Returned(state, result) \in SendState
  BY DEF Returned, SendState
----------------------------------------------------------------------------
(* The inductive invariant.                                                *)

InQueue(k) == \E i \in 1 .. Len(turnQueue) : turnQueue[i] = k

(* How far the job of a send, its acknowledgement and its turn have come.  *)
Progress(k) ==
    /\ send[k].job = "none" =>
          /\ send[k].on = NoHandle /\ send[k].run = "none" /\ send[k].ack = "pending"
          /\ ~send[k].terminal /\ ~send[k].idle
    /\ send[k].job # "none" => send[k].on \in Handle
    /\ send[k].job \in {"none", "queued", "attach"} => send[k].server = "none"
    /\ send[k].job = "start" => send[k].server # "none"
    /\ send[k].server = "requested" => send[k].job = "start"
    /\ send[k].job = "hold" => send[k].server \in {"live", "ended"}
    /\ send[k].ack = "resolved" => send[k].job \in {"hold", "over"}
    /\ send[k].job \in {"hold", "over"} => send[k].ack # "pending"

(* The job that has begun is the first of the queue.                       *)
InTurn(k) ==
    /\ send[k].job \in {"attach", "start", "hold"} => Running(k)
    /\ send[k].job = "queued" => InQueue(k)

Linked(k) == send[k].server \in {"requested", "live"} => link # "down"

(* Somebody waits for a job that nothing aborted: its runTurn, behind the  *)
(* handle that is registered for the session.                              *)
Pending(k) ==
    /\ ~send[k].aborted
    /\ \/ send[k].job \in {"queued", "attach", "start"}
       \/ send[k].job = "hold" /\ ~send[k].misled /\ send[k].server # "ended"

Waits(k) ==
    /\ send[k].run = "running" /\ send[k].ack # "rejected"
    /\ handle[send[k].on].current = k /\ handle[send[k].on].open = "yes"
    /\ registered[handle[send[k].on].of] = send[k].on

Awaited(k) == Pending(k) => Waits(k)

(* A turn that is under way, and that no event ended out of turn, has      *)
(* heard of no end: its completion is still to come.                       *)
UnderWay(k) ==
    /\ ~send[k].aborted /\ ~send[k].misled
    /\ send[k].job \in {"queued", "attach", "start", "hold"} /\ send[k].server # "ended"

Latched(k) ==
    /\ send[k].job \in {"start", "hold"} => handle[send[k].on].resolver
    /\ send[k].job = "hold" => handle[send[k].on].active = k

Unheard(k) == UnderWay(k) => ~send[k].terminal /\ ~send[k].idle /\ Latched(k)

(* A job that returned in good order left no turn behind.                  *)
Acknowledged(k) ==
    /\ send[k].job = "over" /\ send[k].ack = "resolved" /\ ~send[k].aborted /\ ~send[k].misled
    => send[k].server = "ended"

(* The queue is held by whatever runs on the app-server.                   *)
Held(k) ==
    /\ send[k].server \in {"requested", "live"} /\ ~send[k].interrupted /\ ~send[k].misled
    => send[k].job \in {"start", "hold"}

(* An abort interrupts the turn that runs.                                 *)
Interrupts(k) ==
    /\ send[k].job = "hold" /\ send[k].server = "live" /\ ~send[k].misled /\ send[k].aborted
    => send[k].interrupted

Concluded(k) ==
    send[k].run = "completed" /\ ~send[k].misled /\ ~send[k].aborted => send[k].server = "ended"

TurnInv(k) ==
    /\ Progress(k) /\ InTurn(k) /\ Linked(k) /\ Awaited(k) /\ Unheard(k)
    /\ Acknowledged(k) /\ Held(k) /\ Interrupts(k) /\ Concluded(k)

(* The maps of the client and of its handles.                              *)
Maps ==
    /\ \A s \in Session : registered[s] # NoHandle =>
          handle[registered[s]].of = s /\ handle[registered[s]].open # "no"
    /\ \A h \in Handle : handle[h].current # NoSend => send[handle[h].current].on = h

(* A client that stops begins no turn any more.                            *)
Stopping ==
    stopping # "no" => link = "down" /\ \A k \in Send : send[k].job = "queued" => send[k].aborted

CodexInv == CodexTypeOK /\ Attached /\ Maps /\ Stopping /\ \A k \in Send : TurnInv(k)

LEMMA InitTurns == CodexInit => CodexInv
  <1> SUFFICES ASSUME CodexInit PROVE CodexInv
    OBVIOUS
  <1>1. CodexTypeOK
    BY InitTypes
  <1>2. Attached /\ Maps /\ Stopping
    <2>1. \A h \in Handle : handle[h].attached = 0 /\ handle[h].current = NoSend
      BY DEF CodexInit
    <2>2. \A s \in Session : registered[s] = NoHandle
      BY DEF CodexInit
    <2>3. link = "down" /\ generation = 0 /\ stopping = "no" /\ faults = 0
      BY DEF CodexInit
    <2>4. QED
      BY <2>1, <2>2, <2>3 DEF Attached, Maps, Stopping
  <1>3. ASSUME NEW k \in Send PROVE TurnInv(k)
    <2>1. send[k] = [on |-> NoHandle, job |-> "none", aborted |-> FALSE,
                     terminal |-> FALSE, ack |-> "pending", run |-> "none",
                     idle |-> FALSE, erred |-> FALSE,
                     server |-> "none", interrupted |-> FALSE, misled |-> FALSE]
      BY DEF CodexInit
    <2>2. QED
      BY <2>1 DEF TurnInv, Progress, InTurn, Linked, Awaited, Pending, Unheard, UnderWay,
                  Acknowledged, Held, Interrupts, Concluded
  <1>4. QED
    BY <1>1, <1>2, <1>3 DEF CodexInv

(* A send that goes on where it was, whatever else was marked or aborted.  *)
GoesOn(k) ==
    /\ send'[k].on = send[k].on /\ send'[k].job = send[k].job /\ send'[k].ack = send[k].ack
    /\ send'[k].run = send[k].run /\ send'[k].server = send[k].server
    /\ send[k].aborted => send'[k].aborted
    /\ send[k].misled => send'[k].misled
    /\ send[k].interrupted => send'[k].interrupted

LEMMA GoingOn ==
    ASSUME CodexInv, NEW k \in Send, GoesOn(k),
           send[k].job = "none" => ~send'[k].terminal /\ ~send'[k].idle,
           send'[k].aborted /\ ~send[k].aborted => Interrupts(k)',
           Pending(k)' => Waits(k)',
           UnderWay(k)' => ~send'[k].terminal /\ ~send'[k].idle /\ Latched(k)',
           InTurn(k)', Linked(k)'
    PROVE  TurnInv(k)'
  <1>1. TurnInv(k)
    BY DEF CodexInv
  <1>2. Progress(k)'
    BY <1>1 DEF TurnInv, Progress, GoesOn
  <1>3. Awaited(k)' /\ Unheard(k)'
    BY DEF Awaited, Unheard
  <1>4. Acknowledged(k)' /\ Held(k)' /\ Concluded(k)'
    BY <1>1 DEF TurnInv, GoesOn, Acknowledged, Held, Concluded
  <1>5. Interrupts(k)'
    BY <1>1 DEF TurnInv, GoesOn, Interrupts
  <1>6. QED
    BY <1>2, <1>3, <1>4, <1>5 DEF TurnInv

----------------------------------------------------------------------------
(* The queue.                                                              *)

LEMMA HeadIsFirst ==
    ASSUME CodexTypeOK, NEW k \in Send, Running(k)
    PROVE  /\ turnQueue \in Seq(Send) /\ turnQueue # <<>> /\ Head(turnQueue) = k
           /\ Tail(turnQueue) \in Seq(Send)
  BY HeadTailProperties DEF CodexTypeOK, Running

(* The job that returns leaves the others in the queue.                    *)
LEMMA TailKeeps ==
    ASSUME CodexTypeOK, NEW k \in Send, Running(k), turnQueue' = Tail(turnQueue),
           NEW j \in Send, j # k
    PROVE  ~Running(j) /\ (InQueue(j) => InQueue(j)')
  <1>1. /\ turnQueue \in Seq(Send) /\ turnQueue # <<>> /\ Head(turnQueue) = k
    BY HeadIsFirst
  <1>2. ~Running(j)
    BY <1>1 DEF Running
  <1>3. /\ Len(Tail(turnQueue)) = Len(turnQueue) - 1 /\ Len(turnQueue) \in Nat
        /\ \A i \in 1 .. Len(Tail(turnQueue)) : Tail(turnQueue)[i] = turnQueue[i + 1]
        /\ turnQueue[1] = k
    BY <1>1, HeadTailProperties, LenProperties
  <1>4. ASSUME InQueue(j) PROVE InQueue(j)'
    <2>1. PICK i \in 1 .. Len(turnQueue) : turnQueue[i] = j
      BY <1>4 DEF InQueue
    <2>2. i - 1 \in 1 .. Len(Tail(turnQueue)) /\ (i - 1) + 1 = i
      BY <1>3, <2>1
    <2>3. Tail(turnQueue)[i - 1] = j
      BY <1>3, <2>1, <2>2
    <2>4. QED
      BY <2>2, <2>3 DEF InQueue
  <1>5. QED
    BY <1>2, <1>4

LEMMA AppendKeeps ==
    ASSUME CodexTypeOK, NEW k \in Send, turnQueue' = Append(turnQueue, k)
    PROVE  /\ turnQueue' \in Seq(Send) /\ InQueue(k)'
           /\ \A j \in Send : (Running(j) => Running(j)') /\ (InQueue(j) => InQueue(j)')
  <1>1. turnQueue \in Seq(Send) /\ Len(turnQueue) \in Nat
    BY LenProperties DEF CodexTypeOK
  <1>2. /\ Append(turnQueue, k) \in Seq(Send)
        /\ Len(Append(turnQueue, k)) = Len(turnQueue) + 1
        /\ \A i \in 1 .. Len(turnQueue) : Append(turnQueue, k)[i] = turnQueue[i]
        /\ Append(turnQueue, k)[Len(turnQueue) + 1] = k
    BY <1>1, AppendProperties
  <1>3. InQueue(k)'
    BY <1>1, <1>2 DEF InQueue
  <1>4. ASSUME NEW j \in Send PROVE InQueue(j) => InQueue(j)'
    BY <1>1, <1>2 DEF InQueue
  <1>5. ASSUME NEW j \in Send, Running(j) PROVE Running(j)'
    <2>1. turnQueue # <<>> /\ turnQueue[1] = j /\ 1 \in 1 .. Len(turnQueue)
      BY <1>1, <1>5, HeadTailProperties, EmptySeq DEF Running
    <2>2. Append(turnQueue, k) # <<>> /\ Append(turnQueue, k)[1] = j
      BY <1>1, <1>2, <2>1, EmptySeq
    <2>3. Head(Append(turnQueue, k)) = j
      BY <1>2, <2>2, HeadTailProperties
    <2>4. QED
      BY <2>2, <2>3 DEF Running
  <1>6. QED
    BY <1>2, <1>3, <1>4, <1>5
----------------------------------------------------------------------------
(* Marking the ends of turns.                                              *)

(* m is what an event makes of send k: it hears of the end of its turn, or *)
(* of another turn, in which case it is misled.                            *)
Marks(k, m, H, about) ==
    /\ m.on = send[k].on /\ m.job = send[k].job /\ m.ack = send[k].ack
    /\ m.run = send[k].run /\ m.server = send[k].server
    /\ m.aborted <=> send[k].aborted
    /\ send[k].interrupted => m.interrupted
    /\ send[k].misled => m.misled
    /\ send[k].on \notin H => /\ m.terminal <=> send[k].terminal
                              /\ m.idle <=> send[k].idle
    /\ send[k].on \in H /\ k \notin about /\ UnderWay(k) => m.misled

LEMMA UnderWayPending ==
    ASSUME NEW k, UnderWay(k)
    PROVE  Pending(k)
  BY DEF UnderWay, Pending

LEMMA Marking ==
    ASSUME CodexInv, NEW k \in Send, NEW H \in SUBSET Handle, NEW about, NEW erred \in BOOLEAN
    PROVE  Marks(k, SendsEnded(H, about, erred)[k], H, about)
  <1> DEFINE marked == send[k].on \in H /\ handle[send[k].on].current = k
             t == send[k].terminal \/ marked
             m == send[k].misled \/ (/\ marked /\ k \notin about
                            /\ send[k].job # "over" /\ send[k].server # "ended")
             e == send[k].erred \/ (erred /\ Hears(k, H))
             i == send[k].idle \/ (Hears(k, H) /\ ~handle[send[k].on].turnEndFired)
  <1>1. SendsEnded(H, about, erred)[k] =
          [send[k] EXCEPT !.terminal = t, !.misled = m, !.erred = e, !.idle = i]
    BY DEF SendsEnded
  <1>2. send[k] \in SendState
    BY DEF CodexInv, CodexTypeOK
  <1>3. UnderWay(k) /\ send[k].on \in H /\ k \notin about => m
    <2>1. UnderWay(k) => handle[send[k].on].current = k
      BY UnderWayPending DEF CodexInv, TurnInv, Awaited, Waits
    <2>2. UnderWay(k) => send[k].job # "over" /\ send[k].server # "ended"
      BY DEF UnderWay
    <2>3. QED
      BY <2>1, <2>2
  <1>4. send[k].misled => m
    OBVIOUS
  <1>5. send[k].on \notin H => (t <=> send[k].terminal) /\ (i <=> send[k].idle)
    BY DEF Hears
  <1> HIDE DEF t, m, e, i
  <1>6. PICK n : n = SendsEnded(H, about, erred)[k]
    OBVIOUS
  <1>7. /\ n.on = send[k].on /\ n.job = send[k].job /\ n.ack = send[k].ack
        /\ n.run = send[k].run /\ n.server = send[k].server
        /\ n.aborted = send[k].aborted /\ n.interrupted = send[k].interrupted
        /\ n.terminal = t /\ n.misled = m /\ n.idle = i
    BY <1>1, <1>2, <1>6 DEF SendState
  <1>8. QED
    BY <1>3, <1>4, <1>5, <1>6, <1>7, Zenon DEF Marks

LEMMA EndedHandles ==
    ASSUME CodexTypeOK, NEW H, NEW h \in Handle
    PROVE  /\ HandlesEnded(H)[h].of = handle[h].of /\ HandlesEnded(H)[h].open = handle[h].open
           /\ HandlesEnded(H)[h].current = handle[h].current
           /\ HandlesEnded(H)[h].attached = handle[h].attached
           /\ h \notin H => HandlesEnded(H)[h] = handle[h]
  <1>1. handle[h] \in HandleState
    BY DEF CodexTypeOK
  <1>2. HandlesEnded(H)[h] = IF h \in H THEN Ended(h) ELSE handle[h]
    BY DEF HandlesEnded
  <1>3. QED
    BY <1>1, <1>2 DEF Ended, HandleState

(* Handles keep what a waiting runTurn relies on.                          *)
Kept(k, h) ==
    /\ handle'[h].of = handle[h].of /\ handle'[h].open = handle[h].open
    /\ handle[h].current = k => handle'[h].current = k

(* A send that an event is not about goes on.                              *)
LEMMA MarkedGoesOn ==
    ASSUME CodexInv, NEW k \in Send, NEW H \in SUBSET Handle, NEW about, k \notin about,
           Marks(k, send'[k], H, about),
           send[k].on \in Handle => Kept(k, send[k].on),
           send[k].on \in Handle \ H =>
               handle'[send[k].on].resolver = handle[send[k].on].resolver /\
               handle'[send[k].on].active = handle[send[k].on].active,
           registered' = registered, InTurn(k)', Linked(k)'
    PROVE  TurnInv(k)'
  <1>1. GoesOn(k) /\ (send'[k].aborted <=> send[k].aborted)
    BY DEF Marks, GoesOn
  <1>2. send[k].job # "none" => send[k].on \in Handle
    BY DEF CodexInv, TurnInv, Progress
  <1>3. Pending(k)' => Waits(k)'
    <2>1. Pending(k)' => Pending(k) /\ send[k].on \in Handle
      BY <1>1, <1>2 DEF Pending, GoesOn
    <2>2. Pending(k) => Waits(k)
      BY DEF CodexInv, TurnInv, Awaited
    <2>3. QED
      BY <1>1, <2>1, <2>2 DEF Waits, GoesOn, Kept
  <1>4. UnderWay(k)' => ~send'[k].terminal /\ ~send'[k].idle /\ Latched(k)'
    <2> SUFFICES ASSUME UnderWay(k)' PROVE ~send'[k].terminal /\ ~send'[k].idle /\ Latched(k)'
      OBVIOUS
    <2>1. UnderWay(k) /\ ~send'[k].misled /\ send[k].on \in Handle
      BY <1>1, <1>2 DEF UnderWay, GoesOn
    <2>2. send[k].on \notin H
      BY <2>1 DEF Marks
    <2>3. ~send[k].terminal /\ ~send[k].idle /\ Latched(k)
      BY <2>1 DEF CodexInv, TurnInv, Unheard
    <2>4. ~send'[k].terminal /\ ~send'[k].idle
      BY <2>2, <2>3 DEF Marks
    <2>5. Latched(k)'
      BY <1>1, <2>1, <2>2, <2>3 DEF Latched, GoesOn
    <2>6. QED
      BY <2>4, <2>5
  <1>5. send[k].job = "none" => ~send'[k].terminal /\ ~send'[k].idle
    BY Numbers DEF Marks, CodexInv, TurnInv, Progress
  <1>6. QED
    BY <1>1, <1>3, <1>4, <1>5, GoingOn

(* A send that the step leaves alone goes on as well.                      *)
LEMMA LeftAlone ==
    ASSUME CodexInv, NEW k \in Send, send'[k] = send[k],
           Pending(k) => Waits(k)', UnderWay(k) => Latched(k)', InTurn(k)', Linked(k)'
    PROVE  TurnInv(k)'
  <1>1. GoesOn(k)
    BY DEF GoesOn
  <1>2. /\ send[k].job = "none" => ~send'[k].terminal /\ ~send'[k].idle
        /\ send'[k].aborted /\ ~send[k].aborted => Interrupts(k)'
    BY DEF CodexInv, TurnInv, Progress
  <1>3. Pending(k)' => Waits(k)'
    BY DEF Pending
  <1>4. UnderWay(k)' => ~send'[k].terminal /\ ~send'[k].idle /\ Latched(k)'
    BY DEF UnderWay, CodexInv, TurnInv, Unheard
  <1>5. QED
    BY <1>1, <1>2, <1>3, <1>4, GoingOn

(* What the invariant says of a send that waits.                           *)
LEMMA WaitsNow ==
    ASSUME CodexInv, NEW k \in Send
    PROVE  /\ Pending(k) => Waits(k) /\ send[k].on \in Handle
           /\ UnderWay(k) => Latched(k) /\ Waits(k) /\ send[k].on \in Handle
           /\ InTurn(k) /\ Linked(k)
  <1>1. TurnInv(k)
    BY DEF CodexInv
  <1>2. Pending(k) => Waits(k) /\ send[k].on \in Handle
    BY <1>1 DEF TurnInv, Awaited, Progress, Pending
  <1>3. UnderWay(k) => Latched(k)
    BY <1>1 DEF TurnInv, Unheard
  <1>4. QED
    BY <1>1, <1>2, <1>3, UnderWayPending DEF TurnInv
----------------------------------------------------------------------------
(* Opening sessions and sending.                                           *)

LEMMA Generations ==
    ASSUME CodexInv
    PROVE  generation \in 0 .. MaxFaults + 1 /\ generation \in Nat /\ faults \in 0 .. MaxFaults
  BY Bounds DEF CodexInv, CodexTypeOK, Attached

LEMMA OpenSessionKeeps ==
    ASSUME CodexInv, NEW s \in Session, OpenSession(s)
    PROVE  CodexInv'
  <1>0. CodexTypeOK /\ Attached /\ Maps /\ Stopping
    BY DEF CodexInv
  <1>1. CASE link = "down" /\ link' = "connecting" /\ UNCHANGED <<registered, handle, known>>
    <2>1. UNCHANGED <<registered, handle, known, generation, send, turnQueue, stopping, faults>>
          /\ stopping = "no"
      BY <1>1 DEF OpenSession
    <2>2. CodexTypeOK'
      BY <1>0, <1>1, <2>1 DEF CodexTypeOK
    <2>3. Attached' /\ Maps' /\ Stopping'
      BY <1>0, <1>1, <2>1 DEF Attached, Maps, Stopping
    <2>4. ASSUME NEW k \in Send PROVE TurnInv(k)'
      BY <1>1, <2>1, WaitsNow, LeftAlone DEF Waits, Latched, InTurn, InQueue, Running, Linked
    <2>5. QED
      BY <2>2, <2>3, <2>4 DEF CodexInv
  <1>2. CASE link = "up" /\ UNCHANGED link
    <2>1. PICK h \in Handle :
             /\ handle[h].open = "no"
             /\ registered' = [registered EXCEPT ![s] = h]
             /\ handle' = [handle EXCEPT ![h].of = s, ![h].open = "yes", ![h].attached = generation]
             /\ known' = known \union {h}
      BY <1>2 DEF OpenSession
    <2>2. /\ UNCHANGED <<link, generation, send, turnQueue, stopping, faults>>
          /\ registered[s] # NoHandle => handle[registered[s]].open = "closing"
      BY <1>2 DEF OpenSession
    <2>3. generation \in 0 .. MaxFaults + 1 /\ generation \in Nat
      BY Generations
    <2>4. /\ handle'[h] = [handle[h] EXCEPT !.of = s, !.open = "yes", !.attached = generation]
          /\ \A g \in Handle : g # h => handle'[g] = handle[g]
          /\ handle' \in [Handle -> HandleState]
      BY <1>0, <2>1, <2>3 DEF CodexTypeOK, HandleState
    <2>5. /\ handle'[h].of = s /\ handle'[h].open = "yes" /\ handle'[h].attached = generation
          /\ handle'[h].current = handle[h].current
      BY <1>0, <2>4 DEF CodexTypeOK, HandleState
    <2>6. CodexTypeOK'
      BY <1>0, <2>1, <2>2, <2>4 DEF CodexTypeOK
    <2>7. Attached'
      <3>1. ASSUME NEW g \in Handle PROVE handle'[g].attached <= generation
        <4>1. CASE g = h
          BY <2>3, <2>5, <4>1
        <4>2. CASE g # h
          BY <1>0, <2>4, <4>2 DEF Attached
        <4>3. QED
          BY <4>1, <4>2
      <3>2. QED
        BY <1>0, <2>2, <3>1 DEF Attached
    <2>8. registered'[s] = h /\ \A t \in Session : t # s => registered'[t] = registered[t]
      BY <1>0, <2>1 DEF CodexTypeOK
    <2>9. Maps'
      <3>1. ASSUME NEW t \in Session, registered'[t] # NoHandle
            PROVE  handle'[registered'[t]].of = t /\ handle'[registered'[t]].open # "no"
        <4>1. CASE t = s
          BY <2>5, <2>8, <4>1
        <4>2. CASE t # s
          <5>1. registered[t] \in Handle /\ registered[t] # h
            BY <1>0, <2>1, <2>8, <3>1, <4>2 DEF CodexTypeOK, Maps
          <5>2. QED
            BY <1>0, <2>4, <2>8, <3>1, <4>2, <5>1 DEF Maps
        <4>3. QED
          BY <4>1, <4>2
      <3>2. ASSUME NEW g \in Handle, handle'[g].current # NoSend
            PROVE  send'[handle'[g].current].on = g
        <4>1. handle'[g].current = handle[g].current
          BY <2>4, <2>5
        <4>2. QED
          BY <1>0, <2>2, <3>2, <4>1 DEF Maps
      <3>3. QED
        BY <3>1, <3>2 DEF Maps
    <2>10. ASSUME NEW k \in Send PROVE TurnInv(k)'
      <3>1. Pending(k) => send[k].on # h /\ Waits(k)'
        <4>1. ASSUME Pending(k) PROVE send[k].on # h /\ Waits(k)'
          <5>1. Waits(k) /\ send[k].on \in Handle
            BY <4>1, WaitsNow
          <5>2. send[k].on # h /\ handle'[send[k].on] = handle[send[k].on]
            BY <2>1, <2>4, <5>1 DEF Waits
          <5>3. handle[send[k].on].of # s /\ handle[send[k].on].of \in Session
            BY <1>0, <2>2, <5>1, Numbers DEF Waits, CodexTypeOK, HandleState
          <5>4. QED
            BY <2>2, <2>8, <5>1, <5>2, <5>3 DEF Waits
        <4>2. QED
          BY <4>1
      <3>2. UnderWay(k) => Latched(k)'
        BY <2>2, <2>4, <3>1, WaitsNow, UnderWayPending DEF Latched
      <3>3. InTurn(k)' /\ Linked(k)'
        BY <2>2, WaitsNow DEF InTurn, InQueue, Running, Linked
      <3>4. QED
        BY <2>2, <3>1, <3>2, <3>3, LeftAlone
    <2>11. Stopping'
      BY <1>0, <2>2 DEF Stopping
    <2>12. QED
      BY <2>6, <2>7, <2>9, <2>10, <2>11 DEF CodexInv
  <1>3. QED
    BY <1>1, <1>2 DEF OpenSession

LEMMA InitializedKeeps ==
    ASSUME CodexInv, Initialized
    PROVE  CodexInv'
  <1>0. CodexTypeOK /\ Attached /\ Maps /\ Stopping
    BY DEF CodexInv
  <1>1. /\ link = "connecting" /\ link' = "up" /\ generation' = generation + 1
        /\ UNCHANGED <<known, registered, handle, send, turnQueue, stopping, faults>>
    BY DEF Initialized
  <1>2. stopping = "no"
    BY <1>0, <1>1 DEF Stopping
  <1>3. CodexTypeOK'
    BY <1>0, <1>1 DEF CodexTypeOK
  <1>4. Attached'
    <2>1. generation \in Nat /\ faults \in Nat
      BY Generations, Bounds
    <2>2. \A h \in Handle : handle[h].attached \in Nat
      BY <1>0, Bounds DEF CodexTypeOK, HandleState
    <2>3. QED
      BY <1>0, <1>1, <1>2, <2>1, <2>2 DEF Attached
  <1>5. Maps' /\ Stopping'
    BY <1>0, <1>1, <1>2 DEF Maps, Stopping
  <1>6. ASSUME NEW k \in Send PROVE TurnInv(k)'
    BY <1>1, WaitsNow, LeftAlone DEF Waits, Latched, InTurn, InQueue, Running, Linked
  <1>7. QED
    BY <1>3, <1>4, <1>5, <1>6 DEF CodexInv

LEMMA RunTurnKeeps ==
    ASSUME CodexInv, NEW s \in Session, RunTurn(s)
    PROVE  CodexInv'
  <1>0. CodexTypeOK /\ Attached /\ Maps /\ Stopping
    BY DEF CodexInv
  <1>1. PICK h : h = registered[s]
    OBVIOUS
  <1>2. /\ h \in Handle /\ handle[h].open = "yes" /\ stopping = "no" /\ handle[h].of = s
        /\ \A k \in Send : send[k].on = h => send[k].run # "running"
        /\ UNCHANGED <<link, generation, known, registered, stopping, faults>>
    BY <1>0, <1>1 DEF RunTurn, CodexTypeOK, Maps
  <1>3. PICK k \in Send :
           /\ send[k].job = "none"
           /\ send' = [send EXCEPT ![k].on = h, ![k].job = "queued", ![k].run = "running"]
           /\ handle' = [handle EXCEPT ![h].current = k]
           /\ turnQueue' = Append(turnQueue, k)
    BY <1>1 DEF RunTurn
  <1>4. /\ handle'[h] = [handle[h] EXCEPT !.current = k]
        /\ \A g \in Handle : g # h => handle'[g] = handle[g]
        /\ handle' \in [Handle -> HandleState]
    BY <1>0, <1>2, <1>3 DEF CodexTypeOK, HandleState
  <1>5. /\ handle'[h].current = k /\ handle'[h].open = "yes" /\ handle'[h].of = s
        /\ handle'[h].attached = handle[h].attached /\ handle'[h].resolver = handle[h].resolver
        /\ handle'[h].active = handle[h].active
    BY <1>0, <1>2, <1>4 DEF CodexTypeOK, HandleState
  <1>6. /\ send'[k] = [send[k] EXCEPT !.on = h, !.job = "queued", !.run = "running"]
        /\ \A j \in Send : j # k => send'[j] = send[j]
        /\ send' \in [Send -> SendState]
    <2>1. [send[k] EXCEPT !.on = h, !.job = "queued", !.run = "running"] \in SendState
      <3>1. PICK n \in SendState : n = send[k]
        BY <1>0 DEF CodexTypeOK
      <3>2. [n EXCEPT !.on = h, !.job = "queued", !.run = "running"] \in SendState
        BY <1>2 DEF SendState
      <3>3. QED
        BY <3>1, <3>2
    <2>2. send' = [send EXCEPT ![k] = [send[k] EXCEPT !.on = h, !.job = "queued", !.run = "running"]]
      BY <1>0, <1>3 DEF CodexTypeOK
    <2>3. QED
      BY <1>0, <2>1, <2>2 DEF CodexTypeOK
  <1>7. /\ send'[k].on = h /\ send'[k].job = "queued" /\ send'[k].run = "running"
        /\ send'[k].ack = send[k].ack /\ send'[k].server = send[k].server
        /\ send'[k].terminal = send[k].terminal /\ send'[k].idle = send[k].idle
    BY <1>0, <1>6 DEF CodexTypeOK, SendState
  <1>8. /\ turnQueue' \in Seq(Send) /\ InQueue(k)'
        /\ \A j \in Send : (Running(j) => Running(j)') /\ (InQueue(j) => InQueue(j)')
    BY <1>0, <1>3, AppendKeeps
  <1>9. CodexTypeOK'
    BY <1>0, <1>2, <1>4, <1>6, <1>8 DEF CodexTypeOK
  <1>10. Attached'
    BY <1>0, <1>2, <1>4, <1>5 DEF Attached
  <1>11. Progress(k)
    BY DEF CodexInv, TurnInv
  <1>12. Maps'
    <2>1. ASSUME NEW t \in Session, registered'[t] # NoHandle
          PROVE  handle'[registered'[t]].of = t /\ handle'[registered'[t]].open # "no"
      <3>1. registered[t] \in Handle
        BY <1>0, <1>2, <2>1 DEF CodexTypeOK
      <3>2. handle[registered[t]].of = t /\ handle[registered[t]].open # "no"
        BY <1>0, <1>2, <2>1 DEF Maps
      <3>3. CASE registered[t] = h
        BY <1>2, <1>5, <3>2, <3>3
      <3>4. CASE registered[t] # h
        BY <1>2, <1>4, <3>1, <3>2, <3>4
      <3>5. QED
        BY <3>3, <3>4
    <2>2. ASSUME NEW g \in Handle, handle'[g].current # NoSend
          PROVE  send'[handle'[g].current].on = g
      <3>1. CASE g = h
        BY <1>5, <1>7, <3>1
      <3>2. CASE g # h
        <4>1. handle'[g] = handle[g] /\ handle[g].current \in Send
          BY <1>0, <1>4, <2>2, <3>2 DEF CodexTypeOK, HandleState
        <4>2. handle[g].current # k
          BY <1>0, <1>3, <1>11, <2>2, <4>1, Numbers DEF Maps, Progress
        <4>3. QED
          BY <1>0, <1>6, <2>2, <4>1, <4>2 DEF Maps
      <3>3. QED
        BY <3>1, <3>2
    <2>3. QED
      BY <2>1, <2>2 DEF Maps
  <1>13. Stopping'
    BY <1>0, <1>2 DEF Stopping
  <1>14. TurnInv(k)'
    <2>1. Progress(k)' /\ InTurn(k)' /\ Linked(k)'
      BY <1>2, <1>3, <1>7, <1>8, <1>11 DEF Progress, InTurn, Linked
    <2>2. Awaited(k)'
      BY <1>1, <1>2, <1>3, <1>5, <1>7, <1>11 DEF Awaited, Waits, Progress
    <2>3. Unheard(k)'
      BY <1>3, <1>7, <1>11 DEF Unheard, Latched, Progress
    <2>4. Acknowledged(k)' /\ Held(k)' /\ Interrupts(k)' /\ Concluded(k)'
      BY <1>3, <1>7, <1>11 DEF Acknowledged, Held, Interrupts, Concluded, Progress
    <2>5. QED
      BY <2>1, <2>2, <2>3, <2>4 DEF TurnInv
  <1>15. ASSUME NEW j \in Send, j # k PROVE TurnInv(j)'
    <2>1. Pending(j) => Waits(j)'
      <3>1. ASSUME Pending(j) PROVE Waits(j)'
        <4>1. Waits(j) /\ send[j].on \in Handle
          BY <3>1, WaitsNow
        <4>2. send[j].on # h
          BY <1>2, <4>1 DEF Waits
        <4>3. QED
          BY <1>2, <1>4, <1>6, <1>15, <4>1, <4>2 DEF Waits
      <3>2. QED
        BY <3>1
    <2>2. UnderWay(j) => Latched(j)'
      <3>1. \A g \in Handle : handle'[g].resolver = handle[g].resolver /\ handle'[g].active = handle[g].active
        BY <1>4, <1>5
      <3>2. QED
        BY <1>6, <1>15, <3>1, WaitsNow DEF Latched
    <2>3. InTurn(j)' /\ Linked(j)'
      BY <1>2, <1>6, <1>8, <1>15, WaitsNow DEF InTurn, Linked
    <2>4. QED
      BY <1>6, <1>15, <2>1, <2>2, <2>3, LeftAlone
  <1>16. QED
    BY <1>9, <1>10, <1>12, <1>13, <1>14, <1>15 DEF CodexInv
----------------------------------------------------------------------------
(* runTurn returns, times out or aborts.                                   *)

LEMMA OneSend ==
    ASSUME CodexTypeOK, NEW k \in Send, NEW m \in SendState, send' = [send EXCEPT ![k] = m]
    PROVE  /\ send'[k] = m /\ \A j \in Send : j # k => send'[j] = send[j]
           /\ send' \in [Send -> SendState]
  BY DEF CodexTypeOK

LEMMA RunTurnReturnsKeeps ==
    ASSUME CodexInv, NEW k \in Send, RunTurnReturns(k)
    PROVE  CodexInv'
  <1>0. CodexTypeOK /\ Attached /\ Maps /\ Stopping /\ TurnInv(k)
    BY DEF CodexInv
  <1>1. PICK r \in {"completed", "error"} :
           /\ send' = [send EXCEPT ![k] = Returned(send[k], r)]
           /\ send[k].ack = "rejected" \/ (send[k].ack = "resolved" /\ send[k].idle)
           /\ r = "completed" => send[k].ack = "resolved"
    BY <1>0 DEF RunTurnReturns, CodexTypeOK
  <1>2. /\ UNCHANGED <<link, generation, known, registered, handle, turnQueue, stopping, faults>>
        /\ send[k].run = "running"
    BY DEF RunTurnReturns
  <1>3. /\ send'[k] = Returned(send[k], r) /\ \A j \in Send : j # k => send'[j] = send[j]
        /\ send' \in [Send -> SendState]
    <2>1. send[k] \in SendState
      BY <1>0 DEF CodexTypeOK
    <2>2. QED
      BY <1>0, <1>1, <2>1, OneSend, ReturnedTypes
  <1>4. /\ send'[k].on = send[k].on /\ send'[k].job = send[k].job /\ send'[k].ack = send[k].ack
        /\ send'[k].server = send[k].server /\ send'[k].run = r
        /\ send'[k].aborted = send[k].aborted /\ send'[k].misled = send[k].misled
        /\ send'[k].interrupted = send[k].interrupted
    BY <1>0, <1>3 DEF Returned, CodexTypeOK, SendState
  <1>5. CodexTypeOK' /\ Attached'
    BY <1>0, <1>2, <1>3 DEF CodexTypeOK, Attached
  <1>6. Maps' /\ Stopping'
    <2>1. \A j \in Send : send'[j].on = send[j].on /\ send'[j].job = send[j].job
                          /\ (send[j].aborted => send'[j].aborted)
      BY <1>3, <1>4
    <2>2. \A h \in Handle : handle[h].current # NoSend => handle[h].current \in Send
      BY <1>0 DEF CodexTypeOK, HandleState
    <2>3. QED
      BY <1>0, <1>2, <2>1, <2>2 DEF Maps, Stopping
  <1>7. ~Pending(k)
    <2> SUFFICES ASSUME Pending(k) PROVE FALSE
      OBVIOUS
    <2>1. Waits(k)
      BY WaitsNow
    <2>2. send[k].ack = "resolved" /\ send[k].idle
      BY <1>1, <2>1 DEF Waits
    <2>3. send[k].job = "hold"
      BY <1>0, <2>2 DEF TurnInv, Progress, Pending
    <2>4. UnderWay(k)
      BY <2>3 DEF Pending, UnderWay
    <2>5. QED
      BY <1>0, <2>2, <2>4 DEF TurnInv, Unheard
  <1>8. TurnInv(k)'
    <2>1. Progress(k)' /\ InTurn(k)' /\ Linked(k)'
      BY <1>0, <1>2, <1>4 DEF TurnInv, Progress, InTurn, InQueue, Running, Linked
    <2>2. ~Pending(k)'
      BY <1>4, <1>7 DEF Pending
    <2>3. ~UnderWay(k)'
      BY <1>4, <1>7, UnderWayPending DEF UnderWay, Pending
    <2>4. Acknowledged(k)' /\ Held(k)' /\ Interrupts(k)'
      BY <1>0, <1>4 DEF TurnInv, Acknowledged, Held, Interrupts
    <2>5. Concluded(k)'
      <3>1. ASSUME r = "completed", ~send[k].misled, ~send[k].aborted PROVE send[k].server = "ended"
        <4>1. send[k].job \in {"hold", "over"} /\ send[k].ack = "resolved"
          BY <1>0, <1>1, <3>1 DEF TurnInv, Progress
        <4>2. QED
          BY <1>0, <1>7, <3>1, <4>1 DEF TurnInv, Acknowledged, Pending
      <3>2. QED
        BY <1>4, <3>1 DEF Concluded
    <2>6. QED
      BY <2>1, <2>2, <2>3, <2>4, <2>5 DEF TurnInv, Awaited, Unheard
  <1>9. ASSUME NEW j \in Send, j # k PROVE TurnInv(j)'
    <2>1. send'[j] = send[j]
      BY <1>3, <1>9
    <2>2. QED
      BY <1>2, <2>1, WaitsNow, LeftAlone DEF Waits, Latched, InTurn, InQueue, Running, Linked
  <1>10. QED
    BY <1>5, <1>6, <1>8, <1>9 DEF CodexInv

(* What an abort of handle h makes of a send: when it aborts a turn that   *)
(* runs, it interrupts that turn.                                          *)
Aborts(j, m, h) ==
    /\ m.on = send[j].on /\ m.job = send[j].job /\ m.ack = send[j].ack /\ m.run = send[j].run
    /\ m.server = send[j].server /\ (m.misled <=> send[j].misled)
    /\ (m.terminal <=> send[j].terminal) /\ (m.idle <=> send[j].idle)
    /\ send[j].aborted \/ j = handle[h].current <=> m.aborted
    /\ send[j].interrupted => m.interrupted
    /\ /\ m.aborted /\ ~send[j].aborted /\ ~send[j].misled
       /\ send[j].job = "hold" /\ send[j].server = "live"
       => m.interrupted

LEMMA Aborting ==
    ASSUME CodexInv, NEW h \in Handle, NEW j \in Send
    PROVE  Aborts(j, Aborted(h)[j], h)
  <1> DEFINE a == send[j].aborted \/ j = handle[h].current
             i == send[j].interrupted \/ j = Interruptible(h)
  <1>1. Aborted(h)[j] = [send[j] EXCEPT !.aborted = a, !.interrupted = i]
    BY DEF Aborted
  <1>2. send[j] \in SendState /\ TurnInv(j) /\ Maps
    BY DEF CodexInv, CodexTypeOK
  <1>3. ASSUME a, ~send[j].aborted, ~send[j].misled, send[j].job = "hold", send[j].server = "live"
        PROVE  i
    <2>1. UnderWay(j) /\ j = handle[h].current /\ j # NoSend
      BY <1>3, Numbers DEF UnderWay
    <2>2. send[j].on = h
      BY <1>2, <2>1 DEF Maps
    <2>3. handle[h].active = j /\ ~send[j].terminal /\ link # "down"
      BY <1>2, <1>3, <2>1, <2>2 DEF TurnInv, Unheard, Latched, Linked
    <2>4. Interruptible(h) = j
      BY <2>1, <2>3 DEF Interruptible
    <2>5. QED
      BY <2>4
  <1>4. send[j].interrupted => i
    OBVIOUS
  <1>5. a <=> send[j].aborted \/ j = handle[h].current
    OBVIOUS
  <1> HIDE DEF a, i
  <1>6. PICK n : n = Aborted(h)[j]
    OBVIOUS
  <1>7. /\ n.on = send[j].on /\ n.job = send[j].job /\ n.ack = send[j].ack /\ n.run = send[j].run
        /\ n.server = send[j].server /\ n.misled = send[j].misled
        /\ n.terminal = send[j].terminal /\ n.idle = send[j].idle
        /\ n.aborted = a /\ n.interrupted = i
    BY <1>1, <1>2, <1>6 DEF SendState
  <1>8. QED
    BY <1>3, <1>4, <1>5, <1>6, <1>7, Zenon DEF Aborts

LEMMA AbortedGoesOn ==
    ASSUME CodexInv, NEW h \in Handle, NEW j \in Send, Aborts(j, send'[j], h),
           UNCHANGED <<link, registered, handle, turnQueue>>
    PROVE  TurnInv(j)'
  <1>1. GoesOn(j)
    BY DEF Aborts, GoesOn
  <1>2. send[j].job = "none" => ~send'[j].terminal /\ ~send'[j].idle
    BY DEF Aborts, CodexInv, TurnInv, Progress
  <1>3. send'[j].aborted /\ ~send[j].aborted => Interrupts(j)'
    BY DEF Aborts, Interrupts
  <1>4. Pending(j)' => Waits(j)'
    <2>1. Pending(j)' => Pending(j)
      BY DEF Aborts, Pending
    <2>2. Waits(j) => Waits(j)'
      BY DEF Aborts, Waits
    <2>3. QED
      BY <2>1, <2>2, WaitsNow
  <1>5. UnderWay(j)' => ~send'[j].terminal /\ ~send'[j].idle /\ Latched(j)'
    <2>1. UnderWay(j)' => UnderWay(j)
      BY DEF Aborts, UnderWay
    <2>2. UnderWay(j) => ~send[j].terminal /\ ~send[j].idle /\ Latched(j)
      BY DEF CodexInv, TurnInv, Unheard
    <2>3. Latched(j) => Latched(j)'
      BY DEF Aborts, Latched
    <2>4. QED
      BY <2>1, <2>2, <2>3 DEF Aborts
  <1>6. InTurn(j)' /\ Linked(j)'
    BY WaitsNow DEF Aborts, InTurn, InQueue, Running, Linked
  <1>7. QED
    BY <1>1, <1>2, <1>3, <1>4, <1>5, <1>6, GoingOn

(* The maps follow handles that keep their session and sends that keep     *)
(* their handle.                                                           *)
LEMMA MapsKept ==
    ASSUME CodexInv, registered' = registered,
           \A h \in Handle : /\ handle'[h].of = handle[h].of
                             /\ handle[h].open # "no" => handle'[h].open # "no"
                             /\ handle'[h].current \in {handle[h].current, NoSend},
           \A j \in Send : send'[j].on = send[j].on
    PROVE  Maps'
  <1>1. CodexTypeOK /\ Maps
    BY DEF CodexInv
  <1>2. ASSUME NEW s \in Session, registered'[s] # NoHandle
        PROVE  handle'[registered'[s]].of = s /\ handle'[registered'[s]].open # "no"
    <2>1. registered[s] \in Handle
      BY <1>1, <1>2 DEF CodexTypeOK
    <2>2. QED
      BY <1>1, <1>2, <2>1 DEF Maps
  <1>3. ASSUME NEW h \in Handle, handle'[h].current # NoSend
        PROVE  send'[handle'[h].current].on = h
    <2>1. handle'[h].current = handle[h].current /\ handle[h].current \in Send
      BY <1>1, <1>3 DEF CodexTypeOK, HandleState
    <2>2. QED
      BY <1>1, <1>3, <2>1 DEF Maps
  <1>4. QED
    BY <1>2, <1>3 DEF Maps

(* Sends that keep their handle and their progress.                        *)
LEMMA MapsStay ==
    ASSUME CodexInv, UNCHANGED <<registered, link, stopping>>,
           \A h \in Handle : /\ handle'[h].of = handle[h].of
                             /\ handle[h].open # "no" => handle'[h].open # "no"
                             /\ handle'[h].current \in {handle[h].current, NoSend},
           \A j \in Send : /\ send'[j].on = send[j].on
                           /\ send'[j].job = "queued" => send[j].job = "queued"
                           /\ send[j].aborted => send'[j].aborted
    PROVE  Maps' /\ Stopping'
  <1>1. Maps'
    BY MapsKept
  <1>2. Stopping'
    BY DEF CodexInv, Stopping
  <1>3. QED
    BY <1>1, <1>2

LEMMA RunTurnTimesOutKeeps ==
    ASSUME CodexInv, NEW k \in Send, RunTurnTimesOut(k)
    PROVE  CodexInv'
  <1>0. CodexTypeOK /\ Attached /\ Maps /\ Stopping /\ TurnInv(k)
    BY DEF CodexInv
  <1>1. /\ UNCHANGED <<link, generation, known, registered, handle, turnQueue, stopping>>
        /\ send[k].run = "running" /\ faults < MaxFaults /\ faults' = faults + 1
        /\ send' = [Aborted(send[k].on) EXCEPT ![k] = Returned(@, "error")]
    BY DEF RunTurnTimesOut, Fault
  <1>2. PICK h \in Handle : h = send[k].on
    BY <1>0, <1>1 DEF TurnInv, Progress
  <1>3. Aborted(h) \in [Send -> SendState]
    BY <1>0, AbortedTypes
  <1>4. /\ send'[k] = Returned(Aborted(h)[k], "error")
        /\ \A j \in Send : j # k => send'[j] = Aborted(h)[j]
        /\ send' \in [Send -> SendState]
    <2>1. Returned(Aborted(h)[k], "error") \in SendState
      BY <1>3, ReturnedTypes
    <2>2. QED
      BY <1>1, <1>2, <1>3, <2>1
  <1>5. \A j \in Send : Aborts(j, Aborted(h)[j], h)
    BY Aborting
  <1>6. PICK m \in SendState : m = Aborted(h)[k]
    BY <1>3
  <1>7. /\ send'[k].on = m.on /\ send'[k].job = m.job /\ send'[k].ack = m.ack
        /\ send'[k].server = m.server /\ send'[k].run = "error"
        /\ send'[k].aborted = m.aborted /\ send'[k].misled = m.misled
        /\ send'[k].interrupted = m.interrupted
    BY <1>4, <1>6 DEF Returned, SendState
  <1>8. Aborts(k, m, h)
    BY <1>5, <1>6
  <1>9. CodexTypeOK' /\ Attached'
    <2>1. faults' \in 0 .. MaxFaults /\ faults \in Nat /\ generation \in Nat
      BY <1>1, Generations, Bounds
    <2>2. QED
      BY <1>0, <1>1, <1>4, <2>1 DEF CodexTypeOK, Attached
  <1>10. Maps' /\ Stopping'
    <2>1. ASSUME NEW j \in Send
          PROVE  /\ send'[j].on = send[j].on /\ send'[j].job = send[j].job
                 /\ send[j].aborted => send'[j].aborted
      BY <1>4, <1>5, <1>7, <1>8 DEF Aborts
    <2>2. QED
      BY <1>1, <2>1, MapsStay
  <1>11. TurnInv(k)'
    <2>1. ~Pending(k)'
      <3>1. Pending(k) => send'[k].aborted
        BY <1>2, <1>7, <1>8, WaitsNow DEF Waits, Aborts
      <3>2. Pending(k)' => Pending(k)
        BY <1>7, <1>8 DEF Pending, Aborts
      <3>3. QED
        BY <3>1, <3>2 DEF Pending
    <2>2. ~UnderWay(k)'
      BY <2>1 DEF UnderWay, Pending
    <2>3. Progress(k)' /\ InTurn(k)' /\ Linked(k)'
      BY <1>0, <1>1, <1>7, <1>8 DEF TurnInv, Progress, InTurn, InQueue, Running, Linked, Aborts
    <2>4. Acknowledged(k)' /\ Held(k)' /\ Interrupts(k)' /\ Concluded(k)'
      BY <1>0, <1>7, <1>8 DEF TurnInv, Acknowledged, Held, Interrupts, Concluded, Aborts
    <2>5. QED
      BY <2>1, <2>2, <2>3, <2>4 DEF TurnInv, Awaited, Unheard
  <1>12. ASSUME NEW j \in Send, j # k PROVE TurnInv(j)'
    <2>1. Aborts(j, send'[j], h)
      BY <1>4, <1>5, <1>12
    <2>2. QED
      BY <1>1, <2>1, AbortedGoesOn
  <1>13. QED
    BY <1>9, <1>10, <1>11, <1>12 DEF CodexInv

LEMMA AbortTurnKeeps ==
    ASSUME CodexInv, NEW h \in Handle, AbortTurn(h)
    PROVE  CodexInv'
  <1>0. CodexTypeOK /\ Attached
    BY DEF CodexInv
  <1>1. /\ UNCHANGED <<link, generation, known, registered, handle, turnQueue, stopping>>
        /\ send' = Aborted(h) /\ faults < MaxFaults /\ faults' = faults + 1
    BY DEF AbortTurn, Fault
  <1>2. \A j \in Send : Aborts(j, send'[j], h)
    BY <1>1, Aborting
  <1>3. CodexTypeOK' /\ Attached'
    <2>1. faults' \in 0 .. MaxFaults /\ faults \in Nat /\ generation \in Nat
      BY <1>1, Generations, Bounds
    <2>2. QED
      BY <1>0, <1>1, <2>1, AbortedTypes DEF CodexTypeOK, Attached
  <1>4. Maps' /\ Stopping'
    BY <1>1, <1>2, MapsStay DEF Aborts
  <1>5. \A j \in Send : TurnInv(j)'
    BY <1>1, <1>2, AbortedGoesOn
  <1>6. QED
    BY <1>3, <1>4, <1>5 DEF CodexInv
----------------------------------------------------------------------------
(* The job of a send.                                                      *)

(* A handle that forgets its send changes nothing else.                    *)
LEMMA Forgetting ==
    ASSUME NEW hs \in [Handle -> HandleState], NEW h \in Handle, NEW k \in Send, NEW g \in Handle
    PROVE  LET n == Forgets(hs, h, k)[g] IN
           /\ n.of = hs[g].of /\ n.open = hs[g].open /\ n.attached = hs[g].attached
           /\ n.active = hs[g].active /\ n.resolver = hs[g].resolver
           /\ n.current \in {hs[g].current, NoSend}
           /\ hs[g].current # k => n.current = hs[g].current
  <1>1. hs[g] \in HandleState
    OBVIOUS
  <1>2. Forgets(hs, h, k)[g] =
          IF g = h THEN [hs[g] EXCEPT !.current = IF hs[g].current = k THEN NoSend ELSE hs[g].current]
          ELSE hs[g]
    BY DEF Forgets
  <1>3. CASE g = h
    <2>1. PICK c : c = IF hs[g].current = k THEN NoSend ELSE hs[g].current
      OBVIOUS
    <2>2. Forgets(hs, h, k)[g] = [hs[g] EXCEPT !.current = c]
      BY <1>2, <1>3, <2>1
    <2>3. QED
      BY <1>1, <2>1, <2>2 DEF HandleState
  <1>4. CASE g # h
    BY <1>2, <1>4
  <1>5. QED
    BY <1>3, <1>4

(* The first job returns; the others are where they were.                  *)
LEMMA Popped ==
    ASSUME CodexInv, NEW k \in Send, Running(k), turnQueue' = Tail(turnQueue),
           NEW j \in Send, j # k, send'[j].job = send[j].job
    PROVE  InTurn(j)'
  <1>1. CodexTypeOK /\ InTurn(j)
    BY DEF CodexInv, TurnInv
  <1>2. ~Running(j) /\ (InQueue(j) => InQueue(j)')
    BY <1>1, TailKeeps
  <1>3. QED
    BY <1>1, <1>2 DEF InTurn

(* A job that returns after an abort leaves nothing to keep.               *)
LEMMA ReturnedAborted ==
    ASSUME CodexInv, NEW k \in Send, send[k].server = "none", send'[k].server = "none",
           send[k].on \in Handle,
           send'[k].on = send[k].on, send'[k].job = "over", send'[k].ack # "pending",
           send'[k].run = send[k].run, send'[k].aborted
    PROVE  TurnInv(k)'
  <1>1. Progress(k)' /\ InTurn(k)' /\ Linked(k)'
    BY DEF Progress, InTurn, Linked
  <1>2. ~Pending(k)' /\ ~UnderWay(k)'
    BY DEF Pending, UnderWay
  <1>3. Acknowledged(k)' /\ Held(k)' /\ Interrupts(k)' /\ Concluded(k)'
    BY DEF Acknowledged, Held, Interrupts, Concluded
  <1>4. QED
    BY <1>1, <1>2, <1>3 DEF TurnInv, Awaited, Unheard

LEMMA Settling ==
    ASSUME NEW state \in SendState, NEW ack \in {"resolved", "rejected"}
    PROVE  LET n == Over(state, ack) IN
           /\ n.on = state.on /\ n.job = "over" /\ n.server = state.server
           /\ n.ack = (IF state.ack = "pending" THEN ack ELSE state.ack)
           /\ n.run = state.run /\ n.aborted = state.aborted /\ n.misled = state.misled
           /\ n.interrupted = state.interrupted /\ n.terminal = state.terminal
           /\ n.idle = state.idle
  BY DEF Over, Settled, SendState

LEMMA SkipTurnKeeps ==
    ASSUME CodexInv, NEW k \in Send, SkipTurn(k)
    PROVE  CodexInv'
  <1>0. CodexTypeOK /\ Attached /\ TurnInv(k)
    BY DEF CodexInv
  <1>1. /\ Running(k) /\ send[k].job = "queued" /\ send[k].aborted
        /\ turnQueue' = Tail(turnQueue)
        /\ UNCHANGED <<link, generation, known, registered, stopping, faults>>
    BY DEF SkipTurn
  <1>2. PICK h \in Handle : h = send[k].on
    BY <1>0, <1>1 DEF TurnInv, Progress
  <1>3. turnQueue' \in Seq(Send)
    BY <1>0, <1>1, HeadIsFirst
  <1>4. CASE /\ send' = [send EXCEPT ![k] = Over(@, "resolved")]
             /\ handle' = Forgets(handle, h, k)
    <2>1. send[k] \in SendState /\ handle \in [Handle -> HandleState] /\ send \in [Send -> SendState]
      BY <1>0 DEF CodexTypeOK
    <2>2. send'[k] = Over(send[k], "resolved") /\ \A j \in Send : j # k => send'[j] = send[j]
      BY <1>4, <2>1
    <2>3. send' \in [Send -> SendState] /\ handle' \in [Handle -> HandleState]
      BY <1>2, <1>4, <2>1, SettledTypes, ForgetsTypes
    <2>4. \A g \in Handle :
             /\ handle'[g].of = handle[g].of /\ handle'[g].open = handle[g].open
             /\ handle'[g].attached = handle[g].attached
             /\ handle'[g].active = handle[g].active /\ handle'[g].resolver = handle[g].resolver
             /\ handle'[g].current \in {handle[g].current, NoSend}
             /\ handle[g].current # k => handle'[g].current = handle[g].current
      BY <1>2, <1>4, <2>1, Forgetting
    <2>5. /\ send'[k].on = send[k].on /\ send'[k].job = "over" /\ send'[k].ack # "pending"
          /\ send'[k].run = send[k].run /\ send'[k].aborted /\ send'[k].server = send[k].server
      BY <1>1, <2>1, <2>2, Settling
    <2>6. CodexTypeOK' /\ Attached'
      BY <1>0, <1>1, <1>3, <2>3, <2>4 DEF CodexTypeOK, Attached
    <2>7. Maps' /\ Stopping'
      BY <1>1, <2>2, <2>4, <2>5, MapsStay
    <2>8. TurnInv(k)'
      BY <1>0, <1>1, <1>2, <2>5, ReturnedAborted DEF TurnInv, Progress
    <2>9. ASSUME NEW j \in Send, j # k PROVE TurnInv(j)'
      <3>1. send'[j] = send[j]
        BY <2>2, <2>9
      <3>2. Pending(j) => Waits(j)'
        BY <1>1, <2>4, <2>9, <3>1, WaitsNow DEF Waits
      <3>3. UnderWay(j) => Latched(j)'
        BY <2>4, <3>1, WaitsNow DEF Latched
      <3>4. InTurn(j)' /\ Linked(j)'
        BY <1>1, <2>9, <3>1, Popped, WaitsNow DEF Linked
      <3>5. QED
        BY <3>1, <3>2, <3>3, <3>4, LeftAlone
    <2>10. QED
      BY <2>6, <2>7, <2>8, <2>9 DEF CodexInv
  <1>5. CASE /\ send' = [[j \in Send |-> [SendsEnded({h}, {k}, FALSE)[j] EXCEPT
                                            !.idle = @ \/ Hears(j, {h})]]
                           EXCEPT ![k] = Over(@, "resolved")]
             /\ handle' = Forgets(HandlesEnded({h}), h, k)
    <2>1. /\ HandlesEnded({h}) \in [Handle -> HandleState]
          /\ SendsEnded({h}, {k}, FALSE) \in [Send -> SendState]
      BY <1>0, MarksTypes
    <2> DEFINE heard(j) == [SendsEnded({h}, {k}, FALSE)[j] EXCEPT !.idle = @ \/ Hears(j, {h})]
    <2>2. ASSUME NEW j \in Send
          PROVE  heard(j) \in SendState /\ Marks(j, heard(j), {h}, {k})
      <3>1. PICK n \in SendState : n = SendsEnded({h}, {k}, FALSE)[j]
        BY <2>1
      <3>2. Marks(j, n, {h}, {k})
        BY <3>1, Marking
      <3>3. PICK i \in BOOLEAN : i <=> (n.idle \/ Hears(j, {h}))
        OBVIOUS
      <3>4. heard(j) = [n EXCEPT !.idle = i]
        <4>1. i = (n.idle \/ Hears(j, {h}))
          BY <3>3
        <4>2. QED
          BY <3>1, <4>1
      <3>5. PICK m : m = heard(j)
        OBVIOUS
      <3>6. /\ m \in SendState /\ m.on = n.on /\ m.job = n.job /\ m.ack = n.ack /\ m.run = n.run
            /\ m.server = n.server /\ m.aborted = n.aborted /\ m.interrupted = n.interrupted
            /\ m.misled = n.misled /\ m.terminal = n.terminal /\ m.idle = i
        BY <3>1, <3>4, <3>5 DEF SendState
      <3>7. send[j].on \notin {h} => (i <=> n.idle)
        BY <3>3 DEF Hears
      <3>8. Marks(j, m, {h}, {k})
        BY <3>2, <3>6, <3>7, Zenon DEF Marks
      <3>9. QED
        BY <3>5, <3>6, <3>8
    <2>3. send'[k] = Over(heard(k), "resolved") /\ \A j \in Send : j # k => send'[j] = heard(j)
      BY <1>5
    <2>4. send' \in [Send -> SendState]
      <3>1. Over(heard(k), "resolved") \in SendState
        BY <2>2, SettledTypes
      <3>2. send' = [j \in Send |-> IF j = k THEN Over(heard(k), "resolved") ELSE heard(j)]
        BY <1>5
      <3>3. QED
        BY <2>2, <3>1, <3>2
    <2> HIDE DEF heard
    <2>5. handle' \in [Handle -> HandleState]
      BY <1>5, <2>1, ForgetsTypes
    <2>6. ASSUME NEW g \in Handle
          PROVE  /\ handle'[g].of = handle[g].of /\ handle'[g].open = handle[g].open
                 /\ handle'[g].attached = handle[g].attached
                 /\ handle'[g].current \in {handle[g].current, NoSend}
                 /\ handle[g].current # k => handle'[g].current = handle[g].current
                 /\ g # h => /\ handle'[g].active = handle[g].active
                             /\ handle'[g].resolver = handle[g].resolver
      <3>1. PICK hs \in [Handle -> HandleState] : hs = HandlesEnded({h})
        BY <2>1
      <3>2. /\ hs[g].of = handle[g].of /\ hs[g].open = handle[g].open
            /\ hs[g].current = handle[g].current /\ hs[g].attached = handle[g].attached
            /\ g # h => hs[g] = handle[g]
        BY <1>0, <3>1, EndedHandles
      <3>3. handle' = Forgets(hs, h, k)
        BY <1>5, <3>1
      <3>4. /\ handle'[g].of = hs[g].of /\ handle'[g].open = hs[g].open
            /\ handle'[g].attached = hs[g].attached
            /\ handle'[g].active = hs[g].active /\ handle'[g].resolver = hs[g].resolver
            /\ handle'[g].current \in {hs[g].current, NoSend}
            /\ hs[g].current # k => handle'[g].current = hs[g].current
        BY <3>3, Forgetting
      <3>5. QED
        BY <3>2, <3>4
    <2>7. /\ send'[k].on = send[k].on /\ send'[k].job = "over" /\ send'[k].ack # "pending"
          /\ send'[k].run = send[k].run /\ send'[k].aborted /\ send'[k].server = send[k].server
      <3>1. PICK n \in SendState : n = heard(k) /\ Marks(k, n, {h}, {k})
        BY <2>2
      <3>2. send'[k] = Over(n, "resolved")
        BY <2>3, <3>1
      <3>3. QED
        BY <1>1, <3>1, <3>2, Settling DEF Marks
    <2>8. CodexTypeOK' /\ Attached'
      BY <1>0, <1>1, <1>3, <2>4, <2>5, <2>6 DEF CodexTypeOK, Attached
    <2>9. \A j \in Send : j # k => Marks(j, send'[j], {h}, {k})
      BY <2>2, <2>3
    <2>10. Maps' /\ Stopping'
      <3>1. \A j \in Send : /\ send'[j].on = send[j].on
                            /\ send'[j].job = "queued" => send[j].job = "queued"
                            /\ send[j].aborted => send'[j].aborted
        BY <2>7, <2>9 DEF Marks
      <3>2. QED
        BY <1>1, <2>6, <3>1, MapsStay
    <2>11. TurnInv(k)'
      BY <1>0, <1>1, <1>2, <2>7, ReturnedAborted DEF TurnInv, Progress
    <2>12. ASSUME NEW j \in Send, j # k PROVE TurnInv(j)'
      <3>1. Marks(j, send'[j], {h}, {k}) /\ j \notin {k}
        BY <2>9, <2>12
      <3>2. InTurn(j)' /\ Linked(j)'
        BY <1>1, <2>12, <3>1, Popped, WaitsNow DEF Linked, Marks
      <3>3. send[j].on \in Handle => Kept(j, send[j].on)
        BY <2>6, <2>12 DEF Kept
      <3>4. send[j].on \in Handle \ {h} =>
               handle'[send[j].on].resolver = handle[send[j].on].resolver /\
               handle'[send[j].on].active = handle[send[j].on].active
        BY <2>6
      <3>5. QED
        BY <1>1, <1>2, <3>1, <3>2, <3>3, <3>4, MarkedGoesOn
    <2>13. QED
      BY <2>8, <2>10, <2>11, <2>12 DEF CodexInv
  <1>6. QED
    BY <1>2, <1>4, <1>5 DEF SkipTurn
(* Only one job has begun: the one of the first send in the queue.         *)
LEMMA OneBegun ==
    ASSUME CodexInv, NEW k \in Send, Running(k), NEW j \in Send, j # k
    PROVE  send[j].job \notin {"attach", "start", "hold"}
  <1>1. InTurn(j)
    BY DEF CodexInv, TurnInv
  <1>2. QED
    BY <1>1 DEF InTurn, Running

(* A step of the running job leaves the others alone, whatever it does to  *)
(* the resolver and the active turn of its handle.                         *)
LEMMA OthersWait ==
    ASSUME CodexInv, NEW k \in Send, Running(k), NEW j \in Send, j # k, send'[j] = send[j],
           \A g \in Handle : Kept(j, g),
           registered' = registered, InTurn(j)', Linked(j)'
    PROVE  TurnInv(j)'
  <1>1. send[j].job \notin {"attach", "start", "hold"}
    BY OneBegun
  <1>2. Pending(j) => Waits(j)'
    BY WaitsNow DEF Waits, Kept
  <1>3. UnderWay(j) => Latched(j)'
    BY <1>1 DEF Latched
  <1>4. QED
    BY <1>2, <1>3, LeftAlone

LEMMA BeginTurnKeeps ==
    ASSUME CodexInv, NEW k \in Send, BeginTurn(k)
    PROVE  CodexInv'
  <1>0. CodexTypeOK /\ Attached /\ Maps /\ Stopping /\ TurnInv(k) /\ send[k] \in SendState
    BY DEF CodexInv, CodexTypeOK
  <1>1. PICK h \in Handle : h = send[k].on
    BY <1>0 DEF BeginTurn, TurnInv, Progress
  <1>2. PICK passes \in BOOLEAN : passes <=> link # "down" /\ handle[h].attached = generation
    OBVIOUS
  <1>3. /\ Running(k) /\ send[k].job = "queued" /\ ~send[k].aborted
        /\ handle' = [handle EXCEPT ![h].turnEndFired = FALSE, ![h].resolver = passes]
        /\ send' = IF passes THEN [send EXCEPT ![k].job = "start", ![k].server = "requested"]
                   ELSE [send EXCEPT ![k].job = "attach"]
        /\ link' = IF link = "down" THEN "connecting" ELSE link
        /\ UNCHANGED <<generation, known, registered, turnQueue, stopping, faults>>
    <2>1. passes = (link # "down" /\ handle[h].attached = generation)
      BY <1>2
    <2>2. QED
      BY <1>1, <2>1 DEF BeginTurn
  <1>4. /\ handle' \in [Handle -> HandleState]
        /\ \A g \in Handle : Kept(k, g) /\ handle'[g].attached = handle[g].attached
        /\ \A j \in Send, g \in Handle : Kept(j, g)
        /\ \A g \in Handle : handle'[g].current = handle[g].current
        /\ handle'[h].resolver = passes
    <2>1. PICK n \in HandleState : n = handle[h]
      BY <1>0 DEF CodexTypeOK
    <2>2. PICK m : m = [n EXCEPT !.turnEndFired = FALSE, !.resolver = passes]
      OBVIOUS
    <2>3. /\ m \in HandleState /\ m.of = n.of /\ m.open = n.open /\ m.current = n.current
          /\ m.attached = n.attached /\ m.resolver = passes
      BY <2>2 DEF HandleState
    <2>4. handle' = [handle EXCEPT ![h] = m] /\ handle \in [Handle -> HandleState]
      BY <1>0, <1>3, <2>1, <2>2 DEF CodexTypeOK
    <2>5. handle'[h] = m /\ \A g \in Handle : g # h => handle'[g] = handle[g]
      BY <2>4
    <2>6. handle' \in [Handle -> HandleState]
      BY <2>3, <2>4
    <2>7. QED
      BY <2>1, <2>3, <2>5, <2>6 DEF Kept
  <1>5. /\ \A j \in Send : j # k => send'[j] = send[j]
        /\ send' \in [Send -> SendState]
        /\ send'[k].on = send[k].on /\ send'[k].ack = send[k].ack /\ send'[k].run = send[k].run
        /\ send'[k].aborted = send[k].aborted /\ send'[k].misled = send[k].misled
        /\ send'[k].terminal = send[k].terminal /\ send'[k].idle = send[k].idle
        /\ send'[k].interrupted = send[k].interrupted
        /\ passes => send'[k].job = "start" /\ send'[k].server = "requested"
        /\ ~passes => send'[k].job = "attach" /\ send'[k].server = send[k].server
    <2>1. PICK n \in SendState : n = send[k]
      BY <1>0
    <2>2. PICK m : m = IF passes THEN [n EXCEPT !.job = "start", !.server = "requested"]
                       ELSE [n EXCEPT !.job = "attach"]
      OBVIOUS
    <2>3. m \in SendState
      BY <2>2 DEF SendState
    <2>4. send' = [send EXCEPT ![k] = m] /\ send \in [Send -> SendState]
      BY <1>0, <1>3, <2>1, <2>2 DEF CodexTypeOK
    <2>5. /\ m.on = n.on /\ m.ack = n.ack /\ m.run = n.run /\ m.aborted = n.aborted
          /\ m.misled = n.misled /\ m.terminal = n.terminal /\ m.idle = n.idle
          /\ m.interrupted = n.interrupted
          /\ passes => m.job = "start" /\ m.server = "requested"
          /\ ~passes => m.job = "attach" /\ m.server = n.server
      BY <2>2 DEF SendState
    <2>6. send'[k] = m /\ \A j \in Send : j # k => send'[j] = send[j]
      BY <2>4
    <2>7. send' \in [Send -> SendState]
      BY <2>3, <2>4
    <2>8. QED
      BY <2>1, <2>5, <2>6, <2>7
  <1>6. CodexTypeOK'
    BY <1>0, <1>3, <1>4, <1>5 DEF CodexTypeOK
  <1>7. Attached'
    BY <1>0, <1>3, <1>4 DEF Attached
  <1>8. Maps'
    <2>1. \A g \in Handle : handle'[g].of = handle[g].of /\ handle'[g].open = handle[g].open
      BY <1>4 DEF Kept
    <2>2. \A j \in Send : send'[j].on = send[j].on
      BY <1>5
    <2>3. ASSUME NEW g \in Handle, handle'[g].current # NoSend
          PROVE  send'[handle'[g].current].on = g
      <3>1. handle[g].current \in Send /\ handle'[g].current = handle[g].current
        BY <1>0, <1>4, <2>3 DEF CodexTypeOK, HandleState
      <3>2. QED
        BY <1>0, <2>2, <2>3, <3>1 DEF Maps
    <2>4. \A s \in Session : registered[s] \in Handle \union {NoHandle}
      BY <1>0 DEF CodexTypeOK
    <2>5. QED
      BY <1>0, <1>3, <2>1, <2>3, <2>4 DEF Maps
  <1>9. Stopping'
    BY <1>0, <1>3 DEF Stopping
  <1>10. TurnInv(k)'
    <2>1. Pending(k) /\ Waits(k)
      BY <1>3, WaitsNow DEF Pending
    <2>2. send[k].server = "none" /\ send[k].ack = "pending"
      BY <1>0, <1>3, <2>1 DEF TurnInv, Progress, Waits, SendState
    <2>3. Waits(k)'
      BY <1>1, <1>3, <1>4, <1>5, <2>1, ZenonT(60) DEF Waits, Kept
    <2>4. Progress(k)' /\ InTurn(k)' /\ Linked(k)' /\ Held(k)'
      BY <1>1, <1>3, <1>5, <2>2 DEF Progress, InTurn, Running, Linked, Held
    <2>5. Unheard(k)'
      <3>1. UnderWay(k)' => UnderWay(k)
        BY <1>3, <1>5, <2>2 DEF UnderWay
      <3>2. UnderWay(k) => ~send[k].terminal /\ ~send[k].idle
        BY <1>0 DEF TurnInv, Unheard
      <3>3. Latched(k)'
        BY <1>1, <1>4, <1>5 DEF Latched
      <3>4. QED
        BY <1>5, <3>1, <3>2, <3>3 DEF Unheard
    <2>6. Acknowledged(k)' /\ Interrupts(k)' /\ Concluded(k)'
      BY <1>5, <2>1 DEF Acknowledged, Interrupts, Concluded, Waits
    <2>7. QED
      BY <2>3, <2>4, <2>5, <2>6 DEF TurnInv, Awaited
  <1>11. ASSUME NEW j \in Send, j # k PROVE TurnInv(j)'
    <2>1. send'[j] = send[j]
      BY <1>5, <1>11
    <2>2. InTurn(j)' /\ Linked(j)'
      BY <1>3, <2>1, WaitsNow DEF InTurn, InQueue, Running, Linked
    <2>3. QED
      BY <1>3, <1>4, <1>11, <2>1, <2>2, OthersWait
  <1>12. QED
    BY <1>6, <1>7, <1>8, <1>9, <1>10, <1>11 DEF CodexInv
LEMMA AttachTurnKeeps ==
    ASSUME CodexInv, NEW k \in Send, AttachTurn(k)
    PROVE  CodexInv'
  <1>0. CodexTypeOK /\ Attached /\ TurnInv(k) /\ send[k] \in SendState
    BY DEF CodexInv, CodexTypeOK
  <1>1. PICK h \in Handle : h = send[k].on
    BY <1>0 DEF AttachTurn, TurnInv, Progress
  <1>2. /\ Running(k) /\ send[k].job = "attach" /\ link = "up"
        /\ handle' = [handle EXCEPT ![h].attached = generation, ![h].resolver = TRUE]
        /\ known' = known \union {h}
        /\ send' = [send EXCEPT ![k].job = "start", ![k].server = "requested"]
        /\ UNCHANGED <<link, generation, registered, turnQueue, stopping, faults>>
    BY <1>1 DEF AttachTurn
  <1>3. generation \in 0 .. MaxFaults + 1 /\ generation \in Nat
    BY Generations
  <1>4. /\ handle' \in [Handle -> HandleState]
        /\ \A j \in Send, g \in Handle : Kept(j, g)
        /\ \A g \in Handle : /\ handle'[g].current = handle[g].current
                             /\ handle'[g].attached \in {handle[g].attached, generation}
        /\ handle'[h].resolver
    <2>1. PICK n \in HandleState : n = handle[h]
      BY <1>0 DEF CodexTypeOK
    <2>2. PICK m : m = [n EXCEPT !.attached = generation, !.resolver = TRUE]
      OBVIOUS
    <2>3. /\ m \in HandleState /\ m.of = n.of /\ m.open = n.open /\ m.current = n.current
          /\ m.attached = generation /\ m.resolver = TRUE
      BY <1>3, <2>2 DEF HandleState
    <2>4. handle' = [handle EXCEPT ![h] = m] /\ handle \in [Handle -> HandleState]
      BY <1>0, <1>2, <2>1, <2>2 DEF CodexTypeOK
    <2>5. handle'[h] = m /\ \A g \in Handle : g # h => handle'[g] = handle[g]
      BY <2>4
    <2>6. handle' \in [Handle -> HandleState]
      BY <2>3, <2>4
    <2>7. QED
      BY <2>1, <2>3, <2>5, <2>6 DEF Kept
  <1>5. /\ \A j \in Send : j # k => send'[j] = send[j]
        /\ send' \in [Send -> SendState]
        /\ send'[k].on = send[k].on /\ send'[k].ack = send[k].ack /\ send'[k].run = send[k].run
        /\ send'[k].aborted = send[k].aborted /\ send'[k].misled = send[k].misled
        /\ send'[k].terminal = send[k].terminal /\ send'[k].idle = send[k].idle
        /\ send'[k].interrupted = send[k].interrupted
        /\ send'[k].job = "start" /\ send'[k].server = "requested"
    <2>1. PICK n \in SendState : n = send[k]
      BY <1>0
    <2>2. PICK m : m = [n EXCEPT !.job = "start", !.server = "requested"]
      OBVIOUS
    <2>3. /\ m \in SendState /\ m.on = n.on /\ m.ack = n.ack /\ m.run = n.run
          /\ m.aborted = n.aborted /\ m.misled = n.misled /\ m.terminal = n.terminal
          /\ m.idle = n.idle /\ m.interrupted = n.interrupted
          /\ m.job = "start" /\ m.server = "requested"
      BY <2>2 DEF SendState
    <2>4. send' = [send EXCEPT ![k] = m] /\ send \in [Send -> SendState]
      BY <1>0, <1>2, <2>1, <2>2 DEF CodexTypeOK
    <2>5. send'[k] = m /\ \A j \in Send : j # k => send'[j] = send[j]
      BY <2>4
    <2>6. send' \in [Send -> SendState]
      BY <2>3, <2>4
    <2>7. QED
      BY <2>1, <2>3, <2>5, <2>6
  <1>6. CodexTypeOK'
    BY <1>0, <1>2, <1>4, <1>5 DEF CodexTypeOK
  <1>7. Attached'
    <2>1. \A g \in Handle : handle'[g].attached <= generation
      BY <1>0, <1>3, <1>4 DEF Attached
    <2>2. QED
      BY <1>0, <1>2, <2>1 DEF Attached
  <1>8. Maps' /\ Stopping'
    <2>1. \A g \in Handle : handle'[g].of = handle[g].of /\ handle'[g].open = handle[g].open
      BY <1>4 DEF Kept
    <2>2. \A j \in Send : /\ send'[j].on = send[j].on
                          /\ send'[j].job = "queued" => send[j].job = "queued"
                          /\ send[j].aborted => send'[j].aborted
      BY <1>5
    <2>3. QED
      BY <1>2, <1>4, <2>1, <2>2, MapsStay
  <1>9. TurnInv(k)'
    <2>1. send[k].server = "none" /\ send[k].ack # "resolved"
      BY <1>0, <1>2 DEF TurnInv, Progress
    <2>2. Awaited(k)'
      <3>1. Pending(k)' => Pending(k)
        BY <1>2, <1>5 DEF Pending
      <3>2. Waits(k) => Waits(k)'
        BY <1>1, <1>2, <1>4, <1>5 DEF Waits, Kept
      <3>3. QED
        BY <3>1, <3>2, WaitsNow DEF Awaited
    <2>3. Progress(k)' /\ InTurn(k)' /\ Linked(k)' /\ Held(k)'
      BY <1>1, <1>2, <1>5, <2>1 DEF Progress, InTurn, Running, Linked, Held
    <2>4. Unheard(k)'
      <3>1. UnderWay(k)' => UnderWay(k)
        BY <1>2, <1>5, <2>1 DEF UnderWay
      <3>2. UnderWay(k) => ~send[k].terminal /\ ~send[k].idle
        BY <1>0 DEF TurnInv, Unheard
      <3>3. Latched(k)'
        BY <1>1, <1>4, <1>5 DEF Latched
      <3>4. QED
        BY <1>5, <3>1, <3>2, <3>3 DEF Unheard
    <2>5. Acknowledged(k)' /\ Interrupts(k)' /\ Concluded(k)'
      BY <1>0, <1>5, <2>1 DEF TurnInv, Acknowledged, Interrupts, Concluded
    <2>6. QED
      BY <2>2, <2>3, <2>4, <2>5 DEF TurnInv
  <1>10. ASSUME NEW j \in Send, j # k PROVE TurnInv(j)'
    <2>1. send'[j] = send[j]
      BY <1>5, <1>10
    <2>2. InTurn(j)' /\ Linked(j)'
      BY <1>2, <2>1, WaitsNow DEF InTurn, InQueue, Running, Linked
    <2>3. QED
      BY <1>2, <1>4, <1>10, <2>1, <2>2, OthersWait
  <1>11. QED
    BY <1>6, <1>7, <1>8, <1>9, <1>10 DEF CodexInv

LEMMA TurnStartedKeeps ==
    ASSUME CodexInv, NEW k \in Send, TurnStarted(k)
    PROVE  CodexInv'
  <1>0. CodexTypeOK /\ Attached /\ TurnInv(k) /\ send[k] \in SendState
    BY DEF CodexInv, CodexTypeOK
  <1>1. PICK h \in Handle : h = send[k].on
    BY <1>0 DEF TurnStarted, TurnInv, Progress
  <1>2. /\ Running(k) /\ send[k].job = "start" /\ send[k].server \in {"live", "ended"}
        /\ handle' = IF handle[h].current = k /\ ~send[k].terminal /\ ~send[k].aborted
                     THEN [handle EXCEPT ![h].active = k] ELSE handle
        /\ send' = [send EXCEPT ![k] = [Settled(send[k], "resolved") EXCEPT !.job = "hold",
                                          !.interrupted = send[k].interrupted \/ send[k].aborted]]
        /\ UNCHANGED <<link, generation, known, registered, turnQueue, stopping, faults>>
    BY <1>1 DEF TurnStarted
  <1>3. /\ handle' \in [Handle -> HandleState]
        /\ \A j \in Send, g \in Handle : Kept(j, g)
        /\ \A g \in Handle : /\ handle'[g].current = handle[g].current
                             /\ handle'[g].attached = handle[g].attached
                             /\ handle'[g].resolver = handle[g].resolver
        /\ handle[h].current = k /\ ~send[k].terminal /\ ~send[k].aborted => handle'[h].active = k
    <2>1. PICK n \in HandleState : n = handle[h]
      BY <1>0 DEF CodexTypeOK
    <2>2. PICK m : m = [n EXCEPT !.active = k]
      OBVIOUS
    <2>3. /\ m \in HandleState /\ m.of = n.of /\ m.open = n.open /\ m.current = n.current
          /\ m.attached = n.attached /\ m.resolver = n.resolver /\ m.active = k
      BY <2>2 DEF HandleState
    <2>4. handle \in [Handle -> HandleState]
      BY <1>0 DEF CodexTypeOK
    <2>5. CASE handle[h].current = k /\ ~send[k].terminal /\ ~send[k].aborted
      <3>1. handle' = [handle EXCEPT ![h] = m]
        BY <1>2, <2>1, <2>2, <2>4, <2>5
      <3>2. handle'[h] = m /\ \A g \in Handle : g # h => handle'[g] = handle[g]
        BY <2>4, <3>1
      <3>3. handle' \in [Handle -> HandleState]
        BY <2>3, <2>4, <3>1
      <3>4. QED
        BY <2>1, <2>3, <3>2, <3>3 DEF Kept
    <2>6. CASE ~(handle[h].current = k /\ ~send[k].terminal /\ ~send[k].aborted)
      BY <1>2, <2>4, <2>6 DEF Kept
    <2>7. QED
      BY <2>5, <2>6
  <1>4. /\ \A j \in Send : j # k => send'[j] = send[j]
        /\ send' \in [Send -> SendState]
        /\ send'[k].on = send[k].on /\ send'[k].run = send[k].run
        /\ send'[k].ack = (IF send[k].ack = "pending" THEN "resolved" ELSE send[k].ack)
        /\ send'[k].aborted = send[k].aborted /\ send'[k].misled = send[k].misled
        /\ send'[k].terminal = send[k].terminal /\ send'[k].idle = send[k].idle
        /\ send[k].aborted => send'[k].interrupted
        /\ send'[k].job = "hold" /\ send'[k].server = send[k].server
    <2>1. PICK n \in SendState : n = send[k]
      BY <1>0
    <2>2. PICK o : o = Settled(n, "resolved")
      OBVIOUS
    <2>3. /\ o \in SendState /\ o.on = n.on /\ o.run = n.run /\ o.aborted = n.aborted
          /\ o.misled = n.misled /\ o.terminal = n.terminal /\ o.idle = n.idle
          /\ o.interrupted = n.interrupted /\ o.server = n.server
          /\ o.ack = (IF n.ack = "pending" THEN "resolved" ELSE n.ack)
      BY <2>2 DEF Settled, SendState
    <2>4. PICK i \in BOOLEAN : i = (n.interrupted \/ n.aborted)
      OBVIOUS
    <2>5. PICK m : m = [o EXCEPT !.job = "hold", !.interrupted = i]
      OBVIOUS
    <2>6. /\ m \in SendState /\ m.on = o.on /\ m.run = o.run /\ m.aborted = o.aborted
          /\ m.misled = o.misled /\ m.terminal = o.terminal /\ m.idle = o.idle
          /\ m.interrupted = i /\ m.server = o.server /\ m.job = "hold" /\ m.ack = o.ack
      BY <2>3, <2>5 DEF SendState
    <2>7. send' = [send EXCEPT ![k] = m] /\ send \in [Send -> SendState]
      BY <1>0, <1>2, <2>1, <2>2, <2>4, <2>5 DEF CodexTypeOK
    <2>8. send'[k] = m /\ \A j \in Send : j # k => send'[j] = send[j]
      BY <2>7
    <2>9. send' \in [Send -> SendState]
      BY <2>6, <2>7
    <2>10. n.aborted => m.interrupted
      BY <2>4, <2>6
    <2>11. QED
      BY <2>1, <2>3, <2>6, <2>8, <2>9, <2>10
  <1>5. CodexTypeOK' /\ Attached'
    BY <1>0, <1>2, <1>3, <1>4 DEF CodexTypeOK, Attached
  <1>6. Maps' /\ Stopping'
    <2>1. \A g \in Handle : handle'[g].of = handle[g].of /\ handle'[g].open = handle[g].open
      BY <1>3 DEF Kept
    <2>2. \A j \in Send : /\ send'[j].on = send[j].on
                          /\ send'[j].job = "queued" => send[j].job = "queued"
                          /\ send[j].aborted => send'[j].aborted
      BY <1>4
    <2>3. QED
      BY <1>2, <1>3, <2>1, <2>2, MapsStay
  <1>7. TurnInv(k)'
    <2>1. send[k].ack # "resolved"
      BY <1>0, <1>2 DEF TurnInv, Progress
    <2>2. Awaited(k)'
      <3>1. Pending(k)' => Pending(k)
        BY <1>2, <1>4 DEF Pending
      <3>2. Waits(k) => Waits(k)'
        BY <1>1, <1>2, <1>3, <1>4 DEF Waits, Kept
      <3>3. QED
        BY <3>1, <3>2, WaitsNow DEF Awaited
    <2>3. Progress(k)' /\ InTurn(k)' /\ Linked(k)' /\ Held(k)'
      BY <1>0, <1>1, <1>2, <1>4, <2>1 DEF TurnInv, Progress, InTurn, Running, Linked, Held
    <2>4. Unheard(k)'
      <3> SUFFICES ASSUME UnderWay(k)' PROVE ~send'[k].terminal /\ ~send'[k].idle /\ Latched(k)'
        BY DEF Unheard
      <3>1. UnderWay(k)
        BY <1>2, <1>4 DEF UnderWay
      <3>2. ~send[k].terminal /\ ~send[k].idle /\ Latched(k) /\ Waits(k)
        BY <1>0, <3>1, WaitsNow DEF TurnInv, Unheard
      <3>3. handle'[h].active = k /\ handle'[h].resolver
        BY <1>1, <1>2, <1>3, <3>1, <3>2 DEF Waits, Latched, UnderWay
      <3>4. QED
        BY <1>1, <1>4, <3>2, <3>3 DEF Latched
    <2>5. Acknowledged(k)' /\ Interrupts(k)' /\ Concluded(k)'
      BY <1>0, <1>4, <2>1 DEF TurnInv, Acknowledged, Interrupts, Concluded
    <2>6. QED
      BY <2>2, <2>3, <2>4, <2>5 DEF TurnInv
  <1>8. ASSUME NEW j \in Send, j # k PROVE TurnInv(j)'
    <2>1. send'[j] = send[j]
      BY <1>4, <1>8
    <2>2. InTurn(j)' /\ Linked(j)'
      BY <1>2, <2>1, WaitsNow DEF InTurn, InQueue, Running, Linked
    <2>3. QED
      BY <1>2, <1>3, <1>8, <2>1, <2>2, OthersWait
  <1>9. QED
    BY <1>5, <1>6, <1>7, <1>8 DEF CodexInv

LEMMA ReleaseTurnKeeps ==
    ASSUME CodexInv, NEW k \in Send, ReleaseTurn(k)
    PROVE  CodexInv'
  <1>0. CodexTypeOK /\ Attached /\ TurnInv(k) /\ send[k] \in SendState
    BY DEF CodexInv, CodexTypeOK
  <1>1. PICK h \in Handle : h = send[k].on
    BY <1>0 DEF ReleaseTurn, TurnInv, Progress
  <1>2. /\ Running(k) /\ send[k].job = "hold" /\ ~handle[h].resolver
        /\ handle' = Forgets(handle, h, k)
        /\ send' = [send EXCEPT ![k].job = "over"] /\ turnQueue' = Tail(turnQueue)
        /\ UNCHANGED <<link, generation, known, registered, stopping, faults>>
    BY <1>1 DEF ReleaseTurn
  <1>3. /\ handle' \in [Handle -> HandleState]
        /\ \A g \in Handle :
             /\ handle'[g].of = handle[g].of /\ handle'[g].open = handle[g].open
             /\ handle'[g].attached = handle[g].attached
             /\ handle'[g].current \in {handle[g].current, NoSend}
             /\ handle[g].current # k => handle'[g].current = handle[g].current
    <2>1. handle \in [Handle -> HandleState]
      BY <1>0 DEF CodexTypeOK
    <2>2. QED
      BY <1>2, <2>1, Forgetting, ForgetsTypes
  <1>4. /\ \A j \in Send : j # k => send'[j] = send[j]
        /\ send' \in [Send -> SendState]
        /\ send'[k].on = send[k].on /\ send'[k].run = send[k].run /\ send'[k].ack = send[k].ack
        /\ send'[k].aborted = send[k].aborted /\ send'[k].misled = send[k].misled
        /\ send'[k].interrupted = send[k].interrupted
        /\ send'[k].job = "over" /\ send'[k].server = send[k].server
    <2>1. PICK n \in SendState : n = send[k]
      BY <1>0
    <2>2. PICK m : m = [n EXCEPT !.job = "over"]
      OBVIOUS
    <2>3. /\ m \in SendState /\ m.on = n.on /\ m.run = n.run /\ m.ack = n.ack
          /\ m.aborted = n.aborted /\ m.misled = n.misled
          /\ m.interrupted = n.interrupted /\ m.server = n.server /\ m.job = "over"
      BY <2>2 DEF SendState
    <2>4. send' = [send EXCEPT ![k] = m] /\ send \in [Send -> SendState]
      BY <1>0, <1>2, <2>1, <2>2 DEF CodexTypeOK
    <2>5. send'[k] = m /\ \A j \in Send : j # k => send'[j] = send[j]
      BY <2>4
    <2>6. send' \in [Send -> SendState]
      BY <2>3, <2>4
    <2>7. QED
      BY <2>1, <2>3, <2>5, <2>6
  <1>5. turnQueue' \in Seq(Send)
    BY <1>0, <1>2, HeadIsFirst
  <1>6. CodexTypeOK' /\ Attached'
    BY <1>0, <1>2, <1>3, <1>4, <1>5 DEF CodexTypeOK, Attached
  <1>7. Maps' /\ Stopping'
    <2>1. \A j \in Send : /\ send'[j].on = send[j].on
                          /\ send'[j].job = "queued" => send[j].job = "queued"
                          /\ send[j].aborted => send'[j].aborted
      BY <1>4
    <2>2. QED
      BY <1>2, <1>3, <2>1, MapsStay
  <1>8. ~UnderWay(k)
    BY <1>0, <1>1, <1>2 DEF TurnInv, Unheard, Latched
  <1>9. TurnInv(k)'
    <2>1. Progress(k)' /\ InTurn(k)' /\ Linked(k)'
      BY <1>0, <1>1, <1>2, <1>4 DEF TurnInv, Progress, InTurn, Linked
    <2>2. ~Pending(k)' /\ ~UnderWay(k)'
      BY <1>4 DEF Pending, UnderWay
    <2>3. Held(k)'
      <3>1. ASSUME send[k].server \in {"requested", "live"}, ~send[k].misled
            PROVE  send[k].interrupted
        <4>1. send[k].server = "live" /\ send[k].aborted
          BY <1>0, <1>2, <1>8, <3>1 DEF TurnInv, Progress, UnderWay
        <4>2. QED
          BY <1>0, <1>2, <3>1, <4>1 DEF TurnInv, Interrupts
      <3>2. QED
        BY <1>4, <3>1 DEF Held
    <2>4. Acknowledged(k)'
      BY <1>2, <1>4, <1>8 DEF Acknowledged, UnderWay
    <2>5. Interrupts(k)' /\ Concluded(k)'
      BY <1>0, <1>4 DEF TurnInv, Interrupts, Concluded
    <2>6. QED
      BY <2>1, <2>2, <2>3, <2>4, <2>5 DEF TurnInv, Awaited, Unheard
  <1>10. ASSUME NEW j \in Send, j # k PROVE TurnInv(j)'
    <2>1. send'[j] = send[j]
      BY <1>4, <1>10
    <2>2. InTurn(j)' /\ Linked(j)'
      BY <1>2, <1>10, <2>1, Popped, WaitsNow DEF Linked
    <2>3. \A g \in Handle : Kept(j, g)
      BY <1>3, <1>10 DEF Kept
    <2>4. QED
      BY <1>2, <1>10, <2>1, <2>2, <2>3, OthersWait
  <1>11. QED
    BY <1>6, <1>7, <1>9, <1>10 DEF CodexInv
(* Faults are counted up, and only then is a transport lost.               *)
LEMMA StaysAttached ==
    ASSUME CodexInv, faults' \in 0 .. MaxFaults, faults <= faults', UNCHANGED <<link, generation, stopping>>,
           \A g \in Handle : handle'[g].attached = handle[g].attached
    PROVE  Attached'
  <1>1. faults \in Int /\ faults' \in Int /\ generation \in Int
    BY Generations, Bounds
  <1>2. Attached
    BY DEF CodexInv
  <1>3. generation' <= faults' + 1
    BY <1>1, <1>2 DEF Attached
  <1>4. stopping' = "no" /\ link' # "up" => generation' <= faults'
    BY <1>1, <1>2 DEF Attached
  <1>5. \A g \in Handle : handle'[g].attached <= generation'
    BY <1>2 DEF Attached
  <1>6. QED
    BY <1>3, <1>4, <1>5 DEF Attached

(* A send that was rejected and whose job is over leaves nothing to keep.  *)
LEMMA GivenUp ==
    ASSUME CodexInv, NEW k \in Send, send'[k].on \in Handle,
           send'[k].job = "over", send'[k].ack = "rejected", send'[k].server \in {"none", "ended"},
           send'[k].run = send[k].run,
           send[k].server = "ended" => send'[k].server = "ended",
           send[k].aborted => send'[k].aborted,
           send[k].misled => send'[k].misled
    PROVE  TurnInv(k)'
  <1>1. Progress(k)' /\ InTurn(k)' /\ Linked(k)'
    BY DEF Progress, InTurn, Linked
  <1>2. ~Pending(k)' /\ ~UnderWay(k)'
    BY DEF Pending, UnderWay
  <1>3. Acknowledged(k)' /\ Held(k)' /\ Interrupts(k)'
    BY DEF Acknowledged, Held, Interrupts
  <1>4. Concluded(k)'
    BY DEF CodexInv, TurnInv, Concluded
  <1>5. QED
    BY <1>1, <1>2, <1>3, <1>4 DEF TurnInv, Awaited, Unheard

LEMMA RefuseTurnKeeps ==
    ASSUME CodexInv, NEW k \in Send, RefuseTurn(k)
    PROVE  CodexInv'
  <1>0. CodexTypeOK /\ Attached /\ TurnInv(k)
    BY DEF CodexInv
  <1>1. /\ Running(k) /\ send[k].job \in {"attach", "start"} /\ send[k].server \in {"none", "requested"}
        /\ send[k].ack # "resolved"
        /\ turnQueue' = Tail(turnQueue)
        /\ UNCHANGED <<link, generation, known, registered, stopping>>
    BY <1>0 DEF RefuseTurn, TurnInv, Progress
  <1>2. faults' \in 0 .. MaxFaults /\ faults <= faults'
    BY Generations, Bounds DEF RefuseTurn, Fault
  <1>3. PICK h \in Handle : h = send[k].on
    BY <1>0, <1>1 DEF TurnInv, Progress
  <1>4. PICK S \in [Send -> SendState] : S = SendsEnded({h}, {k}, TRUE)
    BY <1>0, MarksTypes
  <1>5. \A j \in Send : Marks(j, S[j], {h}, {k})
    BY <1>4, Marking
  <1>6. /\ handle' = HandlesEnded({h})
        /\ send' = [S EXCEPT ![k] = [Over(S[k], "rejected") EXCEPT !.server = "none"]]
    BY <1>3, <1>4 DEF RefuseTurn
  <1>7. /\ send'[k].on = send[k].on /\ send'[k].job = "over" /\ send'[k].ack = "rejected"
        /\ send'[k].server = "none" /\ send'[k].run = send[k].run
        /\ send'[k].aborted <=> send[k].aborted
        /\ send[k].misled => send'[k].misled
        /\ send' \in [Send -> SendState]
        /\ \A j \in Send : j # k => send'[j] = S[j]
    <2>1. PICK n \in SendState : n = S[k] /\ Marks(k, n, {h}, {k})
      BY <1>5
    <2>2. PICK o \in SendState : o = Over(n, "rejected")
      BY SettledTypes
    <2>3. /\ o.on = n.on /\ o.job = "over" /\ o.run = n.run /\ o.aborted = n.aborted
          /\ o.ack = (IF n.ack = "pending" THEN "rejected" ELSE n.ack)
          /\ o.misled = n.misled
      BY <2>2, Settling
    <2>4. PICK m : m = [o EXCEPT !.server = "none"]
      OBVIOUS
    <2>5. /\ m \in SendState /\ m.on = o.on /\ m.job = o.job /\ m.run = o.run
          /\ m.aborted = o.aborted /\ m.ack = o.ack /\ m.misled = o.misled /\ m.server = "none"
      BY <2>4 DEF SendState
    <2>6. send' = [S EXCEPT ![k] = m]
      BY <1>6, <2>1, <2>2, <2>4
    <2>7. send'[k] = m /\ send' \in [Send -> SendState] /\ \A j \in Send : j # k => send'[j] = S[j]
      BY <2>5, <2>6
    <2>8. m.ack = "rejected"
      BY <1>0, <1>1, <2>1, <2>3, <2>5 DEF Marks, SendState
    <2>9. QED
      BY <2>1, <2>3, <2>5, <2>7, <2>8 DEF Marks
  <1>8. handle' \in [Handle -> HandleState]
    BY <1>0, <1>6, MarksTypes
  <1>9. \A g \in Handle : /\ handle'[g].of = handle[g].of /\ handle'[g].open = handle[g].open
                          /\ handle'[g].current = handle[g].current
                          /\ handle'[g].attached = handle[g].attached
                          /\ g # h => handle'[g] = handle[g]
    BY <1>0, <1>6, EndedHandles
  <1>10. turnQueue' \in Seq(Send)
    BY <1>0, <1>1, HeadIsFirst
  <1>11. CodexTypeOK' /\ Attached'
    <2>1. Attached'
      BY <1>1, <1>2, <1>9, StaysAttached
    <2>2. QED
      BY <1>0, <1>1, <1>2, <1>7, <1>8, <1>10, <2>1 DEF CodexTypeOK
  <1>12. Maps' /\ Stopping'
    <2>1. \A j \in Send : /\ send'[j].on = send[j].on
                          /\ send'[j].job = "queued" => send[j].job = "queued"
                          /\ send[j].aborted => send'[j].aborted
      BY <1>5, <1>7 DEF Marks
    <2>2. QED
      BY <1>1, <1>9, <2>1, MapsStay
  <1>13. TurnInv(k)'
    BY <1>1, <1>3, <1>7, GivenUp
  <1>14. ASSUME NEW j \in Send, j # k PROVE TurnInv(j)'
    <2>1. Marks(j, send'[j], {h}, {k}) /\ j \notin {k}
      BY <1>5, <1>7, <1>14
    <2>2. InTurn(j)' /\ Linked(j)'
      BY <1>1, <1>14, <2>1, Popped, WaitsNow DEF Linked, Marks
    <2>3. send[j].on \in Handle => Kept(j, send[j].on)
      BY <1>9 DEF Kept
    <2>4. send[j].on \in Handle \ {h} =>
             handle'[send[j].on].resolver = handle[send[j].on].resolver /\
             handle'[send[j].on].active = handle[send[j].on].active
      BY <1>9
    <2>5. QED
      BY <1>1, <1>3, <2>1, <2>2, <2>3, <2>4, MarkedGoesOn
  <1>15. QED
    BY <1>11, <1>12, <1>13, <1>14 DEF CodexInv
----------------------------------------------------------------------------
(* The app-server.                                                         *)

LEMMA Receivers ==
    ASSUME CodexTypeOK, NEW k
    PROVE  Receiver(k) \in SUBSET Handle
  BY DEF Receiver, CodexTypeOK

LEMMA AcceptTurnKeeps ==
    ASSUME CodexInv, NEW k \in Send, AcceptTurn(k)
    PROVE  CodexInv'
  <1>0. CodexTypeOK /\ Attached /\ TurnInv(k)
    BY DEF CodexInv
  <1>1. /\ send[k].server = "requested" /\ send' = [send EXCEPT ![k].server = "live"]
        /\ UNCHANGED <<link, generation, known, registered, turnQueue, stopping, faults>>
    BY DEF AcceptTurn
  <1>2. PICK R \in SUBSET Handle : R = Receiver(k)
    BY <1>0, Receivers
  <1>3. handle' = [h \in Handle |-> IF h \in R THEN [handle[h] EXCEPT !.active = k] ELSE handle[h]]
    BY <1>2 DEF AcceptTurn
  <1>4. ASSUME NEW h \in Handle
        PROVE  /\ handle'[h] \in HandleState
               /\ handle'[h].of = handle[h].of /\ handle'[h].open = handle[h].open
               /\ handle'[h].current = handle[h].current
               /\ handle'[h].attached = handle[h].attached
               /\ handle'[h].resolver = handle[h].resolver
    <2>1. handle[h] \in HandleState
      BY <1>0 DEF CodexTypeOK
    <2>2. QED
      BY <1>3, <2>1 DEF HandleState
  <1>5. /\ send' \in [Send -> SendState] /\ \A j \in Send : j # k => send'[j] = send[j]
        /\ send'[k].on = send[k].on /\ send'[k].job = send[k].job /\ send'[k].ack = send[k].ack
        /\ send'[k].run = send[k].run /\ send'[k].aborted = send[k].aborted
        /\ send'[k].terminal = send[k].terminal /\ send'[k].idle = send[k].idle
        /\ send'[k].misled = send[k].misled /\ send'[k].server = "live"
    <2>1. PICK n \in SendState : n = send[k]
      BY <1>0 DEF CodexTypeOK
    <2>2. PICK m : m = [n EXCEPT !.server = "live"]
      OBVIOUS
    <2>3. /\ m \in SendState /\ m.on = n.on /\ m.job = n.job /\ m.ack = n.ack /\ m.run = n.run
          /\ m.aborted = n.aborted /\ m.terminal = n.terminal /\ m.idle = n.idle
          /\ m.misled = n.misled /\ m.server = "live"
      BY <2>2 DEF SendState
    <2>4. send' = [send EXCEPT ![k] = m]
      BY <1>0, <1>1, <2>1, <2>2 DEF CodexTypeOK
    <2>5. QED
      BY <1>0, <2>1, <2>3, <2>4, OneSend
  <1>6. Running(k) /\ send[k].job = "start" /\ link # "down"
    BY <1>0, <1>1 DEF TurnInv, Progress, InTurn, Linked
  <1>7. handle' \in [Handle -> HandleState]
    BY <1>3, <1>4
  <1>8. CodexTypeOK' /\ Attached'
    BY <1>0, <1>1, <1>4, <1>5, <1>7 DEF CodexTypeOK, Attached
  <1>9. Maps' /\ Stopping'
    <2>1. \A j \in Send : /\ send'[j].on = send[j].on
                          /\ send'[j].job = "queued" => send[j].job = "queued"
                          /\ send[j].aborted => send'[j].aborted
      BY <1>5
    <2>2. QED
      BY <1>1, <1>4, <2>1, MapsStay
  <1>10. TurnInv(k)'
    <2>1. Progress(k)' /\ InTurn(k)' /\ Linked(k)' /\ Held(k)'
      BY <1>0, <1>1, <1>5, <1>6 DEF TurnInv, Progress, InTurn, Running, Linked, Held
    <2>2. Awaited(k)'
      <3>1. Pending(k)' => Pending(k)
        BY <1>5, <1>6 DEF Pending
      <3>2. Pending(k) => Waits(k)'
        BY <1>1, <1>4, <1>5, WaitsNow DEF Waits
      <3>3. QED
        BY <3>1, <3>2 DEF Awaited
    <2>3. Unheard(k)'
      <3>1. UnderWay(k)' => UnderWay(k)
        BY <1>1, <1>5 DEF UnderWay
      <3>2. UnderWay(k) => ~send[k].terminal /\ ~send[k].idle
        BY <1>0 DEF TurnInv, Unheard
      <3>3. UnderWay(k) => Latched(k)'
        BY <1>4, <1>5, <1>6, WaitsNow DEF Latched
      <3>4. QED
        BY <1>5, <3>1, <3>2, <3>3 DEF Unheard
    <2>4. Acknowledged(k)' /\ Interrupts(k)'
      BY <1>5, <1>6 DEF Acknowledged, Interrupts
    <2>5. Concluded(k)'
      BY <1>0, <1>1, <1>5 DEF TurnInv, Concluded
    <2>6. QED
      BY <2>1, <2>2, <2>3, <2>4, <2>5 DEF TurnInv
  <1>11. ASSUME NEW j \in Send, j # k PROVE TurnInv(j)'
    <2>1. send'[j] = send[j]
      BY <1>5, <1>11
    <2>2. InTurn(j)' /\ Linked(j)'
      BY <1>1, <2>1, WaitsNow DEF InTurn, InQueue, Running, Linked
    <2>3. \A g \in Handle : Kept(j, g)
      BY <1>4 DEF Kept
    <2>4. QED
      BY <1>1, <1>6, <1>11, <2>1, <2>2, <2>3, OthersWait
  <1>12. QED
    BY <1>8, <1>9, <1>10, <1>11 DEF CodexInv

LEMMA ConcludeKeeps ==
    ASSUME CodexInv, NEW k \in Send, Conclude(k)
    PROVE  CodexInv'
  <1>0. CodexTypeOK /\ Attached /\ TurnInv(k)
    BY DEF CodexInv
  <1>1. /\ send[k].server = "live" /\ UNCHANGED <<link, generation, known, registered, turnQueue, stopping>>
    BY DEF Conclude
  <1>2. faults' \in 0 .. MaxFaults /\ faults <= faults'
    <2>1. faults' = faults \/ (faults < MaxFaults /\ faults' = faults + 1)
      BY DEF Conclude, Fault
    <2>2. QED
      BY <2>1, Generations, Bounds
  <1>3. PICK R \in SUBSET Handle : R = Receiver(k)
    BY <1>0, Receivers
  <1>4. PICK erred \in BOOLEAN :
          send' = [SendsEnded(R, {k}, erred) EXCEPT ![k].server = "ended"]
    BY <1>3 DEF Conclude
  <1>5. PICK S \in [Send -> SendState] : S = SendsEnded(R, {k}, erred)
    BY <1>0, MarksTypes
  <1>6. \A j \in Send : Marks(j, S[j], R, {k})
    BY <1>5, Marking
  <1>7. /\ send' \in [Send -> SendState] /\ \A j \in Send : j # k => send'[j] = S[j]
        /\ send'[k].on = send[k].on /\ send'[k].job = send[k].job /\ send'[k].ack = send[k].ack
        /\ send'[k].run = send[k].run /\ (send'[k].aborted <=> send[k].aborted)
        /\ send'[k].server = "ended"
    <2>1. PICK n \in SendState : n = S[k] /\ Marks(k, n, R, {k})
      BY <1>6
    <2>2. PICK m : m = [n EXCEPT !.server = "ended"]
      OBVIOUS
    <2>3. /\ m \in SendState /\ m.on = n.on /\ m.job = n.job /\ m.ack = n.ack /\ m.run = n.run
          /\ m.aborted = n.aborted /\ m.server = "ended"
      BY <2>2 DEF SendState
    <2>4. send' = [S EXCEPT ![k] = m]
      BY <1>4, <1>5, <2>1, <2>2
    <2>5. send'[k] = m /\ send' \in [Send -> SendState] /\ \A j \in Send : j # k => send'[j] = S[j]
      BY <2>3, <2>4
    <2>6. QED
      BY <2>1, <2>3, <2>5 DEF Marks
  <1>8. handle' = HandlesEnded(R)
    BY <1>3 DEF Conclude
  <1>9. /\ handle' \in [Handle -> HandleState]
        /\ \A g \in Handle : /\ handle'[g].of = handle[g].of /\ handle'[g].open = handle[g].open
                             /\ handle'[g].current = handle[g].current
                             /\ handle'[g].attached = handle[g].attached
                             /\ g \notin R => handle'[g] = handle[g]
    BY <1>0, <1>8, MarksTypes, EndedHandles
  <1>10. CodexTypeOK' /\ Attached'
    <2>1. Attached'
      BY <1>1, <1>2, <1>9, StaysAttached
    <2>2. QED
      BY <1>0, <1>1, <1>2, <1>7, <1>9, <2>1 DEF CodexTypeOK
  <1>11. Maps' /\ Stopping'
    <2>1. \A j \in Send : /\ send'[j].on = send[j].on
                          /\ send'[j].job = "queued" => send[j].job = "queued"
                          /\ send[j].aborted => send'[j].aborted
      BY <1>6, <1>7 DEF Marks
    <2>2. QED
      BY <1>1, <1>9, <2>1, MapsStay
  <1>12. TurnInv(k)'
    <2>1. Progress(k)' /\ InTurn(k)' /\ Linked(k)' /\ Held(k)'
      BY <1>0, <1>1, <1>7 DEF TurnInv, Progress, InTurn, InQueue, Running, Linked, Held
    <2>2. Awaited(k)'
      <3>1. Pending(k)' => Pending(k)
        BY <1>7 DEF Pending
      <3>2. Pending(k) => Waits(k)'
        BY <1>1, <1>7, <1>9, WaitsNow DEF Waits
      <3>3. QED
        BY <3>1, <3>2 DEF Awaited
    <2>3. Unheard(k)' /\ Acknowledged(k)' /\ Interrupts(k)' /\ Concluded(k)'
      BY <1>7 DEF Unheard, UnderWay, Acknowledged, Interrupts, Concluded
    <2>4. QED
      BY <2>1, <2>2, <2>3 DEF TurnInv
  <1>13. ASSUME NEW j \in Send, j # k PROVE TurnInv(j)'
    <2>1. Marks(j, send'[j], R, {k}) /\ j \notin {k}
      BY <1>6, <1>7, <1>13
    <2>2. InTurn(j)' /\ Linked(j)'
      BY <1>1, <2>1, WaitsNow DEF Linked, Marks, InTurn, InQueue, Running
    <2>3. send[j].on \in Handle => Kept(j, send[j].on)
      BY <1>9 DEF Kept
    <2>4. send[j].on \in Handle \ R =>
             handle'[send[j].on].resolver = handle[send[j].on].resolver /\
             handle'[send[j].on].active = handle[send[j].on].active
      BY <1>9
    <2>5. QED
      BY <1>1, <1>3, <2>1, <2>2, <2>3, <2>4, MarkedGoesOn
  <1>14. QED
    BY <1>10, <1>11, <1>12, <1>13 DEF CodexInv
----------------------------------------------------------------------------
(* The transport closes.                                                   *)

Closing == Registered \union {send[k].on : k \in Requesting}

LEMMA ClosingHandles ==
    ASSUME CodexInv
    PROVE  /\ Closing \in SUBSET Handle
           /\ \A k \in Send : Pending(k) => send[k].on \in Registered
           /\ Registered \subseteq Closing
  <1>1. Registered \in SUBSET Handle
    BY DEF CodexInv, CodexTypeOK, Registered
  <1>2. \A k \in Requesting : send[k].on \in Handle
    BY DEF Requesting, CodexInv, TurnInv, Progress
  <1>3. ASSUME NEW k \in Send, Pending(k) PROVE send[k].on \in Registered
    <2>1. Waits(k) /\ send[k].on \in Handle
      BY <1>3, WaitsNow
    <2>2. handle[send[k].on].of \in Session
      BY <2>1 DEF CodexInv, CodexTypeOK, HandleState
    <2>3. QED
      BY <2>1, <2>2, Numbers DEF Registered, Waits
  <1>4. QED
    BY <1>1, <1>2, <1>3 DEF Closing

(* What the end of the transport makes of a send: the job that waits for   *)
(* an answer is over, and no turn runs any more.                           *)
Shuts(k, m) ==
    /\ m.on = send[k].on /\ m.run = send[k].run
    /\ m.server = (IF send[k].server = "none" THEN "none" ELSE "ended")
    /\ send[k].aborted => m.aborted
    /\ send[k].misled => m.misled
    /\ k \in Requesting => m.job = "over" /\ m.ack = "rejected"
    /\ k \notin Requesting => /\ m.job = send[k].job
                              /\ m.ack = send[k].ack \/ (send[k].ack = "pending" /\ m.ack = "rejected")
    /\ send[k].job = "none" => m.ack = send[k].ack /\ ~m.terminal /\ ~m.idle

LEMMA SendShut ==
    ASSUME CodexInv, NEW k \in Send, NEW about
    PROVE  /\ SendsClosed(about)[k] \in SendState
           /\ Shuts(k, SendsClosed(about)[k])
           /\ k \notin about /\ UnderWay(k) => SendsClosed(about)[k].misled
           /\ k \notin Requesting => SendsClosed(about)[k].ack = send[k].ack
  <1>1. PICK S \in [Send -> SendState] : S = SendsEnded(Closing, about, TRUE)
    BY ClosingHandles, MarksTypes DEF CodexInv
  <1>2. PICK n \in SendState : n = S[k]
    OBVIOUS
  <1>3. Marks(k, n, Closing, about)
    BY <1>1, <1>2, ClosingHandles, Marking
  <1>4. PICK o : o = IF k \in Requesting THEN Over(n, "rejected") ELSE n
    OBVIOUS
  <1>5. /\ o \in SendState /\ o.on = n.on /\ o.run = n.run /\ o.server = n.server
        /\ o.aborted = n.aborted /\ o.misled = n.misled /\ o.terminal = n.terminal /\ o.idle = n.idle
        /\ k \in Requesting => /\ o.job = "over"
                               /\ o.ack = (IF n.ack = "pending" THEN "rejected" ELSE n.ack)
        /\ k \notin Requesting => o.job = n.job /\ o.ack = n.ack
    <2>1. CASE k \in Requesting
      BY <1>4, <2>1, Settling, SettledTypes
    <2>2. CASE k \notin Requesting
      BY <1>4, <2>2
    <2>3. QED
      BY <2>1, <2>2
  <1>6. PICK m : m = [o EXCEPT !.server = IF o.server = "none" THEN o.server ELSE "ended"]
    OBVIOUS
  <1>7. /\ m \in SendState /\ m.on = o.on /\ m.run = o.run
        /\ m.server = (IF o.server = "none" THEN "none" ELSE "ended")
        /\ m.aborted = o.aborted /\ m.misled = o.misled /\ m.terminal = o.terminal
        /\ m.idle = o.idle /\ m.job = o.job /\ m.ack = o.ack
    BY <1>5, <1>6 DEF SendState
  <1>8. SendsClosed(about)[k] = m
    <2>1. SendsClosed(about)[k] =
            [(IF k \in Requesting THEN Over(S[k], "rejected") ELSE S[k])
               EXCEPT !.server = IF @ = "none" THEN @ ELSE "ended"]
      BY <1>1 DEF SendsClosed, Closing
    <2>2. QED
      BY <1>2, <1>4, <1>5, <1>6, <2>1
  <1>9. k \in Requesting => n.ack # "resolved"
    BY <1>3 DEF Requesting, Marks, CodexInv, TurnInv, Progress
  <1>10. send[k].job = "none" => ~n.terminal /\ ~n.idle /\ k \notin Requesting
    BY <1>3, ClosingHandles, Numbers DEF Marks, Requesting, CodexInv, TurnInv, Progress
  <1>11. Shuts(k, m)
    <2>1. n.ack \in {"pending", "resolved", "rejected"}
      BY DEF SendState
    <2>2. QED
      BY <1>3, <1>5, <1>7, <1>9, <1>10, <2>1 DEF Shuts, Marks
  <1>12. k \notin about /\ UnderWay(k) => m.misled
    BY <1>3, <1>5, <1>7, ClosingHandles, UnderWayPending DEF Marks
  <1>13. k \notin Requesting => m.ack = send[k].ack
    BY <1>3, <1>5, <1>7 DEF Marks
  <1>14. QED
    BY <1>7, <1>8, <1>11, <1>12, <1>13

(* The queue after it.                                                     *)
LEMMA ClosedQueue ==
    ASSUME CodexInv, turnQueue' = IF Requesting # {} THEN Tail(turnQueue) ELSE turnQueue
    PROVE  /\ turnQueue' \in Seq(Send)
           /\ \A k \in Send \ Requesting :
                 /\ InQueue(k) => InQueue(k)'
                 /\ send[k].job = "hold" => Running(k) /\ Running(k)'
                 /\ send[k].job \notin {"attach", "start"}
  <1>0. CodexTypeOK
    BY DEF CodexInv
  <1>1. ASSUME NEW k \in Send \ Requesting
        PROVE  /\ send[k].job \notin {"attach", "start"}
               /\ send[k].job = "hold" => Running(k) /\ Requesting = {}
    <2>1. InTurn(k)
      BY DEF CodexInv, TurnInv
    <2>2. Running(k) => \A j \in Requesting : j = k
      BY DEF Requesting, Running
    <2>3. QED
      BY <2>1, <2>2 DEF InTurn, Requesting
  <1>2. CASE Requesting = {}
    <2>1. turnQueue' = turnQueue
      BY <1>2
    <2>2. QED
      BY <1>0, <1>1, <2>1 DEF CodexTypeOK, InQueue, Running
  <1>3. CASE Requesting # {}
    <2>1. PICK j \in Send : j \in Requesting /\ Running(j)
      BY <1>3 DEF Requesting
    <2>2. turnQueue' = Tail(turnQueue)
      BY <1>3
    <2>3. turnQueue' \in Seq(Send)
      BY <1>0, <2>1, <2>2, HeadIsFirst
    <2>4. ASSUME NEW k \in Send \ Requesting PROVE InQueue(k) => InQueue(k)'
      BY <1>0, <2>1, <2>2, TailKeeps
    <2>5. QED
      BY <1>1, <1>3, <2>3, <2>4
  <1>4. QED
    BY <1>2, <1>3

LEMMA ShutTurn ==
    ASSUME CodexInv, NEW k \in Send, Shuts(k, send'[k]),
           turnQueue' = IF Requesting # {} THEN Tail(turnQueue) ELSE turnQueue,
           Pending(k)' => Waits(k)', ~UnderWay(k)'
    PROVE  TurnInv(k)'
  <1>1. TurnInv(k)
    BY DEF CodexInv
  <1>2. CASE k \in Requesting
    <2>1. send[k].on \in Handle
      BY <1>1, <1>2 DEF Requesting, TurnInv, Progress
    <2>2. QED
      BY <1>2, <2>1, GivenUp DEF Shuts
  <1>3. CASE k \notin Requesting
    <2>1. /\ InQueue(k) => InQueue(k)'
          /\ send[k].job = "hold" => Running(k) /\ Running(k)'
          /\ send[k].job \notin {"attach", "start"}
      BY <1>3, ClosedQueue
    <2>2. Progress(k)'
      BY <1>1, <1>3, <2>1 DEF Shuts, TurnInv, Progress
    <2>3. InTurn(k)'
      BY <1>1, <1>3, <2>1 DEF Shuts, TurnInv, InTurn
    <2>4. Linked(k)' /\ Held(k)' /\ Interrupts(k)'
      BY DEF Shuts, Linked, Held, Interrupts
    <2>5. Acknowledged(k)'
      BY <1>1, <1>3 DEF Shuts, TurnInv, Acknowledged
    <2>6. Concluded(k)'
      BY <1>1 DEF Shuts, TurnInv, Concluded
    <2>7. QED
      BY <2>2, <2>3, <2>4, <2>5, <2>6 DEF TurnInv, Awaited, Unheard
  <1>4. QED
    BY <1>2, <1>3

LEMMA ClosedHandles ==
    ASSUME CodexInv, Closes
    PROVE  /\ handle' \in [Handle -> HandleState] /\ turnQueue' \in Seq(Send)
           /\ link' = "down" /\ known' = {}
           /\ turnQueue' = IF Requesting # {} THEN Tail(turnQueue) ELSE turnQueue
           /\ \A g \in Handle : /\ handle'[g].of = handle[g].of /\ handle'[g].open = handle[g].open
                                /\ handle'[g].current = handle[g].current
                                /\ handle'[g].attached = handle[g].attached
  <1>1. /\ handle' = HandlesEnded(Closing) /\ link' = "down" /\ known' = {}
        /\ turnQueue' = IF Requesting # {} THEN Tail(turnQueue) ELSE turnQueue
    BY DEF Closes, Closing
  <1>2. CodexTypeOK
    BY DEF CodexInv
  <1>3. handle' \in [Handle -> HandleState]
    BY <1>1, <1>2, ClosingHandles, MarksTypes
  <1>4. turnQueue' \in Seq(Send)
    BY <1>1, ClosedQueue
  <1>5. QED
    BY <1>1, <1>2, <1>3, <1>4, EndedHandles

LEMMA AppServerDiesKeeps ==
    ASSUME CodexInv, AppServerDies
    PROVE  CodexInv'
  <1>0. CodexTypeOK /\ Attached /\ Stopping
    BY DEF CodexInv
  <1>1. /\ Closes /\ link # "down" /\ faults < MaxFaults /\ faults' = faults + 1
        /\ UNCHANGED <<generation, registered, stopping>>
    BY DEF AppServerDies, Fault
  <1>2. PICK about : /\ about = {k \in Send : send[k].job # "queued"}
                     /\ send' = SendsClosed(about)
    BY DEF AppServerDies
  <1>3. ASSUME NEW k \in Send
        PROVE  /\ send'[k] \in SendState /\ Shuts(k, send'[k])
               /\ k \notin about /\ UnderWay(k) => send'[k].misled
               /\ k \notin Requesting => send'[k].ack = send[k].ack
    BY <1>2, SendShut
  <1>4. send' \in [Send -> SendState]
    <2>1. send' = [k \in Send |-> send'[k]]
      BY <1>2 DEF SendsClosed
    <2>2. QED
      BY <1>3, <2>1
  <1>5. CodexTypeOK'
    <2>1. faults' \in 0 .. MaxFaults
      BY <1>1, Generations, Bounds
    <2>2. QED
      BY <1>0, <1>1, <1>4, <2>1, ClosedHandles DEF CodexTypeOK
  <1>6. Attached'
    <2>1. faults \in Nat /\ generation \in Nat
      BY Generations, Bounds
    <2>2. \A g \in Handle : handle'[g].attached <= generation
      BY <1>0, <1>1, ClosedHandles DEF Attached
    <2>3. generation <= faults + 1
      BY <1>0 DEF Attached
    <2>4. generation' <= faults' + 1 /\ generation' <= faults'
      BY <1>1, <2>1, <2>3
    <2>5. QED
      BY <1>1, <2>2, <2>4 DEF Attached
  <1>7. Maps'
    BY <1>1, <1>3, ClosedHandles, MapsKept DEF Shuts
  <1>8. Stopping'
    BY <1>0, <1>1 DEF Stopping
  <1>9. ASSUME NEW k \in Send PROVE TurnInv(k)'
    <2>1. Shuts(k, send'[k]) /\ Progress(k)
      BY <1>3 DEF CodexInv, TurnInv
    <2>2. Pending(k)' => Pending(k) /\ send[k].job = "queued" /\ k \notin Requesting
      BY <2>1, <1>1, ClosedHandles, ClosedQueue DEF Pending, Shuts, Progress
    <2>3. Pending(k)' => Waits(k)'
      <3>1. ASSUME Pending(k)' PROVE Waits(k)'
        <4>1. Waits(k) /\ send[k].on \in Handle /\ k \notin Requesting /\ send[k].job = "queued"
          BY <2>2, <3>1, WaitsNow
        <4>2. send'[k].ack # "rejected"
          BY <1>3, <4>1 DEF Waits
        <4>3. QED
          BY <1>1, <2>1, <4>1, <4>2, ClosedHandles DEF Waits, Shuts
      <3>2. QED
        BY <3>1
    <2>4. ~UnderWay(k)'
      <3> SUFFICES ASSUME UnderWay(k)' PROVE FALSE
        OBVIOUS
      <3>1. Pending(k)'
        BY DEF UnderWay, Pending
      <3>2. UnderWay(k) /\ k \notin about
        BY <1>2, <2>1, <2>2, <3>1 DEF UnderWay, Shuts, Pending, Progress
      <3>3. QED
        BY <1>3, <3>2 DEF UnderWay
    <2>5. QED
      BY <1>1, <2>1, <2>3, <2>4, ClosedHandles, ShutTurn
  <1>10. QED
    BY <1>5, <1>6, <1>7, <1>8, <1>9 DEF CodexInv
LEMMA StopKeeps ==
    ASSUME CodexInv, Stop
    PROVE  CodexInv'
  <1>0. CodexTypeOK /\ Attached /\ Maps
    BY DEF CodexInv
  <1>1. /\ Closes /\ stopping' = "closing" /\ UNCHANGED <<generation, registered, faults>>
    BY DEF Stop
  <1>2. PICK current : /\ current = {handle[h].current : h \in Registered}
                       /\ send' = [k \in Send |->
                            IF k \in current
                            THEN [Settled(SendsClosed(Send)[k], "rejected") EXCEPT !.aborted = TRUE]
                            ELSE SendsClosed(Send)[k]]
    BY DEF Stop
  <1>3. ASSUME NEW k \in Send
        PROVE  /\ send'[k] \in SendState /\ Shuts(k, send'[k])
               /\ k \in current => send'[k].aborted
    <2>1. PICK n \in SendState : n = SendsClosed(Send)[k] /\ Shuts(k, n)
      BY SendShut
    <2>2. CASE k \in current
      <3>1. PICK h \in Handle : handle[h].current = k
        BY <1>2, <2>2, ClosingHandles
      <3>2. send[k].job # "none"
        BY <1>0, <3>1, Numbers DEF Maps, CodexInv, TurnInv, Progress
      <3>3. PICK o : o = Settled(n, "rejected")
        OBVIOUS
      <3>4. /\ o \in SendState /\ o.on = n.on /\ o.run = n.run /\ o.server = n.server
            /\ o.aborted = n.aborted /\ o.misled = n.misled /\ o.job = n.job
            /\ o.ack = (IF n.ack = "pending" THEN "rejected" ELSE n.ack)
        BY <3>3 DEF Settled, SendState
      <3>5. PICK m : m = [o EXCEPT !.aborted = TRUE]
        OBVIOUS
      <3>6. /\ m \in SendState /\ m.on = o.on /\ m.run = o.run /\ m.server = o.server
            /\ m.aborted /\ m.misled = o.misled /\ m.job = o.job /\ m.ack = o.ack
        BY <3>4, <3>5 DEF SendState
      <3>7. send'[k] = m
        BY <1>2, <2>1, <2>2, <3>3, <3>5
      <3>8. Shuts(k, m)
        BY <2>1, <3>2, <3>4, <3>6 DEF Shuts
      <3>9. QED
        BY <3>6, <3>7, <3>8
    <2>3. CASE k \notin current
      BY <1>2, <2>1, <2>3
    <2>4. QED
      BY <2>2, <2>3
  <1>4. send' \in [Send -> SendState]
    <2>1. send' = [k \in Send |-> send'[k]]
      BY <1>2
    <2>2. QED
      BY <1>3, <2>1
  <1>5. CodexTypeOK'
    BY <1>0, <1>1, <1>4, ClosedHandles DEF CodexTypeOK
  <1>6. Attached'
    BY <1>0, <1>1, ClosedHandles DEF Attached
  <1>7. Maps'
    BY <1>1, <1>3, ClosedHandles, MapsKept DEF Shuts
  <1>8. ASSUME NEW k \in Send, Pending(k) PROVE send'[k].aborted
    <2>1. send[k].on \in Registered /\ handle[send[k].on].current = k
      BY <1>8, ClosingHandles, WaitsNow DEF Waits
    <2>2. QED
      BY <1>2, <1>3, <2>1
  <1>9. Stopping'
    <2>1. ASSUME NEW k \in Send, send'[k].job = "queued" PROVE send'[k].aborted
      <3>1. send[k].job = "queued"
        BY <1>3, <2>1 DEF Shuts
      <3>2. CASE send[k].aborted
        BY <1>3, <3>2 DEF Shuts
      <3>3. CASE ~send[k].aborted
        BY <1>8, <3>1, <3>3 DEF Pending
      <3>4. QED
        BY <3>2, <3>3
    <2>2. QED
      BY <1>1, <2>1, ClosedHandles DEF Stopping
  <1>10. ASSUME NEW k \in Send PROVE TurnInv(k)'
    <2>1. Shuts(k, send'[k]) /\ Progress(k)
      BY <1>3 DEF CodexInv, TurnInv
    <2>2. Pending(k)' => Pending(k)
      BY <2>1, <1>1, ClosedHandles, ClosedQueue DEF Pending, Shuts, Progress
    <2>3. ~Pending(k)'
      BY <1>8, <2>2 DEF Pending
    <2>4. ~UnderWay(k)'
      BY <2>3 DEF UnderWay, Pending
    <2>5. QED
      BY <1>1, <2>1, <2>3, <2>4, ClosedHandles, ShutTurn
  <1>11. QED
    BY <1>5, <1>6, <1>7, <1>9, <1>10 DEF CodexInv

LEMMA StoppedKeeps ==
    ASSUME CodexInv, Stopped
    PROVE  CodexInv'
  <1>0. CodexTypeOK /\ Attached /\ Maps /\ Stopping
    BY DEF CodexInv
  <1>1. /\ stopping = "closing" /\ turnQueue = <<>> /\ stopping' = "stopped"
        /\ registered' = [s \in Session |-> NoHandle]
        /\ UNCHANGED <<link, generation, known, send, turnQueue, faults>>
    BY DEF Stopped
  <1>2. PICK R : handle' = [h \in Handle |-> IF h \in R THEN [handle[h] EXCEPT !.open = "closed"]
                                             ELSE handle[h]]
    BY DEF Stopped
  <1>3. ASSUME NEW h \in Handle
        PROVE  /\ handle'[h] \in HandleState /\ handle'[h].current = handle[h].current
               /\ handle'[h].attached = handle[h].attached
    <2>1. handle[h] \in HandleState
      BY <1>0 DEF CodexTypeOK
    <2>2. QED
      BY <1>2, <2>1 DEF HandleState
  <1>4. CodexTypeOK' /\ Attached'
    <2>1. handle' \in [Handle -> HandleState]
      BY <1>2, <1>3
    <2>2. CodexTypeOK'
      BY <1>0, <1>1, <2>1 DEF CodexTypeOK
    <2>3. QED
      BY <1>0, <1>1, <1>3, <2>2 DEF Attached
  <1>5. Maps' /\ Stopping'
    BY <1>0, <1>1, <1>3 DEF Maps, Stopping
  <1>6. ASSUME NEW k \in Send PROVE TurnInv(k)'
    <2>1. ~Running(k) /\ ~InQueue(k)
      BY <1>1 DEF Running, InQueue
    <2>2. ~Pending(k) /\ ~UnderWay(k)
      BY <2>1, WaitsNow DEF Pending, UnderWay, InTurn
    <2>3. InTurn(k)' /\ Linked(k)'
      BY <1>1, WaitsNow DEF InTurn, InQueue, Running, Linked
    <2>4. QED
      BY <1>1, <2>2, <2>3, LeftAlone
  <1>7. QED
    BY <1>4, <1>5, <1>6 DEF CodexInv
----------------------------------------------------------------------------
(* A session is disconnected.                                              *)

LEMMA DisconnectedKeeps ==
    ASSUME CodexInv, NEW h \in Handle, Disconnected(h)
    PROVE  CodexInv'
  <1>0. CodexTypeOK /\ Attached /\ Maps /\ Stopping
    BY DEF CodexInv
  <1>1. /\ handle[h].open = "closing"
        /\ registered' = [s \in Session |-> IF registered[s] = h THEN NoHandle ELSE registered[s]]
        /\ handle' = [handle EXCEPT ![h].open = "closed"]
        /\ UNCHANGED <<link, generation, known, send, turnQueue, stopping, faults>>
    BY DEF Disconnected
  <1>2. /\ handle' \in [Handle -> HandleState]
        /\ \A g \in Handle : /\ handle'[g].of = handle[g].of
                             /\ handle[g].open # "no" => handle'[g].open # "no"
                             /\ handle'[g].current = handle[g].current
                             /\ handle'[g].attached = handle[g].attached
                             /\ g # h => handle'[g] = handle[g]
    BY <1>0, <1>1 DEF CodexTypeOK, HandleState
  <1>3. registered' \in [Session -> Handle \union {NoHandle}]
    BY <1>0, <1>1 DEF CodexTypeOK
  <1>4. CodexTypeOK' /\ Attached'
    BY <1>0, <1>1, <1>2, <1>3 DEF CodexTypeOK, Attached
  <1>5. Maps'
    <2>1. ASSUME NEW s \in Session, registered'[s] # NoHandle
          PROVE  handle'[registered'[s]].of = s /\ handle'[registered'[s]].open # "no"
      <3>1. registered'[s] = registered[s] /\ registered[s] \in Handle
        BY <1>0, <1>1, <2>1 DEF CodexTypeOK
      <3>2. QED
        BY <1>0, <1>2, <2>1, <3>1 DEF Maps
    <2>2. QED
      BY <1>0, <1>1, <1>2, <2>1 DEF Maps
  <1>6. Stopping'
    BY <1>0, <1>1 DEF Stopping
  <1>7. ASSUME NEW k \in Send PROVE TurnInv(k)'
    <2>1. Pending(k) => send[k].on # h /\ Waits(k)'
      <3>1. ASSUME Pending(k) PROVE send[k].on # h /\ Waits(k)'
        <4>1. Waits(k) /\ send[k].on \in Handle
          BY <3>1, WaitsNow
        <4>2. send[k].on # h /\ handle'[send[k].on] = handle[send[k].on]
          BY <1>1, <1>2, <4>1 DEF Waits
        <4>3. handle[send[k].on].of \in Session
          BY <1>0, <4>1 DEF CodexTypeOK, HandleState
        <4>4. QED
          BY <1>1, <4>1, <4>2, <4>3 DEF Waits
      <3>2. QED
        BY <3>1
    <2>2. UnderWay(k) => Latched(k)'
      BY <1>1, <1>2, <2>1, WaitsNow, UnderWayPending DEF Latched
    <2>3. InTurn(k)' /\ Linked(k)'
      BY <1>1, WaitsNow DEF InTurn, InQueue, Running, Linked
    <2>4. QED
      BY <1>1, <2>1, <2>2, <2>3, LeftAlone
  <1>8. QED
    BY <1>4, <1>5, <1>6, <1>7 DEF CodexInv

(* What disconnect makes of a send: it marks the ends of turns and aborts. *)
LEMMA DisconnectKeeps ==
    ASSUME CodexInv, NEW h \in Handle, Disconnect(h)
    PROVE  CodexInv'
  <1>0. CodexTypeOK /\ Attached /\ Maps
    BY DEF CodexInv
  <1>1. /\ handle[h].open = "yes" /\ faults < MaxFaults /\ faults' = faults + 1
        /\ known' = known \ {h} /\ UNCHANGED <<link, generation, registered, turnQueue, stopping>>
    BY DEF Disconnect, Fault
  <1>2. PICK k \in Send \union {NoSend} : k = handle[h].current
    BY <1>0 DEF CodexTypeOK, HandleState
  <1>3. PICK A \in [Send -> SendState] : A = Aborted(h)
    BY <1>0, AbortedTypes
  <1>4. \A j \in Send : Aborts(j, A[j], h)
    BY <1>3, Aborting
  <1>5. PICK H \in SUBSET {h}, S \in [Send -> SendState], hs \in [Handle -> HandleState] :
          /\ \A j \in Send : \E about : Marks(j, S[j], H, about)
          /\ \A g \in Handle : /\ hs[g].of = handle[g].of /\ hs[g].open = handle[g].open
                               /\ hs[g].current = handle[g].current
                               /\ hs[g].attached = handle[g].attached
                               /\ g # h => hs[g] = handle[g]
          /\ send' = [j \in Send |->
                        [(IF j = k THEN Settled(S[j], "rejected") ELSE S[j])
                           EXCEPT !.aborted = A[j].aborted, !.interrupted = A[j].interrupted]]
          /\ handle' = [hs EXCEPT ![h].open = "closing"]
    <2> DEFINE over == k = NoSend \/ send[k].terminal
               whom == {j \in Send : send[j].job # "attach"}
               settled == IF over THEN send ELSE SendsEnded({h}, whom, TRUE)
               hands == IF over THEN handle ELSE HandlesEnded({h})
    <2>1. /\ send' = [j \in Send |->
                        [(IF j = k THEN Settled(settled[j], "rejected") ELSE settled[j])
                           EXCEPT !.aborted = A[j].aborted, !.interrupted = A[j].interrupted]]
          /\ handle' = [hands EXCEPT ![h].open = "closing"]
      BY <1>2, <1>3 DEF Disconnect
    <2>2. CASE over
      <3>1. settled = send /\ hands = handle
        BY <2>2
      <3>2. send \in [Send -> SendState] /\ handle \in [Handle -> HandleState]
        BY <1>0 DEF CodexTypeOK
      <3>3. \A j \in Send : Marks(j, send[j], {}, {})
        BY DEF Marks
      <3> HIDE DEF settled, hands
      <3>4. QED
        BY <2>1, <3>1, <3>2, <3>3
    <2>3. CASE ~over
      <3>1. settled = SendsEnded({h}, whom, TRUE) /\ hands = HandlesEnded({h})
        BY <2>3
      <3> HIDE DEF settled, hands, whom
      <3>2. settled \in [Send -> SendState] /\ hands \in [Handle -> HandleState]
        BY <1>0, <3>1, MarksTypes
      <3>3. \A j \in Send : Marks(j, settled[j], {h}, whom)
        BY <3>1, Marking
      <3>4. \A g \in Handle : /\ hands[g].of = handle[g].of /\ hands[g].open = handle[g].open
                              /\ hands[g].current = handle[g].current
                              /\ hands[g].attached = handle[g].attached
                              /\ g # h => hands[g] = handle[g]
        BY <1>0, <3>1, EndedHandles
      <3>5. QED
        BY <2>1, <3>2, <3>3, <3>4
    <2>4. QED
      BY <2>2, <2>3
  <1>6. ASSUME NEW j \in Send
        PROVE  /\ send'[j] \in SendState /\ send'[j].on = send[j].on
               /\ send'[j].run = send[j].run /\ send'[j].server = send[j].server
               /\ send'[j].job = send[j].job
               /\ send'[j].ack = (IF j = k /\ send[j].ack = "pending" THEN "rejected" ELSE send[j].ack)
               /\ send'[j].aborted <=> send[j].aborted \/ j = k
               /\ send'[j].interrupted <=> A[j].interrupted
               /\ send[j].misled => send'[j].misled
               /\ send[j].on \notin H => /\ send'[j].terminal <=> send[j].terminal
                                         /\ send'[j].idle <=> send[j].idle
    <2>0. PICK about : Marks(j, S[j], H, about)
      BY <1>5
    <2>1. PICK n \in SendState : n = S[j] /\ Marks(j, n, H, about)
      BY <1>5, <2>0
    <2>2. PICK a \in SendState : a = A[j] /\ Aborts(j, a, h)
      BY <1>4
    <2>3. PICK o : o = IF j = k THEN Settled(n, "rejected") ELSE n
      OBVIOUS
    <2>4. /\ o \in SendState /\ o.on = n.on /\ o.run = n.run /\ o.server = n.server /\ o.job = n.job
          /\ o.ack = (IF j = k /\ n.ack = "pending" THEN "rejected" ELSE n.ack)
          /\ o.misled = n.misled /\ o.terminal = n.terminal /\ o.idle = n.idle
      <3>1. CASE j = k /\ n.ack = "pending"
        <4>1. o = [n EXCEPT !.ack = "rejected"]
          BY <2>3, <3>1 DEF Settled
        <4>2. QED
          BY <3>1, <4>1 DEF SendState
      <3>2. CASE ~(j = k /\ n.ack = "pending")
        <4>1. o = n
          BY <2>3, <3>2 DEF Settled
        <4>2. QED
          BY <3>2, <4>1
      <3>3. QED
        BY <3>1, <3>2
    <2>5. PICK x \in BOOLEAN, y \in BOOLEAN : x = a.aborted /\ y = a.interrupted
      BY DEF SendState
    <2>6. PICK m : m = [o EXCEPT !.aborted = x, !.interrupted = y]
      OBVIOUS
    <2>7. /\ m \in SendState /\ m.on = o.on /\ m.run = o.run /\ m.server = o.server
          /\ m.job = o.job /\ m.ack = o.ack /\ m.aborted = x /\ m.interrupted = y
          /\ m.misled = o.misled /\ m.terminal = o.terminal /\ m.idle = o.idle
      BY <2>4, <2>6 DEF SendState
    <2>8. send'[j] = m
      BY <1>5, <2>1, <2>2, <2>3, <2>5, <2>6
    <2>9. m.aborted <=> send[j].aborted \/ j = k
      BY <1>2, <2>2, <2>5, <2>7 DEF Aborts
    <2>10. /\ m.on = send[j].on /\ m.run = send[j].run /\ m.server = send[j].server
           /\ m.job = send[j].job
           /\ m.ack = (IF j = k /\ send[j].ack = "pending" THEN "rejected" ELSE send[j].ack)
           /\ send[j].misled => m.misled
           /\ send[j].on \notin H => (m.terminal <=> send[j].terminal) /\ (m.idle <=> send[j].idle)
      BY <2>1, <2>4, <2>7 DEF Marks
    <2>11. m.interrupted <=> A[j].interrupted
      BY <2>2, <2>5, <2>7
    <2>12. QED
      BY <2>7, <2>8, <2>9, <2>10, <2>11, Zenon
  <1>7. send' \in [Send -> SendState]
    <2>1. send' = [j \in Send |-> send'[j]]
      BY <1>5
    <2>2. QED
      BY <1>6, <2>1
  <1>8. /\ handle' \in [Handle -> HandleState]
        /\ \A g \in Handle : /\ handle'[g].of = handle[g].of
                             /\ handle[g].open # "no" => handle'[g].open # "no"
                             /\ handle'[g].current = handle[g].current
                             /\ handle'[g].attached = handle[g].attached
                             /\ g # h => handle'[g] = handle[g]
    <2>1. PICK n \in HandleState : n = hs[h]
      OBVIOUS
    <2>2. PICK m : m = [n EXCEPT !.open = "closing"]
      OBVIOUS
    <2>3. /\ m \in HandleState /\ m.of = n.of /\ m.open = "closing" /\ m.current = n.current
          /\ m.attached = n.attached
      BY <2>2 DEF HandleState
    <2>4. handle' = [hs EXCEPT ![h] = m]
      BY <1>5, <2>1, <2>2
    <2>5. handle'[h] = m /\ \A g \in Handle : g # h => handle'[g] = hs[g]
      BY <2>4
    <2>6. handle' \in [Handle -> HandleState]
      BY <2>3, <2>4
    <2>7. QED
      BY <1>5, <2>1, <2>3, <2>5, <2>6, ZenonT(60)
  <1>9. CodexTypeOK'
    <2>1. faults' \in 0 .. MaxFaults /\ known' \subseteq Handle
      BY <1>0, <1>1, Generations, Bounds DEF CodexTypeOK
    <2>2. QED
      BY <1>0, <1>1, <1>7, <1>8, <2>1 DEF CodexTypeOK
  <1>10. Attached'
    <2>1. faults' \in 0 .. MaxFaults /\ faults <= faults'
      BY <1>1, Generations, Bounds
    <2>2. QED
      BY <1>1, <1>8, <2>1, StaysAttached
  <1>11. Maps' /\ Stopping'
    BY <1>1, <1>6, <1>8, MapsStay
  <1>12. ASSUME NEW j \in Send, j = k PROVE TurnInv(j)'
    <2>1. TurnInv(j) /\ send'[j].aborted /\ send[j].on = h /\ send[j].job # "none"
      BY <1>0, <1>2, <1>6, <1>12, Numbers DEF Maps, CodexInv, TurnInv, Progress
    <2>2. ~Pending(j)' /\ ~UnderWay(j)'
      BY <2>1 DEF Pending, UnderWay
    <2>3. Progress(j)' /\ InTurn(j)' /\ Linked(j)'
      BY <1>1, <1>6, <2>1 DEF TurnInv, Progress, InTurn, InQueue, Running, Linked
    <2>4. Acknowledged(j)' /\ Concluded(j)'
      BY <2>1 DEF Acknowledged, Concluded
    <2>5. send[j].interrupted => send'[j].interrupted
      BY <1>4, <1>6 DEF Aborts
    <2>6. Held(j)'
      BY <1>6, <2>1, <2>5 DEF TurnInv, Held
    <2>7. Interrupts(j)'
      <3>1. ASSUME send[j].job = "hold", send[j].server = "live", ~send[j].misled
            PROVE  send'[j].interrupted
        <4>1. CASE send[j].aborted
          BY <2>1, <2>5, <3>1, <4>1 DEF TurnInv, Interrupts
        <4>2. CASE ~send[j].aborted
          BY <1>2, <1>4, <1>6, <1>12, <3>1, <4>2 DEF Aborts
        <4>3. QED
          BY <4>1, <4>2
      <3>2. QED
        BY <1>6, <3>1 DEF Interrupts
    <2>8. QED
      BY <2>2, <2>3, <2>4, <2>6, <2>7 DEF TurnInv, Awaited, Unheard
  <1>13. ASSUME NEW j \in Send, j # k PROVE TurnInv(j)'
    <2>1. GoesOn(j) /\ (send'[j].aborted <=> send[j].aborted)
      BY <1>4, <1>6, <1>13 DEF GoesOn, Aborts
    <2>2. send[j].job = "none" => ~send'[j].terminal /\ ~send'[j].idle
      BY <1>6, Numbers DEF CodexInv, TurnInv, Progress
    <2>3. Pending(j)' => Pending(j)
      BY <2>1 DEF GoesOn, Pending
    <2>4. Pending(j) => /\ send[j].on # h /\ send[j].on \in Handle /\ Waits(j)
                        /\ handle'[send[j].on] = handle[send[j].on]
      BY <1>2, <1>8, <1>13, WaitsNow DEF Waits
    <2>5. Pending(j)' => Waits(j)'
      BY <1>1, <2>1, <2>3, <2>4 DEF Waits, GoesOn
    <2>6. UnderWay(j)' => ~send'[j].terminal /\ ~send'[j].idle /\ Latched(j)'
      <3> SUFFICES ASSUME UnderWay(j)' PROVE ~send'[j].terminal /\ ~send'[j].idle /\ Latched(j)'
        OBVIOUS
      <3>1. UnderWay(j)
        BY <2>1 DEF UnderWay, GoesOn
      <3>2. send[j].on \notin H /\ handle'[send[j].on] = handle[send[j].on]
        BY <2>4, <3>1, UnderWayPending
      <3>3. ~send[j].terminal /\ ~send[j].idle /\ Latched(j)
        BY <3>1 DEF CodexInv, TurnInv, Unheard
      <3>4. ~send'[j].terminal /\ ~send'[j].idle
        BY <1>6, <3>2, <3>3
      <3>5. QED
        BY <2>1, <3>2, <3>3, <3>4 DEF Latched, GoesOn
    <2>7. InTurn(j)' /\ Linked(j)'
      BY <1>1, <2>1, WaitsNow DEF InTurn, InQueue, Running, Linked, GoesOn
    <2>8. QED
      BY <2>1, <2>2, <2>5, <2>6, <2>7, GoingOn
  <1>14. QED
    BY <1>9, <1>10, <1>11, <1>12, <1>13 DEF CodexInv
----------------------------------------------------------------------------
(* The theorems.                                                           *)

LEMMA NextKeeps == CodexInv /\ [CodexNext]_codexVars => CodexInv'
  <1> SUFFICES ASSUME CodexInv, [CodexNext]_codexVars PROVE CodexInv'
    OBVIOUS
  <1>1. CASE Initialized
    BY <1>1, InitializedKeeps
  <1>2. CASE AppServerDies
    BY <1>2, AppServerDiesKeeps
  <1>3. CASE Stop
    BY <1>3, StopKeeps
  <1>4. CASE Stopped
    BY <1>4, StoppedKeeps
  <1>5. CASE \E s \in Session : OpenSession(s) \/ RunTurn(s)
    BY <1>5, OpenSessionKeeps, RunTurnKeeps
  <1>6. CASE \E h \in Handle : AbortTurn(h) \/ Disconnect(h) \/ Disconnected(h)
    BY <1>6, AbortTurnKeeps, DisconnectKeeps, DisconnectedKeeps
  <1>7. CASE \E k \in Send : RunTurnReturns(k) \/ RunTurnTimesOut(k) \/ RefuseTurn(k)
    BY <1>7, RunTurnReturnsKeeps, RunTurnTimesOutKeeps, RefuseTurnKeeps
  <1>8. CASE \E k \in Send : JobStep(k)
    BY <1>8, SkipTurnKeeps, BeginTurnKeeps, AttachTurnKeeps, TurnStartedKeeps, ReleaseTurnKeeps
       DEF JobStep
  <1>9. CASE \E k \in Send : ServerStep(k)
    BY <1>9, AcceptTurnKeeps, ConcludeKeeps DEF ServerStep
  <1>10. CASE UNCHANGED codexVars
    <2>1. UNCHANGED <<link, generation, known, registered, handle, send, turnQueue, stopping, faults>>
      BY <1>10 DEF codexVars
    <2>2. CodexTypeOK' /\ Attached' /\ Maps' /\ Stopping'
      BY <2>1 DEF CodexInv, CodexTypeOK, Attached, Maps, Stopping
    <2>3. ASSUME NEW k \in Send PROVE TurnInv(k)'
      BY <2>1, WaitsNow, LeftAlone DEF Waits, Latched, InTurn, InQueue, Running, Linked
    <2>4. QED
      BY <2>2, <2>3 DEF CodexInv
  <1>11. QED
    BY <1>1, <1>2, <1>3, <1>4, <1>5, <1>6, <1>7, <1>8, <1>9, <1>10 DEF CodexNext

LEMMA CodexInvariant == CodexSpec => []CodexInv
  BY InitTurns, NextKeeps, PTL DEF CodexSpec

(* The type invariant: every job, handle and turn of the client and of the *)
(* app-server stays among its values, whatever is aborted, closed or lost. *)
THEOREM CodexTypes == CodexSpec => []CodexTypeOK
  <1>1. CodexInv => CodexTypeOK
    BY DEF CodexInv
  <1>2. QED
    BY <1>1, CodexInvariant, PTL

(* runTurn reports a turn completed only when the app-server has concluded *)
(* that turn or died with it, unless the turn was aborted or marked        *)
(* terminal by an event about another turn.                                *)
THEOREM CompletedConcluded == CodexSpec => []CompletedMeansConcluded
  <1>1. CodexInv => CompletedMeansConcluded
    BY DEF CodexInv, TurnInv, Concluded, CompletedMeansConcluded
  <1>2. QED
    BY <1>1, CodexInvariant, PTL

(* The turn queue of the client serializes its sessions: of the turns that *)
(* nothing interrupted or ended out of turn, one at most runs on the       *)
(* app-server.                                                             *)
THEOREM OneAtATime == CodexSpec => []OneTurnAtATime
  <1>1. CodexInv => OneTurnAtATime
    <2> SUFFICES ASSUME CodexInv,
                        NEW j \in {i \in Send : send[i].server = "live" /\ ~send[i].interrupted
                                                /\ ~send[i].misled},
                        NEW k \in {i \in Send : send[i].server = "live" /\ ~send[i].interrupted
                                                /\ ~send[i].misled}
                 PROVE  j = k
      BY DEF OneTurnAtATime
    <2>1. Running(j) /\ Running(k)
      BY DEF CodexInv, TurnInv, Held, InTurn
    <2>2. QED
      BY <2>1 DEF Running
  <1>2. QED
    BY <1>1, CodexInvariant, PTL
===============================================================================
