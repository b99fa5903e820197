---------------------------- MODULE TurnWaitProofs ----------------------------
(***************************************************************************)
(* Proofs about TurnWait for every set of waits and every number of        *)
(* detours.                                                                *)
(***************************************************************************)
EXTENDS TurnWait, SequenceTheorems, TLAPS

----------------------------------------------------------------------------
LEMMA Published0 == [version |-> 0, status |-> "none", responseVersion |-> 0] \in Published
  BY DEF Published, StatusValue

LEMMA DetourCounted ==
    ASSUME TurnWaitTypeOK, Detour PROVE detours' \in 0 .. MaxDetours
  BY DetoursAssumption DEF TurnWaitTypeOK, Detour

(* What the orchestration publishes and writes.                            *)
LEMMA PublishTypes ==
    ASSUME TurnWaitTypeOK, NEW value \in StatusValue, NEW number \in Nat,
           publishStatus(value, number)
    PROVE  status' \in Published
  BY DEF TurnWaitTypeOK, publishStatus, Published

LEMMA RespondTypes ==
    ASSUME TurnWaitTypeOK, NEW type \in {"completed", "wait", "input_required"},
           writeLatestResponse(type)
    PROVE  response' \in Response
  BY DEF TurnWaitTypeOK, writeLatestResponse, Response

LEMMA ResponseVersion == TurnWaitTypeOK => response.version \in Nat /\ response.version + 1 \in Nat
  BY DEF TurnWaitTypeOK, Response

LEMMA StatusValues == {"none", "running", "idle", "waiting", "input_required", "error"} = StatusValue
  BY DEF StatusValue

(* The steps of the orchestration.                                         *)
LEMMA OrchestrationTypes ==
    ASSUME TurnWaitTypeOK, OrchestrationTurn PROVE TurnWaitTypeOK'
  <1> USE ResponseVersion, StatusValues
  <1>1. CASE StartTurn
    <2>1. Head(queue) \in Queued /\ Tail(queue) \in Seq(Queued)
      BY <1>1, HeadTailProperties DEF StartTurn, TurnWaitTypeOK
    <2>2. turnFor' \in Asker /\ asking' \in Asker
      BY <1>1, <2>1 DEF StartTurn, Queued, TurnWaitTypeOK, Asker
    <2>3. status' \in Published
      BY <1>1, PublishTypes DEF StartTurn
    <2>4. QED
      BY <1>1, <2>1, <2>2, <2>3 DEF StartTurn, TurnWaitTypeOK, clientVars
  <1>2. CASE CompleteTurn
    BY <1>2, PublishTypes, RespondTypes DEF CompleteTurn, Respond, TurnWaitTypeOK, clientVars, Asker
  <1>3. CASE WaitInTurn
    BY <1>3, PublishTypes, RespondTypes, DetourCounted
       DEF WaitInTurn, Respond, TurnWaitTypeOK, clientVars
  <1>4. CASE AskInTurn
    BY <1>4, PublishTypes, RespondTypes, DetourCounted
       DEF AskInTurn, Respond, TurnWaitTypeOK, clientVars, Asker
  <1>5. CASE CompleteBeforeTimer
    BY <1>5, RespondTypes, DetourCounted DEF CompleteBeforeTimer, TurnWaitTypeOK, clientVars
  <1>6. CASE PublishTimer
    BY <1>6, PublishTypes DEF PublishTimer, TurnWaitTypeOK, clientVars, Asker
  <1>7. CASE WaitOver
    BY <1>7, PublishTypes DEF WaitOver, TurnWaitTypeOK, clientVars
  <1>8. CASE GiveTurnUp
    BY <1>8, PublishTypes, DetourCounted DEF GiveTurnUp, TurnWaitTypeOK, clientVars, Asker
  <1>9. QED
    BY <1>1, <1>2, <1>3, <1>4, <1>5, <1>6, <1>7, <1>8 DEF OrchestrationTurn

(* The steps of the client.                                                *)
LEMMA ClientTypes ==
    ASSUME TurnWaitTypeOK, NEW w \in Wait, SendAndWait(w) \/ Client(w) \/ Timeout(w)
    PROVE  TurnWaitTypeOK'
  <1> USE ResponseVersion
  <1>0. wait[w] \in Local /\ queue \in Seq(Queued) /\ wait \in [Wait -> Local]
    BY DEF TurnWaitTypeOK
  <1>1. CASE SendAndWait(w)
    <2>1. queue' \in Seq(Queued)
      <3>1. [kind |-> "prompt", by |-> w] \in Queued
        BY DEF Queued
      <3>2. QED
        BY <1>0, <1>1, <3>1, AppendProperties DEF SendAndWait
    <2>2. wait' \in [Wait -> Local]
      BY <1>0, <1>1 DEF SendAndWait, Local, TurnWaitTypeOK
    <2>3. overlapped' \subseteq Wait
      BY <1>1 DEF SendAndWait, TurnWaitTypeOK
    <2>4. QED
      BY <1>1, <2>1, <2>2, <2>3 DEF SendAndWait, TurnWaitTypeOK, orchVars
  <1>2. CASE Poll(w)
    <2>1. wait' \in [Wait -> Local]
      BY <1>0, <1>2 DEF Poll, Local, Published, TurnWaitTypeOK
    <2>2. QED
      BY <1>2, <2>1 DEF Poll, TurnWaitTypeOK, orchVars
  <1>3. CASE ReadAnswer(w)
    <2>1. response.for \in Asker /\ wait[w].seenStatus \in Nat
      BY <1>0 DEF TurnWaitTypeOK, Response, Local
    <2>2. wait' \in [Wait -> Local]
      BY <1>0, <1>3, <2>1 DEF ReadAnswer, Local, TurnWaitTypeOK
    <2>3. QED
      BY <1>3, <2>1, <2>2 DEF ReadAnswer, TurnWaitTypeOK, orchVars
  <1>4. CASE ReadOther(w)
    <2>1. wait' \in [Wait -> Local]
      BY <1>0, <1>4 DEF ReadOther, Local, TurnWaitTypeOK
    <2>2. QED
      BY <1>4, <2>1 DEF ReadOther, TurnWaitTypeOK, orchVars
  <1>5. CASE AnswerQuestion(w)
    <2>1. queue' \in Seq(Queued)
      <3>1. [kind |-> "answer", by |-> w] \in Queued
        BY DEF Queued
      <3>2. QED
        BY <1>0, <1>5, <3>1, AppendProperties DEF AnswerQuestion
    <2>2. wait' \in [Wait -> Local]
      BY <1>0, <1>5 DEF AnswerQuestion, Local
    <2>3. QED
      BY <1>5, <2>1, <2>2 DEF AnswerQuestion, TurnWaitTypeOK, orchVars
  <1>6. CASE Timeout(w)
    <2>1. wait' \in [Wait -> Local] /\ wait[w].seenResponse \in Nat
      BY <1>0, <1>6 DEF Timeout, Local
    <2>2. QED
      BY <1>6, <2>1 DEF Timeout, TurnWaitTypeOK, orchVars
  <1>7. CASE ReadFails(w)
    <2>1. wait[w].snapshot.responseVersion \in Nat
      BY <1>0 DEF Local, Published
    <2>2. wait' \in [Wait -> Local]
      BY <1>0, <1>7, <2>1 DEF ReadFails, Local, TurnWaitTypeOK
    <2>3. QED
      BY <1>7, <2>2 DEF ReadFails, TurnWaitTypeOK, orchVars
  <1>8. QED
    BY <1>1, <1>2, <1>3, <1>4, <1>5, <1>6, <1>7 DEF Client

(* Every variable keeps its type.                                          *)
THEOREM TypeCorrect == TurnWaitSpec => []TurnWaitTypeOK
  <1>1. TurnWaitInit => TurnWaitTypeOK
    <2> SUFFICES ASSUME TurnWaitInit PROVE TurnWaitTypeOK
      OBVIOUS
    <2>1. status \in Published /\ response \in Response
      BY Published0 DEF TurnWaitInit, Response, Asker
    <2>2. wait \in [Wait -> Local]
      BY <2>1 DEF TurnWaitInit, Local, Asker
    <2>3. timerDue \in BOOLEAN
      BY Zenon DEF TurnWaitInit
    <2>4. QED
      BY <2>1, <2>2, <2>3, DetoursAssumption DEF TurnWaitInit, TurnWaitTypeOK, Asker
  <1>2. TurnWaitTypeOK /\ [TurnWaitNext]_turnWaitVars => TurnWaitTypeOK'
    <2> SUFFICES ASSUME TurnWaitTypeOK, [TurnWaitNext]_turnWaitVars PROVE TurnWaitTypeOK'
      OBVIOUS
    <2>1. CASE UNCHANGED turnWaitVars
      BY <2>1 DEF turnWaitVars, orchVars, clientVars, TurnWaitTypeOK
    <2>2. QED
      BY <2>1, OrchestrationTypes, ClientTypes DEF TurnWaitNext
  <1>3. QED
    BY <1>1, <1>2, PTL DEF TurnWaitSpec

----------------------------------------------------------------------------
(* As long as a wait does not overlap with another one, everything that    *)
(* goes on in the session is about its prompt, and so is any response      *)
(* beyond those it has seen.                                               *)
Undisturbed(w) == Waiting(w) /\ w \notin overlapped
Tied(w) ==
    /\ \A v \in Wait \ {w} : ~Waiting(v)
    /\ \A i \in DOMAIN queue : queue[i].by = w
    /\ turnFor \in {w, Nobody} /\ asking \in {w, Nobody}
    /\ response.version > wait[w].seenResponse => response.for = w
    /\ wait[w].pc = "read" => response.version > wait[w].seenResponse
WaitsTied == \A w \in Wait : Undisturbed(w) => Tied(w)
StatusBehind == status.responseVersion <= response.version
AnswerInv == WaitsTied /\ StatusBehind /\ OwnAnswerReturned

LEMMA Versions ==
    TurnWaitTypeOK =>
      /\ response.version \in Nat /\ status.responseVersion \in Nat
      /\ \A w \in Wait : wait[w].seenResponse \in Nat
  BY DEF TurnWaitTypeOK, Response, Published, Local

(* A new response is about the prompt the turn serves.                     *)
LEMMA ResponseTied ==
    ASSUME TurnWaitTypeOK, AnswerInv, NEW type, writeLatestResponse(type), TurnRunning,
           UNCHANGED <<queue, clientVars>>, turnFor' \in {turnFor, Nobody},
           asking' \in {asking, turnFor}
    PROVE  WaitsTied' /\ OwnAnswerReturned'
  <1>1. OwnAnswerReturned'
    BY DEF AnswerInv, OwnAnswerReturned, clientVars
  <1>2. ASSUME NEW w \in Wait, Undisturbed(w)' PROVE Tied(w)'
    <2>1. Undisturbed(w) /\ Tied(w)
      BY <1>2 DEF Undisturbed, Waiting, clientVars, AnswerInv, WaitsTied
    <2>2. turnFor = w
      BY <2>1 DEF Tied, TurnRunning
    <2>3. response'.version = response.version + 1 /\ response'.for = w
      BY <2>2 DEF writeLatestResponse
    <2>4. wait[w].pc = "read" => response'.version > wait'[w].seenResponse
      BY <2>1, <2>3, Versions DEF Tied, clientVars
    <2>5. QED
      BY <2>1, <2>2, <2>3, <2>4 DEF Tied, Waiting, clientVars
  <1>3. QED
    BY <1>1, <1>2 DEF WaitsTied

LEMMA OrchestrationInvariant ==
    ASSUME TurnWaitTypeOK, AnswerInv, OrchestrationTurn
    PROVE  AnswerInv'
  <1> USE Versions
  <1>1. CASE StartTurn
    <2>1. StatusBehind' /\ OwnAnswerReturned'
      BY <1>1 DEF StartTurn, publishStatus, clientVars, StatusBehind, AnswerInv, OwnAnswerReturned
    <2>2. ASSUME NEW w \in Wait, Undisturbed(w)' PROVE Tied(w)'
      <3>1. Undisturbed(w) /\ Tied(w)
        BY <1>1, <2>2 DEF StartTurn, Undisturbed, Waiting, clientVars, AnswerInv, WaitsTied
      <3>2. queue \in Seq(Queued) /\ queue # <<>>
        BY <1>1 DEF StartTurn, TurnWaitTypeOK
      <3>3. /\ Head(queue).by = w
            /\ \A i \in DOMAIN queue' : queue'[i].by = w
        <4>1. /\ Len(queue) \in Nat /\ Len(queue) # 0 /\ DOMAIN queue = 1 .. Len(queue)
              /\ Tail(queue) \in Seq(Queued)
              /\ Len(Tail(queue)) = Len(queue) - 1 /\ Head(queue) = queue[1]
              /\ \A i \in 1 .. Len(Tail(queue)) : Tail(queue)[i] = queue[i + 1]
          BY <3>2, HeadTailProperties, LenProperties, EmptySeq
        <4>2. DOMAIN Tail(queue) = 1 .. Len(Tail(queue))
          BY <4>1, LenProperties
        <4>3. QED
          BY <1>1, <3>1, <4>1, <4>2 DEF StartTurn, Tied
      <3>4. turnFor' \in {w, Nobody} /\ asking' \in {w, Nobody}
        BY <1>1, <3>1, <3>3 DEF StartTurn, Tied
      <3>5. QED
        BY <1>1, <3>1, <3>3, <3>4 DEF StartTurn, Tied, Waiting, clientVars
    <2>3. QED
      BY <2>1, <2>2 DEF AnswerInv, WaitsTied
  <1>2. CASE CompleteTurn
    <2>1. StatusBehind'
      BY <1>2 DEF CompleteTurn, Respond, publishStatus, writeLatestResponse, StatusBehind
    <2>2. QED
      BY <1>2, <2>1, ResponseTied DEF CompleteTurn, Respond, AnswerInv
  <1>3. CASE WaitInTurn
    <2>1. StatusBehind'
      BY <1>3 DEF WaitInTurn, Respond, publishStatus, writeLatestResponse, StatusBehind
    <2>2. QED
      BY <1>3, <2>1, ResponseTied DEF WaitInTurn, Respond, AnswerInv
  <1>4. CASE AskInTurn
    <2>1. StatusBehind'
      BY <1>4 DEF AskInTurn, Respond, publishStatus, writeLatestResponse, StatusBehind
    <2>2. QED
      BY <1>4, <2>1, ResponseTied DEF AskInTurn, Respond, AnswerInv
  <1>5. CASE CompleteBeforeTimer
    <2>1. StatusBehind'
      BY <1>5 DEF CompleteBeforeTimer, writeLatestResponse, StatusBehind, AnswerInv
    <2>2. QED
      BY <1>5, <2>1, ResponseTied DEF CompleteBeforeTimer, AnswerInv, clientVars
  <1>6. CASE PublishTimer \/ WaitOver \/ GiveTurnUp
    <2>1. /\ UNCHANGED <<queue, asking, response, clientVars>> /\ turnFor' \in {turnFor, Nobody}
          /\ status'.responseVersion = response.version
      BY <1>6 DEF PublishTimer, WaitOver, GiveTurnUp, publishStatus
    <2>2. ASSUME NEW w \in Wait, Undisturbed(w)' PROVE Tied(w)'
      BY <2>1, <2>2 DEF Undisturbed, Waiting, clientVars, AnswerInv, WaitsTied, Tied
    <2>3. QED
      BY <2>1, <2>2 DEF AnswerInv, WaitsTied, StatusBehind, OwnAnswerReturned, clientVars
  <1>7. QED
    BY <1>1, <1>2, <1>3, <1>4, <1>5, <1>6 DEF OrchestrationTurn

(* A failed read marks as seen, and marks nothing as unseen.               *)
LEMMA Failed ==
    ASSUME TurnWaitTypeOK, NEW w \in Wait, ReadFails(w)
    PROVE  /\ wait'[w].seenResponse \in Nat /\ wait'[w].seenResponse >= wait[w].seenResponse
           /\ wait[w].pc = "read" /\ wait'[w].pc = "poll"
  <1>1. wait \in [Wait -> Local]
    BY DEF TurnWaitTypeOK
  <1>2. wait[w].seenResponse \in Nat /\ wait[w].snapshot.responseVersion \in Nat
    BY <1>1 DEF Local, Published
  <1>3. QED
    BY <1>1, <1>2 DEF ReadFails

(* A wait that begins finds nothing behind it, or overlaps and makes those *)
(* that wait already overlap.                                              *)
LEMMA SendInvariant ==
    ASSUME TurnWaitTypeOK, AnswerInv, NEW w \in Wait, SendAndWait(w)
    PROVE  AnswerInv'
  <1>1. /\ wait'[w].pc = "poll" /\ wait'[w].seenResponse = lastSeenResponseVersion
        /\ \A v \in Wait \ {w} : wait'[v] = wait[v]
        /\ overlapped \subseteq overlapped'
        /\ UNCHANGED <<turnFor, asking, status, response>>
    BY DEF SendAndWait, TurnWaitTypeOK, orchVars
  <1>2. StatusBehind' /\ OwnAnswerReturned'
    BY <1>1 DEF AnswerInv, StatusBehind, OwnAnswerReturned
  <1>3. ASSUME NEW v \in Wait, Undisturbed(v)' PROVE Tied(v)'
    <2>1. CASE v = w
      <3>1. Alone(w) /\ response.version = lastSeenResponseVersion
        BY <1>3, <2>1 DEF SendAndWait, Undisturbed
      <3>2. \A i \in DOMAIN queue' : queue'[i].by = w
        BY <3>1 DEF SendAndWait, Alone
      <3>3. \A u \in Wait \ {w} : ~Waiting(u)'
        BY <1>1, <3>1 DEF Alone, Waiting
      <3>4. QED
        BY <1>1, <2>1, <3>1, <3>2, <3>3, Versions DEF Tied, Alone
    <2>2. CASE v # w
      <3>1. Waiting(v)
        BY <1>1, <1>3, <2>2 DEF Undisturbed, Waiting
      <3>2. ~Alone(w)
        BY <2>2, <3>1 DEF Alone
      <3>3. v \in overlapped'
        BY <3>1, <3>2 DEF SendAndWait
      <3>4. QED
        BY <1>3, <3>3 DEF Undisturbed
    <2>3. QED
      BY <2>1, <2>2
  <1>4. QED
    BY <1>2, <1>3 DEF AnswerInv, WaitsTied

LEMMA ClientInvariant ==
    ASSUME TurnWaitTypeOK, AnswerInv, NEW w \in Wait, Client(w) \/ Timeout(w)
    PROVE  AnswerInv'
  <1> USE Versions
  <1>1. /\ Waiting(w) /\ UNCHANGED <<turnFor, asking, status, response, overlapped>>
        /\ \A v \in Wait \ {w} : wait'[v] = wait[v]
    BY DEF Client, Timeout, Poll, ReadAnswer, ReadOther, ReadFails, AnswerQuestion, Waiting, orchVars,
           TurnWaitTypeOK
  <1>2. StatusBehind'
    BY <1>1 DEF AnswerInv, StatusBehind
  <1>3. Undisturbed(w) => Tied(w)
    BY DEF AnswerInv, WaitsTied
  <1>4. \A v \in Wait \ {w} : ~Undisturbed(v)'
    <2>1. ASSUME NEW v \in Wait \ {w} PROVE ~Undisturbed(v)'
      BY <1>1 DEF AnswerInv, WaitsTied, Undisturbed, Tied, Waiting
    <2>2. QED
      BY <2>1
  <1>5. w \notin overlapped => OwnAnswerReturned' /\ (Undisturbed(w)' => Tied(w)')
    <2> SUFFICES ASSUME w \notin overlapped
                 PROVE  OwnAnswerReturned' /\ (Undisturbed(w)' => Tied(w)')
      OBVIOUS
    <2>1. Tied(w)
      BY <1>1, <1>3 DEF Undisturbed
    <2>2. CASE Poll(w)
      <3>1. /\ wait'[w].seenResponse = wait[w].seenResponse /\ queue' = queue
            /\ wait'[w].pc = "read" => status.responseVersion > wait[w].seenResponse
            /\ wait'[w].pc # "returned"
        BY <2>2 DEF Poll, TurnWaitTypeOK
      <3>2. QED
        BY <1>1, <2>1, <3>1 DEF Tied, Waiting, AnswerInv, StatusBehind, OwnAnswerReturned
    <2>3. CASE ReadAnswer(w)
      <3>1. /\ wait'[w].pc = "returned" /\ wait'[w].got = response.for /\ response.for = w
        BY <2>1, <2>3 DEF ReadAnswer, TurnWaitTypeOK, Tied
      <3>2. QED
        BY <1>1, <3>1 DEF Undisturbed, Waiting, AnswerInv, OwnAnswerReturned
    <2>4. CASE ReadOther(w)
      <3>1. /\ wait'[w].seenResponse = response.version /\ queue' = queue
            /\ wait'[w].pc \in {"ask", "poll"}
        BY <2>4 DEF ReadOther, TurnWaitTypeOK
      <3>2. QED
        BY <1>1, <2>1, <3>1 DEF Tied, Waiting, AnswerInv, OwnAnswerReturned
    <2>5. CASE AnswerQuestion(w)
      <3>1. /\ wait'[w].seenResponse = wait[w].seenResponse /\ wait'[w].pc = "poll"
        BY <2>5 DEF AnswerQuestion, TurnWaitTypeOK
      <3>2. \A i \in DOMAIN queue' : queue'[i].by = w
        BY <2>1, <2>5 DEF AnswerQuestion, TurnWaitTypeOK, Tied, Queued
      <3>3. QED
        BY <1>1, <2>1, <3>1, <3>2 DEF Tied, Waiting, AnswerInv, OwnAnswerReturned
    <2>6. CASE Timeout(w)
      <3>1. wait'[w].pc = "timedOut"
        BY <2>6 DEF Timeout, TurnWaitTypeOK
      <3>2. QED
        BY <1>1, <3>1 DEF Undisturbed, Waiting, AnswerInv, OwnAnswerReturned
    <2>7. CASE ReadFails(w)
      <3>1. /\ wait'[w].seenResponse >= wait[w].seenResponse /\ queue' = queue
            /\ wait'[w].pc = "poll" /\ wait'[w].seenResponse \in Nat
        BY <2>7, Failed DEF ReadFails
      <3>2. QED
        BY <1>1, <2>1, <3>1 DEF Tied, Waiting, AnswerInv, OwnAnswerReturned
    <2>8. QED
      BY <2>2, <2>3, <2>4, <2>5, <2>6, <2>7 DEF Client
  <1>6. w \in overlapped => OwnAnswerReturned' /\ ~Undisturbed(w)'
    BY <1>1 DEF Undisturbed, AnswerInv, OwnAnswerReturned
  <1>7. QED
    BY <1>2, <1>4, <1>5, <1>6 DEF AnswerInv, WaitsTied

LEMMA AnswersInvariant == TurnWaitSpec => []AnswerInv
  <1>1. TurnWaitInit => AnswerInv
    BY DEF TurnWaitInit, AnswerInv, WaitsTied, Undisturbed, Waiting, StatusBehind, OwnAnswerReturned
  <1>2. TurnWaitTypeOK /\ AnswerInv /\ [TurnWaitNext]_turnWaitVars => AnswerInv'
    <2> SUFFICES ASSUME TurnWaitTypeOK, AnswerInv, [TurnWaitNext]_turnWaitVars PROVE AnswerInv'
      OBVIOUS
    <2>1. CASE UNCHANGED turnWaitVars
      BY <2>1 DEF turnWaitVars, orchVars, clientVars, AnswerInv, WaitsTied, Undisturbed, Tied,
                  Waiting, StatusBehind, OwnAnswerReturned
    <2>2. QED
      BY <2>1, OrchestrationInvariant, SendInvariant, ClientInvariant DEF TurnWaitNext
  <1>3. QED
    BY <1>1, <1>2, TypeCorrect, PTL DEF TurnWaitSpec

(* sendAndWait returns the answer to its own prompt: see OwnAnswerReturned. *)
THEOREM OwnAnswerHolds == TurnWaitSpec => []OwnAnswerReturned
  <1>1. AnswerInv => OwnAnswerReturned
    BY DEF AnswerInv
  <1>2. QED
    BY <1>1, AnswersInvariant, PTL

----------------------------------------------------------------------------
(* Questions.  The response a wait is about to read is newer than those it *)
(* has seen.  As long as a wait does not overlap, a question it is about to*)
(* answer, or has yet to read, is pending and not answered yet; once the   *)
(* answer is on its way nobody else can come upon the question.            *)
NoAnswers == \A i \in DOMAIN queue : queue[i].kind # "answer"
AskedBefore(number) == response.type = "input_required" => response.version <= number
ReadsNewer == \A w \in Wait : wait[w].pc = "read" => response.version > wait[w].seenResponse
Pending(w) ==
    /\ wait[w].pc = "ask" => asking = w /\ NoAnswers /\ AskedBefore(wait[w].seenResponse)
    /\ ~AskedBefore(wait[w].seenResponse) => asking = w /\ NoAnswers
QuestionPending == \A w \in Wait : Undisturbed(w) => Pending(w)
OnItsWay(w) == w \notin overlapped /\ \E i \in DOMAIN queue : queue[i].kind = "answer" /\ queue[i].by = w
Answered(w) ==
    /\ \A v \in Wait : Waiting(v) => wait[v].pc # "ask" /\ AskedBefore(wait[v].seenResponse)
    /\ ~Waiting(w) => AskedBefore(lastSeenResponseVersion)
NoSecondAnswer == \A w \in Wait : OnItsWay(w) => Answered(w)
QuestionInv == ReadsNewer /\ QuestionPending /\ NoSecondAnswer /\ QuestionAnsweredOnce

LEMMA QueueShape ==
    TurnWaitTypeOK => /\ queue \in Seq(Queued) /\ Len(queue) \in Nat /\ DOMAIN queue = 1 .. Len(queue)
                      /\ \A i \in DOMAIN queue : queue[i] \in Queued /\ queue[i].by \in Wait
  <1> SUFFICES ASSUME TurnWaitTypeOK
               PROVE  /\ queue \in Seq(Queued) /\ Len(queue) \in Nat /\ DOMAIN queue = 1 .. Len(queue)
                      /\ \A i \in DOMAIN queue : queue[i] \in Queued /\ queue[i].by \in Wait
    OBVIOUS
  <1>1. queue \in Seq(Queued)
    BY DEF TurnWaitTypeOK
  <1>2. Len(queue) \in Nat /\ DOMAIN queue = 1 .. Len(queue)
    BY <1>1, LenProperties
  <1>3. \A i \in DOMAIN queue : queue[i] \in Queued
    BY <1>1, <1>2, ElementOfSeq
  <1>4. QED
    BY <1>1, <1>2, <1>3 DEF Queued

LEMMA Taken ==
    ASSUME TurnWaitTypeOK, StartTurn
    PROVE  /\ Len(queue) # 0 /\ Head(queue) = queue[1] /\ DOMAIN queue' = 1 .. (Len(queue) - 1)
           /\ \A i \in DOMAIN queue' : queue'[i] = queue[i + 1] /\ i + 1 \in DOMAIN queue
  <1>1. queue \in Seq(Queued) /\ queue # <<>> /\ queue' = Tail(queue)
    BY DEF StartTurn, TurnWaitTypeOK
  <1>2. /\ Len(queue) \in Nat /\ Len(queue) # 0 /\ DOMAIN queue = 1 .. Len(queue)
        /\ Tail(queue) \in Seq(Queued)
        /\ Len(Tail(queue)) = Len(queue) - 1 /\ Head(queue) = queue[1]
        /\ \A i \in 1 .. Len(Tail(queue)) : Tail(queue)[i] = queue[i + 1]
    BY <1>1, HeadTailProperties, LenProperties, EmptySeq
  <1>3. DOMAIN Tail(queue) = 1 .. Len(Tail(queue))
    BY <1>2, LenProperties
  <1>4. QED
    BY <1>1, <1>2, <1>3

LEMMA Sent ==
    ASSUME TurnWaitTypeOK, NEW item \in Queued, queue' = Append(queue, item)
    PROVE  /\ DOMAIN queue' = 1 .. (Len(queue) + 1) /\ queue'[Len(queue) + 1] = item
           /\ \A i \in DOMAIN queue : queue'[i] = queue[i]
  <1>1. /\ Append(queue, item) \in Seq(Queued) /\ Len(Append(queue, item)) = Len(queue) + 1
        /\ \A i \in 1 .. Len(queue) : Append(queue, item)[i] = queue[i]
        /\ Append(queue, item)[Len(queue) + 1] = item
    BY AppendProperties DEF TurnWaitTypeOK
  <1>2. DOMAIN Append(queue, item) = 1 .. Len(Append(queue, item))
    BY <1>1, LenProperties
  <1>3. QED
    BY <1>1, <1>2, QueueShape

(* What the orchestration does leaves the waits alone.                     *)
LEMMA TurnKeepsQuestions ==
    ASSUME TurnWaitTypeOK, AnswerInv, QuestionInv, OrchestrationTurn
    PROVE  QuestionInv'
  <1> USE Versions, QueueShape
  <1>1. UNCHANGED clientVars
    BY DEF OrchestrationTurn, StartTurn, CompleteTurn, WaitInTurn, AskInTurn, Respond,
           CompleteBeforeTimer, PublishTimer, WaitOver, GiveTurnUp
  <1>2. CASE StartTurn
    <2>1. UNCHANGED response
      BY <1>2 DEF StartTurn
    <2>2. ReadsNewer'
      BY <1>1, <2>1 DEF ReadsNewer, QuestionInv, clientVars
    <2>3. \A i \in DOMAIN queue' : \E j \in DOMAIN queue : j # 1 /\ queue'[i] = queue[j]
      BY <1>2, Taken
    <2>4. NoAnswers => NoAnswers' /\ asking' = asking
      BY <1>2, <2>3, Taken DEF StartTurn, NoAnswers
    <2>5. QuestionPending'
      BY <1>1, <2>1, <2>4 DEF QuestionPending, QuestionInv, Pending, Undisturbed, Waiting, AskedBefore, clientVars
    <2>6. NoSecondAnswer'
      BY <1>1, <2>1, <2>3 DEF NoSecondAnswer, QuestionInv, OnItsWay, Answered, Waiting, AskedBefore, clientVars
    <2>7. QuestionAnsweredOnce'
      <3> SUFFICES ASSUME NEW i \in DOMAIN queue', queue'[i].kind = "answer", queue'[i].by \notin overlapped'
                   PROVE  /\ asking' = queue'[i].by
                          /\ \A j \in DOMAIN queue' \ {i} : queue'[j].kind # "answer"
        BY DEF QuestionAnsweredOnce
      <3>1. i + 1 \in DOMAIN queue /\ queue[i + 1] = queue'[i] /\ i \in Nat /\ i # 0
        BY <1>2, Taken
      <3>2. asking = queue'[i].by /\ \A j \in DOMAIN queue \ {i + 1} : queue[j].kind # "answer"
        BY <1>1, <3>1 DEF QuestionInv, QuestionAnsweredOnce, clientVars
      <3>3. 1 \in DOMAIN queue \ {i + 1}
        BY <1>2, <3>1, Taken
      <3>4. asking' = asking
        BY <1>2, <3>2, <3>3, Taken DEF StartTurn
      <3>5. ASSUME NEW j \in DOMAIN queue' \ {i} PROVE queue'[j].kind # "answer"
        BY <1>2, <3>1, <3>2, Taken
      <3>6. QED
        BY <3>2, <3>4, <3>5
    <2>8. QED
      BY <2>2, <2>5, <2>6, <2>7 DEF QuestionInv
  <1>3. CASE AskInTurn
    <2>1. asking = Nobody /\ UNCHANGED queue /\ response'.version = response.version + 1
          /\ turnFor # Nobody /\ asking' = turnFor
      BY <1>3 DEF AskInTurn, Respond, writeLatestResponse, TurnRunning
    <2>2. \A w \in Wait : ~OnItsWay(w)
      BY <2>1, NobodyAssumption DEF OnItsWay, QuestionInv, QuestionAnsweredOnce
    <2>3. \A i \in DOMAIN queue : ~(queue[i].kind = "answer" /\ queue[i].by \notin overlapped)
      BY <2>2 DEF OnItsWay
    <2>4. NoSecondAnswer' /\ QuestionAnsweredOnce'
      BY <1>1, <2>1, <2>2, <2>3 DEF NoSecondAnswer, OnItsWay, QuestionAnsweredOnce, clientVars
    <2>5. ReadsNewer'
      BY <1>1, <2>1 DEF QuestionInv, ReadsNewer, clientVars
    <2>6. ASSUME NEW w \in Wait, Undisturbed(w)' PROVE Pending(w)'
      <3>1. Undisturbed(w) /\ Tied(w)
        BY <1>1, <2>6 DEF Undisturbed, Waiting, clientVars, AnswerInv, WaitsTied
      <3>2. asking' = w /\ NoAnswers'
        BY <2>1, <2>3, <3>1 DEF Tied, NoAnswers, Undisturbed
      <3>3. wait'[w].pc # "ask"
        BY <1>1, <2>1, <3>1, NobodyAssumption DEF QuestionInv, QuestionPending, Pending, clientVars
      <3>4. QED
        BY <3>2, <3>3 DEF Pending, NoAnswers
    <2>7. QED
      BY <2>4, <2>5, <2>6 DEF QuestionInv, QuestionPending
  <1>4. CASE ~StartTurn /\ ~AskInTurn
    <2>1. UNCHANGED <<queue, asking>>
      BY <1>4 DEF OrchestrationTurn, CompleteTurn, WaitInTurn, Respond,
           CompleteBeforeTimer, PublishTimer, WaitOver, GiveTurnUp
    <2>2. \/ UNCHANGED response
          \/ response'.version = response.version + 1 /\ response'.type # "input_required"
      BY <1>4 DEF OrchestrationTurn, CompleteTurn, WaitInTurn, Respond, writeLatestResponse,
           CompleteBeforeTimer, PublishTimer, WaitOver, GiveTurnUp
    <2>3. ReadsNewer'
      BY <1>1, <2>2 DEF QuestionInv, ReadsNewer, clientVars
    <2>4. QuestionPending'
      BY <1>1, <2>1, <2>2 DEF QuestionInv, QuestionPending, Undisturbed, Waiting, Pending, NoAnswers,
                              AskedBefore, clientVars
    <2>5. NoSecondAnswer'
      BY <1>1, <2>1, <2>2 DEF QuestionInv, NoSecondAnswer, OnItsWay, Answered, Waiting, AskedBefore,
                              clientVars
    <2>6. QuestionAnsweredOnce'
      BY <1>1, <2>1 DEF QuestionInv, QuestionAnsweredOnce, clientVars
    <2>7. QED
      BY <2>3, <2>4, <2>5, <2>6 DEF QuestionInv
  <1>5. QED
    BY <1>2, <1>3, <1>4

LEMMA SendKeepsQuestions ==
    ASSUME TurnWaitTypeOK, QuestionInv, NEW w \in Wait, SendAndWait(w)
    PROVE  QuestionInv'
  <1> USE Versions, QueueShape
  <1>1. /\ wait'[w].pc = "poll" /\ wait'[w].seenResponse = lastSeenResponseVersion
        /\ \A v \in Wait \ {w} : wait'[v] = wait[v]
        /\ overlapped \subseteq overlapped' /\ ~Waiting(w)
        /\ UNCHANGED <<asking, response, lastSeenResponseVersion>>
    BY DEF SendAndWait, TurnWaitTypeOK, orchVars, Waiting
  <1>2. /\ \A i \in DOMAIN queue' : queue'[i].kind = "answer" => i \in DOMAIN queue /\ queue'[i] = queue[i]
        /\ \A i \in DOMAIN queue : i \in DOMAIN queue' /\ queue'[i] = queue[i]
    BY Sent DEF SendAndWait, Queued
  <1>3. ReadsNewer'
    BY <1>1 DEF QuestionInv, ReadsNewer
  <1>4. QuestionPending'
    <2> SUFFICES ASSUME NEW v \in Wait, Undisturbed(v)' PROVE Pending(v)'
      BY DEF QuestionPending
    <2>1. CASE v = w
      <3>1. response.version = lastSeenResponseVersion
        BY <2>1 DEF SendAndWait, Undisturbed
      <3>2. QED
        BY <1>1, <2>1, <3>1 DEF Pending, AskedBefore
    <2>2. CASE v # w
      <3>1. Waiting(v)
        BY <1>1, <2>2 DEF Undisturbed, Waiting
      <3>2. v \in overlapped'
        BY <2>2, <3>1 DEF SendAndWait, Alone
      <3>3. QED
        BY <3>2 DEF Undisturbed
    <2>3. QED
      BY <2>1, <2>2
  <1>5. NoSecondAnswer'
    <2> SUFFICES ASSUME NEW v \in Wait, OnItsWay(v)' PROVE Answered(v)'
      BY DEF NoSecondAnswer
    <2>1. OnItsWay(v)
      BY <1>1, <1>2 DEF OnItsWay
    <2>2. ~Alone(w)
      BY <2>1 DEF OnItsWay, Alone
    <2>3. ~Waiting(v)
      BY <2>2 DEF SendAndWait, OnItsWay
    <2>4. QED
      BY <1>1, <2>1, <2>3 DEF QuestionInv, NoSecondAnswer, Answered, Waiting, AskedBefore
  <1>6. QuestionAnsweredOnce'
    BY <1>1, <1>2 DEF QuestionInv, QuestionAnsweredOnce
  <1>7. QED
    BY <1>3, <1>4, <1>5, <1>6 DEF QuestionInv

LEMMA ClientKeepsQuestions ==
    ASSUME TurnWaitTypeOK, AnswerInv, QuestionInv, NEW w \in Wait, Client(w) \/ Timeout(w)
    PROVE  QuestionInv'
  <1> USE Versions, QueueShape
  <1>1. /\ Waiting(w) /\ UNCHANGED <<asking, response, overlapped>>
        /\ \A v \in Wait \ {w} : wait'[v] = wait[v]
    BY DEF Client, Timeout, Poll, ReadAnswer, ReadOther, ReadFails, AnswerQuestion, Waiting, orchVars,
           TurnWaitTypeOK
  <1>2. Undisturbed(w) => Tied(w)
    BY DEF AnswerInv, WaitsTied
  <1>3. CASE Poll(w)
    <2>1. /\ wait'[w].seenResponse = wait[w].seenResponse /\ UNCHANGED <<queue, lastSeenResponseVersion>>
          /\ wait'[w].pc \in {"poll", "read"}
          /\ wait'[w].pc = "read" => status.responseVersion > wait[w].seenResponse
      BY <1>3 DEF Poll, TurnWaitTypeOK
    <2>2. ReadsNewer'
      BY <1>1, <2>1 DEF QuestionInv, ReadsNewer, AnswerInv, StatusBehind
    <2>3. QuestionPending' /\ NoSecondAnswer' /\ QuestionAnsweredOnce'
      BY <1>1, <2>1 DEF QuestionInv, QuestionPending, Undisturbed, Waiting, Pending, NoAnswers, AskedBefore,
                        NoSecondAnswer, OnItsWay, Answered, QuestionAnsweredOnce
    <2>4. QED
      BY <2>2, <2>3 DEF QuestionInv
  <1>4. CASE ReadAnswer(w) \/ Timeout(w)
    <2>1. /\ wait'[w].pc \in {"returned", "timedOut"} /\ UNCHANGED queue
          /\ \/ lastSeenResponseVersion' = response.version
             \/ lastSeenResponseVersion' = wait[w].seenResponse
      <3>1. wait \in [Wait -> Local] /\ UNCHANGED queue
        BY <1>4 DEF ReadAnswer, Timeout, TurnWaitTypeOK
      <3>2. CASE ReadAnswer(w)
        BY <3>1, <3>2 DEF ReadAnswer
      <3>3. CASE Timeout(w)
        BY <3>1, <3>3 DEF Timeout
      <3>4. QED
        BY <1>4, <3>1, <3>2, <3>3
    <2>2. ReadsNewer' /\ QuestionPending' /\ QuestionAnsweredOnce'
      BY <1>1, <2>1 DEF QuestionInv, ReadsNewer, QuestionPending, Undisturbed, Waiting, Pending, NoAnswers,
                        AskedBefore, QuestionAnsweredOnce
    <2>3. NoSecondAnswer'
      BY <1>1, <2>1 DEF QuestionInv, NoSecondAnswer, OnItsWay, Answered, Waiting, AskedBefore
    <2>4. QED
      BY <2>2, <2>3 DEF QuestionInv
  <1>5. CASE ReadOther(w)
    <2>1. /\ wait'[w].seenResponse = response.version /\ UNCHANGED <<queue, lastSeenResponseVersion>>
          /\ wait[w].pc = "read" /\ wait'[w].pc \in {"poll", "ask"}
          /\ wait'[w].pc = "ask" => response.type = "input_required"
      BY <1>5 DEF ReadOther, TurnWaitTypeOK
    <2>2. wait'[w].pc = "ask" => ~AskedBefore(wait[w].seenResponse)
      BY <2>1 DEF QuestionInv, ReadsNewer, AskedBefore
    <2>3. ReadsNewer' /\ QuestionAnsweredOnce'
      BY <1>1, <2>1 DEF QuestionInv, ReadsNewer, QuestionAnsweredOnce
    <2>4. QuestionPending'
      BY <1>1, <2>1, <2>2 DEF QuestionInv, QuestionPending, Undisturbed, Waiting, Pending, NoAnswers,
                              AskedBefore
    <2>5. NoSecondAnswer'
      BY <1>1, <2>1, <2>2 DEF QuestionInv, NoSecondAnswer, OnItsWay, Answered, Waiting, AskedBefore
    <2>6. QED
      BY <2>3, <2>4, <2>5 DEF QuestionInv
  <1>6. CASE AnswerQuestion(w)
    <2>1. /\ wait[w].pc = "ask" /\ wait'[w].pc = "poll" /\ wait'[w].seenResponse = wait[w].seenResponse
          /\ UNCHANGED lastSeenResponseVersion
      BY <1>6 DEF AnswerQuestion, TurnWaitTypeOK
    <2>2. PICK last \in Nat :
             /\ last \in DOMAIN queue' /\ queue'[last].kind = "answer" /\ queue'[last].by = w
             /\ \A i \in DOMAIN queue' \ {last} : i \in DOMAIN queue /\ queue'[i] = queue[i]
      <3>1. [kind |-> "answer", by |-> w] \in Queued
        BY DEF Queued
      <3>2. QED
        BY <1>6, <3>1, Sent, SMTT(30) DEF AnswerQuestion
    <2>3. \A v \in Wait : ~OnItsWay(v)
      BY <1>1, <2>1 DEF QuestionInv, NoSecondAnswer, Answered
    <2>4. w \notin overlapped => /\ asking = w /\ NoAnswers /\ AskedBefore(wait[w].seenResponse)
                                 /\ \A v \in Wait \ {w} : ~Waiting(v)
      BY <1>1, <1>2, <2>1 DEF QuestionInv, QuestionPending, Undisturbed, Pending, Tied
    <2>5. \A i \in DOMAIN queue' \ {last} : queue'[i].kind = "answer" => queue'[i].by \in overlapped
      BY <2>2, <2>3 DEF OnItsWay
    <2>6. QuestionAnsweredOnce'
      BY <1>1, <2>2, <2>4, <2>5 DEF QuestionAnsweredOnce, NoAnswers
    <2>7. QuestionPending'
      <3> SUFFICES ASSUME NEW v \in Wait, Undisturbed(v)' PROVE Pending(v)'
        BY DEF QuestionPending
      <3>1. v = w
        BY <1>1 DEF Undisturbed, Waiting, AnswerInv, WaitsTied, Tied
      <3>2. QED
        BY <1>1, <2>1, <2>4, <3>1 DEF Undisturbed, Pending, AskedBefore
    <2>8. NoSecondAnswer'
      <3> SUFFICES ASSUME NEW v \in Wait, OnItsWay(v)' PROVE Answered(v)'
        BY DEF NoSecondAnswer
      <3>1. v = w
        BY <1>1, <2>2, <2>5 DEF OnItsWay
      <3>2. QED
        BY <1>1, <2>1, <2>4, <3>1 DEF OnItsWay, Answered, Waiting, AskedBefore
    <2>9. ReadsNewer'
      BY <1>1, <2>1 DEF QuestionInv, ReadsNewer
    <2>10. QED
      BY <2>6, <2>7, <2>8, <2>9 DEF QuestionInv
  <1>7. CASE ReadFails(w)
    <2>1. /\ wait'[w].seenResponse \in Nat /\ wait'[w].seenResponse >= wait[w].seenResponse
          /\ wait[w].pc = "read" /\ wait'[w].pc = "poll"
          /\ UNCHANGED <<queue, lastSeenResponseVersion>>
      BY <1>7, Failed DEF ReadFails
    <2>2. AskedBefore(wait[w].seenResponse) => AskedBefore(wait'[w].seenResponse)
      BY <2>1 DEF AskedBefore
    <2>3. ReadsNewer' /\ QuestionAnsweredOnce'
      BY <1>1, <2>1 DEF QuestionInv, ReadsNewer, QuestionAnsweredOnce
    <2>4. QuestionPending'
      BY <1>1, <2>1, <2>2 DEF QuestionInv, QuestionPending, Undisturbed, Waiting, Pending, NoAnswers,
                              AskedBefore
    <2>5. NoSecondAnswer'
      BY <1>1, <2>1, <2>2 DEF QuestionInv, NoSecondAnswer, OnItsWay, Answered, Waiting, AskedBefore
    <2>6. QED
      BY <2>3, <2>4, <2>5 DEF QuestionInv
  <1>8. QED
    BY <1>3, <1>4, <1>5, <1>6, <1>7 DEF Client

(* A question is answered once: an answer on its way, of a wait that has   *)
(* not overlapped with another one, finds its question still pending, and  *)
(* there is no second answer in the queue.                                 *)
THEOREM AnsweredOnce == TurnWaitSpec => []QuestionAnsweredOnce
  <1>1. TurnWaitInit => QuestionInv
    <2> SUFFICES ASSUME TurnWaitInit PROVE QuestionInv
      OBVIOUS
    <2>1. DOMAIN queue = {} /\ \A w \in Wait : wait[w].pc = "new" /\ ~Waiting(w)
      BY DEF TurnWaitInit, Waiting
    <2>2. QED
      BY <2>1 DEF QuestionInv, ReadsNewer, QuestionPending, Undisturbed, NoSecondAnswer, OnItsWay,
                  QuestionAnsweredOnce
  <1>2. TurnWaitTypeOK /\ AnswerInv /\ QuestionInv /\ [TurnWaitNext]_turnWaitVars => QuestionInv'
    <2> SUFFICES ASSUME TurnWaitTypeOK, AnswerInv, QuestionInv, [TurnWaitNext]_turnWaitVars PROVE QuestionInv'
      OBVIOUS
    <2>1. CASE UNCHANGED turnWaitVars
      BY <2>1 DEF turnWaitVars, orchVars, clientVars, QuestionInv, ReadsNewer, QuestionPending, Undisturbed,
                  Waiting, Pending, NoAnswers, AskedBefore, NoSecondAnswer, OnItsWay, Answered,
                  QuestionAnsweredOnce
    <2>2. QED
      BY <2>1, TurnKeepsQuestions, SendKeepsQuestions, ClientKeepsQuestions DEF TurnWaitNext
  <1>3. QED
    BY <1>1, <1>2, TypeCorrect, AnswersInvariant, PTL DEF TurnWaitSpec, QuestionInv
=============================================================================
