----------------------------- MODULE HandoffProofs -----------------------------
(***************************************************************************)
(* Proofs about Handoff for every set of workers, every number of turns    *)
(* and of troubles and every retry limit.                                  *)
(***************************************************************************)
EXTENDS Handoff, TLAPS

(* The steps of a turn activity.                                           *)
TurnSteps == {"get", "switch", "fresh", "run", "record"}
USE DEF ghostVars, GivenUp, TurnSteps

----------------------------------------------------------------------------
(* Type correctness.  The number of turns bounds the iteration because a   *)
(* prompt is only taken up, and a failed turn only retried, below it.      *)
TurnsLeft ==
    /\ phase \in {"probe", "hydrate", "turn"} => iteration < MaxTurns
    /\ phase = "dehydrate" /\ plan.retry => iteration < MaxTurns
HandoffTyped == HandoffTypeOK /\ TurnsLeft

LEMMA CopyIs == \A copy : copy \in Copy <=> copy = {} \/ (0 \in copy /\ copy \subseteq {0} \union Turn)
  <1> SUFFICES ASSUME NEW copy
               PROVE  copy \in Copy <=> copy = {} \/ (0 \in copy /\ copy \subseteq {0} \union Turn)
    OBVIOUS
  <1>1. ASSUME 0 \in copy, copy \subseteq {0} \union Turn PROVE copy \in Copy
    <2>1. copy = {0} \union (copy \intersect Turn) /\ copy \intersect Turn \in SUBSET Turn
      BY <1>1
    <2>2. QED
      BY <2>1 DEF Copy
  <1>2. ASSUME copy \in Copy, copy # {} PROVE 0 \in copy /\ copy \subseteq {0} \union Turn
    BY <1>2 DEF Copy
  <1>3. QED
    BY <1>1, <1>2 DEF Copy

LEMMA Bounds ==
    /\ MaxTurns \in Nat /\ MaxTroubles \in Nat /\ MAX_HANDOFF_RETRIES \in Nat
    /\ MAX_CONNECTION_RETRIES \in Nat
    /\ MAX_HANDOFF_RETRIES > 0
  BY HandoffBounds

LEMMA NoActivityTyped == NoActivity \in Activity /\ NoActivity.step = "none"
  BY CopyIs, Bounds DEF NoActivity, Activity, Step, Result

LEMMA TroubleCounted ==
    ASSUME HandoffTypeOK, Trouble \/ UNCHANGED troubles PROVE troubles' \in 0 .. MaxTroubles
  BY Bounds DEF HandoffTypeOK, Trouble

(* What the activities of a worker do to its record and to the copies.     *)
LEMMA ReportsTyped ==
    ASSUME HandoffTypeOK, NEW w \in Worker, NEW outcome \in Result, Reports(w, outcome)
    PROVE  act' \in [Worker -> Activity]
  <1>1. act \in [Worker -> Activity] /\ act[w].base \in Copy
    BY DEF HandoffTypeOK, Activity
  <1>2. [NoActivity EXCEPT !.step = "report", !.result = outcome, !.base = act[w].base] \in Activity
    BY <1>1, NoActivityTyped DEF Activity, Step
  <1>3. QED
    BY <1>1, <1>2, NoActivityTyped DEF Reports

LEMMA GotoTyped ==
    ASSUME HandoffTypeOK, NEW w \in Worker, NEW step \in Step, Goto(w, step)
    PROVE  act' \in [Worker -> Activity]
  BY DEF HandoffTypeOK, Goto, Activity

LEMMA SecondTryTyped ==
    ASSUME NEW a \in Activity PROVE [a EXCEPT !.step = "get", !.recoveries = 1] \in Activity
  <1> DEFINE b == [a EXCEPT !.step = "get"]
  <1>1. b \in Activity
    BY DEF Activity, Step
  <1>2. [b EXCEPT !.recoveries = 1] \in Activity
    <2> HIDE DEF b
    <2>1. QED
      BY <1>1 DEF Activity
  <1>3. QED
    BY <1>2

LEMMA RecordTyped ==
    ASSUME NEW a \in Activity PROVE [a EXCEPT !.step = "record", !.recoveries = 2] \in Activity
  <1> DEFINE b == [a EXCEPT !.step = "record"]
  <1>1. b \in Activity
    BY DEF Activity, Step
  <1>2. [b EXCEPT !.recoveries = 2] \in Activity
    <2> HIDE DEF b
    <2>1. QED
      BY <1>1 DEF Activity
  <1>3. QED
    BY <1>2

LEMMA PreparedTyped ==
    ASSUME NEW a \in Activity, NEW prepared \in BOOLEAN, NEW copy \in Copy
    PROVE  [a EXCEPT !.step = "destroy", !.checkpointPrepared = prepared, !.base = copy] \in Activity
  <1> DEFINE b == [a EXCEPT !.step = "destroy"]
  <1> DEFINE c == [b EXCEPT !.checkpointPrepared = prepared]
  <1>1. b \in Activity
    BY DEF Activity, Step
  <1>2. c \in Activity
    <2> HIDE DEF b
    <2>1. QED
      BY <1>1 DEF Activity
  <1>3. [c EXCEPT !.base = copy] \in Activity
    <2> HIDE DEF c
    <2>1. QED
      BY <1>2 DEF Activity
  <1>4. QED
    BY <1>3

LEMMA DestroyedTyped ==
    ASSUME NEW a \in Activity, NEW failed \in BOOLEAN
    PROVE  [a EXCEPT !.step = "persist", !.destroyFailed = failed] \in Activity
  <1> DEFINE b == [a EXCEPT !.step = "persist"]
  <1>1. b \in Activity
    BY DEF Activity, Step
  <1>2. [b EXCEPT !.destroyFailed = failed] \in Activity
    <2> HIDE DEF b
    <2>1. QED
      BY <1>1 DEF Activity
  <1>3. QED
    BY <1>2

LEMMA KeepTyped ==
    ASSUME HandoffTypeOK, NEW w \in Worker, NEW inMemory \in Copy, NEW onDisk \in Copy,
           Keep(w, inMemory, onDisk)
    PROVE  {warm', dir'} \subseteq [Worker -> Copy]
  BY DEF HandoffTypeOK, Keep

LEMMA PutTyped ==
    ASSUME HandoffTypeOK, NEW w \in Worker, NEW copy \in Copy, Put(w, copy)
    PROVE  archive' \in Copy /\ saved' \subseteq Turn /\ stale' \subseteq Worker \union {Store}
  BY DEF HandoffTypeOK, Put, Mark

LEMMA MarkTyped ==
    ASSUME HandoffTypeOK, NEW place \in Worker \union {Store}, NEW isStale, Mark(place, isStale)
    PROVE  stale' \subseteq Worker \union {Store}
  BY DEF HandoffTypeOK, Mark

LEMMA CopiesTyped ==
    ASSUME HandoffTypeOK, NEW w \in Worker
    PROVE  /\ warm[w] \in Copy /\ dir[w] \in Copy /\ {} \in Copy /\ Created \in Copy
           /\ warm \in [Worker -> Copy] /\ dir \in [Worker -> Copy] /\ archive \in Copy
  BY CopyIs DEF HandoffTypeOK, Created

LEMMA ResetTyped ==
    ASSUME HandoffTypeOK, NEW w \in Worker, Reset(w)
    PROVE  {warm', dir'} \subseteq [Worker -> Copy] /\ archive' \in Copy /\ saved' \subseteq Turn
           /\ stale' \subseteq Worker \union {Store}
  BY CopiesTyped, KeepTyped DEF Reset, HandoffTypeOK

LEMMA CreateFreshTyped ==
    ASSUME HandoffTypeOK, NEW w \in Worker, CreateFresh(w)
    PROVE  /\ {warm', dir'} \subseteq [Worker -> Copy] /\ archive' \in Copy /\ saved' \subseteq Turn
           /\ stale' \subseteq Worker \union {Store} /\ troubles' \in 0 .. MaxTroubles
  <1>1. CASE Reset(w) /\ UNCHANGED troubles
    BY <1>1, ResetTyped, TroubleCounted
  <1>2. CASE Keep(w, Created, Created) /\ UNCHANGED <<archive, saved>> /\ StoredExists(FALSE)
             /\ stale' = (stale \ {w}) \union (IF owner # w THEN {w} ELSE {})
                            \union (IF archive # {} THEN {Store} ELSE {})
    <2>1. troubles' \in 0 .. MaxTroubles
      BY <1>2, TroubleCounted DEF StoredExists
    <2>2. {warm', dir'} \subseteq [Worker -> Copy]
      BY <1>2, CopiesTyped, KeepTyped
    <2>3. QED
      BY <1>2, <2>1, <2>2 DEF HandoffTypeOK
  <1>3. QED
    BY <1>1, <1>2 DEF CreateFresh

LEMMA CopiesSame ==
    ASSUME HandoffTypeOK, SameCopies
    PROVE  {warm', dir'} \subseteq [Worker -> Copy] /\ archive' \in Copy /\ saved' \subseteq Turn
           /\ stale' \subseteq Worker \union {Store}
  BY DEF HandoffTypeOK, SameCopies, copyVars

LEMMA DestroyingTyped ==
    ASSUME HandoffTypeOK, NEW w \in Worker, NEW outcome \in {"done", "unusable", "failed"},
           Destroyed(w, outcome)
    PROVE  /\ {warm', dir'} \subseteq [Worker -> Copy] /\ archive' \in Copy
           /\ saved' \subseteq Turn /\ stale' \subseteq Worker \union {Store}
  <1>1. [done |-> warm[w], unusable |-> {}, failed |-> dir[w]][outcome] \in Copy
    BY CopiesTyped
  <1>2. {warm', dir'} \subseteq [Worker -> Copy]
    BY <1>1, CopiesTyped, KeepTyped DEF Destroyed
  <1>3. QED
    BY <1>2 DEF Destroyed, HandoffTypeOK

LEMMA PurgeTyped ==
    ASSUME HandoffTypeOK, NEW w \in Worker, Purge(w)
    PROVE  {warm', dir'} \subseteq [Worker -> Copy] /\ archive' \in Copy /\ saved' \subseteq Turn
           /\ stale' \subseteq Worker \union {Store}
  BY CopiesTyped, KeepTyped DEF Purge, HandoffTypeOK

(* What a step of an activity may change.                                  *)
WorkerTyped ==
    /\ act' \in [Worker -> Activity] /\ {warm', dir'} \subseteq [Worker -> Copy]
    /\ archive' \in Copy /\ saved' \subseteq Turn /\ stale' \subseteq Worker \union {Store}
    /\ troubles' \in 0 .. MaxTroubles /\ excused' \subseteq Turn /\ switched' \subseteq Turn

LEMMA TurnStepsTyped ==
    ASSUME HandoffTypeOK, NEW w \in Worker,
           \/ Rebound(w) \/ GetOrCreate(w) \/ MissingState(w) \/ ReplayFresh(w)
           \/ TurnCompletes(w) \/ TurnFails(w) \/ LiveSessionLost(w)
           \/ TranscriptCorrupt(w) \/ LossRecorded(w)
    PROVE  WorkerTyped
  <1> USE CopiesTyped, CopiesSame, ReportsTyped, GotoTyped, TroubleCounted DEF WorkerTyped
  <1>0. /\ act \in [Worker -> Activity] /\ act[w] \in Activity /\ excused \subseteq Turn /\ switched \subseteq Turn
        /\ done \subseteq Turn /\ saved \subseteq Turn /\ stale \subseteq Worker \union {Store}
        /\ TurnSteps \subseteq Step
        /\ {"failure", "missing", "completed"} \subseteq Result
    BY DEF HandoffTypeOK, Step, Result
  <1>1. CASE GetOrCreate(w)
    <2>1. CASE CreateFresh(w) /\ Goto(w, "run")
      BY <1>0, <1>1, <2>1, CreateFreshTyped DEF GetOrCreate
    <2>2. CASE Resume(w) /\ Goto(w, "run") /\ UNCHANGED troubles
      <3>1. {warm', dir'} \subseteq [Worker -> Copy]
        BY <2>2, KeepTyped DEF Resume
      <3>2. QED
        BY <1>0, <1>1, <2>2, <3>1 DEF GetOrCreate, Resume
    <2>3. CASE Keep(w, archive, archive) /\ Installed(w) /\ UNCHANGED <<archive, saved>>
               /\ Goto(w, "run") /\ UNCHANGED troubles
      BY <1>0, <1>1, <2>3, KeepTyped, MarkTyped DEF GetOrCreate, Installed
    <2>4. CASE Reports(w, IF act[w].recoveries = 0 THEN "failure" ELSE "missing")
               /\ Trouble /\ SameCopies
      BY <1>0, <1>1, <2>4 DEF GetOrCreate
    <2>5. QED
      BY <1>1, <2>1, <2>2, <2>3, <2>4 DEF GetOrCreate
  <1>2. CASE MissingState(w)
    <2>1. act' \in [Worker -> Activity]
      BY <1>0, <1>2 DEF MissingState
    <2>2. troubles' \in 0 .. MaxTroubles
      BY <1>2 DEF MissingState, NothingToResume, StoredExists
    <2>3. CASE SameCopies
      BY <1>0, <1>2, <2>1, <2>2, <2>3 DEF MissingState
    <2>4. CASE Keep(w, {}, archive) /\ Installed(w) /\ UNCHANGED <<archive, saved>>
      <3>1. {warm', dir'} \subseteq [Worker -> Copy]
        BY <2>4, KeepTyped
      <3>2. QED
        BY <1>0, <1>2, <2>1, <2>2, <2>4, <3>1, MarkTyped DEF MissingState, Installed
    <2>5. QED
      BY <1>2, <2>3, <2>4 DEF MissingState, NothingToResume
  <1>3. CASE ReplayFresh(w)
    <2>1. CASE CreateFresh(w) /\ Goto(w, "run")
      BY <1>0, <1>3, <2>1, CreateFreshTyped DEF ReplayFresh
    <2>2. CASE Reports(w, IF act[w].step = "fresh" /\ act[w].recoveries = 0 THEN "missing" ELSE "failure")
               /\ Trouble /\ SameCopies
      BY <1>0, <1>3, <2>2 DEF ReplayFresh
    <2>3. QED
      BY <1>3, <2>1, <2>2 DEF ReplayFresh
  <1>4. CASE TurnCompletes(w)
    <2>1. act[w].turnIndex + 1 \in Turn
      BY <1>0, <1>4, Bounds DEF TurnCompletes, Activity, Turn
    <2>2. warm[w] \union {act[w].turnIndex + 1} \in Copy
      BY <1>4, <2>1, CopyIs DEF TurnCompletes
    <2>3. {warm', dir'} \subseteq [Worker -> Copy]
      BY <1>4, <2>2, KeepTyped DEF TurnCompletes
    <2>4. QED
      BY <1>0, <1>4, <2>3 DEF TurnCompletes
  <1>5. CASE TurnFails(w)
    BY <1>0, <1>5 DEF TurnFails, Disturbed
  <1>6. CASE LiveSessionLost(w)
    <2>1. CASE /\ \E onDisk \in {dir[w], {}} : Keep(w, {}, onDisk) /\ (onDisk # dir[w] => warm[w] # {})
               /\ act' = [act EXCEPT ![w].step = "get", ![w].recoveries = 1]
               /\ UNCHANGED <<archive, saved, stale>>
      <3>1. act' \in [Worker -> Activity]
        <4>1. [act[w] EXCEPT !.step = "get", !.recoveries = 1] \in Activity
          BY <1>0, SecondTryTyped
        <4>2. act' = [act EXCEPT ![w] = [act[w] EXCEPT !.step = "get", !.recoveries = 1]]
          BY <1>0, <2>1
        <4>3. QED
          BY <1>0, <4>1, <4>2
      <3>2. {warm', dir'} \subseteq [Worker -> Copy]
        BY <2>1, KeepTyped
      <3>3. QED
        BY <1>0, <1>6, <2>1, <3>1, <3>2 DEF LiveSessionLost, Disturbed
    <2>2. CASE Reports(w, "missing") /\ SameCopies
      BY <1>0, <1>6, <2>2 DEF LiveSessionLost, Disturbed
    <2>3. QED
      BY <1>6, <2>1, <2>2 DEF LiveSessionLost
  <1>7. CASE TranscriptCorrupt(w)
    <2>1. act' \in [Worker -> Activity]
      <3>1. [act[w] EXCEPT !.step = "record", !.recoveries = 2] \in Activity
        BY <1>0, RecordTyped
      <3>2. act' = [act EXCEPT ![w] = [act[w] EXCEPT !.step = "record", !.recoveries = 2]]
        BY <1>0, <1>7 DEF TranscriptCorrupt
      <3>3. QED
        BY <1>0, <3>1, <3>2
    <2>2. CASE Purge(w)
      BY <1>0, <1>7, <2>1, <2>2, PurgeTyped DEF TranscriptCorrupt
    <2>3. CASE Keep(w, {}, dir[w]) /\ UNCHANGED <<archive, saved, stale>>
      BY <1>0, <1>7, <2>1, <2>3, KeepTyped DEF TranscriptCorrupt
    <2>4. QED
      BY <1>7, <2>2, <2>3 DEF TranscriptCorrupt
  <1>8. CASE Rebound(w)
    <2>1. CASE \E outcome \in {"done", "unusable", "failed"} : Destroyed(w, outcome) /\ UNCHANGED <<act, ghostVars>>
      BY <1>0, <1>8, <2>1, DestroyingTyped DEF Rebound
    <2>2. CASE Purge(w) /\ Goto(w, "switch") /\ switched' = done /\ UNCHANGED excused
      BY <1>0, <1>8, <2>2, PurgeTyped DEF Rebound
    <2>3. QED
      BY <1>8, <2>1, <2>2 DEF Rebound
  <1>9. CASE LossRecorded(w)
    BY <1>0, <1>9 DEF LossRecorded
  <1>10. QED
    BY <1>1, <1>2, <1>3, <1>4, <1>5, <1>6, <1>7, <1>8, <1>9

LEMMA StoreStepsTyped ==
    ASSUME HandoffTypeOK, NEW w \in Worker,
           \/ /\ Probe(w) \/ Hydrate(w) \/ Checkpoint(w) \/ Prepare(w) \/ Destroy(w)
              /\ UNCHANGED ghostVars
           \/ Persist(w)
    PROVE  WorkerTyped
  <1> USE CopiesTyped, CopiesSame, ReportsTyped, TroubleCounted DEF WorkerTyped
  <1>0. /\ act \in [Worker -> Activity] /\ act[w] \in Activity /\ excused \subseteq Turn /\ switched \subseteq Turn
        /\ done \subseteq Turn /\ saved \subseteq Turn /\ stale \subseteq Worker \union {Store}
        /\ {"present", "cold", "notFound", "restored", "failure", "checkpointed",
            "dehydrated", "lossy"} \subseteq Result
    BY DEF HandoffTypeOK, Result
  <1>1. CASE Probe(w) /\ UNCHANGED ghostVars
    <2>1. act' \in [Worker -> Activity]
      BY <1>0, <1>1 DEF Probe
    <2>2. QED
      BY <1>0, <1>1, <2>1 DEF Probe, StoredExists
  <1>2. CASE Hydrate(w) /\ UNCHANGED ghostVars
    <2>1. CASE Keep(w, warm[w], archive) /\ Installed(w) /\ UNCHANGED <<archive, saved>>
               /\ Reports(w, "restored") /\ UNCHANGED troubles
      BY <1>0, <1>2, <2>1, KeepTyped, MarkTyped DEF Installed
    <2>2. CASE SameCopies /\ (Reports(w, "notFound") \/ Reports(w, "failure"))
               /\ (Trouble \/ UNCHANGED troubles)
      BY <1>0, <1>2, <2>2
    <2>3. QED
      BY <1>2, <2>1, <2>2 DEF Hydrate
  <1>3. CASE Checkpoint(w) /\ UNCHANGED ghostVars
    <2>1. CASE Put(w, dir[w]) /\ UNCHANGED <<warm, dir, troubles>>
      BY <1>0, <1>3, <2>1, PutTyped DEF Checkpoint
    <2>2. CASE SameCopies /\ (Trouble \/ UNCHANGED troubles)
      BY <1>0, <1>3, <2>2 DEF Checkpoint
    <2>3. QED
      BY <1>3, <2>1, <2>2 DEF Checkpoint
  <1>4. CASE Prepare(w) /\ UNCHANGED ghostVars
    <2>1. PICK prepared \in BOOLEAN :
             act' = [act EXCEPT ![w] = [act[w] EXCEPT !.step = "destroy",
                                           !.checkpointPrepared = prepared, !.base = dir[w]]]
      BY <1>0, <1>4, StoreKind DEF Prepare, CountsAsPrepared
    <2>2. act' \in [Worker -> Activity]
      BY <1>0, <2>1, PreparedTyped
    <2>3. CASE Put(w, dir[w]) /\ UNCHANGED <<warm, dir, troubles>>
      BY <1>0, <1>4, <2>2, <2>3, PutTyped
    <2>4. CASE SameCopies /\ NotReady(w)
      BY <1>0, <1>4, <2>2, <2>4 DEF NotReady
    <2>5. QED
      BY <1>4, <2>3, <2>4 DEF Prepare
  <1>5. CASE Destroy(w) /\ UNCHANGED ghostVars
    <2>1. PICK outcome \in {"done", "unusable", "failed"} :
             /\ Destroyed(w, outcome) /\ (Trouble \/ UNCHANGED troubles)
             /\ act' = [act EXCEPT ![w] = [act[w] EXCEPT !.step = "persist",
                                           !.destroyFailed = (outcome = "failed")]]
      BY <1>0, <1>5 DEF Destroy
    <2>2. act' \in [Worker -> Activity]
      BY <1>0, <2>1, DestroyedTyped
    <2>3. QED
      BY <1>0, <1>5, <2>1, <2>2, DestroyingTyped
  <1>6. CASE Persist(w)
    <2>1. act' \in [Worker -> Activity]
      BY <1>0, <1>6 DEF Persist
    <2>2. troubles' \in 0 .. MaxTroubles /\ excused' \subseteq Turn /\ switched' \subseteq Turn
      BY <1>0, <1>6 DEF Persist, NotReady
    <2>3. {warm', dir'} \subseteq [Worker -> Copy]
      BY <1>0, <1>6 DEF Persist
    <2>4. archive' \in Copy /\ saved' \subseteq Turn /\ stale' \subseteq Worker \union {Store}
      BY <1>0, <1>6, PutTyped DEF Persist
    <2>5. QED
      BY <2>1, <2>2, <2>3, <2>4
  <1>7. QED
    BY <1>1, <1>2, <1>3, <1>4, <1>5, <1>6

(* The record of a shutdown.                                               *)
LEMMA ClosingField ==
    ASSUME NEW c \in Closing
    PROVE  /\ \A of \in Worker : [c EXCEPT !.of = of] \in Closing
           /\ \A step \in {"upload", "destroy", "archive", "persist", "stop"} :
                 [c EXCEPT !.step = step] \in Closing
           /\ \A copy \in Copy : [c EXCEPT !.snapshot = copy] \in Closing
           /\ \A prepared \in BOOLEAN : [c EXCEPT !.checkpointPrepared = prepared] \in Closing
           /\ \A outcome \in {"done", "unusable", "failed"} :
                 [c EXCEPT !.destroyed = outcome] \in Closing
           /\ [c EXCEPT !.stored = TRUE] \in Closing
           /\ \A turns \in SUBSET Turn : [c EXCEPT !.answered = turns] \in Closing
  BY DEF Closing

LEMMA NotClosingTyped == NotClosing \in Closing
  BY CopyIs DEF NotClosing, Closing

LEMMA UploadTyped ==
    ASSUME HandoffTypeOK, NEW w \in Worker, Upload(w)
    PROVE  archive' \in Copy /\ saved' \subseteq Turn /\ stale' \subseteq Worker \union {Store}
  BY DEF HandoffTypeOK, Upload, Mark, Closing

LEMMA ClosingStepsTyped ==
    ASSUME HandoffTypeOK, NEW w \in Worker, ClosingStep(w) PROVE HandoffTypeOK'
  <1> USE CopiesTyped
  <1>0. /\ closing \in Closing /\ closing.snapshot \in Copy /\ closing.checkpointPrepared \in BOOLEAN
        /\ act \in [Worker -> Activity] /\ done \subseteq Turn /\ saved \subseteq Turn
        /\ stale \subseteq Worker \union {Store}
    BY DEF HandoffTypeOK, Closing
  <1>1. CASE ClosingBegins(w)
    <2>1. PICK step \in {"upload", "destroy"}, prepared \in BOOLEAN :
             closing' = [NotClosing EXCEPT !.of = w, !.step = step, !.snapshot = dir[w],
                            !.checkpointPrepared = prepared,
                            !.answered = IF Behind(w) THEN {} ELSE done \intersect warm[w]]
      BY <1>1, StoreKind DEF ClosingBegins, CountsAsPrepared
    <2>2. (IF Behind(w) THEN {} ELSE done \intersect warm[w]) \in SUBSET Turn
      BY <1>0
    <2>3. closing' \in Closing
      BY <2>1, <2>2, <1>0, NotClosingTyped, ClosingField
    <2>4. QED
      BY <1>1, <2>3, Bounds
         DEF ClosingBegins, SameCopies, copyVars, ClosingOnly, orchestrationVars, HandoffTypeOK
  <1>2. CASE ClosingCheckpoints(w)
    <2>1. closing' \in Closing
      BY <1>0, <1>2, ClosingField DEF ClosingCheckpoints
    <2>2. QED
      BY <1>2, <2>1, UploadTyped
         DEF ClosingCheckpoints, ClosingOnly, orchestrationVars, HandoffTypeOK
  <1>3. CASE ClosingDestroys(w)
    <2>1. PICK outcome \in {"done", "unusable", "failed"} :
             Destroyed(w, outcome)
             /\ closing' = [closing EXCEPT !.step = "archive", !.destroyed = outcome]
      BY <1>3 DEF ClosingDestroys
    <2>2. closing' \in Closing
      BY <1>0, <2>1, ClosingField
    <2>3. QED
      BY <1>3, <2>1, <2>2, DestroyingTyped
         DEF ClosingDestroys, ClosingOnly, orchestrationVars, HandoffTypeOK
  <1>4. CASE ClosingReads(w)
    <2>1. closing' \in Closing
      <3>1. \/ closing' = [closing EXCEPT !.step = "persist", !.snapshot = dir[w]]
            \/ closing' = [closing EXCEPT !.step = "stop"]
        BY <1>4 DEF ClosingReads
      <3>2. [closing EXCEPT !.step = "stop"] \in Closing
        BY <1>0, ClosingField
      <3>3. [closing EXCEPT !.step = "persist", !.snapshot = dir[w]] \in Closing
        BY <1>0, ClosingField
      <3>4. QED
        BY <3>1, <3>2, <3>3
    <2>2. dir' \in [Worker -> Copy]
      BY <1>0, <1>4 DEF ClosingReads
    <2>3. QED
      BY <1>4, <2>1, <2>2 DEF ClosingReads, ClosingOnly, orchestrationVars, HandoffTypeOK
  <1>5. CASE ClosingStores(w)
    <2>1. closing' \in Closing
      <3>1. \/ closing' = [closing EXCEPT !.step = "stop", !.stored = TRUE]
            \/ closing' = [closing EXCEPT !.step = "stop"]
        BY <1>5 DEF ClosingStores
      <3>2. QED
        BY <1>0, <3>1, ClosingField
    <2>2. dir' \in [Worker -> Copy]
      BY <1>0, <1>5 DEF ClosingStores
    <2>3. archive' \in Copy /\ saved' \subseteq Turn /\ stale' \subseteq Worker \union {Store}
      BY <1>0, <1>5, UploadTyped DEF ClosingStores
    <2>4. QED
      BY <1>5, <2>1, <2>2, <2>3 DEF ClosingStores, ClosingOnly, orchestrationVars, HandoffTypeOK
  <1>6. CASE Stops(w)
    <2>1. {warm', dir'} \subseteq [Worker -> Copy] /\ stale' \subseteq Worker \union {Store}
      BY <1>0, <1>6, KeepTyped DEF Stops
    <2>2. act' \in [Worker -> Activity]
      BY <1>0, <1>6, NoActivityTyped DEF Stops
    <2>3. QED
      BY <1>6, <2>1, <2>2, NotClosingTyped DEF Stops, LeaveWorker, HandoffTypeOK
  <1>7. QED
    BY <1>1, <1>2, <1>3, <1>4, <1>5, <1>6 DEF ClosingStep

(* The durable runtime and the writes of the SDK.                          *)
LEMMA RuntimeTyped ==
    ASSUME HandoffTypeOK, NEW w \in Worker,
           Ignored(w) \/ Flush(w) \/ Dispatch(w) \/ Crash(w) \/ Lapse(w)
    PROVE  HandoffTypeOK'
  <1> USE CopiesTyped
  <1>0. /\ act \in [Worker -> Activity] /\ stale \subseteq Worker \union {Store}
        /\ iteration \in 0 .. MaxTurns /\ closing \in Closing
    BY DEF HandoffTypeOK
  <1>1. CASE Ignored(w)
    BY <1>1, NoActivityTyped DEF Ignored, orchestrationVars, copyVars, HandoffTypeOK
  <1>2. CASE Flush(w)
    BY <1>2 DEF Flush, orchestrationVars, HandoffTypeOK
  <1>3. CASE Dispatch(w)
    <2>1. FirstStep[phase] \in Step
      BY <1>3 DEF Dispatch, FirstStep, Step
    <2>2. [NoActivity EXCEPT !.step = FirstStep[phase], !.turnIndex = iteration] \in Activity
      <3> DEFINE b == [NoActivity EXCEPT !.step = FirstStep[phase]]
      <3>1. b \in Activity
        BY <2>1, NoActivityTyped DEF Activity
      <3>2. [b EXCEPT !.turnIndex = iteration] \in Activity
        <4> HIDE DEF b
        <4>1. QED
          BY <1>0, <3>1 DEF Activity
      <3>3. QED
        BY <3>2
    <2>3. act' \in [Worker -> Activity]
      BY <1>0, <1>3, <2>2 DEF Dispatch
    <2>4. QED
      BY <1>0, <1>3, <2>3 DEF Dispatch, HandoffTypeOK
  <1>4. CASE Crash(w)
    <2>1. {warm', dir'} \subseteq [Worker -> Copy] /\ stale' \subseteq Worker \union {Store}
      BY <1>0, <1>4, KeepTyped DEF Crash
    <2>2. act' \in [Worker -> Activity] /\ closing' \in Closing
      BY <1>0, <1>4, NoActivityTyped, NotClosingTyped DEF Crash
    <2>3. troubles' \in 0 .. MaxTroubles
      BY <1>4, TroubleCounted DEF Crash
    <2>4. QED
      BY <1>4, <2>1, <2>2, <2>3 DEF Crash, LeaveWorker, HandoffTypeOK
  <1>5. CASE Lapse(w)
    <2>1. troubles' \in 0 .. MaxTroubles
      BY <1>5, TroubleCounted DEF Lapse
    <2>2. QED
      BY <1>5, <2>1 DEF Lapse, LeaveWorker, HandoffTypeOK
  <1>6. QED
    BY <1>1, <1>2, <1>3, <1>4, <1>5

(* The orchestration.                                                      *)
LEMMA AnswerTyped ==
    ASSUME HandoffTypeOK, NEW result, Answer(result)
    PROVE  /\ act' \in [Worker -> Activity] /\ owner' = NoWorker /\ owner \in Worker
           /\ UNCHANGED <<warm, dir, archive, saved, closing, ghostVars, stale, troubles>>
  BY NoActivityTyped DEF HandoffTypeOK, Answer, OrchestrationOnly

LEMMA PlanTyped ==
    ASSUME NEW reset \in BOOLEAN, NEW retry \in BOOLEAN
    PROVE  /\ [resetAffinity |-> reset, retry |-> retry] \in [resetAffinity : BOOLEAN, retry : BOOLEAN]
           /\ [resetAffinity |-> reset, retry |-> retry].retry = retry
  OBVIOUS

LEMMA OrchestrationTyped ==
    ASSUME HandoffTyped, NewPrompt \/ OrchestrationStep PROVE HandoffTyped'
  <1> USE AnswerTyped, Bounds DEF HandoffTyped, HandoffTypeOK, TurnsLeft, Phase
  <1>1. CASE NewPrompt
    BY <1>1 DEF NewPrompt, EnterHydrate, NewKey, OrchestrationOnly
  <1>2. CASE ProbeAnswered
    BY <1>2 DEF ProbeAnswered, EnterHydrate, NewKey
  <1>3. CASE HydrateAnswered
    <2>1. needsHydration' \in BOOLEAN /\ preserveAffinityOnHydrate' \in BOOLEAN
      BY <1>3, Zenon DEF HydrateAnswered
    <2>2. QED
      BY <1>3, <2>1 DEF HydrateAnswered
  <1>4. CASE HydrateFailed
    BY <1>4 DEF HydrateFailed, EnterHydrate, NewKey
  <1>5. CASE TurnAnswered
    BY <1>5 DEF TurnAnswered, Turn
  <1>6. CASE TurnFailed
    <2>1. iteration' \in 0 .. MaxTurns /\ iteration' < MaxTurns
      BY <1>6 DEF TurnFailed
    <2>2. /\ retryCount' \in (0 .. MAX_HANDOFF_RETRIES - 1) \union (0 .. MAX_CONNECTION_RETRIES)
          /\ phase' \in {"idle", "dehydrate"}
      BY <1>6 DEF TurnFailed
    <2>3. plan' \in [resetAffinity : BOOLEAN, retry : BOOLEAN]
      <3>1. plan' \in {plan, [resetAffinity |-> TRUE, retry |-> TRUE]}
        BY <1>6 DEF TurnFailed
      <3>2. plan \in [resetAffinity : BOOLEAN, retry : BOOLEAN]
        OBVIOUS
      <3>3. QED
        BY <3>1, <3>2, PlanTyped
    <2>4. QED
      BY <1>6, <2>1, <2>2, <2>3 DEF TurnFailed
  <1>7. CASE AfterTurn
    <2>1. plan' \in [resetAffinity : BOOLEAN, retry : BOOLEAN]
          /\ (phase' = "dehydrate" => ~plan'.retry)
      <3>1. \/ plan' = plan /\ phase' # "dehydrate"
            \/ \E reset \in BOOLEAN : plan' = [resetAffinity |-> reset, retry |-> FALSE]
        BY <1>7 DEF AfterTurn
      <3>2. plan \in [resetAffinity : BOOLEAN, retry : BOOLEAN]
        OBVIOUS
      <3>3. QED
        BY <3>1, <3>2, PlanTyped
    <2>2. QED
      BY <1>7, <2>1 DEF AfterTurn, OrchestrationOnly
  <1>8. CASE CheckpointAnswered
    BY <1>8 DEF CheckpointAnswered
  <1>9. CASE DehydrateAnswered
    BY <1>9 DEF DehydrateAnswered, NoPlan, NewKey
  <1>10. CASE DehydrateFailed
    BY <1>10 DEF DehydrateFailed
  <1>11. QED
    BY <1>1, <1>2, <1>3, <1>4, <1>5, <1>6, <1>7, <1>8, <1>9, <1>10 DEF OrchestrationStep

(* Every variable keeps its type.                                          *)
THEOREM TypeCorrect == HandoffSpec => []HandoffTypeOK
  <1>1. HandoffInit => HandoffTyped
    <2> SUFFICES ASSUME HandoffInit PROVE HandoffTyped
      OBVIOUS
    <2>1. needsHydration \in BOOLEAN /\ preserveAffinityOnHydrate \in BOOLEAN
      BY Zenon DEF HandoffInit
    <2>2. plan \in [resetAffinity : BOOLEAN, retry : BOOLEAN]
      BY DEF HandoffInit, NoPlan
    <2>3. {warm, dir} \subseteq [Worker -> Copy] /\ archive \in Copy
      BY CopyIs DEF HandoffInit
    <2>4. QED
      BY <2>1, <2>2, <2>3, NoActivityTyped, NotClosingTyped, Bounds
         DEF HandoffInit, HandoffTyped, HandoffTypeOK, TurnsLeft, Phase
  <1>2. HandoffTyped /\ [HandoffNext]_handoffVars => HandoffTyped'
    <2> SUFFICES ASSUME HandoffTyped, [HandoffNext]_handoffVars PROVE HandoffTyped'
      OBVIOUS
    <2>1. ASSUME NEW w \in Worker, WorkerStep(w) PROVE HandoffTyped'
      <3>1. WorkerTyped
        BY <2>1, TurnStepsTyped, StoreStepsTyped DEF WorkerStep, HandoffTyped
      <3>2. QED
        BY <2>1, <3>1
           DEF WorkerStep, orchestrationVars, WorkerTyped, HandoffTyped, HandoffTypeOK, TurnsLeft
    <2>2. ASSUME NEW w \in Worker, ClosingStep(w) PROVE HandoffTyped'
      <3>1. UNCHANGED <<phase, iteration, plan>>
        BY <2>2 DEF ClosingStep, ClosingBegins, ClosingCheckpoints, ClosingDestroys, ClosingReads,
                    ClosingStores, Stops, ClosingOnly, orchestrationVars, LeaveWorker
      <3>2. QED
        BY <2>2, <3>1, ClosingStepsTyped DEF HandoffTyped, TurnsLeft
    <2>3. ASSUME NEW w \in Worker, Ignored(w) \/ Flush(w) \/ Dispatch(w) \/ Crash(w) \/ Lapse(w)
          PROVE  HandoffTyped'
      <3>1. UNCHANGED <<phase, iteration, plan>>
        BY <2>3 DEF Ignored, Flush, Dispatch, Crash, Lapse, orchestrationVars, LeaveWorker
      <3>2. QED
        BY <2>3, <3>1, RuntimeTyped DEF HandoffTyped, TurnsLeft
    <2>4. CASE UNCHANGED handoffVars
      BY <2>4 DEF handoffVars, orchestrationVars, copyVars, HandoffTyped, HandoffTypeOK, TurnsLeft
    <2>5. QED
      BY <2>1, <2>2, <2>3, <2>4, OrchestrationTyped DEF HandoffNext
  <1>3. HandoffTyped => HandoffTypeOK
    BY DEF HandoffTyped
  <1>4. QED
    BY <1>1, <1>2, <1>3, PTL DEF HandoffSpec

----------------------------------------------------------------------------
(* What a step of an activity does to the record of the activity.          *)
OtherActs(w) == \A v \in Worker \ {w} : act'[v] = act[v]
Reported(w, outcome) ==
    /\ OtherActs(w)
    /\ owner # w => act'[w] = NoActivity
    /\ owner = w => /\ act'[w].step = "report" /\ act'[w].result = outcome
                    /\ act'[w].base = act[w].base
Moved(w, step) ==
    /\ OtherActs(w) /\ act'[w].step = step /\ act'[w].turnIndex = act[w].turnIndex

LEMMA ReportsReported ==
    ASSUME HandoffTypeOK, NEW w \in Worker, NEW outcome, Reports(w, outcome)
    PROVE  Reported(w, outcome)
  <1>1. act \in [Worker -> Activity]
    BY DEF HandoffTypeOK
  <1>2. ASSUME owner = w
        PROVE  act'[w] = [NoActivity EXCEPT !.step = "report", !.result = outcome, !.base = act[w].base]
    BY <1>1, <1>2 DEF Reports
  <1>3. ASSUME owner # w PROVE act'[w] = NoActivity
    BY <1>1, <1>3 DEF Reports
  <1>4. QED
    BY <1>1, <1>2, <1>3 DEF Reports, Reported, OtherActs, NoActivity

LEMMA GotoMoved ==
    ASSUME HandoffTypeOK, NEW w \in Worker, NEW step, Goto(w, step) PROVE Moved(w, step)
  <1>1. act \in [Worker -> Activity] /\ act[w] \in Activity
    BY DEF HandoffTypeOK
  <1>2. act'[w] = [act[w] EXCEPT !.step = step] /\ OtherActs(w)
    BY <1>1 DEF Goto, OtherActs
  <1>3. QED
    BY <1>1, <1>2 DEF Moved, Activity

(* An activity goes on in this order, or reports; a fresh session is only  *)
(* created once the answered turns have been given up.                     *)
ActMoves(w) ==
    /\ OtherActs(w) /\ (act'[w].step # "get" => act'[w] # act[w])
    /\ act'[w].step \in {"none", "report", "destroy", "persist"} \union TurnSteps
    /\ act'[w].step \in TurnSteps =>
         act[w].step \in TurnSteps /\ act'[w].turnIndex = act[w].turnIndex
    /\ act'[w].step \in {"switch", "fresh"} => done \subseteq GivenUp'
    /\ act'[w].step = "destroy" => act[w].step = "prepare"
    /\ act'[w].step = "persist" => act[w].step = "destroy"
    /\ act'[w].step = "report" => owner = w

LEMMA NoActivityStep == NoActivity.step = "none"
  BY DEF NoActivity

LEMMA ReportedMoves ==
    ASSUME HandoffTypeOK, NEW w \in Worker, NEW outcome, Reports(w, outcome),
           act[w].step \notin {"none", "report"}
    PROVE  ActMoves(w)
  BY ReportsReported, NoActivityStep DEF Reported, ActMoves

LEMMA StepMoves ==
    ASSUME HandoffTypeOK, NEW w \in Worker, WorkerStep(w) PROVE ActMoves(w)
  <1> USE NoActivityStep, ReportedMoves
  <1>0. act \in [Worker -> Activity] /\ act[w] \in Activity
    BY DEF HandoffTypeOK
  <1>1. CASE Probe(w)
    BY <1>1 DEF Probe
  <1>2. CASE Hydrate(w)
    BY <1>2 DEF Hydrate
  <1>3. CASE Checkpoint(w)
    BY <1>3 DEF Checkpoint
  <1>4. CASE Prepare(w)
    <2>1. PICK prepared :
             act' = [act EXCEPT ![w] = [act[w] EXCEPT !.step = "destroy",
                                           !.checkpointPrepared = prepared, !.base = dir[w]]]
      BY <1>0, <1>4 DEF Prepare
    <2>2. OtherActs(w) /\ act'[w].step = "destroy" /\ act[w].step = "prepare"
      BY <1>0, <1>4, <2>1 DEF Prepare, OtherActs, Activity
    <2>3. QED
      BY <2>2 DEF ActMoves
  <1>5. CASE Destroy(w)
    <2>1. PICK failed :
             act' = [act EXCEPT ![w] = [act[w] EXCEPT !.step = "persist", !.destroyFailed = failed]]
      BY <1>0, <1>5 DEF Destroy
    <2>2. OtherActs(w) /\ act'[w].step = "persist" /\ act[w].step = "destroy"
      BY <1>0, <1>5, <2>1 DEF Destroy, OtherActs, Activity
    <2>3. QED
      BY <2>2 DEF ActMoves
  <1>6. CASE GetOrCreate(w)
    <2>1. act[w].step = "get"
      BY <1>6 DEF GetOrCreate
    <2>2. CASE Goto(w, "run")
      BY <2>1, <2>2, GotoMoved DEF Moved, ActMoves
    <2>3. CASE Reports(w, IF act[w].recoveries = 0 THEN "failure" ELSE "missing")
      BY <2>1, <2>3
    <2>4. QED
      BY <1>6, <2>2, <2>3 DEF GetOrCreate
  <1>7. CASE MissingState(w)
    <2>1. act[w].step = "get"
      BY <1>7 DEF MissingState, NothingToResume
    <2>2. CASE Goto(w, "fresh") /\ excused' = done
      BY <2>1, <2>2, GotoMoved DEF Moved, ActMoves
    <2>3. CASE Reports(w, "missing")
      BY <2>1, <2>3
    <2>4. QED
      BY <1>7, <2>2, <2>3 DEF MissingState
  <1>8. CASE ReplayFresh(w)
    <2>1. act[w].step \in {"switch", "fresh"}
      BY <1>8 DEF ReplayFresh
    <2>2. CASE Goto(w, "run")
      BY <2>1, <2>2, GotoMoved DEF Moved, ActMoves
    <2>3. QED
      BY <1>8, <2>1, <2>2 DEF ReplayFresh
  <1>9. CASE TurnCompletes(w)
    BY <1>9 DEF TurnCompletes
  <1>10. CASE TurnFails(w)
    BY <1>10 DEF TurnFails
  <1>11. CASE LiveSessionLost(w)
    <2>1. CASE act' = [act EXCEPT ![w].step = "get", ![w].recoveries = 1]
      <3>1. act' = [act EXCEPT ![w] = [act[w] EXCEPT !.step = "get", !.recoveries = 1]]
        BY <1>0, <2>1
      <3>2. OtherActs(w) /\ act'[w].step = "get" /\ act'[w].turnIndex = act[w].turnIndex
        BY <1>0, <3>1 DEF OtherActs, Activity
      <3>3. QED
        BY <1>11, <3>2 DEF LiveSessionLost, ActMoves
    <2>2. QED
      BY <1>11, <2>1 DEF LiveSessionLost
  <1>12. CASE TranscriptCorrupt(w)
    <2>1. act' = [act EXCEPT ![w] = [act[w] EXCEPT !.step = "record", !.recoveries = 2]]
      BY <1>0, <1>12 DEF TranscriptCorrupt
    <2>2. OtherActs(w) /\ act'[w].step = "record" /\ act'[w].turnIndex = act[w].turnIndex
      BY <1>0, <2>1 DEF OtherActs, Activity
    <2>3. act[w].step = "run"
      BY <1>12 DEF TranscriptCorrupt
    <2>4. QED
      BY <2>2, <2>3 DEF ActMoves
  <1>13. CASE Persist(w)
    BY <1>13 DEF Persist
  <1>14. CASE Rebound(w)
    <2>1. act[w].step = "get" /\ (UNCHANGED act \/ (Goto(w, "switch") /\ switched' = done))
      BY <1>14 DEF Rebound
    <2>2. CASE UNCHANGED act
      BY <2>1, <2>2 DEF ActMoves, OtherActs
    <2>3. QED
      BY <2>1, <2>2, GotoMoved DEF Moved, ActMoves
  <1>15. CASE LossRecorded(w)
    BY <1>15, GotoMoved DEF LossRecorded, Moved, ActMoves
  <1>16. QED
    BY <1>1, <1>2, <1>3, <1>4, <1>5, <1>6, <1>7, <1>8, <1>9, <1>10, <1>11, <1>12, <1>13, <1>14, <1>15
       DEF WorkerStep

----------------------------------------------------------------------------
(* The turns of an activity.  As long as the orchestration waits for it, a *)
(* turn activity runs the next turn, so a first turn only finds a session  *)
(* without answered turns, and a fresh session replaces one that has been  *)
(* given up.                                                               *)
Rounds ==
    /\ iteration = 0 => done = {}
    /\ \A w \in Worker : owner = w =>
         /\ act[w].step \in TurnSteps => act[w].turnIndex = iteration
         /\ act[w].step \in {"switch", "fresh"} => done \subseteq GivenUp

(* The turns given up stay so, or all that have been answered are.         *)
GivesUp == GivenUp' = GivenUp \/ done \subseteq GivenUp'

LEMMA GivenUpGrows ==
    ASSUME NEW w \in Worker, WorkerStep(w) PROVE GivesUp
  <1>1. excused' \in {excused, done} /\ switched' \in {switched, done}
    BY DEF WorkerStep, Rebound, GetOrCreate, MissingState, ReplayFresh, TurnCompletes, TurnFails,
           LiveSessionLost, TranscriptCorrupt, LossRecorded, Persist
  <1>2. QED
    BY <1>1 DEF GivesUp

(* The workers and the durable runtime leave the turns of the conversation *)
(* to the orchestration.                                                   *)
LEMMA SameTurns ==
    ASSUME NEW w \in Worker, WorkerStep(w) \/ Ignored(w) \/ Flush(w) \/ Dispatch(w) \/ Crash(w)
                             \/ Lapse(w) \/ ClosingStep(w)
    PROVE  UNCHANGED <<iteration, done, phase, needsHydration, plan>>
  BY DEF WorkerStep, Ignored, Flush, Dispatch, Crash, Lapse, ClosingStep, ClosingBegins,
         ClosingCheckpoints, ClosingDestroys, ClosingReads, ClosingStores, Stops, ClosingOnly,
         orchestrationVars, LeaveWorker

LEMMA OrchestrationOwner ==
    ASSUME NewPrompt \/ OrchestrationStep
    PROVE  /\ UNCHANGED <<warm, dir, archive, saved, closing, ghostVars, stale, troubles>>
           /\ \/ owner' = NoWorker
              \/ owner' = owner /\ UNCHANGED <<act, iteration, done>>
  BY DEF NewPrompt, OrchestrationStep, ProbeAnswered, HydrateAnswered, HydrateFailed, TurnAnswered,
         TurnFailed, AfterTurn, CheckpointAnswered, DehydrateAnswered, DehydrateFailed, Answer,
         OrchestrationOnly

LEMMA DispatchedAct ==
    ASSUME HandoffTypeOK, NEW w \in Worker, Dispatch(w)
    PROVE  /\ OtherActs(w) /\ act'[w].turnIndex = iteration
           /\ act'[w].step \in {"probe", "hydrate", "get", "checkpoint", "prepare"}
           /\ act'[w].step = "hydrate" => phase = "hydrate"
           /\ act'[w].step = "get" => phase = "turn"
  <1>1. act' = [act EXCEPT ![w] = [NoActivity EXCEPT !.step = FirstStep[phase], !.turnIndex = iteration]]
    BY DEF Dispatch
  <1>2. OtherActs(w) /\ act'[w].turnIndex = iteration /\ act'[w].step = FirstStep[phase]
    BY <1>1 DEF HandoffTypeOK, OtherActs, NoActivity
  <1>3. phase \in {"probe", "hydrate", "turn", "checkpoint", "dehydrate"}
    BY DEF Dispatch, FirstStep
  <1>4. QED
    BY <1>2, <1>3 DEF FirstStep

LEMMA RoundsKept ==
    ASSUME HandoffTypeOK, Rounds, [HandoffNext]_handoffVars PROVE Rounds'
  <1>0. act \in [Worker -> Activity] /\ NoWorker \notin Worker /\ iteration \in Nat
    BY HandoffNames, Bounds DEF HandoffTypeOK
  <1>1. ASSUME NEW w \in Worker, WorkerStep(w) PROVE Rounds'
    <2>1. owner' = owner /\ iteration' = iteration /\ done' = done
      BY <1>1 DEF WorkerStep, orchestrationVars
    <2>2. ActMoves(w) /\ GivesUp
      BY <1>1, StepMoves, GivenUpGrows
    <2>3. QED
      BY <2>1, <2>2 DEF Rounds, ActMoves, OtherActs, GivesUp
  <1>2. ASSUME NEW w \in Worker, Ignored(w) \/ Crash(w) \/ Lapse(w) \/ Stops(w)
        PROVE  Rounds'
    <2>1. /\ owner' \in {owner, NoWorker} /\ iteration' = iteration /\ done' = done
          /\ UNCHANGED ghostVars
      BY <1>2 DEF Ignored, Crash, Lapse, Stops, LeaveWorker, orchestrationVars
    <2>2. act' = [act EXCEPT ![w] = NoActivity] \/ act' = act
      BY <1>2 DEF Ignored, Crash, Lapse, Stops
    <2>3. QED
      BY <1>0, <2>1, <2>2, NoActivityStep DEF Rounds
  <1>3. ASSUME NEW w \in Worker, Flush(w) \/ (ClosingStep(w) /\ ~Stops(w)) PROVE Rounds'
    BY <1>3 DEF Flush, ClosingStep, ClosingBegins, ClosingCheckpoints, ClosingDestroys, ClosingReads,
                ClosingStores, ClosingOnly, orchestrationVars, Rounds
  <1>4. ASSUME NEW w \in Worker, Dispatch(w) PROVE Rounds'
    <2>1. owner' = w /\ UNCHANGED <<iteration, done, ghostVars>>
      BY <1>4 DEF Dispatch
    <2>2. QED
      BY <1>4, <2>1, DispatchedAct DEF Rounds
  <1>5. CASE NewPrompt \/ OrchestrationStep
    <2>1. UNCHANGED ghostVars
      BY <1>5, OrchestrationOwner
    <2>2. CASE owner' = owner /\ UNCHANGED <<act, iteration, done>>
      BY <2>1, <2>2 DEF Rounds
    <2>3. CASE owner' = NoWorker
      <3>1. iteration' = 0 => iteration = 0 /\ done' = done
        BY <1>0, <1>5
           DEF NewPrompt, OrchestrationStep, ProbeAnswered, HydrateAnswered, HydrateFailed,
               TurnAnswered, TurnFailed, AfterTurn, CheckpointAnswered, DehydrateAnswered,
               DehydrateFailed
      <3>2. QED
        BY <1>0, <2>3, <3>1 DEF Rounds
    <2>4. QED
      BY <1>5, <2>2, <2>3, OrchestrationOwner
  <1>6. CASE UNCHANGED handoffVars
    BY <1>6 DEF handoffVars, orchestrationVars, Rounds
  <1>7. QED
    BY <1>1, <1>2, <1>3, <1>4, <1>5, <1>6 DEF HandoffNext, ClosingStep

----------------------------------------------------------------------------
(* What one step does to the copies of the conversation: worker w moves    *)
(* what it has between its memory and its disk, or loses it (Carries);     *)
(* puts a copy into the store (Archives); takes the archive (Restores);    *)
(* deletes everything (Discards); or starts an empty conversation (Renews).*)
Has(w) == warm[w] # {} \/ dir[w] # {}
Elsewhere(w) ==
    \A v \in Worker \ {w} : warm'[v] = warm[v] /\ dir'[v] = dir[v] /\ (v \in stale' <=> v \in stale)

Carries(w) ==
    /\ Elsewhere(w) /\ UNCHANGED <<archive, saved>> /\ (Store \in stale' <=> Store \in stale)
    /\ w \in stale' => w \in stale
    /\ warm'[w] # {} \/ dir'[w] # {} => Has(w) /\ (w \in stale => w \in stale')
    /\ warm'[w] # {} => IF warm[w] = {} THEN warm'[w] = dir[w] /\ act[w].step = "get"
                        ELSE warm[w] \subseteq warm'[w]
    /\ dir'[w] # {} => dir'[w] = dir[w] \/ (warm[w] # {} /\ dir'[w] = warm[w])

Archives(w) ==
    /\ Elsewhere(w) /\ UNCHANGED warm /\ dir'[w] \in {dir[w], {}} /\ (w \in stale' <=> w \in stale)
    /\ archive' # {}
    /\ \/ Store \in stale' /\ saved' = saved
       \/ /\ Store \notin stale' /\ ~Behind(w) /\ archive' = dir[w]
          /\ saved' = saved \union (dir[w] \intersect done)

Restores(w) ==
    /\ Elsewhere(w) /\ UNCHANGED <<archive, saved>> /\ (Store \in stale' <=> Store \in stale)
    /\ dir'[w] = archive
    /\ \/ act[w].step \in {"get", "hydrate"} /\ warm'[w] = warm[w]
       \/ act[w].step = "get" /\ ~Has(w) /\ warm'[w] = archive
    /\ w \notin stale' => owner = w /\ Store \notin stale /\ (w \in stale => warm[w] = {})

Discards(w) ==
    /\ Elsewhere(w) /\ UNCHANGED saved /\ warm'[w] = {} /\ dir'[w] = {} /\ archive' = {}
    /\ act[w].step \in {"get", "run"} /\ w \notin stale' /\ (owner # w => Store \in stale')
    /\ \/ owner = w /\ (done \subseteq GivenUp' \/ act'[w].step = "record")
       \/ owner # w /\ act'[w] # act[w]

Renews(w) ==
    /\ Elsewhere(w) /\ UNCHANGED saved /\ warm'[w] = Created /\ dir'[w] = Created
    /\ archive' \in {archive, {}} /\ (Store \notin stale' => archive' = {})
    /\ act[w].step \in TurnSteps /\ act'[w] # act[w]
    /\ IF owner = w THEN done \subseteq GivenUp'
       ELSE /\ w \in stale' /\ (Store \in stale => Store \in stale')
            /\ Store \in stale' \/ archive' = archive

LEMMA PurgeDiscards ==
    ASSUME HandoffTypeOK, NEW w \in Worker, Purge(w), act[w].step \in {"get", "run"},
           act'[w] # act[w], done \subseteq GivenUp' \/ act'[w].step = "record" \/ owner # w
    PROVE  Carries(w) \/ Discards(w)
  <1>1. CASE UNCHANGED archive /\ stale' = stale \ {w}
    BY <1>1, CopiesTyped, HandoffNames DEF Purge, Keep, Carries, Elsewhere, Has
  <1>2. CASE /\ archive' = {}
             /\ stale' = IF owner = w THEN stale \ {w, Store} ELSE (stale \ {w}) \union {Store}
    BY <1>2, CopiesTyped, HandoffNames DEF Purge, Keep, Discards, Elsewhere
  <1>3. QED
    BY <1>1, <1>2 DEF Purge

LEMMA NothingCarried ==
    ASSUME HandoffTypeOK, NEW w \in Worker, SameCopies PROVE Carries(w)
  BY DEF SameCopies, copyVars, Carries, Elsewhere, Has

LEMMA ResumeCarries ==
    ASSUME HandoffTypeOK, NEW w \in Worker, Resume(w), act[w].step = "get" PROVE Carries(w)
  BY CopiesTyped, NothingCarried DEF Resume, Keep, Carries, Elsewhere, Has

LEMMA LosesCarries ==
    ASSUME HandoffTypeOK, NEW w \in Worker,
           \E onDisk \in {warm[w], dir[w], {}} :
             /\ Keep(w, {}, onDisk)
             /\ stale' = stale \/ (onDisk = {} /\ stale' = stale \ {w}),
           UNCHANGED <<archive, saved>>
    PROVE  Carries(w)
  BY CopiesTyped, HandoffNames DEF Keep, Carries, Elsewhere, Has

LEMMA DestroyedCarries ==
    ASSUME HandoffTypeOK, NEW w \in Worker, NEW outcome \in {"done", "unusable", "failed"},
           Destroyed(w, outcome)
    PROVE  Carries(w)
  <1>1. CASE warm[w] = {}
    BY <1>1, NothingCarried DEF Destroyed, SameCopies, copyVars
  <1>2. CASE warm[w] # {}
    <2>1. \E onDisk \in {warm[w], dir[w], {}} : Keep(w, {}, onDisk)
      BY <1>2 DEF Destroyed
    <2>2. QED
      BY <1>2, <2>1, LosesCarries DEF Destroyed
  <1>3. QED
    BY <1>1, <1>2

LEMMA PutArchives ==
    ASSUME HandoffTypeOK, NEW w \in Worker, dir[w] # {}, Put(w, dir[w]), UNCHANGED warm,
           dir' = dir \/ dir' = [dir EXCEPT ![w] = {}]
    PROVE  Archives(w)
  BY CopiesTyped, HandoffNames DEF Put, Mark, Archives, Elsewhere

LEMMA UploadArchives ==
    ASSUME HandoffTypeOK, NEW w \in Worker, closing.snapshot # {}, Upload(w), UNCHANGED warm,
           dir' = dir \/ dir' = [dir EXCEPT ![w] = {}]
    PROVE  Archives(w)
  BY CopiesTyped, HandoffNames DEF Upload, Late, Mark, Archives, Elsewhere

LEMMA ResetRenews ==
    ASSUME HandoffTypeOK, NEW w \in Worker, Reset(w), act[w].step \in TurnSteps,
           act'[w] # act[w], owner = w => done \subseteq GivenUp'
    PROVE  Renews(w)
  BY CopiesTyped, HandoffNames DEF Reset, Keep, Renews, Elsewhere

LEMMA CreateFreshRenews ==
    ASSUME HandoffTypeOK, NEW w \in Worker, CreateFresh(w), act[w].step \in TurnSteps,
           act'[w] # act[w], owner = w => done \subseteq GivenUp'
    PROVE  Renews(w)
  <1>1. CASE Reset(w)
    BY <1>1, ResetRenews
  <1>2. CASE Keep(w, Created, Created) /\ UNCHANGED <<archive, saved>>
             /\ stale' = (stale \ {w}) \union (IF owner # w THEN {w} ELSE {})
                            \union (IF archive # {} THEN {Store} ELSE {})
    BY <1>2, CopiesTyped, HandoffNames DEF Keep, Renews, Elsewhere
  <1>3. QED
    BY <1>1, <1>2 DEF CreateFresh

(* What gracefulShutdown uploads has been read before.                     *)
SnapshotRead == closing.step \in {"upload", "persist"} => closing.snapshot # {}

Spares(w) == Carries(w) \/ Archives(w) \/ Restores(w) \/ Renews(w)
Disturbs(w) == Spares(w) \/ Discards(w)

LEMMA ActivityDisturbs ==
    ASSUME HandoffTypeOK, Rounds, NEW w \in Worker, WorkerStep(w)
    PROVE  Disturbs(w) /\ (Trouble \/ Spares(w))
  <1> USE CopiesTyped, NothingCarried DEF Disturbs, Spares
  <1>0. act'[w].step # "get" => act'[w] # act[w]
    BY StepMoves DEF ActMoves
  <1>1. CASE Probe(w) \/ TurnFails(w) \/ LossRecorded(w)
    BY <1>1 DEF Probe, TurnFails, LossRecorded
  <1>2. CASE Hydrate(w)
    <2>1. ASSUME Keep(w, warm[w], archive), Installed(w), UNCHANGED <<archive, saved>>
          PROVE  Restores(w)
      BY <1>2, <2>1, HandoffNames DEF Hydrate, Keep, Installed, Mark, Restores, Elsewhere, Has
    <2>2. QED
      BY <1>2, <2>1 DEF Hydrate
  <1>3. CASE Checkpoint(w) \/ Prepare(w)
    BY <1>3, PutArchives DEF Checkpoint, Prepare
  <1>4. CASE Destroy(w)
    BY <1>4, DestroyedCarries DEF Destroy
  <1>5. CASE GetOrCreate(w)
    <2>1. CASE act[w].turnIndex = 0 /\ CreateFresh(w) /\ Goto(w, "run")
      <3>1. owner = w => done = {}
        BY <1>5, <2>1 DEF Rounds, GetOrCreate
      <3>2. act'[w].step = "run"
        BY <2>1, GotoMoved DEF Moved
      <3>3. act[w].step = "get"
        BY <1>5 DEF GetOrCreate
      <3>4. QED
        BY <1>0, <2>1, <3>1, <3>2, <3>3, CreateFreshRenews
    <2>2. CASE Resume(w)
      BY <1>5, <2>2, ResumeCarries DEF GetOrCreate
    <2>3. CASE /\ warm[w] = {} /\ dir[w] = {} /\ archive # {}
               /\ Keep(w, archive, archive) /\ Installed(w) /\ UNCHANGED <<archive, saved>>
      BY <1>5, <2>3, HandoffNames DEF GetOrCreate, Keep, Installed, Mark, Restores, Elsewhere, Has
    <2>4. QED
      BY <1>5, <2>1, <2>2, <2>3 DEF GetOrCreate
  <1>6. CASE ReplayFresh(w)
    <2>1. act[w].step \in {"switch", "fresh"} /\ UNCHANGED ghostVars
      BY <1>6 DEF ReplayFresh
    <2>2. owner = w => done \subseteq GivenUp'
      BY <1>6, <2>1 DEF Rounds, WorkerStep, orchestrationVars
    <2>3. CASE CreateFresh(w) /\ Goto(w, "run")
      <3>1. act'[w].step = "run"
        BY <2>3, GotoMoved DEF Moved
      <3>2. QED
        BY <1>0, <2>1, <2>2, <2>3, <3>1, CreateFreshRenews
    <2>4. CASE SameCopies
      BY <2>4
    <2>5. QED
      BY <1>6, <2>3, <2>4 DEF ReplayFresh
  <1>7. CASE TurnCompletes(w)
    BY <1>7, HandoffNames DEF TurnCompletes, Keep, Carries, Elsewhere, Has
  <1>8. CASE LiveSessionLost(w)
    <2>1. CASE SameCopies
      BY <2>1
    <2>2. CASE /\ \E onDisk \in {dir[w], {}} : Keep(w, {}, onDisk)
               /\ UNCHANGED <<archive, saved, stale>>
      BY <2>2, LosesCarries
    <2>3. QED
      BY <1>8, <2>1, <2>2 DEF LiveSessionLost
  <1>9. CASE TranscriptCorrupt(w)
    <2>1. act[w].step = "run" /\ act'[w].step = "record" /\ Trouble
      BY <1>9 DEF TranscriptCorrupt, HandoffTypeOK, Activity
    <2>2. CASE Purge(w)
      BY <1>0, <2>1, <2>2, PurgeDiscards
    <2>3. CASE Keep(w, {}, dir[w]) /\ UNCHANGED <<archive, saved, stale>>
      BY <2>3, LosesCarries
    <2>4. QED
      BY <1>9, <2>2, <2>3 DEF TranscriptCorrupt
  <1>10. CASE Persist(w)
    <2>1. CASE dir[w] # {} /\ Put(w, dir[w])
      BY <1>10, <2>1, PutArchives DEF Persist
    <2>2. CASE UNCHANGED <<archive, saved, stale>>
      BY <1>10, <2>2, HandoffNames DEF Persist, Carries, Elsewhere, Has
    <2>3. QED
      BY <1>10, <2>1, <2>2 DEF Persist
  <1>11. CASE MissingState(w)
    <2>1. CASE archive # {} /\ Keep(w, {}, archive) /\ Installed(w) /\ UNCHANGED <<archive, saved>>
               /\ act[w].step = "get" /\ warm[w] = {}
      BY <2>1, HandoffNames DEF Keep, Installed, Mark, Restores, Elsewhere
    <2>2. QED
      BY <1>11, <2>1 DEF MissingState, NothingToResume
  <1>12. CASE Rebound(w)
    <2>1. CASE \E outcome \in {"done", "unusable", "failed"} : Destroyed(w, outcome)
      BY <2>1, DestroyedCarries
    <2>2. CASE Purge(w) /\ Goto(w, "switch") /\ switched' = done
      <3>1. act[w].step = "get" /\ act'[w].step = "switch" /\ Trouble
        BY <1>12, <2>2, GotoMoved DEF Rebound, Moved
      <3>2. QED
        BY <1>0, <2>2, <3>1, PurgeDiscards
    <2>3. QED
      BY <1>12, <2>1, <2>2 DEF Rebound
  <1>13. QED
    BY <1>1, <1>2, <1>3, <1>4, <1>5, <1>6, <1>7, <1>8, <1>9, <1>10, <1>11, <1>12 DEF WorkerStep

LEMMA QuietSpares ==
    ASSUME HandoffTypeOK, Rounds, NEW w \in Worker, WorkerStep(w), UNCHANGED troubles
    PROVE  Spares(w)
  <1>1. ~Trouble
    BY Bounds DEF Trouble, HandoffTypeOK
  <1>2. QED
    BY <1>1, ActivityDisturbs

LEMMA ShutdownDisturbs ==
    ASSUME HandoffTypeOK, SnapshotRead, NEW w \in Worker, ClosingStep(w) PROVE Spares(w)
  <1> USE CopiesTyped, NothingCarried DEF Disturbs, Spares
  <1>1. CASE ClosingBegins(w)
    BY <1>1 DEF ClosingBegins
  <1>2. CASE ClosingCheckpoints(w)
    BY <1>2, UploadArchives DEF ClosingCheckpoints, SnapshotRead
  <1>3. CASE ClosingDestroys(w)
    BY <1>3, DestroyedCarries DEF ClosingDestroys
  <1>4. CASE ClosingReads(w)
    BY <1>4, HandoffNames DEF ClosingReads, Carries, Elsewhere, Has
  <1>5. CASE ClosingStores(w)
    <2>1. CASE Upload(w)
      BY <1>5, <2>1, UploadArchives DEF ClosingStores, SnapshotRead
    <2>2. CASE UNCHANGED <<dir, archive, saved, stale>>
      BY <1>5, <2>2 DEF ClosingStores, SameCopies, copyVars
    <2>3. QED
      BY <1>5, <2>1, <2>2 DEF ClosingStores
  <1>6. CASE Stops(w)
    BY <1>6, LosesCarries DEF Stops, LeaveWorker
  <1>7. QED
    BY <1>1, <1>2, <1>3, <1>4, <1>5, <1>6 DEF ClosingStep

LEMMA RuntimeDisturbs ==
    ASSUME HandoffTypeOK, NEW w \in Worker, Ignored(w) \/ Flush(w) \/ Crash(w) \/ Lapse(w)
    PROVE  Carries(w)
  <1>1. CASE Ignored(w)
    BY <1>1, NothingCarried DEF Ignored, SameCopies
  <1>2. CASE Flush(w)
    BY <1>2, HandoffNames, CopiesTyped DEF Flush, Carries, Elsewhere, Has
  <1>3. CASE Crash(w)
    BY <1>3, LosesCarries DEF Crash, LeaveWorker
  <1>4. CASE Lapse(w)
    BY <1>4, NothingCarried DEF Lapse, LeaveWorker, SameCopies, copyVars
  <1>5. QED
    BY <1>1, <1>2, <1>3, <1>4

LEMMA ShutdownRecord ==
    ASSUME HandoffTypeOK, NEW w \in Worker, ClosingStep(w)
    PROVE  \/ ClosingBegins(w) /\ closing'.of = w /\ closing'.step \in {"upload", "destroy"}
              /\ closing'.snapshot = dir[w] /\ (closing'.step = "upload" => dir[w] # {})
              /\ closing'.answered = (IF Behind(w) THEN {} ELSE done \intersect warm[w])
              /\ closing'.destroyed = "none" /\ ~closing'.stored
           \/ /\ closing.of = w /\ closing'.of = w /\ closing'.answered = closing.answered
              /\ \/ /\ ClosingCheckpoints(w) /\ closing.step = "upload" /\ closing'.step = "destroy"
                    /\ closing'.destroyed = closing.destroyed /\ closing'.stored = closing.stored
                 \/ /\ ClosingDestroys(w) /\ closing.step = "destroy" /\ closing'.step = "archive"
                    /\ closing'.stored = closing.stored /\ Destroyed(w, closing'.destroyed)
                 \/ /\ ClosingReads(w) /\ closing.step = "archive"
                    /\ closing'.destroyed = closing.destroyed /\ closing'.stored = closing.stored
                    /\ \/ closing'.step = "persist" /\ closing'.snapshot = dir[w] /\ dir[w] # {}
                          /\ UNCHANGED dir
                       \/ closing'.step = "stop"
                 \/ /\ ClosingStores(w) /\ closing.step = "persist" /\ closing'.step = "stop"
                    /\ closing'.destroyed = closing.destroyed
                    /\ \/ closing'.stored /\ Upload(w)
                       \/ closing'.stored = closing.stored
           \/ Stops(w) /\ closing' = NotClosing
  <1>0. closing \in Closing
    BY DEF HandoffTypeOK
  <1>1. CASE ClosingBegins(w)
    <2>1. PICK step \in {"upload", "destroy"}, prepared \in CountsAsPrepared(w) :
             /\ step = "upload" => dir[w] # {}
             /\ closing' = [NotClosing EXCEPT !.of = w, !.step = step, !.snapshot = dir[w],
                            !.checkpointPrepared = prepared,
                            !.answered = IF Behind(w) THEN {} ELSE done \intersect warm[w]]
      BY <1>1 DEF ClosingBegins
    <2>2. QED
      BY <1>1, <2>1 DEF NotClosing
  <1>2. CASE ClosingCheckpoints(w)
    BY <1>0, <1>2 DEF ClosingCheckpoints, Closing
  <1>3. CASE ClosingDestroys(w)
    BY <1>0, <1>3 DEF ClosingDestroys, Closing
  <1>4. CASE ClosingReads(w)
    BY <1>0, <1>4 DEF ClosingReads, Closing
  <1>5. CASE ClosingStores(w)
    BY <1>0, <1>5 DEF ClosingStores, Closing
  <1>6. CASE Stops(w)
    BY <1>6 DEF Stops
  <1>7. QED
    BY <1>1, <1>2, <1>3, <1>4, <1>5, <1>6 DEF ClosingStep

LEMMA NotClosingStep ==
    NotClosing.of = NoWorker /\ NotClosing.step = "none" /\ ~NotClosing.stored
    /\ NotClosing.answered = {} /\ NotClosing.destroyed = "none"
  BY DEF NotClosing

(* Only the steps of a shutdown and a crash change its record.             *)
LEMMA SameClosing ==
    ASSUME NEW w \in Worker, WorkerStep(w) \/ Ignored(w) \/ Flush(w) \/ Dispatch(w) \/ Crash(w) \/ Lapse(w)
    PROVE  closing' = closing \/ (Crash(w) /\ closing.of = w /\ closing' = NotClosing)
  BY DEF WorkerStep, Ignored, Flush, Dispatch, Crash, Lapse

LEMMA SnapshotReadKept ==
    ASSUME HandoffTypeOK, SnapshotRead, [HandoffNext]_handoffVars PROVE SnapshotRead'
  <1>1. ASSUME NEW w \in Worker, ClosingStep(w) PROVE SnapshotRead'
    BY <1>1, ShutdownRecord, NotClosingStep DEF SnapshotRead
  <1>2. ASSUME NEW w \in Worker,
               WorkerStep(w) \/ Ignored(w) \/ Flush(w) \/ Dispatch(w) \/ Crash(w) \/ Lapse(w)
        PROVE  SnapshotRead'
    BY <1>2, SameClosing, NotClosingStep DEF SnapshotRead
  <1>3. CASE NewPrompt \/ OrchestrationStep
    BY <1>3, OrchestrationOwner DEF SnapshotRead
  <1>4. CASE UNCHANGED handoffVars
    BY <1>4 DEF handoffVars, SnapshotRead
  <1>5. QED
    BY <1>1, <1>2, <1>3, <1>4 DEF HandoffNext

(* The worker the session is on deletes its archive only when no turn has  *)
(* been answered, they have been given up (reported as lost, or left behind*)
(* with the runtime), or the loss is about to be reported.                 *)
THEOREM DeletedKnowingly == HandoffSpec => ArchiveDeletedKnowingly
  <1> DEFINE Knowingly == archive # {} /\ archive' = {} =>
                            \/ done \subseteq GivenUp'
                            \/ \E w \in Worker : act'[w].step = "record" \/ (w # owner /\ act'[w] # act[w])
  <1>1. HandoffTypeOK /\ Rounds /\ SnapshotRead /\ [HandoffNext]_handoffVars => [Knowingly]_handoffVars
    <2> SUFFICES ASSUME HandoffTypeOK, Rounds, SnapshotRead, HandoffNext PROVE Knowingly
      OBVIOUS
    <2>1. ASSUME NEW w \in Worker, Disturbs(w) PROVE Knowingly
      BY <2>1 DEF Disturbs, Spares, Carries, Archives, Restores, Discards, Renews
    <2>2. ASSUME UNCHANGED archive PROVE Knowingly
      BY <2>2
    <2>3. ASSUME NEW w \in Worker, Dispatch(w) PROVE UNCHANGED archive
      BY <2>3 DEF Dispatch
    <2>4. QED
      BY <2>1, <2>2, <2>3, ActivityDisturbs, ShutdownDisturbs, RuntimeDisturbs, OrchestrationOwner
         DEF HandoffNext, Disturbs, Spares
  <1>2. HandoffInit => Rounds /\ SnapshotRead
    BY NoActivityStep, NotClosingStep, HandoffNames DEF HandoffInit, Rounds, SnapshotRead
  <1>3. HandoffTypeOK /\ Rounds /\ SnapshotRead /\ [HandoffNext]_handoffVars => (Rounds /\ SnapshotRead)'
    BY RoundsKept, SnapshotReadKept
  <1> HIDE DEF Knowingly
  <1>4. HandoffSpec => [][Knowingly]_handoffVars
    BY <1>1, <1>2, <1>3, TypeCorrect, PTL DEF HandoffSpec
  <1>5. QED
    BY <1>4 DEF Knowingly, ArchiveDeletedKnowingly

----------------------------------------------------------------------------
(* At most one worker has a copy the session has not gone on without, the  *)
(* one the orchestration waits for when it waits.  On such a worker the    *)
(* memory is ahead of the disk and the disk ahead of the store.            *)
OneCurrent ==
    /\ \A v, w \in Worker : v # w /\ Has(v) /\ Has(w) => v \in stale \/ w \in stale
    /\ \A w \in Worker : owner \notin {w, NoWorker} /\ Has(w) => w \in stale
Ordered ==
    \A w \in Worker \ stale :
       /\ warm[w] # {} => dir[w] \subseteq warm[w]
       /\ Store \notin stale /\ dir[w] # {} => archive \subseteq dir[w]
       /\ Store \notin stale /\ warm[w] # {} => archive \subseteq warm[w]

(* These turns are in every copy the session has not gone on without; they *)
(* are remembered when the store, unless it lags behind, has one.          *)
InCopies(turns) ==
    /\ Store \notin stale /\ archive # {} => turns \subseteq archive
    /\ \A w \in Worker \ stale :
       /\ dir[w] # {} => turns \subseteq dir[w]
       /\ warm[w] # {} => turns \subseteq warm[w]
Remembered(turns) ==
    /\ Store \notin stale => turns \subseteq archive
    /\ InCopies(turns)

LEMMA CurrentKept ==
    ASSUME HandoffTypeOK, OneCurrent, Ordered, NEW w \in Worker, Disturbs(w),
           owner' \in {owner, NoWorker}
    PROVE  OneCurrent' /\ Ordered'
  <1> USE HandoffNames, CopiesTyped
  <1>1. CASE Carries(w)
    <2>1. OneCurrent'
      BY <1>1 DEF OneCurrent, Carries, Elsewhere, Has
    <2>2. Ordered'
      BY <1>1 DEF Ordered, Carries, Elsewhere, Has
    <2>3. QED
      BY <2>1, <2>2
  <1>2. CASE Archives(w)
    <2>1. OneCurrent'
      BY <1>2 DEF OneCurrent, Archives, Elsewhere, Has
    <2>2. Ordered'
      <3> SUFFICES ASSUME NEW v \in Worker, v \notin stale'
                   PROVE  /\ warm'[v] # {} => dir'[v] \subseteq warm'[v]
                          /\ Store \notin stale' /\ dir'[v] # {} => archive' \subseteq dir'[v]
                          /\ Store \notin stale' /\ warm'[v] # {} => archive' \subseteq warm'[v]
        BY DEF Ordered
      <3>1. CASE v = w
        BY <1>2, <3>1 DEF Ordered, Archives
      <3>2. CASE v # w
        <4>1. warm'[v] = warm[v] /\ dir'[v] = dir[v] /\ v \notin stale
          BY <1>2, <3>2 DEF Archives, Elsewhere
        <4>2. Store \notin stale' => ~Has(v)
          BY <1>2, <3>2, <4>1 DEF Archives, Behind, OneCurrent, Has
        <4>3. QED
          BY <4>1, <4>2 DEF Ordered, Has
      <3>3. QED
        BY <3>1, <3>2
    <2>3. QED
      BY <2>1, <2>2
  <1>3. CASE Restores(w)
    <2>1. OneCurrent'
      BY <1>3 DEF OneCurrent, Restores, Elsewhere, Has
    <2>2. Ordered'
      BY <1>3 DEF Ordered, Restores, Elsewhere, Has
    <2>3. QED
      BY <2>1, <2>2
  <1>4. CASE Renews(w)
    <2>1. OneCurrent'
      BY <1>4 DEF OneCurrent, Renews, Elsewhere, Has
    <2>2. Ordered'
      BY <1>4 DEF Ordered, Renews, Elsewhere, Has
    <2>3. QED
      BY <2>1, <2>2
  <1>5. CASE Discards(w)
    <2>1. OneCurrent'
      BY <1>5 DEF OneCurrent, Discards, Elsewhere, Has
    <2>2. Ordered'
      BY <1>5 DEF Ordered, Discards, Elsewhere, Has
    <2>3. QED
      BY <2>1, <2>2
  <1>6. QED
    BY <1>1, <1>2, <1>3, <1>4, <1>5 DEF Disturbs, Spares

(* Answered turns stay in these copies until they are given up, and in the *)
(* store unless the archive is deleted.                                    *)
LEMMA InCopiesKept ==
    ASSUME HandoffTypeOK, OneCurrent, Ordered, NEW w \in Worker, Disturbs(w),
           NEW turns, InCopies(turns), turns \subseteq done \ GivenUp'
    PROVE  InCopies(turns)'
  <1> USE HandoffNames, CopiesTyped
  <1>1. CASE Carries(w)
    BY <1>1 DEF InCopies, Carries, Elsewhere, Has
  <1>2. CASE Archives(w)
    <2>1. Store \notin stale' => turns \subseteq archive'
      BY <1>2 DEF InCopies, Archives, Behind
    <2>2. QED
      BY <1>2, <2>1 DEF InCopies, Archives, Elsewhere
  <1>3. CASE Restores(w)
    BY <1>3 DEF InCopies, Restores, Elsewhere
  <1>4. CASE Renews(w)
    <2>1. CASE owner = w
      BY <1>4, <2>1 DEF InCopies, Renews
    <2>2. CASE owner # w
      BY <1>4, <2>2 DEF InCopies, Renews, Elsewhere
    <2>3. QED
      BY <2>1, <2>2
  <1>5. CASE Discards(w)
    BY <1>5 DEF InCopies, Discards, Elsewhere
  <1>6. QED
    BY <1>1, <1>2, <1>3, <1>4, <1>5 DEF Disturbs, Spares

LEMMA RememberedKept ==
    ASSUME HandoffTypeOK, OneCurrent, Ordered, NEW w \in Worker, Spares(w),
           NEW turns, Remembered(turns), turns \subseteq done \ GivenUp'
    PROVE  Remembered(turns)'
  <1> USE HandoffNames, CopiesTyped
  <1>1. InCopies(turns)'
    BY InCopiesKept DEF Remembered, Disturbs
  <1>2. CASE Carries(w) \/ Restores(w)
    BY <1>1, <1>2 DEF Remembered, Carries, Restores
  <1>3. CASE Archives(w)
    BY <1>1, <1>3 DEF Remembered, InCopies, Archives
  <1>4. CASE Renews(w)
    <2>1. CASE owner = w
      BY <1>1, <1>4, <2>1 DEF Remembered, Renews
    <2>2. CASE owner # w
      BY <1>1, <1>4, <2>2 DEF Remembered, Renews
    <2>3. QED
      BY <2>1, <2>2
  <1>5. QED
    BY <1>2, <1>3, <1>4 DEF Spares

(* What is archived of the current worker's disk is in all of them.        *)
LEMMA ArchivedRemembered ==
    ASSUME HandoffTypeOK, OneCurrent, Ordered, NEW w \in Worker, Archives(w), Store \notin stale',
           NEW turns, turns \subseteq dir[w]
    PROVE  Remembered(turns)'
  <1>1. ~Behind(w) /\ archive' = dir[w] /\ Has(w)
    BY DEF Archives, Has
  <1>2. ASSUME NEW v \in Worker, v \notin stale', v # w PROVE dir'[v] = {} /\ warm'[v] = {}
    BY <1>1, <1>2, HandoffNames DEF Archives, Elsewhere, OneCurrent, Has, Behind
  <1>3. dir'[w] # {} => dir[w] \subseteq dir'[w]
    BY DEF Archives
  <1>4. warm'[w] # {} => dir[w] \subseteq warm'[w]
    BY <1>1, HandoffNames DEF Archives, Ordered, Behind
  <1>5. QED
    BY <1>1, <1>2, <1>3, <1>4 DEF Remembered, InCopies

SavedKept == saved \subseteq done /\ InCopies(saved \ GivenUp)
CopyInv == Rounds /\ SnapshotRead /\ OneCurrent /\ Ordered /\ SavedKept

LEMMA SavedStillKept ==
    ASSUME HandoffTypeOK, OneCurrent, Ordered, SavedKept, NEW w \in Worker, Disturbs(w),
           done' = done, GivesUp
    PROVE  SavedKept'
  <1>1. ASSUME NEW turns, turns \subseteq saved \ GivenUp' PROVE InCopies(turns)'
    <2>1. turns \subseteq saved \ GivenUp /\ turns \subseteq done \ GivenUp'
      BY <1>1 DEF SavedKept, GivesUp
    <2>2. InCopies(turns)
      BY <2>1 DEF SavedKept, InCopies
    <2>3. QED
      BY <2>1, <2>2, InCopiesKept
  <1>2. CASE saved' = saved
    BY <1>1, <1>2 DEF SavedKept, InCopies
  <1>3. CASE Archives(w) /\ Store \notin stale' /\ saved' = saved \union (dir[w] \intersect done)
    <2>1. ASSUME NEW turns, turns \subseteq saved' \ GivenUp' PROVE InCopies(turns)'
      <3>1. PICK mine : mine = turns \intersect dir[w]
        OBVIOUS
      <3>2. PICK older : older = turns \intersect saved
        OBVIOUS
      <3>3. InCopies(mine)'
        BY <1>3, <3>1, ArchivedRemembered DEF Remembered
      <3>4. InCopies(older)'
        BY <1>1, <2>1, <3>2
      <3>5. turns \subseteq mine \union older
        BY <1>3, <2>1, <3>1, <3>2
      <3>6. QED
        BY <3>3, <3>4, <3>5 DEF InCopies
    <2>2. saved' \subseteq done'
      BY <1>3 DEF SavedKept
    <2>3. QED
      BY <2>1, <2>2 DEF SavedKept, InCopies
  <1>4. QED
    BY <1>2, <1>3 DEF Disturbs, Spares, Carries, Archives, Restores, Discards, Renews

LEMMA SameOwner ==
    ASSUME NEW w \in Worker, WorkerStep(w) \/ Ignored(w) \/ Flush(w) \/ Crash(w) \/ Lapse(w) \/ ClosingStep(w)
    PROVE  owner' \in {owner, NoWorker} /\ GivesUp
  <1>1. owner' \in {owner, NoWorker}
    BY DEF WorkerStep, Ignored, Flush, Crash, Lapse, ClosingStep, ClosingBegins,
           ClosingCheckpoints, ClosingDestroys, ClosingReads, ClosingStores, Stops, ClosingOnly,
           orchestrationVars, LeaveWorker
  <1>2. CASE WorkerStep(w)
    BY <1>1, <1>2, GivenUpGrows
  <1>3. CASE Ignored(w) \/ Flush(w) \/ Crash(w) \/ Lapse(w) \/ ClosingStep(w)
    BY <1>1, <1>3
       DEF Ignored, Flush, Crash, Lapse, ClosingStep, ClosingBegins, ClosingCheckpoints,
           ClosingDestroys, ClosingReads, ClosingStores, Stops, ClosingOnly, LeaveWorker, GivesUp
  <1>4. QED
    BY <1>2, <1>3

LEMMA CopyInvKept ==
    ASSUME HandoffTypeOK, CopyInv, [HandoffNext]_handoffVars PROVE CopyInv'
  <1>0. Rounds' /\ SnapshotRead'
    BY RoundsKept, SnapshotReadKept DEF CopyInv
  <1>1. ASSUME NEW w \in Worker,
               WorkerStep(w) \/ Ignored(w) \/ Flush(w) \/ Crash(w) \/ Lapse(w) \/ ClosingStep(w)
        PROVE  CopyInv'
    <2>1. Disturbs(w)
      BY <1>1, ActivityDisturbs, ShutdownDisturbs, RuntimeDisturbs DEF CopyInv, Disturbs, Spares
    <2>2. owner' \in {owner, NoWorker} /\ GivesUp /\ done' = done
      BY <1>1, SameOwner, SameTurns
    <2>3. QED
      BY <1>0, <2>1, <2>2, CurrentKept, SavedStillKept DEF CopyInv
  <1>2. ASSUME NEW w \in Worker, Dispatch(w) PROVE CopyInv'
    <2>1. /\ owner' = w /\ UNCHANGED <<warm, dir, archive, saved, done, ghostVars>>
          /\ stale' = stale \union {v \in Worker \ {w} : Has(v)}
      BY <1>2 DEF Dispatch, Has
    <2>2. OneCurrent' /\ Ordered'
      BY <2>1, HandoffNames DEF CopyInv, OneCurrent, Ordered, Has
    <2>3. SavedKept'
      BY <2>1, HandoffNames DEF CopyInv, SavedKept, InCopies
    <2>4. QED
      BY <1>0, <2>2, <2>3 DEF CopyInv
  <1>3. CASE NewPrompt \/ OrchestrationStep
    <2>1. UNCHANGED <<warm, dir, archive, saved, ghostVars, stale>> /\ owner' \in {owner, NoWorker}
      BY <1>3, OrchestrationOwner
    <2>2. done \subseteq done'
      BY <1>3 DEF NewPrompt, OrchestrationStep, ProbeAnswered, HydrateAnswered, HydrateFailed,
                  TurnAnswered, TurnFailed, AfterTurn, CheckpointAnswered, DehydrateAnswered,
                  DehydrateFailed
    <2>3. OneCurrent' /\ Ordered' /\ SavedKept'
      BY <2>1, <2>2 DEF CopyInv, OneCurrent, Ordered, SavedKept, InCopies, Has
    <2>4. QED
      BY <1>0, <2>3 DEF CopyInv
  <1>4. CASE UNCHANGED handoffVars
    <2>1. OneCurrent' /\ Ordered' /\ SavedKept'
      BY <1>4 DEF handoffVars, orchestrationVars, copyVars, CopyInv, OneCurrent, Ordered, SavedKept,
                  InCopies, Has
    <2>2. QED
      BY <1>0, <2>1 DEF CopyInv
  <1>5. QED
    BY <1>1, <1>2, <1>3, <1>4 DEF HandoffNext

LEMMA CopyInvStarts == HandoffInit => CopyInv
  <1> SUFFICES ASSUME HandoffInit PROVE CopyInv
    OBVIOUS
  <1>1. Rounds /\ SnapshotRead
    BY NoActivityStep, NotClosingStep, HandoffNames DEF HandoffInit, Rounds, SnapshotRead
  <1>2. \A w \in Worker : ~Has(w)
    BY DEF HandoffInit, Has
  <1>3. OneCurrent /\ Ordered /\ SavedKept
    BY <1>2 DEF HandoffInit, OneCurrent, Ordered, SavedKept, InCopies, Has
  <1>4. QED
    BY <1>1, <1>3 DEF CopyInv

LEMMA CopyInvariant == HandoffSpec => []CopyInv
  <1>1. HandoffTypeOK /\ CopyInv /\ [HandoffNext]_handoffVars => CopyInv'
    BY CopyInvKept
  <1>2. QED
    BY <1>1, CopyInvStarts, TypeCorrect, PTL DEF HandoffSpec

(* A later turn runs on a copy with every archived turn, unless they were  *)
(* given up (reported as lost, or left behind with the runtime) or the copy*)
(* is one the session had gone on without.                                 *)
THEOREM SavedTurnsStay == HandoffSpec => []SavedTurnsRemembered
  <1>1. CopyInv => SavedTurnsRemembered
    BY HandoffNames DEF CopyInv, SavedKept, InCopies, SavedTurnsRemembered
  <1>2. QED
    BY <1>1, CopyInvariant, PTL

----------------------------------------------------------------------------
(* Dehydration.  A worker that persists has nothing in memory, one that has*)
(* reported a dehydration nothing at all.  Until then what its directory   *)
(* held at the start is in whatever it still has, and in the archive once  *)
(* the checkpoint of phase 0 has been taken.                               *)
NothingLeft ==
    \A w \in Worker :
       /\ act[w].step = "persist" => warm[w] = {}
       /\ act[w].step = "report" /\ act[w].result = "dehydrated" => ~Has(w)
OwnCopiesHave(w, turns) ==
    w \notin stale => (dir[w] # {} => turns \subseteq dir[w]) /\ (warm[w] # {} => turns \subseteq warm[w])
StoreHas(turns) == Store \notin stale => turns \subseteq archive
BaseKeptBy(w) ==
    /\ act[w].step \in {"destroy", "persist"} =>
         /\ OwnCopiesHave(w, act[w].base)
         /\ act[w].checkpointPrepared => StoreHas(act[w].base)
    /\ act[w].step = "report" /\ act[w].result = "dehydrated" => StoreHas(act[w].base)
BaseKept == \A w \in Worker : owner = w => BaseKeptBy(w)

(* Where the activities of a dehydration and their results come from.      *)
LEMMA StepSources ==
    ASSUME HandoffTypeOK, NEW w \in Worker, WorkerStep(w)
    PROVE  /\ act'[w].step = "destroy" => Prepare(w)
           /\ act'[w].step = "persist" => Destroy(w)
           /\ act'[w].step = "report" =>
                /\ act'[w].result \in {"dehydrated", "lossy"} => Persist(w)
                /\ act'[w].result = "cold" => Probe(w)
  <1> USE NoActivityStep
  <1>0. /\ act \in [Worker -> Activity] /\ act[w] \in Activity
        /\ {"notFound", "restored", "failure", "completed", "missing", "checkpointed"} \subseteq Result
    BY DEF HandoffTypeOK, Result
  <1>1. ASSUME NEW outcome \in Result \ {"dehydrated", "lossy", "cold"}, Reports(w, outcome)
        PROVE  /\ act'[w].step \in {"none", "report"}
               /\ act'[w].step = "report" => act'[w].result \notin {"dehydrated", "lossy", "cold"}
    BY <1>1, ReportsReported DEF Reported
  <1>2. ASSUME NEW outcome, Reports(w, outcome) PROVE act'[w].step \in {"none", "report"}
    BY <1>2, ReportsReported DEF Reported
  <1>3. ASSUME NEW step \in {"run", "fresh", "switch"}, Goto(w, step) PROVE act'[w].step = step
    BY <1>3, GotoMoved DEF Moved
  <1>4. CASE Probe(w)
    <2>1. \E outcome \in {"present", "cold"} : Reports(w, outcome)
      BY <1>4 DEF Probe
    <2>2. QED
      BY <1>4, <2>1, ReportsReported DEF Reported
  <1>5. CASE Hydrate(w) \/ Checkpoint(w)
    BY <1>0, <1>1, <1>5 DEF Hydrate, Checkpoint
  <1>6. CASE Prepare(w)
    <2>1. PICK prepared :
            act' = [act EXCEPT ![w].step = "destroy", ![w].checkpointPrepared = prepared,
                               ![w].base = dir[w]]
      BY <1>6, Zenon DEF Prepare
    <2>2. act'[w].step = "destroy"
      BY <1>0, <2>1 DEF Activity
    <2>3. QED
      BY <1>6, <2>2
  <1>7. CASE Destroy(w)
    <2>1. act'[w].step = "persist"
      BY <1>0, <1>7 DEF Destroy, Activity
    <2>2. QED
      BY <1>7, <2>1
  <1>8. CASE GetOrCreate(w)
    <2>1. CASE Reports(w, IF act[w].recoveries = 0 THEN "failure" ELSE "missing")
      BY <1>0, <1>1, <2>1
    <2>2. QED
      BY <1>3, <1>8, <2>1 DEF GetOrCreate
  <1>9. CASE MissingState(w) \/ ReplayFresh(w)
    BY <1>0, <1>1, <1>3, <1>9 DEF MissingState, ReplayFresh, NothingToResume
  <1>10. CASE TurnCompletes(w) \/ TurnFails(w)
    BY <1>0, <1>1, <1>10 DEF TurnCompletes, TurnFails
  <1>11. CASE LiveSessionLost(w)
    <2>1. ASSUME act' = [act EXCEPT ![w].step = "get", ![w].recoveries = 1] PROVE act'[w].step = "get"
      BY <1>0, <2>1 DEF Activity
    <2>2. QED
      BY <1>0, <1>1, <1>11, <2>1 DEF LiveSessionLost
  <1>12. CASE TranscriptCorrupt(w)
    <2>1. act'[w].step = "record"
      BY <1>0, <1>12 DEF TranscriptCorrupt, Activity
    <2>2. QED
      BY <2>1
  <1>13. CASE Persist(w)
    <2>1. \E outcome \in {"failure", "dehydrated", "lossy"} : Reports(w, outcome)
      BY <1>13 DEF Persist
    <2>2. QED
      BY <1>13, <2>1, ReportsReported DEF Reported
  <1>14. CASE Rebound(w) \/ LossRecorded(w)
    <2>1. CASE act[w].step = "get" /\ UNCHANGED act
      BY <2>1
    <2>2. QED
      BY <1>3, <1>14, <2>1 DEF Rebound, LossRecorded
  <1>15. QED
    BY <1>4, <1>5, <1>6, <1>7, <1>8, <1>9, <1>10, <1>11, <1>12, <1>13, <1>14 DEF WorkerStep

LEMMA BaseStays ==
    ASSUME HandoffTypeOK, OneCurrent, NEW v \in Worker, Disturbs(v), NEW w \in Worker, owner = w,
           act[w].step \notin TurnSteps \union {"hydrate"}, NEW turns, OwnCopiesHave(w, turns)
    PROVE  OwnCopiesHave(w, turns)' /\ (StoreHas(turns) => StoreHas(turns)')
  <1> USE HandoffNames, CopiesTyped
  <1>1. CASE v = w
    <2>1. OwnCopiesHave(w, turns)'
      BY <1>1 DEF Disturbs, Spares, Carries, Archives, Restores, Discards, Renews, OwnCopiesHave, Has
    <2>2. StoreHas(turns) => StoreHas(turns)'
      BY <1>1 DEF Disturbs, Spares, Carries, Archives, Restores, Discards, Renews, StoreHas, OwnCopiesHave, Behind
    <2>3. QED
      BY <2>1, <2>2
  <1>2. CASE v # w
    <2>1. warm'[w] = warm[w] /\ dir'[w] = dir[w] /\ (w \in stale' <=> w \in stale)
      BY <1>2 DEF Disturbs, Spares, Carries, Archives, Restores, Discards, Renews, Elsewhere
    <2>2. StoreHas(turns) => StoreHas(turns)'
      BY <1>2 DEF Disturbs, Spares, Carries, Archives, Restores, Discards, Renews, StoreHas, Behind
    <2>3. QED
      BY <2>1, <2>2 DEF OwnCopiesHave
  <1>3. QED
    BY <1>1, <1>2

(* Once a worker has nothing left, nobody puts an older copy into the      *)
(* store unnoticed.                                                        *)
LEMMA StoreStays ==
    ASSUME HandoffTypeOK, OneCurrent, NEW v \in Worker, Disturbs(v), NEW w \in Worker, owner = w,
           act[w].step \notin TurnSteps \union {"hydrate"}, ~Has(w), NEW turns, StoreHas(turns)
    PROVE  StoreHas(turns)'
  BY BaseStays DEF OwnCopiesHave, Has

LEMMA NothingLeftStays ==
    ASSUME HandoffTypeOK, NothingLeft, NEW v \in Worker, Disturbs(v), NEW w \in Worker,
           act'[w] = act[w]
    PROVE  /\ act'[w].step = "persist" => warm'[w] = {}
           /\ act'[w].step = "report" /\ act'[w].result = "dehydrated" => ~Has(w)'
  <1>1. CASE v = w
    BY <1>1 DEF NothingLeft, Disturbs, Spares, Carries, Archives, Restores, Discards, Renews, Has
  <1>2. CASE v # w
    BY <1>2 DEF NothingLeft, Disturbs, Spares, Carries, Archives, Restores, Discards, Renews, Elsewhere, Has
  <1>3. QED
    BY <1>1, <1>2

LEMMA DestroyedEmpties ==
    ASSUME HandoffTypeOK, NEW w \in Worker, NEW outcome, Destroyed(w, outcome) PROVE warm'[w] = {}
  BY CopiesTyped DEF Destroyed, Keep

LEMMA PersistedLeavesNothing ==
    ASSUME HandoffTypeOK, NothingLeft, NEW w \in Worker, Persist(w), act'[w].step = "report",
           act'[w].result = "dehydrated"
    PROVE  ~Has(w)'
  <1>1. dir'[w] = {}
    <2>1. ASSUME NEW outcome \in {"failure", "lossy"}, Reports(w, outcome) PROVE FALSE
      BY <2>1, ReportsReported, NoActivityStep DEF Reported
    <2>2. QED
      BY <2>1, CopiesTyped DEF Persist
  <1>2. QED
    BY <1>1 DEF NothingLeft, Persist, Has

LEMMA NothingLeftKept ==
    ASSUME HandoffTypeOK, Rounds, SnapshotRead, NothingLeft, [HandoffNext]_handoffVars PROVE NothingLeft'
  <1>1. ASSUME NEW v \in Worker, WorkerStep(v) PROVE NothingLeft'
    <2> SUFFICES ASSUME NEW w \in Worker
                 PROVE  /\ act'[w].step = "persist" => warm'[w] = {}
                        /\ act'[w].step = "report" /\ act'[w].result = "dehydrated" => ~Has(w)'
      BY DEF NothingLeft, Has
    <2>1. CASE v # w
      BY <1>1, <2>1, StepMoves, ActivityDisturbs, NothingLeftStays DEF ActMoves, OtherActs
    <2>2. CASE v = w
      <3>1. act'[w].step = "persist" => warm'[w] = {}
        BY <1>1, <2>2, StepSources, DestroyedEmpties DEF Destroy
      <3>2. QED
        BY <1>1, <2>2, <3>1, StepSources, PersistedLeavesNothing
    <2>3. QED
      BY <2>1, <2>2
  <1>2. ASSUME NEW v \in Worker, Ignored(v) \/ Flush(v) \/ Crash(v) \/ Lapse(v) \/ ClosingStep(v)
        PROVE  NothingLeft'
    <2> SUFFICES ASSUME NEW w \in Worker
                 PROVE  /\ act'[w].step = "persist" => warm'[w] = {}
                        /\ act'[w].step = "report" /\ act'[w].result = "dehydrated" => ~Has(w)'
      BY DEF NothingLeft, Has
    <2>1. Disturbs(v)
      BY <1>2, RuntimeDisturbs, ShutdownDisturbs DEF Disturbs, Spares
    <2>2. act'[w] = act[w] \/ act'[w] = NoActivity
      BY <1>2 DEF Ignored, Flush, Crash, Lapse, ClosingStep, ClosingBegins, ClosingCheckpoints,
                  ClosingDestroys, ClosingReads, ClosingStores, Stops, ClosingOnly, HandoffTypeOK
    <2>3. QED
      BY <2>1, <2>2, NothingLeftStays, NoActivityStep
  <1>3. ASSUME NEW v \in Worker, Dispatch(v) PROVE NothingLeft'
    BY <1>3, DispatchedAct DEF OtherActs, Dispatch, NothingLeft, Has
  <1>4. CASE NewPrompt \/ OrchestrationStep
    <2>1. \A w \in Worker : act'[w] = act[w] \/ act'[w] = NoActivity
      BY <1>4 DEF NewPrompt, OrchestrationStep, ProbeAnswered, HydrateAnswered, HydrateFailed,
                  TurnAnswered, TurnFailed, AfterTurn, CheckpointAnswered, DehydrateAnswered,
                  DehydrateFailed, Answer, HandoffTypeOK
    <2>2. QED
      BY <1>4, <2>1, OrchestrationOwner, NoActivityStep DEF NothingLeft, Has
  <1>5. CASE UNCHANGED handoffVars
    BY <1>5 DEF handoffVars, copyVars, NothingLeft, Has
  <1>6. QED
    BY <1>1, <1>2, <1>3, <1>4, <1>5 DEF HandoffNext

LEMMA BaseKeptStays ==
    ASSUME HandoffTypeOK, OneCurrent, NothingLeft, BaseKept, NEW v \in Worker, Disturbs(v),
           NEW w \in Worker, owner = w, act'[w] = act[w]
    PROVE  BaseKeptBy(w)'
  <1>1. PICK turns : turns = act[w].base
    OBVIOUS
  <1>2. act'[w].base = turns
    BY <1>1
  <1>3. ASSUME act[w].step \in {"destroy", "persist"}
        PROVE  /\ OwnCopiesHave(w, turns)'
               /\ act[w].checkpointPrepared => StoreHas(turns)'
    BY <1>1, <1>3, BaseStays DEF BaseKept, BaseKeptBy
  <1>4. ASSUME act[w].step = "report", act[w].result = "dehydrated" PROVE StoreHas(turns)'
    BY <1>1, <1>4, StoreStays DEF BaseKept, BaseKeptBy, NothingLeft
  <1>5. QED
    BY <1>2, <1>3, <1>4 DEF BaseKeptBy, OwnCopiesHave, StoreHas

LEMMA PrepareKeepsBase ==
    ASSUME HandoffTypeOK, Ordered, ~SkipsUnready, NEW w \in Worker, owner = w, Prepare(w)
    PROVE  BaseKeptBy(w)'
  <1>0. act \in [Worker -> Activity] /\ act[w] \in Activity
    BY DEF HandoffTypeOK
  <1>1. PICK prepared \in BOOLEAN :
           /\ act' = [act EXCEPT ![w] = [act[w] EXCEPT !.step = "destroy",
                                            !.checkpointPrepared = prepared, !.base = dir[w]]]
           /\ \/ dir[w] # {} /\ Put(w, dir[w]) /\ UNCHANGED <<warm, dir>>
              \/ ~prepared /\ SameCopies
    BY <1>0, StoreKind DEF Prepare, CountsAsPrepared
  <1>2. act'[w].step = "destroy" /\ act'[w].checkpointPrepared = prepared /\ act'[w].base = dir[w]
    BY <1>0, <1>1 DEF Activity
  <1>3. UNCHANGED <<warm, dir>> /\ (w \in stale' <=> w \in stale)
    BY <1>1, HandoffNames DEF SameCopies, copyVars, Put, Mark
  <1>4. OwnCopiesHave(w, act[w].base)'
    BY <1>2, <1>3 DEF OwnCopiesHave, Ordered
  <1>5. prepared => archive' = dir[w]
    BY <1>1 DEF Put
  <1>6. QED
    BY <1>2, <1>4, <1>5 DEF BaseKeptBy, StoreHas

LEMMA DestroyKeepsBase ==
    ASSUME HandoffTypeOK, OneCurrent, BaseKept, NEW w \in Worker, owner = w, Destroy(w)
    PROVE  BaseKeptBy(w)'
  <1>0. act \in [Worker -> Activity] /\ act[w] \in Activity
    BY DEF HandoffTypeOK
  <1>1. act[w].step = "destroy" /\ Disturbs(w)
    BY DestroyedCarries DEF Destroy, Disturbs, Spares
  <1>2. PICK turns : turns = act[w].base
    OBVIOUS
  <1>3. /\ act'[w].step = "persist" /\ act'[w].checkpointPrepared = act[w].checkpointPrepared
        /\ act'[w].base = turns
    BY <1>0, <1>2 DEF Destroy, Activity
  <1>4. OwnCopiesHave(w, turns)' /\ (act[w].checkpointPrepared => StoreHas(turns)')
    BY <1>1, <1>2, BaseStays DEF BaseKept, BaseKeptBy
  <1>5. QED
    BY <1>3, <1>4 DEF BaseKeptBy, OwnCopiesHave, StoreHas

LEMMA PersistKeepsBase ==
    ASSUME HandoffTypeOK, OneCurrent, BaseKept, NEW w \in Worker, owner = w, Persist(w)
    PROVE  BaseKeptBy(w)'
  <1>1. act'[w].step = "report" /\ act'[w].base = act[w].base
    <2>1. \E outcome \in {"failure", "dehydrated", "lossy"} : Reports(w, outcome)
      BY DEF Persist
    <2>2. QED
      BY <2>1, ReportsReported DEF Reported
  <1>2. act[w].step = "persist"
    BY DEF Persist
  <1>3. CASE dir[w] # {} /\ Put(w, dir[w])
    BY <1>1, <1>2, <1>3, HandoffNames
       DEF BaseKept, BaseKeptBy, OwnCopiesHave, StoreHas, Put, Mark, Behind
  <1>4. CASE act[w].checkpointPrepared /\ UNCHANGED <<archive, stale>>
    BY <1>1, <1>2, <1>4 DEF BaseKept, BaseKeptBy, StoreHas
  <1>5. CASE Reports(w, "lossy") \/ Reports(w, "failure")
    BY <1>1, <1>5, ReportsReported DEF Reported, BaseKeptBy
  <1>6. QED
    BY <1>3, <1>4, <1>5 DEF Persist

LEMMA BaseKeptKept ==
    ASSUME HandoffTypeOK, CopyInv, NothingLeft, BaseKept, ~SkipsUnready, [HandoffNext]_handoffVars
    PROVE  BaseKept'
  <1>1. ASSUME NEW v \in Worker, WorkerStep(v) PROVE BaseKept'
    <2>1. owner' = owner /\ Disturbs(v)
      BY <1>1, ActivityDisturbs DEF WorkerStep, orchestrationVars, CopyInv
    <2> SUFFICES ASSUME NEW w \in Worker, owner = w PROVE BaseKeptBy(w)'
      BY <2>1 DEF BaseKept
    <2>2. CASE act'[w] = act[w]
      BY <2>1, <2>2, BaseKeptStays DEF CopyInv
    <2>3. CASE v = w
      <3>1. CASE Prepare(w) \/ Destroy(w) \/ Persist(w)
        BY <3>1, PrepareKeepsBase, DestroyKeepsBase, PersistKeepsBase DEF CopyInv
      <3>2. CASE ~(Prepare(w) \/ Destroy(w) \/ Persist(w))
        BY <1>1, <2>3, <3>2, StepSources DEF BaseKeptBy
      <3>3. QED
        BY <3>1, <3>2
    <2>4. QED
      BY <1>1, <2>2, <2>3, StepMoves DEF ActMoves, OtherActs
  <1>2. ASSUME NEW v \in Worker, Ignored(v) \/ Flush(v) \/ Crash(v) \/ Lapse(v) \/ ClosingStep(v)
        PROVE  BaseKept'
    <2>1. Disturbs(v) /\ owner' \in {owner, NoWorker}
      BY <1>2, RuntimeDisturbs, ShutdownDisturbs, SameOwner DEF Disturbs, Spares, CopyInv
    <2> SUFFICES ASSUME NEW w \in Worker, owner = w PROVE BaseKeptBy(w)'
      BY <2>1, HandoffNames DEF BaseKept
    <2>2. act'[w] = act[w] \/ act'[w] = NoActivity
      BY <1>2 DEF Ignored, Flush, Crash, Lapse, ClosingStep, ClosingBegins, ClosingCheckpoints,
                  ClosingDestroys, ClosingReads, ClosingStores, Stops, ClosingOnly, HandoffTypeOK
    <2>3. QED
      BY <2>1, <2>2, BaseKeptStays, NoActivityStep DEF BaseKeptBy, CopyInv
  <1>3. ASSUME NEW v \in Worker, Dispatch(v) PROVE BaseKept'
    BY <1>3, DispatchedAct DEF Dispatch, BaseKept, BaseKeptBy
  <1>4. CASE NewPrompt \/ OrchestrationStep
    BY <1>4, OrchestrationOwner, HandoffNames DEF BaseKept, BaseKeptBy, OwnCopiesHave, StoreHas
  <1>5. CASE UNCHANGED handoffVars
    BY <1>5 DEF handoffVars, orchestrationVars, copyVars, BaseKept, BaseKeptBy, OwnCopiesHave, StoreHas
  <1>6. QED
    BY <1>1, <1>2, <1>3, <1>4, <1>5 DEF HandoffNext

(* With a store that refuses a directory that is not ready, a dehydration  *)
(* that reports success has put everything the worker had on disk into the *)
(* archive; the blob store skips such a checkpoint and the run             *)
(* checkpoint_skipped shows what is lost.                                  *)
THEOREM DehydrationKeeps ==
    ASSUME ~SkipsUnready PROVE HandoffSpec => []DehydrateKeepsDisk
  <1>1. HandoffInit => NothingLeft /\ BaseKept
    BY NoActivityStep, HandoffNames DEF HandoffInit, NothingLeft, BaseKept
  <1>2. HandoffTypeOK /\ CopyInv /\ NothingLeft /\ BaseKept /\ [HandoffNext]_handoffVars
          => (NothingLeft /\ BaseKept)'
    BY NothingLeftKept, BaseKeptKept DEF CopyInv
  <1>3. BaseKept => DehydrateKeepsDisk
    BY DEF BaseKept, BaseKeptBy, StoreHas, DehydrateKeepsDisk
  <1>4. QED
    BY <1>1, <1>2, <1>3, TypeCorrect, CopyInvariant, PTL DEF HandoffSpec

----------------------------------------------------------------------------
(* Graceful shutdown.  It uses up the budget of faults, so until it is over*)
(* the worker the orchestration waits for is the only one with an activity.*)
UsesUp ==
    /\ closing.of # NoWorker => troubles = MaxTroubles /\ troubles # 0
    /\ closing.of = NoWorker => closing = NotClosing
Calm == troubles = 0 \/ closing.of # NoWorker
NoneLapsed == Calm => \A w \in Worker : act[w] # NoActivity => owner = w

(* What the orchestration waits for fits its phase and its affinity key.   *)
PhaseOwner ==
    /\ phase \in {"idle", "answered", "failed"} => owner = NoWorker
    /\ owner # NoWorker => bound = owner
    /\ phase \in {"probe", "turn", "answered", "checkpoint", "dehydrate"} => ~needsHydration
    /\ \A w \in Worker : owner = w =>
         /\ act[w].step = "hydrate" => phase = "hydrate"
         /\ act[w].step \in TurnSteps => phase = "turn"

(* A worker without any copy reports a session as cold, one that records a *)
(* lossy hand-off has none in memory.                                      *)
ReportsTrue ==
    \A w \in Worker : act[w].step = "report" =>
      /\ act[w].result = "cold" => ~Has(w)
      /\ act[w].result = "lossy" => warm[w] = {} /\ (owner = w => done \subseteq GivenUp)

LEMMA TroublesMove ==
    ASSUME NEW w \in Worker, WorkerStep(w) PROVE UNCHANGED troubles \/ Trouble
  BY DEF WorkerStep, Probe, StoredExists, Hydrate, Checkpoint, Prepare, NotReady, Destroy, GetOrCreate,
         Rebound, CreateFresh, MissingState, NothingToResume, ReplayFresh, TurnCompletes, TurnFails,
         Disturbed, LiveSessionLost, TranscriptCorrupt, LossRecorded, Persist

LEMMA UsesUpKept ==
    ASSUME HandoffTypeOK, UsesUp, [HandoffNext]_handoffVars PROVE UsesUp'
  <1> USE HandoffNames, Bounds
  <1>1. ASSUME NEW w \in Worker, ClosingStep(w) PROVE UsesUp'
    <2>1. CASE ClosingBegins(w)
      <3>1. troubles' = MaxTroubles /\ MaxTroubles # 0 /\ closing = NotClosing
        BY <2>1 DEF ClosingBegins
      <3>2. closing'.of = w
        BY <1>1, <3>1, ShutdownRecord, NotClosingStep DEF Stops
      <3>3. QED
        BY <3>1, <3>2 DEF UsesUp
    <2>2. CASE Stops(w)
      BY <2>2 DEF Stops, UsesUp, NotClosing
    <2>3. CASE ~ClosingBegins(w) /\ ~Stops(w)
      <3>1. closing.of = w /\ closing'.of = w
        BY <1>1, <2>3, ShutdownRecord
      <3>2. UNCHANGED troubles
        BY <1>1, <2>3 DEF ClosingStep, ClosingCheckpoints, ClosingDestroys, ClosingReads, ClosingStores
      <3>3. QED
        BY <3>1, <3>2 DEF UsesUp
    <2>4. QED
      BY <2>1, <2>2, <2>3
  <1>2. ASSUME NEW w \in Worker,
               WorkerStep(w) \/ Ignored(w) \/ Flush(w) \/ Dispatch(w) \/ Crash(w) \/ Lapse(w)
        PROVE  UsesUp'
    <2>1. UNCHANGED troubles \/ Trouble
      BY <1>2, TroublesMove DEF Ignored, Flush, Dispatch, Crash, Lapse
    <2>2. closing.of # NoWorker => UNCHANGED troubles
      BY <2>1 DEF UsesUp, Trouble
    <2>3. QED
      BY <1>2, <2>2, SameClosing, NotClosingStep DEF UsesUp
  <1>3. CASE NewPrompt \/ OrchestrationStep
    BY <1>3, OrchestrationOwner DEF UsesUp
  <1>4. CASE UNCHANGED handoffVars
    BY <1>4 DEF handoffVars, UsesUp
  <1>5. QED
    BY <1>1, <1>2, <1>3, <1>4 DEF HandoffNext

LEMMA CalmBefore ==
    ASSUME HandoffTypeOK, UsesUp, HandoffNext, Calm'
    PROVE  /\ Calm
           /\ \A w \in Worker : ~Crash(w) /\ ~Lapse(w) /\ ~Stops(w) /\ (WorkerStep(w) => UNCHANGED troubles)
  <1> USE HandoffNames, Bounds
  <1>0. troubles \in Nat /\ MaxTroubles \in Nat
    BY DEF HandoffTypeOK
  <1>1. ASSUME Trouble, closing' = closing \/ closing' = NotClosing PROVE FALSE
    BY <1>0, <1>1, NotClosingStep DEF Trouble, UsesUp, Calm
  <1>2. \A w \in Worker : ~Crash(w) /\ ~Lapse(w)
    BY <1>1 DEF Crash, Lapse
  <1>3. \A w \in Worker : WorkerStep(w) => UNCHANGED troubles
    BY <1>1, TroublesMove DEF WorkerStep
  <1>4. \A w \in Worker : ~Stops(w)
    BY <1>0, NotClosingStep DEF Stops, UsesUp, Calm
  <1>5. Calm
    <2>1. ASSUME NEW w \in Worker, ClosingStep(w) PROVE Calm
      BY <1>4, <2>1, ShutdownRecord DEF ClosingBegins, Calm
    <2>2. ASSUME NEW w \in Worker,
                 WorkerStep(w) \/ Ignored(w) \/ Flush(w) \/ Dispatch(w) \/ Crash(w) \/ Lapse(w)
          PROVE  Calm
      <3>1. UNCHANGED troubles /\ UNCHANGED closing
        BY <1>2, <1>3, <2>2, SameClosing DEF Ignored, Flush, Dispatch
      <3>2. QED
        BY <3>1 DEF Calm
    <2>3. CASE NewPrompt \/ OrchestrationStep
      BY <2>3, OrchestrationOwner DEF Calm
    <2>4. QED
      BY <2>1, <2>2, <2>3 DEF HandoffNext
  <1>6. QED
    BY <1>2, <1>3, <1>4, <1>5
LEMMA ActsDropped ==
    ASSUME HandoffTypeOK,
           (\E v \in Worker : Ignored(v) \/ Flush(v) \/ Crash(v) \/ Lapse(v) \/ ClosingStep(v))
             \/ NewPrompt \/ OrchestrationStep
    PROVE  \A w \in Worker : act'[w] = act[w] \/ act'[w] = NoActivity
  BY DEF Ignored, Flush, Crash, Lapse, ClosingStep, ClosingBegins, ClosingCheckpoints, ClosingDestroys,
         ClosingReads, ClosingStores, Stops, ClosingOnly, NewPrompt, OrchestrationStep, ProbeAnswered,
         HydrateAnswered, HydrateFailed, TurnAnswered, TurnFailed, AfterTurn, CheckpointAnswered,
         DehydrateAnswered, DehydrateFailed, Answer, HandoffTypeOK

LEMMA BoundWithOwner ==
    ASSUME PhaseOwner, NEW w \in Worker,
           WorkerStep(w) \/ Ignored(w) \/ Flush(w) \/ Crash(w) \/ Lapse(w) \/ ClosingStep(w)
    PROVE  owner' # NoWorker => owner' = owner /\ bound' = owner
  <1>1. \/ UNCHANGED <<owner, bound>>
        \/ LeaveWorker(w)
    BY DEF WorkerStep, Ignored, Flush, Crash, Lapse, ClosingStep, ClosingBegins, ClosingCheckpoints,
           ClosingDestroys, ClosingReads, ClosingStores, Stops, ClosingOnly, orchestrationVars
  <1>2. QED
    BY <1>1, HandoffNames DEF LeaveWorker, PhaseOwner

LEMMA PhaseOwnerKept ==
    ASSUME HandoffTypeOK, PhaseOwner, [HandoffNext]_handoffVars PROVE PhaseOwner'
  <1> USE HandoffNames
  <1>1. ASSUME NEW w \in Worker,
               WorkerStep(w) \/ Ignored(w) \/ Flush(w) \/ Crash(w) \/ Lapse(w) \/ ClosingStep(w)
        PROVE  PhaseOwner'
    <2>1. UNCHANGED <<phase, needsHydration>> /\ (owner' # NoWorker => owner' = owner /\ bound' = owner)
      BY <1>1, BoundWithOwner, SameTurns
    <2>2. \A v \in Worker :
             /\ act'[v].step = "hydrate" => act[v].step = "hydrate"
             /\ act'[v].step \in TurnSteps => act[v].step \in TurnSteps
      BY <1>1, StepMoves, ActsDropped, NoActivityStep DEF ActMoves, OtherActs
    <2>3. QED
      BY <2>1, <2>2 DEF PhaseOwner
  <1>2. ASSUME NEW w \in Worker, Dispatch(w) PROVE PhaseOwner'
    <2>1. owner' = w /\ bound' = w /\ UNCHANGED <<phase, needsHydration>>
          /\ phase \in {"probe", "hydrate", "turn", "checkpoint", "dehydrate"}
      BY <1>2 DEF Dispatch, FirstStep
    <2>2. QED
      BY <1>2, <2>1, DispatchedAct DEF PhaseOwner
  <1>3. CASE NewPrompt \/ AfterTurn
    <2>1. owner = NoWorker /\ owner' = NoWorker
      BY <1>3 DEF NewPrompt, AfterTurn, PhaseOwner
    <2>2. phase' \in {"probe", "turn", "answered", "checkpoint", "dehydrate"} => ~needsHydration'
      BY <1>3 DEF NewPrompt, AfterTurn, PhaseOwner, EnterHydrate
    <2>3. QED
      BY <2>1, <2>2 DEF PhaseOwner
  <1>4. CASE OrchestrationStep /\ ~AfterTurn
    <2>1. owner' = NoWorker
      BY <1>4 DEF OrchestrationStep, ProbeAnswered, HydrateAnswered, HydrateFailed, TurnAnswered,
                  TurnFailed, CheckpointAnswered, DehydrateAnswered, DehydrateFailed, Answer
    <2>2. phase' \in {"probe", "turn", "answered", "checkpoint", "dehydrate"} => ~needsHydration'
      BY <1>4 DEF OrchestrationStep, ProbeAnswered, HydrateAnswered, HydrateFailed, TurnAnswered,
                  TurnFailed, CheckpointAnswered, DehydrateAnswered, DehydrateFailed, EnterHydrate,
                  PhaseOwner
    <2>3. QED
      BY <2>1, <2>2 DEF PhaseOwner
  <1>5. CASE UNCHANGED handoffVars
    BY <1>5 DEF handoffVars, orchestrationVars, PhaseOwner
  <1>6. QED
    BY <1>1, <1>2, <1>3, <1>4, <1>5 DEF HandoffNext

LEMMA LeftAlone ==
    ASSUME HandoffTypeOK, NEW v \in Worker, Disturbs(v), NEW w \in Worker,
           act[w].step \notin TurnSteps \union {"hydrate"}
    PROVE  /\ ~Has(w) => ~Has(w)'
           /\ warm[w] = {} => warm'[w] = {}
  BY DEF Disturbs, Spares, Carries, Archives, Restores, Discards, Renews, Elsewhere, Has

LEMMA ReportsTrueKept ==
    ASSUME HandoffTypeOK, Rounds, SnapshotRead, NothingLeft, ReportsTrue, [HandoffNext]_handoffVars
    PROVE  ReportsTrue'
  <1> USE HandoffNames
  <1> DEFINE TrueOf(w) == act[w].step = "report" =>
                            /\ act[w].result = "cold" => ~Has(w)
                            /\ act[w].result = "lossy" => warm[w] = {} /\ (owner = w => done \subseteq GivenUp)
  <1>1. ASSUME NEW v \in Worker, Disturbs(v), NEW w \in Worker, act'[w] = act[w],
               owner' \in {owner, NoWorker}, done' = done, GivesUp
        PROVE  TrueOf(w)'
    BY <1>1, LeftAlone DEF ReportsTrue, Has, GivesUp
  <1>2. ASSUME NEW v \in Worker, WorkerStep(v), NEW w \in Worker PROVE TrueOf(w)'
    <2>1. Disturbs(v) /\ owner' \in {owner, NoWorker} /\ done' = done /\ GivesUp
      BY <1>2, ActivityDisturbs, SameOwner, SameTurns
    <2>2. CASE v # w
      BY <1>1, <1>2, <2>1, <2>2, StepMoves DEF ActMoves, OtherActs
    <2>3. CASE v = w
      <3>1. ASSUME act'[w].step = "report", act'[w].result = "cold" PROVE ~Has(w)'
        <4>1. Probe(w)
          BY <1>2, <2>3, <3>1, StepSources
        <4>2. Reports(w, "present") => act'[w].step = "none" \/ act'[w].result = "present"
          BY ReportsReported, NoActivityStep DEF Reported
        <4>3. QED
          BY <3>1, <4>1, <4>2 DEF Probe, SameCopies, copyVars, Has
      <3>2. ASSUME act'[w].step = "report", act'[w].result = "lossy"
            PROVE  warm'[w] = {} /\ done' \subseteq GivenUp'
        <4>1. Persist(w)
          BY <1>2, <2>3, <3>2, StepSources
        <4>2. QED
          BY <2>1, <3>2, <4>1 DEF Persist, NothingLeft
      <3>3. QED
        BY <3>1, <3>2
    <2>4. QED
      BY <2>2, <2>3
  <1>3. ASSUME NEW v \in Worker, Ignored(v) \/ Flush(v) \/ Crash(v) \/ Lapse(v) \/ ClosingStep(v),
               NEW w \in Worker
        PROVE  TrueOf(w)'
    <2>1. Disturbs(v) /\ owner' \in {owner, NoWorker} /\ done' = done /\ GivesUp
      BY <1>3, RuntimeDisturbs, ShutdownDisturbs, SameOwner, SameTurns DEF Disturbs, Spares
    <2>2. QED
      BY <1>1, <1>3, <2>1, ActsDropped, NoActivityStep
  <1>4. ASSUME NEW v \in Worker, Dispatch(v), NEW w \in Worker PROVE TrueOf(w)'
    BY <1>4, DispatchedAct DEF OtherActs, Dispatch, ReportsTrue, Has
  <1>5. ASSUME NewPrompt \/ OrchestrationStep, NEW w \in Worker PROVE TrueOf(w)'
    BY <1>5, ActsDropped, OrchestrationOwner, NoActivityStep DEF ReportsTrue, Has
  <1>6. ASSUME UNCHANGED handoffVars, NEW w \in Worker PROVE TrueOf(w)'
    BY <1>6 DEF handoffVars, copyVars, orchestrationVars, ReportsTrue, Has
  <1>7. QED
    BY <1>2, <1>3, <1>4, <1>5, <1>6 DEF HandoffNext, ReportsTrue, Has

LEMMA NoneLapsedKept ==
    ASSUME HandoffTypeOK, UsesUp, NoneLapsed, [HandoffNext]_handoffVars PROVE NoneLapsed'
  <1> USE HandoffNames
  <1>1. CASE UNCHANGED handoffVars
    BY <1>1 DEF handoffVars, orchestrationVars, NoneLapsed, Calm
  <1> SUFFICES ASSUME HandoffNext, Calm' PROVE \A w \in Worker : act'[w] # NoActivity => owner' = w
    BY <1>1 DEF NoneLapsed
  <1>2. /\ \A w \in Worker : act[w] # NoActivity => owner = w
        /\ \A w \in Worker : ~Crash(w) /\ ~Lapse(w) /\ ~Stops(w)
    BY CalmBefore DEF NoneLapsed
  <1>3. ASSUME NEW v \in Worker, WorkerStep(v) PROVE \A w \in Worker : act'[w] # NoActivity => owner' = w
    <2>1. ActMoves(v) /\ owner' = owner
      BY <1>3, StepMoves DEF WorkerStep, orchestrationVars
    <2>2. act[v] # NoActivity
      BY <1>3, NoActivityStep
         DEF WorkerStep, Probe, Hydrate, Checkpoint, Prepare, Destroy, GetOrCreate, Rebound,
             MissingState, NothingToResume, ReplayFresh, TurnCompletes, TurnFails, LiveSessionLost,
             TranscriptCorrupt, LossRecorded, Persist
    <2>3. QED
      BY <1>2, <2>1, <2>2 DEF ActMoves, OtherActs
  <1>4. ASSUME NEW v \in Worker, Ignored(v) \/ Flush(v) \/ (ClosingStep(v) /\ ~Stops(v))
        PROVE  \A w \in Worker : act'[w] # NoActivity => owner' = w
    <2>1. owner' = owner
      BY <1>4 DEF Ignored, Flush, ClosingStep, ClosingBegins, ClosingCheckpoints, ClosingDestroys,
                  ClosingReads, ClosingStores, ClosingOnly, orchestrationVars
    <2>2. QED
      BY <1>2, <1>4, <2>1, ActsDropped
  <1>5. ASSUME NEW v \in Worker, Dispatch(v) PROVE \A w \in Worker : act'[w] # NoActivity => owner' = w
    BY <1>2, <1>5, DispatchedAct DEF Dispatch, OtherActs
  <1>6. CASE NewPrompt \/ OrchestrationStep
    <2>1. \/ owner' = NoWorker /\ \A w \in Worker : act'[w] = NoActivity \/ (act'[w] = act[w] /\ owner # w)
          \/ UNCHANGED <<owner, act>>
      BY <1>6 DEF NewPrompt, OrchestrationStep, ProbeAnswered, HydrateAnswered, HydrateFailed,
                  TurnAnswered, TurnFailed, AfterTurn, CheckpointAnswered, DehydrateAnswered,
                  DehydrateFailed, Answer, HandoffTypeOK
    <2>2. QED
      BY <1>2, <2>1
  <1>7. QED
    BY <1>2, <1>3, <1>4, <1>5, <1>6 DEF HandoffNext
(* Before anything has gone wrong, a session in memory is where the key is *)
(* bound, and the orchestration knows.                                     *)
OnBound ==
    troubles = 0 =>
      \A w \in Worker \ stale : warm[w] # {} => bound = w /\ ~needsHydration /\ phase # "hydrate"

LEMMA OnBoundKept ==
    ASSUME HandoffTypeOK, Rounds, SnapshotRead, OneCurrent, UsesUp, NoneLapsed, PhaseOwner, ReportsTrue,
           NothingLeft, OnBound, [HandoffNext]_handoffVars
    PROVE  OnBound'
  <1> USE HandoffNames
  <1>1. CASE UNCHANGED handoffVars
    BY <1>1 DEF handoffVars, orchestrationVars, copyVars, OnBound
  <1> SUFFICES ASSUME HandoffNext, troubles' = 0, NEW w \in Worker, w \notin stale', warm'[w] # {}
               PROVE  bound' = w /\ ~needsHydration' /\ phase' # "hydrate"
    BY <1>1 DEF OnBound
  <1>0. troubles = 0
    <2>1. Calm'
      BY DEF Calm
    <2>2. \A v \in Worker : (WorkerStep(v) => UNCHANGED troubles) /\ ~Crash(v) /\ ~Lapse(v) /\ ~Stops(v)
      BY <2>1, CalmBefore
    <2>3. ASSUME NEW v \in Worker, ClosingBegins(v) PROVE FALSE
      BY <2>3, Bounds DEF ClosingBegins
    <2>4. QED
      BY <2>2, <2>3, OrchestrationOwner
         DEF HandoffNext, Ignored, Flush, Dispatch, ClosingStep, ClosingCheckpoints, ClosingDestroys,
             ClosingReads, ClosingStores
  <1>2. \A v \in Worker \ stale : warm[v] # {} => bound = v /\ ~needsHydration /\ phase # "hydrate"
    BY <1>0 DEF OnBound
  <1>3. ASSUME NEW v \in Worker, WorkerStep(v) PROVE bound' = w /\ ~needsHydration' /\ phase' # "hydrate"
    <2>1. UNCHANGED <<bound, needsHydration, phase>> /\ Disturbs(v) /\ owner = v /\ bound = v
      <3>1. act[v] # NoActivity
        BY <1>3, NoActivityStep
           DEF WorkerStep, Probe, Hydrate, Checkpoint, Prepare, Destroy, GetOrCreate, Rebound,
               MissingState, NothingToResume, ReplayFresh, TurnCompletes, TurnFails, LiveSessionLost,
               TranscriptCorrupt, LossRecorded, Persist
      <3>2. QED
        BY <1>0, <1>3, <3>1, ActivityDisturbs DEF WorkerStep, orchestrationVars, NoneLapsed, Calm, PhaseOwner
    <2>2. CASE v # w
      BY <1>2, <2>1, <2>2 DEF Disturbs, Spares, Carries, Archives, Restores, Discards, Renews, Elsewhere
    <2>3. CASE v = w /\ w \notin stale /\ warm[w] # {}
      BY <1>2, <2>1, <2>3
    <2>4. CASE v = w /\ act[w].step \in TurnSteps
      BY <2>1, <2>4 DEF PhaseOwner
    <2>5. CASE v = w /\ act[w].step \notin TurnSteps
      <3>1. warm[w] # {}
        BY <2>1, <2>5 DEF Disturbs, Spares, Carries, Archives, Restores, Discards, Renews
      <3>2. w \in stale => act[w].step = "hydrate"
        BY <2>1, <2>5, <3>1 DEF Disturbs, Spares, Carries, Archives, Restores, Discards, Renews, Has
      <3>3. w \notin stale
        BY <2>1, <2>5, <3>1, <3>2 DEF Disturbs, Spares, Carries, Archives, Restores, Discards, Renews, Has
      <3>4. QED
        BY <2>3, <2>5, <3>1, <3>3
    <2>6. QED
      BY <2>2, <2>4, <2>5
  <1>4. ASSUME NEW v \in Worker, Ignored(v) \/ Flush(v)
        PROVE  bound' = w /\ ~needsHydration' /\ phase' # "hydrate"
    BY <1>2, <1>4 DEF Ignored, Flush, orchestrationVars, copyVars
  <1>5. ASSUME NEW v \in Worker, Dispatch(v) PROVE bound' = w /\ ~needsHydration' /\ phase' # "hydrate"
    BY <1>2, <1>5 DEF Dispatch
  <1>6. CASE NewPrompt \/ OrchestrationStep
    <2>1. bound = w /\ ~needsHydration /\ phase # "hydrate" /\ warm[w] # {}
      BY <1>2, <1>6, OrchestrationOwner
    <2>2. ASSUME NEW result \in {"cold", "dehydrated", "lossy"}, Answer(result) PROVE FALSE
      <3>1. owner = w /\ act[w].step = "report" /\ act[w].result = result
        BY <2>1, <2>2 DEF Answer, PhaseOwner
      <3>2. QED
        BY <2>1, <3>1 DEF ReportsTrue, NothingLeft, Has
    <2>3. QED
      BY <1>6, <2>1, <2>2
         DEF NewPrompt, OrchestrationStep, ProbeAnswered, HydrateAnswered, HydrateFailed, TurnAnswered,
             TurnFailed, AfterTurn, CheckpointAnswered, DehydrateAnswered, DehydrateFailed
  <1>7. ASSUME NEW v \in Worker, ClosingStep(v) PROVE bound' = w /\ ~needsHydration' /\ phase' # "hydrate"
    <2>1. closing.of = NoWorker
      BY <1>0 DEF UsesUp
    <2>2. ClosingBegins(v)
      BY <1>7, <2>1, ShutdownRecord DEF Stops
    <2>3. QED
      BY <2>2, Bounds DEF ClosingBegins
  <1>8. ASSUME NEW v \in Worker, Crash(v) \/ Lapse(v)
        PROVE  bound' = w /\ ~needsHydration' /\ phase' # "hydrate"
    BY <1>0, <1>8 DEF Crash, Lapse, Trouble
  <1>9. QED
    BY <1>3, <1>4, <1>5, <1>6, <1>7, <1>8 DEF HandoffNext
(* What a step of the only activity can do to the copies of its worker,    *)
(* when nothing fails: they keep their turns, or the last one moves to the *)
(* store, or all is lost knowingly.                                        *)
Holds(w) ==
    /\ w \in stale' => w \in stale
    /\ warm[w] # {} => IF warm'[w] # {} THEN warm[w] \subseteq warm'[w] ELSE dir'[w] = warm[w]
    /\ warm[w] = {} => warm'[w] \in {{}, dir[w]}
    /\ dir[w] # {} => dir'[w] # {}
    /\ dir'[w] \in {dir[w], warm[w]}

LEMMA DestroyedHolds ==
    ASSUME HandoffTypeOK, NEW w \in Worker, Destroyed(w, "done") PROVE Holds(w)
  BY CopiesTyped DEF Destroyed, Keep, Holds

LEMMA SameHolds ==
    ASSUME NEW w \in Worker, UNCHANGED <<warm, dir>>, w \in stale' => w \in stale PROVE Holds(w)
  BY DEF Holds

LEMMA QuietStep ==
    ASSUME HandoffTypeOK, Rounds, NothingLeft, NEW w \in Worker, WorkerStep(w), UNCHANGED troubles,
           owner = w, Has(w), act[w].step # "hydrate"
    PROVE  \/ Holds(w)
           \/ dir[w] # {} /\ warm[w] = {} /\ Archives(w) /\ (w \notin stale => Store \notin stale')
           \/ done \subseteq GivenUp'
  <1> USE CopiesTyped, SameHolds, HandoffNames
  <1>0. ~Trouble
    BY Bounds DEF Trouble, HandoffTypeOK
  <1>1. CASE Probe(w) \/ Hydrate(w) \/ MissingState(w) \/ TurnFails(w)
    BY <1>0, <1>1 DEF Probe, Hydrate, MissingState, NothingToResume, TurnFails, SameCopies, copyVars, Has
  <1>2. CASE Checkpoint(w) \/ Prepare(w)
    <2>1. UNCHANGED <<warm, dir>> /\ (w \in stale' => w \in stale)
      BY <1>2 DEF Checkpoint, Prepare, SameCopies, copyVars, Put, Mark
    <2>2. QED
      BY <2>1
  <1>3. CASE Destroy(w)
    BY <1>0, <1>3, DestroyedHolds DEF Destroy
  <1>4. CASE GetOrCreate(w)
    <2>1. CASE act[w].turnIndex = 0 /\ CreateFresh(w)
      BY <1>4, <2>1 DEF GetOrCreate, Rounds
    <2>2. CASE Resume(w)
      BY <2>2 DEF Resume, SameCopies, copyVars, Keep, Holds, Has
    <2>3. CASE SameCopies
      BY <2>3 DEF SameCopies, copyVars
    <2>4. QED
      BY <1>4, <2>1, <2>2, <2>3 DEF GetOrCreate, Has
  <1>5. CASE ReplayFresh(w)
    BY <1>5 DEF ReplayFresh, Rounds
  <1>6. CASE TurnCompletes(w)
    BY <1>6 DEF TurnCompletes, Keep, Holds
  <1>7. CASE LiveSessionLost(w)
    <2>1. warm[w] = {}
      BY <1>0, <1>7 DEF LiveSessionLost, Disturbed
    <2>2. QED
      BY <1>7, <2>1 DEF LiveSessionLost, Keep, Holds, SameCopies, copyVars
  <1>8. CASE TranscriptCorrupt(w)
    BY <1>0, <1>8 DEF TranscriptCorrupt
  <1>9. CASE Persist(w)
    <2>1. warm[w] = {} /\ dir[w] # {}
      BY <1>9 DEF Persist, NothingLeft, Has
    <2>2. ~NotReady(w)
      BY <1>0, <2>1 DEF NotReady
    <2>3. CASE dir[w] # {} /\ Put(w, dir[w])
      <3>1. Archives(w)
        BY <1>9, <2>3, PutArchives DEF Persist
      <3>2. w \notin stale => Store \notin stale'
        BY <2>3 DEF Put, Mark, Behind
      <3>3. QED
        BY <2>1, <3>1, <3>2
    <2>4. CASE UNCHANGED <<dir, archive, saved, stale>>
      BY <1>9, <2>4 DEF Persist
    <2>5. QED
      BY <1>9, <2>2, <2>3, <2>4 DEF Persist
  <1>10. CASE Rebound(w) \/ LossRecorded(w)
    BY <1>0, <1>10 DEF Rebound, LossRecorded
  <1>11. QED
    BY <1>1, <1>2, <1>3, <1>4, <1>5, <1>6, <1>7, <1>8, <1>9, <1>10 DEF WorkerStep

----------------------------------------------------------------------------
(* The answered turns the shutdown owes are in what the worker holds, where*)
(* the session is, or everywhere.                                          *)
Owed == closing.answered \ GivenUp
HeldOn(w, turns) ==
    /\ w \notin stale /\ bound = w /\ Has(w) /\ ~needsHydration /\ phase # "hydrate"
    /\ warm[w] # {} => turns \subseteq warm[w]
    /\ warm[w] = {} \/ closing.destroyed = "done" => dir[w] # {} /\ turns \subseteq dir[w]
OwedHeld == HeldOn(closing.of, Owed) \/ Remembered(Owed)
ShutdownInv ==
    closing.of # NoWorker =>
      /\ closing.answered \subseteq done
      /\ closing.step # "stop" => ~closing.stored
      /\ closing.step \in {"upload", "destroy"} => closing.destroyed = "none"
      /\ closing.destroyed \in {"none", "done"} /\ closing.step # "stop" => OwedHeld
      /\ closing.destroyed = "done" /\ closing.stored => Remembered(Owed)

LEMMA FewerHeld ==
    ASSUME NEW w, NEW turns, NEW fewer \in SUBSET turns
    PROVE  /\ HeldOn(w, turns) => HeldOn(w, fewer)
           /\ Remembered(turns) => Remembered(fewer)
  BY DEF HeldOn, Remembered, InCopies

LEMMA HeldStays ==
    ASSUME HandoffTypeOK, NEW w \in Worker, NEW turns, HeldOn(w, turns), Holds(w),
           UNCHANGED <<bound, needsHydration, phase, closing>>
    PROVE  HeldOn(w, turns)'
  BY DEF HeldOn, Holds, Has

LEMMA HeldElsewhere ==
    ASSUME HandoffTypeOK, NEW v \in Worker, Disturbs(v), NEW w \in Worker \ {v}, NEW turns, HeldOn(w, turns),
           UNCHANGED <<bound, needsHydration, phase, closing>>
    PROVE  HeldOn(w, turns)'
  BY DEF HeldOn, Has, Disturbs, Spares, Carries, Archives, Restores, Discards, Renews, Elsewhere

LEMMA RememberedStays ==
    ASSUME HandoffTypeOK, CopyInv, NEW v \in Worker, Spares(v), closing.answered \subseteq done,
           GivesUp, closing'.answered = closing.answered, Remembered(Owed)
    PROVE  Remembered(Owed)'
  <1>1. PICK turns : turns = closing.answered \ GivenUp'
    OBVIOUS
  <1>2. turns \subseteq Owed /\ turns \subseteq done \ GivenUp'
    BY <1>1 DEF Owed, GivesUp
  <1>3. Remembered(turns)'
    BY <1>2, FewerHeld, RememberedKept DEF CopyInv
  <1>4. QED
    BY <1>1, <1>3 DEF Owed, Remembered, InCopies
LEMMA ActivityOwes ==
    ASSUME HandoffTypeOK, CopyInv, NothingLeft, PhaseOwner, NEW v \in Worker, WorkerStep(v),
           UNCHANGED troubles, owner = v, closing.of \in Worker, closing.answered \subseteq done, OwedHeld
    PROVE  OwedHeld'
  <1>1. /\ closing' = closing /\ UNCHANGED <<bound, needsHydration, phase, done>> /\ Spares(v)
        /\ GivesUp
    BY QuietSpares, GivenUpGrows DEF WorkerStep, orchestrationVars, CopyInv
  <1>2. CASE Remembered(Owed)
    BY <1>1, <1>2, RememberedStays DEF OwedHeld
  <1>3. CASE HeldOn(closing.of, Owed)
    <2>1. PICK w, turns, fewer : w = closing.of /\ turns = Owed /\ fewer = closing.answered \ GivenUp'
      OBVIOUS
    <2>2. w \in Worker /\ HeldOn(w, turns) /\ HeldOn(w, fewer) /\ fewer \subseteq done \ GivenUp'
          /\ fewer \in SUBSET turns
      BY <1>1, <1>3, <2>1, FewerHeld DEF Owed, GivesUp
    <2>3. v = w
      BY <2>2, HandoffNames DEF HeldOn, PhaseOwner
    <2>4. HeldOn(w, fewer)' => OwedHeld'
      BY <1>1, <2>1 DEF OwedHeld, Owed, HeldOn, Has
    <2>5. Remembered(fewer)' => OwedHeld'
      BY <1>1, <2>1 DEF OwedHeld, Owed, Remembered, InCopies
    <2>6. CASE Holds(w)
      BY <1>1, <2>2, <2>4, <2>6, HeldStays
    <2>7. CASE dir[w] # {} /\ warm[w] = {} /\ Archives(w) /\ (w \notin stale => Store \notin stale')
      <3>1. fewer \subseteq dir[w] /\ w \notin stale
        BY <2>2, <2>7 DEF HeldOn
      <3>2. QED
        BY <2>2, <2>5, <2>7, <3>1, ArchivedRemembered DEF CopyInv
    <2>8. CASE done \subseteq GivenUp'
      BY <2>2, <2>5, <2>8 DEF Remembered, InCopies
    <2>9. act[w].step # "hydrate" /\ Has(w)
      BY <2>2, <2>3 DEF HeldOn, PhaseOwner
    <2>10. QED
      BY <2>3, <2>6, <2>7, <2>8, <2>9, QuietStep DEF CopyInv
  <1>4. QED
    BY <1>2, <1>3 DEF OwedHeld

LEMMA OrchestrationOwes ==
    ASSUME HandoffTypeOK, NothingLeft, PhaseOwner, ReportsTrue, NewPrompt \/ OrchestrationStep,
           closing.of \in Worker, closing.answered \subseteq done, OwedHeld
    PROVE  OwedHeld'
  <1> USE HandoffNames
  <1>1. UNCHANGED <<warm, dir, archive, closing, ghostVars, stale>>
    BY OrchestrationOwner
  <1>2. CASE Remembered(Owed)
    BY <1>1, <1>2 DEF OwedHeld, Remembered, InCopies, Owed
  <1>3. CASE HeldOn(closing.of, Owed) /\ Owed # {}
    <2>1. PICK w : w = closing.of
      OBVIOUS
    <2>2. bound = w /\ Has(w) /\ ~needsHydration /\ phase # "hydrate"
      BY <1>3, <2>1 DEF HeldOn
    <2>3. ASSUME NEW result \in {"cold", "dehydrated", "lossy"}, Answer(result) PROVE FALSE
      <3>1. owner = w /\ w \in Worker /\ act[w].step = "report" /\ act[w].result = result
        BY <2>1, <2>2, <2>3 DEF Answer, PhaseOwner
      <3>2. result = "lossy"
        BY <2>2, <2>3, <3>1 DEF ReportsTrue, NothingLeft
      <3>3. QED
        BY <1>3, <3>1, <3>2 DEF ReportsTrue, Owed
    <2>4. bound' = w /\ ~needsHydration' /\ phase' # "hydrate"
      BY <2>2, <2>3
         DEF NewPrompt, OrchestrationStep, ProbeAnswered, HydrateAnswered, HydrateFailed, TurnAnswered,
             TurnFailed, AfterTurn, CheckpointAnswered, DehydrateAnswered, DehydrateFailed
    <2>5. QED
      BY <1>1, <1>3, <2>1, <2>4 DEF OwedHeld, HeldOn, Has, Owed
  <1>4. CASE Owed = {}
    BY <1>1, <1>4 DEF OwedHeld, Owed, Remembered, InCopies
  <1>5. QED
    BY <1>2, <1>3, <1>4 DEF OwedHeld

(* A late upload is one of a copy the session has gone on without.         *)
LEMMA UploadRemembered ==
    ASSUME HandoffTypeOK, OneCurrent, NEW w \in Worker, Upload(w), UNCHANGED warm,
           dir' = dir \/ dir' = [dir EXCEPT ![w] = {}], NEW turns, HeldOn(w, turns),
           closing.destroyed = "done"
    PROVE  Remembered(turns)'
  <1> USE HandoffNames, CopiesTyped
  <1>1. w \notin stale /\ Has(w) /\ turns \subseteq dir[w] /\ (warm[w] # {} => turns \subseteq warm[w])
    BY DEF HeldOn
  <1>2. Store \notin stale' => archive' = dir[w]
    BY DEF Upload, Late, Mark
  <1>3. ASSUME NEW v \in Worker, v \notin stale', v # w PROVE dir'[v] = {} /\ warm'[v] = {}
    BY <1>1, <1>3 DEF Upload, Mark, OneCurrent, Has
  <1>4. dir'[w] \in {dir[w], {}} /\ warm'[w] = warm[w]
    OBVIOUS
  <1>5. QED
    BY <1>1, <1>2, <1>3, <1>4 DEF Remembered, InCopies

LEMMA ShutdownOwes ==
    ASSUME HandoffTypeOK, CopyInv, OnBound, ShutdownInv, NEW w \in Worker, ClosingStep(w), ~Stops(w)
    PROVE  ShutdownInv'
  <1> USE HandoffNames
  <1>1. Spares(w) /\ UNCHANGED <<bound, needsHydration, phase, done, ghostVars>>
    <2>1. Spares(w)
      BY ShutdownDisturbs DEF CopyInv
    <2>2. UNCHANGED <<bound, needsHydration, phase, done, ghostVars>>
      BY DEF ClosingStep, ClosingBegins, ClosingCheckpoints, ClosingDestroys, ClosingReads,
             ClosingStores, ClosingOnly, orchestrationVars
    <2>3. QED
      BY <2>1, <2>2
  <1>2. CASE ClosingBegins(w)
    <2>1. /\ closing'.of = w /\ closing'.destroyed = "none" /\ ~closing'.stored
          /\ closing'.answered = (IF Behind(w) THEN {} ELSE done \intersect warm[w])
      BY <1>2, ShutdownRecord, NotClosingStep DEF ClosingBegins, Stops
    <2>2. UNCHANGED <<warm, dir, archive, stale>> /\ warm[w] # {} /\ troubles = 0
      BY <1>2 DEF ClosingBegins, SameCopies, copyVars
    <2>3. CASE Behind(w)
      BY <1>1, <2>1, <2>3 DEF ShutdownInv, OwedHeld, Owed, Remembered, InCopies
    <2>4. CASE ~Behind(w)
      <3>1. bound = w /\ ~needsHydration /\ phase # "hydrate" /\ w \notin stale
        BY <2>2, <2>4 DEF OnBound, Behind
      <3>2. HeldOn(w, Owed)'
        BY <1>1, <2>1, <2>2, <2>4, <3>1 DEF HeldOn, Owed, Has
      <3>3. QED
        BY <1>1, <2>1, <2>4, <3>2 DEF ShutdownInv, OwedHeld, HeldOn, Has
    <2>5. QED
      BY <2>3, <2>4
  <1>3. CASE ~ClosingBegins(w)
    <2>1. closing.of = w /\ closing'.of = w /\ closing'.answered = closing.answered
          /\ closing.answered \subseteq done /\ closing.step # "stop"
      BY <1>3, ShutdownRecord DEF ShutdownInv
    <2>2. PICK turns : turns = Owed
      OBVIOUS
    <2>3. Owed' = turns
      BY <1>1, <2>1, <2>2 DEF Owed
    <2>4. Remembered(Owed) => Remembered(Owed)'
      BY <1>1, <2>1, RememberedStays DEF ShutdownInv, GivesUp
    <2>5. /\ closing'.step # "stop" => ~closing'.stored
          /\ closing'.step \in {"upload", "destroy"} => closing'.destroyed = "none"
      BY <1>1, <1>3, <2>1, ShutdownRecord DEF ShutdownInv
    <2>6. CASE closing.destroyed \notin {"none", "done"}
      <3>1. closing.step \notin {"upload", "destroy"}
        BY <2>1, <2>6 DEF ShutdownInv
      <3>2. closing'.destroyed = closing.destroyed
        BY <1>3, <3>1, ShutdownRecord
      <3>3. QED
        BY <1>1, <2>1, <2>5, <2>6, <3>2 DEF ShutdownInv
    <2>7. CASE Remembered(Owed)
      BY <1>1, <2>1, <2>4, <2>5, <2>7 DEF ShutdownInv, OwedHeld
    <2>8. CASE HeldOn(w, turns) /\ closing.destroyed \in {"none", "done"}
      <3>0. closing \in Closing
        BY DEF HandoffTypeOK
      <3>1. ~closing.stored
        BY <2>1 DEF ShutdownInv
      <3>2. HeldOn(w, turns)' /\ ~closing'.stored => ShutdownInv'
        BY <1>1, <2>1, <2>3, <2>5 DEF ShutdownInv, OwedHeld, HeldOn, Has
      <3>3. CASE ClosingCheckpoints(w)
        <4>1. closing'.destroyed = closing.destroyed /\ ~closing'.stored
          BY <3>0, <3>1, <3>3 DEF ClosingCheckpoints, Closing
        <4>2. UNCHANGED <<warm, dir>> /\ (w \in stale' => w \in stale)
          BY <3>3 DEF ClosingCheckpoints, Upload, Mark
        <4>3. QED
          BY <1>1, <2>8, <3>2, <4>1, <4>2 DEF HeldOn, Has
      <3>4. CASE ClosingDestroys(w)
        <4>1. PICK outcome \in {"done", "unusable", "failed"} :
                 Destroyed(w, outcome) /\ closing'.destroyed = outcome /\ ~closing'.stored
          BY <3>0, <3>1, <3>4 DEF ClosingDestroys, Closing
        <4>2. CASE outcome = "done"
          <5>1. Holds(w) /\ warm'[w] = {} /\ UNCHANGED stale
            BY <4>1, <4>2, DestroyedHolds, DestroyedEmpties DEF Destroyed
          <5>2. HeldOn(w, turns)'
            BY <1>1, <2>8, <5>1 DEF HeldOn, Holds, Has
          <5>3. QED
            BY <3>2, <4>1, <5>2
        <4>3. CASE outcome # "done"
          BY <1>1, <2>1, <2>5, <4>1, <4>3 DEF ShutdownInv
        <4>4. QED
          BY <4>2, <4>3
      <3>5. CASE ClosingReads(w)
        <4>1. closing'.destroyed = closing.destroyed /\ ~closing'.stored
          BY <3>0, <3>1, <3>5 DEF ClosingReads, Closing
        <4>2. CASE closing'.step = "stop"
          BY <1>1, <2>1, <4>1, <4>2 DEF ShutdownInv
        <4>3. CASE closing'.step # "stop"
          <5>1. UNCHANGED <<warm, dir, stale>>
            BY <3>0, <3>5, <4>3 DEF ClosingReads, Closing
          <5>2. QED
            BY <1>1, <2>8, <3>2, <4>1, <5>1 DEF HeldOn, Has
        <4>4. QED
          BY <4>2, <4>3
      <3>6. CASE ClosingStores(w)
        <4>1. closing'.destroyed = closing.destroyed /\ closing'.step = "stop"
              /\ (closing'.stored => Upload(w))
          BY <3>0, <3>1, <3>6 DEF ClosingStores, Closing
        <4>2. ASSUME closing.destroyed = "done", Upload(w) PROVE Remembered(Owed)'
          <5>1. UNCHANGED warm /\ (dir' = dir \/ dir' = [dir EXCEPT ![w] = {}])
            BY <3>6 DEF ClosingStores
          <5>2. Remembered(turns)'
            BY <2>8, <4>2, <5>1, UploadRemembered DEF CopyInv
          <5>3. QED
            BY <2>3, <5>2 DEF Remembered, InCopies
        <4>3. QED
          BY <1>1, <2>1, <4>1, <4>2 DEF ShutdownInv
      <3>7. QED
        BY <1>3, <3>3, <3>4, <3>5, <3>6 DEF ClosingStep
    <2>9. QED
      BY <2>1, <2>2, <2>6, <2>7, <2>8 DEF ShutdownInv, OwedHeld
  <1>4. QED
    BY <1>2, <1>3

LEMMA ShutdownInvKept ==
    ASSUME HandoffTypeOK, CopyInv, NothingLeft, UsesUp, NoneLapsed, PhaseOwner, ReportsTrue, OnBound,
           ShutdownInv, [HandoffNext]_handoffVars
    PROVE  ShutdownInv'
  <1> USE HandoffNames
  <1>1. CASE UNCHANGED handoffVars
    BY <1>1 DEF handoffVars, orchestrationVars, copyVars, ShutdownInv, OwedHeld, HeldOn, Has, Owed, Remembered, InCopies
  <1> SUFFICES ASSUME HandoffNext, closing'.of # NoWorker PROVE ShutdownInv'
    BY <1>1 DEF ShutdownInv
  <1>2. /\ Calm
        /\ \A w \in Worker : ~Crash(w) /\ ~Lapse(w) /\ ~Stops(w) /\ (WorkerStep(w) => UNCHANGED troubles)
    BY CalmBefore DEF Calm
  <1>3. ASSUME NEW w \in Worker, ClosingStep(w) PROVE ShutdownInv'
    BY <1>2, <1>3, ShutdownOwes
  <1>4. CASE ~ \E w \in Worker : ClosingStep(w)
    <2>1. closing' = closing /\ closing.of \in Worker /\ closing.answered \subseteq done /\ done \subseteq done'
      <3>1. closing' = closing
        BY <1>2, <1>4, SameClosing, OrchestrationOwner DEF HandoffNext
      <3>2. done \subseteq done'
        BY <1>4, SameTurns
           DEF HandoffNext, NewPrompt, OrchestrationStep, ProbeAnswered, HydrateAnswered, HydrateFailed,
               TurnAnswered, TurnFailed, AfterTurn, CheckpointAnswered, DehydrateAnswered, DehydrateFailed
      <3>3. QED
        BY <3>1, <3>2 DEF ShutdownInv, HandoffTypeOK, Closing
    <2>2. (Remembered(Owed) => Remembered(Owed)') /\ (OwedHeld => OwedHeld') => ShutdownInv'
      BY <2>1 DEF ShutdownInv
    <2>3. ASSUME NEW v \in Worker, WorkerStep(v)
          PROVE  (Remembered(Owed) => Remembered(Owed)') /\ (OwedHeld => OwedHeld')
      <3>1. Spares(v) /\ GivesUp
        BY <1>2, <2>3, QuietSpares, GivenUpGrows DEF CopyInv
      <3>2. act[v] # NoActivity
        BY <2>3, NoActivityStep
           DEF WorkerStep, Probe, Hydrate, Checkpoint, Prepare, Destroy, GetOrCreate, Rebound,
               MissingState, NothingToResume, ReplayFresh, TurnCompletes, TurnFails, LiveSessionLost,
               TranscriptCorrupt, LossRecorded, Persist
      <3>3. QED
        BY <1>2, <2>1, <2>3, <3>1, <3>2, RememberedStays, ActivityOwes DEF NoneLapsed
    <2>4. ASSUME NEW v \in Worker, Ignored(v) \/ Flush(v) \/ Dispatch(v)
          PROVE  (Remembered(Owed) => Remembered(Owed)') /\ (OwedHeld => OwedHeld')
      <3>1. PICK w, turns : w = closing.of /\ turns = Owed
        OBVIOUS
      <3>2. Owed' = turns /\ UNCHANGED <<needsHydration, phase, archive>>
        BY <2>1, <2>4, <3>1 DEF Ignored, Flush, Dispatch, Owed, orchestrationVars, copyVars
      <3>3. Remembered(turns) => Remembered(turns)'
        <4>1. UNCHANGED archive /\ stale \subseteq stale' /\ (Store \in stale' => Store \in stale) /\ UNCHANGED warm
          BY <2>4 DEF Ignored, Flush, Dispatch, copyVars
        <4>2. \A u \in Worker : dir'[u] = dir[u] \/ (warm[u] # {} /\ dir'[u] = warm[u])
          BY <2>4, CopiesTyped DEF Ignored, Flush, Dispatch, copyVars
        <4>3. QED
          BY <4>1, <4>2 DEF Remembered, InCopies
      <3>4. HeldOn(w, turns) => HeldOn(w, turns)'
        <4>1. CASE Ignored(v)
          BY <4>1 DEF Ignored, copyVars, orchestrationVars, HeldOn, Has
        <4>2. CASE Flush(v)
          BY <2>1, <3>1, <4>2 DEF Flush, orchestrationVars, HeldOn, Has, HandoffTypeOK
        <4>3. CASE Dispatch(v)
          BY <2>1, <3>1, <4>3 DEF Dispatch, HeldOn, Has
        <4>4. QED
          BY <2>4, <4>1, <4>2, <4>3
      <3>5. QED
        BY <2>1, <3>1, <3>2, <3>3, <3>4 DEF OwedHeld, HeldOn, Has, Remembered, InCopies
    <2>5. CASE NewPrompt \/ OrchestrationStep
      <3>1. Remembered(Owed) => Remembered(Owed)'
        BY <2>5, OrchestrationOwner DEF Remembered, InCopies, Owed
      <3>2. QED
        BY <2>1, <2>2, <2>5, <3>1, OrchestrationOwes
    <2>6. QED
      BY <1>2, <1>4, <2>2, <2>3, <2>4, <2>5 DEF HandoffNext
  <1>5. QED
    BY <1>3, <1>4

(* When a graceful shutdown has destroyed and stored a session, the archive*)
(* has every answered turn the worker had in memory when it began, whatever*)
(* activities it crossed, unless a late upload has put an older copy there *)
(* or the loss was recorded.                                               *)
THEOREM ShutdownKeeps == HandoffSpec => []ShutdownKeepsTurns
  <1> DEFINE Shutdown == /\ NothingLeft /\ UsesUp /\ NoneLapsed /\ PhaseOwner /\ ReportsTrue
                         /\ OnBound /\ ShutdownInv
  <1>1. HandoffInit => Shutdown
    BY NoActivityStep, NotClosingStep, HandoffNames
       DEF HandoffInit, NothingLeft, UsesUp, NoneLapsed, PhaseOwner, ReportsTrue, OnBound, ShutdownInv
  <1>2. HandoffTypeOK /\ CopyInv /\ Shutdown /\ [HandoffNext]_handoffVars => Shutdown'
    BY NothingLeftKept, UsesUpKept, NoneLapsedKept, PhaseOwnerKept, ReportsTrueKept, OnBoundKept,
       ShutdownInvKept DEF CopyInv
  <1>3. Shutdown => ShutdownKeepsTurns
    BY NotClosingStep DEF UsesUp, ShutdownInv, Remembered, InCopies, Owed, ShutdownKeepsTurns
  <1> HIDE DEF Shutdown
  <1>4. QED
    BY <1>1, <1>2, <1>3, TypeCorrect, CopyInvariant, PTL DEF HandoffSpec
=============================================================================
