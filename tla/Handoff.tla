------------------------------- MODULE Handoff -------------------------------
(***************************************************************************)
(* Where the conversation of one durable session lives while it moves      *)
(* between workers: session-manager.ts, the session stores, the activities *)
(* of session-proxy.ts and the part of orchestration.ts that calls them    *)
(* (all under src/packages/sdk/src).                                       *)
(*                                                                         *)
(* A copy of the conversation is the set of the turns it contains; 0 is    *)
(* its creation and {} says that there is no copy.  Each worker may hold   *)
(* one in memory (warm) and one in its session-state directory, the store  *)
(* holds one archive.  The directory is written by the Copilot SDK, which  *)
(* may lag behind the session in memory.                                   *)
(*                                                                         *)
(* The orchestration waits for one activity at a time.  The durable        *)
(* runtime runs it on the worker its affinity key is bound to.  A worker   *)
(* may crash, and a live one may lose its lock: the activity is then given *)
(* to another worker while the first goes on, until its result is ignored. *)
(***************************************************************************)
EXTENDS Naturals, FiniteSets

CONSTANTS
    Worker,
    NoWorker,
    Store,         \* names the session store in `stale`
    MaxTurns,      \* bound: turns of the conversation
    MaxTroubles,   \* bound: crashes of workers, locks lost by live ones, changes of the model,
                   \* and failures of the SDK, of the disk and of the store; a shutdown counts
                   \* for all of them
    MAX_HANDOFF_RETRIES,     \* MAX_RETRIES of orchestration.ts
    MAX_CONNECTION_RETRIES,  \* its COPILOT_CONNECTION_CLOSED_MAX_RETRIES
    SkipsUnready   \* whether the store skips a checkpoint of a directory that is not
                   \* ready (the blob store) or refuses it (the one on the file system)

ASSUME HandoffNames == NoWorker \notin Worker /\ Store \notin Worker
ASSUME StoreKind == SkipsUnready \in BOOLEAN
ASSUME HandoffBounds ==
    /\ {MaxTurns, MaxTroubles, MAX_CONNECTION_RETRIES} \subseteq Nat
    /\ MAX_HANDOFF_RETRIES \in Nat \ {0}

VARIABLES
    phase,       \* what the orchestration is doing
    needsHydration, preserveAffinityOnHydrate,
    iteration,   \* the turnIndex of the next turn
    retryCount, hydrateAttempts,
    bound,       \* the worker the affinity key is bound to
    owner,       \* the worker whose result the orchestration waits for
    plan,        \* how the dehydration in progress goes on
    warm, dir,   \* each worker's SessionManager.sessions and session directory
    archive,     \* the tar archive in the session store
    act,         \* the activity each worker runs
    closing,     \* the graceful shutdown of a worker, one at a time
    done,        \* turns whose result the orchestration has
    saved,       \* those of them the session's worker has archived
    excused,     \* those a lossy hand-off was reported for; the record is best effort,
                 \* recordLossyHandoffEvent goes on without a catalog and when it fails
    switched,    \* those given up unreported, with the runtime they were made in
    stale,       \* places whose copy the session has gone on without
    troubles     \* the counter of its bound

orchestrationVars == <<phase, needsHydration, preserveAffinityOnHydrate, iteration,
                       retryCount, hydrateAttempts, bound, owner, plan, done>>
copyVars == <<warm, dir, archive, saved, stale>>
ghostVars == <<excused, switched>>
handoffVars == <<orchestrationVars, copyVars, act, closing, ghostVars, troubles>>

Turn == 1 .. MaxTurns
Copy == {{}} \union {{0} \union turns : turns \in SUBSET Turn}
Created == {0}
Phase == {"idle", "probe", "hydrate", "turn", "answered", "checkpoint", "dehydrate", "failed"}
Step == {"none", "probe", "hydrate", "get", "switch", "fresh", "run", "record", "checkpoint",
         "prepare", "destroy", "persist", "report"}
Result == {"none", "cold", "present", "restored", "notFound", "failure", "completed",
           "missing", "checkpointed", "dehydrated", "lossy"}

(* The locals of an activity: the turn it runs, how often runTurn has      *)
(* recovered, and checkpointPrepared and lastDestroyError of dehydrate;    *)
(* base only records what the directory held when it started.              *)
Activity == [step : Step, turnIndex : 0 .. MaxTurns, recoveries : 0 .. 2,
             checkpointPrepared : BOOLEAN, destroyFailed : BOOLEAN,
             base : Copy, result : Result]
NoActivity == [step |-> "none", turnIndex |-> 0, recoveries |-> 0,
               checkpointPrepared |-> FALSE, destroyFailed |-> FALSE,
               base |-> {}, result |-> "none"]

(* gracefulShutdown of a worker: what it has read of the directory, the    *)
(* locals of dehydrate, and the answered turns it found in memory.         *)
Closing == [of : Worker \union {NoWorker},
             step : {"none", "upload", "destroy", "archive", "persist", "stop"},
             snapshot : Copy, checkpointPrepared : BOOLEAN,
             destroyed : {"none", "done", "unusable", "failed"},
             stored : BOOLEAN, answered : SUBSET Turn]
NotClosing == [of |-> NoWorker, step |-> "none", snapshot |-> {}, checkpointPrepared |-> FALSE,
               destroyed |-> "none", stored |-> FALSE, answered |-> {}]

NoPlan == [resetAffinity |-> FALSE, retry |-> FALSE]

HandoffInit ==
    /\ phase = "idle" /\ iteration = 0 /\ retryCount = 0 /\ hydrateAttempts = 0
    /\ needsHydration = FALSE /\ preserveAffinityOnHydrate = FALSE
    /\ bound = NoWorker /\ owner = NoWorker
    /\ plan = NoPlan
    /\ warm = [w \in Worker |-> {}] /\ dir = [w \in Worker |-> {}] /\ archive = {}
    /\ act = [w \in Worker |-> NoActivity] /\ closing = NotClosing
    /\ done = {} /\ saved = {} /\ excused = {} /\ switched = {} /\ stale = {}
    /\ troubles = 0

Trouble == troubles < MaxTroubles /\ troubles' = troubles + 1

----------------------------------------------------------------------------
(* The copies.                                                             *)

Keep(w, inMemory, onDisk) ==
    warm' = [warm EXCEPT ![w] = inMemory] /\ dir' = [dir EXCEPT ![w] = onDisk]

(* A copy is stale when the session has gone on without it: of a worker    *)
(* other than the one the orchestration waits for, or made from such one.  *)
Behind(w) == w \in stale \/ owner \notin {w, NoWorker}
Mark(place, isStale) == stale' = IF isStale THEN stale \union {place} ELSE stale \ {place}

Put(w, copy) ==
    /\ archive' = copy /\ Mark(Store, Behind(w))
    /\ saved' = saved \union (IF Behind(w) THEN {} ELSE copy \intersect done)

(* hydrate leaves a session in memory alone, and runTurn prefers that one. *)
Installed(w) == Mark(w, owner # w \/ Store \in stale \/ (w \in stale /\ warm[w] # {}))

SameCopies == UNCHANGED copyVars

Goto(w, step) == act' = [act EXCEPT ![w].step = step]

(* An activity ends.  The result of one whose lock was lost is dropped.    *)
Reports(w, outcome) ==
    act' = [act EXCEPT ![w] = IF owner = w
                              THEN [NoActivity EXCEPT !.step = "report", !.result = outcome,
                                                      !.base = act[w].base]
                              ELSE NoActivity]

(* The two probes of the store.  A failing one reads as "no archive".      *)
StoredExists(answer) ==
    \/ answer = (archive # {}) /\ UNCHANGED troubles
    \/ archive # {} /\ ~answer /\ Trouble

(* The Copilot SDK writes the session's directory when it likes.           *)
Flush(w) ==
    /\ warm[w] # {} /\ dir[w] # {} /\ dir[w] # warm[w]
    /\ dir' = [dir EXCEPT ![w] = warm[w]]
    /\ UNCHANGED <<warm, archive, saved, stale, act, closing, ghostVars, troubles>>
    /\ UNCHANGED orchestrationVars

----------------------------------------------------------------------------
(* The activities, step by step.                                           *)

Probe(w) ==
    /\ act[w].step = "probe"
    /\ \/ (warm[w] # {} \/ dir[w] # {}) /\ Reports(w, "present") /\ UNCHANGED troubles
       \/ warm[w] = {} /\ dir[w] = {}
          /\ \E answer \in BOOLEAN :
                StoredExists(answer) /\ Reports(w, IF answer THEN "cold" ELSE "present")
    /\ SameCopies

Hydrate(w) ==
    /\ act[w].step = "hydrate"
    /\ \/ archive = {} /\ Reports(w, "notFound") /\ SameCopies /\ UNCHANGED troubles
       \/ archive # {} /\ Reports(w, "restored") /\ UNCHANGED troubles
          /\ Keep(w, warm[w], archive) /\ Installed(w) /\ UNCHANGED <<archive, saved>>
       \/ archive # {} /\ Reports(w, "failure") /\ Trouble /\ SameCopies

(* _resetSessionState; its store.delete may fail without notice.           *)
Purge(w) ==
    /\ Keep(w, {}, {}) /\ UNCHANGED saved
    /\ \/ UNCHANGED archive /\ stale' = stale \ {w}
       \/ archive' = {} /\ stale' = IF owner = w THEN stale \ {w, Store} ELSE (stale \ {w}) \union {Store}

(* The same, and a new session after it.                                   *)
Reset(w) ==
    /\ Keep(w, Created, Created) /\ UNCHANGED saved /\ archive' \in {{}, archive}
    /\ stale' = (stale \ {w, Store}) \union (IF owner # w THEN {w, Store} ELSE {})
                   \union (IF archive' # {} THEN {Store} ELSE {})

Resume(w) ==
    IF warm[w] # {} THEN SameCopies ELSE Keep(w, dir[w], dir[w]) /\ UNCHANGED <<archive, saved, stale>>

(* getOrCreate with turnIndex 0 discards what it finds.                    *)
CreateFresh(w) ==
    \/ (warm[w] # {} \/ dir[w] # {} \/ archive # {}) /\ Reset(w) /\ UNCHANGED troubles
    \/ /\ warm[w] = {} /\ dir[w] = {} /\ StoredExists(FALSE)
       /\ Keep(w, Created, Created) /\ UNCHANGED <<archive, saved>>
       /\ stale' = (stale \ {w}) \union (IF owner # w THEN {w} ELSE {})
                      \union (IF archive # {} THEN {Store} ELSE {})

(* Fault: a new session where the archive should be restored.              *)
GetOrCreateUnhydrated(w) ==
    /\ act[w].step = "get" /\ UNCHANGED <<ghostVars, troubles>> /\ Goto(w, "run")
    /\ IF warm[w] = {} /\ dir[w] = {} THEN Keep(w, Created, Created) /\ UNCHANGED <<archive, saved, stale>>
       ELSE Resume(w)

(* Fault: the session leaves the map before its destroy has written it.    *)
DestroyedUnwritten(w, outcome) ==
    /\ outcome = "done" /\ Keep(w, {}, dir[w]) /\ UNCHANGED <<archive, saved, stale>>

(* The session in memory is destroyed.  The SDK may fail, or leave the     *)
(* directory unusable; dehydrate tries a failed destroy again on a session *)
(* resumed from the directory, which drops what only the first had in      *)
(* memory, the others do not.                                              *)
Destroyed(w, outcome) ==
    /\ UNCHANGED <<archive, saved, stale>>
    /\ IF warm[w] = {} THEN outcome = "done" /\ UNCHANGED <<warm, dir>>
       ELSE Keep(w, {}, [done |-> warm[w], unusable |-> {}, failed |-> dir[w]][outcome])

(* The model or the reasoning effort has changed since the session in      *)
(* memory was created: getOrCreate destroys it before it goes on.  One of  *)
(* another runtime (Copilot, Codex) cannot be resumed: whatever there is of*)
(* it is deleted, and a fresh one created.  Nothing is recorded.           *)
Rebound(w) ==
    /\ act[w].step = "get" /\ act[w].turnIndex > 0 /\ warm[w] # {} /\ Trouble
    /\ \/ \E outcome \in {"done", "unusable", "failed"} : Destroyed(w, outcome)
          /\ UNCHANGED <<act, ghostVars>>
       \/ Purge(w) /\ Goto(w, "switch") /\ switched' = done /\ UNCHANGED excused

(* getOrCreate of runTurn; when it fails during a recovery the session is  *)
(* declared lost.                                                          *)
GetOrCreate(w) ==
    /\ act[w].step = "get" /\ UNCHANGED ghostVars
    /\ \/ act[w].turnIndex = 0 /\ CreateFresh(w) /\ Goto(w, "run")
       \/ act[w].turnIndex > 0 /\ (warm[w] # {} \/ dir[w] # {})
          /\ Resume(w) /\ Goto(w, "run") /\ UNCHANGED troubles
       \/ act[w].turnIndex > 0 /\ warm[w] = {} /\ dir[w] = {} /\ archive # {}
          /\ Keep(w, archive, archive) /\ Installed(w) /\ UNCHANGED <<archive, saved>>
          /\ Goto(w, "run") /\ UNCHANGED troubles
       \/ Reports(w, IF act[w].recoveries = 0 THEN "failure" ELSE "missing") /\ Trouble /\ SameCopies

(* No copy is found, or none can be resumed: it belongs to another runtime,*)
(* or the SDK does not know it.  The directory may have been restored.     *)
NothingToResume(w) ==
    /\ act[w].step = "get" /\ act[w].turnIndex > 0 /\ warm[w] = {}
    /\ \/ dir[w] = {} /\ StoredExists(FALSE) /\ SameCopies
       \/ (dir[w] # {} \/ archive # {}) /\ Trouble
          /\ \/ SameCopies
             \/ archive # {} /\ Keep(w, {}, archive) /\ Installed(w) /\ UNCHANGED <<archive, saved>>

(* Fault: the replay in a fresh session is not recorded as lossy.          *)
MissingStateUnrecorded(w) == NothingToResume(w) /\ Goto(w, "fresh") /\ UNCHANGED ghostVars

(* The hand-off of a later turn is recorded as lossy and the turn replayed *)
(* in a fresh session, or, when this already was a recovery, the session   *)
(* declared lost.                                                          *)
MissingState(w) ==
    /\ NothingToResume(w) /\ UNCHANGED switched
    /\ \/ act[w].recoveries = 0 /\ Goto(w, "fresh") /\ excused' = done
       \/ act[w].recoveries > 0 /\ Reports(w, "missing") /\ UNCHANGED excused

(* getOrCreate after a change of the runtime, or with turnIndex 0 for the  *)
(* replay of a turn: only of one without state is a failure final.         *)
ReplayFresh(w) ==
    /\ act[w].step \in {"switch", "fresh"} /\ UNCHANGED ghostVars
    /\ \/ CreateFresh(w) /\ Goto(w, "run")
       \/ Reports(w, IF act[w].step = "fresh" /\ act[w].recoveries = 0 THEN "missing" ELSE "failure")
          /\ Trouble /\ SameCopies

(* ManagedSession.runTurn and what the activity does with its outcome.  A  *)
(* session that is destroyed meanwhile fails or is lost.                   *)
TurnCompletes(w) ==
    /\ act[w].step = "run" /\ act[w].turnIndex < MaxTurns /\ warm[w] # {}
    /\ Keep(w, warm[w] \union {act[w].turnIndex + 1}, dir[w])
    /\ Reports(w, "completed") /\ UNCHANGED <<archive, saved, stale, ghostVars, troubles>>

Disturbed(w) == IF warm[w] = {} THEN UNCHANGED troubles ELSE Trouble

TurnFails(w) ==
    act[w].step = "run" /\ Reports(w, "failure") /\ Disturbed(w) /\ SameCopies /\ UNCHANGED ghostVars

(* The live session is lost: invalidateWarmSession, then getOrCreate again.*)
LiveSessionLost(w) ==
    /\ act[w].step = "run" /\ Disturbed(w)
    /\ \/ act[w].recoveries = 0
          /\ \E onDisk \in {dir[w], {}} : Keep(w, {}, onDisk) /\ (onDisk # dir[w] => warm[w] # {})
          /\ act' = [act EXCEPT ![w].step = "get", ![w].recoveries = 1]
          /\ UNCHANGED <<archive, saved, stale>>
       \/ act[w].recoveries = 1 /\ Reports(w, "missing") /\ SameCopies
    /\ UNCHANGED ghostVars

(* The transcript is corrupt: everything is deleted, if that does not fail *)
(* (only the session in memory is gone then), and recorded as lossy after  *)
(* that; the turn is replayed in a fresh session.                          *)
TranscriptCorrupt(w) ==
    /\ act[w].step = "run" /\ act[w].recoveries < 2 /\ Trouble
    /\ Purge(w) \/ (Keep(w, {}, dir[w]) /\ UNCHANGED <<archive, saved, stale>>)
    /\ act' = [act EXCEPT ![w].step = "record", ![w].recoveries = 2] /\ UNCHANGED ghostVars

LossRecorded(w) ==
    /\ act[w].step = "record" /\ Goto(w, "fresh") /\ excused' = done
    /\ SameCopies /\ UNCHANGED <<switched, troubles>>

(* checkpoint: skipped or failed when the directory is missing or not      *)
(* ready; an archive is replaced in one rename or one upload.              *)
Checkpoint(w) ==
    /\ act[w].step = "checkpoint"
    /\ \/ dir[w] # {} /\ Put(w, dir[w]) /\ UNCHANGED <<warm, dir, troubles>>
       \/ dir[w] # {} /\ SameCopies /\ Trouble
       \/ dir[w] = {} /\ SameCopies /\ UNCHANGED troubles
    /\ Reports(w, "checkpointed")

(* The directory is missing, or its files do not settle in time.           *)
NotReady(w) == IF dir[w] = {} THEN UNCHANGED troubles ELSE Trouble

(* dehydrate, phase 0: a checkpoint before anything is destroyed.  One that*)
(* was skipped counts as one.                                              *)
CountsAsPrepared(w) == {FALSE} \union {dir[w] # {} /\ SkipsUnready}

Prepare(w) ==
    /\ act[w].step = "prepare"
    /\ \/ dir[w] # {} /\ Put(w, dir[w]) /\ UNCHANGED <<warm, dir, troubles>>
          /\ act' = [act EXCEPT ![w].step = "destroy", ![w].checkpointPrepared = TRUE,
                                ![w].base = dir[w]]
       \/ SameCopies /\ NotReady(w)
          /\ \E prepared \in CountsAsPrepared(w) :
                act' = [act EXCEPT ![w].step = "destroy", ![w].checkpointPrepared = prepared,
                                   ![w].base = dir[w]]

(* Phase 1: destroy the session in memory.                                 *)
Destroy(w) ==
    /\ act[w].step = "destroy"
    /\ \E outcome \in {"done", "unusable", "failed"} :
          /\ Destroyed(w, outcome) /\ IF outcome = "done" THEN UNCHANGED troubles ELSE Trouble
          /\ act' = [act EXCEPT ![w].step = "persist", ![w].destroyFailed = (outcome = "failed")]

(* Fault: an archive is taken to exist when the directory is not ready.    *)
PersistUnprepared(w) ==
    /\ act[w].step = "persist" /\ UNCHANGED <<warm, ghostVars>>
    /\ \/ dir[w] # {} /\ Put(w, dir[w])
          /\ dir' = [dir EXCEPT ![w] = {}] /\ Reports(w, "dehydrated") /\ UNCHANGED troubles
       \/ NotReady(w) /\ dir' = [dir EXCEPT ![w] = {}] /\ Reports(w, "dehydrated")
          /\ UNCHANGED <<archive, saved, stale>>

(* Phase 2: archive and metadata, then the directory is removed.  When the *)
(* directory is missing or not ready, the checkpoint of phase 0 is enough  *)
(* unless destroy had failed.                                              *)
Persist(w) ==
    /\ act[w].step = "persist" /\ UNCHANGED <<warm, switched>>
    /\ \/ dir[w] # {} /\ Put(w, dir[w])
          /\ dir' = [dir EXCEPT ![w] = {}] /\ Reports(w, "dehydrated") /\ UNCHANGED troubles
       \/ dir[w] # {} /\ Put(w, dir[w]) /\ UNCHANGED dir /\ Reports(w, "failure") /\ Trouble
       \/ dir[w] # {} /\ Reports(w, "failure") /\ Trouble /\ UNCHANGED <<dir, archive, saved, stale>>
       \/ NotReady(w) /\ act[w].checkpointPrepared /\ ~act[w].destroyFailed
          /\ dir' = [dir EXCEPT ![w] = {}] /\ Reports(w, "dehydrated")
          /\ UNCHANGED <<archive, saved, stale>>
       \/ NotReady(w) /\ ~(act[w].checkpointPrepared /\ ~act[w].destroyFailed)
          /\ Reports(w, "lossy") /\ UNCHANGED <<dir, archive, saved, stale>>
    /\ excused' = IF act'[w].result = "lossy" THEN done ELSE excused

WorkerStep(w) ==
    /\ \/ /\ Probe(w) \/ Hydrate(w) \/ Checkpoint(w) \/ Prepare(w) \/ Destroy(w)
          /\ UNCHANGED ghostVars
       \/ Rebound(w) \/ GetOrCreate(w) \/ MissingState(w) \/ ReplayFresh(w)
       \/ TurnCompletes(w) \/ TurnFails(w) \/ LiveSessionLost(w)
       \/ TranscriptCorrupt(w) \/ LossRecorded(w)
       \/ Persist(w)
    /\ UNCHANGED <<orchestrationVars, closing>>

(* So is the result of one that lost the lock after it had ended.          *)
Ignored(w) ==
    /\ act[w].step = "report" /\ owner # w
    /\ act' = [act EXCEPT ![w] = NoActivity]
    /\ UNCHANGED <<orchestrationVars, copyVars, closing, ghostVars, troubles>>

----------------------------------------------------------------------------
(* The durable runtime.                                                    *)

FirstStep == [probe |-> "probe", hydrate |-> "hydrate", turn |-> "get",
              checkpoint |-> "checkpoint", dehydrate |-> "prepare"]

(* The worker the affinity key is bound to, or any worker when it is new,  *)
(* takes the next activity; copies left elsewhere are now behind.          *)
Dispatch(w) ==
    /\ phase \in DOMAIN FirstStep /\ owner = NoWorker
    /\ bound \in {w, NoWorker} /\ act[w] = NoActivity
    /\ owner' = w /\ bound' = w
    /\ act' = [act EXCEPT ![w] = [NoActivity EXCEPT !.step = FirstStep[phase],
                                                    !.turnIndex = iteration]]
    /\ stale' = stale \union {v \in Worker \ {w} : warm[v] # {} \/ dir[v] # {}}
    /\ UNCHANGED <<phase, needsHydration, preserveAffinityOnHydrate, iteration, retryCount,
                   hydrateAttempts, plan, done, warm, dir, archive, saved, closing, ghostVars, troubles>>

LeaveWorker(w) ==
    /\ bound' = IF bound = w THEN NoWorker ELSE bound
    /\ owner' = IF owner = w THEN NoWorker ELSE owner
    /\ UNCHANGED <<phase, needsHydration, preserveAffinityOnHydrate, iteration, retryCount,
                   hydrateAttempts, plan, done, archive, saved, ghostVars>>

(* A process ends: its disk may survive as it is, not at all, or, in the   *)
(* middle of the two renames of a hydrate, without the directory.          *)
Crash(w) ==
    /\ Trouble /\ (warm[w] # {} \/ dir[w] # {} \/ act[w] # NoActivity)
    /\ \E onDisk \in {dir[w], {}} :
          Keep(w, {}, onDisk) /\ stale' = IF onDisk = {} THEN stale \ {w} ELSE stale
    /\ act' = [act EXCEPT ![w] = NoActivity]
    /\ closing' = IF closing.of = w THEN NotClosing ELSE closing
    /\ LeaveWorker(w)

(* A live worker loses the lock of the session and goes on.                *)
Lapse(w) ==
    /\ Trouble /\ bound = w /\ Cardinality(Worker) > 1
    /\ LeaveWorker(w) /\ UNCHANGED <<warm, dir, stale, act, closing>>

----------------------------------------------------------------------------
(* gracefulShutdown of a worker: it dehydrates the sessions it has in      *)
(* memory while its runtime still takes activities, then stops.  What      *)
(* fails on the way is ignored, and not counted as a trouble.  An upload   *)
(* is what was read of the directory before: it is late when the directory *)
(* has changed meanwhile.                                                  *)

ClosingOnly == UNCHANGED <<orchestrationVars, act, ghostVars>>

Late(w) == Behind(w) \/ closing.snapshot # dir[w]
Upload(w) ==
    /\ archive' = closing.snapshot /\ Mark(Store, Late(w))
    /\ saved' = saved \union (IF Late(w) THEN {} ELSE closing.snapshot \intersect done)

ClosingBegins(w) ==
    /\ closing = NotClosing /\ warm[w] # {}
    /\ troubles = 0 /\ MaxTroubles > 0 /\ troubles' = MaxTroubles
    /\ \E step \in {"upload", "destroy"}, prepared \in CountsAsPrepared(w) :
          /\ step = "upload" => dir[w] # {} /\ ~prepared
          /\ closing' = [NotClosing EXCEPT !.of = w, !.step = step, !.snapshot = dir[w],
                            !.checkpointPrepared = prepared,
                            !.answered = IF Behind(w) THEN {} ELSE done \intersect warm[w]]
    /\ SameCopies /\ ClosingOnly

ClosingCheckpoints(w) ==
    /\ closing.of = w /\ closing.step = "upload"
    /\ Upload(w) /\ closing' = [closing EXCEPT !.step = "destroy", !.checkpointPrepared = TRUE]
    /\ UNCHANGED <<warm, dir, troubles>> /\ ClosingOnly

ClosingDestroys(w) ==
    /\ closing.of = w /\ closing.step = "destroy"
    /\ \E outcome \in {"done", "unusable", "failed"} :
          /\ Destroyed(w, outcome)
          /\ closing' = [closing EXCEPT !.step = "archive", !.destroyed = outcome]
    /\ UNCHANGED troubles /\ ClosingOnly

ClosingReads(w) ==
    /\ closing.of = w /\ closing.step = "archive" /\ UNCHANGED <<warm, archive, saved, stale>>
    /\ \/ dir[w] # {} /\ closing' = [closing EXCEPT !.step = "persist", !.snapshot = dir[w]]
          /\ UNCHANGED dir
       \/ closing' = [closing EXCEPT !.step = "stop"]
          /\ dir' = IF closing.checkpointPrepared /\ closing.destroyed # "failed"
                    THEN [dir EXCEPT ![w] = {}] ELSE dir
    /\ UNCHANGED troubles /\ ClosingOnly

ClosingStores(w) ==
    /\ closing.of = w /\ closing.step = "persist" /\ UNCHANGED warm
    /\ \/ Upload(w) /\ dir' = [dir EXCEPT ![w] = {}]
          /\ closing' = [closing EXCEPT !.step = "stop", !.stored = TRUE]
       \/ UNCHANGED dir /\ closing' = [closing EXCEPT !.step = "stop"]
          /\ (Upload(w) \/ UNCHANGED <<archive, saved, stale>>)
    /\ UNCHANGED troubles /\ ClosingOnly

(* stop: activities still running are cut off, sessions that came back to  *)
(* memory destroyed.                                                       *)
Stops(w) ==
    /\ closing.of = w /\ closing.step = "stop" /\ closing' = NotClosing
    /\ \E onDisk \in {IF warm[w] = {} THEN dir[w] ELSE warm[w], dir[w], {}} :
          Keep(w, {}, onDisk) /\ stale' = IF onDisk = {} THEN stale \ {w} ELSE stale
    /\ act' = [act EXCEPT ![w] = NoActivity]
    /\ LeaveWorker(w) /\ UNCHANGED troubles

ClosingStep(w) ==
    \/ ClosingBegins(w) \/ ClosingCheckpoints(w) \/ ClosingDestroys(w)
    \/ ClosingReads(w) \/ ClosingStores(w) \/ Stops(w)

----------------------------------------------------------------------------
(* The orchestration.                                                      *)

OrchestrationOnly ==
    UNCHANGED <<warm, dir, archive, saved, closing, ghostVars, stale, troubles>>

NewKey == bound' = NoWorker   \* a new guid as affinity key

(* The hydrate loop takes a new key for every attempt, unless told not to. *)
EnterHydrate(preserve) ==
    phase' = "hydrate" /\ IF preserve THEN UNCHANGED bound ELSE NewKey

NewPrompt ==
    /\ phase = "idle" /\ iteration < MaxTurns
    /\ IF needsHydration THEN EnterHydrate(preserveAffinityOnHydrate)
       ELSE phase' = "probe" /\ UNCHANGED bound
    /\ UNCHANGED <<needsHydration, preserveAffinityOnHydrate, iteration, retryCount,
                   hydrateAttempts, owner, plan, done, act>>
    /\ OrchestrationOnly

(* The wait for the result of an activity ends.                            *)
Answer(result) ==
    /\ owner # NoWorker /\ act[owner].step = "report" /\ act[owner].result = result
    /\ act' = [act EXCEPT ![owner] = NoActivity] /\ owner' = NoWorker
    /\ OrchestrationOnly

ProbeAnswered ==
    /\ phase = "probe"
    /\ \/ Answer("cold") /\ needsHydration' = TRUE /\ EnterHydrate(preserveAffinityOnHydrate)
       \/ Answer("present") /\ phase' = "turn" /\ UNCHANGED <<needsHydration, bound>>
    /\ UNCHANGED <<preserveAffinityOnHydrate, iteration, retryCount, hydrateAttempts, plan, done>>

(* Fault: nothing is done when there is no archive to restore.             *)
HydrateRestored ==
    /\ phase = "hydrate" /\ Answer("restored")
    /\ needsHydration' = FALSE /\ preserveAffinityOnHydrate' = FALSE
    /\ phase' = "turn" /\ hydrateAttempts' = 0
    /\ UNCHANGED <<iteration, retryCount, bound, plan, done>>

HydrateAnswered ==
    /\ phase = "hydrate"
    /\ \/ Answer("restored") \/ Answer("notFound")
    /\ needsHydration' = FALSE /\ preserveAffinityOnHydrate' = FALSE
    /\ phase' = "turn" /\ hydrateAttempts' = 0
    /\ UNCHANGED <<iteration, retryCount, bound, plan, done>>

(* The third failure gives the prompt up; needsHydration stays set.        *)
HydrateFailed ==
    /\ phase = "hydrate" /\ Answer("failure")
    /\ IF hydrateAttempts + 1 >= MAX_HANDOFF_RETRIES
       THEN phase' = "idle" /\ hydrateAttempts' = 0 /\ UNCHANGED bound
       ELSE hydrateAttempts' = hydrateAttempts + 1 /\ EnterHydrate(preserveAffinityOnHydrate)
    /\ UNCHANGED <<needsHydration, preserveAffinityOnHydrate, iteration, retryCount, plan, done>>

TurnAnswered ==
    /\ phase = "turn"
    /\ UNCHANGED <<needsHydration, preserveAffinityOnHydrate, hydrateAttempts, bound, plan>>
    /\ \/ Answer("completed") /\ phase' = "answered" /\ retryCount' = 0
          /\ iteration' = iteration + 1 /\ done' = done \union {iteration + 1}
       \/ Answer("missing") /\ phase' = "failed" /\ UNCHANGED <<iteration, retryCount, done>>

(* A turn that returned an error counts as an iteration, one that threw    *)
(* does not.  Either is retried from the archive, until MAX_RETRIES; one   *)
(* that threw because the connection was closed has a limit of its own,    *)
(* and is then handed to another worker to begin anew.  (What that reports *)
(* as a lossy hand-off excuses nothing here.)                              *)
TurnFailed ==
    /\ phase = "turn" /\ Answer("failure")
    /\ iteration' \in {iteration} \union ((iteration + 1) .. (MaxTurns - 1))
    /\ iteration' <= iteration + 1
    /\ LET closed == iteration' = iteration /\ retryCount + 1 > MAX_CONNECTION_RETRIES
           retried == \/ retryCount + 1 < MAX_HANDOFF_RETRIES
                      \/ iteration' = iteration /\ retryCount + 1 <= MAX_CONNECTION_RETRIES
       IN  \/ /\ retryCount + 1 >= MAX_HANDOFF_RETRIES
              /\ phase' = "idle" /\ retryCount' = 0 /\ UNCHANGED plan
           \/ /\ (retried /\ retryCount' = retryCount + 1) \/ (closed /\ retryCount' = 0)
              /\ phase' = "dehydrate" /\ plan' = [resetAffinity |-> TRUE, retry |-> TRUE]
    /\ UNCHANGED <<needsHydration, preserveAffinityOnHydrate, hydrateAttempts, bound, done>>

(* What follows a turn: maybeCheckpoint or a warm continueAsNew, a wait    *)
(* long enough to dehydrate (planWaitHandling), or nothing.                *)
AfterTurn ==
    /\ phase = "answered"
    /\ \/ phase' \in {"checkpoint", "idle"} /\ UNCHANGED plan
       \/ phase' = "dehydrate"
          /\ \E reset \in BOOLEAN : plan' = [resetAffinity |-> reset, retry |-> FALSE]
    /\ UNCHANGED <<needsHydration, preserveAffinityOnHydrate, iteration, retryCount,
                   hydrateAttempts, bound, owner, done, act>>
    /\ OrchestrationOnly

CheckpointAnswered ==
    /\ phase = "checkpoint" /\ Answer("checkpointed") /\ phase' = "idle"
    /\ UNCHANGED <<needsHydration, preserveAffinityOnHydrate, iteration, retryCount,
                   hydrateAttempts, bound, plan, done>>

(* dehydrateForNextTurn; a retry goes on with needsHydration set even when *)
(* the hand-off was lossy.                                                 *)
DehydrateAnswered ==
    /\ phase = "dehydrate"
    /\ \E result \in {"dehydrated", "lossy"} :
          /\ Answer(result)
          /\ needsHydration' = (result = "dehydrated" \/ plan.retry)
          /\ preserveAffinityOnHydrate' = (result = "dehydrated" /\ ~plan.resetAffinity)
    /\ phase' = IF plan.retry THEN "hydrate" ELSE "idle"
    /\ IF plan.resetAffinity THEN NewKey ELSE UNCHANGED bound
    /\ plan' = NoPlan /\ UNCHANGED <<iteration, retryCount, hydrateAttempts, done>>

(* Nothing catches an exception of dehydrateSession.                       *)
DehydrateFailed ==
    /\ phase = "dehydrate" /\ Answer("failure") /\ phase' = "failed"
    /\ UNCHANGED <<needsHydration, preserveAffinityOnHydrate, iteration, retryCount,
                   hydrateAttempts, bound, plan, done>>

OrchestrationStep ==
    \/ ProbeAnswered \/ HydrateAnswered \/ HydrateFailed
    \/ TurnAnswered \/ TurnFailed \/ AfterTurn \/ CheckpointAnswered
    \/ DehydrateAnswered \/ DehydrateFailed

HandoffNext ==
    \/ \E w \in Worker : WorkerStep(w) \/ Ignored(w) \/ Flush(w) \/ Dispatch(w) \/ Crash(w) \/ Lapse(w)
                       \/ ClosingStep(w)
    \/ NewPrompt \/ OrchestrationStep

(* The durable runtime and its workers do not stop while an activity is in *)
(* progress or to be handed out, or a result to be consumed.  Prompts, the *)
(* SDK's writes and faults need not happen.                                *)
HandoffOwed == OrchestrationStep \/ \E w \in Worker : WorkerStep(w) \/ Ignored(w) \/ Dispatch(w)
HandoffFairness == WF_handoffVars(HandoffOwed)

HandoffSpec == HandoffInit /\ [][HandoffNext]_handoffVars /\ HandoffFairness

----------------------------------------------------------------------------
(* Properties.                                                             *)

HandoffTypeOK ==
    /\ phase \in Phase /\ {needsHydration, preserveAffinityOnHydrate} \subseteq BOOLEAN
    /\ iteration \in 0 .. MaxTurns
    /\ hydrateAttempts \in 0 .. MAX_HANDOFF_RETRIES - 1
    /\ retryCount \in (0 .. MAX_HANDOFF_RETRIES - 1) \union (0 .. MAX_CONNECTION_RETRIES)
    /\ {bound, owner} \subseteq Worker \union {NoWorker}
    /\ plan \in [resetAffinity : BOOLEAN, retry : BOOLEAN]
    /\ {warm, dir} \subseteq [Worker -> Copy] /\ archive \in Copy
    /\ act \in [Worker -> Activity] /\ closing \in Closing
    /\ {done, saved, excused, switched} \subseteq SUBSET Turn /\ stale \subseteq Worker \union {Store}
    /\ troubles \in 0 .. MaxTroubles

GivenUp == excused \union switched

(* A turn whose result was archived is not forgotten unreported: a later   *)
(* turn runs on a copy that contains it, unless the loss was reported as a *)
(* lossy hand-off (session-proxy.ts), the model has been changed for one of*)
(* another runtime (getOrCreate says nothing then), or the worker still    *)
(* held a copy the session had gone on without, which getOrCreate prefers  *)
(* to the archive.                                                         *)
SavedTurnsRemembered ==
    \A w \in Worker :
      w = owner /\ act[w].step = "run" /\ warm[w] # {} =>
        saved \ GivenUp \subseteq warm[w] \/ w \in stale

(* When dehydrateSession reports success, the archive holds everything the *)
(* worker had on disk at the start, whatever failed in between; only a     *)
(* worker that had lost its lock can have put an older copy there.         *)
DehydrateKeepsDisk ==
    \A w \in Worker :
      w = owner /\ act[w].step = "report" /\ act[w].result = "dehydrated" =>
        act[w].base \subseteq archive \/ Store \in stale

(* When a graceful shutdown has destroyed and stored a session, the archive*)
(* has every answered turn the worker had in memory when it began, whatever*)
(* activities it crossed, unless a late upload has put an older copy there,*)
(* the loss was reported as a lossy hand-off, or the runtime was changed.  *)
ShutdownKeepsTurns ==
    closing.stored /\ closing.destroyed = "done" =>
        closing.answered \ GivenUp \subseteq archive \/ Store \in stale

(* The worker a session is on deletes its archive only when no turn has    *)
(* been answered yet, the hand-off has been reported as lossy or is next   *)
(* (it is reported after a corrupt transcript has been deleted), or the    *)
(* model has been changed for one of another runtime.  (One that lost its  *)
(* lock may: getOrCreate of a delayed first turn deletes what the next     *)
(* worker has archived meanwhile.)                                         *)
ArchiveDeletedKnowingly ==
    [][archive # {} /\ archive' = {} =>
         \/ done \subseteq GivenUp'
         \/ \E w \in Worker : act'[w].step = "record" \/ (w # owner /\ act'[w] # act[w])]_handoffVars

(* A prompt taken up is answered, given up or the session declared failed: *)
(* no combination of crashes, lost locks and failed hand-offs leaves the   *)
(* orchestration waiting for an activity forever.                          *)
TurnSettles == []<>(phase \in {"idle", "failed"})
=============================================================================
