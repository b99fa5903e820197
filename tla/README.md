# PilotSwarm: specifications, model checking and proofs

PilotSwarm runs sessions with a language model as durable orchestrations. A
session is a generator function, replayed from its history by the *duroxide*
runtime, that takes messages from a durable queue, runs turns of the model in
activities on whichever worker is available, waits on durable timers and
starts sub-agents, which are sessions of their own. This directory holds TLA+
specifications of that program, configurations that model-check them with TLC,
and theorems checked with TLAPS.

Paths below are relative to `src/`; `orchestration.ts`, `session-proxy.ts` and
so on are in `packages/sdk/src/`.

## 1. Inventory

| Component | State | Operations | Talks to |
|---|---|---|---|
| Session orchestration, `orchestration.ts` | `activeTimer`, `pendingPrompt`, `pendingToolActions`, `interruptedWaitTimer`, `interruptedCronTimer`, `cronSchedule`, `pendingInputQuestion`, `subAgents`, `waitingForAgentIds`, `pendingChildDigest`, `pendingShutdown`, `retryCount`, `needsHydration`, `affinityKey` | `drain`, `decide`, `processPrompt`, `handleTurnResult`, `processTimer`, `handleCommand`, `continueInput` | queue, key-value store, activities, parent and sub-agents through the queue |
| Work buffer, `orchestration.ts` | 20 key-value entries `fifo.<i>` (`FIFO_BUCKET_COUNT`) | `appendToFifo`, `popFifoItem`, `hasFifoItems` | key-value store |
| Activities, `session-proxy.ts` | none of its own; the lock of the activity | `runTurn`, `hydrate`, `dehydrate`, `checkpoint`, `destroy`, session-manager calls | session manager, CMS, clients (sub-agent tools) |
| Session manager, `session-manager.ts` | warm sessions of a worker, local state directory | `getOrCreate`, `dehydrate`, `checkpoint`, `hydrate`, `needsHydration`, `destroySession` | stores, model runtime |
| Session stores, `session-store.ts`, `blob-store.ts` | archives and metadata | `dehydrate`, `hydrate`, `checkpoint`, `exists`, `delete` | file system, blob storage |
| Managed session, `managed-session.ts` | actions called by the model during a turn | `runTurn`, `abort` | model runtime, tools |
| Codex runtime, `codex-runtime.ts` | transport, generation, sessions, turn queue; active turn of each session | `send`, `abort`, `disconnect`, `stop`, notifications | app-server, managed session |
| Client, `client.ts` | last seen status and response versions; `lastSeenSeq`, `polling` | send, `sendAndWait`, event polling, `deleteSession` | queue, custom status, CMS |
| Management client, `management-client.ts` | status waits | `getSession`, send, command, `deleteSession` | CMS, queue |
| Catalog (CMS), `cms.ts`, `cms-migrations.ts` | sessions, events | upsert, soft delete, record and read events | PostgreSQL |
| Facts, `facts-store.ts` | facts by session and scope | store, read, delete | PostgreSQL |
| Sweeper and resource manager tools, `sweeper-tools.ts` | none | scan, clean-up of sessions | management client, CMS |
| Worker, `worker.ts` | started runtime, session manager | start, graceful shutdown | all of the above |
| Controller of the user interfaces, `ui-core/src/controller.js` | histories by session, the active subscription, loads under way | `loadSession`, `refreshSessions`, `mergeSessionEvent`, `expandSessionHistory`, eviction | clients |
| CLI, portal, MCP server, evaluation harness | presentation state | commands of users | clients |

Interactions. A client (or the parent session, or a sub-agent) appends to the
queue `messages` of a session and reads its published *custom status* and the
responses the session writes to its key-value store. The orchestration calls
activities; `runTurn` may call back to the clients (spawning, completing,
cancelling and deleting sub-agents in the middle of a turn). A sub-agent
reports to its parent with `[CHILD_UPDATE ...]` messages in the parent's queue,
and the parent also reads the status a sub-agent publishes. Turns record events
in the catalog, which clients poll. Rows of the catalog are written by turns,
by deletions and by everybody who looks at a session.

What is hard here:

* *Timer against queue.* `drain` races the queue with the active timer; a user
  message interrupts a timer, whose rest is saved and armed again later.
* *continueAsNew.* At many points the execution ends and a new one starts with
  the input the old one built. State not in that input is gone.
* *Two buffers in front of the work*: the stash of one drain and the buffer in
  the key-value store, with commands and child updates overtaking prompts.
* *Retries* of failed turns with three kinds of failure and one counter.
* *Sub-agents* which end before, after or without their report, while the
  parent awaits them, shuts them down, forgets or deletes them.
* *Moving a session* between workers: warm copy, local directory, archive; a
  worker that crashed in between, or lost its lock and does not know.
* *Status and response* read by clients in two steps, with numbers but no names
  that tie an answer to a prompt.
* *Events* numbered before they are committed, polled by page, on a timer and
  on notifications, and merged into a history that other answers replace.
* *One app-server for many sessions*, which may die under a running turn.
* *Rows, instances and published statuses* of one session, never written in one
  transaction.

What makes each part correct is in the `hazards` of `PROJECT.json`, with the
line where it bites and the properties that cover it.

## 2. Modules

| Module | Models | Source |
|---|---|---|
| `SessionLoop` | the orchestration with its users, clients and sub-agents | `orchestration.ts`, tools in a turn of `session-proxy.ts` |
| `WorkQueue` | abstract: what the buffer promises, one FIFO queue | |
| `KvFifo` | the buffer on size-limited buckets; implements `WorkQueue` | `orchestration.ts:1218-1307` |
| `Handoff` | the copies of a conversation while it moves between workers | `session-manager.ts`, `session-store.ts`, `blob-store.ts`, activities of `session-proxy.ts`, the calls in `orchestration.ts`, `wait-affinity.ts`, the shutdown of `worker.ts` |
| `SessionTree` | spawning, shutting down, deleting and sweeping sessions, and their rows | `orchestration.ts`, `session-proxy.ts`, `client.ts`, `management-client.ts`, `session-status.ts`, `sweeper-tools.ts`, `cms-migrations.ts` |
| `TurnWait` | `sendAndWait` against what a session publishes | `client.ts`, `orchestration.ts` |
| `EventFeed` | recording, reading and delivering events | `cms.ts`, `cms-migrations.ts`, `client.ts` |
| `HistoryPane` | the history a user interface shows | `ui-core/src/controller.js`, `history.js`, `reducer.js` |
| `CodexTurns` | turns of several sessions on one app-server | `codex-runtime.ts`, `managed-session.ts` |
| `SessionLoopProofs`, `KvFifoProofs`, `HandoffProofs`, `SessionTreeProofs`, `TurnWaitProofs`, `EventFeedProofs`, `HistoryPaneProofs`, `CodexTurnsProofs` | theorems about the modules of those names | |
| `MCSessionLoop`, `MCServices` | instances for TLC | |

### KvFifo

`buckets` are the values of the keys `fifo.<i>`. One step is one iteration of
the loop in `appendToFifo`: `BeginAppend` finds the bucket to start in,
`AppendInBucket`, `AppendInNextBucket` and `Overflow` are the three outcomes of
the size test. `popFifoItem` takes the head of the lowest occupied bucket. The
generator does not yield inside `appendToFifo`, so nothing is popped meanwhile.
`Overflow` drops what is left of the append, as the code does: `LostOnlyByOverflow`
says that this is the only way an item is lost (section 5 has the document that
promises more).
An item has an id, the position at which it came, and the length of its JSON
text; `BucketBytes` is the length of the text of a bucket.

### SessionLoop

The state of the generator is the record `s`; its fields have the names of the
variables in the code where these exist, and `timer`, `heldWait`, `heldCron`,
`question`, `digest`, `agents`, `awaited`, `shutdown` stand for `activeTimer`,
`interruptedWaitTimer`, `interruptedCronTimer`, `pendingInputQuestion`,
`pendingChildDigest`, `subAgents`, `waitingForAgentIds`, `pendingShutdown`.
`s.pc` is the point of control: `loop` (top of the main loop), `drain`,
`parked` (the blocking dequeue), `decide`, `turn` (the activity `runTurn` is
running), `ended`. The other variables are the queue (`messages`), what was
sent, and what the sub-agents publish (`child`) and were told (`told`).

| Code | Actions |
|---|---|
| main loop | `IterationCap`, `HistoryCap`, `StartDrain`, `DecideNothing` |
| `drain` | `TimerFires`, `DigestDue`, `Park`, `EndDrain`, `RoutePrompt`, `RouteAnswer`, `RouteChildUpdate` |
| `handleCommand`, `beginGracefulShutdown` | `RouteQuery`, `RouteSetModel`, `RouteSecondShutdown`, `RouteShutdownNow`, `RouteShutdownCascade` |
| `decide` | `ReplayToolAction`, `TakePendingPrompt`, `ProcessPrompt`, `ProcessAnswer`, `ProcessDigest`, `ProcessWaitTimer`, `ProcessCronTimer`, `ProcessIdleTimer`, `ProcessGraceTimer`, `ProcessStalePoll`, `ProcessPollResolved`, `ProcessPollAgain`, `ProcessShutdownPoll` |
| `processPrompt` | `StartTurn` (hydration), then `TurnReturns`, `TurnLosesState`, `TurnLosesConnection`, `TurnFails` |
| `handleTurnResult` | `HandleTurnResult` and the operators it names, one per case |
| tools in a turn, `controlToolBridge` | `SpawnInTurn`, `SignalInTurn`, `DeleteInTurn` |
| users, clients, sub-agents | `UserSends`, `UserAnswers`, `ClientCommands`, `ChildStep` |

An action covers the code from one point where another actor can be seen to the
next. `continueInput` and `versionedContinueAsNew` are `ContinueAsNew`, which
resets what the new input does not carry and keeps the rest.

What is abstracted:

* *Time.* A timer may fire at any moment after it is armed. Of an interrupted
  timer only "some time left" or "rounded to zero" is kept. A poll of a
  shutdown adds at least one interval to its `age`.
* *Texts.* A prompt is the set of its parts: messages of users, an answer,
  text added by the orchestration, system context.
* *How a turn ends* is a member of `TurnOutcome`: the main result and the
  actions queued behind it. `TurnFailure` is how the activity may throw.
* *Sub-agents* are a few steps each: wait, complete (report first, end later),
  fail silently, obey a command. `wait_for_agents` names tracked sub-agents.
* *The work buffer* is the queue that `KvFifo` implements, without its overflow.
* Limits on nesting and on the number of sub-agents appear as a tool that is
  refused, which is possible at any time.

Left out: exceptions of activities the code does not catch (they fail the
execution), a status query of a sub-agent that fails (2519, 2898: caught, the
known status stays and the next poll asks again), checkpoints that change no state of the loop, titles, summaries,
context usage, CMS records, and messages of versions older than the current one.

### Handoff

A copy of the conversation is the set of turns in it. A worker has one in
memory (`warm`) and one on disk (`dir`), the store one (`archive`). `phase` is
the activity the orchestration is waiting for, `act[w]` the one worker `w` is
running, `owner` the worker whose result counts. Actions of a worker are the
steps of an activity between which others can be seen: `Probe` and `Hydrate`,
`Rebound` (the model or the runtime of a warm session has changed: it is
destroyed, and for another runtime its directory and archive purged),
`GetOrCreate`, `MissingState`, `ReplayFresh`, `TurnCompletes` and its failures
(`TranscriptCorrupt` deletes first and `LossRecorded` reports after it),
`Checkpoint`, and the three phases of `dehydrateSession` (`Prepare`, `Destroy`,
`Persist`). The orchestration goes on with `ProbeAnswered`, `HydrateAnswered`
and so on, one action per outcome. `Dispatch` is the durable runtime with the
affinity key, `Crash` a worker that ends (its disk may be lost, or left as it is
between two renames), `Lapse` one that loses its lock and goes on.

`closing` is the graceful shutdown of a worker, which dehydrates what it has in
memory outside of any activity, while its runtime still runs activities of the
same session. It is taken apart where the code awaits: an upload sends what was
read of the directory before (`ClosingBegins`, `ClosingCheckpoints`,
`ClosingDestroys`, `ClosingReads`, `ClosingStores`), then `Stops` cuts off
what still runs. A turn whose session was destroyed under it fails, or is
declared lost and recovered. `SkipsUnready` tells the stores apart: asked for
the checkpoint of a directory that is not ready, the blob store returns, the one
on the file system throws. `excused` are the turns given up with a lossy
hand-off. Its record is an attempt: it is skipped without a catalog, and a failure
to write it is only traced (`session-proxy.ts:183`, `187`). `switched` are those
given up by a change of the runtime, which is not recorded at all. The
hand-off after repeated lost connections (`orchestration.ts:1814-1851`) is a
dehydration like others and loses no copy of its own accord; how often the turn
is tried is in `SessionLoop`.

### SessionTree

Each session has a `row`, an `instance` and the status that one has
`published`, and stands at a `stage` of its loop; `SessionLoop` has the inside.
A turn spawns (`SpawnRow`, `SpawnInstance`, `SpawnFails`: the row is written
first), completes its task, or is cancelled under way. A shutdown begins with a
command, signals sub-agents, listens to reports, polls, times out or concludes.
Deletions: of a session by itself, step by step (`DescendantsEnumerated`,
`DescendantDeleted`, `SelfDeleted`), of a sub-agent by a tool, by a client, by
the sweeper after a scan. A viewer reads the row, then the status, then may
write the row (`RowViewed`, `StatusViewed`, `RowCorrected`). `spared` collects
what a deletion cannot reach: `Spare` says what that is, and `Missed` what an
enumeration does not find because another deletion has already deleted rows above
it. It also collects where a call of a deletion failed and the code said nothing
(`InstanceSurvives`, `Forced`, `SweepContinues`, each a hitch): a cancellation or
`deleteInstance` that leaves the instance running, a row that stays. `Doomed` is what deletions under way still have on their lists; a client that
deletes below one of them may hear of its success first.

### TurnWait, EventFeed, HistoryPane

`TurnWait`: the orchestration as far as clients see it (`StartTurn`, the ways a
turn ends, the wait published after its response) and each `_waitForTurnResult`
(`PollSeenResponse`, `PollByStatusNumber`, `ReadAnswer`, `ReadOther`, `ReadFails`,
`AnswerQuestion`, `Timeout`). `overlapped` and `overtaken` record when a wait
was not alone or read a response newer than the status it held, `unread` when its
last read of a response failed, after which the code counts it as seen. Left out
are the ends of a wait that do not come from an answer of the session: an
orchestration that has failed or completed (`client.ts:820`, `927`; so status
`completed`, 893, is not among the statuses), and results published by older
orchestrations (`turnResult`, 852).

`EventFeed`: a number is taken at `Insert` and seen after `Commit`; a poll is
`Ask`, `Read` and `Deliver`, asked for by `Tick` or a `Notification`. Two
handlers per event, as subscribers by type are called before those of all
events and may throw.

`HistoryPane`: a query is asked with the state of its moment and answered later
(`LoadSession`, `Refresh`, then `LoadAnswered`, `SyncAnswered`, `LoadFails`;
`Expand`, then `ExpansionAnswered`, `ExpansionFails`), `EventArrives` is the
subscription. `Replace` is every write of the history that is not a merge and
notes in `outpaced` what it takes away. Event contents, chat and activity lines
derived from them, and optimistic messages are left out.

### CodexTurns

`send[k]` is one call of `runTurn` with its job in the client's turn queue, its
acknowledgement and its turn on the app-server; `handle[h]` a
`CodexRuntimeSession`. `BeginTurn`, `AttachTurn`, `TurnStarted`, `ReleaseTurn`
are the stretches of the queued function between its awaits. The app-server is
external: it accepts a turn, concludes it, refuses requests and dies. That it ends a
turn about which it sent an error notification is assumed of it: the code
(`codex-runtime.ts:1507`) ends its own side only. `Disconnect` is the end of a
session; the deletion of a session, whose entry leaves the map whatever handle it
holds (275), is left out.

### MCServices

The components beside the loop share no variables, so one run checks them all:
`part` is chosen at first and never changes, `ServicesNext` lets that component
step and leaves the others as they are initially. Each fairness condition holds
for its own part only; a component that does not run stays in its initial state,
where its properties hold.

## 3. Runs

`tlc -config X.cfg M` for each entry of `runs` in `PROJECT.json`. Deadlock is
not an error in these runs: a session may end, and a queue may stay as it is.

| Run | Instance | Shows |
|---|---|---|
| `services`, part buffer | 3 buckets of 12 bytes, items of 2, 5, 11, at most 3 per append and 6 in all | order, no item lost but by overflow nor twice, size limit, refinement of `WorkQueue` |
| part handoff | 2 workers, 2 turns, 2 retries (1 of a lost connection), 2 troubles (crashes, lost locks, failures, changes of the model or runtime) or a graceful shutdown; a store that refuses unready directories | archived turns are not forgotten unless reported or left with another runtime, a dehydration loses nothing on disk, a shutdown stores the turns it finds, no archive is deleted unknowingly, every turn settles |
| part wait | 2 waits, 1 detour (a turn that waits, asks or fails), reads that fail | the own answer is returned, a question is answered once, an answer reaches its wait |
| part feed | 4 events, pages of 2, 2 polls at once, 1 mishap | events once, in order, and every one |
| part codex | 2 sessions, 2 sends, 2 handles, 1 fault | turns are not mixed up nor concluded early, every `runTurn` returns |
| part pane | 5 events, of which 3 exist at first, a window and pages of 2, 2 moves | events shown once, in order, with gaps only after old answers; the pane catches up |
| part tree | 3 sessions, the third on a schedule, 2 requests (1 when all three exist), 1 hitch | deletions take the offspring along, shutdowns go bottom-up |
| part rows | a tree of two, somebody looks at the sub-agent, 1 request, 1 hitch | its row settles |
| `loop_user` | user session and system sub-agent, 2 messages, `get_info`, `set_model`, turns that wait, ask, use a tool, set and cancel a schedule; 2 surprises | prompts, responses, waits and schedules survive interruption and continueAsNew; every prompt is handled |
| `loop_retry` | with and without blob storage, 2 messages, all failures, failing hydration; 8 surprises | bounded attempts on each worker, prompts carried, nothing replayed |
| `loop_agents` | a user session with 2 sub-agents, all sub-agent tools in and after turns, 2 surprises; or one of two kinds that `done`, `cancel` and `get_info` reach in any order, with a sub-agent, lost signals; failing refresh | the end of awaited sub-agents is noticed; a session shut down ends, and answers each command once |
| eight runs `expect: violation` | see section 6 | the disagreements listed there |

The properties are defined, each with a comment, at the end of the component's
module. Every property has a mutant (`mutants`): an operator marked `Fault:`
beside the definition it replaces, under which TLC finds the property violated.

Bounds and why they suffice. Three buckets give a lowest, a middle and a highest
one; six items overflow them, drain them and refill them, and the sizes give a
bucket with room, one without, and an item over the limit alone. Two workers are
what a session can move between; two troubles let a second one strike while the
first is recovered from, and two turns give an older copy something to forget.
A shutdown takes the place of both, with every failure of its own steps: it is
interleaved with everything else that runs on the worker, not with crashes.
One wait can overlap another or follow it. Four events fill two pages, and two
open transactions can commit in either order. The pane begins with one event
more than its window, so that it can be expanded, and may be asked for two
queries and one expansion at once. One session of three is grandchild of the
first. Two surprises or faults are what lets one interrupt the handling of
another; where a single one is allowed the interleavings of two concurrent
actors already make the state space of that part the largest.

In the loop, two messages are what it takes for one to overtake, interrupt or
replace another; two sub-agents, for one to end while the other runs.
`MaxSurprises` counts turns that do not end plainly, failures and tools called
in a turn: eight, in `loop_retry`, let a turn handed to a second worker after its
lost connections exhaust the retries there too. `MaxHitches` counts the calls that
fail in a tree, `MaxTroubles` also the changes of the model of a session.
Iteration, drain and history limits are scaled to 1-4 so that each is met within
a behaviour; in a run whose subject is not the history limit it is set above the
iteration limit. Two polls let a shutdown be polled again before it times out.
No symmetry is used, as most runs check liveness.
`loop_agents` asks two questions and keeps them apart by an action constraint:
a session of the first kind gets no commands, and the turns of the others end
plainly. What it leaves out are choices of clients and of the model, none of
which fairness promises, so every state keeps the successors it is owed.

Fairness, always weak unless said otherwise:

* `SessionLoop`: the loop itself, as duroxide keeps executing an orchestration
  that has work; strong for `Dequeue`, as a race between the queue and a durable
  timer is won by a message that is there before the timer is due; strong for a
  turn that ends plainly: the model does not wait or fail on every turn for
  ever. Users, clients and sub-agents are not fair.
* `Handoff`: the orchestration goes on when an activity has answered, the
  runtime dispatches what is due, and activities end. Crashes and shutdowns are
  not fair.
* `TurnWait`: turns end, timers fire and the polling loop of a wait goes on.
* `EventFeed`: transactions end, the polling timer goes on and queries return.
  Notifications may be lost, so they are not fair.
* `CodexTurns`: resolved promises are acted upon, the app-server answers each
  request and ends each turn, unless it dies.
* `HistoryPane`: the refresh timer goes on and its queries end; failures are
  bounded. The subscription is not fair.
* `SessionTree`, rows: the viewer goes on looking, and the turn of a cancelled
  instance ends. Everything else happens or not.

Liveness is stated as `<>[]` or `[]<>` of what is owed where that is equivalent
to the leads-to it stands for, which keeps TLC's tableau small.

## 4. Proofs

For all values of the constants, under the assumptions named in each module,
which TLC evaluates in the runs of that module (`services`, and the `loop_*` runs
for `SessionLoop`):

| Module | Theorems |
|---|---|
| `SessionLoopProofs` | `TypeCorrect`, `NoReplayHolds`, `PromptsAccountedFor`, `FailuresStayBounded`, `CommandsGetAnswered` (for `CommandsAnswered`), `WaitIsKept` (for `WaitKept`), `ScheduleStaysAwake` (for `CronNeverParked`) |
| `KvFifoProofs` | `TypeCorrect`, `ArrivalOrderHolds`, `QueueImplemented` (`Spec => ImplementsQueue`), `OnlyOverflowLoses` (for `LostOnlyByOverflow`), `LimitHolds` (for `BucketsWithinLimit`) |
| `EventFeedProofs` | `TypeCorrect`, `DeliveryHolds` (for `DeliveredOnceInOrder`) |
| `TurnWaitProofs` | `TypeCorrect`, `OwnAnswerHolds`, `AnsweredOnce` (for `QuestionAnsweredOnce`) |
| `HistoryPaneProofs` | `PaneTypes`, `PaneSound` (for `ShownOnceInOrder`), `NoUnexplainedGap` (for `GapsOnlyFromOldAnswers`) |
| `HandoffProofs` | `TypeCorrect`, `DeletedKnowingly`, `SavedTurnsStay`, `DehydrationKeeps`, `ShutdownKeeps` |
| `CodexTurnsProofs` | `CodexTypes`, `CompletedConcluded`, `OneAtATime` |
| `SessionTreeProofs` | `TreeTypes`, `GoneTogether` (for `GoneWithOffspring`), `SubAgentsFirst` (for `EndsAfterSubAgents`) |

Every theorem but `QueueImplemented` is of the form `Spec => []P` or `Spec => [][A]_vars` and follows
from an inductive invariant: the initial states satisfy it, every action keeps
it, and it implies the property. Each proof has one step, or one lemma, for each
action.

`SessionLoop`. The types are inductive with `Awake`, that a session goes to sleep
with nothing drained, so that a message which wakes it fits the limit of the
drain. The two theorems about messages of users rest on six kinds of step: a
message is sent (`Sends`), routed from the queue to the stash (`Routes`), taken
for a turn (`Starts`), a turn ends (`Ends`), and everything else, which may move
what is no message of a user, or the whole stash to the buffer (`Passes`).
`PromptMoves` shows for every handler of `drain`, `decide` and
`handleTurnResult`, with each of their alternatives, that it is one of these;
the invariants then need one argument for each kind. `Placed` says that a message
is in one place at most and that a turn is only carried by `pc` = `turn`; it gives
`NoReplay`. `Unlost` says that it is in one place at least. For that a retry must
find no other prompt carried along, since its own takes the place (`RetryWith`):
`NoneHeld`, true without sub-agents, as a prompt is only held back during an agent
wait. `PromptsAccountedFor` therefore has the hypothesis that there are no
sub-agents or that no turn is run again; `loop_prompt_dropped` is the case
excluded. `PromptAssumption` says that the names of messages are not those of
commands or other parts of a prompt, `OutcomeAssumption` that turns end in ways
`TurnAction` of `types.ts` has, and that what a turn queues is no result of a
turn.

`FailuresStayBounded` counts. Every handler but the failing turn is calm: it
leaves the failures of a turn alone and moves the retry counter back to zero or
not at all. `Counted` says that the failures are at most what was spent on the
workers the session was handed on from (`Attempts` on each) and what the retry
counter has counted since, that the counter is within one of its two limits, and that between
two attempts the failed turn is the next thing the session runs (`Resuming`); so
a counter that starts again finds no failure left. `PlainRetries` excludes what
breaks this: a change of the model between two attempts and a turn that returns
an error start the counter again (the latter is `loop_error_retry`), a session
that waits for sub-agents runs other turns in between, and were the history
measured in every iteration, each attempt would begin a new execution. The theorem
is a bound for each worker: nothing in the code bounds the hand-offs (section 5).

`CommandsGetAnswered` keeps a ledger. `Ledger` says of each command that it is in
the queue at most once, that it has no response before it is taken from there,
and that from then on it has one response or is the shutdown in progress.
`Serves` is what nearly every step does: no response, the same shutdown, and no
end of the session that was not decided before; the others answer a command
(`Answers`), begin its shutdown (`Begins`), or conclude and answer it
(`Finishes`). `EndAnswered` says why a session that has ended owes no other
shutdown, and needs `OnlyShutdownEnds`: no turn completes the task of a
sub-agent, no state is lost, and no turn cancels a schedule, since a cron timer
left from it fails the session (`Scheduled`). Users may write while a shutdown
waits for the sub-agents, so each of the three does end a session with a shutdown
unanswered; TLC finds it in a few states without the hypothesis. It is not needed
where nothing awaits a shutdown: without sub-agents, or without such commands.

`WaitIsKept` assumes `Patience`: no sub-agents, and fewer queries, with one for
the answer, than a drain takes messages. TLC finds `WaitKept` violated without
either: with a sub-agent, whose digest may become due beside an armed wait and a
buffered prompt, and with two queries and a drain of two messages, which ends at
its limit without having interrupted the wait and lets a prompt carried along run
a turn. The invariant `Alert` says that a wait is armed only between drains and
in one, never while a question is on display, and that a drain with a wait armed
has taken nothing but queries and the answer. `Stays` says what a step does to a
wait armed or held, and `BufferWaits` that a fired one leaves the buffer only at
its head, where it is processed.

`ScheduleStaysAwake` assumes `Punctual`, which excludes what lets a schedule sleep:
turns after which nothing is armed (cancelled, failed for the last time, not
started because the state could not be loaded), and a `set_model` behind a command
that begins a shutdown, in a session with sub-agents. TLC finds `CronNeverParked`
violated without each of them; the last takes 25 steps, in which the last
sub-agent ends in the middle of a drain. The invariant `OnTime` says that whenever a
schedule is due, set or about to be set by a queued action, something will wake
the session (`Roused`): a timer that is acted upon, a question, a prompt, an action
of a turn, or an item stashed or buffered that leads to a turn. Only in a drain that
has concluded a shutdown is this not so (`Over`). It also says that the stash is
empty outside of drains (`Swept`), as an item forgotten there could be the one that
wakes, and that a parked session has no timer, buffer or prompt (`Asleep`), so that
what is left of `Roused` there is the question, which the property allows.

`KvFifo`. Popping in order is not inductive by itself. It needs that everything
stored was received after everything popped, that buckets are ordered among
themselves, that everything still to be written comes after everything stored,
and that above the bucket being written all are empty: otherwise opening the
next bucket would overwrite items or put new ones below old ones. `ArrivalOrder`
is the conjunction of these. An append starts at the highest occupied bucket and
a pop takes from the lowest, which preserves it. `QueueSteps` says what every step
does to `Pending`, all buckets read as one sequence: an append adds at its end and
a pop takes its front, because `ArrivalOrder` has the buckets above the one written
empty and a pop finds those below empty. That is the step of the refinement
`QueueImplemented`, and most of `OnlyOverflowLoses`; an overflow also needs that
what is given up was in no other place, which follows from the count
(`NothingTwice`). `LimitHolds` needs that a bucket gets no longer when its first
item is taken (`TailFits`). The lemmas on `FlattenSeq` (`FlattenUnrolls`,
`FlattenAppend`, `FlattenTail`) and on the sum in `BucketBytes` (`BytesAreSums`) are
by induction: the library's induction theorems take an operator, so `Induction`
states it of a set of naturals, from the well-foundedness of `<`.

`EventFeed`. `DeliveryInv` is `DeliveredUpToLastSeen` (nothing delivered is
beyond `lastSeenSeq`), `PagesBeyondLastSeen` (a page that was read holds only
numbers beyond it, in order) and `OnePoll`: the flag `polling` keeps a second
call out while a first one is under way. Without the last, two pages could hold
the same event.

`TurnWait`. `AnswerInv` is `WaitsTied` (while a wait is not overlapped,
everything queued, run, asked and answered beyond the responses it has seen is
about its prompt), `StatusBehind` (no status names a response not yet written)
and the property. `QuestionInv`, for answering once, adds that a question a wait
is about to answer is still pending with no answer queued (`QuestionPending`),
that an answer on its way excludes that anybody comes upon the question again
(`NoSecondAnswer`), and that the response about to be read is newer than those
seen (`ReadsNewer`). `NobodyAssumption` says that the value standing for "no
wait" is none.

`HistoryPane`. `PaneInv` adds to the soundness of the pane that the rows of
every query under way are in order (`QueriesRise`), and that an expansion still
fits the history it started from (`ExpansionFits`): this one is replaced as a
whole, so what was merged meanwhile may go but nothing is shown twice. Lemmas say
that clamping keeps order and last event (`ClampKeeps`) and that merging keeps a
history sound (`MergedSound`). `GapInv` is about what is missing: rows under way
have no gaps and continue the pane, whatever replaced it since they were asked
for (`RowsGapless`), what the feed has passed on is in the pane or was taken out
by an old answer (`FeedCovered`), and an expansion ends just before the history
it was asked for (`ExpansionGapless`).

`Handoff`. `CopyInv` has what all of its properties rest on. `Rounds`: a worker the
orchestration waits for runs the next turn, so a first turn finds nothing
answered. `OneCurrent`: at most one worker has a copy the session has not gone
on without, the worker waited for if there is one. `Ordered`: there, memory is
ahead of the disk and the disk ahead of the archive. `SavedKept`, the property,
is not inductive without the last two: a checkpoint of an older copy would
forget a saved turn. The property is about the turns not given up (`GivenUp`), and
every step of a worker is one of five kinds (`Carries`, `Archives`, `Restores`,
`Renews`, `Discards`), so that a purge has to show, before any other
invariant is used, that what it deletes is given up, is being recorded as lost
(`DeletedKnowingly`), or belongs to a worker the session has left. A purge may leave
a worker no copy for a while: `InCopies` says of each copy that there is one that it
has the turns in question. `DehydrationKeeps` has the hypothesis `~SkipsUnready` and
its own invariant `BaseKept`, that each phase of a dehydration still has what was
on disk when it began; without the hypothesis it is false, as
`checkpoint_skipped` shows. `ShutdownKeeps` is proved for a shutdown that takes the
place of all other troubles, as in the run: `UsesUp` and `NoneLapsed` say that
then the worker waited for is the only one with an activity, `OnBound` and
`PhaseOwner` that the session is where its affinity key says, and `ShutdownInv`
follows the turns owed through the steps of the shutdown: held by the worker
until uploaded, everywhere afterwards.

`CodexTurns`. `CodexInv` has, besides types, what each send is owed (`TurnInv`): a
turn under way has heard of no end (`Unheard`), a job that returned in good order
left no turn behind (`Acknowledged`), and the queue is held by whatever runs on the
app-server (`Held`), from which `OneTurnAtATime` follows with `InTurn`, that one
job is out of the queue. `Maps` and `Stopping` are about the maps of the client,
and about its end, after which what still waits is aborted. The only assumption
beyond the bounds is `SomeSession`: there is a session.

`SessionTree`. `TreeInv` is about records (`Healthy`: a record is sound, and what a
parent takes for ended is over), about numbers (`Numbered`: parents come before
children and rows are written in that order, so that no session is its own
descendant), about deletions and about who looks on. `Covered` is the heart of
`GoneTogether`: below a deleted row nothing is left but what is out of reach, was
missed by a call that failed silently, or is on the list of a deletion under way; `Enumerated` says that such a list has everything
the deletion does not reach otherwise. `SubAgentsFirst` rests on `Awaiting`, that a
shutdown awaits every sub-agent that has not ended. `Offspring` is a least fixed
point stated without recursion; `OffspringLeast` gives the induction over it that
is needed. Proving this corrected the model: `GoneWithOffspring` used to claim
that a second deletion takes along what a first one has yet to delete. It needs
two deletions at once over three generations, which the bounds of the run
excluded; section 5 has the code's behaviour, and `Doomed` and `Missed` state it.

Only model-checked: `ServicesTypeOK` of the composition `MCServices`, a conjunction
of type invariants each of which is a theorem of its own module, and liveness under
fairness (`RowsSettle` and the other properties written with `~>`, `<>` or `[]<>`). Out
of the prover's reach are liveness and `ENABLED`, and modules with `RECURSIVE`
operators, of which there are none here.

## 5. Observations on the code

The properties hold in the instances of section 3, which leave out the
combinations of section 6; some except cases by name (`spared`, `stale`,
`excused`, `switched`, `overlapped`, `overtaken`, `unread`, `hidden`, `misled`,
`outpaced`), which are listed here too.

Three observations contradict a document and are not kept as runs. The first
two are read off the code directly; in the third the run would only restate that
a counter starts again.

* A full buffer drops the rest of the stash (`orchestration.ts:1279`), and what
  was dropped is in no queue any more. The trace says the items "may rely on
  carry-forward", `docs/proposals-impl/orchestration-flat-event-loop.md:285` that
  they "will carry forward normally" and 259 that prompts are never lost. An append
  starts at the highest bucket in use (1267), so it overflows there even when
  the lower buckets have been emptied. `LostOnlyByOverflow` names the exception.
* `MAX_SUB_AGENTS` is 20 in the code and counts running ones only; `docs/guide.md:324`
  and `docs/architecture.md:1552` say 8.
* After `COPILOT_CONNECTION_CLOSED_MAX_RETRIES` lost connections the session is
  handed to another worker with the same prompt and `retryCount: 0`
  (`orchestration.ts:1833-1850`), where it may lose as many again, for ever;
  `docs/system-reference.md:293` says "Retry up to 3x". `FailuresBounded` is a
  bound for each worker, and `failures.handoffs` counts how often it was renewed.

The others were met while modelling, and no document, comment or test was found
that settles them.

Session loop

* A wait interrupted in its last half second is saved with zero seconds and
  never resumed (2010).
* When the digest becomes due with a prompt already buffered, an armed wait can
  be overwritten by the idle timer set after the prompt's turn (2116). The same
  happens when a drain reaches its limit with queries and an answer only, which
  do not interrupt the wait, while a prompt to retry is carried along (1479).
* A cron timer already buffered when the schedule is cancelled dereferences the
  missing schedule (2852).
* An answer stashed in the same drain in which the grace timer is still raced
  does not cancel that timer (1571).
* A sub-agent session that finishes its turn during its graceful shutdown ends
  without answering the command (1985).
* A cancelled turn (2242), exhausted retries and a failed hydration return
  without arming the recurring schedule: it is carried on, but no timer fires
  before somebody writes. `CronNeverParked` is checked and proved without these
  outcomes.
* A `set_model` drained behind the update that concluded a shutdown continues the
  session as new (the run `loop_shutdown_undone`). The shutdown has cleared the
  timer but not the schedule, which is then carried on without anything that
  wakes it, unless a prompt is left.
* A shutdown command handled after another one has concluded in the same drain
  (1563) begins a second cascade, publishes `waiting` and is not answered;
  `CommandsAnswered` names this exception.
* A timer item buffered before a shutdown command runs its turn during the
  shutdown and may arm another timer over the poll; the sessions that
  `loop_agents` shuts down therefore have turns that end plainly only.

Hand-off between workers

* A copy on a worker that crashed or lost its lock is preferred to a newer
  archive when the session comes back: `needsHydration` is false when a
  directory exists, and `hydrate` does not evict a warm session
  (`session-manager.ts:1220`).
* `getOrCreate` of a first turn whose lock was lost may delete the archive the
  next worker has made, and its checkpoint may overwrite a newer archive.
* When the model of a warm session has changed to one of another runtime,
  `getOrCreate` deletes the directory and the archive and creates a fresh session
  (`session-manager.ts:634-658`, `909`). Every earlier turn is forgotten, and no
  lossy hand-off is recorded: `SavedTurnsRemembered`, `ShutdownKeepsTurns` and
  `ArchiveDeletedKnowingly` except it (`switched`). Without a warm session the other
  runtime finds nothing it can resume, which is reported (`NothingToResume`).
* A corrupt transcript deletes the stored session before the loss is recorded
  (`session-proxy.ts:1292`, `1296`). A worker that crashes in between leaves no
  archive and no record; the next one then finds no state and reports that. The record
  of a lossy hand-off is best effort (183, 187).
* When `exists` fails twice, a good archive counts as missing: the turn is
  replayed on a fresh session.
* A dehydration run again after a crash behind its success reports a lossy
  hand-off; `lastDestroyError` is not cleared by a retry that succeeds.
* An exception of `dehydrateSession` is not caught by the orchestration. The
  `needsHydration` forced after a lossy hand-off is harmless: hydrating without
  an archive answers `notFound`.

* A graceful shutdown dehydrates while the worker still takes activities
  (`worker.ts:499`). A dehydration or checkpoint of the session may pass between
  reading and uploading, and the late upload puts the older copy over the newer
  archive; a turn completed after the directory was read is in no archive. With
  other faults besides, a copy hydrated from an older archive during the shutdown
  is stored in place of the session it had in memory. Everything that fails on
  the way is ignored, so a session that could not be stored is left on the disk
  of the stopped worker.

Clients

* An answer completed while a wait timer or a schedule is active is published
  with status `waiting`, and `sendAndWait` does not return it.
* After a wait that timed out the next `sendAndWait` may return the late answer
  to the earlier prompt; two waits at once both answer a question
  (`client.ts:917`). A response read with an older status is seen but not taken
  (885). A read of the response that fails returns null (646-651), and the number in
  the status is then marked as seen (887-890): the answer is never taken and
  `sendAndWait` times out (`unread`).
* `recordEvents` is not awaited (`session-proxy.ts:1136`, `1158`), so an event
  may be committed behind a later one that was already polled: it is not
  delivered. A notification during a poll is dropped (`client.ts:1195`; the
  timer makes up for it). The first page brings the latest rows only. A handler
  by type that throws hides the event from handlers of all events
  (`client.ts:1204`). A page that arrives after the last handler left is lost.
* An expansion of the history, or a load answered late, replaces the history and
  sets `lastSeq` back; the next live event then leaves a gap
  (`controller.js:3532`, `1051`) until the history is loaded again. A history
  loaded in full that grows beyond the window drops its oldest events with
  `hasOlderEvents` false. A `loadSession` answered late attaches its session
  although another is active, until the next refresh.

Codex runtime

* `turn/completed` is not matched with the turn it is about
  (`codex-runtime.ts:1457`), so the conclusion of an interrupted turn may
  conclude the next one.
* A queued turn marked terminal by the end of the transport, with its idle event
  suppressed, leaves `runTurn` waiting. The attach test passes while a new
  transport is still connecting.
* When the app-server dies in a turn that has already spoken, `runTurn` returns
  what was said as completed.

Trees of sessions

* `.catch(() => null)` (`management-client.ts:405`) makes a failing query look
  like the deletion it waits for.
* Deletions ignore failures of the calls they make last: `cancelInstance`
  (`client.ts:368-370`) and `deleteInstance` (`management-client.ts:439-441`,
  `sweeper-tools.ts:210-212`, `224-226`) leave the row deleted and the instance
  running, and the sweeper goes on past a descendant whose row it could not delete
  (203-214) and answers `ok`. `GoneWithOffspring` excludes these (`spared`).
* A forced deletion that fails after it has written its row leaves a row `failed`
  of a session that runs, which nobody corrects (`management-client.ts:423`);
  `RowsSettle` excludes it (`Unsettled`).
* The query of descendants stops at deleted rows: descendants of a sub-agent
  that deleted itself, or whose row was deleted after it ended, are not reached,
  and one spawned between enumeration and deletion goes on with its row deleted.
  For the same reason a deletion that begins while another one is under way misses
  what is below rows the first has deleted, and reports success before the first
  has come to it; if that one then fails, the session stays.
  A sub-agent that completes its task ends although its own sub-agents run.
* The shutdown deadlines of parent and child are equal, so the parent's expires
  first; `failPendingShutdown` does not notify the parent.
* A completed turn of a sub-agent on a schedule is reported like its end and may
  conclude the shutdown of its parent.
* A row overwritten by the turn of a cancelled session stays wrong in
  `listSessions` until `getSession` looks. A completed root session accepts
  messages: its row says running and the message is lost.
* Pruning soft-deletes any row whose status query throws
  (`sweeper-tools.ts:304-311`).
* A turn that still runs may store facts of a session after they were deleted
  with it (`client.ts:359`); not modelled.

## 6. Disagreements shown by runs

| Run | Property | What happens |
|---|---|---|
| `loop_error_retry` | `FailuresBounded` | a turn that *returns* an error is retried for ever; `retryCount` is reset before it is counted |
| `loop_shutdown_prompt` | `ShutdownEnds` | a user message during a graceful shutdown stops its polling |
| `loop_digest_stuck` | `DigestDelivered` | a digest due behind a buffered idle timer is stranded |
| `loop_agent_wait_stuck` | `AgentWaitEnds` | awaiting a sub-agent that left the list never ends |
| `loop_shutdown_undone` | `TerminalIsFinal` | a command in the drain that concluded a shutdown continues the completed session as new |
| `loop_prompt_dropped` | `PromptsAccounted` | a retry replaces a prompt held for an agent wait |
| `checkpoint_skipped` | `DehydrateKeepsDisk` | a checkpoint the blob store skipped is taken for stored, and the directory removed |
| `codex_queue_held` | `QueueFreedByClose` | a session closed while its turn re-attaches still starts the turn, and holds the turn queue of all sessions |

Each quotes the document or test it disagrees with in `findings` of
`PROJECT.json`. The passing runs that share these properties leave the
triggering outcome out: `loop_retry` has failures of the activity but no turn
that returns an error, `loop_agents` no messages of users, `services` a store
that refuses unready directories. So, for example, `ShutdownEnds` is shown for
sessions nobody writes to while they shut down. `TurnsReturn` excludes the turns
`codex_queue_held` shows (`Derailed`).

## 7. Not modelled, and what is next

Not modelled:

* *Frozen orchestration versions* (`orchestration_1_0_26.ts` and later, over
  40,000 lines, the largest part of the source): copies of earlier
  `orchestration.ts`, kept so that running sessions replay until their next
  continueAsNew.
* *Panes, selectors, themes, key bindings, portal and terminal* (most of the
  user interfaces): functions from the controller's state to what is drawn.
* *Prompt layering, guardrails, plug-in, skill, agent and MCP loaders*: texts
  composed and files read once; no state that changes afterwards.
* *Worker start-up*, *artifacts, inspection and metrics*, *MCP server*,
  *evaluation harness*: wiring, read-only reports, stateless translation and
  test tooling.
* *Facts*: single statements on one table; what can go wrong is the order of
  one deletion and a late write, noted in section 5.

Within modelled components the notes of `components` in `PROJECT.json` name what
is left out.

Next:

1. Shutdowns with users that write during a shutdown, once the code decides
   what a message then means; a sub-agent on a schedule below a shutdown.
2. The order of the actions a turn queues (`managed-session.ts`), and
   shutdowns of a worker together with crashes.
