# Vibe Tavern: a TLA+ verification project

Vibe Tavern is a local AI role-play client: one Bun process serves a React web
client over HTTP and SSE, keeps everything in one SQLite file and talks to model
providers. This directory models the parts of that process in which work
outlives the request that began it, checks them with TLC on small instances and
proves the most important of their properties for all instances with TLAPS.

Paths below are relative to `src/`; `api/` stands for `services/api/src/`.

## 1. The system

### How the process runs

JavaScript runs one continuation at a time. The database driver is synchronous
(`bun-sqlite`), so `await store.x()` suspends for a microtask only; what really
waits are model providers, files, timers and clients. Two facts follow, and every
model here is built on them: a *step* is the code between two awaits, and steps
that follow each other through microtasks are not interrupted by an event from
outside. Where a property needs the second fact the model has it as a guard
(`Quiet`); where it does not, the model interleaves freely. The updater is
different: it works on files, with a real wait at every operation, and in more
than one process.

### Inventory

| Component | State | Operations | What is hard | What makes it correct |
|---|---|---|---|---|
| Turn registry, `api/domain/agent/agent-run-registry.ts` | per key the last run with its event log, abort signal, waiters; lifecycle listeners | `start`, `stop`, `subscribe`, `active`, the loop that consumes a turn | turns outlive requests; readers of any speed replay a log and then follow it live; stops are cooperative | one turn per key; no lost wake-up; exact replay; the end comes last and tells the truth |
| Generation queue, `api/domain/chat/chat-generation-queue.ts` with `packages/db/src/stores/chat-generation-job-store.ts` and the run and queue adapters | durable job rows; per chat a lane, a dirty flag, stop requests, the executing job | `enqueue`, `cancel`, `clear`, the lane, the job's turn, `activate`, `deactivate` | cancel races claim; ordinary replies take the slot between claim and start; crashes; deletion of the message underneath | rows move as promised; at most one answer per job; a cancel holds and hits its own job only; every job settles |
| Background task locks, `api/shared/background-task-locks.ts` | held keys, dirty keys | `runExclusive`, `runExclusiveTrailing` | triggers while the task runs | no overlap; on trailing keys no event is missed |
| Quota poller, `api/domain/quota/quota-service.ts`, `quota-transitions.ts`, `packages/db/src/stores/quota-store.ts` | per profile a timer, polls that are out; stored settings, snapshot, transition memory, ledger of sent notices | `start`, `stop`, poll, resync after edits | edits, deletion and shutdown while a poll is out; overlapping polls; several commits per poll; hysteresis | never forgets a profile; one warning per situation; shows the profile's own account in the end |
| Experiences, `api/domain/interactive/` with `packages/db/src/stores/experience-store.ts` | session rows with a revision and the slot of their branch, steps, effects (pending, running, terminal), attachments; the scheduler's in-flight set | start, finish, restart, actions with an expected revision, script turns, undo, effects of models and timers, retry, report queue | timers sleep and models think across actions, undos and restarts; submissions come late or twice; claims before sleeps; deaths between two commits | an answer stays true; a late tick never changes a game; a stored reply is not lost to a game that has moved on; an effect is not run again unasked |
| Story plan and goal tracker, `api/domain/director/story-plan-sync.ts` with `api/domain/insights/objective-service.ts` | a plan per branch, the chat's goals with the branch they were projected from, follow-back chains | save, insert, reconcile on branch switch, follow back, automatic check, forks and deletions of branches | two copies of one truth, both edited, by pages that may be old and checks that take long | the copies agree when nothing is under way; the tracker is the active branch's; a follow-back loses nothing |
| Scene tracker, `api/domain/insights/tracker-service.ts` | a record per variant, jobs and controllers per variant, the row and the loop of a history run | generate, edit, cancel; start, poll, cancel, retry a run | an answer comes long after the text it was asked about was read; several generations of one variant; a loop that dies with the process and is taken up again | nothing stale is written; who waits joins the right job; the run's row tells the truth; a cancelled run stops; every run ends |
| Summaries, `api/domain/chat/chat-summary-service.ts` | summary rows with ranges | manual (in a registry) and automatic (under a lock) generation | the range is read long before the row is written | cancelled means not saved; ranges do not overlap |
| Messages, variants, branches, `packages/db/src/stores/message-store.ts`, `chat-store.ts` | positions, variants with a selected index, branches, active branch | insert, edit, delete, swipe, fork, switch | mutations during a generation | positions stay dense; the selected variant exists |
| Dice, co-author reviews, agent threads, copilot | rows bound to messages; proposals against documents | bind, release, apply, compact | compensation after partial failure; documents that have moved | a binding and its message live and die together |
| Providers, speech, images | none that matters here | vendor protocols | slow, failing, cut off | an environment of the others |
| Prompt pipeline, lore activation, macros, regex, import/export | none | pure functions | text | out of scope or later operators |
| Self-update, `api/server/updater.ts`, `standalone-server.ts`, `api/domain/update/update-orchestrator.ts` | the install directory, backup directories, a marker file; the flags of the swap under way | update, rollback, boot, health check, sweep | any file operation fails, any process dies between two of them, the server sweeps while a command works | what a failure is called is true; no replaced entry is lost; there is a way back until the new build has answered |
| Boot passes, migrations | files, rows | convert | a crash in the middle | can be resumed |
| Web client, mobile shell, installer | views and caches | | | not modelled |

`PROJECT.json` lists each component with its files and status, and under
"hazards" the places where this code can go wrong in ways a test hardly reaches.

### How they interact

* The *registry* executes every turn: replies, co-author and side-chat turns,
  copilot turns, manual summaries, the queue's jobs. A chat is one key of it.
* The *queue* takes its chat's slot with `start`, as ordinary generations do, and
  listens to the registry's lifecycle notices to learn that the slot is free.
* The *locks* serialise background model calls that domain events trigger.
* *Experiences* keep everything in rows: an action writes a step and the effects it
  asks for in one transaction; the scheduler finds timers by polling the rows, a
  page asks for the model effects it sees; results come back as transitions.
* The *quota poller* learns of profile edits from the event bus, synchronously
  inside the edit, and publishes its notices there.
* The *story plan* and the *goal tracker* call each other: a saved plan is projected
  into the tracker, what is committed to the tracker follows back into the plan.
* A *scene* record is generated when a message arrives, by hand, or by the loop of a
  history run, all through one lane per variant.
* The *updater* runs in the server or in a process of its own; the server it replaces
  learns of it by the marker, at the next start.
* At start the queue and the poller are activated, and effects that were running
  are reconciled, before requests are accepted;
  at shutdown the HTTP server stops before the features are torn down.

## 2. Modules

| Module | Models | Builds on |
|---|---|---|
| `RunSlot` | abstract: what a registry promises about one key | |
| `AgentRunRegistry` | the turn registry | implements `RunSlot` per key |
| `JobLedger` | abstract: what the queue promises about its rows | |
| `GenerationQueue` | the queue of one chat, its slot, its restarts | implements `JobLedger`; uses the slot as `RunSlot` describes it |
| `BackgroundTaskLocks` | the locks, with the proofs about them | |
| `QuotaTransitions` | the pure decision for one window | |
| `QuotaPoller` | the poller of one profile, its edits and restarts | `QuotaTransitions` |
| `EffectLedger` | abstract: what the effects of a branch promise to readers of rows and journals | |
| `ExperienceSession` | the sessions of one branch, their journals and effects | implements `EffectLedger` |
| `StoryPlan` | plan and goal tracker of one chat, its branches | |
| `SceneTracker` | scene records of one chat and its newest history run | |
| `SelfUpdate` | one install, its updates, rollbacks and starts | |
| `MCQuotaPoller`, `MCExperienceSession` | values of constants for TLC | |
| `AgentRunRegistryProofs` | proofs about the registry | |
| `GenerationQueueProofs`, `QuotaPollerProofs`, `ExperienceSessionProofs`, `StoryPlanProofs`, `SceneTrackerProofs`, `SelfUpdateProofs` | proofs about the module each is named after | |

Definitions ending in `_Something` and commented "Mutant" are single plausible
bugs, kept beside the definition they change; nothing uses them. They are there
to show that each property can fail: replacing the definition by its mutant makes
TLC report the property named in `PROJECT.json`.

### AgentRunRegistry

`current` is the map `runs`, `run[r]` a `StoredRun`, `sub[s]` a subscription with
the place where its generator is suspended (`at`) and, as history, what it has
delivered (`got`). `Start` is the synchronous part of `start()` including the
"started" notice; `StartThrows` the case in which the factory throws before its
first await, so that the run is over when `start()` returns. `Emit` and `End` are
the loop of `consume()` and its `finally`. `Deliver`, `Finish`, `Park`, `Leave`
are the four ways through the subscriber's loop up to its next suspension;
`Detach` is the client's signal, `Return` is `return()` on a suspended generator.
What a turn emits is external: any of the kinds that `observeOutcome()` tells
apart, in any order.

### GenerationQueue

The rows of one chat (`status`, `target`), the lane with the point at which its
`pump()` is suspended, `dirty`, `stopRequests`, `executing`, the chat's slot and
the job's generator (`turn`). `kicks` and `cancel` are calls of `enqueue()` and
`cancel()` between their awaits. Every action is the code between two awaits;
`Crash` loses everything that is not a row. An ordinary generation takes and
frees the slot (`OrdinaryStart`, `OrdinaryEnd`). `StartRefused` is
`AgentRunActiveError`, `StartFails` any other rejection of `start()`.

The guard `Quiet` is the event loop's discipline: what comes from outside is served
when no microtask is left. It is true to this program as long as the store is
synchronous, and the properties about cancellation rest on it: were every await a
real suspension, a cancel that read "running" could act after the job has ended and
meet its successor.

A read of the variants that throws inside the turn is part of the model (`TurnBegins`,
`TurnSettles`), and the job it hits is remembered in `misread`: the code leaves its
row running (section 3). The refinement of `JobLedger` maps the rows through `Marked`,
which writes down the failure the code forgets, and so says that nothing else is
wrong with them.

### BackgroundTaskLocks

`active` and `dirty` are the sets of the class; `task` says whether the task's
promise is pending, settled with its continuation queued, or absent. What a task
looks at is abstracted to the number of the latest event of its key.

### QuotaTransitions and QuotaPoller

`QuotaTransitions!Evaluate` is `evaluateWindowedQuotaTransitions()` for one window,
in the three cases of the code: nothing comparable remembered (`Baseline`), the
window has rolled over (`AfterReset`), anything else (`Watch`). `QuotaPoller` is one
profile: `timer` says that a timer is armed, `polls` are the polls that have read
key, adapter and configuration and wait for the vendor, in the order in which
they began; `resync` and `outbox` are the continuations of `resyncProfile()` and
`applyReading()` between their commits, where the process may die. `TwoStep`
adapters ask two questions. With `StoreMayFail` any store call may reject: outside
the try `TickFails`, `PollFailsUnrecorded`, `ResyncFails`, and within it
`PublishFails`, where the reading and the latch are stored already and the notices
that are left are dropped. `due` is history: the warning that the present latch
stands for, forgotten when that warning is caught between its two commits.

Left out: how long a timer waits (a poll may come at any time), the version of an
adapter (constant while one version of the program runs), several windows per
profile, readings that omit a window.

### ExperienceSession

`sessions` are the rows of one branch with their steps; the revision of a session is
the length of its journal, where a quiet end, which raises the revision and writes
no row, stands as a step of kind "none". `effects` are the effect rows, with two
pieces of history: `claims`, how often the effect was run, and `fate`, what became
of its result (in the journal, refused, too late, cut off). `runs` are the sleeps and provider calls of the process, `inFlight`
the scheduler's set, `sent` the submissions of pages: nothing is ever taken out of
it, so each may arrive late, twice or never. `answers` remembers what was answered.

The rules of a game are its author's script, and the model keeps of them what the
host looks at: whether the game goes on, whether a script seat is due, which
effects a transition asks for (`Transition`). `reduce` may refuse anything.

A handler with several commits is a chain of steps tied together by `handler`: the
script turns after an action (`ScriptMoves`, `AdvanceEnds`), a restart
(`RestartFinishes`, `RestartCancels`, `RestartCreates`), an undo (`Undo`,
`UndoCancels`) and the delivery of a result (`RunSucceeds`, then `Deliver`, or
`Refused` when the rules throw, or, for a game that has moved on, `TooLate` for a
tick and `TakeUp`, the second attempt, for a reply). A third attempt needs a game that
moves on between the reading and the writing of one attempt, which only microtasks
separate. Between two commits of one handler only microtasks pass, so no
other request is served there, but the process may die (`Crash`). The sleep of a
timer and the call of a model are real waits: between claim and result anything
may happen.

The refinement of `EffectLedger` reads a row's status and session, and of the journals
the steps that hold a result (`Landed`); the fate of a result that came too late, or
was refused, is not in the ledger, whose `Land` may be missing after a success.

Left out: the reports (attachments) that sessions leave in the chat, realtime
rounds, the context a model is given, the bound of 200 script turns, and which
state an undo restores.

### StoryPlan

`plan` is the row of each branch, `goals` the short-term goals of the tracker with
`source`, the branch they were projected from. `job` is a request between its save
and its projection, `tail` the follow-backs that commits have chained. `draft` is an
open editor with the plan it was opened on, so that a save may be old; `check` an
automatic check between building its context, asking, and its verdict. `Projected`,
`Precedence`, `Collapsed`, `Copied` and `Resolved` are the pure functions of the
synchronisation. Tasks are numbers and their order is the plan's. `unsynced` is
history: what a fault, or the copy of a side chat, which writes a plan past the
synchronisation, has left owing.

Left out: titles and constraints, which the synchronisation carries along; the route
mode of the tracker and the switch that turns it on; the check on demand, which is
the automatic one without its counter; reordering of tasks.

### SceneTracker

`content` is the text of each variant as a version, `record` what was written for it,
with the version it was asked about. `gens` are generations in their three waits:
for the files of the prompt, for their turn in the variant's `lane`, for the
provider. `jobs` and `controllers` are `targetJobs` and `targetControllers`, which the
generations of a variant share. `run` is the row of the newest history run, `loop` its
loop in memory. `Poll` is the status request of a page, which takes up a run whose
loop is gone; `StartBackfill`, `CancelBackfill`, `RetryBackfill` are the requests.
`LoopBreaks` is a store call that throws in the loop, where the call that would mark
the run failed may throw as well.

Left out: what a record says, previews, the derived current scene, which is written
and never read, and older runs.

### SelfUpdate

The disk is `install`, the backups (`dirs`, `saved`) and the `marker`; a tree says for
each top-level entry which swap brought the copy that lies there. `at` is where the
command stands, `todo` and `moving` are `performSwap()`'s plan and the entry between
its two renames, `undo` is `completed` with `orphanedBackup`, `modified` and
`restored` are its flags and with them what the listener was told last. Every file
operation of a swap is a step: `BackUp` and `Place` are the two renames, `Restore` and
`RestoreFails` the undoing of an entry, whichever of its two operations fails. `Sweep`
leaves behind what cannot be removed: a locked executable, or whole directories when
the process dies on the way. A rollback is a swap whose `source` is a backup. A
release that cannot be had is `FetchFails`; a staging directory that cannot be made is
`StagingFails`, since it is outside the `try` that tells what is soft.

A start of the server is `Boot`, its look for the marker, and `BootSweeps`, which
follows if it found none. The sweep goes from directory to directory (`SweepOn`),
and a command may do anything between the look and the sweep and in the midst of it.
The ten probes and the confirmation, with the same kind of sweep, are `ProbeAnswers`,
`ProbesFail`, `Finalize`. Only the sweep that opens a command is one step, because
nothing but other removals can run beside it.

Left out: two commands at once; how a release is found, downloaded and unpacked (it
succeeds or fails); a second server started beside the first; the npm channel; the snapshot of the database; what a failed
`rm` leaves of a directory's inside, and a staging directory that it leaves behind.

## 3. What is checked

Deadlock is not checked: every instance is bounded, and a bounded instance stops
when its bounds are used up.

| Run | Checks | Bounds | Shows |
|---|---|---|---|
| `registry` | `NoticesTellTheTruth`, `ExactReplay`, `NoLostWakeup`, `EndAfterWholeLog`, `ImplementsSlot`, `SubscriberSettles` | 1 key, 2 runs, 1 subscriber, 2 events of the 3 kinds that decide the outcome | readers of any speed and any cursor across two turns of a key; any two decisive events in either order, with stops and throws, and their replay; refinement of `RunSlot`; nobody hangs |
| `queue` | `RunningHasExecutor`, `CancelHolds`, `StopsOnlyItsJob`, `ImplementsLedger`, `CancelBeatsGeneration`, `EveryJobSettles` | 3 jobs of a message, 1 other generation, 1 restart, 1 job whose reads fail | rows and executors, cancellation, refinement of `JobLedger`, liveness |
| `locks` | `NothingForgotten`, `NoOverlap`, `EventuallySeen` | a trailing and an exclusive key, 4 events each | the trailing edge |
| `quota_poll` | `KeepsPolling`, `DeletedStaysQuiet`, `EventuallyCurrent` | 2 accounts, 3 kinds of provider, 2 polls out, 2 edits, a crash, a shutdown | the schedule, and what is shown in the end |
| `quota_notices` | `NoNagging`, `LatchedMeansTold` | 1 account, hysteresis 2 so that there is a band between warning and re-arming, readings around the threshold, 2 boundaries, 2 polls out, 4 moments (an answer that is overtaken twice), 1 edit, 1 crash, a store that may reject any call | notices; latch and ledger agree |
| `experience_play` | `AnswersAreTrue`, `NoSilentRerun`, `RunningIsRun`, `TicksHitTheirMoment`, `ResultsAreAccountedFor`, `ImplementsLedger`, `EffectsSettle` | 2 sessions, 3 revisions of both together, 2 effects (a timer, or the two replies of a group), 1 request in any number of copies, 1 retry, 1 crash | the life of sessions and effects; refinement of `EffectLedger` |
| `story_sync` | `Agree`, `FollowsActive`, `PlanReachesTracker`, `FollowBackIsNarrow` | 2 branches, 2 tasks, 1 goal of the tracker's own, 4 acts, 1 fault | the two copies of the statuses |
| `scene` | `Accounts`, `Joinable`, `CommitsAreFresh`, `StopsWhenTold`, `EveryRunEnds` | 2 variants, 2 generations besides the run's, 2 schemas, 3 acts, 1 fault | records, jobs and runs |
| `update` | `VerdictIsTrue`, `NothingIsLost`, `WayBackIsGuarded`, `RollbackIsWhole` | 2 entries, 3 commands and swaps, 1 death; any number of failing file operations, starts and probes | verdicts, backups and the way back |

A module whose type invariant is proved (section 4) is run without it.

Two of everything suffices for the hazards listed: they are races between a
holder and one contender, a reader and one writer, an old poll and a new one.
Three jobs are there because a cancelled job, the one running and the one waiting
are three; two edits because changing the account and changing it back are two.
Three revisions are an action that asks for something, something that overtakes
its result, and the result; one request is enough because a request is only ever
compared with itself, and its copies are unlimited. Four acts on a plan are opening an
editor, something that overtakes it, the save, and a branch operation; two tasks are
the one that is active and the one that becomes so. Two generations besides the
run's, because a queue of a variant needs one that writes, one that waits and one
that comes while they do. Two entries of an install are the one that has been
exchanged when the other fails; three commands are an update, a second attempt or a
rollback, and what is done about its failure.
The registry's keys share nothing but the counter of run ids, so one key with two
successive turns says what several would; the proofs of section 4 cover the rest.

Runs that are expected to fail show a disagreement between the code and a
document or comment of the repository (details in `PROJECT.json`, "findings"):

| Run | Property | What happens |
|---|---|---|
| `experience_turns` | `ScriptSeatsAreAsked` | a tick or a reply gives the turn to a script seat, and the seat is not asked |
| `story_reverts` | `ChecksAreKept` | an editor opened before a check and saved after it takes the check back |
| `scene_stuck` | `JobIsActive` | the job of a generation that never began stays registered, and the variant is not generated again |

More disagreements showed up in the modelling and are not among the runs. Queue:

* A store read that throws outside the job's `try` (`chat-generation-queue.ts:136`
  and `163`) leaves the row "running" until the next restart, though
  `docs/architecture/backend.md:43` says "failure marks it failed and advances"; the
  adapter turns the error into an event before the lane sees it.

Quota:

* A store call before the `try` (l. 216-236), or the recording of a failure (l. 255),
  that rejects is logged by the `catch` of `quota-service.ts:182`, and no poll is
  scheduled until the profile is edited or the server restarted. The comment of
  `pollProfile` (l. 209-212) says that every failure path reschedules, "because a
  poller that dies on a bad response stops being a poller". `StoreMayFail` turns such
  rejections on; `KeepsPolling` is checked and proved without them.
* After a change of the API key a poll that was out stores the old account's
  reading, which stays until the next poll (`EventuallyCurrent` says that it does
  not stay longer). Related: the guard against late answers (`quota-service.ts:319`)
  compares the times of the answers, taken at l. 283, so of two overlapping polls
  the older may answer last and win, though l. 318 says "A response that arrived out
  of order must not rewrite newer memory."
* The id of a warning does not contain the threshold (`quota-transitions.ts:66`):
  a warning that a user asks for by raising the threshold may be swallowed by the
  ledger, although l. 107-109 drop the latch for its sake.
* The second request of a poll goes out after `stop()`, although its comment says
  "After this the service makes no further requests." (`quota-service.ts:112`).
* The latch is committed before the notice (l. 330 and 339). If the process dies between
  the two, or the store rejects the second (the call is within the `try`, and the `catch`
  of l. 252 records a failure and leaves the latch), the warning is never given, though
  `quota-transitions.ts:6-8` says that a low window "must produce exactly one warning".
  Both are part of `quota_notices`. `LatchedMeansTold` excuses the very warning that was
  caught there, and is about every other.
* A window without a boundary is known by its latch alone. If the answer to a poll of
  before an edit of the threshold replaced the memory after later polls had been
  answered, the count of recoveries would start anew and a warning could be repeated
  under a fresh id. It takes a request that stays out for several periods, while
  adapters give up after 5 to 10 seconds (`requestTimeoutMs`) and polls are at least
  60 seconds apart (`quota-service.ts:55`). The model leaves out both times, so
  `NoNagging` excepts the case by name (`Unlatched`).

Experiences:

* A reply that arrives, or an undo that is asked for, after a match was ended makes
  it active again without the slot of its branch: a transition writes the status the
  rules return (`experience-store.ts:609`). The model shows such sessions.
* The reply of a step that was undone is put to the restored state on its second
  attempt; the comment at `experience-replay-service.ts:190-192` relies on a
  comparison of revisions that the second attempt takes anew.
* A process that dies between the storing of a result and its feed-back
  (`experience-timer-effect-service.ts:147` and `165`) leaves it undelivered for
  good; `ResultsAreAccountedFor` excepts this case by name (`fate` "cut").
* `experience-model-effect-service.ts:26-30` and `237-239` say that a session which has
  advanced rejects the feed-back of a reply, so that it stays succeeded but undelivered.
  The code they call says and does the contrary: `applyEffectResult`
  (`experience-service.ts:1105-1124`, the loop of l. 1134-1177) puts the reply to the rules
  again on the state there is, so that no reply stays undelivered for this reason.
  `ResultsAreAccountedFor` follows the code that runs.
* Undo looks up its checkpoint by revision in a list counted by replayed actions
  (`experience-replay-service.ts:155`); after a step that is not an action the two
  differ. States are not modelled.

Story plan:

* A follow-back needs the plan to be saved through the synchronisation. The copy of
  a side chat with its plan (`branch-sidechat-fork.ts:436`) and the page that asks for
  it after a fork (`chat-actions.ts:403-411`) write the plan past it, and the
  reconcile of a switch skips a branch whose tracker is already its own
  (`story-plan-sync.ts:312-321`): the copied plan stays out of the tracker until
  the next save. `PlanReachesTracker` and `FollowsActive` except it by name.
* The state that a tracker template writes has no projection source
  (`packages/domain/src/tracker-template.ts:143-161`), though `story-plan-sync.ts:44-45`
  says "the projection source field survives it, so follow-back keeps targeting the
  right branch". What is then done in the tracker follows back to no plan.
* An automatic check builds its context for the branch of the message that caused it
  ("Every read and context build targets it", `objective-service.ts:650-651`), and then
  judges the goal that the chat has selected by then (l. 299), of whichever branch.

Scenes:

* A generation in flight overwrites an edit made by hand meanwhile: the check before
  the write compares the message's text (`tracker-service.ts:408`), not the record.
* A change of schema or configuration during a generation is said to discard its
  answer (l. 23-25); the code writes it, and says why (l. 408-409).
* The context of a prompt is built before the generation waits for its turn, the
  baseline is read after it (l. 693).
* `cancelTarget` reaches the controller that was registered last; a generation that
  ends removes a later one's controller (l. 342).
* Cancelling the target that a run is generating ends the loop, and the run is called
  completed with items left (`hit` in `Accounts`). A cancel is written on a run that
  is over, though called a no-op there (l. 914-915). After a crash a resumed run clears the
  flag of a cancel.

Self-update:

* "Fatal" is said although everything was restored, when the swap had brought an entry
  that was new: undoing it looks for a backup that never existed
  (`updater.ts:825`). `services/api/test/updater-failure-classification.test.ts:4-7` says
  that it "must mean exactly one thing". `VerdictIsTrue` excepts the case by name (`added`).
* "Fatal" is said, too, when the staging directory cannot be made (l. 887): the call is
  before the `try` of l. 894, so its raw error is taken for a corrupted install by the
  command line (l. 471-480) and by the server (`update-orchestrator.ts:336-343`), which call
  soft only what is a `SoftUpdateError`, with nothing touched. `VerdictIsTrue` excepts it (`unstaged`).
* A start that looks for the marker (`standalone-server.ts:89`) just before a command of
  the command line completes an update sweeps (l. 93) just after it, and takes that
  update's backup, which l. 84-88 and `updater.ts:131-136` say is kept until the new build
  has answered. `guarded` does not hold for such an update, nor for one that is completed
  while a probe or a sweep for an earlier one goes on.
* Every update begins by sweeping all backups, whatever the marker says
  (`updater.ts:422`, `update-orchestrator.ts:266`), also those that l. 129-132 say are
  kept until the new build has answered. So a retry after a failed first start
  discards the way back.
* The newest backup is not always "the exact tree the last successful swap replaced"
  (l. 485-488): a failed attempt leaves its own, empty, and a rollback from it says
  "Previous version restored." and restores nothing. `RollbackIsWhole` is therefore
  about the first command after an update.
* A rollback that fails and is undone deletes the entries of the previous version it
  had already moved in (l. 824), so that its repetition is partial; it never removes
  entries that only the newer version has.
* A process that dies in the middle of a swap leaves no marker, and the next start
  sweeps the only copies of the old entries. `NothingIsLost` ends at such a sweep.
* "Not found" from the first rename (l. 809) is taken for "there is no such entry"
  also when the backup directory has been swept meanwhile; the old entry is then
  overwritten.

### Fairness

* Registry: a pending read runs (`WF`), because the microtask queue is drained and
  the SSE writer keeps pulling. Nothing is assumed of the turns.
* Queue: continuations run (`WF`). File reads, providers and other generations get
  strong fairness: their completion stays in the event loop's queue however many
  requests arrive meanwhile, and the `Quiet` guard is what disables them now and
  then. It is an assumption that a provider answers or is stopped in the end
  (requests have timeouts). A process that shuts down exits, and is started again.
* Locks: tasks end, since model calls have timeouts, and continuations run.
* Quota: timers fire, requests end by a timeout if not otherwise, and the vendor
  answers some of the polls that ask with the present key. The last is the only
  assumption about the outside world, and `EventuallyCurrent` is void without it.
* Experiences: continuations run and a dead process is started again (`WF`).
  Between requests the event loop comes to the timers, sleeps and replies that wait
  (`SF(Waiting)`: a handler in the middle of its commits disables them now and
  then). One condition for all of them is enough, since the number of effects and of
  their retries is bounded. Provider calls and sleeps end; pages are not assumed to
  ask for model effects, so `EffectsSettle` promises those an end only once they run.

* Scenes: continuations run, a prompt is built or fails, a provider answers or times
  out, and the page of a run goes on polling (`WF` each), which is what takes up a run
  after a restart. Without the page a run may rest for ever.
* The plan and the updater have safety properties only.

## 4. What is proved

For every value of the constants, under the assumptions stated with them (bounds
are naturals, null values are not members of the sets):

* Registry: `TypeCorrect`, `OneTurn`, `NoWakeupLost`, `EndComesLast`,
  `ReplayIsExact`, `NoticesAreTrue`, and `RegistryIsSlots`, the refinement of
  `RunSlot`. None of the invariants is inductive alone. The common part, `Shape`,
  adds to `TypeOK` that a used subscription is bound to a used run (`SubsBound`),
  that the waiters of a run and the parked subscribers are the same (`Linked`),
  that unused runs are blank (`Fresh`) and that the map points to runs of its key
  (`Mapped`); on it rest one layer for the log (events are numbered by position),
  one for the reader's cursor and one for the verdict. Each action has its step,
  and under it a step for each conjunct the action can disturb.
* Queue: `TypeCorrect`, `ExecutorsExist`, `CancelsHold`, `StopsAreAimed`,
  `CancelsComeFirst`, and `QueueIsLedger`, the refinement of `JobLedger`: all safety
  properties of `queue`. `Frame` relates lane, slot, turn and callers: `Calling` says
  that at most one `cancel()` is between its two awaits, that the lane stands still
  then, and that what the call has read is still true, which is what `Quiet` buys.
  `Begun` says what the row of the job under way may hold at each stage, `Held` what
  is remembered of a cancelled job at each stage (a stop request until the turn looks,
  a signal from then on). The refinement needs besides that the picked job is the
  oldest that waits (`Chosen`) and that nothing is picked while a row runs.
* Locks: `TypeCorrect`, `ForgetsNothing`, `NeverOverlaps`. `NothingForgotten` is
  inductive together with `TypeOK`.
* Quota: `TypeCorrect`, `PollingNeverStops` (assuming that the store does not
  reject), `DeletionIsFinal` and `WarnsOnce` (without that assumption, and for any
  number of crashes), and `LatchesAreTold` (without either; it excuses
  only a warning caught between its two commits, see section 3). Between two events a poll may be neither
  scheduled nor out, because an edit is about to be acted upon or notices about to
  be sent: `Attended`, `Gone` and `Warned` include those continuations. The last needs
  what `Evaluate` does on every input: it latches only what it warns about
  (`EvaluateWarns`); and that an edit which empties the ledger also drops the latch
  (`Orderly`). `WarnsOnce` proves `NoNagging` in two parts, since windows with a boundary
  are told by the ledger and the others by their latch (`Remembered`): a warning that is
  due names the boundary of the memory stored with it (`Pending`, `EvaluateLow`), so the
  ledger knows it if it was sent before; and a latch is kept, without a word, until a
  reading recovers beyond the band (`EvaluateHolds`). `Still` says that an edit is acted
  upon before anything is sent. `TypeCorrect` assumes that the configurations a user may choose are
  those of providers with windows (`ConfigAssumption`).
* Experiences: `TypeCorrect`, `NothingRerunSilently`, `RunningMeansRun`,
  `NoResultIsLost`, `TicksAreTimely`, `AnswersStayTrue`, and `SessionsKeepTheLedger`,
  the refinement of `EffectLedger`: all safety properties of `experience_play`. The proofs first say what each action does to the two tables
  (an effect row can only be claimed, ended, judged or retried: `Moved`; a journal
  stays, or grows by one step: `Unwritten`, `Grown`), and then reason about rows and
  steps alone. `Shape` adds to `TypeOK` that the handler and the effects refer to
  rows that exist (`Bound`). `NoSilentRerun` needs that a waiting effect has no
  claim left over (`Counted`), `TicksHitTheirMoment` that the effects in a journal
  exist (`Timely`). `AnswersAreTrue` needs most (`Honest`): a request belongs to one
  session, its expected revision was reached when it was sent, only requests that
  were sent are answered or stand in a journal, and a refused one expects a
  revision that its session has left, so that no later copy can be applied. The
  refinement (`Booked`) needs that a run is of a row that says so or of the result the
  handler is about to feed back (`Owned`), that a result which has found its fate is not
  held by the handler again (`Decided`), and that what a journal holds was heard
  (`Heard`): together they say that a result lands once. `ResultsAreAccountedFor` needs
  three things besides: that what was heard is in the journal of its match and stays there
  (`Found`), that a result without a fate is the one in the handler's hands (`InHand`), and
  that an effect was asked for at a revision its match had reached (`Dated`), so that a
  tick which finds another revision has been left behind.
* Story plan: `TypeCorrect` (which includes that neither copy ever shows two active
  tasks), `PlanAndTrackerAgree`, `TrackerFollowsActive`. The invariants speak of moments
  in which nothing is under way; the strengthening says what holds in between. A
  follow-back in the chain carries the tracker as it is, up to the collapse of old
  statuses (`Carried`); the source of a projection is a branch that exists or existed,
  so that no new branch inherits it (`Known`); between the save of a plan and its
  projection it is the plan before the save that the tracker agrees with (`Saved`);
  and who owes a projection owes a follow-back (`Owing`). `PlanIsInTracker` and
  `FollowBackIsNarrowAlways` rest on these; the former needs besides that a task of
  the source's plan is missing from the tracker only while the projection that brings
  it is under way (`Complete`), or when it stands on the record of what was taken out:
  every edit, answer and template that removes a goal leaves it there (`Records`).
* Scenes: `TypeCorrect`, `WaitersJoinTheLast`, `RunAccounts`, `CommitsFresh`,
  `CancelledStops`: all safety properties of `scene`. The strengthening is `TypeOK`
  with what relates lanes, jobs and generations (`LaneInv`: a generation is in the
  lane of its variant exactly while it waits or asks, the last one is the registered
  job) and with what relates the run's row, its loop and its generation (`RestInv`:
  whose generation the loop waits for, and whether the row's flag has reached it).
* Self-update: `TypeCorrect`, `VerdictsAreTrue`, `SwapsLoseNothing`,
  `ProbationKeepsTheWayBack`, `RollbacksAreWhole`. `Journal` is the core of the
  invariant: while a swap is under way, an entry that would not have to be put back is
  the one that was there before, unless something has failed to be, and the backup
  holds what has been moved. `Blame` says that an entry in need of restoring differs
  from the old one, which needs that copies of a release are never older than the
  swap (`Copies`); `Guard` and `Debt` carry the replaced tree from the update to the
  end of the rollback, which needs that no sweep of the server is under way, or about to
  begin, while there is something to guard.

Every safety property that a run checks and expects to hold is proved. Only
model-checked are the liveness properties (fairness and `ENABLED` are out of the
prover's reach): `SubscriberSettles`, `EveryJobSettles`, `EventuallySeen`,
`EventuallyCurrent`, `EffectsSettle` and `EveryRunEnds`.

## 5. How the project grew, and what would come next

What the rest depends on first, then durable state with timers, then two copies of
one truth, then files and processes, with proofs after each. In the order of their
worth, these would follow:

1. `ChatSummaries` over `RunSlot` and `BackgroundTaskLocks`: an automatic summary reads
   what has been covered, generates for long and then creates a row, while a manual
   one or a deletion changes the ranges.
2. `MessageTree`: messages, variants, forks, active branch, and what the live chat
   orchestrator, dice and experience attachments undo when a send fails.
3. The reports of experiences, and what an undo restores; a reply of an undone step is
   put to the restored state.
4. The task lists and the cadence of the objective tracker.
5. Several windows, and readings that omit one, in `QuotaTransitions`.

## 6. What is not modelled and why

Vendor protocols (pure I/O; a vendor is an environment that answers, fails or is
slow), text processing (prompt assembly, macros, regular expressions, import and
export: string algorithms beyond a model checker), user scripts (what they compute
is not the program's), React views, packaging, generated migrations, types and
declarations: together by far the largest part of the repository. Among the rest are
rows with sequential create, read, update and delete, in which nothing happens
concurrently (characters, personas, settings, files). The components named in
section 5 have protocols of their own and are listed as not modelled or partly
modelled in `PROJECT.json`, each with its reason.
