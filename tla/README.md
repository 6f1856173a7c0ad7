# Verification of JojoKanbao

This directory holds TLA+ models of the stateful parts of this repository, the TLC
configurations that check them on small instances, and theorems about them with
proofs that TLAPS checks. Everything is translated from the source; the file and
lines behind each definition are in the `map` of `PROJECT.json`.

* [The system](#the-system): the inventory of components
* [Modules](#modules): what models what
* [How the model reads the code](#how-the-model-reads-the-code): abstractions
* [Properties](#properties), [Runs](#runs), [Findings](#findings)
* [Proofs](#proofs)
* [Plan](#plan): what is left, in order

## The system

JojoKanbao is a reader of newspapers and periodicals. Its applications are plain
clients of static content and of a small backend. The part that is hard to get
right is the machinery that produces the content without supervision, many times a
day: the **Times pipeline** (`tools/times-pipeline` and the `maintenance-times-*`
workflows), the **maintenance scheduler** that wakes it up and raises the alarm, and
the **speech service** and its offline job. In the applications it is the **account
store** and the **offline books**, which several tabs share.

| Component | State | Operations | Interacts with | Hard behaviour |
|---|---|---|---|---|
| Times Capture (`page-capture-cli.ts`, `capture/`, `discovery/`, `maintenance-times-capture.yml`) | Capture memory: seen articles, refresh dates, proxy subscription | discover, capture, `publish-job`, save memory | Runtime bucket; triggers Process | killed between Raw, status, marker and memory; one run at a time, but concurrent with Process |
| Runtime bucket (`runtime-bucket/*.ts`, `runtime-cli.ts`) | Raw archives, job statuses, pending markers, Process archives, `process-memory.json` | `publish-job`, `select-jobs`, `restore-process`, `stage-process`, `promote-process`, `mark-jobs`, `defer-job`, `discard-staged-process`, `cleanup` | Capture, Process, cleanup and operators all work on it; it has no transactions | every operation is several uploads; staged and committed generations; retries after backoff; retention |
| Process (`process-cli.ts`, `process/`, `delivery-cli.ts`, `maintenance-times-process.yml`) | Canonical shards and article bodies, restored from the bucket; B2 Delivery bodies and indexes | build Canonical, build Delivery, publish to B2 in commit order | bucket, B2, the language model | three stores updated one after the other; replay of a staged generation; partial copies |
| Translation (`translation/`) | keys with cool-down, retry records | translate a batch of articles under a deadline | a model API | worker pool, fallback between models, timeouts |
| Process continuation (`tools/ci/continue-times-process.mjs`) | none | probe the waiting runs, dispatch another | GitHub | an accepted POST whose answer is lost |
| Maintenance scheduler (`tools/maintenance-scheduler`, its SQL state functions) | lease, last tick, delivery record per task, monitor records | claim, dispatch due slots, monitor and alert, release | GitHub, Supabase, Healthchecks | lease expiry during a tick, uncertain dispatches, replayed ticks, alert debouncing |
| Agent runtime (`agent/`) | conversations, upstream credentials | tool loop, credential refresh | a model API, the backend | concurrent refresh, cancelled streams |
| Backend (`backend/`), database (`infrastructure/supabase`) | accounts, invites, quotas (in PostgreSQL) | sign-up, account requests | clients | mostly stateless; row locks |
| Speech delivery (`backend/src/app/speech`) | tasks in flight per text and voice, live streams and their chunks, two synthesis slots, keys with cool-down; audio in B2 or a local cache | resolve a segment, stream a segment, fall back to the other voice | readers, a speech model, B2 | one synthesis for concurrent listeners; a stream that fails after its first byte; bounds of time and slots |
| Offline speech library (`tools/speech`) | durable outbox (SQLite), checkpoint, worker limits | synthesise, stage, upload, confirm, publish a book | the speech model, B2 | killed between upload and receipt; disk back-pressure; resumed runs |
| Account session and recovery (`frontend/packages/auth`) | session, profile, recovery in progress | sign in and out, password recovery, profile loading | Supabase, its callbacks | answers that arrive after the session they belong to |
| Offline books and PDF downloads (`frontend/packages/content`, `frontend/mobile`) | book records and resources, the download in progress | download, recover, remove, change of account; chunks over the reader bridge | content, other tabs | several tabs, aborts and restarts; a second download during a save |
| Other frontend packages and applications (`frontend/`) | cached content, views | fetch, render | content, backend | mostly user interface |
| Content, archive and administration tools (`tools/content-pipeline`, `tools/archive-pdf`, `tools/jojo-admin`, ...) | files, search state | batch conversions, publication by an operator | files, content, search | one operator at a time; most of it is conversion |

What makes each correct, in the order of the plan:

1. *Runtime bucket and Process together.* Delivery moves from one whole Process
   result to the next, whatever is interrupted; what was committed can always be
   restored; an article is never lost between a job, the memory and the indexes;
   every queued job is eventually settled.
2. *Scheduler.* A slot is dispatched at most as often as its task allows even if
   answers and workers are lost; ticks do not overlap on one state; an alert is
   raised once for a failure and once for its recovery.
3. *Continuation.* At least one wake-up survives every probe and dispatch failure
   while work is left.
4. *Translation.* Every article of a batch ends translated, deferred or excluded
   before the deadline, and a key in cool-down is not used.
5. *Speech.* One synthesis per text and voice at a time, whatever mixture of streams
   and whole requests asks for it; no listener hears two voices in one segment or
   takes a truncated segment for a whole one; every slot comes back. Offline, a
   segment that was staged is uploaded and confirmed without a second synthesis.
6. *Account.* A password recovery never acts on, and an answer never updates, another
   session than its own.
7. *Offline books and PDF downloads.* A record that says ready has every resource; a
   running download is not failed or removed by another tab; one download does not
   destroy another.
8. *Agent and backend.* A credential is refreshed once for concurrent requests; an
   invite is used once.

Of these 1, 2, 5, 6 and the books of 7 are modelled. The status of every component is
in `PROJECT.json`; the hazards found in the code, at their lines, with the properties
that would catch each, are there too.

## Modules

| Module | Models | Extends |
|---|---|---|
| `RuntimeJobStatus` | `times/jobs/{id}/status.json` and the two functions that advance it: `statusAfterSuccessfulDelivery`, `statusAfterRuntimeFailure` (`jobs.ts`), and what `parseRuntimeJobStatus` accepts | |
| `ProcessGeneration` | staged generations and the pointer, full archives and cumulative deltas (`deltaPlan`), what a Process result does to the articles, which archives a promotion leaves obsolete (`process-generation.ts`) | `RuntimeJobStatus` |
| `RuntimeQueue` | selection of a batch (`queue.ts`) | `ProcessGeneration` |
| `RuntimeCleanup` | what the retention plan protects and deletes (`cleanup.ts`) | `RuntimeQueue` |
| `TimesRuntime` | the system: Capture, Process, cleanup, the operator's commands and time, over the bucket and B2. `Init`, `Next`, `Spec`, `FairSpec` and the properties | `RuntimeCleanup` |
| `TimesDelivery` | the abstract specification: what readers are promised. `TimesRuntime` implements it (`ImplementsDelivery`) | |
| `MCTimesRuntime` | the constants of the runs | `TimesRuntime` |
| `MCTimesAliases` | two small instances side by side: two aliases in one capture, or several captures of one article | `MCTimesRuntime` |
| `TimesRuntimeProofs` | the inductive type invariant; what the bucket keeps: the committed memory, the listed bodies, the closed cold start; the bookkeeping of the statuses | `TimesRuntime` |
| `TimesTransactionProofs` | the staged transaction: what the pointer waits for, what readers see of it and that it implements `TimesDelivery`, what it needs, what is completed | `TimesRuntimeProofs` |
| `SchedulerState` | the private state of the maintenance scheduler: lease and delivery receipts, and the decisions of its SQL function (`202609060001_maintenance_scheduler_state.sql`); slots (`schedule.ts`) | |
| `MaintenanceScheduler` | the ticks of the cloud function (`scf.ts`, `index.ts`), the durable dispatch (`durable-dispatch.ts`, `dispatch.ts`), late requests, GitHub's runs, and the properties | `SchedulerState` |
| `MCScheduler` | the constants of the scheduler's run, which takes one kind of task at a time | `MaintenanceScheduler` |
| `SchedulerProofs` | types, one worker, the order of the receipts, the dispatches and their repetition | `MaintenanceScheduler` |
| `TaskMonitor` | the monitor of one task: its inbox, the alert policy (`monitor-policy.ts`), the stored state and the pings (`monitor-object.ts`) | |
| `MCMonitor`, `TaskMonitorProofs` | its runs; its theorems | `TaskMonitor` |
| `SpeechDelivery` | one segment asked of several function instances: whole requests and listeners, tasks, slots, live streams, the bucket (`delivery.py`, `streaming.py`, `storage.py`) | |
| `MCSpeech`, `SpeechDeliveryProofs` | its runs; its theorems | `SpeechDelivery` |
| `SpeechLibrary` | the offline job: outbox, upload, publication of chapters, checkpoint, stops and restarts (`library_pool.py`, `outbox.py`), beside the online service | |
| `MCLibrary`, `SpeechLibraryProofs` | its run; its theorems | `SpeechLibrary` |
| `AuthSession` | the account store of a tab or application: bootstrap, events of the client, profiles, sign-in and sign-out, recovery of a password (`auth/src/store.ts`, `client.ts`) | |
| `OfflineBooks` | a private book in several tabs: download, removal, recovery, sweep (`offline-books.ts`, `web/src/offline`) | |
| `MCClients` | the two side by side, in one run | `AuthSession`, `OfflineBooks` |
| `AuthSessionProofs`, `OfflineBooksProofs` | their theorems | |

The components are modelled apart where the code couples them by one fact only, and
each module takes that fact as what it does not control: captures happen at any time
(`TimesRuntime`; the scheduler starts them), ticks are a minute apart and may die
(`TaskMonitor`; `OneWorker` of the scheduler is why there is one at a time), the online
service may put a descriptor of its own at any moment (`SpeechLibrary`;
`DescriptorsAreComplete` of `SpeechDelivery` is why that descriptor names a complete
MP3), the account changes at any time in any tab (`OfflineBooks`).

`clients` checks two components side by side: a variable that never changes says
which of the two a behaviour belongs to.

### State of the pipeline

| Variable | Code |
|---|---|
| `raw[j]` | `times/jobs/{j}/raw.tar`: the articles its manifests list as captured and as unchanged |
| `status[j]` | `times/jobs/{j}/status.json`; `staged` is `stagedProcess` |
| `marker` | `times/pending/{j}.json` |
| `hidden` | jobs whose status object is older than the hour that `activeStatusesSinceQueue` lists |
| `updatedBefore` | the order of `updatedAt` among the partial jobs |
| `archives` | `times/process/processed-{sha256}.tar.gz` |
| `pointer` | `process-memory.json` |
| `bodies`, `index` | B2: immutable article objects; source date shards, timeline days and timeline index, the last three steps of the commit order |
| `known` | articles the committed Capture memory has a page of |
| `capture` | the Capture run (workflow concurrency group: one at a time) |
| `run` | the holder of the writer lock (the concurrency group that Process and cleanup share) |
| `command` | `discard-staged-process`, between its read and its write |
| `quiet` | the faults have stopped |

### Actions of the pipeline

A Process run goes `restore -> build -> upload -> record -> publish (1..4) ->
promote -> retire -> mark -> unmark -> ... -> idle`; each arrow is an upload, a
delete or a command that runs as a process of its own, so that a run can be lost
between any two. A run whose anchor has a staged generation goes from `restore`
straight to `publish` (`Replay`), with the batch and the result that the
generation carries. A failed step leads to `defer -> deferMarker -> idle` (the
workflow's `defer-job`, which runs on failure); a lost or cancelled runner
(`RunStops`) leads to `idle` directly. The cleanup goes `cleanPayload ->
cleanStatus -> idle`. Capture goes `status -> marker -> memory -> idle`.

`Events` says which faults and commands an instance has: `kill` (lost runners),
`fail` (failing steps, copies and deletes, half done), `window` (an hour without
a Process run), `retention` (cleanups that find something), `outage` (the
retention passes while jobs are unfinished), `operator` (exact and bootstrap
runs, `publish-job` again, `discard-staged-process`) and `quieten` (all of these
stop at some moment).

### The scheduler

| Variable | Code |
|---|---|
| `registry` | the tasks the deployment schedules (`options.tasks`, by default `SCHEDULED_TASKS`); it never changes |
| `clock` | the time; the function, the database and GitHub agree on it |
| `lease` | the row of `maintenance_scheduler_control` |
| `receipt[t]` | the row `dispatch:{task}` of `maintenance_scheduler_state` |
| `late` | requests whose caller gave up (timeout, lost answer) and that the database may yet apply |
| `phase`, `began`, `step`, `known` | each invocation of the cloud function: `now`, its position per task, the receipt it has read |
| `posts`, `runs` | dispatches under way at GitHub, and runs it has started, listed (`visible`) or not yet |

An invocation goes `new -> claiming -> working -> ended`; for each due task it goes
`get -> list -> put -> post -> answer -> (accepted | rejected | sending) -> done`.
The tasks of a tick run side by side (`Promise.allSettled`). A claim, a write or a
release may fail outright, or go unanswered and be applied at any later time
(`ClaimFails`, `WriteUnanswered`, `ReleaseUnanswered`, `ApplyLate`); the platform may
kill the function at any step (`Kill`) and does at its time limit (the guard of
`Pass`). GitHub starts a run for a dispatch late or never, whatever it
answered (`AnswerFits`), and lists the run later (`Appear`). How late is unbounded for a
task with one attempt; for one with several it is the rest of the slot (`InTime`).

### The monitor

| Variable | Code |
|---|---|
| `monitor` | the stored state of the task's monitor, `MonitorState` of `monitor-policy.ts` |
| `tick` | the tick in progress: the state it computed and the step it is at, `put -> ping -> clear` (`monitor-object.ts`) |
| `log` | all entries the inbox of the external check ever had; it keeps the last `Retain` |
| `external` | what the check shows |
| `runs` | the workflow run of each slot |

A tick dispatches the due slot, reads at most `Budget` new entries, applies them and the
dispatch to the stored state, puts the result with its pending signal, pings and clears the
signal. `Die` ends it between any two of these; a ping may be applied without an
answer. Outcomes are logged at once, later or twice (`Complete`, `LogAgain`).

### Speech

A request goes `lookup -> lookupVoice -> claim -> join | listen -> alias -> answered`, a
task `slot -> recheck -> synth -> store -> alias -> settled -> gone`; `writer[t]` is the
thread a cancelled task leaves behind, which writes the object, then the descriptor.
`pending[i]` and `streams[i]` are the two dictionaries of an instance, `free[i]` the
permits of its semaphore. The event loop runs a coroutine from one await to the next,
so that is an action. `Settle` is the callback of a finished task, `StreamTimeout` the
105 seconds, `Crash` the loss of an instance.

In `SpeechLibrary` a segment goes `lookup -> gate -> reserved -> synth -> made -> queued
-> get -> put -> describe -> verify -> confirm -> delivered`, a chapter `ready -> manifest
-> index -> report -> commit -> done`. `outbox`, `checkpoint` and the bucket survive a
run; `Stop` is the STOP file or a fatal error, `Crash` a kill, `SecondPass` the retry of
what failed.

### Account and books

`AuthSession.tab` is the store with the private variables of its module; `stored` is the
session in the client's storage, `events` what the client has not told yet, `call` the
store's own calls, each at the step whose answer it awaits. The code guards late
answers with revisions (`bootstrapRevision`, `sessionRevision`, `recoveryRevision`). Only
whether a revision has moved since matters, so a read, a profile or a call that began at
the present revision is marked as current and loses the mark when the counter moves.

In `OfflineBooks`, `records` and `resources` are the database the tabs share, `lock` is the
Web Lock of the dataset, `job[t]` the download of a tab, `removal[t]` the removal, `sweeps`
the recoveries of starting tabs and the sweeps after a change of account. A check and the
write it permits are two steps, between which the account may change.

## How the model reads the code

* **One writer.** Process runs and cleanups share a concurrency group, so `run` is
  one record; what one CLI call reads and writes within one upload is one action.
  Only `discard-staged-process`, which an operator starts outside the lock, is
  split between its read and its write.
* **Capture is concurrent** with the writer. Capture runs are serial and each
  publishes a fresh job id, numbered here in `createdAt` order.
* **Articles** are model values; a *version* of an article is the number of the job
  whose capture its body comes from, or of the anchor of the run when a policy rewrote
  the body. `Withdrawn` (a result took the article off) and `Superseded` (an alias of it is
  listed in its place) are absences that properties can tell from never listed; the code
  keeps no tombstone and the model never reads them as anything but an absence.
* **Aliases.** `Publication` groups the articles that are one publication to a reader
  (`sourceDeliveryIdentity`); `mergeArticles` keeps one listed article of each group and
  supersedes the others (`Collapses`). Which one is kept is data, so any may be. The code
  merges again at each publication, the model once, when it builds: the outcome is the same
  while nothing but the staged generation is published in between. Dates of articles do not
  move.
* **Process itself** may report any outcome for an owed article that its row allows, and
  "unchanged" for a row that was listed as such. "Refused" is an article that is written and
  completed, and then not listed because its source no longer accepts the URL. A retained
  article that the run does not parse, owed or not, may be rewritten, removed or refused,
  by a policy that a deployment brought (`PolicyOutcomes`).
* **The memory** of a generation is the view of the articles that it commits, which is what
  Delivery lists. Canonical itself keeps a refused article, so that a later policy could
  rewrite it; that is not modelled, since `PolicyOutcomes` leaves withdrawn articles alone.
  A timeline day is copied whole.
* **Archives** carry content-addressed names. The model gives a new archive the lowest
  name nothing refers to (and that no discard under way still holds), which keeps
  the instances finite and does not confuse two generations. Sizes are data: a
  delta over the size ratio is compacted to a full archive, so a full archive is
  allowed whenever a delta is.
* **Time** is three abstractions: `due` (the partial jobs whose backoff has elapsed)
  is chosen at each selection; the upload hour is the set `hidden`; retention ages
  are the sets `PlanCleanup` picks. Unfinished jobs are past their retention only with
  `outage`, since their retention is far longer than the largest backoff.
* **`attempts`** is kept as `tried`, whether there was one: the code counts without a bound and
  uses the number to space the retries only.
* **The legacy queue** (`pending-jobs.json`) is a constant: the code only reads it.
* **Capture memory** may keep what was captured, or not (its upload may fail without
  failing the run); a refresh of a known article is an ordinary capture.
* **A selection that only probes** (dry run, drain detection) is a `Select` followed by
  `RunStops`; it changes the markers and nothing else.
* **A tick of the scheduler** uses one `now` for its slot, its claim and its receipts, as
  the code does. Each invocation has an owner id of its own. The cron schedule of a
  task is a period; only where slots begin and end matters. All tasks of the registry
  have `skipWhileWorkflowActive`. The runs listed for a workflow are those the
  scheduler started: a manual run can only prevent dispatches. The list of 50 runs is
  taken as complete. What a function knew is reset when it ends, so that ended
  invocations do not multiply the states.
* **GitHub's delay** is the one thing assumed of it: a dispatch of a task with several
  attempts starts before its slot ends, or never (`InTime`). The one such task is daily and
  dispatched in the first three hours of its slot, so the assumption allows a delay of 21
  hours. If GitHub started the run only in the next slot, the code would count it there,
  and neither the bound on the runs of a slot nor `RetriesFollowFailures` would hold.
* **Left out of the scheduler**: shadow mode, the connectivity probe, the migration import,
  the backend switch, and clocks that disagree. In `MaintenanceScheduler` monitors only
  prolong a tick; `TaskMonitor` models them with time in minutes and without the direct
  pings of the old protocol.
* **Monitor**: each slot has one workflow run. A retry within a slot is a dispatch that is
  accepted again; a second run of the slot, with an outcome of its own, is not modelled. A
  dispatch that fails without an answer may have started the run.
* **Speech**: one segment, since requests for different ones share only slots and the limit
  of pending tasks; the store with B2; vendors answer or fail at any time; the bytes of a
  stream are a number of chunks. In the offline job any number of segments is in progress,
  as far as the outbox has room.
* **Account**: one tab; other tabs are changes of the storage with their events. The client
  stores a session and tells the store of all changes in the order in which they were stored.
  Within a tab it does; between tabs it sends messages that carry no order of their own, for
  which this is a generous assumption. An answer to a call follows the news of it, and
  other news may come between the two (`SignOutAnswered`, `SignedOut`). There is at most
  one call of each kind in flight (`Ready`): a cancelled form is free again at once
  (`store.ts:113`), so in the code a second call of the same kind may begin while the first
  is pending. The calls of a recovery are guarded by their revision in that case.
* **Books**: one private book, of which each account may have a package. Downloads, removals,
  recoveries and sweeps fail at any of their steps. A failed sweep gives up the packages it had
  yet to remove, and `books.ts` swallows its error (`:49`, `:57`), so nothing tries again
  before the next change of account or start of a tab. `spared` is the record of what was left
  that way, which no action reads.
* **Left out of the pipeline**: contents and digests of archives, failure reasons, the catalog upload
  (it has no state that the pipeline reads back), the 8-day retention of Capture
  memory objects, the refusal of a cleanup that would delete more than its limit (it
  deletes nothing), the single-job forms `select-job`, `restore-job` and `mark-job`,
  which no workflow calls.

## Properties

Each is stated in its module with a comment. "Would break through" is the mutant
that `PROJECT.json` pairs with it: a plausible mistake in the code, defined beside the
definition it replaces, under which TLC finds the property violated.

Of the pipeline:

| Property | Says | Would break through |
|---|---|---|
| `TypeOK` | the shapes of the objects; no generation is deeper than `MaxDelta` | a depth compared before the new delta is counted |
| `DeliveryBetweenCommits` | B2 shows the committed memory or a prefix of the commit order towards the staged one, the same prefix for the aliases of one publication | publishing the indexes in the other order |
| `ImplementsDelivery` | the whole pipeline implements `TimesDelivery` | promoting before publishing |
| `SettledStaysSettled` | nothing settled is owed again, no done job is reopened | deferring a done job |
| `ArticlesAccountedFor` | each article of a job is pending, completed or excluded, once | counting a retry as excluded |
| `NeededIsKept` | an unfinished job has its Raw, a staged generation its archives | retention without what is referenced |
| `PointerRestorable` | the committed memory, with its base, is in the bucket | a cleanup that deletes an expired job's archive although it is the pointer's |
| `ListedBodiesExist` | every listed body is on B2 | a replay that skips the bodies |
| `CompletedIsDelivered` | a completed article that the job captured, or the alias it was merged with, is listed everywhere, unless a result withdrew it | counting a retry as completed |
| `PointerNeverPassesStaged` | the pointer moves to the staged generation only | a staged job without precedence |
| `QueueDrains` | once the faults stop, every queued job is settled | a staged generation that is never cleared |

Of the scheduler:

| Property | Says | Would break through |
|---|---|---|
| `TypeOK` | the shapes; a receipt's time is in its slot | stamping the previous slot |
| `OneWorker` | two ticks never work at once | a write that ends somebody else's lease |
| `DispatchesAreCounted` | what GitHub may still accept or is running has a receipt that says so, and a slot starts at most `maxAttempts` runs | reconciling accepted dispatches only |
| `RetriesFollowFailures` | a dispatch is repeated only after all before it were rejected or failed, and after the delay | posting before the receipt is recorded |
| `ReceiptsMoveOn` | a receipt never goes back to an earlier slot | a late write applied under another's lease |

Of the monitor:

| Property | Says | Would break through |
|---|---|---|
| `TypeOK` | the shapes; a state that is down knows since when | keeping the incident after a success |
| `SignalsAgree` | with nothing pending the check shows what the monitor decided | storing a decision without its pending signal |
| `FailuresAreDistinct` | only distinct failed runs since the last success count | applying an entry that was seen |
| `SilenceAlarms` | no tick stays green past the deadline after the last real success | a failure that postpones the deadline |
| `IncidentsAreReal` | an incident ends only by a success since then; outcomes lost unread raise one | resuming after a gap silently |
| `OlderSuccessDoesNotHide` | see Findings | |

Of speech:

| Property | Says | Would break through |
|---|---|---|
| `TypeOK` (`SpeechDelivery`) | the shapes, permits included | a callback that releases a permit it does not hold |
| `DescriptorsAreComplete` | a descriptor names a complete MP3 of its voice | writing the descriptor first |
| `AnswersAreWhole` | no listener hears two voices or takes a part for the whole; Edge stands in only for a MiMo that failed before any sound | a listener that goes on with another task |
| `TasksAreTracked` | tasks, dictionaries and permits agree | registering a whole request's task nowhere |
| `EveryRequestEnds` | every request is answered or refused | a cut-off stream that tells nobody |
| `InstancesComeToRest` | nothing stays registered or taken | a callback that removes one entry of two |
| `TypeOK` (`SpeechLibrary`) | the shapes; a manifest and an index name an MP3 for every segment of their chapter | a lookup that takes a missing descriptor for one |
| `PublishedIsPlayable` | an index names a manifest all of whose MP3s are there; the checkpoint is published | publishing the index first |
| `CountersAreExact` | chapters count their open segments, the outbox its reservations | reserving without regard to others |
| `NothingIsLost` | staged audio is in the outbox until it can be found in the bucket | forgetting an upload that failed |
| `LibraryGetsPublished` | when faults cease, all is published | a start that leaves the staged segments |

Of the clients:

| Property | Says | Would break through |
|---|---|---|
| `TypeOK` (`AuthSession`) | the shapes; a profile is shown or loading exactly while somebody is signed in | a sign-out that clears the session and leaves the profile |
| `StoreFollowsClient` | when all is answered, the store shows the client's session, unless a late sign-in or sign-out had the last word (Findings) | believing a late read of bootstrap |
| `RecoveryIsVerified` | the form is open for the address whose code was accepted, and the password is set for that account | taking whatever session the client has |
| `ProfileFollowsSession` | the profile is that of the session | showing a profile to whoever is there |
| `BusyEnds` | the store is busy only while a call is in progress | a form that stays busy after its recovery ended |
| `BooksTypeOK` | the lock is held by exactly the one that works | a download that does not wait for the lock |
| `PackagesAreWhole` | a ready book has all its files, and no file is left behind | a removal outside the lock |
| `OnlyMyPackages` | when all is done, no package of another account is left but by a sweep that failed | a sweep that does not wait for the download |

## Runs

| Run | Instance | Shows |
|---|---|---|
| `crash` | 2 jobs in one batch, full archives, 2 archive names, kills, failures, cleanups and expired unfinished jobs | the statuses account for every article and settle it once, under every interruption and when half a batch has expired |
| `retention` | 2 jobs, batches of 1, deltas of depth 1, 3 names, kills, failures and cleanups; side by side, 1 job of 2 aliases with changing policies, and 2 jobs of 1 article from which no policy takes anything off | delivery stands between two commits; what is needed is kept by a cleanup that may stop half way; what is completed is delivered, itself or through its alias; the pointer waits for the staged |
| `operator` | 1 job, 3 names, kills, cleanups, expired unfinished jobs, lapsed windows and every operator command | the memory and the bodies survive a pause longer than every retention, and a discard that races a run or a cleanup |
| `recovery` | `FairSpec`, 2 jobs, kills until `quieten` | `QueueDrains`, and the refinement of `TimesDelivery` |
| `retries` | 3 ticks and one task: daily, with 2 attempts and a delay of one minute, within a slot; or frequent, with 1 attempt, across two slots of two minutes | the scheduler's properties |
| `alerts` | 3 slots, an inbox of 2 entries read one at a time, 2 failures to an alarm, one fault | the monitor's properties |
| `voices` | 2 requests of any kind on 2 instances with 1 slot and 1 pending task, streams of 2 chunks, one lost instance | the speech service's safety |
| `listeners` | `FairSpec`: 2 automatic requests, one a stream, on 1 instance | its liveness |
| `library` | `FairSpec`: 2 chapters that share a segment, an outbox of 2, 3 runs, 2 faults, a listener online | the offline job, safety and liveness |
| `clients` | side by side: the store of a tab or application with 2 accounts and 4 acts; and 2 tabs, 2 accounts, 2 files with 3 acts and any number of failed sweeps and removals | the properties of the clients |
| `shadowed`, `hidden` | small instances | the findings |

**Bounds of the pipeline.** Two jobs are the least with which a batch has a member that
is not its anchor, jobs compete for selection, one job can be staged while another waits
and a cleanup can expire one job and keep another. One article shared by both is the
contended case: but for aliases, every property relates the rows, the statuses and the
indexes of one article at a time, and the actions treat articles alike. Two aliases in one
job are the least for a merge; a second run, after a retry or a policy, may turn it round.
Together with two jobs they are out of reach, which is why `MCTimesAliases` takes either
(`subjects`); the theorems take both. Archive names: one
for the pointer, one for its base and one for the generation being staged, which
is every archive that can be referred to at one time; unreferenced ones are
overwritten, as an upload of the same object is. Depth 1 has the three cases of
`deltaPlan`: no delta, a delta on a full archive, a delta that has reached its
depth. The seed of these instances is a committed generation of no article. The
operator's instance has one job, since a discard races the run of its own job; that
nothing is lost with more jobs is proved. With `outage` the status of a staged job can
expire half way through its publication, which nobody then resumes; so what delivery shows
is checked without it. With one article a copy that fails half way has the effect of
the whole step or of none, followed by a kill, so `recovery` has no failing steps.

**Of the scheduler.** The unit of time is half a minute: ticks are two apart, the lease
lasts three, and a function lives through at most two changes of the clock
(`RunLimit`: 55 seconds). Three invocations are the least with which a worker whose lease
ended can interfere with two others, and with which a third dispatch would exceed two
attempts; one task at a time is enough because tasks share nothing but the lease. The
instance leaves room for three ticks and for a lease that has to expire. Its last moment
is the first of the second frequent slot, which is all that a write, a run or a lease from
the first can meet; the daily slot, in which a third dispatch must be refused, outlasts it.
A run that GitHub starts after a slot is therefore met by the frequent task only; `InTime`,
which the daily task needs then, has its part in the theorems.

**Of the monitor.** Slots two minutes apart and a grace of one bring every deadline between
two ticks; three slots are the least for two failures and a recovery; an inbox of two
entries overflows when a tick dies. A tick reads one body at a time, so that an inbox of
two takes two ticks.

**Of speech.** Two requests are all that can meet at one dictionary entry, and a third
would join or be refused as the second is; two instances are needed for racing uploads.
One slot and one pending task make both limits bind. A stream of two chunks can fail
before, between and after them; one chunk is enough for liveness. For the offline job, a
segment shared by two chapters and an outbox below the size of both are the contended
cases; two faults let a fault hit the recovery from another.

**Of the clients.** Four acts are a recovery with one interference: a code, its form, a new
password and a change of account in another tab. Bootstrap, events and answers are not
counted. Three acts of the books are a download, a change of account and a removal or a
closed tab; sweeps and removals fail without being counted.

`CHECK_DEADLOCK FALSE` is in every configuration because every instance ends: its jobs,
time, requests, runs or acts are bounded, and when all are done nothing is left to do.

**Fairness.** *`recovery`:* steps of an admitted workflow run are executed by
GitHub (weak fairness of `ProcessStep`, `CleanupStep` and the Capture steps).
Captures every few minutes and the continuation wake Process up again and again
(weak fairness of `Select`); the backoff of a partial job is bounded by six hours,
after which it is due in every later selection, so a selection in which it is due
is possible again and again and is taken (strong fairness per job). There is no
fairness on faults, operators or the environment. `QueueDrains` asks for progress
only after `quieten`: from then on runners are not lost and Process no longer
answers "retry". A job whose marker and upload hour are both gone is not in the
queue (`Active`).

*`listeners`:* the event loop runs what is ready, and every call to a vendor or to the
bucket has a time limit of its own (weak fairness of the steps of requests, of tasks and of
writer threads); not of arrivals, of listeners that leave, or of the 105-second bound.

*`library`:* a run goes on with whatever it can do, and its operator starts it again after
it ended (weak fairness of the start, of each segment's and each chapter's steps); faults
are bounded by `MaxFaults`, which is what "when faults cease" means.

## Findings

Two documented promises that the code does not keep, each a violation run:

* `shadowed`: of two healthy captures of an article merged into one batch, one may
  list it as unchanged and shadow the row of the other. Both jobs then count it as
  completed and done, and no index ever lists it. `DESIGN.md` ties completion of a
  job to the committed Delivery.
* `hidden`: a success clears a refused dispatch when it was *logged* after the beginning of
  the refused slot, also when it is that of an older slot whose run lasted so long. The
  scheduler's README says an older slot's success cannot suppress a new slot's failure.

Other places where code and text differ, read in the source and not checked by a run:

* `queue.ts:195`: a retried batch is ordered by `updatedAt`, and `mark-jobs` updates the
  anchor last, so the older capture of an article is merged over the newer one; the comment
  at `jobs.ts:192` says the newest manifest wins.
* `queue.ts:92`: a staged job whose marker was lost is invisible to the selection after an
  hour. If a manual run staged it, the pointer may then pass it; the comment at
  `jobs.ts:329` says later jobs must not.
* `streaming.py:122`: a stream does not look into the store again before it registers, so a
  segment that was stored since its first look is paid for a second time.
* `streaming.py:109`: an automatic stream that joins a whole request's task fails with the
  vendor's error when that task does, without turning to Edge.
* `library_pool.py:318` and `tools/speech/README.md:229` differ on what a STOP file still lets
  a run finish.
* `monitor-object.ts:95`: the success of an old direct ping is never sent again, although a
  failure ping decided before it was read may reach the check after it. Runs of the old
  protocol are not modelled.
* `store.ts:136`, `:245`, `:348`: a sign-in whose profile is slow, a sign-out that returns
  and a change of password set their session without comparing revisions. After a sign-out or
  another tab's sign-in the store then shows a session that the client no longer has, or
  none although the client has one, until the next news. `StoreFollowsClient` excepts the
  first two (`tab.late`); the change of a known password is not modelled.
* `books.ts:49`, `:57`: a list, a lock or a removal that fails ends the sweep of another
  account's packages (or the recovery, and the sweep with it), and the error is swallowed.
  The package stays until the account changes or a tab starts again. `OnlyMyPackages`
  excepts what was left that way (`spared`).

## Proofs

Every theorem is about a module's `Spec` (`BooksSpec` for the books) for every value of the
constants. For the pipeline (`TimesRuntimeProofs`, `TimesTransactionProofs`), for every
number of jobs, articles, archives, batch members and delta depths, and, where the table
does not say otherwise, every set of `Events`:

| Theorem | Property | From |
|---|---|---|
| `TypeCorrect` | `TypeOK` | `TypeInv` |
| `PointerIsRestorable` | `PointerRestorable` | `TypeInv`, `RestoreInv` |
| `ListedBodiesAreThere` | `ListedBodiesExist` | `TypeInv`, `BodiesInv` |
| `ColdStartIsRefused` | `FailsClosed` (no run checks it) | `TypeInv`, `ClosedInv` |
| `EveryArticleAccountedFor` | `ArticlesAccountedFor` | `TypeInv`, `AccountInv` |
| `SettledForGood` | `SettledStaysSettled`, without `operator` | `TypeInv`, `NoDiscard` |
| `PointerWaitsForStaged` | `PointerNeverPassesStaged`, without `operator` and `outage` | `TypeInv`, `TransactionInv` |
| `DeliveryStaysBetweenCommits` | `DeliveryBetweenCommits`, without both | and `IndexInv` |
| `DeliveryIsImplemented` | `ImplementsDelivery`, the refinement of `TimesDelivery`, without both | the same |
| `NeededStaysKept` | `NeededIsKept`, without both | `TypeInv`, `RestoreInv`, `TransactionInv`, `NeededInv` |
| `CompletedStaysDelivered` | `CompletedIsDelivered`, without both and under `[]Unshadowed`, for batches of any size | `TypeInv`, `TransactionInv`, `IndexInv`, `CompletedInv` |
| `AloneCompletedDelivered` | `CompletedIsDelivered`, without both and with batches of one job | the theorem above |

They rest on the assumptions the modules name: the bounds are natural numbers, the
markers of absence (`NoRaw`, `NoStatus`, `NoGeneration`) are none of the records
they stand beside, and a seeded instance has an archive for its seed. Every run of
the pipeline evaluates them.

**`TypeInv`.** `TypeOK` is not inductive. A Process run reads the status of its anchor
and the Raw of its batch several steps after it has checked them, so the invariant
records that both are still there (`RunInv`); that they are rests on the lock, since
only the cleanup deletes them, and on `CaptureInv`: Capture writes only the job it is
publishing, which no run can have selected yet. That a rebuilt batch has a row for
every article it owes needs `StatusInv`: a status owes only articles its Raw lists.
A replay takes the batch of a staged generation, whose anchor must be the job that
stages it (`StatusInv` again), and a discard uploads a status read earlier, which
therefore satisfies the same (`CommandInv`). `RowOf` and `NextToMark` choose a last
and a first position of a batch; `GreatestPosition` and `LeastPosition` prove that
these exist, from the well-foundedness of strict inclusion on finite sets.

**`RestoreInv`.** That a promotion moves the pointer to archives that are there needs
the generation of the run to have stayed complete since its upload, and the status
of the anchor to name that generation or none: a discard during the publication can
clear it, in which case `promote-process` fails, but can never put another one there.
That retiring and cleaning leave the pointer alone is the second conjunct: nothing
doomed belongs to it.

**`BodiesInv`.** From the second step of a publication on, every body the result wrote
is on B2; the indexes list those, or what the timeline days listed before.

**`ClosedInv`.** Nothing is staged, so no run replays, and no run restores.

**`AccountInv`, `NoDiscard`.** A delivery moves each pending article to at most one other
place, because an outcome is a function of the article. `SettledForGood` assumes that
there is no operator: the late upload of a discard restores the status it read.

**`TransactionInv`.** The pipeline's transaction is spread over a status, the pointer and
three objects on B2. `StagedInv`: at most one job has a staged generation; it is
unfinished, in the queue, and its generation was made from the committed memory.
`ProgressInv` says what a run knows of it at each step: a run that builds has found
nothing staged, a run that publishes or promotes does so with the generation its anchor
has staged, and a run that settles follows a pointer that has moved. `Select` keeps it
because a staged job comes first; the cleanup because it leaves staged jobs alone. The
hypotheses are needed: an operator may publish past a staged job or discard one, and in
an outage a staged job's status expires half way through its publication.

**`IndexInv`.** In a publication, the indexes of the steps done are the staged memory, the
others the committed one; on it rest the states between the commits, and the step
simulation of `TimesDelivery`: only the recording of a staged generation begins an update,
only the publication steps show it, only the promotion commits it, all else stutters.

**`NeededInv`.** Retention deletes what belongs to settled jobs or to jobs that never had a
status (`run.left`, `run.raws`), and a doomed archive belongs to no staged generation.

**`CompletedInv`.** A completed article that its job captured is remembered by the committed
memory (`Remembered`); a staged generation remembers what it wrote and calls unchanged only
what none of its jobs captured (`Sound`); and a view that supersedes an article keeps an
alias of it, or took that one off (`Merged`), which a merge leaves so and later results and
the steps of a publication do not undo, since the aliases of a publication move together.
With batches of several jobs an unchanged row may stand for a captured one, which is the
finding `shadowed`; `Unshadowed` says that the run at hand meets none. A run of one job
cannot, since the rows of a job are either captured or unchanged.

For the scheduler (`SchedulerProofs`), for every set of invocations and tasks, every
schedule, retry policy, registry and length of time, provided that the lease is longer
than the time limit of the function and that a task with several attempts has a delay
between them (`DispatchAssumption`):

| Theorem | Property | From |
|---|---|---|
| `TypeCorrect` | `TypeOK`, which is inductive | |
| `OneWorkerAtATime` | `OneWorker` | `TypeOK`, `LeaseInv` |
| `ReceiptsOnlyMoveOn` | `ReceiptsMoveOn` | `TypeOK`, `LeaseInv`, `ReceiptInv` |
| `DispatchesStayCounted` | `DispatchesAreCounted` | `DispatchInv`: these and `SentAndTold` |
| `RetriesAlwaysFollowFailures` | `RetriesFollowFailures` | `DispatchInv` |

**`LeaseInv`.** A worker owns a lease that ends at least `LeaseLength` after it began,
and began at most `RunLimit` ago; so its lease holds, and a claim by another one is
refused. A claim or release that nobody waits for belongs to an ended invocation,
and an invocation that has not claimed owns nothing: no late request can take a
working owner's lease away.

**`ReceiptInv`.** Every receipt is stamped with the time of its writer and that time's
slot. Owners have increasing ticks, so a new owner began after every stored receipt;
a late write is applied only under its own writer's lease, when the stored receipt
is that writer's or older. Monotone division gives the order of the slots.

**`SentAndTold`.** A tick may repeat a dispatch only if nothing sent before can still start
or run, and it sees neither what GitHub has not started nor what it does not list yet. The
argument is about what was ever *sent* for a slot: either the slot is `Clear` (all of it
is listed as failed, with the delay over), or it is `Sole`: one dispatch is open, of one
writer, and its run is not older than the receipt. The stored receipt tells which
(`ToldInv`): rejected means clear, sending or accepted means sole at worst. So a
worker that finds no active run and no reason to reconcile knows that the slot is clear
(`WorkInv`), its own receipt is durable before it posts, and a late write, applied only
under its writer's lease, would still tell the truth (`LateInv`). `GithubInv` places every
run in its slot, so that the runs listed are those sent. Cardinalities of finite sets
bound the attempts.

For the monitor, speech, the offline job, the books and the account, for every number of
slots, requests, instances, segments, chapters, tabs, accounts and files and every number
of faults, from one inductive invariant (`MonitorInv`, `Inductive`, `StoreOK` with
`BoundOK` and `FollowOK`) per module:

| Module | Theorem | Property |
|---|---|---|
| `TaskMonitorProofs` | `MonitorTypes`, `SignalsStayAgreed`, `FailuresStayDistinct`, `SilenceIsHeard`, `IncidentsStayReal` | `TypeOK`, `SignalsAgree`, `FailuresAreDistinct`, `SilenceAlarms`, `IncidentsAreReal` |
| `SpeechDeliveryProofs` | `DeliveryTypes`, `DescriptorsStayComplete`, `AnswersStayWhole`, `TasksStayTracked` | `TypeOK`, `DescriptorsAreComplete`, `AnswersAreWhole`, `TasksAreTracked` |
| `SpeechLibraryProofs` | `LibraryTypes`, `LibraryIsPlayable`, `LibraryCountersAreExact`, `LibraryLosesNothing` | `TypeOK`, `PublishedIsPlayable`, `CountersAreExact`, `NothingIsLost` |
| `OfflineBooksProofs` | `BooksTypes`, `PackagesStayWhole`, `OthersPackagesGo` | `BooksTypeOK` with the exclusion of all operations, `PackagesAreWhole`, `OnlyMyPackages` |
| `AuthSessionProofs` | `AccountTypes`, `StoreFollows`, `ProfileIsOfTheSession`, `RecoveryStaysVerified`, `NobodyStaysBusy` | `TypeOK`, `StoreFollowsClient`, `ProfileFollowsSession`, `RecoveryIsVerified`, `BusyEnds` |

Assumptions: requests and segments are finite sets, limits are natural numbers, markers
of absence are none of the values they stand beside, and an instance of the monitor lasts
at least one slot. `OfflineBooks` assumes nothing.

**Monitor.** What a stored state still means to send is what the check does not show yet
(`Told`); the failures a state counts are distinct runs it has read, that ended since its
last success (`Counted`); its deadline is that of a success or of the start (`Dated`);
a tick that computed a state has not lost an incident unless the inbox holds a success
since (`PutOK`). A tick reads several entries at once, with a recursive function over the
inbox. That it keeps these facts is an induction over the entries, which the proof makes
with sets: if an entry broke one, there would be a least such entry (`LeastExists`, from the
well-foundedness of strict inclusion on finite sets), and the entry before it gives the
contradiction.

**Speech.** An answer is whole because of what is known long before it is given: a writer
thread was started for complete audio only and writes the object before the descriptor
(`WriterOK`), a task that returns audio returns a complete object in its own voice
(`OutcomeOK`), and a listener follows a live task of the voice it tries on its own instance
(`FollowOK`). A fallback begins before any sound (`VoiceOK`). The dictionaries
name a task exactly until its callback ran (`TaskRegistered`, `EntryOK`); permits are
counted with the cardinality of the tasks that hold one (`SlotsConserved`).

**Offline job.** `StepOK` and `BucketOK` relate the step of a segment to its row and to the
bucket: what is verified, confirmed or delivered is an object with a descriptor, which
stays when the online service replaces it, since objects are immutable. `ChapterOK`: a
chapter in publication has all its segments delivered. The counters need that a delivered
segment is not staged any more, so a resumed upload cannot deliver it twice.

**Books.** `Exclusive`, `Held`: the lock belongs to the one operation at work. `JobOK`: files saved so
far are there and belong to a record that is downloading, until the download ends.
`JobSwept` and `Covered`: a download for another account than its tab's has a sweep that waits
for it, and a package has a tab whose account it is, or a sweep that will find it, or a
closed tab that sweeps when it starts, or it was left by a sweep that failed.

**Account.** News from the client and cancellations can only weaken a recovery (`Weaker`):
leave it, refresh its token, or end it with all its calls. `RecoveryOK` says that an open
form is verified for its address, that calls still current are those of the recovery at
hand, and that a mail asked for leaves no form open; `CallsOK` carries the identity of the
session through the steps of a call; `BusyOK` says whose work keeps the store busy, and
that it is entitled to free it. For the types, every token is paid for by an act, at once
or ahead (`BoundOK`): by the call that asks for it, or by the failure after which the client
refreshes again. That the store follows the client (`FollowOK`) needs the events still to
come: the last one tells of the stored session unless a refresh is due, a read of bootstrap
that still counts agrees with the storage, and an application that has been told nothing yet
shows nobody. A late word of a sign-in or a sign-out is marked in `tab.late`, and the next
news takes the mark away.

**Only model-checked.** Liveness (`QueueDrains`, `EveryRequestEnds`, `InstancesComeToRest`,
`LibraryGetsPublished`) is out of the prover's reach, as is everything about fairness.
For batches of several jobs `CompletedIsDelivered` is false as it stands (`shadowed`); that it
holds where no row is shadowed is proved and not model-checked. The theorems of the transaction say
nothing of instances with an operator or an outage, where some of them are false; what is
checked there is in `operator` and `crash`. The theorems of the library that take an
operator (induction over naturals, recursive definitions) cannot be instantiated here;
inductions are made from the well-foundedness of finite sets instead.

## Not modelled

Each component's note in `PROJECT.json` says what of it is left out. In whole:

* **Translation batches, process continuation, agent runtime**: stateful and in the plan
  below. The pipeline does not depend on how they work: `TimesRuntime` lets a
  translation end in any way and takes a continuation as one of several wake-ups.
* **Times Capture** beyond what a run lists: discovery and capture drive a browser against
  publishers' pages; what can go wrong there is data.
* **Canonical and Delivery building** beyond versions and indexes, **content, archive and
  administration tools, backend, other applications**: conversions, request handlers and
  views, whose correctness is in their data and which tests reach.
* In the modelled components: e-mail alerts and the monitor of the queue, the old
  direct pings, the speech service's news expiry and key pool, worker limits of the
  offline job, public books, sign-up and deletion of accounts, and the PDF bridge.

## Plan

What is left, in this order:

1. **Translation.** Worker pool, key cool-down, model fallback, deadline.
2. **Continuation.** `continue-times-process.mjs` with GitHub's concurrency group,
   composed with `TimesRuntime`'s wake-ups in place of its fairness assumption.
3. **PDF bridge.** A second download during a save.
4. **Agent.** Credential refresh for concurrent requests.
5. **Proofs.** The operator's commands one by one, with what each may disturb.
