# A verification project for filetwist

filetwist converts images, audio and video. Its web service accepts uploads,
keeps every upload as a *job* on disk, converts the files of a job with external
tools in a worker pool, serves the results, and removes jobs when their retention
window closes. This directory holds TLA+ models of the service, the TLC
configurations that check them on small instances, and TLAPS proofs of the
properties that matter most. Every definition that stands for code is listed in
`PROJECT.json` under `map` with the lines it models.

## Inventory

| Component | State | Operations | Hard parts |
|---|---|---|---|
| Job manager (`internal/jobs/manager.go`, `remove.go`) | `accepting`, `queue`, `queued`, `running`, `controls`, `leases`, `semaphore`, `drained` | Start, Cancel, Delete, RemoveFile, Lease, CleanupExpired, Shutdown, work/process/convertFile/finalize | goroutines of the pool, HTTP handlers and the cleanup loop interleave; results arrive after a cancel; writes fail halfway |
| Per-job locks (`lockJob`) | `jobLocks`, `jobMutex.users` | lock, unlock | lock objects are recycled; `manager.mutex` nests inside them |
| Upload intake (`internal/jobs/upload.go`) | `uploads` (bytes reserved), the request's manifest | Accept, receive, inspect | runs for minutes beside the other requests; shares semaphore and WaitGroup; byte budgets |
| Job store (`internal/jobs/storage`) | job directories: manifest, inputs, outputs | Create, Load, Save, Update, List, Delete | atomic replace, directory sync, partial removal, crash |
| Server (`cmd/filetwist-server`) | phases of `runServer` | recover, serve, stop intake, drain | crash and restart, bounded shutdown |
| Web layer (`internal/web`) | deadlines, stall reports | handlers, downloads, deadlines, client address | progress-aware timeouts, leases around streaming |
| Conversion service, media, image (`internal/conversion`, `media`, `imageconv`) | temporary and final outputs | plan, run, validate, fall back, publish | fallback attempts, publication without replacement |
| Process runner (`internal/runner`) | child process, bounded buffers | Run | exit races timeout and cancellation |
| Probe, profiles, configuration, corpus, CLI | none that survives a call | pure functions, tool discovery | tables and parsing |

How they interact: HTTP handlers call the manager. The manager takes a lock per
job, reads and writes the manifest through the store, and hands started jobs to
the pool over the channel `queue`. Workers and upload probes share `semaphore`,
so at most `MaxConcurrentProcesses` children run. A *lease* counts the users of a
job directory; Delete, RemoveFile and the sweep stay away from a leased job. A
*control* carries the context that Cancel and Delete cancel. Nothing but the
manifests survives the process.

What makes each part correct:

* the manager: a job in use keeps its directory; a started job is converted at
  most once and settles; a cancel reaches the converter; counters of leases,
  slots and jobs are exact; a terminal job never changes again (with one exception,
  see Findings);
* the locks: one critical section per job at a time, no leak, no deadlock;
* intake: a canceled or rejected upload leaves nothing half-listed; reservations
  stay within the free space;
* the store: a reader sees the old or the new manifest, also after a crash;
* the server: restart settles what the last process left, shutdown drains;
* converters and runner: an output is published once, whole, and never over
  another; no child outlives its job.

## Modules

| Module | Models | Role |
|---|---|---|
| `JobStates` | `manifest.go`: states, `Terminal`, `Active` | shared vocabulary |
| `JobLifecycle` | what a manifest may show a client, step by step | abstract specification |
| `JobManager` | manager, intake, downloads, cleanup, shutdown, crash, recovery | the core |
| `JobManagerProofs` | | types, lifecycle, terminal jobs, leases, slots, statistics and the sweep of `JobManager` |
| `JobScheduleProofs` | | extends `JobManagerProofs`: scheduling, cancellation, use, recovery, outcomes, drain |
| `JobMutex` | what `lockJob` promises | abstract specification |
| `JobLocks` | `lockJob`, unlock, nesting of `manager.mutex` | justifies the atomicity of `JobManager` |
| `JobLocksProofs` | | theorems about `JobLocks` |
| `ManifestStore` | what the store promises about one manifest | abstract specification |
| `JobDirectory` | `storage/store.go`, `remove.go`: one job directory, system call by system call | refines `ManifestStore`; justifies the outcomes of `Save` in `JobManager` |
| `JobDirectoryProofs` | | theorems about `JobDirectory` |
| `UploadIntake` | `upload.go` and the upload handler, byte by byte | reservations, limits, answers |
| `UploadIntakeProofs` | | theorems about `UploadIntake` |
| `Runner` | `runner.go`: one command and its context | used by `ConversionService` |
| `ConversionService` | `conversion`, `imageconv`, `media`: a call of `Convert` with all its commands | composes `Runner`; justifies the results that `JobManager` assumes |
| `ConversionServiceProofs` | | theorems about `Runner` and `ConversionService` |
| `Deadlines` | `web/deadline.go`: one connection in discrete time | justifies the bounded uploads and downloads of `JobManager` |
| `DeadlinesProofs` | | theorems about `Deadlines` |
| `Profiles` | the registry of operations | shared vocabulary |
| `MediaPlan`, `ImagePlan` | `media/plan.go`, `select.go`, `validate.go`; `imageconv/plan.go`, `validate.go` | pure decisions |
| `Planning` | inspection, and plan, run and validation of one file | composes `MediaPlan` and `ImagePlan` |
| `PlanningProofs` | | theorems about `Planning` |
| `MC...` | | instances for TLC |

### JobManager

A step is one critical section: what the code does between taking and releasing
the job's lock or `manager.mutex`, or a step on memory that only one goroutine
sees. Calls that return an error before they change anything do not appear.

* *Disk.* `jobState[j]` and `fileState[j]` are the manifest: `"unused"` before
  `NewID` draws the identifier, `"deleted"` once the directory is gone, and the
  file state `"absent"` for a file that is not listed. `expired` holds the jobs
  whose `ExpiresAt` has passed. `Save` has three outcomes: *saved*, *lost* (an
  error before the rename) and *unsynced* (an error from `syncDir` after the
  rename has published the manifest). The last two are errors to the caller;
  `MaxFaults` bounds how many happen.
* *Memory.* `queue`, `queued`, `running`, `controls`, `leases`, `semaphore`,
  `accepting` and `drained` are the fields of `Manager`; `cancelled` is the set of
  jobs whose control's context is canceled; `stopped` says that `baseCtx` is
  canceled and the queue closed.
* *Goroutines.* `worker[w]` holds the locals of `work`, `process` and
  `convertFile`; `upload[j]` those of the Accept call that creates `j`;
  `deleting[j]` where a Delete call stands between its two sections; `reader[r]` a
  download; `candidates` what is left of the listing of the current sweep.
* *Process.* `phase` and `starts` follow `runServer`: recovering, serving, down.
  `Crash` and `Exit` lose everything but the disk.

Two abstractions merge steps. `RecordFile` performs the last manifest update of
`convertFile` and the deferred release of its process slot in one step: between
the two the goroutine does nothing that another one can see except hold the slot,
and slots held longer are covered by the steps before. `WorkerDone` joins the
section that drops the control with the `cancel` that follows it, which no other
goroutine can observe because the control is unreachable by then.
`converter.Convert` returns any result, except that only a canceled context is
reported as canceled (`failureFrom`, `contextFailure`). `inspect` can also leave
early when the input directory has no valid name; that needs an invalid job
identifier, which `NewID` never produces, and is left out.

Accept removes the job of a rejected upload, or of one whose last update failed,
with a `store.Delete` that does not hold the job's lock. It is therefore three
steps between which others run: the load (`AcceptReject`, `AcceptDiscard`), the
removal, and the save of the loaded manifest when the removal failed and the
manifest was empty (`AcceptRestore`). The removal succeeds (`AcceptRemoved`), fails
on some entry with or without the manifest unlinked (`AcceptRemoveFails`, counted
as a fault), or fails because another section has renamed a manifest into the
directory since the load, so that the final `rmdir` finds it not empty
(`AcceptRemoveRaced`, which needs no fault). `RemoveFile` may fail where it empties
a job. The removals of `Delete` and `CleanupExpired` hold the lock and succeed here;
`JobDirectory` models their failure, entry by entry.

In `JobLifecycle` a job whose rejected upload is being taken away is `withdrawn`:
it vanishes, or its empty manifest is put back as `Accept` had loaded it. That is
the only step of the lifecycle that goes backwards.

### JobLocks

`Register` is `lockJob` up to `lock.Lock()`, `Acquire` its return, `Unlock` and
`Deregister` the two halves of the unlock closure, `Nest` and `Unnest` a section
of `manager.mutex` inside the job lock. A lock object may be reused as soon as
nothing refers to it, as the garbage collector may do.

### ManifestStore and JobDirectory

`ManifestStore` is a manifest that is replaced, read and removed as a whole, and
that a crash may take back to an older version, but never behind the last one
that was made durable. `JobDirectory` has the calls that make
it up: `MkdirAll`, the temporary manifest that is created, written, flushed,
renamed over the old one, and the flush of the directory; the inputs that an
upload streams in; `RemoveFile` with its save, unlink and rollback; `Delete` with
the entries that `os.RemoveAll` takes in any order. `op` is the operation in
progress, `op.pc` its next call. The job's lock leaves one operation at a time, with
two exceptions. While Accept receives, another request may cancel the job
(`UpdateDuringIntake`, between two uploaded files). While Accept removes a rejected
upload, another request may do the same; that race is modelled in `JobManager`, at
the level of manifests, and not here. Every call
may fail, up to `MaxFaults` times, and the code's handling of that failure is the
other disjunct of its action.

`disk` is what a reader sees, `recoverable` what a crash may bring back: every
directory since the last flush of the directory that succeeded. A file system that
cannot flush directories answers EINVAL or ENOTSUP, which `directorySyncError` takes
for success; `DirectorySyncs` says which kind it is. The run takes one that can; the
theorems hold for both, and `AnswerIsDurable` claims something for the first only.
Either journals metadata in order; the contents
of a file are durable only after its own flush, so a rename that overtook the
flush of the temporary file would leave a *torn* manifest. Outputs, and the three
subdirectories, are one flag, `rest`: no property tells them apart.

### UploadIntake

A byte stands for a block of any size, and the body is what the client and the
network make of it: parts in any order and of any length, ended by a boundary or
cut anywhere. `Reserve` and the release are the sections of `reserveUpload`; the
rest are the steps of `receive`: the next part, a form field, a file with its
unique name, one byte copied, the end of the part, the limits in the order in
which the code looks at them, the final answer and its status. `foreign` are the
bytes of writers that reserve nothing (conversions and other programs).
`DisplayName` is what `SafeFileName` returned; a unique name appends the smallest
number that makes it free, so that one client name can be what another becomes.

### Runner and ConversionService

A conversion runs one command at a time. `run[c]` is that command: the child, the
goroutine that waits for it, the timer, what `Run` returned. The child may exit at
any moment with success or failure, or hang; the context of the caller may end at
any moment; the timer fires only while the command runs. When two of these have
happened, the `select` of the code may see either first.

`conv[c].pc` is the stage of `Service.Convert`: detection by libvips then ffprobe,
the choice of the operation, the output path, then either the image engine (work
directory, decode probe, transparency probe, the commands of the plan,
verification, link) or the media engine (acceleration and its VA-API probes,
filters, the attempt, the fallback on the CPU, verification, link). A stage that
runs several commands counts those that follow in `left`; image plans and probes
for transparency have more than one. `temps` are the files and directories that
exist beside the output, which deferred removals take on every return. What a tool
finds in a file is nondeterministic here: a validation may accept or refuse.
Conversions aim at one output path; `target` says who wrote the file there.
`early` remembers contexts that ended before the code looked at them for the last
time; only afterwards may a canceled conversion still succeed.

### Deadlines

Time is counted in steps. A blocked read or write returns no later than its
deadline, and the handler itself may take up to `MaxBusy` steps. Each request has
its own body and writer wrappers, while the deadlines belong to the connection and
stay when it is kept alive, which is why two requests in a row are modelled, with
the connection resting up to `MaxIdle` steps between them. Both windows are on, as
in the default configuration; a transport that refuses deadlines is included.

### Profiles, MediaPlan, ImagePlan and Planning

These are the decisions about one file, as operators over a *probe* (streams with
codec, size, rotation, pixel format, colour and range, channels and their layout,
length, and whether ffprobe reports that length) or a *header* (format,
layout, size, orientation, pages, profile, metadata). Numbers that are compared
with limits keep their values; strings are the few that the code compares. Around
them stand two external operators, `Encode` and `Apply`: what ffmpeg and libvips
write when given a plan. `Planning` uploads a file, inspects it, chooses an
operation, plans it under any acceleration mode and readiness, "runs" the plan and
validates the output.

Of a media probe nothing is assumed but its type: any stream, and the container,
may or may not state its length. `ImageFileAssumption`: libvips gives images of 16
bits, other than CMYK, an interpretation of their own, and finds a capture date
only in EXIF (`AsLoaded`). `Encode` assumes that ffmpeg writes what its arguments
ask for: with `-color_range tv` and the like the stated colour, with `-ac 2` the
layout `stereo`, with FLAC the layout of the source (one of its own choice if the
source states none), and an output as long as the longest stream it maps. Besides,
`has-alpha` in a header follows from the bands as the loaders of libvips set it, and
quotients round as integers. Warnings about dropped audio streams, quality arguments
and the list of metadata tags are left out.

The validator also compares the length of the output with what the plan expected:
the longest kept stream that states its length, or the container's length when none
does. `PlanKeepsItsPromise` says that this check passes exactly where the probe
tells how long the kept streams are (`LengthIsTold`), so it also says on which files
a correct output fails; no other check ever does.

## Runs

| Run | Instance | Shows |
|---|---|---|
| `manager_pool` | 1 job, 2 files, 2 workers, 1 reader, 2 starts, 1 failed write or removal | types, settled and final terminal jobs (`TerminalJobIsSettled`, `TerminalIsFinal`), honest outcomes (`OutcomeIsHonest`), the refinement of `JobLifecycle`, exact leases (`LeasesAreCounted`), jobs in use keep their directory (`JobInUseExists`), one schedule per job (`ScheduledOnce`), cancels reach the converter (`CancelReachesConverter`), recovery is complete (`OldJobsAreInterrupted`), stale listings are harmless (`SweepSparesJobsInUse`) |
| `manager_queue` | 2 jobs, 1 file, 1 worker, queue of 1 | exact slots and statistics at full queue and full semaphore, every active job is scheduled, a drain leaves nothing |
| `manager_live` | 1 job, 2 files, 1 worker, 1 reader, fairness | started jobs settle, shutdown drains, expired jobs are removed |
| `job_locks` | 3 goroutines, 2 jobs, 3 objects, fairness | mutual exclusion, exact table, refinement of `JobMutex`, every lock call completes |
| `directory` | 2 files, 2 failing calls, 1 crash | no manifest names an input that is gone, also after a crash (`NoDanglingReference`); what was acknowledged survives (`AnswerIsDurable`); an emptied job whose removal fails stays listed (`EmptyJobStaysListed`); refinement of `ManifestStore` |
| `intake` | 2 uploads, disk of 5, floor 1, upload limit 3, 2 foreign bytes | the floor holds against all uploads together (`UploadsSpareTheFloor`), an accepted upload is on disk whole under distinct names and a rejected one left nothing (`AnswerMatchesDisk`), the status tells the reason (`StatusIsHonest`) |
| `conversion` | 1 conversion and a rival writer, fairness | success exactly when the output is its own (`AnswerMatchesOutput`), nothing is overwritten (`NeverReplaced`), no child or temporary file stays (`NothingLeftBehind`), `CancelIsHonest`, one retry and only after a hardware attempt that exited by itself (`RetryIsJustified`), every call returns (`ConversionReturns`) |
| `deadlines` | 2 requests, windows of 2, rate 1, body of 5 | a body is cut only if it stalled or dripped (`StallIsJustified`), a body that may be cut at all is open for a bounded time (`HoldIsBounded`), a response is never charged for what came before it (`ResponseGetsItsWindow`) |
| `planning` | some thousand images and media files | an output made as planned passes its validation on every path, in length exactly if the probe tells it, on white, in shape and exact (`PlanKeepsItsPromise`), what inspection offers a conversion accepts (`OfferIsHonest`) |
| `manager_stuck` | 1 job, 1 file, 1 failed write, fairness | a violation, see Findings |
| `manager_discard` | 1 job, 1 file, 1 failed write | a violation, see Findings |
| `manager_restore` | 1 job, 1 file, nothing fails | a violation, see Findings |

*Bounds.* Two workers are enough for two goroutines to compete for one job or one
slot; two files are enough for a job with mixed outcomes, a cancel between files
and a `RemoveFile` that does or does not empty the job; two jobs and a queue of
one fill the queue while a job runs; two starts give a crash at every point
followed by a full recovery; one failed write reaches each error path once.
`MaxStarts` and `MaxFaults` are the only bounds of `JobManager` that the code does
not have.

In `directory`, two files give a removal that empties the job and one that does
not, and two faults a failing call followed by a failing rollback. In `intake`,
the disk cannot hold both budgets above the floor, other writers can eat up a
reservation until the disk is full, one upload can be larger than
its limit, and three files with clashing names fit into one upload. One conversion
meets every stage, and `another program` plays any rival for the path; the proofs
cover any number of conversions. In `deadlines`, a window of 2 and a body of 5 let
a transfer make progress inside every window and still fall under the rate floor;
`MaxTime` is longer than the longest request that the policy allows. `planning`
takes sizes at and one beside every limit, every colour signal, layout and
rotation; its state space is the set of files times the choices, and every state
is reached in three steps.

*Symmetry.* Workers are interchangeable, and so are jobs and upload requests;
symmetry is used only in runs without fairness or liveness. The one refinement among
them, of `JobLifecycle`, is a safety property whose state does not mention workers.

*Deadlock* is checked in the manager and lock runs; `Ended` is the only idle state
there: the last process has ended. The five other systems may really stop: the
requests have been answered, the conversion has returned, the job is removed.

*Fairness* (`LiveSpec`): a goroutine that can run does run. An upload is bounded by
the read deadlines, a probe by `inspectTimeout`, a conversion by `CommandTimeout`,
a download by the write deadline, so each of these steps is weakly fair; the
cleanup ticker keeps firing; recovery proceeds. No client request, shutdown,
crash, exit or expiry is forced. In `JobLocks` the mutexes are strongly fair,
because `sync.Mutex` hands over to a waiter that has starved for a millisecond.
In `ConversionService` the steps of the code and of `Run` are weakly fair, and so
is the timer of a command. A child never has to exit by itself, no context has to
end, and no rival has to write.

### Findings

* **A started job that nobody runs** (`manager_stuck`). `Save` can fail in
  `syncDir` after the rename. `Start` then returns the error without enqueuing
  (`manager.go:380`), but the manifest on disk says `queued`. No worker will
  settle the job, `Start` refuses it as not pending, and `CleanupExpired` skips it
  as active, although its comment promises to remove every expired job that is
  "neither leased nor actively converting". A restart or an explicit Cancel or
  Delete is the way out. `RemoveFile` knows this kind of failure and rolls back.
* **Accept deletes a job in use** (`manager_discard`). When the last update of
  `Accept` fails in the same way, other clients already see the listed files. One
  may start the job; `Accept` then removes the directory (`upload.go:136`) under
  the worker that leased it, without the job lock or a look at the leases, while
  `docs/web.md` says that active work postpones removal.

These two need a directory flush that fails. Without one, expired jobs are removed
(`manager_live`) and a job in use keeps its directory (`JobInUseExists`).

* **A canceled job is pending again** (`manager_restore`). A Cancel may run while
  Accept removes the job of a rejected upload (`upload.go:101`), because that
  removal does not hold the job's lock. The rename that publishes `canceled` makes
  the final `rmdir` fail, and `store.Delete` then saves the `pending` manifest it had
  loaded over the terminal one (`store.go:262-271`), although `manifest.go:46` says
  of a terminal state that "no further work will change" it. Nothing has to fail.
  The harm is small: the job lists no file, cannot be started, and the sweep removes
  it. `TerminalIsFinal` and `JobLifecycle` allow this step and no other of its kind.

One more disagreement has no run of its own, since `PlanKeepsItsPromise` states it:

* **A dropped stream fails the conversion.** When none of the
  kept streams states its length, the plan expects that of the container
  (`media/plan.go:647`), which is as long as its longest stream. With a longer audio
  track that is dropped, a correct output fails the check of its duration, after the
  whole encode, although `docs/web.md:102-104` says that such tracks produce warnings
  and that the video can succeed. `probe.go:163-164` names the case and reads
  Matroska's duration tags; a file without them is left. The run `planning` contains
  such files, and the theorem says for every file whether it is one of them.

### Observations

Behaviour met while modelling that no document of the repository speaks against:

* a disk that fills up while a part is copied is answered with 400, like a broken
  body; 507 is the answer only when the reservation was short from the start;
* `smaller_video` may enlarge an odd side by one pixel to make it even;
* in mode `auto`, a VA-API probe that times out fails the conversion instead of
  falling back to the CPU;
* when only one of two kept streams states its length and the other is longer, the
  plan expects the shorter one, and a correct output fails the validation of its
  duration (`media/plan.go:632-646`);
* a header of an image output that cannot be parsed is reported as an unsupported
  input, the same kind as a rejected upload (`imageconv/header.go:38`);
* a job with files whose `RemoveAll` fails after its manifest is gone is no longer
  listed, and nothing retries the rest.

## Proofs

`tlapm` on the eight modules whose names end in `Proofs` checks them. The theorems
hold for every value of the constants that satisfies the assumptions declared
beside them: finite sets of workers, readers, files and upload requests, at least
one worker, file, queue slot and start, distinct names for distinct actors, and a
mark for "no job" (`NoJob`) that is not a job. Jobs may be infinitely many. The
bounds of the runs (`MaxStarts`, `MaxFaults`, `MaxCrashes`, `MaxForeign`,
`MaxTime`) are constants too, so a theorem holds for all of them. In `Planning` the
constants are the files themselves: any set of probes, and any set of headers that
satisfies the assumption above.

*Locks.* The inductive invariant `LockInv` says that an object is in the table
for at most one job, that `users` is the number of goroutines whose closure keeps
it (never zero for an entry), and that whoever is inside a section holds the
object of its job. Mutual exclusion alone is not inductive: `Deregister` would
remove an object that others wait for if the count were not exact. From it follow
`JobSectionsExclude`, `LockTableIsExact` and `LocksImplementMutex`. The last one
shows that `lock.Lock()` and `lock.Unlock()` are the abstract `Enter` and `Leave`
and that everything else stutters.

*Manager.* `TypeInvariance` is proved from `TypeOK`, `WorkerShape` (a busy
worker has a job, one inside `convertFile` has a file) and `SeenIsStored` (a
manifest that Accept may put back is one that it loaded). The other theorems rest on
`ManagerInv`, which adds

* `UploadFilesAreProbed`: the files an Accept call collects are uploaded,
  inspected or failed;
* `IntakeIsPrivate`: until Accept's last update, the manifest lists no file and is
  pending, canceled or gone, so nobody but Cancel and deletion can have touched it,
  and what a withdrawal has loaded was pending or canceled;
* `UnsyncedIsListed`: a last update that was published and failed afterwards has
  listed files, and nobody unlists them but a deletion, so that no such job is
  withdrawn as an empty one (`RemoveFile` stays away from a leased job, which is why
  `LeasesAreCounted` is part of this invariant);
* `ScheduledIsListed`, `WorkIsBegun`: what is in the queue or with a worker has
  left intake, and a worker that converts works on a job that has begun;
* `GoneIsEmpty` and `TerminalJobIsSettled`.

The argument goes through the abstract specification. `LifecycleStep` shows that
steps of `JobLifecycle` keep manifests settled and move them only forward;
`StepRefines` shows, action by action, that a step of the manager is a step of the
lifecycle or a stutter, with the Accept calls that withdraw an empty job as the
abstract `withdrawn`; the remaining conjuncts are preserved one action at a
time. `TerminalJobsAreSettled`, `TerminalJobsAreFinal` and
`ManagerImplementsLifecycle` follow.

*Counts.* `CountInv` is `ManagerInv`, which has `LeasesAreCounted`, with
`StatsAreExact` and `SlotInv`: the semaphore counts the probes and the workers with a slot, of which
there are finitely many, and a worker has a slot only inside `convertFile`
(without that, `WorkerDone` could end with a slot that nobody gives back). A count
is the cardinality of a set of holders, so most steps need only that the set is
the same; for the others, one lemma per operation names the element that joins or
leaves. `releaseLease` stops at zero in the code; the exact count shows that it
never has to. `LeasesAreExact`, `SlotsAreExact`, `StatsAreReliable` and, because
the lease count that a sweep re-reads stands for every holder,
`SweepsSpareJobsInUse` follow.

*Schedule.* `ScheduleInv` is built in two layers. `OnceInv` adds to `CountInv`

* `FilesFitState`: what the lifecycle alone guarantees of files and job state;
* `Roster`: who can exist in which phase (no goroutine outside serving, nobody but
  downloads after a drain, no worker leaves a queue that is open or not empty);
* `StartedOnce`: what is in the queue or with a worker has been started, the
  entries of the queue differ, and no job is in both places or with two workers.

`ScheduledOnce` rests on the fact that a started job never shows as pending again,
which is a property of the lifecycle and so comes from the refinement. The second
layer adds the properties themselves and what they need: the control of a
scheduled job stays registered (`ControlsAreKept`: Delete and the sweep drop it
only with the job, and never under a lease), users of a directory have a job that
exists (`UsersAreSafe`), a job that no worker has begun is not running
(`NotYetRunning`), and as long as every write succeeds a worker that was not
interrupted leaves no file behind (`WorkIsTidy`). Two lemmas carry the case
analysis: `QueueMoves` (who changes the queue) and `StateMoves` (who creates,
queues, fails and removes a job); then one lemma per conjunct goes through the
actions. `JobsInUseStay`, `ActiveJobsAreScheduled` and half of `OutcomesAreHonest`
carry the hypothesis `faults = 0` of their properties; Findings shows why.

*Intake.* Sums over requests and files are cardinalities of sets of blocks
(`Total`), and lemmas about them (`TotalChange`, `TotalGrows`, `TotalLeq`) replace
induction. `IntakeInv` has a part about each request and a part about all of them.
`RequestInv` says that the locals of `receive` agree with the files as long as
nothing failed (`LedgerInv`: `remaining` and the bytes stored make up the budget,
`count` is the number of files), that a rejected request keeps no files beyond
`Discard` (`ErrorInv`), that every file has a byte and the part being copied a name
of its own (`FilesInv`), and what `limitErr` says about the budget (`LimitInv`).
The sums: `uploads` is what active requests reserved, free, foreign and stored
bytes make up the disk, and what may still be written is above the floor. The
floor alone is not inductive: `Reserve` compares the *reservations* with the free
space, so the proof needs that nobody may write more than it holds. A lemma per
transition shows what it does to one request, and `StepKeepsBooks` that a request
which accounts for its change keeps the sums. `NameIsFree` shows that
`UniqueFileName` finds a name, by the pigeonhole principle: it tries `MaxFiles`
numbers against fewer names. `FloorIsSpared`, `AnswersMatchDisk` and
`StatusesAreHonest` follow.

*Deadlines.* `DeadlineInv` says that a blocked call has a deadline of its own window
(`ReadWindow`, `WriteWindow`), that no write deadline of an earlier response is
armed while a request is read (`IntakeIsUntimed`), and that between two reads a body has
been open no longer than the rate floor allows plus the handler's own time
(`RateIsKept`). The last one is what bounds a client that drips: it holds after
every read because the rate is checked there, and a read adds at most a window.
`CutsAreJustified`, `HoldsAreBounded` and `ResponsesGetTheirWindow` follow.

*Directory.* `NoDanglingReference` and `AnswerIsDurable` speak about every
recoverable directory, and neither is inductive: that no input goes before the
manifest that drops it is durable depends on where the operation stands.
`DirectoryInv` therefore adds what is true at each call: a save lists only inputs
that are there (`SavesWhatIsThere`) and not the file being removed
(`ExcludesTheFile`); after the rename the directory shows the saved manifest
(`RenamedIsShown`), whose temporary file had been flushed (`RenamesFlushed`); an
input is unlinked only when the manifest has dropped it, in every recoverable
directory where the directory can be flushed (`UnlinksAfterSync`); an answer is given
at the end of an operation only (`AnswersAtTheEnd`). Without the flush an older
directory may come back, but that one still has the input. `DirectoryTypeCorrect`, `NothingDangles`, `AnswersSurvive` and
`DirectoryImplementsStore` follow, the last one action by action.
`EmptyJobsStayListed` needs a second invariant, `ListingInv`, about executions with
at most one fault and no crash: readers see the manifest published last or none,
an operation that loaded it finds it in place, a removal knows whether it was
empty, and an operation that only a failure starts has used up the fault.

*Conversion.* `ConversionInv` consists of `TypeOK`, `CommandInv` (a command
that has returned has reaped its child, and it reports a cancellation only of a
canceled context) and
`ReportInv` (a result and the output agree, attempts and their outcomes fit the
stage, a context that ended in time is remembered until the last look at it). The
many steps of `Convert` have few *shapes*: it fails and says so truthfully
(`FailsHonestly`), it moves on and touches nothing that others see (`Moves`), or
it publishes (`Publishes`). One lemma per group of stages shows that each step has
one of these shapes, and one lemma per shape that it keeps the invariant.
`ConversionTypeCorrect`, `AnswersMatchOutputs`, `OutputsAreKept`, `NothingIsLeft`,
`CancellationsAreHonest` and `RetriesAreJustified` hold for any set of conversions
that compete for one path.

*Planning.* `PlanInv` adds to the two properties that an offer is what inspection
makes of this very file (`OfferMade`) and that a plan is one the planner builds for
this file and an offered operation (`PlannedAs`): validation reads the plan's own
expectation, so without the plan's origin nothing can be said about the output. The
work is in the decisions:

* *Registry and checks.* `Lookup`, the first offered operation and the chains of
  early returns are searches for the least index (`LeastNumber`, from the
  well-foundedness of the natural numbers). `AcceptedImages` reads off what a plan
  that is not refused knows about its image; `ImageValid` and `MediaValid` show that
  what the inspection accepted the planner accepts, up to missing hardware.
* *Scaling.* `FitKeepsShape`, `EvenFloorKeepsShape` and `EdgeKeepsShape` bound the
  rounding of both scalers from both sides, for every size: the shape is kept
  within the slack, and the profile's limits hold.
* *Streams.* `VideoKept` and `AudioKept` go through selection, arguments, contract
  and validation, for the hardware path and for the CPU path: frames that stay in
  hardware are upright, SDR and 8-bit; colour, range, channels, layout and rate are
  what the contract says; and the length of the kept streams is within the tolerance
  of what it expects exactly when the probe tells it (`DurationHolds`; the longest
  stream of the container exists by `StreamsAreBounded`).
* *Pictures.* The commands of an image plan are applied by a recursive function.
  `RenderingExists` shows by induction over a set of numbers (`SetInduction`) that
  it has a solution, and `RenderedInStages` that the output is the chain of the
  stages: upright, flattened, converted, flattened, resized, saved. One lemma per
  stage says what the picture is then; white and the scale of alpha are right
  because a flatten comes before the interpretation changes, or without a change.

`PlansKeepTheirPromise` and `OffersAreHonest` follow.

*Only model-checked:* liveness (`StartedJobSettles`, `ShutdownDrains`,
`ExpiredJobIsRemoved`, `LockCallCompletes`, `ConversionReturns`), which needs
fairness and ENABLED, beyond the prover. Every other property of a passing run is a
theorem.

## Not modelled

* The client address behind proxies, configuration parsing, `SafeFileName` and the
  parsing of ffprobe, libvips, progress and MP4 data: functions of characters and
  bytes without state; the models take their results as inputs.
* Views, the page script, logging: rendering. The script's polling repeats
  requests that `JobManager` allows at any moment.
* The bound of the output buffers in the runner; signal handling and the split of
  the drain budget in the server; the lookup and version probes, which only report.
* The corpus tooling and the command line: no part of the service. A command-line
  call is one conversion of `ConversionService`.

## Plan

1. The composition of what is proved separately: the outcomes of `Save` that
   `JobManager` assumes are those of `JobDirectory`, and the results of
   `converter.Convert` those of `ConversionService`.
2. The remaining pure functions (client address, bounded buffers) against
   reference definitions, where characters can be abstracted faithfully.
