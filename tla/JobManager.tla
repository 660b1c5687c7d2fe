----------------------------- MODULE JobManager -----------------------------
(***************************************************************************)
(* The job manager of the filetwist web service: upload intake, the job    *)
(* queue and its worker pool, the process semaphore, cancellation, leases, *)
(* explicit deletion, expiry cleanup, shutdown, and restart recovery       *)
(* (src/internal/jobs/manager.go, upload.go, remove.go).                   *)
(*                                                                         *)
(* An action is one critical section: the code between taking and          *)
(* releasing the job's lock or manager.mutex, or a step that touches only  *)
(* the memory of its goroutine.  That sections of one job exclude each     *)
(* other is the subject of module JobLocks.  Accept removes the job of a   *)
(* rejected upload without the job's lock, so that removal is several      *)
(* actions: other sections of the job run between them.  Calls that return *)
(* an error before changing anything are not actions: they leave every     *)
(* variable unchanged.                                                     *)
(***************************************************************************)
EXTENDS JobStates, Integers, Sequences, FiniteSets

CONSTANTS
    Job,        \* job identifiers; NewID never draws one twice
    Worker,     \* goroutines running work(): MaxConcurrentProcesses of them
    Reader,     \* concurrent download requests
    MaxFiles,   \* MaxFilesPerJob
    QueueDepth, \* capacity of manager.queue
    MaxStarts,  \* bound: how often the process is started
    MaxFaults   \* bound: how many manifest writes and removals by Accept fail

ASSUME BoundsAssumption ==
    /\ MaxFiles \in Nat \ {0}
    /\ QueueDepth \in Nat \ {0}
    /\ MaxStarts \in Nat \ {0}
    /\ MaxFaults \in Nat

ASSUME ActorsAssumption ==
    /\ IsFiniteSet(Worker) /\ Worker # {}
    /\ IsFiniteSet(Reader)
    /\ Worker \cap Reader = {}
    /\ Worker \cap Job = {}
    /\ Reader \cap Job = {}

VARIABLES
    jobState,   \* manifest.State of every job, on disk
    fileState,  \* manifest.Files[].State of every job, on disk
    expired,    \* jobs whose retention window has closed
    faults,     \* manifest writes and removals by Accept that failed so far
    phase,      \* "down", "recovering" or "serving": where runServer is
    starts,     \* how often the process was started
    accepting,  \* manager.accepting
    stopped,    \* baseCtx is canceled and manager.queue is closed
    drained,    \* manager.drained is closed
    queue,      \* manager.queue
    queued,     \* manager.queued
    running,    \* manager.running
    controls,   \* the keys of manager.controls
    cancelled,  \* jobs whose jobControl.ctx is canceled
    leases,     \* manager.leases, 0 for a missing key
    semaphore,  \* len(manager.semaphore)
    worker,     \* the goroutines in work()
    upload,     \* the Accept call that creates a job
    deleting,   \* the Delete call on a job
    reader,     \* the download handlers
    candidates  \* what is left of the listing of the current cleanup sweep

diskVars    == <<jobState, fileState, expired, faults>>
processVars == <<phase, starts, accepting, stopped, drained>>
queueVars   == <<queue, queued, running>>
controlVars == <<controls, cancelled>>
managerVars == <<processVars, queueVars, controlVars>>
countVars   == <<leases, semaphore>>
clientVars  == <<deleting, reader, candidates>>
vars == <<jobState, fileState, expired, faults, phase, starts, accepting, stopped,
          drained, queue, queued, running, controls, cancelled, leases, semaphore,
          worker, upload, deleting, reader, candidates>>

-----------------------------------------------------------------------------
(* Types *)

\* File identifiers f001, f002, ... in upload order.
File == 1 .. MaxFiles

NoJob == "no job"
NoFile == 0

\* No identifier that NewID draws is mistaken for the absence of a job.
ASSUME NoJobAssumption == NoJob \notin Job

Files == [File -> FileState \cup {"absent"}]

\* Nothing is listed: what Create writes.
NoFiles == [f \in File |-> "absent"]

WorkerPc == {"idle", "received", "lease", "begin", "scan", "mark", "acquire", "slot",
             "converting", "recordResult", "recordCancel", "recordFailure",
             "finalize", "release", "done", "exited"}

\* job, file, todo, ctl, stop, slot, result are the locals of work(), process()
\* and convertFile(): the job popped, the file at hand, the queued files of the
\* manifest snapshot not yet visited, control != nil, the argument of finalize,
\* whether the deferred semaphore release is pending, and what Convert returned.
WorkerRecord == [pc : WorkerPc, job : Job \cup {NoJob}, file : File \cup {NoFile},
                 todo : SUBSET File, ctl : BOOLEAN, stop : BOOLEAN, slot : BOOLEAN,
                 result : {"none", "completed", "failed", "canceled"}]

WorkerAt(pc) == [pc |-> pc, job |-> NoJob, file |-> NoFile, todo |-> {}, ctl |-> FALSE,
                 stop |-> FALSE, slot |-> FALSE, result |-> "none"]

UploadPc == {"none", "reserved", "receiving", "inspecting", "probing",
             "unsaved", "unsynced", "withdrawing", "removing", "restoring",
             "return", "returned"}

\* files is the in-memory manifest.Files that receive and inspect fill; seenState
\* and seenFiles are the manifest that the store.Delete of Accept has loaded.
UploadRecord == [pc : UploadPc, files : Files,
                 seenState : JobState \cup NoManifest, seenFiles : Files]

UploadAt(pc) == [pc |-> pc, files |-> NoFiles, seenState |-> "unused", seenFiles |-> NoFiles]

ReaderRecord == [pc : {"idle", "leased", "streaming"}, job : Job \cup {NoJob}]

IdleReader == [pc |-> "idle", job |-> NoJob]

DiskTypes ==
    /\ jobState \in [Job -> JobState \cup NoManifest]
    /\ fileState \in [Job -> Files]
    /\ expired \subseteq Job
    /\ faults \in 0 .. MaxFaults

ManagerTypes ==
    /\ phase \in {"down", "recovering", "serving"}
    /\ starts \in 1 .. MaxStarts
    /\ accepting \in BOOLEAN /\ stopped \in BOOLEAN /\ drained \in BOOLEAN
    /\ queue \in Seq(Job)
    /\ queued \in Int /\ running \in Int
    /\ controls \subseteq Job /\ cancelled \subseteq Job

CountTypes == leases \in [Job -> Nat] /\ semaphore \in Int

ClientTypes ==
    /\ deleting \in [Job -> {"none", "check", "waiting", "ready"}]
    /\ reader \in [Reader -> ReaderRecord]
    /\ candidates \subseteq Job

\* One type invariant: every variable stays in the set its Go type stands for.
TypeOK ==
    /\ DiskTypes /\ ManagerTypes /\ CountTypes /\ ClientTypes
    /\ worker \in [Worker -> WorkerRecord]
    /\ upload \in [Job -> UploadRecord]

-----------------------------------------------------------------------------
(* The store and the lease table *)

\* store.Load succeeds.
Exists(j) == jobState[j] \in JobState

\* store.Save.  A write can fail before the rename publishes it ("lost") or
\* after it, while the directory is flushed ("unsynced"): both are errors to the
\* caller.
Save(j, state, files, outcome) ==
    /\ outcome # "saved" => faults < MaxFaults
    /\ faults' = IF outcome = "saved" THEN faults ELSE faults + 1
    /\ jobState' = IF outcome = "lost" THEN jobState ELSE [jobState EXCEPT ![j] = state]
    /\ fileState' = IF outcome = "lost" THEN fileState ELSE [fileState EXCEPT ![j] = files]
    /\ UNCHANGED expired

SaveOutcome == {"saved", "lost", "unsynced"}

\* RemoveAll takes the whole directory; it is a no-op on a job that is gone.
Remove(j) ==
    /\ jobState' = IF Exists(j) THEN [jobState EXCEPT ![j] = "deleted"] ELSE jobState
    /\ fileState' = IF Exists(j) THEN [fileState EXCEPT ![j] = NoFiles] ELSE fileState
    /\ expired' = expired \ {j}
    /\ UNCHANGED faults

\* Manager.Leased
Leased(j) == leases[j] > 0

\* releaseLease leaks the count of the last holder.
LeasesAfterReleaseBug(j) == [leases EXCEPT ![j] = IF @ <= 1 THEN @ ELSE @ - 1]

\* Manager.releaseLease
LeasesAfterRelease(j) == [leases EXCEPT ![j] = IF @ <= 1 THEN 0 ELSE @ - 1]

\* Capacity of manager.semaphore: the pool has one goroutine per process slot.
Capacity == Cardinality(Worker)

\* jobCtx.Err() != nil in process and convertFile: the context of the control
\* captured by work(), which is a child of baseCtx, or baseCtx itself.
CtxDone(w) == stopped \/ (worker[w].ctl /\ worker[w].job \in cancelled)

-----------------------------------------------------------------------------
(* Accept: upload intake *)

\* reserveUploadBudget: intake is still open and the reservation joins the
\* WaitGroup that Shutdown waits for.
AcceptReserve(j) ==
    /\ phase = "serving" /\ accepting
    /\ jobState[j] = "unused" /\ upload[j].pc = "none"
    /\ upload' = [upload EXCEPT ![j] = UploadAt("reserved")]
    /\ UNCHANGED <<diskVars, managerVars, countVars, worker, clientVars>>

\* store.Create and the first lease, in one section of manager.mutex.  A Create
\* that fails removes its directory again and Accept returns.
AcceptCreate(j, outcome) ==
    /\ upload[j].pc = "reserved"
    /\ outcome # "saved" => faults < MaxFaults
    /\ faults' = IF outcome = "saved" THEN faults ELSE faults + 1
    /\ jobState' = [jobState EXCEPT ![j] = IF outcome = "saved" THEN "pending" ELSE "deleted"]
    /\ leases' = IF outcome = "saved" THEN [leases EXCEPT ![j] = @ + 1] ELSE leases
    /\ upload' = [upload EXCEPT ![j] =
                    UploadAt(IF outcome = "saved" THEN "receiving" ELSE "returned")]
    /\ UNCHANGED <<fileState, expired, managerVars, semaphore, worker, clientVars>>

\* store.Delete, which Accept calls without the job's lock, begins with a look at
\* the directory and a load of the manifest.  One that lists no file will be put
\* back ("withdrawing") when the removal fails, any other will not ("removing").
DeleteLoad(j) ==
    upload' = [upload EXCEPT ![j] =
        [pc |-> IF Exists(j) /\ fileState[j] = NoFiles THEN "withdrawing" ELSE "removing",
         files |-> NoFiles, seenState |-> jobState[j], seenFiles |-> fileState[j]]]

\* receive succeeds with n files stored.
AcceptReceive(j, n) ==
    /\ upload[j].pc = "receiving"
    /\ upload' = [upload EXCEPT
         ![j].pc = "inspecting",
         ![j].files = [f \in File |-> IF f <= n THEN "uploaded" ELSE "absent"]]
    /\ UNCHANGED <<diskVars, managerVars, countVars, worker, clientVars>>

\* receive fails (limits, malformed body, stalled client, canceled request): the
\* job is to be deleted.
AcceptReject(j) ==
    /\ upload[j].pc = "receiving"
    /\ DeleteLoad(j)
    /\ UNCHANGED <<diskVars, managerVars, countVars, worker, clientVars>>

\* The file inspect looks at: the first one that is still "uploaded".
NextUploaded(j, f) ==
    /\ upload[j].files[f] = "uploaded"
    /\ \A g \in File : upload[j].files[g] = "uploaded" => f <= g

\* inspect gets a process slot for file f ...
InspectAcquire(j, f) ==
    /\ upload[j].pc = "inspecting" /\ NextUploaded(j, f)
    /\ semaphore < Capacity
    /\ semaphore' = semaphore + 1
    /\ upload' = [upload EXCEPT ![j].pc = "probing"]
    /\ UNCHANGED <<diskVars, managerVars, leases, worker, clientVars>>

\* ... or waitCtx ends first: the wait timed out or the service is stopping.  A file
\* whose path cannot be resolved fails the same way, without the wait.
InspectWaitExpired(j, f) ==
    /\ upload[j].pc = "inspecting" /\ NextUploaded(j, f)
    /\ upload' = [upload EXCEPT ![j].files[f] = "failed"]
    /\ UNCHANGED <<diskVars, managerVars, countVars, worker, clientVars>>

\* converter.Inspect returns: the slot is given back and the file is classified.
InspectReturn(j, f, state) ==
    /\ upload[j].pc = "probing" /\ NextUploaded(j, f)
    /\ semaphore' = semaphore - 1
    /\ upload' = [upload EXCEPT ![j] =
                    [@ EXCEPT !.pc = "inspecting", !.files[f] = state]]
    /\ UNCHANGED <<diskVars, managerVars, leases, worker, clientVars>>

\* The probed files overwrite the manifest of a job canceled meanwhile.
AcceptedFilesBug(j) == upload[j].files

\* What Accept writes into the manifest: the probed files, canceled where the
\* job was canceled during intake.
AcceptedFiles(j) ==
    IF jobState[j] = "canceled" THEN SettleFiles(upload[j].files, "canceled")
                                ELSE upload[j].files

\* The final update of Accept, under the job lock.  An error leaves the old
\* manifest ("unsaved") or the new one ("unsynced") behind.
AcceptSave(j, outcome) ==
    /\ upload[j].pc = "inspecting"
    /\ \A f \in File : upload[j].files[f] # "uploaded"
    /\ IF Exists(j)
         THEN /\ Save(j, jobState[j], AcceptedFiles(j), outcome)
              /\ upload' = [upload EXCEPT ![j] =
                              UploadAt(CASE outcome = "saved" -> "return"
                                         [] outcome = "lost" -> "unsaved"
                                         [] outcome = "unsynced" -> "unsynced")]
         ELSE /\ outcome = "saved"
              /\ UNCHANGED diskVars
              /\ upload' = [upload EXCEPT ![j] = UploadAt("unsaved")]
    /\ UNCHANGED <<managerVars, countVars, worker, clientVars>>

\* The update failed: the job is to be deleted.
AcceptDiscard(j) ==
    /\ upload[j].pc \in {"unsaved", "unsynced"}
    /\ DeleteLoad(j)
    /\ UNCHANGED <<diskVars, managerVars, countVars, worker, clientVars>>

\* RemoveAll in that store.Delete succeeds, whatever was written since the load.
AcceptRemoved(j) ==
    /\ upload[j].pc \in {"withdrawing", "removing"}
    /\ Remove(j)
    /\ upload' = [upload EXCEPT ![j] = UploadAt("return")]
    /\ UNCHANGED <<managerVars, countVars, worker, clientVars>>

\* Where a failed RemoveAll leads: only an empty manifest is put back.
AfterFailedRemoval(j) ==
    IF upload[j].pc = "withdrawing" THEN [upload[j] EXCEPT !.pc = "restoring"]
                                    ELSE UploadAt("return")

\* RemoveAll fails without any fault: a section under the job's lock (a Cancel, or
\* the worker of a job whose update was not synced) renamed its manifest into the
\* directory after RemoveAll had passed there, and the directory is not empty.
AcceptRemoveRaced(j) ==
    /\ upload[j].pc \in {"withdrawing", "removing"}
    /\ Exists(j)
    /\ jobState[j] # upload[j].seenState \/ fileState[j] # upload[j].seenFiles
    /\ upload' = [upload EXCEPT ![j] = AfterFailedRemoval(j)]
    /\ UNCHANGED <<diskVars, managerVars, countVars, worker, clientVars>>

\* RemoveAll fails on an entry of the directory; the manifest is another entry,
\* and unlinked, or it stays.
AcceptRemoveFails(j, unlinked) ==
    /\ upload[j].pc \in {"withdrawing", "removing"}
    /\ faults < MaxFaults
    /\ faults' = faults + 1
    /\ IF unlinked /\ Exists(j)
         THEN /\ jobState' = [jobState EXCEPT ![j] = "deleted"]
              /\ fileState' = [fileState EXCEPT ![j] = NoFiles]
         ELSE UNCHANGED <<jobState, fileState>>
    /\ upload' = [upload EXCEPT ![j] = AfterFailedRemoval(j)]
    /\ UNCHANGED <<expired, managerVars, countVars, worker, clientVars>>

\* The failed store.Delete saves the empty manifest it loaded, over whatever is
\* there now.
AcceptRestore(j, outcome) ==
    /\ upload[j].pc = "restoring"
    /\ Save(j, upload[j].seenState, NoFiles, outcome)
    /\ upload' = [upload EXCEPT ![j] = UploadAt("return")]
    /\ UNCHANGED <<managerVars, countVars, worker, clientVars>>

\* The deferred releaseLease and releaseBudget (which leaves the WaitGroup).
AcceptReturn(j) ==
    /\ upload[j].pc = "return"
    /\ leases' = LeasesAfterRelease(j)
    /\ upload' = [upload EXCEPT ![j] = UploadAt("returned")]
    /\ UNCHANGED <<diskVars, managerVars, semaphore, worker, clientVars>>

-----------------------------------------------------------------------------
(* Start, Cancel, Delete, RemoveFile: the requests of the web interface *)

Convertible(j) == {f \in File : fileState[j][f] = "inspected"}

\* Start refuses only finished jobs.
StartableBug(j) == Exists(j) /\ ~JobTerminal(jobState[j])

\* The tests that end in ErrNotStartable and ErrNoConvertibleFiles.
Startable(j) == jobState[j] = "pending" /\ Convertible(j) # {}

\* The capacity test is off by one.
QueueHasRoomBug == Len(queue) <= QueueDepth

\* The test that ends in ErrQueueFull.
QueueHasRoom == Len(queue) < QueueDepth

\* Manager.Start, under the job lock and manager.mutex.  The control is created
\* and the job enqueued only when Update reports no error.
Start(j, outcome) ==
    /\ phase = "serving" /\ accepting
    /\ Startable(j) /\ QueueHasRoom
    /\ Save(j, "queued",
            [f \in File |-> IF f \in Convertible(j) THEN "queued" ELSE fileState[j][f]],
            outcome)
    /\ IF outcome = "saved"
         THEN /\ controls' = controls \cup {j}
              /\ cancelled' = cancelled \ {j}
              /\ queued' = queued + 1
              /\ queue' = Append(queue, j)
         ELSE UNCHANGED <<queue, queued, controlVars>>
    /\ UNCHANGED <<processVars, running, countVars, worker, upload, clientVars>>

\* control.cancel() is forgotten.
CancelControlBug(j) == cancelled

\* control.cancel() on the registered control, if there is one.
CancelControl(j) == IF j \in controls THEN cancelled \cup {j} ELSE cancelled

\* Manager.Cancel, under the job lock.
Cancel(j, outcome) ==
    /\ phase = "serving"
    /\ Exists(j) /\ ~JobTerminal(jobState[j])
    /\ cancelled' = CancelControl(j)
    /\ Save(j, "canceled", SettleFiles(fileState[j], "canceled"), outcome)
    /\ UNCHANGED <<processVars, queueVars, controls, countVars, worker, upload, clientVars>>

\* Manager.Delete, first section: cancel the work, then release the job lock.
DeleteCancel(j) ==
    /\ phase = "serving"
    /\ deleting[j] = "none" /\ Exists(j)
    /\ cancelled' = CancelControl(j)
    /\ deleting' = [deleting EXCEPT ![j] = "check"]
    /\ UNCHANGED <<diskVars, processVars, queueVars, controls, countVars, worker, upload,
                   reader, candidates>>

\* waitForLeaseRelease looks once before it starts to poll ...
DeleteCheck(j) ==
    /\ deleting[j] = "check"
    /\ deleting' = [deleting EXCEPT ![j] = IF Leased(j) THEN "waiting" ELSE "ready"]
    /\ UNCHANGED <<diskVars, managerVars, countVars, worker, upload, reader, candidates>>

\* ... and a tick sees the last lease released ...
DeleteUnleased(j) ==
    /\ deleting[j] = "waiting" /\ ~Leased(j)
    /\ deleting' = [deleting EXCEPT ![j] = "ready"]
    /\ UNCHANGED <<diskVars, managerVars, countVars, worker, upload, reader, candidates>>

\* ... or the request is canceled, or the grace period ends with the job leased.
DeleteGiveUp(j) ==
    /\ deleting[j] = "waiting"
    /\ deleting' = [deleting EXCEPT ![j] = "none"]
    /\ UNCHANGED <<diskVars, managerVars, countVars, worker, upload, reader, candidates>>

\* The second section trusts the wait and does not look at the leases again.
DeletableBug(j) == Exists(j)

\* What the second section of Delete checks before it removes the directory.
Deletable(j) == ~Leased(j) /\ Exists(j)

\* Manager.Delete, second section, under the job lock again: a new lease refuses
\* it, and a job that vanished meanwhile is ErrNotFound.
DeleteCommit(j) ==
    /\ deleting[j] = "ready"
    /\ deleting' = [deleting EXCEPT ![j] = "none"]
    /\ cancelled' = IF Leased(j) THEN cancelled ELSE CancelControl(j)
    /\ IF Deletable(j)
         THEN /\ Remove(j)
              /\ controls' = controls \ {j}
         ELSE UNCHANGED <<diskVars, controls>>
    /\ UNCHANGED <<processVars, queueVars, countVars, worker, upload, reader, candidates>>

\* Manager.RemoveFile, under the job lock: an unleased pending job loses a file,
\* and the directory with its last one.  "lost" stands for every failure that the
\* rollback undoes, "unsynced" for one that leaves the shorter manifest behind: the
\* rollback fails as well, or the directory of the emptied job cannot be removed.
RemoveFile(j, f, outcome) ==
    /\ phase = "serving"
    /\ jobState[j] = "pending" /\ ~Leased(j)
    /\ fileState[j][f] # "absent"
    /\ LET left == [fileState[j] EXCEPT ![f] = "absent"]
       IN  IF left = NoFiles /\ outcome = "saved" THEN Remove(j)
                                                  ELSE Save(j, "pending", left, outcome)
    /\ UNCHANGED <<managerVars, countVars, worker, upload, clientVars>>

-----------------------------------------------------------------------------
(* Downloads: handleFileDownload and handleArchiveDownload *)

\* Manager.Lease, under the job lock.
ReaderLease(r, j) ==
    /\ phase = "serving"
    /\ reader[r].pc = "idle" /\ Exists(j)
    /\ leases' = [leases EXCEPT ![j] = @ + 1]
    /\ reader' = [reader EXCEPT ![r] = [pc |-> "leased", job |-> j]]
    /\ UNCHANGED <<diskVars, managerVars, semaphore, worker, upload, deleting, candidates>>

\* Get finds a completed output: the response starts.
ReaderOpen(r) ==
    /\ reader[r].pc = "leased"
    /\ Exists(reader[r].job)
    /\ \E f \in File : fileState[reader[r].job][f] = "completed"
    /\ reader' = [reader EXCEPT ![r].pc = "streaming"]
    /\ UNCHANGED <<diskVars, managerVars, countVars, worker, upload, deleting, candidates>>

\* The handler returns, after "not found" or after the last byte, and releases.
ReaderRelease(r) ==
    /\ reader[r].pc # "idle"
    /\ leases' = LeasesAfterRelease(reader[r].job)
    /\ reader' = [reader EXCEPT ![r] = IdleReader]
    /\ UNCHANGED <<diskVars, managerVars, semaphore, worker, upload, deleting, candidates>>

-----------------------------------------------------------------------------
(* Expiry and CleanupExpired *)

\* Time passes: the retention window of a stored job closes.
Expire(j) ==
    /\ Exists(j) /\ j \notin expired
    /\ expired' = expired \cup {j}
    /\ UNCHANGED <<jobState, fileState, faults, managerVars, countVars, worker, upload,
                   clientVars>>

\* store.List at the start of a sweep, and the checks of the snapshot.
CleanupList ==
    /\ phase = "serving" /\ ~stopped /\ candidates = {}
    /\ candidates' = {j \in expired : Exists(j) /\ ~JobActive(jobState[j])}
    /\ UNCHANGED <<diskVars, managerVars, countVars, worker, upload, deleting, reader>>

\* The sweep relies on its listing and only looks at the leases.
SweepableBug(j) == Exists(j) /\ ~Leased(j)

\* The sweep keeps pending jobs for ever.
SweepableTerminalBug(j) ==
    Exists(j) /\ j \in expired /\ JobTerminal(jobState[j]) /\ ~Leased(j)

\* The re-check under the job lock.
Sweepable(j) ==
    /\ Exists(j) /\ j \in expired
    /\ ~JobActive(jobState[j]) /\ ~Leased(j)

\* One iteration of the loop: re-load, re-check, delete and drop the control.
CleanupJob(j) ==
    /\ j \in candidates
    /\ candidates' = candidates \ {j}
    /\ IF Sweepable(j)
         THEN /\ Remove(j)
              /\ controls' = controls \ {j}
         ELSE UNCHANGED <<diskVars, controls>>
    /\ UNCHANGED <<processVars, queueVars, cancelled, countVars, worker, upload, deleting,
                   reader>>

-----------------------------------------------------------------------------
(* The worker pool: work, process, convertFile, finalize *)

\* range manager.queue delivers a job; manager.mutex is not held yet.
WorkerReceive(w) ==
    /\ worker[w].pc = "idle" /\ queue # <<>>
    /\ queue' = Tail(queue)
    /\ worker' = [worker EXCEPT ![w] = [WorkerAt("received") EXCEPT !.job = Head(queue)]]
    /\ UNCHANGED <<diskVars, processVars, queued, running, controlVars, countVars, upload,
                   clientVars>>

\* The counters move and the control is captured.
WorkerRegister(w) ==
    /\ worker[w].pc = "received"
    /\ queued' = queued - 1
    /\ running' = running + 1
    /\ worker' = [worker EXCEPT ![w].pc = "lease",
                                ![w].ctl = worker[w].job \in controls]
    /\ UNCHANGED <<diskVars, processVars, queue, controlVars, countVars, upload,
                   clientVars>>

\* process takes its own lease; a job deleted while it waited is skipped.
WorkerLease(w) ==
    /\ worker[w].pc = "lease"
    /\ IF Exists(worker[w].job)
         THEN /\ leases' = [leases EXCEPT ![worker[w].job] = @ + 1]
              /\ worker' = [worker EXCEPT ![w].pc = "begin"]
         ELSE /\ worker' = [worker EXCEPT ![w].pc = "done"]
              /\ UNCHANGED leases
    /\ UNCHANGED <<diskVars, managerVars, semaphore, upload, clientVars>>

\* The queued job becomes running and the files to convert are read from the
\* manifest just written; any other state, or a failed write, ends process.
WorkerBegin(w, outcome) ==
    /\ worker[w].pc = "begin"
    /\ LET j == worker[w].job
       IN  IF jobState[j] = "queued"
             THEN /\ Save(j, "running", fileState[j], outcome)
                  /\ worker' = [worker EXCEPT
                       ![w].pc = IF outcome = "saved" THEN "scan" ELSE "release",
                       ![w].todo = IF outcome = "saved"
                                     THEN {f \in File : fileState[j][f] = "queued"}
                                     ELSE {}]
             ELSE /\ outcome = "saved"
                  /\ UNCHANGED diskVars
                  /\ worker' = [worker EXCEPT ![w].pc = "release"]
    /\ UNCHANGED <<managerVars, countVars, upload, clientVars>>

\* The loop over the snapshot: the next queued file, while the context lives.
WorkerNextFile(w, f) ==
    /\ worker[w].pc = "scan" /\ ~CtxDone(w)
    /\ f \in worker[w].todo /\ \A g \in worker[w].todo : f <= g
    /\ worker' = [worker EXCEPT ![w].pc = "mark", ![w].file = f,
                                ![w].todo = @ \ {f}]
    /\ UNCHANGED <<diskVars, managerVars, countVars, upload, clientVars>>

\* The loop ends; finalize's argument is evaluated here.
WorkerEndFiles(w) ==
    /\ worker[w].pc = "scan"
    /\ CtxDone(w) \/ worker[w].todo = {}
    /\ worker' = [worker EXCEPT ![w].pc = "finalize", ![w].stop = CtxDone(w),
                                ![w].todo = {}]
    /\ UNCHANGED <<diskVars, managerVars, countVars, upload, clientVars>>

\* Back to the loop of process: convertFile returned.
BackToScan(w) ==
    [worker EXCEPT ![w].pc = "scan", ![w].file = NoFile, ![w].slot = FALSE,
                   ![w].result = "none"]

\* convertFile, first update: the file becomes running.
WorkerMark(w, outcome) ==
    /\ worker[w].pc = "mark"
    /\ LET j == worker[w].job
           f == worker[w].file
       IN  IF jobState[j] = "running" /\ fileState[j][f] = "queued"
             THEN /\ Save(j, "running", [fileState[j] EXCEPT ![f] = "running"], outcome)
                  /\ worker' = IF outcome = "saved"
                                 THEN [worker EXCEPT ![w].pc = "acquire"]
                                 ELSE BackToScan(w)
             ELSE /\ outcome = "saved"
                  /\ UNCHANGED diskVars
                  /\ worker' = BackToScan(w)
    /\ UNCHANGED <<managerVars, countVars, upload, clientVars>>

\* The select on the process semaphore and the context: either may win when both
\* are ready.
WorkerAcquire(w) ==
    /\ worker[w].pc = "acquire" /\ semaphore < Capacity
    /\ semaphore' = semaphore + 1
    /\ worker' = [worker EXCEPT ![w].pc = "slot", ![w].slot = TRUE]
    /\ UNCHANGED <<diskVars, managerVars, leases, upload, clientVars>>

WorkerWaitCanceled(w) ==
    /\ worker[w].pc = "acquire" /\ CtxDone(w)
    /\ worker' = [worker EXCEPT ![w].pc = "recordCancel"]
    /\ UNCHANGED <<diskVars, managerVars, countVars, upload, clientVars>>

\* With the slot held: a canceled context is recorded, an output directory that
\* cannot be made is a failure, otherwise the converter runs.
WorkerConvert(w, next) ==
    /\ worker[w].pc = "slot"
    /\ IF CtxDone(w) THEN next = "recordCancel"
                     ELSE next \in {"converting", "recordFailure"}
    /\ worker' = [worker EXCEPT ![w].pc = next]
    /\ UNCHANGED <<diskVars, managerVars, countVars, upload, clientVars>>

\* converter.Convert returns, or commandTimeout ends it.  Only a canceled
\* context is classified as canceled.
WorkerConvertReturn(w, result) ==
    /\ worker[w].pc = "converting"
    /\ result = "canceled" => CtxDone(w)
    /\ worker' = [worker EXCEPT ![w].pc = "recordResult", ![w].result = result]
    /\ UNCHANGED <<diskVars, managerVars, countVars, upload, clientVars>>

\* The release is deferred before the slot is acquired.
SlotReleasedBug(w) == semaphore - 1

\* The deferred release of the process slot, when it is held.
SlotReleased(w) == IF worker[w].slot THEN semaphore - 1 ELSE semaphore

\* A missing test of file.State.Terminal().
FileSettledBug(j, f) == fileState[j][f] = "absent"

\* target == nil || target.State.Terminal()
FileSettled(j, f) == fileState[j][f] = "absent" \/ FileTerminal(fileState[j][f])

\* The tail that recordCancel, recordFailure and the result update share: the
\* file gets its state unless skip holds, and convertFile returns.
RecordFile(w, skip, state, outcome) ==
    LET j == worker[w].job
        f == worker[w].file
    IN  /\ IF ~Exists(j) \/ skip \/ FileSettled(j, f)
             THEN outcome = "saved" /\ UNCHANGED diskVars
             ELSE Save(j, jobState[j], [fileState[j] EXCEPT ![f] = state], outcome)
        /\ semaphore' = SlotReleased(w)
        /\ worker' = BackToScan(w)
        /\ UNCHANGED <<managerVars, leases, upload, clientVars>>

\* The job reached a terminal state while the converter ran.
ResultIsLate(w) == JobTerminal(jobState[worker[w].job])

WorkerRecordResult(w, outcome) ==
    /\ worker[w].pc = "recordResult"
    /\ RecordFile(w, ResultIsLate(w), worker[w].result, outcome)

WorkerRecordCancel(w, outcome) ==
    /\ worker[w].pc = "recordCancel"
    /\ RecordFile(w, FALSE, "canceled", outcome)

WorkerRecordFailure(w, outcome) ==
    /\ worker[w].pc = "recordFailure"
    /\ RecordFile(w, FALSE, "failed", outcome)

\* The cases for failed and canceled are swapped.
FinalStateSwapBug(files, canceled) ==
    IF \E f \in File : files[f] = "completed" THEN "completed"
    ELSE IF \E f \in File : files[f] = "failed" THEN "failed"
    ELSE "canceled"

\* A state that no reader of the manifest knows.
FinalStateNameBug(files, canceled) ==
    IF \E f \in File : files[f] = "completed" THEN "completed"
    ELSE IF canceled THEN "cancelled"
    ELSE IF \E f \in File : files[f] = "failed" THEN "failed"
    ELSE "canceled"

\* The state finalize gives the job once its files are settled.
FinalState(files, canceled) ==
    IF \E f \in File : files[f] = "completed" THEN "completed"
    ELSE IF canceled THEN "canceled"
    ELSE IF \E f \in File : files[f] = "failed" THEN "failed"
    ELSE "canceled"

\* finalize gives up when a file was never visited.
NeedsFinalBug(j) ==
    /\ Exists(j) /\ ~JobTerminal(jobState[j])
    /\ \A f \in File : FileSettled(j, f)

\* finalize does not look at the state it replaces.
NeedsFinalAlwaysBug(j) == Exists(j)

\* finalize leaves alone a job that is gone or settled.
NeedsFinal(j) == Exists(j) /\ ~JobTerminal(jobState[j])

\* Manager.finalize
WorkerFinalize(w, outcome) ==
    /\ worker[w].pc = "finalize"
    /\ LET j == worker[w].job
           files == SettleFiles(fileState[j], "canceled")
       IN  IF NeedsFinal(j)
             THEN Save(j, FinalState(files, worker[w].stop), files, outcome)
             ELSE outcome = "saved" /\ UNCHANGED diskVars
    /\ worker' = [worker EXCEPT ![w].pc = "release", ![w].stop = FALSE]
    /\ UNCHANGED <<managerVars, countVars, upload, clientVars>>

\* process returns: its deferred release of the lease.
WorkerRelease(w) ==
    /\ worker[w].pc = "release"
    /\ leases' = LeasesAfterRelease(worker[w].job)
    /\ worker' = [worker EXCEPT ![w].pc = "done"]
    /\ UNCHANGED <<diskVars, managerVars, semaphore, upload, clientVars>>

\* The end of one iteration of work: the control is dropped and canceled.
WorkerDone(w) ==
    /\ worker[w].pc = "done"
    /\ running' = running - 1
    /\ controls' = controls \ {worker[w].job}
    /\ cancelled' = IF worker[w].ctl THEN cancelled \cup {worker[w].job} ELSE cancelled
    /\ worker' = [worker EXCEPT ![w] = WorkerAt("idle")]
    /\ UNCHANGED <<diskVars, processVars, queue, queued, countVars, upload, clientVars>>

\* The closed queue is empty: the goroutine leaves the WaitGroup.
WorkerExit(w) ==
    /\ worker[w].pc = "idle" /\ stopped /\ queue = <<>>
    /\ worker' = [worker EXCEPT ![w] = WorkerAt("exited")]
    /\ UNCHANGED <<diskVars, managerVars, countVars, upload, clientVars>>

-----------------------------------------------------------------------------
(* Shutdown, exit, crash, restart and RecoverInterrupted *)

\* Manager.StopIntake
StopIntake ==
    /\ phase = "serving" /\ accepting
    /\ accepting' = FALSE
    /\ UNCHANGED <<diskVars, phase, starts, stopped, drained, queueVars, controlVars,
                   countVars, worker, upload, clientVars>>

\* Manager.Shutdown, which runServer calls once the cleanup loop has ended.
Shutdown ==
    /\ phase = "serving" /\ ~stopped /\ candidates = {}
    /\ accepting' = FALSE
    /\ stopped' = TRUE
    /\ UNCHANGED <<diskVars, phase, starts, drained, queueVars, controlVars, countVars,
                   worker, upload, clientVars>>

\* Uploads do not join the WaitGroup.
WaitGroupWorkersBug == \A w \in Worker : worker[w].pc = "exited"

\* Uploads join the WaitGroup and never leave it.
WaitGroupLeakBug ==
    /\ \A w \in Worker : worker[w].pc = "exited"
    /\ \A j \in Job : upload[j].pc = "none"

\* The WaitGroup of workers and accepted uploads is empty.
WaitGroupEmpty ==
    /\ \A w \in Worker : worker[w].pc = "exited"
    /\ \A j \in Job : upload[j].pc \in {"none", "returned"}

\* manager.workers.Wait() returns and closes drained.
Drain ==
    /\ phase = "serving" /\ stopped /\ ~drained
    /\ WaitGroupEmpty
    /\ drained' = TRUE
    /\ UNCHANGED <<diskVars, phase, starts, accepting, stopped, queueVars, controlVars,
                   countVars, worker, upload, clientVars>>

\* Everything that lives in memory is lost; the manifests stay.
ProcessEnds ==
    /\ phase' = "down" /\ accepting' = FALSE /\ stopped' = FALSE /\ drained' = FALSE
    /\ queue' = <<>> /\ queued' = 0 /\ running' = 0
    /\ controls' = {} /\ cancelled' = {}
    /\ leases' = [j \in Job |-> 0]
    /\ semaphore' = 0
    /\ worker' = [w \in Worker |-> WorkerAt("idle")]
    /\ upload' = [j \in Job |-> UploadAt("none")]
    /\ deleting' = [j \in Job |-> "none"]
    /\ reader' = [r \in Reader |-> IdleReader]
    /\ candidates' = {}
    /\ UNCHANGED <<diskVars, starts>>

\* runServer returns after Shutdown, drained or not.
Exit == phase = "serving" /\ stopped /\ ProcessEnds

\* The process is killed, or runServer gives up during recovery.
Crash == phase # "down" /\ starts < MaxStarts /\ ProcessEnds

Restart ==
    /\ phase = "down" /\ starts < MaxStarts
    /\ phase' = "recovering" /\ accepting' = TRUE
    /\ starts' = starts + 1
    /\ UNCHANGED <<diskVars, stopped, drained, queueVars, controlVars, countVars, worker,
                   upload, clientVars>>

\* Recovery forgets the jobs that were never started.
RecoveredBug(j) == Exists(j) => ~JobActive(jobState[j])

\* The test that RecoverInterrupted skips a job by.
Recovered(j) == Exists(j) => JobTerminal(jobState[j])

\* One update of RecoverInterrupted; a failed write ends the start.
RecoverJob(j, outcome) ==
    /\ phase = "recovering"
    /\ ~Recovered(j)
    /\ Save(j, "interrupted", SettleFiles(fileState[j], "interrupted"), outcome)
    /\ phase' = IF outcome = "saved" THEN phase ELSE "down"
    /\ accepting' = (outcome = "saved")
    /\ UNCHANGED <<starts, stopped, drained, queueVars, controlVars, countVars, worker,
                   upload, clientVars>>

\* Recovery is complete: the cleanup loop and the HTTP server start.
RecoverDone ==
    /\ phase = "recovering"
    /\ \A j \in Job : Recovered(j)
    /\ phase' = "serving"
    /\ UNCHANGED <<diskVars, starts, accepting, stopped, drained, queueVars, controlVars,
                   countVars, worker, upload, clientVars>>

\* The last process ended: nothing more happens.
Ended == phase = "down" /\ starts = MaxStarts /\ UNCHANGED vars

-----------------------------------------------------------------------------
(* The specification *)

Init ==
    /\ jobState = [j \in Job |-> "unused"]
    /\ fileState = [j \in Job |-> NoFiles]
    /\ expired = {} /\ faults = 0
    /\ phase = "recovering" /\ starts = 1
    /\ accepting = TRUE /\ stopped = FALSE /\ drained = FALSE
    /\ queue = <<>> /\ queued = 0 /\ running = 0
    /\ controls = {} /\ cancelled = {}
    /\ leases = [j \in Job |-> 0]
    /\ semaphore = 0
    /\ worker = [w \in Worker |-> WorkerAt("idle")]
    /\ upload = [j \in Job |-> UploadAt("none")]
    /\ deleting = [j \in Job |-> "none"]
    /\ reader = [r \in Reader |-> IdleReader]
    /\ candidates = {}

\* One goroutine of an upload request.
AcceptStep(j) ==
    \/ \E o \in SaveOutcome : AcceptCreate(j, o) \/ AcceptSave(j, o) \/ AcceptRestore(j, o)
    \/ \E n \in File : AcceptReceive(j, n)
    \/ AcceptReject(j) \/ AcceptDiscard(j) \/ AcceptRemoved(j) \/ AcceptRemoveRaced(j)
    \/ \E unlinked \in BOOLEAN : AcceptRemoveFails(j, unlinked)
    \/ AcceptReturn(j)
    \/ \E f \in File : \/ InspectAcquire(j, f) \/ InspectWaitExpired(j, f)
                       \/ \E s \in {"inspected", "failed"} : InspectReturn(j, f, s)

\* One goroutine of the pool.
WorkerStep(w) ==
    \/ WorkerReceive(w) \/ WorkerRegister(w) \/ WorkerLease(w)
    \/ \E f \in File : WorkerNextFile(w, f)
    \/ WorkerEndFiles(w) \/ WorkerAcquire(w) \/ WorkerWaitCanceled(w)
    \/ \E n \in {"converting", "recordCancel", "recordFailure"} : WorkerConvert(w, n)
    \/ \E r \in {"completed", "failed", "canceled"} : WorkerConvertReturn(w, r)
    \/ \E o \in SaveOutcome :
         \/ WorkerBegin(w, o) \/ WorkerMark(w, o) \/ WorkerRecordResult(w, o)
         \/ WorkerRecordCancel(w, o) \/ WorkerRecordFailure(w, o) \/ WorkerFinalize(w, o)
    \/ WorkerRelease(w) \/ WorkerDone(w) \/ WorkerExit(w)

\* One request of the web interface on job j.
Request(j) ==
    \/ AcceptReserve(j)
    \/ \E o \in SaveOutcome : Start(j, o) \/ Cancel(j, o)
    \/ DeleteCancel(j)
    \/ \E f \in File, o \in SaveOutcome : RemoveFile(j, f, o)
    \/ \E r \in Reader : ReaderLease(r, j)

DeleteStep(j) == DeleteCheck(j) \/ DeleteUnleased(j) \/ DeleteGiveUp(j) \/ DeleteCommit(j)

ReaderStep(r) == ReaderOpen(r) \/ ReaderRelease(r)

CleanupStep == CleanupList \/ \E j \in Job : CleanupJob(j)

Recovery == RecoverDone \/ \E j \in Job, o \in SaveOutcome : RecoverJob(j, o)

Next ==
    \/ \E j \in Job : AcceptStep(j) \/ Request(j) \/ DeleteStep(j) \/ Expire(j)
    \/ \E w \in Worker : WorkerStep(w)
    \/ \E r \in Reader : ReaderStep(r)
    \/ CleanupStep
    \/ StopIntake \/ Shutdown \/ Drain \/ Exit \/ Crash \/ Restart \/ Recovery \/ Ended

Spec == Init /\ [][Next]_vars

\* Goroutines that can run do run; uploads, probes, conversions and downloads
\* are bounded by deadlines; the cleanup ticker keeps firing; a process that is
\* started recovers.  Nothing forces a request, a shutdown or a crash.
Fairness ==
    /\ \A j \in Job : WF_vars(AcceptStep(j)) /\ WF_vars(DeleteStep(j))
    /\ \A w \in Worker : WF_vars(WorkerStep(w))
    /\ \A r \in Reader : WF_vars(ReaderRelease(r))
    /\ WF_vars(CleanupList) /\ \A j \in Job : WF_vars(CleanupJob(j))
    /\ WF_vars(Recovery) /\ WF_vars(Drain)

LiveSpec == Spec /\ Fairness

-----------------------------------------------------------------------------
(* Safety *)

LeasedPc == {"begin", "scan", "mark", "acquire", "slot", "converting", "recordResult",
             "recordCancel", "recordFailure", "finalize", "release"}

\* Who holds a lease on job j; the Accept call is named by its job.
Holders(j) ==
    {w \in Worker : worker[w].job = j /\ worker[w].pc \in LeasedPc}
    \cup {r \in Reader : reader[r].job = j /\ reader[r].pc # "idle"}
    \cup {u \in {j} : upload[u].pc \notin {"none", "reserved", "returned"}}

\* A job in a terminal state has only terminal files, whatever interleaving of
\* Accept, Cancel, the worker and recovery produced it: nothing on the job page
\* stays "queued" or "running" for ever.
TerminalJobIsSettled ==
    \A j \in Job : JobTerminal(jobState[j]) =>
        \A f \in File : fileState[j][f] = "absent" \/ FileTerminal(fileState[j][f])

\* "completed" promises an output, and (as long as every manifest write
\* succeeded) "failed" means that every listed file failed: a job that a cancel
\* or a shutdown cut short never reports "failed".
OutcomeIsHonest ==
    \A j \in Job :
        /\ jobState[j] = "completed" => \E f \in File : fileState[j][f] = "completed"
        /\ jobState[j] = "failed" /\ faults = 0 =>
              /\ \A f \in File : fileState[j][f] \in {"absent", "failed"}
              /\ fileState[j] # NoFiles

\* manager.leases counts exactly the requests and workers that still use the
\* job: no path of Accept, process or a download handler leaks or double-releases.
LeasesAreCounted == \A j \in Job : leases[j] = Cardinality(Holders(j))

\* As long as every manifest write succeeded, a job that an upload is filling, a
\* worker is processing or a download is streaming keeps its directory: neither
\* Delete, the sweep nor RemoveFile takes it away.
JobInUseExists ==
    faults = 0 =>
      /\ \A w \in Worker : worker[w].pc \in LeasedPc => Exists(worker[w].job)
      /\ \A r \in Reader : reader[r].pc = "streaming" => Exists(reader[r].job)
      /\ \A j \in Job : upload[j].pc \in {"receiving", "inspecting", "probing"} => Exists(j)

\* How often job j is scheduled: its queue entries and the workers that popped it.
QueueEntries(j) == {i \in 1 .. Len(queue) : queue[i] = j}
WorkersOf(j) == {w \in Worker : worker[w].job = j}

\* A job is handed to at most one worker, once: no file is converted twice.
ScheduledOnce ==
    \A j \in Job : Cardinality(QueueEntries(j)) + Cardinality(WorkersOf(j)) <= 1

\* As long as every manifest write succeeded, a job shown as queued or running
\* while the service is up is in the queue or with a worker that will settle it.
ActiveIsScheduled ==
    faults = 0 /\ phase = "serving" =>
      \A j \in Job : JobActive(jobState[j]) =>
        \/ QueueEntries(j) # {}
        \/ \E w \in WorkersOf(j) : worker[w].pc \in
               {"received", "lease", "begin", "scan", "mark", "acquire", "slot", "converting",
                "recordResult", "recordCancel", "recordFailure", "finalize"}

\* The converter of a job that was canceled under it has a canceled context: the
\* process is on its way out and its result will not be waited for.
CancelReachesConverter ==
    \A w \in Worker :
        worker[w].pc \in {"acquire", "slot", "converting"} /\ JobTerminal(jobState[worker[w].job])
            => CtxDone(w)

\* The semaphore counts exactly the upload probes and conversions that hold a
\* slot, and never exceeds the configured number of processes.
SlotsAreCounted ==
    /\ semaphore = Cardinality({w \in Worker : worker[w].slot})
                     + Cardinality({j \in Job : upload[j].pc = "probing"})
    /\ semaphore <= Capacity

\* The counters of Stats: jobs waiting for a worker (a popped job counts until
\* the worker registers it) and jobs with a worker; the queue keeps its bound.
StatsAreExact ==
    /\ queued = Len(queue) + Cardinality({w \in Worker : worker[w].pc = "received"})
    /\ running = Cardinality({w \in Worker : worker[w].pc \in
                                 LeasedPc \cup {"lease", "done"}})
    /\ Len(queue) <= QueueDepth

\* Once Shutdown reports a full drain nothing is left half-done: no started job
\* without a terminal state (unless its manifest could not be written), no
\* upload, and no lease but those of downloads.
DrainedIsQuiet ==
    drained =>
      /\ queue = <<>> /\ queued = 0 /\ running = 0 /\ semaphore = 0
      /\ faults = 0 => \A j \in Job : ~JobActive(jobState[j])
      /\ \A j \in Job : Holders(j) \subseteq Reader

\* While a process serves, no job of an earlier process is left unfinished or
\* resumed: everything unfinished belongs to an upload or a start of this one.
OldJobsAreInterrupted ==
    phase = "serving" /\ faults = 0 =>
      \A j \in Job : Exists(j) /\ ~JobTerminal(jobState[j]) => upload[j].pc # "none"

-----------------------------------------------------------------------------
(* What a step may never do *)

\* Jobs whose rejected upload Accept is taking away: their manifest is empty.
Withdrawn == {j \in Job : upload[j].pc \in {"withdrawing", "restoring"}}

\* The step in which that fails and the empty manifest is put back.
PutsEmptyJobBack(j) ==
    /\ j \in Withdrawn /\ j \notin Withdrawn'
    /\ fileState[j] = NoFiles /\ fileState'[j] = NoFiles
    /\ jobState'[j] \in {"pending", "canceled"}

\* A terminal job keeps its state and its terminal files keep theirs until the
\* job is deleted; a deleted job never comes back.  The one exception is a job
\* that never listed a file, whose upload was rejected and whose removal failed:
\* store.Delete puts back the empty manifest it had loaded.
TerminalIsFinal ==
    [][\A j \in Job : PutsEmptyJobBack(j) \/
         /\ JobTerminal(jobState[j]) => jobState'[j] \in {jobState[j], "deleted"}
         /\ jobState[j] = "deleted" => jobState'[j] = "deleted"
         /\ \A f \in File : FileTerminal(fileState[j][f]) /\ jobState[j] # "pending" =>
               fileState'[j][f] = fileState[j][f] \/ jobState'[j] = "deleted"]_vars

\* A cleanup sweep removes only expired jobs that nobody holds and that are not
\* queued or running at that moment, however stale its listing is.
SweepSparesJobsInUse ==
    [][\A j \in Job : CleanupJob(j) /\ Exists(j) /\ jobState'[j] = "deleted" =>
          j \in expired /\ Holders(j) = {} /\ ~JobActive(jobState[j])]_vars

\* The manager implements the lifecycle that module JobLifecycle promises, with
\* manifests read straight from the store.
Lifecycle == INSTANCE JobLifecycle WITH withdrawn <- Withdrawn

\* Every manifest write of every goroutine is a step a client may see.
ImplementsLifecycle == Lifecycle!Spec

-----------------------------------------------------------------------------
(* Liveness, under LiveSpec *)

\* A started job reaches a terminal state or is deleted, unless the process ends.
StartedJobSettles ==
    \A j \in Job : JobActive(jobState[j]) ~> (~JobActive(jobState[j]) \/ phase = "down")

\* Shutdown drains the pool and the accepted uploads, unless the process exits
\* first.
ShutdownDrains == stopped ~> (drained \/ phase = "down")

\* CleanupExpired removes every job whose retention window closed and that is
\* neither leased nor in the hands of a worker: such a job cannot stay for ever
\* in a serving process.
ExpiredJobIsRemoved ==
    \A j \in Job :
        ~<>[](phase = "serving" /\ ~stopped /\ j \in expired /\ Exists(j)
              /\ Holders(j) = {} /\ QueueEntries(j) = {} /\ WorkersOf(j) = {})

-----------------------------------------------------------------------------
(* What the documentation and the comments promise, without the provisos *)

\* docs/web.md: "Active work and downloads postpone removal."
ActiveWorkPostponesRemoval ==
    \A w \in Worker : worker[w].pc \in LeasedPc => Exists(worker[w].job)

\* storage/manifest.go, on a terminal job: "no further work will change the job
\* state."
TerminalNeverChanges ==
    [][\A j \in Job : JobTerminal(jobState[j]) => jobState'[j] \in {jobState[j], "deleted"}]_vars
=============================================================================
