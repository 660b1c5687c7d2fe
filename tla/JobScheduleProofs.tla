------------------------- MODULE JobScheduleProofs -------------------------
(***************************************************************************)
(* Who works on which job, for any number of jobs, workers, downloads,     *)
(* restarts and failed writes: a job is scheduled at most once, a cancel   *)
(* reaches its converter, a job in use keeps its directory, an active job  *)
(* has a worker coming, the outcome it reports is the one its files had,   *)
(* and a drained process is quiet.                                         *)
(***************************************************************************)
EXTENDS JobManagerProofs

-----------------------------------------------------------------------------
(* The inductive invariant *)

\* Begun is closed under every step of the lifecycle; so is Started.
Started == Begun \cup {"queued"}

\* What the lifecycle guarantees of the files: a pending job lists what Accept
\* probed, a queued one what Start queued, and an outcome has a file behind it.
Fits(state, files) ==
    /\ state = "pending" => \A f \in File : files[f] \in {"absent", "inspected", "failed"}
    /\ state = "queued" => \A f \in File : files[f] \in {"absent", "queued", "failed"}
    /\ state = "completed" => \E f \in File : files[f] = "completed"
    /\ state = "failed" => \E f \in File : files[f] = "failed"

FilesFitState == \A j \in Job : Fits(jobState[j], fileState[j])

\* Who is around in which phase: nobody outside "serving", nobody but downloads
\* once drained, and a worker leaves only a closed and empty queue.
Roster ==
    /\ \A w \in Worker : worker[w].pc \in {"idle", "exited"} => worker[w].job = NoJob
    /\ \A r \in Reader : reader[r].pc # "idle" => reader[r].job \in Job
    /\ phase # "serving" =>
         /\ queue = <<>> /\ ~stopped
         /\ \A w \in Worker : worker[w].pc = "idle"
    /\ stopped => ~accepting
    /\ \A w \in Worker : worker[w].pc = "exited" => stopped /\ queue = <<>>
    /\ drained => stopped /\ phase = "serving" /\ WaitGroupEmpty

InQueue(j) == \E i \in 1 .. Len(queue) : queue[i] = j

\* Jobs in the queue or with a worker were started, each at most once.
StartedOnce ==
    /\ \A j \in Job : InQueue(j) => jobState[j] \in Started
    /\ \A w \in Worker : worker[w].job \in Job => jobState[worker[w].job] \in Started
    /\ \A i, k \in 1 .. Len(queue) : queue[i] = queue[k] => i = k
    /\ \A w \in Worker : ~InQueue(worker[w].job)
    /\ \A w, u \in Worker : worker[w].job \in Job /\ worker[u].job = worker[w].job => u = w

\* The control of a scheduled job stays registered until its worker is done:
\* Delete and the sweep drop it only together with the job, never under a lease.
ControlsAreKept ==
    /\ \A j \in Job : InQueue(j) /\ Exists(j) => j \in controls
    /\ \A w \in Worker :
         /\ worker[w].pc \in {"received", "lease"} /\ Exists(worker[w].job) =>
              worker[w].job \in controls
         /\ worker[w].pc = "lease" /\ Exists(worker[w].job) => worker[w].ctl
         /\ worker[w].pc \in LeasedPc => worker[w].ctl /\ worker[w].job \in controls

\* Where Accept deletes a job after its final update, or one that was gone.
GivingUpPc == {"unsaved", "unsynced", "removing"}

\* A download streams a listed job, an upload has created its job, and one that
\* gives up has lost it already (or a write failed).
UsersAreSafe ==
    /\ \A j \in Job : upload[j].pc \notin {"none", "reserved"} => jobState[j] # "unused"
    /\ \A r \in Reader : reader[r].pc = "streaming" => Schedulable(reader[r].job)
    /\ faults = 0 => \A j \in Job : upload[j].pc \in GivingUpPc => ~Exists(j)

\* A job that no worker has begun does not show as running.
NotYetRunning ==
    /\ \A j \in Job : InQueue(j) => jobState[j] # "running"
    /\ \A w \in Worker : worker[w].pc \in {"received", "lease", "begin"} =>
          jobState[worker[w].job] # "running"

\* The files of a running job whose context is alive, as its worker left them.
Tidy(w, f) ==
    \/ fileState[worker[w].job][f] \in {"absent", "failed", "completed"}
    \/ worker[w].pc # "finalize" /\ f \in worker[w].todo
         /\ fileState[worker[w].job][f] = "queued"
    \/ worker[w].pc = "mark" /\ f = worker[w].file /\ fileState[worker[w].job][f] = "queued"
    \/ worker[w].pc \in FilePc \ {"mark"} /\ f = worker[w].file
         /\ fileState[worker[w].job][f] = "running"

\* As long as every write succeeded, a worker that was not interrupted leaves no
\* file behind, and only an interrupted one records a cancel.
WorkIsTidy ==
    \A w \in Worker : faults = 0 /\ worker[w].pc \in LeasedPc =>
        /\ worker[w].pc = "recordCancel" => CtxDone(w)
        /\ worker[w].pc = "recordResult" /\ worker[w].result = "canceled" => CtxDone(w)
        /\ /\ worker[w].pc \in FilePc \cup {"scan", "finalize"}
           /\ jobState[worker[w].job] = "running"
           /\ IF worker[w].pc = "finalize" THEN ~worker[w].stop ELSE ~CtxDone(w)
           => \A f \in File : Tidy(w, f)

-----------------------------------------------------------------------------
(* What the lifecycle alone guarantees *)

\* A started job stays started, unless it is an empty one whose upload is being
\* taken away, and an outcome keeps its files until deletion.
OutcomeKept(j) ==
    /\ jobState[j] \in Started /\ Schedulable(j) => jobState'[j] \in Started
    /\ jobState[j] \in {"completed", "failed"} =>
         \/ jobState'[j] = "deleted"
         \/ jobState'[j] = jobState[j] /\ fileState'[j] = fileState[j]

\* A step of the lifecycle keeps the files in line with the state of the job.
LEMMA LifecycleFits ==
    ASSUME DiskTypes, FilesFitState, [Lifecycle!Next]_Lifecycle!lifecycleVars
    PROVE  FilesFitState' /\ \A j \in Job : OutcomeKept(j)
<1> DEFINE Goal == FilesFitState' /\ \A j \in Job : OutcomeKept(j)
<1>0. /\ \A j \in Job : jobState[j] \in JobState \cup NoManifest /\ fileState[j] \in Files
      /\ \A j \in Job : Fits(jobState[j], fileState[j])
  BY DEF DiskTypes, FilesFitState
<1>1. CASE UNCHANGED <<jobState, fileState>>
  BY <1>1 DEF FilesFitState, Fits, OutcomeKept
<1>2. ASSUME NEW j \in Job, NEW state, NEW files, Lifecycle!Manifest(j, state, files),
             Fits(state, files),
             jobState[j] \in Started /\ Schedulable(j) => state \in Started,
             jobState[j] \in {"completed", "failed"} => state = "deleted"
      PROVE  Goal
  <2>1. /\ jobState'[j] = state /\ fileState'[j] = files
        /\ \A k \in Job \ {j} : jobState'[k] = jobState[k] /\ fileState'[k] = fileState[k]
    BY <1>2 DEF Lifecycle!Manifest, DiskTypes
  <2>2. \A k \in Job : Fits(jobState'[k], fileState'[k])
    BY <1>0, <1>2, <2>1
  <2>3. OutcomeKept(j) /\ \A k \in Job \ {j} : OutcomeKept(k)
    BY <1>2, <2>1 DEF OutcomeKept
  <2> QED
    BY <2>2, <2>3 DEF FilesFitState, Fits
<1>3. ASSUME NEW k \in Job, Lifecycle!Move(k) PROVE Goal
  <2> USE SameStates DEF Started, Begun
  <2>1. ASSUME NEW j \in Job, NEW state, Lifecycle!Create(j, state) PROVE Goal
    <3>1. Fits(state, NoFiles)
      BY <2>1 DEF Lifecycle!Create, Fits, NoFiles
    <3> QED
      BY <1>2, <2>1, <3>1 DEF Lifecycle!Create
  <2>2. ASSUME NEW j \in Job, NEW files, Lifecycle!List(j, files) PROVE Goal
    <3>1. Fits(jobState[j], files)
      BY <2>2 DEF Lifecycle!List, Fits
    <3> QED
      BY <1>2, <2>2, <3>1 DEF Lifecycle!List
  <2>3. ASSUME NEW j \in Job, NEW f \in File, Lifecycle!Drop(j, f) PROVE Goal
    <3>1. Fits("pending", [fileState[j] EXCEPT ![f] = "absent"])
      BY <1>0, <2>3 DEF Lifecycle!Drop, Fits, Files
    <3> QED
      BY <1>2, <2>3, <3>1 DEF Lifecycle!Drop
  <2>4. ASSUME NEW j \in Job, Lifecycle!Queue(j) PROVE Goal
    <3>1. Fits("queued", [f \in File |-> IF fileState[j][f] = "inspected"
                                          THEN "queued" ELSE fileState[j][f]])
      BY <1>0, <2>4 DEF Lifecycle!Queue, Fits
    <3> QED
      BY <1>2, <2>4, <3>1 DEF Lifecycle!Queue
  <2>5. ASSUME NEW j \in Job, NEW files, Lifecycle!Manifest(j, "running", files),
               jobState[j] \in {"queued", "running"}
        PROVE Goal
    BY <1>2, <2>5 DEF Fits
  <2>6. ASSUME NEW j \in Job, \/ Lifecycle!Run(j)
                              \/ \E f \in File : \/ Lifecycle!RunFile(j, f)
                                                 \/ \E s \in FileState : Lifecycle!EndFile(j, f, s)
        PROVE Goal
    BY <2>5, <2>6 DEF Lifecycle!Run, Lifecycle!RunFile, Lifecycle!EndFile
  <2>7. ASSUME NEW j \in Job, NEW state, Lifecycle!Finish(j, state) PROVE Goal
    <3>1. /\ jobState[j] = "running" /\ state \in {"completed", "canceled", "failed"}
          /\ Fits(state, SettleFiles(fileState[j], "canceled"))
          /\ Lifecycle!Manifest(j, state, SettleFiles(fileState[j], "canceled"))
      BY <2>7 DEF Lifecycle!Finish, Fits
    <3> QED
      BY <1>2, <3>1
  <2>8. ASSUME NEW j \in Job, NEW state, Lifecycle!CutShort(j, state) PROVE Goal
    <3>1. Fits(state, SettleFiles(fileState[j], state))
      BY <2>8 DEF Lifecycle!CutShort, Fits
    <3> QED
      BY <1>2, <2>8, <3>1 DEF Lifecycle!CutShort
  <2>9. ASSUME NEW j \in Job, Lifecycle!Vanish(j) PROVE Goal
    <3>1. Fits("deleted", NoFiles)
      BY DEF Fits
    <3> QED
      BY <1>2, <2>9, <3>1 DEF Lifecycle!Vanish
  <2> QED
    BY <1>3, <2>1, <2>2, <2>3, <2>4, <2>6, <2>7, <2>8, <2>9 DEF Lifecycle!Move
<1>4. ASSUME NEW k \in Job, NEW state, Lifecycle!PutBack(k, state) PROVE Goal
  <2>1. /\ Lifecycle!Manifest(k, state, NoFiles) /\ state \in {"pending", "canceled"}
        /\ k \in Withdrawn /\ jobState[k] \in {"pending", "canceled", "deleted"}
    BY <1>4, SameStates DEF Lifecycle!PutBack
  <2>2. Fits(state, NoFiles) /\ ~Schedulable(k)
    BY <2>1 DEF Fits, NoFiles, Withdrawn, Schedulable, IntakePc
  <2> QED
    BY <1>2, <2>1, <2>2
<1>5. CASE Lifecycle!Next
  <2>1. ASSUME NEW k \in Job, Lifecycle!TakeAway(k) PROVE Lifecycle!Move(k)
    BY <2>1 DEF Lifecycle!TakeAway, Lifecycle!Move
  <2>2. ASSUME NEW k \in Job, Lifecycle!Withdraw(k) PROVE UNCHANGED <<jobState, fileState>>
    BY <2>2 DEF Lifecycle!Withdraw
  <2> QED
    BY <1>1, <1>3, <1>4, <1>5, <2>1, <2>2 DEF Lifecycle!Next, Lifecycle!Forget
<1> QED
  BY <1>1, <1>5 DEF Lifecycle!lifecycleVars

-----------------------------------------------------------------------------
(* Frames: what a step may do to what the others rely on *)

\* What a scheduled job may see happen behind its back: nothing, a cancel or a
\* delete; a cancel reaches the control.
Spared(j) ==
    \/ jobState'[j] = jobState[j] /\ fileState'[j] = fileState[j]
    \/ jobState'[j] = "deleted"
    \/ /\ jobState'[j] = "canceled"
       /\ jobState[j] # "canceled" /\ j \in controls => j \in cancelled'

\* While the process serves, only its own worker moves a started job forward.
LEMMA OthersSpareWork ==
    ASSUME ManagerInv, phase = "serving", NEW j \in Job, jobState[j] \in Started, Schedulable(j),
           Next
    PROVE  \/ Spared(j)
           \/ \E w \in Worker : WorkerStep(w) /\ worker[w].job = j
<1> USE DEF Spared
<1>0. DiskTypes /\ jobState[j] \notin {"unused", "pending"} /\ IntakeIsPrivate
  BY DEF ManagerInv, TypeOK, Started, Begun
<1>1. ASSUME NEW k \in Job, Remove(k) PROVE Spared(j)
  BY <1>0, <1>1 DEF Remove, DiskTypes
<1>2. ASSUME NEW k \in Job, k # j, \E state, files, o : Save(k, state, files, o) PROVE Spared(j)
  BY <1>0, <1>2, OneJob
<1>3. ASSUME NEW k \in Job, AcceptStep(k) PROVE Spared(j)
  <2>0. upload \in [Job -> UploadRecord] /\ upload[j].pc \notin IntakePc
    BY DEF ManagerInv, TypeOK, Schedulable
  <2>1. CASE k # j
    BY <1>0, <1>3, <2>0, <2>1, AcceptTouchesOne
  <2>2. CASE k = j
    <3>1. ~\E o \in SaveOutcome : AcceptCreate(j, o) \/ AcceptSave(j, o) \/ AcceptRestore(j, o)
      BY <2>0 DEF AcceptCreate, AcceptSave, AcceptRestore, IntakePc
    <3>2. CASE AcceptRemoved(j)
      BY <1>1, <3>2 DEF AcceptRemoved
    <3>3. CASE \E unlinked \in BOOLEAN : AcceptRemoveFails(j, unlinked)
      BY <1>0, <3>3 DEF AcceptRemoveFails, DiskTypes
    <3>4. CASE AcceptReject(j) \/ AcceptDiscard(j) \/ AcceptRemoveRaced(j) \/ AcceptReturn(j)
      BY <3>4 DEF AcceptReject, AcceptDiscard, AcceptRemoveRaced, AcceptReturn, diskVars
    <3>5. CASE \/ \E n \in File : AcceptReceive(j, n)
               \/ \E f \in File : \/ InspectAcquire(j, f) \/ InspectWaitExpired(j, f)
                                  \/ \E s \in {"inspected", "failed"} : InspectReturn(j, f, s)
      BY <3>5 DEF AcceptReceive, InspectAcquire, InspectWaitExpired, InspectReturn, diskVars
    <3> QED
      BY <1>3, <2>2, <3>1, <3>2, <3>3, <3>4, <3>5 DEF AcceptStep
  <2> QED
    BY <2>1, <2>2
<1>4. ASSUME NEW k \in Job, NEW o \in SaveOutcome, Start(k, o) PROVE Spared(j)
  <2>1. k # j
    BY <1>0, <1>4 DEF Start, Startable
  <2> QED
    BY <1>2, <1>4, <2>1 DEF Start
<1>5. ASSUME NEW k \in Job, NEW o \in SaveOutcome, Cancel(k, o) PROVE Spared(j)
  <2>1. CASE k # j
    BY <1>2, <1>5, <2>1 DEF Cancel
  <2>2. CASE k = j
    BY <1>0, <1>5, <2>2 DEF Cancel, CancelControl, Save, DiskTypes, SaveOutcome
  <2> QED
    BY <2>1, <2>2
<1>6. ASSUME NEW k \in Job, DeleteCommit(k) \/ CleanupJob(k) PROVE Spared(j)
  BY <1>1, <1>6 DEF DeleteCommit, CleanupJob, diskVars
<1>7. ASSUME NEW k \in Job, NEW f \in File, NEW o \in SaveOutcome, RemoveFile(k, f, o)
      PROVE  Spared(j)
  <2>1. k # j
    BY <1>0, <1>7 DEF RemoveFile
  <2> QED
    BY <1>1, <1>2, <1>7, <2>1 DEF RemoveFile
<1>8. ASSUME NEW w \in Worker, WorkerStep(w), worker[w].job # j PROVE Spared(j)
  <2>1. \/ UNCHANGED <<jobState, fileState>>
        \/ \E state, files, o : Save(worker[w].job, state, files, o)
    <3>1. CASE \/ WorkerReceive(w) \/ WorkerRegister(w) \/ WorkerLease(w)
               \/ WorkerRelease(w) \/ WorkerDone(w) \/ WorkerExit(w)
      BY <3>1 DEF WorkerReceive, WorkerRegister, WorkerLease, WorkerRelease, WorkerDone, WorkerExit,
                  diskVars
    <3>2. CASE \/ \E f \in File : WorkerNextFile(w, f)
               \/ WorkerEndFiles(w) \/ WorkerAcquire(w) \/ WorkerWaitCanceled(w)
               \/ \E n \in {"converting", "recordCancel", "recordFailure"} : WorkerConvert(w, n)
               \/ \E r \in {"completed", "failed", "canceled"} : WorkerConvertReturn(w, r)
      BY <3>2 DEF WorkerNextFile, WorkerEndFiles, WorkerAcquire, WorkerWaitCanceled, WorkerConvert,
                  WorkerConvertReturn, diskVars
    <3>3. CASE \E o \in SaveOutcome : WorkerBegin(w, o) \/ WorkerMark(w, o)
      BY <3>3 DEF WorkerBegin, WorkerMark, diskVars
    <3>4. CASE \E o \in SaveOutcome : WorkerFinalize(w, o)
      BY <3>4 DEF WorkerFinalize, diskVars
    <3>5. CASE \E o \in SaveOutcome : \/ WorkerRecordResult(w, o) \/ WorkerRecordCancel(w, o)
                                      \/ WorkerRecordFailure(w, o)
      BY <3>5 DEF WorkerRecordResult, WorkerRecordCancel, WorkerRecordFailure, RecordFile, diskVars
    <3> QED
      BY <1>8, <3>1, <3>2, <3>3, <3>4, <3>5 DEF WorkerStep
  <2> QED
    BY <1>0, <1>8, <2>1, OneJob
<1>9. ASSUME NEW k \in Job,
             \/ AcceptReserve(k) \/ DeleteCancel(k) \/ \E r \in Reader : ReaderLease(r, k)
             \/ DeleteCheck(k) \/ DeleteUnleased(k) \/ DeleteGiveUp(k) \/ Expire(k)
      PROVE  Spared(j)
  BY <1>9 DEF AcceptReserve, DeleteCancel, ReaderLease, DeleteCheck, DeleteUnleased, DeleteGiveUp,
              Expire, diskVars
<1>10. ASSUME \/ \E r \in Reader : ReaderStep(r)
              \/ CleanupList \/ StopIntake \/ Shutdown \/ Drain \/ Exit \/ Crash \/ Restart
              \/ Recovery \/ Ended
       PROVE  Spared(j)
  BY <1>10 DEF ReaderStep, ReaderOpen, ReaderRelease, CleanupList, StopIntake, Shutdown, Drain,
              Exit, Crash, ProcessEnds, Restart, Recovery, RecoverJob, RecoverDone, Ended,
              diskVars, vars
<1> QED
  BY <1>3, <1>4, <1>5, <1>6, <1>7, <1>8, <1>9, <1>10
     DEF Next, Request, DeleteStep, CleanupStep

\* A worker's own step, the end of the process, or the worker stays as it is.
LEMMA OneWorker ==
    ASSUME TypeOK, NEW w \in Worker, Next, ~WorkerStep(w), ~Exit, ~Crash
    PROVE  worker'[w] = worker[w]
<1>1. ASSUME NEW u \in Worker, WorkerStep(u), u # w PROVE worker'[w] = worker[w]
  BY <1>1 DEF WorkerStep, WorkerReceive, WorkerRegister, WorkerLease, WorkerBegin, WorkerNextFile,
     WorkerEndFiles, WorkerMark, WorkerAcquire, WorkerWaitCanceled, WorkerConvert,
     WorkerConvertReturn, WorkerRecordResult, WorkerRecordCancel, WorkerRecordFailure, RecordFile,
     WorkerFinalize, WorkerRelease, WorkerDone, WorkerExit, BackToScan, TypeOK
<1> QED
  BY <1>1, WorkerFrame

\* Only Start adds to the queue, and only a job it found pending and made queued
\* with a fresh control; only a receiving worker takes from it.
JustStarted(j) ==
    /\ phase = "serving" /\ accepting /\ jobState[j] = "pending" /\ jobState'[j] = "queued"
    /\ queue' = Append(queue, j) /\ j \in controls' /\ UNCHANGED worker

\* A step that ends no process changes the queue by such a start, by a receive, or not at all.
LEMMA QueueMoves ==
    ASSUME TypeOK, SlotsAreScoped, Next, ~Exit, ~Crash
    PROVE  \/ queue' = queue /\ \A w \in Worker : worker'[w].job # worker[w].job =>
                                                     worker'[w].job = NoJob
           \/ \E j \in Job : JustStarted(j)
           \/ \E w \in Worker : WorkerReceive(w)
<1>1. ASSUME NEW j \in Job, AcceptStep(j) \/ Request(j) \/ DeleteStep(j) \/ Expire(j)
      PROVE  UNCHANGED <<queue, worker>> \/ \E o \in SaveOutcome : Start(j, o)
  BY <1>1 DEF AcceptStep, Request, DeleteStep, Expire, AcceptReserve, AcceptCreate,
     AcceptReceive, AcceptReject, AcceptSave, AcceptDiscard, AcceptRemoved, AcceptRemoveRaced,
     AcceptRemoveFails, AcceptRestore, AcceptReturn, InspectAcquire,
     InspectWaitExpired, InspectReturn, Cancel, DeleteCancel, DeleteCheck,
     DeleteUnleased, DeleteGiveUp, DeleteCommit, RemoveFile, ReaderLease, managerVars, queueVars
<1>2. ASSUME NEW j \in Job, NEW o \in SaveOutcome, Start(j, o)
      PROVE  UNCHANGED <<queue, worker>> \/ JustStarted(j)
  BY <1>2 DEF Start, Startable, Save, TypeOK, DiskTypes, JustStarted
<1>3. ASSUME NEW w \in Worker, WorkerStep(w), ~WorkerReceive(w)
      PROVE  /\ queue' = queue
             /\ \A u \in Worker : worker'[u].job # worker[u].job => worker'[u].job = NoJob
  <2>1. CASE WorkerRegister(w) \/ WorkerLease(w) \/ WorkerRelease(w)
    BY <2>1 DEF WorkerRegister, WorkerLease, WorkerRelease, TypeOK, WorkerRecord, managerVars,
                queueVars
  <2>2. CASE WorkerDone(w) \/ WorkerExit(w)
    BY <2>2 DEF WorkerDone, WorkerExit, WorkerAt, TypeOK, WorkerRecord, managerVars, queueVars
  <2>3. CASE WorkerWorks(w)
    BY <2>3, WorkCounts DEF SlotsAreScoped, managerVars, queueVars
  <2> QED
    BY <1>3, <2>1, <2>2, <2>3, WorkerCases
<1>4. ASSUME \/ \E r \in Reader : ReaderStep(r)
             \/ CleanupStep \/ StopIntake \/ Shutdown \/ Drain \/ Restart \/ Recovery \/ Ended
      PROVE  UNCHANGED <<queue, worker>>
  BY <1>4 DEF ReaderStep, ReaderOpen, ReaderRelease, CleanupStep, CleanupList, CleanupJob,
     StopIntake, Shutdown, Drain, Restart, Recovery, RecoverJob, RecoverDone, Ended, vars,
     managerVars, queueVars
<1> QED
  BY <1>1, <1>2, <1>3, <1>4 DEF Next

\* A cancellation sticks to a started job, its control stays registered while it
\* is leased, a stop is not undone, and a failed write is not forgotten.
LEMMA ManagerFrame ==
    ASSUME TypeOK, SlotsAreScoped, Next, ~Exit, ~Crash
    PROVE  /\ stopped => stopped'
           /\ faults' = 0 => faults = 0
           /\ \A k \in Job : k \in cancelled /\ jobState[k] # "pending" => k \in cancelled'
           /\ \A k \in Job : k \in controls =>
                \/ k \in controls'
                \/ ~Leased(k) /\ jobState'[k] = "deleted"
                \/ \E w \in Worker : WorkerDone(w) /\ worker[w].job = k
<1> DEFINE Kept == /\ \A k \in Job : k \in cancelled /\ jobState[k] # "pending" => k \in cancelled'
                   /\ \A k \in Job : k \in controls =>
                        k \in controls' \/ (~Leased(k) /\ jobState'[k] = "deleted")
<1>0. faults \in Nat
  BY BoundsAssumption DEF TypeOK, DiskTypes
<1>1. faults' = 0 => faults = 0
  <2>1. faults' \in {faults, faults + 1}
    <3> USE DEF diskVars, Save, Remove
    <3>1. ASSUME NEW j \in Job, AcceptStep(j) \/ AcceptReserve(j) PROVE faults' \in {faults, faults + 1}
      BY <3>1 DEF AcceptStep, AcceptReserve, AcceptCreate, AcceptReceive, AcceptReject, AcceptSave,
         AcceptDiscard, AcceptRemoved, AcceptRemoveRaced, AcceptRemoveFails, AcceptRestore,
         AcceptReturn, InspectAcquire, InspectWaitExpired, InspectReturn
    <3>2. ASSUME NEW j \in Job, Request(j) \/ DeleteStep(j) \/ Expire(j), ~AcceptReserve(j)
          PROVE  faults' \in {faults, faults + 1}
      BY <3>2 DEF Request, DeleteStep, Expire, Start, Cancel, DeleteCancel, DeleteCheck,
         DeleteUnleased, DeleteGiveUp, DeleteCommit, RemoveFile, ReaderLease
    <3>3. ASSUME NEW w \in Worker, WorkerStep(w) PROVE faults' \in {faults, faults + 1}
      BY <3>3 DEF WorkerStep, WorkerReceive, WorkerRegister, WorkerLease, WorkerBegin,
         WorkerNextFile, WorkerEndFiles, WorkerMark, WorkerAcquire, WorkerWaitCanceled,
         WorkerConvert, WorkerConvertReturn, WorkerRecordResult, WorkerRecordCancel,
         WorkerRecordFailure, RecordFile, WorkerFinalize, WorkerRelease, WorkerDone, WorkerExit
    <3>4. ASSUME \/ \E r \in Reader : ReaderStep(r)
                 \/ CleanupStep \/ StopIntake \/ Shutdown \/ Drain \/ Restart \/ Recovery \/ Ended
          PROVE  faults' \in {faults, faults + 1}
      BY <3>4 DEF ReaderStep, ReaderOpen, ReaderRelease, CleanupStep, CleanupList, CleanupJob,
         StopIntake, Shutdown, Drain, Restart, Recovery, RecoverJob, RecoverDone, Ended, vars
    <3> QED
      BY <3>1, <3>2, <3>3, <3>4 DEF Next
  <2> QED
    BY <1>0, <2>1
<1>2. ASSUME UNCHANGED controlVars PROVE Kept
  BY <1>2 DEF controlVars
<1>3. ASSUME NEW j \in Job, AcceptStep(j) \/ AcceptReserve(j) PROVE Kept /\ (stopped => stopped')
  BY <1>2, <1>3, AcceptCounts DEF managerVars, processVars
<1>4. ASSUME NEW j \in Job, NEW o \in SaveOutcome, Start(j, o) PROVE Kept /\ (stopped => stopped')
  BY <1>4 DEF Start, Startable, controlVars, processVars
<1>5. ASSUME NEW j \in Job, \/ \E o \in SaveOutcome : Cancel(j, o)
                            \/ DeleteCancel(j)
      PROVE  Kept /\ (stopped => stopped')
  BY <1>5 DEF Cancel, DeleteCancel, CancelControl, processVars
<1>6. ASSUME NEW j \in Job, DeleteCommit(j) \/ CleanupJob(j)
      PROVE  Kept /\ (stopped => stopped')
  <2>1. /\ cancelled \subseteq cancelled' /\ UNCHANGED stopped
        /\ \/ UNCHANGED controls
           \/ controls' = controls \ {j} /\ Remove(j) /\ Exists(j) /\ ~Leased(j)
    BY <1>6 DEF DeleteCommit, CleanupJob, Deletable, Sweepable, CancelControl, processVars
  <2>2. Remove(j) /\ Exists(j) => jobState'[j] = "deleted"
    BY DEF Remove, TypeOK, DiskTypes
  <2> QED
    BY <2>1, <2>2
<1>7. ASSUME NEW j \in Job, \/ \E f \in File, o \in SaveOutcome : RemoveFile(j, f, o)
                            \/ \E r \in Reader : ReaderLease(r, j)
                            \/ DeleteCheck(j) \/ DeleteUnleased(j) \/ DeleteGiveUp(j) \/ Expire(j)
      PROVE  Kept /\ (stopped => stopped')
  <2>1. UNCHANGED controlVars /\ UNCHANGED stopped
    BY <1>7 DEF RemoveFile, ReaderLease, DeleteCheck, DeleteUnleased, DeleteGiveUp, Expire,
       managerVars, processVars
  <2> QED
    BY <1>2, <2>1
<1>8. ASSUME NEW w \in Worker, WorkerStep(w), ~WorkerDone(w) PROVE Kept /\ (stopped => stopped')
  <2>1. CASE WorkerWorks(w)
    BY <1>2, <2>1, WorkCounts DEF SlotsAreScoped, managerVars, processVars
  <2>2. CASE ~WorkerWorks(w)
    BY <1>2, <1>8, <2>2, WorkerCases DEF WorkerReceive, WorkerRegister, WorkerLease, WorkerRelease,
       WorkerExit, managerVars, processVars
  <2> QED
    BY <2>1, <2>2
<1>9. ASSUME NEW w \in Worker, WorkerDone(w)
      PROVE  /\ cancelled \subseteq cancelled' /\ (stopped => stopped')
             /\ \A k \in Job : k \in controls => k \in controls' \/ worker[w].job = k
  BY <1>9 DEF WorkerDone, processVars
<1>10. ASSUME \/ \E r \in Reader : ReaderStep(r)
              \/ CleanupList \/ StopIntake \/ Shutdown \/ Drain \/ Restart \/ Recovery \/ Ended
       PROVE  Kept /\ (stopped => stopped')
  BY <1>2, <1>10 DEF ReaderStep, ReaderOpen, ReaderRelease, CleanupList, StopIntake, Shutdown, Drain,
     Restart, Recovery, RecoverJob, RecoverDone, Ended, vars, managerVars, processVars, controlVars
<1> QED
  BY <1>1, <1>3, <1>4, <1>5, <1>6, <1>7, <1>8, <1>9, <1>10
     DEF Next, Request, DeleteStep, CleanupStep

-----------------------------------------------------------------------------
(* Who is around *)

\* The phases of the process and its actors keep in step.
LEMMA RosterStep ==
    ASSUME TypeOK, TypeOK', ManagerInv, SlotsAreScoped, Roster, Next
    PROVE  Roster'
<1>0. /\ worker \in [Worker -> WorkerRecord] /\ worker' \in [Worker -> WorkerRecord]
      /\ reader \in [Reader -> ReaderRecord] /\ upload \in [Job -> UploadRecord]
  BY DEF TypeOK, ClientTypes
<1>1. CASE Exit \/ Crash
  BY <1>1 DEF Exit, Crash, ProcessEnds, Roster, WorkerAt, IdleReader
<1>2. ASSUME NEW j \in Job, AcceptStep(j) \/ AcceptReserve(j) PROVE Roster'
  <2>1. UNCHANGED <<worker, reader, queue, phase, accepting, stopped, drained>>
    BY <1>2, AcceptCounts DEF clientVars, managerVars, processVars, queueVars
  <2>2. ~drained
    BY <1>2 DEF Roster, WaitGroupEmpty, AcceptStep, AcceptReserve, AcceptCreate, AcceptReceive,
       AcceptReject, AcceptSave, AcceptDiscard, AcceptRemoved, AcceptRemoveRaced,
       AcceptRemoveFails, AcceptRestore, AcceptReturn, InspectAcquire, InspectWaitExpired,
       InspectReturn
  <2> QED
    BY <2>1, <2>2 DEF Roster
<1>3. ASSUME NEW j \in Job, NEW o \in SaveOutcome, Start(j, o) PROVE Roster'
  <2>1. /\ phase = "serving" /\ accepting /\ UNCHANGED <<processVars, worker, upload, reader>>
    BY <1>3 DEF Start, clientVars
  <2> QED
    BY <2>1 DEF Roster, processVars
<1>4. ASSUME NEW r \in Reader, ReaderStep(r) \/ \E j \in Job : ReaderLease(r, j) PROVE Roster'
  <2>1. /\ UNCHANGED <<worker, upload, queue, phase, accepting, stopped, drained>>
        /\ \A s \in Reader \ {r} : reader'[s] = reader[s]
        /\ reader'[r].pc # "idle" => reader'[r].job \in Job
    BY <1>0, <1>4 DEF ReaderStep, ReaderOpen, ReaderRelease, ReaderLease, IdleReader, Roster,
       ReaderRecord, managerVars, processVars, queueVars
  <2> QED
    BY <2>1 DEF Roster, WaitGroupEmpty
<1>5. ASSUME NEW w \in Worker, WorkerStep(w) PROVE Roster'
  <2>1. /\ UNCHANGED <<upload, reader, phase, accepting, stopped, drained>>
        /\ \A u \in Worker \ {w} : worker'[u] = worker[u]
        /\ worker[w].pc # "exited"
        /\ worker'[w].pc \in {"idle", "exited"} => worker'[w].job = NoJob
        /\ worker'[w].pc = "exited" => stopped /\ queue = <<>>
        /\ queue = <<>> => queue' = <<>>
        /\ worker[w].pc = "idle" => stopped \/ queue # <<>>
    <3>1. CASE WorkerWorks(w)
      BY <3>1, WorkCounts DEF SlotsAreScoped, LeasedPc, clientVars, managerVars, processVars,
                              queueVars
    <3>2. CASE WorkerReceive(w) \/ WorkerDone(w) \/ WorkerExit(w)
      BY <1>0, <3>2 DEF WorkerReceive, WorkerDone, WorkerExit, WorkerAt, clientVars, managerVars,
                        processVars, queueVars
    <3>3. CASE WorkerRegister(w) \/ WorkerLease(w) \/ WorkerRelease(w)
      BY <1>0, <3>3 DEF WorkerRegister, WorkerLease, WorkerRelease, WorkerRecord, clientVars,
                        managerVars, processVars, queueVars
    <3> QED
      BY <1>5, <3>1, <3>2, <3>3, WorkerCases
  <2>2. ~drained /\ phase = "serving"
    BY <2>1 DEF Roster, WaitGroupEmpty
  <2> QED
    BY <2>1, <2>2 DEF Roster
<1>6. ASSUME StopIntake \/ Shutdown \/ Drain PROVE Roster'
  BY <1>6 DEF StopIntake, Shutdown, Drain, Roster, WaitGroupEmpty, queueVars, clientVars
<1>7. ASSUME Restart \/ Recovery PROVE Roster'
  <2>1. /\ UNCHANGED <<worker, reader, upload, queue, stopped, drained>>
        /\ phase # "serving"
    BY <1>7 DEF Restart, Recovery, RecoverJob, RecoverDone, clientVars, queueVars
  <2> QED
    BY <2>1 DEF Roster
<1>8. ASSUME UNCHANGED <<worker, upload, reader, countVars, queueVars>>,
             UNCHANGED processVars
      PROVE  Roster'
  BY <1>8 DEF Roster, WaitGroupEmpty, queueVars, processVars
<1>9. ASSUME NEW j \in Job,
             \/ \E o \in SaveOutcome : Cancel(j, o)
             \/ DeleteCancel(j) \/ DeleteStep(j) \/ Expire(j) \/ CleanupJob(j)
             \/ \E f \in File, o \in SaveOutcome : RemoveFile(j, f, o)
      PROVE  UNCHANGED <<worker, upload, reader, countVars, queueVars>> /\ UNCHANGED processVars
  BY <1>9 DEF Cancel, DeleteCancel, DeleteStep, DeleteCheck, DeleteUnleased, DeleteGiveUp,
     DeleteCommit, Expire, CleanupJob, RemoveFile, managerVars, clientVars
<1>10. ASSUME CleanupList \/ Ended
       PROVE  UNCHANGED <<worker, upload, reader, countVars, queueVars>> /\ UNCHANGED processVars
  BY <1>10 DEF CleanupList, Ended, vars, managerVars, processVars, countVars, queueVars
<1> QED
  BY <1>1, <1>2, <1>3, <1>4, <1>5, <1>6, <1>7, <1>8, <1>9, <1>10 DEF Next, Request, CleanupStep

-----------------------------------------------------------------------------
(* Each job is scheduled once *)

\* The inductive invariant so far, of which the rest is built.
OnceInv == CountInv /\ FilesFitState /\ Roster /\ StartedOnce

\* What the invariant says about a busy worker.
LEMMA BusyWorker ==
    ASSUME OnceInv, NEW w \in Worker, worker[w].pc \notin {"idle", "exited"}
    PROVE  /\ worker[w].job \in Job /\ jobState[worker[w].job] \in Started
           /\ Schedulable(worker[w].job)
           /\ phase = "serving"
  BY DEF OnceInv, CountInv, ManagerInv, WorkerShape, StartedOnce, Roster, ScheduledIsListed

\* A job in the queue or with a worker has left intake: it is not taken away with
\* a rejected upload.
LEMMA ScheduledIsKept ==
    ASSUME OnceInv, NEW j \in Job, InQueue(j) \/ \E w \in Worker : worker[w].job = j
    PROVE  Schedulable(j) /\ ~PutsEmptyJobBack(j)
<1>1. ASSUME InQueue(j) PROVE Schedulable(j)
  BY <1>1 DEF OnceInv, CountInv, ManagerInv, ScheduledIsListed, InQueue
<1>2. ASSUME NEW w \in Worker, worker[w].job = j PROVE Schedulable(j)
  BY <1>2, BusyWorker, NoJobAssumption DEF OnceInv, Roster
<1>3. Schedulable(j)
  BY <1>1, <1>2
<1> QED
  BY <1>3 DEF Schedulable, IntakePc, PutsEmptyJobBack, Withdrawn

\* A step moves every job's state on.
LEMMA StartedStays ==
    ASSUME OnceInv, Next
    PROVE  FilesFitState' /\ \A j \in Job : OutcomeKept(j) /\ ManifestMoves(j)
<1>1. [Lifecycle!Next]_Lifecycle!lifecycleVars /\ \A j \in Job : ManifestMoves(j)
  BY StepRefines, StepMoves DEF OnceInv, CountInv
<1> QED
  BY <1>1, LifecycleFits DEF OnceInv, CountInv, ManagerInv, TypeOK

\* A worker that does not step, in a process that goes on, keeps its locals, and
\* its job is spared.
LEMMA Untouched ==
    ASSUME OnceInv, NEW w \in Worker, Next, ~WorkerStep(w), ~Exit, ~Crash
    PROVE  /\ worker'[w] = worker[w]
           /\ worker[w].pc \notin {"idle", "exited"} => Spared(worker[w].job)
<1>1. worker'[w] = worker[w]
  BY OneWorker DEF OnceInv, CountInv, ManagerInv
<1>2. ASSUME worker[w].pc \notin {"idle", "exited"} PROVE Spared(worker[w].job)
  <2>1. PICK j \in Job : j = worker[w].job
    BY <1>2, BusyWorker
  <2>2. Spared(j) \/ \E u \in Worker : WorkerStep(u) /\ worker[u].job = j
    BY <1>2, <2>1, BusyWorker, OthersSpareWork DEF OnceInv, CountInv
  <2>3. \A u \in Worker : worker[u].job = j => u = w
    BY <2>1 DEF OnceInv, StartedOnce
  <2>4. Spared(j)
    BY <2>2, <2>3
  <2> QED
    BY <2>1, <2>4
<1> QED
  BY <1>1, <1>2

\* A job that waits in the queue is spared.
LEMMA QueuedUntouched ==
    ASSUME OnceInv, NEW j \in Job, InQueue(j), Next
    PROVE  Spared(j)
<1>1. phase = "serving" /\ jobState[j] \in Started
  BY DEF OnceInv, Roster, StartedOnce, InQueue
<1>2. ~\E w \in Worker : worker[w].job = j
  BY DEF OnceInv, StartedOnce
<1> QED
  BY <1>1, <1>2, OthersSpareWork, ScheduledIsKept DEF OnceInv, CountInv

\* How the queue changes, element by element.
LEMMA QueueElements ==
    ASSUME OnceInv, Next, ~Exit, ~Crash, NEW j \in Job, InQueue(j)'
    PROVE  InQueue(j) \/ JustStarted(j)
<1>0. queue \in Seq(Job)
  BY DEF OnceInv, CountInv, ManagerInv, TypeOK, ManagerTypes
<1>1. CASE queue' = queue
  BY <1>1 DEF InQueue
<1>2. ASSUME NEW k \in Job, JustStarted(k) PROVE InQueue(j) \/ JustStarted(j)
  <2>1. queue' = Append(queue, k)
    BY <1>2 DEF JustStarted
  <2> QED
    BY <1>0, <1>2, <2>1 DEF InQueue
<1>3. ASSUME NEW w \in Worker, WorkerReceive(w) PROVE InQueue(j)
  <2>1. \A i \in 1 .. Len(queue') : queue'[i] = queue[i + 1] /\ i + 1 \in 1 .. Len(queue)
    BY <1>0, <1>3 DEF WorkerReceive
  <2> QED
    BY <2>1 DEF InQueue
<1> QED
  BY <1>1, <1>2, <1>3, QueueMoves DEF OnceInv, CountInv, ManagerInv, SlotInv

\* Scheduling stays unique: Start takes pending jobs, and no scheduled job is.
LEMMA OnceStep ==
    ASSUME OnceInv, Next
    PROVE  StartedOnce'
<1>0. /\ queue \in Seq(Job) /\ worker \in [Worker -> WorkerRecord] /\ worker' \in [Worker -> WorkerRecord]
      /\ TypeOK /\ SlotsAreScoped
  BY CountStep DEF OnceInv, CountInv, ManagerInv, TypeOK, ManagerTypes, SlotInv
<1>1. CASE Exit \/ Crash
  <2>1. queue' = <<>> /\ \A w \in Worker : worker'[w].job = NoJob
    BY <1>1 DEF Exit, Crash, ProcessEnds, WorkerAt
  <2> QED
    BY <2>1, NoJobAssumption DEF StartedOnce, InQueue
<1>2. CASE ~Exit /\ ~Crash
  <2>1. \A j \in Job : InQueue(j)' => jobState'[j] \in Started
    BY <1>2, QueueElements, StartedStays, ScheduledIsKept
       DEF OnceInv, StartedOnce, OutcomeKept, JustStarted, Started
  <2>2. CASE queue' = queue /\ \A w \in Worker : worker'[w].job # worker[w].job =>
                                                     worker'[w].job = NoJob
    <3>1. \A w \in Worker : worker'[w].job \in Job => worker'[w].job = worker[w].job
      BY <2>2, NoJobAssumption
    <3>2. \A w \in Worker : worker'[w].job \in Job => jobState'[worker'[w].job] \in Started
      BY <3>1, StartedStays, ScheduledIsKept DEF OnceInv, StartedOnce, OutcomeKept
    <3>3. \A w \in Worker : ~InQueue(worker[w].job)'
      <4> SUFFICES ASSUME NEW w \in Worker, NEW i \in 1 .. Len(queue'), queue'[i] = worker'[w].job
                   PROVE  FALSE
        BY DEF InQueue
      <4>1. queue[i] = worker[w].job /\ i \in 1 .. Len(queue)
        BY <1>0, <2>2, <3>1
      <4> QED
        BY <4>1 DEF OnceInv, StartedOnce, InQueue
    <3>4. \A i, k \in 1 .. Len(queue') : queue'[i] = queue'[k] => i = k
      BY <2>2 DEF OnceInv, StartedOnce
    <3>5. \A w, u \in Worker : worker'[w].job \in Job /\ worker'[u].job = worker'[w].job => u = w
      BY <3>1 DEF OnceInv, StartedOnce
    <3> QED
      BY <2>1, <3>2, <3>3, <3>4, <3>5 DEF StartedOnce
  <2>3. ASSUME NEW j \in Job, JustStarted(j) PROVE StartedOnce'
    <3>1. /\ jobState[j] = "pending" /\ queue' = Append(queue, j) /\ UNCHANGED worker
      BY <2>3 DEF JustStarted
    <3>2. ~InQueue(j) /\ \A w \in Worker : worker[w].job # j
      BY <3>1 DEF OnceInv, StartedOnce, Started, Begun
    <3>3. \A w \in Worker : worker'[w].job \in Job => jobState'[worker'[w].job] \in Started
      BY <3>1, StartedStays, ScheduledIsKept DEF OnceInv, StartedOnce, OutcomeKept
    <3>4. \A i, k \in 1 .. Len(queue') : queue'[i] = queue'[k] => i = k
      BY <1>0, <3>1, <3>2 DEF OnceInv, StartedOnce, InQueue
    <3>5. \A w \in Worker, i \in 1 .. Len(queue') : worker'[w].job # queue'[i]
      BY <1>0, <3>1, <3>2 DEF OnceInv, StartedOnce, InQueue
    <3>6. \A w \in Worker : ~InQueue(worker[w].job)'
      BY <3>5 DEF InQueue
    <3>7. \A w, u \in Worker : worker'[w].job \in Job /\ worker'[u].job = worker'[w].job => u = w
      BY <3>1 DEF OnceInv, StartedOnce
    <3> QED
      BY <2>1, <3>3, <3>4, <3>6, <3>7 DEF StartedOnce
  <2>4. ASSUME NEW w \in Worker, WorkerReceive(w) PROVE StartedOnce'
    <3>1. /\ queue # <<>> /\ queue' = Tail(queue) /\ worker'[w].job = Head(queue)
          /\ \A u \in Worker \ {w} : worker'[u] = worker[u]
      BY <1>0, <2>4 DEF WorkerReceive, WorkerAt
    <3>2. /\ Len(queue) \in Nat /\ Len(queue) >= 1 /\ Head(queue) = queue[1] /\ Len(queue') = Len(queue) - 1
          /\ \A i \in 1 .. Len(queue') : queue'[i] = queue[i + 1] /\ i + 1 \in 1 .. Len(queue)
      BY <1>0, <3>1
    <3>3. InQueue(queue[1]) /\ queue[1] \in Job
      BY <1>0, <3>2 DEF InQueue
    <3>4. \A u \in Worker : worker'[u].job \in Job => jobState'[worker'[u].job] \in Started
      BY <3>1, <3>2, <3>3, StartedStays, ScheduledIsKept DEF OnceInv, StartedOnce, OutcomeKept
    <3>5. \A i, k \in 1 .. Len(queue') : queue'[i] = queue'[k] => i = k
      BY <3>2 DEF OnceInv, StartedOnce
    <3>6. \A u \in Worker, i \in 1 .. Len(queue') : worker'[u].job # queue'[i]
      <4> SUFFICES ASSUME NEW u \in Worker, NEW i \in 1 .. Len(queue'), worker'[u].job = queue'[i]
                   PROVE  FALSE
        OBVIOUS
      <4>1. queue'[i] = queue[i + 1] /\ i + 1 \in 1 .. Len(queue) /\ i + 1 # 1
        BY <3>2
      <4>2. CASE u = w
        BY <3>1, <3>2, <4>1, <4>2 DEF OnceInv, StartedOnce
      <4>3. CASE u # w
        BY <3>1, <4>1, <4>3 DEF OnceInv, StartedOnce, InQueue
      <4> QED
        BY <4>2, <4>3
    <3>7. \A u \in Worker : ~InQueue(worker[u].job)'
      BY <3>6 DEF InQueue
    <3>8. \A u, v \in Worker : worker'[u].job \in Job /\ worker'[v].job = worker'[u].job => v = u
      BY <3>1, <3>2, <3>3 DEF OnceInv, StartedOnce
    <3> QED
      BY <2>1, <3>4, <3>5, <3>7, <3>8 DEF StartedOnce
  <2> QED
    BY <1>0, <1>2, <2>2, <2>3, <2>4, QueueMoves
<1> QED
  BY <1>1, <1>2

\* The parts of the invariant start out right.
LEMMA OnceInit == Init => OnceInv
<1> SUFFICES ASSUME Init PROVE OnceInv
  OBVIOUS
<1>1. FilesFitState
  BY DEF Init, FilesFitState, Fits
<1>2. Roster
  BY DEF Init, Roster, WorkerAt, IdleReader
<1>3. StartedOnce
  <2>1. queue = <<>> /\ \A w \in Worker : worker[w].job = NoJob
    BY DEF Init, WorkerAt
  <2> QED
    BY <2>1, NoJobAssumption DEF StartedOnce, InQueue
<1> QED
  BY <1>1, <1>2, <1>3, CountInit DEF OnceInv

\* Every step keeps them.
LEMMA OnceInvStep == OnceInv /\ [Next]_vars => OnceInv'
<1> SUFFICES ASSUME OnceInv, [Next]_vars PROVE OnceInv'
  OBVIOUS
<1>1. CountInv'
  BY CountStep DEF OnceInv
<1>2. CASE Next
  BY <1>1, <1>2, StartedStays, RosterStep, OnceStep DEF OnceInv, CountInv, ManagerInv, SlotInv
<1>3. CASE UNCHANGED vars
  <2>1. FilesFitState' /\ StartedOnce'
    BY <1>3 DEF OnceInv, FilesFitState, Fits, StartedOnce, InQueue, vars
  <2>2. Roster'
    BY <1>3 DEF OnceInv, Roster, WaitGroupEmpty, vars
  <2> QED
    BY <1>1, <2>1, <2>2 DEF OnceInv
<1> QED
  BY <1>2, <1>3

-----------------------------------------------------------------------------
(* Who moves a job where *)

\* Only AcceptCreate creates, Start queues and finalize fails a job, and a job is
\* removed only without leases, or by an Accept call that gives up.
StateOwners(j) ==
    /\ jobState[j] = "unused" /\ jobState'[j] # "unused" =>
         \E o \in SaveOutcome : AcceptCreate(j, o)
    /\ jobState[j] # "queued" /\ jobState'[j] = "queued" => \E o \in SaveOutcome : Start(j, o)
    /\ jobState[j] # "failed" /\ jobState'[j] = "failed" =>
         \E w \in Worker, o \in SaveOutcome : WorkerFinalize(w, o) /\ worker[w].job = j
    /\ Exists(j) /\ jobState'[j] = "deleted" =>
         \/ ~Leased(j)
         \/ upload[j].pc \in {"withdrawing", "removing"}

\* Every step respects these owners.
LEMMA StateMoves ==
    ASSUME ManagerInv, NEW j \in Job, Next
    PROVE  StateOwners(j)
<1> USE DEF StateOwners
<1>0. DiskTypes /\ WorkerShape /\ upload \in [Job -> UploadRecord]
  BY DEF ManagerInv, TypeOK
<1>1. ASSUME jobState'[j] = jobState[j] PROVE StateOwners(j)
  BY <1>1 DEF Exists, JobState
<1>2. ASSUME NEW k \in Job, NEW state, NEW files, NEW o, Save(k, state, files, o),
             Exists(k), state \in JobState \ {"queued", "failed"} \/ state = jobState[k]
      PROVE  StateOwners(j)
  <2>1. jobState'[j] = jobState[j] \/ (k = j /\ jobState'[j] = state)
    BY <1>0, <1>2 DEF Save, DiskTypes
  <2> QED
    BY <1>1, <1>2, <2>1 DEF Exists, JobState
<1>3. ASSUME NEW k \in Job, Remove(k)
      PROVE  jobState'[j] = jobState[j] \/ (k = j /\ Exists(j) /\ jobState'[j] = "deleted")
  BY <1>0, <1>3 DEF Remove, DiskTypes
<1>4. ASSUME NEW k \in Job, AcceptStep(k) PROVE StateOwners(j)
  <2>1. CASE \E o \in SaveOutcome : AcceptCreate(k, o)
    <3>1. CASE k = j
      <4>1. jobState[j] = "unused" /\ jobState'[j] \in {"pending", "deleted"}
        BY <1>0, <2>1, <3>1 DEF AcceptCreate, DiskTypes, ManagerInv, IntakeIsPrivate
      <4> QED
        BY <2>1, <3>1, <4>1 DEF Exists, JobState
    <3>2. CASE k # j
      BY <1>0, <1>1, <2>1, <3>2 DEF AcceptCreate, DiskTypes
    <3> QED
      BY <3>1, <3>2
  <2>2. CASE \E o \in SaveOutcome : AcceptSave(k, o)
    BY <1>1, <1>2, <2>2 DEF AcceptSave, diskVars
  <2>3. CASE AcceptRemoved(k) \/ \E unlinked \in BOOLEAN : AcceptRemoveFails(k, unlinked)
    <3>1. /\ upload[k].pc \in {"withdrawing", "removing"}
          /\ jobState'[j] = jobState[j] \/ (k = j /\ Exists(j) /\ jobState'[j] = "deleted")
      BY <1>0, <1>3, <2>3 DEF AcceptRemoved, AcceptRemoveFails, DiskTypes
    <3> QED
      BY <1>1, <3>1 DEF Exists, JobState
  <2>4. ASSUME NEW o \in SaveOutcome, AcceptRestore(k, o) PROVE StateOwners(j)
    <3>1. /\ jobState[k] # "unused" /\ upload[k].seenState \in {"pending", "canceled"}
          /\ Save(k, upload[k].seenState, NoFiles, o)
      BY <2>4 DEF AcceptRestore, ManagerInv, IntakeIsPrivate, IntakePc
    <3>2. \/ jobState'[j] = jobState[j]
          \/ k = j /\ jobState[j] # "unused" /\ jobState'[j] \in {"pending", "canceled"}
      BY <1>0, <3>1 DEF Save, DiskTypes
    <3> QED
      BY <1>1, <3>2
  <2>5. CASE ~(\/ \E o \in SaveOutcome : AcceptCreate(k, o) \/ AcceptSave(k, o) \/ AcceptRestore(k, o)
               \/ AcceptRemoved(k) \/ \E unlinked \in BOOLEAN : AcceptRemoveFails(k, unlinked))
    BY <1>1, <1>4, <2>5 DEF AcceptStep, AcceptReceive, AcceptReject, AcceptDiscard,
       AcceptRemoveRaced, AcceptReturn, InspectAcquire, InspectWaitExpired, InspectReturn, diskVars
  <2> QED
    BY <2>1, <2>2, <2>3, <2>4, <2>5
<1>5. ASSUME NEW k \in Job, NEW o \in SaveOutcome, Start(k, o) PROVE StateOwners(j)
  <2>1. \/ jobState'[j] = jobState[j]
        \/ k = j /\ jobState'[j] = "queued" /\ jobState[j] = "pending"
    BY <1>0, <1>5 DEF Start, Startable, Save, DiskTypes
  <2> QED
    BY <1>1, <1>5, <2>1 DEF Exists, JobState
<1>6. ASSUME NEW k \in Job, NEW o \in SaveOutcome, Cancel(k, o) PROVE StateOwners(j)
  BY <1>2, <1>6 DEF Cancel, JobState
<1>7. ASSUME NEW k \in Job, DeleteCommit(k) \/ CleanupJob(k) PROVE StateOwners(j)
  <2>1. jobState' = jobState \/ (Remove(k) /\ ~Leased(k))
    BY <1>7 DEF DeleteCommit, CleanupJob, Deletable, Sweepable, diskVars
  <2> QED
    BY <1>1, <1>3, <2>1 DEF Exists, JobState
<1>8. ASSUME NEW k \in Job, NEW f \in File, NEW o \in SaveOutcome, RemoveFile(k, f, o)
      PROVE  StateOwners(j)
  <2>1. ~Leased(k) /\ Exists(k)
    BY <1>8 DEF RemoveFile, Exists, JobState
  <2>2. Remove(k) \/ \E files : Save(k, "pending", files, o)
    BY <1>8 DEF RemoveFile
  <2>3. CASE Remove(k)
    BY <1>1, <1>3, <2>1, <2>3 DEF Exists, JobState
  <2> QED
    BY <1>2, <2>1, <2>2, <2>3 DEF JobState
<1>9. ASSUME NEW w \in Worker, WorkerStep(w) PROVE StateOwners(j)
  <2>1. CASE \/ WorkerReceive(w) \/ WorkerRegister(w) \/ WorkerLease(w)
             \/ WorkerRelease(w) \/ WorkerDone(w) \/ WorkerExit(w)
             \/ \E f \in File : WorkerNextFile(w, f)
             \/ WorkerEndFiles(w) \/ WorkerAcquire(w) \/ WorkerWaitCanceled(w)
             \/ \E n \in {"converting", "recordCancel", "recordFailure"} : WorkerConvert(w, n)
             \/ \E r \in {"completed", "failed", "canceled"} : WorkerConvertReturn(w, r)
    BY <1>1, <2>1 DEF WorkerReceive, WorkerRegister, WorkerLease, WorkerRelease, WorkerDone,
       WorkerExit, WorkerNextFile, WorkerEndFiles, WorkerAcquire, WorkerWaitCanceled, WorkerConvert,
       WorkerConvertReturn, diskVars
  <2>2. CASE \E o \in SaveOutcome : WorkerBegin(w, o) \/ WorkerMark(w, o)
    <3>1. worker[w].job \in Job
      BY <1>0, <2>2 DEF WorkerBegin, WorkerMark, WorkerShape
    <3>2. \/ jobState' = jobState
          \/ Exists(worker[w].job) /\ \E files, o : Save(worker[w].job, "running", files, o)
      BY <2>2 DEF WorkerBegin, WorkerMark, diskVars, Exists, JobState
    <3> QED
      BY <1>1, <1>2, <3>1, <3>2 DEF JobState
  <2>3. CASE \E o \in SaveOutcome : \/ WorkerRecordResult(w, o) \/ WorkerRecordCancel(w, o)
                                    \/ WorkerRecordFailure(w, o)
    <3>1. worker[w].job \in Job
      BY <1>0, <2>3 DEF WorkerRecordResult, WorkerRecordCancel, WorkerRecordFailure, WorkerShape
    <3>2. \/ jobState' = jobState
          \/ /\ Exists(worker[w].job)
             /\ \E files, o : Save(worker[w].job, jobState[worker[w].job], files, o)
      BY <2>3 DEF WorkerRecordResult, WorkerRecordCancel, WorkerRecordFailure, RecordFile, diskVars
    <3> QED
      BY <1>1, <1>2, <3>1, <3>2
  <2>4. ASSUME NEW o \in SaveOutcome, WorkerFinalize(w, o) PROVE StateOwners(j)
    <3>1. worker[w].job \in Job
      BY <1>0, <2>4 DEF WorkerFinalize, WorkerShape
    <3>2. PICK state \in {"completed", "failed", "canceled"} :
             \/ jobState' = jobState
             \/ Exists(worker[w].job) /\ \E files : Save(worker[w].job, state, files, o)
      BY <2>4 DEF WorkerFinalize, NeedsFinal, FinalState, diskVars
    <3>3. \/ jobState'[j] = jobState[j]
          \/ worker[w].job = j /\ jobState'[j] = state /\ Exists(j)
      BY <1>0, <3>1, <3>2 DEF Save, DiskTypes
    <3> QED
      BY <1>1, <2>4, <3>3 DEF Exists, JobState
  <2> QED
    BY <1>9, <2>1, <2>2, <2>3, <2>4 DEF WorkerStep
<1>10. ASSUME NEW k \in Job,
             \/ AcceptReserve(k) \/ DeleteCancel(k) \/ \E r \in Reader : ReaderLease(r, k)
             \/ DeleteCheck(k) \/ DeleteUnleased(k) \/ DeleteGiveUp(k) \/ Expire(k)
      PROVE  StateOwners(j)
  <2>1. jobState' = jobState
    BY <1>10 DEF AcceptReserve, DeleteCancel, ReaderLease, DeleteCheck, DeleteUnleased,
       DeleteGiveUp, Expire, diskVars
  <2> QED
    BY <1>1, <2>1
<1>11. ASSUME NEW k \in Job, NEW o \in SaveOutcome, RecoverJob(k, o) PROVE StateOwners(j)
  BY <1>2, <1>11 DEF RecoverJob, Recovered, JobState
<1>12. ASSUME \/ \E r \in Reader : ReaderStep(r)
              \/ CleanupList \/ StopIntake \/ Shutdown \/ Drain \/ Exit \/ Crash \/ Restart
              \/ RecoverDone \/ Ended
       PROVE  StateOwners(j)
  <2>1. jobState' = jobState
    BY <1>12 DEF ReaderStep, ReaderOpen, ReaderRelease, CleanupList, StopIntake, Shutdown, Drain,
       Exit, Crash, ProcessEnds, Restart, RecoverDone, Ended, diskVars, vars
  <2> QED
    BY <1>1, <2>1
<1> QED
  BY <1>4, <1>5, <1>6, <1>7, <1>8, <1>9, <1>10, <1>11, <1>12
     DEF Next, Request, DeleteStep, CleanupStep, Recovery

\* A started job that exists after a step existed before it.
LEMMA ExistedBefore ==
    ASSUME OnceInv, Next, NEW j \in Job, jobState[j] \in Started, Exists(j)', Schedulable(j)
    PROVE  Exists(j)
<1>1. jobState[j] # "deleted" /\ ~PutsEmptyJobBack(j)
  BY StartedStays DEF ManifestMoves, Exists, JobState, Schedulable, IntakePc, PutsEmptyJobBack,
     Withdrawn
<1> QED
  BY <1>1 DEF Started, Begun, Exists, JobState

\* A holder's job is leased.
LEMMA HolderIsLeased ==
    ASSUME CountInv, NEW j \in Job, Holders(j) # {}
    PROVE  Leased(j)
<1>1. IsFiniteSet(Holders(j)) /\ leases[j] = Cardinality(Holders(j))
  BY HoldersAre DEF CountInv, ManagerInv, LeasesAreCounted
<1>2. Cardinality(Holders(j)) \in Nat /\ Cardinality(Holders(j)) # 0
  BY <1>1, FS_CardinalityType, FS_EmptySet
<1> QED
  BY <1>1, <1>2 DEF Leased

\* A worker inside process holds a lease on its job.
LEMMA WorkerIsLeased ==
    ASSUME OnceInv, NEW w \in Worker, worker[w].pc \in LeasedPc
    PROVE  worker[w].job \in Job /\ Leased(worker[w].job)
<1>1. PICK j \in Job : j = worker[w].job
  BY BusyWorker DEF LeasedPc
<1>2. w \in Holders(j)
  BY <1>1 DEF Holders
<1> QED
  BY <1>1, <1>2, HolderIsLeased DEF OnceInv

-----------------------------------------------------------------------------
(* Cancellation *)

\* A worker's steps outside process: it pops, registers, leases, is done, leaves.
LEMMA WorkerOutside ==
    ASSUME TypeOK, NEW w \in Worker
    PROVE  /\ WorkerReceive(w) =>
                /\ worker'[w].pc = "received" /\ worker'[w].job = Head(queue) /\ queue # <<>>
                /\ UNCHANGED <<jobState, fileState, controls, cancelled, stopped>>
           /\ WorkerRegister(w) =>
                /\ worker[w].pc = "received" /\ worker'[w].pc = "lease"
                /\ worker'[w].job = worker[w].job
                /\ worker'[w].ctl = (worker[w].job \in controls)
                /\ UNCHANGED <<jobState, fileState, controls, cancelled, stopped>>
           /\ WorkerLease(w) =>
                /\ worker[w].pc = "lease"
                /\ worker'[w].pc = IF Exists(worker[w].job) THEN "begin" ELSE "done"
                /\ worker'[w].job = worker[w].job /\ worker'[w].ctl = worker[w].ctl
                /\ UNCHANGED <<jobState, fileState, controls, cancelled, stopped>>
           /\ WorkerRelease(w) =>
                worker[w].pc = "release" /\ worker'[w].pc = "done"
           /\ WorkerDone(w) => worker[w].pc = "done" /\ worker'[w].pc = "idle"
           /\ WorkerExit(w) => worker[w].pc = "idle" /\ worker'[w].pc = "exited"
  BY DEF TypeOK, WorkerRecord, WorkerReceive, WorkerRegister, WorkerLease, WorkerRelease, WorkerDone,
         WorkerExit, WorkerAt, diskVars, managerVars, processVars, controlVars

\* A received job was in the queue.
LEMMA HeadIsQueued ==
    ASSUME TypeOK, queue # <<>>
    PROVE  Head(queue) \in Job /\ InQueue(Head(queue))
<1>1. queue \in Seq(Job)
  BY DEF TypeOK, ManagerTypes
<1>2. Len(queue) \in Nat /\ Len(queue) >= 1 /\ Head(queue) = queue[1] /\ queue[1] \in Job
  BY <1>1
<1> QED
  BY <1>2 DEF InQueue

\* No step takes the control of a scheduled job from under it.
LEMMA ControlsStep ==
    ASSUME OnceInv, OnceInv', ControlsAreKept, Next
    PROVE  ControlsAreKept'
<1>0. TypeOK /\ SlotsAreScoped /\ worker \in [Worker -> WorkerRecord]
  BY DEF OnceInv, CountInv, ManagerInv, SlotInv, TypeOK
<1>1. CASE Exit \/ Crash
  <2>1. queue' = <<>> /\ \A w \in Worker : worker'[w].pc = "idle"
    BY <1>1 DEF Exit, Crash, ProcessEnds, WorkerAt
  <2> QED
    BY <2>1 DEF ControlsAreKept, InQueue, LeasedPc
<1>2. CASE ~Exit /\ ~Crash
  <2>1. ASSUME NEW j \in Job, InQueue(j)', Exists(j)' PROVE j \in controls'
    <3>1. CASE JustStarted(j)
      BY <3>1 DEF JustStarted
    <3>2. CASE InQueue(j)
      <4>1. j \in controls
        BY <2>1, <3>2, ExistedBefore, ScheduledIsKept DEF ControlsAreKept, OnceInv, StartedOnce
      <4>2. jobState'[j] # "deleted"
        BY <2>1 DEF Exists, JobState
      <4>3. ~\E w \in Worker : worker[w].job = j
        BY <3>2 DEF OnceInv, StartedOnce
      <4> QED
        BY <1>0, <1>2, <4>1, <4>2, <4>3, ManagerFrame
    <3> QED
      BY <1>2, <2>1, <3>1, <3>2, QueueElements
  <2>2. ASSUME NEW w \in Worker
        PROVE  /\ worker'[w].pc \in {"received", "lease"} /\ Exists(worker[w].job)' =>
                    worker'[w].job \in controls'
               /\ worker'[w].pc = "lease" /\ Exists(worker[w].job)' => worker'[w].ctl
               /\ worker'[w].pc \in LeasedPc => worker'[w].ctl /\ worker'[w].job \in controls'
    <3>1. CASE ~WorkerStep(w)
      <4>1. worker'[w] = worker[w]
        BY <1>2, <3>1, Untouched
      <4>2. CASE worker[w].pc \in {"received", "lease"} \cup LeasedPc
        <5>1. PICK j \in Job : j = worker[w].job
          BY <4>2, BusyWorker DEF LeasedPc
        <5>2. jobState[j] \in Started /\ Schedulable(j)
          BY <4>2, <5>1, BusyWorker DEF LeasedPc
        <5>3. Exists(j)' => Exists(j) /\ jobState'[j] # "deleted"
          BY <5>2, ExistedBefore DEF Exists, JobState
        <5>4. worker[w].pc \in LeasedPc => Leased(j)
          BY <5>1, WorkerIsLeased
        <5>5. ~\E u \in Worker : WorkerDone(u) /\ worker[u].job = j
          <6>1. \A u \in Worker : worker[u].job = j => u = w
            BY <5>1 DEF OnceInv, StartedOnce
          <6> QED
            BY <3>1, <6>1 DEF WorkerStep
        <5>6. j \in controls => \/ j \in controls'
                                \/ ~Leased(j) /\ jobState'[j] = "deleted"
          BY <1>0, <1>2, <5>5, ManagerFrame
        <5>7. Exists(worker[w].job)' <=> Exists(j)'
          BY <4>1, <5>1 DEF Exists
        <5> QED
          BY <4>1, <5>1, <5>3, <5>4, <5>6, <5>7 DEF ControlsAreKept
      <4> QED
        BY <4>1, <4>2
    <3>2. CASE WorkerWorks(w)
      BY <1>0, <3>2, WorkCounts DEF SlotsAreScoped, ControlsAreKept, LeasedPc, managerVars,
         controlVars
    <3>3. CASE WorkerReceive(w)
      <4>1. /\ worker'[w].pc = "received" /\ InQueue(Head(queue)) /\ Head(queue) \in Job
            /\ UNCHANGED <<jobState, controls>> /\ worker'[w].job = Head(queue)
        BY <1>0, <3>3, WorkerOutside, HeadIsQueued
      <4> QED
        BY <4>1 DEF ControlsAreKept, Exists, LeasedPc
    <3>4. CASE WorkerRegister(w) \/ WorkerLease(w)
      <4>1. /\ worker[w].pc \in {"received", "lease"} /\ UNCHANGED <<jobState, controls>>
            /\ worker'[w].job = worker[w].job
            /\ worker'[w].pc \in {"lease", "begin", "done"}
            /\ worker'[w].pc = "lease" => worker'[w].ctl = (worker[w].job \in controls)
            /\ worker'[w].pc = "begin" => /\ Exists(worker[w].job) /\ worker[w].pc = "lease"
                                          /\ worker'[w].ctl = worker[w].ctl
        BY <1>0, <3>4, WorkerOutside
      <4>2. Exists(worker[w].job)' <=> Exists(worker[w].job)
        BY <4>1 DEF Exists
      <4> QED
        BY <4>1, <4>2 DEF ControlsAreKept, LeasedPc
    <3>5. CASE WorkerRelease(w) \/ WorkerDone(w) \/ WorkerExit(w)
      BY <1>0, <3>5, WorkerOutside DEF LeasedPc
    <3> QED
      BY <3>1, <3>2, <3>3, <3>4, <3>5, WorkerCases
  <2> QED
    BY <2>1, <2>2 DEF ControlsAreKept
<1> QED
  BY <1>1, <1>2

\* A canceled context stays canceled while its worker has the job.
LEMMA CtxStays ==
    ASSUME OnceInv, Next, ~Exit, ~Crash, NEW w \in Worker, worker[w].pc \notin {"idle", "exited"},
           CtxDone(w), worker'[w].job = worker[w].job, worker'[w].ctl = worker[w].ctl
    PROVE  CtxDone(w)'
<1>1. worker[w].job \in Job /\ jobState[worker[w].job] # "pending"
  BY BusyWorker DEF Started, Begun
<1>2. /\ stopped => stopped'
      /\ worker[w].job \in cancelled => worker[w].job \in cancelled'
  BY <1>1, ManagerFrame DEF OnceInv, CountInv, ManagerInv, SlotInv
<1> QED
  BY <1>2 DEF CtxDone

\* A cancel of a job that a converter works on cancels its context, and the
\* context stays canceled for as long as the worker has the job.
LEMMA CancelStep ==
    ASSUME OnceInv, OnceInv', ControlsAreKept, CancelReachesConverter, Next
    PROVE  CancelReachesConverter'
<1> DEFINE WorkPc == {"acquire", "slot", "converting"}
<1>0. TypeOK /\ DiskTypes /\ worker \in [Worker -> WorkerRecord]
  BY DEF OnceInv, CountInv, ManagerInv, TypeOK
<1> SUFFICES ASSUME NEW w \in Worker, worker'[w].pc \in WorkPc,
                    JobTerminal(jobState'[worker'[w].job])
             PROVE  CtxDone(w)'
  BY DEF CancelReachesConverter
<1>1. CASE Exit \/ Crash
  BY <1>1 DEF Exit, Crash, ProcessEnds, WorkerAt
<1>2. CASE ~Exit /\ ~Crash /\ ~WorkerStep(w)
  <2>1. worker'[w] = worker[w] /\ Spared(worker[w].job)
    BY <1>2, Untouched
  <2>2. PICK j \in Job : j = worker[w].job /\ jobState[j] \in Started
    BY <2>1, BusyWorker
  <2>3. CASE JobTerminal(jobState[j])
    <3>1. CtxDone(w)
      BY <2>1, <2>2, <2>3 DEF CancelReachesConverter
    <3> QED
      BY <1>2, <2>1, <3>1, CtxStays
  <2>4. CASE ~JobTerminal(jobState[j])
    <3>1. jobState'[j] = "canceled" /\ jobState[j] # "canceled" /\ (j \in controls => j \in cancelled')
      BY <2>1, <2>2, <2>4 DEF Spared, JobTerminal
    <3>2. worker[w].ctl /\ j \in controls
      BY <2>1, <2>2 DEF ControlsAreKept, LeasedPc
    <3> QED
      BY <2>1, <2>2, <3>1, <3>2 DEF CtxDone
  <2> QED
    BY <2>3, <2>4
<1>3. CASE WorkerStep(w)
  <2>1. ~(\/ WorkerReceive(w) \/ WorkerRegister(w) \/ WorkerLease(w)
          \/ WorkerRelease(w) \/ WorkerDone(w) \/ WorkerExit(w))
    BY <1>0, WorkerOutside
  <2>2. CASE \E o \in SaveOutcome : WorkerMark(w, o)
    <3>1. worker[w].job \in Job
      BY <2>2, BusyWorker DEF WorkerMark
    <3>2. jobState'[worker[w].job] = "running" /\ worker'[w].job = worker[w].job
      BY <1>0, <2>2, <3>1 DEF WorkerMark, BackToScan, Save, DiskTypes, WorkerRecord
    <3> QED
      BY <3>2 DEF JobTerminal
  <2>3. CASE \/ WorkerAcquire(w)
             \/ \E n \in {"converting", "recordCancel", "recordFailure"} : WorkerConvert(w, n)
    <3>1. /\ worker[w].pc \in WorkPc /\ UNCHANGED <<jobState, stopped, cancelled>>
          /\ worker'[w].job = worker[w].job /\ worker'[w].ctl = worker[w].ctl
      BY <1>0, <2>3 DEF WorkerAcquire, WorkerConvert, WorkerRecord, diskVars, managerVars,
         processVars, controlVars
    <3> QED
      BY <3>1 DEF CancelReachesConverter, CtxDone
  <2>4. /\ WorkerEndFiles(w) => worker'[w].pc = "finalize"
        /\ (\E f \in File : WorkerNextFile(w, f)) => worker'[w].pc = "mark"
    <3>1. WorkerEndFiles(w) => worker'[w].pc = "finalize"
      BY <1>0 DEF WorkerEndFiles, WorkerRecord
    <3>2. (\E f \in File : WorkerNextFile(w, f)) => worker'[w].pc = "mark"
      BY <1>0 DEF WorkerNextFile, WorkerRecord
    <3> QED
      BY <3>1, <3>2
  <2>6. ~(\/ WorkerWaitCanceled(w)
          \/ \E r \in {"completed", "failed", "canceled"} : WorkerConvertReturn(w, r))
    BY <1>0 DEF WorkerWaitCanceled, WorkerConvertReturn, WorkerRecord
  <2>7. ASSUME NEW o \in SaveOutcome, WorkerBegin(w, o) PROVE worker'[w].pc \in {"scan", "release"}
    BY <1>0, <2>7 DEF WorkerBegin, WorkerRecord
  <2>8. ~\E o \in SaveOutcome : WorkerFinalize(w, o)
    BY <1>0 DEF WorkerFinalize, WorkerRecord
  <2>5. ~\E o \in SaveOutcome : \/ WorkerRecordResult(w, o) \/ WorkerRecordCancel(w, o)
                                \/ WorkerRecordFailure(w, o)
    BY <1>0 DEF WorkerRecordResult, WorkerRecordCancel, WorkerRecordFailure, RecordFile, BackToScan,
       WorkerRecord
  <2> QED
    BY <1>3, <2>1, <2>2, <2>3, <2>4, <2>5, <2>6, <2>7, <2>8 DEF WorkerStep
<1> QED
  BY <1>1, <1>2, <1>3

-----------------------------------------------------------------------------
(* A job in use keeps its directory *)

\* How the upload of a job moves while its process goes on: it never starts over,
\* AcceptCreate opens it, and a failed update or a rejected upload gives it up.
LEMMA UploadMoves ==
    ASSUME ManagerInv, Next, ~Exit, ~Crash, NEW j \in Job
    PROVE  /\ upload[j].pc # "none" => upload'[j].pc # "none"
           /\ Schedulable(j) => Schedulable(j)'
           /\ upload'[j].pc \notin {"none", "reserved"} =>
                \/ upload[j].pc \notin {"none", "reserved"}
                \/ \E o \in SaveOutcome : AcceptCreate(j, o)
           /\ upload'[j].pc \in {"receiving", "inspecting", "probing"} =>
                \/ upload[j].pc \in {"receiving", "inspecting", "probing"}
                \/ AcceptCreate(j, "saved")
           /\ upload'[j].pc \in GivingUpPc =>
                \/ upload[j].pc \in GivingUpPc
                \/ \E o \in SaveOutcome : AcceptSave(j, o)
                \/ AcceptReject(j)
<1>0. TypeOK /\ upload \in [Job -> UploadRecord]
  BY DEF ManagerInv, TypeOK
<1>1. jobState[j] # "unused" => jobState'[j] # "unused"
  BY StepMoves DEF ManifestMoves
<1>2. CASE upload'[j] = upload[j]
  BY <1>1, <1>2 DEF Schedulable
<1>3. ASSUME NEW k \in Job, k # j, AcceptStep(k) \/ AcceptReserve(k) PROVE upload'[j] = upload[j]
  BY <1>0, <1>3, AcceptCounts
<1>4. CASE AcceptReserve(j)
  <2>1. jobState[j] = "unused" /\ upload[j].pc = "none" /\ upload'[j].pc = "reserved"
    BY <1>0, <1>4 DEF AcceptReserve, UploadAt
  <2> QED
    BY <2>1 DEF Schedulable, GivingUpPc
<1>5. CASE AcceptStep(j)
  <2>1. ASSUME NEW o \in SaveOutcome, AcceptCreate(j, o)
        PROVE  /\ upload[j].pc = "reserved" /\ upload'[j].pc \in {"receiving", "returned"}
               /\ upload'[j].pc = "receiving" => o = "saved"
    BY <1>0, <2>1 DEF AcceptCreate, UploadAt
  <2>2. ASSUME NEW o \in SaveOutcome, AcceptSave(j, o)
        PROVE  upload[j].pc = "inspecting" /\ upload'[j].pc \in {"return", "unsaved", "unsynced"}
    BY <1>0, <2>2 DEF AcceptSave, UploadAt, SaveOutcome
  <2>3. CASE \/ AcceptRemoved(j) \/ AcceptRemoveRaced(j) \/ AcceptReturn(j)
             \/ \E unlinked \in BOOLEAN : AcceptRemoveFails(j, unlinked)
             \/ \E o \in SaveOutcome : AcceptRestore(j, o)
    <3>1. /\ upload[j].pc \in {"withdrawing", "removing", "restoring", "return"}
          /\ \/ upload'[j].pc \in {"return", "returned"}
             \/ upload[j].pc = "withdrawing" /\ upload'[j].pc = "restoring"
      BY <1>0, <2>3 DEF AcceptRemoved, AcceptRemoveRaced, AcceptRemoveFails, AfterFailedRemoval,
         AcceptRestore, AcceptReturn, UploadAt, UploadRecord
    <3> QED
      BY <1>1, <3>1 DEF Schedulable, IntakePc, GivingUpPc
  <2>6. CASE AcceptReject(j) \/ AcceptDiscard(j)
    <3>1. /\ upload[j].pc \in {"receiving", "unsaved", "unsynced"}
          /\ upload'[j].pc \in {"withdrawing", "removing"}
          /\ upload[j].pc = "receiving" => AcceptReject(j)
          /\ upload'[j].pc = "withdrawing" => Exists(j) /\ fileState[j] = NoFiles
      BY <1>0, <2>6 DEF AcceptReject, AcceptDiscard, DeleteLoad
    <3>2. Schedulable(j) => upload'[j].pc = "removing"
      BY <3>1 DEF Schedulable, IntakePc, ManagerInv, UnsyncedIsListed, Exists, JobState
    <3> QED
      BY <1>1, <3>1, <3>2 DEF Schedulable, IntakePc, GivingUpPc
  <2>4. CASE \/ \E n \in File : AcceptReceive(j, n)
             \/ \E f \in File : \/ InspectAcquire(j, f) \/ InspectWaitExpired(j, f)
                                \/ \E s \in {"inspected", "failed"} : InspectReturn(j, f, s)
    <3>1. /\ upload[j].pc \in {"receiving", "inspecting", "probing"}
          /\ upload'[j].pc \in {"inspecting", "probing"}
      BY <1>0, <2>4 DEF AcceptReceive, InspectAcquire, InspectWaitExpired, InspectReturn, UploadRecord
    <3> QED
      BY <3>1 DEF Schedulable, IntakePc, GivingUpPc
  <2>5. CASE \E o \in SaveOutcome : AcceptCreate(j, o) \/ AcceptSave(j, o)
    <3>1. \/ \E o \in SaveOutcome : AcceptCreate(j, o)
          \/ \E o \in SaveOutcome : AcceptSave(j, o)
      BY <2>5
    <3>2. ~Schedulable(j)
      BY <2>1, <2>2, <3>1 DEF Schedulable, IntakePc
    <3> QED
      BY <2>1, <2>2, <3>1, <3>2 DEF GivingUpPc
  <2> QED
    BY <1>5, <2>3, <2>4, <2>5, <2>6 DEF AcceptStep
<1> QED
  BY <1>2, <1>3, <1>4, <1>5, UploadFrame

\* How a download comes to stream: Get found an output.
LEMMA ReaderMoves ==
    ASSUME TypeOK, Next, NEW r \in Reader, reader'[r].pc = "streaming"
    PROVE  reader'[r] = reader[r] \/ (ReaderOpen(r) /\ reader'[r].job = reader[r].job)
<1>0. reader \in [Reader -> ReaderRecord]
  BY DEF TypeOK, ClientTypes
<1>1. ASSUME NEW s \in Reader, ReaderStep(s) \/ \E j \in Job : ReaderLease(s, j)
      PROVE  \/ reader'[r] = reader[r]
             \/ ReaderOpen(r) /\ reader'[r].job = reader[r].job
  <2>1. CASE s # r
    BY <1>0, <1>1, <2>1 DEF ReaderStep, ReaderOpen, ReaderRelease, ReaderLease
  <2>2. CASE s = r
    <3>1. ~ReaderRelease(r) /\ ~\E j \in Job : ReaderLease(r, j)
      BY <1>0 DEF ReaderRelease, ReaderLease, IdleReader
    <3>2. ReaderOpen(r)
      BY <1>1, <2>2, <3>1 DEF ReaderStep
    <3> QED
      BY <1>0, <3>2 DEF ReaderOpen, ReaderRecord
  <2> QED
    BY <2>1, <2>2
<1>2. CASE Exit \/ Crash
  BY <1>2 DEF Exit, Crash, ProcessEnds, IdleReader
<1>3. CASE \E j \in Job : AcceptStep(j) \/ AcceptReserve(j)
  BY <1>3, AcceptCounts DEF clientVars
<1>4. CASE \E j \in Job, o \in SaveOutcome : Start(j, o)
  BY <1>4 DEF Start, clientVars
<1>5. ASSUME NEW w \in Worker, WorkerStep(w) PROVE reader' = reader
  BY <1>5 DEF WorkerStep, WorkerReceive, WorkerRegister, WorkerLease, WorkerBegin, WorkerNextFile,
     WorkerEndFiles, WorkerMark, WorkerAcquire, WorkerWaitCanceled, WorkerConvert,
     WorkerConvertReturn, WorkerRecordResult, WorkerRecordCancel, WorkerRecordFailure, RecordFile,
     WorkerFinalize, WorkerRelease, WorkerDone, WorkerExit, clientVars
<1> QED
  BY <1>1, <1>2, <1>3, <1>4, <1>5, OtherCounts

\* What Get opens is a listed job.
LEMMA OpenIsListed ==
    ASSUME OnceInv, NEW r \in Reader, ReaderOpen(r)
    PROVE  /\ reader[r].job \in Job /\ Exists(reader[r].job) /\ Schedulable(reader[r].job)
           /\ UNCHANGED <<jobState, upload>>
<1>1. PICK j \in Job : j = reader[r].job
  BY DEF OnceInv, Roster, ReaderOpen
<1>2. Exists(j) /\ fileState[j] # NoFiles /\ UNCHANGED <<jobState, upload>>
  BY <1>1 DEF ReaderOpen, NoFiles, diskVars
<1>3. IntakeIsPrivate
  BY DEF OnceInv, CountInv, ManagerInv
<1>4. Schedulable(j)
  BY <1>2, <1>3 DEF IntakeIsPrivate, Schedulable, IntakePc, Exists, JobState
<1> QED
  BY <1>1, <1>2, <1>4

\* Downloads and uploads keep to the jobs that are theirs.
LEMMA UsersStep ==
    ASSUME OnceInv, UsersAreSafe, Next
    PROVE  UsersAreSafe'
<1>0. ManagerInv /\ TypeOK /\ DiskTypes /\ SlotsAreScoped /\ upload \in [Job -> UploadRecord]
  BY DEF OnceInv, CountInv, ManagerInv, SlotInv, TypeOK
<1>1. CASE Exit \/ Crash
  BY <1>1 DEF Exit, Crash, ProcessEnds, UploadAt, IdleReader, UsersAreSafe, GivingUpPc
<1>2. CASE ~Exit /\ ~Crash
  <2>0. \A j \in Job : ManifestMoves(j)
    BY StartedStays
  <2>1. ASSUME NEW j \in Job, upload'[j].pc \notin {"none", "reserved"} PROVE jobState'[j] # "unused"
    <3>1. CASE upload[j].pc \notin {"none", "reserved"}
      BY <2>0, <3>1 DEF UsersAreSafe, ManifestMoves
    <3>2. CASE \E o \in SaveOutcome : AcceptCreate(j, o)
      BY <1>0, <3>2 DEF AcceptCreate, DiskTypes
    <3> QED
      BY <1>0, <1>2, <2>1, <3>1, <3>2, UploadMoves
  <2>2. ASSUME NEW r \in Reader, reader'[r].pc = "streaming" PROVE Schedulable(reader[r].job)'
    <3>1. CASE reader'[r] = reader[r]
      <4>1. PICK j \in Job : j = reader[r].job
        BY <2>2, <3>1 DEF OnceInv, Roster
      <4>2. Schedulable(j)
        BY <2>2, <3>1, <4>1 DEF UsersAreSafe
      <4>3. Schedulable(j)'
        BY <1>0, <1>2, <4>2, UploadMoves
      <4> QED
        BY <3>1, <4>1, <4>3 DEF Schedulable
    <3>2. CASE ReaderOpen(r) /\ reader'[r].job = reader[r].job
      BY <3>2, OpenIsListed DEF Schedulable
    <3> QED
      BY <1>0, <2>2, <3>1, <3>2, ReaderMoves
  <2>3. ASSUME faults' = 0, NEW j \in Job, upload'[j].pc \in GivingUpPc PROVE ~Exists(j)'
    <3>1. faults = 0
      BY <1>0, <1>2, <2>3, ManagerFrame
    <3>2. CASE upload[j].pc \in GivingUpPc
      <4>1. jobState[j] \in NoManifest /\ ~PutsEmptyJobBack(j)
        BY <1>0, <3>1, <3>2
           DEF UsersAreSafe, Exists, DiskTypes, PutsEmptyJobBack, Withdrawn, GivingUpPc
      <4>2. jobState[j] = "deleted"
        BY <3>2, <4>1 DEF UsersAreSafe, NoManifest, GivingUpPc
      <4> QED
        BY <2>0, <4>1, <4>2 DEF ManifestMoves, Exists, JobState
    <3>3. ASSUME NEW o \in SaveOutcome, AcceptSave(j, o) PROVE ~Exists(j)'
      <4>1. CASE Exists(j)
        <5>1. o = "saved"
          BY <2>3, <3>1, <3>3, <4>1 DEF AcceptSave, Save
        <5>2. upload'[j].pc = "return"
          BY <1>0, <3>3, <4>1, <5>1 DEF AcceptSave, UploadAt
        <5> QED
          BY <2>3, <5>2 DEF GivingUpPc
      <4>2. CASE ~Exists(j)
        BY <3>3, <4>2 DEF AcceptSave, diskVars, Exists
      <4> QED
        BY <4>1, <4>2
    <3>4. ASSUME AcceptReject(j) PROVE ~Exists(j)'
      <4>1. /\ upload[j].pc = "receiving" /\ UNCHANGED jobState
            /\ Exists(j) /\ fileState[j] = NoFiles => upload'[j].pc = "withdrawing"
        BY <1>0, <3>4 DEF AcceptReject, DeleteLoad, diskVars
      <4>2. fileState[j] = NoFiles
        BY <1>0, <4>1 DEF ManagerInv, IntakeIsPrivate, IntakePc
      <4> QED
        BY <2>3, <4>1, <4>2 DEF GivingUpPc, Exists
    <3> QED
      BY <1>0, <1>2, <2>3, <3>2, <3>3, <3>4, UploadMoves
  <2> QED
    BY <2>1, <2>2, <2>3 DEF UsersAreSafe
<1> QED
  BY <1>1, <1>2

\* A leased job outlives every step, but that of an upload that gives it up.
LEMMA LeasedJobStays ==
    ASSUME OnceInv, OnceInv', UsersAreSafe, Next, faults = 0, NEW j \in Job, Exists(j), Leased(j),
           upload[j].pc # "withdrawing"
    PROVE  Exists(j)'
<1>1. StateOwners(j) /\ ManifestMoves(j)
  BY StateMoves, StartedStays DEF OnceInv, CountInv
<1>2. upload[j].pc # "removing"
  BY DEF UsersAreSafe, GivingUpPc
<1>3. jobState'[j] \notin {"deleted", "unused"}
  BY <1>1, <1>2 DEF StateOwners, ManifestMoves, Exists, JobState
<1>4. jobState'[j] \in JobState \cup NoManifest
  BY DEF OnceInv, CountInv, ManagerInv, TypeOK, DiskTypes
<1> QED
  BY <1>3, <1>4 DEF Exists, NoManifest

\* As long as every write succeeds, nobody loses the directory of a job in use.
LEMMA InUseStep ==
    ASSUME OnceInv, OnceInv', UsersAreSafe, JobInUseExists, Next
    PROVE  JobInUseExists'
<1>0. ManagerInv /\ TypeOK /\ DiskTypes /\ SlotsAreScoped /\ worker \in [Worker -> WorkerRecord]
  BY DEF OnceInv, CountInv, ManagerInv, SlotInv, TypeOK
<1>1. CASE Exit \/ Crash
  BY <1>1 DEF Exit, Crash, ProcessEnds, UploadAt, IdleReader, WorkerAt, JobInUseExists, LeasedPc
<1>2. CASE ~Exit /\ ~Crash
  <2> SUFFICES ASSUME faults' = 0 PROVE JobInUseExists'
    BY DEF JobInUseExists
  <2>0. faults = 0
    BY <1>0, <1>2, ManagerFrame
  <2>1. ASSUME NEW w \in Worker, worker'[w].pc \in LeasedPc PROVE Exists(worker[w].job)'
    <3>1. CASE worker[w].pc \in LeasedPc /\ worker'[w].job = worker[w].job
      <4>1. PICK j \in Job : j = worker[w].job
        BY <3>1, WorkerIsLeased
      <4>2. Leased(j) /\ Exists(j) /\ upload[j].pc # "withdrawing"
        <5>1. Schedulable(j)
          BY <1>0, <3>1, <4>1 DEF ManagerInv, ScheduledIsListed, LeasedPc
        <5> QED
          BY <2>0, <3>1, <4>1, <5>1, WorkerIsLeased DEF JobInUseExists, Schedulable, IntakePc
      <4>3. Exists(j)'
        BY <2>0, <4>2, LeasedJobStays
      <4> QED
        BY <3>1, <4>1, <4>3 DEF Exists
    <3>2. CASE WorkerLease(w)
      BY <1>0, <2>1, <3>2, WorkerOutside DEF LeasedPc, Exists
    <3>3. CASE ~WorkerStep(w)
      BY <1>2, <2>1, <3>1, <3>3, Untouched
    <3>4. CASE WorkerWorks(w)
      BY <1>0, <3>1, <3>4, WorkCounts DEF SlotsAreScoped
    <3>5. ~(\/ WorkerReceive(w) \/ WorkerRegister(w)
            \/ WorkerRelease(w) \/ WorkerDone(w) \/ WorkerExit(w))
      BY <1>0, <2>1, WorkerOutside DEF LeasedPc
    <3> QED
      BY <3>2, <3>3, <3>4, <3>5, WorkerCases
  <2>2. ASSUME NEW r \in Reader, reader'[r].pc = "streaming" PROVE Exists(reader[r].job)'
    <3>1. CASE reader'[r] = reader[r]
      <4>1. PICK j \in Job : j = reader[r].job
        BY <2>2, <3>1 DEF OnceInv, Roster
      <4>2. r \in Holders(j)
        BY <2>2, <3>1, <4>1 DEF Holders
      <4>3. Leased(j) /\ Exists(j) /\ upload[j].pc # "withdrawing"
        BY <2>0, <2>2, <3>1, <4>1, <4>2, HolderIsLeased
           DEF OnceInv, JobInUseExists, UsersAreSafe, Schedulable, IntakePc
      <4>4. Exists(j)'
        BY <2>0, <4>3, LeasedJobStays
      <4> QED
        BY <3>1, <4>1, <4>4 DEF Exists
    <3>2. CASE ReaderOpen(r) /\ reader'[r].job = reader[r].job
      BY <3>2, OpenIsListed DEF Exists
    <3> QED
      BY <1>0, <2>2, <3>1, <3>2, ReaderMoves
  <2>3. ASSUME NEW j \in Job, upload'[j].pc \in {"receiving", "inspecting", "probing"}
        PROVE  Exists(j)'
    <3>1. CASE upload[j].pc \in {"receiving", "inspecting", "probing"}
      <4>1. j \in Holders(j)
        BY <3>1 DEF Holders
      <4> QED
        BY <2>0, <2>3, <3>1, <4>1, HolderIsLeased, LeasedJobStays DEF OnceInv, JobInUseExists
    <3>2. CASE AcceptCreate(j, "saved")
      BY <1>0, <3>2 DEF AcceptCreate, DiskTypes, Exists, JobState
    <3> QED
      BY <1>0, <1>2, <2>3, <3>1, <3>2, UploadMoves
  <2> QED
    BY <2>1, <2>2, <2>3 DEF JobInUseExists
<1> QED
  BY <1>1, <1>2

-----------------------------------------------------------------------------
(* The steps of process and convertFile *)

\* What a worker's steps inside process do to its locals: one conjunct per step.
LEMMA WorkSteps ==
    ASSUME TypeOK, NEW w \in Worker
    PROVE  /\ \A f \in File : WorkerNextFile(w, f) =>
                /\ worker[w].pc = "scan" /\ worker'[w].pc = "mark" /\ worker'[w].file = f
                /\ f \in worker[w].todo /\ worker'[w].todo = worker[w].todo \ {f}
                /\ UNCHANGED <<jobState, fileState>>
           /\ WorkerEndFiles(w) =>
                /\ worker[w].pc = "scan" /\ worker'[w].pc = "finalize"
                /\ worker'[w].stop = CtxDone(w) /\ (CtxDone(w) \/ worker[w].todo = {})
                /\ UNCHANGED <<jobState, fileState>>
           /\ WorkerAcquire(w) =>
                /\ worker[w].pc = "acquire" /\ worker'[w].pc = "slot"
                /\ worker'[w].file = worker[w].file /\ worker'[w].todo = worker[w].todo
                /\ UNCHANGED <<jobState, fileState>>
           /\ WorkerWaitCanceled(w) =>
                /\ worker[w].pc = "acquire" /\ worker'[w].pc = "recordCancel" /\ CtxDone(w)
                /\ UNCHANGED <<jobState, fileState>>
           /\ \A n \in {"converting", "recordCancel", "recordFailure"} : WorkerConvert(w, n) =>
                /\ worker[w].pc = "slot" /\ worker'[w].pc = n
                /\ n = "recordCancel" => CtxDone(w)
                /\ worker'[w].file = worker[w].file /\ worker'[w].todo = worker[w].todo
                /\ UNCHANGED <<jobState, fileState>>
           /\ \A r \in {"completed", "failed", "canceled"} : WorkerConvertReturn(w, r) =>
                /\ worker[w].pc = "converting" /\ worker'[w].pc = "recordResult"
                /\ worker'[w].result = r /\ (r = "canceled" => CtxDone(w))
                /\ worker'[w].file = worker[w].file /\ worker'[w].todo = worker[w].todo
                /\ UNCHANGED <<jobState, fileState>>
<1>0. worker \in [Worker -> WorkerRecord]
  BY DEF TypeOK
<1> USE <1>0 DEF WorkerRecord, diskVars
<1>1. ASSUME NEW f \in File, WorkerNextFile(w, f)
      PROVE  /\ worker[w].pc = "scan" /\ worker'[w].pc = "mark" /\ worker'[w].file = f
             /\ f \in worker[w].todo /\ worker'[w].todo = worker[w].todo \ {f}
             /\ UNCHANGED <<jobState, fileState>>
  BY <1>1 DEF WorkerNextFile
<1>2. ASSUME WorkerEndFiles(w)
      PROVE  /\ worker[w].pc = "scan" /\ worker'[w].pc = "finalize"
             /\ worker'[w].stop = CtxDone(w) /\ (CtxDone(w) \/ worker[w].todo = {})
             /\ UNCHANGED <<jobState, fileState>>
  BY <1>2 DEF WorkerEndFiles
<1>3. ASSUME WorkerAcquire(w)
      PROVE  /\ worker[w].pc = "acquire" /\ worker'[w].pc = "slot"
             /\ worker'[w].file = worker[w].file /\ worker'[w].todo = worker[w].todo
             /\ UNCHANGED <<jobState, fileState>>
  BY <1>3 DEF WorkerAcquire
<1>4. ASSUME WorkerWaitCanceled(w)
      PROVE  /\ worker[w].pc = "acquire" /\ worker'[w].pc = "recordCancel" /\ CtxDone(w)
             /\ UNCHANGED <<jobState, fileState>>
  BY <1>4 DEF WorkerWaitCanceled
<1>5. ASSUME NEW n \in {"converting", "recordCancel", "recordFailure"}, WorkerConvert(w, n)
      PROVE  /\ worker[w].pc = "slot" /\ worker'[w].pc = n
             /\ n = "recordCancel" => CtxDone(w)
             /\ worker'[w].file = worker[w].file /\ worker'[w].todo = worker[w].todo
             /\ UNCHANGED <<jobState, fileState>>
  BY <1>5 DEF WorkerConvert
<1>6. ASSUME NEW r \in {"completed", "failed", "canceled"}, WorkerConvertReturn(w, r)
      PROVE  /\ worker[w].pc = "converting" /\ worker'[w].pc = "recordResult"
             /\ worker'[w].result = r /\ (r = "canceled" => CtxDone(w))
             /\ worker'[w].file = worker[w].file /\ worker'[w].todo = worker[w].todo
             /\ UNCHANGED <<jobState, fileState>>
  BY <1>6 DEF WorkerConvertReturn
<1> QED
  BY <1>1, <1>2, <1>3, <1>4, <1>5, <1>6

\* With writes that succeed, process begins a queued job with its queued files on
\* the list, and does not begin any other.
LEMMA BeginStep ==
    ASSUME TypeOK, NEW w \in Worker, NEW j \in Job, j = worker[w].job, NEW o \in SaveOutcome,
           WorkerBegin(w, o), faults' = 0
    PROVE  /\ worker[w].pc = "begin"
           /\ \/ /\ worker'[w].pc = "scan" /\ jobState[j] = "queued" /\ jobState'[j] = "running"
                 /\ fileState'[j] = fileState[j]
                 /\ worker'[w].todo = {f \in File : fileState[j][f] = "queued"}
              \/ /\ worker'[w].pc = "release" /\ jobState[j] # "queued"
                 /\ UNCHANGED <<jobState, fileState>>
<1>0. worker \in [Worker -> WorkerRecord] /\ DiskTypes /\ faults \in Nat
  BY BoundsAssumption DEF TypeOK, DiskTypes
<1>1. CASE jobState[j] = "queued"
  <2>1. o = "saved" /\ Save(j, "running", fileState[j], o)
    BY <1>0, <1>1 DEF WorkerBegin, Save
  <2>2. jobState'[j] = "running" /\ fileState'[j] = fileState[j]
    BY <1>0, <2>1 DEF Save, DiskTypes
  <2>3. worker'[w].pc = "scan" /\ worker'[w].todo = {f \in File : fileState[j][f] = "queued"}
    BY <1>0, <1>1, <2>1 DEF WorkerBegin, WorkerRecord
  <2> QED
    BY <1>1, <2>2, <2>3 DEF WorkerBegin
<1>2. CASE jobState[j] # "queued"
  BY <1>0, <1>2 DEF WorkerBegin, WorkerRecord, diskVars
<1> QED
  BY <1>1, <1>2

\* With writes that succeed, convertFile marks a queued file of a running job as
\* running, and passes over any other.
LEMMA MarkStep ==
    ASSUME TypeOK, NEW w \in Worker, NEW j \in Job, j = worker[w].job, NEW f \in File,
           f = worker[w].file, NEW o \in SaveOutcome, WorkerMark(w, o), faults' = 0
    PROVE  /\ worker[w].pc = "mark" /\ worker'[w].todo = worker[w].todo
           /\ \/ /\ worker'[w].pc = "acquire" /\ worker'[w].file = f
                 /\ jobState[j] = "running" /\ jobState'[j] = "running"
                 /\ fileState'[j] = [fileState[j] EXCEPT ![f] = "running"]
              \/ /\ worker'[w].pc = "scan" /\ UNCHANGED <<jobState, fileState>>
                 /\ ~(jobState[j] = "running" /\ fileState[j][f] = "queued")
<1>0. worker \in [Worker -> WorkerRecord] /\ DiskTypes /\ faults \in Nat
  BY BoundsAssumption DEF TypeOK, DiskTypes
<1>1. CASE jobState[j] = "running" /\ fileState[j][f] = "queued"
  <2>1. o = "saved" /\ Save(j, "running", [fileState[j] EXCEPT ![f] = "running"], o)
    BY <1>0, <1>1 DEF WorkerMark, Save
  <2>2. jobState'[j] = "running" /\ fileState'[j] = [fileState[j] EXCEPT ![f] = "running"]
    BY <1>0, <2>1 DEF Save, DiskTypes
  <2>3. worker' = [worker EXCEPT ![w].pc = "acquire"]
    BY <1>1, <2>1 DEF WorkerMark
  <2>4. /\ worker'[w].pc = "acquire" /\ worker'[w].todo = worker[w].todo
        /\ worker'[w].file = worker[w].file
    BY <1>0, <2>3 DEF WorkerRecord
  <2> QED
    BY <1>1, <2>2, <2>4 DEF WorkerMark
<1>2. CASE ~(jobState[j] = "running" /\ fileState[j][f] = "queued")
  <2>1. worker' = BackToScan(w) /\ UNCHANGED <<jobState, fileState>>
    BY <1>2 DEF WorkerMark, diskVars
  <2>2. worker'[w].pc = "scan" /\ worker'[w].todo = worker[w].todo
    BY <1>0, <2>1 DEF BackToScan, WorkerRecord
  <2> QED
    BY <1>2, <2>1, <2>2 DEF WorkerMark
<1> QED
  BY <1>1, <1>2

\* With writes that succeed, convertFile records the state unless the file is
\* settled or the update is skipped.
LEMMA RecordStep ==
    ASSUME TypeOK, NEW w \in Worker, NEW j \in Job, j = worker[w].job, NEW f \in File,
           f = worker[w].file, NEW skip \in BOOLEAN, NEW state, NEW o \in SaveOutcome,
           RecordFile(w, skip, state, o), faults' = 0
    PROVE  /\ worker'[w].pc = "scan" /\ worker'[w].todo = worker[w].todo
           /\ jobState' = jobState
           /\ \/ fileState' = fileState /\ (~Exists(j) \/ skip \/ FileSettled(j, f))
              \/ fileState'[j] = [fileState[j] EXCEPT ![f] = state]
<1>0. worker \in [Worker -> WorkerRecord] /\ DiskTypes /\ faults \in Nat
  BY BoundsAssumption DEF TypeOK, DiskTypes
<1>1. worker'[w].pc = "scan" /\ worker'[w].todo = worker[w].todo
  BY <1>0 DEF RecordFile, BackToScan, WorkerRecord
<1>2. CASE ~Exists(j) \/ skip \/ FileSettled(j, f)
  <2>1. UNCHANGED <<jobState, fileState>>
    BY <1>2 DEF RecordFile, diskVars
  <2> QED
    BY <1>1, <1>2, <2>1
<1>3. CASE ~(~Exists(j) \/ skip \/ FileSettled(j, f))
  <2>1. Save(j, jobState[j], [fileState[j] EXCEPT ![f] = state], o)
    BY <1>3 DEF RecordFile
  <2>2. o = "saved"
    BY <1>0, <2>1 DEF Save
  <2>3. jobState' = jobState /\ fileState'[j] = [fileState[j] EXCEPT ![f] = state]
    BY <1>0, <2>1, <2>2 DEF Save, DiskTypes
  <2> QED
    BY <1>1, <2>3
<1> QED
  BY <1>2, <1>3

\* With writes that succeed, finalize leaves a job in its final state.
LEMMA FinalizeStep ==
    ASSUME TypeOK, NEW w \in Worker, NEW j \in Job, j = worker[w].job, NEW o \in SaveOutcome,
           WorkerFinalize(w, o), faults' = 0
    PROVE  /\ worker[w].pc = "finalize" /\ worker'[w].pc = "release"
           /\ \/ ~NeedsFinal(j) /\ UNCHANGED <<jobState, fileState>>
              \/ /\ NeedsFinal(j) /\ fileState'[j] = SettleFiles(fileState[j], "canceled")
                 /\ jobState'[j] = FinalState(SettleFiles(fileState[j], "canceled"), worker[w].stop)
<1>0. worker \in [Worker -> WorkerRecord] /\ DiskTypes /\ faults \in Nat
  BY BoundsAssumption DEF TypeOK, DiskTypes
<1>1. worker[w].pc = "finalize" /\ worker'[w].pc = "release"
  BY <1>0 DEF WorkerFinalize, WorkerRecord
<1>2. CASE ~NeedsFinal(j)
  BY <1>1, <1>2 DEF WorkerFinalize, diskVars
<1>3. CASE NeedsFinal(j)
  <2> DEFINE files == SettleFiles(fileState[j], "canceled")
  <2>1. Save(j, FinalState(files, worker[w].stop), files, o)
    BY <1>3 DEF WorkerFinalize
  <2>2. o = "saved"
    BY <1>0, <2>1 DEF Save
  <2>3. jobState'[j] = FinalState(files, worker[w].stop) /\ fileState'[j] = files
    BY <1>0, <2>1, <2>2 DEF Save, DiskTypes
  <2> QED
    BY <1>1, <1>3, <2>3
<1> QED
  BY <1>2, <1>3

-----------------------------------------------------------------------------
(* Active jobs are on their way *)

\* A process comes to serve only by completing its recovery.
LEMMA PhaseMoves ==
    ASSUME Next, phase # "serving", phase' = "serving"
    PROVE  RecoverDone /\ UNCHANGED jobState
<1>1. ASSUME NEW j \in Job, AcceptStep(j) \/ Request(j) \/ DeleteStep(j) \/ Expire(j)
      PROVE  phase' = phase
  BY <1>1 DEF AcceptStep, Request, DeleteStep, Expire, AcceptReserve, AcceptCreate,
     AcceptReceive, AcceptReject, AcceptSave, AcceptDiscard, AcceptRemoved, AcceptRemoveRaced,
     AcceptRemoveFails, AcceptRestore, AcceptReturn, InspectAcquire,
     InspectWaitExpired, InspectReturn, Start, Cancel, DeleteCancel, DeleteCheck, DeleteUnleased,
     DeleteGiveUp, DeleteCommit, RemoveFile, ReaderLease, managerVars, processVars
<1>2. ASSUME NEW w \in Worker, WorkerStep(w) PROVE phase' = phase
  BY <1>2 DEF WorkerStep, WorkerReceive, WorkerRegister, WorkerLease, WorkerBegin, WorkerNextFile,
     WorkerEndFiles, WorkerMark, WorkerAcquire, WorkerWaitCanceled, WorkerConvert,
     WorkerConvertReturn, WorkerRecordResult, WorkerRecordCancel, WorkerRecordFailure, RecordFile,
     WorkerFinalize, WorkerRelease, WorkerDone, WorkerExit, managerVars, processVars
<1>3. ASSUME \/ \E r \in Reader : ReaderStep(r)
             \/ CleanupStep \/ StopIntake \/ Shutdown \/ Drain \/ Exit \/ Crash \/ Restart \/ Ended
             \/ \E j \in Job, o \in SaveOutcome : RecoverJob(j, o)
      PROVE  phase' # "serving" \/ phase' = phase
  BY <1>3 DEF ReaderStep, ReaderOpen, ReaderRelease, CleanupStep, CleanupList, CleanupJob,
     StopIntake, Shutdown, Drain, Exit, Crash, ProcessEnds, Restart, RecoverJob, Ended, vars,
     managerVars, processVars
<1>4. RecoverDone
  BY <1>1, <1>2, <1>3 DEF Next, Recovery
<1> QED
  BY <1>4 DEF RecoverDone, diskVars

\* Only a queued job becomes running.
LEMMA RunningFrom ==
    ASSUME ManagerInv, Next, NEW j \in Job, jobState'[j] = "running"
    PROVE  jobState[j] \in {"queued", "running"}
<1>0. [Lifecycle!Next]_Lifecycle!lifecycleVars /\ DiskTypes
  BY StepRefines DEF ManagerInv, TypeOK
<1>1. ASSUME NEW k \in Job, NEW state, NEW files, Lifecycle!Manifest(k, state, files),
             state = "running" => jobState[k] \in {"queued", "running"}
      PROVE  jobState[j] \in {"queued", "running"}
  <2>1. jobState'[k] = state /\ \A i \in Job \ {k} : jobState'[i] = jobState[i]
    BY <1>0, <1>1 DEF Lifecycle!Manifest, DiskTypes
  <2> QED
    BY <1>1, <2>1
<1>2. ASSUME NEW k \in Job, NEW state, \/ Lifecycle!Create(k, state)
                                       \/ Lifecycle!Finish(k, state)
                                       \/ Lifecycle!CutShort(k, state)
      PROVE  jobState[j] \in {"queued", "running"}
  <2>1. \E files : Lifecycle!Manifest(k, state, files)
    BY <1>2 DEF Lifecycle!Create, Lifecycle!Finish, Lifecycle!CutShort
  <2>2. state # "running"
    BY <1>2 DEF Lifecycle!Create, Lifecycle!Finish, Lifecycle!CutShort
  <2> QED
    BY <1>1, <2>1, <2>2
<1>3. ASSUME NEW k \in Job, \/ \E files : Lifecycle!List(k, files)
                            \/ \E f \in File : Lifecycle!Drop(k, f)
                            \/ Lifecycle!Queue(k) \/ Lifecycle!Vanish(k)
      PROVE  jobState[j] \in {"queued", "running"}
  <2>1. PICK state \in {"pending", "canceled", "queued", "deleted"} :
               \E files : Lifecycle!Manifest(k, state, files)
    BY <1>3 DEF Lifecycle!List, Lifecycle!Drop, Lifecycle!Queue, Lifecycle!Vanish
  <2> QED
    BY <1>1, <2>1
<1>4. ASSUME NEW k \in Job, \/ Lifecycle!Run(k)
                            \/ \E f \in File : \/ Lifecycle!RunFile(k, f)
                                               \/ \E s \in FileState : Lifecycle!EndFile(k, f, s)
      PROVE  jobState[j] \in {"queued", "running"}
  <2>1. jobState[k] \in {"queued", "running"} /\ \E files : Lifecycle!Manifest(k, "running", files)
    BY <1>4 DEF Lifecycle!Run, Lifecycle!RunFile, Lifecycle!EndFile
  <2> QED
    BY <1>1, <2>1
<1>5. CASE UNCHANGED jobState
  BY <1>5
<1>6. ASSUME NEW k \in Job, Lifecycle!Move(k) PROVE jobState[j] \in {"queued", "running"}
  BY <1>2, <1>3, <1>4, <1>6, SameStates DEF Lifecycle!Move
<1>7. ASSUME NEW k \in Job, NEW state, Lifecycle!PutBack(k, state)
      PROVE  jobState[j] \in {"queued", "running"}
  BY <1>1, <1>7 DEF Lifecycle!PutBack
<1>8. ASSUME NEW k \in Job, Lifecycle!Withdraw(k) \/ Lifecycle!TakeAway(k)
      PROVE  jobState[j] \in {"queued", "running"}
  BY <1>3, <1>5, <1>8 DEF Lifecycle!Withdraw, Lifecycle!TakeAway
<1> QED
  BY <1>0, <1>5, <1>6, <1>7, <1>8 DEF Lifecycle!Next, Lifecycle!Forget, Lifecycle!lifecycleVars

\* A job leaves the queue only for a worker.
LEMMA QueueLeaves ==
    ASSUME OnceInv, Next, ~Exit, ~Crash, NEW j \in Job, InQueue(j)
    PROVE  \/ InQueue(j)'
           \/ \E w \in Worker : WorkerReceive(w) /\ worker'[w].job = j /\ worker'[w].pc = "received"
<1>0. queue \in Seq(Job) /\ TypeOK /\ SlotsAreScoped
  BY DEF OnceInv, CountInv, ManagerInv, SlotInv, TypeOK, ManagerTypes
<1>1. PICK i \in 1 .. Len(queue) : queue[i] = j
  BY DEF InQueue
<1>2. CASE queue' = queue
  BY <1>2 DEF InQueue
<1>3. ASSUME NEW k \in Job, JustStarted(k) PROVE InQueue(j)'
  <2>1. queue' = Append(queue, k)
    BY <1>3 DEF JustStarted
  <2>2. i \in 1 .. Len(queue') /\ queue'[i] = j
    BY <1>0, <1>1, <2>1
  <2> QED
    BY <2>2 DEF InQueue
<1>4. ASSUME NEW w \in Worker, WorkerReceive(w)
      PROVE  InQueue(j)' \/ (worker'[w].job = j /\ worker'[w].pc = "received")
  <2>1. queue' = Tail(queue) /\ queue # <<>>
    BY <1>4 DEF WorkerReceive
  <2>2. CASE i = 1
    <3>1. Head(queue) = j
      BY <1>0, <1>1, <2>1, <2>2
    <3> QED
      BY <1>0, <1>4, <3>1, WorkerOutside
  <2>3. CASE i # 1
    <3>1. i - 1 \in 1 .. Len(queue') /\ queue'[i - 1] = j
      BY <1>0, <1>1, <2>1, <2>3
    <3> QED
      BY <3>1 DEF InQueue
  <2> QED
    BY <2>2, <2>3
<1> QED
  BY <1>0, <1>2, <1>3, <1>4, QueueMoves

\* A worker that works never comes back to the start of process.
LEMMA WorkGoesOn ==
    ASSUME TypeOK, NEW w \in Worker, WorkerWorks(w)
    PROVE  worker'[w].pc # "begin"
<1>0. worker \in [Worker -> WorkerRecord]
  BY DEF TypeOK
<1>1. ASSUME NEW o \in SaveOutcome, WorkerBegin(w, o) PROVE worker'[w].pc # "begin"
  BY <1>0, <1>1 DEF WorkerBegin, WorkerRecord
<1>2. ASSUME NEW o \in SaveOutcome, WorkerMark(w, o) PROVE worker'[w].pc # "begin"
  BY <1>0, <1>2 DEF WorkerMark, BackToScan, WorkerRecord
<1>3. ASSUME NEW o \in SaveOutcome, \/ WorkerRecordResult(w, o) \/ WorkerRecordCancel(w, o)
                                    \/ WorkerRecordFailure(w, o)
      PROVE  worker'[w].pc # "begin"
  BY <1>0, <1>3 DEF WorkerRecordResult, WorkerRecordCancel, WorkerRecordFailure, RecordFile,
     BackToScan, WorkerRecord
<1>4. ASSUME NEW o \in SaveOutcome, WorkerFinalize(w, o) PROVE worker'[w].pc # "begin"
  BY <1>0, <1>4 DEF WorkerFinalize, WorkerRecord
<1> QED
  BY <1>1, <1>2, <1>3, <1>4, WorkSteps DEF WorkerWorks

\* A job that waits for its worker's first update does not become running.
LEMMA RunningStep ==
    ASSUME OnceInv, NotYetRunning, Next
    PROVE  NotYetRunning'
<1>0. TypeOK
  BY DEF OnceInv, CountInv, ManagerInv
<1>1. CASE Exit \/ Crash
  <2>1. queue' = <<>> /\ \A w \in Worker : worker'[w].pc = "idle"
    BY <1>1 DEF Exit, Crash, ProcessEnds, WorkerAt
  <2> QED
    BY <2>1 DEF NotYetRunning, InQueue
<1>2. CASE ~Exit /\ ~Crash
  <2>1. ASSUME NEW j \in Job, InQueue(j)' PROVE jobState'[j] # "running"
    <3>1. CASE JustStarted(j)
      BY <3>1 DEF JustStarted
    <3>2. CASE InQueue(j)
      BY <3>2, QueuedUntouched DEF NotYetRunning, Spared
    <3> QED
      BY <1>2, <2>1, <3>1, <3>2, QueueElements
  <2>2. ASSUME NEW w \in Worker, worker'[w].pc \in {"received", "lease", "begin"}
        PROVE  jobState'[worker'[w].job] # "running"
    <3>1. CASE ~WorkerStep(w)
      BY <1>2, <2>2, <3>1, Untouched DEF NotYetRunning, Spared
    <3>2. CASE WorkerReceive(w)
      BY <1>0, <3>2, WorkerOutside, HeadIsQueued DEF NotYetRunning
    <3>3. CASE WorkerRegister(w) \/ WorkerLease(w)
      BY <1>0, <3>3, WorkerOutside DEF NotYetRunning
    <3>4. CASE WorkerWorks(w)
      <4>1. worker'[w].pc \in LeasedPc /\ worker'[w].pc # "begin"
        BY <1>0, <3>4, WorkCounts, WorkGoesOn DEF OnceInv, CountInv, SlotInv, SlotsAreScoped
      <4> QED
        BY <2>2, <4>1 DEF LeasedPc
    <3>5. ~(WorkerRelease(w) \/ WorkerDone(w) \/ WorkerExit(w))
      BY <1>0, <2>2, WorkerOutside
    <3> QED
      BY <3>1, <3>2, <3>3, <3>4, <3>5, WorkerCases
  <2> QED
    BY <2>1, <2>2 DEF NotYetRunning
<1> QED
  BY <1>1, <1>2

\* Where a worker is bound to settle its job.
SettlePc == {"received", "lease", "begin", "scan", "mark", "acquire", "slot", "converting",
             "recordResult", "recordCancel", "recordFailure", "finalize"}

\* An active job waits in the queue or has such a worker.
Scheduled(j) == InQueue(j) \/ \E w \in Worker : worker[w].job = j /\ worker[w].pc \in SettlePc

\* The two ways to say that active jobs are scheduled.
LEMMA ScheduledForm ==
    /\ ActiveIsScheduled <=>
         (faults = 0 /\ phase = "serving" =>
            \A j \in Job : JobActive(jobState[j]) => Scheduled(j))
    /\ ActiveIsScheduled' <=>
         (faults' = 0 /\ phase' = "serving" =>
            \A j \in Job : JobActive(jobState'[j]) => Scheduled(j)')
  BY DEF ActiveIsScheduled, Scheduled, InQueue, QueueEntries, WorkersOf, SettlePc

\* A worker bound to settle an active job stays bound until the job is settled.
LEMMA SettlerStays ==
    ASSUME OnceInv, NotYetRunning, Next, ~Exit, ~Crash, faults' = 0,
           NEW j \in Job, JobActive(jobState[j]), JobActive(jobState'[j]),
           NEW w \in Worker, worker[w].job = j, worker[w].pc \in SettlePc
    PROVE  worker'[w].job = j /\ worker'[w].pc \in SettlePc
<1>0. TypeOK /\ SlotsAreScoped
  BY DEF OnceInv, CountInv, ManagerInv, SlotInv
<1>1. CASE ~WorkerStep(w)
  BY <1>1, Untouched
<1>2. CASE WorkerRegister(w) \/ WorkerLease(w)
  BY <1>0, <1>2, WorkerOutside DEF SettlePc, JobActive, Exists, JobState
<1>3. CASE WorkerWorks(w)
  <2>1. worker'[w].job = j /\ worker'[w].pc \in LeasedPc
    BY <1>0, <1>3, WorkCounts DEF SlotsAreScoped
  <2>2. worker'[w].pc # "release"
    <3>1. ASSUME NEW o \in SaveOutcome, WorkerBegin(w, o) PROVE worker'[w].pc # "release"
      <4>1. worker[w].pc = "begin" => jobState[j] # "running"
        BY DEF NotYetRunning
      <4> QED
        BY <1>0, <3>1, <4>1, BeginStep DEF JobActive
    <3>2. ASSUME NEW o \in SaveOutcome, WorkerMark(w, o) PROVE worker'[w].pc # "release"
      BY <1>0, <3>2 DEF WorkerMark, BackToScan, TypeOK, WorkerRecord
    <3>3. ASSUME NEW o \in SaveOutcome, \/ WorkerRecordResult(w, o) \/ WorkerRecordCancel(w, o)
                                        \/ WorkerRecordFailure(w, o)
          PROVE  worker'[w].pc # "release"
      BY <1>0, <3>3 DEF WorkerRecordResult, WorkerRecordCancel, WorkerRecordFailure, RecordFile,
         BackToScan, TypeOK, WorkerRecord
    <3>4. ASSUME NEW o \in SaveOutcome, WorkerFinalize(w, o) PROVE FALSE
      <4>1. NeedsFinal(j)
        BY DEF NeedsFinal, JobActive, JobTerminal, Exists, JobState
      <4>2. jobState'[j] = FinalState(SettleFiles(fileState[j], "canceled"), worker[w].stop)
        BY <1>0, <3>4, <4>1, FinalizeStep
      <4> QED
        BY <4>2 DEF FinalState, JobActive
    <3> QED
      BY <1>0, <1>3, <3>1, <3>2, <3>3, <3>4, WorkSteps DEF WorkerWorks
  <2> QED
    BY <2>1, <2>2 DEF LeasedPc, SettlePc
<1>4. ~(WorkerReceive(w) \/ WorkerRelease(w) \/ WorkerDone(w) \/ WorkerExit(w))
  BY DEF WorkerReceive, WorkerRelease, WorkerDone, WorkerExit, SettlePc
<1> QED
  BY <1>1, <1>2, <1>3, <1>4, WorkerCases

\* Active jobs stay scheduled: recovery leaves none behind, Start schedules, and
\* neither the queue nor a worker lets go of one.
LEMMA ActiveStep ==
    ASSUME OnceInv, NotYetRunning, ActiveIsScheduled, Next
    PROVE  ActiveIsScheduled'
<1>0. ManagerInv /\ TypeOK /\ SlotsAreScoped /\ DiskTypes /\ queue \in Seq(Job)
  BY DEF OnceInv, CountInv, ManagerInv, SlotInv, TypeOK, ManagerTypes
<1> SUFFICES ASSUME faults' = 0, phase' = "serving", NEW j \in Job, JobActive(jobState'[j])
             PROVE  Scheduled(j)'
  BY ScheduledForm
<1>1. ~Exit /\ ~Crash
  BY DEF Exit, Crash, ProcessEnds
<1>2. faults = 0
  BY <1>0, <1>1, ManagerFrame
<1>3. CASE phase # "serving"
  <2>1. Recovered(j) /\ jobState'[j] = jobState[j]
    BY <1>3, PhaseMoves DEF RecoverDone
  <2> QED
    BY <2>1 DEF Recovered, Exists, JobState, JobActive, JobTerminal
<1>4. CASE phase = "serving" /\ ~JobActive(jobState[j])
  <2>1. jobState'[j] = "queued"
    BY <1>0, <1>4, RunningFrom DEF JobActive
  <2>2. PICK o \in SaveOutcome : Start(j, o)
    BY <1>0, <1>4, <2>1, StateMoves DEF StateOwners, JobActive
  <2>3. o = "saved"
    BY <1>2, <2>2 DEF Start, Save
  <2>4. queue' = Append(queue, j)
    BY <2>2, <2>3 DEF Start
  <2>5. Len(queue) + 1 \in 1 .. Len(queue') /\ queue'[Len(queue) + 1] = j
    BY <1>0, <2>4
  <2> QED
    BY <2>5 DEF Scheduled, InQueue
<1>5. CASE phase = "serving" /\ JobActive(jobState[j])
  <2>1. Scheduled(j)
    BY <1>2, <1>5, ScheduledForm
  <2>2. CASE InQueue(j)
    BY <1>1, <2>2, QueueLeaves DEF Scheduled, SettlePc
  <2>3. ASSUME NEW w \in Worker, worker[w].job = j, worker[w].pc \in SettlePc
        PROVE  Scheduled(j)'
    BY <1>1, <1>5, <2>3, SettlerStays DEF Scheduled
  <2> QED
    BY <2>1, <2>2, <2>3 DEF Scheduled
<1> QED
  BY <1>3, <1>4, <1>5

\* What is unfinished belongs to an upload of the process that serves.
LEMMA OldJobsStep ==
    ASSUME OnceInv, OldJobsAreInterrupted, Next
    PROVE  OldJobsAreInterrupted'
<1>0. ManagerInv /\ TypeOK /\ SlotsAreScoped /\ DiskTypes /\ upload \in [Job -> UploadRecord]
  BY DEF OnceInv, CountInv, ManagerInv, SlotInv, TypeOK
<1> SUFFICES ASSUME faults' = 0, phase' = "serving", NEW j \in Job, Exists(j)',
                    ~JobTerminal(jobState'[j])
             PROVE  upload'[j].pc # "none"
  BY DEF OldJobsAreInterrupted
<1>1. ~Exit /\ ~Crash
  BY DEF Exit, Crash, ProcessEnds
<1>2. faults = 0
  BY <1>0, <1>1, ManagerFrame
<1>3. CASE phase # "serving"
  <2>1. Recovered(j) /\ jobState'[j] = jobState[j]
    BY <1>3, PhaseMoves DEF RecoverDone
  <2> QED
    BY <2>1 DEF Recovered, Exists
<1>4. CASE phase = "serving"
  <2>1. CASE Exists(j) /\ ~JobTerminal(jobState[j])
    BY <1>0, <1>1, <1>2, <1>4, <2>1, UploadMoves DEF OldJobsAreInterrupted
  <2>2. CASE jobState[j] = "unused"
    <3>1. PICK o \in SaveOutcome : AcceptCreate(j, o)
      BY <1>0, <2>2, StateMoves DEF StateOwners, Exists, JobState
    <3> QED
      BY <1>0, <3>1 DEF AcceptCreate, UploadAt
  <2>3. CASE JobTerminal(jobState[j]) \/ jobState[j] = "deleted"
    <3>1. PutsEmptyJobBack(j)
      BY <2>3, StartedStays DEF ManifestMoves, JobTerminal, Exists, JobState
    <3> QED
      BY <1>0, <1>1, <3>1, UploadMoves DEF PutsEmptyJobBack, Withdrawn
  <2> QED
    BY <1>0, <2>1, <2>2, <2>3 DEF Exists, DiskTypes, NoManifest
<1> QED
  BY <1>3, <1>4

-----------------------------------------------------------------------------
(* The outcome a job reports *)

\* What Tidy asks of a worker whose job is running and whose context is alive.
Alive(w) ==
    /\ worker[w].pc \in FilePc \cup {"scan", "finalize"}
    /\ jobState[worker[w].job] = "running"
    /\ IF worker[w].pc = "finalize" THEN ~worker[w].stop ELSE ~CtxDone(w)

\* WorkIsTidy, worker by worker.
TidyAt(w) ==
    /\ worker[w].pc = "recordCancel" => CtxDone(w)
    /\ worker[w].pc = "recordResult" /\ worker[w].result = "canceled" => CtxDone(w)
    /\ Alive(w) => \A f \in File : Tidy(w, f)

\* The two ways to say that work is tidy.
LEMMA TidyForm ==
    /\ WorkIsTidy <=> \A w \in Worker : faults = 0 /\ worker[w].pc \in LeasedPc => TidyAt(w)
    /\ WorkIsTidy' <=> \A w \in Worker : faults' = 0 /\ worker'[w].pc \in LeasedPc => TidyAt(w)'
  BY DEF WorkIsTidy, TidyAt, Alive

\* A worker's own steps leave its files tidy.
LEMMA TidyWork ==
    ASSUME OnceInv, OnceInv', NEW w \in Worker, WorkerWorks(w), faults' = 0, TidyAt(w)
    PROVE  TidyAt(w)'
<1>0. TypeOK /\ SlotsAreScoped /\ WorkerShape /\ DiskTypes /\ WorkerShape'
  BY DEF OnceInv, CountInv, ManagerInv, SlotInv, TypeOK
<1>1. /\ worker[w].pc \in LeasedPc /\ worker'[w].job = worker[w].job
      /\ worker'[w].ctl = worker[w].ctl /\ UNCHANGED <<stopped, cancelled>>
  BY <1>0, WorkCounts DEF SlotsAreScoped, managerVars, processVars, controlVars
<1>2. PICK j \in Job : j = worker[w].job
  BY <1>1, BusyWorker DEF LeasedPc
<1>3. CtxDone(w)' <=> CtxDone(w)
  BY <1>1 DEF CtxDone
<1>4. fileState[j] \in Files /\ jobState[j] \in JobState \cup NoManifest
  BY <1>0 DEF DiskTypes
<1>5. ASSUME NEW f \in File, WorkerNextFile(w, f) PROVE TidyAt(w)'
  <2>1. /\ worker[w].pc = "scan" /\ worker'[w].pc = "mark" /\ worker'[w].file = f
        /\ f \in worker[w].todo /\ worker'[w].todo = worker[w].todo \ {f}
        /\ UNCHANGED <<jobState, fileState>>
    BY <1>0, <1>5, WorkSteps
  <2>2. ASSUME Alive(w)', NEW g \in File PROVE Tidy(w, g)'
    <3>1. Alive(w)
      BY <1>1, <1>3, <2>1, <2>2 DEF Alive, FilePc
    <3>2. Tidy(w, g)
      BY <3>1 DEF TidyAt
    <3> QED
      BY <1>1, <2>1, <3>2 DEF Tidy, FilePc
  <2> QED
    BY <2>1, <2>2 DEF TidyAt
<1>6. CASE WorkerEndFiles(w)
  <2>1. /\ worker[w].pc = "scan" /\ worker'[w].pc = "finalize"
        /\ worker'[w].stop = CtxDone(w) /\ (CtxDone(w) \/ worker[w].todo = {})
        /\ UNCHANGED <<jobState, fileState>>
    BY <1>0, <1>6, WorkSteps
  <2>2. ASSUME Alive(w)', NEW g \in File PROVE Tidy(w, g)'
    <3>1. ~CtxDone(w)
      BY <2>1, <2>2 DEF Alive
    <3>2. Alive(w) /\ worker[w].todo = {}
      BY <1>1, <2>1, <2>2, <3>1 DEF Alive
    <3>3. Tidy(w, g)
      BY <3>2 DEF TidyAt
    <3> QED
      BY <1>1, <2>1, <3>2, <3>3 DEF Tidy, FilePc
  <2> QED
    BY <2>1, <2>2 DEF TidyAt
<1>7. ASSUME worker[w].pc \in FilePc \ {"mark"}, worker'[w].pc \in FilePc \ {"mark"},
             worker'[w].file = worker[w].file, worker'[w].todo = worker[w].todo,
             UNCHANGED <<jobState, fileState>>,
             worker'[w].pc = "recordCancel" => CtxDone(w),
             worker'[w].pc = "recordResult" /\ worker'[w].result = "canceled" => CtxDone(w)
      PROVE  TidyAt(w)'
  <2>1. ASSUME Alive(w)', NEW g \in File PROVE Tidy(w, g)'
    <3>1. Alive(w)
      BY <1>1, <1>3, <1>7, <2>1 DEF Alive, FilePc
    <3>2. Tidy(w, g)
      BY <3>1 DEF TidyAt
    <3> QED
      BY <1>1, <1>7, <3>2 DEF Tidy, FilePc
  <2> QED
    BY <1>3, <1>7, <2>1 DEF TidyAt
<1>8. CASE \/ WorkerAcquire(w)
           \/ \E n \in {"converting", "recordCancel", "recordFailure"} : WorkerConvert(w, n)
           \/ \E r \in {"completed", "failed", "canceled"} : WorkerConvertReturn(w, r)
  BY <1>0, <1>7, <1>8, WorkSteps DEF FilePc
<1>9. CASE WorkerWaitCanceled(w)
  <2>1. worker'[w].pc = "recordCancel" /\ CtxDone(w)
    BY <1>0, <1>9, WorkSteps
  <2> QED
    BY <1>3, <2>1 DEF TidyAt, Alive
<1>10. ASSUME NEW o \in SaveOutcome, WorkerBegin(w, o) PROVE TidyAt(w)'
  <2>1. CASE worker'[w].pc = "release"
    BY <2>1 DEF TidyAt, Alive, FilePc
  <2>2. CASE worker'[w].pc # "release"
    <3>1. /\ worker'[w].pc = "scan" /\ jobState[j] = "queued" /\ fileState'[j] = fileState[j]
          /\ worker'[w].todo = {f \in File : fileState[j][f] = "queued"}
      BY <1>0, <1>2, <1>10, <2>2, BeginStep
    <3>2. \A f \in File : fileState[j][f] \in {"absent", "queued", "failed"}
      BY <3>1 DEF OnceInv, FilesFitState, Fits
    <3>3. \A f \in File : Tidy(w, f)'
      BY <1>1, <1>2, <3>1, <3>2 DEF Tidy
    <3> QED
      BY <3>1, <3>3 DEF TidyAt
  <2> QED
    BY <2>1, <2>2
<1>11. ASSUME NEW o \in SaveOutcome, WorkerMark(w, o) PROVE TidyAt(w)'
  <2>1. worker[w].pc = "mark"
    BY <1>11 DEF WorkerMark
  <2>2. PICK f \in File : f = worker[w].file
    BY <1>0, <2>1 DEF WorkerShape, FilePc
  <2>3. /\ worker'[w].todo = worker[w].todo
        /\ \/ /\ worker'[w].pc = "acquire" /\ worker'[w].file = f
              /\ jobState[j] = "running" /\ jobState'[j] = "running"
              /\ fileState'[j] = [fileState[j] EXCEPT ![f] = "running"]
           \/ /\ worker'[w].pc = "scan" /\ UNCHANGED <<jobState, fileState>>
              /\ ~(jobState[j] = "running" /\ fileState[j][f] = "queued")
    BY <1>0, <1>2, <1>11, <2>2, MarkStep
  <2>4. ASSUME Alive(w)', NEW g \in File PROVE Tidy(w, g)'
    <3>1. Alive(w)
      BY <1>1, <1>2, <1>3, <2>1, <2>3, <2>4 DEF Alive, FilePc
    <3>2. Tidy(w, g) /\ jobState[j] = "running"
      BY <1>2, <3>1 DEF TidyAt, Alive
    <3>3. CASE worker'[w].pc = "acquire"
      <4>1. fileState'[j][g] = IF g = f THEN "running" ELSE fileState[j][g]
        BY <1>4, <2>3, <3>3 DEF Files
      <4> QED
        BY <1>1, <1>2, <2>1, <2>2, <2>3, <3>2, <3>3, <4>1 DEF Tidy, FilePc
    <3>4. CASE worker'[w].pc = "scan"
      BY <1>1, <1>2, <2>1, <2>2, <2>3, <3>2, <3>4 DEF Tidy, FilePc
    <3> QED
      BY <2>3, <3>3, <3>4
  <2> QED
    BY <2>3, <2>4 DEF TidyAt
<1>12. ASSUME worker[w].pc \in {"recordResult", "recordCancel", "recordFailure"},
              NEW skip \in BOOLEAN, skip => JobTerminal(jobState[j]),
              NEW state, ~CtxDone(w) => state \in {"completed", "failed"},
              NEW o \in SaveOutcome, RecordFile(w, skip, state, o)
       PROVE  TidyAt(w)'
  <2>2. PICK f \in File : f = worker[w].file
    BY <1>0, <1>12 DEF WorkerShape, FilePc
  <2>3. /\ worker'[w].pc = "scan" /\ worker'[w].todo = worker[w].todo
        /\ jobState' = jobState
        /\ \/ fileState' = fileState /\ (~Exists(j) \/ skip \/ FileSettled(j, f))
           \/ fileState'[j] = [fileState[j] EXCEPT ![f] = state]
    BY <1>0, <1>2, <1>12, <2>2, RecordStep
  <2>4. ASSUME Alive(w)', NEW g \in File PROVE Tidy(w, g)'
    <3>1. Alive(w) /\ ~CtxDone(w)
      BY <1>1, <1>2, <1>3, <1>12, <2>3, <2>4 DEF Alive, FilePc
    <3>2. Tidy(w, g) /\ jobState[j] = "running" /\ state \in {"completed", "failed"}
      BY <1>2, <1>12, <3>1 DEF TidyAt, Alive
    <3>3. CASE fileState' = fileState
      <4>1. FileSettled(j, f) \/ fileState'[j] = [fileState[j] EXCEPT ![f] = state]
        BY <1>12, <2>3, <3>2 DEF Exists, JobState, JobTerminal
      <4>2. fileState[j][f] \notin {"queued", "running"}
        BY <1>4, <3>2, <3>3, <4>1 DEF FileSettled, FileTerminal, Files
      <4> QED
        BY <1>1, <1>2, <1>12, <2>2, <2>3, <3>2, <3>3, <4>2 DEF Tidy, FilePc
    <3>4. CASE fileState'[j] = [fileState[j] EXCEPT ![f] = state]
      <4>1. fileState'[j][g] = IF g = f THEN state ELSE fileState[j][g]
        BY <1>4, <3>4 DEF Files
      <4> QED
        BY <1>1, <1>2, <1>12, <2>2, <2>3, <3>2, <4>1 DEF Tidy, FilePc
    <3> QED
      BY <2>3, <3>3, <3>4
  <2> QED
    BY <2>3, <2>4 DEF TidyAt
<1>13. ASSUME NEW o \in SaveOutcome, \/ WorkerRecordResult(w, o) \/ WorkerRecordCancel(w, o)
                                     \/ WorkerRecordFailure(w, o)
       PROVE  TidyAt(w)'
  <2>1. CASE WorkerRecordResult(w, o)
    <3>1. worker[w].pc = "recordResult" /\ RecordFile(w, ResultIsLate(w), worker[w].result, o)
      BY <2>1 DEF WorkerRecordResult
    <3>2. worker[w].result \in {"completed", "failed", "canceled"}
      BY <1>0, <3>1 DEF WorkerShape, TypeOK, WorkerRecord
    <3>3. ~CtxDone(w) => worker[w].result \in {"completed", "failed"}
      BY <3>1, <3>2 DEF TidyAt
    <3>4. ResultIsLate(w) \in BOOLEAN /\ (ResultIsLate(w) => JobTerminal(jobState[j]))
      BY <1>2 DEF ResultIsLate, JobTerminal
    <3> QED
      BY <1>12, <3>1, <3>3, <3>4
  <2>2. CASE WorkerRecordCancel(w, o)
    <3>1. worker[w].pc = "recordCancel" /\ RecordFile(w, FALSE, "canceled", o) /\ CtxDone(w)
      BY <2>2 DEF WorkerRecordCancel, TidyAt
    <3> QED
      BY <1>12, <3>1
  <2>3. CASE WorkerRecordFailure(w, o)
    BY <1>12, <2>3 DEF WorkerRecordFailure
  <2> QED
    BY <1>13, <2>1, <2>2, <2>3
<1>14. ASSUME NEW o \in SaveOutcome, WorkerFinalize(w, o) PROVE TidyAt(w)'
  BY <1>0, <1>2, <1>14, FinalizeStep DEF TidyAt, Alive, FilePc
<1> QED
  BY <1>5, <1>6, <1>8, <1>9, <1>10, <1>11, <1>13, <1>14 DEF WorkerWorks

\* Nobody else makes a worker untidy: who settles its job cancels its context.
LEMMA TidyStep ==
    ASSUME OnceInv, OnceInv', WorkIsTidy, Next
    PROVE  WorkIsTidy'
<1>0. TypeOK /\ SlotsAreScoped
  BY DEF OnceInv, CountInv, ManagerInv, SlotInv
<1> SUFFICES ASSUME NEW w \in Worker, faults' = 0, worker'[w].pc \in LeasedPc PROVE TidyAt(w)'
  BY TidyForm
<1>1. ~Exit /\ ~Crash
  BY DEF Exit, Crash, ProcessEnds, WorkerAt, LeasedPc
<1>2. faults = 0
  BY <1>0, <1>1, ManagerFrame
<1>3. worker[w].pc \in LeasedPc => TidyAt(w)
  BY <1>2, TidyForm
<1>4. CASE ~WorkerStep(w)
  <2>1. worker'[w] = worker[w] /\ worker[w].pc \notin {"idle", "exited"} /\ Spared(worker[w].job)
    BY <1>1, <1>4, Untouched DEF LeasedPc
  <2>2. TidyAt(w) /\ (CtxDone(w) => CtxDone(w)')
    BY <1>1, <1>3, <2>1, CtxStays
  <2>3. ASSUME Alive(w)' PROVE Alive(w) /\ fileState'[worker[w].job] = fileState[worker[w].job]
    BY <2>1, <2>2, <2>3 DEF Alive, Spared
  <2>4. ASSUME Alive(w)', NEW f \in File PROVE Tidy(w, f)'
    BY <2>1, <2>2, <2>3, <2>4 DEF TidyAt, Tidy
  <2> QED
    BY <2>1, <2>2, <2>4 DEF TidyAt
<1>5. CASE WorkerWorks(w)
  <2>1. worker[w].pc \in LeasedPc
    BY <1>0, <1>5, WorkCounts DEF SlotsAreScoped
  <2> QED
    BY <1>3, <1>5, <2>1, TidyWork
<1>6. CASE WorkerLease(w)
  <2>1. worker'[w].pc = "begin"
    BY <1>0, <1>6, WorkerOutside DEF LeasedPc
  <2> QED
    BY <2>1 DEF TidyAt, Alive, FilePc
<1>7. ~(\/ WorkerReceive(w) \/ WorkerRegister(w)
        \/ WorkerRelease(w) \/ WorkerDone(w) \/ WorkerExit(w))
  BY <1>0, WorkerOutside DEF LeasedPc
<1> QED
  BY <1>4, <1>5, <1>6, <1>7, WorkerCases

\* finalize reports "failed" only when every listed file failed.
LEMMA OutcomeStep ==
    ASSUME OnceInv, OnceInv', WorkIsTidy, OutcomeIsHonest, Next
    PROVE  OutcomeIsHonest'
<1>0. ManagerInv /\ TypeOK /\ SlotsAreScoped /\ DiskTypes
  BY DEF OnceInv, CountInv, ManagerInv, SlotInv, TypeOK
<1>1. \A j \in Job : jobState'[j] = "completed" => \E f \in File : fileState'[j][f] = "completed"
  BY DEF OnceInv, FilesFitState, Fits
<1>2. ASSUME NEW j \in Job, jobState'[j] = "failed", faults' = 0
      PROVE  /\ \A f \in File : fileState'[j][f] \in {"absent", "failed"}
             /\ fileState'[j] # NoFiles
  <2>1. CASE Exit \/ Crash
    BY <1>2, <2>1 DEF Exit, Crash, ProcessEnds, diskVars, OutcomeIsHonest
  <2>2. CASE ~Exit /\ ~Crash
    <3>1. faults = 0
      BY <1>0, <1>2, <2>2, ManagerFrame
    <3>2. CASE jobState[j] = "failed"
      <4>1. fileState'[j] = fileState[j]
        BY <1>2, <3>2, StartedStays DEF OutcomeKept
      <4> QED
        BY <3>1, <3>2, <4>1 DEF OutcomeIsHonest
    <3>3. CASE jobState[j] # "failed"
      <4>1. PICK w \in Worker, o \in SaveOutcome : WorkerFinalize(w, o) /\ worker[w].job = j
        BY <1>0, <1>2, <3>3, StateMoves DEF StateOwners
      <4> DEFINE files == SettleFiles(fileState[j], "canceled")
      <4>2. /\ worker[w].pc = "finalize" /\ NeedsFinal(j) /\ fileState'[j] = files
            /\ FinalState(files, worker[w].stop) = "failed"
        BY <1>0, <1>2, <3>3, <4>1, FinalizeStep
      <4>3. /\ ~worker[w].stop /\ ~\E f \in File : files[f] = "completed"
            /\ \E f \in File : files[f] = "failed"
        BY <4>2 DEF FinalState
      <4>4. jobState[j] = "running"
        BY <1>0, <4>1, <4>2 DEF ManagerInv, WorkIsBegun, Begun, NeedsFinal, Exists, JobState,
           JobTerminal
      <4>5. \A f \in File : Tidy(w, f)
        BY <3>1, <4>1, <4>2, <4>3, <4>4, TidyForm DEF TidyAt, Alive, LeasedPc
      <4>6. \A f \in File : fileState[j][f] \in {"absent", "failed", "completed"}
        BY <4>1, <4>2, <4>5 DEF Tidy, FilePc
      <4>7. \A f \in File : files[f] = fileState[j][f]
        BY <1>0, <4>6 DEF SettleFiles, FileTerminal, DiskTypes, Files
      <4> QED
        BY <4>2, <4>3, <4>6, <4>7 DEF NoFiles
    <3> QED
      BY <3>2, <3>3
  <2> QED
    BY <2>1, <2>2
<1> QED
  BY <1>1, <1>2 DEF OutcomeIsHonest

-----------------------------------------------------------------------------
(* The invariant and the results *)

ScheduleInv ==
    /\ OnceInv /\ ControlsAreKept /\ CancelReachesConverter
    /\ UsersAreSafe /\ JobInUseExists /\ NotYetRunning /\ ActiveIsScheduled
    /\ OldJobsAreInterrupted /\ WorkIsTidy /\ OutcomeIsHonest

\* The invariant holds when the first process starts.
LEMMA ScheduleInit == Init => ScheduleInv
<1> SUFFICES ASSUME Init PROVE ScheduleInv
  OBVIOUS
<1>1. /\ \A w \in Worker : worker[w].pc = "idle" /\ worker[w].job = NoJob
      /\ \A r \in Reader : reader[r].pc = "idle"
      /\ \A j \in Job : upload[j].pc = "none" /\ jobState[j] = "unused"
      /\ queue = <<>> /\ phase = "recovering"
  BY DEF Init, WorkerAt, IdleReader, UploadAt
<1>2. \A j \in Job : ~InQueue(j)
  BY <1>1 DEF InQueue
<1>3. ControlsAreKept /\ CancelReachesConverter /\ NotYetRunning
  BY <1>1, <1>2 DEF ControlsAreKept, CancelReachesConverter, NotYetRunning, LeasedPc
<1>4. UsersAreSafe /\ JobInUseExists
  BY <1>1 DEF UsersAreSafe, GivingUpPc, JobInUseExists, LeasedPc
<1>5. ActiveIsScheduled /\ OldJobsAreInterrupted /\ OutcomeIsHonest
  BY <1>1 DEF ActiveIsScheduled, OldJobsAreInterrupted, OutcomeIsHonest
<1>6. WorkIsTidy
  BY <1>1 DEF WorkIsTidy, LeasedPc
<1> QED
  BY <1>3, <1>4, <1>5, <1>6, OnceInit DEF ScheduleInv

\* Every step keeps it.
LEMMA ScheduleInvStep == ScheduleInv /\ [Next]_vars => ScheduleInv'
<1> SUFFICES ASSUME ScheduleInv, [Next]_vars PROVE ScheduleInv'
  OBVIOUS
<1>0. OnceInv'
  BY OnceInvStep DEF ScheduleInv
<1>1. CASE Next
  <2>1. ControlsAreKept' /\ CancelReachesConverter'
    BY <1>0, <1>1, ControlsStep, CancelStep DEF ScheduleInv
  <2>2. UsersAreSafe' /\ JobInUseExists'
    BY <1>0, <1>1, UsersStep, InUseStep DEF ScheduleInv
  <2>3. NotYetRunning' /\ ActiveIsScheduled' /\ OldJobsAreInterrupted'
    BY <1>1, RunningStep, ActiveStep, OldJobsStep DEF ScheduleInv
  <2>4. WorkIsTidy' /\ OutcomeIsHonest'
    BY <1>0, <1>1, TidyStep, OutcomeStep DEF ScheduleInv
  <2> QED
    BY <1>0, <2>1, <2>2, <2>3, <2>4 DEF ScheduleInv
<1>2. CASE UNCHANGED vars
  <2> USE <1>2 DEF ScheduleInv, vars
  <2>1. ControlsAreKept' /\ NotYetRunning'
    BY DEF ControlsAreKept, NotYetRunning, InQueue, Exists
  <2>2. CancelReachesConverter'
    BY DEF CancelReachesConverter, CtxDone
  <2>3. UsersAreSafe' /\ JobInUseExists'
    BY DEF UsersAreSafe, JobInUseExists, Schedulable, Exists
  <2>4. ActiveIsScheduled'
    BY DEF ActiveIsScheduled, QueueEntries, WorkersOf
  <2>5. OldJobsAreInterrupted' /\ OutcomeIsHonest'
    BY DEF OldJobsAreInterrupted, OutcomeIsHonest, Exists
  <2>6. WorkIsTidy'
    BY DEF WorkIsTidy, Tidy, CtxDone
  <2> QED
    BY <1>0, <2>1, <2>2, <2>3, <2>4, <2>5, <2>6
<1> QED
  BY <1>1, <1>2

\* The inductive invariant of the job manager, in full.
THEOREM ScheduleInvariance == Spec => []ScheduleInv
BY ScheduleInit, ScheduleInvStep, PTL DEF Spec

\* No interleaving of Start, Cancel, Delete, crashes and restarts hands a job to
\* two workers, or to one worker twice: Start queues pending jobs only, and a job
\* that was started never shows as pending again.
THEOREM JobsRunOnce == Spec => []ScheduledOnce
<1>1. ASSUME OnceInv PROVE ScheduledOnce
  <2> SUFFICES ASSUME NEW j \in Job
               PROVE  Cardinality(QueueEntries(j)) + Cardinality(WorkersOf(j)) <= 1
    BY DEF ScheduledOnce
  <2>0. Cardinality({}) = 0
    BY FS_EmptySet
  <2>1. CASE InQueue(j)
    <3>1. PICK i \in 1 .. Len(queue) : queue[i] = j
      BY <2>1 DEF InQueue
    <3>2. QueueEntries(j) = {i}
      BY <1>1, <3>1 DEF QueueEntries, OnceInv, StartedOnce
    <3>3. WorkersOf(j) = {}
      BY <1>1, <2>1 DEF WorkersOf, OnceInv, StartedOnce
    <3>4. Cardinality({i}) = 1
      BY FS_Singleton
    <3> QED
      BY <2>0, <3>2, <3>3, <3>4
  <2>2. CASE ~InQueue(j)
    <3>1. QueueEntries(j) = {}
      BY <2>2 DEF QueueEntries, InQueue
    <3>2. CASE WorkersOf(j) = {}
      BY <2>0, <3>1, <3>2
    <3>3. ASSUME NEW w \in WorkersOf(j) PROVE Cardinality(WorkersOf(j)) = 1
      <4>1. WorkersOf(j) = {w}
        BY <1>1, <3>3 DEF WorkersOf, OnceInv, StartedOnce
      <4>2. Cardinality({w}) = 1
        BY FS_Singleton
      <4> QED
        BY <4>1, <4>2
    <3> QED
      BY <2>0, <3>1, <3>2, <3>3
  <2> QED
    BY <2>1, <2>2
<1> QED
  BY <1>1, ScheduleInvariance, PTL DEF ScheduleInv

\* A cancel that lands while a converter runs has canceled the context of that
\* converter: no deletion, sweep or restart of the job drops the control first.
THEOREM CancelsReachConverters == Spec => []CancelReachesConverter
<1>1. ScheduleInv => CancelReachesConverter
  BY DEF ScheduleInv
<1> QED
  BY <1>1, ScheduleInvariance, PTL

\* As long as every manifest write succeeds, whoever holds a lease to fill, work
\* on or stream a job finds its directory in place.
THEOREM JobsInUseStay == Spec => []JobInUseExists
<1>1. ScheduleInv => JobInUseExists
  BY DEF ScheduleInv
<1> QED
  BY <1>1, ScheduleInvariance, PTL

\* As long as every manifest write succeeds, a job that shows as queued or running
\* is in the queue or with a worker that is going to settle it.
THEOREM ActiveJobsAreScheduled == Spec => []ActiveIsScheduled
<1>1. ScheduleInv => ActiveIsScheduled
  BY DEF ScheduleInv
<1> QED
  BY <1>1, ScheduleInvariance, PTL

\* A serving process has settled what its predecessors left behind: every
\* unfinished job came in through one of its own uploads.
THEOREM OldJobsAreSettled == Spec => []OldJobsAreInterrupted
<1>1. ScheduleInv => OldJobsAreInterrupted
  BY DEF ScheduleInv
<1> QED
  BY <1>1, ScheduleInvariance, PTL

\* A completed job has an output, and (as long as every manifest write succeeds) a
\* failed job has only failed files: a job cut short never passes for failed.
THEOREM OutcomesAreHonest == Spec => []OutcomeIsHonest
<1>1. ScheduleInv => OutcomeIsHonest
  BY DEF ScheduleInv
<1> QED
  BY <1>1, ScheduleInvariance, PTL

\* When Shutdown reports a full drain, the queue, the counters and the semaphore
\* are at zero, only downloads hold leases, and no job is left queued or running
\* unless its manifest could not be written.
THEOREM DrainedMeansQuiet == Spec => []DrainedIsQuiet
<1>1. ASSUME ScheduleInv PROVE DrainedIsQuiet
  <2> SUFFICES ASSUME drained PROVE DrainedIsQuiet
    BY DEF DrainedIsQuiet
  <2>0. Roster /\ SlotInv /\ StatsAreExact /\ ActiveIsScheduled
    BY <1>1 DEF ScheduleInv, OnceInv, CountInv
  <2>1. /\ phase = "serving"
        /\ \A w \in Worker : worker[w].pc = "exited"
        /\ \A j \in Job : upload[j].pc \in {"none", "returned"}
    BY <2>0 DEF Roster, WaitGroupEmpty
  <2>2. queue = <<>> /\ Len(queue) = 0
    BY <2>0, <2>1, ActorsAssumption DEF Roster
  <2>3. Cardinality({}) = 0
    BY FS_EmptySet
  <2> DEFINE Received == {w \in Worker : worker[w].pc = "received"}
             InWork == {w \in Worker : worker[w].pc \in LeasedPc \cup {"lease", "done"}}
             Slots == {w \in Worker : worker[w].slot}
             Probes == {j \in Job : upload[j].pc = "probing"}
  <2>4. queued = 0 /\ running = 0
    <3>1. Received = {} /\ InWork = {}
      BY <2>1 DEF LeasedPc
    <3>2. queued = Len(queue) + Cardinality(Received) /\ running = Cardinality(InWork)
      BY <2>0 DEF StatsAreExact
    <3> HIDE DEF Received, InWork
    <3> QED
      BY <2>2, <2>3, <3>1, <3>2
  <2>5. semaphore = 0
    <3>1. Slots = {} /\ Probes = {}
      BY <2>0, <2>1 DEF SlotInv, SlotsAreScoped, SlotPc
    <3>2. semaphore = Cardinality(Slots) + Cardinality(Probes)
      BY <2>0 DEF SlotInv, SlotsAreCounted
    <3> HIDE DEF Slots, Probes
    <3> QED
      BY <2>3, <3>1, <3>2
  <2>6. ASSUME faults = 0, NEW j \in Job PROVE ~JobActive(jobState[j])
    BY <2>0, <2>1, <2>2, <2>6 DEF ActiveIsScheduled, QueueEntries, WorkersOf
  <2>7. ASSUME NEW j \in Job PROVE Holders(j) \subseteq Reader
    BY <2>1 DEF Holders, LeasedPc
  <2> QED
    BY <2>2, <2>4, <2>5, <2>6, <2>7 DEF DrainedIsQuiet
<1> QED
  BY <1>1, ScheduleInvariance, PTL
=============================================================================
