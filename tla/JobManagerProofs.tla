-------------------------- MODULE JobManagerProofs --------------------------
(***************************************************************************)
(* Proofs about the job manager: its type invariant, that terminal jobs    *)
(* are settled and final, and that the manager implements JobLifecycle.    *)
(* The inductive invariant is ManagerInv; only the manifests part of it is *)
(* kept by the lifecycle itself, the rest ties uploads, queue and workers  *)
(* to the state their job can be in.                                       *)
(*                                                                         *)
(* The counters are exact too, for any number of jobs, workers, downloads, *)
(* restarts and failed writes: the leases of a job (part of ManagerInv,    *)
(* since a lease keeps RemoveFile away from an upload that is being        *)
(* withdrawn), the process slots, and the jobs that wait and run.  Each    *)
(* counter is compared with the set of actors it counts; a step adds one   *)
(* actor and one, removes one actor and one, or touches neither.           *)
(***************************************************************************)
EXTENDS JobManager, FiniteSetTheorems, TLAPS

-----------------------------------------------------------------------------
(* Types of the helpers *)

\* The loop that settles files keeps the shape of manifest.Files.
LEMMA SettleType ==
    ASSUME NEW files \in Files, NEW s \in FileState
    PROVE  SettleFiles(files, s) \in Files
BY DEF Files, SettleFiles

\* store.Save writes a manifest of the right shape, or nothing.
LEMMA SaveType ==
    ASSUME DiskTypes, NEW j, NEW state \in JobState, NEW files \in Files,
           NEW o \in SaveOutcome, Save(j, state, files, o)
    PROVE  DiskTypes'
<1>1. faults' \in 0 .. MaxFaults
  BY BoundsAssumption DEF DiskTypes, Save
<1>2. jobState' \in [Job -> JobState \cup NoManifest]
  BY DEF DiskTypes, Save
<1>3. fileState' \in [Job -> Files]
  BY DEF DiskTypes, Save
<1> QED
  BY <1>1, <1>2, <1>3 DEF DiskTypes, Save

\* store.Delete leaves no manifest.
LEMMA RemoveType ==
    ASSUME DiskTypes, NEW j, Remove(j)
    PROVE  DiskTypes'
<1>1. NoFiles \in Files
  BY DEF NoFiles, Files
<1> QED
  BY <1>1 DEF DiskTypes, Remove, NoManifest

\* releaseLease never takes a count below zero.
LEMMA LeaseType ==
    ASSUME CountTypes, NEW j
    PROVE  LeasesAfterRelease(j) \in [Job -> Nat]
<1>1. CASE j \in Job
  <2>1. leases[j] \in Nat
    BY <1>1 DEF CountTypes
  <2>2. (IF leases[j] <= 1 THEN 0 ELSE leases[j] - 1) \in Nat
    BY <2>1
  <2> QED
    BY <2>2 DEF CountTypes, LeasesAfterRelease
<1>2. CASE j \notin Job
  BY <1>2 DEF CountTypes, LeasesAfterRelease
<1> QED
  BY <1>1, <1>2

\* What an action leaves alone keeps its type.
LEMMA FrameTypes ==
    /\ DiskTypes /\ UNCHANGED diskVars => DiskTypes'
    /\ ManagerTypes /\ UNCHANGED managerVars => ManagerTypes'
    /\ CountTypes /\ UNCHANGED countVars => CountTypes'
    /\ ClientTypes /\ UNCHANGED clientVars => ClientTypes'
<1>1. DiskTypes /\ UNCHANGED diskVars => DiskTypes'
  BY DEF DiskTypes, diskVars
<1>2. ManagerTypes /\ UNCHANGED managerVars => ManagerTypes'
  BY DEF ManagerTypes, managerVars, processVars, queueVars, controlVars
<1>3. CountTypes /\ UNCHANGED countVars => CountTypes'
  BY DEF CountTypes, countVars
<1>4. ClientTypes /\ UNCHANGED clientVars => ClientTypes'
  BY DEF ClientTypes, clientVars
<1> QED
  BY <1>1, <1>2, <1>3, <1>4

\* Every record an Accept call goes through.
LEMMA UploadTypes ==
    /\ \A pc \in UploadPc : UploadAt(pc) \in UploadRecord
    /\ \A r \in UploadRecord, pc \in UploadPc : [r EXCEPT !.pc = pc] \in UploadRecord
    /\ \A r \in UploadRecord, pc \in UploadPc, files \in Files :
          [r EXCEPT !.pc = pc, !.files = files] \in UploadRecord
    /\ \A pc \in UploadPc, state \in JobState \cup NoManifest, files \in Files :
          [pc |-> pc, files |-> NoFiles, seenState |-> state, seenFiles |-> files] \in UploadRecord
<1>1. NoFiles \in Files
  BY DEF NoFiles, Files
<1>2. \A pc \in UploadPc : UploadAt(pc) \in UploadRecord
  BY <1>1 DEF UploadRecord, UploadAt, NoManifest
<1>3. \A r \in UploadRecord, pc \in UploadPc : [r EXCEPT !.pc = pc] \in UploadRecord
  BY DEF UploadRecord
<1>4. \A r \in UploadRecord, pc \in UploadPc, files \in Files :
         [r EXCEPT !.pc = pc, !.files = files] \in UploadRecord
  BY DEF UploadRecord
<1>5. \A pc \in UploadPc, state \in JobState \cup NoManifest, files \in Files :
         [pc |-> pc, files |-> NoFiles, seenState |-> state, seenFiles |-> files] \in UploadRecord
  BY <1>1 DEF UploadRecord
<1> QED
  BY <1>2, <1>3, <1>4, <1>5

-----------------------------------------------------------------------------
(* The type invariant *)

\* The manifest that Accept may put back is one that it could load.
SeenIsStored ==
    \A j \in Job : upload[j].pc \in {"withdrawing", "restoring"} => upload[j].seenState \in JobState

\* The steps of an upload request keep the types.
LEMMA AcceptTypes ==
    ASSUME TypeOK, SeenIsStored, NEW j \in Job, AcceptReserve(j) \/ AcceptStep(j)
    PROVE  TypeOK'
<1> USE DEF TypeOK
<1>1. ASSUME AcceptReserve(j) PROVE TypeOK'
  <2>1. UploadAt("reserved") \in UploadRecord
    BY UploadTypes DEF UploadPc
  <2> QED
    BY <1>1, <2>1, FrameTypes DEF AcceptReserve
<1>2. ASSUME NEW o \in SaveOutcome, AcceptCreate(j, o) PROVE TypeOK'
  <2>1. UploadAt("receiving") \in UploadRecord /\ UploadAt("returned") \in UploadRecord
    BY UploadTypes DEF UploadPc
  <2>2. DiskTypes'
    BY <1>2, BoundsAssumption DEF AcceptCreate, DiskTypes, JobState, NoManifest
  <2>3. CountTypes'
    BY <1>2 DEF AcceptCreate, CountTypes
  <2> QED
    BY <1>2, <2>1, <2>2, <2>3, FrameTypes DEF AcceptCreate
<1>3. ASSUME NEW n \in File, AcceptReceive(j, n) PROVE TypeOK'
  <2>1. [f \in File |-> IF f <= n THEN "uploaded" ELSE "absent"] \in Files
    BY DEF Files, FileState
  <2>2. [upload[j] EXCEPT !.pc = "inspecting",
                          !.files = [f \in File |-> IF f <= n THEN "uploaded" ELSE "absent"]]
          \in UploadRecord
    BY <2>1, UploadTypes DEF UploadPc
  <2> QED
    BY <1>3, <2>2, FrameTypes DEF AcceptReceive
<1>4. ASSUME AcceptReject(j) \/ AcceptDiscard(j) PROVE TypeOK'
  <2>1. \A pc \in {"withdrawing", "removing"} :
           [pc |-> pc, files |-> NoFiles, seenState |-> jobState[j], seenFiles |-> fileState[j]]
             \in UploadRecord
    BY UploadTypes DEF UploadPc, DiskTypes
  <2>2. upload' \in [Job -> UploadRecord]
    BY <1>4, <2>1 DEF AcceptReject, AcceptDiscard, DeleteLoad
  <2> QED
    BY <1>4, <2>2, FrameTypes DEF AcceptReject, AcceptDiscard
<1>5. ASSUME NEW f \in File, InspectAcquire(j, f) PROVE TypeOK'
  <2>1. [upload[j] EXCEPT !.pc = "probing"] \in UploadRecord
    BY UploadTypes DEF UploadPc
  <2>2. CountTypes'
    BY <1>5 DEF InspectAcquire, CountTypes
  <2> QED
    BY <1>5, <2>1, <2>2, FrameTypes DEF InspectAcquire
<1>6. ASSUME NEW f \in File, InspectWaitExpired(j, f) PROVE TypeOK'
  <2>1. [upload[j] EXCEPT !.files[f] = "failed"] \in UploadRecord
    BY DEF UploadRecord, Files, FileState
  <2> QED
    BY <1>6, <2>1, FrameTypes DEF InspectWaitExpired
<1>7. ASSUME NEW f \in File, NEW s \in {"inspected", "failed"}, InspectReturn(j, f, s)
      PROVE  TypeOK'
  <2>1. [upload[j] EXCEPT !.pc = "inspecting", !.files[f] = s] \in UploadRecord
    BY DEF UploadRecord, UploadPc, Files, FileState
  <2>2. CountTypes'
    BY <1>7 DEF InspectReturn, CountTypes
  <2> QED
    BY <1>7, <2>1, <2>2, FrameTypes DEF InspectReturn
<1>8. ASSUME NEW o \in SaveOutcome, AcceptSave(j, o) PROVE TypeOK'
  <2>1. /\ UploadAt("return") \in UploadRecord /\ UploadAt("unsaved") \in UploadRecord
        /\ UploadAt("unsynced") \in UploadRecord
    BY UploadTypes DEF UploadPc
  <2>2. AcceptedFiles(j) \in Files
    BY SettleType DEF AcceptedFiles, UploadRecord, FileState
  <2>3. DiskTypes'
    BY <1>8, <2>2, FrameTypes, SaveType DEF AcceptSave, Exists
  <2>4. upload' \in [Job -> UploadRecord]
    BY <1>8, <2>1 DEF AcceptSave, SaveOutcome
  <2> QED
    BY <1>8, <2>3, <2>4, FrameTypes DEF AcceptSave
<1>9. ASSUME AcceptReturn(j) PROVE TypeOK'
  <2>1. UploadAt("returned") \in UploadRecord
    BY UploadTypes DEF UploadPc
  <2>2. CountTypes'
    BY <1>9, LeaseType DEF AcceptReturn, CountTypes
  <2> QED
    BY <1>9, <2>1, <2>2, FrameTypes DEF AcceptReturn
<1>10. AfterFailedRemoval(j) \in UploadRecord
  BY UploadTypes DEF AfterFailedRemoval, UploadPc
<1>11. ASSUME AcceptRemoved(j) PROVE TypeOK'
  <2>1. UploadAt("return") \in UploadRecord
    BY UploadTypes DEF UploadPc
  <2> QED
    BY <1>11, <2>1, FrameTypes, RemoveType DEF AcceptRemoved
<1>12. ASSUME AcceptRemoveRaced(j) PROVE TypeOK'
  BY <1>10, <1>12, FrameTypes DEF AcceptRemoveRaced
<1>13. ASSUME NEW unlinked \in BOOLEAN, AcceptRemoveFails(j, unlinked) PROVE TypeOK'
  <2>1. NoFiles \in Files
    BY DEF NoFiles, Files
  <2>2. DiskTypes'
    BY <1>13, <2>1, BoundsAssumption DEF AcceptRemoveFails, DiskTypes, NoManifest
  <2> QED
    BY <1>10, <1>13, <2>2, FrameTypes DEF AcceptRemoveFails
<1>14. ASSUME NEW o \in SaveOutcome, AcceptRestore(j, o) PROVE TypeOK'
  <2>1. UploadAt("return") \in UploadRecord /\ NoFiles \in Files
    BY UploadTypes DEF UploadPc, NoFiles, Files
  <2>2. upload[j].seenState \in JobState
    BY <1>14 DEF AcceptRestore, SeenIsStored
  <2>3. DiskTypes'
    BY <1>14, <2>1, <2>2, SaveType DEF AcceptRestore
  <2> QED
    BY <1>14, <2>1, <2>3, FrameTypes DEF AcceptRestore
<1> QED
  BY <1>1, <1>2, <1>3, <1>4, <1>5, <1>6, <1>7, <1>8, <1>9, <1>11, <1>12, <1>13, <1>14
     DEF AcceptStep
\* The requests of the web interface, deletion and expiry keep the types.
LEMMA RequestTypes ==
    ASSUME TypeOK, SeenIsStored, NEW j \in Job,
           Request(j) \/ DeleteStep(j) \/ Expire(j) \/ CleanupJob(j)
    PROVE  TypeOK'
<1> USE DEF TypeOK
<1>1. ASSUME NEW o \in SaveOutcome, Start(j, o) PROVE TypeOK'
  <2>1. [f \in File |-> IF f \in Convertible(j) THEN "queued" ELSE fileState[j][f]] \in Files
    BY DEF DiskTypes, Files, FileState
  <2>2. DiskTypes'
    BY <1>1, <2>1, SaveType DEF Start, JobState
  <2>3. ManagerTypes'
    <3>1. Append(queue, j) \in Seq(Job)
      BY DEF ManagerTypes
    <3>2. queue' \in Seq(Job)
      BY <1>1, <3>1 DEF Start, ManagerTypes
    <3>3. queued' \in Int /\ controls' \subseteq Job /\ cancelled' \subseteq Job
      BY <1>1 DEF Start, ManagerTypes, controlVars
    <3> QED
      BY <1>1, <3>2, <3>3 DEF Start, ManagerTypes, processVars
  <2> QED
    BY <1>1, <2>2, <2>3, FrameTypes DEF Start
<1>2. ASSUME NEW o \in SaveOutcome, Cancel(j, o) PROVE TypeOK'
  <2>1. SettleFiles(fileState[j], "canceled") \in Files
    BY SettleType DEF DiskTypes, FileState
  <2>2. DiskTypes'
    BY <1>2, <2>1, SaveType DEF Cancel, JobState
  <2>3. ManagerTypes'
    BY <1>2 DEF Cancel, ManagerTypes, CancelControl, processVars, queueVars
  <2> QED
    BY <1>2, <2>2, <2>3, FrameTypes DEF Cancel
<1>3. ASSUME DeleteCancel(j) PROVE TypeOK'
  <2>1. ManagerTypes'
    BY <1>3 DEF DeleteCancel, ManagerTypes, CancelControl, processVars, queueVars
  <2>2. ClientTypes'
    BY <1>3 DEF DeleteCancel, ClientTypes
  <2> QED
    BY <1>3, <2>1, <2>2, FrameTypes DEF DeleteCancel
<1>4. ASSUME DeleteCheck(j) \/ DeleteUnleased(j) \/ DeleteGiveUp(j) PROVE TypeOK'
  <2>1. ClientTypes'
    BY <1>4 DEF DeleteCheck, DeleteUnleased, DeleteGiveUp, ClientTypes
  <2> QED
    BY <1>4, <2>1, FrameTypes DEF DeleteCheck, DeleteUnleased, DeleteGiveUp
<1>5. ASSUME DeleteCommit(j) PROVE TypeOK'
  <2>1. DiskTypes'
    BY <1>5, RemoveType, FrameTypes DEF DeleteCommit
  <2>2. ManagerTypes'
    BY <1>5 DEF DeleteCommit, ManagerTypes, CancelControl, processVars, queueVars
  <2>3. ClientTypes'
    BY <1>5 DEF DeleteCommit, ClientTypes
  <2> QED
    BY <1>5, <2>1, <2>2, <2>3, FrameTypes DEF DeleteCommit
<1>6. ASSUME NEW f \in File, NEW o \in SaveOutcome, RemoveFile(j, f, o) PROVE TypeOK'
  <2>1. [fileState[j] EXCEPT ![f] = "absent"] \in Files
    BY DEF DiskTypes, Files
  <2>2. DiskTypes'
    BY <1>6, <2>1, SaveType, RemoveType DEF RemoveFile, JobState
  <2> QED
    BY <1>6, <2>2, FrameTypes DEF RemoveFile
<1>7. ASSUME NEW r \in Reader, ReaderLease(r, j) PROVE TypeOK'
  <2>1. CountTypes'
    BY <1>7 DEF ReaderLease, CountTypes
  <2>2. ClientTypes'
    BY <1>7 DEF ReaderLease, ClientTypes, ReaderRecord
  <2> QED
    BY <1>7, <2>1, <2>2, FrameTypes DEF ReaderLease
<1>8. ASSUME Expire(j) PROVE TypeOK'
  <2>1. DiskTypes'
    BY <1>8 DEF Expire, DiskTypes
  <2> QED
    BY <1>8, <2>1, FrameTypes DEF Expire
<1>9. ASSUME CleanupJob(j) PROVE TypeOK'
  <2>1. DiskTypes'
    BY <1>9, RemoveType, FrameTypes DEF CleanupJob
  <2>2. ManagerTypes'
    BY <1>9 DEF CleanupJob, ManagerTypes, processVars, queueVars
  <2>3. ClientTypes'
    BY <1>9 DEF CleanupJob, ClientTypes
  <2> QED
    BY <1>9, <2>1, <2>2, <2>3, FrameTypes DEF CleanupJob
<1> QED
  BY <1>1, <1>2, <1>3, <1>4, <1>5, <1>6, <1>7, <1>8, <1>9, AcceptTypes
     DEF Request, DeleteStep

\* Downloads, the listing of a sweep and the life of the process keep the types.
LEMMA ServiceTypes ==
    ASSUME TypeOK,
           \/ \E r \in Reader : ReaderStep(r)
           \/ CleanupList \/ StopIntake \/ Shutdown \/ Drain \/ Exit \/ Crash \/ Restart
           \/ Recovery
    PROVE  TypeOK'
<1> USE DEF TypeOK
<1>1. ASSUME NEW r \in Reader, ReaderOpen(r) PROVE TypeOK'
  <2>1. ClientTypes'
    BY <1>1 DEF ReaderOpen, ClientTypes, ReaderRecord
  <2> QED
    BY <1>1, <2>1, FrameTypes DEF ReaderOpen
<1>2. ASSUME NEW r \in Reader, ReaderRelease(r) PROVE TypeOK'
  <2>1. ClientTypes'
    BY <1>2 DEF ReaderRelease, ClientTypes, ReaderRecord, IdleReader
  <2>2. CountTypes'
    BY <1>2, LeaseType DEF ReaderRelease, CountTypes
  <2> QED
    BY <1>2, <2>1, <2>2, FrameTypes DEF ReaderRelease
<1>3. ASSUME CleanupList PROVE TypeOK'
  <2>1. ClientTypes'
    BY <1>3 DEF CleanupList, ClientTypes, DiskTypes
  <2> QED
    BY <1>3, <2>1, FrameTypes DEF CleanupList
<1>4. ASSUME StopIntake \/ Shutdown \/ Drain PROVE TypeOK'
  <2>1. ManagerTypes'
    BY <1>4 DEF StopIntake, Shutdown, Drain, ManagerTypes, queueVars, controlVars
  <2> QED
    BY <1>4, <2>1, FrameTypes DEF StopIntake, Shutdown, Drain
<1>5. ASSUME Exit \/ Crash PROVE TypeOK'
  <2>1. ProcessEnds
    BY <1>5 DEF Exit, Crash
  <2>2. ManagerTypes'
    <3>1. queue' \in Seq(Job)
      BY <2>1 DEF ProcessEnds
    <3>2. accepting' \in BOOLEAN /\ stopped' \in BOOLEAN /\ drained' \in BOOLEAN
      BY <2>1 DEF ProcessEnds
    <3>3. queued' \in Int /\ running' \in Int /\ starts' \in 1 .. MaxStarts
      BY <2>1 DEF ProcessEnds, ManagerTypes
    <3> QED
      BY <2>1, <3>1, <3>2, <3>3 DEF ProcessEnds, ManagerTypes
  <2>3. CountTypes'
    BY <2>1 DEF ProcessEnds, CountTypes
  <2>4. ClientTypes'
    BY <2>1 DEF ProcessEnds, ClientTypes, ReaderRecord, IdleReader
  <2>5. WorkerAt("idle") \in WorkerRecord
    BY DEF WorkerAt, WorkerRecord, WorkerPc
  <2>6. UploadAt("none") \in UploadRecord
    BY UploadTypes DEF UploadPc
  <2> QED
    BY <2>1, <2>2, <2>3, <2>4, <2>5, <2>6, FrameTypes DEF ProcessEnds
<1>6. ASSUME Restart \/ RecoverDone PROVE TypeOK'
  <2>1. ManagerTypes'
    <3>1. starts' \in 1 .. MaxStarts
      BY <1>6, BoundsAssumption DEF Restart, RecoverDone, ManagerTypes
    <3>2. accepting' \in BOOLEAN
      BY <1>6 DEF Restart, RecoverDone, ManagerTypes
    <3> QED
      BY <1>6, <3>1, <3>2 DEF Restart, RecoverDone, ManagerTypes, queueVars, controlVars
  <2> QED
    BY <1>6, <2>1, FrameTypes DEF Restart, RecoverDone
<1>7. ASSUME NEW j \in Job, NEW o \in SaveOutcome, RecoverJob(j, o) PROVE TypeOK'
  <2>1. SettleFiles(fileState[j], "interrupted") \in Files
    BY SettleType DEF DiskTypes, FileState
  <2>2. DiskTypes'
    BY <1>7, <2>1, SaveType DEF RecoverJob, JobState
  <2>3. ManagerTypes'
    BY <1>7 DEF RecoverJob, ManagerTypes, queueVars, controlVars
  <2> QED
    BY <1>7, <2>2, <2>3, FrameTypes DEF RecoverJob
<1> QED
  BY <1>1, <1>2, <1>3, <1>4, <1>5, <1>6, <1>7 DEF ReaderStep, Recovery
-----------------------------------------------------------------------------
(* The locals of a worker *)

FilePc == {"mark", "acquire", "slot", "converting",
           "recordResult", "recordCancel", "recordFailure"}

\* A busy worker has a job, convertFile has a file, and a conversion that
\* returned has a result: what the Go locals guarantee by scope.
WorkerShape ==
    \A w \in Worker :
        /\ worker[w].pc \notin {"idle", "exited"} => worker[w].job \in Job
        /\ worker[w].pc \in FilePc => worker[w].file \in File
        /\ worker[w].pc = "recordResult" => worker[w].result # "none"

\* The records a worker goes through.
LEMMA WorkerRecords ==
    /\ \A pc \in WorkerPc : WorkerAt(pc) \in WorkerRecord
    /\ \A r \in WorkerRecord, pc \in WorkerPc : [r EXCEPT !.pc = pc] \in WorkerRecord
    /\ \A r \in WorkerRecord :
          [r EXCEPT !.pc = "scan", !.file = NoFile, !.slot = FALSE, !.result = "none"]
             \in WorkerRecord
<1>1. \A pc \in WorkerPc : WorkerAt(pc) \in WorkerRecord
  BY DEF WorkerRecord, WorkerAt
<1>2. \A r \in WorkerRecord, pc \in WorkerPc : [r EXCEPT !.pc = pc] \in WorkerRecord
  BY DEF WorkerRecord
<1>3. \A r \in WorkerRecord :
          [r EXCEPT !.pc = "scan", !.file = NoFile, !.slot = FALSE, !.result = "none"]
             \in WorkerRecord
  BY DEF WorkerRecord, WorkerPc
<1> QED
  BY <1>1, <1>2, <1>3

\* convertFile returns to a well-formed loop.
LEMMA BackToScanType ==
    ASSUME worker \in [Worker -> WorkerRecord], NEW w \in Worker
    PROVE  BackToScan(w) \in [Worker -> WorkerRecord]
BY WorkerRecords DEF BackToScan

\* The updates that end convertFile keep the types.
LEMMA RecordTypes ==
    ASSUME TypeOK, NEW w \in Worker, worker[w].job \in Job, NEW skip \in BOOLEAN,
           NEW state \in FileState, NEW o \in SaveOutcome, RecordFile(w, skip, state, o)
    PROVE  TypeOK'
<1> USE DEF TypeOK
<1>1. fileState[worker[w].job] \in Files
  BY DEF DiskTypes
<1>2. [fileState[worker[w].job] EXCEPT ![worker[w].file] = state] \in Files
  BY <1>1 DEF Files
<1>3. DiskTypes'
  BY <1>2, SaveType, FrameTypes DEF RecordFile, Exists
<1>4. CountTypes'
  BY DEF RecordFile, CountTypes, SlotReleased
<1>5. worker' \in [Worker -> WorkerRecord]
  BY BackToScanType DEF RecordFile
<1> QED
  BY <1>3, <1>4, <1>5, FrameTypes DEF RecordFile

\* The steps of a worker keep the types.
LEMMA WorkerTypes ==
    ASSUME TypeOK, WorkerShape, NEW w \in Worker, WorkerStep(w)
    PROVE  TypeOK'
<1> USE DEF TypeOK
<1>0. worker[w] \in WorkerRecord
  OBVIOUS
<1>1. ASSUME WorkerReceive(w) PROVE TypeOK'
  <2>1. Head(queue) \in Job /\ Tail(queue) \in Seq(Job)
    BY <1>1 DEF WorkerReceive, ManagerTypes
  <2>2. [WorkerAt("received") EXCEPT !.job = Head(queue)] \in WorkerRecord
    BY <2>1 DEF WorkerAt, WorkerRecord, WorkerPc
  <2>3. ManagerTypes'
    BY <1>1, <2>1 DEF WorkerReceive, ManagerTypes, processVars, controlVars
  <2> QED
    BY <1>1, <2>2, <2>3, FrameTypes DEF WorkerReceive
<1>2. ASSUME WorkerRegister(w) PROVE TypeOK'
  <2>1. (worker[w].job \in controls) \in BOOLEAN
    OBVIOUS
  <2>2. \A b \in BOOLEAN : [worker[w] EXCEPT !.pc = "lease", !.ctl = b] \in WorkerRecord
    BY <1>0 DEF WorkerRecord, WorkerPc
  <2>3. worker' \in [Worker -> WorkerRecord]
    BY <1>2, <2>1, <2>2 DEF WorkerRegister
  <2>4. ManagerTypes'
    BY <1>2 DEF WorkerRegister, ManagerTypes, processVars, controlVars
  <2> QED
    BY <1>2, <2>3, <2>4, FrameTypes DEF WorkerRegister
<1>3. ASSUME WorkerLease(w) PROVE TypeOK'
  <2>1. worker' \in [Worker -> WorkerRecord]
    BY <1>3, <1>0, WorkerRecords DEF WorkerLease, WorkerPc
  <2>2. CountTypes'
    BY <1>3 DEF WorkerLease, CountTypes
  <2> QED
    BY <1>3, <2>1, <2>2, FrameTypes DEF WorkerLease
<1>4. ASSUME NEW o \in SaveOutcome, WorkerBegin(w, o) PROVE TypeOK'
  <2>1. worker[w].job \in Job
    BY <1>4 DEF WorkerBegin, WorkerShape
  <2>2. DiskTypes'
    <3>1. fileState[worker[w].job] \in Files /\ "running" \in JobState
      BY <2>1 DEF DiskTypes, JobState
    <3> QED
      BY <1>4, <3>1, SaveType, FrameTypes DEF WorkerBegin
  <2>3. worker' \in [Worker -> WorkerRecord]
    <3>1. \A pc \in WorkerPc, t \in SUBSET File :
             [worker[w] EXCEPT !.pc = pc, !.todo = t] \in WorkerRecord
      BY <1>0 DEF WorkerRecord
    <3>2. /\ (IF o = "saved" THEN "scan" ELSE "release") \in WorkerPc
          /\ (IF o = "saved" THEN {f \in File : fileState[worker[w].job][f] = "queued"} ELSE {})
               \in SUBSET File
      BY DEF WorkerPc
    <3>3. CASE jobState[worker[w].job] = "queued"
      <4>1. PICK pc \in WorkerPc, t \in SUBSET File :
               worker' = [worker EXCEPT ![w].pc = pc, ![w].todo = t]
        BY <1>4, <3>2, <3>3 DEF WorkerBegin
      <4> QED
        BY <3>1, <4>1
    <3>4. CASE jobState[worker[w].job] # "queued"
      BY <1>4, <1>0, <3>2, <3>4, WorkerRecords DEF WorkerBegin, WorkerPc
    <3> QED
      BY <3>3, <3>4
  <2> QED
    BY <1>4, <2>2, <2>3, FrameTypes DEF WorkerBegin
<1>5. ASSUME NEW f \in File, WorkerNextFile(w, f) PROVE TypeOK'
  <2>1. worker' \in [Worker -> WorkerRecord]
    BY <1>5 DEF WorkerNextFile, WorkerRecord, WorkerPc
  <2> QED
    BY <1>5, <2>1, FrameTypes DEF WorkerNextFile
<1>6. ASSUME WorkerEndFiles(w) PROVE TypeOK'
  <2>1. \A b \in BOOLEAN :
           [worker[w] EXCEPT !.pc = "finalize", !.stop = b, !.todo = {}] \in WorkerRecord
    BY <1>0 DEF WorkerRecord, WorkerPc
  <2>2. CtxDone(w) \in BOOLEAN
    BY <1>0 DEF CtxDone, WorkerRecord, ManagerTypes
  <2>3. worker' \in [Worker -> WorkerRecord]
    BY <1>6, <2>1, <2>2 DEF WorkerEndFiles
  <2> QED
    BY <1>6, <2>3, FrameTypes DEF WorkerEndFiles
<1>7. ASSUME NEW o \in SaveOutcome, WorkerMark(w, o) PROVE TypeOK'
  <2>1. worker[w].job \in Job
    BY <1>7 DEF WorkerMark, WorkerShape
  <2>2. DiskTypes'
    <3>1. /\ [fileState[worker[w].job] EXCEPT ![worker[w].file] = "running"] \in Files
          /\ "running" \in JobState
      BY <2>1 DEF DiskTypes, JobState, Files, FileState
    <3> QED
      BY <1>7, <3>1, SaveType, FrameTypes DEF WorkerMark
  <2>3. worker' \in [Worker -> WorkerRecord]
    BY <1>7, <1>0, WorkerRecords, BackToScanType DEF WorkerMark, WorkerPc
  <2> QED
    BY <1>7, <2>2, <2>3, FrameTypes DEF WorkerMark
<1>8. ASSUME WorkerAcquire(w) PROVE TypeOK'
  <2>1. [worker[w] EXCEPT !.pc = "slot", !.slot = TRUE] \in WorkerRecord
    BY <1>0 DEF WorkerRecord, WorkerPc
  <2>2. CountTypes'
    BY <1>8 DEF WorkerAcquire, CountTypes
  <2> QED
    BY <1>8, <2>1, <2>2, FrameTypes DEF WorkerAcquire
<1>9. ASSUME WorkerWaitCanceled(w) PROVE TypeOK'
  <2>1. worker' \in [Worker -> WorkerRecord]
    BY <1>9, <1>0, WorkerRecords DEF WorkerWaitCanceled, WorkerPc
  <2> QED
    BY <1>9, <2>1, FrameTypes DEF WorkerWaitCanceled
<1>10. ASSUME NEW n \in {"converting", "recordCancel", "recordFailure"}, WorkerConvert(w, n)
       PROVE  TypeOK'
  <2>1. worker' \in [Worker -> WorkerRecord]
    BY <1>10, <1>0, WorkerRecords DEF WorkerConvert, WorkerPc
  <2> QED
    BY <1>10, <2>1, FrameTypes DEF WorkerConvert
<1>11. ASSUME NEW r \in {"completed", "failed", "canceled"}, WorkerConvertReturn(w, r)
       PROVE  TypeOK'
  <2>1. worker' \in [Worker -> WorkerRecord]
    <3>1. [worker[w] EXCEPT !.pc = "recordResult", !.result = r] \in WorkerRecord
      BY <1>0 DEF WorkerRecord, WorkerPc
    <3> QED
      BY <1>11, <3>1 DEF WorkerConvertReturn
  <2> QED
    BY <1>11, <2>1, FrameTypes DEF WorkerConvertReturn
<1>12. ASSUME NEW o \in SaveOutcome,
              WorkerRecordResult(w, o) \/ WorkerRecordCancel(w, o) \/ WorkerRecordFailure(w, o)
       PROVE  TypeOK'
  <2>1. worker[w].job \in Job
    BY <1>12 DEF WorkerRecordResult, WorkerRecordCancel, WorkerRecordFailure, WorkerShape
  <2>2. CASE WorkerRecordResult(w, o)
    <3>1. worker[w].result \in FileState
      BY <1>0, <2>2 DEF WorkerRecordResult, WorkerShape, WorkerRecord, FileState
    <3>2. ResultIsLate(w) \in BOOLEAN
      BY DEF ResultIsLate, JobTerminal
    <3> QED
      BY <2>1, <2>2, <3>1, <3>2, RecordTypes DEF WorkerRecordResult
  <2>3. CASE WorkerRecordCancel(w, o) \/ WorkerRecordFailure(w, o)
    BY <2>1, <2>3, RecordTypes DEF WorkerRecordCancel, WorkerRecordFailure, FileState
  <2> QED
    BY <1>12, <2>2, <2>3
<1>13. ASSUME NEW o \in SaveOutcome, WorkerFinalize(w, o) PROVE TypeOK'
  <2>1. worker[w].job \in Job
    BY <1>13 DEF WorkerFinalize, WorkerShape
  <2>2. SettleFiles(fileState[worker[w].job], "canceled") \in Files
    BY <2>1, SettleType DEF DiskTypes, FileState
  <2>3. FinalState(SettleFiles(fileState[worker[w].job], "canceled"), worker[w].stop) \in JobState
    BY DEF FinalState, JobState
  <2>4. DiskTypes'
    BY <1>13, <2>2, <2>3, SaveType, FrameTypes DEF WorkerFinalize
  <2>5. [worker[w] EXCEPT !.pc = "release", !.stop = FALSE] \in WorkerRecord
    BY <1>0 DEF WorkerRecord, WorkerPc
  <2> QED
    BY <1>13, <2>4, <2>5, FrameTypes DEF WorkerFinalize
<1>14. ASSUME WorkerRelease(w) PROVE TypeOK'
  <2>1. worker' \in [Worker -> WorkerRecord]
    BY <1>14, <1>0, WorkerRecords DEF WorkerRelease, WorkerPc
  <2>2. CountTypes'
    BY <1>14, LeaseType DEF WorkerRelease, CountTypes
  <2> QED
    BY <1>14, <2>1, <2>2, FrameTypes DEF WorkerRelease
<1>15. ASSUME WorkerDone(w) PROVE TypeOK'
  <2>1. worker[w].job \in Job
    BY <1>15 DEF WorkerDone, WorkerShape
  <2>2. worker' \in [Worker -> WorkerRecord]
    BY <1>15, WorkerRecords DEF WorkerDone, WorkerPc
  <2>3. ManagerTypes'
    BY <1>15, <2>1 DEF WorkerDone, ManagerTypes, processVars
  <2> QED
    BY <1>15, <2>2, <2>3, FrameTypes DEF WorkerDone
<1>16. ASSUME WorkerExit(w) PROVE TypeOK'
  <2>1. worker' \in [Worker -> WorkerRecord]
    BY <1>16, WorkerRecords DEF WorkerExit, WorkerPc
  <2> QED
    BY <1>16, <2>1, FrameTypes DEF WorkerExit
<1> QED
  BY <1>1, <1>2, <1>3, <1>4, <1>5, <1>6, <1>7, <1>8, <1>9, <1>10, <1>11, <1>12, <1>13,
     <1>14, <1>15, <1>16 DEF WorkerStep
\* Only a worker's own steps and the end of the process touch the workers.
LEMMA WorkerFrame ==
    ASSUME Next
    PROVE  (\E w \in Worker : WorkerStep(w)) \/ Exit \/ Crash \/ UNCHANGED worker
<1>1. ASSUME NEW j \in Job, AcceptStep(j) \/ Request(j) \/ DeleteStep(j) \/ Expire(j)
      PROVE  UNCHANGED worker
  BY <1>1 DEF AcceptStep, Request, DeleteStep, Expire, AcceptReserve, AcceptCreate, AcceptReceive,
     AcceptReject, AcceptSave, AcceptDiscard, AcceptRemoved,
     AcceptRemoveRaced, AcceptRemoveFails, AcceptRestore, DeleteLoad,
     AcceptReturn, InspectAcquire, InspectWaitExpired,
     InspectReturn, Start, Cancel, DeleteCancel, DeleteCheck, DeleteUnleased, DeleteGiveUp,
     DeleteCommit, RemoveFile, ReaderLease
<1>2. ASSUME \/ \E r \in Reader : ReaderStep(r)
             \/ CleanupStep \/ StopIntake \/ Shutdown \/ Drain \/ Restart \/ Recovery \/ Ended
      PROVE  UNCHANGED worker
  BY <1>2 DEF ReaderStep, ReaderOpen, ReaderRelease, CleanupStep, CleanupList, CleanupJob,
     StopIntake, Shutdown, Drain, Restart, Recovery, RecoverJob, RecoverDone, Ended, vars
<1> QED
  BY <1>1, <1>2 DEF Next

\* Only an Accept call and the end of the process touch the uploads.
LEMMA UploadFrame ==
    ASSUME Next
    PROVE  \/ \E j \in Job : AcceptStep(j) \/ AcceptReserve(j)
           \/ Exit \/ Crash \/ UNCHANGED upload
<1>1. ASSUME NEW j \in Job, Request(j) \/ DeleteStep(j) \/ Expire(j)
      PROVE  AcceptReserve(j) \/ UNCHANGED upload
  BY <1>1 DEF Request, DeleteStep, Expire, Start, Cancel, DeleteCancel, DeleteCheck, DeleteUnleased,
     DeleteGiveUp, DeleteCommit, RemoveFile, ReaderLease
<1>2. ASSUME NEW w \in Worker, WorkerStep(w) PROVE UNCHANGED upload
  BY <1>2 DEF WorkerStep, WorkerReceive, WorkerRegister, WorkerLease, WorkerBegin, WorkerNextFile,
     WorkerEndFiles, WorkerMark, WorkerAcquire, WorkerWaitCanceled, WorkerConvert,
     WorkerConvertReturn, WorkerRecordResult, WorkerRecordCancel, WorkerRecordFailure, RecordFile,
     WorkerFinalize, WorkerRelease, WorkerDone, WorkerExit
<1>3. ASSUME \/ \E r \in Reader : ReaderStep(r)
             \/ CleanupStep \/ StopIntake \/ Shutdown \/ Drain \/ Restart \/ Recovery \/ Ended
      PROVE  UNCHANGED upload
  BY <1>3 DEF ReaderStep, ReaderOpen, ReaderRelease, CleanupStep, CleanupList, CleanupJob,
     StopIntake, Shutdown, Drain, Restart, Recovery, RecoverJob, RecoverDone, Ended, vars
<1> QED
  BY <1>1, <1>2, <1>3 DEF Next

\* The locals stay in scope along every step.
LEMMA ShapeStep ==
    ASSUME TypeOK, WorkerShape, Next
    PROVE  WorkerShape'
<1> USE DEF WorkerShape
<1>1. ASSUME NEW w \in Worker, WorkerStep(w) PROVE WorkerShape'
  <2> USE DEF TypeOK
  <2>1. CASE WorkerReceive(w)
    <3>1. Head(queue) \in Job
      BY <2>1 DEF WorkerReceive, ManagerTypes
    <3> QED
      BY <2>1, <3>1 DEF WorkerReceive, WorkerAt, FilePc
  <2>2. CASE WorkerRegister(w) \/ WorkerLease(w) \/ WorkerEndFiles(w) \/ WorkerRelease(w)
    BY <2>2 DEF WorkerRegister, WorkerLease, WorkerEndFiles, WorkerRelease, FilePc, WorkerRecord
  <2>3. CASE WorkerDone(w) \/ WorkerExit(w)
    BY <2>3 DEF WorkerDone, WorkerExit, WorkerAt, FilePc
  <2>4. CASE \E o \in SaveOutcome : WorkerBegin(w, o) \/ WorkerFinalize(w, o)
    BY <2>4 DEF WorkerBegin, WorkerFinalize, FilePc, WorkerRecord
  <2>5. CASE \E f \in File : WorkerNextFile(w, f)
    BY <2>5 DEF WorkerNextFile, FilePc, WorkerRecord
  <2>6. CASE \E o \in SaveOutcome : WorkerMark(w, o)
    BY <2>6 DEF WorkerMark, BackToScan, FilePc, WorkerRecord
  <2>7. CASE WorkerAcquire(w) \/ WorkerWaitCanceled(w)
    BY <2>7 DEF WorkerAcquire, WorkerWaitCanceled, FilePc, WorkerRecord
  <2>8. CASE \E n \in {"converting", "recordCancel", "recordFailure"} : WorkerConvert(w, n)
    BY <2>8 DEF WorkerConvert, FilePc, WorkerRecord
  <2>9. CASE \E r \in {"completed", "failed", "canceled"} : WorkerConvertReturn(w, r)
    BY <2>9 DEF WorkerConvertReturn, FilePc, WorkerRecord
  <2>10. CASE \E o \in SaveOutcome : \/ WorkerRecordResult(w, o) \/ WorkerRecordCancel(w, o)
                                   \/ WorkerRecordFailure(w, o)
    <3>1. worker' = BackToScan(w) /\ worker[w].job \in Job
      BY <2>10 DEF WorkerRecordResult, WorkerRecordCancel, WorkerRecordFailure, RecordFile
    <3> QED
      BY <3>1 DEF BackToScan, FilePc, WorkerRecord
  <2> QED
    BY <1>1, <2>1, <2>2, <2>3, <2>4, <2>5, <2>6, <2>7, <2>8, <2>9, <2>10 DEF WorkerStep
<1>2. ASSUME Exit \/ Crash PROVE WorkerShape'
  BY <1>2 DEF Exit, Crash, ProcessEnds, WorkerAt, FilePc
<1> QED
  BY <1>1, <1>2, WorkerFrame

\* Accept remembers a manifest only when it has loaded one.
LEMMA SeenStep ==
    ASSUME TypeOK, SeenIsStored, Next
    PROVE  SeenIsStored'
<1> USE DEF SeenIsStored
<1>0. upload \in [Job -> UploadRecord]
  BY DEF TypeOK
<1>1. ASSUME NEW j \in Job, NEW pc \in UploadPc \ {"withdrawing", "restoring"},
             upload' = [upload EXCEPT ![j] = UploadAt(pc)]
      PROVE  SeenIsStored'
  BY <1>0, <1>1 DEF UploadAt
<1>2. ASSUME NEW j \in Job, AcceptStep(j) \/ AcceptReserve(j) PROVE SeenIsStored'
  <2>1. CASE AcceptReserve(j) \/ AcceptReturn(j) \/ AcceptRemoved(j)
    BY <1>1, <2>1 DEF AcceptReserve, AcceptReturn, AcceptRemoved, UploadPc
  <2>2. CASE \E o \in SaveOutcome : AcceptCreate(j, o)
    BY <1>1, <2>2 DEF AcceptCreate, UploadPc
  <2>3. CASE \E o \in SaveOutcome : AcceptSave(j, o)
    BY <1>1, <2>3 DEF AcceptSave, UploadPc, SaveOutcome
  <2>4. CASE \E o \in SaveOutcome : AcceptRestore(j, o)
    BY <1>1, <2>4 DEF AcceptRestore, UploadPc
  <2>5. CASE AcceptReject(j) \/ AcceptDiscard(j)
    BY <1>0, <2>5 DEF AcceptReject, AcceptDiscard, DeleteLoad, Exists
  <2>6. CASE AcceptRemoveRaced(j) \/ \E unlinked \in BOOLEAN : AcceptRemoveFails(j, unlinked)
    BY <1>0, <2>6 DEF AcceptRemoveRaced, AcceptRemoveFails, AfterFailedRemoval, UploadAt,
                      UploadRecord
  <2>7. CASE \/ \E n \in File : AcceptReceive(j, n)
             \/ \E f \in File : \/ InspectAcquire(j, f) \/ InspectWaitExpired(j, f)
                                \/ \E s \in {"inspected", "failed"} : InspectReturn(j, f, s)
    BY <1>0, <2>7 DEF AcceptReceive, InspectAcquire, InspectWaitExpired, InspectReturn, UploadRecord
  <2> QED
    BY <1>2, <2>1, <2>2, <2>3, <2>4, <2>5, <2>6, <2>7 DEF AcceptStep
<1>3. ASSUME Exit \/ Crash PROVE SeenIsStored'
  BY <1>3 DEF Exit, Crash, ProcessEnds, UploadAt
<1> QED
  BY <1>2, <1>3, UploadFrame

\* Init starts in the types.
LEMMA TypeInit == Init => TypeOK /\ WorkerShape /\ SeenIsStored
<1> SUFFICES ASSUME Init PROVE TypeOK /\ WorkerShape /\ SeenIsStored
  OBVIOUS
<1> USE BoundsAssumption DEF Init
<1>1. DiskTypes
  BY DEF DiskTypes, NoManifest, NoFiles, Files
<1>2. ManagerTypes
  <2>1. queue \in Seq(Job)
    OBVIOUS
  <2>2. accepting \in BOOLEAN /\ stopped \in BOOLEAN /\ drained \in BOOLEAN
    OBVIOUS
  <2>3. starts \in 1 .. MaxStarts
    OBVIOUS
  <2> QED
    BY <2>1, <2>2, <2>3 DEF ManagerTypes
<1>3. CountTypes /\ ClientTypes
  BY DEF CountTypes, ClientTypes, ReaderRecord, IdleReader
<1>4. worker \in [Worker -> WorkerRecord]
  BY WorkerRecords DEF WorkerPc
<1>5. upload \in [Job -> UploadRecord]
  BY UploadTypes DEF UploadPc
<1>6. WorkerShape
  BY DEF WorkerShape, WorkerAt, FilePc
<1>7. SeenIsStored
  BY DEF SeenIsStored, UploadAt
<1> QED
  BY <1>1, <1>2, <1>3, <1>4, <1>5, <1>6, <1>7 DEF TypeOK

\* A step, or a stutter, keeps the types.
LEMMA TypeStep ==
    TypeOK /\ WorkerShape /\ SeenIsStored /\ [Next]_vars
      => TypeOK' /\ WorkerShape' /\ SeenIsStored'
<1> SUFFICES ASSUME TypeOK, WorkerShape, SeenIsStored, [Next]_vars
             PROVE  TypeOK' /\ WorkerShape' /\ SeenIsStored'
  OBVIOUS
<1>1. CASE Next
  <2>1. ASSUME Ended PROVE TypeOK'
    BY <2>1 DEF Ended, vars, TypeOK, DiskTypes, ManagerTypes, CountTypes, ClientTypes
  <2>2. TypeOK'
    BY <1>1, <2>1, AcceptTypes, RequestTypes, ServiceTypes, WorkerTypes DEF Next, CleanupStep
  <2> QED
    BY <1>1, <2>2, ShapeStep, SeenStep
<1>2. CASE UNCHANGED vars
  <2>1. TypeOK' /\ WorkerShape'
    BY <1>2 DEF vars, TypeOK, WorkerShape, DiskTypes, ManagerTypes, CountTypes, ClientTypes
  <2>2. SeenIsStored'
    BY <1>2 DEF vars, SeenIsStored
  <2> QED
    BY <2>1, <2>2
<1> QED
  BY <1>1, <1>2

\* Every variable keeps the type of the Go value it stands for, for any number
\* of jobs, workers, readers, files, starts and failed writes.
THEOREM TypeInvariance == Spec => []TypeOK
BY TypeInit, TypeStep, PTL DEF Spec

-----------------------------------------------------------------------------
(* Counting *)

\* An actor that joins a finite set makes it one larger.
LEMMA CountGains ==
    ASSUME NEW S, IsFiniteSet(S), NEW x, x \notin S
    PROVE  /\ IsFiniteSet(S \cup {x}) /\ Cardinality(S) \in Nat
           /\ Cardinality(S \cup {x}) = Cardinality(S) + 1
  BY FS_AddElement, FS_CardinalityType

\* An actor that leaves a finite set makes it one smaller, and it was not empty.
LEMMA CountLoses ==
    ASSUME NEW S, IsFiniteSet(S), NEW x, x \in S
    PROVE  /\ IsFiniteSet(S \ {x}) /\ Cardinality(S) \in Nat /\ Cardinality(S) >= 1
           /\ Cardinality(S \ {x}) = Cardinality(S) - 1
<1>1. Cardinality(S) \in Nat /\ Cardinality(S) # 0
  BY FS_CardinalityType, FS_EmptySet
<1> QED
  BY <1>1, FS_RemoveElement

-----------------------------------------------------------------------------
(* Leases *)

UploadHolds(j) == upload[j].pc \notin {"none", "reserved", "returned"}

\* Workers, downloads and the Accept call hold a lease under different names.
LEMMA HoldersAre ==
    ASSUME TypeOK, NEW j \in Job
    PROVE  /\ IsFiniteSet(Holders(j))
           /\ \A w \in Worker :
                w \in Holders(j) <=> worker[w].job = j /\ worker[w].pc \in LeasedPc
           /\ \A r \in Reader : r \in Holders(j) <=> reader[r].job = j /\ reader[r].pc # "idle"
           /\ j \in Holders(j) <=> UploadHolds(j)
           /\ Holders(j) \subseteq Worker \cup Reader \cup {j}
<1>1. IsFiniteSet(Worker \cup Reader \cup {j})
  BY ActorsAssumption, FS_Union, FS_Singleton
<1>2. Holders(j) \subseteq Worker \cup Reader \cup {j}
  BY DEF Holders
<1>3. IsFiniteSet(Holders(j))
  BY <1>1, <1>2, FS_Subset
<1> QED
  BY <1>2, <1>3, ActorsAssumption DEF Holders, UploadHolds

\* Two sets of holders agree when every possible holder agrees.
LEMMA SameHolders ==
    ASSUME TypeOK, TypeOK', NEW j \in Job,
           \A w \in Worker :
              worker[w].job = j /\ worker[w].pc \in LeasedPc
                 <=> worker'[w].job = j /\ worker'[w].pc \in LeasedPc,
           \A r \in Reader :
              reader[r].job = j /\ reader[r].pc # "idle"
                 <=> reader'[r].job = j /\ reader'[r].pc # "idle",
           UploadHolds(j) <=> UploadHolds(j)'
    PROVE  Holders(j)' = Holders(j)
  BY DEF Holders, UploadHolds

\* What it takes to be a holder, before and after a step.
LEMMA HolderIs ==
    ASSUME NEW j \in Job, NEW x
    PROVE  /\ x \in Holders(j) <=>
                \/ x \in Worker /\ worker[x].job = j /\ worker[x].pc \in LeasedPc
                \/ x \in Reader /\ reader[x].job = j /\ reader[x].pc # "idle"
                \/ x = j /\ UploadHolds(j)
           /\ x \in Holders(j)' <=>
                \/ x \in Worker /\ worker'[x].job = j /\ worker'[x].pc \in LeasedPc
                \/ x \in Reader /\ reader'[x].job = j /\ reader'[x].pc # "idle"
                \/ x = j /\ UploadHolds(j)'
  BY DEF Holders, UploadHolds

\* A lease is taken by one more holder.
LEMMA LeaseTaken ==
    ASSUME TypeOK, LeasesAreCounted, NEW j \in Job, NEW x, x \notin Holders(j),
           Holders(j)' = Holders(j) \cup {x},
           leases' = [leases EXCEPT ![j] = @ + 1],
           \A k \in Job \ {j} : Holders(k)' = Holders(k)
    PROVE  LeasesAreCounted'
<1>1. Cardinality(Holders(j)') = Cardinality(Holders(j)) + 1
  BY HoldersAre, CountGains
<1>2. leases'[j] = leases[j] + 1 /\ \A k \in Job \ {j} : leases'[k] = leases[k]
  BY DEF TypeOK, CountTypes
<1> QED
  BY <1>1, <1>2 DEF LeasesAreCounted

\* A holder releases its lease, and the count was not yet zero.
LEMMA LeaseReleased ==
    ASSUME TypeOK, LeasesAreCounted, NEW j \in Job, NEW x, x \in Holders(j),
           Holders(j)' = Holders(j) \ {x},
           leases' = LeasesAfterRelease(j),
           \A k \in Job \ {j} : Holders(k)' = Holders(k)
    PROVE  LeasesAreCounted'
<1>1. /\ Cardinality(Holders(j)') = Cardinality(Holders(j)) - 1
      /\ Cardinality(Holders(j)) \in Nat /\ Cardinality(Holders(j)) >= 1
  BY HoldersAre, CountLoses
<1>2. leases[j] = Cardinality(Holders(j))
  BY DEF LeasesAreCounted
<1>3. leases'[j] = leases[j] - 1 /\ \A k \in Job \ {j} : leases'[k] = leases[k]
  BY <1>1, <1>2 DEF TypeOK, CountTypes, LeasesAfterRelease
<1> QED
  BY <1>1, <1>2, <1>3 DEF LeasesAreCounted

-----------------------------------------------------------------------------
(* What a step does to the counters and to the actors they count *)

\* An Accept call moves at most its own lease and its own process slot.
LEMMA AcceptCounts ==
    ASSUME TypeOK, NEW j \in Job, AcceptStep(j) \/ AcceptReserve(j)
    PROVE  /\ \A k \in Job \ {j} : upload'[k] = upload[k]
           /\ UNCHANGED <<worker, clientVars, managerVars>>
           /\ \/ UNCHANGED leases /\ (UploadHolds(j)' <=> UploadHolds(j))
              \/ ~UploadHolds(j) /\ UploadHolds(j)' /\ leases' = [leases EXCEPT ![j] = @ + 1]
              \/ UploadHolds(j) /\ ~UploadHolds(j)' /\ leases' = LeasesAfterRelease(j)
           /\ \/ UNCHANGED semaphore /\ (upload[j].pc = "probing" <=> upload'[j].pc = "probing")
              \/ /\ upload[j].pc # "probing" /\ upload'[j].pc = "probing"
                 /\ semaphore < Capacity /\ semaphore' = semaphore + 1
              \/ /\ upload[j].pc = "probing" /\ upload'[j].pc # "probing"
                 /\ semaphore' = semaphore - 1
<1> USE DEF TypeOK, UploadHolds, UploadRecord
<1>1. CASE AcceptReserve(j)
  BY <1>1 DEF AcceptReserve, UploadAt, countVars
<1>2. CASE \E o \in SaveOutcome : AcceptCreate(j, o)
  BY <1>2 DEF AcceptCreate, UploadAt
<1>3. CASE \E n \in File : AcceptReceive(j, n)
  BY <1>3 DEF AcceptReceive, countVars
<1>4. CASE AcceptReject(j) \/ AcceptDiscard(j)
  BY <1>4 DEF AcceptReject, AcceptDiscard, DeleteLoad, countVars
<1>5. CASE \E o \in SaveOutcome : AcceptSave(j, o)
  BY <1>5 DEF AcceptSave, UploadAt, countVars, SaveOutcome
<1>6. CASE AcceptReturn(j)
  BY <1>6 DEF AcceptReturn, UploadAt
<1>7. CASE \E f \in File : InspectAcquire(j, f)
  BY <1>7 DEF InspectAcquire
<1>8. CASE \E f \in File : InspectWaitExpired(j, f)
  BY <1>8 DEF InspectWaitExpired, countVars
<1>9. CASE \E f \in File, s \in {"inspected", "failed"} : InspectReturn(j, f, s)
  BY <1>9 DEF InspectReturn
<1>10. CASE AcceptRemoved(j) \/ \E o \in SaveOutcome : AcceptRestore(j, o)
  BY <1>10 DEF AcceptRemoved, AcceptRestore, UploadAt, countVars
<1>11. CASE AcceptRemoveRaced(j) \/ \E unlinked \in BOOLEAN : AcceptRemoveFails(j, unlinked)
  BY <1>11 DEF AcceptRemoveRaced, AcceptRemoveFails, AfterFailedRemoval, UploadAt, countVars
<1> QED
  BY <1>1, <1>2, <1>3, <1>4, <1>5, <1>6, <1>7, <1>8, <1>9, <1>10, <1>11 DEF AcceptStep

\* The steps of process between its lease and the release of it.
WorkerWorks(w) ==
    \/ \E f \in File : WorkerNextFile(w, f)
    \/ WorkerEndFiles(w) \/ WorkerAcquire(w) \/ WorkerWaitCanceled(w)
    \/ \E n \in {"converting", "recordCancel", "recordFailure"} : WorkerConvert(w, n)
    \/ \E r \in {"completed", "failed", "canceled"} : WorkerConvertReturn(w, r)
    \/ \E o \in SaveOutcome :
         \/ WorkerBegin(w, o) \/ WorkerMark(w, o) \/ WorkerRecordResult(w, o)
         \/ WorkerRecordCancel(w, o) \/ WorkerRecordFailure(w, o) \/ WorkerFinalize(w, o)

\* Where the deferred release of the process slot may be pending.
SlotPc == {"slot", "converting", "recordResult", "recordCancel", "recordFailure"}

\* A worker holds a process slot only inside convertFile.
SlotsAreScoped == \A w \in Worker : worker[w].slot => worker[w].pc \in SlotPc

\* Those steps keep the job, its lease and its control; the process slot is
\* taken by the select and given back by convertFile.
LEMMA WorkCounts ==
    ASSUME TypeOK, NEW w \in Worker, WorkerWorks(w)
    PROVE  /\ \A u \in Worker \ {w} : worker'[u] = worker[u]
           /\ UNCHANGED <<upload, clientVars, managerVars, leases>>
           /\ worker[w].pc \in LeasedPc /\ worker'[w].pc \in LeasedPc
           /\ worker'[w].job = worker[w].job /\ worker'[w].ctl = worker[w].ctl
           /\ (worker[w].slot => worker[w].pc \in SlotPc) =>
                /\ worker'[w].slot => worker'[w].pc \in SlotPc
                /\ \/ UNCHANGED semaphore /\ worker'[w].slot = worker[w].slot
                   \/ ~worker[w].slot /\ worker'[w].slot
                      /\ semaphore < Capacity /\ semaphore' = semaphore + 1
                   \/ worker[w].slot /\ ~worker'[w].slot /\ semaphore' = semaphore - 1
<1> USE DEF TypeOK, WorkerRecord, LeasedPc, SlotPc
<1>1. CASE \E f \in File : WorkerNextFile(w, f)
  BY <1>1 DEF WorkerNextFile, countVars
<1>2. CASE WorkerEndFiles(w)
  BY <1>2 DEF WorkerEndFiles, countVars
<1>3. CASE WorkerAcquire(w)
  BY <1>3 DEF WorkerAcquire
<1>4. CASE WorkerWaitCanceled(w)
  BY <1>4 DEF WorkerWaitCanceled, countVars
<1>5. CASE \E n \in {"converting", "recordCancel", "recordFailure"} : WorkerConvert(w, n)
  BY <1>5 DEF WorkerConvert, countVars
<1>6. CASE \E r \in {"completed", "failed", "canceled"} : WorkerConvertReturn(w, r)
  BY <1>6 DEF WorkerConvertReturn, countVars
<1>7. CASE \E o \in SaveOutcome : WorkerBegin(w, o)
  BY <1>7 DEF WorkerBegin, countVars
<1>8. CASE \E o \in SaveOutcome : WorkerMark(w, o)
  BY <1>8 DEF WorkerMark, BackToScan, countVars
<1>9. CASE \E o \in SaveOutcome : \/ WorkerRecordResult(w, o) \/ WorkerRecordCancel(w, o)
                                  \/ WorkerRecordFailure(w, o)
  <2>1. /\ worker[w].pc \in {"recordResult", "recordCancel", "recordFailure"}
        /\ worker' = BackToScan(w) /\ semaphore' = SlotReleased(w)
        /\ UNCHANGED <<managerVars, leases, upload, clientVars>>
    BY <1>9 DEF WorkerRecordResult, WorkerRecordCancel, WorkerRecordFailure, RecordFile
  <2> QED
    BY <2>1 DEF BackToScan, SlotReleased
<1>10. CASE \E o \in SaveOutcome : WorkerFinalize(w, o)
  BY <1>10 DEF WorkerFinalize, countVars
<1> QED
  BY <1>1, <1>2, <1>3, <1>4, <1>5, <1>6, <1>7, <1>8, <1>9, <1>10 DEF WorkerWorks

\* The life of a worker: it pops, registers, leases, works, releases, is done.
LEMMA WorkerCases ==
    ASSUME NEW w, WorkerStep(w)
    PROVE  \/ WorkerReceive(w) \/ WorkerRegister(w) \/ WorkerLease(w) \/ WorkerWorks(w)
           \/ WorkerRelease(w) \/ WorkerDone(w) \/ WorkerExit(w)
  BY DEF WorkerStep, WorkerWorks

\* Everything else but Start, the downloads and the end of the process leaves
\* the counters and what they count alone.
LEMMA OtherCounts ==
    ASSUME Next
    PROVE  \/ \E j \in Job : AcceptStep(j) \/ AcceptReserve(j)
           \/ \E j \in Job, o \in SaveOutcome : Start(j, o)
           \/ \E r \in Reader, j \in Job : ReaderLease(r, j)
           \/ \E r \in Reader : ReaderStep(r)
           \/ \E w \in Worker : WorkerStep(w)
           \/ Exit \/ Crash
           \/ UNCHANGED <<worker, upload, reader, countVars, queueVars>>
<1>1. ASSUME NEW j \in Job,
             \/ \E o \in SaveOutcome : Cancel(j, o)
             \/ DeleteCancel(j) \/ DeleteStep(j) \/ Expire(j) \/ CleanupJob(j)
             \/ \E f \in File, o \in SaveOutcome : RemoveFile(j, f, o)
      PROVE  UNCHANGED <<worker, upload, reader, countVars, queueVars>>
  BY <1>1 DEF Cancel, DeleteCancel, DeleteStep, DeleteCheck, DeleteUnleased, DeleteGiveUp,
     DeleteCommit, Expire, CleanupJob, RemoveFile, managerVars, clientVars
<1>2. ASSUME CleanupList \/ StopIntake \/ Shutdown \/ Drain \/ Restart \/ Recovery \/ Ended
      PROVE  UNCHANGED <<worker, upload, reader, countVars, queueVars>>
  BY <1>2 DEF CleanupList, StopIntake, Shutdown, Drain, Restart, Recovery, RecoverJob, RecoverDone,
     Ended, vars, managerVars, clientVars, countVars, queueVars
<1> QED
  BY <1>1, <1>2 DEF Next, Request, CleanupStep

-----------------------------------------------------------------------------
(* The lease table *)

\* Every step moves the count of a job with its holders.
LEMMA LeaseStep ==
    ASSUME TypeOK, TypeOK', WorkerShape, LeasesAreCounted, Next
    PROVE  LeasesAreCounted'
<1> USE DEF TypeOK
<1>1. ASSUME NEW j \in Job, AcceptStep(j) \/ AcceptReserve(j) PROVE LeasesAreCounted'
  <2>1. /\ UNCHANGED <<worker, reader>>
        /\ \A k \in Job \ {j} : UploadHolds(k)' <=> UploadHolds(k)
    BY <1>1, AcceptCounts DEF clientVars, UploadHolds
  <2>2. \A k \in Job \ {j} : Holders(k)' = Holders(k)
    BY <2>1, SameHolders
  <2>3. CASE UNCHANGED leases /\ (UploadHolds(j)' <=> UploadHolds(j))
    BY <2>1, <2>2, <2>3, SameHolders DEF LeasesAreCounted
  <2>4. CASE ~UploadHolds(j) /\ UploadHolds(j)' /\ leases' = [leases EXCEPT ![j] = @ + 1]
    <3>1. j \notin Holders(j) /\ Holders(j)' = Holders(j) \cup {j}
      BY <2>1, <2>4, HolderIs, ActorsAssumption
    <3> QED
      BY <2>2, <2>4, <3>1, LeaseTaken
  <2>5. CASE UploadHolds(j) /\ ~UploadHolds(j)' /\ leases' = LeasesAfterRelease(j)
    <3>1. j \in Holders(j) /\ Holders(j)' = Holders(j) \ {j}
      BY <2>1, <2>5, HolderIs, ActorsAssumption
    <3> QED
      BY <2>2, <2>5, <3>1, LeaseReleased
  <2> QED
    BY <1>1, <2>3, <2>4, <2>5, AcceptCounts
<1>2. ASSUME NEW r \in Reader, NEW j \in Job, ReaderLease(r, j) PROVE LeasesAreCounted'
  <2>1. /\ UNCHANGED <<worker, upload>> /\ leases' = [leases EXCEPT ![j] = @ + 1]
        /\ reader[r].pc = "idle" /\ reader'[r].pc # "idle" /\ reader'[r].job = j
        /\ \A s \in Reader \ {r} : reader'[s] = reader[s]
    BY <1>2 DEF ReaderLease, ClientTypes
  <2>2. \A k \in Job \ {j} : Holders(k)' = Holders(k)
    BY <2>1, SameHolders DEF UploadHolds
  <2>3. r \notin Holders(j) /\ Holders(j)' = Holders(j) \cup {r}
    BY <2>1, HolderIs, ActorsAssumption DEF UploadHolds
  <2> QED
    BY <2>1, <2>2, <2>3, LeaseTaken
<1>3. ASSUME NEW r \in Reader, ReaderStep(r) PROVE LeasesAreCounted'
  <2>1. CASE ReaderOpen(r)
    <3>1. /\ UNCHANGED <<worker, upload, leases>>
          /\ reader[r].pc # "idle" /\ reader'[r].pc # "idle" /\ reader'[r].job = reader[r].job
          /\ \A s \in Reader \ {r} : reader'[s] = reader[s]
      BY <2>1 DEF ReaderOpen, ClientTypes, ReaderRecord, countVars
    <3> QED
      BY <3>1, SameHolders DEF LeasesAreCounted, UploadHolds
  <2>2. CASE ReaderRelease(r) /\ reader[r].job \in Job
    <3>0. PICK j \in Job : j = reader[r].job
      BY <2>2
    <3>1. /\ UNCHANGED <<worker, upload>> /\ leases' = LeasesAfterRelease(j)
          /\ reader[r].pc # "idle" /\ reader'[r].pc = "idle"
          /\ \A s \in Reader \ {r} : reader'[s] = reader[s]
      BY <2>2, <3>0 DEF ReaderRelease, ClientTypes, IdleReader
    <3>2. \A k \in Job \ {j} : Holders(k)' = Holders(k)
      BY <3>0, <3>1, SameHolders DEF UploadHolds
    <3>3. r \in Holders(j) /\ Holders(j)' = Holders(j) \ {r}
      BY <3>0, <3>1, HolderIs, ActorsAssumption DEF UploadHolds
    <3> QED
      BY <3>1, <3>2, <3>3, LeaseReleased
  <2>3. CASE ReaderRelease(r) /\ reader[r].job \notin Job
    <3>1. /\ UNCHANGED <<worker, upload, leases>>
          /\ \A k \in Job, s \in Reader : reader'[s].job = k /\ reader'[s].pc # "idle"
                <=> reader[s].job = k /\ reader[s].pc # "idle"
      BY <2>3 DEF ReaderRelease, ClientTypes, IdleReader, LeasesAfterRelease, CountTypes
    <3> QED
      BY <3>1, SameHolders DEF LeasesAreCounted, UploadHolds
  <2> QED
    BY <1>3, <2>1, <2>2, <2>3 DEF ReaderStep
<1>4. ASSUME NEW w \in Worker, WorkerStep(w)
      PROVE  LeasesAreCounted'
  <2>1. CASE WorkerWorks(w)
    <3>1. /\ UNCHANGED <<reader, upload, leases>>
          /\ \A k \in Job, u \in Worker :
               worker[u].job = k /\ worker[u].pc \in LeasedPc
                  <=> worker'[u].job = k /\ worker'[u].pc \in LeasedPc
      BY <2>1, WorkCounts DEF clientVars
    <3> QED
      BY <3>1, SameHolders DEF LeasesAreCounted, UploadHolds
  <2>2. CASE \/ WorkerReceive(w) \/ WorkerRegister(w) \/ WorkerDone(w) \/ WorkerExit(w)
             \/ WorkerLease(w) /\ ~Exists(worker[w].job)
    <3>1. /\ UNCHANGED <<reader, upload, leases>>
          /\ worker[w].pc \notin LeasedPc /\ worker'[w].pc \notin LeasedPc
          /\ \A u \in Worker \ {w} : worker'[u] = worker[u]
      BY <2>2 DEF WorkerReceive, WorkerRegister, WorkerDone, WorkerExit, WorkerLease, WorkerAt,
                  LeasedPc, clientVars, countVars, WorkerRecord
    <3> QED
      BY <3>1, SameHolders DEF LeasesAreCounted, UploadHolds
  <2>3. CASE WorkerLease(w) /\ Exists(worker[w].job)
    <3>0. PICK j \in Job : j = worker[w].job
      BY <2>3 DEF WorkerLease, WorkerShape
    <3>1. /\ UNCHANGED <<reader, upload>> /\ leases' = [leases EXCEPT ![j] = @ + 1]
          /\ worker[w].pc \notin LeasedPc /\ worker'[w].pc \in LeasedPc /\ worker'[w].job = j
          /\ \A u \in Worker \ {w} : worker'[u] = worker[u]
      BY <2>3, <3>0 DEF WorkerLease, LeasedPc, clientVars, WorkerRecord
    <3>2. \A k \in Job \ {j} : Holders(k)' = Holders(k)
      BY <3>0, <3>1, SameHolders DEF UploadHolds
    <3>3. w \notin Holders(j) /\ Holders(j)' = Holders(j) \cup {w}
      BY <3>0, <3>1, HolderIs, ActorsAssumption DEF UploadHolds
    <3> QED
      BY <3>1, <3>2, <3>3, LeaseTaken
  <2>4. CASE WorkerRelease(w)
    <3>0. PICK j \in Job : j = worker[w].job
      BY <2>4 DEF WorkerRelease, WorkerShape
    <3>1. /\ UNCHANGED <<reader, upload>> /\ leases' = LeasesAfterRelease(j)
          /\ worker[w].pc \in LeasedPc /\ worker'[w].pc \notin LeasedPc
          /\ \A u \in Worker \ {w} : worker'[u] = worker[u]
      BY <2>4, <3>0 DEF WorkerRelease, LeasedPc, clientVars, WorkerRecord
    <3>2. \A k \in Job \ {j} : Holders(k)' = Holders(k)
      BY <3>0, <3>1, SameHolders DEF UploadHolds
    <3>3. w \in Holders(j) /\ Holders(j)' = Holders(j) \ {w}
      BY <3>0, <3>1, HolderIs, ActorsAssumption DEF UploadHolds
    <3> QED
      BY <3>1, <3>2, <3>3, LeaseReleased
  <2> QED
    BY <1>4, <2>1, <2>2, <2>3, <2>4, WorkerCases
<1>5. ASSUME Exit \/ Crash PROVE LeasesAreCounted'
  <2>1. ProcessEnds
    BY <1>5 DEF Exit, Crash
  <2>2. \A j \in Job : Holders(j)' = {} /\ leases'[j] = 0
    BY <2>1 DEF ProcessEnds, Holders, WorkerAt, UploadAt, IdleReader, LeasedPc
  <2> QED
    BY <2>2, FS_EmptySet DEF LeasesAreCounted
<1>6. ASSUME \/ \E j \in Job, o \in SaveOutcome : Start(j, o)
             \/ UNCHANGED <<worker, upload, reader, countVars, queueVars>>
      PROVE  LeasesAreCounted'
  <2>1. UNCHANGED <<worker, upload, reader, leases>>
    BY <1>6 DEF Start, countVars, clientVars
  <2> QED
    BY <2>1, SameHolders DEF LeasesAreCounted, UploadHolds
<1> QED
  BY <1>1, <1>2, <1>3, <1>4, <1>5, <1>6, OtherCounts

-----------------------------------------------------------------------------
(* The inductive invariant behind the lifecycle *)

IntakePc == {"reserved", "receiving", "inspecting", "probing",
             "unsaved", "withdrawing", "restoring"}

\* The files an upload goes through while receive and inspect fill it; a received
\* upload has a first file.
UploadFilesAreProbed ==
    /\ \A j \in Job, f \in File :
          upload[j].files[f] \in {"absent", "uploaded", "inspected", "failed"}
    /\ \A j \in Job : upload[j].pc \in {"inspecting", "probing"} =>
          upload[j].files[1] # "absent"

\* Until the final update of Accept the manifest lists nothing, and so it is when
\* the upload is rejected: no request can start the job; only Cancel, Delete and
\* Accept itself touch it.
IntakeIsPrivate ==
    /\ phase # "serving" => \A j \in Job : upload[j].pc = "none"
    /\ \A j \in Job : upload[j].pc = "reserved" => jobState[j] = "unused"
    /\ \A j \in Job : upload[j].pc \in IntakePc \ {"reserved"} =>
          jobState[j] \in {"pending", "canceled", "deleted"} /\ fileState[j] = NoFiles
    /\ \A j \in Job : upload[j].pc \in {"withdrawing", "restoring"} =>
          upload[j].seenState \in {"pending", "canceled"}

\* An update that reached the disk and failed afterwards has listed files, and
\* while Accept holds its lease nobody unlists them but a deletion.
UnsyncedIsListed ==
    \A j \in Job : upload[j].pc = "unsynced" => jobState[j] = "deleted" \/ fileState[j] # NoFiles

Schedulable(j) == jobState[j] # "unused" /\ upload[j].pc \notin IntakePc

\* A job in the queue or with a worker has left intake.
ScheduledIsListed ==
    /\ \A i \in 1 .. Len(queue) : Schedulable(queue[i])
    /\ \A w \in Worker : worker[w].pc \notin {"idle", "exited"} => Schedulable(worker[w].job)

Begun == {"running", "completed", "failed", "canceled", "interrupted", "deleted"}
FileBegun == {"running", "completed", "failed", "canceled", "interrupted"}

\* A worker past its first update works on a job that is running or settled, and
\* a file it marked is running or settled.
WorkIsBegun ==
    \A w \in Worker :
        LET j == worker[w].job
        IN  /\ worker[w].pc \in FilePc \cup {"scan", "finalize"} => jobState[j] \in Begun
            /\ worker[w].pc \in FilePc \ {"mark"} =>
                  jobState[j] = "deleted" \/ fileState[j][worker[w].file] \in FileBegun

\* A job without a manifest has no files.
GoneIsEmpty == \A j \in Job : jobState[j] \in NoManifest => fileState[j] = NoFiles

\* The inductive invariant.
ManagerInv ==
    /\ TypeOK /\ WorkerShape /\ SeenIsStored /\ LeasesAreCounted
    /\ UploadFilesAreProbed /\ IntakeIsPrivate /\ UnsyncedIsListed
    /\ ScheduledIsListed /\ WorkIsBegun /\ GoneIsEmpty /\ TerminalJobIsSettled
-----------------------------------------------------------------------------
(* What the lifecycle alone guarantees *)

\* The definitions that JobLifecycle shares with JobManager agree.
LEMMA SameStates ==
    /\ Lifecycle!Unlisted = NoFiles
    /\ Lifecycle!JobState = JobState /\ Lifecycle!NoManifest = NoManifest
    /\ Lifecycle!FileState = FileState
    /\ \A files, s : Lifecycle!SettleFiles(files, s) = SettleFiles(files, s)
BY DEF Lifecycle!Unlisted, NoFiles, Lifecycle!JobState, JobState, Lifecycle!NoManifest, NoManifest,
       Lifecycle!FileState, FileState, Lifecycle!SettleFiles, SettleFiles,
       Lifecycle!FileTerminal, FileTerminal

\* The loop that settles files leaves only absent and terminal ones, and keeps
\* the terminal ones.
LEMMA SettleSettles ==
    ASSUME NEW files \in Files, NEW s \in {"canceled", "interrupted"}, NEW f \in File
    PROVE  /\ SettleFiles(files, s)[f] = "absent" \/ FileTerminal(SettleFiles(files, s)[f])
           /\ FileTerminal(files[f]) => SettleFiles(files, s)[f] = files[f]
           /\ files[f] = "absent" <=> SettleFiles(files, s)[f] = "absent"
           /\ files[f] # "absent" => SettleFiles(files, s)[f] \in FileBegun
BY DEF SettleFiles, Files, FileTerminal, FileBegun

\* The part of ManagerInv that is about manifests only.
ManifestInv == DiskTypes /\ GoneIsEmpty /\ TerminalJobIsSettled

\* What a step may do to the manifest of a job (TerminalIsFinal among it).
ManifestMoves(j) ==
    /\ jobState[j] # "unused" => jobState'[j] # "unused"
    /\ PutsEmptyJobBack(j) \/
         /\ jobState[j] = "deleted" => jobState'[j] = "deleted"
         /\ jobState[j] \in Begun => jobState'[j] \in Begun
         /\ JobTerminal(jobState[j]) => jobState'[j] \in {jobState[j], "deleted"}
         /\ \A f \in File :
              /\ FileTerminal(fileState[j][f]) /\ jobState[j] # "pending" =>
                    fileState'[j][f] = fileState[j][f] \/ jobState'[j] = "deleted"
              /\ fileState[j][f] \in FileBegun /\ jobState[j] # "pending" =>
                    fileState'[j][f] \in FileBegun \/ jobState'[j] = "deleted"

\* The manifests stand still or one of them moves forward.
ManifestsMove == UNCHANGED <<jobState, fileState>> \/ \E j \in Job : Lifecycle!Move(j)

\* What one manifest of the invariant says.
ManifestOK(state, files) ==
    /\ state \in NoManifest => files = NoFiles
    /\ JobTerminal(state) => \A f \in File : files[f] = "absent" \/ FileTerminal(files[f])

\* A step that replaces the manifest of one job only needs a look at that job.
LEMMA OneManifest ==
    ASSUME ManifestInv, NEW j \in Job, NEW state, NEW files,
           Lifecycle!Manifest(j, state, files), ManifestOK(state, files)
    PROVE  /\ GoneIsEmpty' /\ TerminalJobIsSettled'
           /\ jobState'[j] = state /\ fileState'[j] = files
           /\ \A k \in Job \ {j} : jobState'[k] = jobState[k] /\ fileState'[k] = fileState[k]
<1>1. /\ jobState'[j] = state /\ fileState'[j] = files
      /\ \A k \in Job \ {j} : jobState'[k] = jobState[k] /\ fileState'[k] = fileState[k]
  BY DEF Lifecycle!Manifest, ManifestInv, DiskTypes
<1> QED
  BY <1>1 DEF ManifestInv, ManifestOK, GoneIsEmpty, TerminalJobIsSettled

\* A manifest that moves stays settled and goes only forward.
LEMMA MoveStep ==
    ASSUME ManifestInv, ManifestsMove
    PROVE  GoneIsEmpty' /\ TerminalJobIsSettled' /\ \A j \in Job : ManifestMoves(j)
<1>1. CASE UNCHANGED <<jobState, fileState>>
  BY <1>1 DEF ManifestInv, GoneIsEmpty, TerminalJobIsSettled, ManifestMoves
<1>2. ASSUME NEW j \in Job, NEW state, NEW files, Lifecycle!Manifest(j, state, files),
             ManifestOK(state, files),
             jobState[j] = "unused" => \A f \in File : fileState[j][f] = "absent",
             jobState[j] # "unused" => state # "unused",
             jobState[j] = "deleted" => state = "deleted",
             jobState[j] \in Begun => state \in Begun,
             JobTerminal(jobState[j]) => state \in {jobState[j], "deleted"},
             \A f \in File :
               /\ FileTerminal(fileState[j][f]) /\ jobState[j] # "pending" =>
                     files[f] = fileState[j][f] \/ state = "deleted"
               /\ fileState[j][f] \in FileBegun /\ jobState[j] # "pending" =>
                     files[f] \in FileBegun \/ state = "deleted"
      PROVE  GoneIsEmpty' /\ TerminalJobIsSettled' /\ \A k \in Job : ManifestMoves(k)
  <2>1. ManifestMoves(j)
    BY <1>2, OneManifest DEF ManifestMoves
  <2>2. \A k \in Job \ {j} : ManifestMoves(k)
    BY <1>2, OneManifest DEF ManifestMoves
  <2> QED
    BY <1>2, <2>1, <2>2, OneManifest
<1>3. CASE \E j \in Job : Lifecycle!Move(j)
  <2>0. /\ \A j \in Job : jobState[j] \in JobState \cup NoManifest
        /\ \A j \in Job : fileState[j] \in Files
    BY DEF ManifestInv, DiskTypes
  <2>00. \A j \in Job : ManifestOK(jobState[j], fileState[j])
    BY DEF ManifestInv, ManifestOK, GoneIsEmpty, TerminalJobIsSettled
  <2> USE SameStates
  <2>1. ASSUME NEW j \in Job, NEW state, Lifecycle!Create(j, state)
        PROVE  GoneIsEmpty' /\ TerminalJobIsSettled' /\ \A k \in Job : ManifestMoves(k)
    <3>1. fileState[j] = NoFiles /\ ManifestOK(state, NoFiles)
      BY <2>00, <2>1 DEF Lifecycle!Create, ManifestOK, NoFiles, NoManifest
    <3> QED
      BY <1>2, <2>1, <3>1 DEF Lifecycle!Create, Begun, JobTerminal, NoFiles, FileTerminal, FileBegun
  <2>2. ASSUME NEW j \in Job, NEW files, Lifecycle!List(j, files)
        PROVE  GoneIsEmpty' /\ TerminalJobIsSettled' /\ \A k \in Job : ManifestMoves(k)
    <3>1. ManifestOK(jobState[j], files)
      BY <2>2 DEF Lifecycle!List, ManifestOK, NoManifest, JobTerminal, FileTerminal
    <3>2. \A f \in File : fileState[j][f] = "absent"
      BY <2>2 DEF Lifecycle!List, NoFiles
    <3> QED
      BY <1>2, <2>2, <3>1, <3>2 DEF Lifecycle!List, FileTerminal, FileBegun
  <2>3. ASSUME NEW j \in Job, NEW f \in File, Lifecycle!Drop(j, f)
        PROVE  GoneIsEmpty' /\ TerminalJobIsSettled' /\ \A k \in Job : ManifestMoves(k)
    <3>1. ManifestOK("pending", [fileState[j] EXCEPT ![f] = "absent"])
      BY DEF ManifestOK, NoManifest, JobTerminal
    <3> QED
      BY <1>2, <2>3, <3>1 DEF Lifecycle!Drop, Begun, JobTerminal
  <2>4. ASSUME NEW j \in Job, Lifecycle!Queue(j)
        PROVE  GoneIsEmpty' /\ TerminalJobIsSettled' /\ \A k \in Job : ManifestMoves(k)
    <3>1. \A files : ManifestOK("queued", files)
      BY DEF ManifestOK, NoManifest, JobTerminal
    <3> QED
      BY <1>2, <2>4, <3>1 DEF Lifecycle!Queue, Begun, JobTerminal
  <2>5. ASSUME NEW j \in Job, Lifecycle!Run(j)
        PROVE  GoneIsEmpty' /\ TerminalJobIsSettled' /\ \A k \in Job : ManifestMoves(k)
    <3>1. \A files : ManifestOK("running", files)
      BY DEF ManifestOK, NoManifest, JobTerminal
    <3> QED
      BY <1>2, <2>5, <3>1 DEF Lifecycle!Run, Begun, JobTerminal
  <2>6. ASSUME NEW j \in Job, NEW f \in File,
               Lifecycle!RunFile(j, f) \/ \E state \in FileState : Lifecycle!EndFile(j, f, state)
        PROVE  GoneIsEmpty' /\ TerminalJobIsSettled' /\ \A k \in Job : ManifestMoves(k)
    <3>1. \A files : ManifestOK("running", files)
      BY DEF ManifestOK, NoManifest, JobTerminal
    <3>2. PICK state \in FileBegun :
             /\ Lifecycle!Manifest(j, "running", [fileState[j] EXCEPT ![f] = state])
             /\ jobState[j] = "running" /\ fileState[j][f] \in {"queued", "running"}
      BY <2>6 DEF Lifecycle!RunFile, Lifecycle!EndFile, FileBegun
    <3>3. \A g \in File :
            /\ FileTerminal(fileState[j][g]) =>
                  [fileState[j] EXCEPT ![f] = state][g] = fileState[j][g]
            /\ fileState[j][g] \in FileBegun => [fileState[j] EXCEPT ![f] = state][g] \in FileBegun
      BY <2>0, <3>2 DEF FileTerminal, Files
    <3>4. jobState[j] \in Begun /\ ~JobTerminal(jobState[j]) /\ jobState[j] # "unused"
      BY <3>2 DEF Begun, JobTerminal
    <3>5. PICK files : files = [fileState[j] EXCEPT ![f] = state]
      OBVIOUS
    <3>6. Lifecycle!Manifest(j, "running", files) /\ ManifestOK("running", files)
      BY <3>1, <3>2, <3>5
    <3>7. \A g \in File :
            /\ FileTerminal(fileState[j][g]) => files[g] = fileState[j][g]
            /\ fileState[j][g] \in FileBegun => files[g] \in FileBegun
      BY <3>3, <3>5
    <3>8. jobState[j] = "running"
      BY <3>2
    <3> QED
      BY <1>2, <3>4, <3>6, <3>7, <3>8
  <2>7. ASSUME NEW j \in Job, NEW state,
               Lifecycle!Finish(j, state) \/ Lifecycle!CutShort(j, state)
        PROVE  GoneIsEmpty' /\ TerminalJobIsSettled' /\ \A k \in Job : ManifestMoves(k)
    <3>1. PICK s \in {"canceled", "interrupted"} :
             /\ Lifecycle!Manifest(j, state, SettleFiles(fileState[j], s))
             /\ jobState[j] \in {"pending", "queued", "running"}
             /\ JobTerminal(state)
      BY <2>7 DEF Lifecycle!Finish, Lifecycle!CutShort, JobTerminal
    <3>2. ManifestOK(state, SettleFiles(fileState[j], s))
      BY <2>0, <3>1, SettleSettles DEF ManifestOK, JobTerminal, NoManifest
    <3>3. \A f \in File :
            /\ FileTerminal(fileState[j][f]) => SettleFiles(fileState[j], s)[f] = fileState[j][f]
            /\ fileState[j][f] \in FileBegun => SettleFiles(fileState[j], s)[f] \in FileBegun
      BY <2>0, <3>1, SettleSettles DEF FileBegun
    <3>4. /\ jobState[j] \notin {"unused", "deleted"} /\ ~JobTerminal(jobState[j])
          /\ state \in Begun /\ state # "unused"
      BY <3>1 DEF Begun, JobTerminal
    <3> QED
      BY <1>2, <3>1, <3>2, <3>3, <3>4
  <2>8. ASSUME NEW j \in Job, Lifecycle!Vanish(j)
        PROVE  GoneIsEmpty' /\ TerminalJobIsSettled' /\ \A k \in Job : ManifestMoves(k)
    <3>1. ManifestOK("deleted", NoFiles)
      BY DEF ManifestOK, JobTerminal
    <3> QED
      BY <1>2, <2>8, <3>1 DEF Lifecycle!Vanish, JobState, Begun, JobTerminal
  <2> QED
    BY <1>3, <2>1, <2>2, <2>3, <2>4, <2>5, <2>6, <2>7, <2>8 DEF Lifecycle!Move
<1> QED
  BY <1>1, <1>3 DEF ManifestsMove

\* A step of the lifecycle keeps manifests settled and moves them only forward,
\* but for the empty manifest that is put back.
LEMMA LifecycleStep ==
    ASSUME ManifestInv, [Lifecycle!Next]_Lifecycle!lifecycleVars
    PROVE  GoneIsEmpty' /\ TerminalJobIsSettled' /\ \A j \in Job : ManifestMoves(j)
<1>1. CASE \/ UNCHANGED Lifecycle!lifecycleVars \/ Lifecycle!Forget
           \/ \E j \in Job : Lifecycle!Withdraw(j)
  <2>1. UNCHANGED <<jobState, fileState>>
    BY <1>1 DEF Lifecycle!lifecycleVars, Lifecycle!Forget, Lifecycle!Withdraw
  <2> QED
    BY <2>1, MoveStep DEF ManifestsMove
<1>2. CASE \E j \in Job : Lifecycle!TakeAway(j) \/ Lifecycle!Move(j)
  <2>1. ManifestsMove
    BY <1>2 DEF ManifestsMove, Lifecycle!TakeAway, Lifecycle!Move
  <2> QED
    BY <2>1, MoveStep
<1>3. ASSUME NEW j \in Job, NEW state, Lifecycle!PutBack(j, state)
      PROVE  GoneIsEmpty' /\ TerminalJobIsSettled' /\ \A k \in Job : ManifestMoves(k)
  <2>1. /\ Lifecycle!Manifest(j, state, NoFiles) /\ state \in {"pending", "canceled"}
        /\ j \in Withdrawn /\ j \notin Withdrawn' /\ fileState[j] = NoFiles
    BY <1>3, SameStates DEF Lifecycle!PutBack
  <2>2. ManifestOK(state, NoFiles)
    BY <2>1 DEF ManifestOK, NoManifest, JobTerminal, NoFiles
  <2>3. ManifestMoves(j)
    BY <2>1, <2>2, OneManifest DEF ManifestMoves, PutsEmptyJobBack
  <2>4. \A k \in Job \ {j} : ManifestMoves(k)
    BY <2>1, <2>2, OneManifest DEF ManifestMoves
  <2> QED
    BY <2>1, <2>2, <2>3, <2>4, OneManifest
<1> QED
  BY <1>1, <1>2, <1>3 DEF Lifecycle!Next
-----------------------------------------------------------------------------
(* Every step of the manager is a step of the lifecycle *)

\* store.Save replaces one manifest, or nothing.
LEMMA SaveIsManifest ==
    ASSUME NEW j, NEW state, NEW files, NEW o \in SaveOutcome, Save(j, state, files, o)
    PROVE  UNCHANGED <<jobState, fileState>> \/ Lifecycle!Manifest(j, state, files)
BY DEF Save, SaveOutcome, Lifecycle!Manifest

\* store.Delete is the Vanish of the lifecycle.
LEMMA RemoveIsVanish ==
    ASSUME NEW j \in Job, Remove(j)
    PROVE  ManifestsMove
<1>1. CASE Exists(j)
  <2>1. Lifecycle!Vanish(j)
    BY <1>1, SameStates DEF Remove, Exists, Lifecycle!Vanish, Lifecycle!Manifest
  <2> QED
    BY <2>1 DEF ManifestsMove, Lifecycle!Move
<1>2. CASE ~Exists(j)
  BY <1>2 DEF ManifestsMove, Remove
<1> QED
  BY <1>1, <1>2

\* An upload request creates the manifest, lists its files once, or takes it away
\* again when the upload is rejected.
LEMMA AcceptRefines ==
    ASSUME ManagerInv, NEW j \in Job, AcceptStep(j)
    PROVE  [Lifecycle!Next]_Lifecycle!lifecycleVars
<1>0. upload \in [Job -> UploadRecord] /\ DiskTypes
  BY DEF ManagerInv, TypeOK
<1>moves. ASSUME ManifestsMove, Withdrawn' = Withdrawn
          PROVE  [Lifecycle!Next]_Lifecycle!lifecycleVars
  BY <1>moves DEF ManifestsMove, Lifecycle!Next, Lifecycle!lifecycleVars
<1>forgets. ASSUME UNCHANGED <<jobState, fileState>>, Withdrawn' \subseteq Withdrawn
            PROVE  [Lifecycle!Next]_Lifecycle!lifecycleVars
  BY <1>forgets DEF Lifecycle!Next, Lifecycle!Forget
<1>same. ASSUME \A k \in Job \ {j} : upload'[k] = upload[k],
                upload[j].pc \in {"withdrawing", "restoring"}
                   <=> upload'[j].pc \in {"withdrawing", "restoring"}
         PROVE  Withdrawn' = Withdrawn
  BY <1>same DEF Withdrawn
<1>left. ASSUME \A k \in Job \ {j} : upload'[k] = upload[k],
                upload'[j].pc \notin {"withdrawing", "restoring"}
         PROVE  Withdrawn' = Withdrawn \ {j}
  BY <1>left DEF Withdrawn
<1>1. ASSUME NEW o \in SaveOutcome, AcceptCreate(j, o)
      PROVE  [Lifecycle!Next]_Lifecycle!lifecycleVars
  <2>1. jobState[j] = "unused" /\ fileState[j] = NoFiles
    BY <1>1 DEF AcceptCreate, ManagerInv, IntakeIsPrivate, GoneIsEmpty, NoManifest
  <2>2. fileState' = [fileState EXCEPT ![j] = NoFiles]
    BY <1>0, <1>1, <2>1 DEF AcceptCreate, DiskTypes
  <2>3. Lifecycle!Create(j, IF o = "saved" THEN "pending" ELSE "deleted")
    BY <1>1, <2>1, <2>2, SameStates DEF AcceptCreate, Lifecycle!Create, Lifecycle!Manifest
  <2>4. (IF o = "saved" THEN "pending" ELSE "deleted")
           \in Lifecycle!JobState \cup Lifecycle!NoManifest
    BY DEF Lifecycle!JobState, Lifecycle!NoManifest
  <2>5. ManifestsMove
    BY <2>3, <2>4 DEF ManifestsMove, Lifecycle!Move
  <2>6. Withdrawn' = Withdrawn
    BY <1>0, <1>1, <1>same DEF AcceptCreate, UploadAt
  <2> QED
    BY <1>moves, <2>5, <2>6
<1>2. ASSUME NEW o \in SaveOutcome, AcceptSave(j, o)
      PROVE  [Lifecycle!Next]_Lifecycle!lifecycleVars
  <2>1. /\ jobState[j] \in {"pending", "canceled", "deleted"} /\ fileState[j] = NoFiles
        /\ \A f \in File : upload[j].files[f] \in {"absent", "inspected", "failed"}
        /\ upload[j].files \in Files
    BY <1>2 DEF AcceptSave, ManagerInv, TypeOK, UploadRecord, IntakeIsPrivate, IntakePc,
                UploadFilesAreProbed
  <2>2. Withdrawn' = Withdrawn
    BY <1>0, <1>2, <1>same DEF AcceptSave, UploadAt, SaveOutcome
  <2>3. CASE Exists(j)
    <3>1. jobState[j] \in {"pending", "canceled"} /\ j \notin Withdrawn
      BY <1>2, <2>1, <2>3 DEF Exists, JobState, AcceptSave, Withdrawn
    <3>2. \A f \in File : AcceptedFiles(j)[f] \in
             IF jobState[j] = "pending" THEN {"absent", "inspected", "failed"}
                                        ELSE {"absent", "canceled", "failed"}
      BY <2>1, <3>1 DEF AcceptedFiles, SettleFiles, Files, FileTerminal
    <3>3. AcceptedFiles(j) \in [File -> {"absent", "inspected", "failed", "canceled"}]
      <4>1. AcceptedFiles(j) \in Files
        BY <2>1, SettleType DEF AcceptedFiles, FileState
      <4> QED
        BY <3>1, <3>2, <4>1 DEF Files
    <3>4. Lifecycle!Manifest(j, jobState[j], AcceptedFiles(j))
             => Lifecycle!List(j, AcceptedFiles(j))
      BY <2>1, <3>1, <3>2, SameStates DEF Lifecycle!List
    <3>5. ManifestsMove
      BY <1>2, <2>3, <3>3, <3>4, SaveIsManifest DEF AcceptSave, ManifestsMove, Lifecycle!Move
    <3> QED
      BY <1>moves, <2>2, <3>5
  <2>4. CASE ~Exists(j)
    BY <1>2, <1>forgets, <2>2, <2>4 DEF AcceptSave, diskVars
  <2> QED
    BY <2>3, <2>4
<1>3. ASSUME AcceptReject(j) \/ AcceptDiscard(j)
      PROVE  [Lifecycle!Next]_Lifecycle!lifecycleVars
  <2>1. /\ UNCHANGED <<jobState, fileState>> /\ DeleteLoad(j)
        /\ upload[j].pc \in {"receiving", "unsaved", "unsynced"}
    BY <1>3 DEF AcceptReject, AcceptDiscard, diskVars
  <2>2. CASE Exists(j) /\ fileState[j] = NoFiles
    <3>1. jobState[j] \in {"pending", "canceled"}
      BY <2>1, <2>2 DEF ManagerInv, IntakeIsPrivate, UnsyncedIsListed, IntakePc, Exists, JobState
    <3>2. Withdrawn' = Withdrawn \cup {j}
      BY <1>0, <2>1, <2>2 DEF DeleteLoad, Withdrawn
    <3>3. Lifecycle!Withdraw(j)
      BY <2>1, <2>2, <3>1, <3>2, SameStates DEF Lifecycle!Withdraw
    <3> QED
      BY <3>3 DEF Lifecycle!Next
  <2>3. CASE ~(Exists(j) /\ fileState[j] = NoFiles)
    <3>1. Withdrawn' = Withdrawn
      BY <1>0, <1>same, <2>1, <2>3 DEF DeleteLoad
    <3> QED
      BY <1>forgets, <2>1, <3>1
  <2> QED
    BY <2>2, <2>3
<1>4. ASSUME AcceptRemoved(j)
      PROVE  [Lifecycle!Next]_Lifecycle!lifecycleVars
  <2>1. Withdrawn' = Withdrawn \ {j}
    BY <1>0, <1>4, <1>left DEF AcceptRemoved, UploadAt
  <2>2. CASE Exists(j)
    <3>1. Lifecycle!Vanish(j)
      BY <1>4, <2>2, SameStates DEF AcceptRemoved, Remove, Exists, Lifecycle!Vanish,
                                    Lifecycle!Manifest
    <3>2. CASE j \in Withdrawn
      BY <2>1, <3>1, <3>2 DEF Lifecycle!Next, Lifecycle!TakeAway
    <3>3. CASE j \notin Withdrawn
      BY <1>moves, <2>1, <3>1, <3>3 DEF ManifestsMove, Lifecycle!Move
    <3> QED
      BY <3>2, <3>3
  <2>3. CASE ~Exists(j)
    BY <1>4, <1>forgets, <2>1, <2>3 DEF AcceptRemoved, Remove
  <2> QED
    BY <2>2, <2>3
<1>5. ASSUME AcceptRemoveRaced(j) \/ \E unlinked \in BOOLEAN : AcceptRemoveFails(j, unlinked)
      PROVE  [Lifecycle!Next]_Lifecycle!lifecycleVars
  <2>1. Withdrawn' = Withdrawn
    BY <1>0, <1>5, <1>same DEF AcceptRemoveRaced, AcceptRemoveFails, AfterFailedRemoval, UploadAt,
                               UploadRecord
  <2>2. UNCHANGED <<jobState, fileState>> \/ Lifecycle!Vanish(j)
    BY <1>5, SameStates DEF AcceptRemoveRaced, AcceptRemoveFails, diskVars, Exists,
                            Lifecycle!Vanish, Lifecycle!Manifest
  <2> QED
    BY <1>moves, <2>1, <2>2 DEF ManifestsMove, Lifecycle!Move
<1>6. ASSUME NEW o \in SaveOutcome, AcceptRestore(j, o)
      PROVE  [Lifecycle!Next]_Lifecycle!lifecycleVars
  <2>1. Withdrawn' = Withdrawn \ {j} /\ j \in Withdrawn
    BY <1>0, <1>6, <1>left DEF AcceptRestore, UploadAt, Withdrawn
  <2>2. /\ jobState[j] \in {"pending", "canceled", "deleted"} /\ fileState[j] = NoFiles
        /\ upload[j].seenState \in {"pending", "canceled"}
    BY <1>6 DEF AcceptRestore, ManagerInv, IntakeIsPrivate, IntakePc
  <2>3. \/ UNCHANGED <<jobState, fileState>>
        \/ Lifecycle!Manifest(j, upload[j].seenState, NoFiles)
    BY <1>6, SaveIsManifest DEF AcceptRestore
  <2>4. CASE Lifecycle!Manifest(j, upload[j].seenState, NoFiles)
    <3>1. Lifecycle!PutBack(j, upload[j].seenState)
      BY <2>1, <2>2, <2>4, SameStates DEF Lifecycle!PutBack
    <3>2. upload[j].seenState \in Lifecycle!JobState
      BY <2>2 DEF Lifecycle!JobState
    <3> QED
      BY <3>1, <3>2 DEF Lifecycle!Next
  <2> QED
    BY <1>forgets, <2>1, <2>3, <2>4
<1>7. ASSUME \/ \E n \in File : AcceptReceive(j, n)
             \/ AcceptReturn(j)
             \/ \E f \in File : \/ InspectAcquire(j, f) \/ InspectWaitExpired(j, f)
                                \/ \E s \in {"inspected", "failed"} : InspectReturn(j, f, s)
      PROVE  [Lifecycle!Next]_Lifecycle!lifecycleVars
  <2>1. UNCHANGED <<jobState, fileState>>
    BY <1>7 DEF AcceptReceive, AcceptReturn, InspectAcquire, InspectWaitExpired, InspectReturn,
                diskVars
  <2>2. /\ \A k \in Job \ {j} : upload'[k] = upload[k]
        /\ upload[j].pc \notin {"withdrawing", "restoring"}
        /\ upload'[j].pc \notin {"withdrawing", "restoring"}
    <3>1. CASE AcceptReturn(j) \/ \E n \in File : AcceptReceive(j, n)
      BY <1>0, <3>1 DEF AcceptReceive, AcceptReturn, UploadAt, UploadRecord
    <3>2. CASE \E f \in File : InspectAcquire(j, f) \/ InspectWaitExpired(j, f)
      BY <1>0, <3>2 DEF InspectAcquire, InspectWaitExpired, UploadRecord
    <3>3. CASE \E f \in File, s \in {"inspected", "failed"} : InspectReturn(j, f, s)
      BY <1>0, <3>3 DEF InspectReturn, UploadRecord
    <3> QED
      BY <1>7, <3>1, <3>2, <3>3
  <2>3. Withdrawn' = Withdrawn
    BY <1>same, <2>2
  <2> QED
    BY <1>forgets, <2>1, <2>3
<1> QED
  BY <1>1, <1>2, <1>3, <1>4, <1>5, <1>6, <1>7 DEF AcceptStep

\* The requests, deletion, expiry and the sweep.
LEMMA RequestRefines ==
    ASSUME ManagerInv, NEW j \in Job, Request(j) \/ DeleteStep(j) \/ Expire(j) \/ CleanupJob(j)
    PROVE  ManifestsMove
<1>0. fileState[j] \in Files
  BY DEF ManagerInv, TypeOK, DiskTypes
<1>1. ASSUME NEW o \in SaveOutcome, Start(j, o)
      PROVE  ManifestsMove
  <2>1. [f \in File |-> IF f \in Convertible(j) THEN "queued" ELSE fileState[j][f]]
          = [f \in File |-> IF fileState[j][f] = "inspected" THEN "queued" ELSE fileState[j][f]]
    BY DEF Convertible
  <2>2. jobState[j] = "pending" /\ \E f \in File : fileState[j][f] = "inspected"
    BY <1>1 DEF Start, Startable, Convertible
  <2>3. UNCHANGED <<jobState, fileState>> \/ Lifecycle!Queue(j)
    BY <1>1, <2>1, <2>2, SaveIsManifest DEF Start, Lifecycle!Queue
  <2> QED
    BY <2>3 DEF ManifestsMove, Lifecycle!Move
<1>2. ASSUME NEW o \in SaveOutcome, Cancel(j, o)
      PROVE  ManifestsMove
  <2>1. jobState[j] \in {"pending", "queued", "running"}
    BY <1>2 DEF Cancel, Exists, JobState, JobTerminal
  <2>2. UNCHANGED <<jobState, fileState>> \/ Lifecycle!CutShort(j, "canceled")
    BY <1>2, <2>1, SaveIsManifest, SameStates DEF Cancel, Lifecycle!CutShort
  <2> QED
    BY <2>2 DEF ManifestsMove, Lifecycle!Move, Lifecycle!JobState
<1>3. ASSUME DeleteCommit(j) \/ CleanupJob(j)
      PROVE  ManifestsMove
  BY <1>3, RemoveIsVanish DEF ManifestsMove, DeleteCommit, CleanupJob, diskVars
<1>4. ASSUME NEW f \in File, NEW o \in SaveOutcome, RemoveFile(j, f, o)
      PROVE  ManifestsMove
  <2>1. CASE Remove(j)
    BY <2>1, RemoveIsVanish
  <2>2. CASE Save(j, "pending", [fileState[j] EXCEPT ![f] = "absent"], o)
    <3>1. UNCHANGED <<jobState, fileState>> \/ Lifecycle!Drop(j, f)
      BY <1>4, <2>2, SaveIsManifest DEF RemoveFile, Lifecycle!Drop
    <3> QED
      BY <3>1 DEF ManifestsMove, Lifecycle!Move
  <2> QED
    BY <1>4, <2>1, <2>2 DEF RemoveFile
<1>5. ASSUME \/ AcceptReserve(j) \/ DeleteCancel(j) \/ \E r \in Reader : ReaderLease(r, j)
             \/ DeleteCheck(j) \/ DeleteUnleased(j) \/ DeleteGiveUp(j) \/ Expire(j)
      PROVE  UNCHANGED <<jobState, fileState>>
  BY <1>5 DEF AcceptReserve, DeleteCancel, ReaderLease, DeleteCheck, DeleteUnleased, DeleteGiveUp,
              Expire, diskVars
<1> QED
  BY <1>1, <1>2, <1>3, <1>4, <1>5 DEF ManifestsMove, Request, DeleteStep

\* A result is recorded only for a running file of a running job.
LEMMA RecordRefines ==
    ASSUME ManagerInv, NEW w \in Worker, worker[w].pc \in FilePc \ {"mark"},
           NEW skip \in BOOLEAN, NEW state \in {"completed", "failed", "canceled"},
           NEW o \in SaveOutcome, RecordFile(w, skip, state, o)
    PROVE  ManifestsMove
<1>1. PICK j \in Job, f \in File : j = worker[w].job /\ f = worker[w].file
  BY DEF ManagerInv, WorkerShape, FilePc
<1>2. CASE ~Exists(j) \/ skip \/ FileSettled(j, f)
  BY <1>1, <1>2 DEF ManifestsMove, RecordFile, diskVars
<1>3. CASE ~(~Exists(j) \/ skip \/ FileSettled(j, f))
  <2>1. Save(j, jobState[j], [fileState[j] EXCEPT ![f] = state], o)
    BY <1>1, <1>3 DEF RecordFile
  <2>2. fileState[j][f] \in FileBegun /\ ~FileTerminal(fileState[j][f])
    BY <1>1, <1>3 DEF ManagerInv, WorkIsBegun, Exists, JobState, FileSettled
  <2>3. fileState[j][f] = "running"
    BY <2>2 DEF FileBegun, FileTerminal
  <2>4. ~JobTerminal(jobState[j])
    BY <2>3 DEF ManagerInv, TerminalJobIsSettled, FileTerminal
  <2>5. jobState[j] = "running"
    BY <1>1, <1>3, <2>4 DEF ManagerInv, WorkIsBegun, Begun, JobTerminal, Exists, JobState
  <2>6. UNCHANGED <<jobState, fileState>> \/ Lifecycle!EndFile(j, f, state)
    BY <2>1, <2>3, <2>5, SaveIsManifest DEF Lifecycle!EndFile
  <2> QED
    BY <2>6 DEF ManifestsMove, Lifecycle!Move, Lifecycle!FileState
<1> QED
  BY <1>2, <1>3

\* A worker moves its job to running, its files through running to an end, and
\* settles the job.
LEMMA WorkerRefines ==
    ASSUME ManagerInv, NEW w \in Worker, WorkerStep(w)
    PROVE  ManifestsMove
<1>1. ASSUME NEW o \in SaveOutcome, WorkerBegin(w, o)
      PROVE  ManifestsMove
  <2>1. PICK j \in Job : j = worker[w].job
    BY <1>1 DEF WorkerBegin, ManagerInv, WorkerShape
  <2>2. CASE jobState[j] = "queued"
    <3>1. UNCHANGED <<jobState, fileState>> \/ Lifecycle!Run(j)
      BY <1>1, <2>1, <2>2, SaveIsManifest DEF WorkerBegin, Lifecycle!Run
    <3> QED
      BY <3>1 DEF ManifestsMove, Lifecycle!Move
  <2>3. CASE jobState[j] # "queued"
    BY <1>1, <2>1, <2>3 DEF ManifestsMove, WorkerBegin, diskVars
  <2> QED
    BY <2>2, <2>3
<1>2. ASSUME NEW o \in SaveOutcome, WorkerMark(w, o)
      PROVE  ManifestsMove
  <2>1. PICK j \in Job, f \in File : j = worker[w].job /\ f = worker[w].file
    BY <1>2 DEF WorkerMark, ManagerInv, WorkerShape, FilePc
  <2>2. CASE jobState[j] = "running" /\ fileState[j][f] = "queued"
    <3>1. UNCHANGED <<jobState, fileState>> \/ Lifecycle!RunFile(j, f)
      BY <1>2, <2>1, <2>2, SaveIsManifest DEF WorkerMark, Lifecycle!RunFile
    <3> QED
      BY <3>1 DEF ManifestsMove, Lifecycle!Move
  <2>3. CASE ~(jobState[j] = "running" /\ fileState[j][f] = "queued")
    BY <1>2, <2>1, <2>3 DEF ManifestsMove, WorkerMark, diskVars
  <2> QED
    BY <2>2, <2>3
<1>3. ASSUME NEW o \in SaveOutcome,
             WorkerRecordResult(w, o) \/ WorkerRecordCancel(w, o) \/ WorkerRecordFailure(w, o)
      PROVE  ManifestsMove
  <2>1. worker[w].pc \in FilePc \ {"mark"}
    BY <1>3 DEF WorkerRecordResult, WorkerRecordCancel, WorkerRecordFailure, FilePc
  <2>2. CASE WorkerRecordResult(w, o)
    <3>1. worker[w].result \in {"completed", "failed", "canceled"}
      BY <2>2 DEF WorkerRecordResult, ManagerInv, WorkerShape, TypeOK, WorkerRecord
    <3>2. ResultIsLate(w) \in BOOLEAN
      BY DEF ResultIsLate, JobTerminal
    <3> QED
      BY <2>1, <2>2, <3>1, <3>2, RecordRefines DEF WorkerRecordResult
  <2>3. CASE WorkerRecordCancel(w, o) \/ WorkerRecordFailure(w, o)
    BY <2>1, <2>3, RecordRefines DEF WorkerRecordCancel, WorkerRecordFailure
  <2> QED
    BY <1>3, <2>2, <2>3
<1>4. ASSUME NEW o \in SaveOutcome, WorkerFinalize(w, o)
      PROVE  ManifestsMove
  <2>1. PICK j \in Job : j = worker[w].job
    BY <1>4 DEF WorkerFinalize, ManagerInv, WorkerShape
  <2>2. CASE NeedsFinal(j)
    <3>1. jobState[j] = "running"
      BY <1>4, <2>1, <2>2 DEF WorkerFinalize, NeedsFinal, ManagerInv, WorkIsBegun, Begun,
                              JobTerminal, Exists, JobState
    <3>2. PICK files : files = SettleFiles(fileState[j], "canceled")
      OBVIOUS
    <3>3. PICK state : state = FinalState(files, worker[w].stop)
      OBVIOUS
    <3>4. UNCHANGED <<jobState, fileState>> \/ Lifecycle!Manifest(j, state, files)
      BY <1>4, <2>1, <2>2, <3>2, <3>3, SaveIsManifest DEF WorkerFinalize
    <3>5. /\ state \in {"completed", "failed", "canceled"}
          /\ IF \E f \in File : files[f] = "completed"
               THEN state = "completed"
               ELSE \/ state = "canceled"
                    \/ state = "failed" /\ \E f \in File : files[f] = "failed"
      BY <3>3 DEF FinalState
    <3>6. Lifecycle!Manifest(j, state, files) => Lifecycle!Finish(j, state)
      BY <3>1, <3>2, <3>5, SameStates DEF Lifecycle!Finish
    <3> QED
      BY <3>4, <3>5, <3>6 DEF ManifestsMove, Lifecycle!Move, Lifecycle!JobState
  <2>3. CASE ~NeedsFinal(j)
    BY <1>4, <2>1, <2>3 DEF ManifestsMove, WorkerFinalize, diskVars
  <2> QED
    BY <2>2, <2>3
<1>5. ASSUME \/ WorkerReceive(w) \/ WorkerRegister(w) \/ WorkerLease(w)
             \/ \E f \in File : WorkerNextFile(w, f)
             \/ WorkerEndFiles(w) \/ WorkerAcquire(w) \/ WorkerWaitCanceled(w)
             \/ \E n \in {"converting", "recordCancel", "recordFailure"} : WorkerConvert(w, n)
             \/ \E r \in {"completed", "failed", "canceled"} : WorkerConvertReturn(w, r)
             \/ WorkerRelease(w) \/ WorkerDone(w) \/ WorkerExit(w)
      PROVE  UNCHANGED <<jobState, fileState>>
  BY <1>5 DEF WorkerReceive, WorkerRegister, WorkerLease, WorkerNextFile, WorkerEndFiles,
              WorkerAcquire, WorkerWaitCanceled, WorkerConvert, WorkerConvertReturn, WorkerRelease,
              WorkerDone, WorkerExit, diskVars
<1> QED
  BY <1>1, <1>2, <1>3, <1>4, <1>5 DEF ManifestsMove, WorkerStep

\* Recovery interrupts; a crash and everything else leave the manifests alone.
LEMMA ServiceRefines ==
    ASSUME ManagerInv,
           \/ \E r \in Reader : ReaderStep(r)
           \/ CleanupList \/ StopIntake \/ Shutdown \/ Drain \/ Exit \/ Crash \/ Restart
           \/ Recovery \/ Ended
    PROVE  ManifestsMove
<1>1. ASSUME NEW j \in Job, NEW o \in SaveOutcome, RecoverJob(j, o)
      PROVE  ManifestsMove
  <2>1. jobState[j] \in {"pending", "queued", "running"}
    BY <1>1 DEF RecoverJob, Recovered, Exists, JobState, JobTerminal
  <2>2. UNCHANGED <<jobState, fileState>> \/ Lifecycle!CutShort(j, "interrupted")
    BY <1>1, <2>1, SaveIsManifest, SameStates DEF RecoverJob, Lifecycle!CutShort
  <2> QED
    BY <2>2 DEF ManifestsMove, Lifecycle!Move, Lifecycle!JobState
<1>2. ASSUME \/ \E r \in Reader : ReaderStep(r)
             \/ CleanupList \/ StopIntake \/ Shutdown \/ Drain \/ Exit \/ Crash \/ Restart
             \/ RecoverDone \/ Ended
      PROVE  UNCHANGED <<jobState, fileState>>
  BY <1>2 DEF ReaderStep, ReaderOpen, ReaderRelease, CleanupList, StopIntake, Shutdown, Drain, Exit,
              Crash, ProcessEnds, Restart, RecoverDone, Ended, diskVars, vars
<1> QED
  BY <1>1, <1>2 DEF ManifestsMove, Recovery

\* A step of the manager, or a stutter, is a step of the lifecycle, or a stutter.
LEMMA StepRefines ==
    ASSUME ManagerInv, [Next]_vars
    PROVE  [Lifecycle!Next]_Lifecycle!lifecycleVars
<1>1. ASSUME Next, UNCHANGED upload, ~\E j \in Job : AcceptStep(j)
      PROVE  [Lifecycle!Next]_Lifecycle!lifecycleVars
  <2>1. ManifestsMove
    BY <1>1, RequestRefines, WorkerRefines, ServiceRefines DEF Next, CleanupStep
  <2>2. Withdrawn' = Withdrawn
    BY <1>1 DEF Withdrawn
  <2> QED
    BY <2>1, <2>2 DEF ManifestsMove, Lifecycle!Next, Lifecycle!lifecycleVars
<1>2. ASSUME Exit \/ Crash \/ \E j \in Job : AcceptReserve(j)
      PROVE  [Lifecycle!Next]_Lifecycle!lifecycleVars
  <2>1. UNCHANGED <<jobState, fileState>>
    BY <1>2 DEF Exit, Crash, ProcessEnds, AcceptReserve, diskVars
  <2>2. Withdrawn' \subseteq Withdrawn
    BY <1>2 DEF Exit, Crash, ProcessEnds, AcceptReserve, Withdrawn, UploadAt, ManagerInv, TypeOK
  <2> QED
    BY <2>1, <2>2 DEF Lifecycle!Next, Lifecycle!Forget
<1>3. CASE Next
  BY <1>1, <1>2, <1>3, AcceptRefines, UploadFrame
<1>4. CASE UNCHANGED vars
  BY <1>4 DEF vars, Withdrawn, Lifecycle!lifecycleVars
<1> QED
  BY <1>3, <1>4

\* Manifests stay settled and move forward along every step.
LEMMA StepMoves ==
    ASSUME ManagerInv, [Next]_vars
    PROVE  GoneIsEmpty' /\ TerminalJobIsSettled' /\ \A j \in Job : ManifestMoves(j)
<1>1. ManifestInv
  BY DEF ManagerInv, ManifestInv, TypeOK
<1> QED
  BY <1>1, StepRefines, LifecycleStep

-----------------------------------------------------------------------------
(* The rest of the inductive invariant *)

\* Save and Remove touch the manifest of one job.
LEMMA OneJob ==
    ASSUME DiskTypes, NEW j,
           Remove(j) \/ \E state, files, o : Save(j, state, files, o)
    PROVE  \A k \in Job \ {j} : jobState'[k] = jobState[k] /\ fileState'[k] = fileState[k]
BY DEF DiskTypes, Remove, Save

\* receive and inspect only list uploaded, inspected and failed files.
LEMMA ProbedStep ==
    ASSUME ManagerInv, Next
    PROVE  UploadFilesAreProbed'
<1> USE DEF UploadFilesAreProbed
<1>0. /\ upload \in [Job -> UploadRecord] /\ UploadFilesAreProbed
      /\ 1 \in File
  BY BoundsAssumption DEF ManagerInv, TypeOK, File
<1>1. ASSUME NEW j \in Job, \A k \in Job \ {j} : upload'[k] = upload[k],
             upload'[j].files = NoFiles, upload'[j].pc \notin {"inspecting", "probing"}
      PROVE  UploadFilesAreProbed'
  BY <1>0, <1>1 DEF NoFiles
<1>2. ASSUME NEW j \in Job, AcceptStep(j) \/ AcceptReserve(j) PROVE UploadFilesAreProbed'
  <2>1. CASE AcceptReserve(j) \/ AcceptReturn(j) \/ AcceptRemoved(j)
    BY <1>0, <1>1, <2>1 DEF AcceptReserve, AcceptReturn, AcceptRemoved, UploadAt
  <2>2. CASE \E o \in SaveOutcome : AcceptCreate(j, o) \/ AcceptSave(j, o) \/ AcceptRestore(j, o)
    BY <1>0, <1>1, <2>2 DEF AcceptCreate, AcceptSave, AcceptRestore, UploadAt, SaveOutcome
  <2>3. CASE AcceptReject(j) \/ AcceptDiscard(j)
    BY <1>0, <1>1, <2>3 DEF AcceptReject, AcceptDiscard, DeleteLoad
  <2>4. CASE AcceptRemoveRaced(j) \/ \E unlinked \in BOOLEAN : AcceptRemoveFails(j, unlinked)
    <3>1. /\ \A k \in Job \ {j} : upload'[k] = upload[k]
          /\ upload'[j].files \in {upload[j].files, NoFiles}
          /\ upload'[j].pc \notin {"inspecting", "probing"}
      BY <1>0, <2>4 DEF AcceptRemoveRaced, AcceptRemoveFails, AfterFailedRemoval, UploadAt,
                        UploadRecord
    <3> QED
      BY <1>0, <3>1 DEF NoFiles
  <2>5. CASE \E n \in File : AcceptReceive(j, n)
    <3>1. PICK n \in File :
             /\ \A k \in Job \ {j} : upload'[k] = upload[k]
             /\ upload'[j].files = [f \in File |-> IF f <= n THEN "uploaded" ELSE "absent"]
      BY <1>0, <2>5 DEF AcceptReceive, UploadRecord
    <3>2. 1 <= n
      BY <3>1 DEF File
    <3> QED
      BY <1>0, <3>1, <3>2
  <2>6. CASE \E f \in File : InspectAcquire(j, f)
    BY <1>0, <2>6 DEF InspectAcquire, UploadRecord
  <2>7. CASE \E f \in File : InspectWaitExpired(j, f)
    BY <1>0, <2>7 DEF InspectWaitExpired, UploadRecord, Files
  <2>8. CASE \E f \in File, s \in {"inspected", "failed"} : InspectReturn(j, f, s)
    BY <1>0, <2>8 DEF InspectReturn, UploadRecord, Files
  <2> QED
    BY <1>2, <2>1, <2>2, <2>3, <2>4, <2>5, <2>6, <2>7, <2>8 DEF AcceptStep
<1>3. ASSUME Exit \/ Crash PROVE UploadFilesAreProbed'
  BY <1>3 DEF Exit, Crash, ProcessEnds, UploadAt, NoFiles
<1> QED
  BY <1>0, <1>2, <1>3, UploadFrame

\* A worker leaves the manifests of jobs in intake alone.
LEMMA WorkerSparesIntake ==
    ASSUME ManagerInv, NEW w \in Worker, WorkerStep(w),
           NEW j \in Job, upload[j].pc \in IntakePc
    PROVE  jobState'[j] = jobState[j] /\ fileState'[j] = fileState[j]
<1>1. \/ UNCHANGED <<jobState, fileState>>
      \/ /\ worker[w].pc \notin {"idle", "exited"}
         /\ \E state, files, o : Save(worker[w].job, state, files, o)
  <2>1. CASE \/ WorkerReceive(w) \/ WorkerRegister(w) \/ WorkerLease(w)
             \/ \E f \in File : WorkerNextFile(w, f)
             \/ WorkerEndFiles(w) \/ WorkerAcquire(w) \/ WorkerWaitCanceled(w)
             \/ \E n \in {"converting", "recordCancel", "recordFailure"} : WorkerConvert(w, n)
             \/ \E r \in {"completed", "failed", "canceled"} : WorkerConvertReturn(w, r)
             \/ WorkerRelease(w) \/ WorkerDone(w) \/ WorkerExit(w)
    BY <2>1 DEF WorkerReceive, WorkerRegister, WorkerLease, WorkerNextFile, WorkerEndFiles,
                WorkerAcquire, WorkerWaitCanceled, WorkerConvert, WorkerConvertReturn,
                WorkerRelease, WorkerDone, WorkerExit, diskVars
  <2>2. CASE \E o \in SaveOutcome : WorkerBegin(w, o) \/ WorkerMark(w, o)
    BY <2>2 DEF WorkerBegin, WorkerMark, diskVars
  <2>3. CASE \E o \in SaveOutcome : WorkerFinalize(w, o)
    BY <2>3 DEF WorkerFinalize, diskVars
  <2>4. CASE \E o \in SaveOutcome : \/ WorkerRecordResult(w, o) \/ WorkerRecordCancel(w, o)
                                    \/ WorkerRecordFailure(w, o)
    BY <2>4 DEF WorkerRecordResult, WorkerRecordCancel, WorkerRecordFailure, RecordFile, diskVars
  <2> QED
    BY <2>1, <2>2, <2>3, <2>4 DEF WorkerStep
<1>2. worker[w].pc \notin {"idle", "exited"} => worker[w].job # j
  BY DEF ManagerInv, ScheduledIsListed, Schedulable
<1> QED
  BY <1>1, <1>2, OneJob DEF ManagerInv, TypeOK

\* What intake may see happen to its manifest: nothing, a cancel or a delete.
IntakeSafe(j) ==
    \/ jobState'[j] = jobState[j] /\ fileState'[j] = fileState[j]
    \/ jobState[j] # "unused" /\ jobState'[j] \in {"canceled", "deleted"} /\ fileState'[j] = NoFiles

\* An Accept call touches its own job only.
LEMMA AcceptTouchesOne ==
    ASSUME DiskTypes, upload \in [Job -> UploadRecord], NEW j \in Job, AcceptStep(j)
    PROVE  \A k \in Job \ {j} : /\ jobState'[k] = jobState[k] /\ fileState'[k] = fileState[k]
                                 /\ upload'[k] = upload[k]
<1>1. CASE \E o \in SaveOutcome : AcceptCreate(j, o)
  BY <1>1 DEF AcceptCreate, DiskTypes
<1>2. CASE \E o \in SaveOutcome : AcceptSave(j, o) \/ AcceptRestore(j, o)
  BY <1>2, OneJob DEF AcceptSave, AcceptRestore, diskVars
<1>3. CASE AcceptReject(j) \/ AcceptDiscard(j) \/ AcceptRemoveRaced(j)
  BY <1>3 DEF AcceptReject, AcceptDiscard, DeleteLoad, AcceptRemoveRaced, diskVars
<1>4. CASE AcceptRemoved(j)
  BY <1>4, OneJob DEF AcceptRemoved
<1>5. CASE \E unlinked \in BOOLEAN : AcceptRemoveFails(j, unlinked)
  BY <1>5 DEF AcceptRemoveFails, DiskTypes
<1>6. CASE \/ AcceptReturn(j) \/ \E n \in File : AcceptReceive(j, n)
           \/ \E f \in File : \/ InspectAcquire(j, f) \/ InspectWaitExpired(j, f)
                              \/ \E s \in {"inspected", "failed"} : InspectReturn(j, f, s)
  BY <1>6 DEF AcceptReceive, AcceptReturn, InspectAcquire, InspectWaitExpired, InspectReturn,
              diskVars
<1> QED
  BY <1>1, <1>2, <1>3, <1>4, <1>5, <1>6 DEF AcceptStep

\* No request, sweep or recovery but Cancel and the deletions reaches a job in
\* intake.
LEMMA OthersSpareIntake ==
    ASSUME ManagerInv, NEW j \in Job, upload[j].pc \in IntakePc, Next, ~AcceptStep(j)
    PROVE  IntakeSafe(j)
<1> USE DEF IntakeSafe
<1>0. /\ DiskTypes /\ phase = "serving"
      /\ jobState[j] \in {"unused", "pending", "canceled", "deleted"} /\ fileState[j] = NoFiles
      /\ upload[j].pc # "reserved" => jobState[j] # "unused"
  BY DEF ManagerInv, TypeOK, IntakeIsPrivate, IntakePc, GoneIsEmpty, NoManifest
<1>1. ASSUME NEW k \in Job, Remove(k) PROVE IntakeSafe(j)
  BY <1>0, <1>1 DEF Remove, DiskTypes, Exists, JobState
<1>2. ASSUME NEW k \in Job, AcceptStep(k) PROVE IntakeSafe(j)
  <2>1. k # j
    BY <1>2
  <2> QED
    BY <1>2, <2>1, AcceptTouchesOne DEF ManagerInv, TypeOK
<1>3. ASSUME NEW k \in Job, NEW o \in SaveOutcome, Start(k, o) PROVE IntakeSafe(j)
  <2>1. k # j
    BY <1>0, <1>3 DEF Start, Startable, Convertible, NoFiles
  <2> QED
    BY <1>0, <1>3, <2>1 DEF Start, Save, DiskTypes
<1>4. ASSUME NEW k \in Job, NEW o \in SaveOutcome, Cancel(k, o) PROVE IntakeSafe(j)
  <2>1. CASE k # j
    BY <1>0, <1>4, <2>1, OneJob DEF Cancel
  <2>2. CASE k = j
    <3>1. SettleFiles(fileState[j], "canceled") = NoFiles /\ jobState[j] # "unused"
      BY <1>0, <1>4, <2>2 DEF SettleFiles, NoFiles, Cancel, Exists, JobState
    <3> QED
      BY <1>0, <1>4, <2>2, <3>1 DEF Cancel, Save, DiskTypes, SaveOutcome
  <2> QED
    BY <2>1, <2>2
<1>5. ASSUME NEW k \in Job, DeleteCommit(k) \/ CleanupJob(k) PROVE IntakeSafe(j)
  BY <1>1, <1>5 DEF DeleteCommit, CleanupJob, diskVars
<1>6. ASSUME NEW k \in Job, NEW f \in File, NEW o \in SaveOutcome, RemoveFile(k, f, o)
      PROVE  IntakeSafe(j)
  <2>1. CASE Remove(k)
    BY <1>1, <2>1
  <2>2. CASE ~Remove(k)
    <3>1. Save(k, "pending", [fileState[k] EXCEPT ![f] = "absent"], o)
      BY <1>6, <2>2 DEF RemoveFile
    <3>2. k # j
      BY <1>0, <1>6 DEF RemoveFile, NoFiles
    <3> QED
      BY <1>0, <3>1, <3>2, OneJob
  <2> QED
    BY <2>1, <2>2
<1>7. ASSUME NEW w \in Worker, WorkerStep(w) PROVE IntakeSafe(j)
  BY <1>7, WorkerSparesIntake
<1>8. ASSUME NEW k \in Job,
             \/ AcceptReserve(k) \/ DeleteCancel(k) \/ \E r \in Reader : ReaderLease(r, k)
             \/ DeleteCheck(k) \/ DeleteUnleased(k) \/ DeleteGiveUp(k) \/ Expire(k)
      PROVE  IntakeSafe(j)
  BY <1>8 DEF AcceptReserve, DeleteCancel, ReaderLease, DeleteCheck, DeleteUnleased, DeleteGiveUp,
              Expire, diskVars
<1>9. ASSUME \/ \E r \in Reader : ReaderStep(r)
             \/ CleanupList \/ StopIntake \/ Shutdown \/ Drain \/ Exit \/ Crash \/ Restart
             \/ Recovery \/ Ended
      PROVE  IntakeSafe(j)
  BY <1>0, <1>9 DEF ReaderStep, ReaderOpen, ReaderRelease, CleanupList, StopIntake, Shutdown, Drain,
              Exit, Crash, ProcessEnds, Restart, Recovery, RecoverJob, RecoverDone, Ended,
              diskVars, vars
<1> QED
  BY <1>2, <1>3, <1>4, <1>5, <1>6, <1>7, <1>8, <1>9
     DEF Next, Request, DeleteStep, CleanupStep

\* Intake keeps its manifest to itself along every step.
LEMMA IntakeStep ==
    ASSUME ManagerInv, Next
    PROVE  IntakeIsPrivate'
<1> DEFINE PrivateAfter(j) ==
             /\ upload'[j].pc = "reserved" => jobState'[j] = "unused"
             /\ upload'[j].pc \in IntakePc \ {"reserved"} =>
                  /\ jobState'[j] \in {"pending", "canceled", "deleted"}
                  /\ fileState'[j] = NoFiles
             /\ upload'[j].pc \in {"withdrawing", "restoring"} =>
                  upload'[j].seenState \in {"pending", "canceled"}
<1>0. /\ upload \in [Job -> UploadRecord] /\ DiskTypes
      /\ IntakeIsPrivate /\ GoneIsEmpty /\ UnsyncedIsListed
  BY DEF ManagerInv, TypeOK
<1>1. ASSUME NEW j \in Job, AcceptStep(j) \/ AcceptReserve(j) PROVE IntakeIsPrivate'
  <2>1. phase = "serving" /\ phase' = phase
    <3>1. phase = "serving"
      BY <1>0, <1>1 DEF AcceptStep, AcceptReserve, AcceptCreate, AcceptReceive, AcceptReject,
         AcceptSave, AcceptDiscard, AcceptRemoved,
         AcceptRemoveRaced, AcceptRemoveFails, AcceptRestore, DeleteLoad,
         AcceptReturn, InspectAcquire, InspectWaitExpired, InspectReturn,
         IntakeIsPrivate
    <3>2. UNCHANGED managerVars
      BY <1>1 DEF AcceptStep, AcceptReserve, AcceptCreate, AcceptReceive, AcceptReject,
         AcceptSave, AcceptDiscard, AcceptRemoved,
         AcceptRemoveRaced, AcceptRemoveFails, AcceptRestore, DeleteLoad,
         AcceptReturn, InspectAcquire, InspectWaitExpired, InspectReturn
    <3> QED
      BY <3>1, <3>2 DEF managerVars, processVars
  <2>2. \A k \in Job \ {j} : /\ jobState'[k] = jobState[k] /\ fileState'[k] = fileState[k]
                              /\ upload'[k] = upload[k]
    BY <1>0, <1>1, AcceptTouchesOne DEF AcceptReserve, diskVars
  <2>3. \A k \in Job \ {j} : PrivateAfter(k)
    BY <1>0, <2>2 DEF IntakeIsPrivate
  <2>4. ASSUME upload'[j].pc \notin IntakePc PROVE PrivateAfter(j)
    BY <2>4 DEF IntakePc
  <2>5. PrivateAfter(j)
    <3>1. CASE AcceptReserve(j)
      BY <1>0, <3>1 DEF AcceptReserve, UploadAt, diskVars
    <3>2. CASE \E o \in SaveOutcome : AcceptCreate(j, o)
      BY <1>0, <3>2 DEF AcceptCreate, UploadAt, IntakePc, DiskTypes, IntakeIsPrivate, GoneIsEmpty,
                        NoManifest
    <3>3. CASE AcceptReturn(j) \/ AcceptRemoved(j) \/ \E o \in SaveOutcome : AcceptRestore(j, o)
      <4>1. upload'[j].pc \notin IntakePc
        BY <1>0, <3>3 DEF AcceptReturn, AcceptRemoved, AcceptRestore, UploadAt, IntakePc
      <4> QED
        BY <2>4, <4>1
    <3>4. ASSUME NEW o \in SaveOutcome, AcceptSave(j, o) PROVE PrivateAfter(j)
      <4>1. CASE upload'[j].pc = "unsaved"
        <5>1. UNCHANGED <<jobState, fileState>>
          BY <1>0, <3>4, <4>1 DEF AcceptSave, Save, UploadAt, SaveOutcome, diskVars
        <5> QED
          BY <1>0, <3>4, <4>1, <5>1 DEF AcceptSave, IntakeIsPrivate, IntakePc
      <4>2. CASE upload'[j].pc # "unsaved"
        <5>1. upload'[j].pc \notin IntakePc
          BY <1>0, <3>4, <4>2 DEF AcceptSave, UploadAt, SaveOutcome, IntakePc
        <5> QED
          BY <2>4, <5>1
      <4> QED
        BY <4>1, <4>2
    <3>5. CASE AcceptReject(j) \/ AcceptDiscard(j)
      <4>1. /\ UNCHANGED <<jobState, fileState>> /\ DeleteLoad(j)
            /\ upload[j].pc \in {"receiving", "unsaved", "unsynced"}
        BY <3>5 DEF AcceptReject, AcceptDiscard, diskVars
      <4>2. CASE Exists(j) /\ fileState[j] = NoFiles
        <5>1. jobState[j] \in {"pending", "canceled"}
          BY <1>0, <4>1, <4>2 DEF IntakeIsPrivate, UnsyncedIsListed, IntakePc, Exists, JobState
        <5>2. upload'[j].pc = "withdrawing" /\ upload'[j].seenState = jobState[j]
          BY <1>0, <4>1, <4>2 DEF DeleteLoad
        <5> QED
          BY <4>1, <4>2, <5>1, <5>2 DEF IntakePc
      <4>3. CASE ~(Exists(j) /\ fileState[j] = NoFiles)
        <5>1. upload'[j].pc \notin IntakePc
          BY <1>0, <4>1, <4>3 DEF DeleteLoad, IntakePc
        <5> QED
          BY <2>4, <5>1
      <4> QED
        BY <4>2, <4>3
    <3>6. CASE AcceptRemoveRaced(j) \/ \E unlinked \in BOOLEAN : AcceptRemoveFails(j, unlinked)
      <4>1. CASE upload[j].pc = "withdrawing"
        <5>1. /\ upload'[j].pc = "restoring" /\ upload'[j].seenState = upload[j].seenState
              /\ \/ UNCHANGED <<jobState, fileState>>
                 \/ jobState'[j] = "deleted" /\ fileState'[j] = NoFiles
          BY <1>0, <3>6, <4>1 DEF AcceptRemoveRaced, AcceptRemoveFails, AfterFailedRemoval,
                                  UploadRecord, diskVars, DiskTypes
        <5> QED
          BY <1>0, <4>1, <5>1 DEF IntakeIsPrivate, IntakePc
      <4>2. CASE upload[j].pc # "withdrawing"
        <5>1. upload'[j].pc \notin IntakePc
          BY <1>0, <3>6, <4>2 DEF AcceptRemoveRaced, AcceptRemoveFails, AfterFailedRemoval,
                                  UploadAt, IntakePc
        <5> QED
          BY <2>4, <5>1
      <4> QED
        BY <4>1, <4>2
    <3>7. CASE \/ \E n \in File : AcceptReceive(j, n)
               \/ \E f \in File : \/ InspectAcquire(j, f) \/ InspectWaitExpired(j, f)
                                  \/ \E s \in {"inspected", "failed"} : InspectReturn(j, f, s)
      <4>1. /\ upload[j].pc \in {"receiving", "inspecting", "probing"}
            /\ upload'[j].pc \in {"inspecting", "probing"}
            /\ UNCHANGED <<jobState, fileState>>
        BY <1>0, <3>7 DEF AcceptReceive, InspectAcquire, InspectWaitExpired, InspectReturn,
                          diskVars, UploadRecord
      <4> QED
        BY <1>0, <4>1 DEF IntakeIsPrivate, IntakePc
    <3> QED
      BY <1>1, <3>1, <3>2, <3>3, <3>4, <3>5, <3>6, <3>7 DEF AcceptStep
  <2> QED
    BY <2>1, <2>3, <2>5 DEF IntakeIsPrivate
<1>2. ASSUME Exit \/ Crash PROVE IntakeIsPrivate'
  BY <1>2 DEF Exit, Crash, ProcessEnds, UploadAt, IntakeIsPrivate, IntakePc
<1>3. ASSUME UNCHANGED upload, ~(Exit \/ Crash),
             ~\E j \in Job : AcceptStep(j) \/ AcceptReserve(j)
      PROVE  IntakeIsPrivate'
  <2>1. phase' # "serving" => phase # "serving"
    <3>1. ASSUME NEW w \in Worker, WorkerStep(w) PROVE phase' = phase
      BY <3>1 DEF WorkerStep, WorkerReceive, WorkerRegister, WorkerLease, WorkerBegin,
         WorkerNextFile, WorkerEndFiles, WorkerMark, WorkerAcquire, WorkerWaitCanceled,
         WorkerConvert, WorkerConvertReturn, WorkerRecordResult, WorkerRecordCancel,
         WorkerRecordFailure, RecordFile, WorkerFinalize, WorkerRelease, WorkerDone, WorkerExit,
         managerVars, processVars
    <3>2. ASSUME NEW j \in Job, Request(j) \/ DeleteStep(j) \/ Expire(j), ~AcceptReserve(j)
          PROVE  phase' = phase
      BY <3>2 DEF Request, DeleteStep, Expire, Start, Cancel, DeleteCancel, DeleteCheck,
         DeleteUnleased, DeleteGiveUp, DeleteCommit, RemoveFile, ReaderLease, managerVars,
         processVars
    <3>3. ASSUME \/ \E r \in Reader : ReaderStep(r)
                 \/ CleanupStep \/ StopIntake \/ Shutdown \/ Drain \/ Restart \/ Recovery \/ Ended
          PROVE  phase' # "serving" => phase # "serving"
      BY <3>3 DEF ReaderStep, ReaderOpen, ReaderRelease, CleanupStep, CleanupList, CleanupJob,
         StopIntake, Shutdown, Drain, Restart, Recovery, RecoverJob, RecoverDone, Ended, vars,
         managerVars, processVars
    <3> QED
      BY <1>3, <3>1, <3>2, <3>3 DEF Next
  <2>2. \A j \in Job : upload[j].pc \in IntakePc => IntakeSafe(j)
    BY <1>3, OthersSpareIntake
  <2> QED
    BY <1>0, <1>3, <2>1, <2>2 DEF IntakeIsPrivate, IntakeSafe, IntakePc
<1> QED
  BY <1>1, <1>2, <1>3, UploadFrame
\* What is queued or with a worker has left intake, along every step.
LEMMA ScheduleStep ==
    ASSUME ManagerInv, Next
    PROVE  ScheduledIsListed'
<1>0. /\ TypeOK /\ WorkerShape /\ ScheduledIsListed /\ IntakeIsPrivate
      /\ queue \in Seq(Job) /\ UnsyncedIsListed
  BY DEF ManagerInv, TypeOK, ManagerTypes
<1>1. CASE Exit \/ Crash
  BY <1>1 DEF Exit, Crash, ProcessEnds, WorkerAt, ScheduledIsListed
<1>2. CASE ~(Exit \/ Crash)
  <2> DEFINE Listed(j) == jobState'[j] # "unused" /\ upload'[j].pc \notin IntakePc
  <2>1. \A j \in Job : Schedulable(j) =>
                          jobState'[j] # "unused" /\ upload'[j].pc \notin IntakePc
    <3> SUFFICES ASSUME NEW j \in Job, Schedulable(j)
                 PROVE  jobState'[j] # "unused" /\ upload'[j].pc \notin IntakePc
      OBVIOUS
    <3>1. jobState'[j] # "unused"
      BY StepMoves DEF ManifestMoves, Schedulable
    <3>2. upload'[j].pc \notin IntakePc
      <4>1. CASE UNCHANGED upload
        BY <4>1 DEF Schedulable
      <4>2. ASSUME NEW k \in Job, AcceptStep(k) \/ AcceptReserve(k)
            PROVE  upload'[j].pc \notin IntakePc
        <5>1. CASE k # j
          BY <1>0, <4>2, <5>1 DEF AcceptStep, AcceptReserve, AcceptCreate, AcceptReceive,
             AcceptReject, AcceptSave, AcceptDiscard, AcceptRemoved,
             AcceptRemoveRaced, AcceptRemoveFails, AcceptRestore, DeleteLoad,
             AcceptReturn, InspectAcquire,
             InspectWaitExpired, InspectReturn, Schedulable, TypeOK
        <5>2. CASE k = j
          <6>1. \/ AcceptDiscard(j) /\ upload[j].pc = "unsynced"
                \/ AcceptReturn(j)
                \/ /\ upload[j].pc = "removing"
                   /\ \/ AcceptRemoved(j) \/ AcceptRemoveRaced(j)
                      \/ \E unlinked \in BOOLEAN : AcceptRemoveFails(j, unlinked)
            BY <4>2, <5>2 DEF AcceptStep, AcceptReserve, AcceptCreate, AcceptReceive, AcceptReject,
               AcceptSave, AcceptDiscard, AcceptRemoved, AcceptRemoveRaced, AcceptRemoveFails,
               AcceptRestore, InspectAcquire, InspectWaitExpired, InspectReturn, Schedulable,
               IntakePc
          <6>2. CASE AcceptDiscard(j) /\ upload[j].pc = "unsynced"
            BY <1>0, <6>2 DEF AcceptDiscard, DeleteLoad, UnsyncedIsListed, Exists, JobState,
                              IntakePc, TypeOK
          <6>3. CASE ~(AcceptDiscard(j) /\ upload[j].pc = "unsynced")
            BY <1>0, <6>1, <6>3 DEF AcceptReturn, AcceptRemoved, AcceptRemoveRaced,
               AcceptRemoveFails, AfterFailedRemoval, UploadAt, IntakePc, TypeOK
          <6> QED
            BY <6>2, <6>3
        <5> QED
          BY <5>1, <5>2
      <4> QED
        BY <1>2, <4>1, <4>2, UploadFrame
    <3> QED
      BY <3>1, <3>2
  <2>2. \A i \in 1 .. Len(queue') : Listed(queue'[i])
    <3>1. CASE queue' = queue
      <4>1. \A i \in 1 .. Len(queue) : queue[i] \in Job /\ Schedulable(queue[i])
        BY <1>0 DEF ScheduledIsListed
      <4> QED
        BY <2>1, <3>1, <4>1
    <3>2. ASSUME NEW j \in Job, NEW o \in SaveOutcome, Start(j, o), queue' = Append(queue, j)
          PROVE  \A i \in 1 .. Len(queue') : Listed(queue'[i])
      <4>1. Schedulable(j)
        BY <1>0, <3>2 DEF Start, Startable, Convertible, Schedulable, IntakeIsPrivate, IntakePc,
                          NoFiles
      <4>2. \A i \in 1 .. Len(queue') : queue'[i] \in Job /\ Schedulable(queue'[i])
        BY <1>0, <3>2, <4>1 DEF ScheduledIsListed
      <4> QED
        BY <2>1, <4>2
    <3>3. ASSUME NEW w \in Worker, WorkerReceive(w)
          PROVE  \A i \in 1 .. Len(queue') : Listed(queue'[i])
      <4>1. \A i \in 1 .. Len(queue') : queue'[i] = queue[i + 1] /\ i + 1 \in 1 .. Len(queue)
        BY <1>0, <3>3 DEF WorkerReceive
      <4>2. \A i \in 1 .. Len(queue') : queue'[i] \in Job /\ Schedulable(queue'[i])
        BY <1>0, <4>1 DEF ScheduledIsListed
      <4> QED
        BY <2>1, <4>2
    <3>4. \/ queue' = queue
          \/ \E j \in Job, o \in SaveOutcome : Start(j, o) /\ queue' = Append(queue, j)
          \/ \E w \in Worker : WorkerReceive(w)
      <4>1. ASSUME NEW j \in Job, AcceptStep(j) \/ Request(j) \/ DeleteStep(j) \/ Expire(j)
            PROVE  queue' = queue \/ \E o \in SaveOutcome : Start(j, o) /\ queue' = Append(queue, j)
        BY <4>1 DEF AcceptStep, Request, DeleteStep, Expire, AcceptReserve, AcceptCreate,
           AcceptReceive, AcceptReject, AcceptSave, AcceptDiscard, AcceptRemoved,
           AcceptRemoveRaced, AcceptRemoveFails, AcceptRestore, DeleteLoad,
           AcceptReturn, InspectAcquire,
           InspectWaitExpired, InspectReturn, Start, Cancel, DeleteCancel, DeleteCheck,
           DeleteUnleased, DeleteGiveUp, DeleteCommit, RemoveFile, ReaderLease, managerVars,
           queueVars
      <4>2. ASSUME NEW w \in Worker, WorkerStep(w), ~WorkerReceive(w) PROVE queue' = queue
        BY <4>2 DEF WorkerStep, WorkerRegister, WorkerLease, WorkerBegin, WorkerNextFile,
           WorkerEndFiles, WorkerMark, WorkerAcquire, WorkerWaitCanceled, WorkerConvert,
           WorkerConvertReturn, WorkerRecordResult, WorkerRecordCancel, WorkerRecordFailure,
           RecordFile, WorkerFinalize, WorkerRelease, WorkerDone, WorkerExit, managerVars, queueVars
      <4>3. ASSUME \/ \E r \in Reader : ReaderStep(r)
                   \/ CleanupStep \/ StopIntake \/ Shutdown \/ Drain \/ Restart \/ Recovery \/ Ended
            PROVE  queue' = queue
        BY <4>3 DEF ReaderStep, ReaderOpen, ReaderRelease, CleanupStep, CleanupList, CleanupJob,
           StopIntake, Shutdown, Drain, Restart, Recovery, RecoverJob, RecoverDone, Ended, vars,
           managerVars, queueVars
      <4> QED
        BY <1>2, <4>1, <4>2, <4>3 DEF Next
    <3> QED
      BY <3>1, <3>2, <3>3, <3>4
  <2>3. \A w \in Worker : worker'[w].pc \notin {"idle", "exited"} => Listed(worker'[w].job)
    <3> SUFFICES ASSUME NEW w \in Worker, worker'[w].pc \notin {"idle", "exited"}
                 PROVE  Listed(worker'[w].job)
      OBVIOUS
    <3>1. /\ worker[w].pc \notin {"idle", "exited"} =>
               worker[w].job \in Job /\ Schedulable(worker[w].job)
          /\ queue # <<>> => Head(queue) \in Job /\ Schedulable(Head(queue))
      BY <1>0 DEF WorkerShape, ScheduledIsListed
    <3>2. \/ worker'[w].job = worker[w].job /\ worker[w].pc \notin {"idle", "exited"}
          \/ queue # <<>> /\ worker'[w].job = Head(queue)
      <4>1. CASE UNCHANGED worker
        BY <4>1
      <4>2. ASSUME NEW u \in Worker, WorkerStep(u), u # w PROVE worker'[w] = worker[w]
        BY <1>0, <4>2 DEF WorkerStep, WorkerReceive, WorkerRegister, WorkerLease, WorkerBegin,
           WorkerNextFile, WorkerEndFiles, WorkerMark, WorkerAcquire, WorkerWaitCanceled,
           WorkerConvert, WorkerConvertReturn, WorkerRecordResult, WorkerRecordCancel,
           WorkerRecordFailure, RecordFile, WorkerFinalize, WorkerRelease, WorkerDone, WorkerExit,
           BackToScan, TypeOK
      <4>3. CASE WorkerReceive(w)
        BY <1>0, <4>3 DEF WorkerReceive, WorkerAt, TypeOK
      <4>4. CASE WorkerDone(w) \/ WorkerExit(w)
        BY <1>0, <4>4 DEF WorkerDone, WorkerExit, WorkerAt, TypeOK
      <4>5. CASE WorkerStep(w) /\ ~WorkerReceive(w) /\ ~WorkerDone(w) /\ ~WorkerExit(w)
        <5> USE <1>0 DEF TypeOK, WorkerRecord
        <5>1. CASE WorkerRegister(w) \/ WorkerLease(w) \/ WorkerEndFiles(w) \/ WorkerRelease(w)
          BY <5>1 DEF WorkerRegister, WorkerLease, WorkerEndFiles, WorkerRelease
        <5>2. CASE \E o \in SaveOutcome : WorkerBegin(w, o) \/ WorkerFinalize(w, o)
          BY <5>2 DEF WorkerBegin, WorkerFinalize
        <5>3. CASE \E f \in File : WorkerNextFile(w, f)
          BY <5>3 DEF WorkerNextFile
        <5>4. CASE \E o \in SaveOutcome : WorkerMark(w, o)
          BY <5>4 DEF WorkerMark, BackToScan
        <5>5. CASE WorkerAcquire(w) \/ WorkerWaitCanceled(w)
          BY <5>5 DEF WorkerAcquire, WorkerWaitCanceled
        <5>6. CASE \/ \E n \in {"converting", "recordCancel", "recordFailure"} : WorkerConvert(w, n)
                   \/ \E r \in {"completed", "failed", "canceled"} : WorkerConvertReturn(w, r)
          BY <5>6 DEF WorkerConvert, WorkerConvertReturn
        <5>7. CASE \E o \in SaveOutcome : \/ WorkerRecordResult(w, o) \/ WorkerRecordCancel(w, o)
                                        \/ WorkerRecordFailure(w, o)
          BY <5>7 DEF WorkerRecordResult, WorkerRecordCancel, WorkerRecordFailure, RecordFile,
                      BackToScan
        <5> QED
          BY <4>5, <5>1, <5>2, <5>3, <5>4, <5>5, <5>6, <5>7 DEF WorkerStep
      <4> QED
        BY <1>2, <4>1, <4>2, <4>3, <4>4, <4>5, WorkerFrame
    <3> QED
      BY <2>1, <3>1, <3>2
  <2> QED
    BY <2>2, <2>3 DEF ScheduledIsListed, Schedulable
<1> QED
  BY <1>1, <1>2
\* A worker's job and file have begun, along every step.
LEMMA BegunStep ==
    ASSUME ManagerInv, Next
    PROVE  WorkIsBegun'
<1> DEFINE JobHasBegun(w) == jobState'[worker'[w].job] \in Begun
           FileHasBegun(w) == \/ jobState'[worker'[w].job] = "deleted"
                              \/ fileState'[worker'[w].job][worker'[w].file] \in FileBegun
<1>0. /\ worker \in [Worker -> WorkerRecord] /\ DiskTypes
      /\ WorkerShape /\ WorkIsBegun
  BY DEF ManagerInv, TypeOK
<1>1. \A w \in Worker :
         /\ worker[w].pc \in FilePc \cup {"scan", "finalize"} /\ worker'[w].job = worker[w].job
               => JobHasBegun(w)
         /\ worker[w].pc \in FilePc \ {"mark"} /\ worker'[w].job = worker[w].job
              /\ worker'[w].file = worker[w].file => FileHasBegun(w)
  <2>1. ASSUME NEW w \in Worker, worker'[w].job = worker[w].job,
               worker[w].pc \in FilePc \cup {"scan", "finalize"}
        PROVE  /\ JobHasBegun(w)
               /\ worker[w].pc \in FilePc \ {"mark"} /\ worker'[w].file = worker[w].file
                     => FileHasBegun(w)
    <3>1. PICK j \in Job : j = worker[w].job
      BY <1>0, <2>1 DEF WorkerShape, FilePc
    <3>2. ManifestMoves(j) /\ jobState[j] \in Begun /\ ~PutsEmptyJobBack(j)
      <4>1. Schedulable(j)
        BY <2>1, <3>1 DEF ManagerInv, ScheduledIsListed, FilePc
      <4>2. ~PutsEmptyJobBack(j)
        BY <4>1 DEF Schedulable, IntakePc, PutsEmptyJobBack, Withdrawn
      <4> QED
        BY <1>0, <2>1, <3>1, <4>2, StepMoves DEF WorkIsBegun
    <3>3. jobState[j] # "pending"
      BY <3>2 DEF Begun
    <3>4. ASSUME worker[w].pc \in FilePc \ {"mark"}, worker'[w].file = worker[w].file
          PROVE  FileHasBegun(w)
      <4>1. worker[w].file \in File
        BY <1>0, <3>4 DEF WorkerShape
      <4>2. jobState[j] = "deleted" \/ fileState[j][worker[w].file] \in FileBegun
        BY <1>0, <3>1, <3>4 DEF WorkIsBegun
      <4> QED
        BY <2>1, <3>1, <3>2, <3>3, <3>4, <4>1, <4>2 DEF ManifestMoves
    <3> QED
      BY <2>1, <3>1, <3>2, <3>4 DEF ManifestMoves
  <2> QED
    BY <2>1
<1>2. ASSUME NEW w \in Worker,
             worker'[w].pc \in FilePc \cup {"scan", "finalize"} => JobHasBegun(w),
             worker'[w].pc \in FilePc \ {"mark"} => FileHasBegun(w),
             \A u \in Worker \ {w} : worker'[u] = worker[u]
      PROVE  WorkIsBegun'
  BY <1>1, <1>2 DEF WorkIsBegun
<1>3. ASSUME NEW w \in Worker, WorkerStep(w) PROVE WorkIsBegun'
  <2>1. CASE WorkerReceive(w) \/ WorkerDone(w) \/ WorkerExit(w)
    BY <1>0, <1>2, <2>1 DEF WorkerReceive, WorkerDone, WorkerExit, WorkerAt, FilePc
  <2>2. CASE WorkerRegister(w) \/ WorkerLease(w) \/ WorkerRelease(w)
    BY <1>0, <1>2, <2>2 DEF WorkerRegister, WorkerLease, WorkerRelease, WorkerRecord, FilePc
  <2>3. CASE \E o \in SaveOutcome : WorkerBegin(w, o)
    <3>1. worker[w].pc = "begin" /\ worker[w].job \in Job
      BY <1>0, <2>3 DEF WorkerBegin, WorkerShape
    <3>2. /\ worker'[w].pc \in {"scan", "release"} /\ worker'[w].job = worker[w].job
          /\ worker'[w].pc = "scan" => jobState'[worker[w].job] = "running"
          /\ \A u \in Worker \ {w} : worker'[u] = worker[u]
      BY <1>0, <2>3, <3>1 DEF WorkerBegin, WorkerRecord, Save, DiskTypes
    <3> QED
      BY <1>2, <3>2 DEF FilePc, Begun
  <2>4. CASE WorkerEndFiles(w) \/ \E f \in File : WorkerNextFile(w, f)
    <3>1. /\ worker[w].pc = "scan" /\ worker'[w].pc \in {"finalize", "mark"}
          /\ worker'[w].job = worker[w].job
          /\ \A u \in Worker \ {w} : worker'[u] = worker[u]
      <4>1. CASE WorkerEndFiles(w)
        BY <1>0, <4>1 DEF WorkerEndFiles, WorkerRecord
      <4>2. CASE \E f \in File : WorkerNextFile(w, f)
        BY <1>0, <4>2 DEF WorkerNextFile, WorkerRecord
      <4> QED
        BY <2>4, <4>1, <4>2
    <3> QED
      BY <1>1, <1>2, <3>1 DEF FilePc
  <2>5. CASE \E o \in SaveOutcome : WorkerMark(w, o)
    <3>1. worker[w].pc = "mark" /\ worker[w].job \in Job /\ worker[w].file \in File
      BY <1>0, <2>5 DEF WorkerMark, WorkerShape, FilePc
    <3>2. /\ worker'[w].pc \in {"scan", "acquire"} /\ worker'[w].job = worker[w].job
          /\ \A u \in Worker \ {w} : worker'[u] = worker[u]
      BY <1>0, <2>5 DEF WorkerMark, BackToScan, WorkerRecord
    <3>3. worker'[w].pc = "acquire" =>
             /\ worker'[w].file = worker[w].file
             /\ fileState'[worker[w].job][worker[w].file] = "running"
      BY <1>0, <2>5, <3>1 DEF WorkerMark, BackToScan, WorkerRecord, Save, DiskTypes, Files
    <3> QED
      BY <1>1, <1>2, <3>1, <3>2, <3>3 DEF FilePc, FileBegun
  <2>6. CASE WorkerAcquire(w) \/ WorkerWaitCanceled(w)
    BY <1>0, <1>1, <1>2, <2>6 DEF WorkerAcquire, WorkerWaitCanceled, WorkerRecord, FilePc
  <2>7. CASE \E n \in {"converting", "recordCancel", "recordFailure"} : WorkerConvert(w, n)
    BY <1>0, <1>1, <1>2, <2>7 DEF WorkerConvert, WorkerRecord, FilePc
  <2>8. CASE \E r \in {"completed", "failed", "canceled"} : WorkerConvertReturn(w, r)
    BY <1>0, <1>1, <1>2, <2>8 DEF WorkerConvertReturn, WorkerRecord, FilePc
  <2>9. CASE \E o \in SaveOutcome : \/ WorkerRecordResult(w, o) \/ WorkerRecordCancel(w, o)
                                    \/ WorkerRecordFailure(w, o)
    <3>1. worker' = BackToScan(w) /\ worker[w].pc \in FilePc
      BY <2>9 DEF WorkerRecordResult, WorkerRecordCancel, WorkerRecordFailure, RecordFile, FilePc
    <3>2. /\ worker'[w].pc = "scan" /\ worker'[w].job = worker[w].job
          /\ \A u \in Worker \ {w} : worker'[u] = worker[u]
      BY <1>0, <3>1 DEF BackToScan, WorkerRecord
    <3> QED
      BY <1>1, <1>2, <3>1, <3>2 DEF FilePc
  <2>10. CASE \E o \in SaveOutcome : WorkerFinalize(w, o)
    BY <1>0, <1>2, <2>10 DEF WorkerFinalize, WorkerRecord, FilePc
  <2> QED
    BY <1>3, <2>1, <2>2, <2>3, <2>4, <2>5, <2>6, <2>7, <2>8, <2>9, <2>10 DEF WorkerStep
<1>4. CASE Exit \/ Crash
  BY <1>4 DEF Exit, Crash, ProcessEnds, WorkerAt, WorkIsBegun, FilePc
<1>5. CASE UNCHANGED worker
  BY <1>1, <1>5 DEF WorkIsBegun
<1> QED
  BY <1>3, <1>4, <1>5, WorkerFrame

\* Only a deletion and RemoveFile leave a job without a listed file.
LEMMA ListedStays ==
    ASSUME ManagerInv, Next, NEW j \in Job, ~AcceptStep(j),
           ~\E f \in File, o \in SaveOutcome : RemoveFile(j, f, o),
           Exists(j), fileState[j] # NoFiles
    PROVE  jobState'[j] = "deleted" \/ fileState'[j] # NoFiles
<1>0. DiskTypes /\ fileState[j] \in Files /\ upload \in [Job -> UploadRecord]
  BY DEF ManagerInv, TypeOK, DiskTypes
<1>1. PICK f \in File : fileState[j][f] # "absent"
  BY <1>0 DEF Files, NoFiles
<1>2. ASSUME NEW k \in Job, NEW state, NEW files, NEW o \in SaveOutcome, Save(k, state, files, o),
             k = j => files[f] # "absent"
      PROVE  fileState'[j] # NoFiles
  BY <1>0, <1>1, <1>2 DEF Save, SaveOutcome, DiskTypes, NoFiles
<1>3. ASSUME NEW k \in Job, Remove(k)
      PROVE  jobState'[j] = "deleted" \/ fileState'[j] # NoFiles
  BY <1>0, <1>3 DEF Remove, DiskTypes
<1>4. ASSUME NEW s \in {"canceled", "interrupted"} PROVE SettleFiles(fileState[j], s)[f] # "absent"
  BY <1>0, <1>1, SettleSettles
<1>5. ASSUME NEW k \in Job, AcceptStep(k) PROVE fileState'[j] # NoFiles
  <2>1. k # j
    BY <1>5
  <2> QED
    BY <1>0, <1>5, <2>1, AcceptTouchesOne
<1>6. ASSUME NEW k \in Job, NEW o \in SaveOutcome, Start(k, o) PROVE fileState'[j] # NoFiles
  <2>1. [g \in File |-> IF g \in Convertible(j) THEN "queued" ELSE fileState[j][g]][f] # "absent"
    BY <1>1
  <2> QED
    BY <1>2, <1>6, <2>1 DEF Start
<1>7. ASSUME NEW k \in Job, NEW o \in SaveOutcome, Cancel(k, o) \/ RecoverJob(k, o)
      PROVE  fileState'[j] # NoFiles
  <2>1. CASE Cancel(k, o)
    BY <1>2, <1>4, <2>1 DEF Cancel
  <2>2. CASE RecoverJob(k, o)
    BY <1>2, <1>4, <2>2 DEF RecoverJob
  <2> QED
    BY <1>7, <2>1, <2>2
<1>8. ASSUME NEW k \in Job, DeleteCommit(k) \/ CleanupJob(k)
      PROVE  jobState'[j] = "deleted" \/ fileState'[j] # NoFiles
  BY <1>3, <1>8 DEF DeleteCommit, CleanupJob, diskVars
<1>9. ASSUME NEW k \in Job, NEW g \in File, NEW o \in SaveOutcome, RemoveFile(k, g, o)
      PROVE  jobState'[j] = "deleted" \/ fileState'[j] # NoFiles
  <2>1. k # j
    BY <1>9
  <2>2. Remove(k) \/ Save(k, "pending", [fileState[k] EXCEPT ![g] = "absent"], o)
    BY <1>9 DEF RemoveFile
  <2> QED
    BY <1>0, <2>1, <2>2, OneJob
<1>10. ASSUME NEW w \in Worker, WorkerStep(w) PROVE fileState'[j] # NoFiles
  <2>1. PICK k : k = worker[w].job
    OBVIOUS
  <2>2. ASSUME worker[w].pc \notin {"idle", "exited"} PROVE k \in Job
    BY <2>1, <2>2 DEF ManagerInv, WorkerShape
  <2>3. CASE \E o \in SaveOutcome : WorkerBegin(w, o)
    BY <1>1, <1>2, <2>1, <2>2, <2>3 DEF WorkerBegin, diskVars
  <2>4. CASE \E o \in SaveOutcome : WorkerMark(w, o)
    <3>1. \A g : [fileState[j] EXCEPT ![g] = "running"][f] # "absent"
      BY <1>0, <1>1 DEF Files
    <3> QED
      BY <1>2, <2>1, <2>2, <2>4, <3>1 DEF WorkerMark, diskVars
  <2>5. CASE \E o \in SaveOutcome : \/ WorkerRecordResult(w, o) \/ WorkerRecordCancel(w, o)
                                    \/ WorkerRecordFailure(w, o)
    <3>0. /\ ResultIsLate(w) \in BOOLEAN
          /\ worker[w].pc = "recordResult" =>
                worker[w].result \in {"completed", "failed", "canceled"}
      BY DEF ResultIsLate, JobTerminal, ManagerInv, WorkerShape, TypeOK, WorkerRecord
    <3>1. PICK o \in SaveOutcome, skip \in BOOLEAN, state \in {"completed", "failed", "canceled"} :
             RecordFile(w, skip, state, o) /\ worker[w].pc \notin {"idle", "exited"}
      BY <2>5, <3>0 DEF WorkerRecordResult, WorkerRecordCancel, WorkerRecordFailure
    <3>2. \A g : [fileState[j] EXCEPT ![g] = state][f] # "absent"
      BY <1>0, <1>1, <3>1 DEF Files
    <3> QED
      BY <1>2, <2>1, <2>2, <3>1, <3>2 DEF RecordFile, diskVars
  <2>6. CASE \E o \in SaveOutcome : WorkerFinalize(w, o)
    BY <1>2, <1>4, <2>1, <2>2, <2>6 DEF WorkerFinalize, diskVars
  <2>7. CASE \/ WorkerReceive(w) \/ WorkerRegister(w) \/ WorkerLease(w)
             \/ \E g \in File : WorkerNextFile(w, g)
             \/ WorkerEndFiles(w) \/ WorkerAcquire(w) \/ WorkerWaitCanceled(w)
             \/ \E n \in {"converting", "recordCancel", "recordFailure"} : WorkerConvert(w, n)
             \/ \E r \in {"completed", "failed", "canceled"} : WorkerConvertReturn(w, r)
             \/ WorkerRelease(w) \/ WorkerDone(w) \/ WorkerExit(w)
    BY <2>7 DEF WorkerReceive, WorkerRegister, WorkerLease, WorkerNextFile, WorkerEndFiles,
                WorkerAcquire, WorkerWaitCanceled, WorkerConvert, WorkerConvertReturn,
                WorkerRelease, WorkerDone, WorkerExit, diskVars
  <2> QED
    BY <1>10, <2>3, <2>4, <2>5, <2>6, <2>7 DEF WorkerStep
<1>11. ASSUME NEW k \in Job,
              \/ AcceptReserve(k) \/ DeleteCancel(k) \/ \E r \in Reader : ReaderLease(r, k)
              \/ DeleteCheck(k) \/ DeleteUnleased(k) \/ DeleteGiveUp(k) \/ Expire(k)
       PROVE  fileState'[j] # NoFiles
  BY <1>11 DEF AcceptReserve, DeleteCancel, ReaderLease, DeleteCheck, DeleteUnleased,
               DeleteGiveUp, Expire, diskVars
<1>12. ASSUME \/ \E r \in Reader : ReaderStep(r)
              \/ CleanupList \/ StopIntake \/ Shutdown \/ Drain \/ Exit \/ Crash \/ Restart
              \/ RecoverDone \/ Ended
       PROVE  fileState'[j] # NoFiles
  BY <1>12 DEF ReaderStep, ReaderOpen, ReaderRelease, CleanupList, StopIntake, Shutdown, Drain,
               Exit, Crash, ProcessEnds, Restart, RecoverDone, Ended, diskVars, vars
<1> QED
  BY <1>5, <1>6, <1>7, <1>8, <1>9, <1>10, <1>11, <1>12
     DEF Next, Request, DeleteStep, CleanupStep, Recovery

\* A failed update that reached the disk stays listed until its removal: Accept
\* holds a lease, which keeps RemoveFile away.
LEMMA UnsyncedStep ==
    ASSUME ManagerInv, Next
    PROVE  UnsyncedIsListed'
<1> SUFFICES ASSUME NEW j \in Job, upload'[j].pc = "unsynced"
             PROVE  jobState'[j] = "deleted" \/ fileState'[j] # NoFiles
  BY DEF UnsyncedIsListed
<1>0. /\ TypeOK /\ LeasesAreCounted /\ UnsyncedIsListed /\ GoneIsEmpty /\ IntakeIsPrivate
      /\ UploadFilesAreProbed /\ DiskTypes /\ upload \in [Job -> UploadRecord] /\ 1 \in File
  BY BoundsAssumption DEF ManagerInv, TypeOK, File
<1>1. CASE AcceptStep(j)
  <2>1. PICK o \in SaveOutcome : AcceptSave(j, o)
    <3>1. ~(AcceptReject(j) \/ AcceptDiscard(j))
      BY <1>0 DEF AcceptReject, AcceptDiscard, DeleteLoad
    <3>2. ~(AcceptRemoveRaced(j) \/ \E unlinked \in BOOLEAN : AcceptRemoveFails(j, unlinked))
      BY <1>0 DEF AcceptRemoveRaced, AcceptRemoveFails, AfterFailedRemoval, UploadAt, UploadRecord
    <3>3. ~(\/ AcceptRemoved(j) \/ AcceptReturn(j)
            \/ \E o \in SaveOutcome : AcceptCreate(j, o) \/ AcceptRestore(j, o))
      BY <1>0 DEF AcceptRemoved, AcceptReturn, AcceptCreate, AcceptRestore, UploadAt
    <3>4. ~(\/ \E n \in File : AcceptReceive(j, n)
            \/ \E f \in File : InspectAcquire(j, f) \/ InspectWaitExpired(j, f))
      BY <1>0 DEF AcceptReceive, InspectAcquire, InspectWaitExpired, UploadRecord
    <3>5. ~\E f \in File, s \in {"inspected", "failed"} : InspectReturn(j, f, s)
      BY <1>0 DEF InspectReturn, UploadRecord
    <3> QED
      BY <1>1, <3>1, <3>2, <3>3, <3>4, <3>5 DEF AcceptStep
  <2>2. upload[j].files \in Files /\ upload[j].files[1] # "absent"
    BY <1>0, <2>1 DEF AcceptSave, UploadFilesAreProbed, UploadRecord
  <2>3. AcceptedFiles(j)[1] # "absent"
    BY <1>0, <2>2, SettleSettles DEF AcceptedFiles
  <2>4. Save(j, jobState[j], AcceptedFiles(j), o) /\ o = "unsynced"
    BY <1>0, <2>1 DEF AcceptSave, UploadAt, SaveOutcome
  <2> QED
    BY <1>0, <2>3, <2>4 DEF Save, DiskTypes, NoFiles
<1>2. CASE ~AcceptStep(j)
  <2>1. upload[j].pc = "unsynced"
    <3>1. ASSUME NEW k \in Job, AcceptStep(k) PROVE upload[j].pc = "unsynced"
      BY <1>0, <1>2, <3>1, AcceptTouchesOne
    <3>2. ASSUME NEW k \in Job, AcceptReserve(k) PROVE upload[j].pc = "unsynced"
      BY <1>0, <3>2 DEF AcceptReserve, UploadAt
    <3>3. ASSUME Exit \/ Crash PROVE FALSE
      BY <3>3 DEF Exit, Crash, ProcessEnds, UploadAt
    <3> QED
      BY <3>1, <3>2, <3>3, UploadFrame
  <2>2. Leased(j)
    <3>1. j \in Holders(j) /\ IsFiniteSet(Holders(j))
      BY <1>0, <2>1, HoldersAre DEF UploadHolds
    <3>2. Cardinality(Holders(j)) >= 1 /\ Cardinality(Holders(j)) \in Nat
      BY <3>1, CountLoses
    <3> QED
      BY <1>0, <3>2 DEF LeasesAreCounted, Leased
  <2>3. ~\E f \in File, o \in SaveOutcome : RemoveFile(j, f, o)
    BY <2>2 DEF RemoveFile
  <2>4. CASE Exists(j) /\ fileState[j] # NoFiles
    BY <1>2, <2>3, <2>4, ListedStays
  <2>5. CASE ~(Exists(j) /\ fileState[j] # NoFiles)
    <3>1. jobState[j] = "deleted"
      BY <1>0, <2>1, <2>5 DEF UnsyncedIsListed, GoneIsEmpty, Exists, DiskTypes, NoManifest
    <3>2. ~PutsEmptyJobBack(j)
      BY <2>1 DEF PutsEmptyJobBack, Withdrawn
    <3> QED
      BY <3>1, <3>2, StepMoves DEF ManifestMoves
  <2> QED
    BY <2>4, <2>5
<1> QED
  BY <1>1, <1>2

\* Init satisfies the inductive invariant.
LEMMA ManagerInit == Init => ManagerInv
<1> SUFFICES ASSUME Init PROVE ManagerInv
  OBVIOUS
<1>1. UploadFilesAreProbed /\ IntakeIsPrivate /\ UnsyncedIsListed
  BY DEF Init, UploadFilesAreProbed, IntakeIsPrivate, UnsyncedIsListed, IntakePc, UploadAt, NoFiles
<1>2. ScheduledIsListed /\ WorkIsBegun
  BY DEF Init, ScheduledIsListed, WorkIsBegun, WorkerAt, FilePc
<1>3. GoneIsEmpty /\ TerminalJobIsSettled
  BY DEF Init, GoneIsEmpty, TerminalJobIsSettled, JobTerminal
<1>4. \A j \in Job : Holders(j) = {} /\ leases[j] = 0
  BY DEF Init, Holders, WorkerAt, UploadAt, IdleReader, LeasedPc
<1>5. LeasesAreCounted
  BY <1>4, FS_EmptySet DEF LeasesAreCounted
<1> QED
  BY <1>1, <1>2, <1>3, <1>5, TypeInit DEF ManagerInv

\* Every step keeps the inductive invariant.
LEMMA ManagerStep == ManagerInv /\ [Next]_vars => ManagerInv'
<1> SUFFICES ASSUME ManagerInv, [Next]_vars PROVE ManagerInv'
  OBVIOUS
<1>1. TypeOK' /\ WorkerShape' /\ SeenIsStored'
  BY TypeStep DEF ManagerInv
<1>2. GoneIsEmpty' /\ TerminalJobIsSettled'
  BY StepMoves
<1>3. CASE Next
  <2>1. LeasesAreCounted'
    BY <1>1, <1>3, LeaseStep DEF ManagerInv
  <2> QED
    BY <1>1, <1>2, <1>3, <2>1, ProbedStep, IntakeStep, UnsyncedStep, ScheduleStep, BegunStep
       DEF ManagerInv
<1>4. CASE UNCHANGED vars
  <2>1. UploadFilesAreProbed' /\ IntakeIsPrivate' /\ UnsyncedIsListed' /\ LeasesAreCounted'
    BY <1>4 DEF ManagerInv, vars, UploadFilesAreProbed, IntakeIsPrivate, UnsyncedIsListed,
                LeasesAreCounted, Holders
  <2>2. ScheduledIsListed' /\ WorkIsBegun'
    BY <1>4 DEF ManagerInv, vars, ScheduledIsListed, Schedulable, WorkIsBegun
  <2> QED
    BY <1>1, <1>2, <2>1, <2>2 DEF ManagerInv
<1> QED
  BY <1>3, <1>4

\* The inductive invariant holds in every reachable state: types, the locals of the
\* workers, the privacy of intake, the schedule, and settled manifests together.
THEOREM ManagerInvariance == Spec => []ManagerInv
BY ManagerInit, ManagerStep, PTL DEF Spec

-----------------------------------------------------------------------------
(* The results *)

\* Whatever interleaving of uploads, requests, workers, failed writes, crashes
\* and recoveries led there, a job in a terminal state has only terminal files.
THEOREM TerminalJobsAreSettled == Spec => []TerminalJobIsSettled
<1>1. ManagerInv => TerminalJobIsSettled
  BY DEF ManagerInv
<1> QED
  BY <1>1, ManagerInvariance, PTL

\* A terminal job keeps its state and its terminal files theirs until the job is
\* deleted, and a deleted job stays deleted: a late converter result, the final
\* update of Accept and recovery change nothing a client has seen settle.  The
\* empty job of a rejected upload, put back when its removal failed, is the only
\* exception.
THEOREM TerminalJobsAreFinal == Spec => TerminalIsFinal
<1> DEFINE Final == \A j \in Job : PutsEmptyJobBack(j) \/
         /\ JobTerminal(jobState[j]) => jobState'[j] \in {jobState[j], "deleted"}
         /\ jobState[j] = "deleted" => jobState'[j] = "deleted"
         /\ \A f \in File : FileTerminal(fileState[j][f]) /\ jobState[j] # "pending" =>
               fileState'[j][f] = fileState[j][f] \/ jobState'[j] = "deleted"
<1>1. ManagerInv /\ [Next]_vars => [Final]_vars
  <2> SUFFICES ASSUME ManagerInv, [Next]_vars PROVE Final
    OBVIOUS
  <2> QED
    BY StepMoves DEF ManifestMoves
<1> QED
  BY <1>1, ManagerInvariance, PTL DEF Spec, TerminalIsFinal

\* The manager implements the manifest lifecycle of module JobLifecycle, the
\* withdrawal of rejected uploads included.
THEOREM ManagerImplementsLifecycle == Spec => ImplementsLifecycle
<1>1. Init => Lifecycle!Init
  BY SameStates DEF Init, Lifecycle!Init, Withdrawn, UploadAt
<1>2. ManagerInv /\ [Next]_vars => [Lifecycle!Next]_Lifecycle!lifecycleVars
  BY StepRefines
<1> QED
  BY <1>1, <1>2, ManagerInvariance, PTL DEF Spec, ImplementsLifecycle, Lifecycle!Spec

-----------------------------------------------------------------------------
(* Process slots *)

SlotWorkers == {w \in Worker : worker[w].slot}
Probing == {j \in Job : upload[j].pc = "probing"}

\* Slots are held inside convertFile and by finitely many probes, and counted.
SlotInv == SlotsAreScoped /\ IsFiniteSet(Probing) /\ SlotsAreCounted

\* The workers that hold a slot are finitely many.
LEMMA SlotWorkersFinite == IsFiniteSet(SlotWorkers)
  BY ActorsAssumption, FS_Subset DEF SlotWorkers

\* A pool without slots in use.
LEMMA NoSlots ==
    ASSUME SlotWorkers' = {}, Probing' = {}, semaphore' = 0
    PROVE  IsFiniteSet(Probing)' /\ SlotsAreCounted'
<1>1. Capacity \in Nat
  BY ActorsAssumption, FS_CardinalityType DEF Capacity
<1>2. Cardinality(SlotWorkers)' = 0 /\ Cardinality(Probing)' = 0 /\ IsFiniteSet(Probing)'
  BY FS_EmptySet
<1> QED
  BY <1>1, <1>2 DEF SlotsAreCounted, SlotWorkers, Probing, Capacity

\* Every step moves the semaphore with the probes and conversions that hold it.
LEMMA SlotStep ==
    ASSUME TypeOK, TypeOK', SlotInv, Next
    PROVE  SlotInv'
<1> DEFINE S == Cardinality(SlotWorkers)
           P == Cardinality(Probing)
<1>0. /\ S \in Nat /\ P \in Nat /\ semaphore = S + P /\ semaphore <= Capacity
      /\ Capacity \in Nat
  BY SlotWorkersFinite, ActorsAssumption, FS_CardinalityType
     DEF SlotInv, SlotsAreCounted, SlotWorkers, Probing, Capacity
<1>1. ASSUME IsFiniteSet(Probing)', SlotsAreScoped',
             Cardinality(SlotWorkers)' + Cardinality(Probing)' = semaphore',
             semaphore' <= Capacity
      PROVE  SlotInv'
  BY <1>1 DEF SlotInv, SlotsAreCounted, SlotWorkers, Probing, Capacity
<1>2. ASSUME UNCHANGED <<worker, upload, semaphore>> PROVE SlotInv'
  BY <1>2 DEF SlotInv, SlotsAreScoped, SlotsAreCounted, Probing, Capacity
<1>3. ASSUME NEW j \in Job, AcceptStep(j) \/ AcceptReserve(j) PROVE SlotInv'
  <2>1. UNCHANGED worker /\ \A k \in Job \ {j} : upload'[k] = upload[k]
    BY <1>3, AcceptCounts
  <2>2. SlotWorkers' = SlotWorkers /\ SlotsAreScoped'
    BY <2>1 DEF SlotWorkers, SlotInv, SlotsAreScoped
  <2>3. CASE UNCHANGED semaphore /\ (upload[j].pc = "probing" <=> upload'[j].pc = "probing")
    <3>1. Probing' = Probing
      BY <2>1, <2>3 DEF Probing
    <3> QED
      BY <1>0, <1>1, <2>2, <2>3, <3>1 DEF SlotInv
  <2>4. CASE /\ upload[j].pc # "probing" /\ upload'[j].pc = "probing"
             /\ semaphore < Capacity /\ semaphore' = semaphore + 1
    <3>1. Probing' = Probing \cup {j} /\ j \notin Probing
      BY <2>1, <2>4 DEF Probing
    <3>2. IsFiniteSet(Probing') /\ Cardinality(Probing') = P + 1
      BY <3>1, CountGains DEF SlotInv
    <3> QED
      BY <1>0, <1>1, <2>2, <2>4, <3>2
  <2>5. CASE /\ upload[j].pc = "probing" /\ upload'[j].pc # "probing"
             /\ semaphore' = semaphore - 1
    <3>1. Probing' = Probing \ {j} /\ j \in Probing
      BY <2>1, <2>5 DEF Probing
    <3>2. IsFiniteSet(Probing') /\ Cardinality(Probing') = P - 1
      BY <3>1, CountLoses DEF SlotInv
    <3> QED
      BY <1>0, <1>1, <2>2, <2>5, <3>2
  <2> QED
    BY <1>3, <2>3, <2>4, <2>5, AcceptCounts
<1>4. ASSUME NEW w \in Worker, WorkerWorks(w) PROVE SlotInv'
  <2>1. /\ UNCHANGED upload /\ \A u \in Worker \ {w} : worker'[u] = worker[u]
        /\ worker'[w].slot => worker'[w].pc \in SlotPc
    BY <1>4, WorkCounts DEF SlotInv, SlotsAreScoped
  <2>2. Probing' = Probing /\ SlotsAreScoped' /\ IsFiniteSet(Probing)
    BY <2>1 DEF Probing, SlotInv, SlotsAreScoped
  <2>3. CASE UNCHANGED semaphore /\ worker'[w].slot = worker[w].slot
    <3>1. SlotWorkers' = SlotWorkers
      BY <2>1, <2>3 DEF SlotWorkers
    <3> QED
      BY <1>0, <1>1, <2>2, <2>3, <3>1
  <2>4. CASE ~worker[w].slot /\ worker'[w].slot
             /\ semaphore < Capacity /\ semaphore' = semaphore + 1
    <3>1. SlotWorkers' = SlotWorkers \cup {w} /\ w \notin SlotWorkers
      BY <2>1, <2>4 DEF SlotWorkers
    <3>2. Cardinality(SlotWorkers') = S + 1
      BY <3>1, CountGains, SlotWorkersFinite
    <3> QED
      BY <1>0, <1>1, <2>2, <2>4, <3>2
  <2>5. CASE worker[w].slot /\ ~worker'[w].slot /\ semaphore' = semaphore - 1
    <3>1. SlotWorkers' = SlotWorkers \ {w} /\ w \in SlotWorkers
      BY <2>1, <2>5 DEF SlotWorkers
    <3>2. Cardinality(SlotWorkers') = S - 1
      BY <3>1, CountLoses, SlotWorkersFinite
    <3> QED
      BY <1>0, <1>1, <2>2, <2>5, <3>2
  <2> QED
    BY <1>4, <2>3, <2>4, <2>5, WorkCounts DEF SlotInv, SlotsAreScoped
<1>5. ASSUME NEW w \in Worker, \/ WorkerReceive(w) \/ WorkerRegister(w) \/ WorkerLease(w)
                               \/ WorkerRelease(w) \/ WorkerDone(w) \/ WorkerExit(w)
      PROVE  SlotInv'
  <2>1. /\ UNCHANGED <<upload, semaphore>> /\ \A u \in Worker \ {w} : worker'[u] = worker[u]
        /\ ~worker[w].slot /\ ~worker'[w].slot
    BY <1>5 DEF WorkerReceive, WorkerRegister, WorkerLease, WorkerRelease, WorkerDone, WorkerExit,
                WorkerAt, countVars, SlotInv, SlotsAreScoped, SlotPc, TypeOK, WorkerRecord
  <2>2. Probing' = Probing /\ SlotWorkers' = SlotWorkers /\ SlotsAreScoped'
    BY <2>1 DEF Probing, SlotWorkers, SlotInv, SlotsAreScoped
  <2> QED
    BY <1>0, <1>1, <2>1, <2>2 DEF SlotInv
<1>6. ASSUME Exit \/ Crash PROVE SlotInv'
  <2>1. ProcessEnds
    BY <1>6 DEF Exit, Crash
  <2>2. SlotWorkers' = {} /\ Probing' = {} /\ semaphore' = 0 /\ SlotsAreScoped'
    BY <2>1 DEF ProcessEnds, SlotWorkers, Probing, WorkerAt, UploadAt, SlotsAreScoped
  <2> QED
    BY <2>2, NoSlots DEF SlotInv
<1>7. ASSUME \/ \E j \in Job, o \in SaveOutcome : Start(j, o)
             \/ \E r \in Reader, j \in Job : ReaderLease(r, j)
             \/ \E r \in Reader : ReaderStep(r)
      PROVE  UNCHANGED <<worker, upload, semaphore>>
  BY <1>7 DEF Start, ReaderLease, ReaderStep, ReaderOpen, ReaderRelease, countVars
<1>8. ASSUME UNCHANGED <<worker, upload, reader, countVars, queueVars>>
      PROVE  UNCHANGED <<worker, upload, semaphore>>
  BY <1>8 DEF countVars
<1> QED
  BY <1>2, <1>3, <1>4, <1>5, <1>6, <1>7, <1>8, OtherCounts, WorkerCases

-----------------------------------------------------------------------------
(* The counters of Stats *)

Waiting == {w \in Worker : worker[w].pc = "received"}
RunningPc == LeasedPc \cup {"lease", "done"}
Busy == {w \in Worker : worker[w].pc \in RunningPc}

\* Every step moves the counters of Stats with the queue and the pool.
LEMMA StatsStep ==
    ASSUME TypeOK, TypeOK', SlotsAreScoped, StatsAreExact, Next
    PROVE  StatsAreExact'
<1> DEFINE W == Cardinality(Waiting)
           B == Cardinality(Busy)
<1>0. /\ W \in Nat /\ B \in Nat /\ IsFiniteSet(Waiting) /\ IsFiniteSet(Busy)
      /\ queue \in Seq(Job) /\ Len(queue) \in Nat /\ Len(queue) <= QueueDepth
      /\ queued = Len(queue) + W /\ running = B
  <2>1. IsFiniteSet(Waiting) /\ IsFiniteSet(Busy)
    BY ActorsAssumption, FS_Subset DEF Waiting, Busy
  <2> QED
    BY <2>1, FS_CardinalityType
       DEF StatsAreExact, Waiting, Busy, RunningPc, TypeOK, ManagerTypes
<1>1. ASSUME queued' = Len(queue') + Cardinality(Waiting'), running' = Cardinality(Busy'),
             Len(queue') <= QueueDepth
      PROVE  StatsAreExact'
  BY <1>1 DEF StatsAreExact, Waiting, Busy, RunningPc
<1>2. ASSUME UNCHANGED <<worker, queueVars>> PROVE StatsAreExact'
  BY <1>2 DEF StatsAreExact, queueVars
<1>3. ASSUME NEW j \in Job, NEW o \in SaveOutcome, Start(j, o) PROVE StatsAreExact'
  <2>1. UNCHANGED <<worker, running>> /\ Len(queue) < QueueDepth
    BY <1>3 DEF Start, QueueHasRoom
  <2>2. \/ queue' = queue /\ queued' = queued
        \/ queue' = Append(queue, j) /\ queued' = queued + 1
    BY <1>3 DEF Start
  <2>3. Len(queue') <= QueueDepth /\ queued' - Len(queue') = queued - Len(queue)
    BY <1>0, <2>1, <2>2, BoundsAssumption
  <2>4. Waiting' = Waiting /\ Busy' = Busy
    BY <2>1 DEF Waiting, Busy
  <2> QED
    BY <1>0, <1>1, <2>1, <2>2, <2>3, <2>4
<1>4. ASSUME NEW w \in Worker, WorkerReceive(w) PROVE StatsAreExact'
  <2>1. /\ worker[w].pc = "idle" /\ worker'[w].pc = "received"
        /\ \A u \in Worker \ {w} : worker'[u] = worker[u]
        /\ queue # <<>> /\ queue' = Tail(queue) /\ UNCHANGED <<queued, running>>
    BY <1>4 DEF WorkerReceive, WorkerAt, TypeOK
  <2>2. Len(queue') = Len(queue) - 1
    BY <1>0, <2>1
  <2>3. Waiting' = Waiting \cup {w} /\ w \notin Waiting
    BY <2>1 DEF Waiting
  <2>4. Busy' = Busy
    BY <2>1 DEF Busy, RunningPc, LeasedPc
  <2>5. Cardinality(Waiting') = W + 1
    BY <1>0, <2>3, CountGains
  <2> QED
    BY <1>0, <1>1, <2>1, <2>2, <2>4, <2>5, BoundsAssumption
<1>5. ASSUME NEW w \in Worker, WorkerRegister(w) PROVE StatsAreExact'
  <2>1. /\ worker[w].pc = "received" /\ worker'[w].pc = "lease"
        /\ \A u \in Worker \ {w} : worker'[u] = worker[u]
        /\ UNCHANGED queue /\ queued' = queued - 1 /\ running' = running + 1
    BY <1>5 DEF WorkerRegister, TypeOK, WorkerRecord
  <2>2. Waiting' = Waiting \ {w} /\ w \in Waiting
    BY <2>1 DEF Waiting
  <2>3. Busy' = Busy \cup {w} /\ w \notin Busy
    BY <2>1 DEF Busy, RunningPc, LeasedPc
  <2>4. Cardinality(Waiting') = W - 1 /\ Cardinality(Busy') = B + 1
    BY <1>0, <2>2, <2>3, CountGains, CountLoses
  <2> QED
    BY <1>0, <1>1, <2>1, <2>4
<1>6. ASSUME NEW w \in Worker, WorkerDone(w) PROVE StatsAreExact'
  <2>1. /\ worker[w].pc = "done" /\ worker'[w].pc = "idle"
        /\ \A u \in Worker \ {w} : worker'[u] = worker[u]
        /\ UNCHANGED <<queue, queued>> /\ running' = running - 1
    BY <1>6 DEF WorkerDone, WorkerAt, TypeOK
  <2>2. Waiting' = Waiting
    BY <2>1 DEF Waiting
  <2>3. Busy' = Busy \ {w} /\ w \in Busy
    BY <2>1 DEF Busy, RunningPc, LeasedPc
  <2>4. Cardinality(Busy') = B - 1
    BY <1>0, <2>3, CountLoses
  <2> QED
    BY <1>0, <1>1, <2>1, <2>2, <2>4
<1>7. ASSUME NEW w \in Worker,
             WorkerLease(w) \/ WorkerWorks(w) \/ WorkerRelease(w) \/ WorkerExit(w)
      PROVE  StatsAreExact'
  <2>1. /\ worker[w].pc \in RunningPc <=> worker'[w].pc \in RunningPc
        /\ worker[w].pc # "received" /\ worker'[w].pc # "received"
        /\ \A u \in Worker \ {w} : worker'[u] = worker[u]
        /\ UNCHANGED <<queue, queued, running>>
    <3>1. CASE WorkerLease(w) \/ WorkerRelease(w) \/ WorkerExit(w)
      BY <3>1 DEF WorkerLease, WorkerRelease, WorkerExit, WorkerAt, TypeOK, WorkerRecord,
                  RunningPc, LeasedPc, managerVars, queueVars
    <3>2. CASE WorkerWorks(w)
      BY <3>2, WorkCounts DEF SlotsAreScoped, RunningPc, LeasedPc, managerVars, queueVars
    <3> QED
      BY <1>7, <3>1, <3>2
  <2>2. Waiting' = Waiting /\ Busy' = Busy
    BY <2>1 DEF Waiting, Busy
  <2> QED
    BY <1>0, <1>1, <2>1, <2>2
<1>8. ASSUME Exit \/ Crash PROVE StatsAreExact'
  <2>1. ProcessEnds
    BY <1>8 DEF Exit, Crash
  <2>2. /\ Waiting' = {} /\ Busy' = {} /\ queue' = <<>> /\ queued' = 0 /\ running' = 0
        /\ Len(queue') = 0
    BY <2>1 DEF ProcessEnds, Waiting, Busy, RunningPc, LeasedPc, WorkerAt
  <2> QED
    BY <1>1, <2>2, FS_EmptySet, BoundsAssumption
<1>9. ASSUME \/ \E j \in Job : AcceptStep(j) \/ AcceptReserve(j)
             \/ \E r \in Reader, j \in Job : ReaderLease(r, j)
             \/ \E r \in Reader : ReaderStep(r)
      PROVE  UNCHANGED <<worker, queueVars>>
  BY <1>9, AcceptCounts DEF ReaderLease, ReaderStep, ReaderOpen, ReaderRelease, managerVars
<1>10. ASSUME UNCHANGED <<worker, upload, reader, countVars, queueVars>>
       PROVE  UNCHANGED <<worker, queueVars>>
  BY <1>10
<1> QED
  BY <1>2, <1>3, <1>4, <1>5, <1>6, <1>7, <1>8, <1>9, <1>10, OtherCounts, WorkerCases

-----------------------------------------------------------------------------
(* The results *)

\* The inductive invariant: the manager's own and the three counts.
CountInv == ManagerInv /\ SlotInv /\ StatsAreExact

\* The counters start at zero, with nobody to count.
LEMMA CountInit == Init => CountInv
<1> SUFFICES ASSUME Init PROVE CountInv
  OBVIOUS
<1>1. SlotWorkers = {} /\ Probing = {} /\ semaphore = 0 /\ SlotsAreScoped
  BY DEF Init, SlotWorkers, Probing, WorkerAt, UploadAt, SlotsAreScoped
<1>2. SlotInv
  <2>1. Capacity \in Nat
    BY ActorsAssumption, FS_CardinalityType DEF Capacity
  <2>2. Cardinality(SlotWorkers) = 0 /\ Cardinality(Probing) = 0 /\ IsFiniteSet(Probing)
    BY <1>1, FS_EmptySet
  <2> QED
    BY <1>1, <2>1, <2>2 DEF SlotInv, SlotsAreCounted, SlotWorkers, Probing
<1>3. StatsAreExact
  <2>1. /\ Waiting = {} /\ Busy = {} /\ queued = 0 /\ running = 0
        /\ queue = <<>> /\ Len(queue) = 0
    BY DEF Init, Waiting, Busy, RunningPc, LeasedPc, WorkerAt
  <2>2. Cardinality(Waiting) = 0 /\ Cardinality(Busy) = 0
    BY <2>1, FS_EmptySet
  <2> QED
    BY <2>1, <2>2, BoundsAssumption DEF StatsAreExact, Waiting, Busy, RunningPc
<1> QED
  BY <1>2, <1>3, ManagerInit DEF CountInv

\* Every step keeps the counts exact.
LEMMA CountStep == CountInv /\ [Next]_vars => CountInv'
<1> SUFFICES ASSUME CountInv, [Next]_vars PROVE CountInv'
  OBVIOUS
<1>1. ManagerInv' /\ TypeOK /\ TypeOK' /\ WorkerShape
  BY ManagerStep DEF CountInv, ManagerInv
<1>2. CASE Next
  BY <1>1, <1>2, SlotStep, StatsStep DEF CountInv, SlotInv
<1>3. CASE UNCHANGED vars
  <2>1. SlotInv'
    BY <1>3 DEF CountInv, SlotInv, SlotsAreScoped, SlotsAreCounted, Probing, vars
  <2>2. StatsAreExact'
    BY <1>3 DEF CountInv, StatsAreExact, vars
  <2> QED
    BY <1>1, <2>1, <2>2 DEF CountInv
<1> QED
  BY <1>2, <1>3

\* The inductive invariant holds in every reachable state.
THEOREM CountInvariance == Spec => []CountInv
BY CountInit, CountStep, PTL DEF Spec

\* manager.leases counts exactly the workers, downloads and uploads that use a
\* job: every early return, failed write, deletion and crash gives back what it
\* took, and releaseLease, which stops at zero, never hides a double release.
THEOREM LeasesAreExact == Spec => []LeasesAreCounted
<1>1. CountInv => LeasesAreCounted
  BY DEF CountInv, ManagerInv
<1> QED
  BY <1>1, CountInvariance, PTL

\* The semaphore counts the probes of Accept and the conversions of the pool
\* together and never exceeds the configured number of processes.
THEOREM SlotsAreExact == Spec => []SlotsAreCounted
<1>1. CountInv => SlotsAreCounted
  BY DEF CountInv, SlotInv
<1> QED
  BY <1>1, CountInvariance, PTL

\* The counters that the status page reports are exact and the queue keeps its
\* bound.
THEOREM StatsAreReliable == Spec => []StatsAreExact
<1>1. CountInv => StatsAreExact
  BY DEF CountInv
<1> QED
  BY <1>1, CountInvariance, PTL

\* A cleanup sweep removes a job only while it is expired, inactive and in
\* nobody's hands: the lease count that the re-check under the job lock reads
\* stands for every holder.
THEOREM SweepsSpareJobsInUse == Spec => SweepSparesJobsInUse
<1> DEFINE Spares == \A j \in Job : CleanupJob(j) /\ Exists(j) /\ jobState'[j] = "deleted" =>
                        j \in expired /\ Holders(j) = {} /\ ~JobActive(jobState[j])
<1>1. CountInv => Spares
  <2> SUFFICES ASSUME CountInv, NEW j \in Job, CleanupJob(j), Exists(j), jobState'[j] = "deleted"
               PROVE  j \in expired /\ Holders(j) = {} /\ ~JobActive(jobState[j])
    OBVIOUS
  <2>1. Sweepable(j)
    BY DEF CleanupJob, Exists, JobState, diskVars
  <2>2. leases[j] = 0
    BY <2>1 DEF Sweepable, Leased, CountInv, ManagerInv, TypeOK, CountTypes
  <2>3. Holders(j) = {}
    BY <2>2, HoldersAre, FS_EmptySet DEF CountInv, LeasesAreCounted, ManagerInv
  <2> QED
    BY <2>1, <2>3 DEF Sweepable
<1> QED
  BY <1>1, CountInvariance, PTL DEF SweepSparesJobsInUse
=============================================================================
