---------------------------- MODULE JobDirectory ----------------------------
(***************************************************************************)
(* One job directory, system call by system call: how Store.Create, Save   *)
(* and Delete (src/internal/jobs/storage/store.go), Accept's listing of    *)
(* the uploaded files and RemoveFile (src/internal/jobs/remove.go) change  *)
(* it, when a call fails and when the machine stops between two calls.     *)
(*                                                                         *)
(* The operations that hold the job's lock exclude each other (module      *)
(* JobLocks), so one of them at a time is in progress.  Accept receives    *)
(* without the lock: another request may update the manifest between two   *)
(* uploaded files.  Accept also removes a rejected upload without it; how  *)
(* other requests interfere with that is left to module JobManager.  The   *)
(* file system journals metadata in order: after a crash the directory is  *)
(* in one of the states it went through since it was last flushed.         *)
(***************************************************************************)
EXTENDS Integers, FiniteSets

CONSTANTS
    FileId,         \* the files one upload may carry
    DirectorySyncs, \* the file system can flush a directory
    MaxFaults,      \* bound: how many system calls fail
    MaxCrashes      \* bound: how often the machine stops

ASSUME DirectoryAssumption ==
    /\ IsFiniteSet(FileId)
    /\ DirectorySyncs \in BOOLEAN
    /\ MaxFaults \in Nat
    /\ MaxCrashes \in Nat

VARIABLES
    disk,        \* the directory as readers see it
    recoverable, \* the directories a crash may bring back
    op,          \* the operation in progress and its locals
    acked,       \* what the last successful call told its caller
    last,        \* the files of the manifest published last
    discarded,   \* RemoveAll has taken an input the manifest names
    faults, crashes

vars == <<disk, recoverable, op, acked, last, discarded, faults, crashes>>

-----------------------------------------------------------------------------
(* The directory *)

Absent == [kind |-> "none", files |-> {}]
Whole(files) == [kind |-> "whole", files |-> files]
Torn == [kind |-> "torn", files |-> {}]

Manifests == {Absent, Torn} \cup {Whole(files) : files \in SUBSET FileId}

\* rest stands for the input, output and tmp directories and the outputs.
Directory == [dir : BOOLEAN, manifest : Manifests, inputs : SUBSET FileId, rest : BOOLEAN]

NoDirectory == [dir |-> FALSE, manifest |-> Absent, inputs |-> {}, rest |-> FALSE]

\* Load succeeds, so List returns the job.
Listed(d) == d.dir /\ d.manifest.kind = "whole"

\* The manifest names an input that is not there.
Dangling(d) == Listed(d) /\ ~(d.manifest.files \subseteq d.inputs)

-----------------------------------------------------------------------------
(* Operations in progress *)

\* pc is the next system call.  save holds the files of the manifest being
\* saved, old those of the manifest the operation loaded, then what follows the
\* Save, temp the state of the temporary manifest file.
Operation ==
    [pc : {"idle", "subdirs", "createTemp", "write", "rename", "syncDir", "receive",
           "unlink", "undo", "removeAll"},
     save : SUBSET FileId, old : SUBSET FileId, file : SUBSET FileId,
     then : {"none", "created", "intake", "listed", "updated", "excluded", "rolledBack",
             "preserved"},
     temp : {"none", "unsynced", "synced"}]

Idle == [pc |-> "idle", save |-> {}, old |-> {}, file |-> {}, then |-> "none", temp |-> "none"]

\* nothing: the last call failed or removed the job.
NoAnswer == [ok |-> FALSE, files |-> {}]
Answer(files) == [ok |-> TRUE, files |-> files]

TypeOK ==
    /\ disk \in Directory
    /\ recoverable \subseteq Directory /\ disk \in recoverable
    /\ op \in Operation
    /\ acked \in [ok : BOOLEAN, files : SUBSET FileId]
    /\ last \subseteq FileId
    /\ discarded \in BOOLEAN
    /\ faults \in 0 .. MaxFaults
    /\ crashes \in 0 .. MaxCrashes

Goto(pc) == op' = [op EXCEPT !.pc = pc]

\* The call Save(manifest), with what its caller does next.
Saving(files, then) ==
    [op EXCEPT !.pc = "createTemp", !.save = files, !.then = then, !.temp = "none"]

\* The directory changes; the change is not yet durable.
Change(d) ==
    /\ disk' = d
    /\ recoverable' = recoverable \cup {d}

Untouched == UNCHANGED <<disk, recoverable, last, discarded, crashes>>

Fault == faults < MaxFaults /\ faults' = faults + 1

Ends == op' = Idle

-----------------------------------------------------------------------------
(* Save *)

\* Save returned nil to the operation that called it.
AfterSave ==
    CASE op.then = "created"  -> Goto("receive") /\ UNCHANGED acked
      [] op.then = "intake"   -> Goto("receive") /\ acked' = Answer(op.save)
      [] op.then \in {"listed", "updated"} -> Ends /\ acked' = Answer(op.save)
      [] op.then = "excluded" -> Goto("unlink") /\ UNCHANGED acked
      [] OTHER -> Ends /\ UNCHANGED acked

\* Save returned an error.  RemoveFile restores the manifest it loaded, because
\* Save may have failed after publishing the shorter one.
AfterFailedSave ==
    CASE op.then = "created"  -> Goto("undo")
      [] op.then = "intake"   -> Goto("receive")
      [] op.then = "listed"   -> op' = [op EXCEPT !.pc = "removeAll", !.old = disk.manifest.files]
      [] op.then = "excluded" -> op' = Saving(op.old, "rolledBack")
      [] OTHER -> Ends

CreateTemp ==
    /\ op.pc = "createTemp"
    /\ op' = [op EXCEPT !.pc = "write", !.temp = "unsynced"]
    /\ UNCHANGED <<acked, faults>> /\ Untouched

\* A variant that renames the temporary manifest before it is flushed.
WriteTempBug ==
    /\ op.pc = "write"
    /\ Goto("rename")
    /\ UNCHANGED <<acked, faults>> /\ Untouched

WriteTemp ==
    /\ op.pc = "write"
    /\ op' = [op EXCEPT !.pc = "rename", !.temp = "synced"]
    /\ UNCHANGED <<acked, faults>> /\ Untouched

\* The rename publishes the manifest.  A file renamed before its content was
\* flushed may come back torn.
Rename ==
    /\ op.pc = "rename"
    /\ disk.dir
    /\ disk' = [disk EXCEPT !.manifest = Whole(op.save)]
    /\ recoverable' = recoverable \cup {disk'} \cup
           IF op.temp = "synced" THEN {} ELSE {[disk' EXCEPT !.manifest = Torn]}
    /\ last' = op.save
    /\ op' = [op EXCEPT !.pc = "syncDir", !.temp = "none"]
    /\ UNCHANGED <<acked, discarded, faults, crashes>>

\* A variant that skips the directory sync.
SyncDirBug ==
    /\ op.pc = "syncDir"
    /\ AfterSave
    /\ UNCHANGED <<disk, recoverable, last, discarded, faults, crashes>>

\* A file system that cannot flush a directory answers EINVAL or ENOTSUP, which
\* directorySyncError takes for success: then nothing has become durable.
SyncDir ==
    /\ op.pc = "syncDir"
    /\ recoverable' = IF DirectorySyncs THEN {disk} ELSE recoverable
    /\ AfterSave
    /\ UNCHANGED <<disk, last, discarded, faults, crashes>>

\* Any call of Save fails; before the rename the temporary file is removed,
\* after it the manifest stays published.
SaveFails ==
    /\ op.pc \in {"createTemp", "write", "rename", "syncDir"}
    /\ Fault
    /\ AfterFailedSave
    /\ UNCHANGED acked /\ Untouched

-----------------------------------------------------------------------------
(* Create, and the uploaded files *)

Mkdir ==
    /\ op.pc = "idle" /\ recoverable = {NoDirectory}
    /\ Change([NoDirectory EXCEPT !.dir = TRUE])
    /\ op' = [Idle EXCEPT !.pc = "subdirs"]
    /\ acked' = NoAnswer
    /\ UNCHANGED <<last, discarded, faults, crashes>>

MkdirRest ==
    /\ op.pc = "subdirs"
    /\ Change([disk EXCEPT !.rest = TRUE])
    /\ op' = Saving({}, "created")
    /\ UNCHANGED <<acked, last, discarded, faults, crashes>>

MkdirFails ==
    /\ op.pc = "subdirs"
    /\ Fault
    /\ Goto("undo")
    /\ UNCHANGED acked /\ Untouched

\* receive renames one uploaded part into the input directory.
Receive(file) ==
    /\ op.pc = "receive" /\ file \notin disk.inputs
    /\ Change([disk EXCEPT !.inputs = @ \cup {file}])
    /\ UNCHANGED <<op, acked, last, discarded, faults, crashes>>

\* Accept lists what it received; an upload without files was rejected.
ListFiles ==
    /\ op.pc = "receive" /\ disk.inputs # {}
    /\ op' = Saving(disk.inputs, "listed")
    /\ acked' = NoAnswer
    /\ UNCHANGED faults /\ Untouched

\* receive returned an error: the job is deleted.
RejectUpload ==
    /\ op.pc = "receive"
    /\ op' = [op EXCEPT !.pc = "removeAll", !.old = disk.manifest.files]
    /\ acked' = NoAnswer
    /\ UNCHANGED faults /\ Untouched

\* Another request cancels the job that Accept is still filling.
UpdateDuringIntake ==
    /\ op.pc = "receive" /\ Listed(disk)
    /\ op' = Saving(disk.manifest.files, "intake")
    /\ acked' = NoAnswer
    /\ UNCHANGED faults /\ Untouched

-----------------------------------------------------------------------------
(* Update, RemoveFile and Delete *)

\* Any change of states in the manifest: it names the same files, or still none.
Update ==
    /\ op.pc = "idle" /\ Listed(disk)
    /\ op' = [Saving(disk.manifest.files, "updated") EXCEPT !.old = disk.manifest.files]
    /\ acked' = NoAnswer
    /\ UNCHANGED faults /\ Untouched

\* A variant that unlinks the input before it excludes the file.
RemoveFileBug(file) ==
    /\ op.pc = "idle" /\ Listed(disk) /\ file \in disk.manifest.files
    /\ op' = [Idle EXCEPT !.pc = "unlink", !.old = disk.manifest.files,
                          !.save = disk.manifest.files \ {file}, !.file = {file}]
    /\ acked' = NoAnswer
    /\ UNCHANGED faults /\ Untouched

RemoveFile(file) ==
    /\ op.pc = "idle" /\ Listed(disk) /\ file \in disk.manifest.files
    /\ op' = [Saving(disk.manifest.files \ {file}, "excluded")
                 EXCEPT !.old = disk.manifest.files, !.file = {file}]
    /\ acked' = NoAnswer
    /\ UNCHANGED faults /\ Untouched

\* The input is gone.  The job of the last file is deleted as a whole.
Unlink ==
    /\ op.pc = "unlink" /\ op.file \subseteq disk.inputs
    /\ Change([disk EXCEPT !.inputs = @ \ op.file])
    /\ IF op.save = {}
       THEN op' = [op EXCEPT !.pc = "removeAll", !.old = {}] /\ UNCHANGED acked
       ELSE Ends /\ acked' = Answer(op.save)
    /\ UNCHANGED <<last, discarded, faults, crashes>>

\* os.Remove fails, or the input was missing all along.
UnlinkFails ==
    /\ op.pc = "unlink"
    /\ \/ Fault
       \/ ~(op.file \subseteq disk.inputs) /\ UNCHANGED faults
    /\ op' = Saving(op.old, "rolledBack")
    /\ UNCHANGED acked /\ Untouched

\* Manager.Delete and the cleanup sweep: both load the manifest first.
Delete ==
    /\ op.pc = "idle" /\ Listed(disk)
    /\ op' = [Idle EXCEPT !.pc = "removeAll", !.old = disk.manifest.files]
    /\ acked' = NoAnswer
    /\ UNCHANGED faults /\ Untouched

Removing == op.pc \in {"removeAll", "undo"}

\* os.RemoveAll takes the entries in the order the directory yields them.
RemoveEntry ==
    /\ Removing
    /\ \/ disk.manifest # Absent /\ Change([disk EXCEPT !.manifest = Absent])
       \/ \E file \in disk.inputs : Change([disk EXCEPT !.inputs = @ \ {file}])
       \/ disk.rest /\ disk.inputs = {} /\ Change([disk EXCEPT !.rest = FALSE])
    /\ discarded' = (discarded \/ Dangling(disk'))
    /\ UNCHANGED <<op, acked, last, faults, crashes>>

RemoveDir ==
    /\ Removing
    /\ disk = [NoDirectory EXCEPT !.dir = TRUE]
    /\ Change(NoDirectory)
    /\ Ends
    /\ UNCHANGED <<acked, last, discarded, faults, crashes>>

\* A variant that gives up at once.
AfterFailedRemovalBug == Ends

\* Delete puts an empty manifest back so that a later sweep finds the directory.
AfterFailedRemoval ==
    IF op.pc = "removeAll" /\ op.old = {} THEN op' = Saving({}, "preserved") ELSE Ends

RemoveAllFails ==
    /\ Removing
    /\ Fault
    /\ AfterFailedRemoval
    /\ UNCHANGED acked /\ Untouched

-----------------------------------------------------------------------------

\* The machine stops: the operation is forgotten, the directory falls back.
Crash ==
    /\ crashes < MaxCrashes
    /\ crashes' = crashes + 1
    /\ disk' \in recoverable
    /\ recoverable' = {disk'}
    /\ op' = Idle
    /\ UNCHANGED <<acked, last, discarded, faults>>

Init ==
    /\ disk = NoDirectory
    /\ recoverable = {NoDirectory}
    /\ op = Idle
    /\ acked = NoAnswer
    /\ last = {} /\ discarded = FALSE
    /\ faults = 0 /\ crashes = 0

Next ==
    \/ Mkdir \/ MkdirRest \/ MkdirFails
    \/ CreateTemp \/ WriteTemp \/ Rename \/ SyncDir \/ SaveFails
    \/ \E file \in FileId : Receive(file) \/ RemoveFile(file)
    \/ ListFiles \/ RejectUpload \/ UpdateDuringIntake
    \/ Update \/ Unlink \/ UnlinkFails
    \/ Delete \/ RemoveEntry \/ RemoveDir \/ RemoveAllFails
    \/ Crash

Spec == Init /\ [][Next]_vars

-----------------------------------------------------------------------------
(* Properties *)

(* Only the removal of the whole directory can leave a manifest that names *)
(* removed bytes, crash or no crash: RemoveFile publishes the shorter      *)
(* manifest before it unlinks the input, and it rolls back only while the  *)
(* input is there (remove.go:71-81).                                       *)
NoDanglingReference == discarded \/ \A d \in recoverable : ~Dangling(d)

(* What a caller was told survives a crash: once Save has returned nil the *)
(* manifest is durable, so a file that RemoveFile removed never comes back *)
(* and a file that Accept listed is never lost (store.go:194-197), where   *)
(* the file system can flush a directory.                                  *)
AnswerIsDurable ==
    DirectorySyncs /\ acked.ok => \A d \in recoverable : d.manifest = Whole(acked.files)

(* A directory that outlives a failed removal can still be found by the    *)
(* sweep when its manifest was empty (store.go:265-266), as long as that   *)
(* removal is the only thing that failed.                                  *)
EmptyJobStaysListed ==
    op.pc = "idle" /\ disk.dir /\ last = {} /\ faults <= 1 /\ crashes = 0 => Listed(disk)

M == INSTANCE ManifestStore
         WITH shown <- disk.manifest, survivors <- {d.manifest : d \in recoverable}

(* Readers see a whole manifest or none, and a crash brings back one that  *)
(* was published since the last directory sync: Save replaces the manifest *)
(* atomically (store.go:151-153).                                          *)
ImplementsManifestStore == M!Spec

=============================================================================
