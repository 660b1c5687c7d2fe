------------------------- MODULE JobDirectoryProofs -------------------------
(***************************************************************************)
(* A job directory never names bytes that are gone, and what a caller was  *)
(* told survives a crash: for any set of files and any number of failed    *)
(* calls and crashes.  The directory also implements the abstract store.   *)
(***************************************************************************)
EXTENDS JobDirectory, TLAPS

SaveStage == {"createTemp", "write", "rename", "syncDir"}

\* The manifest on its way to the disk names inputs that are there, and so does the one
\* that RemoveFile would restore.
SavesWhatIsThere ==
    ~discarded =>
        /\ op.pc \in SaveStage => op.save \subseteq disk.inputs
        /\ op.pc \in SaveStage \cup {"unlink"} /\ op.then = "excluded" => op.old \subseteq disk.inputs

\* The shorter manifest does not name the file that RemoveFile is about to unlink.
ExcludesTheFile ==
    op.pc \in SaveStage \cup {"unlink"} /\ op.then = "excluded" => op.file \cap op.save = {}

\* Between the rename and the sync the new manifest is what readers see.
RenamedIsShown == op.pc = "syncDir" => disk.manifest = Whole(op.save)

\* A temporary manifest is flushed before it is renamed.
RenamesFlushed == op.pc = "rename" => op.temp = "synced"

\* The input is unlinked only after the shorter manifest was published and, where the
\* directory can be flushed, has become durable.
UnlinksAfterSync ==
    op.pc = "unlink" =>
        /\ op.then = "excluded" /\ disk.manifest = Whole(op.save)
        /\ DirectorySyncs => \A d \in recoverable : d.manifest = Whole(op.save)

\* An answer is about an operation that has ended; Accept may still be receiving.
AnswersAtTheEnd == acked.ok => op.pc \in {"idle", "receive"}

\* The inductive invariant.
DirectoryInv ==
    /\ TypeOK /\ NoDanglingReference /\ AnswerIsDurable
    /\ SavesWhatIsThere /\ ExcludesTheFile /\ RenamedIsShown /\ RenamesFlushed
    /\ UnlinksAfterSync /\ AnswersAtTheEnd

-----------------------------------------------------------------------------
\* Manifests are told apart by their kind and by what they list.
LEMMA ManifestKinds ==
    /\ Absent.kind = "none" /\ Torn.kind = "torn"
    /\ \A files : Whole(files).kind = "whole" /\ Whole(files).files = files
    /\ \A files : Whole(files) # Absent
  BY DEF Absent, Torn, Whole

\* The manifests a directory can hold.
LEMMA ManifestTypes ==
    /\ Absent \in Manifests /\ Torn \in Manifests
    /\ \A files \in SUBSET FileId : Whole(files) \in Manifests
    /\ \A m \in Manifests : m.files \in SUBSET FileId
<1>1. \A m \in Manifests : m.files \in SUBSET FileId
  BY ManifestKinds DEF Manifests, Absent, Torn
<1> QED
  BY <1>1 DEF Manifests

\* What the system calls make of a directory is a directory.
LEMMA DirectoryChanges ==
    /\ NoDirectory \in Directory
    /\ [NoDirectory EXCEPT !.dir = TRUE] \in Directory
    /\ \A d \in Directory :
         /\ d.manifest.files \in SUBSET FileId
         /\ \A b \in BOOLEAN : [d EXCEPT !.rest = b] \in Directory
         /\ \A m \in Manifests : [d EXCEPT !.manifest = m] \in Directory
         /\ \A files \in SUBSET FileId : [d EXCEPT !.inputs = files] \in Directory
<1>1. NoDirectory \in Directory /\ [NoDirectory EXCEPT !.dir = TRUE] \in Directory
  BY ManifestTypes DEF NoDirectory, Directory
<1> QED
  BY <1>1, ManifestTypes DEF Directory

\* Calling Save with a list of files.
LEMMA SavingTypes ==
    ASSUME op \in Operation, NEW files \in SUBSET FileId,
           NEW then \in {"created", "intake", "listed", "updated", "excluded", "rolledBack", "preserved"}
    PROVE Saving(files, then) \in Operation
  BY DEF Operation, Saving

\* Before the job is created there is nothing to go wrong.
LEMMA DirectoryInit == Init => DirectoryInv
<1> SUFFICES ASSUME Init PROVE DirectoryInv
  OBVIOUS
<1>1. TypeOK
  <2>1. Idle \in Operation
    BY DEF Idle, Operation
  <2>2. acked \in [ok : BOOLEAN, files : SUBSET FileId]
    BY DEF Init, NoAnswer
  <2>3. faults \in 0 .. MaxFaults /\ crashes \in 0 .. MaxCrashes
    BY DirectoryAssumption DEF Init
  <2>4. discarded \in BOOLEAN /\ last \subseteq FileId /\ op \in Operation
    BY <2>1 DEF Init
  <2>5. disk \in Directory /\ recoverable \subseteq Directory /\ disk \in recoverable
    BY DirectoryChanges DEF Init
  <2> QED
    BY <2>2, <2>3, <2>4, <2>5 DEF TypeOK
<1>2. NoDanglingReference /\ AnswerIsDurable
  BY DEF Init, NoDanglingReference, AnswerIsDurable, Dangling, Listed, NoDirectory, NoAnswer
<1> QED
  BY <1>1, <1>2 DEF Init, DirectoryInv, SavesWhatIsThere, ExcludesTheFile, RenamedIsShown,
     RenamesFlushed, UnlinksAfterSync, AnswersAtTheEnd, Idle, SaveStage, NoAnswer

-----------------------------------------------------------------------------
\* Every step keeps the types, part by part.
LEMMA OperationTypes == TypeOK /\ [Next]_vars => op' \in Operation
<1> SUFFICES ASSUME TypeOK, [Next]_vars PROVE op' \in Operation
  OBVIOUS
<1>1. op \in Operation /\ disk \in Directory /\ disk.manifest.files \in SUBSET FileId
      /\ disk.inputs \in SUBSET FileId
  BY DirectoryChanges DEF TypeOK, Directory
<1>2. Idle \in Operation
  BY DEF Idle, Operation
<1>3. op.save \in SUBSET FileId /\ op.old \in SUBSET FileId
  BY <1>1 DEF Operation
<1>4. ASSUME NEW pc \in {"createTemp", "write", "rename", "syncDir", "receive", "unlink", "undo",
                        "subdirs", "removeAll"}
      PROVE [op EXCEPT !.pc = pc] \in Operation
  BY <1>1 DEF Operation
<1>5. ASSUME NEW files \in SUBSET FileId
      PROVE [op EXCEPT !.pc = "removeAll", !.old = files] \in Operation
  BY <1>1 DEF Operation
<1>6. CASE Mkdir \/ MkdirRest \/ MkdirFails
  <2>1. [Idle EXCEPT !.pc = "subdirs"] \in Operation
    BY DEF Idle, Operation
  <2> QED
    BY <1>1, <1>4, <1>6, <2>1, SavingTypes DEF Mkdir, MkdirRest, MkdirFails, Goto
<1>7. CASE CreateTemp \/ WriteTemp \/ Rename
  BY <1>1, <1>7 DEF CreateTemp, WriteTemp, Rename, Operation
<1>8. CASE SyncDir
  BY <1>2, <1>4, <1>8 DEF SyncDir, AfterSave, Goto, Ends
<1>9. CASE SaveFails
  BY <1>1, <1>2, <1>3, <1>4, <1>5, <1>9, SavingTypes DEF SaveFails, AfterFailedSave, Goto, Ends
<1>10. ASSUME NEW file \in FileId, Receive(file) \/ RemoveFile(file) PROVE op' \in Operation
  <2>1. CASE Receive(file)
    BY <1>1, <2>1 DEF Receive
  <2>2. CASE RemoveFile(file)
    BY <1>1, <2>2 DEF RemoveFile, Saving, Operation
  <2> QED
    BY <1>10, <2>1, <2>2
<1>11. CASE ListFiles \/ RejectUpload \/ UpdateDuringIntake
  BY <1>1, <1>5, <1>11, SavingTypes DEF ListFiles, RejectUpload, UpdateDuringIntake
<1>12. CASE Update
  BY <1>1, <1>12 DEF Update, Saving, Operation
<1>13. CASE Delete
  BY <1>1, <1>13 DEF Delete, Idle, Operation
<1>14. CASE Unlink \/ UnlinkFails
  BY <1>1, <1>2, <1>3, <1>5, <1>14, SavingTypes DEF Unlink, UnlinkFails, Ends
<1>15. CASE RemoveEntry \/ RemoveDir \/ RemoveAllFails
  BY <1>1, <1>2, <1>15, SavingTypes
     DEF RemoveEntry, RemoveDir, RemoveAllFails, AfterFailedRemoval, Ends
<1>16. CASE Crash \/ UNCHANGED vars
  BY <1>1, <1>2, <1>16 DEF Crash, vars
<1> QED
  BY <1>6, <1>7, <1>8, <1>9, <1>10, <1>11, <1>12, <1>13, <1>14, <1>15, <1>16 DEF Next

\* What a step makes of the directory is a directory, and it is recoverable.
LEMMA DiskTypes ==
    TypeOK /\ [Next]_vars =>
        disk' \in Directory /\ recoverable' \subseteq Directory /\ disk' \in recoverable'
<1> SUFFICES ASSUME TypeOK, [Next]_vars
             PROVE disk' \in Directory /\ recoverable' \subseteq Directory /\ disk' \in recoverable'
  OBVIOUS
<1>1. disk \in Directory /\ recoverable \subseteq Directory /\ disk \in recoverable
      /\ disk.inputs \in SUBSET FileId
  BY DEF TypeOK, Directory
<1>2. ASSUME NEW d \in Directory, Change(d)
      PROVE disk' \in Directory /\ recoverable' \subseteq Directory /\ disk' \in recoverable'
  BY <1>1, <1>2 DEF Change
<1>3. CASE Mkdir \/ MkdirRest \/ MkdirFails
  BY <1>1, <1>2, <1>3, DirectoryChanges DEF Mkdir, MkdirRest, MkdirFails, Untouched
<1>4. CASE CreateTemp \/ WriteTemp \/ SyncDir \/ SaveFails \/ ListFiles \/ RejectUpload
           \/ UpdateDuringIntake \/ Update \/ UnlinkFails \/ Delete \/ RemoveAllFails \/ Crash \/ UNCHANGED vars
  BY <1>1, <1>4 DEF CreateTemp, WriteTemp, SyncDir, SaveFails, ListFiles, RejectUpload,
     UpdateDuringIntake, Update,
     UnlinkFails, Delete, RemoveAllFails, Crash, vars, Untouched
<1>5. CASE Rename
  <2>1. op.save \in SUBSET FileId
    BY DEF TypeOK, Operation
  <2>2. disk' \in Directory
    BY <1>1, <1>5, <2>1, ManifestTypes, DirectoryChanges DEF Rename
  <2>3. [disk' EXCEPT !.manifest = Torn] \in Directory
    BY <2>2, ManifestTypes, DirectoryChanges
  <2> QED
    BY <1>1, <1>5, <2>2, <2>3 DEF Rename
<1>6. ASSUME NEW file \in FileId, Receive(file) \/ RemoveFile(file)
      PROVE disk' \in Directory /\ recoverable' \subseteq Directory /\ disk' \in recoverable'
  <2>1. CASE Receive(file)
    <3>1. disk.inputs \cup {file} \in SUBSET FileId
      BY <1>1
    <3> QED
      BY <1>1, <1>2, <2>1, <3>1, DirectoryChanges DEF Receive
  <2>2. CASE RemoveFile(file)
    BY <1>1, <2>2 DEF RemoveFile, Untouched
  <2> QED
    BY <1>6, <2>1, <2>2
<1>7. CASE Unlink
  <2>1. disk.inputs \ op.file \in SUBSET FileId
    BY <1>1
  <2> QED
    BY <1>1, <1>2, <1>7, <2>1, DirectoryChanges DEF Unlink
<1>8. CASE RemoveEntry \/ RemoveDir
  <2>1. \A file : disk.inputs \ {file} \in SUBSET FileId
    BY <1>1
  <2> QED
    BY <1>1, <1>2, <1>8, <2>1, DirectoryChanges, ManifestTypes DEF RemoveEntry, RemoveDir
<1> QED
  BY <1>3, <1>4, <1>5, <1>6, <1>7, <1>8 DEF Next

\* The bounds on faults and crashes are kept.
LEMMA CounterTypes ==
    TypeOK /\ [Next]_vars => faults' \in 0 .. MaxFaults /\ crashes' \in 0 .. MaxCrashes
<1> SUFFICES ASSUME TypeOK, [Next]_vars
             PROVE faults' \in 0 .. MaxFaults /\ crashes' \in 0 .. MaxCrashes
  OBVIOUS
<1>1. faults \in 0 .. MaxFaults /\ crashes \in 0 .. MaxCrashes
  BY DEF TypeOK
<1>2. faults' = faults \/ Fault
  BY DEF Next, vars, Mkdir, MkdirRest, MkdirFails, CreateTemp, WriteTemp, Rename, SyncDir,
     SaveFails,
         Receive, RemoveFile, ListFiles, RejectUpload, UpdateDuringIntake, Update, Unlink,
         UnlinkFails, Delete,
         RemoveEntry, RemoveDir, RemoveAllFails, Crash
<1>3. crashes' = crashes \/ Crash
  BY DEF Next, vars, Mkdir, MkdirRest, MkdirFails, CreateTemp, WriteTemp, Rename, SyncDir,
     SaveFails,
         Receive, RemoveFile, ListFiles, RejectUpload, UpdateDuringIntake, Update, Unlink,
         UnlinkFails, Delete,
         RemoveEntry, RemoveDir, RemoveAllFails, Untouched
<1> QED
  BY <1>1, <1>2, <1>3, DirectoryAssumption DEF Fault, Crash

\* Answers name files of the upload.
LEMMA AnswerTypes ==
    TypeOK /\ [Next]_vars =>
        /\ acked' \in [ok : BOOLEAN, files : SUBSET FileId]
        /\ last' \subseteq FileId /\ discarded' \in BOOLEAN
<1> SUFFICES ASSUME TypeOK, [Next]_vars
             PROVE /\ acked' \in [ok : BOOLEAN, files : SUBSET FileId]
                   /\ last' \subseteq FileId /\ discarded' \in BOOLEAN
  OBVIOUS
<1>1. acked \in [ok : BOOLEAN, files : SUBSET FileId] /\ last \subseteq FileId
      /\ discarded \in BOOLEAN /\ op.save \in SUBSET FileId
  BY DEF TypeOK, Operation
<1>2. NoAnswer \in [ok : BOOLEAN, files : SUBSET FileId]
      /\ Answer(op.save) \in [ok : BOOLEAN, files : SUBSET FileId]
  BY <1>1 DEF NoAnswer, Answer
<1>3. acked' \in {acked, NoAnswer, Answer(op.save)}
  BY DEF Next, vars, Mkdir, MkdirRest, MkdirFails, CreateTemp, WriteTemp, Rename, SyncDir,
     SaveFails,
         Receive, RemoveFile, ListFiles, RejectUpload, UpdateDuringIntake, Update, Unlink,
         UnlinkFails, Delete,
         RemoveEntry, RemoveDir, RemoveAllFails, Crash, AfterSave
<1>4. last' \in {last, op.save}
  BY DEF Next, vars, Mkdir, MkdirRest, MkdirFails, CreateTemp, WriteTemp, Rename, SyncDir,
     SaveFails,
         Receive, RemoveFile, ListFiles, RejectUpload, UpdateDuringIntake, Update, Unlink,
         UnlinkFails, Delete,
         RemoveEntry, RemoveDir, RemoveAllFails, Crash, Untouched
<1>5. discarded' \in BOOLEAN
  BY <1>1 DEF Next, vars, Mkdir, MkdirRest, MkdirFails, CreateTemp, WriteTemp, Rename, SyncDir,
         SaveFails, Receive, RemoveFile, ListFiles, RejectUpload, UpdateDuringIntake, Update,
         Unlink, UnlinkFails, Delete,
         RemoveEntry, RemoveDir, RemoveAllFails, Crash, Untouched
<1> QED
  BY <1>1, <1>2, <1>3, <1>4, <1>5

\* Every step keeps the types.
LEMMA DirectoryTypes == TypeOK /\ [Next]_vars => TypeOK'
  BY OperationTypes, DiskTypes, CounterTypes, AnswerTypes DEF TypeOK

-----------------------------------------------------------------------------
(* The induction step, action by action *)

\* The steps of Save before the rename leave the directory alone.
LEMMA SaveStarts ==
    DirectoryInv /\ (CreateTemp \/ WriteTemp) => DirectoryInv'
<1> SUFFICES ASSUME DirectoryInv, CreateTemp \/ WriteTemp PROVE DirectoryInv'
  OBVIOUS
<1>1. TypeOK'
  BY DirectoryTypes DEF DirectoryInv, Next
<1>2. op \in Operation /\ UNCHANGED <<disk, recoverable, discarded, acked>>
  BY DEF DirectoryInv, TypeOK, CreateTemp, WriteTemp, Untouched
<1>3. /\ op'.save = op.save /\ op'.old = op.old /\ op'.then = op.then /\ op'.file = op.file
      /\ op.pc \in SaveStage /\ op'.pc \in {"write", "rename"}
      /\ op'.pc = "rename" => op'.temp = "synced"
  BY <1>2 DEF CreateTemp, WriteTemp, Operation, SaveStage, Goto
<1>4. NoDanglingReference' /\ AnswerIsDurable'
  BY <1>2 DEF DirectoryInv, NoDanglingReference, AnswerIsDurable, Dangling, Listed
<1>5. SavesWhatIsThere' /\ ExcludesTheFile'
  BY <1>2, <1>3 DEF DirectoryInv, SavesWhatIsThere, ExcludesTheFile, SaveStage
<1>6. RenamedIsShown' /\ RenamesFlushed' /\ UnlinksAfterSync' /\ AnswersAtTheEnd'
  BY <1>2, <1>3 DEF DirectoryInv, RenamedIsShown, RenamesFlushed, UnlinksAfterSync, AnswersAtTheEnd,
     SaveStage
<1> QED
  BY <1>1, <1>4, <1>5, <1>6 DEF DirectoryInv

\* The rename shows a manifest whose inputs are there.
LEMMA RenameKeeps == DirectoryInv /\ Rename => DirectoryInv'
<1> SUFFICES ASSUME DirectoryInv, Rename PROVE DirectoryInv'
  OBVIOUS
<1>1. TypeOK'
  BY DirectoryTypes DEF DirectoryInv, Next
<1>2. op \in Operation /\ disk \in Directory /\ UNCHANGED <<discarded, acked>>
  BY DEF DirectoryInv, TypeOK, Rename
<1>3. /\ op'.save = op.save /\ op'.old = op.old /\ op'.then = op.then /\ op'.file = op.file
      /\ op.pc = "rename" /\ op'.pc = "syncDir"
  BY <1>2 DEF Rename, Operation
<1>4. disk'.manifest = Whole(op.save) /\ disk'.inputs = disk.inputs
  BY <1>2 DEF Rename, Directory
<1>5. recoverable' = recoverable \cup {disk'}
  BY DEF DirectoryInv, RenamesFlushed, Rename
<1>6. NoDanglingReference'
  BY <1>2, <1>3, <1>4, <1>5, ManifestKinds
     DEF DirectoryInv, NoDanglingReference, Dangling, Listed, SavesWhatIsThere, SaveStage
<1>7. AnswerIsDurable' /\ AnswersAtTheEnd'
  BY <1>2, <1>3 DEF DirectoryInv, AnswerIsDurable, AnswersAtTheEnd
<1>8. SavesWhatIsThere' /\ ExcludesTheFile'
  BY <1>2, <1>3, <1>4 DEF DirectoryInv, SavesWhatIsThere, ExcludesTheFile, SaveStage
<1>9. RenamedIsShown' /\ RenamesFlushed' /\ UnlinksAfterSync'
  BY <1>3, <1>4 DEF RenamedIsShown, RenamesFlushed, UnlinksAfterSync
<1> QED
  BY <1>1, <1>6, <1>7, <1>8, <1>9 DEF DirectoryInv

\* The sync makes durable what readers see, and the caller may be told.
LEMMA SyncKeeps == DirectoryInv /\ SyncDir => DirectoryInv'
<1> SUFFICES ASSUME DirectoryInv, SyncDir PROVE DirectoryInv'
  OBVIOUS
<1>1. TypeOK'
  BY DirectoryTypes DEF DirectoryInv, Next
<1>2. /\ op \in Operation /\ op.pc = "syncDir" /\ disk \in recoverable
      /\ UNCHANGED <<disk, discarded>> /\ disk.manifest = Whole(op.save)
      /\ recoverable' \subseteq recoverable /\ (DirectorySyncs => recoverable' = {disk})
  BY DEF DirectoryInv, TypeOK, SyncDir, RenamedIsShown
<1>3. NoDanglingReference'
  BY <1>2 DEF DirectoryInv, NoDanglingReference, Dangling, Listed
<1>4. ~acked.ok
  BY <1>2 DEF DirectoryInv, AnswersAtTheEnd
<1>5. \/ op' = Idle /\ acked' \in {acked, Answer(op.save)}
      \/ op' = [op EXCEPT !.pc = "receive"] /\ acked' \in {acked, Answer(op.save)}
      \/ op.then = "excluded" /\ op' = [op EXCEPT !.pc = "unlink"] /\ acked' = acked
  BY DEF SyncDir, AfterSave, Goto, Ends
<1>6. \/ op'.pc = "idle" /\ acked' \in {acked, Answer(op.save)}
      \/ op'.pc = "receive" /\ acked' \in {acked, Answer(op.save)}
      \/ /\ op'.pc = "unlink" /\ acked' = acked /\ op.then = "excluded"
         /\ op'.save = op.save /\ op'.old = op.old /\ op'.then = op.then /\ op'.file = op.file
  BY <1>2, <1>5 DEF Idle, Operation
<1>7. AnswerIsDurable' /\ AnswersAtTheEnd'
  BY <1>2, <1>4, <1>6 DEF AnswerIsDurable, AnswersAtTheEnd, Answer
<1>8. SavesWhatIsThere' /\ ExcludesTheFile'
  BY <1>2, <1>6 DEF DirectoryInv, SavesWhatIsThere, ExcludesTheFile, SaveStage
<1>9. RenamedIsShown' /\ RenamesFlushed' /\ UnlinksAfterSync'
  BY <1>2, <1>6 DEF RenamedIsShown, RenamesFlushed, UnlinksAfterSync
<1> QED
  BY <1>1, <1>3, <1>7, <1>8, <1>9 DEF DirectoryInv

\* A failed Save leaves the directory as it is; RemoveFile starts to roll back to a
\* manifest whose inputs are there.
LEMMA SaveFailsKeeps == DirectoryInv /\ SaveFails => DirectoryInv'
<1> SUFFICES ASSUME DirectoryInv, SaveFails PROVE DirectoryInv'
  OBVIOUS
<1>1. TypeOK'
  BY DirectoryTypes DEF DirectoryInv, Next
<1>2. /\ op \in Operation /\ op.pc \in SaveStage
      /\ UNCHANGED <<disk, recoverable, discarded, acked>>
  BY DEF DirectoryInv, TypeOK, SaveFails, Untouched, SaveStage
<1>3. ~acked.ok
  BY <1>2 DEF DirectoryInv, AnswersAtTheEnd, SaveStage
<1>4. \/ op'.pc \in {"undo", "receive", "removeAll", "idle"}
      \/ /\ op.then = "excluded" /\ op'.pc = "createTemp" /\ op'.save = op.old
         /\ op'.then = "rolledBack"
  <2>1. \/ op' = [op EXCEPT !.pc = "undo"]
        \/ op' = [op EXCEPT !.pc = "receive"]
        \/ op' = [op EXCEPT !.pc = "removeAll", !.old = disk.manifest.files]
        \/ op.then = "excluded" /\ op' = Saving(op.old, "rolledBack")
        \/ op' = Idle
    BY DEF SaveFails, AfterFailedSave, Goto, Ends
  <2>2. CASE \/ op' = [op EXCEPT !.pc = "undo"]
              \/ op' = [op EXCEPT !.pc = "receive"]
              \/ op' = Idle
    BY <1>2, <2>2 DEF Idle, Operation
  <2>3. CASE op' = [op EXCEPT !.pc = "removeAll", !.old = disk.manifest.files]
    BY <1>2, <2>3 DEF Operation
  <2>4. CASE op.then = "excluded" /\ op' = Saving(op.old, "rolledBack")
    BY <1>2, <2>4 DEF Saving, Operation
  <2> QED
    BY <2>1, <2>2, <2>3, <2>4
<1>5. NoDanglingReference' /\ AnswerIsDurable' /\ AnswersAtTheEnd'
  BY <1>2, <1>3 DEF DirectoryInv, NoDanglingReference, Dangling, Listed, AnswerIsDurable,
     AnswersAtTheEnd
<1>6. SavesWhatIsThere' /\ ExcludesTheFile'
  BY <1>2, <1>4 DEF DirectoryInv, SavesWhatIsThere, ExcludesTheFile, SaveStage
<1>7. RenamedIsShown' /\ RenamesFlushed' /\ UnlinksAfterSync'
  BY <1>4 DEF RenamedIsShown, RenamesFlushed, UnlinksAfterSync
<1> QED
  BY <1>1, <1>5, <1>6, <1>7 DEF DirectoryInv

\* A job is created only where there is none, so no answer about one is outstanding.
LEMMA CreateKeeps == DirectoryInv /\ (Mkdir \/ MkdirRest \/ MkdirFails) => DirectoryInv'
<1> SUFFICES ASSUME DirectoryInv, Mkdir \/ MkdirRest \/ MkdirFails PROVE DirectoryInv'
  OBVIOUS
<1>1. TypeOK'
  BY DirectoryTypes DEF DirectoryInv, Next
<1>2. op \in Operation /\ disk \in Directory /\ UNCHANGED discarded
  BY DEF DirectoryInv, TypeOK, Mkdir, MkdirRest, MkdirFails, Untouched
<1>3. ~acked'.ok
  <2>1. CASE Mkdir
    BY <2>1 DEF Mkdir, NoAnswer
  <2>2. CASE MkdirRest \/ MkdirFails
    BY <2>2 DEF MkdirRest, MkdirFails, DirectoryInv, AnswersAtTheEnd
  <2> QED
    BY <2>1, <2>2
<1>4. \/ op'.pc \in {"subdirs", "undo"}
      \/ op'.pc = "createTemp" /\ op'.save = {} /\ op'.then = "created"
  BY <1>2 DEF Mkdir, MkdirRest, MkdirFails, Saving, Goto, Idle, Operation
<1>5. NoDanglingReference'
  <2>1. CASE Mkdir
    BY <1>2, <2>1, ManifestKinds
       DEF Mkdir, Change, NoDirectory, DirectoryInv, NoDanglingReference, Dangling, Listed
  <2>2. CASE MkdirRest
    <3>1. disk \in recoverable /\ recoverable' = recoverable \cup {disk'}
      BY <2>2 DEF MkdirRest, Change, DirectoryInv, TypeOK
    <3>2. disk'.manifest = disk.manifest /\ disk'.inputs = disk.inputs /\ disk'.dir = disk.dir
      BY <1>2, <2>2 DEF MkdirRest, Change, Directory
    <3> QED
      BY <1>2, <3>1, <3>2 DEF DirectoryInv, NoDanglingReference, Dangling, Listed
  <2>3. CASE MkdirFails
    BY <1>2, <2>3 DEF MkdirFails, Untouched, DirectoryInv, NoDanglingReference, Dangling, Listed
  <2> QED
    BY <2>1, <2>2, <2>3
<1>6. AnswerIsDurable' /\ AnswersAtTheEnd'
  BY <1>2, <1>3 DEF AnswerIsDurable, AnswersAtTheEnd
<1>7. SavesWhatIsThere' /\ ExcludesTheFile'
  BY <1>4 DEF SavesWhatIsThere, ExcludesTheFile, SaveStage
<1>8. RenamedIsShown' /\ RenamesFlushed' /\ UnlinksAfterSync'
  BY <1>4 DEF RenamedIsShown, RenamesFlushed, UnlinksAfterSync
<1> QED
  BY <1>1, <1>5, <1>6, <1>7, <1>8 DEF DirectoryInv

\* Uploaded files only add inputs.
LEMMA ReceiveKeeps == DirectoryInv /\ (\E file \in FileId : Receive(file)) => DirectoryInv'
<1> SUFFICES ASSUME DirectoryInv, NEW file \in FileId, Receive(file) PROVE DirectoryInv'
  OBVIOUS
<1>1. TypeOK'
  BY DirectoryTypes DEF DirectoryInv, Next
<1>2. op.pc = "receive" /\ disk \in Directory /\ disk \in recoverable
      /\ UNCHANGED <<op, discarded, acked>>
  BY DEF DirectoryInv, TypeOK, Receive
<1>3. /\ disk'.manifest = disk.manifest /\ disk'.dir = disk.dir
      /\ disk.inputs \subseteq disk'.inputs /\ recoverable' = recoverable \cup {disk'}
  BY <1>2 DEF Receive, Change, Directory
<1>4. NoDanglingReference'
  BY <1>2, <1>3 DEF DirectoryInv, NoDanglingReference, Dangling, Listed
<1>5. AnswerIsDurable' /\ AnswersAtTheEnd'
  BY <1>2, <1>3 DEF DirectoryInv, AnswerIsDurable, AnswersAtTheEnd
<1>6. SavesWhatIsThere' /\ ExcludesTheFile' /\ RenamedIsShown' /\ RenamesFlushed' /\ UnlinksAfterSync'
  BY <1>2 DEF SavesWhatIsThere, ExcludesTheFile, RenamedIsShown, RenamesFlushed, UnlinksAfterSync,
     SaveStage
<1> QED
  BY <1>1, <1>4, <1>5, <1>6 DEF DirectoryInv

\* Accept saves the list of the inputs that are there, another request the list there is.
LEMMA AcceptKeeps ==
    DirectoryInv /\ (ListFiles \/ RejectUpload \/ UpdateDuringIntake) => DirectoryInv'
<1> SUFFICES ASSUME DirectoryInv, ListFiles \/ RejectUpload \/ UpdateDuringIntake
             PROVE DirectoryInv'
  OBVIOUS
<1>1. TypeOK'
  BY DirectoryTypes DEF DirectoryInv, Next
<1>2. /\ op \in Operation /\ op.pc = "receive" /\ disk \in recoverable /\ ~acked'.ok
      /\ UNCHANGED <<disk, recoverable, discarded>>
  BY DEF DirectoryInv, TypeOK, ListFiles, RejectUpload, UpdateDuringIntake, Untouched,
     NoAnswer
<1>3. \/ op'.pc = "removeAll"
      \/ op'.pc = "createTemp" /\ op'.save = disk.inputs /\ op'.then = "listed"
      \/ /\ op'.pc = "createTemp" /\ op'.save = disk.manifest.files /\ op'.then = "intake"
         /\ Listed(disk)
  <2>1. CASE ListFiles
    BY <1>2, <2>1 DEF ListFiles, Saving, Operation
  <2>2. CASE RejectUpload
    BY <1>2, <2>2 DEF RejectUpload, Operation
  <2>3. CASE UpdateDuringIntake
    BY <1>2, <2>3 DEF UpdateDuringIntake, Saving, Operation
  <2> QED
    BY <2>1, <2>2, <2>3
<1>4. Listed(disk) => discarded \/ disk.manifest.files \subseteq disk.inputs
  BY <1>2 DEF DirectoryInv, NoDanglingReference, Dangling
<1>5. NoDanglingReference' /\ AnswerIsDurable' /\ AnswersAtTheEnd'
  BY <1>2 DEF DirectoryInv, NoDanglingReference, Dangling, Listed, AnswerIsDurable, AnswersAtTheEnd
<1>6. SavesWhatIsThere' /\ ExcludesTheFile' /\ RenamedIsShown' /\ RenamesFlushed' /\ UnlinksAfterSync'
  BY <1>2, <1>3, <1>4 DEF SavesWhatIsThere, ExcludesTheFile, RenamedIsShown, RenamesFlushed,
     UnlinksAfterSync, SaveStage
<1> QED
  BY <1>1, <1>5, <1>6 DEF DirectoryInv

\* An operation that starts from the manifest readers see withdraws the last answer.
LEMMA StartKeeps ==
    DirectoryInv /\ (Update \/ Delete \/ \E file \in FileId : RemoveFile(file)) => DirectoryInv'
<1> SUFFICES ASSUME DirectoryInv, Update \/ Delete \/ \E file \in FileId : RemoveFile(file)
             PROVE DirectoryInv'
  OBVIOUS
<1>1. TypeOK'
  BY DirectoryTypes DEF DirectoryInv, Next
<1>2. /\ op \in Operation /\ disk \in recoverable /\ Listed(disk)
      /\ UNCHANGED <<disk, recoverable, discarded>> /\ acked' = NoAnswer
  BY DEF DirectoryInv, TypeOK, Update, Delete, RemoveFile, Untouched
<1>3. ~discarded => disk.manifest.files \subseteq disk.inputs
  BY <1>2 DEF DirectoryInv, NoDanglingReference, Dangling
<1>4. \/ op'.pc = "removeAll"
      \/ op'.pc = "createTemp" /\ op'.save = disk.manifest.files /\ op'.then = "updated"
      \/ /\ op'.pc = "createTemp" /\ op'.then = "excluded" /\ op'.old = disk.manifest.files
         /\ op'.save \subseteq disk.manifest.files /\ op'.file \cap op'.save = {}
  <2>1. CASE Update
    BY <1>2, <2>1 DEF Update, Saving, Operation
  <2>2. CASE Delete
    BY <2>2 DEF Delete, Idle
  <2>3. ASSUME NEW file \in FileId, RemoveFile(file)
        PROVE /\ op'.pc = "createTemp" /\ op'.then = "excluded" /\ op'.old = disk.manifest.files
              /\ op'.save = disk.manifest.files \ {file} /\ op'.file = {file}
    BY <1>2, <2>3 DEF RemoveFile, Saving, Operation
  <2> QED
    BY <2>1, <2>2, <2>3
<1>5. NoDanglingReference' /\ AnswerIsDurable' /\ AnswersAtTheEnd'
  BY <1>2 DEF DirectoryInv, NoDanglingReference, Dangling, Listed, AnswerIsDurable, AnswersAtTheEnd,
     NoAnswer
<1>6. SavesWhatIsThere' /\ ExcludesTheFile'
  BY <1>2, <1>3, <1>4 DEF SavesWhatIsThere, ExcludesTheFile, SaveStage
<1>7. RenamedIsShown' /\ RenamesFlushed' /\ UnlinksAfterSync'
  BY <1>4 DEF RenamedIsShown, RenamesFlushed, UnlinksAfterSync
<1> QED
  BY <1>1, <1>5, <1>6, <1>7 DEF DirectoryInv

\* The input goes when the manifest readers see does not name it; what a crash could bring
\* back from before has the input still.
LEMMA UnlinkKeeps == DirectoryInv /\ Unlink => DirectoryInv'
<1> SUFFICES ASSUME DirectoryInv, Unlink PROVE DirectoryInv'
  OBVIOUS
<1>1. TypeOK'
  BY DirectoryTypes DEF DirectoryInv, Next
<1>2. /\ op \in Operation /\ op.pc = "unlink" /\ disk \in Directory /\ disk \in recoverable
      /\ UNCHANGED discarded
  BY DEF DirectoryInv, TypeOK, Unlink
<1>3. /\ op.then = "excluded" /\ op.file \cap op.save = {}
      /\ disk.manifest = Whole(op.save)
      /\ DirectorySyncs => \A d \in recoverable : d.manifest = Whole(op.save)
  BY <1>2 DEF DirectoryInv, UnlinksAfterSync, ExcludesTheFile
<1>4. /\ disk'.manifest = disk.manifest /\ disk'.dir = disk.dir
      /\ disk'.inputs = disk.inputs \ op.file /\ recoverable' = recoverable \cup {disk'}
  BY <1>2 DEF Unlink, Change, Directory
<1>5. DirectorySyncs => \A d \in recoverable' : d.manifest = Whole(op.save)
  BY <1>2, <1>3, <1>4
<1>6. NoDanglingReference'
  BY <1>2, <1>3, <1>4, ManifestKinds DEF DirectoryInv, NoDanglingReference, Dangling, Listed
<1>7. \/ op'.pc = "removeAll" /\ acked' = acked
      \/ op'.pc = "idle" /\ acked' = Answer(op.save)
  <2>1. \/ op' = [op EXCEPT !.pc = "removeAll", !.old = {}] /\ acked' = acked
        \/ op' = Idle /\ acked' = Answer(op.save)
    BY DEF Unlink, Ends
  <2>2. [op EXCEPT !.pc = "removeAll", !.old = {}].pc = "removeAll" /\ Idle.pc = "idle"
    BY <1>2 DEF Operation, Idle
  <2> QED
    BY <2>1, <2>2
<1>8. AnswerIsDurable' /\ AnswersAtTheEnd'
  BY <1>2, <1>5, <1>7 DEF DirectoryInv, AnswerIsDurable, AnswersAtTheEnd, Answer
<1>9. SavesWhatIsThere' /\ ExcludesTheFile' /\ RenamedIsShown' /\ RenamesFlushed' /\ UnlinksAfterSync'
  BY <1>7 DEF SavesWhatIsThere, ExcludesTheFile, RenamedIsShown, RenamesFlushed,
     UnlinksAfterSync, SaveStage
<1> QED
  BY <1>1, <1>6, <1>8, <1>9 DEF DirectoryInv

\* When the input cannot be unlinked, the restored manifest names inputs that are there.
LEMMA UnlinkFailsKeeps == DirectoryInv /\ UnlinkFails => DirectoryInv'
<1> SUFFICES ASSUME DirectoryInv, UnlinkFails PROVE DirectoryInv'
  OBVIOUS
<1>1. TypeOK'
  BY DirectoryTypes DEF DirectoryInv, Next
<1>2. op \in Operation /\ op.pc = "unlink" /\ UNCHANGED <<disk, recoverable, discarded, acked>>
  BY DEF DirectoryInv, TypeOK, UnlinkFails, Untouched
<1>3. op.then = "excluded" /\ (~discarded => op.old \subseteq disk.inputs) /\ ~acked.ok
  BY <1>2 DEF DirectoryInv, UnlinksAfterSync, SavesWhatIsThere, AnswersAtTheEnd
<1>4. op'.pc = "createTemp" /\ op'.save = op.old /\ op'.then = "rolledBack"
  BY <1>2 DEF UnlinkFails, Saving, Operation
<1>5. NoDanglingReference' /\ AnswerIsDurable' /\ AnswersAtTheEnd'
  BY <1>2, <1>3 DEF DirectoryInv, NoDanglingReference, Dangling, Listed, AnswerIsDurable,
     AnswersAtTheEnd
<1>6. SavesWhatIsThere' /\ ExcludesTheFile' /\ RenamedIsShown' /\ RenamesFlushed' /\ UnlinksAfterSync'
  BY <1>2, <1>3, <1>4 DEF SavesWhatIsThere, ExcludesTheFile, RenamedIsShown, RenamesFlushed,
     UnlinksAfterSync, SaveStage
<1> QED
  BY <1>1, <1>5, <1>6 DEF DirectoryInv

\* RemoveAll answers nobody, and what it leaves dangling is on record.
LEMMA RemoveKeeps == DirectoryInv /\ (RemoveEntry \/ RemoveDir) => DirectoryInv'
<1> SUFFICES ASSUME DirectoryInv, RemoveEntry \/ RemoveDir PROVE DirectoryInv'
  OBVIOUS
<1>1. TypeOK'
  BY DirectoryTypes DEF DirectoryInv, Next
<1>2. op.pc \in {"removeAll", "undo"} /\ UNCHANGED acked /\ recoverable' = recoverable \cup {disk'}
  BY DEF RemoveEntry, RemoveDir, Removing, Change
<1>3. ~acked.ok
  BY <1>2 DEF DirectoryInv, AnswersAtTheEnd
<1>4. op'.pc \in {"removeAll", "undo", "idle"}
  BY <1>2 DEF RemoveEntry, RemoveDir, Ends, Idle
<1>5. NoDanglingReference'
  <2>1. CASE RemoveEntry
    BY <1>2, <2>1 DEF RemoveEntry, DirectoryInv, NoDanglingReference, Dangling, Listed
  <2>2. CASE RemoveDir
    BY <1>2, <2>2 DEF RemoveDir, Change, NoDirectory, DirectoryInv, NoDanglingReference, Dangling,
       Listed
  <2> QED
    BY <2>1, <2>2
<1>6. AnswerIsDurable' /\ AnswersAtTheEnd'
  BY <1>2, <1>3 DEF AnswerIsDurable, AnswersAtTheEnd
<1>7. SavesWhatIsThere' /\ ExcludesTheFile' /\ RenamedIsShown' /\ RenamesFlushed' /\ UnlinksAfterSync'
  BY <1>4 DEF SavesWhatIsThere, ExcludesTheFile, RenamedIsShown, RenamesFlushed,
     UnlinksAfterSync, SaveStage
<1> QED
  BY <1>1, <1>5, <1>6, <1>7 DEF DirectoryInv

\* A removal that failed leaves the directory as it is and may save an empty manifest.
LEMMA RemoveAllFailsKeeps == DirectoryInv /\ RemoveAllFails => DirectoryInv'
<1> SUFFICES ASSUME DirectoryInv, RemoveAllFails PROVE DirectoryInv'
  OBVIOUS
<1>1. TypeOK'
  BY DirectoryTypes DEF DirectoryInv, Next
<1>2. /\ op \in Operation /\ op.pc \in {"removeAll", "undo"}
      /\ UNCHANGED <<disk, recoverable, discarded, acked>>
  BY DEF DirectoryInv, TypeOK, RemoveAllFails, Removing, Untouched
<1>3. ~acked.ok
  BY <1>2 DEF DirectoryInv, AnswersAtTheEnd
<1>4. \/ op'.pc = "idle"
      \/ op'.pc = "createTemp" /\ op'.save = {} /\ op'.then = "preserved"
  <2>1. op' = Idle \/ op' = Saving({}, "preserved")
    BY DEF RemoveAllFails, AfterFailedRemoval, Ends
  <2> QED
    <3>1. CASE op' = Idle
      BY <3>1 DEF Idle
    <3>2. CASE op' = Saving({}, "preserved")
      BY <1>2, <3>2 DEF Saving, Operation
    <3> QED
      BY <2>1, <3>1, <3>2
<1>5. NoDanglingReference' /\ AnswerIsDurable' /\ AnswersAtTheEnd'
  BY <1>2, <1>3 DEF DirectoryInv, NoDanglingReference, Dangling, Listed, AnswerIsDurable,
     AnswersAtTheEnd
<1>6. SavesWhatIsThere' /\ ExcludesTheFile' /\ RenamedIsShown' /\ RenamesFlushed' /\ UnlinksAfterSync'
  BY <1>4 DEF SavesWhatIsThere, ExcludesTheFile, RenamedIsShown, RenamesFlushed,
     UnlinksAfterSync, SaveStage
<1> QED
  BY <1>1, <1>5, <1>6 DEF DirectoryInv

\* A crash brings back a directory the invariant already speaks of.
LEMMA CrashKeeps == DirectoryInv /\ (Crash \/ UNCHANGED vars) => DirectoryInv'
<1> SUFFICES ASSUME DirectoryInv, Crash \/ UNCHANGED vars PROVE DirectoryInv'
  OBVIOUS
<1>1. TypeOK'
  BY DirectoryTypes DEF DirectoryInv, Next
<1>2. CASE Crash
  <2>1. op'.pc = "idle" /\ UNCHANGED <<discarded, acked>>
    BY <1>2 DEF Crash, Idle
  <2>2. recoverable' \subseteq recoverable
    BY <1>2 DEF Crash
  <2>3. NoDanglingReference' /\ AnswerIsDurable' /\ AnswersAtTheEnd'
    BY <2>1, <2>2 DEF DirectoryInv, NoDanglingReference, Dangling, Listed, AnswerIsDurable,
       AnswersAtTheEnd
  <2>4. SavesWhatIsThere' /\ ExcludesTheFile' /\ RenamedIsShown' /\ RenamesFlushed'
        /\ UnlinksAfterSync'
    BY <2>1 DEF SavesWhatIsThere, ExcludesTheFile, RenamedIsShown, RenamesFlushed,
       UnlinksAfterSync, SaveStage
  <2> QED
    BY <1>1, <2>3, <2>4 DEF DirectoryInv
<1>3. CASE UNCHANGED vars
  BY <1>1, <1>3 DEF vars, DirectoryInv, NoDanglingReference, Dangling, Listed, AnswerIsDurable,
     SavesWhatIsThere, ExcludesTheFile, RenamedIsShown, RenamesFlushed, UnlinksAfterSync,
     AnswersAtTheEnd
<1> QED
  BY <1>2, <1>3

\* The invariant is inductive.
LEMMA DirectoryStep == DirectoryInv /\ [Next]_vars => DirectoryInv'
  BY SaveStarts, RenameKeeps, SyncKeeps, SaveFailsKeeps, CreateKeeps, ReceiveKeeps, AcceptKeeps,
     StartKeeps, UnlinkKeeps, UnlinkFailsKeeps, RemoveKeeps, RemoveAllFailsKeeps, CrashKeeps
     DEF Next

\* It holds in every reachable state.
LEMMA DirectoryInvariant == Spec => []DirectoryInv
  BY DirectoryInit, DirectoryStep, PTL DEF Spec

\* The directory, the operation in progress and what a crash may bring back keep their types.
THEOREM DirectoryTypeCorrect == Spec => []TypeOK
<1>1. DirectoryInv => TypeOK
  BY DEF DirectoryInv
<1> QED
  BY <1>1, DirectoryInvariant, PTL

\* RemoveFile and Save never leave a manifest that names bytes they removed, whatever fails
\* and wherever the machine stops (remove.go:71-81).
THEOREM NothingDangles == Spec => []NoDanglingReference
<1>1. DirectoryInv => NoDanglingReference
  BY DEF DirectoryInv
<1> QED
  BY <1>1, DirectoryInvariant, PTL

\* A manifest whose Save returned nil survives every crash (store.go:194-197).
THEOREM AnswersSurvive == Spec => []AnswerIsDurable
<1>1. DirectoryInv => AnswerIsDurable
  BY DEF DirectoryInv
<1> QED
  BY <1>1, DirectoryInvariant, PTL

-----------------------------------------------------------------------------
(* The refinement *)

\* A change of the directory that is not about the manifest does not show in the store.
LEMMA OtherChange ==
    ASSUME DirectoryInv, disk'.manifest = disk.manifest, recoverable' = recoverable \cup {disk'}
    PROVE UNCHANGED M!vars
<1>1. disk \in recoverable
  BY DEF DirectoryInv, TypeOK
<1>2. {d.manifest : d \in recoverable'} = {d.manifest : d \in recoverable}
  BY <1>1
<1> QED
  BY <1>2 DEF M!vars

\* A change that removes the manifest.
LEMMA ManifestGone ==
    ASSUME disk'.manifest = Absent, recoverable' = recoverable \cup {disk'}
    PROVE M!Next
<1>1. {d.manifest : d \in recoverable'} = {d.manifest : d \in recoverable} \cup {Absent}
  OBVIOUS
<1>2. M!Vanish
  BY <1>1 DEF M!Vanish, M!Absent, Absent
<1> QED
  BY <1>2 DEF M!Next

\* Save's rename publishes a manifest.
LEMMA RenamePublishes == DirectoryInv /\ Rename => M!Next
<1> SUFFICES ASSUME DirectoryInv, Rename PROVE M!Next
  OBVIOUS
<1>1. op.save \in SUBSET FileId /\ disk \in Directory
  BY DEF DirectoryInv, TypeOK, Operation
<1>2. disk'.manifest = Whole(op.save)
  BY <1>1 DEF Rename, Directory
<1>3. recoverable' = recoverable \cup {disk'}
  BY DEF DirectoryInv, RenamesFlushed, Rename
<1>4. {d.manifest : d \in recoverable'} = {d.manifest : d \in recoverable} \cup {disk'.manifest}
  BY <1>3
<1>5. \E files \in SUBSET FileId : M!Publish(files)
  BY <1>1, <1>2, <1>4 DEF M!Publish, M!Whole, Whole
<1> QED
  BY <1>5 DEF M!Next

\* Every step of the directory is a step of the store or does not show in it.
LEMMA StoreStep == DirectoryInv /\ [Next]_vars => [M!Next]_(M!vars)
<1> SUFFICES ASSUME DirectoryInv, [Next]_vars PROVE M!Next \/ UNCHANGED M!vars
  OBVIOUS
<1>1. disk \in Directory /\ disk \in recoverable
  BY DEF DirectoryInv, TypeOK
<1>2. CASE UNCHANGED <<disk, recoverable>>
  BY <1>2 DEF M!vars
<1>3. CASE Rename
  BY <1>3, RenamePublishes
<1>4. CASE SyncDir
  <2> SUFFICES ASSUME DirectorySyncs PROVE M!Next
    BY <1>2, <1>4 DEF SyncDir
  <2>1. {d.manifest : d \in recoverable'} = {disk.manifest} /\ disk' = disk
    BY <1>4 DEF SyncDir
  <2>2. M!Commit
    BY <2>1 DEF M!Commit
  <2> QED
    BY <2>2 DEF M!Next
<1>5. CASE Crash
  <2>1. disk' \in recoverable /\ {d.manifest : d \in recoverable'} = {disk'.manifest}
    BY <1>5 DEF Crash
  <2>2. M!Crash
    BY <2>1 DEF M!Crash
  <2> QED
    BY <2>2 DEF M!Next
<1>6. CASE Mkdir
  <2>1. disk = NoDirectory /\ recoverable' = recoverable \cup {disk'}
    BY <1>1, <1>6 DEF Mkdir, Change
  <2>2. disk'.manifest = disk.manifest
    BY <1>6, <2>1 DEF Mkdir, Change, NoDirectory
  <2> QED
    BY <2>1, <2>2, OtherChange
<1>7. CASE MkdirRest \/ Unlink \/ \E file \in FileId : Receive(file)
  <2>1. disk'.manifest = disk.manifest /\ recoverable' = recoverable \cup {disk'}
    BY <1>1, <1>7 DEF MkdirRest, Unlink, Receive, Change, Directory
  <2> QED
    BY <2>1, OtherChange
<1>8. CASE RemoveEntry
  <2>1. recoverable' = recoverable \cup {disk'}
    BY <1>8 DEF RemoveEntry, Change
  <2>2. disk'.manifest = disk.manifest \/ disk'.manifest = Absent
    BY <1>1, <1>8 DEF RemoveEntry, Change, Directory
  <2> QED
    BY <2>1, <2>2, OtherChange, ManifestGone
<1>9. CASE RemoveDir
  <2>1. recoverable' = recoverable \cup {disk'} /\ disk'.manifest = Absent
    BY <1>9 DEF RemoveDir, Change, NoDirectory
  <2> QED
    BY <2>1, ManifestGone
<1> QED
  BY <1>2, <1>3, <1>4, <1>5, <1>6, <1>7, <1>8, <1>9
     DEF Next, vars, MkdirFails, CreateTemp, WriteTemp, SaveFails, RemoveFile, ListFiles,
     RejectUpload, UpdateDuringIntake,
         Update, UnlinkFails, Delete, RemoveAllFails, Untouched

\* Readers find a whole manifest or none, whatever fails and wherever the machine stops:
\* the directory implements the abstract store (store.go:151-198).
THEOREM DirectoryImplementsStore == Spec => ImplementsManifestStore
<1>1. Init => M!Init
  <2>1. ASSUME Init PROVE {d.manifest : d \in recoverable} = {NoDirectory.manifest}
    BY <2>1 DEF Init
  <2> QED
    BY <2>1 DEF Init, M!Init, NoDirectory, Absent, M!Absent
<1> QED
  BY <1>1, StoreStep, DirectoryInvariant, PTL DEF Spec, M!Spec, ImplementsManifestStore

-----------------------------------------------------------------------------
(* Listing after a single fault *)

SingleFault == crashes = 0 /\ faults <= 1

\* Readers see the manifest published last, or none.
ShowsLast == disk.manifest \in {Absent, Whole(last)}

\* Whoever loaded a manifest, and whoever has just published one, finds it in place.
StaysShown ==
    \/ op.pc \in SaveStage /\ op.then \notin {"created", "preserved"}
    \/ op.pc \in {"syncDir", "receive", "unlink"}
    => disk.dir /\ disk.manifest = Whole(last)

\* A removal knows whether the manifest published last was empty.
RemovesLast == op.pc = "removeAll" => op.old = last

\* The operations that only a failure starts have used up the one fault.
FaultIsSpent ==
    \/ op.pc = "undo"
    \/ op.pc \in SaveStage /\ op.then = "preserved"
    => faults = 1

ListingInv ==
    SingleFault => ShowsLast /\ StaysShown /\ RemovesLast /\ FaultIsSpent /\ EmptyJobStaysListed

\* Every operation keeps the parts, as long as at most one call fails.
LEMMA ListingStep ==
    DirectoryInv /\ ListingInv /\ [Next]_vars => ListingInv'
<1> SUFFICES ASSUME DirectoryInv, ListingInv, [Next]_vars, SingleFault' PROVE
        ShowsLast' /\ StaysShown' /\ RemovesLast' /\ FaultIsSpent' /\ EmptyJobStaysListed'
  BY DEF ListingInv
<1> USE DEF SaveStage
<1>1. faults \in Nat /\ faults' \in Nat /\ crashes \in Nat /\ ~Crash
  <2>1. faults \in Nat /\ crashes \in Nat
    BY DirectoryAssumption DEF DirectoryInv, TypeOK
  <2>2. TypeOK'
    BY DirectoryTypes DEF DirectoryInv
  <2>3. faults' \in Nat
    BY <2>2, DirectoryAssumption DEF TypeOK
  <2>4. Crash => crashes' # 0
    BY <2>1 DEF Crash
  <2> QED
    BY <2>1, <2>3, <2>4 DEF SingleFault
<1>2. SingleFault
  <2>1. crashes' = crashes
    BY <1>1 DEF Next, vars, Mkdir, MkdirRest, MkdirFails, CreateTemp, WriteTemp, Rename, SyncDir,
       SaveFails, Receive, RemoveFile, ListFiles, RejectUpload, UpdateDuringIntake, Update,
       Unlink, UnlinkFails, Delete,
       RemoveEntry, RemoveDir, RemoveAllFails, Untouched
  <2>2. faults' = faults \/ faults' = faults + 1
    BY <1>1 DEF Next, vars, Mkdir, MkdirRest, MkdirFails, CreateTemp, WriteTemp, Rename, SyncDir,
       SaveFails, Receive, RemoveFile, ListFiles, RejectUpload, UpdateDuringIntake, Update,
       Unlink, UnlinkFails, Delete,
       RemoveEntry, RemoveDir, RemoveAllFails, Untouched, Fault
  <2> QED
    BY <1>1, <2>1, <2>2 DEF SingleFault
<1>3. ShowsLast /\ StaysShown /\ RemovesLast /\ FaultIsSpent /\ EmptyJobStaysListed
  BY <1>2 DEF ListingInv
<1>4. op \in Operation /\ disk \in Directory
  BY DEF DirectoryInv, TypeOK
<1>5. \A files : Whole(files).kind = "whole" /\ Whole(files).files = files /\ Whole(files) # Absent
  BY ManifestKinds
<1>6. CASE UNCHANGED vars
  BY <1>3, <1>6 DEF vars, ShowsLast, StaysShown, RemovesLast, FaultIsSpent, EmptyJobStaysListed,
     Listed
<1>7. CASE Mkdir
  <2>1. op'.pc = "subdirs" /\ disk'.manifest = Absent
    BY <1>7 DEF Mkdir, Change, NoDirectory, Idle
  <2> QED
    BY <2>1 DEF ShowsLast, StaysShown, RemovesLast, FaultIsSpent, EmptyJobStaysListed
<1>8. CASE MkdirRest
  <2>1. /\ op'.pc = "createTemp" /\ op'.then = "created"
        /\ disk'.manifest = disk.manifest /\ last' = last
    BY <1>4, <1>8 DEF MkdirRest, Change, Saving, Operation, Directory
  <2> QED
    BY <1>3, <2>1 DEF ShowsLast, StaysShown, RemovesLast, FaultIsSpent, EmptyJobStaysListed
<1>9. CASE MkdirFails
  <2>1. op'.pc = "undo" /\ UNCHANGED <<disk, last>> /\ faults' = faults + 1
    BY <1>4, <1>9 DEF MkdirFails, Goto, Untouched, Operation, Fault
  <2>2. faults' = 1
    BY <1>1, <2>1 DEF SingleFault
  <2> QED
    BY <1>3, <2>1, <2>2 DEF ShowsLast, StaysShown, RemovesLast, FaultIsSpent, EmptyJobStaysListed
<1>10. CASE CreateTemp \/ WriteTemp
  <2>1. /\ op.pc \in {"createTemp", "write"} /\ op'.pc \in {"write", "rename"} /\ op'.then = op.then
        /\ UNCHANGED <<disk, last, faults>>
    BY <1>4, <1>10 DEF CreateTemp, WriteTemp, Untouched, Operation
  <2> QED
    BY <1>3, <2>1 DEF ShowsLast, StaysShown, RemovesLast, FaultIsSpent, EmptyJobStaysListed
<1>11. CASE Rename
  <2>1. /\ op.pc = "rename" /\ op'.pc = "syncDir" /\ op'.then = op.then /\ last' = op.save
        /\ disk'.manifest = Whole(op.save) /\ disk'.dir /\ UNCHANGED faults
    BY <1>4, <1>11 DEF Rename, Operation, Directory
  <2> QED
    BY <1>3, <2>1 DEF ShowsLast, StaysShown, RemovesLast, FaultIsSpent, EmptyJobStaysListed
<1>12. CASE SyncDir
  <2>1. op.pc = "syncDir" /\ op'.pc \in {"receive", "unlink", "idle"} /\ UNCHANGED <<disk, last>>
    BY <1>4, <1>12 DEF SyncDir, AfterSave, Goto, Ends, Idle, Operation
  <2>2. disk.dir /\ disk.manifest = Whole(last)
    BY <1>3, <2>1 DEF StaysShown
  <2> QED
    BY <1>3, <1>5, <2>1, <2>2 DEF ShowsLast, StaysShown, RemovesLast, FaultIsSpent,
       EmptyJobStaysListed, Listed
<1>13. CASE SaveFails
  <2>1. op.pc \in SaveStage /\ UNCHANGED <<disk, last>> /\ faults' = faults + 1 /\ AfterFailedSave
    BY <1>13 DEF SaveFails, Untouched, Fault
  <2>2. faults = 0 /\ faults' = 1
    BY <1>1, <2>1 DEF SingleFault
  <2>3. op.then # "preserved"
    BY <1>3, <2>1, <2>2 DEF FaultIsSpent
  <2>4. CASE op.then = "created"
    <3>1. op'.pc = "undo"
      BY <1>4, <2>1, <2>4 DEF AfterFailedSave, Goto, Operation
    <3> QED
      BY <1>3, <2>1, <2>2, <3>1 DEF ShowsLast, StaysShown, RemovesLast, FaultIsSpent,
         EmptyJobStaysListed
  <2>5. CASE op.then # "created"
    <3>1. disk.dir /\ disk.manifest = Whole(last)
      BY <1>3, <2>1, <2>3, <2>5 DEF StaysShown
    <3>2. \/ op'.pc = "removeAll" /\ op'.old = disk.manifest.files
          \/ op'.pc = "createTemp" /\ op'.then = "rolledBack"
          \/ op'.pc \in {"idle", "receive"}
      <4>1. CASE op.then = "listed"
        BY <1>4, <2>1, <4>1 DEF AfterFailedSave, Operation
      <4>2. CASE op.then = "excluded"
        BY <1>4, <2>1, <4>2 DEF AfterFailedSave, Saving, Operation
      <4>3. CASE op.then = "intake"
        BY <1>4, <2>1, <4>3 DEF AfterFailedSave, Goto, Operation
      <4>4. CASE op.then \notin {"created", "intake", "listed", "excluded"}
        BY <2>1, <4>4 DEF AfterFailedSave, Ends, Idle
      <4> QED
        BY <2>5, <4>1, <4>2, <4>3, <4>4
    <3> QED
      BY <1>3, <1>5, <2>1, <2>2, <3>1, <3>2 DEF ShowsLast, StaysShown, RemovesLast, FaultIsSpent,
         EmptyJobStaysListed, Listed
  <2> QED
    BY <2>4, <2>5
<1>14. CASE \E file \in FileId : Receive(file)
  <2>1. /\ op.pc = "receive" /\ UNCHANGED <<op, last, faults>>
        /\ disk'.manifest = disk.manifest /\ disk'.dir = disk.dir
    BY <1>4, <1>14 DEF Receive, Change, Directory
  <2> QED
    BY <1>3, <2>1 DEF ShowsLast, StaysShown, RemovesLast, FaultIsSpent, EmptyJobStaysListed
<1>15. CASE ListFiles \/ RejectUpload \/ UpdateDuringIntake
  <2>1. /\ op.pc = "receive" /\ UNCHANGED <<disk, last, faults>>
        /\ \/ op'.pc = "createTemp" /\ op'.then \in {"listed", "intake"}
           \/ op'.pc = "removeAll" /\ op'.old = disk.manifest.files
    <3>1. CASE ListFiles
      BY <1>4, <3>1 DEF ListFiles, Saving, Untouched, Operation
    <3>2. CASE RejectUpload
      BY <1>4, <3>2 DEF RejectUpload, Untouched, Operation
    <3>3. CASE UpdateDuringIntake
      BY <1>4, <3>3 DEF UpdateDuringIntake, Saving, Untouched, Operation
    <3> QED
      BY <1>15, <3>1, <3>2, <3>3
  <2>2. disk.dir /\ disk.manifest = Whole(last)
    BY <1>3, <2>1 DEF StaysShown
  <2> QED
    BY <1>3, <1>5, <2>1, <2>2 DEF ShowsLast, StaysShown, RemovesLast, FaultIsSpent,
       EmptyJobStaysListed
<1>16. CASE Update \/ Delete \/ \E file \in FileId : RemoveFile(file)
  <2>1. /\ Listed(disk) /\ UNCHANGED <<disk, last, faults>>
        /\ \/ op'.pc = "createTemp" /\ op'.then \in {"updated", "excluded"}
           \/ op'.pc = "removeAll" /\ op'.old = disk.manifest.files
    <3>1. CASE Update
      BY <1>4, <3>1 DEF Update, Saving, Untouched, Operation
    <3>2. CASE Delete
      BY <3>2 DEF Delete, Idle, Untouched
    <3>3. CASE \E file \in FileId : RemoveFile(file)
      BY <1>4, <3>3 DEF RemoveFile, Saving, Untouched, Operation
    <3> QED
      BY <1>16, <3>1, <3>2, <3>3
  <2>2. disk.dir /\ disk.manifest = Whole(last)
    BY <1>3, <2>1, ManifestKinds DEF ShowsLast, Listed
  <2> QED
    BY <1>3, <1>5, <2>1, <2>2 DEF ShowsLast, StaysShown, RemovesLast, FaultIsSpent,
       EmptyJobStaysListed
<1>17. CASE Unlink
  <2>1. /\ op.pc = "unlink" /\ UNCHANGED <<last, faults>>
        /\ disk'.manifest = disk.manifest /\ disk'.dir = disk.dir
    BY <1>4, <1>17 DEF Unlink, Change, Directory
  <2>2. disk.dir /\ disk.manifest = Whole(last)
    BY <1>3, <2>1 DEF StaysShown
  <2>3. disk.manifest = Whole(op.save)
    BY <2>1 DEF DirectoryInv, TypeOK, UnlinksAfterSync
  <2>4. last = op.save
    BY <1>5, <2>2, <2>3
  <2>5. \/ op.save = {} /\ op'.pc = "removeAll" /\ op'.old = {}
        \/ op'.pc = "idle"
    <3>1. CASE op.save = {}
      BY <1>4, <1>17, <3>1 DEF Unlink, Operation
    <3>2. CASE op.save # {}
      BY <1>17, <3>2 DEF Unlink, Ends, Idle
    <3> QED
      BY <3>1, <3>2
  <2> QED
    BY <1>3, <1>5, <2>1, <2>2, <2>4, <2>5 DEF ShowsLast, StaysShown, RemovesLast, FaultIsSpent,
       EmptyJobStaysListed, Listed
<1>18. CASE UnlinkFails
  <2>1. /\ op.pc = "unlink" /\ op'.pc = "createTemp" /\ op'.then = "rolledBack"
        /\ UNCHANGED <<disk, last>>
    BY <1>4, <1>18 DEF UnlinkFails, Saving, Untouched, Operation
  <2> QED
    BY <1>3, <2>1 DEF ShowsLast, StaysShown, RemovesLast, FaultIsSpent, EmptyJobStaysListed
<1>19. CASE RemoveEntry
  <2>1. /\ op.pc \in {"removeAll", "undo"} /\ UNCHANGED <<op, last, faults>>
        /\ disk'.manifest \in {disk.manifest, Absent}
    BY <1>4, <1>19 DEF RemoveEntry, Removing, Change, Directory
  <2> QED
    BY <1>3, <2>1 DEF ShowsLast, StaysShown, RemovesLast, FaultIsSpent, EmptyJobStaysListed
<1>20. CASE RemoveDir
  <2>1. op'.pc = "idle" /\ disk'.manifest = Absent /\ disk'.dir = FALSE
    BY <1>20 DEF RemoveDir, Change, NoDirectory, Ends, Idle
  <2> QED
    BY <2>1 DEF ShowsLast, StaysShown, RemovesLast, FaultIsSpent, EmptyJobStaysListed
<1>21. CASE RemoveAllFails
  <2>1. op.pc \in {"removeAll", "undo"} /\ UNCHANGED <<disk, last>> /\ faults' = faults + 1
    BY <1>21 DEF RemoveAllFails, Removing, Untouched, Fault
  <2>2. faults = 0 /\ faults' = 1
    BY <1>1, <2>1 DEF SingleFault
  <2>3. op.pc = "removeAll" /\ op.old = last
    BY <1>3, <2>1, <2>2 DEF FaultIsSpent, RemovesLast
  <2>4. CASE op.old = {}
    <3>1. op'.pc = "createTemp" /\ op'.then = "preserved"
      BY <1>4, <1>21, <2>3, <2>4 DEF RemoveAllFails, AfterFailedRemoval, Saving, Operation
    <3> QED
      BY <1>3, <2>1, <2>2, <3>1 DEF ShowsLast, StaysShown, RemovesLast, FaultIsSpent,
         EmptyJobStaysListed
  <2>5. CASE op.old # {}
    <3>1. op'.pc = "idle"
      BY <1>21, <2>5 DEF RemoveAllFails, AfterFailedRemoval, Ends, Idle
    <3> QED
      BY <1>3, <2>1, <2>3, <2>5, <3>1 DEF ShowsLast, StaysShown, RemovesLast, FaultIsSpent,
         EmptyJobStaysListed
  <2> QED
    BY <2>4, <2>5
<1> QED
  BY <1>1, <1>6, <1>7, <1>8, <1>9, <1>10, <1>11, <1>12, <1>13, <1>14, <1>15, <1>16, <1>17, <1>18,
     <1>19, <1>20, <1>21 DEF Next

\* A directory that outlives a failed removal is found by the next sweep when its manifest
\* was empty and nothing else failed: Delete puts the manifest back (store.go:262-271).
THEOREM EmptyJobsStayListed == Spec => []EmptyJobStaysListed
<1>1. Init => ListingInv
  BY DEF Init, Idle, NoDirectory, ListingInv, ShowsLast, StaysShown, RemovesLast, FaultIsSpent,
     EmptyJobStaysListed, SaveStage
<1>2. ListingInv => EmptyJobStaysListed
  BY DEF ListingInv, SingleFault, EmptyJobStaysListed
<1> QED
  BY <1>1, <1>2, ListingStep, DirectoryInvariant, PTL DEF Spec
=============================================================================
