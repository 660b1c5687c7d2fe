---------------------------- MODULE JobLifecycle ----------------------------
(***************************************************************************)
(* What the manifest of a job may show a client, step by step: the state   *)
(* machine that the job page, the listing and the downloads rely on.  It   *)
(* says nothing about queues, workers, leases, locks or processes; module  *)
(* JobManager implements it.  Each action names the manager operations     *)
(* that write the manifest this way.                                       *)
(***************************************************************************)
EXTENDS JobStates

CONSTANTS Job, File

VARIABLES
    jobState,   \* the state every manifest shows
    fileState,  \* the states of the files it lists
    withdrawn   \* empty jobs whose rejected upload is being taken away

lifecycleVars == <<jobState, fileState, withdrawn>>

Unlisted == [f \in File |-> "absent"]

Manifest(j, state, files) ==
    /\ jobState' = [jobState EXCEPT ![j] = state]
    /\ fileState' = [fileState EXCEPT ![j] = files]

\* store.Create: the job appears, empty; when it fails the identifier is spent.
Create(j, state) ==
    /\ jobState[j] = "unused" /\ state \in {"pending", "deleted"}
    /\ Manifest(j, state, Unlisted)

\* Accept lists the uploaded files, once, when they are probed: convertible or
\* failed, and nothing convertible in a job canceled during intake.
List(j, files) ==
    /\ jobState[j] \in {"pending", "canceled"} /\ fileState[j] = Unlisted
    /\ j \notin withdrawn
    /\ \A f \in File : files[f] \in
          IF jobState[j] = "pending" THEN {"absent", "inspected", "failed"}
                                     ELSE {"absent", "canceled", "failed"}
    /\ Manifest(j, jobState[j], files)

\* RemoveFile drops a file of a pending job.
Drop(j, f) ==
    /\ jobState[j] = "pending" /\ fileState[j][f] # "absent"
    /\ Manifest(j, "pending", [fileState[j] EXCEPT ![f] = "absent"])

\* Start queues the job with every convertible file.
Queue(j) ==
    /\ jobState[j] = "pending"
    /\ \E f \in File : fileState[j][f] = "inspected"
    /\ Manifest(j, "queued", [f \in File |-> IF fileState[j][f] = "inspected"
                                               THEN "queued" ELSE fileState[j][f]])

\* process and convertFile: the job runs, a file runs, a file ends.
Run(j) ==
    /\ jobState[j] = "queued"
    /\ Manifest(j, "running", fileState[j])

RunFile(j, f) ==
    /\ jobState[j] = "running" /\ fileState[j][f] = "queued"
    /\ Manifest(j, "running", [fileState[j] EXCEPT ![f] = "running"])

EndFile(j, f, state) ==
    /\ jobState[j] = "running" /\ fileState[j][f] = "running"
    /\ state \in {"completed", "failed", "canceled"}
    /\ Manifest(j, "running", [fileState[j] EXCEPT ![f] = state])

\* finalize settles a running job by what its files produced.
Finish(j, state) ==
    LET files == SettleFiles(fileState[j], "canceled")
    IN  /\ jobState[j] = "running"
        /\ IF \E f \in File : files[f] = "completed"
             THEN state = "completed"
             ELSE \/ state = "canceled"
                  \/ state = "failed" /\ \E f \in File : files[f] = "failed"
        /\ Manifest(j, state, files)

\* Cancel and RecoverInterrupted settle any unfinished job.
CutShort(j, state) ==
    /\ jobState[j] \in {"pending", "queued", "running"}
    /\ state \in {"canceled", "interrupted"}
    /\ Manifest(j, state, SettleFiles(fileState[j], state))

\* Delete, the sweep, RemoveFile of the last file, a rejected upload.
Vanish(j) ==
    /\ jobState[j] \in JobState
    /\ Manifest(j, "deleted", Unlisted)

\* The manifest of a job moves forward.
Move(j) ==
    \/ \E state \in JobState \cup NoManifest : \/ Create(j, state) \/ Finish(j, state)
                                               \/ CutShort(j, state)
    \/ \E files \in [File -> {"absent", "inspected", "failed", "canceled"}] : List(j, files)
    \/ \E f \in File : \/ Drop(j, f) \/ RunFile(j, f)
                       \/ \E state \in FileState : EndFile(j, f, state)
    \/ Queue(j) \/ Run(j) \/ Vanish(j)

\* A rejected upload: its empty job is going to be taken away ...
Withdraw(j) ==
    /\ jobState[j] \in {"pending", "canceled"} /\ fileState[j] = Unlisted
    /\ withdrawn' = withdrawn \cup {j}
    /\ UNCHANGED <<jobState, fileState>>

\* ... and is, ...
TakeAway(j) ==
    /\ j \in withdrawn /\ Vanish(j)
    /\ withdrawn' = withdrawn \ {j}

\* ... or that fails and its empty manifest is put back as it was, even over the
\* one of a Cancel in between.
PutBack(j, state) ==
    /\ j \in withdrawn /\ fileState[j] = Unlisted
    /\ jobState[j] \in {"pending", "canceled", "deleted"}
    /\ state \in {"pending", "canceled"}
    /\ Manifest(j, state, Unlisted)
    /\ withdrawn' = withdrawn \ {j}

\* Withdrawals are given up, all of them when the process ends.
Forget ==
    /\ withdrawn' \subseteq withdrawn
    /\ UNCHANGED <<jobState, fileState>>

Init ==
    /\ jobState = [j \in Job |-> "unused"]
    /\ fileState = [j \in Job |-> Unlisted]
    /\ withdrawn = {}

Next ==
    \/ Forget
    \/ \E j \in Job :
         \/ Withdraw(j) \/ TakeAway(j)
         \/ \E state \in JobState : PutBack(j, state)
         \/ Move(j) /\ UNCHANGED withdrawn

Spec == Init /\ [][Next]_lifecycleVars
=============================================================================
