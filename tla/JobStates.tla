------------------------------ MODULE JobStates ------------------------------
(***************************************************************************)
(* The lifecycle states a manifest can carry                               *)
(* (src/internal/jobs/storage/manifest.go).  They are the strings the      *)
(* manifest stores.  Two extra values stand for the absence of a manifest: *)
(* "unused" (the random identifier was not drawn yet) and "deleted" (the   *)
(* job directory is gone), and "absent" stands for a file identifier that  *)
(* the manifest does not list.                                             *)
(***************************************************************************)

JobState == {"pending", "queued", "running",
             "completed", "failed", "canceled", "interrupted"}

NoManifest == {"unused", "deleted"}

FileState == {"uploaded", "inspected", "queued", "running",
              "completed", "failed", "canceled", "interrupted"}

\* func (state JobState) Terminal()
JobTerminal(state) == state \in {"completed", "failed", "canceled", "interrupted"}

\* func (state JobState) Active()
JobActive(state) == state \in {"queued", "running"}

\* func (state FileState) Terminal()
FileTerminal(state) == state \in {"completed", "failed", "canceled", "interrupted"}

\* The loop that Cancel, finalize, Accept and RecoverInterrupted share: every
\* listed file that is not terminal gets the state s.
SettleFiles(files, s) ==
    [f \in DOMAIN files |->
        IF files[f] = "absent" \/ FileTerminal(files[f]) THEN files[f] ELSE s]
=============================================================================
