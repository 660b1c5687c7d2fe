---------------------------- MODULE ManifestStore ----------------------------
(***************************************************************************)
(* What the job store promises about one manifest, without its files: a    *)
(* reader finds a whole manifest or none, and a crash brings back a        *)
(* manifest that was published since the last one that was made durable.   *)
(***************************************************************************)
CONSTANT FileId

VARIABLES
    shown,      \* what Load returns: no manifest, or one that lists these files
    survivors   \* what Load may return after a crash

vars == <<shown, survivors>>

Absent == [kind |-> "none", files |-> {}]

Whole(files) == [kind |-> "whole", files |-> files]

Init == shown = Absent /\ survivors = {Absent}

Publish(files) ==
    /\ shown' = Whole(files)
    /\ survivors' = survivors \cup {shown'}

Vanish ==
    /\ shown' = Absent
    /\ survivors' = survivors \cup {Absent}

Commit ==
    /\ survivors' = {shown}
    /\ UNCHANGED shown

Crash ==
    /\ shown' \in survivors
    /\ survivors' = {shown'}

Next ==
    \/ \E files \in SUBSET FileId : Publish(files)
    \/ Vanish
    \/ Commit
    \/ Crash

Spec == Init /\ [][Next]_vars

=============================================================================
