---------------------------- MODULE MCJobManager ----------------------------
(* Small instances of JobManager for TLC. *)
EXTENDS JobManager, TLC

Symmetry == Permutations(Job) \cup Permutations(Worker)
=============================================================================
