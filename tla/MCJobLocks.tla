----------------------------- MODULE MCJobLocks -----------------------------
(* A small instance of JobLocks for TLC. *)
EXTENDS JobLocks
=============================================================================
