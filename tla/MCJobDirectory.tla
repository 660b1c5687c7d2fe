--------------------------- MODULE MCJobDirectory ---------------------------
(* One job directory with two uploaded files. *)
EXTENDS JobDirectory

=============================================================================
