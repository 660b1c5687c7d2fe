----------------------------- MODULE MCDeadlines -----------------------------
(* Two requests on one connection. *)
EXTENDS Deadlines

=============================================================================
