--------------------------- MODULE MCUploadIntake ---------------------------
(* Two uploads on a disk that cannot hold both budgets above the floor.    *)
(* Clients send "a" twice and also the name that the first clash produces. *)
EXTENDS UploadIntake, TLC

Names == {<<1>>, <<1, 2>>}

Symmetric == Permutations(Request)

=============================================================================
