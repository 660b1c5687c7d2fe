------------------------------ MODULE JobMutex ------------------------------
(***************************************************************************)
(* What lockJob promises: one mutex per job identifier, whatever becomes   *)
(* of the lock objects behind it.                                          *)
(***************************************************************************)
CONSTANTS Process, Key, Nobody

VARIABLE owner

Enter(p, k) == owner[k] = Nobody /\ owner' = [owner EXCEPT ![k] = p]

Leave(p, k) == owner[k] = p /\ owner' = [owner EXCEPT ![k] = Nobody]

Init == owner = [k \in Key |-> Nobody]

Next == \E p \in Process, k \in Key : Enter(p, k) \/ Leave(p, k)

Spec == Init /\ [][Next]_owner
=============================================================================
