------------------------------ MODULE MCClerk ------------------------------
(* Clerk for TLC: no server has the same number as its address. *)
EXTENDS Clerk

MCidOf == [l \in Local |-> (l + 1) % N]

=============================================================================
