---------------------------- MODULE MCLeaseUsers ----------------------------
(* Instances of LeaseUsers for TLC. *)
EXTENDS LeaseUsers, TLC

\* The clients are of one kind, and have one record
MCKinds == {[c \in Client |-> k] : k \in {"service", "node", "lock"}}
MCname == [c \in Client |-> CHOOSE n \in Name : TRUE]

Symmetry == Permutations(Client) \cup Permutations(Server)

=============================================================================
