------------------------------- MODULE MCRaft -------------------------------
(* Small instances of Raft for TLC. *)
EXTENDS RaftInv, TLC

\* Nodes are only compared for equality and counted
Symmetry == Permutations(Server)

=============================================================================
