----------------------------- MODULE MCKVServer -----------------------------
(* Instances of KVServer for TLC: servers and clients are interchangeable. *)
EXTENDS KVServer, TLC

Symmetry == Permutations(Server) \cup Permutations(Client)

=============================================================================
