---------------------------- MODULE AbstractWal ----------------------------
(***************************************************************************)
(* What raft.go takes the write-ahead log for: a sequence of whole records *)
(* that grows at its end. Truncate drops all of it together with the place *)
(* it is kept in; what is written after that goes nowhere, until the next  *)
(* start makes a new place. A loss of power drops an end of the sequence.  *)
(* The module Raft keeps its variable wal in this way.                     *)
(***************************************************************************)
EXTENDS Naturals, Sequences

CONSTANT Record

VARIABLES recs,     \* the records a replay finds
          linked    \* the place is there

vars == <<recs, linked>>

Init == recs = <<>> /\ linked = FALSE

Create == /\ ~ linked
          /\ linked' = TRUE
          /\ UNCHANGED recs

Write(r) == /\ linked
            /\ recs' = Append(recs, r)
            /\ UNCHANGED linked

Truncate == /\ linked
            /\ recs' = <<>> /\ linked' = FALSE

Lose(n) == /\ linked
           /\ recs' = SubSeq(recs, 1, n)
           /\ UNCHANGED linked

Next == \/ Create
        \/ \E r \in Record : Write(r)
        \/ Truncate
        \/ \E n \in 0..Len(recs) : Lose(n)

Spec == Init /\ [][Next]_vars

=============================================================================
