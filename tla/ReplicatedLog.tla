--------------------------- MODULE ReplicatedLog ---------------------------
(***************************************************************************)
(* What the key-value server relies on Raft for: leaders of increasing     *)
(* terms, each with a log that extends every entry chosen so far; Start    *)
(* appends to the log of a leader, which may be deposed and not know it;   *)
(* the leader of the newest term chooses a prefix of its log.              *)
(***************************************************************************)
EXTENDS Integers, Sequences, FiniteSets, FiniteSetsExt, SequencesExt

CONSTANTS Server,
          MaxTerm    \* bound: terms in a behaviour

ASSUME MaxTermAssumption == MaxTerm \in Nat

VARIABLES term, leads, log,
          chosen,    \* the committed entries
          newest     \* the newest term that has had a leader

consensusVars == <<term, leads, log, chosen, newest>>

ConsensusInit ==
  /\ term = [s \in Server |-> 0]
  /\ leads = [s \in Server |-> FALSE]
  /\ log = [s \in Server |-> <<>>]
  /\ chosen = <<>>
  /\ newest = 0

HighestTerm == Max({term[s] : s \in Server})

\* electionLoop: s wins the votes of a majority, so its log, all or part of
\* what an earlier leader had, holds every chosen entry
BecomeLeader(s) ==
  LET t == HighestTerm + 1 IN
  \E r \in Server :
    \E n \in Len(chosen)..Len(log[r]) :
      /\ t <= MaxTerm
      /\ IsPrefix(chosen, log[r])
      /\ term' = [term EXCEPT ![s] = t]
      /\ leads' = [leads EXCEPT ![s] = TRUE]
      /\ log' = [log EXCEPT ![s] = SubSeq(log[r], 1, n)]
      /\ newest' = t
      /\ UNCHANGED chosen

\* RequestVote, AppendEntries or a reply shows s a newer term: that of another
\* leader, or of a candidate that may never win
StepDown(s) ==
  LET t == IF HighestTerm > term[s] THEN HighestTerm ELSE term[s] + 1 IN
    /\ leads[s] /\ t <= MaxTerm
    /\ term' = [term EXCEPT ![s] = t]
    /\ leads' = [leads EXCEPT ![s] = FALSE]
    /\ UNCHANGED <<log, chosen, newest>>

\* Raft.Start on a leader
Start(s, op) ==
  /\ leads[s]
  /\ log' = [log EXCEPT ![s] = Append(@, [term |-> term[s], op |-> op])]
  /\ UNCHANGED <<term, leads, chosen, newest>>

\* updateCommitIndex: only entries of its own term
Commit(s) ==
  \E n \in (Len(chosen) + 1)..Len(log[s]) :
    /\ leads[s] /\ term[s] = newest
    /\ log[s][n].term = term[s]
    /\ chosen' = SubSeq(log[s], 1, n)
    /\ UNCHANGED <<term, leads, log, newest>>

\* The process of s dies and starts again; its log is in the WAL
Restart(s) ==
  /\ leads' = [leads EXCEPT ![s] = FALSE]
  /\ UNCHANGED <<term, log, chosen, newest>>

=============================================================================
