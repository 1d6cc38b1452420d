------------------------------ MODULE RaftInv -------------------------------
(***************************************************************************)
(* The inductive invariant behind ElectionSafety. A ballot is a vote that  *)
(* counts or may still count: one in the votes of a candidate, or one in a *)
(* reply on the wire.                                                      *)
(***************************************************************************)
EXTENDS Raft

GrantedReply == {m \in msgs : m.type = "RequestVoteReply" /\ m.granted}

\* v has a ballot for candidate i of term t
Backs(v, i, t) ==
  \/ /\ state[i] = "candidate" /\ loop[i] = "voting"
     /\ v \in votes[i] /\ t = currentTerm[i]
  \/ \E m \in GrantedReply : m.from = v /\ m.to = i /\ m.argTerm = t

\* The terms ballots can have
BallotTerm == {currentTerm[i] : i \in Server} \cup {m.argTerm : m \in GrantedReply}

\* v remembers its vote for i in term t, or has left that term
VoteKept(v, i, t) == currentTerm[v] > t \/ (currentTerm[v] = t /\ votedFor[v] = i)

\* A candidate or leader has its own vote.
OwnVote == \A i \in Server : state[i] \in {"candidate", "leader"} => votedFor[i] = i

\* Nobody asks itself for a vote.
NoSelfRequest ==
  \A m \in msgs : m.type \in {"RequestVote", "RequestVoteReply"} => m.from # m.to

BallotsKept ==
  \A v, i \in Server : \A t \in BallotTerm : Backs(v, i, t) => VoteKept(v, i, t)

OneBallot ==
  \A v, i, j \in Server : \A t \in BallotTerm :
    Backs(v, i, t) /\ Backs(v, j, t) => i = j

\* A majority voted for the leader i, and has no ballot for anyone else
Elected(i) ==
  \E Q \in SUBSET Server :
    /\ IsMajority(Q)
    /\ \A v \in Q : /\ VoteKept(v, i, currentTerm[i])
                    /\ \A j \in Server : Backs(v, j, currentTerm[i]) => j = i

\* As long as no WAL was lost, every vote that was counted or may yet be is
\* remembered by its voter, no voter has two ballots in a term, and a leader
\* has a majority that backs nobody else (electionLoop, RequestVote).
ElectionInv ==
  /\ OwnVote /\ NoSelfRequest /\ CandidateTermStable /\ VoteDurable
  /\ walLost = {} => /\ BallotsKept
                     /\ OneBallot
                     /\ \A i \in Server : state[i] = "leader" => Elected(i)
                     /\ ElectionSafety

=============================================================================
