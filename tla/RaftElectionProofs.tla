------------------------- MODULE RaftElectionProofs -------------------------
(***************************************************************************)
(* At most one leader in a term, for every cluster and every bound, as     *)
(* long as no node has restarted without its WAL file.                     *)
(*                                                                         *)
(* Every step of the code is seen here through three facts: how a node may *)
(* change its term and vote (VoteMove), where a new ballot comes from      *)
(* (BallotMove) and who may lead (LeaderMove). StepFacts shows that they   *)
(* preserve ElectionInv, and a lemma per action that the action has them.  *)
(***************************************************************************)
EXTENDS RaftInv, RaftTypeProofs

\* The leaves are first-order; one that needs arithmetic cites SMT
USE Zenon

VoteMove(v) ==
  \/ currentTerm'[v] > currentTerm[v] /\ state'[v] # "leader"
  \/ /\ currentTerm'[v] = currentTerm[v]
     /\ \/ votedFor'[v] = votedFor[v]
        \/ votedFor[v] = None
        \/ votedFor[v] = v /\ state[v] = "candidate" /\ state'[v] = "follower"

\* v votes for i in term t in this step
Cast(v, i, t) ==
  /\ currentTerm'[v] = t /\ votedFor'[v] = i
  /\ currentTerm[v] < t \/ (currentTerm[v] = t /\ votedFor[v] \in {None, i})

BallotMove(v, i) == \A t \in BallotTerm' : Backs(v, i, t)' => Backs(v, i, t) \/ Cast(v, i, t)

LeaderMove(i) ==
  state'[i] = "leader" =>
    /\ currentTerm'[i] = currentTerm[i]
    /\ \/ state[i] = "leader"
       \/ state[i] = "candidate" /\ loop[i] = "voting" /\ IsMajority(votes[i])

ElectionMove ==
  /\ walLost = {}
  /\ \A v \in Server : VoteMove(v)
  /\ \A v, i \in Server : BallotMove(v, i)
  /\ \A i \in Server : LeaderMove(i)

\* The part of ElectionInv that is about one state of the voters
Local == OwnVote /\ NoSelfRequest /\ CandidateTermStable /\ VoteDurable

-----------------------------------------------------------------------------

\* Two majorities of the cluster share a node.
LEMMA MajoritiesMeet ==
  ASSUME NEW P \in SUBSET Server, NEW Q \in SUBSET Server, IsMajority(P), IsMajority(Q)
  PROVE  \E v \in Server : v \in P /\ v \in Q
<1>1. /\ Cardinality(Server) \in Nat /\ Cardinality(P) \in Nat /\ Cardinality(Q) \in Nat
  BY ServerAssumption, FS_CardinalityType, FS_Subset
<1>2. Cardinality(P) + Cardinality(Q) > Cardinality(Server)
  BY <1>1, SMT DEF IsMajority
<1>3. P \cap Q # {}
  BY <1>2, ServerAssumption, FS_MajoritiesIntersect
<1> QED BY <1>3

\* A ballot has one of the terms of BallotTerm.
LEMMA BackedTerm ==
  ASSUME NEW v \in Server, NEW i \in Server, NEW t, Backs(v, i, t)
  PROVE  t \in BallotTerm
BY DEF Backs, BallotTerm

\* A vote that is kept stays kept, unless the candidate gives up its own.
LEMMA KeptStays ==
  ASSUME TypeOK, TypeOK', NEW v \in Server, NEW i \in Server, NEW t \in Nat,
         VoteMove(v), VoteKept(v, i, t),
         v = i => state[i] # "candidate" \/ state'[i] # "follower"
  PROVE  VoteKept(v, i, t)'
<1>1. currentTerm[v] \in Nat /\ currentTerm'[v] \in Nat
  BY DEF TypeOK, TermTypeOK
<1>2. None # i
  BY ServerAssumption
<1> QED BY <1>1, <1>2, SMT DEF VoteMove, VoteKept

\* A step that casts ballots as VoteMove, BallotMove and LeaderMove say
\* preserves the invariant.
LEMMA StepFacts ==
  ASSUME TypeOK, TypeOK', ElectionInv, Local', walLost' = {} => ElectionMove
  PROVE  ElectionInv'
<1> SUFFICES ASSUME walLost' = {}
             PROVE  /\ BallotsKept' /\ OneBallot' /\ ElectionSafety'
                    /\ \A i \in Server : state'[i] = "leader" => Elected(i)'
  BY DEF ElectionInv, Local
<1>0. /\ ElectionMove /\ BallotsKept /\ OneBallot /\ ElectionSafety /\ OwnVote
      /\ \A i \in Server : state[i] = "leader" => Elected(i)
  BY DEF ElectionInv, ElectionMove
<1>a. \A t : t \in BallotTerm \/ t \in BallotTerm' => t \in Nat
  <2>1. \A m \in GrantedReply : m.argTerm \in Nat
    BY MessageFields DEF GrantedReply, TypeOK, RequestVoteReply
  <2>2. \A m \in GrantedReply' : m.argTerm \in Nat
    BY MessageFields DEF GrantedReply, TypeOK, RequestVoteReply
  <2> QED BY <2>1, <2>2 DEF BallotTerm, TypeOK, TermTypeOK
<1>b. \A v, i \in Server : \A t \in BallotTerm' :
        Backs(v, i, t)' => \/ Backs(v, i, t) /\ VoteKept(v, i, t)
                           \/ Cast(v, i, t)
  BY <1>0, BackedTerm DEF ElectionMove, BallotMove, BallotsKept
<1>c. \A v \in Server : currentTerm[v] \in Nat /\ currentTerm'[v] \in Nat
  BY DEF TypeOK, TermTypeOK
<1>1. BallotsKept'
  <2> SUFFICES ASSUME NEW v \in Server, NEW i \in Server, NEW t \in BallotTerm', Backs(v, i, t)'
               PROVE  VoteKept(v, i, t)'
    BY DEF BallotsKept
  <2>1. CASE Cast(v, i, t)
    BY <2>1 DEF Cast, VoteKept
  <2>2. CASE Backs(v, i, t) /\ VoteKept(v, i, t)
    <3>1. v = i => state'[i] # "follower"
      BY DEF Backs, GrantedReply, Local, NoSelfRequest
    <3> QED BY <1>0, <1>a, <2>2, <3>1, KeptStays DEF ElectionMove
  <2> QED BY <2>1, <2>2, <1>b
<1>2. OneBallot'
  <2> SUFFICES ASSUME NEW v \in Server, NEW i \in Server, NEW j \in Server, NEW t \in BallotTerm',
                      Backs(v, i, t)', Backs(v, j, t)'
               PROVE  i = j
    BY DEF OneBallot
  <2>1. CASE Backs(v, i, t) /\ Backs(v, j, t)
    BY <2>1, <1>0, BackedTerm DEF OneBallot
  <2>2. CASE VoteKept(v, i, t) /\ Cast(v, j, t)
    BY <2>2, <1>a, <1>c, ServerAssumption, SMT DEF VoteKept, Cast
  <2>3. CASE VoteKept(v, j, t) /\ Cast(v, i, t)
    BY <2>3, <1>a, <1>c, ServerAssumption, SMT DEF VoteKept, Cast
  <2>4. CASE Cast(v, i, t) /\ Cast(v, j, t)
    BY <2>4 DEF Cast
  <2> QED BY <1>b, <2>1, <2>2, <2>3, <2>4
<1>3. ASSUME NEW i \in Server, state'[i] = "leader"
      PROVE  Elected(i)'
  <2>1. /\ currentTerm'[i] = currentTerm[i]
        /\ \/ state[i] = "leader"
           \/ state[i] = "candidate" /\ loop[i] = "voting" /\ IsMajority(votes[i])
    BY <1>0, <1>3 DEF ElectionMove, LeaderMove
  <2>2. PICK Q \in SUBSET Server :
          /\ IsMajority(Q)
          /\ \A v \in Q : /\ VoteKept(v, i, currentTerm[i])
                          /\ \A j \in Server : Backs(v, j, currentTerm[i]) => j = i
    <3>1. CASE state[i] = "leader"
      BY <3>1, <1>0 DEF Elected
    <3>2. CASE state[i] = "candidate" /\ loop[i] = "voting" /\ IsMajority(votes[i])
      <4>1. votes[i] \in SUBSET Server
        BY DEF TypeOK, VoteTypeOK
      <4>2. \A v \in votes[i] : Backs(v, i, currentTerm[i])
        BY <3>2 DEF Backs
      <4>3. \A v \in votes[i] : /\ VoteKept(v, i, currentTerm[i])
                                /\ \A j \in Server : Backs(v, j, currentTerm[i]) => j = i
        BY <4>1, <4>2, <1>0, BackedTerm DEF BallotsKept, OneBallot
      <4> QED BY <3>2, <4>1, <4>3
    <3> QED BY <2>1, <3>1, <3>2
  <2>3. ASSUME NEW v \in Q PROVE VoteKept(v, i, currentTerm[i])'
    <3>1. VoteKept(v, i, currentTerm[i]) /\ VoteMove(v) /\ v \in Server
      BY <2>2, <1>0 DEF ElectionMove
    <3> QED BY <1>3, <1>c, <2>1, <3>1, ServerAssumption, SMT DEF VoteKept, VoteMove
  <2>4. ASSUME NEW v \in Q, NEW j \in Server, Backs(v, j, currentTerm[i])'
        PROVE  j = i
    <3>1. v \in Server /\ currentTerm'[i] \in BallotTerm'
      BY DEF BallotTerm
    <3>2. Backs(v, j, currentTerm[i]) \/ Cast(v, j, currentTerm[i])
      <4>1. \A t \in BallotTerm' : Backs(v, j, t)' => Backs(v, j, t) \/ Cast(v, j, t)
        BY <3>1, <1>b
      <4> QED BY <4>1, <3>1, <2>1, <2>4 DEF Backs
    <3>3. CASE Cast(v, j, currentTerm[i])
      BY <3>3, <2>2, <1>c, ServerAssumption, SMT DEF VoteKept, Cast
    <3> QED BY <2>2, <3>2, <3>3
  <2>5. IsMajority(Q)'
    BY <2>2 DEF IsMajority
  <2> QED BY <2>3, <2>4, <2>5 DEF Elected
<1>4. ElectionSafety'
  <2> SUFFICES ASSUME NEW i \in Server, NEW j \in Server, state'[i] = "leader",
                      state'[j] = "leader", currentTerm'[i] = currentTerm'[j]
               PROVE  i = j
    BY DEF ElectionSafety
  <2> DEFINE Wins(x) == state[x] = "candidate" /\ loop[x] = "voting" /\ IsMajority(votes[x])
  <2>1. /\ currentTerm[i] = currentTerm[j]
        /\ state[i] = "leader" \/ Wins(i)
        /\ state[j] = "leader" \/ Wins(j)
    BY <1>0 DEF ElectionMove, LeaderMove
  <2>2. \A x \in Server : Wins(x) =>
          /\ votes[x] \in SUBSET Server /\ IsMajority(votes[x])
          /\ \A v \in votes[x] : Backs(v, x, currentTerm[x])
    BY DEF Backs, TypeOK, VoteTypeOK
  <2>3. CASE state[i] = "leader" /\ state[j] = "leader"
    BY <2>1, <2>3, <1>0 DEF ElectionSafety
  <2>4. ASSUME NEW x \in Server, NEW y \in Server, state[x] = "leader", Wins(y),
               currentTerm[x] = currentTerm[y]
        PROVE  x = y
    <3>1. PICK Q \in SUBSET Server : IsMajority(Q) /\ \A v \in Q :
             \A z \in Server : Backs(v, z, currentTerm[x]) => z = x
      BY <2>4, <1>0 DEF Elected
    <3>2. PICK v \in Server : v \in Q /\ v \in votes[y]
      BY <2>2, <2>4, <3>1, MajoritiesMeet
    <3>3. Backs(v, y, currentTerm[x])
      BY <2>2, <2>4, <3>2
    <3> QED BY <3>1, <3>2, <3>3
  <2>5. CASE Wins(i) /\ Wins(j)
    <3>1. PICK v \in Server : v \in votes[i] /\ v \in votes[j]
      BY <2>2, <2>5, MajoritiesMeet
    <3>2. Backs(v, i, currentTerm[i]) /\ Backs(v, j, currentTerm[i])
      BY <2>1, <2>2, <2>5, <3>1
    <3> QED BY <3>2, <1>0, BackedTerm DEF OneBallot
  <2> QED BY <2>1, <2>3, <2>4, <2>5
<1> QED BY <1>1, <1>2, <1>3, <1>4

-----------------------------------------------------------------------------
(* Steps that touch neither terms nor votes. *)

\* No ballot is added: votes still being collected are the same, and no new
\* RequestVote or reply to one is on the wire.
NoNewBallot ==
  /\ \A i \in Server : loop'[i] = "voting" =>
       loop[i] = "voting" /\ votes'[i] = votes[i] /\ voteTerm'[i] = voteTerm[i]
  /\ \A m \in msgs' : m.type \in {"RequestVote", "RequestVoteReply"} => m \in msgs

\* Without a new ballot, nobody requests its own vote.
LEMMA NoNewRequest ==
  ASSUME ElectionInv, NoNewBallot
  PROVE  NoSelfRequest'
BY DEF NoNewBallot, NoSelfRequest, ElectionInv

\* Without a new ballot, a ballot of a candidate whose term stays is an old one.
LEMMA OldBallots ==
  ASSUME NoNewBallot, NEW v \in Server, NEW i \in Server,
         state'[i] = "candidate" => state[i] = "candidate" /\ currentTerm'[i] = currentTerm[i]
  PROVE  BallotMove(v, i)
<1>1. \A m \in GrantedReply' : m \in GrantedReply
  BY DEF GrantedReply, NoNewBallot
<1> QED BY <1>1 DEF BallotMove, Backs, NoNewBallot

\* A step that changes no term and no vote preserves the invariant.
LEMMA QuietStep ==
  ASSUME TypeOK, TypeOK', ElectionInv, VoteDurable', NoNewBallot,
         UNCHANGED <<termVars, walLost>>
  PROVE  ElectionInv'
<1>1. OwnVote' /\ CandidateTermStable'
  BY DEF ElectionInv, OwnVote, CandidateTermStable, termVars, NoNewBallot
<1>2. Local'
  BY <1>1, NoNewRequest DEF Local
<1>3. \A v \in Server : VoteMove(v) /\ LeaderMove(v)
  BY DEF VoteMove, LeaderMove, termVars
<1>4. \A v, i \in Server : BallotMove(v, i)
  BY OldBallots DEF termVars
<1>5. walLost' = {} => ElectionMove
  BY <1>3, <1>4 DEF ElectionMove
<1> QED BY <1>2, <1>5, StepFacts

\* Entries, snapshots and truncation leave term and vote of a linked WAL alone.
LEMMA WalKeepsVote ==
  ASSUME NEW w \in Wal
  PROVE  /\ \A es : WriteEntries(w, es).linked =>
              /\ w.linked /\ WriteEntries(w, es).term = w.term
              /\ WriteEntries(w, es).votedFor = w.votedFor
         /\ \A k, t : Truncate(WriteSnapshot(w, k, t), k).linked =>
              /\ w.linked /\ Truncate(WriteSnapshot(w, k, t), k).term = w.term
              /\ Truncate(WriteSnapshot(w, k, t), k).votedFor = w.votedFor
         /\ \A t, v : WriteState(w, t, v).linked =>
              WriteState(w, t, v).term = t /\ WriteState(w, t, v).votedFor = v
<1>1. \A t, v : WriteState(w, t, v).linked =>
              WriteState(w, t, v).term = t /\ WriteState(w, t, v).votedFor = v
  BY DEF WriteState, Wal
<1>2. \A es : WriteEntries(w, es).linked =>
              /\ w.linked /\ WriteEntries(w, es).term = w.term
              /\ WriteEntries(w, es).votedFor = w.votedFor
  BY DEF WriteEntries, Wal
<1>3. \A k, t : Truncate(WriteSnapshot(w, k, t), k).linked =>
              /\ w.linked /\ Truncate(WriteSnapshot(w, k, t), k).term = w.term
              /\ Truncate(WriteSnapshot(w, k, t), k).votedFor = w.votedFor
  BY DEF Truncate, WriteSnapshot, EmptyWal, Wal
<1> QED BY <1>1, <1>2, <1>3

\* VoteDurable after a step that writes the WAL of one node.
LEMMA WalStep ==
  ASSUME TypeOK, ElectionInv, NEW i \in Server, NEW w,
         wal' = [wal EXCEPT ![i] = w],
         w.linked => w.term = currentTerm'[i] /\ w.votedFor = votedFor'[i],
         \A j \in Server \ {i} : currentTerm'[j] = currentTerm[j] /\ votedFor'[j] = votedFor[j]
  PROVE  VoteDurable'
BY DEF VoteDurable, ElectionInv, TypeOK

\* What a leader and its loops do by themselves, and snapshots, preserve it.
LEMMA ElectionQuiet ==
  ASSUME TypeOK, TypeOK', ElectionInv, NEW i \in Server, NEW j \in Server,
         \/ ElectionLost(i) \/ StartNoOp(i) \/ (\E v \in Value : Start(i, v))
         \/ SendAppendEntriesToPeerId(i, j) \/ SendAppendEntriesToAll(i)
         \/ SendInstallSnapshotToPeerId(i, j)
         \/ (\E index \in SnapshotAt : Snapshot(i, index))
  PROVE  ElectionInv'
<1>0. wal[i].linked => wal[i].term = currentTerm[i] /\ wal[i].votedFor = votedFor[i]
  BY DEF TypeOK, ElectionInv, VoteDurable
<1>a. wal[i] \in Wal
  BY DEF TypeOK
<1>b. ASSUME UNCHANGED <<termVars, wal>> PROVE VoteDurable'
  BY <1>b DEF ElectionInv, VoteDurable, termVars
<1>1. CASE ElectionLost(i)
  <2>1. NoNewBallot
    BY <1>1 DEF ElectionLost, EndVote, NoNewBallot, TypeOK, VoteTypeOK
  <2> QED BY <1>1, <1>b, <2>1, QuietStep DEF ElectionLost, bootVars
<1>2. ASSUME NEW v, AppendToLog(i, v), UNCHANGED termVars PROVE VoteDurable'
  <2> DEFINE w == WriteEntries(wal[i], <<[term |-> currentTerm[i], val |-> v]>>)
  <2>1. wal' = [wal EXCEPT ![i] = w]
    BY <1>2 DEF AppendToLog
  <2>2. w.linked => w.term = currentTerm'[i] /\ w.votedFor = votedFor'[i]
    BY <1>0, <1>2, <1>a, WalKeepsVote DEF termVars
  <2> HIDE DEF w
  <2>3. \A k \in Server \ {i} : currentTerm'[k] = currentTerm[k] /\ votedFor'[k] = votedFor[k]
    BY <1>2 DEF termVars
  <2> QED BY <2>1, <2>2, <2>3, WalStep
<1>3. CASE StartNoOp(i)
  <2>1. NoNewBallot
    BY <1>3 DEF StartNoOp, NoNewBallot, TypeOK, VoteTypeOK
  <2>2. VoteDurable'
    BY <1>2, <1>3, <1>b DEF StartNoOp
  <2> QED BY <1>3, <2>1, <2>2, QuietStep DEF StartNoOp, bootVars
<1>4. ASSUME NEW v \in Value, Start(i, v) PROVE ElectionInv'
  <2>1. NoNewBallot
    BY <1>4 DEF Start, NoNewBallot, voteVars
  <2>2. VoteDurable'
    BY <1>2, <1>4 DEF Start
  <2> QED BY <1>4, <2>1, <2>2, QuietStep DEF Start, bootVars
<1>5. CASE SendAppendEntriesToPeerId(i, j)
  <2>1. NoNewBallot
    BY <1>5, SMT DEF SendAppendEntriesToPeerId, Send, NoNewBallot, voteVars
  <2> QED BY <1>5, <1>b, <2>1, QuietStep DEF SendAppendEntriesToPeerId, bootVars
<1>6. CASE SendAppendEntriesToAll(i)
  <2>1. NoNewBallot
    BY <1>6 DEF SendAppendEntriesToAll, NoNewBallot, voteVars
  <2> QED BY <1>6, <1>b, <2>1, QuietStep DEF SendAppendEntriesToAll, bootVars
<1>7. CASE SendInstallSnapshotToPeerId(i, j)
  <2>1. \A m \in msgs' : m \in msgs \/ m.type = "SnapshotInstall"
    <3>1. CASE state[i] = "leader"
      <4> DEFINE r == [type |-> "SnapshotInstall", from |-> i, to |-> j, boot |-> boot[i],
                       term |-> currentTerm[i], lastIncludeIndex |-> lastIncludeIndex[i],
                       lastIncludeTerm |-> lastIncludeTerm[i]]
      <4>1. Send({r})
        BY <1>7, <3>1 DEF SendInstallSnapshotToPeerId
      <4>2. r.type = "SnapshotInstall"
        OBVIOUS
      <4> HIDE DEF r
      <4> QED BY <4>1, <4>2 DEF Send
    <3>2. CASE state[i] # "leader"
      BY <1>7, <3>2 DEF SendInstallSnapshotToPeerId
    <3> QED BY <3>1, <3>2
  <2>2. UNCHANGED voteVars
    BY <1>7 DEF SendInstallSnapshotToPeerId
  <2>3. NoNewBallot
    BY <2>1, <2>2 DEF NoNewBallot, voteVars
  <2> QED BY <1>7, <1>b, <2>3, QuietStep DEF SendInstallSnapshotToPeerId, bootVars
<1>8. ASSUME NEW index \in SnapshotAt, Snapshot(i, index) PROVE ElectionInv'
  <2>1. NoNewBallot
    BY <1>8 DEF Snapshot, NoNewBallot, voteVars
  <2> DEFINE w == Truncate(WriteSnapshot(wal[i], index, EntryAt(i, index).term), index)
  <2>2. wal' = [wal EXCEPT ![i] = w] /\ UNCHANGED termVars
    BY <1>8 DEF Snapshot
  <2>3. w.linked => w.term = currentTerm'[i] /\ w.votedFor = votedFor'[i]
    BY <1>0, <1>a, <2>2, WalKeepsVote, SMT DEF termVars
  <2>4. VoteDurable'
    <3> HIDE DEF w
    <3> QED BY <2>2, <2>3, WalStep DEF termVars
  <2> QED BY <1>8, <2>1, <2>4, QuietStep DEF Snapshot, bootVars
<1> QED BY <1>1, <1>3, <1>4, <1>5, <1>6, <1>7, <1>8

-----------------------------------------------------------------------------
(* Steps of the election loop, and restarts. *)

\* What changes for no other node than i.
OthersKeep(i) ==
  \A j \in Server \ {i} : /\ currentTerm'[j] = currentTerm[j] /\ votedFor'[j] = votedFor[j]
                          /\ state'[j] = state[j]

\* A node whose term, vote and state do not change makes only trivial moves.
LEMMA OthersMove ==
  ASSUME TypeOK, NEW i \in Server, OthersKeep(i), VoteMove(i), LeaderMove(i)
  PROVE  \A v \in Server : VoteMove(v) /\ LeaderMove(v)
BY DEF OthersKeep, VoteMove, LeaderMove

\* A node that goes to a higher term, as follower and with no vote, preserves
\* the invariant: a candidate that finds itself behind, or a deposed leader.
LEMMA StepDown ==
  ASSUME TypeOK, TypeOK', ElectionInv, NoNewBallot, walLost' = walLost,
         NEW i \in Server, NEW t \in Nat, t > currentTerm[i],
         currentTerm' = [currentTerm EXCEPT ![i] = t],
         votedFor' = [votedFor EXCEPT ![i] = None],
         state' = [state EXCEPT ![i] = "follower"],
         wal' = [wal EXCEPT ![i] = WriteState(wal[i], t, None)]
  PROVE  ElectionInv'
<1>1. /\ currentTerm'[i] = t /\ votedFor'[i] = None /\ state'[i] = "follower"
      /\ OthersKeep(i)
  BY DEF OthersKeep, TypeOK, TermTypeOK
<1>2. VoteDurable'
  <2>1. wal[i] \in Wal
    BY DEF TypeOK
  <2>2. WriteState(wal[i], t, None).linked =>
          /\ WriteState(wal[i], t, None).term = t
          /\ WriteState(wal[i], t, None).votedFor = None
    BY <2>1, WalKeepsVote, SMT
  <2> QED BY <1>1, <2>2, WalStep DEF OthersKeep
<1>3. OwnVote' /\ CandidateTermStable'
  BY <1>1, SMT DEF OthersKeep, OwnVote, CandidateTermStable, NoNewBallot, ElectionInv
<1>4. Local'
  BY <1>2, <1>3, NoNewRequest DEF Local
<1>5. \A v \in Server : VoteMove(v) /\ LeaderMove(v)
  BY <1>1, OthersMove DEF VoteMove, LeaderMove
<1>6. \A v, j \in Server : BallotMove(v, j)
  BY <1>1, OldBallots DEF OthersKeep
<1>7. walLost' = {} => ElectionMove
  BY <1>5, <1>6 DEF ElectionMove
<1> QED BY <1>4, <1>7, StepFacts

\* A candidate that saw a newer term in the replies steps down.
LEMMA ElectionBehindStep ==
  ASSUME TypeOK, TypeOK', ElectionInv, NEW i \in Server, ElectionBehind(i)
  PROVE  ElectionInv'
<1>1. NoNewBallot
  BY DEF ElectionBehind, EndVote, NoNewBallot, TypeOK, VoteTypeOK
<1>2. maxTerm[i] \in Nat
  BY DEF TypeOK, VoteTypeOK
<1> QED BY <1>1, <1>2, StepDown DEF ElectionBehind, bootVars

\* A timeout starts a new term with the node's own ballot.
LEMMA TimeoutStep ==
  ASSUME TypeOK, TypeOK', ElectionInv, NEW i \in Server, Timeout(i)
  PROVE  ElectionInv'
<1> DEFINE t == currentTerm[i] + 1
<1>0. currentTerm[i] \in Nat /\ wal[i] \in Wal
  BY DEF TypeOK, TermTypeOK
<1>1. /\ currentTerm'[i] = t /\ votedFor'[i] = i /\ state'[i] = "candidate"
      /\ voteTerm'[i] = t /\ votes'[i] = {i}
      /\ walLost' = walLost /\ OthersKeep(i)
      /\ \A j \in Server \ {i} : /\ loop'[j] = loop[j] /\ votes'[j] = votes[j]
                                 /\ voteTerm'[j] = voteTerm[j]
  BY SMT DEF Timeout, OthersKeep, TypeOK, TermTypeOK, VoteTypeOK
<1>2. \A m \in msgs' : m \in msgs \/ (m.type = "RequestVote" /\ m.from # m.to)
  BY SMT DEF Timeout, Send
<1>3. VoteDurable'
  <2>1. wal' = [wal EXCEPT ![i] = WriteState(wal[i], t, i)]
    BY DEF Timeout
  <2>2. WriteState(wal[i], t, i).linked =>
          WriteState(wal[i], t, i).term = t /\ WriteState(wal[i], t, i).votedFor = i
    BY <1>0, WalKeepsVote, SMT
  <2> HIDE DEF t
  <2> QED BY <1>1, <2>1, <2>2, WalStep DEF OthersKeep
<1>4. NoSelfRequest'
  BY <1>2 DEF NoSelfRequest, ElectionInv
<1>5. OwnVote' /\ CandidateTermStable'
  BY <1>1 DEF OthersKeep, OwnVote, CandidateTermStable, ElectionInv
<1>6. VoteMove(i) /\ LeaderMove(i)
  BY <1>0, <1>1, SMT DEF VoteMove, LeaderMove
<1>7. ASSUME NEW v \in Server, NEW j \in Server PROVE BallotMove(v, j)
  <2>1. \A m \in GrantedReply' : m \in GrantedReply
    BY <1>2 DEF GrantedReply
  <2>2. Cast(i, i, t)
    BY <1>0, <1>1, SMT DEF Cast
  <2>3. CASE j = i
    BY <2>1, <2>2, <2>3, <1>1 DEF BallotMove, Backs
  <2>4. CASE j # i
    BY <2>1, <2>4, <1>1 DEF BallotMove, Backs, OthersKeep
  <2> QED BY <2>3, <2>4
<1>8. walLost' = {} => ElectionMove
  BY <1>1, <1>6, <1>7, OthersMove DEF ElectionMove
<1> QED BY <1>3, <1>4, <1>5, <1>8, StepFacts DEF Local

\* A candidate with a majority becomes leader.
LEMMA BecomeLeaderStep ==
  ASSUME TypeOK, TypeOK', ElectionInv, NEW i \in Server, BecomeLeader(i)
  PROVE  ElectionInv'
<1>1. /\ currentTerm' = currentTerm /\ votedFor' = votedFor /\ wal' = wal
      /\ walLost' = walLost /\ msgs' = msgs
      /\ state[i] = "candidate" /\ state'[i] = "leader" /\ OthersKeep(i)
      /\ loop[i] = "voting" /\ IsMajority(votes[i])
  BY DEF BecomeLeader, OthersKeep, bootVars, TypeOK, TermTypeOK
<1>2. NoNewBallot
  BY <1>1 DEF BecomeLeader, EndVote, NoNewBallot, TypeOK, VoteTypeOK
<1>3. VoteDurable'
  BY <1>1 DEF VoteDurable, ElectionInv
<1>4. OwnVote' /\ CandidateTermStable'
  BY <1>1, <1>2 DEF OthersKeep, OwnVote, CandidateTermStable, NoNewBallot, ElectionInv
<1>5. \A v \in Server : VoteMove(v) /\ LeaderMove(v)
  BY <1>1, OthersMove DEF VoteMove, LeaderMove
<1>6. \A v, j \in Server : BallotMove(v, j)
  BY <1>1, <1>2, OldBallots DEF OthersKeep
<1>7. walLost' = {} => ElectionMove
  BY <1>1, <1>5, <1>6 DEF ElectionMove
<1> QED BY <1>2, <1>3, <1>4, <1>7, NoNewRequest, StepFacts DEF Local

\* A node that restarts from its WAL remembers its term and vote.
LEMMA RestartStep ==
  ASSUME TypeOK, TypeOK', ElectionInv, NEW i \in Server, Restart(i)
  PROVE  ElectionInv'
<1>0. wal[i] \in Wal
  BY DEF TypeOK
<1>1. /\ currentTerm'[i] = wal[i].term /\ votedFor'[i] = wal[i].votedFor
      /\ state'[i] = "follower" /\ OthersKeep(i) /\ msgs' = msgs
      /\ walLost' = IF wal[i].linked THEN walLost ELSE walLost \cup {i}
  BY DEF Restart, OthersKeep, TypeOK, TermTypeOK
<1>2. NoNewBallot
  BY DEF Restart, EndVote, NoNewBallot, TypeOK, VoteTypeOK
<1>3. VoteDurable'
  <2> DEFINE w == [wal[i] EXCEPT !.linked = TRUE]
  <2>1. wal' = [wal EXCEPT ![i] = w]
    BY DEF Restart, TypeOK
  <2>2. w.term = wal[i].term /\ w.votedFor = wal[i].votedFor
    BY <1>0 DEF Wal
  <2> HIDE DEF w
  <2> QED BY <1>1, <2>1, <2>2, WalStep DEF OthersKeep
<1>4. OwnVote' /\ CandidateTermStable'
  BY <1>1, <1>2 DEF OthersKeep, OwnVote, CandidateTermStable, NoNewBallot, ElectionInv
<1>5. ASSUME walLost' = {} PROVE ElectionMove
  <2>1. wal[i].linked /\ walLost = {}
    BY <1>1, <1>5
  <2>2. currentTerm'[i] = currentTerm[i] /\ votedFor'[i] = votedFor[i]
    BY <1>1, <2>1 DEF VoteDurable, ElectionInv
  <2>3. \A v \in Server : VoteMove(v) /\ LeaderMove(v)
    BY <1>1, <2>2, OthersMove DEF VoteMove, LeaderMove
  <2>4. \A v, j \in Server : BallotMove(v, j)
    BY <1>1, <1>2, OldBallots DEF OthersKeep
  <2> QED BY <2>1, <2>3, <2>4 DEF ElectionMove
<1> QED BY <1>2, <1>3, <1>4, <1>5, NoNewRequest, StepFacts DEF Local

-----------------------------------------------------------------------------
(* Handlers of messages. *)

\* A peer answers a request for its vote.
LEMMA RequestVoteStep ==
  ASSUME TypeOK, TypeOK', ElectionInv, NEW m \in msgs, RequestVote(m)
  PROVE  ElectionInv'
<1> DEFINE i     == m.to
           newer == m.term > currentTerm[i]
           free  == newer \/ votedFor[i] \in {None, m.from}
           grant == m.term >= currentTerm[i] /\ free /\ UpToDate(m, i)
           term  == IF newer THEN m.term ELSE currentTerm[i]
           vote  == IF grant THEN m.from ELSE IF newer THEN None ELSE votedFor[i]
           r == [type |-> "RequestVoteReply", from |-> i, to |-> m.from,
                 boot |-> m.boot, argTerm |-> m.term, term |-> currentTerm[i],
                 granted |-> grant]
<1>0. /\ i \in Server /\ m.from \in Server /\ m.from # i /\ m.term \in Nat
      /\ currentTerm[i] \in Nat /\ wal[i] \in Wal /\ m.type = "RequestVote"
  <2>1. m \in Message /\ m.type = "RequestVote"
    BY DEF RequestVote, Receives, TypeOK
  <2>2. m.from # m.to
    BY <2>1 DEF ElectionInv, NoSelfRequest
  <2> QED BY <2>1, <2>2, MessageFields DEF RequestVoteArgs, TypeOK, TermTypeOK
<1>1. /\ currentTerm'[i] = term /\ votedFor'[i] = vote
      /\ state'[i] = IF newer THEN "follower" ELSE state[i]
      /\ msgs' = (msgs \ {m}) \cup {r}
      /\ OthersKeep(i) /\ UNCHANGED <<voteVars, walLost>>
  BY <1>0 DEF RequestVote, Reply, OthersKeep, bootVars, TypeOK, TermTypeOK
<1>2. wal' = [wal EXCEPT ![i] = IF newer \/ grant THEN WriteState(wal[i], term, vote)
                                ELSE wal[i]]
  BY DEF RequestVote
<1>3. VoteDurable'
  <2> DEFINE w == IF newer \/ grant THEN WriteState(wal[i], term, vote) ELSE wal[i]
  <2>1. ~ newer /\ ~ grant => term = currentTerm[i] /\ vote = votedFor[i]
    OBVIOUS
  <2> HIDE DEF newer, grant, term, vote
  <2>2. w.linked => w.term = term /\ w.votedFor = vote
    BY <1>0, <2>1, WalKeepsVote, SMT DEF ElectionInv, VoteDurable
  <2>3. wal' = [wal EXCEPT ![i] = w]
    BY <1>2
  <2> HIDE DEF w
  <2> QED BY <1>0, <1>1, <2>2, <2>3, WalStep DEF OthersKeep
<1>4. r.type = "RequestVoteReply" /\ r.from = i /\ r.to = m.from /\ r.argTerm = m.term
      /\ r.granted = grant
  OBVIOUS
<1>5. NoSelfRequest'
  <2> HIDE DEF r
  <2> QED BY <1>0, <1>1, <1>4 DEF NoSelfRequest, ElectionInv
<1>6. state[i] \in {"candidate", "leader"} /\ ~ newer => ~ grant
  BY <1>0, ServerAssumption DEF ElectionInv, OwnVote
<1>7. OwnVote' /\ CandidateTermStable'
  <2>1. state'[i] \in {"candidate", "leader"} => votedFor'[i] = votedFor[i] /\ currentTerm'[i] = currentTerm[i]
                                                   /\ state[i] = state'[i]
    BY <1>1, <1>6
  <2> QED BY <1>1, <2>1 DEF OthersKeep, OwnVote, CandidateTermStable, ElectionInv, voteVars
<1>8. VoteMove(i) /\ LeaderMove(i)
  <2>1. CASE newer
    BY <1>0, <1>1, <2>1 DEF VoteMove, LeaderMove
  <2>2. CASE ~ newer
    BY <1>0, <1>1, <2>2 DEF VoteMove, LeaderMove
  <2> QED BY <2>1, <2>2
<1>9. ASSUME NEW v \in Server, NEW j \in Server PROVE BallotMove(v, j)
  <2>1. grant => Cast(i, m.from, m.term)
    BY <1>0, <1>1, SMT DEF Cast
  <2>2. state'[j] = "candidate" => state[j] = "candidate" /\ currentTerm'[j] = currentTerm[j]
    BY <1>1 DEF OthersKeep
  <2> HIDE DEF r, grant
  <2>3. \A x \in GrantedReply' : x \in GrantedReply \/ (x = r /\ grant)
    BY <1>1, <1>4 DEF GrantedReply
  <2> HIDE DEF i
  <2> QED BY <1>1, <1>4, <2>1, <2>2, <2>3 DEF BallotMove, Backs, voteVars
<1>10. walLost' = {} => ElectionMove
  BY <1>0, <1>1, <1>8, <1>9, OthersMove DEF ElectionMove
<1> QED BY <1>3, <1>5, <1>7, <1>10, StepFacts DEF Local

\* A candidate counts a vote.
LEMMA VoteResultStep ==
  ASSUME TypeOK, TypeOK', ElectionInv, NEW m \in msgs, VoteResult(m)
  PROVE  ElectionInv'
<1> DEFINE i == m.to
<1>0. i \in Server /\ m.type = "RequestVoteReply"
  BY MessageFields DEF VoteResult, Receives, TypeOK
<1>1. /\ votes'[i] = IF m.granted THEN votes[i] \cup {m.from} ELSE votes[i]
      /\ \A j \in Server \ {i} : votes'[j] = votes[j]
      /\ loop[i] = "voting" /\ voteTerm[i] = m.argTerm /\ msgs' = msgs \ {m}
      /\ UNCHANGED <<termVars, loop, voteTerm, wal, walLost>>
  BY <1>0 DEF VoteResult, TypeOK, VoteTypeOK, bootVars
<1>2. Local'
  BY <1>1 DEF ElectionInv, Local, OwnVote, NoSelfRequest, CandidateTermStable,
              VoteDurable, termVars
<1>3. \A v \in Server : VoteMove(v) /\ LeaderMove(v)
  BY <1>1 DEF VoteMove, LeaderMove, termVars
<1>4. ASSUME NEW v \in Server, NEW j \in Server PROVE BallotMove(v, j)
  <2>1. \A x \in GrantedReply' : x \in GrantedReply
    BY <1>1 DEF GrantedReply
  <2>2. m.granted /\ state[i] = "candidate" => Backs(m.from, i, currentTerm[i])
    BY <1>0, <1>1 DEF Backs, GrantedReply, ElectionInv, CandidateTermStable
  <2>3. CASE j = i
    BY <1>1, <2>1, <2>2, <2>3 DEF BallotMove, Backs, termVars
  <2>4. CASE j # i
    BY <1>1, <2>1, <2>4 DEF BallotMove, Backs, termVars
  <2> QED BY <2>3, <2>4
<1>5. walLost' = {} => ElectionMove
  BY <1>1, <1>3, <1>4 DEF ElectionMove
<1> QED BY <1>2, <1>5, StepFacts

\* A node that accepts a leader of its term or of a newer one: only a
\* candidate gives up a vote it has in the same term.
LEMMA FollowStep ==
  ASSUME TypeOK, TypeOK', ElectionInv, NEW m \in Message, NEW back \in BOOLEAN,
         m.term \in Nat, m.term >= currentTerm[m.to], Follow(m, back),
         m.term > currentTerm[m.to] => back,
         back => m.term > currentTerm[m.to] \/ state[m.to] = "candidate",
         VoteDurable', NoNewBallot, UNCHANGED <<voteVars, walLost>>
  PROVE  ElectionInv'
<1> DEFINE i == m.to
<1>0. i \in Server /\ currentTerm[i] \in Nat
  BY MessageFields DEF TypeOK, TermTypeOK
<1>1. /\ currentTerm'[i] = m.term /\ votedFor'[i] = IF back THEN None ELSE votedFor[i]
      /\ state'[i] = IF back THEN "follower" ELSE state[i]
      /\ OthersKeep(i)
  BY <1>0 DEF Follow, OthersKeep, TypeOK, TermTypeOK
<1>2. ~ back => currentTerm'[i] = currentTerm[i]
  BY <1>0, <1>1, SMT
<1>3. OwnVote' /\ CandidateTermStable'
  BY <1>1, <1>2 DEF OthersKeep, OwnVote, CandidateTermStable, ElectionInv, voteVars
<1>4. VoteMove(i) /\ LeaderMove(i)
  <2>1. CASE back /\ m.term > currentTerm[i]
    BY <1>0, <1>1, <2>1 DEF VoteMove, LeaderMove
  <2>2. CASE back /\ ~ (m.term > currentTerm[i])
    <3>1. state[i] = "candidate" /\ votedFor[i] = i /\ currentTerm'[i] = currentTerm[i]
      BY <1>0, <1>1, <2>2, SMT DEF ElectionInv, OwnVote
    <3> QED BY <1>1, <2>2, <3>1 DEF VoteMove, LeaderMove
  <2>3. CASE ~ back
    BY <1>1, <1>2, <2>3 DEF VoteMove, LeaderMove
  <2> QED BY <2>1, <2>2, <2>3
<1>5. \A v, j \in Server : BallotMove(v, j)
  BY <1>1, <1>2, OldBallots DEF OthersKeep
<1>6. walLost' = {} => ElectionMove
  BY <1>0, <1>1, <1>4, <1>5, OthersMove DEF ElectionMove
<1> QED BY <1>3, <1>6, NoNewRequest, StepFacts DEF Local

\* The WAL of a node that follows a leader holds its term and vote.
LEMMA FollowWalFields ==
  ASSUME TypeOK, ElectionInv, NEW m \in Message, NEW back \in BOOLEAN,
         m.term \in Nat, m.term >= currentTerm[m.to], Follow(m, back),
         m.term > currentTerm[m.to] => back
  PROVE  /\ FollowWal(m, back) \in Wal
         /\ FollowWal(m, back).linked => /\ FollowWal(m, back).term = currentTerm'[m.to]
                                         /\ FollowWal(m, back).votedFor = votedFor'[m.to]
         /\ \A j \in Server \ {m.to} : /\ currentTerm'[j] = currentTerm[j]
                                       /\ votedFor'[j] = votedFor[j]
<1>0. m.to \in Server /\ wal[m.to] \in Wal /\ currentTerm[m.to] \in Nat
  BY MessageFields DEF TypeOK, TermTypeOK
<1>1. /\ currentTerm'[m.to] = m.term
      /\ votedFor'[m.to] = IF back THEN None ELSE votedFor[m.to]
      /\ \A j \in Server \ {m.to} : currentTerm'[j] = currentTerm[j] /\ votedFor'[j] = votedFor[j]
  BY <1>0 DEF Follow, TypeOK, TermTypeOK
<1>2. CASE back
  BY <1>0, <1>1, <1>2, WalKeepsVote, WalTypes, SMT DEF FollowWal, Node
<1>3. CASE ~ back
  <2>1. currentTerm'[m.to] = currentTerm[m.to] /\ votedFor'[m.to] = votedFor[m.to]
    BY <1>0, <1>1, <1>3, SMT
  <2> QED BY <1>0, <1>1, <1>3, <2>1 DEF FollowWal, ElectionInv, VoteDurable
<1> QED BY <1>2, <1>3

\* A reply that is not a vote adds no ballot.
LEMMA ReplyNoBallot ==
  ASSUME NEW m, NEW r, Reply(m, r) \/ ReplyAgain(m, r), UNCHANGED voteVars,
         r.type \notin {"RequestVote", "RequestVoteReply"}
  PROVE  NoNewBallot
BY DEF Reply, ReplyAgain, Send, NoNewBallot, voteVars

\* AppendEntries, accepted or not, and a snapshot from the leader.
LEMMA FollowerStep ==
  ASSUME TypeOK, TypeOK', ElectionInv, NEW m \in msgs,
         AppendEntriesConflict(m) \/ AppendEntriesAccept(m) \/ SnapshotInstall(m)
  PROVE  ElectionInv'
<1> DEFINE i == m.to
<1>0. m \in Message /\ i \in Server /\ currentTerm[i] \in Nat
  BY MessageFields DEF TypeOK, TermTypeOK
<1>1. m.term \in Nat /\ m.term >= currentTerm[i]
  BY <1>0, MessageFields
     DEF AppendEntriesConflict, AppendEntriesAccept, SnapshotInstall, Receives,
         AppendEntriesArgs, SnapshotInstallArgs
<1>2. UNCHANGED <<voteVars, walLost>>
  BY DEF AppendEntriesConflict, AppendEntriesAccept, SnapshotInstall, bootVars
<1>3. NoNewBallot
  <2>1. CASE AppendEntriesConflict(m)
    <3>1. \E r : ReplyAgain(m, r) /\ r.type = "AppendEntriesReply"
      BY <2>1, SMT DEF AppendEntriesConflict
    <3> QED BY <1>2, <3>1, ReplyNoBallot
  <2>2. CASE AppendEntriesAccept(m)
    <3>1. \E r : ReplyAgain(m, r) /\ r.type = "AppendEntriesReply"
      BY <2>2, SMT DEF AppendEntriesAccept
    <3> QED BY <1>2, <3>1, ReplyNoBallot
  <2>3. CASE SnapshotInstall(m)
    <3>1. \E r : ReplyAgain(m, r) /\ r.type = "SnapshotInstallReply"
      BY <2>3, SMT DEF SnapshotInstall
    <3> QED BY <1>2, <3>1, ReplyNoBallot
  <2> QED BY <2>1, <2>2, <2>3
<1>4. \E back \in BOOLEAN :
        /\ Follow(m, back)
        /\ m.term > currentTerm[i] => back
        /\ back => m.term > currentTerm[i] \/ state[i] = "candidate"
        /\ \E w : /\ wal' = [wal EXCEPT ![i] = w]
                  /\ \/ w = FollowWal(m, back)
                     \/ \E es : w = WriteEntries(FollowWal(m, back), es)
                     \/ \E k, t : w = Truncate(WriteSnapshot(FollowWal(m, back), k, t), k)
  <2>1. CASE AppendEntriesConflict(m)
    <3>1. /\ Follow(m, BackOnAppend(m))
          /\ wal' = [wal EXCEPT ![i] = FollowWal(m, BackOnAppend(m))]
      BY <2>1 DEF AppendEntriesConflict
    <3> QED BY <3>1 DEF BackOnAppend
  <2>2. CASE AppendEntriesAccept(m)
    <3>1. Follow(m, BackOnAppend(m))
      BY <2>2 DEF AppendEntriesAccept
    <3>2. \E es : wal' = [wal EXCEPT ![i] = WriteEntries(FollowWal(m, BackOnAppend(m)), es)]
      BY <2>2 DEF AppendEntriesAccept
    <3> QED BY <3>1, <3>2 DEF BackOnAppend
  <2>3. CASE SnapshotInstall(m)
    <3> DEFINE back == m.term > currentTerm[i]
    <3>1. Follow(m, back)
      BY <2>3 DEF SnapshotInstall
    <3>2. \/ wal' = [wal EXCEPT ![i] = FollowWal(m, back)]
          \/ \E k, t : wal' = [wal EXCEPT ![i] = Truncate(WriteSnapshot(FollowWal(m, back), k, t), k)]
      BY <2>3 DEF SnapshotInstall
    <3>3. back \in BOOLEAN /\ (m.term > currentTerm[i] => back)
          /\ (back => m.term > currentTerm[i] \/ state[i] = "candidate")
      BY SMT
    <3> HIDE DEF back
    <3> QED BY <3>1, <3>2, <3>3
  <2> QED BY <2>1, <2>2, <2>3
<1>5. PICK back \in BOOLEAN :
        /\ Follow(m, back)
        /\ m.term > currentTerm[i] => back
        /\ back => m.term > currentTerm[i] \/ state[i] = "candidate"
        /\ \E w : /\ wal' = [wal EXCEPT ![i] = w]
                  /\ \/ w = FollowWal(m, back)
                     \/ \E es : w = WriteEntries(FollowWal(m, back), es)
                     \/ \E k, t : w = Truncate(WriteSnapshot(FollowWal(m, back), k, t), k)
  BY <1>4
<1>6. PICK w : /\ wal' = [wal EXCEPT ![i] = w]
               /\ \/ w = FollowWal(m, back)
                  \/ \E es : w = WriteEntries(FollowWal(m, back), es)
                  \/ \E k, t : w = Truncate(WriteSnapshot(FollowWal(m, back), k, t), k)
  BY <1>5
<1>7. /\ FollowWal(m, back) \in Wal
      /\ FollowWal(m, back).linked => /\ FollowWal(m, back).term = currentTerm'[i]
                                      /\ FollowWal(m, back).votedFor = votedFor'[i]
      /\ \A j \in Server \ {i} : currentTerm'[j] = currentTerm[j] /\ votedFor'[j] = votedFor[j]
  BY <1>0, <1>1, <1>5, FollowWalFields
<1>8. w.linked => w.term = currentTerm'[i] /\ w.votedFor = votedFor'[i]
  BY <1>6, <1>7, WalKeepsVote, SMT
<1>9. VoteDurable'
  BY <1>0, <1>6, <1>7, <1>8, WalStep
<1> QED BY <1>0, <1>1, <1>2, <1>3, <1>5, <1>9, FollowStep

\* Replies to AppendEntries and SnapshotInstall, stale requests, lost messages.
LEMMA ReplyStep ==
  ASSUME TypeOK, TypeOK', ElectionInv, NEW m \in msgs,
         \/ RejectStale(m) \/ ReplyNewerTerm(m) \/ AppendEntriesReplyAccept(m)
         \/ AppendEntriesReplyReject(m) \/ SnapshotInstallReplyAccept(m) \/ Lose(m)
  PROVE  ElectionInv'
<1>0. m \in Message /\ m.to \in Server
  BY MessageFields DEF TypeOK
<1>1. ASSUME UNCHANGED <<termVars, wal>> PROVE VoteDurable'
  BY <1>1 DEF ElectionInv, VoteDurable, termVars
<1>2. ASSUME msgs' = msgs \ {m}, UNCHANGED voteVars PROVE NoNewBallot
  BY <1>2 DEF NoNewBallot, voteVars
<1>3. CASE RejectStale(m)
  <2>1. \E r : Reply(m, r) /\ r.type \notin {"RequestVote", "RequestVoteReply"}
    <3>1. CASE Receives(m, "AppendEntries")
      <4>1. \E r : Reply(m, r) /\ r.type = "AppendEntriesReply"
        BY <1>3, <3>1, SMT DEF RejectStale, Receives
      <4> QED BY <4>1
    <3>2. CASE Receives(m, "SnapshotInstall")
      <4>1. \E r : Reply(m, r) /\ r.type = "SnapshotInstallReply"
        BY <1>3, <3>2, SMT DEF RejectStale, Receives
      <4> QED BY <4>1
    <3> QED BY <1>3, <3>1, <3>2 DEF RejectStale
  <2>2. NoNewBallot
    BY <1>3, <2>1, ReplyNoBallot DEF RejectStale
  <2> QED BY <1>1, <1>3, <2>2, QuietStep DEF RejectStale, bootVars
<1>4. CASE ReplyNewerTerm(m)
  <2>1. m.term \in Nat
    BY <1>0, <1>4, MessageFields
       DEF ReplyNewerTerm, CurrentReply, Receives, AppendEntriesReply, SnapshotInstallReply
  <2>2. NoNewBallot
    BY <1>2, <1>4 DEF ReplyNewerTerm
  <2> QED BY <1>0, <1>4, <2>1, <2>2, StepDown DEF ReplyNewerTerm, bootVars
<1>5. ASSUME NEW k, Matched(m, k) PROVE ElectionInv'
  <2>1. msgs' = msgs \ {m} /\ UNCHANGED <<termVars, voteVars, bootVars, wal>>
    BY <1>5 DEF Matched
  <2> QED BY <1>1, <1>2, <2>1, QuietStep DEF bootVars
<1>6. CASE AppendEntriesReplyReject(m)
  <2>1. msgs' = msgs \ {m} /\ UNCHANGED <<termVars, voteVars, bootVars, wal>>
    BY <1>6 DEF AppendEntriesReplyReject
  <2> QED BY <1>1, <1>2, <2>1, QuietStep DEF bootVars
<1>7. CASE Lose(m)
  <2>1. msgs' = msgs \ {m} /\ UNCHANGED <<termVars, voteVars, bootVars, wal>>
    BY <1>7 DEF Lose
  <2> QED BY <1>1, <1>2, <2>1, QuietStep DEF bootVars
<1> QED BY <1>3, <1>4, <1>5, <1>6, <1>7
       DEF AppendEntriesReplyAccept, SnapshotInstallReplyAccept

-----------------------------------------------------------------------------
(* The theorems. *)

\* The invariant holds initially.
LEMMA ElectionInit == Init => ElectionInv
<1> SUFFICES ASSUME Init PROVE ElectionInv
  OBVIOUS
<1>1. OwnVote /\ NoSelfRequest /\ CandidateTermStable /\ VoteDurable
  BY DEF Init, OwnVote, NoSelfRequest, CandidateTermStable, VoteDurable, EmptyWal
<1>2. \A v, i, t : ~ Backs(v, i, t) \/ i \notin Server
  BY DEF Init, Backs, GrantedReply
<1> QED BY <1>1, <1>2
       DEF Init, ElectionInv, BallotsKept, OneBallot, ElectionSafety

\* Every step preserves it.
LEMMA ElectionNext ==
  ASSUME TypeOK, TypeOK', ElectionInv, [Next]_vars
  PROVE  ElectionInv'
<1>1. ASSUME NEW i \in Server, NodeStep(i) PROVE ElectionInv'
  BY <1>1, ElectionQuiet, ElectionBehindStep, TimeoutStep, BecomeLeaderStep, RestartStep
     DEF NodeStep
<1>2. ASSUME NEW m \in msgs, MessageStep(m) PROVE ElectionInv'
  BY <1>2, RequestVoteStep, VoteResultStep, FollowerStep, ReplyStep DEF MessageStep
<1>3. CASE UNCHANGED vars
  <2>1. NoNewBallot /\ VoteDurable' /\ UNCHANGED <<termVars, walLost>>
    BY <1>3 DEF vars, voteVars, termVars, bootVars, NoNewBallot, ElectionInv, VoteDurable
  <2> QED BY <2>1, QuietStep
<1> QED BY <1>1, <1>2, <1>3 DEF Next

\* Votes are counted once and remembered, and a leader has a majority behind
\* it, for every cluster: the inductive invariant of electionLoop and
\* RequestVote.
THEOREM ElectionInvariant == Spec => []ElectionInv
<1>1. Init => TypeOK /\ ElectionInv
  BY TypeInit, ElectionInit
<1>2. TypeOK /\ ElectionInv /\ [Next]_vars => (TypeOK /\ ElectionInv)'
  BY TypeNext, ElectionNext
<1> QED BY <1>1, <1>2, PTL DEF Spec

\* At most one node leads a term, with any number of crashes, lost and
\* reordered messages and snapshots, as long as no node restarted after
\* wal.Truncate had unlinked its WAL.
THEOREM ElectionSafe == Spec => []ElectionSafetyUnlessWalLost
<1>1. ElectionInv => ElectionSafetyUnlessWalLost
  BY DEF ElectionInv, ElectionSafetyUnlessWalLost
<1> QED BY <1>1, ElectionInvariant, PTL

\* The term and vote of a node are in its WAL whenever it may crash, unless
\* the WAL is unlinked (persistState).
THEOREM VotesAreDurable == Spec => []VoteDurable
<1>1. ElectionInv => VoteDurable
  BY DEF ElectionInv
<1> QED BY <1>1, ElectionInvariant, PTL

\* electionLoop need not read its term again after the vote: a node that is
\* still candidate is in the term it asked votes for.
THEOREM CandidateKeepsTerm == Spec => []CandidateTermStable
<1>1. ElectionInv => CandidateTermStable
  BY DEF ElectionInv
<1> QED BY <1>1, ElectionInvariant, PTL

=============================================================================
