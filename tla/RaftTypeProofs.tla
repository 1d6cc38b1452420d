--------------------------- MODULE RaftTypeProofs ---------------------------
(***************************************************************************)
(* Type correctness of Raft, for every cluster and every bound. The lemmas *)
(* go from minima and maxima over the log helpers to one lemma per action. *)
(***************************************************************************)
EXTENDS Raft, FiniteSetTheorems, SequenceTheorems, TLAPS

\* The leaves are first-order; one that needs arithmetic cites SMT
USE Zenon

-----------------------------------------------------------------------------
(* Minima and maxima. *)

\* A non-empty set of naturals has a least element.
LEMMA NatMin ==
  ASSUME NEW S \in SUBSET Nat, S # {}
  PROVE  \E x \in S : \A y \in S : x <= y
<1>1. IsWellFoundedOn(OpToRel(<, Nat), Nat)
  BY NatLessThanWellFounded
<1>2. PICK x \in S : \A y \in S : ~ (<<y, x>> \in OpToRel(<, Nat))
  BY <1>1, WFMin
<1>3. \A y \in S : ~ (y < x)
  BY <1>2 DEF OpToRel
<1> QED BY <1>3, SMT

\* Min of a non-empty set of naturals is one of its elements.
LEMMA MinOfNat ==
  ASSUME NEW S \in SUBSET Nat, S # {}
  PROVE  Min(S) \in S /\ \A y \in S : Min(S) <= y
BY NatMin DEF Min

\* Max of a non-empty set of integers with an upper bound is one of its elements.
LEMMA MaxOfBounded ==
  ASSUME NEW S \in SUBSET Int, S # {}, NEW b \in Int, \A x \in S : x <= b
  PROVE  Max(S) \in S /\ \A y \in S : y <= Max(S)
<1> DEFINE D == {b - x : x \in S}
<1>1. \A x \in S : b - x \in Nat
  BY SMT
<1>a. D \in SUBSET Nat /\ D # {}
  BY <1>1
<1>2. PICK d \in D : \A y \in D : d <= y
  BY <1>a, NatMin
<1>3. PICK x \in S : d = b - x
  OBVIOUS
<1>4. \A y \in S : b - x <= b - y
  BY <1>2, <1>3
<1>5. \A y \in S : x >= y
  BY <1>4, SMT
<1> QED BY <1>5 DEF Max

-----------------------------------------------------------------------------
(* Types of the operators. *)

\* The positions and terms the log helpers return.
LEMMA LogTypes ==
  ASSUME TypeOK, NEW i \in Server
  PROVE  /\ LastIndex(i) \in Int
         /\ LastTerm(i) \in Int
         /\ \A k \in Int : Holds(i, k) => EntryAt(i, k) \in Entry
<1>1. log[i] \in Seq(Entry) /\ lastIncludeIndex[i] \in Int /\ lastIncludeTerm[i] \in Int
  BY SMT DEF TypeOK, LogTypeOK, Index
<1>2. Len(log[i]) \in Nat /\ \A k \in 1..Len(log[i]) : log[i][k] \in Entry
  BY <1>1, LenProperties, ElementOfSeq
<1>3. LastTerm(i) \in Int
  <2>1. CASE log[i] = <<>>
    BY <2>1, <1>1 DEF LastTerm
  <2>2. CASE log[i] # <<>>
    <3>1. Len(log[i]) \in 1..Len(log[i])
      BY <2>2, <1>1, EmptySeq, SMT
    <3> QED BY <3>1, <1>2, <2>2, SMT DEF LastTerm, Entry
  <2> QED BY <2>1, <2>2
<1> QED BY <1>1, <1>2, <1>3, SMT DEF LastIndex, Holds, EntryAt

\* FirstNew is a position of the entries or the one after them.
LEMMA FirstNewType ==
  ASSUME NEW i, NEW prev, NEW es \in Seq(Entry)
  PROVE  FirstNew(i, prev, es) \in 1..(Len(es) + 1)
<1>1. Len(es) \in Nat
  BY LenProperties
<1> DEFINE S == {p \in 1..Len(es) : ~ (/\ Holds(i, prev + p)
                             /\ EntryAt(i, prev + p).term = es[p].term)}
        \cup {Len(es) + 1}
<1>2. S \in SUBSET Nat /\ S # {} /\ S \subseteq 1..(Len(es) + 1)
  BY <1>1, SMT
<1>3. Min(S) \in S
  BY <1>2, MinOfNat
<1> QED BY <1>2, <1>3 DEF FirstNew

\* The log holds, with the same term, every entry before FirstNew.
LEMMA FirstNewIsLeast ==
  ASSUME NEW i, NEW prev, NEW es \in Seq(Entry), NEW q \in 1..Len(es),
         q < FirstNew(i, prev, es)
  PROVE  Holds(i, prev + q) /\ EntryAt(i, prev + q).term = es[q].term
<1>1. Len(es) \in Nat
  BY LenProperties
<1> DEFINE S == {p \in 1..Len(es) : ~ (/\ Holds(i, prev + p)
                             /\ EntryAt(i, prev + p).term = es[p].term)}
        \cup {Len(es) + 1}
<1>2. S \in SUBSET Nat /\ S # {}
  BY <1>1, SMT
<1>3. \A y \in S : Min(S) <= y
  BY <1>2, MinOfNat
<1>4. Min(S) \in Nat
  BY <1>2, MinOfNat
<1>5. FirstNew(i, prev, es) = Min(S)
  BY DEF FirstNew
<1>6. q \notin S
  <2> HIDE DEF S
  <2> QED BY <1>1, <1>3, <1>4, <1>5, SMT
<1> QED BY <1>6

\* FirstOfTerm is an index when the entry at k has the term.
LEMMA FirstOfTermType ==
  ASSUME NEW i, NEW k \in Nat, NEW t,
         Holds(i, k), EntryAt(i, k).term = t
  PROVE  FirstOfTerm(i, k, t) \in 0..k
<1> DEFINE S == {f \in 0..k : \A x \in f..k : Holds(i, x) /\ EntryAt(i, x).term = t}
<1>1. k \in S
  <2>1. \A x \in k..k : x = k
    BY SMT
  <2> QED BY <2>1, SMT
<1>2. S \in SUBSET Nat /\ S # {}
  BY <1>1, SMT
<1>3. Min(S) \in S
  BY <1>2, MinOfNat
<1> QED BY <1>3 DEF FirstOfTerm

\* AgreedIndex is an index of the log, or -1.
LEMMA AgreedIndexType ==
  ASSUME TypeOK, NEW i \in Server, NEW match
  PROVE  AgreedIndex(i, match) \in Int
<1>1. LastIndex(i) \in Int
  BY LogTypes
<1> DEFINE n == Cardinality(Server)
           reach(k) == {p \in Server : (IF p = i THEN LastIndex(i) ELSE match[p]) >= k}
           S == {-1} \cup {k \in 0..LastIndex(i) : Cardinality(reach(k)) >= n - (n \div 2)}
<1>2. S \in SUBSET Int /\ S # {}
  BY <1>1, SMT
<1>3. \E b \in Int : \A x \in S : x <= b
  <2>1. CASE LastIndex(i) >= -1
    <3>1. \A x \in S : x <= LastIndex(i)
      BY <2>1, <1>1, SMT
    <3> QED BY <3>1, <1>1
  <2>2. CASE LastIndex(i) < -1
    <3>1. \A x \in S : x <= -1
      BY <2>2, <1>1, SMT
    <3> QED BY <3>1, SMT
  <2> QED BY <2>1, <2>2, <1>1, SMT
<1>4. Max(S) \in S
  BY <1>2, <1>3, MaxOfBounded
<1> QED BY <1>2, <1>4 DEF AgreedIndex

\* Writing to a WAL gives a WAL.
LEMMA WalTypes ==
  ASSUME NEW w \in Wal
  PROVE  /\ \A t \in Nat, v \in Node : WriteState(w, t, v) \in Wal
         /\ \A es \in Seq(Entry) : WriteEntries(w, es) \in Wal
         /\ \A k \in Index, t \in Int : /\ WriteSnapshot(w, k, t) \in Wal
                                        /\ Truncate(WriteSnapshot(w, k, t), k) \in Wal
<1>1. w.log \in Seq(Entry)
  BY DEF Wal
<1>2. \A es \in Seq(Entry) : w.log \o es \in Seq(Entry)
  BY <1>1, ConcatProperties
<1>3. \A es \in Seq(Entry) : WriteEntries(w, es) \in Wal
  BY <1>2 DEF WriteEntries, Wal
<1>4. \A t \in Nat, v \in Node : WriteState(w, t, v) \in Wal
  BY DEF WriteState, Wal
<1>5. <<>> \in Seq(Entry)
  BY EmptySeq
<1>6. \A k \in Index, t \in Int : WriteSnapshot(w, k, t) \in Wal
  BY <1>5 DEF WriteSnapshot, Wal
<1>7. [EmptyWal EXCEPT !.linked = FALSE] \in Wal
  <2>1. EmptyWal \in Wal
    BY <1>5, SMT DEF EmptyWal, Wal, Node, Index
  <2> QED BY <2>1 DEF Wal
<1> QED BY <1>3, <1>4, <1>6, <1>7 DEF Truncate

\* Committing keeps the types of the interface to the state machine.
LEMMA CommitType ==
  ASSUME TypeOK, NEW i \in Server, NEW lg \in Seq(Entry), NEW ci \in Int,
         NEW back \in BOOLEAN, Commit(i, lg, ci, back)
  PROVE  ApplyTypeOK'
<1> DEFINE lii == lastIncludeIndex[i]
           last == lii + Len(lg)
           sent == IF lastApplied[i] < lii THEN {}
                   ELSE {k \in (lastApplied[i] + 1)..ci : k <= last}
<1>1. lii \in Int /\ lastApplied[i] \in Int /\ Len(lg) \in Nat /\ last \in Int
  BY LenProperties, SMT DEF TypeOK, LogTypeOK, ApplyTypeOK, Index
<1>2. \A k \in sent : k \in Int /\ k - lii \in 1..Len(lg)
  BY <1>1, SMT
<1>3. \A k \in sent : lg[k - lii] \in Entry
  BY <1>2, ElementOfSeq
<1>4. applied' = applied \cup {<<k, lg[k - lii]>> : k \in sent}
  BY DEF Commit, UndateLastApplied
<1>5. applied' \subseteq Int \X Entry
  BY <1>2, <1>3, <1>4, SMT DEF TypeOK, LogTypeOK, ApplyTypeOK
<1>6. commitIndex' \in [Server -> Int]
  BY DEF Commit, TypeOK, ApplyTypeOK
<1>7. (back \/ 0 \in sent) \in BOOLEAN
  OBVIOUS
<1>8. IisBack' \in [Server -> BOOLEAN]
  BY <1>7 DEF Commit, UndateLastApplied, TypeOK, ApplyTypeOK
<1>9. lastApplied' \in [Server -> Int]
  BY <1>1 DEF Commit, UndateLastApplied, TypeOK, ApplyTypeOK
<1> QED BY <1>5, <1>6, <1>8, <1>9 DEF ApplyTypeOK

\* So does the commit rule of a leader.
LEMMA UpdateCommitIndexType ==
  ASSUME TypeOK, NEW i \in Server, NEW match, NEW back \in BOOLEAN,
         UpdateCommitIndex(i, match, back)
  PROVE  ApplyTypeOK'
<1>1. AgreedIndex(i, match) \in Int
  BY AgreedIndexType
<1>2. log[i] \in Seq(Entry)
  BY DEF TypeOK, LogTypeOK, ApplyTypeOK
<1>3. CASE Commit(i, log[i], AgreedIndex(i, match), back)
  BY <1>1, <1>2, <1>3, CommitType
<1>4. CASE /\ IisBack' = [IisBack EXCEPT ![i] = back]
           /\ UNCHANGED <<commitIndex, lastApplied, applied>>
  BY <1>4 DEF TypeOK, LogTypeOK, ApplyTypeOK
<1> QED BY <1>3, <1>4 DEF UpdateCommitIndex

-----------------------------------------------------------------------------
(* Type correctness. *)

\* Parts whose variables a step leaves alone keep their types.
LEMMA TypeUnchanged ==
  ASSUME TypeOK
  PROVE  /\ UNCHANGED termVars => TermTypeOK'
         /\ UNCHANGED logVars => LogTypeOK'
         /\ UNCHANGED applyVars => ApplyTypeOK'
         /\ UNCHANGED peerVars => PeerTypeOK'
         /\ UNCHANGED voteVars => VoteTypeOK'
         /\ UNCHANGED bootVars => BootTypeOK'
<1>1. UNCHANGED termVars => TermTypeOK'
  BY DEF TypeOK, TermTypeOK, termVars
<1>2. UNCHANGED logVars => LogTypeOK'
  BY DEF TypeOK, LogTypeOK, logVars
<1>3. UNCHANGED applyVars => ApplyTypeOK'
  BY DEF TypeOK, ApplyTypeOK, applyVars
<1>4. UNCHANGED peerVars => PeerTypeOK'
  BY DEF TypeOK, PeerTypeOK, peerVars
<1>5. UNCHANGED voteVars => VoteTypeOK'
  BY DEF TypeOK, VoteTypeOK, voteVars
<1>6. UNCHANGED bootVars => BootTypeOK'
  BY DEF TypeOK, BootTypeOK, bootVars
<1> QED BY <1>1, <1>2, <1>3, <1>4, <1>5, <1>6

\* The end of a vote keeps the types.
LEMMA EndVoteType ==
  ASSUME TypeOK, NEW i \in Server, NEW next \in {"idle", "noop"}, EndVote(i, next)
  PROVE  VoteTypeOK'
BY DEF TypeOK, VoteTypeOK, EndVote

\* Each turn of the election loop keeps the types.
LEMMA TypeElection ==
  ASSUME TypeOK, NEW i \in Server,
         Timeout(i) \/ ElectionLost(i) \/ ElectionBehind(i) \/ BecomeLeader(i)
  PROVE  TypeOK'
<1> USE TypeUnchanged
<1>1. CASE Timeout(i)
  <2>1. LastIndex(i) \in Int /\ LastTerm(i) \in Int
    BY LogTypes
  <2>2. boot[i] \in Nat /\ currentTerm[i] + 1 \in Nat
    BY SMT DEF TypeOK, BootTypeOK, TermTypeOK
  <2>3. {[type |-> "RequestVote", from |-> i, to |-> j, boot |-> boot[i],
               term |-> currentTerm[i] + 1, lastLogIndex |-> LastIndex(i),
               lastLogTerm |-> LastTerm(i)] : j \in Server \ {i}} \subseteq Message
    BY <2>1, <2>2, SMT DEF Message, RequestVoteArgs
  <2>4. msgs' \subseteq Message
    BY <2>3, <1>1 DEF Timeout, Send, TypeOK
  <2>5. wal' \in [Server -> Wal]
    BY <1>1, <2>2, WalTypes DEF Timeout, TypeOK, Node
  <2>6. TermTypeOK'
    BY <1>1, <2>2 DEF Timeout, TypeOK, TermTypeOK, State, Node
  <2>7. VoteTypeOK'
    BY <1>1, <2>2 DEF Timeout, TypeOK, VoteTypeOK
  <2>8. BootTypeOK'
    BY <1>1, SMT DEF Timeout, TypeOK, BootTypeOK
  <2> QED BY <1>1, <2>4, <2>5, <2>6, <2>7, <2>8 DEF Timeout, TypeOK
<1>2. CASE ElectionLost(i)
  BY <1>2, EndVoteType DEF ElectionLost, TypeOK
<1>3. CASE ElectionBehind(i)
  <2>1. maxTerm[i] \in Nat
    BY DEF TypeOK, VoteTypeOK
  <2>2. wal' \in [Server -> Wal]
    BY <1>3, <2>1, WalTypes DEF ElectionBehind, TypeOK, Node
  <2>3. TermTypeOK'
    BY <1>3, <2>1 DEF ElectionBehind, TypeOK, TermTypeOK, State, Node
  <2> QED
    BY <1>3, <2>2, <2>3, EndVoteType DEF ElectionBehind, TypeOK
<1>4. CASE BecomeLeader(i)
  <2>1. ApplyTypeOK'
    BY <1>4, UpdateCommitIndexType DEF BecomeLeader
  <2>2. LastIndex(i) + 1 \in Int
    BY LogTypes, SMT
  <2>3. PeerTypeOK'
    BY <1>4, <2>2, SMT DEF BecomeLeader, TypeOK, PeerTypeOK
  <2>4. TermTypeOK'
    BY <1>4 DEF BecomeLeader, TypeOK, TermTypeOK, State, Node
  <2> QED BY <1>4, <2>1, <2>3, <2>4, EndVoteType DEF BecomeLeader, TypeOK
<1> QED BY <1>1, <1>2, <1>3, <1>4

\* A command or a no-op added to the log keeps the types.
LEMMA AppendToLogType ==
  ASSUME TypeOK, NEW i \in Server, NEW v \in Command, AppendToLog(i, v)
  PROVE  log' \in [Server -> Seq(Entry)] /\ wal' \in [Server -> Wal]
<1> DEFINE entry == [term |-> currentTerm[i], val |-> v]
<1>1. entry \in Entry
  BY DEF TypeOK, TermTypeOK, Entry
<1> HIDE DEF entry
<1>2. log[i] \in Seq(Entry) /\ wal[i] \in Wal
  BY DEF TypeOK, LogTypeOK
<1>3. Append(log[i], entry) \in Seq(Entry) /\ <<entry>> \in Seq(Entry)
  BY <1>1, <1>2, AppendProperties, SMT
<1>4. WriteEntries(wal[i], <<entry>>) \in Wal
  BY <1>2, <1>3, WalTypes
<1>5. /\ log' = [log EXCEPT ![i] = Append(log[i], entry)]
      /\ wal' = [wal EXCEPT ![i] = WriteEntries(wal[i], <<entry>>)]
  BY DEF AppendToLog, entry
<1> QED BY <1>3, <1>4, <1>5 DEF TypeOK, LogTypeOK

\* What a leader and its loops do by themselves keeps the types.
LEMMA TypeLeader ==
  ASSUME TypeOK, NEW i \in Server, NEW j \in Server,
         \/ StartNoOp(i) \/ (\E v \in Value : Start(i, v)) \/ SendAppendEntriesToPeerId(i, j)
         \/ SendAppendEntriesToAll(i) \/ SendInstallSnapshotToPeerId(i, j)
  PROVE  TypeOK'
<1> USE TypeUnchanged
<1>0. /\ currentTerm[i] \in Nat /\ boot[i] \in Nat /\ commitIndex[i] \in Int
      /\ nextIndex[i][j] \in Int /\ log[i] \in Seq(Entry)
      /\ lastIncludeIndex[i] \in Index /\ lastIncludeTerm[i] \in Int
  BY SMT DEF TypeOK, TermTypeOK, BootTypeOK, ApplyTypeOK, PeerTypeOK, LogTypeOK
<1>1. ASSUME NEW v \in Value, Start(i, v) PROVE TypeOK'
  <2>1. log' \in [Server -> Seq(Entry)] /\ wal' \in [Server -> Wal]
    BY <1>1, AppendToLogType DEF Start, Command
  <2>2. LogTypeOK'
    BY <1>1, <2>1 DEF Start, TypeOK, LogTypeOK
  <2> QED BY <1>1, <2>1, <2>2 DEF Start, TypeOK
<1>2. CASE StartNoOp(i)
  <2>1. log' \in [Server -> Seq(Entry)] /\ wal' \in [Server -> Wal]
    <3>1. CASE state[i] = "leader"
      BY <1>2, <3>1, AppendToLogType DEF StartNoOp, Command
    <3>2. CASE state[i] # "leader"
      BY <1>2, <3>2 DEF StartNoOp, TypeOK, LogTypeOK
    <3> QED BY <3>1, <3>2
  <2>2. LogTypeOK'
    BY <1>2, <2>1 DEF StartNoOp, TypeOK, LogTypeOK
  <2>3. VoteTypeOK'
    BY <1>2 DEF StartNoOp, TypeOK, VoteTypeOK
  <2> QED BY <1>2, <2>1, <2>2, <2>3 DEF StartNoOp, TypeOK
<1>3. CASE SendAppendEntriesToPeerId(i, j)
  <2> DEFINE prev == nextIndex[i][j] - 1
             kept == prev >= lastIncludeIndex[i]
             pterm == IF ~ kept THEN 0
                      ELSE IF prev = lastIncludeIndex[i] THEN lastIncludeTerm[i]
                      ELSE EntryAt(i, prev).term
             es == IF kept THEN SubSeq(log[i], prev - lastIncludeIndex[i] + 1, Len(log[i]))
                   ELSE <<>>
             m == [type |-> "AppendEntries", from |-> i, to |-> j, boot |-> boot[i],
                   term |-> currentTerm[i], prevLogIndex |-> prev, prevLogTerm |-> pterm,
                   entries |-> es, leaderCommit |-> commitIndex[i]]
  <2>1. prev \in Int /\ lastIncludeIndex[i] \in Int
    BY <1>0, SMT DEF Index
  <2>2. pterm \in Int
    <3>1. CASE kept /\ prev # lastIncludeIndex[i]
      <4>1. Holds(i, prev)
        BY <3>1, <2>1, <1>3, SMT DEF Holds, SendAppendEntriesToPeerId
      <4> QED BY <4>1, <3>1, <2>1, LogTypes, SMT DEF Entry
    <3> QED BY <3>1, <1>0, SMT
  <2>3. es \in Seq(Entry)
    <3>1. Len(log[i]) \in Nat
      BY <1>0, LenProperties
    <3>2. kept => prev - lastIncludeIndex[i] + 1 \in 1..(Len(log[i]) + 1)
      BY <1>3, <2>1, <3>1, SMT DEF SendAppendEntriesToPeerId, LastIndex
    <3>3. <<>> \in Seq(Entry)
      BY EmptySeq
    <3>4. kept => SubSeq(log[i], prev - lastIncludeIndex[i] + 1, Len(log[i])) \in Seq(Entry)
      BY <1>0, <3>1, <3>2, SubSeqProperties, SMT
    <3> QED BY <3>3, <3>4
  <2>4. m \in Message
    <3> HIDE DEF prev, pterm, es
    <3> QED BY <1>0, <2>1, <2>2, <2>3 DEF Message, AppendEntriesArgs
  <2>5. Send({m}) /\ UNCHANGED <<termVars, logVars, applyVars, peerVars, voteVars, bootVars, wal>>
    BY <1>3 DEF SendAppendEntriesToPeerId
  <2> HIDE DEF m
  <2> QED BY <2>4, <2>5 DEF Send, TypeOK
<1>4. CASE SendAppendEntriesToAll(i)
  <2>1. PeerTypeOK'
    BY <1>4 DEF SendAppendEntriesToAll, TypeOK, PeerTypeOK
  <2> QED BY <1>4, <2>1 DEF SendAppendEntriesToAll, TypeOK
<1>5. CASE SendInstallSnapshotToPeerId(i, j)
  <2>1. PeerTypeOK'
    BY <1>5 DEF SendInstallSnapshotToPeerId, TypeOK, PeerTypeOK
  <2>2. [type |-> "SnapshotInstall", from |-> i, to |-> j, boot |-> boot[i],
         term |-> currentTerm[i], lastIncludeIndex |-> lastIncludeIndex[i],
         lastIncludeTerm |-> lastIncludeTerm[i]] \in Message
    BY <1>0 DEF Message, SnapshotInstallArgs
  <2>3. msgs' \subseteq Message
    BY <1>5, <2>2 DEF SendInstallSnapshotToPeerId, Send, TypeOK
  <2> QED BY <1>5, <2>1, <2>3 DEF SendInstallSnapshotToPeerId, TypeOK
<1> QED BY <1>1, <1>2, <1>3, <1>4, <1>5

\* Taking a snapshot keeps the types.
LEMMA TypeSnapshot ==
  ASSUME TypeOK, NEW i \in Server, NEW index \in SnapshotAt, Snapshot(i, index)
  PROVE  TypeOK'
<1>1. /\ index \in Index /\ index \in Int /\ log[i] \in Seq(Entry) /\ wal[i] \in Wal
      /\ lastIncludeIndex[i] \in Int
  BY BoundAssumption, SMT DEF TypeOK, LogTypeOK, Index
<1>2. EntryAt(i, index).term \in Int
  BY <1>1, LogTypes, SMT DEF Snapshot, Entry
<1>3. wal' \in [Server -> Wal]
  BY <1>1, <1>2, WalTypes DEF Snapshot, TypeOK
<1>4. Len(log[i]) \in Nat /\ index - lastIncludeIndex[i] + 1 \in 1..(Len(log[i]) + 1)
  BY <1>1, LenProperties, SMT DEF Snapshot, Holds, LastIndex
<1>5. SubSeq(log[i], index - lastIncludeIndex[i] + 1, Len(log[i])) \in Seq(Entry)
  BY <1>1, <1>4, SubSeqProperties, SMT
<1>6. LogTypeOK'
  BY <1>1, <1>2, <1>5 DEF Snapshot, TypeOK, LogTypeOK
<1> QED BY <1>3, <1>6, TypeUnchanged DEF Snapshot, TypeOK

\* So does a restart.
LEMMA TypeRestart ==
  ASSUME TypeOK, NEW i \in Server, Restart(i)
  PROVE  TypeOK'
<1>1. /\ wal[i].term \in Nat /\ wal[i].votedFor \in Node /\ wal[i].log \in Seq(Entry)
      /\ wal[i].lastIncludeIndex \in Index /\ wal[i].lastIncludeTerm \in Int
      /\ wal[i] \in Wal
  BY DEF TypeOK, Wal
<1>2. TermTypeOK'
  BY <1>1 DEF Restart, TypeOK, TermTypeOK, State, Node
<1>3. LogTypeOK'
  BY <1>1 DEF Restart, TypeOK, LogTypeOK
<1>4. ApplyTypeOK'
  <2>1. wal[i].lastIncludeIndex \in Int
    BY <1>1, SMT DEF Index
  <2> QED BY <2>1 DEF Restart, TypeOK, ApplyTypeOK
<1>5. PeerTypeOK'
  BY SMT DEF Restart, TypeOK, PeerTypeOK
<1>6. VoteTypeOK'
  BY EndVoteType DEF Restart
<1>7. BootTypeOK'
  <2>1. (wal[i].lastIncludeIndex = -1) \in BOOLEAN
    OBVIOUS
  <2>2. up' \in [Server -> BOOLEAN]
    BY <2>1 DEF Restart, TypeOK, BootTypeOK
  <2> QED BY <2>2, SMT DEF Restart, TypeOK, BootTypeOK
<1>8. wal' \in [Server -> Wal]
  <2>1. [wal[i] EXCEPT !.linked = TRUE] \in Wal
    BY <1>1 DEF Wal
  <2> QED BY <2>1 DEF Restart, TypeOK
<1> QED BY <1>2, <1>3, <1>4, <1>5, <1>6, <1>7, <1>8 DEF Restart, TypeOK

-----------------------------------------------------------------------------
(* Types in the handlers of messages. *)

\* The fields of a message that the handlers use.
LEMMA MessageFields ==
  ASSUME NEW m \in Message
  PROVE  /\ m.from \in Server /\ m.to \in Server /\ m.boot \in Nat
         /\ m.type = "RequestVote" => m \in RequestVoteArgs
         /\ m.type = "RequestVoteReply" => m \in RequestVoteReply
         /\ m.type = "AppendEntries" => m \in AppendEntriesArgs
         /\ m.type = "AppendEntriesReply" => m \in AppendEntriesReply
         /\ m.type = "SnapshotInstall" => m \in SnapshotInstallArgs
         /\ m.type = "SnapshotInstallReply" => m \in SnapshotInstallReply
<1>1. CASE m \in RequestVoteArgs
  BY <1>1 DEF RequestVoteArgs
<1>2. CASE m \in RequestVoteReply
  BY <1>2 DEF RequestVoteReply
<1>3. CASE m \in AppendEntriesArgs
  BY <1>3 DEF AppendEntriesArgs
<1>4. CASE m \in AppendEntriesReply
  BY <1>4 DEF AppendEntriesReply
<1>5. CASE m \in SnapshotInstallArgs
  BY <1>5 DEF SnapshotInstallArgs
<1>6. CASE m \in SnapshotInstallReply
  BY <1>6 DEF SnapshotInstallReply
<1> QED BY <1>1, <1>2, <1>3, <1>4, <1>5, <1>6 DEF Message

\* The vote of a peer, and the collection of votes, keep the types.
LEMMA TypeVotes ==
  ASSUME TypeOK, NEW m \in msgs, RequestVote(m) \/ VoteResult(m)
  PROVE  TypeOK'
<1> USE TypeUnchanged
<1>0. m \in Message
  BY DEF TypeOK
<1>1. CASE RequestVote(m)
  <2>1. /\ m.from \in Server /\ m.to \in Server /\ m.boot \in Nat
        /\ m.term \in Nat /\ currentTerm[m.to] \in Nat /\ votedFor[m.to] \in Node
        /\ wal[m.to] \in Wal
    BY <1>0, <1>1, MessageFields
       DEF RequestVote, Receives, RequestVoteArgs, TypeOK, TermTypeOK
  <2> DEFINE i     == m.to
             newer == m.term > currentTerm[i]
             free  == newer \/ votedFor[i] \in {None, m.from}
             grant == m.term >= currentTerm[i] /\ free /\ UpToDate(m, i)
             term  == IF newer THEN m.term ELSE currentTerm[i]
             vote  == IF grant THEN m.from ELSE IF newer THEN None ELSE votedFor[i]
             r == [type |-> "RequestVoteReply", from |-> i, to |-> m.from,
                   boot |-> m.boot, argTerm |-> m.term, term |-> currentTerm[i],
                   granted |-> grant]
  <2>2. term \in Nat /\ vote \in Node /\ grant \in BOOLEAN
    BY <2>1 DEF Node, UpToDate
  <2>3. r \in Message
    <3> HIDE DEF grant
    <3> QED BY <2>1, <2>2 DEF Message, RequestVoteReply
  <2>4. /\ currentTerm' = [currentTerm EXCEPT ![i] = term]
        /\ votedFor' = [votedFor EXCEPT ![i] = vote]
        /\ state' = [state EXCEPT ![i] = IF newer THEN "follower" ELSE @]
        /\ leaderId' = [leaderId EXCEPT ![i] = IF newer THEN None ELSE @]
        /\ wal' = [wal EXCEPT ![i] = IF newer \/ grant THEN WriteState(@, term, vote)
                                     ELSE @]
        /\ msgs' = (msgs \ {m}) \cup {r}
        /\ UNCHANGED <<logVars, applyVars, peerVars, voteVars, bootVars>>
    BY <1>1 DEF RequestVote, Reply
  <2> HIDE DEF newer, grant, term, vote, r
  <2>5. TermTypeOK'
    BY <2>1, <2>2, <2>4 DEF TypeOK, TermTypeOK, State, Node
  <2>6. wal' \in [Server -> Wal]
    BY <2>1, <2>2, <2>4, WalTypes DEF TypeOK
  <2> QED BY <2>3, <2>4, <2>5, <2>6 DEF TypeOK
<1>2. CASE VoteResult(m)
  <2>1. m.from \in Server /\ m.to \in Server /\ m.term \in Nat
    BY <1>0, <1>2, MessageFields DEF VoteResult, Receives, RequestVoteReply
  <2>2. VoteTypeOK'
    BY <1>2, <2>1 DEF VoteResult, TypeOK, VoteTypeOK
  <2> QED BY <1>2, <2>2 DEF VoteResult, TypeOK
<1> QED BY <1>1, <1>2

\* Following a leader keeps the types.
LEMMA FollowType ==
  ASSUME TypeOK, NEW m \in Message, NEW back \in BOOLEAN, m.term \in Nat
  PROVE  Follow(m, back) => TermTypeOK' /\ FollowWal(m, back) \in Wal
<1>1. m.from \in Server /\ m.to \in Server /\ wal[m.to] \in Wal
  BY MessageFields DEF TypeOK
<1>2. FollowWal(m, back) \in Wal
  BY <1>1, WalTypes DEF FollowWal, Node
<1> QED BY <1>1, <1>2 DEF Follow, TypeOK, TermTypeOK, State, Node

\* A reply is put on the wire.
LEMMA ReplyType ==
  ASSUME TypeOK, NEW m, NEW r \in Message, Reply(m, r) \/ ReplyAgain(m, r)
  PROVE  msgs' \subseteq Message
BY DEF Reply, ReplyAgain, Send, TypeOK

\* The answer to a stale request, and a reply that deposes, keep the types.
LEMMA TypeStale ==
  ASSUME TypeOK, NEW m \in msgs, RejectStale(m) \/ ReplyNewerTerm(m) \/ Lose(m)
  PROVE  TypeOK'
<1> USE TypeUnchanged
<1>0. m \in Message
  BY DEF TypeOK
<1>1. CASE RejectStale(m)
  <2>1. m.from \in Server /\ m.to \in Server /\ m.boot \in Nat /\ currentTerm[m.to] \in Nat
    BY <1>0, MessageFields DEF TypeOK, TermTypeOK
  <2>2. msgs' \subseteq Message
    <3>1. CASE Receives(m, "AppendEntries")
      <4> DEFINE r == [type |-> "AppendEntriesReply", from |-> m.to, to |-> m.from,
                     boot |-> m.boot, argTerm |-> m.term,
                     prevLogIndex |-> m.prevLogIndex, sent |-> Len(m.entries),
                     term |-> currentTerm[m.to], success |-> FALSE,
                     conflictIndex |-> -1, conflictTerm |-> -1]
      <4>1. m.term \in Nat /\ m.prevLogIndex \in Int /\ Len(m.entries) \in Nat
        BY <1>0, <3>1, MessageFields, LenProperties DEF Receives, AppendEntriesArgs
      <4>2. r \in Message
        BY <2>1, <4>1, SMT DEF Message, AppendEntriesReply
      <4>3. Reply(m, r)
        BY <1>1, <3>1 DEF RejectStale, Receives
      <4> QED BY <4>2, <4>3, ReplyType
    <3>2. CASE Receives(m, "SnapshotInstall")
      <4> DEFINE r == [type |-> "SnapshotInstallReply", from |-> m.to, to |-> m.from,
                     boot |-> m.boot, argTerm |-> m.term,
                     lastIncludeIndex |-> m.lastIncludeIndex,
                     term |-> currentTerm[m.to]]
      <4>1. m.term \in Nat /\ m.lastIncludeIndex \in Int
        BY <1>0, <3>2, MessageFields, SMT DEF Receives, SnapshotInstallArgs, Index
      <4>2. r \in Message
        BY <2>1, <4>1 DEF Message, SnapshotInstallReply
      <4>3. Reply(m, r)
        BY <1>1, <3>2 DEF RejectStale, Receives
      <4> QED BY <4>2, <4>3, ReplyType
    <3> QED BY <1>1, <3>1, <3>2 DEF RejectStale
  <2> QED BY <1>1, <2>2 DEF RejectStale, TypeOK
<1>2. CASE ReplyNewerTerm(m)
  <2>1. m.to \in Server /\ m.term \in Nat /\ wal[m.to] \in Wal
    BY <1>0, <1>2, MessageFields
       DEF ReplyNewerTerm, CurrentReply, Receives, AppendEntriesReply,
           SnapshotInstallReply, TypeOK
  <2>2. TermTypeOK'
    BY <1>2, <2>1 DEF ReplyNewerTerm, TypeOK, TermTypeOK, State, Node
  <2>3. wal' \in [Server -> Wal]
    BY <1>2, <2>1, WalTypes DEF ReplyNewerTerm, TypeOK, Node
  <2> QED BY <1>2, <2>2, <2>3 DEF ReplyNewerTerm, TypeOK
<1>3. CASE Lose(m)
  BY <1>3 DEF Lose, TypeOK
<1> QED BY <1>1, <1>2, <1>3

\* A rejected AppendEntries keeps the types.
LEMMA TypeConflict ==
  ASSUME TypeOK, NEW m \in msgs, AppendEntriesConflict(m)
  PROVE  TypeOK'
<1> DEFINE i == m.to
           prev == m.prevLogIndex
           below == prev < lastIncludeIndex[i]
           cterm == IF Clash(m) THEN EntryAt(i, prev).term ELSE -1
           cindex == IF below THEN lastIncludeIndex[i] + 1
                     ELSE IF Clash(m) THEN FirstOfTerm(i, prev, cterm)
                     ELSE LastIndex(i) + 1
           r == [type |-> "AppendEntriesReply", from |-> i, to |-> m.from,
                 boot |-> m.boot, argTerm |-> m.term, prevLogIndex |-> prev,
                 sent |-> Len(m.entries), term |-> currentTerm[i], success |-> FALSE,
                 conflictIndex |-> cindex, conflictTerm |-> cterm]
<1>0. m \in Message
  BY DEF TypeOK
<1>1. m \in AppendEntriesArgs /\ m.term \in Nat
  BY <1>0, MessageFields DEF AppendEntriesConflict, Receives, AppendEntriesArgs
<1>2. /\ i \in Server /\ m.from \in Server /\ m.boot \in Nat /\ prev \in Int
      /\ Len(m.entries) \in Nat /\ currentTerm[i] \in Nat
      /\ lastIncludeIndex[i] \in Int /\ lastIncludeIndex[i] >= -1
  BY <1>1, LenProperties, SMT DEF AppendEntriesArgs, TypeOK, TermTypeOK, LogTypeOK, Index
<1>3. cterm \in Int
  BY <1>2, LogTypes, SMT DEF Clash, Entry
<1>4. cindex \in Int
  <2>1. CASE Clash(m) /\ ~ below
    <3>1. prev \in Nat /\ Holds(i, prev) /\ EntryAt(i, prev).term = cterm
      BY <1>2, <2>1, SMT DEF Clash, Holds
    <3>2. FirstOfTerm(i, prev, cterm) \in 0..prev
      <4> HIDE DEF cterm, prev
      <4> QED BY <3>1, FirstOfTermType
    <3> QED BY <2>1, <3>2, SMT
  <2> QED BY <1>2, <2>1, LogTypes, SMT
<1>5. r \in Message
  <2> HIDE DEF cterm, cindex
  <2> QED BY <1>1, <1>2, <1>3, <1>4 DEF Message, AppendEntriesReply
<1>6. BackOnAppend(m) \in BOOLEAN
  BY DEF BackOnAppend
<1>7. /\ Follow(m, BackOnAppend(m))
      /\ wal' = [wal EXCEPT ![i] = FollowWal(m, BackOnAppend(m))]
      /\ ReplyAgain(m, r)
      /\ UNCHANGED <<logVars, applyVars, peerVars, voteVars, bootVars>>
  BY DEF AppendEntriesConflict
<1> HIDE DEF r
<1>8. TermTypeOK' /\ FollowWal(m, BackOnAppend(m)) \in Wal
  BY <1>0, <1>1, <1>6, <1>7, FollowType
<1>9. msgs' \subseteq Message
  BY <1>5, <1>7, ReplyType
<1> QED BY <1>2, <1>7, <1>8, <1>9, TypeUnchanged DEF TypeOK

\* An accepted AppendEntries keeps the types.
LEMMA TypeAccept ==
  ASSUME TypeOK, NEW m \in msgs, AppendEntriesAccept(m)
  PROVE  TypeOK'
<1> DEFINE i == m.to
           prev == m.prevLogIndex
           es == m.entries
           p == FirstNew(i, prev, es)
           new == SubSeq(es, p, Len(es))
           lg == IF p > Len(es) THEN log[i]
                 ELSE SubSeq(log[i], 1, prev - lastIncludeIndex[i] + p - 1) \o new
           last == lastIncludeIndex[i] + Len(lg)
           ci == IF m.leaderCommit > last THEN last ELSE m.leaderCommit
           r == [type |-> "AppendEntriesReply", from |-> i, to |-> m.from,
                 boot |-> m.boot, argTerm |-> m.term, prevLogIndex |-> prev,
                 sent |-> Len(es), term |-> currentTerm[i], success |-> TRUE,
                 conflictIndex |-> -1, conflictTerm |-> -1]
<1>0. m \in Message
  BY DEF TypeOK
<1>1. m \in AppendEntriesArgs /\ m.term \in Nat
  BY <1>0, MessageFields DEF AppendEntriesAccept, Receives, AppendEntriesArgs
<1>2. /\ i \in Server /\ m.from \in Server /\ m.boot \in Nat /\ prev \in Int
      /\ es \in Seq(Entry) /\ Len(es) \in Nat /\ currentTerm[i] \in Nat
      /\ m.leaderCommit \in Int /\ lastIncludeIndex[i] \in Int /\ log[i] \in Seq(Entry)
      /\ Len(log[i]) \in Nat
  BY <1>1, LenProperties, SMT DEF AppendEntriesArgs, TypeOK, TermTypeOK, LogTypeOK, Index
<1>3. p \in 1..(Len(es) + 1)
  BY <1>2, FirstNewType
<1>4. new \in Seq(Entry)
  <2> HIDE DEF p, es
  <2> QED BY <1>2, <1>3, SubSeqProperties, SMT
<1>5. lg \in Seq(Entry)
  <2>1. CASE p > Len(es)
    BY <1>2, <2>1
  <2>2. CASE ~ (p > Len(es))
    <3> DEFINE n == prev - lastIncludeIndex[i] + p - 1
    <3>1. n \in Int /\ n <= Len(log[i])
      <4>1. CASE p = 1
        BY <4>1, <1>2, SMT DEF AppendEntriesAccept, LastIndex
      <4>2. CASE p > 1
        <5>1. p - 1 \in 1..Len(es) /\ p - 1 < p
          BY <4>2, <1>2, <1>3, SMT
        <5>2. Holds(i, prev + (p - 1))
          BY <5>1, <1>2, FirstNewIsLeast
        <5> QED BY <5>2, <1>2, <1>3, SMT DEF Holds, LastIndex
      <4> QED BY <4>1, <4>2, <1>3, SMT
    <3>2. \A k \in 1..n : log[i][k] \in Entry
      BY <1>2, <3>1, ElementOfSeq, SMT
    <3>3. SubSeq(log[i], 1, n) \in Seq(Entry)
      <4> HIDE DEF n
      <4> QED BY <3>1, <3>2, SubSeqProperties, SMT
    <3> QED BY <2>2, <3>3, <1>4, ConcatProperties
  <2> QED BY <2>1, <2>2
<1>6. ci \in Int
  <2> HIDE DEF lg
  <2> QED BY <1>2, <1>5, LenProperties, SMT
<1>7. r \in Message
  BY <1>1, <1>2, SMT DEF Message, AppendEntriesReply
<1>8. BackOnAppend(m) \in BOOLEAN
  BY DEF BackOnAppend
<1>9. /\ Follow(m, BackOnAppend(m))
      /\ log' = [log EXCEPT ![i] = lg]
      /\ wal' = [wal EXCEPT ![i] = WriteEntries(FollowWal(m, BackOnAppend(m)), new)]
      /\ IF commitIndex[i] < ci THEN Commit(i, lg, ci, IisBack[i])
         ELSE UNCHANGED applyVars
      /\ ReplyAgain(m, r)
      /\ UNCHANGED <<lastIncludeIndex, lastIncludeTerm, peerVars, voteVars, bootVars>>
  BY DEF AppendEntriesAccept
<1> HIDE DEF r, ci, lg, new
<1>10. TermTypeOK' /\ FollowWal(m, BackOnAppend(m)) \in Wal
  BY <1>0, <1>1, <1>8, <1>9, FollowType
<1>11. msgs' \subseteq Message
  BY <1>7, <1>9, ReplyType
<1>12. wal' \in [Server -> Wal]
  BY <1>2, <1>4, <1>9, <1>10, WalTypes DEF TypeOK
<1>13. LogTypeOK'
  BY <1>2, <1>5, <1>9 DEF TypeOK, LogTypeOK
<1>14. ApplyTypeOK'
  <2>1. IisBack[i] \in BOOLEAN
    BY <1>2 DEF TypeOK, ApplyTypeOK
  <2> QED BY <1>2, <1>5, <1>6, <1>9, <2>1, CommitType, TypeUnchanged
<1> QED BY <1>9, <1>10, <1>11, <1>12, <1>13, <1>14, TypeUnchanged DEF TypeOK

\* A reply of the current term keeps the types.
LEMMA TypeReply ==
  ASSUME TypeOK, NEW m \in msgs,
         \/ AppendEntriesReplyAccept(m) \/ SnapshotInstallReplyAccept(m)
         \/ AppendEntriesReplyReject(m)
  PROVE  TypeOK'
<1> USE TypeUnchanged
<1>0. m \in Message /\ m.to \in Server /\ m.from \in Server
  BY MessageFields DEF TypeOK
<1>1. ASSUME NEW k \in Int, Matched(m, k) PROVE TypeOK'
  <2>1. PeerTypeOK'
    BY <1>0, <1>1, SMT DEF Matched, TypeOK, PeerTypeOK
  <2>2. ApplyTypeOK'
    <3>1. IisBack[m.to] \in BOOLEAN
      BY <1>0 DEF TypeOK, ApplyTypeOK
    <3>2. CASE state[m.to] = "leader"
      <4>1. UpdateCommitIndex(m.to, [matchIndex[m.to] EXCEPT ![m.from] = k], IisBack[m.to])
        BY <1>1, <3>2 DEF Matched
      <4> QED BY <1>0, <3>1, <4>1, UpdateCommitIndexType
    <3>3. CASE state[m.to] # "leader"
      BY <1>1, <3>3 DEF Matched
    <3> QED BY <3>2, <3>3
  <2>3. msgs' \subseteq Message
    BY <1>1 DEF Matched, TypeOK
  <2>4. UNCHANGED <<termVars, logVars, installs, voteVars, bootVars, wal>>
    BY <1>1 DEF Matched
  <2> QED BY <2>1, <2>2, <2>3, <2>4 DEF TypeOK
<1>2. CASE AppendEntriesReplyAccept(m)
  <2>1. m.prevLogIndex + m.sent \in Int
    BY <1>0, <1>2, MessageFields, SMT
       DEF AppendEntriesReplyAccept, CurrentReply, Receives, AppendEntriesReply
  <2> QED BY <1>1, <1>2, <2>1 DEF AppendEntriesReplyAccept
<1>3. CASE SnapshotInstallReplyAccept(m)
  <2>1. m.lastIncludeIndex \in Int
    BY <1>0, <1>3, MessageFields
       DEF SnapshotInstallReplyAccept, CurrentReply, Receives, SnapshotInstallReply
  <2> QED BY <1>1, <1>3, <2>1 DEF SnapshotInstallReplyAccept
<1>4. CASE AppendEntriesReplyReject(m)
  <2> DEFINE i == m.to
             prev == m.prevLogIndex
             next == IF Holds(i, prev) /\ EntryAt(i, prev).term = m.conflictTerm
                     THEN FirstOfTerm(i, prev, m.conflictTerm)
                     ELSE m.conflictIndex
  <2>1. prev \in Int /\ m.conflictIndex \in Int
    BY <1>0, <1>4, MessageFields
       DEF AppendEntriesReplyReject, CurrentReply, Receives, AppendEntriesReply
  <2>2. lastIncludeIndex[i] \in Int /\ lastIncludeIndex[i] >= -1
    BY <1>0, SMT DEF TypeOK, LogTypeOK, Index
  <2>3. next \in Int
    <3>1. CASE Holds(i, prev) /\ EntryAt(i, prev).term = m.conflictTerm
      <4>1. prev \in Nat
        BY <3>1, <2>1, <2>2, SMT DEF Holds
      <4>2. FirstOfTerm(i, prev, m.conflictTerm) \in 0..prev
        BY <4>1, <3>1, FirstOfTermType
      <4> QED BY <3>1, <4>1, <4>2, SMT
    <3> QED BY <3>1, <2>1
  <2>4. /\ nextIndex' = [nextIndex EXCEPT ![i][m.from] = IF next = 0 THEN 1 ELSE next]
        /\ msgs' = msgs \ {m}
        /\ UNCHANGED <<termVars, logVars, applyVars, matchIndex, installs, voteVars,
                       bootVars, wal>>
    BY <1>4 DEF AppendEntriesReplyReject
  <2> HIDE DEF next
  <2>5. PeerTypeOK'
    BY <1>0, <2>3, <2>4, SMT DEF TypeOK, PeerTypeOK
  <2> QED BY <2>4, <2>5 DEF TypeOK
<1> QED BY <1>2, <1>3, <1>4

\* A snapshot taken over from the leader keeps the types.
LEMMA TypeInstall ==
  ASSUME TypeOK, NEW m \in msgs, SnapshotInstall(m)
  PROVE  TypeOK'
<1> USE TypeUnchanged
<1> DEFINE i == m.to
           k == m.lastIncludeIndex
           back == m.term > currentTerm[i]
           w == FollowWal(m, back)
           new == k > lastIncludeIndex[i]
           r == [type |-> "SnapshotInstallReply", from |-> i, to |-> m.from,
                 boot |-> m.boot, argTerm |-> m.term, lastIncludeIndex |-> k,
                 term |-> currentTerm[i]]
<1>0. m \in Message
  BY DEF TypeOK
<1>1. m \in SnapshotInstallArgs
  BY <1>0, MessageFields DEF SnapshotInstall, Receives
<1>2. /\ i \in Server /\ m.from \in Server /\ m.boot \in Nat /\ m.term \in Nat
      /\ k \in Index /\ k \in Int /\ m.lastIncludeTerm \in Int /\ currentTerm[i] \in Nat
      /\ back \in BOOLEAN
  BY <1>1, SMT DEF SnapshotInstallArgs, TypeOK, TermTypeOK, Index
<1>3. /\ Follow(m, back)
      /\ wal' = [wal EXCEPT ![i] =
           IF new THEN Truncate(WriteSnapshot(w, k, m.lastIncludeTerm), k) ELSE w]
      /\ IF new
         THEN /\ lastIncludeIndex' = [lastIncludeIndex EXCEPT ![i] = k]
              /\ lastIncludeTerm' = [lastIncludeTerm EXCEPT ![i] = m.lastIncludeTerm]
              /\ log' = [log EXCEPT ![i] = <<>>]
              /\ lastApplied' = [lastApplied EXCEPT ![i] = AtLeast(@, k)]
              /\ commitIndex' = [commitIndex EXCEPT ![i] = AtLeast(@, k)]
              /\ UNCHANGED <<IisBack, applied>>
         ELSE UNCHANGED <<logVars, applyVars>>
      /\ ReplyAgain(m, r)
      /\ UNCHANGED <<peerVars, voteVars, bootVars>>
  BY DEF SnapshotInstall
<1>4. r \in Message
  BY <1>2 DEF Message, SnapshotInstallReply
<1> HIDE DEF r, w, new, back
<1>5. msgs' \subseteq Message
  BY <1>3, <1>4, ReplyType
<1>6. TermTypeOK' /\ w \in Wal
  BY <1>0, <1>2, <1>3, FollowType DEF w
<1>7. wal' \in [Server -> Wal]
  BY <1>2, <1>3, <1>6, WalTypes DEF TypeOK
<1>8. LogTypeOK'
  <2>1. CASE new
    <3>1. <<>> \in Seq(Entry)
      BY EmptySeq
    <3> QED BY <1>2, <1>3, <2>1, <3>1 DEF TypeOK, LogTypeOK
  <2> QED BY <1>3, <2>1
<1>9. ApplyTypeOK'
  <2>1. CASE new
    BY <1>2, <1>3, <2>1 DEF AtLeast, TypeOK, ApplyTypeOK
  <2> QED BY <1>3, <2>1
<1> QED BY <1>3, <1>5, <1>6, <1>7, <1>8, <1>9 DEF TypeOK

\* Init has the types.
LEMMA TypeInit == Init => TypeOK
<1> SUFFICES ASSUME Init PROVE TypeOK
  OBVIOUS
<1>1. <<>> \in Seq(Entry)
  BY EmptySeq
<1>2. EmptyWal \in Wal
  BY <1>1, SMT DEF EmptyWal, Wal, Node, Index
<1>3. TermTypeOK /\ VoteTypeOK /\ BootTypeOK
  BY DEF Init, TermTypeOK, VoteTypeOK, BootTypeOK, State, Node
<1>4. LogTypeOK /\ ApplyTypeOK /\ PeerTypeOK
  BY <1>1, SMT DEF Init, LogTypeOK, ApplyTypeOK, PeerTypeOK, Index
<1> QED BY <1>2, <1>3, <1>4 DEF Init, TypeOK

\* Every step keeps the types.
LEMMA TypeNext ==
  ASSUME TypeOK, [Next]_vars
  PROVE  TypeOK'
<1>1. ASSUME NEW i \in Server, NodeStep(i) PROVE TypeOK'
  BY <1>1, TypeElection, TypeLeader, TypeSnapshot, TypeRestart DEF NodeStep
<1>2. ASSUME NEW m \in msgs, MessageStep(m) PROVE TypeOK'
  BY <1>2, TypeVotes, TypeStale, TypeConflict, TypeAccept, TypeReply, TypeInstall
     DEF MessageStep
<1>3. CASE UNCHANGED vars
  BY <1>3, TypeUnchanged DEF vars, TypeOK
<1> QED BY <1>1, <1>2, <1>3 DEF Next

\* Type correctness: in every run of the consensus module, for every cluster
\* and every bound, all state and all messages have their types.
THEOREM TypeCorrect == Spec => []TypeOK
BY TypeInit, TypeNext, PTL DEF Spec

=============================================================================
