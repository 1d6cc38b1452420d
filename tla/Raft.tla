-------------------------------- MODULE Raft --------------------------------
(***************************************************************************)
(* The consensus module src/raft/raft.go: elections, log replication,      *)
(* snapshots and recovery from the write-ahead log.                        *)
(*                                                                         *)
(* Every handler of the code runs under rf.mu and is one atomic action; an *)
(* unlock in the middle of a function (vote collection, the no-op of a new *)
(* leader, the wait for an RPC) ends one action and starts another.        *)
(* Indices are the code's: the first entry has index 0, lastIncludeIndex   *)
(* is -1 while there is no snapshot, and the entry with index k is         *)
(* log[k - lastIncludeIndex] (index2LogPos, shifted to sequences from 1).  *)
(***************************************************************************)
EXTENDS Integers, Sequences, FiniteSets, FiniteSetsExt

CONSTANTS Server,       \* the endpoints of the cluster
          Value,        \* the commands clients hand to Start
          None,         \* the -1 of votedFor and leaderId
          NoOp,         \* the EmptyT operation of a new leader
          MaxTimeouts,  \* bound: election timeouts in a behaviour
          MaxLog,       \* bound: clients start no command past this many entries
          MaxRestarts,  \* bound: crashes and restarts in a behaviour
          MaxInFlight,  \* bound: requests and replies on the wire
          SnapshotAt    \* the indices at which kvraft asks for a snapshot

ASSUME ServerAssumption == IsFiniteSet(Server) /\ None \notin Server
ASSUME BoundAssumption == /\ MaxTimeouts \in Nat /\ MaxLog \in Nat
                          /\ MaxRestarts \in Nat /\ MaxInFlight \in Nat
                          /\ SnapshotAt \subseteq Nat

VARIABLES
  currentTerm, votedFor, state, leaderId,
  log, lastIncludeIndex, lastIncludeTerm,
  commitIndex, lastApplied, IisBack,
  nextIndex, matchIndex,
  loop,       \* where electionLoop is: "idle", "voting" or "noop"
  voteTerm,   \* locals of electionLoop: args.Term, the peers whose votes
  votes,      \* voteCount counts, and maxTerm
  maxTerm,
  installs,   \* peers with a sendInstallSnapshotToPeerId goroutine not yet run
  wal,        \* what loadFromWAL would rebuild from the WAL directory
  up,         \* FALSE: Make never returned after a restart
  boot,       \* number of restarts of each node
  msgs,       \* RPCs on the wire
  timeouts,   \* number of election timeouts so far
  applied,    \* every <<index, entry>> some node sent to applyChTerm
  walLost     \* nodes that restarted after their WAL file was unlinked

termVars  == <<currentTerm, votedFor, state, leaderId>>
logVars   == <<log, lastIncludeIndex, lastIncludeTerm>>
applyVars == <<commitIndex, lastApplied, IisBack, applied>>
peerVars  == <<nextIndex, matchIndex, installs>>
voteVars  == <<loop, voteTerm, votes, maxTerm>>
bootVars  == <<up, boot, walLost, timeouts>>
vars == <<termVars, logVars, applyVars, peerVars, voteVars, bootVars, wal, msgs>>

-----------------------------------------------------------------------------
(* Values. *)

State == {"follower", "candidate", "leader"}
Command == Value \cup {NoOp}
Entry == [term : Nat, val : Command]
Node == Server \cup {None}
Index == Nat \cup {-1}

Wal == [linked : BOOLEAN, term : Nat, votedFor : Node, log : Seq(Entry),
        lastIncludeIndex : Index, lastIncludeTerm : Int]

RequestVoteArgs == [type : {"RequestVote"}, from : Server, to : Server, boot : Nat,
                    term : Nat, lastLogIndex : Int, lastLogTerm : Int]
RequestVoteReply == [type : {"RequestVoteReply"}, from : Server, to : Server,
                     boot : Nat, argTerm : Nat, term : Nat, granted : BOOLEAN]
AppendEntriesArgs == [type : {"AppendEntries"}, from : Server, to : Server,
                      boot : Nat, term : Nat, prevLogIndex : Int,
                      prevLogTerm : Int, entries : Seq(Entry), leaderCommit : Int]
AppendEntriesReply == [type : {"AppendEntriesReply"}, from : Server, to : Server,
                       boot : Nat, argTerm : Nat, prevLogIndex : Int, sent : Nat,
                       term : Nat, success : BOOLEAN, conflictIndex : Int,
                       conflictTerm : Int]
SnapshotInstallArgs == [type : {"SnapshotInstall"}, from : Server, to : Server,
                        boot : Nat, term : Nat, lastIncludeIndex : Index,
                        lastIncludeTerm : Int]
SnapshotInstallReply == [type : {"SnapshotInstallReply"}, from : Server, to : Server,
                         boot : Nat, argTerm : Nat, lastIncludeIndex : Int,
                         term : Nat]
Message == RequestVoteArgs \cup RequestVoteReply \cup AppendEntriesArgs
             \cup AppendEntriesReply \cup SnapshotInstallArgs
             \cup SnapshotInstallReply

-----------------------------------------------------------------------------
(* The write-ahead log, as the state that replaying its records gives.     *)
(* A record written after Truncate has unlinked the only segment goes to   *)
(* an unlinked file, and a restart finds an empty directory.               *)

EmptyWal == [linked |-> TRUE, term |-> 0, votedFor |-> None, log |-> <<>>,
             lastIncludeIndex |-> -1, lastIncludeTerm |-> -1]

\* Mutants of WriteState: one field of the record is left out
WriteTermOnly(w, t, v) == IF w.linked THEN [w EXCEPT !.term = t] ELSE w
WriteVoteOnly(w, t, v) == IF w.linked THEN [w EXCEPT !.votedFor = v] ELSE w

\* persistState
WriteState(w, t, v) ==
  IF w.linked THEN [w EXCEPT !.term = t, !.votedFor = v] ELSE w

\* persistEntry, for each entry of es: replay appends, a truncation of
\* the log in memory leaves no record
WriteEntries(w, es) ==
  IF w.linked THEN [w EXCEPT !.log = @ \o es] ELSE w

\* a snapshot record: replay makes it the new baseline and clears the log
WriteSnapshot(w, k, t) ==
  IF w.linked
  THEN [w EXCEPT !.lastIncludeIndex = k, !.lastIncludeTerm = t, !.log = <<>>]
  ELSE w

\* wal.Truncate removes every segment whose sequence number is at most k;
\* the segment is never rotated, so its number is 1
Truncate(w, k) == IF k >= 1 THEN [EmptyWal EXCEPT !.linked = FALSE] ELSE w

-----------------------------------------------------------------------------
(* The log. *)

LastIndex(i) == lastIncludeIndex[i] + Len(log[i])

LastTerm(i) ==
  IF log[i] = <<>> THEN lastIncludeTerm[i] ELSE log[i][Len(log[i])].term

EntryAt(i, k) == log[i][k - lastIncludeIndex[i]]

Holds(i, k) == k > lastIncludeIndex[i] /\ k <= LastIndex(i)

\* First index of the run of entries of term t that ends at k
FirstOfTerm(i, k, t) ==
  Min({f \in 0..k : \A x \in f..k : Holds(i, x) /\ EntryAt(i, x).term = t})

\* Mutants of FirstNew: only missing entries are new; nothing is
FirstMissing(i, prev, es) ==
  Min({p \in 1..Len(es) : ~ Holds(i, prev + p)} \cup {Len(es) + 1})

\* Position of the first of the entries es, sent after index prev, that the
\* log of i lacks or holds with another term; Len(es) + 1 if there is none
FirstNew(i, prev, es) ==
  Min({p \in 1..Len(es) : ~ (/\ Holds(i, prev + p)
                             /\ EntryAt(i, prev + p).term = es[p].term)}
        \cup {Len(es) + 1})

-----------------------------------------------------------------------------
(* Messages. A request or a reply may be lost, at once or later.            *)
(* AppendEntries and SnapshotInstall are sent again on every heartbeat with *)
(* the same arguments, so a request may be handled more than once.          *)

Send(S) ==
  \E T \in SUBSET S : /\ Cardinality(msgs \cup T) <= MaxInFlight
                      /\ msgs' = msgs \cup T

Reply(m, r) == msgs' = (msgs \ {m}) \cup {r}

ReplyAgain(m, r) == Reply(m, r) \/ Send({r})

\* A reply reaches the process that made the call, not its successor
Receives(m, type) ==
  /\ m.type = type
  /\ up[m.to]
  /\ type \in {"RequestVoteReply", "AppendEntriesReply", "SnapshotInstallReply"}
       => m.boot = boot[m.to]

-----------------------------------------------------------------------------
(* Applying and committing. *)

\* undateLastApplied with log lg above lii and commit index ci: sends every
\* entry up to ci, and falls back to lii if it leaves the log; back is the
\* value of IisBack before, IisBackIndex is never assigned and stays 0
UndateLastApplied(i, lg, lii, ci, back) ==
  LET last == lii + Len(lg)
      sent == IF lastApplied[i] < lii THEN {}
              ELSE {k \in (lastApplied[i] + 1)..ci : k <= last}
  IN  /\ applied' = applied \cup {<<k, lg[k - lii]>> : k \in sent}
      /\ IisBack' = [IisBack EXCEPT ![i] = back \/ 0 \in sent]
      /\ lastApplied' = [lastApplied EXCEPT ![i] =
           IF @ >= ci THEN @ ELSE IF @ < lii \/ ci > last THEN lii ELSE ci]


Commit(i, lg, ci, back) ==
  /\ commitIndex' = [commitIndex EXCEPT ![i] = ci]
  /\ UndateLastApplied(i, lg, lastIncludeIndex[i], ci, back)

\* Mutant of AgreedIndex: entry len/2 + 1 of the sorted list
AgreedByFewer(i, match) ==
  LET n == Cardinality(Server)
      reach(k) == {p \in Server : (IF p = i THEN LastIndex(i) ELSE match[p]) >= k}
  IN  Max({-1} \cup {k \in 0..LastIndex(i) :
                       Cardinality(reach(k)) >= n - (n \div 2) - 1})

\* Entry len/2 of the sorted list of the peers' match indices and the last
\* index of i itself: the largest index that n - len/2 of them reach
AgreedIndex(i, match) ==
  LET n == Cardinality(Server)
      reach(k) == {p \in Server : (IF p = i THEN LastIndex(i) ELSE match[p]) >= k}
  IN  Max({-1} \cup {k \in 0..LastIndex(i) :
                       Cardinality(reach(k)) >= n - (n \div 2)})

\* updateCommitIndex of a leader
UpdateCommitIndex(i, match, back) ==
  LET N == AgreedIndex(i, match)
  IN  IF /\ N > commitIndex[i]
         /\ Holds(i, N) => EntryAt(i, N).term = currentTerm[i]
      THEN Commit(i, log[i], N, back)
      ELSE /\ IisBack' = [IisBack EXCEPT ![i] = back]
           /\ UNCHANGED <<commitIndex, lastApplied, applied>>

-----------------------------------------------------------------------------
(* Elections. *)

\* One turn of electionLoop whose timer has run out
Timeout(i) ==
  /\ up[i] /\ loop[i] = "idle"
  /\ state[i] \in {"follower", "candidate"}
  /\ timeouts < MaxTimeouts /\ timeouts' = timeouts + 1
  /\ LET t == currentTerm[i] + 1 IN
     /\ currentTerm' = [currentTerm EXCEPT ![i] = t]
     /\ votedFor' = [votedFor EXCEPT ![i] = i]
     /\ wal' = [wal EXCEPT ![i] = WriteState(@, t, i)]
     /\ voteTerm' = [voteTerm EXCEPT ![i] = t]
     /\ Send({[type |-> "RequestVote", from |-> i, to |-> j, boot |-> boot[i],
               term |-> t, lastLogIndex |-> LastIndex(i),
               lastLogTerm |-> LastTerm(i)] : j \in Server \ {i}})
  /\ state' = [state EXCEPT ![i] = "candidate"]
  /\ leaderId' = [leaderId EXCEPT ![i] = None]
  /\ loop' = [loop EXCEPT ![i] = "voting"]
  /\ votes' = [votes EXCEPT ![i] = {i}]
  /\ maxTerm' = [maxTerm EXCEPT ![i] = 0]
  /\ UNCHANGED <<logVars, applyVars, peerVars, up, boot, walLost>>

\* Mutants of UpToDate: no check; the index without the term
AnyLogWillDo(m, i) == TRUE
LongerLogWillDo(m, i) == m.lastLogIndex >= LastIndex(i)

UpToDate(m, i) ==
  \/ m.lastLogTerm > LastTerm(i)
  \/ m.lastLogTerm = LastTerm(i) /\ m.lastLogIndex >= LastIndex(i)

RequestVote(m) ==
  LET i     == m.to
      newer == m.term > currentTerm[i]
      free  == newer \/ votedFor[i] \in {None, m.from}
      grant == m.term >= currentTerm[i] /\ free /\ UpToDate(m, i)
      term  == IF newer THEN m.term ELSE currentTerm[i]
      vote  == IF grant THEN m.from ELSE IF newer THEN None ELSE votedFor[i]
  IN  /\ Receives(m, "RequestVote")
      /\ currentTerm' = [currentTerm EXCEPT ![i] = term]
      /\ votedFor' = [votedFor EXCEPT ![i] = vote]
      /\ state' = [state EXCEPT ![i] = IF newer THEN "follower" ELSE @]
      /\ leaderId' = [leaderId EXCEPT ![i] = IF newer THEN None ELSE @]
      /\ wal' = [wal EXCEPT ![i] = IF newer \/ grant THEN WriteState(@, term, vote)
                                   ELSE @]
      /\ Reply(m, [type |-> "RequestVoteReply", from |-> i, to |-> m.from,
                   boot |-> m.boot, argTerm |-> m.term, term |-> currentTerm[i],
                   granted |-> grant])
      /\ UNCHANGED <<logVars, applyVars, peerVars, voteVars, bootVars>>

\* Mutant of IsMajority: >= for >
IsHalf(S) == Cardinality(S) >= Cardinality(Server) \div 2

IsMajority(S) == Cardinality(S) > Cardinality(Server) \div 2

\* A result taken from VoteResultChan; the loop stops at a majority, and
\* results of an earlier call go to a channel nobody reads
VoteResult(m) ==
  LET i == m.to IN
  /\ Receives(m, "RequestVoteReply")
  /\ loop[i] = "voting" /\ voteTerm[i] = m.argTerm
  /\ ~ IsMajority(votes[i])
  /\ votes' = [votes EXCEPT ![i] = IF m.granted THEN @ \cup {m.from} ELSE @]
  /\ maxTerm' = [maxTerm EXCEPT ![i] = IF m.term > @ THEN m.term ELSE @]
  /\ msgs' = msgs \ {m}
  /\ UNCHANGED <<termVars, logVars, applyVars, peerVars, loop, voteTerm,
                 bootVars, wal>>

\* The locals of the vote go out of scope
EndVote(i, next) ==
  /\ loop' = [loop EXCEPT ![i] = next]
  /\ voteTerm' = [voteTerm EXCEPT ![i] = 0]
  /\ votes' = [votes EXCEPT ![i] = {}]
  /\ maxTerm' = [maxTerm EXCEPT ![i] = 0]

\* The vote ends with a majority, with the last result or by time-out.
\* electionLoop takes rf.mu again and looks first at its state, then at the
\* highest term among the replies, and only then at the number of votes
ElectionLost(i) ==
  /\ up[i] /\ loop[i] = "voting"
  /\ state[i] = "candidate" => /\ maxTerm[i] <= currentTerm[i]
                               /\ ~ IsMajority(votes[i])
  /\ EndVote(i, "idle")
  /\ UNCHANGED <<termVars, logVars, applyVars, peerVars, bootVars, wal, msgs>>

ElectionBehind(i) ==
  /\ up[i] /\ loop[i] = "voting"
  /\ state[i] = "candidate"
  /\ maxTerm[i] > currentTerm[i]
  /\ state' = [state EXCEPT ![i] = "follower"]
  /\ leaderId' = [leaderId EXCEPT ![i] = None]
  /\ currentTerm' = [currentTerm EXCEPT ![i] = maxTerm[i]]
  /\ votedFor' = [votedFor EXCEPT ![i] = None]
  /\ wal' = [wal EXCEPT ![i] = WriteState(@, maxTerm[i], None)]
  /\ EndVote(i, "idle")
  /\ UNCHANGED <<logVars, applyVars, peerVars, bootVars, msgs>>

BecomeLeader(i) ==
  /\ up[i] /\ loop[i] = "voting"
  /\ state[i] = "candidate"
  /\ maxTerm[i] <= currentTerm[i]
  /\ IsMajority(votes[i])
  /\ state' = [state EXCEPT ![i] = "leader"]
  /\ leaderId' = [leaderId EXCEPT ![i] = i]
  /\ nextIndex' = [nextIndex EXCEPT ![i] = [j \in Server |-> LastIndex(i) + 1]]
  /\ matchIndex' = [matchIndex EXCEPT ![i] = [j \in Server |-> -1]]
  /\ UpdateCommitIndex(i, [j \in Server |-> -1], FALSE)
  /\ EndVote(i, "noop")
  /\ UNCHANGED <<currentTerm, votedFor, logVars, installs, bootVars, wal, msgs>>

-----------------------------------------------------------------------------
(* Replication. *)

AppendToLog(i, v) ==
  LET entry == [term |-> currentTerm[i], val |-> v]
  IN  /\ log' = [log EXCEPT ![i] = Append(@, entry)]
      /\ wal' = [wal EXCEPT ![i] = WriteEntries(@, <<entry>>)]

\* A client command handed to Start
Start(i, v) ==
  /\ up[i] /\ state[i] = "leader"
  /\ LastIndex(i) + 1 < MaxLog
  /\ AppendToLog(i, v)
  /\ UNCHANGED <<termVars, lastIncludeIndex, lastIncludeTerm, applyVars, peerVars,
                 voteVars, bootVars, msgs>>

\* The no-op of a new leader, for which electionLoop has given up rf.mu
StartNoOp(i) ==
  /\ up[i] /\ loop[i] = "noop"
  /\ IF state[i] = "leader" THEN AppendToLog(i, NoOp) ELSE UNCHANGED <<log, wal>>
  /\ loop' = [loop EXCEPT ![i] = "idle"]
  /\ UNCHANGED <<termVars, lastIncludeIndex, lastIncludeTerm, applyVars, peerVars,
                 voteTerm, votes, maxTerm, bootVars, msgs>>

\* The call that SendAppendEntriesToAll starts for a peer. It runs any time
\* later, so the log may have been compacted past nextIndex in between: it
\* then sends no entry and no previous term, only the commit index
SendAppendEntriesToPeerId(i, j) ==
  LET prev == nextIndex[i][j] - 1
      kept == prev >= lastIncludeIndex[i]
  IN  /\ up[i] /\ state[i] = "leader" /\ i # j
      /\ prev <= LastIndex(i)   \* the slice expression panics otherwise
      /\ Send({[type |-> "AppendEntries", from |-> i, to |-> j, boot |-> boot[i],
                term |-> currentTerm[i], prevLogIndex |-> prev,
                prevLogTerm |-> IF ~ kept THEN 0
                                ELSE IF prev = lastIncludeIndex[i]
                                     THEN lastIncludeTerm[i]
                                     ELSE EntryAt(i, prev).term,
                entries |-> IF kept
                            THEN SubSeq(log[i], prev - lastIncludeIndex[i] + 1,
                                        Len(log[i]))
                            ELSE <<>>,
                leaderCommit |-> commitIndex[i]]})
      /\ UNCHANGED <<termVars, logVars, applyVars, peerVars, voteVars, bootVars, wal>>

\* A request of an older term is answered with the current one, and nothing else
RejectStale(m) ==
  LET i == m.to IN
  /\ m.term < currentTerm[i]
  /\ \/ /\ Receives(m, "AppendEntries")
        /\ Reply(m, [type |-> "AppendEntriesReply", from |-> i, to |-> m.from,
                     boot |-> m.boot, argTerm |-> m.term,
                     prevLogIndex |-> m.prevLogIndex, sent |-> Len(m.entries),
                     term |-> currentTerm[i], success |-> FALSE,
                     conflictIndex |-> -1, conflictTerm |-> -1])
     \/ /\ Receives(m, "SnapshotInstall")
        /\ Reply(m, [type |-> "SnapshotInstallReply", from |-> i, to |-> m.from,
                     boot |-> m.boot, argTerm |-> m.term,
                     lastIncludeIndex |-> m.lastIncludeIndex,
                     term |-> currentTerm[i]])
  /\ UNCHANGED <<termVars, logVars, applyVars, peerVars, voteVars, bootVars, wal>>

\* Mutants of Follow: the state is not reset; the vote takes the term
FollowInOldState(m, back) ==
  LET i == m.to IN
  /\ currentTerm' = [currentTerm EXCEPT ![i] = m.term]
  /\ votedFor' = [votedFor EXCEPT ![i] = IF back THEN None ELSE @]
  /\ leaderId' = [leaderId EXCEPT ![i] = m.from]
  /\ UNCHANGED state
FollowSwapped(m, back) ==
  LET i == m.to IN
  /\ currentTerm' = [currentTerm EXCEPT ![i] = m.term]
  /\ votedFor' = [votedFor EXCEPT ![i] = IF back THEN m.term ELSE @]
  /\ state' = [state EXCEPT ![i] = IF back THEN "follower" ELSE @]
  /\ leaderId' = [leaderId EXCEPT ![i] = m.from]

\* Term, vote and state of a node that accepts m.from as leader; back tells
\* whether it returns to follower, which it writes to the WAL
Follow(m, back) ==
  LET i == m.to IN
  /\ currentTerm' = [currentTerm EXCEPT ![i] = m.term]
  /\ votedFor' = [votedFor EXCEPT ![i] = IF back THEN None ELSE @]
  /\ state' = [state EXCEPT ![i] = IF back THEN "follower" ELSE @]
  /\ leaderId' = [leaderId EXCEPT ![i] = m.from]

\* Mutant of FollowWal: persistState is forgotten
FollowUnwritten(m, back) == wal[m.to]

FollowWal(m, back) ==
  IF back THEN WriteState(wal[m.to], m.term, None) ELSE wal[m.to]

BackOnAppend(m) == m.term > currentTerm[m.to] \/ state[m.to] = "candidate"

\* Mutant of Clash: the previous term is not compared
ClashNever(m) == FALSE

\* The entry before the sent ones has another term
Clash(m) == /\ Holds(m.to, m.prevLogIndex)
            /\ EntryAt(m.to, m.prevLogIndex).term # m.prevLogTerm

AppendEntriesConflict(m) ==
  LET i == m.to
      prev == m.prevLogIndex
      below == prev < lastIncludeIndex[i]
      conflictTerm == IF Clash(m) THEN EntryAt(i, prev).term ELSE -1
  IN  /\ Receives(m, "AppendEntries") /\ m.term >= currentTerm[i]
      /\ below \/ prev > LastIndex(i) \/ Clash(m)
      /\ Follow(m, BackOnAppend(m))
      /\ wal' = [wal EXCEPT ![i] = FollowWal(m, BackOnAppend(m))]
      /\ ReplyAgain(m, [type |-> "AppendEntriesReply", from |-> i, to |-> m.from,
                        boot |-> m.boot, argTerm |-> m.term, prevLogIndex |-> prev,
                        sent |-> Len(m.entries), term |-> currentTerm[i],
                        success |-> FALSE,
                        conflictIndex |-> IF below THEN lastIncludeIndex[i] + 1
                                          ELSE IF Clash(m)
                                               THEN FirstOfTerm(i, prev, conflictTerm)
                                               ELSE LastIndex(i) + 1,
                        conflictTerm |-> conflictTerm])
      /\ UNCHANGED <<logVars, applyVars, peerVars, voteVars, bootVars>>

\* CopyEntries: keeps the log up to the first entry it lacks or holds with
\* another term, appends the rest, then follows the commit index of the leader
AppendEntriesAccept(m) ==
  LET i == m.to
      prev == m.prevLogIndex
      es == m.entries
      p == FirstNew(i, prev, es)
      new == SubSeq(es, p, Len(es))
      lg == IF p > Len(es) THEN log[i]
            ELSE SubSeq(log[i], 1, prev - lastIncludeIndex[i] + p - 1) \o new
      last == lastIncludeIndex[i] + Len(lg)
      ci == IF m.leaderCommit > last THEN last ELSE m.leaderCommit
  IN  /\ Receives(m, "AppendEntries") /\ m.term >= currentTerm[i]
      /\ prev >= lastIncludeIndex[i] /\ prev <= LastIndex(i) /\ ~ Clash(m)
      /\ Follow(m, BackOnAppend(m))
      /\ log' = [log EXCEPT ![i] = lg]
      /\ wal' = [wal EXCEPT ![i] = WriteEntries(FollowWal(m, BackOnAppend(m)), new)]
      /\ IF commitIndex[i] < ci THEN Commit(i, lg, ci, IisBack[i])
         ELSE UNCHANGED applyVars
      /\ ReplyAgain(m, [type |-> "AppendEntriesReply", from |-> i, to |-> m.from,
                        boot |-> m.boot, argTerm |-> m.term, prevLogIndex |-> prev,
                        sent |-> Len(es), term |-> currentTerm[i], success |-> TRUE,
                        conflictIndex |-> -1, conflictTerm |-> -1])
      /\ UNCHANGED <<lastIncludeIndex, lastIncludeTerm, peerVars, voteVars, bootVars>>

\* Replies to a call of an earlier term have no effect: see Lose
CurrentReply(m, type) == Receives(m, type) /\ m.argTerm = currentTerm[m.to]

\* A reply with a higher term deposes the caller
ReplyNewerTerm(m) ==
  LET i == m.to IN
  /\ CurrentReply(m, "AppendEntriesReply") \/ CurrentReply(m, "SnapshotInstallReply")
  /\ m.term > currentTerm[i]
  /\ votedFor' = [votedFor EXCEPT ![i] = None]
  /\ state' = [state EXCEPT ![i] = "follower"]
  /\ currentTerm' = [currentTerm EXCEPT ![i] = m.term]
  /\ leaderId' = [leaderId EXCEPT ![i] = None]
  /\ wal' = [wal EXCEPT ![i] = WriteState(@, m.term, None)]
  /\ msgs' = msgs \ {m}
  /\ UNCHANGED <<logVars, applyVars, peerVars, voteVars, bootVars>>

\* Mutant of Matched: nextIndex one too far
MatchedPast(m, k) ==
  LET i == m.to IN
  /\ nextIndex' = [nextIndex EXCEPT ![i][m.from] = k + 2]
  /\ matchIndex' = [matchIndex EXCEPT ![i][m.from] = k]
  /\ IF state[i] = "leader"
     THEN UpdateCommitIndex(i, [matchIndex[i] EXCEPT ![m.from] = k], IisBack[i])
     ELSE UNCHANGED applyVars
  /\ msgs' = msgs \ {m}
  /\ UNCHANGED <<termVars, logVars, installs, voteVars, bootVars, wal>>

\* The peer holds everything up to index k
Matched(m, k) ==
  LET i == m.to IN
  /\ nextIndex' = [nextIndex EXCEPT ![i][m.from] = k + 1]
  /\ matchIndex' = [matchIndex EXCEPT ![i][m.from] = k]
  /\ IF state[i] = "leader"
     THEN UpdateCommitIndex(i, [matchIndex[i] EXCEPT ![m.from] = k], IisBack[i])
     ELSE UNCHANGED applyVars
  /\ msgs' = msgs \ {m}
  /\ UNCHANGED <<termVars, logVars, installs, voteVars, bootVars, wal>>

AppendEntriesReplyAccept(m) ==
  /\ CurrentReply(m, "AppendEntriesReply")
  /\ m.term <= currentTerm[m.to]
  /\ m.success
  /\ Matched(m, m.prevLogIndex + m.sent)

\* nextIndex moves to the leader's own run of the conflicting term, or to
\* where the follower's run begins, but never to the first entry of the log
AppendEntriesReplyReject(m) ==
  LET i == m.to
      prev == m.prevLogIndex
      next == IF Holds(i, prev) /\ EntryAt(i, prev).term = m.conflictTerm
              THEN FirstOfTerm(i, prev, m.conflictTerm)
              ELSE m.conflictIndex
  IN  /\ CurrentReply(m, "AppendEntriesReply")
      /\ m.term <= currentTerm[i]
      /\ ~ m.success
      /\ nextIndex' = [nextIndex EXCEPT ![i][m.from] = IF next = 0 THEN 1 ELSE next]
      /\ msgs' = msgs \ {m}
      /\ UNCHANGED <<termVars, logVars, applyVars, matchIndex, installs, voteVars,
                     bootVars, wal>>

-----------------------------------------------------------------------------
(* Snapshots. *)

\* kvraft has a snapshot of the state machine up to an index it has applied.
\* checkifNeedSnapshot measures the WAL, whose size is 0 once it is unlinked
Snapshot(i, index) ==
  LET term == EntryAt(i, index).term IN
  /\ up[i] /\ wal[i].linked
  /\ index <= lastApplied[i] /\ Holds(i, index)
  /\ wal' = [wal EXCEPT ![i] = Truncate(WriteSnapshot(@, index, term), index)]
  /\ log' = [log EXCEPT ![i] =
               SubSeq(@, index - lastIncludeIndex[i] + 1, Len(@))]
  /\ lastIncludeIndex' = [lastIncludeIndex EXCEPT ![i] = index]
  /\ lastIncludeTerm' = [lastIncludeTerm EXCEPT ![i] = term]
  /\ UNCHANGED <<termVars, applyVars, peerVars, voteVars, bootVars, msgs>>

\* A heartbeat starts a call of sendInstallSnapshotToPeerId for every peer
\* whose next entry is compacted; the other peers get SendAppendEntriesToPeerId
SendAppendEntriesToAll(i) ==
  LET behind == {j \in Server \ {i} : nextIndex[i][j] <= lastIncludeIndex[i]} IN
  /\ up[i] /\ state[i] = "leader"
  /\ ~ behind \subseteq installs[i]
  /\ installs' = [installs EXCEPT ![i] = @ \cup behind]
  /\ UNCHANGED <<termVars, logVars, applyVars, nextIndex, matchIndex, voteVars,
                 bootVars, wal, msgs>>

SendInstallSnapshotToPeerId(i, j) ==
  /\ up[i] /\ j \in installs[i]
  /\ installs' = [installs EXCEPT ![i] = @ \ {j}]
  /\ IF state[i] = "leader"
     THEN Send({[type |-> "SnapshotInstall", from |-> i, to |-> j, boot |-> boot[i],
                 term |-> currentTerm[i], lastIncludeIndex |-> lastIncludeIndex[i],
                 lastIncludeTerm |-> lastIncludeTerm[i]]})
     ELSE UNCHANGED msgs
  /\ UNCHANGED <<termVars, logVars, applyVars, nextIndex, matchIndex, voteVars,
                 bootVars, wal>>

\* Mutant of AtLeast: the index is not raised
NotRaised(x, y) == x

AtLeast(x, y) == IF x < y THEN y ELSE x

\* Unless it has a newer snapshot, a follower drops its whole log for this one
SnapshotInstall(m) ==
  LET i == m.to
      k == m.lastIncludeIndex
      back == m.term > currentTerm[i]
      w == FollowWal(m, back)
      new == k > lastIncludeIndex[i]
  IN  /\ Receives(m, "SnapshotInstall") /\ m.term >= currentTerm[i]
      /\ Follow(m, back)
      /\ wal' = [wal EXCEPT ![i] =
           IF new THEN Truncate(WriteSnapshot(w, k, m.lastIncludeTerm), k) ELSE w]
      /\ IF new
         THEN /\ lastIncludeIndex' = [lastIncludeIndex EXCEPT ![i] = k]
              /\ lastIncludeTerm' = [lastIncludeTerm EXCEPT ![i] = m.lastIncludeTerm]
              /\ log' = [log EXCEPT ![i] = <<>>]
              /\ lastApplied' = [lastApplied EXCEPT ![i] = AtLeast(@, k)]
              /\ commitIndex' = [commitIndex EXCEPT ![i] = AtLeast(@, k)]
              /\ UNCHANGED <<IisBack, applied>>
         ELSE UNCHANGED <<logVars, applyVars>>
      /\ ReplyAgain(m, [type |-> "SnapshotInstallReply", from |-> i, to |-> m.from,
                        boot |-> m.boot, argTerm |-> m.term, lastIncludeIndex |-> k,
                        term |-> currentTerm[i]])
      /\ UNCHANGED <<peerVars, voteVars, bootVars>>

SnapshotInstallReplyAccept(m) ==
  /\ CurrentReply(m, "SnapshotInstallReply")
  /\ m.term <= currentTerm[m.to]
  /\ Matched(m, m.lastIncludeIndex)

-----------------------------------------------------------------------------
(* Crash, restart and the network. *)

\* The process dies and Make starts it again on the same directory.
\* loadFromWAL sends a snapshot it finds on applyCh, which is not set until
\* it has returned: the send on the nil channel never ends
Restart(i) ==
  LET w == wal[i] IN
  /\ up[i]
  /\ MapThenSumSet(LAMBDA j : boot[j], Server) < MaxRestarts
  /\ currentTerm' = [currentTerm EXCEPT ![i] = w.term]
  /\ votedFor' = [votedFor EXCEPT ![i] = w.votedFor]
  /\ state' = [state EXCEPT ![i] = "follower"]
  /\ leaderId' = [leaderId EXCEPT ![i] = None]
  /\ log' = [log EXCEPT ![i] = w.log]
  /\ lastIncludeIndex' = [lastIncludeIndex EXCEPT ![i] = w.lastIncludeIndex]
  /\ lastIncludeTerm' = [lastIncludeTerm EXCEPT ![i] = w.lastIncludeTerm]
  /\ commitIndex' = [commitIndex EXCEPT ![i] = w.lastIncludeIndex]
  /\ lastApplied' = [lastApplied EXCEPT ![i] = w.lastIncludeIndex]
  /\ IisBack' = [IisBack EXCEPT ![i] = FALSE]
  /\ nextIndex' = [nextIndex EXCEPT ![i] = [j \in Server |-> 0]]
  /\ matchIndex' = [matchIndex EXCEPT ![i] = [j \in Server |-> 0]]
  /\ installs' = [installs EXCEPT ![i] = {}]
  /\ EndVote(i, "idle")
  /\ wal' = [wal EXCEPT ![i].linked = TRUE]
  /\ up' = [up EXCEPT ![i] = w.lastIncludeIndex = -1]
  /\ boot' = [boot EXCEPT ![i] = @ + 1]
  /\ walLost' = IF w.linked THEN walLost ELSE walLost \cup {i}
  /\ UNCHANGED <<applied, msgs, timeouts>>

\* The network drops a request or a reply, or the caller ignores the reply
Lose(m) ==
  /\ msgs' = msgs \ {m}
  /\ UNCHANGED <<termVars, logVars, applyVars, peerVars, voteVars, bootVars, wal>>

-----------------------------------------------------------------------------
(* The specification. *)

Init ==
  /\ currentTerm = [i \in Server |-> 0]
  /\ votedFor = [i \in Server |-> None]
  /\ state = [i \in Server |-> "follower"]
  /\ leaderId = [i \in Server |-> None]
  /\ log = [i \in Server |-> <<>>]
  /\ lastIncludeIndex = [i \in Server |-> -1]
  /\ lastIncludeTerm = [i \in Server |-> -1]
  /\ commitIndex = [i \in Server |-> -1]
  /\ lastApplied = [i \in Server |-> -1]
  /\ IisBack = [i \in Server |-> FALSE]
  /\ nextIndex = [i \in Server |-> [j \in Server |-> 0]]
  /\ matchIndex = [i \in Server |-> [j \in Server |-> 0]]
  /\ installs = [i \in Server |-> {}]
  /\ loop = [i \in Server |-> "idle"]
  /\ voteTerm = [i \in Server |-> 0]
  /\ votes = [i \in Server |-> {}]
  /\ maxTerm = [i \in Server |-> 0]
  /\ wal = [i \in Server |-> EmptyWal]
  /\ up = [i \in Server |-> TRUE]
  /\ boot = [i \in Server |-> 0]
  /\ walLost = {}
  /\ timeouts = 0
  /\ applied = {}
  /\ msgs = {}

\* The goroutines of one node
NodeStep(i) ==
  \/ Timeout(i)
  \/ ElectionLost(i)
  \/ ElectionBehind(i)
  \/ BecomeLeader(i)
  \/ StartNoOp(i)
  \/ \E v \in Value : Start(i, v)
  \/ \E j \in Server : SendAppendEntriesToPeerId(i, j)
  \/ SendAppendEntriesToAll(i)
  \/ \E j \in Server : SendInstallSnapshotToPeerId(i, j)
  \/ \E index \in SnapshotAt : Snapshot(i, index)
  \/ Restart(i)

\* The handlers of the requests and of their replies
MessageStep(m) ==
  \/ RequestVote(m)
  \/ VoteResult(m)
  \/ RejectStale(m)
  \/ AppendEntriesConflict(m)
  \/ AppendEntriesAccept(m)
  \/ ReplyNewerTerm(m)
  \/ AppendEntriesReplyAccept(m)
  \/ AppendEntriesReplyReject(m)
  \/ SnapshotInstall(m)
  \/ SnapshotInstallReplyAccept(m)
  \/ Lose(m)

Next == (\E i \in Server : NodeStep(i)) \/ (\E m \in msgs : MessageStep(m))

Spec == Init /\ [][Next]_vars

\* A handler of j that leaves its reply on the wire
Answers(j, m) ==
  /\ m.to = j
  /\ RejectStale(m) \/ AppendEntriesConflict(m) \/ AppendEntriesAccept(m)
  /\ \E r \in msgs' \ msgs : r.from = j

\* No goroutine waits for ever for rf.mu and nothing stays on the wire for
\* ever; appendEntriesLoop repeats every heartbeat, and a call that is made
\* again and again is sometimes delivered and sometimes answered
Fairness ==
  /\ \A i \in Server : /\ WF_vars(StartNoOp(i))
                       /\ WF_vars(ElectionLost(i) \/ ElectionBehind(i) \/ BecomeLeader(i))
  /\ WF_vars(\E m \in msgs : MessageStep(m))
  /\ \A i, j \in Server : SF_vars(SendAppendEntriesToPeerId(i, j))
  /\ \A j \in Server : SF_vars(\E m \in msgs : Answers(j, m))
  /\ \A i \in Server : SF_vars(\E m \in msgs : m.to = i /\ (\/ ReplyNewerTerm(m)
                                                          \/ AppendEntriesReplyAccept(m)
                                                          \/ AppendEntriesReplyReject(m)))

FairSpec == Spec /\ Fairness

-----------------------------------------------------------------------------
(* Properties. *)

TermTypeOK == /\ currentTerm \in [Server -> Nat]
              /\ votedFor \in [Server -> Node]
              /\ state \in [Server -> State]
              /\ leaderId \in [Server -> Node]

LogTypeOK == /\ log \in [Server -> Seq(Entry)]
             /\ lastIncludeIndex \in [Server -> Index]
             /\ lastIncludeTerm \in [Server -> Int]

ApplyTypeOK == /\ commitIndex \in [Server -> Int]
               /\ lastApplied \in [Server -> Int]
               /\ IisBack \in [Server -> BOOLEAN]
               /\ applied \subseteq Int \X Entry

PeerTypeOK == /\ nextIndex \in [Server -> [Server -> Int]]
              /\ matchIndex \in [Server -> [Server -> Int]]
              /\ installs \in [Server -> SUBSET Server]

VoteTypeOK == /\ loop \in [Server -> {"idle", "voting", "noop"}]
              /\ voteTerm \in [Server -> Nat]
              /\ votes \in [Server -> SUBSET Server]
              /\ maxTerm \in [Server -> Nat]

BootTypeOK == /\ up \in [Server -> BOOLEAN]
              /\ boot \in [Server -> Nat]
              /\ walLost \subseteq Server
              /\ timeouts \in Nat

\* Every variable of the code, and every message, has its type.
TypeOK ==
  /\ TermTypeOK /\ LogTypeOK /\ ApplyTypeOK /\ PeerTypeOK /\ VoteTypeOK /\ BootTypeOK
  /\ wal \in [Server -> Wal]
  /\ msgs \subseteq Message

\* At most one node is leader of a term (electionLoop, RequestVote).
ElectionSafety ==
  \A i, j \in Server : /\ state[i] = "leader" /\ state[j] = "leader"
                       /\ currentTerm[i] = currentTerm[j]
                       => i = j

\* Two logs that hold an entry of one term at one index agree on every entry
\* up to it that both hold (the consistency check of AppendEntries and the
\* truncation in CopyEntries).
LogMatching ==
  \A i, j \in Server :
    \A k \in 0..LastIndex(i) :
      /\ Holds(i, k) /\ Holds(j, k)
      /\ EntryAt(i, k).term = EntryAt(j, k).term
      => \A x \in 0..k : Holds(i, x) /\ Holds(j, x) => EntryAt(i, x) = EntryAt(j, x)

\* No two nodes hand different entries of one index to the state machine
\* (undateLastApplied).
StateMachineSafety ==
  \A a, b \in applied : a[1] = b[1] => a = b

\* A leader with the newest term of the cluster holds every entry some node
\* has handed to its state machine (the up-to-date check of RequestVote and
\* the commit rule of updateCommitIndex).
LeaderCompleteness ==
  \A i \in Server :
    /\ state[i] = "leader"
    /\ \A j \in Server : currentTerm[j] <= currentTerm[i]
    => \A a \in applied : a[1] > lastIncludeIndex[i]
                            => Holds(i, a[1]) /\ EntryAt(i, a[1]) = a[2]

\* What a leader counts as replicated, the peer really holds as long as it
\* follows that leader: matchIndex, set from replies, is what
\* updateCommitIndex commits by.
MatchIndexSound ==
  \A i, j \in Server :
    /\ state[i] = "leader" /\ i # j
    /\ currentTerm[i] = currentTerm[j]
    => \A k \in 0..matchIndex[i][j] :
         k > lastIncludeIndex[i] /\ k > lastIncludeIndex[j]
           => /\ Holds(i, k) /\ Holds(j, k)
              /\ EntryAt(i, k) = EntryAt(j, k)

\* electionLoop reads its state again after the vote, but not its term: a
\* node that is still candidate is in the term it asked votes for.
CandidateTermStable ==
  \A i \in Server : loop[i] = "voting" /\ state[i] = "candidate"
                      => voteTerm[i] = currentTerm[i]

\* A crash at any moment finds the current term and vote in the WAL, unless
\* the file was unlinked (every persistState follows its assignment in the
\* same critical section).
VoteDurable ==
  \A i \in Server : wal[i].linked => /\ wal[i].term = currentTerm[i]
                                     /\ wal[i].votedFor = votedFor[i]

\* At most one leader per term with crashes and snapshots too, as long as no
\* node restarted from a directory whose WAL file Truncate had unlinked.
ElectionSafetyUnlessWalLost == walLost = {} => ElectionSafety

\* Replaying the WAL gives the log in memory: "we assume replaying the log in
\* order handles this correctly" (CopyEntries, on truncation).
ReplayFaithful ==
  \A i \in Server : wal[i].linked /\ wal[i].lastIncludeIndex = -1
                      => wal[i].log = log[i]

\* An entry some node has handed to its state machine stays, in the log or
\* in a snapshot, on as many nodes as updateCommitIndex demands, so a later
\* leader cannot miss it.
AppliedOnQuorum ==
  \A a \in applied :
    LET n == Cardinality(Server)
        keeps == {i \in Server : \/ a[1] <= lastIncludeIndex[i]
                                 \/ Holds(i, a[1]) /\ EntryAt(i, a[1]) = a[2]}
    IN  Cardinality(keeps) >= n - (n \div 2)


\* The term of a node never decreases, not even when it restarts, unless its
\* WAL file was unlinked (persistState, loadFromWAL).
TermMonotone ==
  [][\A i \in Server : currentTerm'[i] >= currentTerm[i] \/ ~ wal[i].linked]_vars

\* A leader only appends to its log: neither a late AppendEntries nor a late
\* snapshot removes an entry from it while it leads.
LeaderAppendOnly ==
  [][\A i \in Server :
       state[i] = "leader" /\ state'[i] = "leader" /\ up'[i]
         => \A k \in 0..LastIndex(i) :
              Holds(i, k) => k <= lastIncludeIndex'[i] \/ EntryAt(i, k)' = EntryAt(i, k)]_vars


=============================================================================
