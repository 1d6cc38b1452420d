--------------------------- MODULE ApplyPipeline ---------------------------
(***************************************************************************)
(* The way of a committed entry on one node: undateLastApplied and         *)
(* SnapshotInstall send on applyChTerm (buffered), Applyer moves one       *)
(* message at a time to applyCh (unbuffered), HandleApplych applies it and *)
(* may ask Raft for a snapshot.                                            *)
(*                                                                         *)
(* undateLastApplied keeps rf.mu while it waits for room in the channel;   *)
(* HandleApplych needs rf.mu for Snapshot before it takes the next         *)
(* message; SnapshotInstall gives rf.mu up before it sends.                *)
(* The database is the set of commands it reflects, by CommandIndex.       *)
(***************************************************************************)
EXTENDS Integers, Sequences, FiniteSets

CONSTANTS None,
          LastEntry,   \* index of the last entry the leader ever sends
          Capacity,    \* of applyChTerm; 1000 in Make
          Installs     \* lastIncludeIndex of the snapshots the leader may send

ASSUME CapacityAssumption == Capacity \in Nat \ {0} /\ LastEntry \in Nat
ASSUME InstallsAssumption == Installs \subseteq 0..LastEntry

VARIABLES
  lastIndex, lastIncludeIndex, commitIndex, lastApplied,
  mu,                \* who holds rf.mu: None or "undateLastApplied"
  sending,           \* snapshots SnapshotInstall has yet to send
  applyChTerm,       \* the messages in the channel
  applyer,           \* the message Applyer has taken, or None
  handler,           \* the message HandleApplych works on, or None
  asking,            \* HandleApplych has called Snapshot and waits for rf.mu
  lastAppliedIndex, db,
  saved,             \* the newest snapshot of the node: its index and contents
  panicked,          \* Snapshot has indexed rf.log out of range
  overtaken          \* a command was sent while a snapshot was still to be sent

raftVars == <<lastIndex, lastIncludeIndex, commitIndex, lastApplied, mu, sending>>
chanVars == <<applyChTerm, applyer, handler, asking>>
kvVars   == <<lastAppliedIndex, db>>
vars == <<raftVars, chanVars, kvVars, saved, panicked, overtaken>>

Index == -1..LastEntry
ApplyMsg == [snapshot : BOOLEAN, index : 1..(LastEntry + 1)]

Init ==
  /\ lastIndex = -1 /\ lastIncludeIndex = -1 /\ commitIndex = -1 /\ lastApplied = -1
  /\ mu = None /\ sending = {}
  /\ applyChTerm = <<>> /\ applyer = None /\ handler = None /\ asking = FALSE
  /\ lastAppliedIndex = 0 /\ db = {}
  /\ saved = [index |-> -1, db |-> {}]
  /\ panicked = FALSE /\ overtaken = FALSE

-----------------------------------------------------------------------------
(* The Raft side. *)

\* AppendEntries or a reply brings new entries and raises the commit index
Commit(last, ci) ==
  /\ mu = None /\ ~ panicked
  /\ last \in lastIndex..LastEntry
  /\ ci \in (commitIndex + 1)..last
  /\ lastIndex' = last
  /\ commitIndex' = ci
  /\ mu' = "undateLastApplied"
  /\ UNCHANGED <<lastIncludeIndex, lastApplied, sending, chanVars, kvVars, saved,
                 panicked, overtaken>>

\* Mutants of Room: one message too many; one too few
RoomForOneMore == Len(applyChTerm) <= Capacity

Room == Len(applyChTerm) < Capacity

\* One turn of the loop: waits, with rf.mu, until the channel has room
UndateLastApplied ==
  /\ mu = "undateLastApplied" /\ ~ panicked
  /\ lastApplied < commitIndex
  /\ IF lastApplied < lastIncludeIndex \/ lastApplied + 1 > lastIndex
     THEN /\ lastApplied' = lastIncludeIndex
          /\ mu' = None
          /\ UNCHANGED <<applyChTerm, overtaken>>
     ELSE /\ Room
          /\ lastApplied' = lastApplied + 1
          /\ applyChTerm' = Append(applyChTerm,
                              [snapshot |-> FALSE, index |-> lastApplied + 2])
          /\ mu' = IF lastApplied + 1 = commitIndex THEN None ELSE mu
          /\ overtaken' = (overtaken \/ sending # {})
  /\ UNCHANGED <<lastIndex, lastIncludeIndex, commitIndex, sending, applyer, handler,
                 asking, kvVars, saved, panicked>>

\* A snapshot of the leader replaces the log. The file it is saved to holds
\* the leader's database, which reflects every command up to it
SnapshotInstall(k) ==
  /\ mu = None /\ ~ panicked
  /\ k > lastIncludeIndex
  /\ lastIncludeIndex' = k
  /\ lastIndex' = k
  /\ lastApplied' = IF lastApplied < k THEN k ELSE lastApplied
  /\ commitIndex' = IF commitIndex < k THEN k ELSE commitIndex
  /\ saved' = [index |-> k, db |-> 1..(k + 1)]
  /\ sending' = sending \cup {k}
  /\ UNCHANGED <<mu, chanVars, kvVars, panicked, overtaken>>

\* The same call, which has given up rf.mu, sends on applyChTerm
SendSnapshot(k) ==
  /\ ~ panicked
  /\ Room
  /\ applyChTerm' = Append(applyChTerm, [snapshot |-> TRUE, index |-> k + 1])
  /\ sending' = sending \ {k}
  /\ UNCHANGED <<lastIndex, lastIncludeIndex, commitIndex, lastApplied, mu, applyer,
                 handler, asking, kvVars, saved, panicked, overtaken>>

\* Applyer: rf.applyCh <- <-rf.applyChTerm
Applyer ==
  /\ ~ panicked
  /\ applyer = None /\ applyChTerm # <<>>
  /\ applyer' = Head(applyChTerm)
  /\ applyChTerm' = Tail(applyChTerm)
  /\ UNCHANGED <<raftVars, handler, asking, kvVars, saved, panicked, overtaken>>

-----------------------------------------------------------------------------
(* The server side. *)

\* HandleApplych receives from applyCh, which takes Applyer and itself
Receive ==
  /\ ~ panicked
  /\ handler = None /\ applyer # None
  /\ handler' = applyer
  /\ applyer' = None
  /\ UNCHANGED <<raftVars, applyChTerm, asking, kvVars, saved, panicked, overtaken>>

\* Mutant of Fresh: off by one
FreshByTwo(m) == m.index > lastAppliedIndex + 1

\* "Prevent re-applying old commands"
Fresh(m) == m.index > lastAppliedIndex

\* A command. need: the WAL has outgrown maxraftstate (checkifNeedSnapshot)
HandleCommand(need) ==
  /\ ~ panicked
  /\ handler # None /\ ~ handler.snapshot /\ ~ asking
  /\ IF Fresh(handler)
     THEN db' = db \cup {handler.index} /\ lastAppliedIndex' = handler.index
     ELSE UNCHANGED kvVars
  /\ asking' = need
  /\ handler' = IF need THEN handler ELSE None
  /\ UNCHANGED <<raftVars, applyChTerm, applyer, saved, panicked, overtaken>>

\* Mutant of SnapshotPoint: index -= 1 is forgotten
SnapshotPastPoint(m) == m.index

\* The argument of Snapshot counts from 1, the log from 0
SnapshotPoint(m) == m.index - 1

\* Raft.Snapshot at the index of the command, with the database as it is now
Snapshot ==
  LET k == SnapshotPoint(handler) IN
  /\ ~ panicked
  /\ asking /\ mu = None
  /\ asking' = FALSE
  /\ handler' = None
  /\ panicked' = (k > lastIncludeIndex /\ k > lastIndex)
  /\ IF k > lastIncludeIndex /\ k <= lastIndex
     THEN /\ lastIncludeIndex' = k
          /\ saved' = [index |-> k, db |-> db]
     ELSE UNCHANGED <<lastIncludeIndex, saved>>
  /\ UNCHANGED <<lastIndex, commitIndex, lastApplied, mu, sending, applyChTerm, applyer,
                 kvVars, overtaken>>

\* Mutant of Outdated: every snapshot is read
NeverOutdated(m) == FALSE

Outdated(m) == m.index < lastAppliedIndex

\* HandleApplychSnapshot
HandleSnapshot ==
  /\ ~ panicked
  /\ handler # None /\ handler.snapshot
  /\ IF Outdated(handler)
     THEN UNCHANGED kvVars
     ELSE db' = 1..handler.index /\ lastAppliedIndex' = handler.index
  /\ handler' = None
  /\ UNCHANGED <<raftVars, applyChTerm, applyer, asking, saved, panicked, overtaken>>

-----------------------------------------------------------------------------

Next ==
  \/ \E last, ci \in 0..LastEntry : Commit(last, ci)
  \/ UndateLastApplied
  \/ \E k \in Installs : SnapshotInstall(k)
  \/ \E k \in sending : SendSnapshot(k)
  \/ Applyer
  \/ Receive
  \/ \E need \in BOOLEAN : HandleCommand(need)
  \/ Snapshot
  \/ HandleSnapshot

Spec == Init /\ [][Next]_vars

\* Each goroutine runs on when nothing blocks it
Fairness ==
  /\ WF_vars(UndateLastApplied) /\ WF_vars(Applyer) /\ WF_vars(Receive)
  /\ WF_vars(\E need \in BOOLEAN : HandleCommand(need))
  /\ SF_vars(Snapshot)
  /\ WF_vars(HandleSnapshot)
  /\ WF_vars(\E k \in sending : SendSnapshot(k))

FairSpec == Spec /\ Fairness

-----------------------------------------------------------------------------

\* Every variable has its type, and the channel stays within its capacity.
TypeOK ==
  /\ lastIndex \in Index /\ lastIncludeIndex \in Index
  /\ commitIndex \in Index /\ lastApplied \in Index
  /\ mu \in {None, "undateLastApplied"} /\ sending \subseteq Installs
  /\ applyChTerm \in Seq(ApplyMsg) /\ Len(applyChTerm) <= Capacity
  /\ applyer \in ApplyMsg \cup {None} /\ handler \in ApplyMsg \cup {None}
  /\ asking \in BOOLEAN /\ panicked \in BOOLEAN /\ overtaken \in BOOLEAN
  /\ lastAppliedIndex \in 0..(LastEntry + 1) /\ db \subseteq 1..(LastEntry + 1)
  /\ saved.index \in Index /\ saved.db \subseteq 1..(LastEntry + 1)

\* The database reflects every command up to lastAppliedIndex and no other:
\* HandleApplych neither skips a command nor applies one early, unless the
\* command was sent while SnapshotInstall, without rf.mu, had yet to send.
NoGapUnlessOvertaken == ~ overtaken => db = 1..lastAppliedIndex

\* The snapshot Raft keeps for index k holds the database after exactly the
\* entries up to k (checkifNeedSnapshot, Snapshot, SnapshotInstall), with the
\* same exception.
SnapshotFaithful == ~ overtaken => saved.db = 1..(saved.index + 1)

\* The database never goes back to an earlier command: a late snapshot does
\* not replace newer data (HandleApplychSnapshot).
NeverBack == [][lastAppliedIndex' >= lastAppliedIndex]_vars


=============================================================================
