-------------------------------- MODULE Wal --------------------------------
(***************************************************************************)
(* The write-ahead log of one node (pkg/wal/wal.go) and its use by Raft    *)
(* (raft.go: Make, loadFromWAL, persistState, persistEntry, Snapshot).     *)
(*                                                                         *)
(* There is one segment file, 0000000000000001.wal: Write never starts     *)
(* another. A record goes to the file as a header and its data; a crash    *)
(* between them leaves a torn record at the end. Nothing is ever synced:   *)
(* what Write has flushed survives a crash of the process, and of the      *)
(* machine only in part. (The removal of a file is taken to last.)         *)
(***************************************************************************)
EXTENDS Integers, Sequences, SequencesExt

CONSTANTS Record,          \* records of states and entries
          Index,           \* lastIncludeIndex of the snapshots taken
          None,
          MaxRecords,      \* bound: records in the segment
          MaxPowerLosses   \* bound: losses of power

SnapshotRecord == [LastIncludedIndex : Index]
AnyRecord == Record \cup SnapshotRecord

ASSUME IndexAssumption == Index \subseteq Nat /\ None \notin Index
ASSUME RecordAssumption == Record \cap SnapshotRecord = {}
ASSUME WalBounds == MaxRecords \in Nat /\ MaxPowerLosses \in Nat

VARIABLES
  linked,             \* the segment is in the directory
  recs,               \* its whole records
  torn,               \* a part of a record follows them
  buried,             \* records follow that part
  snapshots,          \* the snapshot file of each index
  node,               \* where the process is
  pc,                 \* what the goroutine with rf.mu does to the directory
  rec,                \* the record it writes
  snap,               \* the index of the snapshot it takes, or None
  lastIncludeIndex,
  promised,           \* the records of the segment that Raft relies on: their
                      \* Write has returned, or a start has replayed them;
                      \* less what a loss of power took
  powerLosses

segmentVars == <<linked, recs, torn, buried>>
callVars == <<pc, rec, snap>>
vars == <<segmentVars, snapshots, node, callVars, lastIncludeIndex, promised, powerLosses>>

Init ==
  /\ linked = FALSE /\ recs = <<>> /\ torn = FALSE /\ buried = FALSE
  /\ snapshots = [k \in Index |-> "none"]
  /\ node = "down"
  /\ pc = "idle" /\ rec = None /\ snap = None
  /\ lastIncludeIndex = -1
  /\ promised = <<>>
  /\ powerLosses = 0

-----------------------------------------------------------------------------
(* Start of the process. *)

\* Open: the last segment, or a new one if the directory has none
Open ==
  /\ node \in {"down", "panicked"}
  /\ node' = "opened"
  /\ linked' = TRUE
  /\ UNCHANGED <<recs, torn, buried, snapshots, callVars, lastIncludeIndex, promised,
                 powerLosses>>

\* Mutant of ReadAllFails: the part at the end is taken for the end of the file
TornIsEnd == FALSE

\* A part of a record ends in an unexpected end of file, what follows such a
\* part has no matching checksum
ReadAllFails == torn \/ buried

\* The first snapshot record is the i-th record
FirstSnapshot(i) ==
  recs[i] \in SnapshotRecord /\ \A j \in 1..(i - 1) : recs[j] \notin SnapshotRecord

\* loadFromWAL: panics if ReadAll fails or the file of a snapshot is missing.
\* A snapshot is sent on applyCh, which Make sets later: the send never ends
LoadFromWAL ==
  /\ node = "opened"
  /\ \/ ReadAllFails /\ node' = "panicked" /\ UNCHANGED promised
     \/ /\ ~ ReadAllFails /\ \A i \in 1..Len(recs) : recs[i] \notin SnapshotRecord
        /\ node' = "running" /\ promised' = recs
     \/ \E i \in 1..Len(recs) :
          /\ ~ ReadAllFails /\ FirstSnapshot(i)
          /\ node' = IF snapshots[recs[i].LastIncludedIndex] = "none" THEN "panicked"
                     ELSE "hung"
          /\ UNCHANGED promised
  /\ UNCHANGED <<segmentVars, snapshots, callVars, lastIncludeIndex, powerLosses>>

-----------------------------------------------------------------------------
(* Writing. *)

\* persistState or persistEntry calls Write
Persist(r) ==
  /\ node = "running" /\ pc = "idle" /\ Len(recs) < MaxRecords
  /\ pc' = "header" /\ rec' = r
  /\ UNCHANGED <<segmentVars, snapshots, node, snap, lastIncludeIndex, promised,
                 powerLosses>>

\* The header; the file of an open writer may be out of the directory
WriteHeader ==
  /\ node = "running" /\ pc = "header"
  /\ pc' = "data"
  /\ IF linked THEN torn' = TRUE /\ buried' = (buried \/ torn)
               ELSE UNCHANGED <<torn, buried>>
  /\ UNCHANGED <<linked, recs, snapshots, node, rec, snap, lastIncludeIndex, promised,
                 powerLosses>>

\* Mutants of Flushed: Write returns without Flush; Open forgets O_APPEND
Unflushed == recs
Overwritten == IF linked THEN <<rec>> \o SubSeq(recs, 2, Len(recs)) ELSE recs

Flushed == IF linked THEN Append(recs, rec) ELSE recs

\* The data
WriteData ==
  /\ node = "running" /\ pc = "data"
  /\ recs' = Flushed
  /\ torn' = FALSE
  /\ pc' = "flushed"
  /\ UNCHANGED <<linked, buried, snapshots, node, rec, snap, lastIncludeIndex, promised,
                 powerLosses>>

\* Write returns nil to its caller
WriteReturns ==
  /\ node = "running" /\ pc = "flushed"
  /\ promised' = IF linked THEN Append(promised, rec) ELSE promised
  /\ pc' = IF snap = None THEN "idle" ELSE "truncate"
  /\ rec' = None
  /\ UNCHANGED <<segmentVars, snapshots, node, snap, lastIncludeIndex, powerLosses>>

\* Mutant of Snapshot: one too many is taken off the index, and it is not compared
\* with lastIncludeIndex
SnapshotBelow(k) ==
  /\ node = "running" /\ pc = "idle" /\ Len(recs) < MaxRecords
  /\ snap' = k - 1
  /\ pc' = "save"
  /\ UNCHANGED <<segmentVars, snapshots, node, rec, lastIncludeIndex, promised, powerLosses>>

\* Raft.Snapshot or SnapshotInstall at k: os.WriteFile is called
Snapshot(k) ==
  /\ node = "running" /\ pc = "idle" /\ Len(recs) < MaxRecords
  /\ k > lastIncludeIndex
  /\ snap' = k
  /\ snapshots' = [snapshots EXCEPT ![k] = "part"]
  /\ pc' = "save"
  /\ UNCHANGED <<segmentVars, node, rec, lastIncludeIndex, promised, powerLosses>>

\* Mutant of SavedFile: the record is written while the file is not finished
SavedLater == "part"

SavedFile == "whole"

\* os.WriteFile returns, Write is called
SaveSnapshot ==
  /\ node = "running" /\ pc = "save"
  /\ snapshots' = [snapshots EXCEPT ![snap] = SavedFile]
  /\ pc' = "header"
  /\ rec' = [LastIncludedIndex |-> snap]
  /\ UNCHANGED <<segmentVars, node, snap, lastIncludeIndex, promised, powerLosses>>

\* Truncate compares the number of the segment, 1, with an index of the log
Removed(k) == 1 <= k

\* Truncate removes the segment, to which the writer goes on to write
Truncate ==
  /\ node = "running" /\ pc = "truncate"
  /\ pc' = "idle" /\ snap' = None
  /\ lastIncludeIndex' = snap
  /\ linked' = (linked /\ ~ Removed(snap))
  /\ recs' = IF linked' THEN recs ELSE <<>>
  /\ promised' = IF linked' THEN promised ELSE <<>>
  /\ UNCHANGED <<torn, buried, snapshots, node, rec, powerLosses>>

-----------------------------------------------------------------------------
(* End of the process. *)

\* Raft.Kill closes the WAL, without rf.mu
Kill ==
  /\ node = "running"
  /\ node' = "closed"
  /\ UNCHANGED <<segmentVars, snapshots, callVars, lastIncludeIndex, promised, powerLosses>>

Gone(how) ==
  /\ node' = how
  /\ pc' = "idle" /\ rec' = None /\ snap' = None
  /\ lastIncludeIndex' = -1

\* Write returns ErrClosed and the caller panics
WriteClosed ==
  /\ node = "closed"
  /\ Gone("panicked")
  /\ UNCHANGED <<segmentVars, snapshots, promised, powerLosses>>

Crash ==
  /\ node \in {"opened", "running", "hung", "closed"}
  /\ Gone("down")
  /\ UNCHANGED <<segmentVars, snapshots, promised, powerLosses>>

\* The machine stops: the last bytes of any file may be missing
PowerLoss ==
  /\ node # "down" /\ powerLosses < MaxPowerLosses
  /\ powerLosses' = powerLosses + 1
  /\ Gone("down")
  /\ \E n \in 0..Len(recs) :
       /\ recs' = SubSeq(recs, 1, n)
       /\ promised' = IF n < Len(promised) THEN SubSeq(promised, 1, n) ELSE promised
       /\ torn' \in {FALSE, torn \/ n < Len(recs)}
  /\ \E lost \in [Index -> {"none", "part", "whole"}] :
       snapshots' = [k \in Index |-> IF snapshots[k] = "whole" THEN lost[k] ELSE snapshots[k]]
  /\ UNCHANGED <<linked, buried>>

Next ==
  \/ Open \/ LoadFromWAL
  \/ \E r \in Record : Persist(r)
  \/ WriteHeader \/ WriteData \/ WriteReturns
  \/ \E k \in Index : Snapshot(k)
  \/ SaveSnapshot \/ Truncate
  \/ Kill \/ WriteClosed \/ Crash \/ PowerLoss

Spec == Init /\ [][Next]_vars

-----------------------------------------------------------------------------

\* Every variable has its type.
TypeOK ==
  /\ linked \in BOOLEAN /\ torn \in BOOLEAN /\ buried \in BOOLEAN
  /\ recs \in Seq(AnyRecord) /\ promised \in Seq(AnyRecord)
  /\ snapshots \in [Index -> {"none", "part", "whole"}]
  /\ node \in {"down", "opened", "running", "hung", "closed", "panicked"}
  /\ pc \in {"idle", "save", "header", "data", "flushed", "truncate"}
  /\ rec \in AnyRecord \cup {None} /\ snap \in Index \cup {None}
  /\ lastIncludeIndex \in Index \cup {-1}
  /\ powerLosses \in 0..MaxPowerLosses

\* A record whose Write has returned is in the segment, in the order of the
\* calls, until Truncate removes the segment or power is lost; a crash in the
\* middle of a call leaves at most the record of that call behind it.
WrittenIsKept ==
  /\ Len(promised) \in {Len(recs), Len(recs) - 1}
  /\ \A i \in 1..Len(promised) : promised[i] = recs[i]

\* No record is ever written behind a torn one, where ReadAll would not find
\* it: a process that starts on a torn segment panics (loadFromWAL) before it
\* writes.
TornIsLast == ~ buried

\* A snapshot record that a restart finds names a finished snapshot file, as
\* long as no power is lost (Snapshot, SnapshotInstall: file before record).
SnapshotHasFile ==
  powerLosses = 0 =>
    \A i \in 1..Len(recs) :
      recs[i] \in SnapshotRecord => snapshots[recs[i].LastIncludedIndex] = "whole"

\* The files implement the sequence of whole records that raft.go takes the
\* WAL for: Write appends one record and changes none, Truncate drops all.
Abstract == INSTANCE AbstractWal WITH Record <- AnyRecord

ImplementsAbstractWal == Abstract!Spec

=============================================================================
