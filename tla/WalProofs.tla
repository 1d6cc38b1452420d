----------------------------- MODULE WalProofs -----------------------------
(***************************************************************************)
(* Proofs about the write-ahead log: what Write has returned for is kept,  *)
(* no record is buried behind a torn one, a snapshot record names a        *)
(* finished file, and the files implement the module AbstractWal.          *)
(***************************************************************************)
EXTENDS Wal, TLAPS

USE Zenon

\* What the goroutine that holds rf.mu has done of its call: a part of a record
\* is at the end of the segment only while the data of that record is to come,
\* or after the process that wrote it has gone.
CallInv ==
  /\ node \notin {"running", "closed"} => pc = "idle"
  /\ pc \in {"header", "data", "flushed"} => rec \in AnyRecord
  /\ pc \in {"save", "truncate"} => snap \in Index
  /\ snap \in Index /\ pc \in {"header", "data", "flushed"} =>
       rec = [LastIncludedIndex |-> snap]
  /\ rec \in SnapshotRecord /\ pc \in {"header", "data", "flushed"} => snap \in Index
  /\ pc = "idle" => snap = None
  /\ torn => node \in {"down", "opened", "panicked"} \/ pc = "data"
  /\ ~ buried

\* What Raft relies on is all of the segment but for the record of a call that
\* has not returned.
KeptInv ==
  /\ WrittenIsKept
  /\ ~ linked => recs = <<>> /\ promised = <<>> /\ ~ torn
  /\ node = "running" /\ pc # "flushed" => promised = recs
  /\ node = "running" /\ pc = "flushed" /\ linked => Len(promised) = Len(recs) - 1
  /\ node = "running" /\ pc = "flushed" /\ linked => recs[Len(recs)] = rec

\* A running process finds in its segment only snapshots that it has itself
\* taken, and the file of the one that it takes is finished before its record.
FileInv ==
  /\ SnapshotHasFile
  /\ node = "running" =>
       \A i \in 1..Len(recs) :
         recs[i] \in SnapshotRecord =>
           \/ recs[i].LastIncludedIndex <= lastIncludeIndex
           \/ pc \in {"flushed", "truncate"} /\ recs[i].LastIncludedIndex = snap
  /\ powerLosses = 0 /\ snap \in Index /\ pc \in {"header", "data", "flushed", "truncate"} =>
       snapshots[snap] = "whole"
  /\ node = "running" /\ snap \in Index => snap > lastIncludeIndex

WalInv == TypeOK /\ CallInv /\ KeptInv /\ FileInv

-----------------------------------------------------------------------------

\* Every step keeps the types.
LEMMA TypeStep ==
  ASSUME TypeOK, CallInv, [Next]_vars
  PROVE  TypeOK'
<1>1. CASE Open
  BY <1>1, IndexAssumption, WalBounds, SMTT(30) DEF Open, segmentVars, callVars, TypeOK
<1>2. CASE LoadFromWAL
  BY <1>2, IndexAssumption, WalBounds, SMTT(30)
    DEF LoadFromWAL, ReadAllFails, FirstSnapshot, segmentVars, callVars, TypeOK
<1>3. ASSUME NEW r \in Record, Persist(r) PROVE  TypeOK'
  BY <1>3, SMT DEF Persist, segmentVars, TypeOK, AnyRecord
<1>4. CASE WriteHeader
  <2>1. torn' \in BOOLEAN /\ buried' \in BOOLEAN
    BY <1>4 DEF WriteHeader, TypeOK
  <2>2. QED
    BY <1>4, <2>1, SMT DEF WriteHeader, TypeOK
<1>5. CASE WriteData
  <2>1. rec \in AnyRecord
    BY <1>5 DEF WriteData, CallInv
  <2>2. recs' \in Seq(AnyRecord)
    BY <1>5, <2>1, SMT DEF WriteData, Flushed, TypeOK
  <2>3. torn' \in BOOLEAN
    BY <1>5 DEF WriteData
  <2>4. QED
    BY <1>5, <2>2, <2>3, SMT DEF WriteData, TypeOK
<1>6. CASE WriteReturns
  <2>1. rec \in AnyRecord
    BY <1>6 DEF WriteReturns, CallInv
  <2>2. QED
    BY <1>6, <2>1, SMT DEF WriteReturns, segmentVars, TypeOK
<1>7. ASSUME NEW k \in Index, Snapshot(k) PROVE  TypeOK'
  BY <1>7, IndexAssumption, WalBounds, SMTT(30) DEF Snapshot, segmentVars, callVars, TypeOK
<1>8. CASE SaveSnapshot
  <2>1. snap \in Index
    BY <1>8 DEF SaveSnapshot, CallInv
  <2>2. [LastIncludedIndex |-> snap] \in AnyRecord
    BY <2>1, SMT DEF AnyRecord, SnapshotRecord
  <2>3. QED
    BY <1>8, <2>1, <2>2, SMT DEF SaveSnapshot, SavedFile, segmentVars, TypeOK
<1>9. CASE Truncate
  <2>1. snap \in Index
    BY <1>9 DEF Truncate, CallInv
  <2>2. linked' \in BOOLEAN
    BY <1>9 DEF Truncate
  <2>3. recs' \in Seq(AnyRecord) /\ promised' \in Seq(AnyRecord)
    BY <1>9, SMT DEF Truncate, TypeOK
  <2>4. QED
    BY <1>9, <2>1, <2>2, <2>3, SMT DEF Truncate, TypeOK
<1>10. CASE Kill
  BY <1>10, IndexAssumption, WalBounds, SMTT(30) DEF Kill, segmentVars, callVars, TypeOK
<1>11. CASE WriteClosed
  BY <1>11, IndexAssumption, WalBounds, SMTT(30)
    DEF WriteClosed, Gone, segmentVars, callVars, TypeOK
<1>12. CASE Crash
  BY <1>12, IndexAssumption, WalBounds, SMTT(30)
    DEF Crash, Gone, segmentVars, callVars, TypeOK
<1>13. CASE PowerLoss
  <2>1. torn' \in BOOLEAN
    BY <1>13 DEF PowerLoss, TypeOK
  <2>2. recs' \in Seq(AnyRecord)
    BY <1>13, SMT DEF PowerLoss, TypeOK
  <2>3. promised' \in Seq(AnyRecord)
    BY <1>13, SMT DEF PowerLoss, TypeOK
  <2>4. snapshots' \in [Index -> {"none", "part", "whole"}]
    BY <1>13, SMT DEF PowerLoss, TypeOK
  <2>5. QED
    BY <1>13, <2>1, <2>2, <2>3, <2>4, WalBounds, SMT DEF PowerLoss, Gone, TypeOK
<1>14. CASE UNCHANGED vars
  BY <1>14, SMTT(30) DEF vars, segmentVars, callVars, TypeOK
<1>15. QED
  BY <1>1, <1>2, <1>3, <1>4, <1>5, <1>6, <1>7, <1>8, <1>9, <1>10, <1>11, <1>12, <1>13, <1>14
    DEF Next

\* Every step keeps what is known of the call in progress.
LEMMA CallStep ==
  ASSUME TypeOK, CallInv, [Next]_vars
  PROVE  CallInv'
<1>1. CASE Open
  BY <1>1, IndexAssumption, SMTT(30)
    DEF Open, segmentVars, callVars, TypeOK, CallInv, AnyRecord
<1>2. CASE LoadFromWAL
  BY <1>2, IndexAssumption, SMTT(30)
    DEF LoadFromWAL, ReadAllFails, FirstSnapshot, segmentVars, callVars, TypeOK, CallInv,
        AnyRecord
<1>3. ASSUME NEW r \in Record, Persist(r) PROVE  CallInv'
  <2>1. r \in AnyRecord /\ r \notin SnapshotRecord
    BY RecordAssumption DEF AnyRecord
  <2>2. QED
    BY <1>3, <2>1, IndexAssumption, SMT DEF Persist, segmentVars, CallInv
<1>4. CASE WriteHeader
  BY <1>4, IndexAssumption, SMTT(30)
    DEF WriteHeader, segmentVars, callVars, TypeOK, CallInv, AnyRecord
<1>5. CASE WriteData
  BY <1>5, IndexAssumption, SMTT(30)
    DEF WriteData, Flushed, segmentVars, callVars, TypeOK, CallInv, AnyRecord
<1>6. CASE WriteReturns
  BY <1>6, IndexAssumption, SMTT(30)
    DEF WriteReturns, segmentVars, callVars, TypeOK, CallInv, AnyRecord
<1>7. ASSUME NEW k \in Index, Snapshot(k) PROVE  CallInv'
  BY <1>7, IndexAssumption, SMTT(30)
    DEF Snapshot, segmentVars, callVars, TypeOK, CallInv, AnyRecord
<1>8. CASE SaveSnapshot
  <2>1. snap \in Index
    BY <1>8 DEF SaveSnapshot, CallInv
  <2>2. [LastIncludedIndex |-> snap] \in AnyRecord
    BY <2>1, SMT DEF AnyRecord, SnapshotRecord
  <2>3. QED
    BY <1>8, <2>1, <2>2, SMT DEF SaveSnapshot, segmentVars, CallInv
<1>9. CASE Truncate
  BY <1>9, IndexAssumption, SMTT(30)
    DEF Truncate, Removed, segmentVars, callVars, TypeOK, CallInv, AnyRecord
<1>10. CASE Kill
  BY <1>10, IndexAssumption, SMTT(30)
    DEF Kill, segmentVars, callVars, TypeOK, CallInv, AnyRecord
<1>11. CASE WriteClosed
  BY <1>11, IndexAssumption, SMTT(30)
    DEF WriteClosed, Gone, segmentVars, callVars, TypeOK, CallInv, AnyRecord
<1>12. CASE Crash
  BY <1>12, IndexAssumption, SMTT(30)
    DEF Crash, Gone, segmentVars, callVars, TypeOK, CallInv, AnyRecord
<1>13. CASE PowerLoss
  BY <1>13, IndexAssumption, SMTT(30)
    DEF PowerLoss, Gone, segmentVars, callVars, TypeOK, CallInv, AnyRecord
<1>14. CASE UNCHANGED vars
  BY <1>14, SMTT(30) DEF vars, segmentVars, callVars, TypeOK, CallInv, AnyRecord
<1>15. QED
  BY <1>1, <1>2, <1>3, <1>4, <1>5, <1>6, <1>7, <1>8, <1>9, <1>10, <1>11, <1>12, <1>13, <1>14
    DEF Next

\* Every step keeps what Raft relies on in the segment.
LEMMA KeptStep ==
  ASSUME TypeOK, CallInv, KeptInv, [Next]_vars
  PROVE  KeptInv'
<1>1. CASE Open
  BY <1>1, IndexAssumption, SMTT(30)
    DEF Open, segmentVars, callVars, TypeOK, CallInv, KeptInv, WrittenIsKept
<1>2. CASE LoadFromWAL
  BY <1>2, IndexAssumption, SMTT(30)
    DEF LoadFromWAL, ReadAllFails, FirstSnapshot, segmentVars, callVars, TypeOK, CallInv,
        KeptInv, WrittenIsKept
<1>3. ASSUME NEW r \in Record, Persist(r) PROVE  KeptInv'
  BY <1>3, IndexAssumption, SMTT(30)
    DEF Persist, segmentVars, callVars, TypeOK, CallInv, KeptInv, WrittenIsKept
<1>4. CASE WriteHeader
  BY <1>4, IndexAssumption, SMTT(30)
    DEF WriteHeader, segmentVars, callVars, TypeOK, CallInv, KeptInv, WrittenIsKept
<1>5. CASE WriteData
  BY <1>5, IndexAssumption, SMTT(30)
    DEF WriteData, Flushed, segmentVars, callVars, TypeOK, CallInv, KeptInv, WrittenIsKept
<1>6. CASE WriteReturns
  BY <1>6, IndexAssumption, SMTT(30)
    DEF WriteReturns, segmentVars, callVars, TypeOK, CallInv, KeptInv, WrittenIsKept
<1>7. ASSUME NEW k \in Index, Snapshot(k) PROVE  KeptInv'
  BY <1>7, IndexAssumption, SMTT(30)
    DEF Snapshot, segmentVars, callVars, TypeOK, CallInv, KeptInv, WrittenIsKept
<1>8. CASE SaveSnapshot
  BY <1>8, IndexAssumption, SMTT(30)
    DEF SaveSnapshot, SavedFile, segmentVars, callVars, TypeOK, CallInv, KeptInv, WrittenIsKept
<1>9. CASE Truncate
  BY <1>9, IndexAssumption, SMTT(30)
    DEF Truncate, Removed, segmentVars, callVars, TypeOK, CallInv, KeptInv, WrittenIsKept
<1>10. CASE Kill
  BY <1>10, IndexAssumption, SMTT(30)
    DEF Kill, segmentVars, callVars, TypeOK, CallInv, KeptInv, WrittenIsKept
<1>11. CASE WriteClosed
  BY <1>11, IndexAssumption, SMTT(30)
    DEF WriteClosed, Gone, segmentVars, callVars, TypeOK, CallInv, KeptInv, WrittenIsKept
<1>12. CASE Crash
  BY <1>12, IndexAssumption, SMTT(30)
    DEF Crash, Gone, segmentVars, callVars, TypeOK, CallInv, KeptInv, WrittenIsKept
<1>13. CASE PowerLoss
  <2>1. PICK n \in 0..Len(recs) :
          /\ recs' = SubSeq(recs, 1, n)
          /\ promised' = IF n < Len(promised) THEN SubSeq(promised, 1, n) ELSE promised
          /\ torn' \in {FALSE, torn \/ n < Len(recs)}
    BY <1>13 DEF PowerLoss
  <2>2. Len(recs') = n /\ \A i \in 1..n : recs'[i] = recs[i]
    BY <2>1, SMT DEF TypeOK
  <2>3. /\ Len(promised') = IF n < Len(promised) THEN n ELSE Len(promised)
        /\ \A i \in 1..Len(promised') : promised'[i] = promised[i]
    BY <2>1, SMT DEF TypeOK
  <2>4. WrittenIsKept'
    BY <2>1, <2>2, <2>3, SMT DEF KeptInv, WrittenIsKept, TypeOK
  <2>5. ~ linked' => recs' = <<>> /\ promised' = <<>> /\ ~ torn'
    <3>1. SUFFICES ASSUME ~ linked PROVE recs' = <<>> /\ promised' = <<>> /\ ~ torn'
      BY <1>13 DEF PowerLoss
    <3>2. recs = <<>> /\ promised = <<>> /\ ~ torn /\ n = 0
      BY <3>1, <2>1, SMT DEF KeptInv
    <3>3. recs' = <<>> /\ promised' = <<>>
      BY <3>2, <2>1, SMT
    <3>4. ~ n < Len(recs)
      BY <3>2, SMT
    <3>5. ~ torn'
      BY <3>2, <3>4, <2>1
    <3>6. QED
      BY <3>3, <3>5
  <2>6. QED
    BY <1>13, <2>4, <2>5, SMT DEF PowerLoss, Gone, KeptInv
<1>14. CASE UNCHANGED vars
  BY <1>14, SMTT(30)
    DEF vars, segmentVars, callVars, TypeOK, CallInv, KeptInv, WrittenIsKept
<1>15. QED
  BY <1>1, <1>2, <1>3, <1>4, <1>5, <1>6, <1>7, <1>8, <1>9, <1>10, <1>11, <1>12, <1>13, <1>14
    DEF Next

\* Every step keeps the order of snapshot files and snapshot records.
LEMMA FileStep ==
  ASSUME TypeOK, CallInv, KeptInv, FileInv, [Next]_vars
  PROVE  FileInv'
<1>1. CASE Open
  BY <1>1, IndexAssumption, RecordAssumption, SMTT(30)
    DEF Open, segmentVars, callVars, TypeOK, CallInv, FileInv, SnapshotHasFile, SnapshotRecord
<1>2. CASE LoadFromWAL
  BY <1>2, IndexAssumption, RecordAssumption, SMTT(30)
    DEF LoadFromWAL, ReadAllFails, FirstSnapshot, segmentVars, callVars, TypeOK, CallInv,
        FileInv, SnapshotHasFile, SnapshotRecord
<1>3. ASSUME NEW r \in Record, Persist(r) PROVE  FileInv'
  BY <1>3, IndexAssumption, RecordAssumption, SMTT(30)
    DEF Persist, segmentVars, callVars, TypeOK, CallInv, FileInv, SnapshotHasFile, SnapshotRecord
<1>4. CASE WriteHeader
  BY <1>4, IndexAssumption, RecordAssumption, SMTT(30)
    DEF WriteHeader, segmentVars, callVars, TypeOK, CallInv, FileInv, SnapshotHasFile,
        SnapshotRecord
<1>5. CASE WriteData
  <2>1. ASSUME NEW i \in 1..Len(recs') PROVE \/ i \in 1..Len(recs) /\ recs'[i] = recs[i]
                                             \/ recs'[i] = rec
    BY <1>5, SMT DEF WriteData, Flushed, TypeOK
  <2>2. rec \in SnapshotRecord => snap \in Index
    BY <1>5 DEF WriteData, CallInv
  <2>3. rec \in SnapshotRecord => rec.LastIncludedIndex = snap
    BY <2>2, <1>5, SMT DEF WriteData, CallInv
  <2>4. QED
    BY <1>5, <2>1, <2>2, <2>3, SMT DEF WriteData, FileInv, SnapshotHasFile, TypeOK
<1>6. CASE WriteReturns
  BY <1>6, IndexAssumption, RecordAssumption, SMTT(30)
    DEF WriteReturns, segmentVars, callVars, TypeOK, CallInv, FileInv, SnapshotHasFile,
        SnapshotRecord
<1>7. ASSUME NEW k \in Index, Snapshot(k) PROVE  FileInv'
  BY <1>7, IndexAssumption, RecordAssumption, SMTT(30)
    DEF Snapshot, segmentVars, callVars, TypeOK, CallInv, FileInv, SnapshotHasFile, SnapshotRecord
<1>8. CASE SaveSnapshot
  BY <1>8, IndexAssumption, RecordAssumption, SMTT(30)
    DEF SaveSnapshot, SavedFile, segmentVars, callVars, TypeOK, CallInv, FileInv,
        SnapshotHasFile, SnapshotRecord
<1>9. CASE Truncate
  <2>1. snap \in Index
    BY <1>9 DEF Truncate, CallInv
  <2>2. recs' \in {recs, <<>>}
    BY <1>9, SMT DEF Truncate
  <2>3. SnapshotHasFile'
    BY <1>9, <2>2, SMT DEF Truncate, FileInv, SnapshotHasFile
  <2>4. ASSUME NEW i \in 1..Len(recs'), recs'[i] \in SnapshotRecord
        PROVE  recs'[i].LastIncludedIndex <= lastIncludeIndex'
    <3>1. i \in 1..Len(recs) /\ recs'[i] = recs[i]
      BY <2>2, <2>4, SMT
    <3>2. recs[i].LastIncludedIndex \in Index
      BY <3>1, <2>4, SMT DEF SnapshotRecord
    <3>3. recs[i].LastIncludedIndex <= lastIncludeIndex \/ recs[i].LastIncludedIndex = snap
      BY <1>9, <3>1, <2>4, SMT DEF Truncate, FileInv
    <3>4. snap > lastIncludeIndex
      BY <1>9, <2>1 DEF Truncate, FileInv
    <3>5. lastIncludeIndex' = snap /\ lastIncludeIndex \in Int
      BY <1>9, IndexAssumption, SMT DEF Truncate, TypeOK
    <3>6. DEFINE m == recs[i].LastIncludedIndex
    <3>7. m \in Nat /\ snap \in Nat
      BY <2>1, <3>2, IndexAssumption
    <3>8. m <= snap
      BY <3>3, <3>4, <3>5, <3>7, SMT
    <3>9. QED
      BY <3>1, <3>5, <3>8
  <2>5. QED
    BY <1>9, <2>3, <2>4, IndexAssumption, SMT DEF Truncate, FileInv
<1>10. CASE Kill
  BY <1>10, IndexAssumption, RecordAssumption, SMTT(30)
    DEF Kill, segmentVars, callVars, TypeOK, CallInv, FileInv, SnapshotHasFile, SnapshotRecord
<1>11. CASE WriteClosed
  BY <1>11, IndexAssumption, RecordAssumption, SMTT(30)
    DEF WriteClosed, Gone, segmentVars, callVars, TypeOK, CallInv, FileInv, SnapshotHasFile,
        SnapshotRecord
<1>12. CASE Crash
  BY <1>12, IndexAssumption, RecordAssumption, SMTT(30)
    DEF Crash, Gone, segmentVars, callVars, TypeOK, CallInv, FileInv, SnapshotHasFile,
        SnapshotRecord
<1>13. CASE PowerLoss
  BY <1>13, IndexAssumption, RecordAssumption, SMTT(30)
    DEF PowerLoss, Gone, segmentVars, callVars, TypeOK, CallInv, FileInv, SnapshotHasFile,
        SnapshotRecord
<1>14. CASE UNCHANGED vars
  BY <1>14, SMTT(30)
    DEF vars, segmentVars, callVars, TypeOK, CallInv, FileInv, SnapshotHasFile, SnapshotRecord
<1>15. QED
  BY <1>1, <1>2, <1>3, <1>4, <1>5, <1>6, <1>7, <1>8, <1>9, <1>10, <1>11, <1>12, <1>13, <1>14
    DEF Next

\* The inductive invariant of the write-ahead log, for any records, indices and
\* bounds.
THEOREM WalInvariant == Spec => []WalInv
<1>1. Init => WalInv
  <2> SUFFICES ASSUME Init PROVE WalInv
    OBVIOUS
  <2>1. TypeOK
    <3>1. linked \in BOOLEAN /\ torn \in BOOLEAN /\ buried \in BOOLEAN
      BY DEF Init
    <3>2. QED
      BY <3>1, IndexAssumption, WalBounds, SMT DEF Init, TypeOK
  <2>2. CallInv
    BY IndexAssumption, SMT DEF Init, CallInv
  <2>3. KeptInv
    BY SMT DEF Init, KeptInv, WrittenIsKept
  <2>4. FileInv
    BY IndexAssumption, SMT DEF Init, FileInv, SnapshotHasFile
  <2>5. QED
    BY <2>1, <2>2, <2>3, <2>4 DEF WalInv
<1>2. WalInv /\ [Next]_vars => WalInv'
  BY TypeStep, CallStep, KeptStep, FileStep DEF WalInv
<1>3. QED
  BY <1>1, <1>2, PTL DEF Spec

\* Every variable keeps its type.
THEOREM TypeCorrect == Spec => []TypeOK
<1>1. WalInv => TypeOK
  BY DEF WalInv
<1>2. QED
  BY <1>1, WalInvariant, PTL

\* What Write has returned for is in the segment until Truncate or a loss of
\* power, whenever the process crashes.
THEOREM WrittenStays == Spec => []WrittenIsKept
<1>1. WalInv => WrittenIsKept
  BY DEF WalInv, KeptInv
<1>2. QED
  BY <1>1, WalInvariant, PTL

\* No record is written behind a torn one.
THEOREM TornStaysLast == Spec => []TornIsLast
<1>1. WalInv => TornIsLast
  BY DEF WalInv, CallInv, TornIsLast
<1>2. QED
  BY <1>1, WalInvariant, PTL

\* A snapshot record names a finished file while no power is lost.
THEOREM SnapshotKeepsFile == Spec => []SnapshotHasFile
<1>1. WalInv => SnapshotHasFile
  BY DEF WalInv, FileInv
<1>2. QED
  BY <1>1, WalInvariant, PTL

\* Every step on the files is a step of the abstract log or leaves it alone.
LEMMA AbstractStep ==
  ASSUME WalInv, [Next]_vars
  PROVE  [Abstract!Next]_(Abstract!vars)
<1> USE DEF Abstract!Next, Abstract!vars, WalInv
<1>1. CASE Open
  <2>1. linked \in BOOLEAN
    BY DEF TypeOK
  <2>2. QED
    BY <1>1, <2>1 DEF Open, Abstract!Create
<1>2. CASE LoadFromWAL
  BY <1>2 DEF LoadFromWAL, segmentVars
<1>3. ASSUME NEW r \in Record, Persist(r) PROVE UNCHANGED Abstract!vars
  BY <1>3 DEF Persist, segmentVars
<1>4. CASE WriteHeader
  BY <1>4 DEF WriteHeader
<1>5. CASE WriteData
  <2>1. rec \in AnyRecord
    BY <1>5 DEF WriteData, CallInv
  <2>2. QED
    BY <1>5, <2>1 DEF WriteData, Flushed, Abstract!Write
<1>6. CASE WriteReturns
  BY <1>6 DEF WriteReturns, segmentVars
<1>7. ASSUME NEW k \in Index, Snapshot(k) PROVE UNCHANGED Abstract!vars
  BY <1>7 DEF Snapshot, segmentVars
<1>8. CASE SaveSnapshot
  BY <1>8 DEF SaveSnapshot, segmentVars
<1>9. CASE Truncate
  <2>1. CASE linked /\ ~ Removed(snap)
    <3>1. linked' /\ linked' = linked
      BY <1>9, <2>1 DEF Truncate, TypeOK
    <3>2. QED
      BY <1>9, <3>1 DEF Truncate
  <2>2. CASE linked /\ Removed(snap)
    BY <1>9, <2>2 DEF Truncate, Abstract!Truncate
  <2>3. CASE ~ linked
    <3>1. linked' = FALSE /\ linked = FALSE /\ recs = <<>>
      BY <1>9, <2>3 DEF Truncate, TypeOK, KeptInv
    <3>2. QED
      BY <1>9, <3>1 DEF Truncate
  <2>4. QED
    BY <2>1, <2>2, <2>3
<1>10. CASE Kill
  BY <1>10 DEF Kill, segmentVars
<1>11. CASE WriteClosed
  BY <1>11 DEF WriteClosed, segmentVars
<1>12. CASE Crash
  BY <1>12 DEF Crash, segmentVars
<1>13. CASE PowerLoss
  <2>1. PICK n \in 0..Len(recs) : recs' = SubSeq(recs, 1, n)
    BY <1>13 DEF PowerLoss
  <2>2. CASE linked
    BY <1>13, <2>1, <2>2 DEF PowerLoss, Abstract!Lose
  <2>3. CASE ~ linked
    <3>1. recs = <<>>
      BY <2>3 DEF KeptInv
    <3>2. recs' = recs
      BY <2>1, <3>1, SMT
    <3>3. QED
      BY <1>13, <3>2 DEF PowerLoss
  <2>4. QED
    BY <2>2, <2>3
<1>14. CASE UNCHANGED vars
  BY <1>14 DEF vars, segmentVars
<1>15. QED
  BY <1>1, <1>2, <1>3, <1>4, <1>5, <1>6, <1>7, <1>8, <1>9, <1>10, <1>11, <1>12, <1>13, <1>14
  DEF Next

\* The segment file and its crashes implement the sequence of whole records
\* that raft.go takes the WAL for.
THEOREM WalImplementsAbstract == Spec => ImplementsAbstractWal
<1>1. Init => Abstract!Init
  BY DEF Init, Abstract!Init
<1>2. WalInv /\ [Next]_vars => [Abstract!Next]_(Abstract!vars)
  BY AbstractStep
<1>3. QED
  BY <1>1, <1>2, WalInvariant, PTL DEF Spec, ImplementsAbstractWal, Abstract!Spec

=============================================================================
