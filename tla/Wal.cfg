SPECIFICATION Spec
CONSTANTS
  Record = {r1, r2}
  Index = {0, 1, 2}
  None = None
  MaxRecords = 4
  MaxPowerLosses = 2
INVARIANTS
  TypeOK
  WrittenIsKept
  TornIsLast
  SnapshotHasFile
PROPERTY ImplementsAbstractWal
