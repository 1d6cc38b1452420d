SPECIFICATION Spec
CONSTANTS
  Server = {s1, s2, s3}
  Value = {}
  None = None
  NoOp = NoOp
  MaxTimeouts = 2
  MaxLog = 0
  MaxRestarts = 1
  MaxInFlight = 1
  SnapshotAt = {1}
SYMMETRY Symmetry
CHECK_DEADLOCK FALSE
INVARIANTS
  TypeOK
  ElectionInv
  
PROPERTIES
  TermMonotone
  LeaderAppendOnly
