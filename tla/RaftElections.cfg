SPECIFICATION Spec
CONSTANTS
  Server = {s1, s2, s3}
  Value = {}
  None = None
  NoOp = NoOp
  MaxTimeouts = 3
  MaxLog = 0
  MaxRestarts = 0
  MaxInFlight = 1
  SnapshotAt = {}
SYMMETRY Symmetry
CHECK_DEADLOCK FALSE
INVARIANTS
  ElectionSafetyUnlessWalLost
  LogMatching
  LeaderCompleteness
