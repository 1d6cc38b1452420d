SPECIFICATION Spec
CONSTANTS
  Server = {s1, s2}
  Client = {c1, c2}
  Name = {n}
  None = None
  Kinds <- MCKinds
  name <- MCname
  MaxLeases = 2
  MaxFaults = 1
  MaxChecks = 1
SYMMETRY Symmetry
CHECK_DEADLOCK FALSE
INVARIANTS TypeOK LeaseIsOwn NothingLeftBehind 
