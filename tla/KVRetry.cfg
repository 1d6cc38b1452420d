SPECIFICATION Spec
CONSTANTS
  Server = {s1, s2}
  Client = {c1}
  None = None
  NoOp = NoOp
  Kinds = {"Append", "Lock", "Unlock"}
  MaxTerm = 2
  MaxWrites = 1
  MaxTries = 2
  MaxGiveUps = 1
  MaxLog = 2
  MaxRestarts = 1
SYMMETRY Symmetry
CHECK_DEADLOCK FALSE
INVARIANTS TypeOK ReplicaFollowsLog AckedWasStarted CasFaildIsTrue
