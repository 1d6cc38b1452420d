SPECIFICATION Spec
CONSTANTS
  Server = {s1, s2}
  Client = {c1}
  None = None
  NoOp = NoOp
  Kinds = {"Put"}
  MaxTerm = 2
  MaxWrites = 1
  MaxTries = 1
  MaxGiveUps = 0
  MaxLog = 2
  MaxRestarts = 0
SYMMETRY Symmetry
CHECK_DEADLOCK FALSE
INVARIANT AckedIsChosen
