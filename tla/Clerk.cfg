SPECIFICATION Spec
CONSTANTS
  N = 3
  Tries = 7
  MaxChanges = 1
  idOf <- MCidOf
INVARIANTS
  TypeOK
  HintTableSound
  SteadyWriteSucceeds
  PanicsOnlyIfMoved
