SPECIFICATION FairSpec
CONSTANTS
  Server = {s1}
  Key = {k}
  MaxLeases = 1
  MaxLog = 2
  MaxFaults = 1
CHECK_DEADLOCK FALSE
PROPERTY ExpiredKeyIsDeleted
