SPECIFICATION Spec
CONSTANTS
  Key <- MCKey
  Stored <- MCStored
  Operations <- MCOperations
  Requests <- MCRequests
  None = None
  NotifierCap = 1
  WatcherCap = 1
  StreamCap = 1
  MaxOps = 1
  MaxStreams = 2
  MaxFaults = 1
CHECK_DEADLOCK FALSE
INVARIANTS TypeOK ViewFollows NeverPanics
PROPERTIES ScansAreExact CancelCleansUp 
