SPECIFICATION FairSpec
CONSTANTS
  None = None
  LastEntry = 3
  Capacity = 4
  Installs = {0, 2}
CHECK_DEADLOCK FALSE
INVARIANTS
  TypeOK
  NoGapUnlessOvertaken
  SnapshotFaithful
PROPERTIES
  NeverBack
  
