CONSTANTS
  t1 = t1
  t2 = t2
  Trails <- MCTrails
  None = None
  Keys <- MCKeys
  FirstKey = 1
  MaxSize = 2
  MaxRotations = 1
  MaxEntries = 3
  MaxTime = 2
  MaxFaults = 1
SPECIFICATION FairSpec
CHECK_DEADLOCK FALSE
INVARIANTS
  FilesChained
  VerifiesUnlessMishap
  ReturnedIsDurable
  AnchorNamesHead
PROPERTIES
  LockReleased
