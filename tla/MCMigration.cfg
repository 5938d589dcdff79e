CONSTANTS
  Keys <- MCKeys
  Leaf <- MCLeaf
  Odd <- MCOdd
  MaxRuns = 2
  MaxFailures = 1
  MaxOthers = 1
  Absent = Absent
SPECIFICATION MCSpec
CHECK_DEADLOCK FALSE
INVARIANTS
  NothingLost
  ZerosNotImported
  NoPlaintextLeft
