CONSTANTS
  c1 = c1
  c2 = c2
  c3 = c3
  x = x
  y = y
  t1 = t1
  t2 = t2
  r1 = r1
  r2 = r2
  Calls <- MCCalls
  Tools <- OneTool
  Tasks <- MCTasks
  NoTask = NoTask
  None = None
  Threads <- MCThreads
  Enforcers = 2
  Limit = 2
  Keep = 1
  MaxEvents = 1
SPECIFICATION Spec
CHECK_DEADLOCK FALSE
SYMMETRY DispatchSymmetry
INVARIANTS
  GateHolds
  ContextUsedOnce
  OwnContext
  ProcessedOnce
