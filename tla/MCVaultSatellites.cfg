CONSTANTS
  p1 = p1
  p2 = p2
  a = a
  b = b
  Procs <- MCProcs
  Names <- MCNames
  Decoys <- MCNames
  None = None
  MaxAt = 2
  MaxAccess = 2
  MaxLines = 1
  MaxCalls = 6
  MaxFaults = 1
SPECIFICATION Spec
CHECK_DEADLOCK FALSE
CONSTRAINT UntilMishap
SYMMETRY SatelliteSymmetry
INVARIANTS
  ExpiryKept
  TokensKept
  RecentKept
