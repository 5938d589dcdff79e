CONSTANTS
  p1 = p1
  p2 = p2
  a = a
  b = b
  u = u
  v = v
  Procs <- MCProcs
  Names <- MCNames
  Values <- OneValue
  None = None
  MaxKeys = 2
  MaxCounter = 3
  MaxFaults = 2
SPECIFICATION Spec
CHECK_DEADLOCK FALSE
SYMMETRY VaultSymmetry
INVARIANTS
  NoSecretLost
  ReadableAtRest
PROPERTIES
  ImplementsStore
  LiveOwnerKeepsBreaker
