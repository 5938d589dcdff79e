CONSTANTS
  k1 = k1
  k2 = k2
  Clients <- TwoClients
  MaxRequests = 8
  Window = 1
  MaxClients = 1
  MaxViolations = 2
SPECIFICATION RateSpec
CHECK_DEADLOCK FALSE
INVARIANTS
  RateBound
PROPERTIES
  ForgivenOnlyWhenQuiet
  Forgiven
