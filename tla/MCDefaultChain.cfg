CONSTANTS
  t1 = t1
  t2 = t2
  s1 = s1
  s2 = s2
  x = x
  y = y
  Threads <- MCThreads
  Configs <- MCConfigs
  Own <- MCOwn
  Offers <- MCOffers
  Names <- MCNames
  Sessions <- MCSessions
  Outputs <- MCOutputs
  EscalationWindow = 4
  None = None
SPECIFICATION Spec
CHECK_DEADLOCK FALSE
SYMMETRY ChainSymmetry
INVARIANTS
  DriftNoticed
  EscalationNoticed
  ArgumentsVetted
  OutputsVetted
