CONSTANTS
  f1 = f1
  f2 = f2
  k1 = k1
  Slots <- TwoFlows
  Clients <- OneClient
  Configs <- MCConfigs
  Requests <- MCRequests
  Responses <- MCResponses
  Frames <- MCFrames
  Secrets <- MCSecrets
  MaxRequests = 1
  Window = 0
  MaxClients = 1
  MaxViolations = 1
SPECIFICATION AddonSpec
CHECK_DEADLOCK FALSE
SYMMETRY MCSymmetry
INVARIANTS
  NothingUnvetted
  CredentialContained
