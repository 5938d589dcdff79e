CONSTANTS
  agent = agent
  cli = cli
  None = None
  Owners <- BothOwners
  Ports = {8080, 8443}
  MaxSpawns = 2
  MaxFaults = 2
  MaxMishaps = 0
SPECIFICATION Spec
CHECK_DEADLOCK FALSE
INVARIANTS
  NamedOrStarting
  
PROPERTIES
  Restarted
