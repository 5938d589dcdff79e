CONSTANTS
  e1 = e1
  c1 = c1
  c2 = c2
  Threads <- OneThread
  Calls <- TwoCalls
  Unsafe <- UnsafeCall
  Policies <- MCPolicies
  CacheMax = 1
  Evicted = 1
  MaxEvents = 2
  None = None
  NumFiles = 2
  Rules <- MCRules
SPECIFICATION FairSpec
CHECK_DEADLOCK FALSE
INVARIANTS
  CoverageKept
PROPERTIES
  Converges
  QuietAfterStop
  AnswersCurrent
