CONSTANTS
  x = x
  y = y
  r = r
  q = q
  Vars <- MCVars
  Readers <- MCReaders
  Sources <- MCSources
  NoReaders = NoReaders
  MaxLen = 3
  MaxSteps = 4
SPECIFICATION Spec
CHECK_DEADLOCK FALSE
CONSTRAINT UntilLost
SYMMETRY TaintSymmetry
INVARIANTS
  NothingLaundered
  ReadersNarrow
  ListAccountsForItems
  UntrustedNeverReachesCritical
  MixingNeverRelaxes
