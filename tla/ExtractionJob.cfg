SPECIFICATION Spec
CONSTANTS
  N = 2
  Parallelism = 2
  BrokenA = {0}
  BrokenB = {1}
  MayPanic = TRUE
INVARIANTS
  PoolTypeOK
  ParsedOnce
  CountersExact
  NothingLost
  StopsWithinOneUnit
  CancelledOnRequest
  NoStaleRunning
  BarsWithinTotals
  PersistingIsTrue
  OutcomeMatchesStore
PROPERTIES
  PhaseNeverRegresses
  KeepsContract
  JobEnds
CHECK_DEADLOCK FALSE
