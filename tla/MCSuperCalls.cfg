SPECIFICATION MixinSpec
CONSTANTS
  RecordCount = 4
  Modules <- Diamonds
INVARIANT SuperReachesTheNamedBase
CHECK_DEADLOCK FALSE
