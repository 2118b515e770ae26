SPECIFICATION Spec
CONSTANTS
  MaxJobs = 3
  MaxPolls = 2
  MaxRestarts = 0
  Lossy = FALSE
INVARIANT OneAnalysis
CHECK_DEADLOCK FALSE
