SPECIFICATION Spec
CONSTANTS
  MaxJobs = 2
  MaxPolls = 2
  MaxRestarts = 1
  Lossy = TRUE
PROPERTIES
  ButtonComesBack
  TimersStop
  SuccessShows
CHECK_DEADLOCK FALSE
