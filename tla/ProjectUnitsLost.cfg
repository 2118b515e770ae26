SPECIFICATION Spec
CONSTANTS
  Job = {j1, j2}
  ImportExisting = TRUE
PROPERTY UnitsSurvive
CHECK_DEADLOCK FALSE
