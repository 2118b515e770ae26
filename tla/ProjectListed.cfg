SPECIFICATION Spec
CONSTANTS
  Job = {j1, j2, j3}
  ImportExisting = FALSE
INVARIANTS
  TypeOK
  KnownIsWhole
  OpenIsCoherent
  MarkerIsHonest
  CreatorsNeverOverlap
PROPERTIES
  AnalysisSticks
  DecisionsSurvive
  UnitsSurvive
CHECK_DEADLOCK FALSE
