SPECIFICATION Spec
CONSTANTS
  Usr = {1, 2}
  File = {1}
  RuleKind = {"name"}
  EditedKind = {"name"}
  Pattern = {"new"}
  Legacy <- MCNoLegacy
  Client = {c1, c2}
  MaxId = 3
INVARIANT DecisionsKept
CHECK_DEADLOCK FALSE
