SPECIFICATION Spec
CONSTANTS
  WorkerCount = 2
  Programs <- GuardPrograms
  ProjectFiles <- MCProjectFiles
  UsrOrder <- MCUsrOrder
  TypeSuffix <- MCTypeSuffix
  ReservedWords <- MCReservedWords
  Numeral <- MCNumeral
INVARIANT TeardownReachesItsCallee
CHECK_DEADLOCK FALSE
