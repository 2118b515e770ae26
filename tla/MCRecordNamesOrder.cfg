SPECIFICATION Spec
CONSTANTS
  WorkerCount = 2
  Programs <- NestedPrograms
  ProjectFiles <- MCProjectFiles
  UsrOrder <- MCUsrOrder
  TypeSuffix <- MCTypeSuffix
  ReservedWords <- MCReservedWords
  Numeral <- MCNumeral
INVARIANT RenamesTheSameWay
CHECK_DEADLOCK FALSE
