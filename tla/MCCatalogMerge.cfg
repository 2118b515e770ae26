SPECIFICATION Spec
CONSTANTS
  WorkerCount = 3
  Programs <- MCPrograms
  ProjectFiles <- MCProjectFiles
  UsrOrder <- MCUsrOrder
  TypeSuffix <- MCTypeSuffix
  ReservedWords <- MCReservedWords
  Numeral <- MCNumeral
INVARIANTS
  DefinitionsWin
  MembersUnited
  TypesUnited
  SameOnEverySchedule
  DartNamesUnique
CHECK_DEADLOCK FALSE
