SPECIFICATION MCSpec
CONSTANTS
  Usr = {1, 2}
  File = {1}
  RuleKind = {"name", "path"}
  EditedKind = {"name"}
  Pattern = {"new"}
  Legacy <- MCLegacy
  Client = {c1}
  MaxId = 3
  NameMatches <- MCNameMatches
  PathMatches <- MCPathMatches
  NoOwner = 0
  Catalogs <- MCCatalogs
  MaxRule = 1
  MaxChanges = 2
INVARIANTS
  DecisionsKept
  KeysUnique
  StandingEntriesListed
PROPERTIES
  EditsAreAtomic
  
CHECK_DEADLOCK FALSE
