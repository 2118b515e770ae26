INIT TranslationInit
NEXT TranslationNext
CONSTANTS
  Pool <- SamplePrograms
  Fuel = 12
  Items = {1, 2}
  MaxLength = 3
  Texts <- SomeTexts
  RecordCount = 4
  Modules <- LoweredModules
INVARIANTS
  SameMeaning
  ReadsBack
  SameAnswer
  SameContents
  
  ObjectsAgree
CHECK_DEADLOCK FALSE
