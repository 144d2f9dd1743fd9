CONSTANTS
  Units <- mcUnits
  Headers <- mcHeaders
  Inclusions <- mcInclusions
  Texts <- mcTexts
SPECIFICATION SymbolsSpec
INVARIANTS
  DatabaseIsCurrent
  QueriesFindAll
  LookupsAgreeWithText
