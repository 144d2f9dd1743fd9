CONSTANTS
  f1 = f1
  f2 = f2
  g = g
  Header = h
  NoPath = NoPath
  Sources <- mcSources
  ProjectOrder <- mcProjectOrder
  RootOf <- mcRootOf
  MaxInputs = 4
SPECIFICATION StorageSpec
INVARIANTS
  StorageTypeOK
  IdsKeepMeaning
  SavedSourcesStay
CHECK_DEADLOCK FALSE
