CONSTANTS
  Dirs <- MCDirs
  Files <- MCFiles
  Root = "src"
  Up <- MCUp
  Excluded = {"a", "gen"}
  Containing = {"a", "b"}
  Exact = {"b"}
  MaxChanges = 5
SPECIFICATION Spec
INVARIANTS
  WatchTables
  MapFollowsDisk
  FindFilePrefersExact
CHECK_DEADLOCK FALSE
