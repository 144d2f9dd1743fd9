SPECIFICATION MCCalmSpec
CONSTANTS
  f1 = f1
  f2 = f2
  h = h
  d1 = d1
  d2 = d2
  a = a
  b = b
  j1 = j1
  j2 = j2
  j3 = j3
  None = None
  Sources <- MCSources
  Headers <- MCHeaders
  Includes <- MCIncludes
  Dirs <- MCDirs
  Dir <- MCDir
  Args <- MCArgs
  Jobs <- CalmJobs
  MaxRequests = 3
  MaxEdits = 1
  MaxReindexes = 1
  MaxUnloads = 0
  MaxInputs = 5
  MCOutcomes = {"unit"}
INVARIANTS
  OneIndexerPerFile
  ClaimsAccountedFor
PROPERTIES
  SettlesUpToDate
CHECK_DEADLOCK FALSE
