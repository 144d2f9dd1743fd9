SPECIFICATION MCSpec
CONSTANTS
  f1 = f1
  f2 = f2
  h = h
  d1 = d1
  d2 = d2
  a = a
  b = b
  j1 = j1
  j2 = j2
  j3 = j3
  None = None
  Sources <- MCSources
  Headers <- MCHeaders
  Includes <- MCIncludes
  Dirs <- MCDirs
  Dir <- MCDir
  Args <- MCArgs
  Jobs <- MCJobs
  MaxRequests = 3
  MaxEdits = 0
  MaxReindexes = 1
  MaxUnloads = 1
  MaxInputs = 4
  MCOutcomes = {"unit", "no index"}
SYMMETRY Symmetry
INVARIANTS
  TypeOK
  JobTable
  JobIsCurrent
  ResultsMatchSource
  PendingHasRunner
PROPERTIES
  ResultsNotLost
CHECK_DEADLOCK FALSE
