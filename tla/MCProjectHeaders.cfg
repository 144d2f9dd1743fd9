SPECIFICATION MCSpec
CONSTANTS
  f1 = f1
  f2 = f2
  h = h
  d1 = d1
  d2 = d2
  a = a
  b = b
  j1 = j1
  j2 = j2
  j3 = j3
  None = None
  Sources <- MCSources
  Headers <- MCHeaders
  Includes <- MCIncludes
  Dirs <- MCDirs
  Dir <- MCDir
  Args <- MCArgs
  Jobs <- MCJobs
  MaxRequests = 2
  MaxEdits = 0
  MaxReindexes = 0
  MaxUnloads = 0
  MaxInputs = 2
  MCOutcomes = {"unit"}
SYMMETRY Symmetry
INVARIANTS
  HeadersIndexed
CHECK_DEADLOCK FALSE
