CONSTANTS
    Project    = Project
    Connection = Connection
    Processes  = {p1, p2}
    Timeout    = 1
    MaxNow     = 3
    MaxWork    = 2
    MaxOutput  = 1
SPECIFICATION Spec
INVARIANTS SelectIsCurrent EventsToLiving
PROPERTIES StartedTimersEnd 
CHECK_DEADLOCK FALSE
