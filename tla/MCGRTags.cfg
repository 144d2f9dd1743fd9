CONSTANTS
    Paths    = {a, b}
    Programs <- MCPrograms
    MaxNow   = 3
    MaxChanges = 4
SPECIFICATION Spec
INVARIANTS OneReadingOfAFile UpdateIsComplete
