SPECIFICATION DSpec
CONSTANTS
    Procs = {1, 2, 3}
    Commands <- ServiceCommands
    Exclusive = TRUE
    Faults = 0
INVARIANT PreservedIsTrue
CHECK_DEADLOCK FALSE
