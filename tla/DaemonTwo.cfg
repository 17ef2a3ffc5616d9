SPECIFICATION DSpec
CONSTANTS
    Procs = {1, 2}
    Commands <- ServiceCommands
    Exclusive = FALSE
    Faults = 0
INVARIANT RefusedTookNothing
CHECK_DEADLOCK FALSE
