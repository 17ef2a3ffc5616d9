SPECIFICATION DSpec
CONSTANTS
    Procs = {1, 2, 3}
    Commands <- AllCommands
    Exclusive = TRUE
    Faults = 1
INVARIANTS RunningDrives SocketLeadsToDaemon
PROPERTIES HitlessRestart TableKept
CHECK_DEADLOCK FALSE
