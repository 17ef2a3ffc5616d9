CONSTANTS
    M = 5
    Addrs = {1, 2}
    MaxWeight = 4
    MaxBackends = 2
SPECIFICATION MgSpec
INVARIANT ModuloShares
CHECK_DEADLOCK FALSE
