CONSTANTS
    M = 5
    Addrs = {1, 2}
    MaxWeight = 2
    MaxBackends = 3
SPECIFICATION MgFairSpec
INVARIANTS FairShares RingIsPapers
PROPERTY RingIsBuilt
CHECK_DEADLOCK FALSE
