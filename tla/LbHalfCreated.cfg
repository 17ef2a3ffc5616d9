CONSTANTS
    Addrs = {1, 2}
    Macs = {1}
    MaxReals = 4
    MaxRefs = 4
    Vips = {1, 2}
    TcpVips = {1}
    MaxVips = 3
    Weights = {1}
    Configs <- ReloadConfigs
    Rise = 1
    Fall = 1
    MaxOps = 2
    MaxCrashes = 0
    MaxFaults = 1
    MaxRounds = 0
SPECIFICATION LbSpec
INVARIANTS NeverWithoutRing
CHECK_DEADLOCK FALSE
