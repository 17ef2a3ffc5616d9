CONSTANTS
    Addrs = {1, 2}
    Macs = {1}
    MaxReals = 2
    MaxRefs = 4
    Vips = {1, 2}
    TcpVips = {1}
    MaxVips = 3
    Weights = {1}
    Configs <- FullTableConfigs
    Rise = 1
    Fall = 1
    MaxOps = 1
    MaxCrashes = 0
    MaxFaults = 0
    MaxRounds = 0
SPECIFICATION LbSpec
INVARIANTS MapsMatchConfig
CHECK_DEADLOCK FALSE
