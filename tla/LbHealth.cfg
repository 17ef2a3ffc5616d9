CONSTANTS
    Addrs = {1, 2}
    Macs = {1}
    MaxReals = 4
    MaxRefs = 4
    Vips = {1}
    TcpVips = {1}
    MaxVips = 3
    Weights = {1}
    Configs <- ApiConfigs
    Rise = 1
    Fall = 1
    MaxOps = 2
    MaxCrashes = 1
    MaxFaults = 0
    MaxRounds = 2
SPECIFICATION LbFairSpec
INVARIANTS MapsFollowModel OwnProbesOnly
CHECK_DEADLOCK FALSE
PROPERTIES RealsGetTraffic
