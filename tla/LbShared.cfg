CONSTANTS
    Addrs = {1, 2}
    Macs = {1}
    MaxReals = 4
    MaxRefs = 4
    Vips = {1, 2}
    TcpVips = {1}
    MaxVips = 3
    Weights = {1}
    Configs <- SharedConfigs
    Rise = 1
    Fall = 1
    MaxOps = 0
    MaxCrashes = 0
    MaxFaults = 0
    MaxRounds = 0
SPECIFICATION LbFairSpec
PROPERTIES RealsGetTraffic
CHECK_DEADLOCK FALSE
