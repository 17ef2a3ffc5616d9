CONSTANTS
    Addrs = {1, 2}
    Macs = {1}
    MaxReals = 4
    MaxRefs = 4
    Vips = {1, 2}
    TcpVips = {1}
    MaxVips = 3
    Weights = {0, 1}
    Configs <- ReloadConfigs
    Rise = 1
    Fall = 1
    MaxOps = 2
    MaxCrashes = 1
    MaxFaults = 1
    MaxRounds = 0
SPECIFICATION LbSpec
INVARIANTS VipHasRing RingIdsLive RefsCountUsers MembersKeepIds MapsMatchConfig MacOfItsReal
PROPERTIES RestartKeepsTraffic DrivesDataPlane MacOutlivesAddress IdsKeepTheirMeaning
CHECK_DEADLOCK FALSE
