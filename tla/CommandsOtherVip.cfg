CONSTANTS
    Addrs = {1, 2}
    Macs = {1}
    MaxReals = 4
    MaxRefs = 4
    Vips = {1, 2}
    TcpVips = {1}
    MaxVips = 2
    Weights = {1}
    Configs = {}
    Rise = 1
    Fall = 1
    MaxOps = 2
    MaxCrashes = 0
    MaxFaults = 0
    MaxRounds = 0
    Texts <- VipTexts
    Override <- NoHealthCheck
    Reloaders = {r1, r2}
    Viewers = {w}
    MaxWeight = 2
SPECIFICATION CmdSpec
INVARIANT RingOfItsVip
CHECK_DEADLOCK FALSE
