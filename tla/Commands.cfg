CONSTANTS
    Addrs = {1, 2}
    Macs = {1}
    MaxReals = 4
    MaxRefs = 4
    Vips = {1}
    TcpVips = {1}
    MaxVips = 2
    Weights = {1}
    Configs = {}
    Rise = 1
    Fall = 1
    MaxOps = 2
    MaxCrashes = 0
    MaxFaults = 0
    MaxRounds = 0
    Texts <- ReloadTexts
    Override <- NoHealthCheck
    Reloaders = {r1, r2}
    Viewers = {w}
    MaxWeight = 2
SPECIFICATION CmdSpec
INVARIANTS ConfigIsTruth RingShown ValidConfigFits
SYMMETRY SessionSymmetry
CHECK_DEADLOCK FALSE
