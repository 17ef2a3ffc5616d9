CONSTANTS
    Addrs = {1, 2, 3}
    Macs = {1}
    MaxReals = 4
    MaxRefs = 1
SPECIFICATION RTSpec
PROPERTY ReuseAfterFullTurn
