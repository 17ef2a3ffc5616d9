CONSTANTS
    Addrs = {1, 2, 3}
    Macs = {1, 2}
    MaxReals = 3
    MaxRefs = 2
    Slots = {0}
SPECIFICATION CPSpec
INVARIANTS MacOfItsReal RingServes CPInv
PROPERTIES MacOutlivesAddress IdsKeepTheirMeaning
