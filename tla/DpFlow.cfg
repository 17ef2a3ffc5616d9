CONSTANTS
    Addrs = {1, 2, 3}
    Macs = {1, 2}
    MaxReals = 3
    MaxRefs = 1
    Slots = {0}
    Cpus = {1}
    Flows = {1}
    SlotOf <- OneSlot
    Packets <- AllWays
    MaxPackets = 2
    MaxOps = 3
SPECIFICATION DpSpec
INVARIANT EveryPacketCounted
PROPERTIES SynFollowsRing FrameToItsReal NoRealOnlyWhenFreed
CHECK_DEADLOCK FALSE
