CONSTANTS
    Addrs = {1, 2}
    Macs = {1, 2}
    MaxReals = 3
    MaxRefs = 1
    Slots = {0}
    Cpus = {c1, c2}
    Flows = {1}
    SlotOf <- OneSlot
    Packets <- ConnPackets
    MaxPackets = 3
    MaxOps = 1
SYMMETRY CpuSymmetry
SPECIFICATION DpSpec
PROPERTY ConnectionsStay
CHECK_DEADLOCK FALSE
