CONSTANTS
    Addrs = {1, 2}
    Macs = {1, 2}
    MaxReals = 3
    MaxRefs = 1
    Slots = {0}
    Cpus = {1, 2}
    Flows = {1}
    SlotOf <- OneSlot
    Packets <- TcpPackets
    MaxPackets = 3
    MaxOps = 1
SPECIFICATION DpSpec
PROPERTY PlacedFlowsStay
CHECK_DEADLOCK FALSE
