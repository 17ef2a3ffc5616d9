CONSTANTS
    Addrs = {1, 2}
    Macs = {1, 2}
    MaxReals = 3
    MaxRefs = 1
    Slots = {0}
    Cpus = {1}
    Flows = {1}
    SlotOf <- OneSlot
    Packets <- DataPackets
    MaxPackets = 1
    MaxOps = 2
SPECIFICATION DpSpec
PROPERTY NoFrameWithoutMac
CHECK_DEADLOCK FALSE
