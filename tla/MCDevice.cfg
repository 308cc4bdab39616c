CONSTANTS
    t1 = t1
    t2 = t2
    l1 = l1
    l2 = l2
    Devices = {t1, t2, l1, l2}
    Legacy = {l1, l2}
    Id <- Ids
    Registers <- TwoRegisters
    Files = {f}
    Drivers = {"modbus", "sysfs", "dt", "platform"}
    Worlds = {"boot", "hotplug"}
    MaxProbes = 3

SPECIFICATION Spec
SYMMETRY Symmetry
INVARIANTS
    NumbersAreDense
    MapIsLive
    NodeOpensItsDevice
    FilesAreBacked
    UnloadLeavesNothing
CHECK_DEADLOCK FALSE
