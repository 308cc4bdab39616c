CONSTANTS
    p1 = p1
    p2 = p2
    mine = mine
    shared = shared
    Procs = {p1, p2}
    Files = {mine, shared}
    Users <- UsersOfFiles
    Drivers = {"pcd", "pcd_n", "text", "template", "sysfs", "modbus"}
    Number = 2
    Perm <- Permissions
    Size = 1
    Command = 2
    MaxPosition = 2

SPECIFICATION Spec
INVARIANTS
    PositionInRange
    AllOrNothing
    FilesHoldModule
PROPERTIES
    LoadingEnds
CHECK_DEADLOCK FALSE
