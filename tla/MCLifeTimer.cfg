CONSTANTS
    Drivers = {"controller"}
    Users = {}
    Pins = {}
    MaxLoads = 1
    MaxSamples = 0
    MaxWrites = 0

SPECIFICATION Spec
INVARIANT TimerCannotTriggerAgain
CHECK_DEADLOCK FALSE
