CONSTANTS
    Drivers = {"irq", "timer", "button", "dt", "mmio", "controller"}
    Users = {u1, u2}
    Pins <- PinSet
    MaxLoads = 2
    MaxSamples = 10
    MaxWrites = 2

SPECIFICATION FairSpec
INVARIANTS
    CallbackHasWhatItUses
    StoppedStaysStopped
    NothingHeldOutside
    LedCountsPresses
    PinsAreDriven
PROPERTY ExitEnds
CHECK_DEADLOCK FALSE
