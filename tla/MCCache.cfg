CONSTANTS
    pm = pm
    Readers = {r1, r2}
    NoReader = NoReader
    Sensors = {pm}
    NumVal <- TwoRegisters
    Intervals = {0, 1}
    Tunable = {"alone"}
    MaxTime = 3
    Horizon <- Clock

SPECIFICATION FairSpec
INVARIANTS
    StampIsBacked
    FreshAnswer
    NewestIsKept
PROPERTIES
    ReadsReturn
