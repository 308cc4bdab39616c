CONSTANTS
    Callers = {c1, c2}
    NoCaller = NoCaller
    Slaves = {s1}
    MaxCalls = 4
    Faults = {"lost", "exception", "early", "nomem"}

SPECIFICATION FairSpec
INVARIANTS
    RightAnswer
PROPERTIES
    AcceptOnlyWhenWaiting
    ImplementsSerialBus
    CallsReturn
    AnsweredCallsSucceed
CHECK_DEADLOCK FALSE
