CONSTANTS
    Callers = {c1, c2}
    NoCaller = NoCaller
    Slaves = {s1, s2}
    MaxCalls = 2
    Faults = {"lost", "corrupt", "foreign", "exception", "late", "slow", "early", "preempt", "signal", "nomem"}

SPECIFICATION Spec
SYMMETRY Symmetry
INVARIANTS
    HolderOwnsRequest
    NoLostWakeup
    FailurePublishesNothing

CHECK_DEADLOCK FALSE
