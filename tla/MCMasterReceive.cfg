CONSTANTS
    Callers = {c1, c2}
    NoCaller = NoCaller
    Slaves = {s1}
    MaxCalls = 2
    Faults = {}

SPECIFICATION Spec
INVARIANT ReceivesOwnAnswer

CHECK_DEADLOCK FALSE
