CONSTANTS
    Callers = {c1}
    NoCaller = NoCaller
    Slaves = {s1, s2}
    MaxCalls = 2
    Faults = {"corrupt", "foreign"}

SPECIFICATION Spec
INVARIANT BadReplyIsError
CHECK_DEADLOCK FALSE
