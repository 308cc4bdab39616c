CONSTANTS
    Requests <- AllRequests
    Address = 17
    Seeds = {5, 40503}
    Deltas = {1, 128}

SPECIFICATION Spec
INVARIANTS
    RequestIsUnderstood
    ReplyIsUnderstood
    DataIsTheReplys
    DamageIsNoticed
