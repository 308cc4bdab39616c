CONSTANTS
    Cap = 8
    T35 = 3
    Trigger = 4
    RxTimeout = 2
    Gap = 4
    FrameLens = {3, 4}
    MaxFrames = 3
    Kernels = {"prompt", "preempting"}

SPECIFICATION FairSpec
INVARIANTS
    BufferBound
    OnlyWholeFrames
PROPERTY EveryFrameReported
