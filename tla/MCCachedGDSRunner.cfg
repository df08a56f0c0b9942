\* Two buffers in rotation and one; runs of one and of three iterations, up to
\* four acquires in all, so that a second run follows a successful or a failed
\* one, before or after another init.
CONSTANTS
    p1 = p1
    p2 = p2
    Ptrs = {p1, p2}
    NullPtr = NullPtr
    Lens = {0, 2}
    IdleTimes = {}
    MaxNow = 0
    Sizes = {0, 2}
    FileSizes = {0, 4}
    Align = 2
    RunLengths = {0, 1, 3}
    BufferCounts = {0, 2}
    MaxAcquires = 4
SPECIFICATION Spec
INVARIANTS
    RunnerTypeOK
    ResourcesInOrder
    OnlyBufferInUsePinned
    MetricsExplainRun
PROPERTIES
    CallsReturn
