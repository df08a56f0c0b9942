\* One run of three reads of half the file each: the third wraps around.
CONSTANTS
    p1 = p1
    p2 = p2
    Ptrs = {p1, p2}
    NullPtr = NullPtr
    Lens = {0, 2}
    IdleTimes = {}
    MaxNow = 0
    Sizes = {0, 2}
    FileSizes = {0, 4}
    Align = 2
    RunLengths = {3}
    BufferCounts = {2}
    MaxAcquires = 3
SPECIFICATION Spec
INVARIANTS
    ReadsAreAligned
