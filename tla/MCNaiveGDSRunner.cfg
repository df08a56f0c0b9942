\* One buffer and a spare address for it; three runs of one or two iterations,
\* over any number of inits and cleanups.
CONSTANTS
    p1 = p1
    p2 = p2
    Ptrs = {p1, p2}
    Sizes = {0, 2}
    FileSizes = {0, 4}
    RunLengths = {0, 1, 2}
    MaxRuns = 3
SPECIFICATION NaiveSpec
INVARIANTS
    ResourcesInOrder
    RegisteredPerIteration
    RefusalIsFinal
