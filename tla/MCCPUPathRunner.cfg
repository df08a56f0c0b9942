\* I/O of one and of three bytes on files of none, two and five, read in any
\* pieces; the file changes its size once, at any time.
CONSTANTS
    Sizes = {0, 1, 3}
    FileSizes = {0, 2, 5}
    RunLengths = {0, 1, 3}
    MaxRuns = 2
    MaxResizes = 1
SPECIFICATION CPUSpec
INVARIANTS
    HoldsWhatItKnows
    CopiesWholeReads
    EndOfFileIsReal
PROPERTIES
    CallsReturn
