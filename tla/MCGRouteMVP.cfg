\* Three files, of lengths from 0 to one more than the capacity, in three epochs;
\* a checkpoint after every epoch, after every second one, and an interval of 0.
CONSTANTS
    a = a
    b = b
    c = c
    None = None
    Paths <- MCPaths
    Sizes = {0, 1, 2, 4}
    Capacity = 3
    Epochs = 3
    Intervals = {0, 1, 2}
    VerifyLoad = TRUE
SPECIFICATION Spec
SYMMETRY Symmetry
INVARIANTS
    BytesAccounted
    KeepsMostRecent
    PhysicalReadsExplained
    ReportIsWhole
