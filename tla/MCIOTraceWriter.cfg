\* Two threads and four appends in all, over any number of opens and closes.
CONSTANTS
    Threads = {t1, t2}
    NoOne = NoOne
    MaxAppends = 4
    CacheMiss <- MCCacheMiss
SPECIFICATION Spec
INVARIANTS
    RowsInOrder
    ReadsWhatWasWritten
    AppendsAreKept
PROPERTIES
    AppendsReturn
