\* Blocks of two units; lists of up to two files, a cold and a warm run.
CONSTANTS
    Buffer = Buffer
    Ptrs = {Buffer}
    Align = 2
    Lists <- MCLists
    PathLists <- MCPathLists
    OldCsv <- MCOldCsv
    Runs = 2
SPECIFICATION Spec
INVARIANTS
    EveryFileCounted
    RunGivesBack
    CsvTellsSuccesses
