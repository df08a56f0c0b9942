\* Up to two workers and three requests on a file of two and a half slots.
CONSTANTS
    Ptrs = {0, 1}
    cases <- AllCases
    Configs <- AllConfigs
    file_size = 5
    Shift = 1
    NoOne = NoOne
SPECIFICATION Spec
INVARIANTS
    MicroTypeOK
    OkMeansComplete
    FailuresAreKept
    StopsPromptly
    TeardownIsLast
PROPERTIES
    Terminates
CHECK_DEADLOCK FALSE
