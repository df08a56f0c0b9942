\* One buffered request by one worker.
CONSTANTS
    Ptrs = {0, 1}
    cases <- OneCase
    Configs <- OneConfig
    file_size = 5
    Shift = 1
    NoOne = NoOne
SPECIFICATION Spec
INVARIANTS
    CountedBytesMoved
CHECK_DEADLOCK FALSE
