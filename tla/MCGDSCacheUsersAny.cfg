\* Users that ask for the same buffer with different lengths, and a cache that
\* is cleared while buffers are in use.
CONSTANTS
    p1 = p1
    p2 = p2
    Ptrs = {p1, p2}
    NullPtr = NullPtr
    IdleTimes = {0, 1}
    Lens = {0, 1, 2}
    MaxAcquires = 4
    MaxNow = 1
    u1 = u1
    u2 = u2
    Users = {u1, u2}
    LensOf <- AnyLength
    QuiescentForce = FALSE
SYMMETRY Symmetry
SPECIFICATION Spec
INVARIANTS
    CacheTypeOK
    AgreesWithDriver
    CountersBalance
    NoPhantomReference
