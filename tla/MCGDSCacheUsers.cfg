\* Three users share two buffers with one length each, as CachedGDSRunner uses
\* them; the driver may refuse any call.
CONSTANTS
    p1 = p1
    p2 = p2
    Ptrs = {p1, p2}
    NullPtr = NullPtr
    IdleTimes = {0, 1}
    Lens = {1}
    MaxAcquires = 5
    MaxNow = 2
    u1 = u1
    u2 = u2
    u3 = u3
    Users = {u1, u2, u3}
    LensOf <- OneLength
    QuiescentForce = TRUE
SYMMETRY Symmetry
SPECIFICATION Spec
INVARIANTS
    HeldStaysRegistered
    RefCountsMatchHolders
PROPERTIES
    PinningSpec
