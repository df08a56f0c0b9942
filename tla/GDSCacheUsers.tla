--------------------------- MODULE GDSCacheUsers ---------------------------
(***************************************************************************)
(* A registration cache and the threads that use it the way run() does:    *)
(* acquire a buffer, do I/O with it, release it.  The operations of the    *)
(* cache are steps of GDSRegistrationCache; what is added here is which    *)
(* buffer each user has in hand between its acquire and its release, where *)
(* any operation of another thread can come in between.                    *)
(*                                                                         *)
(* Two things decide whether the cache protects a buffer in use: LensOf,   *)
(* the lengths users acquire each pointer with, and QuiescentForce, whether *)
(* force_evict_all is only called when nobody holds a buffer.  The runner  *)
(* of this repository keeps both (one io_size_ for all buffers; the cache  *)
(* is cleared in cleanup()): that is Disciplined.  The class itself asks   *)
(* for neither.                                                            *)
(***************************************************************************)
EXTENDS GDSRegistrationCache

CONSTANTS Users, LensOf, QuiescentForce

ASSUME UsersAssumption == IsFiniteSet(Users)
ASSUME LensOfAssumption == LensOf \in [Ptrs -> SUBSET Lens]
ASSUME QuiescentForceAssumption == QuiescentForce \in BOOLEAN

\* Every pointer is used with one length, and the cache is only cleared idle.
Disciplined ==
    /\ QuiescentForce
    /\ \A p \in Ptrs : \A a, b \in LensOf[p] : a = b

VARIABLE held            \* the buffer and length each user has in hand

vars == <<driver, entries, stats, now, held>>

Handle == [ptr : Ptrs, len : Lens]

NoHandle == [ptr |-> NullPtr, len |-> 0]

Holding == {u \in Users : held[u] # NoHandle}

HoldersOf(p) == {u \in Users : held[u].ptr = p}

TypeOK ==
    /\ CacheTypeOK
    /\ held \in [Users -> Handle \cup {NoHandle}]

Init ==
    /\ CacheInit
    /\ held = [u \in Users |-> NoHandle]
-----------------------------------------------------------------------------
Acquire(u, p, len) ==
    /\ u \notin Holding
    /\ len \in LensOf[p]
    /\ AcquireSucceeds(p, len)
    /\ held' = [held EXCEPT ![u] = [ptr |-> p, len |-> len]]

AcquireInVain(u, p, len) ==
    /\ u \notin Holding
    /\ len \in LensOf[p]
    /\ AcquireFails(p, len)
    /\ UNCHANGED held

\* The user gives its buffer up, whatever release answers.
Release(u) ==
    /\ u \in Holding
    /\ ReleaseSucceeds(held[u].ptr) \/ ReleaseFails(held[u].ptr)
    /\ held' = [held EXCEPT ![u] = NoHandle]

\* Housekeeping by any thread: eviction of idle buffers, of all, and time.
Evict ==
    /\ \E idle \in IdleTimes : \E gone \in SUBSET Expired(idle) : EvictIdle(idle, gone)
    /\ UNCHANGED held

Clear ==
    /\ QuiescentForce => Holding = {}
    /\ \E gone \in SUBSET RegisteredEntries : ForceEvictAll(gone)
    /\ UNCHANGED held

TimePasses == Tick /\ UNCHANGED held

Next ==
    \/ \E u \in Users, p \in Ptrs : \E len \in LensOf[p] :
            Acquire(u, p, len) \/ AcquireInVain(u, p, len)
    \/ \E u \in Users : Release(u)
    \/ Evict
    \/ Clear
    \/ TimePasses

Spec == Init /\ [][Next]_vars
-----------------------------------------------------------------------------
\* A buffer in somebody's hand is registered, with the length its user asked
\* for, in the cache and in the driver, from the acquire to the release.
HeldStaysRegistered ==
    \A u \in Holding : /\ IsRegistered(held[u].ptr, held[u].len)
                       /\ driver[held[u].ptr] = held[u].len

\* ref_count is exactly the number of users that have the buffer in hand: no
\* reference leaks on the failure paths of acquire, none is dropped twice, and
\* the release of a holder always finds its entry.
RefCountsMatchHolders ==
    \A p \in Ptrs :
        IF p \in DOMAIN entries THEN entries[p].ref_count = Cardinality(HoldersOf(p))
                                ELSE HoldersOf(p) = {}

\* Whatever lengths the users ask for, and even when the cache is cleared while
\* buffers are in use, an entry never counts more references than it has
\* holders: no entry is kept from eviction by a user that does not exist.
NoPhantomReference ==
    \A p \in DOMAIN entries : entries[p].ref_count <= Cardinality(HoldersOf(p))

\* The cache does what PinnedBuffers promises: through every operation, the
\* driver has a registration of each buffer in somebody's hand.
Pinning == INSTANCE PinnedBuffers WITH
               NoPtr <- NullPtr,
               pins <- [u \in Users |-> held[u].ptr],
               pinnable <- DriverHolds

PinningSpec == Pinning!PinnedSpec
=============================================================================
