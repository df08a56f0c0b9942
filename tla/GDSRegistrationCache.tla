------------------------ MODULE GDSRegistrationCache ------------------------
(***************************************************************************)
(* The class GDSRegistrationCache: a map from device pointers to entries   *)
(* that remembers which buffers are registered with the driver, so that a  *)
(* buffer used again need not be registered again.  Every public operation *)
(* holds mutex_ from its first read to its last write, so each is one step *)
(* here; callers are any threads, in any order.                            *)
(*                                                                         *)
(* A call the driver refuses is an outcome of the operation: the return    *)
(* value is told apart by the action (AcquireSucceeds, AcquireFails), and  *)
(* the set of registrations the driver gives up by the parameter gone.     *)
(***************************************************************************)
EXTENDS CuFile, FiniteSets, Functions

CONSTANTS NullPtr,       \* nullptr
          Lens,          \* the lengths callers pass to acquire
          IdleTimes,     \* the idle times callers pass to evict_idle
          MaxAcquires,   \* bound: acquires that succeed in one behaviour
          MaxNow         \* bound: ticks of the clock

ASSUME NullPtrAssumption == NullPtr \notin Ptrs
ASSUME LensAssumption    == Lens \subseteq Nat /\ IdleTimes \subseteq Nat
ASSUME PtrsAssumption    == IsFiniteSet(Ptrs)
ASSUME BoundsAssumption  == MaxAcquires \in Nat /\ MaxNow \in Nat

VARIABLES entries,       \* entries_: a function from some pointers to entries
          stats,         \* stats_: the four counters that only grow
          now            \* now_us(): the steady clock

cacheVars == <<driver, entries, stats, now>>

CacheEntry == [length : Lens \ {0}, registered : BOOLEAN, hit_count : Nat,
               use_count : Nat, last_used_time : Nat, ref_count : Nat]

CacheStats == [hit_count : Nat, miss_count : Nat,
               register_count : Nat, deregister_count : Nat]

CacheTypeOK ==
    /\ DriverTypeOK
    /\ DOMAIN entries \subseteq Ptrs
    /\ entries \in [DOMAIN entries -> CacheEntry]
    /\ stats \in CacheStats
    /\ now \in Nat

CacheInit ==
    /\ DriverInit
    /\ entries = Restrict(<<>>, {})
    /\ stats = [hit_count |-> 0, miss_count |-> 0,
                register_count |-> 0, deregister_count |-> 0]
    /\ now = 0
-----------------------------------------------------------------------------
\* The entries with p mapped to e, whether or not it had an entry.
Put(p, e) == [q \in DOMAIN entries \cup {p} |-> IF q = p THEN e ELSE entries[q]]

RegisteredEntries == {p \in DOMAIN entries : entries[p].registered}

\* is_registered, for a pointer and a length.
IsRegistered(p, len) ==
    /\ p # NullPtr /\ len # 0
    /\ p \in RegisteredEntries
    /\ entries[p].length = len

\* get_stats: the counters and the two sizes it adds to the snapshot.
GetStats == [hit_count |-> stats.hit_count,
             miss_count |-> stats.miss_count,
             register_count |-> stats.register_count,
             deregister_count |-> stats.deregister_count,
             entry_count |-> Cardinality(DOMAIN entries),
             registered_entry_count |-> Cardinality(RegisteredEntries)]

\* Registrations of the driver that no entry of the map stands for.
Forgotten == DriverHolds \ DOMAIN entries

MismatchedLength(p, len) == entries[p].registered /\ entries[p].length # len
-----------------------------------------------------------------------------
\* Fault: acquire of an old entry takes no reference.
UsedUncounted(e) == [e EXCEPT !.use_count = @ + 1, !.last_used_time = now]

\* An entry handed out once more: what every acquire of an old entry ends with.
Used(e) == [e EXCEPT !.use_count = @ + 1, !.last_used_time = now, !.ref_count = @ + 1]

\* acquire of a pointer with no entry: it is registered and gets one.
AcquireFirst(p, len) ==
    /\ p \notin DOMAIN entries
    /\ AcceptsRegister(p)
    /\ driver' = Registering(p, len)
    /\ entries' = Put(p, [length |-> len, registered |-> TRUE, hit_count |-> 0,
                          use_count |-> 1, last_used_time |-> now, ref_count |-> 1])
    /\ stats' = [stats EXCEPT !.miss_count = @ + 1, !.register_count = @ + 1]

\* acquire of a registered entry of that length.
AcquireHit(p, len) ==
    /\ IsRegistered(p, len)
    /\ entries' = Put(p, Used([entries[p] EXCEPT !.hit_count = @ + 1]))
    /\ stats' = [stats EXCEPT !.hit_count = @ + 1]
    /\ UNCHANGED driver

\* Fault: the deregistration before the new registration is not counted.
AcquireAgainUncounted(p, len) ==
    /\ p \in DOMAIN entries
    /\ ~IsRegistered(p, len)
    /\ IF entries[p].registered THEN AcceptsDeregister(p) ELSE AcceptsRegister(p)
    /\ driver' = Registering(p, len)
    /\ entries' = Put(p, Used([entries[p] EXCEPT !.length = len, !.registered = TRUE]))
    /\ stats' = [stats EXCEPT !.register_count = @ + 1, !.miss_count = @ + 1]

\* acquire of an entry that lost its registration, or has another length:
\* what is registered is deregistered, whoever uses it, and the pointer is
\* registered again.
AcquireAgain(p, len) ==
    /\ p \in DOMAIN entries
    /\ ~IsRegistered(p, len)
    /\ IF entries[p].registered THEN AcceptsDeregister(p) ELSE AcceptsRegister(p)
    /\ driver' = Registering(p, len)
    /\ entries' = Put(p, Used([entries[p] EXCEPT !.length = len, !.registered = TRUE]))
    /\ stats' = [stats EXCEPT !.register_count = @ + 1, !.miss_count = @ + 1,
                              !.deregister_count =
                                    IF entries[p].registered THEN @ + 1 ELSE @]

\* acquire that returns true.
AcquireSucceeds(p, len) ==
    /\ p \in Ptrs /\ len # 0
    /\ stats.hit_count + stats.miss_count < MaxAcquires
    /\ AcquireFirst(p, len) \/ AcquireHit(p, len) \/ AcquireAgain(p, len)
    /\ UNCHANGED now

\* acquire refused before anything changes: an argument that is null or zero,
\* or the first call of the driver fails.
AcquireRefused(p, len) ==
    /\ ~IsRegistered(p, len)
    /\ UNCHANGED <<driver, entries, stats>>

\* Fault: the entry stays marked registered when the registration fails.
AcquireLosesUnnoticed(p, len) ==
    /\ p \in DOMAIN entries /\ len # 0
    /\ MismatchedLength(p, len)
    /\ AcceptsDeregister(p)
    /\ driver' = Deregistering({p})
    /\ stats' = [stats EXCEPT !.deregister_count = @ + 1]
    /\ UNCHANGED entries

\* Fault: the reference is taken before the registration fails.
AcquireLosesReferenced(p, len) ==
    /\ p \in DOMAIN entries /\ len # 0
    /\ MismatchedLength(p, len)
    /\ AcceptsDeregister(p)
    /\ driver' = Deregistering({p})
    /\ entries' = Put(p, [Used(entries[p]) EXCEPT !.registered = FALSE])
    /\ stats' = [stats EXCEPT !.deregister_count = @ + 1]

\* acquire of another length whose deregistration succeeds and whose
\* registration then fails: the entry stays, with its references, but the
\* buffer is no longer registered.
AcquireLoses(p, len) ==
    /\ p \in DOMAIN entries /\ len # 0
    /\ MismatchedLength(p, len)
    /\ AcceptsDeregister(p)
    /\ driver' = Deregistering({p})
    /\ entries' = Put(p, [entries[p] EXCEPT !.registered = FALSE])
    /\ stats' = [stats EXCEPT !.deregister_count = @ + 1]

\* acquire that returns false.
AcquireFails(p, len) ==
    /\ AcquireRefused(p, len) \/ AcquireLoses(p, len)
    /\ UNCHANGED now

\* Fault: release does not look whether there is a reference.
ReleaseUnchecked(p) ==
    /\ p \in DOMAIN entries
    /\ entries' = Put(p, [entries[p] EXCEPT !.ref_count = @ - 1, !.last_used_time = now])
    /\ UNCHANGED <<driver, stats, now>>

\* release that returns true.
ReleaseSucceeds(p) ==
    /\ p \in DOMAIN entries
    /\ entries[p].ref_count > 0
    /\ entries' = Put(p, [entries[p] EXCEPT !.ref_count = @ - 1, !.last_used_time = now])
    /\ UNCHANGED <<driver, stats, now>>

\* release that returns false: a null pointer, no entry, or no reference.
ReleaseFails(p) ==
    /\ p \in DOMAIN entries => entries[p].ref_count = 0
    /\ UNCHANGED cacheVars

\* Fault: evict_idle does not spare buffers in use.
ExpiredOrInUse(idle) ==
    {p \in RegisteredEntries : /\ now >= entries[p].last_used_time
                               /\ now - entries[p].last_used_time >= idle}

\* The entries evict_idle(idle) tries to deregister.
Expired(idle) ==
    {p \in RegisteredEntries : /\ entries[p].ref_count = 0
                               /\ now >= entries[p].last_used_time
                               /\ now - entries[p].last_used_time >= idle}

\* evict_idle: gone are the ones whose deregistration succeeds; the others stay.
EvictIdle(idle, gone) ==
    /\ gone \subseteq Expired(idle)
    /\ \A p \in gone : AcceptsDeregister(p)
    /\ driver' = Deregistering(gone)
    /\ entries' = Restrict(entries, DOMAIN entries \ gone)
    /\ stats' = [stats EXCEPT !.deregister_count = @ + Cardinality(gone)]
    /\ UNCHANGED now

\* force_evict_all, also run by the destructor: every entry goes, whether or
\* not it is in use; gone are the ones whose deregistration succeeds.
ForceEvictAll(gone) ==
    /\ gone \subseteq RegisteredEntries
    /\ \A p \in gone : AcceptsDeregister(p)
    /\ driver' = Deregistering(gone)
    /\ entries' = Restrict(entries, {})
    /\ stats' = [stats EXCEPT !.deregister_count = @ + Cardinality(gone)]
    /\ UNCHANGED now

Tick ==
    /\ now < MaxNow
    /\ now' = now + 1
    /\ UNCHANGED <<driver, entries, stats>>

CacheNext ==
    \/ \E p \in Ptrs \cup {NullPtr}, len \in Lens :
            AcquireSucceeds(p, len) \/ AcquireFails(p, len)
    \/ \E p \in Ptrs \cup {NullPtr} : ReleaseSucceeds(p) \/ ReleaseFails(p)
    \/ \E idle \in IdleTimes : \E gone \in SUBSET Expired(idle) : EvictIdle(idle, gone)
    \/ \E gone \in SUBSET RegisteredEntries : ForceEvictAll(gone)
    \/ Tick

CacheSpec == CacheInit /\ [][CacheNext]_cacheVars
-----------------------------------------------------------------------------
\* What an entry says of its registration is what the driver has: an entry
\* marked registered has exactly its length registered, and an entry that lost
\* its registration has nothing registered.
AgreesWithDriver ==
    \A p \in DOMAIN entries :
        driver[p] = IF entries[p].registered THEN entries[p].length ELSE Unregistered

\* The counters account for every registration there is: each miss registered
\* one buffer; what was registered and not deregistered is what the driver still
\* has; and that is what get_stats reports plus what force_evict_all forgot when
\* the driver refused to give it up.
CountersBalance ==
    /\ stats.miss_count = stats.register_count
    /\ stats.register_count = stats.deregister_count + Cardinality(DriverHolds)
    /\ Cardinality(DriverHolds) = GetStats.registered_entry_count + Cardinality(Forgotten)
=============================================================================
