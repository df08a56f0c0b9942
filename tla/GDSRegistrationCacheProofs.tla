--------------------- MODULE GDSRegistrationCacheProofs ---------------------
(***************************************************************************)
(* Invariants of the registration cache, for every set of pointers and     *)
(* lengths and without any bound on the number of operations.              *)
(***************************************************************************)
EXTENDS GDSRegistrationCache, FiniteSetTheorems, TLAPS

\* What Restrict leaves in the map.
LEMMA RestrictMap ==
    ASSUME NEW f, NEW S
    PROVE  /\ DOMAIN Restrict(f, S) = S
           /\ \A q \in S : Restrict(f, S)[q] = f[q]
  BY DEF Restrict

\* A well-typed entry put at a pointer leaves a well-typed map.
LEMMA PutType ==
    ASSUME CacheTypeOK, NEW p \in Ptrs, NEW e \in CacheEntry
    PROVE  /\ DOMAIN Put(p, e) \subseteq Ptrs
           /\ Put(p, e) \in [DOMAIN Put(p, e) -> CacheEntry]
  BY DEF CacheTypeOK, Put

\* Dropping entries leaves a well-typed map.
LEMMA RestrictType ==
    ASSUME CacheTypeOK, NEW S \in SUBSET DOMAIN entries
    PROVE  /\ DOMAIN Restrict(entries, S) \subseteq Ptrs
           /\ Restrict(entries, S) \in [DOMAIN Restrict(entries, S) -> CacheEntry]
  BY DEF CacheTypeOK, Restrict

\* The driver's registrations keep their type.
LEMMA DriverType ==
    ASSUME DriverTypeOK
    PROVE  /\ \A p \in Ptrs, len \in Nat : Registering(p, len) \in [Ptrs -> Nat]
           /\ \A gone : Deregistering(gone) \in [Ptrs -> Nat]
  BY DEF DriverTypeOK, Registering, Deregistering, Unregistered

\* The counters keep their types through every update the operations make.
LEMMA StatsType ==
    ASSUME CacheTypeOK, NEW n \in Nat, NEW again \in BOOLEAN
    PROVE  /\ [stats EXCEPT !.hit_count = @ + 1] \in CacheStats
           /\ [stats EXCEPT !.miss_count = @ + 1, !.register_count = @ + 1] \in CacheStats
           /\ [stats EXCEPT !.deregister_count = @ + n] \in CacheStats
           /\ [stats EXCEPT !.register_count = @ + 1, !.miss_count = @ + 1,
                            !.deregister_count = IF again THEN @ + 1 ELSE @] \in CacheStats
  <1> DEFINE h == stats.hit_count + 1
             m == stats.miss_count + 1
             r == stats.register_count + 1
             d == stats.deregister_count + n
             x == IF again THEN stats.deregister_count + 1 ELSE stats.deregister_count
  <1>1. h \in Nat /\ m \in Nat /\ r \in Nat /\ d \in Nat /\ x \in Nat
    BY DEF CacheTypeOK, CacheStats
  <1> HIDE DEF h, m, r, d, x
  <1>2. /\ [stats EXCEPT !.hit_count = h] \in CacheStats
        /\ [stats EXCEPT !.miss_count = m, !.register_count = r] \in CacheStats
        /\ [stats EXCEPT !.deregister_count = d] \in CacheStats
        /\ [stats EXCEPT !.register_count = r, !.miss_count = m,
                         !.deregister_count = x] \in CacheStats
    BY <1>1 DEF CacheTypeOK, CacheStats
  <1> QED BY <1>2 DEF h, m, r, d, x

\* The fields of an entry of the map.
LEMMA EntryFields ==
    ASSUME CacheTypeOK, NEW p \in DOMAIN entries
    PROVE  /\ p \in Ptrs /\ entries[p] \in CacheEntry /\ now \in Nat
           /\ entries[p].hit_count \in Nat /\ entries[p].use_count \in Nat
           /\ entries[p].ref_count \in Nat /\ entries[p].registered \in BOOLEAN
           /\ entries[p].length \in Lens \ {0}
  BY DEF CacheTypeOK, CacheEntry

\* An entry handed out once more is well typed.
LEMMA UsedType ==
    ASSUME CacheTypeOK, NEW e \in CacheEntry
    PROVE  Used(e) \in CacheEntry
  <1> DEFINE u == e.use_count + 1
             r == e.ref_count + 1
  <1>1. u \in Nat /\ r \in Nat /\ now \in Nat
    BY DEF CacheTypeOK, CacheEntry
  <1> HIDE DEF u, r
  <1>2. [e EXCEPT !.use_count = u, !.last_used_time = now, !.ref_count = r] \in CacheEntry
    BY <1>1 DEF CacheEntry
  <1> QED BY <1>2 DEF u, r, Used
-----------------------------------------------------------------------------
\* Type correctness of the initial state.
LEMMA InitType == CacheInit => CacheTypeOK
  BY DEF CacheInit, DriverInit, CacheTypeOK, DriverTypeOK, Restrict, CacheStats,
         Unregistered

\* acquire keeps the types, whether it succeeds or fails.
LEMMA AcquireType ==
    ASSUME CacheTypeOK, NEW p \in Ptrs \cup {NullPtr}, NEW len \in Lens,
           AcquireSucceeds(p, len) \/ AcquireFails(p, len)
    PROVE  CacheTypeOK'
  <1> USE LensAssumption
  <1>1. CASE p \in Ptrs /\ len # 0 /\ AcquireFirst(p, len) /\ UNCHANGED now
    <2> DEFINE e == [length |-> len, registered |-> TRUE, hit_count |-> 0,
                     use_count |-> 1, last_used_time |-> now, ref_count |-> 1]
    <2>1. e \in CacheEntry
      BY <1>1 DEF CacheTypeOK, CacheEntry
    <2>2. entries' = Put(p, e)
      BY <1>1 DEF AcquireFirst
    <2>3. DOMAIN entries' \subseteq Ptrs /\ entries' \in [DOMAIN entries' -> CacheEntry]
      BY <1>1, <2>1, <2>2, PutType
    <2>4. DriverTypeOK'
      BY <1>1, DriverType DEF AcquireFirst, CacheTypeOK, DriverTypeOK
    <2>5. stats' \in CacheStats
      BY <1>1, StatsType DEF AcquireFirst
    <2> QED BY <1>1, <2>3, <2>4, <2>5 DEF CacheTypeOK
  <1>2. CASE p \in Ptrs /\ len # 0 /\ AcquireHit(p, len) /\ UNCHANGED now
    <2> DEFINE e == Used([entries[p] EXCEPT !.hit_count = @ + 1])
    <2>1. e \in CacheEntry
      <3>1. p \in DOMAIN entries
        BY <1>2 DEF AcquireHit, IsRegistered, RegisteredEntries
      <3>2. [entries[p] EXCEPT !.hit_count = @ + 1] \in CacheEntry
        BY <3>1, EntryFields DEF CacheEntry
      <3> QED BY <3>2, UsedType
    <2>2. entries' = Put(p, e)
      BY <1>2 DEF AcquireHit
    <2>3. DOMAIN entries' \subseteq Ptrs /\ entries' \in [DOMAIN entries' -> CacheEntry]
      BY <1>2, <2>1, <2>2, PutType
    <2>4. stats' \in CacheStats
      BY <1>2, StatsType DEF AcquireHit
    <2> QED BY <1>2, <2>3, <2>4 DEF CacheTypeOK, DriverTypeOK, AcquireHit
  <1>3. CASE p \in Ptrs /\ len # 0 /\ AcquireAgain(p, len) /\ UNCHANGED now
    <2> DEFINE e == Used([entries[p] EXCEPT !.length = len, !.registered = TRUE])
    <2>1. e \in CacheEntry
      <3>1. [entries[p] EXCEPT !.length = len, !.registered = TRUE] \in CacheEntry
        BY <1>3, EntryFields DEF AcquireAgain, CacheEntry
      <3> QED BY <3>1, UsedType
    <2>2. entries' = Put(p, e)
      BY <1>3 DEF AcquireAgain
    <2>3. DOMAIN entries' \subseteq Ptrs /\ entries' \in [DOMAIN entries' -> CacheEntry]
      BY <1>3, <2>1, <2>2, PutType
    <2>4. DriverTypeOK'
      BY <1>3, DriverType DEF AcquireAgain, CacheTypeOK, DriverTypeOK
    <2>5. stats' \in CacheStats
      <3>1. entries[p].registered \in BOOLEAN
        BY <1>3, EntryFields DEF AcquireAgain
      <3> QED BY <1>3, <3>1, StatsType DEF AcquireAgain
    <2> QED BY <1>3, <2>3, <2>4, <2>5 DEF CacheTypeOK
  <1>4. CASE AcquireLoses(p, len) /\ UNCHANGED now
    <2> DEFINE e == [entries[p] EXCEPT !.registered = FALSE]
    <2>1. p \in Ptrs /\ e \in CacheEntry
      BY <1>4 DEF CacheTypeOK, CacheEntry, AcquireLoses
    <2>2. entries' = Put(p, e)
      BY <1>4 DEF AcquireLoses
    <2>3. DOMAIN entries' \subseteq Ptrs /\ entries' \in [DOMAIN entries' -> CacheEntry]
      BY <2>1, <2>2, PutType
    <2>4. DriverTypeOK'
      BY <1>4, DriverType DEF AcquireLoses, CacheTypeOK, DriverTypeOK
    <2>5. stats' \in CacheStats
      BY <1>4, StatsType DEF AcquireLoses
    <2> QED BY <1>4, <2>3, <2>4, <2>5 DEF CacheTypeOK
  <1>5. CASE AcquireRefused(p, len) /\ UNCHANGED now
    BY <1>5 DEF AcquireRefused, CacheTypeOK, DriverTypeOK
  <1> QED
    BY <1>1, <1>2, <1>3, <1>4, <1>5 DEF AcquireSucceeds, AcquireFails

\* So does release.
LEMMA ReleaseType ==
    ASSUME CacheTypeOK, NEW p \in Ptrs \cup {NullPtr},
           ReleaseSucceeds(p) \/ ReleaseFails(p)
    PROVE  CacheTypeOK'
  <1>1. CASE ReleaseSucceeds(p)
    <2> DEFINE e == [entries[p] EXCEPT !.ref_count = @ - 1, !.last_used_time = now]
    <2>1. p \in Ptrs /\ e \in CacheEntry
      <3> DEFINE r == entries[p].ref_count - 1
      <3>1. p \in Ptrs /\ entries[p] \in CacheEntry /\ now \in Nat /\ r \in Nat
        BY <1>1, EntryFields DEF ReleaseSucceeds
      <3> HIDE DEF r
      <3>2. [entries[p] EXCEPT !.ref_count = r, !.last_used_time = now] \in CacheEntry
        BY <3>1 DEF CacheEntry
      <3> QED BY <3>1, <3>2 DEF r
    <2>2. entries' = Put(p, e)
      BY <1>1 DEF ReleaseSucceeds
    <2>3. DOMAIN entries' \subseteq Ptrs /\ entries' \in [DOMAIN entries' -> CacheEntry]
      BY <2>1, <2>2, PutType
    <2> QED BY <1>1, <2>3 DEF ReleaseSucceeds, CacheTypeOK, DriverTypeOK
  <1>2. CASE ReleaseFails(p)
    BY <1>2 DEF ReleaseFails, cacheVars, CacheTypeOK, DriverTypeOK
  <1> QED BY <1>1, <1>2

\* And the two evictions, which drop entries and registrations.
LEMMA EvictType ==
    ASSUME CacheTypeOK, NEW S \in SUBSET DOMAIN entries, NEW gone \in SUBSET Ptrs,
           driver' = Deregistering(gone), entries' = Restrict(entries, S),
           stats' = [stats EXCEPT !.deregister_count = @ + Cardinality(gone)],
           now' = now
    PROVE  CacheTypeOK'
  <1>1. Cardinality(gone) \in Nat
    BY PtrsAssumption, FS_Subset, FS_CardinalityType
  <1>2. stats' \in CacheStats
    BY <1>1, StatsType
  <1>3. DriverTypeOK'
    BY DriverType DEF CacheTypeOK, DriverTypeOK
  <1>4. DOMAIN entries' \subseteq Ptrs /\ entries' \in [DOMAIN entries' -> CacheEntry]
    BY RestrictType
  <1> QED BY <1>2, <1>3, <1>4 DEF CacheTypeOK

\* Type correctness of every step.
LEMMA NextType == CacheTypeOK /\ [CacheNext]_cacheVars => CacheTypeOK'
  <1> SUFFICES ASSUME CacheTypeOK, [CacheNext]_cacheVars
               PROVE  CacheTypeOK'
    OBVIOUS
  <1>1. ASSUME NEW p \in Ptrs \cup {NullPtr}, NEW len \in Lens,
               AcquireSucceeds(p, len) \/ AcquireFails(p, len)
        PROVE  CacheTypeOK'
    BY <1>1, AcquireType
  <1>2. ASSUME NEW p \in Ptrs \cup {NullPtr}, ReleaseSucceeds(p) \/ ReleaseFails(p)
        PROVE  CacheTypeOK'
    BY <1>2, ReleaseType
  <1>3. ASSUME NEW idle \in IdleTimes, NEW gone \in SUBSET Expired(idle),
               EvictIdle(idle, gone)
        PROVE  CacheTypeOK'
    <2>1. gone \in SUBSET Ptrs
      BY <1>3 DEF Expired, RegisteredEntries, CacheTypeOK
    <2> QED BY <1>3, <2>1, EvictType DEF EvictIdle
  <1>4. ASSUME NEW gone \in SUBSET RegisteredEntries, ForceEvictAll(gone)
        PROVE  CacheTypeOK'
    <2>1. gone \in SUBSET Ptrs
      BY <1>4 DEF RegisteredEntries, CacheTypeOK
    <2> QED BY <1>4, <2>1, EvictType DEF ForceEvictAll
  <1>5. CASE Tick
    BY <1>5 DEF Tick, CacheTypeOK, DriverTypeOK
  <1>6. CASE UNCHANGED cacheVars
    BY <1>6 DEF cacheVars, CacheTypeOK, DriverTypeOK
  <1> QED BY <1>1, <1>2, <1>3, <1>4, <1>5, <1>6 DEF CacheNext

\* The state of the cache and of the driver always has its types: no counter
\* and no reference count ever goes below zero.
THEOREM CacheTypeCorrect == CacheSpec => []CacheTypeOK
  BY InitType, NextType, PTL DEF CacheSpec
-----------------------------------------------------------------------------
\* The registrations of the driver after each kind of call.
LEMMA DriverMap ==
    ASSUME DriverTypeOK
    PROVE  /\ \A p \in Ptrs, len \in Nat :
                 /\ Registering(p, len)[p] = len
                 /\ \A q \in Ptrs \ {p} : Registering(p, len)[q] = driver[q]
           /\ \A gone : \A q \in Ptrs :
                 Deregistering(gone)[q] = IF q \in gone THEN 0 ELSE driver[q]
  BY DEF DriverTypeOK, Registering, Deregistering, Unregistered

\* What the updates of an entry leave of its registration and its references.
LEMMA UpdateFields ==
    ASSUME NEW e \in CacheEntry, NEW len, NEW a, NEW b
    PROVE  /\ Used(e).registered = e.registered
           /\ Used(e).length = e.length
           /\ Used(e).ref_count = e.ref_count + 1
           /\ [e EXCEPT !.hit_count = a].registered = e.registered
           /\ [e EXCEPT !.hit_count = a].length = e.length
           /\ [e EXCEPT !.hit_count = a].ref_count = e.ref_count
           /\ [e EXCEPT !.length = len, !.registered = TRUE].registered = TRUE
           /\ [e EXCEPT !.length = len, !.registered = TRUE].length = len
           /\ [e EXCEPT !.length = len, !.registered = TRUE].ref_count = e.ref_count
           /\ [e EXCEPT !.registered = FALSE].registered = FALSE
           /\ [e EXCEPT !.registered = FALSE].ref_count = e.ref_count
           /\ [e EXCEPT !.ref_count = a, !.last_used_time = b].registered = e.registered
           /\ [e EXCEPT !.ref_count = a, !.last_used_time = b].length = e.length
           /\ [e EXCEPT !.ref_count = a, !.last_used_time = b].ref_count = a
  BY DEF CacheEntry, Used

\* The initial state agrees: there is no entry.
LEMMA InitAgrees == CacheInit => AgreesWithDriver
  BY DEF CacheInit, AgreesWithDriver, Restrict

\* acquire leaves the entries in agreement with the driver.
LEMMA AcquireAgrees ==
    ASSUME CacheTypeOK, AgreesWithDriver,
           NEW p \in Ptrs \cup {NullPtr}, NEW len \in Lens,
           AcquireSucceeds(p, len) \/ AcquireFails(p, len)
    PROVE  AgreesWithDriver'
  <1> USE LensAssumption
  <1>1. CASE p \in Ptrs /\ AcquireFirst(p, len)
    <2>1. /\ DOMAIN entries' = DOMAIN entries \cup {p}
          /\ entries'[p].registered /\ entries'[p].length = len
          /\ \A q \in DOMAIN entries \ {p} : entries'[q] = entries[q]
      BY <1>1 DEF AcquireFirst, Put
    <2>2. driver'[p] = len /\ \A q \in Ptrs \ {p} : driver'[q] = driver[q]
      BY <1>1, DriverMap DEF AcquireFirst, CacheTypeOK
    <2> QED BY <2>1, <2>2 DEF AgreesWithDriver, CacheTypeOK
  <1>2. CASE AcquireHit(p, len)
    <2>1. p \in DOMAIN entries /\ p \in Ptrs
      BY <1>2 DEF AcquireHit, IsRegistered, RegisteredEntries, CacheTypeOK
    <2>2. /\ DOMAIN entries' = DOMAIN entries \cup {p}
          /\ entries'[p] = Used([entries[p] EXCEPT !.hit_count = @ + 1])
          /\ \A q \in DOMAIN entries \ {p} : entries'[q] = entries[q]
      BY <1>2 DEF AcquireHit, Put
    <2>3. /\ entries'[p].registered = entries[p].registered
          /\ entries'[p].length = entries[p].length
      <3> DEFINE e == [entries[p] EXCEPT !.hit_count = @ + 1]
      <3>1. e \in CacheEntry
        BY <2>1, EntryFields DEF CacheEntry
      <3>2. Used(e).registered = e.registered /\ Used(e).length = e.length
        BY <3>1, UpdateFields
      <3> QED BY <2>1, <2>2, <3>2, EntryFields, UpdateFields
    <2> QED BY <1>2, <2>1, <2>2, <2>3 DEF AgreesWithDriver, AcquireHit
  <1>3. CASE len # 0 /\ AcquireAgain(p, len)
    <2>1. p \in DOMAIN entries /\ p \in Ptrs
      BY <1>3 DEF AcquireAgain, CacheTypeOK
    <2>2. /\ DOMAIN entries' = DOMAIN entries \cup {p}
          /\ entries'[p] = Used([entries[p] EXCEPT !.length = len, !.registered = TRUE])
          /\ \A q \in DOMAIN entries \ {p} : entries'[q] = entries[q]
      BY <1>3 DEF AcquireAgain, Put
    <2>3. entries'[p].registered /\ entries'[p].length = len
      <3> DEFINE e == [entries[p] EXCEPT !.length = len, !.registered = TRUE]
      <3>1. e \in CacheEntry
        BY <1>3, <2>1, EntryFields DEF AcquireAgain, CacheEntry
      <3>2. Used(e).registered = e.registered /\ Used(e).length = e.length
        BY <3>1, UpdateFields
      <3>3. e.registered = TRUE /\ e.length = len
        BY <2>1, EntryFields DEF CacheEntry
      <3> QED BY <2>2, <3>2, <3>3
    <2>4. driver'[p] = len /\ \A q \in Ptrs \ {p} : driver'[q] = driver[q]
      BY <1>3, <2>1, DriverMap DEF AcquireAgain, CacheTypeOK
    <2> QED BY <2>1, <2>2, <2>3, <2>4 DEF AgreesWithDriver, CacheTypeOK
  <1>4. CASE AcquireLoses(p, len)
    <2>1. p \in DOMAIN entries /\ p \in Ptrs
      BY <1>4 DEF AcquireLoses, CacheTypeOK
    <2>2. /\ DOMAIN entries' = DOMAIN entries \cup {p}
          /\ entries'[p] = [entries[p] EXCEPT !.registered = FALSE]
          /\ \A q \in DOMAIN entries \ {p} : entries'[q] = entries[q]
      BY <1>4 DEF AcquireLoses, Put
    <2>3. ~entries'[p].registered
      BY <2>1, <2>2, EntryFields, UpdateFields
    <2>4. driver'[p] = 0 /\ \A q \in Ptrs \ {p} : driver'[q] = driver[q]
      BY <1>4, <2>1, DriverMap DEF AcquireLoses, CacheTypeOK
    <2> QED BY <2>1, <2>2, <2>3, <2>4 DEF AgreesWithDriver, CacheTypeOK, Unregistered
  <1>5. CASE AcquireRefused(p, len)
    BY <1>5 DEF AcquireRefused, AgreesWithDriver
  <1> QED
    BY <1>1, <1>2, <1>3, <1>4, <1>5 DEF AcquireSucceeds, AcquireFails

\* release changes neither a registration nor what an entry says of it.
LEMMA ReleaseAgrees ==
    ASSUME CacheTypeOK, AgreesWithDriver, NEW p,
           ReleaseSucceeds(p) \/ ReleaseFails(p)
    PROVE  AgreesWithDriver'
  <1>1. CASE ReleaseSucceeds(p)
    <2>1. p \in DOMAIN entries
      BY <1>1 DEF ReleaseSucceeds
    <2>2. /\ DOMAIN entries' = DOMAIN entries \cup {p}
          /\ entries'[p] = [entries[p] EXCEPT !.ref_count = @ - 1, !.last_used_time = now]
          /\ \A q \in DOMAIN entries \ {p} : entries'[q] = entries[q]
      BY <1>1 DEF ReleaseSucceeds, Put
    <2>3. /\ entries'[p].registered = entries[p].registered
          /\ entries'[p].length = entries[p].length
      BY <2>1, <2>2, EntryFields, UpdateFields
    <2> QED BY <1>1, <2>1, <2>2, <2>3 DEF AgreesWithDriver, ReleaseSucceeds
  <1>2. CASE ReleaseFails(p)
    BY <1>2 DEF ReleaseFails, cacheVars, AgreesWithDriver
  <1> QED BY <1>1, <1>2

\* An eviction deregisters only pointers whose entries it drops.
LEMMA EvictAgrees ==
    ASSUME CacheTypeOK, AgreesWithDriver, NEW S \in SUBSET DOMAIN entries, NEW gone,
           S \cap gone = {},
           driver' = Deregistering(gone), entries' = Restrict(entries, S)
    PROVE  AgreesWithDriver'
  <1>1. DOMAIN entries' = S /\ \A q \in S : entries'[q] = entries[q]
    BY RestrictMap
  <1>2. \A q \in S : driver'[q] = driver[q]
    BY DriverMap DEF CacheTypeOK
  <1> QED BY <1>1, <1>2 DEF AgreesWithDriver

\* Every step keeps the agreement.
LEMMA NextAgrees ==
    CacheTypeOK /\ AgreesWithDriver /\ [CacheNext]_cacheVars => AgreesWithDriver'
  <1> SUFFICES ASSUME CacheTypeOK, AgreesWithDriver, [CacheNext]_cacheVars
               PROVE  AgreesWithDriver'
    OBVIOUS
  <1>1. ASSUME NEW p \in Ptrs \cup {NullPtr}, NEW len \in Lens,
               AcquireSucceeds(p, len) \/ AcquireFails(p, len)
        PROVE  AgreesWithDriver'
    BY <1>1, AcquireAgrees
  <1>2. ASSUME NEW p \in Ptrs \cup {NullPtr}, ReleaseSucceeds(p) \/ ReleaseFails(p)
        PROVE  AgreesWithDriver'
    BY <1>2, ReleaseAgrees
  <1>3. ASSUME NEW idle \in IdleTimes, NEW gone \in SUBSET Expired(idle),
               EvictIdle(idle, gone)
        PROVE  AgreesWithDriver'
    BY <1>3, EvictAgrees DEF EvictIdle
  <1>4. ASSUME NEW gone \in SUBSET RegisteredEntries, ForceEvictAll(gone)
        PROVE  AgreesWithDriver'
    BY <1>4, EvictAgrees DEF ForceEvictAll
  <1>5. CASE Tick
    BY <1>5 DEF Tick, AgreesWithDriver
  <1>6. CASE UNCHANGED cacheVars
    BY <1>6 DEF cacheVars, AgreesWithDriver
  <1> QED BY <1>1, <1>2, <1>3, <1>4, <1>5, <1>6 DEF CacheNext

\* The registered flag and length of every entry are what the driver has,
\* after any sequence of operations and refusals.
THEOREM CacheAgreesWithDriver == CacheSpec => []AgreesWithDriver
  <1>1. CacheInit => CacheTypeOK /\ AgreesWithDriver
    BY InitType, InitAgrees
  <1>2. CacheTypeOK /\ AgreesWithDriver /\ [CacheNext]_cacheVars
            => CacheTypeOK' /\ AgreesWithDriver'
    BY NextType, NextAgrees
  <1> QED BY <1>1, <1>2, PTL DEF CacheSpec
-----------------------------------------------------------------------------
\* Two of the counters' equations, those a step has to keep; the third follows
\* from the agreement with the driver.
Balance ==
    /\ stats.miss_count = stats.register_count
    /\ stats.register_count = stats.deregister_count + Cardinality(DriverHolds)

\* The registrations of the driver are finitely many.
LEMMA HoldsFinite ==
    /\ IsFiniteSet(DriverHolds) /\ Cardinality(DriverHolds) \in Nat
    /\ IsFiniteSet(DriverHolds')
  <1>1. DriverHolds \subseteq Ptrs /\ DriverHolds' \subseteq Ptrs
    BY DEF DriverHolds
  <1> QED BY <1>1, PtrsAssumption, FS_Subset, FS_CardinalityType

\* A registration that the driver accepts is one more.
LEMMA RegisterCounts ==
    ASSUME DriverTypeOK, NEW p \in Ptrs, NEW len \in Nat \ {0},
           driver' = Registering(p, len)
    PROVE  Cardinality(DriverHolds') = IF p \in DriverHolds THEN Cardinality(DriverHolds)
                                                           ELSE Cardinality(DriverHolds) + 1
  <1>1. DriverHolds' = DriverHolds \cup {p}
    BY DriverMap DEF DriverHolds, Unregistered
  <1> QED BY <1>1, HoldsFinite, FS_AddElement

\* What the driver gives up is gone.
LEMMA DeregisterCounts ==
    ASSUME DriverTypeOK, NEW gone \in SUBSET DriverHolds,
           driver' = Deregistering(gone)
    PROVE  /\ Cardinality(gone) \in Nat
           /\ Cardinality(DriverHolds) = Cardinality(DriverHolds') + Cardinality(gone)
           /\ Cardinality(DriverHolds') \in Nat
  <1>1. DriverHolds' = DriverHolds \ gone
    BY DriverMap DEF DriverHolds, Unregistered
  <1>2. IsFiniteSet(gone) /\ Cardinality(gone) \in Nat /\ Cardinality(DriverHolds') \in Nat
    BY HoldsFinite, FS_Subset, FS_CardinalityType
  <1>3. DriverHolds \cap gone = gone
    OBVIOUS
  <1>4. Cardinality(DriverHolds \ gone) = Cardinality(DriverHolds) - Cardinality(gone)
    BY <1>3, HoldsFinite, FS_Difference
  <1> QED BY <1>1, <1>2, <1>4, HoldsFinite

\* The initial counters balance.
LEMMA InitBalance == CacheInit => Balance
  <1> SUFFICES ASSUME CacheInit PROVE Balance
    OBVIOUS
  <1>1. DriverHolds = {}
    BY DEF CacheInit, DriverInit, DriverHolds
  <1> QED BY <1>1, FS_EmptySet DEF CacheInit, Balance

\* Each step moves the counters and the registrations together.
LEMMA NextBalance ==
    CacheTypeOK /\ AgreesWithDriver /\ Balance /\ [CacheNext]_cacheVars => Balance'
  <1> SUFFICES ASSUME CacheTypeOK, AgreesWithDriver, Balance, [CacheNext]_cacheVars
               PROVE  Balance'
    OBVIOUS
  <1> DEFINE n == Cardinality(DriverHolds)
  <1>0. /\ DriverTypeOK /\ stats \in CacheStats /\ n \in Nat
        /\ stats.hit_count \in Nat /\ stats.miss_count \in Nat
        /\ stats.register_count \in Nat /\ stats.deregister_count \in Nat
    BY HoldsFinite DEF CacheTypeOK, CacheStats
  <1>1. ASSUME NEW p \in Ptrs, NEW len \in Lens, AcquireSucceeds(p, len)
        PROVE  Balance'
    <2>0. len \in Nat \ {0}
      BY <1>1, LensAssumption DEF AcquireSucceeds
    <2>1. CASE AcquireFirst(p, len)
      <3>1. Cardinality(DriverHolds') = n + 1
        BY <1>0, <2>0, <2>1, RegisterCounts DEF AcquireFirst, AcceptsRegister
      <3>2. /\ stats'.miss_count = stats.miss_count + 1
            /\ stats'.register_count = stats.register_count + 1
            /\ stats'.deregister_count = stats.deregister_count
        BY <1>0, <2>1 DEF AcquireFirst, CacheStats
      <3> QED BY <1>0, <3>1, <3>2 DEF Balance
    <2>2. CASE AcquireHit(p, len)
      <3>1. /\ stats'.miss_count = stats.miss_count
            /\ stats'.register_count = stats.register_count
            /\ stats'.deregister_count = stats.deregister_count
        BY <1>0, <2>2 DEF AcquireHit, CacheStats
      <3> QED BY <2>2, <3>1 DEF Balance, AcquireHit, DriverHolds
    <2>3. CASE AcquireAgain(p, len) /\ entries[p].registered
      <3>1. Cardinality(DriverHolds') = n
        BY <1>0, <2>0, <2>3, RegisterCounts DEF AcquireAgain, AcceptsDeregister
      <3>2. /\ stats'.miss_count = stats.miss_count + 1
            /\ stats'.register_count = stats.register_count + 1
            /\ stats'.deregister_count = stats.deregister_count + 1
        BY <1>0, <2>3 DEF AcquireAgain, CacheStats
      <3> QED BY <1>0, <3>1, <3>2 DEF Balance
    <2>4. CASE AcquireAgain(p, len) /\ ~entries[p].registered
      <3>1. Cardinality(DriverHolds') = n + 1
        BY <1>0, <2>0, <2>4, RegisterCounts DEF AcquireAgain, AcceptsRegister
      <3>2. /\ stats'.miss_count = stats.miss_count + 1
            /\ stats'.register_count = stats.register_count + 1
            /\ stats'.deregister_count = stats.deregister_count
        BY <1>0, <2>4 DEF AcquireAgain, CacheStats
      <3> QED BY <1>0, <3>1, <3>2 DEF Balance
    <2> QED BY <1>1, <2>1, <2>2, <2>3, <2>4 DEF AcquireSucceeds
  <1>2. ASSUME NEW p, NEW len, AcquireFails(p, len)
        PROVE  Balance'
    <2>1. CASE AcquireRefused(p, len)
      BY <2>1 DEF AcquireRefused, Balance, DriverHolds
    <2>2. CASE AcquireLoses(p, len)
      <3>1. {p} \subseteq DriverHolds
        BY <2>2 DEF AcquireLoses, AcceptsDeregister
      <3>2. Cardinality({p}) = 1
        BY FS_Singleton
      <3>3. n = Cardinality(DriverHolds') + 1 /\ Cardinality(DriverHolds') \in Nat
        BY <1>0, <2>2, <3>1, <3>2, DeregisterCounts DEF AcquireLoses
      <3>4. /\ stats'.miss_count = stats.miss_count
            /\ stats'.register_count = stats.register_count
            /\ stats'.deregister_count = stats.deregister_count + 1
        BY <1>0, <2>2 DEF AcquireLoses, CacheStats
      <3> QED BY <1>0, <3>3, <3>4 DEF Balance
    <2> QED BY <1>2, <2>1, <2>2 DEF AcquireFails
  <1>3. ASSUME NEW gone, \A p \in gone : AcceptsDeregister(p),
               driver' = Deregistering(gone),
               stats' = [stats EXCEPT !.deregister_count = @ + Cardinality(gone)]
        PROVE  Balance'
    <2>1. gone \in SUBSET DriverHolds
      BY <1>3 DEF AcceptsDeregister
    <2>2. /\ Cardinality(gone) \in Nat /\ Cardinality(DriverHolds') \in Nat
          /\ n = Cardinality(DriverHolds') + Cardinality(gone)
      BY <1>0, <1>3, <2>1, DeregisterCounts
    <2>3. /\ stats'.miss_count = stats.miss_count
          /\ stats'.register_count = stats.register_count
          /\ stats'.deregister_count = stats.deregister_count + Cardinality(gone)
      BY <1>0, <1>3 DEF CacheStats
    <2> QED BY <1>0, <2>2, <2>3 DEF Balance
  <1>4. ASSUME UNCHANGED <<driver, stats>>
        PROVE  Balance'
    BY <1>4 DEF Balance, DriverHolds
  <1>5. ASSUME NEW p \in Ptrs \cup {NullPtr}, NEW len \in Lens,
               AcquireSucceeds(p, len) \/ AcquireFails(p, len)
        PROVE  Balance'
    BY <1>1, <1>2, <1>5 DEF AcquireSucceeds
  <1>6. ASSUME NEW p, ReleaseSucceeds(p) \/ ReleaseFails(p)
        PROVE  Balance'
    BY <1>4, <1>6 DEF ReleaseSucceeds, ReleaseFails, cacheVars
  <1>7. ASSUME NEW idle, NEW gone, EvictIdle(idle, gone)
        PROVE  Balance'
    BY <1>3, <1>7 DEF EvictIdle
  <1>8. ASSUME NEW gone, ForceEvictAll(gone)
        PROVE  Balance'
    BY <1>3, <1>8 DEF ForceEvictAll
  <1>9. CASE Tick \/ UNCHANGED cacheVars
    BY <1>4, <1>9 DEF Tick, cacheVars
  <1> QED BY <1>5, <1>6, <1>7, <1>8, <1>9 DEF CacheNext

\* Where entries agree with the driver, what it holds is what is registered in
\* the map and what is forgotten.
LEMMA HoldsSplit ==
    ASSUME CacheTypeOK, AgreesWithDriver
    PROVE  Cardinality(DriverHolds) = Cardinality(RegisteredEntries) + Cardinality(Forgotten)
  <1>1. \A p \in DOMAIN entries : p \in Ptrs /\ entries[p].length # 0
    BY EntryFields
  <1>2. RegisteredEntries = DriverHolds \cap DOMAIN entries
    BY <1>1 DEF AgreesWithDriver, RegisteredEntries, DriverHolds, Unregistered
  <1>3. /\ Cardinality(Forgotten) = Cardinality(DriverHolds) - Cardinality(RegisteredEntries)
    BY <1>2, HoldsFinite, FS_Difference DEF Forgotten
  <1>4. Cardinality(RegisteredEntries) \in Nat
    BY <1>2, HoldsFinite, FS_Subset, FS_CardinalityType
  <1> QED BY <1>3, <1>4, HoldsFinite

\* The statistics of the cache account for every registration of the driver,
\* the forgotten ones included, whatever calls it refused.
THEOREM CacheCountersBalance == CacheSpec => []CountersBalance
  <1> DEFINE IInv == CacheTypeOK /\ AgreesWithDriver /\ Balance
  <1>1. CacheInit => IInv
    BY InitType, InitAgrees, InitBalance
  <1>2. IInv /\ [CacheNext]_cacheVars => IInv'
    BY NextType, NextAgrees, NextBalance
  <1>3. IInv => CountersBalance
    BY HoldsSplit DEF CountersBalance, Balance, GetStats
  <1> QED BY <1>1, <1>2, <1>3, PTL DEF CacheSpec
=============================================================================
