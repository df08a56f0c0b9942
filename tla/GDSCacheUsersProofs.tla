------------------------- MODULE GDSCacheUsersProofs -------------------------
(***************************************************************************)
(* What the registration cache guarantees to its users, for any number of  *)
(* them: references are never invented, and under the discipline the       *)
(* runner keeps, a buffer in use stays registered, so that the cache       *)
(* implements PinnedBuffers.                                               *)
(***************************************************************************)
EXTENDS GDSCacheUsers, GDSRegistrationCacheProofs

\* Handles: a user holds something exactly when its pointer is a buffer.
LEMMA HandleFacts ==
    ASSUME TypeOK, NEW u \in Users
    PROVE  /\ held[u].ptr \in Ptrs \cup {NullPtr}
           /\ u \in Holding <=> held[u].ptr \in Ptrs
           /\ u \in Holding => held[u].len \in Lens
  BY NullPtrAssumption DEF TypeOK, Holding, Handle, NoHandle

\* Every step of the users is a step of the cache, or leaves it alone.
LEMMA CacheStep ==
    ASSUME TypeOK, [Next]_vars
    PROVE  [CacheNext]_cacheVars
  <1>1. ASSUME NEW u \in Users, NEW p \in Ptrs, NEW len \in LensOf[p],
               Acquire(u, p, len) \/ AcquireInVain(u, p, len)
        PROVE  CacheNext
    <2>1. len \in Lens
      BY LensOfAssumption
    <2> QED BY <1>1, <2>1 DEF Acquire, AcquireInVain, CacheNext
  <1>2. ASSUME NEW u \in Users, Release(u)
        PROVE  CacheNext
    BY <1>2, HandleFacts DEF Release, CacheNext
  <1>3. CASE Evict
    BY <1>3 DEF Evict, CacheNext
  <1>4. CASE Clear
    BY <1>4 DEF Clear, CacheNext
  <1>5. CASE TimePasses
    BY <1>5 DEF TimePasses, CacheNext
  <1>6. CASE UNCHANGED vars
    BY <1>6 DEF vars, cacheVars
  <1> QED BY <1>1, <1>2, <1>3, <1>4, <1>5, <1>6 DEF Next

\* Type correctness of the users' hands.
LEMMA UsersInitType == Init => TypeOK
  BY InitType DEF Init, TypeOK, NoHandle

\* Every step keeps the types of the hands and of the cache.
LEMMA UsersNextType == TypeOK /\ [Next]_vars => TypeOK'
  <1> SUFFICES ASSUME TypeOK, [Next]_vars PROVE TypeOK'
    OBVIOUS
  <1>1. CacheTypeOK'
    BY CacheStep, NextType DEF TypeOK
  <1>2. held' \in [Users -> Handle \cup {NoHandle}]
    <2>1. ASSUME NEW u \in Users, NEW p \in Ptrs, NEW len \in LensOf[p], Acquire(u, p, len)
          PROVE  held' \in [Users -> Handle \cup {NoHandle}]
      <3>1. [ptr |-> p, len |-> len] \in Handle
        BY LensOfAssumption DEF Handle
      <3> QED BY <2>1, <3>1 DEF Acquire, TypeOK
    <2>2. ASSUME NEW u \in Users, Release(u)
          PROVE  held' \in [Users -> Handle \cup {NoHandle}]
      BY <2>2 DEF Release, TypeOK
    <2>3. CASE UNCHANGED held
      BY <2>3 DEF TypeOK
    <2> QED BY <2>1, <2>2, <2>3 DEF Next, AcquireInVain, Evict, Clear, TimePasses, vars
  <1> QED BY <1>1, <1>2 DEF TypeOK

\* Type correctness of the cache and of its users.
THEOREM UsersTypeCorrect == Spec => []TypeOK
  BY UsersInitType, UsersNextType, PTL DEF Spec
-----------------------------------------------------------------------------
\* What each outcome of acquire does to the entries: p is counted once more,
\* and no other entry is touched.
LEMMA AcquireCounts ==
    ASSUME CacheTypeOK, NEW p \in Ptrs, NEW len \in Lens, AcquireSucceeds(p, len)
    PROVE  /\ DOMAIN entries' = DOMAIN entries \cup {p}
           /\ \A q \in DOMAIN entries \ {p} : entries'[q] = entries[q]
           /\ entries'[p].ref_count =
                IF p \in DOMAIN entries THEN entries[p].ref_count + 1 ELSE 1
           /\ entries'[p].registered /\ entries'[p].length = len
  <1> USE LensAssumption
  <1>0. len # 0
    BY DEF AcquireSucceeds
  <1>1. CASE AcquireFirst(p, len)
    BY <1>1 DEF AcquireFirst, Put
  <1>2. CASE AcquireHit(p, len)
    <2> DEFINE e == [entries[p] EXCEPT !.hit_count = @ + 1]
    <2>1. p \in DOMAIN entries /\ entries[p].registered /\ entries[p].length = len
      BY <1>2 DEF AcquireHit, IsRegistered, RegisteredEntries
    <2>2. /\ DOMAIN entries' = DOMAIN entries \cup {p} /\ entries'[p] = Used(e)
          /\ \A q \in DOMAIN entries \ {p} : entries'[q] = entries[q]
      BY <1>2 DEF AcquireHit, Put
    <2>3. e \in CacheEntry
      BY <2>1, EntryFields DEF CacheEntry
    <2>4. /\ e.ref_count = entries[p].ref_count /\ e.registered = entries[p].registered
          /\ e.length = entries[p].length
      BY <2>1, EntryFields DEF CacheEntry
    <2>5. /\ Used(e).ref_count = e.ref_count + 1 /\ Used(e).registered = e.registered
          /\ Used(e).length = e.length
      BY <2>3, UpdateFields
    <2> HIDE DEF e
    <2> QED BY <2>1, <2>2, <2>4, <2>5
  <1>3. CASE AcquireAgain(p, len)
    <2> DEFINE e == [entries[p] EXCEPT !.length = len, !.registered = TRUE]
    <2>1. p \in DOMAIN entries
      BY <1>3 DEF AcquireAgain
    <2>2. /\ DOMAIN entries' = DOMAIN entries \cup {p} /\ entries'[p] = Used(e)
          /\ \A q \in DOMAIN entries \ {p} : entries'[q] = entries[q]
      BY <1>3 DEF AcquireAgain, Put
    <2>3. e \in CacheEntry
      BY <1>0, <2>1, EntryFields DEF CacheEntry
    <2>4. e.ref_count = entries[p].ref_count /\ e.registered = TRUE /\ e.length = len
      BY <2>1, EntryFields DEF CacheEntry
    <2>5. /\ Used(e).ref_count = e.ref_count + 1 /\ Used(e).registered = e.registered
          /\ Used(e).length = e.length
      BY <2>3, UpdateFields
    <2> HIDE DEF e
    <2> QED BY <2>1, <2>2, <2>4, <2>5
  <1> QED BY <1>1, <1>2, <1>3 DEF AcquireSucceeds

\* An acquire that fails keeps every entry and every reference.
LEMMA AcquireFailCounts ==
    ASSUME CacheTypeOK, NEW p, NEW len, AcquireFails(p, len)
    PROVE  /\ DOMAIN entries' = DOMAIN entries
           /\ \A q \in DOMAIN entries : entries'[q].ref_count = entries[q].ref_count
  <1>1. CASE AcquireRefused(p, len)
    BY <1>1 DEF AcquireRefused
  <1>2. CASE AcquireLoses(p, len)
    <2>1. /\ p \in DOMAIN entries
          /\ DOMAIN entries' = DOMAIN entries
          /\ entries'[p] = [entries[p] EXCEPT !.registered = FALSE]
          /\ \A q \in DOMAIN entries \ {p} : entries'[q] = entries[q]
      BY <1>2 DEF AcquireLoses, Put
    <2>2. entries'[p].ref_count = entries[p].ref_count
      BY <2>1, EntryFields, UpdateFields
    <2> QED BY <2>1, <2>2
  <1> QED BY <1>1, <1>2 DEF AcquireFails

\* A release that succeeds takes one reference from its entry.
LEMMA ReleaseCounts ==
    ASSUME CacheTypeOK, NEW p, ReleaseSucceeds(p)
    PROVE  /\ DOMAIN entries' = DOMAIN entries /\ p \in DOMAIN entries
           /\ \A q \in DOMAIN entries \ {p} : entries'[q] = entries[q]
           /\ entries'[p].ref_count = entries[p].ref_count - 1
           /\ entries'[p].registered = entries[p].registered
           /\ entries'[p].length = entries[p].length
  <1>1. /\ p \in DOMAIN entries
        /\ DOMAIN entries' = DOMAIN entries
        /\ entries'[p] = [entries[p] EXCEPT !.ref_count = @ - 1, !.last_used_time = now]
        /\ \A q \in DOMAIN entries \ {p} : entries'[q] = entries[q]
    BY DEF ReleaseSucceeds, Put
  <1> QED BY <1>1, EntryFields, UpdateFields
-----------------------------------------------------------------------------
\* The users that hold a buffer, when one takes it and when one gives it up.
LEMMA HoldersFinite ==
    ASSUME NEW p
    PROVE  /\ IsFiniteSet(HoldersOf(p)) /\ Cardinality(HoldersOf(p)) \in Nat
  <1>1. HoldersOf(p) \subseteq Users
    BY DEF HoldersOf
  <1> QED BY <1>1, UsersAssumption, FS_Subset, FS_CardinalityType

\* A user that takes a buffer is one more holder of it, and of no other.
LEMMA TakeHolders ==
    ASSUME TypeOK, NEW u \in Users, u \notin Holding, NEW p \in Ptrs, NEW len,
           held' = [held EXCEPT ![u] = [ptr |-> p, len |-> len]]
    PROVE  /\ Cardinality(HoldersOf(p)') = Cardinality(HoldersOf(p)) + 1
           /\ \A q \in Ptrs \ {p} : HoldersOf(q)' = HoldersOf(q)
  <1>1. held[u].ptr \notin Ptrs
    BY HandleFacts
  <1>2. held'[u].ptr = p /\ \A v \in Users \ {u} : held'[v] = held[v]
    BY DEF TypeOK
  <1>3. HoldersOf(p)' = HoldersOf(p) \cup {u} /\ u \notin HoldersOf(p)
    BY <1>1, <1>2 DEF HoldersOf
  <1>4. \A q \in Ptrs \ {p} : HoldersOf(q)' = HoldersOf(q)
    BY <1>1, <1>2 DEF HoldersOf
  <1> QED BY <1>3, <1>4, HoldersFinite, FS_AddElement

\* A user that gives its buffer up leaves it one holder less, and others as many.
LEMMA GiveHolders ==
    ASSUME TypeOK, NEW u \in Holding, NEW p \in Ptrs, held[u].ptr = p,
           held' = [held EXCEPT ![u] = NoHandle]
    PROVE  /\ Cardinality(HoldersOf(p)) \in Nat \ {0} /\ HoldersOf(p) # {}
           /\ Cardinality(HoldersOf(p)') = Cardinality(HoldersOf(p)) - 1
           /\ \A q \in Ptrs \ {p} : HoldersOf(q)' = HoldersOf(q)
  <1>1. u \in Users /\ p # NullPtr
    BY NullPtrAssumption DEF Holding
  <1>2. held'[u].ptr = NullPtr /\ \A v \in Users \ {u} : held'[v] = held[v]
    BY <1>1 DEF TypeOK, NoHandle
  <1>3. HoldersOf(p)' = HoldersOf(p) \ {u} /\ u \in HoldersOf(p)
    BY <1>1, <1>2 DEF HoldersOf
  <1>4. Cardinality(HoldersOf(p)) # 0
    BY <1>3, HoldersFinite, FS_EmptySet
  <1>5. Cardinality(HoldersOf(p)') = Cardinality(HoldersOf(p)) - 1
    BY <1>3, HoldersFinite, FS_RemoveElement
  <1>6. \A q \in Ptrs \ {p} : HoldersOf(q)' = HoldersOf(q)
    BY <1>1, <1>2, NullPtrAssumption DEF HoldersOf
  <1> QED BY <1>3, <1>4, <1>5, <1>6, HoldersFinite
-----------------------------------------------------------------------------
\* References never outnumber the holders.
LEMMA PhantomStep ==
    ASSUME TypeOK, NoPhantomReference, [Next]_vars
    PROVE  NoPhantomReference'
  <1> DEFINE n(p) == Cardinality(HoldersOf(p))
  <1>0. /\ CacheTypeOK
        /\ \A p : n(p) \in Nat
        /\ \A p \in DOMAIN entries : p \in Ptrs /\ entries[p].ref_count \in Nat
    BY EntryFields, HoldersFinite DEF TypeOK
  <1>1. ASSUME NEW u \in Users, NEW p \in Ptrs, NEW len \in LensOf[p], Acquire(u, p, len)
        PROVE  NoPhantomReference'
    <2>1. n(p)' = n(p) + 1 /\ \A q \in Ptrs \ {p} : n(q)' = n(q)
      BY <1>1, TakeHolders DEF Acquire
    <2>2. len \in Lens /\ AcquireSucceeds(p, len)
      BY <1>1, LensOfAssumption DEF Acquire
    <2>3. /\ DOMAIN entries' = DOMAIN entries \cup {p}
          /\ \A q \in DOMAIN entries \ {p} : entries'[q] = entries[q]
          /\ entries'[p].ref_count =
                IF p \in DOMAIN entries THEN entries[p].ref_count + 1 ELSE 1
      BY <1>0, <2>2, AcquireCounts
    <2> SUFFICES ASSUME NEW q \in DOMAIN entries' PROVE entries'[q].ref_count <= n(q)'
      BY DEF NoPhantomReference
    <2>4. CASE q = p
      <3>1. p \in DOMAIN entries => entries[p].ref_count <= n(p)
        BY DEF NoPhantomReference
      <3>2. n(p)' = n(p) + 1 /\ n(p) \in Nat
        BY <1>0, <2>1
      <3> HIDE DEF n
      <3> QED BY <1>0, <2>3, <2>4, <3>1, <3>2
    <2>5. CASE q # p
      <3>1. q \in DOMAIN entries /\ q \in Ptrs /\ entries'[q] = entries[q]
        BY <1>0, <2>3, <2>5
      <3> QED BY <2>1, <2>5, <3>1 DEF NoPhantomReference
    <2> QED BY <2>4, <2>5
  <1>2. ASSUME NEW u \in Users, NEW p \in Ptrs, NEW len \in LensOf[p],
               AcquireInVain(u, p, len)
        PROVE  NoPhantomReference'
    <2>1. \A q : HoldersOf(q)' = HoldersOf(q)
      BY <1>2 DEF AcquireInVain, HoldersOf
    <2>2. /\ DOMAIN entries' = DOMAIN entries
          /\ \A q \in DOMAIN entries : entries'[q].ref_count = entries[q].ref_count
      BY <1>0, <1>2, AcquireFailCounts DEF AcquireInVain
    <2> QED BY <2>1, <2>2 DEF NoPhantomReference
  <1>3. ASSUME NEW u \in Users, NEW p, held[u].ptr = p, Release(u)
        PROVE  NoPhantomReference'
    <2>0. u \in Holding /\ held' = [held EXCEPT ![u] = NoHandle] /\ p \in Ptrs
      BY <1>3, HandleFacts DEF Release
    <2>1. /\ n(p) \in Nat \ {0} /\ n(p)' = n(p) - 1
          /\ \A q \in Ptrs \ {p} : n(q)' = n(q)
      BY <1>3, <2>0, GiveHolders
    <2>2. CASE ReleaseSucceeds(p)
      <3>1. /\ DOMAIN entries' = DOMAIN entries /\ p \in DOMAIN entries
            /\ \A q \in DOMAIN entries \ {p} : entries'[q] = entries[q]
            /\ entries'[p].ref_count = entries[p].ref_count - 1
        BY <1>0, <2>2, ReleaseCounts
      <3>2. entries[p].ref_count <= n(p) /\ entries[p].ref_count \in Nat /\ n(p) \in Nat
        BY <1>0, <3>1 DEF NoPhantomReference
      <3>3. entries'[p].ref_count <= n(p)'
        <4> HIDE DEF n
        <4> QED BY <2>1, <3>1, <3>2
      <3>4. \A q \in DOMAIN entries \ {p} : entries'[q].ref_count <= n(q)'
        BY <1>0, <2>1, <3>1 DEF NoPhantomReference
      <3> QED BY <3>1, <3>3, <3>4 DEF NoPhantomReference
    <2>3. CASE ReleaseFails(p)
      <3>1. entries' = entries /\ (p \in DOMAIN entries => entries[p].ref_count = 0)
        BY <2>3 DEF ReleaseFails, cacheVars
      <3>2. n(p)' >= 0
        <4> HIDE DEF n
        <4> QED BY <2>1
      <3>3. \A q \in DOMAIN entries \ {p} : entries[q].ref_count <= n(q)'
        BY <1>0, <2>1 DEF NoPhantomReference
      <3> QED BY <3>1, <3>2, <3>3 DEF NoPhantomReference
    <2> QED BY <1>3, <2>2, <2>3 DEF Release
  <1>4. ASSUME NEW S \in SUBSET DOMAIN entries, entries' = Restrict(entries, S),
               UNCHANGED held
        PROVE  NoPhantomReference'
    BY <1>4, RestrictMap DEF NoPhantomReference, HoldersOf
  <1>5. CASE Evict
    <2>1. PICK gone : entries' = Restrict(entries, DOMAIN entries \ gone)
      BY <1>5 DEF Evict, EvictIdle
    <2> QED BY <1>4, <1>5, <2>1 DEF Evict
  <1>6. CASE Clear
    <2>1. entries' = Restrict(entries, {})
      BY <1>6 DEF Clear, ForceEvictAll
    <2> QED BY <1>4, <1>6, <2>1 DEF Clear
  <1>7. CASE TimePasses \/ UNCHANGED vars
    BY <1>7 DEF TimePasses, Tick, vars, NoPhantomReference, HoldersOf
  <1> QED BY <1>1, <1>2, <1>3, <1>5, <1>6, <1>7 DEF Next

\* No entry counts a reference without a holder, whatever lengths the users
\* pass and whenever the cache is cleared.
THEOREM NoPhantoms == Spec => []NoPhantomReference
  <1>1. Init => NoPhantomReference
    BY DEF Init, CacheInit, Restrict, NoPhantomReference
  <1>2. TypeOK /\ NoPhantomReference /\ [Next]_vars => NoPhantomReference'
    BY PhantomStep
  <1> QED BY <1>1, <1>2, UsersTypeCorrect, PTL DEF Spec
-----------------------------------------------------------------------------
\* Under the discipline every entry is registered with its pointer's length, and
\* that is the length its holders asked for.
Fits ==
    /\ \A p \in DOMAIN entries : entries[p].registered /\ entries[p].length \in LensOf[p]
    /\ \A u \in Holding : held[u].len \in LensOf[held[u].ptr]

\* The inductive invariant of the disciplined users.
DisciplinedInv == TypeOK /\ AgreesWithDriver /\ RefCountsMatchHolders /\ Fits

\* An acquire that fails under the discipline changes nothing.
LEMMA FailureChangesNothing ==
    ASSUME Disciplined, Fits, TypeOK, NEW p \in Ptrs, NEW len \in LensOf[p],
           AcquireFails(p, len)
    PROVE  UNCHANGED <<driver, entries>>
  <1>1. ~AcquireLoses(p, len)
    BY DEF AcquireLoses, MismatchedLength, Disciplined, Fits
  <1> QED BY <1>1 DEF AcquireFails, AcquireRefused

\* A buffer that an eviction drops has no holder.
LEMMA ExpiredUnheld ==
    ASSUME TypeOK, RefCountsMatchHolders, NEW idle, NEW p \in Expired(idle)
    PROVE  p \in DOMAIN entries /\ HoldersOf(p) = {}
  <1>1. p \in DOMAIN entries /\ entries[p].ref_count = 0 /\ p \in Ptrs
    BY DEF Expired, RegisteredEntries, TypeOK, CacheTypeOK
  <1> QED BY <1>1, HoldersFinite, FS_EmptySet DEF RefCountsMatchHolders

\* What a user gives up has an entry that counts it.
LEMMA HeldCounted ==
    ASSUME TypeOK, RefCountsMatchHolders, NEW u \in Holding, NEW p, held[u].ptr = p
    PROVE  /\ p \in Ptrs /\ p \in DOMAIN entries
           /\ entries[p].ref_count = Cardinality(HoldersOf(p))
           /\ entries[p].ref_count # 0
  <1>1. u \in Users /\ p \in Ptrs
    BY HandleFacts DEF Holding
  <1>2. u \in HoldersOf(p)
    BY <1>1 DEF HoldersOf
  <1>3. Cardinality(HoldersOf(p)) # 0
    BY <1>2, HoldersFinite, FS_EmptySet
  <1> QED BY <1>1, <1>2, <1>3 DEF RefCountsMatchHolders

\* Reference counts and lengths stay right through every step.
LEMMA DisciplinedStep ==
    ASSUME Disciplined, DisciplinedInv, [Next]_vars
    PROVE  RefCountsMatchHolders' /\ Fits'
  <1> DEFINE n(p) == Cardinality(HoldersOf(p))
  <1>0. /\ TypeOK /\ CacheTypeOK /\ RefCountsMatchHolders /\ Fits
        /\ \A p : n(p) \in Nat
        /\ \A p \in DOMAIN entries : p \in Ptrs /\ entries[p].ref_count \in Nat
    BY EntryFields, HoldersFinite DEF TypeOK, DisciplinedInv
  <1>1. ASSUME NEW u \in Users, NEW p \in Ptrs, NEW len \in LensOf[p], Acquire(u, p, len)
        PROVE  RefCountsMatchHolders' /\ Fits'
    <2>1. n(p)' = n(p) + 1 /\ \A q \in Ptrs \ {p} : HoldersOf(q)' = HoldersOf(q)
      BY <1>0, <1>1, TakeHolders DEF Acquire
    <2>2. len \in Lens /\ AcquireSucceeds(p, len)
      BY <1>1, LensOfAssumption DEF Acquire
    <2>3. /\ DOMAIN entries' = DOMAIN entries \cup {p}
          /\ \A q \in DOMAIN entries \ {p} : entries'[q] = entries[q]
          /\ entries'[p].ref_count =
                IF p \in DOMAIN entries THEN entries[p].ref_count + 1 ELSE 1
          /\ entries'[p].registered /\ entries'[p].length = len
      BY <1>0, <2>2, AcquireCounts
    <2>4. entries'[p].ref_count = n(p)'
      <3>1. CASE p \in DOMAIN entries
        BY <1>0, <2>1, <2>3, <3>1 DEF RefCountsMatchHolders
      <3>2. CASE p \notin DOMAIN entries
        <4>1. n(p) = 0
          BY <1>0, <3>2, FS_EmptySet DEF RefCountsMatchHolders
        <4> QED BY <2>1, <2>3, <3>2, <4>1
      <3> QED BY <3>1, <3>2
    <2>5. RefCountsMatchHolders'
      BY <1>0, <2>1, <2>3, <2>4 DEF RefCountsMatchHolders
    <2>6. \A v \in Holding' : held'[v].len \in LensOf[held'[v].ptr]
      BY <1>0, <1>1 DEF Acquire, Fits, Holding, TypeOK
    <2> QED BY <1>0, <2>3, <2>5, <2>6 DEF Fits
  <1>2. ASSUME NEW u \in Users, NEW p \in Ptrs, NEW len \in LensOf[p],
               AcquireInVain(u, p, len)
        PROVE  RefCountsMatchHolders' /\ Fits'
    <2>1. UNCHANGED <<entries, held>>
      BY <1>0, <1>2, FailureChangesNothing DEF AcquireInVain
    <2> QED BY <1>0, <2>1 DEF RefCountsMatchHolders, HoldersOf, Fits, Holding
  <1>3. ASSUME NEW u \in Users, NEW p, held[u].ptr = p, Release(u)
        PROVE  RefCountsMatchHolders' /\ Fits'
    <2>0. u \in Holding /\ held' = [held EXCEPT ![u] = NoHandle]
      BY <1>3 DEF Release
    <2>1. p \in Ptrs /\ p \in DOMAIN entries /\ entries[p].ref_count = n(p) /\ n(p) # 0
      BY <1>0, <1>3, <2>0, HeldCounted
    <2>2. n(p)' = n(p) - 1 /\ \A q \in Ptrs \ {p} : HoldersOf(q)' = HoldersOf(q)
      BY <1>0, <1>3, <2>0, <2>1, GiveHolders
    <2>3. ReleaseSucceeds(p)
      BY <1>3, <2>1 DEF Release, ReleaseFails
    <2>4. /\ DOMAIN entries' = DOMAIN entries
          /\ \A q \in DOMAIN entries \ {p} : entries'[q] = entries[q]
          /\ entries'[p].ref_count = entries[p].ref_count - 1
          /\ entries'[p].registered = entries[p].registered
          /\ entries'[p].length = entries[p].length
      BY <1>0, <2>3, ReleaseCounts
    <2>5. RefCountsMatchHolders'
      <3>1. entries'[p].ref_count = n(p)'
        BY <2>1, <2>2, <2>4
      <3> QED BY <1>0, <2>1, <2>2, <2>4, <3>1 DEF RefCountsMatchHolders
    <2>6. \A v \in Holding' : held'[v].len \in LensOf[held'[v].ptr]
      BY <1>0, <2>0 DEF Fits, Holding, TypeOK
    <2> QED BY <1>0, <2>4, <2>5, <2>6 DEF Fits
  <1>4. CASE Evict
    <2>1. PICK idle \in IdleTimes :
              \E gone \in SUBSET Expired(idle) : EvictIdle(idle, gone)
      BY <1>4 DEF Evict
    <2>2. PICK gone \in SUBSET Expired(idle) : EvictIdle(idle, gone)
      BY <2>1
    <2>3. /\ DOMAIN entries' = DOMAIN entries \ gone /\ held' = held
          /\ \A q \in DOMAIN entries \ gone : entries'[q] = entries[q]
      <3>1. entries' = Restrict(entries, DOMAIN entries \ gone) /\ held' = held
        BY <1>4, <2>2 DEF Evict, EvictIdle
      <3> QED BY <3>1 DEF Restrict
    <2>4. \A q \in gone : HoldersOf(q) = {}
      BY <1>0, ExpiredUnheld
    <2>5. \A q : HoldersOf(q)' = HoldersOf(q)
      BY <2>3 DEF HoldersOf
    <2> QED BY <1>0, <2>3, <2>4, <2>5 DEF RefCountsMatchHolders, Fits, Holding
  <1>5. CASE Clear
    <2>1. DOMAIN entries' = {} /\ held' = held
      BY <1>5, RestrictMap DEF Clear, ForceEvictAll
    <2>2. Holding = {}
      BY <1>5 DEF Clear, Disciplined
    <2>3. \A q \in Ptrs : HoldersOf(q)' = {}
      BY <1>0, <2>1, <2>2, HandleFacts DEF HoldersOf
    <2>4. RefCountsMatchHolders'
      BY <2>1, <2>3 DEF RefCountsMatchHolders
    <2>5. Fits'
      BY <2>1, <2>2 DEF Fits, Holding
    <2> QED BY <2>4, <2>5
  <1>6. CASE TimePasses \/ UNCHANGED vars
    BY <1>0, <1>6 DEF TimePasses, Tick, vars, RefCountsMatchHolders, HoldersOf, Fits, Holding
  <1> QED BY <1>1, <1>2, <1>3, <1>4, <1>5, <1>6 DEF Next

\* Initially nobody holds anything and there is no entry.
LEMMA DisciplinedInit == Init => DisciplinedInv
  <1> SUFFICES ASSUME Init PROVE DisciplinedInv
    OBVIOUS
  <1>1. DOMAIN entries = {} /\ AgreesWithDriver /\ TypeOK
    BY InitAgrees, UsersInitType DEF Init, CacheInit, Restrict
  <1>2. Holding = {} /\ \A p \in Ptrs : HoldersOf(p) = {}
    BY NullPtrAssumption DEF Init, Holding, HoldersOf, NoHandle
  <1> QED BY <1>1, <1>2 DEF DisciplinedInv, RefCountsMatchHolders, Fits

\* Every step of disciplined users keeps the inductive invariant.
LEMMA DisciplinedNext ==
    ASSUME Disciplined
    PROVE  DisciplinedInv /\ [Next]_vars => DisciplinedInv'
  <1> SUFFICES ASSUME DisciplinedInv, [Next]_vars PROVE DisciplinedInv'
    OBVIOUS
  <1>1. TypeOK'
    BY UsersNextType DEF DisciplinedInv
  <1>2. AgreesWithDriver'
    BY CacheStep, NextAgrees DEF DisciplinedInv, TypeOK
  <1> QED BY <1>1, <1>2, DisciplinedStep DEF DisciplinedInv

\* A reference for each holder, a holder for each reference.
THEOREM RefCountsCorrect ==
    ASSUME Disciplined
    PROVE  Spec => []RefCountsMatchHolders
  <1>1. DisciplinedInv => RefCountsMatchHolders
    BY DEF DisciplinedInv
  <1> QED BY <1>1, DisciplinedInit, DisciplinedNext, PTL DEF Spec

\* A buffer in use is registered, with the length its user asked for.
LEMMA HeldFollows ==
    ASSUME Disciplined, DisciplinedInv
    PROVE  HeldStaysRegistered
  <1> SUFFICES ASSUME NEW u \in Holding
               PROVE  /\ IsRegistered(held[u].ptr, held[u].len)
                      /\ driver[held[u].ptr] = held[u].len
    BY DEF HeldStaysRegistered
  <1> DEFINE p == held[u].ptr
  <1>1. p \in Ptrs /\ p \in DOMAIN entries
    BY HeldCounted DEF DisciplinedInv
  <1>2. entries[p].registered /\ entries[p].length = held[u].len
    BY <1>1 DEF DisciplinedInv, Fits, Disciplined
  <1>3. entries[p].length # 0
    BY <1>1, EntryFields DEF DisciplinedInv, TypeOK
  <1> QED
    BY <1>1, <1>2, <1>3, NullPtrAssumption
       DEF IsRegistered, RegisteredEntries, DisciplinedInv, AgreesWithDriver

\* The guarantee the runner relies on: from its acquire to its release a buffer
\* is registered, for any number of users and of refusals of the driver.
THEOREM HeldBuffersStayRegistered ==
    ASSUME Disciplined
    PROVE  Spec => []HeldStaysRegistered
  <1>1. DisciplinedInv => HeldStaysRegistered
    BY HeldFollows
  <1> QED BY <1>1, DisciplinedInit, DisciplinedNext, PTL DEF Spec
-----------------------------------------------------------------------------
\* The driver's registrations are those of PinnedBuffers: what a step of the
\* cache does to them.
LEMMA AcquireHolds ==
    ASSUME TypeOK, AgreesWithDriver, NEW p \in Ptrs, NEW len \in Lens,
           AcquireSucceeds(p, len)
    PROVE  DriverHolds' = DriverHolds \cup {p}
  <1>0. len # 0 /\ len \in Nat /\ DriverTypeOK
    BY LensAssumption DEF AcquireSucceeds, TypeOK, CacheTypeOK
  <1>1. CASE AcquireHit(p, len)
    <2>1. driver' = driver /\ driver[p] = len
      BY <1>1 DEF AcquireHit, IsRegistered, RegisteredEntries, AgreesWithDriver
    <2> QED BY <1>0, <2>1 DEF DriverHolds, Unregistered
  <1>2. CASE driver' = Registering(p, len)
    BY <1>0, <1>2, DriverMap DEF DriverHolds, Unregistered
  <1> QED BY <1>1, <1>2 DEF AcquireSucceeds, AcquireFirst, AcquireAgain

\* What the driver still has after it gave up some registrations.
LEMMA EvictHolds ==
    ASSUME TypeOK, NEW gone, driver' = Deregistering(gone)
    PROVE  DriverHolds' = DriverHolds \ gone
  BY DriverMap DEF DriverHolds, Unregistered, TypeOK, CacheTypeOK

\* Every step of the users is a step of PinnedBuffers, or a stutter.
LEMMA PinningStep ==
    ASSUME Disciplined, DisciplinedInv, [Next]_vars
    PROVE  [Pinning!PinnedNext]_(Pinning!pinVars)
  <1> DEFINE pins == [u \in Users |-> held[u].ptr]
  <1>0. TypeOK /\ AgreesWithDriver /\ RefCountsMatchHolders /\ Fits
    BY DEF DisciplinedInv
  <1>1. ASSUME NEW u \in Users, NEW p \in Ptrs, NEW len \in LensOf[p], Acquire(u, p, len)
        PROVE  Pinning!Pin(u, p)
    <2>1. len \in Lens /\ AcquireSucceeds(p, len)
      BY <1>1, LensOfAssumption DEF Acquire
    <2>2. held[u] = NoHandle /\ held' = [held EXCEPT ![u] = [ptr |-> p, len |-> len]]
      BY <1>1 DEF Acquire, Holding
    <2>3. pins[u] = NullPtr
      BY <2>2 DEF NoHandle
    <2>4. pins' = [pins EXCEPT ![u] = p]
      BY <1>0, <2>2 DEF TypeOK
    <2> QED BY <1>0, <2>1, <2>3, <2>4, AcquireHolds DEF Pinning!Pin
  <1>2. ASSUME NEW u \in Users, NEW p \in Ptrs, NEW len \in LensOf[p],
               AcquireInVain(u, p, len)
        PROVE  UNCHANGED Pinning!pinVars
    <2>1. UNCHANGED <<driver, held>>
      BY <1>0, <1>2, FailureChangesNothing DEF AcquireInVain
    <2> QED BY <2>1 DEF Pinning!pinVars, DriverHolds
  <1>3. ASSUME NEW u \in Users, Release(u)
        PROVE  Pinning!Unpin(u)
    <2>1. held' = [held EXCEPT ![u] = NoHandle] /\ driver' = driver
      BY <1>3 DEF Release, ReleaseSucceeds, ReleaseFails, cacheVars
    <2>2. pins[u] # NullPtr
      BY <1>0, <1>3, HandleFacts, NullPtrAssumption DEF Release
    <2>3. pins' = [pins EXCEPT ![u] = NullPtr]
      BY <1>0, <2>1 DEF TypeOK, NoHandle
    <2>4. DriverHolds' = DriverHolds
      BY <2>1 DEF DriverHolds
    <2> QED BY <2>2, <2>3, <2>4 DEF Pinning!Unpin
  <1>4. ASSUME NEW gone, gone \subseteq DriverHolds, \A p \in gone : HoldersOf(p) = {},
               driver' = Deregistering(gone), UNCHANGED held
        PROVE  Pinning!PinnedNext
    <2>1. DriverHolds' = DriverHolds \ gone
      BY <1>0, <1>4, EvictHolds
    <2>2. gone \cap Pinning!Pinned = {}
      BY <1>4 DEF Pinning!Pinned, HoldersOf
    <2>3. Pinning!Drop(gone)
      BY <1>4, <2>1, <2>2 DEF Pinning!Drop
    <2> QED BY <1>4, <2>3 DEF Pinning!PinnedNext
  <1>5. CASE Evict
    <2>1. PICK idle \in IdleTimes :
              \E gone \in SUBSET Expired(idle) : EvictIdle(idle, gone)
      BY <1>5 DEF Evict
    <2>2. PICK gone \in SUBSET Expired(idle) : EvictIdle(idle, gone)
      BY <2>1
    <2>3. gone \subseteq DriverHolds /\ driver' = Deregistering(gone)
      BY <2>2 DEF EvictIdle, AcceptsDeregister
    <2>4. \A p \in gone : HoldersOf(p) = {}
      BY <1>0, ExpiredUnheld
    <2>5. Pinning!PinnedNext
      BY <1>4, <1>5, <2>3, <2>4 DEF Evict
    <2> QED BY <2>5
  <1>6. CASE Clear
    <2>1. PICK gone \in SUBSET RegisteredEntries : ForceEvictAll(gone)
      BY <1>6 DEF Clear
    <2>2. gone \subseteq DriverHolds /\ driver' = Deregistering(gone)
      BY <2>1 DEF ForceEvictAll, AcceptsDeregister
    <2>3. \A p \in gone : HoldersOf(p) = {}
      BY <1>0, <1>6, <2>2, HandleFacts DEF Clear, Disciplined, HoldersOf, DriverHolds
    <2>4. Pinning!PinnedNext
      BY <1>4, <1>6, <2>2, <2>3 DEF Clear
    <2> QED BY <2>4
  <1>7. CASE TimePasses \/ UNCHANGED vars
    <2>1. UNCHANGED <<driver, held>>
      BY <1>7 DEF TimePasses, Tick, vars
    <2> QED BY <2>1 DEF Pinning!pinVars, DriverHolds
  <1>8. (\E u \in Users, p \in Ptrs : Pinning!Pin(u, p)) => Pinning!PinnedNext
    BY DEF Pinning!PinnedNext
  <1>9. (\E u \in Users : Pinning!Unpin(u)) => Pinning!PinnedNext
    BY DEF Pinning!PinnedNext
  <1> QED BY <1>1, <1>2, <1>3, <1>5, <1>6, <1>7, <1>8, <1>9 DEF Next

\* The initial states map to an initial state.
LEMMA PinningInit == Init => Pinning!PinnedInit
  BY DEF Init, CacheInit, DriverInit, DriverHolds, Unregistered, NoHandle,
         Pinning!PinnedInit

\* Used with discipline, the cache implements PinnedBuffers.
THEOREM CacheImplementsPinning ==
    ASSUME Disciplined
    PROVE  Spec => PinningSpec
  <1>1. DisciplinedInv /\ [Next]_vars => [Pinning!PinnedNext]_(Pinning!pinVars)
    BY PinningStep
  <1> QED
    BY <1>1, DisciplinedInit, DisciplinedNext, PinningInit, PTL
       DEF Spec, PinningSpec, Pinning!PinnedSpec
=============================================================================
