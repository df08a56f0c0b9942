--------------------------- MODULE HostCacheProofs ---------------------------
(***************************************************************************)
(* Proofs about the host cache: for any files, of any lengths at any time, *)
(* and any capacity, the bytes are accounted for, what was read last is    *)
(* kept and no file is read that is cached.  The epochs and checkpoints of *)
(* the g-route prototype only make it do such steps.                       *)
(***************************************************************************)
EXTENDS GRouteMVP, FiniteSetTheorems, TLAPS

\* The order of the last reads is a strict one, of all files read.
RecentOrders ==
    /\ Cached \subseteq read
    /\ recent \subseteq read \X read
    /\ \A p \in read : <<p, p>> \notin recent
    /\ \A p, q \in read : p # q => (<<p, q>> \in recent <=> <<q, p>> \notin recent)

\* The data to store is of the file read last, fits, and is not stored yet.
IncomingIsLatest ==
    incoming # None =>
        /\ incoming \in read \ Cached
        /\ \A q \in read : <<incoming, q>> \notin recent
        /\ data \in Sizes /\ data <= Capacity

HostInv ==
    /\ HostTypeOK /\ RecentOrders /\ IncomingIsLatest
    /\ IsFiniteSet(HeldBytes) /\ BytesAccounted
    /\ KeepsMostRecent /\ PhysicalReadsExplained
-----------------------------------------------------------------------------
LEMMA InitHolds == HostInit => HostInv
  <1> SUFFICES ASSUME HostInit PROVE HostInv
    OBVIOUS
  <1> USE HostCacheAssumption DEF HostInit
  <1>1. Cached = {}
    BY DEF Cached
  <1>2. HeldBytes = {}
    BY <1>1 DEF HeldBytes
  <1>3. IsFiniteSet({}) /\ Cardinality({}) = 0
    BY FS_EmptySet
  <1>4. HostTypeOK
    BY <1>1 DEF HostTypeOK, Cached
  <1>5. RecentOrders /\ IncomingIsLatest /\ KeepsMostRecent
    BY <1>1 DEF RecentOrders, IncomingIsLatest, KeepsMostRecent
  <1>6. BytesAccounted /\ PhysicalReadsExplained
    BY <1>1, <1>2, <1>3 DEF BytesAccounted, PhysicalReadsExplained
  <1> QED BY <1>2, <1>3, <1>4, <1>5, <1>6 DEF HostInv

\* What a read of p makes of the order of the last reads.
LEMMA TouchOrders ==
    ASSUME HostTypeOK, RecentOrders, NEW p \in Paths, Touch(p)
    PROVE  /\ p \in read' /\ read \subseteq read' /\ read' \subseteq Paths
           /\ recent' \subseteq read' \X read'
           /\ \A q \in read' : <<q, q>> \notin recent'
           /\ \A q, r \in read' : q # r => (<<q, r>> \in recent' <=> <<r, q>> \notin recent')
           /\ \A q \in read' : <<p, q>> \notin recent'
           /\ \A q, r \in read : q # p /\ r # p => (<<q, r>> \in recent' <=> <<q, r>> \in recent)
           /\ \A q \in read : q # p => <<q, p>> \in recent'
  <1>1. read' = read \cup {p}
    BY DEF Touch
  <1>2. \A q, r : <<q, r>> \in recent' <=>
            \/ <<q, r>> \in recent /\ q # p /\ r # p
            \/ q \in read /\ q # p /\ r = p
    BY DEF Touch, PutLast, Without
  <1>3. recent' \subseteq read' \X read'
    <2>1. \A pair \in recent' : pair \in recent \/ \E q \in read : pair = <<q, p>>
      BY DEF Touch, PutLast, Without
    <2> QED BY <1>1, <2>1 DEF RecentOrders
  <1>4. read' \subseteq Paths /\ read \subseteq read' /\ p \in read'
    BY <1>1 DEF HostTypeOK
  <1> QED BY <1>1, <1>2, <1>3, <1>4, Zenon DEF RecentOrders
-----------------------------------------------------------------------------
\* A hit.
LEMMA HitStep ==
    ASSUME HostInv, NEW p \in Paths, ReadHit(p)
    PROVE  HostInv'
  <1> USE DEF HostInv
  <1>1. Cached' = Cached /\ HeldBytes' = HeldBytes
    BY DEF ReadHit, Cached, HeldBytes
  <1>2. Touch(p) /\ p \in Cached
    BY DEF ReadHit
  <1>3. /\ p \in read' /\ read \subseteq read' /\ read' \subseteq Paths
        /\ recent' \subseteq read' \X read'
        /\ \A q \in read' : <<q, q>> \notin recent'
        /\ \A q, r \in read' : q # r => (<<q, r>> \in recent' <=> <<r, q>> \notin recent')
        /\ \A q, r \in read : q # p /\ r # p => (<<q, r>> \in recent' <=> <<q, r>> \in recent)
        /\ \A q \in read : q # p => <<q, p>> \in recent'
        /\ \A q \in read' : <<p, q>> \notin recent'
    BY <1>2, TouchOrders, Zenon
  <1>4. older' = recent' \cap (Cached \X Cached)
    <2>1. \A q, r : <<q, r>> \in older' <=>
              \/ <<q, r>> \in older /\ q # p /\ r # p
              \/ q \in Cached /\ q # p /\ r = p
      BY DEF ReadHit, PutLast, Without
    <2>2. older' \subseteq Cached \X Cached
      BY DEF ReadHit, PutLast, Without, KeepsMostRecent
    <2>3. Cached \subseteq read /\ older = recent \cap (Cached \X Cached)
      BY DEF RecentOrders, KeepsMostRecent
    <2>4. \A q, r \in Cached : <<q, r>> \in older' <=> <<q, r>> \in recent'
      BY <1>3, <2>1, <2>3
    <2> QED BY <2>2, <2>4
  <1>5. HostTypeOK'
    BY <1>1, <1>3, <1>4 DEF HostTypeOK, ReadHit, insertVars
  <1>6. RecentOrders'
    BY <1>1, <1>3 DEF RecentOrders
  <1>7. IncomingIsLatest'
    BY DEF ReadHit, IncomingIsLatest, insertVars
  <1>8. BytesAccounted' /\ PhysicalReadsExplained'
    BY <1>1 DEF ReadHit, BytesAccounted, PhysicalReadsExplained, insertVars
  <1>9. KeepsMostRecent'
    <2>1. toolarge' = toolarge /\ incoming' = incoming
      BY DEF ReadHit, insertVars
    <2>2. read' = read
      BY <1>2 DEF Touch, RecentOrders
    <2>3. \A k \in Cached, q \in read' :
              <<k, q>> \in recent' => q \in Cached \cup toolarge \cup {incoming}
      <3> SUFFICES ASSUME NEW k \in Cached, NEW q \in read', <<k, q>> \in recent', q # p
                   PROVE  q \in Cached \cup toolarge \cup {incoming}
        BY <1>2
      <3>1. k \in read /\ q \in read /\ k # p
        BY <1>3, <2>2 DEF RecentOrders
      <3> QED BY <1>3, <3>1 DEF KeepsMostRecent
    <2> QED BY <1>1, <1>4, <2>1, <2>3 DEF KeepsMostRecent
  <1> QED BY <1>1, <1>5, <1>6, <1>7, <1>8, <1>9

\* A miss.
LEMMA MissStep ==
    ASSUME HostInv, NEW p \in Paths, NEW size \in Sizes, ReadMiss(p, size)
    PROVE  HostInv'
  <1> USE HostCacheAssumption DEF HostInv
  <1>1. Cached' = Cached /\ HeldBytes' = HeldBytes
    BY DEF ReadMiss, Cached, HeldBytes, dictVars
  <1>2. Touch(p) /\ p \notin Cached /\ incoming = None
    BY DEF ReadMiss
  <1>3. /\ p \in read' /\ read \subseteq read' /\ read' \subseteq Paths
        /\ recent' \subseteq read' \X read'
        /\ \A q \in read' : <<q, q>> \notin recent'
        /\ \A q, r \in read' : q # r => (<<q, r>> \in recent' <=> <<r, q>> \notin recent')
        /\ \A q, r \in read : q # p /\ r # p => (<<q, r>> \in recent' <=> <<q, r>> \in recent)
        /\ \A q \in read' : <<p, q>> \notin recent'
    BY <1>2, TouchOrders, Zenon
  <1>4. size \in Nat
    BY DEF HostTypeOK
  <1>5. \/ /\ size > Capacity /\ toolarge' = toolarge \cup {p} /\ dropped' = dropped + 1
           /\ incoming' = None /\ data' = data
        \/ /\ size <= Capacity /\ toolarge' = toolarge \ {p} /\ dropped' = dropped
           /\ incoming' = p /\ data' = size
    BY <1>2, <1>4 DEF ReadMiss, insertVars
  <1>6. HostTypeOK'
    BY <1>1, <1>3, <1>5 DEF HostTypeOK, ReadMiss, dictVars
  <1>7. RecentOrders'
    BY <1>1, <1>3 DEF RecentOrders
  <1>8. IncomingIsLatest'
    BY <1>1, <1>2, <1>3, <1>5 DEF IncomingIsLatest
  <1>9. BytesAccounted'
    BY <1>1 DEF ReadMiss, BytesAccounted, dictVars
  <1>10. PhysicalReadsExplained'
    <2>1. Cardinality(Cached) \in Nat
      <3>1. IsFiniteSet(Cached)
        BY FS_Subset DEF HostTypeOK
      <3> QED BY <3>1, FS_CardinalityType
    <2>2. p # None /\ dropped \in Nat
      BY DEF HostTypeOK
    <2>3. physical_reads' = physical_reads + 1 /\ physical_reads = dropped + Cardinality(Cached)
      BY <1>2, <2>1, <2>2 DEF ReadMiss, PhysicalReadsExplained
    <2> DEFINE cached == Cardinality(Cached)
    <2>4. cached \in Nat /\ physical_reads' = dropped + cached + 1
      BY <2>1, <2>2, <2>3
    <2>5. cached' = cached
      BY <1>1
    <2> HIDE DEF cached
    <2>6. physical_reads' = dropped' + cached' + (IF incoming' = None THEN 0 ELSE 1)
      BY <1>5, <2>2, <2>4, <2>5
    <2> QED BY <2>6 DEF PhysicalReadsExplained, cached
  <1>11. KeepsMostRecent'
    <2>1. older' = older /\ Cached \subseteq read
      BY DEF ReadMiss, dictVars, RecentOrders
    <2>2. older' = recent' \cap (Cached \X Cached)
      BY <1>2, <1>3, <2>1 DEF KeepsMostRecent
    <2>3. \A k \in Cached, q \in read' :
              <<k, q>> \in recent' => q \in Cached \cup toolarge' \cup {incoming'}
      <3> SUFFICES ASSUME NEW k \in Cached, NEW q \in read', <<k, q>> \in recent', q # p
                   PROVE  q \in Cached \cup toolarge' \cup {incoming'}
        BY <1>5
      <3>1. k \in read /\ q \in read /\ k # p /\ q # None
        BY <1>2, <1>3, <2>1 DEF Touch, HostTypeOK
      <3>2. q \in Cached \cup toolarge
        BY <1>2, <1>3, <3>1 DEF KeepsMostRecent
      <3> QED BY <1>5, <3>2
    <2> QED BY <1>1, <2>2, <2>3 DEF KeepsMostRecent
  <1> QED BY <1>1, <1>6, <1>7, <1>8, <1>9, <1>10, <1>11
-----------------------------------------------------------------------------
\* The bytes of one path.
LEMMA BytesOfOne ==
    ASSUME NEW p, NEW n \in Nat
    PROVE  IsFiniteSet({p} \X (1 .. n)) /\ Cardinality({p} \X (1 .. n)) = n
  <1>1. IsFiniteSet(1 .. n) /\ Cardinality(1 .. n) = n
    BY FS_Interval
  <1>2. IsFiniteSet({p}) /\ Cardinality({p}) = 1
    BY FS_Singleton
  <1>3. /\ IsFiniteSet({p} \X (1 .. n))
        /\ Cardinality({p} \X (1 .. n)) = Cardinality({p}) * Cardinality(1 .. n)
    BY <1>1, <1>2, FS_Product
  <1> QED BY <1>1, <1>2, <1>3

\* Two sets with nothing in common.
LEMMA DisjointCardinality ==
    ASSUME NEW S, NEW T, IsFiniteSet(S), IsFiniteSet(T), S \cap T = {}
    PROVE  /\ IsFiniteSet(S \cup T)
           /\ Cardinality(S) \in Nat /\ Cardinality(T) \in Nat
           /\ Cardinality(S \cup T) = Cardinality(S) + Cardinality(T)
  <1>1. /\ IsFiniteSet(S \cup T)
        /\ Cardinality(S \cup T) = Cardinality(S) + Cardinality(T) - Cardinality(S \cap T)
    BY FS_Union
  <1>2. Cardinality(S \cap T) = 0
    BY FS_EmptySet
  <1>3. Cardinality(S) \in Nat /\ Cardinality(T) \in Nat
    BY FS_CardinalityType
  <1> QED BY <1>1, <1>2, <1>3

\* An eviction.
LEMMA EvictStep ==
    ASSUME HostInv, EvictOldest
    PROVE  HostInv'
  <1> USE HostCacheAssumption DEF HostInv
  <1>1. PICK p \in Paths : /\ IsOldest(p)
                           /\ bytes' = bytes - items[p]
                           /\ items' = Restrict(items, Cached \ {p})
                           /\ older' = Without(older, p)
    BY DEF EvictOldest
  <1>2. /\ dropped' = dropped + 1
        /\ incoming' = incoming /\ data' = data /\ incoming # None
        /\ logical_reads' = logical_reads /\ physical_reads' = physical_reads
        /\ read' = read /\ recent' = recent /\ toolarge' = toolarge /\ hits' = hits
    BY DEF EvictOldest, insertVars
  <1>3. p \in Cached /\ \A q \in Cached \ {p} : <<p, q>> \in older
    BY <1>1 DEF IsOldest
  <1>4. items' = [q \in Cached \ {p} |-> items[q]]
    BY <1>1 DEF Restrict
  <1>5. Cached' = Cached \ {p}
    BY <1>4 DEF Cached
  <1>6. \A q \in Cached : items[q] \in Sizes /\ items[q] \in Nat
    BY DEF HostTypeOK
  <1>7. items' \in [Cached' -> Sizes] /\ \A q \in Cached' : items'[q] = items[q]
    BY <1>4, <1>5, <1>6
  <1>8. older' = recent' \cap (Cached' \X Cached')
    <2>1. \A q, r : <<q, r>> \in older' <=> <<q, r>> \in older /\ q # p /\ r # p
      BY <1>1 DEF Without
    <2>2. older' \subseteq older
      BY <1>1 DEF Without
    <2> QED BY <1>2, <1>5, <2>1, <2>2 DEF KeepsMostRecent
  <1>9. HostTypeOK'
    BY <1>1, <1>2, <1>3, <1>5, <1>6, <1>7, <1>8 DEF HostTypeOK
  <1>10. RecentOrders' /\ IncomingIsLatest'
    BY <1>2, <1>5 DEF RecentOrders, IncomingIsLatest
  <1>11. KeepsMostRecent'
    <2> SUFFICES ASSUME NEW k \in Cached', NEW q \in read', <<k, q>> \in recent'
                 PROVE  q \in Cached' \cup toolarge' \cup {incoming'}
      BY <1>8 DEF KeepsMostRecent
    <2>1. q \in Cached \cup toolarge \cup {incoming} /\ k \in Cached \ {p}
      BY <1>2, <1>5 DEF KeepsMostRecent
    <2>2. <<p, k>> \in recent
      BY <1>3, <2>1 DEF KeepsMostRecent
    <2>3. <<k, p>> \notin recent
      BY <1>3, <2>1, <2>2 DEF RecentOrders
    <2> QED BY <1>2, <1>5, <2>1, <2>3
  <1>12. IsFiniteSet(HeldBytes') /\ BytesAccounted'
    <2> DEFINE mine == {p} \X (1 .. items[p])
    <2>1. HeldBytes' = UNION {{q} \X (1 .. items[q]) : q \in Cached \ {p}}
      BY <1>5, <1>7 DEF HeldBytes
    <2>2. HeldBytes = HeldBytes' \cup mine /\ HeldBytes' \cap mine = {}
      BY <1>3, <2>1 DEF HeldBytes
    <2>3. IsFiniteSet(mine) /\ Cardinality(mine) = items[p] /\ items[p] \in Nat
      BY <1>3, <1>6, BytesOfOne
    <2>4. IsFiniteSet(HeldBytes')
      BY <2>2, FS_Subset
    <2> HIDE DEF mine
    <2>5. /\ Cardinality(HeldBytes') \in Nat
          /\ Cardinality(HeldBytes) = Cardinality(HeldBytes') + Cardinality(mine)
      BY <2>2, <2>3, <2>4, DisjointCardinality
    <2> DEFINE before == Cardinality(HeldBytes)
               after == Cardinality(HeldBytes)'
    <2>6. after \in Nat /\ before = after + items[p] /\ bytes = before /\ bytes <= Capacity
      BY <2>3, <2>5 DEF BytesAccounted
    <2> HIDE DEF before, after
    <2>7. bytes' = after /\ bytes' <= Capacity
      BY <1>1, <2>3, <2>6
    <2> QED BY <2>4, <2>7 DEF BytesAccounted, after
  <1>13. PhysicalReadsExplained'
    <2>1. IsFiniteSet(Cached)
      BY FS_Subset DEF HostTypeOK
    <2>2. Cardinality(Cached) \in Nat /\ Cardinality(Cached \ {p}) = Cardinality(Cached) - 1
      BY <1>3, <2>1, FS_CardinalityType, FS_RemoveElement
    <2>3. dropped \in Nat
      BY DEF HostTypeOK
    <2> QED BY <1>2, <1>5, <2>2, <2>3 DEF PhysicalReadsExplained
  <1> QED BY <1>9, <1>10, <1>11, <1>12, <1>13

\* The end of an insertion.
LEMMA InsertStep ==
    ASSUME HostInv, Insert
    PROVE  HostInv'
  <1> USE HostCacheAssumption DEF HostInv
  <1> DEFINE p == incoming
  <1>1. /\ p # None /\ ~MustEvict /\ incoming' = None /\ data' = 0
        /\ items' = [q \in Cached \cup {p} |-> IF q = p THEN data ELSE items[q]]
        /\ older' = PutLast(older, Cached, p)
        /\ bytes' = bytes + data
    BY DEF Insert
  <1>2. /\ logical_reads' = logical_reads /\ physical_reads' = physical_reads
        /\ read' = read /\ recent' = recent /\ toolarge' = toolarge /\ dropped' = dropped
        /\ hits' = hits
    BY DEF Insert, historyVars
  <1>3. /\ p \in read \ Cached /\ p \in Paths
        /\ \A q \in read : <<p, q>> \notin recent
        /\ data \in Sizes /\ data \in Nat /\ data <= Capacity
    BY <1>1 DEF IncomingIsLatest, HostTypeOK
  <1>4. Cached' = Cached \cup {p}
    BY <1>1 DEF Cached
  <1>5. \A q \in Cached : items[q] \in Sizes /\ items[q] \in Nat
    BY DEF HostTypeOK
  <1>6. /\ items' \in [Cached' -> Sizes]
        /\ items'[p] = data /\ \A q \in Cached : items'[q] = items[q]
    BY <1>1, <1>3, <1>4, <1>5
  <1>7. older' = recent' \cap (Cached' \X Cached')
    <2>1. \A q, r : <<q, r>> \in older' <=>
              \/ <<q, r>> \in older /\ q # p /\ r # p
              \/ q \in Cached /\ q # p /\ r = p
      BY <1>1 DEF PutLast, Without
    <2>2. older = recent \cap (Cached \X Cached) /\ Cached \subseteq read
      BY DEF KeepsMostRecent, RecentOrders
    <2>3. older' \subseteq Cached' \X Cached'
      BY <1>1, <1>4, <2>2 DEF PutLast, Without
    <2>4. \A q \in Cached : <<q, p>> \in recent /\ <<p, q>> \notin recent
      BY <1>3, <2>2 DEF RecentOrders
    <2>5. <<p, p>> \notin recent
      BY <1>3
    <2>6. \A q, r \in Cached' : <<q, r>> \in older' <=> <<q, r>> \in recent
      <3> SUFFICES ASSUME NEW q \in Cached', NEW r \in Cached'
                   PROVE  <<q, r>> \in older' <=> <<q, r>> \in recent
        OBVIOUS
      <3>1. CASE q \in Cached /\ r \in Cached
        BY <1>3, <2>1, <2>2, <3>1
      <3>2. CASE q \in Cached /\ r = p
        BY <1>3, <2>1, <2>4, <3>2
      <3>3. CASE q = p
        BY <1>3, <1>4, <2>1, <2>4, <2>5, <3>3
      <3> QED BY <1>4, <3>1, <3>2, <3>3
    <2> QED BY <1>2, <2>3, <2>6
  <1>8. bytes' \in Int
    BY <1>1, <1>3 DEF HostTypeOK
  <1>9. HostTypeOK'
    BY <1>1, <1>2, <1>3, <1>4, <1>6, <1>7, <1>8 DEF HostTypeOK
  <1>10. RecentOrders' /\ IncomingIsLatest'
    BY <1>1, <1>2, <1>3, <1>4 DEF RecentOrders, IncomingIsLatest
  <1>11. KeepsMostRecent'
    <2> SUFFICES ASSUME NEW k \in Cached', NEW q \in read', <<k, q>> \in recent'
                 PROVE  q \in Cached' \cup toolarge' \cup {incoming'}
      BY <1>7 DEF KeepsMostRecent
    <2>1. k # p
      BY <1>2, <1>3
    <2>2. q \in Cached \cup toolarge \cup {p}
      BY <1>2, <1>4, <2>1 DEF KeepsMostRecent
    <2> QED BY <1>2, <1>4, <2>2
  <1>12. IsFiniteSet(HeldBytes') /\ BytesAccounted'
    <2> DEFINE mine == {p} \X (1 .. data)
    <2>1. HeldBytes' = HeldBytes \cup mine /\ HeldBytes \cap mine = {}
      BY <1>3, <1>4, <1>6 DEF HeldBytes
    <2>2. IsFiniteSet(mine) /\ Cardinality(mine) = data
      BY <1>3, BytesOfOne
    <2> HIDE DEF mine
    <2>3. /\ IsFiniteSet(HeldBytes') /\ Cardinality(HeldBytes) \in Nat
          /\ Cardinality(HeldBytes') = Cardinality(HeldBytes) + Cardinality(mine)
      BY <2>1, <2>2, DisjointCardinality
    <2> DEFINE before == Cardinality(HeldBytes)
               after == Cardinality(HeldBytes)'
    <2>4. before \in Nat /\ after = before + data /\ bytes = before
      BY <2>2, <2>3 DEF BytesAccounted
    <2>5. bytes + data <= Capacity
      <3>1. CASE Cached = {}
        <4>1. before = 0
          BY <3>1, FS_EmptySet DEF HeldBytes
        <4> QED BY <1>3, <2>4, <4>1
      <3>2. CASE Cached # {}
        BY <1>1, <1>3, <2>4, <3>2 DEF MustEvict
      <3> QED BY <3>1, <3>2
    <2> HIDE DEF before, after
    <2>6. bytes' = after /\ bytes' <= Capacity
      BY <1>1, <1>3, <2>4, <2>5
    <2> QED BY <2>3, <2>6 DEF BytesAccounted, after
  <1>13. PhysicalReadsExplained'
    <2>1. IsFiniteSet(Cached)
      BY FS_Subset DEF HostTypeOK
    <2>2. Cardinality(Cached) \in Nat /\ Cardinality(Cached \cup {p}) = Cardinality(Cached) + 1
      BY <1>3, <2>1, FS_CardinalityType, FS_AddElement
    <2>3. dropped \in Nat
      BY DEF HostTypeOK
    <2> QED BY <1>1, <1>2, <1>4, <2>2, <2>3 DEF PhysicalReadsExplained
  <1> QED BY <1>9, <1>10, <1>11, <1>12, <1>13

\* A read that raises, and no step at all.
LEMMA RaiseStep ==
    ASSUME HostInv, \/ \E p \in Paths : ReadRaises(p)
                    \/ UNCHANGED hostVars
    PROVE  HostInv'
  <1>1. /\ UNCHANGED <<dictVars, insertVars, physical_reads, historyVars>>
        /\ logical_reads' \in Nat
    BY DEF HostInv, HostTypeOK, ReadRaises, hostVars
  <1> QED
    BY <1>1 DEF HostInv, HostTypeOK, RecentOrders, IncomingIsLatest, BytesAccounted,
       HeldBytes, KeepsMostRecent, PhysicalReadsExplained, Cached, dictVars, insertVars,
       historyVars
-----------------------------------------------------------------------------
LEMMA HostInductive == HostInv /\ [HostNext]_hostVars => HostInv'
  <1> SUFFICES ASSUME HostInv, [HostNext]_hostVars PROVE HostInv'
    OBVIOUS
  <1>1. CASE HostStep
    BY <1>1, EvictStep, InsertStep DEF HostStep
  <1>2. ASSUME NEW p \in Paths, HostRead(p) PROVE HostInv'
    BY <1>2, HitStep, MissStep, RaiseStep DEF HostRead
  <1>3. CASE UNCHANGED hostVars
    BY <1>3, RaiseStep
  <1> QED BY <1>1, <1>2, <1>3 DEF HostNext

\* Whatever run does with its epochs and checkpoints, its cache only ever makes
\* steps of its own: the prototype implements the host cache.
THEOREM RunUsesHostCache == Spec => HostSpec
  <1>1. Init => HostInit
    BY DEF Init
  <1>2. [Next]_vars => [HostNext]_hostVars
    <2> SUFFICES ASSUME [Next]_vars PROVE [HostNext]_hostVars
      OBVIOUS
    <2>1. CASE \E f \in Paths : ReadSample(f)
      BY <2>1 DEF ReadSample, HostNext, HostRead
    <2>2. CASE Store
      BY <2>2 DEF Store, HostNext
    <2>3. CASE Raise
      BY <2>3 DEF Raise, HostNext, HostRead, ReadRaises
    <2>4. CASE UNCHANGED hostVars
      BY <2>4
    <2>5. (\/ \E found \in SUBSET Paths : Discover(found)
           \/ \E f \in Paths : LabelSample(f)
           \/ StartEpoch \/ EndEpoch \/ LabelCheckpoint \/ Save \/ Load
           \/ Ended \/ UNCHANGED vars) => UNCHANGED hostVars
      BY DEF Discover, LabelSample, StartEpoch, EndEpoch, LabelCheckpoint, Save, Load,
         Ended, vars
    <2> QED BY <2>1, <2>2, <2>3, <2>4, <2>5 DEF Next
  <1> QED BY <1>1, <1>2, PTL DEF Spec, HostSpec

LEMMA HostInvHolds == Spec => []HostInv
  <1> QED BY RunUsesHostCache, InitHolds, HostInductive, PTL DEF HostSpec

\* The size the cache accounts for is that of the data it holds, at every step of
\* every read, and never more than its capacity, although the files change length.
THEOREM BytesAlwaysAccounted == Spec => []BytesAccounted
  <1>1. HostInv => BytesAccounted
    BY DEF HostInv
  <1> QED BY <1>1, HostInvHolds, PTL

\* The cache drops what was read longest ago.
THEOREM MostRecentKept == Spec => []KeepsMostRecent
  <1>1. HostInv => KeepsMostRecent
    BY DEF HostInv
  <1> QED BY <1>1, HostInvHolds, PTL

\* Each physical read is of data that is in the cache, is being stored, was dropped or
\* did not fit: no file is read from the disk while its data is in the cache.
THEOREM PhysicalReadsAlwaysExplained == Spec => []PhysicalReadsExplained
  <1>1. HostInv => PhysicalReadsExplained
    BY DEF HostInv
  <1> QED BY <1>1, HostInvHolds, PTL
-----------------------------------------------------------------------------
\* Where run is in its epochs, and what it has read of the samples.
EpochsRead ==
    /\ epoch > 0 => interval > 0
    /\ logical_reads = epoch * Cardinality(samples)
           + (IF pc = "read" THEN Cardinality(samples) - Cardinality(order) ELSE 0)
    /\ read \subseteq samples
    /\ epoch > 0 => read = samples
    /\ pc = "read" => read \cup order = samples /\ epoch < Epochs
    /\ pc # "read" => order = {}
    /\ pc = "discover" => samples = {} /\ epoch = 0
    /\ pc \in {"checkpoint", "save", "load"} => epoch > 0 /\ epoch % interval = 0
    /\ pc = "done" => epoch = Epochs

\* The labels of the samples: all are there when the first epoch starts.
SamplesLabelled ==
    \A f \in Paths :
        /\ labels[f] \in {0, 1}
        /\ labels[f] = 1 => f \in samples
        /\ f \in samples /\ (epoch > 0 \/ pc \notin {"discover", "label"}) => labels[f] = 1

\* The checkpoints so far: the last one may still have to be labelled or written.
CheckpointsWritten ==
    /\ \A k \in 1 .. Epochs :
           labels[k] = IF /\ k <= epoch /\ k % interval = 0
                          /\ ~(pc = "checkpoint" /\ k = epoch)
                       THEN 1 ELSE 0
    /\ epoch = 0 => saved = 0
    /\ epoch > 0 => saved = epoch \div interval - (IF pc \in {"checkpoint", "save"} THEN 1 ELSE 0)

RouteTypes ==
    /\ pc \in {"discover", "label", "read", "checkpoint", "save", "load", "done", "raised"}
    /\ interval \in Intervals
    /\ samples \subseteq Paths /\ order \subseteq samples
    /\ epoch \in 0 .. Epochs
    /\ labels \in [Files -> Nat] /\ saved \in Int

\* Unless a read raised, the reads that were counted are the physical ones and hits.
HitsCounted == pc # "raised" => logical_reads = physical_reads + hits

\* A run that has raised keeps only that each file was labelled before it was read.
RouteInv ==
    /\ RouteTypes
    /\ \A f \in read : labels[f] = 1
    /\ pc # "raised" => EpochsRead /\ SamplesLabelled /\ CheckpointsWritten
-----------------------------------------------------------------------------
\* Every n-th number is a multiple of n.
LEMMA NextMultiple ==
    ASSUME NEW n \in Nat \ {0}, NEW e \in Nat
    PROVE  /\ e \div n \in Nat /\ (e + 1) \div n \in Nat
           /\ (e + 1) \div n = e \div n + (IF (e + 1) % n = 0 THEN 1 ELSE 0)
  <1> DEFINE q == e \div n
             r == e % n
             s == (e + 1) \div n
             t == (e + 1) % n
  <1>1. q \in Int /\ s \in Int /\ r \in 0 .. n - 1 /\ t \in 0 .. n - 1
    OBVIOUS
  <1>2. e = n * q + r /\ e + 1 = n * s + t
    OBVIOUS
  <1> HIDE DEF q, r, s, t
  <1>3. q >= 0 /\ s >= 0
    <2>1. \A d \in Int : d < 0 => n * d <= -n
      OBVIOUS
    <2> QED BY <1>1, <1>2, <2>1
  <1>4. n * (s - q) = 1 + r - t
    BY <1>1, <1>2
  <1> DEFINE d == s - q
  <1>5. d \in Int /\ n * d = 1 + r - t
    BY <1>1, <1>4
  <1> HIDE DEF d
  <1>6. (d < 0 => n * d <= -n) /\ (d = 0 => n * d = 0) /\ (d = 1 => n * d = n) /\ (d > 1 => n * d >= n + n)
    BY <1>5
  <1>7. d = IF t = 0 THEN 1 ELSE 0
    BY <1>1, <1>5, <1>6
  <1>8. s = q + IF t = 0 THEN 1 ELSE 0
    BY <1>1, <1>7 DEF d
  <1>9. q \in Nat /\ s \in Nat
    BY <1>1, <1>3
  <1> QED BY <1>8, <1>9 DEF q, s, t

LEMMA RouteInit == Init => RouteInv
  <1> SUFFICES ASSUME Init PROVE RouteInv
    OBVIOUS
  <1> USE HostCacheAssumption, GRouteAssumption DEF Init, HostInit
  <1>1. RouteTypes
    BY DEF RouteTypes, Files
  <1>2. EpochsRead
    <2>1. Cardinality(samples) = 0
      BY FS_EmptySet
    <2> QED BY <2>1 DEF EpochsRead
  <1>3. SamplesLabelled
    BY DEF SamplesLabelled, Files
  <1>4. CheckpointsWritten
    BY DEF CheckpointsWritten, Files
  <1> QED BY <1>1, <1>2, <1>3, <1>4 DEF RouteInv

\* The numbers of a run are numbers.
LEMMA RouteNumbers ==
    ASSUME HostInv, RouteInv
    PROVE  /\ Epochs \in Nat /\ epoch \in Nat /\ epoch <= Epochs /\ interval \in Nat
           /\ logical_reads \in Nat
           /\ IsFiniteSet(samples) /\ IsFiniteSet(order)
           /\ Cardinality(samples) \in Nat /\ Cardinality(order) \in Nat
  <1>1. IsFiniteSet(samples) /\ IsFiniteSet(order)
    BY HostCacheAssumption, FS_Subset DEF RouteInv, RouteTypes
  <1>2. Cardinality(samples) \in Nat /\ Cardinality(order) \in Nat
    BY <1>1, FS_CardinalityType
  <1> QED BY <1>1, <1>2, GRouteAssumption DEF HostInv, HostTypeOK, RouteInv, RouteTypes

LEMMA DiscoverStep ==
    ASSUME HostInv, RouteInv, NEW found \in SUBSET Paths, Discover(found)
    PROVE  RouteInv'
  <1> USE DEF Discover, hostVars, historyVars, RouteInv
  <1>1. EpochsRead /\ SamplesLabelled /\ CheckpointsWritten /\ epoch = 0 /\ samples = {}
    BY DEF EpochsRead
  <1>2. RouteTypes'
    BY <1>1 DEF RouteTypes, EpochsRead
  <1>3. (\A f \in read : labels[f] = 1)'
    OBVIOUS
  <1>4. CASE pc' = "raised"
    BY <1>2, <1>3, <1>4
  <1>5. CASE pc' = "label"
    <2>1. logical_reads = 0 /\ IsFiniteSet(found) /\ Cardinality(found) \in Nat
      <3>1. Cardinality(samples) = 0
        BY <1>1, FS_EmptySet
      <3>2. IsFiniteSet(found)
        BY HostCacheAssumption, FS_Subset
      <3> QED BY <1>1, <3>1, <3>2, FS_CardinalityType DEF EpochsRead
    <2>2. EpochsRead'
      BY <1>1, <1>5, <2>1 DEF EpochsRead
    <2>3. SamplesLabelled'
      BY <1>1, <1>5 DEF SamplesLabelled
    <2>4. CheckpointsWritten'
      BY <1>1, <1>5 DEF CheckpointsWritten
    <2> QED BY <1>2, <1>3, <2>2, <2>3, <2>4
  <1> QED BY <1>4, <1>5

LEMMA LabelSampleStep ==
    ASSUME HostInv, RouteInv, NEW f \in Paths, LabelSample(f)
    PROVE  RouteInv'
  <1> USE DEF LabelSample, LabelOnce, hostVars, historyVars, RouteInv
  <1>1. EpochsRead /\ SamplesLabelled /\ CheckpointsWritten /\ f \in Files
    BY DEF Files
  <1>2. /\ labels' \in [Files -> Nat] /\ labels'[f] = 1
        /\ \A g \in Files \ {f} : labels'[g] = labels[g]
    BY <1>1 DEF RouteTypes
  <1>3. RouteTypes'
    BY <1>2 DEF RouteTypes
  <1>4. (\A g \in read : labels[g] = 1)'
    BY <1>1, <1>2 DEF EpochsRead, RouteTypes, Files
  <1>5. EpochsRead'
    BY <1>1 DEF EpochsRead
  <1>6. SamplesLabelled'
    BY <1>1, <1>2 DEF SamplesLabelled, Files
  <1>7. CheckpointsWritten'
    <2>1. \A k \in 1 .. Epochs : labels'[k] = labels[k]
      BY <1>2, GRouteAssumption DEF Files
    <2> QED BY <1>1, <2>1 DEF CheckpointsWritten
  <1> QED BY <1>3, <1>4, <1>5, <1>6, <1>7

LEMMA StartEpochStep ==
    ASSUME HostInv, RouteInv, StartEpoch
    PROVE  RouteInv'
  <1> USE DEF StartEpoch, hostVars, historyVars, RouteInv
  <1>1. EpochsRead /\ SamplesLabelled /\ CheckpointsWritten
    OBVIOUS
  <1>2. RouteTypes'
    BY DEF RouteTypes
  <1>3. (\A f \in read : labels[f] = 1)'
    OBVIOUS
  <1>4. EpochsRead'
    <2> DEFINE n == Cardinality(samples)
    <2>1. n \in Nat /\ epoch \in Nat /\ epoch <= Epochs /\ Epochs \in Nat
      BY RouteNumbers
    <2>2. logical_reads' = epoch' * n + (IF pc' = "read" THEN n - n ELSE 0)
      <3>1. logical_reads = epoch * n + 0
        BY <1>1 DEF EpochsRead
      <3> HIDE DEF n
      <3> QED BY <2>1, <3>1
    <2>3. pc' = "read" => Cardinality(order') = n
      OBVIOUS
    <2>4. n' = n
      OBVIOUS
    <2>5. logical_reads' = epoch' * n' + (IF pc' = "read" THEN n' - Cardinality(order') ELSE 0)
      <3> HIDE DEF n
      <3> QED BY <2>2, <2>3, <2>4, Zenon
    <2>6. pc' = "read" \/ pc' = "done"
      OBVIOUS
    <2> HIDE DEF n
    <2>7. /\ (epoch > 0 => interval > 0)' /\ (read \subseteq samples)'
          /\ (epoch > 0 => read = samples)'
          /\ (pc = "read" => read \cup order = samples /\ epoch < Epochs)'
          /\ (pc # "read" => order = {})' /\ (pc = "done" => epoch = Epochs)'
      BY <1>1, <2>1 DEF EpochsRead
    <2> QED BY <2>5, <2>6, <2>7, Zenon DEF EpochsRead, n
  <1>5. SamplesLabelled'
    <2>1. \A f \in samples : labels[f] = 1
      BY <1>1 DEF SamplesLabelled, RouteTypes
    <2> QED BY <1>1, <2>1 DEF SamplesLabelled
  <1>6. CheckpointsWritten'
    BY <1>1 DEF CheckpointsWritten
  <1> QED BY <1>2, <1>3, <1>4, <1>5, <1>6

LEMMA ReadSampleStep ==
    ASSUME HostInv, RouteInv, NEW f \in Paths, ReadSample(f)
    PROVE  RouteInv'
  <1> USE DEF RouteInv
  <1>1. /\ logical_reads' = logical_reads + 1 /\ read' = read \cup {f}
        /\ pc = "read" /\ pc' = "read" /\ f \in order /\ order' = order \ {f}
        /\ interval' = interval /\ samples' = samples /\ epoch' = epoch
        /\ labels' = labels /\ saved' = saved
    BY DEF ReadSample, ReadHit, ReadMiss, Touch
  <1>2. EpochsRead /\ SamplesLabelled /\ CheckpointsWritten /\ f \in samples
    BY <1>1 DEF RouteTypes
  <1>3. RouteTypes'
    BY <1>1 DEF RouteTypes
  <1>4. (\A g \in read : labels[g] = 1)'
    BY <1>1, <1>2 DEF SamplesLabelled
  <1>5. EpochsRead'
    <2>1. /\ logical_reads \in Nat /\ epoch \in Nat
          /\ Cardinality(samples) \in Nat /\ Cardinality(order) \in Nat
          /\ IsFiniteSet(order)
      BY RouteNumbers
    <2>2. Cardinality(order') = Cardinality(order) - 1
      BY <1>1, <2>1, FS_RemoveElement
    <2> DEFINE n == Cardinality(samples)
               m == Cardinality(order)
               done == epoch * n
    <2>3. logical_reads = done + (n - m)
      BY <1>1, <1>2 DEF EpochsRead
    <2>4. done \in Int /\ n \in Int /\ m \in Int
      BY <2>1
    <2> HIDE DEF n, m, done
    <2>5. logical_reads' = done + (n - (m - 1))
      BY <1>1, <2>3, <2>4
    <2>6. logical_reads' = epoch' * Cardinality(samples') + (Cardinality(samples') - Cardinality(order'))
      BY <1>1, <2>2, <2>5, Zenon DEF done, n, m
    <2>7. /\ read' \subseteq samples' /\ (epoch' > 0 => read' = samples')
          /\ read' \cup order' = samples'
      BY <1>1, <1>2 DEF EpochsRead
    <2>8. epoch' < Epochs /\ (epoch' > 0 => interval' > 0)
      BY <1>1, <1>2 DEF EpochsRead
    <2> QED BY <1>1, <2>6, <2>7, <2>8 DEF EpochsRead
  <1>6. SamplesLabelled'
    BY <1>1, <1>2 DEF SamplesLabelled
  <1>7. CheckpointsWritten'
    BY <1>1, <1>2 DEF CheckpointsWritten
  <1> QED BY <1>3, <1>4, <1>5, <1>6, <1>7

LEMMA EndEpochStep ==
    ASSUME HostInv, RouteInv, EndEpoch
    PROVE  RouteInv'
  <1> USE DEF RouteInv
  <1>1. /\ pc = "read" /\ order = {} /\ epoch' = epoch + 1
        /\ pc' = IF interval = 0 THEN "raised"
                 ELSE IF (epoch + 1) % interval = 0 THEN "checkpoint" ELSE "label"
        /\ logical_reads' = logical_reads /\ read' = read
        /\ interval' = interval /\ samples' = samples /\ order' = order
        /\ labels' = labels /\ saved' = saved
    BY DEF EndEpoch, hostVars, historyVars
  <1>2. EpochsRead /\ SamplesLabelled /\ CheckpointsWritten
    BY <1>1
  <1>3. /\ epoch \in Nat /\ Epochs \in Nat /\ epoch < Epochs /\ interval \in Nat
        /\ Cardinality(samples) \in Nat
    BY <1>1, <1>2, RouteNumbers DEF EpochsRead
  <1>4. RouteTypes'
    BY <1>1, <1>3 DEF RouteTypes
  <1>5. (\A f \in read : labels[f] = 1)'
    BY <1>1
  <1>6. CASE interval = 0
    BY <1>1, <1>4, <1>5, <1>6
  <1>7. CASE interval # 0
    <2>1. EpochsRead'
      <3> DEFINE n == Cardinality(samples)
      <3>1. Cardinality(order) = 0
        BY <1>1, FS_EmptySet
      <3>2. logical_reads = epoch * n + (n - 0)
        BY <1>1, <1>2, <3>1 DEF EpochsRead
      <3>3. (epoch + 1) * n = epoch * n + (n - 0)
        <4> HIDE DEF n
        <4> QED BY <1>3 DEF n
      <3>4. logical_reads' = epoch' * Cardinality(samples') + 0
        <4>1. (epoch + 1) * n = (epoch + 1) * n + 0
          BY <1>3
        <4> QED BY <1>1, <3>2, <3>3, <4>1
      <3>5. read' = samples'
        BY <1>1, <1>2 DEF EpochsRead
      <3>6. epoch' > 0 /\ interval' > 0 /\ order' = {}
        BY <1>1, <1>3, <1>7
      <3>7. \/ pc' = "checkpoint" /\ epoch' % interval' = 0
            \/ pc' = "label"
        BY <1>1, <1>7
      <3> HIDE DEF n
      <3> QED BY <3>4, <3>5, <3>6, <3>7 DEF EpochsRead
    <2>2. SamplesLabelled'
      BY <1>1, <1>2, <1>3 DEF SamplesLabelled
    <2>3. pc' = IF (epoch + 1) % interval = 0 THEN "checkpoint" ELSE "label"
      BY <1>1, <1>7
    <2>4. \A k \in 1 .. Epochs :
              labels'[k] = IF /\ k <= epoch' /\ k % interval' = 0
                              /\ ~(pc' = "checkpoint" /\ k = epoch')
                           THEN 1 ELSE 0
      <3> SUFFICES ASSUME NEW k \in 1 .. Epochs
                   PROVE  labels'[k] = IF /\ k <= epoch' /\ k % interval' = 0
                                          /\ ~(pc' = "checkpoint" /\ k = epoch')
                                       THEN 1 ELSE 0
        OBVIOUS
      <3>1. labels[k] = IF k <= epoch /\ k % interval = 0 THEN 1 ELSE 0
        BY <1>1, <1>2 DEF CheckpointsWritten
      <3>2. CASE k = epoch + 1
        <4>1. labels[k] = 0
          BY <1>3, <3>1, <3>2
        <4>2. CASE k % interval = 0
          BY <1>1, <2>3, <3>2, <4>1, <4>2
        <4> QED BY <1>1, <4>1, <4>2
      <3>3. CASE k # epoch + 1
        <4>1. k <= epoch + 1 <=> k <= epoch
          BY <1>3, <3>3
        <4> QED BY <1>1, <3>1, <3>3, <4>1
      <3> QED BY <3>2, <3>3
    <2>5. saved' = epoch' \div interval' - (IF pc' \in {"checkpoint", "save"} THEN 1 ELSE 0)
      <3> DEFINE before == epoch \div interval
                 after == (epoch + 1) \div interval
      <3>1. /\ before \in Nat /\ after \in Nat
            /\ after = before + (IF (epoch + 1) % interval = 0 THEN 1 ELSE 0)
        BY <1>3, <1>7, NextMultiple
      <3>2. saved = before
        <4>1. CASE epoch = 0
          <5>1. 0 \div interval = 0
            BY <1>3, <1>7
          <5> QED BY <1>2, <4>1, <5>1 DEF CheckpointsWritten
        <4>2. CASE epoch > 0
          <5>1. saved = before - 0
            BY <1>1, <1>2, <4>2 DEF CheckpointsWritten
          <5> QED BY <3>1, <5>1
        <4> QED BY <1>3, <4>1, <4>2
      <3> HIDE DEF before, after
      <3>3. before = after - (IF (epoch + 1) % interval = 0 THEN 1 ELSE 0)
        BY <3>1
      <3>4. pc' \in {"checkpoint", "save"} <=> (epoch + 1) % interval = 0
        BY <2>3
      <3>5. before = after - (IF pc' \in {"checkpoint", "save"} THEN 1 ELSE 0)
        BY <3>3, <3>4
      <3> QED BY <1>1, <3>2, <3>5 DEF after
    <2>6. epoch' # 0
      BY <1>1, <1>3
    <2>7. CheckpointsWritten'
      BY <2>4, <2>5, <2>6, Zenon DEF CheckpointsWritten
    <2> QED BY <1>4, <1>5, <2>1, <2>2, <2>7
  <1> QED BY <1>6, <1>7

LEMMA LabelCheckpointStep ==
    ASSUME HostInv, RouteInv, LabelCheckpoint
    PROVE  RouteInv'
  <1> USE DEF RouteInv
  <1>1. /\ pc = "checkpoint" /\ pc' = "save"
        /\ labels' = [labels EXCEPT ![epoch] = IF @ = 0 THEN 1 ELSE @]
        /\ logical_reads' = logical_reads /\ read' = read
        /\ interval' = interval /\ samples' = samples /\ order' = order
        /\ epoch' = epoch /\ saved' = saved
    BY DEF LabelCheckpoint, LabelOnce, hostVars, historyVars
  <1>2. EpochsRead /\ SamplesLabelled /\ CheckpointsWritten
    BY <1>1
  <1>3. epoch \in 1 .. Epochs /\ epoch % interval = 0 /\ epoch \in Files /\ epoch \notin Paths
    BY <1>1, <1>2, RouteNumbers, GRouteAssumption DEF EpochsRead, Files
  <1>4. labels[epoch] = 0
    BY <1>1, <1>2, <1>3 DEF CheckpointsWritten
  <1>5. /\ labels' \in [Files -> Nat] /\ labels'[epoch] = 1
        /\ \A f \in Files \ {epoch} : labels'[f] = labels[f]
    BY <1>1, <1>3, <1>4 DEF RouteTypes
  <1>6. RouteTypes'
    BY <1>1, <1>5 DEF RouteTypes
  <1>7. \A f \in Paths : labels'[f] = labels[f]
    BY <1>3, <1>5 DEF Files
  <1>8. (\A f \in read : labels[f] = 1)'
    BY <1>1, <1>7 DEF HostInv, HostTypeOK
  <1>9. EpochsRead'
    BY <1>1, <1>2 DEF EpochsRead
  <1>10. SamplesLabelled'
    BY <1>1, <1>2, <1>7 DEF SamplesLabelled
  <1>11. CheckpointsWritten'
    <2>1. \A k \in 1 .. Epochs : labels'[k] = IF k <= epoch /\ k % interval = 0 THEN 1 ELSE 0
      <3> SUFFICES ASSUME NEW k \in 1 .. Epochs
                   PROVE  labels'[k] = IF k <= epoch /\ k % interval = 0 THEN 1 ELSE 0
        OBVIOUS
      <3>1. CASE k = epoch
        BY <1>3, <1>5, <3>1
      <3>2. CASE k # epoch
        <4>1. labels'[k] = labels[k]
          BY <1>5, <3>2 DEF Files
        <4> QED BY <1>2, <3>2, <4>1 DEF CheckpointsWritten
      <3> QED BY <3>1, <3>2
    <2> QED BY <1>1, <1>2, <2>1 DEF CheckpointsWritten
  <1> QED BY <1>6, <1>8, <1>9, <1>10, <1>11

LEMMA SaveStep ==
    ASSUME HostInv, RouteInv, Save
    PROVE  RouteInv'
  <1> USE DEF RouteInv
  <1>1. /\ pc = "save" /\ pc' \in {"load", "label"} /\ saved' = saved + 1
        /\ logical_reads' = logical_reads /\ read' = read
        /\ interval' = interval /\ samples' = samples /\ order' = order
        /\ epoch' = epoch /\ labels' = labels
    BY DEF Save, hostVars, historyVars
  <1>2. EpochsRead /\ SamplesLabelled /\ CheckpointsWritten
    BY <1>1
  <1>3. RouteTypes'
    BY <1>1 DEF RouteTypes
  <1>4. (\A f \in read : labels[f] = 1)'
    BY <1>1
  <1>5. EpochsRead'
    BY <1>1, <1>2 DEF EpochsRead
  <1>6. SamplesLabelled'
    BY <1>1, <1>2 DEF SamplesLabelled, EpochsRead
  <1>7. CheckpointsWritten'
    <2> DEFINE due == epoch \div interval
    <2>1. saved = due - 1 /\ epoch > 0 /\ interval > 0 /\ epoch \in Nat /\ interval \in Nat
      BY <1>1, <1>2, RouteNumbers DEF CheckpointsWritten, EpochsRead
    <2>2. due \in Int
      BY <2>1
    <2> HIDE DEF due
    <2>3. saved' = due - 0
      BY <1>1, <2>1, <2>2
    <2>4. saved' = epoch' \div interval' - (IF pc' \in {"checkpoint", "save"} THEN 1 ELSE 0)
      BY <1>1, <2>3 DEF due
    <2>5. epoch' # 0
      BY <1>1, <2>1
    <2>6. \A k \in 1 .. Epochs :
              labels'[k] = IF /\ k <= epoch' /\ k % interval' = 0
                              /\ ~(pc' = "checkpoint" /\ k = epoch')
                           THEN 1 ELSE 0
      BY <1>1, <1>2 DEF CheckpointsWritten
    <2> QED BY <2>4, <2>5, <2>6, Zenon DEF CheckpointsWritten
  <1> QED BY <1>3, <1>4, <1>5, <1>6, <1>7

LEMMA LoadStep ==
    ASSUME HostInv, RouteInv, Load
    PROVE  RouteInv'
  <1> USE DEF RouteInv, Load, hostVars, historyVars, loopVars
  <1>1. EpochsRead /\ SamplesLabelled /\ CheckpointsWritten
    OBVIOUS
  <1>2. RouteTypes' /\ (\A f \in read : labels[f] = 1)'
    BY DEF RouteTypes
  <1>3. EpochsRead'
    BY <1>1 DEF EpochsRead
  <1>4. SamplesLabelled'
    BY <1>1 DEF SamplesLabelled, EpochsRead
  <1>5. CheckpointsWritten'
    BY <1>1 DEF CheckpointsWritten
  <1> QED BY <1>2, <1>3, <1>4, <1>5

\* A step of the cache inside a read, the end, and no step at all.
LEMMA QuietStep ==
    ASSUME HostInv, RouteInv, Store \/ Ended \/ UNCHANGED vars
    PROVE  RouteInv'
  <1>1. /\ logical_reads' = logical_reads /\ read' = read
        /\ pc' = pc /\ interval' = interval /\ samples' = samples /\ order' = order
        /\ epoch' = epoch /\ labels' = labels /\ saved' = saved
    BY DEF Store, HostStep, EvictOldest, Insert, Ended, vars, hostVars, historyVars, loopVars
  <1> QED
    BY <1>1 DEF RouteInv, RouteTypes, EpochsRead, SamplesLabelled, CheckpointsWritten

LEMMA RaisedStep ==
    ASSUME HostInv, RouteInv, Raise
    PROVE  RouteInv'
  <1>1. /\ pc' = "raised" /\ read' = read /\ UNCHANGED loopVars
    BY DEF Raise, ReadRaises, hostVars, historyVars
  <1> QED BY <1>1 DEF RouteInv, RouteTypes, loopVars

LEMMA RouteInductive == HostInv /\ RouteInv /\ [Next]_vars => RouteInv'
  <1> SUFFICES ASSUME HostInv, RouteInv, [Next]_vars PROVE RouteInv'
    OBVIOUS
  <1>1. ASSUME NEW found \in SUBSET Paths, Discover(found) PROVE RouteInv'
    BY <1>1, DiscoverStep
  <1>2. ASSUME NEW f \in Paths, LabelSample(f) PROVE RouteInv'
    BY <1>2, LabelSampleStep
  <1>3. ASSUME NEW f \in Paths, ReadSample(f) PROVE RouteInv'
    BY <1>3, ReadSampleStep
  <1>4. CASE StartEpoch
    BY <1>4, StartEpochStep
  <1>5. CASE EndEpoch
    BY <1>5, EndEpochStep
  <1>6. CASE LabelCheckpoint
    BY <1>6, LabelCheckpointStep
  <1>7. CASE Save
    BY <1>7, SaveStep
  <1>8. CASE Load
    BY <1>8, LoadStep
  <1>9. CASE Raise
    BY <1>9, RaisedStep
  <1>10. CASE Store \/ Ended \/ UNCHANGED vars
    BY <1>10, QuietStep
  <1> QED
    BY <1>1, <1>2, <1>3, <1>4, <1>5, <1>6, <1>7, <1>8, <1>9, <1>10 DEF Next

LEMMA HitsInductive == HostInv /\ HitsCounted /\ [Next]_vars => HitsCounted'
  <1> SUFFICES ASSUME HostInv, HitsCounted, [Next]_vars PROVE HitsCounted'
    OBVIOUS
  <1> USE DEF HitsCounted
  <1>1. logical_reads \in Nat /\ physical_reads \in Nat /\ hits \in Nat
    BY DEF HostInv, HostTypeOK
  <1>2. ASSUME NEW f \in Paths, ReadSample(f) PROVE HitsCounted'
    <2>1. CASE ReadHit(f)
      BY <1>1, <1>2, <2>1 DEF ReadSample, ReadHit
    <2>2. ASSUME NEW size \in Sizes, ReadMiss(f, size) PROVE HitsCounted'
      BY <1>1, <1>2, <2>2 DEF ReadSample, ReadMiss
    <2> QED BY <1>2, <2>1, <2>2 DEF ReadSample
  <1>3. CASE Store
    BY <1>3 DEF Store, HostStep, EvictOldest, Insert, historyVars
  <1>4. CASE Raise
    BY <1>4 DEF Raise
  <1>5. CASE \/ \E found \in SUBSET Paths : Discover(found)
             \/ \E f \in Paths : LabelSample(f)
             \/ StartEpoch \/ EndEpoch \/ LabelCheckpoint \/ Save \/ Load
    BY <1>5 DEF Discover, LabelSample, StartEpoch, EndEpoch, LabelCheckpoint, Save, Load,
                hostVars, historyVars
  <1>6. CASE Ended \/ UNCHANGED vars
    BY <1>6 DEF Ended, vars, hostVars, historyVars
  <1> QED BY <1>2, <1>3, <1>4, <1>5, <1>6 DEF Next

LEMMA RouteInvImplies == ASSUME HostInv, RouteInv, HitsCounted PROVE ReportIsWhole
  <1> USE DEF RouteInv
  <1>1. pc = "save" => labels[epoch] = 1
    <2> SUFFICES ASSUME pc = "save" PROVE labels[epoch] = 1
      OBVIOUS
    <2>1. EpochsRead /\ CheckpointsWritten
      OBVIOUS
    <2>2. epoch \in 1 .. Epochs /\ epoch % interval = 0
      BY <2>1, RouteNumbers DEF EpochsRead
    <2> QED BY <2>1, <2>2 DEF CheckpointsWritten
  <1>2. ASSUME pc = "done"
        PROVE  /\ logical_reads = Epochs * Cardinality(samples)
               /\ logical_reads - physical_reads = hits
               /\ Epochs > 0 => read = samples
               /\ Epochs > 0 => saved = Epochs \div interval
               /\ \A f \in Files : labels[f] =
                      IF f \in samples \/ (f \in 1 .. Epochs /\ f % interval = 0) THEN 1 ELSE 0
    <2>1. EpochsRead /\ SamplesLabelled /\ CheckpointsWritten /\ epoch = Epochs
      BY <1>2 DEF EpochsRead
    <2>2. logical_reads = Epochs * Cardinality(samples)
      <3> DEFINE total == Epochs * Cardinality(samples)
      <3>1. logical_reads = total + 0
        BY <1>2, <2>1 DEF EpochsRead
      <3>2. total \in Int
        BY RouteNumbers
      <3> HIDE DEF total
      <3>3. logical_reads = total
        BY <3>1, <3>2
      <3> QED BY <3>3 DEF total
    <2>3. Epochs > 0 => read = samples
      BY <2>1 DEF EpochsRead
    <2>4. Epochs > 0 => saved = Epochs \div interval
      <3> SUFFICES ASSUME Epochs > 0 PROVE saved = Epochs \div interval
        OBVIOUS
      <3> DEFINE due == Epochs \div interval
      <3>1. saved = due - 0
        BY <1>2, <2>1 DEF CheckpointsWritten
      <3>2. due \in Int
        BY <2>1, RouteNumbers DEF EpochsRead
      <3> HIDE DEF due
      <3>3. saved = due
        BY <3>1, <3>2
      <3> QED BY <3>3 DEF due
    <2>5. ASSUME NEW f \in Files
          PROVE  labels[f] = IF f \in samples \/ (f \in 1 .. Epochs /\ f % interval = 0)
                             THEN 1 ELSE 0
      <3>1. CASE f \in Paths
        <4>1. f \notin 1 .. Epochs
          BY <3>1, GRouteAssumption
        <4> QED BY <1>2, <2>1, <3>1, <4>1 DEF SamplesLabelled
      <3>2. CASE f \in 1 .. Epochs
        <4>1. f \notin samples /\ f <= epoch
          BY <2>1, <3>2, GRouteAssumption DEF RouteTypes
        <4> QED BY <1>2, <2>1, <3>2, <4>1 DEF CheckpointsWritten
      <3> QED BY <3>1, <3>2 DEF Files
    <2>6. logical_reads - physical_reads = hits
      BY <1>2 DEF HitsCounted, HostInv, HostTypeOK
    <2> QED BY <2>2, <2>3, <2>4, <2>5, <2>6
  <1> QED BY <1>1, <1>2 DEF ReportIsWhole

\* Whatever the files and their lengths, the number of epochs and the interval: no
\* sample is read and no checkpoint written without its label, and the report of a
\* run that was not stopped by an exception has every read, checkpoint and label, and
\* the number of reads that the cache has served.
THEOREM ReportAlwaysWhole == Spec => []ReportIsWhole
  <1>1. Init => HitsCounted
    BY DEF Init, HostInit, HitsCounted
  <1>2. Spec => [](HostInv /\ RouteInv /\ HitsCounted)
    BY <1>1, HostInvHolds, RouteInit, RouteInductive, HitsInductive, PTL DEF Spec
  <1>3. HostInv /\ RouteInv /\ HitsCounted => ReportIsWhole
    BY RouteInvImplies
  <1> QED BY <1>2, <1>3, PTL
=============================================================================
