------------------------------ MODULE HostCache ------------------------------
(***************************************************************************)
(* The class HostCache of the g-route prototype: an LRU cache of whole     *)
(* files, bounded by the bytes it holds.  The OrderedDict _items is a      *)
(* function from the paths it has to the lengths of their data (items) and *)
(* its order, a relation (older).  A read that misses is several steps:    *)
(* the file is read, then _insert drops the oldest items, one by one, and  *)
(* stores the new one.  The length is that of the data read; the file may  *)
(* have another one when it is read again.                                 *)
(***************************************************************************)
EXTENDS Integers, FiniteSets, Functions

CONSTANTS Paths,         \* the files that may be read
          Sizes,         \* the lengths they may have
          Capacity,      \* capacity_bytes
          None           \* no data to insert

ASSUME HostCacheAssumption ==
    IsFiniteSet(Paths) /\ Sizes \subseteq Nat /\ Capacity \in Nat /\ None \notin Paths

VARIABLES items,         \* _items: the length of the data of each path it has
          older,         \* <<p, q>>: p comes before q in _items
          bytes,         \* _bytes
          incoming,      \* the path _insert is about to store, or None
          data,          \* the length of its data
          logical_reads, \* also route_counts["HostCache"]
          physical_reads,
          read,          \* the paths read so far (history)
          recent,        \* <<p, q>>: p was last read before q was (history)
          toolarge,      \* the paths that did not fit when last read (history)
          dropped,       \* data that was read and is not kept any more (history)
          hits           \* reads whose data came from the cache (history)

dictVars == <<items, older, bytes>>
insertVars == <<incoming, data>>
historyVars == <<read, recent, toolarge, dropped, hits>>
hostVars == <<dictVars, insertVars, logical_reads, physical_reads, historyVars>>

Cached == DOMAIN items

HostTypeOK ==
    /\ Cached \subseteq Paths /\ items \in [Cached -> Sizes]
    /\ older \subseteq Paths \X Paths
    /\ bytes \in Int
    /\ incoming \in Paths \cup {None} /\ data \in Sizes \cup {0}
    /\ logical_reads \in Nat /\ physical_reads \in Nat
    /\ read \subseteq Paths /\ recent \subseteq Paths \X Paths
    /\ toolarge \subseteq Paths /\ dropped \in Nat /\ hits \in Nat

HostInit ==
    /\ items = <<>> /\ older = {} /\ bytes = 0
    /\ incoming = None /\ data = 0
    /\ logical_reads = 0 /\ physical_reads = 0
    /\ read = {} /\ recent = {} /\ toolarge = {} /\ dropped = 0 /\ hits = 0
-----------------------------------------------------------------------------
\* The order on S with p taken out, and with p put at its end.
Without(order, p) == {pair \in order : p \notin {pair[1], pair[2]}}

PutLast(order, S, p) == Without(order, p) \cup {<<q, p>> : q \in S \ {p}}

\* The history of a read of p.
Touch(p) == read' = read \cup {p} /\ recent' = PutLast(recent, read, p)

\* read of a path in the cache: the item moves to the end.
ReadHit(p) ==
    /\ incoming = None /\ p \in Cached
    /\ logical_reads' = logical_reads + 1
    /\ older' = PutLast(older, Cached, p)
    /\ Touch(p) /\ hits' = hits + 1
    /\ UNCHANGED <<items, bytes, insertVars, physical_reads, toolarge, dropped>>

\* Fault: the file is read although its data is there.
ReadMissAgain(p, size) ==
    /\ incoming = None /\ p \in Paths
    /\ logical_reads' = logical_reads + 1
    /\ physical_reads' = physical_reads + 1
    /\ Touch(p)
    /\ IF size > Capacity
       THEN /\ toolarge' = toolarge \cup {p} /\ dropped' = dropped + 1
            /\ UNCHANGED insertVars
       ELSE /\ incoming' = p /\ data' = size
            /\ toolarge' = toolarge \ {p} /\ UNCHANGED dropped
    /\ UNCHANGED <<dictVars, hits>>

\* read of another path: its data, of length size, comes from the file.  What
\* is larger than the whole cache is not kept.
ReadMiss(p, size) ==
    /\ incoming = None /\ p \in Paths \ Cached
    /\ logical_reads' = logical_reads + 1
    /\ physical_reads' = physical_reads + 1
    /\ Touch(p)
    /\ IF size > Capacity
       THEN /\ toolarge' = toolarge \cup {p} /\ dropped' = dropped + 1
            /\ UNCHANGED insertVars
       ELSE /\ incoming' = p /\ data' = size
            /\ toolarge' = toolarge \ {p} /\ UNCHANGED dropped
    /\ UNCHANGED <<dictVars, hits>>

\* path.read_bytes() raises; the read has been counted.
ReadRaises(p) ==
    /\ incoming = None /\ p \in Paths \ Cached
    /\ logical_reads' = logical_reads + 1
    /\ UNCHANGED <<dictVars, insertVars, physical_reads, historyVars>>

\* The condition of the loop of _insert.
MustEvict == bytes + data > Capacity /\ Cached # {}

\* Fault: popitem() without last=False.
IsNewest(p) == p \in Cached /\ \A q \in Cached \ {p} : <<q, p>> \in older

IsOldest(p) == p \in Cached /\ \A q \in Cached \ {p} : <<p, q>> \in older

\* popitem(last=False), and the bytes of what it returns.
EvictOldest ==
    /\ incoming # None /\ MustEvict
    /\ \E p \in Paths :
        /\ IsOldest(p)
        /\ bytes' = bytes - items[p]
        /\ items' = Restrict(items, Cached \ {p})
        /\ older' = Without(older, p)
    /\ dropped' = dropped + 1
    /\ UNCHANGED <<insertVars, logical_reads, physical_reads, read, recent, toolarge, hits>>

\* Fault: what is stored is not counted.
InsertUncounted ==
    /\ incoming # None /\ ~MustEvict
    /\ items' = [p \in Cached \cup {incoming} |-> IF p = incoming THEN data ELSE items[p]]
    /\ older' = PutLast(older, Cached, incoming)
    /\ incoming' = None /\ data' = 0
    /\ UNCHANGED <<bytes, logical_reads, physical_reads, historyVars>>

\* The end of _insert.
Insert ==
    /\ incoming # None /\ ~MustEvict
    /\ items' = [p \in Cached \cup {incoming} |-> IF p = incoming THEN data ELSE items[p]]
    /\ older' = PutLast(older, Cached, incoming)
    /\ bytes' = bytes + data
    /\ incoming' = None /\ data' = 0
    /\ UNCHANGED <<logical_reads, physical_reads, historyVars>>

\* The steps inside a call, and the calls.
HostStep == EvictOldest \/ Insert

HostRead(p) == ReadHit(p) \/ (\E size \in Sizes : ReadMiss(p, size)) \/ ReadRaises(p)

HostNext == HostStep \/ \E p \in Paths : HostRead(p)

HostSpec == HostInit /\ [][HostNext]_hostVars
-----------------------------------------------------------------------------
\* The bytes held, each with the path it is of.
HeldBytes == UNION {{p} \X (1 .. items[p]) : p \in Cached}

\* The size the cache accounts for is that of the data it holds, at every step
\* of a read, and it never holds more than its capacity; although the files
\* change between two reads and an item leaves with the length it came with.
BytesAccounted == bytes = Cardinality(HeldBytes) /\ bytes <= Capacity

\* The cache drops what was read longest ago: a file in the cache has there
\* every file that was read after it, but those larger than the whole cache
\* and the one that is being stored; and it keeps its items in the order of
\* their last reads.
KeepsMostRecent ==
    /\ \A p \in Cached, q \in read :
           <<p, q>> \in recent => q \in Cached \cup toolarge \cup {incoming}
    /\ older = recent \cap (Cached \X Cached)

\* Each read of a file is there to see: its data is in the cache, was dropped
\* from it for room, or did not fit.  A file is not read again while it is
\* cached, so that as long as everything fits the second epoch and all others
\* read nothing from the disk.
PhysicalReadsExplained ==
    physical_reads = dropped + Cardinality(Cached) + (IF incoming = None THEN 0 ELSE 1)
=============================================================================
