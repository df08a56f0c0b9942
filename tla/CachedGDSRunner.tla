-------------------------- MODULE CachedGDSRunner --------------------------
(***************************************************************************)
(* The class CachedGDSRunner: the GDS runner that takes its buffers from a *)
(* GDSRegistrationCache.  One thread calls it; between its calls anything  *)
(* legal may be called next, in any order.  Its cache outlives every init, *)
(* and so do the cache's counters.                                         *)
(***************************************************************************)
EXTENDS GDSRegistrationCache, GdsSession

CONSTANTS BufferCounts,  \* the values passed to set_buffer_count
          Align          \* the unit O_DIRECT I/O has to be aligned to

ASSUME RunnerAssumption == /\ Sizes \subseteq Lens
                           /\ BufferCounts \subseteq Nat
                           /\ Align \in Nat \ {0}

VARIABLES buffer_count,
          before         \* the statistics of the cache when run began

runVars == <<buffer_count, i, iterations, before, metrics>>
vars == <<cacheVars, systemVars, sessionVars, runVars>>

NoMetrics == [iterations |-> 0, cache_hit |-> 0, cache_miss |-> 0,
              register_count |-> 0, deregister_count |-> 0]

RunnerTypeOK ==
    /\ CacheTypeOK /\ SessionTypeOK
    /\ pc \in {"idle", "teardown", "free", "open", "stat", "malloc", "driver", "handle",
               "ready", "acquire", "io", "release", "finish"}
    /\ buffer_count \in Nat \ {0}
    /\ i \in 0 .. iterations /\ iterations \in RunLengths \cup {0}
    /\ metrics \in [DOMAIN NoMetrics -> Nat]

Init ==
    /\ CacheInit /\ SessionInit
    /\ buffer_count = 1 /\ i = 0 /\ iterations = 0
    /\ before = GetStats /\ metrics = NoMetrics
-----------------------------------------------------------------------------
\* Fault: a count of zero is kept.
SetAnyBufferCount(count) ==
    /\ Idle /\ ~initialized
    /\ buffer_count' = count
    /\ UNCHANGED <<cacheVars, systemVars, sessionVars, i, iterations, before, metrics>>

\* set_buffer_count, which an initialized runner ignores.
SetBufferCount(count) ==
    /\ Idle /\ ~initialized
    /\ buffer_count' = IF count = 0 THEN 1 ELSE count
    /\ UNCHANGED <<cacheVars, systemVars, sessionVars, i, iterations, before, metrics>>

\* cleanup starts with force_evict_all, in init and when it is called.
StartCleanup ==
    /\ \/ \E size \in Sizes, read \in BOOLEAN : InitCall(size, read)
       \/ CleanupCall
       \/ CallFails
    /\ \E gone \in SUBSET RegisteredEntries : ForceEvictAll(gone)
    /\ UNCHANGED runVars

\* The calls of cleanup and init that the runners share.
SharedStep ==
    /\ \/ CloseDriver
       \/ FreeMemory
       \/ /\ \/ OpenFile \/ OpenFails
             \/ \E size \in FileSizes : Stat(size)
             \/ \E p \in Ptrs : AllocBuffer(p, buffer_count)
             \/ OpenDriver
          /\ UNCHANGED driver
    /\ UNCHANGED <<entries, stats, now, runVars>>

\* The file handle is registered, and init is done.
FinishInit ==
    /\ RegisterHandle("ready")
    /\ UNCHANGED <<cacheVars, runVars>>

Ready ==
    /\ pc = "ready"
    /\ InitDone
    /\ metrics' = NoMetrics
    /\ UNCHANGED <<cacheVars, buffer_count, i, iterations, before>>
-----------------------------------------------------------------------------
\* The buffer of iteration i.
DevPtr == buffers[(i % buffer_count) + 1]

RunRefused(n) ==
    /\ Idle
    /\ ~initialized \/ n = 0
    /\ Refuse
    /\ UNCHANGED <<cacheVars, runVars>>

RunCall(n) ==
    /\ Idle /\ initialized /\ n # 0
    /\ stats.hit_count + stats.miss_count + n <= MaxAcquires
    /\ i' = 0 /\ iterations' = n /\ before' = GetStats
    /\ GoTo("acquire")
    /\ UNCHANGED <<cacheVars, buffer_count, metrics>>

AcquireBuffer ==
    /\ pc = "acquire"
    /\ \/ AcquireSucceeds(DevPtr, io_size) /\ GoTo("io")
       \/ AcquireFails(DevPtr, io_size) /\ Refuse
    /\ UNCHANGED runVars

\* Fault: a failed I/O does not release its buffer.
DoIoKeepsBuffer ==
    /\ pc = "io"
    /\ GoTo("release") \/ Refuse
    /\ UNCHANGED <<cacheVars, runVars>>

\* cuFileRead or cuFileWrite transfers everything, or less, or fails; in the
\* last two the buffer is released, whatever release answers.
DoIo ==
    /\ pc = "io"
    /\ \/ GoTo("release") /\ UNCHANGED cacheVars
       \/ ReleaseSucceeds(DevPtr) /\ Refuse
       \/ ReleaseFails(DevPtr) /\ Refuse
    /\ UNCHANGED runVars

ReleaseBuffer ==
    /\ pc = "release"
    /\ \/ /\ ReleaseSucceeds(DevPtr)
          /\ i' = i + 1
          /\ GoTo(IF i' < iterations THEN "acquire" ELSE "finish")
       \/ ReleaseFails(DevPtr) /\ Refuse /\ UNCHANGED i
    /\ UNCHANGED <<buffer_count, iterations, before, metrics>>

\* Fault: the metrics are the totals of the cache.
FinishRunWithTotals ==
    /\ pc = "finish"
    /\ metrics' = [iterations |-> iterations,
                   cache_hit |-> GetStats.hit_count, cache_miss |-> GetStats.miss_count,
                   register_count |-> GetStats.register_count,
                   deregister_count |-> GetStats.deregister_count]
    /\ RunDone
    /\ UNCHANGED <<cacheVars, buffer_count, i, iterations, before>>

\* The metrics are the cache's counters since the run began.
FinishRun ==
    /\ pc = "finish"
    /\ metrics' = [iterations |-> iterations,
                   cache_hit |-> GetStats.hit_count - before.hit_count,
                   cache_miss |-> GetStats.miss_count - before.miss_count,
                   register_count |-> GetStats.register_count - before.register_count,
                   deregister_count |-> GetStats.deregister_count - before.deregister_count]
    /\ RunDone
    /\ UNCHANGED <<cacheVars, buffer_count, i, iterations, before>>

\* The steps of a call that runs, and the calls.
InCall ==
    ~Idle /\ (\/ StartCleanup \/ SharedStep \/ FinishInit \/ Ready
              \/ AcquireBuffer \/ DoIo \/ ReleaseBuffer \/ FinishRun)

Call ==
    \/ \E count \in BufferCounts : SetBufferCount(count)
    \/ Idle /\ StartCleanup
    \/ \E n \in RunLengths : RunCall(n) \/ RunRefused(n)

Next == InCall \/ Call

\* The calling thread goes on with a call it has begun: no call of the system
\* blocks for ever, and none is repeated without bound.
Spec == Init /\ [][Next]_vars /\ WF_vars(InCall)
-----------------------------------------------------------------------------
\* During the I/O its buffer is registered with the size of the I/O; and the
\* buffer in use is the only one referenced: every way out of an iteration, the
\* failed ones too, gives its reference back.
OnlyBufferInUsePinned ==
    LET InUse == pc \in {"io", "release"} IN
    /\ InUse => IsRegistered(DevPtr, io_size) /\ driver[DevPtr] = io_size
    /\ \A p \in DOMAIN entries :
           entries[p].ref_count = IF InUse /\ p = DevPtr THEN 1 ELSE 0

\* What a run that succeeded reports: each iteration was a hit or a miss, each
\* miss one registration, nothing was deregistered; and it missed just those of
\* its buffers that no run since init, succeeded or failed, had used before.
MetricsExplainRun ==
    LET touched == IF iterations < buffer_count THEN iterations ELSE buffer_count
        known   == before.entry_count
    IN  Idle /\ metrics.iterations > 0 =>
            /\ metrics.cache_hit + metrics.cache_miss = metrics.iterations
            /\ metrics.register_count = metrics.cache_miss
            /\ metrics.deregister_count = 0
            /\ initialized /\ result = "ok" =>
                   metrics.cache_miss = IF touched > known THEN touched - known ELSE 0

\* Every read of the GDS path starts at an aligned offset, when io_size is a
\* multiple of the alignment.
ReadsAreAligned ==
    pc = "io" /\ io_size % Align = 0 => Offset(i) % Align = 0

\* Every call returns.
CallsReturn == ~Idle ~> Idle
=============================================================================
