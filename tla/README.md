# A verification project for the GPUDirect Storage benchmark

TLA+ modules that model the benchmark program (`src/src`, `src/include`), TLC
configurations that check them on small instances, and proofs that TLAPS checks
for every instance. `PROJECT.json` maps every definition to the lines it stands
for.

## 1. The system

The repository measures ways to bring file data to the memory of a GPU. Paths
below are relative to `src/`.

| component | state it keeps | operations | what makes it correct |
|---|---|---|---|
| **GDSRegistrationCache** (`src/gds_cache.cpp`) | a map from device pointers to entries (length, registered, use and reference counts, time of last use), statistics, a mutex | `acquire`, `release`, `evict_idle`, `force_evict_all`, `is_registered`, `get_stats` | entries say what the driver has; a buffer between acquire and release stays registered; reference counts are exact; statistics account for every registration |
| **CachedGDSRunner** (`src/cached_gds_runner.cpp`) | file, driver session, handle, a vector of device buffers, its cache, per-run metrics | `set_buffer_count`, `init`, `run`, `cleanup` | init gives everything back at any failure; no registration outlives its memory or session; each reference is given back; metrics are those of the run |
| **OptimizedGDSRunner** (`src/optimized_gds_runner.cpp`) | the same with one buffer, and the flags `cufile_buffer_registered_`, `run_completed_` | `init`, `run`, `cleanup`, `deregister_buffer_once` | registered once, deregistered once; the flags agree with the driver; an error is never lost |
| **NaiveGDSRunner** (`src/naive_gds_runner.cpp`) | the same with one buffer | `init`, `run`, `cleanup` | registered exactly during an iteration; counts balance |
| **CPUPathRunner** (`src/cpu_path_runner.cpp`) | file, host and device buffer | `init`, `run`, `cleanup`, `read_once`, `memcpy_once` | only whole reads are copied; nothing leaks; no end of file of its own making |
| **microbenchmark** (`src/microbench_main.cpp`) | per case: file, driver session, handle, `rr.error`, latencies, byte counter; per worker: buffers, its share of the requests | `main`, `run_one`, its worker threads | a case reported ok did every request once; a failure is reported; workers stop and end; nothing shared is closed under a worker |
| imagenet benchmark (`src/imagenet_compare_main.cpp`) | per run: file list, session, buffers, statistics; the csv file | `main`, `run_one`, `append_csv` | every file of the list is a sample or a failure; a run gives everything back; the csv has the rows of the cases that succeeded |
| g-route MVP (`g-route/g_route_mvp.py`) | an LRU host cache with a byte count, counters, a profile log | `read`, `_insert`, `run` | bytes accounted for = bytes held <= capacity; the oldest is evicted; a report is of a whole run |
| io_bench trace (`bench/src/io_bench`) | a stream, a sequence number, an enabled flag, a mutex | `open`, `append`, `close`, `read_io_trace` | rows are numbered without a gap; what is read back was written, but for a last number that is cut; no undisturbed append is lost |
| groute C++ runtime (`groute/cpp`) | directory of metadata, last plan | `plan`, `read` with fallback to POSIX | the plan obeys its thresholds; a fallback answers what POSIX does |
| groute Python planner (`groute/python`) | none | `plan` | the decisions of the C++ planner |
| bench_main (`src/bench_main.cpp`) | a configuration | one runner, `init`, `run`, CSV | the calls it makes are legal ones of its runner |
| scripts | none | parse, summarise, plot | formatting only |

How they interact. `bench_main` builds one runner for its mode and calls `init`
and `run` from one thread. A runner calls CUDA and cuFile; the cached one takes
its buffers' registrations from its cache, which calls cuFile. The microbenchmark
and the imagenet benchmark do their own calls; the workers of the first share
`rr.error`, `lat_us` and counters. `run` of g-route reads its training files
through its host cache and writes its checkpoints past it. Threads of io_bench
share one trace writer. groute, g-route and io_bench are separate programs.

What is hard here:

- *calls that fail half way*: an `init` makes up to seven calls of the system and
  an `acquire` two of the driver; each may fail with the ones before it done, and
  the status of several calls is ignored;
- *sequences of legal calls*: runs after failed runs, inits without a cleanup,
  cleanups of a runner never initialized, with flags and counters that outlive them;
- *interleavings*: other threads' evictions between an acquire and its release;
  the microbenchmark's workers, which read `rr.error` without the lock its writers
  hold; an append that looks at `enabled` before it has the mutex;
- *a process that ends in the middle, or a full disk*: the trace is written through
  a buffer, and the file may end anywhere, also inside the last number of a row;
- *files that change*: between the listing and the reading of a file, between two
  reads of it, during a run;
- *numeric edges*: offsets that wrap around, shares and batches of requests, the
  last slot of a file.

`PROJECT.json` lists these under `hazards`, each at its line, with the properties
that cover it.

## 2. The modules

| module | models | built on |
|---|---|---|
| `CuFile` | the driver's buffer registrations (external) | |
| `GDSRegistrationCache` | the cache class | `CuFile` |
| `PinnedBuffers` | abstract: what a registration cache promises | |
| `GDSCacheUsers` | threads that acquire, use and release; implements `PinnedBuffers` | `GDSRegistrationCache` |
| `GdsPlatform` | files, driver sessions, handles, device memory (external) | `CuFile` |
| `IoOffsets` | offsets, slots and alignment | |
| `Percentiles` | the percentiles of both benchmarks | |
| `GdsSession` | what `init` and `cleanup` of the three GDS runners share | `GdsPlatform`, `IoOffsets` |
| `CachedGDSRunner` | the cached runner with its cache | `GDSRegistrationCache`, `GdsSession` |
| `OptimizedGDSRunner`, `NaiveGDSRunner` | the other two | `GdsSession` |
| `CPUPathRunner` | the CPU runner | `IoOffsets` |
| `Microbench` | `main`, `run_one` and its workers | `GdsPlatform`, `IoOffsets` |
| `ImagenetBench` | `main`, `run_one`, `append_csv` | `GdsPlatform`, `IoOffsets` |
| `HostCache` | the LRU cache of g-route, a specification of its own | |
| `GRouteMVP` | `run` of g-route; implements `HostCache` | `HostCache` |
| `GRoutePlanner` | both route planners and `Runtime::read`, as functions | |
| `IOTraceWriter` | the trace writer, its threads, the file and reading it back | |
| `GdsRunnersProofs` | theorems about the cached and the naive runner | both, `GDSRegistrationCacheProofs` |
| `FileReadsProofs` | theorems about the CPU runner, the imagenet benchmark, and the places of reads | both |
| `MicrobenchProofs` | theorems about the microbenchmark and the percentiles | `Microbench`, `Percentiles` |
| `HostCacheProofs` | theorems about the host cache and the run of g-route | `GRouteMVP` |
| other `...Proofs` | theorems | the modules they are named after |
| `MC...` | definitions for TLC | |

### How state and actions correspond to the code

**The driver.** `driver[p]` is the length registered for the buffer at `p`, or 0.
The driver refuses a second registration of a pointer and the deregistration of
an unregistered one, and may refuse any call for reasons of its own. The program
does not show what a driver does with a registration of freed memory, so the
models only say where one exists. Closing the last driver session ends all
registrations. The calls whose status the code ignores and that release something
other than a registration (`cudaFree`, `close`, `cuFileHandleDeregister`,
`cuFileDriverClose`, `free`) are taken to succeed.

**The cache.** Every public operation holds `mutex_` from its first read to its
last write, and `get_stats` takes its snapshot under it too, so one operation is
one step. What can happen inside is in the outcome: `acquire` succeeds as
`AcquireFirst`, `AcquireHit` or `AcquireAgain`, fails as `AcquireRefused` (nothing
changed) or `AcquireLoses` (deregistered, then not registered again); an eviction
has the parameter `gone`, the registrations the driver did give up. An entry
keeps all its fields except `base_ptr`, which always equals its key.

**The users** hold a pair of pointer and length between acquire and release.
`LensOf` gives the lengths each pointer is acquired with, `QuiescentForce` says
whether `force_evict_all` is only called when nobody holds a buffer. The runner of
this repository does both, one length per pointer and clearing only in `cleanup`:
that is the constant-level definition `Disciplined`.

Two modules can be extended together only if they share no name of their own. So that
one module can hold the theorems about two programs, `NaiveGDSRunner` calls
`Naive...` what `CachedGDSRunner` has too, and `CPUPathRunner` has `CPUInit`,
`CPUNext`, `CPUSpec`, `cpu_pc` and `OpenSource` for `Init`, `Next`, `Spec`, `pc` and
`OpenFile`.

**The GDS runners** have a `pc` with the next call of the system. `init` is
`InitCall`, the cleanup (`CloseDriver`, `FreeMemory`), then `OpenFile`, `Stat`,
`AllocBuffer`, ..., `InitDone`; a failing call is `CallFails`, which begins the
cleanup that ends the call. What each runner's own `cleanup` does first is the
runner's `StartCleanup`, taken in the same step as the call that begins it. Between
two calls (`Idle`) any public operation may follow, with any argument. The
destructor is a `cleanup` after which nothing is called.
`back` remembers whether the cleanup is the first part of `init`. `last_error_`
is left out where nothing depends on it; in `OptimizedGDSRunner` it is `cause`,
because a failing deregistration in `cleanup` replaces it. Times and throughput
are left out of the metrics, counts are in. A null `device_buffer_` is an empty
`buffers`.

**The CPU runner** has a file whose size may change while it is open; `pread`
returns any positive part of what is asked and there.

**The microbenchmark** has one `pc` for main and one per worker. A worker's device
buffer is named by its number; `rr` has `ok` and whether `error` is non-empty.
The write of `rr.error` under `lat_mu` is two steps, `BeginError` and `EndError`;
`Check`, which reads it without the lock, sees the old or the new value between
them (`MaySee`), which is what a reader of a string being assigned can see of
`empty()`. The latency of a request is recorded and its bytes are counted in one
step: both are only read after `join`. Each allocation may fail, and a worker goes
on with a null pointer as the code does: reads into a null host buffer fail, a
`cudaMemcpy` into a null device buffer fails unnoticed.
`moved` and `atError` are history variables: no action depends on them.

**The imagenet benchmark** reads the files of a list one by one; sizes are those
of the listing, and a read may return anything from an error to all that the
buffer has room for, which is what a file that has gone, shrunk or grown gives.
`arrived` (history) holds the files whose bytes are on the device. `csv` is the
sequence of lines of the file, which an earlier run of the program may have begun.
Two histories say what it should have: `succeeded` gets a case where `run_one`
returns no error (`Teardown`), before `main` looks at that result, and `unopened`
counts the times `append_csv` could not open the file; `AppendCsv` changes only the
file and that count. An empty list ends the program, except one that was
cut to `--max_files=0`, since the check for an empty list comes before the cut.

**The host cache** keeps the lengths of its items, and the order of its
`OrderedDict` as a relation (`older`), so that "least recently used" can be
stated. `_insert` is a step per eviction and one for the item, because the
account must be right at each of them. `recent`, `read`, `toolarge`, `dropped` and
`hits` are histories; the last one tells a read served from the cache from one that
was counted and then raised, which the code's counters do not. In `GRouteMVP` any subset of the paths is found, read in any
order in each epoch, and any file system call may raise.

**The planners** are operators: `Runtime` keeps nothing from one read to the next
but the last plan, which nothing reads. The claims about them are evaluated over
all small arguments by an `ASSUME` of `MCGRouteMVP`.

**The trace writer.** A call of `append` is up to four steps: the unlocked look at
`enabled` (`CallAppend`), the mutex, the second look with the number, the row.
`open` and `close` hold the mutex from beginning to end. The stream is `rows`, what
it was given, and `torn`, the row that filled the disk; `lines` and `tail` are how
much of that is in the file: any number of whole lines and any part of the next one
(`Flush`), so that `Crash` leaves a file cut anywhere. Where a row is cut matters
in three ways, which `tail` tells apart: before its last field (`"part"`), where
`read_io_trace` throws; inside its last number, after one digit or two, where it does
not (a row ends with `cache_miss`, which is printed with up to three digits, and
`std::stoull` takes what is left of them); or just before its newline (`"all"`).
`CacheMiss` gives the value of each call, and `Shown` what is left of it. A header
that is cut is refused. A stream opened twice or on a full disk has an error bit and
takes nothing more. `call`, `undisturbed`,
`promised`, `lost` and `flushed` are histories. It is assumed that a disk that was
full stays so until `close`, since a standard library that writes again a buffer
it could write in part would repeat that part; and that `open` succeeds when it
may (one that fails changes nothing and throws).

Definitions under a comment that begins with `Fault:` are no part of the model:
each is a definition with one mistake that could be made in the code, used to see
that a property notices it.

## 3. The runs

| run | configuration | states | what it shows |
|---|---|---|---|
| `users` | 3 users, 2 buffers, one length each, 5 acquires, 2 ticks | 1975 | held buffers stay registered, reference counts are exact, `PinnedBuffers` is implemented |
| `users_any_length` | 2 users, 2 buffers, lengths 0 to 2, clearing while in use | 11286 | entries agree with the driver, counters balance, no phantom references, in every order of operations and refusals |
| `cached_runner` | 2 buffers in rotation or 1, runs of 1 and 3, 4 acquires | 153302 | resources, references, metrics of the run; every call returns |
| `cached_aligned` | one run of 3 reads of half the file | | **violation**: the offset after the wrap is not aligned |
| `optimized_runner` | 1 buffer, 3 runs of 1 or 2 | 16688 | flags, counts, errors and resources |
| `naive_runner` | 1 buffer, 3 runs of 1 or 2 | 37856 | registration per iteration, refused deregistrations and resources |
| `cpu_runner` | I/O of 1 or 3 bytes, files of 0, 2 or 5, one change of size | 6880 | whole reads, end of file, resources; every call returns |
| `microbench` | 4 cases, 5 configurations of up to 2 workers and 3 requests | 16862 | completeness, reported failures, prompt stop, teardown, termination |
| `microbench_moved` | 1 case, 1 request | | **violation**: a case is reported ok though nothing was moved |
| `groute_mvp` | 3 files of length 0, 1, 2 or 4, capacity 3, 3 epochs, intervals 0, 1, 2 | 15366 | accounting, order of eviction, physical reads, whole reports; and the planners |
| `io_trace` | 2 threads, 4 appends with a last value of 1, 2 or 3 digits, any number of opens and closes, a full disk, a crash | 271996 | numbering, reading back, no lost append; every append returns |
| `imagenet` | lists of up to 2 files, `--path=all` or one path, a cold and a warm run, a csv file of before or none | 30680 | accounting of files and bytes, resources, the csv file |

Bounds. Two buffers are enough for an entry to be evicted, forgotten or changed
while another one is in use; two positive lengths for a mismatch and its way back;
four or five acquires for first use, hit, mismatch, failed registration and new
registration of one buffer, or for two runs that share a cache. `MaxAcquires`
bounds the successful acquires, `MaxRuns` the runs, `MaxNow` the clock,
`MaxResizes` the changes of a file and `MaxAppends` the appends: guards
only of the model, which stop growth and allow everything else to go on. Inits
and cleanups, opens and closes are not bounded. A run of three iterations on two
buffers uses one of
them twice. In `microbench`, three requests on two workers make uneven shares,
with `queue_depth` 1 several batches for one worker and with 2 a batch
cut short by the end of the share; another configuration has more workers than
requests; the file has two and a half slots. Three files of lengths up to one more
than the capacity of 3 make an insertion evict none, one or two items, hold items of
no bytes, and refuse one that is too large; three epochs with an interval of 2
begin and end with no checkpoint due. Two threads are enough for one to wait
while the other is anywhere in `append`, and four appends for a row lost, one kept
and one of another trace. Their last values, 12, 1, 255 and 0, can be cut after one
digit, not at all, and after one digit or two. Symmetry is used in runs without liveness only.

Deadlock is checked in all runs except those of the microbenchmark, a program that
ends; the other programs that end do so in an explicit step `Ended`.

Fairness. `CallsReturn` assumes that the calling thread goes on with a call it
has begun (`WF_vars(InCall)`); `Terminates` that main and each worker go on
when they can; `AppendsReturn` that each thread in `append` does
(`WF_vars(InAppend(t))`). Weak fairness is all an operating system gives.
Nothing is assumed of outcomes: the properties hold if every call that can fail
does, and in any order. A worker may lose the race for `lat_mu`, or a thread
that for the writer's mutex, repeatedly, but the others have only finitely many
requests or appends, after which it is free for good. (With opens and closes
for ever, of which each is one step, weak fairness still suffices: the mutex is
free after each.) That no call of the system blocks for ever is assumed.

### Findings

1. The GDS runners' offset, `(i * io_size) % (file_size - io_size + 1)`, is not
   aligned after it has wrapped around, on a file opened with `O_DIRECT`. The
   microbenchmark says "GDS path generally requires aligned offsets/sizes"
   (`src/microbench_main.cpp:309`) and computes aligned ones.
2. The microbenchmark ignores the status of `cudaMalloc`, `cudaMemcpy` and
   `cudaDeviceSynchronize`: a case may report a "throughput based on total moved
   bytes" (`src/microbench_main.cpp:485`) when no byte reached the device.

Seen while modelling, and part of the models without contradicting anything the
repository says:

- `acquire` with a length other than the entry's deregisters the buffer without
  looking at `ref_count` (`src/gds_cache.cpp:42-49`), under the hands of other
  holders. No caller in the repository does it; the theorems about users name the
  discipline that avoids it.
- `force_evict_all` forgets registrations the driver refuses to give up
  (`Forgotten`); the optimized runner's flag stays set over a cleanup in
  which the deregistration was refused; the naive runner counts a deregistration it
  did not check, and cannot run again until it is initialized anew.
- With `--path=all` the page cache is dropped once per run, so that only the first
  case of the "cold" run is cold (`src/imagenet_compare_main.cpp:374`, and
  `docs/imagenet_smallfile_benchmark.md:62`).
- A `release` that comes after `force_evict_all` and another user's new `acquire` takes
  the reference of that user (`src/gds_cache.cpp:83`): an entry has a count and does
  not know its holders. `NoPhantomReference` bounds the count and does not notice;
  `RefCountsMatchHolders` excludes it for the `Disciplined` users.
- An `append` that looked at `enabled` before a `close` and gets the mutex after the next
  `open` writes into the new trace.
- With `--max_files=0` every case of the imagenet benchmark runs over an empty list and
  fails (`src/imagenet_compare_main.cpp:363`).
- `read_io_trace` throws at a row that lacks fields ("Truncated trace row",
  `bench/src/io_bench/io_trace.cpp:22`) but accepts one that is cut inside its last
  field, with another `cache_miss`: `1` of `12`. A crash is not needed: on a full
  disk `close` tells nobody. That no other value changes, and no other row, is
  `ReadsWhatWasWritten`.
- `open` of a trace writer that is open throws, and from then on the rows appended
  are numbered and lost without an error (`bench/src/io_bench/io_trace.cpp:8`).
- The C++ planner sends random reads of a hot file to cuFile, the Python one, which
  is not told the pattern, does not; they agree otherwise (`PlannersAgree`).
- `--checkpoint-interval 0` raises after the first epoch
  (`g-route/g_route_mvp.py:196`).

## 4. The theorems

They hold for all values of the constants: any finite set of buffers or files, any
lengths and bounds, any number of users, workers, threads or requests. Assumptions on
constants are the `ASSUME`s of the modules, which TLC evaluates in the runs.

**The cache and its users** (`GDSRegistrationCacheProofs`, `GDSCacheUsersProofs`)

- `CacheTypeCorrect`: the types, in particular that no count gets below zero.
  Inductive by itself.
- `CacheAgreesWithDriver`: one case per operation; only a pointer's own entry
  changes with its registration, and an eviction drops the entries of what it
  deregisters.
- `CacheCountersBalance`: the counters and the *number* of registrations move
  together. The invariant proved is `Balance`, the first two conjuncts, which is
  inductive with the type; the third follows from `AgreesWithDriver`, because the
  driver's registrations split into those of registered entries and the forgotten.
- `NoPhantoms`: by induction with the type, for undisciplined users too.
- `RefCountsCorrect`, `HeldBuffersStayRegistered`, `CacheImplementsPinning`: for
  `Disciplined` users. None of the three is inductive. The inductive invariant
  `DisciplinedInv` is `TypeOK`, `AgreesWithDriver`, `RefCountsMatchHolders` and
  `Fits`: with one length per pointer every entry is registered with it (there is
  no mismatch, hence never a lost registration) and every holder asked for it.
  Then exact reference counts keep `evict_idle` away from held buffers,
  and agreement with the driver makes the registration a real one. The refinement
  maps `pins` to the pointers held and `pinnable` to what the driver has: an
  acquire is a `Pin`, a release an `Unpin`, an eviction a `Drop`, anything else
  stutters.

**The optimized runner** (`OptimizedGDSRunnerProofs`): `RunnerTypeCorrect`,
`ResourcesAlwaysInOrder`, `FlagAlwaysTells`, `ErrorAlwaysReported`. The inductive
invariant `RunnerInv` adds to the type and the properties what ties the members to
the system at each `pc`: what is open is what the members say (`FieldsTell`), how
far `init` or the cleanup has come (`StageTells`). That the flag tells the truth
needs both: `run` sets it back only if the driver did give the buffer up, and
a cleanup that leaves it set has left the runner uninitialized.

**The cached and the naive runner** (`GdsRunnersProofs`). What both need of the
session is proved once: `SessionInv` ties the members to the system at each `pc`
(`FieldsTell`, `StageTells`), and one lemma per call of `init` and `cleanup` keeps
it.

- `CachedResources`: from `SessionInv`. The cleanup clears the cache before it closes
  the session; a failing `init` has registered nothing.
- `CachedPins`: `OnlyBufferInUsePinned` with `AgreesWithDriver` and the type of the
  cache, whose lemmas are those of `GDSRegistrationCacheProofs`. That a reference is
  found again at `release` needs the vector of buffers to be without repetition
  and not to change while it is rotated through (`BuffersCounted`).
- `CachedMetrics`: not inductive, because the metrics are differences of counters that
  only the end of `run` takes. `RunCounted` says at each iteration how far the
  counters are from the `before` of the run; it depends on the entries being those
  of the first buffers of the rotation (`EntriesAreFirstBuffers`), so that the misses
  are the buffers touched beyond the entries there were.
- `CachedTypes`: among the types, that the divisor of the rotation is positive.
- `NaiveResources`, `NaiveRegisters`, `NaiveRefusal`: the invariant `PerIteration`
  says that outside an iteration the driver has a registration exactly if it
  refused to give one up, and that such a runner is idle or at its next `register`,
  which then fails. The counters balance as long as nothing was refused.

**The CPU runner** (`FileReadsProofs`): `RunnerHoldsWhatItKnows`, `WholeReadsCopied`,
`EndOfFileAlwaysReal`. The invariant `CPUInv` adds how far `init` has come
(`InitSoFar`), that the size it took is the file's while no other process has
resized it (`SizeTaken`) and that a run has copied `io_size` bytes per iteration
(`RunSoFar`). The end of a file that was left alone is not met because each offset
leaves `io_size` bytes after it, for every iteration (`ReadStaysInFile`).

**The microbenchmark** (`MicrobenchProofs`), for any number of workers and any race
on `rr.error`:

- `TeardownAlwaysLast`: what main has open is a function of its `pc`, a worker runs
  only at `spawn` and `join`, and its buffers are its own (`MainInv`, `BuffersInv`).
- `FailuresAlwaysKept`, `AlwaysStopsPromptly`: an invariant per worker
  (`WorkerInv`), kept by its own steps and, in `OthersKept`, by those of the others.
  A batch is never longer than the queue is deep, and a worker that is not in a
  batch when the error becomes visible has not moved since.
- `OkAlwaysComplete`: the shares follow one another from the first request to the
  last (`SharesInOrder`, `SharesCover`, `SharesDisjoint`, from the quotient and the
  remainder of the division), the latencies recorded are those of the requests in
  front of each worker's `next`, and the bytes are counted with them
  (`CompleteInv`). A result that is ok had no error, hence every worker came to the
  end of its share.
- `MicroTypes`: that no count leaves its range is a consequence of these; that no
  offset leads past the file is the invariant `PlacesInv`, from `SlotsStayInFile`.

**The imagenet benchmark** (`FileReadsProofs`): `FilesAlwaysCounted`,
`RunAlwaysGivesBack`, `CsvAlwaysTells`, for any lists of files and any outcome of
their reads. The invariant `BenchInv` gives what is held at each stage
(`HeldByStage`), the counts so far with the one file whose bytes have arrived and are
not yet counted (`CountedByStage`), and the file's lines (`CsvSoFar`): between the end
of `run_one` and the report, the last of `succeeded` is the case in hand
(`Pending`), so that a row written then is that of the latest case, after all rows before
(`ToldNext`, `ToldFirst`). The bytes of the
arrived files are the cardinality of a set of pairs, file and number, so that a sum over
a set needs no recursion. That no read goes past the buffers needs the greatest size of
a list to exist (`MaxOfSizes`, for finite sets of any size, and `MaxOrZero`, for an
empty list too; the first follows from the
well-foundedness of the naturals, `LeastNumber`) and `AlignedReadFits`.

**The host cache** (`HostCacheProofs`): `BytesAlwaysAccounted`, `MostRecentKept` and
`PhysicalReadsAlwaysExplained`, of `HostCache` with the inductive invariant `HostInv`
(the three with the type, the finiteness of what is held, and that the order of last
reads is total on what was read, with the item being stored the latest);
`RunUsesHostCache` carries them over to `GRouteMVP`, each of whose steps is one of
the cache or leaves it alone. `ReportAlwaysWhole` is about the loop around it, with
the invariants `RouteInv` and `HitsCounted`: what is counted and not physical is a hit,
unless a read has raised. `ReportIsWhole` speaks of the end of a run only; before it,
`EpochsRead` counts the reads of the epochs finished and of the part read of this one,
`SamplesLabelled` says that all labels are there when the first epoch starts, and
`CheckpointsWritten` that the checkpoints saved are those due, but for the one that
is being labelled or written. That one is due every `interval` epochs is
`NextMultiple`, about the quotients of successive numbers.

**The trace writer** (`IOTraceWriterProofs`): `RowsAlwaysInOrder`,
`ReadsOnlyWhatWasWritten`, `AppendsAlwaysKept`. The inductive invariant `TraceInv`
says who has the mutex (`MutexInv`), that the thread with a number not yet written
has the last one (`NumberInv`), that a call in progress has no row (`CallInv`), that
the file has a prefix of what was given, cut in a number only where that number is long
enough (`FileInv`), and where an undisturbed call is
(`PromiseInv`).

**Functions**: `ReadStaysInFile`, `AlignedReadFits` (`FileReadsProofs`) and
`SlotsStayInFile` (`MicrobenchProofs`): the offsets lie in the file and the reads in the
buffers, for every iteration and size. `PercentilesAgree`, `PercentilesOrdered`
(`MicrobenchProofs`): the two ways of interpolating give the same, and
p50 <= p95 <= p99. The rounding of `double` is left out.

Every invariant that a passing run checks is also proved, and so is the refinement of
`PinnedBuffers`. Only model-checked are the liveness properties (`CallsReturn`,
`Terminates`, `AppendsReturn`; the prover does neither fairness nor `ENABLED`) and the
claims about the planners, which are evaluated over small arguments: they compare a
size with one threshold, so that sizes below, at and above it are all cases there are.

## 5. Not modelled, and what is left

Left out for good: parsing of arguments, output and plots, wall-clock times;
64-bit overflow of `i * io_size` (the sizes that would reach it are beyond any
device); `bench_main`, whose one `init`, `run` and `cleanup` the runners' modules
contain; `GlobalDirectory` of groute, whose operations are each a lookup or an
assignment under a mutex; the summary of `io_stats.cpp`; the csv file of the
microbenchmark, which is appended to as that of the imagenet benchmark.

What could follow: *the cache, one driver call at a time*, its operations split at the
lock and at each call, shown to implement `GDSRegistrationCache`.
