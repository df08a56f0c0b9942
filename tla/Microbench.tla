----------------------------- MODULE Microbench -----------------------------
(***************************************************************************)
(* The microbenchmark: main runs one case after another (a path and an I/O *)
(* size); each case spawns worker threads that share rr.error, the latency *)
(* vector and the byte counter.  rr.error is written under lat_mu but read *)
(* without it at the end of a batch: while a worker is writing it, what    *)
(* another one sees there may be the old value or the new one.             *)
(*                                                                         *)
(* Worker t's device buffer has the address t.  Times, CSV rows and output *)
(* are left out; a latency is modelled by the request it was measured for. *)
(***************************************************************************)
EXTENDS GdsPlatform, IoOffsets, Sequences

CONSTANTS cases,         \* paths x io_sizes, in the order main runs them
          Configs,       \* the configurations parse_args lets through
          file_size,
          Shift,         \* what maybe_unalign adds
          NoOne          \* the holder of a free lock

ASSUME MicrobenchAssumption ==
    /\ cases \in Seq([path : {"buffered", "direct", "gds"}, io_size : Nat \ {0}])
    /\ Len(cases) > 0
    /\ Configs \subseteq [threads : Nat \ {0}, requests : Nat \ {0}, qd : Nat \ {0},
                          aligned : BOOLEAN, pattern : {"seq", "rand"}]
    /\ \A c \in Configs : 0 .. c.threads - 1 \subseteq Ptrs
    /\ file_size \in Nat /\ Shift \in Nat /\ NoOne \notin Ptrs

VARIABLES cfg,
          pc, case,      \* main
          rr,            \* the RunResult: ok, and whether error is not empty
          lat_mu,        \* the worker that writes rr.error, or NoOne
          lat_us,        \* the latencies recorded of each request
          total_bytes,
          wpc, next, batchEnd, off, after,         \* the workers
          host_buf,      \* the workers that have a host buffer
          moved,         \* bytes that arrived in a device buffer (history)
          atError        \* next, when the first error became visible (history)

mainVars == <<cfg, case, rr>>
sharedVars == <<lat_mu, lat_us, total_bytes, moved, atError>>
workerVars == <<wpc, next, batchEnd, off, after, host_buf>>
platform == <<driver, systemVars>>
vars == <<mainVars, pc, sharedVars, workerVars, platform>>

path == cases[case].path
io_size == cases[case].io_size
Workers == 0 .. cfg.threads - 1
Requests == 0 .. cfg.requests - 1

Running(t) == wpc[t] \notin {"none", "done"}

MicroTypeOK ==
    /\ SystemTypeOK /\ DriverTypeOK
    /\ cfg \in Configs
    /\ pc \in {"begin", "open", "driver", "handle", "spawn", "join", "teardown", "report", "end"}
    /\ case \in 1 .. Len(cases)
    /\ rr \in [ok : BOOLEAN, error : BOOLEAN]
    /\ lat_mu \in Workers \cup {NoOne}
    /\ lat_us \in [Requests -> Nat]
    /\ total_bytes \in Nat /\ moved \in Nat
    /\ wpc \in [Workers -> {"none", "alloc", "register", "fail", "write", "batch", "pread",
                            "record", "check", "free", "done"}]
    /\ {next, batchEnd, atError} \subseteq [Workers -> 0 .. cfg.requests]
    /\ off \in [Workers -> 0 .. file_size + Shift]
    /\ after \in [Workers -> {"batch", "check"}]
    /\ host_buf \subseteq Workers

\* What is 0 for every worker, or the same for every request, as a case begins.
Zero == [t \in Workers |-> 0]
NotYet == [r \in Requests |-> 0]

Init ==
    /\ cfg \in Configs
    /\ pc = "begin" /\ case = 1
    /\ rr = [ok |-> FALSE, error |-> FALSE]
    /\ lat_mu = NoOne /\ total_bytes = 0 /\ moved = 0
    /\ lat_us = NotYet
    /\ wpc = [t \in Workers |-> "none"] /\ after = [t \in Workers |-> "batch"]
    /\ next = Zero /\ batchEnd = Zero /\ off = Zero /\ atError = Zero
    /\ host_buf = {}
    /\ DriverInit /\ SystemInit
-----------------------------------------------------------------------------
\* run_one returns with an error before any thread runs.
GiveUp == pc' = "report" /\ rr' = [ok |-> FALSE, error |-> TRUE]

Goes(label) == pc' = label /\ UNCHANGED rr

\* The checks at the beginning of run_one.
BeginCase ==
    /\ pc = "begin"
    /\ IF io_size > file_size \/ (path \in {"direct", "gds"} /\ ~cfg.aligned)
       THEN GiveUp
       ELSE Goes("open")
    /\ UNCHANGED <<cfg, case, sharedVars, workerVars, platform>>

Open ==
    /\ pc = "open"
    /\ \/ OpenFd /\ Goes(IF path = "gds" THEN "driver" ELSE "spawn")
       \/ GiveUp /\ UNCHANGED systemVars
    /\ UNCHANGED <<cfg, case, driver, sharedVars, workerVars>>

OpenDriver ==
    /\ pc = "driver"
    /\ \/ DriverOpen /\ Goes("handle")
       \/ Free({}, TRUE) /\ GiveUp
    /\ UNCHANGED <<cfg, case, driver, sharedVars, workerVars>>

RegisterHandle ==
    /\ pc = "handle"
    /\ \/ HandleRegister /\ Goes("spawn")
       \/ /\ sessions' = sessions - 1 /\ files' = files - 1
          /\ UNCHANGED <<handles, allocated>>
          /\ GiveUp
    /\ UNCHANGED <<cfg, case, driver, sharedVars, workerVars>>

\* Fault: the remainder of the division is dropped.
FirstOfEvenShares(t) == t * (cfg.requests \div cfg.threads)

\* The share of worker t: the requests from FirstOf(t) to End(t) - 1.
FirstOf(t) ==
    LET per == cfg.requests \div cfg.threads
        rem == cfg.requests % cfg.threads
    IN  t * per + (IF t < rem THEN t ELSE rem)

End(t) == FirstOf(t + 1)

\* Threads are started in turn.
Spawn(t) ==
    /\ pc = "spawn"
    /\ wpc[t] = "none" /\ \A u \in 0 .. t - 1 : wpc[u] # "none"
    /\ wpc' = [wpc EXCEPT ![t] = "alloc"]
    /\ next' = [next EXCEPT ![t] = FirstOf(t)]
    /\ atError' = [atError EXCEPT ![t] = FirstOf(t)]
    /\ Goes(IF t + 1 < cfg.threads THEN "spawn" ELSE "join")
    /\ UNCHANGED <<cfg, case, lat_mu, lat_us, total_bytes, moved, batchEnd, off, after,
                   host_buf, platform>>

\* Fault: main does not wait for the workers.
JoinAtOnce ==
    /\ pc = "join"
    /\ Goes("teardown")
    /\ UNCHANGED <<cfg, case, sharedVars, workerVars, platform>>

Join ==
    /\ pc = "join"
    /\ \A t \in Workers : ~Running(t)
    /\ Goes("teardown")
    /\ UNCHANGED <<cfg, case, sharedVars, workerVars, platform>>

\* The handle, the driver session and the file are closed, and the result of
\* the case is decided.
Teardown ==
    /\ pc = "teardown"
    /\ handles' = handles - (IF path = "gds" THEN 1 ELSE 0)
    /\ sessions' = sessions - (IF path = "gds" THEN 1 ELSE 0)
    /\ driver' = IF path = "gds" THEN Deregistering(Ptrs) ELSE driver
    /\ files' = files - 1 /\ UNCHANGED allocated
    /\ rr' = [rr EXCEPT !.ok = ~rr.error]
    /\ pc' = "report"
    /\ UNCHANGED <<cfg, case, sharedVars, workerVars>>

\* main prints the result and calls run_one for the next case, or exits.
NextCase ==
    /\ pc = "report"
    /\ pc' = IF case < Len(cases) THEN "begin" ELSE "end"
    /\ case' = IF case < Len(cases) THEN case + 1 ELSE case
    /\ rr' = [ok |-> FALSE, error |-> FALSE]
    /\ total_bytes' = 0 /\ moved' = 0
    /\ lat_us' = NotYet
    /\ wpc' = [t \in Workers |-> "none"] /\ after' = [t \in Workers |-> "batch"]
    /\ next' = Zero /\ batchEnd' = Zero /\ off' = Zero /\ atError' = Zero
    /\ UNCHANGED <<cfg, lat_mu, host_buf, platform>>

Main ==
    \/ BeginCase \/ Open \/ OpenDriver \/ RegisterHandle \/ Join \/ Teardown \/ NextCase
    \/ \E t \in Workers : Spawn(t)
-----------------------------------------------------------------------------
At(t, label) == wpc[t] = label

Step(t, label) == wpc' = [wpc EXCEPT ![t] = label]

\* The buffers of a worker.  No allocation is checked: a null pointer goes on.
Alloc(t) ==
    /\ At(t, "alloc")
    /\ host_buf' \in IF path = "gds" THEN {host_buf} ELSE {host_buf, host_buf \cup {t}}
    /\ Malloc(t) \/ UNCHANGED systemVars
    /\ Step(t, IF path = "gds" THEN "register" ELSE "batch")
    /\ UNCHANGED <<mainVars, pc, sharedVars, next, batchEnd, off, after, driver>>

\* cuFileBufRegister; the worker goes on without it, after it has told.
Register(t) ==
    /\ At(t, "register")
    /\ \/ /\ t \in allocated /\ AcceptsRegister(t)
          /\ driver' = Registering(t, io_size)
          /\ Step(t, "batch")
       \/ Step(t, "fail") /\ UNCHANGED driver
    /\ after' = [after EXCEPT ![t] = "batch"]
    /\ UNCHANGED <<mainVars, pc, sharedVars, next, batchEnd, off, host_buf, systemVars>>

\* aligned_offset of request r, and what maybe_unalign makes of it.
OffsetsOf(r) ==
    LET slots == IF cfg.pattern = "seq" THEN {r % SlotCount(io_size, file_size)}
                 ELSE 0 .. SlotCount(io_size, file_size) - 1
    IN  {SlotOffset(s, io_size) + (IF cfg.aligned THEN 0 ELSE Shift) : s \in slots}

\* Fault: the last batch is as long as the others.
BatchPastEnd(t) ==
    /\ At(t, "batch")
    /\ IF next[t] < End(t)
       THEN /\ batchEnd' = [batchEnd EXCEPT ![t] = next[t] + cfg.qd]
            /\ \E o \in OffsetsOf(next[t]) : off' = [off EXCEPT ![t] = o]
            /\ Step(t, "pread")
       ELSE Step(t, "free") /\ UNCHANGED <<batchEnd, off>>
    /\ UNCHANGED <<mainVars, pc, sharedVars, next, after, host_buf, platform>>

\* The head of the outer loop: the next batch of at most queue_depth requests.
Batch(t) ==
    /\ At(t, "batch")
    /\ IF next[t] < End(t)
       THEN /\ batchEnd' = [batchEnd EXCEPT ![t] =
                                IF next[t] + cfg.qd < End(t) THEN next[t] + cfg.qd ELSE End(t)]
            /\ \E o \in OffsetsOf(next[t]) : off' = [off EXCEPT ![t] = o]
            /\ Step(t, "pread")
       ELSE Step(t, "free") /\ UNCHANGED <<batchEnd, off>>
    /\ UNCHANGED <<mainVars, pc, sharedVars, next, after, host_buf, platform>>

\* Fault: a failed read leaves no error.
ReadFailsSilently(t) ==
    /\ At(t, "pread")
    /\ \/ /\ off[t] + io_size <= file_size
          /\ t \in IF path = "gds" THEN allocated ELSE host_buf
          /\ moved' = moved + (IF t \in allocated THEN io_size ELSE 0)
          /\ Step(t, "record")
       \/ Step(t, "check") /\ UNCHANGED moved
    /\ UNCHANGED <<mainVars, pc, lat_mu, lat_us, total_bytes, atError, next, batchEnd, off,
                   after, host_buf, platform>>

\* pread and cudaMemcpy, or cuFileRead.  The read can only be complete if the
\* file has io_size bytes there and the buffer it reads into exists; cudaMemcpy,
\* whose status is ignored, moves them if there is a device buffer.
Read(t) ==
    /\ At(t, "pread")
    /\ \/ /\ off[t] + io_size <= file_size
          /\ t \in IF path = "gds" THEN allocated ELSE host_buf
          /\ moved' = moved + (IF t \in allocated THEN io_size ELSE 0)
          /\ Step(t, "record") /\ UNCHANGED after
       \/ /\ Step(t, "fail") /\ after' = [after EXCEPT ![t] = "check"]
          /\ UNCHANGED moved
    /\ UNCHANGED <<mainVars, pc, lat_mu, lat_us, total_bytes, atError, next, batchEnd, off,
                   host_buf, platform>>

\* The latency of the request, under lat_mu, and its bytes; then the next one
\* of the batch.
Record(t) ==
    /\ At(t, "record")
    /\ lat_mu = NoOne
    /\ lat_us' = [lat_us EXCEPT ![next[t]] = @ + 1]
    /\ total_bytes' = total_bytes + io_size
    /\ next' = [next EXCEPT ![t] = @ + 1]
    /\ IF next'[t] < batchEnd[t]
       THEN /\ \E o \in OffsetsOf(next'[t]) : off' = [off EXCEPT ![t] = o]
            /\ Step(t, "pread")
       ELSE Step(t, "check") /\ UNCHANGED off
    /\ UNCHANGED <<mainVars, pc, lat_mu, moved, atError, batchEnd, after, host_buf, platform>>

\* A worker takes lat_mu and begins to write rr.error ...
BeginError(t) ==
    /\ At(t, "fail")
    /\ lat_mu = NoOne
    /\ lat_mu' = t
    /\ Step(t, "write")
    /\ UNCHANGED <<mainVars, pc, lat_us, total_bytes, moved, atError, next, batchEnd, off,
                   after, host_buf, platform>>

\* Fault: the lock is not given back.
EndErrorKeepsLock(t) ==
    /\ At(t, "write")
    /\ rr' = [rr EXCEPT !.error = TRUE]
    /\ atError' = IF rr.error THEN atError ELSE next
    /\ Step(t, after[t])
    /\ UNCHANGED <<cfg, pc, case, lat_mu, lat_us, total_bytes, moved, next, batchEnd, off,
                   after, host_buf, platform>>

\* ... and has written it.
EndError(t) ==
    /\ At(t, "write")
    /\ lat_mu' = NoOne
    /\ rr' = [rr EXCEPT !.error = TRUE]
    /\ atError' = IF rr.error THEN atError ELSE next
    /\ Step(t, after[t])
    /\ UNCHANGED <<cfg, pc, case, lat_us, total_bytes, moved, next, batchEnd, off,
                   after, host_buf, platform>>

\* The end of a batch: rr.error is read without the lock.
MaySee(error) == rr.error = error \/ (lat_mu # NoOne /\ error)

\* Fault: the worker does not look at rr.error.
CheckNothing(t) ==
    /\ At(t, "check")
    /\ Step(t, "batch")
    /\ UNCHANGED <<mainVars, pc, sharedVars, next, batchEnd, off, after, host_buf, platform>>

Check(t) ==
    /\ At(t, "check")
    /\ \E error \in BOOLEAN : MaySee(error) /\ Step(t, IF error THEN "free" ELSE "batch")
    /\ UNCHANGED <<mainVars, pc, sharedVars, next, batchEnd, off, after, host_buf, platform>>

\* The end of the worker gives its buffers back; a refused deregistration is
\* ignored.
FreeBuffers(t) ==
    /\ At(t, "free")
    /\ \/ driver' = Deregistering(IF path = "gds" THEN {t} ELSE {})
       \/ UNCHANGED driver
    /\ Free({t}, FALSE)
    /\ host_buf' = host_buf \ {t}
    /\ Step(t, "done")
    /\ UNCHANGED <<mainVars, pc, sharedVars, next, batchEnd, off, after>>

Worker(t) ==
    \/ Alloc(t) \/ Register(t) \/ Batch(t) \/ Read(t) \/ Record(t)
    \/ BeginError(t) \/ EndError(t) \/ Check(t) \/ FreeBuffers(t)

Next == Main \/ \E t \in Workers : Worker(t)

\* Main and every worker go on as long as they can: the operating system
\* schedules every thread, and a lock that is free again and again is got.
Spec == Init /\ [][Next]_vars /\ WF_vars(Main) /\ \A t \in Ptrs : WF_vars(t \in Workers /\ Worker(t))
-----------------------------------------------------------------------------
\* A case reported ok did every request exactly once, whatever the shares of the
\* threads and the order of their steps, and counted the bytes of each.
OkMeansComplete ==
    pc = "report" /\ rr.ok =>
        /\ lat_us = [r \in Requests |-> 1]
        /\ total_bytes = cfg.requests * io_size

\* No failure of a worker is lost: one that is past a batch it could not finish,
\* or past a registration it was refused, has left an error for the result; and
\* one that stopped before its last request did so for an error that is there or
\* is being written.
FailuresAreKept ==
    \A t \in Workers :
        /\ wpc[t] \in {"check", "free", "done"} /\ next[t] < batchEnd[t] => rr.error
        /\ wpc[t] = "done" /\ next[t] < End(t) => rr.error \/ lat_mu # NoOne
        /\ /\ path = "gds" /\ wpc[t] \in {"batch", "pread", "record", "check"}
           /\ t \notin DriverHolds
           => rr.error

\* Once an error is visible no worker completes more than one further batch,
\* although rr.error is read without the lock.
StopsPromptly == rr.error => \A t \in Workers : next[t] - atError[t] <= cfg.qd

\* As long as a worker runs, what it shares with main is open: main closes it
\* only when every worker is done.  And every case, failed or not, ends with
\* nothing held, so that the next one starts as the first did.
TeardownIsLast ==
    /\ (\E t \in Workers : Running(t)) =>
           /\ files = 1
           /\ path = "gds" => sessions = 1 /\ handles = 1
    /\ pc \in {"begin", "report", "end"} => NothingHeld /\ host_buf = {}

\* "Throughput based on total moved bytes": the bytes counted by a case that
\* reports them have arrived in device memory.
CountedBytesMoved == pc = "report" /\ rr.ok => moved = total_bytes

\* The program ends, whatever fails.
Terminates == <>(pc = "end")
=============================================================================
