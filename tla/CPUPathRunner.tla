--------------------------- MODULE CPUPathRunner ---------------------------
(***************************************************************************)
(* The class CPUPathRunner: reads with pread into a host buffer and copies *)
(* it to the device.  pread may return less than was asked, and read_once  *)
(* asks again until io_size bytes are there.  The file may be truncated or *)
(* grow under the runner, which took its size once, in init.  Next, Spec   *)
(* and pc are CPUNext, CPUSpec and cpu_pc, so that a module can extend     *)
(* this one together with another program.                                 *)
(***************************************************************************)
EXTENDS IoOffsets, FiniteSets

CONSTANTS Sizes,         \* the io_size values callers pass to init
          FileSizes,     \* the sizes the file has, now or later
          RunLengths,    \* the iterations callers pass to run
          MaxRuns,       \* bound: runs started in one behaviour
          MaxResizes     \* bound: changes of the file's size

ASSUME CPUAssumption == /\ Sizes \subseteq Nat /\ FileSizes \subseteq Nat
                        /\ RunLengths \subseteq Nat
                        /\ MaxRuns \in Nat /\ MaxResizes \in Nat

VARIABLES cpu_pc,        \* the next call of the function that runs, or "idle"
          asked, result,
          initialized, fd, host_buffer, device_buffer, io_size, file_size,
          i, iterations,
          total_read,    \* the bytes read_once has for this iteration
          copied,        \* bytes handed to the device by the run
          metrics,       \* metrics_.iterations
          file,          \* the file: its size now
          resizes, runs, \* for the bounds
          system         \* what the process holds: a file, host and device memory

resources == <<fd, host_buffer, device_buffer, io_size, file_size, system>>
loop == <<i, iterations, total_read, copied, metrics, runs>>
cpuVars == <<cpu_pc, asked, result, initialized, resources, loop, file, resizes>>

NoSystem == [files |-> 0, host |-> 0, device |-> 0]

CPUTypeOK ==
    /\ cpu_pc \in {"idle", "open", "stat", "memalign", "malloc", "read", "memcpy", "finish"}
    /\ asked \in [io_size : Sizes, is_read : BOOLEAN]
    /\ result \in {"none", "ok", "failed", "eof"}
    /\ {initialized, fd, host_buffer, device_buffer} \subseteq BOOLEAN
    /\ io_size \in Sizes \cup {0} /\ file_size \in FileSizes \cup {0}
    /\ iterations \in RunLengths \cup {0} /\ i \in 0 .. iterations
    /\ total_read \in 0 .. io_size
    /\ copied \in Nat /\ metrics \in RunLengths \cup {0}
    /\ file \in FileSizes
    /\ system \in [DOMAIN NoSystem -> Nat]

CPUInit ==
    /\ cpu_pc = "idle" /\ result = "none"
    /\ asked \in [io_size : Sizes, is_read : {TRUE}]
    /\ initialized = FALSE /\ fd = FALSE /\ host_buffer = FALSE /\ device_buffer = FALSE
    /\ io_size = 0 /\ file_size = 0
    /\ i = 0 /\ iterations = 0 /\ total_read = 0 /\ copied = 0 /\ metrics = 0
    /\ file \in FileSizes /\ resizes = 0 /\ runs = 0
    /\ system = NoSystem

Idle == cpu_pc = "idle"
-----------------------------------------------------------------------------
\* cleanup(): gives back what there is, and may be called at any time.
Cleanup ==
    /\ initialized' = FALSE
    /\ fd' = FALSE /\ host_buffer' = FALSE /\ device_buffer' = FALSE
    /\ io_size' = 0 /\ file_size' = 0
    /\ system' = [files  |-> system.files - (IF fd THEN 1 ELSE 0),
                  host   |-> system.host - (IF host_buffer THEN 1 ELSE 0),
                  device |-> system.device - (IF device_buffer THEN 1 ELSE 0)]

Fails(how) == cpu_pc' = "idle" /\ result' = how

InitCall(size, read) ==
    /\ Idle
    /\ Cleanup
    /\ asked' = [io_size |-> size, is_read |-> read]
    /\ cpu_pc' = "open" /\ result' = "none"
    /\ total_read' = 0
    /\ UNCHANGED <<i, iterations, copied, metrics, runs, file, resizes>>

\* open; a zero size and a write are refused before it.
OpenSource ==
    /\ cpu_pc = "open"
    /\ \/ /\ asked.io_size # 0 /\ asked.is_read
          /\ fd' = TRUE /\ system' = [system EXCEPT !.files = @ + 1]
          /\ cpu_pc' = "stat" /\ UNCHANGED result
       \/ Fails("failed") /\ UNCHANGED <<fd, system>>
    /\ UNCHANGED <<asked, initialized, host_buffer, device_buffer, io_size, file_size,
                   loop, file, resizes>>

Stat ==
    /\ cpu_pc = "stat" /\ file > 0
    /\ file_size' = file /\ io_size' = asked.io_size
    /\ cpu_pc' = "memalign"
    /\ UNCHANGED <<asked, result, initialized, fd, host_buffer, device_buffer, system,
                   loop, file, resizes>>

AllocHost ==
    /\ cpu_pc = "memalign"
    /\ host_buffer' = TRUE /\ system' = [system EXCEPT !.host = @ + 1]
    /\ cpu_pc' = "malloc"
    /\ UNCHANGED <<asked, result, initialized, fd, device_buffer, io_size, file_size,
                   loop, file, resizes>>

\* cudaMalloc, the last call of init.
AllocDevice ==
    /\ cpu_pc = "malloc"
    /\ device_buffer' = TRUE /\ system' = [system EXCEPT !.device = @ + 1]
    /\ initialized' = TRUE /\ metrics' = 0
    /\ cpu_pc' = "idle" /\ result' = "ok"
    /\ UNCHANGED <<asked, fd, host_buffer, io_size, file_size,
                   i, iterations, total_read, copied, runs, file, resizes>>

\* Fault: init returns false without cleanup.
InitFailsUncleaned ==
    /\ cpu_pc \in {"stat", "memalign", "malloc"}
    /\ Fails("failed")
    /\ UNCHANGED <<asked, initialized, resources, loop, file, resizes>>

\* Fault: init starts over at a call that failed.
InitFailsRetries ==
    /\ cpu_pc \in {"stat", "memalign", "malloc"}
    /\ Cleanup
    /\ cpu_pc' = "open" /\ result' = "failed"
    /\ UNCHANGED <<asked, loop, file, resizes>>

\* fstat finds an empty file or fails, or an allocation fails.
InitFails ==
    /\ cpu_pc \in {"stat", "memalign", "malloc"}
    /\ Cleanup
    /\ Fails("failed")
    /\ UNCHANGED <<asked, loop, file, resizes>>

CleanupCall ==
    /\ Idle
    /\ Cleanup
    /\ total_read' = 0
    /\ UNCHANGED <<cpu_pc, asked, result, i, iterations, copied, metrics, runs, file, resizes>>
-----------------------------------------------------------------------------
RunRefused(n) ==
    /\ Idle
    /\ ~initialized \/ n = 0
    /\ Fails("failed")
    /\ UNCHANGED <<asked, initialized, resources, loop, file, resizes>>

RunCall(n) ==
    /\ Idle /\ initialized /\ n # 0
    /\ runs < MaxRuns /\ runs' = runs + 1
    /\ i' = 0 /\ iterations' = n /\ total_read' = 0 /\ copied' = 0
    /\ cpu_pc' = "read"
    /\ UNCHANGED <<asked, result, initialized, resources, metrics, file, resizes>>

\* Where the next pread starts, and how much the file has there.
ReadAt == ReadOffset(i, io_size, file_size) + total_read
Available == IF file > ReadAt THEN file - ReadAt ELSE 0

\* Fault: a short read is taken for a whole one.
ReadOnce(n) ==
    /\ cpu_pc = "read"
    /\ n \in 1 .. (io_size - total_read) /\ n <= Available
    /\ total_read' = total_read + n
    /\ cpu_pc' = "memcpy"
    /\ UNCHANGED <<asked, result, initialized, resources, i, iterations, copied, metrics,
                   runs, file, resizes>>

\* pread in read_once: some of what is asked and there, the end of the file, or
\* an error.
ReadSome(n) ==
    /\ cpu_pc = "read"
    /\ n \in 1 .. (io_size - total_read) /\ n <= Available
    /\ total_read' = total_read + n
    /\ cpu_pc' = IF total_read' < io_size THEN "read" ELSE "memcpy"
    /\ UNCHANGED <<asked, result, initialized, resources, i, iterations, copied, metrics,
                   runs, file, resizes>>

ReadEnds ==
    /\ cpu_pc = "read"
    /\ \/ Available = 0 /\ Fails("eof")
       \/ Fails("failed")
    /\ UNCHANGED <<asked, initialized, resources, loop, file, resizes>>

\* memcpy_once copies the whole host buffer to the device, or fails.
Memcpy ==
    /\ cpu_pc = "memcpy"
    /\ \/ /\ copied' = copied + io_size
          /\ i' = i + 1 /\ total_read' = 0
          /\ cpu_pc' = IF i' < iterations THEN "read" ELSE "finish"
          /\ UNCHANGED result
       \/ Fails("failed") /\ UNCHANGED <<copied, i, total_read>>
    /\ UNCHANGED <<asked, initialized, resources, iterations, metrics, runs, file, resizes>>

FinishRun ==
    /\ cpu_pc = "finish"
    /\ metrics' = iterations
    /\ cpu_pc' = "idle" /\ result' = "ok"
    /\ UNCHANGED <<asked, initialized, resources, i, iterations, total_read, copied, runs,
                   file, resizes>>

\* Another process truncates or extends the file.
Resize(size) ==
    /\ resizes < MaxResizes /\ resizes' = resizes + 1
    /\ file' = size
    /\ UNCHANGED <<cpu_pc, asked, result, initialized, resources, loop>>

InCall ==
    \/ OpenSource \/ Stat \/ AllocHost \/ AllocDevice \/ InitFails
    \/ \E n \in 1 .. io_size : ReadSome(n)
    \/ ReadEnds \/ Memcpy \/ FinishRun

Call ==
    \/ \E size \in Sizes, read \in BOOLEAN : InitCall(size, read)
    \/ CleanupCall
    \/ \E n \in RunLengths : RunCall(n) \/ RunRefused(n)

CPUNext == InCall \/ Call \/ \E size \in FileSizes : Resize(size)

\* The calling thread goes on with a call it has begun.
CPUSpec == CPUInit /\ [][CPUNext]_cpuVars /\ WF_cpuVars(InCall)
-----------------------------------------------------------------------------
\* "Release all allocated resources; safe to call multiple times": a runner
\* that is idle and not initialized holds nothing, and what it holds is what
\* its members say it holds, at every point of every call.
HoldsWhatItKnows ==
    /\ system = [files  |-> IF fd THEN 1 ELSE 0,
                 host   |-> IF host_buffer THEN 1 ELSE 0,
                 device |-> IF device_buffer THEN 1 ELSE 0]
    /\ Idle => /\ initialized <=> fd
               /\ fd = host_buffer /\ fd = device_buffer

\* Only full host buffers reach the device, one for each iteration completed,
\* and a run that succeeded has copied io_size bytes for every iteration.
CopiesWholeReads ==
    /\ cpu_pc = "memcpy" => total_read = io_size
    /\ initialized /\ runs > 0 /\ result = "ok" /\ Idle /\ metrics > 0 =>
           copied = metrics * io_size

\* A run meets the end of the file only in a file that is, or was when it was
\* opened, smaller than one I/O, or that was truncated since: the offsets it
\* computes never lead there by themselves.
EndOfFileIsReal ==
    result = "eof" /\ initialized => file_size < io_size \/ resizes > 0

\* Every call returns, however short the reads.
CallsReturn == ~Idle ~> Idle
=============================================================================
