------------------------- MODULE OptimizedGDSRunner -------------------------
(***************************************************************************)
(* The class OptimizedGDSRunner: one buffer, registered in init, used by   *)
(* every iteration and deregistered when the run has succeeded, or in      *)
(* cleanup when it has not.  device_buffer_ is the only element of buffers *)
(* (nullptr when there is none).                                           *)
(***************************************************************************)
EXTENDS GdsSession

CONSTANT MaxRuns         \* bound: runs started in one behaviour

ASSUME MaxRunsAssumption == MaxRuns \in Nat

VARIABLES registered,    \* cufile_buffer_registered_
          run_completed,
          cause,         \* what last_error_ tells: "none", "failure", "deregister"
          runs           \* runs started, for the bound

runVars == <<registered, run_completed, i, iterations, metrics, cause, runs>>
vars == <<driver, systemVars, sessionVars, runVars>>

NoMetrics == [iterations |-> 0, register_count |-> 0, deregister_count |-> 0]

RunnerTypeOK ==
    /\ SessionTypeOK
    /\ pc \in {"idle", "teardown", "free", "open", "stat", "malloc", "driver", "handle",
               "register", "io", "finish"}
    /\ Len(buffers) <= 1
    /\ registered \in BOOLEAN /\ run_completed \in BOOLEAN
    /\ iterations \in RunLengths \cup {0} /\ i \in 0 .. iterations
    /\ metrics \in [DOMAIN NoMetrics -> Nat]
    /\ cause \in {"none", "failure", "deregister"}
    /\ runs \in 0 .. MaxRuns

Init ==
    /\ SessionInit
    /\ registered = FALSE /\ run_completed = FALSE
    /\ i = 0 /\ iterations = 0 /\ runs = 0
    /\ metrics = NoMetrics /\ cause = "none"
-----------------------------------------------------------------------------
\* Fault: the flag is not cleared.
DeregistersUnmarked ==
    /\ registered
    /\ BufferSet # {} /\ BufferSet \subseteq DriverHolds
    /\ driver' = Deregistering(BufferSet)
    /\ UNCHANGED registered

\* deregister_buffer_once, when the driver does it.  With no buffer nothing can
\* be registered at device_buffer_.
Deregisters ==
    /\ registered
    /\ BufferSet # {} /\ BufferSet \subseteq DriverHolds
    /\ driver' = Deregistering(BufferSet)
    /\ registered' = FALSE

\* deregister_buffer_once when the driver refuses: the flag stays set.
DeregisterFails ==
    /\ registered
    /\ UNCHANGED <<driver, registered>>

\* cleanup starts with initialized_ = false and deregister_buffer_once, whose
\* failure replaces the error being reported.
DeregisterInCleanup(error) ==
    \/ /\ Deregisters
       /\ metrics' = [metrics EXCEPT !.deregister_count = @ + 1]
       /\ cause' = error
    \/ DeregisterFails /\ cause' = "deregister" /\ UNCHANGED metrics
    \/ ~registered /\ cause' = error /\ UNCHANGED <<driver, registered, metrics>>

StartCleanup ==
    /\ \/ \E size \in Sizes, read \in BOOLEAN :
              InitCall(size, read) /\ DeregisterInCleanup(cause)
       \/ CleanupCall /\ DeregisterInCleanup(cause)
       \/ CallFails /\ DeregisterInCleanup("failure")
       \/ pc = "register" /\ Abort /\ DeregisterInCleanup("failure")
    /\ UNCHANGED <<run_completed, i, iterations, runs>>

SharedStep ==
    /\ \/ CloseDriver /\ UNCHANGED run_completed
       \/ FreeMemory /\ run_completed' = FALSE
       \/ /\ \/ OpenFile
             \/ \E size \in FileSizes : Stat(size)
             \/ \E p \in Ptrs : AllocBuffer(p, 1)
             \/ OpenDriver
             \/ RegisterHandle("register")
          /\ UNCHANGED <<driver, run_completed>>
    /\ UNCHANGED <<registered, i, iterations, metrics, cause, runs>>

OpenRefused ==
    /\ OpenFails
    /\ cause' = "failure"
    /\ UNCHANGED <<driver, registered, run_completed, i, iterations, metrics, runs>>

\* The last call of init registers the buffer.
RegisterBuffer ==
    /\ pc = "register"
    /\ AcceptsRegister(buffers[1])
    /\ driver' = Registering(buffers[1], io_size)
    /\ registered' = TRUE /\ run_completed' = FALSE
    /\ metrics' = [NoMetrics EXCEPT !.register_count = 1]
    /\ cause' = "none"
    /\ InitDone
    /\ UNCHANGED <<i, iterations, runs>>
-----------------------------------------------------------------------------
\* Fault: run returns false without a word.
RunRefusedSilently(n) ==
    /\ Idle
    /\ ~initialized \/ run_completed \/ n = 0 \/ ~registered
    /\ Refuse
    /\ UNCHANGED <<driver, runVars>>

RunRefused(n) ==
    /\ Idle
    /\ ~initialized \/ run_completed \/ n = 0 \/ ~registered
    /\ Refuse
    /\ cause' = "failure"
    /\ UNCHANGED <<driver, registered, run_completed, i, iterations, metrics, runs>>

\* Fault: the loop goes on where the last run stopped.
RunCallResumes(n) ==
    /\ Idle /\ initialized /\ ~run_completed /\ n # 0 /\ registered
    /\ runs < MaxRuns
    /\ i' = i /\ iterations' = n /\ runs' = runs + 1
    /\ GoTo("io")
    /\ UNCHANGED <<driver, registered, run_completed, metrics, cause>>

RunCall(n) ==
    /\ Idle /\ initialized /\ ~run_completed /\ n # 0 /\ registered
    /\ runs < MaxRuns
    /\ i' = 0 /\ iterations' = n /\ runs' = runs + 1
    /\ GoTo("io")
    /\ UNCHANGED <<driver, registered, run_completed, metrics, cause>>

\* One iteration: all of io_size is transferred, or the run fails.
DoIo ==
    /\ pc = "io"
    /\ \/ i' = i + 1 /\ UNCHANGED cause /\ GoTo(IF i' < iterations THEN "io" ELSE "finish")
       \/ Refuse /\ cause' = "failure" /\ UNCHANGED i
    /\ UNCHANGED <<driver, registered, run_completed, iterations, metrics, runs>>

\* The run has done its I/O: it succeeds if the buffer can be deregistered; if
\* not it fails, with its metrics written, and may be run again.
FinishRun ==
    /\ pc = "finish"
    /\ \/ /\ Deregisters
          /\ metrics' = [metrics EXCEPT !.iterations = iterations,
                                        !.deregister_count = @ + 1]
          /\ run_completed' = TRUE /\ cause' = "none"
          /\ RunDone
       \/ /\ registered
          /\ metrics' = [metrics EXCEPT !.iterations = iterations]
          /\ cause' = "deregister"
          /\ Refuse
          /\ UNCHANGED <<driver, registered, run_completed>>
    /\ UNCHANGED <<i, iterations, runs>>

InCall ==
    ~Idle /\ (\/ StartCleanup \/ SharedStep \/ OpenRefused \/ RegisterBuffer
              \/ DoIo \/ FinishRun)

Call ==
    \/ Idle /\ StartCleanup
    \/ \E n \in RunLengths : RunCall(n) \/ RunRefused(n)

Next == InCall \/ Call

Spec == Init /\ [][Next]_vars
-----------------------------------------------------------------------------
\* While a runner is initialized, the flag that decides what run and cleanup do
\* says what the driver has, the buffer registered with the size of the I/O,
\* and it is set for just as long as run may still be called.  (Of a runner that
\* is not initialized it need not be true: it outlives a deregistration that
\* cleanup was refused.)  "Register once, deregister at end": the metrics count
\* one registration from init on, and its end when a run has completed or in the
\* cleanup, never twice, even if an earlier attempt was refused.
FlagTellsRegistration ==
    /\ initialized =>
           /\ registered <=> ~run_completed
           /\ driver[buffers[1]] = IF registered THEN io_size ELSE Unregistered
           /\ metrics.register_count = 1
           /\ metrics.deregister_count = IF run_completed THEN 1 ELSE 0
    /\ metrics.deregister_count <= metrics.register_count

\* A call that failed leaves an error to report, whatever cleanup does after it;
\* and none is left by a success.
ErrorIsReported ==
    /\ Idle /\ result = "failed" => cause # "none"
    /\ initialized /\ result = "ok" => cause = "none"
=============================================================================
