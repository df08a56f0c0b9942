--------------------------- MODULE NaiveGDSRunner ---------------------------
(***************************************************************************)
(* The class NaiveGDSRunner: one buffer, registered and deregistered in    *)
(* every iteration.  Its cleanup does not deregister; it counts on the     *)
(* driver session to end what a refused deregistration left.  What the     *)
(* CachedGDSRunner has too is called Naive... here, so that a module can   *)
(* extend both.                                                            *)
(***************************************************************************)
EXTENDS GdsSession

CONSTANT MaxRuns         \* bound: runs started in one behaviour

ASSUME MaxRunsAssumption == MaxRuns \in Nat

VARIABLES refused,       \* deregistrations the driver refused since init
          runs           \* runs started, for the bound

naiveRunVars == <<i, iterations, metrics, refused, runs>>
naiveVars == <<driver, systemVars, sessionVars, naiveRunVars>>

NoNaiveMetrics == [iterations |-> 0, register_count |-> 0, deregister_count |-> 0]

NaiveTypeOK ==
    /\ SessionTypeOK
    /\ pc \in {"idle", "teardown", "free", "open", "stat", "malloc", "driver", "handle",
               "ready", "register", "io", "deregister", "finish"}
    /\ Len(buffers) <= 1
    /\ iterations \in RunLengths \cup {0} /\ i \in 0 .. iterations
    /\ metrics \in [DOMAIN NoNaiveMetrics -> Nat]
    /\ refused \in Nat /\ runs \in 0 .. MaxRuns

NaiveInit ==
    /\ SessionInit
    /\ i = 0 /\ iterations = 0 /\ runs = 0 /\ refused = 0
    /\ metrics = NoNaiveMetrics
-----------------------------------------------------------------------------
\* cleanup starts with initialized_ = false and nothing else.
NaiveStartCleanup ==
    /\ \/ \E size \in Sizes, read \in BOOLEAN : InitCall(size, read)
       \/ CleanupCall
       \/ CallFails
    /\ UNCHANGED <<driver, naiveRunVars>>

NaiveSharedStep ==
    /\ \/ CloseDriver
       \/ FreeMemory
       \/ /\ \/ OpenFile \/ OpenFails
             \/ \E size \in FileSizes : Stat(size)
             \/ \E p \in Ptrs : AllocBuffer(p, 1)
             \/ OpenDriver
             \/ RegisterHandle("ready")
          /\ UNCHANGED driver
    /\ UNCHANGED naiveRunVars

NaiveReady ==
    /\ pc = "ready"
    /\ InitDone
    /\ metrics' = NoNaiveMetrics /\ refused' = 0
    /\ UNCHANGED <<driver, i, iterations, runs>>
-----------------------------------------------------------------------------
NaiveRunRefused(n) ==
    /\ Idle
    /\ ~initialized \/ n = 0
    /\ Refuse
    /\ UNCHANGED <<driver, naiveRunVars>>

NaiveRunCall(n) ==
    /\ Idle /\ initialized /\ n # 0
    /\ runs < MaxRuns
    /\ i' = 0 /\ iterations' = n /\ runs' = runs + 1
    /\ GoTo("register")
    /\ UNCHANGED <<driver, metrics, refused>>

\* Fault: the status of the registration is not looked at.
RegisterBufferUnchecked ==
    /\ pc = "register"
    /\ \/ AcceptsRegister(buffers[1]) /\ driver' = Registering(buffers[1], io_size)
       \/ UNCHANGED driver
    /\ metrics' = [metrics EXCEPT !.register_count = @ + 1]
    /\ GoTo("io")
    /\ UNCHANGED <<i, iterations, refused, runs>>

RegisterBuffer ==
    /\ pc = "register"
    /\ \/ /\ AcceptsRegister(buffers[1])
          /\ driver' = Registering(buffers[1], io_size)
          /\ metrics' = [metrics EXCEPT !.register_count = @ + 1]
          /\ GoTo("io")
       \/ Refuse /\ UNCHANGED <<driver, metrics>>
    /\ UNCHANGED <<i, iterations, refused, runs>>

\* Fault: a failed I/O does not deregister its buffer.
NaiveIoKeepsRegistration ==
    /\ pc = "io"
    /\ GoTo("deregister") \/ Refuse
    /\ UNCHANGED <<driver, naiveRunVars>>

\* The I/O of one iteration: complete, or else the run fails, after a
\* deregistration whose status is ignored and which is counted either way.
NaiveIo ==
    /\ pc = "io"
    /\ \/ GoTo("deregister") /\ UNCHANGED <<driver, metrics, refused>>
       \/ /\ Refuse
          /\ metrics' = [metrics EXCEPT !.deregister_count = @ + 1]
          /\ \/ driver' = Deregistering({buffers[1]}) /\ UNCHANGED refused
             \/ refused' = refused + 1 /\ UNCHANGED driver
    /\ UNCHANGED <<i, iterations, runs>>

\* The end of an iteration.
DeregisterBuffer ==
    /\ pc = "deregister"
    /\ \/ /\ AcceptsDeregister(buffers[1])
          /\ driver' = Deregistering({buffers[1]})
          /\ metrics' = [metrics EXCEPT !.deregister_count = @ + 1]
          /\ i' = i + 1
          /\ GoTo(IF i' < iterations THEN "register" ELSE "finish")
          /\ UNCHANGED refused
       \/ Refuse /\ refused' = refused + 1 /\ UNCHANGED <<driver, metrics, i>>
    /\ UNCHANGED <<iterations, runs>>

NaiveFinishRun ==
    /\ pc = "finish"
    /\ metrics' = [metrics EXCEPT !.iterations = iterations]
    /\ RunDone
    /\ UNCHANGED <<driver, i, iterations, refused, runs>>

NaiveInCall ==
    ~Idle /\ (\/ NaiveStartCleanup \/ NaiveSharedStep \/ NaiveReady
              \/ RegisterBuffer \/ NaiveIo \/ DeregisterBuffer \/ NaiveFinishRun)

NaiveCall ==
    \/ Idle /\ NaiveStartCleanup
    \/ \E n \in RunLengths : NaiveRunCall(n) \/ NaiveRunRefused(n)

NaiveNext == NaiveInCall \/ NaiveCall

NaiveSpec == NaiveInit /\ [][NaiveNext]_naiveVars
-----------------------------------------------------------------------------
\* Registration is per iteration: the buffer is registered, with the size of the
\* I/O, from the register to the deregister of an iteration; and between runs
\* only if the driver refused a deregistration.  While it has refused none,
\* every registration the metrics count is counted as undone.
RegisteredPerIteration ==
    /\ initialized =>
           /\ pc \in {"io", "deregister"} => driver[buffers[1]] = io_size
           /\ pc \notin {"io", "deregister"} => (DriverHolds # {} <=> refused > 0)
    /\ Idle /\ refused = 0 => metrics.register_count = metrics.deregister_count

\* A refused deregistration is final for the runner until it is initialized
\* again: no run after it gets past its first registration, so none succeeds.
RefusalIsFinal == initialized /\ refused > 0 => pc \in {"idle", "register"}
=============================================================================
