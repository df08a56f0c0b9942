---------------------- MODULE OptimizedGDSRunnerProofs ----------------------
(***************************************************************************)
(* Proofs about OptimizedGDSRunner: for any sizes, files and numbers of    *)
(* runs, and whatever call of the system fails, the runner gives back what *)
(* it holds in order, its flag tells what the driver has, and a failure is *)
(* reported.                                                               *)
(***************************************************************************)
EXTENDS OptimizedGDSRunner, TLAPS

One(flag) == IF flag THEN 1 ELSE 0

\* What the system holds is what the fields say; the driver has a registration
\* only of the buffer, in a session, with the flag set, and the metrics know it.
FieldsTell ==
    /\ files = One(fd) /\ sessions = One(opened) /\ handles = One(handle)
    /\ allocated = BufferSet
    /\ handle => opened
    /\ DriverHolds # {} =>
           /\ opened /\ registered /\ DriverHolds \subseteq BufferSet
           /\ metrics.register_count = 1 /\ metrics.deregister_count = 0

\* How far init, or the cleanup, has come.
StageTells ==
    /\ initialized => pc \in {"idle", "io", "finish"}
    /\ pc \in {"io", "finish"} => initialized /\ registered
    /\ pc = "io" => i < iterations
    /\ initialized \/ pc = "register" => fd /\ opened /\ handle /\ Len(buffers) = 1
    /\ (pc = "idle" /\ ~initialized) \/ pc = "open" =>
           ~fd /\ ~opened /\ ~handle /\ buffers = <<>>
    /\ pc \in {"stat", "malloc"} => fd /\ ~opened /\ ~handle /\ buffers = <<>>
    /\ pc = "driver" => fd /\ ~opened /\ ~handle /\ Len(buffers) = 1
    /\ pc = "handle" => fd /\ opened /\ ~handle /\ Len(buffers) = 1
    /\ pc = "free" => ~opened /\ ~handle
    /\ pc \in {"handle", "register"} => DriverHolds = {}
    /\ pc \in {"stat", "malloc", "driver", "handle", "register"} => asked.io_size # 0
    /\ initialized \/ pc \in {"malloc", "driver", "handle", "register"} => io_size # 0

ErrorInv ==
    /\ result = "failed" => cause # "none"
    /\ initialized /\ result = "ok" => cause = "none"

RunnerInv == RunnerTypeOK /\ FieldsTell /\ StageTells /\ FlagTellsRegistration /\ ErrorInv
-----------------------------------------------------------------------------
\* What the type invariant says of the fields.
LEMMA Fields ==
    ASSUME RunnerTypeOK
    PROVE  /\ initialized \in BOOLEAN /\ fd \in BOOLEAN /\ opened \in BOOLEAN
           /\ handle \in BOOLEAN /\ is_read \in BOOLEAN
           /\ registered \in BOOLEAN /\ run_completed \in BOOLEAN
           /\ buffers \in Seq(Ptrs) /\ Len(buffers) \in {0, 1}
           /\ asked.io_size \in Sizes /\ asked.is_read \in BOOLEAN
           /\ metrics.iterations \in Nat
           /\ metrics.register_count \in Nat /\ metrics.deregister_count \in Nat
           /\ driver \in [Ptrs -> Nat]
           /\ DOMAIN NoMetrics = {"iterations", "register_count", "deregister_count"}
  <1>1. Len(buffers) \in {0, 1}
    <2>1. buffers \in Seq(Ptrs) /\ Len(buffers) <= 1
      BY DEF RunnerTypeOK, SessionTypeOK
    <2>2. Len(buffers) \in Nat
      BY <2>1
    <2> DEFINE n == Len(buffers)
    <2>3. n \in Nat /\ n <= 1
      BY <2>1, <2>2
    <2> HIDE DEF n
    <2>4. n \in {0, 1}
      BY <2>3
    <2> QED BY <2>4 DEF n
  <1>2. DOMAIN NoMetrics = {"iterations", "register_count", "deregister_count"}
    BY DEF NoMetrics
  <1> QED BY <1>1, <1>2 DEF RunnerTypeOK, SessionTypeOK, DriverTypeOK

\* The buffers are none or one.
LEMMA BufferSetIs ==
    ASSUME NEW b \in Seq(Ptrs), Len(b) \in {0, 1}
    PROVE  /\ b = <<>> <=> Len(b) = 0
           /\ Len(b) = 0 => {b[k] : k \in 1 .. Len(b)} = {}
           /\ Len(b) = 1 => b[1] \in Ptrs /\ {b[k] : k \in 1 .. Len(b)} = {b[1]}
  <1>1. Len(b) = 0 => 1 .. Len(b) = {}
    OBVIOUS
  <1>2. Len(b) = 1 => 1 .. Len(b) = {1}
    OBVIOUS
  <1> QED BY <1>1, <1>2

\* What the driver has after the buffers of gone are deregistered.
LEMMA HoldsAfterDeregistering ==
    ASSUME NEW gone, driver \in [Ptrs -> Nat], driver' = Deregistering(gone)
    PROVE  driver' \in [Ptrs -> Nat] /\ DriverHolds' = DriverHolds \ gone
  <1> QED BY DEF Deregistering, DriverHolds, Unregistered

LEMMA RunnerInitHolds == Init => RunnerInv
  <1> SUFFICES ASSUME Init PROVE RunnerInv
    OBVIOUS
  <1> USE DEF Init, SessionInit, SystemInit, DriverInit
  <1>1. buffers = <<>> /\ buffers \in Seq(Ptrs) /\ Len(buffers) = 0
    OBVIOUS
  <1>2. BufferSet = {} /\ DriverHolds = {}
    BY <1>1 DEF BufferSet, DriverHolds, Unregistered
  <1>3. driver \in [Ptrs -> Nat]
    BY DEF Unregistered
  <1>4. metrics \in [DOMAIN NoMetrics -> Nat]
    BY DEF NoMetrics
  <1>5. asked \in [io_size : Sizes, is_read : BOOLEAN]
    OBVIOUS
  <1>6. SystemTypeOK /\ DriverTypeOK
    BY <1>3 DEF SystemTypeOK, DriverTypeOK
  <1>7. SessionTypeOK
    BY <1>1, <1>5, <1>6 DEF SessionTypeOK
  <1>8. RunnerTypeOK
    <2>1. i \in 0 .. iterations
      OBVIOUS
    <2>3. iterations \in RunLengths \cup {0} /\ runs \in 0 .. MaxRuns
      BY MaxRunsAssumption
    <2>2. /\ pc = "idle" /\ registered = FALSE /\ run_completed = FALSE /\ cause = "none"
          /\ Len(buffers) = 0
      BY <1>1, Zenon
    <2>4. registered \in BOOLEAN /\ run_completed \in BOOLEAN
      BY <2>2, Zenon
    <2>5. Len(buffers) <= 1
      <3> DEFINE n == Len(buffers)
      <3>1. n = 0
        BY <2>2
      <3> HIDE DEF n
      <3>2. n <= 1
        BY <3>1
      <3> QED BY <3>2 DEF n
    <2> QED BY <1>4, <1>7, <2>1, <2>2, <2>3, <2>4, <2>5, Zenon DEF RunnerTypeOK
  <1>9. FieldsTell /\ StageTells
    BY <1>1, <1>2 DEF FieldsTell, StageTells, One
  <1>10. FlagTellsRegistration /\ ErrorInv
    BY DEF FlagTellsRegistration, ErrorInv, NoMetrics
  <1> QED BY <1>8, <1>9, <1>10 DEF RunnerInv
-----------------------------------------------------------------------------
\* cleanup begins: initialized_ = false and deregister_buffer_once.  The callers
\* leave all resources as they are.
LEMMA DeregisterStep ==
    ASSUME RunnerInv, NEW error \in {"none", "failure", "deregister"},
           DeregisterInCleanup(error)
    PROVE  /\ driver' \in [Ptrs -> Nat] /\ registered' \in BOOLEAN
           /\ metrics' \in [DOMAIN NoMetrics -> Nat]
           /\ DriverHolds' \subseteq DriverHolds
           /\ DriverHolds' # {} => /\ registered' /\ DriverHolds' = DriverHolds
                                  /\ metrics' = metrics
           /\ metrics'.deregister_count <= metrics'.register_count
           /\ cause' \in {error, "deregister"}
  <1> USE DEF RunnerInv
  <1>1. /\ registered \in BOOLEAN /\ driver \in [Ptrs -> Nat]
        /\ metrics.register_count \in Nat /\ metrics.deregister_count \in Nat
        /\ DOMAIN NoMetrics = {"iterations", "register_count", "deregister_count"}
        /\ metrics \in [DOMAIN NoMetrics -> Nat]
    BY Fields DEF RunnerTypeOK
  <1>2. metrics.deregister_count <= metrics.register_count
    BY DEF FlagTellsRegistration
  <1>3. CASE /\ Deregisters /\ cause' = error
             /\ metrics' = [metrics EXCEPT !.deregister_count = @ + 1]
    <2>1. driver' \in [Ptrs -> Nat] /\ DriverHolds' = DriverHolds \ BufferSet
      BY <1>1, <1>3, HoldsAfterDeregistering DEF Deregisters
    <2>2. DriverHolds # {} /\ DriverHolds \subseteq BufferSet
      BY <1>3 DEF Deregisters, FieldsTell
    <2>3. metrics.register_count = 1 /\ metrics.deregister_count = 0
      BY <2>2 DEF FieldsTell
    <2>4. metrics'.register_count = 1 /\ metrics'.deregister_count = 1
      BY <1>1, <1>3, <2>3
    <2>5. registered' = FALSE /\ metrics' \in [DOMAIN NoMetrics -> Nat]
      BY <1>1, <1>3 DEF Deregisters
    <2>6. DriverHolds' = {}
      BY <2>1, <2>2
    <2>7. metrics'.deregister_count <= metrics'.register_count
      BY <2>4
    <2>8. cause' \in {error, "deregister"} /\ registered' \in BOOLEAN
      BY <1>3, <2>5
    <2> QED BY <2>1, <2>5, <2>6, <2>7, <2>8, Zenon
  <1>4. CASE DeregisterFails /\ cause' = "deregister" /\ UNCHANGED metrics
    <2>1. DriverHolds' = DriverHolds
      BY <1>4 DEF DeregisterFails, DriverHolds
    <2> QED BY <1>1, <1>2, <1>4, <2>1 DEF DeregisterFails
  <1>5. CASE ~registered /\ cause' = error /\ UNCHANGED <<driver, registered, metrics>>
    <2>1. DriverHolds' = DriverHolds /\ DriverHolds = {}
      BY <1>5 DEF DriverHolds, FieldsTell
    <2> QED BY <1>1, <1>2, <1>5, <2>1
  <1> QED BY <1>3, <1>4, <1>5 DEF DeregisterInCleanup

LEMMA StartCleanupStep ==
    ASSUME RunnerInv, StartCleanup
    PROVE  RunnerInv'
  <1> USE DEF RunnerInv
  <1>1. /\ fd' = fd /\ opened' = opened /\ handle' = handle /\ buffers' = buffers
        /\ io_size' = io_size /\ file_size' = file_size /\ is_read' = is_read
        /\ files' = files /\ sessions' = sessions /\ handles' = handles
        /\ allocated' = allocated
        /\ run_completed' = run_completed /\ i' = i /\ iterations' = iterations
        /\ runs' = runs
        /\ initialized' = FALSE /\ pc' = "teardown" /\ back' \in {"open", "idle"}
    BY DEF StartCleanup, InitCall, CleanupCall, CallFails, Abort, resources, systemVars
  <1>2. /\ asked' \in [io_size : Sizes, is_read : BOOLEAN]
        /\ result' \in {"none", "ok", "failed"}
    BY DEF StartCleanup, InitCall, CleanupCall, CallFails, Abort, RunnerTypeOK, SessionTypeOK
  <1>3. cause \in {"none", "failure", "deregister"}
    BY DEF RunnerTypeOK
  <1>4. PICK error \in {"none", "failure", "deregister"} :
            /\ DeregisterInCleanup(error)
            /\ result' = "failed" => error # "none"
    <2>1. CASE \E size \in Sizes, read \in BOOLEAN :
                   InitCall(size, read) /\ DeregisterInCleanup(cause)
      BY <1>3, <2>1 DEF InitCall
    <2>2. CASE CleanupCall /\ DeregisterInCleanup(cause)
      BY <1>3, <2>2 DEF CleanupCall, ErrorInv
    <2>3. CASE \/ CallFails /\ DeregisterInCleanup("failure")
               \/ pc = "register" /\ Abort /\ DeregisterInCleanup("failure")
      BY <2>3
    <2> QED BY <2>1, <2>2, <2>3 DEF StartCleanup
  <1>5. /\ driver' \in [Ptrs -> Nat] /\ registered' \in BOOLEAN
        /\ metrics' \in [DOMAIN NoMetrics -> Nat]
        /\ DriverHolds' \subseteq DriverHolds
        /\ DriverHolds' # {} => /\ registered' /\ DriverHolds' = DriverHolds
                               /\ metrics' = metrics
        /\ metrics'.deregister_count <= metrics'.register_count
        /\ cause' \in {error, "deregister"}
    BY <1>4, DeregisterStep
  <1>6. BufferSet' = BufferSet
    BY <1>1 DEF BufferSet
  <1>7. RunnerTypeOK'
    <2>1. SystemTypeOK' /\ DriverTypeOK'
      BY <1>1, <1>5 DEF RunnerTypeOK, SessionTypeOK, SystemTypeOK, DriverTypeOK
    <2>2. SessionTypeOK'
      BY <1>1, <1>2, <2>1 DEF RunnerTypeOK, SessionTypeOK
    <2> QED BY <1>1, <1>5, <2>2 DEF RunnerTypeOK
  <1>8. FieldsTell'
    BY <1>1, <1>5, <1>6 DEF FieldsTell, One
  <1>9. StageTells'
    BY <1>1 DEF StageTells
  <1>10. FlagTellsRegistration' /\ ErrorInv'
    BY <1>1, <1>4, <1>5 DEF FlagTellsRegistration, ErrorInv
  <1> QED BY <1>7, <1>8, <1>9, <1>10
-----------------------------------------------------------------------------
\* The end of cleanup.
LEMMA CloseDriverStep ==
    ASSUME RunnerInv, CloseDriver,
           UNCHANGED <<registered, run_completed, i, iterations, metrics, cause, runs>>
    PROVE  RunnerInv'
  <1> USE DEF RunnerInv
  <1>1. /\ fd' = fd /\ buffers' = buffers /\ io_size' = io_size /\ file_size' = file_size
        /\ is_read' = is_read /\ asked' = asked /\ result' = result /\ back' = back
        /\ initialized' = initialized /\ files' = files /\ allocated' = allocated
        /\ handle' = FALSE /\ opened' = FALSE /\ pc = "teardown" /\ pc' = "free"
        /\ handles' = handles - One(handle) /\ sessions' = sessions - One(opened)
        /\ driver' = IF opened /\ sessions = 1 THEN Deregistering(Ptrs) ELSE driver
    BY DEF CloseDriver, Close, One
  <1>2. /\ opened \in BOOLEAN /\ handle \in BOOLEAN /\ driver \in [Ptrs -> Nat]
        /\ fd \in BOOLEAN
    BY Fields
  <1>3. handles' = 0 /\ sessions' = 0 /\ ~initialized /\ files' = One(fd')
    BY <1>1, <1>2 DEF FieldsTell, StageTells, One
  <1>4. driver' \in [Ptrs -> Nat] /\ DriverHolds' = {}
    <2>1. CASE opened
      <3>1. driver' = Deregistering(Ptrs)
        BY <1>1, <2>1 DEF FieldsTell, One
      <3>2. driver' \in [Ptrs -> Nat] /\ DriverHolds' = DriverHolds \ Ptrs
        BY <1>2, <3>1, HoldsAfterDeregistering
      <3> QED BY <3>2 DEF DriverHolds
    <2>2. CASE ~opened
      BY <1>1, <1>2, <2>2 DEF FieldsTell, DriverHolds
    <2> QED BY <2>1, <2>2
  <1>5. BufferSet' = BufferSet
    BY <1>1 DEF BufferSet
  <1>6. RunnerTypeOK'
    <2>1. SystemTypeOK' /\ DriverTypeOK'
      BY <1>1, <1>3, <1>4 DEF RunnerTypeOK, SessionTypeOK, SystemTypeOK, DriverTypeOK
    <2>2. SessionTypeOK'
      BY <1>1, <2>1 DEF RunnerTypeOK, SessionTypeOK
    <2> QED BY <1>1, <2>2 DEF RunnerTypeOK
  <1>7. FieldsTell'
    BY <1>1, <1>3, <1>4, <1>5 DEF FieldsTell, One
  <1>8. StageTells'
    BY <1>1, <1>3 DEF StageTells
  <1>9. FlagTellsRegistration' /\ ErrorInv'
    BY <1>1, <1>3 DEF FlagTellsRegistration, ErrorInv
  <1> QED BY <1>6, <1>7, <1>8, <1>9

LEMMA FreeMemoryStep ==
    ASSUME RunnerInv, FreeMemory, run_completed' = FALSE,
           UNCHANGED <<registered, i, iterations, metrics, cause, runs>>
    PROVE  RunnerInv'
  <1> USE DEF RunnerInv
  <1>1. /\ is_read' = is_read /\ asked' = asked /\ result' = result /\ back' = back
        /\ initialized' = initialized /\ driver' = driver /\ opened' = opened
        /\ handle' = handle /\ sessions' = sessions /\ handles' = handles
        /\ buffers' = <<>> /\ fd' = FALSE /\ io_size' = 0 /\ file_size' = 0
        /\ pc = "free" /\ pc' = back
        /\ allocated' = allocated \ BufferSet /\ files' = files - One(fd)
    BY DEF FreeMemory, Free, One
  <1>2. fd \in BOOLEAN /\ back \in {"open", "idle"}
    BY Fields DEF RunnerTypeOK, SessionTypeOK
  <1>3. allocated' = {} /\ files' = 0 /\ ~initialized /\ ~opened /\ ~handle
    BY <1>1, <1>2 DEF FieldsTell, StageTells, One
  <1>4. DriverHolds' = {}
    BY <1>1, <1>3 DEF FieldsTell, DriverHolds
  <1>5. buffers' \in Seq(Ptrs) /\ Len(buffers') = 0 /\ Len(buffers') <= 1
    BY <1>1
  <1>6. BufferSet' = {}
    BY <1>1 DEF BufferSet
  <1>7. RunnerTypeOK'
    <2>1. SystemTypeOK' /\ DriverTypeOK'
      BY <1>1, <1>3 DEF RunnerTypeOK, SessionTypeOK, SystemTypeOK, DriverTypeOK
    <2>2. SessionTypeOK'
      BY <1>1, <1>5, <2>1 DEF RunnerTypeOK, SessionTypeOK
    <2> QED BY <1>1, <1>2, <1>5, <2>2 DEF RunnerTypeOK
  <1>8. FieldsTell'
    BY <1>1, <1>3, <1>4, <1>6 DEF FieldsTell, One
  <1>9. StageTells'
    BY <1>1, <1>2, <1>3, <1>5 DEF StageTells
  <1>10. FlagTellsRegistration' /\ ErrorInv'
    BY <1>1, <1>3 DEF FlagTellsRegistration, ErrorInv
  <1> QED BY <1>7, <1>8, <1>9, <1>10
-----------------------------------------------------------------------------
\* The calls of init.
LEMMA OpenFileStep ==
    ASSUME RunnerInv, OpenFile, UNCHANGED <<driver, runVars>>
    PROVE  RunnerInv'
  <1> USE DEF RunnerInv
  <1>1. /\ buffers' = buffers /\ io_size' = io_size /\ file_size' = file_size
        /\ is_read' = is_read /\ asked' = asked /\ result' = result /\ back' = back
        /\ initialized' = initialized /\ driver' = driver /\ opened' = opened
        /\ handle' = handle /\ sessions' = sessions /\ handles' = handles
        /\ allocated' = allocated /\ files' = files + 1 /\ fd' = TRUE
        /\ pc = "open" /\ pc' = "stat" /\ asked.io_size # 0
    BY DEF OpenFile, OpenFd
  <1>2. UNCHANGED <<registered, run_completed, i, iterations, metrics, cause, runs>>
    BY DEF runVars
  <1>3. files' = 1 /\ ~initialized /\ ~opened /\ ~handle /\ buffers = <<>>
    BY <1>1 DEF FieldsTell, StageTells, One
  <1>4. BufferSet' = BufferSet /\ DriverHolds' = DriverHolds
    BY <1>1 DEF BufferSet, DriverHolds
  <1>5. RunnerTypeOK'
    <2>1. SystemTypeOK' /\ DriverTypeOK'
      BY <1>1, <1>3 DEF RunnerTypeOK, SessionTypeOK, SystemTypeOK, DriverTypeOK
    <2>2. SessionTypeOK'
      BY <1>1, <2>1 DEF RunnerTypeOK, SessionTypeOK
    <2> QED BY <1>1, <1>2, <2>2 DEF RunnerTypeOK
  <1>6. FieldsTell'
    BY <1>1, <1>2, <1>3, <1>4 DEF FieldsTell, One
  <1>7. StageTells'
    BY <1>1, <1>2, <1>3 DEF StageTells
  <1>8. FlagTellsRegistration' /\ ErrorInv'
    BY <1>1, <1>2, <1>3 DEF FlagTellsRegistration, ErrorInv
  <1> QED BY <1>5, <1>6, <1>7, <1>8

LEMMA StatStep ==
    ASSUME RunnerInv, NEW size \in FileSizes, Stat(size), UNCHANGED <<driver, runVars>>
    PROVE  RunnerInv'
  <1> USE DEF RunnerInv
  <1>1. /\ buffers' = buffers /\ asked' = asked /\ result' = result /\ back' = back
        /\ initialized' = initialized /\ driver' = driver /\ opened' = opened
        /\ handle' = handle /\ fd' = fd /\ UNCHANGED systemVars
        /\ file_size' = size /\ io_size' = asked.io_size /\ is_read' = asked.is_read
        /\ pc = "stat" /\ pc' = "malloc"
    BY DEF Stat
  <1>2. UNCHANGED <<registered, run_completed, i, iterations, metrics, cause, runs>>
    BY DEF runVars
  <1>3. asked.io_size \in Sizes /\ asked.is_read \in BOOLEAN
    BY Fields
  <1>4. /\ ~initialized /\ ~opened /\ ~handle /\ fd /\ buffers = <<>>
        /\ asked.io_size # 0
    BY <1>1 DEF StageTells
  <1>5. BufferSet' = BufferSet /\ DriverHolds' = DriverHolds
    BY <1>1 DEF BufferSet, DriverHolds
  <1>6. RunnerTypeOK'
    <2>1. SystemTypeOK' /\ DriverTypeOK'
      BY <1>1 DEF RunnerTypeOK, SessionTypeOK, SystemTypeOK, DriverTypeOK, systemVars
    <2>2. SessionTypeOK'
      BY <1>1, <1>3, <2>1 DEF RunnerTypeOK, SessionTypeOK
    <2> QED BY <1>1, <1>2, <2>2 DEF RunnerTypeOK
  <1>7. FieldsTell'
    BY <1>1, <1>2, <1>5 DEF FieldsTell, One, systemVars
  <1>8. StageTells'
    BY <1>1, <1>2, <1>4 DEF StageTells
  <1>9. FlagTellsRegistration' /\ ErrorInv'
    BY <1>1, <1>2, <1>4 DEF FlagTellsRegistration, ErrorInv
  <1> QED BY <1>6, <1>7, <1>8, <1>9

LEMMA AllocBufferStep ==
    ASSUME RunnerInv, NEW p \in Ptrs, AllocBuffer(p, 1), UNCHANGED <<driver, runVars>>
    PROVE  RunnerInv'
  <1> USE DEF RunnerInv
  <1>1. /\ asked' = asked /\ result' = result /\ back' = back /\ fd' = fd
        /\ initialized' = initialized /\ driver' = driver /\ opened' = opened
        /\ handle' = handle /\ io_size' = io_size /\ file_size' = file_size
        /\ is_read' = is_read
        /\ files' = files /\ sessions' = sessions /\ handles' = handles
        /\ allocated' = allocated \cup {p} /\ buffers' = Append(buffers, p)
        /\ pc = "malloc" /\ pc' = IF Len(buffers) + 1 < 1 THEN "malloc" ELSE "driver"
    BY DEF AllocBuffer, Malloc
  <1>2. UNCHANGED <<registered, run_completed, i, iterations, metrics, cause, runs>>
    BY DEF runVars
  <1>3. /\ ~initialized /\ ~opened /\ ~handle /\ fd /\ buffers = <<>>
        /\ asked.io_size # 0 /\ io_size # 0
    BY <1>1 DEF StageTells
  <1>4. buffers' = <<p>> /\ pc' = "driver"
    BY <1>1, <1>3
  <1>5. buffers' \in Seq(Ptrs) /\ Len(buffers') = 1 /\ buffers'[1] = p
    BY <1>4
  <1>6. BufferSet' = {p} /\ BufferSet = {} /\ DriverHolds' = DriverHolds
    <2>1. BufferSet' = {p}
      BY <1>5, BufferSetIs DEF BufferSet
    <2>2. BufferSet = {}
      BY <1>3 DEF BufferSet
    <2> QED BY <1>1, <2>1, <2>2 DEF DriverHolds
  <1>7. DriverHolds' = {}
    BY <1>3, <1>6 DEF FieldsTell
  <1>8. allocated' = {p}
    BY <1>1, <1>6 DEF FieldsTell
  <1>9. RunnerTypeOK'
    <2>1. SystemTypeOK' /\ DriverTypeOK'
      BY <1>1, <1>8 DEF RunnerTypeOK, SessionTypeOK, SystemTypeOK, DriverTypeOK
    <2>2. SessionTypeOK'
      BY <1>1, <1>5, <2>1 DEF RunnerTypeOK, SessionTypeOK
    <2> QED BY <1>2, <1>4, <1>5, <2>2 DEF RunnerTypeOK
  <1>10. FieldsTell'
    BY <1>1, <1>6, <1>7, <1>8 DEF FieldsTell, One
  <1>11. StageTells'
    BY <1>1, <1>2, <1>3, <1>4, <1>5, <1>7 DEF StageTells
  <1>12. FlagTellsRegistration' /\ ErrorInv'
    BY <1>1, <1>2, <1>3 DEF FlagTellsRegistration, ErrorInv
  <1> QED BY <1>9, <1>10, <1>11, <1>12

LEMMA OpenDriverStep ==
    ASSUME RunnerInv, OpenDriver, UNCHANGED <<driver, runVars>>
    PROVE  RunnerInv'
  <1> USE DEF RunnerInv
  <1>1. /\ asked' = asked /\ result' = result /\ back' = back /\ fd' = fd
        /\ initialized' = initialized /\ driver' = driver /\ opened' = TRUE
        /\ handle' = handle /\ buffers' = buffers /\ io_size' = io_size
        /\ file_size' = file_size /\ is_read' = is_read
        /\ files' = files /\ sessions' = sessions + 1 /\ handles' = handles
        /\ allocated' = allocated /\ pc = "driver" /\ pc' = "handle"
    BY DEF OpenDriver, DriverOpen
  <1>2. UNCHANGED <<registered, run_completed, i, iterations, metrics, cause, runs>>
    BY DEF runVars
  <1>3. /\ ~initialized /\ ~opened /\ ~handle /\ fd /\ Len(buffers) = 1
        /\ asked.io_size # 0 /\ io_size # 0
    BY <1>1 DEF StageTells
  <1>4. BufferSet' = BufferSet /\ DriverHolds' = {} /\ sessions' = 1
    BY <1>1, <1>3 DEF BufferSet, DriverHolds, FieldsTell, One
  <1>5. RunnerTypeOK'
    <2>1. SystemTypeOK' /\ DriverTypeOK'
      BY <1>1, <1>4 DEF RunnerTypeOK, SessionTypeOK, SystemTypeOK, DriverTypeOK
    <2>2. SessionTypeOK'
      BY <1>1, <2>1 DEF RunnerTypeOK, SessionTypeOK
    <2> QED BY <1>1, <1>2, <2>2 DEF RunnerTypeOK
  <1>6. FieldsTell'
    BY <1>1, <1>3, <1>4 DEF FieldsTell, One
  <1>7. StageTells'
    BY <1>1, <1>2, <1>3, <1>4 DEF StageTells
  <1>8. FlagTellsRegistration' /\ ErrorInv'
    BY <1>1, <1>2, <1>3 DEF FlagTellsRegistration, ErrorInv
  <1> QED BY <1>5, <1>6, <1>7, <1>8

LEMMA RegisterHandleStep ==
    ASSUME RunnerInv, RegisterHandle("register"), UNCHANGED <<driver, runVars>>
    PROVE  RunnerInv'
  <1> USE DEF RunnerInv
  <1>1. /\ asked' = asked /\ result' = result /\ back' = back /\ fd' = fd
        /\ initialized' = initialized /\ driver' = driver /\ opened' = opened
        /\ handle' = TRUE /\ buffers' = buffers /\ io_size' = io_size
        /\ file_size' = file_size /\ is_read' = is_read
        /\ files' = files /\ sessions' = sessions /\ handles' = handles + 1
        /\ allocated' = allocated /\ pc = "handle" /\ pc' = "register"
    BY DEF RegisterHandle, HandleRegister
  <1>2. UNCHANGED <<registered, run_completed, i, iterations, metrics, cause, runs>>
    BY DEF runVars
  <1>3. /\ ~initialized /\ opened /\ ~handle /\ fd /\ Len(buffers) = 1
        /\ asked.io_size # 0 /\ io_size # 0 /\ DriverHolds = {}
    BY <1>1 DEF StageTells
  <1>4. BufferSet' = BufferSet /\ DriverHolds' = {} /\ handles' = 1
    BY <1>1, <1>3 DEF BufferSet, DriverHolds, FieldsTell, One
  <1>5. RunnerTypeOK'
    <2>1. SystemTypeOK' /\ DriverTypeOK'
      BY <1>1, <1>4 DEF RunnerTypeOK, SessionTypeOK, SystemTypeOK, DriverTypeOK
    <2>2. SessionTypeOK'
      BY <1>1, <2>1 DEF RunnerTypeOK, SessionTypeOK
    <2> QED BY <1>1, <1>2, <2>2 DEF RunnerTypeOK
  <1>6. FieldsTell'
    BY <1>1, <1>3, <1>4 DEF FieldsTell, One
  <1>7. StageTells'
    BY <1>1, <1>2, <1>3, <1>4 DEF StageTells
  <1>8. FlagTellsRegistration' /\ ErrorInv'
    BY <1>1, <1>2, <1>3 DEF FlagTellsRegistration, ErrorInv
  <1> QED BY <1>5, <1>6, <1>7, <1>8

LEMMA RegisterBufferStep ==
    ASSUME RunnerInv, RegisterBuffer
    PROVE  RunnerInv'
  <1> USE DEF RunnerInv
  <1> DEFINE b == buffers[1]
  <1>1. /\ asked' = asked /\ back' = back /\ fd' = fd /\ opened' = opened
        /\ handle' = handle /\ buffers' = buffers /\ io_size' = io_size
        /\ file_size' = file_size /\ is_read' = is_read
        /\ files' = files /\ sessions' = sessions /\ handles' = handles
        /\ allocated' = allocated /\ initialized' = TRUE
        /\ pc = "register" /\ pc' = "idle" /\ result' = "ok"
        /\ driver' = [driver EXCEPT ![b] = io_size]
        /\ registered' = TRUE /\ run_completed' = FALSE /\ cause' = "none"
        /\ i' = i /\ iterations' = iterations /\ runs' = runs
    BY DEF RegisterBuffer, InitDone, Registering, resources, systemVars
  <1>2. metrics' = [NoMetrics EXCEPT !.register_count = 1]
    BY DEF RegisterBuffer
  <1>3. /\ opened /\ handle /\ fd /\ Len(buffers) = 1
        /\ asked.io_size # 0 /\ io_size # 0 /\ DriverHolds = {}
    BY <1>1 DEF StageTells
  <1>4. /\ metrics' \in [DOMAIN NoMetrics -> Nat]
        /\ metrics'.register_count = 1 /\ metrics'.deregister_count = 0
    BY <1>2 DEF NoMetrics
  <1>5. b \in Ptrs /\ BufferSet = {b} /\ BufferSet' = {b}
    <2>1. buffers \in Seq(Ptrs)
      BY Fields
    <2>2. b \in Ptrs /\ {buffers[k] : k \in 1 .. Len(buffers)} = {b}
      BY <1>3, <2>1, BufferSetIs
    <2> QED BY <1>1, <2>2 DEF BufferSet
  <1>6. io_size \in Nat /\ driver \in [Ptrs -> Nat]
    <2>1. io_size \in Sizes \cup {0}
      BY DEF RunnerTypeOK, SessionTypeOK
    <2>2. driver \in [Ptrs -> Nat]
      BY Fields
    <2> QED BY <2>1, <2>2, SessionAssumption
  <1> HIDE DEF b
  <1>7. driver' \in [Ptrs -> Nat] /\ driver'[b] = io_size
    BY <1>1, <1>5, <1>6
  <1>8. DriverHolds' = {b}
    <2>1. \A p \in Ptrs : driver[p] = Unregistered
      BY <1>3 DEF DriverHolds
    <2>2. \A p \in Ptrs : driver'[p] # Unregistered <=> p = b
      BY <1>1, <1>3, <1>5, <1>6, <2>1 DEF Unregistered
    <2> QED BY <1>5, <2>2 DEF DriverHolds
  <1>9. RunnerTypeOK'
    <2>1. SystemTypeOK' /\ DriverTypeOK'
      BY <1>1, <1>7 DEF RunnerTypeOK, SessionTypeOK, SystemTypeOK, DriverTypeOK
    <2>2. SessionTypeOK'
      BY <1>1, <2>1 DEF RunnerTypeOK, SessionTypeOK
    <2> QED BY <1>1, <1>4, <2>2 DEF RunnerTypeOK
  <1>10. FieldsTell'
    BY <1>1, <1>3, <1>4, <1>5, <1>8 DEF FieldsTell, One
  <1>11. StageTells'
    BY <1>1, <1>3 DEF StageTells
  <1>12. FlagTellsRegistration' /\ ErrorInv'
    <2>1. driver'[buffers'[1]] = io_size'
      BY <1>1, <1>7 DEF b
    <2> QED BY <1>1, <1>4, <2>1 DEF FlagTellsRegistration, ErrorInv
  <1> QED BY <1>9, <1>10, <1>11, <1>12

LEMMA OpenRefusedStep ==
    ASSUME RunnerInv, OpenRefused
    PROVE  RunnerInv'
  <1> USE DEF RunnerInv
  <1>1. /\ UNCHANGED <<driver, resources, systemVars, asked, back, initialized>>
        /\ UNCHANGED <<registered, run_completed, i, iterations, metrics, runs>>
        /\ pc = "open" /\ pc' = "idle" /\ result' = "failed" /\ cause' = "failure"
    BY DEF OpenRefused, OpenFails, Refuse
  <1>2. UNCHANGED <<BufferSet, DriverHolds>>
    BY <1>1 DEF resources, BufferSet, DriverHolds
  <1>3. ~initialized
    BY <1>1 DEF StageTells
  <1>4. RunnerTypeOK'
    BY <1>1 DEF RunnerTypeOK, SessionTypeOK, SystemTypeOK, DriverTypeOK, resources, systemVars
  <1>5. FieldsTell' /\ StageTells'
    BY <1>1, <1>2, <1>3 DEF FieldsTell, StageTells, One, resources, systemVars
  <1>6. FlagTellsRegistration' /\ ErrorInv'
    BY <1>1, <1>3 DEF FlagTellsRegistration, ErrorInv
  <1> QED BY <1>4, <1>5, <1>6
-----------------------------------------------------------------------------
\* The calls of run, which leave the resources alone.
LEMMA RunStep ==
    ASSUME RunnerInv,
           \/ \E n \in RunLengths : RunCall(n) \/ RunRefused(n)
           \/ DoIo
    PROVE  RunnerInv'
  <1> USE DEF RunnerInv
  <1>1. /\ UNCHANGED <<driver, resources, systemVars, asked, back, initialized>>
        /\ UNCHANGED <<registered, run_completed, metrics>>
    BY DEF RunCall, RunRefused, DoIo, GoTo, Refuse
  <1>2. /\ pc \in {"idle", "io"} /\ pc' \in {"idle", "io", "finish"}
        /\ pc' \in {"io", "finish"} => initialized /\ registered
        /\ pc = "io" => initialized
    BY DEF RunCall, RunRefused, DoIo, GoTo, Refuse, Idle, StageTells
  <1>3. /\ i' \in 0 .. iterations' /\ iterations' \in RunLengths \cup {0}
        /\ runs' \in 0 .. MaxRuns
        /\ pc' = "io" => i' < iterations'
    <2>1. /\ i \in 0 .. iterations /\ iterations \in RunLengths \cup {0} /\ iterations \in Nat
          /\ runs \in 0 .. MaxRuns /\ MaxRuns \in Nat
      BY SessionAssumption, MaxRunsAssumption DEF RunnerTypeOK
    <2>2. ASSUME NEW n \in RunLengths, RunCall(n)
          PROVE  <1>3!:
      <3>1. i' = 0 /\ iterations' = n /\ runs' = runs + 1 /\ runs < MaxRuns /\ n # 0 /\ n \in Nat
        BY <2>2, SessionAssumption DEF RunCall
      <3> QED BY <2>1, <3>1
    <2>3. ASSUME NEW n \in RunLengths, RunRefused(n)
          PROVE  <1>3!:
      BY <2>1, <2>3 DEF RunRefused, Refuse
    <2>4. ASSUME DoIo
          PROVE  <1>3!:
      <3>1. i < iterations /\ iterations' = iterations /\ runs' = runs
        BY <2>4 DEF DoIo, StageTells
      <3>2. CASE i' = i + 1 /\ pc' = IF i' < iterations THEN "io" ELSE "finish"
        BY <2>1, <3>1, <3>2
      <3>3. CASE i' = i /\ pc' = "idle"
        BY <2>1, <3>1, <3>3
      <3> QED BY <2>4, <3>2, <3>3 DEF DoIo, GoTo, Refuse
    <2> QED BY <2>2, <2>3, <2>4
  <1>4. /\ result' \in {"none", "ok", "failed"} /\ cause' \in {"none", "failure", "deregister"}
        /\ result' = "failed" => cause' # "none"
        /\ initialized' /\ result' = "ok" => cause' = "none"
    BY DEF RunCall, RunRefused, DoIo, GoTo, Refuse, RunnerTypeOK, SessionTypeOK, ErrorInv
  <1>5. UNCHANGED <<BufferSet, DriverHolds>>
    BY <1>1 DEF resources, BufferSet, DriverHolds
  <1>6. RunnerTypeOK'
    BY <1>1, <1>2, <1>3, <1>4
       DEF RunnerTypeOK, SessionTypeOK, SystemTypeOK, DriverTypeOK, resources, systemVars
  <1>7. FieldsTell'
    BY <1>1, <1>5 DEF FieldsTell, One, resources, systemVars
  <1>8. StageTells'
    BY <1>1, <1>2, <1>3, <1>5 DEF StageTells, resources
  <1>9. FlagTellsRegistration' /\ ErrorInv'
    BY <1>1, <1>4 DEF FlagTellsRegistration, ErrorInv, resources
  <1> QED BY <1>6, <1>7, <1>8, <1>9

LEMMA FinishRunStep ==
    ASSUME RunnerInv, FinishRun
    PROVE  RunnerInv'
  <1> USE DEF RunnerInv
  <1>1. /\ UNCHANGED <<resources, systemVars, asked, back, initialized, i, iterations, runs>>
        /\ pc = "finish" /\ pc' = "idle"
    BY DEF FinishRun, RunDone, Refuse
  <1>2. BufferSet' = BufferSet
    BY <1>1 DEF resources, BufferSet
  <1>3. initialized /\ registered /\ buffers' = buffers /\ Len(buffers) = 1
    BY <1>1 DEF StageTells, resources
  <1>4. /\ iterations \in Nat /\ metrics \in [DOMAIN NoMetrics -> Nat]
        /\ DOMAIN NoMetrics = {"iterations", "register_count", "deregister_count"}
        /\ driver \in [Ptrs -> Nat] /\ registered \in BOOLEAN /\ run_completed \in BOOLEAN
    BY Fields, SessionAssumption DEF RunnerTypeOK
  <1>5. /\ ~run_completed /\ metrics.register_count = 1 /\ metrics.deregister_count = 0
        /\ driver[buffers[1]] = io_size
    BY <1>3, <1>4 DEF FlagTellsRegistration
  <1>6. CASE Deregisters /\ run_completed' = TRUE /\ cause' = "none" /\ RunDone
             /\ metrics' = [metrics EXCEPT !.iterations = iterations, !.deregister_count = @ + 1]
    <2>1. /\ metrics' \in [DOMAIN NoMetrics -> Nat]
          /\ metrics'.register_count = 1 /\ metrics'.deregister_count = 1
      <3> DEFINE D == {"iterations", "register_count", "deregister_count"}
      <3>1. metrics \in [D -> Nat] /\ DOMAIN NoMetrics = D
        BY <1>4
      <3>2. /\ metrics' \in [D -> Nat] /\ metrics'.register_count = metrics.register_count
            /\ metrics'.deregister_count = metrics.deregister_count + 1
        <4> DEFINE once == [metrics EXCEPT !.iterations = iterations]
        <4>1. once \in [D -> Nat] /\ once.register_count = metrics.register_count
              /\ once.deregister_count = metrics.deregister_count
          BY <1>4, <3>1
        <4>2. metrics' = [once EXCEPT !.deregister_count = once.deregister_count + 1]
          BY <1>6, <3>1
        <4> HIDE DEF once
        <4> QED BY <4>1, <4>2
      <3> QED BY <1>5, <3>1, <3>2
    <2>2. driver' = Deregistering(BufferSet) /\ registered' = FALSE /\ result' = "ok"
      BY <1>6 DEF Deregisters, RunDone
    <2>3. driver' \in [Ptrs -> Nat] /\ DriverHolds' = DriverHolds \ BufferSet
      BY <1>4, <2>2, HoldsAfterDeregistering
    <2>4. DriverHolds' = {}
      BY <2>3 DEF FieldsTell
    <2>5. driver'[buffers'[1]] = Unregistered
      <3>1. buffers \in Seq(Ptrs)
        BY Fields
      <3>2. buffers[1] \in Ptrs
        BY <1>3, <3>1, BufferSetIs
      <3> QED BY <1>3, <2>4, <3>2 DEF DriverHolds
    <2>6. RunnerTypeOK'
      BY <1>1, <1>6, <2>1, <2>2, <2>3
         DEF RunnerTypeOK, SessionTypeOK, SystemTypeOK, DriverTypeOK, resources, systemVars
    <2>7. FieldsTell' /\ StageTells'
      BY <1>1, <1>2, <1>3, <2>4 DEF FieldsTell, StageTells, One, resources, systemVars
    <2>8. FlagTellsRegistration' /\ ErrorInv'
      BY <1>6, <2>1, <2>2, <2>5 DEF FlagTellsRegistration, ErrorInv
    <2> QED BY <2>6, <2>7, <2>8
  <1>7. CASE /\ metrics' = [metrics EXCEPT !.iterations = iterations]
             /\ cause' = "deregister" /\ Refuse
             /\ UNCHANGED <<driver, registered, run_completed>>
    <2>1. /\ metrics' \in [DOMAIN NoMetrics -> Nat]
          /\ metrics'.register_count = 1 /\ metrics'.deregister_count = 0
      BY <1>4, <1>5, <1>7
    <2>2. DriverHolds' = DriverHolds /\ result' = "failed"
      BY <1>7 DEF DriverHolds, Refuse
    <2>3. RunnerTypeOK'
      BY <1>1, <1>7, <2>1, <2>2
         DEF RunnerTypeOK, SessionTypeOK, SystemTypeOK, DriverTypeOK, resources, systemVars
    <2>4. FieldsTell' /\ StageTells'
      BY <1>1, <1>2, <1>3, <1>7, <2>1, <2>2
         DEF FieldsTell, StageTells, One, resources, systemVars
    <2>5. FlagTellsRegistration' /\ ErrorInv'
      BY <1>1, <1>3, <1>5, <1>7, <2>1, <2>2 DEF FlagTellsRegistration, ErrorInv, resources
    <2> QED BY <2>3, <2>4, <2>5
  <1> QED BY <1>6, <1>7 DEF FinishRun
-----------------------------------------------------------------------------
LEMMA StutterStep ==
    ASSUME RunnerInv, UNCHANGED vars
    PROVE  RunnerInv'
  <1> USE DEF RunnerInv, vars, systemVars, sessionVars, runVars
  <1>1. UNCHANGED <<BufferSet, DriverHolds>>
    BY DEF BufferSet, DriverHolds
  <1>2. RunnerTypeOK'
    BY DEF RunnerTypeOK, SessionTypeOK, SystemTypeOK, DriverTypeOK
  <1>3. FieldsTell' /\ StageTells'
    BY <1>1 DEF FieldsTell, StageTells, One
  <1>4. FlagTellsRegistration' /\ ErrorInv'
    BY DEF FlagTellsRegistration, ErrorInv
  <1> QED BY <1>2, <1>3, <1>4

LEMMA SharedSteps ==
    ASSUME RunnerInv, SharedStep
    PROVE  RunnerInv'
  <1>1. UNCHANGED <<registered, i, iterations, metrics, cause, runs>>
    BY DEF SharedStep
  <1>2. CASE CloseDriver /\ UNCHANGED run_completed
    BY <1>1, <1>2, CloseDriverStep
  <1>3. CASE FreeMemory /\ run_completed' = FALSE
    BY <1>1, <1>3, FreeMemoryStep
  <1>4. CASE UNCHANGED <<driver, run_completed>> /\ OpenFile
    BY <1>1, <1>4, OpenFileStep DEF runVars
  <1>5. ASSUME UNCHANGED <<driver, run_completed>>, NEW size \in FileSizes, Stat(size)
        PROVE  RunnerInv'
    BY <1>1, <1>5, StatStep DEF runVars
  <1>6. ASSUME UNCHANGED <<driver, run_completed>>, NEW p \in Ptrs, AllocBuffer(p, 1)
        PROVE  RunnerInv'
    BY <1>1, <1>6, AllocBufferStep DEF runVars
  <1>7. CASE UNCHANGED <<driver, run_completed>> /\ OpenDriver
    BY <1>1, <1>7, OpenDriverStep DEF runVars
  <1>8. CASE UNCHANGED <<driver, run_completed>> /\ RegisterHandle("register")
    BY <1>1, <1>8, RegisterHandleStep DEF runVars
  <1> QED BY <1>2, <1>3, <1>4, <1>5, <1>6, <1>7, <1>8 DEF SharedStep

LEMMA RunnerInductive == RunnerInv /\ [Next]_vars => RunnerInv'
  <1> SUFFICES ASSUME RunnerInv, [Next]_vars PROVE RunnerInv'
    OBVIOUS
  <1>1. CASE StartCleanup
    BY <1>1, StartCleanupStep
  <1>2. CASE SharedStep
    BY <1>2, SharedSteps
  <1>3. CASE OpenRefused \/ RegisterBuffer
    BY <1>3, OpenRefusedStep, RegisterBufferStep
  <1>4. CASE DoIo \/ \E n \in RunLengths : RunCall(n) \/ RunRefused(n)
    BY <1>4, RunStep
  <1>5. CASE FinishRun
    BY <1>5, FinishRunStep
  <1>6. CASE UNCHANGED vars
    BY <1>6, StutterStep
  <1> QED BY <1>1, <1>2, <1>3, <1>4, <1>5, <1>6 DEF Next, InCall, Call

LEMMA RunnerInvHolds == Spec => []RunnerInv
  <1> QED BY RunnerInitHolds, RunnerInductive, PTL DEF Spec

\* The fields of the runner and the state of the system have their types.
THEOREM RunnerTypeCorrect == Spec => []RunnerTypeOK
  <1>1. RunnerInv => RunnerTypeOK
    BY DEF RunnerInv
  <1> QED BY <1>1, RunnerInvHolds, PTL

\* Whatever call fails and whoever calls what next, a closed runner holds nothing,
\* and a registration is of allocated memory in an open driver session.
THEOREM ResourcesAlwaysInOrder == Spec => []ResourcesInOrder
  <1>1. RunnerInv => ResourcesInOrder
    <2> SUFFICES ASSUME RunnerInv PROVE ResourcesInOrder
      OBVIOUS
    <2> USE DEF RunnerInv
    <2>1. ClosedHoldsNothing
      <3> SUFFICES ASSUME Idle, ~initialized PROVE NothingHeld
        BY DEF ClosedHoldsNothing
      <3>1. ~fd /\ ~opened /\ ~handle /\ buffers = <<>>
        BY DEF Idle, StageTells
      <3>2. BufferSet = {}
        BY <3>1 DEF BufferSet
      <3> QED BY <3>1, <3>2 DEF NothingHeld, FieldsTell, One
    <2>2. RegistrationsAreLive
      BY DEF RegistrationsAreLive, FieldsTell, One
    <2> QED BY <2>1, <2>2 DEF ResourcesInOrder
  <1> QED BY <1>1, RunnerInvHolds, PTL

\* While the runner is initialized its flag says what the driver has, through
\* runs that fail and deregistrations that are refused; the buffer is registered
\* once and deregistered once at most.
THEOREM FlagAlwaysTells == Spec => []FlagTellsRegistration
  <1>1. RunnerInv => FlagTellsRegistration
    BY DEF RunnerInv
  <1> QED BY <1>1, RunnerInvHolds, PTL

\* A call that failed leaves an error to report, and a success none.
THEOREM ErrorAlwaysReported == Spec => []ErrorIsReported
  <1>1. RunnerInv => ErrorIsReported
    BY DEF RunnerInv, ErrorInv, ErrorIsReported
  <1> QED BY <1>1, RunnerInvHolds, PTL
=============================================================================
