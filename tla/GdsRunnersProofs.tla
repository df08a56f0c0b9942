-------------------------- MODULE GdsRunnersProofs --------------------------
(***************************************************************************)
(* Proofs about the two runners that register buffers while they run: the  *)
(* CachedGDSRunner, through its cache, and the NaiveGDSRunner, in every    *)
(* iteration.  First what holds of the session they have in common,        *)
(* whichever calls of the system fail; then what each of them adds.        *)
(***************************************************************************)
EXTENDS CachedGDSRunner, NaiveGDSRunner, GDSRegistrationCacheProofs

One(flag) == IF flag THEN 1 ELSE 0

\* What the system holds is what the fields of the runner say, and the driver
\* has registrations only of the runner's buffers, in its session.
FieldsTell ==
    /\ files = One(fd) /\ sessions = One(opened) /\ handles = One(handle)
    /\ allocated = BufferSet
    /\ \A j, k \in 1 .. Len(buffers) : buffers[j] = buffers[k] => j = k
    /\ DriverHolds \subseteq BufferSet
    /\ DriverHolds # {} => opened

\* The calls of init and cleanup.
SessionCalls == {"teardown", "free", "open", "stat", "malloc", "driver", "handle", "ready"}

\* How far init, or the cleanup, has come.
StageTells ==
    /\ pc \in SessionCalls => ~initialized
    /\ initialized \/ Idle \/ pc \in SessionCalls
    /\ pc = "free" => ~opened /\ ~handle
    /\ (Idle /\ ~initialized) \/ pc = "open" =>
           ~fd /\ ~opened /\ ~handle /\ buffers = <<>>
    /\ pc = "stat" => fd /\ ~opened /\ ~handle /\ buffers = <<>>
    /\ pc \in {"malloc", "driver"} => fd /\ ~opened /\ ~handle
    /\ pc = "handle" => fd /\ opened /\ ~handle
    /\ initialized \/ pc = "ready" => fd /\ opened /\ handle
    /\ pc \in {"handle", "ready"} => DriverHolds = {}
    /\ pc \in {"stat", "malloc", "driver", "handle", "ready"} => asked.io_size # 0
    /\ initialized \/ pc \in {"malloc", "driver", "handle", "ready"} => io_size # 0

SessionInv == SessionTypeOK /\ FieldsTell /\ StageTells
-----------------------------------------------------------------------------
\* What the types say of the fields.
LEMMA Fields ==
    ASSUME SessionTypeOK
    PROVE  /\ initialized \in BOOLEAN /\ fd \in BOOLEAN /\ opened \in BOOLEAN
           /\ handle \in BOOLEAN /\ is_read \in BOOLEAN
           /\ buffers \in Seq(Ptrs) /\ Len(buffers) \in Nat
           /\ asked.io_size \in Sizes /\ asked.is_read \in BOOLEAN
           /\ driver \in [Ptrs -> Nat] /\ back \in {"open", "idle"}
           /\ result \in {"none", "ok", "failed"}
  BY DEF SessionTypeOK, DriverTypeOK

\* What the driver has after the buffers of gone are deregistered.
LEMMA HoldsAfterDeregistering ==
    ASSUME NEW gone, driver \in [Ptrs -> Nat], driver' = Deregistering(gone)
    PROVE  driver' \in [Ptrs -> Nat] /\ DriverHolds' = DriverHolds \ gone
  BY DEF Deregistering, DriverHolds, Unregistered

\* The resources and the fields of init stay, whatever is called.
LEMMA Resources ==
    ASSUME UNCHANGED <<resources, systemVars>>
    PROVE  /\ fd' = fd /\ opened' = opened /\ handle' = handle /\ buffers' = buffers
           /\ io_size' = io_size /\ file_size' = file_size /\ is_read' = is_read
           /\ files' = files /\ sessions' = sessions /\ handles' = handles
           /\ allocated' = allocated /\ BufferSet' = BufferSet
  BY DEF resources, systemVars, BufferSet

LEMMA SessionInitHolds == SessionInit => SessionInv
  <1> SUFFICES ASSUME SessionInit PROVE SessionInv
    OBVIOUS
  <1> USE DEF SessionInit, SystemInit, DriverInit
  <1>1. buffers = <<>> /\ buffers \in Seq(Ptrs) /\ Len(buffers) = 0
    OBVIOUS
  <1>2. BufferSet = {} /\ DriverHolds = {}
    BY <1>1 DEF BufferSet, DriverHolds, Unregistered
  <1>3. driver \in [Ptrs -> Nat]
    BY DEF Unregistered
  <1>4. SystemTypeOK /\ DriverTypeOK
    BY <1>3 DEF SystemTypeOK, DriverTypeOK
  <1>5. asked \in [io_size : Sizes, is_read : BOOLEAN]
    OBVIOUS
  <1>6. SessionTypeOK
    BY <1>1, <1>4, <1>5 DEF SessionTypeOK
  <1>7. FieldsTell
    BY <1>1, <1>2 DEF FieldsTell, One
  <1>8. StageTells
    BY <1>1 DEF StageTells, SessionCalls, Idle
  <1> QED BY <1>6, <1>7, <1>8 DEF SessionInv

\* A runner that keeps to SessionInv leaks nothing and gives nothing back early.
LEMMA SessionInOrder == SessionInv => ResourcesInOrder
  <1> SUFFICES ASSUME SessionInv PROVE ResourcesInOrder
    OBVIOUS
  <1>1. RegistrationsAreLive
    BY DEF RegistrationsAreLive, SessionInv, FieldsTell, One
  <1>2. ASSUME Idle, ~initialized PROVE NothingHeld
    <2>1. ~fd /\ ~opened /\ ~handle /\ buffers = <<>>
      BY <1>2 DEF SessionInv, StageTells
    <2>2. BufferSet = {}
      BY <2>1 DEF BufferSet
    <2> QED BY <2>1, <2>2 DEF SessionInv, FieldsTell, One, NothingHeld
  <1> QED BY <1>1, <1>2 DEF ResourcesInOrder, ClosedHoldsNothing
-----------------------------------------------------------------------------
\* A call begins with cleanup, or is abandoned: the runner's own part of cleanup
\* may end registrations, and no more.
LEMMA CleanupBegins ==
    ASSUME SessionInv,
           (\E size \in Sizes, read \in BOOLEAN : InitCall(size, read)) \/ CleanupCall \/ CallFails,
           DriverTypeOK', DriverHolds' \subseteq DriverHolds
    PROVE  SessionInv' /\ pc' = "teardown" /\ ~initialized'
  <1>1. /\ UNCHANGED <<resources, systemVars>> /\ initialized' = FALSE /\ pc' = "teardown"
        /\ back' \in {"open", "idle"} /\ asked' \in [io_size : Sizes, is_read : BOOLEAN]
        /\ result' \in {"none", "ok", "failed"}
    BY DEF InitCall, CleanupCall, CallFails, Abort, SessionInv, SessionTypeOK
  <1>2. /\ fd' = fd /\ opened' = opened /\ handle' = handle /\ buffers' = buffers
        /\ io_size' = io_size /\ file_size' = file_size /\ is_read' = is_read
        /\ files' = files /\ sessions' = sessions /\ handles' = handles
        /\ allocated' = allocated /\ BufferSet' = BufferSet
    BY <1>1, Resources
  <1>3. SessionTypeOK'
    BY <1>1, <1>2 DEF SessionInv, SessionTypeOK, SystemTypeOK
  <1>4. FieldsTell'
    BY <1>2 DEF SessionInv, FieldsTell, One
  <1>5. StageTells'
    BY <1>1 DEF StageTells, SessionCalls, Idle
  <1> QED BY <1>1, <1>3, <1>4, <1>5 DEF SessionInv

\* A step that touches no resource: one of run, or the return of a call.
LEMMA StepWithin ==
    ASSUME SessionInv, UNCHANGED <<resources, systemVars, asked, back>>,
           initialized' = initialized, pc' \notin SessionCalls,
           result' \in {"none", "ok", "failed"},
           DriverTypeOK', DriverHolds' \subseteq BufferSet,
           initialized \/ (pc' = "idle" /\ pc \in {"idle", "open"} /\ DriverHolds' = {})
    PROVE  SessionInv'
  <1>1. /\ fd' = fd /\ opened' = opened /\ handle' = handle /\ buffers' = buffers
        /\ io_size' = io_size /\ file_size' = file_size /\ is_read' = is_read
        /\ files' = files /\ sessions' = sessions /\ handles' = handles
        /\ allocated' = allocated /\ BufferSet' = BufferSet /\ asked' = asked /\ back' = back
    BY Resources
  <1>2. SessionTypeOK'
    BY <1>1 DEF SessionInv, SessionTypeOK, SystemTypeOK
  <1>3. FieldsTell'
    BY <1>1 DEF SessionInv, FieldsTell, StageTells, One
  <1>4. StageTells'
    BY <1>1 DEF SessionInv, StageTells, SessionCalls, Idle
  <1> QED BY <1>2, <1>3, <1>4 DEF SessionInv
-----------------------------------------------------------------------------
\* The end of cleanup: the session ends, and with it what is still registered.
LEMMA CloseDriverStep ==
    ASSUME SessionInv, CloseDriver
    PROVE  SessionInv' /\ DriverHolds' = {} /\ DriverTypeOK' /\ pc' = "free"
  <1>1. /\ fd' = fd /\ buffers' = buffers /\ io_size' = io_size /\ file_size' = file_size
        /\ is_read' = is_read /\ asked' = asked /\ result' = result /\ back' = back
        /\ initialized' = initialized /\ files' = files /\ allocated' = allocated
        /\ handle' = FALSE /\ opened' = FALSE /\ pc = "teardown" /\ pc' = "free"
        /\ handles' = handles - One(handle) /\ sessions' = sessions - One(opened)
        /\ driver' = IF opened /\ sessions = 1 THEN Deregistering(Ptrs) ELSE driver
    BY DEF CloseDriver, Close, One
  <1>2. /\ opened \in BOOLEAN /\ handle \in BOOLEAN /\ driver \in [Ptrs -> Nat]
        /\ fd \in BOOLEAN
    BY Fields DEF SessionInv
  <1>3. handles' = 0 /\ sessions' = 0 /\ files' = One(fd') /\ ~initialized
    BY <1>1, <1>2 DEF SessionInv, FieldsTell, StageTells, SessionCalls, One
  <1>4. driver' \in [Ptrs -> Nat] /\ DriverHolds' = {}
    <2>1. CASE opened
      <3>1. driver' = Deregistering(Ptrs)
        BY <1>1, <2>1 DEF SessionInv, FieldsTell, One
      <3>2. driver' \in [Ptrs -> Nat] /\ DriverHolds' = DriverHolds \ Ptrs
        BY <1>2, <3>1, HoldsAfterDeregistering
      <3> QED BY <3>2 DEF DriverHolds
    <2>2. CASE ~opened
      BY <1>1, <1>2, <2>2 DEF SessionInv, FieldsTell, DriverHolds
    <2> QED BY <2>1, <2>2
  <1>5. BufferSet' = BufferSet
    BY <1>1 DEF BufferSet
  <1>6. SystemTypeOK' /\ DriverTypeOK'
    BY <1>1, <1>3, <1>4 DEF SessionInv, SessionTypeOK, SystemTypeOK, DriverTypeOK
  <1>7. SessionTypeOK'
    BY <1>1, <1>6 DEF SessionInv, SessionTypeOK
  <1>8. FieldsTell'
    BY <1>1, <1>3, <1>4, <1>5 DEF SessionInv, FieldsTell, One
  <1>9. StageTells'
    BY <1>1, <1>3 DEF SessionInv, StageTells, SessionCalls, Idle
  <1> QED BY <1>1, <1>4, <1>6, <1>7, <1>8, <1>9 DEF SessionInv

LEMMA FreeMemoryStep ==
    ASSUME SessionInv, FreeMemory
    PROVE  /\ SessionInv' /\ driver' = driver /\ DriverHolds' = {} /\ ~initialized'
           /\ Len(buffers') = 0 /\ pc' \in {"open", "idle"}
  <1>1. /\ is_read' = is_read /\ asked' = asked /\ result' = result /\ back' = back
        /\ initialized' = initialized /\ driver' = driver /\ opened' = opened
        /\ handle' = handle /\ sessions' = sessions /\ handles' = handles
        /\ buffers' = <<>> /\ fd' = FALSE /\ io_size' = 0 /\ file_size' = 0
        /\ pc = "free" /\ pc' = back
        /\ allocated' = allocated \ BufferSet /\ files' = files - One(fd)
    BY DEF FreeMemory, Free, One
  <1>2. fd \in BOOLEAN /\ back \in {"open", "idle"}
    BY Fields DEF SessionInv
  <1>3. allocated' = {} /\ files' = 0 /\ ~initialized /\ ~opened /\ ~handle
    BY <1>1, <1>2 DEF SessionInv, FieldsTell, StageTells, SessionCalls, One
  <1>4. DriverHolds' = {}
    BY <1>1, <1>3 DEF SessionInv, FieldsTell, DriverHolds
  <1>5. buffers' \in Seq(Ptrs) /\ Len(buffers') = 0
    BY <1>1
  <1>6. BufferSet' = {}
    BY <1>1 DEF BufferSet
  <1>7. SystemTypeOK' /\ DriverTypeOK'
    BY <1>1, <1>3 DEF SessionInv, SessionTypeOK, SystemTypeOK, DriverTypeOK
  <1>8. SessionTypeOK'
    BY <1>1, <1>5, <1>7 DEF SessionInv, SessionTypeOK
  <1>9. FieldsTell'
    BY <1>1, <1>3, <1>4, <1>5, <1>6 DEF SessionInv, FieldsTell, One
  <1>10. StageTells'
    BY <1>1, <1>2, <1>3 DEF StageTells, SessionCalls, Idle
  <1> QED BY <1>1, <1>2, <1>3, <1>4, <1>5, <1>8, <1>9, <1>10 DEF SessionInv
-----------------------------------------------------------------------------
\* The calls of init, one by one.
LEMMA OpenFileStep ==
    ASSUME SessionInv, OpenFile, UNCHANGED driver
    PROVE  SessionInv' /\ pc' = "stat" /\ buffers' = buffers
  <1>1. /\ buffers' = buffers /\ io_size' = io_size /\ file_size' = file_size
        /\ is_read' = is_read /\ asked' = asked /\ result' = result /\ back' = back
        /\ initialized' = initialized /\ driver' = driver /\ opened' = opened
        /\ handle' = handle /\ sessions' = sessions /\ handles' = handles
        /\ allocated' = allocated /\ files' = files + 1 /\ fd' = TRUE
        /\ pc = "open" /\ pc' = "stat" /\ asked.io_size # 0
    BY DEF OpenFile, OpenFd
  <1>2. files' = 1 /\ ~initialized /\ ~opened /\ ~handle /\ buffers = <<>>
    BY <1>1 DEF SessionInv, FieldsTell, StageTells, SessionCalls, One
  <1>3. BufferSet' = BufferSet /\ DriverHolds' = DriverHolds
    BY <1>1 DEF BufferSet, DriverHolds
  <1>4. SystemTypeOK' /\ DriverTypeOK'
    BY <1>1, <1>2 DEF SessionInv, SessionTypeOK, SystemTypeOK, DriverTypeOK
  <1>5. SessionTypeOK'
    BY <1>1, <1>4 DEF SessionInv, SessionTypeOK
  <1>6. FieldsTell'
    BY <1>1, <1>2, <1>3 DEF SessionInv, FieldsTell, One
  <1>7. StageTells'
    BY <1>1, <1>2 DEF StageTells, SessionCalls, Idle
  <1> QED BY <1>1, <1>5, <1>6, <1>7 DEF SessionInv

LEMMA StatStep ==
    ASSUME SessionInv, NEW size \in FileSizes, Stat(size), UNCHANGED driver
    PROVE  SessionInv' /\ pc' = "malloc" /\ buffers' = <<>>
  <1>1. /\ buffers' = buffers /\ asked' = asked /\ result' = result /\ back' = back
        /\ initialized' = initialized /\ driver' = driver /\ opened' = opened
        /\ handle' = handle /\ fd' = fd /\ UNCHANGED systemVars
        /\ file_size' = size /\ io_size' = asked.io_size /\ is_read' = asked.is_read
        /\ pc = "stat" /\ pc' = "malloc"
    BY DEF Stat
  <1>2. asked.io_size \in Sizes /\ asked.is_read \in BOOLEAN
    BY Fields DEF SessionInv
  <1>3. BufferSet' = BufferSet /\ DriverHolds' = DriverHolds
    BY <1>1 DEF BufferSet, DriverHolds
  <1>4. /\ files' = files /\ sessions' = sessions /\ handles' = handles
        /\ allocated' = allocated
    BY <1>1 DEF systemVars
  <1>5. SystemTypeOK' /\ DriverTypeOK'
    BY <1>1, <1>4 DEF SessionInv, SessionTypeOK, SystemTypeOK, DriverTypeOK
  <1>6. SessionTypeOK'
    BY <1>1, <1>2, <1>5 DEF SessionInv, SessionTypeOK
  <1>7. FieldsTell'
    BY <1>1, <1>3, <1>4 DEF SessionInv, FieldsTell, One
  <1>8. StageTells'
    BY <1>1 DEF SessionInv, StageTells, SessionCalls, Idle
  <1> QED BY <1>1, <1>6, <1>7, <1>8 DEF SessionInv, StageTells

\* A buffer is allocated: it is another one than those before.
LEMMA AllocBufferStep ==
    ASSUME SessionInv, NEW p \in Ptrs, NEW count, AllocBuffer(p, count), UNCHANGED driver
    PROVE  /\ SessionInv' /\ pc = "malloc" /\ Len(buffers') = Len(buffers) + 1
           /\ pc' = IF Len(buffers) + 1 < count THEN "malloc" ELSE "driver"
  <1>1. /\ io_size' = io_size /\ file_size' = file_size
        /\ is_read' = is_read /\ asked' = asked /\ result' = result /\ back' = back
        /\ initialized' = initialized /\ driver' = driver /\ opened' = opened
        /\ handle' = handle /\ fd' = fd
        /\ sessions' = sessions /\ handles' = handles /\ files' = files
        /\ p \notin allocated /\ allocated' = allocated \cup {p}
        /\ buffers' = Append(buffers, p) /\ pc = "malloc" /\ pc' \in {"malloc", "driver"}
        /\ pc' = IF Len(buffers) + 1 < count THEN "malloc" ELSE "driver"
    BY DEF AllocBuffer, Malloc
  <1>2. buffers \in Seq(Ptrs) /\ Len(buffers) \in Nat
    BY Fields DEF SessionInv
  <1>3. /\ buffers' \in Seq(Ptrs) /\ Len(buffers') = Len(buffers) + 1
        /\ \A k \in 1 .. Len(buffers) : buffers'[k] = buffers[k]
        /\ buffers'[Len(buffers) + 1] = p
    BY <1>1, <1>2
  <1> DEFINE n == Len(buffers)
             b == buffers
             c == buffers'
  <1>4. n \in Nat /\ Len(c) = n + 1 /\ (\A k \in 1 .. n : c[k] = b[k]) /\ c[n + 1] = p
    BY <1>2, <1>3
  <1>5. BufferSet = {b[k] : k \in 1 .. n} /\ BufferSet' = {c[k] : k \in 1 .. n + 1}
    BY <1>4 DEF BufferSet
  <1>6. /\ \A j, k \in 1 .. n : b[j] = b[k] => j = k
        /\ p \notin BufferSet
    BY <1>1 DEF SessionInv, FieldsTell
  <1> HIDE DEF n, b, c
  <1>7. BufferSet' = BufferSet \cup {p}
    BY <1>4, <1>5
  <1>8. \A j, k \in 1 .. n + 1 : c[j] = c[k] => j = k
    BY <1>4, <1>5, <1>6
  <1>9. \A j, k \in 1 .. Len(buffers') : buffers'[j] = buffers'[k] => j = k
    BY <1>3, <1>8 DEF n, b, c
  <1>10. DriverHolds' = DriverHolds
    BY <1>1 DEF DriverHolds
  <1>11. SystemTypeOK' /\ DriverTypeOK'
    BY <1>1 DEF SessionInv, SessionTypeOK, SystemTypeOK, DriverTypeOK
  <1>12. SessionTypeOK'
    BY <1>1, <1>3, <1>11 DEF SessionInv, SessionTypeOK
  <1>13. FieldsTell'
    BY <1>1, <1>7, <1>9, <1>10 DEF SessionInv, FieldsTell, One
  <1>14. StageTells'
    BY <1>1 DEF SessionInv, StageTells, SessionCalls, Idle
  <1> QED BY <1>1, <1>3, <1>12, <1>13, <1>14 DEF SessionInv

LEMMA OpenDriverStep ==
    ASSUME SessionInv, OpenDriver, UNCHANGED driver
    PROVE  SessionInv' /\ pc = "driver" /\ pc' = "handle" /\ buffers' = buffers
  <1>1. /\ buffers' = buffers /\ io_size' = io_size /\ file_size' = file_size
        /\ is_read' = is_read /\ asked' = asked /\ result' = result /\ back' = back
        /\ initialized' = initialized /\ driver' = driver /\ fd' = fd
        /\ handle' = handle /\ sessions' = sessions + 1 /\ handles' = handles
        /\ allocated' = allocated /\ files' = files /\ opened' = TRUE
        /\ pc = "driver" /\ pc' = "handle"
    BY DEF OpenDriver, DriverOpen
  <1>2. ~opened /\ ~handle /\ fd /\ sessions' = 1 /\ DriverHolds = {}
    BY <1>1 DEF SessionInv, FieldsTell, StageTells, One
  <1>3. BufferSet' = BufferSet /\ DriverHolds' = DriverHolds
    BY <1>1 DEF BufferSet, DriverHolds
  <1>4. SystemTypeOK' /\ DriverTypeOK'
    BY <1>1, <1>2 DEF SessionInv, SessionTypeOK, SystemTypeOK, DriverTypeOK
  <1>5. SessionTypeOK'
    BY <1>1, <1>4 DEF SessionInv, SessionTypeOK
  <1>6. FieldsTell'
    BY <1>1, <1>2, <1>3 DEF SessionInv, FieldsTell, One
  <1>7. StageTells'
    BY <1>1, <1>2, <1>3 DEF SessionInv, StageTells, SessionCalls, Idle
  <1> QED BY <1>1, <1>5, <1>6, <1>7 DEF SessionInv

LEMMA RegisterHandleStep ==
    ASSUME SessionInv, RegisterHandle("ready"), UNCHANGED driver
    PROVE  SessionInv' /\ pc = "handle" /\ pc' = "ready" /\ buffers' = buffers
  <1>1. /\ buffers' = buffers /\ io_size' = io_size /\ file_size' = file_size
        /\ is_read' = is_read /\ asked' = asked /\ result' = result /\ back' = back
        /\ initialized' = initialized /\ driver' = driver /\ fd' = fd
        /\ handle' = TRUE /\ sessions' = sessions /\ handles' = handles + 1
        /\ allocated' = allocated /\ files' = files /\ opened' = opened
        /\ pc = "handle" /\ pc' = "ready"
    BY DEF RegisterHandle, HandleRegister
  <1>2. opened /\ ~handle /\ fd /\ handles' = 1 /\ DriverHolds = {}
    BY <1>1 DEF SessionInv, FieldsTell, StageTells, One
  <1>3. BufferSet' = BufferSet /\ DriverHolds' = DriverHolds
    BY <1>1 DEF BufferSet, DriverHolds
  <1>4. SystemTypeOK' /\ DriverTypeOK'
    BY <1>1, <1>2 DEF SessionInv, SessionTypeOK, SystemTypeOK, DriverTypeOK
  <1>5. SessionTypeOK'
    BY <1>1, <1>4 DEF SessionInv, SessionTypeOK
  <1>6. FieldsTell'
    BY <1>1, <1>2, <1>3 DEF SessionInv, FieldsTell, One
  <1>7. StageTells'
    BY <1>1, <1>2, <1>3 DEF SessionInv, StageTells, SessionCalls, Idle
  <1> QED BY <1>1, <1>5, <1>6, <1>7 DEF SessionInv

\* init is done: what it acquired is there, and nothing is registered yet.
LEMMA InitDoneStep ==
    ASSUME SessionInv, pc = "ready", InitDone, UNCHANGED driver
    PROVE  SessionInv' /\ Idle' /\ initialized' /\ buffers' = buffers /\ DriverHolds' = {}
  <1>1. UNCHANGED <<resources, systemVars>> /\ initialized' = TRUE /\ pc' = "idle"
        /\ result' = "ok" /\ asked' = asked /\ back' = back /\ driver' = driver
    BY DEF InitDone
  <1>2. /\ fd' = fd /\ opened' = opened /\ handle' = handle /\ buffers' = buffers
        /\ io_size' = io_size /\ file_size' = file_size /\ is_read' = is_read
        /\ files' = files /\ sessions' = sessions /\ handles' = handles
        /\ allocated' = allocated /\ BufferSet' = BufferSet
    BY <1>1, Resources
  <1>3. DriverHolds' = DriverHolds /\ DriverHolds = {}
    BY <1>1 DEF DriverHolds, SessionInv, StageTells
  <1>4. SessionTypeOK'
    BY <1>1, <1>2 DEF SessionInv, SessionTypeOK, SystemTypeOK, DriverTypeOK
  <1>5. FieldsTell'
    BY <1>2, <1>3 DEF SessionInv, FieldsTell, One
  <1>6. StageTells'
    BY <1>1, <1>2 DEF SessionInv, StageTells, SessionCalls, Idle
  <1> QED BY <1>1, <1>2, <1>3, <1>4, <1>5, <1>6 DEF SessionInv, Idle
-----------------------------------------------------------------------------
\* The cache of the runner: its entries are the buffers used since init, which
\* are the first ones, each registered with the size of the I/O.
Known == Cardinality(DOMAIN entries)

EntriesAreFirstBuffers ==
    /\ Known <= Len(buffers)
    /\ DOMAIN entries = {buffers[k] : k \in 1 .. Known}
    /\ \A p \in DOMAIN entries : entries[p].registered /\ entries[p].length = io_size
    /\ ~initialized => DOMAIN entries = {}

\* The buffers are as many as were asked for when init has allocated them.
BuffersCounted ==
    /\ buffer_count \in Nat \ {0}
    /\ Len(buffers) <= buffer_count
    /\ pc = "malloc" => Len(buffers) < buffer_count
    /\ initialized \/ pc \in {"driver", "handle", "ready"} => Len(buffers) = buffer_count

RunCalls == {"acquire", "io", "release", "finish"}

\* The buffers that the run has used so far, and those of them it found unused.
Touched == LET n == IF pc \in {"io", "release"} THEN i + 1 ELSE i
           IN  IF n < buffer_count THEN n ELSE buffer_count

Missed == IF Touched > before.entry_count THEN Touched - before.entry_count ELSE 0

\* The counters of the cache since the run began.
RunCounted ==
    /\ i \in 0 .. iterations /\ iterations \in RunLengths \cup {0}
    /\ pc \in SessionCalls \cup RunCalls \cup {"idle"}
    /\ pc \in RunCalls =>
           /\ before.entry_count \in Nat /\ Known = before.entry_count + Missed
           /\ before.hit_count \in Nat /\ before.miss_count \in Nat
           /\ before.register_count \in Nat /\ before.deregister_count \in Nat
           /\ stats.miss_count = before.miss_count + Missed
           /\ stats.hit_count + stats.miss_count
                  = before.hit_count + before.miss_count
                    + (IF pc \in {"io", "release"} THEN i + 1 ELSE i)
           /\ stats.register_count = before.register_count + Missed
           /\ stats.deregister_count = before.deregister_count
           /\ i < iterations \/ pc = "finish"
           /\ pc = "finish" => i = iterations

\* What the metrics of the last run say.
MetricsInv ==
    /\ metrics \in [DOMAIN NoMetrics -> Nat]
    /\ metrics.cache_hit + metrics.cache_miss = metrics.iterations
    /\ metrics.register_count = metrics.cache_miss
    /\ metrics.deregister_count = 0

CachedInv ==
    /\ SessionInv /\ CacheTypeOK /\ AgreesWithDriver
    /\ EntriesAreFirstBuffers /\ BuffersCounted /\ OnlyBufferInUsePinned
    /\ RunCounted /\ MetricsInv /\ MetricsExplainRun
-----------------------------------------------------------------------------
\* The remainder that rotates through the buffers.
LEMMA Rotation ==
    ASSUME NEW n \in Nat, NEW c \in Nat \ {0}
    PROVE  n % c \in 0 .. c - 1 /\ (n < c => n % c = n)
  OBVIOUS

\* What the invariant gives a step of the run.
LEMMA RunFacts ==
    ASSUME CachedInv, pc \in RunCalls
    PROVE  /\ initialized /\ pc \notin SessionCalls /\ ~Idle
           /\ i \in Nat /\ buffer_count \in Nat \ {0} /\ Len(buffers) = buffer_count
           /\ io_size \in Lens \ {0} /\ IsFiniteSet(DOMAIN entries) /\ Known \in Nat
           /\ opened /\ BufferSet \subseteq Ptrs
  <1>1. pc \notin SessionCalls /\ ~Idle
    BY DEF RunCalls, SessionCalls, Idle
  <1>2. initialized
    BY <1>1 DEF CachedInv, SessionInv, StageTells
  <1>3. i \in Nat
    BY SessionAssumption DEF CachedInv, RunCounted
  <1>4. buffer_count \in Nat \ {0} /\ Len(buffers) = buffer_count
    BY <1>2 DEF CachedInv, BuffersCounted
  <1>5. io_size \in Lens \ {0} /\ opened
    BY <1>2, RunnerAssumption DEF CachedInv, SessionInv, SessionTypeOK, StageTells
  <1>6. IsFiniteSet(DOMAIN entries)
    BY PtrsAssumption, FS_Subset DEF CachedInv, CacheTypeOK
  <1>7. Known \in Nat
    BY <1>6, FS_CardinalityType DEF Known
  <1>8. BufferSet \subseteq Ptrs
    <2>1. buffers \in Seq(Ptrs)
      BY Fields DEF CachedInv, SessionInv
    <2> QED BY <2>1 DEF BufferSet
  <1> QED BY <1>1, <1>2, <1>3, <1>4, <1>5, <1>6, <1>7, <1>8

\* The buffer of the iteration: which one it is, and when it has an entry.
LEMMA BufferOfIteration ==
    ASSUME CachedInv, pc \in RunCalls
    PROVE  /\ (i % buffer_count) + 1 \in 1 .. buffer_count
           /\ i < buffer_count => i % buffer_count = i
           /\ DevPtr \in BufferSet /\ DevPtr \in Ptrs
           /\ DevPtr \in DOMAIN entries <=> (i % buffer_count) + 1 <= Known
  <1> DEFINE k == (i % buffer_count) + 1
  <1>1. /\ i \in Nat /\ buffer_count \in Nat \ {0} /\ Len(buffers) = buffer_count
        /\ Known \in Nat /\ BufferSet \subseteq Ptrs
    BY RunFacts
  <1>2. k \in 1 .. buffer_count /\ (i < buffer_count => i % buffer_count = i)
    <2> DEFINE r == i % buffer_count
    <2>1. r \in 0 .. buffer_count - 1 /\ (i < buffer_count => r = i)
      BY <1>1, Rotation, Zenon
    <2> HIDE DEF r
    <2>2. r + 1 \in 1 .. buffer_count
      BY <1>1, <2>1
    <2> QED BY <2>1, <2>2 DEF r
  <1>3. DevPtr = buffers[k]
    BY DEF DevPtr
  <1>4. DOMAIN entries = {buffers[j] : j \in 1 .. Known} /\ Known <= Len(buffers)
    BY DEF CachedInv, EntriesAreFirstBuffers
  <1>5. \A j, l \in 1 .. Len(buffers) : buffers[j] = buffers[l] => j = l
    BY DEF CachedInv, SessionInv, FieldsTell
  <1>6. BufferSet = {buffers[j] : j \in 1 .. Len(buffers)}
    BY DEF BufferSet
  <1> HIDE DEF k
  <1>7. DevPtr \in BufferSet
    BY <1>1, <1>2, <1>3, <1>6
  <1>8. DevPtr \in DOMAIN entries <=> k <= Known
    <2>1. ASSUME k <= Known PROVE DevPtr \in DOMAIN entries
      BY <1>1, <1>2, <1>3, <1>4, <2>1
    <2>2. ASSUME DevPtr \in DOMAIN entries PROVE k <= Known
      <3>1. PICK j \in 1 .. Known : buffers[k] = buffers[j]
        BY <1>3, <1>4, <2>2
      <3>2. j \in 1 .. Len(buffers) /\ k \in 1 .. Len(buffers)
        BY <1>1, <1>2, <1>4
      <3>3. k = j
        BY <1>5, <3>1, <3>2
      <3> QED BY <1>1, <3>3
    <2> QED BY <2>1, <2>2
  <1> QED BY <1>1, <1>2, <1>7, <1>8 DEF k
-----------------------------------------------------------------------------
\* acquire in the run: no entry has another length or has lost its registration,
\* so that it either hits, or registers a buffer that has no entry.
LEMMA AcquireCases ==
    ASSUME CachedInv, pc = "acquire"
    PROVE  /\ ~AcquireAgain(DevPtr, io_size) /\ ~AcquireLoses(DevPtr, io_size)
           /\ DevPtr \in DOMAIN entries <=> IsRegistered(DevPtr, io_size)
           /\ \A p \in DOMAIN entries : entries[p].ref_count = 0
  <1>1. pc \in RunCalls
    BY DEF RunCalls
  <1>2. DevPtr \in Ptrs /\ io_size # 0
    BY <1>1, BufferOfIteration, RunFacts
  <1>3. DevPtr # NullPtr
    BY <1>2, NullPtrAssumption
  <1>4. \A p \in DOMAIN entries : entries[p].registered /\ entries[p].length = io_size
    BY DEF CachedInv, EntriesAreFirstBuffers
  <1>5. DevPtr \in DOMAIN entries <=> IsRegistered(DevPtr, io_size)
    BY <1>2, <1>3, <1>4 DEF IsRegistered, RegisteredEntries
  <1>6. ~AcquireAgain(DevPtr, io_size) /\ ~AcquireLoses(DevPtr, io_size)
    BY <1>4, <1>5 DEF AcquireAgain, AcquireLoses, MismatchedLength
  <1>7. \A p \in DOMAIN entries : entries[p].ref_count = 0
    BY DEF CachedInv, OnlyBufferInUsePinned
  <1> QED BY <1>5, <1>6, <1>7

\* The counting of a buffer that has an entry already, or gets its first.
LEMMA TouchCounts ==
    ASSUME NEW n \in Nat, NEW count \in Nat \ {0}, NEW known \in Nat, NEW had \in Nat,
           NEW k \in 1 .. count, n < count => k = n + 1,
           known = had + (LET t == IF n < count THEN n ELSE count
                          IN  IF t > had THEN t - had ELSE 0)
    PROVE  LET t == IF n < count THEN n ELSE count
               u == IF n + 1 < count THEN n + 1 ELSE count
               m == IF t > had THEN t - had ELSE 0
               l == IF u > had THEN u - had ELSE 0
           IN  /\ k <= known => l = m
               /\ k > known => l = m + 1 /\ k = known + 1
               /\ m \in Nat /\ l \in Nat
  OBVIOUS

\* The counters at an acquire, and what one more hit or miss makes of their sum.
LEMMA CountsAtAcquire ==
    ASSUME CachedInv, pc = "acquire"
    PROVE  /\ before.entry_count \in Nat /\ Known = before.entry_count + Missed
           /\ stats.hit_count \in Nat /\ stats.miss_count \in Nat
           /\ stats.register_count \in Nat /\ stats.deregister_count \in Nat
           /\ before.hit_count \in Nat /\ before.miss_count \in Nat
           /\ before.register_count \in Nat /\ before.deregister_count \in Nat
           /\ stats.miss_count = before.miss_count + Missed
           /\ stats.register_count = before.register_count + Missed
           /\ stats.deregister_count = before.deregister_count
           /\ i < iterations /\ i \in 0 .. iterations /\ iterations \in RunLengths \cup {0}
           /\ stats.hit_count + (stats.miss_count + 1)
                  = before.hit_count + before.miss_count + (i + 1)
           /\ (stats.hit_count + 1) + stats.miss_count
                  = before.hit_count + before.miss_count + (i + 1)
           /\ Known + 1 = before.entry_count + (Missed + 1)
           /\ stats.miss_count + 1 = before.miss_count + (Missed + 1)
           /\ stats.register_count + 1 = before.register_count + (Missed + 1)
  <1>1. i \in Nat /\ pc \in RunCalls
    BY RunFacts DEF RunCalls
  <1>2. /\ stats.hit_count \in Nat /\ stats.miss_count \in Nat
        /\ stats.register_count \in Nat /\ stats.deregister_count \in Nat
    BY DEF CachedInv, CacheTypeOK, CacheStats
  <1>3. /\ before.entry_count \in Nat /\ Known = before.entry_count + Missed
        /\ before.hit_count \in Nat /\ before.miss_count \in Nat
        /\ before.register_count \in Nat /\ before.deregister_count \in Nat
        /\ stats.miss_count = before.miss_count + Missed
        /\ stats.hit_count + stats.miss_count = before.hit_count + before.miss_count + i
        /\ stats.register_count = before.register_count + Missed
        /\ stats.deregister_count = before.deregister_count
        /\ i < iterations /\ i \in 0 .. iterations /\ iterations \in RunLengths \cup {0}
    BY <1>1 DEF CachedInv, RunCounted
  <1> DEFINE a == stats.hit_count
             b == stats.miss_count
             c == before.hit_count
             d == before.miss_count
  <1>4. a \in Nat /\ b \in Nat /\ c \in Nat /\ d \in Nat /\ a + b = c + d + i
    BY <1>2, <1>3
  <1> HIDE DEF a, b, c, d
  <1>5. a + (b + 1) = c + d + (i + 1) /\ (a + 1) + b = c + d + (i + 1)
    BY <1>1, <1>4
  <1>6. Missed \in Nat
    BY <1>1, <1>3, RunFacts DEF Missed, Touched
  <1>7. \A y, m \in Nat : (y + m) + 1 = y + (m + 1)
    OBVIOUS
  <1>9. /\ Known + 1 = before.entry_count + (Missed + 1)
        /\ stats.miss_count + 1 = before.miss_count + (Missed + 1)
        /\ stats.register_count + 1 = before.register_count + (Missed + 1)
    <2>1. Known + 1 = before.entry_count + (Missed + 1)
      BY <1>3, <1>6, <1>7, Zenon
    <2>2. stats.miss_count + 1 = before.miss_count + (Missed + 1)
      BY <1>3, <1>6, <1>7, Zenon
    <2>3. stats.register_count + 1 = before.register_count + (Missed + 1)
      BY <1>3, <1>6, <1>7, Zenon
    <2> QED BY <2>1, <2>2, <2>3
  <1> QED BY <1>2, <1>3, <1>5, <1>9, Zenon DEF a, b, c, d

\* What stays when a step of the run changes neither buffers nor metrics.
LEMMA RunKeeps ==
    ASSUME CachedInv, pc \in RunCalls, (pc' \in RunCalls /\ GoTo(pc')) \/ Refuse,
           UNCHANGED <<buffer_count, iterations, before, metrics>>,
           CacheTypeOK', DriverHolds' \subseteq BufferSet
    PROVE  /\ SessionInv' /\ BuffersCounted' /\ MetricsInv' /\ MetricsExplainRun'
           /\ UNCHANGED <<buffers, io_size, initialized>>
  <1>1. initialized /\ pc \notin SessionCalls
    BY RunFacts
  <1>2. UNCHANGED <<resources, systemVars, asked, back, initialized>>
    BY DEF GoTo, Refuse
  <1>3. pc' \notin SessionCalls
    BY DEF RunCalls, SessionCalls, Refuse
  <1>4. result' \in {"none", "ok", "failed"}
    BY Fields DEF GoTo, Refuse, CachedInv, SessionInv
  <1>5. SessionInv'
    BY <1>1, <1>2, <1>3, <1>4, StepWithin DEF CachedInv, CacheTypeOK
  <1>6. UNCHANGED <<buffers, io_size>>
    BY <1>2, Resources
  <1>7. BuffersCounted'
    BY <1>2, <1>3, <1>6, <1>1 DEF CachedInv, BuffersCounted, SessionCalls
  <1>8. MetricsInv'
    BY DEF CachedInv, MetricsInv
  <1>9. MetricsExplainRun'
    <2>1. pc' = "idle" => result' = "failed"
      BY DEF GoTo, Refuse, RunCalls
    <2> QED BY <1>8, <2>1 DEF MetricsExplainRun, MetricsInv, Idle
  <1> QED BY <1>2, <1>5, <1>6, <1>7, <1>8, <1>9

\* A buffer used for the first time since init is registered.
LEMMA FirstUse ==
    ASSUME CachedInv, pc = "acquire", AcquireSucceeds(DevPtr, io_size),
           DevPtr \notin DOMAIN entries, GoTo("io"), UNCHANGED runVars
    PROVE  CachedInv'
  <1>1. /\ pc \in RunCalls /\ pc' = "io" /\ pc' \in RunCalls
        /\ UNCHANGED <<buffer_count, i, iterations, before, metrics>>
    BY DEF RunCalls, GoTo, runVars
  <1>2. /\ i \in Nat /\ buffer_count \in Nat \ {0} /\ Len(buffers) = buffer_count
        /\ io_size \in Lens \ {0} /\ IsFiniteSet(DOMAIN entries) /\ Known \in Nat
        /\ opened /\ initialized /\ BufferSet \subseteq Ptrs
    BY <1>1, RunFacts
  <1>3. AcquireFirst(DevPtr, io_size) /\ UNCHANGED now
    BY AcquireCases DEF AcquireSucceeds, AcquireHit
  <1>4. /\ DevPtr \in BufferSet /\ DevPtr \in Ptrs
        /\ (i % buffer_count) + 1 \in 1 .. buffer_count
        /\ (i % buffer_count) + 1 > Known
        /\ i < buffer_count => i % buffer_count = i
    BY <1>1, <1>2, BufferOfIteration
  <1>5. CacheTypeOK' /\ AgreesWithDriver'
    BY <1>2, <1>4, AcquireType, AcquireAgrees DEF CachedInv
  <1>6. /\ driver' = Registering(DevPtr, io_size)
        /\ DOMAIN entries' = DOMAIN entries \cup {DevPtr}
        /\ entries'[DevPtr].registered /\ entries'[DevPtr].length = io_size
        /\ entries'[DevPtr].ref_count = 1
        /\ \A q \in DOMAIN entries : entries'[q] = entries[q]
    BY <1>3 DEF AcquireFirst, Put
  <1>7. DriverHolds' \subseteq BufferSet
    <2>1. DriverHolds \subseteq BufferSet
      BY DEF CachedInv, SessionInv, FieldsTell
    <2>2. \A q \in Ptrs \ {DevPtr} : driver'[q] = driver[q]
      BY <1>2, <1>4, <1>6, DriverMap, LensAssumption DEF CachedInv, CacheTypeOK
    <2> QED BY <1>4, <2>1, <2>2 DEF DriverHolds
  <1>8. /\ SessionInv' /\ BuffersCounted' /\ MetricsInv' /\ MetricsExplainRun'
        /\ buffers' = buffers /\ io_size' = io_size /\ initialized' = initialized
    BY <1>1, <1>5, <1>7, RunKeeps
  <1>9. DevPtr' = DevPtr
    BY <1>1, <1>8 DEF DevPtr
  <1>10. Known' = Known + 1
    BY <1>2, <1>6, FS_AddElement DEF Known
  <1> DEFINE k == (i % buffer_count) + 1
             n == IF i < buffer_count THEN i ELSE buffer_count
  <1>11. /\ k = Known + 1 /\ Missed' = Missed + 1 /\ Missed \in Nat
    <2>1. before.entry_count \in Nat /\ Known = before.entry_count + Missed
      BY <1>1 DEF CachedInv, RunCounted
    <2>2. Touched = n /\ Touched' = IF i + 1 < buffer_count THEN i + 1 ELSE buffer_count
      BY <1>1 DEF Touched
    <2>3. /\ Missed = IF n > before.entry_count THEN n - before.entry_count ELSE 0
          /\ Missed' = LET u == IF i + 1 < buffer_count THEN i + 1 ELSE buffer_count
                       IN  IF u > before.entry_count THEN u - before.entry_count ELSE 0
      BY <1>1, <2>2 DEF Missed
    <2>4. k \in 1 .. buffer_count /\ (i < buffer_count => k = i + 1) /\ k > Known
      BY <1>2, <1>4
    <2> HIDE DEF k
    <2> QED BY <1>2, <2>1, <2>3, <2>4, TouchCounts
  <1> HIDE DEF k
  <1>12. EntriesAreFirstBuffers'
    <2>1. DOMAIN entries = {buffers[j] : j \in 1 .. Known}
      BY DEF CachedInv, EntriesAreFirstBuffers
    <2>2. DevPtr = buffers[Known + 1]
      BY <1>11 DEF DevPtr, k
    <2>3. DOMAIN entries' = {buffers'[j] : j \in 1 .. Known'}
      BY <1>2, <1>6, <1>8, <1>10, <2>1, <2>2
    <2>4. Known' <= Len(buffers')
      BY <1>2, <1>4, <1>8, <1>10, <1>11 DEF k
    <2>5. \A p \in DOMAIN entries' : entries'[p].registered /\ entries'[p].length = io_size'
      BY <1>6, <1>8 DEF CachedInv, EntriesAreFirstBuffers
    <2> QED BY <1>2, <1>8, <2>3, <2>4, <2>5 DEF EntriesAreFirstBuffers
  <1>13. OnlyBufferInUsePinned'
    <2>1. IsRegistered(DevPtr, io_size)' /\ driver'[DevPtr'] = io_size'
      BY <1>2, <1>4, <1>5, <1>6, <1>8, <1>9, NullPtrAssumption
         DEF IsRegistered, RegisteredEntries, AgreesWithDriver
    <2>2. \A p \in DOMAIN entries' : entries'[p].ref_count = IF p = DevPtr' THEN 1 ELSE 0
      BY <1>6, <1>9, AcquireCases
    <2> QED BY <1>1, <2>1, <2>2 DEF OnlyBufferInUsePinned
  <1>14. RunCounted'
    <2>1. /\ stats'.miss_count = stats.miss_count + 1 /\ stats'.hit_count = stats.hit_count
          /\ stats'.register_count = stats.register_count + 1
          /\ stats'.deregister_count = stats.deregister_count
      BY <1>3 DEF AcquireFirst, CachedInv, CacheTypeOK, CacheStats
    <2>2. /\ before' = before /\ i' = i /\ iterations' = iterations
      BY <1>1
    <2>3. Known' = before'.entry_count + Missed'
      BY <1>10, <1>11, <2>2, CountsAtAcquire, Zenon
    <2>4. /\ stats'.miss_count = before'.miss_count + Missed'
          /\ stats'.register_count = before'.register_count + Missed'
          /\ stats'.deregister_count = before'.deregister_count
      BY <1>11, <2>1, <2>2, CountsAtAcquire, Zenon
    <2>5. stats'.hit_count + stats'.miss_count
              = before'.hit_count + before'.miss_count + (i' + 1)
      BY <2>1, <2>2, CountsAtAcquire
    <2>6. /\ before'.entry_count \in Nat /\ before'.hit_count \in Nat
          /\ before'.miss_count \in Nat /\ before'.register_count \in Nat
          /\ before'.deregister_count \in Nat
          /\ i' < iterations' /\ i' \in 0 .. iterations' /\ iterations' \in RunLengths \cup {0}
      BY <2>2, CountsAtAcquire
    <2> QED BY <1>1, <2>3, <2>4, <2>5, <2>6 DEF RunCounted
  <1> QED BY <1>5, <1>8, <1>12, <1>13, <1>14 DEF CachedInv

\* A buffer used before is taken from the cache.
LEMMA UseAgain ==
    ASSUME CachedInv, pc = "acquire", AcquireSucceeds(DevPtr, io_size),
           DevPtr \in DOMAIN entries, GoTo("io"), UNCHANGED runVars
    PROVE  CachedInv'
  <1>1. /\ pc \in RunCalls /\ pc' = "io" /\ pc' \in RunCalls
        /\ UNCHANGED <<buffer_count, i, iterations, before, metrics>>
    BY DEF RunCalls, GoTo, runVars
  <1>2. /\ i \in Nat /\ buffer_count \in Nat \ {0} /\ Len(buffers) = buffer_count
        /\ io_size \in Lens \ {0} /\ Known \in Nat
    BY <1>1, RunFacts
  <1>3. AcquireHit(DevPtr, io_size) /\ UNCHANGED now
    BY AcquireCases DEF AcquireSucceeds, AcquireFirst
  <1>4. /\ DevPtr \in BufferSet /\ DevPtr \in Ptrs
        /\ (i % buffer_count) + 1 \in 1 .. buffer_count
        /\ (i % buffer_count) + 1 <= Known
        /\ i < buffer_count => i % buffer_count = i
    BY <1>1, <1>2, BufferOfIteration
  <1>5. CacheTypeOK' /\ AgreesWithDriver'
    BY <1>2, <1>4, AcquireType, AcquireAgrees DEF CachedInv
  <1>6. /\ driver' = driver /\ DOMAIN entries' = DOMAIN entries
        /\ entries'[DevPtr] = Used([entries[DevPtr] EXCEPT !.hit_count = @ + 1])
        /\ \A q \in DOMAIN entries \ {DevPtr} : entries'[q] = entries[q]
    BY <1>3 DEF AcquireHit, Put
  <1>7. /\ entries'[DevPtr].registered = entries[DevPtr].registered
        /\ entries'[DevPtr].length = entries[DevPtr].length
        /\ entries'[DevPtr].ref_count = entries[DevPtr].ref_count + 1
    <2> DEFINE e == [entries[DevPtr] EXCEPT !.hit_count = @ + 1]
    <2>1. entries[DevPtr] \in CacheEntry /\ entries[DevPtr].hit_count \in Nat
      BY EntryFields DEF CachedInv
    <2>2. e \in CacheEntry
      BY <2>1 DEF CacheEntry
    <2>3. /\ e.registered = entries[DevPtr].registered
          /\ e.length = entries[DevPtr].length
          /\ e.ref_count = entries[DevPtr].ref_count
      BY <2>1 DEF CacheEntry
    <2>4. entries'[DevPtr] = Used(e)
      BY <1>6
    <2> HIDE DEF e
    <2>5. /\ Used(e).registered = e.registered /\ Used(e).length = e.length
          /\ Used(e).ref_count = e.ref_count + 1
      BY <2>2, UpdateFields
    <2> QED BY <2>3, <2>4, <2>5, Zenon
  <1>8. DriverHolds' \subseteq BufferSet
    BY <1>6 DEF CachedInv, SessionInv, FieldsTell, DriverHolds
  <1>9. /\ SessionInv' /\ BuffersCounted' /\ MetricsInv' /\ MetricsExplainRun'
        /\ buffers' = buffers /\ io_size' = io_size /\ initialized' = initialized
    BY <1>1, <1>5, <1>8, RunKeeps
  <1>10. DevPtr' = DevPtr /\ Known' = Known
    BY <1>1, <1>6, <1>9 DEF DevPtr, Known
  <1>11. Missed' = Missed
    <2> DEFINE k == (i % buffer_count) + 1
               n == IF i < buffer_count THEN i ELSE buffer_count
    <2>1. before.entry_count \in Nat /\ Known = before.entry_count + Missed
      BY CountsAtAcquire
    <2>2. Touched = n /\ Touched' = IF i + 1 < buffer_count THEN i + 1 ELSE buffer_count
      BY <1>1 DEF Touched
    <2>3. /\ Missed = IF n > before.entry_count THEN n - before.entry_count ELSE 0
          /\ Missed' = LET u == IF i + 1 < buffer_count THEN i + 1 ELSE buffer_count
                       IN  IF u > before.entry_count THEN u - before.entry_count ELSE 0
      BY <1>1, <2>2 DEF Missed
    <2>4. k \in 1 .. buffer_count /\ (i < buffer_count => k = i + 1) /\ k <= Known
      BY <1>2, <1>4
    <2> HIDE DEF k
    <2> QED BY <1>2, <2>1, <2>3, <2>4, TouchCounts
  <1>12. EntriesAreFirstBuffers'
    BY <1>6, <1>7, <1>9, <1>10 DEF CachedInv, EntriesAreFirstBuffers
  <1>13. OnlyBufferInUsePinned'
    <2>1. IsRegistered(DevPtr, io_size)' /\ driver'[DevPtr'] = io_size'
      BY <1>2, <1>3, <1>5, <1>6, <1>7, <1>9, <1>10
         DEF AcquireHit, IsRegistered, RegisteredEntries, AgreesWithDriver
    <2>2. entries'[DevPtr].ref_count = 1
      BY <1>7, AcquireCases
    <2>3. \A p \in DOMAIN entries' : entries'[p].ref_count = IF p = DevPtr' THEN 1 ELSE 0
      BY <1>6, <1>10, <2>2, AcquireCases
    <2> QED BY <1>1, <2>1, <2>3 DEF OnlyBufferInUsePinned
  <1>14. RunCounted'
    <2>1. /\ stats'.miss_count = stats.miss_count /\ stats'.hit_count = stats.hit_count + 1
          /\ stats'.register_count = stats.register_count
          /\ stats'.deregister_count = stats.deregister_count
      BY <1>3 DEF AcquireHit, CachedInv, CacheTypeOK, CacheStats
    <2>2. before' = before /\ i' = i /\ iterations' = iterations
      BY <1>1
    <2>3. /\ Known' = before'.entry_count + Missed'
          /\ stats'.miss_count = before'.miss_count + Missed'
          /\ stats'.register_count = before'.register_count + Missed'
          /\ stats'.deregister_count = before'.deregister_count
      BY <1>10, <1>11, <2>1, <2>2, CountsAtAcquire, Zenon
    <2>4. stats'.hit_count + stats'.miss_count
              = before'.hit_count + before'.miss_count + (i' + 1)
      BY <2>1, <2>2, CountsAtAcquire
    <2>5. /\ before'.entry_count \in Nat /\ before'.hit_count \in Nat
          /\ before'.miss_count \in Nat /\ before'.register_count \in Nat
          /\ before'.deregister_count \in Nat
          /\ i' < iterations' /\ i' \in 0 .. iterations' /\ iterations' \in RunLengths \cup {0}
      BY <2>2, CountsAtAcquire
    <2> QED BY <1>1, <2>3, <2>4, <2>5 DEF RunCounted
  <1> QED BY <1>5, <1>9, <1>12, <1>13, <1>14 DEF CachedInv

\* A run that is refused, with nothing referenced and nothing changed.
LEMMA RefusedStep ==
    ASSUME CachedInv, pc \in RunCalls \/ pc = "idle",
           \A p \in DOMAIN entries : entries[p].ref_count = 0,
           Refuse, UNCHANGED <<cacheVars, buffer_count, i, iterations, before, metrics>>
    PROVE  CachedInv'
  <1>1. /\ pc' = "idle" /\ result' = "failed"
        /\ UNCHANGED <<resources, systemVars, asked, back, initialized>>
        /\ driver' = driver /\ entries' = entries /\ stats' = stats /\ now' = now
    BY DEF Refuse, cacheVars
  <1>2. buffers' = buffers /\ io_size' = io_size /\ BufferSet' = BufferSet
    BY <1>1, Resources
  <1>3. CacheTypeOK' /\ AgreesWithDriver' /\ DriverHolds' = DriverHolds
    BY <1>1 DEF CachedInv, CacheTypeOK, DriverTypeOK, AgreesWithDriver, DriverHolds
  <1>4. pc \in RunCalls => initialized
    BY RunFacts
  <1>5. SessionInv'
    <2>1. DriverHolds' \subseteq BufferSet
      BY <1>3 DEF CachedInv, SessionInv, FieldsTell
    <2>2. initialized \/ DriverHolds' = {}
      <3>1. ASSUME ~initialized PROVE DriverHolds = {}
        BY <1>4, <3>1 DEF CachedInv, SessionInv, StageTells, FieldsTell, Idle
      <3> QED BY <1>3, <3>1
    <2>3. pc' \notin SessionCalls
      BY <1>1 DEF SessionCalls
    <2> QED BY <1>1, <1>3, <1>4, <2>1, <2>2, <2>3, StepWithin DEF CachedInv, CacheTypeOK
  <1>6. EntriesAreFirstBuffers'
    BY <1>1, <1>2 DEF CachedInv, EntriesAreFirstBuffers, Known
  <1>7. BuffersCounted'
    BY <1>1, <1>2 DEF CachedInv, BuffersCounted
  <1>8. OnlyBufferInUsePinned'
    BY <1>1 DEF OnlyBufferInUsePinned
  <1>9. RunCounted'
    BY <1>1 DEF CachedInv, RunCounted, RunCalls
  <1>10. MetricsInv'
    BY DEF CachedInv, MetricsInv
  <1>11. MetricsExplainRun'
    BY <1>1, <1>10 DEF MetricsExplainRun, MetricsInv
  <1> QED BY <1>3, <1>5, <1>6, <1>7, <1>8, <1>9, <1>10, <1>11 DEF CachedInv

\* An acquire that fails leaves everything as it is.
LEMMA AcquireFailsStep ==
    ASSUME CachedInv, pc = "acquire", AcquireFails(DevPtr, io_size), Refuse, UNCHANGED runVars
    PROVE  CachedInv'
  <1>1. UNCHANGED cacheVars
    BY AcquireCases DEF AcquireFails, AcquireRefused, cacheVars
  <1>2. UNCHANGED <<buffer_count, i, iterations, before, metrics>>
    BY DEF runVars
  <1>3. \A p \in DOMAIN entries : entries[p].ref_count = 0
    BY AcquireCases
  <1> QED BY <1>1, <1>2, <1>3, RefusedStep DEF RunCalls
-----------------------------------------------------------------------------
\* The buffer of an iteration can be released, and is then free again.
LEMMA ReleasedBuffer ==
    ASSUME CachedInv, pc \in {"io", "release"}, ReleaseSucceeds(DevPtr) \/ ReleaseFails(DevPtr)
    PROVE  /\ ReleaseSucceeds(DevPtr)
           /\ CacheTypeOK' /\ AgreesWithDriver'
           /\ driver' = driver /\ stats' = stats /\ DOMAIN entries' = DOMAIN entries
           /\ \A p \in DOMAIN entries :
                  /\ entries'[p].registered = entries[p].registered
                  /\ entries'[p].length = entries[p].length
                  /\ entries'[p].ref_count = 0
  <1>1. /\ DevPtr \in DOMAIN entries /\ entries[DevPtr].ref_count = 1
        /\ \A p \in DOMAIN entries \ {DevPtr} : entries[p].ref_count = 0
    BY DEF CachedInv, OnlyBufferInUsePinned, IsRegistered, RegisteredEntries
  <1>2. ReleaseSucceeds(DevPtr)
    BY <1>1 DEF ReleaseFails
  <1>3. DevPtr \in Ptrs
    BY BufferOfIteration DEF RunCalls
  <1>4. CacheTypeOK' /\ AgreesWithDriver'
    BY <1>2, <1>3, ReleaseType, ReleaseAgrees DEF CachedInv
  <1>5. /\ driver' = driver /\ stats' = stats /\ DOMAIN entries' = DOMAIN entries
        /\ entries'[DevPtr] = [entries[DevPtr] EXCEPT !.ref_count = @ - 1,
                                                      !.last_used_time = now]
        /\ \A p \in DOMAIN entries \ {DevPtr} : entries'[p] = entries[p]
    BY <1>1, <1>2 DEF ReleaseSucceeds, Put
  <1>6. /\ entries'[DevPtr].registered = entries[DevPtr].registered
        /\ entries'[DevPtr].length = entries[DevPtr].length
        /\ entries'[DevPtr].ref_count = 0
    <2>1. entries[DevPtr] \in CacheEntry
      BY <1>1, EntryFields DEF CachedInv
    <2> DEFINE e == entries[DevPtr]
    <2>2. e \in CacheEntry /\ e.ref_count = 1 /\ entries'[DevPtr]
              = [e EXCEPT !.ref_count = @ - 1, !.last_used_time = now]
      BY <1>1, <1>5, <2>1
    <2> HIDE DEF e
    <2>3. /\ entries'[DevPtr].registered = e.registered
          /\ entries'[DevPtr].length = e.length
          /\ entries'[DevPtr].ref_count = e.ref_count - 1
      BY <2>2 DEF CacheEntry
    <2> QED BY <2>2, <2>3 DEF e
  <1> QED BY <1>1, <1>2, <1>4, <1>5, <1>6

\* The I/O transferred everything: its buffer stays in use until it is released.
LEMMA TransferredStep ==
    ASSUME CachedInv, pc = "io", GoTo("release"), UNCHANGED <<cacheVars, runVars>>
    PROVE  CachedInv'
  <1>1. /\ pc \in RunCalls /\ pc' = "release" /\ pc' \in RunCalls
        /\ buffer_count' = buffer_count /\ i' = i /\ iterations' = iterations
        /\ before' = before /\ metrics' = metrics
        /\ driver' = driver /\ entries' = entries /\ stats' = stats /\ now' = now
    BY DEF RunCalls, GoTo, runVars, cacheVars
  <1>2. CacheTypeOK' /\ AgreesWithDriver' /\ DriverHolds' \subseteq BufferSet
    BY <1>1 DEF CachedInv, CacheTypeOK, DriverTypeOK, AgreesWithDriver, DriverHolds,
                SessionInv, FieldsTell
  <1>3. /\ SessionInv' /\ BuffersCounted' /\ MetricsInv' /\ MetricsExplainRun'
        /\ buffers' = buffers /\ io_size' = io_size /\ initialized' = initialized
    BY <1>1, <1>2, RunKeeps
  <1>4. Known' = Known /\ DevPtr' = DevPtr /\ Missed' = Missed
    BY <1>1, <1>3 DEF Known, DevPtr, Missed, Touched
  <1>5. EntriesAreFirstBuffers'
    BY <1>1, <1>3, <1>4 DEF CachedInv, EntriesAreFirstBuffers
  <1>6. OnlyBufferInUsePinned'
    BY <1>1, <1>3, <1>4 DEF CachedInv, OnlyBufferInUsePinned, IsRegistered, RegisteredEntries
  <1>7. RunCounted'
    BY <1>1, <1>4, Zenon DEF CachedInv, RunCounted
  <1> QED BY <1>2, <1>3, <1>5, <1>6, <1>7 DEF CachedInv

\* The I/O failed: its buffer is released and the run is over.
LEMMA IoFailsStep ==
    ASSUME CachedInv, pc = "io", ReleaseSucceeds(DevPtr), Refuse,
           UNCHANGED <<buffer_count, i, iterations, before, metrics>>
    PROVE  CachedInv'
  <1>1. /\ pc \in RunCalls /\ pc' = "idle"
        /\ buffer_count' = buffer_count /\ i' = i /\ iterations' = iterations
    BY DEF RunCalls, Refuse
  <1>2. /\ CacheTypeOK' /\ AgreesWithDriver'
        /\ driver' = driver /\ stats' = stats /\ DOMAIN entries' = DOMAIN entries
        /\ \A p \in DOMAIN entries :
               /\ entries'[p].registered = entries[p].registered
               /\ entries'[p].length = entries[p].length
               /\ entries'[p].ref_count = 0
    BY ReleasedBuffer
  <1>3. DriverHolds' \subseteq BufferSet
    BY <1>2 DEF CachedInv, SessionInv, FieldsTell, DriverHolds
  <1>4. /\ SessionInv' /\ BuffersCounted' /\ MetricsInv' /\ MetricsExplainRun'
        /\ buffers' = buffers /\ io_size' = io_size /\ initialized' = initialized
    BY <1>1, <1>2, <1>3, RunKeeps
  <1>5. EntriesAreFirstBuffers'
    BY <1>2, <1>4 DEF CachedInv, EntriesAreFirstBuffers, Known
  <1>6. OnlyBufferInUsePinned'
    BY <1>1, <1>2 DEF OnlyBufferInUsePinned
  <1>7. RunCounted'
    BY <1>1 DEF CachedInv, RunCounted, RunCalls
  <1> QED BY <1>2, <1>4, <1>5, <1>6, <1>7 DEF CachedInv

\* The iteration is over: the next one follows, or the run is done.
LEMMA ReleasedStep ==
    ASSUME CachedInv, pc = "release", ReleaseSucceeds(DevPtr), i' = i + 1,
           GoTo(IF i' < iterations THEN "acquire" ELSE "finish"),
           UNCHANGED <<buffer_count, iterations, before, metrics>>
    PROVE  CachedInv'
  <1>1. /\ pc \in RunCalls /\ pc' \in RunCalls /\ GoTo(pc') /\ pc' \in {"acquire", "finish"}
        /\ pc' = IF i' < iterations THEN "acquire" ELSE "finish"
        /\ buffer_count' = buffer_count /\ iterations' = iterations /\ before' = before
    BY DEF RunCalls, GoTo
  <1>2. /\ CacheTypeOK' /\ AgreesWithDriver'
        /\ driver' = driver /\ stats' = stats /\ DOMAIN entries' = DOMAIN entries
        /\ \A p \in DOMAIN entries :
               /\ entries'[p].registered = entries[p].registered
               /\ entries'[p].length = entries[p].length
               /\ entries'[p].ref_count = 0
    BY ReleasedBuffer
  <1>3. DriverHolds' \subseteq BufferSet
    BY <1>2 DEF CachedInv, SessionInv, FieldsTell, DriverHolds
  <1>4. /\ SessionInv' /\ BuffersCounted' /\ MetricsInv' /\ MetricsExplainRun'
        /\ buffers' = buffers /\ io_size' = io_size /\ initialized' = initialized
    BY <1>1, <1>2, <1>3, RunKeeps
  <1>5. Known' = Known /\ Missed' = Missed
    BY <1>1, <1>2 DEF Known, Missed, Touched
  <1>6. EntriesAreFirstBuffers'
    BY <1>2, <1>4, <1>5 DEF CachedInv, EntriesAreFirstBuffers
  <1>7. OnlyBufferInUsePinned'
    BY <1>1, <1>2 DEF OnlyBufferInUsePinned
  <1>8. RunCounted'
    <2>1. i \in 0 .. iterations /\ i < iterations /\ iterations \in Nat
      BY <1>1, SessionAssumption DEF CachedInv, RunCounted
    <2>2. /\ i' \in 0 .. iterations' /\ (i' < iterations' \/ pc' = "finish")
          /\ pc' = "finish" => i' = iterations'
      BY <1>1, <2>1
    <2>3. /\ before'.entry_count \in Nat /\ Known' = before'.entry_count + Missed'
          /\ before'.hit_count \in Nat /\ before'.miss_count \in Nat
          /\ before'.register_count \in Nat /\ before'.deregister_count \in Nat
          /\ stats'.miss_count = before'.miss_count + Missed'
          /\ stats'.hit_count + stats'.miss_count = before'.hit_count + before'.miss_count + i'
          /\ stats'.register_count = before'.register_count + Missed'
          /\ stats'.deregister_count = before'.deregister_count
      BY <1>1, <1>2, <1>5, Zenon DEF CachedInv, RunCounted
    <2>4. iterations' \in RunLengths \cup {0}
      BY <1>1 DEF CachedInv, RunCounted
    <2> QED BY <1>1, <2>2, <2>3, <2>4 DEF RunCounted
  <1> QED BY <1>2, <1>4, <1>6, <1>7, <1>8 DEF CachedInv

\* The run is done: the counters it reports are those of its iterations.
LEMMA FinishRunStep ==
    ASSUME CachedInv, FinishRun
    PROVE  CachedInv'
  <1>1. /\ pc = "finish" /\ pc \in RunCalls /\ pc' = "idle" /\ result' = "ok"
        /\ buffer_count' = buffer_count /\ i' = i /\ iterations' = iterations
        /\ before' = before /\ driver' = driver /\ entries' = entries /\ stats' = stats
        /\ now' = now
        /\ UNCHANGED <<resources, systemVars, asked, back, initialized>>
    BY DEF FinishRun, RunDone, RunCalls, cacheVars
  <1>2. buffers' = buffers /\ io_size' = io_size
    BY <1>1, Resources
  <1>3. i \in Nat /\ buffer_count \in Nat \ {0} /\ initialized
    BY <1>1, RunFacts
  <1>4. CacheTypeOK' /\ AgreesWithDriver' /\ DriverHolds' = DriverHolds
    BY <1>1 DEF CachedInv, CacheTypeOK, DriverTypeOK, AgreesWithDriver, DriverHolds
  <1>5. SessionInv'
    <2>1. DriverHolds' \subseteq BufferSet /\ pc' \notin SessionCalls
      BY <1>1, <1>4 DEF CachedInv, SessionInv, FieldsTell, SessionCalls
    <2> QED BY <1>1, <1>3, <1>4, <2>1, StepWithin DEF CachedInv, CacheTypeOK
  <1>6. EntriesAreFirstBuffers'
    BY <1>1, <1>2 DEF CachedInv, EntriesAreFirstBuffers, Known
  <1>7. BuffersCounted'
    BY <1>1, <1>2 DEF CachedInv, BuffersCounted
  <1>8. OnlyBufferInUsePinned'
    BY <1>1 DEF CachedInv, OnlyBufferInUsePinned
  <1>9. RunCounted'
    BY <1>1 DEF CachedInv, RunCounted, RunCalls
  <1>10. /\ i = iterations /\ before.entry_count \in Nat
         /\ stats.hit_count \in Nat /\ stats.miss_count \in Nat
         /\ stats.register_count \in Nat /\ stats.deregister_count \in Nat
         /\ before.hit_count \in Nat /\ before.miss_count \in Nat
         /\ before.register_count \in Nat /\ before.deregister_count \in Nat
         /\ stats.miss_count = before.miss_count + Missed
         /\ stats.hit_count + stats.miss_count = before.hit_count + before.miss_count + i
         /\ stats.register_count = before.register_count + Missed
         /\ stats.deregister_count = before.deregister_count
    BY <1>1 DEF CachedInv, RunCounted, CacheTypeOK, CacheStats
  <1> DEFINE touched == IF iterations < buffer_count THEN iterations ELSE buffer_count
  <1>11. /\ Missed = IF touched > before.entry_count THEN touched - before.entry_count ELSE 0
         /\ Missed \in Nat /\ Missed <= i
    <2>1. Touched = touched
      BY <1>1, <1>10 DEF Touched
    <2>2. Missed = IF touched > before.entry_count THEN touched - before.entry_count ELSE 0
      BY <2>1 DEF Missed
    <2> QED BY <1>3, <1>10, <2>2
  <1>12. metrics' = [iterations |-> iterations,
                     cache_hit |-> stats.hit_count - before.hit_count,
                     cache_miss |-> stats.miss_count - before.miss_count,
                     register_count |-> stats.register_count - before.register_count,
                     deregister_count |-> stats.deregister_count - before.deregister_count]
    BY DEF FinishRun, GetStats
  <1>13. /\ stats.hit_count - before.hit_count = i - Missed
         /\ stats.miss_count - before.miss_count = Missed
         /\ stats.register_count - before.register_count = Missed
         /\ stats.deregister_count - before.deregister_count = 0
    <2> DEFINE a == stats.hit_count
               b == stats.miss_count
               c == before.hit_count
               d == before.miss_count
               m == Missed
    <2>1. /\ a \in Nat /\ b \in Nat /\ c \in Nat /\ d \in Nat /\ m \in Nat
          /\ b = d + m /\ a + b = c + d + i
      BY <1>10, <1>11
    <2> HIDE DEF a, b, c, d, m
    <2>2. a - c = i - m /\ b - d = m
      BY <1>3, <2>1
    <2>3. stats.register_count - before.register_count = Missed
      BY <1>10, <1>11
    <2>4. stats.deregister_count - before.deregister_count = 0
      BY <1>10
    <2> QED BY <2>2, <2>3, <2>4, Zenon DEF a, b, c, d, m
  <1>14. metrics' = [iterations |-> i, cache_hit |-> i - Missed, cache_miss |-> Missed,
                     register_count |-> Missed, deregister_count |-> 0]
    BY <1>10, <1>12, <1>13, Zenon
  <1>15. MetricsInv'
    BY <1>3, <1>11, <1>14 DEF MetricsInv, NoMetrics
  <1>16. MetricsExplainRun'
    <2>1. metrics'.cache_miss
              = IF touched > before.entry_count THEN touched - before.entry_count ELSE 0
      BY <1>11, <1>14
    <2>2. touched' = touched /\ before'.entry_count = before.entry_count
      BY <1>1
    <2> QED BY <1>15, <2>1, <2>2 DEF MetricsExplainRun, MetricsInv
  <1> QED BY <1>4, <1>5, <1>6, <1>7, <1>8, <1>9, <1>15, <1>16 DEF CachedInv

\* A run begins: it has used no buffer yet.
LEMMA RunCallStep ==
    ASSUME CachedInv, NEW n \in RunLengths, RunCall(n)
    PROVE  CachedInv'
  <1>1. /\ Idle /\ initialized /\ n # 0 /\ pc' = "acquire" /\ pc = "idle"
        /\ buffer_count' = buffer_count /\ i' = 0 /\ iterations' = n
        /\ before' = GetStats /\ metrics' = metrics /\ result' = result
        /\ driver' = driver /\ entries' = entries /\ stats' = stats /\ now' = now
        /\ UNCHANGED <<resources, systemVars, asked, back, initialized>>
    BY DEF RunCall, GoTo, cacheVars, Idle
  <1>2. buffers' = buffers /\ io_size' = io_size
    BY <1>1, Resources
  <1>3. CacheTypeOK' /\ AgreesWithDriver' /\ DriverHolds' = DriverHolds
    BY <1>1 DEF CachedInv, CacheTypeOK, DriverTypeOK, AgreesWithDriver, DriverHolds
  <1>4. SessionInv'
    <2>1. DriverHolds' \subseteq BufferSet /\ pc' \notin SessionCalls
      BY <1>1, <1>3 DEF CachedInv, SessionInv, FieldsTell, SessionCalls
    <2>2. result' \in {"none", "ok", "failed"}
      BY <1>1, Fields DEF CachedInv, SessionInv
    <2> QED BY <1>1, <1>3, <2>1, <2>2, StepWithin DEF CachedInv, CacheTypeOK
  <1>5. EntriesAreFirstBuffers'
    BY <1>1, <1>2 DEF CachedInv, EntriesAreFirstBuffers, Known
  <1>6. BuffersCounted'
    BY <1>1, <1>2 DEF CachedInv, BuffersCounted
  <1>7. OnlyBufferInUsePinned'
    BY <1>1 DEF CachedInv, OnlyBufferInUsePinned
  <1>8. MetricsInv' /\ MetricsExplainRun'
    BY <1>1 DEF CachedInv, MetricsInv, MetricsExplainRun, Idle
  <1>9. IsFiniteSet(DOMAIN entries) /\ Known \in Nat
    BY PtrsAssumption, FS_Subset, FS_CardinalityType DEF CachedInv, CacheTypeOK, Known
  <1>10. /\ before'.entry_count = Known /\ before'.hit_count = stats.hit_count
         /\ before'.miss_count = stats.miss_count
         /\ before'.register_count = stats.register_count
         /\ before'.deregister_count = stats.deregister_count
    BY <1>1 DEF GetStats, Known
  <1>11. Missed' = 0 /\ Known' = Known
    <2>1. buffer_count \in Nat \ {0}
      BY DEF CachedInv, BuffersCounted
    <2>2. Touched' = 0
      BY <1>1, <2>1 DEF Touched
    <2> QED BY <1>1, <1>9, <1>10, <2>2 DEF Missed, Known
  <1>12. /\ stats.hit_count \in Nat /\ stats.miss_count \in Nat
         /\ stats.register_count \in Nat /\ stats.deregister_count \in Nat
    BY DEF CachedInv, CacheTypeOK, CacheStats
  <1>13. /\ Known' = before'.entry_count + Missed'
         /\ stats'.miss_count = before'.miss_count + Missed'
         /\ stats'.hit_count + stats'.miss_count = before'.hit_count + before'.miss_count + i'
         /\ stats'.register_count = before'.register_count + Missed'
         /\ stats'.deregister_count = before'.deregister_count
    BY <1>1, <1>9, <1>10, <1>11, <1>12
  <1>14. n \in Nat \ {0}
    BY <1>1, SessionAssumption
  <1>15. RunCounted'
    BY <1>1, <1>9, <1>10, <1>12, <1>13, <1>14 DEF RunCounted, RunCalls
  <1> QED BY <1>3, <1>4, <1>5, <1>6, <1>7, <1>8, <1>15 DEF CachedInv
-----------------------------------------------------------------------------
\* A step between calls of a runner that is not initialized: its cache is empty.
LEMMA ClosedStep ==
    ASSUME CachedInv, pc \notin RunCalls, ~initialized,
           SessionInv', ~initialized', pc' \in SessionCalls \cup {"idle"},
           UNCHANGED <<entries, stats, now, i, iterations, before, metrics>>,
           BuffersCounted'
    PROVE  CachedInv'
  <1>1. /\ entries' = entries /\ stats' = stats /\ now' = now /\ metrics' = metrics
        /\ i' = i /\ iterations' = iterations /\ DOMAIN entries = {} /\ Known = 0
    BY FS_EmptySet DEF CachedInv, EntriesAreFirstBuffers, Known
  <1>2. CacheTypeOK'
    BY <1>1 DEF CachedInv, CacheTypeOK, SessionInv, SessionTypeOK
  <1>3. AgreesWithDriver' /\ OnlyBufferInUsePinned'
    BY <1>1 DEF AgreesWithDriver, OnlyBufferInUsePinned, SessionCalls
  <1>4. EntriesAreFirstBuffers'
    <2>1. Len(buffers') \in Nat
      BY DEF SessionInv, SessionTypeOK
    <2>2. Known' = 0 /\ DOMAIN entries' = {}
      BY <1>1 DEF Known
    <2> QED BY <2>1, <2>2 DEF EntriesAreFirstBuffers
  <1>5. RunCounted'
    BY <1>1 DEF CachedInv, RunCounted, RunCalls, SessionCalls
  <1>6. MetricsInv'
    BY <1>1 DEF CachedInv, MetricsInv
  <1>7. MetricsExplainRun'
    BY <1>6 DEF MetricsExplainRun, MetricsInv
  <1> QED BY <1>2, <1>3, <1>4, <1>5, <1>6, <1>7 DEF CachedInv

\* The calls of init and cleanup are of a runner that is not initialized.
LEMMA InSessionCall ==
    ASSUME CachedInv, pc \in SessionCalls
    PROVE  ~initialized /\ pc \notin RunCalls
  BY DEF CachedInv, SessionInv, StageTells, SessionCalls, RunCalls

\* cleanup begins: the entries all go, and the registrations the driver gives up.
LEMMA StartCleanupStep ==
    ASSUME CachedInv, StartCleanup
    PROVE  CachedInv'
  <1>1. PICK gone \in SUBSET RegisteredEntries : ForceEvictAll(gone)
    BY DEF StartCleanup
  <1>2. /\ driver' = Deregistering(gone) /\ entries' = Restrict(entries, {})
        /\ stats' = [stats EXCEPT !.deregister_count = @ + Cardinality(gone)]
        /\ now' = now
        /\ buffer_count' = buffer_count /\ i' = i /\ iterations' = iterations
        /\ before' = before /\ metrics' = metrics
    BY <1>1 DEF ForceEvictAll, StartCleanup, runVars
  <1>3. gone \in SUBSET Ptrs
    BY DEF RegisteredEntries, CachedInv, CacheTypeOK
  <1>4. CacheTypeOK' /\ AgreesWithDriver'
    <2>1. CacheTypeOK'
      BY <1>2, <1>3, EvictType DEF CachedInv
    <2>2. AgreesWithDriver'
      BY <1>2, EvictAgrees DEF CachedInv
    <2> QED BY <2>1, <2>2
  <1>5. DriverHolds' \subseteq DriverHolds /\ DriverTypeOK'
    BY <1>2, <1>4, HoldsAfterDeregistering DEF CachedInv, CacheTypeOK, DriverTypeOK
  <1>6. (\E size \in Sizes, read \in BOOLEAN : InitCall(size, read)) \/ CleanupCall \/ CallFails
    BY DEF StartCleanup
  <1>7. SessionInv' /\ pc' = "teardown" /\ ~initialized'
    BY <1>5, <1>6, CleanupBegins DEF CachedInv
  <1>8. buffers' = buffers
    BY <1>6 DEF InitCall, CleanupCall, CallFails, Abort, resources
  <1>9. DOMAIN entries' = {} /\ Known' = 0
    <2>1. DOMAIN entries' = {}
      BY <1>2, RestrictMap
    <2> QED BY <2>1, FS_EmptySet DEF Known
  <1>10. EntriesAreFirstBuffers'
    <2>1. Len(buffers') \in Nat
      BY <1>7 DEF SessionInv, SessionTypeOK
    <2> QED BY <1>9, <2>1 DEF EntriesAreFirstBuffers
  <1>11. BuffersCounted'
    BY <1>2, <1>7, <1>8 DEF CachedInv, BuffersCounted
  <1>12. OnlyBufferInUsePinned'
    BY <1>7, <1>9 DEF OnlyBufferInUsePinned
  <1>13. RunCounted'
    BY <1>2, <1>7 DEF CachedInv, RunCounted, SessionCalls, RunCalls
  <1>14. MetricsInv' /\ MetricsExplainRun'
    BY <1>2, <1>7 DEF CachedInv, MetricsInv, MetricsExplainRun, Idle
  <1> QED BY <1>4, <1>7, <1>10, <1>11, <1>12, <1>13, <1>14 DEF CachedInv

\* The calls of cleanup and init that the runners share.
LEMMA SharedCallStep ==
    ASSUME CachedInv, SharedStep
    PROVE  CachedInv'
  <1>1. /\ entries' = entries /\ stats' = stats /\ now' = now
        /\ buffer_count' = buffer_count /\ i' = i /\ iterations' = iterations
        /\ before' = before /\ metrics' = metrics
    BY DEF SharedStep, runVars
  <1>2. buffer_count \in Nat \ {0} /\ Len(buffers) <= buffer_count /\ SessionInv
    BY DEF CachedInv, BuffersCounted
  <1>3. ASSUME pc \in SessionCalls, SessionInv', initialized' = initialized,
               pc' \in SessionCalls \cup {"idle"}, BuffersCounted'
        PROVE  CachedInv'
    BY <1>1, <1>3, InSessionCall, ClosedStep
  <1>4. CASE CloseDriver
    <2>1. SessionInv' /\ pc' = "free"
      BY <1>2, <1>4, CloseDriverStep
    <2>2. pc = "teardown" /\ initialized' = initialized /\ buffers' = buffers
      BY <1>4 DEF CloseDriver
    <2>3. ~initialized
      BY <2>2, InSessionCall DEF SessionCalls
    <2>4. BuffersCounted'
      BY <1>1, <1>2, <2>1, <2>2, <2>3 DEF BuffersCounted
    <2> QED BY <1>3, <2>1, <2>2, <2>4 DEF SessionCalls
  <1>5. CASE FreeMemory
    <2>1. SessionInv' /\ ~initialized' /\ Len(buffers') = 0 /\ pc' \in {"open", "idle"}
      BY <1>2, <1>5, FreeMemoryStep
    <2>2. pc = "free" /\ initialized' = initialized
      BY <1>5 DEF FreeMemory
    <2>3. BuffersCounted'
      BY <1>1, <1>2, <2>1, <2>2 DEF BuffersCounted
    <2> QED BY <1>3, <2>1, <2>2, <2>3 DEF SessionCalls
  <1>6. CASE OpenFile /\ UNCHANGED driver
    <2>1. SessionInv' /\ pc' = "stat" /\ buffers' = buffers
      BY <1>2, <1>6, OpenFileStep
    <2>2. pc = "open" /\ initialized' = initialized
      BY <1>6 DEF OpenFile
    <2>3. ~initialized
      BY <2>2, InSessionCall DEF SessionCalls
    <2>4. BuffersCounted'
      BY <1>1, <1>2, <2>1, <2>2, <2>3 DEF BuffersCounted
    <2> QED BY <1>3, <2>1, <2>2, <2>4 DEF SessionCalls
  <1>7. CASE OpenFails /\ UNCHANGED driver
    <2>1. /\ pc = "open" /\ pc \in SessionCalls /\ pc \notin {"teardown"}
          /\ pc' = "idle" /\ pc' \notin SessionCalls /\ result' = "failed"
          /\ UNCHANGED <<resources, systemVars, asked, back, initialized>> /\ driver' = driver
      BY <1>7 DEF OpenFails, Refuse, SessionCalls
    <2>2. ~initialized /\ initialized' = initialized /\ buffers' = buffers
      BY <2>1, InSessionCall, Resources
    <2>3. DriverTypeOK' /\ DriverHolds' = {} /\ DriverHolds' \subseteq BufferSet
      <3>1. DriverHolds = {}
        BY <1>2, <2>1 DEF SessionInv, StageTells, FieldsTell
      <3> QED BY <1>2, <2>1, <3>1 DEF SessionInv, SessionTypeOK, DriverTypeOK, DriverHolds
    <2>4. SessionInv'
      BY <1>2, <2>1, <2>3, StepWithin
    <2>5. BuffersCounted'
      BY <1>1, <1>2, <2>1, <2>2 DEF BuffersCounted
    <2> QED BY <1>3, <2>1, <2>2, <2>4, <2>5
  <1>8. ASSUME NEW size \in FileSizes, Stat(size), UNCHANGED driver PROVE CachedInv'
    <2>1. SessionInv' /\ pc' = "malloc" /\ buffers' = <<>>
      BY <1>2, <1>8, StatStep
    <2>2. pc = "stat" /\ initialized' = initialized /\ Len(buffers') = 0
      BY <1>8, <2>1 DEF Stat
    <2>3. ~initialized
      BY <2>2, InSessionCall DEF SessionCalls
    <2>4. BuffersCounted'
      BY <1>1, <1>2, <2>1, <2>2, <2>3 DEF BuffersCounted
    <2> QED BY <1>3, <2>1, <2>2, <2>4 DEF SessionCalls
  <1>9. ASSUME NEW p \in Ptrs, AllocBuffer(p, buffer_count), UNCHANGED driver PROVE CachedInv'
    <2>1. /\ SessionInv' /\ pc = "malloc" /\ Len(buffers') = Len(buffers) + 1
          /\ pc' = IF Len(buffers) + 1 < buffer_count THEN "malloc" ELSE "driver"
      BY <1>2, <1>9, AllocBufferStep
    <2>2. initialized' = initialized
      BY <1>9 DEF AllocBuffer
    <2>3. ~initialized
      BY <2>1, InSessionCall DEF SessionCalls
    <2>4. BuffersCounted'
      <3>1. Len(buffers) < buffer_count /\ Len(buffers) \in Nat
        BY <1>2, <2>1, Fields DEF CachedInv, BuffersCounted, SessionInv
      <3> QED BY <1>1, <1>2, <2>1, <2>2, <2>3, <3>1 DEF BuffersCounted
    <2> QED BY <1>3, <2>1, <2>2, <2>4 DEF SessionCalls
  <1>10. CASE OpenDriver /\ UNCHANGED driver
    <2>1. SessionInv' /\ pc = "driver" /\ pc' = "handle" /\ buffers' = buffers
      BY <1>2, <1>10, OpenDriverStep
    <2>2. initialized' = initialized
      BY <1>10 DEF OpenDriver
    <2>3. BuffersCounted'
      BY <1>1, <2>1, <2>2 DEF CachedInv, BuffersCounted
    <2> QED BY <1>3, <2>1, <2>2, <2>3 DEF SessionCalls
  <1> QED BY <1>4, <1>5, <1>6, <1>7, <1>8, <1>9, <1>10 DEF SharedStep

\* The file handle is registered.
LEMMA FinishInitStep ==
    ASSUME CachedInv, FinishInit
    PROVE  CachedInv'
  <1>1. /\ entries' = entries /\ stats' = stats /\ now' = now /\ driver' = driver
        /\ buffer_count' = buffer_count /\ i' = i /\ iterations' = iterations
        /\ before' = before /\ metrics' = metrics
    BY DEF FinishInit, cacheVars, runVars
  <1>2. SessionInv' /\ pc = "handle" /\ pc' = "ready" /\ buffers' = buffers
    BY <1>1, RegisterHandleStep DEF CachedInv, FinishInit
  <1>3. initialized' = initialized /\ ~initialized /\ pc \notin RunCalls
    BY <1>2, InSessionCall DEF FinishInit, RegisterHandle, SessionCalls
  <1>4. BuffersCounted'
    BY <1>1, <1>2, <1>3 DEF CachedInv, BuffersCounted
  <1> QED BY <1>1, <1>2, <1>3, <1>4, ClosedStep DEF SessionCalls

\* init is done: the cache is empty, and all the buffers are there.
LEMMA ReadyStep ==
    ASSUME CachedInv, Ready
    PROVE  CachedInv'
  <1>1. /\ entries' = entries /\ stats' = stats /\ now' = now /\ driver' = driver
        /\ buffer_count' = buffer_count /\ i' = i /\ iterations' = iterations
        /\ before' = before /\ metrics' = NoMetrics /\ pc = "ready" /\ InitDone
    BY DEF Ready, cacheVars
  <1>2. SessionInv' /\ Idle' /\ initialized' /\ buffers' = buffers
    BY <1>1, InitDoneStep DEF CachedInv
  <1>3. ~initialized /\ DOMAIN entries = {} /\ Known = 0
    BY <1>1, InSessionCall, FS_EmptySet
       DEF SessionCalls, CachedInv, EntriesAreFirstBuffers, Known
  <1>4. CacheTypeOK' /\ AgreesWithDriver'
    BY <1>1 DEF CachedInv, CacheTypeOK, DriverTypeOK, AgreesWithDriver
  <1>5. EntriesAreFirstBuffers'
    <2>1. Len(buffers') \in Nat
      BY <1>2 DEF SessionInv, SessionTypeOK
    <2>2. Known' = 0 /\ DOMAIN entries' = {}
      BY <1>1, <1>3 DEF Known
    <2> QED BY <2>1, <2>2 DEF EntriesAreFirstBuffers
  <1>6. BuffersCounted'
    BY <1>1, <1>2 DEF CachedInv, BuffersCounted, Idle
  <1>7. OnlyBufferInUsePinned'
    BY <1>1, <1>2, <1>3 DEF OnlyBufferInUsePinned, Idle
  <1>8. RunCounted'
    BY <1>1, <1>2 DEF CachedInv, RunCounted, RunCalls, Idle
  <1>9. MetricsInv' /\ MetricsExplainRun'
    BY <1>1 DEF NoMetrics, MetricsInv, MetricsExplainRun
  <1> QED BY <1>2, <1>4, <1>5, <1>6, <1>7, <1>8, <1>9 DEF CachedInv

\* The number of buffers changes only while there are none.
LEMMA SetBufferCountStep ==
    ASSUME CachedInv, NEW count \in BufferCounts, SetBufferCount(count)
    PROVE  CachedInv'
  <1>1. /\ pc = "idle" /\ ~initialized /\ pc \notin RunCalls
        /\ buffer_count' = IF count = 0 THEN 1 ELSE count
        /\ UNCHANGED <<driver, entries, stats, now, i, iterations, before, metrics>>
        /\ UNCHANGED <<systemVars, sessionVars>>
    BY DEF SetBufferCount, Idle, cacheVars, RunCalls
  <1>2. /\ pc' = pc /\ result' = result /\ initialized' = initialized
        /\ UNCHANGED <<resources, systemVars, asked, back>> /\ buffers' = buffers
        /\ driver' = driver
    BY <1>1 DEF sessionVars, resources
  <1>3. buffers = <<>> /\ DriverHolds = {}
    BY <1>1 DEF CachedInv, SessionInv, StageTells, FieldsTell, Idle
  <1>4. SessionInv'
    <2>1. pc' \notin SessionCalls /\ result' \in {"none", "ok", "failed"}
      BY <1>1, <1>2, Fields DEF SessionCalls, CachedInv, SessionInv
    <2>2. DriverTypeOK' /\ DriverHolds' = {} /\ DriverHolds' \subseteq BufferSet
      BY <1>2, <1>3 DEF CachedInv, SessionInv, SessionTypeOK, DriverTypeOK, DriverHolds
    <2> QED BY <1>1, <1>2, <2>1, <2>2, StepWithin DEF CachedInv
  <1>5. BuffersCounted'
    <2>1. buffer_count' \in Nat \ {0}
      BY <1>1, RunnerAssumption
    <2> QED BY <1>1, <1>2, <1>3, <2>1 DEF BuffersCounted
  <1> QED BY <1>1, <1>2, <1>4, <1>5, ClosedStep
-----------------------------------------------------------------------------
LEMMA CachedInitHolds == Init => CachedInv
  <1> SUFFICES ASSUME Init PROVE CachedInv
    OBVIOUS
  <1>1. SessionInv
    BY SessionInitHolds DEF Init
  <1>2. CacheTypeOK /\ AgreesWithDriver
    BY InitType, InitAgrees DEF Init
  <1>3. /\ DOMAIN entries = {} /\ Known = 0 /\ buffers = <<>> /\ Len(buffers) = 0
        /\ pc = "idle" /\ initialized = FALSE
    BY RestrictMap, FS_EmptySet DEF Init, CacheInit, Known, SessionInit
  <1>4. EntriesAreFirstBuffers
    BY <1>3 DEF EntriesAreFirstBuffers
  <1>5. BuffersCounted
    BY <1>3 DEF BuffersCounted, Init
  <1>6. OnlyBufferInUsePinned
    BY <1>3 DEF OnlyBufferInUsePinned
  <1>7. RunCounted
    BY <1>3 DEF RunCounted, Init, RunCalls
  <1>8. MetricsInv /\ MetricsExplainRun
    BY <1>3 DEF MetricsInv, MetricsExplainRun, NoMetrics, Init
  <1> QED BY <1>1, <1>2, <1>4, <1>5, <1>6, <1>7, <1>8 DEF CachedInv

\* Every step keeps the invariant.
LEMMA CachedStep == CachedInv /\ [Next]_vars => CachedInv'
  <1> SUFFICES ASSUME CachedInv, [Next]_vars PROVE CachedInv'
    OBVIOUS
  <1>1. CASE StartCleanup
    BY <1>1, StartCleanupStep
  <1>2. CASE SharedStep
    BY <1>2, SharedCallStep
  <1>3. CASE FinishInit
    BY <1>3, FinishInitStep
  <1>4. CASE Ready
    BY <1>4, ReadyStep
  <1>5. CASE AcquireBuffer
    <2>1. pc = "acquire" /\ UNCHANGED runVars
      BY <1>5 DEF AcquireBuffer
    <2>2. CASE AcquireSucceeds(DevPtr, io_size) /\ GoTo("io")
      <3>1. CASE DevPtr \in DOMAIN entries
        BY <2>1, <2>2, <3>1, UseAgain
      <3>2. CASE DevPtr \notin DOMAIN entries
        BY <2>1, <2>2, <3>2, FirstUse
      <3> QED BY <3>1, <3>2
    <2>3. CASE AcquireFails(DevPtr, io_size) /\ Refuse
      BY <2>1, <2>3, AcquireFailsStep
    <2> QED BY <1>5, <2>2, <2>3 DEF AcquireBuffer
  <1>6. CASE DoIo
    <2>1. /\ pc = "io" /\ UNCHANGED runVars
          /\ UNCHANGED <<buffer_count, i, iterations, before, metrics>>
      BY <1>6 DEF DoIo, runVars
    <2>2. CASE GoTo("release") /\ UNCHANGED cacheVars
      BY <2>1, <2>2, TransferredStep
    <2>3. CASE (ReleaseSucceeds(DevPtr) \/ ReleaseFails(DevPtr)) /\ Refuse
      <3>1. ReleaseSucceeds(DevPtr)
        BY <2>1, <2>3, ReleasedBuffer
      <3> QED BY <2>1, <2>3, <3>1, IoFailsStep
    <2> QED BY <1>6, <2>2, <2>3 DEF DoIo
  <1>7. CASE ReleaseBuffer
    <2>1. pc = "release" /\ UNCHANGED <<buffer_count, iterations, before, metrics>>
      BY <1>7 DEF ReleaseBuffer
    <2>2. ReleaseSucceeds(DevPtr)
      BY <1>7, <2>1, ReleasedBuffer DEF ReleaseBuffer
    <2>3. ~ReleaseFails(DevPtr)
      BY <2>2 DEF ReleaseSucceeds, ReleaseFails
    <2>4. i' = i + 1 /\ GoTo(IF i' < iterations THEN "acquire" ELSE "finish")
      BY <1>7, <2>3 DEF ReleaseBuffer
    <2> QED BY <2>1, <2>2, <2>4, ReleasedStep
  <1>8. CASE FinishRun
    BY <1>8, FinishRunStep
  <1>9. ASSUME NEW count \in BufferCounts, SetBufferCount(count) PROVE CachedInv'
    BY <1>9, SetBufferCountStep
  <1>10. ASSUME NEW n \in RunLengths, RunCall(n) PROVE CachedInv'
    BY <1>10, RunCallStep
  <1>11. ASSUME NEW n \in RunLengths, RunRefused(n) PROVE CachedInv'
    <2>1. /\ pc = "idle" /\ Refuse
          /\ UNCHANGED <<cacheVars, buffer_count, i, iterations, before, metrics>>
      BY <1>11 DEF RunRefused, Idle, runVars
    <2>2. \A p \in DOMAIN entries : entries[p].ref_count = 0
      BY <2>1 DEF CachedInv, OnlyBufferInUsePinned
    <2> QED BY <2>1, <2>2, RefusedStep
  <1>12. CASE UNCHANGED vars
    <2>1. /\ UNCHANGED <<driver, entries, stats, now>> /\ UNCHANGED systemVars
          /\ UNCHANGED <<pc, back, asked, result, initialized, resources>>
          /\ UNCHANGED <<buffer_count, i, iterations, before, metrics>>
      BY <1>12 DEF vars, cacheVars, sessionVars, resources, runVars
    <2>2. /\ buffers' = buffers /\ io_size' = io_size /\ fd' = fd /\ opened' = opened
          /\ handle' = handle /\ file_size' = file_size /\ is_read' = is_read
          /\ files' = files /\ sessions' = sessions /\ handles' = handles
          /\ allocated' = allocated /\ BufferSet' = BufferSet
      BY <2>1, Resources
    <2>3. SessionInv'
      <3>1. SessionTypeOK'
        BY <2>1, <2>2 DEF CachedInv, SessionInv, SessionTypeOK, SystemTypeOK, DriverTypeOK
      <3>2. FieldsTell' /\ StageTells'
        BY <2>1, <2>2 DEF CachedInv, SessionInv, FieldsTell, StageTells, Idle, DriverHolds
      <3> QED BY <3>1, <3>2 DEF SessionInv
    <2>4. CacheTypeOK' /\ AgreesWithDriver'
      BY <2>1 DEF CachedInv, CacheTypeOK, DriverTypeOK, AgreesWithDriver
    <2>5. EntriesAreFirstBuffers' /\ BuffersCounted' /\ OnlyBufferInUsePinned'
      BY <2>1, <2>2
         DEF CachedInv, EntriesAreFirstBuffers, BuffersCounted, OnlyBufferInUsePinned,
             Known, DevPtr, IsRegistered, RegisteredEntries
    <2>6. RunCounted' /\ MetricsInv' /\ MetricsExplainRun'
      BY <2>1, <2>2
         DEF CachedInv, RunCounted, MetricsInv, MetricsExplainRun, Known, Missed, Touched, Idle
    <2> QED BY <2>3, <2>4, <2>5, <2>6 DEF CachedInv
  <1> QED BY <1>1, <1>2, <1>3, <1>4, <1>5, <1>6, <1>7, <1>8, <1>9, <1>10, <1>11, <1>12
          DEF Next, InCall, Call

LEMMA CachedInductive == Spec => []CachedInv
  BY CachedInitHolds, CachedStep, PTL DEF Spec

\* The fields of the runner and of its cache keep their types: the buffer count
\* is never zero and the loop never passes its end.
THEOREM CachedTypes == Spec => []RunnerTypeOK
  <1>1. CachedInv => RunnerTypeOK
    BY DEF CachedInv, SessionInv, BuffersCounted, RunCounted, MetricsInv, RunnerTypeOK,
           SessionCalls, RunCalls
  <1> QED BY <1>1, CachedInductive, PTL

\* Nothing of what CachedGDSRunner acquires is leaked, whichever call fails, and
\* its buffers and its session outlive the registrations.
THEOREM CachedResources == Spec => []ResourcesInOrder
  <1>1. CachedInv => ResourcesInOrder
    BY SessionInOrder DEF CachedInv
  <1> QED BY <1>1, CachedInductive, PTL

\* The buffer of an I/O is registered with its size while it is in use, and is
\* the only one that is referenced.
THEOREM CachedPins == Spec => []OnlyBufferInUsePinned
  <1>1. CachedInv => OnlyBufferInUsePinned
    BY DEF CachedInv
  <1> QED BY <1>1, CachedInductive, PTL

\* The metrics of a run account for its iterations, and its misses are the
\* buffers it was the first to use since init.
THEOREM CachedMetrics == Spec => []MetricsExplainRun
  <1>1. CachedInv => MetricsExplainRun
    BY DEF CachedInv
  <1> QED BY <1>1, CachedInductive, PTL
-----------------------------------------------------------------------------
\* The NaiveGDSRunner has one buffer when init is done.
OneBuffer ==
    /\ pc = "malloc" => Len(buffers) = 0
    /\ initialized \/ pc \in {"driver", "handle", "ready"} => Len(buffers) = 1

InIteration == {"io", "deregister"}

\* The registrations, and what the metrics count of them.
PerIteration ==
    /\ pc \in SessionCalls \cup InIteration \cup {"register", "finish", "idle"}
    /\ initialized =>
           /\ pc \in InIteration => DriverHolds # {} /\ driver[buffers[1]] = io_size
           /\ pc \notin InIteration => (DriverHolds # {} <=> refused > 0)
           /\ refused > 0 => pc \in {"idle", "register"}
    /\ refused \in Nat
    /\ metrics \in [DOMAIN NoNaiveMetrics -> Nat] /\ iterations \in Nat
    /\ refused = 0 => metrics.register_count
                          = metrics.deregister_count + One(pc \in InIteration)

NaiveInv == SessionInv /\ OneBuffer /\ PerIteration

\* The buffer of every iteration.
LEMMA TheBuffer ==
    ASSUME NaiveInv, initialized
    PROVE  /\ buffers[1] \in Ptrs /\ BufferSet = {buffers[1]} /\ io_size \in Nat \ {0}
           /\ DriverHolds \in {{}, {buffers[1]}} /\ opened
           /\ AcceptsRegister(buffers[1]) <=> DriverHolds = {}
           /\ AcceptsDeregister(buffers[1]) <=> DriverHolds # {}
  <1>1. buffers \in Seq(Ptrs) /\ Len(buffers) = 1
    BY Fields DEF NaiveInv, SessionInv, OneBuffer
  <1>2. buffers[1] \in Ptrs /\ BufferSet = {buffers[1]}
    BY <1>1 DEF BufferSet
  <1>3. io_size \in Nat \ {0} /\ opened
    BY SessionAssumption DEF NaiveInv, SessionInv, SessionTypeOK, StageTells
  <1>4. DriverHolds \in {{}, {buffers[1]}}
    BY <1>2 DEF NaiveInv, SessionInv, FieldsTell
  <1> QED BY <1>2, <1>3, <1>4 DEF AcceptsRegister, AcceptsDeregister

\* The driver after the buffer is registered, or deregistered.
LEMMA BufferRegistered ==
    ASSUME NaiveInv, initialized, driver' = Registering(buffers[1], io_size)
    PROVE  driver' \in [Ptrs -> Nat] /\ DriverHolds' = {buffers[1]} /\ driver'[buffers[1]] = io_size
  <1>1. /\ buffers[1] \in Ptrs /\ io_size \in Nat \ {0} /\ DriverHolds \in {{}, {buffers[1]}}
    BY TheBuffer
  <1>2. DriverTypeOK
    BY DEF NaiveInv, SessionInv, SessionTypeOK
  <1>3. /\ driver'[buffers[1]] = io_size
        /\ \A q \in Ptrs \ {buffers[1]} : driver'[q] = driver[q]
    BY <1>1, <1>2, DriverMap
  <1>4. driver' \in [Ptrs -> Nat]
    BY <1>1, <1>2, DriverType
  <1>5. DriverHolds' = {buffers[1]}
    BY <1>1, <1>3 DEF DriverHolds, Unregistered
  <1> QED BY <1>3, <1>4, <1>5

LEMMA BufferDeregistered ==
    ASSUME NaiveInv, initialized, driver' = Deregistering({buffers[1]})
    PROVE  driver' \in [Ptrs -> Nat] /\ DriverHolds' = {}
  <1>1. driver \in [Ptrs -> Nat]
    BY Fields DEF NaiveInv, SessionInv
  <1>2. driver' \in [Ptrs -> Nat] /\ DriverHolds' = DriverHolds \ {buffers[1]}
    BY <1>1, HoldsAfterDeregistering
  <1> QED BY <1>2, TheBuffer

\* A step that touches no resource keeps the session's part.
LEMMA NaiveWithin ==
    ASSUME NaiveInv, initialized, pc \notin SessionCalls,
           GoTo(pc') \/ Refuse \/ RunDone,
           pc' \in InIteration \cup {"register", "finish", "idle"},
           driver' \in [Ptrs -> Nat], DriverHolds' \subseteq {buffers[1]}
    PROVE  SessionInv' /\ OneBuffer' /\ UNCHANGED <<initialized, buffers, io_size>>
  <1>1. UNCHANGED <<resources, systemVars, asked, back>> /\ initialized' = initialized
    BY DEF GoTo, Refuse, RunDone
  <1>2. result' \in {"none", "ok", "failed"}
    BY Fields DEF GoTo, Refuse, RunDone, NaiveInv, SessionInv
  <1>3. pc' \notin SessionCalls
    BY DEF SessionCalls, InIteration
  <1>4. DriverHolds' \subseteq BufferSet /\ DriverTypeOK'
    BY TheBuffer DEF DriverTypeOK
  <1>5. SessionInv'
    BY <1>1, <1>2, <1>3, <1>4, StepWithin DEF NaiveInv
  <1>6. buffers' = buffers /\ io_size' = io_size
    BY <1>1, Resources
  <1>7. OneBuffer'
    BY <1>1, <1>3, <1>6 DEF NaiveInv, OneBuffer, SessionCalls
  <1> QED BY <1>1, <1>5, <1>6, <1>7

\* The counters of the metrics, and how they count.
LEMMA NaiveCounters ==
    ASSUME NaiveInv
    PROVE  LET more == [metrics EXCEPT !.register_count = @ + 1]
               less == [metrics EXCEPT !.deregister_count = @ + 1]
               done == [metrics EXCEPT !.iterations = iterations]
           IN  /\ metrics.register_count \in Nat /\ metrics.deregister_count \in Nat
               /\ more \in [DOMAIN NoNaiveMetrics -> Nat]
               /\ more.register_count = metrics.register_count + 1
               /\ more.deregister_count = metrics.deregister_count
               /\ less \in [DOMAIN NoNaiveMetrics -> Nat]
               /\ less.register_count = metrics.register_count
               /\ less.deregister_count = metrics.deregister_count + 1
               /\ done \in [DOMAIN NoNaiveMetrics -> Nat]
               /\ done.register_count = metrics.register_count
               /\ done.deregister_count = metrics.deregister_count
  <1>1. /\ DOMAIN NoNaiveMetrics = {"iterations", "register_count", "deregister_count"}
        /\ metrics \in [DOMAIN NoNaiveMetrics -> Nat] /\ iterations \in Nat
    BY DEF NaiveInv, PerIteration, NoNaiveMetrics
  <1> QED BY <1>1
-----------------------------------------------------------------------------
\* What a step of a run gives.
LEMMA NaiveRunning ==
    ASSUME NaiveInv, pc \in InIteration \cup {"register", "finish"}
    PROVE  initialized /\ pc \notin SessionCalls /\ ~Idle
  BY DEF NaiveInv, SessionInv, StageTells, SessionCalls, InIteration, Idle

LEMMA NaiveRegisterStep ==
    ASSUME NaiveInv, RegisterBuffer
    PROVE  NaiveInv'
  <1>1. /\ pc = "register" /\ iterations' = iterations /\ refused' = refused
    BY DEF RegisterBuffer
  <1>2. initialized /\ pc \notin SessionCalls
    BY <1>1, NaiveRunning
  <1>3. CASE /\ AcceptsRegister(buffers[1])
             /\ driver' = Registering(buffers[1], io_size)
             /\ metrics' = [metrics EXCEPT !.register_count = @ + 1]
             /\ GoTo("io")
    <2>1. /\ DriverHolds' = {buffers[1]} /\ driver'[buffers[1]] = io_size
          /\ driver' \in [Ptrs -> Nat] /\ pc' = "io" /\ GoTo(pc')
      BY <1>2, <1>3, BufferRegistered DEF GoTo
    <2>2. SessionInv' /\ OneBuffer' /\ UNCHANGED <<initialized, buffers, io_size>>
      BY <1>2, <2>1, NaiveWithin DEF InIteration
    <2>3. refused = 0
      <3>1. ~(refused > 0)
        BY <1>1, <1>2, <1>3, TheBuffer DEF NaiveInv, PerIteration, InIteration
      <3> QED BY <3>1 DEF NaiveInv, PerIteration
    <2>4. /\ metrics' \in [DOMAIN NoNaiveMetrics -> Nat]
          /\ metrics'.register_count = metrics'.deregister_count + 1
      <3>1. metrics.register_count = metrics.deregister_count + 0
        BY <1>1, <2>3 DEF NaiveInv, PerIteration, One, InIteration
      <3> QED BY <1>3, <3>1, NaiveCounters
    <2>5. PerIteration'
      BY <1>1, <2>1, <2>2, <2>3, <2>4 DEF NaiveInv, PerIteration, One, InIteration
    <2> QED BY <2>2, <2>5 DEF NaiveInv
  <1>4. CASE Refuse /\ UNCHANGED <<driver, metrics>>
    <2>1. pc' = "idle" /\ driver' = driver /\ metrics' = metrics /\ DriverHolds' = DriverHolds
      BY <1>4 DEF Refuse, DriverHolds
    <2>2. driver' \in [Ptrs -> Nat] /\ DriverHolds' \subseteq {buffers[1]}
      BY <1>2, <2>1, Fields, TheBuffer DEF NaiveInv, SessionInv
    <2>3. SessionInv' /\ OneBuffer' /\ UNCHANGED <<initialized, buffers, io_size>>
      BY <1>2, <1>4, <2>1, <2>2, NaiveWithin
    <2>4. PerIteration'
      BY <1>1, <2>1, <2>3 DEF NaiveInv, PerIteration, One, InIteration
    <2> QED BY <2>3, <2>4 DEF NaiveInv
  <1> QED BY <1>3, <1>4 DEF RegisterBuffer

LEMMA NaiveIoStep ==
    ASSUME NaiveInv, NaiveIo
    PROVE  NaiveInv'
  <1>1. /\ pc = "io" /\ iterations' = iterations
    BY DEF NaiveIo
  <1>2. initialized /\ pc \notin SessionCalls
    BY <1>1, NaiveRunning DEF InIteration
  <1>3. refused = 0 /\ metrics.register_count = metrics.deregister_count + 1
    <2>1. refused = 0
      BY <1>1, <1>2 DEF NaiveInv, PerIteration
    <2> QED BY <1>1, <2>1 DEF NaiveInv, PerIteration, One, InIteration
  <1>4. CASE GoTo("deregister") /\ UNCHANGED <<driver, metrics, refused>>
    <2>1. /\ pc' = "deregister" /\ GoTo(pc') /\ driver' = driver /\ metrics' = metrics
          /\ refused' = refused /\ DriverHolds' = DriverHolds
      BY <1>4 DEF GoTo, DriverHolds
    <2>2. driver' \in [Ptrs -> Nat] /\ DriverHolds' \subseteq {buffers[1]}
      BY <1>2, <2>1, Fields, TheBuffer DEF NaiveInv, SessionInv
    <2>3. SessionInv' /\ OneBuffer' /\ UNCHANGED <<initialized, buffers, io_size>>
      BY <1>2, <2>1, <2>2, NaiveWithin DEF InIteration
    <2>4. PerIteration'
      BY <1>1, <1>2, <1>3, <2>1, <2>3 DEF NaiveInv, PerIteration, One, InIteration
    <2> QED BY <2>3, <2>4 DEF NaiveInv
  <1>5. CASE /\ Refuse
             /\ metrics' = [metrics EXCEPT !.deregister_count = @ + 1]
             /\ driver' = Deregistering({buffers[1]}) /\ UNCHANGED refused
    <2>1. pc' = "idle" /\ refused' = refused /\ DriverHolds' = {} /\ driver' \in [Ptrs -> Nat]
      BY <1>2, <1>5, BufferDeregistered DEF Refuse
    <2>2. SessionInv' /\ OneBuffer' /\ UNCHANGED <<initialized, buffers, io_size>>
      BY <1>2, <1>5, <2>1, NaiveWithin
    <2>3. /\ metrics' \in [DOMAIN NoNaiveMetrics -> Nat]
          /\ metrics'.register_count = metrics'.deregister_count + 0
      BY <1>3, <1>5, NaiveCounters
    <2>4. PerIteration'
      BY <1>1, <1>3, <2>1, <2>2, <2>3 DEF NaiveInv, PerIteration, One, InIteration
    <2> QED BY <2>2, <2>4 DEF NaiveInv
  <1>6. CASE /\ Refuse
             /\ metrics' = [metrics EXCEPT !.deregister_count = @ + 1]
             /\ refused' = refused + 1 /\ UNCHANGED driver
    <2>1. pc' = "idle" /\ refused' = 1 /\ driver' = driver /\ DriverHolds' = DriverHolds
      BY <1>3, <1>6 DEF Refuse, DriverHolds
    <2>2. /\ driver' \in [Ptrs -> Nat] /\ DriverHolds' \subseteq {buffers[1]}
          /\ DriverHolds # {}
      BY <1>1, <1>2, <2>1, Fields, TheBuffer DEF NaiveInv, SessionInv, PerIteration, InIteration
    <2>3. SessionInv' /\ OneBuffer' /\ UNCHANGED <<initialized, buffers, io_size>>
      BY <1>2, <1>6, <2>1, <2>2, NaiveWithin
    <2>4. metrics' \in [DOMAIN NoNaiveMetrics -> Nat]
      BY <1>6, NaiveCounters
    <2>5. PerIteration'
      BY <1>1, <2>1, <2>2, <2>3, <2>4 DEF NaiveInv, PerIteration, InIteration
    <2> QED BY <2>3, <2>5 DEF NaiveInv
  <1> QED BY <1>4, <1>5, <1>6 DEF NaiveIo

LEMMA NaiveDeregisterStep ==
    ASSUME NaiveInv, DeregisterBuffer
    PROVE  NaiveInv'
  <1>1. /\ pc = "deregister" /\ iterations' = iterations
    BY DEF DeregisterBuffer
  <1>2. initialized /\ pc \notin SessionCalls
    BY <1>1, NaiveRunning DEF InIteration
  <1>3. refused = 0 /\ metrics.register_count = metrics.deregister_count + 1
    <2>1. refused = 0
      BY <1>1, <1>2 DEF NaiveInv, PerIteration
    <2> QED BY <1>1, <2>1 DEF NaiveInv, PerIteration, One, InIteration
  <1>4. CASE /\ driver' = Deregistering({buffers[1]})
             /\ metrics' = [metrics EXCEPT !.deregister_count = @ + 1]
             /\ GoTo(IF i' < iterations THEN "register" ELSE "finish")
             /\ UNCHANGED refused
    <2>1. /\ pc' \in {"register", "finish"} /\ GoTo(pc') /\ refused' = refused
          /\ DriverHolds' = {} /\ driver' \in [Ptrs -> Nat]
      BY <1>2, <1>4, BufferDeregistered DEF GoTo
    <2>2. SessionInv' /\ OneBuffer' /\ UNCHANGED <<initialized, buffers, io_size>>
      BY <1>2, <2>1, NaiveWithin
    <2>3. /\ metrics' \in [DOMAIN NoNaiveMetrics -> Nat]
          /\ metrics'.register_count = metrics'.deregister_count + 0
      BY <1>3, <1>4, NaiveCounters
    <2>4. PerIteration'
      BY <1>1, <1>3, <2>1, <2>2, <2>3 DEF NaiveInv, PerIteration, One, InIteration
    <2> QED BY <2>2, <2>4 DEF NaiveInv
  <1>5. CASE Refuse /\ refused' = refused + 1 /\ UNCHANGED <<driver, metrics, i>>
    <2>1. /\ pc' = "idle" /\ refused' = 1 /\ driver' = driver /\ metrics' = metrics
          /\ DriverHolds' = DriverHolds
      BY <1>3, <1>5 DEF Refuse, DriverHolds
    <2>2. /\ driver' \in [Ptrs -> Nat] /\ DriverHolds' \subseteq {buffers[1]}
          /\ DriverHolds # {}
      BY <1>1, <1>2, <2>1, Fields, TheBuffer DEF NaiveInv, SessionInv, PerIteration, InIteration
    <2>3. SessionInv' /\ OneBuffer' /\ UNCHANGED <<initialized, buffers, io_size>>
      BY <1>2, <1>5, <2>1, <2>2, NaiveWithin
    <2>4. PerIteration'
      BY <1>1, <2>1, <2>2, <2>3 DEF NaiveInv, PerIteration, InIteration
    <2> QED BY <2>3, <2>4 DEF NaiveInv
  <1> QED BY <1>4, <1>5 DEF DeregisterBuffer

\* The run ends, or is called, or is refused.
LEMMA NaiveCallStep ==
    ASSUME NaiveInv,
           \/ NaiveFinishRun
           \/ \E n \in RunLengths : NaiveRunCall(n) \/ NaiveRunRefused(n)
    PROVE  NaiveInv'
  <1>1. /\ driver' = driver /\ refused' = refused /\ DriverHolds' = DriverHolds
        /\ pc \in {"finish", "idle"} /\ pc' \in {"register", "idle"}
        /\ GoTo(pc') \/ Refuse \/ RunDone
        /\ pc' = "register" => initialized
        /\ pc = "finish" => initialized
        /\ initialized \/ Refuse
    <2>1. CASE NaiveFinishRun
      BY <2>1, NaiveRunning DEF NaiveFinishRun, RunDone, DriverHolds
    <2>2. ASSUME NEW n \in RunLengths, NaiveRunCall(n) PROVE <1>1
      BY <2>2 DEF NaiveRunCall, GoTo, DriverHolds, Idle
    <2>3. ASSUME NEW n \in RunLengths, NaiveRunRefused(n) PROVE <1>1
      BY <2>3 DEF NaiveRunRefused, Refuse, DriverHolds, Idle, naiveRunVars
    <2> QED BY <2>1, <2>2, <2>3
  <1>2. /\ metrics' \in [DOMAIN NoNaiveMetrics -> Nat] /\ iterations' \in Nat
        /\ metrics'.register_count = metrics.register_count
        /\ metrics'.deregister_count = metrics.deregister_count
    <2>1. CASE NaiveFinishRun
      BY <2>1, NaiveCounters DEF NaiveFinishRun, NaiveInv, PerIteration
    <2>2. ASSUME NEW n \in RunLengths, NaiveRunCall(n) PROVE <1>2
      BY <2>2, SessionAssumption DEF NaiveRunCall, NaiveInv, PerIteration
    <2>3. ASSUME NEW n \in RunLengths, NaiveRunRefused(n) PROVE <1>2
      BY <2>3 DEF NaiveRunRefused, naiveRunVars, NaiveInv, PerIteration
    <2> QED BY <2>1, <2>2, <2>3
  <1>3. SessionInv' /\ OneBuffer' /\ initialized' = initialized
    <2>1. CASE initialized
      <3>1. driver' \in [Ptrs -> Nat] /\ DriverHolds' \subseteq {buffers[1]}
        BY <1>1, <2>1, Fields, TheBuffer DEF NaiveInv, SessionInv
      <3>2. pc \notin SessionCalls
        BY <1>1 DEF SessionCalls
      <3> QED BY <1>1, <2>1, <3>1, <3>2, NaiveWithin
    <2>2. CASE ~initialized
      <3>1. /\ UNCHANGED <<resources, systemVars, asked, back, initialized>>
            /\ pc' = "idle" /\ result' = "failed" /\ pc = "idle"
        BY <1>1, <2>2 DEF Refuse
      <3>2. pc' \notin SessionCalls /\ DriverTypeOK' /\ DriverHolds' = {}
        BY <1>1, <2>2, <3>1 DEF SessionCalls, NaiveInv, SessionInv, SessionTypeOK, DriverTypeOK,
                                StageTells, FieldsTell, Idle
      <3>3. SessionInv'
        BY <3>1, <3>2, StepWithin DEF NaiveInv
      <3> QED BY <2>2, <3>1, <3>3 DEF OneBuffer
    <2> QED BY <2>1, <2>2
  <1>4. PerIteration'
    BY <1>1, <1>2, <1>3 DEF NaiveInv, PerIteration, One, InIteration
  <1> QED BY <1>3, <1>4 DEF NaiveInv
-----------------------------------------------------------------------------
\* The calls of init and cleanup change neither the counters nor the metrics.
LEMMA NaiveSessionCall ==
    ASSUME NaiveInv, SessionInv', OneBuffer',
           ~initialized', pc' \in SessionCalls \cup {"idle"}, pc \notin InIteration,
           UNCHANGED <<metrics, iterations, refused>>
    PROVE  NaiveInv'
  <1>1. /\ metrics' = metrics /\ iterations' = iterations /\ refused' = refused
        /\ pc' \notin InIteration
    BY DEF SessionCalls, InIteration
  <1>2. PerIteration'
    BY <1>1 DEF NaiveInv, PerIteration, One
  <1> QED BY <1>2 DEF NaiveInv

LEMMA NaiveStartStep ==
    ASSUME NaiveInv, NaiveStartCleanup
    PROVE  NaiveInv'
  <1>1. /\ metrics' = metrics /\ iterations' = iterations /\ refused' = refused
        /\ driver' = driver
        /\ (\E size \in Sizes, read \in BOOLEAN : InitCall(size, read)) \/ CleanupCall \/ CallFails
    BY DEF NaiveStartCleanup, naiveRunVars
  <1>2. DriverTypeOK' /\ DriverHolds' \subseteq DriverHolds
    BY <1>1 DEF NaiveInv, SessionInv, SessionTypeOK, DriverTypeOK, DriverHolds
  <1>3. SessionInv' /\ pc' = "teardown" /\ ~initialized'
    BY <1>1, <1>2, CleanupBegins DEF NaiveInv
  <1>4. OneBuffer'
    BY <1>3 DEF OneBuffer
  <1>5. pc \notin InIteration
    BY <1>1 DEF InitCall, CleanupCall, CallFails, Idle, InIteration
  <1> QED BY <1>1, <1>3, <1>4, <1>5, NaiveSessionCall DEF SessionCalls

LEMMA NaiveSharedStepHolds ==
    ASSUME NaiveInv, NaiveSharedStep
    PROVE  NaiveInv'
  <1>1. /\ metrics' = metrics /\ iterations' = iterations /\ refused' = refused
    BY DEF NaiveSharedStep, naiveRunVars
  <1>2. SessionInv /\ OneBuffer
    BY DEF NaiveInv
  <1>3. ASSUME pc \in SessionCalls, SessionInv', initialized' = initialized,
               pc' \in SessionCalls \cup {"idle"}, ~initialized => OneBuffer'
        PROVE  NaiveInv'
    <2>1. ~initialized /\ pc \notin InIteration
      BY <1>3 DEF NaiveInv, SessionInv, StageTells, SessionCalls, InIteration
    <2> QED BY <1>1, <1>3, <2>1, NaiveSessionCall
  <1>4. CASE CloseDriver
    <2>1. SessionInv' /\ pc' = "free" /\ pc = "teardown" /\ initialized' = initialized
      BY <1>2, <1>4, CloseDriverStep DEF CloseDriver
    <2>2. ~initialized => OneBuffer'
      BY <2>1 DEF OneBuffer
    <2> QED BY <1>3, <2>1, <2>2 DEF SessionCalls
  <1>5. CASE FreeMemory
    <2>1. /\ SessionInv' /\ ~initialized' /\ pc' \in {"open", "idle"} /\ pc = "free"
          /\ initialized' = initialized
      BY <1>2, <1>5, FreeMemoryStep DEF FreeMemory
    <2>2. ~initialized => OneBuffer'
      BY <2>1 DEF OneBuffer
    <2> QED BY <1>3, <2>1, <2>2 DEF SessionCalls
  <1>6. CASE OpenFile /\ UNCHANGED driver
    <2>1. SessionInv' /\ pc' = "stat" /\ pc = "open" /\ initialized' = initialized
      BY <1>2, <1>6, OpenFileStep DEF OpenFile
    <2>2. ~initialized => OneBuffer'
      BY <2>1 DEF OneBuffer
    <2> QED BY <1>3, <2>1, <2>2 DEF SessionCalls
  <1>7. CASE OpenFails /\ UNCHANGED driver
    <2>1. /\ pc = "open" /\ pc' = "idle" /\ pc' \notin SessionCalls /\ result' = "failed"
          /\ UNCHANGED <<resources, systemVars, asked, back, initialized>> /\ driver' = driver
          /\ initialized' = initialized
      BY <1>7 DEF OpenFails, Refuse, SessionCalls
    <2>2. DriverTypeOK' /\ DriverHolds' = {} /\ DriverHolds' \subseteq BufferSet
      <3>1. DriverHolds = {}
        BY <1>2, <2>1 DEF SessionInv, StageTells, FieldsTell
      <3> QED BY <1>2, <2>1, <3>1 DEF SessionInv, SessionTypeOK, DriverTypeOK, DriverHolds
    <2>3. SessionInv'
      BY <1>2, <2>1, <2>2, StepWithin
    <2>4. ~initialized => OneBuffer'
      BY <2>1 DEF OneBuffer
    <2> QED BY <1>3, <2>1, <2>3, <2>4 DEF SessionCalls
  <1>8. ASSUME NEW size \in FileSizes, Stat(size), UNCHANGED driver PROVE NaiveInv'
    <2>1. /\ SessionInv' /\ pc' = "malloc" /\ buffers' = <<>> /\ pc = "stat"
          /\ initialized' = initialized
      BY <1>2, <1>8, StatStep DEF Stat
    <2>2. ~initialized => OneBuffer'
      BY <2>1 DEF OneBuffer
    <2> QED BY <1>3, <2>1, <2>2 DEF SessionCalls
  <1>9. ASSUME NEW p \in Ptrs, AllocBuffer(p, 1), UNCHANGED driver PROVE NaiveInv'
    <2>1. /\ SessionInv' /\ pc = "malloc" /\ Len(buffers') = Len(buffers) + 1
          /\ pc' = IF Len(buffers) + 1 < 1 THEN "malloc" ELSE "driver"
          /\ initialized' = initialized
      BY <1>2, <1>9, AllocBufferStep DEF AllocBuffer
    <2>2. Len(buffers') = 1 /\ pc' = "driver"
      BY <1>2, <2>1 DEF OneBuffer
    <2>3. ~initialized => OneBuffer'
      BY <2>2 DEF OneBuffer
    <2> QED BY <1>3, <2>1, <2>2, <2>3 DEF SessionCalls
  <1>10. CASE OpenDriver /\ UNCHANGED driver
    <2>1. /\ SessionInv' /\ pc = "driver" /\ pc' = "handle" /\ buffers' = buffers
          /\ initialized' = initialized
      BY <1>2, <1>10, OpenDriverStep DEF OpenDriver
    <2>2. ~initialized => OneBuffer'
      BY <1>2, <2>1 DEF OneBuffer
    <2> QED BY <1>3, <2>1, <2>2 DEF SessionCalls
  <1>11. CASE RegisterHandle("ready") /\ UNCHANGED driver
    <2>1. /\ SessionInv' /\ pc = "handle" /\ pc' = "ready" /\ buffers' = buffers
          /\ initialized' = initialized
      BY <1>2, <1>11, RegisterHandleStep DEF RegisterHandle
    <2>2. ~initialized => OneBuffer'
      BY <1>2, <2>1 DEF OneBuffer
    <2> QED BY <1>3, <2>1, <2>2 DEF SessionCalls
  <1> QED BY <1>4, <1>5, <1>6, <1>7, <1>8, <1>9, <1>10, <1>11
          DEF NaiveSharedStep

LEMMA NaiveReadyStep ==
    ASSUME NaiveInv, NaiveReady
    PROVE  NaiveInv'
  <1>1. /\ pc = "ready" /\ InitDone /\ metrics' = NoNaiveMetrics /\ refused' = 0
        /\ driver' = driver /\ iterations' = iterations
    BY DEF NaiveReady
  <1>2. SessionInv' /\ Idle' /\ initialized' /\ buffers' = buffers /\ DriverHolds' = {}
    BY <1>1, InitDoneStep DEF NaiveInv
  <1>3. OneBuffer'
    BY <1>1, <1>2 DEF NaiveInv, OneBuffer, Idle
  <1>4. /\ metrics' \in [DOMAIN NoNaiveMetrics -> Nat]
        /\ metrics'.register_count = 0 /\ metrics'.deregister_count = 0
    BY <1>1 DEF NoNaiveMetrics
  <1>5. PerIteration'
    BY <1>1, <1>2, <1>4 DEF NaiveInv, PerIteration, InIteration, One, Idle
  <1> QED BY <1>2, <1>3, <1>5 DEF NaiveInv
-----------------------------------------------------------------------------
LEMMA NaiveInitHolds == NaiveInit => NaiveInv
  <1> SUFFICES ASSUME NaiveInit PROVE NaiveInv
    OBVIOUS
  <1>1. SessionInit /\ iterations = 0 /\ refused = 0 /\ metrics = NoNaiveMetrics
    BY DEF NaiveInit
  <1>2. SessionInv /\ pc = "idle" /\ initialized = FALSE
    BY <1>1, SessionInitHolds DEF SessionInit
  <1>3. /\ metrics \in [DOMAIN NoNaiveMetrics -> Nat]
        /\ metrics.register_count = 0 /\ metrics.deregister_count = 0
    BY <1>1 DEF NoNaiveMetrics
  <1> QED BY <1>1, <1>2, <1>3 DEF NaiveInv, OneBuffer, PerIteration, InIteration, One

\* Every step of the NaiveGDSRunner keeps its invariant.
LEMMA NaiveStep == NaiveInv /\ [NaiveNext]_naiveVars => NaiveInv'
  <1> SUFFICES ASSUME NaiveInv, [NaiveNext]_naiveVars PROVE NaiveInv'
    OBVIOUS
  <1>1. CASE NaiveStartCleanup
    BY <1>1, NaiveStartStep
  <1>2. CASE NaiveSharedStep
    BY <1>2, NaiveSharedStepHolds
  <1>3. CASE NaiveReady
    BY <1>3, NaiveReadyStep
  <1>4. CASE RegisterBuffer
    BY <1>4, NaiveRegisterStep
  <1>5. CASE NaiveIo
    BY <1>5, NaiveIoStep
  <1>6. CASE DeregisterBuffer
    BY <1>6, NaiveDeregisterStep
  <1>7. CASE NaiveFinishRun \/ \E n \in RunLengths : NaiveRunCall(n) \/ NaiveRunRefused(n)
    BY <1>7, NaiveCallStep
  <1>8. CASE UNCHANGED naiveVars
    <2>1. /\ driver' = driver /\ metrics' = metrics /\ iterations' = iterations
          /\ refused' = refused /\ UNCHANGED systemVars
          /\ UNCHANGED <<pc, back, asked, result, initialized, resources>>
      BY <1>8 DEF naiveVars, sessionVars, naiveRunVars, systemVars,
                  resources
    <2>2. /\ buffers' = buffers /\ io_size' = io_size /\ fd' = fd /\ opened' = opened
          /\ handle' = handle /\ file_size' = file_size /\ is_read' = is_read
          /\ files' = files /\ sessions' = sessions /\ handles' = handles
          /\ allocated' = allocated /\ BufferSet' = BufferSet
      BY <2>1, Resources
    <2>3. SessionTypeOK'
      BY <2>1, <2>2 DEF NaiveInv, SessionInv, SessionTypeOK, SystemTypeOK, DriverTypeOK
    <2>4. FieldsTell' /\ StageTells'
      BY <2>1, <2>2 DEF NaiveInv, SessionInv, FieldsTell, StageTells, Idle, DriverHolds
    <2>5. OneBuffer' /\ PerIteration'
      BY <2>1, <2>2 DEF NaiveInv, OneBuffer, PerIteration, DriverHolds
    <2> QED BY <2>3, <2>4, <2>5 DEF NaiveInv, SessionInv
  <1> QED BY <1>1, <1>2, <1>3, <1>4, <1>5, <1>6, <1>7, <1>8
          DEF NaiveNext, NaiveInCall, NaiveCall

LEMMA NaiveInductive == NaiveSpec => []NaiveInv
  BY NaiveInitHolds, NaiveStep, PTL DEF NaiveSpec

\* Nothing of what NaiveGDSRunner acquires is leaked, although its cleanup does
\* not deregister: closing the session ends what a refused deregistration left.
THEOREM NaiveResources == NaiveSpec => []ResourcesInOrder
  <1>1. NaiveInv => ResourcesInOrder
    BY SessionInOrder DEF NaiveInv
  <1> QED BY <1>1, NaiveInductive, PTL

\* The buffer is registered from the register to the deregister of an iteration,
\* and otherwise only if the driver refused to give it up.
THEOREM NaiveRegisters == NaiveSpec => []RegisteredPerIteration
  <1>1. NaiveInv => RegisteredPerIteration
    <2> SUFFICES ASSUME NaiveInv PROVE RegisteredPerIteration
      OBVIOUS
    <2>1. ASSUME initialized
          PROVE  /\ pc \in InIteration => driver[buffers[1]] = io_size
                 /\ pc \notin InIteration => (DriverHolds # {} <=> refused > 0)
      BY <2>1 DEF NaiveInv, PerIteration
    <2>2. ASSUME pc = "idle", refused = 0
          PROVE  metrics.register_count = metrics.deregister_count
      BY <2>2, NaiveCounters DEF NaiveInv, PerIteration, InIteration, One
    <2> QED BY <2>1, <2>2 DEF InIteration, RegisteredPerIteration, Idle
  <1> QED BY <1>1, NaiveInductive, PTL

\* After a refused deregistration no run gets past its first registration until
\* the runner is initialized again.
THEOREM NaiveRefusal == NaiveSpec => []RefusalIsFinal
  <1>1. NaiveInv => RefusalIsFinal
    BY DEF NaiveInv, PerIteration, RefusalIsFinal
  <1> QED BY <1>1, NaiveInductive, PTL
=============================================================================
