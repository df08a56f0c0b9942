----------------------------- MODULE GdsSession -----------------------------
(***************************************************************************)
(* The part that the three GDS runners have in common, line for line: the  *)
(* calls init() makes until the file handle is registered with cuFile, and *)
(* the end of cleanup().  Each call is a step, so that each can fail with  *)
(* everything before it done; what a runner does besides (its own first    *)
(* part of cleanup, and of init after the handle) is in the runner's       *)
(* module.                                                                 *)
(***************************************************************************)
EXTENDS GdsPlatform, IoOffsets, Sequences

CONSTANTS Sizes,         \* the io_size values callers pass to init
          FileSizes,     \* the sizes fstat finds
          RunLengths     \* the iterations callers pass to run

ASSUME SessionAssumption == Sizes \subseteq Nat /\ FileSizes \subseteq Nat
                            /\ RunLengths \subseteq Nat

VARIABLES pc,            \* the next call of the function that runs, or "idle"
          back,          \* what follows the cleanup that runs: "open" or "idle"
          asked,         \* the arguments of init
          result,        \* what the last call of init or run answered
          initialized, fd, opened, handle, buffers, io_size, file_size, is_read,
          i, iterations, \* the loop of run, which is the runner's own
          metrics        \* metrics_, likewise

\* fd says whether fd_ is a descriptor, opened is cufile_driver_opened_, handle
\* is cufile_handle_registered_.
sessionVars == <<pc, back, asked, result, initialized, fd, opened, handle, buffers,
                 io_size, file_size, is_read>>

resources == <<fd, opened, handle, buffers, io_size, file_size, is_read>>

SessionTypeOK ==
    /\ SystemTypeOK /\ DriverTypeOK
    /\ back \in {"open", "idle"}
    /\ asked \in [io_size : Sizes, is_read : BOOLEAN]
    /\ result \in {"none", "ok", "failed"}
    /\ {initialized, fd, opened, handle, is_read} \subseteq BOOLEAN
    /\ buffers \in Seq(Ptrs)
    /\ io_size \in Sizes \cup {0} /\ file_size \in FileSizes \cup {0}

SessionInit ==
    /\ SystemInit /\ DriverInit
    /\ pc = "idle" /\ back = "idle" /\ result = "none"
    /\ asked \in [io_size : Sizes, is_read : {TRUE}]
    /\ initialized = FALSE /\ fd = FALSE /\ opened = FALSE /\ handle = FALSE
    /\ buffers = <<>> /\ io_size = 0 /\ file_size = 0 /\ is_read = TRUE

Idle == pc = "idle"

BufferSet == {buffers[k] : k \in 1 .. Len(buffers)}
-----------------------------------------------------------------------------
\* init(file_path, size, read) begins with cleanup().
InitCall(size, read) ==
    /\ Idle
    /\ asked' = [io_size |-> size, is_read |-> read]
    /\ initialized' = FALSE
    /\ pc' = "teardown" /\ back' = "open" /\ result' = "none"
    /\ UNCHANGED <<resources, systemVars>>

\* cleanup() called by the user, or by the destructor.
CleanupCall ==
    /\ Idle
    /\ initialized' = FALSE
    /\ pc' = "teardown" /\ back' = "idle"
    /\ UNCHANGED <<resources, systemVars, asked, result>>

\* Fault: init starts over at a call that failed.
AbortRetries ==
    /\ initialized' = FALSE
    /\ pc' = "teardown" /\ back' = "open" /\ result' = "failed"
    /\ UNCHANGED <<resources, systemVars, asked>>

\* init gives up at a call that failed: cleanup() and false.
Abort ==
    /\ initialized' = FALSE
    /\ pc' = "teardown" /\ back' = "idle" /\ result' = "failed"
    /\ UNCHANGED <<resources, systemVars, asked>>

\* A function that returns false with nothing to undo.
Refuse ==
    /\ pc' = "idle" /\ result' = "failed"
    /\ UNCHANGED <<resources, systemVars, asked, back, initialized>>

\* Fault: the driver session is not closed.
CloseHandleOnly ==
    /\ pc = "teardown"
    /\ Close(handle, FALSE)
    /\ handle' = FALSE /\ opened' = FALSE
    /\ pc' = "free"
    /\ UNCHANGED <<back, asked, result, initialized, fd, buffers, io_size, file_size, is_read>>

\* The end of cleanup(): first the handle and the driver session, then the
\* device memory and the file.
CloseDriver ==
    /\ pc = "teardown"
    /\ Close(handle, opened)
    /\ handle' = FALSE /\ opened' = FALSE
    /\ pc' = "free"
    /\ UNCHANGED <<back, asked, result, initialized, fd, buffers, io_size, file_size, is_read>>

FreeMemory ==
    /\ pc = "free"
    /\ Free(BufferSet, fd)
    /\ buffers' = <<>> /\ fd' = FALSE /\ io_size' = 0 /\ file_size' = 0
    /\ pc' = back
    /\ UNCHANGED <<driver, back, asked, result, initialized, opened, handle, is_read>>

\* open, refused for io_size = 0 before it is tried.
OpenFile ==
    /\ pc = "open" /\ asked.io_size # 0
    /\ OpenFd
    /\ fd' = TRUE /\ pc' = "stat"
    /\ UNCHANGED <<back, asked, result, initialized, opened, handle, buffers,
                   io_size, file_size, is_read>>

OpenFails == pc = "open" /\ Refuse

Stat(size) ==
    /\ pc = "stat"
    /\ asked.is_read => size > 0
    /\ file_size' = size /\ io_size' = asked.io_size /\ is_read' = asked.is_read
    /\ pc' = "malloc"
    /\ UNCHANGED <<back, asked, result, initialized, fd, opened, handle, buffers, systemVars>>

\* One cudaMalloc of count; the next follows until there are as many.
AllocBuffer(p, count) ==
    /\ pc = "malloc"
    /\ Malloc(p)
    /\ buffers' = Append(buffers, p)
    /\ pc' = IF Len(buffers) + 1 < count THEN "malloc" ELSE "driver"
    /\ UNCHANGED <<back, asked, result, initialized, fd, opened, handle, io_size,
                   file_size, is_read>>

OpenDriver ==
    /\ pc = "driver"
    /\ DriverOpen
    /\ opened' = TRUE /\ pc' = "handle"
    /\ UNCHANGED <<back, asked, result, initialized, fd, handle, buffers, io_size,
                   file_size, is_read>>

\* The handle, the last call the runners share; then names what comes next.
RegisterHandle(then) ==
    /\ pc = "handle"
    /\ HandleRegister
    /\ handle' = TRUE /\ pc' = then
    /\ UNCHANGED <<back, asked, result, initialized, fd, opened, buffers, io_size,
                   file_size, is_read>>

\* Fault: init returns false without cleanup.
CallFailsUncleaned == pc \in {"stat", "malloc", "driver", "handle"} /\ Refuse

\* fstat, cudaMalloc, cuFileDriverOpen or cuFileHandleRegister fails.
CallFails == pc \in {"stat", "malloc", "driver", "handle"} /\ Abort

\* init returns true.
InitDone ==
    /\ initialized' = TRUE
    /\ pc' = "idle" /\ result' = "ok"
    /\ UNCHANGED <<resources, systemVars, asked, back>>

\* run goes on at another call, is refused, or returns true.
GoTo(label) ==
    /\ pc' = label
    /\ UNCHANGED <<resources, systemVars, asked, back, result, initialized>>

RunDone ==
    /\ pc' = "idle" /\ result' = "ok"
    /\ UNCHANGED <<resources, systemVars, asked, back, initialized>>

\* The place in the file of the I/O of iteration k.
Offset(k) == IF is_read THEN ReadOffset(k, io_size, file_size) ELSE WriteOffset(k, io_size)

\* Between two calls, a runner that is not initialized holds nothing: every
\* failure of init, at any of its calls, gives back all that came before.
ClosedHoldsNothing == Idle /\ ~initialized => NothingHeld

\* Whatever call fails and whoever calls what next, nothing is leaked and
\* nothing is given back too early: a closed runner holds nothing, and at every
\* point of every call registrations are of allocated memory in an open driver
\* session, so that no path frees a buffer or closes the driver first.
ResourcesInOrder == ClosedHoldsNothing /\ RegistrationsAreLive
=============================================================================
