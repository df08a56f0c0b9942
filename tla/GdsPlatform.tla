---------------------------- MODULE GdsPlatform ----------------------------
(***************************************************************************)
(* What a GDS runner acquires from the system besides registrations: open  *)
(* files, the cuFile driver session, file handles registered with it and   *)
(* device memory.  External to the repository.  A call that acquires may   *)
(* fail, and then changes nothing; the calls that give a resource back,    *)
(* whose status the runners ignore, are taken to succeed, except the       *)
(* deregistration of a buffer.  Closing the driver session ends the        *)
(* registrations made in it.                                               *)
(***************************************************************************)
EXTENDS CuFile

VARIABLES files,        \* open file descriptors
          sessions,     \* cuFileDriverOpen calls not closed
          handles,      \* file handles registered and not deregistered
          allocated     \* device buffers allocated and not freed

systemVars == <<files, sessions, handles, allocated>>

SystemTypeOK ==
    /\ files \in Nat /\ sessions \in Nat /\ handles \in Nat
    /\ allocated \subseteq Ptrs

SystemInit == files = 0 /\ sessions = 0 /\ handles = 0 /\ allocated = {}

\* Nothing is left of what the process acquired.
NothingHeld ==
    /\ files = 0 /\ sessions = 0 /\ handles = 0
    /\ allocated = {} /\ DriverHolds = {}

\* A registration is of memory that is allocated, in a driver session.
RegistrationsAreLive ==
    DriverHolds # {} => sessions > 0 /\ DriverHolds \subseteq allocated

OpenFd == files' = files + 1 /\ UNCHANGED <<sessions, handles, allocated>>

Malloc(p) ==
    /\ p \in Ptrs \ allocated
    /\ allocated' = allocated \cup {p}
    /\ UNCHANGED <<files, sessions, handles>>

DriverOpen == sessions' = sessions + 1 /\ UNCHANGED <<files, handles, allocated>>

HandleRegister ==
    /\ sessions > 0
    /\ handles' = handles + 1
    /\ UNCHANGED <<files, sessions, allocated>>

\* A handle and a session are given back, each if there is one to give.
Close(handle, session) ==
    /\ handles' = handles - (IF handle THEN 1 ELSE 0)
    /\ sessions' = sessions - (IF session THEN 1 ELSE 0)
    /\ driver' = IF session /\ sessions = 1 THEN Deregistering(Ptrs) ELSE driver
    /\ UNCHANGED <<files, allocated>>

\* So are device buffers, and a file.
Free(buffers, file) ==
    /\ allocated' = allocated \ buffers
    /\ files' = files - (IF file THEN 1 ELSE 0)
    /\ UNCHANGED <<handles, sessions>>
=============================================================================
