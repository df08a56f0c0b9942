--------------------------- MODULE PinnedBuffers ---------------------------
(***************************************************************************)
(* What a registration cache promises to those who use buffers through it: *)
(* a buffer is registered before it is handed to a user, and stays         *)
(* registered for as long as some user has it pinned.                      *)
(***************************************************************************)
CONSTANTS Users, Ptrs, NoPtr

VARIABLES pins,      \* the pointer each user has pinned, or NoPtr
          pinnable   \* the pointers registered with the driver

pinVars == <<pins, pinnable>>

PinnedTypeOK ==
    /\ pins \in [Users -> Ptrs \cup {NoPtr}]
    /\ pinnable \subseteq Ptrs

PinnedInit ==
    /\ pins = [u \in Users |-> NoPtr]
    /\ pinnable = {}

Pinned == {p \in Ptrs : \E u \in Users : pins[u] = p}

\* A user pins p, registered already or registered for it.
Pin(u, p) ==
    /\ pins[u] = NoPtr
    /\ pins' = [pins EXCEPT ![u] = p]
    /\ pinnable' = pinnable \cup {p}

Unpin(u) ==
    /\ pins[u] # NoPtr
    /\ pins' = [pins EXCEPT ![u] = NoPtr]
    /\ UNCHANGED pinnable

\* Buffers that nobody has pinned may be deregistered at any time.
Drop(S) ==
    /\ S \cap Pinned = {}
    /\ pinnable' = pinnable \ S
    /\ UNCHANGED pins

PinnedNext ==
    \/ \E u \in Users, p \in Ptrs : Pin(u, p)
    \/ \E u \in Users : Unpin(u)
    \/ \E S \in SUBSET pinnable : Drop(S)

PinnedSpec == PinnedInit /\ [][PinnedNext]_pinVars
=============================================================================
