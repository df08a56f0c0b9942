------------------------------- MODULE CuFile -------------------------------
(***************************************************************************)
(* The buffer registrations kept by the GPUDirect Storage driver, as the   *)
(* program uses them through cuFileBufRegister and cuFileBufDeregister.    *)
(* The driver is external to the repository: what is modelled is what the  *)
(* callers rely on.  A pointer is registered at most once, with the length *)
(* given when it was registered; a second registration and the             *)
(* deregistration of an unregistered pointer are refused.  Either call may *)
(* also fail for a reason of its own, in which case it changes nothing:    *)
(* the callers model that by not taking the step below.                    *)
(***************************************************************************)
EXTENDS Naturals

CONSTANT Ptrs      \* the addresses of the device buffers

VARIABLE driver    \* the length registered for each pointer, or Unregistered

Unregistered == 0

DriverTypeOK == driver \in [Ptrs -> Nat]

DriverInit == driver = [p \in Ptrs |-> Unregistered]

\* The pointers the driver has a registration of.
DriverHolds == {p \in Ptrs : driver[p] # Unregistered}

AcceptsRegister(p)   == p \notin DriverHolds
AcceptsDeregister(p) == p \in DriverHolds

\* The registrations after p is registered with len.
Registering(p, len) == [driver EXCEPT ![p] = len]

\* The registrations after every pointer of gone is deregistered.
Deregistering(gone) == [p \in Ptrs |-> IF p \in gone THEN Unregistered ELSE driver[p]]
=============================================================================
