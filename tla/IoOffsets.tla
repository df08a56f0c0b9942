------------------------------ MODULE IoOffsets ------------------------------
(***************************************************************************)
(* The place in the file of the i-th I/O of a run.  All four runners read  *)
(* the file from its start, one io_size after the other, and wrap around   *)
(* with a remainder; the GDS runners write without wrapping.  The imagenet *)
(* benchmark reads whole files, to the end of their last aligned block.    *)
(***************************************************************************)
EXTENDS Integers

\* Fault: the size of the I/O is not taken off.
MaxOffsetOfFile(io, size) == size

MaxOffset(io, size) == IF size > io THEN size - io ELSE 0

ReadOffset(i, io, size) == (i * io) % (MaxOffset(io, size) + 1)

WriteOffset(i, io) == i * io

\* The microbenchmark reads whole slots of io bytes.
SlotCount(io, size) == IF size > io THEN (size - io) \div io + 1 ELSE 1

SlotOffset(slot, io) == slot * io

\* The smallest multiple of align that has room for v bytes.
AlignUp(v, align) == ((v + align - 1) \div align) * align
=============================================================================
