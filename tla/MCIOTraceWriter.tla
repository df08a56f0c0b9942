---------------------------- MODULE MCIOTraceWriter ----------------------------
(***************************************************************************)
(* The values given to append for TLC: numbers of one, two and three       *)
(* digits, which a file can be cut in.                                     *)
(***************************************************************************)
EXTENDS IOTraceWriter

MCCacheMiss == <<12, 1, 255, 0>>
=============================================================================
