---------------------------- MODULE MCProbeHistory ----------------------------
(***************************************************************************)
(* Two probes, in one process or on both sides of a crash, one history     *)
(* write that fails.  With room for one snapshot the second start evicts   *)
(* the first, whose late write then meets what the second left.            *)
(***************************************************************************)
EXTENDS ProbeHistory
===============================================================================
