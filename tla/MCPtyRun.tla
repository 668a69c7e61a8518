------------------------------- MODULE MCPtyRun -------------------------------
(* A run with one command handler at a time. *)
EXTENDS PtyRun
===============================================================================
