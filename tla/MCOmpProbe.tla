------------------------------ MODULE MCOmpProbe ------------------------------
(* Two executables, one help command, output of one chunk too many. *)
EXTENDS OmpProbe
===============================================================================
