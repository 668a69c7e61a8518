---------------------------- MODULE MCTerminalStream ----------------------------
(* Frames of one or two bytes, room for three bytes and two frames. *)
EXTENDS TerminalStream
===============================================================================
