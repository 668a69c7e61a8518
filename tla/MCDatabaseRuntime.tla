--------------------------- MODULE MCDatabaseRuntime ---------------------------
(* The startup task and one retry command. *)
EXTENDS DatabaseRuntime
===============================================================================
