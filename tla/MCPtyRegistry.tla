---------------------------- MODULE MCPtyRegistry ----------------------------
(* Room for two runs and four starts: two of them wait for the mutex while two *)
(* runs are listed, finish, are closed or evicted.                             *)
EXTENDS PtyRegistry
===============================================================================
