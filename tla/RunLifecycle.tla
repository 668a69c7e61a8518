----------------------------- MODULE RunLifecycle -----------------------------
(***************************************************************************)
(* What one embedded PTY run promises to everything outside the runtime:   *)
(* the registry that prunes and closes runs, and the client that shows     *)
(* them.  A run is live until exactly one terminal status is published,    *)
(* the published status never changes again, an exit code is reported only *)
(* for a run whose terminal output was read to its end, and the run may be *)
(* removed only once it is final and drained.                              *)
(***************************************************************************)
EXTENDS Naturals

VARIABLES
    status,    \* PtyRunStatus of the run's snapshot
    drained,   \* the output reader has reached the end of the stream
    exitCode,  \* an exit code is recorded in the snapshot
    listed     \* the run is in the registry

vars == <<status, drained, exitCode, listed>>

Statuses == {"running", "exited", "failed"}

Init ==
    /\ status = "running"
    /\ drained = FALSE
    /\ exitCode = FALSE
    /\ listed = TRUE

(* The output stream ended. *)
Drain ==
    /\ ~drained
    /\ drained' = TRUE
    /\ UNCHANGED <<status, exitCode, listed>>

(* The child's exit code is published, after the last byte of its output. *)
Exit ==
    /\ status = "running"
    /\ drained
    /\ status' = "exited"
    /\ exitCode' = TRUE
    /\ UNCHANGED <<drained, listed>>

(* The run is given up on: waiting or reading failed, or output kept open. *)
Fail ==
    /\ status = "running"
    /\ status' = "failed"
    /\ UNCHANGED <<drained, exitCode, listed>>

Closable == status # "running" /\ drained

(* The registry forgets the run. *)
Remove ==
    /\ listed
    /\ Closable
    /\ listed' = FALSE
    /\ UNCHANGED <<status, drained, exitCode>>

Next == Drain \/ Exit \/ Fail \/ Remove

Spec == Init /\ [][Next]_vars

-------------------------------------------------------------------------------
(* Properties *)

(* Type invariant. *)
TypeOK ==
    /\ status \in Statuses
    /\ drained \in BOOLEAN
    /\ exitCode \in BOOLEAN
    /\ listed \in BOOLEAN

(* What a client of a run may rely on at any time: an exit code comes with the *)
(* status exited and after all of the output, and a run that is gone was over  *)
(* (spawn_child_waiter, close_run, prune_runs).                                *)
Promise ==
    /\ exitCode <=> status = "exited"
    /\ exitCode => drained
    /\ ~listed => Closable

(* Who has seen a run end has seen its last status (spawn_child_waiter, *)
(* spawn_output_reader).                                               *)
FinalStays == [][status # "running" => status' = status /\ exitCode' = exitCode]_vars
===============================================================================
