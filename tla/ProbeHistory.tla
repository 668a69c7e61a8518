----------------------------- MODULE ProbeHistory -----------------------------
(***************************************************************************)
(* services/task_supervisor.rs: OMP probe operations, the bounded registry *)
(* of their snapshots, and the operation_history table the snapshots are   *)
(* written to by background jobs.  Every critical section of the           *)
(* supervisor's mutex and every SQL statement is one action.  The process  *)
(* can crash between any two of them; the table survives, memory does not. *)
(*                                                                         *)
(* Abstracted: timestamps, paths, reports and diagnostics.  Every error of *)
(* a history write is retryable (those that are not need a poisoned mutex).*)
(***************************************************************************)
EXTENDS Naturals, Sequences, FiniteSets

CONSTANTS
    Operations,   \* operation ids; each is used once
    None,         \* no operation, no row
    Outcomes,     \* terminal statuses finish_probe may be given
    MaxRetained,  \* TaskPolicy.maximum_retained_operations
    MaxCrashes,   \* bound: crashes of the process
    MaxFailures   \* bound: history writes and reconciliations that fail

Terminal == {"succeeded", "failed", "timed_out"}
Live == {"queued", "running"}
Over == Terminal \cup {"needs_reconciliation"}
Rows == [status : Live \cup Over, revision : Nat \ {0}]

ASSUME ProbeHistoryAssumption ==
    /\ None \notin Operations
    /\ None \notin Rows
    /\ Outcomes \subseteq {"succeeded", "failed", "timed_out"} /\ Outcomes # {}
    /\ MaxRetained \in Nat \ {0}
    /\ MaxCrashes \in Nat
    /\ MaxFailures \in Nat

VARIABLES
    started,     \* when an id was used: "never", "earlier" (before a crash) or "now"
    snapshots,   \* inner.operations: status, revision, history_persisted
    order,       \* inner.operation_order
    active,      \* inner.active_probe
    inProgress,  \* inner.persistence_in_progress
    backoff,     \* operations whose persistence_retry_after is in the future
    worker,      \* where run_probe of each operation stands
    jobs,        \* persistence jobs: the snapshot they carry and where they stand
    reconciled,  \* TaskSupervisor.reconciliation
    startup,     \* the reconciliation lib.rs runs once the database is ready is due
    ready,       \* DatabaseRuntime.database is Some
    rows,        \* operation_history
    crashes, failures   \* counters of the two bounds

memory == <<snapshots, order, active, inProgress, backoff>>
bounds == <<crashes, failures>>
vars == <<started, memory, worker, jobs, reconciled, startup, ready, rows, bounds>>

Snapshots == [status : Live \cup Terminal, revision : Nat \ {0}, saved : BOOLEAN]
Jobs == [op : Operations, status : Live \cup Terminal, revision : Nat \ {0},
         at : {"reconcile", "write", "done", "again"}, ok : BOOLEAN]
WorkerSteps == {"none", "queued", "announce", "probing", "record", "done"}

Init ==
    /\ started = [o \in Operations |-> "never"]
    /\ snapshots = [o \in {} |-> 0] /\ order = <<>> /\ active = None
    /\ inProgress = {} /\ backoff = {}
    /\ worker = [o \in Operations |-> "none"]
    /\ jobs = {}
    /\ reconciled = FALSE /\ startup = TRUE /\ ready = FALSE
    /\ rows = [o \in Operations |-> None]
    /\ crashes = 0 /\ failures = 0

Known == DOMAIN snapshots
Unused == {o \in Operations : started[o] = "never"}

(* Uuid::new_v4.  Ids mean nothing, so which unused one it is does not matter. *)
NewId == CHOOSE o \in Unused : TRUE

-------------------------------------------------------------------------------
(* schedule_persistence, one critical section: a job is spawned with a copy of *)
(* the snapshot unless it is saved, being saved, or backing off.               *)

Schedulable(o) == ~snapshots[o].saved /\ o \notin inProgress /\ o \notin backoff

Schedule(o, others) ==
    IF o \in Known /\ Schedulable(o)
    THEN /\ inProgress' = inProgress \cup {o}
         /\ jobs' = others \cup {[op |-> o, status |-> snapshots[o].status,
                                  revision |-> snapshots[o].revision,
                                  at |-> "reconcile", ok |-> TRUE]}
    ELSE jobs' = others /\ UNCHANGED inProgress

-------------------------------------------------------------------------------
(* start_omp_probe *)

(* A call while a probe is active returns that probe's snapshot. *)
Busy == active # None

Evictable(o) == snapshots[o].status \in Terminal /\ o \notin inProgress

(* Variant for the mutation checks: room is made only once the limit is passed. *)
ExcessOverLimit == IF Cardinality(Known) > MaxRetained THEN Cardinality(Known) - MaxRetained
                   ELSE 0

(* prune_terminal_operations: how many snapshots must go, and the oldest evictable *)
(* ones that do.  They go even when they are too few, and the start is refused.    *)
Excess == IF Cardinality(Known) < MaxRetained THEN 0
          ELSE Cardinality(Known) + 1 - MaxRetained

EvictableAt == {i \in 1..Len(order) : Evictable(order[i])}
Evicted == {order[i] : i \in {n \in EvictableAt :
                               Cardinality({k \in EvictableAt : k < n}) < Excess}}

(* The order of those that stay. *)
KeptAt == {i \in 1..Len(order) : order[i] \notin Evicted}
KeptOrder == [n \in 1..Cardinality(KeptAt) |->
                 order[CHOOSE i \in KeptAt : Cardinality({k \in KeptAt : k <= i}) = n]]

StartProbe ==
    /\ ~Busy
    /\ Unused # {}
    /\ LET kept == Known \ Evicted
           new == NewId
       IN  /\ backoff' = backoff \ Evicted
           /\ IF Cardinality(EvictableAt) >= Excess
              THEN /\ started' = [started EXCEPT ![new] = "now"]
                   /\ snapshots' = [p \in kept \cup {new} |->
                                      IF p = new THEN [status |-> "queued", revision |-> 1,
                                                       saved |-> FALSE]
                                      ELSE snapshots[p]]
                   /\ order' = Append(KeptOrder, new)
                   /\ active' = new
                   /\ worker' = [worker EXCEPT ![new] = "queued"]
              ELSE /\ snapshots' = [p \in kept |-> snapshots[p]]
                   /\ order' = KeptOrder
                   /\ UNCHANGED <<started, active, worker>>
    /\ UNCHANGED <<inProgress, jobs, reconciled, startup, ready, rows, bounds>>

-------------------------------------------------------------------------------
(* run_probe *)

Advance(o, status) ==
    snapshots' = [snapshots EXCEPT ![o] = [status |-> status, revision |-> @.revision + 1,
                                           saved |-> FALSE]]

MarkRunning(o) ==
    /\ worker[o] = "queued"
    /\ Advance(o, "running")
    /\ worker' = [worker EXCEPT ![o] = "announce"]
    /\ UNCHANGED <<started, order, active, inProgress, backoff, jobs, reconciled, startup,
                   ready, rows, bounds>>

(* The two places where run_probe schedules a write of what it has just done. *)
WorkerSchedules(o) ==
    /\ worker[o] \in {"announce", "record"}
    /\ Schedule(o, jobs)
    /\ worker' = [worker EXCEPT ![o] = IF @ = "announce" THEN "probing" ELSE "done"]
    /\ UNCHANGED <<started, snapshots, order, active, backoff, reconciled, startup, ready,
                   rows, bounds>>

(* Variant for the mutation checks: a probe that failed stays the active one. *)
FinishKeepsFailed(o) ==
    /\ worker[o] = "probing"
    /\ \E status \in Outcomes :
         /\ active' = IF active = o /\ status # "failed" THEN None ELSE active
         /\ Advance(o, status)
    /\ worker' = [worker EXCEPT ![o] = "record"]
    /\ UNCHANGED <<started, order, inProgress, backoff, jobs, reconciled, startup, ready,
                   rows, bounds>>

(* finish_probe, called with the adapter's answer, after the timeout, or by *)
(* the monitor of a worker that panicked.                                   *)
FinishProbe(o) ==
    /\ worker[o] = "probing"
    /\ active' = IF active = o THEN None ELSE active
    /\ \E status \in Outcomes : Advance(o, status)
    /\ worker' = [worker EXCEPT ![o] = "record"]
    /\ UNCHANGED <<started, order, inProgress, backoff, jobs, reconciled, startup, ready,
                   rows, bounds>>

(* Variant for the mutation checks: a poll only reads. *)
GetOnlyReads(o) == o \in Known /\ UNCHANGED vars

(* get_omp_probe: the frontend polls until the snapshot is terminal and saved. *)
GetProbe(o) ==
    /\ o \in Known
    /\ Schedule(o, jobs)
    /\ UNCHANGED <<started, snapshots, order, active, backoff, worker, reconciled, startup,
                   ready, rows, bounds>>

BackoffEnds(o) ==
    /\ o \in backoff
    /\ backoff' = backoff \ {o}
    /\ UNCHANGED <<started, snapshots, order, active, inProgress, worker, jobs, reconciled,
                   startup, ready, rows, bounds>>

-------------------------------------------------------------------------------
(* reconcile_history: the reconciliation mutex is held over the statement, so *)
(* the statement and the flag are one step for everyone else.                 *)

(* Variants for the mutation checks: every row, and queued rows alone. *)
InterruptedAny(row) ==
    IF row # None THEN [status |-> "needs_reconciliation", revision |-> row.revision + 1]
    ELSE row
InterruptedQueued(row) ==
    IF row # None /\ row.status = "queued"
    THEN [status |-> "needs_reconciliation", revision |-> row.revision + 1]
    ELSE row

Interrupted(row) ==
    IF row # None /\ row.status \in Live
    THEN [status |-> "needs_reconciliation", revision |-> row.revision + 1]
    ELSE row

Reconcile ==
    IF reconciled THEN UNCHANGED <<reconciled, rows>>
    ELSE /\ reconciled' = TRUE
         /\ rows' = [o \in Operations |-> Interrupted(rows[o])]

(* A failure while the database is not ready, or of a statement. *)
Fails ==
    /\ failures < MaxFailures
    /\ failures' = failures + 1

(* reconcile_history returns at once when it was done, marks the rows, or fails. *)
TriesToReconcile ==
    /\ ready
    /\ \/ Reconcile /\ UNCHANGED failures
       \/ ~reconciled /\ Fails /\ UNCHANGED <<reconciled, rows>>

(* After the attempt, at startup or a retry, that has opened the database: tried *)
(* once, its error ignored.                                                      *)
StartupReconciles ==
    /\ startup /\ startup' = FALSE
    /\ TriesToReconcile
    /\ UNCHANGED <<started, memory, worker, jobs, ready, crashes>>

(* A retry that finds the database ready reconciles too.  Nobody has to ask. *)
RetryReconciles ==
    /\ TriesToReconcile
    /\ UNCHANGED <<started, memory, worker, jobs, startup, ready, crashes>>

-------------------------------------------------------------------------------
(* A persistence job: persist_snapshot on a blocking thread, then             *)
(* finish_persistence, which may schedule once more.                          *)

Moves(j, k) == jobs' = (jobs \ {j}) \cup {k}

JobReconciles(j) ==
    /\ j.at = "reconcile"
    /\ \/ ready /\ Reconcile /\ Moves(j, [j EXCEPT !.at = "write"]) /\ UNCHANGED failures
       \/ /\ Fails
          /\ Moves(j, [j EXCEPT !.at = "done", !.ok = FALSE])
          /\ UNCHANGED <<reconciled, rows>>
    /\ UNCHANGED <<started, memory, worker, startup, ready, crashes>>

(* The upsert replaces a row only by a revision that is not older. *)
Upsert(row, j) ==
    IF row = None \/ j.revision >= row.revision
    THEN [status |-> j.status, revision |-> j.revision]
    ELSE row

JobWrites(j) ==
    /\ j.at = "write"
    /\ \/ /\ rows' = [rows EXCEPT ![j.op] = Upsert(@, j)]
          /\ Moves(j, [j EXCEPT !.at = "done"])
          /\ UNCHANGED failures
       \/ Fails /\ Moves(j, [j EXCEPT !.at = "done", !.ok = FALSE]) /\ UNCHANGED rows
    /\ UNCHANGED <<started, memory, worker, reconciled, startup, ready, crashes>>

(* Variant for the mutation checks: the result counts for whatever is there now. *)
CurrentWhatever(j) == j.op \in Known

(* The result counts only if the snapshot has not changed since it was copied. *)
Current(j) == j.op \in Known /\ snapshots[j.op].revision = j.revision

FinishPersistence(j) ==
    /\ j.at = "done"
    /\ inProgress' = inProgress \ {j.op}
    /\ IF Current(j)
       THEN /\ snapshots' = [snapshots EXCEPT ![j.op].revision = @ + 1, ![j.op].saved = j.ok]
            /\ backoff' = IF j.ok THEN backoff \ {j.op} ELSE backoff \cup {j.op}
            /\ jobs' = jobs \ {j}
       ELSE /\ IF j.op \in Known THEN Moves(j, [j EXCEPT !.at = "again"])
               ELSE jobs' = jobs \ {j}
            /\ UNCHANGED <<snapshots, backoff>>
    /\ UNCHANGED <<started, order, active, worker, reconciled, startup, ready, rows, bounds>>

(* Between the two critical sections the operation may have been evicted. *)
JobSchedulesAgain(j) ==
    /\ j.at = "again"
    /\ Schedule(j.op, jobs \ {j})
    /\ UNCHANGED <<started, snapshots, order, active, backoff, worker, reconciled, startup,
                   ready, rows, bounds>>

-------------------------------------------------------------------------------
(* DatabaseRuntime opens the database; it never loses it again. *)
DatabaseOpens ==
    /\ ~ready
    /\ ready' = TRUE
    /\ UNCHANGED <<started, memory, worker, jobs, reconciled, startup, rows, bounds>>

(* The process ends and is started again. *)
Crash ==
    /\ crashes < MaxCrashes
    /\ crashes' = crashes + 1
    /\ started' = [o \in Operations |-> IF started[o] = "now" THEN "earlier" ELSE started[o]]
    /\ snapshots' = [o \in {} |-> 0] /\ order' = <<>> /\ active' = None
    /\ inProgress' = {} /\ backoff' = {}
    /\ worker' = [o \in Operations |-> "none"]
    /\ jobs' = {}
    /\ reconciled' = FALSE /\ startup' = TRUE /\ ready' = FALSE
    /\ UNCHANGED <<rows, failures>>

Worker(o) == MarkRunning(o) \/ WorkerSchedules(o) \/ FinishProbe(o)
Job == \E j \in jobs : JobReconciles(j) \/ JobWrites(j) \/ FinishPersistence(j)
                       \/ JobSchedulesAgain(j)

Next ==
    \/ StartProbe
    \/ \E o \in Operations : Worker(o) \/ GetProbe(o) \/ BackoffEnds(o)
    \/ Job
    \/ StartupReconciles \/ RetryReconciles
    \/ DatabaseOpens
    \/ Crash

Spec == Init /\ [][Next]_vars

(* Spawned tasks run; the database opens in the end; the frontend polls the     *)
(* newest operation, and that alone.  Nobody has to start a probe.              *)
PollNewest == order # <<>> /\ GetProbe(order[Len(order)])

Fairness ==
    /\ \A o \in Operations : WF_vars(Worker(o)) /\ WF_vars(BackoffEnds(o))
    /\ WF_vars(Job)
    /\ WF_vars(PollNewest)
    /\ WF_vars(StartupReconciles)
    /\ WF_vars(DatabaseOpens)

FairSpec == Spec /\ Fairness

-------------------------------------------------------------------------------
(* Properties *)

(* Type invariant of the registry, the jobs and the table, with the capacity of *)
(* the registry and the agreement of its two indexes.                           *)
TypeOK ==
    /\ started \in [Operations -> {"never", "earlier", "now"}]
    /\ Known \subseteq Operations
    /\ snapshots \in [Known -> Snapshots]
    /\ Cardinality(Known) <= MaxRetained
    /\ order \in Seq(Known) /\ Len(order) = Cardinality(Known)
    /\ active \in Known \cup {None}
    /\ inProgress \subseteq Operations /\ backoff \subseteq Known
    /\ worker \in [Operations -> WorkerSteps]
    /\ jobs \subseteq Jobs
    /\ reconciled \in BOOLEAN /\ startup \in BOOLEAN /\ ready \in BOOLEAN
    /\ rows \in [Operations -> Rows \cup {None}]
    /\ crashes \in 0..MaxCrashes /\ failures \in 0..MaxFailures

(* A snapshot that says its history is saved has the row that says the same: a *)
(* write that raced with a change of status does not count for the new status. *)
SavedIsTrue ==
    \A o \in Known : snapshots[o].saved =>
        rows[o] # None /\ rows[o].status = snapshots[o].status

(* The adapter never runs two probes: double clicks, retries and a worker whose *)
(* end is not yet recorded do not start a second one.                           *)
OneProbeRuns ==
    \A o \in Operations : worker[o] \in {"queued", "announce", "probing"} => active = o

(* Rows never go back to an earlier revision, and a row that is over, by its own *)
(* end or by reconciliation, keeps its status: no late job, retry or restarted   *)
(* process rewrites it.                                                          *)
HistoryOnlyAdvances ==
    [][\A o \in Operations : rows[o] # None =>
          /\ rows'[o] # None
          /\ rows'[o].revision >= rows[o].revision
          /\ rows[o].status \in Over => rows'[o].status = rows[o].status]_vars

(* What an earlier process left unfinished is marked before this process writes *)
(* its first row.                                                               *)
StaleBeforeOwn ==
    (\E o \in Operations : started[o] = "now" /\ rows[o] # None) =>
        \A p \in Operations : started[p] = "earlier" /\ rows[p] # None => rows[p].status \in Over

(* ... and no row of this process is ever taken for an unfinished one, however  *)
(* late the startup reconciliation or a job's own comes.                        *)
OwnNotInterrupted ==
    \A o \in Operations : started[o] = "now" /\ rows[o] # None =>
        rows[o].status # "needs_reconciliation"

(* A probe does not stay active for ever. *)
ActiveEnds == active # None ~> active = None

(* The end of the newest operation is saved in the end, although the write that *)
(* should have saved it may have been skipped because of an earlier failure.    *)
Newest(o) == order # <<>> /\ order[Len(order)] = o
FinishedIsSaved ==
    \A o \in Operations :
        (Newest(o) /\ snapshots[o].status \in Terminal) ~> (~Newest(o) \/ snapshots[o].saved)

(* A row left unfinished by a crash is marked in the end, unless the one attempt *)
(* at startup failed and the process never starts a probe.                       *)
Stale(o) == started[o] = "earlier" /\ rows[o] # None /\ rows[o].status \in Live
StaleIsReconciled ==
    \A o \in Operations :
        Stale(o) ~> (~Stale(o) \/ [](\A p \in Operations : started[p] # "now"))
===============================================================================
