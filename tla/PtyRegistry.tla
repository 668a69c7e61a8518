------------------------------ MODULE PtyRegistry ------------------------------
(***************************************************************************)
(* The bounded registry of embedded PTY runs (infrastructure/pty/runtime.rs*)
(* start_omp, prune_runs, close_run): starts that compete for its mutex,   *)
(* the eviction of finished runs, and the moment at which a run becomes    *)
(* visible to the WebView.  What happens to one run between its start and  *)
(* its removal is the subject of PtyRun; here a run has the variables of   *)
(* RunLifecycle, and each run is shown to be one.                          *)
(*                                                                         *)
(* A start is named by the run it may create.  Wall-clock times come from  *)
(* a small set and need not be monotonic.                                  *)
(***************************************************************************)
EXTENDS Naturals, FiniteSets

CONSTANTS
    Runs,     \* run ids, each used by one start
    None,     \* nobody holds the mutex
    MaxRuns,  \* MAXIMUM_RUNS
    Times     \* values of epoch_millis

ASSUME PtyRegistryAssumption ==
    /\ None \notin Runs
    /\ MaxRuns \in Nat \ {0}
    /\ Times \subseteq Nat /\ Times # {}

VARIABLES
    start,      \* where start_omp of each run stands
    holder,     \* the start that holds the registry mutex
    startedAt,  \* the registry: started_at_epoch_ms of each listed run
    children,   \* runs whose child has been spawned
    announced,  \* runs whose creation event was emitted
    removed,    \* runs that were listed and are no longer: history variable
    status, drained, exitCode   \* of each run, as in RunLifecycle

runVars == <<status, drained, exitCode>>
vars == <<start, holder, startedAt, children, announced, removed, runVars>>

Statuses == {"running", "exited", "failed"}
StartSteps == {"none", "lock", "open", "insert", "announce", "threads", "over", "refused"}
Listed == DOMAIN startedAt
Closable(r) == status[r] # "running" /\ drained[r]

Init ==
    /\ start = [r \in Runs |-> "none"]
    /\ holder = None
    /\ startedAt = [r \in {} |-> 0]
    /\ children = {} /\ announced = {} /\ removed = {}
    /\ status = [r \in Runs |-> "running"]
    /\ drained = [r \in Runs |-> FALSE]
    /\ exitCode = [r \in Runs |-> FALSE]

-------------------------------------------------------------------------------
(* start_omp *)

(* The plan was accepted; the mutex is yet to be had. *)
StartBegins(r) ==
    /\ start[r] = "none"
    /\ start' = [start EXCEPT ![r] = "lock"]
    /\ UNCHANGED <<holder, startedAt, children, announced, removed, runVars>>

(* How many runs must go so that one more fits. *)
RemoveCount ==
    IF Cardinality(Listed) < MaxRuns THEN 0 ELSE Cardinality(Listed) + 1 - MaxRuns

(* Variant for the mutation checks: a final status is enough. *)
PrunableWhileDraining == {r \in Listed : status[r] # "running"}

Prunable == {r \in Listed : Closable(r)}

(* The oldest removable runs; the order of runs started at the same time is the *)
(* iteration order of a HashMap.                                                *)
Oldest(gone) == \A r \in gone, s \in Prunable \ gone : startedAt[r] <= startedAt[s]

Forgets(gone) ==
    /\ startedAt' = [r \in Listed \ gone |-> startedAt[r]]
    /\ removed' = removed \cup gone

(* Variant for the mutation checks: the mutex is released before the spawn. *)
PrunesAndReleases(r) ==
    /\ start[r] = "lock"
    /\ holder = None
    /\ Cardinality(Prunable) >= RemoveCount
    /\ \E gone \in SUBSET Prunable :
         Cardinality(gone) = RemoveCount /\ Oldest(gone) /\ Forgets(gone)
    /\ start' = [start EXCEPT ![r] = "open"]
    /\ UNCHANGED <<holder, children, announced, runVars>>

(* prune_runs, with the mutex that is then kept until the run is listed. *)
Prunes(r) ==
    /\ start[r] = "lock"
    /\ holder = None
    /\ Cardinality(Prunable) >= RemoveCount
    /\ \E gone \in SUBSET Prunable :
         Cardinality(gone) = RemoveCount /\ Oldest(gone) /\ Forgets(gone)
    /\ holder' = r
    /\ start' = [start EXCEPT ![r] = "open"]
    /\ UNCHANGED <<children, announced, runVars>>

(* ... which refuses the start, and removes nothing, when too few runs can go. *)
LimitReached(r) ==
    /\ start[r] = "lock"
    /\ holder = None
    /\ Cardinality(Prunable) < RemoveCount
    /\ start' = [start EXCEPT ![r] = "refused"]
    /\ UNCHANGED <<holder, startedAt, children, announced, removed, runVars>>

(* openpty, the executable's verification or the spawn fails: what was pruned *)
(* for this start is gone all the same.                                       *)
StartFails(r) ==
    /\ start[r] = "open"
    /\ holder' = IF holder = r THEN None ELSE holder
    /\ start' = [start EXCEPT ![r] = "refused"]
    /\ UNCHANGED <<startedAt, children, announced, removed, runVars>>

ChildSpawns(r) ==
    /\ start[r] = "open"
    /\ children' = children \cup {r}
    /\ start' = [start EXCEPT ![r] = "insert"]
    /\ UNCHANGED <<holder, startedAt, announced, removed, runVars>>

(* The run is listed and the mutex released. *)
Inserts(r) ==
    /\ start[r] = "insert"
    /\ \E now \in Times :
         startedAt' = [s \in Listed \cup {r} |-> IF s = r THEN now ELSE startedAt[s]]
    /\ holder' = IF holder = r THEN None ELSE holder
    /\ start' = [start EXCEPT ![r] = "announce"]
    /\ UNCHANGED <<children, announced, removed, runVars>>

(* Variant for the mutation checks: the event leaves with the child's spawn. *)
AnnouncesEarly(r) ==
    /\ start[r] \in {"open", "insert", "announce"}
    /\ announced' = announced \cup {r}
    /\ start' = IF start[r] = "announce" THEN [start EXCEPT ![r] = "threads"] ELSE start
    /\ UNCHANGED <<holder, startedAt, children, removed, runVars>>

(* sink.status with the first snapshot. *)
Announces(r) ==
    /\ start[r] = "announce"
    /\ announced' = announced \cup {r}
    /\ start' = [start EXCEPT ![r] = "threads"]
    /\ UNCHANGED <<holder, startedAt, children, removed, runVars>>

(* The writer, the reader and the waiter are spawned; the call returns. *)
ThreadsStart(r) ==
    /\ start[r] = "threads"
    /\ start' = [start EXCEPT ![r] = "over"]
    /\ UNCHANGED <<holder, startedAt, children, announced, removed, runVars>>

-------------------------------------------------------------------------------
(* The run's own threads, as far as the registry can tell (PtyRun). *)

Drains(r) ==
    /\ start[r] = "over" /\ ~drained[r]
    /\ drained' = [drained EXCEPT ![r] = TRUE]
    /\ UNCHANGED <<start, holder, startedAt, children, announced, removed, status, exitCode>>

Ends(r) ==
    /\ start[r] = "over" /\ status[r] = "running"
    /\ \/ /\ drained[r]
          /\ status' = [status EXCEPT ![r] = "exited"]
          /\ exitCode' = [exitCode EXCEPT ![r] = TRUE]
       \/ status' = [status EXCEPT ![r] = "failed"] /\ UNCHANGED exitCode
    /\ UNCHANGED <<start, holder, startedAt, children, announced, removed, drained>>

-------------------------------------------------------------------------------
(* close_run: the check and the removal are in one scope of the mutex. *)
Closes(r) ==
    /\ holder = None
    /\ r \in Prunable
    /\ Forgets({r})
    /\ UNCHANGED <<start, holder, children, announced, runVars>>

Starts(r) == Prunes(r) \/ LimitReached(r) \/ StartFails(r) \/ ChildSpawns(r)
             \/ Inserts(r) \/ Announces(r) \/ ThreadsStart(r)

Next == \E r \in Runs : StartBegins(r) \/ Starts(r) \/ Drains(r) \/ Ends(r) \/ Closes(r)

Spec == Init /\ [][Next]_vars

-------------------------------------------------------------------------------
(* Properties *)

(* Type invariant; the mutex is held by the one start that has pruned and not *)
(* yet listed its run.                                                        *)
TypeOK ==
    /\ start \in [Runs -> StartSteps]
    /\ holder \in Runs \cup {None}
    /\ \A r \in Runs : holder = r <=> start[r] \in {"open", "insert"}
    /\ Listed \subseteq Runs /\ startedAt \in [Listed -> Times]
    /\ children \subseteq Runs /\ announced \subseteq Runs /\ removed \subseteq Runs
    /\ status \in [Runs -> Statuses]
    /\ drained \in [Runs -> BOOLEAN] /\ exitCode \in [Runs -> BOOLEAN]

(* The registry never holds more runs than its limit, however many starts race *)
(* and whatever they evict.                                                    *)
WithinLimit == Cardinality(Listed) <= MaxRuns

(* "Holding the registry lock through insertion prevents concurrent starts from *)
(* creating an untracked child after the active-run limit has been reached":    *)
(* a child that may be running is listed, or is about to be by the start that   *)
(* holds the mutex, and all of them together are within the limit.              *)
LiveChildren == {r \in children : status[r] = "running"}
ChildrenAreTracked ==
    /\ LiveChildren \subseteq Listed \cup {holder}
    /\ Cardinality(LiveChildren) <= MaxRuns

(* A view that lists the runs on hearing of a new one finds it: the event comes *)
(* after the entry, and no eviction or close comes between.                     *)
EventAfterEntry == [][announced' \ announced \subseteq Listed']_vars

(* Every run, seen through the registry, lives the life RunLifecycle describes: *)
(* neither eviction nor close takes one that runs or whose output is coming in. *)
Life(r) == INSTANCE RunLifecycle WITH
    status <- status[r], drained <- drained[r], exitCode <- exitCode[r],
    listed <- r \notin removed
LivesOn == \A r \in Runs : Life(r)!Next \/ UNCHANGED Life(r)!vars
RunsHaveLifecycle == [][LivesOn]_vars
===============================================================================
