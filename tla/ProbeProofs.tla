------------------------------ MODULE ProbeProofs ------------------------------
(***************************************************************************)
(* What a probe of OMP guarantees: its operation and its history           *)
(* (ProbeHistory), for every number of operations, crashes and failed      *)
(* writes and every capacity of the registry, and the processes it asks    *)
(* (OmpProbe), for every number of candidates and help commands.           *)
(***************************************************************************)
EXTENDS ProbeHistory, OmpProbe, FiniteSetTheorems, TLAPS

-------------------------------------------------------------------------------
(* ProbeHistory.  The argument: an operation has at most one job in flight,    *)
(* the job's copy is never newer than the snapshot nor older than the row, and *)
(* a copy of the same revision is the same; rows of this process exist only    *)
(* after its reconciliation.                                                   *)

(* The parts of the type invariant the argument uses. *)
Types ==
    /\ started \in [Operations -> {"never", "earlier", "now"}]
    /\ Known \subseteq Operations
    /\ snapshots \in [Known -> Snapshots]
    /\ worker \in [Operations -> WorkerSteps]
    /\ jobs \subseteq Jobs
    /\ reconciled \in BOOLEAN
    /\ rows \in [Operations -> Rows \cup {None}]

(* Which process an operation, a job and a row belong to. *)
Own ==
    /\ \A o \in Known : started[o] = "now"
    /\ \A j \in jobs : started[j.op] = "now"
    /\ \A o \in Operations : started[o] = "never" => rows[o] = None

(* The database is written by this process only after reconciliation. *)
Reconciliation ==
    /\ ~reconciled => /\ \A o \in Operations : started[o] = "now" => rows[o] = None
                      /\ \A j \in jobs : j.at # "write" /\ (j.at = "done" => ~j.ok)
    /\ reconciled => \A o \in Operations :
                        started[o] = "earlier" /\ rows[o] # None => rows[o].status \in Over
    /\ OwnNotInterrupted

(* The worker's position determines a live status. *)
Workers ==
    /\ OneProbeRuns
    /\ \A o \in Known : /\ worker[o] = "queued" => snapshots[o].status = "queued"
                        /\ worker[o] \in {"announce", "probing"} => snapshots[o].status = "running"

InFlight(j) == j.at \in {"reconcile", "write", "done"}

(* Status s at revision r of the older of two records can be replaced by t at u. *)
Older(s, r, t, u) == r <= u /\ (s \in Terminal => t = s)

OneJob ==
    /\ inProgress \subseteq Known
    /\ \A j \in jobs : InFlight(j) => j.op \in inProgress
    /\ \A j, k \in jobs : InFlight(j) /\ InFlight(k) /\ j.op = k.op => j = k

(* A job's copy lies between the row and the snapshot. *)
Copies ==
    \A j \in jobs : InFlight(j) =>
        /\ ~snapshots[j.op].saved
        /\ Older(j.status, j.revision, snapshots[j.op].status, snapshots[j.op].revision)
        /\ j.revision = snapshots[j.op].revision => j.status = snapshots[j.op].status
        /\ j.at # "done" /\ rows[j.op] # None =>
              Older(rows[j.op].status, rows[j.op].revision, j.status, j.revision)
        /\ j.at = "done" /\ j.ok =>
              rows[j.op] = [status |-> j.status, revision |-> j.revision]

History ==
    /\ \A o \in Known : rows[o] # None =>
          Older(rows[o].status, rows[o].revision, snapshots[o].status, snapshots[o].revision)
    /\ SavedIsTrue

IInv == Types /\ Own /\ Reconciliation /\ Workers /\ OneJob /\ Copies /\ History

-------------------------------------------------------------------------------
(* The initial state. *)
LEMMA InitHolds == Init => IInv
<1> SUFFICES ASSUME Init PROVE IInv
  OBVIOUS
<1>1. Known = {} /\ snapshots \in [Known -> Snapshots]
  BY DEF Init, Known
<1>2. Types
  BY <1>1 DEF Init, Types, WorkerSteps
<1>3. Own /\ Reconciliation /\ OneJob
  BY <1>1 DEF Init, Own, Reconciliation, OneJob, OwnNotInterrupted
<1>4. Workers
  BY <1>1 DEF Init, Workers, OneProbeRuns
<1>5. Copies /\ History
  BY <1>1 DEF Init, Copies, History, SavedIsTrue
<1> QED BY <1>2, <1>3, <1>4, <1>5 DEF IInv

-------------------------------------------------------------------------------
(* Scheduling a write: the new job carries the present snapshot, and it is the *)
(* only one in flight for its operation.                                       *)
LEMMA ScheduleKeeps ==
    ASSUME IInv, NEW o \in Operations, NEW others \in SUBSET jobs, Schedule(o, others),
           UNCHANGED <<started, snapshots, rows, reconciled>>
    PROVE  /\ jobs' \subseteq Jobs
           /\ Own' /\ Reconciliation' /\ OneJob' /\ Copies' /\ History'
<1> USE DEF IInv
<1>0. Known' = Known
  BY DEF Known
<1>1. CASE o \in Known /\ Schedulable(o)
  <2> DEFINE new == [op |-> o, status |-> snapshots[o].status, revision |-> snapshots[o].revision,
                     at |-> "reconcile", ok |-> TRUE]
  <2>1. jobs' = others \cup {new} /\ inProgress' = inProgress \cup {o}
    BY <1>1 DEF Schedule
  <2>2. snapshots[o] \in Snapshots /\ ~snapshots[o].saved /\ o \notin inProgress
    BY <1>1 DEF Types, Schedulable
  <2>3. new \in Jobs /\ new.op = o /\ InFlight(new) /\ new.at = "reconcile"
    BY <2>2 DEF Jobs, Snapshots, InFlight
  <2> HIDE DEF new
  <2>4. jobs' \subseteq Jobs
    BY <2>1, <2>3 DEF Types
  <2>5. Own'
    BY <1>0, <1>1, <2>1, <2>3 DEF Own
  <2>6. Reconciliation'
    BY <2>1, <2>3 DEF Reconciliation, OwnNotInterrupted
  <2>7. OneJob'
    <3>1. \A j \in others : InFlight(j) => j.op \in inProgress
      BY DEF OneJob
    <3>2. (inProgress \subseteq Known)'
      BY <1>0, <1>1, <2>1 DEF OneJob
    <3>3. \A j \in jobs' : InFlight(j) => j.op \in inProgress'
      BY <2>1, <2>3, <3>1
    <3>4. \A j, k \in jobs' : InFlight(j) /\ InFlight(k) /\ j.op = k.op => j = k
      BY <2>1, <2>2, <2>3, <3>1 DEF OneJob
    <3> QED BY <3>2, <3>3, <3>4 DEF OneJob, InFlight
  <2>8. Copies'
    <3>1. new.status = snapshots[o].status /\ new.revision = snapshots[o].revision
      BY DEF new
    <3>2. rows[o] # None => Older(rows[o].status, rows[o].revision, new.status, new.revision)
      BY <1>1, <3>1 DEF History
    <3>3. Older(new.status, new.revision, snapshots[o].status, snapshots[o].revision)
      BY <2>2, <3>1 DEF Older, Snapshots
    <3> QED BY <2>1, <2>2, <2>3, <3>1, <3>2, <3>3 DEF Copies, InFlight, Older
  <2>9. History'
    BY <1>0 DEF History, SavedIsTrue, Older
  <2> QED BY <2>4, <2>5, <2>6, <2>7, <2>8, <2>9
<1>2. CASE ~(o \in Known /\ Schedulable(o))
  <2>1. jobs' = others /\ UNCHANGED inProgress
    BY <1>2 DEF Schedule
  <2>2. jobs' \subseteq Jobs /\ Own' /\ Reconciliation'
    BY <1>0, <2>1 DEF Types, Own, Reconciliation, OwnNotInterrupted
  <2>3. OneJob'
    BY <1>0, <2>1 DEF OneJob, InFlight
  <2>4. Copies' /\ History'
    BY <1>0, <2>1 DEF Copies, History, SavedIsTrue, InFlight, Older
  <2> QED BY <2>2, <2>3, <2>4
<1> QED BY <1>1, <1>2

-------------------------------------------------------------------------------
(* One lemma for each action. *)

(* What the invariant talks about; backoff, order, startup, ready and the bounds *)
(* are not part of it.                                                           *)
LEMMA StutterKeeps ==
    ASSUME IInv, UNCHANGED <<started, snapshots, active, inProgress, worker, jobs, reconciled, rows>>
    PROVE  IInv'
<1> USE DEF IInv
<1>1. Known' = Known
  BY DEF Known
<1>2. Types' /\ Own' /\ Workers'
  BY <1>1 DEF Types, Own, Workers, OneProbeRuns
<1>3. Reconciliation' /\ OneJob'
  BY <1>1 DEF Reconciliation, OwnNotInterrupted, OneJob, InFlight
<1>4. Copies' /\ History'
  BY <1>1 DEF Copies, History, SavedIsTrue, InFlight, Older
<1> QED BY <1>2, <1>3, <1>4

LEMMA StartProbeKeeps == ASSUME IInv, StartProbe PROVE IInv'
<1> USE DEF IInv
<1> DEFINE kept == Known \ Evicted
           new == NewId
<1>1. \A o \in Evicted : o \notin inProgress
  BY DEF Evicted, EvictableAt, Evictable
<1>2. new \in Operations /\ started[new] = "never"
  BY DEF StartProbe, NewId, Unused
<1>3. new \notin Known /\ new \notin inProgress /\ rows[new] = None
       /\ \A j \in jobs : j.op # new
  BY <1>2 DEF Own, OneJob
<1>4. inProgress \subseteq kept
  BY <1>1 DEF OneJob
<1>5. UNCHANGED <<inProgress, jobs, reconciled, rows>>
  BY DEF StartProbe
<1>6. CASE Cardinality(EvictableAt) >= Excess
  <2>1. /\ started' = [started EXCEPT ![new] = "now"]
        /\ snapshots' = [p \in kept \cup {new} |->
                          IF p = new THEN [status |-> "queued", revision |-> 1, saved |-> FALSE]
                          ELSE snapshots[p]]
        /\ active = None /\ active' = new
        /\ worker' = [worker EXCEPT ![new] = "queued"]
    BY <1>6 DEF StartProbe, Busy
  <2> HIDE DEF kept, new
  <2>2. Known' = kept \cup {new} /\ kept \subseteq Known
    BY <2>1 DEF Known, kept
  <2>3. snapshots'[new] = [status |-> "queued", revision |-> 1, saved |-> FALSE]
    BY <2>1
  <2>4. \A o \in kept : snapshots'[o] = snapshots[o] /\ o # new
    BY <1>3, <2>1, <2>2
  <2>5. \A o \in Operations : o # new => started'[o] = started[o] /\ worker'[o] = worker[o]
    BY <2>1 DEF Types
  <2>6. started'[new] = "now" /\ worker'[new] = "queued"
    BY <1>2, <2>1 DEF Types
  <2>7. Types'
    <3>1. snapshots'[new] \in Snapshots
      BY <2>3 DEF Snapshots, Live
    <3>2. \A o \in kept : snapshots'[o] \in Snapshots
      BY <2>2, <2>4 DEF Types
    <3>3. snapshots' \in [Known' -> Snapshots]
      BY <2>1, <2>2, <3>1, <3>2
    <3>4. Known' \subseteq Operations
      BY <1>2, <2>2 DEF Types
    <3>5. started' \in [Operations -> {"never", "earlier", "now"}]
      BY <1>2, <2>1 DEF Types
    <3>6. worker' \in [Operations -> WorkerSteps]
      BY <1>2, <2>1 DEF Types, WorkerSteps
    <3> QED BY <1>5, <3>3, <3>4, <3>5, <3>6 DEF Types
  <2>8. Own'
    BY <1>3, <1>5, <2>2, <2>5, <2>6 DEF Own, Types, Jobs
  <2>9. Reconciliation'
    BY <1>3, <1>5, <2>5, <2>6 DEF Reconciliation, OwnNotInterrupted
  <2>10. Workers'
    BY <2>1, <2>2, <2>3, <2>4, <2>5, <2>6, <1>2, ProbeHistoryAssumption
       DEF Workers, OneProbeRuns, Types
  <2>11. OneJob'
    BY <1>4, <1>5, <2>2 DEF OneJob, InFlight
  <2>12. Copies'
    <3>1. \A j \in jobs : InFlight(j) => j.op \in kept
      BY <1>4 DEF OneJob
    <3> QED BY <1>5, <2>4, <3>1 DEF Copies, InFlight, Older
  <2>13. History'
    BY <1>3, <1>5, <2>2, <2>3, <2>4 DEF History, SavedIsTrue, Older
  <2> QED BY <2>7, <2>8, <2>9, <2>10, <2>11, <2>12, <2>13
<1>7. CASE ~(Cardinality(EvictableAt) >= Excess)
  <2>1. snapshots' = [p \in kept |-> snapshots[p]] /\ UNCHANGED <<started, active, worker>>
    BY <1>7 DEF StartProbe
  <2> HIDE DEF kept
  <2>2. Known' = kept /\ kept \subseteq Known
    BY <2>1 DEF Known, kept
  <2>3. \A o \in kept : snapshots'[o] = snapshots[o]
    BY <2>1
  <2>4. Types'
    BY <1>5, <2>1, <2>2, <2>3 DEF Types
  <2>5. Own' /\ Reconciliation' /\ Workers'
    BY <1>5, <2>1, <2>2, <2>3 DEF Own, Reconciliation, Workers, OwnNotInterrupted, OneProbeRuns
  <2>6. OneJob'
    BY <1>4, <1>5, <2>2 DEF OneJob, InFlight
  <2>7. Copies'
    <3>1. \A j \in jobs : InFlight(j) => j.op \in kept
      BY <1>4 DEF OneJob
    <3> QED BY <1>5, <2>3, <3>1 DEF Copies, InFlight, Older
  <2>8. History'
    BY <1>5, <2>2, <2>3 DEF History, SavedIsTrue, Older
  <2> QED BY <2>4, <2>5, <2>6, <2>7, <2>8
<1> QED BY <1>6, <1>7

(* A change of status makes the snapshot newer than every copy of it, and never *)
(* replaces a terminal status.                                                  *)
LEMMA AdvanceKeeps ==
    ASSUME IInv, NEW o \in Operations, NEW status \in Live \cup Terminal, Advance(o, status),
           o \in Known => snapshots[o].status \notin Terminal,
           UNCHANGED <<started, inProgress, jobs, reconciled, rows>>
    PROVE  /\ Known' = Known /\ snapshots' \in [Known -> Snapshots]
           /\ \A p \in Known : p # o => snapshots'[p] = snapshots[p]
           /\ o \in Known => snapshots'[o].status = status
           /\ Own' /\ Reconciliation' /\ OneJob' /\ Copies' /\ History'
<1> USE DEF IInv
<1>1. Known' = Known
  BY DEF Advance, Known, Types
<1>2. \A p \in Known : p # o => snapshots'[p] = snapshots[p]
  BY DEF Advance, Known, Types
<1>3. o \in Known => snapshots'[o] = [status |-> status, revision |-> snapshots[o].revision + 1,
                                      saved |-> FALSE]
  BY DEF Advance, Known, Types
<1>4. \A p \in Known : snapshots[p] \in Snapshots
  BY DEF Types
<1>5. snapshots' \in [Known -> Snapshots]
  <2>1. o \in Known => snapshots'[o] \in Snapshots
    <3> SUFFICES ASSUME o \in Known PROVE snapshots'[o] \in Snapshots
      OBVIOUS
    <3>1. snapshots[o].revision + 1 \in Nat \ {0}
      BY <1>4 DEF Snapshots
    <3>2. [status |-> status, revision |-> snapshots[o].revision + 1, saved |-> FALSE] \in Snapshots
      BY <3>1, Zenon DEF Snapshots
    <3> QED BY <1>3, <3>2, Zenon
  <2>2. DOMAIN snapshots' = Known
    BY <1>1 DEF Known
  <2>3. \A p \in Known : snapshots'[p] \in Snapshots
    BY <1>2, <1>4, <2>1
  <2>4. snapshots' = [p \in Known |-> snapshots'[p]]
    BY <2>2 DEF Advance, Types
  <2> QED BY <2>3, <2>4
<1>6. Own' /\ Reconciliation' /\ OneJob'
  BY <1>1 DEF Own, Reconciliation, OwnNotInterrupted, OneJob, InFlight
<1>7. Copies'
  <2> SUFFICES ASSUME NEW j \in jobs, InFlight(j)
               PROVE  /\ ~snapshots'[j.op].saved
                      /\ Older(j.status, j.revision, snapshots'[j.op].status, snapshots'[j.op].revision)
                      /\ j.revision = snapshots'[j.op].revision => j.status = snapshots'[j.op].status
    BY DEF Copies, InFlight, Older
  <2>1. j.op \in Known /\ j \in Jobs /\ snapshots[j.op] \in Snapshots
    BY <1>4 DEF OneJob, Types
  <2>2. CASE j.op # o
    BY <1>2, <2>1, <2>2 DEF Copies
  <2>3. CASE j.op = o
    <3>1. snapshots'[o] = [status |-> status, revision |-> snapshots[o].revision + 1, saved |-> FALSE]
      BY <1>3, <2>1, <2>3
    <3>2. /\ j.revision \in Nat /\ snapshots[o].revision \in Nat
          /\ j.revision <= snapshots[o].revision
          /\ j.status \notin Terminal
      BY <2>1, <2>3 DEF Copies, Older, Jobs, Snapshots
    <3> QED BY <2>3, <3>1, <3>2 DEF Older
  <2> QED BY <2>2, <2>3
<1>8. History'
  <2> SUFFICES ASSUME NEW p \in Known, rows[p] # None \/ snapshots'[p].saved
               PROVE  /\ rows[p] # None => Older(rows[p].status, rows[p].revision,
                                                 snapshots'[p].status, snapshots'[p].revision)
                      /\ snapshots'[p].saved => rows[p] # None /\ rows[p].status = snapshots'[p].status
    BY <1>1 DEF History, SavedIsTrue, Older
  <2>1. p \in Operations /\ snapshots[p] \in Snapshots /\ (rows[p] # None => rows[p] \in Rows)
    BY <1>4 DEF Types
  <2>2. CASE p # o
    BY <1>2, <2>1, <2>2 DEF History, SavedIsTrue
  <2>3. CASE p = o
    BY <1>3, <2>1, <2>3 DEF History, Older, Rows, Snapshots
  <2> QED BY <2>2, <2>3
<1> QED BY <1>1, <1>2, <1>3, <1>5, <1>6, <1>7, <1>8

LEMMA MarkRunningKeeps ==
    ASSUME IInv, NEW o \in Operations, MarkRunning(o) PROVE IInv'
<1> USE DEF IInv
<1>1. /\ worker[o] = "queued" /\ Advance(o, "running")
      /\ worker' = [worker EXCEPT ![o] = "announce"]
      /\ UNCHANGED <<started, active, inProgress, jobs, reconciled, rows>>
  BY DEF MarkRunning
<1>2. o \in Known => snapshots[o].status \notin Terminal
  BY <1>1 DEF Workers, Terminal
<1>3. "running" \in Live \cup Terminal
  BY DEF Live
<1>4. /\ Known' = Known /\ snapshots' \in [Known -> Snapshots]
      /\ \A p \in Known : p # o => snapshots'[p] = snapshots[p]
      /\ o \in Known => snapshots'[o].status = "running"
      /\ Own' /\ Reconciliation' /\ OneJob' /\ Copies' /\ History'
  BY <1>1, <1>2, <1>3, AdvanceKeeps
<1>5. Types'
  BY <1>1, <1>4 DEF Types, WorkerSteps
<1>6. \A p \in Operations : worker'[p] = IF p = o THEN "announce" ELSE worker[p]
  BY <1>1 DEF Types
<1>7. Workers'
  BY <1>1, <1>4, <1>6 DEF Workers, OneProbeRuns, Types
<1> QED BY <1>4, <1>5, <1>7

LEMMA FinishProbeKeeps ==
    ASSUME IInv, NEW o \in Operations, FinishProbe(o) PROVE IInv'
<1> USE DEF IInv
<1>1. PICK status \in Outcomes : Advance(o, status)
  BY DEF FinishProbe
<1>2. /\ worker[o] = "probing"
      /\ active' = IF active = o THEN None ELSE active
      /\ worker' = [worker EXCEPT ![o] = "record"]
      /\ UNCHANGED <<started, inProgress, jobs, reconciled, rows>>
  BY DEF FinishProbe
<1>3. o \in Known => snapshots[o].status \notin Terminal
  BY <1>2 DEF Workers, Terminal
<1>4. status \in Live \cup Terminal
  BY <1>1, ProbeHistoryAssumption DEF Terminal
<1>5. /\ Known' = Known /\ snapshots' \in [Known -> Snapshots]
      /\ \A p \in Known : p # o => snapshots'[p] = snapshots[p]
      /\ Own' /\ Reconciliation' /\ OneJob' /\ Copies' /\ History'
  BY <1>1, <1>2, <1>3, <1>4, AdvanceKeeps
<1>6. Types'
  BY <1>2, <1>5 DEF Types, WorkerSteps
<1>7. \A p \in Operations : worker'[p] = IF p = o THEN "record" ELSE worker[p]
  BY <1>2 DEF Types
<1>8. Workers'
  <2>1. OneProbeRuns'
    BY <1>2, <1>7 DEF Workers, OneProbeRuns
  <2> QED BY <1>5, <1>7, <2>1 DEF Workers, Types
<1> QED BY <1>5, <1>6, <1>8

LEMMA WorkerSchedulesKeeps ==
    ASSUME IInv, NEW o \in Operations, WorkerSchedules(o) PROVE IInv'
<1> USE DEF IInv
<1>1. /\ worker[o] \in {"announce", "record"}
      /\ Schedule(o, jobs)
      /\ worker' = [worker EXCEPT ![o] = IF @ = "announce" THEN "probing" ELSE "done"]
      /\ UNCHANGED <<started, snapshots, active, reconciled, rows>>
  BY DEF WorkerSchedules
<1>2. /\ jobs' \subseteq Jobs
      /\ Own' /\ Reconciliation' /\ OneJob' /\ Copies' /\ History'
  BY <1>1, ScheduleKeeps
<1>3. Known' = Known
  BY <1>1 DEF Known
<1>4. Types'
  BY <1>1, <1>2, <1>3 DEF Types, WorkerSteps
<1>5. \A p \in Operations : worker'[p] = IF p # o THEN worker[p]
                            ELSE IF worker[o] = "announce" THEN "probing" ELSE "done"
  BY <1>1 DEF Types
<1>6. Workers'
  BY <1>1, <1>3, <1>5 DEF Workers, OneProbeRuns, Types
<1> QED BY <1>2, <1>4, <1>6

LEMMA GetProbeKeeps ==
    ASSUME IInv, NEW o \in Operations, GetProbe(o) PROVE IInv'
<1> USE DEF IInv
<1>1. Schedule(o, jobs) /\ UNCHANGED <<started, snapshots, active, worker, reconciled, rows>>
  BY DEF GetProbe
<1>2. /\ jobs' \subseteq Jobs
      /\ Own' /\ Reconciliation' /\ OneJob' /\ Copies' /\ History'
  BY <1>1, ScheduleKeeps
<1>3. Known' = Known
  BY <1>1 DEF Known
<1>4. Types' /\ Workers'
  BY <1>1, <1>2, <1>3 DEF Types, Workers, OneProbeRuns
<1> QED BY <1>2, <1>4

LEMMA JobSchedulesAgainKeeps ==
    ASSUME IInv, NEW j \in jobs, JobSchedulesAgain(j) PROVE IInv'
<1> USE DEF IInv
<1>1. /\ Schedule(j.op, jobs \ {j})
      /\ UNCHANGED <<started, snapshots, active, worker, reconciled, rows>>
  BY DEF JobSchedulesAgain
<1>2. j.op \in Operations
  BY DEF Types, Jobs
<1>3. /\ jobs' \subseteq Jobs
      /\ Own' /\ Reconciliation' /\ OneJob' /\ Copies' /\ History'
  BY <1>1, <1>2, ScheduleKeeps
<1>4. Known' = Known
  BY <1>1 DEF Known
<1>5. Types' /\ Workers'
  BY <1>1, <1>3, <1>4 DEF Types, Workers, OneProbeRuns
<1> QED BY <1>3, <1>5

(* Reconciliation marks what earlier processes left, and this one has no row yet. *)
LEMMA ReconcileMarks ==
    ASSUME IInv, Reconcile
    PROVE  /\ reconciled'
           /\ rows' \in [Operations -> Rows \cup {None}]
           /\ \A o \in Operations : started[o] # "earlier" => rows'[o] = rows[o]
           /\ \A o \in Operations :
                 started[o] = "earlier" /\ rows'[o] # None => rows'[o].status \in Over
           /\ \A o \in Operations : rows[o] # None =>
                 /\ rows'[o] # None
                 /\ rows'[o].revision >= rows[o].revision
                 /\ rows[o].status \in Over => rows'[o].status = rows[o].status
<1> USE DEF IInv
<1>0. \A o \in Operations : rows[o] # None => rows[o] \in Rows
  BY DEF Types
<1>1. CASE reconciled
  BY <1>0, <1>1 DEF Reconcile, Types, Reconciliation, Rows
<1>2. CASE ~reconciled
  <2>1. reconciled' /\ rows' = [o \in Operations |-> Interrupted(rows[o])]
    BY <1>2 DEF Reconcile
  <2>2. \A o \in Operations : started[o] # "earlier" => rows[o] = None
    BY <1>2 DEF Reconciliation, Own, Types
  <2>3. \A row \in Rows :
           /\ Interrupted(row) \in Rows /\ Interrupted(row).status \in Over
           /\ Interrupted(row).revision >= row.revision
           /\ row.status \in Over => Interrupted(row).status = row.status
    <3> SUFFICES ASSUME NEW row \in Rows
                 PROVE  /\ Interrupted(row) \in Rows /\ Interrupted(row).status \in Over
                        /\ Interrupted(row).revision >= row.revision
                        /\ row.status \in Over => Interrupted(row).status = row.status
      OBVIOUS
    <3>1. row # None
      BY ProbeHistoryAssumption
    <3> QED BY <3>1 DEF Interrupted, Rows, Live, Over, Terminal
  <2>4. Interrupted(None) = None
    BY DEF Interrupted
  <2>5. \A o \in Operations : rows'[o] = Interrupted(rows[o])
    BY <2>1
  <2>6. rows' \in [Operations -> Rows \cup {None}]
    BY <1>0, <2>1, <2>3, <2>4
  <2>7. \A o \in Operations : rows[o] # None => rows'[o] # None
    BY <1>0, <2>3, <2>5, ProbeHistoryAssumption
  <2> QED BY <1>0, <2>1, <2>2, <2>3, <2>4, <2>5, <2>6, <2>7
<1> QED BY <1>1, <1>2

LEMMA TriesToReconcileKeeps ==
  ASSUME IInv, StartupReconciles \/ RetryReconciles PROVE IInv'
<1> USE DEF IInv
<1>1. UNCHANGED <<started, snapshots, active, inProgress, worker, jobs>>
  BY DEF StartupReconciles, RetryReconciles, memory
<1>2. CASE Reconcile
  <2>1. /\ reconciled'
        /\ rows' \in [Operations -> Rows \cup {None}]
        /\ \A o \in Operations : started[o] # "earlier" => rows'[o] = rows[o]
        /\ \A o \in Operations :
              started[o] = "earlier" /\ rows'[o] # None => rows'[o].status \in Over
    BY <1>2, ReconcileMarks
  <2>2. Known' = Known
    BY <1>1 DEF Known
  <2>3. Types' /\ Workers' /\ OneJob'
    BY <1>1, <2>1, <2>2 DEF Types, Workers, OneProbeRuns, OneJob, InFlight
  <2>4. Own' /\ Reconciliation'
    BY <1>1, <2>1, <2>2 DEF Own, Reconciliation, OwnNotInterrupted
  <2>5. Copies'
    <3>1. \A j \in jobs : j.op \in Operations /\ started[j.op] = "now"
      BY DEF Own, Types, Jobs
    <3> QED BY <1>1, <2>1, <3>1 DEF Copies, InFlight, Older
  <2>6. History'
    BY <1>1, <2>1, <2>2 DEF History, SavedIsTrue, Own, Older, Types
  <2> QED BY <2>3, <2>4, <2>5, <2>6
<1>3. CASE UNCHANGED <<reconciled, rows>>
  BY <1>1, <1>3, StutterKeeps
<1> QED BY <1>2, <1>3 DEF StartupReconciles, RetryReconciles, TriesToReconcile

(* A job moves on, changing only where it stands and whether it has succeeded. *)
LEMMA JobReconcilesKeeps == ASSUME IInv, NEW j \in jobs, JobReconciles(j) PROVE IInv'
<1> USE DEF IInv
<1>1. j.at = "reconcile" /\ UNCHANGED <<started, snapshots, active, inProgress, worker>>
  BY DEF JobReconciles, memory
<1>2. j \in Jobs /\ started[j.op] = "now" /\ j.op \in inProgress
  BY <1>1 DEF Types, Own, OneJob, InFlight
<1>3. Known' = Known
  BY <1>1 DEF Known
<1>4. PICK k : /\ jobs' = (jobs \ {j}) \cup {k}
               /\ k \in Jobs /\ k.op = j.op /\ k.status = j.status /\ k.revision = j.revision
               /\ \/ Reconcile /\ k.at = "write"
                  \/ UNCHANGED <<reconciled, rows>> /\ k.at = "done" /\ ~k.ok
  <2>1. CASE Reconcile /\ Moves(j, [j EXCEPT !.at = "write"])
    <3> WITNESS [j EXCEPT !.at = "write"]
    <3> QED BY <1>2, <2>1 DEF Moves, Jobs
  <2>2. CASE UNCHANGED <<reconciled, rows>> /\ Moves(j, [j EXCEPT !.at = "done", !.ok = FALSE])
    <3> WITNESS [j EXCEPT !.at = "done", !.ok = FALSE]
    <3> QED BY <1>2, <2>2 DEF Moves, Jobs
  <2> QED BY <2>1, <2>2 DEF JobReconciles
<1>5. /\ rows' \in [Operations -> Rows \cup {None}] /\ reconciled' \in BOOLEAN
      /\ \A o \in Operations : started[o] # "earlier" => rows'[o] = rows[o]
      /\ reconciled' => \A o \in Operations :
            started[o] = "earlier" /\ rows'[o] # None => rows'[o].status \in Over
      /\ k.at = "write" => reconciled'
      /\ reconciled => reconciled'
  <2>1. CASE Reconcile
    BY <2>1, ReconcileMarks
  <2>2. CASE UNCHANGED <<reconciled, rows>> /\ k.at = "done"
    BY <2>2 DEF Types, Reconciliation
  <2> QED BY <1>4, <2>1, <2>2
<1>6. InFlight(k) /\ InFlight(j) /\ k.at # "reconcile"
  BY <1>1, <1>4 DEF InFlight
<1>7. Types' /\ Workers'
  BY <1>1, <1>3, <1>4, <1>5 DEF Types, Workers, OneProbeRuns
<1>8. Own'
  BY <1>1, <1>2, <1>3, <1>4, <1>5 DEF Own
<1>9. Reconciliation'
  BY <1>1, <1>2, <1>4, <1>5 DEF Reconciliation, OwnNotInterrupted
<1>10. OneJob'
  BY <1>1, <1>2, <1>3, <1>4, <1>6 DEF OneJob, InFlight
<1>11. \A i \in jobs : i.op \in Operations /\ started[i.op] = "now" /\ rows'[i.op] = rows[i.op]
  BY <1>5 DEF Types, Own, Jobs
<1>12. Copies'
  BY <1>1, <1>2, <1>4, <1>6, <1>11 DEF Copies, InFlight, Older
<1>13. History'
  BY <1>1, <1>3, <1>5 DEF History, SavedIsTrue, Own, Older, Types
<1> QED BY <1>7, <1>8, <1>9, <1>10, <1>12, <1>13

LEMMA JobWritesKeeps == ASSUME IInv, NEW j \in jobs, JobWrites(j) PROVE IInv'
<1> USE DEF IInv
<1>1. j.at = "write" /\ UNCHANGED <<started, snapshots, active, inProgress, worker, reconciled>>
  BY DEF JobWrites, memory
<1>2. /\ j \in Jobs /\ started[j.op] = "now" /\ j.op \in Known /\ InFlight(j)
      /\ reconciled /\ j.op \in Operations /\ j.op \in inProgress
  BY <1>1 DEF Types, Own, OneJob, InFlight, Reconciliation
<1>3. Known' = Known
  BY <1>1 DEF Known
<1>4. CASE rows' = [rows EXCEPT ![j.op] = Upsert(@, j)] /\ Moves(j, [j EXCEPT !.at = "done"])
  <2> DEFINE k == [j EXCEPT !.at = "done"]
             row == [status |-> j.status, revision |-> j.revision]
  <2>1. /\ jobs' = (jobs \ {j}) \cup {k} /\ k \in Jobs /\ InFlight(k) /\ k.at = "done"
        /\ k.op = j.op /\ k.status = j.status /\ k.revision = j.revision
    BY <1>2, <1>4 DEF Moves, Jobs, InFlight
  <2>2. row \in Rows /\ row.status \in Live \cup Terminal
        /\ row.status = j.status /\ row.revision = j.revision
    BY <1>2 DEF Rows, Jobs, Over
  <2>3. Upsert(rows[j.op], j) = row
    <3>1. CASE rows[j.op] = None
      BY <3>1 DEF Upsert
    <3>2. CASE rows[j.op] # None
      BY <1>1, <1>2, <3>2 DEF Upsert, Copies, Older, Types, Rows, Jobs
    <3> QED BY <3>1, <3>2
  <2> HIDE DEF k, row
  <2>4. \A o \in Operations : rows'[o] = IF o = j.op THEN row ELSE rows[o]
    BY <1>4, <2>3 DEF Types
  <2>5. Types' /\ Workers'
    BY <1>1, <1>2, <1>3, <1>4, <2>1, <2>2, <2>3 DEF Types, Workers, OneProbeRuns
  <2>6. Own' /\ Reconciliation'
    BY <1>1, <1>2, <1>3, <2>1, <2>2, <2>4 DEF Own, Reconciliation, OwnNotInterrupted, Live, Terminal
  <2>7. OneJob'
    BY <1>1, <1>2, <1>3, <2>1 DEF OneJob, InFlight
  <2>8. Copies'
    <3>1. \A i \in jobs \ {j} : InFlight(i) => i.op # j.op /\ i.op \in Operations
      BY <1>2 DEF OneJob, Types, Jobs
    <3>2. row = [status |-> k.status, revision |-> k.revision]
      BY <2>1 DEF row
    <3> QED BY <1>1, <1>2, <2>1, <2>4, <3>1, <3>2 DEF Copies, InFlight, Older
  <2>9. History'
    <3>1. \A o \in Known : o \in Operations
      BY DEF Types
    <3>2. Older(row.status, row.revision, snapshots[j.op].status, snapshots[j.op].revision)
          /\ ~snapshots[j.op].saved
      BY <1>2, <2>2 DEF Copies
    <3> QED BY <1>1, <1>2, <1>3, <2>4, <3>1, <3>2 DEF History, SavedIsTrue, Older
  <2> QED BY <2>5, <2>6, <2>7, <2>8, <2>9
<1>5. CASE UNCHANGED rows /\ Moves(j, [j EXCEPT !.at = "done", !.ok = FALSE])
  <2> DEFINE k == [j EXCEPT !.at = "done", !.ok = FALSE]
  <2>1. /\ jobs' = (jobs \ {j}) \cup {k} /\ k \in Jobs /\ InFlight(k) /\ k.at = "done" /\ ~k.ok
        /\ k.op = j.op /\ k.status = j.status /\ k.revision = j.revision
    BY <1>2, <1>5 DEF Moves, Jobs, InFlight
  <2> HIDE DEF k
  <2>2. Types' /\ Workers'
    BY <1>1, <1>3, <1>5, <2>1 DEF Types, Workers, OneProbeRuns
  <2>3. Own' /\ Reconciliation'
    BY <1>1, <1>2, <1>3, <1>5, <2>1 DEF Own, Reconciliation, OwnNotInterrupted
  <2>4. OneJob'
    BY <1>1, <1>2, <1>3, <2>1 DEF OneJob, InFlight
  <2>5. Copies'
    BY <1>1, <1>2, <1>5, <2>1 DEF Copies, InFlight, Older
  <2>6. History'
    BY <1>1, <1>3, <1>5 DEF History, SavedIsTrue, Older
  <2> QED BY <2>2, <2>3, <2>4, <2>5, <2>6
<1> QED BY <1>4, <1>5 DEF JobWrites

LEMMA FinishPersistenceKeeps == ASSUME IInv, NEW j \in jobs, FinishPersistence(j) PROVE IInv'
<1> USE DEF IInv
<1>1. /\ j.at = "done" /\ inProgress' = inProgress \ {j.op}
      /\ UNCHANGED <<started, active, worker, reconciled, rows>>
  BY DEF FinishPersistence
<1>2. /\ j \in Jobs /\ j.op \in Known /\ InFlight(j) /\ j.op \in Operations
      /\ \A i \in jobs \ {j} : InFlight(i) => i.op # j.op
  BY <1>1 DEF Types, OneJob, InFlight, Jobs
<1>3. snapshots[j.op] \in Snapshots
  BY <1>2 DEF Types
<1>4. CASE Current(j)
  <2>1. jobs' = jobs \ {j}
    BY <1>4 DEF FinishPersistence
  <2>2. /\ snapshots' = [snapshots EXCEPT ![j.op].revision = @ + 1, ![j.op].saved = j.ok]
        /\ Known' = Known
    BY <1>4 DEF FinishPersistence, Known
  <2>3. /\ \A o \in Known : o # j.op => snapshots'[o] = snapshots[o]
        /\ snapshots'[j.op].revision = snapshots[j.op].revision + 1
        /\ snapshots'[j.op].status = snapshots[j.op].status
        /\ snapshots'[j.op].saved = j.ok
        /\ snapshots'[j.op] \in Snapshots
    <3>1. \A o \in Known : o # j.op => snapshots'[o] = snapshots[o]
      BY <2>2 DEF Types
    <3>2. snapshots'[j.op] = [snapshots[j.op] EXCEPT !.revision = @ + 1, !.saved = j.ok]
      BY <1>2, <2>2 DEF Types
    <3>3. j.ok \in BOOLEAN
      BY <1>2 DEF Jobs
    <3>4. /\ snapshots'[j.op].revision = snapshots[j.op].revision + 1
          /\ snapshots'[j.op].status = snapshots[j.op].status
          /\ snapshots'[j.op].saved = j.ok
      BY <1>3, <3>2 DEF Snapshots
    <3>5. snapshots'[j.op] \in Snapshots
      <4>1. snapshots[j.op].revision + 1 \in Nat \ {0}
        BY <1>3 DEF Snapshots
      <4> QED BY <1>3, <3>2, <3>3, <4>1, Zenon DEF Snapshots
    <3> QED BY <3>1, <3>4, <3>5
  <2>4. Types'
    <3>1. \A o \in Known : snapshots'[o] \in Snapshots
      BY <2>3 DEF Types
    <3>2. snapshots' \in [Known' -> Snapshots]
      BY <2>2, <3>1 DEF Types
    <3> QED BY <1>1, <2>1, <2>2, <3>2 DEF Types
  <2>5. Own' /\ Reconciliation'
    BY <1>1, <2>1, <2>2 DEF Own, Reconciliation, OwnNotInterrupted
  <2>6. Workers'
    BY <1>1, <2>2, <2>3 DEF Workers, OneProbeRuns
  <2>7. OneJob'
    BY <1>1, <1>2, <2>1, <2>2 DEF OneJob, InFlight
  <2>8. Copies'
    <3>1. \A i \in jobs \ {j} : InFlight(i) => i.op \in Known /\ snapshots'[i.op] = snapshots[i.op]
      BY <1>2, <2>3 DEF OneJob
    <3> QED BY <1>1, <2>1, <3>1 DEF Copies, InFlight, Older
  <2>9. History'
    <3>1. j.ok => rows[j.op] # None /\ rows[j.op].status = snapshots[j.op].status
      <4>1. j.status = snapshots[j.op].status
        BY <1>2, <1>4 DEF Current, Copies
      <4>2. j.ok => rows[j.op] = [status |-> j.status, revision |-> j.revision]
        BY <1>1, <1>2 DEF Copies
      <4>3. [status |-> j.status, revision |-> j.revision] \in Rows
        BY <1>2 DEF Jobs, Rows, Over
      <4> QED BY <4>1, <4>2, <4>3, ProbeHistoryAssumption
    <3>2. \A o \in Known : rows[o] # None => rows[o] \in Rows
      BY DEF Types
    <3>3. rows[j.op] # None => Older(rows[j.op].status, rows[j.op].revision,
                                     snapshots'[j.op].status, snapshots'[j.op].revision)
      BY <1>2, <1>3, <2>3, <3>2 DEF History, Older, Rows, Snapshots
    <3> QED BY <1>1, <2>2, <2>3, <3>1, <3>3 DEF History, SavedIsTrue, Older
  <2> QED BY <2>4, <2>5, <2>6, <2>7, <2>8, <2>9
<1>5. CASE ~Current(j)
  <2> DEFINE k == [j EXCEPT !.at = "again"]
  <2>1. UNCHANGED snapshots /\ jobs' = (jobs \ {j}) \cup {k} /\ Known' = Known
    BY <1>2, <1>5 DEF FinishPersistence, Moves, Known
  <2>2. k \in Jobs /\ ~InFlight(k) /\ k.at = "again" /\ k.op = j.op
    BY <1>2 DEF Jobs, InFlight
  <2> HIDE DEF k
  <2>3. Types' /\ Own' /\ Reconciliation' /\ Workers'
    BY <1>1, <2>1, <2>2 DEF Types, Own, Reconciliation, OwnNotInterrupted, Workers, OneProbeRuns
  <2>4. OneJob'
    BY <1>1, <1>2, <2>1, <2>2 DEF OneJob, InFlight
  <2>5. Copies' /\ History'
    BY <1>1, <2>1, <2>2 DEF Copies, History, SavedIsTrue, InFlight, Older
  <2> QED BY <2>3, <2>4, <2>5
<1> QED BY <1>4, <1>5

(* After a crash there is no snapshot, no job and no row of the new process. *)
LEMMA CrashKeeps == ASSUME IInv, Crash PROVE IInv'
<1> USE DEF IInv
<1>1. /\ started' = [o \in Operations |-> IF started[o] = "now" THEN "earlier" ELSE started[o]]
      /\ snapshots' = [o \in {} |-> 0] /\ inProgress' = {} /\ jobs' = {}
      /\ worker' = [o \in Operations |-> "none"] /\ reconciled' = FALSE /\ UNCHANGED rows
  BY DEF Crash
<1>2. Known' = {} /\ snapshots' \in [Known' -> Snapshots]
  BY <1>1 DEF Known
<1>3. \A o \in Operations : started'[o] # "now" /\ (started'[o] = "never" => started[o] = "never")
  BY <1>1 DEF Types
<1>4. Types'
  BY <1>1, <1>2 DEF Types, WorkerSteps
<1>5. Own' /\ Reconciliation'
  BY <1>1, <1>2, <1>3 DEF Own, Reconciliation, OwnNotInterrupted
<1>6. Workers' /\ OneJob'
  BY <1>1, <1>2 DEF Workers, OneProbeRuns, OneJob
<1>7. Copies' /\ History'
  BY <1>1, <1>2 DEF Copies, History, SavedIsTrue
<1> QED BY <1>4, <1>5, <1>6, <1>7

-------------------------------------------------------------------------------
(* The conjunction of the parts above is an invariant. *)
LEMMA Invariance == Spec => []IInv
<1>1. IInv /\ [Next]_vars => IInv'
  <2> SUFFICES ASSUME IInv, [Next]_vars PROVE IInv'
    OBVIOUS
  <2>1. CASE StartProbe
    BY <2>1, StartProbeKeeps
  <2>2. ASSUME NEW o \in Operations, Worker(o) PROVE IInv'
    BY <2>2, MarkRunningKeeps, WorkerSchedulesKeeps, FinishProbeKeeps DEF Worker
  <2>3. ASSUME NEW o \in Operations, GetProbe(o) PROVE IInv'
    BY <2>3, GetProbeKeeps
  <2>4. ASSUME NEW o \in Operations, BackoffEnds(o) PROVE IInv'
    BY <2>4, StutterKeeps DEF BackoffEnds
  <2>5. CASE Job
    BY <2>5, JobReconcilesKeeps, JobWritesKeeps, FinishPersistenceKeeps, JobSchedulesAgainKeeps
       DEF Job
  <2>6. CASE StartupReconciles \/ RetryReconciles
    BY <2>6, TriesToReconcileKeeps
  <2>7. CASE DatabaseOpens
    BY <2>7, StutterKeeps DEF DatabaseOpens, memory
  <2>8. CASE Crash
    BY <2>8, CrashKeeps
  <2>9. CASE UNCHANGED vars
    BY <2>9, StutterKeeps DEF vars, memory
  <2> QED BY <2>1, <2>2, <2>3, <2>4, <2>5, <2>6, <2>7, <2>8, <2>9 DEF Next
<1> QED BY InitHolds, <1>1, PTL DEF Spec

(* A snapshot that says its history is saved has the row that says the same. *)
THEOREM SavedTrue == Spec => []SavedIsTrue
<1>1. IInv => SavedIsTrue
  BY DEF IInv, History
<1> QED BY <1>1, Invariance, PTL

(* The adapter never runs two probes. *)
THEOREM SingleProbe == Spec => []OneProbeRuns
<1>1. IInv => OneProbeRuns
  BY DEF IInv, Workers
<1> QED BY <1>1, Invariance, PTL

(* What earlier processes left unfinished is marked before the first own row. *)
THEOREM StaleFirst == Spec => []StaleBeforeOwn
<1>1. IInv => StaleBeforeOwn
  BY DEF IInv, Reconciliation, StaleBeforeOwn, Types
<1> QED BY <1>1, Invariance, PTL

(* Reconciliation never takes a row of this process for an unfinished one. *)
THEOREM OwnKept == Spec => []OwnNotInterrupted
<1>1. IInv => OwnNotInterrupted
  BY DEF IInv, Reconciliation
<1> QED BY <1>1, Invariance, PTL

(* No row is written by an older job, and the status of a row that is over stays. *)
THEOREM HistoryAdvances == Spec => HistoryOnlyAdvances
<1> DEFINE Kept(o) == rows[o] # None =>
                        /\ rows'[o] # None
                        /\ rows'[o].revision >= rows[o].revision
                        /\ rows[o].status \in Over => rows'[o].status = rows[o].status
<1>1. IInv /\ [Next]_vars => [\A o \in Operations : Kept(o)]_vars
  <2> SUFFICES ASSUME IInv, Next, NEW o \in Operations PROVE Kept(o)
    BY DEF vars
  <2>1. rows[o] # None => rows[o] \in Rows
    BY DEF IInv, Types
  <2>2. CASE UNCHANGED rows
    BY <2>1, <2>2 DEF Rows
  <2>3. CASE Reconcile
    BY <2>3, ReconcileMarks
  <2>4. ASSUME NEW j \in jobs, JobWrites(j), ~UNCHANGED rows PROVE Kept(o)
    <3>1. j.at = "write" /\ rows' = [rows EXCEPT ![j.op] = Upsert(@, j)]
      BY <2>4 DEF JobWrites
    <3>2. j \in Jobs /\ InFlight(j)
      BY <3>1 DEF IInv, Types, InFlight
    <3>3. CASE o # j.op
      BY <2>1, <3>1, <3>3 DEF IInv, Types, Rows
    <3>4. CASE o = j.op /\ rows[o] # None
      <4>1. Older(rows[o].status, rows[o].revision, j.status, j.revision)
        BY <3>1, <3>2, <3>4 DEF IInv, Copies
      <4>2. rows[o].status # "needs_reconciliation"
        BY <3>4 DEF IInv, Own, Reconciliation, OwnNotInterrupted
      <4>3. rows'[o] = [status |-> j.status, revision |-> j.revision]
        BY <2>1, <3>1, <3>2, <3>4, <4>1 DEF IInv, Types, Upsert, Older, Rows, Jobs
      <4>4. [status |-> j.status, revision |-> j.revision] \in Rows
        BY <3>2 DEF Jobs, Rows, Over
      <4> QED BY <2>1, <3>2, <4>1, <4>2, <4>3, <4>4, ProbeHistoryAssumption
             DEF Older, Over, Rows, Jobs
    <3> QED BY <3>3, <3>4
  <2>5. UNCHANGED rows \/ Reconcile \/ \E j \in jobs : JobWrites(j)
    BY DEF Next, StartProbe, Worker, MarkRunning, WorkerSchedules, FinishProbe, GetProbe,
       BackoffEnds, Job, JobReconciles, FinishPersistence, JobSchedulesAgain,
       StartupReconciles, RetryReconciles, TriesToReconcile, DatabaseOpens, Crash
  <2> QED BY <2>2, <2>3, <2>4, <2>5
<1>2. Spec => [][Next]_vars
  BY DEF Spec
<1> QED BY <1>1, <1>2, Invariance, PTL DEF HistoryOnlyAdvances

-------------------------------------------------------------------------------
(* The two indexes of the registry agree: order lists every known operation, and *)
(* lists it once.  This is what makes its length the number of the snapshots,    *)
(* and what a removal from the middle of it has to keep.                         *)

Lists(s, S) ==
    /\ s \in Seq(S)
    /\ \A i, j \in 1..Len(s) : s[i] = s[j] => i = j
    /\ \A x \in S : \E i \in 1..Len(s) : s[i] = x

Registry ==
    /\ Lists(order, Known)
    /\ Cardinality(Known) <= MaxRetained
    /\ active \in Known \cup {None}
    /\ backoff \subseteq Known
    /\ startup \in BOOLEAN /\ ready \in BOOLEAN
    /\ crashes \in 0..MaxCrashes /\ failures \in 0..MaxFailures

(* A sequence that lists a set has one position for each element of it. *)
LEMMA ListedCardinality ==
  ASSUME NEW S, NEW s, Lists(s, S)
  PROVE  IsFiniteSet(S) /\ Len(s) \in Nat /\ Cardinality(S) = Len(s)
<1>1. Len(s) \in Nat /\ s \in [1..Len(s) -> S]
  BY DEF Lists
<1>2. s \in Bijection(1..Len(s), S)
  BY <1>1 DEF Lists, Bijection, Injection, Surjection, IsInjective
<1>3. ExistsBijection(1..Len(s), S)
  BY <1>2 DEF ExistsBijection
<1> QED BY <1>1, <1>3, FS_NatBijection, FS_CountingElements

(* The rank of a position among those that stay: every rank is taken, once. *)
Rank(P, i) == Cardinality({k \in P : k <= i})

LEMMA Ranks ==
  ASSUME NEW n \in Nat, NEW P \in SUBSET (1..n)
  PROVE  /\ IsFiniteSet(P) /\ Cardinality(P) \in Nat
         /\ \A i \in P : Rank(P, i) \in 1..Cardinality(P)
         /\ \A i, j \in P : Rank(P, i) = Rank(P, j) => i = j
         /\ \A m \in 1..Cardinality(P) : \E i \in P : Rank(P, i) = m
<1>0. \A k \in P : k \in Nat
  OBVIOUS
<1>1. IsFiniteSet(P) /\ Cardinality(P) \in Nat
  <2>1. IsFiniteSet(1..n)
    BY FS_Interval
  <2> QED BY <2>1, FS_Subset, FS_CardinalityType
<1> DEFINE upto(i) == {k \in P : k <= i}
<1>2. ASSUME NEW i \in P
      PROVE  /\ IsFiniteSet(upto(i)) /\ Rank(P, i) \in Nat
             /\ Rank(P, i) = Cardinality(upto(i))
             /\ Rank(P, i) \in 1..Cardinality(P)
  <2>1. upto(i) \in SUBSET P /\ i \in upto(i)
    OBVIOUS
  <2> HIDE DEF upto
  <2>2. IsFiniteSet(upto(i)) /\ Cardinality(upto(i)) <= Cardinality(P) /\ Cardinality(upto(i)) \in Nat
    BY <1>1, <2>1, FS_Subset, FS_CardinalityType
  <2>3. Cardinality(upto(i)) # 0
    BY <2>1, <2>2, FS_EmptySet
  <2> QED BY <1>1, <2>2, <2>3 DEF Rank, upto
<1>3. ASSUME NEW i \in P, NEW j \in P, i < j PROVE Rank(P, i) < Rank(P, j)
  <2>0. i \in Nat /\ j \in Nat
    BY <1>0
  <2>1. j \in upto(j) /\ upto(i) \subseteq upto(j) \ {j}
    <3>1. ASSUME NEW k \in upto(i) PROVE k \in upto(j) \ {j}
      <4>1. k \in P /\ k \in Nat /\ k <= i
        BY <1>0
      <4> QED BY <1>3, <2>0, <4>1
    <3>2. j \in upto(j)
      BY <2>0
    <3> HIDE DEF upto
    <3> QED BY <3>1, <3>2
  <2> HIDE DEF upto
  <2>2. IsFiniteSet(upto(j) \ {j}) /\ Cardinality(upto(j) \ {j}) = Cardinality(upto(j)) - 1
    BY <1>2, <2>1, FS_RemoveElement
  <2>3. Cardinality(upto(i)) <= Cardinality(upto(j) \ {j})
    BY <2>1, <2>2, FS_Subset
  <2> QED BY <1>2, <2>2, <2>3
<1>4. \A i, j \in P : Rank(P, i) = Rank(P, j) => i = j
  <2> SUFFICES ASSUME NEW i \in P, NEW j \in P, Rank(P, i) = Rank(P, j), i # j PROVE FALSE
    OBVIOUS
  <2>1. i < j \/ j < i
    BY <1>0
  <2> HIDE DEF upto
  <2> QED BY <1>2, <1>3, <2>1
<1>5. \A m \in 1..Cardinality(P) : \E i \in P : Rank(P, i) = m
  <2> DEFINE r == [i \in P |-> Rank(P, i)]
             T == 1..Cardinality(P)
  <2>1. r \in Injection(P, T)
    BY <1>2, <1>4 DEF Injection, IsInjective
  <2>2. IsFiniteSet(T) /\ Cardinality(T) = Cardinality(P)
    BY <1>1, FS_Interval
  <2>3. r \in Surjection(P, T)
    <3> HIDE DEF r, T
    <3> QED BY <1>1, <2>1, <2>2, FS_Injection
  <2> QED BY <2>3 DEF Surjection
<1> QED BY <1>1, <1>2, <1>4, <1>5

(* retain: what stays is listed as before. *)
LEMMA KeptIsListed ==
  ASSUME Lists(order, Known) PROVE Lists(KeptOrder, Known \ Evicted)
<1> DEFINE K == KeptAt
           at(m) == CHOOSE i \in K : Rank(K, i) = m
<1>1. Len(order) \in Nat /\ K \subseteq 1..Len(order)
  BY DEF Lists, KeptAt
<1>2. /\ Cardinality(K) \in Nat
      /\ \A i \in K : Rank(K, i) \in 1..Cardinality(K)
      /\ \A i, j \in K : Rank(K, i) = Rank(K, j) => i = j
      /\ \A m \in 1..Cardinality(K) : \E i \in K : Rank(K, i) = m
  <2> HIDE DEF K
  <2> QED BY <1>1, Ranks
<1>3. KeptOrder = [m \in 1..Cardinality(K) |-> order[at(m)]]
  BY DEF KeptOrder, Rank
<1>4. ASSUME NEW i \in K PROVE i \in 1..Len(order) /\ order[i] \in Known \ Evicted
  BY DEF KeptAt, Lists
<1> HIDE DEF K
<1>5. ASSUME NEW m \in 1..Cardinality(K) PROVE at(m) \in K /\ Rank(K, at(m)) = m
  BY <1>2
<1> HIDE DEF at
<1>6. KeptOrder \in Seq(Known \ Evicted) /\ Len(KeptOrder) = Cardinality(K)
  <2>1. KeptOrder \in [1..Cardinality(K) -> Known \ Evicted]
    BY <1>3, <1>4, <1>5
  <2> QED BY <1>2, <2>1
<1>7. ASSUME NEW i \in 1..Len(KeptOrder), NEW j \in 1..Len(KeptOrder), KeptOrder[i] = KeptOrder[j]
      PROVE  i = j
  <2>1. i \in 1..Cardinality(K) /\ j \in 1..Cardinality(K)
    BY <1>6
  <2>2. order[at(i)] = order[at(j)]
    BY <1>3, <1>7, <2>1
  <2>3. at(i) = at(j)
    BY <1>4, <1>5, <2>1, <2>2 DEF Lists
  <2> QED BY <1>5, <2>1, <2>3
<1>8. ASSUME NEW x \in Known \ Evicted PROVE \E m \in 1..Len(KeptOrder) : KeptOrder[m] = x
  <2>1. PICK i \in 1..Len(order) : order[i] = x
    BY DEF Lists
  <2>2. i \in K
    BY <2>1 DEF K, KeptAt
  <2>3. Rank(K, i) \in 1..Cardinality(K)
    BY <1>2, <2>2
  <2>4. at(Rank(K, i)) = i
    BY <1>2, <1>5, <2>2, <2>3
  <2> QED BY <1>3, <1>6, <2>1, <2>3, <2>4
<1> QED BY <1>6, <1>7, <1>8 DEF Lists

LEMMA NothingListed == Lists(<<>>, {}) /\ Cardinality({}) = 0
<1>1. <<>> \in Seq({}) /\ Len(<<>>) = 0
  OBVIOUS
<1>2. 1..0 = {}
  OBVIOUS
<1> QED BY <1>1, <1>2, FS_EmptySet DEF Lists

LEMMA AppendLists ==
  ASSUME NEW S, NEW s, Lists(s, S), NEW x, x \notin S
  PROVE  Lists(Append(s, x), S \cup {x})
<1> DEFINE t == Append(s, x)
<1>1. s \in Seq(S) /\ s \in Seq(S \cup {x}) /\ Len(s) \in Nat
  BY DEF Lists
<1>2. /\ t \in Seq(S \cup {x}) /\ Len(t) = Len(s) + 1 /\ t[Len(s) + 1] = x
      /\ \A i \in 1..Len(s) : t[i] = s[i] /\ t[i] \in S
  BY <1>1
<1> HIDE DEF t
<1>3. ASSUME NEW i \in 1..Len(t), NEW j \in 1..Len(t), t[i] = t[j] PROVE i = j
  <2>1. CASE i \in 1..Len(s) /\ j \in 1..Len(s)
    BY <1>2, <1>3, <2>1 DEF Lists
  <2>2. (i \in 1..Len(s) \/ i = Len(s) + 1) /\ (j \in 1..Len(s) \/ j = Len(s) + 1)
    BY <1>1, <1>2
  <2> QED BY <1>2, <1>3, <2>1, <2>2
<1>4. ASSUME NEW y \in S \cup {x} PROVE \E i \in 1..Len(t) : t[i] = y
  <2>1. CASE y \in S
    <3>1. PICK i \in 1..Len(s) : s[i] = y
      BY <2>1 DEF Lists
    <3>2. i \in 1..Len(t) /\ t[i] = y
      BY <1>1, <1>2, <3>1
    <3> QED BY <3>2
  <2>2. CASE y = x
    BY <1>1, <1>2, <2>2
  <2> QED BY <2>1, <2>2
<1> QED BY <1>2, <1>3, <1>4 DEF Lists, t

(* prune_terminal_operations makes room for one more, if it does not give up: a *)
(* full registry loses an operation when there is one that may go.              *)
LEMMA RoomIsMade ==
  ASSUME Lists(order, Known), Cardinality(Known) <= MaxRetained,
         Cardinality(EvictableAt) >= Excess
  PROVE  Cardinality(Known \ Evicted) < MaxRetained
<1>1. IsFiniteSet(Known) /\ Cardinality(Known) \in Nat /\ Len(order) \in Nat
      /\ MaxRetained \in Nat \ {0}
  BY ListedCardinality, FS_CardinalityType, ProbeHistoryAssumption
<1>2. /\ IsFiniteSet(Known \ Evicted) /\ Cardinality(Known \ Evicted) \in Nat
      /\ Cardinality(Known \ Evicted) <= Cardinality(Known)
  BY <1>1, FS_Subset, FS_CardinalityType
<1>3. CASE Cardinality(Known) < MaxRetained
  BY <1>1, <1>2, <1>3
<1>4. CASE ~(Cardinality(Known) < MaxRetained)
  <2>1. Excess = 1 /\ Cardinality(Known) = MaxRetained
    BY <1>1, <1>4 DEF Excess
  <2>2. EvictableAt \in SUBSET (1..Len(order))
    BY DEF EvictableAt
  <2>3. Cardinality(EvictableAt) \in Nat /\ 1 \in 1..Cardinality(EvictableAt)
    BY <1>1, <2>1, <2>2, Ranks
  <2>4. PICK i \in EvictableAt : Rank(EvictableAt, i) = 1
    BY <1>1, <2>2, <2>3, Ranks
  <2> DEFINE below == {k \in EvictableAt : k < i}
             upto == {k \in EvictableAt : k <= i}
  <2>5. below = upto \ {i} /\ i \in upto /\ upto \in SUBSET EvictableAt
    <3>1. \A k \in EvictableAt : k \in Nat
      BY <1>1, <2>2
    <3>2. i \in Nat
      BY <3>1
    <3>3. \A k \in EvictableAt : k < i <=> k <= i /\ k # i
      BY <3>1, <3>2
    <3>4. i \in upto /\ upto \in SUBSET EvictableAt
      BY <3>2
    <3>5. \A k : k \in below <=> k \in upto \ {i}
      BY <3>3
    <3> HIDE DEF below, upto
    <3> QED BY <3>4, <3>5
  <2>6. IsFiniteSet(upto) /\ Cardinality(upto) = 1
    <3>1. IsFiniteSet(EvictableAt)
      BY <1>1, <2>2, Ranks
    <3> QED BY <2>4, <2>5, <3>1, FS_Subset DEF Rank
  <2>7. Cardinality(below) = 0
    <3> HIDE DEF below, upto
    <3>1. Cardinality(upto \ {i}) = Cardinality(upto) - 1
      BY <2>5, <2>6, FS_RemoveElement
    <3> QED BY <2>5, <2>6, <3>1
  <2>8. order[i] \in Evicted /\ order[i] \in Known
    <3>1. Cardinality({k \in EvictableAt : k < i}) < Excess
      BY <2>1, <2>7
    <3>2. order[i] \in Evicted
      BY <3>1 DEF Evicted
    <3>3. i \in 1..Len(order)
      BY <2>2
    <3> QED BY <3>2, <3>3 DEF Lists
  <2>9. Known \ Evicted \subseteq Known \ {order[i]}
    BY <2>8
  <2>10. IsFiniteSet(Known \ {order[i]}) /\ Cardinality(Known \ {order[i]}) = Cardinality(Known) - 1
    BY <1>1, <2>8, FS_RemoveElement
  <2>11. Cardinality(Known \ Evicted) <= Cardinality(Known \ {order[i]})
    BY <2>9, <2>10, FS_Subset
  <2> QED BY <1>1, <1>2, <2>1, <2>10, <2>11
<1> QED BY <1>3, <1>4

LEMMA StartProbeKeepsRegistry == ASSUME IInv, Registry, StartProbe PROVE Registry'
<1> DEFINE kept == Known \ Evicted
           new == NewId
<1>1. UNCHANGED <<startup, ready, crashes, failures>> /\ backoff' \subseteq kept /\ active = None
  BY DEF StartProbe, Registry, Busy, bounds
<1>2. new \notin Known
  BY DEF StartProbe, NewId, Unused, IInv, Own, Types
<1>3. Lists(KeptOrder, kept)
  BY KeptIsListed DEF Registry
<1>4. IsFiniteSet(kept) /\ Cardinality(kept) \in Nat /\ Cardinality(kept) <= Cardinality(Known)
      /\ Cardinality(Known) \in Nat /\ MaxRetained \in Nat
  <2>1. IsFiniteSet(Known)
    BY ListedCardinality DEF Registry
  <2> QED BY <2>1, FS_Subset, FS_CardinalityType, ProbeHistoryAssumption
<1>5. CASE Cardinality(EvictableAt) >= Excess
  <2>1. Known' = kept \cup {new} /\ order' = Append(KeptOrder, new) /\ active' = new
    BY <1>5 DEF StartProbe, Known
  <2>2. Cardinality(kept) < MaxRetained
    BY <1>5, RoomIsMade DEF Registry
  <2> HIDE DEF kept, new
  <2>3. new \notin kept
    BY <1>2 DEF kept
  <2>4. Lists(order', Known')
    BY <1>3, <2>1, <2>3, AppendLists
  <2>5. Cardinality(Known') <= MaxRetained
    <3>1. Cardinality(kept \cup {new}) = Cardinality(kept) + 1
      BY <1>4, <2>3, FS_AddElement
    <3> QED BY <1>4, <2>1, <2>2, <3>1
  <2> QED BY <1>1, <2>1, <2>4, <2>5 DEF Registry, Lists
<1>6. CASE ~(Cardinality(EvictableAt) >= Excess)
  <2>1. Known' = kept /\ order' = KeptOrder /\ UNCHANGED active
    BY <1>6 DEF StartProbe, Known
  <2> HIDE DEF kept
  <2>2. Lists(order', Known')
    BY <1>3, <2>1
  <2>3. Cardinality(Known') <= MaxRetained
    <3>1. Cardinality(Known) <= MaxRetained
      BY DEF Registry
    <3> QED BY <1>4, <2>1, <3>1
  <2>4. active' \in Known' \cup {None} /\ backoff' \subseteq Known'
    BY <1>1, <2>1
  <2>5. /\ startup' \in BOOLEAN /\ ready' \in BOOLEAN
        /\ crashes' \in 0..MaxCrashes /\ failures' \in 0..MaxFailures
    BY <1>1 DEF Registry
  <2> QED BY <2>2, <2>3, <2>4, <2>5 DEF Registry, Lists
<1> QED BY <1>5, <1>6

(* The other steps leave the two indexes as they are, or empty both. *)
LEMMA SameRegistry ==
  ASSUME Registry, Known' = Known, order' = order, active' \in {active, None},
         backoff' \subseteq Known, startup' \in BOOLEAN, ready' \in BOOLEAN,
         crashes' \in 0..MaxCrashes, failures' \in 0..MaxFailures
  PROVE  Registry'
  BY DEF Registry, Lists

LEMMA RegistryKept == ASSUME IInv, Registry, [Next]_vars PROVE Registry'
<1> USE DEF Registry
<1>0. snapshots \in [Known -> Snapshots]
  BY DEF IInv, Types
<1>1. CASE StartProbe
  BY <1>1, StartProbeKeepsRegistry
<1>2. ASSUME NEW o \in Operations, Worker(o) \/ GetProbe(o) \/ BackoffEnds(o) PROVE Registry'
  <2>1. Known' = Known
    BY <1>0, <1>2 DEF Worker, MarkRunning, WorkerSchedules, FinishProbe, Advance, GetProbe,
       BackoffEnds, Known
  <2>2. /\ UNCHANGED <<order, startup, ready, crashes, failures>>
        /\ active' \in {active, None} /\ backoff' \subseteq backoff
    BY <1>2 DEF Worker, MarkRunning, WorkerSchedules, FinishProbe, GetProbe, BackoffEnds, bounds
  <2> QED BY <2>1, <2>2, SameRegistry
<1>3. ASSUME Fails PROVE failures' \in 0..MaxFailures
  BY <1>3, ProbeHistoryAssumption DEF Fails
<1>4. ASSUME NEW j \in jobs, JobReconciles(j) \/ JobWrites(j) PROVE Registry'
  <2>1. UNCHANGED <<snapshots, order, active, backoff, startup, ready, crashes>> /\ Known' = Known
    BY <1>4 DEF JobReconciles, JobWrites, memory, Known
  <2>2. failures' \in 0..MaxFailures
    BY <1>3, <1>4 DEF JobReconciles, JobWrites
  <2> QED BY <2>1, <2>2, SameRegistry
<1>5. ASSUME NEW j \in jobs, FinishPersistence(j) PROVE Registry'
  <2>1. /\ UNCHANGED <<order, active, startup, ready, crashes, failures>>
        /\ Known' = Known /\ backoff' \subseteq Known
    BY <1>0, <1>5 DEF FinishPersistence, Current, Known, bounds
  <2> QED BY <2>1, SameRegistry
<1>6. ASSUME NEW j \in jobs, JobSchedulesAgain(j) PROVE Registry'
  <2>1. UNCHANGED <<snapshots, order, active, backoff, startup, ready, crashes, failures>>
        /\ Known' = Known
    BY <1>6 DEF JobSchedulesAgain, Known, bounds
  <2> QED BY <2>1, SameRegistry
<1>7. CASE StartupReconciles \/ RetryReconciles
  <2>1. UNCHANGED <<snapshots, order, active, backoff, ready, crashes>> /\ Known' = Known
        /\ startup' \in {FALSE, startup}
    BY <1>7 DEF StartupReconciles, RetryReconciles, memory, Known
  <2>2. failures' \in 0..MaxFailures
    BY <1>3, <1>7 DEF StartupReconciles, RetryReconciles, TriesToReconcile
  <2> QED BY <2>1, <2>2, SameRegistry
<1>8. CASE DatabaseOpens
  <2>1. UNCHANGED <<snapshots, order, active, backoff, startup, crashes, failures>> /\ Known' = Known
        /\ ready' = TRUE
    BY <1>8 DEF DatabaseOpens, memory, Known, bounds
  <2> QED BY <2>1, SameRegistry
<1>9. CASE Crash
  <2>1. /\ Known' = {} /\ order' = <<>> /\ active' = None /\ backoff' = {}
        /\ startup' = TRUE /\ ready' = FALSE /\ crashes' = crashes + 1 /\ failures' = failures
        /\ crashes < MaxCrashes
    BY <1>9 DEF Crash, Known
  <2>2. Lists(order', Known')
    BY <2>1, NothingListed
  <2>3. Cardinality(Known') <= MaxRetained
    BY <2>1, NothingListed, ProbeHistoryAssumption
  <2>4. crashes' \in 0..MaxCrashes
    BY <2>1, ProbeHistoryAssumption
  <2> QED BY <2>1, <2>2, <2>3, <2>4 DEF Lists
<1>10. CASE UNCHANGED vars
  <2>1. UNCHANGED <<snapshots, order, active, backoff, startup, ready, crashes, failures>>
        /\ Known' = Known
    BY <1>10 DEF vars, memory, bounds, Known
  <2> QED BY <2>1, SameRegistry
<1> QED BY <1>1, <1>2, <1>4, <1>5, <1>6, <1>7, <1>8, <1>9, <1>10 DEF Next, Job

(* The registry of the supervisor: it never holds more than its capacity, its two *)
(* indexes name the same operations, and the active probe is one of them.         *)
THEOREM TypeCorrect == Spec => []TypeOK
<1>1. Init => Registry
  <2> SUFFICES ASSUME Init PROVE Registry
    OBVIOUS
  <2>1. Known = {} /\ order = <<>>
    BY DEF Init, Known
  <2>2. Lists(order, Known)
    BY <2>1, NothingListed
  <2>3. Cardinality(Known) <= MaxRetained
    BY <2>1, NothingListed, ProbeHistoryAssumption
  <2>4. /\ active \in Known \cup {None} /\ backoff \subseteq Known
        /\ startup \in BOOLEAN /\ ready \in BOOLEAN
    BY DEF Init
  <2>5. crashes \in 0..MaxCrashes /\ failures \in 0..MaxFailures
    BY ProbeHistoryAssumption DEF Init
  <2> QED BY <2>2, <2>3, <2>4, <2>5 DEF Registry
<1>2. IInv /\ Registry /\ [Next]_vars => Registry'
  BY RegistryKept
<1>3. IInv /\ Registry => TypeOK
  <2> SUFFICES ASSUME IInv, Registry PROVE TypeOK
    OBVIOUS
  <2>1. order \in Seq(Known) /\ Len(order) = Cardinality(Known)
    BY ListedCardinality DEF Registry, Lists
  <2> QED BY <2>1 DEF IInv, Registry, Types, OneJob, TypeOK
<1> QED BY <1>1, <1>2, <1>3, Invariance, PTL DEF Spec

-------------------------------------------------------------------------------
(* OmpProbe, for every number of candidates, help commands and replacements and *)
(* every limit of the output.  The argument: the runner's position tells what   *)
(* its process may still do, whose image it is and who is left to hold the pipe.*)

Commands == {"none", "version", "models"} \cup Helps
OmpAnswers == [command : Commands, image : 0 .. 2, whole : BOOLEAN, cut : BOOLEAN]
OmpTasks == [at : {"idle", "choose", "run", "ask"}, kind : {"none", "probe", "models"},
             rest : SUBSET Candidates, path : Candidates \cup {NoPath}, id : 0 .. 2,
             command : Commands, todo : SUBSET Helps, answers : SUBSET OmpAnswers]
OmpRunners == [at : {"idle", "open", "spawn", "wait", "sweep", "collect", "collect_error"},
               fd : 0 .. 2]
OmpChildren == [leader : {"none", "alive", "exited", "reaped"}, ok : BOOLEAN, image : 0 .. 2,
                group : BOOLEAN, outside : BOOLEAN, wrote : 0 .. MaxOutput,
                read : 0 .. MaxOutput,
                reader : {"none", "reading", "done", "failed", "aborted"}]
OmpFaults == {"dropped", "wait", "mode", "removal"}

OmpTypes ==
    /\ exe \in [Candidates -> 0 .. 2]
    /\ task \in OmpTasks
    /\ runner \in OmpRunners
    /\ child \in OmpChildren
    /\ home \in BOOLEAN /\ faults \in SUBSET OmpFaults
    /\ report \in [id : 0 .. 2, answers : SUBSET OmpAnswers]
    /\ changes \in 0 .. MaxChanges

(* Answers of processes that ran file id, each kept whole or known to be cut. *)
Theirs(id, answers) ==
    \A a \in answers : /\ a.image = id
                       /\ a.whole \/ a.cut
                       /\ a.command = "models" => a.whole

(* The task and what it has heard so far. *)
Asking(t) ==
    /\ t.at = "choose" \/ (t.at = "run" /\ t.command = "version") => t.answers = {}
    /\ t.at = "ask" => t.path \in Candidates
    /\ Theirs(t.id, t.answers)

(* The pipe: who reached its end has read it all, and nobody writes to it again. *)
Piped(c) ==
    /\ c.read <= c.wrote
    /\ c.reader = "done" =>
          c.read = c.wrote /\ c.leader # "alive" /\ ~c.group /\ ~c.outside

(* What faults f may leave of a process and of the isolated home. *)
Leaves(c, h, f) ==
    /\ c.leader # "alive"
    /\ c.group => f \cap {"dropped", "wait"} # {}
    /\ h => f \cap {"mode", "removal"} # {}

(* The runner of task t, its process and what is left of the call before. *)
Running(t, r, c, h, f) ==
    /\ t.at = "run" <=> r.at # "idle"
    /\ t.at = "run" => t.path \in Candidates
    /\ r.at \in {"spawn", "wait", "sweep", "collect", "collect_error"} => r.fd = t.id
    /\ r.at \in {"wait", "sweep", "collect", "collect_error"} => c.image = t.id
    /\ r.at \in {"idle", "open"} => Leaves(c, h, f)
    /\ r.at = "spawn" => c.leader # "alive" /\ ~c.group
    /\ r.at \in {"sweep", "collect", "collect_error"} => c.leader = "reaped"
    /\ r.at \in {"collect", "collect_error"} => ~c.group

OmpInv ==
    /\ OmpTypes
    /\ Asking(task)
    /\ Running(task, runner, child, home, faults)
    /\ Piped(child)
    /\ Theirs(report.id, report.answers)

LEMMA OmpInitHolds == OmpInit => OmpInv
<1> SUFFICES ASSUME OmpInit PROVE OmpInv
  OBVIOUS
<1>1. OmpTypes
  <2>1. exe \in [Candidates -> 0 .. 2] /\ changes \in 0 .. MaxChanges
    BY OmpProbeAssumption DEF OmpInit
  <2>2. task \in OmpTasks /\ runner \in OmpRunners
    BY DEF OmpInit, NoTask, NoRun, OmpTasks, OmpRunners, Commands
  <2>3. child \in OmpChildren
    BY OmpProbeAssumption DEF OmpInit, NoChild, OmpChildren
  <2>4. report \in [id : 0 .. 2, answers : SUBSET OmpAnswers]
    BY DEF OmpInit, NoReport
  <2> QED BY <2>1, <2>2, <2>3, <2>4 DEF OmpInit, OmpTypes
<1>2. Asking(task) /\ Theirs(report.id, report.answers)
  BY DEF OmpInit, Asking, Theirs, NoTask, NoReport
<1>3. Running(task, runner, child, home, faults) /\ Piped(child)
  BY DEF OmpInit, Running, Leaves, Piped, NoTask, NoRun, NoChild
<1> QED BY <1>1, <1>2, <1>3 DEF OmpInv

(* A new task has heard nothing. *)
LEMMA NoTaskIsIdle == NoTask \in OmpTasks /\ Asking(NoTask) /\ NoTask.at = "idle"
  BY DEF NoTask, OmpTasks, Commands, Asking, Theirs

(* Whatever the command was, the task goes on without its answer. *)
LEMMA GoesOnWithout ==
  ASSUME OmpInv, task.at = "run", TaskWithout
  PROVE  task' \in OmpTasks /\ Asking(task') /\ task'.at # "run"
<1>1. task \in OmpTasks /\ task.path \in Candidates /\ Theirs(task.id, task.answers)
  BY DEF OmpInv, OmpTypes, Running, Asking
<1>2. CASE task.command = "version"
  <2>1. task' = [task EXCEPT !.at = "choose"] /\ task.answers = {}
    BY <1>2 DEF TaskWithout, OmpInv, Asking
  <2> QED BY <1>1, <2>1 DEF OmpTasks, Asking, Theirs
<1>3. CASE task.command = "models"
  <2>1. task' = NoTask
    BY <1>3 DEF TaskWithout
  <2> QED BY <2>1, NoTaskIsIdle
<1>4. CASE task.command \notin {"version", "models"}
  <2>1. task' = [task EXCEPT !.at = "ask"]
    BY <1>4 DEF TaskWithout
  <2> QED BY <1>1, <2>1 DEF OmpTasks, Asking, Theirs
<1> QED BY <1>2, <1>3, <1>4

(* The runner has returned: what it needs of the process and the home it left. *)
LEMMA Returned ==
  ASSUME OmpInv, NEW f \in SUBSET OmpFaults, RunnerReturns(f), task'.at # "run",
         child'.leader # "alive", child'.group => f \cap {"dropped", "wait"} # {}
  PROVE  /\ Running(task', runner', child', home', faults')
         /\ runner' \in OmpRunners /\ home' \in BOOLEAN /\ faults' \in SUBSET OmpFaults
<1>1. /\ runner' = NoRun /\ home' \in {FALSE, home}
      /\ faults' = faults \cup f \cup (IF home' THEN {"removal"} ELSE {})
  BY DEF RunnerReturns
<1>2. home \in BOOLEAN /\ faults \in SUBSET OmpFaults
  BY DEF OmpInv, OmpTypes
<1>3. home' \in BOOLEAN /\ faults' \in SUBSET OmpFaults
  BY <1>1, <1>2 DEF OmpFaults
<1>4. runner'.at = "idle" /\ runner' \in OmpRunners
  BY <1>1 DEF NoRun, OmpRunners
<1>5. Leaves(child', home', faults')
  <2>1. child'.group => faults' \cap {"dropped", "wait"} # {}
    BY <1>1
  <2>2. home' => "removal" \in faults'
    BY <1>1
  <2> QED BY <2>1, <2>2 DEF Leaves
<1> QED BY <1>3, <1>4, <1>5 DEF Running

(* An answer of a process whose pipe was read to its end. *)
LEMMA AnswerIsTheirs ==
  ASSUME OmpInv, runner.at = "collect", child.reader = "done"
  PROVE  /\ Answer \in OmpAnswers /\ Answer.image = task.id /\ Answer.command = task.command
         /\ Answer.whole \/ Answer.cut
         /\ ~Answer.cut => Answer.whole
<1>1. task \in OmpTasks /\ child \in OmpChildren /\ MaxOutput \in Nat /\ Limit \in Nat
  BY OmpProbeAssumption DEF OmpInv, OmpTypes
<1>2. child.read = child.wrote /\ child.image = task.id
  BY DEF OmpInv, Running, Piped
<1>3. child.read \in Nat /\ child.wrote \in Nat
  BY <1>1 DEF OmpChildren
<1>4. Answer = [command |-> task.command, image |-> task.id, whole |-> child.wrote <= Limit,
                cut |-> child.read > Limit]
  BY <1>2 DEF Answer
<1>5. task.command \in Commands /\ task.id \in 0 .. 2
  BY <1>1 DEF OmpTasks
<1>6. (child.wrote <= Limit) \in BOOLEAN /\ (child.read > Limit) \in BOOLEAN
  OBVIOUS
<1>7. Answer \in OmpAnswers
  BY <1>4, <1>5, <1>6 DEF OmpAnswers
<1>8. child.wrote <= Limit \/ child.read > Limit
  BY <1>1, <1>2, <1>3
<1>9. Answer.whole \/ Answer.cut
  <2>1. CASE child.wrote <= Limit
    BY <1>4, <2>1, Zenon
  <2>2. CASE child.read > Limit
    BY <1>4, <2>2, Zenon
  <2> QED BY <1>8, <2>1, <2>2
<1> QED BY <1>4, <1>7, <1>9

LEMMA ProbeBeginsKeeps == ASSUME OmpInv, ProbeBegins PROVE OmpInv'
<1>1. task' = [NoTask EXCEPT !.at = "choose", !.kind = "probe", !.rest = Candidates]
      /\ report' = NoReport /\ UNCHANGED <<exe, runner, child, faults, home, changes>>
      /\ task.at = "idle"
  BY DEF ProbeBegins, processes
<1>2. task' \in OmpTasks /\ task'.at = "choose" /\ task'.answers = {}
  <2>1. task' = [at |-> "choose", kind |-> "probe", rest |-> Candidates, path |-> NoPath, id |-> 0,
                 command |-> "none", todo |-> {}, answers |-> {}]
    BY <1>1 DEF NoTask
  <2> QED BY <2>1 DEF OmpTasks, Commands
<1>3. OmpTypes'
  BY <1>1, <1>2 DEF OmpInv, OmpTypes, NoReport
<1>4. Asking(task') /\ Theirs(report'.id, report'.answers)
  BY <1>1, <1>2 DEF Asking, Theirs, NoReport
<1>5. Running(task', runner', child', home', faults') /\ Piped(child')
  BY <1>1, <1>2 DEF OmpInv, Running
<1> QED BY <1>3, <1>4, <1>5 DEF OmpInv

LEMMA ProbeChoosesKeeps == ASSUME OmpInv, ProbeChooses PROVE OmpInv'
<1>0. UNCHANGED <<exe, child, faults, home, report, changes>> /\ task.at = "choose"
  BY DEF ProbeChooses, processes
<1>1. task \in OmpTasks /\ task.answers = {} /\ runner.at = "idle" /\ exe \in [Candidates -> 0 .. 2]
  BY <1>0 DEF OmpInv, OmpTypes, Running, Asking, OmpRunners
<1>2. CASE task.rest = {}
  <2>1. task' = NoTask /\ runner' = runner
    BY <1>2 DEF ProbeChooses
  <2> QED BY <1>0, <1>1, <2>1, NoTaskIsIdle DEF OmpInv, OmpTypes, Running
<1>3. ASSUME NEW c \in task.rest, exe[c] = 0, task' = [task EXCEPT !.rest = @ \ {c}],
             runner' = runner
      PROVE  OmpInv'
  <2>1. task' \in OmpTasks /\ task'.at = "choose" /\ task'.answers = {}
    BY <1>0, <1>1, <1>3 DEF OmpTasks
  <2> QED BY <1>0, <1>1, <1>3, <2>1 DEF OmpInv, OmpTypes, Running, Asking, Theirs
<1>4. ASSUME NEW c \in task.rest, runner' = [NoRun EXCEPT !.at = "open"],
             task' = [task EXCEPT !.rest = @ \ {c}, !.at = "run", !.path = c, !.id = exe[c],
                                  !.command = "version"]
      PROVE  OmpInv'
  <2>1. c \in Candidates
    BY <1>1 DEF OmpTasks
  <2>2. /\ task' \in OmpTasks /\ task'.at = "run" /\ task'.answers = {}
        /\ task'.path \in Candidates
    BY <1>1, <1>4, <2>1 DEF OmpTasks, Commands
  <2>3. runner' \in OmpRunners /\ runner'.at = "open"
    BY <1>4 DEF NoRun, OmpRunners
  <2>4. Leaves(child, home, faults)
    BY <1>1 DEF OmpInv, Running
  <2>5. OmpTypes'
    BY <1>0, <2>2, <2>3 DEF OmpInv, OmpTypes
  <2>6. Asking(task')
    BY <2>2 DEF Asking, Theirs
  <2>7. Running(task', runner', child', home', faults')
    BY <1>0, <2>2, <2>3, <2>4 DEF Running
  <2> QED BY <1>0, <2>5, <2>6, <2>7 DEF OmpInv
<1>5. CASE task.rest # {}
  <2>1. PICK c \in task.rest :
           IF exe[c] = 0
           THEN task' = [task EXCEPT !.rest = @ \ {c}] /\ UNCHANGED runner
           ELSE /\ task' = [[task EXCEPT !.rest = @ \ {c}] EXCEPT
                               !.at = "run", !.path = c, !.id = exe[c], !.command = "version"]
                /\ runner' = [NoRun EXCEPT !.at = "open"]
    BY <1>5 DEF ProbeChooses
  <2>2. [[task EXCEPT !.rest = @ \ {c}] EXCEPT !.at = "run", !.path = c, !.id = exe[c],
                                               !.command = "version"]
        = [task EXCEPT !.rest = @ \ {c}, !.at = "run", !.path = c, !.id = exe[c],
                       !.command = "version"]
    BY <1>1 DEF OmpTasks
  <2> QED BY <1>3, <1>4, <2>1, <2>2
<1> QED BY <1>2, <1>5

LEMMA ProbeAsksKeeps == ASSUME OmpInv, ProbeAsks PROVE OmpInv'
<1>1. PICK h \in task.todo :
         task' = [task EXCEPT !.at = "run", !.command = h, !.todo = @ \ {h}]
  BY DEF ProbeAsks
<1>2. /\ runner' = [NoRun EXCEPT !.at = "open"] /\ task.at = "ask"
      /\ UNCHANGED <<exe, child, faults, home, report, changes>>
  BY DEF ProbeAsks, processes
<1>3. /\ task \in OmpTasks /\ runner.at = "idle" /\ task.path \in Candidates
      /\ Theirs(task.id, task.answers)
  BY <1>2 DEF OmpInv, OmpTypes, Running, Asking, OmpRunners
<1>4. h \in Helps /\ h # "version"
  BY <1>3, OmpProbeAssumption DEF OmpTasks
<1>5. /\ task' \in OmpTasks /\ task'.at = "run" /\ task'.command = h /\ task'.id = task.id
      /\ task'.answers = task.answers /\ task'.path \in Candidates
  BY <1>1, <1>3, <1>4 DEF OmpTasks, Commands
<1>6. runner' \in OmpRunners /\ runner'.at = "open"
  BY <1>2 DEF NoRun, OmpRunners
<1>7. Leaves(child, home, faults)
  BY <1>3 DEF OmpInv, Running
<1>8. OmpTypes'
  BY <1>2, <1>5, <1>6 DEF OmpInv, OmpTypes
<1>9. Asking(task')
  BY <1>3, <1>4, <1>5 DEF Asking
<1>10. Running(task', runner', child', home', faults')
  BY <1>2, <1>5, <1>6, <1>7 DEF Running
<1> QED BY <1>2, <1>8, <1>9, <1>10 DEF OmpInv

LEMMA ProbeReportsKeeps == ASSUME OmpInv, ProbeReports PROVE OmpInv'
<1>1. /\ task' = NoTask /\ task.at = "ask"
      /\ UNCHANGED <<exe, runner, child, faults, home, changes>>
      /\ report' \in {report, [id |-> task.id, answers |-> task.answers]}
  BY DEF ProbeReports, processes
<1>2. task \in OmpTasks /\ Theirs(task.id, task.answers) /\ runner.at = "idle"
  BY <1>1 DEF OmpInv, OmpTypes, Asking, Running, OmpRunners
<1>3. /\ report' \in [id : 0 .. 2, answers : SUBSET OmpAnswers]
      /\ Theirs(report'.id, report'.answers)
  BY <1>1, <1>2 DEF OmpInv, OmpTypes, OmpTasks
<1>4. OmpTypes'
  BY <1>1, <1>3, NoTaskIsIdle DEF OmpInv, OmpTypes
<1>5. Running(task', runner', child', home', faults')
  BY <1>1, <1>2, NoTaskIsIdle DEF OmpInv, Running
<1> QED BY <1>1, <1>3, <1>4, <1>5, NoTaskIsIdle DEF OmpInv

LEMMA QueryBeginsKeeps == ASSUME OmpInv, QueryBegins PROVE OmpInv'
<1>1. PICK c \in Candidates, id \in 1 .. 2 :
         task' = [NoTask EXCEPT !.at = "run", !.kind = "models", !.path = c, !.id = id,
                                !.command = "models"]
  BY DEF QueryBegins
<1>2. /\ runner' = [NoRun EXCEPT !.at = "open"] /\ report' = NoReport /\ task.at = "idle"
      /\ UNCHANGED <<exe, child, faults, home, changes>>
  BY DEF QueryBegins, processes
<1>3. /\ task' \in OmpTasks /\ task'.at = "run" /\ task'.answers = {}
      /\ task'.path \in Candidates
  <2>1. task' = [at |-> "run", kind |-> "models", rest |-> {}, path |-> c, id |-> id,
                 command |-> "models", todo |-> {}, answers |-> {}]
    BY <1>1 DEF NoTask
  <2> QED BY <2>1 DEF OmpTasks, Commands
<1>4. runner' \in OmpRunners /\ runner'.at = "open"
  BY <1>2 DEF NoRun, OmpRunners
<1>5. Leaves(child, home, faults)
  BY <1>2 DEF OmpInv, OmpTypes, Running, OmpRunners
<1>6. OmpTypes'
  BY <1>2, <1>3, <1>4 DEF OmpInv, OmpTypes, NoReport
<1>7. Asking(task') /\ Theirs(report'.id, report'.answers)
  BY <1>2, <1>3 DEF Asking, Theirs, NoReport
<1>8. Running(task', runner', child', home', faults')
  BY <1>2, <1>3, <1>4, <1>5 DEF Running
<1> QED BY <1>2, <1>6, <1>7, <1>8 DEF OmpInv

(* A call that returns without an answer, its process over. *)
LEMMA ReturnsWithout ==
  ASSUME OmpInv, task.at = "run", NEW f \in SUBSET OmpFaults, RunnerReturns(f), TaskWithout,
         child' \in OmpChildren, Piped(child'), child'.leader # "alive",
         child'.group => f \cap {"dropped", "wait"} # {}, UNCHANGED <<exe, report, changes>>
  PROVE  OmpInv'
<1>1. task' \in OmpTasks /\ Asking(task') /\ task'.at # "run"
  BY GoesOnWithout
<1>2. /\ Running(task', runner', child', home', faults')
      /\ runner' \in OmpRunners /\ home' \in BOOLEAN /\ faults' \in SUBSET OmpFaults
  BY <1>1, Returned
<1>3. OmpTypes'
  BY <1>1, <1>2 DEF OmpInv, OmpTypes
<1> QED BY <1>1, <1>2, <1>3 DEF OmpInv

(* A process that was never started has left nothing. *)
LEMMA NoChildIsOver ==
  /\ NoChild \in OmpChildren /\ Piped(NoChild)
  /\ NoChild.leader # "alive" /\ ~NoChild.group
  BY OmpProbeAssumption DEF NoChild, OmpChildren, Piped

LEMMA OpensKeeps == ASSUME OmpInv, Opens PROVE OmpInv'
<1>1. /\ runner.at = "open" /\ task.at = "run" /\ UNCHANGED <<exe, report, changes>>
      /\ runner \in OmpRunners /\ child \in OmpChildren /\ Piped(child)
      /\ Leaves(child, home, faults)
  BY DEF Opens, OmpInv, OmpTypes, Running
<1>2. CASE /\ child' = NoChild /\ runner' = [at |-> "spawn", fd |-> task.id]
           /\ home' = (task.command = "models") /\ faults' = {} /\ task' = task
  <2>1. task \in OmpTasks
    BY DEF OmpInv, OmpTypes
  <2>2. runner' \in OmpRunners /\ runner'.at = "spawn" /\ runner'.fd = task.id
    BY <1>2, <2>1 DEF OmpRunners, OmpTasks
  <2>3. OmpTypes'
    BY <1>1, <1>2, <2>2, NoChildIsOver DEF OmpInv, OmpTypes, OmpFaults
  <2>4. Running(task', runner', child', home', faults')
    BY <1>1, <1>2, <2>2, NoChildIsOver DEF OmpInv, Running
  <2> QED BY <1>1, <1>2, <2>3, <2>4, NoChildIsOver DEF OmpInv
<1>3. ASSUME runner' = NoRun, TaskWithout, child' \in OmpChildren, Piped(child'),
             home' \in BOOLEAN, faults' \in SUBSET OmpFaults, Leaves(child', home', faults')
      PROVE  OmpInv'
  <2>1. task' \in OmpTasks /\ Asking(task') /\ task'.at # "run"
    BY <1>1, <1>3, GoesOnWithout
  <2>2. runner' \in OmpRunners /\ runner'.at = "idle"
    BY <1>3 DEF NoRun, OmpRunners
  <2>3. OmpTypes'
    BY <1>1, <1>3, <2>1, <2>2 DEF OmpInv, OmpTypes
  <2>4. Running(task', runner', child', home', faults')
    BY <1>3, <2>1, <2>2 DEF Running
  <2> QED BY <1>1, <1>3, <2>1, <2>3, <2>4 DEF OmpInv
<1>4. CASE /\ child' = NoChild /\ runner' = NoRun /\ home' \in BOOLEAN /\ TaskWithout
           /\ faults' = IF home' THEN {"mode"} ELSE {}
  <2>1. faults' \in SUBSET OmpFaults /\ Leaves(child', home', faults')
    BY <1>4, NoChildIsOver DEF OmpFaults, Leaves
  <2> QED BY <1>3, <1>4, <2>1, NoChildIsOver
<1>5. CASE runner' = NoRun /\ TaskWithout /\ UNCHANGED <<home, processes>>
  <2>1. home' = home /\ child' = child /\ faults' = faults
    BY <1>5 DEF processes
  <2>2. home \in BOOLEAN /\ faults \in SUBSET OmpFaults
    BY DEF OmpInv, OmpTypes
  <2> QED BY <1>1, <1>3, <1>5, <2>1, <2>2
<1>6. CASE exe[task.path] = task.id
  BY <1>2, <1>4, <1>6 DEF Opens
<1>7. CASE exe[task.path] # task.id
  BY <1>5, <1>7 DEF Opens
<1> QED BY <1>6, <1>7

LEMMA SpawnsKeeps == ASSUME OmpInv, Spawns PROVE OmpInv'
<1>1. /\ runner.at = "spawn" /\ task.at = "run" /\ UNCHANGED <<exe, report, changes>>
      /\ runner.fd = task.id /\ runner \in OmpRunners /\ task.path \in Candidates
  BY DEF Spawns, OmpInv, OmpTypes, Running
<1>2. CASE /\ child' = [NoChild EXCEPT !.leader = "alive", !.image = Image, !.reader = "reading"]
           /\ runner' = [runner EXCEPT !.at = "wait"] /\ UNCHANGED <<task, home, faults>>
  <2>1. /\ child' \in OmpChildren /\ child'.leader = "alive" /\ child'.reader = "reading"
        /\ child'.image = task.id /\ Piped(child')
    <3>1. child' = [leader |-> "alive", ok |-> FALSE, image |-> task.id, group |-> FALSE,
                    outside |-> FALSE, wrote |-> 0, read |-> 0, reader |-> "reading"]
      BY <1>1, <1>2 DEF NoChild, Image
    <3>2. task.id \in 0 .. 2
      BY <1>1 DEF OmpRunners
    <3> QED BY <3>1, <3>2, OmpProbeAssumption DEF OmpChildren, Piped
  <2>2. runner' \in OmpRunners /\ runner'.at = "wait" /\ runner'.fd = task.id
    BY <1>1, <1>2 DEF OmpRunners
  <2>3. OmpTypes'
    BY <1>1, <1>2, <2>1, <2>2 DEF OmpInv, OmpTypes
  <2>4. Running(task', runner', child', home', faults')
    BY <1>1, <1>2, <2>1, <2>2 DEF Running
  <2> QED BY <1>1, <1>2, <2>1, <2>3, <2>4 DEF OmpInv
<1>3. CASE RunnerReturns({}) /\ TaskWithout /\ UNCHANGED child
  <2>1. child \in OmpChildren /\ Piped(child) /\ child.leader # "alive" /\ ~child.group
    BY <1>1 DEF OmpInv, OmpTypes, Running
  <2> QED BY <1>1, <1>3, <2>1, ReturnsWithout
<1> QED BY <1>2, <1>3 DEF Spawns

(* The runner moves on while its call goes on. *)
LEMMA RunnerMoves ==
  ASSUME OmpInv, NEW at, runner.at \in {"wait", "sweep"},
         at \in {"sweep", "collect", "collect_error"}, runner' = [runner EXCEPT !.at = at],
         UNCHANGED <<exe, task, home, faults, report, changes>>,
         child' \in OmpChildren, Piped(child'), child'.image = child.image,
         child'.leader = "reaped", at # "sweep" => ~child'.group
  PROVE  OmpInv'
<1>1. runner \in OmpRunners /\ task.at = "run"
  BY DEF OmpInv, OmpTypes, Running
<1>2. runner' \in OmpRunners /\ runner'.at = at /\ runner'.fd = runner.fd
  BY <1>1 DEF OmpRunners
<1>3. OmpTypes'
  BY <1>2 DEF OmpInv, OmpTypes
<1>4. Running(task', runner', child', home', faults')
  BY <1>1, <1>2 DEF OmpInv, Running
<1> QED BY <1>3, <1>4 DEF OmpInv

LEMMA RunnerWaits == ASSUME OmpInv, Waits \/ TimesOut \/ Sweeps PROVE OmpInv'
<1>1. child \in OmpChildren /\ Piped(child)
  BY DEF OmpInv, OmpTypes
<1>2. CASE Waits
  <2>1. /\ child' \in OmpChildren /\ Piped(child') /\ child'.image = child.image
        /\ child'.leader = "reaped"
    BY <1>1, <1>2 DEF Waits, OmpChildren, Piped
  <2> QED BY <1>2, <2>1, RunnerMoves DEF Waits
<1>3. CASE TimesOut
  <2>1. /\ child' \in OmpChildren /\ Piped(child') /\ child'.image = child.image
        /\ child'.leader = "reaped" /\ ~child'.group
    BY <1>1, <1>3 DEF TimesOut, OmpChildren, Piped
  <2> QED BY <1>3, <2>1, RunnerMoves DEF TimesOut
<1>4. CASE Sweeps
  <2>1. /\ child' \in OmpChildren /\ Piped(child') /\ child'.image = child.image
        /\ child'.leader = child.leader /\ ~child'.group
    BY <1>1, <1>4 DEF Sweeps, OmpChildren, Piped
  <2>2. child.leader = "reaped"
    BY <1>4 DEF Sweeps, OmpInv, Running
  <2>3. /\ runner.at = "sweep" /\ runner' = [runner EXCEPT !.at = "collect"]
        /\ UNCHANGED <<exe, task, home, faults, report, changes>>
    BY <1>4 DEF Sweeps
  <2>4. child'.leader = "reaped"
    BY <2>1, <2>2
  <2> QED BY <2>1, <2>3, <2>4, RunnerMoves
<1> QED BY <1>2, <1>3, <1>4

(* The answer of the command is added to what the task has heard. *)
LEMMA CollectsKeeps == ASSUME OmpInv, Collects PROVE OmpInv'
<1>1. /\ runner.at \in {"collect", "collect_error"} /\ child.reader \in {"done", "failed"}
      /\ RunnerReturns({}) /\ UNCHANGED <<exe, child, changes>>
      /\ task.at = "run" /\ task.path \in Candidates /\ child.leader # "alive" /\ ~child.group
      /\ child \in OmpChildren /\ Piped(child)
  BY DEF Collects, processes, OmpInv, OmpTypes, Running
<1>2. CASE TaskWithout /\ UNCHANGED report
  BY <1>1, <1>2, ReturnsWithout
<1>3. ASSUME task' \in OmpTasks, Asking(task'), task'.at # "run",
             report' \in [id : 0 .. 2, answers : SUBSET OmpAnswers],
             Theirs(report'.id, report'.answers)
      PROVE  OmpInv'
  <2>1. child'.leader # "alive" /\ ~child'.group
    BY <1>1
  <2>2. /\ Running(task', runner', child', home', faults')
        /\ runner' \in OmpRunners /\ home' \in BOOLEAN /\ faults' \in SUBSET OmpFaults
    BY <1>1, <1>3, <2>1, Returned
  <2>3. OmpTypes'
    BY <1>1, <1>3, <2>2 DEF OmpInv, OmpTypes
  <2> QED BY <1>1, <1>3, <2>2, <2>3 DEF OmpInv
<1>4. /\ task \in OmpTasks /\ Theirs(task.id, task.answers)
      /\ report \in [id : 0 .. 2, answers : SUBSET OmpAnswers]
      /\ Theirs(report.id, report.answers)
  BY DEF OmpInv, OmpTypes, Asking
<1>5. ASSUME runner.at = "collect", child.reader = "done"
      PROVE  /\ Answer \in OmpAnswers /\ Answer.image = task.id /\ Answer.command = task.command
             /\ Answer.whole \/ Answer.cut
             /\ ~Answer.cut => Answer.whole
  BY <1>1, <1>5, AnswerIsTheirs
<1>6. CASE /\ runner.at = "collect" /\ child.reader = "done"
           /\ task.command \in {"version"} \cup Helps /\ report' = report
           /\ \/ task' = [task EXCEPT !.at = "ask", !.todo = Helps, !.answers = {Answer}]
              \/ task' = [task EXCEPT !.at = "ask", !.answers = @ \cup {Answer}]
  <2>1. Answer.command # "models"
    BY <1>5, <1>6, OmpProbeAssumption
  <2>2. /\ task' \in OmpTasks /\ task'.at = "ask" /\ task'.path = task.path /\ task'.id = task.id
        /\ task'.answers \in {{Answer}, task.answers \cup {Answer}}
    <3>1. CASE task' = [task EXCEPT !.at = "ask", !.todo = Helps, !.answers = {Answer}]
      BY <1>4, <1>5, <1>6, <3>1 DEF OmpTasks
    <3>2. CASE task' = [task EXCEPT !.at = "ask", !.answers = @ \cup {Answer}]
      BY <1>4, <1>5, <1>6, <3>2 DEF OmpTasks
    <3> QED BY <1>6, <3>1, <3>2
  <2>3. Theirs(task'.id, task'.answers)
    BY <1>4, <1>5, <1>6, <2>1, <2>2 DEF Theirs
  <2>4. Asking(task')
    BY <1>1, <2>2, <2>3 DEF Asking
  <2> QED BY <1>3, <1>4, <1>6, <2>2, <2>4
<1>7. CASE /\ runner.at = "collect" /\ child.reader = "done"
           /\ ~Answer.cut /\ task' = NoTask
           /\ report' = [id |-> task.id, answers |-> {Answer}]
  <2>1. report' \in [id : 0 .. 2, answers : SUBSET OmpAnswers]
    BY <1>4, <1>5, <1>7 DEF OmpTasks
  <2>2. report'.id = task.id /\ report'.answers = {Answer}
    BY <1>7
  <2>3. Theirs(report'.id, report'.answers)
    BY <1>5, <1>7, <2>2 DEF Theirs
  <2> QED BY <1>3, <1>7, <2>1, <2>3, NoTaskIsIdle
<1> QED BY <1>2, <1>6, <1>7 DEF Collects, TaskWith

LEMMA GivesUpKeeps == ASSUME OmpInv, GivesUp PROVE OmpInv'
<1>1. /\ child' = [child EXCEPT !.reader = "aborted"] /\ RunnerReturns({}) /\ TaskWithout
      /\ UNCHANGED <<exe, report, changes>> /\ runner.at \in {"collect", "collect_error"}
  BY DEF GivesUp
<1>2. /\ task.at = "run" /\ child.leader # "alive" /\ ~child.group
      /\ child \in OmpChildren /\ Piped(child)
  BY <1>1 DEF OmpInv, OmpTypes, Running
<1>3. /\ child' \in OmpChildren /\ Piped(child') /\ child'.leader # "alive" /\ ~child'.group
  BY <1>1, <1>2 DEF OmpChildren, Piped
<1> QED BY <1>1, <1>2, <1>3, ReturnsWithout

(* A call that goes away with its process. *)
LEMMA GoneIsOver ==
  ASSUME OmpInv, NEW why \in {"dropped", "wait"}, GoesAway(why)
  PROVE  /\ child' \in OmpChildren /\ Piped(child') /\ child'.leader # "alive"
         /\ {why} \in SUBSET OmpFaults /\ {why} \cap {"dropped", "wait"} # {}
<1>1. child' = [leader |-> "reaped", ok |-> FALSE, image |-> 0, group |-> child.group,
                outside |-> FALSE, wrote |-> 0, read |-> 0, reader |-> "none"]
  BY DEF GoesAway, NoChild
<1>2. child.group \in BOOLEAN
  BY DEF OmpInv, OmpTypes, OmpChildren
<1>3. child' \in OmpChildren
  BY <1>1, <1>2, OmpProbeAssumption DEF OmpChildren
<1>4. Piped(child') /\ child'.leader # "alive"
  BY <1>1 DEF Piped
<1>5. {why} \in SUBSET OmpFaults /\ {why} \cap {"dropped", "wait"} # {}
  BY DEF OmpFaults
<1> QED BY <1>3, <1>4, <1>5

LEMMA WaitFailsKeeps == ASSUME OmpInv, WaitFails PROVE OmpInv'
<1>1. GoesAway("wait") /\ TaskWithout /\ task.at = "run"
  BY DEF WaitFails, OmpInv, Running
<1>2. RunnerReturns({"wait"}) /\ UNCHANGED <<exe, report, changes>>
  BY <1>1 DEF GoesAway
<1> QED BY <1>1, <1>2, GoneIsOver, ReturnsWithout

LEMMA DropsKeeps == ASSUME OmpInv, Drops PROVE OmpInv'
<1>1. GoesAway("dropped") /\ task' = NoTask
  BY DEF Drops
<1>2. RunnerReturns({"dropped"}) /\ UNCHANGED <<exe, report, changes>>
  BY <1>1 DEF GoesAway
<1>3. /\ Running(task', runner', child', home', faults')
      /\ runner' \in OmpRunners /\ home' \in BOOLEAN /\ faults' \in SUBSET OmpFaults
  BY <1>1, <1>2, GoneIsOver, NoTaskIsIdle, Returned
<1>4. OmpTypes'
  BY <1>1, <1>2, <1>3, GoneIsOver, NoTaskIsIdle DEF OmpInv, OmpTypes
<1> QED BY <1>1, <1>2, <1>3, <1>4, GoneIsOver, NoTaskIsIdle DEF OmpInv

(* The process lives on without starting anything that was over. *)
LEMMA ProcessKeeps == ASSUME OmpInv, Process PROVE OmpInv'
<1>1. UNCHANGED <<exe, task, runner, home, faults, report, changes>>
  BY DEF Process, Reads, ReadsEnd, ReadFails, Writes, Forks, LeaderExits, DescendantsEnd
<1>2. child \in OmpChildren /\ Piped(child) /\ MaxOutput \in Nat
  BY OmpProbeAssumption DEF OmpInv, OmpTypes
<1>3. ASSUME child' \in OmpChildren, Piped(child'), child'.image = child.image,
             child.leader # "alive" => child'.leader = child.leader /\ (child'.group => child.group)
      PROVE  OmpInv'
  <2>1. OmpTypes'
    BY <1>1, <1>3 DEF OmpInv, OmpTypes
  <2>2. Running(task', runner', child', home', faults')
    BY <1>1, <1>3 DEF OmpInv, Running, Leaves
  <2> QED BY <1>1, <1>3, <2>1, <2>2 DEF OmpInv
<1>4. CASE Reads
  <2>1. child' = [child EXCEPT !.read = @ + 1] /\ child.read < child.wrote
        /\ child.reader = "reading"
    BY <1>4 DEF Reads
  <2> QED BY <1>2, <1>3, <2>1 DEF OmpChildren, Piped
<1>5. CASE ReadsEnd
  BY <1>2, <1>3, <1>5 DEF ReadsEnd, PipeIsHeld, Alive, OmpChildren, Piped
<1>6. CASE Writes
  <2>1. child' = [child EXCEPT !.wrote = @ + 1] /\ child.wrote < MaxOutput
        /\ child.reader # "done"
    BY <1>2, <1>6 DEF Writes, PipeIsHeld, Alive, Piped
  <2> QED BY <1>2, <1>3, <2>1 DEF OmpChildren, Piped
<1>7. CASE Forks
  BY <1>2, <1>3, <1>7 DEF Forks, Alive, OmpChildren, Piped
<1>8. CASE LeaderExits
  BY <1>2, <1>3, <1>8 DEF LeaderExits, Alive, OmpChildren, Piped
<1>9. CASE DescendantsEnd
  BY <1>2, <1>3, <1>9 DEF DescendantsEnd, OmpChildren, Piped
<1>10. CASE ReadFails
  BY <1>2, <1>3, <1>10 DEF ReadFails, OmpChildren, Piped
<1> QED BY <1>4, <1>5, <1>6, <1>7, <1>8, <1>9, <1>10 DEF Process

LEMMA OmpStepKeeps == ASSUME OmpInv, [OmpNext]_ompVars PROVE OmpInv'
<1>1. CASE ExecutableReplaced
  <2>1. exe' \in [Candidates -> 0 .. 2] /\ changes' \in 0 .. MaxChanges
    BY <1>1, OmpProbeAssumption DEF ExecutableReplaced, OmpInv, OmpTypes
  <2> QED BY <1>1, <2>1 DEF ExecutableReplaced, processes, OmpInv, OmpTypes
<1>2. CASE UNCHANGED ompVars
  BY <1>2 DEF ompVars, OmpInv, OmpTypes
<1> QED
  BY <1>1, <1>2, ProbeBeginsKeeps, ProbeChoosesKeeps, ProbeAsksKeeps, ProbeReportsKeeps,
     QueryBeginsKeeps, OpensKeeps, SpawnsKeeps, RunnerWaits, CollectsKeeps, GivesUpKeeps,
     WaitFailsKeeps, DropsKeeps, ProcessKeeps DEF OmpNext, Adapter, Runner

(* The runner's position, the process and the answers fit together at all times. *)
THEOREM OmpInvariance == OmpSpec => []OmpInv
  BY OmpInitHolds, OmpStepKeeps, PTL DEF OmpSpec

(* Every answer of a report came from the one file the report names, kept whole or *)
(* known to be cut: whatever is moved to the path between the commands of a probe, *)
(* and whatever a process writes.                                                  *)
THEOREM AnswersTheirs == OmpSpec => []AnswersAreTheirs
<1>1. OmpInv => AnswersAreTheirs
  BY DEF OmpInv, Theirs, AnswersAreTheirs
<1> QED BY <1>1, OmpInvariance, PTL

(* A runner that has returned has no leader; only a dropped call or a failed wait *)
(* leaves somebody in its group, and only a failed mode or removal the home.      *)
THEOREM NothingLeft == OmpSpec => []NothingLeftBehind
<1>1. OmpInv => NothingLeftBehind
  BY DEF OmpInv, Running, Leaves, NothingLeftBehind, Alive
<1> QED BY <1>1, OmpInvariance, PTL

================================================================================
