---------------------------- MODULE DatabaseRuntime ----------------------------
(***************************************************************************)
(* infrastructure/db/runtime.rs: the one owner of the manager's SQLite     *)
(* connection.  Initialization is attempted by the startup task and by     *)
(* every retry command, each on its own blocking thread; the mutex is not  *)
(* held while the file is opened, checked, backed up and migrated.  The    *)
(* user may repair or damage the files at any time.                        *)
(*                                                                         *)
(* A fingerprint of the files is the metadata of the database and its      *)
(* sidecars: here the number of the last edit and whether an attempt has   *)
(* left sidecars since.                                                    *)
(***************************************************************************)
EXTENDS Naturals

CONSTANTS
    Callers,         \* the startup task and retry commands
    None,            \* no fingerprint
    EditDuringOpen,  \* the files may be edited while an attempt has them open
    MaxEdits,        \* bound: edits of the files
    MaxTransients,   \* bound: attempts that fail for a reason that may go away
    MaxPanics        \* bound: blocking tasks that end abnormally

ASSUME DatabaseRuntimeAssumption ==
    /\ EditDuringOpen \in BOOLEAN
    /\ {MaxEdits, MaxTransients, MaxPanics} \subseteq Nat
    /\ None \notin Nat \X BOOLEAN

VARIABLES
    files,        \* [sound, edit, touched]: what open_in would find
    report,       \* [availability, cause, revision]: DatabaseStatusReport
    database,     \* inner.database is Some
    attempting,   \* inner.attempt_in_progress
    failedPrint,  \* inner.last_failed_fingerprint
    caller,       \* what each caller is doing
    transients, panics,
    backups       \* migration backups published: history variable

bounds == <<transients, panics>>
vars == <<files, report, database, attempting, failedPrint, caller, bounds, backups>>

Fingerprint == <<files.edit, files.touched>>
Idle == [at |-> "idle", revision |-> 0, outcome |-> "none", print |-> None]

Report(availability, cause, revision) ==
    [availability |-> availability, cause |-> cause, revision |-> revision]

Init ==
    /\ files \in [sound : BOOLEAN, edit : {0}, touched : {FALSE}]
    /\ report = Report("initializing", "none", 1)
    /\ database = FALSE
    /\ attempting = FALSE
    /\ failedPrint = None
    /\ caller = [c \in Callers |-> Idle]
    /\ transients = 0 /\ panics = 0
    /\ backups = 0

-------------------------------------------------------------------------------
(* run_initialization, first critical section. *)

(* Variant for the mutation checks: an attempt in progress is not joined. *)
NothingToJoin == report.availability = "ready"

(* The report is returned as it is: ready, or another attempt is running. *)
Joined == report.availability = "ready" \/ attempting

(* Variant for the mutation checks: a migration that failed is not tried again. *)
FailedForGood == report.cause = "migration"

(* ... or the same migration has failed on the very same files. *)
UnchangedFailure == report.cause = "migration" /\ failedPrint = Fingerprint

Begin(c) ==
    /\ caller[c].at = "idle"
    /\ ~Joined
    /\ ~UnchangedFailure
    /\ report' = Report("initializing", "none", report.revision + 1)
    /\ attempting' = TRUE
    /\ caller' = [caller EXCEPT ![c] = [Idle EXCEPT !.at = "open", !.revision = report.revision + 2]]
    /\ UNCHANGED <<files, database, failedPrint, bounds, backups>>

(* An attempt that ends before the backup or after it, and before or after SQLite *)
(* has left sidecars.                                                             *)
BreaksOff ==
    /\ backups' \in {backups, backups + 1}
    /\ files' \in {files, [files EXCEPT !.touched = TRUE]}

(* attempt_open.  Files that are not sound fail in their migration, after the *)
(* backup and with the sidecars SQLite leaves behind; any other failure may   *)
(* come earlier.  A failure after the backup with another code than the       *)
(* migration's, such as a migration that broke a foreign key, would come back *)
(* and not be held back: it counts as a passing one, with the bound of those. *)
Opens(c) ==
    /\ caller[c].at = "open"
    /\ \E outcome \in {"ready", "migration", "other"} :
         /\ outcome = "ready" => files.sound
         /\ outcome = "migration" => ~files.sound
         /\ outcome = "other" => transients < MaxTransients
         /\ transients' = transients + (IF outcome = "other" THEN 1 ELSE 0)
         /\ \/ outcome = "ready" /\ UNCHANGED <<backups, files>>
            \/ /\ outcome = "migration"
               /\ backups' = backups + 1
               /\ files' = [files EXCEPT !.touched = TRUE]
            \/ outcome = "other" /\ BreaksOff
         /\ caller' = [caller EXCEPT ![c].at = "print", ![c].outcome = outcome]
    /\ UNCHANGED <<report, database, attempting, failedPrint, panics>>

(* Variant for the mutation checks: the fingerprint is the one before the attempt. *)
PrintsOldFiles(c) ==
    /\ caller[c].at = "print"
    /\ caller' = [caller EXCEPT ![c].at = "publish",
                                ![c].print = IF caller[c].outcome = "ready" THEN None
                                             ELSE <<files.edit, FALSE>>]
    /\ UNCHANGED <<files, report, database, attempting, failedPrint, bounds, backups>>

(* The fingerprint of a failure is taken when the attempt is over. *)
Prints(c) ==
    /\ caller[c].at = "print"
    /\ caller' = [caller EXCEPT ![c].at = "publish",
                                ![c].print = IF caller[c].outcome = "ready" THEN None
                                             ELSE Fingerprint]
    /\ UNCHANGED <<files, report, database, attempting, failedPrint, bounds, backups>>

(* run_initialization, second critical section. *)
Publishes(c) ==
    /\ caller[c].at = "publish"
    /\ database' = (caller[c].outcome = "ready")
    /\ report' = IF database' THEN Report("ready", "none", caller[c].revision)
                 ELSE Report("recovery", caller[c].outcome, caller[c].revision)
    /\ attempting' = FALSE
    /\ failedPrint' = caller[c].print
    /\ caller' = [caller EXCEPT ![c] = Idle]
    /\ UNCHANGED <<files, bounds, backups>>

(* The blocking task panics; the task that awaits it has yet to notice. *)
Panics(c) ==
    /\ caller[c].at \in {"open", "print"}
    /\ panics < MaxPanics
    /\ panics' = panics + 1
    /\ IF caller[c].at = "open" THEN BreaksOff ELSE UNCHANGED <<backups, files>>
    /\ caller' = [caller EXCEPT ![c].at = "monitor"]
    /\ UNCHANGED <<report, database, attempting, failedPrint, transients>>

(* Variant for the mutation checks: the attempt stays in progress. *)
MarksOnlyReport(c) ==
    /\ caller[c].at = "monitor"
    /\ report' = Report("recovery", "task", report.revision + 1)
    /\ failedPrint' = Fingerprint
    /\ caller' = [caller EXCEPT ![c] = Idle]
    /\ UNCHANGED <<files, database, attempting, bounds, backups>>

(* mark_initialization_worker_failed *)
MarksFailed(c) ==
    /\ caller[c].at = "monitor"
    /\ IF report.availability = "initializing"
       THEN /\ database' = FALSE
            /\ report' = Report("recovery", "task", report.revision + 1)
            /\ attempting' = FALSE
            /\ failedPrint' = Fingerprint
       ELSE UNCHANGED <<database, report, attempting, failedPrint>>
    /\ caller' = [caller EXCEPT ![c] = Idle]
    /\ UNCHANGED <<files, bounds, backups>>

(* The user restores a backup, frees the file, or damages it. *)
Edits ==
    /\ files.edit < MaxEdits
    /\ EditDuringOpen \/ ~attempting
    /\ files' \in [sound : BOOLEAN, edit : {files.edit + 1}, touched : {FALSE}]
    /\ UNCHANGED <<report, database, attempting, failedPrint, caller, bounds, backups>>

Runs(c) == Opens(c) \/ Prints(c) \/ Publishes(c) \/ MarksFailed(c)

Next ==
    \/ \E c \in Callers : Begin(c) \/ Runs(c) \/ Panics(c)
    \/ Edits

Spec == Init /\ [][Next]_vars

(* Threads run, and the user who is shown the recovery page keeps asking. *)
Fairness == \A c \in Callers : WF_vars(Runs(c)) /\ WF_vars(Begin(c))

FairSpec == Spec /\ Fairness

-------------------------------------------------------------------------------
(* Properties *)

(* Type invariant: the report's parts fit together with the connection. *)
TypeOK ==
    /\ files \in [sound : BOOLEAN, edit : 0..MaxEdits, touched : BOOLEAN]
    /\ report.availability \in {"initializing", "recovery", "ready"}
    /\ report.cause \in {"none", "migration", "other", "task"}
    /\ report.cause # "none" <=> report.availability = "recovery"
    /\ report.revision \in Nat \ {0}
    /\ database <=> report.availability = "ready"
    /\ attempting => report.availability = "initializing"
    /\ failedPrint \in (Nat \X BOOLEAN) \cup {None}
    /\ \A c \in Callers : caller[c].at \in {"idle", "open", "print", "publish", "monitor"}
    /\ transients \in 0..MaxTransients /\ panics \in 0..MaxPanics
    /\ backups \in Nat

(* The connection other services were given is never replaced or lost: no     *)
(* second attempt, late completion or late failure report overwrites it.      *)
ReadyIsFinal == [][database => database' /\ report' = report]_vars

(* The frontend orders what it polls by the report's revision: every change of *)
(* the report has a greater one.                                               *)
RevisionTellsNews == [][report' # report => report'.revision > report.revision]_vars

(* Asking again and again does not fill the disk: files nobody has edited are  *)
(* backed up once for a migration that fails on them, and once more for every  *)
(* panic or passing failure.                                                   *)
BackupsAreBounded == backups <= 1 + files.edit + panics + transients

(* An attempt ends for everybody, also when its task has panicked. *)
AttemptEnds == attempting ~> ~attempting

(* Once the files are sound and stay so, a user who keeps asking gets there: *)
(* no report is kept back as an unchanged failure for files that changed.    *)
RepairIsNoticed == []<>(~files.sound \/ database)
===============================================================================
