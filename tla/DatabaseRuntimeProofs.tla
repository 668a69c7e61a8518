------------------------- MODULE DatabaseRuntimeProofs -------------------------
(***************************************************************************)
(* The connection, the report's revision and the bound on backups, for any *)
(* number of callers.  The mutex is released during an attempt; what holds *)
(* the rest together is that the attempt flag makes it the only one.       *)
(***************************************************************************)
EXTENDS DatabaseRuntime, TLAPS

Busy(c) == caller[c].at # "idle"

CallerTypes ==
    caller \in [Callers -> [at : {"idle", "open", "print", "publish", "monitor"}, revision : Nat,
                            outcome : {"none", "ready", "migration", "other"},
                            print : (Nat \X BOOLEAN) \cup {None}]]

(* At most one attempt is under way, and it is the one the flag stands for. *)
OneAttempt ==
    /\ attempting <=> \E c \in Callers : Busy(c)
    /\ \A c, d \in Callers : Busy(c) /\ Busy(d) => c = d

(* What the attempt will publish is the next revision, with an outcome. *)
NextRevision ==
    \A c \in Callers : Busy(c) =>
        /\ caller[c].revision = report.revision + 1
        /\ caller[c].at \in {"print", "publish"} => caller[c].outcome # "none"

(* A failed migration of the files as they are, which will be refused next time. *)
Refused ==
    \/ \E c \in Callers : caller[c].at = "print" /\ caller[c].outcome = "migration"
    \/ \E c \in Callers : /\ caller[c].at = "publish" /\ caller[c].outcome = "migration"
                          /\ caller[c].print = Fingerprint
    \/ ~attempting /\ UnchangedFailure

(* Unless it will be refused, there is room for the backup of one more attempt. *)
Budget == files.edit + panics + transients
Spare == backups <= 1 + Budget /\ (~Refused => backups <= Budget)

Sound == TypeOK /\ CallerTypes /\ OneAttempt /\ NextRevision

-------------------------------------------------------------------------------

LEMMA Limits == MaxEdits \in Nat /\ MaxTransients \in Nat /\ MaxPanics \in Nat
BY DatabaseRuntimeAssumption

LEMMA InitSound == Init => Sound /\ Spare
<1> SUFFICES ASSUME Init PROVE Sound /\ Spare
    OBVIOUS
<1> USE Limits
<1>1. TypeOK
  <2>1. /\ report = [availability |-> "initializing", cause |-> "none", revision |-> 1]
        /\ database = FALSE /\ attempting = FALSE /\ failedPrint = None
        /\ transients = 0 /\ panics = 0 /\ backups = 0
      BY DEF Init, Report
  <2>2. files \in [sound : BOOLEAN, edit : 0 .. MaxEdits, touched : BOOLEAN]
    <3>1. 0 \in 0 .. MaxEdits
        OBVIOUS
    <3>2. files \in [sound : BOOLEAN, edit : {0}, touched : {FALSE}]
        BY DEF Init
    <3> QED
        BY <3>1, <3>2
  <2>3. \A c \in Callers : caller[c].at = "idle"
      BY DEF Init, Idle
  <2> QED
      BY <2>1, <2>2, <2>3 DEF TypeOK
<1>2. CallerTypes
    BY DEF Init, CallerTypes, Idle
<1>3. OneAttempt /\ NextRevision
    BY DEF Init, OneAttempt, NextRevision, Busy, Idle
<1>4. Spare
    BY DEF Init, Spare, Budget
<1> QED
    BY <1>1, <1>2, <1>3, <1>4 DEF Sound

LEMMA StepSound == Sound /\ [Next]_vars => Sound'
<1> SUFFICES ASSUME Sound, [Next]_vars PROVE Sound'
    OBVIOUS
<1> USE Limits
<1>0. TypeOK /\ CallerTypes /\ OneAttempt /\ NextRevision
    BY DEF Sound
<1>1. ASSUME NEW c \in Callers, Begin(c) PROVE Sound'
  <2>1. ~attempting /\ report.availability # "ready" /\ \A d \in Callers : ~Busy(d)
      BY <1>0, <1>1 DEF Begin, Joined, OneAttempt
  <2>2. CallerTypes'
    <3>1. report.revision + 2 \in Nat
        BY <1>0 DEF TypeOK
    <3> DEFINE Attempt == [at : {"idle", "open", "print", "publish", "monitor"}, revision : Nat,
                           outcome : {"none", "ready", "migration", "other"},
                           print : (Nat \X BOOLEAN) \cup {None}]
    <3>2. Idle \in Attempt
        BY DEF Idle
    <3>3. [[Idle EXCEPT !.at = "open"] EXCEPT !.revision = report.revision + 2] \in Attempt
        BY <3>1, <3>2
    <3>4. caller \in [Callers -> Attempt]
        BY <1>0 DEF CallerTypes
    <3>5. caller' \in [Callers -> Attempt]
        BY <1>1, <3>3, <3>4 DEF Begin
    <3> QED
        BY <3>5 DEF CallerTypes
  <2>3. /\ caller'[c].at = "open" /\ caller'[c].revision = report'.revision + 1
        /\ \A d \in Callers \ {c} : caller'[d] = caller[d]
      BY <1>0, <1>1 DEF Begin, CallerTypes, Idle, Report, TypeOK
  <2>4. OneAttempt' /\ NextRevision'
      BY <1>1, <2>1, <2>3 DEF Begin, OneAttempt, NextRevision, Busy
  <2>5. TypeOK'
      BY <1>0, <1>1, <2>1, <2>2 DEF Begin, TypeOK, CallerTypes, Report, bounds
  <2> QED
      BY <2>2, <2>4, <2>5 DEF Sound
<1>2. ASSUME NEW c \in Callers, Opens(c) \/ Prints(c) \/ (Panics(c) /\ caller[c].at # "idle") PROVE Sound'
  <2>1. CallerTypes'
      BY <1>0, <1>2 DEF Opens, Prints, Panics, CallerTypes, TypeOK, Fingerprint
  <2>2. /\ Busy(c) /\ Busy(c)' /\ caller'[c].revision = caller[c].revision
        /\ caller'[c].at \in {"print", "publish"} => caller'[c].outcome # "none"
        /\ \A d \in Callers \ {c} : caller'[d] = caller[d]
      BY <1>0, <1>2 DEF Opens, Prints, Panics, CallerTypes, Busy, NextRevision
  <2>3. UNCHANGED <<report, database, attempting, failedPrint>>
      BY <1>2 DEF Opens, Prints, Panics
  <2>4. OneAttempt' /\ NextRevision'
      BY <1>0, <2>2, <2>3 DEF OneAttempt, NextRevision, Busy
  <2>5. /\ files' \in [sound : BOOLEAN, edit : 0 .. MaxEdits, touched : BOOLEAN]
        /\ transients' \in 0 .. MaxTransients /\ panics' \in 0 .. MaxPanics /\ backups' \in Nat
    <3> DEFINE Touched == [files EXCEPT !.touched = TRUE]
    <3>0. /\ files \in [sound : BOOLEAN, edit : 0 .. MaxEdits, touched : BOOLEAN]
          /\ Touched \in [sound : BOOLEAN, edit : 0 .. MaxEdits, touched : BOOLEAN]
        BY <1>0 DEF TypeOK
    <3> HIDE DEF Touched
    <3>1. CASE Opens(c)
      <4>1. files' \in {files, Touched} /\ backups' \in {backups, backups + 1} /\ panics' = panics
          BY <3>1 DEF Opens, BreaksOff, Touched
      <4>2. transients' \in 0 .. MaxTransients
        <5>1. transients' = transients \/ (transients < MaxTransients /\ transients' = transients + 1)
            BY <1>0, <3>1 DEF Opens, TypeOK
        <5> QED
            BY <1>0, <5>1 DEF TypeOK
      <4> QED
          BY <1>0, <3>0, <4>1, <4>2 DEF TypeOK
    <3>2. CASE Prints(c)
        BY <1>0, <3>2 DEF Prints, TypeOK, bounds
    <3>3. CASE Panics(c)
      <4>1. /\ files' \in {files, Touched} /\ backups' \in {backups, backups + 1}
            /\ panics < MaxPanics /\ panics' = panics + 1 /\ transients' = transients
          BY <3>3 DEF Panics, BreaksOff, Touched
      <4> QED
          BY <1>0, <3>0, <4>1 DEF TypeOK
    <3> QED
        BY <1>2, <3>1, <3>2, <3>3
  <2>6. TypeOK'
      BY <1>0, <2>1, <2>3, <2>5 DEF TypeOK, CallerTypes
  <2> QED
      BY <2>1, <2>4, <2>6 DEF Sound
<1>3. ASSUME NEW c \in Callers, Publishes(c) \/ MarksFailed(c) PROVE Sound'
  <2>1. Busy(c) /\ attempting /\ report.availability = "initializing"
      BY <1>0, <1>3 DEF Publishes, MarksFailed, Busy, OneAttempt, TypeOK
  <2>2. /\ caller' = [caller EXCEPT ![c] = Idle]
        /\ attempting' = FALSE
        /\ UNCHANGED <<files, bounds, backups>>
        /\ report'.revision = report.revision + 1
      BY <1>0, <1>3, <2>1 DEF Publishes, MarksFailed, NextRevision, Report
  <2>3. CallerTypes'
      BY <1>0, <2>2 DEF CallerTypes, Idle
  <2>4. \A d \in Callers : ~Busy(d)'
      BY <1>0, <2>1, <2>2 DEF Busy, OneAttempt, CallerTypes, Idle
  <2>5. OneAttempt' /\ NextRevision'
      BY <2>2, <2>4 DEF OneAttempt, NextRevision, Busy
  <2>6. /\ report'.availability \in {"recovery", "ready"}
        /\ report'.cause \in {"none", "migration", "other", "task"}
        /\ report'.cause # "none" <=> report'.availability = "recovery"
        /\ database' <=> report'.availability = "ready"
        /\ failedPrint' \in (Nat \X BOOLEAN) \cup {None}
    <3>1. CASE Publishes(c)
        BY <1>0, <3>1 DEF Publishes, CallerTypes, NextRevision, Busy, Report
    <3>2. CASE MarksFailed(c)
        BY <1>0, <2>1, <3>2 DEF MarksFailed, Report, Fingerprint, TypeOK
    <3> QED
        BY <1>3, <3>1, <3>2
  <2>7. TypeOK'
      BY <1>0, <2>2, <2>3, <2>6 DEF TypeOK, CallerTypes, bounds
  <2> QED
      BY <2>3, <2>5, <2>7 DEF Sound
<1>4. ASSUME Edits PROVE Sound'
  <2>1. files' \in [sound : BOOLEAN, edit : 0 .. MaxEdits, touched : BOOLEAN]
    <3>1. files.edit + 1 \in 0 .. MaxEdits
        BY <1>0, <1>4 DEF Edits, TypeOK
    <3> QED
        BY <1>4, <3>1 DEF Edits
  <2>2. UNCHANGED <<report, database, attempting, failedPrint, caller, bounds, backups>>
      BY <1>4 DEF Edits
  <2> QED
      BY <1>0, <2>1, <2>2 DEF Sound, TypeOK, CallerTypes, OneAttempt, NextRevision, Busy, bounds
<1>5. ASSUME UNCHANGED vars PROVE Sound'
    BY <1>0, <1>5 DEF vars, bounds, Sound, TypeOK, CallerTypes, OneAttempt, NextRevision, Busy
<1> QED
  <2>1. ASSUME NEW c \in Callers, Panics(c) PROVE caller[c].at # "idle"
      BY <2>1 DEF Panics
  <2> QED
      BY <1>1, <1>2, <1>3, <1>4, <1>5, <2>1 DEF Next, Runs

(* While an attempt is under way only its caller can make Refused true. *)
LEMMA OnlyBusyRefuses ==
    ASSUME Sound, NEW c \in Callers, Busy(c)
    PROVE  /\ \A d \in Callers : d # c => caller[d].at = "idle"
           /\ attempting
           /\ Refused => /\ caller[c].at \in {"print", "publish"}
                         /\ caller[c].outcome = "migration"
                         /\ caller[c].at = "publish" => caller[c].print = Fingerprint
<1>1. attempting /\ \A d \in Callers : d # c => caller[d].at = "idle"
    BY DEF Sound, OneAttempt, Busy
<1> QED
    BY <1>1 DEF Refused

LEMMA StepSpare == Sound /\ Spare /\ [Next]_vars => Spare'
<1> SUFFICES ASSUME Sound, Spare, [Next]_vars PROVE Spare'
    OBVIOUS
<1> USE Limits
<1>0. /\ TypeOK /\ CallerTypes
      /\ files.edit \in Nat /\ panics \in Nat /\ transients \in Nat /\ backups \in Nat
    BY DEF Sound, TypeOK
<1>1. ASSUME NEW c \in Callers, Begin(c) PROVE Spare'
  <2>1. ~Refused
    <3>1. ~attempting /\ ~UnchangedFailure /\ \A d \in Callers : caller[d].at = "idle"
        BY <1>1 DEF Begin, Joined, Sound, OneAttempt, TypeOK, Busy
    <3> QED
        BY <3>1 DEF Refused
  <2>2. backups' = backups /\ Budget' = Budget
      BY <1>1 DEF Begin, Budget, bounds
  <2> QED
      BY <1>0, <2>1, <2>2 DEF Spare, Budget
<1>2. ASSUME NEW c \in Callers, Opens(c) PROVE Spare'
  <2>1. Busy(c) /\ ~Refused
    <3>1. Busy(c) /\ caller[c].at = "open"
        BY <1>2 DEF Opens, Busy
    <3> QED
        BY <3>1, OnlyBusyRefuses
  <2>2. backups <= Budget
      BY <2>1 DEF Spare
  <2>3. files'.edit = files.edit /\ panics' = panics /\ backups' \in {backups, backups + 1}
    <3>1. files' = files \/ files' = [files EXCEPT !.touched = TRUE]
        BY <1>2 DEF Opens, BreaksOff
    <3> QED
        BY <1>0, <1>2, <3>1 DEF Opens, BreaksOff, TypeOK
  <2>4. CASE caller'[c].outcome = "ready"
    <3>1. backups' = backups /\ transients' = transients
        BY <1>0, <1>2, <2>4 DEF Opens, CallerTypes
    <3> QED
        BY <1>0, <2>2, <2>3, <3>1 DEF Spare, Budget
  <2>5. CASE caller'[c].outcome = "migration"
    <3>1. transients' = transients /\ caller'[c].at = "print"
        BY <1>0, <1>2, <2>5 DEF Opens, CallerTypes
    <3>2. Refused'
        BY <2>5, <3>1 DEF Refused
    <3> QED
        BY <1>0, <2>2, <2>3, <3>1, <3>2 DEF Spare, Budget
  <2>6. CASE caller'[c].outcome = "other"
    <3>1. transients' = transients + 1
        BY <1>0, <1>2, <2>6 DEF Opens, CallerTypes
    <3> QED
        BY <1>0, <2>2, <2>3, <3>1 DEF Spare, Budget
  <2> QED
    <3>1. caller'[c].outcome \in {"ready", "migration", "other"}
        BY <1>0, <1>2 DEF Opens, CallerTypes
    <3> QED
        BY <2>4, <2>5, <2>6, <3>1
<1>3. ASSUME NEW c \in Callers, Prints(c) PROVE Spare'
  <2>1. UNCHANGED <<files, bounds, backups>> /\ Budget' = Budget
      BY <1>3 DEF Prints, Budget, bounds
  <2>2. Refused => Refused'
    <3>1. SUFFICES ASSUME Refused PROVE Refused'
        OBVIOUS
    <3>2. caller[c].at = "print" /\ caller[c].outcome = "migration"
        BY <1>3, <3>1, OnlyBusyRefuses DEF Prints, Busy
    <3>3. /\ caller'[c].at = "publish" /\ caller'[c].outcome = "migration"
          /\ caller'[c].print = Fingerprint
        BY <1>0, <1>3, <3>2 DEF Prints, CallerTypes
    <3> QED
        BY <2>1, <3>3 DEF Refused, Fingerprint
  <2> QED
      BY <2>1, <2>2 DEF Spare
<1>4. ASSUME NEW c \in Callers, Publishes(c) PROVE Spare'
  <2>1. UNCHANGED <<files, bounds, backups>> /\ Budget' = Budget
      BY <1>4 DEF Publishes, Budget, bounds
  <2>2. Refused => Refused'
    <3>1. SUFFICES ASSUME Refused PROVE Refused'
        OBVIOUS
    <3>2. /\ caller[c].outcome = "migration" /\ caller[c].print = Fingerprint
        BY <1>4, <3>1, OnlyBusyRefuses DEF Publishes, Busy
    <3>3. report'.cause = "migration" /\ failedPrint' = Fingerprint /\ attempting' = FALSE
        BY <1>4, <3>2 DEF Publishes, Report
    <3> QED
        BY <2>1, <3>3 DEF Refused, UnchangedFailure, Fingerprint
  <2> QED
      BY <2>1, <2>2 DEF Spare
<1>5. ASSUME NEW c \in Callers, Panics(c) PROVE Spare'
  <2>1. /\ files'.edit = files.edit /\ panics' = panics + 1 /\ transients' = transients
    <3>1. files' = files \/ files' = [files EXCEPT !.touched = TRUE]
        BY <1>5 DEF Panics, BreaksOff
    <3> QED
        BY <1>0, <1>5, <3>1 DEF Panics, TypeOK
  <2>2. CASE caller[c].at = "open"
    <3>1. backups' \in {backups, backups + 1} /\ ~Refused
        BY <1>5, <2>2, OnlyBusyRefuses DEF Panics, BreaksOff, Busy
    <3> QED
        BY <1>0, <2>1, <3>1 DEF Spare, Budget
  <2>3. CASE caller[c].at # "open"
    <3>1. backups' = backups
        BY <1>5, <2>3 DEF Panics
    <3> QED
        BY <1>0, <2>1, <3>1 DEF Spare, Budget
  <2> QED
      BY <2>2, <2>3
<1>6. ASSUME NEW c \in Callers, MarksFailed(c) PROVE Spare'
  <2>1. ~Refused
      BY <1>6, OnlyBusyRefuses DEF MarksFailed, Busy
  <2>2. backups' = backups /\ Budget' = Budget
      BY <1>6 DEF MarksFailed, Budget, bounds
  <2> QED
      BY <1>0, <2>1, <2>2 DEF Spare, Budget
<1>7. ASSUME Edits PROVE Spare'
  <2>1. /\ files'.edit = files.edit + 1 /\ panics' = panics /\ transients' = transients
        /\ backups' = backups
      BY <1>7 DEF Edits, bounds
  <2> QED
      BY <1>0, <2>1 DEF Spare, Budget
<1>8. ASSUME UNCHANGED vars PROVE Spare'
  <2>1. UNCHANGED <<files, report, attempting, failedPrint, caller, panics, transients, backups>>
      BY <1>8 DEF vars, bounds
  <2>2. (Refused <=> Refused') /\ Budget' = Budget
      BY <2>1 DEF Refused, Budget, UnchangedFailure, Fingerprint
  <2> QED
      BY <2>1, <2>2 DEF Spare
<1> QED
    BY <1>1, <1>2, <1>3, <1>4, <1>5, <1>6, <1>7, <1>8 DEF Next, Runs

LEMMA Invariance == Spec => [](Sound /\ Spare)
<1>1. Sound /\ Spare /\ [Next]_vars => (Sound /\ Spare)'
    BY StepSound, StepSpare
<1> QED
    BY <1>1, InitSound, PTL DEF Spec

-------------------------------------------------------------------------------
(* Theorems *)

(* The report, the connection and the attempt flag fit together whatever the *)
(* callers do, and whoever of them panics.                                   *)
THEOREM TypeCorrect == Spec => []TypeOK
<1>1. Sound => TypeOK
    BY DEF Sound
<1> QED
    BY <1>1, Invariance, PTL

(* BackupsAreBounded: retries do not fill the disk.  The invariant behind it says *)
(* that a failed migration which has used up its backup will be refused next time. *)
THEOREM BackupsBounded == Spec => []BackupsAreBounded
<1>1. Sound /\ Spare => BackupsAreBounded
  <2> SUFFICES ASSUME Sound, Spare PROVE BackupsAreBounded
      OBVIOUS
  <2>1. files.edit \in Nat /\ panics \in Nat /\ transients \in Nat /\ backups \in Nat
      BY Limits DEF Sound, TypeOK
  <2> QED
      BY <2>1 DEF Spare, Budget, BackupsAreBounded
<1> QED
    BY <1>1, Invariance, PTL

(* Every step that changes the report publishes the next revision, and none *)
(* changes it once the database is ready.                                   *)
LEMMA StepReport ==
    Sound /\ [Next]_vars =>
        /\ report' = report \/ report'.revision = report.revision + 1
        /\ database => database' /\ report' = report
<1> SUFFICES ASSUME Sound, [Next]_vars
             PROVE  /\ report' = report \/ report'.revision = report.revision + 1
                    /\ database => database' /\ report' = report
    OBVIOUS
<1>1. ASSUME NEW c \in Callers, Begin(c)
      PROVE  report'.revision = report.revision + 1 /\ ~database
    BY <1>1 DEF Begin, Joined, Report, Sound, TypeOK
<1>2. ASSUME NEW c \in Callers, Opens(c) \/ Prints(c) \/ Panics(c)
      PROVE  report' = report /\ database' = database
    BY <1>2 DEF Opens, Prints, Panics
<1>3. ASSUME NEW c \in Callers, Publishes(c) \/ MarksFailed(c)
      PROVE  report'.revision = report.revision + 1 /\ ~database
  <2>1. Busy(c) /\ report.availability = "initializing" /\ ~database
      BY <1>3 DEF Publishes, MarksFailed, Busy, Sound, OneAttempt, TypeOK
  <2> QED
      BY <1>3, <2>1 DEF Publishes, MarksFailed, Sound, NextRevision, Report
<1>4. ASSUME Edits \/ UNCHANGED vars PROVE report' = report /\ database' = database
    BY <1>4 DEF Edits, vars
<1> QED
    BY <1>1, <1>2, <1>3, <1>4 DEF Next, Runs

(* ReadyIsFinal: the connection handed to the other services is never replaced. *)
THEOREM ReadyFinal == Spec => ReadyIsFinal
<1>1. Sound /\ [Next]_vars => [database => database' /\ report' = report]_vars
    BY StepReport
<1> QED
    BY <1>1, Invariance, PTL DEF Spec, ReadyIsFinal

(* RevisionTellsNews: what the frontend has polled is older than every later report. *)
THEOREM RevisionTells == Spec => RevisionTellsNews
<1>1. Sound /\ [Next]_vars => [report' # report => report'.revision > report.revision]_vars
  <2> SUFFICES ASSUME Sound, [Next]_vars, report' # report
               PROVE  report'.revision > report.revision
      OBVIOUS
  <2>1. report'.revision = report.revision + 1
      BY StepReport
  <2>2. report.revision \in Nat
      BY DEF Sound, TypeOK
  <2> QED
      BY <2>1, <2>2
<1> QED
    BY <1>1, Invariance, PTL DEF Spec, RevisionTellsNews

===============================================================================
