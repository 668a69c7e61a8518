-------------------------- MODULE ProjectEditorProofs --------------------------
(***************************************************************************)
(* What ProjectEditor guarantees for any number of calls, projects,        *)
(* launchers and changes of files.  A call keeps what it has read while    *)
(* other calls and other programs go on, so the invariant says of every    *)
(* call what still holds of the values it carries: they are out of date at *)
(* most in ways that the next check of the call tells.                     *)
(***************************************************************************)
EXTENDS ProjectEditor, TLAPS

Probing == {"wait", "sweep", "output", "look again"}
Proved == {"check again", "directory", "executable", "start"}
Opening == {"probe", "help"} \cup Probing \cup Proved
Steps == {"idle", "persist", "edit", "update", "load", "check", "status"} \cup Opening
Verdicts == {"none", "active", "offline", "replaced"}

Files == Executables \cup {NoFile}
Helps == [image : Files, ok : BOOLEAN, group : BOOLEAN, long : BOOLEAN, forced : BOOLEAN]
Bindings == {NoBinding} \cup [profile : Profiles, revision : Nat \ {0}]
CallRecords == [at : Steps, project : Projects \cup {None}, read : Nat, verdict : Verdicts,
                rest : SUBSET Candidates, path : Candidates \cup {None}, editor : Files,
                help : Helps, binding : Bindings, moves : Nat, swapped : BOOLEAN]

TypeOK ==
    /\ directory \in [Projects -> Nat]
    /\ exe \in [Candidates -> Files]
    /\ rows \in [Projects -> GitIdentities \cup {None, "absent"}]
    /\ grants \in [Projects -> [id : Nat, status : Verdicts \cup {"missing"}]]
    /\ bindings \in [Projects -> Bindings]
    /\ opening \subseteq Projects /\ scopes \subseteq Projects
    /\ calls \in [Calls -> CallRecords]
    /\ changes \in Nat

(* What holds of the launcher a call has seen, given the files: the path leads to *)
(* it until the file moves, and not after the first move; the help text is its    *)
(* own unless the file moved, and stays its own once the call looked again.       *)
Follows(call, files_) ==
    /\ call.at \in {"help"} \cup Probing =>
          /\ call.path \in Candidates
          /\ call.moves = 0 => files_[call.path] = call.editor
          /\ call.moves = 1 => files_[call.path] # call.editor
    /\ call.at \in Probing => (call.moves = 0 => call.help.image = call.editor)
    /\ call.at \in Proved =>
          call.path \in Candidates /\ (call.help.image = call.editor \/ call.swapped)
    /\ call.at = "start" => (call.moves = 0 => files_[call.path] = call.editor)

(* What holds of the other values a call carries, given the database: a binding  *)
(* of the revision it saw is the binding it saw.                                 *)
Carries(call, stored, seen) ==
    /\ call.at # "idle" => call.project \in Projects
    /\ call.at \in {"persist"} \cup Opening => <<call.project, call.read, "active">> \in seen
    /\ call.at = "status" => <<call.project, call.read, call.verdict>> \in seen
    /\ call.at \in {"edit", "update"} =>
          /\ call.binding.revision <= stored[call.project].revision
          /\ call.binding.revision = stored[call.project].revision =>
                call.binding = stored[call.project]

Holds(call, files_, stored, seen) == Follows(call, files_) /\ Carries(call, stored, seen)

CallsHold == \A c \in Calls : Holds(calls[c], exe, bindings, looks)

IInv == TypeOK /\ CallsHold /\ StatusIsSeen /\ EditorIsAsProved

-------------------------------------------------------------------------------
(* Bindings only move on: a new binding has a greater revision.  What holds of a *)
(* call's values goes on to hold.                                                *)
BindingsMoveOn(old, new) ==
    \A p \in Projects : new[p] = old[p] \/ new[p].revision > old[p].revision

LEMMA CarriesLater ==
  ASSUME NEW call \in CallRecords,
         NEW stored1 \in [Projects -> Bindings], NEW stored2 \in [Projects -> Bindings],
         NEW seen1, NEW seen2, seen1 \subseteq seen2,
         BindingsMoveOn(stored1, stored2), Carries(call, stored1, seen1)
  PROVE  Carries(call, stored2, seen2)
<1>1. call.at # "idle" => call.project \in Projects
  BY DEF Carries
<1>2. ASSUME call.at \in {"edit", "update"}
      PROVE  /\ call.binding.revision <= stored2[call.project].revision
             /\ call.binding.revision = stored2[call.project].revision =>
                   call.binding = stored2[call.project]
  <2>1. call.project \in Projects /\ call.binding \in Bindings
    BY <1>1, <1>2 DEF CallRecords
  <2>2. /\ call.binding.revision \in Nat
        /\ stored1[call.project].revision \in Nat /\ stored2[call.project].revision \in Nat
    BY <2>1 DEF Bindings, NoBinding
  <2>3. \/ stored2[call.project] = stored1[call.project]
        \/ stored2[call.project].revision > stored1[call.project].revision
    BY <2>1 DEF BindingsMoveOn
  <2> QED BY <1>2, <2>2, <2>3 DEF Carries
<1> QED BY <1>1, <1>2 DEF Carries

(* A step of one call leaves what the others carry alone. *)
LEMMA OneCallMoves ==
  ASSUME IInv, NEW c \in Calls, NEW next \in CallRecords, Goes(c, next),
         UNCHANGED exe, looks \subseteq looks',
         bindings' \in [Projects -> Bindings], BindingsMoveOn(bindings, bindings'),
         Holds(next, exe, bindings', looks')
  PROVE  calls' \in [Calls -> CallRecords] /\ CallsHold'
<1>1. calls \in [Calls -> CallRecords] /\ bindings \in [Projects -> Bindings]
  BY DEF IInv, TypeOK
<1>2. calls' \in [Calls -> CallRecords]
  BY <1>1 DEF Goes
<1>3. ASSUME NEW d \in Calls PROVE Holds(calls'[d], exe', bindings', looks')
  <2>1. CASE d = c
    BY <2>1, <1>1 DEF Goes
  <2>2. CASE d # c
    <3>1. calls'[d] = calls[d] /\ calls[d] \in CallRecords
      BY <2>2, <1>1 DEF Goes
    <3>2. Follows(calls[d], exe) /\ Carries(calls[d], bindings, looks)
      BY DEF IInv, CallsHold, Holds
    <3>3. Holds(calls[d], exe, bindings', looks')
      BY <3>1, <3>2, <1>1, CarriesLater DEF Holds
    <3> QED BY <3>1, <3>3
  <2> QED BY <2>1, <2>2
<1> QED BY <1>2, <1>3 DEF CallsHold

(* Most steps change the call, the registries and what was seen, and nothing else. *)
LEMMA QuietCall ==
  ASSUME IInv, NEW c \in Calls, NEW next \in CallRecords, Goes(c, next),
         UNCHANGED <<files, database, opened>>, looks \subseteq looks',
         opening' \subseteq Projects, scopes' \subseteq Projects,
         Holds(next, exe, bindings, looks')
  PROVE  IInv'
<1>1. calls' \in [Calls -> CallRecords] /\ CallsHold'
  <2>1. BindingsMoveOn(bindings, bindings') /\ bindings' \in [Projects -> Bindings]
    BY DEF BindingsMoveOn, database, IInv, TypeOK
  <2> QED BY <2>1, OneCallMoves DEF files, database
<1>2. TypeOK'
  BY <1>1 DEF IInv, TypeOK, files, database
<1>3. StatusIsSeen' /\ EditorIsAsProved'
  BY DEF IInv, StatusIsSeen, EditorIsAsProved, files, database
<1> QED BY <1>1, <1>2, <1>3 DEF IInv

(* A call that has returned carries nothing. *)
LEMMA NothingHeld ==
  /\ NoCall \in CallRecords
  /\ \A files_, stored, seen : Holds(NoCall, files_, stored, seen)
<1>1. NoCall \in CallRecords
  BY DEF NoCall, CallRecords, Steps, Verdicts, Helps, Bindings, NoHelp, Files, NoBinding
<1>2. \A files_, stored, seen : Holds(NoCall, files_, stored, seen)
  BY DEF NoCall, Holds, Follows, Carries, Probing, Proved, Opening
<1> QED BY <1>1, <1>2

LEMMA CallTypes ==
  ASSUME IInv, NEW c \in Calls
  PROVE  /\ calls[c] \in CallRecords
         /\ Holds(calls[c], exe, bindings, looks)
         /\ calls[c].at \in Steps /\ calls[c].read \in Nat /\ calls[c].verdict \in Verdicts
         /\ calls[c].rest \in SUBSET Candidates /\ calls[c].path \in Candidates \cup {None}
         /\ calls[c].editor \in Files /\ calls[c].help \in Helps
         /\ calls[c].moves \in Nat /\ calls[c].swapped \in BOOLEAN
         /\ calls[c].binding \in Bindings
         /\ opening \subseteq Projects /\ scopes \subseteq Projects
  BY DEF IInv, TypeOK, CallsHold, CallRecords

(* A call that only goes from one step to the next. *)
LEMMA NextStep ==
  ASSUME NEW call \in CallRecords, NEW step \in Steps
  PROVE  /\ [call EXCEPT !.at = step] \in CallRecords
         /\ [call EXCEPT !.at = step].at = step
         /\ [call EXCEPT !.at = step].project = call.project
         /\ [call EXCEPT !.at = step].read = call.read
         /\ [call EXCEPT !.at = step].verdict = call.verdict
         /\ [call EXCEPT !.at = step].path = call.path
         /\ [call EXCEPT !.at = step].editor = call.editor
         /\ [call EXCEPT !.at = step].help = call.help
         /\ [call EXCEPT !.at = step].binding = call.binding
         /\ [call EXCEPT !.at = step].moves = call.moves
         /\ [call EXCEPT !.at = step].swapped = call.swapped
  BY DEF CallRecords

(* A call that returns. *)
LEMMA QuietReturn ==
  ASSUME IInv, NEW c \in Calls, Goes(c, NoCall), UNCHANGED <<files, database, opened>>,
         looks \subseteq looks', opening' \subseteq Projects, scopes' \subseteq Projects
  PROVE  IInv'
<1> HIDE DEF IInv
<1> QED BY NothingHeld, QuietCall

-------------------------------------------------------------------------------
(* Registration and the binding. *)

LEMMA AddKeeps == ASSUME IInv, NEW c \in Calls, AddAuthorizes(c) PROVE IInv'
<1>1. PICK p \in Projects :
        /\ Goes(c, [NoCall EXCEPT !.at = "persist", !.project = p, !.read = directory[p]])
        /\ looks' = looks \cup {<<p, directory[p], "active">>}
  BY DEF AddAuthorizes
<1> DEFINE next == [NoCall EXCEPT !.at = "persist", !.project = p, !.read = directory[p]]
<1>2. /\ next \in CallRecords
      /\ next.at = "persist" /\ next.project = p /\ next.read = directory[p]
  <2>1. directory[p] \in Nat
    BY DEF IInv, TypeOK
  <2> QED BY <2>1, NothingHeld DEF CallRecords, Steps, NoCall
<1> HIDE DEF next
<1>3. Holds(next, exe, bindings, looks')
  BY <1>1, <1>2 DEF Holds, Follows, Carries, Probing, Proved, Opening
<1>4. UNCHANGED <<files, database, opened>> /\ opening' \subseteq Projects /\ scopes' \subseteq Projects
  BY CallTypes DEF AddAuthorizes
<1> QED BY <1>1, <1>2, <1>3, <1>4, QuietCall DEF next

LEMMA PersistKeeps == ASSUME IInv, NEW c \in Calls, PersistProject(c) PROVE IInv'
<1> DEFINE p == calls[c].project
           read == calls[c].read
<1>1. p \in Projects /\ read \in Nat /\ <<p, read, "active">> \in looks
  BY CallTypes DEF PersistProject, At, Holds, Follows, Carries
<1>2. PICK profile \in Profiles : bindings' = [bindings EXCEPT ![p] = FirstBinding(p, profile)]
  BY DEF PersistProject
<1>3. /\ bindings' \in [Projects -> Bindings]
      /\ BindingsMoveOn(bindings, bindings')
  <2>1. bindings \in [Projects -> Bindings] /\ bindings[p] \in Bindings
    BY <1>1 DEF IInv, TypeOK
  <2>2. [profile |-> profile, revision |-> 1] \in Bindings
    BY DEF Bindings
  <2>3. FirstBinding(p, profile) \in Bindings
    BY <2>1, <2>2 DEF FirstBinding
  <2>4. FirstBinding(p, profile) = bindings[p] \/ FirstBinding(p, profile).revision > bindings[p].revision
    BY <2>1 DEF FirstBinding
  <2> QED BY <1>1, <1>2, <2>1, <2>3, <2>4 DEF BindingsMoveOn
<1>4. grants' = [grants EXCEPT ![p] = [id |-> read, status |-> "active"]]
  BY DEF PersistProject
<1>5. PICK git \in GitIdentity(p) : rows' = [rows EXCEPT ![p] = IF @ = "absent" THEN git ELSE @]
  BY DEF PersistProject
<1>6. Goes(c, NoCall) /\ UNCHANGED <<directory, exe, changes, opening, scopes, opened, looks>>
  BY DEF PersistProject, files
<1> HIDE DEF p, read
<1>7. calls' \in [Calls -> CallRecords] /\ CallsHold'
  BY <1>3, <1>6, NothingHeld, OneCallMoves
<1>8. rows' \in [Projects -> GitIdentities \cup {None, "absent"}]
  BY <1>1, <1>5 DEF IInv, TypeOK, GitIdentity
<1>9. grants \in [Projects -> [id : Nat, status : Verdicts \cup {"missing"}]]
  BY DEF IInv, TypeOK
<1>10. grants' \in [Projects -> [id : Nat, status : Verdicts \cup {"missing"}]]
  <2>1. [id |-> read, status |-> "active"] \in [id : Nat, status : Verdicts \cup {"missing"}]
    BY <1>1 DEF Verdicts
  <2> QED BY <1>1, <1>4, <1>9, <2>1
<1>11. TypeOK'
  BY <1>3, <1>6, <1>7, <1>8, <1>10 DEF IInv, TypeOK
<1>12. StatusIsSeen'
  BY <1>1, <1>4, <1>6, <1>9 DEF IInv, StatusIsSeen
<1>13. EditorIsAsProved'
  BY <1>6 DEF IInv, EditorIsAsProved
<1> QED BY <1>7, <1>11, <1>12, <1>13 DEF IInv

LEMMA LoadWorkspaceKeeps == ASSUME IInv, NEW c \in Calls, LoadWorkspace(c) PROVE IInv'
<1>1. PICK p \in Projects :
        Goes(c, [NoCall EXCEPT !.at = "edit", !.project = p, !.binding = bindings[p]])
  BY DEF LoadWorkspace
<1> DEFINE next == [NoCall EXCEPT !.at = "edit", !.project = p, !.binding = bindings[p]]
<1>2. /\ next \in CallRecords
      /\ next.at = "edit" /\ next.project = p /\ next.binding = bindings[p]
  <2>1. bindings[p] \in Bindings
    BY DEF IInv, TypeOK
  <2> QED BY <2>1, NothingHeld DEF CallRecords, Steps, NoCall
<1>3. bindings[p].revision \in Nat
  BY DEF IInv, TypeOK, Bindings, NoBinding
<1> HIDE DEF next
<1>4. Holds(next, exe, bindings, looks')
  BY <1>2, <1>3 DEF Holds, Follows, Carries, Probing, Proved, Opening
<1>5. /\ UNCHANGED <<files, database, opened>>
      /\ opening' \subseteq Projects /\ scopes' \subseteq Projects /\ looks \subseteq looks'
  BY CallTypes DEF LoadWorkspace
<1> QED BY <1>1, <1>2, <1>4, <1>5, QuietCall DEF next

LEMMA UpdateBeginsKeeps == ASSUME IInv, NEW c \in Calls, UpdateBegins(c) PROVE IInv'
<1>1. /\ UNCHANGED <<files, database, opened>>
      /\ opening' \subseteq Projects /\ looks \subseteq looks'
  BY CallTypes DEF UpdateBegins
<1>2. CASE calls[c].project \in scopes
  BY <1>1, <1>2, CallTypes, QuietReturn DEF UpdateBegins
<1>3. CASE calls[c].project \notin scopes
  <2> DEFINE next == [calls[c] EXCEPT !.at = "update"]
  <2>1. Goes(c, next) /\ scopes' = scopes \cup {calls[c].project}
    BY <1>3 DEF UpdateBegins, Step
  <2>2. /\ next \in CallRecords /\ next.at = "update"
        /\ next.project = calls[c].project /\ next.binding = calls[c].binding
    BY CallTypes, NextStep DEF Steps
  <2> HIDE DEF next
  <2>3. calls[c].at = "edit" /\ calls[c].project \in Projects
    BY CallTypes DEF UpdateBegins, At, Holds, Follows, Carries
  <2>4. Holds(next, exe, bindings, looks)
    BY <2>2, <2>3, CallTypes DEF Holds, Follows, Carries, Probing, Proved, Opening
  <2>5. looks' = looks /\ scopes' \subseteq Projects
    BY <2>1, <2>3, CallTypes DEF UpdateBegins
  <2> QED BY <1>1, <2>1, <2>2, <2>4, <2>5, QuietCall
<1> QED BY <1>2, <1>3

LEMMA UpdateKeeps == ASSUME IInv, NEW c \in Calls, UpdateBinding(c) PROVE IInv'
<1> DEFINE p == calls[c].project
<1>1. p \in Projects
  BY CallTypes DEF UpdateBinding, At, Holds, Follows, Carries
<1>2. bindings' \in [Projects -> Bindings] /\ BindingsMoveOn(bindings, bindings')
  <2>1. bindings \in [Projects -> Bindings]
    BY DEF IInv, TypeOK
  <2>2. CASE UNCHANGED bindings
    BY <2>1, <2>2 DEF BindingsMoveOn
  <2>3. CASE ExpectedRevision(c)
    <3>1. PICK profile \in Profiles : bindings' = [bindings EXCEPT ![p] =
                                      [profile |-> profile, revision |-> @.revision + 1]]
      BY <2>3 DEF UpdateBinding
    <3>2. bindings[p].revision \in Nat
      BY <1>1, <2>1 DEF Bindings, NoBinding
    <3> DEFINE new == [profile |-> profile, revision |-> bindings[p].revision + 1]
    <3>3. new \in Bindings /\ new.revision > bindings[p].revision
      BY <3>2 DEF Bindings
    <3>4. bindings' = [bindings EXCEPT ![p] = new]
      BY <3>1
    <3> HIDE DEF new, p
    <3> QED BY <1>1, <2>1, <3>3, <3>4 DEF BindingsMoveOn
  <2> QED BY <2>2, <2>3 DEF UpdateBinding
<1>3. /\ Goes(c, NoCall) /\ scopes' \subseteq Projects
      /\ UNCHANGED <<directory, exe, changes, rows, grants, opening, opened, looks>>
  BY CallTypes DEF UpdateBinding, files
<1>4. calls' \in [Calls -> CallRecords] /\ CallsHold'
  BY <1>2, <1>3, NothingHeld, OneCallMoves
<1>5. TypeOK'
  BY <1>2, <1>3, <1>4 DEF IInv, TypeOK
<1>6. StatusIsSeen' /\ EditorIsAsProved'
  BY <1>3 DEF IInv, StatusIsSeen, EditorIsAsProved
<1> QED BY <1>4, <1>5, <1>6 DEF IInv

-------------------------------------------------------------------------------
(* The service's steps of opening a project. *)

(* Returning drops the guard of the project. *)
LEMMA ReturnsKeeps ==
  ASSUME IInv, NEW c \in Calls, Returns(c), UNCHANGED <<files, database, opened, scopes, looks>>
  PROVE  IInv'
<1>1. Goes(c, NoCall) /\ opening' \subseteq Projects /\ scopes' \subseteq Projects
  BY CallTypes DEF Returns
<1> QED BY <1>1, QuietReturn

LEMMA OpenBeginsKeeps == ASSUME IInv, NEW c \in Calls, OpenBegins(c) PROVE IInv'
<1>1. PICK p \in Projects \ opening :
        /\ opening' = opening \cup {p}
        /\ Goes(c, [NoCall EXCEPT !.at = "load", !.project = p])
  BY DEF OpenBegins
<1> DEFINE next == [NoCall EXCEPT !.at = "load", !.project = p]
<1>2. next \in CallRecords /\ next.at = "load" /\ next.project = p
  BY NothingHeld DEF CallRecords, Steps, NoCall
<1> HIDE DEF next
<1>3. Holds(next, exe, bindings, looks')
  BY <1>2 DEF Holds, Follows, Carries, Probing, Proved, Opening
<1>4. /\ UNCHANGED <<files, database, opened>> /\ looks \subseteq looks'
      /\ opening' \subseteq Projects /\ scopes' \subseteq Projects
  BY <1>1, CallTypes DEF OpenBegins
<1> QED BY <1>1, <1>2, <1>3, <1>4, QuietCall DEF next

LEMMA LoadRecordKeeps == ASSUME IInv, NEW c \in Calls, LoadRecord(c) PROVE IInv'
<1> DEFINE p == calls[c].project
<1>1. p \in Projects
  BY CallTypes DEF LoadRecord, At, Holds, Follows, Carries
<1>2. UNCHANGED <<files, database, scopes, opened, looks>>
  BY DEF LoadRecord
<1>3. CASE Returns(c)
  BY <1>2, <1>3, ReturnsKeeps
<1>4. CASE /\ Goes(c, [calls[c] EXCEPT !.at = "check", !.read = grants[p].id])
           /\ UNCHANGED opening
  <2> DEFINE next == [calls[c] EXCEPT !.at = "check", !.read = grants[p].id]
  <2>1. next \in CallRecords /\ next.at = "check" /\ next.project = p
    <3>1. grants[p].id \in Nat
      BY <1>1 DEF IInv, TypeOK
    <3> QED BY <3>1, CallTypes DEF CallRecords, Steps
  <2> HIDE DEF next
  <2>2. Holds(next, exe, bindings, looks')
    BY <1>1, <2>1 DEF Holds, Follows, Carries, Probing, Proved, Opening
  <2>3. opening' \subseteq Projects /\ scopes' \subseteq Projects /\ looks \subseteq looks'
    BY <1>2, <1>4, CallTypes
  <2> QED BY <1>2, <1>4, <2>1, <2>2, <2>3, QuietCall DEF next
<1> QED BY <1>3, <1>4 DEF LoadRecord

(* A look at the directory: its verdict is remembered; only a call that has been *)
(* through its probe goes further with the verdict "active".                     *)
LEMMA FindsKeeps ==
  ASSUME IInv, NEW c \in Calls, NEW step \in {"status", "directory", "executable"},
         Finds(c, Verdict(c), step), calls[c].at # "idle",
         step # "status" => calls[c].at \in Proved /\ Verdict(c) = "active",
         UNCHANGED <<files, database, opening, scopes, opened>>
  PROVE  IInv'
<1> DEFINE next == [calls[c] EXCEPT !.at = step, !.verdict = Verdict(c)]
<1>1. Verdict(c) \in Verdicts
  BY DEF Verdict, Verdicts
<1>2. /\ next \in CallRecords
      /\ next.at = step /\ next.verdict = Verdict(c)
      /\ next.project = calls[c].project /\ next.read = calls[c].read
      /\ next.path = calls[c].path /\ next.editor = calls[c].editor
      /\ next.help = calls[c].help /\ next.swapped = calls[c].swapped
  BY <1>1, CallTypes DEF CallRecords, Steps, Opening, Proved
<1>3. Goes(c, next) /\ looks' = looks \cup {<<calls[c].project, calls[c].read, Verdict(c)>>}
  BY DEF Finds
<1> HIDE DEF next
<1>4. Holds(next, exe, bindings, looks')
  BY <1>2, <1>3, CallTypes DEF Holds, Follows, Carries, Probing, Proved, Opening
<1>5. opening' \subseteq Projects /\ scopes' \subseteq Projects /\ looks \subseteq looks'
  BY <1>3, CallTypes
<1> QED BY <1>2, <1>3, <1>4, <1>5, QuietCall

LEMMA LooksKeep ==
  ASSUME IInv, NEW c \in Calls, Revalidate(c) \/ RevalidateAgain(c) \/ OpenDirectory(c)
  PROVE  IInv'
<1>1. CASE Revalidate(c)
  BY <1>1, FindsKeeps DEF Revalidate, At
<1>2. CASE RevalidateAgain(c)
  BY <1>2, FindsKeeps DEF RevalidateAgain, At, Proved
<1>3. CASE OpenDirectory(c)
  BY <1>3, FindsKeeps DEF OpenDirectory, At, Proved
<1> QED BY <1>1, <1>2, <1>3

LEMMA SetStatusKeeps == ASSUME IInv, NEW c \in Calls, SetStatus(c) PROVE IInv'
<1> DEFINE p == calls[c].project
<1>1. /\ p \in Projects /\ calls[c].verdict \in Verdicts
      /\ <<p, calls[c].read, calls[c].verdict>> \in looks
  BY CallTypes DEF SetStatus, At, Holds, Follows, Carries
<1>2. UNCHANGED <<directory, exe, changes, rows, bindings, scopes, opened, looks>>
  BY DEF SetStatus, files
<1>3. grants \in [Projects -> [id : Nat, status : Verdicts \cup {"missing"}]]
  BY DEF IInv, TypeOK
<1>4. /\ grants' \in [Projects -> [id : Nat, status : Verdicts \cup {"missing"}]]
      /\ StatusIsSeen'
  <2>1. CASE SameGrant(c)
    <3>1. grants' = [grants EXCEPT ![p].status = calls[c].verdict]
      BY <2>1 DEF SetStatus
    <3>2. /\ grants' \in [Projects -> [id : Nat, status : Verdicts \cup {"missing"}]]
          /\ grants'[p].id = calls[c].read /\ grants'[p].status = calls[c].verdict
          /\ \A q \in Projects \ {p} : grants'[q] = grants[q]
      BY <1>1, <1>3, <2>1, <3>1 DEF SameGrant
    <3> QED BY <1>1, <1>2, <3>2 DEF IInv, StatusIsSeen
  <2>2. CASE ~SameGrant(c)
    BY <1>2, <1>3, <2>2 DEF SetStatus, IInv, StatusIsSeen
  <2> QED BY <2>1, <2>2
<1>5. PICK next \in CallRecords :
        /\ Goes(c, next) /\ Holds(next, exe, bindings, looks)
        /\ opening' \subseteq Projects
  <2>1. CASE SameGrant(c) /\ calls[c].verdict = "active"
    <3> DEFINE next == [calls[c] EXCEPT !.at = "probe", !.rest = Candidates]
    <3>1. /\ next \in CallRecords /\ next.at = "probe"
          /\ next.project = p /\ next.read = calls[c].read
      BY CallTypes DEF CallRecords, Steps, Opening
    <3>2. Goes(c, next) /\ opening' \subseteq Projects
      BY <2>1, CallTypes DEF SetStatus
    <3> HIDE DEF next
    <3>3. Holds(next, exe, bindings, looks)
      BY <1>1, <2>1, <3>1 DEF Holds, Follows, Carries, Probing, Proved, Opening
    <3> QED BY <3>1, <3>2, <3>3
  <2>2. CASE Returns(c)
    BY <2>2, NothingHeld, CallTypes DEF Returns
  <2> QED BY <2>1, <2>2 DEF SetStatus
<1>6. calls' \in [Calls -> CallRecords] /\ CallsHold'
  <2>1. BindingsMoveOn(bindings, bindings') /\ bindings' \in [Projects -> Bindings]
    BY <1>2 DEF BindingsMoveOn, IInv, TypeOK
  <2> QED BY <1>2, <1>5, <2>1, OneCallMoves
<1>7. TypeOK'
  BY <1>2, <1>4, <1>5, <1>6 DEF IInv, TypeOK
<1>8. EditorIsAsProved'
  BY <1>2 DEF IInv, EditorIsAsProved
<1> QED BY <1>4, <1>6, <1>7, <1>8 DEF IInv

LEMMA OpenExecutableKeeps == ASSUME IInv, NEW c \in Calls, OpenExecutable(c) PROVE IInv'
<1>1. UNCHANGED <<files, database, scopes, opened, looks>>
  BY DEF OpenExecutable
<1>2. CASE Returns(c)
  BY <1>1, <1>2, ReturnsKeeps
<1>3. CASE /\ SameExecutable(c) /\ UNCHANGED opening
           /\ Goes(c, [calls[c] EXCEPT !.at = "start", !.moves = 0])
  <2> DEFINE next == [calls[c] EXCEPT !.at = "start", !.moves = 0]
  <2>1. /\ next \in CallRecords /\ next.at = "start"
        /\ next.project = calls[c].project /\ next.read = calls[c].read
        /\ next.path = calls[c].path /\ next.editor = calls[c].editor
        /\ next.help = calls[c].help /\ next.swapped = calls[c].swapped
    BY CallTypes DEF CallRecords, Steps, Opening, Proved
  <2>2. Goes(c, next)
    BY <1>3
  <2> HIDE DEF next
  <2>3. exe[next.path] = next.editor /\ calls[c].at = "executable"
    BY <1>3, <2>1 DEF OpenExecutable, At, SameExecutable
  <2>4. Follows(next, exe)
    BY <2>1, <2>3, CallTypes DEF Holds, Follows, Probing, Proved
  <2>5. Carries(next, bindings, looks)
    BY <2>1, <2>3, CallTypes DEF Holds, Carries, Probing, Proved, Opening
  <2>6. opening' \subseteq Projects /\ scopes' \subseteq Projects /\ looks' = looks
    BY <1>1, <1>3, CallTypes
  <2> QED BY <1>1, <2>1, <2>2, <2>4, <2>5, <2>6, QuietCall DEF Holds
<1> QED BY <1>2, <1>3 DEF OpenExecutable

(* The executable that is started is the one of the call's probe unless the path *)
(* moved since the last look; the help text was its own unless it moved before.  *)
LEMMA StartKeeps == ASSUME IInv, NEW c \in Calls, StartEditor(c) PROVE IInv'
<1>1. UNCHANGED <<directory, exe, changes, rows, grants, bindings, scopes, looks>> /\ Goes(c, NoCall)
      /\ opening' \subseteq Projects
  BY CallTypes DEF StartEditor, Returns, files, database
<1>2. calls' \in [Calls -> CallRecords] /\ CallsHold'
  <2>1. BindingsMoveOn(bindings, bindings') /\ bindings' \in [Projects -> Bindings]
    BY <1>1 DEF BindingsMoveOn, IInv, TypeOK
  <2> QED BY <1>1, <2>1, NothingHeld, OneCallMoves
<1>3. TypeOK'
  BY <1>1, <1>2 DEF IInv, TypeOK
<1>4. StatusIsSeen'
  BY <1>1 DEF IInv, StatusIsSeen
<1>5. EditorIsAsProved'
  <2>1. /\ calls[c].help.image = calls[c].editor \/ calls[c].swapped
        /\ calls[c].moves = 0 => exe[calls[c].path] = calls[c].editor
        /\ <<calls[c].project, calls[c].read, "active">> \in looks
    BY CallTypes DEF StartEditor, At, Holds, Follows, Carries, Proved, Opening
  <2>2. CASE UNCHANGED opened
    BY <1>1, <2>2 DEF IInv, EditorIsAsProved
  <2>3. CASE opened' = [project |-> calls[c].project, grant |-> calls[c].read,
                        runs |-> exe[calls[c].path], image |-> calls[c].help.image,
                        late |-> calls[c].moves > 0, swapped |-> calls[c].swapped]
    <3>1. /\ opened'.project = calls[c].project /\ opened'.grant = calls[c].read
          /\ opened'.runs = exe[calls[c].path] /\ opened'.image = calls[c].help.image
          /\ opened'.late = (calls[c].moves > 0) /\ opened'.swapped = calls[c].swapped
      BY <2>3
    <3>2. calls[c].moves = 0 \/ calls[c].moves > 0
      BY CallTypes
    <3>3. opened'.runs = opened'.image \/ opened'.late \/ opened'.swapped
      BY <2>1, <3>1, <3>2
    <3> QED BY <1>1, <2>1, <3>1, <3>3 DEF EditorIsAsProved
  <2> QED BY <2>2, <2>3 DEF StartEditor
<1> QED BY <1>2, <1>3, <1>4, <1>5 DEF IInv

-------------------------------------------------------------------------------
(* The steps of the probe change nothing but the call. *)
LEMMA ProbeMoves ==
  ASSUME IInv, NEW c \in Calls, NEW next \in CallRecords, Goes(c, next),
         UNCHANGED <<files, database, opening, scopes, opened, looks>>,
         Holds(next, exe, bindings, looks)
  PROVE  IInv'
  BY QuietCall, CallTypes

(* Giving a candidate up is to go on with the next one. *)
LEMMA NextCandidateKeeps ==
  ASSUME IInv, NEW c \in Calls, Goes(c, NextCandidate(c)), calls[c].at \in Opening,
         UNCHANGED <<files, database, opening, scopes, opened, looks>>
  PROVE  IInv'
<1> DEFINE next == NextCandidate(c)
<1>1. NoHelp \in Helps
  BY DEF NoHelp, Helps, Files
<1>2. /\ next \in CallRecords /\ next.at = "probe"
      /\ next.project = calls[c].project /\ next.read = calls[c].read
  BY <1>1, CallTypes DEF NextCandidate, CallRecords, Steps, Opening
<1> HIDE DEF next
<1>3. calls[c].project \in Projects /\ <<calls[c].project, calls[c].read, "active">> \in looks
  BY CallTypes DEF Holds, Follows, Carries, Opening, Probing, Proved
<1>4. Holds(next, exe, bindings, looks)
  BY <1>2, <1>3 DEF Holds, Follows, Carries, Probing, Proved, Opening
<1> QED BY <1>2, <1>4, ProbeMoves DEF next

LEMMA ProbeCandidateKeeps == ASSUME IInv, NEW c \in Calls, ProbeCandidate(c) PROVE IInv'
<1>1. UNCHANGED <<files, database, scopes, opened, looks>> /\ calls[c].at = "probe"
  BY DEF ProbeCandidate, At
<1>2. CASE Returns(c)
  BY <1>1, <1>2, ReturnsKeeps
<1>3. CASE calls[c].rest # {}
  <2>1. calls[c].project \in Projects /\ <<calls[c].project, calls[c].read, "active">> \in looks
    BY <1>1, CallTypes DEF Holds, Follows, Carries, Opening
  <2>2. PICK path \in calls[c].rest :
          Goes(c, LET next == [calls[c] EXCEPT !.rest = @ \ {path}, !.path = path]
                  IN  IF exe[path] = NoFile THEN next
                      ELSE [next EXCEPT !.at = "help", !.editor = exe[path], !.moves = 0])
    BY <1>3 DEF ProbeCandidate
  <2>3. path \in Candidates /\ exe[path] \in Files
    BY CallTypes DEF IInv, TypeOK
  <2> DEFINE next == [calls[c] EXCEPT !.rest = @ \ {path}, !.path = path]
  <2>4. /\ next \in CallRecords /\ next.at = "probe"
        /\ next.project = calls[c].project /\ next.read = calls[c].read /\ next.path = path
    BY <1>1, <2>3, CallTypes DEF CallRecords
  <2>5. UNCHANGED opening
    BY <1>3 DEF ProbeCandidate
  <2>6. CASE exe[path] = NoFile
    <3>1. Goes(c, next)
      BY <2>2, <2>6
    <3> HIDE DEF next
    <3>2. Holds(next, exe, bindings, looks)
      BY <2>1, <2>4 DEF Holds, Follows, Carries, Probing, Proved, Opening
    <3> QED BY <1>1, <2>4, <2>5, <3>1, <3>2, ProbeMoves
  <2>7. CASE exe[path] # NoFile
    <3> DEFINE asked == [next EXCEPT !.at = "help", !.editor = exe[path], !.moves = 0]
    <3>1. Goes(c, asked)
      BY <2>2, <2>7
    <3> HIDE DEF next
    <3>2. /\ asked \in CallRecords /\ asked.at = "help"
          /\ asked.editor = exe[path] /\ asked.moves = 0
          /\ asked.project = calls[c].project /\ asked.read = calls[c].read /\ asked.path = path
      BY <2>3, <2>4 DEF CallRecords, Steps, Opening
    <3> HIDE DEF asked
    <3>3. Holds(asked, exe, bindings, looks)
      BY <2>1, <2>3, <2>7, <3>2 DEF Holds, Follows, Carries, Probing, Proved, Opening
    <3> QED BY <1>1, <2>5, <3>1, <3>2, <3>3, ProbeMoves
  <2> QED BY <2>6, <2>7
<1> QED BY <1>2, <1>3 DEF ProbeCandidate

LEMMA SpawnHelpKeeps == ASSUME IInv, NEW c \in Calls, SpawnHelp(c) PROVE IInv'
<1>1. UNCHANGED <<files, database, opening, scopes, opened, looks>> /\ calls[c].at = "help"
  BY DEF SpawnHelp, At
<1>2. CASE Goes(c, NextCandidate(c))
  BY <1>1, <1>2, NextCandidateKeeps DEF Opening
<1>3. CASE /\ exe[calls[c].path] # NoFile
           /\ Goes(c, [calls[c] EXCEPT !.at = "wait", !.help.image = exe[calls[c].path]])
  <2>1. /\ calls[c].path \in Candidates
        /\ calls[c].moves = 0 => exe[calls[c].path] = calls[c].editor
        /\ calls[c].moves = 1 => exe[calls[c].path] # calls[c].editor
        /\ calls[c].project \in Projects /\ <<calls[c].project, calls[c].read, "active">> \in looks
    BY <1>1, CallTypes DEF Holds, Follows, Carries, Opening
  <2>2. exe[calls[c].path] \in Files
    BY <2>1 DEF IInv, TypeOK
  <2> DEFINE help == [calls[c].help EXCEPT !.image = exe[calls[c].path]]
             next == [calls[c] EXCEPT !.at = "wait", !.help = help]
  <2>3. help \in Helps /\ help.image = exe[calls[c].path]
    BY <2>2, CallTypes DEF Helps
  <2>4. [calls[c] EXCEPT !.at = "wait", !.help.image = exe[calls[c].path]] = next
    OBVIOUS
  <2> HIDE DEF help
  <2>5. /\ next \in CallRecords /\ next.at = "wait" /\ next.help = help
        /\ next.project = calls[c].project /\ next.read = calls[c].read
        /\ next.path = calls[c].path /\ next.editor = calls[c].editor
        /\ next.moves = calls[c].moves
    BY <2>3, CallTypes DEF CallRecords, Steps, Opening, Probing
  <2> HIDE DEF next
  <2>6. Holds(next, exe, bindings, looks)
    BY <2>1, <2>3, <2>5 DEF Holds, Follows, Carries, Probing, Proved, Opening
  <2> QED BY <1>1, <1>3, <2>4, <2>5, <2>6, ProbeMoves
<1> QED BY <1>2, <1>3 DEF SpawnHelp

(* What the help process does is remembered; the image it ran stays what it was. *)
LEMMA HelpKeeps ==
  ASSUME IInv, NEW c \in Calls, NEW help \in Helps, help.image = calls[c].help.image,
         NEW step \in Probing, calls[c].at \in Probing,
         Goes(c, [calls[c] EXCEPT !.at = step, !.help = help]),
         UNCHANGED <<files, database, opening, scopes, opened, looks>>
  PROVE  IInv'
<1> DEFINE next == [calls[c] EXCEPT !.at = step, !.help = help]
<1>1. /\ next \in CallRecords /\ next.at = step /\ next.help = help
      /\ next.project = calls[c].project /\ next.read = calls[c].read
      /\ next.path = calls[c].path /\ next.editor = calls[c].editor
      /\ next.moves = calls[c].moves
  BY CallTypes DEF CallRecords, Steps, Opening
<1> HIDE DEF next
<1>2. Holds(next, exe, bindings, looks)
  BY <1>1, CallTypes DEF Holds, Follows, Carries, Probing, Proved, Opening
<1> QED BY <1>1, <1>2, ProbeMoves DEF next

LEMMA ProbeKeeps == ASSUME IInv, NEW c \in Calls, Probe(c) PROVE IInv'
<1>0. UNCHANGED <<files, database, scopes, opened, looks>>
  BY DEF Probe, ProbeCandidate, SpawnHelp, HelpExits, HelpTimesOut, SweepHelp, CollectHelp, FinishProbe
<1>1. CASE ProbeCandidate(c)
  BY <1>1, ProbeCandidateKeeps
<1>2. CASE SpawnHelp(c)
  BY <1>2, SpawnHelpKeeps
<1>3. CASE HelpExits(c)
  <2>1. calls[c].at = "wait" /\ UNCHANGED opening
    BY <1>3 DEF HelpExits, At
  <2>2. PICK ok \in BOOLEAN, group \in BOOLEAN, long \in BOOLEAN :
          Goes(c, [calls[c] EXCEPT !.at = "sweep", !.help.ok = ok, !.help.group = group,
                                   !.help.long = long])
    BY <1>3 DEF HelpExits
  <2> DEFINE help == [calls[c].help EXCEPT !.ok = ok, !.group = group, !.long = long]
  <2>3. help \in Helps /\ help.image = calls[c].help.image
    BY CallTypes DEF Helps
  <2>4. [calls[c] EXCEPT !.at = "sweep", !.help.ok = ok, !.help.group = group, !.help.long = long]
          = [calls[c] EXCEPT !.at = "sweep", !.help = help]
    BY CallTypes DEF CallRecords
  <2> HIDE DEF help
  <2> QED BY <1>0, <2>1, <2>2, <2>3, <2>4, HelpKeeps DEF Probing
<1>4. CASE HelpTimesOut(c)
  BY <1>0, <1>4, NextCandidateKeeps DEF HelpTimesOut, At, Opening, Probing
<1>5. CASE SweepHelp(c)
  <2> DEFINE help == EndsDescendants(calls[c].help)
  <2>1. help \in Helps /\ help.image = calls[c].help.image
    BY CallTypes DEF Helps, EndsDescendants
  <2>2. /\ calls[c].at = "sweep" /\ UNCHANGED opening
        /\ Goes(c, [calls[c] EXCEPT !.at = "output", !.help = help])
    BY <1>5 DEF SweepHelp, At
  <2> HIDE DEF help
  <2> QED BY <1>0, <2>1, <2>2, HelpKeeps DEF Probing
<1>6. CASE CollectHelp(c)
  <2>1. calls[c].at = "output" /\ UNCHANGED opening
    BY <1>6 DEF CollectHelp, At
  <2>2. CASE Step(c, "look again")
    <3>1. [calls[c] EXCEPT !.at = "look again"]
            = [calls[c] EXCEPT !.at = "look again", !.help = calls[c].help]
      BY CallTypes DEF CallRecords
    <3> QED BY <1>0, <2>1, <2>2, <3>1, CallTypes, HelpKeeps DEF Step, Probing
  <2>3. CASE Goes(c, NextCandidate(c))
    BY <1>0, <2>1, <2>3, NextCandidateKeeps DEF Opening, Probing
  <2> QED BY <1>6, <2>2, <2>3 DEF CollectHelp
<1>7. CASE FinishProbe(c)
  <2>1. calls[c].at = "look again" /\ UNCHANGED opening
    BY <1>7 DEF FinishProbe, At
  <2>2. CASE SameExecutable(c)
    <3> DEFINE twice == calls[c].moves >= 2
               next == [calls[c] EXCEPT !.at = "check again", !.swapped = twice, !.moves = 0]
    <3>1. twice \in BOOLEAN
      BY CallTypes
    <3>2. Goes(c, next)
      BY <1>7, <2>2 DEF FinishProbe
    <3> HIDE DEF twice
    <3>3. /\ next \in CallRecords /\ next.at = "check again"
          /\ next.project = calls[c].project /\ next.read = calls[c].read
          /\ next.path = calls[c].path /\ next.editor = calls[c].editor
          /\ next.help = calls[c].help /\ next.swapped = twice
      BY <3>1, CallTypes DEF CallRecords, Steps, Opening, Proved
    <3> HIDE DEF next
    <3>4. calls[c].moves >= 2 => twice
      BY DEF twice
    <3>5. calls[c].path \in Candidates
      BY <2>1, CallTypes DEF Holds, Follows, Probing
    <3>6. calls[c].help.image = calls[c].editor \/ next.swapped
      <4>1. /\ calls[c].moves = 1 => exe[calls[c].path] # calls[c].editor
            /\ calls[c].moves = 0 => calls[c].help.image = calls[c].editor
        BY <2>1, CallTypes DEF Holds, Follows, Probing
      <4>2. calls[c].moves # 1
        BY <2>2, <4>1 DEF SameExecutable
      <4>3. calls[c].moves = 0 \/ calls[c].moves >= 2
        BY <4>2, CallTypes
      <4> QED BY <3>3, <3>4, <4>1, <4>3
    <3>7. Follows(next, exe)
      BY <3>3, <3>5, <3>6 DEF Follows, Probing, Proved
    <3>8. calls[c].project \in Projects /\ <<calls[c].project, calls[c].read, "active">> \in looks
      BY <2>1, CallTypes DEF Holds, Carries, Probing, Opening
    <3>9. Carries(next, bindings, looks)
      BY <3>3, <3>8 DEF Carries, Probing, Proved, Opening
    <3> QED BY <1>0, <2>1, <3>3, <3>7, <3>9, <3>2, ProbeMoves DEF Holds
  <2>3. CASE ~SameExecutable(c)
    BY <1>0, <1>7, <2>1, <2>3, NextCandidateKeeps DEF FinishProbe, Opening, Probing
  <2> QED BY <2>2, <2>3
<1> QED BY <1>1, <1>2, <1>3, <1>4, <1>5, <1>6, <1>7 DEF Probe

-------------------------------------------------------------------------------
(* Other programs change files under the calls. *)

(* A call whose launcher moved counts it, and what holds of its values holds on. *)
LEMMA MissedKeeps ==
  ASSUME IInv, NEW path \in Candidates, NEW file \in Files, file # exe[path],
         exe' = [exe EXCEPT ![path] = file], Misses(path), NEW c \in Calls
  PROVE  calls'[c] \in CallRecords /\ Follows(calls'[c], exe') /\ Carries(calls'[c], bindings, looks)
<1> DEFINE next == [calls[c] EXCEPT !.moves = @ + 1]
<1>1. /\ calls[c] \in CallRecords /\ calls[c].moves \in Nat
      /\ Follows(calls[c], exe) /\ Carries(calls[c], bindings, looks)
  BY CallTypes DEF Holds
<1>2. exe \in [Candidates -> Files] /\ exe'[path] = file
      /\ \A other \in Candidates \ {path} : exe'[other] = exe[other]
  BY DEF IInv, TypeOK
<1>3. CASE calls[c].path = path
  <2>1. calls'[c] = next
    BY <1>3 DEF Misses
  <2>2. /\ next \in CallRecords /\ next.at = calls[c].at /\ next.project = calls[c].project
        /\ next.read = calls[c].read /\ next.verdict = calls[c].verdict
        /\ next.path = calls[c].path /\ next.editor = calls[c].editor
        /\ next.help = calls[c].help /\ next.binding = calls[c].binding
        /\ next.swapped = calls[c].swapped /\ next.moves = calls[c].moves + 1
    BY <1>1 DEF CallRecords
  <2> HIDE DEF next
  <2>3. next.moves # 0 /\ (next.moves = 1 => calls[c].moves = 0)
    BY <1>1, <2>2
  <2>4. Follows(next, exe')
    BY <1>1, <1>2, <1>3, <2>2, <2>3 DEF Follows
  <2>5. Carries(next, bindings, looks)
    BY <1>1, <2>2 DEF Carries
  <2> QED BY <2>1, <2>2, <2>4, <2>5
<1>4. CASE calls[c].path # path
  <2>1. calls'[c] = calls[c]
    BY <1>4 DEF Misses
  <2>2. "start" \in Proved
    BY DEF Proved
  <2>3. Follows(calls[c], exe')
    BY <1>1, <1>2, <1>4, <2>2 DEF Follows
  <2> QED BY <1>1, <2>1, <2>3
<1> QED BY <1>3, <1>4

LEMMA FilesMove ==
  ASSUME IInv, DirectoryMoves \/ ExecutableReplaced PROVE IInv'
<1>1. UNCHANGED <<database, opening, scopes, opened, looks>> /\ changes' = changes + 1
      /\ changes' \in Nat
  BY DEF DirectoryMoves, ExecutableReplaced, IInv, TypeOK
<1>2. calls' \in [Calls -> CallRecords] /\ CallsHold' /\ exe' \in [Candidates -> Files]
  <2>1. CASE DirectoryMoves
    BY <2>1 DEF DirectoryMoves, IInv, TypeOK, CallsHold, database
  <2>2. CASE ExecutableReplaced
    <3>1. PICK path \in Candidates, file \in Executables \cup {NoFile} :
            file # exe[path] /\ exe' = [exe EXCEPT ![path] = file] /\ Misses(path)
      BY <2>2 DEF ExecutableReplaced
    <3>2. file \in Files
      BY DEF Files
    <3>3. ASSUME NEW c \in Calls
          PROVE  calls'[c] \in CallRecords /\ Holds(calls'[c], exe', bindings', looks')
      <4>1. bindings' = bindings /\ looks' = looks
        BY <1>1 DEF database
      <4> HIDE DEF IInv
      <4>2. /\ calls'[c] \in CallRecords /\ Follows(calls'[c], exe')
            /\ Carries(calls'[c], bindings, looks)
        BY <3>1, <3>2, MissedKeeps
      <4> QED BY <4>1, <4>2 DEF Holds
    <3>4. calls' = [c \in Calls |-> calls'[c]]
      BY <3>1 DEF Misses
    <3>5. exe' \in [Candidates -> Files]
      BY <3>1, <3>2 DEF IInv, TypeOK
    <3> QED BY <3>3, <3>4, <3>5 DEF CallsHold
  <2> QED BY <2>1, <2>2
<1>3. directory' \in [Projects -> Nat]
  <2>1. \A d \in Directories \cup {0} : d \in Nat
    BY ProjectEditorAssumption
  <2> QED BY <2>1 DEF DirectoryMoves, ExecutableReplaced, IInv, TypeOK
<1>4. TypeOK'
  BY <1>1, <1>2, <1>3 DEF IInv, TypeOK, database
<1>5. StatusIsSeen' /\ EditorIsAsProved'
  BY <1>1 DEF IInv, StatusIsSeen, EditorIsAsProved, database
<1> QED BY <1>2, <1>4, <1>5 DEF IInv

-------------------------------------------------------------------------------
(* The invariant is inductive. *)
LEMMA Invariance == Spec => []IInv
<1>1. Init => IInv
  <2> SUFFICES ASSUME Init PROVE IInv
    OBVIOUS
  <2>1. exe \in [Candidates -> Files]
    BY DEF Init, Files
  <2>2. /\ rows \in [Projects -> GitIdentities \cup {None, "absent"}]
        /\ bindings \in [Projects -> Bindings]
    BY DEF Init, Bindings
  <2>3. grants \in [Projects -> [id : Nat, status : Verdicts \cup {"missing"}]] /\ StatusIsSeen
    BY DEF Init, NoGrant, StatusIsSeen
  <2>4. calls \in [Calls -> CallRecords] /\ CallsHold
    BY NothingHeld DEF Init, CallsHold
  <2>5. directory \in [Projects -> Nat] /\ changes \in Nat /\ opening = {} /\ scopes = {}
    BY DEF Init
  <2>6. EditorIsAsProved
    BY DEF Init, EditorIsAsProved
  <2>7. TypeOK
    BY <2>1, <2>2, <2>3, <2>4, <2>5 DEF TypeOK
  <2> QED BY <2>1, <2>3, <2>4, <2>6, <2>7 DEF IInv
<1>2. IInv /\ [Next]_vars => IInv'
  <2> SUFFICES ASSUME IInv, [Next]_vars PROVE IInv'
    OBVIOUS
  <2>1. ASSUME NEW c \in Calls, Service(c) PROVE IInv'
    BY <2>1, AddKeeps, PersistKeeps, LoadWorkspaceKeeps, UpdateBeginsKeeps, UpdateKeeps,
       OpenBeginsKeeps, LoadRecordKeeps, LooksKeep, SetStatusKeeps, OpenExecutableKeeps,
       StartKeeps DEF Service
  <2>2. ASSUME NEW c \in Calls, Probe(c) PROVE IInv'
    BY <2>2, ProbeKeeps
  <2>3. CASE DirectoryMoves \/ ExecutableReplaced
    BY <2>3, FilesMove
  <2>4. CASE UNCHANGED vars
    BY <2>4 DEF IInv, TypeOK, CallsHold, StatusIsSeen, EditorIsAsProved, vars
  <2> QED BY <2>1, <2>2, <2>3, <2>4 DEF Next
<1> QED BY <1>1, <1>2, PTL DEF Spec

-------------------------------------------------------------------------------
(* The calls, the two registries and the rows of the database keep their types. *)
THEOREM TypeCorrect == Spec => []TypeOK
<1>1. IInv => TypeOK
  BY DEF IInv
<1> QED BY <1>1, Invariance, PTL

(* Whatever is replaced between the probe and the start, Cursor is started with  *)
(* the protocol of the executable that runs, and for a granted directory, unless *)
(* the path moved in one of the two windows the property names.                  *)
THEOREM EditorProved == Spec => []EditorIsAsProved
<1>1. IInv => EditorIsAsProved
  BY DEF IInv
<1> QED BY <1>1, Invariance, PTL

(* However many calls check, grant and store at a time, a grant's status is one  *)
(* that a check of this grant has found.                                         *)
THEOREM StatusSeen == Spec => []StatusIsSeen
<1>1. IInv => StatusIsSeen
  BY DEF IInv
<1> QED BY <1>1, Invariance, PTL

(* No step changes a binding but the update of a call that was shown this very   *)
(* binding: nobody's change is overwritten unseen.                               *)
THEOREM BindingSeen == Spec => BindingIsSeen
<1> DEFINE Seen ==
      \A p \in Projects : bindings[p] # NoBinding /\ bindings'[p] # bindings[p] =>
        \E c \in Calls : At(c, "update") /\ calls[c].project = p /\ calls[c].binding = bindings[p]
<1>1. IInv /\ [Next]_vars => [Seen]_vars
  <2> SUFFICES ASSUME IInv, [Next]_vars, NEW p \in Projects,
                      bindings[p] # NoBinding, bindings'[p] # bindings[p]
               PROVE  \E c \in Calls :
                        At(c, "update") /\ calls[c].project = p /\ calls[c].binding = bindings[p]
    OBVIOUS
  <2>1. bindings \in [Projects -> Bindings]
    BY DEF IInv, TypeOK
  <2>2. ASSUME NEW c \in Calls, PersistProject(c) PROVE FALSE
    <3>1. PICK profile \in Profiles : bindings' = [bindings EXCEPT ![calls[c].project] =
                                                  FirstBinding(calls[c].project, profile)]
      BY <2>2 DEF PersistProject
    <3>2. bindings[p].revision # 0
      BY <2>1 DEF Bindings
    <3>3. CASE calls[c].project = p
      BY <2>1, <3>1, <3>2, <3>3 DEF FirstBinding
    <3>4. CASE calls[c].project # p
      BY <2>1, <3>1, <3>4
    <3> QED BY <3>3, <3>4
  <2>3. ASSUME NEW c \in Calls, UpdateBinding(c)
        PROVE  At(c, "update") /\ calls[c].project = p /\ calls[c].binding = bindings[p]
    <3>1. ExpectedRevision(c) /\ calls[c].project = p
      BY <2>1, <2>3 DEF UpdateBinding
    <3>2. At(c, "update") /\ Holds(calls[c], exe, bindings, looks)
      BY <2>3, CallTypes DEF UpdateBinding
    <3> QED BY <3>1, <3>2 DEF ExpectedRevision, Holds, Carries, At
  <2>4. ASSUME NEW c \in Calls, Service(c), ~PersistProject(c), ~UpdateBinding(c)
        PROVE  bindings' = bindings
    BY <2>4 DEF Service, AddAuthorizes, LoadWorkspace, UpdateBegins, OpenBegins, LoadRecord,
       Revalidate, SetStatus, RevalidateAgain, OpenDirectory, OpenExecutable, StartEditor, database
  <2>5. ASSUME NEW c \in Calls, Probe(c) PROVE bindings' = bindings
    BY <2>5 DEF Probe, ProbeCandidate, SpawnHelp, HelpExits, HelpTimesOut, SweepHelp, CollectHelp,
       FinishProbe, database
  <2>6. CASE DirectoryMoves \/ ExecutableReplaced \/ UNCHANGED vars
    BY <2>6 DEF DirectoryMoves, ExecutableReplaced, vars, database
  <2> QED BY <2>2, <2>3, <2>4, <2>5, <2>6 DEF Next
<1> QED BY <1>1, Invariance, PTL DEF Spec, BindingIsSeen
=============================================================================
