----------------------------- MODULE ProjectEditor -----------------------------
(***************************************************************************)
(* services/project_service.rs and adapters/editors/mod.rs: adding a       *)
(* project, changing its binding, and opening its directory in Cursor.     *)
(* The calls share one database, one registry of projects being opened,    *)
(* one registry of project scopes, and the files of the user, which other  *)
(* programs move while a call is between two steps.                        *)
(*                                                                         *)
(* A directory and an executable have an identity (device and inode; for   *)
(* an executable its length and time of change too) and may be moved away  *)
(* and back; Speaks is the protocol an executable's help text announces.   *)
(* A file that is overwritten in place without a trace is not modelled.    *)
(* The help process is a leader in a group of its own and what it left     *)
(* behind in the group when it exits.                                      *)
(* Abstracted: the validation of a request and of stored rows, which       *)
(* refuses before anything is changed; terminal and account settings,      *)
(* which travel with the profile; timestamps.  The launch service's use of *)
(* the project scope is in LaunchPlans.                                    *)
(***************************************************************************)
EXTENDS Naturals, FiniteSets

CONSTANTS
    Calls,
    Projects,       \* canonical keys of directories
    Profiles,
    GitIdentities,
    Candidates,     \* canonical paths of Cursor's launcher
    None,
    Directories,    \* identities of directories
    Executables,    \* identities of executables
    Speaks,         \* the protocol each executable announces, or "other"
    MaxChanges,     \* bound: changes of directories and executables
    MaxRevision     \* bound: revisions of a binding

Protocols == {"classic", "new-window"}

ASSUME ProjectEditorAssumption ==
    /\ None \notin GitIdentities
    /\ Executables \subseteq Nat \ {0} /\ Speaks \in [Executables -> Protocols \cup {"other"}]
    /\ Directories \subseteq Nat \ {0}
    /\ MaxChanges \in Nat /\ MaxRevision \in Nat \ {0}

VARIABLES
    directory,  \* identity of the directory at a project's path, 0 if it cannot be opened
    exe,        \* the executable at a candidate's path, NoFile for none
    rows,       \* projects: the stored Git identity of each, "absent" for no row
    grants,     \* authorized_roots: identity and status
    bindings,   \* project_bindings: profile and revision
    opening,    \* opening_projects
    scopes,     \* active_project_scopes
    calls,      \* the calls: what each is at, and what it has read; as history, how
                \* often the file at path changed since the call's last look (moves),
                \* and that it was put away and back during the help (swapped)
    opened,     \* what the last editor was started for, and the executable that runs
    changes,    \* counter of the bound
    looks       \* history: the verdicts of checks, by project and granted identity

vars == <<directory, exe, rows, grants, bindings, opening, scopes, calls, opened, changes, looks>>
database == <<rows, grants, bindings>>
files == <<directory, exe, changes>>

NoFile == 0
NoGrant == [id |-> 0, status |-> "missing"]
NoBinding == [profile |-> None, revision |-> 0]
NoHelp == [image |-> NoFile, ok |-> FALSE, group |-> FALSE, long |-> FALSE, forced |-> FALSE]
NoCall == [at |-> "idle", project |-> None, read |-> 0, verdict |-> "none", rest |-> {},
           path |-> None, editor |-> NoFile, help |-> NoHelp, binding |-> NoBinding,
           moves |-> 0, swapped |-> FALSE]
NoEditor == [project |-> None, grant |-> 0, runs |-> NoFile, image |-> NoFile,
             late |-> FALSE, swapped |-> FALSE]

\* A database of an older version may hold projects without a grant.
Init ==
    /\ directory \in [Projects -> {1}]
    /\ exe \in [Candidates -> Executables \cup {NoFile}]
    /\ \E legacy \in SUBSET Projects, profile \in Profiles :
          /\ rows = [p \in Projects |-> IF p \in legacy THEN None ELSE "absent"]
          /\ bindings = [p \in Projects |-> IF p \in legacy
                                              THEN [profile |-> profile, revision |-> 1]
                                              ELSE NoBinding]
    /\ grants = [p \in Projects |-> NoGrant]
    /\ opening = {}
    /\ scopes = {}
    /\ calls = [c \in Calls |-> NoCall]
    /\ opened = NoEditor
    /\ changes = 0
    /\ looks = {}

At(c, step) == calls[c].at = step
Goes(c, next) == calls' = [calls EXCEPT ![c] = next]
Step(c, step) == Goes(c, [calls[c] EXCEPT !.at = step])

-----------------------------------------------------------------------------
(* Adding a project                                                         *)

\* inspect_authorized_directory, of the directory the user picked.
AddAuthorizes(c) ==
    /\ At(c, "idle")
    /\ \E p \in Projects :
          /\ directory[p] # 0
          /\ Goes(c, [NoCall EXCEPT !.at = "persist", !.project = p, !.read = directory[p]])
          /\ looks' = looks \cup {<<p, directory[p], "active">>}
    /\ UNCHANGED <<files, database, opening, scopes, opened>>

\* resolve_local_git_identity; a repository that cannot be read is a diagnostic and
\* no identity.
GitIdentity(p) == GitIdentities \cup {None}

\* An existing binding is left as it is.
FirstBinding(p, profile) ==
    IF bindings[p].revision = 0 THEN [profile |-> profile, revision |-> 1] ELSE bindings[p]

\* persist_project, one immediate transaction: the row is inserted unless it is
\* there, the grant is replaced by this one.
PersistProject(c) ==
    /\ At(c, "persist")
    /\ LET p == calls[c].project IN
       /\ \E git \in GitIdentity(p) :
             rows' = [rows EXCEPT ![p] = IF @ = "absent" THEN git ELSE @]
       /\ grants' = [grants EXCEPT ![p] = [id |-> calls[c].read, status |-> "active"]]
       /\ \E profile \in Profiles :
             bindings' = [bindings EXCEPT ![p] = FirstBinding(p, profile)]
    /\ Goes(c, NoCall)
    /\ UNCHANGED <<files, opening, scopes, opened, looks>>

-----------------------------------------------------------------------------
(* Changing a binding                                                       *)

\* workspace: the snapshot from which the user will edit a project's binding.
LoadWorkspace(c) ==
    /\ At(c, "idle")
    /\ \E p \in Projects :
          /\ rows[p] # "absent"
          /\ Goes(c, [NoCall EXCEPT !.at = "edit", !.project = p, !.binding = bindings[p]])
    /\ UNCHANGED <<files, database, opening, scopes, opened, looks>>

\* update_binding: acquire_project_scope, or project_scope_busy.
UpdateBegins(c) ==
    /\ At(c, "edit")
    /\ IF calls[c].project \in scopes
         THEN Goes(c, NoCall) /\ UNCHANGED scopes
         ELSE Step(c, "update") /\ scopes' = scopes \cup {calls[c].project}
    /\ UNCHANGED <<files, database, opening, opened, looks>>

AnyRevision(c) == bindings[calls[c].project].revision # 0
ExpectedRevision(c) == bindings[calls[c].project].revision = calls[c].binding.revision

\* update_project_binding; the guard drops with the call.
UpdateBinding(c) ==
    /\ At(c, "update")
    /\ LET p == calls[c].project IN
       /\ IF ExpectedRevision(c)
            THEN /\ bindings[p].revision < MaxRevision
                 /\ \E profile \in Profiles :
                       bindings' = [bindings EXCEPT ![p] =
                                      [profile |-> profile, revision |-> @.revision + 1]]
            ELSE UNCHANGED bindings
       /\ scopes' = scopes \ {p}
    /\ Goes(c, NoCall)
    /\ UNCHANGED <<files, rows, grants, opening, opened, looks>>

-----------------------------------------------------------------------------
(* Opening a project: the service                                           *)

\* acquire_editor_open, or project_editor_open_in_progress.
OpenBegins(c) ==
    /\ At(c, "idle")
    /\ \E p \in Projects \ opening :
          /\ opening' = opening \cup {p}
          /\ Goes(c, [NoCall EXCEPT !.at = "load", !.project = p])
    /\ UNCHANGED <<files, database, scopes, opened, looks>>

\* Every return drops the guard.
Returns(c) ==
    /\ opening' = opening \ {calls[c].project}
    /\ Goes(c, NoCall)

\* load_project_editor_record: no project, or one without a standing grant, returns.
LoadRecord(c) ==
    /\ At(c, "load")
    /\ LET p == calls[c].project IN
       IF rows[p] = "absent" \/ grants[p].status \in {"revoked", "missing"}
         THEN Returns(c)
         ELSE /\ Goes(c, [calls[c] EXCEPT !.at = "check", !.read = grants[p].id])
              /\ UNCHANGED opening
    /\ UNCHANGED <<files, database, scopes, opened, looks>>

\* authorize_directory and stable_identity_matches.
Verdict(c) ==
    LET d == directory[calls[c].project] IN
    IF d = 0 THEN "offline" ELSE IF d = calls[c].read THEN "active" ELSE "replaced"
Finds(c, verdict, step) ==
    /\ Goes(c, [calls[c] EXCEPT !.at = step, !.verdict = verdict])
    /\ looks' = looks \cup {<<calls[c].project, calls[c].read, verdict>>}

\* revalidate_project_directory, whose verdict is stored in any case.
Revalidate(c) ==
    /\ At(c, "check")
    /\ Finds(c, Verdict(c), "status")
    /\ UNCHANGED <<files, database, opening, scopes, opened>>

AnyGrant(c) == grants[calls[c].project].status # "missing"
SameGrant(c) == grants[calls[c].project].id = calls[c].read

\* set_authorization_status: only the grant that was read; a conflict returns, as
\* does every verdict but the first one of a directory that is as it was.
SetStatus(c) ==
    /\ At(c, "status")
    /\ IF SameGrant(c)
         THEN grants' = [grants EXCEPT ![calls[c].project].status = calls[c].verdict]
         ELSE UNCHANGED grants
    /\ IF SameGrant(c) /\ calls[c].verdict = "active"
         THEN Goes(c, [calls[c] EXCEPT !.at = "probe", !.rest = Candidates]) /\ UNCHANGED opening
         ELSE Returns(c)
    /\ UNCHANGED <<files, rows, bindings, scopes, opened, looks>>

\* The second look, after the probe: a directory that is as it was is not stored again.
RevalidateAgain(c) ==
    /\ At(c, "check again")
    /\ Finds(c, Verdict(c), IF Verdict(c) = "active" THEN "directory" ELSE "status")
    /\ UNCHANGED <<files, database, opening, scopes, opened>>

-----------------------------------------------------------------------------
(* Opening a project: the probe of the editor                               *)

\* executable_identity and looks_like_cursor_program, of the next candidate; without
\* one that answers, Cursor is not found or not verified.
ProbeCandidate(c) ==
    /\ At(c, "probe")
    /\ IF calls[c].rest = {}
         THEN Returns(c)
         ELSE /\ UNCHANGED opening
              /\ \E path \in calls[c].rest :
                   LET next == [calls[c] EXCEPT !.rest = @ \ {path}, !.path = path]
                   IN  Goes(c, IF exe[path] = NoFile
                                 THEN next
                                 ELSE [next EXCEPT !.at = "help", !.editor = exe[path], !.moves = 0])
    /\ UNCHANGED <<files, database, scopes, opened, looks>>

NextCandidate(c) == [calls[c] EXCEPT !.at = "probe", !.help = NoHelp]

\* capture_help spawns by the path, or fails.
SpawnHelp(c) ==
    /\ At(c, "help")
    /\ \/ /\ exe[calls[c].path] # NoFile
          /\ Goes(c, [calls[c] EXCEPT !.at = "wait", !.help.image = exe[calls[c].path]])
       \/ Goes(c, NextCandidate(c))
    /\ UNCHANGED <<files, database, opening, scopes, opened, looks>>

\* wait_for_linux_child_exit saw the leader's exit and did not reap it.
HelpExits(c) ==
    /\ At(c, "wait")
    /\ \E ok, group, long \in BOOLEAN :
          Goes(c, [calls[c] EXCEPT !.at = "sweep", !.help.ok = ok, !.help.group = group,
                                   !.help.long = long])
    /\ UNCHANGED <<files, database, opening, scopes, opened, looks>>

\* The deadline: the group is killed and the leader reaped.
HelpTimesOut(c) ==
    /\ At(c, "wait")
    /\ Goes(c, NextCandidate(c))
    /\ UNCHANGED <<files, database, opening, scopes, opened, looks>>

\* linux_process_group_has_descendants and kill_help_process_group: descendants in
\* the group are ended, and remembered.
EndsDescendants(help) == [help EXCEPT !.group = FALSE, !.forced = help.group]

SweepHelp(c) ==
    /\ At(c, "sweep")
    /\ Goes(c, [calls[c] EXCEPT !.at = "output", !.help = EndsDescendants(@)])
    /\ UNCHANGED <<files, database, opening, scopes, opened, looks>>

\* parse_cursor_help takes the whole output of a process that succeeded and left
\* nobody behind.
HelpAnswers(help) == help.ok /\ ~help.long /\ ~help.forced /\ Speaks[help.image] \in Protocols

\* collect_output: the readers reach the end of the output, or fail, or the deadline
\* passes while somebody outside the group holds the pipe.
CollectHelp(c) ==
    /\ At(c, "output")
    /\ \/ /\ HelpAnswers(calls[c].help)
          /\ Step(c, "look again")
       \/ Goes(c, NextCandidate(c))
    /\ UNCHANGED <<files, database, opening, scopes, opened, looks>>

ExecutableIsThere(c) == exe[calls[c].path] # NoFile
\* ExecutableIdentity: path, length, modification time, device and inode.
SameExecutable(c) == exe[calls[c].path] = calls[c].editor

\* executable_identity after the help text was read.
FinishProbe(c) ==
    /\ At(c, "look again")
    /\ Goes(c, IF SameExecutable(c)
                  THEN [calls[c] EXCEPT !.at = "check again",
                                        !.swapped = calls[c].moves >= 2, !.moves = 0]
                  ELSE NextCandidate(c))
    /\ UNCHANGED <<files, database, opening, scopes, opened, looks>>

-----------------------------------------------------------------------------
(* Opening a project: the start                                             *)

\* open_verified_directory: the path and the handle opened from it must have the
\* identity of the record; otherwise the grant's status tells what was found.
OpenDirectory(c) ==
    /\ At(c, "directory")
    /\ Finds(c, Verdict(c), IF Verdict(c) = "active" THEN "executable" ELSE "status")
    /\ UNCHANGED <<files, database, opening, scopes, opened>>

\* open_verified_executable, between two looks at the path; a launcher that is not
\* the probed one returns.
OpenExecutable(c) ==
    /\ At(c, "executable")
    /\ IF SameExecutable(c)
         THEN Goes(c, [calls[c] EXCEPT !.at = "start", !.moves = 0]) /\ UNCHANGED opening
         ELSE Returns(c)
    /\ UNCHANGED <<files, database, scopes, opened, looks>>

\* spawn, by the path and not by the handle just checked, or it fails; the editor
\* is not waited for.
StartEditor(c) ==
    /\ At(c, "start")
    /\ \/ /\ exe[calls[c].path] # NoFile
          /\ opened' = [project |-> calls[c].project, grant |-> calls[c].read,
                        runs |-> exe[calls[c].path], image |-> calls[c].help.image,
                        late |-> calls[c].moves > 0, swapped |-> calls[c].swapped]
       \/ UNCHANGED opened
    /\ Returns(c)
    /\ UNCHANGED <<files, database, scopes, looks>>

-----------------------------------------------------------------------------
(* Other programs and the user                                              *)

\* A directory is moved away, replaced or put back.
DirectoryMoves ==
    /\ changes < MaxChanges
    /\ \E p \in Projects, d \in Directories \cup {0} :
          d # directory[p] /\ directory' = [directory EXCEPT ![p] = d]
    /\ changes' = changes + 1
    /\ UNCHANGED <<exe, database, opening, scopes, calls, opened, looks>>

Misses(path) ==
    calls' = [c \in Calls |-> IF calls[c].path = path
                                 THEN [calls[c] EXCEPT !.moves = @ + 1]
                                 ELSE calls[c]]

\* An update replaces the launcher, removes it, or puts an earlier one back.
ExecutableReplaced ==
    /\ changes < MaxChanges
    /\ \E path \in Candidates, file \in Executables \cup {NoFile} :
          /\ file # exe[path]
          /\ exe' = [exe EXCEPT ![path] = file]
          /\ Misses(path)
    /\ changes' = changes + 1
    /\ UNCHANGED <<directory, database, opening, scopes, opened, looks>>

Service(c) ==
    \/ AddAuthorizes(c) \/ PersistProject(c)
    \/ LoadWorkspace(c) \/ UpdateBegins(c) \/ UpdateBinding(c)
    \/ OpenBegins(c) \/ LoadRecord(c) \/ Revalidate(c) \/ SetStatus(c) \/ RevalidateAgain(c)
    \/ OpenDirectory(c) \/ OpenExecutable(c) \/ StartEditor(c)
Probe(c) ==
    \/ ProbeCandidate(c) \/ SpawnHelp(c) \/ HelpExits(c) \/ HelpTimesOut(c)
    \/ SweepHelp(c) \/ CollectHelp(c) \/ FinishProbe(c)

Next == (\E c \in Calls : Service(c) \/ Probe(c)) \/ DirectoryMoves \/ ExecutableReplaced

Spec == Init /\ [][Next]_vars

-----------------------------------------------------------------------------
(* Properties                                                               *)

\* The executable that runs is the one whose help text chose its protocol, unless
\* the path changed hands in one of two windows the code leaves open: after the last
\* look and before the spawn, which goes by the path, or there and back between the
\* two looks of the probe.  A replacement that came before the last look and
\* stayed is never started with the protocol of the one before it.  The directory was
\* seen to be the granted one (probe, open_verified_executable,
\* open_verified_directory).
EditorIsAsProved ==
    opened # NoEditor =>
        /\ opened.runs = opened.image \/ opened.late \/ opened.swapped
        /\ <<opened.project, opened.grant, "active">> \in looks

\* The status of a grant was found by a check of that very grant: a check that ends
\* late never tells it of a directory that was granted after it began
\* (update_project_authorization).
StatusIsSeen ==
    \A p \in Projects : grants[p] # NoGrant => <<p, grants[p].id, grants[p].status>> \in looks

\* A binding, once there, changes only under the eyes of who saw it as it was: not
\* when the project is added again, nor from a snapshot that is out of date, however
\* long ago the snapshot was loaded (update_project_binding, persist_project).
BindingIsSeen ==
    [][\A p \in Projects : bindings[p] # NoBinding /\ bindings'[p] # bindings[p] =>
          \E c \in Calls : At(c, "update") /\ calls[c].project = p /\ calls[c].binding = bindings[p]
      ]_vars
=============================================================================
