------------------------------ MODULE SessionIndex ------------------------------
(***************************************************************************)
(* services/session_service.rs with the session half of                    *)
(* adapters/targets/local.rs: a user authorizes the sessions directory of  *)
(* an OMP Profile, scans it into the index, and previews indexed sessions. *)
(* Each call is a chain of database tasks and looks at the file system;    *)
(* each task and each look is one action.  The Profile guard is tried,     *)
(* never waited for, and dropped whichever way the call returns, by Return.*)
(*                                                                         *)
(* Projects nest: a session belongs to the registered project deepest      *)
(* above its working directory.  Roots nest too, so that the directory of  *)
(* one Profile may lie inside that of another.  Bindings and registrations *)
(* change without the guard, and other programs replace directories and    *)
(* files whenever they like.  Abstracted: what a session says, so that     *)
(* parsing and the checks of its header are a read that may fail; the      *)
(* snapshot a scan returns; launch_context, which LaunchPlans models.      *)
(***************************************************************************)
EXTENDS Naturals, FiniteSets

CONSTANTS
    Calls,        \* concurrent IPC calls
    Projects,
    Profiles,
    Roots,        \* canonical paths of directories that may be authorized
    Files,        \* paths of session files
    None,
    First,        \* the project that is registered from the start
    Depth,        \* components of each project's canonical root
    Holds,        \* the files whose working directory lies under a project
    Under,        \* the files that lie under a root
    Reach,        \* those in the root itself or in a directory right inside it
    Below,        \* the roots at or inside a root
    MaxChanges    \* bound: changes made beside the calls

ASSUME SessionIndexAssumption ==
    /\ First \in Projects
    /\ Depth \in [Projects -> Nat]
    /\ Holds \in [Projects -> SUBSET Files]
    /\ \A p, q \in Projects : p # q /\ Holds[p] \cap Holds[q] # {} => Depth[p] # Depth[q]
    /\ Under \in [Roots -> SUBSET Files]
    /\ Reach \in [Roots -> SUBSET Files]
    /\ \A r \in Roots : Reach[r] \subseteq Under[r]
    /\ Below \in [Roots -> SUBSET Roots]
    /\ \A r \in Roots : r \in Below[r]
    /\ \A q, r \in Roots : q \notin Below[r] /\ r \notin Below[q] => Under[q] \cap Under[r] = {}
    /\ None \notin Projects \cup Profiles \cup Roots \cup Files \cup Nat
    /\ MaxChanges \in Nat

VARIABLES
    binding,   \* projects and project_bindings: revision 0 before add_project
    mapping,   \* profile_session_roots: the root each Profile is mapped to
    grant,     \* authorized_roots of kind profile: identity and status
    row,       \* session_index, by Profile and path
    dir,       \* identity of the directory at each root, 0 when there is none
    file,      \* generation of the file at each path, 0 when there is none
    active,    \* active_profiles: the Profiles whose guard is held
    call,      \* what each call is doing and what it has loaded
    steady,    \* history: files a running scan could have seen all along
    changes    \* counter of the bound

database == <<binding, mapping, grant, row>>
world == <<dir, file>>
vars == <<database, world, active, call, steady, changes>>

Registered == {p \in Projects : binding[p].revision > 0}

SameRoot(q, r) == q = r
\* One of the two paths is a prefix of the other.
Overlap(q, r) == q \in Below[r] \/ r \in Below[q]

\* The deepest of the projects `known` whose root is above the file's directory.
Owner(known, f) ==
    LET above == {p \in known : f \in Holds[p]}
    IN  IF above = {} THEN None
        ELSE CHOOSE p \in above : \A q \in above : Depth[q] <= Depth[p]

NoGrant == [id |-> 0, status |-> "none"]
NoFile == <<0, 0>>
NoRow == [project |-> None, source |-> NoFile, freshness |-> "none"]
NoCall == [pc |-> "idle", project |-> None, profile |-> None, revision |-> 0,
           root |-> None, id |-> 0, known |-> {}, todo |-> {},
           records |-> [f \in Files |-> NoFile], failed |-> {}, complete |-> TRUE,
           file |-> None, source |-> NoFile, read |-> NoFile]

Init ==
    /\ \E a \in Profiles :
          binding = [p \in Projects |-> [profile |-> a, revision |-> IF p = First THEN 1 ELSE 0]]
    /\ mapping = [a \in Profiles |-> None]
    /\ grant = [r \in Roots |-> NoGrant]
    /\ row = [a \in Profiles |-> [f \in Files |-> NoRow]]
    /\ dir = [r \in Roots |-> 1]
    /\ file = [f \in Files |-> 1]
    /\ changes = 0
    /\ active = {}
    /\ call = [c \in Calls |-> NoCall]
    /\ steady = [c \in Calls |-> {}]

At(c, pc) == call[c].pc = pc
Goto(c, pc) == call' = [call EXCEPT ![c].pc = pc] /\ UNCHANGED <<active, steady>>

\* Every return: the guard is dropped with the call.
Return(c) ==
    /\ active' = active \ {call[c].profile}
    /\ call' = [call EXCEPT ![c] = NoCall]
    /\ steady' = [steady EXCEPT ![c] = {}]

\* The binding is still the one that was loaded at the beginning.
SameBinding(c) ==
    binding[call[c].project] = [profile |-> call[c].profile, revision |-> call[c].revision]

NeverHeld(a) == FALSE
\* acquire_profile: another call has the guard.
Held(a) == a \in active

\* The bindings a call may have loaded of project `p` by now: load_session_project
\* is a task of its own, and the binding may have moved on since.
LoadedOf(p) == {binding[p]} \cup [profile : Profiles, revision : 1 .. binding[p].revision - 1]

\* load_session_project and acquire_profile; a call that finds the guard held
\* returns at once and leaves nothing behind.
Begin(c) ==
    /\ At(c, "idle")
    /\ \E p \in Registered, kind \in {"picker", "context", "preview"} :
       \E loaded \in LoadedOf(p) :
          /\ ~Held(loaded.profile)
          /\ active' = active \cup {loaded.profile}
          /\ call' = [call EXCEPT ![c] = [NoCall EXCEPT
                        !.pc = kind, !.project = p,
                        !.profile = loaded.profile, !.revision = loaded.revision]]
    /\ UNCHANGED <<database, world, steady>>

-----------------------------------------------------------------------------
(* authorize_project_sessions_root: the folder picker stays open for as     *)
(* long as the user likes, with the guard held.                             *)

\* A directory is picked and inspected, or the picker is cancelled.
PickRoot(c) ==
    /\ At(c, "picker")
    /\ \/ \E r \in Roots :
             /\ dir[r] # 0
             /\ call' = [call EXCEPT ![c].pc = "grant", ![c].root = r, ![c].id = dir[r]]
             /\ UNCHANGED <<active, steady>>
       \/ Return(c)
    /\ UNCHANGED <<database, world>>

\* persist_profile_session_root, one immediate transaction.
PersistRoot(c) ==
    /\ At(c, "grant")
    /\ LET a == call[c].profile
           r == call[c].root
       IN  IF SameBinding(c) /\ \A b \in Profiles \ {a} : mapping[b] = None \/ ~Overlap(mapping[b], r)
             THEN /\ grant' = [q \in Roots |->
                        IF q = r THEN [id |-> call[c].id, status |-> "active"]
                        ELSE IF q = mapping[a] THEN NoGrant ELSE grant[q]]
                  /\ mapping' = [mapping EXCEPT ![a] = r]
                  /\ row' = [row EXCEPT ![a] = [f \in Files |->
                        IF @[f] = NoRow THEN NoRow ELSE [@[f] EXCEPT !.freshness = "stale"]]]
                  /\ Goto(c, "context")
             ELSE Return(c) /\ UNCHANGED <<mapping, grant, row>>
    /\ UNCHANGED <<binding, world>>

-----------------------------------------------------------------------------
(* What scan_locked and preview_locked do with the root `r`, authorized as  *)
(* the directory `id`.                                                      *)

StillThere(r, id) == dir[r] = id

\* update_profile_root_status: only the root that was loaded is marked.
Mark(r, id, status) ==
    grant' = [grant EXCEPT ![r] = IF @.id = id THEN [@ EXCEPT !.status = status] ELSE @]

\* Another directory is at the path, or none: the call marks it and returns.
RootFailure(c, r, id) ==
    /\ ~StillThere(r, id)
    /\ Mark(r, id, IF dir[r] = 0 THEN "offline" ELSE "replaced")
    /\ Return(c)
    /\ UNCHANGED <<binding, mapping, row, world>>

\* open_verified_session_root: the descriptor that was opened is the directory's.
RootOpens(r, id) == dir[r] = id

UnanchoredRead(r, id, f) == file[f]
\* The generation of `f` below the descriptor of the verified root; 0 if that
\* directory is no longer at its path, or the file is not in it or lies too deep.
Anchored(r, id, f) == IF RootOpens(r, id) /\ f \in Reach[r] THEN file[f] ELSE 0

-----------------------------------------------------------------------------
(* scan                                                                     *)

\* load_session_scan_context and the first inspection of the root; a Profile
\* without a root has nothing to scan.
ScanRoot(c) ==
    /\ At(c, "context")
    /\ LET r == mapping[call[c].profile]
           id == grant[r].id
       IN  IF ~SameBinding(c) \/ r = None
             THEN Return(c) /\ UNCHANGED <<database, world>>
             ELSE \/ RootFailure(c, r, id)
                  \/ /\ StillThere(r, id)
                    /\ Mark(r, id, "active")
                    /\ call' = [call EXCEPT ![c].pc = "list", ![c].root = r, ![c].id = id]
                    /\ steady' = [steady EXCEPT ![c] =
                         {f \in Reach[r] : file[f] # 0 /\ Owner(Registered, f) = call[c].project}]
                    /\ UNCHANGED <<binding, mapping, row, active, world>>

SkippingIsFine(skipped) == TRUE
ListingIsComplete(skipped) == skipped = {}

\* list_allowed_jsonl_files looks into the verified root and the directories right
\* inside it, and passes over what lies deeper without a word.  Entries it cannot
\* open are skipped and leave the scan incomplete, a limit ends the call.  Then
\* load_project_roots, once for the whole scan.
ListFiles(c) ==
    /\ At(c, "list")
    /\ LET r == call[c].root
       IN  \/ RootFailure(c, r, call[c].id)
           \/ /\ RootOpens(r, call[c].id)
              /\ \/ \E skipped \in SUBSET Reach[r] :
                      /\ call' = [call EXCEPT ![c].pc = "read", ![c].complete = ListingIsComplete(skipped),
                                    ![c].todo = {f \in Reach[r] \ skipped : file[f] # 0},
                                    ![c].known = Registered]
                      /\ UNCHANGED <<active, steady>>
                 \/ Return(c)
              /\ UNCHANGED <<database, world>>

\* One file of the loop: it cannot be read, parsed or placed; or it belongs to
\* another project; or it becomes a record.  The byte limit ends the call.
ReadFile(c) ==
    /\ At(c, "read")
    /\ \E f \in call[c].todo :
          LET done == [call[c] EXCEPT !.todo = @ \ {f}]
              found == <<dir[call[c].root], Anchored(call[c].root, call[c].id, f)>>
          IN  \/ /\ call' = [call EXCEPT ![c] =
                      [done EXCEPT !.complete = FALSE, !.failed = @ \cup {f}]]
                 /\ UNCHANGED <<active, steady>>
              \/ /\ found[2] # 0
                 /\ call' = [call EXCEPT ![c] =
                      IF Owner(call[c].known, f) = call[c].project
                        THEN [done EXCEPT !.records = [@ EXCEPT ![f] = found]]
                        ELSE done]
                 /\ UNCHANGED <<active, steady>>
              \/ Return(c)
    /\ UNCHANGED <<database, world>>

\* What persist_session_index writes: the rows of this project and Profile age,
\* failed paths are marked, records are written fresh.
Indexed(c) ==
    LET p == call[c].project
        aged == IF call[c].complete THEN "missing" ELSE "stale"
    IN  [f \in Files |->
           LET old == row[call[c].profile][f]
           IN  IF call[c].records[f] # NoFile
                 THEN [project |-> p, source |-> call[c].records[f], freshness |-> "fresh"]
               ELSE IF old = NoRow THEN NoRow
               ELSE IF f \in call[c].failed THEN [old EXCEPT !.freshness = "failed"]
               ELSE IF old.project = p THEN [old EXCEPT !.freshness = aged]
               ELSE old]

\* The last inspection of the root, then persist_session_index, one immediate
\* transaction.
FinishScan(c) ==
    /\ At(c, "read") /\ call[c].todo = {}
    /\ \/ RootFailure(c, call[c].root, call[c].id)
       \/ /\ StillThere(call[c].root, call[c].id)
          /\ row' = IF SameBinding(c) /\ mapping[call[c].profile] = call[c].root
                     THEN [row EXCEPT ![call[c].profile] = Indexed(c)]
                     ELSE row
          /\ Return(c)
          /\ UNCHANGED <<binding, mapping, grant, world>>

-----------------------------------------------------------------------------
(* preview                                                                  *)

\* load_session_preview_context and the first inspection of the root: a session
\* indexed for the project under its Profile, whatever its freshness.  A request
\* for any other row, and one whose path is not below the root, returns.
PreviewRoot(c) ==
    /\ At(c, "preview")
    /\ LET a == call[c].profile
           r == mapping[a]
           id == grant[r].id
           known == {f \in Files : row[a][f].project = call[c].project}
       IN  \/ Return(c) /\ UNCHANGED <<database, world>>
           \/ /\ SameBinding(c) /\ r # None /\ known # {}
              /\ \/ RootFailure(c, r, id)
                 \/ /\ StillThere(r, id)
                    /\ Mark(r, id, "active")
                    /\ \/ \E f \in known \cap Under[r] :
                            /\ call' = [call EXCEPT ![c].pc = "open", ![c].root = r, ![c].id = id,
                                          ![c].file = f, ![c].source = row[a][f].source]
                            /\ UNCHANGED <<active, steady>>
                       \/ known \ Under[r] # {} /\ Return(c)
                    /\ UNCHANGED <<binding, mapping, row, world>>

\* read_allowed_file, which must find the very file that was indexed.
PreviewRead(c) ==
    /\ At(c, "open")
    /\ LET r == call[c].root
           found == <<dir[r], Anchored(r, call[c].id, call[c].file)>>
       IN  \/ RootFailure(c, r, call[c].id)
           \/ /\ StillThere(r, call[c].id)
              /\ IF found = call[c].source
                   THEN /\ call' = [call EXCEPT ![c].pc = "owner", ![c].read = found]
                        /\ UNCHANGED <<active, steady>>
                   ELSE Return(c)
              /\ UNCHANGED <<database, world>>

\* canonicalize_path of the session's directory, which may be gone, and
\* load_project_roots: the session must belong to the project that asks.
PreviewOwner(c) ==
    /\ At(c, "owner")
    /\ \/ Owner(Registered, call[c].file) = call[c].project /\ Goto(c, "verify")
       \/ Return(c)
    /\ UNCHANGED <<database, world>>

\* verify_session_preview_scope.
SameScope(c) ==
    LET old == row[call[c].profile][call[c].file]
    IN  /\ SameBinding(c)
        /\ mapping[call[c].profile] = call[c].root
        /\ old.project = call[c].project
        /\ old.source = call[c].source

\* The last inspection of the root, the last look at the database, and the
\* preview is built.
PreviewVerify(c) ==
    /\ At(c, "verify")
    /\ \/ RootFailure(c, call[c].root, call[c].id)
       \/ /\ StillThere(call[c].root, call[c].id)
          /\ IF SameScope(c) THEN Goto(c, "delivered") ELSE Return(c)
          /\ UNCHANGED <<database, world>>

Deliver(c) == At(c, "delivered") /\ Return(c) /\ UNCHANGED <<database, world>>

-----------------------------------------------------------------------------
(* What happens beside the calls, without any guard.                        *)

\* project_service.rs: add_project.
AddProject ==
    /\ \E p \in Projects \ Registered, a \in Profiles :
          binding' = [binding EXCEPT ![p] = [profile |-> a, revision |-> 1]]
    /\ steady' = [c \in Calls |-> {f \in steady[c] : Owner(Registered', f) = call[c].project}]
    /\ UNCHANGED <<mapping, grant, row, world, active, call>>

\* project_service.rs: update_binding.
UpdateBinding ==
    /\ \E p \in Registered, a \in Profiles :
          /\ binding' = [binding EXCEPT ![p] = [profile |-> a, revision |-> @.revision + 1]]
    /\ UNCHANGED <<mapping, grant, row, world, active, call, steady>>

\* Another program moves a directory away, puts another in its place, or back.
ReplaceRoot ==
    /\ \E r \in Roots, i \in 0 .. 2 :
          /\ i # dir[r]
          /\ dir' = [q \in Roots |-> IF q \in Below[r] THEN i ELSE dir[q]]
          /\ steady' = [c \in Calls |-> steady[c] \ Under[r]]
    /\ UNCHANGED <<database, file, active, call>>

\* Another program removes a session file or writes a new one at its path.
ReplaceFile ==
    /\ \E f \in Files, g \in 0 .. 2 :
          /\ g # file[f]
          /\ file' = [file EXCEPT ![f] = g]
          /\ steady' = [c \in Calls |-> steady[c] \ {f}]
    /\ UNCHANGED <<database, dir, active, call>>

Step(c) ==
    \/ Begin(c) \/ PickRoot(c) \/ PersistRoot(c)
    \/ ScanRoot(c) \/ ListFiles(c) \/ ReadFile(c) \/ FinishScan(c)
    \/ PreviewRoot(c) \/ PreviewRead(c) \/ PreviewOwner(c) \/ PreviewVerify(c) \/ Deliver(c)

\* MaxChanges bounds what happens beside the calls, all of it together.
Beside ==
    /\ changes < MaxChanges
    /\ changes' = changes + 1
    /\ AddProject \/ UpdateBinding \/ ReplaceRoot \/ ReplaceFile

Next ==
    \/ \E c \in Calls : Step(c) /\ UNCHANGED changes
    \/ Beside

Spec == Init /\ [][Next]_vars

-----------------------------------------------------------------------------
(* Properties                                                               *)

Freshness == {"none", "fresh", "stale", "missing", "failed"}
CallSteps == {"idle", "picker", "grant", "context", "list", "read",
              "preview", "open", "owner", "verify", "delivered"}

CallRecord ==
    [pc : CallSteps, project : Projects \cup {None}, profile : Profiles \cup {None},
     revision : Nat, root : Roots \cup {None}, id : Nat, known : SUBSET Projects,
     todo : SUBSET Files, records : [Files -> Nat \X Nat], failed : SUBSET Files,
     complete : BOOLEAN, file : Files \cup {None}, source : Nat \X Nat, read : Nat \X Nat]

\* Type invariant: a call that is under way is about a registered project.
TypeOK ==
    /\ binding \in [Projects -> [profile : Profiles, revision : Nat]]
    /\ mapping \in [Profiles -> Roots \cup {None}]
    /\ grant \in [Roots -> [id : Nat, status : {"none", "active", "offline", "replaced"}]]
    /\ row \in [Profiles -> [Files -> [project : Projects \cup {None}, source : Nat \X Nat,
                                       freshness : Freshness]]]
    /\ dir \in [Roots -> Nat] /\ file \in [Files -> Nat]
    /\ active \subseteq Profiles
    /\ call \in [Calls -> CallRecord]
    /\ \A c \in Calls : ~At(c, "idle") => call[c].project \in Projects /\ call[c].profile \in Profiles
    /\ steady \in [Calls -> SUBSET Files]
    /\ changes \in 0 .. MaxChanges

\* A row shown as fresh was read below the directory that its Profile's user
\* authorized: the mapped root, under the identity it was authorized with, not
\* a directory that stood at the same path for a while (scan_locked,
\* persist_profile_session_root, the anchored reads of local.rs).
FreshIsAuthorized ==
    \A a \in Profiles, f \in Files :
        row[a][f].freshness = "fresh" =>
            /\ mapping[a] # None
            /\ f \in Under[mapping[a]]
            /\ row[a][f].source[1] = grant[mapping[a]].id

\* No session file is listed as fresh under two Profiles: roots that overlap are
\* refused, and a Profile that moves to another root gives its rows up first
\* (persist_profile_session_root).
OneProfileShowsIt ==
    \A f \in Files, a, b \in Profiles :
        row[a][f].freshness = "fresh" /\ row[b][f].freshness = "fresh" => a = b

\* A scan calls a session missing only if it could have seen so: never one whose
\* file was where a listing looks, in the root or right inside one of its
\* directories, unchanged and the project's own, from the start of the scan to its
\* end (list_allowed_jsonl_files, ReadFile, persist_session_index).  Of a file that
\* lies deeper it says nothing: a row from before the Profile moved to a root above
\* is called missing by the next complete scan, with its file in place.
MissingIsMissed ==
    [][\A c \in Calls : At(c, "read") =>
          \A f \in steady[c] :
              LET a == call[c].profile
              IN  row'[a][f].freshness = "missing" => row[a][f].freshness = "missing"]_vars

\* While a preview is handed out, what it shows was read from the very file the
\* index names for the project, below the directory authorized for the Profile:
\* nothing that replaces the grant or the row gets past the guard before the call
\* returns (preview_locked, verify_session_preview_scope, SessionProfileGuard).
PreviewIsAuthorized ==
    \A c \in Calls : At(c, "delivered") =>
        LET a == call[c].profile
        IN  /\ mapping[a] = call[c].root
            /\ call[c].read[1] = grant[mapping[a]].id
            /\ row[a][call[c].file].source = call[c].read
            /\ row[a][call[c].file].project = call[c].project
=============================================================================
