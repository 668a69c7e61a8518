------------------------------ MODULE LaunchPlans ------------------------------
(***************************************************************************)
(* services/launch_service.rs: launch plans that are prepared, shown and   *)
(* executed once, with what they rely on: the project's binding behind its *)
(* scope lease (project_service.rs), the session index behind the lease of *)
(* its Profile (session_service.rs), the latest probe report and the files *)
(* themselves, which other programs change at any time.  One project with  *)
(* one session for each Profile.                                           *)
(*                                                                         *)
(* Every lock scope, database task and look at the file system is one      *)
(* action; of the reads that a lease protects, those that follow on each   *)
(* other are one.  Both leases are tried, never waited for, and dropped    *)
(* whichever way the call returns.  Abstracted: models, roles and          *)
(* arguments, so that options is a prepare that fails before its store;    *)
(* the environment, which is the manager's own and which nothing changes;  *)
(* the authorization and root statuses that checks record and never read.  *)
(***************************************************************************)
EXTENDS Naturals, FiniteSets

CONSTANTS
    Requests,     \* concurrent IPC calls
    PlanIds,      \* plan ids; each is used once
    None,         \* nobody, nothing
    Profiles,
    MaxPlans,     \* MAXIMUM_PLANS
    MaxRevision,  \* bound: revisions of the binding
    MaxChanges    \* bound: changes made to files by other programs

ASSUME LaunchPlansAssumption ==
    /\ None \notin Requests /\ None \notin Nat /\ None \notin [id : Nat, size : Nat] /\ None \notin PlanIds
    /\ Profiles # {}
    /\ MaxPlans \in Nat \ {0}
    /\ MaxRevision \in Nat \ {0}
    /\ MaxChanges \in Nat

VARIABLES
    binding,   \* project_bindings: revision and Profile
    grant,     \* authorized_roots: the identity of the project's directory
    row,       \* session_index: identity of the indexed file, by Profile
    dir,       \* the identity of the directory at the project's path
    exe,       \* the identity of the OMP executable at its path
    file,      \* identity and size of the session's file, by Profile
    probed,    \* executable identity in the latest successful probe report
    scope,     \* holder of the project's scope lease
    lease,     \* holder of each Profile's lease
    plans,     \* PlanRegistry: state, expiry and evidence of each plan
    req,       \* what each call is doing
    shown,     \* evidence of every plan ever shown: history variable
    starts,    \* processes started for each plan: history variable
    changes    \* counter of the bound

database == <<binding, grant, row>>
world == <<dir, exe, file, changes>>
leases == <<scope, lease>>
vars == <<database, world, probed, leases, plans, req, shown, starts>>

Known == DOMAIN plans
Bindings == [revision : Nat \ {0}, profile : Profiles]
Sessions == [id : Nat, size : Nat]
NoEvidence == [revision |-> 0, grant |-> 0, exe |-> None, session |-> None]
Evidence == [revision : Nat, grant : Nat, exe : Nat \cup {None}, session : Sessions \cup {None}]

Ops == {"none", "prepare", "execute", "update", "scan"}
Steps == {"idle", "consume", "report", "inspect", "scope", "load", "directory", "stamp", "write",
          "profile", "lease", "read", "verify", "list", "persist",
          "models", "query", "reinspect", "store", "start"}
Calls == [op : Ops, at : Steps, plan : PlanIds \cup {None}, resume : BOOLEAN, ev : Evidence,
          root : Nat, bound : Bindings \cup {None}, read : Sessions \cup {None}]

(* A call: the plan it executes, whether it resumes a session, the evidence it *)
(* works with, and what it has loaded on the way: the authorized identity, the *)
(* binding as the session service has read it, the session file.               *)
Idle == [op |-> "none", at |-> "idle", plan |-> None, resume |-> FALSE, ev |-> NoEvidence,
         root |-> 0, bound |-> None, read |-> None]

Init ==
    /\ binding \in [revision : {1}, profile : Profiles]
    /\ grant = 0 /\ dir = 0 /\ exe = 0
    /\ file = [p \in Profiles |-> [id |-> 0, size |-> 0]]
    /\ row = [p \in Profiles |-> None]
    /\ probed = None
    /\ scope = None /\ lease = [p \in Profiles |-> None]
    /\ plans = [p \in {} |-> 0]
    /\ req = [r \in Requests |-> Idle]
    /\ shown = [p \in PlanIds |-> NoEvidence]
    /\ starts = [p \in PlanIds |-> 0]
    /\ changes = 0

-------------------------------------------------------------------------------
(* A call goes on, or returns and drops the guards it holds. *)

At(r, step) == req[r].at = step
Goes(r, next) == req' = [req EXCEPT ![r] = next]
GoesOn(r, next) == Goes(r, next) /\ UNCHANGED leases

Returns(r) ==
    /\ Goes(r, Idle)
    /\ scope' = IF scope = r THEN None ELSE scope
    /\ lease' = [p \in Profiles |-> IF lease[p] = r THEN None ELSE lease[p]]

Checks(r, condition, next) == IF condition THEN GoesOn(r, next) ELSE Returns(r)

(* Any step can fail for reasons of its own. *)
Fails(r) ==
    /\ req[r] # Idle
    /\ Returns(r)
    /\ UNCHANGED <<database, world, probed, plans, shown, starts>>

-------------------------------------------------------------------------------
(* The calls of the WebView, with the revision of the binding it has last seen. *)

Seen(revision) == [NoEvidence EXCEPT !.revision = revision]
Begins(r) ==
    /\ req[r] = Idle
    /\ \E e \in 1..binding.revision :
         \/ \E resume \in BOOLEAN :
              GoesOn(r, [Idle EXCEPT !.op = "prepare", !.at = "scope", !.resume = resume,
                                     !.ev = Seen(e)])
         \/ e < MaxRevision
            /\ GoesOn(r, [Idle EXCEPT !.op = "update", !.at = "scope", !.ev = Seen(e)])
         \/ GoesOn(r, [Idle EXCEPT !.op = "scan", !.at = "profile"])
         \/ \E p \in PlanIds : shown[p] # NoEvidence
              /\ GoesOn(r, [Idle EXCEPT !.op = "execute", !.at = "consume", !.plan = p])
    /\ UNCHANGED <<database, world, probed, plans, shown, starts>>

-------------------------------------------------------------------------------
(* ProjectService::launch_context and update_binding *)

TakesScope(r) ==
    /\ At(r, "scope")
    /\ IF scope = None
       THEN /\ scope' = r
            /\ Goes(r, [req[r] EXCEPT !.at = IF req[r].op = "update" THEN "write" ELSE "load"])
            /\ UNCHANGED lease
       ELSE Returns(r)
    /\ UNCHANGED <<database, world, probed, plans, shown, starts>>

(* Variant for the mutation checks: a refusal keeps the lease. *)
LoadsProjectLeaking(r) ==
    /\ At(r, "load")
    /\ GoesOn(r, IF binding.revision = req[r].ev.revision
                 THEN [req[r] EXCEPT !.at = "directory", !.root = grant] ELSE Idle)
    /\ UNCHANGED <<database, world, probed, plans, shown, starts>>

LoadsProject(r) ==
    /\ At(r, "load")
    /\ Checks(r, binding.revision = req[r].ev.revision,
              [req[r] EXCEPT !.at = "directory", !.root = grant])
    /\ UNCHANGED <<database, world, probed, plans, shown, starts>>

ChecksDirectory(r) ==
    /\ At(r, "directory")
    /\ Checks(r, dir = req[r].root, [req[r] EXCEPT !.at = "stamp"])
    /\ UNCHANGED <<database, world, probed, plans, shown, starts>>

(* The status is written where the identity is still the loaded one; an execution *)
(* then compares it with the plan's.                                              *)
StampsGrant(r) ==
    /\ At(r, "stamp")
    /\ LET q == req[r]
       IN  IF q.op = "execute"
           THEN Checks(r, grant = q.root /\ q.root = q.ev.grant,
                       [q EXCEPT !.at = IF q.resume THEN "profile" ELSE "start", !.root = 0])
           ELSE Checks(r, grant = q.root,
                       [q EXCEPT !.at = "report", !.root = 0, !.ev.grant = q.root])
    /\ UNCHANGED <<database, world, probed, plans, shown, starts>>

UpdatesBinding(r) ==
    /\ At(r, "write")
    /\ IF binding.revision = req[r].ev.revision
       THEN \E p \in Profiles : binding' = [revision |-> binding.revision + 1, profile |-> p]
       ELSE UNCHANGED binding
    /\ Returns(r)
    /\ UNCHANGED <<grant, row, world, probed, plans, shown, starts>>

(* add_project for a directory that is already a project: what it inspected is *)
(* authorized, which another may have replaced by the time it is stored; the   *)
(* binding stays.  No lease is taken.                                          *)
Regrants ==
    /\ grant' \in 0..dir
    /\ UNCHANGED <<binding, row, world, probed, leases, plans, req, shown, starts>>

-------------------------------------------------------------------------------
(* The probe report and the executable *)

ReadsReport(r) ==
    /\ At(r, "report")
    /\ LET q == req[r]
       IN  IF q.op = "execute" THEN Checks(r, probed = q.ev.exe, [q EXCEPT !.at = "inspect"])
           ELSE Checks(r, probed # None, [q EXCEPT !.at = "inspect", !.ev.exe = probed])
    /\ UNCHANGED <<database, world, probed, plans, shown, starts>>

Inspects(r) ==
    /\ At(r, "inspect")
    /\ LET q == req[r]
       IN  Checks(r, exe = q.ev.exe,
                  [q EXCEPT !.at = IF q.op = "execute" THEN "scope"
                                   ELSE IF q.resume THEN "profile" ELSE "models"])
    /\ UNCHANGED <<database, world, probed, plans, shown, starts>>

(* The model query, whose answer only decorates the plan.  Its permit is held by *)
(* the call that is at this step.                                                *)
AsksModels(r) ==
    /\ At(r, "models")
    /\ GoesOn(r, [req[r] EXCEPT !.at = IF \E s \in Requests : At(s, "query")
                                       THEN "reinspect" ELSE "query"])
    /\ UNCHANGED <<database, world, probed, plans, shown, starts>>

ModelsAnswer(r) ==
    /\ At(r, "query")
    /\ GoesOn(r, [req[r] EXCEPT !.at = "reinspect"])
    /\ UNCHANGED <<database, world, probed, plans, shown, starts>>

Reinspects(r) ==
    /\ At(r, "reinspect")
    /\ Checks(r, exe = req[r].ev.exe, [req[r] EXCEPT !.at = "store"])
    /\ UNCHANGED <<database, world, probed, plans, shown, starts>>

-------------------------------------------------------------------------------
(* SessionService::launch_context and scan *)

ReadsProfile(r) ==
    /\ At(r, "profile")
    /\ GoesOn(r, [req[r] EXCEPT !.at = "lease", !.bound = binding])
    /\ UNCHANGED <<database, world, probed, plans, shown, starts>>

(* Variant for the mutation checks: the lease may be held by another call. *)
TakesLeaseAnyway(r) ==
    /\ At(r, "lease")
    /\ lease' = [lease EXCEPT ![req[r].bound.profile] = r]
    /\ Goes(r, [req[r] EXCEPT !.at = IF req[r].op = "scan" THEN "list" ELSE "read"])
    /\ UNCHANGED <<database, world, probed, scope, plans, shown, starts>>

TakesLease(r) ==
    /\ At(r, "lease")
    /\ IF lease[req[r].bound.profile] = None
       THEN /\ lease' = [lease EXCEPT ![req[r].bound.profile] = r]
            /\ Goes(r, [req[r] EXCEPT !.at = IF req[r].op = "scan" THEN "list" ELSE "read"])
            /\ UNCHANGED scope
       ELSE Returns(r)
    /\ UNCHANGED <<database, world, probed, plans, shown, starts>>

(* The indexed session and its file, which must still be the indexed one. *)
ReadsSession(r) ==
    /\ At(r, "read")
    /\ LET q == req[r]
           f == file[q.bound.profile]
       IN  Checks(r, binding = q.bound /\ row[q.bound.profile] = f.id,
                  [q EXCEPT !.at = "verify", !.read = f])
    /\ UNCHANGED <<database, world, probed, plans, shown, starts>>

(* The binding and the row once more; an execution compares the file's size as well. *)
VerifiesScope(r) ==
    /\ At(r, "verify")
    /\ LET q == req[r]
           unchanged == binding = q.bound /\ row[q.bound.profile] = q.read.id
           next == [q EXCEPT !.bound = None, !.read = None, !.ev.session = q.read,
                             !.at = IF q.op = "execute" THEN "start" ELSE "models"]
       IN  Checks(r, unchanged /\ (q.op = "execute" => q.read = q.ev.session), next)
    /\ UNCHANGED <<database, world, probed, plans, shown, starts>>

ListsSessions(r) ==
    /\ At(r, "list")
    /\ Checks(r, binding = req[r].bound,
              [req[r] EXCEPT !.at = "persist", !.read = file[req[r].bound.profile]])
    /\ UNCHANGED <<database, world, probed, plans, shown, starts>>

PersistsIndex(r) ==
    /\ At(r, "persist")
    /\ row' = IF binding = req[r].bound
              THEN [row EXCEPT ![req[r].bound.profile] = req[r].read.id] ELSE row
    /\ Returns(r)
    /\ UNCHANGED <<binding, grant, world, probed, plans, shown, starts>>

-------------------------------------------------------------------------------
(* prepare, from resolve_launch's answer on, and execute *)

Kept == {p \in Known : plans[p].state = "prepared" /\ ~plans[p].expired}

Full == Cardinality(Kept) >= MaxPlans

Fresh == {p \in PlanIds : shown[p] = NoEvidence}

(* A model that has run out of ids refuses, as if it were full.  The leases, which *)
(* the code gives back just before it stores the plan, are given back with it.     *)
StoresPlan(r) ==
    /\ At(r, "store")
    /\ IF Full \/ Fresh = {}
       THEN plans' = [p \in Kept |-> plans[p]] /\ UNCHANGED shown
       ELSE \E new \in Fresh :
              /\ shown' = [shown EXCEPT ![new] = req[r].ev]
              /\ plans' = [p \in Kept \cup {new} |->
                             IF p = new THEN [state |-> "prepared", expired |-> FALSE,
                                              ev |-> req[r].ev]
                             ELSE plans[p]]
    /\ Returns(r)
    /\ UNCHANGED <<database, world, probed, starts>>

(* The monotonic deadline passes. *)
Expires(p) ==
    /\ p \in Known
    /\ plans' = [plans EXCEPT ![p].expired = TRUE]
    /\ UNCHANGED <<database, world, probed, leases, req, shown, starts>>

Executable(p) == p \in Known /\ plans[p].state = "prepared" /\ ~plans[p].expired

(* Variant for the mutation checks: executing a plan leaves it there. *)
ConsumesNothing(r) ==
    /\ At(r, "consume")
    /\ LET p == req[r].plan
       IN  IF Executable(p)
           THEN GoesOn(r, [req[r] EXCEPT !.at = "report", !.ev = plans[p].ev,
                                         !.resume = plans[p].ev.session # None])
           ELSE Returns(r)
    /\ UNCHANGED <<database, world, probed, plans, shown, starts>>

(* A plan that is there is consumed, in time or not. *)
Consumes(r) ==
    /\ At(r, "consume")
    /\ LET p == req[r].plan
       IN  /\ plans' = IF p \in Known THEN [plans EXCEPT ![p].state = "consumed"] ELSE plans
           /\ IF Executable(p)
              THEN GoesOn(r, [req[r] EXCEPT !.at = "report", !.ev = plans[p].ev,
                                            !.resume = plans[p].ev.session # None])
              ELSE Returns(r)
    /\ UNCHANGED <<database, world, probed, shown, starts>>

(* PtyRuntime::start_omp or ExecutionTarget::open_external_terminal: both verify the *)
(* executable they have opened and then spawn that one.                              *)
Starts(r) ==
    /\ At(r, "start")
    /\ starts' = IF exe = req[r].ev.exe THEN [starts EXCEPT ![req[r].plan] = @ + 1] ELSE starts
    /\ Returns(r)
    /\ UNCHANGED <<database, world, probed, plans, shown>>

-------------------------------------------------------------------------------
(* The rest of the world: probes, and other programs. *)

(* The latest report is of the executable a probe has measured some time ago.  That *)
(* later operations evict it is among the reasons a call Fails.                     *)
Probes ==
    /\ probed' \in 0..exe
    /\ UNCHANGED <<database, world, leases, plans, req, shown, starts>>

FilesChange ==
    /\ changes < MaxChanges
    /\ changes' = changes + 1
    /\ \/ dir' = dir + 1 /\ UNCHANGED <<exe, file>>
       \/ exe' = exe + 1 /\ UNCHANGED <<dir, file>>
       \/ /\ \E p \in Profiles : \/ file' = [file EXCEPT ![p].id = @ + 1]
                                 \/ file' = [file EXCEPT ![p].size = @ + 1]
          /\ UNCHANGED <<dir, exe>>
    /\ UNCHANGED <<database, probed, leases, plans, req, shown, starts>>

Project(r) == TakesScope(r) \/ LoadsProject(r) \/ ChecksDirectory(r) \/ StampsGrant(r)
              \/ UpdatesBinding(r)
Installed(r) == ReadsReport(r) \/ Inspects(r) \/ AsksModels(r) \/ ModelsAnswer(r)
                \/ Reinspects(r)
Session(r) == ReadsProfile(r) \/ TakesLease(r) \/ ReadsSession(r) \/ VerifiesScope(r)
              \/ ListsSessions(r) \/ PersistsIndex(r)
Plan(r) == StoresPlan(r) \/ Consumes(r) \/ Starts(r)
Proceeds(r) == Project(r) \/ Installed(r) \/ Session(r) \/ Plan(r)

Next ==
    \/ \E r \in Requests : Begins(r) \/ Proceeds(r) \/ Fails(r)
    \/ \E p \in PlanIds : Expires(p)
    \/ Regrants \/ Probes \/ FilesChange

Spec == Init /\ [][Next]_vars

(* A call that has begun is carried on; nothing else has to happen. *)
FairSpec == Spec /\ \A r \in Requests : WF_vars(Proceeds(r))

-------------------------------------------------------------------------------
(* Properties *)

(* What prune and the limit keep the plan registry within. *)
Bounded == IsFiniteSet(Known) /\ Cardinality(Known) <= MaxPlans

(* Type invariant; the plan registry keeps within its capacity. *)
TypeOK ==
    /\ Bounded
    /\ binding \in Bindings
    /\ grant \in Nat /\ dir \in Nat /\ exe \in Nat /\ probed \in Nat \cup {None}
    /\ file \in [Profiles -> Sessions] /\ row \in [Profiles -> Nat \cup {None}]
    /\ scope \in Requests \cup {None} /\ lease \in [Profiles -> Requests \cup {None}]
    /\ Known \subseteq PlanIds
    /\ plans \in [Known -> [state : {"prepared", "consumed"}, expired : BOOLEAN, ev : Evidence]]
    /\ req \in [Requests -> Calls]
    /\ shown \in [PlanIds -> Evidence] /\ starts \in [PlanIds -> Nat]
    /\ changes \in 0..MaxChanges

(* "Double clicks and IPC replay cannot start a second process": a plan starts one *)
(* process at most, however many calls execute it, and whether it is pruned,       *)
(* expires or fails its revalidation meanwhile.                                    *)
StartsOnce == \A p \in PlanIds : starts[p] <= 1

(* A process is started from the executable the plan was shown with, under the     *)
(* binding it was shown with and, to resume, on the session that is still indexed: *)
(* nothing the manager itself does to them comes between the checks and the start. *)
StartsAsShown ==
    [][\A p \in PlanIds : starts'[p] # starts[p] =>
          /\ exe = shown[p].exe
          /\ binding.revision = shown[p].revision
          /\ shown[p].session # None => row[binding.profile] = shown[p].session.id]_vars

(* The project and its Profiles are never locked for good by a call that was *)
(* refused or failed.                                                        *)
LeasesComeBack ==
    /\ []<>(scope = None)
    /\ \A p \in Profiles : []<>(lease[p] = None)
===============================================================================
