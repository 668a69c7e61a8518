--------------------------- MODULE LaunchPlansProofs ---------------------------
(***************************************************************************)
(* Proofs about LaunchPlans, for every number of calls, plans, Profiles    *)
(* and changes: types and capacity, that a plan starts one process at      *)
(* most, and that it starts what was shown.                                *)
(***************************************************************************)
EXTENDS LaunchPlans, TLAPS, FiniteSetTheorems

(* What a call is doing at each of its steps. *)
StagedCall(q) ==
    /\ q.at = "idle" => q = Idle
    /\ q.op = "none" => q = Idle
    /\ q.at \in {"models", "query", "reinspect", "store"} => q.op = "prepare"
    /\ q.at \in {"consume", "start"} => q.op = "execute"
    /\ q.at = "scope" => q.op \in {"prepare", "execute", "update"}
    /\ q.at \in {"load", "directory", "stamp", "report", "inspect", "read", "verify"} =>
          q.op \in {"prepare", "execute"}
    /\ q.at \in {"profile", "lease"} => q.op \in {"prepare", "execute", "scan"}
    /\ q.at \in {"list", "persist"} => q.op = "scan"
    /\ q.at = "write" => q.op = "update"
    /\ q.op = "prepare" => q.ev.revision # 0
    /\ q.op = "execute" => q.plan \in PlanIds
Staged == \A r \in Requests : StagedCall(req[r])

Executing(r) == req[r].op = "execute" /\ req[r].at # "consume"
Spent(p) == p \in Known => plans[p].state = "consumed"

(* Why a plan starts once: the call past its consume step is the only one to *)
(* have found the plan prepared, and the id is never given again.            *)
Once ==
    /\ \A p \in PlanIds : starts[p] <= 1 /\ (starts[p] # 0 => Spent(p) /\ shown[p] # NoEvidence)
    /\ \A p \in Known : shown[p] # NoEvidence
    /\ \A r \in Requests : req[r].op = "execute" => shown[req[r].plan] # NoEvidence
    /\ \A r \in Requests : Executing(r) => starts[req[r].plan] = 0 /\ Spent(req[r].plan)
    /\ \A r, s \in Requests : Executing(r) /\ Executing(s) /\ r # s => req[r].plan # req[s].plan

(* What an execution works with is what was shown. *)
Carried ==
    /\ \A p \in Known : plans[p].ev = shown[p]
    /\ \A r \in Requests : Executing(r) =>
          /\ req[r].ev = shown[req[r].plan]
          /\ req[r].resume = (req[r].ev.session # None)

Bound == {"directory", "stamp", "profile", "lease", "read", "verify", "start"}

(* What the two leases protect. *)
GuardedCall(r, q) ==
    /\ q.at = "write" => scope = r
    /\ q.op = "execute" /\ q.at \in {"load"} \cup Bound => scope = r
    /\ q.op = "execute" /\ q.at \in Bound => binding.revision = q.ev.revision
    /\ q.at \in {"lease", "read", "verify", "list", "persist"} => q.bound \in Bindings
    /\ q.at \in {"read", "verify", "list", "persist"} => lease[q.bound.profile] = r
    /\ q.at \in {"verify", "persist"} => q.read \in Sessions
    /\ q.at = "start" /\ q.ev.session # None =>
          /\ lease[binding.profile] = r
          /\ row[binding.profile] = q.ev.session.id
Guarded == \A r \in Requests : GuardedCall(r, req[r])

Sound == TypeOK /\ Staged /\ Once /\ Carried /\ Guarded

(* The types of what a call changes on its way: its own state and the leases. *)
CallTypes ==
    /\ req \in [Requests -> Calls]
    /\ scope \in Requests \cup {None} /\ lease \in [Profiles -> Requests \cup {None}]

LEMMA IdleTypes == Idle \in Calls
BY DEF Idle, Calls, Ops, Steps, Evidence, NoEvidence

LEMMA ReturnsTypes ==
    ASSUME CallTypes, NEW r \in Requests, Returns(r)
    PROVE  CallTypes'
BY IdleTypes DEF CallTypes, Returns, Goes

LEMMA GoesOnTypes ==
    ASSUME CallTypes, NEW r \in Requests, NEW next \in Calls, GoesOn(r, next)
    PROVE  CallTypes'
BY DEF CallTypes, GoesOn, Goes, leases

LEMMA ChecksTypes ==
    ASSUME CallTypes, NEW r \in Requests, NEW condition, NEW next,
           condition => next \in Calls, Checks(r, condition, next)
    PROVE  CallTypes'
BY ReturnsTypes, GoesOnTypes DEF Checks

(* A step that changes nothing else keeps every type. *)
LEMMA OthersTypes ==
    ASSUME TypeOK, CallTypes', UNCHANGED <<database, world, probed, plans, shown, starts>>
    PROVE  TypeOK'
BY DEF TypeOK, CallTypes, Bounded, Known, database, world

LEMMA TypesKept == Sound /\ [Next]_vars => TypeOK'
<1> SUFFICES ASSUME Sound, [Next]_vars PROVE TypeOK'
    OBVIOUS
<1> USE LaunchPlansAssumption
<1>0. TypeOK /\ CallTypes
    BY DEF Sound, TypeOK, CallTypes
<1>a. CASE \E r \in Requests : Begins(r) \/ Proceeds(r) \/ Fails(r)
  <2> PICK r \in Requests : Begins(r) \/ Proceeds(r) \/ Fails(r)
      BY <1>a
  <2> DEFINE q == req[r]
  <2>0. q \in Calls
      BY <1>0 DEF TypeOK
  <2>1. CASE LoadsProject(r)
    <3>1. [q EXCEPT !.at = "directory", !.root = grant] \in Calls
        BY <1>0, <2>0 DEF TypeOK, Calls, Steps, Evidence
    <3>2. CallTypes'
        BY <1>0, <2>1, <3>1, ChecksTypes DEF LoadsProject
    <3> QED
        BY <1>0, <2>1, <3>2, OthersTypes DEF LoadsProject
  <2>2. CASE ChecksDirectory(r)
    <3>1. [q EXCEPT !.at = "stamp"] \in Calls
        BY <1>0, <2>0 DEF TypeOK, Calls, Steps, Evidence
    <3>2. CallTypes'
        BY <1>0, <2>2, <3>1, ChecksTypes DEF ChecksDirectory
    <3> QED
        BY <1>0, <2>2, <3>2, OthersTypes DEF ChecksDirectory
  <2>3. CASE StampsGrant(r)
    <3>1. [q EXCEPT !.at = "report", !.root = 0, !.ev.grant = q.root] \in Calls
        BY <1>0, <2>0 DEF TypeOK, Calls, Steps, Evidence
    <3>2. [q EXCEPT !.at = IF q.resume THEN "profile" ELSE "start", !.root = 0] \in Calls
        BY <1>0, <2>0 DEF TypeOK, Calls, Steps, Evidence
    <3>3. CallTypes'
        BY <1>0, <2>3, <3>1, <3>2, ChecksTypes DEF StampsGrant
    <3> QED
        BY <1>0, <2>3, <3>3, OthersTypes DEF StampsGrant
  <2>4. CASE ReadsReport(r)
    <3>1. [q EXCEPT !.at = "inspect"] \in Calls
        BY <1>0, <2>0 DEF TypeOK, Calls, Steps, Evidence
    <3>2. probed # None => [q EXCEPT !.at = "inspect", !.ev.exe = probed] \in Calls
        BY <1>0, <2>0 DEF TypeOK, Calls, Steps, Evidence
    <3>3. CallTypes'
        BY <1>0, <2>4, <3>1, <3>2, ChecksTypes DEF ReadsReport
    <3> QED
        BY <1>0, <2>4, <3>3, OthersTypes DEF ReadsReport
  <2>5. CASE Inspects(r)
    <3>1. \A at \in Steps : [q EXCEPT !.at = at] \in Calls
        BY <2>0 DEF Calls
    <3>a. {"scope", "profile", "models"} \subseteq Steps
        BY DEF Steps
    <3>b. [q EXCEPT !.at = IF q.op = "execute" THEN "scope"
                           ELSE IF q.resume THEN "profile" ELSE "models"] \in Calls
        BY <3>1, <3>a
    <3>2. CallTypes'
        BY <1>0, <2>5, <3>b, ChecksTypes DEF Inspects
    <3> QED
        BY <1>0, <2>5, <3>2, OthersTypes DEF Inspects
  <2>6. CASE AsksModels(r)
    <3>1. [q EXCEPT !.at = IF \E s \in Requests : At(s, "query") THEN "reinspect" ELSE "query"] \in Calls
        BY <1>0, <2>0 DEF TypeOK, Calls, Steps, Evidence
    <3>2. CallTypes'
        BY <1>0, <2>6, <3>1, GoesOnTypes DEF AsksModels
    <3> QED
        BY <1>0, <2>6, <3>2, OthersTypes DEF AsksModels
  <2>7. CASE ModelsAnswer(r)
    <3>1. [q EXCEPT !.at = "reinspect"] \in Calls
        BY <1>0, <2>0 DEF TypeOK, Calls, Steps, Evidence
    <3>2. CallTypes'
        BY <1>0, <2>7, <3>1, GoesOnTypes DEF ModelsAnswer
    <3> QED
        BY <1>0, <2>7, <3>2, OthersTypes DEF ModelsAnswer
  <2>8. CASE Reinspects(r)
    <3>1. [q EXCEPT !.at = "store"] \in Calls
        BY <1>0, <2>0 DEF TypeOK, Calls, Steps, Evidence
    <3>2. CallTypes'
        BY <1>0, <2>8, <3>1, ChecksTypes DEF Reinspects
    <3> QED
        BY <1>0, <2>8, <3>2, OthersTypes DEF Reinspects
  <2>9. CASE ReadsProfile(r)
    <3>1. [q EXCEPT !.at = "lease", !.bound = binding] \in Calls
        BY <1>0, <2>0 DEF TypeOK, Calls, Steps, Evidence
    <3>2. CallTypes'
        BY <1>0, <2>9, <3>1, GoesOnTypes DEF ReadsProfile
    <3> QED
        BY <1>0, <2>9, <3>2, OthersTypes DEF ReadsProfile
  <2>10. CASE Begins(r)
    <3>1. \A e \in 1..binding.revision : Seen(e) \in Evidence
        BY <1>0 DEF TypeOK, Bindings, Seen, NoEvidence, Evidence
    <3>2. \E next \in Calls : GoesOn(r, next)
        BY <1>0, <2>10, <3>1 DEF Begins, Idle, Calls, Ops, Steps, Evidence, NoEvidence
    <3>3. CallTypes'
        BY <1>0, <3>2, GoesOnTypes
    <3> QED
        BY <1>0, <2>10, <3>3, OthersTypes DEF Begins
  <2>11. CASE TakesScope(r)
    <3>1. [q EXCEPT !.at = IF q.op = "update" THEN "write" ELSE "load"] \in Calls
        BY <2>0 DEF Calls, Steps
    <3>2. CallTypes'
        BY <1>0, <2>11, <3>1, ReturnsTypes DEF TakesScope, Goes, CallTypes
    <3> QED
        BY <1>0, <2>11, <3>2, OthersTypes DEF TakesScope
  <2>12. CASE TakesLease(r)
    <3>1. [q EXCEPT !.at = IF q.op = "scan" THEN "list" ELSE "read"] \in Calls
        BY <2>0 DEF Calls, Steps
    <3>2. CallTypes'
        BY <1>0, <2>12, <3>1, ReturnsTypes DEF TakesLease, Goes, CallTypes
    <3> QED
        BY <1>0, <2>12, <3>2, OthersTypes DEF TakesLease
  <2>13. CASE Fails(r)
    <3>1. CallTypes'
        BY <1>0, <2>13, ReturnsTypes DEF Fails
    <3> QED
        BY <1>0, <2>13, <3>1, OthersTypes DEF Fails
  <2>14. CASE ReadsSession(r)
    <3>1. q.bound \in Bindings
        BY <2>14 DEF ReadsSession, Sound, Guarded, GuardedCall, At
    <3>2. [q EXCEPT !.at = "verify", !.read = file[q.bound.profile]] \in Calls
        BY <1>0, <2>0, <3>1 DEF TypeOK, Calls, Steps, Bindings
    <3>3. CallTypes'
        BY <1>0, <2>14, <3>2, ChecksTypes DEF ReadsSession
    <3> QED
        BY <1>0, <2>14, <3>3, OthersTypes DEF ReadsSession
  <2>15. CASE ListsSessions(r)
    <3>1. q.bound \in Bindings
        BY <2>15 DEF ListsSessions, Sound, Guarded, GuardedCall, At
    <3>2. [q EXCEPT !.at = "persist", !.read = file[q.bound.profile]] \in Calls
        BY <1>0, <2>0, <3>1 DEF TypeOK, Calls, Steps, Bindings
    <3>3. CallTypes'
        BY <1>0, <2>15, <3>2, ChecksTypes DEF ListsSessions
    <3> QED
        BY <1>0, <2>15, <3>3, OthersTypes DEF ListsSessions
  <2>16. CASE VerifiesScope(r)
    <3>1. q.read \in Sessions
        BY <2>16 DEF VerifiesScope, Sound, Guarded, GuardedCall, At
    <3>2. [q EXCEPT !.bound = None, !.read = None, !.ev.session = q.read,
                    !.at = IF q.op = "execute" THEN "start" ELSE "models"] \in Calls
        BY <2>0, <3>1 DEF Calls, Steps, Evidence
    <3>3. CallTypes'
        BY <1>0, <2>16, <3>2, ChecksTypes DEF VerifiesScope
    <3> QED
        BY <1>0, <2>16, <3>3, OthersTypes DEF VerifiesScope
  <2>17. CASE UpdatesBinding(r)
    <3>1. CallTypes'
        BY <1>0, <2>17, ReturnsTypes DEF UpdatesBinding
    <3>2. binding' \in Bindings
        BY <1>0, <2>17 DEF UpdatesBinding, TypeOK, Bindings
    <3> QED
        BY <1>0, <2>17, <3>1, <3>2 DEF UpdatesBinding, TypeOK, CallTypes, Bounded, Known, world
  <2>18. CASE PersistsIndex(r)
    <3>1. CallTypes'
        BY <1>0, <2>18, ReturnsTypes DEF PersistsIndex
    <3>2. q.read \in Sessions
        BY <2>18 DEF PersistsIndex, Sound, Guarded, GuardedCall, At
    <3>3. row' \in [Profiles -> Nat \cup {None}]
        BY <1>0, <2>18, <3>2 DEF PersistsIndex, TypeOK, Sessions
    <3> QED
        BY <1>0, <2>18, <3>1, <3>3 DEF PersistsIndex, TypeOK, CallTypes, Bounded, Known, world
  <2>19. CASE Starts(r)
    <3>1. CallTypes'
        BY <1>0, <2>19, ReturnsTypes DEF Starts
    <3>2. starts' \in [PlanIds -> Nat]
      <4>1. starts \in [PlanIds -> Nat]
          BY <1>0 DEF TypeOK
      <4>2. \A p \in PlanIds : starts[p] \in Nat /\ starts[p] + 1 \in Nat
          BY <4>1
      <4>3. starts' = starts \/ starts' = [starts EXCEPT ![q.plan] = starts[q.plan] + 1]
          BY <2>19 DEF Starts
      <4> QED
          BY <4>1, <4>2, <4>3
    <3> QED
        BY <1>0, <2>19, <3>1, <3>2 DEF Starts, TypeOK, CallTypes, Bounded, Known, database, world
  <2>20. CASE Consumes(r)
    <3>1. Executable(q.plan) => [q EXCEPT !.at = "report", !.ev = plans[q.plan].ev,
                                         !.resume = plans[q.plan].ev.session # None] \in Calls
        BY <1>0, <2>0 DEF TypeOK, Executable, Calls, Steps
    <3>2. CallTypes'
        BY <1>0, <2>20, <3>1, ReturnsTypes, GoesOnTypes DEF Consumes
    <3>3. Known' = Known
        BY <1>0, <2>20 DEF Consumes, Known, TypeOK
    <3>4. plans' \in [Known' -> [state : {"prepared", "consumed"}, expired : BOOLEAN, ev : Evidence]]
        BY <1>0, <2>20, <3>3 DEF Consumes, TypeOK
    <3>5. Bounded'
        BY <1>0, <3>3 DEF TypeOK, Bounded
    <3> QED
        BY <1>0, <2>20, <3>2, <3>3, <3>4, <3>5 DEF Consumes, TypeOK, CallTypes, database, world
  <2>21. CASE StoresPlan(r)
    <3>1. CallTypes'
        BY <1>0, <2>21, ReturnsTypes DEF StoresPlan
    <3>2. IsFiniteSet(Kept) /\ Cardinality(Kept) <= Cardinality(Known) /\ Kept \subseteq Known
        BY <1>0, FS_Subset DEF TypeOK, Bounded, Kept
    <3>3. CASE Full \/ Fresh = {}
      <4>1. plans' = [p \in Kept |-> plans[p]] /\ shown' = shown
          BY <2>21, <3>3 DEF StoresPlan
      <4>2. Known' = Kept
          BY <4>1 DEF Known
      <4>3. Bounded'
          BY <1>0, <3>2, <4>2, FS_CardinalityType, LaunchPlansAssumption DEF TypeOK, Bounded
      <4> QED
          BY <1>0, <2>21, <3>1, <3>2, <4>1, <4>2, <4>3
          DEF StoresPlan, TypeOK, CallTypes, database, world
    <3>4. CASE ~(Full \/ Fresh = {})
      <4>1. PICK new \in Fresh :
              /\ shown' = [shown EXCEPT ![new] = q.ev]
              /\ plans' = [p \in Kept \cup {new} |->
                             IF p = new THEN [state |-> "prepared", expired |-> FALSE, ev |-> q.ev]
                             ELSE plans[p]]
          BY <2>21, <3>4 DEF StoresPlan
      <4>2. Known' = Kept \cup {new}
          BY <4>1 DEF Known
      <4>3. Cardinality(Kept) + 1 <= MaxPlans
          BY <3>2, <3>4, FS_CardinalityType, LaunchPlansAssumption DEF Full
      <4>4. Bounded'
        <5>0. Cardinality(Kept) \in Nat
            BY <3>2, FS_CardinalityType
        <5>3. /\ IsFiniteSet(Kept \cup {new})
              /\ \/ Cardinality(Kept \cup {new}) = Cardinality(Kept)
                 \/ Cardinality(Kept \cup {new}) = Cardinality(Kept) + 1
            BY <3>2, FS_AddElement
        <5>1. IsFiniteSet(Known') /\ Cardinality(Known') <= Cardinality(Kept) + 1
            BY <4>2, <5>0, <5>3
        <5>2. Cardinality(Kept) \in Nat /\ Cardinality(Known') \in Nat
            BY <3>2, <5>1, FS_CardinalityType
        <5> QED
            BY <4>3, <5>1, <5>2 DEF Bounded
      <4>5. q.ev \in Evidence
          BY <2>0 DEF Calls
      <4>6. plans' \in [Known' -> [state : {"prepared", "consumed"}, expired : BOOLEAN, ev : Evidence]]
          BY <1>0, <3>2, <4>1, <4>2, <4>5 DEF TypeOK
      <4>7. shown' \in [PlanIds -> Evidence] /\ Known' \subseteq PlanIds
          BY <1>0, <3>2, <4>1, <4>2, <4>5 DEF TypeOK, Fresh
      <4> QED
          BY <1>0, <2>21, <3>1, <4>4, <4>6, <4>7 DEF StoresPlan, TypeOK, CallTypes, database, world
    <3> QED
        BY <3>3, <3>4
  <2> QED
      BY <2>1, <2>2, <2>3, <2>4, <2>5, <2>6, <2>7, <2>8, <2>9, <2>10, <2>11,
         <2>12, <2>13, <2>14, <2>15, <2>16, <2>17, <2>18, <2>19, <2>20, <2>21
      DEF Proceeds, Project, Installed, Session, Plan
<1>b. CASE \E p \in PlanIds : Expires(p)
  <2> PICK p \in PlanIds : Expires(p)
      BY <1>b
  <2> DEFINE PlanRecord == [state : {"prepared", "consumed"}, expired : BOOLEAN, ev : Evidence]
  <2>1. plans' = [plans EXCEPT ![p].expired = TRUE] /\ plans \in [Known -> PlanRecord]
      BY <1>0 DEF Expires, TypeOK
  <2>2. Known' = Known
    <3>1. DOMAIN plans' = DOMAIN plans
        BY <2>1
    <3> QED
        BY <3>1 DEF Known
  <2>3. plans' \in [Known' -> PlanRecord]
    <3>1. \A plan \in PlanRecord : [plan EXCEPT !.expired = TRUE] \in PlanRecord
        OBVIOUS
    <3> HIDE DEF PlanRecord
    <3> QED
        BY <2>1, <2>2, <3>1
  <2>4. Bounded'
      BY <1>0, <2>2 DEF TypeOK, Bounded
  <2> QED
      BY <1>0, <2>2, <2>3, <2>4 DEF Expires, TypeOK, database, world, leases
<1>c. CASE Regrants \/ Probes
  <2>1. 0..dir \subseteq Nat /\ 0..exe \subseteq Nat
      BY <1>0 DEF TypeOK
  <2> QED
      BY <1>0, <1>c, <2>1 DEF Regrants, Probes, TypeOK, Bounded, Known, world, database, leases
<1>d. CASE FilesChange
  <2>1. file' \in [Profiles -> Sessions]
    <3>1. file \in [Profiles -> Sessions]
        BY <1>0 DEF TypeOK
    <3>2. \A p \in Profiles : /\ [file[p] EXCEPT !.id = @ + 1] \in Sessions
                              /\ [file[p] EXCEPT !.size = @ + 1] \in Sessions
        BY <3>1 DEF Sessions
    <3>3. \/ file' = file
          \/ \E p \in Profiles : \/ file' = [file EXCEPT ![p].id = @ + 1]
                                 \/ file' = [file EXCEPT ![p].size = @ + 1]
        BY <1>d DEF FilesChange
    <3> QED
        BY <3>1, <3>2, <3>3
  <2> QED
      BY <1>0, <1>d, <2>1 DEF FilesChange, TypeOK, Bounded, Known, database, leases
<1>e. CASE UNCHANGED vars
    BY <1>0, <1>e DEF TypeOK, Bounded, Known, vars, database, world, leases
<1> QED
    BY <1>a, <1>b, <1>c, <1>d, <1>e DEF Next

-------------------------------------------------------------------------------
(* What one call does to the others: nothing that they hold is taken from them. *)

Steps1(r) == Begins(r) \/ Proceeds(r) \/ Fails(r)

LEMMA ReturnsLeaves ==
    ASSUME TypeOK, NEW r \in Requests, Returns(r)
    PROVE  /\ req'[r] = Idle
           /\ \A s \in Requests \ {r} :
                 /\ req'[s] = req[s] /\ (scope = s => scope' = s)
                 /\ \A p \in Profiles : lease[p] = s => lease'[p] = s
BY DEF TypeOK, Returns, Goes

LEMMA GoesOnLeaves ==
    ASSUME TypeOK, NEW r \in Requests, NEW next, GoesOn(r, next)
    PROVE  /\ req'[r] = next /\ scope' = scope /\ lease' = lease
           /\ \A s \in Requests \ {r} : req'[s] = req[s]
BY DEF TypeOK, GoesOn, Goes, leases

LEMMA IdleIsStaged == StagedCall(Idle)
BY DEF StagedCall, Idle

LEMMA ReturnsStaged ==
    ASSUME TypeOK, Staged, NEW r \in Requests, Returns(r)
    PROVE  Staged'
BY ReturnsLeaves, IdleIsStaged DEF Staged

LEMMA GoesStaged ==
    ASSUME TypeOK, Staged, NEW r \in Requests, NEW next, StagedCall(next), Goes(r, next)
    PROVE  Staged'
BY DEF TypeOK, Staged, Goes

LEMMA ChecksStaged ==
    ASSUME TypeOK, Staged, NEW r \in Requests, NEW condition, NEW next,
           condition => StagedCall(next), Checks(r, condition, next)
    PROVE  Staged'
BY ReturnsStaged, GoesStaged DEF Checks, GoesOn

LEMMA StagedKept == Sound /\ [Next]_vars => Staged'
<1> SUFFICES ASSUME Sound, [Next]_vars PROVE Staged'
    OBVIOUS
<1>0. TypeOK /\ Staged
    BY DEF Sound
<1>a. CASE \E r \in Requests : Steps1(r)
  <2> PICK r \in Requests : Steps1(r)
      BY <1>a
  <2> DEFINE q == req[r]
  <2>0. q \in Calls /\ StagedCall(q)
      BY <1>0 DEF TypeOK, Staged
  <2>1. CASE TakesScope(r)
    <3>1. StagedCall([q EXCEPT !.at = IF q.op = "update" THEN "write" ELSE "load"])
        BY <2>0, <2>1 DEF TakesScope, At, StagedCall, Idle, Calls, Evidence
    <3> QED
        BY <1>0, <2>1, <3>1, GoesStaged, ReturnsStaged DEF TakesScope, GoesOn
  <2>2. CASE LoadsProject(r)
    <3>1. StagedCall([q EXCEPT !.at = "directory", !.root = grant])
        BY <2>0, <2>2 DEF LoadsProject, At, StagedCall, Idle, Calls, Evidence
    <3> QED
        BY <1>0, <2>2, <3>1, ChecksStaged DEF LoadsProject, GoesOn
  <2>3. CASE ChecksDirectory(r)
    <3>1. StagedCall([q EXCEPT !.at = "stamp"])
        BY <2>0, <2>3 DEF ChecksDirectory, At, StagedCall, Idle, Calls, Evidence
    <3> QED
        BY <1>0, <2>3, <3>1, ChecksStaged DEF ChecksDirectory, GoesOn
  <2>4. CASE StampsGrant(r)
    <3>1. q.op # "execute" => StagedCall([q EXCEPT !.at = "report", !.root = 0, !.ev.grant = q.root])
        BY <2>0, <2>4 DEF StampsGrant, At, StagedCall, Idle, Calls, Evidence
    <3>2. q.op = "execute" => StagedCall([q EXCEPT !.at = IF q.resume THEN "profile" ELSE "start", !.root = 0])
        BY <2>0, <2>4 DEF StampsGrant, At, StagedCall, Idle, Calls, Evidence
    <3> QED
        BY <1>0, <2>4, <3>1, <3>2, ChecksStaged DEF StampsGrant, GoesOn
  <2>5. CASE ReadsReport(r)
    <3>1. StagedCall([q EXCEPT !.at = "inspect"])
        BY <2>0, <2>5 DEF ReadsReport, At, StagedCall, Idle, Calls, Evidence
    <3>2. StagedCall([q EXCEPT !.at = "inspect", !.ev.exe = probed])
        BY <2>0, <2>5 DEF ReadsReport, At, StagedCall, Idle, Calls, Evidence
    <3> QED
        BY <1>0, <2>5, <3>1, <3>2, ChecksStaged DEF ReadsReport, GoesOn
  <2>6. CASE Inspects(r)
    <3>1. StagedCall([q EXCEPT !.at = IF q.op = "execute" THEN "scope" ELSE IF q.resume THEN "profile" ELSE "models"])
        BY <2>0, <2>6 DEF Inspects, At, StagedCall, Idle, Calls, Evidence
    <3> QED
        BY <1>0, <2>6, <3>1, ChecksStaged DEF Inspects, GoesOn
  <2>7. CASE AsksModels(r)
    <3>1. StagedCall([q EXCEPT !.at = IF \E s \in Requests : At(s, "query") THEN "reinspect" ELSE "query"])
        BY <2>0, <2>7 DEF AsksModels, At, StagedCall, Idle, Calls, Evidence
    <3> QED
        BY <1>0, <2>7, <3>1, GoesStaged, ReturnsStaged DEF AsksModels, GoesOn
  <2>8. CASE ModelsAnswer(r)
    <3>1. StagedCall([q EXCEPT !.at = "reinspect"])
        BY <2>0, <2>8 DEF ModelsAnswer, At, StagedCall, Idle, Calls, Evidence
    <3> QED
        BY <1>0, <2>8, <3>1, GoesStaged, ReturnsStaged DEF ModelsAnswer, GoesOn
  <2>9. CASE Reinspects(r)
    <3>1. StagedCall([q EXCEPT !.at = "store"])
        BY <2>0, <2>9 DEF Reinspects, At, StagedCall, Idle, Calls, Evidence
    <3> QED
        BY <1>0, <2>9, <3>1, ChecksStaged DEF Reinspects, GoesOn
  <2>10. CASE ReadsProfile(r)
    <3>1. StagedCall([q EXCEPT !.at = "lease", !.bound = binding])
        BY <2>0, <2>10 DEF ReadsProfile, At, StagedCall, Idle, Calls, Evidence
    <3> QED
        BY <1>0, <2>10, <3>1, GoesStaged, ReturnsStaged DEF ReadsProfile, GoesOn
  <2>11. CASE TakesLease(r)
    <3>1. StagedCall([q EXCEPT !.at = IF q.op = "scan" THEN "list" ELSE "read"])
        BY <2>0, <2>11 DEF TakesLease, At, StagedCall, Idle, Calls, Evidence
    <3> QED
        BY <1>0, <2>11, <3>1, GoesStaged, ReturnsStaged DEF TakesLease, GoesOn
  <2>12. CASE ReadsSession(r)
    <3>1. StagedCall([q EXCEPT !.at = "verify", !.read = file[q.bound.profile]])
        BY <2>0, <2>12 DEF ReadsSession, At, StagedCall, Idle, Calls, Evidence
    <3> QED
        BY <1>0, <2>12, <3>1, ChecksStaged DEF ReadsSession, GoesOn
  <2>13. CASE VerifiesScope(r)
    <3>1. StagedCall([q EXCEPT !.bound = None, !.read = None, !.ev.session = q.read,
                               !.at = IF q.op = "execute" THEN "start" ELSE "models"])
        BY <2>0, <2>13 DEF VerifiesScope, At, StagedCall, Idle, Calls, Evidence
    <3> QED
        BY <1>0, <2>13, <3>1, ChecksStaged DEF VerifiesScope, GoesOn
  <2>14. CASE ListsSessions(r)
    <3>1. StagedCall([q EXCEPT !.at = "persist", !.read = file[q.bound.profile]])
        BY <2>0, <2>14 DEF ListsSessions, At, StagedCall, Idle, Calls, Evidence
    <3> QED
        BY <1>0, <2>14, <3>1, ChecksStaged DEF ListsSessions, GoesOn
  <2>15. CASE Consumes(r)
    <3>1. StagedCall([q EXCEPT !.at = "report", !.ev = plans[q.plan].ev, !.resume = plans[q.plan].ev.session # None])
        BY <2>0, <2>15 DEF Consumes, At, StagedCall, Idle, Calls, Evidence
    <3> QED
        BY <1>0, <2>15, <3>1, GoesStaged, ReturnsStaged DEF Consumes, GoesOn
  <2>16. CASE Begins(r)
    <3>1. PICK e \in 1..binding.revision :
            \/ \E resume \in BOOLEAN :
                  GoesOn(r, [Idle EXCEPT !.op = "prepare", !.at = "scope", !.resume = resume,
                                         !.ev = Seen(e)])
            \/ GoesOn(r, [Idle EXCEPT !.op = "update", !.at = "scope", !.ev = Seen(e)])
            \/ GoesOn(r, [Idle EXCEPT !.op = "scan", !.at = "profile"])
            \/ \E p \in PlanIds :
                  GoesOn(r, [Idle EXCEPT !.op = "execute", !.at = "consume", !.plan = p])
        BY <2>16 DEF Begins
    <3>2. e # 0
        BY <1>0 DEF TypeOK, Bindings
    <3>3. /\ \A resume \in BOOLEAN :
               StagedCall([Idle EXCEPT !.op = "prepare", !.at = "scope", !.resume = resume,
                                       !.ev = Seen(e)])
          /\ StagedCall([Idle EXCEPT !.op = "update", !.at = "scope", !.ev = Seen(e)])
          /\ StagedCall([Idle EXCEPT !.op = "scan", !.at = "profile"])
          /\ \A p \in PlanIds :
               StagedCall([Idle EXCEPT !.op = "execute", !.at = "consume", !.plan = p])
        BY <3>2 DEF StagedCall, Idle, Seen, NoEvidence
    <3> QED
        BY <1>0, <3>1, <3>3, GoesStaged DEF GoesOn
  <2>17. CASE UpdatesBinding(r) \/ PersistsIndex(r) \/ StoresPlan(r) \/ Starts(r) \/ Fails(r)
      BY <1>0, <2>17, ReturnsStaged DEF UpdatesBinding, PersistsIndex, StoresPlan, Starts, Fails
  <2> QED
      BY <2>1, <2>2, <2>3, <2>4, <2>5, <2>6, <2>7, <2>8, <2>9, <2>10, <2>11,
         <2>12, <2>13, <2>14, <2>15, <2>16, <2>17
      DEF Steps1, Proceeds, Project, Installed, Session, Plan
<1>b. CASE \/ \E p \in PlanIds : Expires(p)
           \/ Regrants \/ Probes \/ FilesChange \/ UNCHANGED vars
    BY <1>0, <1>b DEF Expires, Regrants, Probes, FilesChange, vars, Staged
<1> QED
    BY <1>a, <1>b DEF Next, Steps1

-------------------------------------------------------------------------------
(* A plan starts once, and what was shown. *)

(* A call goes on with the plan it executes and its evidence, or returns. *)
Follows(q, next) ==
    \/ next = Idle
    \/ /\ next.op = q.op /\ next.plan = q.plan
       /\ q.op = "execute" => /\ q.at # "consume" /\ next.at # "consume"
                              /\ next.ev = q.ev /\ next.resume = q.resume

Quiet(r) ==
    /\ UNCHANGED <<plans, shown, starts>>
    /\ Follows(req[r], req'[r])
    /\ \A s \in Requests \ {r} : req'[s] = req[s]

LEMMA QuietKeeps ==
    ASSUME Sound, NEW r \in Requests, Quiet(r)
    PROVE  Once' /\ Carried'
<1>1. Idle.op = "none" /\ "none" # "execute"
    BY DEF Idle
<1>2. Once'
    BY <1>1 DEF Sound, Quiet, Follows, Once, Staged, StagedCall, Executing, Spent, Known
<1>3. Carried'
    BY <1>1 DEF Sound, Quiet, Follows, Carried, Executing, Known
<1> QED
    BY <1>2, <1>3

LEMMA QuietReturns ==
    ASSUME TypeOK, NEW r \in Requests, Returns(r), UNCHANGED <<plans, shown, starts>>
    PROVE  Quiet(r)
BY ReturnsLeaves DEF Quiet, Follows

LEMMA QuietGoes ==
    ASSUME TypeOK, NEW r \in Requests, NEW next, Follows(req[r], next), Goes(r, next),
           UNCHANGED <<plans, shown, starts>>
    PROVE  Quiet(r)
BY DEF TypeOK, Goes, Quiet

LEMMA QuietChecks ==
    ASSUME TypeOK, NEW r \in Requests, NEW condition, NEW next,
           condition => Follows(req[r], next), Checks(r, condition, next),
           UNCHANGED <<plans, shown, starts>>
    PROVE  Quiet(r)
BY QuietReturns, QuietGoes DEF Checks, GoesOn

LEMMA QuietSteps ==
    ASSUME Sound, NEW r \in Requests, Proceeds(r) \/ Fails(r),
           ~Consumes(r), ~StoresPlan(r), ~Starts(r)
    PROVE  Quiet(r)
<1> DEFINE q == req[r]
<1>0. TypeOK /\ q \in Calls /\ StagedCall(q)
    BY DEF Sound, TypeOK, Staged
<1>1. CASE TakesScope(r)
  <2>1. Follows(q, [q EXCEPT !.at = IF q.op = "update" THEN "write" ELSE "load"])
      BY <1>0, <1>1 DEF TakesScope, At, StagedCall, Follows, Calls, Evidence
  <2> QED
      BY <1>0, <1>1, <2>1, QuietGoes, QuietReturns DEF TakesScope, GoesOn
<1>2. CASE LoadsProject(r)
  <2>1. Follows(q, [q EXCEPT !.at = "directory", !.root = grant])
      BY <1>0, <1>2 DEF LoadsProject, At, StagedCall, Follows, Calls, Evidence
  <2> QED
      BY <1>0, <1>2, <2>1, QuietChecks DEF LoadsProject
<1>3. CASE ChecksDirectory(r)
  <2>1. Follows(q, [q EXCEPT !.at = "stamp"])
      BY <1>0, <1>3 DEF ChecksDirectory, At, StagedCall, Follows, Calls, Evidence
  <2> QED
      BY <1>0, <1>3, <2>1, QuietChecks DEF ChecksDirectory
<1>4. CASE StampsGrant(r)
  <2>1. q.op # "execute" => Follows(q, [q EXCEPT !.at = "report", !.root = 0, !.ev.grant = q.root])
      BY <1>0, <1>4 DEF StampsGrant, At, StagedCall, Follows, Calls, Evidence
  <2>2. q.op = "execute" => Follows(q, [q EXCEPT !.at = IF q.resume THEN "profile" ELSE "start", !.root = 0])
      BY <1>0, <1>4 DEF StampsGrant, At, StagedCall, Follows, Calls, Evidence
  <2> QED
      BY <1>0, <1>4, <2>1, <2>2, QuietChecks DEF StampsGrant
<1>5. CASE ReadsReport(r)
  <2>1. Follows(q, [q EXCEPT !.at = "inspect"])
      BY <1>0, <1>5 DEF ReadsReport, At, StagedCall, Follows, Calls, Evidence
  <2>2. q.op # "execute" => Follows(q, [q EXCEPT !.at = "inspect", !.ev.exe = probed])
      BY <1>0, <1>5 DEF ReadsReport, At, StagedCall, Follows, Calls, Evidence
  <2> QED
      BY <1>0, <1>5, <2>1, <2>2, QuietChecks DEF ReadsReport
<1>6. CASE Inspects(r)
  <2>1. Follows(q, [q EXCEPT !.at = IF q.op = "execute" THEN "scope" ELSE IF q.resume THEN "profile" ELSE "models"])
      BY <1>0, <1>6 DEF Inspects, At, StagedCall, Follows, Calls, Evidence
  <2> QED
      BY <1>0, <1>6, <2>1, QuietChecks DEF Inspects
<1>7. CASE AsksModels(r)
  <2>1. Follows(q, [q EXCEPT !.at = IF \E s \in Requests : At(s, "query") THEN "reinspect" ELSE "query"])
      BY <1>0, <1>7 DEF AsksModels, At, StagedCall, Follows, Calls, Evidence
  <2> QED
      BY <1>0, <1>7, <2>1, QuietGoes, QuietReturns DEF AsksModels, GoesOn
<1>8. CASE ModelsAnswer(r)
  <2>1. Follows(q, [q EXCEPT !.at = "reinspect"])
      BY <1>0, <1>8 DEF ModelsAnswer, At, StagedCall, Follows, Calls, Evidence
  <2> QED
      BY <1>0, <1>8, <2>1, QuietGoes, QuietReturns DEF ModelsAnswer, GoesOn
<1>9. CASE Reinspects(r)
  <2>1. Follows(q, [q EXCEPT !.at = "store"])
      BY <1>0, <1>9 DEF Reinspects, At, StagedCall, Follows, Calls, Evidence
  <2> QED
      BY <1>0, <1>9, <2>1, QuietChecks DEF Reinspects
<1>10. CASE ReadsProfile(r)
  <2>1. Follows(q, [q EXCEPT !.at = "lease", !.bound = binding])
      BY <1>0, <1>10 DEF ReadsProfile, At, StagedCall, Follows, Calls, Evidence
  <2> QED
      BY <1>0, <1>10, <2>1, QuietGoes, QuietReturns DEF ReadsProfile, GoesOn
<1>11. CASE TakesLease(r)
  <2>1. Follows(q, [q EXCEPT !.at = IF q.op = "scan" THEN "list" ELSE "read"])
      BY <1>0, <1>11 DEF TakesLease, At, StagedCall, Follows, Calls, Evidence
  <2> QED
      BY <1>0, <1>11, <2>1, QuietGoes, QuietReturns DEF TakesLease, GoesOn
<1>12. CASE ReadsSession(r)
  <2>1. Follows(q, [q EXCEPT !.at = "verify", !.read = file[q.bound.profile]])
      BY <1>0, <1>12 DEF ReadsSession, At, StagedCall, Follows, Calls, Evidence
  <2> QED
      BY <1>0, <1>12, <2>1, QuietChecks DEF ReadsSession
<1>13. CASE VerifiesScope(r)
  <2>1. (q.op = "execute" => q.read = q.ev.session) =>
          Follows(q, [q EXCEPT !.bound = None, !.read = None, !.ev.session = q.read,
                               !.at = IF q.op = "execute" THEN "start" ELSE "models"])
      BY <1>0, <1>13 DEF VerifiesScope, At, StagedCall, Follows, Calls, Evidence
  <2> QED
      BY <1>0, <1>13, <2>1, QuietChecks DEF VerifiesScope
<1>14. CASE ListsSessions(r)
  <2>1. Follows(q, [q EXCEPT !.at = "persist", !.read = file[q.bound.profile]])
      BY <1>0, <1>14 DEF ListsSessions, At, StagedCall, Follows, Calls, Evidence
  <2> QED
      BY <1>0, <1>14, <2>1, QuietChecks DEF ListsSessions
<1>15. CASE UpdatesBinding(r) \/ PersistsIndex(r) \/ Fails(r)
    BY <1>0, <1>15, QuietReturns DEF UpdatesBinding, PersistsIndex, Fails
<1> QED
    BY <1>1, <1>2, <1>3, <1>4, <1>5, <1>6, <1>7, <1>8,
       <1>9, <1>10, <1>11, <1>12, <1>13, <1>14, <1>15
    DEF Proceeds, Project, Installed, Session, Plan

(* A call that begins is at its consume step, of a plan that was shown, or is no *)
(* execution.                                                                    *)
LEMMA OpensKeeps ==
    ASSUME Sound, NEW r \in Requests, NEW next, GoesOn(r, next),
           next.op = "execute" => next.at = "consume" /\ shown[next.plan] # NoEvidence,
           UNCHANGED <<plans, shown, starts>>
    PROVE  Once' /\ Carried'
<1>1. /\ \A s \in Requests \ {r} : req'[s] = req[s]
      /\ req'[r].op = "execute" => req'[r].at = "consume" /\ shown[req'[r].plan] # NoEvidence
    BY GoesOnLeaves DEF Sound
<1>2. Once'
    BY <1>1 DEF Sound, Once, Executing, Spent, Known
<1>3. Carried'
    BY <1>1 DEF Sound, Carried, Executing, Known
<1> QED
    BY <1>2, <1>3

LEMMA BeginsKeeps ==
    ASSUME Sound, NEW r \in Requests, Begins(r)
    PROVE  Once' /\ Carried'
<1>1. UNCHANGED <<plans, shown, starts>>
    BY DEF Begins
<1>2. PICK e \in 1..binding.revision :
        \/ \E resume \in BOOLEAN :
              GoesOn(r, [Idle EXCEPT !.op = "prepare", !.at = "scope", !.resume = resume,
                                     !.ev = Seen(e)])
        \/ GoesOn(r, [Idle EXCEPT !.op = "update", !.at = "scope", !.ev = Seen(e)])
        \/ GoesOn(r, [Idle EXCEPT !.op = "scan", !.at = "profile"])
        \/ \E p \in PlanIds :
              /\ shown[p] # NoEvidence
              /\ GoesOn(r, [Idle EXCEPT !.op = "execute", !.at = "consume", !.plan = p])
    BY DEF Begins
<1>3. /\ \A resume \in BOOLEAN :
           [Idle EXCEPT !.op = "prepare", !.at = "scope", !.resume = resume,
                        !.ev = Seen(e)].op # "execute"
      /\ [Idle EXCEPT !.op = "update", !.at = "scope", !.ev = Seen(e)].op # "execute"
      /\ [Idle EXCEPT !.op = "scan", !.at = "profile"].op # "execute"
      /\ \A p \in PlanIds :
           /\ [Idle EXCEPT !.op = "execute", !.at = "consume", !.plan = p].at = "consume"
           /\ [Idle EXCEPT !.op = "execute", !.at = "consume", !.plan = p].plan = p
    BY DEF Idle
<1> QED
    BY <1>1, <1>2, <1>3, OpensKeeps

LEMMA StoresPlanKeeps ==
    ASSUME Sound, NEW r \in Requests, StoresPlan(r)
    PROVE  Once' /\ Carried'
<1>1. TypeOK /\ starts' = starts /\ StagedCall(req[r]) /\ req[r].at = "store"
    BY DEF Sound, Staged, StoresPlan, At
<1>2. /\ \A s \in Requests \ {r} : req'[s] = req[s]
      /\ req'[r] = Idle /\ Idle.op = "none"
    BY <1>1, ReturnsLeaves DEF StoresPlan, Idle
<1>3. \A s \in Requests : /\ Executing(s)' => s # r /\ Executing(s)
                          /\ req'[s].op = "execute" => s # r /\ req[s].op = "execute"
    BY <1>2 DEF Executing
<1>4. \A p \in Kept : p \in Known
    BY DEF Kept
<1>5. CASE Full \/ Fresh = {}
  <2>1. plans' = [p \in Kept |-> plans[p]] /\ shown' = shown
      BY <1>5 DEF StoresPlan
  <2>2. /\ Known' = Kept
        /\ \A p \in Kept : plans'[p] = plans[p]
      BY <2>1 DEF Known
  <2>3. Once'
      BY <1>1, <1>2, <1>3, <1>4, <2>1, <2>2 DEF Sound, Once, Spent
  <2>4. Carried'
      BY <1>2, <1>3, <1>4, <2>1, <2>2 DEF Sound, Carried
  <2> QED
      BY <2>3, <2>4
<1>6. CASE ~(Full \/ Fresh = {})
  <2>1. PICK new \in Fresh :
          /\ shown' = [shown EXCEPT ![new] = req[r].ev]
          /\ plans' = [p \in Kept \cup {new} |->
                         IF p = new THEN [state |-> "prepared", expired |-> FALSE,
                                          ev |-> req[r].ev]
                         ELSE plans[p]]
      BY <1>6 DEF StoresPlan
  <2>2. /\ Known' = Kept \cup {new}
        /\ plans'[new].ev = req[r].ev
        /\ \A p \in Kept \ {new} : plans'[p] = plans[p]
      BY <2>1 DEF Known
  <2>3. /\ new \in PlanIds /\ shown[new] = NoEvidence /\ new \notin Known
        /\ \A s \in Requests : req[s].op = "execute" => req[s].plan # new
      BY DEF Fresh, Sound, Once
  <2>4. shown'[new] = req[r].ev /\ \A p \in PlanIds \ {new} : shown'[p] = shown[p]
      BY <1>1, <2>1, <2>3 DEF TypeOK
  <2>5. req[r].ev # NoEvidence
      BY <1>1 DEF StagedCall, NoEvidence
  <2>6. \A s \in Requests : req[s].op = "execute" => req[s].plan \in PlanIds \ {new}
      BY <2>3 DEF Sound, Staged, StagedCall
  <2>7. starts[new] = 0
      BY <1>1, <2>3 DEF Sound, Once, TypeOK
  <2>8. Known \subseteq PlanIds
      BY <1>1 DEF TypeOK
  <2>9. \A p \in PlanIds \ {new} : Spent(p) => Spent(p)'
      BY <1>4, <2>2 DEF Spent
  <2>10. Once'
      <3>1. \A p \in PlanIds : /\ starts'[p] <= 1
                               /\ starts'[p] # 0 => Spent(p)' /\ shown'[p] # NoEvidence
          BY <1>1, <2>4, <2>7, <2>9 DEF Sound, Once
      <3>2. \A p \in Known' : shown'[p] # NoEvidence
          BY <1>4, <2>2, <2>4, <2>5, <2>8 DEF Sound, Once
      <3>3. \A s \in Requests : req'[s].op = "execute" => shown'[req'[s].plan] # NoEvidence
          BY <1>2, <1>3, <2>4, <2>6 DEF Sound, Once
      <3>4. \A s \in Requests : Executing(s)' =>
                starts'[req'[s].plan] = 0 /\ Spent(req[s].plan)'
        <4> SUFFICES ASSUME NEW s \in Requests, Executing(s)'
                     PROVE  starts'[req'[s].plan] = 0 /\ Spent(req[s].plan)'
            OBVIOUS
        <4>1. Executing(s) /\ req'[s] = req[s] /\ req[s].plan \in PlanIds \ {new}
            BY <1>2, <1>3, <2>6 DEF Executing
        <4>2. starts[req[s].plan] = 0 /\ Spent(req[s].plan)
            BY <4>1 DEF Sound, Once
        <4> QED
            BY <1>1, <1>4, <2>2, <4>1, <4>2 DEF Spent
      <3>5. \A s, t \in Requests : (Executing(s) /\ Executing(t))' /\ s # t =>
                req'[s].plan # req'[t].plan
          BY <1>2, <1>3 DEF Sound, Once
      <3> QED
          BY <3>1, <3>2, <3>3, <3>4, <3>5 DEF Once
  <2>11. Carried'
    <3>1. \A p \in Known' : plans'[p].ev = shown'[p]
        BY <1>4, <2>2, <2>4, <2>8 DEF Sound, Carried
    <3>2. \A s \in Requests : Executing(s)' =>
              /\ req'[s].ev = shown'[req'[s].plan]
              /\ req'[s].resume = (req'[s].ev.session # None)
        BY <1>2, <1>3, <2>4, <2>6 DEF Sound, Carried, Executing
    <3> QED
        BY <3>1, <3>2 DEF Carried
  <2> QED
      BY <2>10, <2>11
<1> QED
    BY <1>5, <1>6

LEMMA StartsKeeps ==
    ASSUME Sound, NEW r \in Requests, Starts(r)
    PROVE  Once' /\ Carried'
<1>1. TypeOK /\ UNCHANGED <<plans, shown>> /\ Executing(r) /\ req[r].plan \in PlanIds
    BY DEF Sound, Staged, StagedCall, Starts, At, Executing
<1>2. /\ \A s \in Requests \ {r} : req'[s] = req[s]
      /\ req'[r] = Idle /\ Idle.op = "none"
    BY <1>1, ReturnsLeaves DEF Starts, Idle
<1>3. starts[req[r].plan] = 0 /\ Spent(req[r].plan) /\ shown[req[r].plan] # NoEvidence
    BY <1>1 DEF Sound, Once, Executing
<1>4. /\ starts'[req[r].plan] \in {0, 1}
      /\ \A p \in PlanIds \ {req[r].plan} : starts'[p] = starts[p]
    BY <1>1, <1>3 DEF Starts, TypeOK
<1>5. \A s \in Requests : /\ Executing(s)' => s # r /\ Executing(s)
                          /\ req'[s].op = "execute" => s # r /\ req[s].op = "execute"
    BY <1>2 DEF Executing
<1>6. \A s \in Requests : Executing(s)' => req[s].plan \in PlanIds \ {req[r].plan}
    BY <1>1, <1>5 DEF Sound, Once, Staged, StagedCall, Executing
<1>7. Once'
  <2>1. \A p \in PlanIds : /\ starts'[p] <= 1
                           /\ starts'[p] # 0 => Spent(p)' /\ shown'[p] # NoEvidence
      BY <1>1, <1>3, <1>4 DEF Sound, Once, Spent, Known
  <2>2. \A s \in Requests : Executing(s)' => starts'[req'[s].plan] = 0 /\ Spent(req[s].plan)'
      BY <1>1, <1>2, <1>4, <1>5, <1>6 DEF Sound, Once, Spent, Known
  <2> QED
      BY <1>1, <1>2, <1>5, <2>1, <2>2 DEF Sound, Once, Known
<1>8. Carried'
    BY <1>1, <1>2, <1>5 DEF Sound, Carried, Known
<1> QED
    BY <1>7, <1>8

LEMMA ConsumesKeeps ==
    ASSUME Sound, NEW r \in Requests, Consumes(r)
    PROVE  Once' /\ Carried'
<1> DEFINE own == req[r].plan
<1>1. /\ TypeOK /\ UNCHANGED <<shown, starts>>
      /\ req[r].op = "execute" /\ own \in PlanIds /\ shown[own] # NoEvidence
    BY DEF Sound, Staged, StagedCall, Once, Consumes, At
<1>2. /\ Known' = Known
      /\ \A p \in Known : plans'[p].ev = plans[p].ev
      /\ \A p \in Known : plans[p].state = "consumed" => plans'[p].state = "consumed"
      /\ own \in Known => plans'[own].state = "consumed"
    BY <1>1 DEF Consumes, Known, TypeOK
<1>3. /\ \A s \in Requests \ {r} : req'[s] = req[s]
      /\ \/ req'[r] = Idle
         \/ /\ Executable(own)
            /\ req'[r] = [req[r] EXCEPT !.at = "report", !.ev = plans[own].ev,
                                        !.resume = plans[own].ev.session # None]
    BY <1>1, ReturnsLeaves, GoesOnLeaves DEF Consumes
<1>4. /\ Idle.op = "none"
      /\ req'[r].op = "execute" => req'[r].plan = own /\ Executable(own)
                                   /\ req'[r].ev = plans[own].ev
                                   /\ req'[r].resume = (plans[own].ev.session # None)
  <2>1. req[r] \in Calls /\ Idle.op = "none"
      BY <1>1 DEF TypeOK, Idle
  <2> QED
      BY <1>1, <1>3, <2>1 DEF Calls
<1>5. Executable(own) => ~Spent(own) /\ own \in Known
    BY DEF Executable, Spent
<1>6. \A p : Spent(p) => Spent(p)'
    BY <1>2 DEF Spent
<1>7. \A s \in Requests : Executing(s)' =>
          \/ s # r /\ Executing(s) /\ req'[s] = req[s]
          \/ s = r /\ req'[r].op = "execute"
    BY <1>3 DEF Executing
<1>8. Once'
  <2>1. \A p \in PlanIds : /\ starts'[p] <= 1
                           /\ starts'[p] # 0 => Spent(p)' /\ shown'[p] # NoEvidence
      BY <1>1, <1>6 DEF Sound, Once
  <2>2. \A s \in Requests : req'[s].op = "execute" => shown'[req'[s].plan] # NoEvidence
      BY <1>1, <1>3, <1>4 DEF Sound, Once
  <2>3. \A s \in Requests : Executing(s)' => starts'[req'[s].plan] = 0 /\ Spent(req[s].plan)'
    <3>1. Executing(r)' => starts[own] = 0 /\ Spent(own)' /\ req'[r].plan = own
        BY <1>1, <1>2, <1>4, <1>5, <1>7 DEF Sound, Once, Spent
    <3> QED
        BY <1>1, <1>6, <1>7, <3>1 DEF Sound, Once
  <2>4. \A s, t \in Requests : (Executing(s) /\ Executing(t))' /\ s # t =>
            req'[s].plan # req'[t].plan
    <3>1. \A s \in Requests \ {r} : Executing(s) /\ Executing(r)' => req[s].plan # own
        BY <1>4, <1>5, <1>7 DEF Sound, Once
    <3> QED
        BY <1>4, <1>7, <3>1 DEF Sound, Once
  <2>5. \A p \in Known' : shown'[p] # NoEvidence
      BY <1>1, <1>2 DEF Sound, Once
  <2> QED
      BY <2>1, <2>2, <2>3, <2>4, <2>5 DEF Once
<1>9. Carried'
  <2>1. \A p \in Known' : plans'[p].ev = shown'[p]
      BY <1>1, <1>2 DEF Sound, Carried
  <2>2. Executing(r)' => /\ req'[r].ev = shown'[req'[r].plan]
                         /\ req'[r].resume = (req'[r].ev.session # None)
      BY <1>1, <1>4, <1>5, <1>7 DEF Sound, Carried
  <2> QED
      BY <1>1, <1>7, <2>1, <2>2 DEF Sound, Carried
<1> QED
    BY <1>8, <1>9

LEMMA OnceKept == Sound /\ [Next]_vars => Once' /\ Carried'
<1> SUFFICES ASSUME Sound, [Next]_vars PROVE Once' /\ Carried'
    OBVIOUS
<1>1. ASSUME NEW r \in Requests, Steps1(r) PROVE Once' /\ Carried'
    BY <1>1, BeginsKeeps, StoresPlanKeeps, StartsKeeps, ConsumesKeeps, QuietSteps, QuietKeeps
    DEF Steps1
<1>2. ASSUME NEW p \in PlanIds, Expires(p) PROVE Once' /\ Carried'
  <2>1. /\ UNCHANGED <<req, shown, starts>> /\ Known' = Known
        /\ \A k \in Known : plans'[k].ev = plans[k].ev /\ plans'[k].state = plans[k].state
      BY <1>2 DEF Expires, Known, Sound, TypeOK
  <2>2. Once'
      BY <2>1 DEF Sound, Once, Executing, Spent
  <2>3. Carried'
      BY <2>1 DEF Sound, Carried, Executing
  <2> QED
      BY <2>2, <2>3
<1>3. CASE Regrants \/ Probes \/ FilesChange \/ UNCHANGED vars
  <2>1. UNCHANGED <<req, plans, shown, starts>>
      BY <1>3 DEF Regrants, Probes, FilesChange, vars
  <2> QED
      BY <2>1 DEF Sound, Once, Carried, Executing, Spent, Known
<1> QED
    BY <1>1, <1>2, <1>3 DEF Next, Steps1

-------------------------------------------------------------------------------
(* What the leases protect stays as it was checked. *)

LEMMA OthersGuarded ==
    ASSUME Sound, NEW r \in Requests, NEW s \in Requests \ {r},
           req'[s] = req[s], scope = s => scope' = s,
           \A p \in Profiles : lease[p] = s => lease'[p] = s,
           binding' = binding \/ scope = r,
           \A p \in Profiles : row'[p] = row[p] \/ lease[p] = r
    PROVE  GuardedCall(s, req[s])'
<1>1. GuardedCall(s, req[s]) /\ StagedCall(req[s]) /\ binding.profile \in Profiles
    BY DEF Sound, Guarded, Staged, TypeOK, Bindings
<1>2. \A q : q.bound \in Bindings => q.bound.profile \in Profiles
    BY DEF Bindings
<1>3. req[s].op = "execute" /\ req[s].at \in Bound => scope = s /\ binding' = binding
    BY <1>1 DEF GuardedCall
<1>4. req[s].at = "start" => req[s].op = "execute" /\ req[s].at \in Bound
    BY <1>1 DEF StagedCall, Bound
<1> QED
    BY <1>1, <1>2, <1>3, <1>4 DEF GuardedCall

LEMMA IdleIsGuarded ==
    ASSUME NEW r \in Requests, req'[r] = Idle
    PROVE  GuardedCall(r, req[r])'
BY DEF GuardedCall, Idle, Bound

LEMMA ReturnsGuarded ==
    ASSUME Sound, NEW r \in Requests, Returns(r),
           binding' = binding \/ scope = r,
           \A p \in Profiles : row'[p] = row[p] \/ lease[p] = r
    PROVE  Guarded'
<1>1. TypeOK
    BY DEF Sound
<1> QED
    BY <1>1, ReturnsLeaves, OthersGuarded, IdleIsGuarded DEF Guarded

LEMMA GoesGuarded ==
    ASSUME Sound, NEW r \in Requests, NEW next, GoesOn(r, next), GuardedCall(r, next),
           UNCHANGED database
    PROVE  Guarded'
<1>1. TypeOK /\ binding' = binding /\ row' = row
    BY DEF Sound, database
<1>2. req'[r] = next /\ scope' = scope /\ lease' = lease
    BY <1>1, GoesOnLeaves
<1>3. GuardedCall(r, req[r])'
    BY <1>1, <1>2 DEF GuardedCall
<1>4. \A s \in Requests \ {r} : GuardedCall(s, req[s])'
    BY <1>1, <1>2, GoesOnLeaves, OthersGuarded
<1> QED
    BY <1>3, <1>4 DEF Guarded

LEMMA ChecksGuarded ==
    ASSUME Sound, NEW r \in Requests, NEW condition, NEW next,
           condition => GuardedCall(r, next), Checks(r, condition, next), UNCHANGED database
    PROVE  Guarded'
<1>1. binding' = binding /\ row' = row
    BY DEF database
<1> QED
    BY <1>1, ReturnsGuarded, GoesGuarded DEF Checks

LEMMA GuardedKept == Sound /\ [Next]_vars => Guarded'
<1> SUFFICES ASSUME Sound, [Next]_vars PROVE Guarded'
    OBVIOUS
<1>0. TypeOK /\ Guarded
    BY DEF Sound
<1>a. CASE \E r \in Requests : Steps1(r)
  <2> PICK r \in Requests : Steps1(r)
      BY <1>a
  <2> DEFINE q == req[r]
  <2>0. q \in Calls /\ StagedCall(q) /\ GuardedCall(r, q) /\ TypeOK
      BY <1>0 DEF TypeOK, Sound, Staged, Guarded
  <2>z. q.op = "execute" /\ q.at # "consume" => q.resume = (q.ev.session # None)
      BY DEF Sound, Carried, Executing
  <2>1. CASE LoadsProject(r)
    <3>1. binding.revision = q.ev.revision =>
               GuardedCall(r, [q EXCEPT !.at = "directory", !.root = grant])
        BY <2>0, <2>1 DEF LoadsProject, At, StagedCall, GuardedCall, Bound, Calls, TypeOK
    <3> QED
        BY <2>1, <3>1, ChecksGuarded DEF LoadsProject
  <2>2. CASE ChecksDirectory(r)
    <3>1. GuardedCall(r, [q EXCEPT !.at = "stamp"])
        BY <2>0, <2>2 DEF ChecksDirectory, At, StagedCall, GuardedCall, Bound, Calls, TypeOK
    <3> QED
        BY <2>2, <3>1, ChecksGuarded DEF ChecksDirectory
  <2>3. CASE StampsGrant(r)
    <3>1. q.op # "execute" => GuardedCall(r, [q EXCEPT !.at = "report", !.root = 0, !.ev.grant = q.root])
        BY <2>0, <2>3 DEF StampsGrant, At, StagedCall, GuardedCall, Bound, Calls, TypeOK
    <3>2. q.op = "execute" => GuardedCall(r, [q EXCEPT !.at = IF q.resume THEN "profile" ELSE "start", !.root = 0])
        BY <2>0, <2>3, <2>z DEF StampsGrant, At, StagedCall, GuardedCall, Bound, Calls, TypeOK
    <3> QED
        BY <2>3, <3>1, <3>2, ChecksGuarded DEF StampsGrant
  <2>4. CASE ReadsReport(r)
    <3>1. GuardedCall(r, [q EXCEPT !.at = "inspect"])
        BY <2>0, <2>4 DEF ReadsReport, At, StagedCall, GuardedCall, Bound, Calls, TypeOK
    <3>2. GuardedCall(r, [q EXCEPT !.at = "inspect", !.ev.exe = probed])
        BY <2>0, <2>4 DEF ReadsReport, At, StagedCall, GuardedCall, Bound, Calls, TypeOK
    <3> QED
        BY <2>4, <3>1, <3>2, ChecksGuarded DEF ReadsReport
  <2>5. CASE Inspects(r)
    <3>1. GuardedCall(r, [q EXCEPT !.at = IF q.op = "execute" THEN "scope" ELSE IF q.resume THEN "profile" ELSE "models"])
        BY <2>0, <2>5 DEF Inspects, At, StagedCall, GuardedCall, Bound, Calls, TypeOK
    <3> QED
        BY <2>5, <3>1, ChecksGuarded DEF Inspects
  <2>6. CASE AsksModels(r)
    <3>1. GuardedCall(r, [q EXCEPT !.at = IF \E s \in Requests : At(s, "query") THEN "reinspect" ELSE "query"])
        BY <2>0, <2>6 DEF AsksModels, At, StagedCall, GuardedCall, Bound, Calls, TypeOK
    <3> QED
        BY <2>6, <3>1, GoesGuarded, ReturnsGuarded DEF AsksModels
  <2>7. CASE ModelsAnswer(r)
    <3>1. GuardedCall(r, [q EXCEPT !.at = "reinspect"])
        BY <2>0, <2>7 DEF ModelsAnswer, At, StagedCall, GuardedCall, Bound, Calls, TypeOK
    <3> QED
        BY <2>7, <3>1, GoesGuarded, ReturnsGuarded DEF ModelsAnswer
  <2>8. CASE Reinspects(r)
    <3>1. GuardedCall(r, [q EXCEPT !.at = "store"])
        BY <2>0, <2>8 DEF Reinspects, At, StagedCall, GuardedCall, Bound, Calls, TypeOK
    <3> QED
        BY <2>8, <3>1, ChecksGuarded DEF Reinspects
  <2>9. CASE ReadsProfile(r)
    <3>1. GuardedCall(r, [q EXCEPT !.at = "lease", !.bound = binding])
        BY <2>0, <2>9 DEF ReadsProfile, At, StagedCall, GuardedCall, Bound, Calls, TypeOK
    <3> QED
        BY <2>9, <3>1, GoesGuarded, ReturnsGuarded DEF ReadsProfile
  <2>10. CASE ReadsSession(r)
    <3>1. q.at = "read" /\ q.bound \in Bindings /\ q.bound.profile \in Profiles
        BY <2>0, <2>10 DEF ReadsSession, At, GuardedCall, Bindings
    <3>2. file[q.bound.profile] \in Sessions
        BY <2>0, <3>1 DEF TypeOK
    <3>3. GuardedCall(r, [q EXCEPT !.at = "verify", !.read = file[q.bound.profile]])
        BY <2>0, <3>1, <3>2 DEF StagedCall, GuardedCall, Bound, Calls
    <3> QED
        BY <2>10, <3>3, ChecksGuarded DEF ReadsSession
  <2>11. CASE VerifiesScope(r)
    <3> DEFINE next == [q EXCEPT !.bound = None, !.read = None, !.ev.session = q.read,
                                 !.at = IF q.op = "execute" THEN "start" ELSE "models"]
               condition == /\ binding = q.bound /\ row[q.bound.profile] = q.read.id
                            /\ q.op = "execute" => q.read = q.ev.session
    <3>1. /\ q.at = "verify" /\ q.bound \in Bindings /\ q.read \in Sessions
          /\ lease[q.bound.profile] = r
          /\ q.op = "execute" => scope = r /\ binding.revision = q.ev.revision
        BY <2>0, <2>11 DEF VerifiesScope, At, GuardedCall, Bound
    <3>2. /\ next.at = IF q.op = "execute" THEN "start" ELSE "models"
          /\ next.op = q.op /\ next.ev.revision = q.ev.revision /\ next.ev.session = q.read
        BY <2>0 DEF Calls, Evidence
    <3>3. condition => GuardedCall(r, next)
      <4> HIDE DEF next
      <4> QED
          BY <3>1, <3>2 DEF GuardedCall
    <3>4. Checks(r, condition, next) /\ UNCHANGED database
        BY <2>11 DEF VerifiesScope
    <3> QED
        BY <3>3, <3>4, ChecksGuarded
  <2>12. CASE ListsSessions(r)
    <3>1. /\ q.at = "list" /\ q.op = "scan" /\ q.bound \in Bindings /\ q.bound.profile \in Profiles
          /\ lease[q.bound.profile] = r
        BY <2>0, <2>12 DEF ListsSessions, At, StagedCall, GuardedCall, Bindings
    <3>2. file[q.bound.profile] \in Sessions
        BY <2>0, <3>1 DEF TypeOK
    <3>3. GuardedCall(r, [q EXCEPT !.at = "persist", !.read = file[q.bound.profile]])
        BY <2>0, <3>1, <3>2 DEF GuardedCall, Bound, Calls
    <3> QED
        BY <2>12, <3>3, ChecksGuarded DEF ListsSessions
  <2>13. CASE Consumes(r)
    <3>1. GuardedCall(r, [q EXCEPT !.at = "report", !.ev = plans[q.plan].ev, !.resume = plans[q.plan].ev.session # None])
        BY <2>0, <2>13 DEF Consumes, At, StagedCall, GuardedCall, Bound, Calls, TypeOK
    <3> QED
        BY <2>0, <2>13, <3>1, GoesGuarded, ReturnsGuarded DEF Consumes, database
  <2>14. CASE Begins(r)
    <3>1. PICK e \in 1..binding.revision :
            \/ \E resume \in BOOLEAN :
                  GoesOn(r, [Idle EXCEPT !.op = "prepare", !.at = "scope", !.resume = resume,
                                         !.ev = Seen(e)])
            \/ GoesOn(r, [Idle EXCEPT !.op = "update", !.at = "scope", !.ev = Seen(e)])
            \/ GoesOn(r, [Idle EXCEPT !.op = "scan", !.at = "profile"])
            \/ \E p \in PlanIds :
                  GoesOn(r, [Idle EXCEPT !.op = "execute", !.at = "consume", !.plan = p])
        BY <2>14 DEF Begins
    <3>2. /\ \A resume \in BOOLEAN :
               GuardedCall(r, [Idle EXCEPT !.op = "prepare", !.at = "scope", !.resume = resume,
                                           !.ev = Seen(e)])
          /\ GuardedCall(r, [Idle EXCEPT !.op = "update", !.at = "scope", !.ev = Seen(e)])
          /\ GuardedCall(r, [Idle EXCEPT !.op = "scan", !.at = "profile"])
          /\ \A p \in PlanIds :
               GuardedCall(r, [Idle EXCEPT !.op = "execute", !.at = "consume", !.plan = p])
        BY DEF GuardedCall, Idle, Bound
    <3>3. UNCHANGED database
        BY <2>14 DEF Begins
    <3> QED
        BY <3>1, <3>2, <3>3, GoesGuarded
  <2>15. CASE TakesScope(r)
    <3>0. UNCHANGED <<binding, row>>
        BY <2>15 DEF TakesScope, database
    <3>1. CASE scope = None
      <4>1. /\ req' = [req EXCEPT ![r] = [q EXCEPT !.at = IF q.op = "update" THEN "write"
                                                         ELSE "load"]]
            /\ scope' = r /\ lease' = lease /\ q.at = "scope"
          BY <2>15, <3>1 DEF TakesScope, Goes, At
      <4>2. \A s \in Requests \ {r} : req'[s] = req[s] /\ scope # s
          BY <2>0, <3>1, <4>1, LaunchPlansAssumption DEF TypeOK
      <4>3. req'[r].at \in {"write", "load"} /\ req'[r].op = q.op
          BY <2>0, <4>1 DEF TypeOK, Calls
      <4>4. GuardedCall(r, req[r])'
          BY <4>1, <4>3 DEF GuardedCall, Bound
      <4>5. \A s \in Requests \ {r} : GuardedCall(s, req[s])'
          BY <3>0, <4>1, <4>2, OthersGuarded
      <4> QED
          BY <4>4, <4>5 DEF Guarded
    <3>2. CASE scope # None
        BY <2>15, <3>0, <3>2, ReturnsGuarded DEF TakesScope
    <3> QED
        BY <3>1, <3>2
  <2>16. CASE TakesLease(r)
    <3>0. UNCHANGED <<binding, row>> /\ q.at = "lease" /\ q.bound \in Bindings
        BY <2>0, <2>16 DEF TakesLease, database, At, GuardedCall
    <3>1. CASE lease[q.bound.profile] = None
      <4>1. /\ req' = [req EXCEPT ![r] = [q EXCEPT !.at = IF q.op = "scan" THEN "list"
                                                         ELSE "read"]]
            /\ lease' = [lease EXCEPT ![q.bound.profile] = r] /\ scope' = scope
          BY <2>16, <3>1 DEF TakesLease, Goes
      <4>2. \A s \in Requests \ {r} :
              req'[s] = req[s] /\ \A p \in Profiles : lease[p] = s => lease'[p] = s
          BY <2>0, <3>1, <4>1, LaunchPlansAssumption DEF TypeOK
      <4>3. /\ req'[r].at = IF q.op = "scan" THEN "list" ELSE "read"
            /\ req'[r].op = q.op /\ req'[r].ev = q.ev /\ req'[r].bound = q.bound
            /\ lease'[q.bound.profile] = r
          BY <2>0, <3>0, <4>1 DEF TypeOK, Calls, Bindings
      <4>4. GuardedCall(r, req[r])'
          BY <2>0, <3>0, <4>1, <4>3 DEF GuardedCall, Bound
      <4>5. \A s \in Requests \ {r} : GuardedCall(s, req[s])'
          BY <3>0, <4>1, <4>2, OthersGuarded
      <4> QED
          BY <4>4, <4>5 DEF Guarded
    <3>2. CASE lease[q.bound.profile] # None
        BY <2>16, <3>0, <3>2, ReturnsGuarded DEF TakesLease
    <3> QED
        BY <3>1, <3>2
  <2>17. CASE UpdatesBinding(r)
    <3>1. scope = r /\ row' = row
        BY <2>0, <2>17 DEF UpdatesBinding, At, GuardedCall
    <3> QED
        BY <2>17, <3>1, ReturnsGuarded DEF UpdatesBinding
  <2>18. CASE PersistsIndex(r)
    <3>1. lease[q.bound.profile] = r /\ binding' = binding
        BY <2>0, <2>18 DEF PersistsIndex, At, GuardedCall
    <3>2. \A p \in Profiles : row'[p] = row[p] \/ lease[p] = r
        BY <2>0, <2>18, <3>1 DEF PersistsIndex, TypeOK
    <3> QED
        BY <2>18, <3>1, <3>2, ReturnsGuarded DEF PersistsIndex
  <2>19. CASE StoresPlan(r) \/ Starts(r) \/ Fails(r)
      BY <2>19, ReturnsGuarded DEF StoresPlan, Starts, Fails, database
  <2> QED
      BY <2>1, <2>2, <2>3, <2>4, <2>5, <2>6, <2>7, <2>8, <2>9, <2>10, <2>11,
         <2>12, <2>13, <2>14, <2>15, <2>16, <2>17, <2>18, <2>19
      DEF Steps1, Proceeds, Project, Installed, Session, Plan
<1>b. CASE \/ \E p \in PlanIds : Expires(p)
           \/ Regrants \/ Probes \/ FilesChange \/ UNCHANGED vars
  <2>1. UNCHANGED <<binding, row, leases, req>>
      BY <1>b DEF Expires, Regrants, Probes, FilesChange, vars, database
  <2> QED
      BY <1>0, <2>1 DEF Guarded, GuardedCall, leases
<1> QED
    BY <1>a, <1>b DEF Next, Steps1

-------------------------------------------------------------------------------
(* The theorems *)

LEMMA InitSound == Init => Sound
<1> SUFFICES ASSUME Init PROVE Sound
    OBVIOUS
<1> USE LaunchPlansAssumption
<1>1. Known = {} /\ IsFiniteSet(Known) /\ Cardinality(Known) = 0
    BY FS_EmptySet DEF Init, Known
<1>2. NoEvidence \in Evidence
    BY DEF NoEvidence, Evidence
<1>3. TypeOK
    BY <1>1, <1>2, IdleTypes DEF Init, TypeOK, Bounded, Bindings, Sessions
<1>4. Staged
    BY IdleIsStaged DEF Init, Staged
<1>5. \A r \in Requests : req[r].op = "none" /\ req[r].at = "idle"
    BY DEF Init, Idle
<1>6. Once
    BY <1>1, <1>5 DEF Init, Once, Executing
<1>7. Carried
    BY <1>1, <1>5 DEF Carried, Executing
<1>8. Guarded
    BY <1>5 DEF Guarded, GuardedCall, Bound
<1> QED
    BY <1>3, <1>4, <1>6, <1>7, <1>8 DEF Sound

(* The inductive invariant of the launch service. *)
THEOREM LaunchSound == Spec => []Sound
<1>1. Sound /\ [Next]_vars => Sound'
    BY TypesKept, StagedKept, OnceKept, GuardedKept DEF Sound
<1> QED
    BY InitSound, <1>1, PTL DEF Spec

(* Every variable keeps its type, and the plan registry its capacity of        *)
(* MAXIMUM_PLANS, whichever way prepare, execute and the deadlines interleave. *)
THEOREM LaunchTypes == Spec => []TypeOK
<1>1. Sound => TypeOK
    BY DEF Sound
<1> QED
    BY LaunchSound, <1>1, PTL

(* "Double clicks and IPC replay cannot start a second process": whatever is *)
(* executed concurrently, no plan starts two.                                *)
THEOREM LaunchStartsOnce == Spec => []StartsOnce
<1>1. Sound => StartsOnce
    BY DEF Sound, Once, StartsOnce
<1> QED
    BY LaunchSound, <1>1, PTL

(* What a step that starts a process finds is what the plan was shown with. *)
LEMMA StartIsAsShown ==
    ASSUME Sound, NEW r \in Requests, Starts(r), NEW p \in PlanIds, starts'[p] # starts[p]
    PROVE  /\ exe = shown[p].exe
           /\ binding.revision = shown[p].revision
           /\ shown[p].session # None => row[binding.profile] = shown[p].session.id
<1>1. p = req[r].plan /\ exe = req[r].ev.exe
    BY DEF Starts, Sound, TypeOK
<1>2. req[r].at = "start" /\ req[r].op = "execute" /\ GuardedCall(r, req[r])
    BY DEF Starts, At, Sound, Staged, StagedCall, Guarded
<1>3. req[r].ev = shown[p]
    BY <1>1, <1>2 DEF Sound, Carried, Executing
<1> QED
    BY <1>1, <1>2, <1>3 DEF GuardedCall, Bound

(* No other step starts one. *)
LEMMA OnlyStartsStarts ==
    ASSUME Sound, [Next]_vars, \A r \in Requests : ~Starts(r)
    PROVE  starts' = starts
<1>1. ASSUME NEW r \in Requests, Steps1(r) PROVE starts' = starts
  <2>1. CASE Begins(r) \/ StoresPlan(r) \/ Consumes(r)
      BY <2>1 DEF Begins, StoresPlan, Consumes
  <2>2. CASE ~(Begins(r) \/ StoresPlan(r) \/ Consumes(r))
    <3>1. Quiet(r)
        BY <1>1, <2>2, QuietSteps DEF Steps1
    <3> QED
        BY <3>1 DEF Quiet
  <2> QED
      BY <2>1, <2>2
<1>2. CASE \/ \E p \in PlanIds : Expires(p)
           \/ Regrants \/ Probes \/ FilesChange \/ UNCHANGED vars
    BY <1>2 DEF Expires, Regrants, Probes, FilesChange, vars
<1> QED
    BY <1>1, <1>2 DEF Next, Steps1

(* A plan starts what it was shown with: nothing the manager itself does comes *)
(* between the checks of an execution and its start.                           *)
THEOREM LaunchStartsAsShown == Spec => StartsAsShown
<1> DEFINE AsShown == \A p \in PlanIds : starts'[p] # starts[p] =>
                         /\ exe = shown[p].exe
                         /\ binding.revision = shown[p].revision
                         /\ shown[p].session # None => row[binding.profile] = shown[p].session.id
<1>1. Sound /\ [Next]_vars => AsShown
    BY StartIsAsShown, OnlyStartsStarts
<1>2. Sound /\ [Next]_vars => [AsShown]_vars
    BY <1>1
<1>3. []Sound /\ [][Next]_vars => [][AsShown]_vars
    BY <1>2, PTL
<1> QED
    BY LaunchSound, <1>3 DEF Spec, StartsAsShown
===============================================================================
