-------------------------- MODULE SessionIndexProofs --------------------------
(***************************************************************************)
(* What the session index shows, for any tree of projects and roots and    *)
(* any number of calls.  Only a call that holds a Profile's guard changes  *)
(* the Profile's mapping, the identity granted to its root and its rows;   *)
(* roots of two Profiles do not overlap.  So what a call has loaded of its *)
(* Profile is still true when it writes or hands out, and what it reads it *)
(* reads below the identity it has loaded.                                 *)
(***************************************************************************)
EXTENDS SessionIndex, TLAPS

(* A Profile's guard is held by one call at a time, from its first step to its last. *)
Guarded ==
    /\ \A c \in Calls : ~At(c, "idle") => call[c].profile \in active
    /\ \A c, d \in Calls :
          ~At(c, "idle") /\ ~At(d, "idle") /\ call[c].profile = call[d].profile => c = d

(* The roots of two Profiles do not overlap. *)
Apart ==
    \A a, b \in Profiles :
        a # b /\ mapping[a] # None /\ mapping[b] # None => ~Overlap(mapping[a], mapping[b])

(* What a call has loaded of its Profile's root is what the database has. *)
Loaded(c) ==
    /\ At(c, "grant") => call[c].root \in Roots
    /\ call[c].pc \in {"list", "read", "open", "owner", "verify", "delivered"} =>
          /\ call[c].root \in Roots
          /\ mapping[call[c].profile] = call[c].root
          /\ grant[call[c].root].id = call[c].id

(* A scan's records were read in the directory with the identity it has loaded. *)
Records(c) ==
    /\ call[c].pc \in {"picker", "grant", "context", "list"} =>
          \A f \in Files : call[c].records[f] = NoFile
    /\ At(c, "read") =>
          /\ call[c].todo \subseteq Under[call[c].root]
          /\ \A f \in Files : call[c].records[f] # NoFile =>
                f \in Under[call[c].root] /\ call[c].records[f][1] = call[c].id

(* So was what a preview shows, and it is the row's until the call returns. *)
Shown(c) ==
    /\ call[c].pc \in {"open", "owner", "verify", "delivered"} => call[c].file \in Files
    /\ call[c].pc \in {"owner", "verify", "delivered"} =>
          call[c].read[1] = call[c].id /\ call[c].read = call[c].source
    /\ At(c, "delivered") =>
          LET old == row[call[c].profile][call[c].file]
          IN  old.source = call[c].read /\ old.project = call[c].project

Working(c) == Loaded(c) /\ Records(c) /\ Shown(c)

IInv == TypeOK /\ Guarded /\ Apart /\ FreshIsAuthorized /\ \A c \in Calls : Working(c)

-------------------------------------------------------------------------------
LEMMA Constants ==
    /\ First \in Projects /\ MaxChanges \in Nat
    /\ None \notin Roots /\ None \notin Profiles /\ None \notin Files /\ None \notin Projects
    /\ \A r \in Roots : r \in Below[r] /\ Below[r] \subseteq Roots /\ Under[r] \subseteq Files
                       /\ Reach[r] \subseteq Under[r]
    /\ \A q, r \in Roots : ~Overlap(q, r) => Under[q] \cap Under[r] = {}
BY SessionIndexAssumption DEF Overlap

LEMMA IdleIsTyped == NoCall \in CallRecord /\ NoCall.pc = "idle"
<1>1. NoFile \in Nat \X Nat /\ [f \in Files |-> NoFile] \in [Files -> Nat \X Nat]
    BY DEF NoFile
<1> QED
    BY <1>1 DEF NoCall, CallRecord, CallSteps

LEMMA InitHolds == Init => IInv
<1> SUFFICES ASSUME Init PROVE IInv
    OBVIOUS
<1>1. \A c \in Calls : call[c] = NoCall /\ At(c, "idle")
    BY IdleIsTyped DEF Init, At
<1>2. TypeOK
  <2>1. binding \in [Projects -> [profile : Profiles, revision : Nat]]
      BY DEF Init
  <2>2. mapping \in [Profiles -> Roots \cup {None}]
      BY DEF Init
  <2>3. grant \in [Roots -> [id : Nat, status : {"none", "active", "offline", "replaced"}]]
      BY DEF Init, NoGrant
  <2>4. row \in [Profiles -> [Files -> [project : Projects \cup {None}, source : Nat \X Nat,
                                         freshness : Freshness]]]
      BY DEF Init, NoRow, NoFile, Freshness
  <2>5. /\ dir \in [Roots -> Nat] /\ file \in [Files -> Nat] /\ active \subseteq Profiles
        /\ steady \in [Calls -> SUBSET Files] /\ changes \in 0 .. MaxChanges
      BY Constants DEF Init
  <2>6. call \in [Calls -> CallRecord]
      BY IdleIsTyped DEF Init
  <2> QED
      BY <1>1, <2>1, <2>2, <2>3, <2>4, <2>5, <2>6 DEF TypeOK
<1>3. Guarded
    BY <1>1 DEF Guarded
<1>4. Apart
    BY DEF Init, Apart
<1>5. FreshIsAuthorized
  <2>1. \A a \in Profiles, f \in Files : row[a][f].freshness = "none"
      BY DEF Init, NoRow
  <2> QED
      BY <2>1 DEF FreshIsAuthorized
<1>6. \A c \in Calls : Working(c)
    BY <1>1, IdleIsTyped DEF At, Working, Loaded, Records, Shown
<1> QED
    BY <1>2, <1>3, <1>4, <1>5, <1>6 DEF IInv

(* A call whose Profile's data do not change stays as it is. *)
LEMMA WorkingKept ==
    ASSUME IInv, NEW d \in Calls, call'[d] = call[d],
           ~At(d, "idle") =>
               /\ mapping'[call[d].profile] = mapping[call[d].profile]
               /\ row'[call[d].profile] = row[call[d].profile],
           ~At(d, "idle") /\ mapping[call[d].profile] \in Roots =>
               grant'[mapping[call[d].profile]].id = grant[mapping[call[d].profile]].id
    PROVE  Working(d)'
<1>1. Working(d)
    BY DEF IInv
<1>2. Records(d)'
    BY <1>1 DEF Working, Records, At
<1>3. Loaded(d)'
    BY <1>1 DEF Working, Loaded, At
<1>4. Shown(d)'
    BY <1>1 DEF Working, Shown, At
<1> QED
    BY <1>2, <1>3, <1>4 DEF Working

(* Rows that stay fresh are authorized while the mappings and identities stay. *)
LEMMA FreshKept ==
    ASSUME IInv, UNCHANGED <<mapping, row>>,
           \A r \in Roots : grant'[r].id = grant[r].id
    PROVE  FreshIsAuthorized' /\ Apart'
<1>1. Apart'
    BY DEF IInv, Apart
<1>2. ASSUME NEW a \in Profiles, NEW f \in Files, row[a][f].freshness = "fresh"
      PROVE  /\ mapping'[a] # None /\ f \in Under[mapping'[a]]
             /\ row'[a][f].source[1] = grant'[mapping'[a]].id
  <2>1. /\ mapping[a] # None /\ f \in Under[mapping[a]] /\ mapping[a] \in Roots
        /\ row[a][f].source[1] = grant[mapping[a]].id
      BY <1>2 DEF IInv, FreshIsAuthorized, TypeOK
  <2> QED
      BY <2>1
<1> QED
    BY <1>1, <1>2 DEF FreshIsAuthorized

GrantTyped == grant \in [Roots -> [id : Nat, status : {"none", "active", "offline", "replaced"}]]

(* A call that goes on under its guard, and changes at most a status. *)
LEMMA GoesOn ==
    ASSUME IInv, NEW c \in Calls, ~At(c, "idle"),
           UNCHANGED <<binding, mapping, row, active, world, changes>>,
           GrantTyped', \A r \in Roots : grant'[r].id = grant[r].id,
           call' \in [Calls -> CallRecord], \A d \in Calls : d # c => call'[d] = call[d],
           call'[c].pc # "idle",
           call'[c].profile = call[c].profile, call'[c].project = call[c].project,
           steady' \in [Calls -> SUBSET Files],
           Working(c)'
    PROVE  IInv'
<1>2. \A d \in Calls : /\ call'[d].profile = call[d].profile
                       /\ call'[d].project = call[d].project
                       /\ At(d, "idle")' = At(d, "idle")
    BY DEF At
<1>3. TypeOK'
    BY <1>2 DEF IInv, TypeOK, GrantTyped, world
<1>4. Guarded'
    BY <1>2 DEF IInv, Guarded
<1>5. ASSUME NEW d \in Calls PROVE Working(d)'
  <2>1. CASE d = c
      BY <2>1
  <2>2. CASE d # c
      BY <2>2, WorkingKept
  <2> QED
      BY <2>1, <2>2
<1> QED
    BY <1>3, <1>4, <1>5, FreshKept DEF IInv

(* A call that returns drops its guard, and changes at most a status. *)
LEMMA ReturnKeeps ==
    ASSUME IInv, NEW c \in Calls, ~At(c, "idle"), Return(c),
           UNCHANGED <<binding, mapping, row, world, changes>>,
           GrantTyped', \A r \in Roots : grant'[r].id = grant[r].id
    PROVE  IInv'
<1>1. /\ call' \in [Calls -> CallRecord] /\ At(c, "idle")'
      /\ \A d \in Calls : d # c => call'[d] = call[d]
    BY IdleIsTyped DEF IInv, TypeOK, Return, At
<1>2. TypeOK'
    BY <1>1 DEF IInv, TypeOK, GrantTyped, Return, At, world
<1>3. Guarded'
  <2>1. ASSUME NEW d \in Calls, ~At(d, "idle")' PROVE d # c /\ ~At(d, "idle") /\ call'[d] = call[d]
      BY <1>1, <2>1 DEF At
  <2>2. ASSUME NEW d \in Calls, ~At(d, "idle")' PROVE call'[d].profile \in active'
      BY <2>1, <2>2 DEF IInv, Guarded, Return
  <2> QED
      BY <2>1, <2>2 DEF IInv, Guarded
<1>4. ASSUME NEW d \in Calls PROVE Working(d)'
  <2>1. CASE d = c
      BY <1>1, <2>1 DEF Working, Loaded, Records, Shown, At
  <2>2. CASE d # c
      BY <1>1, <2>2, WorkingKept
  <2> QED
      BY <2>1, <2>2
<1> QED
    BY <1>2, <1>3, <1>4, FreshKept DEF IInv

(* A call that goes on and leaves the database alone. *)
LEMMA Proceeds ==
    ASSUME IInv, NEW c \in Calls, ~At(c, "idle"),
           UNCHANGED <<database, world, active, changes>>,
           call' \in [Calls -> CallRecord], \A d \in Calls : d # c => call'[d] = call[d],
           call'[c].pc # "idle",
           call'[c].profile = call[c].profile, call'[c].project = call[c].project,
           steady' \in [Calls -> SUBSET Files],
           Working(c)'
    PROVE  IInv'
<1>1. UNCHANGED <<binding, mapping, row, grant>>
    BY DEF database
<1>2. GrantTyped' /\ \A r \in Roots : grant'[r].id = grant[r].id
    BY <1>1 DEF IInv, TypeOK, GrantTyped
<1> QED
    BY <1>1, <1>2, GoesOn

LEMMA GivesUp ==
    ASSUME IInv, NEW c \in Calls, ~At(c, "idle"), Return(c), UNCHANGED <<database, world, changes>>
    PROVE  IInv'
<1>1. UNCHANGED <<binding, mapping, row, grant>>
    BY DEF database
<1>2. GrantTyped' /\ \A r \in Roots : grant'[r].id = grant[r].id
    BY <1>1 DEF IInv, TypeOK, GrantTyped
<1> QED
    BY <1>1, <1>2, ReturnKeeps

LEMMA Marks ==
    ASSUME IInv, NEW r \in Roots, NEW id, NEW status \in {"active", "offline", "replaced"},
           Mark(r, id, status)
    PROVE  GrantTyped' /\ \A q \in Roots : grant'[q].id = grant[q].id
<1>1. grant \in [Roots -> [id : Nat, status : {"none", "active", "offline", "replaced"}]]
    BY DEF IInv, TypeOK
<1>2. grant' = [grant EXCEPT ![r] = IF grant[r].id = id THEN [grant[r] EXCEPT !.status = status]
                                    ELSE grant[r]]
    BY DEF Mark
<1> QED
    BY <1>1, <1>2 DEF GrantTyped

LEMMA RootFailureKeeps ==
    ASSUME IInv, NEW c \in Calls, ~At(c, "idle"), NEW r \in Roots, NEW id,
           RootFailure(c, r, id), UNCHANGED changes
    PROVE  IInv'
<1>1. (IF dir[r] = 0 THEN "offline" ELSE "replaced") \in {"active", "offline", "replaced"}
    OBVIOUS
<1>2. GrantTyped' /\ \A q \in Roots : grant'[q].id = grant[q].id
    BY <1>1, Marks DEF RootFailure
<1> QED
    BY <1>2, ReturnKeeps DEF RootFailure

-------------------------------------------------------------------------------
(* The steps of a call. *)

LEMMA BeginKeeps == ASSUME IInv, NEW c \in Calls, Begin(c), UNCHANGED changes PROVE IInv'
<1>0. PICK p \in Registered, kind \in {"picker", "context", "preview"} :
          \E b \in LoadedOf(p) :
              /\ b.profile \notin active
              /\ active' = active \cup {b.profile}
              /\ call' = [call EXCEPT ![c] = [NoCall EXCEPT
                            !.pc = kind, !.project = p,
                            !.profile = b.profile, !.revision = b.revision]]
    BY DEF Begin, Held
<1>1. PICK b \in LoadedOf(p) :
          /\ b.profile \notin active
          /\ active' = active \cup {b.profile}
          /\ call' = [call EXCEPT ![c] = [NoCall EXCEPT
                        !.pc = kind, !.project = p,
                        !.profile = b.profile, !.revision = b.revision]]
    BY <1>0
<1> DEFINE new == [NoCall EXCEPT !.pc = kind, !.project = p,
                      !.profile = b.profile, !.revision = b.revision]
<1>2. p \in Projects /\ b.profile \in Profiles /\ b.revision \in Nat
  <2>1. p \in Projects /\ binding[p] \in [profile : Profiles, revision : Nat]
      BY DEF Registered, IInv, TypeOK
  <2>2. b = binding[p] \/ b \in [profile : Profiles, revision : 1 .. binding[p].revision - 1]
      BY DEF LoadedOf
  <2> QED
      BY <2>1, <2>2
<1>3. /\ new \in CallRecord /\ new.pc = kind /\ new.project = p
      /\ new.profile = b.profile
      /\ \A f \in Files : new.records[f] = NoFile
  <2>1. NoCall \in CallRecord /\ \A f \in Files : NoCall.records[f] = NoFile
      BY IdleIsTyped DEF NoCall
  <2>2. kind \in CallSteps
      BY DEF CallSteps
  <2> QED
      BY <1>2, <2>1, <2>2 DEF CallRecord
<1> HIDE DEF new
<1>4. /\ call' \in [Calls -> CallRecord] /\ call'[c] = new
      /\ \A d \in Calls : d # c => call'[d] = call[d]
    BY <1>1, <1>3 DEF new, IInv, TypeOK
<1>5. UNCHANGED <<binding, mapping, grant, row, dir, file, steady, changes>>
    BY DEF Begin, database, world
<1>6. TypeOK'
    BY <1>1, <1>2, <1>3, <1>4, <1>5 DEF IInv, TypeOK, At
<1>7. Guarded'
  <2>1. ASSUME NEW d \in Calls, d # c, ~At(d, "idle")'
        PROVE  call'[d].profile \in active /\ call'[d].profile # call'[c].profile
      BY <1>1, <1>3, <1>4, <2>1 DEF IInv, Guarded, At
  <2>2. call'[c].profile \in active'
      BY <1>1, <1>3, <1>4
  <2>3. \A d, e \in Calls : d # c /\ e # c /\ ~At(d, "idle")' /\ ~At(e, "idle")'
                            /\ call'[d].profile = call'[e].profile => d = e
      BY <1>4 DEF IInv, Guarded, At
  <2> QED
      BY <1>1, <2>1, <2>2, <2>3 DEF Guarded
<1>8. ASSUME NEW d \in Calls PROVE Working(d)'
  <2>1. CASE d = c
      BY <1>3, <1>4, <2>1 DEF Working, Loaded, Records, Shown, At
  <2>2. CASE d # c
      BY <1>4, <1>5, <2>2, WorkingKept
  <2> QED
      BY <2>1, <2>2
<1>9. FreshIsAuthorized' /\ Apart'
    BY <1>5, FreshKept
<1> QED
    BY <1>6, <1>7, <1>8, <1>9 DEF IInv

LEMMA PickRootKeeps == ASSUME IInv, NEW c \in Calls, PickRoot(c), UNCHANGED changes PROVE IInv'
<1>0. ~At(c, "idle") /\ call[c].pc = "picker" /\ UNCHANGED <<database, world>>
      /\ call \in [Calls -> CallRecord]
    BY DEF PickRoot, At, IInv, TypeOK
<1>1. CASE Return(c)
    BY <1>0, <1>1, GivesUp
<1>2. ASSUME NEW r \in Roots,
             call' = [call EXCEPT ![c].pc = "grant", ![c].root = r, ![c].id = dir[r]],
             UNCHANGED <<active, steady>>
      PROVE  IInv'
  <2>1. dir[r] \in Nat
      BY DEF IInv, TypeOK
  <2>2. /\ call' \in [Calls -> CallRecord] /\ call'[c].pc = "grant" /\ call'[c].root = r
        /\ call'[c].profile = call[c].profile /\ call'[c].project = call[c].project
        /\ call'[c].records = call[c].records
        /\ \A d \in Calls : d # c => call'[d] = call[d]
    <3>1. call[c] \in CallRecord
        BY <1>0
    <3>2. [call[c] EXCEPT !.pc = "grant", !.root = r, !.id = dir[r]] \in CallRecord
        BY <2>1, <3>1 DEF CallRecord, CallSteps
    <3>3. /\ call'[c] = [call[c] EXCEPT !.pc = "grant", !.root = r, !.id = dir[r]]
          /\ \A d \in Calls : d # c => call'[d] = call[d]
          /\ call' \in [Calls -> CallRecord]
        BY <1>0, <1>2, <3>2
    <3> QED
        BY <3>1, <3>3 DEF CallRecord
  <2>3. Working(c)'
      BY <1>0, <2>2 DEF IInv, Working, Loaded, Records, Shown, At
  <2>4. steady' \in [Calls -> SUBSET Files]
      BY <1>2 DEF IInv, TypeOK
  <2> QED
      BY <1>0, <1>2, <2>2, <2>3, <2>4, Proceeds
<1> QED
    BY <1>1, <1>2 DEF PickRoot

LEMMA ScanRootKeeps == ASSUME IInv, NEW c \in Calls, ScanRoot(c), UNCHANGED changes PROVE IInv'
<1> DEFINE r == mapping[call[c].profile]
           id == grant[r].id
<1>0. /\ ~At(c, "idle") /\ call[c].pc = "context" /\ call \in [Calls -> CallRecord]
      /\ call[c].profile \in Profiles
    BY DEF ScanRoot, At, IInv, TypeOK
<1>1. CASE Return(c) /\ UNCHANGED <<database, world>>
    BY <1>0, <1>1, GivesUp
<1>2. CASE r # None /\ RootFailure(c, r, id)
  <2>1. r \in Roots
      BY <1>0, <1>2 DEF IInv, TypeOK
  <2> HIDE DEF r, id
  <2> QED
      BY <1>0, <1>2, <2>1, RootFailureKeeps
<1>3. ASSUME r # None, Mark(r, id, "active"),
             call' = [call EXCEPT ![c].pc = "list", ![c].root = r, ![c].id = id],
             steady' = [steady EXCEPT ![c] =
                          {f \in Reach[r] : file[f] # 0 /\ Owner(Registered, f) = call[c].project}],
             UNCHANGED <<binding, mapping, row, active, world>>
      PROVE  IInv'
  <2>1. r \in Roots /\ id \in Nat
      BY <1>0, <1>3 DEF IInv, TypeOK
  <2>2. GrantTyped' /\ \A q \in Roots : grant'[q].id = grant[q].id
    <3> HIDE DEF r, id
    <3> QED
        BY <1>3, <2>1, Marks
  <2>3. /\ call' \in [Calls -> CallRecord] /\ call'[c].pc = "list" /\ call'[c].root = r
        /\ call'[c].id = id
        /\ call'[c].profile = call[c].profile /\ call'[c].project = call[c].project
        /\ call'[c].records = call[c].records
        /\ \A d \in Calls : d # c => call'[d] = call[d]
    <3> HIDE DEF r, id
    <3>1. call[c] \in CallRecord
        BY <1>0
    <3>2. [call[c] EXCEPT !.pc = "list", !.root = r, !.id = id] \in CallRecord
        BY <2>1, <3>1 DEF CallRecord, CallSteps
    <3>3. /\ call'[c] = [call[c] EXCEPT !.pc = "list", !.root = r, !.id = id]
          /\ \A d \in Calls : d # c => call'[d] = call[d]
          /\ call' \in [Calls -> CallRecord]
        BY <1>0, <1>3, <3>2
    <3> QED
        BY <3>1, <3>3 DEF CallRecord
  <2>4. Working(c)'
    <3>1. Loaded(c)'
        BY <1>3, <2>1, <2>2, <2>3 DEF Loaded, At
    <3>2. \A f \in Files : call[c].records[f] = NoFile
        BY <1>0 DEF IInv, Working, Records
    <3>3. Records(c)'
        BY <2>3, <3>2 DEF Records, At
    <3>4. Shown(c)'
        BY <2>3 DEF Shown, At
    <3> QED
        BY <3>1, <3>3, <3>4 DEF Working
  <2>5. steady' \in [Calls -> SUBSET Files]
    <3> HIDE DEF r, id
    <3> DEFINE seen == {f \in Reach[r] : file[f] # 0 /\ Owner(Registered, f) = call[c].project}
    <3>1. seen \in SUBSET Files
        BY <2>1, Constants
    <3>2. steady' = [steady EXCEPT ![c] = seen]
        BY <1>3
    <3> HIDE DEF seen
    <3> QED
        BY <3>1, <3>2 DEF IInv, TypeOK
  <2> QED
      BY <1>0, <1>3, <2>2, <2>3, <2>4, <2>5, GoesOn
<1> QED
    BY <1>1, <1>2, <1>3 DEF ScanRoot

LEMMA ListFilesKeeps == ASSUME IInv, NEW c \in Calls, ListFiles(c), UNCHANGED changes PROVE IInv'
<1>0. ~At(c, "idle") /\ call[c].pc = "list" /\ call \in [Calls -> CallRecord] /\ Working(c)
    BY DEF ListFiles, At, IInv, TypeOK
<1>1. call[c].root \in Roots
    BY <1>0 DEF Working, Loaded
<1>2. CASE RootFailure(c, call[c].root, call[c].id)
    BY <1>0, <1>1, <1>2, RootFailureKeeps
<1>3. CASE Return(c) /\ UNCHANGED <<database, world>>
    BY <1>0, <1>3, GivesUp
<1>4. ASSUME NEW skipped \in SUBSET Reach[call[c].root],
             call' = [call EXCEPT ![c].pc = "read", ![c].complete = ListingIsComplete(skipped),
                         ![c].todo = {f \in Reach[call[c].root] \ skipped : file[f] # 0},
                         ![c].known = Registered],
             UNCHANGED <<active, steady, database, world>>
      PROVE  IInv'
  <2> DEFINE todo == {f \in Reach[call[c].root] \ skipped : file[f] # 0}
  <2>1. /\ todo \subseteq Under[call[c].root] /\ todo \subseteq Files
        /\ ListingIsComplete(skipped) \in BOOLEAN /\ Registered \subseteq Projects
      BY <1>1, Constants DEF ListingIsComplete, Registered
  <2> HIDE DEF todo
  <2>2. call' = [call EXCEPT ![c].pc = "read", ![c].complete = ListingIsComplete(skipped),
                    ![c].todo = todo, ![c].known = Registered]
      BY <1>4 DEF todo
  <2>3. /\ call' \in [Calls -> CallRecord]
        /\ call'[c] = [call[c] EXCEPT !.pc = "read", !.complete = ListingIsComplete(skipped),
                           !.todo = todo, !.known = Registered]
        /\ \A d \in Calls : d # c => call'[d] = call[d]
    <3>1. call[c] \in CallRecord
        BY <1>0
    <3>2. [call[c] EXCEPT !.pc = "read", !.complete = ListingIsComplete(skipped),
              !.todo = todo, !.known = Registered] \in CallRecord
      <4> DEFINE whole == ListingIsComplete(skipped)
      <4>1. whole \in BOOLEAN /\ Registered \in SUBSET Projects
          BY <2>1
      <4>2. "read" \in CallSteps
          BY DEF CallSteps
      <4> HIDE DEF whole
      <4>3. [call[c] EXCEPT !.pc = "read", !.complete = whole, !.todo = todo,
                !.known = Registered] \in CallRecord
          BY <2>1, <3>1, <4>1, <4>2 DEF CallRecord
      <4> QED
          BY <4>3 DEF whole
    <3> QED
        BY <1>0, <2>2, <3>2
  <2>4. /\ call'[c].pc = "read" /\ call'[c].root = call[c].root /\ call'[c].id = call[c].id
        /\ call'[c].todo = todo /\ call'[c].records = call[c].records
        /\ call'[c].profile = call[c].profile /\ call'[c].project = call[c].project
      BY <1>0, <2>3 DEF CallRecord
  <2>5. UNCHANGED <<mapping, grant, row>>
      BY <1>4 DEF database
  <2>6. Working(c)'
      BY <1>0, <2>1, <2>4, <2>5 DEF Working, Loaded, Records, Shown, At
  <2>7. steady' \in [Calls -> SUBSET Files]
      BY <1>4 DEF IInv, TypeOK
  <2> QED
      BY <1>0, <1>4, <2>3, <2>4, <2>6, <2>7, Proceeds
<1> QED
    BY <1>2, <1>3, <1>4 DEF ListFiles

(* A scan that stays in its loop, with records of the directory it has loaded. *)
LEMMA KeepsReading ==
    ASSUME IInv, NEW c \in Calls, At(c, "read"), NEW new \in CallRecord,
           call' = [call EXCEPT ![c] = new],
           new.pc = "read", new.root = call[c].root, new.id = call[c].id,
           new.profile = call[c].profile, new.project = call[c].project,
           new.todo \subseteq call[c].todo,
           \A f \in Files : new.records[f] # NoFile =>
               f \in Under[new.root] /\ new.records[f][1] = new.id,
           UNCHANGED <<database, world, active, steady, changes>>
    PROVE  IInv'
<1>1. /\ call' \in [Calls -> CallRecord] /\ call'[c] = new
      /\ \A d \in Calls : d # c => call'[d] = call[d]
    BY DEF IInv, TypeOK
<1>2. ~At(c, "idle") /\ call[c].pc = "read" /\ Working(c) /\ UNCHANGED <<mapping, grant>>
    BY DEF At, IInv, database
<1>3. Working(c)'
  <2>1. Loaded(c)'
      BY <1>1, <1>2 DEF Working, Loaded, At
  <2>2. Records(c)'
      BY <1>1, <1>2 DEF Working, Records, At
  <2>3. Shown(c)'
      BY <1>1 DEF Shown, At
  <2> QED
      BY <2>1, <2>2, <2>3 DEF Working
<1>4. steady' \in [Calls -> SUBSET Files]
    BY DEF IInv, TypeOK
<1> QED
    BY <1>1, <1>2, <1>3, <1>4, Proceeds

LEMMA ReadFileKeeps == ASSUME IInv, NEW c \in Calls, ReadFile(c), UNCHANGED changes PROVE IInv'
<1>0. /\ At(c, "read") /\ ~At(c, "idle") /\ call[c].pc = "read" /\ call[c] \in CallRecord
      /\ Working(c) /\ UNCHANGED <<database, world>>
    BY DEF ReadFile, At, IInv, TypeOK
<1>1. /\ call[c].root \in Roots /\ call[c].todo \subseteq Under[call[c].root]
      /\ \A f \in Files : call[c].records[f] # NoFile =>
            f \in Under[call[c].root] /\ call[c].records[f][1] = call[c].id
    BY <1>0 DEF Working, Loaded, Records
<1>2. CASE Return(c)
    BY <1>0, <1>2, GivesUp
<1>3. ASSUME NEW f \in call[c].todo PROVE f \in Files /\ f \in Under[call[c].root]
    BY <1>1, <1>3, Constants
<1>4. ASSUME NEW f \in call[c].todo, UNCHANGED <<active, steady>>,
             call' = [call EXCEPT ![c] = [[call[c] EXCEPT !.todo = @ \ {f}] EXCEPT
                                              !.complete = FALSE, !.failed = @ \cup {f}]]
      PROVE  IInv'
  <2> DEFINE done == [call[c] EXCEPT !.todo = @ \ {f}]
             new == [done EXCEPT !.complete = FALSE, !.failed = @ \cup {f}]
  <2>0. done \in CallRecord /\ done.failed = call[c].failed
      BY <1>0, <1>3 DEF CallRecord
  <2>1. new \in CallRecord
    <3> HIDE DEF done
    <3> QED
        BY <1>3, <2>0 DEF CallRecord
  <2>2. /\ new.pc = "read" /\ new.root = call[c].root /\ new.id = call[c].id
        /\ new.profile = call[c].profile /\ new.project = call[c].project
        /\ new.todo \subseteq call[c].todo /\ new.records = call[c].records
      BY <1>0 DEF CallRecord
  <2>3. call' = [call EXCEPT ![c] = new]
      BY <1>4
  <2> HIDE DEF new
  <2>4. UNCHANGED <<database, world, active, steady, changes>>
      BY <1>0, <1>4
  <2>5. \A g \in Files : new.records[g] # NoFile =>
            g \in Under[new.root] /\ new.records[g][1] = new.id
      BY <1>1, <2>2
  <2> QED
      BY <1>0, <2>1, <2>2, <2>3, <2>4, <2>5, KeepsReading
<1>5. ASSUME NEW f \in call[c].todo, UNCHANGED <<active, steady>>,
             Anchored(call[c].root, call[c].id, f) # 0,
             call' = [call EXCEPT ![c] =
                        IF Owner(call[c].known, f) = call[c].project
                          THEN [[call[c] EXCEPT !.todo = @ \ {f}] EXCEPT !.records =
                                  [@ EXCEPT ![f] = <<dir[call[c].root],
                                                     Anchored(call[c].root, call[c].id, f)>>]]
                          ELSE [call[c] EXCEPT !.todo = @ \ {f}]]
      PROVE  IInv'
  <2> DEFINE found == <<dir[call[c].root], Anchored(call[c].root, call[c].id, f)>>
             done == [call[c] EXCEPT !.todo = @ \ {f}]
             kept == [done EXCEPT !.records = [@ EXCEPT ![f] = found]]
             new == IF Owner(call[c].known, f) = call[c].project THEN kept ELSE done
  <2>1. /\ found \in Nat \X Nat /\ found[1] = call[c].id
      BY <1>1, <1>3, <1>5 DEF Anchored, RootOpens, IInv, TypeOK
  <2>2. call' = [call EXCEPT ![c] = new]
      BY <1>5
  <2> HIDE DEF found
  <2>3. /\ done \in CallRecord /\ done.pc = "read" /\ done.root = call[c].root
        /\ done.id = call[c].id /\ done.records = call[c].records
        /\ done.profile = call[c].profile /\ done.project = call[c].project
        /\ done.todo \subseteq call[c].todo
      BY <1>0 DEF CallRecord
  <2> HIDE DEF done
  <2>4. /\ kept \in CallRecord /\ kept.pc = "read" /\ kept.root = call[c].root
        /\ kept.id = call[c].id /\ kept.records = [call[c].records EXCEPT ![f] = found]
        /\ kept.profile = call[c].profile /\ kept.project = call[c].project
        /\ kept.todo \subseteq call[c].todo
      BY <2>1, <2>3, <1>3 DEF CallRecord
  <2> HIDE DEF kept
  <2>5. /\ new \in CallRecord /\ new.pc = "read" /\ new.root = call[c].root
        /\ new.id = call[c].id
        /\ new.profile = call[c].profile /\ new.project = call[c].project
        /\ new.todo \subseteq call[c].todo
      BY <2>3, <2>4
  <2>6. \A g \in Files : new.records[g] # NoFile =>
            g \in Under[call[c].root] /\ new.records[g][1] = call[c].id
    <3>1. call[c].records \in [Files -> Nat \X Nat]
        BY <1>0 DEF CallRecord
    <3> QED
        BY <1>1, <1>3, <2>1, <2>3, <2>4, <3>1
  <2> HIDE DEF new
  <2>7. UNCHANGED <<database, world, active, steady, changes>>
      BY <1>0, <1>5
  <2>8. \A g \in Files : new.records[g] # NoFile =>
            g \in Under[new.root] /\ new.records[g][1] = new.id
      BY <2>5, <2>6
  <2> QED
      BY <1>0, <2>2, <2>5, <2>7, <2>8, KeepsReading
<1> QED
    BY <1>0, <1>2, <1>4, <1>5 DEF ReadFile

(* A call that changes what only its own Profile has. *)
LEMMA OthersKept ==
    ASSUME IInv, NEW c \in Calls, ~At(c, "idle"), NEW d \in Calls, d # c, call'[d] = call[d],
           \A b \in Profiles \ {call[c].profile} :
               /\ mapping'[b] = mapping[b] /\ row'[b] = row[b]
               /\ mapping[b] \in Roots => grant'[mapping[b]].id = grant[mapping[b]].id
    PROVE  Working(d)'
<1>1. CASE At(d, "idle")
    BY <1>1, WorkingKept
<1>2. CASE ~At(d, "idle")
  <2>1. call[d].profile \in Profiles \ {call[c].profile}
      BY <1>2 DEF IInv, TypeOK, Guarded
  <2> QED
      BY <1>2, <2>1, WorkingKept
<1> QED
    BY <1>1, <1>2

RowRecord == [project : Projects \cup {None}, source : Nat \X Nat, freshness : Freshness]

LEMMA IndexedRows ==
    ASSUME IInv, NEW c \in Calls, At(c, "read")
    PROVE  /\ Indexed(c) \in [Files -> RowRecord]
           /\ \A f \in Files : Indexed(c)[f].freshness = "fresh" =>
                 \/ call[c].records[f] # NoFile /\ Indexed(c)[f].source = call[c].records[f]
                 \/ call[c].records[f] = NoFile /\ Indexed(c)[f] = row[call[c].profile][f]
<1> DEFINE a == call[c].profile
           p == call[c].project
<1>1. a \in Profiles /\ p \in Projects /\ call[c].records \in [Files -> Nat \X Nat]
    BY DEF IInv, TypeOK, At, CallRecord
<1>2. \A f \in Files : row[a][f] \in RowRecord
    BY <1>1 DEF IInv, TypeOK, RowRecord
<1>3. ASSUME NEW f \in Files
      PROVE  /\ Indexed(c)[f] \in RowRecord
             /\ Indexed(c)[f].freshness = "fresh" =>
                 \/ call[c].records[f] # NoFile /\ Indexed(c)[f].source = call[c].records[f]
                 \/ call[c].records[f] = NoFile /\ Indexed(c)[f] = row[a][f]
  <2> DEFINE old == row[a][f]
             aged == IF call[c].complete THEN "missing" ELSE "stale"
  <2>0. /\ NoRow \in RowRecord /\ NoRow.freshness = "none" /\ old \in RowRecord
        /\ aged \in {"missing", "stale"}
      BY <1>2 DEF NoRow, NoFile, RowRecord, Freshness
  <2>1. CASE call[c].records[f] # NoFile
    <3>1. Indexed(c)[f] = [project |-> p, source |-> call[c].records[f], freshness |-> "fresh"]
        BY <2>1 DEF Indexed
    <3> QED
        BY <1>1, <2>1, <3>1 DEF RowRecord, Freshness
  <2>2. CASE call[c].records[f] = NoFile
    <3>1. \/ Indexed(c)[f] = NoRow
          \/ Indexed(c)[f] = [old EXCEPT !.freshness = "failed"]
          \/ Indexed(c)[f] = [old EXCEPT !.freshness = aged]
          \/ Indexed(c)[f] = old
        BY <2>2 DEF Indexed
    <3> HIDE DEF old, aged
    <3>2. /\ [old EXCEPT !.freshness = "failed"] \in RowRecord
          /\ [old EXCEPT !.freshness = "failed"].freshness = "failed"
          /\ [old EXCEPT !.freshness = aged] \in RowRecord
          /\ [old EXCEPT !.freshness = aged].freshness = aged
        BY <2>0 DEF RowRecord, Freshness
    <3>3. Indexed(c)[f] \in RowRecord /\ (Indexed(c)[f].freshness = "fresh" => Indexed(c)[f] = old)
        BY <2>0, <3>1, <3>2
    <3> QED
        BY <2>2, <3>3 DEF old
  <2> QED
      BY <2>1, <2>2
<1> QED
    BY <1>3 DEF Indexed

LEMMA FinishScanKeeps == ASSUME IInv, NEW c \in Calls, FinishScan(c), UNCHANGED changes PROVE IInv'
<1> DEFINE a == call[c].profile
<1>0. /\ At(c, "read") /\ ~At(c, "idle") /\ call[c].root \in Roots /\ a \in Profiles
      /\ mapping[a] = call[c].root /\ grant[call[c].root].id = call[c].id
      /\ \A f \in Files : call[c].records[f] # NoFile =>
            f \in Under[call[c].root] /\ call[c].records[f][1] = call[c].id
    BY DEF FinishScan, At, IInv, TypeOK, Working, Loaded, Records
<1>1. CASE RootFailure(c, call[c].root, call[c].id)
    BY <1>0, <1>1, RootFailureKeeps
<1>2. CASE Return(c) /\ row' = row /\ UNCHANGED <<binding, mapping, grant, world>>
    BY <1>0, <1>2, GivesUp DEF database
<1>3. CASE /\ Return(c) /\ row' = [row EXCEPT ![a] = Indexed(c)]
           /\ UNCHANGED <<binding, mapping, grant, world>>
  <2>1. /\ call' \in [Calls -> CallRecord] /\ At(c, "idle")'
        /\ \A d \in Calls : d # c => call'[d] = call[d]
      BY <1>3, IdleIsTyped DEF IInv, TypeOK, Return, At
  <2>2. /\ row \in [Profiles -> [Files -> RowRecord]] /\ row' \in [Profiles -> [Files -> RowRecord]]
        /\ row'[a] = Indexed(c) /\ \A b \in Profiles \ {a} : row'[b] = row[b]
      BY <1>0, <1>3, IndexedRows DEF IInv, TypeOK, RowRecord
  <2>3. TypeOK'
    <3>1. \A d \in Calls : ~At(d, "idle")' =>
             call'[d].project \in Projects /\ call'[d].profile \in Profiles
        BY <2>1 DEF IInv, TypeOK, At
    <3>2. active' \subseteq Profiles /\ steady' \in [Calls -> SUBSET Files]
        BY <1>3 DEF IInv, TypeOK, Return
    <3> QED
        BY <1>3, <2>1, <2>2, <3>1, <3>2 DEF IInv, TypeOK, RowRecord, world
  <2>4. Guarded'
    <3>1. ASSUME NEW d \in Calls, ~At(d, "idle")' PROVE d # c /\ ~At(d, "idle") /\ call'[d] = call[d]
        BY <2>1, <3>1 DEF At
    <3>2. ASSUME NEW d \in Calls, ~At(d, "idle")' PROVE call'[d].profile \in active'
        BY <1>0, <1>3, <3>1, <3>2 DEF IInv, Guarded, Return
    <3> QED
        BY <3>1, <3>2 DEF IInv, Guarded
  <2>5. Apart'
      BY <1>3 DEF IInv, Apart
  <2>6. ASSUME NEW b \in Profiles, NEW f \in Files, row'[b][f].freshness = "fresh"
        PROVE  /\ mapping[b] # None /\ f \in Under[mapping[b]]
               /\ row'[b][f].source[1] = grant[mapping[b]].id
    <3>1. CASE row'[b][f] = row[b][f]
        BY <2>6, <3>1 DEF IInv, FreshIsAuthorized
    <3>2. CASE b = a /\ call[c].records[f] # NoFile /\ row'[b][f].source = call[c].records[f]
        BY <1>0, <3>2, Constants
    <3> QED
        BY <1>0, <2>2, <2>6, <3>1, <3>2, IndexedRows
  <2>7. FreshIsAuthorized'
      BY <1>3, <2>6 DEF FreshIsAuthorized
  <2>8. ASSUME NEW d \in Calls PROVE Working(d)'
    <3>1. CASE d = c
        BY <2>1, <3>1 DEF Working, Loaded, Records, Shown, At
    <3>2. CASE d # c
        BY <1>0, <1>3, <2>1, <2>2, <3>2, OthersKept
    <3> QED
        BY <3>1, <3>2
  <2> QED
      BY <2>3, <2>4, <2>5, <2>7, <2>8 DEF IInv
<1> QED
    BY <1>1, <1>2, <1>3 DEF FinishScan

LEMMA PersistRootKeeps == ASSUME IInv, NEW c \in Calls, PersistRoot(c), UNCHANGED changes PROVE IInv'
<1> DEFINE a == call[c].profile
           r == call[c].root
<1>0. /\ At(c, "grant") /\ ~At(c, "idle") /\ call[c].pc = "grant" /\ a \in Profiles /\ r \in Roots
      /\ call[c] \in CallRecord /\ UNCHANGED <<binding, world>> /\ Working(c)
    BY DEF PersistRoot, At, IInv, TypeOK, Working, Loaded
<1>1. CASE Return(c) /\ UNCHANGED <<mapping, grant, row>>
    BY <1>0, <1>1, GivesUp DEF database
<1>2. ASSUME \A b \in Profiles \ {a} : mapping[b] = None \/ ~Overlap(mapping[b], r),
             grant' = [q \in Roots |-> IF q = r THEN [id |-> call[c].id, status |-> "active"]
                                       ELSE IF q = mapping[a] THEN NoGrant ELSE grant[q]],
             mapping' = [mapping EXCEPT ![a] = r],
             row' = [row EXCEPT ![a] = [f \in Files |->
                       IF @[f] = NoRow THEN NoRow ELSE [@[f] EXCEPT !.freshness = "stale"]]],
             Goto(c, "context")
      PROVE  IInv'
  <2> DEFINE aged == [f \in Files |-> IF row[a][f] = NoRow THEN NoRow
                                      ELSE [row[a][f] EXCEPT !.freshness = "stale"]]
  <2>1. /\ call' \in [Calls -> CallRecord] /\ call'[c].pc = "context"
        /\ call'[c].records = call[c].records
        /\ call'[c].profile = a /\ call'[c].project = call[c].project
        /\ \A d \in Calls : d # c => call'[d] = call[d]
    <3>1. [call[c] EXCEPT !.pc = "context"] \in CallRecord
        BY <1>0 DEF CallRecord, CallSteps
    <3>2. call' = [call EXCEPT ![c] = [call[c] EXCEPT !.pc = "context"]]
        BY <1>2 DEF Goto
    <3>3. /\ call'[c] = [call[c] EXCEPT !.pc = "context"] /\ call' \in [Calls -> CallRecord]
          /\ \A d \in Calls : d # c => call'[d] = call[d]
        BY <3>1, <3>2 DEF IInv, TypeOK
    <3> QED
        BY <1>0, <3>3 DEF CallRecord
  <2>2. GrantTyped' /\ grant'[r].id = call[c].id
      BY <1>0, <1>2 DEF GrantTyped, NoGrant, IInv, TypeOK, CallRecord
  <2>3. /\ aged \in [Files -> RowRecord] /\ \A f \in Files : aged[f].freshness # "fresh"
    <3>1. row[a] \in [Files -> RowRecord] /\ NoRow \in RowRecord /\ NoRow.freshness = "none"
        BY <1>0 DEF IInv, TypeOK, RowRecord, NoRow, NoFile, Freshness
    <3>2. \A o \in RowRecord : /\ [o EXCEPT !.freshness = "stale"] \in RowRecord
                               /\ [o EXCEPT !.freshness = "stale"].freshness = "stale"
        BY DEF RowRecord, Freshness
    <3> QED
        BY <3>1, <3>2
  <2>4. row' = [row EXCEPT ![a] = aged]
      BY <1>2
  <2> HIDE DEF aged
  <2>5. /\ row' \in [Profiles -> [Files -> RowRecord]] /\ row'[a] = aged
        /\ \A b \in Profiles \ {a} : row'[b] = row[b]
      BY <1>0, <2>3, <2>4 DEF IInv, TypeOK, RowRecord
  <2>6. /\ mapping' \in [Profiles -> Roots \cup {None}] /\ mapping'[a] = r
        /\ \A b \in Profiles \ {a} : mapping'[b] = mapping[b]
      BY <1>0, <1>2 DEF IInv, TypeOK
  <2>7. ASSUME NEW b \in Profiles \ {a}, mapping[b] \in Roots
        PROVE  grant'[mapping[b]] = grant[mapping[b]]
    <3>1. mapping[b] # r
        BY <1>0, <1>2, <2>7, Constants DEF Overlap
    <3>2. mapping[b] # mapping[a]
        BY <1>0, <2>7, Constants DEF IInv, Apart, Overlap
    <3> QED
        BY <1>2, <2>7, <3>1, <3>2
  <2>8. /\ \A d \in Calls : call'[d].profile = call[d].profile /\ call'[d].project = call[d].project
        /\ \A d \in Calls : At(d, "idle")' = At(d, "idle")
        /\ UNCHANGED <<active, steady>>
      BY <1>0, <1>2, <2>1 DEF At, Goto
  <2>9. TypeOK'
      BY <1>0, <2>1, <2>2, <2>5, <2>6, <2>8 DEF IInv, TypeOK, GrantTyped, RowRecord, world
  <2>10. Guarded'
      BY <2>8 DEF IInv, Guarded
  <2>11. Apart'
    <3>1. ASSUME NEW b \in Profiles \ {a}, mapping[b] # None
          PROVE  ~Overlap(mapping[b], r) /\ ~Overlap(r, mapping[b])
        BY <1>2, <3>1 DEF Overlap
    <3> QED
        BY <2>6, <3>1 DEF IInv, Apart
  <2>12. FreshIsAuthorized'
    <3>1. ASSUME NEW b \in Profiles, NEW f \in Files, row'[b][f].freshness = "fresh"
          PROVE  /\ mapping'[b] # None /\ f \in Under[mapping'[b]]
                 /\ row'[b][f].source[1] = grant'[mapping'[b]].id
      <4>1. b # a
          BY <2>3, <2>5, <3>1
      <4>2. row'[b] = row[b] /\ mapping'[b] = mapping[b]
          BY <2>5, <2>6, <4>1
      <4>3. /\ mapping[b] # None /\ f \in Under[mapping[b]] /\ mapping[b] \in Roots
            /\ row[b][f].source[1] = grant[mapping[b]].id
          BY <3>1, <4>2 DEF IInv, FreshIsAuthorized, TypeOK
      <4> QED
          BY <2>7, <4>1, <4>2, <4>3
    <3> QED
        BY <3>1 DEF FreshIsAuthorized
  <2>13. ASSUME NEW d \in Calls PROVE Working(d)'
    <3>1. CASE d = c
      <4>1. \A f \in Files : call[c].records[f] = NoFile
          BY <1>0 DEF Working, Records
      <4> QED
          BY <2>1, <3>1, <4>1 DEF Working, Loaded, Records, Shown, At
    <3>2. CASE d # c
      <4> HIDE DEF r
      <4> QED
          BY <1>0, <2>1, <2>5, <2>6, <2>7, <3>2, OthersKept
    <3> QED
        BY <3>1, <3>2
  <2> QED
      BY <2>9, <2>10, <2>11, <2>12, <2>13 DEF IInv
<1> QED
    BY <1>1, <1>2 DEF PersistRoot

LEMMA PreviewRootKeeps == ASSUME IInv, NEW c \in Calls, PreviewRoot(c), UNCHANGED changes PROVE IInv'
<1> DEFINE a == call[c].profile
           r == mapping[a]
           id == grant[r].id
<1>0. /\ ~At(c, "idle") /\ call[c].pc = "preview" /\ call \in [Calls -> CallRecord]
      /\ a \in Profiles
    BY DEF PreviewRoot, At, IInv, TypeOK
<1>1. CASE Return(c) /\ UNCHANGED <<database, world>>
    BY <1>0, <1>1, GivesUp
<1>2. CASE r # None /\ RootFailure(c, r, id)
  <2>1. r \in Roots
      BY <1>0, <1>2 DEF IInv, TypeOK
  <2> HIDE DEF r, id
  <2> QED
      BY <1>0, <1>2, <2>1, RootFailureKeeps
<1>3. CASE r # None /\ Mark(r, id, "active") /\ Return(c) /\ UNCHANGED <<binding, mapping, row, world>>
  <2>1. r \in Roots
      BY <1>0, <1>3 DEF IInv, TypeOK
  <2>2. GrantTyped' /\ \A q \in Roots : grant'[q].id = grant[q].id
    <3> HIDE DEF r, id
    <3> QED
        BY <1>3, <2>1, Marks
  <2> QED
      BY <1>0, <1>3, <2>2, ReturnKeeps
<1>4. ASSUME r # None, Mark(r, id, "active"), NEW f \in Files,
             call' = [call EXCEPT ![c].pc = "open", ![c].root = r, ![c].id = id,
                                  ![c].file = f, ![c].source = row[a][f].source],
             UNCHANGED <<active, steady, binding, mapping, row, world>>
      PROVE  IInv'
  <2> DEFINE source == row[a][f].source
  <2>1. r \in Roots /\ id \in Nat /\ source \in Nat \X Nat
    <3>1. source \in Nat \X Nat
        BY <1>0 DEF IInv, TypeOK
    <3>2. r \in Roots
        BY <1>0, <1>4 DEF IInv, TypeOK
    <3>3. id \in Nat
        BY <1>0, <3>2 DEF IInv, TypeOK
    <3> QED
        BY <3>1, <3>2, <3>3
  <2>2. GrantTyped' /\ \A q \in Roots : grant'[q].id = grant[q].id
    <3> HIDE DEF r, id
    <3> QED
        BY <1>4, <2>1, Marks
  <2>3. /\ call' \in [Calls -> CallRecord] /\ call'[c].pc = "open" /\ call'[c].root = r
        /\ call'[c].id = id /\ call'[c].file = f
        /\ call'[c].profile = a /\ call'[c].project = call[c].project
        /\ \A d \in Calls : d # c => call'[d] = call[d]
    <3>0. call' = [call EXCEPT ![c].pc = "open", ![c].root = r, ![c].id = id,
                               ![c].file = f, ![c].source = source]
        BY <1>4
    <3> HIDE DEF r, id, source
    <3>1. call[c] \in CallRecord
        BY <1>0
    <3>2. [call[c] EXCEPT !.pc = "open", !.root = r, !.id = id, !.file = f, !.source = source]
              \in CallRecord
        BY <2>1, <3>1 DEF CallRecord, CallSteps
    <3>3. /\ call'[c] = [call[c] EXCEPT !.pc = "open", !.root = r, !.id = id,
                                        !.file = f, !.source = source]
          /\ \A d \in Calls : d # c => call'[d] = call[d]
          /\ call' \in [Calls -> CallRecord]
        BY <1>0, <3>0, <3>2
    <3> QED
        BY <3>1, <3>3 DEF CallRecord
  <2>4. Working(c)'
    <3>1. Loaded(c)'
        BY <1>4, <2>1, <2>2, <2>3 DEF Loaded, At
    <3>2. Records(c)' /\ Shown(c)'
        BY <2>3 DEF Records, Shown, At
    <3> QED
        BY <3>1, <3>2 DEF Working
  <2>5. steady' \in [Calls -> SUBSET Files]
      BY <1>4 DEF IInv, TypeOK
  <2> QED
      BY <1>0, <1>4, <2>2, <2>3, <2>4, <2>5, GoesOn
<1> QED
    BY <1>1, <1>2, <1>3, <1>4 DEF PreviewRoot

LEMMA PreviewReadKeeps == ASSUME IInv, NEW c \in Calls, PreviewRead(c), UNCHANGED changes PROVE IInv'
<1> DEFINE r == call[c].root
           found == <<dir[r], Anchored(r, call[c].id, call[c].file)>>
<1>0. /\ ~At(c, "idle") /\ call[c].pc = "open" /\ call \in [Calls -> CallRecord]
      /\ r \in Roots /\ call[c].file \in Files /\ mapping[call[c].profile] = r
      /\ grant[r].id = call[c].id
    BY DEF PreviewRead, At, IInv, TypeOK, Working, Loaded, Shown
<1>1. CASE RootFailure(c, r, call[c].id)
    BY <1>0, <1>1, RootFailureKeeps
<1>2. CASE Return(c) /\ UNCHANGED <<database, world>>
    BY <1>0, <1>2, GivesUp
<1>3. ASSUME StillThere(r, call[c].id), found = call[c].source,
             call' = [call EXCEPT ![c].pc = "owner", ![c].read = found],
             UNCHANGED <<active, steady, database, world>>
      PROVE  IInv'
  <2>1. found \in Nat \X Nat /\ found[1] = call[c].id
      BY <1>0, <1>3 DEF StillThere, Anchored, IInv, TypeOK
  <2> HIDE DEF found
  <2>2. /\ call' \in [Calls -> CallRecord] /\ call'[c].pc = "owner" /\ call'[c].root = r
        /\ call'[c].id = call[c].id /\ call'[c].file = call[c].file
        /\ call'[c].source = call[c].source /\ call'[c].read = found
        /\ call'[c].profile = call[c].profile /\ call'[c].project = call[c].project
        /\ \A d \in Calls : d # c => call'[d] = call[d]
    <3>1. call[c] \in CallRecord
        BY <1>0
    <3>2. [call[c] EXCEPT !.pc = "owner", !.read = found] \in CallRecord
        BY <2>1, <3>1 DEF CallRecord, CallSteps
    <3>3. /\ call'[c] = [call[c] EXCEPT !.pc = "owner", !.read = found]
          /\ \A d \in Calls : d # c => call'[d] = call[d]
          /\ call' \in [Calls -> CallRecord]
        BY <1>0, <1>3, <3>2
    <3> QED
        BY <3>1, <3>3 DEF CallRecord
  <2>3. UNCHANGED <<mapping, grant, row>>
      BY <1>3 DEF database
  <2>4. Working(c)'
    <3>1. Loaded(c)'
        BY <1>0, <2>2, <2>3 DEF Loaded, At
    <3>2. Records(c)'
        BY <2>2 DEF Records, At
    <3>3. Shown(c)'
        BY <1>0, <1>3, <2>1, <2>2 DEF Shown, At
    <3> QED
        BY <3>1, <3>2, <3>3 DEF Working
  <2>5. steady' \in [Calls -> SUBSET Files]
      BY <1>3 DEF IInv, TypeOK
  <2> QED
      BY <1>0, <1>3, <2>2, <2>4, <2>5, Proceeds
<1> QED
    BY <1>1, <1>2, <1>3 DEF PreviewRead

LEMMA PreviewOwnerKeeps ==
    ASSUME IInv, NEW c \in Calls, PreviewOwner(c), UNCHANGED changes
    PROVE  IInv'
<1>0. /\ ~At(c, "idle") /\ call[c].pc = "owner" /\ call \in [Calls -> CallRecord]
      /\ Working(c) /\ UNCHANGED <<database, world>>
    BY DEF PreviewOwner, At, IInv, TypeOK
<1>1. CASE Return(c)
    BY <1>0, <1>1, GivesUp
<1>2. CASE Goto(c, "verify")
  <2>1. /\ call' \in [Calls -> CallRecord] /\ call'[c].pc = "verify"
        /\ call'[c] = [call[c] EXCEPT !.pc = "verify"]
        /\ \A d \in Calls : d # c => call'[d] = call[d]
    <3>1. call[c] \in CallRecord
        BY <1>0
    <3>2. [call[c] EXCEPT !.pc = "verify"] \in CallRecord
        BY <3>1 DEF CallRecord, CallSteps
    <3>3. call' = [call EXCEPT ![c] = [call[c] EXCEPT !.pc = "verify"]]
        BY <1>2 DEF Goto
    <3> QED
        BY <1>0, <3>1, <3>2, <3>3 DEF CallRecord
  <2>2. /\ call'[c].root = call[c].root /\ call'[c].id = call[c].id
        /\ call'[c].file = call[c].file /\ call'[c].read = call[c].read
        /\ call'[c].source = call[c].source
        /\ call'[c].profile = call[c].profile /\ call'[c].project = call[c].project
      BY <1>0, <2>1 DEF CallRecord
  <2>3. UNCHANGED <<mapping, grant, row>>
      BY <1>0 DEF database
  <2>4. Working(c)'
    <3>1. Loaded(c)'
        BY <1>0, <2>1, <2>2, <2>3 DEF Working, Loaded, At
    <3>2. Records(c)'
        BY <2>1 DEF Records, At
    <3>3. Shown(c)'
        BY <1>0, <2>1, <2>2, <2>3 DEF Working, Shown, At
    <3> QED
        BY <3>1, <3>2, <3>3 DEF Working
  <2>5. UNCHANGED <<active, steady>> /\ steady' \in [Calls -> SUBSET Files]
      BY <1>2 DEF Goto, IInv, TypeOK
  <2> QED
      BY <1>0, <2>1, <2>2, <2>4, <2>5, Proceeds
<1> QED
    BY <1>1, <1>2 DEF PreviewOwner

LEMMA PreviewVerifyKeeps ==
    ASSUME IInv, NEW c \in Calls, PreviewVerify(c), UNCHANGED changes
    PROVE  IInv'
<1>0. /\ ~At(c, "idle") /\ call[c].pc = "verify" /\ call \in [Calls -> CallRecord]
      /\ call[c].root \in Roots /\ Working(c)
    BY DEF PreviewVerify, At, IInv, TypeOK, Working, Loaded
<1>1. CASE RootFailure(c, call[c].root, call[c].id)
    BY <1>0, <1>1, RootFailureKeeps
<1>2. CASE Return(c) /\ UNCHANGED <<database, world>>
    BY <1>0, <1>2, GivesUp
<1>3. CASE SameScope(c) /\ Goto(c, "delivered") /\ UNCHANGED <<database, world>>
  <2>1. /\ call' \in [Calls -> CallRecord] /\ call'[c].pc = "delivered"
        /\ call'[c] = [call[c] EXCEPT !.pc = "delivered"]
        /\ \A d \in Calls : d # c => call'[d] = call[d]
    <3>1. call[c] \in CallRecord
        BY <1>0
    <3>2. [call[c] EXCEPT !.pc = "delivered"] \in CallRecord
        BY <3>1 DEF CallRecord, CallSteps
    <3>3. call' = [call EXCEPT ![c] = [call[c] EXCEPT !.pc = "delivered"]]
        BY <1>3 DEF Goto
    <3> QED
        BY <1>0, <3>1, <3>2, <3>3 DEF CallRecord
  <2>2. /\ call'[c].root = call[c].root /\ call'[c].id = call[c].id
        /\ call'[c].file = call[c].file /\ call'[c].read = call[c].read
        /\ call'[c].source = call[c].source
        /\ call'[c].profile = call[c].profile /\ call'[c].project = call[c].project
      BY <1>0, <2>1 DEF CallRecord
  <2>3. UNCHANGED <<mapping, grant, row>>
      BY <1>3 DEF database
  <2>4. Working(c)'
    <3>1. Loaded(c)'
        BY <1>0, <2>1, <2>2, <2>3 DEF Working, Loaded, At
    <3>2. Records(c)'
        BY <2>1 DEF Records, At
    <3>3. Shown(c)'
        BY <1>0, <1>3, <2>1, <2>2, <2>3 DEF Working, Shown, At, SameScope
    <3> QED
        BY <3>1, <3>2, <3>3 DEF Working
  <2>5. UNCHANGED <<active, steady>> /\ steady' \in [Calls -> SUBSET Files]
      BY <1>3 DEF Goto, IInv, TypeOK
  <2> QED
      BY <1>0, <1>3, <2>1, <2>2, <2>4, <2>5, Proceeds
<1> QED
    BY <1>1, <1>2, <1>3 DEF PreviewVerify

LEMMA DeliverKeeps == ASSUME IInv, NEW c \in Calls, Deliver(c), UNCHANGED changes PROVE IInv'
BY GivesUp DEF Deliver, At

-------------------------------------------------------------------------------
(* What happens beside the calls changes nothing the invariant is about. *)
LEMMA BesideKeeps == ASSUME IInv, Beside PROVE IInv'
<1>1. changes' \in 0 .. MaxChanges
    BY Constants DEF Beside, IInv, TypeOK
<1>2. ASSUME UNCHANGED <<mapping, grant, row, active, call>>,
             binding' \in [Projects -> [profile : Profiles, revision : Nat]],
             dir' \in [Roots -> Nat], file' \in [Files -> Nat],
             steady' \in [Calls -> SUBSET Files]
      PROVE  IInv'
  <2>1. TypeOK' /\ Guarded'
      BY <1>1, <1>2 DEF IInv, TypeOK, Guarded, At
  <2>2. FreshIsAuthorized' /\ Apart'
      BY <1>2, FreshKept
  <2>3. \A d \in Calls : Working(d)'
      BY <1>2, WorkingKept
  <2> QED
      BY <2>1, <2>2, <2>3 DEF IInv
<1>3. /\ binding \in [Projects -> [profile : Profiles, revision : Nat]]
      /\ dir \in [Roots -> Nat] /\ file \in [Files -> Nat] /\ steady \in [Calls -> SUBSET Files]
    BY DEF IInv, TypeOK
<1>4. CASE AddProject
  <2>1. binding' \in [Projects -> [profile : Profiles, revision : Nat]]
      BY <1>3, <1>4 DEF AddProject
  <2>2. steady' \in [Calls -> SUBSET Files]
      BY <1>3, <1>4 DEF AddProject
  <2> QED
      BY <1>2, <1>3, <1>4, <2>1, <2>2 DEF AddProject, world
<1>5. CASE UpdateBinding
  <2>1. binding' \in [Projects -> [profile : Profiles, revision : Nat]]
      BY <1>3, <1>5 DEF UpdateBinding, Registered
  <2> QED
      BY <1>2, <1>3, <1>5, <2>1 DEF UpdateBinding, world
<1>6. CASE ReplaceRoot
  <2>1. dir' \in [Roots -> Nat] /\ steady' \in [Calls -> SUBSET Files]
      BY <1>3, <1>6 DEF ReplaceRoot
  <2> QED
      BY <1>2, <1>3, <1>6, <2>1 DEF ReplaceRoot, database
<1>7. CASE ReplaceFile
  <2>1. file' \in [Files -> Nat] /\ steady' \in [Calls -> SUBSET Files]
      BY <1>3, <1>7 DEF ReplaceFile
  <2> QED
      BY <1>2, <1>3, <1>7, <2>1 DEF ReplaceFile, database
<1> QED
    BY <1>4, <1>5, <1>6, <1>7 DEF Beside

LEMMA StepHolds == IInv /\ [Next]_vars => IInv'
<1> SUFFICES ASSUME IInv, [Next]_vars PROVE IInv'
    OBVIOUS
<1>1. CASE UNCHANGED vars
  <2>1. UNCHANGED <<binding, mapping, grant, row, dir, file, active, call, steady, changes>>
      BY <1>1 DEF vars, database, world
  <2>2. TypeOK' /\ Guarded'
      BY <2>1 DEF IInv, TypeOK, Guarded, At
  <2>3. FreshIsAuthorized' /\ Apart'
      BY <2>1, FreshKept
  <2>4. \A d \in Calls : Working(d)'
      BY <2>1, WorkingKept
  <2> QED
      BY <2>2, <2>3, <2>4 DEF IInv
<1>2. ASSUME NEW c \in Calls, Step(c), UNCHANGED changes PROVE IInv'
    BY <1>2, BeginKeeps, PickRootKeeps, PersistRootKeeps, ScanRootKeeps, ListFilesKeeps,
       ReadFileKeeps, FinishScanKeeps, PreviewRootKeeps, PreviewReadKeeps, PreviewOwnerKeeps,
       PreviewVerifyKeeps,
       DeliverKeeps DEF Step
<1> QED
    BY <1>1, <1>2, BesideKeeps DEF Next

LEMMA Invariance == Spec => []IInv
BY InitHolds, StepHolds, PTL DEF Spec

(* The state of the index and of the calls on it keeps its type, and a call   *)
(* that is under way is about a project and the Profile it was bound to.      *)
THEOREM TypeCorrect == Spec => []TypeOK
<1>1. IInv => TypeOK
    BY DEF IInv
<1> QED
    BY <1>1, Invariance, PTL

(* A row shown as fresh was read below the directory that its Profile's user  *)
(* authorized, under the identity it was authorized with.                     *)
THEOREM FreshAuthorized == Spec => []FreshIsAuthorized
<1>1. IInv => FreshIsAuthorized
    BY DEF IInv
<1> QED
    BY <1>1, Invariance, PTL

(* No session file is listed as fresh under two Profiles, however the roots   *)
(* nest and whatever moves from one to another.                               *)
THEOREM OneProfileShows == Spec => []OneProfileShowsIt
<1>1. ASSUME IInv, NEW f \in Files, NEW a \in Profiles, NEW b \in Profiles,
             row[a][f].freshness = "fresh", row[b][f].freshness = "fresh"
      PROVE  a = b
  <2>1. /\ mapping[a] \in Roots /\ mapping[b] \in Roots
        /\ f \in Under[mapping[a]] /\ f \in Under[mapping[b]]
      BY <1>1 DEF IInv, FreshIsAuthorized, TypeOK
  <2>2. Overlap(mapping[a], mapping[b])
      BY <2>1, Constants
  <2>3. mapping[a] # None /\ mapping[b] # None
      BY <1>1 DEF IInv, FreshIsAuthorized
  <2> QED
      BY <1>1, <2>2, <2>3 DEF IInv, Apart
<1>2. IInv => OneProfileShowsIt
    BY <1>1 DEF OneProfileShowsIt
<1> QED
    BY <1>2, Invariance, PTL

(* What a preview shows was read from the very file the index names for the   *)
(* project, below the directory authorized for the Profile.                   *)
THEOREM PreviewAuthorized == Spec => []PreviewIsAuthorized
<1>1. ASSUME IInv, NEW c \in Calls, At(c, "delivered")
      PROVE  LET a == call[c].profile
             IN  /\ mapping[a] = call[c].root
                 /\ call[c].read[1] = grant[mapping[a]].id
                 /\ row[a][call[c].file].source = call[c].read
                 /\ row[a][call[c].file].project = call[c].project
    BY <1>1 DEF IInv, Working, Loaded, Shown, At
<1>2. IInv => PreviewIsAuthorized
    BY <1>1 DEF PreviewIsAuthorized
<1> QED
    BY <1>2, Invariance, PTL

-------------------------------------------------------------------------------
(* What a scan could have seen all along, it has in its list, until it is     *)
(* read; then it has a record of it, or has given up being complete.          *)
Seen(c) ==
    /\ At(c, "list") => \A f \in steady[c] :
          /\ f \in Reach[call[c].root] /\ file[f] # 0
          /\ Owner(Registered, f) = call[c].project
    /\ At(c, "read") => \A f \in steady[c] :
          /\ Owner(call[c].known, f) = call[c].project
          /\ f \in call[c].todo \/ call[c].records[f] # NoFile \/ ~call[c].complete

SeenByAll == \A c \in Calls : Seen(c)

(* A step of another call. *)
LEMMA SeenKept ==
    ASSUME NEW d \in Calls, Seen(d), call'[d] = call[d], steady'[d] = steady[d],
           UNCHANGED <<binding, file>>
    PROVE  Seen(d)'
<1>1. Registered' = Registered
    BY DEF Registered
<1> QED
    BY <1>1 DEF Seen, At

(* A call that does not list or read has nothing to miss. *)
LEMMA NothingToMiss ==
    ASSUME NEW c \in Calls, call'[c].pc \notin {"list", "read"}
    PROVE  Seen(c)'
BY DEF Seen, At

(* A step of one call leaves the others as they are. *)
LEMMA OneAtATime ==
    ASSUME IInv, NEW c \in Calls, Step(c), NEW d \in Calls, d # c
    PROVE  call'[d] = call[d] /\ steady'[d] = steady[d] /\ UNCHANGED <<binding, file>>
<1>1. call \in [Calls -> CallRecord] /\ steady \in [Calls -> SUBSET Files]
    BY DEF IInv, TypeOK
<1>2. CASE Begin(c)
    BY <1>1, <1>2 DEF Begin, database, world
<1>3. CASE PickRoot(c)
    BY <1>1, <1>3 DEF PickRoot, Return, database, world
<1>4. CASE PersistRoot(c)
    BY <1>1, <1>4 DEF PersistRoot, Goto, Return, database, world
<1>5. CASE ScanRoot(c)
    BY <1>1, <1>5 DEF ScanRoot, RootFailure, Return, database, world
<1>6. CASE ListFiles(c)
    BY <1>1, <1>6 DEF ListFiles, RootFailure, Return, database, world
<1>7. CASE ReadFile(c)
    BY <1>1, <1>7 DEF ReadFile, Return, database, world
<1>8. CASE FinishScan(c)
    BY <1>1, <1>8 DEF FinishScan, RootFailure, Return, database, world
<1>9. CASE PreviewRoot(c)
    BY <1>1, <1>9 DEF PreviewRoot, RootFailure, Return, database, world
<1>10. CASE PreviewRead(c)
    BY <1>1, <1>10 DEF PreviewRead, RootFailure, Return, database, world
<1>11. CASE PreviewVerify(c)
    BY <1>1, <1>11 DEF PreviewVerify, RootFailure, Goto, Return, database, world
<1>12. CASE Deliver(c)
    BY <1>1, <1>12 DEF Deliver, Return, database, world
<1>13. CASE PreviewOwner(c)
    BY <1>1, <1>13 DEF PreviewOwner, Goto, Return, database, world
<1> QED
    BY <1>2, <1>3, <1>4, <1>5, <1>6, <1>7, <1>8, <1>9, <1>10, <1>11, <1>12, <1>13 DEF Step

LEMMA ReturnMissesNothing ==
    ASSUME IInv, NEW c \in Calls, Return(c)
    PROVE  Seen(c)'
<1>1. call'[c] = NoCall
    BY DEF IInv, TypeOK, Return
<1> QED
    BY <1>1, IdleIsTyped, NothingToMiss

LEMMA ScanRootSees == ASSUME IInv, NEW c \in Calls, ScanRoot(c) PROVE Seen(c)'
<1> DEFINE r == mapping[call[c].profile]
           id == grant[r].id
<1>1. CASE Return(c)
    BY <1>1, ReturnMissesNothing
<1>2. ASSUME call' = [call EXCEPT ![c].pc = "list", ![c].root = r, ![c].id = id],
             steady' = [steady EXCEPT ![c] =
                          {f \in Reach[r] : file[f] # 0 /\ Owner(Registered, f) = call[c].project}],
             UNCHANGED <<binding, world>>
      PROVE  Seen(c)'
  <2>1. /\ call[c] \in CallRecord /\ call \in [Calls -> CallRecord]
        /\ steady \in [Calls -> SUBSET Files]
      BY DEF IInv, TypeOK
  <2> HIDE DEF r, id
  <2>2. call'[c].pc = "list" /\ call'[c].root = r /\ call'[c].project = call[c].project
    <3>1. call'[c] = [call[c] EXCEPT !.pc = "list", !.root = r, !.id = id]
        BY <1>2, <2>1
    <3> QED
        BY <2>1, <3>1 DEF CallRecord
  <2>3. steady'[c] = {f \in Reach[r] : file[f] # 0 /\ Owner(Registered, f) = call[c].project}
      BY <1>2, <2>1
  <2>4. Registered' = Registered /\ file' = file
      BY <1>2 DEF Registered, world
  <2> QED
      BY <2>2, <2>3, <2>4 DEF Seen, At
<1> QED
    BY <1>1, <1>2 DEF ScanRoot, RootFailure

LEMMA ListFilesSees == ASSUME IInv, SeenByAll, NEW c \in Calls, ListFiles(c) PROVE Seen(c)'
<1>0. Seen(c) /\ At(c, "list") /\ call[c].pc = "list" /\ call \in [Calls -> CallRecord]
    BY DEF SeenByAll, ListFiles, At, IInv, TypeOK
<1>1. CASE Return(c)
    BY <1>1, ReturnMissesNothing
<1>2. ASSUME NEW skipped \in SUBSET Reach[call[c].root],
             call' = [call EXCEPT ![c].pc = "read", ![c].complete = ListingIsComplete(skipped),
                         ![c].todo = {f \in Reach[call[c].root] \ skipped : file[f] # 0},
                         ![c].known = Registered],
             UNCHANGED <<active, steady>>
      PROVE  Seen(c)'
  <2> DEFINE todo == {f \in Reach[call[c].root] \ skipped : file[f] # 0}
             whole == ListingIsComplete(skipped)
             known == Registered
  <2>1. \A f \in steady[c] : f \in todo \/ ~whole
      BY <1>0 DEF Seen, ListingIsComplete
  <2>2. \A f \in steady[c] : Owner(known, f) = call[c].project
      BY <1>0 DEF Seen
  <2>3. call' = [call EXCEPT ![c].pc = "read", ![c].complete = whole,
                             ![c].todo = todo, ![c].known = known]
      BY <1>2
  <2> HIDE DEF todo, whole, known
  <2>4. /\ call'[c].pc = "read" /\ call'[c].complete = whole /\ call'[c].todo = todo
        /\ call'[c].known = known /\ call'[c].project = call[c].project
    <3>1. call[c] \in CallRecord
        BY <1>0
    <3>2. call'[c] = [call[c] EXCEPT !.pc = "read", !.complete = whole,
                                     !.todo = todo, !.known = known]
        BY <1>0, <2>3
    <3> QED
        BY <3>1, <3>2 DEF CallRecord
  <2> QED
      BY <1>2, <2>1, <2>2, <2>4 DEF Seen, At
<1> QED
    BY <1>1, <1>2 DEF ListFiles, RootFailure

LEMMA ReadFileSees == ASSUME IInv, SeenByAll, NEW c \in Calls, ReadFile(c) PROVE Seen(c)'
<1>0. /\ At(c, "read") /\ call[c].pc = "read" /\ call[c] \in CallRecord
      /\ call \in [Calls -> CallRecord]
      /\ \A f \in steady[c] :
          /\ Owner(call[c].known, f) = call[c].project
          /\ f \in call[c].todo \/ call[c].records[f] # NoFile \/ ~call[c].complete
    BY DEF SeenByAll, Seen, ReadFile, At, IInv, TypeOK
<1>1. CASE Return(c)
    BY <1>1, ReturnMissesNothing
<1>2. ASSUME NEW f \in call[c].todo, UNCHANGED <<active, steady>>,
             call' = [call EXCEPT ![c] = [[call[c] EXCEPT !.todo = @ \ {f}] EXCEPT
                                              !.complete = FALSE, !.failed = @ \cup {f}]]
      PROVE  Seen(c)'
  <2> DEFINE done == [call[c] EXCEPT !.todo = @ \ {f}]
             new == [done EXCEPT !.complete = FALSE, !.failed = @ \cup {f}]
  <2>1. /\ new.pc = "read" /\ ~new.complete /\ new.known = call[c].known
        /\ new.project = call[c].project
      BY <1>0 DEF CallRecord
  <2>2. call'[c] = new
      BY <1>0, <1>2
  <2> HIDE DEF new
  <2> QED
      BY <1>0, <1>2, <2>1, <2>2 DEF Seen, At
<1>3. ASSUME NEW f \in call[c].todo, UNCHANGED <<active, steady>>,
             Anchored(call[c].root, call[c].id, f) # 0,
             call' = [call EXCEPT ![c] =
                        IF Owner(call[c].known, f) = call[c].project
                          THEN [[call[c] EXCEPT !.todo = @ \ {f}] EXCEPT !.records =
                                  [@ EXCEPT ![f] = <<dir[call[c].root],
                                                     Anchored(call[c].root, call[c].id, f)>>]]
                          ELSE [call[c] EXCEPT !.todo = @ \ {f}]]
      PROVE  Seen(c)'
  <2> DEFINE found == <<dir[call[c].root], Anchored(call[c].root, call[c].id, f)>>
             done == [call[c] EXCEPT !.todo = @ \ {f}]
             kept == [done EXCEPT !.records = [@ EXCEPT ![f] = found]]
             new == IF Owner(call[c].known, f) = call[c].project THEN kept ELSE done
  <2>1. found # NoFile /\ f \in Files
      BY <1>0, <1>3 DEF NoFile, CallRecord
  <2>2. call'[c] = new
      BY <1>0, <1>3
  <2> HIDE DEF found
  <2>3. /\ done.pc = "read" /\ done.complete = call[c].complete /\ done.known = call[c].known
        /\ done.project = call[c].project /\ done.todo = call[c].todo \ {f}
        /\ done.records = call[c].records /\ done \in CallRecord
      BY <1>0 DEF CallRecord
  <2> HIDE DEF done
  <2>4. /\ kept.pc = "read" /\ kept.complete = call[c].complete /\ kept.known = call[c].known
        /\ kept.project = call[c].project /\ kept.todo = call[c].todo \ {f}
        /\ kept.records = [call[c].records EXCEPT ![f] = found]
      BY <2>3 DEF CallRecord
  <2> HIDE DEF kept
  <2>5. /\ new.pc = "read" /\ new.complete = call[c].complete /\ new.known = call[c].known
        /\ new.project = call[c].project /\ new.todo = call[c].todo \ {f}
      BY <2>3, <2>4
  <2>6. ASSUME NEW g \in steady[c]
        PROVE  g \in new.todo \/ new.records[g] # NoFile \/ ~new.complete
    <3>1. call[c].records \in [Files -> Nat \X Nat]
        BY <1>0 DEF CallRecord
    <3>2. CASE g = f
        BY <1>0, <2>1, <2>4, <2>6, <3>1, <3>2
    <3>3. CASE g # f
      <4>1. g \in Files
          BY <2>6 DEF IInv, TypeOK
      <4>2. done.records[g] = call[c].records[g] /\ kept.records[g] = call[c].records[g]
          BY <2>3, <2>4, <3>1, <3>3, <4>1
      <4>3. new.records[g] = call[c].records[g]
          BY <4>2
      <4> HIDE DEF new
      <4> QED
          BY <1>0, <2>5, <2>6, <3>3, <4>3
    <3> QED
        BY <3>2, <3>3
  <2> HIDE DEF new
  <2> QED
      BY <1>0, <1>3, <2>2, <2>5, <2>6 DEF Seen, At
<1> QED
    BY <1>1, <1>2, <1>3 DEF ReadFile

LEMMA OwnStepSees == ASSUME IInv, SeenByAll, NEW c \in Calls, Step(c) PROVE Seen(c)'
<1>0. call[c] \in CallRecord /\ call \in [Calls -> CallRecord]
    BY DEF IInv, TypeOK
<1>1. CASE Return(c)
    BY <1>1, ReturnMissesNothing
<1>2. CASE ScanRoot(c) \/ ListFiles(c) \/ ReadFile(c)
    BY <1>2, ScanRootSees, ListFilesSees, ReadFileSees
<1>3. CASE Begin(c)
  <2>1. \E p \in Registered, kind \in {"picker", "context", "preview"} : \E b \in LoadedOf(p) :
            call' = [call EXCEPT ![c] = [NoCall EXCEPT
                        !.pc = kind, !.project = p,
                        !.profile = b.profile, !.revision = b.revision]]
      BY <1>3 DEF Begin
  <2>2. call'[c].pc \in {"picker", "context", "preview"}
      BY <1>0, <2>1 DEF NoCall
  <2> QED
      BY <2>2, NothingToMiss
<1>4. CASE PickRoot(c)
  <2>1. ASSUME NEW r \in Roots,
               call' = [call EXCEPT ![c].pc = "grant", ![c].root = r, ![c].id = dir[r]]
        PROVE  call'[c].pc = "grant"
      BY <1>0, <2>1 DEF CallRecord
  <2> QED
      BY <1>1, <1>4, <2>1, NothingToMiss DEF PickRoot
<1>5. CASE PersistRoot(c) \/ PreviewOwner(c) \/ PreviewVerify(c)
  <2>1. ASSUME NEW pc \in {"context", "verify", "delivered"}, Goto(c, pc) PROVE call'[c].pc = pc
      BY <1>0, <2>1 DEF CallRecord, Goto
  <2> QED
      BY <1>1, <1>5, <2>1, NothingToMiss DEF PersistRoot, PreviewOwner, PreviewVerify, RootFailure
<1>6. CASE PreviewRoot(c)
  <2> DEFINE a == call[c].profile
             r == mapping[a]
             id == grant[r].id
  <2>1. ASSUME NEW f \in Files,
               call' = [call EXCEPT ![c].pc = "open", ![c].root = r, ![c].id = id,
                                    ![c].file = f, ![c].source = row[a][f].source]
        PROVE  call'[c].pc = "open"
      BY <1>0, <2>1 DEF CallRecord
  <2> QED
      BY <1>1, <1>6, <2>1, NothingToMiss DEF PreviewRoot, RootFailure
<1>7. CASE PreviewRead(c)
  <2>1. ASSUME NEW found, call' = [call EXCEPT ![c].pc = "owner", ![c].read = found]
        PROVE  call'[c].pc = "owner"
      BY <1>0, <2>1 DEF CallRecord
  <2> QED
      BY <1>1, <1>7, <2>1, NothingToMiss DEF PreviewRead, RootFailure
<1>8. CASE FinishScan(c) \/ Deliver(c)
    BY <1>1, <1>8 DEF FinishScan, Deliver, RootFailure
<1> QED
    BY <1>2, <1>3, <1>4, <1>5, <1>6, <1>7, <1>8 DEF Step

LEMMA BesideSees == ASSUME IInv, SeenByAll, NEW c \in Calls, Beside PROVE Seen(c)'
<1>0. steady \in [Calls -> SUBSET Files] /\ Seen(c)
    BY DEF IInv, TypeOK, SeenByAll
<1>1. CASE AddProject
  <2>1. UNCHANGED <<call, file>>
      BY <1>1 DEF AddProject, world
  <2>2. \A f \in steady'[c] : f \in steady[c] /\ Owner(Registered', f) = call[c].project
      BY <1>1 DEF AddProject
  <2>3. \A f \in steady'[c] : Owner(Registered, f)' = call[c].project
      BY <2>2 DEF Owner
  <2> QED
      BY <1>0, <2>1, <2>2, <2>3 DEF Seen, At
<1>2. CASE UpdateBinding
  <2>1. Registered' = Registered
    <3>1. PICK p \in Registered, a \in Profiles :
              binding' = [binding EXCEPT ![p] = [profile |-> a, revision |-> @.revision + 1]]
        BY <1>2 DEF UpdateBinding
    <3>2. binding \in [Projects -> [profile : Profiles, revision : Nat]]
        BY DEF IInv, TypeOK
    <3>3. binding'[p].revision = binding[p].revision + 1 /\ binding[p].revision \in Nat
          /\ \A q \in Projects \ {p} : binding'[q] = binding[q]
        BY <3>1, <3>2 DEF Registered
    <3>4. \A q \in Projects : binding'[q].revision > 0 <=> binding[q].revision > 0
        BY <3>1, <3>3 DEF Registered
    <3> QED
        BY <3>4 DEF Registered
  <2>2. UNCHANGED <<call, file, steady>>
      BY <1>2 DEF UpdateBinding, world
  <2> QED
      BY <1>0, <2>1, <2>2 DEF Seen, At
<1>3. CASE ReplaceRoot \/ ReplaceFile
  <2>1. UNCHANGED <<call, binding>> /\ steady'[c] \subseteq steady[c]
      BY <1>0, <1>3 DEF ReplaceRoot, ReplaceFile, database
  <2>2. \A f \in steady'[c] : f \in Files /\ file'[f] = file[f]
      BY <1>0, <1>3 DEF ReplaceRoot, ReplaceFile, IInv, TypeOK
  <2>3. Registered' = Registered
      BY <2>1 DEF Registered
  <2> QED
      BY <1>0, <2>1, <2>2, <2>3 DEF Seen, At
<1> QED
    BY <1>1, <1>2, <1>3 DEF Beside

LEMMA SeenInvariance == Spec => []SeenByAll
<1>1. Init => SeenByAll
    BY IdleIsTyped DEF Init, SeenByAll, Seen, At
<1>2. ASSUME IInv, SeenByAll, [Next]_vars PROVE SeenByAll'
  <2>1. CASE UNCHANGED vars
      BY <1>2, <2>1, SeenKept DEF vars, database, world, SeenByAll
  <2>2. ASSUME NEW c \in Calls, Step(c) PROVE SeenByAll'
    <3>1. Seen(c)'
        BY <1>2, <2>2, OwnStepSees
    <3>2. ASSUME NEW d \in Calls, d # c PROVE Seen(d)'
        BY <1>2, <2>2, <3>2, OneAtATime, SeenKept DEF SeenByAll
    <3> QED
        BY <3>1, <3>2 DEF SeenByAll
  <2>3. CASE Beside
      BY <1>2, <2>3, BesideSees DEF SeenByAll
  <2> QED
      BY <1>2, <2>1, <2>2, <2>3 DEF Next
<1> QED
    BY <1>1, <1>2, Invariance, PTL DEF Spec

(* The rows of a Profile are written by the call that holds its guard. *)
LEMMA RowsWrittenUnderGuard ==
    ASSUME IInv, [Next]_vars, NEW c \in Calls, At(c, "read")
    PROVE  \/ row'[call[c].profile] = row[call[c].profile]
           \/ call[c].todo = {} /\ row'[call[c].profile] = Indexed(c)
<1> DEFINE a == call[c].profile
<1>0. a \in Profiles /\ row \in [Profiles -> [Files -> RowRecord]] /\ ~At(c, "idle")
    BY DEF IInv, TypeOK, At, RowRecord
<1>1. ASSUME NEW d \in Calls, ~At(d, "idle"), call[d].profile = a PROVE d = c
    BY <1>0, <1>1 DEF IInv, Guarded
<1>2. CASE UNCHANGED row
    BY <1>2
<1>3. ASSUME NEW d \in Calls, FinishScan(d), ~UNCHANGED row
      PROVE  \/ row'[a] = row[a]
             \/ call[c].todo = {} /\ row'[a] = Indexed(c)
  <2>1. call[d].todo = {} /\ row' = [row EXCEPT ![call[d].profile] = Indexed(d)] /\ ~At(d, "idle")
      BY <1>3 DEF FinishScan, RootFailure, At
  <2>2. CASE d = c
      BY <1>0, <2>1, <2>2
  <2>3. CASE d # c
      BY <1>0, <1>1, <2>1, <2>3
  <2> QED
      BY <2>2, <2>3
<1>4. ASSUME NEW d \in Calls, PersistRoot(d), ~UNCHANGED row
      PROVE  row'[a] = row[a]
  <2>1. ~At(d, "idle") /\ d # c
      BY <1>4 DEF PersistRoot, At
  <2>2. PICK aged : row' = [row EXCEPT ![call[d].profile] = aged]
      BY <1>4 DEF PersistRoot
  <2> QED
      BY <1>0, <1>1, <2>1, <2>2
<1>5. ASSUME NEW d \in Calls, Step(d), ~FinishScan(d), ~PersistRoot(d) PROVE UNCHANGED row
    BY <1>5 DEF Step, Begin, PickRoot, ScanRoot, ListFiles, ReadFile, PreviewRoot, PreviewRead,
       PreviewOwner, PreviewVerify, Deliver, RootFailure, database
<1>6. CASE Beside
    BY <1>6 DEF Beside, AddProject, UpdateBinding, ReplaceRoot, ReplaceFile, database
<1>7. CASE UNCHANGED vars
    BY <1>7 DEF vars, database
<1> QED
    BY <1>2, <1>3, <1>4, <1>5, <1>6, <1>7 DEF Next

(* A scan never calls a session missing whose file was where a listing looks,    *)
(* unchanged and the project's own, from its start to its end.                   *)
THEOREM MissingMissed == Spec => MissingIsMissed
<1>1. ASSUME IInv, SeenByAll, [Next]_vars, NEW c \in Calls, At(c, "read"), NEW f \in steady[c],
             row'[call[c].profile][f].freshness = "missing"
      PROVE  row[call[c].profile][f].freshness = "missing"
  <2> DEFINE old == row[call[c].profile][f]
  <2>1. CASE row'[call[c].profile] = row[call[c].profile]
      BY <1>1, <2>1
  <2>2. CASE call[c].todo = {} /\ row'[call[c].profile] = Indexed(c)
    <3>1. call[c].records[f] # NoFile \/ ~call[c].complete
        BY <1>1, <2>2 DEF SeenByAll, Seen
    <3>2. f \in Files /\ old \in RowRecord
        BY <1>1 DEF IInv, TypeOK, At, RowRecord
    <3>3. \/ Indexed(c)[f].freshness = "fresh"
          \/ Indexed(c)[f] = NoRow
          \/ Indexed(c)[f] = [old EXCEPT !.freshness = "failed"]
          \/ Indexed(c)[f] = [old EXCEPT !.freshness = "stale"]
          \/ Indexed(c)[f] = old
        BY <3>1, <3>2 DEF Indexed
    <3> HIDE DEF old
    <3>4. Indexed(c)[f].freshness \in {"fresh", "none", "failed", "stale"} \/ Indexed(c)[f] = old
        BY <3>2, <3>3 DEF RowRecord, NoRow
    <3> QED
        BY <1>1, <2>2, <3>4 DEF old
  <2> QED
      BY <1>1, <2>1, <2>2, RowsWrittenUnderGuard
<1>2. IInv /\ SeenByAll /\ [Next]_vars =>
          [\A c \in Calls : At(c, "read") =>
              \A f \in steady[c] :
                  LET a == call[c].profile
                  IN  row'[a][f].freshness = "missing" => row[a][f].freshness = "missing"]_vars
    BY <1>1
<1> QED
    BY <1>2, Invariance, SeenInvariance, PTL DEF Spec, MissingIsMissed
===============================================================================
