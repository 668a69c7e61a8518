---------------------------- MODULE PtyRuntimeProofs ----------------------------
(***************************************************************************)
(* What infrastructure/pty/runtime.rs guarantees above a single run: its   *)
(* registry (PtyRegistry), for every number of starts and every limit, and *)
(* the output that a run keeps for its terminals (TerminalStream), for     *)
(* every length and every limit.                                           *)
(***************************************************************************)
EXTENDS PtyRegistry, TerminalStream, FiniteSetTheorems, SequenceTheorems,
        WellFoundedInduction, TLAPS

-------------------------------------------------------------------------------
(* PtyRegistry.  The argument: whoever holds the mutex has left room for one   *)
(* more run, and nothing is listed by anybody else until it is released.       *)

Room ==
    /\ IsFiniteSet(Listed)
    /\ Cardinality(Listed) <= MaxRuns
    /\ holder # None => Cardinality(Listed) < MaxRuns

(* Where a start stands tells whether its run is listed and may have ended. *)
Stages ==
    /\ \A r \in Runs : start[r] \in {"announce", "threads"} => r \in Listed
    /\ \A r \in Listed : start[r] \in {"announce", "threads", "over"}
    /\ \A r \in Runs : status[r] # "running" \/ drained[r] => start[r] = "over"
    /\ \A r \in children : start[r] \in {"insert", "announce", "threads", "over"}
    /\ \A r \in removed : start[r] = "over" /\ r \notin Listed
    /\ \A r \in children : r \in Listed \/ r = holder \/ status[r] # "running"

IInv == TypeOK /\ Room /\ Stages

-------------------------------------------------------------------------------
LEMMA InitHolds == Init => IInv
<1> SUFFICES ASSUME Init PROVE IInv
  OBVIOUS
<1>1. Listed = {}
  BY DEF Init, Listed
<1>2. TypeOK
  <2>1. startedAt \in [Listed -> Times]
    BY <1>1 DEF Init
  <2> QED BY <1>1, <2>1, PtyRegistryAssumption DEF Init, TypeOK, StartSteps, Statuses
<1>3. Room
  BY <1>1, FS_EmptySet, PtyRegistryAssumption DEF Init, Room
<1>4. Stages
  BY <1>1 DEF Init, Stages
<1> QED BY <1>2, <1>3, <1>4 DEF IInv

(* Forgetting removable runs keeps the registry finite and makes it smaller. *)
LEMMA ForgetsShrinks ==
    ASSUME IInv, NEW gone \in SUBSET Prunable, Forgets(gone)
    PROVE  /\ Listed' = Listed \ gone
           /\ startedAt' \in [Listed' -> Times]
           /\ IsFiniteSet(Listed')
           /\ Cardinality(Listed') = Cardinality(Listed) - Cardinality(gone)
           /\ removed' = removed \cup gone
<1>1. Listed' = Listed \ gone /\ removed' = removed \cup gone
  BY DEF Forgets, Listed
<1>2. startedAt' \in [Listed' -> Times]
  BY <1>1 DEF Forgets, IInv, TypeOK
<1>3. gone \cap Listed = gone /\ Listed \cap gone = gone
  BY DEF Prunable
<1>4. IsFiniteSet(Listed)
  BY DEF IInv, Room
<1> QED BY <1>1, <1>2, <1>3, <1>4, FS_Difference

LEMMA PrunesKeeps == ASSUME IInv, NEW r \in Runs, Prunes(r) PROVE IInv'
<1>1. PICK gone \in SUBSET Prunable : Cardinality(gone) = RemoveCount /\ Forgets(gone)
  BY DEF Prunes
<1>2. /\ Listed' = Listed \ gone /\ startedAt' \in [Listed' -> Times]
      /\ IsFiniteSet(Listed')
      /\ Cardinality(Listed') = Cardinality(Listed) - RemoveCount
      /\ removed' = removed \cup gone
  BY <1>1, ForgetsShrinks
<1>3. /\ start[r] = "lock" /\ holder = None /\ holder' = r
      /\ start' = [start EXCEPT ![r] = "open"]
      /\ UNCHANGED <<children, announced, status, drained, exitCode>>
  BY DEF Prunes, runVars
<1>4. \A s \in Runs : start'[s] = IF s = r THEN "open" ELSE start[s]
  BY <1>3 DEF IInv, TypeOK
<1>5. gone \subseteq Listed /\ gone \subseteq Runs /\ \A s \in gone : Closable(s)
  BY DEF Prunable, IInv, TypeOK
<1>6. TypeOK'
  <2>1. start' \in [Runs -> StartSteps]
    BY <1>3 DEF IInv, TypeOK, StartSteps
  <2>2. \A s \in Runs : holder' = s <=> start'[s] \in {"open", "insert"}
    BY <1>3, <1>4, PtyRegistryAssumption DEF IInv, TypeOK
  <2> QED BY <1>2, <1>3, <1>5, <2>1, <2>2 DEF IInv, TypeOK
<1>7. Room'
  <2>1. Cardinality(Listed) \in Nat /\ Cardinality(Listed) <= MaxRuns /\ MaxRuns \in Nat \ {0}
    <3>1. IsFiniteSet(Listed) /\ Cardinality(Listed) <= MaxRuns
      BY DEF IInv, Room
    <3> QED BY <3>1, FS_CardinalityType, PtyRegistryAssumption
  <2>2. Cardinality(Listed') < MaxRuns
    BY <1>2, <2>1 DEF RemoveCount
  <2> QED BY <1>2, <2>1, <2>2, FS_CardinalityType DEF Room
<1>8. Stages'
  BY <1>2, <1>3, <1>4, <1>5, PtyRegistryAssumption DEF IInv, Stages, TypeOK, Closable
<1> QED BY <1>6, <1>7, <1>8 DEF IInv

LEMMA ClosesKeeps == ASSUME IInv, NEW r \in Runs, Closes(r) PROVE IInv'
<1>1. {r} \in SUBSET Prunable /\ Forgets({r}) /\ Cardinality({r}) = 1
  BY FS_Singleton DEF Closes
<1>2. /\ Listed' = Listed \ {r} /\ startedAt' \in [Listed' -> Times]
      /\ IsFiniteSet(Listed')
      /\ Cardinality(Listed') = Cardinality(Listed) - 1
      /\ removed' = removed \cup {r}
  BY <1>1, ForgetsShrinks
<1>3. holder = None /\ UNCHANGED <<start, holder, children, announced, status, drained, exitCode>>
  BY DEF Closes, runVars
<1>4. r \in Listed /\ Closable(r)
  BY <1>1 DEF Prunable
<1>5. TypeOK'
  BY <1>2, <1>3 DEF IInv, TypeOK
<1>6. Room'
  BY <1>2, <1>3, FS_CardinalityType, PtyRegistryAssumption DEF IInv, Room
<1>7. Stages'
  BY <1>2, <1>3, <1>4 DEF IInv, Stages, Closable
<1> QED BY <1>5, <1>6, <1>7 DEF IInv

LEMMA InsertsKeeps == ASSUME IInv, NEW r \in Runs, Inserts(r) PROVE IInv'
<1>1. PICK now \in Times :
        startedAt' = [s \in Listed \cup {r} |-> IF s = r THEN now ELSE startedAt[s]]
  BY DEF Inserts
<1>2. Listed' = Listed \cup {r} /\ startedAt' \in [Listed' -> Times]
  BY <1>1 DEF Listed, IInv, TypeOK
<1>3. /\ start[r] = "insert" /\ holder' = IF holder = r THEN None ELSE holder
      /\ start' = [start EXCEPT ![r] = "announce"]
      /\ UNCHANGED <<children, announced, removed, status, drained, exitCode>>
  BY DEF Inserts, runVars
<1>4. holder = r /\ holder' = None /\ r # None
  BY <1>3, PtyRegistryAssumption DEF IInv, TypeOK
<1>5. r \notin Listed /\ r \notin removed
  BY <1>3 DEF IInv, Stages
<1>6. \A s \in Runs : start'[s] = IF s = r THEN "announce" ELSE start[s]
  BY <1>3 DEF IInv, TypeOK
<1>7. TypeOK'
  <2>1. start' \in [Runs -> StartSteps]
    BY <1>3 DEF IInv, TypeOK, StartSteps
  <2>2. \A s \in Runs : holder' = s <=> start'[s] \in {"open", "insert"}
    BY <1>4, <1>6, PtyRegistryAssumption DEF IInv, TypeOK
  <2> QED BY <1>2, <1>3, <1>4, <2>1, <2>2 DEF IInv, TypeOK
<1>8. Room'
  <2>1. IsFiniteSet(Listed') /\ Cardinality(Listed') = Cardinality(Listed) + 1
    BY <1>2, <1>5, FS_AddElement DEF IInv, Room
  <2> QED BY <1>4, <2>1, FS_CardinalityType, PtyRegistryAssumption DEF IInv, Room
<1>9. Stages'
  BY <1>2, <1>3, <1>4, <1>5, <1>6 DEF IInv, Stages, TypeOK
<1> QED BY <1>7, <1>8, <1>9 DEF IInv

(* Every other action leaves the registry alone, and only StartFails the mutex. *)
LEMMA OthersKeep ==
    ASSUME IInv, NEW r \in Runs,
           \/ StartBegins(r) \/ LimitReached(r) \/ StartFails(r) \/ ChildSpawns(r)
           \/ Announces(r) \/ ThreadsStart(r) \/ Drains(r) \/ Ends(r)
    PROVE  IInv'
<1>1. UNCHANGED <<startedAt, removed>> /\ Listed' = Listed
  BY DEF StartBegins, LimitReached, StartFails, ChildSpawns, Announces, ThreadsStart,
         Drains, Ends, Listed
<1>2. Room'
  <2>1. holder' = holder \/ holder' = None
    BY DEF StartBegins, LimitReached, StartFails, ChildSpawns, Announces, ThreadsStart,
           Drains, Ends
  <2> QED BY <1>1, <2>1 DEF IInv, Room
<1>3. CASE StartBegins(r) \/ LimitReached(r) \/ StartFails(r) \/ ChildSpawns(r)
           \/ Announces(r) \/ ThreadsStart(r)
  <2>1. PICK step \in StartSteps :
          /\ start' = [start EXCEPT ![r] = step]
          /\ UNCHANGED <<status, drained, exitCode>>
          /\ \/ start[r] = "none" /\ step = "lock" /\ UNCHANGED <<holder, children>>
             \/ start[r] = "lock" /\ step = "refused" /\ UNCHANGED <<holder, children>>
             \/ /\ start[r] = "open" /\ step = "refused" /\ UNCHANGED children
                /\ holder' = IF holder = r THEN None ELSE holder
             \/ start[r] = "open" /\ step = "insert" /\ children' = children \cup {r}
                /\ UNCHANGED holder
             \/ start[r] = "announce" /\ step = "threads" /\ UNCHANGED <<holder, children>>
             \/ start[r] = "threads" /\ step = "over" /\ UNCHANGED <<holder, children>>
    BY <1>3 DEF StartBegins, LimitReached, StartFails, ChildSpawns, Announces, ThreadsStart,
                runVars, StartSteps
  <2>2. \A s \in Runs : start'[s] = IF s = r THEN step ELSE start[s]
    BY <2>1 DEF IInv, TypeOK
  <2>3. announced' \subseteq Runs
    BY <1>3 DEF StartBegins, LimitReached, StartFails, ChildSpawns, Announces, ThreadsStart,
                IInv, TypeOK
  <2>4. \A s \in Runs : holder' = s <=> start'[s] \in {"open", "insert"}
    BY <2>1, <2>2, PtyRegistryAssumption DEF IInv, TypeOK
  <2>5. TypeOK'
    BY <1>1, <2>1, <2>3, <2>4 DEF IInv, TypeOK
  <2>6. Stages'
    BY <1>1, <2>1, <2>2 DEF IInv, Stages, TypeOK
  <2> QED BY <1>2, <2>5, <2>6 DEF IInv
<1>4. CASE Drains(r) \/ Ends(r)
  <2>1. /\ start[r] = "over" /\ UNCHANGED <<start, holder, children, announced>>
        /\ \A s \in Runs \ {r} : status'[s] = status[s] /\ drained'[s] = drained[s]
        /\ status[r] # "running" => status'[r] = status[r]
    BY <1>4 DEF Drains, Ends, IInv, TypeOK
  <2>2. status' \in [Runs -> Statuses] /\ drained' \in [Runs -> BOOLEAN]
        /\ exitCode' \in [Runs -> BOOLEAN]
    BY <1>4 DEF Drains, Ends, IInv, TypeOK, Statuses
  <2>3. TypeOK'
    BY <1>1, <2>1, <2>2 DEF IInv, TypeOK
  <2>4. Stages'
    BY <1>1, <2>1 DEF IInv, Stages, TypeOK
  <2> QED BY <1>2, <2>3, <2>4 DEF IInv
<1> QED BY <1>3, <1>4

LEMMA Invariance == Spec => []IInv
<1>1. IInv /\ [Next]_vars => IInv'
  <2> SUFFICES ASSUME IInv, [Next]_vars PROVE IInv'
    OBVIOUS
  <2>1. CASE Next
    <3>1. PICK r \in Runs : StartBegins(r) \/ Starts(r) \/ Drains(r) \/ Ends(r) \/ Closes(r)
      BY <2>1 DEF Next
    <3> QED BY <3>1, PrunesKeeps, ClosesKeeps, InsertsKeeps, OthersKeep DEF Starts
  <2>2. CASE UNCHANGED vars
    BY <2>2 DEF vars, runVars, IInv, TypeOK, Room, Stages, Listed
  <2> QED BY <2>1, <2>2
<1> QED BY InitHolds, <1>1, PTL DEF Spec

(* Type correctness, with the mutex held by the one start between prune and insert. *)
THEOREM TypeCorrect == Spec => []TypeOK
<1>1. IInv => TypeOK
  BY DEF IInv
<1> QED BY <1>1, Invariance, PTL

(* The registry never holds more runs than its limit. *)
THEOREM RegistryBounded == Spec => []WithinLimit
<1>1. IInv => WithinLimit
  BY DEF IInv, Room, WithinLimit
<1> QED BY <1>1, Invariance, PTL

(* No child runs that is neither listed nor about to be, and they fit the limit. *)
THEOREM ChildrenTracked == Spec => []ChildrenAreTracked
<1>1. IInv => ChildrenAreTracked
  <2> SUFFICES ASSUME IInv PROVE ChildrenAreTracked
    OBVIOUS
  <2>1. LiveChildren \subseteq Listed \cup {holder} /\ LiveChildren \subseteq Runs
    BY DEF IInv, Stages, TypeOK, LiveChildren
  <2>2. IsFiniteSet(Listed) /\ Cardinality(Listed) \in Nat /\ MaxRuns \in Nat
    BY FS_CardinalityType, PtyRegistryAssumption DEF IInv, Room
  <2>3. CASE holder = None
    <3>1. LiveChildren \subseteq Listed
      BY <2>1, <2>3, PtyRegistryAssumption
    <3>2. IsFiniteSet(LiveChildren) /\ Cardinality(LiveChildren) <= Cardinality(Listed)
      BY <2>2, <3>1, FS_Subset
    <3> QED BY <2>1, <2>2, <3>2, FS_CardinalityType DEF IInv, Room, ChildrenAreTracked
  <2>4. CASE holder # None
    <3>1. holder \notin Listed
      BY <2>4 DEF IInv, Stages, TypeOK
    <3>2. /\ IsFiniteSet(Listed \cup {holder})
          /\ Cardinality(Listed \cup {holder}) = Cardinality(Listed) + 1
      BY <2>2, <3>1, FS_AddElement
    <3>3. IsFiniteSet(LiveChildren)
          /\ Cardinality(LiveChildren) <= Cardinality(Listed \cup {holder})
      BY <2>1, <3>2, FS_Subset
    <3> QED BY <2>1, <2>2, <2>4, <3>2, <3>3, FS_CardinalityType
            DEF IInv, Room, ChildrenAreTracked
  <2> QED BY <2>3, <2>4
<1> QED BY <1>1, Invariance, PTL

(* The creation event comes after the registry entry, which is still there. *)
THEOREM EventFollowsEntry == Spec => EventAfterEntry
<1>1. IInv /\ [Next]_vars => [announced' \ announced \subseteq Listed']_vars
  <2> SUFFICES ASSUME IInv, Next PROVE announced' \ announced \subseteq Listed'
    BY DEF vars
  <2>1. PICK r \in Runs : StartBegins(r) \/ Starts(r) \/ Drains(r) \/ Ends(r) \/ Closes(r)
    BY DEF Next
  <2>2. CASE Announces(r)
    <3>1. r \in Listed /\ Listed' = Listed
      BY <2>2 DEF Announces, IInv, Stages, Listed
    <3> QED BY <2>2, <3>1 DEF Announces
  <2>3. CASE ~Announces(r)
    BY <2>1, <2>3 DEF Starts, StartBegins, Prunes, LimitReached, StartFails, ChildSpawns,
                      Inserts, ThreadsStart, Drains, Ends, Closes
  <2> QED BY <2>2, <2>3
<1>2. Spec => [][Next]_vars
  BY DEF Spec
<1> QED BY <1>1, <1>2, Invariance, PTL DEF EventAfterEntry

(* Every run lives the life RunLifecycle describes. *)
THEOREM LivesAreLifecycles == Spec => RunsHaveLifecycle
<1>1. IInv /\ [Next]_vars => [LivesOn]_vars
  <2> SUFFICES ASSUME IInv, Next, NEW s \in Runs PROVE Life(s)!Next \/ UNCHANGED Life(s)!vars
    BY DEF vars, LivesOn
  <2>1. PICK r \in Runs : StartBegins(r) \/ Starts(r) \/ Drains(r) \/ Ends(r) \/ Closes(r)
    BY DEF Next
  <2>2. CASE UNCHANGED <<removed, status, drained, exitCode>>
    BY <2>2, Zenon DEF Life!vars
  <2>3. CASE Drains(r)
    BY <2>3 DEF Drains, IInv, TypeOK, Life!Next, Life!Drain, Life!vars
  <2>4. CASE Ends(r)
    BY <2>4 DEF Ends, IInv, TypeOK, Life!Next, Life!Exit, Life!Fail, Life!vars
  <2>5. ASSUME NEW gone \in SUBSET Prunable, Forgets(gone), UNCHANGED <<status, drained, exitCode>>
        PROVE  Life(s)!Next \/ UNCHANGED Life(s)!vars
    <3>1. \A t \in gone : t \notin removed /\ Closable(t)
      BY DEF Prunable, IInv, Stages
    <3>2. removed' = removed \cup gone
      BY <2>5 DEF Forgets
    <3>3. CASE s \in gone
      BY <2>5, <3>1, <3>2, <3>3 DEF Closable, Life!Next, Life!Remove, Life!Closable
    <3>4. CASE s \notin gone
      BY <2>5, <3>2, <3>4 DEF Life!vars
    <3> QED BY <3>3, <3>4
  <2>6. CASE Prunes(r)
    BY <2>5, <2>6 DEF Prunes, runVars
  <2>7. CASE Closes(r)
    BY <2>5, <2>7 DEF Closes, runVars
  <2> QED BY <2>1, <2>2, <2>3, <2>4, <2>6, <2>7
          DEF Starts, StartBegins, LimitReached, StartFails, ChildSpawns, Inserts, Announces,
              ThreadsStart, runVars
<1>2. Spec => [][Next]_vars
  BY DEF Spec
<1> QED BY <1>1, <1>2, Invariance, PTL DEF RunsHaveLifecycle

-------------------------------------------------------------------------------
(* TerminalStream, for every size of frames, buffer, batch and queue and every    *)
(* length of the output.  The argument: what a terminal has been through and what *)
(* waits in it lies within the run's output, what it is told of an exit is the    *)
(* exit's own last frame, and a batch begins at the latest right after what was   *)
(* shown, unless the replay has lost the rest.                                    *)

Snapshots == [status : {"running", "exited", "failed"}, first : Nat \ {0}, last : Nat]
Told == [status : {"exited", "failed"}, last : Nat]
Batches == [run : Snapshots, from : Nat \ {0}, upto : Nat, gap : BOOLEAN]
Terminals == [at : {"none", "subscribing", "hydrating", "live"}, listening : BOOLEAN,
              streaming : BOOLEAN, seen : Nat, pending : SUBSET Nat, page : Nat, mark : Nat,
              screen : Seq(Nat)]
Reads == [at : {"none", "failed"}] \cup [at : {"sent"}, after : Nat]
         \cup [at : {"answered"}, batch : Batches]

StreamTypes ==
    /\ frames \in Seq(Sizes)
    /\ run \in Snapshots /\ run.last <= MaxOutput
    /\ reader \in {"reading", "eof", "error"} /\ listed \in BOOLEAN
    /\ sent \subseteq 1 .. run.last
    /\ news \subseteq Told
    /\ read \in Reads
    /\ term \in Terminals

(* The replay holds the end of the output, within its limits. *)
Replay ==
    /\ Len(frames) <= run.last /\ run.first = run.last + 1 - Len(frames)
    /\ Fits(frames)

(* An exit follows the end of the output. *)
ExitedAtEnd == run.status = "exited" => reader = "eof"

(* News of an end say how the run ended, and an exit with its last frame. *)
Says(news_, r) ==
    \A s \in news_ : s.status = r.status /\ (s.status = "exited" => s.last = r.last)

(* A snapshot that a batch was taken with, seen later. *)
Earlier(s, r) ==
    /\ s.status \in {"running", r.status}
    /\ s.last <= r.last /\ s.first <= r.first /\ s.first <= s.last + 1
    /\ s.status = "exited" => s.last = r.last

(* A terminal within the first n frames. *)
Near(t, n) == t.seen <= n /\ t.pending \subseteq 1 .. n

(* The read under way is that of a mounted terminal and begins where it was. *)
Follows(batch, t, r) ==
    /\ Earlier(batch.run, r)
    /\ batch.upto <= batch.run.last
    /\ IF batch.gap THEN batch.from = batch.run.first ELSE batch.from <= t.seen + 1

Reading(rd, t, r) ==
    /\ rd.at # "none" => t.at \in {"hydrating", "live"}
    /\ rd.at = "sent" => rd.after <= t.seen
    /\ rd.at = "answered" => Follows(rd.batch, t, r)

(* A terminal that has stopped knows how the run ended. *)
Stopped(t, r) ==
    t.at # "none" /\ ~t.streaming =>
        r.status # "running" /\ (r.status = "exited" => t.seen >= r.last)

(* A screen that shows the output as it was written, up to the last frame that was *)
(* shown, or with a note at its end.                                               *)
Clean(t) ==
    /\ AsWritten(t.screen)
    /\ \A i \in 1 .. Len(t.screen) : t.screen[i] <= t.seen
    /\ IF t.screen = <<>> THEN t.seen = 0 ELSE t.screen[Len(t.screen)] \in {Gap, t.seen}

StreamInv ==
    /\ StreamTypes
    /\ Replay
    /\ ExitedAtEnd
    /\ Says(news, run)
    /\ Near(term, run.last)
    /\ Reading(read, term, run)
    /\ Stopped(term, run)
    /\ Clean(term)

-------------------------------------------------------------------------------
(* The least element of a set of naturals, for what the module CHOOSEs. *)

Before == {p \in Nat \X Nat : p[1] < p[2]}

LEMMA Least ==
  ASSUME NEW T \in SUBSET Nat, T # {} PROVE \E m \in T : \A k \in T : m <= k
<1>1. IsWellFoundedOn(Before, Nat)
  <2>1. Before = OpToRel(<, Nat)
    BY DEF OpToRel, Before
  <2> QED BY <2>1, NatLessThanWellFounded
<1>2. PICK m \in T : \A k \in T : ~ (<<k, m>> \in Before)
  BY <1>1, WFMin
<1>3. ASSUME NEW k \in T PROVE m <= k
  <2>1. k \in Nat /\ m \in Nat /\ ~ (<<k, m>> \in Before)
    BY <1>2
  <2>2. <<k, m>> \in Nat \X Nat /\ <<k, m>>[1] = k /\ <<k, m>>[2] = m
    BY <2>1
  <2>3. ~ (k < m)
    BY <2>1, <2>2 DEF Before
  <2> QED BY <2>1, <2>3
<1> QED BY <1>3

(* Retained cuts at the first place where the rest fits: the empty rest does. *)
LEMMA NothingFits == Fits(<<>>)
<1> DEFINE sum(f) == f = [i \in 0 .. 0 |-> IF i = 0 THEN 0 ELSE f[i - 1] + <<>>[i]]
           f == CHOOSE g : sum(g)
<1>1. sum([i \in 0 .. 0 |-> 0])
  OBVIOUS
<1>2. sum(f)
  BY <1>1
<1>3. Bytes(<<>>) = f[0] /\ Len(<<>>) = 0
  BY DEF Bytes
<1> HIDE DEF f
<1>4. f[0] = 0
  BY <1>2
<1> QED BY <1>3, <1>4, TerminalStreamAssumption DEF Fits

LEMMA RetainedFits ==
  ASSUME NEW s \in Seq(Sizes)
  PROVE  /\ Retained(s) \in Seq(Sizes) /\ Len(Retained(s)) <= Len(s)
         /\ Fits(Retained(s))
<1> DEFINE Rest(n) == SubSeq(s, n + 1, Len(s))
           T == {n \in 0 .. Len(s) : Fits(Rest(n))}
           Cut(n) == Fits(Rest(n)) /\ \A m \in 0 .. n - 1 : ~Fits(Rest(m))
           cut == CHOOSE n \in 0 .. Len(s) : Cut(n)
<1>1. Len(s) \in Nat /\ Rest(Len(s)) = <<>>
  OBVIOUS
<1>2. Len(s) \in T
  <2> HIDE DEF Rest
  <2>1. Fits(Rest(Len(s)))
    BY <1>1, NothingFits
  <2> QED BY <1>1, <2>1
<1>3. PICK n \in T : \A m \in T : n <= m
  <2>1. T \in SUBSET Nat
    BY <1>1
  <2> QED BY <1>2, <2>1, Least
<1>4. n \in 0 .. Len(s) /\ Cut(n)
  <2>1. ASSUME NEW m \in 0 .. n - 1 PROVE ~Fits(Rest(m))
    <3>1. n \in Nat /\ m \in 0 .. Len(s) /\ ~(n <= m)
      BY <1>1, <1>3, <2>1
    <3> HIDE DEF Rest
    <3> QED BY <1>3, <3>1
  <2> QED BY <1>3, <2>1
<1>5. Retained(s) = Rest(cut)
  BY DEF Retained
<1> HIDE DEF Cut
<1>6. cut \in 0 .. Len(s) /\ Cut(cut)
  BY <1>4
<1> HIDE DEF cut
<1>7. Rest(cut) \in Seq(Sizes) /\ Len(Rest(cut)) <= Len(s)
  BY <1>1, <1>6
<1> QED BY <1>5, <1>6, <1>7 DEF Cut

-------------------------------------------------------------------------------
(* What the terminal's operations do to it. *)

Extends(a, b) == Len(a) <= Len(b) /\ \A i \in 1 .. Len(a) : b[i] = a[i]
OnScreen(k, t) == \E i \in 1 .. Len(t.screen) : t.screen[i] = k

(* From t to u within n frames, without leaving one out. *)
Goes(t, u, n) ==
    /\ u \in Terminals /\ Near(u, n)
    /\ t.seen <= u.seen
    /\ Extends(t.screen, u.screen)
    /\ \A k \in t.seen + 1 .. u.seen : OnScreen(k, u)
    /\ Clean(t) => Clean(u)

(* From t to u, leaving out only frames before the first one of the replay. *)
Loses(t, u, first) ==
    \A k \in t.seen + 1 .. u.seen :
        OnScreen(k, u) \/ (k < first /\ \E i \in 1 .. Len(u.screen) :
                                            i >= Len(t.screen) /\ u.screen[i] = Gap)

Alike(t, u) == u.at = t.at /\ u.streaming = t.streaming

LEMMA TerminalFields ==
  ASSUME NEW t \in Terminals
  PROVE  /\ t.seen \in Nat /\ t.pending \in SUBSET Nat /\ t.screen \in Seq(Nat)
         /\ Len(t.screen) \in Nat
         /\ t.at \in {"none", "subscribing", "hydrating", "live"}
         /\ t.streaming \in BOOLEAN /\ t.listening \in BOOLEAN
         /\ t.page \in Nat /\ t.mark \in Nat
  BY DEF Terminals

LEMMA ExtendsOn ==
  ASSUME NEW a \in Seq(Nat), NEW b \in Seq(Nat), NEW c \in Seq(Nat), Extends(a, b), Extends(b, c)
  PROVE  Extends(a, c)
<1>1. Len(a) \in Nat /\ Len(b) \in Nat /\ Len(c) \in Nat
  OBVIOUS
<1> QED BY <1>1 DEF Extends

LEMMA GoesNowhere ==
  ASSUME NEW t \in Terminals, NEW u \in Terminals, NEW n, Near(u, n),
         u.seen = t.seen, u.screen = t.screen
  PROVE  Goes(t, u, n)
  BY TerminalFields DEF Goes, Extends, Clean

LEMMA GoesOn ==
  ASSUME NEW t \in Terminals, NEW u, NEW v, NEW n, Goes(t, u, n), Goes(u, v, n)
  PROVE  Goes(t, v, n)
<1>1. u \in Terminals /\ v \in Terminals /\ Near(v, n)
  BY DEF Goes
<1>2. /\ t.seen \in Nat /\ u.seen \in Nat /\ v.seen \in Nat /\ t.seen <= u.seen /\ u.seen <= v.seen
      /\ t.screen \in Seq(Nat) /\ u.screen \in Seq(Nat) /\ v.screen \in Seq(Nat)
      /\ Len(u.screen) \in Nat /\ Len(v.screen) \in Nat
  BY <1>1, TerminalFields DEF Goes
<1>3. Extends(t.screen, v.screen)
  BY <1>2, ExtendsOn DEF Goes
<1>4. ASSUME NEW k \in t.seen + 1 .. v.seen PROVE OnScreen(k, v)
  <2>1. CASE k > u.seen
    BY <1>2, <2>1 DEF Goes
  <2>2. CASE k <= u.seen
    <3>1. PICK i \in 1 .. Len(u.screen) : u.screen[i] = k
      BY <1>2, <2>2 DEF Goes, OnScreen
    <3>2. Len(u.screen) <= Len(v.screen) /\ v.screen[i] = u.screen[i]
      BY <3>1 DEF Goes, Extends
    <3>3. v.screen[i] = k /\ i \in 1 .. Len(v.screen)
      BY <1>2, <3>1, <3>2
    <3> QED BY <3>3 DEF OnScreen
  <2> QED BY <1>2, <2>1, <2>2
<1> QED BY <1>1, <1>2, <1>3, <1>4 DEF Goes

(* A frame that was left out before stays lost, and its note stays. *)
LEMMA LosesOn ==
  ASSUME NEW t \in Terminals, NEW u \in Terminals, NEW v, NEW n, NEW first,
         Loses(t, u, first), t.seen <= u.seen, Goes(u, v, n)
  PROVE  Loses(t, v, first)
<1>1. /\ t.seen \in Nat /\ u.seen \in Nat /\ v.seen \in Nat /\ u.seen <= v.seen
      /\ Len(t.screen) \in Nat /\ Len(u.screen) \in Nat /\ Len(v.screen) \in Nat
  BY TerminalFields DEF Goes
<1>2. ASSUME NEW i \in 1 .. Len(u.screen)
      PROVE  i \in 1 .. Len(v.screen) /\ v.screen[i] = u.screen[i]
  BY <1>1 DEF Goes, Extends
<1> SUFFICES ASSUME NEW k \in t.seen + 1 .. v.seen, ~OnScreen(k, v)
             PROVE  k < first /\ \E i \in 1 .. Len(v.screen) :
                                    i >= Len(t.screen) /\ v.screen[i] = Gap
  BY DEF Loses
<1>3. k \in t.seen + 1 .. u.seen
  BY <1>1 DEF Goes
<1>4. ~OnScreen(k, u)
  BY <1>2 DEF OnScreen
<1>5. k < first /\ \E i \in 1 .. Len(u.screen) : i >= Len(t.screen) /\ u.screen[i] = Gap
  BY <1>3, <1>4 DEF Loses
<1> QED BY <1>2, <1>5

LEMMA GoesLosesNothing ==
  ASSUME NEW t, NEW u, NEW n, NEW first, Goes(t, u, n) PROVE Loses(t, u, first)
  BY DEF Goes, Loses

LEMMA NoteMarks ==
  ASSUME NEW t \in Terminals
  PROVE  /\ Note(t) \in Terminals
         /\ Note(t).seen = t.seen /\ Note(t).pending = t.pending
         /\ Alike(t, Note(t))
         /\ Extends(t.screen, Note(t).screen)
         /\ \E i \in 1 .. Len(Note(t).screen) :
               i >= Len(t.screen) /\ Note(t).screen[i] = Gap
<1>1. t.screen \in Seq(Nat) /\ Len(t.screen) \in Nat
  BY TerminalFields
<1>2. CASE t.screen # <<>> /\ t.screen[Len(t.screen)] = Gap
  <2>1. Note(t) = t
    BY <1>2 DEF Note
  <2>2. Len(t.screen) \in 1 .. Len(t.screen)
    BY <1>1, <1>2
  <2> QED BY <1>1, <1>2, <2>1, <2>2 DEF Alike, Extends
<1>3. CASE ~(t.screen # <<>> /\ t.screen[Len(t.screen)] = Gap)
  <2> DEFINE s == Append(t.screen, Gap)
  <2>1. Note(t) = [t EXCEPT !.screen = s]
    BY <1>3 DEF Note
  <2>2. /\ s \in Seq(Nat) /\ Len(s) = Len(t.screen) + 1 /\ s[Len(s)] = Gap
        /\ Extends(t.screen, s)
    BY <1>1 DEF Gap, Extends
  <2> HIDE DEF s
  <2>3. Note(t) \in Terminals /\ Note(t).screen = s /\ Alike(t, Note(t))
        /\ Note(t).seen = t.seen /\ Note(t).pending = t.pending
    BY <2>1, <2>2 DEF Terminals, Alike
  <2>4. Len(s) \in 1 .. Len(s) /\ Len(s) >= Len(t.screen)
    BY <1>1, <2>2
  <2> QED BY <2>2, <2>3, <2>4
<1> QED BY <1>2, <1>3

LEMMA NoteIsClean ==
  ASSUME NEW t \in Terminals, Clean(t), NEW u \in Terminals,
         u.screen = Note(t).screen, t.seen <= u.seen
  PROVE  Clean(u)
<1>1. /\ t.screen \in Seq(Nat) /\ Len(t.screen) \in Nat /\ t.seen \in Nat /\ u.seen \in Nat
      /\ DOMAIN t.screen = 1 .. Len(t.screen)
  BY TerminalFields
<1>2. \A i \in 1 .. Len(t.screen) : t.screen[i] \in Nat /\ t.screen[i] <= t.seen
  BY <1>1 DEF Clean
<1>3. CASE t.screen # <<>> /\ t.screen[Len(t.screen)] = Gap
  <2>1. u.screen = t.screen
    BY <1>3 DEF Note
  <2> QED BY <1>1, <1>2, <1>3, <2>1 DEF Clean
<1>4. CASE ~(t.screen # <<>> /\ t.screen[Len(t.screen)] = Gap)
  <2> DEFINE s == Append(t.screen, Gap)
  <2>1. u.screen = s
    <3>1. Note(t) = [t EXCEPT !.screen = s]
      BY <1>4 DEF Note
    <3> HIDE DEF s
    <3> QED BY <3>1 DEF Terminals
  <2>2. /\ s # <<>> /\ Len(s) = Len(t.screen) + 1 /\ DOMAIN s = 1 .. Len(t.screen) + 1
        /\ s[Len(t.screen) + 1] = Gap
        /\ \A i \in 1 .. Len(t.screen) : s[i] = t.screen[i]
    BY <1>1 DEF Gap
  <2> HIDE DEF s
  <2>3. AsWritten(s)
    <3> SUFFICES ASSUME NEW i \in 1 .. Len(t.screen) + 1, s[i] # Gap
                 PROVE  /\ \A j \in 1 .. i - 1 : s[j] < s[i]
                        /\ s[i] = 1 \/ (i > 1 /\ s[i - 1] \in {Gap, s[i] - 1})
      BY <2>2 DEF AsWritten
    <3>1. i \in 1 .. Len(t.screen) /\ \A j \in 1 .. i - 1 : j \in 1 .. Len(t.screen)
      BY <1>1, <2>2
    <3>2. /\ \A j \in 1 .. i - 1 : t.screen[j] < t.screen[i]
          /\ t.screen[i] = 1 \/ (i > 1 /\ t.screen[i - 1] \in {Gap, t.screen[i] - 1})
      BY <1>1, <2>2, <3>1 DEF Clean, AsWritten
    <3>3. i > 1 => i - 1 \in 1 .. i - 1
      BY <3>1
    <3> QED BY <2>2, <3>1, <3>2, <3>3
  <2>4. \A i \in 1 .. Len(s) : s[i] <= u.seen
    <3> SUFFICES ASSUME NEW i \in 1 .. Len(t.screen) + 1 PROVE s[i] <= u.seen
      BY <2>2
    <3>1. CASE i = Len(t.screen) + 1
      BY <1>1, <2>2, <3>1 DEF Gap
    <3>2. CASE i # Len(t.screen) + 1
      <4>1. i \in 1 .. Len(t.screen)
        BY <1>1, <3>2
      <4>2. s[i] \in Nat /\ s[i] <= t.seen
        BY <1>2, <2>2, <4>1
      <4> QED BY <1>1, <4>2
    <3> QED BY <3>1, <3>2
  <2> QED BY <2>1, <2>2, <2>3, <2>4 DEF Clean
<1> QED BY <1>3, <1>4

(* Lines that go on behind the last frame shown keep a screen clean. *)
LEMMA LinesGoOn ==
  ASSUME NEW a, NEW s, NEW l \in Nat, NEW seen \in Nat, NEW m \in Nat \ {0},
         DOMAIN a = 1 .. l, DOMAIN s = 1 .. l + m,
         AsWritten(a), IF l = 0 THEN seen = 0 ELSE a[l] \in {Gap, seen},
         \A i \in 1 .. l : a[i] \in Nat /\ a[i] <= seen /\ s[i] = a[i],
         \A i \in 1 .. m : s[l + i] = seen + i
  PROVE  AsWritten(s) /\ \A i \in 1 .. l + m : s[i] <= seen + m
<1>1. ASSUME NEW i \in 1 .. l + m, ~(i <= l)
      PROVE  i - l \in 1 .. m /\ s[i] = seen + (i - l)
  <2>1. i - l \in 1 .. m /\ i = l + (i - l)
    BY <1>1
  <2> QED BY <2>1
<1>2. ASSUME NEW i \in 1 .. l, s[i] # Gap
      PROVE  /\ \A j \in 1 .. i - 1 : s[j] < s[i]
             /\ s[i] = 1 \/ (i > 1 /\ s[i - 1] \in {Gap, s[i] - 1})
  <2>1. \A j \in 1 .. i - 1 : j \in 1 .. l
    OBVIOUS
  <2>2. /\ \A j \in 1 .. i - 1 : a[j] < a[i]
        /\ a[i] = 1 \/ (i > 1 /\ a[i - 1] \in {Gap, a[i] - 1})
    BY <1>2 DEF AsWritten
  <2>3. i > 1 => i - 1 \in 1 .. i - 1
    OBVIOUS
  <2> QED BY <2>1, <2>2, <2>3
<1>3. ASSUME NEW i \in 1 .. l + m, ~(i <= l), NEW j \in 1 .. i - 1 PROVE s[j] < s[i]
  <2>1. i - l \in 1 .. m /\ s[i] = seen + (i - l) /\ j \in 1 .. l + m
    BY <1>1, <1>3
  <2>2. CASE j <= l
    <3>1. s[j] \in Nat /\ s[j] <= seen
      BY <2>2
    <3> QED BY <2>1, <3>1
  <2>3. CASE ~(j <= l)
    <3>1. s[j] = seen + (j - l)
      BY <1>1, <2>1, <2>3
    <3>2. seen + (j - l) < seen + (i - l)
      OBVIOUS
    <3> QED BY <2>1, <3>1, <3>2
  <2> QED BY <2>2, <2>3
<1>4. ASSUME NEW i \in 1 .. l + m, ~(i <= l)
      PROVE  s[i] = 1 \/ (i > 1 /\ s[i - 1] \in {Gap, s[i] - 1})
  <2>1. i - l \in 1 .. m /\ s[i] = seen + (i - l)
    BY <1>1, <1>4
  <2>2. CASE i > l + 1
    <3>1. i - 1 \in 1 .. l + m /\ ~(i - 1 <= l) /\ i > 1
      BY <2>2
    <3>2. s[i - 1] = seen + ((i - 1) - l)
      BY <1>1, <3>1
    <3>3. seen + ((i - 1) - l) = (seen + (i - l)) - 1
      OBVIOUS
    <3> QED BY <2>1, <3>1, <3>2, <3>3
  <2>3. CASE i = l + 1 /\ l = 0
    BY <2>1, <2>3
  <2>4. CASE i = l + 1 /\ l # 0
    <3>1. i - 1 = l /\ i > 1 /\ l \in 1 .. l /\ s[i] = seen + 1
      BY <2>1, <2>4
    <3>2. s[l] \in {Gap, seen}
      BY <2>4, <3>1
    <3>3. (seen + 1) - 1 = seen
      OBVIOUS
    <3> QED BY <3>1, <3>2, <3>3
  <2> QED BY <1>4, <2>2, <2>3, <2>4
<1>5. AsWritten(s)
  <2> SUFFICES ASSUME NEW i \in 1 .. l + m, s[i] # Gap
               PROVE  /\ \A j \in 1 .. i - 1 : s[j] < s[i]
                      /\ s[i] = 1 \/ (i > 1 /\ s[i - 1] \in {Gap, s[i] - 1})
    BY DEF AsWritten
  <2>1. CASE i <= l
    <3>1. i \in 1 .. l
      BY <2>1
    <3> QED BY <1>2, <3>1
  <2>2. CASE ~(i <= l)
    <3>1. \A j \in 1 .. i - 1 : s[j] < s[i]
      BY <1>3, <2>2
    <3>2. s[i] = 1 \/ (i > 1 /\ s[i - 1] \in {Gap, s[i] - 1})
      BY <1>4, <2>2
    <3> QED BY <3>1, <3>2
  <2> QED BY <2>1, <2>2
<1>6. ASSUME NEW i \in 1 .. l + m PROVE s[i] <= seen + m
  <2>1. CASE i <= l
    <3>1. s[i] \in Nat /\ s[i] <= seen
      BY <2>1
    <3> QED BY <3>1
  <2>2. CASE ~(i <= l)
    <3>1. i - l \in 1 .. m /\ s[i] = seen + (i - l)
      BY <1>1, <2>2
    <3> QED BY <3>1
  <2> QED BY <2>1, <2>2
<1> QED BY <1>5, <1>6

LEMMA GoesOnCleanly ==
  ASSUME NEW t \in Terminals, Clean(t), NEW u \in Terminals, NEW m \in Nat \ {0},
         u.seen = t.seen + m, Len(u.screen) = Len(t.screen) + m,
         \A i \in 1 .. Len(t.screen) : u.screen[i] = t.screen[i],
         \A i \in 1 .. m : u.screen[Len(t.screen) + i] = t.seen + i
  PROVE  Clean(u)
<1>1. t.screen \in Seq(Nat) /\ u.screen \in Seq(Nat) /\ t.seen \in Nat
  BY TerminalFields
<1>2. /\ Len(t.screen) \in Nat /\ DOMAIN t.screen = 1 .. Len(t.screen)
      /\ DOMAIN u.screen = 1 .. Len(t.screen) + m /\ u.screen # <<>>
      /\ \A i \in 1 .. Len(t.screen) : t.screen[i] \in Nat
  <2>1. Len(t.screen) \in Nat /\ DOMAIN t.screen = 1 .. Len(t.screen)
    BY <1>1
  <2>2. DOMAIN u.screen = 1 .. Len(u.screen)
    BY <1>1
  <2>3. \A i \in DOMAIN t.screen : t.screen[i] \in Nat
    BY <1>1, <2>1, ElementOfSeq
  <2>4. u.screen # <<>>
    <3>1. Len(u.screen) # 0
      BY <2>1
    <3> QED BY <3>1
  <2> QED BY <2>1, <2>2, <2>3, <2>4
<1>3. /\ AsWritten(t.screen) /\ \A i \in 1 .. Len(t.screen) : t.screen[i] <= t.seen
      /\ IF Len(t.screen) = 0 THEN t.seen = 0 ELSE t.screen[Len(t.screen)] \in {Gap, t.seen}
  BY <1>1 DEF Clean
<1>4. /\ AsWritten(u.screen)
      /\ \A i \in 1 .. Len(t.screen) + m : u.screen[i] <= t.seen + m
  <2>1. \A i \in 1 .. Len(t.screen) : /\ t.screen[i] \in Nat /\ t.screen[i] <= t.seen
                                     /\ u.screen[i] = t.screen[i]
    BY <1>2, <1>3
  <2> QED BY <1>1, <1>2, <1>3, <2>1, LinesGoOn
<1>5. u.screen[Len(u.screen)] = u.seen
  <2>1. m \in 1 .. m
    OBVIOUS
  <2> QED BY <2>1
<1> QED BY <1>2, <1>4, <1>5 DEF Clean

LEMMA ShowGoes ==
  ASSUME NEW t \in Terminals, NEW n \in Nat, Near(t, n),
         NEW from \in Nat \ {0}, from <= t.seen + 1, NEW upto \in Nat, upto <= n
  PROVE  /\ Goes(t, Show(t, from, upto), n) /\ Alike(t, Show(t, from, upto))
         /\ Show(t, from, upto).pending = t.pending
<1> DEFINE u == Show(t, from, upto)
           next == IF from <= t.seen THEN t.seen + 1 ELSE from
           line == [i \in 1 .. upto - t.seen |-> t.seen + i]
<1>1. t.seen \in Nat /\ t.screen \in Seq(Nat) /\ Len(t.screen) \in Nat
  BY TerminalFields
<1>2. u = IF upto < t.seen + 1 THEN t ELSE [t EXCEPT !.seen = upto, !.screen = @ \o line]
  <2>1. next = t.seen + 1
    BY <1>1
  <2>2. u = IF upto < next THEN t
            ELSE [(IF next > t.seen + 1 THEN Note(t) ELSE t) EXCEPT
                     !.seen = upto,
                     !.screen = @ \o [i \in 1 .. upto + 1 - next |-> next + i - 1]]
    BY DEF Show
  <2> HIDE DEF next, u
  <2>3. [i \in 1 .. upto + 1 - next |-> next + i - 1] = line
    <3>1. upto + 1 - next = upto - t.seen
      BY <1>1, <2>1
    <3>2. \A i \in 1 .. upto - t.seen : next + i - 1 = t.seen + i
      BY <1>1, <2>1
    <3> QED BY <3>1, <3>2
  <2>4. (IF next > t.seen + 1 THEN Note(t) ELSE t) = t
    BY <1>1, <2>1
  <2> HIDE DEF line
  <2> QED BY <2>1, <2>2, <2>3, <2>4
<1> HIDE DEF u
<1>3. CASE upto < t.seen + 1
  BY <1>2, <1>3, GoesNowhere DEF Alike, u
<1>4. CASE ~(upto < t.seen + 1)
  <2>0. upto - t.seen \in Nat
    BY <1>1, <1>4
  <2>1. line \in Seq(Nat) /\ Len(line) = upto - t.seen
    <3>1. \A i \in 1 .. upto - t.seen : t.seen + i \in Nat
      BY <1>1, <2>0
    <3>2. line \in [1 .. upto - t.seen -> Nat]
      BY <3>1
    <3> HIDE DEF line
    <3> QED BY <2>0, <3>2
  <2>2. \A i \in 1 .. upto - t.seen : line[i] = t.seen + i
    OBVIOUS
  <2> HIDE DEF line
  <2> DEFINE s == t.screen \o line
  <2>3. /\ s \in Seq(Nat) /\ Len(s) = Len(t.screen) + (upto - t.seen)
        /\ \A i \in 1 .. Len(t.screen) : s[i] = t.screen[i]
        /\ \A i \in 1 .. upto - t.seen : s[Len(t.screen) + i] = line[i]
    <3>1. /\ s \in Seq(Nat) /\ Len(s) = Len(t.screen) + Len(line)
          /\ \A i \in 1 .. Len(t.screen) + Len(line) :
                s[i] = IF i <= Len(t.screen) THEN t.screen[i] ELSE line[i - Len(t.screen)]
      BY <1>1, <2>1, ConcatProperties
    <3> HIDE DEF s
    <3>2. ASSUME NEW i \in 1 .. Len(t.screen) PROVE s[i] = t.screen[i]
      <4>1. i \in 1 .. Len(t.screen) + Len(line) /\ i <= Len(t.screen)
        <5>1. Len(line) \in Nat /\ Len(t.screen) \in Nat
          BY <1>1, <2>0, <2>1
        <5> QED BY <5>1
      <4> QED BY <3>1, <4>1, Zenon
    <3>3. ASSUME NEW i \in 1 .. upto - t.seen PROVE s[Len(t.screen) + i] = line[i]
      <4>0. i \in Nat \ {0} /\ i <= Len(line) /\ Len(line) \in Nat
        BY <1>1, <2>0, <2>1
      <4>1. /\ Len(t.screen) + i \in 1 .. Len(t.screen) + Len(line)
            /\ ~(Len(t.screen) + i <= Len(t.screen)) /\ (Len(t.screen) + i) - Len(t.screen) = i
        BY <1>1, <4>0
      <4> QED BY <3>1, <4>1, Zenon
    <3> QED BY <2>1, <3>1, <3>2, <3>3
  <2>4. u = [t EXCEPT !.seen = upto, !.screen = s]
    BY <1>2, <1>4
  <2> HIDE DEF s
  <2>5. u \in Terminals /\ u.seen = upto /\ u.screen = s /\ u.pending = t.pending /\ Alike(t, u)
    BY <2>3, <2>4 DEF Terminals, Alike
  <2>6. ASSUME NEW k \in t.seen + 1 .. upto PROVE OnScreen(k, u)
    <3>1. PICK i \in 1 .. upto - t.seen : t.seen + i = k
      <4>1. k - t.seen \in 1 .. upto - t.seen /\ t.seen + (k - t.seen) = k
        BY <1>1
      <4> QED BY <4>1
    <3>2. s[Len(t.screen) + i] = k
      BY <2>2, <2>3, <3>1
    <3>3. Len(t.screen) + i \in 1 .. Len(s)
      <4>1. Len(s) = Len(t.screen) + (upto - t.seen)
        BY <2>3
      <4>2. i \in Nat \ {0} /\ i <= upto - t.seen /\ Len(t.screen) \in Nat
        BY <1>1, <2>0
      <4> HIDE DEF s
      <4> QED BY <2>0, <4>1, <4>2
    <3> QED BY <2>5, <3>2, <3>3 DEF OnScreen
  <2>7. Extends(t.screen, u.screen)
    <3>1. Len(t.screen) <= Len(t.screen) + (upto - t.seen)
      BY <1>1, <2>0
    <3> QED BY <2>3, <2>5, <3>1 DEF Extends
  <2>8. Near(u, n) /\ t.seen <= u.seen
    BY <1>1, <1>4, <2>5 DEF Near
  <2>9. ASSUME Clean(t) PROVE Clean(u)
    <3>1. upto - t.seen \in Nat \ {0} /\ u.seen = t.seen + (upto - t.seen)
      BY <1>1, <1>4, <2>0, <2>5
    <3> QED BY <2>2, <2>3, <2>5, <2>9, <3>1, GoesOnCleanly
  <2> QED BY <2>5, <2>6, <2>7, <2>8, <2>9 DEF Goes, u
<1> QED BY <1>3, <1>4

(* Reach stops at what has arrived. *)
LEMMA ReachIsNear ==
  ASSUME NEW t \in Terminals, NEW n \in Nat, n <= MaxOutput, Near(t, n)
  PROVE  Reach(t) \in t.seen .. n
<1> DEFINE End(k) == t.seen + 1 .. k \subseteq t.pending /\ k + 1 \notin t.pending
           T == {k \in Nat : t.seen <= k /\ k + 1 \notin t.pending}
<1>1. t.seen \in Nat /\ t.seen <= n /\ t.pending \subseteq 1 .. n /\ MaxOutput \in Nat
  BY TerminalFields, TerminalStreamAssumption DEF Near
<1>2. n \in T
  BY <1>1
<1>3. PICK m \in T : \A k \in T : m <= k
  BY <1>2, Least
<1>4. m \in t.seen .. MaxOutput /\ End(m)
  <2>1. m \in Nat /\ t.seen <= m /\ m <= n /\ m + 1 \notin t.pending
    BY <1>2, <1>3
  <2>2. ASSUME NEW k \in t.seen + 1 .. m PROVE k \in t.pending
    <3>1. k - 1 \in Nat /\ t.seen <= k - 1 /\ ~(m <= k - 1) /\ (k - 1) + 1 = k
      BY <1>1, <2>1
    <3> QED BY <1>3, <3>1
  <2> QED BY <1>1, <2>1, <2>2
<1>5. Reach(t) = CHOOSE k \in t.seen .. MaxOutput : End(k)
  BY DEF Reach
<1> HIDE DEF End
<1>6. Reach(t) \in t.seen .. MaxOutput /\ End(Reach(t))
  BY <1>4, <1>5
<1>7. CASE Reach(t) = t.seen
  BY <1>1, <1>7
<1>8. CASE Reach(t) # t.seen
  <2>1. Reach(t) \in t.seen + 1 .. Reach(t)
    BY <1>1, <1>6, <1>8
  <2>2. Reach(t) \in t.pending
    BY <1>6, <2>1 DEF End
  <2> QED BY <1>1, <1>6, <2>2
<1> QED BY <1>7, <1>8

LEMMA DrainGoes ==
  ASSUME NEW t \in Terminals, NEW n \in Nat, n <= MaxOutput, Near(t, n)
  PROVE  Goes(t, Drain(t), n) /\ Alike(t, Drain(t))
<1> DEFINE u == Show(t, t.seen + 1, Reach(t))
           later == {f \in u.pending : f > u.seen}
<1>1. t.seen \in Nat /\ Reach(t) \in Nat /\ Reach(t) <= n
  BY ReachIsNear, TerminalFields
<1>2. Goes(t, u, n) /\ Alike(t, u) /\ u.pending = t.pending
  BY <1>1, ShowGoes
<1>3. Drain(t) = [u EXCEPT !.pending = later]
  BY DEF Drain
<1> HIDE DEF u
<1>4. u \in Terminals /\ Near(u, n)
  BY <1>2 DEF Goes
<1>5. later \in SUBSET u.pending /\ later \in SUBSET Nat
  BY <1>4, TerminalFields
<1> HIDE DEF later
<1>6. /\ Drain(t) \in Terminals /\ Drain(t).pending = later /\ Drain(t).seen = u.seen
      /\ Drain(t).screen = u.screen /\ Alike(u, Drain(t))
  BY <1>3, <1>4, <1>5 DEF Terminals, Alike
<1>7. Goes(u, Drain(t), n)
  <2>1. Near(Drain(t), n)
    BY <1>4, <1>5, <1>6 DEF Near
  <2> QED BY <1>4, <1>6, <2>1, GoesNowhere
<1> QED BY <1>2, <1>6, <1>7, GoesOn DEF Alike

LEMMA OnFrameGoes ==
  ASSUME NEW t \in Terminals, NEW n \in Nat, Near(t, n), NEW f \in 1 .. n
  PROVE  Goes(t, OnFrame(t, f), n) /\ Alike(t, OnFrame(t, f))
<1>1. t.seen \in Nat /\ t.pending \in SUBSET Nat /\ f \in Nat \ {0} /\ f <= n
  BY TerminalFields
<1>2. CASE t.at = "hydrating" \/ f > t.seen + 1
  <2>1. OnFrame(t, f) = Waits(t, f)
    BY <1>2 DEF OnFrame
  <2>2. PICK P : P \in SUBSET (t.pending \cup {f}) /\ Waits(t, f) = [t EXCEPT !.pending = P]
    BY DEF Waits
  <2>3. P \in SUBSET Nat /\ P \subseteq 1 .. n
    BY <1>1, <2>2 DEF Near
  <2>4. /\ Waits(t, f) \in Terminals /\ Waits(t, f).seen = t.seen /\ Waits(t, f).pending = P
        /\ Waits(t, f).screen = t.screen /\ Alike(t, Waits(t, f))
    BY <2>2, <2>3 DEF Terminals, Alike
  <2>5. Near(Waits(t, f), n)
    BY <2>3, <2>4 DEF Near
  <2> QED BY <2>1, <2>4, <2>5, GoesNowhere
<1>3. CASE ~(t.at = "hydrating" \/ f > t.seen + 1)
  <2>1. OnFrame(t, f) = Show(t, f, f) /\ f <= t.seen + 1
    BY <1>1, <1>3 DEF OnFrame
  <2> QED BY <1>1, <2>1, ShowGoes
<1> QED BY <1>2, <1>3

(* What is told of an end stops the terminal only behind the last frame. *)
LEMMA MaybeStopGoes ==
  ASSUME NEW t \in Terminals, NEW n, Near(t, n), NEW s
  PROVE  /\ Goes(t, MaybeStop(t, s), n) /\ MaybeStop(t, s).at = t.at
         /\ MaybeStop(t, s).seen = t.seen
         /\ MaybeStop(t, s).streaming = t.streaming
              \/ (s.status # "running" /\ t.seen >= s.last)
<1>1. CASE MayStop(t, s)
  <2>1. MaybeStop(t, s) = [t EXCEPT !.streaming = FALSE, !.listening = FALSE]
    BY <1>1 DEF MaybeStop
  <2>2. /\ MaybeStop(t, s) \in Terminals /\ MaybeStop(t, s).seen = t.seen
        /\ MaybeStop(t, s).screen = t.screen /\ MaybeStop(t, s).pending = t.pending
        /\ MaybeStop(t, s).at = t.at
    BY <2>1 DEF Terminals
  <2>3. Near(MaybeStop(t, s), n)
    BY <2>2 DEF Near
  <2> QED BY <1>1, <2>2, <2>3, GoesNowhere DEF MayStop
<1>2. CASE ~MayStop(t, s)
  <2>1. MaybeStop(t, s) = t
    BY <1>2 DEF MaybeStop
  <2> QED BY <2>1, GoesNowhere
<1> QED BY <1>1, <1>2

(* A batch: only a gap at its beginning is left out, and it is marked. *)
LEMMA TakesLoses ==
  ASSUME NEW t \in Terminals, NEW r \in Snapshots, r.last <= MaxOutput, Near(t, r.last),
         NEW batch \in Batches, Follows(batch, t, r)
  PROVE  LET u == Takes(t, batch)
         IN  /\ u \in Terminals /\ Near(u, r.last) /\ t.seen <= u.seen
             /\ Loses(t, u, r.first)
             /\ u.at = t.at /\ (Clean(t) => Clean(u))
             /\ u.streaming = t.streaming
                  \/ (batch.run.status # "running" /\ u.seen >= batch.run.last)
<1> DEFINE n == r.last
           noted == IF ~batch.gap THEN t
                    ELSE [Note(t) EXCEPT !.seen = IF @ < batch.run.first - 1
                                                  THEN batch.run.first - 1 ELSE @]
           shown == Show(noted, batch.from, batch.upto)
           through == Drain(shown)
           u == MaybeStop(through, batch.run)
<1>1. Takes(t, batch) = u
  BY DEF Takes
<1>2. /\ n \in Nat /\ batch.run \in Snapshots /\ batch.from \in Nat \ {0} /\ batch.upto \in Nat
      /\ batch.run.first \in Nat \ {0} /\ batch.run.last \in Nat /\ r.first \in Nat
      /\ batch.run.first <= r.first /\ batch.run.first <= n + 1 /\ batch.upto <= n
  BY DEF Batches, Snapshots, Follows, Earlier
<1>3. t.seen \in Nat /\ t.screen \in Seq(Nat) /\ Len(t.screen) \in Nat
  BY TerminalFields
<1>4. /\ noted \in Terminals /\ Near(noted, n) /\ t.seen <= noted.seen /\ Alike(t, noted)
      /\ batch.from <= noted.seen + 1
      /\ Loses(t, noted, r.first) /\ (Clean(t) => Clean(noted))
  <2>1. CASE ~batch.gap
    <3>1. noted = t
      BY <2>1
    <3>2. Loses(t, t, r.first)
      BY <1>3 DEF Loses
    <3> QED BY <1>3, <2>1, <3>1, <3>2 DEF Follows, Alike
  <2>2. CASE batch.gap
    <3> DEFINE a == Note(t)
               seen == IF t.seen < batch.run.first - 1 THEN batch.run.first - 1 ELSE t.seen
    <3>1. /\ a \in Terminals /\ a.seen = t.seen /\ a.pending = t.pending /\ Alike(t, a)
          /\ \E i \in 1 .. Len(a.screen) : i >= Len(t.screen) /\ a.screen[i] = Gap
      BY NoteMarks
    <3>2. noted = [a EXCEPT !.seen = seen]
      BY <2>2, <3>1 DEF Terminals
    <3>3. seen \in Nat /\ t.seen <= seen /\ seen <= n /\ batch.run.first <= seen + 1
          /\ \A k \in t.seen + 1 .. seen : k < r.first
      <4>1. t.seen <= n
        BY DEF Near
      <4> DEFINE lost == batch.run.first - 1
      <4> HIDE DEF n
      <4>2. /\ lost \in Nat /\ lost < r.first /\ lost <= n /\ batch.run.first = lost + 1
            /\ r.first \in Nat
        BY <1>2
      <4> HIDE DEF lost
      <4>3. seen = IF t.seen < lost THEN lost ELSE t.seen
        BY DEF lost
      <4> HIDE DEF seen, noted, a
      <4>4. CASE t.seen < lost
        BY <1>3, <4>2, <4>3, <4>4
      <4>5. CASE ~(t.seen < lost)
        BY <1>3, <4>1, <4>2, <4>3, <4>5
      <4> QED BY <4>4, <4>5
    <3> HIDE DEF a, seen, noted
    <3>4. /\ noted \in Terminals /\ noted.seen = seen /\ noted.pending = t.pending
          /\ noted.screen = a.screen /\ Alike(t, noted)
      BY <3>1, <3>2, <3>3 DEF Terminals, Alike
    <3>5. Near(noted, n)
      BY <3>3, <3>4 DEF Near
    <3>6. Loses(t, noted, r.first)
      BY <3>1, <3>3, <3>4 DEF Loses
    <3>7. batch.from = batch.run.first
      BY <2>2 DEF Follows
    <3>8. Clean(t) => Clean(noted)
      BY <3>3, <3>4, NoteIsClean DEF a
    <3> QED BY <3>3, <3>4, <3>5, <3>6, <3>7, <3>8
  <2> QED BY <2>1, <2>2
<1> HIDE DEF noted
<1>5. Goes(noted, shown, n) /\ Alike(noted, shown)
  BY <1>2, <1>4, ShowGoes
<1>6. shown \in Terminals /\ Near(shown, n)
  BY <1>5 DEF Goes
<1> HIDE DEF shown
<1>7. Goes(shown, through, n) /\ Alike(shown, through)
  BY <1>2, <1>6, DrainGoes
<1>8. through \in Terminals /\ Near(through, n)
  BY <1>7 DEF Goes
<1> HIDE DEF through
<1>9. /\ Goes(through, u, n) /\ u.at = through.at /\ u.seen = through.seen
      /\ u.streaming = through.streaming
            \/ (batch.run.status # "running" /\ through.seen >= batch.run.last)
  BY <1>8, MaybeStopGoes
<1> HIDE DEF u
<1>10. Goes(noted, u, n)
  BY <1>4, <1>5, <1>7, <1>9, GoesOn
<1>11. Loses(t, u, r.first)
  BY <1>4, <1>10, LosesOn
<1>12. u \in Terminals /\ Near(u, n) /\ t.seen <= u.seen /\ (Clean(t) => Clean(u))
  <2>1. u \in Terminals /\ Near(u, n) /\ noted.seen <= u.seen /\ (Clean(noted) => Clean(u))
    BY <1>10 DEF Goes
  <2>2. noted.seen \in Nat /\ u.seen \in Nat
    BY <1>4, <2>1, TerminalFields
  <2> QED BY <1>3, <1>4, <2>1, <2>2
<1> QED BY <1>1, <1>4, <1>5, <1>7, <1>9, <1>11, <1>12 DEF Alike

-------------------------------------------------------------------------------
(* The invariant. *)

LEMMA StreamInitHolds == StreamInit => StreamInv
<1> SUFFICES ASSUME StreamInit PROVE StreamInv
  OBVIOUS
<1>1. run \in Snapshots /\ run.last = 0 /\ run.first = 1 /\ run.status = "running" /\ MaxOutput \in Nat
  BY TerminalStreamAssumption DEF StreamInit, Snapshots
<1>2. frames \in Seq(Sizes) /\ Len(frames) = 0 /\ Fits(frames)
  BY NothingFits DEF StreamInit
<1>3. /\ term \in Terminals /\ term.at = "none" /\ term.seen = 0 /\ term.pending = {}
      /\ read \in Reads /\ read.at = "none"
  BY DEF StreamInit, NoTerm, NoRead, Terminals, Reads
<1>4. StreamTypes
  BY <1>1, <1>2, <1>3 DEF StreamInit, StreamTypes
<1>5. Replay /\ ExitedAtEnd /\ Says(news, run)
  BY <1>1, <1>2 DEF StreamInit, Replay, ExitedAtEnd, Says
<1>6. Near(term, run.last) /\ Reading(read, term, run) /\ Stopped(term, run)
  BY <1>1, <1>3 DEF Near, Reading, Stopped
<1>7. Clean(term)
  <2>1. term.screen = <<>>
    BY DEF StreamInit, NoTerm
  <2> QED BY <1>3, <2>1 DEF Clean, AsWritten
<1> QED BY <1>4, <1>5, <1>6, <1>7 DEF StreamInv

LEMMA ReadKinds ==
  ASSUME NEW r \in Reads
  PROVE  /\ r.at = "sent" => r.after \in Nat
         /\ r.at = "answered" => r.batch \in Batches
  BY DEF Reads

LEMMA EarlierStill ==
  ASSUME NEW s \in Snapshots, NEW r \in Snapshots, NEW q \in Snapshots, Earlier(s, r),
         r.status \in {"running", q.status}, r.last <= q.last, r.first <= q.first,
         r.status = "exited" => r.last = q.last
  PROVE  Earlier(s, q)
  BY DEF Earlier, Snapshots

(* The run goes on; whoever reads of it keeps an earlier snapshot. *)
LEMMA BackendKeeps ==
  ASSUME StreamInv, UNCHANGED <<read, term>>,
         frames' \in Seq(Sizes), run' \in Snapshots, run'.last <= MaxOutput,
         reader' \in {"reading", "eof", "error"}, listed' \in BOOLEAN,
         sent' \subseteq 1 .. run'.last, news' \subseteq Told,
         Replay', ExitedAtEnd', Says(news', run'),
         run.status \in {"running", run'.status}, run.last <= run'.last, run.first <= run'.first,
         run.status = "exited" => run.last = run'.last
  PROVE  StreamInv'
<1>1. run \in Snapshots /\ read \in Reads /\ term \in Terminals
  BY DEF StreamInv, StreamTypes
<1>2. StreamTypes'
  BY <1>1 DEF StreamTypes
<1>3. Near(term, run'.last)
  BY <1>1, TerminalFields DEF StreamInv, Near, Snapshots
<1>4. Reading(read, term, run')
  <2>1. ASSUME read.at = "answered" PROVE Follows(read.batch, term, run')
    <3>1. read.batch.run \in Snapshots
      BY <1>1, <2>1, ReadKinds DEF Batches
    <3>2. Follows(read.batch, term, run)
      BY <2>1 DEF StreamInv, Reading
    <3>3. Earlier(read.batch.run, run')
      BY <1>1, <3>1, <3>2, EarlierStill DEF Follows
    <3> QED BY <3>2, <3>3 DEF Follows
  <2> QED BY <2>1 DEF StreamInv, Reading
<1>5. Stopped(term, run')
  BY <1>1 DEF StreamInv, Stopped, Snapshots
<1> QED BY <1>2, <1>3, <1>4, <1>5 DEF StreamInv

LEMMA ReaderReadsKeeps == ASSUME StreamInv, ReaderReads PROVE StreamInv'
<1>1. PICK size \in Sizes : frames' = Retained(Append(frames, size))
  BY DEF ReaderReads
<1>2. /\ frames \in Seq(Sizes) /\ run \in Snapshots /\ reader = "reading" /\ run.last < MaxOutput
      /\ run' = [run EXCEPT !.last = @ + 1, !.first = run.last + 2 - Len(frames')]
      /\ sent' \in {sent, sent \cup {run'.last}} /\ sent \subseteq 1 .. run.last
      /\ UNCHANGED <<reader, listed, news, read, term>>
  BY DEF ReaderReads, StreamInv, StreamTypes
<1>3. /\ Append(frames, size) \in Seq(Sizes) /\ Len(Append(frames, size)) = Len(frames) + 1
      /\ Len(frames) \in Nat
  BY <1>2
<1>4. frames' \in Seq(Sizes) /\ Len(frames') <= Len(frames) + 1 /\ Fits(frames') /\ Len(frames') \in Nat
  <2>1. frames' \in Seq(Sizes) /\ Len(frames') <= Len(Append(frames, size)) /\ Fits(frames')
    BY <1>1, <1>3, RetainedFits
  <2> QED BY <1>3, <2>1
<1>5. /\ Len(frames) <= run.last /\ run.first = run.last + 1 - Len(frames)
      /\ run.last \in Nat /\ MaxOutput \in Nat
  BY <1>2, TerminalStreamAssumption DEF StreamInv, Replay, Snapshots
<1>6. run.last + 2 - Len(frames') \in Nat \ {0} /\ run.first <= run.last + 2 - Len(frames')
  BY <1>4, <1>5
<1>7. /\ run' \in Snapshots /\ run'.status = run.status /\ run'.last = run.last + 1
      /\ run'.first = run.last + 2 - Len(frames')
  <2> DEFINE first == run.last + 2 - Len(frames')
  <2> HIDE DEF first
  <2>1. run' = [run EXCEPT !.last = @ + 1, !.first = first] /\ first \in Nat \ {0}
    BY <1>2, <1>6 DEF first
  <2>2. /\ run' \in Snapshots /\ run'.status = run.status /\ run'.last = run.last + 1
        /\ run'.first = first
    <3>1. run' = [status |-> run.status, first |-> first, last |-> run.last + 1]
      BY <1>2, <2>1 DEF Snapshots
    <3>2. run.status \in {"running", "exited", "failed"} /\ run.last + 1 \in Nat
      BY <1>2, <1>5 DEF Snapshots
    <3> QED BY <2>1, <3>1, <3>2 DEF Snapshots
  <2> QED BY <2>2 DEF first
<1>8. run.status # "exited"
  BY <1>2 DEF StreamInv, ExitedAtEnd
<1>9. Replay'
  BY <1>4, <1>5, <1>7 DEF Replay
<1>10. sent' \subseteq 1 .. run'.last
  BY <1>2, <1>5, <1>7
<1>11. ExitedAtEnd' /\ Says(news', run')
  BY <1>2, <1>7, <1>8 DEF StreamInv, ExitedAtEnd, Says
<1>12. run'.last <= MaxOutput /\ run.last <= run'.last /\ run.first <= run'.first
  BY <1>2, <1>5, <1>6, <1>7
<1> QED BY <1>2, <1>4, <1>7, <1>8, <1>9, <1>10, <1>11, <1>12, BackendKeeps
       DEF StreamInv, StreamTypes

(* The reader's end changes no run that has ended: an exit is not before it. *)
LEMMA ReaderEndsKeeps == ASSUME StreamInv, ReaderEnds PROVE StreamInv'
<1>1. /\ run \in Snapshots /\ reader = "reading" /\ reader' \in {"eof", "error"}
      /\ UNCHANGED <<frames, listed, sent, read, term>> /\ news \subseteq Told
      /\ run.first \in Nat \ {0} /\ run.last \in Nat
  BY DEF ReaderEnds, StreamInv, StreamTypes, Snapshots
<1>2. run.status \in {"running", "failed"}
  BY <1>1 DEF StreamInv, ExitedAtEnd, Snapshots
<1>3. run' = run /\ news' \subseteq Told /\ Says(news', run)
  <2>1. CASE run.status = "running"
    BY <1>1, <2>1 DEF ReaderEnds, StreamInv
  <2>2. CASE run.status = "failed"
    <3>1. run' = [run EXCEPT !.status = IF reader' = "error" THEN "failed" ELSE @]
          /\ news' = news \cup {News(run')}
      BY <2>2 DEF ReaderEnds
    <3>2. run' = run
      BY <1>1, <2>2, <3>1 DEF Snapshots
    <3>3. News(run) \in Told /\ News(run).status = run.status /\ News(run).last = run.last
      BY <1>1, <2>2 DEF News, Told
    <3> QED BY <1>1, <3>1, <3>2, <3>3 DEF StreamInv, Says
  <2> QED BY <1>2, <2>1, <2>2
<1>4. Replay' /\ ExitedAtEnd'
  BY <1>1, <1>2, <1>3 DEF StreamInv, Replay, ExitedAtEnd
<1> QED BY <1>1, <1>2, <1>3, <1>4, BackendKeeps DEF StreamInv, StreamTypes

(* The waiter's snapshot is the first that tells an end. *)
LEMMA WaiterPublishesKeeps == ASSUME StreamInv, WaiterPublishes PROVE StreamInv'
<1>1. PICK final \in IF reader = "eof" THEN {"exited", "failed"} ELSE {"failed"} :
         run' = [run EXCEPT !.status = final]
  BY DEF WaiterPublishes
<1>2. /\ run \in Snapshots /\ run.status = "running" /\ news' = news \cup {News(run')}
      /\ UNCHANGED <<frames, reader, listed, sent, read, term>> /\ news \subseteq Told
      /\ run.first \in Nat \ {0} /\ run.last \in Nat
  BY DEF WaiterPublishes, StreamInv, StreamTypes, Snapshots
<1>3. final \in {"exited", "failed"} /\ (final = "exited" => reader = "eof")
  OBVIOUS
<1>4. run' \in Snapshots /\ run'.status = final /\ run'.last = run.last /\ run'.first = run.first
  BY <1>1, <1>2, <1>3 DEF Snapshots
<1>5. news = {}
  BY <1>2 DEF StreamInv, Says, Told
<1>6. News(run') \in Told /\ News(run').status = run'.status /\ News(run').last = run'.last
  BY <1>3, <1>4, <1>2 DEF News, Told
<1>7. news' \subseteq Told /\ Says(news', run')
  BY <1>2, <1>5, <1>6 DEF Says
<1>8. Replay' /\ ExitedAtEnd'
  BY <1>2, <1>3, <1>4 DEF StreamInv, Replay, ExitedAtEnd
<1> QED BY <1>2, <1>4, <1>7, <1>8, BackendKeeps DEF StreamInv, StreamTypes

LEMMA RemovedKeeps == ASSUME StreamInv, Removed PROVE StreamInv'
<1>1. UNCHANGED <<frames, run, reader, sent, news, read, term>> /\ listed' \in BOOLEAN
  BY DEF Removed
<1> QED BY <1>1 DEF StreamInv, StreamTypes, Replay, ExitedAtEnd

(* What a step of the terminal, or of what comes to it, has to keep. *)
TerminalStep ==
    /\ UNCHANGED <<frames, run, reader, listed>> /\ sent' \subseteq sent /\ news' \subseteq news
    /\ term' \in Terminals /\ Near(term', run.last)
    /\ read' \in Reads /\ Reading(read', term', run)
    /\ Stopped(term', run)
    /\ Loses(term, term', run.first)
    /\ Clean(term')

LEMMA TerminalStepKeeps == ASSUME StreamInv, TerminalStep PROVE StreamInv'
<1>1. StreamTypes'
  BY DEF TerminalStep, StreamInv, StreamTypes
<1>2. Replay' /\ ExitedAtEnd' /\ Says(news', run')
  BY DEF TerminalStep, StreamInv, Replay, ExitedAtEnd, Says
<1> QED BY <1>1, <1>2 DEF TerminalStep, StreamInv

LEMMA TerminalFacts ==
  ASSUME StreamInv
  PROVE  /\ term \in Terminals /\ run \in Snapshots /\ read \in Reads
         /\ run.last \in Nat /\ run.last <= MaxOutput /\ run.first \in Nat
         /\ Near(term, run.last) /\ Reading(read, term, run) /\ Stopped(term, run)
         /\ term.seen \in Nat /\ term.seen <= run.last /\ Clean(term)
  BY TerminalFields DEF StreamInv, StreamTypes, Snapshots, Near

(* A read goes on while its terminal does, and a terminal that has stopped stays so. *)
LEMMA StaysStopped ==
  ASSUME NEW t \in Terminals, NEW u \in Terminals, NEW r \in Snapshots, Stopped(t, r),
         u.at = t.at \/ t.at # "none", u.streaming = t.streaming, t.seen <= u.seen
  PROVE  Stopped(u, r)
  BY TerminalFields DEF Stopped, Snapshots

LEMMA ReadsOn ==
  ASSUME NEW rd \in Reads, NEW t \in Terminals, NEW u \in Terminals, NEW r \in Snapshots,
         Reading(rd, t, r), u.at = t.at, t.seen <= u.seen
  PROVE  Reading(rd, u, r)
<1>1. t.seen \in Nat /\ u.seen \in Nat
  BY TerminalFields
<1>2. ASSUME rd.at = "sent" PROVE rd.after <= u.seen
  BY <1>1, <1>2, ReadKinds DEF Reading
<1>3. ASSUME rd.at = "answered" PROVE Follows(rd.batch, u, r)
  <2>1. rd.batch.from \in Nat
    BY <1>3, ReadKinds DEF Batches
  <2> QED BY <1>1, <1>3, <2>1 DEF Reading, Follows
<1> QED BY <1>2, <1>3 DEF Reading

(* A mount begins at the beginning and with no read under way. *)
LEMMA UserSteps == ASSUME StreamInv, User PROVE TerminalStep
<1>1. /\ UNCHANGED <<frames, run, reader, listed, sent, news>>
      /\ term'.at \in {"none", "subscribing"} /\ term'.seen = 0 /\ term'.pending = {}
      /\ term' \in Terminals /\ (term'.at # "none" => term'.streaming) /\ term'.screen = <<>>
      /\ read' \in Reads /\ read'.at = "none"
  <2>1. CASE Mounts
    <3>1. read.at = "none" /\ read \in Reads
      BY <2>1, TerminalFacts DEF Mounts, Reading
    <3>2. term' = [NoTerm EXCEPT !.at = "subscribing", !.streaming = TRUE]
      BY <2>1 DEF Mounts
    <3>3. /\ term' \in Terminals /\ term'.at = "subscribing" /\ term'.seen = 0
          /\ term'.pending = {} /\ term'.streaming /\ term'.screen = <<>>
      <4>1. term' = [at |-> "subscribing", listening |-> FALSE, streaming |-> TRUE, seen |-> 0,
                     pending |-> {}, page |-> 0, mark |-> 0, screen |-> <<>>]
        BY <3>2 DEF NoTerm
      <4> QED BY <4>1 DEF Terminals
    <3>4. UNCHANGED <<frames, run, reader, listed, sent, news, read>>
      BY <2>1 DEF Mounts, backend
    <3>5. read' = read /\ read' \in Reads /\ read'.at = "none"
      BY <3>1, <3>4
    <3> QED BY <3>3, <3>4, <3>5
  <2>2. CASE Unmounts
    BY <2>2 DEF Unmounts, backend, NoTerm, NoRead, Terminals, Reads
  <2> QED BY <2>1, <2>2 DEF User
<1>2. Near(term', run.last) /\ Loses(term, term', run.first)
  BY <1>1, TerminalFacts DEF Near, Loses
<1>3. Reading(read', term', run) /\ Stopped(term', run)
  BY <1>1 DEF Reading, Stopped
<1>4. Clean(term')
  BY <1>1 DEF Clean, AsWritten
<1> QED BY <1>1, <1>2, <1>3, <1>4 DEF TerminalStep

LEMMA SubscribesSteps == ASSUME StreamInv, Subscribes PROVE TerminalStep
<1>1. PICK ok \in BOOLEAN : term' = [term EXCEPT !.at = "hydrating", !.listening = ok]
  BY DEF Subscribes
<1>2. /\ UNCHANGED <<frames, run, reader, listed, sent, news>> /\ term.at = "subscribing"
      /\ read' = [at |-> "sent", after |-> 0]
  BY DEF Subscribes, Asks, backend
<1>3. /\ term' \in Terminals /\ term'.at = "hydrating" /\ term'.seen = term.seen
      /\ term'.pending = term.pending /\ term'.streaming = term.streaming
      /\ term'.screen = term.screen
  BY <1>1, TerminalFacts DEF Terminals
<1>4. Near(term', run.last) /\ Loses(term, term', run.first)
  BY <1>3, TerminalFacts DEF Near, Loses
<1>5. read' \in Reads /\ Reading(read', term', run)
  BY <1>2, <1>3, TerminalFacts DEF Reads, Reading
<1>6. Stopped(term', run)
  BY <1>2, <1>3, TerminalFacts, StaysStopped
<1>7. Clean(term')
  BY <1>3, TerminalFacts DEF Clean
<1> QED BY <1>2, <1>3, <1>4, <1>5, <1>6, <1>7 DEF TerminalStep

(* A step that only moves the terminal on. *)
LEMMA MovesOn ==
  ASSUME StreamInv, UNCHANGED <<frames, run, reader, listed, read>>, sent' \subseteq sent,
         news' \subseteq news, Goes(term, term', run.last), term'.at = term.at,
         Stopped(term', run)
  PROVE  TerminalStep
<1>1. term' \in Terminals /\ Near(term', run.last) /\ term.seen <= term'.seen /\ Clean(term')
  BY TerminalFacts DEF Goes
<1>2. Loses(term, term', run.first)
  BY GoesLosesNothing
<1>3. Reading(read, term', run)
  BY <1>1, TerminalFacts, ReadsOn
<1> QED BY <1>1, <1>2, <1>3, TerminalFacts DEF TerminalStep

LEMMA OutputArrivesSteps == ASSUME StreamInv, OutputArrives PROVE TerminalStep
<1> DEFINE f == CHOOSE f \in sent : \A g \in sent : f <= g
<1>1. f \in sent /\ f \in 1 .. run.last
  <2>1. sent # {} /\ sent \subseteq 1 .. run.last /\ sent \in SUBSET Nat
    BY TerminalFacts DEF OutputArrives, StreamInv, StreamTypes
  <2>2. \E g \in sent : \A h \in sent : g <= h
    BY <2>1, Least
  <2> QED BY <2>1, <2>2
<1>2. /\ UNCHANGED <<frames, run, reader, listed, read, news>> /\ sent' = sent \ {f}
      /\ term' = IF term.listening THEN OnFrame(term, f) ELSE term
  BY DEF OutputArrives, backend
<1> HIDE DEF f
<1>3. Goes(term, term', run.last) /\ Alike(term, term')
  <2>1. CASE term.listening
    BY <1>1, <1>2, <2>1, TerminalFacts, OnFrameGoes
  <2>2. CASE ~term.listening
    BY <1>2, <2>2, TerminalFacts, GoesNowhere DEF Alike
  <2> QED BY <2>1, <2>2
<1>4. Stopped(term', run)
  BY <1>3, TerminalFacts, StaysStopped DEF Goes, Alike
<1> QED BY <1>2, <1>3, <1>4, MovesOn DEF Alike

LEMMA StatusArrivesSteps == ASSUME StreamInv, StatusArrives PROVE TerminalStep
<1>1. PICK s \in news : /\ news' = news \ {s}
                        /\ term' = IF term.listening THEN MaybeStop(term, s) ELSE term
  BY DEF StatusArrives
<1>2. UNCHANGED <<frames, run, reader, listed, read, sent>>
  BY DEF StatusArrives, backend
<1>3. s.status = run.status /\ (s.status = "exited" => s.last = run.last)
  BY DEF StreamInv, Says
<1>4. /\ Goes(term, term', run.last) /\ term'.at = term.at /\ term'.seen = term.seen
      /\ term'.streaming = term.streaming \/ (s.status # "running" /\ term.seen >= s.last)
  <2>1. CASE term.listening
    BY <1>1, <2>1, TerminalFacts, MaybeStopGoes
  <2>2. CASE ~term.listening
    BY <1>1, <2>2, TerminalFacts, GoesNowhere
  <2> QED BY <2>1, <2>2
<1>5. Stopped(term', run)
  BY <1>3, <1>4, TerminalFacts DEF Stopped
<1> QED BY <1>1, <1>2, <1>4, <1>5, MovesOn

LEMMA BatchFollows ==
  ASSUME StreamInv, NEW after \in Nat, after <= term.seen
  PROVE  Batch(after) \in Batches /\ Follows(Batch(after), term, run)
<1> DEFINE from == IF after + 1 < run.first THEN run.first ELSE after + 1
           upto == IF from + MaxBatch - 1 < run.last THEN from + MaxBatch - 1 ELSE run.last
<1>1. Batch(after) = [run |-> run, from |-> from, upto |-> upto, gap |-> after + 1 < run.first]
  BY DEF Batch
<1>2. /\ run.first \in Nat \ {0} /\ run.last \in Nat /\ MaxBatch \in Nat \ {0}
      /\ run.first <= run.last + 1 /\ run \in Snapshots /\ term.seen \in Nat
  <2>1. frames \in Seq(Sizes)
    BY DEF StreamInv, StreamTypes
  <2>2. Len(frames) \in Nat
    BY <2>1
  <2>3. run.first = run.last + 1 - Len(frames) /\ run \in Snapshots
    BY TerminalFacts DEF StreamInv, Replay
  <2> QED BY <2>2, <2>3, TerminalFacts, TerminalStreamAssumption DEF Snapshots
<1>3. from \in Nat \ {0} /\ upto \in Nat /\ upto <= run.last
  BY <1>2
<1>4. (after + 1 < run.first) \in BOOLEAN
  OBVIOUS
<1>5. IF after + 1 < run.first THEN from = run.first ELSE from <= term.seen + 1
  BY <1>2
<1> HIDE DEF from, upto
<1>6. Batch(after) \in Batches
  BY <1>1, <1>2, <1>3, <1>4 DEF Batches
<1>7. Earlier(run, run)
  BY <1>2 DEF Earlier
<1>8. /\ Batch(after).run = run /\ Batch(after).from = from /\ Batch(after).upto = upto
      /\ Batch(after).gap = (after + 1 < run.first)
  BY <1>1
<1>9. Batch(after).upto <= run.last
  BY <1>3, <1>8
<1>10. IF Batch(after).gap THEN Batch(after).from = run.first ELSE Batch(after).from <= term.seen + 1
  BY <1>5, <1>8
<1> QED BY <1>6, <1>7, <1>8, <1>9, <1>10 DEF Follows

LEMMA ReadAnswersSteps == ASSUME StreamInv, ReadAnswers PROVE TerminalStep
<1>1. /\ UNCHANGED <<frames, run, reader, listed, sent, news, term>> /\ read.at = "sent"
      /\ \/ read' = [at |-> "answered", batch |-> Batch(read.after)]
         \/ read' = [at |-> "failed"]
  BY DEF ReadAnswers, backend
<1>2. read.after \in Nat /\ read.after <= term.seen /\ term.at \in {"hydrating", "live"}
  BY <1>1, TerminalFacts, ReadKinds DEF Reading
<1>3. read' \in Reads /\ Reading(read', term, run)
  <2>1. CASE read' = [at |-> "failed"]
    BY <1>2, <2>1 DEF Reads, Reading
  <2>2. CASE read' = [at |-> "answered", batch |-> Batch(read.after)]
    BY <1>2, <2>2, BatchFollows DEF Reads, Reading
  <2> QED BY <1>1, <2>1, <2>2
<1>4. Loses(term, term, run.first)
  BY TerminalFacts DEF Loses
<1> QED BY <1>1, <1>3, <1>4, TerminalFacts DEF TerminalStep

LEMMA PollsSteps == ASSUME StreamInv, Polls PROVE TerminalStep
<1>1. /\ UNCHANGED <<frames, run, reader, listed, sent, news, term>> /\ term.at = "live"
      /\ read' = [at |-> "sent", after |-> term.seen]
  BY DEF Polls, Asks, backend
<1>2. read' \in Reads /\ Reading(read', term, run)
  BY <1>1, TerminalFacts DEF Reads, Reading
<1>3. Loses(term, term, run.first)
  BY TerminalFacts DEF Loses
<1> QED BY <1>1, <1>2, <1>3, TerminalFacts DEF TerminalStep

(* A batch that the terminal takes, as it is or on the page it reads. *)
LEMMA BatchTaken ==
  ASSUME StreamInv, read.at = "answered",
         NEW t \in Terminals, t.at = term.at, t.streaming = term.streaming, t.seen = term.seen,
         t.pending = term.pending, t.screen = term.screen
  PROVE  LET u == Takes(t, read.batch)
         IN  /\ u \in Terminals /\ Near(u, run.last) /\ term.seen <= u.seen
             /\ Loses(term, u, run.first)
             /\ u.at = term.at /\ Stopped(u, run) /\ Clean(u)
<1> DEFINE u == Takes(t, read.batch)
<1>1. read.batch \in Batches /\ Follows(read.batch, term, run)
  BY TerminalFacts, ReadKinds DEF Reading
<1>2. Near(t, run.last) /\ Follows(read.batch, t, run)
  BY <1>1, TerminalFacts DEF Near, Follows
<1>3. /\ u \in Terminals /\ Near(u, run.last) /\ t.seen <= u.seen
      /\ Loses(t, u, run.first) /\ u.at = t.at /\ (Clean(t) => Clean(u))
      /\ u.streaming = t.streaming
            \/ (read.batch.run.status # "running" /\ u.seen >= read.batch.run.last)
  BY <1>1, <1>2, TerminalFacts, TakesLoses
<1> HIDE DEF u
<1>4. Loses(term, u, run.first)
  BY <1>3 DEF Loses
<1>5. Stopped(u, run)
  <2>1. CASE u.streaming = t.streaming
    BY <1>3, <2>1, TerminalFacts, StaysStopped
  <2>2. CASE read.batch.run.status # "running" /\ u.seen >= read.batch.run.last
    BY <1>1, <2>2 DEF Follows, Earlier, Stopped
  <2> QED BY <1>3, <2>1, <2>2
<1>6. Clean(t)
  BY TerminalFacts DEF Clean
<1> QED BY <1>3, <1>4, <1>5, <1>6 DEF u

(* The end of the first reading shows what has arrived meanwhile. *)
LEMMA GoesLiveOn ==
  ASSUME StreamInv, NEW t \in Terminals, Near(t, run.last), t.at # "none", Stopped(t, run)
  PROVE  /\ Goes(t, GoesLive(t), run.last) /\ GoesLive(t).at = "live"
         /\ Stopped(GoesLive(t), run)
<1> DEFINE v == [t EXCEPT !.at = "live", !.page = 0, !.mark = 0]
<1>1. /\ v \in Terminals /\ v.at = "live" /\ v.seen = t.seen /\ v.pending = t.pending
      /\ v.screen = t.screen /\ v.streaming = t.streaming
  BY DEF Terminals
<1>2. GoesLive(t) = Drain(v)
  BY DEF GoesLive
<1> HIDE DEF v
<1>3. Near(v, run.last) /\ Goes(t, v, run.last)
  <2>1. Near(v, run.last)
    BY <1>1 DEF Near
  <2> QED BY <1>1, <2>1, GoesNowhere
<1>4. Goes(v, Drain(v), run.last) /\ Alike(v, Drain(v))
  BY <1>1, <1>3, TerminalFacts, DrainGoes
<1>5. Goes(t, Drain(v), run.last)
  BY <1>3, <1>4, GoesOn
<1>6. Stopped(Drain(v), run)
  BY <1>1, <1>4, <1>5, TerminalFacts, StaysStopped DEF Goes, Alike
<1> QED BY <1>1, <1>2, <1>4, <1>5, <1>6 DEF Alike

LEMMA TakesPageSteps == ASSUME StreamInv, TakesPage PROVE TerminalStep
<1> DEFINE t == AtPage(term)
           u == Takes(t, read.batch)
<1>1. /\ term.at = "hydrating" /\ read.at = "answered"
      /\ UNCHANGED <<frames, run, reader, listed, sent, news>>
      /\ \/ term' = GoesLive(u) /\ read' = NoRead
         \/ term' = u /\ read' = [at |-> "sent", after |-> u.seen]
  BY DEF TakesPage, backend, Asks
<1>2. /\ t \in Terminals /\ t.at = term.at /\ t.streaming = term.streaming
      /\ t.seen = term.seen /\ t.pending = term.pending /\ t.screen = term.screen
  <2>1. read.batch.run.last \in Nat
    BY <1>1, TerminalFacts, ReadKinds DEF Batches, Snapshots
  <2>2. PICK mark \in Nat : t = [term EXCEPT !.page = @ + 1, !.mark = mark]
    BY <2>1, TerminalFacts, TerminalFields DEF AtPage
  <2> HIDE DEF t
  <2>3. term \in Terminals /\ term.page + 1 \in Nat
    BY TerminalFacts, TerminalFields
  <2> QED BY <2>2, <2>3 DEF Terminals
<1> HIDE DEF t
<1>3. /\ u \in Terminals /\ Near(u, run.last) /\ term.seen <= u.seen
      /\ Loses(term, u, run.first) /\ u.at = term.at /\ Stopped(u, run) /\ Clean(u)
  BY <1>1, <1>2, BatchTaken
<1> HIDE DEF u
<1>4. CASE term' = GoesLive(u) /\ read' = NoRead
  <2>1. /\ Goes(u, term', run.last) /\ term'.at = "live" /\ Stopped(term', run)
    BY <1>1, <1>3, <1>4, GoesLiveOn
  <2>2. Loses(term, term', run.first)
    BY <1>3, <2>1, TerminalFacts, LosesOn
  <2>3. read' \in Reads /\ Reading(read', term', run)
    BY <1>4 DEF NoRead, Reads, Reading
  <2> QED BY <1>1, <1>3, <2>1, <2>2, <2>3 DEF TerminalStep, Goes
<1>5. CASE term' = u /\ read' = [at |-> "sent", after |-> u.seen]
  <2>1. read' \in Reads /\ Reading(read', term', run)
    BY <1>1, <1>3, <1>5, TerminalFields DEF Reads, Reading
  <2> QED BY <1>1, <1>3, <1>5, <2>1 DEF TerminalStep
<1> QED BY <1>1, <1>4, <1>5

LEMMA TakesPollSteps == ASSUME StreamInv, TakesPoll PROVE TerminalStep
<1>1. /\ read.at = "answered" /\ term' = Takes(term, read.batch) /\ read' = NoRead
      /\ UNCHANGED <<frames, run, reader, listed, sent, news>>
  BY DEF TakesPoll, backend
<1>2. /\ term' \in Terminals /\ Near(term', run.last) /\ Loses(term, term', run.first)
      /\ Stopped(term', run) /\ Clean(term')
  BY <1>1, TerminalFacts, BatchTaken
<1>3. read' \in Reads /\ Reading(read', term', run)
  BY <1>1 DEF NoRead, Reads, Reading
<1> QED BY <1>1, <1>2, <1>3 DEF TerminalStep

LEMMA ReadFailsSteps == ASSUME StreamInv, ReadFails PROVE TerminalStep
<1>1. /\ read.at = "failed" /\ read' = NoRead
      /\ term' = IF term.at = "hydrating" THEN GoesLive(term) ELSE term
      /\ UNCHANGED <<frames, run, reader, listed, sent, news>>
  BY DEF ReadFails, backend
<1>2. Goes(term, term', run.last) /\ Stopped(term', run)
  <2>1. CASE term.at = "hydrating"
    BY <1>1, <2>1, TerminalFacts, GoesLiveOn
  <2>2. CASE term.at # "hydrating"
    BY <1>1, <2>2, TerminalFacts, GoesNowhere
  <2> QED BY <2>1, <2>2
<1>3. read' \in Reads /\ Reading(read', term', run)
  BY <1>1 DEF NoRead, Reads, Reading
<1> QED BY <1>1, <1>2, <1>3, TerminalFacts, GoesLosesNothing DEF TerminalStep, Goes

LEMMA TerminalSteps ==
  ASSUME StreamInv, Terminal \/ User \/ OutputArrives \/ StatusArrives PROVE TerminalStep
  BY UserSteps, SubscribesSteps, OutputArrivesSteps, StatusArrivesSteps, ReadAnswersSteps,
     PollsSteps, TakesPageSteps, TakesPollSteps, ReadFailsSteps DEF Terminal

LEMMA StreamStepKeeps == ASSUME StreamInv, [StreamNext]_streamVars PROVE StreamInv'
<1>1. CASE UNCHANGED streamVars
  BY <1>1 DEF streamVars, StreamInv, StreamTypes, Replay, ExitedAtEnd
<1>2. CASE Backend
  BY <1>2, ReaderReadsKeeps, ReaderEndsKeeps, WaiterPublishesKeeps, RemovedKeeps DEF Backend
<1>3. CASE Terminal \/ User \/ OutputArrives \/ StatusArrives
  BY <1>3, TerminalSteps, TerminalStepKeeps
<1> QED BY <1>1, <1>2, <1>3 DEF StreamNext

(* The terminal, what is under way to it and the replay fit together at all times; *)
(* the replay never holds more than its limits.                                    *)
THEOREM StreamInvariance == StreamSpec => []StreamInv
  BY StreamInitHolds, StreamStepKeeps, PTL DEF StreamSpec

(* A terminal that has stopped for an exited run has been through all of its output, *)
(* whatever was dropped, whatever overtook it and however often it was mounted.      *)
THEOREM StopsAtTheEnd == StreamSpec => []StopsWithAll
<1>1. StreamInv => StopsWithAll
  <2> SUFFICES ASSUME StreamInv, term.at # "none", ~term.streaming, run.status = "exited"
               PROVE  term.seen = run.last
    BY DEF StopsWithAll
  <2>1. term.seen >= run.last
    BY DEF StreamInv, Stopped
  <2> QED BY <2>1, TerminalFacts
<1> QED BY <1>1, StreamInvariance, PTL

(* Between two notes a screen shows the output as it was written, for every overlap *)
(* of first reading, polls and events.                                              *)
THEOREM AsWrittenAlways == StreamSpec => []ShownAsWritten
<1>1. StreamInv => ShownAsWritten
  BY DEF StreamInv, Clean, ShownAsWritten
<1> QED BY <1>1, StreamInvariance, PTL

(* A terminal leaves out only what the replay has lost, and marks the place. *)
THEOREM LostIsMarked == StreamSpec => OnlyLostIsSkipped
<1> DEFINE Marked == \A n \in term.seen + 1 .. term'.seen :
                        (\A i \in DOMAIN term'.screen : term'.screen[i] # n) =>
                            /\ n < run.first
                            /\ \E i \in DOMAIN term'.screen :
                                  i >= Len(term.screen) /\ term'.screen[i] = Gap
<1>1. StreamInv /\ [StreamNext]_streamVars => [Marked]_streamVars
  <2> SUFFICES ASSUME StreamInv, StreamNext PROVE Marked
    OBVIOUS
  <2>1. CASE Backend
    <3>1. term' = term /\ term.seen \in Nat
      BY <2>1, TerminalFacts DEF Backend, ReaderReads, ReaderEnds, WaiterPublishes, Removed
    <3> QED BY <3>1
  <2>2. CASE Terminal \/ User \/ OutputArrives \/ StatusArrives
    <3>1. Loses(term, term', run.first) /\ term' \in Terminals
      BY <2>2, TerminalSteps DEF TerminalStep
    <3>2. DOMAIN term'.screen = 1 .. Len(term'.screen)
      BY <3>1, TerminalFields
    <3> QED BY <3>1, <3>2 DEF Loses, OnScreen
  <2> QED BY <2>1, <2>2 DEF StreamNext
<1>2. StreamSpec => [][StreamNext]_streamVars
  BY DEF StreamSpec
<1> QED BY <1>1, <1>2, StreamInvariance, PTL DEF OnlyLostIsSkipped

-------------------------------------------------------------------------------
(* The run that the terminal shows lives the life RunLifecycle describes, as the *)
(* run of PtyRun with its threads does: the two modules look at one run.         *)
Shown == INSTANCE RunLifecycle WITH
    status <- run.status,
    drained <- (reader # "reading"),
    exitCode <- (run.status = "exited")

LEMMA ShownInit == StreamInit => Shown!Init
  BY DEF StreamInit, Shown!Init

LEMMA ShownStep ==
  ASSUME StreamInv, [StreamNext]_streamVars PROVE [Shown!Next]_(Shown!vars)
<1>1. run \in Snapshots /\ reader \in {"reading", "eof", "error"} /\ listed \in BOOLEAN
  BY DEF StreamInv, StreamTypes
<1>2. CASE UNCHANGED <<run, reader, listed>>
  BY <1>2 DEF Shown!vars
<1>3. CASE ReaderReads
  <2>1. run' = [run EXCEPT !.last = @ + 1, !.first = run.last + 2 - Len(frames')]
        /\ UNCHANGED <<reader, listed>>
    BY <1>3 DEF ReaderReads
  <2>2. run'.status = run.status
    BY <1>1, <2>1 DEF Snapshots
  <2> QED BY <2>1, <2>2 DEF Shown!vars
<1>4. CASE ReaderEnds
  <2>1. reader = "reading" /\ reader' \in {"eof", "error"} /\ UNCHANGED listed
    BY <1>4 DEF ReaderEnds
  <2>2. run'.status = run.status
    <3>1. run.status \in {"running", "failed"}
      BY <1>1, <2>1 DEF StreamInv, ExitedAtEnd, Snapshots
    <3>2. CASE run.status = "running"
      BY <1>4, <3>2 DEF ReaderEnds
    <3>3. CASE run.status = "failed"
      <4>1. run' = [run EXCEPT !.status = IF reader' = "error" THEN "failed" ELSE @]
        BY <1>4, <3>3 DEF ReaderEnds
      <4> QED BY <1>1, <3>3, <4>1 DEF Snapshots
    <3> QED BY <3>1, <3>2, <3>3
  <2>3. Shown!Drain
    BY <2>1, <2>2 DEF Shown!Drain
  <2> QED BY <2>3 DEF Shown!Next
<1>5. CASE WaiterPublishes
  <2>1. PICK final \in IF reader = "eof" THEN {"exited", "failed"} ELSE {"failed"} :
           run' = [run EXCEPT !.status = final]
    BY <1>5 DEF WaiterPublishes
  <2>2. run.status = "running" /\ UNCHANGED <<reader, listed>>
    BY <1>5 DEF WaiterPublishes
  <2>3. run'.status = final
    BY <1>1, <2>1 DEF Snapshots
  <2>4. CASE final = "exited"
    <3>1. reader = "eof"
      BY <2>1, <2>4
    <3>2. Shown!Exit
      BY <2>2, <2>3, <2>4, <3>1 DEF Shown!Exit
    <3> QED BY <3>2 DEF Shown!Next
  <2>5. CASE final = "failed"
    <3>1. Shown!Fail
      BY <2>2, <2>3, <2>5 DEF Shown!Fail
    <3> QED BY <3>1 DEF Shown!Next
  <2> QED BY <2>1, <2>4, <2>5
<1>6. CASE Removed
  <2>1. Shown!Remove
    BY <1>6 DEF Removed, Shown!Remove, Shown!Closable
  <2> QED BY <2>1 DEF Shown!Next
<1>7. CASE Terminal \/ User \/ OutputArrives \/ StatusArrives
  BY <1>2, <1>7, TerminalSteps DEF TerminalStep
<1>8. CASE UNCHANGED streamVars
  BY <1>2, <1>8 DEF streamVars
<1> QED BY <1>3, <1>4, <1>5, <1>6, <1>7, <1>8 DEF StreamNext, Backend

(* Whoever reads a terminal may rely on RunLifecycle: an exit code is told only of *)
(* a run whose reader is through, and how a run ended is never taken back.        *)
THEOREM ShownRunLives == StreamSpec => Shown!Spec
  BY ShownInit, ShownStep, StreamInvariance, PTL DEF StreamSpec, Shown!Spec

================================================================================
