----------------------------- MODULE PtyRunProofs -----------------------------
(***************************************************************************)
(* What PtyRun guarantees for every number of command handlers, every      *)
(* capacity of the input queue and every set of terminal sizes.  All of it *)
(* rests on where the waiter and the reader stand when they write the      *)
(* snapshot, which is what Protocol says.                                  *)
(***************************************************************************)
EXTENDS PtyRun, TLAPS

(* The waiter has passed the point where it takes the input sender, or the master. *)
TookSender == waiter \notin {"unborn", "wait", "dropInput"}
TookMaster == TookSender /\ waiter # "dropMaster"

(* The threads' positions determine the state they share. *)
Protocol ==
    /\ starter # "done" => waiter = "unborn" /\ reader = "unborn"
    /\ status # "running" <=> waiter \in {"emit", "done"}
    /\ readerFinished <=> reader \in {"emit", "done"}
    /\ TookSender => ~sender
    /\ TookMaster => ~master
    /\ sawReader => readerFinished
    /\ leader = "alive" => waiter \in {"unborn", "wait"}
    /\ ExitedIsDrained
    /\ ~listed => Closable

IInv == TypeOK /\ Protocol

-------------------------------------------------------------------------------
(* Type correctness: the run's state, its channels and the handlers' requests *)
(* keep their types; the input channel never holds more than its capacity.    *)
THEOREM TypeCorrect == Spec => []TypeOK
<1>1. Init => TypeOK
  <2> SUFFICES ASSUME Init PROVE TypeOK
    OBVIOUS
  <2>1. queued \in 0..MaxInput /\ size \in Sizes
    BY PtyRunAssumption DEF Init
  <2>2. /\ master \in BOOLEAN /\ sender \in BOOLEAN
        /\ readerFinished \in BOOLEAN /\ readerFailed \in BOOLEAN
        /\ status \in Statuses /\ exitCode \in BOOLEAN
    BY DEF Init, Statuses
  <2>3. ControlTypeOK
    BY <2>1, <2>2, Zenon DEF ControlTypeOK
  <2>4. SystemTypeOK
    BY DEF Init, SystemTypeOK
  <2>5. ThreadTypeOK
    BY DEF Init, ThreadTypeOK, WaiterSteps
  <2>6. ClientTypeOK
    BY DEF Init, ClientTypeOK, Statuses, Idle, Calls
  <2> QED BY <2>3, <2>4, <2>5, <2>6 DEF TypeOK
<1>2. TypeOK /\ [Next]_vars => TypeOK'
  <2> SUFFICES ASSUME TypeOK, [Next]_vars PROVE TypeOK'
    OBVIOUS
  <2> SystemTypeOK /\ ThreadTypeOK /\ ControlTypeOK /\ ClientTypeOK
    BY DEF TypeOK
  <2>1. CASE Starter
    <3>1. SystemTypeOK'
      BY <2>1 DEF Starter, StarterEmits, StarterSpawns, SystemTypeOK, osVars,
         GroupKilled, waiterVars
    <3>2. ThreadTypeOK'
      BY <2>1 DEF Starter, StarterEmits, StarterSpawns, ThreadTypeOK,
         ControlTypeOK, WaiterSteps, readerVars, waiterVars
    <3>3. ControlTypeOK'
      BY <2>1 DEF Starter, StarterEmits, StarterSpawns, ControlTypeOK,
         ThreadTypeOK, Statuses, channelVars, stateVars, readerVars
    <3>4. ClientTypeOK'
      BY <2>1 DEF Starter, StarterEmits, StarterSpawns, ClientTypeOK,
         ControlTypeOK, ThreadTypeOK, Statuses, stateVars, eventVars
    <3> QED BY <3>1, <3>2, <3>3, <3>4 DEF TypeOK
  <2>2. CASE System
    <3>1. SystemTypeOK'
      BY <2>2 DEF System, LeaderExits, Forks, DescendantsEnd, NumberReused,
         SystemTypeOK, osVars, GroupKilled, waiterVars
    <3>2. ThreadTypeOK'
      BY <2>2 DEF System, LeaderExits, Forks, DescendantsEnd, NumberReused,
         ThreadTypeOK, ControlTypeOK, WaiterSteps, readerVars, waiterVars
    <3>3. ControlTypeOK'
      BY <2>2 DEF System, LeaderExits, Forks, DescendantsEnd, NumberReused,
         ControlTypeOK, ThreadTypeOK, Statuses, channelVars, stateVars, readerVars
    <3>4. ClientTypeOK'
      BY <2>2 DEF System, LeaderExits, Forks, DescendantsEnd, NumberReused,
         ClientTypeOK, ControlTypeOK, ThreadTypeOK, Statuses, stateVars, eventVars
    <3> QED BY <3>1, <3>2, <3>3, <3>4 DEF TypeOK
  <2>3. CASE Writer
    <3>1. SystemTypeOK'
      BY <2>3 DEF Writer, WriterTakes, WriterWrites, WriterStops, SystemTypeOK,
         osVars, GroupKilled, waiterVars
    <3>2. ThreadTypeOK'
      BY <2>3 DEF Writer, WriterTakes, WriterWrites, WriterStops, ThreadTypeOK,
         ControlTypeOK, WaiterSteps, readerVars, waiterVars
    <3>3. ControlTypeOK'
      <4>1. queued' \in 0..MaxInput
        BY <2>3, PtyRunAssumption DEF Writer, WriterTakes, WriterWrites, WriterStops,
           ControlTypeOK, channelVars
      <4>2. UNCHANGED <<master, sender, readerFinished, readerFailed, status, exitCode, size>>
        BY <2>3 DEF Writer, WriterTakes, WriterWrites, WriterStops, channelVars, stateVars
      <4> QED BY <4>1, <4>2 DEF ControlTypeOK
    <3>4. ClientTypeOK'
      BY <2>3 DEF Writer, WriterTakes, WriterWrites, WriterStops, ClientTypeOK,
         ControlTypeOK, ThreadTypeOK, Statuses, stateVars, eventVars
    <3> QED BY <3>1, <3>2, <3>3, <3>4 DEF TypeOK
  <2>4. CASE Reader
    <3>1. SystemTypeOK'
      BY <2>4 DEF Reader, ReaderEnds, ReaderErrs, ReaderFinishes, ReaderEmits,
         SystemTypeOK, osVars, GroupKilled, waiterVars
    <3>2. ThreadTypeOK'
      BY <2>4 DEF Reader, ReaderEnds, ReaderErrs, ReaderFinishes, ReaderEmits,
         ThreadTypeOK, ControlTypeOK, WaiterSteps, readerVars, waiterVars
    <3>3. ControlTypeOK'
      BY <2>4 DEF Reader, ReaderEnds, ReaderErrs, ReaderFinishes, ReaderEmits,
         ControlTypeOK, ThreadTypeOK, Statuses, channelVars, stateVars, readerVars
    <3>4. ClientTypeOK'
      BY <2>4 DEF Reader, ReaderEnds, ReaderErrs, ReaderFinishes, ReaderEmits,
         ClientTypeOK, ControlTypeOK, ThreadTypeOK, Statuses, stateVars, eventVars
    <3> QED BY <3>1, <3>2, <3>3, <3>4 DEF TypeOK
  <2>5. CASE Waiter
    <3>1. SystemTypeOK'
      BY <2>5 DEF Waiter, WaiterReaps, WaiterDropsInput, WaiterDropsMaster,
         WaiterDrains, WaiterSignals, WaiterPublishes, WaiterEmits, SystemTypeOK,
         osVars, GroupKilled, waiterVars
    <3>2. ThreadTypeOK'
      BY <2>5 DEF Waiter, WaiterReaps, WaiterDropsInput, WaiterDropsMaster,
         WaiterDrains, WaiterSignals, WaiterPublishes, WaiterEmits, ThreadTypeOK,
         ControlTypeOK, WaiterSteps, readerVars, waiterVars
    <3>3. ControlTypeOK'
      BY <2>5 DEF Waiter, WaiterReaps, WaiterDropsInput, WaiterDropsMaster,
         WaiterDrains, WaiterSignals, WaiterPublishes, WaiterEmits, ControlTypeOK,
         ThreadTypeOK, Statuses, channelVars, stateVars, readerVars
    <3>4. ClientTypeOK'
      <4>1. UNCHANGED <<listed, call>>
        BY <2>5 DEF Waiter, WaiterReaps, WaiterDropsInput, WaiterDropsMaster,
           WaiterDrains, WaiterSignals, WaiterPublishes, WaiterEmits
      <4>2. CASE WaiterPublishes
        <5>1. status' \in Statuses /\ held' = [held EXCEPT !["waiter"] = status'] /\ events' = events
          BY <3>3, <4>2 DEF WaiterPublishes, ControlTypeOK
        <5> QED BY <4>1, <5>1 DEF ClientTypeOK
      <4>3. CASE WaiterEmits
        <5>1. held' = held /\ events' = Append(events, held["waiter"])
          BY <4>3 DEF WaiterEmits
        <5> QED BY <4>1, <5>1 DEF ClientTypeOK
      <4>4. CASE ~(WaiterPublishes \/ WaiterEmits)
        <5>1. UNCHANGED <<held, events>>
          BY <2>5, <4>4 DEF Waiter, WaiterReaps, WaiterDropsInput, WaiterDropsMaster,
             WaiterDrains, WaiterSignals, eventVars
        <5> QED BY <4>1, <5>1 DEF ClientTypeOK
      <4> QED BY <4>2, <4>3, <4>4
    <3> QED BY <3>1, <3>2, <3>3, <3>4 DEF TypeOK
  <2>6. ASSUME NEW c \in Callers, CallBegins(c) \/ CallStep(c) PROVE TypeOK'
    <3>1. call[c] \in Calls /\ Idle \in Calls
      BY DEF ClientTypeOK, Calls, Idle
    <3>2. SystemTypeOK' /\ ThreadTypeOK'
      BY <2>6 DEF CallBegins, CallStep, CallChecks, CallSends, CallResizes, CallKills,
         CallCloses, SystemTypeOK, ThreadTypeOK, GroupKilled, osVars, readerVars, waiterVars
    <3>3. ControlTypeOK'
      <4>1. queued' \in 0..MaxInput
        BY <2>6, PtyRunAssumption DEF CallBegins, CallStep, CallChecks, CallSends,
           CallResizes, CallKills, CallCloses, ControlTypeOK, channelVars
      <4>2. master' \in BOOLEAN /\ sender' \in BOOLEAN /\ size' \in Sizes
        BY <2>6 DEF CallBegins, CallStep, CallChecks, CallSends, CallResizes, CallKills,
           CallCloses, ControlTypeOK, channelVars, stateVars
      <4>3. UNCHANGED <<readerFinished, readerFailed, status, exitCode>>
        BY <2>6 DEF CallBegins, CallStep, CallChecks, CallSends, CallResizes, CallKills,
           CallCloses, stateVars
      <4> QED BY <4>1, <4>2, <4>3 DEF ControlTypeOK
    <3>4. ClientTypeOK'
      <4>1. \E new \in Calls : call' = [call EXCEPT ![c] = new]
        BY <2>6, <3>1 DEF CallBegins, CallStep, CallChecks, CallSends, CallResizes, CallKills,
           CallCloses, Becomes, Returns, Calls
      <4>2. UNCHANGED <<held, events, listed>>
        BY <2>6 DEF CallBegins, CallStep, CallChecks, CallSends, CallResizes, CallKills,
           CallCloses, eventVars
      <4> QED BY <4>1, <4>2 DEF ClientTypeOK
    <3> QED BY <3>2, <3>3, <3>4 DEF TypeOK
  <2>7. CASE Removed
    <3>1. SystemTypeOK' /\ ThreadTypeOK'
      BY <2>7 DEF SystemTypeOK, ThreadTypeOK, Removed, osVars, readerVars, waiterVars
    <3>2. ControlTypeOK'
      BY <2>7 DEF ControlTypeOK, Removed, channelVars, stateVars
    <3>3. ClientTypeOK'
      BY <2>7 DEF ClientTypeOK, Removed, eventVars
    <3> QED BY <3>1, <3>2, <3>3 DEF TypeOK
  <2>8. CASE UNCHANGED vars
    BY <2>8 DEF TypeOK, SystemTypeOK, ThreadTypeOK, ControlTypeOK, ClientTypeOK, vars,
       osVars, channelVars, stateVars, readerVars, waiterVars, eventVars
  <2> QED BY <2>1, <2>2, <2>3, <2>4, <2>5, <2>6, <2>7, <2>8 DEF Next
<1> QED BY <1>1, <1>2, PTL DEF Spec

-------------------------------------------------------------------------------
(* The waiter's step from one position to the next keeps what its position   *)
(* promises: channels closed before the status is written, the reader's end  *)
(* seen before an exit code is recorded.                                     *)
LEMMA WaiterKeepsProtocol ==
  ASSUME TypeOK, Protocol, Waiter
  PROVE  Protocol'
<1> USE DEF Protocol, TookSender, TookMaster, ExitedIsDrained, Closable
<1>1. CASE WaiterReaps
  BY <1>1 DEF WaiterReaps, channelVars, stateVars, readerVars
<1>2. CASE WaiterDropsInput
  BY <1>2 DEF WaiterDropsInput, osVars, stateVars, readerVars
<1>3. CASE WaiterDropsMaster
  BY <1>3 DEF WaiterDropsMaster, osVars, stateVars, readerVars
<1>4. CASE WaiterDrains
  BY <1>4 DEF WaiterDrains, osVars, channelVars, stateVars, readerVars
<1>5. CASE WaiterSignals
  BY <1>5 DEF WaiterSignals, GroupKilled, osVars, channelVars, stateVars, readerVars
<1>6. CASE WaiterPublishes
  BY <1>6 DEF WaiterPublishes, osVars, channelVars, readerVars
<1>7. CASE WaiterEmits
  BY <1>7 DEF WaiterEmits, osVars, channelVars, stateVars, readerVars
<1> QED BY <1>1, <1>2, <1>3, <1>4, <1>5, <1>6, <1>7 DEF Waiter

(* The reader's last scope finds either a live run or one that has failed:   *)
(* the waiter records an exit only after the reader's end.                   *)
LEMMA ReaderKeepsProtocol ==
  ASSUME TypeOK, Protocol, Reader
  PROVE  Protocol'
<1> USE DEF Protocol, TookSender, TookMaster, ExitedIsDrained, Closable
<1>1. CASE ReaderEnds \/ ReaderErrs \/ ReaderEmits
  BY <1>1 DEF ReaderEnds, ReaderErrs, ReaderEmits, osVars, channelVars, waiterVars, stateVars
<1>2. CASE ReaderFinishes
  <2>1. ~readerFinished /\ status # "exited" /\ ~exitCode
    BY <1>2 DEF ReaderFinishes
  <2>2. status' = status /\ ~exitCode' /\ readerFinished'
    BY <1>2, <2>1 DEF ReaderFinishes, TypeOK, ControlTypeOK, Statuses
  <2> QED BY <1>2, <2>1, <2>2 DEF ReaderFinishes, osVars, channelVars, waiterVars
<1> QED BY <1>1, <1>2 DEF Reader

(* The invariant is inductive. *)
LEMMA Invariance == Spec => []IInv
<1>1. Init => Protocol
  BY DEF Init, Protocol, TookSender, TookMaster, ExitedIsDrained
<1>2. TypeOK /\ Protocol /\ [Next]_vars => Protocol'
  <2> SUFFICES ASSUME TypeOK, Protocol, [Next]_vars PROVE Protocol'
    OBVIOUS
  <2> USE DEF Protocol, TookSender, TookMaster, ExitedIsDrained, Closable
  <2>1. CASE Starter
    BY <2>1 DEF Starter, StarterEmits, StarterSpawns, osVars, channelVars, stateVars,
       waiterVars, readerVars
  <2>2. CASE System
    BY <2>2 DEF System, LeaderExits, Forks, DescendantsEnd, NumberReused,
       channelVars, stateVars, waiterVars, readerVars
  <2>3. CASE Writer
    BY <2>3 DEF Writer, WriterTakes, WriterWrites, WriterStops, osVars, channelVars,
       stateVars, waiterVars, readerVars
  <2>4. CASE Reader
    BY <2>4, ReaderKeepsProtocol
  <2>5. CASE Waiter
    BY <2>5, WaiterKeepsProtocol
  <2>6. ASSUME NEW c \in Callers, CallBegins(c) \/ CallStep(c) PROVE Protocol'
    <3>1. UNCHANGED <<starter, waiter, sawReader, reader, readerFinished, readerFailed, status,
                      exitCode, listed>>
      BY <2>6 DEF CallBegins, CallStep, CallChecks, CallSends, CallResizes, CallKills,
         CallCloses, stateVars, waiterVars, readerVars
    <3>2. /\ ~sender => ~sender'
          /\ ~master => ~master'
          /\ leader' = "alive" => leader = "alive"
      BY <2>6 DEF CallBegins, CallStep, CallChecks, CallSends, CallResizes, CallKills,
         CallCloses, GroupKilled, channelVars, osVars
    <3> QED BY <3>1, <3>2
  <2>7. CASE Removed
    BY <2>7 DEF Removed, osVars, channelVars, stateVars, waiterVars, readerVars
  <2>8. CASE UNCHANGED vars
    BY <2>8 DEF vars, osVars, channelVars, stateVars, waiterVars, readerVars
  <2> QED BY <2>1, <2>2, <2>3, <2>4, <2>5, <2>6, <2>7, <2>8 DEF Next
<1> QED BY <1>1, <1>2, TypeCorrect, PTL DEF Spec, IInv

-------------------------------------------------------------------------------
(* Nothing can be sent to a run or resized once its status is final. *)
THEOREM FinalSealed == Spec => []FinalIsSealed
<1>1. IInv => FinalIsSealed
  BY DEF IInv, Protocol, TookSender, TookMaster, FinalIsSealed
<1> QED BY <1>1, Invariance, PTL

(* An exit code is only ever reported together with the end of the output. *)
THEOREM ExitDrained == Spec => []ExitedIsDrained
<1>1. IInv => ExitedIsDrained
  BY DEF IInv, Protocol
<1> QED BY <1>1, Invariance, PTL

(* A removed run has no live child, and nobody will read its terminal again. *)
THEOREM RemovedOver == Spec => []RemovedIsOver
<1>1. IInv => RemovedIsOver
  BY DEF IInv, Protocol, Closable, RemovedIsOver
<1> QED BY <1>1, Invariance, PTL

(* A published status is never taken back, nor the exit code that goes with it. *)
THEOREM StatusFinal == Spec => StatusIsFinal
<1>1. IInv /\ [Next]_vars =>
        [status # "running" => status' = status /\ exitCode' = exitCode]_vars
  <2> SUFFICES ASSUME IInv, [Next]_vars, status # "running"
               PROVE  status' = status /\ exitCode' = exitCode
    OBVIOUS
  <2>1. CASE Reader
    <3>1. CASE ReaderFinishes
      <4>1. status = "failed" /\ ~exitCode
        BY <3>1 DEF ReaderFinishes, IInv, TypeOK, ControlTypeOK, Statuses, Protocol, ExitedIsDrained
      <4> QED BY <3>1, <4>1 DEF ReaderFinishes, IInv, TypeOK, ControlTypeOK
    <3> QED BY <2>1, <3>1 DEF Reader, ReaderEnds, ReaderErrs, ReaderEmits, stateVars
  <2>2. CASE Waiter
    BY <2>2 DEF Waiter, WaiterReaps, WaiterDropsInput, WaiterDropsMaster, WaiterDrains,
       WaiterSignals, WaiterPublishes, WaiterEmits, IInv, Protocol, stateVars
  <2>3. ASSUME NEW c \in Callers, CallBegins(c) \/ CallStep(c)
        PROVE  status' = status /\ exitCode' = exitCode
    BY <2>3 DEF CallBegins, CallStep, CallChecks, CallSends, CallResizes, CallKills,
       CallCloses, stateVars
  <2>4. CASE Starter \/ System \/ Writer \/ Removed \/ UNCHANGED vars
    BY <2>4 DEF Starter, StarterEmits, StarterSpawns, System, LeaderExits, Forks,
       DescendantsEnd, NumberReused, Writer, WriterTakes, WriterWrites, WriterStops,
       Removed, vars, stateVars
  <2> QED BY <2>1, <2>2, <2>3, <2>4 DEF Next
<1> QED BY <1>1, Invariance, PTL DEF Spec, StatusIsFinal

-------------------------------------------------------------------------------
(* PtyRun implements RunLifecycle: the threads, the handlers and the operating *)
(* system can only drain the run, end it once and remove it when it is over.   *)
THEOREM Implementation == Spec => ImplementsLifecycle
<1> USE DEF Lifecycle!vars, Lifecycle!Next, Lifecycle!Drain, Lifecycle!Exit,
            Lifecycle!Fail, Lifecycle!Remove, Lifecycle!Closable
<1>1. Init => Lifecycle!Init
  BY DEF Init, Lifecycle!Init
<1>2. IInv /\ [Next]_vars => [Lifecycle!Next]_(Lifecycle!vars)
  <2> SUFFICES ASSUME IInv, [Next]_vars PROVE [Lifecycle!Next]_(Lifecycle!vars)
    OBVIOUS
  <2>1. CASE Reader
    <3>1. CASE ReaderFinishes
      <4>1. ~readerFinished /\ readerFinished' /\ readerFinished' \in BOOLEAN /\ status # "exited"
        BY <3>1 DEF ReaderFinishes, IInv, Protocol, ExitedIsDrained
      <4>2. status' = status /\ exitCode' = exitCode /\ listed' = listed
        BY <3>1, <4>1 DEF ReaderFinishes, IInv, TypeOK, ControlTypeOK, Statuses, Protocol,
           ExitedIsDrained
      <4>3. readerFinished' = TRUE
        BY <3>1 DEF ReaderFinishes
      <4> QED BY <4>1, <4>2, <4>3
    <3> QED BY <2>1, <3>1 DEF Reader, ReaderEnds, ReaderErrs, ReaderEmits, stateVars
  <2>2. CASE Waiter
    <3>1. CASE WaiterPublishes
      <4>1. status = "running" /\ (sawReader => readerFinished)
        BY <3>1 DEF WaiterPublishes, IInv, TypeOK, ControlTypeOK, Statuses, Protocol
      <4> QED BY <3>1, <4>1 DEF WaiterPublishes
    <3> QED BY <2>2, <3>1 DEF Waiter, WaiterReaps, WaiterDropsInput, WaiterDropsMaster,
            WaiterDrains, WaiterSignals, WaiterEmits, stateVars
  <2>3. ASSUME NEW c \in Callers, CallBegins(c) \/ CallStep(c)
        PROVE  UNCHANGED Lifecycle!vars
    BY <2>3 DEF CallBegins, CallStep, CallChecks, CallSends, CallResizes, CallKills,
       CallCloses, stateVars
  <2>4. CASE Removed
    BY <2>4 DEF Removed, Closable, stateVars
  <2>5. CASE Starter \/ System \/ Writer \/ UNCHANGED vars
    BY <2>5 DEF Starter, StarterEmits, StarterSpawns, System, LeaderExits, Forks,
       DescendantsEnd, NumberReused, Writer, WriterTakes, WriterWrites, WriterStops,
       vars, stateVars
  <2> QED BY <2>1, <2>2, <2>3, <2>4, <2>5 DEF Next
<1> QED BY <1>1, <1>2, Invariance, PTL DEF Spec, ImplementsLifecycle, Lifecycle!Spec
-------------------------------------------------------------------------------
(* What the event sink has been given, and what the threads still hold for it:  *)
(* a clone that has not been emitted yet tells the status the run still has, and *)
(* each thread emits at most once.                                               *)
Told == IF starter = "emit" THEN 0 ELSE 1
EmittedBy(step) == IF step = "done" THEN 1 ELSE 0

Emission ==
    /\ EventsTellTheStatus
    /\ starter = "emit" <=> events = <<>>
    /\ Len(events) <= Told + EmittedBy(waiter) + EmittedBy(reader)
    /\ waiter = "emit" => held["waiter"] = status
    /\ reader = "emit" => held["reader"] = status /\ status # "running"

(* A step that emits nothing, and takes no final status back, tells nothing wrong. *)
LEMMA QuietStep ==
  ASSUME IInv, Emission, UNCHANGED <<events, held>>,
         status # "running" => status' = status,
         starter' = "emit" <=> starter = "emit",
         waiter' = "emit" => waiter = "emit",
         waiter = "done" => waiter' = "done",
         reader' = "emit" => reader = "emit",
         reader = "done" => reader' = "done"
  PROVE  Emission'
<1> Len(events) \in Nat
  BY DEF IInv, TypeOK, ClientTypeOK
<1>1. EventsTellTheStatus'
  BY DEF Emission, EventsTellTheStatus
<1>2. Len(events') <= (Told + EmittedBy(waiter) + EmittedBy(reader))'
  BY DEF Emission, Told, EmittedBy
<1>3. (waiter = "emit" => held["waiter"] = status)'
  BY DEF Emission, IInv, Protocol
<1> QED BY <1>1, <1>2, <1>3 DEF Emission

(* A thread that emits a final status the run has appends it to what was told. *)
LEMMA FinalIsTold ==
  ASSUME IInv, EventsTellTheStatus, NEW last \in Statuses,
         last = status, status # "running", status' = status,
         Len(events) >= 1, Len(events) <= 2,
         events' = Append(events, last)
  PROVE  EventsTellTheStatus' /\ Len(events') = Len(events) + 1
<1>1. events \in Seq(Statuses) /\ Len(events) \in Nat
  BY DEF IInv, TypeOK, ClientTypeOK
<1>2. Len(events') = Len(events) + 1
  BY <1>1
<1>3. events'[Len(events) + 1] = last /\ \A i \in 1 .. Len(events) : events'[i] = events[i]
  BY <1>1
<1>4. ASSUME NEW i \in 1 .. Len(events')
      PROVE  IF i = 1 THEN events'[i] = "running"
             ELSE i <= 3 /\ events'[i] = status' /\ status' # "running"
  <2>1. CASE i \in 1 .. Len(events)
    BY <2>1, <1>1, <1>3 DEF EventsTellTheStatus
  <2>2. CASE i = Len(events) + 1
    BY <2>2, <1>1, <1>3
  <2> QED BY <2>1, <2>2, <1>1, <1>2
<1> QED BY <1>2, <1>4 DEF EventsTellTheStatus

LEMMA EmissionKept == ASSUME IInv, IInv', Emission, [Next]_vars PROVE Emission'
<1> USE DEF IInv
<1>0. Len(events) \in Nat /\ events \in Seq(Statuses) /\ held \in [{"reader", "waiter"} -> Statuses]
  BY DEF TypeOK, ClientTypeOK
<1>1. CASE Starter
  <2>1. CASE StarterEmits
    <3>1. events' = <<"running">> /\ Len(events') = 1 /\ events'[1] = "running"
      BY <2>1 DEF StarterEmits, Emission
    <3>2. EventsTellTheStatus'
      BY <3>1 DEF EventsTellTheStatus
    <3>3. Told' = 1 /\ UNCHANGED <<waiter, reader, held, status>>
      BY <2>1 DEF StarterEmits, Told, readerVars, waiterVars, stateVars
    <3>4. waiter = "unborn" /\ reader = "unborn"
      BY <2>1 DEF StarterEmits, Protocol
    <3> QED BY <2>1, <3>1, <3>2, <3>3, <3>4 DEF Emission, EmittedBy, StarterEmits
  <2>2. CASE StarterSpawns
    BY <2>2, QuietStep DEF StarterSpawns, eventVars, stateVars, Protocol
  <2> QED BY <1>1, <2>1, <2>2 DEF Starter
<1>2. CASE Reader
  <2>1. CASE ReaderEnds \/ ReaderErrs
    BY <2>1, QuietStep DEF ReaderEnds, ReaderErrs, eventVars, stateVars, waiterVars
  <2>2. CASE ReaderFinishes
    <3>1. status' = status /\ UNCHANGED <<events, starter, waiter>> /\ reader = "ended"
      <4>1. status # "running" => status = "failed"
        BY <2>2 DEF ReaderFinishes, TypeOK, ControlTypeOK, Statuses, Protocol, ExitedIsDrained
      <4> QED BY <2>2, <4>1 DEF ReaderFinishes, waiterVars
    <3>2. CASE status = "running"
      BY <2>2, <3>1, <3>2, QuietStep DEF ReaderFinishes
    <3>3. CASE status # "running"
      <4>1. reader' = "emit" /\ held' = [held EXCEPT !["reader"] = status']
        BY <2>2, <3>3 DEF ReaderFinishes
      <4>2. held'["reader"] = status /\ held'["waiter"] = held["waiter"]
        BY <4>1, <3>1, <1>0
      <4>3. EventsTellTheStatus'
        BY <3>1 DEF Emission, EventsTellTheStatus
      <4> QED BY <3>1, <3>3, <4>1, <4>2, <4>3 DEF Emission, Told, EmittedBy
    <3> QED BY <3>2, <3>3
  <2>3. CASE ReaderEmits
    <3>1. /\ reader = "emit" /\ reader' = "done" /\ events' = Append(events, held["reader"])
          /\ UNCHANGED <<starter, waiter, status, held>>
      BY <2>3 DEF ReaderEmits, waiterVars, stateVars
    <3>2. held["reader"] = status /\ status # "running" /\ held["reader"] \in Statuses
      BY <3>1, <1>0 DEF Emission
    <3>3. starter = "done" /\ waiter \in {"emit", "done"}
      BY <3>1, <3>2 DEF Protocol
    <3>4. Len(events) >= 1
      BY <3>3, <1>0 DEF Emission
    <3> QED BY <3>1, <3>2, <3>3, <3>4, <1>0, FinalIsTold DEF Emission, Told, EmittedBy
  <2> QED BY <1>2, <2>1, <2>2, <2>3 DEF Reader
<1>3. CASE Waiter
  <2>1. CASE WaiterReaps \/ WaiterDropsInput \/ WaiterDropsMaster \/ WaiterDrains \/ WaiterSignals
    <3>1. UNCHANGED <<starter, reader, status, held, events>> /\ waiter # "done" /\ waiter' # "emit"
      BY <2>1 DEF WaiterReaps, WaiterDropsInput, WaiterDropsMaster, WaiterDrains, WaiterSignals,
         readerVars, stateVars, eventVars
    <3> QED BY <3>1, QuietStep
  <2>2. CASE WaiterPublishes
    <3>1. /\ UNCHANGED <<starter, reader, events>>
          /\ status = "running" /\ status' # "running"
          /\ waiter = "publish" /\ waiter' = "emit"
          /\ held' = [held EXCEPT !["waiter"] = status']
      BY <2>2 DEF WaiterPublishes, readerVars, Protocol
    <3>2. held'["waiter"] = status' /\ held'["reader"] = held["reader"]
      BY <3>1, <1>0
    <3>3. reader # "emit"
      BY <3>1 DEF Emission
    <3>4. EventsTellTheStatus'
      BY <3>1, <1>0 DEF Emission, EventsTellTheStatus
    <3> QED BY <3>1, <3>2, <3>3, <3>4 DEF Emission, Told, EmittedBy
  <2>3. CASE WaiterEmits
    <3>1. /\ waiter = "emit" /\ waiter' = "done" /\ events' = Append(events, held["waiter"])
          /\ UNCHANGED <<starter, reader, status, held>>
      BY <2>3 DEF WaiterEmits, readerVars, stateVars
    <3>2. held["waiter"] = status /\ status # "running" /\ held["waiter"] \in Statuses
      BY <3>1, <1>0 DEF Emission, Protocol
    <3>3. starter = "done"
      BY <3>1 DEF Protocol
    <3>4. Len(events) >= 1
      BY <3>3, <1>0 DEF Emission
    <3> QED BY <3>1, <3>2, <3>3, <3>4, <1>0, FinalIsTold DEF Emission, Told, EmittedBy
  <2> QED BY <1>3, <2>1, <2>2, <2>3 DEF Waiter
<1>4. ASSUME NEW c \in Callers, CallBegins(c) \/ CallStep(c) PROVE Emission'
  <2>1. UNCHANGED <<starter, waiter, reader, status, held, events>>
    BY <1>4 DEF CallBegins, CallStep, CallChecks, CallSends, CallResizes, CallKills,
       CallCloses, stateVars, waiterVars, readerVars, eventVars
  <2> QED BY <2>1, QuietStep
<1>5. CASE System \/ Writer \/ Removed \/ UNCHANGED vars
  <2>1. UNCHANGED <<starter, waiter, reader, status, held, events>>
    BY <1>5 DEF System, LeaderExits, Forks, DescendantsEnd, NumberReused, Writer, WriterTakes,
       WriterWrites, WriterStops, Removed, vars, stateVars, waiterVars, readerVars, eventVars
  <2> QED BY <2>1, QuietStep
<1> QED BY <1>1, <1>2, <1>3, <1>4, <1>5 DEF Next

(* Whoever follows the events learns that the run was created, then how it ended, *)
(* and nothing else: no thread tells a snapshot that the other one has overtaken. *)
THEOREM EventsTell == Spec => []EventsTellTheStatus
<1>1. Init => Emission
  BY DEF Init, Emission, EventsTellTheStatus, Told, EmittedBy
<1>2. IInv /\ IInv' /\ Emission /\ [Next]_vars => Emission'
  BY EmissionKept
<1>3. Emission => EventsTellTheStatus
  BY DEF Emission
<1> QED BY <1>1, <1>2, <1>3, Invariance, PTL DEF Spec

-------------------------------------------------------------------------------
(* RunLifecycle itself: what any run that lives this life promises.  Together *)
(* with Implementation it is what a run of PtyRun promises.                   *)

LifecycleInv == Lifecycle!TypeOK /\ Lifecycle!Promise

(* An exit code is recorded only when the output was drained, and a run that *)
(* was removed had ended and been drained.                                   *)
LEMMA Promised == Lifecycle!Spec => []LifecycleInv
<1>1. Lifecycle!Init => LifecycleInv
  BY DEF Lifecycle!Init, LifecycleInv, Lifecycle!TypeOK, Lifecycle!Promise, Lifecycle!Statuses,
     Lifecycle!Closable
<1>2. LifecycleInv /\ [Lifecycle!Next]_(Lifecycle!vars) => LifecycleInv'
  <2> SUFFICES ASSUME LifecycleInv, [Lifecycle!Next]_(Lifecycle!vars) PROVE LifecycleInv'
    OBVIOUS
  <2> USE DEF LifecycleInv, Lifecycle!TypeOK, Lifecycle!Promise, Lifecycle!Statuses,
              Lifecycle!Closable
  <2>1. CASE Lifecycle!Drain
    BY <2>1 DEF Lifecycle!Drain
  <2>2. CASE Lifecycle!Exit
    BY <2>2 DEF Lifecycle!Exit
  <2>3. CASE Lifecycle!Fail
    BY <2>3 DEF Lifecycle!Fail
  <2>4. CASE Lifecycle!Remove
    BY <2>4 DEF Lifecycle!Remove
  <2>5. CASE UNCHANGED Lifecycle!vars
    BY <2>5 DEF Lifecycle!vars
  <2> QED BY <2>1, <2>2, <2>3, <2>4, <2>5 DEF Lifecycle!Next
<1> QED BY <1>1, <1>2, PTL DEF Lifecycle!Spec

(* No step of a run takes back how it ended. *)
LEMMA FinalKept == Lifecycle!Spec => Lifecycle!FinalStays
<1>1. [Lifecycle!Next]_(Lifecycle!vars) =>
        [status # "running" => status' = status /\ exitCode' = exitCode]_(Lifecycle!vars)
  BY DEF Lifecycle!Next, Lifecycle!Drain, Lifecycle!Exit, Lifecycle!Fail, Lifecycle!Remove
<1> QED BY <1>1, PTL DEF Lifecycle!Spec, Lifecycle!FinalStays

(* A run of PtyRun keeps the promise because it implements RunLifecycle. *)
THEOREM PromiseInherited == Spec => []LifecycleInv /\ Lifecycle!FinalStays
  BY Implementation, Promised, FinalKept DEF ImplementsLifecycle
===============================================================================
