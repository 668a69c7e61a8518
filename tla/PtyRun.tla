-------------------------------- MODULE PtyRun --------------------------------
(***************************************************************************)
(* One embedded PTY run (infrastructure/pty/runtime.rs) from the moment    *)
(* start_omp has put it in the registry: the thread that finishes the      *)
(* start, the output reader, the input writer, the child waiter, the       *)
(* command handlers that hold a clone of its RunControl, and the operating *)
(* system's side of it: the process group leader, other members of its     *)
(* group and descendants that left the group but still hold the terminal.  *)
(*                                                                         *)
(* Every mutex scope of the code is one action, so two threads interleave  *)
(* between the scopes.  The replay buffer is the subject of another        *)
(* module: here reading output changes nothing until the stream ends.      *)
(***************************************************************************)
EXTENDS Naturals, Sequences

CONSTANTS
    Callers,      \* concurrent command handlers
    MaxInput,     \* MAXIMUM_INPUT_QUEUE_MESSAGES
    Sizes,        \* terminal sizes a resize may ask for
    InitialSize,  \* INITIAL_ROWS x INITIAL_COLS
    PidReuse      \* the system may give the group's number to a new group

ASSUME PtyRunAssumption ==
    /\ MaxInput \in Nat \ {0}
    /\ InitialSize \in Sizes
    /\ PidReuse \in BOOLEAN

VARIABLES
    starter,         \* rest of start_omp: emit the first status, spawn the threads
    leader,          \* the spawned child: "alive", "zombie" (exited) or "reaped"
    grouped,         \* another member of its process group is alive
    escaped,         \* a descendant outside the group holds the terminal open
    groupKnown,      \* RunControl.process_group_leader is Some
    foreign,         \* the group's number names somebody else's group
    master,          \* RunControl.master is Some
    sender,          \* RunControl.input_sender is Some
    queued,          \* messages in the bounded input channel
    writer,          \* the input writer thread
    reader,          \* the output reader thread
    readerErr,       \* its local reader_failed
    readerFinished,  \* RunState.reader_finished
    readerFailed,    \* RunState.reader_failed
    waiter,          \* the child waiter thread
    waitOk,          \* its local result of child.wait()
    sawReader,       \* its local reader_finished
    status,          \* snapshot.status
    exitCode,        \* snapshot.exit_code or signal is Some
    size,            \* snapshot.rows and cols, and the terminal's own size
    held,            \* snapshot a thread has cloned and not yet emitted
    events,          \* statuses given to the event sink, in order
    listed,          \* the run is in the registry
    call             \* what each command handler is doing

osVars == <<leader, grouped, escaped, foreign>>
channelVars == <<master, sender, queued>>
stateVars == <<readerFinished, readerFailed, status, exitCode, size>>
readerVars == <<reader, readerErr>>
waiterVars == <<waiter, waitOk, sawReader>>
eventVars == <<held, events>>

vars == <<starter, osVars, groupKnown, channelVars, writer, readerVars,
          waiterVars, stateVars, eventVars, listed, call>>

Statuses == {"running", "exited", "failed"}
Idle == [op |-> "none", at |-> "idle"]
Calls == [op : {"none", "input", "force", "resize"},
          at : {"idle", "check", "act", "dropInput", "dropMaster"}]
WaiterSteps == {"unborn", "wait", "dropInput", "dropMaster", "drain", "signalTerm",
                "drainTerm", "signalKill", "drainKill", "publish", "emit", "done"}

(* A process that may hold the terminal's slave end; it may also have closed it. *)
SlaveOpen == leader = "alive" \/ grouped \/ escaped

Init ==
    /\ starter = "emit"
    /\ leader = "alive" /\ grouped = FALSE /\ escaped = FALSE /\ foreign = FALSE
    /\ groupKnown \in BOOLEAN
    /\ master = TRUE /\ sender = TRUE /\ queued = 0
    /\ writer = "unborn"
    /\ reader = "unborn" /\ readerErr = FALSE
    /\ waiter = "unborn" /\ waitOk = FALSE /\ sawReader = FALSE
    /\ readerFinished = FALSE /\ readerFailed = FALSE
    /\ status = "running" /\ exitCode = FALSE /\ size = InitialSize
    /\ held = [t \in {"reader", "waiter"} |-> "running"]
    /\ events = <<>>
    /\ listed = TRUE
    /\ call = [c \in Callers |-> Idle]

-------------------------------------------------------------------------------
(* The rest of start_omp: the first status event leaves before any thread of *)
(* the run exists, and the registry entry is already visible to commands.    *)

StarterEmits ==
    /\ starter = "emit"
    /\ events' = Append(events, "running")
    /\ starter' = "spawn"
    /\ UNCHANGED <<osVars, groupKnown, channelVars, writer, readerVars,
                   waiterVars, stateVars, held, listed, call>>

(* spawn_input_writer, spawn_output_reader and spawn_child_waiter: a thread that  *)
(* is yet to be spawned does what one does that is yet to take its first step.    *)
(* A spawn that panics for want of a thread is not modelled.                      *)
StarterSpawns ==
    /\ starter = "spawn"
    /\ starter' = "done"
    /\ writer' = "idle"
    /\ reader' = "reading"
    /\ waiter' = "wait"
    /\ UNCHANGED <<osVars, groupKnown, channelVars, readerErr, waitOk, sawReader,
                   stateVars, eventVars, listed, call>>

-------------------------------------------------------------------------------
(* The operating system.  None of this is under the runtime's control. *)

LeaderExits ==
    /\ leader = "alive"
    /\ leader' = "zombie"
    /\ UNCHANGED <<starter, grouped, escaped, foreign, groupKnown, channelVars, writer,
                   readerVars, waiterVars, stateVars, eventVars, listed, call>>

(* A process of the run starts another one, which stays in the group or leaves it. *)
Forks ==
    /\ leader = "alive" \/ grouped
    /\ \/ grouped' = TRUE /\ UNCHANGED escaped
       \/ escaped' = TRUE /\ UNCHANGED grouped
    /\ UNCHANGED <<starter, leader, foreign, groupKnown, channelVars, writer, readerVars,
                   waiterVars, stateVars, eventVars, listed, call>>

DescendantsEnd ==
    /\ \/ grouped /\ grouped' = FALSE /\ UNCHANGED escaped
       \/ escaped /\ escaped' = FALSE /\ UNCHANGED grouped
    /\ UNCHANGED <<starter, leader, foreign, groupKnown, channelVars, writer, readerVars,
                   waiterVars, stateVars, eventVars, listed, call>>

(* The leader is reaped and its group empty: its number may be given out again. *)
NumberReused ==
    /\ PidReuse
    /\ leader = "reaped" /\ ~grouped
    /\ foreign' = TRUE
    /\ UNCHANGED <<starter, leader, grouped, escaped, groupKnown, channelVars, writer,
                   readerVars, waiterVars, stateVars, eventVars, listed, call>>

(* Effect of SIGKILL sent to the group by number. *)
GroupKilled ==
    /\ leader' = IF leader = "alive" THEN "zombie" ELSE leader
    /\ grouped' = FALSE
    /\ UNCHANGED <<escaped, foreign>>

-------------------------------------------------------------------------------
(* The input writer: takes a message, writes it for as long as the child     *)
(* cares to read it, and stops on an error or when the channel has closed.   *)

WriterTakes ==
    /\ writer = "idle"
    /\ queued > 0
    /\ queued' = queued - 1
    /\ writer' = "writing"
    /\ UNCHANGED <<starter, osVars, groupKnown, master, sender, readerVars, waiterVars,
                   stateVars, eventVars, listed, call>>

WriterWrites ==
    /\ writer = "writing"
    /\ writer' = "idle"
    /\ UNCHANGED <<starter, osVars, groupKnown, channelVars, readerVars, waiterVars,
                   stateVars, eventVars, listed, call>>

(* The receiver is dropped with the thread, and the messages in it are lost. *)
WriterStops ==
    /\ \/ writer = "writing"
       \/ writer = "idle" /\ queued = 0 /\ ~sender
    /\ writer' = "done"
    /\ queued' = 0
    /\ UNCHANGED <<starter, osVars, groupKnown, master, sender, readerVars, waiterVars,
                   stateVars, eventVars, listed, call>>

-------------------------------------------------------------------------------
(* The output reader. *)

(* read returned 0, or the EIO that Linux reports once the slave is closed: when  *)
(* no process is left, or before, when those that live have closed the terminal.  *)
ReaderEnds ==
    /\ reader = "reading"
    /\ reader' = "ended"
    /\ UNCHANGED <<starter, osVars, groupKnown, channelVars, writer, readerErr,
                   waiterVars, stateVars, eventVars, listed, call>>

ReaderErrs ==
    /\ reader = "reading"
    /\ reader' = "ended"
    /\ readerErr' = TRUE
    /\ UNCHANGED <<starter, osVars, groupKnown, channelVars, writer, waiterVars,
                   stateVars, eventVars, listed, call>>

(* The last mutex scope of the reader: it records the end, and overwrites a *)
(* status that was published before it with a failure of its own.           *)
ReaderFinishes ==
    /\ reader = "ended"
    /\ readerFinished' = TRUE
    /\ readerFailed' = (readerFailed \/ readerErr)
    /\ IF status = "running"
       THEN /\ reader' = "done"
            /\ UNCHANGED <<status, exitCode, held>>
       ELSE /\ status' = IF readerFailed' THEN "failed" ELSE status
            /\ exitCode' = (exitCode /\ ~readerFailed')
            /\ held' = [held EXCEPT !["reader"] = status']
            /\ reader' = "emit"
    /\ UNCHANGED <<starter, osVars, groupKnown, channelVars, writer, readerErr,
                   waiterVars, size, events, listed, call>>

ReaderEmits ==
    /\ reader = "emit"
    /\ events' = Append(events, held["reader"])
    /\ reader' = "done"
    /\ UNCHANGED <<starter, osVars, groupKnown, channelVars, writer, readerErr,
                   waiterVars, stateVars, held, listed, call>>

-------------------------------------------------------------------------------
(* The child waiter. *)

(* child.wait() returns, having reaped the child, or fails. *)
WaiterReaps ==
    /\ waiter = "wait"
    /\ leader # "alive"
    /\ waitOk' \in BOOLEAN
    /\ leader' = IF waitOk' THEN "reaped" ELSE leader
    /\ waiter' = "dropInput"
    /\ UNCHANGED <<starter, grouped, escaped, foreign, groupKnown, channelVars, writer,
                   readerVars, sawReader, stateVars, eventVars, listed, call>>

(* Variant for the mutation checks: the waiter forgets the input channel. *)
WaiterKeepsInput ==
    /\ waiter = "dropInput"
    /\ waiter' = "dropMaster"
    /\ UNCHANGED <<starter, osVars, groupKnown, channelVars, writer, readerVars,
                   waitOk, sawReader, stateVars, eventVars, listed, call>>

WaiterDropsInput ==
    /\ waiter = "dropInput"
    /\ sender' = FALSE
    /\ waiter' = "dropMaster"
    /\ UNCHANGED <<starter, osVars, groupKnown, master, queued, writer, readerVars,
                   waitOk, sawReader, stateVars, eventVars, listed, call>>

WaiterDropsMaster ==
    /\ waiter = "dropMaster"
    /\ master' = FALSE
    /\ waiter' = "drain"
    /\ UNCHANGED <<starter, osVars, groupKnown, sender, queued, writer, readerVars,
                   waitOk, sawReader, stateVars, eventVars, listed, call>>

(* Variant for the mutation checks: the last wait has no deadline. *)
WaiterDrainsForEver ==
    /\ waiter \in {"drain", "drainTerm", "drainKill"}
    /\ waiter = "drainKill" => readerFinished
    /\ waiter' = CASE waiter = "drainKill" -> "publish"
                   [] waiter = "drain" -> "drainTerm"
                   [] OTHER -> "drainKill"
    /\ sawReader' = (waiter = "drainKill" /\ readerFinished)
    /\ UNCHANGED <<starter, osVars, groupKnown, channelVars, writer, readerVars,
                   waitOk, stateVars, eventVars, listed, call>>

(* wait_for_reader: TRUE once it sees reader_finished; the wait may run out *)
(* for as long as it has not.  A first wait that ran out leads to SIGTERM,  *)
(* a second to SIGKILL; the result of the third decides the status.         *)
WaiterDrains ==
    /\ waiter \in {"drain", "drainTerm", "drainKill"}
    /\ waiter' = CASE waiter = "drainKill" -> "publish"
                   [] waiter = "drain" -> IF readerFinished THEN "drainTerm" ELSE "signalTerm"
                   [] OTHER -> IF readerFinished THEN "drainKill" ELSE "signalKill"
    /\ sawReader' = (waiter = "drainKill" /\ readerFinished)
    /\ UNCHANGED <<starter, osVars, groupKnown, channelVars, writer, readerVars,
                   waitOk, stateVars, eventVars, listed, call>>

(* Variant for the mutation checks: the second signal is SIGTERM again. *)
WaiterOnlyTerminates ==
    /\ \/ waiter = "signalTerm" /\ waiter' = "drainTerm"
       \/ waiter = "signalKill" /\ waiter' = "drainKill"
    /\ UNCHANGED <<starter, osVars, groupKnown, channelVars, writer, readerVars, waitOk,
                   sawReader, stateVars, eventVars, listed, call>>

(* signal_process_group, best effort: SIGTERM may be ignored, what SIGKILL   *)
(* reaches ends, and nothing is sent when the group leader is not known.     *)
WaiterSignals ==
    /\ \/ waiter = "signalTerm" /\ waiter' = "drainTerm" /\ UNCHANGED osVars
       \/ /\ waiter = "signalKill"
          /\ waiter' = "drainKill"
          /\ IF groupKnown THEN GroupKilled ELSE UNCHANGED osVars
    /\ UNCHANGED <<starter, groupKnown, channelVars, writer, readerVars, waitOk,
                   sawReader, stateVars, eventVars, listed, call>>

(* Variant for the mutation checks: the snapshot is cloned before the status is written. *)
WaiterPublishesOldSnapshot ==
    /\ waiter = "publish"
    /\ IF waitOk /\ sawReader /\ ~readerFailed
       THEN status' = "exited" /\ exitCode' = TRUE
       ELSE status' = "failed" /\ UNCHANGED exitCode
    /\ held' = [held EXCEPT !["waiter"] = status]
    /\ waiter' = "emit"
    /\ UNCHANGED <<starter, osVars, groupKnown, channelVars, writer, readerVars, waitOk,
                   sawReader, readerFinished, readerFailed, size, events, listed, call>>

WaiterPublishes ==
    /\ waiter = "publish"
    /\ IF waitOk /\ sawReader /\ ~readerFailed
       THEN status' = "exited" /\ exitCode' = TRUE
       ELSE status' = "failed" /\ UNCHANGED exitCode
    /\ held' = [held EXCEPT !["waiter"] = status']
    /\ waiter' = "emit"
    /\ UNCHANGED <<starter, osVars, groupKnown, channelVars, writer, readerVars, waitOk,
                   sawReader, readerFinished, readerFailed, size, events, listed, call>>

WaiterEmits ==
    /\ waiter = "emit"
    /\ events' = Append(events, held["waiter"])
    /\ waiter' = "done"
    /\ UNCHANGED <<starter, osVars, groupKnown, channelVars, writer, readerVars, waitOk,
                   sawReader, stateVars, held, listed, call>>

-------------------------------------------------------------------------------
(* Command handlers.  Each looks the run up and keeps the clone of its       *)
(* RunControl; the status check and the use of a channel are separate scopes.*)

Becomes(c, op, at) == call' = [call EXCEPT ![c] = [op |-> op, at |-> at]]
Returns(c) == call' = [call EXCEPT ![c] = Idle]

CallBegins(c) ==
    /\ call[c] = Idle
    /\ listed
    /\ \E op \in {"input", "force", "resize"} : Becomes(c, op, "check")
    /\ UNCHANGED <<starter, osVars, groupKnown, channelVars, writer, readerVars,
                   waiterVars, stateVars, eventVars, listed>>

(* ensure_running, or terminate's early return of a final snapshot. *)
CallChecks(c) ==
    /\ call[c].at = "check"
    /\ IF status = "running" THEN Becomes(c, call[c].op, "act") ELSE Returns(c)
    /\ UNCHANGED <<starter, osVars, groupKnown, channelVars, writer, readerVars,
                   waiterVars, stateVars, eventVars, listed>>

(* Variant for the mutation checks: a send that waits. *)
CallSendsWaiting(c) ==
    /\ call[c] = [op |-> "input", at |-> "act"]
    /\ sender /\ writer # "done" => queued < MaxInput
    /\ queued' = IF sender /\ writer # "done" THEN queued + 1 ELSE queued
    /\ Returns(c)
    /\ UNCHANGED <<starter, osVars, groupKnown, master, sender, writer, readerVars,
                   waiterVars, stateVars, eventVars, listed>>

(* write_input, and terminate without force: try_send, which never waits.  A *)
(* closed, full or disconnected channel is an error reported to the caller.  *)
CallSends(c) ==
    /\ call[c] = [op |-> "input", at |-> "act"]
    /\ queued' = IF sender /\ queued < MaxInput /\ writer # "done"
                 THEN queued + 1 ELSE queued
    /\ Returns(c)
    /\ UNCHANGED <<starter, osVars, groupKnown, master, sender, writer, readerVars,
                   waiterVars, stateVars, eventVars, listed>>

(* resize holds the master's mutex until the snapshot has the new size. *)
CallResizes(c) ==
    /\ call[c] = [op |-> "resize", at |-> "act"]
    /\ IF master THEN size' \in Sizes ELSE UNCHANGED size
    /\ Returns(c)
    /\ UNCHANGED <<starter, osVars, groupKnown, channelVars, writer, readerVars,
                   waiterVars, readerFinished, readerFailed, status, exitCode,
                   eventVars, listed>>

(* Variant for the mutation checks: the group is asked to end, not killed. *)
CallAsksToEnd(c) ==
    /\ call[c] = [op |-> "force", at |-> "act"]
    /\ leader' \in IF leader = "alive" THEN {"alive", "zombie"} ELSE {leader}
    /\ UNCHANGED <<grouped, escaped, foreign>>
    /\ Becomes(c, "force", "dropInput")
    /\ UNCHANGED <<starter, groupKnown, channelVars, writer, readerVars, waiterVars,
                   stateVars, eventVars, listed>>

(* terminate with force: SIGKILL to the group when its leader is known (an   *)
(* empty group counts as terminated), else the child killer, whose hang-up   *)
(* signal the child may survive; either can fail, and then nothing is closed.*)
CallKills(c) ==
    /\ call[c] = [op |-> "force", at |-> "act"]
    /\ \/ /\ groupKnown
          /\ GroupKilled
          /\ Becomes(c, "force", "dropInput")
       \/ /\ ~groupKnown
          /\ leader' \in IF leader = "alive" THEN {"alive", "zombie"} ELSE {leader}
          /\ UNCHANGED <<grouped, escaped, foreign>>
          /\ Becomes(c, "force", "dropInput")
       \/ Returns(c) /\ UNCHANGED osVars
    /\ UNCHANGED <<starter, groupKnown, channelVars, writer, readerVars, waiterVars,
                   stateVars, eventVars, listed>>

CallCloses(c) ==
    /\ call[c].op = "force"
    /\ \/ /\ call[c].at = "dropInput"
          /\ sender' = FALSE
          /\ Becomes(c, "force", "dropMaster")
          /\ UNCHANGED master
       \/ /\ call[c].at = "dropMaster"
          /\ master' = FALSE
          /\ Returns(c)
          /\ UNCHANGED sender
    /\ UNCHANGED <<starter, osVars, groupKnown, queued, writer, readerVars, waiterVars,
                   stateVars, eventVars, listed>>

(* Variant for the mutation checks: one of the two conditions is not tested. *)
ClosableWhileRunning == readerFinished

(* close_run, and prune_runs for a new start: one scope of the registry mutex. *)
Closable == status # "running" /\ readerFinished

Removed ==
    /\ listed
    /\ Closable
    /\ listed' = FALSE
    /\ UNCHANGED <<starter, osVars, groupKnown, channelVars, writer, readerVars,
                   waiterVars, stateVars, eventVars, call>>

-------------------------------------------------------------------------------
Starter == StarterEmits \/ StarterSpawns
System == LeaderExits \/ Forks \/ DescendantsEnd \/ NumberReused
Writer == WriterTakes \/ WriterWrites \/ WriterStops
Reader == ReaderEnds \/ ReaderErrs \/ ReaderFinishes \/ ReaderEmits
Waiter == WaiterReaps \/ WaiterDropsInput \/ WaiterDropsMaster \/ WaiterDrains
          \/ WaiterSignals \/ WaiterPublishes \/ WaiterEmits
CallStep(c) == CallChecks(c) \/ CallSends(c) \/ CallResizes(c) \/ CallKills(c)
               \/ CallCloses(c)

Next ==
    \/ Starter
    \/ System
    \/ Writer
    \/ Reader
    \/ Waiter
    \/ \E c \in Callers : CallBegins(c) \/ CallStep(c)
    \/ Removed

Spec == Init /\ [][Next]_vars

(* The threads of the process are scheduled; the child, its descendants, the  *)
(* user and what the writer's descriptor does are not under its control.  The *)
(* reader is sure of its end only when nobody is left to hold the terminal.   *)
Fairness ==
    /\ WF_vars(Starter)
    /\ WF_vars((ReaderEnds /\ ~SlaveOpen) \/ ReaderFinishes \/ ReaderEmits)
    /\ WF_vars(Waiter)
    /\ \A c \in Callers : WF_vars(CallStep(c))

FairSpec == Spec /\ Fairness

-------------------------------------------------------------------------------
(* Properties *)

(* Type invariant of the run's threads, its RunState and its RunControl. *)
SystemTypeOK ==
    /\ leader \in {"alive", "zombie", "reaped"}
    /\ grouped \in BOOLEAN /\ escaped \in BOOLEAN
    /\ groupKnown \in BOOLEAN /\ foreign \in BOOLEAN

ThreadTypeOK ==
    /\ starter \in {"emit", "spawn", "done"}
    /\ writer \in {"unborn", "idle", "writing", "done"}
    /\ reader \in {"unborn", "reading", "ended", "emit", "done"}
    /\ readerErr \in BOOLEAN
    /\ waiter \in WaiterSteps
    /\ waitOk \in BOOLEAN /\ sawReader \in BOOLEAN

ControlTypeOK ==
    /\ master \in BOOLEAN /\ sender \in BOOLEAN
    /\ queued \in 0..MaxInput
    /\ readerFinished \in BOOLEAN /\ readerFailed \in BOOLEAN
    /\ status \in Statuses /\ exitCode \in BOOLEAN
    /\ size \in Sizes

ClientTypeOK ==
    /\ held \in [{"reader", "waiter"} -> Statuses]
    /\ events \in Seq(Statuses)
    /\ listed \in BOOLEAN
    /\ call \in [Callers -> Calls]

TypeOK == SystemTypeOK /\ ThreadTypeOK /\ ControlTypeOK /\ ClientTypeOK

(* A run whose status is final accepts nothing any more: both of its channels *)
(* were closed before the status was published, so a handler that checked the *)
(* status while it was still "running" finds them closed when it gets there.  *)
FinalIsSealed == status # "running" => ~sender /\ ~master

(* The waiter reports an exit code only for a run whose output was read to *)
(* its end without an error; every other way to end is a failure.          *)
ExitedIsDrained ==
    /\ exitCode <=> status = "exited"
    /\ status = "exited" => readerFinished /\ ~readerFailed

(* The client merges snapshots on the understanding that a final status is   *)
(* never taken back: neither the waiter nor the reader, each of which writes *)
(* the status under the mutex, undoes what the other has published.          *)
StatusIsFinal ==
    [][status # "running" => status' = status /\ exitCode' = exitCode]_vars

(* What the event sink is given: the creation event first, then only the     *)
(* final status the run has, at most once by the waiter and once by the reader.*)
EventsTellTheStatus ==
    \A i \in 1..Len(events) :
        IF i = 1 THEN events[i] = "running"
        ELSE i <= 3 /\ events[i] = status /\ status # "running"

(* A run that has been removed from the registry never comes back to life: *)
(* its child was reaped or lost, and its output stream had ended.          *)
RemovedIsOver == ~listed => leader # "alive" /\ readerFinished /\ waiter \in {"emit", "done"}

(* A command handler always returns, even when the child stops reading its *)
(* input and the writer thread is blocked for ever.                        *)
CallsReturn == \A c \in Callers : call[c] # Idle ~> call[c] = Idle

(* Once the child has exited a final status is published, whatever the rest  *)
(* of its process group does and however long the reader is kept waiting.    *)
ExitIsPublished == leader # "alive" ~> status # "running"

(* ... and the run can be removed, unless the terminal is held open for ever  *)
(* by a process the runtime cannot reach: one outside the group, or one in a  *)
(* group whose leader is not known.                                           *)
ExitedBecomesClosable ==
    leader # "alive" ~> (Closable \/ [](escaped \/ (grouped /\ ~groupKnown)))

(* terminate(force) on a run that is still "running" leads to a final status  *)
(* when the signal reached the group.                                         *)
ForceEndsTheRun ==
    \A c \in Callers :
        (call[c] = [op |-> "force", at |-> "dropInput"] /\ groupKnown) ~> status # "running"

(* A forced termination signals the group of the spawned child and no other. *)
ForceHitsOwnGroup ==
    [][\A c \in Callers : CallKills(c) /\ groupKnown => ~foreign]_vars

(* The run is one of the runs RunLifecycle describes. *)
Lifecycle == INSTANCE RunLifecycle WITH drained <- readerFinished
ImplementsLifecycle == Lifecycle!Spec
===============================================================================
