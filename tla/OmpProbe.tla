-------------------------------- MODULE OmpProbe --------------------------------
(***************************************************************************)
(* adapters/omp/mod.rs and infrastructure/process/mod.rs: the capability   *)
(* probe and the model query, and the bounded subprocess under both.  The  *)
(* probe asks candidates for their version until one answers, then asks    *)
(* the chosen one for its help texts, and reports under one identity; the  *)
(* files may be replaced, and put back, at any time.                       *)
(*                                                                         *)
(* A subprocess is a leader in a process group of its own.  It may leave   *)
(* descendants inside the group or outside of it, all of which hold the    *)
(* output pipe, and may write, exit or hang as it likes.  The pipe stands  *)
(* for stdout and stderr, which are read alike.  One process runs at a     *)
(* time: one probe at a time is TaskSupervisor's promise (ProbeHistory).   *)
(* Abstracted: the help tokens, so that a report is which commands         *)
(* answered; which candidates exist, so that the probe takes any of them.  *)
(***************************************************************************)
EXTENDS Naturals, FiniteSets

CONSTANTS
    Candidates,  \* canonical paths of executables
    Helps,       \* the help commands
    NoPath,
    Limit,       \* max_stdout_bytes, in chunks
    MaxOutput,   \* bound: chunks a process writes
    MaxChanges   \* bound: replacements of executables

ASSUME OmpProbeAssumption ==
    /\ NoPath \notin Candidates \cup Helps
    /\ {"version", "models"} \cap Helps = {}
    /\ Limit \in Nat /\ MaxOutput \in Nat /\ MaxChanges \in Nat

VARIABLES
    exe,       \* identity of the file at each candidate's path, 0 for none
    task,      \* the probe or the query: what it has and what is left to do
    runner,    \* run_omp or run_omp_models_json: where it is
    child,     \* its process and the pipe
    home,      \* whether the isolated home of a model query exists
    faults,    \* what kept the last call from cleaning up after itself
    report,    \* what the last probe or query returned
    changes    \* counter of the bound

ompVars == <<exe, task, runner, child, home, faults, report, changes>>
processes == <<child, faults>>

NoTask == [at |-> "idle", kind |-> "none", rest |-> {}, path |-> NoPath, id |-> 0,
           command |-> "none", todo |-> {}, answers |-> {}]
NoRun == [at |-> "idle", fd |-> 0]
NoChild == [leader |-> "none", ok |-> FALSE, image |-> 0, group |-> FALSE, outside |-> FALSE,
            wrote |-> 0, read |-> 0, reader |-> "none"]
NoReport == [id |-> 0, answers |-> {}]

OmpInit ==
    /\ exe \in [Candidates -> 0 .. 1]
    /\ task = NoTask
    /\ runner = NoRun
    /\ child = NoChild
    /\ home = FALSE
    /\ faults = {}
    /\ report = NoReport
    /\ changes = 0

-----------------------------------------------------------------------------
(* The adapter                                                              *)

\* probe_capabilities and discover_candidates.
ProbeBegins ==
    /\ task.at = "idle"
    /\ task' = [NoTask EXCEPT !.at = "choose", !.kind = "probe", !.rest = Candidates]
    /\ report' = NoReport
    /\ UNCHANGED <<exe, runner, processes, home, changes>>

\* inspect_executable_file and the first command; without a candidate that
\* answers, OMP is reported missing.
ProbeChooses ==
    /\ task.at = "choose"
    /\ IF task.rest = {}
         THEN task' = NoTask /\ UNCHANGED runner
         ELSE \E c \in task.rest :
                LET next == [task EXCEPT !.rest = @ \ {c}]
                IN  IF exe[c] = 0
                      THEN task' = next /\ UNCHANGED runner
                      ELSE /\ task' = [next EXCEPT !.at = "run", !.path = c, !.id = exe[c],
                                                   !.command = "version"]
                           /\ runner' = [NoRun EXCEPT !.at = "open"]
    /\ UNCHANGED <<exe, processes, home, report, changes>>

\* The next help command, whatever became of the last one.
ProbeAsks ==
    /\ task.at = "ask"
    /\ \E h \in task.todo :
          task' = [task EXCEPT !.at = "run", !.command = h, !.todo = @ \ {h}]
    /\ runner' = [NoRun EXCEPT !.at = "open"]
    /\ UNCHANGED <<exe, processes, home, report, changes>>

\* The last look at the executable, then the report.
ProbeReports ==
    /\ task.at = "ask" /\ task.todo = {}
    /\ IF exe[task.path] = task.id
         THEN report' = [id |-> task.id, answers |-> task.answers]
         ELSE UNCHANGED report
    /\ task' = NoTask
    /\ UNCHANGED <<exe, runner, processes, home, changes>>

\* list_models, with the executable and the identity of an earlier report.
QueryBegins ==
    /\ task.at = "idle"
    /\ \E c \in Candidates, id \in 1 .. 2 :
          task' = [NoTask EXCEPT !.at = "run", !.kind = "models", !.path = c, !.id = id,
                                 !.command = "models"]
    /\ runner' = [NoRun EXCEPT !.at = "open"]
    /\ report' = NoReport
    /\ UNCHANGED <<exe, processes, home, changes>>

\* What a subprocess answered is kept with the image that ran and whether all of
\* its output was kept or some cut off.
Answer == [command |-> task.command, image |-> child.image,
           whole |-> child.wrote <= Limit /\ child.read = child.wrote,
           cut |-> child.read > Limit]

\* The runner failed: another candidate, the next command, or the query's error.
TaskWithout ==
    task' = CASE task.command = "version" -> [task EXCEPT !.at = "choose"]
              [] task.command = "models"  -> NoTask
              [] OTHER                    -> [task EXCEPT !.at = "ask"]

\* The runner answered.  Truncated models are refused; a version that cannot be
\* parsed and a status that is not success are no answer.
TaskWith ==
    \/ TaskWithout /\ UNCHANGED report
    \/ /\ child.ok
       /\ \/ /\ task.command = "version"
             /\ task' = [task EXCEPT !.at = "ask", !.todo = Helps, !.answers = {Answer}]
             /\ UNCHANGED report
          \/ /\ task.command = "models" /\ ~Answer.cut
             /\ task' = NoTask
             /\ report' = [id |-> task.id, answers |-> {Answer}]
          \/ /\ task.command \in Helps
             /\ task' = [task EXCEPT !.at = "ask", !.answers = @ \cup {Answer}]
             /\ UNCHANGED report

-----------------------------------------------------------------------------
(* The subprocess runner                                                    *)

\* Every return; IsolatedModelHome is removed with it, or stays when that fails,
\* which nobody hears of.
RunnerReturns(failed) ==
    /\ runner' = NoRun
    /\ home' \in {FALSE, home}
    /\ faults' = faults \cup failed \cup (IF home' THEN {"removal"} ELSE {})

\* open_verified_executable: the file at the path now must have the identity that
\* was asked for, and is held open from here on.  IsolatedModelHome::create may
\* fail, also after it made the directory.  What the call before has left behind
\* is followed up to here.
Opens ==
    /\ runner.at = "open"
    /\ IF exe[task.path] = task.id
         THEN /\ child' = NoChild
              /\ \/ /\ runner' = [at |-> "spawn", fd |-> exe[task.path]]
                    /\ home' = (task.command = "models")
                    /\ faults' = {}
                    /\ UNCHANGED task
                 \/ /\ task.command = "models"
                    /\ runner' = NoRun
                    /\ home' \in BOOLEAN
                    /\ faults' = IF home' THEN {"mode"} ELSE {}
                    /\ TaskWithout
         ELSE runner' = NoRun /\ TaskWithout /\ UNCHANGED <<home, processes>>
    /\ UNCHANGED <<exe, report, changes>>

ImageAtPath == exe[task.path]
\* Command::new(command_path()): /proc/self/fd names the file that is held open.
Image == runner.fd

\* spawn, with the reader tasks; or it fails.
Spawns ==
    /\ runner.at = "spawn"
    /\ \/ /\ child' = [NoChild EXCEPT !.leader = "alive", !.image = Image, !.reader = "reading"]
          /\ runner' = [runner EXCEPT !.at = "wait"]
          /\ UNCHANGED <<task, home, faults>>
       \/ RunnerReturns({}) /\ TaskWithout /\ UNCHANGED child
    /\ UNCHANGED <<exe, report, changes>>

\* child.wait() within its timeout.
Waits ==
    /\ runner.at = "wait"
    /\ child.leader = "exited"
    /\ child' = [child EXCEPT !.leader = "reaped"]
    /\ runner' = [runner EXCEPT !.at = "sweep"]
    /\ UNCHANGED <<exe, task, home, faults, report, changes>>

\* The call goes away with its process: kill_on_drop reaches the leader alone, and
\* the readers go on by themselves.
GoesAway(why) ==
    /\ child' = [NoChild EXCEPT !.leader = "reaped", !.group = child.group]
    /\ RunnerReturns({why})
    /\ UNCHANGED <<exe, report, changes>>

\* child.wait() fails: the error returns before the group is killed.
WaitFails ==
    /\ runner.at = "wait"
    /\ GoesAway("wait")
    /\ TaskWithout

\* The timeout: terminate_command_tree kills the group and reaps the leader.
TimesOut ==
    /\ runner.at = "wait"
    /\ child' = [child EXCEPT !.leader = "reaped", !.group = FALSE]
    /\ runner' = [runner EXCEPT !.at = "collect_error"]
    /\ UNCHANGED <<exe, task, home, faults, report, changes>>

SparesGroup ==
    /\ runner.at = "sweep"
    /\ runner' = [runner EXCEPT !.at = "collect"]
    /\ UNCHANGED <<exe, task, home, processes, report, changes>>
\* terminate_process_group_after_exit.
Sweeps ==
    /\ runner.at = "sweep"
    /\ child' = [child EXCEPT !.group = FALSE]
    /\ runner' = [runner EXCEPT !.at = "collect"]
    /\ UNCHANGED <<exe, task, home, faults, report, changes>>

\* collect_output_with_deadline: the readers saw the end of the pipe, or failed.
Collects ==
    /\ runner.at \in {"collect", "collect_error"}
    /\ child.reader \in {"done", "failed"}
    /\ RunnerReturns({})
    /\ IF runner.at = "collect" /\ child.reader = "done"
         THEN TaskWith
         ELSE TaskWithout /\ UNCHANGED report
    /\ UNCHANGED <<exe, child, changes>>

WaitsForTheEnd == FALSE /\ UNCHANGED ompVars
\* collect_output_with_deadline: somebody still holds the pipe; the readers are
\* aborted, what they have is given up, and the call fails.
GivesUp ==
    /\ runner.at \in {"collect", "collect_error"}
    /\ child.reader = "reading"
    /\ child' = [child EXCEPT !.reader = "aborted"]
    /\ RunnerReturns({})
    /\ TaskWithout
    /\ UNCHANGED <<exe, report, changes>>

\* task_supervisor.rs: the probe's own timeout drops the call at an await.
Drops ==
    /\ task.kind = "probe" /\ task.at = "run"
    /\ runner.at \in {"wait", "collect", "collect_error"}
    /\ GoesAway("dropped")
    /\ task' = NoTask

-----------------------------------------------------------------------------
(* The process, its pipe and the file system                                *)

Alive == child.leader = "alive"
PipeIsHeld == Alive \/ child.group \/ child.outside

\* read_bounded: chunks beyond the limit are read and thrown away.
Reads ==
    /\ child.reader = "reading"
    /\ child.read < child.wrote
    /\ child' = [child EXCEPT !.read = @ + 1]
    /\ UNCHANGED <<exe, task, runner, home, faults, report, changes>>

ReadsEnd ==
    /\ child.reader = "reading"
    /\ child.read = child.wrote /\ ~PipeIsHeld
    /\ child' = [child EXCEPT !.reader = "done"]
    /\ UNCHANGED <<exe, task, runner, home, faults, report, changes>>

ReadFails ==
    /\ child.reader = "reading"
    /\ child' = [child EXCEPT !.reader = "failed"]
    /\ UNCHANGED <<exe, task, runner, home, faults, report, changes>>

Writes ==
    /\ PipeIsHeld /\ child.wrote < MaxOutput
    /\ child' = [child EXCEPT !.wrote = @ + 1]
    /\ UNCHANGED <<exe, task, runner, home, faults, report, changes>>

\* A descendant stays in the group or starts a session of its own.
Forks ==
    /\ Alive
    /\ \/ child' = [child EXCEPT !.group = TRUE]
       \/ child' = [child EXCEPT !.outside = TRUE]
    /\ UNCHANGED <<exe, task, runner, home, faults, report, changes>>

LeaderExits ==
    /\ Alive
    /\ \E ok \in BOOLEAN : child' = [child EXCEPT !.leader = "exited", !.ok = ok]
    /\ UNCHANGED <<exe, task, runner, home, faults, report, changes>>

DescendantsEnd ==
    /\ \/ child' = [child EXCEPT !.group = FALSE]
       \/ child' = [child EXCEPT !.outside = FALSE]
    /\ UNCHANGED <<exe, task, runner, home, faults, report, changes>>

\* An update of OMP, or another program, moves a file to the path, or one back.
ExecutableReplaced ==
    /\ changes < MaxChanges
    /\ \E c \in Candidates, id \in 0 .. 2 : id # exe[c] /\ exe' = [exe EXCEPT ![c] = id]
    /\ changes' = changes + 1
    /\ UNCHANGED <<task, runner, processes, home, report>>

Adapter == ProbeBegins \/ ProbeChooses \/ ProbeAsks \/ ProbeReports \/ QueryBegins
Runner ==
    \/ Opens \/ Spawns \/ Waits \/ WaitFails \/ TimesOut \/ Sweeps
    \/ Collects \/ GivesUp \/ Drops
Process == Reads \/ ReadsEnd \/ ReadFails \/ Writes \/ Forks \/ LeaderExits \/ DescendantsEnd

OmpNext == Adapter \/ Runner \/ Process \/ ExecutableReplaced

OmpSpec == OmpInit /\ [][OmpNext]_ompVars

\* The runtime polls the tasks of a call that has begun and its timers fire: the
\* timeout of the wait and the deadline of the readers.  Nothing is assumed of the
\* process, of the files, or of the timeout that drops the call.
OmpFairSpec ==
    /\ OmpSpec
    /\ WF_ompVars(ProbeChooses \/ ProbeAsks \/ ProbeReports)
    /\ WF_ompVars(Opens \/ Spawns)
    /\ WF_ompVars(Waits \/ TimesOut)
    /\ WF_ompVars(Sweeps \/ Collects \/ GivesUp)

-----------------------------------------------------------------------------
(* Properties                                                               *)

\* A report names one file, and every answer in it came from a process that ran
\* that file, kept whole or known to be cut; the answer of a model query is whole
\* (open_verified_executable, command_path, read_bounded, list_models).
AnswersAreTheirs ==
    \A a \in report.answers :
        /\ a.image = report.id
        /\ a.whole \/ a.cut
        /\ a.command = "models" => a.whole

\* When the runner has returned, its leader is over; nobody is left in its group
\* unless the call was dropped or the wait itself failed; and the isolated home is
\* gone unless its mode or its removal failed.  A deadline, a reader that was given
\* up and every other error leave nothing (terminate_command_tree,
\* terminate_process_group_after_exit, IsolatedModelHome).
NothingLeftBehind ==
    runner.at = "idle" =>
        /\ ~Alive
        /\ child.group => faults \cap {"dropped", "wait"} # {}
        /\ home => faults \cap {"mode", "removal"} # {}

\* A probe or a query ends, though a process hangs or somebody it left behind
\* never closes the pipe (run_omp, collect_output_with_deadline).
TaskEnds == task.at # "idle" ~> task.at = "idle"
=============================================================================
