# OMP Manager in TLA+

A verification project for the OMP Manager desktop application
(`apps/desktop`): TLA+ modules translated from its Rust core, TLC
configurations that check them on small instances, and TLAPS proofs of the
properties that matter most. `PROJECT.json` is the index: components, runs,
mutants of the code, the source lines of every definition, hazards, findings
and theorems.

## The system

A Tauri process holds the core; a React WebView talks to it by commands and
events. Paths are under `apps/desktop/src-tauri/src` unless they start with
`src/`, which is the WebView's directory.

| component | state | operations | hard behaviour | correct when |
|---|---|---|---|---|
| PTY runtime (`infrastructure/pty/runtime.rs`) | registry of at most 32 runs behind one mutex; per run: snapshot, replay frames, the reader's end, master and input channel | `start_omp`, `list_runs`, `read_output`, `write_input`, `resize`, `terminate`, `close_run`; three threads per run | three threads, any number of handlers, a process tree nobody controls, timed TERM/KILL escalation | a final status stays; an exit code only after the last byte; nobody blocks; no child without an entry |
| Task supervisor (`services/task_supervisor.rs`) | operation snapshots (128), the active probe, writes in flight, back-off | `start_omp_probe`, `get_omp_probe`, `cancel`, `reconcile_history`; worker and persistence tasks | writes racing with status changes, eviction during a write, crashes, failing writes | one probe at a time; what is called saved is saved; history never goes back; stale rows marked, own rows not |
| Database runtime (`infrastructure/db/runtime.rs`) | connection, revisioned report, attempt flag, fingerprint of the last failure | `run_initialization` (startup and retry), `mark_initialization_worker_failed`, `snapshot` | attempts outside the mutex, panics, files that change underneath | ready stays; retries do not pile up backups; a repair gets noticed |
| Migrations (`infrastructure/db/migrations.rs`, `mod.rs`) | the database file, its backups | inspect, open, preflight, configure, back up, apply, record, commit | two processes, a process that ends between any two calls, a file that is replaced | all or nothing, with the backup of what was there; a later version untouched |
| Launch service (`services/launch_service.rs`) | 128 plans with a life of 120 s, the model-query permit | `options`, `prepare`, `execute` | evidence that changes between preparation and the start | a plan starts at most one run, and only on what was shown |
| Project service (`services/project_service.rs`) | projects, authorized roots, bindings with revisions; scope and editor guards | `add_project`, `workspace`, `update_binding`, `launch_context`, `open_in_editor` | checks of the file system between the reads and writes of the database | compare-and-swap holds, a status is told of the grant that was checked, one editor per project |
| Session service (`services/session_service.rs`) | Profile session roots, the session index; guard per Profile | authorize and scan, scan, preview, launch context | long scans over bindings and roots that change | the index shows what the current root holds, and nothing from another |
| Session parser (`adapters/omp/session_parser.rs`) | none | active branch of a session tree | cycles, missing parents | the last leaf's ancestors, or a warning |
| OMP adapter (`adapters/omp/mod.rs`), process runner (`infrastructure/process`) | a temporary home per process | probe of candidates and help texts, model query; bounded subprocesses | deadlines, limits of output, descendants, executables that are updated meanwhile | answers belong to the file that is reported; nothing left behind |
| Editor adapter (`adapters/editors/mod.rs`) | none | probe Cursor's launcher, start it detached | a launcher that is updated between the looks | the protocol is the executable's own |
| Execution targets (`adapters/targets/local.rs`) | none | identities, anchored listings and reads, Git identity | directories replaced during a walk | what is read lies in the verified directory |
| Single instance (`infrastructure/single_instance.rs`) | a named mutex | preflight, forward to the first instance | a first instance that is still starting | one instance; a second only focuses |
| WebView hooks and terminal (`src/hooks`, `src/components/OmpLaunchWorkspace.tsx`) | run list with request sequences and closing sets, probe poll, session panel; a terminal's cursor and waiting frames | commands, events | answers and events out of order, dropped, or after an unmount | no frame skipped that is still there; no late answer overwrites a newer one |

They interact by direct calls (`LaunchService` to projects, sessions,
supervisor and PTY runtime), by the shared database connection that only
`DatabaseRuntime` hands out, by status and output events to the WebView, and by
the WebView's polling. The `cursor-account-manager` extension is a separate
program and not part of this project.

## Modules

| module | models |
|---|---|
| `RunLifecycle` | what a run promises to everybody else: live, then one final status for good, an exit code only after its output was drained, removal only when final and drained |
| `PtyRun` | one run from its registry entry on: the rest of `start_omp`, reader, writer, waiter, command handlers, the process tree. Shown to implement `RunLifecycle` |
| `PtyRegistry` | the registry: competing starts, `prune_runs`, `close_run`, the creation event. Each of its runs is shown to be a `RunLifecycle` |
| `TerminalStream` | the output of a run on its way to the screen: replay buffer, `read_output`, the forwarder's events, the WebView's terminal |
| `ProbeHistory` | the task supervisor with the `operation_history` table, across crashes |
| `OmpProbe` | the adapter behind that supervisor: probe and model query over the bounded subprocess runner |
| `DatabaseRuntime` | initialization and retry, with the failure fingerprint |
| `Migrations` | what one of its attempts does to the files: open, back up, migrate, by several processes |
| `LaunchPlans` | the launch service with what it relies on: the binding behind the project's scope lease, the session index behind the lease of its Profile, the latest probe report, and files that other programs change |
| `SessionIndex` | authorization of session directories, scans and previews, for nested projects and nested roots |
| `ProjectEditor` | registration and binding of a project, its authorization states, and the opening of its directory in Cursor |
| `PtyRunProofs` | proofs about `PtyRun` and, through the instance, `RunLifecycle` |
| `PtyRuntimeProofs` | proofs about `PtyRegistry` and `TerminalStream` |
| `ProbeProofs` | proofs about `ProbeHistory` and `OmpProbe` |
| `DatabaseRuntimeProofs`, `MigrationsProofs`, `LaunchPlansProofs`, `SessionIndexProofs`, `ProjectEditorProofs` | proofs about the module of that name |
| `MC...` | the instances TLC checks |

The modules divide the system at the places where one part relies on another by
a promise. `OmpProbe` runs one task at a time, which `ProbeHistory` proves of
its worker (`OneProbeRuns`). `DatabaseRuntime` sees an attempt as an outcome,
and `Migrations` shows what that outcome leaves in the files. `PtyRegistry` and
the terminals see a run as a `RunLifecycle`, which `PtyRun` implements and the
run of `TerminalStream` is shown to live too.
`LaunchPlans` sees the binding and the session index as data that changes only
under the leases whose use by the other two services is in `ProjectEditor`
(`scopes`) and `SessionIndex` (`active`).

**How code maps to actions.** Every mutex scope and every SQL statement or
immediate transaction is one action; two threads interleave between them. A look
at the file system is an action of its own, except where a second look only
repeats the first and nothing is done in between. Where a mutex is held over several
effects nobody else can see in part, they are one action: `reconcile_history`
keeps its mutex over the statement and the flag, `resize` keeps the master's
over the ioctl and the snapshot. What was read in one scope and is used in a later
one is a variable (`held` in `PtyRun`, the jobs' copies in `ProbeHistory`, the
revision and fingerprint in `caller` of `DatabaseRuntime`, the records `req`,
`call` and `calls` of the three services), because the
properties are about its age. Timers become choices: `wait_for_reader` may run
out for as long as it has not seen the reader's end, a back-off ends at some
time, a probe's 40 seconds are one of the ways `FinishProbe` happens.

*LaunchPlans.* A call is a record that walks from step to step (`at`), with
the evidence it has gathered or is to compare (`ev`) and what it has loaded on
the way. `prepare` takes the scope lease, loads the binding and the authorized
identity, looks at the directory, stamps the authorization, reads the report,
inspects the executable, reads the session under its Profile's lease, asks for
the models, inspects again and stores; `execute` consumes first, looks at the
report and the executable, and then walks through project and session once more
up to the start. The guards' `Drop` is `Returns`, which every early return and
every failure ends in. `options` is a `prepare` that ends before its store.
Reads of what the held lease protects are one action where they follow on each
other. The leases are given back just before the plan is stored; the model does both
in one action, since nothing that is stored depends on what another call may do
then. An authorization of the directory by `add_project` lands as whatever it
inspected before (`Regrants`). Tauri runs a command to its end, so no call is abandoned half-way.

*SessionIndex.* A row is the project and Profile it is listed under, its
freshness and where it was read: the identity of the root and the generation of
the file. `PersistRoot`, `FinishScan` and the statuses are the transactions,
each with the comparison the SQL makes; `ListFiles` and `ReadFile` are the
anchored walk, which sees the file system of the moment and not of the first
check. `RootFailure` is the early return that every look at the root may end in. A
listing visits the root and the directories right inside it and passes over
deeper files without counting them (`Reach` within `Under`).
`LoadedOf` is the loading of the project and the mapping that every call begins
with, and a preview reads, looks where its session lies and asks who owns it in
three steps (`PreviewRead`, `PreviewOwner`).
Projects and roots nest, so that ownership (the deepest registered project above
a session) and the refusal of overlapping roots have something to decide.
`steady`, a history variable, is what a scan could have seen all along.

*Migrations.* A file has the versions applied to it and its write-ahead mode; a
connection belongs to a file, not to the path. Between the first look and the
commit an opener inspects the path, opens it, identifies what it has opened,
preflights the schema, configures durability, begins its immediate transaction,
reserves, copies and publishes the backup, and commits. `Fails` and `Crash` may
come at any of these points; what is left behind by a crash is what the file
system and SQLite keep.

*OmpProbe.* `Adapter` chooses candidates, asks for the version, the help texts or
the models and reports; `Runner` opens the executable by identity, spawns it by
descriptor, waits, times out, sweeps the group and collects the readers'
output; `Process` is the subprocess, which may write, hang, exit and leave
descendants inside or outside its group. The task may be dropped by the
supervisor's timeout at every await, the wait for the process may fail, a reader
may fail, and the isolated home may keep its directory because its mode could not
be set or its removal failed. `faults` remembers what of this happened.

*ProjectEditor.* A grant is the identity of an authorized directory with its
last known status, and a revision of the binding is compared and swapped. The
opening of the editor takes the guard, checks the grant, writes its status,
probes the candidates (a help process by path between two looks at the
executable's identity), opens the executable and the directory by descriptor and
starts the editor by path, whatever is there by then. `looks`, a history variable,
is which states of which directory have been seen; `moves` and `swapped` of a call
tell whether the launcher's path changed hands since the last look at it, and
whether it did so there and back while the help ran.

*TerminalStream.* A frame has a number and a size; the replay keeps what fits
`MaxBytes` and `MaxFrames`. Each appended frame's event may be dropped, the
subscription may fail, and the status event may overtake the output. The
terminal reads pages of the replay when it is mounted, shows live frames, keeps
frames that wait for their predecessors, polls, and decides to stop
(`maybeStopStreaming`); it may be left and reopened at any time.

The initial predicates and next-state relations of `OmpProbe` and
`TerminalStream` bear their component's name (`OmpSpec`, `StreamSpec`), because
their proofs share a module with those of another component.

**The boundary.** What the operating system and SQLite do is modelled from how
the code uses it and marked external: in `PtyRun` `LeaderExits`, `Forks` (into or
out of the process group), `DescendantsEnd`, `NumberReused`, the effect of
`kill` and the terminal that stays open while anyone holds its slave end; the
crash of the process; the user's edits of the database files; the changes of
directories, files and executables by other programs; SQLite's single writer,
its all-or-nothing transactions and its consistent backup steps. One assumption
about other programs is deliberate: whoever replaces the database puts a *new* file
there (its inode does not come back), while directories, session files, OMP's
executable and Cursor's launcher may be put back. Nobody overwrites an executable in
place without a trace. A group number is given out again in `PtyRun` only; in
`OmpProbe` the sweep that follows the reaping of the leader is assumed to reach the
leader's own group. A file system
check or a query that may fail is a choice of outcome.

**Abstracted data.** Output bytes, input bytes, arguments, paths, reports,
diagnostics and times are left out, except the start times that order eviction.
A terminal size is an element of a small set. A fingerprint of the database
files is the number of the last edit and whether an attempt has left sidecars
since. A path's place in the tree is given by the constants `Holds`, `Under` and
`Below`. What a session file says is a read that may fail; a help text is the
image that printed it.

## Runs

Each run finishes in a few seconds to three minutes on two cores. Deadlock is
checked where a call must always find a way to return (`SessionIndex`,
`OmpProbe`, `ProjectEditor`). It is not checked elsewhere: a finished run, an
idle supervisor, a ready database, a failed opener and a stopped terminal have
nothing more to do.

| run | instance | shows |
|---|---|---|
| `PtyRun` | 1 handler, 2 queued messages, 2 sizes, reusable group numbers | events tell the status; a final run has closed its channels; `RunLifecycle` is implemented; handlers return; an exit is published; an exited run becomes closable; a forced termination leads to a final status |
| `PtyRunGroupReuse` | 1 handler | **violated**: a forced termination can signal a foreign group (first finding) |
| `PtyRegistry` | 4 starts, room for 2 | no untracked child; entry before event; every run has a `RunLifecycle` |
| `TerminalStream` | 3 frames of 2 sizes, a replay for 2 of them, batches of 1, 2 pages, 1 waiting frame | only what the replay has lost is skipped, and said so; a terminal stops when it is through; it gets there |
| `ProbeHistory` | 2 probes, room for 1, a crash, a failure | types and capacity; saved means saved; history only advances; probes end; the newest end gets saved; stale rows get reconciled |
| `OmpProbe` | 2 candidates, 1 help text, 2 replacements, output over the limit | answers belong to the reported file; nothing is left behind but where the code gives up; tasks end |
| `DatabaseRuntime` | startup and retry, 2 edits, a passing failure, a panic | ready is final; backups are bounded; attempts end; a repair is noticed |
| `DatabaseRuntimeRace` | the same, with edits during an attempt | **violated**: a repair can be missed for good (second finding) |
| `Migrations` | 2 processes, 2 migrations, 3 files, 2 processes that end | a ready database is current; a migrated one is backed up as it was; backups are whole; a later version is untouched |
| `LaunchPlans` | 2 calls, 1 plan, 2 revisions, 1 change of a file | a plan starts one process at most, on what was shown; the leases come back |
| `SessionIndex` | 2 calls, an outer and an inner project, 2 nested roots, 2 files, 2 Profiles, 2 changes beside the calls | fresh rows are authorized and under one Profile; previews show what the index names; what is called missing was out of reach of the listing, changed or another project's at some time of the scan |
| `ProjectEditor` | 2 calls, 1 project, 2 Profiles, 2 directories, 3 executables at 1 path, 2 changes, 3 revisions | the editor starts as proved, but for two named windows; a status belongs to the grant that was checked; bindings change under the eyes of who saw them |

**Why the bounds are enough.** A handler's race needs one thread of the run and
one handler. Two messages fill
the queue and leave one in the writer's hands. A registry with room for two and
four starts has two starts waiting while the two listed runs end in either
order, and evictions of the older or, for equal times, of either. With room for
one snapshot a second probe evicts the first, whose late write then meets
everything of the second; a crash between them gives stale rows. Two snapshots with
writes in flight at the same time need room for two: of those only the theorems
speak, which hold for any capacity.
A single failure is enough to skip the write of a final status; the outcome of a
probe is a single one because no action distinguishes them. Two callers of the
database runtime are the startup task and the retry it races with; two edits are
a repair and a damage. Two launch calls are an execution and whatever disturbs
it, or two executions of the same plan; a second revision of the binding is what
a plan is out of date against, and one change of a file is
enough because every check compares with what was shown and not with another
check. For the safety properties the instances serve mostly the mutants: the
theorems below hold for every value of the constants.

Three frames with room for two in the replay lose one before it is read; batches
of one frame make the two pages of the first reading end before the replay does;
one waiting frame fills the list of those that wait. Two migrations make a
version in between, which a failed process cannot leave but another program can
put there; three files are the first, its replacement during an attempt, and one
more. Two replacements of an executable put it back. Of the three executables at
the launcher's path two speak different protocols and one is no editor. Two changes of the file
system put a directory back or replace root and file both; two nested projects
and roots are the smallest in which ownership and overlap are undecided by
equality, and one of the two session files lies too deep for a listing of the outer
root. Three revisions of a binding give a snapshot that two updates have
overtaken. Calls and Profiles are interchangeable in `SessionIndex`, `ProjectEditor`
and `Migrations`, whose runs check no liveness and use that symmetry.

**Fairness.** Only what the process schedules is fair. In `PtyRun` the threads
of a run and a handler that has begun; never the child, its descendants, the
user, the writer (whose write may block for ever) or a read error; the reader's
end is fair once no process holds the terminal's slave side, and may come before
when the processes have closed it. In
`ProbeHistory` spawned tasks, the back-off's end, the opening of the database
and the WebView's poll of the newest operation (`src/hooks/useOmpProbe.ts` polls
it until it is terminal and saved); nobody has to start a probe, and an adapter
that has been asked ends because of the supervisor's 40-second timeout. In
`OmpProbe` the task is polled and the two timers fire, one for the process and
one for its readers; nothing is assumed of processes, files and the outer
timeout. In `LaunchPlans` a call that has begun
(database tasks end, and model queries have a deadline). `PtyRegistry` states no
fairness: its mutex is a guard that every return drops. In `DatabaseRuntime` the threads, and the
user who keeps pressing retry: without the last, a repaired file is noticed at
the next start only. In `TerminalStream` the timer of a mounted terminal fires
and its reads are answered; no event has to arrive and the tab need not stay
open. A weakly fair disjunction of a single thread's steps is
enough, since a thread's next step stays enabled until it is taken.
`SessionIndex` and `ProjectEditor` state no fairness (a picker may stay open for
ever); that their calls cannot get stuck is what the deadlock check says.

Some properties say where the code gives up, and the excluded case is real:
a run whose terminal is held open by a process outside its group is never
closable; rows left unfinished by a crash stay so when the startup
reconciliation fails and neither a retry of the database's initialization nor a
probe comes (`RetryReconciles` is nobody's duty); a runner that is dropped by the
outer timeout, or whose wait for the process fails, leaves descendants in the
process's group, and a home whose mode could not be set or that could not be
removed stays (the four exceptions of `NothingLeftBehind`). The bound on backups
counts a migration that fails each time with another code than
`database_migration_failed`, such as a broken foreign key (`db/migrations.rs:196`),
among the passing failures.

**Mutants.** For every property of a passing run `PROJECT.json` names a
plausible bug (an operator beside the definition it replaces) under which TLC
finds that property violated: a condition not tested, a mutex
released early, a snapshot cloned too soon, a path read again instead of the
descriptor.

## Proofs

For every value of the constants, from the named assumptions of the modules
(limits are positive, ids are distinct from `None`, session roots of which
neither contains the other share no file):

* `PtyRunProofs`, the run: `TypeCorrect`, `FinalSealed`, `ExitDrained`, `RemovedOver`,
  `StatusFinal` and `Implementation`, the refinement of `RunLifecycle`. The
  inductive invariant adds `Protocol` to the types: no thread lives before the
  spawn, the status is final exactly from the waiter's publication on, the
  reader counts as finished exactly from its last step on, a channel the waiter
  has taken is closed, and what the waiter saw of the reader still holds. Without
  it nothing says that the reader, when it overwrites a published status with a
  failure, finds a failure there already. `EventsTell` needs more (`Emission`):
  which copies the three threads have yet to emit, and that whoever changes a
  published status finds nothing in it to contradict. `PromiseInherited` says what
  the implementation of `RunLifecycle` is good for: the promise everybody relies on
  who sees a run only through that module holds of the threads' code. The lemmas
  `Promised` and `FinalKept` about the abstract run are its steps and say nothing of
  the code by themselves.
* `PtyRuntimeProofs`, the registry: `TypeCorrect`, `RegistryBounded`, `ChildrenTracked`,
  `EventFollowsEntry`, `LivesAreLifecycles`. The strengthening says that the
  holder of the mutex has left room for one more (`Room`) and what is true at each
  stage of a start (`Stages`): that nobody can remove a run before its threads
  exist, because it is still running.
* `PtyRuntimeProofs`, the output: `StopsAtTheEnd`, `LostIsMarked`,
  `AsWrittenAlways` and `ShownRunLives`, from the inductive invariant `StreamInv`.
  What a terminal has been through and what waits in it lies within the output
  (`Near`); the news of an exit name its last frame, because an exit follows the
  reader's end (`Says`, `ExitedAtEnd`); and a batch under way begins at the latest
  right behind what was shown, or at what the replay still had (`Follows`), which
  events that arrive meanwhile only make easier. `Goes` and `Loses` say of the
  terminal's operations that they leave out nothing, or only what is lost, and keep
  a screen that shows the output as it was written (`Clean`). The replay holds the
  end of the output within both limits (`RetainedFits`). That the cut and the reach
  the module chooses exist is a choice of the least of some numbers (`Least`), for
  which the library's theorem about minimal elements serves in place of induction.
* `ProbeProofs`, the supervisor: `TypeCorrect`, `SavedTrue`, `SingleProbe`, `StaleFirst`, `OwnKept`,
  `HistoryAdvances`. The invariant relates five copies of one operation's state:
  the snapshot, the worker, the job in flight (one at most, `OneJob`), the row
  and the reconciled flag; `Copies` bounds each copy's revision by its origin's
  and makes equal revisions mean equal statuses, which is what makes a late job
  harmless. `TypeCorrect` has the capacity in it: `Registry` says that the order
  lists the operations of the map, each once, and counting the positions that stay
  (`Ranks`) gives that an eviction leaves the list of the others and makes room
  for one.
* `ProbeProofs`, the adapter: `AnswersTheirs` and `NothingLeft`, from `OmpInv`. The
  runner's position tells which process there is, of which file, and who may
  still hold its group or its output (`Running`, `Piped`); what the task has heard
  so far came from the file it has named (`Asking`). The opened descriptor is what
  ties the two: the file it names does not change with the path.
* `DatabaseRuntimeProofs`: `TypeCorrect`, `ReadyFinal`, `RevisionTells` and
  `BackupsBounded`. The attempt flag stands for at most one busy caller
  (`OneAttempt`), which will publish the next revision (`NextRevision`). The bound
  on backups is not inductive: `Spare` adds that it is off by the one backup of a
  failed migration only while that migration is on its way to be refused
  (`Refused`): its caller has yet to take the fingerprint, has taken it of these
  very files, or has published it.
* `MigrationsProofs`: `ReadyCurrent`, `NewerUntouched`, `BackupsWhole` and
  `MigratedBackedUp`. A connection stays with the file it opened, whatever takes
  the file's place at the path; from its check of the version to its commit the
  process is the only writer of that file (`Locked`), so the version it checked
  is the one it migrates; and finding the same file at the path as at the
  beginning means that it was there at the time of the backup (`Identified`,
  `BackedUp`). What a migration leaves is a prefix of the known ones, which
  `UpToIsSeq`, `Applies` and `OlderVersion` say of sequences.
* `SessionIndexProofs`: `TypeCorrect`, `FreshAuthorized`, `OneProfileShows`,
  `PreviewAuthorized` and `MissingMissed`. A Profile's guard is held by one call
  from its first step to its last (`Guarded`), so what a call has loaded of the
  mapping and the grant stays true until it returns (`Loaded`), and what it reads
  it reads below that identity (`Records`, `Shown`). None of this would survive a
  grant that another Profile's call removes or renews: `Apart`, roots of two
  Profiles do not overlap, is what keeps it away. For the last theorem `Seen`
  follows each file within the listing's reach that a scan could have seen: to be
  read, recorded, or the reason that the scan is not complete. Of files below that
  reach it says nothing, because the code calls them missing.
* `ProjectEditorProofs`: `TypeCorrect`, `EditorProved`, `StatusSeen` and
  `BindingSeen`. What a call carries from one step to the next is collected in
  `Holds`. `Carries` is what stays true whatever the files do: the status it is about
  to write was found of that grant, the binding it was shown had that revision.
  `Follows` ties the launcher to the path: as long as nothing has moved since the
  call's last look, the file it identified is still there, and the help it keeps was
  printed by that file or the path was swapped there and back meanwhile
  (`MissedKeeps` shows that other programs' moves are either counted or harmless).
  A binding's revision only grows, which is why comparing it is enough.
* `LaunchPlansProofs`: `LaunchTypes`, `LaunchStartsOnce` and
  `LaunchStartsAsShown`, from the inductive invariant `Sound` (`LaunchSound`). A
  plan starts once because the call past its consume step is alone with it and
  its id is never given again (`Once`); what the call carries is what was shown
  (`Carried`); and what it has checked stays true up to the start because nobody
  else writes the binding while it holds the scope lease, or the session's row
  while it holds the Profile's (`Guarded`). Most steps leave the first two alone
  (`Quiet`), which is shown once for all of them.

Proved and not repeated in a run: the types of `RunLifecycle`, `PtyRun`, `PtyRegistry`,
`DatabaseRuntime`, `SessionIndex`, `ProjectEditor` and `LaunchPlans`, `ExitedIsDrained`,
`RemovedIsOver`, `StatusIsFinal`, `WithinLimit`, `OneProbeRuns`,
`StaleBeforeOwn`, `OwnNotInterrupted`, `RevisionTellsNews`, `ShownAsWritten`, `Promise` and
`FinalStays`.

Every invariant and action property of the passing runs is a theorem. Only
model-checked are the liveness properties, because the prover does not handle
fairness (`CallsReturn`, `ExitIsPublished`, `ExitedBecomesClosable`,
`ForceEndsTheRun`, `CatchesUp`, `ActiveEnds`, `FinishedIsSaved`,
`StaleIsReconciled`, `TaskEnds`, `AttemptEnds`, `RepairIsNoticed`,
`LeasesComeBack`), and, because it does not know `ENABLED`, the absence of deadlock
in `SessionIndex`, `OmpProbe` and `ProjectEditor`. `ProbeHistory` writes the order
that pruning leaves (`KeptOrder`) by counting instead of with `SelectSeq`, about whose
recursive definition nothing can be proved for sequences of every length.

## Findings

1. A forced termination checks the status, releases the mutex and signals the
   group by number afterwards (`pty/runtime.rs:423`); the number may have been
   reused by then. `docs/architecture.md:498` says that only the spawned child's
   group is targeted. The status stays `running` from the moment the waiter has
   reaped the child (668), which frees its number, until it publishes (695, 700),
   up to 1.4 seconds of drains later; a termination in all that time is let
   through. In TLC's trace the number is reused before the handler even looks at the
   status. The waiter's own signals to the group (675-685) come after the reaping,
   too, as does the process runner's sweep; no document speaks of those.
2. The fingerprint of a failed migration is taken after the attempt
   (`db/runtime.rs:247`), so a repair in that window counts as the state that
   failed and retries are refused until the files change again, against
   `docs/architecture.md:524`.

Seen while modelling, and stated here without a run: nothing is lost by them that
the modelled properties protect, or no document says what should happen.

* The diagnostics of `adapters/targets/local.rs` (around 1993 and 2145) ask the
  user to add a project again so that its Git identity is refreshed;
  `persist_project` inserts with `ON CONFLICT DO NOTHING` and never does.
* `add_project` persists what it inspected before: two of them on one path, with
  a replacement in between, may leave the older grant (`PersistProject`).
* A directory that is granted, replaced and granted again looks the same to a
  check that began before: its status is of that directory, but from an earlier
  time.
* A Profile that is authorized again, from an inner root to one above it, keeps
  the rows below the inner root. The next complete scan does not visit files more
  than one directory deep (`adapters/targets/local.rs:991`, which
  `docs/architecture.md:404` describes) and calls them missing, though they are
  in place below the authorized directory.
* Cursor is spawned by path after the last look at it (`adapters/editors/mod.rs:211`,
  then 213 or 226), and its help text is read between two looks that a launcher put
  away and back passes (166). In these two windows an editor may be started with
  the protocol of another (the exceptions of `EditorIsAsProved`).
* A project added inside another one during a scan of the outer one does not get
  its sessions until the next scan.
* A terminal that is reopened on a run which failed before its reader ended may
  stop before the last output, since the replay's last number it compares with is
  not the last one (`StopsWithAll` speaks of exited runs).
* A poll's answer may announce a gap whose frames have arrived as events
  meanwhile.

## Not modelled, and the plan

`PROJECT.json` lists every component. Left out for good: the wording,
normalization and layout of what is shown, the JSONL decoding, the lists of
environment names, the Windows and macOS variants of the process runner and of
the editor's help process, external terminals and dialogs, the credential
store (fixed answers), the PTY spike (superseded by the runtime) and the
extension (a separate program). `resolve_binding_for_path` changes no state and
has no caller but its tests.

Next, in this order:

1. Proofs: what the modules owe each other, step by step: an opener of
   `Migrations` as an attempt of `DatabaseRuntime`, the leases of `LaunchPlans` as
   the guards of `ProjectEditor` and `SessionIndex`.
2. `RunList`: the WebView's run list against the registry, with listings, events
   and answers out of order.
3. `ActiveBranch`: the parser's tree walk against a reference definition.
4. Single instance: the preflight mutex and the bounded wait for the receiver.
