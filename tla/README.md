# A formal model of hpg

hpg runs Lua configuration scripts against a machine: a script declares *tasks*
with dependencies, and hpg plans and runs the requested ones, on the local
machine (`hpg local`), or on another one over ssh (`hpg ssh`, which starts
`hpg server` there, syncs the project's files to it and watches the run). This
directory holds TLA+ models of the parts where order, failure and concurrency
decide the outcome, TLC runs that check them on small instances, and TLAPS proofs
about them for every instance. Source paths below are
relative to the repository.

## 1. Inventory

| component | code | state | operations | what must be right |
|---|---|---|---|---|
| Definition phase | `src/task/{mod,registry,vars}.rs` | task registry (ids, graph, names), Lua globals, Lua's named registry ("tasks", "targets", defaults of variables) | `task()`, `target()`, `vars.x = ...`, the end of `eval()` | the graph is acyclic, a name means one task, bodies survive |
| Task planner | `src/task/graph.rs` and petgraph's `DfsPostOrder` | the graph, the walk's stack and visit maps, the list being deduplicated | `execution_for_tasks` | dependencies first, complete, minimal, no duplicates, earlier targets first |
| Task execution | `src/task/mod.rs` 330-446 | `task_results`, the loop's position, the events sent | resolve names, show the plan, run a body, skip, fail | the `unwrap` is safe, skips travel exactly downstream, verdict and report agree |
| Event tracker | `src/tracker/mod.rs`, `src/main.rs` | channel, pump thread, installed sink, client's stream | the methods of `EventSource`, `to_remote`, `to_local`, `SinkHandle::finish` | events in order, none lost, none behind Finish, the process ends |
| Remote session | `src/remote/{ssh,server,comms,messages,client}.rs`, `src/hash.rs` | two state machines, a stream each way, read buffers, the remote files and their temporaries | sync (list, status, patches, close), exec, timeouts, the patching of a file | no run on a half-synced tree, no file lost, no patch lost, the session ends |
| Frame codec | `src/remote/codec.rs` | read buffer | encode, decode | frames survive any cut |
| Progress display | `src/tracker/local.rs` | bars, current task, draw target | one method per event | no event meets a finished bar |
| Variables and inventory | `src/task/vars.rs`, `src/main.rs`, `src/remote/{ssh,config}.rs` | maps of values from each source | parse, merge, read | precedence of the sources |
| Process streaming | `src/actions/{util,process}.rs` | two pipes, the child, the select loop | spawn, read a line, end of a stream, wait | no stream starves the other, output is captured, the status is judged, the wait ends |
| Packages | `src/modules/pkg.rs`, `src/modules/packaging/` | `_updated`, the package database | install, remove, ensure, update, status | answers of queries are true, a call that returns has done its work, `ensure` can be repeated |
| Installer, archives | `src/modules/{installer,archive,net}.rs` | the archive, the target directory, its hash file | `install`, `is_installed` | an interrupted install is repeated, what is installed is whole |
| Files | `src/modules/file.rs`, `src/actions/file.rs` | file contents | `append`, `append_template`, `copy`, `template`, `touch`; thin wrappers over system calls | a marked section is replaced and found again, the rest is kept |
| Services | `src/modules/services/` | the connection to the bus, systemd's jobs and their signals | start, stop, reload, restart and their `must_` forms, enable, disable, mask, unmask, `daemon_reload` | a method answers for its own job, and returns |
| Users, groups, machine | `src/{actions,modules}/access.rs`, `src/modules/machine.rs` | none | single commands | - |

How they interact: the definition phase hands the graph, the names and the
default targets to execution, which asks the planner for an order and reports
to the tracker through a global `EventSource`. The tracker's pump hands the
events to the display or, in a server, writes them on the stream that the
remote session's client reads; the client hands them to its own tracker. `vars`
crosses from the client to the server in the Exec message. The modules offered
to Lua (packages, files, ...) are called from task bodies only.

What is hard here:

- *ordering*: the plan is a concatenation of depth-first walks with duplicates
  removed, and a panic in the run is avoided by that order alone;
- *concurrency*: main and pump threads share a channel and a sink that is
  swapped at runtime; client and server talk over a stream that two different
  readers of the client take apart; tokio writes files behind the program's back;
- *failure*: bodies that fail, cancel or raise; timeouts at each wait of the
  protocol; a client that goes away, a server that is killed between the steps of
  the replacement of a file, a full disk;
- *other programs*: a child that blocks on a full pipe, closes a stream early, or
  leaves a descendant behind; package databases that failed calls leave in
  between; systemd, which works on jobs of other clients too;
- *repetition*: a script is run again on what its earlier runs, failed, killed or
  edited since, have left: package databases, half extracted archives, files that
  their user edits as well;
- *shared names*: one registry table for bodies, targets and defaults.

`PROJECT.json` lists each of these as a hazard at its line, with the properties
that watch it, or why there is none yet.

## 2. Modules

| module | models | composed of |
|---|---|---|
| `DependencyOrder` | abstract: what a plan is | - |
| `TaskPlan` | the planner, one push or pop of the walk to a step, and its refinement of `DependencyOrder` | `DependencyOrder` |
| `DependencyRun` | abstract: what a run is | - |
| `TaskRun` | `execute()`, with the planner inside, and its refinement of `DependencyRun` | extends `TaskPlan`; `DependencyRun` |
| `TaskPlanMC`, `TaskRunMC` | their instances | `TaskPlan`; `TaskRun` |
| `TaskRun_proofs` | theorems about the planner and the run, both refinements among them | `TaskRun` |
| `Definition`, `DefinitionMC` | the script up to the end of `eval()` | - |
| `Definition_proofs` | theorems about the definition phase | `Definition` |
| `TrackerSink` | main thread, pump thread, channel and sink | - |
| `TrackerSink_proofs` | theorems about the tracker | `TrackerSink` |
| `RemoteSession`, `RemoteSessionMC` | client, server, stream and disk | - |
| `RemoteSession_proofs` | theorems about a session and those after it | `RemoteSession` |
| `ProcessStream` | hpg, a child and its descendant, two pipes | - |
| `Packages`, `PackagesMC` | `pkg.apt` and `pkg.arch` against a package database | - |
| `Commands_proofs` | theorems about processes and about the package functions | `ProcessStream`, `Packages` |
| `SystemdUnit` | the methods of a unit against systemd's jobs and signals | - |
| `SystemdUnit_proofs` | theorems about the methods | `SystemdUnit` |
| `Installer` | `install()` over several runs of a script | - |
| `Installer_proofs` | theorems about the installer | `Installer` |
| `ManagedFile`, `ManagedFileMC` | a file kept by scripts and by its user | - |
| `ManagedFile_proofs` | theorems about what calls leave in the file | `ManagedFile` |

### TaskPlan
A task is its `TaskHandle`, a positive number. `deps` is the graph as
`from_registry` builds it, `stack`, `discovered` and `finished` are the fields of
petgraph's `DfsPostOrder` (external to `src/`: modelled from version 0.8's
documented algorithm as `dfs_post` uses it, neighbours in reverse order of
insertion). `StartWalk` ... `EndWalk` are `execution_for_task` for one target after
the other, `Retain` is one element of the `retain` in `execution_for_tasks`.

The mapping to `DependencyOrder` is at the end of the module: what is listed is what
`retain` has kept so far.

`DepGraphs` is any set of graphs in which a dependency has a smaller id than its
dependent. The code establishes this in the definition phase: ids are drawn
from a counter, and a dependency is a value that an earlier `task()` returned. It
is `GraphWellFounded` in `Definition`.

### TaskRun
`Resolve`/`UnknownTarget` are `get_targets` with the default targets, `ShowPlan` the
early return, `StartTask` the head of the loop. `DefaultsUnreadable`, `BodiesUnreadable` and
`BodyUnreadable` are the errors of reading Lua's registry, where a script may have put
something else under the names (`task/mod.rs` 338, 377, 404). Then one action per outcome: a
skip because of a parent, no body, a body that returns nothing, userdata or
`cancel()`, one that fails, and one that raises a Lua error. What a body does to
the machine is left out; which outcome it has is chosen when it is called. The
`events` are the `TrackerEvent`s in the order they are sent; `finish_fail` sends
`TaskFail`, as the code does. A parent without a result would be a panic: the
model then has no step, and `UnwrapSafe` says there is no such state. Against
`DependencyRun` each task of a run is pending, succeeded, skipped or failed, and a
failure ends the run: nothing is called or recorded after it. `CallsAssumption` ties the
command lines and the default targets to the requests the planner may be given.

### Definition
One action per call that the script can make. `Target` includes the collection of
names (`find_tasks` and `register_name`) that each call makes. `AssignVarTasks` and
`AssignVarTargets` are `vars.tasks = x` and `vars.targets = x`: `set_default` writes
Lua's named registry under the bare name, and `x` is anything: no table, functions for any ids, a list with
a task twice. `rewritten` is history: the slots a script has put something in. `NewTargets` is the loop of `target()` over its
arguments: the ids that the default targets do not have yet, in the order of their first
occurrence. `TargetFails` is a call whose error the script catches with `pcall`: the list stays,
but names have been collected. What the script does not catch is the single `ScriptError`. The value of a
variable is not modelled here.

### TrackerSink
`main` and `pump` are two program counters. `PumpReceive` (the `recv` with its return
on Exit) and `PumpDeliver` (the read lock, held during the write) are two
steps, because `wait_for_drain` and the write lock of `to_local` can come between.
`command` tells the three subcommands apart. `ClientLeaves` closes the server's
standard output; `PumpPanics` is the `println!` in `RemoteWriter::event` after that.

### RemoteSession
The stream is a FIFO each way. `buffered` counts the half frames the client's
`FramedRead` has taken from the stream, so that a frame may be cut when
`sync_files` drops its reader and `exec_hpg` makes a new one (`CloseSync`).
The server's replacement of a file takes the steps of the code: the temporary,
`RemoveOriginal`, `RenameTemp`; a full write is `pending` until tokio has done it.
`ServerFails` are the errors of host and stream that end the server, one action per place: a
message that cannot be decoded, a directory that cannot be listed, a patch that cannot be written,
applied or put in place. None of them is answered: the client sees the end of the stream. A server
whose client leaves during the run may be `hung` in `to_local`'s busy wait for ever (`Spins`).
`Kill` ends the server anywhere; `NextSession` starts another session on the
files that are left. The run itself is a number of events and a Finish. File
contents are reduced to how they compare to the client's copy.

### ProcessStream
`Spawn`, `ReadLine`, `ReadEnd` and `Join` are `exec_streaming_process`: the spawn, one round
of the select loop with a line or with the end of a stream, and the end of the
wait, with `Judge` as `exec` and `shell` go on with the status. `select!` takes any of the
streams that are ready, so that the choice is the model's. The child is external and
may be any program: it prints lines to either stream, valid UTF-8 or not, blocks
while a pipe is full, closes a stream, forks a descendant that inherits both, and
exits with a code or by a signal. A stream ends when its pipe is empty and nobody
has it open for writing. A line is what fits a pipe: `Capacity` counts lines in the
kernel's pipe and in the `BufReader` together.

### Packages
`pc` follows a call through `package_status`, `call_install` and the second
`package_status`; `op` is the function of the `pkg` table. `args` is the list it was given, and
`wanted` the positions of it that `install_packages` or `remove_packages` works on: all of them, or
for `ensure` those that were missing. The differences of the two managers
are in the states a package can be in (`States`), in what a query prints (`Stdout`, `Stderr`: pacman's
answers go through a set, and dpkg-query has a line for each architecture a name is on record for,
with `foreign` the names that have a second one), and in what
an install does to packages it was not given. `Ask` is a query with its count of answers; since
a query is a process read by `exec_streaming_process`, it may miss lines
of one of its two streams, which is `OneStreamComplete` of `ProcessStream`; `Readings` are the
sets of lines that may be read. A package that is installed with another selection than
"install" is `held`, and `Status` answers that it is not installed, as `parse_apt_info` does. What
`apt-get`, `dpkg` and `pacman` do is external: success puts a requested version in
place, except for a virtual package, and may remove (apt) or upgrade (pacman `-Syu`) others; a
failure may leave a package installed or half installed. `index` tells fetched
repositories from those of before the run.

### SystemdUnit
`CallControl` is the entry of `start`, `stop` and the others, `must_` or not; then come
`RequestJob` (the manager's answer names a job) or `RequestRefused`, `Listen` (the stream
of `JobRemoved` signals is made), and `Signal` or `StreamEnds` for each turn of the loop in
`wait_for_job`. `CallFile` is a method that needs no job, `Open` the constructor with its
`Subscribe`. systemd is external, and known by its documented rules: a job
asked for in mode "replace" is merged with a queued one of its kind or cancels one of another
kind, `Finish` ends any queued job with any result, and a signal reaches
only the streams that are there at that moment. `OtherClient` asks for jobs on the same
unit and on another one. A result that `JobResult::from_str` does not know is
"unsupported" in the run.

### Installer
An archive is a sequence of versions, one to a part: the same parts serve as
the chunks of the download and as the files that are extracted, so that an
archive cut off and a directory extracted halfway are the same kind of object, and a
mixture of two versions is visible in both. `Skip` is the early return by hash, with
`HashMatches` for the two places the hash is looked for; `InstallUrl` to `WriteHash` are the
steps behind it, each with its failure, and `Kill` ends a call at any of them. `ExtractPanics` is the
`unimplemented!()` for .tar.bz2, and `NoArchiveDir` the failure to make the archive's directory, before
the hash is looked at. (An `archive_path` inside of the directory to extract to, which that
would create, is not modelled.) `Edit` changes the
script's hash and what the url or the script's directory holds, between calls only. The
variables `recorded` and `touched` are history: they read nothing into the program.

### ManagedFile
A line is a bound (marker and hash of a content), or a text, which may mention a marker, in a
content as in what the user writes. `Taken` is how `append` reads the file: through
`from_utf8_lossy`, which replaces what is not UTF-8 (`Decoded`), and where there is a section
through `lines()`, which drops the carriage return of a line end (`Split`), as it does in the
content. A line mentions one marker, and those that it contains. `Hits` is
`line.contains(marker)`, with `Extensions` for the markers that contain another one.
`Rewrite` and `Add` are the two branches of `append_to_existing`: the section goes from the
first line with the marker to `SectionEnd`, and `Behind` is what the loop keeps after it, every
line without the marker. `eol` is whether the
file ends in a newline, which decides the empty line that `Add` leaves. `Holds` is the
comparison of hashes before `copy` and `template` write: of the whole text, in which a
last line that is empty and not ended cannot be told from the end of the line before it.
Each call that writes has two steps, `Truncate` and `WriteAll`, and `Interrupted` in between.
`Delete` and `Insert` are the user's. `applied` is history: the content last appended
under a marker, as long as nobody has touched its bounds. It is also given up when a content mentions
the marker (`Silent`), and when a call rewrites a section that lies around the first bound or is not
between two bounds (`Apart`), as that call drops more than the old text of its own.

## 3. Runs

All runs are exhaustive. `CHECK_DEADLOCK FALSE` everywhere: each of these
programs ends, and that they end *well* is a liveness property where it matters.

| run | bounds | what it shows |
|---|---|---|
| `plan` | 4 tasks, up to 2 dependencies each (repeated ones too), up to 2 requested tasks | the plan is ordered, complete, minimal and prefers earlier targets; the planner implements `DependencyOrder` and ends |
| `task_run` | the same graphs, a command line of at most one name, one default target, every outcome of every body | the run's safety properties, and that `execute()` implements `DependencyRun` and ends |
| `definition` | 2 tasks with up to 2 dependencies, 2 globals, 3 calls of `target` with 2 arguments that may fail, any value in `vars.tasks` and any list of 2 in `vars.targets` | names, targets and graph agree over every script of these calls |
| `tracker` | 6 events, all three subcommands | order, completeness and the end of the process |
| `session` | 2 files, 2 events, 2 sessions | the session's safety over kills, timeouts, errors of the host and a full disk, and its end |
| `process` | pipes of 2 lines, 3 lines to a stream | the loop reads one stream to its end, neither stream starves the other, the status is judged |
| `packages` | 2 packages, 2 versions, up to 2 requests to a call, 2 calls, 1 name of a second architecture in 2 states | answers, effects and repetition of the calls of both managers |
| `services` | 3 jobs, 2 calls, 3 kinds of jobs, a result that hpg does not know | a method returns the result of its own job, and returns unless it missed the signal |
| `installer` | 2 versions, 3 parts, 4 calls | when `install()` is passed over, and what is in place when it is not |
| `files` | 3 markers, one of them part of another, 2 contents, one with a carriage return and a newline at the end, one that mentions a marker, 3 calls, 1 edit | calls leave, report and find again what they should |
| `session_debug`, `services_must_stop` | as above; 2 jobs, 1 call | one disagreement each, section 5 |

Why the bounds are enough: four tasks are the smallest graph with a diamond and a
task outside of it, or two diamonds' worth of shared dependencies; two
dependencies and two requests give every overlap of two walks. The
run needs only one requested task, since a default target adds the second. The
tracker's interesting cases need three events (one held, one queued, one
delivered). The session needs two files to have a patch acknowledged while the
other is under way, and two sessions to meet the temporary or the missing file a
kill has left. A child needs more lines than a pipe takes to block on one stream
while the other one is read: three against two. Two requests to a call are
enough for a repeated name, for two versions of one package and for a package
that is there next to one that is not; the first of two calls leaves the second every state
that a failed, partial or successful call can leave. Empty lists are left out: the
queries then list the whole system, and the count rejects them. A method's wait is disturbed by a
job before its own, which it replaces, and one on another unit: three jobs;
the second call shows whether the first leaves anything behind. For the installer
three parts tell an archive cut at either end from one cut in the middle, and four calls are
an install, one that is interrupted, a return to the old hash and what it decides. A file
needs one call to make a section, one to rewrite it next to a section of another
marker, and a third to find it again, with one edit at any of these points. In a script two tasks make a dependency, a
default target, and a global that is bound anew; three calls of `target` put a binding before, between and
after them. One name of a second architecture is enough to hide a lost line.

Each property has a mutant, a change of one definition that a plausible bug
would make, and TLC finds the property violated with it. The mutants stand in
front of the definition they change.

### Fairness
- `TaskPlan`, `TaskRun`: weak fairness of the next step. The code is sequential.
  For the run this also assumes that a body that is called returns, which is up to
  the script.
- `TrackerSink`: weak fairness of each thread; both are plain OS threads and never
  give up a lock for ever. Nothing is assumed of the client. `ProcessEnds`
  requires that the client stays; section 5 says what happens otherwise.
- `RemoteSession`: weak fairness of the client, of the server and of tokio's
  writes. Timeouts are steps of the waiting side, so they need no clock. Nothing is
  assumed of kills, of the disk, of errors (`ServerFails`) or of the next session. `SessionEnds` is
  stated for sessions without a kill: a server killed by a signal leaves no exit
  status, and the client's loop in `start_remote` waits on. It names a second exception: a
  server that `Spins` because its client left during the run.

- `ProcessStream`: weak fairness of hpg and of the child's own steps. That the child
  prints a bounded number of lines and comes to its exit is an assumption about
  the command. Nothing is assumed of the descendant; `ExecReturns` asks of it only that it lets go of
  one stream after the child's exit, and of the child that it keeps both streams open:
  a child that closes one early is waited for while nobody reads the other.
- `SystemdUnit`: weak fairness of the method that is under way, and of `Finish`: systemd
  ends every job, since each has a time limit, and the jobs of a behaviour are finitely many.
  `WaitEnds` is stated for behaviours in which the job is still queued when the stream is
  made; the code has no timeout for the other ones. Nothing is assumed of the bus:
  when it closes, the loop's next call of it raises.
- `Definition`, `Packages`, `Installer`, `ManagedFile`: safety only, no fairness.

## 4. Proofs

TLAPS checks the following for every value of the constants that satisfies the
assumptions named in the modules. Each theorem follows from an inductive invariant, of
which `PlanInv`, `RunInv` and so on are the names: the initial states satisfy it, one lemma per action
keeps it, and the last steps are temporal. All safety properties of the runs are proved.

Liveness is out of the prover's reach, but its two halves are not. For the planner, the run, the
tracker, processes and sessions there are
theorems that say, first, that nobody is ever stuck: until its end (or an exception that is named) a process
satisfies the disjunction of the guards of its steps, which
is what ENABLED of them comes to on small instances in TLC; and second, that
nothing goes on for ever: every step makes a rank smaller, whose order has no infinite descent. What is left to
fairness is that a process with a step to do is scheduled.

- `TaskRun_proofs`, the planner. *TypeCorrect*; *PlanInvariant*: `Spec => []PlanInv`;
  *PlanParentsFirst* and *PlanNoDuplicates*.
  `ParentsFirst` is not inductive: it says nothing of the stack. `PlanInv` adds
  what holds of the walk. `StackInv`: a node that is discovered and not finished is
  on the stack, everything above its last occurrence has a smaller id, and each
  of its dependencies is finished or lies above it. `ExpandInv` says the same of the node
  whose neighbours are being pushed, for those pushed so far. `ExecutionInv`: in
  the concatenated walks a task comes after its dependencies, and the finished nodes
  are in them. `RetainInv`: what `retain` has kept are the elements it has seen.
  Acyclicity (`DepGraphsAssumption`) is what makes the ids above a node smaller:
  a dependency that is discovered and not finished would lie below its dependent
  and have the larger id.
  *PlanEarlierTargetsFirst*, from *OrderInvariant*: `OrderInv` adds to this how the walks of the
  targets follow each other. Nothing is on the stack but what the targets so far need (`WalkInv`), so that
  nothing else is listed, and a target that was walked is listed (`TargetInv`), with all it needs by
  `PlanInv`. What a later walk adds comes behind that, and `retain` keeps first occurrences
  (`EarlierInv`).
  *PlanImplementsOrder* is the refinement `Spec => Order!Spec`: `Retain` lists one task or none, which
  is a step of `DependencyOrder` by `OrderInv`; the other steps change nothing that it sees.
- `TaskRun_proofs`, the run. *RunPlans*: `RunSpec => Spec`, so that all of the above holds of the
  plan of a run. *RunInvariant*: `RunSpec => []RunInv`; *RunUnwrapSafe* and
  *RunBodiesAfterUpstream*. `RunInv` ties `task_results` to the position in the plan
  (`ResultsInv`: exactly the tasks before `next` have one) and says that a task that
  succeeded has only parents that did (`SuccessInv`); with `PlanInv` this
  gives a result to every parent the loop looks at. For
  `BodiesRunAfterUpstream` the set of tasks that succeeded is closed under
  dependencies, so that it contains everything `Needed` by the parents of a
  called task.
  *RunTypeCorrect*, *RunCancelSkips* and *RunVerdictReported* come from a second invariant,
  `ReportInv`: what has been sent says what has been recorded (`EventsInv`), a task is skipped only
  because it was cancelled or is downstream of one that was (`SkippedInv`), and what the loop has been
  through has a result also when a failure has ended it (`PositionInv`).
  *RunImplementsRun* is the refinement `RunSpec => Run!Spec`: each outcome of a body is the
  attempt or the skip of one pending task, whose dependencies have succeeded by
  `RunInv`.
  *PlanDescends*: the planner has a step until the plan is ready, and `PlanRank`, seven numbers ordered
  lexicographically, descends with each. A walk pushes a neighbour as often as it is met, so that the
  stack alone does not shrink; but a node is discovered once (`Unseen`, which is finite because a walk
  stays below the id it started from, `BelowTarget`), and it is expanded once. *RunDescends* adds the stages of `execute()` and the
  rest of the plan to this; whatever the parents' results, a task is skipped or called.

- `TrackerSink_proofs`. *SinkInvariant*: `SinkSpec => []SinkInv`; *SinkEventsInOrder*,
  *SinkOnlyLastMisrouted*, *SinkFlushedOnFinish*, *SinkNothingAfterFinish* and *SinkTypeCorrect*. None of
  the first four is inductive. `FlowInv` accounts for every event: as long as the pump lives, what was
  emitted has been delivered, is held, or waits in the channel, in this order, with
  Exit behind the events once `finish()` joins. `DeliveredInv` numbers what both
  sinks have been given. `SwapInv` says which sink is installed at which step of each
  subcommand, and that nothing is emitted or waits around a swap, which leaves only
  the held event to go astray.
  *SinkNeverStuck*: while the client stays, one of the two threads has a step, since a drain or a join
  waits only for what the pump still holds or the channel still has (`FlowInv`). *SinkDescends*: each step
  makes `Work` smaller, a number of at most `3 * MaxEvents + 25`.
- `Definition_proofs`. *DefinitionInvariant*: `DefSpec => []DefInv`;
  *DefGraphWellFounded*, which justifies the assumption about `DepGraphs` that the planner's theorems
  start from; *DefNamesKeepMeaning* and *DefBindingsHaveNames*. `ResolvedInv` says that a
  resolved name has an entry, which `FindTasks` never replaces, and `NamesInv` that there is no
  entry before the first call of `target()`.
  *DefTypeCorrect*, which says nothing of distinct targets, as `vars.targets = {a, a}` is a script; *DefSlotsKept*:
  of the scripts that leave `vars.tasks` and `vars.targets` alone, exactly the tasks given a body have one
  and no default target is there twice. *DefHandsOver*: what the script leaves behind meets the assumptions about tasks,
  graphs and requests that the theorems on planner and run start from. `target()` adds the ids that the
  list of default targets does not have yet, which `NewTargets` says without a recursion, so that the proof
  needs no induction; `DefinitionMC` has TLC evaluate that it is what the code's loop comes to.

- `Commands_proofs`, processes. *ProcessInvariant*: `ProcessSpec => []ProcessInv`;
  *ProcessResultTrue*. `FlowInv` counts: until an error, the lines of a captured stream are in
  the result or in its pipe. `EndInv` keeps what `ReadEnd` saw: a stream that is
  closed by everybody and empty. `ChildInv` is what makes this stable: whoever is about to
  write has the stream open, so that nothing comes after the end.
  *ProcessTypeCorrect* needs `CountInv`: what is captured and what is in the pipe are together no
  more than was written, and a child that is about to print has a line left to print.
  *ProcessOnlyHangs*: if neither hpg nor the child has a step before the end, then hpg waits for a child that
  closed one stream and has filled the other (`ChildWaitsForHpg`), or for the end of a stream that a silent
  descendant keeps open; a child that keeps its streams is never waited for in vain. *ProcessDescends*: with
  every step of hpg or the child, and every line of a descendant, there is less left to write and to read.
- `Commands_proofs`, packages. *PkgInvariant*: `PkgSpec => []PkgInv`; *PkgStatusAccurate*,
  *PkgCallsEffective*, *PkgEnsureIdempotent* and *PkgTypeCorrect*. The core is the lemma `FullAnswer`: the
  positions asked about map onto all that a query prints, so that it prints no more lines than it was asked
  about, and an answer with as many lines is all of it, also for repeated names and with
  pacman's set, as long as no name has lines for two architectures (`OneLineEach`). `AnswerInv` is what follows: an accepted answer is the truth. `BeforeInv`: until the
  package manager is called the database is as it was; `WantedInv`: what is worked on is
  all of the arguments or, for `ensure`, what was missing; `InstalledInv`: after `call_install` what
  was there is still there and in the version asked for first, unless the package manager
  has touched packages it was not given.
- `Installer_proofs`. *InstallerInvariant*: `InstallSpec => []InstallerInv`;
  *InstallerTypeCorrect*, *InstallerSkipJustified* and *InstallerInstalledIsWhole*. `CallInv` says
  that what a call has downloaded and extracted so far is of one version, the one the source had
  when the call began, and `RecordedInv` that a part which was not
  written since the hash file was is of the version recorded with it. The first gives the second
  at `WriteHash`, where every part has just been written.
- `SystemdUnit_proofs`. *ServiceInvariant*: `SystemdSpec => []ServiceInv`;
  *ServiceTypeCorrect* and *ServiceResultOfOwnJob*. `JobsInv` says that a signal in the stream names a
  job that is over, `MethodInv` that from the manager's answer on `job` is a job of the
  kind and unit asked for, and that a returned result is that job's. The lemma about `Ask`
  shows that no later job takes this away: jobs keep their unit and kind, and those
  that are over keep their result.
  *ServiceWaitsForItsJob* has an assumption, `[](~ Missed)`, which is that of `WaitEnds`: no job ends
  between the manager's answer and the subscription (section 5 says what happens otherwise). Then a method that
  waits has a signal to read, its connection closed, or its job queued: `Heard` says that the end of its job is
  in the stream, and `OneQueued`, that a unit has one queued job at most, that the signal which follows a
  replacement is the replaced job's. *ServiceComesToItsSignal*: that signal is reached in as
  many turns of the loop as its place in the stream says, however many others arrive.

- `RemoteSession_proofs`. *SessionInvariant*: `SessionSpec => []SessionInv`; *SessionTypeCorrect*,
  *SessionExecOnSyncedTree*, *SessionPatchInOnePlace* and *SessionContentSurvives*, which is an action property.
  `PatchInv` counts the places of a patch (`Places`: on its way, in hand, acknowledged) from the
  start of a session on; lemmas about `Count` say what sending and receiving do to the two queues.
  `KnownInv` says that what the client knows of the server's tree is true: a status "Same" that is
  still on its way, an acknowledgement, and a file it has not to patch any more. `TempInv`: the
  contents are complete in the temporary before the original goes. `SyncedInv` carries this over Close to the run:
  with every file good no patch is left anywhere. `ServerInv` and `EventInv` say which side may be
  where, and that nothing is sent of a run before Exec.
  *SessionNeverStuck*: until they are gone, the client has something to read, to send or to give up on, and
  the server a message it knows what to do with; excepted are the client of a killed server and the server
  that `Spins`. Four
  facts carry it: the answer to FileList comes first (`StatusFirst`), so that the first loop never sees a
  Debug; a server that still patches meets Close before Exec (`CloseBeforeExec`); Finish and the end of
  the stream are seen only of a server that is gone, and no frame is cut before Exec (`EndInv`).
  *SessionDescends*: every step of anybody makes `SessionRank` smaller: sessions left, how far both sides
  are, what is to be pushed, applied and sent, what is to be read and written.
- `ManagedFile_proofs`. *FileInvariant*: `FileSpec => []FileInv`; *FileTypeCorrect*, *FileCallsExact* and
  *FileBoundsKept*. Most of it are lemmas about files: where the hits of a marker are after
  `Rewrite`, `Add`, `Delete` and `Insert` as functions of where they were. `Subsequence` keeps order and
  content, so that the lines behind a section keep theirs (`RewriteMoves`); a content adds hits of the
  markers only that it mentions (`Quiet`). Reading the file as text moves no line and changes none with
  a marker (`TakenFacts`), so that all of this holds of what `append` reads. `BoundInv` is `BoundsKept` of the file as it is going to be while it is
  written, and `CallInv` what the call has promised by then.

What stays with TLC: every liveness property as such (that planner and run end, which is what
`ImplementsDependencyOrder` and `ImplementsDependencyRun` say beyond the two theorems about
refinement; `ProcessEnds`, `SessionEnds`, `ExecReturns`, `WaitEnds`), since ENABLED and fairness are out of
the prover's reach; and what a recursion over data computes, which would be an induction.
For that reason `TaskPlan` takes the set of what is needed as a closed set rather than as
an iteration, `Definition` adds to the default targets by what is new rather than with a fold, and
`ManagedFile` and `Packages` filter by positions and not with `SelectSeq`.

## 5. Disagreements between code and documentation

Two have a run:

- `session_debug`: with no file to patch, `sync_files` returns before it has read
  "sent file status"; when that message arrives later, `exec_hpg` calls it
  out-of-order and the session fails (`src/remote/ssh.rs:307`).
- `services_must_stop`: `must_stop` calls `unit.start()`
  (`src/modules/services/mod.rs:53`), while `src/hpgdefs.lua:577` says "Stop the unit, or fail
  execution." The unit runs, and the method returns.

The others are visible in the models, where a property excepts them:

- `vars.tasks = {}` in a script empties the table of task bodies, since `set_default`
  (`src/task/vars.rs:79`) writes Lua's named registry under the bare name of the
  variable, and `vars.tasks = {f}` gives the first task a body it never had; `vars.targets` does the same to
  the default targets, which may then have a task twice. `src/hpgdefs.lua:45` calls such
  values "defaults" of variables. (`SlotsKept` excepts scripts that do this.)
- When the client has gone, `println!` panics the pump, the channel is never empty
  again, and `wait_for_drain` (`src/tracker/mod.rs:231`) spins for ever. (`ProcessEnds` requires
  that the client stays, and `SessionEnds` names the server that `Spins`.)
- `wait_for_drain` does not see the event the pump holds, so that the last event of a server's
  run may be shown on the server's own terminal, and Finish is sent without it:
  `OnlyLastMisrouted` says that it is never more than the last one.
- `SyncServerMessage::Error` is never sent: a server that ends in an error, such as the timeout of
  `wait_for_exec_msg` (`src/remote/server.rs:207`), looks like a finished run to the client.
- The select loop of `exec_streaming_process` breaks at the end of either stream
  (`src/actions/util.rs:236`, `:248`); lines the other one still holds are in no result,
  although `src/hpgdefs.lua:350` documents the fields as the output of the process.
- `ensure` counts an installed package in another version than the requested one as present
  (`src/modules/packaging/mod.rs:117`), while `src/hpgdefs.lua:294` says that `updated` is
  false "if all packages were at requested versions". (`EnsureIdempotent` leaves such packages out.)
- A package that is installed but on hold, or selected to be deinstalled, is reported as not
  installed (`src/modules/packaging/apt.rs:89`): `ensure` asks apt for it again, and its second query finds
  it missing if it is still on hold; that of `remove` would not notice one that is still there.
- `dpkg-query` has a line for each architecture of a name. The lines are counted
  (`src/modules/packaging/apt.rs:113`) and not matched with the names, so that the second line of one
  package may stand in for a lost one of another (`OneLineEach` in the properties of `Packages`).
- `wait_for_job` subscribes to the signals after the job was queued. A job that is removed
  before is never reported, and the loop, which by its comment keeps looping "until we
  receive some sort of notification" (`src/modules/services/systemd.rs:187`), waits for ever.
- `install()` with an `install_dir` that does not exist compares the hash of the archive it
  finds at `archive_path` (`src/modules/installer.rs:106`): an archive that was fetched but never
  extracted counts as installed. The hash of what was downloaded is never compared with the
  script's: `.hpg-hash` gets the script's in any case.
- `.hpg-hash` stays while a later archive is extracted over an old one. If that is
  interrupted and the script goes back to the old hash, the mixed directory is passed over
  (`touched` in `SkipJustified`).
- `append` looks for its marker anywhere in a line (`src/modules/file.rs:504`), so that a
  marker which is part of another one rewrites the wrong section (`Extensions` in `applied`), and so does
  one that a content mentions: after `append(A, x)`, `append(B, z)`, `append(A, "see B")` with the
  marker of B in the content, the next `append(B, z)` takes that line for its own bound, writes
  its section into that of A, and drops the second bound of A. The doc comment says "Append to
  an existing file, without overwriting unrelated sections" and "Will not update the file if the region is
  unchanged" (`src/hpgdefs.lua:139`); both hold only of sections whose markers nothing else mentions (`Silent`
  in `applied`). A content that mentions its own marker leaves a third hit, from which on the old
  text stays at the next change.
- If a user moves the first bound of one section into another section, the next `append` to the
  outer one drops that bound with the old text, and leaves the other one behind
  (`src/modules/file.rs:518`), so that the same holds of sections beside each other only (`Apart` in `applied`).
- `append` rewrites lines that it has not been asked to touch: bytes that are not UTF-8 become U+FFFD
  (`src/modules/file.rs:490`), and when a section is replaced every CRLF becomes LF and the newline at
  the end of the file goes (`src/modules/file.rs:503`, `:531`). `CallsExact` compares with the file as
  it was read (`Taken`).

## 6. Not modelled

- The ssh transport: its buffers are unbounded in `RemoteSession`, and it neither loses nor
  reorders; it is a TCP connection. Two servers at a time on one directory.
- The contents of synced files and the delta algorithm, hashes (a hash stands for what it is
  the hash of), Lua itself, the wording of everything printed, command line parsing.
- In `src/modules/file.rs` and `src/actions/file.rs`: links, directories, owners and modes, which are
  single system calls and a recursion over them; `archive()` and `url()` on their own, which
  are single calls of libraries; `src/{actions,modules}/access.rs` and `src/modules/machine.rs`, single commands
  and reads of the system without a state of their own.
- In `ManagedFile`: an empty content, lines that mention two unrelated markers, bounds whose line ends
  the user changes, and a carriage return at the very end of a file, which is taken for part of a line end.
- What other programs do (packages, systemd, a child) is an assumption, stated in
  the sections on the modules.
- `RemoteTracker` (`src/tracker/remote.rs`) is not part of the build.

## 7. Plan

In this order:

1. `ProgressDisplay`: the bars under the event sequences `TaskRun` and `RemoteSession` produce.
2. `Variables`: the precedence of all sources, locally and over ssh.
3. Transport with capacities and a second server, as extensions of `RemoteSession`; the frame
   codec; links.
