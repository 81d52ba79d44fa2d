------------------------------- MODULE Definition -------------------------------
(***************************************************************************)
(* The definition phase of hpg: the configuration script calls task() and  *)
(* target(), binds the tasks to globals and assigns defaults to `vars'     *)
(* (task/mod.rs, task/registry.rs, task/vars.rs); eval() then collects the *)
(* names and builds the graph.                                             *)
(*                                                                         *)
(* Three things live in Lua's named registry, a single table keyed by      *)
(* name: the bodies under "tasks", the default targets under "targets",    *)
(* and every default assigned to `vars', under the name of the variable.   *)
(* Tables have no metatables here: one whose __newindex raises an error    *)
(* could make task() fail after it has drawn its id.                       *)
(***************************************************************************)
EXTENDS Naturals, Sequences, Functions

CONSTANTS
  Names,          \* global variables the script binds to tasks
  MaxTasks,       \* bound: calls of task()
  MaxDeps,        \* bound: dependencies given to one call
  MaxArgs,        \* bound: arguments of one call of target(), tasks in a list
                  \* the script puts in the place of the default targets
  MaxTargets      \* bound: calls of target()

ASSUME DefinitionAssumption ==
  /\ 0 \notin Names
  /\ MaxTasks \in Nat /\ MaxDeps \in Nat /\ MaxArgs \in Nat /\ MaxTargets \in Nat

VARIABLES
  nextId,       \* TaskRegistry.next_id
  graph,        \* the dependencies of each registered task
  globals,      \* the task each global is bound to, 0 for none
  named,        \* TaskRegistry.named, 0 for no entry
  withBody,     \* the tasks task() was given a body for
  bodies,       \* keys of the table under "tasks"
  tasksIsTable, \* the value under "tasks" is a table
  targets,      \* the list under "targets"
  targetsIsList,\* the value under "targets" is a list of tasks
  rewritten,    \* which of the two slots the script has written to itself
  resolved,     \* the names target() has resolved, with the task each meant
  calls,        \* calls of target() so far
  phase

defVars == <<nextId, graph, globals, named, withBody, bodies, tasksIsTable,
             targets, targetsIsList, rewritten, resolved, calls, phase>>

Ids == 1..MaxTasks
Defined == 1 .. nextId - 1
SeqUpTo(S, n) == UNION {[1..k -> S] : k \in 0..n}

DefInit ==
  /\ nextId = 1
  /\ graph = <<>>
  /\ globals = [n \in Names |-> 0] /\ named = [n \in Names |-> 0]
  /\ withBody = {} /\ bodies = {} /\ tasksIsTable = TRUE
  /\ targets = <<>> /\ targetsIsList = TRUE /\ rewritten = {}
  /\ resolved = {} /\ calls = 0
  /\ phase = "script"

-----------------------------------------------------------------------------
(* task()                                                                  *)

\* Mutant of DefineTask: the new task is filed in front of the others.
DefineTaskFront(n, ds, body) ==
  /\ phase = "script" /\ nextId <= MaxTasks
  /\ tasksIsTable
  /\ nextId' = nextId + 1
  /\ graph' = <<ds>> \o graph
  /\ globals' = [globals EXCEPT ![n] = nextId]
  /\ withBody' = IF body THEN withBody \cup {nextId} ELSE withBody
  /\ bodies' = IF body THEN bodies \cup {nextId} ELSE bodies
  /\ UNCHANGED <<named, tasksIsTable, targets, targetsIsList, rewritten, resolved,
                 calls, phase>>

\* `name = task(desc, {dependencies}, body)': the dependencies are Task values,
\* so that each is the result of an earlier call.  Without a table under
\* "tasks" the call raises an error.
DefineTask(n, ds, body) ==
  /\ phase = "script" /\ nextId <= MaxTasks
  /\ tasksIsTable
  /\ nextId' = nextId + 1
  /\ graph' = Append(graph, ds)
  /\ globals' = [globals EXCEPT ![n] = nextId]
  /\ withBody' = IF body THEN withBody \cup {nextId} ELSE withBody
  /\ bodies' = IF body THEN bodies \cup {nextId} ELSE bodies
  /\ UNCHANGED <<named, tasksIsTable, targets, targetsIsList, rewritten, resolved,
                 calls, phase>>

\* The script takes a binding back.
Unbind(n) ==
  /\ phase = "script" /\ globals[n] # 0
  /\ globals' = [globals EXCEPT ![n] = 0]
  /\ UNCHANGED <<nextId, graph, named, withBody, bodies, tasksIsTable, targets,
                 targetsIsList, rewritten, resolved, calls, phase>>

-----------------------------------------------------------------------------
(* target()                                                                *)

\* Mutant of FindTasks: the latest binding replaces the entry.
FindTasksLatest(names) ==
  [n \in Names |-> IF globals[n] # 0 THEN globals[n] ELSE names[n]]

\* find_tasks with register_name: the first registration of a name stays.
FindTasks(names) ==
  [n \in Names |-> IF names[n] # 0 THEN names[n] ELSE globals[n]]

\* What target() appends to the list for the tasks ids: those that are not in it,
\* each once, in the order in which they first occur.  There is one such sequence.
NewTargets(list, ids) ==
  {new \in SeqUpTo(Range(ids), Len(ids)) :
     /\ Range(new) = Range(ids) \ Range(list)
     /\ \A j, k \in DOMAIN new : j < k =>
          \E i \in DOMAIN ids : ids[i] = new[j] /\ \A l \in 1..i : ids[l] # new[k]}

\* The argument of target() is a name or a task.
ByName(n) == [name |-> n, task |-> 0]
ByTask(t) == [name |-> 0, task |-> t]

Lookup(names, arg) == IF arg.task # 0 THEN arg.task ELSE names[arg.name]

\* Mutant of Target: a name nobody has registered is not an error.
TargetUnknown(args) ==
  LET names == FindTasks(named)
      ids   == [i \in DOMAIN args |-> Lookup(names, args[i])]
  IN  /\ phase = "script" /\ calls < MaxTargets /\ targetsIsList
      /\ calls' = calls + 1 /\ named' = names
      /\ \E new \in NewTargets(targets, ids) : targets' = targets \o new
      /\ UNCHANGED <<nextId, graph, globals, withBody, bodies, tasksIsTable,
                     targetsIsList, rewritten, resolved, phase>>

\* target(args) collects the names known by now and adds each argument to the
\* default targets once.
Target(args) ==
  LET names == FindTasks(named)
      ids   == [i \in DOMAIN args |-> Lookup(names, args[i])]
  IN  /\ phase = "script" /\ calls < MaxTargets /\ targetsIsList
      /\ \A i \in DOMAIN ids : ids[i] # 0
      /\ calls' = calls + 1
      /\ named' = names
      /\ \E new \in NewTargets(targets, ids) : targets' = targets \o new
      /\ resolved' = resolved \cup
                       {<<args[i].name, ids[i]>> : i \in {j \in DOMAIN args :
                                                            args[j].task = 0}}
      /\ UNCHANGED <<nextId, graph, globals, withBody, bodies, tasksIsTable,
                     targetsIsList, rewritten, phase>>

\* target() raises an error, which the script catches with pcall(): a slot that is no
\* list of tasks, a name nobody has registered, an argument that is no task.  The list is
\* as it was, but the names have been collected; only some of them if it was a
\* global without a string for a name that find_tasks stumbled over.
TargetFails ==
  /\ phase = "script" /\ calls < MaxTargets
  /\ calls' = calls + 1
  /\ \E found \in SUBSET Names :
       named' = [n \in Names |-> IF n \in found THEN FindTasks(named)[n] ELSE named[n]]
  /\ UNCHANGED <<nextId, graph, globals, withBody, bodies, tasksIsTable, targets,
                 targetsIsList, rewritten, resolved, phase>>

\* An error of the script that it does not catch, or one of the last find_tasks: eval()
\* returns it and nothing is run.
ScriptError ==
  /\ phase = "script"
  /\ phase' = "failed"
  /\ UNCHANGED <<nextId, graph, globals, named, withBody, bodies, tasksIsTable,
                 targets, targetsIsList, rewritten, resolved, calls>>

-----------------------------------------------------------------------------
(* vars                                                                    *)

\* `vars.tasks = value' (Variables::set_default) puts any value in the place of the
\* bodies: no table, or a table with functions for whatever ids the script likes, of tasks
\* that never had a body or do not exist yet.  The same goes for a script that changes the
\* table it reads as `vars.tasks'.
AssignVarTasks(ids) ==
  /\ phase = "script"
  /\ bodies' = ids /\ tasksIsTable' \in BOOLEAN /\ (~tasksIsTable' => ids = {})
  /\ rewritten' = rewritten \cup {"tasks"}
  /\ UNCHANGED <<nextId, graph, globals, named, withBody, targets,
                 targetsIsList, resolved, calls, phase>>

\* `vars.targets = value' does the same to the default targets: no list of tasks, or any
\* such list, the same task more than once included.
AssignVarTargets(list) ==
  /\ phase = "script"
  /\ targets' = list /\ targetsIsList' \in BOOLEAN /\ (~targetsIsList' => list = <<>>)
  /\ rewritten' = rewritten \cup {"targets"}
  /\ UNCHANGED <<nextId, graph, globals, named, withBody, bodies, tasksIsTable,
                 resolved, calls, phase>>

-----------------------------------------------------------------------------
\* The end of eval(): the names are collected once more and the graph is built.
EndScript ==
  /\ phase = "script"
  /\ named' = FindTasks(named)
  /\ phase' = "ready"
  /\ UNCHANGED <<nextId, graph, globals, withBody, bodies, tasksIsTable,
                 targets, targetsIsList, rewritten, resolved, calls>>

Arguments == {ByName(n) : n \in Names} \cup {ByTask(t) : t \in Defined}

DefNext ==
  \/ \E n \in Names, ds \in SeqUpTo(Defined, MaxDeps), body \in BOOLEAN :
       DefineTask(n, ds, body)
  \/ \E n \in Names : Unbind(n)
  \/ \E args \in SeqUpTo(Arguments, MaxArgs) : Target(args)
  \/ \E ids \in SUBSET Ids : AssignVarTasks(ids)
  \/ \E list \in SeqUpTo(Defined, MaxArgs) : AssignVarTargets(list)
  \/ TargetFails \/ ScriptError \/ EndScript

DefSpec == DefInit /\ [][DefNext]_defVars

-----------------------------------------------------------------------------
(* Properties                                                              *)

DefTypeOK ==
  /\ nextId \in 1 .. MaxTasks + 1
  /\ graph \in Seq(Seq(Ids)) /\ Len(graph) = nextId - 1
  /\ globals \in [Names -> 0 .. nextId - 1]
  /\ named \in [Names -> 0 .. nextId - 1]
  /\ withBody \subseteq Defined /\ bodies \subseteq Ids
  /\ tasksIsTable \in BOOLEAN /\ targetsIsList \in BOOLEAN
  /\ targets \in Seq(Defined) /\ rewritten \subseteq {"tasks", "targets"}
  /\ resolved \subseteq Names \X Defined /\ calls \in 0..MaxTargets
  /\ phase \in {"script", "ready", "failed"}

\* What from_registry and execution_for_tasks rely on without a test: every
\* dependency is a registered task, and the graph has no cycle because a
\* dependency was registered earlier.
GraphWellFounded ==
  \A t \in DOMAIN graph : \A i \in DOMAIN graph[t] : graph[t][i] \in 1 .. t - 1

\* A name that target() has resolved means the same task to the command line as
\* it did to the script, whatever the global is bound to by then.
NamesKeepMeaning ==
  \A r \in resolved : named[r[1]] = r[2]

\* Every bound global can be requested by name once the script has run, and a
\* name that was not registered by a target() call means the last binding.
BindingsHaveNames ==
  phase = "ready" =>
    \A n \in Names :
      /\ globals[n] # 0 => named[n] # 0
      /\ calls = 0 => named[n] = globals[n]

\* A slot the script has not written to itself holds what task() and target() have put
\* there: the bodies of the tasks that were given one, and no default target twice.
SlotsKept ==
  /\ "tasks" \notin rewritten => tasksIsTable /\ bodies = withBody
  /\ "targets" \notin rewritten =>
       /\ targetsIsList
       /\ \A i, j \in DOMAIN targets : targets[i] = targets[j] => i = j

=============================================================================
