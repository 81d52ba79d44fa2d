------------------------------ MODULE TaskPlan ------------------------------
(***************************************************************************)
(* The planner of hpg: from the dependency graph of the registered tasks   *)
(* and the requested tasks, the order in which execute() will run them     *)
(* (src/task/graph.rs).                                                    *)
(*                                                                         *)
(* execution_for_tasks walks the graph once per requested task with        *)
(* petgraph's DfsPostOrder, concatenates the walks into `execution', and   *)
(* then retains the first occurrence of every handle in `ordering'.  The   *)
(* walk is modelled with petgraph's own explicit stack, one push or pop to *)
(* a step, since the order of the plan is decided by nothing else.         *)
(***************************************************************************)
EXTENDS Naturals, Sequences, Functions

CONSTANTS
    Tasks,      \* the handles of the registered tasks
    DepGraphs,  \* the dependency lists the definition phase may have built
    Requests    \* the lists of handles execution_for_tasks may be called with

(***************************************************************************)
(* next_id counts from 1, task() draws a fresh id for every task, and its  *)
(* dependencies are values returned by earlier task() calls: a dependency  *)
(* has a smaller id.                                                       *)
(***************************************************************************)
ASSUME TasksAssumption == Tasks \subseteq Nat \ {0}

ASSUME DepGraphsAssumption ==
    \A g \in DepGraphs : /\ g \in [Tasks -> Seq(Tasks)]
                         /\ \A t \in Tasks : \A i \in DOMAIN g[t] : g[t][i] < t

ASSUME RequestsAssumption == Requests \subseteq Seq(Tasks)

VARIABLES
    deps,        \* the dag: the dependencies of each task, in task()'s order
    requested,   \* the argument of execution_for_tasks
    target,      \* how many of the requested tasks have been walked or are being
    stack,       \* DfsPostOrder.stack, the top last
    discovered,  \* DfsPostOrder.discovered
    finished,    \* DfsPostOrder.finished
    node,        \* the node whose neighbours are being pushed, 0 before the first
    edge,        \* how many of its neighbours are still to be looked at
    execution,   \* the walks of the targets, concatenated
    scanned,     \* how many elements of execution retain() has examined
    uniques,     \* the handles retain() has seen
    ordering,    \* the elements retain() has kept
    phase

walkVars == <<target, stack, discovered, finished, node, edge, execution>>
retainVars == <<scanned, uniques, ordering>>
planVars == <<deps, requested, walkVars, retainVars, phase>>

Phases == {"idle", "target", "walk", "expand", "retain", "ready"}

Top == stack[Len(stack)]

Init ==
    /\ deps \in DepGraphs
    /\ requested = <<>>
    /\ target = 0
    /\ stack = <<>>
    /\ discovered = {}
    /\ finished = {}
    /\ node = 0
    /\ edge = 0
    /\ execution = <<>>
    /\ scanned = 0
    /\ uniques = {}
    /\ ordering = <<>>
    /\ phase = "idle"

\* execution_for_tasks is called with the handles ts
Plan(ts) ==
    /\ phase = "idle"
    /\ requested' = ts
    /\ phase' = "target"
    /\ UNCHANGED <<deps, walkVars, retainVars>>

\* Mutant of StartWalk: the requested tasks are walked from the last to the first.
StartWalkFromLast ==
    /\ phase = "target"
    /\ target < Len(requested)
    /\ target' = target + 1
    /\ stack' = <<requested[Len(requested) - target]>>
    /\ discovered' = {}
    /\ finished' = {}
    /\ phase' = "walk"
    /\ UNCHANGED <<deps, requested, node, edge, execution, retainVars>>

\* execution_for_task: a new walk, from the next requested task
StartWalk ==
    /\ phase = "target"
    /\ target < Len(requested)
    /\ target' = target + 1
    /\ stack' = <<requested[target + 1]>>
    /\ discovered' = {}
    /\ finished' = {}
    /\ phase' = "walk"
    /\ UNCHANGED <<deps, requested, node, edge, execution, retainVars>>

\* DfsPostOrder::next, the first visit of the top of the stack
Discover ==
    /\ phase = "walk"
    /\ stack # <<>>
    /\ Top \notin discovered
    /\ discovered' = discovered \cup {Top}
    /\ node' = Top
    /\ edge' = Len(deps[Top])
    /\ phase' = "expand"
    /\ UNCHANGED <<deps, requested, target, stack, finished, execution, retainVars>>

\* Mutant of PushNeighbour: the last neighbour is never looked at.
PushNeighbourOffByOne ==
    /\ phase = "expand"
    /\ edge > 0
    /\ LET succ == deps[node][edge]
       IN  stack' = IF succ \in discovered \/ edge = 1 THEN stack ELSE Append(stack, succ)
    /\ edge' = edge - 1
    /\ UNCHANGED <<deps, requested, target, discovered, finished, node, execution,
                   retainVars, phase>>

\* DfsPostOrder::next, one neighbour.  petgraph keeps the edges of a node in a
\* list it prepends to, so the neighbours come in reverse order of task()'s list.
PushNeighbour ==
    /\ phase = "expand"
    /\ edge > 0
    /\ LET succ == deps[node][edge]
       IN  stack' = IF succ \in discovered THEN stack ELSE Append(stack, succ)
    /\ edge' = edge - 1
    /\ UNCHANGED <<deps, requested, target, discovered, finished, node, execution,
                   retainVars, phase>>

ExpandDone ==
    /\ phase = "expand"
    /\ edge = 0
    /\ phase' = "walk"
    /\ UNCHANGED <<deps, requested, walkVars, retainVars>>

Pop ==
    /\ phase = "walk"
    /\ stack # <<>>
    /\ Top \in discovered
    /\ stack' = SubSeq(stack, 1, Len(stack) - 1)

\* DfsPostOrder::next returns the node, and dfs_post pushes it on its result
Emit ==
    /\ Pop
    /\ Top \notin finished
    /\ finished' = finished \cup {Top}
    /\ execution' = Append(execution, Top)
    /\ UNCHANGED <<deps, requested, target, discovered, node, edge, retainVars, phase>>

\* A node pushed by several dependents is met again after it was returned
Discard ==
    /\ Pop
    /\ Top \in finished
    /\ UNCHANGED <<deps, requested, target, discovered, finished, node, edge,
                   execution, retainVars, phase>>

\* DfsPostOrder::next returns None: the walk of this target is complete
EndWalk ==
    /\ phase = "walk"
    /\ stack = <<>>
    /\ phase' = "target"
    /\ UNCHANGED <<deps, requested, walkVars, retainVars>>

\* collect() of the flat_map has consumed every requested task
StartRetain ==
    /\ phase = "target"
    /\ target = Len(requested)
    /\ phase' = "retain"
    /\ UNCHANGED <<deps, requested, walkVars, retainVars>>

\* Mutant of Retain: the last occurrence is kept instead of the first.
RetainLast ==
    /\ phase = "retain"
    /\ scanned < Len(execution)
    /\ LET t == execution[scanned + 1]
           later == {execution[i] : i \in (scanned + 2)..Len(execution)}
       IN  /\ uniques' = uniques \cup {t}
           /\ ordering' = IF t \in later THEN ordering ELSE Append(ordering, t)
    /\ scanned' = scanned + 1
    /\ UNCHANGED <<deps, requested, walkVars, phase>>

\* Mutant of Retain: the element after the one examined is skipped.
RetainSkips ==
    /\ phase = "retain"
    /\ scanned < Len(execution)
    /\ LET t == execution[scanned + 1]
       IN  /\ uniques' = uniques \cup {t}
           /\ ordering' = IF t \in uniques THEN ordering ELSE Append(ordering, t)
    /\ scanned' = scanned + 2
    /\ UNCHANGED <<deps, requested, walkVars, phase>>

\* execution.retain(|t| uniques.insert(*t)), one element
Retain ==
    /\ phase = "retain"
    /\ scanned < Len(execution)
    /\ LET t == execution[scanned + 1]
       IN  /\ uniques' = uniques \cup {t}
           /\ ordering' = IF t \in uniques THEN ordering ELSE Append(ordering, t)
    /\ scanned' = scanned + 1
    /\ UNCHANGED <<deps, requested, walkVars, phase>>

PlanReady ==
    /\ phase = "retain"
    /\ scanned = Len(execution)
    /\ phase' = "ready"
    /\ UNCHANGED <<deps, requested, walkVars, retainVars>>

PlanStep ==
    \/ StartWalk \/ Discover \/ PushNeighbour \/ ExpandDone \/ Emit \/ Discard
    \/ EndWalk \/ StartRetain \/ Retain \/ PlanReady

Next == (\E ts \in Requests : Plan(ts)) \/ PlanStep

Spec == Init /\ [][Next]_planVars

\* The planner is a sequential function: it does not stop in the middle
FairSpec == Spec /\ WF_planVars(Next)

-----------------------------------------------------------------------------

TypeOK ==
    /\ deps \in DepGraphs
    /\ requested \in Seq(Tasks)
    /\ target \in Nat
    /\ stack \in Seq(Tasks)
    /\ discovered \in SUBSET Tasks
    /\ finished \in SUBSET discovered
    /\ node \in Tasks \cup {0}
    /\ edge \in Nat
    /\ phase = "expand" => node \in Tasks /\ edge <= Len(deps[node])
    /\ execution \in Seq(Tasks)
    /\ scanned \in 0..Len(execution)
    /\ uniques \in SUBSET Tasks
    /\ ordering \in Seq(Tasks)
    /\ phase \in Phases

\* The tasks a run for the set ts needs: the least set that contains ts and the
\* dependencies of its members.
ClosedUnder(g, S) == \A t \in S : Range(g[t]) \subseteq S
Needed(g, ts) ==
    {t \in Tasks : \A S \in SUBSET Tasks : ts \subseteq S /\ ClosedUnder(g, S) => t \in S}

\* A task is preceded in the sequence s by everything it depends on in the graph g.
DepsPrecede(g, s) ==
    \A i \in DOMAIN s : \A d \in Range(g[s[i]]) : \E j \in 1..(i - 1) : s[j] = d

\* Every prefix of the plan that exists lists the dependencies of a task before
\* the task: the "safe-order" the doc comment of execution_for_tasks promises and
\* the unwrap() in execute() relies on, across diamonds, repeated dependencies and
\* targets that are dependencies of one another.
ParentsFirst == DepsPrecede(deps, ordering)

\* No task is planned twice, however many targets need it.
NoDuplicates == \A i, j \in DOMAIN ordering : ordering[i] = ordering[j] => i = j

\* "Duplicates are removed such that tasks will retain their highest priority in
\* the execution order" (doc comment of execution_for_tasks): what an earlier
\* requested task needs is planned before everything it does not need, also when
\* a later request needs it too.
EarlierTargetsFirst ==
    phase = "ready" =>
        \A i, j \in DOMAIN ordering :
            \A r \in 1..Len(requested) :
                LET before == Needed(deps, Range(SubSeq(requested, 1, r)))
                IN  ordering[i] \notin before /\ ordering[j] \in before => j < i

-----------------------------------------------------------------------------

\* The planner as an implementation of DependencyOrder: the list is the retained
\* prefix, and the request is taken when execution_for_tasks is called.
Order == INSTANCE DependencyOrder WITH
    wanted <- Range(requested),
    listed <- ordering,
    stage <- CASE phase = "idle" -> "idle"
               [] phase = "ready" -> "done"
               [] OTHER -> "listing"

\* The planner implements DependencyOrder, its termination included.
ImplementsDependencyOrder == Order!FairSpec
=============================================================================
