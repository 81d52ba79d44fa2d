------------------------------- MODULE TaskRun -------------------------------
(***************************************************************************)
(* EvaluatedLuaState::execute (src/task/mod.rs): resolve the requested     *)
(* names, add the default targets, plan, and run the plan one task after   *)
(* the other.  The planner is the one of TaskPlan, step by step.           *)
(*                                                                         *)
(* A task's body is Lua code: what it returns, or how it fails, is chosen  *)
(* when it is called.  `results' is the task_results map, `events' what    *)
(* the run hands to the tracker, with the TrackerEvent each call of the    *)
(* Tracker trait sends.                                                    *)
(***************************************************************************)
EXTENDS TaskPlan

CONSTANTS
    CommandLines,  \* the names on the command line, each a task's handle or Unknown
    DefaultLists,  \* the default targets target() has registered
    Unknown        \* a name no task was registered under

ASSUME UnknownAssumption == Unknown \notin Tasks
ASSUME CommandLinesAssumption == CommandLines \subseteq Seq(Tasks \cup {Unknown})
ASSUME DefaultListsAssumption == DefaultLists \subseteq Seq(Tasks)

\* execution_for_tasks is called with what get_targets has resolved, and the default
\* targets behind it if -D was given.
ASSUME CallsAssumption ==
    \A names \in CommandLines, defaults \in DefaultLists :
        Unknown \notin Range(names) => {names, names \o defaults} \subseteq Requests

VARIABLES
    mode,      \* where execute() is
    results,   \* task_results: "none" for a handle that is not in the map
    next,      \* how many elements of ordering the loop has finished with
    called,    \* the tasks whose body was called
    cancelled, \* those whose body returned cancel()
    events,    \* the tracker events sent, in order
    verdict    \* what execute() returned

runVars == <<mode, results, next, called, cancelled, events, verdict>>
vars == <<planVars, runVars>>

Modes == {"start", "planning", "running", "task", "done"}
Results == {"none", "success", "skipped", "failed"}
Verdicts == {"none", "ok", "unknown task", "plan shown", "skipped task", "lua error"}
Events == {"BatchStart", "TaskStart", "TaskComplete", "TaskSkip", "TaskFail", "BatchSuccess"}

Current == ordering[next + 1]

RunInit ==
    /\ Init
    /\ mode = "start"
    /\ results = [t \in Tasks |-> "none"]
    /\ next = 0
    /\ called = {}
    /\ cancelled = {}
    /\ events = <<>>
    /\ verdict = "none"

Return(v) ==
    /\ mode' = "done"
    /\ verdict' = v

\* get_targets meets a name no task has: nothing is planned
UnknownTarget ==
    /\ mode = "start"
    /\ \E names \in CommandLines : Unknown \in Range(names)
    /\ Return("unknown task")
    /\ UNCHANGED <<planVars, results, next, called, cancelled, events>>

\* get_targets, then the default targets if -D was given
Resolve ==
    /\ mode = "start"
    /\ \E names \in CommandLines, defaults \in DefaultLists, runDefaults \in BOOLEAN :
          /\ Unknown \notin Range(names)
          /\ Plan(IF runDefaults THEN names \o defaults ELSE names)
    /\ mode' = "planning"
    /\ UNCHANGED <<results, next, called, cancelled, events, verdict>>

\* get_default_targets reads the list back from Lua's registry, where a script may have
\* put something else under the name.
DefaultsUnreadable ==
    /\ mode = "start"
    /\ \E names \in CommandLines : Unknown \notin Range(names)
    /\ Return("lua error")
    /\ UNCHANGED <<planVars, results, next, called, cancelled, events>>

Planning ==
    /\ mode = "planning"
    /\ PlanStep
    /\ UNCHANGED runVars

\* show_plan: the plan is printed and nothing is run
ShowPlan ==
    /\ mode = "planning"
    /\ phase = "ready"
    /\ Return("plan shown")
    /\ UNCHANGED <<planVars, results, next, called, cancelled, events>>

StartRun ==
    /\ mode = "planning"
    /\ phase = "ready"
    /\ mode' = "running"
    /\ events' = Append(events, "BatchStart")
    /\ UNCHANGED <<planVars, results, next, called, cancelled, verdict>>

\* What is under "tasks" in the registry is no table: the run does not begin.
BodiesUnreadable ==
    /\ mode = "planning"
    /\ phase = "ready"
    /\ Return("lua error")
    /\ UNCHANGED <<planVars, results, next, called, cancelled, events>>

StartTask ==
    /\ mode = "running"
    /\ next < Len(ordering)
    /\ mode' = "task"
    /\ events' = Append(events, "TaskStart")
    /\ UNCHANGED <<planVars, results, next, called, cancelled, verdict>>

\* The loop over direct_parents looks at them from the last dependency to the first
\* and stops at the first incomplete one.  Its unwrap() of a parent without a result
\* has no step here: a task whose parents lack one has no step at all, and UnwrapSafe
\* says that there is no such task.
Incomplete(r) == r \in {"skipped", "failed"}
ParentLookedAt(k) ==
    \A l \in (k + 1)..Len(deps[Current]) : results[deps[Current][l]] = "success"

\* Mutant of ParentIncomplete: any task that did not succeed counts as a parent.
AnyTaskIncomplete == \E t \in Tasks : Incomplete(results[t])

ParentIncomplete ==
    \E k \in DOMAIN deps[Current] :
        ParentLookedAt(k) /\ Incomplete(results[deps[Current][k]])

\* Mutant of ParentsSucceeded: the loop stops at the first parent that succeeded.
FirstParentSucceeded ==
    deps[Current] # <<>> => results[deps[Current][Len(deps[Current])]] = "success"

ParentsSucceeded == \A d \in Range(deps[Current]) : results[d] = "success"

\* Mutant of Record: the loop variable is advanced twice.
RecordAndSkipNext(r) ==
    /\ results' = [results EXCEPT ![Current] = r]
    /\ next' = next + 2
    /\ mode' = "running"
    /\ UNCHANGED <<planVars, verdict>>

\* The current task is over with the result r, and the loop goes on
Record(r) ==
    /\ results' = [results EXCEPT ![Current] = r]
    /\ next' = next + 1
    /\ mode' = "running"
    /\ UNCHANGED <<planVars, verdict>>

SkipDownstream ==
    /\ mode = "task"
    /\ ParentIncomplete
    /\ Record("skipped")
    /\ events' = Append(events, "TaskSkip")
    /\ UNCHANGED <<called, cancelled>>

\* task() was given no function: a task that only groups its dependencies
NoBody ==
    /\ mode = "task"
    /\ ParentsSucceeded
    /\ Record("success")
    /\ UNCHANGED <<called, cancelled, events>>

\* What the table of bodies holds for the task is neither a function nor nil.
BodyUnreadable ==
    /\ mode = "task"
    /\ ParentsSucceeded
    /\ Return("lua error")
    /\ UNCHANGED <<planVars, results, next, called, cancelled, events>>

Call ==
    /\ mode = "task"
    /\ ParentsSucceeded
    /\ called' = called \cup {Current}

\* The body returns nothing, or anything that is no userdata
BodyReturns ==
    /\ Call
    /\ Record("success")
    /\ events' = Append(events, "TaskComplete")
    /\ UNCHANGED cancelled

\* The body returns success(), or any other userdata: no event is sent
BodyReturnsUserData ==
    /\ Call
    /\ Record("success")
    /\ UNCHANGED <<cancelled, events>>

\* The body returns cancel(), the userdata Incomplete(Skipped)
BodyCancels ==
    /\ Call
    /\ Record("skipped")
    /\ cancelled' = cancelled \cup {Current}
    /\ events' = Append(events, "TaskSkip")

\* Mutant of BodyFails: the `break' is missing.
BodyFailsAndGoesOn ==
    /\ Call
    /\ Record("failed")
    /\ events' = Append(events, "TaskFail")
    /\ UNCHANGED cancelled

\* fail(), or an error in any function of hpg: a CallbackError, which breaks the
\* loop; finish_fail() sends a TaskFail too, there is no BatchFail
BodyFails ==
    /\ Call
    /\ results' = [results EXCEPT ![Current] = "failed"]
    /\ events' = events \o <<"TaskFail", "TaskFail">>
    /\ Return("skipped task")
    /\ UNCHANGED <<planVars, next, cancelled>>

\* A runtime error of the Lua code itself: execute() returns it at once
BodyErrors ==
    /\ Call
    /\ Return("lua error")
    /\ UNCHANGED <<planVars, results, next, cancelled, events>>

AnyIncomplete == \E t \in Tasks : Incomplete(results[t])

FinishIncomplete ==
    /\ mode = "running"
    /\ next = Len(ordering)
    /\ AnyIncomplete
    /\ events' = Append(events, "TaskFail")
    /\ Return("skipped task")
    /\ UNCHANGED <<planVars, results, next, called, cancelled>>

\* Mutant of FinishSuccess: the results are not looked at.
FinishSuccessAlways ==
    /\ mode = "running"
    /\ next = Len(ordering)
    /\ events' = Append(events, "BatchSuccess")
    /\ Return("ok")
    /\ UNCHANGED <<planVars, results, next, called, cancelled>>

FinishSuccess ==
    /\ mode = "running"
    /\ next = Len(ordering)
    /\ ~AnyIncomplete
    /\ events' = Append(events, "BatchSuccess")
    /\ Return("ok")
    /\ UNCHANGED <<planVars, results, next, called, cancelled>>

ExecStep ==
    \/ UnknownTarget \/ Resolve \/ DefaultsUnreadable \/ ShowPlan
    \/ StartRun \/ BodiesUnreadable \/ StartTask \/ BodyUnreadable
    \/ SkipDownstream \/ NoBody \/ BodyReturns \/ BodyReturnsUserData
    \/ BodyCancels \/ BodyFails \/ BodyErrors \/ FinishIncomplete \/ FinishSuccess

RunNext == Planning \/ ExecStep

RunSpec == RunInit /\ [][RunNext]_vars

\* Planning and the loop are sequential code.  That a body that is called comes
\* back is an assumption on the configuration, not a fact about hpg.
FairRunSpec == RunSpec /\ WF_vars(RunNext)

-----------------------------------------------------------------------------

RunTypeOK ==
    /\ TypeOK
    /\ mode \in Modes
    /\ results \in [Tasks -> Results]
    /\ next \in 0..Len(ordering)
    /\ called \in SUBSET Tasks
    /\ cancelled \in SUBSET called
    /\ events \in Seq(Events)
    /\ verdict \in Verdicts

\* "unwrap is safe because we're guaranteed to execute parents first due to
\* ordering" (src/task/mod.rs:388): whenever the loop looks at the parents of a task
\* each of them has a result, so the run never panics.
UnwrapSafe ==
    mode = "task" => \A d \in Range(deps[Current]) : results[d] # "none"

\* What a task needs, itself left out
Upstream(t) == Needed(deps, Range(deps[t]))

\* "any task that returns cancel() will cause any downstream task to be skipped, but
\* not otherwise interfere with execution" (docs/reference.md): in a run that went
\* through its plan the tasks that did not succeed are exactly the cancelled ones
\* and those downstream of one.
CancelSkipsOnlyDownstream ==
    mode = "running" \/ (mode = "done" /\ verdict \in {"ok", "skipped task"}
                                       /\ "failed" \notin Range(results)) =>
        \A i \in 1..next :
            LET t == ordering[i]
            IN  /\ results[t] # "none"
                /\ results[t] = "skipped" <=>
                       t \in cancelled \/ Upstream(t) \cap cancelled # {}

\* A body runs only when everything its task needs, however far up, has succeeded.
BodiesRunAfterUpstream ==
    \A t \in called : \A u \in Upstream(t) : results[u] = "success"

\* What the run reports agrees with what execute() returns: it is Ok exactly if
\* every planned task has succeeded, and then BatchSuccess is the last event and no
\* task was reported skipped or failed; otherwise BatchSuccess is never sent.  When Lua's
\* error comes back from the run there is no event for it.
Reported(e) == e \in Range(events)
VerdictReported ==
    mode = "done" =>
        /\ verdict = "ok" <=>
              /\ Reported("BatchSuccess")
              /\ events[Len(events)] = "BatchSuccess"
              /\ ~Reported("TaskSkip") /\ ~Reported("TaskFail")
              /\ \A t \in Range(ordering) : results[t] = "success"
        /\ verdict = "skipped task" =>
              /\ events[Len(events)] = "TaskFail"
              /\ \E t \in Range(ordering) : Incomplete(results[t])
        /\ verdict \in {"unknown task", "plan shown"} => events = <<>> /\ called = {}

-----------------------------------------------------------------------------

Status(r) ==
    CASE r = "none" -> "pending"
      [] r = "success" -> "succeeded"
      [] r = "failed" -> "failed"
      [] OTHER -> "skipped"

\* execute() as an implementation of DependencyRun
Run == INSTANCE DependencyRun WITH
    wanted <- Range(requested),
    status <- [t \in Tasks |-> Status(results[t])],
    outcome <- CASE verdict \in {"none", "ok"} -> verdict
                 [] verdict = "skipped task" -> "incomplete"
                 [] OTHER -> "aborted"

\* execute() implements DependencyRun, and comes to an end if the bodies do.  In
\* particular "any task that results in a runtime error (or explicitly calls fail())
\* will immediately terminate execution" (docs/reference.md): after a failure no task
\* is run, skipped or recorded.
ImplementsDependencyRun == Run!FairSpec
=============================================================================
