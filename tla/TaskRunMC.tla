----------------------------- MODULE TaskRunMC -----------------------------
(* Every dependency graph of four tasks and every outcome of every body.  The *)
(* command line names at most one task, and a default target may add one; the *)
(* planner alone is checked with every pair of requests, in TaskPlanMC.       *)
EXTENDS TaskRun

CONSTANTS MaxTask, MaxDeps

SeqsUpTo(S, n) == UNION {[1..k -> S] : k \in 0..n}

MCTasks == 1..MaxTask
MCDepGraphs ==
    {g \in [MCTasks -> SeqsUpTo(MCTasks, MaxDeps)] :
        \A t \in MCTasks : \A i \in DOMAIN g[t] : g[t][i] < t}
MCCommandLines == SeqsUpTo({MaxTask - 1, MaxTask, Unknown}, 1)
MCDefaultLists == SeqsUpTo({MaxTask - 2}, 1)
MCRequests == SeqsUpTo(MCTasks, 2)
=============================================================================
