----------------------------- MODULE TaskPlanMC -----------------------------
(* Every dependency graph of four tasks with at most two dependencies each    *)
(* (repeated ones included), and every request of at most two tasks.          *)
EXTENDS TaskPlan

CONSTANTS MaxTask, MaxDeps, MaxRequests

\* the sequences over S of at most n elements
SeqsUpTo(S, n) == UNION {[1..k -> S] : k \in 0..n}

MCTasks == 1..MaxTask
MCDepGraphs ==
    {g \in [MCTasks -> SeqsUpTo(MCTasks, MaxDeps)] :
        \A t \in MCTasks : \A i \in DOMAIN g[t] : g[t][i] < t}
MCRequests == SeqsUpTo(MCTasks, MaxRequests)
=============================================================================
