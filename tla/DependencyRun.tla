--------------------------- MODULE DependencyRun ---------------------------
(***************************************************************************)
(* What a run of hpg promises, whatever the plan: of the tasks the wanted  *)
(* ones need, each is attempted at most once and only when all its         *)
(* dependencies have succeeded, skipped when one of them did not, and      *)
(* left alone once one has failed.  Nothing here says in which of the      *)
(* possible orders the tasks are taken.                                    *)
(***************************************************************************)
EXTENDS Naturals, Sequences, Functions

CONSTANTS Tasks, DepGraphs, Requests

VARIABLES deps, wanted, status, outcome

vars == <<deps, wanted, status, outcome>>

ClosedUnder(g, S) == \A t \in S : Range(g[t]) \subseteq S
Needed(g, ts) ==
    {t \in Tasks : \A S \in SUBSET Tasks : ts \subseteq S /\ ClosedUnder(g, S) => t \in S}

Init ==
    /\ deps \in DepGraphs
    /\ wanted = {}
    /\ status = [t \in Tasks |-> "pending"]
    /\ outcome = "none"

Want ==
    /\ outcome = "none"
    /\ wanted = {}
    /\ \A t \in Tasks : status[t] = "pending"
    /\ \E ts \in Requests : wanted' = Range(ts)
    /\ UNCHANGED <<deps, status, outcome>>

Pending(t) == outcome = "none" /\ t \in Needed(deps, wanted) /\ status[t] = "pending"

Attempt(t) ==
    /\ Pending(t)
    /\ \A d \in Range(deps[t]) : status[d] = "succeeded"
    /\ \E s \in {"succeeded", "skipped"} : status' = [status EXCEPT ![t] = s]
    /\ UNCHANGED <<deps, wanted, outcome>>

\* A failure ends the run: nothing is attempted or recorded any more.
Fail(t) ==
    /\ Pending(t)
    /\ \A d \in Range(deps[t]) : status[d] = "succeeded"
    /\ status' = [status EXCEPT ![t] = "failed"]
    /\ outcome' = "incomplete"
    /\ UNCHANGED <<deps, wanted>>

GiveUp(t) ==
    /\ Pending(t)
    /\ \E d \in Range(deps[t]) : status[d] = "skipped"
    /\ status' = [status EXCEPT ![t] = "skipped"]
    /\ UNCHANGED <<deps, wanted, outcome>>

Finish ==
    /\ outcome = "none"
    /\ \A t \in Needed(deps, wanted) : status[t] # "pending"
    /\ outcome' = IF \A t \in Needed(deps, wanted) : status[t] = "succeeded"
                   THEN "ok" ELSE "incomplete"
    /\ UNCHANGED <<deps, wanted, status>>

\* An error outside the attempts, or nothing to be run in the first place
Abort ==
    /\ outcome = "none"
    /\ outcome' = "aborted"
    /\ UNCHANGED <<deps, wanted, status>>

Next == Want \/ Finish \/ Abort \/ \E t \in Tasks : Attempt(t) \/ Fail(t) \/ GiveUp(t)

Spec == Init /\ [][Next]_vars
FairSpec == Spec /\ WF_vars(Next)
=============================================================================
