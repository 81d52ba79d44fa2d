-------------------------- MODULE DependencyOrder --------------------------
(***************************************************************************)
(* What the planner promises, without the way it walks the graph: once     *)
(* some tasks are wanted, tasks are listed one after the other, each needed*)
(* by a wanted one, none twice and none before its dependencies, until     *)
(* every needed task is listed.                                            *)
(***************************************************************************)
EXTENDS Naturals, Sequences, Functions

CONSTANTS Tasks, DepGraphs, Requests

VARIABLES deps, wanted, listed, stage

vars == <<deps, wanted, listed, stage>>

ClosedUnder(g, S) == \A t \in S : Range(g[t]) \subseteq S
Needed(g, ts) ==
    {t \in Tasks : \A S \in SUBSET Tasks : ts \subseteq S /\ ClosedUnder(g, S) => t \in S}

Init ==
    /\ deps \in DepGraphs
    /\ wanted = {}
    /\ listed = <<>>
    /\ stage = "idle"

Want ==
    /\ stage = "idle"
    /\ \E ts \in Requests : wanted' = Range(ts)
    /\ stage' = "listing"
    /\ UNCHANGED <<deps, listed>>

List ==
    /\ stage = "listing"
    /\ \E t \in Needed(deps, wanted) \ Range(listed) :
          /\ Range(deps[t]) \subseteq Range(listed)
          /\ listed' = Append(listed, t)
    /\ UNCHANGED <<deps, wanted, stage>>

Done ==
    /\ stage = "listing"
    /\ Range(listed) = Needed(deps, wanted)
    /\ stage' = "done"
    /\ UNCHANGED <<deps, wanted, listed>>

Next == Want \/ List \/ Done

Spec == Init /\ [][Next]_vars
FairSpec == Spec /\ WF_vars(Next)
=============================================================================
