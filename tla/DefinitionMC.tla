---------------------------- MODULE DefinitionMC ----------------------------
(* Two global names, two tasks and three calls of target().                 *)
EXTENDS Definition, SequencesExt

CONSTANTS a, b

MCNames == {a, b}

\* NewTargets is what the loop over the arguments of target() comes to.
AddTarget(list, t) == IF Contains(list, t) THEN list ELSE Append(list, t)

ASSUME NewTargetsAssumption ==
  \A list, ids \in SeqUpTo(1..3, 3) :
    {list \o new : new \in NewTargets(list, ids)} = {FoldLeft(AddTarget, list, ids)}
=============================================================================
