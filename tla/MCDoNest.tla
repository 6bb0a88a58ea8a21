------------------------------- MODULE MCDoNest -------------------------------
(***************************************************************************)
(* Instances of DoNest: an array declared (0:4, 3), nests of two loops     *)
(* with every pair of bounds inside it.                                    *)
(***************************************************************************)
EXTENDS DoNest

MCDecl == <<[lo |-> 0, hi |-> 4, plain |-> FALSE], [lo |-> 1, hi |-> 3, plain |-> TRUE]>>

Bounds(d, steps) ==
  {l \in [lb : Decl[d].lo..Decl[d].hi, ub : Decl[d].lo..Decl[d].hi, step : steps] : l.lb <= l.ub}

MCLoops == {<<inner, outer>> : inner \in Bounds(1, {NoStep}), outer \in Bounds(2, {NoStep})}
MCLoopsStep == {<<inner, outer>> : inner \in Bounds(1, {1, 2}), outer \in Bounds(2, {1})}
==============================================================================
