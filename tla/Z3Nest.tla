-------------------------------- MODULE Z3Nest --------------------------------
(***************************************************************************)
(* The conditions of the Z3 script (generate_z3.py) for the same nests.    *)
(* They come from the same weakest preconditions as those of the sketch,   *)
(* with other invariant and postcondition templates                        *)
(* (templates/z3/invariant.2.z3.mako and postcondition.z3.mako).  Modelled *)
(* for an output written in the innermost loop and indexed by every loop   *)
(* variable: output_nesting is loop Depth, dependent_loopvars is Dims.     *)
(***************************************************************************)
EXTENDS LoopNest

\* Neither form of I_l says anything when this holds: the variable of loop l
\* past its maximum, or another one at or past its maximum.
Z3OutOfRange(l, j) == j[l] > Hi[l] \/ \E d \in Dims \ {l} : j[d] >= Hi[d]

\* Mutant: the innermost invariant leaves out the iterations of the current row.
Z3BoxNoRow(l, j) ==
  {p \in Points :
    /\ \A d \in Dims : Lo[d] <= p[d] /\ p[d] < Hi[d]
    /\ \A d \in Dims : (d < l \/ (d = l /\ (l < Depth \/ Depth = 1))) => p[d] < j[d]}

\* The points I_l inspects: for the innermost loop the completed iterations of
\* the loops around it and the current row so far ("now deal with remaining
\* iters"), for the others the completed iterations of loop l and of the loops
\* around it.
Z3Box(l, j) ==
  {p \in Points :
    /\ \A d \in Dims : Lo[d] <= p[d] /\ p[d] < Hi[d]
    /\ \/ \A d \in Dims : (d < l \/ (d = l /\ (l < Depth \/ Depth = 1))) => p[d] < j[d]
       \/ /\ l = Depth
          /\ p[l] < j[l]
          /\ \A d \in Dims \ {l} : p[d] = j[d]}

Z3Inv(g, l, j, s) ==
  /\ ~ Z3OutOfRange(l, j)
  /\ \A p \in Z3Box(l, j) : Matches(g[l], s, p)

Z3Inv2(g, l, j, s, p) ==
  Z3OutOfRange(l, j) \/ (p \in Z3Box(l, j) => Matches(g[l], s, p))

\* Strictly between the bounds: (< v max) (> v min).
Z3Postcondition(g, s, p) ==
  (\A d \in Dims : Lo[d] < p[d] /\ p[d] < Hi[d]) => Matches(g[0], s, p)

\* "(assert (not main)) (check-sat)" answers unsat.
Z3Verifies(g) ==
  \A j \in Points, s \in Stores, p \in Points :
    /\ Z3Inv2(g, 1, Set(j, 1, Lo[1]), s, p)
    /\ \A l \in 1..(Depth - 1) :
         Z3Inv(g, l, j, s) /\ j[l] < Hi[l]
           => Z3Inv2(g, l + 1, Set(j, l + 1, Lo[l + 1]), s, p)
    /\ Z3Inv(g, Depth, j, s) /\ j[Depth] < Hi[Depth]
         => Z3Inv2(g, Depth, Set(j, Depth, j[Depth] + 1), Assign(j, s), p)
    /\ \A l \in 2..Depth :
         Z3Inv(g, l, j, s) /\ ~ (j[l] < Hi[l])
           => Z3Inv2(g, l - 1, Set(j, l - 1, j[l - 1] + 1), s, p)
    /\ Z3Inv(g, 1, j, s) /\ ~ (j[1] < Hi[1]) => Z3Postcondition(g, s, p)

------------------------------------------------------------------------------
\* README.md: "check if the candidates are correct".  A candidate Z3 verifies
\* is what the nest computes, at every point.
Z3VerifiedIsCorrect ==
  pc = "done" /\ Z3Verifies(gen) => \A p \in Points : Postcondition(gen, out, p)

\* The iterations of the current row done so far are what gen_<array>_<innermost
\* loop> says.
RowMatches ==
  \A p \in Region :
    (p[Depth] < i[Depth] /\ \A d \in Dims \ {Depth} : p[d] = i[d])
      => Matches(gen[Depth], out, p)

\* What the script does establish: it verifies no candidate whose innermost
\* invariant is wrong about the current row when the innermost test is reached.
Z3RowIsVerified ==
  pc = "head" /\ lvl = Depth /\ ~ RowMatches => ~ Z3Verifies(gen)
==============================================================================
