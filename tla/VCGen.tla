-------------------------------- MODULE VCGen --------------------------------
(***************************************************************************)
(* The verification conditions the backend emits for a loop, or a loop in  *)
(* a loop, and the invariant and postcondition templates they are written  *)
(* with: verify.py (weakest preconditions), templates/invariant/1.mako and *)
(* templates/postcondition/1.mako (Sketch), templates/z3 (Z3).             *)
(*                                                                         *)
(* A nest of Depth loops, loop 1 outermost, loop d running from Lo[d] up   *)
(* to but excluding Hi[d]; its body stores Rhs[o][j] into location         *)
(* Idx[o][j] of every output array o.  A right-hand side reads inputs      *)
(* only: the frontend renames the writes of an array that is also read to  *)
(* <array>_out, so it depends on the loop variables alone.                 *)
(***************************************************************************)
EXTENDS Integers

CONSTANTS
  Depth,   \* number of nested loops
  Lo, Hi,  \* [1..Depth -> Int], per_loop_mins and per_loop_maxs
  Outs,    \* the output arrays, in the order OutputArrayFinder meets them
  Locs,    \* the locations of an array
  Val,     \* what a location may hold
  Idx,     \* [Outs -> [Points -> Locs]], idx_<array>
  Rhs      \* [Outs -> [Points -> Val]], the value the body assigns

Dims == 1..Depth

\* Every valuation of the loop variables the conditions range over.
Points ==
  {p \in [Dims -> UNION {Lo[d]..Hi[d] : d \in Dims}] :
    \A d \in Dims : Lo[d] <= p[d] /\ p[d] <= Hi[d]}

\* The iterations of the nest, which is also what the postcondition covers.
Region == {p \in Points : \A d \in Dims : Lo[d] <= p[d] /\ p[d] < Hi[d]}

Stores == [Outs -> [Locs -> Val]]

\* A candidate the synthesizer returns: one function per loop and array,
\* gen_<array>_<loop>, and gen_<array>_postcondition under the key 0.
Gens == [0..Depth -> [Outs -> [Points -> Val]]]

\* One loop or two: for three and more, templates/invariant/1.mako closes the
\* block of each contained loop before it opens that of the next, so its I reads
\* a variable that is not declared there, and its I__2 compares where any one
\* contained variable is in range.  The bounds are those the conditions are
\* emitted under ("max - min > 1").
ASSUME NestAssumption ==
  /\ Depth \in 1..2
  /\ Lo \in [Dims -> Int]
  /\ Hi \in [Dims -> Int]
  /\ \A d \in Dims : Hi[d] - Lo[d] > 1
  /\ Idx \in [Outs -> [Points -> Locs]]
  /\ Rhs \in [Outs -> [Points -> Val]]

------------------------------------------------------------------------------
\* Invariants and postcondition, as the Sketch templates define them.

\* out[idx_out(p)] == gen_out(p), for every output array.
Matches(g, s, p) == \A o \in Outs : s[o][Idx[o][p]] = g[o][p]

\* The points I_l inspects when the loop variables are j: enclosing loops at
\* their current value, loop l from its minimum to its current value, enclosed
\* loops over their full range.
Box(l, j) ==
  {p \in Points :
    /\ \A d \in Dims : d < l => p[d] = j[d]
    /\ Lo[l] <= p[l] /\ p[l] < j[l]
    /\ \A d \in Dims : d > l => Lo[d] <= p[d] /\ p[d] < Hi[d]}

InRange(j) == \A d \in Dims : Lo[d] <= j[d] /\ j[d] <= Hi[d]

\* The form used as a hypothesis: false outside the loop ranges, and otherwise
\* the invariants of loop l and of every loop around it at all their points.
Inv(g, l, j, s) ==
  /\ InRange(j)
  /\ \A d \in 1..l : \A p \in Box(d, j) : Matches(g[d], s, p)

\* I_l__2, the form RHSInvariantReplacer puts where an invariant is concluded:
\* it looks at the one point p, and has no test of the loop ranges.
Inv2(g, l, j, s, p) ==
  \A d \in 1..l : p \in Box(d, j) => Matches(g[d], s, p)

Postcondition(g, s, p) == p \in Region => Matches(g[0], s, p)

------------------------------------------------------------------------------
\* wp of the straight-line statements of a nest.

Set(j, d, v) == [j EXCEPT ![d] = v]

\* The body's assignments: Q[out{idx := rhs}/out] for every output array.
Assign(j, s) == [o \in Outs |-> [s[o] EXCEPT ![Idx[o][j]] = Rhs[o][j]]]

\* The conditions processWhileLoop appends for loop l, with wp of the loop's
\* body substituted in, at loop variables j, store s and checked point p.
\* "true -> I" after the initialisation of the outermost loop.
EntryVC(g, j, s, p) == Inv2(g, 1, Set(j, 1, Lo[1]), s, p)

\* I && test -> wp(body, I), the body of loop l being loop l + 1.
DescendVC(g, l, j, s, p) ==
  Inv(g, l, j, s) /\ j[l] < Hi[l]
    => Inv2(g, l + 1, Set(j, l + 1, Lo[l + 1]), s, p)

\* I && test -> wp(body, I) for the innermost loop.
BodyVC(g, j, s, p) ==
  Inv(g, Depth, j, s) /\ j[Depth] < Hi[Depth]
    => Inv2(g, Depth, Set(j, Depth, j[Depth] + 1), Assign(j, s), p)

\* I && !test -> Q, where Q is what follows loop l: the increment of loop l - 1.
AscendVC(g, l, j, s, p) ==
  Inv(g, l, j, s) /\ ~ (j[l] < Hi[l])
    => Inv2(g, l - 1, Set(j, l - 1, j[l - 1] + 1), s, p)

\* Mutant: strict comparisons with the minimums.
ExitVCSkipsMin(g, j, s, p) ==
  Inv(g, 1, j, s) /\ ~ (j[1] < Hi[1]) /\ (\A d \in Dims : Lo[d] < p[d])
    => Postcondition(g, s, p)

\* I && !test -> postcondition, for the outermost loop.
ExitVC(g, j, s, p) ==
  Inv(g, 1, j, s) /\ ~ (j[1] < Hi[1]) => Postcondition(g, s, p)

\* The main() of the sketch: every condition, for all inputs.
SketchAccepts(g) ==
  \A j \in Points, s \in Stores, p \in Points :
    /\ EntryVC(g, j, s, p)
    /\ \A l \in 1..(Depth - 1) : DescendVC(g, l, j, s, p)
    /\ BodyVC(g, j, s, p)
    /\ \A l \in 2..Depth : AscendVC(g, l, j, s, p)
    /\ ExitVC(g, j, s, p)
==============================================================================
