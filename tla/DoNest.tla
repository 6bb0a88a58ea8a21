-------------------------------- MODULE DoNest --------------------------------
(***************************************************************************)
(* What IRTranslator makes of a DO nest: the loops                         *)
(*     do v = lb, ub [, step]     become     v = lb; while (v < ub) ...    *)
(* and an element of an array becomes a location computed from the         *)
(* declared dimensions (visitFortranDo, visitSgExprListExp).               *)
(*                                                                         *)
(* The module runs the translated nest and records which iteration stored  *)
(* each location, next to what the DO statement means.  Loop 1 is          *)
(* innermost and indexes the first dimension of the array.                 *)
(***************************************************************************)
EXTENDS Integers, Sequences

CONSTANTS
  Loops,  \* the nests considered: sequences of [lb, ub, step], with step
          \*   NoStep if the statement has none
  NoStep,
  Decl    \* the declared dimensions: [lo, hi, plain], plain when declared (hi)

Rank == Len(Decl)

ASSUME DoAssumption ==
  /\ Decl \in Seq([lo : Int, hi : Int, plain : BOOLEAN]) \ {<<>>}
  /\ NoStep \notin Int
  /\ Loops \subseteq Seq([lb : Int, ub : Int, step : Int \cup {NoStep}])
  /\ \A n \in Loops : Len(n) = Rank /\ \A d \in 1..Rank :
       /\ n[d].step # NoStep => n[d].step > 0
       /\ Decl[d].lo <= n[d].lb /\ n[d].ub <= Decl[d].hi
  /\ \A d \in 1..Rank : Decl[d].plain => Decl[d].lo = 1

VARIABLES
  nest,   \* the DO statements
  pc,     \* "start", "head" or "done"
  lvl,    \* the loop whose test comes next
  v,      \* the loop variables
  owner   \* the iterations executed, by the location they stored

vars == <<nest, pc, lvl, v, owner>>

Dims == 1..Rank

\* The factor of a dimension: its name or literal, or for (lo:hi) hi - lo.
Dimension(d) == IF Decl[d].plain THEN Decl[d].hi ELSE Decl[d].hi - Decl[d].lo

\* Mutant: the factor is that of the next dimension.
LinearNextFactor(x) ==
  LET from[d \in Dims] == IF d = Rank THEN x[d] ELSE x[d] + Dimension(d + 1) * from[d + 1]
  IN from[1]

\* "n_d + (N_d * (n_{d-1} + ...": column major, without the lower bounds.
Linear(x) ==
  LET from[d \in Dims] == IF d = Rank THEN x[d] ELSE x[d] + Dimension(d) * from[d + 1]
  IN from[1]

\* The iterations of the DO statements.
Iterations(n) ==
  {x \in [Dims -> UNION {n[d].lb..n[d].ub : d \in Dims}] :
    \A d \in Dims :
      /\ n[d].lb <= x[d] /\ x[d] <= n[d].ub
      /\ n[d].step # NoStep => (x[d] - n[d].lb) % n[d].step = 0}

------------------------------------------------------------------------------
\* Mutant: the inclusive bound of the DO statement.
TestInclusive(d) == v[d] <= nest[d].ub

Test(d) == v[d] < nest[d].ub

\* The statement at the end of a loop's body: v = v + 1, or v = step.
Increment(d) == IF nest[d].step = NoStep THEN v[d] + 1 ELSE nest[d].step

Init ==
  /\ nest \in Loops
  /\ pc = "start"
  /\ lvl = Rank
  /\ v = [d \in Dims |-> 0]
  /\ owner = {}

\* The initialisation in front of the outermost loop.
Start ==
  /\ pc = "start"
  /\ pc' = "head"
  /\ v' = [v EXCEPT ![Rank] = nest[Rank].lb]
  /\ UNCHANGED <<nest, lvl, owner>>

\* Mutant: the inner loop is skipped.
DescendTwoLevels ==
  /\ pc = "head" /\ lvl > 1 /\ Test(lvl)
  /\ lvl' = lvl - 2
  /\ v' = [v EXCEPT ![lvl - 1] = nest[lvl - 1].lb]
  /\ UNCHANGED <<nest, pc, owner>>

\* A test succeeds in front of an inner loop.
Descend ==
  /\ pc = "head" /\ lvl > 1 /\ Test(lvl)
  /\ lvl' = lvl - 1
  /\ v' = [v EXCEPT ![lvl - 1] = nest[lvl - 1].lb]
  /\ UNCHANGED <<nest, pc, owner>>

\* A test succeeds in front of the innermost body: store, and increment.
Body ==
  /\ pc = "head" /\ lvl = 1 /\ Test(1)
  /\ owner' = owner \cup {[at |-> Linear(v), by |-> v]}
  /\ v' = [v EXCEPT ![1] = Increment(1)]
  /\ UNCHANGED <<nest, pc, lvl>>

\* Mutant: the variable of the loop that ended is incremented.
AscendWrongVariable ==
  /\ pc = "head" /\ ~ Test(lvl) /\ lvl < Rank
  /\ lvl' = lvl + 1
  /\ v' = [v EXCEPT ![lvl] = Increment(lvl)]
  /\ UNCHANGED <<nest, pc, owner>>

\* The test of an inner loop fails: the increment at the end of the body around it.
Ascend ==
  /\ pc = "head" /\ ~ Test(lvl) /\ lvl < Rank
  /\ lvl' = lvl + 1
  /\ v' = [v EXCEPT ![lvl + 1] = Increment(lvl + 1)]
  /\ UNCHANGED <<nest, pc, owner>>

Exit ==
  /\ pc = "head" /\ ~ Test(lvl) /\ lvl = Rank
  /\ pc' = "done"
  /\ UNCHANGED <<nest, lvl, v, owner>>

Next == Start \/ Descend \/ Body \/ Ascend \/ Exit

Spec == Init /\ [][Next]_vars

\* One thread executes the nest.
FairSpec == Spec /\ WF_vars(Next)

------------------------------------------------------------------------------
Executed == {o.by : o \in owner}

TypeOK ==
  /\ nest \in Loops
  /\ pc \in {"start", "head", "done"}
  /\ lvl \in Dims
  /\ v \in [Dims -> Int]
  /\ \A o \in owner : o.at = Linear(o.by)

\* A nest without steps runs, in the end, the iterations of the DO statements
\* that are at no upper bound, and never another.
RunsBelowUpperBounds ==
  (\A d \in Dims : nest[d].step = NoStep) =>
    LET below == {x \in Iterations(nest) : \A d \in Dims : x[d] < nest[d].ub} IN
    /\ Executed \subseteq below
    /\ pc = "done" => Executed = below

\* Iterations of a nest without steps store different locations, although the
\* factor of a dimension (lo:hi) is one short of its length: the loops stop
\* one short as well.
StoresDistinct ==
  (\A d \in Dims : nest[d].step = NoStep) =>
    \A o, p \in owner : o.at = p.at => o.by = p.by

\* A nest without steps ends.
UnitStepEnds == (\A d \in Dims : nest[d].step = NoStep) ~> pc = "done"

\* visitFortranDo: "add increment as a statement to the loop body".  With the
\* increment of the DO statement the translated nest ends too.
StepEnds == (\A d \in Dims : nest[d].step # NoStep) ~> pc = "done"
==============================================================================
