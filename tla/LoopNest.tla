------------------------------- MODULE LoopNest -------------------------------
(***************************************************************************)
(* Execution of the canonical loop nest of the intermediate representation *)
(* (IRTranslator::visitFortranDo, interpret.py): every loop is             *)
(*     v = min; while (v < max) { body; v = v + 1 }                        *)
(* A candidate summary gen is fixed for the whole run.                     *)
(***************************************************************************)
EXTENDS VCGen

CONSTANTS
  Candidates,  \* the candidates considered
  Junk,        \* what a loop variable may hold before it is initialised
  Out0         \* contents of the output arrays before the nest runs

ASSUME RunAssumption ==
  /\ Candidates \subseteq Gens
  /\ Junk \subseteq Int
  /\ Out0 \in Stores

\* The candidates that satisfy every verification condition.
Accepted == {g \in Candidates : SketchAccepts(g)}

VARIABLES
  pc,   \* "start", "head" (about to test loop lvl) or "done"
  lvl,  \* the loop whose test comes next
  i,    \* the loop variables
  out,  \* the output arrays
  gen,  \* the candidate
  ok    \* does the candidate satisfy every verification condition?

vars == <<pc, lvl, i, out, gen, ok>>

Init ==
  /\ pc = "start"
  /\ lvl = 1
  /\ out = Out0
  /\ gen \in Candidates
  /\ ok = (gen \in Accepted)
  /\ i \in [Dims -> Junk]

\* The initialisation in front of the outermost loop.
Start ==
  /\ pc = "start"
  /\ pc' = "head"
  /\ i' = Set(i, 1, Lo[1])
  /\ UNCHANGED <<lvl, out, gen, ok>>

\* Mutant: the inner loop variable keeps the value its last run left in it.
DescendNoReset ==
  /\ pc = "head" /\ lvl < Depth
  /\ i[lvl] < Hi[lvl]
  /\ lvl' = lvl + 1
  /\ UNCHANGED <<pc, i, out, gen, ok>>

\* The test of a loop that contains another succeeds: initialise the inner one.
Descend ==
  /\ pc = "head" /\ lvl < Depth
  /\ i[lvl] < Hi[lvl]
  /\ lvl' = lvl + 1
  /\ i' = Set(i, lvl + 1, Lo[lvl + 1])
  /\ UNCHANGED <<pc, out, gen, ok>>

\* Mutant: Fortran's inclusive bound.
BodyInclusive ==
  /\ pc = "head" /\ lvl = Depth
  /\ i[Depth] <= Hi[Depth]
  /\ out' = Assign(i, out)
  /\ i' = Set(i, Depth, i[Depth] + 1)
  /\ UNCHANGED <<pc, lvl, gen, ok>>

\* The innermost test succeeds: the assignments, then the increment.
Body ==
  /\ pc = "head" /\ lvl = Depth
  /\ i[Depth] < Hi[Depth]
  /\ out' = Assign(i, out)
  /\ i' = Set(i, Depth, i[Depth] + 1)
  /\ UNCHANGED <<pc, lvl, gen, ok>>

\* Mutant: the enclosing loop is not incremented.
AscendNoIncrement ==
  /\ pc = "head" /\ lvl > 1
  /\ ~ (i[lvl] < Hi[lvl])
  /\ lvl' = lvl - 1
  /\ UNCHANGED <<pc, i, out, gen, ok>>

\* Mutant: the end of an inner loop also ends the one around it.
AscendTwoLevels ==
  /\ pc = "head" /\ lvl > 1
  /\ ~ (i[lvl] < Hi[lvl])
  /\ lvl' = lvl - 2
  /\ i' = Set(i, lvl - 1, i[lvl - 1] + 1)
  /\ UNCHANGED <<pc, out, gen, ok>>

\* The test of an inner loop fails: increment the loop around it.
Ascend ==
  /\ pc = "head" /\ lvl > 1
  /\ ~ (i[lvl] < Hi[lvl])
  /\ lvl' = lvl - 1
  /\ i' = Set(i, lvl - 1, i[lvl - 1] + 1)
  /\ UNCHANGED <<pc, out, gen, ok>>

\* The outermost test fails.
Exit ==
  /\ pc = "head" /\ lvl = 1
  /\ ~ (i[1] < Hi[1])
  /\ pc' = "done"
  /\ UNCHANGED <<lvl, i, out, gen, ok>>

Next == Start \/ Descend \/ Body \/ Ascend \/ Exit

Spec == Init /\ [][Next]_vars

\* One thread runs the nest and nothing else competes with it.
FairSpec == Spec /\ WF_vars(Next)

------------------------------------------------------------------------------
TypeOK ==
  /\ pc \in {"start", "head", "done"}
  /\ lvl \in Dims
  /\ i \in [Dims -> Int]
  /\ out \in Stores
  /\ gen \in Candidates
  /\ ok \in BOOLEAN

\* The loop ranges that I_l takes as a hypothesis and that no I_l__2 ever
\* establishes hold whenever a loop head is reached, for the loops entered.
RangesHold ==
  pc = "head" => \A d \in 1..lvl : Lo[d] <= i[d] /\ i[d] <= Hi[d]

\* An accepted candidate's invariants hold at every loop head, including the
\* first arrivals, where the enclosed variables are uninitialised and the
\* hypothesis form I_l is false (1.mako, SketchGenerator.generate).
HeadInvariant ==
  pc = "head" /\ ok => \A p \in Points : Inv2(gen, lvl, i, out, p)

\* What the synthesizer is for: a candidate that satisfies every verification
\* condition is what the nest computes, at every point of the region.
AcceptedIsCorrect ==
  pc = "done" /\ ok => \A p \in Points : Postcondition(gen, out, p)

\* The postcondition says nothing of the locations the nest does not compute;
\* the generated code leaves them alone because the nest does.
Frame ==
  \A o \in Outs, x \in Locs :
    (\A p \in Region : Idx[o][p] # x) => out[o][x] = Out0[o][x]

\* The nest ends.
Termination == <>(pc = "done")

\* What the generated code promises: the candidate's values appear in one step.
Lifted == INSTANCE Summary WITH
  done <- pc = "done",
  res  <- IF pc = "done" THEN out ELSE Out0,
  fn   <- gen[0],
  accepted <- ok

ImplementsSummary == Lifted!Spec
==============================================================================
