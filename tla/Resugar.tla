------------------------------- MODULE Resugar -------------------------------
(* IndexResugar.resugar (backend_halide.py): from the location of an element  *)
(* in the representation back to subscripts. It tries small offsets one after *)
(* the other: first "every loop variable plus its offset", then, for one loop *)
(* variable after the other, "its offset alone, the other variables           *)
(* themselves", which is also compared with the loop variables in reverse.    *)
(* Loop variables are numbered from the outermost one. Arrays have as many    *)
(* dimensions as there are loops.                                             *)
EXTENDS Integers, Sequences, FiniteSetsExt

CONSTANTS Orders,    \* loop nests: the loop variable of each dimension
          Offsets,   \* what may be added to a variable in a read
          Stride     \* the stride of each dimension

ASSUME ResugarAssumption ==
  /\ \A o \in Orders : /\ Len(o) \in 1..Len(Stride) /\ o \in [1..Len(o) -> 1..Len(o)]
                        /\ \A i \in 1..Len(o) : \E d \in 1..Len(o) : o[d] = i
  /\ Offsets \subseteq Int
  /\ \A d \in 1..Len(Stride) : Stride[d] \in Nat \ {0}
  /\ Stride[1] = 1

VARIABLES order, read,   \* the loop nest; the subscripts of the element looked for
          pt,            \* the offsets tried, one for each loop variable
          which,         \* 0 in the first phase, then the variable left out
          expr, rev,     \* e and rev_e of the second phase
          outcome, answer, reverse   \* reverse is should_reverse

resugarVars == <<order, read, pt, which, expr, rev, outcome, answer, reverse>>

Depth == Len(order)
Vars == 1..Depth

\* A subscript is a loop variable plus an offset, or the offset alone (var = 0).
\* An expression has a coefficient for each loop variable and a constant at 0.
Subscripts == [var : 0..Depth, off : Offsets]
Var(i, p) == [var |-> i, off |-> p]
Own == [d \in Vars |-> Var(order[d], 0)]

\* e with a subscript in place of each variable.
Subst(e, subs) ==
  LET from[i \in Vars] ==
        [j \in 0..Depth |->
           (IF i = 1 THEN (IF j = 0 THEN e[0] ELSE 0) ELSE from[i - 1][j])
             + e[i] * (IF j = 0 THEN subs[i].off ELSE IF subs[i].var = j THEN 1 ELSE 0)]
  IN from[Depth]

\* The location of an element, and the index function of the array.
Location(subs) == Subst([d \in 0..Depth |-> IF d = 0 THEN 0 ELSE Stride[d]], subs)
Index == Location(Own)

\* Mutant: subscripts stay in the order of the loops.
NeedToRevNever == FALSE

\* need_to_rev: plus1 is base with variables set to 1 once more, if there is
\* more than one.
NeedToRev ==
  LET base == Subst(Index, [i \in Vars |-> Var(0, 1)])[0]
      plus1 == IF Depth = 1 THEN Subst(Index, [i \in Vars |-> Var(0, 2)])[0] ELSE base
  IN plus1 # base + 1

Candidate == -2..1

ResugarInit ==
  /\ order \in Orders
  /\ read \in [Vars -> Subscripts]
  /\ pt = [i \in Vars |-> -2]
  /\ which = 0
  /\ expr = Index /\ rev = Index
  /\ outcome = "looking" /\ answer = <<>> /\ reverse = FALSE

-----------------------------------------------------------------------------

Find(subs, r) ==
  /\ outcome' = "found" /\ answer' = subs /\ reverse' = r
  /\ UNCHANGED <<order, read, pt, which, expr, rev>>

Reversed(s) == [d \in Vars |-> s[Depth + 1 - d]]

\* Mutant: the offset is taken off the variable.
ShiftedBack == [i \in Vars |-> Var(i, -pt[i])]

\* The first phase.
Shifted == [i \in Vars |-> Var(i, pt[i])]

FindShifted ==
  /\ outcome = "looking" /\ which = 0 /\ Subst(Index, Shifted) = Location(read)
  /\ Find(IF NeedToRev THEN Reversed(Shifted) ELSE Shifted, NeedToRev)

GiveUpShifted ==
  /\ outcome = "looking" /\ which = 0 /\ Subst(Index, Shifted) # Location(read)
  /\ which' = 1
  /\ expr' = Index /\ rev' = Index
  /\ UNCHANGED <<order, read, pt, outcome, answer, reverse>>

\* The second phase. What was substituted for one variable stays substituted
\* when it is the next one's turn.
Fixed == [i \in Vars |-> IF i = which THEN Var(0, pt[i]) ELSE Var(i, 0)]
FixedExpr == Subst(expr, Fixed)
FixedRev == Subst(rev, Reversed(Fixed))

FindFixed ==
  /\ outcome = "looking" /\ which # 0
  /\ \/ FixedExpr = Location(read) /\ Find(Fixed, FALSE)
     \/ FixedExpr # Location(read) /\ FixedRev = Location(read) /\ Find(Fixed, TRUE)

\* Mutant: only the last variable's offset changes.
FollowingLast == [pt EXCEPT ![Depth] = IF @ = 1 THEN -2 ELSE @ + 1]

\* Mutant: the first variable's offset changes, past the last one.
FollowingFirst == [pt EXCEPT ![1] = @ + 1]

\* The next offsets, in itertools.product's order: the last one changes first.
Following ==
  LET i == Max({j \in Vars : pt[j] # 1})
  IN [j \in Vars |-> IF j < i THEN pt[j] ELSE IF j = i THEN pt[j] + 1 ELSE -2]

GiveUpFixed ==
  /\ outcome = "looking" /\ which # 0 /\ Location(read) \notin {FixedExpr, FixedRev}
  /\ expr' = FixedExpr /\ rev' = FixedRev
  /\ \/ which < Depth /\ which' = which + 1 /\ UNCHANGED <<pt, outcome>>
     \/ which = Depth /\ which' = 0 /\ (\E i \in Vars : pt[i] # 1)
          /\ pt' = Following /\ UNCHANGED outcome
     \/ which = Depth /\ which' = 0 /\ (\A i \in Vars : pt[i] = 1)
          /\ outcome' = "none" /\ UNCHANGED pt
  /\ UNCHANGED <<order, read, answer, reverse>>

ResugarNext == FindShifted \/ GiveUpShifted \/ FindFixed \/ GiveUpFixed

-----------------------------------------------------------------------------
\* Properties.

ResugarTypeOK ==
  /\ read \in [Vars -> Subscripts]
  /\ pt \in [Vars -> Candidate] /\ which \in 0..Depth
  /\ expr \in [0..Depth -> Int] /\ rev \in [0..Depth -> Int]
  /\ outcome \in {"looking", "found", "none"} /\ reverse \in BOOLEAN
  /\ outcome = "found" => answer \in [Vars -> [var : 0..Depth, off : Candidate]]

\* The outermost loop runs over the last dimension.
ColumnMajor == order = [d \in Vars |-> Depth + 1 - d]

\* The loop variables of the output, each plus an offset.
IsShift == \A d \in Vars : read[d].var = order[d]

\* In a nest whose outermost loop runs over the last dimension, the subscripts
\* found for a neighbour, or in a single loop for any element, are its own, in
\* the order of the dimensions; which is also that of the kernel's variables if
\* it reverses them when told to. Several offsets and two phases may give the
\* same location, and the first one that does is taken.
FoundIsRight ==
  outcome = "found" /\ ColumnMajor /\ (IsShift \/ Depth = 1) =>
    answer = read /\ (reverse <=> Depth > 1)

\* Nothing is found only for offsets that are not tried.
NoneOnlyOutside ==
  outcome = "none" /\ IsShift => \E d \in Vars : read[d].off \notin Candidate
=============================================================================
