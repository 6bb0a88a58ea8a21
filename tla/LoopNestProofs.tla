---------------------------- MODULE LoopNestProofs ----------------------------
(***************************************************************************)
(* Theorems about LoopNest, for one loop and for a loop in a loop, every   *)
(* bounds more than one apart, every body, every candidate and every way   *)
(* of mapping iterations to locations, injective or not.                   *)
(***************************************************************************)
EXTENDS Z3Nest, TLAPS

\* Loop variables that agree with j on the loops entered and are in range
\* everywhere: the valuation at which a condition about j is instantiated.
Clamp(j, l) == [d \in Dims |-> IF d <= l THEN j[d] ELSE Lo[d]]

\* The enclosing loops of the one being tested are in the middle of a pass.
Entered == pc = "head" => \A d \in 1..(lvl - 1) : i[d] < Hi[d]

StartsOutermost == pc = "start" => lvl = 1

IInv ==
  /\ TypeOK
  /\ StartsOutermost
  /\ ok = SketchAccepts(gen)
  /\ RangesHold
  /\ Entered
  /\ HeadInvariant
  /\ AcceptedIsCorrect

------------------------------------------------------------------------------
(* A valuation in range is one of Points. *)
LEMMA InRangePoints ==
  ASSUME NEW j \in [Dims -> Int], InRange(j)
  PROVE  j \in Points
<1>1. \A d \in Dims : j[d] \in UNION {Lo[e]..Hi[e] : e \in Dims}
  <2> TAKE d \in Dims
  <2>1. Lo[d] \in Int /\ Hi[d] \in Int /\ j[d] \in Int
    BY NestAssumption
  <2>2. j[d] \in Lo[d]..Hi[d]
    BY <2>1 DEF InRange
  <2> QED BY <2>2
<1>2. j \in [Dims -> UNION {Lo[e]..Hi[e] : e \in Dims}]
  BY <1>1
<1> QED BY <1>2 DEF Points, InRange

(* Conversely, Points are valuations in range. *)
LEMMA PointsInRange ==
  ASSUME NEW j \in Points
  PROVE  j \in [Dims -> Int] /\ InRange(j)
<1>1. j \in [Dims -> UNION {Lo[e]..Hi[e] : e \in Dims}]
  BY DEF Points
<1>2. \A e \in Dims : Lo[e]..Hi[e] \subseteq Int
  BY NestAssumption
<1>3. UNION {Lo[e]..Hi[e] : e \in Dims} \subseteq Int
  BY <1>2
<1> QED BY <1>1, <1>3 DEF Points, InRange

(* The invariant of loop l does not look at the variables of enclosed loops. *)
LEMMA BoxLocal ==
  ASSUME NEW j \in [Dims -> Int], NEW k \in [Dims -> Int], NEW l \in Dims,
         \A d \in 1..l : j[d] = k[d]
  PROVE  Box(l, j) = Box(l, k)
<1>1. \A d \in Dims : d <= l => j[d] = k[d]
  BY DEF Dims
<1>2. l \in Int /\ \A d \in Dims : d \in Int
  BY DEF Dims
<1> QED BY <1>1, <1>2 DEF Box

LEMMA Inv2Local ==
  ASSUME NEW j \in [Dims -> Int], NEW k \in [Dims -> Int], NEW l \in Dims,
         \A d \in 1..l : j[d] = k[d],
         NEW g, NEW s, NEW p, Inv2(g, l, j, s, p)
  PROVE  Inv2(g, l, k, s, p)
<1>1. ASSUME NEW d \in 1..l, p \in Box(d, k)
      PROVE  Matches(g[d], s, p)
  <2>1. d \in Dims /\ 1..d \subseteq 1..l
    BY NestAssumption DEF Dims
  <2>2. Box(d, j) = Box(d, k)
    BY <2>1, BoxLocal
  <2> QED BY <1>1, <2>2 DEF Inv2
<1> QED BY <1>1 DEF Inv2

(* In range, the two forms of an invariant say the same: I_l holds exactly    *)
(* when I_l__2 holds at every point.                                          *)
LEMMA FormsAgree ==
  ASSUME NEW g, NEW l \in Dims, NEW j, NEW s, InRange(j)
  PROVE  Inv(g, l, j, s) <=> \A p \in Points : Inv2(g, l, j, s, p)
BY DEF Inv, Inv2, Box

(* The clamped valuation is in range and agrees with j on the entered loops. *)
LEMMA ClampInRange ==
  ASSUME NEW j \in [Dims -> Int], NEW l \in Dims,
         \A d \in 1..l : Lo[d] <= j[d] /\ j[d] <= Hi[d]
  PROVE  /\ Clamp(j, l) \in Points
         /\ InRange(Clamp(j, l))
         /\ \A d \in 1..l : d \in Dims /\ Clamp(j, l)[d] = j[d]
<1>1. Clamp(j, l) \in [Dims -> Int]
  BY NestAssumption DEF Clamp
<1>2. \A d \in Dims : Lo[d] \in Int /\ Hi[d] \in Int /\ Lo[d] <= Hi[d]
  BY NestAssumption
<1>3. \A d \in 1..l : d \in Dims /\ Clamp(j, l)[d] = j[d]
  BY NestAssumption DEF Clamp, Dims
<1>4. InRange(Clamp(j, l))
  <2> SUFFICES ASSUME NEW d \in Dims
               PROVE  Lo[d] <= Clamp(j, l)[d] /\ Clamp(j, l)[d] <= Hi[d]
    BY DEF InRange
  <2>1. CASE d <= l
    <3>1. d \in 1..l
      BY <2>1 DEF Dims
    <3> QED BY <3>1, <1>3
  <2>2. CASE ~ (d <= l)
    <3>1. Clamp(j, l)[d] = Lo[d]
      BY <2>2 DEF Clamp
    <3> QED BY <3>1, <1>2
  <2> QED BY <2>1, <2>2
<1> QED BY <1>1, <1>3, <1>4, InRangePoints

(* At a loop head, the hypothesis form holds of the clamped valuation. *)
LEMMA ClampInv ==
  ASSUME NEW g, NEW s, NEW j \in [Dims -> Int], NEW l \in Dims,
         \A d \in 1..l : Lo[d] <= j[d] /\ j[d] <= Hi[d],
         \A p \in Points : Inv2(g, l, j, s, p)
  PROVE  Inv(g, l, Clamp(j, l), s)
<1>1. /\ Clamp(j, l) \in Points
      /\ InRange(Clamp(j, l))
      /\ \A d \in 1..l : Clamp(j, l)[d] = j[d]
  BY ClampInRange
<1>2. Clamp(j, l) \in [Dims -> Int]
  BY <1>1, PointsInRange
<1>3. \A p \in Points : Inv2(g, l, Clamp(j, l), s, p)
  BY <1>1, <1>2, Inv2Local
<1> QED BY <1>1, <1>3, FormsAgree

------------------------------------------------------------------------------
(* Conditions for all valuations in range, stores and points, at one of each. *)
LEMMA AcceptedVCs ==
  ASSUME NEW g, SketchAccepts(g), NEW j \in Points, NEW s \in Stores, NEW p \in Points
  PROVE  /\ EntryVC(g, j, s, p)
         /\ \A l \in 1..(Depth - 1) : DescendVC(g, l, j, s, p)
         /\ BodyVC(g, j, s, p)
         /\ \A l \in 2..Depth : AscendVC(g, l, j, s, p)
         /\ ExitVC(g, j, s, p)
BY DEF SketchAccepts

(* The assignments of the body keep the arrays what they are. *)
LEMMA AssignType ==
  ASSUME NEW j \in Points, NEW s \in Stores
  PROVE  Assign(j, s) \in Stores
<1>1. \A o \in Outs : Idx[o][j] \in Locs /\ Rhs[o][j] \in Val
  BY NestAssumption
<1> QED BY <1>1 DEF Assign, Stores

LEMMA InitIInv == Init => IInv
<1> SUFFICES ASSUME Init PROVE IInv
  OBVIOUS
<1> USE DEF Init
<1>1. TypeOK
  <2>1. 1 \in Dims
    BY NestAssumption DEF Dims
  <2>2. ok \in BOOLEAN
    OBVIOUS
  <2>3. i \in [Dims -> Int]
    BY RunAssumption
  <2> QED BY <2>1, <2>2, <2>3, RunAssumption DEF TypeOK
<1>2. StartsOutermost /\ RangesHold /\ Entered /\ HeadInvariant /\ AcceptedIsCorrect
  BY DEF StartsOutermost, RangesHold, Entered, HeadInvariant, AcceptedIsCorrect
<1>3. ok = SketchAccepts(gen)
  <2>1. SketchAccepts(gen) \in BOOLEAN
    BY DEF SketchAccepts
  <2> QED BY <2>1 DEF Accepted
<1> QED BY <1>1, <1>2, <1>3 DEF IInv

(* The parts of IInv that a step to a loop head has to re-establish. *)
LEMMA HeadStep ==
  ASSUME IInv, pc' = "head", lvl' \in Dims, i' \in [Dims -> Int], out' \in Stores,
         gen' = gen, ok' = ok,
         \A d \in 1..lvl' : Lo[d] <= i'[d] /\ i'[d] <= Hi[d],
         \A d \in 1..(lvl' - 1) : i'[d] < Hi[d],
         ok => \A p \in Points : Inv2(gen, lvl', i', out', p)
  PROVE  IInv'
<1>1. TypeOK'
  BY DEF IInv, TypeOK
<1>2. StartsOutermost' /\ RangesHold' /\ Entered' /\ AcceptedIsCorrect'
  BY DEF StartsOutermost, RangesHold, Entered, AcceptedIsCorrect
<1>3. HeadInvariant'
  BY DEF HeadInvariant
<1>4. (ok = SketchAccepts(gen))'
  BY DEF IInv
<1> QED BY <1>1, <1>2, <1>3, <1>4 DEF IInv

LEMMA BoundsFacts ==
  /\ Depth \in Nat \ {0}
  /\ 1 \in Dims /\ Depth \in Dims
  /\ \A d \in Dims : Lo[d] \in Int /\ Hi[d] \in Int /\ Lo[d] < Hi[d]
BY NestAssumption DEF Dims

(* The first initialisation establishes I_1: EntryVC. *)
LEMMA StartStep == IInv /\ Start => IInv'
<1> SUFFICES ASSUME IInv, Start PROVE IInv'
  OBVIOUS
<1>1. /\ pc' = "head" /\ lvl' = 1 /\ out' = out /\ gen' = gen /\ ok' = ok
      /\ i' = Set(i, 1, Lo[1]) /\ out \in Stores /\ i \in [Dims -> Int]
  BY DEF IInv, TypeOK, StartsOutermost, Start
<1>2. i' \in [Dims -> Int] /\ i'[1] = Lo[1]
  BY <1>1, BoundsFacts DEF Set
<1>3. \A d \in 1..1 : Lo[d] <= i'[d] /\ i'[d] <= Hi[d]
  BY <1>2, BoundsFacts
<1>4. ASSUME ok, NEW p \in Points
      PROVE  Inv2(gen, 1, i', out, p)
  <2> DEFINE c == Clamp(i', 1)
  <2>1. c \in Points /\ c \in [Dims -> Int] /\ c[1] = Lo[1]
    BY <1>2, <1>3, BoundsFacts, ClampInRange, PointsInRange
  <2>2. EntryVC(gen, c, out, p)
    BY <1>1, <1>4, <2>1, AcceptedVCs DEF IInv
  <2>3. Inv2(gen, 1, Set(c, 1, Lo[1]), out, p)
    BY <2>2 DEF EntryVC
  <2>4. /\ Set(c, 1, Lo[1]) \in [Dims -> Int]
        /\ \A d \in 1..1 : Set(c, 1, Lo[1])[d] = i'[d]
    BY <1>2, <2>1, BoundsFacts DEF Set
  <2> HIDE DEF c
  <2> QED BY <1>2, <2>3, <2>4, BoundsFacts, Inv2Local
<1>5. \A d \in 1..(lvl' - 1) : i'[d] < Hi[d]
  BY <1>1
<1> QED BY <1>1, <1>2, <1>3, <1>4, <1>5, BoundsFacts, HeadStep

(* A successful test that enters the next loop: DescendVC at the clamped       *)
(* valuation, since the hypothesis is false while inner variables are junk.    *)
LEMMA DescendStep == IInv /\ Descend => IInv'
<1> SUFFICES ASSUME IInv, Descend PROVE IInv'
  OBVIOUS
<1> DEFINE n == lvl + 1
           c == Clamp(i, lvl)
<1>1. /\ pc = "head" /\ lvl < Depth /\ i[lvl] < Hi[lvl]
      /\ pc' = "head" /\ lvl' = n /\ out' = out /\ gen' = gen /\ ok' = ok
      /\ i' = Set(i, n, Lo[n])
      /\ out \in Stores /\ i \in [Dims -> Int] /\ lvl \in Dims
      /\ \A d \in 1..lvl : Lo[d] <= i[d] /\ i[d] <= Hi[d]
      /\ \A d \in 1..(lvl - 1) : i[d] < Hi[d]
  BY DEF IInv, TypeOK, RangesHold, Entered, Descend
<1>2. lvl \in 1..(Depth - 1) /\ n \in Dims /\ n \in Nat /\ lvl \in Nat
  BY <1>1, BoundsFacts DEF Dims
<1>3. /\ i' \in [Dims -> Int] /\ i'[n] = Lo[n]
      /\ \A d \in 1..lvl : d \in Dims /\ i'[d] = i[d]
  BY <1>1, <1>2, BoundsFacts DEF Set, Dims
<1>4. \A d \in 1..n : Lo[d] <= i'[d] /\ i'[d] <= Hi[d]
  BY <1>1, <1>2, <1>3, BoundsFacts
<1>5. \A d \in 1..(n - 1) : i'[d] < Hi[d]
  BY <1>1, <1>2, <1>3
<1>6. ASSUME ok, NEW p \in Points
      PROVE  Inv2(gen, n, i', out, p)
  <2>1. /\ c \in Points
        /\ \A d \in 1..lvl : c[d] = i[d]
    BY <1>1, ClampInRange
  <2>2. Inv(gen, lvl, c, out)
    BY <1>1, <1>6, ClampInv DEF IInv, HeadInvariant
  <2>3. DescendVC(gen, lvl, c, out, p)
    BY <1>1, <1>2, <1>6, <2>1, AcceptedVCs DEF IInv
  <2>4. c[lvl] < Hi[lvl]
    BY <1>1, <1>2, <2>1
  <2>5. Inv2(gen, n, Set(c, n, Lo[n]), out, p)
    BY <2>2, <2>3, <2>4 DEF DescendVC
  <2>6. c \in [Dims -> Int]
    BY <2>1, PointsInRange
  <2> HIDE DEF c
  <2>7. /\ Set(c, n, Lo[n]) \in [Dims -> Int]
        /\ \A d \in 1..n : Set(c, n, Lo[n])[d] = i'[d]
    BY <1>2, <1>3, <2>1, <2>6, BoundsFacts DEF Set
  <2> QED BY <1>2, <1>3, <2>5, <2>7, Inv2Local
<1> HIDE DEF n
<1> QED BY <1>1, <1>2, <1>3, <1>4, <1>5, <1>6, HeadStep

(* One iteration of the innermost loop: BodyVC. *)
LEMMA BodyStep == IInv /\ Body => IInv'
<1> SUFFICES ASSUME IInv, Body PROVE IInv'
  OBVIOUS
<1>1. /\ pc = "head" /\ lvl = Depth /\ i[Depth] < Hi[Depth]
      /\ pc' = "head" /\ lvl' = Depth /\ out' = Assign(i, out) /\ gen' = gen /\ ok' = ok
      /\ i' = Set(i, Depth, i[Depth] + 1)
      /\ out \in Stores /\ i \in [Dims -> Int]
      /\ \A d \in 1..Depth : Lo[d] <= i[d] /\ i[d] <= Hi[d]
      /\ \A d \in 1..(Depth - 1) : i[d] < Hi[d]
  BY DEF IInv, TypeOK, RangesHold, Entered, Body
<1>2. InRange(i) /\ i \in Points
  BY <1>1, InRangePoints DEF InRange, Dims
<1>3. /\ i' \in [Dims -> Int] /\ i'[Depth] = i[Depth] + 1
      /\ \A d \in 1..(Depth - 1) : i'[d] = i[d]
  BY <1>1, BoundsFacts DEF Set, Dims
<1>4. \A d \in 1..Depth : Lo[d] <= i'[d] /\ i'[d] <= Hi[d]
  <2> SUFFICES ASSUME NEW d \in 1..Depth PROVE Lo[d] <= i'[d] /\ i'[d] <= Hi[d]
    OBVIOUS
  <2>1. i[d] \in Int /\ Lo[d] \in Int /\ Hi[d] \in Int
    BY <1>1, BoundsFacts DEF Dims
  <2>2. CASE d = Depth
    BY <2>1, <2>2, <1>1, <1>3
  <2>3. CASE d # Depth
    BY <2>3, <1>1, <1>3, BoundsFacts
  <2> QED BY <2>2, <2>3
<1>5. \A d \in 1..(Depth - 1) : i'[d] < Hi[d]
  BY <1>1, <1>3
<1>6. ASSUME ok, NEW p \in Points
      PROVE  Inv2(gen, Depth, i', out', p)
  <2>1. Inv(gen, Depth, i, out)
    BY <1>1, <1>2, <1>6, BoundsFacts, FormsAgree DEF IInv, HeadInvariant
  <2>2. BodyVC(gen, i, out, p)
    BY <1>1, <1>2, <1>6, AcceptedVCs DEF IInv
  <2> QED BY <1>1, <2>1, <2>2 DEF BodyVC
<1>7. out' \in Stores
  BY <1>1, <1>2, AssignType
<1> QED BY <1>1, <1>3, <1>4, <1>5, <1>6, <1>7, BoundsFacts, HeadStep

(* Leaving an inner loop: AscendVC at the clamped valuation. *)
LEMMA AscendStep == IInv /\ Ascend => IInv'
<1> SUFFICES ASSUME IInv, Ascend PROVE IInv'
  OBVIOUS
<1> DEFINE m == lvl - 1
           c == Clamp(i, lvl)
<1>1. /\ pc = "head" /\ lvl > 1 /\ ~ (i[lvl] < Hi[lvl])
      /\ pc' = "head" /\ lvl' = m /\ out' = out /\ gen' = gen /\ ok' = ok
      /\ i' = Set(i, m, i[m] + 1)
      /\ out \in Stores /\ i \in [Dims -> Int] /\ lvl \in Dims
      /\ \A d \in 1..lvl : Lo[d] <= i[d] /\ i[d] <= Hi[d]
      /\ \A d \in 1..(lvl - 1) : i[d] < Hi[d]
  BY DEF IInv, TypeOK, RangesHold, Entered, Ascend
<1>2. lvl \in 2..Depth /\ m \in Dims /\ m \in Nat /\ lvl \in Nat /\ m \in 1..(lvl - 1)
  BY <1>1, BoundsFacts DEF Dims
<1>3. /\ i' \in [Dims -> Int] /\ i'[m] = i[m] + 1
      /\ \A d \in 1..(m - 1) : d \in Dims /\ i'[d] = i[d]
  BY <1>1, <1>2, BoundsFacts DEF Set, Dims
<1>4. \A d \in 1..m : Lo[d] <= i'[d] /\ i'[d] <= Hi[d]
  <2> SUFFICES ASSUME NEW d \in 1..m PROVE Lo[d] <= i'[d] /\ i'[d] <= Hi[d]
    OBVIOUS
  <2>1. i[d] \in Int /\ Lo[d] \in Int /\ Hi[d] \in Int
    BY <1>1, <1>2, BoundsFacts DEF Dims
  <2>2. CASE d = m
    BY <2>1, <2>2, <1>1, <1>2, <1>3
  <2>3. CASE d # m
    BY <2>3, <1>1, <1>2, <1>3
  <2> QED BY <2>2, <2>3
<1>5. \A d \in 1..(m - 1) : i'[d] < Hi[d]
  BY <1>1, <1>2, <1>3
<1>6. ASSUME ok, NEW p \in Points
      PROVE  Inv2(gen, m, i', out, p)
  <2>1. /\ c \in Points
        /\ \A d \in 1..lvl : c[d] = i[d]
    BY <1>1, ClampInRange
  <2>2. Inv(gen, lvl, c, out)
    BY <1>1, <1>6, ClampInv DEF IInv, HeadInvariant
  <2>3. AscendVC(gen, lvl, c, out, p)
    BY <1>1, <1>2, <1>6, <2>1, AcceptedVCs DEF IInv
  <2>4. ~ (c[lvl] < Hi[lvl])
    BY <1>1, <1>2, <2>1
  <2>5. Inv2(gen, m, Set(c, m, c[m] + 1), out, p)
    BY <2>2, <2>3, <2>4 DEF AscendVC
  <2>6. c \in [Dims -> Int]
    BY <2>1, PointsInRange
  <2> HIDE DEF c
  <2>7. /\ Set(c, m, c[m] + 1) \in [Dims -> Int]
        /\ \A d \in 1..m : Set(c, m, c[m] + 1)[d] = i'[d]
    BY <1>2, <1>3, <2>1, <2>6, BoundsFacts DEF Set
  <2> QED BY <1>2, <1>3, <2>5, <2>7, Inv2Local
<1> HIDE DEF m
<1> QED BY <1>1, <1>2, <1>3, <1>4, <1>5, <1>6, HeadStep

(* Leaving the outermost loop: ExitVC at the clamped valuation. *)
LEMMA ExitStep == IInv /\ Exit => IInv'
<1> SUFFICES ASSUME IInv, Exit PROVE IInv'
  OBVIOUS
<1> DEFINE c == Clamp(i, 1)
<1>1. /\ pc = "head" /\ lvl = 1 /\ ~ (i[1] < Hi[1])
      /\ pc' = "done" /\ lvl' = lvl /\ i' = i /\ out' = out /\ gen' = gen /\ ok' = ok
      /\ out \in Stores /\ i \in [Dims -> Int]
      /\ \A d \in 1..1 : Lo[d] <= i[d] /\ i[d] <= Hi[d]
  BY DEF IInv, TypeOK, RangesHold, Exit
<1>2. TypeOK' /\ StartsOutermost' /\ RangesHold' /\ Entered' /\ HeadInvariant'
  BY <1>1 DEF IInv, TypeOK, StartsOutermost, RangesHold, Entered, HeadInvariant
<1>3. ASSUME ok, NEW p \in Points
      PROVE  Postcondition(gen, out, p)
  <2>1. c \in Points /\ c[1] = i[1]
    BY <1>1, BoundsFacts, ClampInRange
  <2>2. Inv(gen, 1, c, out)
    BY <1>1, <1>3, BoundsFacts, ClampInv DEF IInv, HeadInvariant
  <2>3. ExitVC(gen, c, out, p)
    BY <1>1, <1>3, <2>1, AcceptedVCs DEF IInv
  <2> QED BY <1>1, <2>1, <2>2, <2>3 DEF ExitVC
<1>4. AcceptedIsCorrect'
  BY <1>1, <1>3 DEF AcceptedIsCorrect
<1>5. (ok = SketchAccepts(gen))'
  BY <1>1 DEF IInv
<1> QED BY <1>2, <1>4, <1>5 DEF IInv

(* IInv is inductive. *)
THEOREM Inductive == Spec => []IInv
<1>1. Init => IInv
  BY InitIInv
<1>2. IInv /\ [Next]_vars => IInv'
  <2> SUFFICES ASSUME IInv, [Next]_vars PROVE IInv'
    OBVIOUS
  <2>1. CASE Next
    BY <2>1, StartStep, DescendStep, BodyStep, AscendStep, ExitStep DEF Next
  <2>2. CASE UNCHANGED vars
    BY <2>2 DEF vars, IInv, TypeOK, StartsOutermost, RangesHold, Entered, HeadInvariant,
                AcceptedIsCorrect
  <2> QED BY <2>1, <2>2
<1> QED BY <1>1, <1>2, PTL DEF Spec

(* The variables hold values of their types, whatever the candidate.          *)
THEOREM Typing == Spec => []TypeOK
<1>1. IInv => TypeOK
  BY DEF IInv
<1> QED BY <1>1, Inductive, PTL

(* The ranges I_l assumes, which no condition establishes, hold at each head. *)
THEOREM Ranges == Spec => []RangesHold
<1>1. IInv => RangesHold
  BY DEF IInv
<1> QED BY <1>1, Inductive, PTL

(* The invariants of a candidate the sketch accepts hold at each loop head.   *)
THEOREM Heads == Spec => []HeadInvariant
<1>1. IInv => HeadInvariant
  BY DEF IInv
<1> QED BY <1>1, Inductive, PTL

(* A candidate the sketch accepts is what the nest computes: for one loop and *)
(* for two, the conditions of verify.py with its templates are sound.         *)
THEOREM Soundness == Spec => []AcceptedIsCorrect
<1>1. IInv => AcceptedIsCorrect
  BY DEF IInv
<1> QED BY <1>1, Inductive, PTL

------------------------------------------------------------------------------
(* The body runs at iterations of the nest only. *)
LEMMA BodyInRegion ==
  ASSUME IInv, Body
  PROVE  i \in Region
<1>1. /\ pc = "head" /\ lvl = Depth /\ i[Depth] < Hi[Depth]
      /\ i \in [Dims -> Int]
      /\ \A d \in 1..Depth : Lo[d] <= i[d] /\ i[d] <= Hi[d]
      /\ \A d \in 1..(Depth - 1) : i[d] < Hi[d]
  BY DEF IInv, TypeOK, RangesHold, Entered, Body
<1>2. i \in Points
  BY <1>1, InRangePoints DEF InRange, Dims
<1>3. \A d \in Dims : Lo[d] <= i[d] /\ i[d] < Hi[d]
  <2> TAKE d \in Dims
  <2>1. CASE d = Depth
    BY <1>1, <2>1, NestAssumption DEF Dims
  <2>2. CASE d # Depth
    BY <1>1, <2>2, NestAssumption DEF Dims
  <2> QED BY <2>1, <2>2
<1> QED BY <1>2, <1>3 DEF Region

(* A step of the nest stores into locations of the region only. *)
LEMMA FrameStep == IInv /\ Frame /\ [Next]_vars => Frame'
<1> SUFFICES ASSUME IInv, Frame, [Next]_vars PROVE Frame'
  OBVIOUS
<1>1. CASE Body
  <2> SUFFICES ASSUME NEW o \in Outs, NEW x \in Locs, \A p \in Region : Idx[o][p] # x
               PROVE  out'[o][x] = Out0[o][x]
    BY DEF Frame
  <2>1. out' = Assign(i, out) /\ out \in Stores
    BY <1>1 DEF Body, IInv, TypeOK
  <2>2. x # Idx[o][i]
    BY <1>1, BodyInRegion
  <2>3. out'[o][x] = out[o][x]
    BY <2>1, <2>2 DEF Assign, Stores
  <2> QED BY <2>3 DEF Frame
<1>2. CASE Start \/ Descend \/ Ascend \/ Exit \/ UNCHANGED vars
  BY <1>2 DEF Frame, Start, Descend, Ascend, Exit, vars
<1> QED BY <1>1, <1>2 DEF Next

(* The nest leaves every location outside its region alone.                   *)
THEOREM FrameHolds == Spec => []Frame
<1>1. Init => Frame
  BY DEF Init, Frame
<1> QED BY <1>1, Inductive, FrameStep, PTL DEF Spec

(* Replacing the nest by an accepted summary is a refinement: one step of     *)
(* Summary, taken when the nest exits.                                        *)
THEOREM Refines == Spec => ImplementsSummary
<1>1. Init => Lifted!Init
  BY DEF Init, Lifted!Init
<1>2. IInv /\ IInv' /\ Frame' /\ [Next]_vars => [Lifted!Apply]_(Lifted!vars)
  <2> SUFFICES ASSUME IInv, IInv', Frame', [Next]_vars
               PROVE  [Lifted!Apply]_(Lifted!vars)
    OBVIOUS
  <2>1. CASE Exit
    <3>1. pc = "head" /\ pc' = "done" /\ gen' = gen /\ ok' = ok
      BY <2>1 DEF Exit
    <3>2. out' \in [Outs -> [Locs -> Val]]
      BY DEF IInv, TypeOK, Stores
    <3>3. ok => \A o \in Outs, p \in Region : out'[o][Idx[o][p]] = gen[0][o][p]
      BY <3>1 DEF IInv, AcceptedIsCorrect, Postcondition, Matches, Region
    <3>4. Lifted!Apply
      BY <3>1, <3>2, <3>3 DEF Lifted!Apply, Frame
    <3> QED BY <3>4
  <2>2. CASE Start \/ Descend \/ Body \/ Ascend
    BY <2>2 DEF Start, Descend, Body, Ascend, Lifted!vars
  <2>3. CASE UNCHANGED vars
    BY <2>3 DEF vars, Lifted!vars
  <2> QED BY <2>1, <2>2, <2>3 DEF Next
<1> QED BY <1>1, <1>2, Inductive, FrameHolds, PTL DEF Spec, ImplementsSummary, Lifted!Spec

------------------------------------------------------------------------------
\* The script for Z3.

\* Every iteration has a location of its own, in every output array: what
\* DoNestProofs!NestStoresDistinct says of the locations IRTranslator computes.
LocationsDistinct ==
  \A o \in Outs : \A p, q \in Region : Idx[o][p] = Idx[o][q] => p = q

\* s with the candidate's values at the points I_l inspects.
Patched(g, l, j, s) ==
  [o \in Outs |-> [x \in Locs |->
     IF \E p \in Z3Box(l, j) : Idx[o][p] = x
     THEN g[l][o][CHOOSE p \in Z3Box(l, j) : Idx[o][p] = x]
     ELSE s[o][x]]]

LEMMA PatchedMatches ==
  ASSUME LocationsDistinct, NEW g \in Gens, NEW l \in Dims, NEW j, NEW s \in Stores
  PROVE  /\ Patched(g, l, j, s) \in Stores
         /\ \A p \in Z3Box(l, j) : Matches(g[l], Patched(g, l, j, s), p)
<1>1. Z3Box(l, j) \subseteq Region
  BY DEF Z3Box, Region
<1>2. l \in 0..Depth
  BY NestAssumption DEF Dims
<1>3. g[l] \in [Outs -> [Points -> Val]]
  BY <1>2 DEF Gens
<1> DEFINE B == Z3Box(l, j)
           at(o, x) == CHOOSE p \in B : Idx[o][p] = x
           new(o, x) == IF \E p \in B : Idx[o][p] = x THEN g[l][o][at(o, x)] ELSE s[o][x]
<1>4. B \subseteq Region /\ Region \subseteq Points
  BY <1>1 DEF Region
<1>5. Patched(g, l, j, s) = [o \in Outs |-> [x \in Locs |-> new(o, x)]]
  BY DEF Patched
<1> HIDE DEF B
<1>6. ASSUME NEW o \in Outs, NEW x \in Locs
      PROVE  new(o, x) \in Val
  <2>1. CASE \E p \in B : Idx[o][p] = x
    <3>1. at(o, x) \in Points
      BY <1>4, <2>1
    <3> HIDE DEF at
    <3> QED BY <1>3, <2>1, <3>1
  <2>2. CASE ~\E p \in B : Idx[o][p] = x
    BY <2>2 DEF Stores
  <2> QED BY <2>1, <2>2
<1>7. ASSUME NEW o \in Outs, NEW p \in B
      PROVE  Patched(g, l, j, s)[o][Idx[o][p]] = g[l][o][p]
  <2>1. p \in Region /\ Idx[o][p] \in Locs
    BY <1>4, NestAssumption
  <2>2. at(o, Idx[o][p]) \in B /\ Idx[o][at(o, Idx[o][p])] = Idx[o][p]
    OBVIOUS
  <2>3. at(o, Idx[o][p]) = p
    <3> HIDE DEF at
    <3> QED BY <1>4, <2>1, <2>2 DEF LocationsDistinct
  <2>4. new(o, Idx[o][p]) = g[l][o][p]
    BY <2>3
  <2> HIDE DEF new
  <2> QED BY <1>5, <2>1, <2>4
<1>8. Patched(g, l, j, s) \in Stores
  <2> HIDE DEF new
  <2> QED BY <1>5, <1>6 DEF Stores
<1> QED BY <1>7, <1>8 DEF Matches, B

(* One iteration of the innermost loop, for a candidate Z3 verifies: the       *)
(* condition of the body, at a memory that agrees with the nest's on the row   *)
(* and with the candidate on the rows before it.                               *)
LEMMA RowStep ==
  ASSUME LocationsDistinct, IInv, Body, Z3Verifies(gen), RowMatches
  PROVE  RowMatches'
<1>1. /\ pc = "head" /\ lvl = Depth /\ i[Depth] < Hi[Depth]
      /\ out' = Assign(i, out) /\ gen' = gen /\ i' = Set(i, Depth, i[Depth] + 1)
      /\ out \in Stores /\ i \in [Dims -> Int] /\ gen \in Gens
  BY RunAssumption DEF IInv, TypeOK, Body
<1>2. i \in Region /\ i \in Points
  BY BodyInRegion DEF Region
<1>3. i' \in [Dims -> Int] /\ i'[Depth] = i[Depth] + 1 /\ \A d \in Dims \ {Depth} : i'[d] = i[d]
  BY <1>1, BoundsFacts DEF Set
<1>4. \A d \in Dims : Lo[d] <= i[d] /\ i[d] < Hi[d] /\ i[d] \in Int /\ Lo[d] \in Int /\ Hi[d] \in Int
  BY <1>1, <1>2, BoundsFacts DEF Region
<1>5. ~Z3OutOfRange(Depth, i) /\ ~Z3OutOfRange(Depth, i')
  <2>1. ~(i[Depth] > Hi[Depth]) /\ ~(i'[Depth] > Hi[Depth])
    BY <1>3, <1>4, BoundsFacts
  <2>2. \A d \in Dims \ {Depth} : ~(i[d] >= Hi[d]) /\ ~(i'[d] >= Hi[d])
    BY <1>3, <1>4
  <2> QED BY <2>1, <2>2 DEF Z3OutOfRange
<1> DEFINE s == Patched(gen, Depth, i, out)
<1>6. s \in Stores /\ \A p \in Z3Box(Depth, i) : Matches(gen[Depth], s, p)
  BY <1>1, BoundsFacts, PatchedMatches
<1>7. Z3Inv(gen, Depth, i, s)
  BY <1>5, <1>6 DEF Z3Inv
<1> HIDE DEF s
<1>8. \A p \in Points : Z3Inv2(gen, Depth, i', Assign(i, s), p)
  BY <1>1, <1>2, <1>6, <1>7 DEF Z3Verifies
<1>9. SUFFICES ASSUME NEW p \in Region, p[Depth] < i'[Depth], \A d \in Dims \ {Depth} : p[d] = i'[d]
               PROVE  Matches(gen[Depth], out', p)
  BY <1>1 DEF RowMatches
<1>10. p \in Points /\ p \in [Dims -> Int]
  BY <1>9, PointsInRange DEF Region
<1>11. CASE p = i
  <2>1. p \in Z3Box(Depth, i')
    BY <1>9, <1>10 DEF Z3Box, Region
  <2>2. Matches(gen[Depth], Assign(i, s), i)
    BY <1>5, <1>8, <1>10, <1>11, <2>1 DEF Z3Inv2
  <2>3. ASSUME NEW o \in Outs
        PROVE  Assign(i, out)[o][Idx[o][i]] = Assign(i, s)[o][Idx[o][i]]
    <3>1. Idx[o][i] \in Locs
      BY <1>2, NestAssumption
    <3> QED BY <1>1, <1>6, <3>1 DEF Assign, Stores
  <2> QED BY <1>1, <1>11, <2>2, <2>3 DEF Matches
<1>12. CASE p # i
  <2>1. p[Depth] < i[Depth]
    <3>1. p[Depth] # i[Depth]
      BY <1>1, <1>3, <1>9, <1>10, <1>12
    <3> QED BY <1>1, <1>3, <1>9, <1>10, <3>1, BoundsFacts
  <2>2. Matches(gen[Depth], out, p)
    BY <1>3, <1>9, <2>1 DEF RowMatches
  <2>3. ASSUME NEW o \in Outs
        PROVE  Assign(i, out)[o][Idx[o][p]] = out[o][Idx[o][p]]
    <3>1. Idx[o][p] # Idx[o][i]
      BY <1>2, <1>9, <1>12 DEF LocationsDistinct
    <3>2. Idx[o][p] \in Locs
      BY <1>10, NestAssumption
    <3> QED BY <1>1, <3>1, <3>2 DEF Assign, Stores
  <2> QED BY <1>1, <2>2, <2>3 DEF Matches
<1> QED BY <1>11, <1>12

(* The iterations of the current row are what a candidate verified by the Z3  *)
(* script says, when every iteration has a location of its own: the part of   *)
(* the script's claim that its out-of-range tests leave standing.             *)
THEOREM CurrentRow == LocationsDistinct => (Spec => []Z3RowIsVerified)
<1> SUFFICES ASSUME LocationsDistinct PROVE Spec => []Z3RowIsVerified
  OBVIOUS
<1>1. Init => Z3RowIsVerified
  BY DEF Init, Z3RowIsVerified
<1>2. IInv /\ IInv' /\ Z3RowIsVerified /\ [Next]_vars => Z3RowIsVerified'
  <2> SUFFICES ASSUME IInv, IInv', Z3RowIsVerified, [Next]_vars, pc' = "head", lvl' = Depth, Z3Verifies(gen')
               PROVE  RowMatches'
    BY DEF Z3RowIsVerified
  <2>1. CASE Body
    <3>1. gen' = gen /\ pc = "head" /\ lvl = Depth
      BY <2>1 DEF Body
    <3>2. Z3Verifies(gen)
      BY <3>1
    <3> QED BY <2>1, <3>1, <3>2, RowStep DEF Z3RowIsVerified
  <2>2. CASE Start \/ Descend
    <3>1. i'[Depth] = Lo[Depth]
      <4>1. CASE Start
        BY <2>2, <4>1, BoundsFacts DEF Start, Set, IInv, TypeOK, StartsOutermost
      <4>2. CASE Descend
        BY <2>2, <4>2, BoundsFacts DEF Descend, Set, IInv, TypeOK
      <4> QED BY <2>2, <4>1, <4>2
    <3>2. ASSUME NEW p \in Region PROVE ~(p[Depth] < i'[Depth])
      <4>1. p \in [Dims -> Int] /\ Lo[Depth] <= p[Depth]
        BY BoundsFacts, PointsInRange DEF Region
      <4> QED BY <3>1, <4>1, BoundsFacts
    <3> QED BY <3>2 DEF RowMatches
  <2>3. CASE Ascend
    <3>1. lvl' = lvl - 1 /\ lvl \in Dims
      BY <2>3 DEF Ascend, IInv, TypeOK
    <3>2. FALSE
      BY <3>1, BoundsFacts DEF Dims
    <3> QED BY <3>2
  <2>4. CASE Exit
    BY <2>4 DEF Exit
  <2>5. CASE UNCHANGED vars
    <3>1. gen' = gen /\ pc' = pc /\ lvl' = lvl /\ i' = i /\ out' = out
      BY <2>5 DEF vars
    <3>2. Z3Verifies(gen) /\ pc = "head" /\ lvl = Depth
      BY <3>1
    <3>3. RowMatches
      BY <3>2 DEF Z3RowIsVerified
    <3> QED BY <3>1, <3>3 DEF RowMatches
  <2> QED BY <2>1, <2>2, <2>3, <2>4, <2>5 DEF Next
<1> QED BY <1>1, <1>2, Inductive, PTL DEF Spec
==============================================================================
