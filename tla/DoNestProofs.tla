----------------------------- MODULE DoNestProofs -----------------------------
(***************************************************************************)
(* Theorems about DoNest, for nests of every depth, all bounds and all     *)
(* declared dimensions: a nest without steps runs the iterations below the *)
(* upper bounds, in the order of their loop variables, and stores each of  *)
(* them at a location of its own.                                          *)
(***************************************************************************)
EXTENDS DoNest, Induction

NoSteps == \A d \in Dims : nest[d].step = NoStep

Below == {x \in [Dims -> Int] : \A d \in Dims : nest[d].lb <= x[d] /\ x[d] < nest[d].ub}

\* x comes before the iterations that are left when the loops from l outwards
\* are at y: one of them has passed x, and those around that one are where x is.
Before(x, y, l) ==
  \E d \in Dims : l <= d /\ x[d] < y[d] /\ \A e \in Dims : e > d => x[e] = y[e]

Types ==
  /\ nest \in Loops
  /\ pc \in {"start", "head", "done"}
  /\ lvl \in Dims
  /\ v \in [Dims -> Int]
  /\ \A o \in owner : o.at = Linear(o.by)

\* The loops inside the current pass, and what was executed before it.
Progress ==
  NoSteps /\ pc # "start" =>
    /\ nest[lvl].lb <= v[lvl]
    /\ \A d \in Dims : d > lvl => nest[d].lb <= v[d] /\ v[d] < nest[d].ub
    /\ Executed = {x \in Below : Before(x, v, lvl)}

IInv ==
  /\ Types
  /\ pc = "start" => lvl = Rank /\ owner = {}
  /\ Progress
  /\ pc = "done" => lvl = Rank /\ ~Test(Rank)

------------------------------------------------------------------------------
(* Ranks and bounds are integers. *)
LEMMA RankType == Rank \in Nat \ {0} /\ Rank \in Dims /\ 1 \in Dims
BY DoAssumption DEF Rank, Dims

LEMMA ElementType ==
  ASSUME NEW S, NEW n \in Seq(S), NEW d \in 1..Len(n)
  PROVE  n[d] \in S
OBVIOUS

LEMMA BoundsType ==
  ASSUME NEW n \in Loops, NEW d \in Dims
  PROVE  n[d].lb \in Int /\ n[d].ub \in Int /\ n[d].step \in Int \cup {NoStep}
<1>1. n \in Seq([lb : Int, ub : Int, step : Int \cup {NoStep}]) /\ d \in 1..Len(n)
  BY DoAssumption DEF Dims
<1>2. n[d] \in [lb : Int, ub : Int, step : Int \cup {NoStep}]
  BY <1>1, ElementType
<1> QED BY <1>2

(* The iterations of a nest without steps that are below its upper bounds. *)
LEMMA BelowIterations ==
  ASSUME nest \in Loops, NoSteps
  PROVE  {x \in Iterations(nest) : \A d \in Dims : x[d] < nest[d].ub} = Below
<1>1. ASSUME NEW x \in Below
      PROVE  x \in Iterations(nest)
  <2>1. x \in [Dims -> Int] /\ \A d \in Dims : nest[d].lb <= x[d] /\ x[d] < nest[d].ub
    BY DEF Below
  <2>2. \A d \in Dims : nest[d].lb <= x[d] /\ x[d] <= nest[d].ub /\ x[d] \in nest[d].lb..nest[d].ub
    BY <2>1, BoundsType
  <2>3. x \in [Dims -> UNION {nest[d].lb..nest[d].ub : d \in Dims}]
    BY <2>1, <2>2
  <2> QED BY <2>2, <2>3 DEF Iterations, NoSteps
<1>2. ASSUME NEW x \in Iterations(nest), \A d \in Dims : x[d] < nest[d].ub
      PROVE  x \in Below
  <2>1. \A d \in Dims : nest[d].lb..nest[d].ub \subseteq Int
    OBVIOUS
  <2>2. UNION {nest[d].lb..nest[d].ub : d \in Dims} \subseteq Int
    BY <2>1
  <2>3. x \in [Dims -> Int]
    BY <2>2 DEF Iterations
  <2> QED BY <1>2, <2>3 DEF Iterations, Below
<1>3. \A x \in Below : \A d \in Dims : x[d] < nest[d].ub
  BY DEF Below
<1> QED BY <1>1, <1>2, <1>3

------------------------------------------------------------------------------
LEMMA InitIInv == Init => IInv
BY RankType DEF Init, IInv, Types, Progress

(* In front of an inner loop: none of its iterations has been executed. *)
LEMMA DescendIInv == IInv /\ Descend => IInv'
<1> SUFFICES ASSUME IInv, Descend PROVE IInv'
  OBVIOUS
<1>1. nest' = nest /\ pc = "head" /\ pc' = "head" /\ owner' = owner /\ lvl - 1 \in Dims
      /\ lvl' = lvl - 1 /\ nest \in Loops /\ lvl \in Dims /\ Test(lvl)
  BY RankType DEF Descend, IInv, Types, Dims
<1>2. v \in [Dims -> Int] /\ v' = [v EXCEPT ![lvl - 1] = nest[lvl - 1].lb]
  BY DEF Descend, IInv, Types
<1>3. v' \in [Dims -> Int] /\ v'[lvl - 1] = nest[lvl - 1].lb
      /\ \A d \in Dims : d # lvl - 1 => v'[d] = v[d]
  BY <1>1, <1>2, BoundsType
<1>4. Types'
  BY <1>1, <1>3 DEF IInv, Types
<1>5. ASSUME NoSteps
      PROVE  /\ nest[lvl'].lb <= v'[lvl']
             /\ \A d \in Dims : d > lvl' => nest[d].lb <= v'[d] /\ v'[d] < nest[d].ub
             /\ Executed = {x \in Below : Before(x, v', lvl')}
  <2>1. /\ nest[lvl].lb <= v[lvl]
        /\ \A d \in Dims : d > lvl => nest[d].lb <= v[d] /\ v[d] < nest[d].ub
        /\ Executed = {x \in Below : Before(x, v, lvl)}
    BY <1>1, <1>5 DEF IInv, Progress
  <2>2. nest[lvl'].lb <= v'[lvl']
    BY <1>1, <1>3, BoundsType
  <2>3. \A d \in Dims : d > lvl' => nest[d].lb <= v'[d] /\ v'[d] < nest[d].ub
    <3> TAKE d \in Dims
    <3> HAVE d > lvl'
    <3>1. d = lvl \/ d > lvl
      BY <1>1 DEF Dims
    <3>2. v'[d] = v[d]
      BY <1>1, <1>3, <3>1 DEF Dims
    <3> QED BY <1>1, <2>1, <3>1, <3>2 DEF Test
  <2>4. ASSUME NEW x \in Below
        PROVE  Before(x, v', lvl') <=> Before(x, v, lvl)
    <3>0. x \in [Dims -> Int] /\ x[lvl - 1] >= nest[lvl - 1].lb
      BY <1>1, BoundsType DEF Below
    <3>1. ASSUME NEW d \in Dims, lvl - 1 <= d, x[d] < v'[d], \A e \in Dims : e > d => x[e] = v'[e]
          PROVE  Before(x, v, lvl)
      <4>1. d # lvl - 1
        BY <1>1, <1>3, <3>0, <3>1, BoundsType
      <4>2. lvl <= d /\ v'[d] = v[d] /\ \A e \in Dims : e > d => v'[e] = v[e]
        BY <1>1, <1>3, <3>1, <4>1 DEF Dims
      <4> QED BY <3>1, <4>2 DEF Before
    <3>2. ASSUME NEW d \in Dims, lvl <= d, x[d] < v[d], \A e \in Dims : e > d => x[e] = v[e]
          PROVE  Before(x, v', lvl - 1)
      <4>1. lvl - 1 <= d /\ v'[d] = v[d] /\ \A e \in Dims : e > d => v'[e] = v[e]
        BY <1>1, <1>3, <3>2 DEF Dims
      <4> QED BY <3>2, <4>1 DEF Before
    <3> QED BY <1>1, <3>1, <3>2 DEF Before
  <2> QED BY <2>1, <2>2, <2>3, <2>4
<1>6. Executed' = Executed /\ Below' = Below /\ NoSteps' = NoSteps
  BY <1>1 DEF Executed, Below, NoSteps
<1>7. Progress'
  BY <1>1, <1>5, <1>6 DEF Progress, Before
<1> QED BY <1>1, <1>4, <1>7 DEF IInv

(* The innermost body: the iteration executed is the next one. *)
LEMMA BodyIInv == IInv /\ Body => IInv'
<1> SUFFICES ASSUME IInv, Body PROVE IInv'
  OBVIOUS
<1>1. nest' = nest /\ pc = "head" /\ pc' = "head" /\ lvl = 1 /\ lvl' = 1 /\ 1 \in Dims
      /\ nest \in Loops /\ Test(1)
  BY RankType DEF Body, IInv, Types
<1>2. v \in [Dims -> Int] /\ v' = [v EXCEPT ![1] = Increment(1)]
      /\ owner' = owner \cup {[at |-> Linear(v), by |-> v]}
  BY DEF Body, IInv, Types
<1>3. Increment(1) \in Int
  BY <1>1, <1>2, BoundsType DEF Increment
<1>4. v' \in [Dims -> Int] /\ v'[1] = Increment(1) /\ \A d \in Dims : d # 1 => v'[d] = v[d]
  BY <1>1, <1>2, <1>3
<1>5. Types'
  BY <1>1, <1>2, <1>4 DEF IInv, Types
<1>6. Executed' = Executed \cup {v}
  <2> DEFINE new == [at |-> Linear(v), by |-> v]
  <2>1. owner' = owner \cup {new} /\ new.by = v
    BY <1>2
  <2> HIDE DEF new
  <2> QED BY <2>1 DEF Executed
<1>7. ASSUME NoSteps
      PROVE  /\ nest[1].lb <= v'[1]
             /\ \A d \in Dims : d > 1 => nest[d].lb <= v'[d] /\ v'[d] < nest[d].ub
             /\ Executed \cup {v} = {x \in Below : Before(x, v', 1)}
  <2>1. /\ nest[1].lb <= v[1]
        /\ \A d \in Dims : d > 1 => nest[d].lb <= v[d] /\ v[d] < nest[d].ub
        /\ Executed = {x \in Below : Before(x, v, 1)}
    BY <1>1, <1>7 DEF IInv, Progress
  <2>2. v'[1] = v[1] + 1
    BY <1>1, <1>4, <1>7 DEF Increment, NoSteps
  <2>3. nest[1].lb <= v'[1] /\ \A d \in Dims : d > 1 => nest[d].lb <= v'[d] /\ v'[d] < nest[d].ub
    BY <1>1, <1>2, <1>4, <2>1, <2>2, BoundsType
  <2>4. v \in Below
    <3> SUFFICES ASSUME NEW d \in Dims PROVE nest[d].lb <= v[d] /\ v[d] < nest[d].ub
      BY <1>2 DEF Below
    <3>1. d = 1 \/ d > 1
      BY DEF Dims
    <3> QED BY <1>1, <2>1, <3>1 DEF Test
  <2>5. ASSUME NEW x \in Below
        PROVE  Before(x, v', 1) <=> (x = v \/ Before(x, v, 1))
    <3>0. x \in [Dims -> Int] /\ \A d \in Dims : 1 <= d
      BY DEF Below, Dims
    <3>1. ASSUME NEW d \in Dims, x[d] < v'[d], \A e \in Dims : e > d => x[e] = v'[e]
          PROVE  x = v \/ Before(x, v, 1)
      <4>1. CASE d = 1
        <5>1. \A e \in Dims : e > 1 => x[e] = v[e]
          BY <1>4, <3>1, <4>1
        <5>2. x[1] = v[1] \/ x[1] < v[1]
          <6>1. x[1] < v[1] + 1
            BY <2>2, <3>1, <4>1
          <6>2. x[1] \in Int /\ v[1] \in Int
            BY <1>1, <1>2, <3>0
          <6> QED BY <6>1, <6>2
        <5>3. CASE x[1] = v[1]
          <6>1. \A e \in Dims : x[e] = v[e]
            BY <5>1, <5>3 DEF Dims
          <6> QED BY <6>1, <3>0, <1>2
        <5>4. CASE x[1] < v[1]
          BY <1>1, <5>1, <5>4 DEF Before
        <5> QED BY <5>2, <5>3, <5>4
      <4>2. CASE d # 1
        <5>1. v'[d] = v[d] /\ \A e \in Dims : e > d => v'[e] = v[e]
          BY <1>4, <4>2 DEF Dims
        <5> QED BY <3>0, <3>1, <5>1 DEF Before
      <4> QED BY <4>1, <4>2
    <3>2. ASSUME x = v
          PROVE  Before(x, v', 1)
      <4>1. x[1] < v'[1] /\ \A e \in Dims : e > 1 => x[e] = v'[e]
        BY <1>1, <1>2, <1>4, <2>2, <3>2
      <4> QED BY <1>1, <4>1 DEF Before
    <3>3. ASSUME NEW d \in Dims, x[d] < v[d], \A e \in Dims : e > d => x[e] = v[e]
          PROVE  Before(x, v', 1)
      <4>1. x[d] < v'[d]
        BY <1>2, <1>4, <2>2, <3>0, <3>3
      <4>2. \A e \in Dims : e > d => x[e] = v'[e]
        BY <1>4, <3>3 DEF Dims
      <4> QED BY <3>0, <4>1, <4>2 DEF Before
    <3> QED BY <3>1, <3>2, <3>3 DEF Before
  <2> QED BY <2>1, <2>3, <2>4, <2>5
<1>8. Below' = Below /\ NoSteps' = NoSteps
  BY <1>1 DEF Below, NoSteps
<1>9. Progress'
  BY <1>1, <1>6, <1>7, <1>8 DEF Progress, Before
<1> QED BY <1>1, <1>5, <1>9 DEF IInv

(* The end of an inner loop: all of its iterations have been executed. *)
LEMMA AscendIInv == IInv /\ Ascend => IInv'
<1> SUFFICES ASSUME IInv, Ascend PROVE IInv'
  OBVIOUS
<1>1. nest' = nest /\ pc = "head" /\ pc' = "head" /\ owner' = owner /\ lvl + 1 \in Dims
      /\ lvl' = lvl + 1 /\ nest \in Loops /\ lvl \in Dims /\ ~Test(lvl)
  BY RankType DEF Ascend, IInv, Types, Dims
<1>2. v \in [Dims -> Int] /\ v' = [v EXCEPT ![lvl + 1] = Increment(lvl + 1)]
  BY DEF Ascend, IInv, Types
<1>3. Increment(lvl + 1) \in Int
  BY <1>1, <1>2, BoundsType DEF Increment
<1>4. v' \in [Dims -> Int] /\ v'[lvl + 1] = Increment(lvl + 1)
      /\ \A d \in Dims : d # lvl + 1 => v'[d] = v[d]
  BY <1>1, <1>2, <1>3
<1>5. Types'
  BY <1>1, <1>4 DEF IInv, Types
<1>6. ASSUME NoSteps
      PROVE  /\ nest[lvl'].lb <= v'[lvl']
             /\ \A d \in Dims : d > lvl' => nest[d].lb <= v'[d] /\ v'[d] < nest[d].ub
             /\ Executed = {x \in Below : Before(x, v', lvl')}
  <2>1. /\ \A d \in Dims : d > lvl => nest[d].lb <= v[d] /\ v[d] < nest[d].ub
        /\ Executed = {x \in Below : Before(x, v, lvl)}
    BY <1>1, <1>6 DEF IInv, Progress
  <2>2. v'[lvl + 1] = v[lvl + 1] + 1
    BY <1>1, <1>4, <1>6 DEF Increment, NoSteps
  <2>3. nest[lvl + 1].lb <= v[lvl + 1]
    BY <1>1, <2>1 DEF Dims
  <2>4. nest[lvl'].lb <= v'[lvl']
    BY <1>1, <1>2, <2>2, <2>3, BoundsType
  <2>5. \A d \in Dims : d > lvl' => nest[d].lb <= v'[d] /\ v'[d] < nest[d].ub
    BY <1>1, <1>4, <2>1 DEF Dims
  <2>6. v[lvl] >= nest[lvl].ub
    BY <1>1, <1>2, BoundsType DEF Test
  <2>7. ASSUME NEW x \in Below
        PROVE  Before(x, v', lvl') <=> Before(x, v, lvl)
    <3>0. x \in [Dims -> Int] /\ x[lvl] < v[lvl]
      BY <1>1, <1>2, <2>6, BoundsType DEF Below
    <3>1. ASSUME NEW d \in Dims, lvl + 1 <= d, x[d] < v'[d], \A e \in Dims : e > d => x[e] = v'[e]
          PROVE  Before(x, v, lvl)
      <4>1. lvl <= d /\ \A e \in Dims : e > d => x[e] = v[e]
        BY <1>1, <1>4, <3>1 DEF Dims
      <4>2. CASE x[d] < v[d]
        BY <4>1, <4>2 DEF Before
      <4>3. CASE ~(x[d] < v[d])
        <5>1. d = lvl + 1 /\ x[d] = v[d]
          BY <1>1, <1>2, <1>4, <2>2, <3>0, <3>1, <4>3
        <5>2. \A e \in Dims : e > lvl => x[e] = v[e]
          BY <4>1, <5>1, <1>1 DEF Dims
        <5>3. lvl <= lvl
          BY <1>1 DEF Dims
        <5> QED BY <1>1, <3>0, <5>2, <5>3 DEF Before
      <4> QED BY <4>2, <4>3
    <3>2. ASSUME NEW d \in Dims, lvl <= d, x[d] < v[d], \A e \in Dims : e > d => x[e] = v[e]
          PROVE  Before(x, v', lvl + 1)
      <4>1. CASE d = lvl
        <5>1. x[lvl + 1] = v[lvl + 1]
          BY <1>1, <3>2, <4>1 DEF Dims
        <5>2. x[lvl + 1] < v'[lvl + 1] /\ lvl + 1 <= lvl + 1
          BY <1>1, <1>2, <2>2, <5>1 DEF Dims
        <5>3. \A e \in Dims : e > lvl + 1 => x[e] = v'[e]
          BY <1>1, <1>4, <3>2, <4>1 DEF Dims
        <5> QED BY <1>1, <5>2, <5>3 DEF Before
      <4>2. CASE d # lvl
        <5>1. lvl + 1 <= d /\ \A e \in Dims : e > d => x[e] = v'[e]
          BY <1>1, <1>4, <3>2, <4>2 DEF Dims
        <5>2. x[d] < v'[d]
          BY <1>1, <1>2, <1>4, <2>2, <3>0, <3>2
        <5> QED BY <5>1, <5>2 DEF Before
      <4> QED BY <4>1, <4>2
    <3> QED BY <1>1, <3>1, <3>2 DEF Before
  <2> QED BY <2>1, <2>4, <2>5, <2>7
<1>7. Executed' = Executed /\ Below' = Below /\ NoSteps' = NoSteps
  BY <1>1 DEF Executed, Below, NoSteps
<1>8. Progress'
  BY <1>1, <1>6, <1>7 DEF Progress, Before
<1> QED BY <1>1, <1>5, <1>8 DEF IInv

(* The initialisation in front of the nest, and its end. *)
LEMMA StartIInv == IInv /\ Start => IInv'
<1> SUFFICES ASSUME IInv, Start PROVE IInv'
  OBVIOUS
<1>1. nest' = nest /\ pc' = "head" /\ lvl = Rank /\ lvl' = Rank /\ owner = {} /\ owner' = {}
      /\ nest \in Loops /\ Rank \in Dims /\ Rank \in Nat
      /\ v \in [Dims -> Int] /\ v' = [v EXCEPT ![Rank] = nest[Rank].lb]
  BY RankType DEF Start, IInv, Types
<1>2. v' \in [Dims -> Int] /\ v'[Rank] = nest[Rank].lb /\ nest[Rank].lb \in Int
  BY <1>1, BoundsType
<1>3. \A d \in Dims : d <= Rank
  BY DEF Dims
<1>4. ASSUME NEW x \in Below, Before(x, v', Rank)
      PROVE  FALSE
  <2>1. PICK d \in Dims : Rank <= d /\ x[d] < v'[d]
    BY <1>4 DEF Before
  <2>2. d = Rank
    BY <1>1, <1>3, <2>1 DEF Dims
  <2> QED BY <1>1, <1>2, <2>1, <2>2 DEF Below
<1>5. Executed' = {} /\ Below' = Below
  BY <1>1 DEF Executed, Below
<1>6. Progress'
  <2>1. ~\E d \in Dims : d > Rank
    BY <1>1, <1>3 DEF Dims
  <2> QED BY <1>1, <1>2, <1>4, <1>5, <2>1 DEF Progress, Before
<1> QED BY <1>1, <1>2, <1>6 DEF IInv, Types

LEMMA NextIInv == IInv /\ [Next]_vars => IInv'
<1> SUFFICES ASSUME IInv, [Next]_vars PROVE IInv'
  OBVIOUS
<1>1. CASE Exit
  <2>1. UNCHANGED <<nest, lvl, v, owner>> /\ pc = "head" /\ pc' = "done" /\ lvl = Rank /\ ~Test(Rank)
    BY <1>1 DEF Exit
  <2>2. Types' /\ ~Test(Rank)'
    BY <2>1 DEF IInv, Types, Test
  <2>3. Executed' = Executed /\ Below' = Below /\ NoSteps' = NoSteps
    BY <2>1 DEF Executed, Below, NoSteps
  <2>4. Progress'
    BY <2>1, <2>3 DEF IInv, Progress, Before
  <2> QED BY <2>1, <2>2, <2>4 DEF IInv
<1>2. CASE UNCHANGED vars
  BY <1>2 DEF vars, IInv, Types, Progress, NoSteps, Executed, Below, Before, Test
<1> QED BY <1>1, <1>2, StartIInv, DescendIInv, BodyIInv, AscendIInv DEF Next

LEMMA AlwaysIInv == Spec => []IInv
BY InitIInv, NextIInv, PTL DEF Spec

(* What a nest that visitFortranDo makes consists of, and where the locations *)
(* of its iterations come from.                                               *)
THEOREM DoNestTypes == Spec => []TypeOK
<1>1. IInv => TypeOK
  BY DEF IInv, Types, TypeOK
<1> QED BY <1>1, AlwaysIInv, PTL

(* The translation of a nest without steps executes the iterations of the DO  *)
(* statements at no upper bound (visitFortranDo makes "<" of an inclusive     *)
(* bound), and no others; at its end, all of them.                            *)
THEOREM NestRunsBelowUpperBounds == Spec => []RunsBelowUpperBounds
<1>1. ASSUME IInv, NoSteps
      PROVE  Executed \subseteq Below /\ (pc = "done" => Executed = Below)
  <2>1. CASE pc = "start"
    BY <1>1, <2>1 DEF IInv, Executed
  <2>2. CASE pc # "start"
    <3>1. Executed = {x \in Below : Before(x, v, lvl)}
      BY <1>1, <2>2 DEF IInv, Progress
    <3>2. ASSUME pc = "done", NEW x \in Below
          PROVE  Before(x, v, lvl)
      <4>1. lvl = Rank /\ ~Test(Rank) /\ v \in [Dims -> Int] /\ nest \in Loops
        BY <1>1, <3>2 DEF IInv, Types
      <4>2. x[Rank] < v[Rank]
        BY <4>1, RankType, BoundsType DEF Test, Below
      <4>3. Rank <= Rank /\ ~\E e \in Dims : e > Rank
        BY RankType DEF Dims
      <4> QED BY <4>1, <4>2, <4>3, RankType DEF Before
    <3> QED BY <3>1, <3>2
  <2> QED BY <2>1, <2>2
<1>2. IInv => RunsBelowUpperBounds
  BY <1>1, BelowIterations DEF RunsBelowUpperBounds, NoSteps, IInv, Types
<1> QED BY <1>2, AlwaysIInv, PTL

------------------------------------------------------------------------------
LEMMA DimensionType == \A d \in Dims : Decl[d].lo \in Int /\ Decl[d].hi \in Int /\ Dimension(d) \in Int
<1> SUFFICES ASSUME NEW d \in Dims PROVE Decl[d] \in [lo : Int, hi : Int, plain : BOOLEAN]
  BY DEF Dimension
<1> QED BY DoAssumption, ElementType DEF Dims, Rank

(* The recursion of Linear is that of a function from the dimensions: the      *)
(* index of the outermost one, and of each other one its index and the product *)
(* of its factor with what comes from further out.                             *)
LEMMA LinearRecursion ==
  ASSUME NEW x \in [Dims -> Int]
  PROVE  \E f \in [Dims -> Int] :
           /\ Linear(x) = f[1]
           /\ f[Rank] = x[Rank]
           /\ \A d \in Dims : d # Rank => f[d] = x[d] + Dimension(d) * f[d + 1]
<1> DEFINE b == x[Rank]
           s == [d \in Dims |-> [y \in Int |-> x[d] + Dimension(d) * y]]
           from == CHOOSE f : f = [d \in Dims |->
                                     IF d = Rank THEN x[d] ELSE x[d] + Dimension(d) * f[d + 1]]
<1>1. \E f \in [Dims -> Int] : RecursDown(f, Rank, b, s)
  <2>1. b \in Int
    BY RankType
  <2>2. s \in [Dims -> [Int -> Int]]
    BY DimensionType
  <2> HIDE DEF b, s, from
  <2>3. s \in [1..Rank -> [Int -> Int]]
    BY <2>2 DEF Dims
  <2>4. \E f \in [1..Rank -> Int] : RecursDown(f, Rank, b, s)
    BY <2>1, <2>3, RankType, RecursionDown
  <2> QED BY <2>4 DEF Dims
<1>2. PICK g \in [Dims -> Int] : RecursDown(g, Rank, b, s)
  BY <1>1
<1>3. \A d \in Dims : d # Rank => d + 1 \in Dims
  BY RankType DEF Dims
<1>4. ASSUME NEW d \in Dims
      PROVE  g[d] = IF d = Rank THEN x[d] ELSE x[d] + Dimension(d) * g[d + 1]
  <2>1. g[d] = IF d = Rank THEN b ELSE s[d][g[d + 1]]
    BY <1>2 DEF RecursDown, Dims
  <2> QED BY <1>3, <2>1
<1>5. g = [d \in Dims |-> IF d = Rank THEN x[d] ELSE x[d] + Dimension(d) * g[d + 1]]
  BY <1>4
<1>6. from = [d \in Dims |-> IF d = Rank THEN x[d] ELSE x[d] + Dimension(d) * from[d + 1]]
  BY <1>5, Zenon
<1>7. Linear(x) = from[1]
  BY Zenon DEF Linear
<1> HIDE DEF from
<1>8. /\ from[Rank] = x[Rank]
      /\ \A d \in Dims : d # Rank => from[d] = x[d] + Dimension(d) * from[d + 1]
  BY <1>6, RankType
<1>9. from \in [Dims -> Int]
  <2> DEFINE S == {d \in Dims : from[d] \in Int}
  <2>1. Rank \in S
    BY <1>8, RankType
  <2>2. ASSUME NEW d \in 1..Rank, d # Rank, d + 1 \in S
        PROVE  d \in S
    <3>1. from[d] = x[d] + Dimension(d) * from[d + 1]
      BY <1>8, <2>2 DEF Dims
    <3> QED BY <2>2, <3>1, DimensionType DEF Dims
  <2>3. \A d \in 1..Rank : d \in S
    <3> HIDE DEF S
    <3> QED BY <2>1, <2>2, RankType, InductDown
  <2> QED BY <1>6, <2>3 DEF Dims
<1> QED BY <1>7, <1>8, <1>9

(* Quotient and remainder are unique, for remainders less than N apart. *)
LEMMA Digits ==
  ASSUME NEW N \in Int, N > 0, NEW p \in Int, NEW q \in Int, NEW h \in Int, NEW k \in Int,
         p + N * h = q + N * k, p - q < N, q - p < N
  PROVE  p = q /\ h = k
<1>1. N * (h - k) = q - p
  OBVIOUS
<1>2. ASSUME h - k >= 1 PROVE FALSE
  <2>1. N * (h - k) = N + N * (h - k - 1) /\ N * (h - k - 1) >= 0
    BY <1>2
  <2> QED BY <1>1, <2>1
<1>3. ASSUME h - k <= -1 PROVE FALSE
  <2>1. N * (h - k) = (-N) - N * (k - h - 1) /\ N * (k - h - 1) >= 0
    BY <1>3
  <2> QED BY <1>1, <2>1
<1>4. h = k
  BY <1>2, <1>3
<1> QED BY <1>1, <1>4

(* Iterations within the bounds of the loops, none of them at an upper bound, *)
(* have locations of their own.                                               *)
LEMMA LinearInjective ==
  ASSUME nest \in Loops, NEW x \in Below, NEW y \in Below, Linear(x) = Linear(y)
  PROVE  x = y
<1>0. x \in [Dims -> Int] /\ y \in [Dims -> Int]
  BY DEF Below
<1>1. PICK f \in [Dims -> Int] : /\ Linear(x) = f[1]
                                /\ f[Rank] = x[Rank]
                                /\ \A d \in Dims : d # Rank => f[d] = x[d] + Dimension(d) * f[d + 1]
  BY <1>0, LinearRecursion
<1>2. PICK g \in [Dims -> Int] : /\ Linear(y) = g[1]
                                /\ g[Rank] = y[Rank]
                                /\ \A d \in Dims : d # Rank => g[d] = y[d] + Dimension(d) * g[d + 1]
  BY <1>0, LinearRecursion
<1>3. ASSUME NEW d \in Dims
      PROVE  Dimension(d) > 0 /\ x[d] - y[d] < Dimension(d) /\ y[d] - x[d] < Dimension(d)
  <2>1. nest[d].lb <= x[d] /\ x[d] < nest[d].ub /\ nest[d].lb <= y[d] /\ y[d] < nest[d].ub
    BY DEF Below
  <2>2. Decl[d].lo <= nest[d].lb /\ nest[d].ub <= Decl[d].hi /\ (Decl[d].plain => Decl[d].lo = 1)
    BY DoAssumption DEF Dims
  <2> QED BY <1>0, <2>1, <2>2, BoundsType, DimensionType DEF Dimension
<1>4. ASSUME NEW d \in Dims, f[d] = g[d]
      PROVE  x[d] = y[d] /\ (d # Rank => f[d + 1] = g[d + 1])
  <2>1. CASE d = Rank
    BY <1>1, <1>2, <1>4, <2>1
  <2>2. CASE d # Rank
    <3>1. d + 1 \in Dims /\ Dimension(d) \in Int
      BY <2>2, RankType, DimensionType DEF Dims
    <3>2. x[d] + Dimension(d) * f[d + 1] = y[d] + Dimension(d) * g[d + 1]
      BY <1>1, <1>2, <1>4, <2>2
    <3>3. x[d] \in Int /\ y[d] \in Int /\ f[d + 1] \in Int /\ g[d + 1] \in Int
      BY <1>0, <3>1
    <3> QED BY <1>3, <3>1, <3>2, <3>3, Digits
  <2> QED BY <2>1, <2>2
<1>5. \A d \in Dims : f[d] = g[d]
  <2> DEFINE S == {n \in Nat : n + 1 \in Dims => f[n + 1] = g[n + 1]}
  <2>1. 0 \in S
    <3>1. f[1] = g[1]
      BY <1>1, <1>2
    <3> QED BY <3>1
  <2>2. ASSUME NEW n \in Nat, n \in S
        PROVE  n + 1 \in S
    <3> SUFFICES ASSUME (n + 1) + 1 \in Dims PROVE f[(n + 1) + 1] = g[(n + 1) + 1]
      OBVIOUS
    <3>1. n + 1 \in Dims /\ n + 1 # Rank
      BY RankType DEF Dims
    <3> QED BY <1>4, <2>2, <3>1
  <2>3. \A n \in Nat : n \in S
    <3> HIDE DEF S
    <3> QED BY <2>1, <2>2, Induct
  <2>4. ASSUME NEW d \in Dims
        PROVE  f[d] = g[d]
    <3>1. d - 1 \in Nat /\ (d - 1) + 1 = d
      BY RankType DEF Dims
    <3> QED BY <2>3, <3>1
  <2> QED BY <2>4
<1> QED BY <1>0, <1>4, <1>5

(* Iterations of a nest without steps store different locations: the column   *)
(* major index of visitSgExprListExp tells them apart although its factor for *)
(* (lo:hi) is one short, because visitFortranDo stops the loops one short.    *)
THEOREM NestStoresDistinct == Spec => []StoresDistinct
<1>1. ASSUME IInv, NoSteps, NEW o \in owner, NEW p \in owner, o.at = p.at
      PROVE  o.by = p.by
  <2>1. o.by \in Below /\ p.by \in Below
    BY <1>1 DEF IInv, Progress, Executed
  <2>2. Linear(o.by) = Linear(p.by) /\ nest \in Loops
    BY <1>1 DEF IInv, Types
  <2> QED BY <2>1, <2>2, LinearInjective
<1>2. IInv => StoresDistinct
  BY <1>1 DEF StoresDistinct, NoSteps
<1> QED BY <1>2, AlwaysIInv, PTL
==============================================================================
