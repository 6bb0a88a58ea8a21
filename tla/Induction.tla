------------------------------- MODULE Induction -------------------------------
(***************************************************************************)
(* Induction over the natural numbers, and the existence of recursively    *)
(* defined functions, in the form the proofs about the model use: the      *)
(* statement proved by induction is a set of numbers, and the recursion a  *)
(* function, so that no theorem here has an operator for a parameter.      *)
(***************************************************************************)
EXTENDS Integers, WellFoundedInduction, TLAPS

\* f[1..N] starts with b at N, and comes by s from the value one further.
RecursDown(f, N, b, s) == \A d \in 1..N : f[d] = IF d = N THEN b ELSE s[d][f[d + 1]]

\* f[Nat] starts with b at 0, and comes by s from the value before.
RecursUp(f, b, s) == \A n \in Nat : f[n] = IF n = 0 THEN b ELSE s[n][f[n - 1]]

------------------------------------------------------------------------------
(* A set of natural numbers that is not empty has a least element. *)
LEMMA LeastNumber ==
  ASSUME NEW T \in SUBSET Nat, T # {}
  PROVE  \E m \in T : \A k \in T : m <= k
<1> DEFINE R == OpToRel(<, Nat)
<1>1. IsWellFoundedOn(R, Nat)
  BY NatLessThanWellFounded, Zenon
<1>2. R = {ss \in Nat \X Nat : ss[1] < ss[2]}
  BY Zenon DEF OpToRel
<1> HIDE DEF R
<1>3. PICK m \in T : \A y \in T : ~ (<<y, m>> \in R)
  BY <1>1, WFMin, Zenon
<1>4. \A y \in T : ~ (y < m)
  BY <1>2, <1>3
<1> QED BY <1>3, <1>4

(* A set of numbers up to N that is not empty has a greatest element. *)
LEMMA GreatestNumber ==
  ASSUME NEW N \in Nat, NEW T \in SUBSET (1..N), T # {}
  PROVE  \E m \in T : \A k \in T : k <= m
<1> DEFINE U == {N - k : k \in T}
<1>1. U \in SUBSET Nat /\ U # {}
  <2>1. \A k \in T : N - k \in Nat
    OBVIOUS
  <2> QED BY <2>1
<1>2. PICK u \in U : \A v \in U : u <= v
  <2> HIDE DEF U
  <2> QED BY <1>1, LeastNumber
<1>3. PICK m \in T : u = N - m
  BY <1>2
<1>4. \A k \in T : N - m <= N - k
  BY <1>2, <1>3
<1> QED BY <1>3, <1>4

(* A set that holds 0 and, with a number, the next one, holds all numbers. *)
LEMMA Induct ==
  ASSUME NEW S, 0 \in S, \A n \in Nat : n \in S => n + 1 \in S
  PROVE  \A n \in Nat : n \in S
<1> SUFFICES ASSUME {n \in Nat : n \notin S} # {} PROVE FALSE
  OBVIOUS
<1>1. PICK m \in Nat : m \notin S /\ \A k \in Nat : k \notin S => m <= k
  BY LeastNumber
<1>2. m # 0 /\ m - 1 \in Nat /\ m = (m - 1) + 1
  BY <1>1
<1>3. m - 1 \in S
  BY <1>1, <1>2
<1> QED BY <1>1, <1>2, <1>3

(* The same from N down to 1. *)
LEMMA InductDown ==
  ASSUME NEW N \in Nat \ {0}, NEW S, N \in S,
         \A d \in 1..N : d # N /\ d + 1 \in S => d \in S
  PROVE  \A d \in 1..N : d \in S
<1> DEFINE T == {k \in Nat : k < N => N - k \in S}
<1>1. 0 \in T
  OBVIOUS
<1>2. ASSUME NEW n \in Nat, n \in T
      PROVE  n + 1 \in T
  <2> SUFFICES ASSUME n + 1 < N PROVE N - (n + 1) \in S
    OBVIOUS
  <2>1. N - (n + 1) \in 1..N /\ N - (n + 1) # N /\ (N - (n + 1)) + 1 = N - n
    OBVIOUS
  <2>2. N - n \in S
    BY <1>2
  <2> QED BY <2>1, <2>2
<1>3. \A n \in Nat : n \in T
  <2> HIDE DEF T
  <2> QED BY <1>1, <1>2, Induct
<1> TAKE d \in 1..N
<1>4. N - d \in Nat /\ N - d < N /\ N - (N - d) = d
  OBVIOUS
<1> QED BY <1>3, <1>4

(* A value for N, and a value for d from that for d + 1, make a function. *)
LEMMA RecursionDown ==
  ASSUME NEW N \in Nat \ {0}, NEW V, NEW b \in V, NEW s \in [1..N -> [V -> V]]
  PROVE  \E f \in [1..N -> V] : RecursDown(f, N, b, s)
<1> DEFINE S == {d \in 1..N : \E f \in [d..N -> V] :
                    f = [e \in d..N |-> IF e = N THEN b ELSE s[e][f[e + 1]]]}
<1>1. N \in S
  <2> DEFINE f == [e \in N..N |-> b]
  <2>1. f \in [N..N -> V]
    OBVIOUS
  <2>2. \A e \in N..N : e = N
    OBVIOUS
  <2>3. f = [e \in N..N |-> IF e = N THEN b ELSE s[e][f[e + 1]]]
    BY <2>2, Zenon
  <2> HIDE DEF f
  <2> QED BY <2>1, <2>3
<1>2. ASSUME NEW d \in 1..N, d # N, d + 1 \in S
      PROVE  d \in S
  <2>1. PICK f \in [(d + 1)..N -> V] :
             f = [e \in (d + 1)..N |-> IF e = N THEN b ELSE s[e][f[e + 1]]]
    BY <1>2
  <2> DEFINE g == [e \in d..N |-> IF e = d THEN s[d][f[d + 1]] ELSE f[e]]
  <2>2. d + 1 \in (d + 1)..N /\ f[d + 1] \in V
    BY <1>2
  <2>3. g \in [d..N -> V]
    BY <2>2
  <2>4. ASSUME NEW e \in d..N
        PROVE  g[e] = IF e = N THEN b ELSE s[e][g[e + 1]]
    <3>1. CASE e = d
      BY <1>2, <3>1
    <3>2. CASE e # d
      <4>1. e \in (d + 1)..N /\ g[e] = f[e] /\ (e # N => e + 1 \in d..N /\ g[e + 1] = f[e + 1])
        BY <3>2
      <4>2. f[e] = IF e = N THEN b ELSE s[e][f[e + 1]]
        BY <2>1, <4>1
      <4> QED BY <4>1, <4>2
    <3> QED BY <3>1, <3>2
  <2>5. g = [e \in d..N |-> IF e = N THEN b ELSE s[e][g[e + 1]]]
    BY <2>4
  <2> HIDE DEF g
  <2> QED BY <2>3, <2>5
<1>3. 1 \in S
  <2> HIDE DEF S
  <2>1. \A d \in 1..N : d \in S
    BY <1>1, <1>2, InductDown
  <2> QED BY <2>1
<1> QED BY <1>3 DEF RecursDown

(* A value for 0, and a value for n from that for n - 1, make a function: for  *)
(* every number there is one on the numbers up to it, and they agree.          *)
LEMMA RecursionUp ==
  ASSUME NEW V, NEW b \in V, NEW s \in [Nat -> [V -> V]]
  PROVE  \E f \in [Nat -> V] : RecursUp(f, b, s)
<1> DEFINE Upto(n, f) == f = [e \in 0..n |-> IF e = 0 THEN b ELSE s[e][f[e - 1]]]
           S == {n \in Nat : \E f \in [0..n -> V] : Upto(n, f)}
<1>1. 0 \in S
  <2> DEFINE f == [e \in 0..0 |-> b]
  <2>1. f \in [0..0 -> V]
    OBVIOUS
  <2>2. \A e \in 0..0 : e = 0
    OBVIOUS
  <2>3. Upto(0, f)
    BY <2>2, Zenon
  <2> HIDE DEF f
  <2> QED BY <2>1, <2>3
<1>2. ASSUME NEW n \in Nat, n \in S
      PROVE  n + 1 \in S
  <2>1. PICK f \in [0..n -> V] : Upto(n, f)
    BY <1>2
  <2> DEFINE g == [e \in 0..(n + 1) |-> IF e = n + 1 THEN s[n + 1][f[n]] ELSE f[e]]
  <2>2. f[n] \in V
    OBVIOUS
  <2>3. g \in [0..(n + 1) -> V]
    BY <2>2
  <2>4. ASSUME NEW e \in 0..(n + 1)
        PROVE  g[e] = IF e = 0 THEN b ELSE s[e][g[e - 1]]
    <3>1. CASE e = n + 1
      <4>1. e # 0 /\ g[e] = s[n + 1][f[n]] /\ e - 1 \in 0..(n + 1) /\ e - 1 # n + 1 /\ e - 1 = n
        BY <3>1
      <4>2. g[e - 1] = f[n]
        BY <4>1
      <4> QED BY <3>1, <4>1, <4>2
    <3>2. CASE e # n + 1
      <4>1. e \in 0..n /\ g[e] = f[e] /\ (e # 0 => e - 1 \in 0..(n + 1) /\ g[e - 1] = f[e - 1])
        BY <3>2
      <4>2. f[e] = IF e = 0 THEN b ELSE s[e][f[e - 1]]
        BY <2>1, <4>1
      <4> QED BY <4>1, <4>2
    <3> QED BY <3>1, <3>2
  <2>5. Upto(n + 1, g)
    BY <2>4
  <2> HIDE DEF g, Upto
  <2> QED BY <2>3, <2>5
<1>3. \A n \in Nat : \E f \in [0..n -> V] : Upto(n, f)
  <2>1. \A n \in Nat : n \in S
    <3> HIDE DEF S
    <3> QED BY <1>1, <1>2, Induct
  <2> QED BY <2>1
<1> DEFINE F(n) == CHOOSE f \in [0..n -> V] : Upto(n, f)
<1>4. \A n \in Nat : F(n) \in [0..n -> V] /\ Upto(n, F(n))
  <2> HIDE DEF Upto
  <2> QED BY <1>3
<1>5. ASSUME NEW m \in Nat, NEW n \in Nat, NEW e \in Nat, e <= m, e <= n
      PROVE  F(m)[e] = F(n)[e]
  <2> HIDE DEF F
  <2>1. F(m) \in [0..m -> V] /\ F(n) \in [0..n -> V] /\ Upto(m, F(m)) /\ Upto(n, F(n))
    BY <1>4
  <2> DEFINE E == {k \in Nat : k <= m /\ k <= n => F(m)[k] = F(n)[k]}
  <2>2. ASSUME NEW k \in Nat, k <= m
        PROVE  F(m)[k] = IF k = 0 THEN b ELSE s[k][F(m)[k - 1]]
    BY <2>1, <2>2
  <2>3. ASSUME NEW k \in Nat, k <= n
        PROVE  F(n)[k] = IF k = 0 THEN b ELSE s[k][F(n)[k - 1]]
    BY <2>1, <2>3
  <2> HIDE DEF Upto
  <2>4. 0 \in E
    BY <2>2, <2>3
  <2>5. ASSUME NEW k \in Nat, k \in E
        PROVE  k + 1 \in E
    <3> SUFFICES ASSUME k + 1 <= m, k + 1 <= n PROVE F(m)[k + 1] = F(n)[k + 1]
      OBVIOUS
    <3>1. k + 1 # 0 /\ (k + 1) - 1 = k /\ k <= m /\ k <= n
      OBVIOUS
    <3>2. F(m)[k] = F(n)[k]
      BY <2>5, <3>1
    <3>3. F(m)[k + 1] = s[k + 1][F(m)[k]] /\ F(n)[k + 1] = s[k + 1][F(n)[k]]
      BY <2>2, <2>3, <3>1
    <3> QED BY <3>2, <3>3
  <2>6. \A k \in Nat : k \in E
    <3> HIDE DEF E
    <3> QED BY <2>4, <2>5, Induct
  <2> QED BY <1>5, <2>6
<1> DEFINE h == [n \in Nat |-> F(n)[n]]
<1>6. ASSUME NEW n \in Nat
      PROVE  h[n] \in V /\ h[n] = IF n = 0 THEN b ELSE s[n][h[n - 1]]
  <2> HIDE DEF F
  <2>1. F(n) \in [0..n -> V] /\ Upto(n, F(n)) /\ n \in 0..n /\ h[n] = F(n)[n]
    BY <1>4
  <2>2. F(n)[n] = IF n = 0 THEN b ELSE s[n][F(n)[n - 1]]
    BY <2>1
  <2>3. n # 0 => n - 1 \in Nat /\ h[n - 1] = F(n - 1)[n - 1] /\ F(n - 1)[n - 1] = F(n)[n - 1]
    <3> HIDE DEF Upto
    <3> QED BY <1>5
  <2> HIDE DEF h, Upto
  <2> QED BY <2>1, <2>2, <2>3
<1>7. h \in [Nat -> V] /\ \A n \in Nat : h[n] = IF n = 0 THEN b ELSE s[n][h[n - 1]]
  <2> HIDE DEF F
  <2> QED BY <1>6
<1> HIDE DEF h
<1> QED BY <1>7 DEF RecursUp
==============================================================================
