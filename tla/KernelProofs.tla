----------------------------- MODULE KernelProofs -----------------------------
(***************************************************************************)
(* Theorems about Kernel, for every nest, body, shape and vector width:    *)
(* types, modes, that a call implements one application of the summary,    *)
(* that it leaves in memory what the nest it replaces would have, and what *)
(* becomes of the points that two vectors compute.                         *)
(***************************************************************************)
EXTENDS Kernel, SequenceTheorems, FiniteSetTheorems, FunctionTheorems, Induction

------------------------------------------------------------------------------
(* The glue: addresses of the host buffers and of the Fortran arrays. *)
LEMMA VecLen ==
  ASSUME NEW n \in Nat, NEW S, NEW u \in [1..n -> S]
  PROVE  Len(u) = n
<1>1. u \in Seq(S)
  BY SeqDef
<1>2. DOMAIN u = 1..n
  OBVIOUS
<1>3. DOMAIN u = 1..Len(u) /\ Len(u) \in Nat
  BY <1>1, LenProperties
<1>. QED
  BY <1>2, <1>3

\* The two ways of writing a sum of products, for three and four dimensions.
LEMMA Expand3 ==
  ASSUME NEW a \in Int, NEW b \in Int, NEW c \in Int,
         NEW p \in Int, NEW q \in Int
  PROVE  a * 1 + b * p + c * (p * q) = a + p * (b + q * c)
  OBVIOUS

LEMMA Expand4 ==
  ASSUME NEW a \in Int, NEW b \in Int, NEW c \in Int, NEW d \in Int,
         NEW p \in Int, NEW q \in Int, NEW r \in Int
  PROVE  a * 1 + b * p + c * (p * q) + d * (p * q * r) = a + p * (b + q * (c + r * d))
  OBVIOUS

\* Nest is the scalar product with the products of the lengths.
LEMMA Horner ==
  ASSUME NEW n \in 1..4, NEW d \in [1..n -> Int], NEW s \in [1..n -> Int]
  PROVE  Dot(d, Products(s)) = Nest(d, s)
<1>1. Len(d) = n /\ Len(s) = n
  BY VecLen
<1>p. /\ Products(s)[1] = 1
      /\ n > 1 => Products(s)[2] = s[1]
      /\ n > 2 => Products(s)[3] = s[1] * s[2]
      /\ n > 3 => Products(s)[4] = s[1] * s[2] * s[3]
  BY <1>1 DEF Products
<1>. HIDE DEF Products
<1>2. CASE n = 1
  BY <1>1, <1>2, <1>p DEF Dot, Nest
<1>3. CASE n = 2
  BY <1>1, <1>3, <1>p DEF Dot, Nest
<1>4. CASE n = 3
  <2>. d[1] \in Int /\ d[2] \in Int /\ d[3] \in Int /\ s[1] \in Int /\ s[2] \in Int
    BY <1>4
  <2>1. Dot(d, Products(s)) = d[1] * 1 + d[2] * s[1] + d[3] * (s[1] * s[2])
    BY <1>1, <1>4, <1>p DEF Dot
  <2>2. Nest(d, s) = d[1] + s[1] * (d[2] + s[2] * d[3])
    BY <1>1, <1>4 DEF Nest
  <2>. QED
    BY <2>1, <2>2, Expand3, SMTT(30)
<1>5. CASE n = 4
  <2>. d[1] \in Int /\ d[2] \in Int /\ d[3] \in Int /\ d[4] \in Int /\ s[1] \in Int /\ s[2] \in Int /\ s[3] \in Int
    BY <1>5
  <2>1. Dot(d, Products(s)) = d[1] * 1 + d[2] * s[1] + d[3] * (s[1] * s[2]) + d[4] * (s[1] * s[2] * s[3])
    BY <1>1, <1>5, <1>p DEF Dot
  <2>2. Nest(d, s) = d[1] + s[1] * (d[2] + s[2] * (d[3] + s[3] * d[4]))
    BY <1>1, <1>5 DEF Nest
  <2>3. ASSUME NEW e1, NEW e2, NEW e3, NEW e4, NEW p, NEW q, NEW r,
               e1 = d[1], e2 = d[2], e3 = d[3], e4 = d[4], p = s[1], q = s[2], r = s[3]
        PROVE  Dot(d, Products(s)) = Nest(d, s)
    <3>1. Dot(d, Products(s)) = e1 * 1 + e2 * p + e3 * (p * q) + e4 * (p * q * r)
      BY <2>1, <2>3
    <3>2. Nest(d, s) = e1 + p * (e2 + q * (e3 + r * e4))
      BY <2>2, <2>3
    <3>3. e1 \in Int /\ e2 \in Int /\ e3 \in Int /\ e4 \in Int /\ p \in Int /\ q \in Int /\ r \in Int
      BY <2>3
    <3>. QED
      BY <3>1, <3>2, <3>3, Expand4
  <2>. QED
    BY <2>3
<1>. QED
  BY <1>2, <1>3, <1>4, <1>5

\* One distance after another: Nest is linear in its first argument.
LEMMA Additive ==
  ASSUME NEW n \in 1..4, NEW u \in [1..n -> Int], NEW v \in [1..n -> Int],
         NEW s \in [1..n -> Int]
  PROVE  Nest(u, s) + Nest(v, s) = Nest([k \in 1..n |-> u[k] + v[k]], s)
<1>. DEFINE w == [k \in 1..n |-> u[k] + v[k]]
<1>1. w \in [1..n -> Int]
  OBVIOUS
<1>2. Len(u) = n /\ Len(v) = n /\ Len(w) = n
  BY <1>1, VecLen
<1>3. \A k \in 1..n : u[k] \in Int /\ v[k] \in Int /\ s[k] \in Int /\ w[k] = u[k] + v[k]
  OBVIOUS
<1>. HIDE DEF w
<1>4. CASE n = 1
  BY <1>2, <1>3, <1>4 DEF Nest
<1>5. CASE n = 2
  <2>1. u[1] \in Int /\ u[2] \in Int /\ v[1] \in Int /\ v[2] \in Int /\ s[1] \in Int
        /\ w[1] = u[1] + v[1] /\ w[2] = u[2] + v[2]
    BY <1>3, <1>5
  <2>. QED
    BY <1>2, <1>5, <2>1 DEF Nest
<1>6. CASE n = 3
  <2>1. u[1] \in Int /\ u[2] \in Int /\ u[3] \in Int /\ v[1] \in Int /\ v[2] \in Int /\ v[3] \in Int
        /\ s[1] \in Int /\ s[2] \in Int
        /\ w[1] = u[1] + v[1] /\ w[2] = u[2] + v[2] /\ w[3] = u[3] + v[3]
    BY <1>3, <1>6
  <2>. QED
    BY <1>2, <1>6, <2>1 DEF Nest
<1>7. CASE n = 4
  <2>1. u[1] \in Int /\ u[2] \in Int /\ u[3] \in Int /\ u[4] \in Int
        /\ v[1] \in Int /\ v[2] \in Int /\ v[3] \in Int /\ v[4] \in Int
        /\ s[1] \in Int /\ s[2] \in Int /\ s[3] \in Int
        /\ w[1] = u[1] + v[1] /\ w[2] = u[2] + v[2] /\ w[3] = u[3] + v[3] /\ w[4] = u[4] + v[4]
    BY <1>3, <1>7
  <2>. QED
    BY <1>2, <1>7, <2>1 DEF Nest
<1>. QED
  BY <1>4, <1>5, <1>6, <1>7 DEF w

LEMMA NestType ==
  ASSUME NEW n \in 1..4, NEW d \in [1..n -> Int], NEW s \in [1..n -> Int]
  PROVE  Nest(d, s) \in Int
<1>1. Len(d) = n
  BY VecLen
<1>2. CASE n = 1
  BY <1>1, <1>2 DEF Nest
<1>3. CASE n = 2
  BY <1>1, <1>3 DEF Nest
<1>4. CASE n = 3
  BY <1>1, <1>4 DEF Nest
<1>5. CASE n = 4
  BY <1>1, <1>5 DEF Nest
<1>. QED
  BY <1>2, <1>3, <1>4, <1>5

\* The Fortran index that coordinate x of a buffer stands for.
Index(x) == [k \in DOMAIN x |-> x[k] + 1]

\* The shapes of arrays of rank n, declared with any bounds.
Shapes(n) == [1..n -> [lo : Int, hi : Int]]

LEMMA MinusType ==
  ASSUME NEW n \in 1..4, NEW u \in [1..n -> Int], NEW v \in [1..n -> Int]
  PROVE  /\ Minus(u, v) = [k \in 1..n |-> u[k] - v[k]]
         /\ Minus(u, v) \in [1..n -> Int]
<1>1. Len(u) = n
  BY VecLen
<1>2. Minus(u, v) = [k \in 1..n |-> u[k] - v[k]]
  BY <1>1 DEF Minus
<1>. QED
  BY <1>2

\* The output buffer an array's glue describes reaches, at coordinate x, the
\* element of the Fortran array with index x + 1: the host offset brings the
\* kernel to the box lb..ub and the strides step through the whole array,
\* whatever its declared bounds, its rank and the box.
THEOREM OutAddress ==
  ASSUME NEW n \in 1..4, NEW shape \in Shapes(n), NEW elem \in Int,
         NEW ub \in [1..n -> Int], NEW lb \in [1..n -> Int], NEW x \in [1..n -> Int]
  PROVE  Address(elem, OutBuffer(elem, ub, lb, shape), x)
           = FortranAddress(elem, shape, Index(x))
<1>. DEFINE S == ArrayExprs(ub, lb, shape).stride
            low == Lower(shape)
            u == Minus(lb, low)
            v == Minus(x, [k \in 1..n |-> lb[k] - 1])
            y == [k \in 1..n |-> x[k] + 1]
<1>1. Len(shape) = n /\ Len(lb) = n /\ Len(x) = n /\ Len(y) = n
  <2>1. y \in [1..n -> Int]
    OBVIOUS
  <2>. QED
    BY <2>1, VecLen DEF Shapes
<1>2. S \in [1..n -> Int] /\ S = [k \in 1..Len(shape) |-> shape[k].hi - shape[k].lo + 1]
  BY <1>1, SMTT(30) DEF ArrayExprs, Shapes
<1>3. low \in [1..n -> Int]
  BY <1>1 DEF Lower, Shapes
<1>4. u \in [1..n -> Int] /\ v \in [1..n -> Int]
  <2>1. [k \in 1..n |-> lb[k] - 1] \in [1..n -> Int]
    OBVIOUS
  <2>. QED
    BY <2>1, <1>3, MinusType
<1>5. Minus(y, low) = [k \in 1..n |-> u[k] + v[k]]
  <2>1. y \in [1..n -> Int]
    OBVIOUS
  <2>2. Minus(y, low) = [k \in 1..n |-> y[k] - low[k]]
    BY <2>1, <1>3, MinusType
  <2>3. \A k \in 1..n : u[k] = lb[k] - low[k] /\ v[k] = x[k] - (lb[k] - 1) /\ y[k] = x[k] + 1
    BY <1>1 DEF Minus
  <2>4. \A k \in 1..n : y[k] - low[k] = u[k] + v[k]
    <3>1. ASSUME NEW k \in 1..n
          PROVE  y[k] - low[k] = u[k] + v[k]
      <4>1. lb[k] \in Int /\ x[k] \in Int /\ low[k] \in Int
        BY <1>3
      <4>2. u[k] = lb[k] - low[k] /\ v[k] = x[k] - (lb[k] - 1) /\ y[k] = x[k] + 1
        BY <2>3
      <4>. HIDE DEF u, v, y, low, S
      <4>. QED
        BY <4>1, <4>2, SMTT(30)
    <3>. QED
      BY <3>1
  <2>. HIDE DEF u, v, low, y
  <2>. QED
    BY <2>2, <2>4
<1>6. ArrayExprs(lb, lb, shape).stride = S
  BY DEF ArrayExprs
<1>7. ArrayExprs(ub, lb, shape).min = [k \in 1..n |-> lb[k] - 1]
  BY <1>1 DEF ArrayExprs
<1>8. Address(elem, OutBuffer(elem, ub, lb, shape), x) = elem * Nest(u, S) + elem * Dot(v, Products(S))
  BY <1>6, <1>7 DEF Address, OutBuffer, HostOffset
<1>9. FortranAddress(elem, shape, y) = elem * Nest(Minus(y, low), S)
  BY <1>2 DEF FortranAddress
<1>. HIDE DEF u, v, y, S, low
<1>10. Dot(v, Products(S)) = Nest(v, S)
  BY <1>2, <1>4, Horner
<1>11. Nest(u, S) + Nest(v, S) = Nest(Minus(y, low), S)
  <2>1. Nest(u, S) + Nest(v, S) = Nest([k \in 1..n |-> u[k] + v[k]], S)
    BY <1>2, <1>4, Additive, ZenonT(60)
  <2>. QED
    BY <2>1, <1>5
<1>12. Nest(u, S) \in Int /\ Nest(v, S) \in Int
  BY <1>2, <1>4, NestType
<1>13. elem * Nest(u, S) + elem * Nest(v, S) = elem * (Nest(u, S) + Nest(v, S))
  BY <1>12
<1>14. Address(elem, OutBuffer(elem, ub, lb, shape), x) = FortranAddress(elem, shape, y)
  BY <1>8, <1>9, <1>10, <1>11, <1>13
<1>15. Index(x) = y
  BY DEF Index, y
<1>. QED
  BY <1>14, <1>15

\* The input buffer describes the whole array, in the same coordinates: element
\* x of the kernel's input is element x + 1 of the Fortran array.
THEOREM InAddress ==
  ASSUME NEW n \in 1..4, NEW shape \in Shapes(n), NEW elem \in Int,
         NEW x \in [1..n -> Int]
  PROVE  Address(elem, InBuffer(shape), x)
           = FortranAddress(elem, shape, Index(x))
<1>. DEFINE S == InputArgs(shape).stride
            y == [k \in 1..n |-> x[k] + 1]
            v == Minus(x, InputArgs(shape).min)
<1>1. Len(shape) = n /\ Len(x) = n /\ Len(y) = n
  <2>1. y \in [1..n -> Int]
    OBVIOUS
  <2>. QED
    BY <2>1, VecLen DEF Shapes
<1>2. S \in [1..n -> Int] /\ S = [k \in 1..Len(shape) |-> shape[k].hi - shape[k].lo + 1]
  BY <1>1 DEF InputArgs, ArrayExprs, Shapes
<1>3. v \in [1..n -> Int] /\ v = Minus(y, Lower(shape))
  <2>1. v = [k \in 1..n |-> x[k] - (shape[k].lo - 1)]
    BY <1>1 DEF Minus, InputArgs, ArrayExprs, Lower
  <2>2. Minus(y, Lower(shape)) = [k \in 1..n |-> (x[k] + 1) - shape[k].lo]
    BY <1>1 DEF Minus, Lower
  <2>3. \A k \in 1..n : x[k] \in Int /\ shape[k].lo \in Int
    BY DEF Shapes
  <2>4. \A k \in 1..n : x[k] - (shape[k].lo - 1) = (x[k] + 1) - shape[k].lo /\ x[k] - (shape[k].lo - 1) \in Int
    BY <2>3
  <2>. HIDE DEF v, y
  <2>5. [k \in 1..n |-> x[k] - (shape[k].lo - 1)] = [k \in 1..n |-> (x[k] + 1) - shape[k].lo]
    BY <2>4, Zenon
  <2>. QED
    BY <2>1, <2>2, <2>4, <2>5
<1>4. Address(elem, InBuffer(shape), x) = 0 + elem * Dot(v, Products(S))
  BY DEF Address, InBuffer
<1>5. FortranAddress(elem, shape, y) = elem * Nest(v, S)
  BY <1>2, <1>3 DEF FortranAddress
<1>. HIDE DEF S, v, y
<1>6. Dot(v, Products(S)) = Nest(v, S)
  BY <1>2, <1>3, Horner
<1>7. elem * Nest(v, S) \in Int
  <2>1. Nest(v, S) \in Int
    BY <1>2, <1>3, NestType
  <2>. QED
    BY <2>1
<1>8. Address(elem, InBuffer(shape), x) = FortranAddress(elem, shape, y)
  BY <1>4, <1>5, <1>6, <1>7
<1>9. Index(x) = y
  BY DEF Index, y
<1>. QED
  BY <1>8, <1>9

------------------------------------------------------------------------------
(* The kernel. *)

Modes == {"Unknown", "Input", "Output", "InOut"}

\* Tasks hold values of the output arrays.
RegistersHoldValues ==
  /\ reg = [t \in Tasks |-> reg[t]]
  /\ \A t \in Tasks : reg[t] # <<>> =>
       \A n \in Assigns : \A x \in DOMAIN reg[t][n] : reg[t][n][x] \in Val

IInv == TypeOK /\ ModesExact /\ RegistersHoldValues

------------------------------------------------------------------------------
(* An assignment of a body and its reads mention arrays only. *)
LEMMA BodyType ==
  ASSUME NEW b \in Bodies, NEW n \in 1..Len(b)
  PROVE  /\ Len(b) \in Nat
         /\ b[n].w \in Arrays
         /\ Len(b[n].rd) \in Nat
         /\ \A k \in 1..Len(b[n].rd) : b[n].rd[k].a \in Arrays
<1>1. b \in Seq(Assignments)
  BY KernelAssumption
<1>2. b[n] \in Assignments /\ Len(b) \in Nat
  BY <1>1, ElementOfSeq, LenProperties
<1>3. b[n].rd \in Seq([a : Arrays, off : [1..Rank -> Int]]) /\ b[n].w \in Arrays
  BY <1>2 DEF Assignments
<1>4. \A k \in 1..Len(b[n].rd) : b[n].rd[k] \in [a : Arrays, off : [1..Rank -> Int]]
  BY <1>3, ElementOfSeq
<1>. QED
  BY <1>2, <1>3, <1>4, LenProperties

(* There is at least one vector in a row. *)
LEMMA StepsType == Steps \in Nat
<1>. DEFINE e == Box.extent[1]
<1>1. Rank \in Nat /\ 1 \in 1..Rank
  BY KernelAssumption
<1>2. PICK a \in Arrays : a = CHOOSE c \in Arrays : TRUE
  BY KernelAssumption
<1>3. Len(Shape[a]) = Rank
  <2>1. Shape[a] \in [1..Rank -> [lo : Int, hi : Int]]
    BY KernelAssumption
  <2>. QED
    BY <2>1, <1>1, LenProperties, SeqDef
<1>4. Box.extent = [k \in 1..Rank |-> LoopHi[k] - LoopLo[k] + 1]
  BY <1>2, <1>3 DEF Box, Out, OutBuffer, ArrayExprs
<1>5. e \in Nat
  BY <1>1, <1>4, KernelAssumption, SMTT(30)
<1>6. Vec \in Nat /\ Vec > 0
  BY KernelAssumption
<1>. HIDE DEF e
<1>7. (e + Vec - 1) \div Vec \in Nat
  BY <1>5, <1>6
<1>. QED
  BY <1>7 DEF Steps, VectorsPerRow, e

(* A read yields a value, whether or not it is inside its array. *)
LEMMA ComputeType ==
  ASSUME TypeOK, NEW n \in Assigns, NEW x
  PROVE  Compute(n, x) \in Val
<1>1. body \in Bodies /\ mem \in [Arrays -> [Locs -> Val]]
  BY DEF TypeOK
<1>2. \A m, y : \A a \in Arrays : m \in [Arrays -> [Locs -> Val]] => Read(m, a, y) \in Val
  BY ValueAssumption DEF Read
<1>3. \A k \in 1..Len(body[n].rd) : body[n].rd[k].a \in Arrays
  BY <1>1, BodyType DEF Assigns
<1>. DEFINE at(r) == Address(Elem, InBuffer(Shape[r.a]), Plus(x, r.off))
            val(k) == IF HasInput(body[n].rd[k].a) THEN Read(mem, body[n].rd[k].a, at(body[n].rd[k])) ELSE Wild
            vals == [k \in 1..Len(body[n].rd) |-> val(k)]
<1>4. \A k \in 1..Len(body[n].rd) : val(k) \in Val
  <2>. HIDE DEF at
  <2>. QED
    BY <1>1, <1>2, <1>3, ValueAssumption
<1>5. vals \in [1..Len(body[n].rd) -> Val]
  <2>. HIDE DEF val
  <2>. QED
    BY <1>4
<1>6. Eval(n, vals) \in Val
  <2>. HIDE DEF vals
  <2>. QED
    BY <1>1, <1>5, ValueAssumption DEF Assigns
<1>. QED
  BY <1>6 DEF Compute

------------------------------------------------------------------------------
LEMMA InitIInv == Init => IInv
<1>. SUFFICES ASSUME Init PROVE IInv
  OBVIOUS
<1>1. Len(body) \in Nat
  <2>1. body \in Seq(Assignments)
    BY KernelAssumption DEF Init
  <2>. QED
    BY <2>1, LenProperties
<1>2. TypeOK
  BY <1>1, StepsType, ValueAssumption DEF Init, TypeOK
<1>3. ModesExact
  BY DEF Init, ModesExact
<1>4. RegistersHoldValues
  BY DEF Init, RegistersHoldValues
<1>. QED
  BY <1>2, <1>3, <1>4 DEF IInv

(* Visiting an assignment: each mode remains the union of the array's uses. *)
LEMMA VisitIInv ==
  ASSUME IInv, Visit
  PROVE  IInv'
<1>. DEFINE s == body[seen + 1]
            m == [mode EXCEPT ![s.w] = SetMode(@, TRUE)]
            W(a) == \E n \in 1..seen : body[n].w = a
            R(a) == \E n \in 1..seen : a \in ReadBy(body[n])
            U(w, r) == CASE w /\ r -> "InOut"
                         [] w /\ ~ r -> "Output"
                         [] r /\ ~ w -> "Input"
                         [] OTHER -> "Unknown"
<1>1. body \in Bodies /\ seen \in Nat /\ seen + 1 \in 1..Len(body) /\ Len(body) \in Nat
  <2>1. body \in Seq(Assignments)
    BY KernelAssumption DEF IInv, TypeOK
  <2>. QED
    BY <2>1, LenProperties DEF IInv, TypeOK, Visit
<1>2. s.w \in Arrays
  BY <1>1, BodyType
<1>3. \A a \in Arrays : mode[a] = U(W(a), R(a))
  BY DEF IInv, ModesExact
<1>4. /\ seen' = seen + 1
      /\ mode' = [a \in Arrays |-> IF a \in ReadBy(s) THEN SetMode(m[a], FALSE) ELSE m[a]]
      /\ UNCHANGED <<body, pc, pos, reg, mem>>
  BY DEF Visit
<1>5. \A a \in Arrays : /\ W(a)' = (W(a) \/ s.w = a)
                        /\ R(a)' = (R(a) \/ a \in ReadBy(s))
  <2>. TAKE a \in Arrays
  <2>1. \A n : n \in 1..(seen + 1) <=> n \in 1..seen \/ n = seen + 1
    BY <1>1
  <2>2. W(a)' = (\E n \in 1..(seen + 1) : body[n].w = a)
    BY <1>4
  <2>3. R(a)' = (\E n \in 1..(seen + 1) : a \in ReadBy(body[n]))
    BY <1>4 DEF ReadBy, Range
  <2>. QED
    BY <2>1, <2>2, <2>3, Zenon
<1>6. \A a \in Arrays : m[a] = U(W(a) \/ s.w = a, R(a))
  <2>. TAKE a \in Arrays
  <2>1. m[a] = IF a = s.w THEN SetMode(mode[a], TRUE) ELSE mode[a]
    BY <1>2 DEF IInv, TypeOK
  <2>2. SetMode(U(W(a), R(a)), TRUE) = U(TRUE, R(a))
    BY DEF SetMode
  <2>. HIDE DEF W, R, m, s
  <2>. QED
    BY <2>1, <2>2, <1>3
<1>7. \A a \in Arrays : mode'[a] = U(W(a) \/ s.w = a, R(a) \/ a \in ReadBy(s))
  <2>. TAKE a \in Arrays
  <2>1. mode'[a] = IF a \in ReadBy(s) THEN SetMode(m[a], FALSE) ELSE m[a]
    BY <1>4
  <2>2. SetMode(U(W(a) \/ s.w = a, R(a)), FALSE) = U(W(a) \/ s.w = a, TRUE)
    BY DEF SetMode
  <2>. HIDE DEF W, R, m, s
  <2>. QED
    BY <2>1, <2>2, <1>6
<1>8. ModesExact'
  <2>1. \A a \in Arrays : mode'[a] = U(W(a)', R(a)')
    <3>. HIDE DEF W, R, s, U
    <3>. QED
      BY <1>5, <1>7
  <2>. QED
    BY <2>1 DEF ModesExact
<1>9. mode' \in [Arrays -> Modes]
  <2>1. \A a \in Arrays : mode'[a] \in Modes
    <3>. HIDE DEF W, R, s
    <3>. QED
      BY <1>7 DEF Modes
  <2>2. mode' = [a \in Arrays |-> mode'[a]]
    BY <1>4
  <2>. QED
    BY <2>1, <2>2
<1>10. TypeOK'
  <2>1. seen' \in 0..Len(body)
    BY <1>1, <1>4
  <2>2. body' = body /\ pc' = pc /\ pos' = pos /\ reg' = reg /\ mem' = mem
    BY <1>4
  <2>. HIDE DEF s, m, W, R, U
  <2>. QED
    BY <2>1, <2>2, <1>9 DEF IInv, TypeOK, Assigns, Modes
<1>11. RegistersHoldValues'
  BY <1>4 DEF IInv, RegistersHoldValues, Assigns
<1>. QED
  BY <1>8, <1>10, <1>11 DEF IInv

(* Loading a vector. *)
LEMMA LoadIInv ==
  ASSUME IInv, NEW t \in Tasks, Load(t)
  PROVE  IInv'
<1>. DEFINE new == [n \in Assigns |-> [x \in Lanes(t, pos[t] + 1) |-> Compute(n, x)]]
<1>1. reg' = [reg EXCEPT ![t] = new] /\ UNCHANGED <<body, seen, mode, pc, pos, mem>> /\ pos[t] < Steps
  BY DEF Load
<1>2. reg = [u \in Tasks |-> reg[u]]
  BY DEF IInv, RegistersHoldValues
<1>3. DOMAIN new = Assigns
  OBVIOUS
<1>4. \A n \in Assigns : \A x \in DOMAIN new[n] : new[n][x] \in Val
  BY ComputeType DEF IInv
<1>. HIDE DEF new
<1>5. \A u \in Tasks : reg'[u] = IF u = t THEN new ELSE reg[u]
  BY <1>1, <1>2
<1>6. TypeOK'
  BY <1>1, <1>3, <1>5 DEF IInv, TypeOK, Assigns
<1>7. ModesExact'
  BY <1>1 DEF IInv, ModesExact
<1>8. RegistersHoldValues'
  <2>1. reg' = [u \in Tasks |-> reg'[u]]
    BY <1>1, <1>2
  <2>. QED
    BY <2>1, <1>1, <1>4, <1>5 DEF IInv, RegistersHoldValues, Assigns
<1>. QED
  BY <1>6, <1>7, <1>8 DEF IInv

(* Storing a vector. *)
LEMMA StoreIInv ==
  ASSUME IInv, NEW t \in Tasks, Store(t)
  PROVE  IInv'
<1>1. /\ reg' = [reg EXCEPT ![t] = <<>>]
      /\ pos' = [pos EXCEPT ![t] = @ + 1]
      /\ UNCHANGED <<body, seen, mode, pc>>
      /\ reg[t] # <<>>
  BY DEF Store
<1>2. reg = [u \in Tasks |-> reg[u]]
  BY DEF IInv, RegistersHoldValues
<1>3. \A u \in Tasks : reg'[u] = IF u = t THEN <<>> ELSE reg[u]
  BY <1>1, <1>2
<1>4. pos' \in [Tasks -> 0..Steps] /\ \A u \in Tasks : u # t => pos'[u] = pos[u]
  BY <1>1, StepsType DEF IInv, TypeOK
<1>5. \A a, b : Computed(t, a, b) \subseteq Val
  <2>1. DOMAIN reg[t] = Assigns /\ \A n \in Assigns : \A x \in DOMAIN reg[t][n] : reg[t][n][x] \in Val
    BY <1>1 DEF IInv, TypeOK, RegistersHoldValues
  <2>. QED
    BY <2>1 DEF Computed
<1>6. mem' \in [Arrays -> [Locs -> Val]]
  <2>1. mem' = [a \in Arrays |-> [b \in Locs |->
          IF Computed(t, a, b) = {} THEN mem[a][b]
          ELSE CHOOSE v \in Val : v \in Computed(t, a, b)]]
    BY DEF Store
  <2>2. \A a \in Arrays : \A b \in Locs :
          (IF Computed(t, a, b) = {} THEN mem[a][b]
           ELSE CHOOSE v \in Val : v \in Computed(t, a, b)) \in Val
    BY <1>5 DEF IInv, TypeOK
  <2>. QED
    BY <2>1, <2>2
<1>7. TypeOK'
  BY <1>1, <1>3, <1>4, <1>6 DEF IInv, TypeOK, Assigns
<1>8. ModesExact'
  BY <1>1 DEF IInv, ModesExact
<1>9. RegistersHoldValues'
  <2>1. reg' = [u \in Tasks |-> reg'[u]]
    BY <1>1, <1>2
  <2>. QED
    BY <2>1, <1>1, <1>3 DEF IInv, RegistersHoldValues, Assigns
<1>. QED
  BY <1>7, <1>8, <1>9 DEF IInv

(* The invariant: what the threads hold, what memory holds, and the modes. *)
THEOREM Inductive == Spec => []IInv
<1>1. IInv /\ [Next]_vars => IInv'
  <2>. SUFFICES ASSUME IInv, [Next]_vars PROVE IInv'
    OBVIOUS
  <2>1. CASE Visit
    BY <2>1, VisitIInv
  <2>2. CASE Call
    BY <2>2 DEF Call, IInv, TypeOK, ModesExact, RegistersHoldValues, Assigns
  <2>3. CASE Return
    BY <2>3 DEF Return, IInv, TypeOK, ModesExact, RegistersHoldValues, Assigns
  <2>4. ASSUME NEW t \in Tasks, Load(t) PROVE IInv'
    BY <2>4, LoadIInv
  <2>5. ASSUME NEW t \in Tasks, Store(t) PROVE IInv'
    BY <2>5, StoreIInv
  <2>6. CASE UNCHANGED vars
    BY <2>6 DEF vars, IInv, TypeOK, ModesExact, RegistersHoldValues, Assigns
  <2>. QED
    BY <2>1, <2>2, <2>3, <2>4, <2>5, <2>6 DEF Next
<1>. QED
  BY InitIInv, <1>1, PTL DEF Spec

(* Type correctness: every task stays within its vectors, holds the values of *)
(* one vector at a time, and memory holds values only (Kernel's Load, Store). *)
THEOREM Typing == Spec => []TypeOK
<1>1. IInv => TypeOK
  BY DEF IInv
<1>. QED
  BY <1>1, Inductive, PTL

(* setMode, applied in any order of the assignments, leaves each array the    *)
(* union of its uses, so the kernel gets the buffers it needs.                *)
THEOREM ModesAreUnions == Spec => []ModesExact
<1>1. IInv => ModesExact
  BY DEF IInv
<1>. QED
  BY <1>1, Inductive, PTL

------------------------------------------------------------------------------
\* Arithmetic.

(* Positions in rows of equal length. *)
LEMMA RowPosition ==
  ASSUME NEW s \in Nat \ {0}, NEW a \in 0..s - 1, NEW c \in 0..s - 1, NEW b \in Int, NEW d \in Int,
         a + s * b = c + s * d
  PROVE  a = c /\ b = d
<1>1. \A z \in Int : z >= 1 => s * z >= s
  OBVIOUS
<1>2. s * (d - b) = a - c /\ s * (b - d) = c - a
  OBVIOUS
<1>3. ~(d - b >= 1) /\ ~(b - d >= 1)
  BY <1>1, <1>2
<1> QED BY <1>3

(* Multiples. *)
LEMMA MultipleMod ==
  ASSUME NEW e \in Nat \ {0}, NEW k \in Int
  PROVE  (e * k) % e = 0
<1> DEFINE r == (e * k) % e
           q == (e * k) \div e
<1>1. e * k = e * q + r /\ r \in 0..e - 1 /\ q \in Int
  OBVIOUS
<1> HIDE DEF r, q
<1>2. 0 + e * k = r + e * q
  BY <1>1
<1>3. 0 = r
  BY <1>1, <1>2, RowPosition
<1> QED BY <1>3 DEF r

(* Division. *)
LEMMA Quotient ==
  ASSUME NEW e \in Nat \ {0}, NEW y \in Nat
  PROVE  /\ y \div e \in Nat
         /\ e * (y \div e) <= y /\ y < e * (y \div e) + e
OBVIOUS

------------------------------------------------------------------------------
\* The coordinates of the nest's iterations.
Coordinates ==
  {x \in [1..Rank -> Int] : \A k \in 1..Rank : LoopLo[k] - 1 <= x[k] /\ x[k] <= LoopHi[k] - 1}
Place(a, x) == Address(Elem, Out(a), x)

(* The ranks, bounds and shapes there are. *)
LEMMA Given ==
  /\ Rank \in 1..2 /\ Rank \in 1..4 /\ 1..Rank \subseteq {1, 2} /\ 1 \in 1..Rank
  /\ LoopLo \in [1..Rank -> Int] /\ LoopHi \in [1..Rank -> Int]
  /\ \A k \in 1..Rank : LoopLo[k] <= LoopHi[k]
  /\ Shape \in [Arrays -> Shapes(Rank)]
  /\ \A a \in Arrays : Len(Shape[a]) = Rank
  /\ Vec \in Nat \ {0} /\ Elem \in Nat \ {0}
<1>1. Rank \in 1..2
  BY KernelAssumption
<1>2. Rank \in 1..4 /\ 1..Rank \subseteq {1, 2} /\ 1 \in 1..Rank
  BY <1>1
<1>3. Shape \in [Arrays -> Shapes(Rank)]
  BY KernelAssumption DEF Shapes
<1>4. \A a \in Arrays : Len(Shape[a]) = Rank
  BY <1>2, <1>3, VecLen DEF Shapes
<1> QED BY <1>1, <1>2, <1>3, <1>4, KernelAssumption

(* The kernel's box. *)
LEMMA BoxIs ==
  /\ Box.extent = [k \in 1..Rank |-> LoopHi[k] - LoopLo[k] + 1]
  /\ Box.min = [k \in 1..Rank |-> LoopLo[k] - 1]
<1>1. PICK a \in Arrays : a = CHOOSE c \in Arrays : TRUE
  BY KernelAssumption
<1> QED BY <1>1, Given DEF Box, Out, OutBuffer, ArrayExprs

(* A coordinate's place is where Fortran has the iteration's element. *)
LEMMA PlaceIs ==
  ASSUME NEW a \in Arrays, NEW x \in [1..Rank -> Int]
  PROVE  Place(a, x) = FortranAddress(Elem, Shape[a], Index(x))
<1>1. /\ Rank \in 1..4 /\ Shape[a] \in Shapes(Rank) /\ Elem \in Int
      /\ LoopHi \in [1..Rank -> Int] /\ LoopLo \in [1..Rank -> Int]
  BY Given
<1>2. Address(Elem, OutBuffer(Elem, LoopHi, LoopLo, Shape[a]), x) = FortranAddress(Elem, Shape[a], Index(x))
  BY <1>1, OutAddress
<1> QED BY <1>2 DEF Place, Out

(* Declared bounds are integers. *)
LEMMA ShapeType ==
  ASSUME NEW a \in Arrays, NEW k \in 1..Rank
  PROVE  Shape[a][k].lo \in Int /\ Shape[a][k].hi \in Int
<1>1. Shape[a] \in [1..Rank -> [lo : Int, hi : Int]]
  BY Given DEF Shapes
<1>2. Shape[a][k] \in [lo : Int, hi : Int]
  BY <1>1
<1> QED BY <1>2

\* The place of element x of row r, in an array whose rows are l..h.
Cell(e, l, h, x, r) == e * ((x - l) + (h - l + 1) * r)

\* The row of an element.
Row(a, y) == IF Rank = 1 THEN 0 ELSE y[2] - Shape[a][2].lo

(* Elements have places of their own. *)
LEMMA CellsDistinct ==
  ASSUME NEW e \in Nat \ {0}, NEW l \in Int, NEW h \in Int, NEW x \in l..h, NEW y \in l..h,
         NEW r \in Int, NEW q \in Int, Cell(e, l, h, x, r) = Cell(e, l, h, y, q)
  PROVE  x = y /\ r = q
<1> DEFINE s == h - l + 1
           a == (x - l) + s * r
           b == (y - l) + s * q
<1>1. s \in Nat \ {0} /\ x - l \in 0..s - 1 /\ y - l \in 0..s - 1
  OBVIOUS
<1>2. a \in Int /\ b \in Int
  OBVIOUS
<1>3. 0 + e * a = 0 + e * b
  BY DEF Cell
<1>4. a = b
  <2> HIDE DEF a, b
  <2>1. 0 \in 0..e - 1
    OBVIOUS
  <2> QED BY <1>2, <1>3, <2>1, RowPosition
<1>5. x - l = y - l /\ r = q
  <2> HIDE DEF s
  <2> QED BY <1>1, <1>4, RowPosition
<1> QED BY <1>5

(* Elements are inside their array, at multiples of an element's size. *)
LEMMA CellsInside ==
  ASSUME NEW e \in Nat \ {0}, NEW l \in Int, NEW h \in Int, NEW x \in l..h,
         NEW r \in Nat, NEW q \in Nat, r <= q
  PROVE  /\ Cell(e, l, h, x, r) \in 0..Cell(e, l, h, h, q)
         /\ Cell(e, l, h, x, r) % e = 0
<1> DEFINE s == h - l + 1
           a == (x - l) + s * r
           b == (h - l) + s * q
<1>1. s \in Nat /\ x - l \in Nat /\ x - l <= h - l
  OBVIOUS
<1>2. s * r \in Nat /\ s * q \in Nat /\ s * r <= s * q
  <2> HIDE DEF s
  <2> QED BY <1>1
<1>3. a \in Nat /\ b \in Nat /\ a <= b
  <2> HIDE DEF s
  <2>1. \A m, n \in Nat : m <= n => (x - l) + m \in Nat /\ (h - l) + n \in Nat /\ (x - l) + m <= (h - l) + n
    BY <1>1
  <2> QED BY <1>2, <2>1
<1>4. Cell(e, l, h, x, r) = e * a /\ Cell(e, l, h, h, q) = e * b
  BY DEF Cell
<1> HIDE DEF a, b
<1>5. e * a \in Nat /\ e * b \in Nat /\ e * a <= e * b
  BY <1>3
<1>6. (e * a) % e = 0
  BY <1>3, MultipleMod
<1> QED BY <1>4, <1>5, <1>6

(* The place of an element, relative to the array's first one. *)
LEMMA AddressIs ==
  ASSUME NEW a \in Arrays, NEW y \in [1..Rank -> Int]
  PROVE  FortranAddress(Elem, Shape[a], y) = Cell(Elem, Shape[a][1].lo, Shape[a][1].hi, y[1], Row(a, y))
<1> DEFINE S == [k \in 1..Len(Shape[a]) |-> Shape[a][k].hi - Shape[a][k].lo + 1]
           d == Minus(y, Lower(Shape[a]))
<1>1. Len(Shape[a]) = Rank /\ Len(y) = Rank /\ Rank \in 1..2
  BY Given, VecLen
<1>2. d = [k \in 1..Rank |-> y[k] - Shape[a][k].lo]
  BY <1>1 DEF Minus, Lower
<1>3. Len(d) = Rank
  <2>1. \A k \in 1..Rank : y[k] - Shape[a][k].lo \in Int
    BY ShapeType
  <2>2. d \in [1..Rank -> Int]
    BY <1>2, <2>1
  <2> QED BY <2>2, Given, VecLen
<1>4. S[1] = Shape[a][1].hi - Shape[a][1].lo + 1 /\ S[1] \in Int
  BY <1>1, ShapeType
<1>5. FortranAddress(Elem, Shape[a], y) = Elem * Nest(d, S)
  BY DEF FortranAddress
<1> HIDE DEF S, d
<1>6. Nest(d, S) = IF Rank = 1 THEN d[1] ELSE d[1] + S[1] * d[2]
  BY <1>1, <1>3 DEF Nest
<1>7. d[1] = y[1] - Shape[a][1].lo /\ (Rank = 2 => d[2] = y[2] - Shape[a][2].lo)
  BY <1>2, Given
<1>8. d[1] \in Int
  BY <1>7, ShapeType, Given
<1>9. CASE Rank = 1
  <2>1. d[1] + S[1] * 0 = d[1]
    BY <1>4, <1>8
  <2> QED BY <1>4, <1>5, <1>6, <1>7, <1>9, <2>1 DEF Cell, Row
<1>10. CASE Rank = 2
  BY <1>4, <1>5, <1>6, <1>7, <1>10 DEF Cell, Row
<1> QED BY <1>1, <1>9, <1>10

\* The nest stays within the array.
Within(a) ==
  \A k \in 1..Rank : Shape[a][k].lo <= LoopLo[k] /\ LoopHi[k] <= Shape[a][k].hi

(* The arrays assigned. *)
LEMMA AssignedWithin ==
  ASSUME NEW b \in Bodies, NEW n \in 1..Len(b)
  PROVE  b[n].w \in Arrays /\ Within(b[n].w)
BY BodyType, KernelAssumption DEF Within

(* A coordinate's iteration is within the array. *)
LEMMA CoordinateWithin ==
  ASSUME NEW a \in Arrays, Within(a), NEW x \in Coordinates, NEW k \in 1..Rank
  PROVE  /\ Shape[a][k].lo \in Int /\ Shape[a][k].hi \in Int /\ x[k] \in Int
         /\ Index(x)[k] = x[k] + 1 /\ Index(x)[k] \in Shape[a][k].lo..Shape[a][k].hi
<1> DEFINE lo == Shape[a][k].lo
           hi == Shape[a][k].hi
<1>1. /\ lo \in Int /\ hi \in Int /\ LoopLo[k] \in Int /\ LoopHi[k] \in Int
      /\ lo <= LoopLo[k] /\ LoopHi[k] <= hi
  BY ShapeType, Given DEF Within
<1>2. x[k] \in Int /\ LoopLo[k] - 1 <= x[k] /\ x[k] <= LoopHi[k] - 1 /\ Index(x)[k] = x[k] + 1
  BY DEF Coordinates, Index
<1> HIDE DEF lo, hi
<1>3. x[k] + 1 \in lo..hi
  BY <1>1, <1>2
<1> QED BY <1>1, <1>2, <1>3 DEF lo, hi

(* A coordinate's place in an array. *)
LEMMA PlaceCell ==
  ASSUME NEW a \in Arrays, Within(a), NEW x \in Coordinates
  PROVE  /\ x \in [1..Rank -> Int] /\ Index(x) \in [1..Rank -> Int]
         /\ Place(a, x) = Cell(Elem, Shape[a][1].lo, Shape[a][1].hi, Index(x)[1], Row(a, Index(x)))
         /\ Row(a, Index(x)) \in Nat
<1>1. x \in [1..Rank -> Int]
  BY DEF Coordinates
<1>2. Index(x) \in [1..Rank -> Int]
  BY <1>1 DEF Index
<1>3. Place(a, x) = Cell(Elem, Shape[a][1].lo, Shape[a][1].hi, Index(x)[1], Row(a, Index(x)))
  BY <1>1, <1>2, PlaceIs, AddressIs
<1>4. CASE Rank = 1
  BY <1>1, <1>2, <1>3, <1>4 DEF Row
<1>5. CASE Rank = 2
  <2>1. Index(x)[2] \in Shape[a][2].lo..Shape[a][2].hi /\ Shape[a][2].lo \in Int /\ Shape[a][2].hi \in Int
    BY <1>5, CoordinateWithin
  <2>2. Index(x)[2] - Shape[a][2].lo \in Nat
    <3>1. \A i, l, h \in Int : i \in l..h => i - l \in Nat
      OBVIOUS
    <3> QED BY <2>1, <3>1
  <2> QED BY <1>1, <1>2, <1>3, <1>5, <2>2 DEF Row
<1> QED BY <1>4, <1>5, Given

(* No two iterations write one element. *)
LEMMA PlacesDistinct ==
  ASSUME NEW a \in Arrays, Within(a), NEW x \in Coordinates, NEW y \in Coordinates,
         Place(a, x) = Place(a, y)
  PROVE  x = y
<1>1. Index(x)[1] = Index(y)[1] /\ Row(a, Index(x)) = Row(a, Index(y))
  <2>1. /\ Shape[a][1].lo \in Int /\ Shape[a][1].hi \in Int
        /\ Index(x)[1] \in Shape[a][1].lo..Shape[a][1].hi
        /\ Index(y)[1] \in Shape[a][1].lo..Shape[a][1].hi
    BY CoordinateWithin, Given
  <2>2. /\ Row(a, Index(x)) \in Int /\ Row(a, Index(y)) \in Int
        /\ Cell(Elem, Shape[a][1].lo, Shape[a][1].hi, Index(x)[1], Row(a, Index(x)))
              = Cell(Elem, Shape[a][1].lo, Shape[a][1].hi, Index(y)[1], Row(a, Index(y)))
    BY PlaceCell
  <2>3. Elem \in Nat \ {0}
    BY Given
  <2> QED BY <2>1, <2>2, <2>3, CellsDistinct
<1>2. \A k \in 1..Rank : Index(x)[k] = Index(y)[k]
  <2>1. CASE Rank = 1
    BY <1>1, <2>1
  <2>2. CASE Rank = 2
    <3>1. /\ Index(x)[2] \in Int /\ Index(y)[2] \in Int /\ Shape[a][2].lo \in Int
          /\ Index(x)[2] - Shape[a][2].lo = Index(y)[2] - Shape[a][2].lo
      BY <1>1, <2>2, CoordinateWithin DEF Row
    <3>2. \A i, j, l \in Int : i - l = j - l => i = j
      OBVIOUS
    <3>3. Index(x)[2] = Index(y)[2]
      BY <3>1, <3>2
    <3> QED BY <1>1, <2>2, <3>3
  <2> QED BY <2>1, <2>2, Given
<1>3. \A k \in 1..Rank : x[k] = y[k]
  <2> TAKE k \in 1..Rank
  <2>1. x[k] \in Int /\ y[k] \in Int /\ x[k] + 1 = y[k] + 1
    BY <1>2, CoordinateWithin
  <2>2. \A i, j \in Int : i + 1 = j + 1 => i = j
    OBVIOUS
  <2> QED BY <2>1, <2>2
<1>4. x \in [1..Rank -> Int] /\ y \in [1..Rank -> Int]
  BY DEF Coordinates
<1>5. x = [k \in 1..Rank |-> x[k]] /\ y = [k \in 1..Rank |-> y[k]]
  BY <1>4
<1>6. [k \in 1..Rank |-> x[k]] = [k \in 1..Rank |-> y[k]]
  BY <1>3, Zenon
<1> QED BY <1>5, <1>6, Zenon

(* What an iteration writes is in the array. *)
LEMMA PlaceInLocs ==
  ASSUME NEW a \in Arrays, Within(a), NEW x \in Coordinates
  PROVE  Place(a, x) \in Locs
<1> DEFINE top == Upper(Shape[a])
           l == Shape[a][1].lo
           h == Shape[a][1].hi
<1>1. top \in [1..Rank -> Int] /\ \A k \in 1..Rank : top[k] = Shape[a][k].hi
  <2>1. top = [k \in 1..Rank |-> Shape[a][k].hi]
    BY Given DEF Upper
  <2> QED BY <2>1, ShapeType
<1> HIDE DEF top
<1>2. Last(a) = Cell(Elem, l, h, h, Row(a, top))
  BY <1>1, AddressIs, Given DEF Last, top
<1>3. l \in Int /\ h \in Int /\ Index(x)[1] \in l..h
  BY CoordinateWithin, Given
<1>4. Row(a, Index(x)) \in Nat /\ Row(a, top) \in Nat /\ Row(a, Index(x)) <= Row(a, top)
  <2>1. CASE Rank = 1
    BY <2>1 DEF Row
  <2>2. CASE Rank = 2
    <3>1. /\ Shape[a][2].lo \in Int /\ Shape[a][2].hi \in Int
          /\ Index(x)[2] \in Shape[a][2].lo..Shape[a][2].hi /\ top[2] = Shape[a][2].hi
      BY <1>1, <2>2, CoordinateWithin
    <3>2. \A p, q, i \in Int : i \in p..q => i - p \in Nat /\ q - p \in Nat /\ i - p <= q - p
      OBVIOUS
    <3>3. Index(x)[2] \in Int
      BY <3>1
    <3> QED BY <2>2, <3>1, <3>2, <3>3 DEF Row
  <2> QED BY <2>1, <2>2, Given
<1>5. /\ Cell(Elem, l, h, Index(x)[1], Row(a, Index(x))) \in 0..Cell(Elem, l, h, h, Row(a, top))
      /\ Cell(Elem, l, h, Index(x)[1], Row(a, Index(x))) % Elem = 0
  <2> HIDE DEF l, h
  <2>1. Elem \in Nat \ {0}
    BY Given
  <2> QED BY <1>3, <1>4, <2>1, CellsInside
<1>6. Place(a, x) \in 0..Last(a) /\ Place(a, x) % Elem = 0
  BY <1>2, <1>5, PlaceCell
<1> QED BY <1>6 DEF Locs

------------------------------------------------------------------------------
\* The vectors of a row.

\* The offset in a row of e points of vector m, of width v.
Start(e, v, m) == IF m * v <= e THEN (m - 1) * v ELSE e - v

(* The vectors of a row stay in it ... *)
LEMMA VectorInRow ==
  ASSUME NEW v \in Nat \ {0}, NEW e \in Nat, e >= v, NEW m \in 1..((e + v - 1) \div v)
  PROVE  Start(e, v, m) \in 0..(e - v)
<1> DEFINE p == (m - 1) * v
<1>1. m * v = p + v /\ p \in Nat
  OBVIOUS
<1> HIDE DEF p
<1>2. (m * v <= e => p \in 0..(e - v)) /\ e - v \in 0..(e - v)
  BY <1>1
<1> QED BY <1>2 DEF Start, p

(* ... cover it ... *)
LEMMA VectorsCover ==
  ASSUME NEW v \in Nat \ {0}, NEW e \in Nat, e >= v, NEW i \in 0..(e - 1)
  PROVE  \E m \in 1..((e + v - 1) \div v) : i \in Start(e, v, m)..(Start(e, v, m) + v - 1)
<1> DEFINE q == i \div v
           last == (e + v - 1) \div v
           p == q * v
<1>1. q \in Nat /\ v * q <= i /\ i < v * q + v
  BY Quotient
<1>2. last \in Nat /\ v * last <= e + v - 1 /\ e + v - 1 < v * last + v
  <2> DEFINE y == e + v - 1
  <2>1. y \in Nat
    OBVIOUS
  <2> HIDE DEF y
  <2>2. y \div v \in Nat /\ v * (y \div v) <= y /\ y < v * (y \div v) + v
    BY <2>1, Quotient
  <2> QED BY <2>2 DEF y
<1> HIDE DEF q, last
<1>3. p = v * q /\ p \in Nat /\ (q + 1) * v = p + v
  BY <1>1
<1>4. q + 1 <= last
  <2>1. ~ (last <= q)
    <3>1. last <= q => v * last <= v * q
      BY <1>1, <1>2
    <3>2. v * last \in Int /\ v * q \in Int
      BY <1>1, <1>2
    <3> QED BY <1>1, <1>2, <3>1, <3>2
  <2> QED BY <1>1, <1>2, <2>1
<1>5. q + 1 \in 1..last
  BY <1>1, <1>2, <1>4
<1>6. i \in Start(e, v, q + 1)..(Start(e, v, q + 1) + v - 1)
  <2>1. Start(e, v, q + 1) = IF p + v <= e THEN p ELSE e - v
    BY <1>1, <1>3 DEF Start
  <2> HIDE DEF p
  <2>2. p <= i /\ i < p + v
    BY <1>1, <1>3
  <2>3. i \in p..(p + v - 1) /\ (~ (p + v <= e) => i \in (e - v)..(e - v + v - 1))
    BY <1>3, <2>2
  <2> QED BY <2>1, <2>3
<1> QED BY <1>5, <1>6 DEF last

(* ... and meet only in points of the last one that another one has, if it is *)
(* not full.                                                                  *)
LEMMA VectorsMeet ==
  ASSUME NEW v \in Nat \ {0}, NEW e \in Nat, e >= v,
         NEW m \in 1..((e + v - 1) \div v), NEW k \in 1..((e + v - 1) \div v), NEW i \in Int,
         i \in Start(e, v, m)..(Start(e, v, m) + v - 1),
         i \in Start(e, v, k)..(Start(e, v, k) + v - 1)
  PROVE  \/ m = k
         \/ /\ (m * v <= e) <=> ~ (k * v <= e)
            /\ e % v # 0 /\ e - v <= i /\ i < v * (e \div v)
<1> DEFINE last == (e + v - 1) \div v
           f == e \div v
<1>1. last \in Nat /\ v * last <= e + v - 1
  <2> DEFINE y == e + v - 1
  <2>1. y \in Nat
    OBVIOUS
  <2> HIDE DEF y
  <2>2. y \div v \in Nat /\ v * (y \div v) <= y
    BY <2>1, Quotient
  <2> QED BY <2>2 DEF y
<1>2. f \in Nat /\ v * f <= e /\ e < v * f + v /\ v * f \in Nat /\ (e % v = 0 => e = v * f)
  <2>1. f \in Nat /\ v * f <= e /\ e < v * f + v
    BY Quotient
  <2>2. e % v = 0 => e = v * f
    OBVIOUS
  <2> HIDE DEF f
  <2>3. v * f \in Nat
    BY <2>1
  <2> QED BY <2>1, <2>2, <2>3
<1>3. m \in 1..last /\ k \in 1..last
  OBVIOUS
<1> HIDE DEF f, last
<1>4. \A n \in 1..last : n * v <= e => n <= f
  <2> SUFFICES ASSUME NEW n \in 1..last, n * v <= e, n >= f + 1 PROVE FALSE
    BY <1>1, <1>2
  <2>1. n \in Nat
    BY <1>1
  <2>2. n * v >= v * f + v
    BY <1>2, <2>1
  <2>3. n * v \in Int
    BY <2>1
  <2> QED BY <1>2, <2>2, <2>3
<1>5. \A n \in 1..last : ~ (n * v <= e) => n = last
  <2> SUFFICES ASSUME NEW n \in 1..last, ~ (n * v <= e), n + 1 <= last PROVE FALSE
    BY <1>1
  <2>1. n \in Nat
    BY <1>1
  <2>2. v * last >= n * v + v
    BY <1>1, <2>1
  <2>3. n * v \in Int /\ v * last \in Int
    BY <1>1, <2>1
  <2> QED BY <1>1, <2>2, <2>3
<1>6. ASSUME NEW n \in 1..last, n * v <= e, i \in Start(e, v, n)..(Start(e, v, n) + v - 1)
      PROVE  i - (n - 1) * v \in 0..(v - 1) /\ i < v * f
  <2>1. n \in Nat
    BY <1>1
  <2> DEFINE s == (n - 1) * v
  <2>2. s \in Int /\ s + v = n * v
    BY <2>1
  <2>3. Start(e, v, n) = s
    BY <1>6 DEF Start
  <2>4. n * v <= v * f
    BY <1>2, <1>4, <1>6, <2>1
  <2>5. n * v \in Int
    BY <2>1
  <2> HIDE DEF s
  <2>6. i - s \in 0..(v - 1) /\ i < n * v
    BY <1>6, <2>2, <2>3
  <2>7. i < v * f
    BY <1>2, <2>4, <2>5, <2>6
  <2> QED BY <2>6, <2>7 DEF s
<1>7. ASSUME m * v <= e, k * v <= e PROVE m = k
  <2> DEFINE a == i - (m - 1) * v
             c == i - (k - 1) * v
  <2>1. a \in 0..(v - 1) /\ c \in 0..(v - 1)
    BY <1>3, <1>6, <1>7
  <2>2. m \in Int /\ k \in Int
    BY <1>1, <1>3
  <2>3. a + v * (m - 1) = c + v * (k - 1)
    BY <2>2
  <2> HIDE DEF a, c
  <2>4. m - 1 \in Int /\ k - 1 \in Int
    BY <2>2
  <2>5. m - 1 = k - 1
    BY <2>1, <2>3, <2>4, RowPosition
  <2> QED BY <2>2, <2>5
<1>8. ASSUME ~ (m * v <= e), ~ (k * v <= e) PROVE m = k
  BY <1>3, <1>5, <1>8
<1>9. ASSUME NEW a \in 1..last, NEW c \in 1..last, a * v <= e, ~ (c * v <= e),
             i \in Start(e, v, a)..(Start(e, v, a) + v - 1),
             i \in Start(e, v, c)..(Start(e, v, c) + v - 1)
      PROVE  e % v # 0 /\ e - v <= i /\ i < v * f
  <2>1. i < v * f
    BY <1>6, <1>9
  <2>2. Start(e, v, c) = e - v
    BY <1>9 DEF Start
  <2>3. e - v <= i
    BY <1>9, <2>2
  <2>4. ASSUME e % v = 0 PROVE FALSE
    <3>1. c \in Nat /\ c = last
      BY <1>1, <1>5, <1>9
    <3>2. c * v <= e + v - 1 /\ e = v * f /\ c * v \in Int
      BY <1>1, <1>2, <2>4, <3>1
    <3>3. c >= f + 1 => c * v >= v * f + v
      BY <1>2, <3>1
    <3>4. ~ (c >= f + 1)
      BY <1>2, <3>2, <3>3
    <3>5. c * v <= v * f
      BY <1>2, <3>1, <3>4
    <3> QED BY <1>9, <3>2, <3>5
  <2> QED BY <2>1, <2>3, <2>4
<1>10. CASE (m * v <= e) <=> (k * v <= e)
  BY <1>7, <1>8, <1>10
<1>11. CASE (m * v <= e) /\ ~ (k * v <= e)
  BY <1>3, <1>9, <1>11 DEF f
<1>12. CASE ~ (m * v <= e) /\ (k * v <= e)
  BY <1>3, <1>9, <1>12 DEF f
<1> QED BY <1>10, <1>11, <1>12

------------------------------------------------------------------------------
\* The schedule: which task computes which points.

\* The vector of its row that a task computes in step k.
VectorOf(t, k) == IF Rank = 1 THEN t ELSE k

(* The schedule in terms of a row's extent. *)
LEMMA ScheduleIs ==
  /\ Box.extent[1] = LoopHi[1] - LoopLo[1] + 1 /\ Box.extent[1] \in Nat
  /\ LoopLo[1] \in Int /\ LoopHi[1] \in Int
  /\ VectorsPerRow = (Box.extent[1] + Vec - 1) \div Vec
  /\ \A m : VectorStart(m) = LoopLo[1] - 1 + Start(Box.extent[1], Vec, m)
  /\ Rank = 2 => Tasks = (LoopLo[2] - 1)..(LoopHi[2] - 1)
  /\ \A t \in Tasks, k \in 1..Steps : VectorOf(t, k) \in 1..((Box.extent[1] + Vec - 1) \div Vec)
<1>1. Box.extent[1] = LoopHi[1] - LoopLo[1] + 1 /\ Box.min[1] = LoopLo[1] - 1
  BY BoxIs, Given
<1>2. LoopLo[1] \in Int /\ LoopHi[1] \in Int /\ LoopLo[1] <= LoopHi[1]
  BY Given
<1>3. Box.extent[1] \in Nat
  BY <1>1, <1>2
<1>4. \A m : VectorStart(m) = LoopLo[1] - 1 + Start(Box.extent[1], Vec, m)
  BY <1>1 DEF VectorStart, Start
<1>5. ASSUME Rank = 2 PROVE Tasks = (LoopLo[2] - 1)..(LoopHi[2] - 1)
  <2>1. Box.extent[2] = LoopHi[2] - LoopLo[2] + 1 /\ Box.min[2] = LoopLo[2] - 1
    BY <1>5, BoxIs
  <2>2. LoopLo[2] \in Int /\ LoopHi[2] \in Int
    BY <1>5, Given
  <2>3. Tasks = Box.min[2]..(Box.min[2] + Box.extent[2] - 1)
    BY <1>5 DEF Tasks
  <2> QED BY <2>1, <2>2, <2>3
<1>6. \A t \in Tasks, k \in 1..Steps : VectorOf(t, k) \in 1..((Box.extent[1] + Vec - 1) \div Vec)
  BY DEF VectorOf, Tasks, Steps, VectorsPerRow
<1> QED BY <1>1, <1>2, <1>3, <1>4, <1>5, <1>6 DEF VectorsPerRow

(* The points of a vector. *)
LEMMA LanesIs ==
  ASSUME NEW t \in Tasks, NEW k \in 1..Steps, NEW x
  PROVE  x \in Lanes(t, k) <=>
           LET s == Start(Box.extent[1], Vec, VectorOf(t, k)) IN
           \E i \in s..(s + Vec - 1) :
             x = IF Rank = 1 THEN <<LoopLo[1] - 1 + i>> ELSE <<LoopLo[1] - 1 + i, t>>
<1> DEFINE s == Start(Box.extent[1], Vec, VectorOf(t, k))
           b == LoopLo[1] - 1
           P(j) == IF Rank = 1 THEN <<j>> ELSE <<j, t>>
<1>1. VectorStart(VectorOf(t, k)) = b + s
  BY ScheduleIs
<1>2. x \in Lanes(t, k) <=> \E j \in (b + s)..(b + s + Vec - 1) : x = P(j)
  BY <1>1 DEF Lanes, VectorOf
<1>3. s \in Int /\ b \in Int /\ Vec \in Int
  <2>1. /\ VectorOf(t, k) \in 1..((Box.extent[1] + Vec - 1) \div Vec)
        /\ Box.extent[1] \in Nat /\ Vec \in Nat \ {0} /\ LoopLo[1] \in Int
    BY ScheduleIs, Given
  <2>2. VectorOf(t, k) \in Int
    BY <2>1
  <2>3. \A m \in Int : (m - 1) * Vec \in Int /\ Box.extent[1] - Vec \in Int
    BY <2>1
  <2> QED BY <2>1, <2>2, <2>3 DEF Start
<1> HIDE DEF s, b
<1>4. \A j : j \in (b + s)..(b + s + Vec - 1) <=> \E i \in s..(s + Vec - 1) : j = b + i
  <2> TAKE j
  <2>1. ASSUME j \in (b + s)..(b + s + Vec - 1) PROVE \E i \in s..(s + Vec - 1) : j = b + i
    <3>1. j - b \in s..(s + Vec - 1) /\ j = b + (j - b)
      BY <1>3, <2>1
    <3> QED BY <3>1
  <2>2. ASSUME NEW i \in s..(s + Vec - 1), j = b + i PROVE j \in (b + s)..(b + s + Vec - 1)
    BY <1>3, <2>2
  <2> QED BY <2>1, <2>2
<1> HIDE DEF P
<1>5. x \in Lanes(t, k) <=> \E i \in s..(s + Vec - 1) : x = P(b + i)
  BY <1>2, <1>4, Zenon
<1> QED BY <1>5 DEF P, s, b

(* The coordinates stand for the iterations. *)
LEMMA IterationsAre ==
  /\ \A x \in Coordinates : Index(x) \in Iterations
  /\ \A p \in Iterations : \E x \in Coordinates : Index(x) = p
<1>1. /\ Len(LoopLo) = Rank /\ 1..Rank \subseteq {1, 2}
      /\ LoopLo \in [1..Rank -> Int] /\ LoopHi \in [1..Rank -> Int]
  BY Given DEF Rank
<1>2. ASSUME NEW x \in Coordinates PROVE Index(x) \in Iterations
  <2>1. Index(x) = [k \in 1..Rank |-> x[k] + 1]
    BY DEF Coordinates, Index
  <2>2. \A k \in 1..Rank : /\ x[k] \in Int /\ LoopLo[k] \in Int /\ LoopHi[k] \in Int
                           /\ LoopLo[k] - 1 <= x[k] /\ x[k] <= LoopHi[k] - 1
    BY <1>1 DEF Coordinates
  <2>3. \A k \in 1..Rank : /\ x[k] + 1 \in LoopLo[k]..LoopHi[k]
                           /\ LoopLo[k] <= x[k] + 1 /\ x[k] + 1 <= LoopHi[k]
    BY <2>2
  <2>4. \A k \in 1..Rank : x[k] + 1 \in UNION {LoopLo[j]..LoopHi[j] : j \in 1..Rank}
    BY <2>3
  <2>5. /\ Index(x) \in [1..Rank -> UNION {LoopLo[j]..LoopHi[j] : j \in 1..Rank}]
        /\ \A k \in 1..Rank : LoopLo[k] <= Index(x)[k] /\ Index(x)[k] <= LoopHi[k]
    BY <2>1, <2>3, <2>4
  <2> QED BY <1>1, <2>5 DEF Iterations, Vectors
<1>3. ASSUME NEW p \in Iterations PROVE \E x \in Coordinates : Index(x) = p
  <2> DEFINE x == [k \in 1..Rank |-> p[k] - 1]
  <2>1. p = [k \in 1..Rank |-> p[k]]
    BY <1>1 DEF Iterations, Vectors
  <2>2. \A k \in 1..Rank : /\ p[k] \in UNION {LoopLo[j]..LoopHi[j] : j \in 1..Rank}
                           /\ LoopLo[k] <= p[k] /\ p[k] <= LoopHi[k]
    BY <1>1 DEF Iterations, Vectors
  <2>3. \A k \in 1..Rank : p[k] \in Int /\ LoopLo[k] \in Int /\ LoopHi[k] \in Int
    BY <1>1, <2>2
  <2>4. \A k \in 1..Rank : p[k] - 1 \in Int /\ LoopLo[k] - 1 <= p[k] - 1 /\ p[k] - 1 <= LoopHi[k] - 1
    BY <2>2, <2>3
  <2>5. x \in Coordinates
    BY <2>4 DEF Coordinates
  <2>6. \A k \in 1..Rank : (p[k] - 1) + 1 = p[k]
    BY <2>3
  <2>7. Index(x) = p
    BY <2>1, <2>6 DEF Index
  <2> QED BY <2>5, <2>7
<1> QED BY <1>2, <1>3

(* The kernel computes points of the nest ... *)
LEMMA LanesInNest ==
  ASSUME Box.extent[1] >= Vec, NEW t \in Tasks, NEW k \in 1..Steps, NEW x \in Lanes(t, k)
  PROVE  x \in Coordinates
<1> DEFINE e == Box.extent[1]
           s == Start(e, Vec, VectorOf(t, k))
<1>1. PICK i \in s..(s + Vec - 1) :
         x = IF Rank = 1 THEN <<LoopLo[1] - 1 + i>> ELSE <<LoopLo[1] - 1 + i, t>>
  BY LanesIs
<1>2. s \in 0..(e - Vec)
  BY VectorInRow, ScheduleIs, Given
<1>3. e \in Int /\ Vec \in Int /\ e = LoopHi[1] - LoopLo[1] + 1 /\ LoopLo[1] \in Int /\ LoopHi[1] \in Int
  BY ScheduleIs, Given
<1> HIDE DEF e, s
<1> DEFINE x1 == LoopLo[1] - 1 + i
<1>4. x1 \in Int /\ LoopLo[1] - 1 <= x1 /\ x1 <= LoopHi[1] - 1
  BY <1>2, <1>3
<1> HIDE DEF x1
<1>5. CASE Rank = 1
  <2>1. x = <<x1>>
    BY <1>1, <1>5 DEF x1
  <2> QED BY <2>1, <1>4, <1>5 DEF Coordinates
<1>6. CASE Rank = 2
  <2>1. x = <<x1, t>>
    BY <1>1, <1>6 DEF x1
  <2>2. LoopLo[2] \in Int /\ LoopHi[2] \in Int /\ t \in (LoopLo[2] - 1)..(LoopHi[2] - 1)
    BY <1>6, ScheduleIs, Given
  <2>3. t \in Int /\ LoopLo[2] - 1 <= t /\ t <= LoopHi[2] - 1
    BY <2>2
  <2> QED BY <2>1, <2>3, <1>4, <1>6 DEF Coordinates
<1> QED BY <1>5, <1>6, Given

(* ... all of them ... *)
LEMMA LanesCover ==
  ASSUME Box.extent[1] >= Vec, NEW x \in Coordinates
  PROVE  \E t \in Tasks : \E k \in 1..Steps : x \in Lanes(t, k)
<1> DEFINE e == Box.extent[1]
           i == x[1] - (LoopLo[1] - 1)
<1>1. /\ e \in Nat /\ Vec \in Nat \ {0} /\ e = LoopHi[1] - LoopLo[1] + 1
      /\ LoopLo[1] \in Int /\ LoopHi[1] \in Int
  BY ScheduleIs, Given
<1>2. x[1] \in Int /\ LoopLo[1] - 1 <= x[1] /\ x[1] <= LoopHi[1] - 1
  BY Given DEF Coordinates
<1>3. i \in 0..(e - 1) /\ x[1] = LoopLo[1] - 1 + i
  BY <1>1, <1>2
<1> HIDE DEF e, i
<1>4. PICK m \in 1..((e + Vec - 1) \div Vec) : i \in Start(e, Vec, m)..(Start(e, Vec, m) + Vec - 1)
  BY <1>1, <1>3, VectorsCover DEF e
<1>5. CASE Rank = 1
  <2>1. m \in Tasks /\ 1 \in 1..Steps /\ VectorOf(m, 1) = m
    BY <1>4, <1>5 DEF Tasks, Steps, VectorsPerRow, VectorOf, e
  <2>2. x = <<LoopLo[1] - 1 + i>>
    BY <1>3, <1>5 DEF Coordinates
  <2>3. x \in Lanes(m, 1)
    BY <2>1, <2>2, <1>4, <1>5, LanesIs DEF e
  <2> QED BY <2>1, <2>3
<1>6. CASE Rank = 2
  <2> DEFINE t == x[2]
  <2>1. x[2] \in Int /\ LoopLo[2] - 1 <= x[2] /\ x[2] <= LoopHi[2] - 1
    BY <1>6 DEF Coordinates
  <2>2. LoopLo[2] \in Int /\ LoopHi[2] \in Int
    BY <1>6, Given
  <2>3. t \in Tasks
    BY <1>6, <2>1, <2>2, ScheduleIs
  <2>4. m \in 1..Steps /\ VectorOf(t, m) = m
    BY <1>4, <1>6 DEF Steps, VectorsPerRow, VectorOf, e
  <2>5. x = <<LoopLo[1] - 1 + i, t>>
    BY <1>3, <1>6 DEF Coordinates
  <2> HIDE DEF t
  <2>6. x \in Lanes(t, m)
    BY <2>3, <2>4, <2>5, <1>4, <1>6, LanesIs DEF e
  <2> QED BY <2>3, <2>4, <2>6
<1> QED BY <1>5, <1>6, Given

\* The vector that task t computes in step k is one of the row's whole ones.
Whole(t, k) == VectorOf(t, k) * Vec <= Box.extent[1]

(* ... and each once, but for those to recompute: these are in one whole vector *)
(* and in the last one.                                                         *)
LEMMA LanesMeet ==
  ASSUME Box.extent[1] >= Vec,
         NEW t \in Tasks, NEW u \in Tasks, NEW j \in 1..Steps, NEW k \in 1..Steps, NEW x,
         x \in Lanes(t, j), x \in Lanes(u, k)
  PROVE  (t = u /\ j = k) \/ (Index(x) \in Recomputed /\ (Whole(t, j) <=> ~ Whole(u, k)))
<1> DEFINE e == Box.extent[1]
           m == VectorOf(t, j)
           n == VectorOf(u, k)
<1>1. PICK p \in Start(e, Vec, m)..(Start(e, Vec, m) + Vec - 1) :
         x = IF Rank = 1 THEN <<LoopLo[1] - 1 + p>> ELSE <<LoopLo[1] - 1 + p, t>>
  BY LanesIs
<1>2. PICK q \in Start(e, Vec, n)..(Start(e, Vec, n) + Vec - 1) :
         x = IF Rank = 1 THEN <<LoopLo[1] - 1 + q>> ELSE <<LoopLo[1] - 1 + q, u>>
  BY LanesIs
<1>3. /\ e \in Nat /\ e >= Vec /\ Vec \in Nat \ {0} /\ LoopLo[1] \in Int
      /\ m \in 1..((e + Vec - 1) \div Vec) /\ n \in 1..((e + Vec - 1) \div Vec)
  BY ScheduleIs, Given
<1> HIDE DEF e, m, n
<1>4. p \in Int /\ q \in Int
  <2>1. m \in Int /\ n \in Int
    BY <1>3
  <2>2. \A h \in Int : (h - 1) * Vec \in Int
    BY <1>3
  <2>3. Start(e, Vec, m) \in Int /\ Start(e, Vec, n) \in Int
    BY <1>3, <2>1, <2>2 DEF Start
  <2> QED BY <2>3, <1>3
<1>5. x[1] = LoopLo[1] - 1 + p /\ x[1] = LoopLo[1] - 1 + q /\ (Rank = 2 => t = u)
  BY <1>1, <1>2, Given
<1>6. p = q
  <2>1. \A a, b, c \in Int : a - 1 + b = a - 1 + c => b = c
    OBVIOUS
  <2> QED BY <1>3, <1>4, <1>5, <2>1
<1>7. m = n \/ ((m * Vec <= e <=> ~ (n * Vec <= e)) /\ e % Vec # 0 /\ e - Vec <= p /\ p < Vec * (e \div Vec))
  BY <1>1, <1>2, <1>3, <1>4, <1>6, VectorsMeet DEF e
<1>8. CASE m = n
  <2>1. CASE Rank = 1
    <3>1. t = u /\ Steps = 1
      BY <1>8, <2>1 DEF m, n, VectorOf, Steps
    <3> QED BY <3>1
  <2>2. CASE Rank = 2
    BY <1>5, <1>8, <2>2 DEF m, n, VectorOf
  <2> QED BY <2>1, <2>2, Given
<1>9. CASE m # n
  <2>1. x \in Coordinates
    BY LanesInNest
  <2>2. Index(x) \in Iterations /\ Index(x)[1] = x[1] + 1
    BY <2>1, IterationsAre, Given DEF Coordinates, Index
  <2>3. Index(x)[1] - LoopLo[1] = p
    BY <1>3, <1>4, <1>5, <2>2
  <2>4. Index(x) \in Recomputed
    BY <1>7, <1>9, <2>2, <2>3 DEF Recomputed, e
  <2>5. Whole(t, j) <=> ~ Whole(u, k)
    BY <1>7, <1>9 DEF Whole, m, n, e
  <2> QED BY <2>4, <2>5
<1> QED BY <1>8, <1>9

------------------------------------------------------------------------------
\* The invariant of the kernel's memory.

\* Coordinate x has been stored.
Stored(x) == \E t \in Tasks : \E k \in 1..pos[t] : x \in Lanes(t, k)

\* What assignment n of the nest gives at coordinate x.
Result(n, x) == Value(Mem0, body, n, Index(x))

\* The phases of a call, and what a loaded task holds.
Phases ==
  /\ pc # "analyze" => seen = Len(body)
  /\ pc = "done" => \A t \in Tasks : pos[t] = Steps
  /\ pc \in {"analyze", "error"} => mem = Mem0 /\ \A t \in Tasks : pos[t] = 0 /\ reg[t] = <<>>
  /\ pc \in {"run", "done"} => Box.extent[1] >= Vec
  /\ \A t \in Tasks : reg[t] # <<>> => \A n \in Assigns : DOMAIN reg[t][n] = Lanes(t, pos[t] + 1)

\* Nothing but the places of the nest's points in the arrays it assigns changes.
Frame ==
  \A a \in Arrays : \A l \in Locs :
    (\A n \in Assigns : \A x \in Coordinates : body[n].w = a => Place(a, x) # l) => mem[a][l] = Mem0[a][l]

\* Nothing that a vector reads at coordinate x has been stored by another one.
Undisturbed(x) == Index(x) \notin Spoilt(body)

\* Whatever has been loaded or stored at such points is what memory at the call
\* determines.
Results ==
  /\ \A t \in Tasks : reg[t] # <<>> =>
       \A n \in Assigns : \A x \in Lanes(t, pos[t] + 1) :
         Undisturbed(x) => reg[t][n][x] = Result(n, x)
  /\ \A n \in Assigns : \A x \in Coordinates : Undisturbed(x) =>
       mem[body[n].w][Place(body[n].w, x)] =
         IF Stored(x) THEN Result(n, x) ELSE Mem0[body[n].w][Place(body[n].w, x)]

SInv == Phases /\ Frame /\ (Independent(body) => Results)

(* The reads of an assignment. *)
LEMMA ReadType ==
  ASSUME NEW b \in Bodies, NEW n \in 1..Len(b), NEW k \in 1..Len(b[n].rd)
  PROVE  b[n].rd[k].a \in Arrays /\ b[n].rd[k].off \in [1..Rank -> Int] /\ b[n].rd[k] \in Range(b[n].rd)
<1>1. b \in Seq(Assignments)
  BY KernelAssumption
<1>2. b[n] \in Assignments
  BY <1>1, ElementOfSeq
<1>3. b[n].rd \in Seq([a : Arrays, off : [1..Rank -> Int]])
  BY <1>2 DEF Assignments
<1>4. b[n].rd[k] \in [a : Arrays, off : [1..Rank -> Int]] /\ k \in DOMAIN b[n].rd
  BY <1>3, ElementOfSeq, LenProperties
<1> QED BY <1>4 DEF Range

(* The glue passes every buffer the assignments need. *)
LEMMA BuffersPassed ==
  ASSUME IInv, Phases, pc = "run", NEW n \in Assigns
  PROVE  HasOutput(body[n].w) /\ \A k \in 1..Len(body[n].rd) : HasInput(body[n].rd[k].a)
<1>1. /\ seen = Len(body) /\ body \in Bodies /\ n \in 1..Len(body) /\ n \in 1..seen
  BY DEF IInv, TypeOK, Phases, Assigns
<1>2. /\ body[n].w \in Arrays
      /\ \A k \in 1..Len(body[n].rd) : body[n].rd[k].a \in Arrays
  BY <1>1, BodyType
<1>3. HasOutput(body[n].w)
  BY <1>1, <1>2 DEF IInv, ModesExact, HasOutput
<1>4. \A k \in 1..Len(body[n].rd) : HasInput(body[n].rd[k].a)
  <2> TAKE k \in 1..Len(body[n].rd)
  <2> DEFINE a == body[n].rd[k].a
  <2>1. a \in ReadBy(body[n]) /\ a \in Arrays
    BY <1>1, ReadType DEF ReadBy
  <2>2. \E m \in 1..seen : a \in ReadBy(body[m])
    BY <1>1, <2>1
  <2> HIDE DEF a
  <2>3. HasInput(a)
    BY <2>1, <2>2 DEF IInv, ModesExact, HasInput
  <2> QED BY <2>3 DEF a
<1> QED BY <1>3, <1>4

(* The kernel reads what Fortran reads. *)
LEMMA ReadAddress ==
  ASSUME NEW a \in Arrays, NEW x \in [1..Rank -> Int], NEW off \in [1..Rank -> Int]
  PROVE  /\ Address(Elem, InBuffer(Shape[a]), Plus(x, off))
              = FortranAddress(Elem, Shape[a], Plus(Index(x), off))
         /\ (\A k \in 1..Rank : off[k] = 0) => Plus(Index(x), off) = Index(x)
<1>1. Index(x) = [k \in 1..Rank |-> x[k] + 1] /\ Index(x) \in [1..Rank -> Int]
  BY DEF Index
<1>2. Len(x) = Rank /\ Len(Index(x)) = Rank
  BY <1>1, VecLen, Given
<1>3. Plus(x, off) = [k \in 1..Rank |-> x[k] + off[k]] /\ Plus(x, off) \in [1..Rank -> Int]
  BY <1>2 DEF Plus
<1>4. Plus(Index(x), off) = [k \in 1..Rank |-> Index(x)[k] + off[k]]
  BY <1>2 DEF Plus
<1>5. Plus(Index(x), off) = Index(Plus(x, off))
  <2>1. Index(Plus(x, off)) = [k \in 1..Rank |-> (x[k] + off[k]) + 1]
    BY <1>3 DEF Index
  <2>2. \A k \in 1..Rank : Index(x)[k] + off[k] = (x[k] + off[k]) + 1
    BY <1>1
  <2> QED BY <1>4, <2>1, <2>2
<1>6. Address(Elem, InBuffer(Shape[a]), Plus(x, off)) = FortranAddress(Elem, Shape[a], Index(Plus(x, off)))
  <2>1. Rank \in 1..4 /\ Shape[a] \in Shapes(Rank) /\ Elem \in Int
    BY Given
  <2> QED BY <1>3, <2>1, InAddress
<1>7. ASSUME \A k \in 1..Rank : off[k] = 0 PROVE Plus(Index(x), off) = Index(x)
  <2>1. \A k \in 1..Rank : Index(x)[k] + off[k] = Index(x)[k]
    BY <1>1, <1>7
  <2>2. Index(x) = [k \in 1..Rank |-> Index(x)[k]]
    BY <1>1
  <2> QED BY <1>4, <2>1, <2>2
<1> QED BY <1>5, <1>6, <1>7

(* Compute is Value, of a memory whose reads are the same. *)
LEMMA ComputeIs ==
  ASSUME IInv, Phases, pc = "run", NEW n \in Assigns, NEW x \in [1..Rank -> Int], NEW m,
         \A k \in 1..Len(body[n].rd) :
           LET r == body[n].rd[k]
               l == FortranAddress(Elem, Shape[r.a], Plus(Index(x), r.off))
           IN  l \in Locs => mem[r.a][l] = m[r.a][l]
  PROVE  Compute(n, x) = Value(m, body, n, Index(x))
<1> DEFINE r(k) == body[n].rd[k]
           f(k) == FortranAddress(Elem, Shape[r(k).a], Plus(Index(x), r(k).off))
           got(k) == IF HasInput(r(k).a)
                     THEN Read(mem, r(k).a, Address(Elem, InBuffer(Shape[r(k).a]), Plus(x, r(k).off)))
                     ELSE Wild
           due(k) == Read(m, r(k).a, f(k))
<1>1. body \in Bodies /\ n \in 1..Len(body)
  BY DEF IInv, TypeOK, Assigns
<1>2. \A k \in 1..Len(body[n].rd) : got(k) = due(k)
  <2> TAKE k \in 1..Len(body[n].rd)
  <2>1. HasInput(r(k).a)
    BY BuffersPassed
  <2>2. r(k).a \in Arrays /\ r(k).off \in [1..Rank -> Int]
    BY <1>1, ReadType
  <2>3. Address(Elem, InBuffer(Shape[r(k).a]), Plus(x, r(k).off)) = f(k)
    BY <2>2, ReadAddress
  <2>4. f(k) \in Locs => mem[r(k).a][f(k)] = m[r(k).a][f(k)]
    OBVIOUS
  <2> HIDE DEF f, r
  <2>5. Read(mem, r(k).a, f(k)) = Read(m, r(k).a, f(k))
    BY <2>4 DEF Read
  <2> QED BY <2>1, <2>3, <2>5
<1>3. Compute(n, x) = Eval(n, [k \in 1..Len(body[n].rd) |-> got(k)])
  BY DEF Compute
<1>4. Value(m, body, n, Index(x)) = Eval(n, [k \in 1..Len(body[n].rd) |-> due(k)])
  BY DEF Value
<1> HIDE DEF got, due
<1>5. [k \in 1..Len(body[n].rd) |-> got(k)] = [k \in 1..Len(body[n].rd) |-> due(k)]
  BY <1>2, Zenon
<1> QED BY <1>3, <1>4, <1>5

(* Only one assignment writes an array. *)
LEMMA OneWriter ==
  ASSUME TypeOK, NEW m \in Assigns, NEW n \in Assigns, body[m].w = body[n].w
  PROVE  m = n
BY KernelAssumption DEF TypeOK, Assigns

(* What a loaded task has of the location of an array. *)
LEMMA ComputedIs ==
  ASSUME IInv, SInv, pc = "run", NEW t \in Tasks, reg[t] # <<>>, NEW a \in Arrays, NEW l, NEW v
  PROVE  v \in Computed(t, a, l) <=>
           \E n \in Assigns : body[n].w = a /\
             \E x \in Lanes(t, pos[t] + 1) : Place(a, x) = l /\ v = reg[t][n][x]
<1>1. \A n \in Assigns : DOMAIN reg[t][n] = Lanes(t, pos[t] + 1)
  BY DEF SInv, Phases
<1>2. \A n \in Assigns : body[n].w = a => HasOutput(a)
  BY BuffersPassed DEF SInv
<1>3. v \in Computed(t, a, l) <=>
        \E n \in {k \in Assigns : body[k].w = a /\ HasOutput(a)} :
          v \in {reg[t][n][x] : x \in {y \in DOMAIN reg[t][n] : Place(a, y) = l}}
  BY DEF Computed, Place
<1> QED BY <1>1, <1>2, <1>3

(* A task's next vector is a step of its own. *)
LEMMA NextStep ==
  ASSUME IInv, NEW t \in Tasks, pos[t] < Steps
  PROVE  pos[t] \in Nat /\ pos[t] + 1 \in 1..Steps
BY StepsType DEF IInv, TypeOK

(* In a nest whose iterations are independent a point reads, of the arrays *)
(* that are assigned, its own elements only.                               *)
LEMMA ReadsOwn ==
  ASSUME IInv, Independent(body), NEW n \in Assigns, NEW m \in Assigns, NEW x \in [1..Rank -> Int],
         NEW k \in 1..Len(body[n].rd), body[m].w = body[n].rd[k].a
  PROVE  /\ InPlace(body)
         /\ FortranAddress(Elem, Shape[body[m].w], Plus(Index(x), body[n].rd[k].off)) = Place(body[m].w, x)
<1> DEFINE r == body[n].rd[k]
           d == [n |-> n, m |-> m, off |-> r.off]
           found(i, j) == {[n |-> i, m |-> j, off |-> q.off] :
                             q \in {p \in Range(body[i].rd) : p.a = body[j].w}}
<1>1. body \in Bodies /\ n \in 1..Len(body) /\ m \in 1..Len(body)
  BY DEF IInv, TypeOK, Assigns
<1>2. r.a \in Arrays /\ r.off \in [1..Rank -> Int] /\ r \in Range(body[n].rd)
  BY <1>1, ReadType
<1>3. d \in Dependences(body)
  <2>1. Dependences(body) = UNION {found(i, j) : i, j \in 1..Len(body)}
    BY DEF Dependences
  <2>2. d \in found(n, m)
    <3> HIDE DEF r
    <3>1. r \in {p \in Range(body[n].rd) : p.a = body[m].w}
      BY <1>2 DEF r
    <3> QED BY <3>1
  <2> HIDE DEF found, d
  <2> QED BY <1>1, <2>1, <2>2
<1>4. \A j \in 1..Rank : d.off[j] = 0
  <2> HIDE DEF d
  <2> QED BY <1>3 DEF Independent
<1>5. \A j \in 1..Rank : r.off[j] = 0
  BY <1>4
<1> HIDE DEF r, d
<1>6. FortranAddress(Elem, Shape[r.a], Plus(Index(x), r.off)) = Place(r.a, x)
  BY <1>2, <1>5, ReadAddress, PlaceIs
<1> QED BY <1>3, <1>6 DEF InPlace, r

(* A vector loaded has the values the summary promises. *)
LEMMA LoadComputes ==
  ASSUME IInv, SInv, Independent(body), NEW t \in Tasks, pc = "run", pos[t] < Steps,
         NEW n \in Assigns, NEW x \in Lanes(t, pos[t] + 1), Undisturbed(x)
  PROVE  Compute(n, x) = Result(n, x)
<1>1. pos[t] \in Nat /\ pos[t] + 1 \in 1..Steps
  BY NextStep
<1>2. x \in Coordinates /\ x \in [1..Rank -> Int]
  BY <1>1, LanesInNest DEF SInv, Phases, Coordinates
<1>3. body \in Bodies /\ n \in 1..Len(body)
  BY DEF IInv, TypeOK, Assigns
<1>4. ASSUME InPlace(body) PROVE ~ Stored(x)
  <2> SUFFICES ASSUME NEW u \in Tasks, NEW k \in 1..pos[u], x \in Lanes(u, k) PROVE FALSE
    BY DEF Stored
  <2>1. pos[u] \in 0..Steps /\ Steps \in Nat
    BY StepsType DEF IInv, TypeOK
  <2>2. k \in 1..Steps /\ k <= pos[u] /\ k \in Nat
    BY <2>1
  <2>3. Index(x) \notin Recomputed /\ Box.extent[1] >= Vec
    BY <1>4 DEF Undisturbed, Spoilt, SInv, Phases
  <2>4. u = t /\ k = pos[t] + 1
    BY <1>1, <2>2, <2>3, LanesMeet
  <2> QED BY <1>1, <2>2, <2>4
<1> DEFINE array(k) == body[n].rd[k].a
           loc(k) == FortranAddress(Elem, Shape[array(k)], Plus(Index(x), body[n].rd[k].off))
<1>5. ASSUME NEW k \in 1..Len(body[n].rd), loc(k) \in Locs
      PROVE  mem[array(k)][loc(k)] = Mem0[array(k)][loc(k)]
  <2>1. array(k) \in Arrays
    BY <1>3, ReadType
  <2>2. ASSUME NEW m \in Assigns, body[m].w = array(k)
        PROVE  mem[array(k)][loc(k)] = Mem0[array(k)][loc(k)]
    <3>1. InPlace(body) /\ loc(k) = Place(body[m].w, x)
      BY <1>2, <2>2, ReadsOwn
    <3>2. mem[body[m].w][Place(body[m].w, x)] = Mem0[body[m].w][Place(body[m].w, x)]
      BY <1>2, <1>4, <3>1 DEF SInv, Results
    <3> QED BY <2>2, <3>1, <3>2
  <2>3. ASSUME \A m \in Assigns : body[m].w # array(k)
        PROVE  mem[array(k)][loc(k)] = Mem0[array(k)][loc(k)]
    <3> HIDE DEF array, loc
    <3> QED BY <1>5, <2>1, <2>3 DEF SInv, Frame
  <2> QED BY <2>2, <2>3
<1>6. \A k \in 1..Len(body[n].rd) :
        LET r == body[n].rd[k]
            l == FortranAddress(Elem, Shape[r.a], Plus(Index(x), r.off))
        IN  l \in Locs => mem[r.a][l] = Mem0[r.a][l]
  BY <1>5, Zenon
<1> QED BY <1>2, <1>6, ComputeIs DEF SInv, Result

(* Loading keeps the invariant. *)
LEMMA LoadSInv ==
  ASSUME IInv, SInv, NEW t \in Tasks, Load(t)
  PROVE  SInv'
<1> DEFINE new == [n \in Assigns |-> [x \in Lanes(t, pos[t] + 1) |-> Compute(n, x)]]
<1>1. /\ reg' = [reg EXCEPT ![t] = new] /\ UNCHANGED <<body, seen, mode, pc, pos, mem>>
      /\ pos[t] < Steps /\ pc = "run"
  BY DEF Load
<1>2. reg = [u \in Tasks |-> reg[u]]
  BY DEF IInv, RegistersHoldValues
<1>3. \A n \in Assigns : DOMAIN new[n] = Lanes(t, pos[t] + 1)
  OBVIOUS
<1>4. \A n \in Assigns : \A x \in Lanes(t, pos[t] + 1) : new[n][x] = Compute(n, x)
  OBVIOUS
<1> HIDE DEF new
<1>5. \A u \in Tasks : reg'[u] = IF u = t THEN new ELSE reg[u]
  BY <1>1, <1>2
<1>6. Phases'
  BY <1>1, <1>3, <1>5 DEF SInv, Phases, Assigns
<1>7. Frame'
  BY <1>1 DEF SInv, Frame, Assigns
<1>8. ASSUME Independent(body)' PROVE Results'
  <2>1. Independent(body)
    BY <1>1, <1>8
  <2>2. Results
    BY <2>1 DEF SInv
  <2>3. \A n \in Assigns : \A x \in Lanes(t, pos[t] + 1) : Undisturbed(x) => new[n][x] = Result(n, x)
    BY <1>1, <1>4, <2>1, LoadComputes
  <2>4. \A u \in Tasks : reg'[u] # <<>> =>
          \A n \in Assigns : \A x \in Lanes(u, pos[u] + 1) : Undisturbed(x) => reg'[u][n][x] = Result(n, x)
    BY <1>5, <2>2, <2>3 DEF Results
  <2>5. \A n, x : Result(n, x)' = Result(n, x) /\ (Stored(x)' <=> Stored(x)) /\ (Undisturbed(x)' <=> Undisturbed(x))
    BY <1>1 DEF Result, Stored, Undisturbed
  <2>6. Assigns' = Assigns
    BY <1>1 DEF Assigns
  <2> QED BY <1>1, <2>2, <2>4, <2>5, <2>6 DEF Results
<1> QED BY <1>6, <1>7, <1>8 DEF SInv

(* What a store leaves at a point's place. *)
LEMMA StoreIs ==
  ASSUME IInv, SInv, NEW t \in Tasks, Store(t), NEW n \in Assigns, NEW x \in Coordinates
  PROVE  mem'[body[n].w][Place(body[n].w, x)] =
           IF x \in Lanes(t, pos[t] + 1) THEN reg[t][n][x] ELSE mem[body[n].w][Place(body[n].w, x)]
<1> DEFINE now == Lanes(t, pos[t] + 1)
           a == body[n].w
           l == Place(a, x)
<1>1. reg[t] # <<>> /\ pc = "run" /\ pos[t] < Steps
  BY DEF Store, IInv, TypeOK
<1>2. pos[t] + 1 \in 1..Steps
  BY <1>1, NextStep
<1>3. \A y \in now : y \in Coordinates
  BY <1>1, <1>2, LanesInNest DEF SInv, Phases
<1>4. a \in Arrays /\ Within(a)
  BY AssignedWithin DEF IInv, TypeOK, Assigns
<1>5. l \in Locs
  BY <1>4, PlaceInLocs
<1>6. mem'[a][l] = IF Computed(t, a, l) = {} THEN mem[a][l]
                   ELSE CHOOSE v \in Val : v \in Computed(t, a, l)
  BY <1>4, <1>5 DEF Store
<1>7. \A y \in now : Place(a, y) = l => y = x
  BY <1>3, <1>4, PlacesDistinct
<1>8. \A v : v \in Computed(t, a, l) <=> x \in now /\ v = reg[t][n][x]
  <2>1. \A m \in Assigns : body[m].w = a => m = n
    BY OneWriter DEF IInv
  <2>2. \A v : v \in Computed(t, a, l) <=>
          \E m \in Assigns : body[m].w = a /\ \E y \in now : Place(a, y) = l /\ v = reg[t][m][y]
    BY <1>1, <1>4, ComputedIs
  <2> QED BY <1>7, <2>1, <2>2
<1>9. x \in now => reg[t][n][x] \in Val
  <2> SUFFICES ASSUME x \in now PROVE reg[t][n][x] \in Val
    OBVIOUS
  <2>1. x \in DOMAIN reg[t][n]
    BY <1>1 DEF SInv, Phases
  <2> QED BY <1>1, <2>1 DEF IInv, RegistersHoldValues
<1> HIDE DEF a, l, now
<1>10. mem'[a][l] = IF x \in now THEN reg[t][n][x] ELSE mem[a][l]
  <2>1. CASE x \in now
    <3>1. Computed(t, a, l) = {reg[t][n][x]}
      BY <1>8, <2>1
    <3>2. (CHOOSE v \in Val : v \in Computed(t, a, l)) = reg[t][n][x]
      BY <1>9, <2>1, <3>1
    <3> QED BY <1>6, <2>1, <3>1, <3>2
  <2>2. CASE x \notin now
    <3>1. Computed(t, a, l) = {}
      BY <1>8, <2>2
    <3> QED BY <1>6, <2>2, <3>1
  <2> QED BY <2>1, <2>2
<1> QED BY <1>10 DEF a, l, now

(* Storing makes a task's vector stored, and no other one. *)
LEMMA StoreStored ==
  ASSUME IInv, NEW t \in Tasks, Store(t)
  PROVE  \A x : Stored(x)' <=> Stored(x) \/ x \in Lanes(t, pos[t] + 1)
<1>1. pos' = [pos EXCEPT ![t] = @ + 1] /\ pos \in [Tasks -> 0..Steps] /\ reg[t] # <<>>
  BY DEF Store, IInv, TypeOK
<1>2. pos[t] \in Nat
  BY <1>1, StepsType
<1>3. \A u \in Tasks : pos'[u] = IF u = t THEN pos[t] + 1 ELSE pos[u]
  BY <1>1
<1> TAKE x
<1> DEFINE now == Lanes(t, pos[t] + 1)
<1>4. Stored(x)' <=> \E u \in Tasks : \E k \in 1..pos'[u] : x \in Lanes(u, k)
  BY DEF Stored
<1>5. \A k : k \in 1..pos'[t] <=> k \in 1..pos[t] \/ k = pos[t] + 1
  BY <1>2, <1>3
<1>6. \A u \in Tasks : u # t => pos'[u] = pos[u]
  BY <1>3
<1> HIDE DEF now
<1>7. now = Lanes(t, pos[t] + 1)
  BY DEF now
<1> QED BY <1>4, <1>5, <1>6, <1>7, Zenon DEF Stored

(* Storing keeps the invariant. *)
LEMMA StoreSInv ==
  ASSUME IInv, SInv, NEW t \in Tasks, Store(t)
  PROVE  SInv'
<1> DEFINE now == Lanes(t, pos[t] + 1)
<1>1. /\ reg' = [reg EXCEPT ![t] = <<>>] /\ pos' = [pos EXCEPT ![t] = @ + 1]
      /\ UNCHANGED <<body, seen, mode, pc>> /\ reg[t] # <<>> /\ pc = "run"
  BY DEF Store
<1>2. reg = [u \in Tasks |-> reg[u]] /\ pos \in [Tasks -> 0..Steps] /\ pos[t] < Steps
  BY <1>1 DEF IInv, RegistersHoldValues, TypeOK
<1>3. \A u \in Tasks : /\ reg'[u] = IF u = t THEN <<>> ELSE reg[u]
                       /\ pos'[u] = IF u = t THEN pos[t] + 1 ELSE pos[u]
  BY <1>1, <1>2
<1>4. \A a \in Arrays : \A l \in Locs :
        mem'[a][l] = IF Computed(t, a, l) = {} THEN mem[a][l]
                     ELSE CHOOSE v \in Val : v \in Computed(t, a, l)
  BY DEF Store
<1>5. pos[t] \in Nat /\ pos[t] + 1 \in 1..Steps
  BY <1>2, NextStep
<1>6. \A x \in now : x \in Coordinates
  BY <1>1, <1>5, LanesInNest DEF SInv, Phases
<1>7. \A a \in Arrays : \A l, v :
        v \in Computed(t, a, l) <=>
          \E n \in Assigns : body[n].w = a /\ \E x \in now : Place(a, x) = l /\ v = reg[t][n][x]
  BY <1>1, ComputedIs
<1>8. Assigns' = Assigns /\ \A n, x : Result(n, x)' = Result(n, x) /\ (Undisturbed(x)' <=> Undisturbed(x))
  BY <1>1 DEF Assigns, Result, Undisturbed
<1>9. \A x : Stored(x)' <=> Stored(x) \/ x \in now
  BY StoreStored
<1> HIDE DEF now
<1>10. Phases'
  <2>1. \A u \in Tasks : reg'[u] # <<>> => \A n \in Assigns : DOMAIN reg'[u][n] = Lanes(u, pos'[u] + 1)
    BY <1>3 DEF SInv, Phases
  <2> QED BY <1>1, <1>8, <2>1 DEF SInv, Phases
<1>11. Frame'
  <2> SUFFICES ASSUME NEW a \in Arrays, NEW l \in Locs,
                      \A n \in Assigns : \A x \in Coordinates : body[n].w = a => Place(a, x) # l
               PROVE  mem'[a][l] = Mem0[a][l]
    BY <1>1, <1>8 DEF Frame
  <2>1. Computed(t, a, l) = {}
    BY <1>6, <1>7
  <2>2. mem[a][l] = Mem0[a][l]
    BY DEF SInv, Frame
  <2> QED BY <1>4, <2>1, <2>2
<1>12. ASSUME Independent(body)' PROVE Results'
  <2>1. Results
    <3>1. Independent(body)
      BY <1>1, <1>12
    <3> QED BY <3>1 DEF SInv
  <2>2. \A u \in Tasks : reg'[u] # <<>> =>
          \A n \in Assigns : \A x \in Lanes(u, pos'[u] + 1) : Undisturbed(x) => reg'[u][n][x] = Result(n, x)
    BY <1>3, <2>1 DEF Results
  <2>3. ASSUME NEW n \in Assigns, NEW x \in Coordinates, Undisturbed(x)
        PROVE  mem'[body[n].w][Place(body[n].w, x)] =
                 IF Stored(x) \/ x \in now THEN Result(n, x) ELSE Mem0[body[n].w][Place(body[n].w, x)]
    <3>1. mem'[body[n].w][Place(body[n].w, x)] =
            IF x \in now THEN reg[t][n][x] ELSE mem[body[n].w][Place(body[n].w, x)]
      BY StoreIs DEF now
    <3>2. x \in now => reg[t][n][x] = Result(n, x)
      BY <1>1, <2>1, <2>3 DEF Results, now
    <3> QED BY <2>1, <2>3, <3>1, <3>2 DEF Results
  <2>4. body' = body
    BY <1>1
  <2> QED BY <1>8, <1>9, <2>2, <2>3, <2>4 DEF Results
<1> QED BY <1>10, <1>11, <1>12 DEF SInv

LEMMA InitSInv == Init => SInv
<1> SUFFICES ASSUME Init PROVE SInv
  OBVIOUS
<1>1. Phases /\ Frame
  BY DEF Init, Phases, Frame
<1>2. \A x : ~ Stored(x)
  BY DEF Init, Stored
<1>3. Results
  BY <1>2 DEF Init, Results
<1> QED BY <1>1, <1>3 DEF SInv

(* The other actions. *)
LEMMA CallSInv ==
  ASSUME IInv, SInv, Visit \/ Call \/ Return \/ UNCHANGED vars
  PROVE  SInv'
<1>1. UNCHANGED <<body, pos, reg, mem>>
  BY DEF Visit, Call, Return, vars
<1>2. Box.extent[1] \in Nat /\ Vec \in Nat
  BY ScheduleIs, Given
<1>3. /\ Assigns' = Assigns
      /\ \A n, x : Result(n, x)' = Result(n, x)
      /\ \A x : (Stored(x)' <=> Stored(x)) /\ (Undisturbed(x)' <=> Undisturbed(x))
  BY <1>1 DEF Assigns, Result, Stored, Undisturbed
<1>4. Frame' /\ (Results => Results')
  BY <1>1, <1>3 DEF SInv, Frame, Results
<1>5. Independent(body)' <=> Independent(body)
  BY <1>1
<1>6. Phases'
  <2>1. \A u \in Tasks : reg'[u] # <<>> => \A n \in Assigns : DOMAIN reg'[u][n] = Lanes(u, pos'[u] + 1)
    BY <1>1 DEF SInv, Phases
  <2>2. CASE Visit
    BY <2>1, <2>2, <1>3 DEF Visit, SInv, Phases
  <2>3. CASE Call
    BY <2>1, <2>3, <1>2, <1>3 DEF Call, SInv, Phases
  <2>4. CASE Return
    BY <2>1, <2>4, <1>3 DEF Return, SInv, Phases
  <2>5. CASE UNCHANGED vars
    BY <2>1, <2>5, <1>3 DEF vars, SInv, Phases
  <2> QED BY <2>2, <2>3, <2>4, <2>5
<1> QED BY <1>4, <1>5, <1>6 DEF SInv

(* The summary's invariant: what has been loaded and stored is determined by  *)
(* memory at the call.                                                        *)
THEOREM ResultsDetermined == Spec => []SInv
<1>1. IInv /\ SInv /\ [Next]_vars => SInv'
  <2> SUFFICES ASSUME IInv, SInv, [Next]_vars PROVE SInv'
    OBVIOUS
  <2>1. ASSUME NEW t \in Tasks, Load(t) PROVE SInv'
    BY <2>1, LoadSInv
  <2>2. ASSUME NEW t \in Tasks, Store(t) PROVE SInv'
    BY <2>2, StoreSInv
  <2>3. CASE Visit \/ Call \/ Return \/ UNCHANGED vars
    BY <2>3, CallSInv
  <2> QED BY <2>1, <2>2, <2>3 DEF Next
<1> QED BY InitSInv, Inductive, <1>1, PTL DEF Spec

------------------------------------------------------------------------------
\* The refinement.

(* When every task has ended, the nest's points hold the summary. *)
LEMMA ReturnApplies ==
  ASSUME IInv, SInv, pc = "run", \A t \in Tasks : pos[t] = Steps, Independent(body), Spoilt(body) = {},
         NEW a \in Arrays, NEW p \in Iterations
  PROVE  mem[a][FortranAddress(Elem, Shape[a], p)] = Summarised(a, p)
<1>1. PICK x \in Coordinates : Index(x) = p
  BY IterationsAre
<1>2. Place(a, x) = FortranAddress(Elem, Shape[a], p)
  BY <1>1, PlaceIs DEF Coordinates
<1>3. ASSUME NEW n \in Assigns, body[n].w = a
      PROVE  mem[a][Place(a, x)] = Summarised(a, p)
  <2>1. Stored(x)
    BY LanesCover DEF Stored, SInv, Phases
  <2>2. mem[a][Place(a, x)] = Value(Mem0, body, n, p)
    BY <1>1, <1>3, <2>1 DEF SInv, Results, Result, Undisturbed
  <2>3. (CHOOSE m \in Assigns : body[m].w = a) = n
    <3>1. \A m \in Assigns : body[m].w = a => m = n
      BY <1>3, OneWriter DEF IInv
    <3> QED BY <1>3, <3>1
  <2>4. a \in Written(body)
    BY <1>3 DEF Written, Assigns
  <2> QED BY <2>2, <2>3, <2>4 DEF Summarised
<1>4. ASSUME \A n \in Assigns : body[n].w # a
      PROVE  mem[a][Place(a, x)] = Summarised(a, p)
  <2>1. mem[a] = Mem0[a]
    <3>1. \A l \in Locs : mem[a][l] = Mem0[a][l]
      BY <1>4 DEF SInv, Frame
    <3>2. mem[a] = [l \in Locs |-> mem[a][l]] /\ Mem0[a] = [l \in Locs |-> Mem0[a][l]]
      BY ValueAssumption DEF IInv, TypeOK
    <3>3. [l \in Locs |-> mem[a][l]] = [l \in Locs |-> Mem0[a][l]]
      BY <3>1, Zenon
    <3> QED BY <3>2, <3>3, Zenon
  <2>2. a \notin Written(body)
    BY <1>4 DEF Written, Assigns
  <2> QED BY <1>2, <2>1, <2>2 DEF Summarised
<1> QED BY <1>2, <1>3, <1>4

(* Whatever the kernel did, it changed nothing outside the nest's points. *)
LEMMA OutsideUnchanged ==
  ASSUME SInv, NEW a \in Arrays, NEW l \in Locs,
         \A p \in Iterations : FortranAddress(Elem, Shape[a], p) # l
  PROVE  mem[a][l] = Mem0[a][l]
<1>1. ASSUME NEW x \in Coordinates PROVE Place(a, x) # l
  <2>1. Index(x) \in Iterations
    BY IterationsAre
  <2>2. Place(a, x) = FortranAddress(Elem, Shape[a], Index(x))
    BY PlaceIs DEF Coordinates
  <2> QED BY <2>1, <2>2
<1> QED BY <1>1 DEF SInv, Frame

(* The call of a kernel, with its parallel tasks and overlapping vectors,     *)
(* implements one application of the summary.                                 *)
THEOREM Refines == Spec => ImplementsSummary
<1>1. Init => Lifted!Init
  BY DEF Init, Lifted!Init
<1>2. IInv /\ IInv' /\ SInv /\ [Next]_vars => [Lifted!Apply]_(Lifted!vars)
  <2> SUFFICES ASSUME IInv, IInv', SInv, [Next]_vars
               PROVE  [Lifted!Apply]_(Lifted!vars)
    OBVIOUS
  <2>1. CASE Return
    <3>1. pc = "run" /\ pc' = "done" /\ body' = body /\ mem' = mem /\ \A t \in Tasks : pos[t] = Steps
      BY <2>1 DEF Return
    <3>2. mem' \in [Arrays -> [Locs -> Val]]
      BY DEF IInv, TypeOK
    <3>3. Independent(body) /\ Spoilt(body) = {} => \A a \in Arrays, p \in Iterations :
            mem'[a][FortranAddress(Elem, Shape[a], p)] = Summarised(a, p)
      BY <3>1, ReturnApplies
    <3>4. \A a \in Arrays, l \in Locs :
            (\A p \in Iterations : FortranAddress(Elem, Shape[a], p) # l) => mem'[a][l] = Mem0[a][l]
      BY <3>1, OutsideUnchanged
    <3>5. /\ \A a \in Arrays : \A p : Summarised(a, p)' = Summarised(a, p)
          /\ (Independent(body) /\ Spoilt(body) = {})' = (Independent(body) /\ Spoilt(body) = {})
      BY <3>1 DEF Summarised, Assigns
    <3> HIDE DEF Summarised
    <3>6. Lifted!Apply
      BY <3>1, <3>2, <3>3, <3>4, <3>5 DEF Lifted!Apply
    <3> QED BY <3>6
  <2>2. CASE Visit \/ Call \/ \E t \in Tasks : Load(t) \/ Store(t)
    <3>1. pc # "done" /\ pc' # "done" /\ body' = body
      BY <2>2 DEF Visit, Call, Load, Store
    <3>2. /\ \A a \in Arrays : \A p : Summarised(a, p)' = Summarised(a, p)
          /\ (Independent(body) /\ Spoilt(body) = {})' = (Independent(body) /\ Spoilt(body) = {})
      BY <3>1 DEF Summarised, Assigns
    <3> QED BY <3>1, <3>2 DEF Lifted!vars
  <2>3. CASE UNCHANGED vars
    <3>1. pc' = pc /\ mem' = mem /\ body' = body
      BY <2>3 DEF vars
    <3>2. /\ \A a \in Arrays : \A p : Summarised(a, p)' = Summarised(a, p)
          /\ (Independent(body) /\ Spoilt(body) = {})' = (Independent(body) /\ Spoilt(body) = {})
      BY <3>1 DEF Summarised, Assigns
    <3> QED BY <3>1, <3>2 DEF Lifted!vars
  <2> QED BY <2>1, <2>2, <2>3 DEF Next
<1> QED BY <1>1, <1>2, Inductive, ResultsDetermined, PTL DEF Spec, ImplementsSummary, Lifted!Spec

------------------------------------------------------------------------------
\* The sequential nest.

Width == LoopHi[1] - LoopLo[1] + 1
Height == IF Rank = 1 THEN 1 ELSE LoopHi[2] - LoopLo[2] + 1

(* Quotient and remainder. *)
LEMMA QuotientRemainder ==
  ASSUME NEW s \in Nat \ {0}, NEW k \in Nat
  PROVE  k % s \in 0..(s - 1) /\ k \div s \in Nat /\ k = (k % s) + s * (k \div s)
OBVIOUS

LEMMA Cancel ==
  ASSUME NEW a \in Int, NEW b \in Int, NEW c \in Int, a + b = a + c
  PROVE  b = c
OBVIOUS

LEMMA QuotientBelow ==
  ASSUME NEW s \in Nat \ {0}, NEW h \in Nat, NEW k \in Nat
  PROVE  k < s * h <=> k \div s < h
<1> DEFINE q == k \div s
           r == k % s
<1>1. q \in Nat /\ r \in 0..(s - 1) /\ k = r + s * q
  BY QuotientRemainder
<1> HIDE DEF q, r
<1>2. ASSUME q < h PROVE k < s * h
  <2>1. s * h = s * q + s + s * (h - q - 1) /\ s * (h - q - 1) >= 0
    BY <1>1, <1>2
  <2> QED BY <1>1, <2>1
<1>3. ASSUME q >= h PROVE k >= s * h
  <2>1. s * q = s * h + s * (q - h) /\ s * (q - h) >= 0
    BY <1>1, <1>3
  <2> QED BY <1>1, <2>1
<1>4. k \in Int /\ s * h \in Int
  OBVIOUS
<1> QED BY <1>1, <1>2, <1>3, <1>4 DEF q

LEMMA ExtentsType ==
  /\ Width \in Nat \ {0} /\ Height \in Nat \ {0}
  /\ Width * Height \in Nat
  /\ Rank = 1 => Width * Height = Width
<1>1. Width \in Nat \ {0} /\ Height \in Nat \ {0}
  BY Given DEF Width, Height
<1>2. \A m, n \in Nat : m * n \in Nat
  OBVIOUS
<1>3. Rank = 1 => Height = 1
  BY DEF Height
<1> QED BY <1>1, <1>2, <1>3

(* The iterations, coordinate by coordinate. *)
LEMMA IterationsType ==
  ASSUME NEW p
  PROVE  p \in Iterations <=>
           p \in [1..Rank -> Int] /\ \A k \in 1..Rank : LoopLo[k] <= p[k] /\ p[k] <= LoopHi[k]
<1>1. Len(LoopLo) = Rank /\ \A k \in 1..Rank : LoopLo[k] \in Int /\ LoopHi[k] \in Int
  BY Given DEF Rank
<1> DEFINE U == UNION {LoopLo[k]..LoopHi[k] : k \in 1..Rank}
<1>2. p \in Iterations <=> p \in [1..Rank -> U] /\ \A k \in 1..Rank : LoopLo[k] <= p[k] /\ p[k] <= LoopHi[k]
  BY <1>1 DEF Iterations, Vectors
<1>3. U \subseteq Int
  OBVIOUS
<1>4. ASSUME p \in [1..Rank -> Int], \A k \in 1..Rank : LoopLo[k] <= p[k] /\ p[k] <= LoopHi[k]
      PROVE  p \in [1..Rank -> U]
  <2>1. \A k \in 1..Rank : p[k] \in LoopLo[k]..LoopHi[k]
    BY <1>1, <1>4
  <2>2. \A k \in 1..Rank : p[k] \in U
    BY <2>1
  <2> HIDE DEF U
  <2> QED BY <1>4, <2>2
<1>5. p \in [1..Rank -> U] => p \in [1..Rank -> Int]
  <2> HIDE DEF U
  <2> QED BY <1>3
<1> QED BY <1>2, <1>4, <1>5

(* The iteration after k others. *)
LEMMA IterationIs ==
  ASSUME NEW k \in 0..(Width * Height - 1)
  PROVE  /\ Iteration(k) = [d \in 1..Rank |-> LoopLo[d] + (IF d = 1 THEN k % Width ELSE k \div Width)]
         /\ k % Width \in 0..(Width - 1) /\ k \div Width \in 0..(Height - 1)
         /\ Rank = 1 => k % Width = k /\ k \div Width = 0
         /\ k = (k % Width) + Width * (k \div Width)
<1>1. Width \in Nat \ {0} /\ Height \in Nat \ {0} /\ Width * Height \in Nat /\ k \in Nat
  BY ExtentsType
<1>2. k % Width \in 0..(Width - 1) /\ k \div Width \in Nat /\ k = (k % Width) + Width * (k \div Width)
  BY <1>1, QuotientRemainder
<1>3. k < Width * Height
  BY <1>1
<1>4. k \div Width < Height
  BY <1>1, <1>3, QuotientBelow
<1>5. k \div Width \in 0..(Height - 1)
  BY <1>1, <1>2, <1>4
<1>6. Rank = 1 => k % Width = k /\ k \div Width = 0
  <2> SUFFICES ASSUME Rank = 1 PROVE k % Width = k /\ k \div Width = 0
    OBVIOUS
  <2>1. k \div Width = 0
    BY <1>5 DEF Height
  <2>2. Width * 0 = 0
    BY <1>1
  <2> QED BY <1>2, <2>1, <2>2
<1>7. Iteration(k) = [d \in 1..Rank |-> LoopLo[d] + (IF d = 1 THEN k % Width ELSE k \div Width)]
  BY DEF Iteration, Width
<1> QED BY <1>2, <1>5, <1>6, <1>7

(* The nest runs over its iterations, each of them once. *)
LEMMA IterationInNest ==
  ASSUME NEW k \in 0..(Width * Height - 1)
  PROVE  Iteration(k) \in Iterations
<1>1. Rank \in 1..2 /\ LoopLo \in [1..Rank -> Int] /\ LoopHi \in [1..Rank -> Int]
  BY Given
<1>2. ASSUME NEW d \in 1..Rank
      PROVE  Iteration(k)[d] \in Int /\ LoopLo[d] <= Iteration(k)[d] /\ Iteration(k)[d] <= LoopHi[d]
  <2>1. Iteration(k)[d] = LoopLo[d] + (IF d = 1 THEN k % Width ELSE k \div Width)
    BY DEF Iteration, Width
  <2>2. LoopLo[d] \in Int /\ LoopHi[d] \in Int
    BY <1>1
  <2>3. CASE d = 1
    <3>1. k % Width \in 0..(LoopHi[1] - LoopLo[1])
      BY <1>1, <2>2, <2>3, IterationIs DEF Width
    <3> HIDE DEF Width
    <3> DEFINE m == k % Width
    <3> HIDE DEF m
    <3> QED BY <2>1, <2>2, <2>3, <3>1 DEF m
  <2>4. CASE d # 1
    <3>1. d = 2 /\ Rank = 2
      BY <1>1, <2>4
    <3>2. k \div Width \in 0..(LoopHi[2] - LoopLo[2])
      BY <1>1, <2>2, <3>1, IterationIs DEF Height
    <3> QED BY <2>1, <2>2, <2>4, <3>1, <3>2
  <2> QED BY <2>3, <2>4
<1>3. Iteration(k) \in [1..Rank -> Int]
  BY <1>2, IterationIs
<1> QED BY <1>2, <1>3, IterationsType

LEMMA IterationOnce ==
  ASSUME NEW j \in 0..(Width * Height - 1), NEW k \in 0..(Width * Height - 1), Iteration(j) = Iteration(k)
  PROVE  j = k
<1>1. LoopLo \in [1..Rank -> Int] /\ Rank \in 1..2 /\ 1 \in 1..Rank /\ Width \in Nat \ {0}
  BY Given, ExtentsType
<1>2. LoopLo[1] + (j % Width) = LoopLo[1] + (k % Width)
  <2>1. Iteration(j)[1] = LoopLo[1] + (j % Width) /\ Iteration(k)[1] = LoopLo[1] + (k % Width)
    BY <1>1, IterationIs
  <2> QED BY <2>1
<1>3. j % Width \in Int /\ k % Width \in Int /\ j \div Width \in Int /\ k \div Width \in Int
  BY IterationIs
<1>4. j % Width = k % Width
  <2>1. LoopLo[1] \in Int
    BY <1>1
  <2> QED BY <1>2, <1>3, <2>1, Cancel, Zenon
<1>5. j \div Width = k \div Width
  <2>1. CASE Rank = 1
    BY <2>1, IterationIs
  <2>2. CASE Rank = 2
    <3>1. Iteration(j)[2] = LoopLo[2] + (j \div Width) /\ Iteration(k)[2] = LoopLo[2] + (k \div Width)
      BY <2>2, IterationIs
    <3>2. LoopLo[2] \in Int
      BY <1>1, <2>2
    <3>3. LoopLo[2] + (j \div Width) = LoopLo[2] + (k \div Width)
      BY <3>1
    <3> QED BY <1>3, <3>2, <3>3, Cancel, Zenon
  <2> QED BY <1>1, <2>1, <2>2
<1> QED BY <1>4, <1>5, IterationIs

LEMMA IterationReached ==
  ASSUME NEW p \in Iterations
  PROVE  \E k \in 0..(Width * Height - 1) : Iteration(k) = p
<1>1. /\ LoopLo \in [1..Rank -> Int] /\ LoopHi \in [1..Rank -> Int] /\ Rank \in 1..2 /\ 1 \in 1..Rank
      /\ Width \in Nat \ {0} /\ Height \in Nat \ {0}
  BY Given, ExtentsType
<1>2. p \in [1..Rank -> Int] /\ \A k \in 1..Rank : LoopLo[k] <= p[k] /\ p[k] <= LoopHi[k]
  BY IterationsType
<1> DEFINE c == p[1] - LoopLo[1]
           r == IF Rank = 1 THEN 0 ELSE p[2] - LoopLo[2]
           k == c + Width * r
<1>3. c \in 0..(Width - 1)
  BY <1>1, <1>2 DEF Width
<1>4. r \in 0..(Height - 1)
  <2>1. CASE Rank = 1
    BY <2>1 DEF Height
  <2>2. CASE Rank = 2
    <3>1. 2 \in 1..Rank
      BY <2>2
    <3>2. LoopLo[2] \in Int /\ LoopHi[2] \in Int /\ p[2] \in Int /\ LoopLo[2] <= p[2] /\ p[2] <= LoopHi[2]
      BY <1>1, <1>2, <3>1
    <3> QED BY <2>2, <3>2 DEF Height
  <2> QED BY <1>1, <2>1, <2>2
<1> HIDE DEF c, r
<1>5. k \in Nat
  <2>1. Width * r \in Nat
    BY <1>1, <1>4
  <2> QED BY <1>3, <2>1
<1>6. k % Width = c /\ k \div Width = r
  <2>1. k % Width \in 0..(Width - 1) /\ k \div Width \in Nat /\ k = (k % Width) + Width * (k \div Width)
    BY <1>1, <1>5, QuotientRemainder
  <2> DEFINE a == k % Width
             b == k \div Width
  <2>2. a \in 0..Width - 1 /\ b \in Int /\ c \in 0..Width - 1 /\ r \in Int /\ a + Width * b = c + Width * r
    BY <1>3, <1>4, <2>1
  <2> HIDE DEF a, b, k
  <2>3. a = c /\ b = r
    BY <1>1, <2>2, RowPosition
  <2> QED BY <2>3 DEF a, b
<1>7. k < Width * Height
  <2> HIDE DEF k
  <2>1. k \div Width < Height /\ Height \in Nat
    BY <1>1, <1>4, <1>6
  <2> QED BY <1>1, <1>5, <2>1, QuotientBelow, Zenon
<1>8. k \in 0..(Width * Height - 1)
  <2> HIDE DEF k
  <2> QED BY <1>5, <1>7, ExtentsType
<1> HIDE DEF k
<1>9. Iteration(k) = p
  <2>1. Iteration(k) = [d \in 1..Rank |-> LoopLo[d] + (IF d = 1 THEN c ELSE r)]
    BY <1>6, <1>8, IterationIs
  <2>2. ASSUME NEW d \in 1..Rank
        PROVE  LoopLo[d] + (IF d = 1 THEN c ELSE r) = p[d]
    <3>1. LoopLo[d] \in Int /\ p[d] \in Int
      BY <1>1, <1>2
    <3>2. d = 1 \/ (d = 2 /\ Rank = 2)
      BY <1>1
    <3> QED BY <3>1, <3>2 DEF c, r
  <2>3. p = [d \in 1..Rank |-> p[d]]
    BY <1>2
  <2> QED BY <2>1, <2>2, <2>3
<1> QED BY <1>8, <1>9

LEMMA IterationCount == Cardinality(Iterations) = Width * Height
<1> DEFINE n == Width * Height
           f == [i \in 1..n |-> Iteration(i - 1)]
<1>1. n \in Nat
  BY ExtentsType
<1> HIDE DEF n
<1>2. \A i \in 1..n : i - 1 \in 0..(n - 1)
  BY <1>1
<1>3. f \in [1..n -> Iterations]
  BY <1>2, IterationInNest DEF n
<1>4. ASSUME NEW i \in 1..n, NEW j \in 1..n, f[i] = f[j]
      PROVE  i = j
  <2>1. i - 1 = j - 1
    BY <1>2, <1>4, IterationOnce DEF n
  <2> QED BY <1>1, <2>1
<1>5. ASSUME NEW p \in Iterations
      PROVE  \E i \in 1..n : f[i] = p
  <2>1. PICK k \in 0..(n - 1) : Iteration(k) = p
    BY IterationReached DEF n
  <2>2. k + 1 \in 1..n /\ (k + 1) - 1 = k
    BY <1>1
  <2> QED BY <2>1, <2>2
<1> HIDE DEF f
<1>6. f \in Bijection(1..n, Iterations)
  BY <1>3, <1>4, <1>5, Fun_IsBij
<1>7. Cardinality(Iterations) = n
  BY <1>1, <1>6, FS_CountingElements DEF ExistsBijection
<1> QED BY <1>7 DEF n

\* The k-th assignment the nest executes: which of its body, at which
\* iteration, and the location it stores.
Which(b, k) == 1 + ((k - 1) % Len(b))
Turn(b, k) == (k - 1) \div Len(b)
Target(b, k) == b[Which(b, k)].w
Goes(b, k) == FortranAddress(Elem, Shape[Target(b, k)], Iteration(Turn(b, k)))
Memories == [Arrays -> [Locs -> Val]]
Executions(b) == Len(b) * (Width * Height)

\* What the first k assignments of the nest have stored in memory m.
History(b, k, m) ==
  \A a \in Arrays : \A l \in Locs :
    /\ \A j \in 1..k : Target(b, j) = a /\ Goes(b, j) = l
                         => m[a][l] = Value(Mem0, b, Which(b, j), Iteration(Turn(b, j)))
    /\ (\A j \in 1..k : Target(b, j) = a => Goes(b, j) # l) => m[a][l] = Mem0[a][l]

(* A right-hand side has a value. *)
LEMMA ValueType ==
  ASSUME NEW b \in Bodies, NEW n \in 1..Len(b), NEW m \in Memories, NEW x
  PROVE  Value(m, b, n, x) \in Val
<1> DEFINE at(k) == FortranAddress(Elem, Shape[b[n].rd[k].a], Plus(x, b[n].rd[k].off))
           val(k) == Read(m, b[n].rd[k].a, at(k))
           vals == [k \in 1..Len(b[n].rd) |-> val(k)]
<1>1. \A k \in 1..Len(b[n].rd) : b[n].rd[k].a \in Arrays
  BY BodyType
<1>2. ASSUME NEW a \in Arrays, NEW l
      PROVE  Read(m, a, l) \in Val
  BY ValueAssumption DEF Read, Memories
<1> HIDE DEF at
<1>3. \A k \in 1..Len(b[n].rd) : val(k) \in Val
  BY <1>1, <1>2
<1> HIDE DEF val
<1>4. vals \in [1..Len(b[n].rd) -> Val]
  BY <1>3
<1> HIDE DEF vals
<1>5. Eval(n, vals) \in Val
  BY <1>4, ValueAssumption
<1> QED BY <1>5 DEF Value, vals, val, at

(* The order of the executions. *)
LEMMA ExecutionIs ==
  ASSUME NEW b \in Bodies, NEW k \in Nat \ {0}
  PROVE  /\ Len(b) \in Nat \ {0}
         /\ Which(b, k) \in 1..Len(b) /\ Turn(b, k) \in Nat
         /\ k = Which(b, k) + Len(b) * Turn(b, k)
<1>1. Len(b) \in Nat \ {0}
  <2>1. b \in Seq(Assignments) /\ b # <<>>
    BY KernelAssumption
  <2> QED BY <2>1, LenProperties, EmptySeq
<1> DEFINE i == k - 1
           s == Len(b)
<1>2. i \in Nat /\ k = i + 1 /\ s \in Nat \ {0}
  BY <1>1
<1> HIDE DEF i, s
<1>3. i % s \in 0..(s - 1) /\ i \div s \in Nat /\ i = (i % s) + s * (i \div s)
  BY <1>2, QuotientRemainder
<1>4. Which(b, k) = 1 + (i % s) /\ Turn(b, k) = i \div s
  BY DEF Which, Turn, i, s
<1> DEFINE q == i % s
           r == i \div s
<1>5. q \in 0..(s - 1) /\ r \in Nat /\ i = q + s * r
  BY <1>3
<1>6. Which(b, k) = 1 + q /\ Turn(b, k) = r
  BY <1>4
<1> HIDE DEF q, r
<1>7. s * r \in Int
  BY <1>2, <1>5
<1>8. Which(b, k) \in 1..s /\ Turn(b, k) \in Nat /\ k = Which(b, k) + s * Turn(b, k)
  <2>1. 1 + q \in 1..s /\ k = (1 + q) + s * r
    BY <1>2, <1>5, <1>7
  <2> QED BY <1>5, <1>6, <2>1, Zenon
<1> QED BY <1>1, <1>8 DEF s

LEMMA ExecutionInNest ==
  ASSUME NEW b \in Bodies, NEW k \in 1..Executions(b)
  PROVE  /\ k \in Nat \ {0}
         /\ Turn(b, k) \in 0..(Width * Height - 1)
         /\ Iteration(Turn(b, k)) \in Iterations
         /\ Target(b, k) \in Arrays /\ Within(Target(b, k))
<1>1. k \in Nat \ {0} /\ Width * Height \in Nat
  BY ExtentsType
<1>2. Len(b) \in Nat \ {0} /\ Which(b, k) \in 1..Len(b) /\ Turn(b, k) \in Nat
  BY <1>1, ExecutionIs
<1>3. Turn(b, k) < Width * Height
  <2> DEFINE i == k - 1
             s == Len(b)
             h == Width * Height
  <2>1. i \in Nat /\ s \in Nat \ {0} /\ h \in Nat /\ k <= s * h
    BY <1>1, <1>2 DEF Executions
  <2>2. s * h \in Int
    BY <2>1
  <2>3. i < s * h
    BY <2>1, <2>2
  <2> HIDE DEF i, s, h
  <2>4. i \div s < h
    BY <2>1, <2>3, QuotientBelow
  <2> QED BY <2>4 DEF Turn, i, s, h
<1>4. Turn(b, k) \in 0..(Width * Height - 1)
  BY <1>1, <1>2, <1>3
<1> QED BY <1>1, <1>2, <1>4, IterationInNest, AssignedWithin DEF Target

(* Two iterations have locations of their own in an array the nest assigns. *)
LEMMA LocationsDistinct ==
  ASSUME NEW a \in Arrays, Within(a), NEW p \in Iterations
  PROVE  /\ FortranAddress(Elem, Shape[a], p) \in Locs
         /\ \A q \in Iterations :
              FortranAddress(Elem, Shape[a], p) = FortranAddress(Elem, Shape[a], q) => p = q
<1>1. PICK x \in Coordinates : Index(x) = p
  BY IterationsAre
<1>2. \A y \in Coordinates : Place(a, y) = FortranAddress(Elem, Shape[a], Index(y))
  BY PlaceIs DEF Coordinates
<1>3. ASSUME NEW q \in Iterations,
             FortranAddress(Elem, Shape[a], p) = FortranAddress(Elem, Shape[a], q)
      PROVE  p = q
  <2>1. PICK y \in Coordinates : Index(y) = q
    BY IterationsAre
  <2>2. Place(a, x) = Place(a, y)
    BY <1>1, <1>2, <1>3, <2>1
  <2>3. x = y
    BY <2>2, PlacesDistinct
  <2> QED BY <1>1, <2>1, <2>3
<1> QED BY <1>1, <1>2, <1>3, PlaceInLocs

(* No location is stored twice. *)
LEMMA StoredOnce ==
  ASSUME NEW b \in Bodies, NEW j \in 1..Executions(b), NEW k \in 1..Executions(b),
         Target(b, j) = Target(b, k), Goes(b, j) = Goes(b, k)
  PROVE  j = k
<1>1. j \in Nat \ {0} /\ k \in Nat \ {0}
  BY ExecutionInNest
<1>2. Which(b, j) \in 1..Len(b) /\ Which(b, k) \in 1..Len(b)
  BY <1>1, ExecutionIs
<1>3. Which(b, j) = Which(b, k)
  BY <1>2, KernelAssumption DEF Target
<1>4. Iteration(Turn(b, j)) = Iteration(Turn(b, k))
  BY ExecutionInNest, LocationsDistinct DEF Goes
<1>5. Turn(b, j) = Turn(b, k)
  BY <1>4, ExecutionInNest, IterationOnce
<1> QED BY <1>1, <1>3, <1>5, ExecutionIs

(* In a nest whose iterations are independent no assignment reads what an *)
(* execution before it has stored.                                        *)
LEMMA ReadsOriginal ==
  ASSUME NEW b \in Bodies, Independent(b), NEW k \in 1..Executions(b), NEW j \in 1..Executions(b), j < k,
         NEW i \in 1..Len(b[Which(b, k)].rd), b[Which(b, k)].rd[i].a = Target(b, j)
  PROVE  FortranAddress(Elem, Shape[Target(b, j)],
                        Plus(Iteration(Turn(b, k)), b[Which(b, k)].rd[i].off)) # Goes(b, j)
<1> DEFINE n == Which(b, k)
           m == Which(b, j)
           r == b[n].rd[i]
           p == Iteration(Turn(b, k))
<1>1. k \in Nat \ {0} /\ j \in Nat \ {0} /\ n \in 1..Len(b) /\ m \in 1..Len(b) /\ p \in Iterations
  BY ExecutionInNest, ExecutionIs
<1>2. r \in Range(b[n].rd) /\ r.a = b[m].w /\ r.off \in [1..Rank -> Int]
  BY <1>1, ReadType DEF Target
<1>3. (\A d \in 1..Rank : r.off[d] = 0) /\ n <= m
  <2> DEFINE d == [n |-> n, m |-> m, off |-> r.off]
             D(g, h) == {[n |-> g, m |-> h, off |-> q.off] : q \in {r0 \in Range(b[g].rd) : r0.a = b[h].w}}
  <2>1. d \in D(n, m)
    BY <1>2
  <2>2. d \in Dependences(b)
    <3>1. D(n, m) \in {D(g, h) : g, h \in 1..Len(b)}
      BY <1>1
    <3>2. Dependences(b) = UNION {D(g, h) : g, h \in 1..Len(b)}
      BY DEF Dependences
    <3> HIDE DEF D, d
    <3> QED BY <2>1, <3>1, <3>2
  <2>3. (\A e \in 1..Rank : d.off[e] = 0) /\ d.n <= d.m
    <3> HIDE DEF d
    <3> QED BY <2>2 DEF Independent
  <2> QED BY <2>3
<1>4. Plus(p, r.off) = p
  <2>1. p \in [1..Rank -> Int] /\ Len(p) = Rank
    BY <1>1, IterationsType, VecLen, Given
  <2>2. \A d \in 1..Rank : p[d] + r.off[d] = p[d]
    BY <1>3, <2>1
  <2>3. Plus(p, r.off) = [d \in 1..Rank |-> p[d] + r.off[d]]
    BY <2>1 DEF Plus
  <2>4. p = [d \in 1..Rank |-> p[d]]
    BY <2>1
  <2> QED BY <2>2, <2>3, <2>4
<1>5. ASSUME FortranAddress(Elem, Shape[Target(b, j)], p) = Goes(b, j)
      PROVE  FALSE
  <2>1. p = Iteration(Turn(b, j))
    BY <1>1, <1>5, ExecutionInNest, LocationsDistinct DEF Goes
  <2>2. Turn(b, k) = Turn(b, j)
    BY <2>1, ExecutionInNest, IterationOnce
  <2>3. /\ k = n + Len(b) * Turn(b, k) /\ j = m + Len(b) * Turn(b, k)
        /\ Turn(b, k) \in Nat /\ Len(b) \in Nat
    BY <1>1, <2>2, ExecutionIs
  <2>4. Len(b) * Turn(b, k) \in Int
    BY <2>3
  <2> HIDE DEF n, m
  <2> DEFINE t == Len(b) * Turn(b, k)
  <2>5. k = n + t /\ j = m + t /\ t \in Int
    BY <2>3, <2>4
  <2> HIDE DEF t
  <2> QED BY <1>1, <1>3, <2>5
<1> QED BY <1>4, <1>5

\* The effect of the k-th execution on memory m.
Executed(b, k, m) ==
  [m EXCEPT ![Target(b, k)][Goes(b, k)] = Value(m, b, Which(b, k), Iteration(Turn(b, k)))]

LEMMA ExecutedIs ==
  ASSUME NEW b \in Bodies, NEW k \in Nat \ {0}, NEW m \in Memories
  PROVE  /\ Executed(b, k, m) \in Memories
         /\ \A a \in Arrays : \A l \in Locs :
              Executed(b, k, m)[a][l] =
                IF a = Target(b, k) /\ l = Goes(b, k)
                THEN Value(m, b, Which(b, k), Iteration(Turn(b, k)))
                ELSE m[a][l]
<1> DEFINE w == Target(b, k)
           g == Goes(b, k)
           y == Value(m, b, Which(b, k), Iteration(Turn(b, k)))
<1>1. Which(b, k) \in 1..Len(b)
  BY ExecutionIs
<1>2. w \in Arrays
  BY <1>1, BodyType DEF Target
<1>3. y \in Val
  BY <1>1, ValueType
<1>4. Executed(b, k, m) = [m EXCEPT ![w] = [m[w] EXCEPT ![g] = y]]
  BY DEF Executed
<1> HIDE DEF w, g, y
<1>5. m[w] \in [Locs -> Val]
  BY <1>2 DEF Memories
<1>6. [m[w] EXCEPT ![g] = y] \in [Locs -> Val]
      /\ \A l \in Locs : [m[w] EXCEPT ![g] = y][l] = IF l = g THEN y ELSE m[w][l]
  BY <1>3, <1>5
<1> DEFINE r == [m[w] EXCEPT ![g] = y]
<1> HIDE DEF r
<1>7. Executed(b, k, m) = [m EXCEPT ![w] = r] /\ r \in [Locs -> Val]
      /\ \A l \in Locs : r[l] = IF l = g THEN y ELSE m[w][l]
  BY <1>4, <1>6 DEF r
<1>8. Executed(b, k, m) \in Memories /\ \A a \in Arrays : Executed(b, k, m)[a] = IF a = w THEN r ELSE m[a]
  BY <1>2, <1>7 DEF Memories
<1> QED BY <1>7, <1>8 DEF w, g, y

(* The recursion of NestComputes is that of a function: memory after each of *)
(* the executions.                                                           *)
LEMMA NestRecursion ==
  ASSUME NEW b \in Bodies
  PROVE  \E f \in [Nat -> Memories] :
           /\ NestComputes(b) = f[Executions(b)]
           /\ f[0] = Mem0
           /\ \A k \in Nat \ {0} : f[k] = Executed(b, k, f[k - 1])
<1> DEFINE after == CHOOSE f : f = [k \in Nat |->
                      IF k = 0 THEN Mem0
                      ELSE LET n == 1 + ((k - 1) % Len(b))
                               x == Iteration((k - 1) \div Len(b))
                           IN [f[k - 1] EXCEPT ![b[n].w][FortranAddress(Elem, Shape[b[n].w], x)] =
                                 Value(f[k - 1], b, n, x)]]
           s == [k \in Nat |-> [m \in Memories |-> IF k = 0 THEN m ELSE Executed(b, k, m)]]
<1>1. \E f \in [Nat -> Memories] : RecursUp(f, Mem0, s)
  <2>1. s \in [Nat -> [Memories -> Memories]]
    BY ExecutedIs
  <2>2. Mem0 \in Memories
    BY ValueAssumption DEF Memories
  <2> HIDE DEF s, after
  <2> QED BY <2>1, <2>2, RecursionUp
<1>2. PICK g \in [Nat -> Memories] : RecursUp(g, Mem0, s)
  BY <1>1
<1>3. ASSUME NEW k \in Nat
      PROVE  g[k] = IF k = 0 THEN Mem0 ELSE Executed(b, k, g[k - 1])
  <2>1. g[k] = IF k = 0 THEN Mem0 ELSE s[k][g[k - 1]]
    BY <1>2 DEF RecursUp
  <2>2. k # 0 => g[k - 1] \in Memories
    BY <1>2
  <2> QED BY <2>1, <2>2
<1>4. g = [k \in Nat |-> IF k = 0 THEN Mem0 ELSE Executed(b, k, g[k - 1])]
  BY <1>3
<1>5. g = [k \in Nat |->
             IF k = 0 THEN Mem0
             ELSE LET n == 1 + ((k - 1) % Len(b))
                      x == Iteration((k - 1) \div Len(b))
                  IN [g[k - 1] EXCEPT ![b[n].w][FortranAddress(Elem, Shape[b[n].w], x)] =
                        Value(g[k - 1], b, n, x)]]
  BY <1>4, Zenon DEF Executed, Target, Goes, Which, Turn
<1>6. after = [k \in Nat |->
             IF k = 0 THEN Mem0
             ELSE LET n == 1 + ((k - 1) % Len(b))
                      x == Iteration((k - 1) \div Len(b))
                  IN [after[k - 1] EXCEPT ![b[n].w][FortranAddress(Elem, Shape[b[n].w], x)] =
                        Value(after[k - 1], b, n, x)]]
  BY <1>5, Zenon
<1>7. NestComputes(b) = after[Len(b) * Cardinality(Iterations)]
  BY Zenon DEF NestComputes
<1> HIDE DEF after
<1>8. after = [k \in Nat |-> IF k = 0 THEN Mem0 ELSE Executed(b, k, after[k - 1])]
  BY <1>6, Zenon DEF Executed, Target, Goes, Which, Turn
<1>9. after[0] = Mem0 /\ \A k \in Nat \ {0} : after[k] = Executed(b, k, after[k - 1])
  BY <1>8
<1>10. after \in [Nat -> Memories]
  <2> DEFINE S == {k \in Nat : after[k] \in Memories}
  <2>1. 0 \in S
    BY <1>9, ValueAssumption DEF Memories
  <2>2. ASSUME NEW k \in Nat, k \in S
        PROVE  k + 1 \in S
    <3>1. k + 1 \in Nat \ {0} /\ (k + 1) - 1 = k
      OBVIOUS
    <3>2. after[k + 1] = Executed(b, k + 1, after[k])
      BY <1>9, <3>1
    <3> QED BY <2>2, <3>1, <3>2, ExecutedIs
  <2>3. \A k \in Nat : k \in S
    <3> HIDE DEF S
    <3> QED BY <2>1, <2>2, Induct
  <2> QED BY <1>8, <2>3
<1> QED BY <1>7, <1>9, <1>10, IterationCount DEF Executions

LEMMA ExecutionsType ==
  ASSUME NEW b \in Bodies
  PROVE  Executions(b) \in Nat
<1>1. Len(b) \in Nat /\ Width * Height \in Nat
  BY ExecutionIs, ExtentsType
<1>2. \A m, n \in Nat : m * n \in Nat
  OBVIOUS
<1> QED BY <1>1, <1>2 DEF Executions

(* The values read by the k-th execution are those of memory at the call. *)
LEMMA ValueOriginal ==
  ASSUME NEW b \in Bodies, Independent(b), NEW k \in 1..Executions(b),
         NEW m \in Memories, History(b, k - 1, m)
  PROVE  Value(m, b, Which(b, k), Iteration(Turn(b, k))) = Value(Mem0, b, Which(b, k), Iteration(Turn(b, k)))
<1> DEFINE n == Which(b, k)
           p == Iteration(Turn(b, k))
           r(i) == b[n].rd[i]
           at(i) == FortranAddress(Elem, Shape[r(i).a], Plus(p, r(i).off))
<1>1. k \in Nat \ {0} /\ n \in 1..Len(b)
  BY ExecutionInNest, ExecutionIs
<1>2. ASSUME NEW i \in 1..Len(b[n].rd)
      PROVE  Read(m, r(i).a, at(i)) = Read(Mem0, r(i).a, at(i))
  <2>1. r(i).a \in Arrays
    BY <1>1, BodyType
  <2>2. ASSUME at(i) \in Locs
        PROVE  m[r(i).a][at(i)] = Mem0[r(i).a][at(i)]
    <3>1. ASSUME NEW j \in 1..(k - 1), Target(b, j) = r(i).a
          PROVE  Goes(b, j) # at(i)
      <4>1. j \in 1..Executions(b) /\ j < k
        BY <1>1, ExecutionsType
      <4> QED BY <3>1, <4>1, ReadsOriginal
    <3> HIDE DEF at, r
    <3> QED BY <2>1, <2>2, <3>1 DEF History
  <2> HIDE DEF at, r
  <2> QED BY <2>2 DEF Read
<1>3. [i \in 1..Len(b[n].rd) |-> Read(m, r(i).a, at(i))] = [i \in 1..Len(b[n].rd) |-> Read(Mem0, r(i).a, at(i))]
  BY <1>2, Zenon
<1>4. /\ Value(m, b, n, p) = Eval(n, [i \in 1..Len(b[n].rd) |-> Read(m, r(i).a, at(i))])
      /\ Value(Mem0, b, n, p) = Eval(n, [i \in 1..Len(b[n].rd) |-> Read(Mem0, r(i).a, at(i))])
  BY Zenon DEF Value
<1> HIDE DEF r, at, n, p
<1>5. Value(m, b, n, p) = Value(Mem0, b, n, p)
  BY <1>3, <1>4, Zenon
<1> QED BY <1>5 DEF n, p

(* Memory after k executions, as long as the nest runs. *)
LEMMA NestHistory ==
  ASSUME NEW b \in Bodies, Independent(b), NEW f \in [Nat -> Memories],
         f[0] = Mem0, \A k \in Nat \ {0} : f[k] = Executed(b, k, f[k - 1])
  PROVE  History(b, Executions(b), f[Executions(b)])
<1> DEFINE N == Executions(b)
           S == {k \in Nat : k <= N => History(b, k, f[k])}
<1>1. 0 \in S
  BY DEF History
<1>2. ASSUME NEW i \in Nat, i \in S
      PROVE  i + 1 \in S
  <2> DEFINE k == i + 1
  <2> SUFFICES ASSUME k <= N PROVE History(b, k, f[k])
    OBVIOUS
  <2>1. k \in Nat \ {0} /\ k - 1 = i /\ k \in 1..N /\ i <= N /\ 1..k = (1..i) \cup {k} /\ 1..k \subseteq 1..N
    BY ExecutionsType
  <2>2. History(b, i, f[i]) /\ f[i] \in Memories /\ f[k] = Executed(b, k, f[i])
    BY <1>2, <2>1
  <2> DEFINE w == Target(b, k)
             g == Goes(b, k)
             y == Value(Mem0, b, Which(b, k), Iteration(Turn(b, k)))
  <2>3. Value(f[i], b, Which(b, k), Iteration(Turn(b, k))) = y
    BY <2>1, <2>2, ValueOriginal
  <2>4. \A a \in Arrays : \A l \in Locs : f[k][a][l] = IF a = w /\ l = g THEN y ELSE f[i][a][l]
    BY <2>1, <2>2, <2>3, ExecutedIs
  <2> HIDE DEF k, N
  <2>5. ASSUME NEW a \in Arrays, NEW l \in Locs, NEW j \in 1..k, Target(b, j) = a, Goes(b, j) = l
        PROVE  f[k][a][l] = Value(Mem0, b, Which(b, j), Iteration(Turn(b, j)))
    <3>1. CASE a = w /\ l = g
      <4>1. j = k
        BY <2>1, <2>5, <3>1, StoredOnce DEF N
      <4> QED BY <2>4, <3>1, <4>1
    <3>2. CASE ~(a = w /\ l = g)
      <4>1. j \in 1..i
        BY <2>1, <2>5, <3>2
      <4>2. f[i][a][l] = Value(Mem0, b, Which(b, j), Iteration(Turn(b, j)))
        BY <2>2, <2>5, <4>1 DEF History
      <4> QED BY <2>4, <3>2, <4>2
    <3> QED BY <3>1, <3>2
  <2>6. ASSUME NEW a \in Arrays, NEW l \in Locs, \A j \in 1..k : Target(b, j) = a => Goes(b, j) # l
        PROVE  f[k][a][l] = Mem0[a][l]
    <3>1. ~(a = w /\ l = g)
      BY <2>1, <2>6
    <3>2. f[i][a][l] = Mem0[a][l]
      BY <2>1, <2>2, <2>6 DEF History
    <3> QED BY <2>4, <3>1, <3>2
  <2> QED BY <2>5, <2>6 DEF History
<1>3. \A k \in Nat : k \in S
  <2> HIDE DEF S
  <2> QED BY <1>1, <1>2, Induct
<1>4. N \in Nat /\ N <= N
  BY ExecutionsType
<1> QED BY <1>3, <1>4

(* Every assignment is executed at every iteration. *)
LEMMA ExecutionReached ==
  ASSUME NEW b \in Bodies, NEW n \in 1..Len(b), NEW p \in Iterations
  PROVE  \E k \in 1..Executions(b) : Which(b, k) = n /\ Iteration(Turn(b, k)) = p
<1>1. PICK t \in 0..(Width * Height - 1) : Iteration(t) = p
  BY IterationReached
<1> DEFINE s == Len(b)
           h == Width * Height
           c == n - 1
           i == c + s * t
<1>2. s \in Nat \ {0} /\ h \in Nat /\ t \in Nat /\ t < h /\ c \in 0..(s - 1) /\ n = c + 1 /\ 1 \in Nat \ {0}
  BY ExecutionIs, ExtentsType
<1> HIDE DEF s, h, c
<1>3. i \in Nat
  <2>1. s * t \in Nat
    BY <1>2
  <2> QED BY <1>2, <2>1
<1>4. i % s = c /\ i \div s = t
  <2>1. i % s \in 0..(s - 1) /\ i \div s \in Nat /\ i = (i % s) + s * (i \div s)
    BY <1>2, <1>3, QuotientRemainder
  <2> DEFINE u == i % s
             v == i \div s
  <2>2. u \in 0..s - 1 /\ v \in Int /\ c \in 0..s - 1 /\ t \in Int /\ u + s * v = c + s * t
    BY <1>2, <2>1
  <2> HIDE DEF u, v, i
  <2>3. u = c /\ v = t
    BY <1>2, <2>2, RowPosition
  <2> QED BY <2>3 DEF u, v
<1> HIDE DEF i
<1>5. i < s * h
  <2>1. i \div s < h
    BY <1>2, <1>4
  <2> QED BY <1>2, <1>3, <2>1, QuotientBelow, Zenon
<1>6. i + 1 \in 1..Executions(b) /\ (i + 1) - 1 = i
  <2>1. i < Executions(b)
    BY <1>5 DEF Executions, s, h
  <2> QED BY <1>3, <2>1, ExecutionsType
<1>7. Which(b, i + 1) = n /\ Turn(b, i + 1) = t
  BY <1>2, <1>4, <1>6 DEF Which, Turn, s
<1> QED BY <1>1, <1>6, <1>7

(* What the sequential nest computes when its iterations are independent:  *)
(* every assignment's value of memory before the nest, at every iteration. *)
THEOREM NestIsSummary ==
  ASSUME NEW b \in Bodies, Independent(b)
  PROVE  /\ NestComputes(b) \in Memories
         /\ \A n \in 1..Len(b) : \A p \in Iterations :
              NestComputes(b)[b[n].w][FortranAddress(Elem, Shape[b[n].w], p)] = Value(Mem0, b, n, p)
         /\ \A a \in Arrays : \A l \in Locs :
              (\A n \in 1..Len(b) : \A p \in Iterations :
                 b[n].w = a => FortranAddress(Elem, Shape[a], p) # l)
              => NestComputes(b)[a][l] = Mem0[a][l]
<1>1. PICK f \in [Nat -> Memories] :
           /\ NestComputes(b) = f[Executions(b)]
           /\ f[0] = Mem0
           /\ \A k \in Nat \ {0} : f[k] = Executed(b, k, f[k - 1])
  BY NestRecursion
<1> DEFINE m == NestComputes(b)
<1>2. m \in Memories
  BY <1>1, ExecutionsType
<1>3. History(b, Executions(b), m)
  BY <1>1, NestHistory
<1> HIDE DEF m
<1>4. ASSUME NEW n \in 1..Len(b), NEW p \in Iterations
      PROVE  m[b[n].w][FortranAddress(Elem, Shape[b[n].w], p)] = Value(Mem0, b, n, p)
  <2>1. PICK k \in 1..Executions(b) : Which(b, k) = n /\ Iteration(Turn(b, k)) = p
    BY ExecutionReached
  <2>2. Target(b, k) = b[n].w /\ Goes(b, k) = FortranAddress(Elem, Shape[b[n].w], p)
    BY <2>1 DEF Target, Goes
  <2>3. b[n].w \in Arrays /\ FortranAddress(Elem, Shape[b[n].w], p) \in Locs
    BY AssignedWithin, LocationsDistinct
  <2> QED BY <1>3, <2>1, <2>2, <2>3 DEF History
<1>5. ASSUME NEW a \in Arrays, NEW l \in Locs,
             \A n \in 1..Len(b) : \A p \in Iterations :
               b[n].w = a => FortranAddress(Elem, Shape[a], p) # l
      PROVE  m[a][l] = Mem0[a][l]
  <2>1. ASSUME NEW k \in 1..Executions(b), Target(b, k) = a
        PROVE  Goes(b, k) # l
    <3>1. Which(b, k) \in 1..Len(b) /\ Iteration(Turn(b, k)) \in Iterations
      BY ExecutionInNest, ExecutionIs
    <3> QED BY <1>5, <2>1, <3>1 DEF Target, Goes
  <2> QED BY <1>3, <2>1 DEF History
<1> QED BY <1>2, <1>4, <1>5 DEF m

(* At the end of a call memory is what the summary says of memory before it. *)
LEMMA DoneApplies ==
  ASSUME IInv, SInv, pc = "done", Independent(body), NEW n \in Assigns, NEW p \in Iterations \ Spoilt(body)
  PROVE  mem[body[n].w][FortranAddress(Elem, Shape[body[n].w], p)] = Value(Mem0, body, n, p)
<1>1. PICK x \in Coordinates : Index(x) = p
  BY IterationsAre
<1>2. body[n].w \in Arrays
  BY AssignedWithin DEF IInv, TypeOK, Assigns
<1>3. Place(body[n].w, x) = FortranAddress(Elem, Shape[body[n].w], p)
  BY <1>1, <1>2, PlaceIs DEF Coordinates
<1>4. Stored(x)
  BY LanesCover DEF Stored, SInv, Phases
<1> QED BY <1>1, <1>3, <1>4 DEF SInv, Results, Result, Undisturbed

(* The kernel that replaces a nest of independent iterations leaves in memory  *)
(* what the nest would have, for every body, bounds, shapes, extents and       *)
(* vector width, and in whatever order its tasks load and store: everywhere    *)
(* but where an overlapping vector updates a second time in place.             *)
THEOREM KernelIsLoop == Spec => []KernelMatchesLoop
<1>1. ASSUME IInv, SInv, pc = "done", Independent(body), NEW a \in Arrays, NEW l \in Locs,
             \A p \in Spoilt(body) : FortranAddress(Elem, Shape[a], p) # l
      PROVE  mem[a][l] = NestComputes(body)[a][l]
  <2> DEFINE m == NestComputes(body)
  <2>1. body \in Bodies /\ Assigns = 1..Len(body)
    BY <1>1 DEF IInv, TypeOK, Assigns
  <2>2. /\ \A n \in Assigns : \A p \in Iterations :
             m[body[n].w][FortranAddress(Elem, Shape[body[n].w], p)] = Value(Mem0, body, n, p)
        /\ \A c \in Arrays : \A b \in Locs :
             (\A n \in Assigns : \A p \in Iterations :
                body[n].w = c => FortranAddress(Elem, Shape[c], p) # b)
             => m[c][b] = Mem0[c][b]
    BY <1>1, <2>1, NestIsSummary
  <2> HIDE DEF m
  <2>3. ASSUME NEW n \in Assigns, NEW p \in Iterations,
               body[n].w = a, FortranAddress(Elem, Shape[a], p) = l
        PROVE  mem[a][l] = m[a][l]
    <3>1. p \notin Spoilt(body)
      BY <1>1, <2>3
    <3> QED BY <1>1, <2>2, <2>3, <3>1, DoneApplies
  <2>4. ASSUME \A n \in Assigns : \A p \in Iterations :
                 body[n].w = a => FortranAddress(Elem, Shape[a], p) # l
        PROVE  mem[a][l] = m[a][l]
    <3>1. ASSUME NEW n \in Assigns, NEW x \in Coordinates, body[n].w = a
          PROVE  Place(a, x) # l
      <4>1. Index(x) \in Iterations
        BY IterationsAre
      <4>2. Place(a, x) = FortranAddress(Elem, Shape[a], Index(x))
        BY PlaceIs DEF Coordinates
      <4> QED BY <2>4, <3>1, <4>1, <4>2
    <3>2. mem[a][l] = Mem0[a][l]
      BY <1>1, <3>1 DEF SInv, Frame
    <3> QED BY <2>2, <2>4, <3>2
  <2> QED BY <2>3, <2>4 DEF m
<1>2. IInv /\ SInv => KernelMatchesLoop
  BY <1>1 DEF KernelMatchesLoop
<1> QED BY <1>2, Inductive, ResultsDetermined, PTL

------------------------------------------------------------------------------
\* Points that two vectors compute.

\* What one and two applications of a single assignment give at coordinate x.
Once(x) == Result(1, x)
Again(x) == Value(NestComputes(body), body, 1, Index(x))
Here(m, x) == m[body[1].w][Place(body[1].w, x)]

\* A vector with x is still to be stored.
Awaited(x) == \E t \in Tasks : \E k \in (pos[t] + 1)..Steps : x \in Lanes(t, k)

\* Who loads a point before it is stored has the first value; the second one is
\* computed from the first, and stored last.
Loads == \A t \in Tasks : reg[t] # <<>> => \A x \in Lanes(t, pos[t] + 1) :
           reg[t][1][x] = Once(x) \/ (Stored(x) /\ reg[t][1][x] = Again(x))
StoresOf(x) ==
  /\ ~ Stored(x) => Here(mem, x) = Here(Mem0, x)
  /\ Stored(x) => Here(mem, x) = Once(x) \/ Here(mem, x) = Again(x)
  /\ Stored(x) /\ Awaited(x) => Here(mem, x) = Once(x)
Twice == Loads /\ \A x \in Coordinates : StoresOf(x)

Single == Independent(body) /\ Len(body) = 1
TInv == Single => Twice

(* No point is in three vectors. *)
LEMMA LanesTwice ==
  ASSUME Box.extent[1] >= Vec, NEW t \in Tasks, NEW u \in Tasks, NEW w \in Tasks,
         NEW i \in 1..Steps, NEW j \in 1..Steps, NEW k \in 1..Steps, NEW x,
         x \in Lanes(t, i), x \in Lanes(u, j), x \in Lanes(w, k)
  PROVE  (t = u /\ i = j) \/ (t = w /\ i = k) \/ (u = w /\ j = k)
<1>1. (t = u /\ i = j) \/ (Whole(t, i) <=> ~ Whole(u, j))
  BY LanesMeet
<1>2. (t = w /\ i = k) \/ (Whole(t, i) <=> ~ Whole(w, k))
  BY LanesMeet
<1>3. (u = w /\ j = k) \/ (Whole(u, j) <=> ~ Whole(w, k))
  BY LanesMeet
<1> QED BY <1>1, <1>2, <1>3

(* A load computes what the assignment gives of any memory that agrees with *)
(* the present one where it matters.                                        *)
LEMMA ComputesFrom ==
  ASSUME IInv, SInv, Single, pc = "run", NEW x \in Coordinates, NEW m,
         Here(m, x) = Here(mem, x),
         \A a \in Arrays : a # body[1].w => \A l \in Locs : m[a][l] = Mem0[a][l]
  PROVE  Compute(1, x) = Value(m, body, 1, Index(x))
<1>1. body \in Bodies /\ 1 \in Assigns /\ Assigns = {1} /\ 1 \in 1..Len(body)
  BY DEF IInv, TypeOK, Assigns, Single
<1>2. x \in [1..Rank -> Int]
  BY DEF Coordinates
<1> DEFINE array(k) == body[1].rd[k].a
           loc(k) == FortranAddress(Elem, Shape[array(k)], Plus(Index(x), body[1].rd[k].off))
<1>3. ASSUME NEW k \in 1..Len(body[1].rd), loc(k) \in Locs
      PROVE  mem[array(k)][loc(k)] = m[array(k)][loc(k)]
  <2>1. array(k) \in Arrays
    BY <1>1, ReadType
  <2>2. CASE body[1].w = array(k)
    <3>1. loc(k) = Place(body[1].w, x)
      BY <1>1, <1>2, <2>2, ReadsOwn DEF Single
    <3> QED BY <2>2, <3>1 DEF Here
  <2>3. CASE body[1].w # array(k)
    <3> HIDE DEF array, loc
    <3>1. mem[array(k)][loc(k)] = Mem0[array(k)][loc(k)]
      BY <1>1, <1>3, <2>1, <2>3 DEF SInv, Frame
    <3> QED BY <1>3, <2>1, <2>3, <3>1
  <2> QED BY <2>2, <2>3
<1>4. \A k \in 1..Len(body[1].rd) :
        LET r == body[1].rd[k]
            l == FortranAddress(Elem, Shape[r.a], Plus(Index(x), r.off))
        IN  l \in Locs => mem[r.a][l] = m[r.a][l]
  BY <1>3, Zenon
<1> QED BY <1>1, <1>2, <1>4, ComputeIs DEF SInv

(* ... the first value before it is stored, the second one after it. *)
LEMMA LoadsOnceOrAgain ==
  ASSUME IInv, SInv, Single, pc = "run", NEW x \in Coordinates
  PROVE  /\ Here(mem, x) = Here(Mem0, x) => Compute(1, x) = Once(x)
         /\ Here(mem, x) = Once(x) => Compute(1, x) = Again(x)
<1>1. body \in Bodies /\ 1 \in 1..Len(body) /\ 1..Len(body) = {1} /\ Independent(body)
  BY DEF IInv, TypeOK, Single
<1>2. Here(mem, x) = Here(Mem0, x) => Compute(1, x) = Once(x)
  BY ComputesFrom DEF Once, Result
<1> DEFINE m == NestComputes(body)
<1>3. Index(x) \in Iterations /\ body[1].w \in Arrays
  BY <1>1, IterationsAre, BodyType
<1>4. Place(body[1].w, x) = FortranAddress(Elem, Shape[body[1].w], Index(x))
  BY <1>3, PlaceIs DEF Coordinates
<1>5. /\ m[body[1].w][Place(body[1].w, x)] = Value(Mem0, body, 1, Index(x))
      /\ \A a \in Arrays : a # body[1].w => \A l \in Locs : m[a][l] = Mem0[a][l]
  <2>1. /\ \A n \in 1..Len(body) : \A p \in Iterations :
             m[body[n].w][FortranAddress(Elem, Shape[body[n].w], p)] = Value(Mem0, body, n, p)
        /\ \A a \in Arrays : \A l \in Locs :
             (\A n \in 1..Len(body) : \A p \in Iterations :
                body[n].w = a => FortranAddress(Elem, Shape[a], p) # l)
             => m[a][l] = Mem0[a][l]
    BY <1>1, NestIsSummary
  <2> HIDE DEF m
  <2> QED BY <1>1, <1>3, <1>4, <2>1
<1> HIDE DEF m
<1>6. ASSUME Here(mem, x) = Once(x) PROVE Compute(1, x) = Value(m, body, 1, Index(x))
  <2>1. Here(m, x) = Here(mem, x)
    BY <1>5, <1>6 DEF Here, Once, Result
  <2> QED BY <1>5, <2>1, ComputesFrom
<1> QED BY <1>2, <1>6 DEF Again, m

(* Loading keeps the invariant. *)
LEMMA LoadTInv ==
  ASSUME IInv, SInv, TInv, NEW t \in Tasks, Load(t)
  PROVE  TInv'
<1> DEFINE new == [n \in Assigns |-> [x \in Lanes(t, pos[t] + 1) |-> Compute(n, x)]]
<1>1. /\ reg' = [reg EXCEPT ![t] = new] /\ UNCHANGED <<body, seen, mode, pc, pos, mem>>
      /\ pc = "run" /\ pos[t] < Steps
  BY DEF Load
<1>2. reg = [u \in Tasks |-> reg[u]]
  BY DEF IInv, RegistersHoldValues
<1> SUFFICES ASSUME Single PROVE Twice'
  BY <1>1 DEF TInv, Single
<1>3. Twice /\ 1 \in Assigns
  BY DEF TInv, Single, Assigns
<1>4. \A x \in Lanes(t, pos[t] + 1) : new[1][x] = Compute(1, x)
  BY <1>3
<1> HIDE DEF new
<1>5. \A u \in Tasks : reg'[u] = IF u = t THEN new ELSE reg[u]
  BY <1>1, <1>2
<1>6. \A x : /\ Once(x)' = Once(x) /\ Again(x)' = Again(x) /\ (Stored(x)' <=> Stored(x))
             /\ (StoresOf(x)' <=> StoresOf(x))
  BY <1>1 DEF Once, Again, Result, Stored, StoresOf, Here, Awaited
<1>7. pos[t] + 1 \in 1..Steps /\ pos[t] \in Nat
  BY <1>1, NextStep
<1>8. ASSUME NEW x \in Lanes(t, pos[t] + 1)
      PROVE  new[1][x] = Once(x) \/ (Stored(x) /\ new[1][x] = Again(x))
  <2>1. x \in Coordinates
    BY <1>1, <1>7, LanesInNest DEF SInv, Phases
  <2>2. Awaited(x)
    <3>1. pos[t] + 1 \in (pos[t] + 1)..Steps
      BY <1>7, StepsType
    <3> QED BY <3>1 DEF Awaited
  <2>3. Here(mem, x) = Here(Mem0, x) \/ (Stored(x) /\ Here(mem, x) = Once(x))
    BY <1>3, <2>1, <2>2 DEF Twice, StoresOf
  <2> QED BY <1>1, <1>4, <2>1, <2>3, LoadsOnceOrAgain
<1>9. Loads'
  BY <1>1, <1>3, <1>5, <1>6, <1>8 DEF Loads, Twice
<1> QED BY <1>3, <1>6, <1>9 DEF Twice

(* Storing keeps it. *)
LEMMA StoreTInv ==
  ASSUME IInv, SInv, TInv, NEW t \in Tasks, Store(t)
  PROVE  TInv'
<1> DEFINE now == Lanes(t, pos[t] + 1)
<1>1. /\ reg' = [reg EXCEPT ![t] = <<>>] /\ pos' = [pos EXCEPT ![t] = @ + 1]
      /\ UNCHANGED <<body, seen, mode, pc>> /\ reg[t] # <<>> /\ pc = "run"
  BY DEF Store
<1>2. reg = [u \in Tasks |-> reg[u]] /\ pos \in [Tasks -> 0..Steps] /\ pos[t] < Steps
  BY <1>1 DEF IInv, RegistersHoldValues, TypeOK
<1>3. \A u \in Tasks : /\ reg'[u] = IF u = t THEN <<>> ELSE reg[u]
                       /\ pos'[u] = IF u = t THEN pos[t] + 1 ELSE pos[u]
  BY <1>1, <1>2
<1>4. pos[t] \in Nat /\ pos[t] + 1 \in 1..Steps
  BY <1>2, NextStep
<1> SUFFICES ASSUME Single PROVE Twice'
  BY <1>1 DEF TInv, Single
<1>5. Twice /\ 1 \in Assigns
  BY DEF TInv, Single, Assigns
<1>6. \A x : Once(x)' = Once(x) /\ Again(x)' = Again(x)
  BY <1>1 DEF Once, Again, Result
<1>7. \A x : Stored(x)' <=> Stored(x) \/ x \in now
  BY StoreStored
<1>8. \A x \in Coordinates : Here(mem, x)' = IF x \in now THEN reg[t][1][x] ELSE Here(mem, x)
  <2>1. \A x \in Coordinates : mem'[body[1].w][Place(body[1].w, x)] =
          IF x \in now THEN reg[t][1][x] ELSE mem[body[1].w][Place(body[1].w, x)]
    BY <1>5, StoreIs
  <2> HIDE DEF now
  <2> QED BY <1>1, <2>1 DEF Here
<1>9. \A x : Here(Mem0, x)' = Here(Mem0, x)
  BY <1>1 DEF Here
<1>10. \A x \in now : reg[t][1][x] = Once(x) \/ (Stored(x) /\ reg[t][1][x] = Again(x))
  BY <1>1, <1>5 DEF Twice, Loads
<1>11. Loads'
  <2> SUFFICES ASSUME NEW u \in Tasks, reg'[u] # <<>>, NEW x \in Lanes(u, pos'[u] + 1)
               PROVE  reg'[u][1][x] = Once(x) \/ (Stored(x)' /\ reg'[u][1][x] = Again(x))
    BY <1>6 DEF Loads
  <2>1. u # t /\ reg'[u] = reg[u] /\ pos'[u] = pos[u]
    BY <1>3
  <2>2. reg[u][1][x] = Once(x) \/ (Stored(x) /\ reg[u][1][x] = Again(x))
    BY <1>5, <2>1 DEF Twice, Loads
  <2> QED BY <1>7, <2>1, <2>2
<1>12. \A x : Awaited(x)' => Awaited(x)
  <2> SUFFICES ASSUME NEW x, NEW u \in Tasks, NEW k \in (pos'[u] + 1)..Steps, x \in Lanes(u, k)
               PROVE  Awaited(x)
    BY DEF Awaited
  <2>1. k \in (pos[u] + 1)..Steps
    BY <1>2, <1>3, StepsType
  <2> QED BY <2>1 DEF Awaited
<1>13. ASSUME NEW x \in now, Awaited(x)' PROVE ~ Stored(x)
  <2>0. PICK u \in Tasks : \E k \in (pos'[u] + 1)..Steps : x \in Lanes(u, k)
    BY <1>13 DEF Awaited
  <2>1. PICK k \in (pos'[u] + 1)..Steps : x \in Lanes(u, k)
    BY <2>0
  <2> SUFFICES ASSUME NEW w \in Tasks, NEW j \in 1..pos[w], x \in Lanes(w, j) PROVE FALSE
    BY DEF Stored
  <2>2. k \in 1..Steps /\ pos[u] \in Nat /\ k > pos[u] /\ (u = t => k > pos[t] + 1)
    BY <1>2, <1>3, <2>1, StepsType
  <2>3. j \in 1..Steps /\ pos[w] \in Nat /\ j <= pos[w]
    BY <1>2, StepsType
  <2>4. Box.extent[1] >= Vec
    BY <1>1 DEF SInv, Phases
  <2>5. \/ t = u /\ pos[t] + 1 = k
        \/ t = w /\ pos[t] + 1 = j
        \/ u = w /\ k = j
    BY <1>4, <1>13, <2>1, <2>2, <2>3, <2>4, LanesTwice
  <2> QED BY <1>4, <2>2, <2>3, <2>5
<1> HIDE DEF now
<1>14. ASSUME NEW x \in Coordinates PROVE StoresOf(x)'
  <2>1. StoresOf(x)
    BY <1>5, <1>14 DEF Twice
  <2>2. CASE x \in now
    <3>1. Stored(x)' /\ Here(mem, x)' = reg[t][1][x]
      BY <1>7, <1>8, <2>2
    <3>2. Here(mem, x)' = Once(x) \/ Here(mem, x)' = Again(x)
      BY <1>10, <2>2, <3>1
    <3>3. Awaited(x)' => Here(mem, x)' = Once(x)
      BY <1>10, <1>13, <2>2, <3>1
    <3> QED BY <1>6, <3>1, <3>2, <3>3 DEF StoresOf
  <2>3. CASE x \notin now
    <3>1. (Stored(x)' <=> Stored(x)) /\ Here(mem, x)' = Here(mem, x)
      BY <1>7, <1>8, <2>3
    <3> QED BY <1>6, <1>9, <1>12, <2>1, <3>1 DEF StoresOf
  <2> QED BY <2>2, <2>3
<1>15. Coordinates' = Coordinates
  BY DEF Coordinates
<1> QED BY <1>11, <1>14, <1>15 DEF Twice

(* Where two vectors compute a point, a single assignment is applied once or  *)
(* twice, in every interleaving and for all bounds, shapes and vector widths. *)
THEOREM UpdatesOnceOrTwice == Spec => []AppliedOnceOrTwice
<1>1. Init => TInv
  <2> SUFFICES ASSUME Init PROVE Twice
    BY DEF TInv
  <2>1. \A x : ~ Stored(x)
    BY DEF Init, Stored
  <2> QED BY <2>1 DEF Init, Twice, Loads, StoresOf, Here
<1>2. IInv /\ SInv /\ TInv /\ [Next]_vars => TInv'
  <2> SUFFICES ASSUME IInv, SInv, TInv, [Next]_vars PROVE TInv'
    OBVIOUS
  <2>1. ASSUME NEW t \in Tasks, Load(t) PROVE TInv'
    BY <2>1, LoadTInv
  <2>2. ASSUME NEW t \in Tasks, Store(t) PROVE TInv'
    BY <2>2, StoreTInv
  <2>3. CASE Visit \/ Call \/ Return \/ UNCHANGED vars
    <3>1. UNCHANGED <<body, pos, reg, mem>>
      BY <2>3 DEF Visit, Call, Return, vars
    <3> QED BY <3>1 DEF TInv, Single, Twice, Loads, StoresOf, Here, Once, Again, Result, Stored, Awaited
  <2> QED BY <2>1, <2>2, <2>3 DEF Next
<1>3. IInv /\ SInv /\ TInv => AppliedOnceOrTwice
  <2> SUFFICES ASSUME IInv, SInv, TInv, pc = "done", Independent(body), Len(body) = 1, NEW p \in Iterations
               PROVE  LET got == mem[body[1].w][FortranAddress(Elem, Shape[body[1].w], p)] IN
                      \/ got = Value(Mem0, body, 1, p)
                      \/ p \in Spoilt(body) /\ got = Value(NestComputes(body), body, 1, p)
    BY DEF AppliedOnceOrTwice
  <2>1. 1 \in Assigns /\ body[1].w \in Arrays
    BY AssignedWithin DEF IInv, TypeOK, Assigns
  <2>2. CASE p \notin Spoilt(body)
    BY <2>1, <2>2, DoneApplies
  <2>3. CASE p \in Spoilt(body)
    <3>1. PICK x \in Coordinates : Index(x) = p
      BY IterationsAre
    <3>2. Here(mem, x) = mem[body[1].w][FortranAddress(Elem, Shape[body[1].w], p)]
      BY <2>1, <3>1, PlaceIs DEF Coordinates, Here
    <3>3. Stored(x)
      BY LanesCover DEF Stored, SInv, Phases
    <3>4. Here(mem, x) = Once(x) \/ Here(mem, x) = Again(x)
      BY <3>1, <3>3 DEF TInv, Single, Twice, StoresOf
    <3> QED BY <2>3, <3>1, <3>2, <3>4 DEF Once, Again, Result
  <2> QED BY <2>2, <2>3
<1> QED BY <1>1, <1>2, <1>3, Inductive, ResultsDetermined, PTL DEF Spec
==============================================================================
