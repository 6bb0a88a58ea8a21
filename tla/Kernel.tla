-------------------------------- MODULE Kernel --------------------------------
(***************************************************************************)
(* A loop nest replaced by its Halide kernel, from the analysis of its     *)
(* arrays to the end of the call.                                          *)
(*                                                                         *)
(*  - LoopVarAnalyzer visits the assignments and gives each array a mode;  *)
(*  - an InOut array gets two names in the intermediate representation, so *)
(*    the summary reads every array as it was before the nest, but the     *)
(*    glue makes both its buffers point into the same Fortran array;       *)
(*  - the kernel is vectorized along the first dimension and parallel      *)
(*    along the last (halide_aot.cpp.mako); it computes every output of a  *)
(*    point together.                                                      *)
(*                                                                         *)
(* The summary is the right-hand side of each assignment, whose left-hand  *)
(* side is an array indexed by the loop variables.  Nests of depth 1 or 2. *)
(***************************************************************************)
EXTENDS Glue, FiniteSets, Functions

CONSTANTS
  Arrays,
  Shape,       \* [Arrays -> declared shape]
  LoopLo,      \* bounds of the nest, innermost loop first,
  LoopHi,      \*   inclusive, as in the DO statement
  Bodies,      \* sequences of assignments [w |-> array, rd |-> reads], where
               \*   reads is a sequence of [a |-> array, off |-> vector]
  Vec,         \* vector width
  Elem,        \* bytes of an element
  Eval(_, _),  \* value of a right-hand side: assignment, values read
  Val,         \* what a location may hold
  Wild,        \* what a read outside an array yields
  Mem0         \* [Arrays -> [Locs -> Val]], memory at the call

Rank == Len(LoopLo)

Assignments == [w : Arrays, rd : Seq([a : Arrays, off : [1..Rank -> Int]])]

\* Nests of depth 1 or 2 over arrays of the same rank.  No assignment writes an
\* array that another one writes, nor anything outside the array.
ASSUME KernelAssumption ==
  /\ Rank \in 1..2
  /\ LoopLo \in [1..Rank -> Int]
  /\ LoopHi \in [1..Rank -> Int]
  /\ \A k \in 1..Rank : LoopLo[k] <= LoopHi[k]
  /\ Arrays # {}
  /\ Shape \in [Arrays -> [1..Rank -> [lo : Int, hi : Int]]]
  /\ \A b \in Bodies :
       /\ b \in Seq(Assignments) \ {<<>>}
       /\ \A m, n \in 1..Len(b) : b[m].w = b[n].w => m = n
       /\ \A n \in 1..Len(b) : \A k \in 1..Rank :
            Shape[b[n].w][k].lo <= LoopLo[k] /\ LoopHi[k] <= Shape[b[n].w][k].hi
  /\ Vec \in Nat \ {0}
  /\ Elem \in Nat \ {0}

Vectors(lo, hi) ==
  {x \in [1..Len(lo) -> UNION {lo[k]..hi[k] : k \in 1..Len(lo)}] :
    \A k \in 1..Len(lo) : lo[k] <= x[k] /\ x[k] <= hi[k]}

\* The iterations of the DO nest.
Iterations == Vectors(LoopLo, LoopHi)

\* The address of an array's last element, relative to its first.
Last(a) == FortranAddress(Elem, Shape[a], Upper(Shape[a]))

Locs == {x \in UNION {0..Last(a) : a \in Arrays} : x % Elem = 0}

Read(m, a, x) == IF x \in Locs /\ x <= Last(a) THEN m[a][x] ELSE Wild

Plus(u, v) == [k \in 1..Len(u) |-> u[k] + v[k]]

\* What the arrays hold, and what the assignments compute, are values.
ASSUME ValueAssumption ==
  /\ Mem0 \in [Arrays -> [Locs -> Val]]
  /\ Wild \in Val
  /\ \A b \in Bodies : \A n \in 1..Len(b) :
       \A vals \in [1..Len(b[n].rd) -> Val] : Eval(n, vals) \in Val

VARIABLES
  body,   \* the assignments of the nest
  seen,   \* how many of them LoopVarAnalyzer has visited
  mode,   \* [Arrays -> use mode]
  pc,     \* "analyze", "run", "done" or "error"
  pos,    \* [Tasks -> vectors done], the progress of each parallel task
  reg,    \* [Tasks -> values computed and not yet stored]
  mem     \* memory

vars == <<body, seen, mode, pc, pos, reg, mem>>

Assigns == 1..Len(body)
Written(b) == {b[n].w : n \in 1..Len(b)}
ReadBy(s) == {r.a : r \in Range(s.rd)}

------------------------------------------------------------------------------
\* The kernel's schedule, in the coordinates of its output buffers, which all
\* have the extents and mins of the nest.

Out(a) == OutBuffer(Elem, LoopHi, LoopLo, Shape[a])
Box == LET b == Out(CHOOSE a \in Arrays : TRUE) IN [extent |-> b.extent, min |-> b.min]

\* Mutant: a last vector that is not full is dropped.
VectorsPerRowFloor == Box.extent[1] \div Vec

VectorsPerRow == (Box.extent[1] + Vec - 1) \div Vec

\* Mutant: the last vector is moved back by one too many.
VectorStartTooFar(n) ==
  Box.min[1] + (IF n * Vec <= Box.extent[1] THEN (n - 1) * Vec ELSE Box.extent[1] - Vec - 1)

\* Mutant: the last vector runs past the end of the row.
VectorStartPastEnd(n) == Box.min[1] + (n - 1) * Vec

\* The first coordinate of vector n of a row.  The last one is moved back so
\* that it ends with the row, over points that an earlier one computes too.
VectorStart(n) ==
  Box.min[1] + (IF n * Vec <= Box.extent[1] THEN (n - 1) * Vec ELSE Box.extent[1] - Vec)

\* One task per row; a single loop has one task per vector.
Tasks == IF Rank = 1 THEN 1..VectorsPerRow ELSE Box.min[2]..(Box.min[2] + Box.extent[2] - 1)

Steps == IF Rank = 1 THEN 1 ELSE VectorsPerRow

\* The coordinates task t computes in its n-th step.
Lanes(t, n) ==
  LET first == VectorStart(IF Rank = 1 THEN t ELSE n) IN
  {IF Rank = 1 THEN <<x>> ELSE <<x, t>> : x \in first..(first + Vec - 1)}

------------------------------------------------------------------------------
Init ==
  /\ body \in Bodies
  /\ seen = 0
  /\ mode = [a \in Arrays |-> "Unknown"]
  /\ pc = "analyze"
  /\ pos = [t \in Tasks |-> 0]
  /\ reg = [t \in Tasks |-> <<>>]
  /\ mem = Mem0

\* Mutant: a read leaves an Output as it is.
SetModeForgets(m, isOutput) ==
  IF isOutput THEN (IF m \in {"Input", "InOut"} THEN "InOut" ELSE "Output")
              ELSE (IF m \in {"Output", "InOut"} THEN m ELSE "Input")

SetMode(m, isOutput) ==
  IF isOutput THEN (IF m \in {"Input", "InOut"} THEN "InOut" ELSE "Output")
              ELSE (IF m \in {"Output", "InOut"} THEN "InOut" ELSE "Input")

\* VarUseIdentifier at an assignment: the array assigned, then those read.
Visit ==
  /\ pc = "analyze" /\ seen < Len(body)
  /\ LET s == body[seen + 1]
         m == [mode EXCEPT ![s.w] = SetMode(@, TRUE)]
     IN mode' = [a \in Arrays |-> IF a \in ReadBy(s) THEN SetMode(m[a], FALSE) ELSE m[a]]
  /\ seen' = seen + 1
  /\ UNCHANGED <<body, pc, pos, reg, mem>>

\* The call.  Halide rejects a row narrower than a vector; the glue ignores
\* what the kernel returns.
Call ==
  /\ pc = "analyze" /\ seen = Len(body)
  /\ pc' = IF Box.extent[1] < Vec THEN "error" ELSE "run"
  /\ UNCHANGED <<body, seen, mode, pos, reg, mem>>

\* The buffers the glue passes for an array.
HasInput(a) == mode[a] \in {"Input", "InOut"}
HasOutput(a) == mode[a] \in {"Output", "InOut"}

\* The value assignment n has at coordinate x.
Compute(n, x) ==
  Eval(n, [k \in 1..Len(body[n].rd) |->
            LET r == body[n].rd[k] IN
            IF HasInput(r.a)
            THEN Read(mem, r.a, Address(Elem, InBuffer(Shape[r.a]), Plus(x, r.off)))
            ELSE Wild])

\* Mutant: a task does not stop after its last vector.
LoadPastEnd(t) ==
  /\ pc = "run" /\ reg[t] = <<>>
  /\ reg' = [reg EXCEPT ![t] =
       [n \in Assigns |-> [x \in Lanes(t, pos[t] + 1) |-> Compute(n, x)]]]
  /\ UNCHANGED <<body, seen, mode, pc, pos, mem>>

\* A task evaluates every output at the points of its next vector ...
Load(t) ==
  /\ pc = "run" /\ reg[t] = <<>> /\ pos[t] < Steps
  /\ reg' = [reg EXCEPT ![t] =
       [n \in Assigns |-> [x \in Lanes(t, pos[t] + 1) |-> Compute(n, x)]]]
  /\ UNCHANGED <<body, seen, mode, pc, pos, mem>>

\* The values task t has computed for the location b of a.
Computed(t, a, b) ==
  UNION {{reg[t][n][x] : x \in {y \in DOMAIN reg[t][n] : Address(Elem, Out(a), y) = b}} :
         n \in {k \in Assigns : body[k].w = a /\ HasOutput(a)}}

\* ... and stores them.
Store(t) ==
  /\ pc = "run" /\ reg[t] # <<>>
  /\ mem' = [a \in Arrays |-> [b \in Locs |->
       IF Computed(t, a, b) = {} THEN mem[a][b]
       ELSE CHOOSE v \in Val : v \in Computed(t, a, b)]]
  /\ reg' = [reg EXCEPT ![t] = <<>>]
  /\ pos' = [pos EXCEPT ![t] = @ + 1]
  /\ UNCHANGED <<body, seen, mode, pc>>

\* The kernel returns when every task has ended.
Return ==
  /\ pc = "run" /\ \A t \in Tasks : pos[t] = Steps
  /\ pc' = "done"
  /\ UNCHANGED <<body, seen, mode, pos, reg, mem>>

Next == Visit \/ Call \/ Return \/ \E t \in Tasks : Load(t) \/ Store(t)

Spec == Init /\ [][Next]_vars

------------------------------------------------------------------------------
\* What the nest computes, executed as Fortran does: one assignment after the
\* other, in place.

\* The iteration after k others, the first loop innermost.
Iteration(k) ==
  LET width == LoopHi[1] - LoopLo[1] + 1 IN
  [d \in 1..Rank |-> LoopLo[d] + (IF d = 1 THEN k % width ELSE k \div width)]

\* What assignment n of body b computes at iteration x from memory m.
Value(m, b, n, x) ==
  Eval(n, [k \in 1..Len(b[n].rd) |->
            LET r == b[n].rd[k] IN
            Read(m, r.a, FortranAddress(Elem, Shape[r.a], Plus(x, r.off)))])

\* Memory after the nest.
NestComputes(b) ==
  LET after[k \in Nat] ==
        IF k = 0 THEN Mem0
        ELSE LET n == 1 + ((k - 1) % Len(b))
                 x == Iteration((k - 1) \div Len(b))
             IN [after[k - 1] EXCEPT ![b[n].w][FortranAddress(Elem, Shape[b[n].w], x)] =
                   Value(after[k - 1], b, n, x)]
  IN after[Len(b) * Cardinality(Iterations)]

\* The dependences of a body: assignment n reads, off away, what m writes.
Dependences(b) ==
  UNION {{[n |-> n, m |-> m, off |-> r.off] : r \in {q \in Range(b[n].rd) : q.a = b[m].w}} :
         n, m \in 1..Len(b)}

\* The nests whose iterations are independent: an array is read and written only
\* at the same point, and by no assignment after the one that writes it.
Independent(b) ==
  \A d \in Dependences(b) :
    /\ \A k \in 1..Rank : d.off[k] = 0
    /\ d.n <= d.m

\* An array is read and written.
InPlace(b) == Dependences(b) # {}

\* The iterations that two vectors compute: if a row is not a number of whole
\* vectors, the points among its last Vec that the whole vectors have covered.
Recomputed ==
  {p \in Iterations :
    /\ Box.extent[1] % Vec # 0
    /\ Box.extent[1] - Vec <= p[1] - LoopLo[1]
    /\ p[1] - LoopLo[1] < Vec * (Box.extent[1] \div Vec)}

\* The iterations whose second result is computed from the first.
Spoilt(b) == IF InPlace(b) THEN Recomputed ELSE {}

------------------------------------------------------------------------------
TypeOK ==
  /\ body \in Bodies
  /\ seen \in 0..Len(body)
  /\ mode \in [Arrays -> {"Unknown", "Input", "Output", "InOut"}]
  /\ pc \in {"analyze", "run", "done", "error"}
  /\ pos \in [Tasks -> 0..Steps]
  /\ \A t \in Tasks : reg[t] # <<>> => DOMAIN reg[t] = Assigns /\ pos[t] < Steps
  /\ mem \in [Arrays -> [Locs -> Val]]

\* setMode accumulates: in whatever order the assignments mention an array, its
\* mode ends as their union.  A direction that got lost would drop one of the
\* two buffers of the array (HalideCodeGenerator::generateImpl).
ModesExact ==
  \A a \in Arrays :
    LET written == \E n \in 1..seen : body[n].w = a
        read == \E n \in 1..seen : a \in ReadBy(body[n])
    IN mode[a] = CASE written /\ read -> "InOut"
                   [] written /\ ~ read -> "Output"
                   [] read /\ ~ written -> "Input"
                   [] OTHER -> "Unknown"

\* The parallel, vectorized kernel, reached through the glue's buffers, leaves in
\* memory what the sequential nest it replaces would have, if its iterations are
\* independent: everywhere if no array is both read and written, whatever the
\* lengths of rows and vectors; and if one is, everywhere but at the points that
\* the overlapping last vector computes again, from what has been stored there.
KernelMatchesLoop ==
  pc = "done" /\ Independent(body) =>
    LET nest == NestComputes(body) IN
    \A a \in Arrays : \A l \in Locs :
      (\A p \in Spoilt(body) : FortranAddress(Elem, Shape[a], p) # l) => mem[a][l] = nest[a][l]

\* Where the last vector overlaps the one before it, an update in place is applied
\* once or twice, as the two tasks' loads and stores happen to interleave: never
\* more often, and never to a mixture.  (One assignment: a vector of several
\* outputs is not stored at once.)
AppliedOnceOrTwice ==
  pc = "done" /\ Independent(body) /\ Len(body) = 1 =>
    \A p \in Iterations :
      LET got == mem[body[1].w][FortranAddress(Elem, Shape[body[1].w], p)] IN
      \/ got = Value(Mem0, body, 1, p)
      \/ p \in Spoilt(body) /\ got = Value(NestComputes(body), body, 1, p)

\* The call of a kernel preserves the program's semantics, as the website says of
\* every rewriting found, at least for independent iterations.
SemanticsPreserved ==
  pc = "done" /\ Independent(body) => mem = NestComputes(body)

\* The summary's value for array a at x, in the memory before the call.
Summarised(a, x) ==
  IF a \in Written(body)
  THEN Value(Mem0, body, CHOOSE n \in Assigns : body[n].w = a, x)
  ELSE Mem0[a][FortranAddress(Elem, Shape[a], x)]

\* The call is one application of the summary: all its values, computed from
\* memory as it was before the call, if the iterations are independent and none is
\* computed again from its own result; and in any case nothing outside the
\* nest's box is changed.
Lifted == INSTANCE Summary WITH
  Outs <- Arrays,
  Points <- Iterations,
  Region <- Iterations,
  Idx <- [a \in Arrays |-> [x \in Iterations |-> FortranAddress(Elem, Shape[a], x)]],
  Out0 <- Mem0,
  done <- pc = "done",
  res  <- IF pc = "done" THEN mem ELSE Mem0,
  fn   <- [a \in Arrays |-> [x \in Iterations |-> Summarised(a, x)]],
  accepted <- Independent(body) /\ Spoilt(body) = {}

ImplementsSummary == Lifted!Spec
==============================================================================
