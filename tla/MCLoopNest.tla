------------------------------ MODULE MCLoopNest ------------------------------
(***************************************************************************)
(* Instances of LoopNest.  Two-level nests: loop 1 is k, loop 2 is j, over *)
(* an array declared a(jlo:jhi, klo:khi).                                  *)
(***************************************************************************)
EXTENDS Z3Nest

MCLo2 == <<0, 1>>
MCHi2 == <<2, 3>>
MCVal == {0, 1}
MCJunk == {-1, 5}

\* The location IRTranslator linearises a(j, k) to: j + (jhi - jlo) * k.
Linear(p) == p[Depth] + (Hi[Depth] - Lo[Depth]) * p[Depth - 1]
MCIdxLinear == [o \in Outs |-> [p \in Points |-> Linear(p)]]
MCLocsLinear == {Linear(p) : p \in Points}

RECURSIVE SumTo(_, _)
SumTo(p, d) == IF d = 0 THEN 0 ELSE p[d] + SumTo(p, d - 1)

\* A value that differs between neighbouring points.
MCRhs == [o \in Outs |-> [p \in Points |-> SumTo(p, Depth) % 2]]
MCOut0 == [o \in Outs |-> [x \in Locs |-> 1]]

Exact == [l \in 0..Depth |-> Rhs]
Flip(g, L, o, p) ==
  [l \in 0..Depth |-> IF l \in L THEN [g[l] EXCEPT ![o][p] = 1 - @] ELSE g[l]]

\* The exact summary, and every candidate wrong at one point in one or more of
\* its functions.
MCCandidates ==
  {Exact} \cup
  {Flip(Exact, L, o, p) : L \in SUBSET (0..Depth) \ {{}}, o \in Outs, p \in Region}

\* Candidates whose outer invariant and postcondition are wrong in the last row.
MCCandidatesLastRow ==
  {Flip(Exact, {0, 1}, o, p) : o \in Outs, p \in {q \in Region : q[1] = Hi[1] - 1}}
==============================================================================
