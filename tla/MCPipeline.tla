----------------------------- MODULE MCPipeline -----------------------------
(* Two versions of a source. The first has one loop, which may be empty and   *)
(* stores in front of location 0; the second has three over two arrays, one   *)
(* of which changes nothing and one of which may leave the list.              *)
EXTENDS Pipeline

CONSTANTS outA, outB

L(out, lo, hi, at, rd, copies) ==
  [out |-> out, lo |-> lo, hi |-> hi, at |-> at, rd |-> rd, copies |-> copies]

MCOutputs == {outA, outB}
MCPrograms ==
  << << L(outA, 0, 0, -4, 1, FALSE) >>,
     << L(outA, 0, -1, 0, 1, TRUE), L(outA, 1, 0, 3, 0, FALSE), L(outB, 0, 1, 4, 1, FALSE) >> >>
=============================================================================
