------------------------------- MODULE MCKernel -------------------------------
(***************************************************************************)
(* Instances of Kernel: three arrays with different bounds, reads of a     *)
(* neighbour on each side, vectors of two elements.                        *)
(***************************************************************************)
EXTENDS Kernel

CONSTANTS arrA, arrB, arrC

MCArrays == {arrA, arrB, arrC}

MCLo1 == <<1>>
MCHi1 == <<5>>
MCLo2 == <<1, 2>>
MCHi2 == <<4, 3>>

\* Declared bounds that cover the reads.
MCShape1 ==
  [v \in MCArrays |-> CASE v = arrA -> <<[lo |-> 0, hi |-> 6]>>
                        [] v = arrB -> <<[lo |-> -1, hi |-> 6]>>
                        [] v = arrC -> <<[lo |-> 0, hi |-> 7]>>]
MCShape2 ==
  [v \in MCArrays |-> CASE v = arrA -> <<[lo |-> 0, hi |-> 4], [lo |-> 2, hi |-> 4]>>
                        [] v = arrB -> <<[lo |-> -1, hi |-> 4], [lo |-> 1, hi |-> 4]>>
                        [] v = arrC -> <<[lo |-> 0, hi |-> 5], [lo |-> 2, hi |-> 4]>>]

Reads(offs) == [a : MCArrays, off : offs]
MCOffs1 == {<<-1>>, <<0>>, <<1>>}
MCOffs2 == {<<0, 0>>, <<-1, 0>>, <<0, 1>>}

\* One assignment that reads one or two elements, and two assignments that
\* write different arrays.
One(offs) == {<<[w |-> v, rd |-> rd]>> : v \in MCArrays,
                rd \in {<<r>> : r \in Reads(offs)} \cup {<<r, q>> : r, q \in Reads(offs)}}
Two(offs) == {<<[w |-> v, rd |-> <<r>>], [w |-> u, rd |-> <<q>>]>> :
                v \in {arrA}, u \in {arrB}, r, q \in Reads(offs)}

MCBodies1 == One(MCOffs1) \cup Two(MCOffs1)
MCBodies2 == {<<[w |-> v, rd |-> <<r>>]>> : v \in MCArrays, r \in Reads(MCOffs2)} \cup Two({<<0, 0>>, <<0, 1>>})

MCVal == 0..10
MCEval(n, vals) ==
  (3 * n + vals[1] + (IF Len(vals) = 2 THEN 5 * vals[2] ELSE 1)) % 11

MCMem0 == [v \in MCArrays |-> [x \in Locs |->
             ((x \div Elem) * 4 + (CASE v = arrA -> 0 [] v = arrB -> 3 [] v = arrC -> 7)) % 11]]
==============================================================================
