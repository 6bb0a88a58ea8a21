-------------------------- MODULE MCHalideBackend --------------------------
(* Every set of up to three variables with one element to look up, and every  *)
(* element of nests of one, two and three loops with one set of variables.    *)
EXTENDS HalideBackend

\* u, u1, u_n, u_p and v. "1" is before ":", which is before "_" and letters;
\* u_n is before u_out and u_p after it.
MCNames == {<<117>>, <<117, 49>>, <<117, 95, 110>>, <<117, 95, 112>>, <<118>>}

MCVariables ==
  [name : MCNames, kind : {"array"}, mode : Modes]
    \cup [name : {<<117, 49>>, <<117, 95, 110>>, <<118>>}, kind : {"scalar"}, mode : {"input", "inout"}]
    \cup [name : {<<120>>}, kind : {"float", "other"}, mode : {"input"}]

MCTriples ==
  {x \in MCVariables \X MCVariables \X MCVariables :
     /\ \A j, k \in 1..3 : x[j].name = x[k].name => x[j] = x[k]
     /\ \E k \in 1..3 : x[k].kind = "array" /\ x[k].mode # "input"}
MCPrograms == {{x[1], x[2], x[3]} : x \in MCTriples}

MCOne == {[name |-> <<118>>, kind |-> "array", mode |-> "output"]}

MCStride == <<1, 7, 50>>
MCOrders == {<<1>>, <<1, 2>>, <<2, 1>>, <<3, 2, 1>>}
MCOffsets == -3..2

\* Of three loops, neighbours only.
MCReads ==
  IF Depth = 3 THEN {[d \in Vars |-> Var(order[d], off[d])] : off \in [Vars -> {-2, 0, 1, 2}]}
  ELSE [Vars -> Subscripts]

MCInit ==
  /\ AbiInit
  /\ IF used = MCOne THEN order \in MCOrders /\ read \in MCReads
     ELSE order = <<1>> /\ read = Own
  /\ ResugarInit

MCSpec == MCInit /\ [][Next]_vars /\ WF_vars(Next)
=============================================================================
