----------------------------- MODULE MCFrontend -----------------------------
(* Every program of Size nodes over two variables and one array.             *)
EXTENDS Frontend, TLC

CONSTANTS varI, varJ, arrA, literal

MCVars == {varI, varJ}

Of(op, vs) == [op : {op}, var : vs, arr : {arrA}]

\* Labels that tell loops apart by their structure, and by their variables.
ByStructure == Of("do", {varI}) \cup Of("store", {varI}) \cup Of("read", {varI}) \cup Of("if", {varI})
                 \cup Of("call", {varI}) \cup Of("pointer", {varI}) \cup Of("complex", {varI})
ByVariables == Of("do", MCVars) \cup Of("store", {varI, varJ, literal}) \cup Of("read", MCVars)
MCLabels == ByStructure \cup ByVariables

MCInit ==
  /\ Init
  /\ \E labels \in {ByStructure, ByVariables} : \A n \in Nodes : label[n] \in labels

MCSpec == MCInit /\ [][Next]_vars
=============================================================================
