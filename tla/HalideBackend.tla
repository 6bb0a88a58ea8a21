---------------------------- MODULE HalideBackend ----------------------------
(* A kernel's way through frontend and backend: the header and the glue       *)
(* (Abi), then HalideBackend.generate, which looks up the subscripts of the   *)
(* elements (Resugar, for one element) and declares the kernel's arguments.   *)
(* An element that is not found ends the backend.                             *)
EXTENDS Abi, Resugar

vars == <<abiVars, resugarVars>>

Init == AbiInit /\ ResugarInit

Next ==
  \/ (Translate \/ Glue) /\ UNCHANGED resugarVars
  \/ stage = "backend" /\ ResugarNext /\ UNCHANGED abiVars
  \/ outcome = "found" /\ Kernel /\ UNCHANGED resugarVars

Spec == Init /\ [][Next]_vars
FairSpec == Spec /\ WF_vars(Next)

TypeOK ==
  /\ ResugarTypeOK
  /\ used \subseteq Variables /\ meta \subseteq Entries
  /\ stage \in {"translate", "glue", "backend", "linked"}
  /\ \A k \in DOMAIN glueArgs : glueArgs[k] \in Entries
  /\ \A k \in DOMAIN kernelArgs : kernelArgs[k] \in Entries

\* Every element asked for is answered or given up, and a kernel is declared in
\* the first case: the search moves on through all offsets.
Answered == <>(stage = "linked" \/ outcome = "none")
=============================================================================
