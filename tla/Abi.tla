--------------------------------- MODULE Abi ---------------------------------
(* The arguments of a generated kernel, in the order the glue passes them and *)
(* in the order the kernel declares them. The frontend has variables with     *)
(* modes; the backend has only the list of inputs that IRTranslator wrote and *)
(* the arrays assigned in the representation, and neither sees the other's    *)
(* order. A name is the sequence of its character codes, since both sides     *)
(* sort texts.                                                                *)
EXTENDS Integers, Sequences, FiniteSets

CONSTANTS Variables,    \* every variable: [name, kind, mode]
          Programs      \* sets of variables to consider, those of one loop nest each

Kinds == {"array", "scalar",
          "float", "other"}   \* sketch variables: float literals; double ones, bounds
Modes == {"input", "output", "inout"}

ASSUME AbiAssumption ==
  /\ Variables \subseteq [name : Seq(Nat), kind : Kinds, mode : Modes]
  /\ \A v \in Variables : v.kind \in {"float", "other"} => v.mode = "input"
  /\ Programs \subseteq SUBSET Variables
  /\ \A vs \in Programs : IsFiniteSet(vs) /\ \A u, v \in vs : u.name = v.name => u = v

VARIABLES used,          \* the variables of the loop nest
          meta,          \* the "inputs" of the representation's header
          glueArgs,      \* what the glue passes
          kernelArgs,    \* what the kernel takes
          stage

abiVars == <<used, meta, glueArgs, kernelArgs, stage>>

-----------------------------------------------------------------------------
\* Texts.

Colon == 58
OutSuffix == <<95, 111, 117, 116>>   \* _out

\* The order of std::string and of Python's str.
Less(p, q) ==
  \E k \in 1..Len(q) :
    /\ \A j \in 1..k - 1 : j <= Len(p) /\ p[j] = q[j]
    /\ k > Len(p) \/ p[k] < q[k]

\* A variable as it is read, or as it is written, under one name or two.
Entries == [of : Variables, out : BOOLEAN]
Entry(v, out) == [of |-> v, out |-> out]

\* generateMetadata, which gives a scalar that is read and written two names too;
\* as an output only arrays are looked at, and there VarNode::unparse agrees.
Text(e) == IF e.out /\ e.of.mode = "inout" THEN e.of.name \o OutSuffix ELSE e.of.name

\* Variable::toString, of which the type never decides.
GlueKey(e) == e.of.name \o <<Colon>>

\* Entries in the order of their keys, those of the glue and of the kernel.
GluePlace(S, e) == Cardinality({f \in S : Less(GlueKey(f), GlueKey(e))})
KernelPlace(S, e) == Cardinality({f \in S : Less(Text(f), Text(e))})
GlueOrder(S) == [k \in 1..Cardinality(S) |-> CHOOSE e \in S : GluePlace(S, e) = k - 1]
KernelOrder(S) == [k \in 1..Cardinality(S) |-> CHOOSE e \in S : KernelPlace(S, e) = k - 1]

AbiInit ==
  /\ used \in Programs
  /\ meta = {}
  /\ glueArgs = <<>> /\ kernelArgs = <<>>
  /\ stage = "translate"

-----------------------------------------------------------------------------
\* The frontend.

Reads(kinds) ==
  {Entry(v, FALSE) : v \in {u \in used : u.kind \in kinds /\ u.mode \in {"input", "inout"}}}
Writes(kinds) ==
  {Entry(v, TRUE) : v \in {u \in used : u.kind \in kinds /\ u.mode \in {"output", "inout"}}}

\* generateMetadata: every variable, one that is read and written twice. (In a
\* list; nothing depends on its order.)
Translate ==
  /\ stage = "translate"
  /\ meta' = {Entry(v, v.mode = "output") : v \in used} \cup {Entry(v, TRUE) : v \in {u \in used : u.mode = "inout"}}
  /\ stage' = "glue"
  /\ UNCHANGED <<used, glueArgs, kernelArgs>>

\* generateImpl: four lists, sorted one by one.
Glue ==
  /\ stage = "glue"
  /\ glueArgs' = GlueOrder(Reads({"array"})) \o GlueOrder(Reads({"scalar"}))
                   \o GlueOrder(Writes({"array"})) \o GlueOrder(Writes({"scalar"}))
  /\ stage' = "backend"
  /\ UNCHANGED <<used, meta, kernelArgs>>

-----------------------------------------------------------------------------
\* The backend.

\* GatherOutputArrays: the arrays assigned in the representation.
Outputs == Writes({"array"})

\* What the header lists and the program does not assign, by name.
Unassigned == {e \in meta : \A o \in Outputs : Text(e) # Text(o)}
KernelInputs == {e \in Unassigned : e.of.kind = "array"}

\* Mutant: the literals are parameters, too.
KernelScalarsAll == Unassigned \ KernelInputs

KernelScalars == {e \in Unassigned \ KernelInputs : e.of.kind # "float"}

\* get_inputs_and_outputs; the template sorts.
Kernel ==
  /\ stage = "backend"
  /\ kernelArgs' = KernelOrder(KernelInputs) \o KernelOrder(KernelScalars) \o KernelOrder(Outputs)
  /\ stage' = "linked"
  /\ UNCHANGED <<used, meta, glueArgs>>

AbiNext == Translate \/ Glue \/ Kernel

-----------------------------------------------------------------------------
\* Properties.

Proper(p, q) == Len(p) < Len(q) /\ \A j \in 1..Len(p) : p[j] = q[j]

\* Names that the two orders agree on: no name is another one followed by a
\* digit; what is read and written is not called like the beginning of another
\* output, nor is its second name taken.
Plain ==
  /\ \A u, v \in used : Proper(u.name, v.name) => v.name[Len(u.name) + 1] > Colon
  /\ \A u, v \in used : u.mode = "inout" =>
       /\ v.mode # "input" => ~Proper(u.name, v.name)
       /\ v.name # u.name \o OutSuffix
  /\ \A v \in used : \A k \in DOMAIN v.name : v.name[k] # Colon

\* No scalar is assigned in the nest, and it has no literals that are not floats
\* nor arrays declared (:).
Passable ==
  /\ \A v \in used : v.kind = "scalar" => v.mode = "input"
  /\ \A v \in used : v.kind # "other"

\* The kernel takes what the glue passes, at every position, although the glue
\* sorts four lists of variables by name and type, and the kernel three lists of
\* names, made from the header and the assignments.
ArgumentsMatch == stage = "linked" /\ Plain /\ Passable => glueArgs = kernelArgs
=============================================================================
