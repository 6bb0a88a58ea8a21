------------------------------ MODULE Frontend ------------------------------
(* The passes of frontend/src/main.cpp that decide which DO loops of a        *)
(* program are lifted, and what is known of their variables:                  *)
(*   StructureAnalyzer    pass "depth", then the flag visitors, pass "flags"  *)
(*   LoopLabeler          pass "label", then pass "undo"                      *)
(*   VariableIdentifier   pass "identify"                                     *)
(*   LoopVarAnalyzer      for each loop the passes "use" and "check"          *)
(*   LoopReplacer         pass "replace": the checks made of its arguments    *)
(* A program is a forest whose nodes are numbered in preorder. Its shape and  *)
(* the label of each node are chosen in Init and never change. The rest of    *)
(* the state is how far the passes are and the LoopAttribute of every DO.     *)
EXTENDS Integers, FiniteSets

CONSTANTS Size,      \* number of nodes of the program
          Vars,      \* its scalar variables
          Arrays,    \* the arrays it stores into, of one dimension
          Literal,   \* an index that is an integer literal
          Labels     \* what a node may be

\* "do" is a DO over var, "if" an IF or SELECT, "call" a call of anything but
\* min and max or an I/O statement, "pointer" a component reference or pointer
\* assignment, "store" arr(var) = .., "complex" arr(f(var)) = .., and "read" a
\* reference to var anywhere else, such as a bound or the operand of min.
Ops == {"do", "if", "call", "pointer", "store", "complex", "read"}

ASSUME FrontendAssumption ==
  /\ Size \in Nat \ {0}
  /\ Literal \notin Vars
  /\ Labels \subseteq [op : Ops, var : Vars \cup {Literal}, arr : Arrays]
  /\ \A b \in Labels : b.op # "store" => b.var \in Vars

Nodes == 1..Size
Passes == {"depth", "flags", "label", "undo", "identify", "use", "check",
           "replace", "done", "no variable", "no index", "nyi"}

VARIABLES label, parent, last,            \* the program
          pass, cursor, visited, loop,    \* where the passes are
          depth, synth, flags,            \* StructureAnalyzer
          count, number, chosen,          \* LoopLabeler; isTransformable
          induction, used,                \* VariableIdentifier
          index                           \* ArrayVariable::indexVars

program == <<label, parent, last>>
structure == <<depth, synth, flags>>
labelling == <<count, number, chosen>>
varsets == <<induction, used>>
vars == <<program, pass, cursor, visited, loop, structure, labelling, varsets, index>>

-----------------------------------------------------------------------------
Sub(n) == n..last[n]
Children(n) == {c \in Nodes : parent[c] = n}
Loops == {n \in Nodes : label[n].op = "do"}

\* A subtree is its root and the subtrees of the root's children. (The last
\* conjunct follows for a finite forest; it is there to be used in proofs.)
IsForest ==
  \A n \in Nodes :
    /\ parent[n] < n /\ n <= last[n]
    /\ Sub(n) = {n} \cup UNION {Sub(c) : c \in Children(n)}
    /\ \A m \in Sub(n) : last[m] <= last[n] /\ (m # n => parent[m] \in Sub(n))

IsProgram == \A n \in Nodes : Children(n) # {} => label[n].op \in {"do", "if"}

Flags == {"conditional", "call", "array", "pointer", "complex"}

\* What each visitor looks for in a node, by itself.
Own(b) ==
  {f \in Flags : <<b.op, f>> \in
     {<<"if", "conditional">>, <<"call", "call">>, <<"pointer", "pointer">>,
      <<"store", "array">>, <<"complex", "array">>, <<"complex", "complex">>}}

\* hasComplexArrayAssign is the one flag read that LoopAttribute's constructor
\* leaves uninitialised.
Init ==
  /\ parent \in [Nodes -> 0..Size]
  /\ last \in [Nodes -> Nodes]
  /\ IsForest
  /\ label \in [Nodes -> Labels]
  /\ IsProgram
  /\ pass = "depth" /\ cursor = 1 /\ visited = {} /\ loop = 1
  /\ depth = [n \in Nodes |-> 0]
  /\ synth = [n \in Nodes |-> {}]
  /\ \E junk \in SUBSET Loops :
       flags = [n \in Nodes |-> IF n \in junk THEN {"complex"} ELSE {}]
  /\ count = 0 /\ number = [n \in Nodes |-> -1] /\ chosen = {}
  /\ induction = [l \in Nodes |-> [v \in Vars |-> 0]]
  /\ used = [l \in Nodes |-> {}]
  /\ index = [l \in Nodes |-> [a \in Arrays |-> {}]]

\* The next node of a pass over all the nodes, or the pass that follows.
Advance(p, q) ==
  IF cursor < Size THEN pass' = p /\ cursor' = cursor + 1
                   ELSE pass' = q /\ cursor' = 1

-----------------------------------------------------------------------------
\* LoopDepthVisitor: the attribute inherited by a node counts the DOs above it
\* and itself; a DO keeps it as its loopDepth.
Depth ==
  /\ pass = "depth" /\ cursor \in Nodes
  /\ LET above == IF parent[cursor] = 0 THEN 0 ELSE depth[parent[cursor]]
     IN  depth' = [depth EXCEPT ![cursor] =
                     IF cursor \in Loops THEN above + 1 ELSE above]
  /\ Advance("depth", "flags")
  /\ UNCHANGED <<program, visited, loop, synth, flags, labelling, varsets, index>>

IsInLoop(n) == depth[n] > 1

\* Mutant: no DO passes anything on.
PropagatesNothing(n) == n \notin Loops

\* What a node passes on to its parent.
Propagates(n) == n \notin Loops \/ IsInLoop(n)

\* The flag visitors, bottom-up; they differ in Own only and are taken together.
\* A DO keeps what its subtree has, and an outermost DO passes nothing on.
Visit ==
  /\ pass = "flags" /\ visited # Nodes
  /\ \E n \in Nodes \ visited :
       /\ Children(n) \subseteq visited
       /\ \A m \in Nodes \ visited : m < n => n \in Sub(m)
       /\ LET has == Own(label[n]) \cup UNION {synth[c] : c \in Children(n)}
          IN  /\ synth' = [synth EXCEPT ![n] = IF Propagates(n) THEN has ELSE {}]
              /\ flags' = IF n \in Loops THEN [flags EXCEPT ![n] = has] ELSE flags
       /\ visited' = visited \cup {n}
  /\ UNCHANGED <<program, pass, cursor, loop, depth, labelling, varsets, index>>

EndFlags ==
  /\ pass = "flags" /\ visited = Nodes
  /\ pass' = "label"
  /\ UNCHANGED <<program, cursor, visited, loop, structure, labelling, varsets, index>>

\* LoopLabeler, first loop.
Qualifies(n) ==
  /\ n \in Loops /\ ~IsInLoop(n)
  /\ "array" \in flags[n]
  /\ flags[n] \cap {"conditional", "call", "pointer"} = {}

\* Mutant: the count stays where it is.
LabelNoCount ==
  /\ pass = "label" /\ cursor \in Nodes
  /\ IF Qualifies(cursor)
       THEN number' = [number EXCEPT ![cursor] = count] /\ chosen' = chosen \cup {cursor}
       ELSE UNCHANGED <<number, chosen>>
  /\ Advance("label", "undo")
  /\ UNCHANGED <<program, visited, loop, structure, count, varsets, index>>

Label ==
  /\ pass = "label" /\ cursor \in Nodes
  /\ IF Qualifies(cursor)
       THEN /\ number' = [number EXCEPT ![cursor] = count]
            /\ count' = count + 1
            /\ chosen' = chosen \cup {cursor}
       ELSE UNCHANGED labelling
  /\ Advance("label", "undo")
  /\ UNCHANGED <<program, visited, loop, structure, varsets, index>>

\* LoopLabeler, second loop; the number stays used.
Undo ==
  /\ pass = "undo" /\ cursor \in Nodes
  /\ chosen' = IF "complex" \in flags[cursor] THEN chosen \ {cursor} ELSE chosen
  /\ Advance("undo", "identify")
  /\ UNCHANGED <<program, visited, loop, structure, count, number, varsets, index>>

-----------------------------------------------------------------------------
\* Mutant: the last loop does not end the pass.
NextLoopPastEnd(p, q) == pass' = p /\ loop' = loop + 1 /\ cursor' = loop'

\* The passes below go over the loops, and over the subtree of each that is
\* transformable.
NextLoop(p, q) ==
  /\ IF loop < Size THEN pass' = p /\ loop' = loop + 1 ELSE pass' = q /\ loop' = 1
  /\ cursor' = loop'

InTraversal(p) == pass = p /\ cursor \in Sub(loop)
LastOfLoop == cursor = last[loop]
NextNode == cursor' = cursor + 1 /\ UNCHANGED <<pass, loop>>

Skip ==
  /\ loop \notin chosen
  /\ \/ pass = "identify" /\ NextLoop("identify", "use")
     \/ pass = "use" /\ NextLoop("use", "replace")
     \/ pass = "replace" /\ NextLoop("replace", "done")
  /\ UNCHANGED <<program, visited, structure, labelling, varsets, index>>

Mentions(n) == label[n].op \in {"store", "complex", "read"} /\ label[n].var \in Vars

\* Mutant: the bounds of a later DO replace those of the first one.
InductsLast(v) == cursor \in Loops

\* std::set::insert: of two DOs over one variable the first one's bounds are kept.
InductsFirst(v) == cursor \in Loops /\ induction[loop][v] = 0

\* Mutant: isInductionVar is not asked.
EntersUsedAlways(v) == Mentions(cursor)

EntersUsed(v) == Mentions(cursor) /\ induction[loop][v] = 0

\* VariableIdentifier, for the node at the cursor.
Identify ==
  /\ InTraversal("identify") /\ loop \in chosen
  /\ LET v == label[cursor].var
     IN  /\ induction' = IF InductsFirst(v)
                           THEN [induction EXCEPT ![loop][v] = cursor] ELSE induction
         /\ used' = IF EntersUsed(v) THEN [used EXCEPT ![loop] = @ \cup {v}] ELSE used
  /\ IF LastOfLoop THEN NextLoop("identify", "use") ELSE NextNode
  /\ UNCHANGED <<program, visited, structure, labelling, index>>

Stores(n) == label[n].op \in {"store", "complex"}

\* LoopAttribute::findVar looks among the used variables first, so that only
\* a variable that is not among them is found to be an induction variable.
Found(v) == v \in used[loop] \/ induction[loop][v] # 0
FoundInduction(v) == v \notin used[loop] /\ induction[loop][v] # 0

\* VarUseIdentifier, as far as it fills indexVars.
Indices(n) ==
  IF ~Stores(n) THEN {}
  ELSE {v \in {label[n].var} : v = Literal \/ FoundInduction(v)}

\* Mutant: ArrayIndexChecker is not called.
StartNoCheck == NextLoop("use", "replace")

StartCheck == pass' = "check" /\ cursor' = loop /\ UNCHANGED loop

Use ==
  /\ InTraversal("use") /\ loop \in chosen
  /\ IF (cursor \in Loops \/ Mentions(cursor)) /\ ~Found(label[cursor].var)
       THEN pass' = "no variable" /\ UNCHANGED <<cursor, loop, index>>
       ELSE /\ index' = [index EXCEPT ![loop][label[cursor].arr] = @ \cup Indices(cursor)]
            /\ IF LastOfLoop THEN StartCheck ELSE NextNode
  /\ UNCHANGED <<program, visited, structure, labelling, varsets>>

\* ArrayIndexChecker goes on through a loop it has withdrawn.
Check ==
  /\ InTraversal("check")
  /\ chosen' = IF Stores(cursor) /\ index[loop][label[cursor].arr] = {}
                 THEN chosen \ {loop} ELSE chosen
  /\ IF LastOfLoop THEN NextLoop("use", "replace") ELSE NextNode
  /\ UNCHANGED <<program, visited, structure, count, number, varsets, index>>

\* LoopReplacer::addHalideArrayArgs wants one index for each array written.
Written(l) == {label[n].arr : n \in {m \in Sub(l) : Stores(m)}}

Replace ==
  /\ pass = "replace" /\ loop \in chosen
  /\ LET wrong == {a \in Written(loop) : Cardinality(index[loop][a]) # 1}
     IN  IF wrong = {}
           THEN NextLoop("replace", "done")
           ELSE /\ \E a \in wrong : pass' = IF index[loop][a] = {} THEN "no index" ELSE "nyi"
                /\ UNCHANGED <<cursor, loop>>
  /\ UNCHANGED <<program, visited, structure, labelling, varsets, index>>

Next == \/ Depth \/ Visit \/ EndFlags \/ Label \/ Undo
        \/ Skip \/ Identify \/ Use \/ Check \/ Replace

Spec == Init /\ [][Next]_vars

-----------------------------------------------------------------------------
\* Types, and the shape of the program. A pass never leaves the program, so the
\* loop and the cursor are always nodes.
TypeOK ==
  /\ label \in [Nodes -> Labels] /\ parent \in [Nodes -> 0..Size]
  /\ last \in [Nodes -> Nodes] /\ IsForest
  /\ pass \in Passes /\ cursor \in Nodes /\ loop \in Nodes /\ visited \subseteq Nodes
  /\ depth \in [Nodes -> Nat]
  /\ synth \in [Nodes -> SUBSET Flags] /\ flags \in [Nodes -> SUBSET Flags]
  /\ count \in Nat /\ number \in [Nodes -> Int] /\ chosen \subseteq Loops
  /\ induction \in [Nodes -> [Vars -> 0..Size]] /\ used \in [Nodes -> SUBSET Vars]
  /\ index \in [Nodes -> [Arrays -> SUBSET (Vars \cup {Literal})]]

Outermost == {n \in Loops : \A k \in Loops : n \in Sub(k) => k = n}
Content(n) == UNION {Own(label[m]) : m \in Sub(n)}

\* The loops that can be lifted by the look of them.
Wanted ==
  {n \in Outermost : /\ "array" \in Content(n)
                     /\ Content(n) \cap {"conditional", "call", "pointer", "complex"} = {}}

\* v is taken for an induction variable of l: its first mention there is a DO.
Inducts(l, d, v) ==
  /\ d \in Loops \cap Sub(l) /\ label[d].var = v
  /\ \A m \in Sub(l) : m < d /\ (m \in Loops \/ Mentions(m)) => label[m].var # v

\* The stores of l that ArrayIndexChecker can rely on.
Anchored(l, n) ==
  /\ n \in Sub(l) /\ Stores(n)
  /\ label[n].var = Literal \/ \E d \in Nodes : Inducts(l, d, label[n].var)

Kept ==
  {l \in Wanted : \A n \in Sub(l) : Stores(n) =>
     \E m \in Sub(l) : label[m].arr = label[n].arr /\ Anchored(l, m)}

-----------------------------------------------------------------------------
\* Labelling keeps exactly the outermost loops whose whole subtree has an array
\* use and nothing that rules a loop out, whatever the depth of either; the index
\* checks withdraw exactly those with a store that has no usable index
\* (StructureAnalyzer.cpp, LoopLabeler.cpp:10-60, LoopVarAnalyzer.cpp:49-73).
SelectionExact ==
  /\ pass = "identify" => chosen = Wanted
  /\ pass \in {"replace", "done", "no index", "nyi"} => chosen = Kept

\* Two loops that are transformable at the same time have different numbers, so
\* their files and functions have different names (LoopLabeler.cpp:28-31).
LabelsDistinct ==
  \A m, n \in chosen : number[m] \in 0..(count - 1) /\ (number[m] = number[n] => m = n)

\* Of each variable of an identified loop: it is an induction variable from its
\* first DO on, with the bounds of that DO, and a used variable if and only if
\* the loop mentions it before (VariableIdentifier.cpp:26-140).
VarSetsExact ==
  pass \notin {"depth", "flags", "label", "undo", "identify"} =>
    \A l \in Wanted, v \in Vars :
      /\ IF induction[l][v] = 0
           THEN \A d \in Loops \cap Sub(l) : label[d].var # v
           ELSE /\ induction[l][v] \in Loops \cap Sub(l)
                /\ label[induction[l][v]].var = v
                /\ \A d \in Loops \cap Sub(l) : label[d].var = v => induction[l][v] <= d
      /\ v \in used[l] <=>
           \E m \in Sub(l) : /\ Mentions(m) /\ label[m].var = v
                             /\ \A d \in Loops \cap Sub(l) : label[d].var = v => m < d

\* The assertions "cannot find var" (LoopAttribute.cpp:186) and "no index vars
\* found" (LoopReplacer.cpp:942) never fire.
AssertionsHold == pass \notin {"no variable", "no index"}

\* Every mention of a variable of l that a DO of l runs over is inside that DO.
Scoped(l) ==
  \A d \in Loops \cap Sub(l), m \in Sub(l) :
    (m \in Loops \/ Mentions(m)) /\ label[m].var = label[d].var => m \in Sub(d)

\* In a loop that is replaced and whose variables are scoped, each indexed store
\* is inside the DO whose bounds the glue will use for it, and no variable is
\* passed both as an induction and as a used variable (LoopReplacer.cpp:43-60).
BoundsEnclose ==
  pass \in {"replace", "done"} =>
    \A l \in chosen : Scoped(l) =>
      \A n \in Sub(l) : Mentions(n) /\ induction[l][label[n].var] # 0 =>
        n \in Sub(induction[l][label[n].var]) /\ label[n].var \notin used[l]
=============================================================================
