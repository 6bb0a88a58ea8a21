--------------------------- MODULE FrontendProofs ---------------------------
(* Proofs about Frontend, for programs of any size and shape.                *)
EXTENDS Frontend, TLAPS

\* A node's own flags are flags.
LEMMA OwnType == \A b : Own(b) \in SUBSET Flags
BY DEF Own

\* What TypeOK and FrontendAssumption say of labels and subtrees.
LEMMA LabelType ==
  ASSUME TypeOK
  PROVE  /\ \A n \in Nodes : label[n] \in Labels /\ label[n].arr \in Arrays
         /\ \A n \in Nodes : label[n].var \in Vars \cup {Literal}
         /\ \A n \in Loops : n \in Nodes /\ label[n].var \in Vars
         /\ \A n \in Nodes : Sub(n) \subseteq Nodes /\ n \in Sub(n)
<1>1. \A n \in Nodes : label[n] \in Labels
  BY DEF TypeOK
<1>2. \A b \in Labels : b.arr \in Arrays /\ b.var \in Vars \cup {Literal}
  BY FrontendAssumption
<1>3. \A n \in Loops : n \in Nodes /\ label[n].op # "store"
  BY DEF Loops
<1>4. \A n \in Loops : label[n].var \in Vars
  BY <1>1, <1>3, FrontendAssumption
<1>5. \A n \in Nodes : last[n] \in Nodes /\ n <= last[n]
  BY DEF TypeOK, IsForest
<1>6. \A n \in Nodes : Sub(n) \subseteq Nodes /\ n \in Sub(n)
  BY <1>5, FrontendAssumption DEF Sub, Nodes
<1> QED
  BY <1>1, <1>2, <1>3, <1>4, <1>6

\* Passing to the next loop keeps the cursor and the loop among the nodes.
LEMMA NextLoopType ==
  ASSUME NEW p \in Passes, NEW q \in Passes, TypeOK, NextLoop(p, q)
  PROVE  pass' \in Passes /\ cursor' \in Nodes /\ loop' \in Nodes
<1>1. Size \in Nat /\ Size # 0 /\ loop \in 1..Size
  BY FrontendAssumption DEF TypeOK, Nodes
<1>2. loop' \in 1..Size /\ cursor' = loop' /\ pass' \in {p, q}
  BY <1>1 DEF NextLoop
<1> QED
  BY <1>2 DEF Nodes

\* Passing to the next node keeps the cursor among the nodes,
LEMMA AdvanceType ==
  ASSUME NEW p \in Passes, NEW q \in Passes, TypeOK, Advance(p, q)
  PROVE  pass' \in Passes /\ cursor' \in Nodes
<1>1. Size \in Nat /\ Size # 0 /\ cursor \in 1..Size
  BY FrontendAssumption DEF TypeOK, Nodes
<1>2. cursor' \in 1..Size /\ pass' \in {p, q}
  BY <1>1 DEF Advance
<1> QED
  BY <1>2 DEF Nodes

\* and so does going on within a loop.
LEMMA NextNodeType ==
  ASSUME TypeOK, NEW p, InTraversal(p), ~LastOfLoop, NextNode
  PROVE  pass' \in Passes /\ cursor' \in Nodes /\ loop' \in Nodes
BY FrontendAssumption DEF InTraversal, LastOfLoop, NextNode, TypeOK, Nodes, Sub

\* The program never changes.
ProgramType ==
  /\ label \in [Nodes -> Labels] /\ parent \in [Nodes -> 0..Size]
  /\ last \in [Nodes -> Nodes] /\ IsForest

\* A step that leaves the program alone leaves it well formed.
LEMMA ProgramStep ==
  ASSUME ProgramType, UNCHANGED program
  PROVE  ProgramType' /\ Loops' = Loops
BY DEF ProgramType, program, IsForest, Sub, Children, Loops

\* TypeOK is an invariant.
THEOREM Typing == Spec => []TypeOK
<1>1. Init => TypeOK
  <2> SUFFICES ASSUME Init PROVE TypeOK
    OBVIOUS
  <2>1. Loops \subseteq Nodes
    BY DEF Loops
  <2>2. 1 \in Nodes
    BY FrontendAssumption DEF Nodes
  <2>3. flags \in [Nodes -> SUBSET Flags]
    BY DEF Init, Flags
  <2> QED
    BY <2>1, <2>2, <2>3, FrontendAssumption DEF Init, TypeOK, Passes
<1>2. TypeOK /\ [Next]_vars => TypeOK'
  <2> SUFFICES ASSUME TypeOK, [Next]_vars PROVE TypeOK'
    OBVIOUS
  <2>0. ProgramType /\ (UNCHANGED program => ProgramType' /\ Loops' = Loops)
    BY ProgramStep DEF TypeOK, ProgramType
  <2>1. CASE Depth
    <3>1. pass' \in Passes /\ cursor' \in Nodes
      BY <2>1, AdvanceType DEF Depth, Passes
    <3>2. depth' \in [Nodes -> Nat]
      <4>1. (IF parent[cursor] = 0 THEN 0 ELSE depth[parent[cursor]]) \in Nat
        <5>1. cursor \in Nodes /\ parent[cursor] \in 0..Size /\ depth \in [Nodes -> Nat]
          BY DEF TypeOK
        <5>2. parent[cursor] # 0 => parent[cursor] \in Nodes
          BY <5>1, FrontendAssumption DEF Nodes
        <5> QED BY <5>1, <5>2
      <4> QED BY <2>1, <4>1 DEF Depth, TypeOK
    <3> QED
      BY <2>0, <2>1, <3>1, <3>2 DEF Depth, TypeOK, ProgramType, labelling, varsets
  <2>2. CASE Visit
    <3> PICK n \in Nodes \ visited :
          LET has == Own(label[n]) \cup UNION {synth[c] : c \in Children(n)}
          IN  /\ synth' = [synth EXCEPT ![n] = IF Propagates(n) THEN has ELSE {}]
              /\ flags' = IF n \in Loops THEN [flags EXCEPT ![n] = has] ELSE flags
              /\ visited' = visited \cup {n}
      BY <2>2 DEF Visit
    <3> DEFINE has == Own(label[n]) \cup UNION {synth[c] : c \in Children(n)}
    <3>1. has \in SUBSET Flags
      BY OwnType DEF TypeOK, Children
    <3> HIDE DEF has
    <3>2. synth' \in [Nodes -> SUBSET Flags] /\ flags' \in [Nodes -> SUBSET Flags]
      BY <3>1 DEF TypeOK, has
    <3> QED
      BY <2>0, <2>2, <3>2 DEF Visit, TypeOK, ProgramType, labelling, varsets
  <2>3. CASE EndFlags
    BY <2>0, <2>3 DEF EndFlags, TypeOK, ProgramType, structure, labelling, varsets, Passes
  <2>4. CASE Label
    <3>1. pass' \in Passes /\ cursor' \in Nodes
      BY <2>4, AdvanceType DEF Label, Passes
    <3>2. count' \in Nat /\ number' \in [Nodes -> Int] /\ chosen' \subseteq Loops
      BY <2>4 DEF Label, TypeOK, Qualifies, labelling
    <3> QED
      BY <2>0, <2>4, <3>1, <3>2 DEF Label, TypeOK, ProgramType, structure, varsets
  <2>5. CASE Undo
    <3>1. pass' \in Passes /\ cursor' \in Nodes
      BY <2>5, AdvanceType DEF Undo, Passes
    <3> QED
      BY <2>0, <2>5, <3>1 DEF Undo, TypeOK, ProgramType, structure, varsets
  <2>6. CASE Skip
    <3>1. pass' \in Passes /\ cursor' \in Nodes /\ loop' \in Nodes
      BY <2>6, NextLoopType DEF Skip, Passes
    <3> QED
      BY <2>0, <2>6, <3>1 DEF Skip, TypeOK, ProgramType, structure, labelling, varsets
  <2>7. CASE Identify
    <3>1. pass' \in Passes /\ cursor' \in Nodes /\ loop' \in Nodes
      BY <2>7, NextLoopType, NextNodeType DEF Identify, Passes
    <3>2. induction' \in [Nodes -> [Vars -> 0..Size]]
      BY <2>7, LabelType DEF Identify, InductsFirst, TypeOK, Nodes
    <3>3. used' \in [Nodes -> SUBSET Vars]
      BY <2>7, LabelType DEF Identify, EntersUsed, TypeOK, Mentions
    <3> QED
      BY <2>0, <2>7, <3>1, <3>2, <3>3
      DEF Identify, TypeOK, ProgramType, structure, labelling
  <2>8. CASE Use
    <3>1. pass' \in Passes /\ cursor' \in Nodes /\ loop' \in Nodes
      BY <2>8, NextNodeType DEF Use, StartCheck, Passes, TypeOK
    <3>2. Indices(cursor) \subseteq Vars \cup {Literal}
      BY LabelType DEF Indices, TypeOK
    <3>3. index' \in [Nodes -> [Arrays -> SUBSET (Vars \cup {Literal})]]
      <4>1. index' = index \/
            index' = [index EXCEPT ![loop][label[cursor].arr] = @ \cup Indices(cursor)]
        BY <2>8 DEF Use, StartCheck
      <4>2. loop \in Nodes /\ label[cursor].arr \in Arrays
        BY LabelType DEF TypeOK
      <4>3. index \in [Nodes -> [Arrays -> SUBSET (Vars \cup {Literal})]]
        BY DEF TypeOK
      <4> QED BY <3>2, <4>1, <4>2, <4>3
    <3> QED
      BY <2>0, <2>8, <3>1, <3>3 DEF Use, StartCheck, TypeOK, ProgramType, structure, labelling, varsets
  <2>9. CASE Check
    <3>1. pass' \in Passes /\ cursor' \in Nodes /\ loop' \in Nodes
      BY <2>9, NextLoopType, NextNodeType DEF Check, Passes
    <3> QED
      BY <2>0, <2>9, <3>1 DEF Check, TypeOK, ProgramType, structure, varsets
  <2>10. CASE Replace
    <3>1. pass' \in Passes /\ cursor' \in Nodes /\ loop' \in Nodes
      BY <2>10, NextLoopType DEF Replace, Passes, TypeOK
    <3> QED
      BY <2>0, <2>10, <3>1 DEF Replace, TypeOK, ProgramType, structure, labelling, varsets
  <2>11. CASE UNCHANGED vars
    BY <2>0, <2>11 DEF vars, TypeOK, ProgramType, program, structure, labelling, varsets
  <2> QED
    BY <2>1, <2>2, <2>3, <2>4, <2>5, <2>6, <2>7, <2>8, <2>9, <2>10, <2>11 DEF Next
<1> QED
  BY <1>1, <1>2, PTL DEF Spec

-----------------------------------------------------------------------------
\* What the visitors establish, node by node.
Inside(n) == \E k \in Loops : n \in Sub(k)
StrictlyInside(n) == \E k \in Loops : n \in Sub(k) /\ k # n

DepthOK(n) ==
  /\ depth[n] > 0 <=> Inside(n)
  /\ n \in Loops => (IsInLoop(n) <=> StrictlyInside(n))

FlagsOK(n) ==
  /\ n \in Loops => flags[n] = Content(n)
  /\ Inside(n) /\ Propagates(n) => synth[n] = Content(n)

StructureInv ==
  /\ \A n \in Nodes : pass # "depth" \/ n < cursor => DepthOK(n)
  /\ pass = "depth" => visited = {}
  /\ pass = "flags" => cursor = 1
  /\ pass \notin {"depth", "flags"} => visited = Nodes
  /\ \A n \in visited : FlagsOK(n)

\* Subtrees nest.
LEMMA Nesting ==
  ASSUME TypeOK, NEW n \in Nodes, NEW m \in Sub(n)
  PROVE  /\ m \in Nodes /\ n <= m /\ Sub(m) \subseteq Sub(n)
         /\ m # n => parent[m] \in Sub(n)
<1>1. m \in Nodes /\ last[m] \in Nodes /\ last[n] \in Nodes
  BY LabelType DEF TypeOK
<1>2. last[m] <= last[n] /\ (m # n => parent[m] \in Sub(n))
  BY DEF TypeOK, IsForest
<1> QED
  BY <1>1, <1>2 DEF Sub, Nodes

\* A child follows its parent and is in its subtree.
LEMMA ChildOf ==
  ASSUME TypeOK, NEW n \in Nodes, NEW c \in Children(n)
  PROVE  c \in Nodes /\ n < c /\ c \in Sub(n)
<1>1. c \in Nodes /\ parent[c] = n
  BY DEF Children
<1>2. n < c
  BY <1>1 DEF TypeOK, IsForest
<1>3. Sub(c) \subseteq Sub(n)
  BY DEF TypeOK, IsForest
<1> QED
  BY <1>1, <1>2, <1>3, LabelType

\* A node is in the body of a DO exactly when its parent is a DO or in one.
LEMMA UnderParent ==
  ASSUME TypeOK, NEW n \in Nodes
  PROVE  StrictlyInside(n) <=> parent[n] # 0 /\ Inside(parent[n])
<1>0. parent[n] \in 0..Size /\ parent[n] < n /\ Loops \subseteq Nodes
  BY LabelType DEF TypeOK, IsForest
<1>1. ASSUME StrictlyInside(n) PROVE parent[n] # 0 /\ Inside(parent[n])
  <2> PICK k \in Loops : n \in Sub(k) /\ k # n
    BY <1>1 DEF StrictlyInside
  <2>1. parent[n] \in Sub(k) /\ k \in Nodes
    BY <1>0, Nesting
  <2>2. parent[n] # 0
    BY <2>1, Nesting, FrontendAssumption DEF Nodes
  <2> QED BY <2>1, <2>2 DEF Inside
<1>2. ASSUME parent[n] # 0, Inside(parent[n]) PROVE StrictlyInside(n)
  <2> DEFINE p == parent[n]
  <2> PICK k \in Loops : p \in Sub(k)
    BY <1>2 DEF Inside
  <2>1. p \in Nodes /\ n \in Children(p)
    BY <1>0, <1>2, FrontendAssumption DEF Nodes, Children
  <2>2. n \in Sub(p)
    BY <2>1, ChildOf
  <2>3. Sub(p) \subseteq Sub(k) /\ k <= p /\ k \in Nodes
    BY <1>0, <2>1, Nesting
  <2>4. k # n
    BY <1>0, <2>1, <2>3, FrontendAssumption DEF Nodes
  <2> QED BY <2>2, <2>3, <2>4 DEF StrictlyInside
<1> QED BY <1>1, <1>2

\* The content of a node is its own and that of its children.
LEMMA ContentSplit ==
  ASSUME TypeOK, NEW n \in Nodes
  PROVE  Content(n) = Own(label[n]) \cup UNION {Content(c) : c \in Children(n)}
<1>1. Sub(n) = {n} \cup UNION {Sub(c) : c \in Children(n)}
  BY DEF TypeOK, IsForest
<1> QED
  BY <1>1 DEF Content

\* What is read off the program stays the same with it,
LEMMA Frame ==
  ASSUME UNCHANGED program
  PROVE  /\ Loops' = Loops /\ \A n : Sub(n)' = Sub(n) /\ Content(n)' = Content(n)
         /\ \A n : Inside(n)' = Inside(n) /\ StrictlyInside(n)' = StrictlyInside(n)
         /\ \A n : Children(n)' = Children(n)
         /\ Wanted' = Wanted /\ Outermost' = Outermost
BY DEF program, Loops, Sub, Content, Inside, StrictlyInside, Children, Wanted, Outermost

\* and so does what is known of depths and flags.
LEMMA FlagsFrame ==
  ASSUME UNCHANGED program, UNCHANGED structure
  PROVE  \A n : DepthOK(n)' = DepthOK(n) /\ FlagsOK(n)' = FlagsOK(n)
BY Frame DEF structure, DepthOK, FlagsOK, IsInLoop, Propagates

\* A depth is right when its parent's is.
LEMMA DepthStep ==
  ASSUME TypeOK, StructureInv, Depth PROVE StructureInv'
<1>0. UNCHANGED program /\ pass = "depth" /\ visited' = {} /\ cursor \in Nodes
  BY DEF Depth, StructureInv
<1>1. ASSUME NEW n \in Nodes, n <= cursor PROVE DepthOK(n)'
  <2>1. CASE n < cursor
    <3>1. DepthOK(n) /\ depth'[n] = depth[n]
      BY <1>0, <2>1 DEF StructureInv, Depth, TypeOK, Nodes
    <3> QED BY <1>0, <3>1, Frame DEF DepthOK, IsInLoop
  <2>2. CASE n = cursor
    <3> DEFINE p == parent[n]
    <3> DEFINE above == IF p = 0 THEN 0 ELSE depth[p]
    <3>1. p \in 0..Size /\ p < n /\ (p # 0 => p \in Nodes)
      <4>1. parent[n] \in 0..Size /\ parent[n] < n
        BY DEF TypeOK, IsForest
      <4> QED BY <4>1, FrontendAssumption DEF Nodes
    <3>2. p # 0 => (depth[p] > 0 <=> Inside(p))
      BY <1>0, <2>2, <3>1 DEF StructureInv, DepthOK
    <3>3. above \in Nat /\ (above > 0 <=> StrictlyInside(n))
      BY <3>1, <3>2, UnderParent DEF TypeOK
    <3>4. depth'[n] = IF n \in Loops THEN above + 1 ELSE above
      BY <2>2 DEF Depth, TypeOK
    <3> HIDE DEF above
    <3>5. Inside(n) <=> n \in Loops \/ StrictlyInside(n)
      BY LabelType DEF Inside, StrictlyInside
    <3>6. (depth'[n] > 0 <=> Inside(n)) /\ (n \in Loops => (depth'[n] > 1 <=> StrictlyInside(n)))
      BY <3>3, <3>4, <3>5
    <3> QED BY <1>0, <3>6, Frame DEF DepthOK, IsInLoop
  <2> QED BY <1>0, <1>1, <2>1, <2>2 DEF Nodes
<1>2. CASE pass' = "depth"
  <2>1. cursor' = cursor + 1
    BY <1>2 DEF Depth, Advance
  <2> QED BY <1>0, <1>1, <1>2, <2>1 DEF StructureInv, Nodes
<1>3. CASE pass' = "flags"
  <2>1. cursor' = 1 /\ cursor = Size
    BY <1>0, <1>3, FrontendAssumption DEF Depth, Advance, Nodes
  <2> QED BY <1>0, <1>1, <1>3, <2>1, FrontendAssumption DEF StructureInv, Nodes
<1> QED BY <1>2, <1>3 DEF Depth, Advance

\* Flags are right when those of the children are.
LEMMA VisitStep ==
  ASSUME TypeOK, StructureInv, Visit PROVE StructureInv'
<1>0. UNCHANGED <<program, pass, cursor, depth>> /\ pass = "flags"
  BY DEF Visit
<1> PICK n \in Nodes \ visited :
      /\ Children(n) \subseteq visited
      /\ LET has == Own(label[n]) \cup UNION {synth[c] : c \in Children(n)}
         IN  /\ synth' = [synth EXCEPT ![n] = IF Propagates(n) THEN has ELSE {}]
             /\ flags' = IF n \in Loops THEN [flags EXCEPT ![n] = has] ELSE flags
      /\ visited' = visited \cup {n}
  BY DEF Visit
<1> DEFINE has == Own(label[n]) \cup UNION {synth[c] : c \in Children(n)}
<1>1. \A m : DepthOK(m)' = DepthOK(m) /\ Propagates(m)' = Propagates(m)
  BY <1>0, Frame DEF DepthOK, IsInLoop, Propagates
<1>2. Inside(n) => has = Content(n)
  <2> SUFFICES ASSUME Inside(n) PROVE \A c \in Children(n) : synth[c] = Content(c)
    BY ContentSplit
  <2> TAKE c \in Children(n)
  <2>1. PICK k \in Loops : n \in Sub(k)
    BY DEF Inside
  <2>2. c \in Nodes /\ n < c /\ c \in Sub(n) /\ c \in visited
    BY ChildOf
  <2>3. k \in Nodes /\ k <= n /\ Sub(n) \subseteq Sub(k)
    BY <2>1, Nesting, LabelType
  <2>4. Inside(c) /\ StrictlyInside(c)
    BY <2>2, <2>3 DEF Inside, StrictlyInside, Nodes
  <2>5. Propagates(c)
    BY <1>0, <2>2, <2>4 DEF StructureInv, DepthOK, Propagates
  <2> QED BY <2>2, <2>4, <2>5 DEF StructureInv, FlagsOK
<1>3. n \in Loops => Inside(n)
  BY LabelType DEF Inside
<1> HIDE DEF has
<1>4. /\ synth' = [synth EXCEPT ![n] = IF Propagates(n) THEN has ELSE {}]
      /\ flags' = IF n \in Loops THEN [flags EXCEPT ![n] = has] ELSE flags
  BY DEF has
<1>5. FlagsOK(n)'
  BY <1>0, <1>1, <1>2, <1>3, <1>4, Frame DEF FlagsOK, TypeOK
<1>6. ASSUME NEW m \in visited PROVE FlagsOK(m)'
  <2>1. m # n /\ FlagsOK(m) /\ m \in Nodes
    BY DEF StructureInv, TypeOK
  <2>2. synth'[m] = synth[m] /\ flags'[m] = flags[m]
    BY <1>4, <2>1 DEF TypeOK
  <2> QED BY <1>0, <1>1, <2>1, <2>2, Frame DEF FlagsOK
<1> QED
  BY <1>0, <1>1, <1>5, <1>6 DEF StructureInv

\* The flag visitors compute the content of every loop (StructureAnalyzer.cpp).
THEOREM Structure == Spec => []StructureInv
<1>1. Init => StructureInv
  BY FrontendAssumption DEF Init, StructureInv, Nodes
<1>2. TypeOK /\ StructureInv /\ [Next]_vars => StructureInv'
  <2> SUFFICES ASSUME TypeOK, StructureInv, [Next]_vars PROVE StructureInv'
    OBVIOUS
  <2>1. CASE Depth BY <2>1, DepthStep
  <2>2. CASE Visit BY <2>2, VisitStep
  <2>3. CASE EndFlags
    BY <2>3, FlagsFrame DEF EndFlags, StructureInv
  <2>4. ASSUME UNCHANGED <<program, structure, visited>>, pass \notin {"depth", "flags"},
               pass' \notin {"depth", "flags"}
        PROVE  StructureInv'
    BY <2>4, FlagsFrame DEF StructureInv
  <2>5. CASE Label BY <2>4, <2>5 DEF Label, Advance
  <2>6. CASE Undo BY <2>4, <2>6 DEF Undo, Advance
  <2>7. CASE Skip BY <2>4, <2>7 DEF Skip, NextLoop
  <2>8. CASE Identify
    BY <2>4, <2>8 DEF Identify, NextLoop, NextNode, InTraversal
  <2>9. CASE Use BY <2>4, <2>9 DEF Use, StartCheck, NextNode, InTraversal
  <2>10. CASE Check BY <2>4, <2>10 DEF Check, NextLoop, NextNode, InTraversal
  <2>11. CASE Replace BY <2>4, <2>11 DEF Replace, NextLoop
  <2>12. CASE UNCHANGED vars
    BY <2>12, FlagsFrame DEF vars, StructureInv
  <2> QED
    BY <2>1, <2>2, <2>3, <2>5, <2>6, <2>7, <2>8, <2>9, <2>10, <2>11, <2>12 DEF Next
<1> QED
  BY <1>1, <1>2, Typing, PTL DEF Spec

-----------------------------------------------------------------------------
\* LabelsDistinct is an invariant: a number is given out once.
THEOREM Names == Spec => []LabelsDistinct
<1>1. Init => LabelsDistinct
  BY DEF Init, LabelsDistinct
<1>2. TypeOK /\ LabelsDistinct /\ [Next]_vars => LabelsDistinct'
  <2> SUFFICES ASSUME TypeOK, LabelsDistinct, [Next]_vars PROVE LabelsDistinct'
    OBVIOUS
  <2>1. CASE Label
    <3>1. CASE Qualifies(cursor)
      <4>1. /\ number' = [number EXCEPT ![cursor] = count]
            /\ count' = count + 1 /\ chosen' = chosen \cup {cursor}
        BY <2>1, <3>1 DEF Label
      <4>2. /\ count \in Nat /\ cursor \in Nodes /\ number \in [Nodes -> Int]
            /\ chosen \subseteq Nodes
        BY LabelType DEF TypeOK
      <4>3. ASSUME NEW m \in chosen' PROVE number'[m] \in 0..count /\
              (m # cursor => m \in chosen /\ number'[m] = number[m] /\ number[m] < count)
              /\ (m = cursor => number'[m] = count)
        <5>1. CASE m = cursor BY <4>1, <4>2, <5>1
        <5>2. CASE m # cursor
          <6>1. m \in chosen /\ number'[m] = number[m] BY <4>1, <4>2, <5>2
          <6>2. number[m] \in 0..(count - 1) BY <6>1 DEF LabelsDistinct
          <6> QED BY <4>2, <5>2, <6>1, <6>2
        <5> QED BY <5>1, <5>2
      <4>4. ASSUME NEW m \in chosen', NEW n \in chosen', number'[m] = number'[n]
            PROVE  m = n
        BY <4>2, <4>3, <4>4 DEF LabelsDistinct
      <4> QED BY <4>1, <4>2, <4>3, <4>4 DEF LabelsDistinct
    <3>2. CASE ~Qualifies(cursor)
      BY <2>1, <3>2 DEF Label, labelling, LabelsDistinct
    <3> QED BY <3>1, <3>2
  <2>2. ASSUME chosen' \subseteq chosen, UNCHANGED <<number, count>> PROVE LabelsDistinct'
    BY <2>2 DEF LabelsDistinct
  <2>3. CASE Undo BY <2>2, <2>3 DEF Undo
  <2>4. CASE Check BY <2>2, <2>4 DEF Check
  <2>5. CASE Depth \/ Visit \/ EndFlags BY <2>2, <2>5 DEF Depth, Visit, EndFlags, labelling
  <2>6. CASE Skip \/ Identify \/ Use BY <2>2, <2>6 DEF Skip, Identify, Use, labelling
  <2>7. CASE Replace \/ UNCHANGED vars BY <2>2, <2>7 DEF Replace, vars, labelling
  <2> QED BY <2>1, <2>3, <2>4, <2>5, <2>6, <2>7 DEF Next
<1> QED BY <1>1, <1>2, Typing, PTL DEF Spec

-----------------------------------------------------------------------------
\* What is chosen while LoopLabeler is at work.
Early == {"depth", "flags", "label", "undo"}

Candidates ==
  {n \in Outermost : /\ "array" \in Content(n)
                     /\ Content(n) \cap {"conditional", "call", "pointer"} = {}}

SelectInv ==
  /\ pass \in {"depth", "flags"} => chosen = {}
  /\ pass = "label" => \A n \in Nodes : n \in chosen <=> n \in Candidates /\ n < cursor
  /\ pass = "undo" =>
       \A n \in Nodes : n \in chosen <=> n \in Candidates /\ (n < cursor => n \in Wanted)
  /\ pass = "identify" => \A n \in Nodes : n \in chosen <=> n \in Wanted
  /\ pass \notin Early => chosen \subseteq Wanted

\* What LoopLabeler reads is the content of the loop.
LEMMA CandidateFacts ==
  ASSUME TypeOK, StructureInv, pass \in {"label", "undo"}
  PROVE  /\ \A n \in Nodes : Qualifies(n) <=> n \in Candidates
         /\ \A n \in Loops : flags[n] = Content(n)
         /\ Candidates \subseteq Loops
         /\ \A n \in Nodes : n \in Wanted <=> n \in Candidates /\ "complex" \notin Content(n)
         /\ Wanted \subseteq Nodes
<1>1. \A n \in Loops : flags[n] = Content(n)
  BY LabelType DEF StructureInv, FlagsOK
<1>2. \A n \in Loops : IsInLoop(n) <=> StrictlyInside(n)
  BY LabelType DEF StructureInv, DepthOK
<1>3. \A n \in Loops : n \in Outermost <=> ~StrictlyInside(n)
  BY DEF Outermost, StrictlyInside
<1>4. \A n \in Loops : n \in Nodes
  BY LabelType
<1>5. \A n \in Nodes : Qualifies(n) <=> n \in Candidates
  BY <1>1, <1>2, <1>3 DEF Qualifies, Candidates, Outermost
<1>6. \A n \in Nodes : n \in Wanted <=> n \in Candidates /\ "complex" \notin Content(n)
  BY DEF Candidates, Wanted
<1> QED
  BY <1>1, <1>4, <1>5, <1>6 DEF Candidates, Wanted, Outermost

\* The first pass of LoopLabeler chooses the candidates, the second one leaves
\* those wanted; nothing else is ever chosen (LoopLabeler.cpp:10-60).
THEOREM Selecting == Spec => []SelectInv
<1>1. Init => SelectInv
  BY DEF Init, SelectInv, Early
<1>2. TypeOK /\ StructureInv /\ SelectInv /\ [Next]_vars => SelectInv'
  <2> SUFFICES ASSUME TypeOK, StructureInv, SelectInv, [Next]_vars PROVE SelectInv'
    OBVIOUS
  <2>0. UNCHANGED program => Candidates' = Candidates /\ Wanted' = Wanted
                             /\ \A n : Content(n)' = Content(n)
    BY Frame DEF Candidates
  <2>1. CASE Depth \/ Visit
    BY <2>1 DEF Depth, Visit, Advance, SelectInv, labelling, Early
  <2>2. CASE EndFlags
    <3>1. cursor' = 1 /\ pass' = "label" /\ chosen' = {}
      BY <2>2 DEF EndFlags, StructureInv, SelectInv, labelling
    <3> QED BY <3>1 DEF SelectInv, Early, Nodes
  <2>3. CASE Label
    <3>1. cursor \in Nodes /\ Size \in Nat /\ pass = "label"
      BY <2>3, FrontendAssumption DEF Label
    <3>2. chosen' = IF cursor \in Candidates THEN chosen \cup {cursor} ELSE chosen
      BY <2>3, <3>1, CandidateFacts DEF Label, labelling
    <3>3. ASSUME NEW n \in Nodes PROVE n \in chosen' <=> n \in Candidates /\ n <= cursor
      <4>1. n \in chosen <=> n \in Candidates /\ n < cursor
        BY <3>1 DEF SelectInv
      <4> QED BY <3>1, <3>2, <4>1 DEF Nodes
    <3>4. Candidates' = Candidates /\ Wanted' = Wanted
      BY <2>0, <2>3 DEF Label
    <3>5. \/ pass' = "label" /\ cursor' = cursor + 1
          \/ pass' = "undo" /\ cursor' = 1 /\ cursor = Size
      BY <2>3, <3>1 DEF Label, Advance, Nodes
    <3>6. pass' = "label" => \A n \in Nodes : n \in chosen' <=> n \in Candidates /\ n < cursor'
      BY <3>1, <3>3, <3>5 DEF Nodes
    <3>7. pass' = "undo" => \A n \in Nodes :
            n \in chosen' <=> n \in Candidates /\ (n < cursor' => n \in Wanted)
      BY <3>1, <3>3, <3>5 DEF Nodes
    <3> QED BY <3>4, <3>5, <3>6, <3>7 DEF SelectInv, Early
  <2>4. CASE Undo
    <3>1. cursor \in Nodes /\ Size \in Nat /\ pass = "undo"
      BY <2>4, FrontendAssumption DEF Undo
    <3>2. cursor \in Candidates => (cursor \in Wanted <=> "complex" \notin flags[cursor])
      BY <3>1, CandidateFacts
    <3>3. chosen' = IF "complex" \in flags[cursor] THEN chosen \ {cursor} ELSE chosen
      BY <2>4 DEF Undo
    <3>4. ASSUME NEW n \in Nodes
          PROVE  n \in chosen' <=> n \in Candidates /\ (n <= cursor => n \in Wanted)
      <4>1. n \in chosen <=> n \in Candidates /\ (n < cursor => n \in Wanted)
        BY <3>1 DEF SelectInv
      <4>2. CASE n = cursor
        BY <3>1, <3>2, <3>3, <4>1, <4>2 DEF Nodes
      <4>3. CASE n # cursor
        BY <3>1, <3>3, <4>1, <4>3 DEF Nodes
      <4> QED BY <4>2, <4>3
    <3>5. Candidates' = Candidates /\ Wanted' = Wanted
      BY <2>0, <2>4 DEF Undo
    <3>6. \/ pass' = "undo" /\ cursor' = cursor + 1
          \/ pass' = "identify" /\ cursor' = 1 /\ cursor = Size
      BY <2>4, <3>1 DEF Undo, Advance, Nodes
    <3>7. pass' = "undo" => \A n \in Nodes :
            n \in chosen' <=> n \in Candidates /\ (n < cursor' => n \in Wanted)
      BY <3>1, <3>4, <3>6 DEF Nodes
    <3>8. pass' = "identify" => \A n \in Nodes : n \in chosen' <=> n \in Wanted
      <4>1. \A n \in Nodes : n \in Wanted => n \in Candidates
        BY <3>1, CandidateFacts
      <4> QED BY <3>1, <3>4, <3>6, <4>1 DEF Nodes
    <3>9. chosen' \subseteq Nodes
      BY <3>3, LabelType DEF TypeOK
    <3>10. pass' = "identify" => chosen' \subseteq Wanted
      BY <3>8, <3>9
    <3>11. CASE pass' = "undo" BY <3>5, <3>7, <3>11 DEF SelectInv, Early
    <3>12. CASE pass' = "identify" BY <3>5, <3>8, <3>10, <3>12 DEF SelectInv, Early
    <3> QED BY <3>6, <3>11, <3>12
  <2>5. ASSUME pass \notin Early, pass' \notin Early, UNCHANGED program,
               chosen' \subseteq chosen,
               pass' = "identify" => pass = "identify" /\ chosen' = chosen
        PROVE  SelectInv'
    BY <2>0, <2>5 DEF SelectInv, Early
  <2>6. CASE Skip BY <2>5, <2>6 DEF Skip, NextLoop, labelling, Early
  <2>7. CASE Identify
    BY <2>5, <2>7 DEF Identify, NextLoop, NextNode, InTraversal, labelling, Early
  <2>8. CASE Use BY <2>5, <2>8 DEF Use, StartCheck, NextNode, InTraversal, labelling, Early
  <2>9. CASE Check BY <2>5, <2>9 DEF Check, NextLoop, NextNode, InTraversal, Early
  <2>10. CASE Replace BY <2>5, <2>10 DEF Replace, NextLoop, labelling, Early
  <2>11. CASE UNCHANGED vars
    BY <2>0, <2>11 DEF vars, SelectInv, labelling, Early
  <2> QED
    BY <2>1, <2>2, <2>3, <2>4, <2>6, <2>7, <2>8, <2>9, <2>10, <2>11 DEF Next
<1> QED
  BY <1>1, <1>2, Typing, Structure, PTL DEF Spec

-----------------------------------------------------------------------------
\* The nodes of loop l that VariableIdentifier has been at.
Seen(l, m) ==
  m \in Sub(l) /\ (pass = "identify" => l < loop \/ (l = loop /\ m < cursor))

\* The sets of l hold what the nodes seen so far say of v.
InductionOK(l, v) ==
  IF induction[l][v] = 0
    THEN \A d \in Loops : Seen(l, d) => label[d].var # v
    ELSE /\ induction[l][v] \in Loops /\ Seen(l, induction[l][v])
         /\ label[induction[l][v]].var = v
         /\ \A d \in Loops : Seen(l, d) /\ label[d].var = v => induction[l][v] <= d

UsedOK(l, v) ==
  v \in used[l] <=>
    \E m \in Nodes : /\ Seen(l, m) /\ Mentions(m) /\ label[m].var = v
                     /\ \A d \in Loops : Seen(l, d) /\ label[d].var = v => m < d

VarInv ==
  /\ pass \in Early => /\ loop = 1
                       /\ \A l \in Nodes, v \in Vars : induction[l][v] = 0 /\ v \notin used[l]
  /\ pass \notin Early => \A l \in Wanted, v \in Vars : InductionOK(l, v) /\ UsedOK(l, v)

\* The loops wanted are loops.
LEMMA WantedNodes == ASSUME TypeOK PROVE Wanted \subseteq Loops /\ Wanted \subseteq Nodes
BY LabelType DEF Wanted, Outermost

\* A loop whose seen nodes and sets stay the same stays right.
LEMMA VarFrame ==
  ASSUME UNCHANGED program, NEW l, NEW v,
         \A m : Seen(l, m)' <=> Seen(l, m),
         induction'[l][v] = induction[l][v], v \in used'[l] <=> v \in used[l],
         InductionOK(l, v), UsedOK(l, v)
  PROVE  InductionOK(l, v)' /\ UsedOK(l, v)'
<1>1. Loops' = Loops /\ label' = label /\ \A m : Mentions(m)' = Mentions(m)
  BY Frame DEF program, Mentions
<1>2. InductionOK(l, v)'
  BY <1>1 DEF InductionOK
<1>3. UsedOK(l, v)'
  BY <1>1 DEF UsedOK
<1> QED BY <1>2, <1>3

\* Nothing is seen of a loop whose turn has not come.
LEMMA SeenNext ==
  ASSUME TypeOK, UNCHANGED program, pass = "identify", NextLoop("identify", "use"),
         NEW l \in Nodes
  PROVE  /\ l # loop => \A m : Seen(l, m)' <=> Seen(l, m)
         /\ l = loop => \A m : Seen(l, m)' <=> m \in Sub(l)
<1>1. Size \in Nat /\ loop \in 1..Size /\ l \in 1..Size
  BY FrontendAssumption DEF TypeOK, Nodes
<1>2. \A m \in Sub(l) : m \in Nodes /\ l <= m
  BY Nesting
<1>3. \A m : (m \in Sub(l))' <=> m \in Sub(l)
  BY Frame
<1>4. CASE pass' = "identify" /\ loop' = loop + 1 /\ cursor' = loop + 1 /\ loop < Size
  <2>1. \A m \in Sub(l) : m \in Int /\ l <= m
    BY <1>2 DEF Nodes
  <2> QED BY <1>1, <1>3, <1>4, <2>1 DEF Seen
<1>5. CASE pass' = "use" /\ loop = Size
  BY <1>1, <1>3, <1>5 DEF Seen
<1> QED BY <1>1, <1>4, <1>5 DEF NextLoop

\* A step of VariableIdentifier sees one more node of its loop.
LEMMA SeenIdentify ==
  ASSUME TypeOK, Identify, NEW l \in Nodes
  PROVE  /\ l # loop => \A m : Seen(l, m)' <=> Seen(l, m)
         /\ l = loop => \A m : Seen(l, m)' <=> Seen(l, m) \/ m = cursor
         /\ cursor \in Sub(loop) /\ loop \in Nodes
         /\ \A m : Seen(loop, m) <=> m \in Sub(loop) /\ m < cursor
<1>0. cursor \in Sub(loop) /\ pass = "identify" /\ UNCHANGED program
  BY DEF Identify, InTraversal
<1>1. loop \in Nodes /\ l \in Int /\ loop \in Int /\ cursor \in Int
  BY DEF TypeOK, Nodes
<1>2. \A m : Seen(loop, m) <=> m \in Sub(loop) /\ m < cursor
  BY <1>0, <1>1 DEF Seen
<1>3. CASE LastOfLoop
  <2>1. NextLoop("identify", "use")
    BY <1>3 DEF Identify
  <2>2. \A m \in Sub(loop) : m \in Int /\ m <= cursor
    BY <1>3 DEF LastOfLoop, Sub
  <2>3. \A m : m \in Sub(loop) <=> (m \in Sub(loop) /\ m < cursor) \/ m = cursor
    <3> TAKE m
    <3>1. CASE m \in Sub(loop) BY <1>1, <2>2, <3>1
    <3>2. CASE m \notin Sub(loop) BY <1>0, <3>2
    <3> QED BY <3>1, <3>2
  <2> QED BY <1>0, <1>1, <1>2, <2>1, <2>3, SeenNext
<1>4. CASE ~LastOfLoop
  <2>1. cursor' = cursor + 1 /\ UNCHANGED <<pass, loop>>
    BY <1>4 DEF Identify, NextNode
  <2>2. \A m \in Sub(l) : m \in Int
    BY DEF Sub
  <2>3. \A m : (m \in Sub(l))' <=> m \in Sub(l)
    BY <1>0, Frame
  <2>4. l # loop => \A m : Seen(l, m)' <=> Seen(l, m)
    BY <2>1, <2>3 DEF Seen
  <2>5. l = loop => \A m : Seen(l, m)' <=> Seen(l, m) \/ m = cursor
    <3> SUFFICES ASSUME l = loop, NEW m PROVE Seen(l, m)' <=> Seen(l, m) \/ m = cursor
      OBVIOUS
    <3>1. Seen(l, m)' <=> m \in Sub(l) /\ m < cursor + 1
      BY <1>0, <1>1, <2>1, <2>3 DEF Seen
    <3>2. CASE m \in Sub(l)
      <4>1. m \in Int BY <2>2, <3>2
      <4> QED BY <1>1, <1>2, <3>1, <3>2, <4>1
    <3>3. CASE m \notin Sub(l)
      BY <1>0, <1>2, <3>1, <3>3
    <3> QED BY <3>2, <3>3
  <2> QED BY <1>0, <1>1, <1>2, <2>4, <2>5
<1> QED BY <1>3, <1>4

\* The sets are right after a step of VariableIdentifier.
LEMMA IdentifyStep ==
  ASSUME TypeOK, SelectInv, VarInv, Identify PROVE VarInv'
<1>0. /\ pass = "identify" /\ UNCHANGED program /\ loop \in chosen /\ Loops' = Loops
      /\ Wanted' = Wanted /\ pass' \notin Early
      /\ label' = label /\ \A m : Mentions(m)' = Mentions(m)
  BY Frame DEF Identify, InTraversal, Early, NextLoop, NextNode, program, Mentions
<1> SUFFICES ASSUME NEW l \in Wanted, NEW v \in Vars PROVE InductionOK(l, v)' /\ UsedOK(l, v)'
  BY <1>0 DEF VarInv
<1>1. l \in Nodes /\ loop \in Nodes /\ cursor \in Nodes /\ Loops \subseteq Nodes
  BY WantedNodes, LabelType DEF TypeOK
<1>2. InductionOK(l, v) /\ UsedOK(l, v)
  BY <1>0 DEF VarInv, Early
<1>3. /\ induction \in [Nodes -> [Vars -> 0..Size]] /\ used \in [Nodes -> SUBSET Vars]
      /\ induction' = IF cursor \in Loops /\ induction[loop][label[cursor].var] = 0
                        THEN [induction EXCEPT ![loop][label[cursor].var] = cursor]
                        ELSE induction
      /\ used' = IF Mentions(cursor) /\ induction[loop][label[cursor].var] = 0
                   THEN [used EXCEPT ![loop] = @ \cup {label[cursor].var}] ELSE used
  BY DEF Identify, InductsFirst, EntersUsed, TypeOK
<1>4. cursor \in Loops => ~Mentions(cursor)
  BY DEF Loops, Mentions
<1>5. CASE l # loop
  <2>1. induction'[l] = induction[l] /\ used'[l] = used[l]
    BY <1>1, <1>3, <1>5
  <2>2. \A m : Seen(l, m)' <=> Seen(l, m)
    BY <1>1, <1>5, SeenIdentify
  <2> QED BY <1>0, <1>2, <2>1, <2>2, VarFrame
<1>6. CASE l = loop
  <2>1. /\ \A m : Seen(l, m)' <=> Seen(l, m) \/ m = cursor
        /\ \A m : Seen(l, m) => m < cursor /\ m \in Nodes
    BY <1>1, <1>6, SeenIdentify, Nesting
  <2>2. CASE label[cursor].var # v \/ ~(cursor \in Loops \/ Mentions(cursor))
    <3>1. induction'[l][v] = induction[l][v] /\ (v \in used'[l] <=> v \in used[l])
      BY <1>1, <1>3, <1>6, <2>2
    <3>2. InductionOK(l, v)'
      BY <1>0, <1>2, <2>1, <2>2, <3>1 DEF InductionOK
    <3>3. UsedOK(l, v)'
      BY <1>0, <1>2, <2>1, <2>2, <3>1 DEF UsedOK
    <3> QED BY <3>2, <3>3
  <2>3. CASE label[cursor].var = v /\ cursor \in Loops
    <3>1. v \in used'[l] <=> v \in used[l]
      BY <1>3, <1>4, <2>3
    <3>2. induction'[l][v] = IF induction[l][v] = 0 THEN cursor ELSE induction[l][v]
      BY <1>1, <1>3, <1>6, <2>3
    <3>3. cursor # 0 /\ cursor \in Nat
      BY <1>1, FrontendAssumption DEF Nodes
    <3>4. InductionOK(l, v)'
      <4>1. CASE induction[l][v] = 0
        <5>1. induction'[l][v] = cursor BY <3>2, <4>1
        <5>2. \A d \in Loops : Seen(l, d)' /\ label[d].var = v => d = cursor
          BY <1>2, <2>1, <4>1 DEF InductionOK
        <5>3. \A d \in Loops : Seen(l, d)' /\ label[d].var = v => cursor <= d
          BY <3>3, <5>2
        <5> QED BY <1>0, <2>1, <2>3, <3>3, <5>1, <5>3 DEF InductionOK
      <4>2. CASE induction[l][v] # 0
        <5>1. induction'[l][v] = induction[l][v] BY <3>2, <4>2
        <5>2. induction[l][v] < cursor /\ induction[l][v] \in Nodes
          BY <1>2, <2>1, <4>2 DEF InductionOK
        <5>3. induction[l][v] <= cursor
          BY <3>3, <5>2, FrontendAssumption DEF Nodes
        <5> QED BY <1>0, <1>2, <2>1, <4>2, <5>1, <5>3 DEF InductionOK
      <4> QED BY <4>1, <4>2
    <3>5. UsedOK(l, v)'
      BY <1>0, <1>2, <1>4, <2>1, <2>3, <3>1 DEF UsedOK
    <3> QED BY <3>4, <3>5
  <2>4. CASE label[cursor].var = v /\ Mentions(cursor)
    <3>1. induction'[l][v] = induction[l][v]
      BY <1>3, <1>4, <2>4
    <3>2. v \in used'[l] <=> v \in used[l] \/ induction[l][v] = 0
      BY <1>1, <1>3, <1>6, <2>4
    <3>3. InductionOK(l, v)'
      BY <1>0, <1>2, <1>4, <2>1, <2>4, <3>1 DEF InductionOK
    <3>4. \A d \in Loops : Seen(l, d)' <=> Seen(l, d)
      BY <1>4, <2>1, <2>4
    <3>5. UsedOK(l, v)'
      <4>1. CASE induction[l][v] = 0
        <5>1. \A d \in Loops : Seen(l, d) => label[d].var # v
          BY <1>2, <4>1 DEF InductionOK
        <5>2. \A m : m = cursor => Seen(l, m)' BY <2>1
        <5> QED BY <1>0, <1>1, <2>4, <3>2, <3>4, <4>1, <5>1, <5>2 DEF UsedOK
      <4>2. CASE induction[l][v] # 0
        <5>1. PICK d \in Loops : Seen(l, d) /\ label[d].var = v
          BY <1>2, <4>2 DEF InductionOK
        <5>2. ~(cursor < d)
          BY <1>1, <2>1, <5>1, FrontendAssumption DEF Nodes
        <5> QED BY <1>0, <1>2, <2>1, <3>2, <3>4, <4>2, <5>1, <5>2 DEF UsedOK
      <4> QED BY <4>1, <4>2
    <3> QED BY <3>3, <3>5
  <2> QED BY <2>2, <2>3, <2>4
<1> QED BY <1>5, <1>6

\* While VariableIdentifier is at work the sets say what the nodes seen so far do.
THEOREM Variables == Spec => []VarInv
<1>1. Init => VarInv
  <2> SUFFICES ASSUME Init PROVE VarInv
    OBVIOUS
  <2> QED BY DEF Init, VarInv, Early
<1>2. TypeOK /\ SelectInv /\ VarInv /\ [Next]_vars => VarInv'
  <2> SUFFICES ASSUME TypeOK, SelectInv, VarInv, [Next]_vars PROVE VarInv'
    OBVIOUS
  <2>1. ASSUME pass \in Early, pass' \in Early, UNCHANGED <<loop, varsets>> PROVE VarInv'
    BY <2>1 DEF VarInv, varsets
  <2>2. ASSUME pass \notin Early, pass' \notin Early, UNCHANGED <<program, varsets>>,
               \A l \in Wanted : \A m : Seen(l, m)' <=> Seen(l, m)
        PROVE  VarInv'
    <3>1. Wanted' = Wanted
      BY <2>2, Frame
    <3>2. ASSUME NEW l \in Wanted, NEW v \in Vars PROVE InductionOK(l, v)' /\ UsedOK(l, v)'
      BY <2>2, VarFrame DEF VarInv, varsets
    <3> QED BY <2>2, <3>1, <3>2 DEF VarInv
  <2>3. ASSUME pass \notin {"identify"}, pass' \notin {"identify"}, UNCHANGED program
        PROVE  \A l \in Wanted : \A m : Seen(l, m)' <=> Seen(l, m)
    BY <2>3, Frame DEF Seen
  <2>4. CASE Depth \/ Visit \/ EndFlags \/ Label
    BY <2>1, <2>4 DEF Depth, Visit, EndFlags, Label, Advance, Early
  <2>5. CASE Undo
    <3>1. CASE pass' = "undo" BY <2>1, <2>5, <3>1 DEF Undo, Early
    <3>2. CASE pass' = "identify"
      <4>1. /\ cursor' = 1 /\ loop' = 1 /\ UNCHANGED <<induction, used, program>>
            /\ \A l \in Nodes, v \in Vars : induction[l][v] = 0 /\ v \notin used[l]
        BY <2>5, <3>2 DEF Undo, Advance, VarInv, Early, varsets
      <4>2. \A l \in Wanted : \A m : ~Seen(l, m)'
        <5> TAKE l \in Wanted
        <5> TAKE m
        <5>1. l \in Nodes /\ (m \in Sub(l) => m \in Nodes)
          BY WantedNodes, Nesting
        <5>2. (m \in Sub(l))' <=> m \in Sub(l)
          BY <4>1, Frame
        <5> QED BY <3>2, <4>1, <5>1, <5>2 DEF Seen, Nodes
      <4>3. Wanted' = Wanted /\ Wanted \subseteq Nodes
        BY <4>1, Frame, WantedNodes
      <4>4. ASSUME NEW l \in Wanted, NEW v \in Vars
            PROVE  InductionOK(l, v)' /\ UsedOK(l, v)'
        <5>1. induction'[l][v] = 0 /\ v \notin used'[l] BY <4>1, <4>3
        <5> QED BY <4>2, <5>1 DEF InductionOK, UsedOK
      <4> QED BY <3>2, <4>3, <4>4 DEF VarInv, Early
    <3> QED BY <2>5, <3>1, <3>2 DEF Undo, Advance
  <2>6. CASE Skip
    <3>1. CASE pass = "identify"
      <4>1. NextLoop("identify", "use") /\ UNCHANGED <<program, varsets>> /\ loop \notin chosen
        BY <2>6, <3>1 DEF Skip
      <4>2. \A l \in Wanted : l # loop /\ l \in Nodes
        BY <3>1, <4>1, WantedNodes DEF SelectInv
      <4>3. \A l \in Wanted : \A m : Seen(l, m)' <=> Seen(l, m)
        BY <3>1, <4>1, <4>2, SeenNext
      <4> QED BY <2>2, <3>1, <4>1, <4>3 DEF NextLoop, Early
    <3>2. CASE pass # "identify"
      BY <2>2, <2>3, <2>6, <3>2 DEF Skip, NextLoop, Early
    <3> QED BY <3>1, <3>2
  <2>7. CASE Identify BY <2>7, IdentifyStep
  <2>8. CASE Use BY <2>2, <2>3, <2>8 DEF Use, StartCheck, NextNode, InTraversal, Early
  <2>9. CASE Check BY <2>2, <2>3, <2>9 DEF Check, NextLoop, NextNode, InTraversal, Early
  <2>10. CASE Replace BY <2>2, <2>3, <2>10 DEF Replace, NextLoop, Early
  <2>11. CASE UNCHANGED vars
    <3>1. UNCHANGED <<program, pass, loop, cursor, varsets>>
      BY <2>11 DEF vars
    <3>2. \A l \in Wanted : \A m : Seen(l, m)' <=> Seen(l, m)
      BY <3>1, Frame DEF Seen
    <3> QED BY <2>1, <2>2, <3>1, <3>2
  <2> QED
    BY <2>4, <2>5, <2>6, <2>7, <2>8, <2>9, <2>10, <2>11 DEF Next
<1> QED
  BY <1>1, <1>2, Typing, Selecting, PTL DEF Spec

\* VarSetsExact, what VarInv says once every loop has been identified.
LEMMA VarSets == ASSUME TypeOK, VarInv PROVE VarSetsExact
<1> SUFFICES ASSUME pass \notin Early, pass # "identify", NEW l \in Wanted, NEW v \in Vars
             PROVE  /\ IF induction[l][v] = 0
                         THEN \A d \in Loops \cap Sub(l) : label[d].var # v
                         ELSE /\ induction[l][v] \in Loops \cap Sub(l)
                              /\ label[induction[l][v]].var = v
                              /\ \A d \in Loops \cap Sub(l) :
                                   label[d].var = v => induction[l][v] <= d
                    /\ v \in used[l] <=>
                         \E m \in Sub(l) :
                           /\ Mentions(m) /\ label[m].var = v
                           /\ \A d \in Loops \cap Sub(l) : label[d].var = v => m < d
  BY DEF VarSetsExact, Early
<1>1. InductionOK(l, v) /\ UsedOK(l, v)
  BY DEF VarInv
<1>2. \A m : Seen(l, m) <=> m \in Sub(l)
  BY DEF Seen
<1>3. \A m \in Sub(l) : m \in Nodes
  BY WantedNodes, Nesting
<1>4. IF induction[l][v] = 0
        THEN \A d \in Loops \cap Sub(l) : label[d].var # v
        ELSE /\ induction[l][v] \in Loops \cap Sub(l)
             /\ label[induction[l][v]].var = v
             /\ \A d \in Loops \cap Sub(l) : label[d].var = v => induction[l][v] <= d
  BY <1>1, <1>2 DEF InductionOK
<1>5. v \in used[l] <=>
        \E m \in Sub(l) : /\ Mentions(m) /\ label[m].var = v
                          /\ \A d \in Loops \cap Sub(l) : label[d].var = v => m < d
  BY <1>1, <1>2, <1>3 DEF UsedOK
<1> QED BY <1>4, <1>5

\* The sets of every identified loop are exact (VariableIdentifier.cpp).
THEOREM VarSetsHold == Spec => []VarSetsExact
<1>1. TypeOK /\ VarInv => VarSetsExact
  BY VarSets
<1> QED BY <1>1, Typing, Variables, PTL

\* BoundsEnclose follows from what the sets hold.
THEOREM Enclosing == Spec => []BoundsEnclose
<1>1. TypeOK /\ SelectInv /\ VarInv => BoundsEnclose
  <2> SUFFICES ASSUME TypeOK, SelectInv, VarSetsExact, pass \in {"replace", "done"},
                      NEW l \in chosen, Scoped(l), NEW n \in Sub(l), Mentions(n),
                      induction[l][label[n].var] # 0
               PROVE  n \in Sub(induction[l][label[n].var]) /\ label[n].var \notin used[l]
    BY VarSets DEF BoundsEnclose
  <2> DEFINE v == label[n].var
  <2> DEFINE d == induction[l][v]
  <2>1. l \in Wanted /\ v \in Vars
    BY DEF SelectInv, Early, Mentions
  <2>2. d \in Loops \cap Sub(l) /\ label[d].var = v
    BY <2>1 DEF VarSetsExact
  <2>3. \A m \in Sub(l) : Mentions(m) /\ label[m].var = v => m \in Sub(d)
    BY <2>2 DEF Scoped
  <2>4. \A m \in Sub(d) : ~(m < d)
    <3>1. d \in Nodes BY <2>2, LabelType
    <3> QED BY <3>1, Nesting DEF Nodes
  <2>5. v \notin used[l]
    <3> SUFFICES ASSUME v \in used[l] PROVE FALSE
      OBVIOUS
    <3>1. PICK m \in Sub(l) : /\ Mentions(m) /\ label[m].var = v
                              /\ \A e \in Loops \cap Sub(l) : label[e].var = v => m < e
      BY <2>1 DEF VarSetsExact
    <3> QED BY <2>2, <2>3, <2>4, <3>1
  <2> QED BY <2>3, <2>5
<1> QED BY <1>1, Typing, Selecting, Variables, PTL

-----------------------------------------------------------------------------
\* The analysis of the loops, one after the other.
Analysed(l) ==
  \/ pass \in {"replace", "done", "no index", "nyi"}
  \/ pass \in {"use", "check"} /\ l < loop

\* The nodes of l that VarUseIdentifier, and ArrayIndexChecker, have been at.
UsedUpTo(l, m) ==
  /\ m \in Sub(l)
  /\ \/ Analysed(l) \/ (pass = "check" /\ l = loop)
     \/ pass = "use" /\ l = loop /\ m < cursor

CheckedUpTo(l, m) ==
  m \in Sub(l) /\ (Analysed(l) \/ (pass = "check" /\ l = loop /\ m < cursor))

Usable(l, v) == v = Literal \/ (v \notin used[l] /\ induction[l][v] # 0)

IndexOK(l, a, v) ==
  v \in index[l][a] <=>
    \E m \in Nodes : /\ UsedUpTo(l, m) /\ Stores(m)
                     /\ label[m].arr = a /\ label[m].var = v /\ Usable(l, v)

ChosenOK(l) ==
  l \in chosen <=>
    \A n \in Nodes : CheckedUpTo(l, n) /\ Stores(n) => index[l][label[n].arr] # {}

IndexInv ==
  /\ AssertionsHold
  /\ pass \in Early \cup {"identify"} =>
       \A l \in Nodes, a \in Arrays : index[l][a] = {}
  /\ pass = "check" => loop \in Wanted
  /\ pass \notin Early \cup {"identify"} =>
       \A l \in Wanted : ChosenOK(l) /\ \A a \in Arrays : \A v : IndexOK(l, a, v)

\* A loop whose position and sets stay the same stays right.
LEMMA IndexFrame ==
  ASSUME UNCHANGED <<program, varsets>>, NEW l,
         \A m : UsedUpTo(l, m)' <=> UsedUpTo(l, m),
         \A m : CheckedUpTo(l, m)' <=> CheckedUpTo(l, m),
         index'[l] = index[l], l \in chosen' <=> l \in chosen,
         ChosenOK(l), \A a \in Arrays : \A v : IndexOK(l, a, v)
  PROVE  ChosenOK(l)' /\ \A a \in Arrays : \A v : IndexOK(l, a, v)'
<1>1. /\ label' = label /\ used' = used /\ induction' = induction
      /\ \A m : Stores(m)' = Stores(m)
      /\ \A v : Usable(l, v)' = Usable(l, v)
  BY DEF program, varsets, Stores, Usable
<1> QED BY <1>1 DEF ChosenOK, IndexOK

\* The end of a loop's analysis moves nothing but that loop.
LEMMA EndOfLoop ==
  ASSUME TypeOK, UNCHANGED program, pass \in {"use", "check"}, NextLoop("use", "replace"),
         NEW l \in Nodes
  PROVE  /\ l # loop => \A m : /\ UsedUpTo(l, m)' <=> UsedUpTo(l, m)
                               /\ CheckedUpTo(l, m)' <=> CheckedUpTo(l, m)
         /\ l = loop => \A m : /\ UsedUpTo(l, m)' <=> m \in Sub(l)
                               /\ CheckedUpTo(l, m)' <=> m \in Sub(l)
<1>1. Size \in Nat /\ loop \in 1..Size /\ l \in 1..Size
  BY FrontendAssumption DEF TypeOK, Nodes
<1>2. \A m \in Sub(l) : m \in Int /\ l <= m
  BY Nesting DEF Nodes
<1>3. \A m : (m \in Sub(l))' <=> m \in Sub(l)
  BY Frame
<1> SUFFICES ASSUME NEW m
             PROVE  /\ l # loop => /\ UsedUpTo(l, m)' <=> UsedUpTo(l, m)
                                   /\ CheckedUpTo(l, m)' <=> CheckedUpTo(l, m)
                    /\ l = loop => /\ UsedUpTo(l, m)' <=> m \in Sub(l)
                                   /\ CheckedUpTo(l, m)' <=> m \in Sub(l)
  OBVIOUS
<1>0. \/ pass' = "use" /\ loop' = loop + 1 /\ cursor' = loop + 1 /\ loop < Size
      \/ pass' = "replace" /\ loop = Size
  BY <1>1 DEF NextLoop
<1>4. CASE l < loop
  <2>1. Analysed(l)
    BY <1>4 DEF Analysed
  <2>2. Analysed(l)'
    <3>1. CASE pass' = "use" BY <1>0, <1>1, <1>4, <3>1 DEF Analysed
    <3>2. CASE pass' = "replace" BY <3>2 DEF Analysed
    <3> QED BY <1>0, <3>1, <3>2
  <2> QED BY <1>1, <1>3, <1>4, <2>1, <2>2 DEF UsedUpTo, CheckedUpTo
<1>5. CASE l = loop
  <2>1. Analysed(l)'
    <3>1. CASE pass' = "use" BY <1>0, <1>1, <1>5, <3>1 DEF Analysed
    <3>2. CASE pass' = "replace" BY <3>2 DEF Analysed
    <3> QED BY <1>0, <3>1, <3>2
  <2> QED BY <1>3, <1>5, <2>1 DEF UsedUpTo, CheckedUpTo
<1>6. CASE l > loop
  <2>1. pass' = "use" /\ loop' = loop + 1 /\ cursor' = loop + 1
    BY <1>0, <1>1, <1>6
  <2>2. ~Analysed(l) /\ ~Analysed(l)'
    <3>1. ~(l < loop) /\ ~(l < loop') BY <1>1, <1>6, <2>1
    <3>2. ~Analysed(l) BY <3>1 DEF Analysed
    <3>3. ~Analysed(l)' BY <2>1, <3>1 DEF Analysed
    <3> QED BY <3>2, <3>3
  <2>3. ~UsedUpTo(l, m) /\ ~CheckedUpTo(l, m)
    BY <1>1, <1>6, <2>2 DEF UsedUpTo, CheckedUpTo
  <2>4. ~UsedUpTo(l, m)' /\ ~CheckedUpTo(l, m)'
    <3>1. m \in Sub(l) => ~(l = loop' /\ m < cursor')
      BY <1>1, <1>2, <2>1
    <3> QED BY <1>3, <2>1, <2>2, <3>1 DEF UsedUpTo, CheckedUpTo
  <2> QED BY <1>1, <1>6, <2>3, <2>4
<1> QED BY <1>1, <1>4, <1>5, <1>6

\* A step of VarUseIdentifier finds the variables it looks for and adds the
\* indices of one more node.
LEMMA UseStep ==
  ASSUME TypeOK, SelectInv, VarSetsExact, IndexInv, Use PROVE IndexInv'
<1>0. /\ pass = "use" /\ cursor \in Sub(loop) /\ loop \in chosen /\ UNCHANGED <<program, varsets>>
      /\ chosen' = chosen /\ Loops' = Loops /\ Wanted' = Wanted
  BY Frame DEF Use, StartCheck, InTraversal, labelling
<1>1. loop \in Wanted /\ loop \in Nodes /\ cursor \in Nodes /\ label[cursor].arr \in Arrays
  BY <1>0, LabelType DEF SelectInv, Early, TypeOK
<1>2. cursor \in Loops \/ Mentions(cursor) => Found(label[cursor].var)
  <2> SUFFICES ASSUME cursor \in Loops \/ Mentions(cursor) PROVE Found(label[cursor].var)
    OBVIOUS
  <2> DEFINE v == label[cursor].var
  <2>1. v \in Vars
    BY LabelType DEF Mentions
  <2>2. /\ IF induction[loop][v] = 0
             THEN \A d \in Loops \cap Sub(loop) : label[d].var # v
             ELSE induction[loop][v] \in Loops \cap Sub(loop)
        /\ v \in used[loop] <=>
             \E m \in Sub(loop) : /\ Mentions(m) /\ label[m].var = v
                                  /\ \A d \in Loops \cap Sub(loop) : label[d].var = v => m < d
    BY <1>0, <1>1, <2>1 DEF VarSetsExact
  <2> QED BY <1>0, <2>2 DEF Found
<1>3. /\ index' = [index EXCEPT ![loop][label[cursor].arr] = @ \cup Indices(cursor)]
      /\ IF LastOfLoop THEN StartCheck ELSE NextNode
  BY <1>2 DEF Use, StartCheck
<1>4. /\ loop' = loop
      /\ \/ pass' = "check" /\ cursor' = loop /\ cursor = last[loop]
         \/ pass' = "use" /\ cursor' = cursor + 1
  BY <1>0, <1>3 DEF LastOfLoop, NextNode, StartCheck
<1>5. \A l : \A m : (m \in Sub(l))' <=> m \in Sub(l)
  BY <1>0, Frame
<1>6. loop \in Int /\ cursor \in Int /\ \A m \in Sub(loop) : m \in Int /\ loop <= m /\ m <= last[loop]
  BY <1>1 DEF Nodes, Sub
<1>7. ASSUME NEW l \in Nodes, l # loop, NEW m
      PROVE  /\ UsedUpTo(l, m)' <=> UsedUpTo(l, m)
             /\ CheckedUpTo(l, m)' <=> CheckedUpTo(l, m)
  <2>1. Analysed(l) <=> l < loop
    BY <1>0 DEF Analysed
  <2>2. Analysed(l)' <=> l < loop
    BY <1>4 DEF Analysed
  <2> QED BY <1>0, <1>4, <1>5, <1>7, <2>1, <2>2 DEF UsedUpTo, CheckedUpTo
<1>8. ~Analysed(loop) /\ \A l : l = loop => ~Analysed(l)'
  <2>1. ~(loop < loop)
    BY <1>6
  <2>2. ~Analysed(loop)
    BY <1>0, <2>1 DEF Analysed
  <2>3. ASSUME NEW l, l = loop PROVE ~Analysed(l)'
    <3>1. ~(l < loop') BY <1>4, <2>1, <2>3
    <3>2. CASE pass' = "check" BY <3>1, <3>2 DEF Analysed
    <3>3. CASE pass' = "use" BY <3>1, <3>3 DEF Analysed
    <3> QED BY <1>4, <3>2, <3>3
  <2> QED BY <2>2, <2>3
<1>9. \A m : UsedUpTo(loop, m) <=> m \in Sub(loop) /\ m < cursor
  BY <1>0, <1>8 DEF UsedUpTo
<1>10. \A l : l = loop => \A m : UsedUpTo(l, m)' <=> UsedUpTo(l, m) \/ m = cursor
  <2> SUFFICES ASSUME NEW l, l = loop, NEW m PROVE UsedUpTo(l, m)' <=> UsedUpTo(l, m) \/ m = cursor
    OBVIOUS
  <2>1. CASE pass' = "check"
    <3>1. UsedUpTo(l, m)' <=> m \in Sub(loop)
      BY <1>4, <1>5, <2>1 DEF UsedUpTo
    <3>2. m \in Sub(loop) => m < cursor \/ m = cursor
      BY <1>4, <1>6, <2>1
    <3> QED BY <1>0, <1>9, <3>1, <3>2
  <2>2. CASE pass' = "use"
    <3>1. UsedUpTo(l, m)' <=> m \in Sub(loop) /\ m < cursor + 1
      BY <1>4, <1>5, <1>8, <2>2 DEF UsedUpTo
    <3>2. m \in Sub(loop) => (m < cursor + 1 <=> m < cursor \/ m = cursor)
      BY <1>6
    <3> QED BY <1>0, <1>9, <3>1, <3>2
  <2> QED BY <1>4, <2>1, <2>2
<1>11. \A l : l = loop => \A m : ~CheckedUpTo(l, m) /\ ~CheckedUpTo(l, m)'
  <2> SUFFICES ASSUME NEW l, l = loop, NEW m PROVE ~CheckedUpTo(l, m) /\ ~CheckedUpTo(l, m)'
    OBVIOUS
  <2>1. ~CheckedUpTo(l, m)
    BY <1>0, <1>8 DEF CheckedUpTo
  <2>2. ~CheckedUpTo(l, m)'
    BY <1>4, <1>5, <1>6, <1>8 DEF CheckedUpTo
  <2> QED BY <2>1, <2>2
<1>12. /\ label' = label /\ used' = used /\ induction' = induction
       /\ \A m : Stores(m)' = Stores(m)
       /\ \A l, v : Usable(l, v)' = Usable(l, v)
  BY <1>0 DEF program, varsets, Stores, Usable
<1>13. ASSUME NEW l \in Wanted PROVE ChosenOK(l)' /\ \A a \in Arrays : \A v : IndexOK(l, a, v)'
  <2>0. l \in Nodes /\ ChosenOK(l) /\ \A a \in Arrays : \A v : IndexOK(l, a, v)
    BY <1>0, WantedNodes DEF IndexInv, Early
  <2>1. CASE l # loop
    <3>1. index'[l] = index[l]
      BY <1>1, <1>3, <2>0, <2>1 DEF TypeOK
    <3>2. \A m : UsedUpTo(l, m)' <=> UsedUpTo(l, m)
      BY <1>7, <2>0, <2>1
    <3>3. \A m : CheckedUpTo(l, m)' <=> CheckedUpTo(l, m)
      BY <1>7, <2>0, <2>1
    <3> QED BY <1>0, <2>0, <3>1, <3>2, <3>3, IndexFrame
  <2>2. CASE l = loop
    <3>1. ChosenOK(l)'
      BY <1>0, <1>11, <2>2 DEF ChosenOK
    <3>2. ASSUME NEW a \in Arrays, NEW v PROVE IndexOK(l, a, v)'
      <4>1. v \in index'[l][a] <=>
              v \in index[l][a] \/ (a = label[cursor].arr /\ v \in Indices(cursor))
        <5>1. index \in [Nodes -> [Arrays -> SUBSET (Vars \cup {Literal})]]
          BY DEF TypeOK
        <5> QED BY <1>1, <1>3, <2>0, <2>2, <5>1
      <4>2. v \in Indices(cursor) <=> /\ Stores(cursor) /\ label[cursor].var = v
                                      /\ Usable(l, v)
        BY <2>2 DEF Indices, Usable, FoundInduction
      <4> QED BY <1>1, <1>10, <1>12, <2>0, <2>2, <4>1, <4>2 DEF IndexOK
    <3> QED BY <3>1, <3>2
  <2> QED BY <2>1, <2>2
<1> QED
  BY <1>0, <1>1, <1>4, <1>13 DEF IndexInv, AssertionsHold, Early

\* A step of ArrayIndexChecker withdraws its loop for the node it is at, if at all.
LEMMA CheckStep ==
  ASSUME TypeOK, SelectInv, IndexInv, Check PROVE IndexInv'
<1>0. /\ pass = "check" /\ cursor \in Sub(loop) /\ UNCHANGED <<program, varsets, index>>
      /\ Loops' = Loops /\ Wanted' = Wanted /\ loop \in Wanted
  BY Frame DEF Check, InTraversal, IndexInv
<1>1. loop \in Nodes /\ cursor \in Nodes /\ label[cursor].arr \in Arrays
  BY LabelType DEF TypeOK
<1>2. chosen' = IF Stores(cursor) /\ index[loop][label[cursor].arr] = {}
                  THEN chosen \ {loop} ELSE chosen
  BY DEF Check
<1>3. \A l : \A m : (m \in Sub(l))' <=> m \in Sub(l)
  BY <1>0, Frame
<1>4. loop \in Int /\ cursor \in Int /\ \A m \in Sub(loop) : m \in Int /\ loop <= m /\ m <= last[loop]
  BY <1>1 DEF Nodes, Sub
<1>5. ~Analysed(loop)
  BY <1>0, <1>4 DEF Analysed
<1>6. \A m : /\ UsedUpTo(loop, m) <=> m \in Sub(loop)
             /\ CheckedUpTo(loop, m) <=> m \in Sub(loop) /\ m < cursor
  BY <1>0, <1>5 DEF UsedUpTo, CheckedUpTo
<1>7. ASSUME NEW l \in Nodes
      PROVE  /\ l # loop => \A m : /\ UsedUpTo(l, m)' <=> UsedUpTo(l, m)
                                   /\ CheckedUpTo(l, m)' <=> CheckedUpTo(l, m)
             /\ l = loop => \A m : /\ UsedUpTo(l, m)' <=> UsedUpTo(l, m)
                                   /\ CheckedUpTo(l, m)' <=> CheckedUpTo(l, m) \/ m = cursor
  <2>1. CASE LastOfLoop
    <3>1. NextLoop("use", "replace")
      BY <2>1 DEF Check
    <3>2. \A m \in Sub(loop) : m < cursor \/ m = cursor
      BY <1>4, <2>1 DEF LastOfLoop
    <3>3. UNCHANGED program BY <1>0
    <3>4. /\ l # loop => \A m : /\ UsedUpTo(l, m)' <=> UsedUpTo(l, m)
                                /\ CheckedUpTo(l, m)' <=> CheckedUpTo(l, m)
          /\ l = loop => \A m : /\ UsedUpTo(l, m)' <=> m \in Sub(l)
                                /\ CheckedUpTo(l, m)' <=> m \in Sub(l)
      BY <1>0, <3>1, <3>3, EndOfLoop
    <3> QED BY <1>0, <1>6, <3>2, <3>4
  <2>2. CASE ~LastOfLoop
    <3>1. cursor' = cursor + 1 /\ pass' = pass /\ loop' = loop
      BY <2>2 DEF Check, NextNode
    <3>2. \A m : UsedUpTo(l, m)' <=> UsedUpTo(l, m)
      BY <1>0, <1>3, <3>1 DEF UsedUpTo, Analysed
    <3>3. l # loop => \A m : CheckedUpTo(l, m)' <=> CheckedUpTo(l, m)
      BY <1>0, <1>3, <3>1 DEF CheckedUpTo, Analysed
    <3>4. ASSUME l = loop, NEW m PROVE CheckedUpTo(l, m)' <=> CheckedUpTo(l, m) \/ m = cursor
      <4>1. ~Analysed(l)'
        BY <1>0, <1>4, <3>1, <3>4 DEF Analysed
      <4>2. CheckedUpTo(l, m)' <=> m \in Sub(loop) /\ m < cursor + 1
        BY <1>0, <1>3, <3>1, <3>4, <4>1 DEF CheckedUpTo
      <4>3. m \in Sub(loop) => (m < cursor + 1 <=> m < cursor \/ m = cursor)
        BY <1>4
      <4> QED BY <1>0, <1>6, <3>4, <4>2, <4>3
    <3> QED BY <3>2, <3>3, <3>4
  <2> QED BY <2>1, <2>2
<1>8. ASSUME NEW l \in Wanted PROVE ChosenOK(l)' /\ \A a \in Arrays : \A v : IndexOK(l, a, v)'
  <2>0. /\ l \in Nodes /\ ChosenOK(l) /\ \A a \in Arrays : \A v : IndexOK(l, a, v)
        /\ UNCHANGED <<program, varsets>> /\ index'[l] = index[l]
    BY <1>0, WantedNodes DEF IndexInv, Early
  <2>1. CASE l # loop
    <3>1. l \in chosen' <=> l \in chosen
      BY <1>2, <2>1
    <3>2. /\ \A m : UsedUpTo(l, m)' <=> UsedUpTo(l, m)
          /\ \A m : CheckedUpTo(l, m)' <=> CheckedUpTo(l, m)
      BY <1>7, <2>0, <2>1
    <3> QED BY <2>0, <3>1, <3>2, IndexFrame
  <2>2. CASE l = loop
    <3>0. /\ label' = label /\ index' = index /\ \A m : Stores(m)' = Stores(m)
          /\ \A v : Usable(l, v)' = Usable(l, v)
      BY <1>0 DEF program, varsets, Stores, Usable
    <3>1. \A m : UsedUpTo(l, m)' <=> UsedUpTo(l, m)
      BY <1>7, <2>0, <2>2
    <3>2. \A a \in Arrays : \A v : IndexOK(l, a, v)'
      BY <2>0, <3>0, <3>1 DEF IndexOK
    <3>3. \A m : CheckedUpTo(l, m)' <=> CheckedUpTo(l, m) \/ m = cursor
      BY <1>7, <2>0, <2>2
    <3>4. l \in chosen' <=> l \in chosen /\ ~(Stores(cursor) /\ index[l][label[cursor].arr] = {})
      BY <1>2, <2>2
    <3>5. ChosenOK(l)'
      BY <1>1, <2>0, <3>0, <3>3, <3>4 DEF ChosenOK
    <3> QED BY <3>2, <3>5
  <2> QED BY <2>1, <2>2
<1>9. pass' \in {"check", "use", "replace"} /\ (pass' = "check" => loop' = loop)
  BY <1>0 DEF Check, NextLoop, NextNode
<1> QED
  BY <1>0, <1>8, <1>9 DEF IndexInv, AssertionsHold, Early

\* The first loop's turn comes: nothing has been found yet.
LEMMA StartOfUse ==
  ASSUME TypeOK, SelectInv, IndexInv, pass = "identify", NextLoop("identify", "use"),
         UNCHANGED <<program, index, chosen>>
  PROVE  IndexInv'
<1>1. CASE pass' = "identify"
  BY <1>1 DEF IndexInv, AssertionsHold, Early
<1>2. CASE pass' = "use" /\ loop' = 1 /\ cursor' = 1
  <2>1. Wanted' = Wanted /\ Wanted \subseteq Nodes /\ \A l, m : (m \in Sub(l))' <=> m \in Sub(l)
    BY Frame, WantedNodes
  <2>2. ASSUME NEW l \in Wanted PROVE ChosenOK(l)' /\ \A a \in Arrays : \A v : IndexOK(l, a, v)'
    <3>1. l \in Nodes /\ l \in Int /\ 1 <= l /\ \A m \in Sub(l) : m \in Int /\ 1 <= m
      BY <2>1, Nesting DEF Nodes
    <3>2. ~Analysed(l)'
      <4>1. ~(l < loop') BY <1>2, <3>1
      <4> QED BY <1>2, <4>1 DEF Analysed
    <3>3. \A m : ~UsedUpTo(l, m)' /\ ~CheckedUpTo(l, m)'
      <4> TAKE m
      <4>1. m \in Sub(l) => ~(m < cursor') BY <1>2, <3>1
      <4> QED BY <1>2, <2>1, <3>2, <4>1 DEF UsedUpTo, CheckedUpTo
    <3>4. l \in chosen' /\ \A a \in Arrays : index'[l][a] = {}
      BY <3>1 DEF SelectInv, IndexInv
    <3> QED BY <3>3, <3>4 DEF ChosenOK, IndexOK
  <2> QED BY <1>2, <2>1, <2>2 DEF IndexInv, AssertionsHold, Early
<1> QED BY <1>1, <1>2 DEF NextLoop

\* Once every loop has been analysed nothing changes but the pass.
LEMMA Finishing ==
  ASSUME TypeOK, IndexInv, pass = "replace", pass' \in {"replace", "done", "nyi"},
         UNCHANGED <<program, varsets, index, chosen>>
  PROVE  IndexInv'
<1>1. Wanted' = Wanted /\ \A l, m : (m \in Sub(l))' <=> m \in Sub(l)
  BY Frame
<1>2. \A l : Analysed(l) /\ Analysed(l)'
  BY DEF Analysed
<1>3. \A l, m : /\ UsedUpTo(l, m)' <=> UsedUpTo(l, m)
                /\ CheckedUpTo(l, m)' <=> CheckedUpTo(l, m)
  BY <1>1, <1>2 DEF UsedUpTo, CheckedUpTo
<1>4. ASSUME NEW l \in Wanted PROVE ChosenOK(l)' /\ \A a \in Arrays : \A v : IndexOK(l, a, v)'
  <2>1. ChosenOK(l) /\ \A a \in Arrays : \A v : IndexOK(l, a, v)
    BY DEF IndexInv, Early
  <2> QED BY <1>3, <2>1, IndexFrame
<1> QED BY <1>1, <1>4 DEF IndexInv, AssertionsHold, Early

\* The index sets hold what the stores visited give, and a loop is chosen as long
\* as every store checked has an index (LoopVarAnalyzer.cpp:48-142).
THEOREM Indexing == Spec => []IndexInv
<1>1. Init => IndexInv
  BY DEF Init, IndexInv, AssertionsHold, Early
<1>2. TypeOK /\ SelectInv /\ VarInv /\ IndexInv /\ [Next]_vars => IndexInv'
  <2> SUFFICES ASSUME TypeOK, SelectInv, VarInv, IndexInv, [Next]_vars PROVE IndexInv'
    OBVIOUS
  <2>1. ASSUME pass \in Early \cup {"identify"}, pass' \in Early \cup {"identify"},
               UNCHANGED index
        PROVE  IndexInv'
    BY <2>1 DEF IndexInv, AssertionsHold, Early
  <2>2. CASE Depth \/ Visit \/ EndFlags \/ Label \/ Undo
    BY <2>1, <2>2 DEF Depth, Visit, EndFlags, Label, Undo, Advance, Early
  <2>3. CASE Skip
    <3>0. UNCHANGED <<program, varsets, index, chosen>> /\ loop \notin chosen
      BY <2>3 DEF Skip, labelling
    <3>1. CASE pass = "identify"
      BY <2>3, <3>0, <3>1, StartOfUse DEF Skip
    <3>2. CASE pass = "use"
      <4>1. NextLoop("use", "replace") /\ pass' \in {"use", "replace"}
        BY <2>3, <3>2 DEF Skip, NextLoop
      <4>2. Wanted' = Wanted /\ Wanted \subseteq Nodes
        BY <3>0, Frame, WantedNodes
      <4>3. \A l \in Wanted : l # loop
        <5> SUFFICES ASSUME loop \in Wanted PROVE FALSE
          OBVIOUS
        <5>1. ~(loop < loop) BY <4>2 DEF Nodes
        <5>2. \A m : ~CheckedUpTo(loop, m) BY <3>2, <5>1 DEF CheckedUpTo, Analysed
        <5>3. ChosenOK(loop) BY <3>2 DEF IndexInv, Early
        <5> QED BY <3>0, <5>2, <5>3 DEF ChosenOK
      <4>4. ASSUME NEW l \in Wanted
            PROVE  ChosenOK(l)' /\ \A a \in Arrays : \A v : IndexOK(l, a, v)'
        <5>1. l \in Nodes /\ l # loop /\ ChosenOK(l) /\ \A a \in Arrays : \A v : IndexOK(l, a, v)
          BY <3>2, <4>2, <4>3 DEF IndexInv, Early
        <5>2. \A m : /\ UsedUpTo(l, m)' <=> UsedUpTo(l, m)
                     /\ CheckedUpTo(l, m)' <=> CheckedUpTo(l, m)
          BY <3>0, <3>2, <4>1, <5>1, EndOfLoop
        <5> QED BY <3>0, <5>1, <5>2, IndexFrame
      <4> QED BY <4>1, <4>2, <4>4 DEF IndexInv, AssertionsHold, Early
    <3>3. CASE pass = "replace"
      BY <2>3, <3>0, <3>3, Finishing DEF Skip, NextLoop
    <3> QED BY <2>3, <3>1, <3>2, <3>3 DEF Skip
  <2>4. CASE Identify
    <3>1. pass = "identify" /\ UNCHANGED <<program, index, chosen>>
      BY <2>4 DEF Identify, InTraversal, labelling
    <3>2. CASE LastOfLoop BY <2>4, <3>1, <3>2, StartOfUse DEF Identify
    <3>3. CASE ~LastOfLoop BY <2>1, <2>4, <3>1, <3>3 DEF Identify, NextNode
    <3> QED BY <3>2, <3>3
  <2>5. CASE Use BY <2>5, VarSets, UseStep
  <2>6. CASE Check BY <2>6, CheckStep
  <2>7. CASE Replace
    <3>1. pass = "replace" /\ loop \in chosen /\ UNCHANGED <<program, varsets, index, chosen>>
      BY <2>7 DEF Replace, labelling
    <3>2. ASSUME NEW a \in Written(loop) PROVE index[loop][a] # {}
      <4>1. PICK m \in Sub(loop) : Stores(m) /\ label[m].arr = a
        BY DEF Written
      <4>2. loop \in Wanted
        BY <3>1 DEF SelectInv, Early
      <4>3. m \in Nodes /\ CheckedUpTo(loop, m)
        BY <3>1, <4>2, WantedNodes, Nesting DEF CheckedUpTo, Analysed
      <4> QED BY <3>1, <4>1, <4>2, <4>3 DEF IndexInv, ChosenOK, Early
    <3>3. pass' \in {"replace", "done", "nyi"}
      BY <2>7, <3>2 DEF Replace, NextLoop
    <3> QED BY <3>1, <3>3, Finishing
  <2>8. CASE UNCHANGED vars
    <3>1. /\ UNCHANGED <<program, varsets, index, chosen>>
          /\ pass' = pass /\ loop' = loop /\ cursor' = cursor
      BY <2>8 DEF vars, labelling
    <3>2. Wanted' = Wanted /\ \A l, m : (m \in Sub(l))' <=> m \in Sub(l)
      BY <3>1, Frame
    <3>3. \A l : Analysed(l)' <=> Analysed(l)
      BY <3>1 DEF Analysed
    <3>4. \A l, m : /\ UsedUpTo(l, m)' <=> UsedUpTo(l, m)
                    /\ CheckedUpTo(l, m)' <=> CheckedUpTo(l, m)
      BY <3>1, <3>2, <3>3 DEF UsedUpTo, CheckedUpTo
    <3>5. ASSUME pass \notin Early \cup {"identify"}, NEW l \in Wanted
          PROVE  ChosenOK(l)' /\ \A a \in Arrays : \A v : IndexOK(l, a, v)'
      <4>1. ChosenOK(l) /\ \A a \in Arrays : \A v : IndexOK(l, a, v)
        BY <3>5 DEF IndexInv
      <4> QED BY <3>1, <3>4, <4>1, IndexFrame
    <3> QED BY <3>1, <3>2, <3>5 DEF IndexInv, AssertionsHold, Early
  <2> QED BY <2>2, <2>3, <2>4, <2>5, <2>6, <2>7, <2>8 DEF Next
<1> QED BY <1>1, <1>2, Typing, Selecting, Variables, PTL DEF Spec

\* The two assertions of the front end never fire.
THEOREM Asserted == Spec => []AssertionsHold
<1>1. IndexInv => AssertionsHold
  BY DEF IndexInv
<1> QED BY <1>1, Indexing, PTL

\* findVar takes v for an induction variable exactly when a DO mentions it first.
LEMMA Usability ==
  ASSUME TypeOK, VarSetsExact, pass \notin Early \cup {"identify"},
         NEW l \in Wanted, NEW v \in Vars \cup {Literal}
  PROVE  Usable(l, v) <=> v = Literal \/ \E d \in Nodes : Inducts(l, d, v)
<1> SUFFICES ASSUME v # Literal
             PROVE  Usable(l, v) <=> \E d \in Nodes : Inducts(l, d, v)
  BY DEF Usable
<1>1. v \in Vars
  OBVIOUS
<1>2. IF induction[l][v] = 0
        THEN \A d \in Loops \cap Sub(l) : label[d].var # v
        ELSE /\ induction[l][v] \in Loops \cap Sub(l)
             /\ label[induction[l][v]].var = v
             /\ \A d \in Loops \cap Sub(l) : label[d].var = v => induction[l][v] <= d
  BY <1>1 DEF VarSetsExact, Early
<1>3. v \in used[l] <=>
        \E m \in Sub(l) : /\ Mentions(m) /\ label[m].var = v
                          /\ \A d \in Loops \cap Sub(l) : label[d].var = v => m < d
  BY <1>1 DEF VarSetsExact, Early
<1>4. \A m \in Sub(l) : m \in Int
  BY DEF Sub
<1>5. ASSUME Usable(l, v) PROVE \E d \in Nodes : Inducts(l, d, v)
  <2> DEFINE d == induction[l][v]
  <2>1. d # 0 /\ v \notin used[l]
    BY <1>5 DEF Usable
  <2>2. d \in Loops \cap Sub(l) /\ label[d].var = v /\ d \in Nodes
    BY <1>2, <2>1, LabelType
  <2>3. ASSUME NEW m \in Sub(l), m < d, m \in Loops \/ Mentions(m), label[m].var = v
        PROVE  FALSE
    <3>1. CASE m \in Loops
      <4>1. d <= m BY <1>2, <2>1, <2>3, <3>1
      <4> QED BY <1>4, <2>2, <2>3, <4>1
    <3>2. CASE Mentions(m)
      <4>1. \A e \in Loops \cap Sub(l) : label[e].var = v => d <= e
        BY <1>2, <2>1
      <4>2. \A e \in Loops \cap Sub(l) : label[e].var = v => m < e
        BY <1>4, <2>2, <2>3, <4>1
      <4> QED BY <1>3, <2>1, <2>3, <3>2, <4>2
    <3> QED BY <2>3, <3>1, <3>2
  <2>4. Inducts(l, d, v)
    BY <2>2, <2>3 DEF Inducts
  <2> QED BY <2>2, <2>4
<1>6. ASSUME NEW d \in Nodes, Inducts(l, d, v) PROVE Usable(l, v)
  <2>1. /\ d \in Loops \cap Sub(l) /\ label[d].var = v
        /\ \A m \in Sub(l) : m < d /\ (m \in Loops \/ Mentions(m)) => label[m].var # v
    BY <1>6 DEF Inducts
  <2>2. induction[l][v] # 0
    BY <1>2, <2>1
  <2>3. v \notin used[l]
    BY <1>3, <2>1
  <2> QED BY <2>2, <2>3 DEF Usable
<1> QED BY <1>5, <1>6

\* Selection is exact: the loops labelled are those wanted, and the loops still
\* transformable when they are replaced are those of them whose stores can be
\* indexed.
THEOREM SelectionHolds == Spec => []SelectionExact
<1>1. TypeOK /\ SelectInv /\ VarInv /\ IndexInv => SelectionExact
  <2> SUFFICES ASSUME TypeOK, SelectInv, VarSetsExact, IndexInv PROVE SelectionExact
    BY VarSets
  <2>1. chosen \subseteq Nodes /\ Wanted \subseteq Nodes
    BY WantedNodes, LabelType DEF TypeOK
  <2>2. pass = "identify" => chosen = Wanted
    BY <2>1 DEF SelectInv
  <2>3. ASSUME pass \in {"replace", "done", "no index", "nyi"} PROVE chosen = Kept
    <3>0. chosen \subseteq Wanted /\ pass \notin Early \cup {"identify"}
      BY <2>3 DEF SelectInv, Early
    <3>1. ASSUME NEW l \in Wanted PROVE l \in chosen <=> l \in Kept
      <4>1. ChosenOK(l) /\ \A a \in Arrays : \A v : IndexOK(l, a, v)
        BY <3>0 DEF IndexInv
      <4>2. \A m : /\ UsedUpTo(l, m) <=> m \in Sub(l)
                   /\ CheckedUpTo(l, m) <=> m \in Sub(l)
        BY <2>3 DEF UsedUpTo, CheckedUpTo, Analysed
      <4>3. \A m \in Sub(l) : /\ m \in Nodes /\ label[m].arr \in Arrays
                              /\ label[m].var \in Vars \cup {Literal}
        BY <2>1, Nesting, LabelType
      <4>4. \A m \in Sub(l) : Anchored(l, m) <=> Stores(m) /\ Usable(l, label[m].var)
        BY <3>0, <4>3, Usability DEF Anchored
      <4>5. ASSUME NEW a \in Arrays
            PROVE  index[l][a] # {} <=> \E m \in Sub(l) : label[m].arr = a /\ Anchored(l, m)
        <5>1. \A v : v \in index[l][a] <=>
                \E m \in Sub(l) : Stores(m) /\ label[m].arr = a /\ label[m].var = v
                                  /\ Usable(l, v)
          BY <4>1, <4>2, <4>3 DEF IndexOK
        <5>2. index[l][a] # {} <=> \E v : v \in index[l][a]
          OBVIOUS
        <5> QED BY <4>4, <5>1, <5>2
      <4>6. l \in chosen <=> \A n \in Sub(l) : Stores(n) => index[l][label[n].arr] # {}
        BY <4>1, <4>2, <4>3 DEF ChosenOK
      <4>7. l \in chosen <=> \A n \in Sub(l) : Stores(n) =>
              \E m \in Sub(l) : label[m].arr = label[n].arr /\ Anchored(l, m)
        BY <4>3, <4>5, <4>6
      <4> QED BY <4>7 DEF Kept
    <3>2. Kept \subseteq Wanted
      BY DEF Kept
    <3> QED BY <3>0, <3>1, <3>2
  <2> QED BY <2>2, <2>3 DEF SelectionExact
<1> QED BY <1>1, Typing, Selecting, Variables, Indexing, PTL
=============================================================================
