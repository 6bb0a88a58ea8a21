------------------------------ MODULE AbiProofs ------------------------------
(* Theorems about HalideBackend: about Abi, for any set of variables with any *)
(* names, and about Resugar, for loop nests of any depth, any elements and    *)
(* any strides.                                                               *)
EXTENDS HalideBackend, FiniteSetTheorems, Induction, TLAPS

Meta ==
  {Entry(v, v.mode = "output") : v \in used} \cup {Entry(v, TRUE) : v \in {u \in used : u.mode = "inout"}}
PassedArgs ==
  GlueOrder(Reads({"array"})) \o GlueOrder(Reads({"scalar"}))
    \o GlueOrder(Writes({"array"})) \o GlueOrder(Writes({"scalar"}))
DeclaredArgs ==
  KernelOrder(KernelInputs) \o KernelOrder(KernelScalars) \o KernelOrder(Outputs)

IInv ==
  /\ used \in Programs
  /\ stage \in {"translate", "glue", "backend", "linked"}
  /\ stage # "translate" => meta = Meta
  /\ stage \in {"backend", "linked"} => glueArgs = PassedArgs
  /\ stage = "linked" => kernelArgs = DeclaredArgs

-------------------------------------------------------------------------------
(* Orders of names. *)

LEMMA SuffixedText ==
  ASSUME NEW p \in Seq(Nat), NEW s \in Seq(Nat)
  PROVE  /\ p \o s \in Seq(Nat) /\ Len(p \o s) = Len(p) + Len(s)
         /\ \A k \in 1..Len(p) : (p \o s)[k] = p[k]
         /\ \A k \in Len(p) + 1..Len(p) + Len(s) : (p \o s)[k] = s[k - Len(p)]
OBVIOUS

(* A colon at their ends does not change the order of two names, unless one   *)
(* goes on with a character before the colon where the other ends.            *)
LEMMA ColonOrder ==
  ASSUME NEW p \in Seq(Nat), NEW q \in Seq(Nat),
         Proper(p, q) => q[Len(p) + 1] > Colon,
         Proper(q, p) => p[Len(q) + 1] > Colon,
         \A k \in DOMAIN p : p[k] # Colon, \A k \in DOMAIN q : q[k] # Colon
  PROVE  Less(p \o <<Colon>>, q \o <<Colon>>) <=> Less(p, q)
<1> DEFINE pc == p \o <<Colon>>
           qc == q \o <<Colon>>
<1>1. /\ Len(p) \in Nat /\ Len(q) \in Nat
      /\ \A k \in 1..Len(p) : p[k] \in Nat /\ p[k] # Colon
      /\ \A k \in 1..Len(q) : q[k] \in Nat /\ q[k] # Colon
  OBVIOUS
<1>2. /\ Len(pc) = Len(p) + 1 /\ Len(qc) = Len(q) + 1
      /\ \A k \in 1..Len(p) : pc[k] = p[k]
      /\ \A k \in 1..Len(q) : qc[k] = q[k]
      /\ pc[Len(p) + 1] = Colon /\ qc[Len(q) + 1] = Colon
  BY DEF Colon
<1> HIDE DEF pc, qc
<1>3. ASSUME NEW k \in 1..Len(q), \A j \in 1..k - 1 : j <= Len(p) /\ p[j] = q[j],
             k > Len(p) \/ p[k] < q[k]
      PROVE  Less(pc, qc)
  <2>1. k \in 1..Len(qc) /\ qc[k] = q[k]
    BY <1>1, <1>2
  <2>2. \A j \in 1..k - 1 : j <= Len(pc) /\ pc[j] = qc[j]
    <3> TAKE j \in 1..k - 1
    <3>1. j \in 1..Len(p) /\ j \in 1..Len(q) /\ p[j] = q[j]
      BY <1>1, <1>3
    <3> QED BY <3>1, <1>1, <1>2
  <2>3. pc[k] < qc[k]
    <3>1. CASE k <= Len(p)
      BY <1>1, <1>2, <1>3, <2>1, <3>1
    <3>2. CASE k > Len(p)
      <4>1. k = Len(p) + 1
        <5>1. ~(k - 1 > Len(p))
          BY <1>1, <1>3
        <5> QED BY <5>1, <1>1, <3>2
      <4>2. Proper(p, q)
        BY <1>1, <1>3, <4>1 DEF Proper
      <4> QED BY <1>1, <1>2, <2>1, <4>1, <4>2 DEF Colon
    <3> QED BY <1>1, <3>1, <3>2
  <2> QED BY <2>1, <2>2, <2>3 DEF Less
<1>4. ASSUME NEW k \in 1..Len(qc), \A j \in 1..k - 1 : j <= Len(pc) /\ pc[j] = qc[j],
             k > Len(pc) \/ pc[k] < qc[k]
      PROVE  Less(p, q)
  <2>1. CASE k <= Len(q) /\ k <= Len(p)
    <3>1. p[k] < q[k]
      BY <1>1, <1>2, <1>4, <2>1
    <3>2. \A j \in 1..k - 1 : j <= Len(p) /\ p[j] = q[j]
      <4> TAKE j \in 1..k - 1
      <4>1. j \in 1..Len(p) /\ j \in 1..Len(q) /\ pc[j] = qc[j]
        BY <1>1, <1>4, <2>1
      <4> QED BY <4>1, <1>1, <1>2
    <3>3. k \in 1..Len(q)
      BY <1>1, <1>4, <2>1
    <3> QED BY <3>1, <3>2, <3>3 DEF Less
  <2>2. CASE k <= Len(q) /\ k > Len(p)
    <3>1. \A j \in 1..Len(p) : p[j] = q[j]
      <4> TAKE j \in 1..Len(p)
      <4>1. j \in 1..Len(q) /\ j \in 1..k - 1 /\ pc[j] = qc[j]
        BY <1>1, <1>4, <2>2
      <4> QED BY <4>1, <1>1, <1>2
    <3>2. Len(p) + 1 \in 1..Len(q)
      BY <1>1, <1>2, <2>2
    <3>3. \A j \in 1..(Len(p) + 1) - 1 : j <= Len(p) /\ p[j] = q[j]
      BY <3>1, <1>1
    <3>4. Len(p) + 1 > Len(p)
      BY <1>1
    <3> QED BY <3>2, <3>3, <3>4 DEF Less
  <2>3. CASE k = Len(q) + 1
    <3>1. \A j \in 1..Len(q) : j <= Len(pc) /\ pc[j] = q[j]
      <4> TAKE j \in 1..Len(q)
      <4>1. j \in 1..k - 1
        BY <1>1, <2>3
      <4> QED BY <4>1, <1>1, <1>2, <1>4
    <3>2. Len(q) <= Len(p)
      <4> SUFFICES ASSUME Len(q) > Len(p) PROVE FALSE
        BY <1>1
      <4>1. Len(p) + 1 \in 1..Len(q)
        BY <1>1
      <4> QED BY <4>1, <3>1, <1>1, <1>2
    <3>3. k <= Len(pc) /\ qc[k] = Colon /\ pc[k] < Colon
      BY <1>1, <1>2, <1>4, <2>3, <3>2
    <3>4. k <= Len(p) /\ pc[k] = p[k]
      BY <1>1, <1>2, <2>3, <3>2, <3>3 DEF Colon
    <3>5. Proper(q, p)
      <4>1. \A j \in 1..Len(q) : q[j] = p[j]
        BY <3>1, <3>2, <1>1, <1>2
      <4> QED BY <4>1, <3>4, <2>3, <1>1 DEF Proper
    <3> QED BY <3>3, <3>4, <3>5, <2>3, <1>1 DEF Colon
  <2>4. k <= Len(q) \/ k = Len(q) + 1
    BY <1>1, <1>2
  <2>5. k <= Len(p) \/ k > Len(p)
    BY <1>1, <1>2
  <2> QED BY <2>1, <2>2, <2>3, <2>4, <2>5
<1>5. Less(pc, qc) => \E k \in 1..Len(qc) : (\A j \in 1..k - 1 : j <= Len(pc) /\ pc[j] = qc[j])
                                             /\ (k > Len(pc) \/ pc[k] < qc[k])
  BY DEF Less
<1>6. Less(p, q) => \E k \in 1..Len(q) : (\A j \in 1..k - 1 : j <= Len(p) /\ p[j] = q[j])
                                           /\ (k > Len(p) \/ p[k] < q[k])
  BY DEF Less
<1> QED BY <1>3, <1>4, <1>5, <1>6 DEF pc, qc

(* No text is before itself. *)
LEMMA LessIrreflexive ==
  ASSUME NEW p \in Seq(Nat)
  PROVE  ~Less(p, p)
<1>1. \A k \in 1..Len(p) : p[k] \in Nat /\ ~(p[k] < p[k]) /\ ~(k > Len(p))
  OBVIOUS
<1> QED BY <1>1 DEF Less

(* Texts of one length with the same characters are equal. *)
LEMMA Extensionality ==
  ASSUME NEW p \in Seq(Nat), NEW q \in Seq(Nat), Len(p) = Len(q),
         \A j \in 1..Len(q) : p[j] = q[j]
  PROVE  p = q
OBVIOUS

(* Nor do suffixes, of which each of the two may have one, unless the name of *)
(* one that has is the beginning of the other name.                           *)
LEMMA SuffixOrder ==
  ASSUME NEW p \in Seq(Nat), NEW q \in Seq(Nat), NEW s \in Seq(Nat), NEW t \in Seq(Nat),
         s # <<>> => ~Proper(p, q),
         t # <<>> => ~Proper(q, p),
         p = q => s = t
  PROVE  Less(p \o s, q \o t) <=> Less(p, q)
<1> DEFINE ps == p \o s
           qt == q \o t
<1>0. Len(p) \in Nat /\ Len(q) \in Nat
  OBVIOUS
<1>1. /\ Len(p) \in Nat /\ Len(q) \in Nat /\ Len(s) \in Nat /\ Len(t) \in Nat
      /\ \A k \in 1..Len(p) : p[k] \in Nat
      /\ \A k \in 1..Len(q) : q[k] \in Nat
      /\ (s = <<>> <=> Len(s) = 0) /\ (t = <<>> <=> Len(t) = 0)
  OBVIOUS
<1>2. /\ Len(ps) = Len(p) + Len(s) /\ Len(qt) = Len(q) + Len(t)
      /\ \A k \in 1..Len(p) : ps[k] = p[k]
      /\ \A k \in 1..Len(q) : qt[k] = q[k]
      /\ ps \in Seq(Nat)
  BY SuffixedText
<1> HIDE DEF ps, qt
<1>3. ASSUME NEW k \in 1..Len(q), \A j \in 1..k - 1 : j <= Len(p) /\ p[j] = q[j],
             k > Len(p) \/ p[k] < q[k]
      PROVE  Less(ps, qt)
  <2>1. k \in 1..Len(qt) /\ qt[k] = q[k]
    BY <1>1, <1>2
  <2>2. \A j \in 1..k - 1 : j <= Len(ps) /\ ps[j] = qt[j]
    <3> TAKE j \in 1..k - 1
    <3>1. j \in 1..Len(p) /\ j \in 1..Len(q) /\ p[j] = q[j]
      BY <1>1, <1>3
    <3> QED BY <3>1, <1>1, <1>2
  <2>3. k > Len(ps) \/ ps[k] < qt[k]
    <3>1. CASE k <= Len(p)
      BY <1>1, <1>2, <1>3, <2>1, <3>1
    <3>2. CASE k > Len(p)
      <4>1. k = Len(p) + 1
        <5>1. k - 1 \in 1..k - 1 => k - 1 <= Len(p)
          BY <1>3
        <5> QED BY ONLY <5>1, <1>0, <3>2, k \in 1..Len(q)
      <4>2. Proper(p, q)
        BY <1>1, <1>3, <4>1 DEF Proper
      <4> QED BY <1>1, <1>2, <4>1, <4>2
    <3> QED BY <1>1, <3>1, <3>2
  <2> QED BY <2>1, <2>2, <2>3 DEF Less
<1>4. ASSUME Proper(p, q)
      PROVE  Less(p, q)
  <2>1. Len(p) + 1 \in 1..Len(q) /\ Len(p) + 1 > Len(p)
    BY ONLY <1>0, <1>4 DEF Proper
  <2>2. \A j \in 1..(Len(p) + 1) - 1 : j <= Len(p) /\ p[j] = q[j]
    BY <1>1, <1>4 DEF Proper
  <2> QED BY <2>1, <2>2 DEF Less
<1>5. ASSUME NEW k \in 1..Len(qt), \A j \in 1..k - 1 : j <= Len(ps) /\ ps[j] = qt[j],
             k > Len(ps) \/ ps[k] < qt[k], p # q
      PROVE  Less(p, q)
  <2>1. \A j \in 1..k - 1 : j <= Len(p) /\ j <= Len(q) => p[j] = q[j]
    <3> TAKE j \in 1..k - 1
    <3> HAVE j <= Len(p) /\ j <= Len(q)
    <3>1. j \in 1..Len(p) /\ j \in 1..Len(q) /\ ps[j] = qt[j]
      BY <1>1, <1>5
    <3> QED BY <3>1, <1>2
  <2>2. CASE k <= Len(q) /\ k <= Len(p)
    <3>1. p[k] < q[k] /\ k \in 1..Len(q)
      BY <1>1, <1>2, <1>5, <2>2
    <3>2. \A j \in 1..k - 1 : j <= Len(p) /\ p[j] = q[j]
      <4> TAKE j \in 1..k - 1
      <4>1. j <= Len(p) /\ j <= Len(q)
        BY ONLY <1>0, <2>2, k \in Int, j \in 1..k - 1
      <4> QED BY <2>1, <4>1
    <3> QED BY <3>1, <3>2 DEF Less
  <2>3. CASE k > Len(p) /\ Len(p) < Len(q)
    <3>1. \A j \in 1..Len(p) : j \in 1..k - 1 /\ j <= Len(p) /\ j <= Len(q)
      BY ONLY <1>0, <2>3, k \in Int
    <3>2. Proper(p, q)
      BY <2>1, <2>3, <3>1 DEF Proper
    <3> QED BY <3>2, <1>4
  <2>4. CASE k > Len(q) /\ Len(q) <= Len(p)
    <3>0. \A j \in 1..Len(q) : j \in 1..k - 1 /\ j <= Len(p) /\ j <= Len(q)
      BY ONLY <1>0, <2>4, k \in Int
    <3>1. \A j \in 1..Len(q) : p[j] = q[j]
      BY <2>1, <3>0
    <3>2. Len(q) # Len(p)
      <4> SUFFICES ASSUME Len(q) = Len(p) PROVE FALSE
        OBVIOUS
      <4>1. p = q
        BY <3>1, Extensionality
      <4> QED BY <4>1, <1>5
    <3>3. Proper(q, p)
      BY <3>1, <3>2, <2>4, <1>1 DEF Proper
    <3>4. Len(t) > 0
      BY <1>1, <1>2, <2>4
    <3> QED BY <3>3, <3>4, <1>1
  <2>5. \/ k <= Len(q) /\ k <= Len(p)
        \/ k > Len(p) /\ Len(p) < Len(q)
        \/ k > Len(q) /\ Len(q) <= Len(p)
    BY ONLY <1>0, k \in Int
  <2> QED BY <2>2, <2>3, <2>4, <2>5
<1>6. Less(ps, qt) => \E k \in 1..Len(qt) : (\A j \in 1..k - 1 : j <= Len(ps) /\ ps[j] = qt[j])
                                             /\ (k > Len(ps) \/ ps[k] < qt[k])
  BY DEF Less
<1>7. Less(p, q) => \E k \in 1..Len(q) : (\A j \in 1..k - 1 : j <= Len(p) /\ p[j] = q[j])
                                           /\ (k > Len(p) \/ p[k] < q[k])
  BY DEF Less
<1>8. p = q => ~Less(ps, qt) /\ ~Less(p, q)
  BY <1>2, LessIrreflexive DEF ps, qt
<1> QED BY <1>3, <1>5, <1>6, <1>7, <1>8 DEF ps, qt

-------------------------------------------------------------------------------
(* The variables of a program. *)
LEMMA UsedTypes ==
  ASSUME used \in Programs
  PROVE  /\ used \subseteq Variables /\ IsFiniteSet(used)
         /\ \A v \in used : /\ v.name \in Seq(Nat) /\ v.kind \in Kinds /\ v.mode \in Modes
                            /\ v.kind \in {"float", "other"} => v.mode = "input"
         /\ \A u, v \in used : u.name = v.name => u = v
<1>1. used \in SUBSET Variables
  BY AbiAssumption
<1> QED BY <1>1, AbiAssumption

LEMMA EntryFields ==
  ASSUME NEW v, NEW o
  PROVE  Entry(v, o).of = v /\ Entry(v, o).out = o
BY DEF Entry

(* The names under which what the assignments write is known. *)
LEMMA TextOf ==
  ASSUME NEW v
  PROVE  /\ Text(Entry(v, FALSE)) = v.name
         /\ Text(Entry(v, TRUE)) = IF v.mode = "inout" THEN v.name \o OutSuffix ELSE v.name
BY EntryFields DEF Text

LEMMA OutSuffixType == OutSuffix \in Seq(Nat) /\ Len(OutSuffix) = 4
BY DEF OutSuffix

(* What the backend finds out about inputs and scalars is what the frontend   *)
(* knows. *)
LEMMA SameVariables ==
  ASSUME used \in Programs, meta = Meta, Plain, Passable
  PROVE  /\ KernelInputs = Reads({"array"})
         /\ KernelScalars = Reads({"scalar"})
         /\ Writes({"scalar"}) = {}
<1>t. /\ \A v \in used : v.kind \in Kinds /\ v.mode \in Modes
      /\ \A v \in used : v.kind \in {"float", "other"} => v.mode = "input"
      /\ \A u, v \in used : u.name = v.name => u = v
  BY UsedTypes
<1>1. \A e \in Outputs : \E u \in used :
        /\ e = Entry(u, TRUE) /\ u.kind = "array" /\ u.mode \in {"output", "inout"}
  BY DEF Outputs, Writes
<1>2. \A u \in used : u.kind = "array" /\ u.mode \in {"output", "inout"} => Entry(u, TRUE) \in Outputs
  BY DEF Outputs, Writes
<1>3. ASSUME NEW e \in meta
      PROVE  \E v \in used :
               \/ e = Entry(v, FALSE) /\ v.mode # "output"
               \/ e = Entry(v, TRUE) /\ v.mode \in {"output", "inout"}
  <2>1. (\E v \in used : e = Entry(v, v.mode = "output")) \/ (\E v \in used : e = Entry(v, TRUE) /\ v.mode = "inout")
    BY <1>3 DEF Meta
  <2>2. ASSUME NEW v \in used, e = Entry(v, v.mode = "output")
        PROVE  \/ e = Entry(v, FALSE) /\ v.mode # "output"
               \/ e = Entry(v, TRUE) /\ v.mode = "output"
    <3>1. CASE v.mode = "output"
      <4>1. (v.mode = "output") = TRUE
        BY <3>1
      <4> QED BY <2>2, <3>1, <4>1, Zenon
    <3>2. CASE v.mode # "output"
      <4>1. (v.mode = "output") = FALSE
        BY <3>2
      <4>2. Entry(v, v.mode = "output") = Entry(v, FALSE)
        BY <4>1, Zenon
      <4>3. e = Entry(v, FALSE)
        BY <2>2, <4>2
      <4> QED BY <3>2, <4>3
    <3> QED BY <3>1, <3>2
  <2> QED BY <2>1, <2>2
<1>4. ASSUME NEW v \in used, v.mode # "output"
      PROVE  Entry(v, FALSE) \in meta
  <2>1. (v.mode = "output") = FALSE
    BY <1>4
  <2>2. Entry(v, v.mode = "output") \in meta
    BY DEF Meta
  <2> QED BY <2>1, <2>2, Zenon
<1>5. ASSUME NEW v \in used, v.mode # "output"
      PROVE  Entry(v, FALSE) \in Unassigned
  <2> SUFFICES ASSUME NEW o \in Outputs PROVE Text(Entry(v, FALSE)) # Text(o)
    BY <1>4, <1>5 DEF Unassigned
  <2>1. PICK u \in used : o = Entry(u, TRUE) /\ u.kind = "array" /\ u.mode \in {"output", "inout"}
    BY <1>1
  <2>2. CASE u.mode = "inout"
    <3>1. v.name # u.name \o OutSuffix
      BY <2>2 DEF Plain
    <3> QED BY <2>1, <2>2, <3>1, TextOf
  <2>3. CASE u.mode = "output"
    <3>1. v.name # u.name
      BY <1>t, <1>5, <2>3
    <3> QED BY <2>1, <2>3, <3>1, TextOf
  <2> QED BY <2>1, <2>2, <2>3
<1>6. \A e \in Outputs : e \notin Unassigned
  BY DEF Unassigned
<1>8. ASSUME NEW v \in used
      PROVE  /\ v.kind \notin {"array", "float"} <=> v.kind = "scalar"
             /\ v.kind # "array" => v.mode = "input"
             /\ v.mode # "output" <=> v.mode \in {"input", "inout"}
  BY <1>t DEF Passable, Kinds, Modes
<1>7. ASSUME NEW e \in Unassigned
      PROVE  \E v \in used : e = Entry(v, FALSE) /\ v.mode # "output"
  <2>1. e \in meta
    BY DEF Unassigned
  <2>2. PICK v \in used :
          \/ e = Entry(v, FALSE) /\ v.mode # "output"
          \/ e = Entry(v, TRUE) /\ v.mode \in {"output", "inout"}
    BY <1>3, <2>1
  <2>3. CASE e = Entry(v, TRUE) /\ v.mode \in {"output", "inout"}
    <3>1. v.kind = "array"
      BY <1>8, <2>3
    <3> QED BY <1>2, <1>6, <2>3, <3>1
  <2> QED BY <2>2, <2>3
<1> DEFINE Read0 == {Entry(v, FALSE) : v \in {u \in used : u.mode # "output"}}
<1>10. Unassigned = Read0
  <2>1. ASSUME NEW e \in Unassigned PROVE e \in Read0
    BY <1>7
  <2>2. ASSUME NEW e \in Read0 PROVE e \in Unassigned
    BY <1>5
  <2> QED BY <2>1, <2>2
<1>11. \A v : Entry(v, FALSE).of = v
  BY EntryFields
<1>12. ASSUME NEW kind, NEW E,
              \A e : e \in E <=> e \in Read0 /\ e.of.kind = kind
       PROVE  E = Reads({kind})
  <2>1. ASSUME NEW e \in E PROVE e \in Reads({kind})
    <3>1. PICK v \in used : e = Entry(v, FALSE) /\ v.mode # "output"
      BY <1>12
    <3>2. v.kind = kind /\ v.mode \in {"input", "inout"}
      <4>1. e.of = v /\ e.of.kind = kind
        BY <1>11, <1>12, <2>1, <3>1
      <4> QED BY <1>8, <3>1, <4>1
    <3> QED BY <3>1, <3>2 DEF Reads
  <2>2. ASSUME NEW e \in Reads({kind}) PROVE e \in E
    <3>1. PICK v \in used : e = Entry(v, FALSE) /\ v.kind = kind /\ v.mode \in {"input", "inout"}
      BY DEF Reads
    <3>2. e \in Read0
      BY <1>8, <3>1
    <3> QED BY <1>11, <1>12, <3>1, <3>2
  <2> QED BY <2>1, <2>2
<1>13. KernelInputs = Reads({"array"})
  <2>1. \A e : e \in KernelInputs <=> e \in Read0 /\ e.of.kind = "array"
    BY <1>10 DEF KernelInputs
  <2> QED BY <1>12, <2>1
<1>14. KernelScalars = Reads({"scalar"})
  <2>1. \A e : e \in KernelScalars <=> e \in Read0 /\ e.of.kind \notin {"array", "float"}
    BY <1>10 DEF KernelScalars, KernelInputs
  <2>2. \A e \in Read0 : e.of \in used
    BY <1>11
  <2>3. \A e : e \in KernelScalars <=> e \in Read0 /\ e.of.kind = "scalar"
    <3> HIDE DEF Read0
    <3> QED BY <1>8, <2>1, <2>2
  <2> QED BY <1>12, <2>3
<1>15. Writes({"scalar"}) = {}
  <2>1. ~\E v \in used : v.kind = "scalar" /\ v.mode \in {"output", "inout"}
    BY <1>8
  <2> QED BY <2>1 DEF Writes
<1> QED BY <1>13, <1>14, <1>15

(* Two sets of keys in the same order make the same list. *)
LEMMA SamePlacesSameOrder ==
  ASSUME NEW S, \A e, f \in S : Less(GlueKey(f), GlueKey(e)) <=> Less(Text(f), Text(e))
  PROVE  GlueOrder(S) = KernelOrder(S)
<1>1. ASSUME NEW e \in S
      PROVE  GluePlace(S, e) = KernelPlace(S, e)
  <2>1. {f \in S : Less(GlueKey(f), GlueKey(e))} = {f \in S : Less(Text(f), Text(e))}
    OBVIOUS
  <2> QED BY <2>1 DEF GluePlace, KernelPlace
<1>2. ASSUME NEW k
      PROVE  (CHOOSE e \in S : GluePlace(S, e) = k - 1) = (CHOOSE e \in S : KernelPlace(S, e) = k - 1)
  BY <1>1, Zenon
<1> QED BY <1>2 DEF GlueOrder, KernelOrder

LEMMA ReadsInOneOrder ==
  ASSUME used \in Programs, Plain, NEW kinds
  PROVE  GlueOrder(Reads(kinds)) = KernelOrder(Reads(kinds))
<1>1. ASSUME NEW e \in Reads(kinds), NEW f \in Reads(kinds)
      PROVE  Less(GlueKey(f), GlueKey(e)) <=> Less(Text(f), Text(e))
  <2>1. PICK u \in used : f = Entry(u, FALSE)
    BY DEF Reads
  <2>2. PICK v \in used : e = Entry(v, FALSE)
    BY DEF Reads
  <2>3. Text(f) = u.name /\ Text(e) = v.name /\ f.of = u /\ e.of = v
    BY <2>1, <2>2, TextOf, EntryFields
  <2>4. Less(u.name \o <<Colon>>, v.name \o <<Colon>>) <=> Less(u.name, v.name)
    <3>1. u.name \in Seq(Nat) /\ v.name \in Seq(Nat)
      <4>1. \A w \in used : w.name \in Seq(Nat)
        BY UsedTypes
      <4> QED BY <4>1
    <3>2. /\ Proper(u.name, v.name) => v.name[Len(u.name) + 1] > Colon
          /\ Proper(v.name, u.name) => u.name[Len(v.name) + 1] > Colon
          /\ \A k \in DOMAIN u.name : u.name[k] # Colon
          /\ \A k \in DOMAIN v.name : v.name[k] # Colon
      BY DEF Plain
    <3> QED BY <3>1, <3>2, ColonOrder
  <2> QED BY <2>3, <2>4 DEF GlueKey
<1> QED BY <1>1, SamePlacesSameOrder

LEMMA OutputsInOneOrder ==
  ASSUME used \in Programs, Plain
  PROVE  GlueOrder(Outputs) = KernelOrder(Outputs)
<1> DEFINE Suffix(v) == IF v.mode = "inout" THEN OutSuffix ELSE <<>>
<1>1. ASSUME NEW e \in Outputs, NEW f \in Outputs
      PROVE  Less(GlueKey(f), GlueKey(e)) <=> Less(Text(f), Text(e))
  <2>1. PICK u \in used : f = Entry(u, TRUE) /\ u.mode \in {"output", "inout"}
    BY DEF Outputs, Writes
  <2>2. PICK v \in used : e = Entry(v, TRUE) /\ v.mode \in {"output", "inout"}
    BY DEF Outputs, Writes
  <2>3. /\ u.name \in Seq(Nat) /\ v.name \in Seq(Nat)
        /\ Suffix(u) \in Seq(Nat) /\ Suffix(v) \in Seq(Nat)
        /\ u.name = v.name => u = v
    <3>1. (\A w \in used : w.name \in Seq(Nat)) /\ \A x, y \in used : x.name = y.name => x = y
      BY UsedTypes
    <3>2. <<>> \in Seq(Nat)
      OBVIOUS
    <3> QED BY <3>1, <3>2, OutSuffixType
  <2>4. Text(f) = u.name \o Suffix(u) /\ Text(e) = v.name \o Suffix(v) /\ f.of = u /\ e.of = v
    <3>1. \A p \in Seq(Nat) : p \o <<>> = p
      OBVIOUS
    <3>2. f.of = u /\ e.of = v
      BY <2>1, <2>2, EntryFields
    <3>3. Text(f) = u.name \o Suffix(u)
      BY <2>1, <2>3, <3>1, TextOf
    <3>4. Text(e) = v.name \o Suffix(v)
      BY <2>2, <2>3, <3>1, TextOf
    <3> QED BY <3>2, <3>3, <3>4
  <2>5. Less(u.name \o <<Colon>>, v.name \o <<Colon>>) <=> Less(u.name, v.name)
    <3>1. /\ Proper(u.name, v.name) => v.name[Len(u.name) + 1] > Colon
          /\ Proper(v.name, u.name) => u.name[Len(v.name) + 1] > Colon
          /\ \A k \in DOMAIN u.name : u.name[k] # Colon
          /\ \A k \in DOMAIN v.name : v.name[k] # Colon
      BY DEF Plain
    <3> QED BY <2>3, <3>1, ColonOrder
  <2>6. Less(u.name \o Suffix(u), v.name \o Suffix(v)) <=> Less(u.name, v.name)
    <3>1. Suffix(u) # <<>> => ~Proper(u.name, v.name)
      BY <2>2 DEF Plain
    <3>2. Suffix(v) # <<>> => ~Proper(v.name, u.name)
      BY <2>1 DEF Plain
    <3>3. u.name = v.name => Suffix(u) = Suffix(v)
      BY <2>3
    <3> HIDE DEF Suffix
    <3> QED BY <2>3, <3>1, <3>2, <3>3, SuffixOrder
  <2> QED BY <2>4, <2>5, <2>6 DEF GlueKey
<1> QED BY <1>1, SamePlacesSameOrder

(* Finitely many variables have finitely many entries. *)
LEMMA EntriesFinite ==
  ASSUME NEW S, IsFiniteSet(S), NEW out
  PROVE  IsFiniteSet({Entry(v, out) : v \in S})
<1> DEFINE T == {Entry(v, out) : v \in S}
           f == [e \in T |-> e.of]
<1>1. \A e \in T : e = Entry(e.of, out) /\ e.of \in S
  BY EntryFields
<1> HIDE DEF T
<1>2. f \in [T -> S] /\ \A a, b \in T : f[a] = f[b] => a = b
  BY <1>1
<1>3. f \in Injection(T, S)
  BY <1>2 DEF Injection, IsInjective
<1> QED BY <1>3, FS_Injection DEF T

(* A list of no entries adds none. *)
LEMMA NothingAdded ==
  ASSUME NEW S, NEW q \in Seq(S)
  PROVE  q \o GlueOrder({}) = q
<1>1. Cardinality({}) = 0
  BY FS_EmptySet
<1>2. GlueOrder({}) = <<>>
  BY <1>1 DEF GlueOrder
<1> QED BY <1>2

(* Lists are sequences. *)
LEMMA OrderType ==
  ASSUME NEW S, IsFiniteSet(S)
  PROVE  \E T : GlueOrder(S) \in Seq(T)
<1>1. Cardinality(S) \in Nat
  BY FS_CardinalityType
<1> DEFINE E(k) == CHOOSE e \in S : GluePlace(S, e) = k - 1
           T == {E(k) : k \in 1..Cardinality(S)}
<1>2. GlueOrder(S) = [k \in 1..Cardinality(S) |-> E(k)]
  BY DEF GlueOrder
<1> HIDE DEF E
<1>3. GlueOrder(S) \in [1..Cardinality(S) -> T]
  BY <1>2
<1>4. GlueOrder(S) \in Seq(T)
  BY <1>1, <1>3
<1> QED BY <1>4

-------------------------------------------------------------------------------
(* The stages. *)

LEMMA InitIInv == Init => IInv
BY DEF Init, AbiInit, IInv

LEMMA NextIInv == IInv /\ [Next]_vars => IInv'
<1> SUFFICES ASSUME IInv, [Next]_vars PROVE IInv'
  OBVIOUS
<1>m. used' = used => Meta' = Meta
  BY DEF Meta, Entry
<1>p. used' = used => PassedArgs' = PassedArgs
  BY DEF PassedArgs, Reads, Writes
<1>d. used' = used /\ meta' = meta => DeclaredArgs' = DeclaredArgs
  <2> SUFFICES ASSUME used' = used, meta' = meta PROVE DeclaredArgs' = DeclaredArgs
    OBVIOUS
  <2>1. Outputs' = Outputs
    BY DEF Outputs, Writes
  <2>2. Unassigned' = Unassigned
    BY <2>1 DEF Unassigned
  <2>3. KernelInputs' = KernelInputs
    BY <2>2 DEF KernelInputs
  <2>4. KernelScalars' = KernelScalars
    BY <2>2, <2>3 DEF KernelScalars
  <2> QED BY <2>1, <2>3, <2>4 DEF DeclaredArgs
<1>1. CASE Translate
  <2>1. meta' = Meta /\ used' = used /\ stage' = "glue"
    BY <1>1 DEF Translate, Meta
  <2> QED BY <2>1, <1>m DEF IInv
<1>2. CASE Glue
  <2>1. glueArgs' = PassedArgs /\ used' = used /\ meta' = meta /\ stage = "glue" /\ stage' = "backend"
    BY <1>2 DEF Glue, PassedArgs
  <2> QED BY <2>1, <1>m, <1>p DEF IInv
<1>3. CASE Kernel
  <2>1. /\ kernelArgs' = DeclaredArgs /\ used' = used /\ meta' = meta /\ glueArgs' = glueArgs
        /\ stage = "backend" /\ stage' = "linked"
    BY <1>3 DEF Kernel, DeclaredArgs
  <2> QED BY <2>1, <1>m, <1>p, <1>d DEF IInv
<1>4. CASE UNCHANGED abiVars
  <2>1. UNCHANGED <<used, meta, glueArgs, kernelArgs, stage>>
    BY <1>4 DEF abiVars
  <2> QED BY <2>1, <1>m, <1>p, <1>d DEF IInv
<1> QED BY <1>1, <1>2, <1>3, <1>4 DEF Next, vars

(* The kernel takes what the glue passes, at every position, for names that   *)
(* the two orders agree on and no scalar assigned: generateImpl's four sorted *)
(* lists are the backend's three (HalideCodeGenerator.cpp, backend_halide.py).*)
THEOREM GlueAndKernelAgree == Spec => []ArgumentsMatch
<1>1. Spec => []IInv
  BY InitIInv, NextIInv, PTL DEF Spec
<1>2. IInv => ArgumentsMatch
  <2> SUFFICES ASSUME IInv, stage = "linked", Plain, Passable PROVE glueArgs = kernelArgs
    BY DEF ArgumentsMatch
  <2>1. used \in Programs /\ meta = Meta /\ glueArgs = PassedArgs /\ kernelArgs = DeclaredArgs
    BY DEF IInv
  <2>2. /\ KernelInputs = Reads({"array"}) /\ KernelScalars = Reads({"scalar"})
        /\ Writes({"scalar"}) = {}
    BY <2>1, SameVariables
  <2>3. /\ GlueOrder(Reads({"array"})) = KernelOrder(KernelInputs)
        /\ GlueOrder(Reads({"scalar"})) = KernelOrder(KernelScalars)
        /\ GlueOrder(Writes({"array"})) = KernelOrder(Outputs)
    BY <2>1, <2>2, ReadsInOneOrder, OutputsInOneOrder DEF Outputs
  <2>4. PassedArgs = DeclaredArgs \o GlueOrder({})
    BY <2>2, <2>3 DEF PassedArgs, DeclaredArgs
  <2>5. \E T : DeclaredArgs \in Seq(T)
    <3>1. IsFiniteSet(used)
      BY <2>1, UsedTypes
    <3>2. ASSUME NEW kinds PROVE IsFiniteSet(Reads(kinds)) /\ IsFiniteSet(Writes(kinds))
      <4>1. IsFiniteSet({u \in used : u.kind \in kinds /\ u.mode \in {"input", "inout"}})
        BY <3>1, FS_Subset
      <4>2. IsFiniteSet({u \in used : u.kind \in kinds /\ u.mode \in {"output", "inout"}})
        BY <3>1, FS_Subset
      <4> QED BY <4>1, <4>2, EntriesFinite DEF Reads, Writes
    <3>3. PICK T1 : GlueOrder(Reads({"array"})) \in Seq(T1)
      BY <3>2, OrderType
    <3>4. PICK T2 : GlueOrder(Reads({"scalar"})) \in Seq(T2)
      BY <3>2, OrderType
    <3>5. PICK T3 : GlueOrder(Writes({"array"})) \in Seq(T3)
      BY <3>2, OrderType
    <3>6. DeclaredArgs \in Seq(T1 \cup T2 \cup T3)
      <4>1. ASSUME NEW T, NEW a \in Seq(T), NEW b \in Seq(T), NEW c \in Seq(T)
            PROVE  a \o b \o c \in Seq(T)
        OBVIOUS
      <4>2. /\ GlueOrder(Reads({"array"})) \in Seq(T1 \cup T2 \cup T3)
            /\ GlueOrder(Reads({"scalar"})) \in Seq(T1 \cup T2 \cup T3)
            /\ GlueOrder(Writes({"array"})) \in Seq(T1 \cup T2 \cup T3)
        BY <3>3, <3>4, <3>5
      <4> QED BY <2>3, <4>1, <4>2 DEF DeclaredArgs
    <3> QED BY <3>6
  <2> QED BY <2>1, <2>4, <2>5, NothingAdded
<1> QED BY <1>1, <1>2, PTL

-------------------------------------------------------------------------------
(* Substitution, one variable after the other. *)

Coef(sub, j) == IF j = 0 THEN sub.off ELSE IF sub.var = j THEN 1 ELSE 0
Exprs == [0..Depth -> Int]
AnySubs == [Vars -> [var : 0..Depth, off : Int]]

\* f[i] is what e and the subscripts of its variables up to i make.
SumsUp(f, e, subs) ==
  /\ f \in [Nat -> Exprs]
  /\ f[0] = [j \in 0..Depth |-> IF j = 0 THEN e[0] ELSE 0]
  /\ \A i \in Vars : f[i] = [j \in 0..Depth |-> f[i - 1][j] + e[i] * Coef(subs[i], j)]

(* Subst is such a sum. *)
LEMMA SubstSums ==
  ASSUME Depth \in Nat \ {0}, NEW e \in Exprs, NEW subs \in AnySubs
  PROVE  /\ Subst(e, subs) \in Exprs
         /\ \E f : SumsUp(f, e, subs) /\ Subst(e, subs) = f[Depth]
<1> DEFINE b == [j \in 0..Depth |-> IF j = 0 THEN e[0] ELSE 0]
           next(i, x) == [j \in 0..Depth |-> x[j] + e[i] * Coef(subs[i], j)]
           s == [i \in Nat |-> [x \in Exprs |-> IF i \in Vars THEN next(i, x) ELSE x]]
<1>1. b \in Exprs
  BY DEF Exprs
<1>2. ASSUME NEW i \in Vars, NEW x \in Exprs
      PROVE  next(i, x) \in Exprs
  <2>1. i \in 0..Depth /\ e[i] \in Int
    BY DEF Exprs, Vars
  <2>2. \A j \in 0..Depth : x[j] \in Int /\ Coef(subs[i], j) \in Int
    BY DEF Exprs, AnySubs, Coef
  <2>3. \A j \in 0..Depth : x[j] + e[i] * Coef(subs[i], j) \in Int
    BY <2>1, <2>2
  <2> QED BY <2>3 DEF Exprs
<1>3. s \in [Nat -> [Exprs -> Exprs]]
  <2> HIDE DEF next
  <2> QED BY <1>2
<1> HIDE DEF b
<1>4. PICK f \in [Nat -> Exprs] : RecursUp(f, b, s)
  <2> HIDE DEF s
  <2> QED BY <1>1, <1>3, RecursionUp
<1>5. f[0] = b /\ \A i \in Vars : i - 1 \in Nat /\ f[i - 1] \in Exprs /\ f[i] = next(i, f[i - 1])
  <2>1. f[0] = b
    BY <1>4 DEF RecursUp
  <2>2. ASSUME NEW i \in Vars
        PROVE  i - 1 \in Nat /\ f[i - 1] \in Exprs /\ f[i] = next(i, f[i - 1])
    <3>1. i \in Nat /\ i # 0 /\ i - 1 \in Nat
      BY DEF Vars
    <3>2. f[i] = s[i][f[i - 1]]
      BY <1>4, <3>1 DEF RecursUp
    <3> HIDE DEF next
    <3> QED BY <3>1, <3>2
  <2> QED BY <2>1, <2>2
<1>6. SumsUp(f, e, subs)
  BY <1>5 DEF SumsUp, b
<1> DEFINE body(i, h) == [j \in 0..Depth |->
             (IF i = 1 THEN (IF j = 0 THEN e[0] ELSE 0) ELSE h[i - 1][j])
               + e[i] * (IF j = 0 THEN subs[i].off ELSE IF subs[i].var = j THEN 1 ELSE 0)]
           g == [i \in Vars |-> f[i]]
<1>7. ASSUME NEW h, h = [i \in Vars |-> body(i, h)]
      PROVE  h[Depth] = f[Depth]
  <2> DEFINE S == {n \in Nat : n \in Vars => h[n] = f[n]}
  <2>1. 0 \in S
    BY DEF Vars
  <2>2. ASSUME NEW n \in Nat, n \in S
        PROVE  n + 1 \in S
    <3> SUFFICES ASSUME n + 1 \in Vars PROVE h[n + 1] = f[n + 1]
      OBVIOUS
    <3> DEFINE m == n + 1
    <3>1. m - 1 = n /\ m \in Vars /\ (m # 1 => n \in Vars)
      BY DEF Vars
    <3> HIDE DEF m
    <3>2. f[m] = next(m, f[n])
      BY <1>5, <3>1
    <3>3. h[m] = body(m, h)
      BY <1>7, <3>1, Zenon
    <3>4. m = 1 => n = 0
      BY <3>1 DEF m
    <3>5. ASSUME NEW j \in 0..Depth
          PROVE  (IF m = 1 THEN (IF j = 0 THEN e[0] ELSE 0) ELSE h[m - 1][j]) = f[n][j]
      <4>1. CASE m = 1
        BY <4>1, <3>4, <1>5 DEF b
      <4>2. CASE m # 1
        BY <4>2, <3>1, <2>2
      <4> QED BY <4>1, <4>2
    <3>6. body(m, h) = next(m, f[n])
      <4>1. \A j \in 0..Depth :
              (IF m = 1 THEN (IF j = 0 THEN e[0] ELSE 0) ELSE h[m - 1][j])
               + e[m] * (IF j = 0 THEN subs[m].off ELSE IF subs[m].var = j THEN 1 ELSE 0)
              = f[n][j] + e[m] * Coef(subs[m], j)
        BY <3>5, Zenon DEF Coef
      <4> QED BY <4>1, Zenon
    <3> HIDE DEF body, next
    <3>7. h[m] = f[m]
      BY <3>2, <3>3, <3>6
    <3> QED BY <3>7 DEF m
  <2>3. \A n \in Nat : n \in S
    <3> HIDE DEF S
    <3> QED BY <2>1, <2>2, Induct
  <2> QED BY <2>3 DEF Vars
<1>8. g = [i \in Vars |-> body(i, g)]
  <2>1. ASSUME NEW i \in Vars PROVE f[i] = body(i, g)
    <3>1. f[i] = next(i, f[i - 1]) /\ i \in Nat /\ (i # 1 => i - 1 \in Vars) /\ (i = 1 => i - 1 = 0)
      BY <1>5 DEF Vars
    <3>5. ASSUME NEW j \in 0..Depth
          PROVE  (IF i = 1 THEN (IF j = 0 THEN e[0] ELSE 0) ELSE g[i - 1][j]) = f[i - 1][j]
      <4>1. CASE i = 1
        BY <4>1, <3>1, <1>5 DEF b
      <4>2. CASE i # 1
        BY <4>2, <3>1
      <4> QED BY <4>1, <4>2
    <3> HIDE DEF g
    <3>6. \A j \in 0..Depth :
              (IF i = 1 THEN (IF j = 0 THEN e[0] ELSE 0) ELSE g[i - 1][j])
               + e[i] * (IF j = 0 THEN subs[i].off ELSE IF subs[i].var = j THEN 1 ELSE 0)
              = f[i - 1][j] + e[i] * Coef(subs[i], j)
      BY <3>5, Zenon DEF Coef
    <3>7. body(i, g) = next(i, f[i - 1])
      BY <3>6, Zenon
    <3> HIDE DEF body, next
    <3> QED BY <3>1, <3>7
  <2> HIDE DEF body
  <2>2. [i \in Vars |-> f[i]] = [i \in Vars |-> body(i, g)]
    BY <2>1, Zenon
  <2> QED BY <2>2 DEF g
<1>9. Subst(e, subs) = f[Depth]
  <2> DEFINE chosen == CHOOSE h : h = [i \in Vars |-> body(i, h)]
  <2>1. chosen = [i \in Vars |-> body(i, chosen)]
    <3> HIDE DEF body, g
    <3> QED BY <1>8, Zenon
  <2>2. Subst(e, subs) = chosen[Depth]
    BY Zenon DEF Subst
  <2> HIDE DEF chosen, body
  <2> QED BY <1>7, <2>1, <2>2
<1>10. Depth \in Nat /\ f[Depth] \in Exprs
  OBVIOUS
<1> QED BY <1>6, <1>9, <1>10

(* Two sums of the same expression and subscripts are the same. *)
LEMMA SubstOf ==
  ASSUME Depth \in Nat \ {0}, NEW e \in Exprs, NEW subs \in AnySubs,
         NEW f, SumsUp(f, e, subs)
  PROVE  Subst(e, subs) = f[Depth]
<1>1. PICK g : SumsUp(g, e, subs) /\ Subst(e, subs) = g[Depth]
  BY SubstSums
<1> DEFINE S == {n \in Nat : n <= Depth => f[n] = g[n]}
<1>2. 0 \in S
  BY <1>1 DEF SumsUp
<1>3. ASSUME NEW n \in Nat, n \in S
      PROVE  n + 1 \in S
  <2> SUFFICES ASSUME n + 1 <= Depth PROVE f[n + 1] = g[n + 1]
    OBVIOUS
  <2> DEFINE m == n + 1
  <2>1. m \in Vars /\ m - 1 = n
    BY DEF Vars
  <2> HIDE DEF m
  <2>2. f[m - 1] = g[m - 1]
    BY <1>3, <2>1
  <2>3. /\ f[m] = [j \in 0..Depth |-> f[m - 1][j] + e[m] * Coef(subs[m], j)]
        /\ g[m] = [j \in 0..Depth |-> g[m - 1][j] + e[m] * Coef(subs[m], j)]
    BY <1>1, <2>1, Zenon DEF SumsUp
  <2>4. f[m] = g[m]
    BY <2>2, <2>3, Zenon
  <2> QED BY <2>4 DEF m
<1>4. \A n \in Nat : n \in S
  <2> HIDE DEF S
  <2> QED BY <1>2, <1>3, Induct
<1> QED BY <1>1, <1>4

(* Every variable plus an offset. *)
Shift(p) == [i \in Vars |-> Var(i, p[i])]

\* x with c more of variable v.
More(x, c, v) == [j \in 0..Depth |-> x[j] + c * (IF j = v THEN 1 ELSE 0)]

(* c more of a variable is c more of what is put in its place. *)
LEMMA SubstMore ==
  ASSUME Depth \in Nat \ {0}, NEW x \in Exprs, NEW subs \in AnySubs,
         NEW c \in Int, NEW v \in Vars
  PROVE  /\ More(x, c, v) \in Exprs
         /\ Subst(More(x, c, v), subs)
              = [j \in 0..Depth |-> Subst(x, subs)[j] + c * Coef(subs[v], j)]
<1> DEFINE y == More(x, c, v)
<1>1. v \in Nat /\ v # 0 /\ v <= Depth
  BY DEF Vars
<1>2. y \in Exprs
  <2>1. \A j \in 0..Depth : x[j] \in Int
    BY DEF Exprs
  <2> QED BY <2>1 DEF More, Exprs
<1>3. PICK f : SumsUp(f, x, subs) /\ Subst(x, subs) = f[Depth]
  BY SubstSums
<1>4. PICK g : SumsUp(g, y, subs) /\ Subst(y, subs) = g[Depth]
  <2> HIDE DEF y
  <2> QED BY <1>2, SubstSums
<1>5. ASSUME NEW i \in Vars, NEW j \in 0..Depth
      PROVE  Coef(subs[i], j) \in Int
  BY DEF AnySubs, Coef
<1>6. \A i \in Vars : y[i] = x[i] + (IF i = v THEN c ELSE 0) /\ x[i] \in Int
  BY DEF More, Exprs, Vars
<1>7. y[0] = x[0]
  BY <1>1 DEF More, Exprs
<1> HIDE DEF y
<1>8. \A n \in Nat, j \in 0..Depth : f[n][j] \in Int /\ g[n][j] \in Int
  <2>1. \A n \in Nat : f[n] \in Exprs /\ g[n] \in Exprs
    BY <1>3, <1>4 DEF SumsUp
  <2> QED BY <2>1 DEF Exprs
<1> DEFINE S == {n \in Nat : n <= Depth =>
                   \A j \in 0..Depth : g[n][j] = f[n][j] + (IF n >= v THEN c * Coef(subs[v], j) ELSE 0)}
<1>9. 0 \in S
  <2>1. /\ f[0] = [j \in 0..Depth |-> IF j = 0 THEN x[0] ELSE 0]
        /\ g[0] = [j \in 0..Depth |-> IF j = 0 THEN y[0] ELSE 0]
    BY <1>3, <1>4, Zenon DEF SumsUp
  <2>2. f[0] = g[0]
    BY <1>7, <2>1, Zenon
  <2>3. ~(0 >= v)
    BY <1>1
  <2> QED BY <1>8, <2>2, <2>3
<1>10. ASSUME NEW n \in Nat, n \in S
       PROVE  n + 1 \in S
  <2> SUFFICES ASSUME n + 1 <= Depth, NEW j \in 0..Depth
               PROVE  g[n + 1][j] = f[n + 1][j] + (IF n + 1 >= v THEN c * Coef(subs[v], j) ELSE 0)
    OBVIOUS
  <2> DEFINE m == n + 1
  <2>1. m \in Vars /\ m - 1 = n
    BY DEF Vars
  <2> HIDE DEF m
  <2>2. f[m][j] = f[n][j] + x[m] * Coef(subs[m], j) /\ g[m][j] = g[n][j] + y[m] * Coef(subs[m], j)
    <3>1. /\ f[m] = [k \in 0..Depth |-> f[m - 1][k] + x[m] * Coef(subs[m], k)]
          /\ g[m] = [k \in 0..Depth |-> g[m - 1][k] + y[m] * Coef(subs[m], k)]
      BY <1>3, <1>4, <2>1, Zenon DEF SumsUp
    <3>2. /\ f[m][j] = f[m - 1][j] + x[m] * Coef(subs[m], j)
          /\ g[m][j] = g[m - 1][j] + y[m] * Coef(subs[m], j)
      BY <3>1, Zenon
    <3> QED BY <3>2, <2>1, Zenon
  <2>3. g[n][j] = f[n][j] + (IF n >= v THEN c * Coef(subs[v], j) ELSE 0)
    BY <1>10
  <2> DEFINE k == Coef(subs[m], j)
             kv == Coef(subs[v], j)
  <2>4. k \in Int /\ kv \in Int /\ f[n][j] \in Int /\ x[m] \in Int
    BY <1>5, <1>6, <1>8, <2>1
  <2>5. y[m] * k = x[m] * k + (IF m = v THEN c * k ELSE 0)
    <3> HIDE DEF k
    <3>1. CASE m = v
      BY <1>6, <2>1, <2>4, <3>1
    <3>2. CASE m # v
      BY <1>6, <2>1, <2>4, <3>2
    <3> QED BY <3>1, <3>2
  <2>6. m = v => k = kv
    OBVIOUS
  <2>6a. m = n + 1 /\ m \in Nat
    BY DEF m
  <2> DEFINE fn == f[n][j]
             gn == g[n][j]
             fm == f[m][j]
             gm == g[m][j]
  <2>7. c * kv \in Int /\ x[m] * k \in Int
    BY <2>4
  <2> HIDE DEF k, kv, fn, gn, fm, gm
  <2>8. gm = fm + (IF m >= v THEN c * kv ELSE 0)
    <3>1. fm = fn + x[m] * k /\ gm = gn + y[m] * k
      BY <2>2 DEF k, fn, gn, fm, gm
    <3>2. gn = fn + (IF n >= v THEN c * kv ELSE 0)
      BY <2>3 DEF kv, fn, gn
    <3>3. fn \in Int
      BY <2>4 DEF fn
    <3>4. CASE m = v
      BY <3>1, <3>2, <3>3, <3>4, <2>5, <2>6, <2>6a, <2>7, <1>1
    <3>5. CASE m # v /\ m >= v
      <4>1. n >= v
        BY <3>5, <2>6a, <1>1
      <4>2. gn = fn + c * kv /\ y[m] * k = x[m] * k
        BY <4>1, <3>2, <3>5, <2>5, <2>7
      <4> QED BY <3>1, <3>3, <3>5, <4>2, <2>7
    <3>6. CASE ~(m >= v)
      BY <3>1, <3>2, <3>3, <3>6, <2>5, <2>6a, <2>7, <1>1
    <3> QED BY <3>4, <3>5, <3>6
  <2> QED BY <2>8 DEF m, kv, fm, gm
<1>11. \A n \in Nat : n \in S
  <2> HIDE DEF S
  <2> QED BY <1>9, <1>10, Induct
<1>12. g[Depth] = [j \in 0..Depth |-> f[Depth][j] + c * Coef(subs[v], j)]
  <2>1. \A j \in 0..Depth : g[Depth][j] = f[Depth][j] + c * Coef(subs[v], j)
    BY <1>1, <1>11
  <2>2. g[Depth] \in Exprs
    BY <1>4 DEF SumsUp
  <2> QED BY <2>1, <2>2 DEF Exprs
<1> QED BY <1>2, <1>3, <1>4, <1>12 DEF y

(* Nothing in, nothing out. *)
LEMMA SubstZero ==
  ASSUME Depth \in Nat \ {0}, NEW subs \in AnySubs
  PROVE  Subst([j \in 0..Depth |-> 0], subs) = [j \in 0..Depth |-> 0]
<1> DEFINE z == [j \in 0..Depth |-> 0]
           f == [n \in Nat |-> z]
<1>1. z \in Exprs
  BY DEF Exprs
<1>2. SumsUp(f, z, subs)
  <2>1. ASSUME NEW i \in Vars
        PROVE  f[i] = [j \in 0..Depth |-> f[i - 1][j] + z[i] * Coef(subs[i], j)]
    <3>1. i \in Nat /\ i - 1 \in Nat /\ i \in 0..Depth
      BY DEF Vars
    <3>2. \A j \in 0..Depth : 0 + 0 * Coef(subs[i], j) = 0
      BY DEF AnySubs, Coef
    <3>3. f[i] = z /\ f[i - 1] = z /\ z[i] = 0
      BY <3>1
    <3> QED BY <3>2, <3>3
  <2>2. f[0] = [j \in 0..Depth |-> IF j = 0 THEN z[0] ELSE 0]
    <3>1. f[0] = z /\ z[0] = 0
      OBVIOUS
    <3> QED BY <3>1
  <2>3. f \in [Nat -> Exprs]
    BY <1>1
  <2> HIDE DEF f, z
  <2> QED BY <2>1, <2>2, <2>3 DEF SumsUp
<1>3. f[Depth] = z
  OBVIOUS
<1> HIDE DEF f, z
<1>4. Subst(z, subs) = f[Depth]
  BY <1>1, <1>2, SubstOf
<1> QED BY <1>3, <1>4 DEF z

-------------------------------------------------------------------------------
(* Locations of elements. *)

Strides == [d \in 0..Depth |-> IF d = 0 THEN 0 ELSE Stride[d]]
Neighbour(s) == [d \in Vars |-> Var(order[d], s[d])]

(* Every loop variable runs over one dimension. *)
LEMMA OrderFacts ==
  ASSUME order \in Orders
  PROVE  /\ Depth \in Nat \ {0} /\ order \in [Vars -> Vars]
         /\ \A i \in Vars : \E d \in Vars : order[d] = i
         /\ \A d, c \in Vars : order[d] = order[c] => d = c
         /\ Strides \in Exprs /\ \A d \in Vars : Strides[d] = Stride[d] /\ Strides[d] \in Nat \ {0}
         /\ 1 \in Vars /\ Strides[1] = 1
<1>1. /\ Len(order) \in 1..Len(Stride) /\ order \in [1..Len(order) -> 1..Len(order)]
      /\ \A i \in 1..Len(order) : \E d \in 1..Len(order) : order[d] = i
      /\ \A d \in 1..Len(Stride) : Stride[d] \in Nat \ {0}
      /\ Stride[1] = 1
  BY ResugarAssumption
<1>2. Depth \in Nat \ {0} /\ Depth <= Len(Stride) /\ Len(Stride) \in Int
  <2>1. 1..Len(Stride) # {}
    BY <1>1
  <2>2. Len(Stride) \in Int \/ 1..Len(Stride) \notin SUBSET Int
    OBVIOUS
  <2> QED BY <1>1, <2>1, <2>2 DEF Depth
<1>3. /\ order \in [Vars -> Vars]
      /\ \A i \in Vars : \E d \in Vars : order[d] = i
  BY <1>1, Zenon DEF Vars, Depth
<1>4. \A d, c \in Vars : order[d] = order[c] => d = c
  <2>1. IsFiniteSet(Vars) /\ Cardinality(Vars) = Cardinality(Vars)
    BY <1>2, FS_Interval DEF Vars
  <2>2. order \in Surjection(Vars, Vars)
    BY <1>3, Zenon DEF Surjection
  <2>3. order \in Injection(Vars, Vars)
    BY <2>1, <2>2, FS_SurjSameCardinalityImpliesInj
  <2> QED BY <2>3 DEF Injection, IsInjective
<1>5. \A d \in Vars : d \in 1..Len(Stride) /\ d \in 0..Depth /\ d # 0
  BY <1>2 DEF Vars
<1>6. \A d \in Vars : Strides[d] = Stride[d] /\ Strides[d] \in Nat \ {0}
  BY <1>1, <1>5 DEF Strides
<1>7. Strides \in Exprs
  <2>1. \A d \in 0..Depth : d = 0 \/ d \in Vars
    BY <1>2 DEF Vars
  <2>2. \A d \in 0..Depth : (IF d = 0 THEN 0 ELSE Stride[d]) \in Int
    BY <1>1, <1>5, <2>1
  <2> QED BY <2>2 DEF Strides, Exprs
<1>8. 1 \in Vars /\ Strides[1] = 1
  <2>1. 1 \in Vars
    BY <1>2 DEF Vars
  <2> QED BY <1>1, <1>6, <2>1
<1> QED BY <1>2, <1>3, <1>4, <1>6, <1>7, <1>8

LEMMA NeighbourType ==
  ASSUME order \in Orders, NEW s \in [Vars -> Int]
  PROVE  Neighbour(s) \in AnySubs
<1>1. \A d \in Vars : order[d] \in 0..Depth /\ s[d] \in Int
  <2>1. order \in [Vars -> Vars]
    BY OrderFacts
  <2>2. Vars \subseteq 0..Depth
    BY DEF Vars
  <2> QED BY <2>1, <2>2
<1> QED BY <1>1 DEF Neighbour, AnySubs, Var

LEMMA ShiftType ==
  ASSUME NEW p \in [Vars -> Int]
  PROVE  Shift(p) \in AnySubs
BY DEF Shift, AnySubs, Var, Vars

LEMMA LocationIs ==
  ASSUME NEW subs
  PROVE  Location(subs) = Subst(Strides, subs)
BY Zenon DEF Location, Strides

LEMMA OwnIs == Own = Neighbour([d \in Vars |-> 0])
BY DEF Own, Neighbour

(* Every variable plus an offset, put in the index function, is the location  *)
(* of that neighbour.                                                         *)
LEMMA ShiftedLocation ==
  ASSUME order \in Orders, NEW p \in [Vars -> Int]
  PROVE  Subst(Index, Shift(p)) = Location(Neighbour([d \in Vars |-> p[order[d]]]))
<1> DEFINE q == [d \in Vars |-> p[order[d]]]
           zero == [d \in Vars |-> 0]
<1>1. Depth \in Nat \ {0} /\ order \in [Vars -> Vars] /\ Strides \in Exprs
  BY OrderFacts
<1>2. q \in [Vars -> Int] /\ zero \in [Vars -> Int]
  BY <1>1
<1>3. Own \in AnySubs /\ Neighbour(q) \in AnySubs /\ Shift(p) \in AnySubs
  <2> HIDE DEF q, zero
  <2>1. Neighbour(zero) \in AnySubs /\ Neighbour(q) \in AnySubs
    BY <1>2, NeighbourType
  <2> QED BY <2>1, OwnIs, ShiftType DEF zero
<1>4. PICK f : SumsUp(f, Strides, Own) /\ Subst(Strides, Own) = f[Depth]
  BY <1>1, <1>3, SubstSums
<1>5. PICK g : SumsUp(g, Strides, Neighbour(q)) /\ Subst(Strides, Neighbour(q)) = g[Depth]
  <2> HIDE DEF q
  <2> QED BY <1>1, <1>3, SubstSums
<1> DEFINE S == {n \in Nat : n <= Depth => Subst(f[n], Shift(p)) = g[n]}
<1>6. 0 \in S
  <2>1. Strides[0] = 0
    BY <1>1 DEF Strides
  <2>2. f[0] = [j \in 0..Depth |-> IF j = 0 THEN 0 ELSE 0] /\ g[0] = f[0]
    BY <1>4, <1>5, <2>1, Zenon DEF SumsUp
  <2>3. f[0] = [j \in 0..Depth |-> 0]
    BY <2>2
  <2>4. Subst(f[0], Shift(p)) = f[0]
    BY <1>1, <1>3, <2>3, SubstZero
  <2> QED BY <2>2, <2>4
<1>7. ASSUME NEW n \in Nat, n \in S
      PROVE  n + 1 \in S
  <2> SUFFICES ASSUME n + 1 <= Depth PROVE Subst(f[n + 1], Shift(p)) = g[n + 1]
    OBVIOUS
  <2> DEFINE m == n + 1
             v == order[m]
             c == Strides[m]
  <2>1. m \in Vars /\ m - 1 = n
    BY DEF Vars
  <2>2. v \in Vars /\ c \in Int /\ f[n] \in Exprs
    <3>1. c \in Int
      BY <2>1, OrderFacts
    <3> HIDE DEF c
    <3> QED BY <1>1, <1>4, <2>1, <3>1 DEF SumsUp
  <2> HIDE DEF m
  <2>3. /\ f[m] = [j \in 0..Depth |-> f[m - 1][j] + Strides[m] * Coef(Own[m], j)]
        /\ g[m] = [j \in 0..Depth |-> g[m - 1][j] + Strides[m] * Coef(Neighbour(q)[m], j)]
    <3> HIDE DEF q
    <3> QED BY <1>4, <1>5, <2>1, Zenon DEF SumsUp
  <2>4. Own[m] = Var(v, 0) /\ Neighbour(q)[m] = Var(v, p[v]) /\ Shift(p)[v] = Var(v, p[v])
    BY <2>1, <2>2 DEF Own, Neighbour, Shift
  <2>5. \A j \in 0..Depth : Coef(Own[m], j) = IF j = v THEN 1 ELSE 0
    <3>1. v # 0
      BY <2>2 DEF Vars
    <3> QED BY <2>4, <3>1 DEF Coef, Var
  <2>6. f[m] = More(f[n], c, v)
    <3>1. f[m] = [j \in 0..Depth |-> f[n][j] + c * (IF j = v THEN 1 ELSE 0)]
      <4> HIDE DEF v, c
      <4>1. \A j \in 0..Depth : f[m - 1][j] + Strides[m] * Coef(Own[m], j)
                                 = f[n][j] + c * (IF j = v THEN 1 ELSE 0)
        BY <2>1, <2>5, Zenon DEF c
      <4> QED BY <2>3, <4>1, Zenon
    <3> QED BY <3>1, Zenon DEF More
  <2>7. Subst(More(f[n], c, v), Shift(p))
          = [j \in 0..Depth |-> Subst(f[n], Shift(p))[j] + c * Coef(Shift(p)[v], j)]
    <3> HIDE DEF c, v
    <3> QED BY <1>1, <1>3, <2>2, SubstMore
  <2>8. Subst(f[n], Shift(p)) = g[n]
    BY <1>7, <1>1, <2>1 DEF Vars
  <2>9. g[m] = [j \in 0..Depth |-> g[n][j] + c * Coef(Shift(p)[v], j)]
    <3>1. \A j \in 0..Depth : g[m - 1][j] + Strides[m] * Coef(Neighbour(q)[m], j)
                              = g[n][j] + c * Coef(Shift(p)[v], j)
      BY <2>1, <2>4, Zenon
    <3> QED BY <2>3, <3>1, Zenon
  <2>10. Subst(f[m], Shift(p)) = g[m]
    <3> HIDE DEF c, v
    <3> QED BY <2>6, <2>7, <2>8, <2>9, Zenon
  <2> QED BY <2>10 DEF m
<1>8. \A n \in Nat : n \in S
  <2> HIDE DEF S
  <2> QED BY <1>6, <1>7, Induct
<1>9. Subst(f[Depth], Shift(p)) = g[Depth]
  BY <1>1, <1>8
<1>10. Index = f[Depth] /\ Location(Neighbour(q)) = g[Depth]
  BY <1>4, <1>5, LocationIs, Zenon DEF Index
<1> QED BY <1>9, <1>10

(* A variable that is in none of the subscripts is not in the result. *)
LEMMA LeftOut ==
  ASSUME Depth \in Nat \ {0}, NEW e \in Exprs, NEW subs \in AnySubs,
         NEW v \in Vars, \A i \in Vars : subs[i].var # v
  PROVE  Subst(e, subs)[v] = 0
<1>1. PICK f : SumsUp(f, e, subs) /\ Subst(e, subs) = f[Depth]
  BY SubstSums
<1>2. v # 0 /\ v \in 0..Depth
  BY DEF Vars
<1> DEFINE S == {n \in Nat : n <= Depth => f[n][v] = 0}
<1>3. 0 \in S
  BY <1>1, <1>2 DEF SumsUp
<1>4. ASSUME NEW n \in Nat, n \in S
      PROVE  n + 1 \in S
  <2> SUFFICES ASSUME n + 1 <= Depth PROVE f[n + 1][v] = 0
    OBVIOUS
  <2> DEFINE m == n + 1
  <2>1. m \in Vars /\ m - 1 = n /\ m \in 0..Depth
    BY DEF Vars
  <2> HIDE DEF m
  <2>2. f[m] = [j \in 0..Depth |-> f[m - 1][j] + e[m] * Coef(subs[m], j)]
    BY <1>1, <2>1, Zenon DEF SumsUp
  <2>3. f[m][v] = f[m - 1][v] + e[m] * Coef(subs[m], v)
    BY <1>2, <2>2, Zenon
  <2>4. Coef(subs[m], v) = 0
    BY <1>2, <2>1 DEF Coef
  <2>5. f[m - 1][v] = 0 /\ e[m] \in Int
    BY <1>4, <2>1 DEF Exprs
  <2>6. f[m][v] = 0
    BY <2>3, <2>4, <2>5
  <2> QED BY <2>6 DEF m
<1>5. \A n \in Nat : n \in S
  <2> HIDE DEF S
  <2> QED BY <1>3, <1>4, Induct
<1> QED BY <1>1, <1>5

(* Every loop variable is in the location of a neighbour. *)
LEMMA EveryVariable ==
  ASSUME order \in Orders, NEW s \in [Vars -> Int], NEW v \in Vars
  PROVE  Location(Neighbour(s))[v] # 0
<1>1. Depth \in Nat \ {0} /\ order \in [Vars -> Vars] /\ Strides \in Exprs /\ Neighbour(s) \in AnySubs
  BY OrderFacts, NeighbourType
<1>2. PICK f : SumsUp(f, Strides, Neighbour(s)) /\ Location(Neighbour(s)) = f[Depth]
  BY <1>1, SubstSums, LocationIs
<1>3. PICK d \in Vars : order[d] = v
  BY OrderFacts
<1>4. v # 0 /\ v \in 0..Depth /\ d \in 1..Depth
  BY DEF Vars
<1>5. \A n \in Nat : f[n][v] \in Int
  <2>1. \A n \in Nat : f[n] \in Exprs
    BY <1>2 DEF SumsUp
  <2> QED BY <1>4, <2>1 DEF Exprs
<1> DEFINE S == {n \in Nat : n <= Depth => f[n][v] >= IF n >= d THEN 1 ELSE 0}
<1>6. 0 \in S
  <2>1. f[0][v] = 0
    BY <1>2, <1>4 DEF SumsUp
  <2> QED BY <2>1, <1>4
<1>7. ASSUME NEW n \in Nat, n \in S
      PROVE  n + 1 \in S
  <2> SUFFICES ASSUME n + 1 <= Depth PROVE f[n + 1][v] >= IF n + 1 >= d THEN 1 ELSE 0
    OBVIOUS
  <2> DEFINE m == n + 1
  <2>1. m \in Vars /\ m - 1 = n
    BY DEF Vars
  <2> HIDE DEF m
  <2>2. f[m] = [j \in 0..Depth |-> f[m - 1][j] + Strides[m] * Coef(Neighbour(s)[m], j)]
    BY <1>2, <2>1, Zenon DEF SumsUp
  <2>3. f[m][v] = f[m - 1][v] + Strides[m] * Coef(Neighbour(s)[m], v)
    BY <1>4, <2>2, Zenon
  <2>4. Coef(Neighbour(s)[m], v) = IF order[m] = v THEN 1 ELSE 0
    BY <1>4, <2>1 DEF Coef, Neighbour, Var
  <2>5. Strides[m] \in Nat \ {0}
    BY <2>1, OrderFacts
  <2>6. f[n][v] >= (IF n >= d THEN 1 ELSE 0) /\ f[n][v] \in Int
    BY <1>5, <1>7, <2>1, <1>1 DEF Vars
  <2>7. f[m][v] = f[n][v] + (IF order[m] = v THEN Strides[m] ELSE 0)
    <3>1. f[m - 1][v] = f[n][v]
      BY <2>1, Zenon
    <3> QED BY <2>3, <2>4, <2>5, <2>6, <3>1
  <2>8. m = d => order[m] = v
    BY <1>3
  <2>9. f[m][v] >= IF m >= d THEN 1 ELSE 0
    <3>1. m = n + 1
      BY DEF m
    <3>2. CASE m = d
      BY <1>4, <2>5, <2>6, <2>7, <2>8, <3>1, <3>2
    <3>3. CASE m # d
      BY <1>4, <2>5, <2>6, <2>7, <3>1, <3>3
    <3> QED BY <3>2, <3>3
  <2> QED BY <2>9 DEF m
<1>8. \A n \in Nat : n \in S
  <2> HIDE DEF S
  <2> QED BY <1>6, <1>7, Induct
<1> QED BY <1>1, <1>2, <1>4, <1>8

\* The strides tell apart the offsets read and those tried, of which no two are
\* more than w apart: what strides that are sizes of arrays do for all w at once.
StridesApart ==
  \E w \in Nat :
    /\ \A a \in Offsets, b \in Candidate : a - b <= w /\ b - a <= w
    /\ \A d \in 1..Len(Stride) : d < Len(Stride) => Stride[d + 1] >= (w + 1) * Stride[d]

(* A multiple of y is at least y away from zero, unless it is zero. *)
LEMMA FarFromZero ==
  ASSUME NEW x \in Int, NEW y \in Nat \ {0}, NEW e \in Int, x + y * e = 0, x < y, -x < y
  PROVE  x = 0 /\ e = 0
<1>1. ASSUME e >= 1 PROVE FALSE
  <2>1. y * e = y + y * (e - 1) /\ y * (e - 1) >= 0
    BY <1>1
  <2> QED BY <2>1
<1>2. ASSUME e <= -1 PROVE FALSE
  <2>1. y * e = -(y + y * (-e - 1)) /\ y * (-e - 1) >= 0
    BY <1>2
  <2> QED BY <2>1
<1>3. e = 0
  BY <1>1, <1>2
<1> QED BY <1>3

(* No multiple of y by a number up to w is further from zero than w * y. *)
LEMMA NearZero ==
  ASSUME NEW y \in Nat, NEW w \in Nat, NEW e \in Int, e <= w, -e <= w
  PROVE  y * e \in Int /\ y * w \in Int /\ y * e <= y * w /\ -(y * e) <= y * w
<1>1. y * w = y * e + y * (w - e) /\ y * (w - e) >= 0
  OBVIOUS
<1>2. y * w = -(y * e) + y * (w + e) /\ y * (w + e) >= 0
  OBVIOUS
<1> QED BY <1>1, <1>2

(* Neighbours at one location are the same, if the strides tell them apart. *)
LEMMA NeighboursApart ==
  ASSUME order \in Orders, StridesApart,
         NEW s \in [Vars -> Offsets], NEW t \in [Vars -> Candidate],
         Location(Neighbour(s)) = Location(Neighbour(t))
  PROVE  s = t
<1>1. PICK w \in Nat :
        /\ \A a \in Offsets, b \in Candidate : a - b <= w /\ b - a <= w
        /\ \A d \in 1..Len(Stride) : d < Len(Stride) => Stride[d + 1] >= (w + 1) * Stride[d]
  BY DEF StridesApart
<1>2. /\ Depth \in Nat \ {0} /\ Strides \in Exprs
      /\ \A d \in Vars : Strides[d] = Stride[d] /\ Strides[d] \in Nat \ {0}
  BY OrderFacts
<1>3. s \in [Vars -> Int] /\ t \in [Vars -> Int]
  <2>1. Offsets \subseteq Int /\ Candidate \subseteq Int
    BY ResugarAssumption DEF Candidate
  <2> QED BY <2>1
<1>4. Neighbour(s) \in AnySubs /\ Neighbour(t) \in AnySubs
  BY <1>3, NeighbourType
<1>5. PICK f : SumsUp(f, Strides, Neighbour(s)) /\ Location(Neighbour(s)) = f[Depth]
  BY <1>2, <1>4, SubstSums, LocationIs
<1>6. PICK g : SumsUp(g, Strides, Neighbour(t)) /\ Location(Neighbour(t)) = g[Depth]
  BY <1>2, <1>4, SubstSums, LocationIs
<1> DEFINE x(n) == f[n][0] - g[n][0]
           e(d) == s[d] - t[d]
<1>7. \A n \in Nat : f[n][0] \in Int /\ g[n][0] \in Int /\ x(n) \in Int
  <2>1. \A n \in Nat : f[n] \in Exprs /\ g[n] \in Exprs
    BY <1>5, <1>6 DEF SumsUp
  <2>2. 0 \in 0..Depth
    BY <1>2
  <2>3. \A n \in Nat : f[n][0] \in Int /\ g[n][0] \in Int
    BY <2>1, <2>2 DEF Exprs
  <2> QED BY <2>3
<1>8. x(0) = 0
  <2>1. 0 \in 0..Depth
    BY <1>2
  <2>2. f[0][0] = Strides[0] /\ g[0][0] = Strides[0]
    BY <1>5, <1>6, <2>1 DEF SumsUp
  <2> QED BY <1>7, <2>2
<1>9. \A d \in Vars : e(d) \in Int /\ e(d) <= w /\ -e(d) <= w
  BY <1>1, <1>3
<1>10. ASSUME NEW m \in Vars
       PROVE  x(m) = x(m - 1) + Strides[m] * e(m)
  <2>1. /\ f[m] = [j \in 0..Depth |-> f[m - 1][j] + Strides[m] * Coef(Neighbour(s)[m], j)]
        /\ g[m] = [j \in 0..Depth |-> g[m - 1][j] + Strides[m] * Coef(Neighbour(t)[m], j)]
    BY <1>5, <1>6, Zenon DEF SumsUp
  <2>2. 0 \in 0..Depth
    BY <1>2
  <2>3. /\ f[m][0] = f[m - 1][0] + Strides[m] * Coef(Neighbour(s)[m], 0)
        /\ g[m][0] = g[m - 1][0] + Strides[m] * Coef(Neighbour(t)[m], 0)
    BY <2>1, <2>2, Zenon
  <2>4. Coef(Neighbour(s)[m], 0) = s[m] /\ Coef(Neighbour(t)[m], 0) = t[m]
    BY DEF Coef, Neighbour, Var
  <2>5. /\ f[m][0] = f[m - 1][0] + Strides[m] * s[m]
        /\ g[m][0] = g[m - 1][0] + Strides[m] * t[m]
    BY <2>3, <2>4, Zenon
  <2>6. m - 1 \in Nat
    BY DEF Vars
  <2>7. f[m - 1][0] \in Int /\ g[m - 1][0] \in Int
    BY <1>7, <2>6
  <2>8. Strides[m] \in Int /\ s[m] \in Int /\ t[m] \in Int
    BY <1>2, <1>3
  <2>9. Strides[m] * (s[m] - t[m]) = Strides[m] * s[m] - Strides[m] * t[m]
        /\ Strides[m] * s[m] \in Int /\ Strides[m] * t[m] \in Int
    BY <2>8
  <2> QED BY <2>5, <2>7, <2>9
<1> HIDE DEF x, e
<1> DEFINE Small(n) == n # 0 => x(n) < (w + 1) * Strides[n] /\ -x(n) < (w + 1) * Strides[n]
           S == {n \in Nat : n <= Depth => Small(n)}
<1>11. ASSUME NEW m \in Vars, Small(m - 1)
       PROVE  x(m - 1) < Strides[m] /\ -x(m - 1) < Strides[m]
  <2>1. m - 1 \in Nat /\ (m # 1 => m - 1 \in Vars) /\ (m - 1) + 1 = m
    BY <1>2 DEF Vars
  <2>2. CASE m = 1
    BY <2>2, <1>2, <1>8
  <2>3. CASE m # 1
    <3>1. m - 1 \in 1..Len(Stride) /\ m - 1 < Len(Stride)
      <4>1. Depth <= Len(Stride) /\ Len(Stride) \in Int
        <5>1. Len(order) \in 1..Len(Stride)
          BY ResugarAssumption
        <5>2. Len(Stride) \in Int \/ 1..Len(Stride) \notin SUBSET Int
          OBVIOUS
        <5> QED BY <5>1, <1>2 DEF Depth
      <4> QED BY <4>1, <2>1, <2>3, <1>2 DEF Vars
    <3>2. Stride[m] >= (w + 1) * Stride[m - 1]
      BY <1>1, <2>1, <3>1
    <3>3. Strides[m] >= (w + 1) * Strides[m - 1]
      BY <1>2, <2>1, <2>3, <3>2
    <3>4. Strides[m] \in Int /\ (w + 1) * Strides[m - 1] \in Int /\ x(m - 1) \in Int
      BY <1>2, <1>7, <2>1, <2>3
    <3>5. x(m - 1) < (w + 1) * Strides[m - 1] /\ -x(m - 1) < (w + 1) * Strides[m - 1]
      BY <1>11, <2>1, <2>3 DEF Vars
    <3> HIDE DEF Small
    <3> QED BY <3>3, <3>4, <3>5
  <2> QED BY <2>2, <2>3
<1>12. ASSUME NEW n \in Nat, n \in S
       PROVE  n + 1 \in S
  <2> SUFFICES ASSUME n + 1 <= Depth PROVE Small(n + 1)
    OBVIOUS
  <2> DEFINE m == n + 1
  <2>1. m \in Vars /\ m - 1 = n /\ m \in Nat
    BY DEF Vars
  <2>2. Small(n)
    BY <1>12, <1>2
  <2> HIDE DEF m
  <2>3. x(n) < Strides[m] /\ -x(n) < Strides[m]
    <3>1. Small(m - 1)
      BY <2>1, <2>2
    <3> HIDE DEF Small
    <3> QED BY <1>11, <2>1, <3>1
  <2>4. x(m) = x(n) + Strides[m] * e(m)
    BY <1>10, <2>1
  <2>5. Strides[m] \in Nat /\ x(n) \in Int /\ e(m) \in Int /\ e(m) <= w /\ -e(m) <= w
    BY <1>2, <1>7, <1>9, <2>1
  <2>6. /\ Strides[m] * e(m) \in Int /\ Strides[m] * w \in Int
        /\ Strides[m] * e(m) <= Strides[m] * w /\ -(Strides[m] * e(m)) <= Strides[m] * w
    BY <2>5, NearZero
  <2>7. (w + 1) * Strides[m] = Strides[m] + Strides[m] * w
    <3>1. \A a \in Nat, b \in Nat : (b + 1) * a = a + a * b
      OBVIOUS
    <3> QED BY <2>5, <3>1
  <2>8. Small(m)
    BY <2>3, <2>4, <2>5, <2>6, <2>7
  <2> QED BY <2>8 DEF m
<1>13. \A n \in Nat : n \in S
  <2>1. 0 \in S
    OBVIOUS
  <2> HIDE DEF S
  <2> QED BY <2>1, <1>12, Induct
<1> DEFINE T == {n \in Nat : n <= Depth => (x(n) = 0 => \A d \in 1..n : s[d] = t[d])}
<1>14. ASSUME NEW n \in Nat, n \in T
       PROVE  n + 1 \in T
  <2> SUFFICES ASSUME n + 1 <= Depth, x(n + 1) = 0, NEW d \in 1..n + 1 PROVE s[d] = t[d]
    OBVIOUS
  <2> DEFINE m == n + 1
  <2>1. m \in Vars /\ m - 1 = n /\ m \in Nat
    BY DEF Vars
  <2>2. Small(n)
    BY <1>2, <1>13
  <2>3. x(m) = 0
    OBVIOUS
  <2> HIDE DEF m
  <2>4. x(n) < Strides[m] /\ -x(n) < Strides[m]
    <3>1. Small(m - 1)
      BY <2>1, <2>2
    <3> HIDE DEF Small
    <3> QED BY <1>11, <2>1, <3>1
  <2>5. x(n) + Strides[m] * e(m) = 0
    BY <1>10, <2>1, <2>3
  <2>6. x(n) = 0 /\ e(m) = 0
    <3>1. Strides[m] \in Nat \ {0} /\ x(n) \in Int /\ e(m) \in Int
      BY <1>2, <1>7, <1>9, <2>1
    <3> QED BY <3>1, <2>4, <2>5, FarFromZero
  <2>7. s[m] = t[m]
    BY <1>3, <2>1, <2>6 DEF e
  <2>8. \A c \in 1..n : s[c] = t[c]
    BY <1>2, <1>14, <2>6
  <2>9. d \in 1..n \/ d = m
    BY DEF m
  <2> QED BY <2>7, <2>8, <2>9
<1>15. \A n \in Nat : n \in T
  <2>1. 0 \in T
    OBVIOUS
  <2> HIDE DEF T
  <2> QED BY <2>1, <1>14, Induct
<1>16. x(Depth) = 0
  <2>1. f[Depth] = g[Depth]
    BY <1>5, <1>6
  <2>2. f[Depth][0] = g[Depth][0] /\ g[Depth][0] \in Int
    BY <1>2, <1>7, <2>1
  <2> QED BY <2>2 DEF x
<1>17. \A d \in Vars : s[d] = t[d]
  BY <1>2, <1>15, <1>16 DEF Vars
<1> QED BY <1>17

-------------------------------------------------------------------------------
(* The offsets tried. *)

Earlier(p, q) == \E i \in Vars : p[i] < q[i] /\ \A j \in Vars : j < i => p[j] = q[j]

(* The next offsets differ from the last ones where these can go on. *)
LEMMA FollowingIs ==
  ASSUME order \in Orders, pt \in [Vars -> Candidate], NEW k \in Vars, pt[k] # 1
  PROVE  \E i \in Vars : /\ pt[i] # 1 /\ \A j \in Vars : j > i => pt[j] = 1
                         /\ Following = [j \in Vars |-> IF j < i THEN pt[j]
                                                        ELSE IF j = i THEN pt[j] + 1 ELSE -2]
                         /\ Following \in [Vars -> Candidate]
<1> DEFINE T == {j \in Vars : pt[j] # 1}
           i == CHOOSE x \in T : \A y \in T : x >= y
<1>1. Depth \in Nat
  BY OrderFacts
<1>2. PICK m \in T : \A j \in T : j <= m
  <2>1. T \in SUBSET (1..Depth) /\ T # {}
    BY DEF Vars
  <2> HIDE DEF T
  <2> QED BY <1>1, <2>1, GreatestNumber
<1>3. T \subseteq Int
  BY DEF Vars
<1>4. \A j \in T : m >= j
  BY <1>2, <1>3
<1>5. i \in T /\ \A y \in T : i >= y
  <2> HIDE DEF T
  <2> QED BY <1>4, Zenon
<1>6. Following = [j \in Vars |-> IF j < i THEN pt[j] ELSE IF j = i THEN pt[j] + 1 ELSE -2]
  BY Zenon DEF Following, Max
<1> HIDE DEF i
<1>7. i \in Vars /\ pt[i] # 1 /\ \A j \in Vars : j > i => pt[j] = 1
  BY <1>3, <1>5
<1>8. pt[i] + 1 \in Candidate
  <2>1. pt[i] \in Candidate
    BY <1>7
  <2> QED BY <1>7, <2>1 DEF Candidate
<1>9. Following \in [Vars -> Candidate]
  <2>1. -2 \in Candidate
    BY DEF Candidate
  <2> QED BY <1>6, <1>8, <2>1
<1> QED BY <1>6, <1>7, <1>9

(* None is skipped. *)
LEMMA NoneSkipped ==
  ASSUME order \in Orders, pt \in [Vars -> Candidate],
         NEW q \in [Vars -> Candidate], Earlier(pt, q)
  PROVE  /\ \E k \in Vars : pt[k] # 1
         /\ q = Following \/ Earlier(Following, q)
<1>1. PICK k \in Vars : pt[k] < q[k] /\ \A j \in Vars : j < k => pt[j] = q[j]
  BY DEF Earlier
<1>2. \A j \in Vars : pt[j] \in -2..1 /\ q[j] \in -2..1 /\ j \in Int
  BY DEF Candidate, Vars
<1>3. pt[k] # 1
  BY <1>1, <1>2
<1>4. PICK i \in Vars : /\ pt[i] # 1 /\ \A j \in Vars : j > i => pt[j] = 1
                        /\ Following = [j \in Vars |-> IF j < i THEN pt[j]
                                                       ELSE IF j = i THEN pt[j] + 1 ELSE -2]
                        /\ Following \in [Vars -> Candidate]
  BY <1>3, FollowingIs
<1>5. k <= i
  BY <1>2, <1>3, <1>4
<1> SUFFICES q = Following \/ Earlier(Following, q)
  BY <1>3
<1>6. CASE k < i
  <2>1. Following[k] = pt[k] /\ \A j \in Vars : j < k => Following[j] = pt[j]
    BY <1>2, <1>4, <1>6
  <2> QED BY <1>1, <2>1 DEF Earlier
<1>7. CASE k = i
  <2>1. Following[i] = pt[i] + 1 /\ \A j \in Vars : /\ j < i => Following[j] = q[j]
                                                    /\ j > i => Following[j] = -2
    BY <1>1, <1>2, <1>4, <1>7
  <2>2. CASE q[i] # pt[i] + 1
    <3>1. Following[i] < q[i]
      BY <1>1, <1>2, <1>7, <2>1, <2>2
    <3> QED BY <2>1, <3>1 DEF Earlier
  <2>3. CASE q[i] = pt[i] + 1 /\ \E j \in Vars : q[j] # Following[j]
    <3> DEFINE T == {j \in Vars : q[j] # Following[j]}
    <3>1. T \in SUBSET Nat /\ T # {}
      BY <2>3 DEF Vars
    <3>2. PICK m \in T : \A j \in T : m <= j
      <4> HIDE DEF T
      <4> QED BY <3>1, LeastNumber
    <3>3. m > i
      BY <1>2, <2>1, <2>3, <3>2
    <3>4. Following[m] = -2 /\ q[m] # -2
      BY <2>1, <3>2, <3>3
    <3>5. Following[m] < q[m]
      BY <1>2, <3>2, <3>4
    <3>6. \A j \in Vars : j < m => Following[j] = q[j]
      BY <1>2, <3>2
    <3> QED BY <3>5, <3>6, <3>2 DEF Earlier
  <2>4. CASE \A j \in Vars : q[j] = Following[j]
    BY <1>4, <2>4
  <2> QED BY <2>1, <2>2, <2>3, <2>4
<1> QED BY <1>2, <1>3, <1>5, <1>6, <1>7

-------------------------------------------------------------------------------
(* The search. *)

Is(p) == \A d \in Vars : read[d] = Var(order[d], p[order[d]])

\* In a single loop the second phase starts with the loop variable.
SingleStart ==
  Depth = 1 /\ which = 1 => /\ expr[0] = 0 /\ expr[1] = 1
                            /\ rev[0] = 0 /\ rev[1] = 1

\* A neighbour whose offsets are tried is still ahead, until it is found.
Ahead ==
  \A p \in [Vars -> Candidate] : Is(p) =>
    /\ outcome # "none"
    /\ outcome = "looking" => Earlier(pt, p) \/ (p = pt /\ which = 0)

RInv == order \in Orders /\ ResugarTypeOK /\ SingleStart /\ Ahead

LEMMA IndexType ==
  ASSUME order \in Orders
  PROVE  Index \in Exprs
<1> DEFINE zero == [d \in Vars |-> 0]
<1>1. zero \in [Vars -> Int]
  OBVIOUS
<1>2. Own \in AnySubs
  <2> HIDE DEF zero
  <2>1. Neighbour(zero) \in AnySubs
    BY <1>1, NeighbourType
  <2> QED BY <2>1, OwnIs DEF zero
<1>3. Subst(Strides, Own) \in Exprs
  BY <1>2, OrderFacts, SubstSums
<1> QED BY <1>3, LocationIs DEF Index

(* One loop. *)
LEMMA SubstSingle ==
  ASSUME Depth = 1, NEW e \in Exprs, NEW subs \in AnySubs
  PROVE  /\ Subst(e, subs)[0] = e[0] + e[1] * subs[1].off
         /\ Subst(e, subs)[1] = e[1] * (IF subs[1].var = 1 THEN 1 ELSE 0)
<1>1. Vars = {1} /\ Depth \in Nat \ {0} /\ 1 - 1 = 0 /\ 0 \in 0..Depth /\ 1 \in 0..Depth
  BY DEF Vars
<1>2. PICK f : SumsUp(f, e, subs) /\ Subst(e, subs) = f[Depth]
  BY <1>1, SubstSums
<1>3. /\ f[0] = [j \in 0..Depth |-> IF j = 0 THEN e[0] ELSE 0]
      /\ f[1] = [j \in 0..Depth |-> f[1 - 1][j] + e[1] * Coef(subs[1], j)]
  <2>1. 1 \in Vars
    BY <1>1
  <2> QED BY <1>2, <2>1, Zenon DEF SumsUp
<1>4. f[0][0] = e[0] /\ f[0][1] = 0
  BY <1>1, <1>3
<1>5. /\ f[1][0] = f[1 - 1][0] + e[1] * Coef(subs[1], 0)
      /\ f[1][1] = f[1 - 1][1] + e[1] * Coef(subs[1], 1)
  BY <1>1, <1>3, Zenon
<1>6. Coef(subs[1], 0) = subs[1].off /\ Coef(subs[1], 1) = IF subs[1].var = 1 THEN 1 ELSE 0
  BY DEF Coef
<1>7. e[1] \in Int
  BY <1>1 DEF Exprs
<1>8. f[1][0] = e[0] + e[1] * subs[1].off
  BY <1>1, <1>4, <1>5, <1>6
<1>9. f[1][1] = 0 + e[1] * (IF subs[1].var = 1 THEN 1 ELSE 0)
  BY <1>1, <1>4, <1>5, <1>6
<1>10. f[1][1] = e[1] * (IF subs[1].var = 1 THEN 1 ELSE 0)
  BY <1>7, <1>9
<1> QED BY <1>2, <1>8, <1>10

LEMMA SingleIndex ==
  ASSUME order \in Orders, Depth = 1
  PROVE  Index[0] = 0 /\ Index[1] = 1 /\ order[1] = 1
<1> DEFINE zero == [d \in Vars |-> 0]
<1>1. zero \in [Vars -> Int] /\ Vars = {1}
  BY DEF Vars
<1>2. Own \in AnySubs
  <2> HIDE DEF zero
  <2>1. Neighbour(zero) \in AnySubs
    BY <1>1, NeighbourType
  <2> QED BY <2>1, OwnIs DEF zero
<1>3. Strides \in Exprs /\ Strides[1] = 1 /\ order[1] = 1
  BY <1>1, OrderFacts
<1>4. Strides[0] = 0
  BY DEF Strides
<1>5. Own[1] = Var(1, 0)
  BY <1>1, <1>3 DEF Own
<1>6. Own[1].off = 0 /\ Own[1].var = 1
  BY <1>5 DEF Var
<1>7. /\ Subst(Strides, Own)[0] = 0 + 1 * 0
      /\ Subst(Strides, Own)[1] = 1 * 1
  BY <1>2, <1>3, <1>4, <1>6, SubstSingle
<1> QED BY <1>3, <1>7, LocationIs DEF Index

Found == [Vars -> [var : 0..Depth, off : Candidate]]

LEMMA SearchTypes ==
  ASSUME RInv
  PROVE  /\ Depth \in Nat \ {0}
         /\ read \in AnySubs /\ expr \in Exprs /\ rev \in Exprs
         /\ Candidate \subseteq Int /\ pt \in [Vars -> Int] /\ Shifted = Shift(pt)
         /\ Shifted \in Found /\ Fixed \in Found /\ Reversed(Shifted) \in Found
         /\ Found \subseteq AnySubs
         /\ \A s \in Found : Reversed(s) \in Found
<1>1. Depth \in Nat \ {0}
  BY OrderFacts DEF RInv
<1>2. read \in AnySubs /\ Found \subseteq AnySubs /\ Candidate \subseteq Int
  <2>1. Offsets \subseteq Int /\ Candidate \subseteq Int
    BY ResugarAssumption DEF Candidate
  <2> QED BY <2>1 DEF RInv, ResugarTypeOK, Subscripts, AnySubs, Found
<1>3. expr \in Exprs /\ rev \in Exprs /\ pt \in [Vars -> Candidate]
  BY DEF RInv, ResugarTypeOK, Exprs
<1>4. Shifted = Shift(pt)
  BY DEF Shifted, Shift
<1>5. \A i \in Vars : i \in 0..Depth /\ 0 \in 0..Depth /\ pt[i] \in Candidate /\ 0 \in Candidate
  BY <1>1, <1>3 DEF Vars, Candidate
<1>6. Shifted \in Found /\ Fixed \in Found
  <2>1. \A i \in Vars : /\ Var(i, pt[i]) \in [var : 0..Depth, off : Candidate]
                        /\ (IF i = which THEN Var(0, pt[i]) ELSE Var(i, 0)) \in [var : 0..Depth, off : Candidate]
    BY <1>5 DEF Var
  <2> QED BY <2>1 DEF Shifted, Fixed, Found
<1>7. ASSUME NEW s \in Found
      PROVE  Reversed(s) \in Found
  <2>1. \A d \in Vars : Depth + 1 - d \in Vars
    BY <1>1 DEF Vars
  <2>2. \A d \in Vars : s[Depth + 1 - d] \in [var : 0..Depth, off : Candidate]
    BY <2>1 DEF Found
  <2> QED BY <2>2 DEF Reversed, Found
<1>8. pt \in [Vars -> Int]
  BY <1>2, <1>3
<1> QED BY <1>1, <1>2, <1>3, <1>4, <1>6, <1>7, <1>8

LEMMA InitRInv == ResugarInit => RInv
<1> SUFFICES ASSUME ResugarInit PROVE RInv
  OBVIOUS
<1>1. /\ order \in Orders /\ read \in [Vars -> Subscripts] /\ pt = [i \in Vars |-> -2]
      /\ which = 0 /\ expr = Index /\ rev = Index
      /\ outcome = "looking" /\ answer = <<>> /\ reverse = FALSE
  BY DEF ResugarInit
<1>2. Depth \in Nat \ {0} /\ Index \in [0..Depth -> Int]
  BY <1>1, OrderFacts, IndexType DEF Exprs
<1>3. pt \in [Vars -> Candidate] /\ which \in 0..Depth
  <2>1. -2 \in Candidate
    BY DEF Candidate
  <2> QED BY <1>1, <1>2, <2>1
<1>4. ResugarTypeOK
  BY <1>1, <1>2, <1>3 DEF ResugarTypeOK
<1>5. SingleStart
  BY <1>1 DEF SingleStart
<1>6. Ahead
  <2> SUFFICES ASSUME NEW p \in [Vars -> Candidate], p # pt PROVE Earlier(pt, p)
    BY <1>1 DEF Ahead
  <2> DEFINE T == {i \in Vars : p[i] # pt[i]}
  <2>1. T \in SUBSET Nat /\ T # {}
    <3>1. \E i \in Vars : p[i] # pt[i]
      BY <1>3
    <3> QED BY <3>1 DEF Vars
  <2>2. PICK m \in T : \A j \in T : m <= j
    <3> HIDE DEF T
    <3> QED BY <2>1, LeastNumber
  <2>3. \A j \in Vars : j < m => pt[j] = p[j]
    BY <2>2 DEF Vars
  <2>4. pt[m] < p[m]
    BY <1>1, <2>2 DEF Candidate
  <2> QED BY <2>2, <2>3, <2>4 DEF Earlier
<1> QED BY <1>1, <1>4, <1>5, <1>6 DEF RInv

(* What a step leaves alone. *)
LEMMA SameNest ==
  ASSUME order' = order, read' = read
  PROVE  Depth' = Depth /\ Vars' = Vars /\ \A p : Is(p)' = Is(p)
BY DEF Depth, Vars, Is

LEMMA FindRInv ==
  ASSUME RInv, NEW s \in Found, NEW r \in BOOLEAN, Find(s, r)
  PROVE  RInv'
<1>1. /\ outcome' = "found" /\ answer' = s /\ reverse' = r
      /\ UNCHANGED <<order, read, pt, which, expr, rev>>
  BY DEF Find
<1>2. Depth' = Depth /\ Vars' = Vars
  BY <1>1, SameNest
<1>3. ResugarTypeOK'
  BY <1>1, <1>2 DEF RInv, ResugarTypeOK, Found, Subscripts, Candidate
<1>4. SingleStart' /\ Ahead'
  BY <1>1, <1>2 DEF RInv, SingleStart, Ahead
<1> QED BY <1>1, <1>3, <1>4 DEF RInv

(* A neighbour is found when its offsets' turn comes. *)
LEMMA FoundInTurn ==
  ASSUME RInv, Is(pt)
  PROVE  Subst(Index, Shifted) = Location(read)
<1> DEFINE q == [d \in Vars |-> pt[order[d]]]
<1>1. pt \in [Vars -> Int] /\ Shifted = Shift(pt) /\ order \in Orders
  BY SearchTypes DEF RInv
<1>2. read = Neighbour(q)
  BY DEF Is, Neighbour, RInv, ResugarTypeOK
<1>3. Subst(Index, Shift(pt)) = Location(Neighbour(q))
  BY <1>1, ShiftedLocation
<1> QED BY <1>1, <1>2, <1>3

LEMMA GiveUpShiftedRInv ==
  ASSUME RInv, GiveUpShifted
  PROVE  RInv'
<1>1. /\ outcome = "looking" /\ which = 0 /\ Subst(Index, Shifted) # Location(read)
      /\ which' = 1 /\ expr' = Index /\ rev' = Index
      /\ UNCHANGED <<order, read, pt, outcome, answer, reverse>>
  BY DEF GiveUpShifted
<1>2. Depth' = Depth /\ Vars' = Vars /\ \A p : Is(p)' = Is(p)
  BY <1>1, SameNest
<1>3. Depth \in Nat \ {0} /\ Index \in [0..Depth -> Int]
  BY SearchTypes, IndexType DEF Exprs, RInv
<1>4. ResugarTypeOK'
  BY <1>1, <1>2, <1>3 DEF RInv, ResugarTypeOK, Subscripts, Candidate
<1>5. SingleStart'
  BY <1>1, <1>2, SingleIndex DEF SingleStart, RInv
<1>6. Ahead'
  <2> SUFFICES ASSUME NEW p \in [Vars -> Candidate], Is(p) PROVE Earlier(pt, p)
    BY <1>1, <1>2 DEF Ahead, Candidate, Earlier, RInv
  <2>1. Earlier(pt, p) \/ p = pt
    BY <1>1 DEF RInv, Ahead
  <2> QED BY <1>1, <2>1, FoundInTurn
<1> QED BY <1>1, <1>4, <1>5, <1>6 DEF RInv

LEMMA GiveUpFixedRInv ==
  ASSUME RInv, GiveUpFixed
  PROVE  RInv'
<1>1. /\ outcome = "looking" /\ which # 0
      /\ expr' = FixedExpr /\ rev' = FixedRev
      /\ UNCHANGED <<order, read, answer, reverse>>
      /\ \/ which < Depth /\ which' = which + 1 /\ UNCHANGED <<pt, outcome>>
         \/ which = Depth /\ which' = 0 /\ (\E i \in Vars : pt[i] # 1)
              /\ pt' = Following /\ UNCHANGED outcome
         \/ which = Depth /\ which' = 0 /\ (\A i \in Vars : pt[i] = 1)
              /\ outcome' = "none" /\ UNCHANGED pt
  BY DEF GiveUpFixed
<1>2. Depth' = Depth /\ Vars' = Vars /\ \A p : Is(p)' = Is(p)
  BY <1>1, SameNest
<1>3. /\ Depth \in Nat \ {0} /\ which \in 0..Depth /\ pt \in [Vars -> Candidate]
      /\ order \in Orders /\ Candidate' = Candidate
  BY SearchTypes DEF RInv, ResugarTypeOK, Candidate
<1>4. FixedExpr \in Exprs /\ FixedRev \in Exprs
  <2>1. /\ expr \in Exprs /\ rev \in Exprs
        /\ Fixed \in AnySubs /\ Reversed(Fixed) \in AnySubs
    BY SearchTypes
  <2> QED BY <1>3, <2>1, SubstSums DEF FixedExpr, FixedRev
<1>5. which' \in 0..Depth /\ pt' \in [Vars -> Candidate]
  <2>1. (\E i \in Vars : pt[i] # 1) => Following \in [Vars -> Candidate]
    BY <1>3, FollowingIs
  <2>2. which < Depth => which + 1 \in 0..Depth
    BY <1>3
  <2> QED BY <1>1, <1>3, <2>1, <2>2
<1>6. ResugarTypeOK'
  <2>1. outcome' \in {"looking", "none"}
    BY <1>1
  <2> QED BY <1>1, <1>2, <1>3, <1>4, <1>5, <2>1 DEF RInv, ResugarTypeOK, Subscripts, Exprs
<1>7. SingleStart'
  <2>1. ~(Depth = 1 /\ which' = 1)
    BY <1>1, <1>3
  <2> QED BY <1>2, <2>1 DEF SingleStart
<1>8. Ahead'
  <2> SUFFICES ASSUME NEW p \in [Vars -> Candidate], Is(p)
               PROVE  outcome' # "none" /\ (Earlier(pt', p) \/ (p = pt' /\ which' = 0))
    BY <1>1, <1>2, <1>3 DEF Ahead, Earlier
  <2>1. Earlier(pt, p)
    BY <1>1 DEF RInv, Ahead
  <2>2. (\E k \in Vars : pt[k] # 1) /\ (p = Following \/ Earlier(Following, p))
    BY <1>3, <2>1, NoneSkipped
  <2> QED BY <1>1, <2>1, <2>2
<1> QED BY <1>1, <1>6, <1>7, <1>8 DEF RInv

LEMMA SearchStep ==
  ASSUME RInv, ResugarNext \/ UNCHANGED resugarVars
  PROVE  RInv'
<1>1. CASE FindShifted
  <2>1. NeedToRev \in BOOLEAN
    BY DEF NeedToRev
  <2>2. Find(IF NeedToRev THEN Reversed(Shifted) ELSE Shifted, NeedToRev)
    BY <1>1 DEF FindShifted
  <2>3. (IF NeedToRev THEN Reversed(Shifted) ELSE Shifted) \in Found
    BY SearchTypes
  <2> QED BY <2>1, <2>2, <2>3, FindRInv
<1>2. CASE FindFixed
  <2>1. Fixed \in Found
    BY SearchTypes
  <2>2. Find(Fixed, TRUE) \/ Find(Fixed, FALSE)
    BY <1>2 DEF FindFixed
  <2> QED BY <2>1, <2>2, FindRInv
<1>3. CASE UNCHANGED resugarVars
  <2>1. UNCHANGED <<order, read, pt, which, expr, rev, outcome, answer, reverse>>
    BY <1>3 DEF resugarVars
  <2>2. Depth' = Depth /\ Vars' = Vars /\ \A p : Is(p)' = Is(p)
    BY <2>1, SameNest
  <2>3. ResugarTypeOK' /\ SingleStart' /\ Ahead'
    BY <2>1, <2>2 DEF RInv, ResugarTypeOK, SingleStart, Ahead, Earlier, Subscripts, Candidate
  <2> QED BY <2>1, <2>3 DEF RInv
<1> QED BY <1>1, <1>2, <1>3, GiveUpShiftedRInv, GiveUpFixedRInv DEF ResugarNext

(* Subscripts at the location of a neighbour leave no loop variable out. *)
LEMMA ShiftLeavesNothingOut ==
  ASSUME RInv, IsShift, NEW e \in Exprs, NEW subs \in AnySubs, NEW v \in Vars,
         \A i \in Vars : subs[i].var # v
  PROVE  Subst(e, subs) # Location(read)
<1> DEFINE s == [d \in Vars |-> read[d].off]
<1>1. read = Neighbour(s) /\ s \in [Vars -> Int]
  <2>1. Offsets \subseteq Int
    BY ResugarAssumption
  <2>2. \A d \in Vars : read[d] = Var(order[d], read[d].off) /\ read[d].off \in Int
    BY <2>1 DEF IsShift, RInv, ResugarTypeOK, Subscripts, Var
  <2>3. read \in [Vars -> Subscripts]
    BY DEF RInv, ResugarTypeOK
  <2> QED BY <2>2, <2>3 DEF Neighbour
<1>2. Location(read)[v] # 0
  <2> HIDE DEF s
  <2> QED BY <1>1, EveryVariable DEF RInv
<1>3. Subst(e, subs)[v] = 0
  BY SearchTypes, LeftOut
<1> QED BY <1>2, <1>3

(* need_to_rev is asked of an index function: one loop need not be reversed,  *)
(* more than one always are, in either order.                                 *)
LEMMA NeedToRevIs ==
  ASSUME RInv
  PROVE  NeedToRev <=> Depth > 1
<1> DEFINE at(k) == [i \in Vars |-> Var(0, k)]
           base == Subst(Index, at(1))[0]
<1>1. Depth \in Nat \ {0} /\ Index \in Exprs /\ 0 \in 0..Depth
  BY SearchTypes, IndexType DEF RInv
<1>2. \A k \in Int : at(k) \in AnySubs
  BY <1>1 DEF AnySubs, Var
<1>3. base \in Int
  <2> HIDE DEF at
  <2>1. at(1) \in AnySubs
    BY <1>2
  <2>2. Subst(Index, at(1)) \in Exprs
    BY <1>1, <2>1, SubstSums
  <2> QED BY <1>1, <2>2 DEF Exprs
<1>4. CASE Depth > 1
  <2>0. Depth # 1
    BY <1>4
  <2>1. NeedToRev <=> base # base + 1
    BY <2>0, Zenon DEF NeedToRev
  <2> QED BY <1>3, <1>4, <2>1
<1>5. CASE Depth = 1
  <2>1. Index[0] = 0 /\ Index[1] = 1
    BY <1>5, SingleIndex DEF RInv
  <2>2. ASSUME NEW k \in Int PROVE Subst(Index, at(k))[0] = k
    <3>1. at(k)[1] = Var(0, k) /\ at(k)[1].off = k
      BY <1>5 DEF Vars, Var
    <3>2. at(k) \in AnySubs
      BY <1>2
    <3> HIDE DEF at
    <3>3. Subst(Index, at(k))[0] = Index[0] + Index[1] * at(k)[1].off
      BY <1>1, <1>5, <3>2, SubstSingle
    <3> QED BY <2>1, <3>1, <3>3
  <2>3. NeedToRev <=> Subst(Index, at(2))[0] # base + 1
    BY <1>5, Zenon DEF NeedToRev
  <2>4. Subst(Index, at(2))[0] = 2 /\ base = 1
    BY <2>2
  <2> QED BY <1>5, <2>3, <2>4
<1> QED BY <1>1, <1>4, <1>5

(* The first phase finds a neighbour's own subscripts, if the strides tell    *)
(* neighbours apart, and in a single loop nothing else than neighbours.       *)
LEMMA ShiftedIsRight ==
  ASSUME RInv, StridesApart, FindShifted, ColumnMajor, IsShift \/ Depth = 1
  PROVE  answer' = read /\ (reverse' <=> Depth > 1)
<1>1. /\ Subst(Index, Shifted) = Location(read)
      /\ answer' = (IF NeedToRev THEN Reversed(Shifted) ELSE Shifted) /\ reverse' = NeedToRev
  BY DEF FindShifted, Find
<1> DEFINE q == [d \in Vars |-> pt[order[d]]]
           s == [d \in Vars |-> read[d].off]
<1>2. /\ Depth \in Nat \ {0} /\ order \in [Vars -> Vars] /\ pt \in [Vars -> Candidate]
      /\ pt \in [Vars -> Int] /\ order \in Orders /\ Shifted = Shift(pt)
      /\ read \in [Vars -> Subscripts] /\ Candidate \subseteq Int /\ Offsets \subseteq Int
  BY OrderFacts, SearchTypes, ResugarAssumption DEF RInv, ResugarTypeOK
<1>3. q \in [Vars -> Candidate] /\ q \in [Vars -> Int]
  BY <1>2
<1>4. Location(read) = Location(Neighbour(q))
  BY <1>1, <1>2, ShiftedLocation
<1>5. IsShift
  <2> SUFFICES ASSUME Depth = 1, ~IsShift PROVE FALSE
    OBVIOUS
  <2>1. Vars = {1} /\ order[1] = 1 /\ 1 \in Vars
    BY <1>2, SingleIndex DEF Vars
  <2>2. read[1].var # 1
    BY <2>1 DEF IsShift
  <2>3. Location(read)[1] = 0
    <3>1. Strides \in Exprs /\ read \in AnySubs
      BY <1>2, OrderFacts, SearchTypes
    <3> QED BY <1>2, <2>1, <2>2, <3>1, LeftOut, LocationIs
  <2>4. Location(Neighbour(q))[1] # 0
    <3> HIDE DEF q
    <3> QED BY <1>2, <1>3, <2>1, EveryVariable
  <2> QED BY <1>4, <2>3, <2>4
<1>6. read = Neighbour(s) /\ s \in [Vars -> Offsets]
  <2>1. \A d \in Vars : read[d] = Var(order[d], read[d].off) /\ read[d].off \in Offsets
    BY <1>2, <1>5 DEF IsShift, Subscripts, Var
  <2> QED BY <1>2, <2>1 DEF Neighbour
<1>7. s = q
  <2> HIDE DEF q, s
  <2> QED BY <1>2, <1>3, <1>4, <1>6, NeighboursApart
<1>8. \A d \in Vars : read[d] = Var(order[d], pt[order[d]]) /\ order[d] = Depth + 1 - d
  <2>1. \A d \in Vars : order[d] = Depth + 1 - d
    BY DEF ColumnMajor
  <2>2. \A d \in Vars : read[d] = Var(order[d], s[d]) /\ s[d] = pt[order[d]]
    <3>1. \A d \in Vars : read[d] = Var(order[d], s[d])
      <4> HIDE DEF s
      <4> QED BY <1>6 DEF Neighbour
    <3>2. \A d \in Vars : s[d] = pt[order[d]]
      <4> HIDE DEF s
      <4> QED BY <1>7
    <3> QED BY <3>1, <3>2
  <2> QED BY <2>1, <2>2
<1>9. CASE Depth > 1
  <2>1. \A d \in Vars : Depth + 1 - d \in Vars
    BY <1>2 DEF Vars
  <2>2. \A d \in Vars : Reversed(Shifted)[d] = read[d]
    BY <1>8, <2>1 DEF Reversed, Shifted
  <2>3. Reversed(Shifted) = read
    BY <1>2, <2>2 DEF Reversed
  <2> QED BY <1>1, <1>9, <2>3, NeedToRevIs
<1>10. CASE Depth = 1
  <2>1. \A d \in Vars : Shifted[d] = read[d]
    BY <1>8, <1>10, <1>2 DEF Vars, Shifted
  <2>2. Shifted = read
    BY <1>2, <2>1 DEF Shifted
  <2> QED BY <1>1, <1>10, <2>2, NeedToRevIs
<1> QED BY <1>2, <1>9, <1>10

(* The second phase finds, of these, only single elements in a single loop.   *)
LEMMA FixedIsRight ==
  ASSUME RInv, FindFixed, IsShift \/ Depth = 1
  PROVE  answer' = read /\ (reverse' <=> Depth > 1)
<1>1. /\ which # 0
      /\ \/ FixedExpr = Location(read) /\ Find(Fixed, FALSE)
         \/ FixedExpr # Location(read) /\ FixedRev = Location(read) /\ Find(Fixed, TRUE)
  BY DEF FindFixed
<1>2. /\ Depth \in Nat \ {0} /\ which \in Vars
      /\ expr \in Exprs /\ rev \in Exprs /\ Fixed \in AnySubs /\ Reversed(Fixed) \in AnySubs
      /\ read \in AnySubs /\ read \in [Vars -> Subscripts] /\ pt \in [Vars -> Int]
      /\ order \in Orders /\ Strides \in Exprs /\ Strides[1] = 1
  <2>1. which \in 0..Depth /\ read \in [Vars -> Subscripts] /\ order \in Orders
    BY DEF RInv, ResugarTypeOK
  <2>2. which \in Vars
    BY <1>1, <2>1 DEF Vars
  <2>3. Strides \in Exprs /\ Strides[1] = 1
    BY <2>1, OrderFacts
  <2>4. /\ Depth \in Nat \ {0} /\ read \in AnySubs /\ expr \in Exprs /\ rev \in Exprs
        /\ pt \in [Vars -> Int] /\ Fixed \in AnySubs /\ Reversed(Fixed) \in AnySubs
    BY SearchTypes
  <2> QED BY <2>1, <2>2, <2>3, <2>4
<1>3. ~IsShift
  <2> SUFFICES ASSUME IsShift PROVE FALSE
    OBVIOUS
  <2>1. \A i \in Vars : Fixed[i].var # which
    <3>1. \A i \in Vars : Fixed[i].var = IF i = which THEN 0 ELSE i
      BY DEF Fixed, Var
    <3> QED BY <1>1, <3>1
  <2>2. \A i \in Vars : Reversed(Fixed)[i].var # which
    <3>1. \A i \in Vars : Depth + 1 - i \in Vars /\ Reversed(Fixed)[i] = Fixed[Depth + 1 - i]
      BY <1>2 DEF Vars, Reversed
    <3> QED BY <2>1, <3>1
  <2>3. FixedExpr # Location(read) /\ FixedRev # Location(read)
    BY <1>2, <2>1, <2>2, ShiftLeavesNothingOut DEF FixedExpr, FixedRev
  <2> QED BY <1>1, <2>3
<1>4. Depth = 1 /\ Vars = {1} /\ which = 1 /\ 1 \in Vars
  BY <1>2, <1>3 DEF Vars
<1>5. expr[0] = 0 /\ expr[1] = 1 /\ rev[0] = 0 /\ rev[1] = 1
  BY <1>4 DEF RInv, SingleStart
<1>6. expr = rev
  <2>1. \A j \in 0..Depth : expr[j] = rev[j]
    <3>1. \A j \in 0..Depth : j = 0 \/ j = 1
      BY <1>4
    <3> QED BY <1>5, <3>1
  <2> QED BY <1>2, <2>1 DEF Exprs
<1>7. Reversed(Fixed) = Fixed
  <2>1. Reversed(Fixed)[1] = Fixed[1]
    BY <1>4 DEF Reversed
  <2> QED BY <1>2, <1>4, <2>1 DEF AnySubs
<1>8. FixedExpr = FixedRev
  BY <1>6, <1>7 DEF FixedExpr, FixedRev
<1>9. FixedExpr = Location(read) /\ Find(Fixed, FALSE)
  BY <1>1, <1>8
<1>10. read[1].var = 0
  <2>1. order[1] = 1
    BY <1>2, <1>4, SingleIndex
  <2>2. read[1].var # 1 /\ read[1].var \in 0..1
    BY <1>2, <1>3, <1>4, <2>1 DEF IsShift, Subscripts
  <2> QED BY <2>2
<1>11. read[1].off = pt[1]
  <2>1. Fixed[1] = Var(0, pt[1]) /\ Fixed[1].off = pt[1]
    BY <1>4 DEF Fixed, Var
  <2>2. FixedExpr[0] = expr[0] + expr[1] * Fixed[1].off
    BY <1>2, <1>4, SubstSingle DEF FixedExpr
  <2>3. Location(read)[0] = Strides[0] + Strides[1] * read[1].off
    BY <1>2, <1>4, SubstSingle, LocationIs
  <2>4. Strides[0] = 0
    BY <1>4 DEF Strides
  <2>5. read[1].off \in Int /\ pt[1] \in Int
    BY <1>2, <1>4 DEF AnySubs
  <2> QED BY <1>2, <1>5, <1>9, <2>1, <2>2, <2>3, <2>4, <2>5
<1>12. Fixed = read
  <2>1. read[1] = Var(0, pt[1])
    BY <1>2, <1>4, <1>10, <1>11 DEF AnySubs, Var
  <2>2. Fixed[1] = read[1]
    BY <1>4, <2>1 DEF Fixed
  <2> QED BY <1>2, <1>4, <2>2 DEF AnySubs
<1> QED BY <1>4, <1>9, <1>12 DEF Find

LEMMA RightStep ==
  ASSUME RInv, FoundIsRight, StridesApart, ResugarNext \/ UNCHANGED resugarVars
  PROVE  FoundIsRight'
<1> SUFFICES ASSUME (outcome = "found" /\ ColumnMajor /\ (IsShift \/ Depth = 1))'
             PROVE  (answer = read /\ (reverse <=> Depth > 1))'
  BY DEF FoundIsRight
<1>1. UNCHANGED <<order, read>>
  BY DEF ResugarNext, FindShifted, FindFixed, GiveUpShifted, GiveUpFixed, Find, resugarVars
<1>2. Depth' = Depth /\ Vars' = Vars
  BY <1>1, SameNest
<1>3. ColumnMajor /\ (IsShift \/ Depth = 1)
  BY <1>1, <1>2 DEF ColumnMajor, IsShift
<1>4. CASE FindShifted
  BY <1>1, <1>2, <1>3, <1>4, ShiftedIsRight
<1>5. CASE FindFixed
  BY <1>1, <1>2, <1>3, <1>5, FixedIsRight
<1>6. CASE GiveUpShifted \/ GiveUpFixed
  <2>1. outcome' # "found"
    BY <1>6 DEF GiveUpShifted, GiveUpFixed
  <2> QED BY <2>1
<1>7. CASE UNCHANGED resugarVars
  BY <1>2, <1>3, <1>7 DEF resugarVars, FoundIsRight
<1> QED BY <1>4, <1>5, <1>6, <1>7 DEF ResugarNext

LEMMA SearchAlone == [Next]_vars => ResugarNext \/ UNCHANGED resugarVars
BY DEF Next, vars, resugarVars

LEMMA SearchInvariant == Spec => []RInv
<1>1. Init => RInv
  BY InitRInv DEF Init
<1>2. RInv /\ [Next]_vars => RInv'
  BY SearchStep, SearchAlone
<1> QED BY <1>1, <1>2, PTL DEF Spec

(* In a nest whose outermost loop runs over the last dimension, the subscripts *)
(* found for a neighbour, or in a single loop for any element, are its own,   *)
(* provided that the strides tell the offsets apart, and the kernel's         *)
(* variables are to be reversed exactly if there are several                  *)
(* (IndexResugar.resugar's two phases and need_to_rev).                       *)
THEOREM NeighboursFoundRight == StridesApart => (Spec => []FoundIsRight)
<1> SUFFICES ASSUME StridesApart PROVE Spec => []FoundIsRight
  OBVIOUS
<1>1. Init => FoundIsRight
  BY DEF Init, ResugarInit, FoundIsRight
<1>2. RInv /\ FoundIsRight /\ [Next]_vars => FoundIsRight'
  BY RightStep, SearchAlone
<1> QED BY <1>1, <1>2, SearchInvariant, PTL DEF Spec

(* A neighbour that is not found has an offset that is not tried: the         *)
(* candidates of itertools.product are tried one after the other, none is     *)
(* skipped, and every loop variable plus its offset is the neighbour's        *)
(* location, whatever the strides are.                                        *)
THEOREM NoNeighbourMissed == Spec => []NoneOnlyOutside
<1>1. RInv => NoneOnlyOutside
  <2> SUFFICES ASSUME RInv, outcome = "none", IsShift, \A d \in Vars : read[d].off \in Candidate
               PROVE  FALSE
    BY DEF NoneOnlyOutside
  <2>1. /\ order \in [Vars -> Vars] /\ \A i \in Vars : \E d \in Vars : order[d] = i
        /\ \A d, c \in Vars : order[d] = order[c] => d = c
    BY OrderFacts DEF RInv
  <2> DEFINE of(i) == CHOOSE d \in Vars : order[d] = i
             p == [i \in Vars |-> read[of(i)].off]
  <2>2. \A i \in Vars : of(i) \in Vars /\ order[of(i)] = i
    BY <2>1
  <2>3. \A d \in Vars : of(order[d]) = d
    <3> HIDE DEF of
    <3> QED BY <2>1, <2>2
  <2> HIDE DEF of
  <2>4. p \in [Vars -> Candidate]
    BY <2>2
  <2>5. Is(p)
    <3> SUFFICES ASSUME NEW d \in Vars PROVE read[d] = Var(order[d], p[order[d]])
      BY DEF Is
    <3>1. p[order[d]] = read[d].off
      BY <2>1, <2>3
    <3>2. read[d] \in Subscripts /\ read[d].var = order[d]
      BY DEF RInv, ResugarTypeOK, IsShift
    <3> QED BY <3>1, <3>2 DEF Subscripts, Var
  <2> HIDE DEF p
  <2> QED BY <2>4, <2>5 DEF RInv, Ahead
<1> QED BY <1>1, SearchInvariant, PTL

-------------------------------------------------------------------------------
(* Lists of entries. *)

(* Before is transitive, and one of two texts is before the other.            *)
LEMMA LessTransitive ==
  ASSUME NEW p \in Seq(Nat), NEW q \in Seq(Nat), NEW r \in Seq(Nat), Less(p, q), Less(q, r)
  PROVE  Less(p, r)
<1>1. PICK k \in 1..Len(q) : /\ \A j \in 1..k - 1 : j <= Len(p) /\ p[j] = q[j]
                             /\ k > Len(p) \/ p[k] < q[k]
  BY DEF Less
<1>2. PICK l \in 1..Len(r) : /\ \A j \in 1..l - 1 : j <= Len(q) /\ q[j] = r[j]
                             /\ l > Len(q) \/ q[l] < r[l]
  BY DEF Less
<1>3. /\ Len(p) \in Nat /\ Len(q) \in Nat /\ Len(r) \in Nat
      /\ \A j \in 1..Len(p) : p[j] \in Nat
      /\ \A j \in 1..Len(q) : q[j] \in Nat
      /\ \A j \in 1..Len(r) : r[j] \in Nat
  OBVIOUS
<1>4. CASE k < l
  <2>1. k \in 1..l - 1 /\ k \in 1..Len(r) /\ q[k] = r[k]
    BY <1>2, <1>3, <1>4
  <2>2. \A j \in 1..k - 1 : j <= Len(p) /\ p[j] = r[j]
    <3> TAKE j \in 1..k - 1
    <3>1. j \in 1..l - 1
      BY <1>4
    <3> QED BY <1>1, <1>2, <3>1
  <2>3. k > Len(p) \/ p[k] < r[k]
    BY <1>1, <2>1
  <2> QED BY <2>1, <2>2, <2>3 DEF Less
<1>5. CASE l <= k
  <2>1. \A j \in 1..l - 1 : j <= Len(p) /\ p[j] = r[j]
    <3> TAKE j \in 1..l - 1
    <3>1. j \in 1..k - 1
      BY <1>5
    <3> QED BY <1>1, <1>2, <3>1
  <2>2. l > Len(p) \/ p[l] < r[l]
    <3> SUFFICES ASSUME l <= Len(p) PROVE p[l] < r[l]
      BY <1>3
    <3>1. l <= Len(q) /\ q[l] < r[l] /\ l \in 1..Len(p) /\ l \in 1..Len(q) /\ l \in 1..Len(r)
      BY <1>2, <1>3, <1>5
    <3>2. p[l] \in Nat /\ q[l] \in Nat /\ r[l] \in Nat
      BY <1>3, <3>1
    <3>3. CASE l < k
      <4>1. l \in 1..k - 1
        BY <3>3
      <4>2. p[l] = q[l]
        BY <1>1, <4>1
      <4> QED BY <3>1, <4>2
    <3>4. CASE l = k
      <4>1. p[l] < q[l]
        BY <1>1, <1>3, <3>1, <3>4
      <4>2. q[l] < r[l]
        BY <3>1
      <4>3. \A a, b, c \in Nat : a < b /\ b < c => a < c
        OBVIOUS
      <4> QED BY <3>2, <4>1, <4>2, <4>3
    <3> QED BY <1>5, <3>3, <3>4
  <2> QED BY <2>1, <2>2 DEF Less
<1> QED BY <1>4, <1>5

LEMMA LessTotal ==
  ASSUME NEW p \in Seq(Nat), NEW q \in Seq(Nat), p # q
  PROVE  Less(p, q) \/ Less(q, p)
<1>1. /\ Len(p) \in Nat /\ Len(q) \in Nat
      /\ \A j \in 1..Len(p) : p[j] \in Nat
      /\ \A j \in 1..Len(q) : q[j] \in Nat
  OBVIOUS
<1> DEFINE T == {k \in Nat : k >= 1 /\ (k > Len(p) \/ k > Len(q) \/ p[k] # q[k])}
<1>2. T \in SUBSET Nat /\ T # {}
  <2>1. Len(p) + 1 \in T
    BY <1>1
  <2> QED BY <2>1
<1>3. PICK m \in T : \A k \in T : m <= k
  <2> HIDE DEF T
  <2> QED BY <1>2, LeastNumber
<1>4. \A j \in 1..m - 1 : j <= Len(p) /\ j <= Len(q) /\ p[j] = q[j]
  <2> TAKE j \in 1..m - 1
  <2>1. j \in Nat /\ j >= 1 /\ j \notin T
    BY <1>3
  <2> QED BY <1>1, <2>1
<1>5. m \in 1..Len(p) \/ m \in 1..Len(q)
  <2> SUFFICES ASSUME m > Len(p), m > Len(q) PROVE FALSE
    BY <1>1, <1>3
  <2>1. Len(p) = Len(q)
    <3>1. ASSUME Len(p) < Len(q) PROVE FALSE
      <4>1. Len(q) \in 1..m - 1
        BY <1>1, <3>1
      <4> QED BY <1>1, <1>4, <3>1, <4>1
    <3>2. ASSUME Len(q) < Len(p) PROVE FALSE
      <4>1. Len(p) \in 1..m - 1
        BY <1>1, <3>2
      <4> QED BY <1>1, <1>4, <3>2, <4>1
    <3> QED BY <1>1, <3>1, <3>2
  <2>2. \A j \in 1..Len(q) : p[j] = q[j]
    BY <1>1, <1>4
  <2> QED BY <2>1, <2>2, Extensionality
<1>6. CASE m \in 1..Len(p) /\ m \in 1..Len(q)
  <2>1. p[m] < q[m] \/ q[m] < p[m]
    BY <1>1, <1>3, <1>6
  <2> QED BY <1>4, <1>6, <2>1 DEF Less
<1>7. CASE m \in 1..Len(p) /\ m > Len(q)
  BY <1>4, <1>7 DEF Less
<1>8. CASE m > Len(p) /\ m \in 1..Len(q)
  BY <1>4, <1>8 DEF Less
<1> QED BY <1>1, <1>3, <1>5, <1>6, <1>7, <1>8

(* Where of any two members one is before the other, members take all places. *)
LEMMA PlacesTaken ==
  ASSUME NEW S, IsFiniteSet(S), NEW before \in [S -> SUBSET S],
         \A e \in S : e \notin before[e],
         \A e, f \in S : e \in before[f] => before[e] \subseteq before[f],
         \A e, f \in S : e # f => e \in before[f] \/ f \in before[e],
         NEW k \in 1..Cardinality(S)
  PROVE  \E e \in S : Cardinality(before[e]) = k - 1
<1> DEFINE place == [e \in S |-> Cardinality(before[e])]
           T == 0..Cardinality(S) - 1
<1>1. Cardinality(S) \in Nat
  BY FS_CardinalityType
<1>2. ASSUME NEW e \in S
      PROVE  IsFiniteSet(before[e]) /\ Cardinality(before[e]) \in T
  <2>1. before[e] \in SUBSET S /\ before[e] # S
    OBVIOUS
  <2>2. IsFiniteSet(before[e]) /\ Cardinality(before[e]) <= Cardinality(S)
        /\ Cardinality(before[e]) # Cardinality(S)
    BY <2>1, FS_Subset
  <2>3. Cardinality(before[e]) \in Nat
    BY <2>2, FS_CardinalityType
  <2> QED BY <1>1, <2>2, <2>3
<1>3. ASSUME NEW e \in S, NEW f \in S, e \in before[f]
      PROVE  Cardinality(before[e]) # Cardinality(before[f])
  <2>1. before[e] \in SUBSET before[f] /\ before[e] # before[f]
    BY <1>3
  <2>2. IsFiniteSet(before[f])
    BY <1>2
  <2> QED BY <2>1, <2>2, FS_Subset
<1>4. place \in Injection(S, T)
  <2>1. place \in [S -> T] /\ \A e, f \in S : place[e] = place[f] => e = f
    BY <1>2, <1>3
  <2> QED BY <2>1 DEF Injection, IsInjective
<1>5. IsFiniteSet(T) /\ Cardinality(T) = Cardinality(S)
  <2>1. 0 \in Int /\ Cardinality(S) - 1 \in Int
    BY <1>1
  <2>2. IsFiniteSet(T) /\ Cardinality(T) = IF 0 > Cardinality(S) - 1 THEN 0 ELSE (Cardinality(S) - 1) - 0 + 1
    BY <2>1, FS_Interval
  <2> QED BY <1>1, <2>2
<1>6. place \in Surjection(S, T)
  <2> HIDE DEF place, T
  <2> QED BY <1>4, <1>5, FS_Injection
<1>7. k - 1 \in T
  BY <1>1
<1>8. PICK e \in S : place[e] = k - 1
  BY <1>6, <1>7 DEF Surjection
<1> QED BY <1>8

LEMMA GlueOrderOf ==
  ASSUME NEW S, IsFiniteSet(S), \A e \in S : GlueKey(e) \in Seq(Nat),
         \A e, f \in S : GlueKey(e) = GlueKey(f) => e = f
  PROVE  GlueOrder(S) \in Seq(S)
<1> DEFINE before == [e \in S |-> {f \in S : Less(GlueKey(f), GlueKey(e))}]
<1>1. Cardinality(S) \in Nat
  BY FS_CardinalityType
<1>2. /\ before \in [S -> SUBSET S]
      /\ \A e \in S : e \notin before[e]
      /\ \A e, f \in S : e \in before[f] => before[e] \subseteq before[f]
      /\ \A e, f \in S : e # f => e \in before[f] \/ f \in before[e]
  BY LessIrreflexive, LessTransitive, LessTotal
<1>3. \A e \in S : Cardinality(before[e]) = GluePlace(S, e)
  BY DEF GluePlace
<1> HIDE DEF before
<1>4. ASSUME NEW k \in 1..Cardinality(S)
      PROVE  (CHOOSE e \in S : GluePlace(S, e) = k - 1) \in S
  <2>1. PICK e \in S : Cardinality(before[e]) = k - 1
    BY <1>2, PlacesTaken
  <2> QED BY <1>3, <2>1
<1>5. GlueOrder(S) \in [1..Cardinality(S) -> S]
  BY <1>4 DEF GlueOrder
<1> QED BY <1>1, <1>5

LEMMA KernelOrderOf ==
  ASSUME NEW S, IsFiniteSet(S), \A e \in S : Text(e) \in Seq(Nat),
         \A e, f \in S : Text(e) = Text(f) => e = f
  PROVE  KernelOrder(S) \in Seq(S)
<1> DEFINE before == [e \in S |-> {f \in S : Less(Text(f), Text(e))}]
<1>1. Cardinality(S) \in Nat
  BY FS_CardinalityType
<1>2. /\ before \in [S -> SUBSET S]
      /\ \A e \in S : e \notin before[e]
      /\ \A e, f \in S : e \in before[f] => before[e] \subseteq before[f]
      /\ \A e, f \in S : e # f => e \in before[f] \/ f \in before[e]
  BY LessIrreflexive, LessTransitive, LessTotal
<1>3. \A e \in S : Cardinality(before[e]) = KernelPlace(S, e)
  BY DEF KernelPlace
<1> HIDE DEF before
<1>4. ASSUME NEW k \in 1..Cardinality(S)
      PROVE  (CHOOSE e \in S : KernelPlace(S, e) = k - 1) \in S
  <2>1. PICK e \in S : Cardinality(before[e]) = k - 1
    BY <1>2, PlacesTaken
  <2> QED BY <1>3, <2>1
<1>5. KernelOrder(S) \in [1..Cardinality(S) -> S]
  BY <1>4 DEF KernelOrder
<1> QED BY <1>1, <1>5

\* No variable is called like the second name of one that is read and written.
TextsApart ==
  \A vs \in Programs : \A u, v \in vs : u.mode = "inout" => v.name # u.name \o OutSuffix

\* What is not made yet.
Unmade ==
  /\ stage = "translate" => meta = {}
  /\ stage \in {"translate", "glue"} => glueArgs = <<>>
  /\ stage # "linked" => kernelArgs = <<>>

LEMMA UnmadeInvariant == Spec => []Unmade
<1>1. Init => Unmade
  BY DEF Init, AbiInit, Unmade
<1>2. Unmade /\ [Next]_vars => Unmade'
  BY DEF Next, vars, abiVars, Unmade, Translate, Glue, Kernel
<1> QED BY <1>1, <1>2, PTL DEF Spec

(* The entries made of a program's variables, and their names. *)
LEMMA MadeEntries ==
  ASSUME used \in Programs
  PROVE  /\ IsFiniteSet(Meta) /\ Meta \subseteq Entries
         /\ \A kinds : /\ Reads(kinds) \subseteq Meta /\ Writes(kinds) \subseteq Meta
                       /\ \A e, f \in Reads(kinds) : GlueKey(e) = GlueKey(f) => e = f
                       /\ \A e, f \in Writes(kinds) : GlueKey(e) = GlueKey(f) => e = f
         /\ \A e \in Meta : GlueKey(e) \in Seq(Nat) /\ Text(e) \in Seq(Nat)
         /\ TextsApart => \A e, f \in Meta : Text(e) = Text(f) => e = f
<1>1. /\ used \subseteq Variables /\ IsFiniteSet(used)
      /\ \A v \in used : v.name \in Seq(Nat) /\ v.mode \in Modes
      /\ \A u, v \in used : u.name = v.name => u = v
  BY UsedTypes
<1> DEFINE E(o) == {Entry(v, o) : v \in used}
<1>2. Meta \subseteq E(TRUE) \cup E(FALSE)
  BY DEF Meta
<1>3. Meta \subseteq Entries
  <2>1. \A v \in used : Entry(v, TRUE) \in Entries /\ Entry(v, FALSE) \in Entries
    BY <1>1 DEF Entry, Entries
  <2> QED BY <1>2, <2>1
<1>4. IsFiniteSet(Meta)
  <2>1. IsFiniteSet(E(TRUE)) /\ IsFiniteSet(E(FALSE))
    BY <1>1, EntriesFinite
  <2> HIDE DEF E
  <2> QED BY <1>2, <2>1, FS_Union, FS_Subset
<1>5. \A e \in Meta : e.of \in used /\ e = Entry(e.of, e.out) /\ e.out \in BOOLEAN
                      /\ (e.out => e.of.mode # "input") /\ (~e.out => e.of.mode # "output")
  <2> TAKE e \in Meta
  <2>1. CASE \E v \in used : e = Entry(v, v.mode = "output")
    <3>1. PICK v \in used : e = Entry(v, v.mode = "output")
      BY <2>1
    <3>2. e.of = v /\ e.out = (v.mode = "output")
      BY <3>1, EntryFields
    <3>3. v.mode \in Modes
      BY <1>1
    <3> QED BY <3>1, <3>2, <3>3
  <2>2. CASE \E v \in used : v.mode = "inout" /\ e = Entry(v, TRUE)
    <3>1. PICK v \in used : v.mode = "inout" /\ e = Entry(v, TRUE)
      BY <2>2
    <3>2. e.of = v /\ e.out = TRUE
      BY <3>1, EntryFields
    <3> QED BY <3>1, <3>2
  <2> QED BY <2>1, <2>2 DEF Meta
<1>6. \A kinds : Reads(kinds) \subseteq Meta /\ Writes(kinds) \subseteq Meta
  <2> TAKE kinds
  <2>1. Reads(kinds) \subseteq Meta
    <3> SUFFICES ASSUME NEW v \in used, v.mode \in {"input", "inout"}
                 PROVE  Entry(v, FALSE) \in Meta
      BY DEF Reads
    <3>1. Entry(v, v.mode = "output") = Entry(v, FALSE)
      BY DEF Entry
    <3> QED BY <3>1 DEF Meta
  <2>2. Writes(kinds) \subseteq Meta
    <3> SUFFICES ASSUME NEW v \in used, v.mode \in {"output", "inout"}
                 PROVE  Entry(v, TRUE) \in Meta
      BY DEF Writes
    <3>1. v.mode = "output" => Entry(v, v.mode = "output") = Entry(v, TRUE)
      BY DEF Entry
    <3> QED BY <3>1 DEF Meta
  <2> QED BY <2>1, <2>2
<1>7. \A e \in Meta : GlueKey(e) \in Seq(Nat)
  <2>1. \A p \in Seq(Nat) : p \o <<Colon>> \in Seq(Nat)
    BY DEF Colon
  <2> QED BY <1>1, <1>5, <2>1 DEF GlueKey
<1>8. \A e \in Meta : Text(e) = IF e.out /\ e.of.mode = "inout" THEN e.of.name \o OutSuffix ELSE e.of.name
  BY DEF Text
<1>9. \A e \in Meta : Text(e) \in Seq(Nat)
  <2>1. \A p \in Seq(Nat) : p \o OutSuffix \in Seq(Nat)
    BY OutSuffixType
  <2>2. \A e \in Meta : e.of.name \in Seq(Nat)
    BY <1>1, <1>5
  <2> QED BY <1>8, <2>1, <2>2, Zenon
<1>10. \A e, f \in Meta : GlueKey(e) = GlueKey(f) => e.of = f.of
  <2>1. \A p, q \in Seq(Nat) : p \o <<Colon>> = q \o <<Colon>> => p = q
    <3> TAKE p, q \in Seq(Nat)
    <3> HAVE p \o <<Colon>> = q \o <<Colon>>
    <3>1. <<Colon>> \in Seq(Nat) /\ Len(<<Colon>>) = 1
      BY DEF Colon
    <3> HIDE DEF Colon
    <3>2. /\ Len(p \o <<Colon>>) = Len(p) + 1 /\ Len(q \o <<Colon>>) = Len(q) + 1
          /\ \A k \in 1..Len(p) : (p \o <<Colon>>)[k] = p[k]
          /\ \A k \in 1..Len(q) : (q \o <<Colon>>)[k] = q[k]
      BY <3>1
    <3>3. Len(p) = Len(q) /\ \A k \in 1..Len(q) : p[k] = q[k]
      BY <3>2
    <3> QED BY <3>3, Extensionality
  <2> TAKE e, f \in Meta
  <2> HAVE GlueKey(e) = GlueKey(f)
  <2>2. e.of.name = f.of.name
    BY <1>1, <1>5, <2>1 DEF GlueKey
  <2> QED BY <1>1, <1>5, <2>2
<1>11. \A kinds : /\ \A e, f \in Reads(kinds) : GlueKey(e) = GlueKey(f) => e = f
                  /\ \A e, f \in Writes(kinds) : GlueKey(e) = GlueKey(f) => e = f
  <2> TAKE kinds
  <2>1. /\ \A e \in Reads(kinds) : e \in Meta /\ e = Entry(e.of, FALSE)
        /\ \A e \in Writes(kinds) : e \in Meta /\ e = Entry(e.of, TRUE)
    BY <1>6, EntryFields DEF Reads, Writes
  <2> QED BY <1>10, <2>1
<1>12. ASSUME TextsApart, NEW e \in Meta, NEW f \in Meta, Text(e) = Text(f)
       PROVE  e = f
  <2> DEFINE both(g) == g.out /\ g.of.mode = "inout"
  <2>1. \A u, v \in used : u.mode = "inout" => v.name # u.name \o OutSuffix
    BY <1>12 DEF TextsApart
  <2>2. \A p, q \in Seq(Nat) : p \o OutSuffix = q \o OutSuffix => p = q
    <3> TAKE p, q \in Seq(Nat)
    <3> HAVE p \o OutSuffix = q \o OutSuffix
    <3>1. /\ Len(p \o OutSuffix) = Len(p) + 4 /\ Len(q \o OutSuffix) = Len(q) + 4
          /\ \A k \in 1..Len(p) : (p \o OutSuffix)[k] = p[k]
          /\ \A k \in 1..Len(q) : (q \o OutSuffix)[k] = q[k]
      <4>1. ASSUME NEW r \in Seq(Nat), NEW x \in Seq(Nat), Len(x) = 4
            PROVE  Len(r \o x) = Len(r) + 4 /\ \A k \in 1..Len(r) : (r \o x)[k] = r[k]
        <5>1. Len(r \o x) = Len(r) + Len(x) /\ \A k \in 1..Len(r) : (r \o x)[k] = r[k]
          BY SuffixedText
        <5> QED BY <4>1, <5>1
      <4> QED BY <4>1, OutSuffixType
    <3>2. Len(p) = Len(q) /\ \A k \in 1..Len(q) : p[k] = q[k]
      BY <3>1
    <3> QED BY <3>2, Extensionality
  <2>3. /\ e.of \in used /\ f.of \in used
        /\ e.of.name \in Seq(Nat) /\ f.of.name \in Seq(Nat)
    BY <1>1, <1>5
  <2>4. e.of = f.of /\ (both(e) <=> both(f))
    <3>1. CASE both(e) /\ both(f)
      <4>1. e.of.name = f.of.name
        BY <1>8, <1>12, <2>2, <2>3, <3>1
      <4> QED BY <1>1, <2>3, <3>1, <4>1
    <3>2. CASE ~both(e) /\ ~both(f)
      <4>1. e.of.name = f.of.name
        BY <1>8, <1>12, <3>2
      <4> QED BY <1>1, <2>3, <3>2, <4>1
    <3>3. CASE both(e) /\ ~both(f)
      BY <1>8, <1>12, <2>1, <2>3, <3>3
    <3>4. CASE ~both(e) /\ both(f)
      BY <1>8, <1>12, <2>1, <2>3, <3>4
    <3> QED BY <3>1, <3>2, <3>3, <3>4
  <2>5. e.out <=> f.out
    <3>1. CASE e.of.mode = "inout"
      BY <2>4, <3>1
    <3>2. CASE e.of.mode # "inout"
      BY <1>1, <1>5, <2>3, <2>4, <3>2 DEF Modes
    <3> QED BY <3>1, <3>2
  <2>6. e.out = f.out
    BY <1>5, <2>5
  <2> QED BY <1>5, <2>4, <2>6
<1> QED BY <1>3, <1>4, <1>6, <1>7, <1>9, <1>11, <1>12

LEMMA SeqOfEntries ==
  ASSUME NEW S \in SUBSET Entries, NEW q \in Seq(S)
  PROVE  q \in Seq(Entries)
OBVIOUS

LEMMA GlueOrderEntries ==
  ASSUME used \in Programs, NEW kinds
  PROVE  GlueOrder(Reads(kinds)) \in Seq(Entries) /\ GlueOrder(Writes(kinds)) \in Seq(Entries)
<1>1. /\ IsFiniteSet(Meta) /\ Meta \subseteq Entries
      /\ Reads(kinds) \subseteq Meta /\ Writes(kinds) \subseteq Meta
      /\ \A e, f \in Reads(kinds) : GlueKey(e) = GlueKey(f) => e = f
      /\ \A e, f \in Writes(kinds) : GlueKey(e) = GlueKey(f) => e = f
      /\ \A e \in Meta : GlueKey(e) \in Seq(Nat)
  BY MadeEntries
<1>2. IsFiniteSet(Reads(kinds)) /\ IsFiniteSet(Writes(kinds))
  BY <1>1, FS_Subset
<1>3. GlueOrder(Reads(kinds)) \in Seq(Reads(kinds)) /\ GlueOrder(Writes(kinds)) \in Seq(Writes(kinds))
  BY <1>1, <1>2, GlueOrderOf
<1> QED BY <1>1, <1>3, SeqOfEntries

LEMMA KernelOrderEntries ==
  ASSUME used \in Programs, TextsApart, NEW S \in SUBSET Meta
  PROVE  KernelOrder(S) \in Seq(Entries)
<1>1. /\ IsFiniteSet(Meta) /\ Meta \subseteq Entries
      /\ \A e \in Meta : Text(e) \in Seq(Nat)
      /\ \A e, f \in Meta : Text(e) = Text(f) => e = f
  BY MadeEntries
<1>2. IsFiniteSet(S)
  BY <1>1, FS_Subset
<1>3. KernelOrder(S) \in Seq(S)
  BY <1>1, <1>2, KernelOrderOf
<1> QED BY <1>1, <1>3, SeqOfEntries

(* The types of both parts: every place in the lists of arguments is taken by *)
(* an entry, which needs names that no two entries share, and what is put in  *)
(* an expression makes an expression.                                         *)
THEOREM BackendTypes == TextsApart => (Spec => []TypeOK)
<1> SUFFICES ASSUME TextsApart PROVE Spec => []TypeOK
  OBVIOUS
<1>1. Spec => []IInv
  BY InitIInv, NextIInv, PTL DEF Spec
<1>2. IInv /\ Unmade /\ RInv => TypeOK
  <2> SUFFICES ASSUME IInv, Unmade, RInv PROVE TypeOK
    OBVIOUS
  <2>1. used \in Programs /\ stage \in {"translate", "glue", "backend", "linked"}
    BY DEF IInv
  <2>2. \A a, b \in Seq(Entries) : a \o b \in Seq(Entries)
    OBVIOUS
  <2>3. \A q \in Seq(Entries) : \A k \in DOMAIN q : q[k] \in Entries
    OBVIOUS
  <2>4. meta \subseteq Entries
    BY <2>1, MadeEntries DEF IInv, Unmade
  <2>5. \A k \in DOMAIN glueArgs : glueArgs[k] \in Entries
    <3>1. PassedArgs \in Seq(Entries)
      BY <2>1, <2>2, GlueOrderEntries DEF PassedArgs
    <3>2. glueArgs = <<>> \/ glueArgs = PassedArgs
      BY <2>1 DEF IInv, Unmade
    <3>3. <<>> \in Seq(Entries)
      OBVIOUS
    <3>4. glueArgs \in Seq(Entries)
      BY <3>1, <3>2, <3>3
    <3> QED BY <2>3, <3>4
  <2>6. \A k \in DOMAIN kernelArgs : kernelArgs[k] \in Entries
    <3>1. CASE stage = "linked"
      <4>1. meta = Meta /\ kernelArgs = DeclaredArgs
        BY <3>1 DEF IInv
      <4>2. KernelInputs \in SUBSET Meta /\ KernelScalars \in SUBSET Meta /\ Outputs \in SUBSET Meta
        BY <2>1, <4>1, MadeEntries DEF KernelInputs, KernelScalars, Unassigned, Outputs
      <4>3. DeclaredArgs \in Seq(Entries)
        <5>1. /\ KernelOrder(KernelInputs) \in Seq(Entries) /\ KernelOrder(KernelScalars) \in Seq(Entries)
              /\ KernelOrder(Outputs) \in Seq(Entries)
          BY <2>1, <4>2, KernelOrderEntries
        <5> QED BY <2>2, <5>1 DEF DeclaredArgs
      <4> QED BY <2>3, <4>1, <4>3
    <3>2. CASE stage # "linked"
      BY <3>2 DEF Unmade
    <3> QED BY <3>1, <3>2
  <2>7. used \subseteq Variables
    BY <2>1, UsedTypes
  <2> QED BY <2>1, <2>4, <2>5, <2>6, <2>7 DEF TypeOK, RInv
<1> QED BY <1>1, <1>2, SearchInvariant, UnmadeInvariant, PTL
===============================================================================
