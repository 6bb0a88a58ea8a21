---------------------------- MODULE PipelineProofs ----------------------------
(* Theorems about Pipeline, for any number of versions of the source, any     *)
(* programs in them, and any number of failures, kills, edits and restarts.   *)
EXTENDS Pipeline, Induction, TLAPS

FileStates == [is : {"absent", "partial", "whole"}, ir : Versions, sk : Versions]

PipeTypeOK ==
  /\ source \in 1..Len(Programs)
  /\ file \in [Files -> FileStates]
  /\ got \in FileStates
  /\ job \in Jobs \cup {"linked"}
  /\ step \in {"start", "write", "glue", "interpret", "output", "solving", "failed"}

\* What the files that commands before the one at job have made hold, if v is the
\* version that the translator was last run on.
FilesHold(v) ==
  /\ job # "translate" =>
       \A f \in {"glue", "ir"} : file[f] \in {Whole(v, 0), Absent}
  /\ job \notin {"translate", "sketch"} => file["sk"] \in {Whole(v, 0), Absent}
  /\ job \notin {"translate", "sketch", "solve"} => file["skout"] \in {Whole(v, 0), Absent}
  /\ job \notin {"translate", "sketch", "solve", "z3"} => file["z3"] \in {Whole(v, v), Absent}
  /\ job = "linked" => file["kernel"] = Whole(v, v)

\* What the command that runs has in hand.
GotHolds(v) ==
  /\ job = "linked" => step = "start"
  /\ job = "translate" /\ step \in {"write", "glue"} => got = Whole(v, 0)
  /\ job = "translate" /\ step = "glue" => file["ir"] = Whole(v, 0)
  /\ job = "sketch" /\ step \in {"interpret", "output", "write"} => got = Whole(v, 0)
  /\ job = "solve" /\ step = "solving" => got \in {Whole(v, 0), Absent}
  /\ job \in {"z3", "code"} /\ step \in {"output", "write"} => got = Whole(v, v)
  /\ step = "interpret" => job = "sketch"

Holds(v) == FilesHold(v) /\ GotHolds(v)

IInv == PipeTypeOK /\ \E v \in Versions \ {0} : Holds(v)

-------------------------------------------------------------------------------
(* The versions are numbered from 1, and there is one. *)
LEMMA VersionsAreNumbers ==
  /\ Len(Programs) \in Nat \ {0}
  /\ 0 \in Versions
  /\ 1..Len(Programs) = Versions \ {0}
<1>1. Len(Programs) \in Nat \ {0}
  <2>1. Programs \in Seq(Seq(LoopType) \ {<<>>}) /\ Programs # <<>>
    BY PipelineAssumption
  <2> QED BY <2>1
<1> QED BY <1>1 DEF Versions

(* The files the model distinguishes are what its constants say. *)
LEMMA FileStatesHave ==
  ASSUME NEW v \in Versions, NEW w \in Versions
  PROVE  /\ Absent \in FileStates /\ Partial \in FileStates /\ Whole(v, w) \in FileStates
         /\ Whole(v, w) # Absent /\ Whole(v, w) # Partial /\ Partial # Absent
         /\ Whole(v, w).is = "whole" /\ Whole(v, w).ir = v /\ Whole(v, w).sk = w
BY VersionsAreNumbers DEF FileStates, Absent, Partial, Whole

LEMMA InitIInv == Init => IInv
<1> SUFFICES ASSUME Init PROVE IInv OBVIOUS
<1>1. PipeTypeOK
  BY VersionsAreNumbers, FileStatesHave DEF Init, PipeTypeOK, Files, Jobs
<1>2. 1 \in Versions \ {0}
  BY VersionsAreNumbers
<1>3. Holds(1)
  BY DEF Init, Holds, FilesHold, GotHolds
<1> QED BY <1>1, <1>2, <1>3 DEF IInv

(* Every step keeps the types, and one version, the translator's. *)
LEMMA NextIInv == IInv /\ [Next]_vars => IInv'
<1> SUFFICES ASSUME IInv, [Next]_vars PROVE IInv' OBVIOUS
<1> USE VersionsAreNumbers DEF IInv
<1>1. PICK v \in Versions \ {0} : Holds(v)
  BY DEF IInv
<1>f. /\ Whole(v, 0) \in FileStates /\ Whole(v, v) \in FileStates
      /\ Absent \in FileStates /\ Partial \in FileStates
      /\ Whole(v, 0) # Absent /\ Whole(v, v) # Absent
      /\ Whole(v, 0).is = "whole" /\ Whole(v, 0).ir = v /\ Absent.is = "absent"
      /\ Whole(v, 0) = [is |-> "whole", ir |-> v, sk |-> 0]
      /\ Whole(v, v) = [is |-> "whole", ir |-> v, sk |-> v]
  BY FileStatesHave DEF Whole, Absent
<1>q. (PipeTypeOK /\ Holds(v))' => IInv'
  BY VersionsAreNumbers DEF Versions
<1>2. CASE Edit
  BY <1>1, <1>2, <1>q DEF Edit, PipeTypeOK, Holds, FilesHold, GotHolds
<1>3. ASSUME NEW gone \in SUBSET Files, Again(gone) PROVE IInv'
  BY <1>1, <1>3, <1>q, <1>f DEF Again, PipeTypeOK, Holds, FilesHold, GotHolds, Files, Jobs
<1>4. CASE Kill
  BY <1>1, <1>4, <1>q, <1>f DEF Kill, Fail, PipeTypeOK, Holds, FilesHold, GotHolds
<1>5. CASE TranslateOpen
  <2>1. source \in Versions \ {0}
    BY DEF PipeTypeOK
  <2>2. Whole(source, 0) \in FileStates
    BY <2>1, FileStatesHave
  <2>3. PipeTypeOK'
    BY <1>5, <1>f, <2>2 DEF TranslateOpen, PipeTypeOK, Files
  <2>4. Holds(source)'
    BY <1>5 DEF TranslateOpen, Holds, FilesHold, GotHolds
  <2> QED BY <2>1, <2>3, <2>4, <1>5 DEF Versions, TranslateOpen
<1>6. CASE TranslateWrite
  <2>1. PipeTypeOK'
    BY <1>1, <1>6, <1>f DEF TranslateWrite, PipeTypeOK
  <2>2. Holds(v)'
    BY <1>1, <1>6 DEF TranslateWrite, PipeTypeOK, Holds, FilesHold, GotHolds, Files
  <2> QED BY <2>1, <2>2, <1>q
<1>7. CASE TranslateGlue
  <2>1. PipeTypeOK'
    BY <1>1, <1>7, <1>f DEF TranslateGlue, PipeTypeOK, Done, Fail, After, Jobs
  <2>2. Holds(v)'
    BY <1>1, <1>7 DEF TranslateGlue, Done, Fail, After, PipeTypeOK, Holds, FilesHold, GotHolds, Files
  <2> QED BY <2>1, <2>2, <1>q
<1>8. CASE Read
  <2>1. CASE ~\A f \in Inputs : file[f] # Absent
    <3>1. UNCHANGED <<source, file, job>> /\ step' = "failed" /\ got' = Absent
      BY <1>8, <2>1 DEF Read, Fail
    <3>2. PipeTypeOK'
      BY <3>1, <1>f DEF PipeTypeOK
    <3>3. job # "linked"
      BY <1>8 DEF Read, BackendJobs
    <3>4. Holds(v)'
      BY <3>1, <3>3, <1>1 DEF Holds, FilesHold, GotHolds
    <3> QED BY <3>2, <3>4, <1>q
  <2>2. CASE \A f \in Inputs : file[f] # Absent
    <3>1. file["ir"] = Whole(v, 0)
      BY <1>1, <1>8, <2>2 DEF Read, BackendJobs, Inputs, Holds, FilesHold
    <3>2. job \in NeedsOutput => file["skout"] = Whole(v, 0)
      BY <1>1, <1>8, <2>2 DEF Read, Inputs, NeedsOutput, Holds, FilesHold
    <3>3. \A f \in Inputs : file[f].is = "whole"
      BY <3>1, <3>2, <1>f DEF Inputs
    <3>4. got' = Whole(v, IF job \in NeedsOutput THEN v ELSE 0)
      BY <1>8, <2>2, <3>1, <3>2, <3>3, <1>f DEF Read, Whole
    <3>5. UNCHANGED <<source, file, job>> /\ step' = IF job = "sketch" THEN "interpret" ELSE "output"
      BY <1>8, <2>2 DEF Read
    <3>6. job \in BackendJobs
      BY <1>8 DEF Read
    <3>7. PipeTypeOK'
      BY <3>4, <3>5, <1>f DEF PipeTypeOK
    <3>8. Holds(v)'
      BY <3>4, <3>5, <3>6, <1>1 DEF Holds, FilesHold, GotHolds, BackendJobs, NeedsOutput
    <3> QED BY <3>7, <3>8, <1>q
  <2> QED BY <2>1, <2>2
<1>9. CASE Interpret
  BY <1>1, <1>9, <1>q DEF Interpret, pipeVars, PipeTypeOK, Holds, FilesHold, GotHolds
<1>10. CASE EndInterpret
  BY <1>1, <1>10, <1>q, <1>f DEF EndInterpret, Fail, PipeTypeOK, Holds, FilesHold, GotHolds
<1>11. CASE Refuse
  BY <1>1, <1>11, <1>q, <1>f DEF Refuse, Fail, PipeTypeOK, Holds, FilesHold, GotHolds
<1>12. CASE Open
  <2>1. PipeTypeOK'
    BY <1>1, <1>12, <1>f DEF Open, PipeTypeOK
  <2>2. Holds(v)'
    BY <1>1, <1>12 DEF Open, PipeTypeOK, Holds, FilesHold, GotHolds, Files, OutFile, BackendJobs
  <2> QED BY <2>1, <2>2, <1>q
<1>13. CASE Write
  <2>1. PipeTypeOK'
    BY <1>1, <1>13, <1>f DEF Write, PipeTypeOK, Done, After, Jobs, BackendJobs
  <2>2. Holds(v)'
    BY <1>1, <1>13 DEF Write, PipeTypeOK, Done, After, Holds, FilesHold, GotHolds, Files, OutFile, BackendJobs
  <2> QED BY <2>1, <2>2, <1>q
<1>14. CASE SolveStart
  <2>1. PipeTypeOK'
    BY <1>1, <1>14, <1>f DEF SolveStart, PipeTypeOK, Files
  <2>2. Holds(v)'
    BY <1>1, <1>14 DEF SolveStart, PipeTypeOK, Holds, FilesHold, GotHolds, Files
  <2> QED BY <2>1, <2>2, <1>q
<1>15. CASE SolveEnd
  <2>1. PipeTypeOK'
    BY <1>1, <1>15, <1>f DEF SolveEnd, PipeTypeOK, Done, Fail, After, Jobs
  <2>2. Holds(v)'
    BY <1>1, <1>15, <1>f DEF SolveEnd, PipeTypeOK, Done, Fail, After, Holds, FilesHold, GotHolds, Files
  <2> QED BY <2>1, <2>2, <1>q
<1>16. CASE Prove
  <2>1. PipeTypeOK'
    BY <1>1, <1>16, <1>f DEF Prove, PipeTypeOK, Done, Fail, After, Jobs
  <2>2. Holds(v)'
    BY <1>1, <1>16, <1>f DEF Prove, PipeTypeOK, Done, Fail, After, Holds, FilesHold, GotHolds
  <2> QED BY <2>1, <2>2, <1>q
<1>17. CASE UNCHANGED vars
  BY <1>1, <1>17, <1>q DEF vars, pipeVars, PipeTypeOK, Holds, FilesHold, GotHolds
<1> QED
  BY <1>2, <1>3, <1>4, <1>5, <1>6, <1>7, <1>8, <1>9, <1>10, <1>11, <1>12, <1>13, <1>14, <1>15,
     <1>16, <1>17 DEF Next

LEMMA AlwaysIInv == Spec => []IInv
BY InitIInv, NextIInv, PTL DEF Spec

(* When the last command has succeeded, the files are whole and of one        *)
(* version: the kernel belongs to the glue, and the Z3 script is about it     *)
(* (stng-backend.py's commands, README.md's order).                           *)
THEOREM LinkedIsConsistent == Spec => []ChainConsistent
<1>1. IInv => ChainConsistent
  BY DEF IInv, Holds, FilesHold, ChainConsistent
<1> QED BY <1>1, AlwaysIInv, PTL

-------------------------------------------------------------------------------
\* The interpreter's state, as far as it matters to the files.
Symbols == (Outputs \cup {"in"}) \X Int

Runs ==
  /\ loops \in Seq(LoopType) /\ loops # <<>>
  /\ loop \in 1..Len(loops) + 1
  /\ triesLeft \in 1..Tries

InterpInv ==
  /\ phase \in {"idle", "run", "guess", "guessed", "error"}
  /\ loops \in Seq(LoopType)
  /\ phase = "run" => Runs
  /\ triesLeft \in 0..Tries /\ loop \in 0..Len(loops) + 1
  /\ DOMAIN guess \subseteq Outputs
  /\ arr \in [Outputs -> [Indices -> Symbols]]
  /\ i \in Int /\ s \in Int \X Int

TInv ==
  /\ InterpInv
  /\ got.is # "partial"
  /\ step # "interpret" <=> phase = "idle"

(* Arrays that nothing was stored in. *)
LEMMA FreshType == Fresh \in [Outputs -> [Indices -> Symbols]]
<1>1. Indices \subseteq Int
  BY InterpAssumption DEF Indices
<1> QED BY <1>1 DEF Fresh, Symbol, Symbols

(* An element that a list has is found at one of its indices. *)
LEMMA InListElement == \A n \in Int : InList(n) => Element(n) \in Indices
BY InterpAssumption DEF InList, Element, Indices

(* Loops start at an integer. *)
LEMMA FirstInt == \A l \in LoopType, sc \in Int \X Int : First(l, sc) \in Int
BY DEF First, LoopType

(* The outputs that a program assigns are outputs. *)
LEMMA AssignedOutputs == loops \in Seq(LoopType) => Assigned \subseteq Outputs
<1> SUFFICES ASSUME loops \in Seq(LoopType), NEW k \in DOMAIN loops PROVE loops[k].out \in Outputs
  BY DEF Assigned
<1>1. loops[k] \in LoopType
  OBVIOUS
<1> QED BY <1>1 DEF LoopType

(* Every version of the source is a nest. *)
LEMMA ProgramType ==
  ASSUME NEW v \in Versions \ {0}
  PROVE  Programs[v] \in Seq(LoopType) /\ Programs[v] # <<>>
<1>1. Programs \in Seq(Seq(LoopType) \ {<<>>}) /\ v \in 1..Len(Programs)
  BY PipelineAssumption, VersionsAreNumbers
<1>2. Programs[v] \in Seq(LoopType) \ {<<>>}
  BY <1>1
<1> QED BY <1>2

(* A step of the interpreter keeps its types, and does not leave it. *)
LEMMA InterpKeepsTypes == InterpInv /\ InterpNext => InterpInv' /\ (phase # "idle")'
<1> SUFFICES ASSUME InterpInv, InterpNext PROVE InterpInv' /\ (phase # "idle")'
  OBVIOUS
<1>t. Tries \in Nat \ {0} /\ ArraySize \in Nat \ {0} /\ Offset \in 0..ArraySize - 1
  BY InterpAssumption
<1>l. Len(loops) \in Nat
  BY DEF InterpInv
<1>1. CASE Iterate
  <2>1. loop \in 1..Len(loops) /\ loops[loop] \in LoopType
    BY <1>1, <1>l DEF Iterate, InterpInv, Runs
  <2>2. DOMAIN arr = Outputs /\ arr' \in [Outputs -> [Indices -> Symbols]]
    <3> DEFINE l == loops[loop]
               to == i + l.at + Offset
    <3>1. CASE arr' = arr
      BY <3>1 DEF InterpInv
    <3>2. CASE InList(to) /\ ~l.copies /\ InList(i + l.rd + Offset)
               /\ arr' = [arr EXCEPT ![l.out][Element(to)] = Value(l, i)]
      <4>1. l.out \in Outputs
        BY <2>1 DEF LoopType
      <4>2. Value(l, i) \in Symbols
        <5> SUFFICES Element(i + l.rd + Offset) \in Int
          BY DEF Value, Symbol, Symbols
        <5>1. i + l.rd + Offset \in Int
          <6>1. i \in Int
            BY DEF InterpInv
          <6>2. l.rd \in Int
            BY <2>1 DEF LoopType
          <6>3. Offset \in Int
            BY <1>t
          <6> HIDE DEF l
          <6> QED BY <6>1, <6>2, <6>3
        <5> QED BY <5>1, <3>2, InListElement DEF Indices
      <4>3. arr[l.out] \in [Indices -> Symbols]
        BY <4>1 DEF InterpInv
      <4>4. [arr[l.out] EXCEPT ![Element(to)] = Value(l, i)] \in [Indices -> Symbols]
        BY <4>2, <4>3
      <4> QED BY <3>2, <4>1, <4>4 DEF InterpInv
    <3> QED BY <1>1, <3>1, <3>2 DEF Iterate, InterpInv
  <2> QED BY <1>1, <2>2 DEF Iterate, InterpInv, Runs
<1>2. CASE NextLoop
  <2>1. i' \in Int
    <3>1. CASE loop < Len(loops)
      <4>1. loops[loop + 1] \in LoopType
        BY <1>2, <1>l, <3>1 DEF NextLoop, InterpInv, Runs
      <4> QED BY <1>2, <3>1, <4>1, FirstInt DEF NextLoop, InterpInv
    <3> QED BY <1>2, <3>1 DEF NextLoop, InterpInv
  <2> QED BY <1>2, <1>l, <2>1 DEF NextLoop, InterpInv, Runs
<1>3. CASE Finish
  BY <1>3 DEF Finish, InterpInv
<1>4. CASE Retry
  <2>1. s' \in Int \X Int /\ loops[1] \in LoopType
    <3>1. s' \in Scalars \X Scalars /\ Scalars \subseteq Int
      BY <1>4, InterpAssumption DEF Retry
    <3>2. loops \in Seq(LoopType) /\ 1 \in 1..Len(loops)
      BY <1>4, <1>l DEF Retry, InterpInv, Runs
    <3>3. s' \in Int \X Int
      BY ONLY <3>1
    <3>4. loops[1] \in LoopType
      BY ONLY <3>2
    <3> QED BY <3>3, <3>4
  <2>2. i' \in Int
    BY <1>4, <2>1, FirstInt DEF Retry
  <2> QED BY <1>4, <1>t, <1>l, <2>1, <2>2, FreshType DEF Retry, InterpInv, Runs
<1>5. ASSUME NEW o \in Assigned, Guess(o) PROVE InterpInv' /\ (phase # "idle")'
  BY <1>5, AssignedOutputs DEF Guess, InterpInv
<1>6. CASE Guessed
  BY <1>6 DEF Guessed, InterpInv
<1> QED BY <1>1, <1>2, <1>3, <1>4, <1>5, <1>6 DEF InterpNext

LEMMA InitTInv == Init => TInv
<1> SUFFICES ASSUME Init PROVE TInv
  OBVIOUS
<1>1. Tries \in Nat
  BY InterpAssumption
<1> QED BY <1>1, FreshType DEF Init, Idle, TInv, InterpInv, Absent

LEMMA NextTInv == IInv /\ TInv /\ [Next]_vars => TInv'
<1> SUFFICES ASSUME IInv, TInv, [Next]_vars PROVE TInv'
  OBVIOUS
<1>t. Tries \in Nat \ {0}
  BY InterpAssumption
<1>v. PICK v \in Versions \ {0} : Holds(v)
  BY DEF IInv
<1>w. /\ Whole(v, 0).is = "whole" /\ Whole(v, v).is = "whole" /\ Absent.is = "absent"
      /\ Whole(v, 0).ir = v
  BY DEF Whole, Absent
<1>r. Reset => InterpInv' /\ phase' = "idle"
  BY <1>t, FreshType DEF Reset, InterpInv
<1>u. UNCHANGED interpVars => InterpInv' /\ phase' = phase
  BY DEF interpVars, TInv, InterpInv, Runs, Indices
<1>1. CASE Edit \/ UNCHANGED vars
  BY <1>1, <1>u DEF Edit, vars, pipeVars, TInv
<1>2. ASSUME NEW gone \in SUBSET Files, Again(gone) PROVE TInv'
  BY <1>2, <1>u DEF Again, TInv
<1>3. CASE Kill
  BY <1>3, <1>r, <1>w DEF Kill, Fail, TInv
<1>4. CASE TranslateOpen \/ TranslateWrite \/ TranslateGlue
  <2>1. Whole(source, 0).is = "whole"
    BY DEF Whole
  <2> QED BY <1>4, <1>u, <1>w, <2>1 DEF TranslateOpen, TranslateWrite, TranslateGlue, Done, Fail, TInv
<1>5. CASE Read
  <2>1. CASE \E f \in Inputs : file[f] = Absent
    <3>1. Fail /\ UNCHANGED interpVars
      BY <1>5, <2>1 DEF Read
    <3> QED BY <1>5, <3>1, <1>u, <1>w DEF Read, Fail, TInv
  <2>2. CASE \A f \in Inputs : file[f] # Absent
    <3>1. file["ir"] = Whole(v, 0)
      BY <1>v, <1>5, <2>2 DEF Read, BackendJobs, Inputs, Holds, FilesHold
    <3>2. job \in NeedsOutput => file["skout"] = Whole(v, 0)
      BY <1>v, <1>5, <2>2 DEF Read, Inputs, NeedsOutput, Holds, FilesHold
    <3>3. \A f \in Inputs : file[f].is = "whole"
      BY <3>1, <3>2, <1>w DEF Inputs
    <3>4. got'.is = "whole"
      BY <1>5, <2>2, <3>3 DEF Read
    <3>5. CASE job = "sketch"
      <4>1. step' = "interpret" /\ StartInterpreting(Programs[v])
        BY <1>5, <2>2, <3>1, <3>5, <1>w DEF Read
      <4>2. loops' \in Seq(LoopType) /\ loops' # <<>> /\ Len(loops') \in Nat \ {0}
        BY <4>1, ProgramType DEF StartInterpreting
      <4>3. s' \in Int \X Int /\ Programs[v][1] \in LoopType
        <5>1. s' \in Scalars \X Scalars /\ Scalars \subseteq Int
          BY <4>1, InterpAssumption DEF StartInterpreting
        <5>2. s' \in Int \X Int
          BY ONLY <5>1
        <5>3. Programs[v] \in Seq(LoopType) /\ Programs[v] # <<>>
          BY ProgramType
        <5>4. Programs[v][1] \in LoopType
          BY ONLY <5>3
        <5> QED BY <5>2, <5>4
      <4>4. i' \in Int
        BY <4>1, <4>3, FirstInt DEF StartInterpreting
      <4>5. InterpInv' /\ phase' = "run"
        BY <4>1, <4>2, <4>3, <4>4, <1>t, FreshType DEF StartInterpreting, InterpInv, Runs, Indices
      <4> QED BY <4>1, <4>5, <3>4 DEF TInv
    <3>6. CASE job # "sketch"
      BY <1>5, <2>2, <3>4, <3>6, <1>u DEF Read, TInv
    <3> QED BY <3>5, <3>6
  <2> QED BY <2>1, <2>2
<1>6. CASE Interpret
  BY <1>6, InterpKeepsTypes DEF Interpret, pipeVars, TInv
<1>7. CASE EndInterpret
  BY <1>7, <1>r, <1>w DEF EndInterpret, Fail, TInv
<1>8. CASE Refuse \/ Open \/ Write
  BY <1>8, <1>u, <1>w DEF Refuse, Open, Write, Done, Fail, TInv
<1>9. CASE SolveStart
  <2>1. file["sk"] \in {Whole(v, 0), Absent}
    BY <1>9, <1>v DEF SolveStart, Holds, FilesHold
  <2> QED BY <1>9, <2>1, <1>u, <1>w DEF SolveStart, TInv
<1>10. CASE SolveEnd \/ Prove
  BY <1>10, <1>u, <1>w DEF SolveEnd, Prove, Done, Fail, TInv
<1> QED BY <1>1, <1>2, <1>3, <1>4, <1>5, <1>6, <1>7, <1>8, <1>9, <1>10 DEF Next

(* The types of the files, of the command and of the interpreter it runs; the *)
(* translator and the backend never have half of a file in hand.              *)
THEOREM PipelineTypes == Spec => []TypeOK
<1>1. TInv => InterpTypeOK
  BY DEF TInv, InterpInv, InterpTypeOK
<1>2. IInv => source \in Versions
  BY VersionsAreNumbers DEF IInv, PipeTypeOK
<1>3. IInv => \A f \in Files : file[f].is \in {"absent", "partial", "whole"}
  BY DEF IInv, PipeTypeOK, FileStates
<1>4. IInv /\ TInv => TypeOK
  BY <1>1, <1>2, <1>3 DEF TypeOK, IInv, PipeTypeOK, TInv
<1>5. IInv /\ TInv /\ [Next]_vars => TInv'
  BY NextTInv
<1> QED BY <1>4, <1>5, AlwaysIInv, InitTInv, PTL DEF Spec

-------------------------------------------------------------------------------
\* The guess.

Iterations(n) == First(loops[n], s)..End(loops[n], s) - 1

\* Iteration j of loop n stores in element k of o.
Stores(o, k, n, j) ==
  /\ n \in DOMAIN loops /\ loops[n].out = o /\ ~loops[n].copies
  /\ j \in Iterations(n) /\ Element(j + loops[n].at + Offset) = k

Executed(n, j) == n < loop \/ (n = loop /\ j < i)
Later(m, h, n, j) == m > n \/ (m = n /\ h > j)

\* An element holds what the last store that was executed left in it, if any.
LastStoreHolds ==
  \A o \in Outputs, k \in Indices :
    /\ (\A n, j : ~(Stores(o, k, n, j) /\ Executed(n, j))) => arr[o][k] = Symbol(o, k)
    /\ \A n, j : /\ Stores(o, k, n, j) /\ Executed(n, j)
                 /\ \A m, h : Stores(o, k, m, h) /\ Executed(m, h) => ~Later(m, h, n, j)
                 => arr[o][k] = Value(loops[n], j)

AsStored == \A o \in Outputs, k \in Indices : arr[o][k] = StoredAt(o, k, s)

\* During a try the last stores hold. A search for guesses has what the program
\* stores before it, or the fresh arrays after the last try, of which it guesses
\* nothing. The rest is what is to be shown.
GuessInv ==
  /\ phase = "run" => /\ loop <= Len(loops) => i >= First(loops[loop], s)
                      /\ LastStoreHolds
  /\ phase = "guess" => AsStored \/ (triesLeft = 0 /\ arr = Fresh)
  /\ (phase \in {"idle", "run"} \/ (phase = "guess" /\ triesLeft = 0 /\ arr = Fresh)) => DOMAIN guess = {}
  /\ GuessIsStored
  /\ FailsWithReason

(* The types of a loop of the program and its bounds. *)
LEMMA LoopFacts ==
  ASSUME InterpInv, NEW n \in DOMAIN loops
  PROVE  /\ n \in Nat /\ n <= Len(loops) /\ Len(loops) \in Nat
         /\ loops[n] \in LoopType /\ loops[n].at \in Int /\ loops[n].rd \in Int
         /\ loops[n].out \in Outputs /\ loops[n].copies \in BOOLEAN
         /\ First(loops[n], s) \in Int /\ End(loops[n], s) \in Int
<1>1. loops[n] \in LoopType /\ n \in 1..Len(loops) /\ Len(loops) \in Nat /\ s \in Int \X Int
  BY DEF InterpInv
<1>2. End(loops[n], s) \in Int
  BY <1>1 DEF End, LoopType
<1> QED BY <1>1, <1>2, FirstInt DEF LoopType

\* What the program stores depends on nothing else.
LEMMA SameStored ==
  ASSUME UNCHANGED <<loops, s>>
  PROVE  \A o, k : StoredAt(o, k, s)' = StoredAt(o, k, s)
BY DEF StoredAt

(* When all loops have ended, elements hold what the program stores. *)
LEMMA AllExecuted ==
  ASSUME InterpInv, LastStoreHolds, loop > Len(loops)
  PROVE  AsStored
<1> SUFFICES ASSUME NEW o \in Outputs, NEW k \in Indices
             PROVE  arr[o][k] = StoredAt(o, k, s)
  BY DEF AsStored
<1> DEFINE at(n, j) == Element(j + loops[n].at + Offset)
           T == {n \in DOMAIN loops : /\ loops[n].out = o /\ ~loops[n].copies
                                      /\ \E j \in Iterations(n) : at(n, j) = k}
           J(n) == {j \in Iterations(n) : at(n, j) = k}
<1>0. Len(loops) \in Nat /\ loop \in Int /\ DOMAIN loops = 1..Len(loops)
  BY DEF InterpInv
<1>1. \A n, j : Stores(o, k, n, j) => Executed(n, j) /\ n \in T /\ j \in J(n)
  <2> SUFFICES ASSUME NEW n, NEW j, Stores(o, k, n, j)
               PROVE  Executed(n, j) /\ n \in T /\ j \in J(n)
    OBVIOUS
  <2>1. n \in 1..Len(loops)
    BY <1>0 DEF Stores
  <2> QED BY <1>0, <2>1 DEF Stores, Executed
<1>2. StoredAt(o, k, s) = IF T = {} THEN Symbol(o, k) ELSE Value(loops[Max(T)], Max(J(Max(T))))
  BY Zenon DEF StoredAt, Iterations
<1>3. CASE T = {}
  BY <1>1, <1>2, <1>3 DEF LastStoreHolds
<1>4. CASE T # {}
  <2> DEFINE n == Max(T)
  <2>1. n \in T /\ \A m \in T : n >= m
    <3>1. T \in SUBSET (1..Len(loops))
      BY <1>0
    <3> HIDE DEF T
    <3>2. PICK m \in T : \A h \in T : h <= m
      BY <1>0, <1>4, <3>1, GreatestNumber
    <3>3. \E q \in T : \A h \in T : q >= h
      BY <1>0, <3>1, <3>2
    <3> QED BY <3>3, Zenon DEF Max
  <2> HIDE DEF n
  <2> DEFINE j == Max(J(n))
  <2>2. n \in DOMAIN loops /\ J(n) # {}
    BY <2>1
  <2>3. j \in J(n) /\ \A h \in J(n) : j >= h
    <3> DEFINE lo == First(loops[n], s)
               hi == End(loops[n], s)
               U == {h - lo + 1 : h \in J(n)}
    <3>1. lo \in Int /\ hi \in Int /\ \A h \in J(n) : h \in Int /\ lo <= h /\ h <= hi - 1
      BY <2>2, LoopFacts DEF Iterations
    <3>2. hi - lo \in Nat /\ U \in SUBSET (1..(hi - lo)) /\ U # {}
      <4> HIDE DEF lo, hi, J
      <4> QED BY <2>2, <3>1
    <3>3. PICK u \in U : \A v \in U : v <= u
      <4> HIDE DEF lo, hi, U
      <4> QED BY <3>2, GreatestNumber
    <3>4. \E h \in J(n) : \A g \in J(n) : h >= g
      <4> HIDE DEF lo, hi, J
      <4>1. PICK h \in J(n) : u = h - lo + 1
        OBVIOUS
      <4>2. \A g \in J(n) : g - lo + 1 <= h - lo + 1
        BY <3>3, <4>1
      <4> QED BY <3>1, <4>2
    <3> HIDE DEF J
    <3> QED BY <3>4, Zenon DEF Max
  <2>4. Stores(o, k, n, j) /\ Executed(n, j)
    <3>1. Stores(o, k, n, j)
      BY <2>1, <2>3 DEF Stores
    <3> QED BY <1>1, <3>1
  <2>5. ASSUME NEW m, NEW h, Stores(o, k, m, h)
        PROVE  ~Later(m, h, n, j)
    <3>1. m \in T /\ h \in J(m) /\ m \in Nat /\ n \in Nat
      <4>1. m \in T /\ h \in J(m)
        BY <1>1, <2>5
      <4> QED BY <1>0, <2>2, <4>1
    <3>2. n >= m /\ (m = n => j >= h) /\ (m = n => h \in Int) /\ j \in Int
      <4>1. First(loops[n], s) \in Int /\ End(loops[n], s) \in Int
        BY <2>2, LoopFacts
      <4> QED BY <2>1, <2>3, <3>1, <4>1 DEF Iterations
    <3> QED BY <3>1, <3>2 DEF Later
  <2> HIDE DEF j, T, J
  <2>6. arr[o][k] = Value(loops[n], j)
    BY <2>4, <2>5 DEF LastStoreHolds
  <2> QED BY <1>2, <1>4, <2>6 DEF n, j
<1> QED BY <1>3, <1>4

(* A try begins with nothing stored. *)
LEMMA NothingStored ==
  ASSUME InterpInv', loop' = 1, loops' # <<>>, i' = First(loops'[1], s'), arr' = Fresh
  PROVE  LastStoreHolds' /\ (loop <= Len(loops) => i >= First(loops[loop], s))'
<1>1. ASSUME NEW n \in DOMAIN loops'
      PROVE  n \in Nat /\ n >= 1 /\ First(loops'[n], s') \in Int /\ End(loops'[n], s') \in Int
  <2>1. loops'[n] \in LoopType /\ n \in 1..Len(loops') /\ Len(loops') \in Nat /\ s' \in Int \X Int
    BY DEF InterpInv
  <2>2. End(loops'[n], s') \in Int
    BY <2>1 DEF End, LoopType
  <2> QED BY <2>1, <2>2, FirstInt
<1>2. \A o, k, n, j : ~(Stores(o, k, n, j)' /\ Executed(n, j)')
  <2> SUFFICES ASSUME NEW o, NEW k, NEW n, NEW j, Stores(o, k, n, j)', Executed(n, j)' PROVE FALSE
    OBVIOUS
  <2>1. n \in DOMAIN loops' /\ j \in First(loops'[n], s')..End(loops'[n], s') - 1
    BY DEF Stores, Iterations, First, End
  <2>2. n < 1 \/ (n = 1 /\ j < First(loops'[1], s'))
    BY DEF Executed
  <2> QED BY <1>1, <2>1, <2>2
<1>3. \A o \in Outputs, k \in Indices : arr'[o][k] = Symbol(o, k)
  BY DEF Fresh
<1>4. LastStoreHolds'
  BY <1>2, <1>3 DEF LastStoreHolds, Symbol, Indices
<1>5. 1 \in DOMAIN loops'
  BY DEF InterpInv
<1> QED BY <1>1, <1>4, <1>5 DEF First

(* One more assignment is executed. *)
LEMMA IterateStores ==
  ASSUME InterpInv, GuessInv, Iterate, phase' = "run"
  PROVE  LastStoreHolds'
<1> DEFINE l == loops[loop]
           e == Element(i + l.at + Offset)
<1>1. /\ loop \in DOMAIN loops /\ i >= First(l, s) /\ i < End(l, s) /\ i \in Int
      /\ UNCHANGED <<loops, s, loop>> /\ i' = i + 1 /\ LastStoreHolds
      /\ InList(i + l.at + Offset)
      /\ arr' = IF l.copies THEN arr ELSE [arr EXCEPT ![l.out][e] = Value(l, i)]
  BY DEF Iterate, GuessInv, InterpInv, Runs
<1>2. /\ loop \in Nat /\ l \in LoopType /\ l.at \in Int /\ l.out \in Outputs /\ l.copies \in BOOLEAN
      /\ First(l, s) \in Int /\ End(l, s) \in Int
  BY <1>1, LoopFacts
<1>3. i \in Iterations(loop)
  BY <1>1, <1>2 DEF Iterations
<1>4. e \in Indices
  BY <1>1, <1>2, InListElement, InterpAssumption
<1> HIDE DEF e
<1>5. \A o, k, n, j : Stores(o, k, n, j)' = Stores(o, k, n, j)
  BY <1>1 DEF Stores, Iterations
<1>6. \A o, k, n, j : Stores(o, k, n, j) => n \in Nat /\ j \in Int
  <2> SUFFICES ASSUME NEW o, NEW k, NEW n, NEW j, Stores(o, k, n, j) PROVE n \in Nat /\ j \in Int
    OBVIOUS
  <2>1. n \in Nat /\ First(loops[n], s) \in Int /\ End(loops[n], s) \in Int
    BY LoopFacts DEF Stores
  <2> QED BY <2>1 DEF Stores, Iterations
<1>7. \A o, k, n, j : Stores(o, k, n, j) =>
        (Executed(n, j)' <=> Executed(n, j) \/ (n = loop /\ j = i))
  BY <1>1, <1>2, <1>6 DEF Executed
<1>8. \A o, k : Stores(o, k, loop, i) <=> l.out = o /\ ~l.copies /\ e = k
  BY <1>1, <1>3 DEF Stores, e
<1>9. \A n, j, m, h : Later(m, h, n, j)' = Later(m, h, n, j)
  BY DEF Later
<1>10. ASSUME NEW o \in Outputs, NEW k \in Indices
       PROVE  /\ (\A n, j : ~(Stores(o, k, n, j) /\ Executed(n, j)')) => arr'[o][k] = Symbol(o, k)
              /\ \A n, j : /\ Stores(o, k, n, j) /\ Executed(n, j)'
                           /\ \A m, h : Stores(o, k, m, h) /\ Executed(m, h)' => ~Later(m, h, n, j)
                           => arr'[o][k] = Value(loops[n], j)
  <2>1. CASE l.out = o /\ ~l.copies /\ e = k
    <3>0. Stores(o, k, loop, i)
      BY <1>8, <2>1, Zenon
    <3>1. \A n, j : n = loop /\ j = i => Stores(o, k, n, j) /\ Executed(n, j)'
      BY <1>7, <3>0, Zenon
    <3>2. arr'[o][k] = Value(l, i)
      BY <1>1, <1>2, <1>4, <2>1 DEF InterpInv
    <3>3. ASSUME NEW n, NEW j, Stores(o, k, n, j), Executed(n, j)', ~Later(loop, i, n, j)
          PROVE  n = loop /\ j = i
      <4>1. n \in Nat /\ j \in Int /\ (Executed(n, j) \/ (n = loop /\ j = i))
        BY <1>6, <1>7, <3>3
      <4> QED BY <1>1, <1>2, <3>3, <4>1 DEF Executed, Later
    <3> QED BY <3>1, <3>2, <3>3, Zenon
  <2>2. CASE ~(l.out = o /\ ~l.copies /\ e = k)
    <3>1. arr'[o][k] = arr[o][k]
      BY <1>1, <1>2, <1>4, <2>2 DEF InterpInv
    <3>2. ~Stores(o, k, loop, i)
      BY <1>8, <2>2
    <3>3. \A n, j : Stores(o, k, n, j) => (Executed(n, j)' <=> Executed(n, j))
      BY <1>7, <3>2
    <3>4. /\ (\A n, j : ~(Stores(o, k, n, j) /\ Executed(n, j))) => arr[o][k] = Symbol(o, k)
          /\ \A n, j : /\ Stores(o, k, n, j) /\ Executed(n, j)
                       /\ \A m, h : Stores(o, k, m, h) /\ Executed(m, h) => ~Later(m, h, n, j)
                       => arr[o][k] = Value(loops[n], j)
      BY <1>1 DEF LastStoreHolds
    <3> QED BY <3>1, <3>3, <3>4
  <2> QED BY <2>1, <2>2
<1>11. \A n, j : Value(loops[n], j)' = Value(loops[n], j)
  BY <1>1 DEF Value
<1>12. Indices' = Indices
  BY DEF Indices
<1> HIDE DEF l
<1> QED BY <1>5, <1>9, <1>10, <1>11, <1>12 DEF LastStoreHolds, Symbol

(* The next loop starts where nothing of it is executed. *)
LEMMA NextLoopStores ==
  ASSUME InterpInv, GuessInv, NextLoop
  PROVE  /\ LastStoreHolds'
         /\ (loop <= Len(loops) => i >= First(loops[loop], s))'
<1>1. /\ loop \in DOMAIN loops /\ i >= End(loops[loop], s) /\ i \in Int /\ loop \in Nat /\ Len(loops) \in Nat
      /\ UNCHANGED <<loops, s, arr>> /\ loop' = loop + 1 /\ LastStoreHolds
      /\ loop < Len(loops) => i' = First(loops[loop + 1], s)
  BY DEF NextLoop, GuessInv, InterpInv, Runs
<1>2. \A o, k, n, j : Stores(o, k, n, j)' = Stores(o, k, n, j)
  BY <1>1 DEF Stores, Iterations
<1>3. ASSUME NEW o, NEW k, NEW n, NEW j, Stores(o, k, n, j)
      PROVE  Executed(n, j)' <=> Executed(n, j)
  <2>1. /\ n \in DOMAIN loops /\ n \in Nat /\ n <= Len(loops) /\ j \in Iterations(n)
        /\ First(loops[n], s) \in Int /\ End(loops[n], s) \in Int
    BY <1>3, LoopFacts DEF Stores
  <2>2. j \in Int /\ First(loops[n], s) <= j /\ j < End(loops[n], s)
    BY <2>1 DEF Iterations
  <2>3. CASE n < loop
    BY <1>1, <2>1, <2>3 DEF Executed
  <2>4. CASE n = loop
    BY <1>1, <2>1, <2>2, <2>4 DEF Executed
  <2>5. CASE n = loop + 1
    BY <1>1, <2>1, <2>2, <2>5 DEF Executed
  <2>6. CASE n > loop + 1
    BY <1>1, <2>1, <2>6 DEF Executed
  <2> QED BY <1>1, <2>1, <2>3, <2>4, <2>5, <2>6
<1>4. \A n, j, m, h : Later(m, h, n, j)' = Later(m, h, n, j)
  BY DEF Later
<1>5. \A n, j : Value(loops[n], j)' = Value(loops[n], j)
  BY <1>1 DEF Value
<1>6. Indices' = Indices
  BY DEF Indices
<1>7. LastStoreHolds'
  <2>1. ASSUME NEW o \in Outputs, NEW k \in Indices
        PROVE  /\ (\A n, j : ~(Stores(o, k, n, j) /\ Executed(n, j)')) => arr[o][k] = Symbol(o, k)
               /\ \A n, j : /\ Stores(o, k, n, j) /\ Executed(n, j)'
                            /\ \A m, h : Stores(o, k, m, h) /\ Executed(m, h)' => ~Later(m, h, n, j)
                            => arr[o][k] = Value(loops[n], j)
    <3>1. /\ (\A n, j : ~(Stores(o, k, n, j) /\ Executed(n, j))) => arr[o][k] = Symbol(o, k)
          /\ \A n, j : /\ Stores(o, k, n, j) /\ Executed(n, j)
                       /\ \A m, h : Stores(o, k, m, h) /\ Executed(m, h) => ~Later(m, h, n, j)
                       => arr[o][k] = Value(loops[n], j)
      BY <1>1 DEF LastStoreHolds
    <3> QED BY <1>3, <3>1
  <2> QED BY <1>1, <1>2, <1>4, <1>5, <1>6, <2>1 DEF LastStoreHolds, Symbol
<1>8. (loop <= Len(loops) => i >= First(loops[loop], s))'
  <2> SUFFICES ASSUME loop + 1 <= Len(loops) PROVE First(loops[loop + 1], s) >= First(loops[loop + 1], s)
    BY <1>1 DEF First
  <2>1. First(loops[loop + 1], s) \in Int
    BY <1>1, LoopFacts
  <2> QED BY <2>1
<1> QED BY <1>7, <1>8

(* A guess is made of what the program has stored. *)
LEMMA GuessStep ==
  ASSUME InterpInv, GuessInv, NEW o \in Assigned, Guess(o)
  PROVE  GuessInv'
<1>1. /\ phase = "guess" /\ o \notin DOMAIN guess /\ UNCHANGED <<loops, s, arr, loop, i, triesLeft>>
      /\ o \in Outputs
  BY AssignedOutputs DEF Guess, InterpInv
<1>2. \A p, k : StoredAt(p, k, s)' = StoredAt(p, k, s)
  BY <1>1, SameStored
<1>3. AsStored' <=> AsStored
  BY <1>1, <1>2 DEF AsStored, Indices
<1>4. CASE ChangedIn(o) = {}
  <2>1. phase' = "error" /\ guess' = guess
    BY <1>4 DEF Guess, Searched
  <2>2. GuessIsStored'
    BY <1>1, <1>2, <2>1 DEF GuessInv, GuessIsStored, Symbol
  <2>3. \A k \in Indices : arr[o][k] = Symbol(o, k)
    BY <1>4 DEF ChangedIn
  <2>4. triesLeft = 0 \/ \E p \in Assigned : \A k \in Indices : StoredAt(p, k, s) = Symbol(p, k)
    BY <1>1, <2>3 DEF GuessInv, AsStored
  <2>5. FailsWithReason'
    BY <1>1, <1>2, <2>4 DEF FailsWithReason, Assigned, Indices, Symbol
  <2> QED BY <2>1, <2>2, <2>5 DEF GuessInv
<1>5. CASE ChangedIn(o) # {}
  <2> DEFINE k == Min(ChangedIn(o))
  <2>1. /\ phase' = "guess"
        /\ guess' = [p \in DOMAIN guess \cup {o} |-> IF p = o THEN <<k, arr[o][k]>> ELSE guess[p]]
    BY <1>1, <1>5 DEF Guess, Searched
  <2>2. k \in ChangedIn(o) /\ \A h \in ChangedIn(o) : k <= h
    <3>1. ChangedIn(o) \in SUBSET Nat
      BY InterpAssumption DEF ChangedIn, Indices
    <3>2. \E m \in ChangedIn(o) : \A h \in ChangedIn(o) : m <= h
      BY <1>5, <3>1, LeastNumber
    <3> QED BY <3>2, Zenon DEF Min
  <2> HIDE DEF k
  <2>3. k \in Indices /\ arr[o][k] # Symbol(o, k) /\ k \in Nat
    BY <2>2, InterpAssumption DEF ChangedIn, Indices
  <2>4. AsStored
    BY <1>1, <2>3 DEF GuessInv, Fresh
  <2>5. ASSUME NEW h \in 0..k - 1
        PROVE  StoredAt(o, h, s) = Symbol(o, h)
    <3>1. h \in Indices /\ ~(k <= h)
      BY <2>3, InterpAssumption DEF Indices
    <3>2. arr[o][h] = Symbol(o, h)
      BY <2>2, <3>1 DEF ChangedIn
    <3> QED BY <1>1, <2>4, <3>1, <3>2 DEF AsStored
  <2>6. ASSUME NEW p \in DOMAIN guess'
        PROVE  /\ guess'[p][2] = StoredAt(p, guess'[p][1], s) /\ guess'[p][2] # Symbol(p, guess'[p][1])
               /\ \A h \in 0..guess'[p][1] - 1 : StoredAt(p, h, s) = Symbol(p, h)
    <3>1. CASE p = o
      <4>1. guess'[p] = <<k, arr[o][k]>>
        BY <2>1, <3>1
      <4>2. guess'[p][1] = k /\ guess'[p][2] = arr[o][k]
        BY <4>1
      <4>3. arr[o][k] = StoredAt(o, k, s)
        BY <1>1, <2>3, <2>4 DEF AsStored
      <4> QED BY <2>3, <2>5, <3>1, <4>2, <4>3
    <3>2. CASE p # o
      <4>1. p \in DOMAIN guess /\ guess'[p] = guess[p]
        BY <2>1, <2>6, <3>2
      <4> QED BY <4>1 DEF GuessInv, GuessIsStored
    <3> QED BY <3>1, <3>2
  <2>7. GuessIsStored'
    BY <1>2, <2>6 DEF GuessIsStored, Symbol
  <2>8. ~(triesLeft' = 0 /\ arr' = Fresh')
    BY <1>1, <2>3 DEF Fresh
  <2>9. FailsWithReason'
    BY <2>1 DEF FailsWithReason
  <2> QED BY <1>3, <2>1, <2>4, <2>7, <2>8, <2>9 DEF GuessInv
<1> QED BY <1>4, <1>5

(* Every step of the interpreter keeps what elements and guesses are. *)
LEMMA InterpStep == InterpInv /\ GuessInv /\ InterpNext => GuessInv'
<1> SUFFICES ASSUME InterpInv, GuessInv, InterpNext PROVE GuessInv'
  OBVIOUS
<1>0. InterpInv'
  BY InterpKeepsTypes
<1>1. ASSUME DOMAIN guess = {}, guess' = guess
      PROVE  GuessIsStored' /\ DOMAIN guess' = {}
  BY <1>1 DEF GuessIsStored
<1>2. CASE Iterate
  <2>1. /\ phase = "run" /\ loop <= Len(loops) /\ DOMAIN guess = {} /\ guess' = guess /\ i \in Int
        /\ UNCHANGED <<loops, s, loop>> /\ loop \in DOMAIN loops
        /\ First(loops[loop], s) \in Int /\ i >= First(loops[loop], s)
    <3>1. loop \in DOMAIN loops
      BY <1>2 DEF Iterate, InterpInv, Runs
    <3> QED BY <1>2, <3>1, LoopFacts DEF Iterate, GuessInv, InterpInv
  <2>2. CASE phase' = "run"
    <3>1. i' = i + 1
      BY <1>2, <2>2 DEF Iterate
    <3>2. (loop <= Len(loops) => i >= First(loops[loop], s))'
      BY <2>1, <3>1 DEF First
    <3>3. LastStoreHolds'
      BY <1>2, <2>2, IterateStores
    <3> QED BY <1>1, <2>1, <2>2, <3>2, <3>3 DEF GuessInv, FailsWithReason
  <2>3. CASE phase' # "run"
    <3>1. /\ phase' = "error" /\ i' = i
          /\ ~(/\ InList(i + loops[loop].at + Offset)
               /\ loops[loop].copies \/ InList(i + loops[loop].rd + Offset))
      BY <1>2, <2>1, <2>3 DEF Iterate
    <3>2. FailsWithReason'
      BY <2>1, <3>1 DEF FailsWithReason, InList
    <3> QED BY <1>1, <2>1, <3>1, <3>2 DEF GuessInv
  <2> QED BY <2>2, <2>3
<1>3. CASE NextLoop
  <2>1. phase = "run" /\ phase' = "run" /\ DOMAIN guess = {} /\ guess' = guess
    BY <1>3 DEF NextLoop, GuessInv
  <2> QED BY <1>1, <1>3, <2>1, NextLoopStores DEF GuessInv, FailsWithReason
<1>4. CASE Finish
  <2>1. /\ phase = "run" /\ phase' = "guess" /\ loop > Len(loops) /\ LastStoreHolds
        /\ DOMAIN guess = {} /\ UNCHANGED <<loops, s, arr, guess>>
    BY <1>4 DEF Finish, GuessInv
  <2>2. AsStored
    BY <2>1, AllExecuted
  <2>3. AsStored'
    BY <2>1, <2>2, SameStored DEF AsStored, Indices
  <2> QED BY <1>1, <2>1, <2>3 DEF GuessInv, FailsWithReason
<1>5. CASE Retry
  <2>1. /\ phase = "run" /\ phase' \in {"run", "guess"} /\ DOMAIN guess = {} /\ guess' = guess
        /\ loop' = 1 /\ loops' = loops /\ loops # <<>> /\ arr' = Fresh /\ i' = First(loops[1], s')
        /\ phase' = "guess" => triesLeft' = 0
    BY <1>5, InterpAssumption DEF Retry, GuessInv, InterpInv, Runs
  <2>2. Fresh' = Fresh
    BY DEF Fresh, Indices, Symbol
  <2>3. LastStoreHolds' /\ (loop <= Len(loops) => i >= First(loops[loop], s))'
    BY <1>0, <2>1, NothingStored
  <2> QED BY <1>1, <2>1, <2>2, <2>3 DEF GuessInv, FailsWithReason
<1>6. ASSUME NEW o \in Assigned, Guess(o) PROVE GuessInv'
  BY <1>6, GuessStep
<1>7. CASE Guessed
  <2>1. phase = "guess" /\ phase' = "guessed" /\ UNCHANGED <<loops, s, guess>>
    BY <1>7 DEF Guessed
  <2>2. GuessIsStored'
    BY <2>1, SameStored DEF GuessInv, GuessIsStored, Symbol
  <2> QED BY <2>1, <2>2 DEF GuessInv, FailsWithReason
<1> QED BY <1>2, <1>3, <1>4, <1>5, <1>6, <1>7 DEF InterpNext

(* The rest of the build starts the interpreter and leaves it. *)
LEMMA NextGuessInv == IInv /\ TInv /\ GuessInv /\ [Next]_vars => GuessInv'
<1> SUFFICES ASSUME IInv, TInv, GuessInv, [Next]_vars PROVE GuessInv'
  OBVIOUS
<1>0. InterpInv'
  BY NextTInv DEF TInv
<1>1. CASE UNCHANGED interpVars
  <2>1. UNCHANGED <<loops, s, arr, loop, i, triesLeft, guess, phase>>
    BY <1>1 DEF interpVars
  <2>2. LastStoreHolds' <=> LastStoreHolds
    BY <2>1 DEF LastStoreHolds, Stores, Executed, Later, Iterations, Indices, Symbol
  <2>3. \A o, k : StoredAt(o, k, s)' = StoredAt(o, k, s)
    BY <2>1, SameStored
  <2>4. AsStored' <=> AsStored
    BY <2>1, <2>3 DEF AsStored, Indices
  <2>5. GuessIsStored'
    BY <2>1, <2>3 DEF GuessInv, GuessIsStored, Symbol
  <2>6. FailsWithReason'
    BY <2>1, <2>3 DEF GuessInv, FailsWithReason, Assigned, Indices, Symbol, InList
  <2>7. Fresh' = Fresh
    BY DEF Fresh, Indices, Symbol
  <2>8. (loop <= Len(loops) => i >= First(loops[loop], s))
          <=> (loop <= Len(loops) => i >= First(loops[loop], s))'
    BY <2>1 DEF First
  <2> QED BY <2>1, <2>2, <2>4, <2>5, <2>6, <2>7, <2>8 DEF GuessInv
<1>2. CASE Reset
  <2>1. phase' = "idle" /\ DOMAIN guess' = {}
    BY <1>2 DEF Reset
  <2> QED BY <2>1 DEF GuessInv, GuessIsStored, FailsWithReason
<1>3. CASE Interpret
  BY <1>3, InterpStep DEF Interpret, TInv
<1>4. ASSUME NEW program, StartInterpreting(program)
      PROVE  GuessInv'
  <2>1. /\ phase' = "run" /\ loop' = 1 /\ i' = First(loops'[1], s') /\ arr' = Fresh /\ DOMAIN guess' = {}
    BY <1>4 DEF StartInterpreting
  <2>2. loops' # <<>>
    BY <1>0, <2>1 DEF InterpInv, Runs
  <2>3. LastStoreHolds' /\ (loop <= Len(loops) => i >= First(loops[loop], s))'
    BY <1>0, <2>1, <2>2, NothingStored
  <2> QED BY <2>1, <2>3 DEF GuessInv, GuessIsStored, FailsWithReason
<1>5. CASE Read
  BY <1>1, <1>4, <1>5 DEF Read
<1>6. CASE Next /\ ~Read /\ ~Interpret
  BY <1>1, <1>2, <1>6
  DEF Next, Edit, Again, Kill, TranslateOpen, TranslateWrite, TranslateGlue, EndInterpret,
      Refuse, Open, Write, SolveStart, SolveEnd, Prove
<1>7. CASE UNCHANGED vars
  BY <1>1, <1>7 DEF vars
<1> QED BY <1>3, <1>5, <1>6, <1>7

(* Nothing is guessed before there is a program. *)
LEMMA InitGuessInv == Init => GuessInv
<1> SUFFICES ASSUME Init PROVE GuessInv
  OBVIOUS
<1>1. phase = "idle" /\ DOMAIN guess = {}
  BY DEF Init, Idle
<1> QED BY <1>1 DEF GuessInv, GuessIsStored, FailsWithReason

(* The invariant, with those of the files and types. *)
LEMMA AlwaysGuessInv == Spec => []GuessInv
<1>1. IInv /\ TInv /\ [Next]_vars => TInv'
  BY NextTInv
<1>2. IInv /\ TInv /\ GuessInv /\ [Next]_vars => GuessInv'
  BY NextGuessInv
<1> QED BY <1>1, <1>2, AlwaysIInv, InitTInv, InitGuessInv, PTL DEF Spec

(* A guess is the first element that the program changes, with the value of   *)
(* the last store to it, all for one try's scalars: outputs_changed, the      *)
(* retries and guess_postcondition never mix two tries.                       *)
THEOREM GuessesAreStored == Spec => []GuessIsStored
<1>1. GuessInv => GuessIsStored
  BY DEF GuessInv
<1> QED BY <1>1, AlwaysGuessInv, PTL

(* The interpreter fails only if no try changed anything, an output was not   *)
(* changed in the last one, or an element is outside the list.                *)
THEOREM FailuresHaveReasons == Spec => []FailsWithReason
<1>1. GuessInv => FailsWithReason
  BY DEF GuessInv
<1> QED BY <1>1, AlwaysGuessInv, PTL
===============================================================================
