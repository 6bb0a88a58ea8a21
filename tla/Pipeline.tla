------------------------------ MODULE Pipeline ------------------------------
(* From a Fortran source to a kernel, through files, in the order of the      *)
(* README's example: translator, stng-backend.py --generate-sketch, sketch,   *)
(* --generate-z3, z3, --generate-backend-code. A command may fail or be       *)
(* killed at any step; the user may then remove files and goes on with that   *)
(* command or starts over, but never goes on after a failure. The source may  *)
(* be edited at any time.                                                     *)
EXTENDS Interp

CONSTANTS Programs   \* versions of the source: the loop nest in each

ASSUME PipelineAssumption == Programs \in Seq(Seq(LoopType) \ {<<>>}) \ {<<>>}

VARIABLES source,    \* version of the source
          file,      \* what each file holds
          job, step, \* the command that runs
          got        \* the versions of what it has read

pipeVars == <<source, file, job, step, got>>
vars == <<pipeVars, interpVars>>

Files == {"glue", "ir", "sk", "skout", "z3", "kernel"}

\* A file is absent, opened and not written, or holds what was made of version
\* ir of the representation and, if the command read it, of a sketch's output
\* for version sk.
Versions == 0..Len(Programs)
Absent == [is |-> "absent", ir |-> 0, sk |-> 0]
Partial == [is |-> "partial", ir |-> 0, sk |-> 0]
Whole(v, w) == [is |-> "whole", ir |-> v, sk |-> w]

\* The commands, in the order they are run.
Jobs == {"translate", "sketch", "solve", "z3", "prove", "code"}
After(j) ==
  CASE j = "translate" -> "sketch"
    [] j = "sketch" -> "solve"
    [] j = "solve" -> "z3"
    [] j = "z3" -> "prove"
    [] j = "prove" -> "code"
    [] j = "code" -> "linked"
OutFile(j) == CASE j = "sketch" -> "sk" [] j = "z3" -> "z3" [] j = "code" -> "kernel"
BackendJobs == {"sketch", "z3", "code"}
NeedsOutput == {"z3", "code"}       \* --sketch-output-src

Init ==
  /\ source = 1 /\ file = [f \in Files |-> Absent]
  /\ job = "translate" /\ step = "start" /\ got = Absent
  /\ Idle

\* Leaving the interpreter.
Reset ==
  /\ phase' = "idle" /\ loops' = <<>> /\ s' = <<0, 0>> /\ arr' = Fresh /\ loop' = 0 /\ i' = 0
  /\ triesLeft' = 0 /\ guess' = [o \in {} |-> <<>>]

Done(j) == job' = After(j) /\ step' = "start" /\ got' = Absent
Fail == step' = "failed" /\ got' = Absent /\ UNCHANGED job

-----------------------------------------------------------------------------
\* The user.

Edit ==
  /\ source < Len(Programs) /\ job # "linked"
  /\ source' = source + 1
  /\ UNCHANGED <<file, job, step, got, interpVars>>

\* After a failure: any files are removed, and the same command or the first one
\* is run.
Again(gone) ==
  /\ step = "failed"
  /\ file' = [f \in Files |-> IF f \in gone THEN Absent ELSE file[f]]
  /\ job' \in {job, "translate"} /\ step' = "start"
  /\ UNCHANGED <<source, got, interpVars>>

Kill ==
  /\ job # "linked" /\ step \notin {"start", "failed"}
  /\ Fail /\ Reset
  /\ UNCHANGED <<source, file>>

-----------------------------------------------------------------------------
\* The translator: the representation is opened and written, then come the glue
\* and the assertions in front of it.

TranslateOpen ==
  /\ job = "translate" /\ step = "start"
  /\ file' = [file EXCEPT !["ir"] = Partial]
  /\ got' = Whole(source, 0) /\ step' = "write"
  /\ UNCHANGED <<source, job, interpVars>>

TranslateWrite ==
  /\ job = "translate" /\ step = "write"
  /\ file' = [file EXCEPT !["ir"] = got]
  /\ step' = "glue"
  /\ UNCHANGED <<source, job, got, interpVars>>

TranslateGlue ==
  /\ job = "translate" /\ step = "glue"
  /\ \/ file' = [file EXCEPT !["glue"] = got] /\ Done(job)
     \/ Fail /\ UNCHANGED file
  /\ UNCHANGED <<source, interpVars>>

-----------------------------------------------------------------------------
\* stng-backend.py. The files it reads are there or it fails; that they are whole
\* it cannot see.

Inputs == {"ir"} \cup (IF job \in NeedsOutput THEN {"skout"} ELSE {})

Read ==
  /\ job \in BackendJobs /\ step = "start"
  /\ \/ /\ \A f \in Inputs : file[f] # Absent
        /\ got' = [is |-> IF \A f \in Inputs : file[f].is = "whole" THEN "whole" ELSE "partial",
                   ir |-> file["ir"].ir,
                   sk |-> IF job \in NeedsOutput THEN file["skout"].ir ELSE 0]
        /\ IF job = "sketch"
           THEN step' = "interpret" /\ StartInterpreting(Programs[file["ir"].ir])
           ELSE step' = "output" /\ UNCHANGED interpVars
        /\ UNCHANGED job
     \/ /\ \E f \in Inputs : file[f] = Absent
        /\ Fail /\ UNCHANGED interpVars
  /\ UNCHANGED <<source, file>>

\* generate_generators of level 11.
Interpret ==
  /\ step = "interpret" /\ phase \in {"run", "guess"}
  /\ InterpNext
  /\ UNCHANGED pipeVars

EndInterpret ==
  /\ step = "interpret" /\ phase \in {"guessed", "error"}
  /\ IF phase = "guessed" THEN step' = "output" /\ UNCHANGED <<job, got>> ELSE Fail
  /\ Reset
  /\ UNCHANGED <<source, file>>

\* Mutant: a file that exists is left alone, and that is all right.
RefuseQuietly ==
  /\ job \in BackendJobs /\ step = "output" /\ file[OutFile(job)] # Absent
  /\ Done(job)
  /\ UNCHANGED <<source, file, interpVars>>

\* output: the test for the file, which comes when all the work is done.
Refuse ==
  /\ job \in BackendJobs /\ step = "output" /\ file[OutFile(job)] # Absent
  /\ Fail
  /\ UNCHANGED <<source, file, interpVars>>

Open ==
  /\ job \in BackendJobs /\ step = "output" /\ file[OutFile(job)] = Absent
  /\ file' = [file EXCEPT ![OutFile(job)] = Partial]
  /\ step' = "write"
  /\ UNCHANGED <<source, job, got, interpVars>>

Write ==
  /\ job \in BackendJobs /\ step = "write"
  /\ file' = [file EXCEPT ![OutFile(job)] = got]
  /\ Done(job)
  /\ UNCHANGED <<source, interpVars>>

-----------------------------------------------------------------------------
\* The solvers. The shell empties Sketch's output file; Z3 only says something,
\* which no command looks at.

SolveStart ==
  /\ job = "solve" /\ step = "start"
  /\ file' = [file EXCEPT !["skout"] = Partial]
  /\ got' = file["sk"] /\ step' = "solving"
  /\ UNCHANGED <<source, job, interpVars>>

SolveEnd ==
  /\ job = "solve" /\ step = "solving"
  /\ \/ got.is = "whole" /\ file' = [file EXCEPT !["skout"] = got] /\ Done(job)
     \/ Fail /\ UNCHANGED file
  /\ UNCHANGED <<source, interpVars>>

Prove ==
  /\ job = "prove" /\ step = "start"
  /\ IF file["z3"] # Absent THEN Done(job) ELSE Fail
  /\ UNCHANGED <<source, file, interpVars>>

Next ==
  \/ Edit \/ (\E gone \in SUBSET Files : Again(gone)) \/ Kill
  \/ TranslateOpen \/ TranslateWrite \/ TranslateGlue
  \/ Read \/ Interpret \/ EndInterpret \/ Refuse \/ Open \/ Write
  \/ SolveStart \/ SolveEnd \/ Prove

Spec == Init /\ [][Next]_vars

\* The interpreter is one process: it goes on as long as nobody stops it.
FairSpec == Spec /\ WF_vars(Interpret \/ EndInterpret)

-----------------------------------------------------------------------------
\* Properties.

TypeOK ==
  /\ InterpTypeOK
  /\ source \in Versions
  /\ job \in Jobs \cup {"linked"}
  /\ step \in {"start", "write", "glue", "interpret", "output", "solving", "failed"}
  /\ \A f \in Files : file[f].is \in {"absent", "partial", "whole"}
  /\ got.is # "partial"
  /\ step # "interpret" <=> phase = "idle"

\* When the last command has succeeded, and none was run after one that failed,
\* what is there is whole and of one version: the kernel belongs to the glue, and
\* the Z3 script is about it. Whatever was killed, refused, edited or removed.
ChainConsistent ==
  job = "linked" =>
    \E v \in Versions \ {0} :
      /\ file["kernel"] = Whole(v, v)
      /\ file["z3"] \in {Whole(v, v), Absent}
      /\ \A f \in {"glue", "ir", "sk", "skout"} : file[f] \in {Whole(v, 0), Absent}

\* A run that is not killed gets through the interpreter.
InterpreterEnds == step = "interpret" ~> step # "interpret"
=============================================================================
