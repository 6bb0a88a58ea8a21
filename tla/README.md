# A verification of STNG in TLA+

STNG lifts stencil loops out of Fortran programs. It finds loop nests, translates
each to a small intermediate representation (IR), synthesizes a *summary* of it
(what every output location holds after the nest), verifies the summary with
Sketch and Z3, and replaces the nest by a parallel Halide kernel that computes
the summary. The result is right if three things fit together:

1. the right nests are chosen, with the right variables, and the IR runs what the
   Fortran nest runs;
2. a summary that the solvers accept is what the IR nest computes;
3. the kernel, called through the generated glue, leaves the summary in the
   program's memory.

The modules here follow those three steps. The compiler is sequential and keeps
nothing between invocations other than its files; the only concurrent program in
the system is the generated kernel.

## 1. Inventory

### Frontend (`frontend/src`, C++ on ROSE)

`main.cpp` runs the passes below in a fixed order, on one AST, each leaving
attributes on the loops that the next ones read.

| component | state | operations | what makes it correct |
|---|---|---|---|
| `AttributeInitializer` | a `LoopAttribute` per loop | attach | every loop has one before any pass asks for it; all fields initialised |
| `StructureAnalyzer` | flags of each loop (depth, conditionals, calls, array use, complex assignments, pointers) | six visitors, flags go up through enclosing loops | a flag set in a nest reaches its outermost loop |
| `LoopLabeler` | loop numbers | label candidates; withdraw some in a second pass | labelled loops are outermost, numbers are unique |
| `VariableIdentifier` | used, sketch and induction variables of a loop | collect | everything the nest mentions is an argument of the glue |
| `LoopVarAnalyzer` | a mode per variable (Unknown, Input, Output, InOut); a classification of index expressions | `setMode` at every use | a mode is the union of the uses, whatever their order |
| `IRTranslator` | the IR tree | DO to while, array element to linear location, assignments | the iterations and the distinctness of locations survive |
| `TimeInstrumentor` | timer calls | insert around loops, functions, returns | every path that starts a timer records it |
| `LoopReplacer`, `HalideCodeGenerator` | call sites, glue function, buffer descriptors | extents, strides, mins, host offset | a buffer coordinate and the Fortran index it stands for have one address |

### Backend (`backend`, Python)

| component | state | operations | what makes it correct |
|---|---|---|---|
| `stng-backend.py` | the files between steps | generate sketch; process result and generate Z3; generate code | a step reads what the step before it produced |
| `parse_ir.py`, `stencil_ir.py` | IR tree | parse, unparse | (no state of their own) |
| `verify.py` | list of conditions | weakest preconditions, one condition per loop entry, body, exit | the conditions imply the postcondition |
| `generate_sketch.py` and templates | loop mins and maxs, invariants, generators | `I`, `I__2`, postcondition, assumptions | the templates mean what the conditions need |
| `generate_z3.py` and templates | the same for Z3 | the same | unsat means the summary is right |
| `interpret.py` | symbolic state, scalars, tries | interpret the loop, retry, guess | the guess is about locations the loop wrote |
| `process_sketch_results.py` | functions found | pick the summary | the functions belong to the postcondition |
| `backend_halide.py`, `backend_cpp.py` | expression trees | index resugaring, print | the resugared index denotes the same location |
| `templates/halide` | the kernel | parallel rows of vectors | the order of iterations does not matter |

### How they interact

The frontend hands the backend an `.ir` file and keeps the glue: a header, a C++
function that turns Fortran arguments into Halide buffers, and a call in the
Fortran source in place of the nest. The backend produces a sketch, Sketch
answers with functions, those go into a Z3 script and into the Halide template.
Nothing passes a verdict on: code generation takes the same sketch output whether
or not Z3 was run or agreed (`stng-backend.py`). The kernel and the Fortran program
share memory: every buffer points into a Fortran array, and an array that is
both read and written has two buffers over the same memory.

### Hard behaviours

All of them are in `PROJECT.json` under `hazards`, at the line where each bites.
The important ones:

- *Two forms of one invariant.* A condition assumes `I` (all points, false
  outside the loop ranges) and concludes `I__2` (one symbolic point, no ranges).
  It is not evident that conditions written that way compose.
- *Variables of enclosed loops* hold stale or uninitialised values when an outer
  head is reached.
- *Off by one, everywhere:* DO bounds are inclusive and while tests are not,
  dimensions `(lo:hi)` become `hi - lo`, Halide coordinates are shifted by one,
  offsets are in bytes and strides in elements, the Z3 templates are strict at a
  minimum.
- *The kernel's order.* Rows run in parallel, points of a vector at once, the
  last vector of a row overlaps the one before it, buffers alias.
- *Order of passes and flags* in the frontend; *files left over* by a step that
  failed; text hashes as keys of loops; retries in the interpreter.

## 2. Modules

```
Frontend                       which loops are lifted, with which variables
Timers                         the same program instrumented (-i), and run

Summary                        abstract: one step applies the summary
  ^            ^
  | implements | implements
LoopNest     Kernel --- Glue   detailed: nest, step by step; kernel, task by task
  |
VCGen                          what Sketch checks          DoNest  DO -> IR
  ^
Z3Nest  (extends LoopNest)     what Z3 checks

HalideBackend = Abi + Resugar  arguments of the kernel, subscripts of its reads
Pipeline = commands + Interp   files and exits of the commands, the guess in one of them
```

**`VCGen`** is constant-level: iterations, invariant templates (`Inv` is `I`,
`Inv2` is `I__2`), substitution (`Set`, `Assign`) and the verification conditions
of `verify.py` for one loop or a loop in a loop: what the templates emit for three is no nest
of loops (section 5). `SketchAccepts(g)` says that
candidate `g` (one function per loop and output, one for the postcondition)
satisfies all of them for all valuations, stores and checked points.

**`LoopNest`** runs the nest as the IR has it, one action per test: `Start`
(initialise the outermost variable), `Descend` (a test succeeds in front of an
inner loop), `Body` (the innermost assignments and increment), `Ascend` (an inner
test fails; the enclosing increment), `Exit`. Variables: `pc`, `lvl` (the loop about
to be tested), `i` (loop variables, arbitrary before initialisation), `out` (output
arrays), `gen` (the candidate, fixed), `ok` (`SketchAccepts(gen)`, fixed; a
variable because it is a fact about the candidate that the invariants refer to).

**`Summary`** is the abstract specification: `Apply` gives, once and in one step,
every point of the region its summary value if the candidate was accepted, and
changes nothing outside it in any case. Both `LoopNest` and `Kernel` implement it,
which is what makes replacing the one by the other right.

**`Z3Nest`** adds the Z3 script's invariant and postcondition to the same nests.

**`Frontend`** is what comes before everything else: `main.cpp`'s passes over one
program, from the loop depths to the checks `LoopReplacer` makes of its arguments. A
program is a forest of labelled nodes in preorder (`label`, `parent`, `last`, chosen in `Init`
and fixed). `pass`, `cursor`, `loop` and `visited` say where the passes are; `depth`, `synth`
(what the visitors return), `flags`, `number`, `chosen` (`isTransformable`), `induction` (for
a loop and a variable, the DO whose bounds are kept), `used` and `index` (`indexVars`) are
the fields of the `LoopAttribute`s. Preorder passes take one node per step (`Depth`, `Label`, `Undo`,
`Identify`, `Use`, `Check`), bottom-up ones a node whose children are done (`Visit`); `Skip` passes
over a loop that is not chosen, `Replace` checks one that is. The five flag visitors
differ only in what they look for (`Own`) and never read each other's results, so
that one traversal stands for the five. `VarUseIdentifier` is bottom-up in the code and
preorder in `Use`: it only adds to sets. `Init` leaves `hasComplexArrayAssign` open, since the
constructor does not set it. An `ASSERT` that fails ends the translator; the passes `no variable`,
`no index` and `nyi` are those ends. The properties compare the outcome with definitions
that look at the program only: `Wanted`, `Inducts`, `Anchored`, `Kept`.

**`Timers`** is the translator with `-i`, up to and including a run of the program
it writes. Programs are again forests of labelled statements whose roots are functions.
`VisitOther`, `VisitReturn`, `VisitBlock` and `Wrap` are what `TimeInstrumentor` does at a
statement, bottom-up and in program order: a RETURN gets the end of its function's timer
in front of it, a block times the loops in it, a function is wrapped after its body.
`timers` is the list that numbers are positions in, `before`, `after` and `decls` keep what
was inserted. `Generate` is the glue of the lifted loops, for which `VariableIdentifier` has
run a second time. `Enter`, `Perform`, `Statement` and `Continue` then execute one
activation of one function along any path; `clock` says of each timer whether it was
started, ended, recorded, or used in another order (`bad`).

**`DoNest`** is the step from DO statements, with inclusive bounds and optional
increments, to while loops, and from array elements to locations. It keeps
`owner`, the iterations executed and where each stored.

**`Glue`** is constant-level: extents, strides, mins and host offset at the call
site (`ArrayExprs`, `HostOffset`) and in the `buffer_t` (`InBuffer`, `OutBuffer`), the
address Halide computes from them and the address Fortran uses.

**`Kernel`** composes the analysis, the glue and the kernel: `Visit` (an
assignment of the body; `setMode` on the array written, then on those read), `Call`,
then for each parallel task `Load` (evaluate every output at the points of the next
vector) and `Store`, and `Return`. Variables: `body`, `seen`, `mode`, `pc`, `pos` (vectors
each task has done), `reg` (values computed and not yet stored), `mem` (the Fortran
arrays, by byte address). A nest of depth 1 has a task per vector, one of depth 2 a
task per row. `NestComputes` is the reference: the DO nest executed in place. `Independent` says
of a body that an array is read and written at one point only, by no assignment after
the one that writes it; `Spoilt` are the points that the overlapping last vector computes a
second time, from what has been stored there: none, unless an array is read and written
and rows are not a number of whole vectors.

**`Abi`** follows the arguments of a kernel: `Translate` writes the header of the
representation, `Glue` passes four lists, each sorted by `name:type`, `Kernel` declares
three lists sorted by name and made from the header and the assignments. Both sides
sort texts, so a name is the sequence of its character codes here and nowhere
else: whether the two orders agree is a question of which characters follow a
name (`Plain`).

**`Resugar`** is `IndexResugar.resugar`, which gets from a location in the
representation back to subscripts by trying offsets. An expression is a vector of
coefficients. `FindShifted` and `GiveUpShifted` are the first phase for one combination of
offsets, `FindFixed` and `GiveUpFixed` the second, one loop variable at a time, whose
substitutions accumulate in `expr` and `rev` as they do in the code.
**`HalideBackend`** composes the two: a kernel is declared only after its elements
were found.

**`Interp`** is the concrete interpreter that a postcondition is guessed from:
`StartInterpreting`, `Iterate` (an assignment, through Python's list indices), `NextLoop`,
`Finish` or `Retry` at the end of a try, then `Guess` for each output and `Guessed`.
`phase = "error"` is an exception.

**`Pipeline`** is the README's sequence of commands over the files between them. A
file is absent, partial (opened and not written) or whole, and then carries the
versions of the source it was made from. The translator has three steps
(`TranslateOpen`, `TranslateWrite`, `TranslateGlue`), a backend command `Read`, then for the
sketch the interpreter (`Interpret`, `EndInterpret`), then `Refuse` or `Open` and `Write`; Sketch
`SolveStart` and `SolveEnd`; Z3 `Prove`, with any verdict. The user edits the source
at any time (`Edit`), and after a failure removes files and repeats the command or starts
over (`Again`). `Kill` stops a command at any step.

`MCFrontend`, `MCLoopNest`, `MCDoNest`, `MCKernel`, `MCHalideBackend` and `MCPipeline` hold the
instances (`Timers` needs none), the modules named `...Proofs` the theorems,
with `Induction` under them. Definitions
commented `Mutant:` are not part of any
specification: each is a plausible bug in the code that makes a property fail,
which shows that the property depends on the code.

## 3. Runs

| run | instance | shows |
|---|---|---|
| `frontend` | every program of 4 nodes: labels of every kind over one variable, and DOs, stores and reads over two | `SelectionExact`, `LabelsDistinct`, `VarSetsExact`, `AssertionsHold`, `BoundsEnclose` |
| `timers` | every program of 5 statements in one or two functions, whose names may be the same, every choice of lifted loops, every path | `NumbersDistinct`, `DeclaredFirst`, `RecordsMeasure`, `SkippedExactly` |
| `nest2` | rows 0..1, columns 1..2, locations as `IRTranslator` linearises them, every candidate that is wrong at one point in one or more of its three functions | `RangesHold`, `HeadInvariant`, `AcceptedIsCorrect`, `Frame`, `ImplementsSummary`, `Termination`; `Z3RowIsVerified` |
| `do_unit` | every pair of bounds of two loops in `(0:4, 3)` without increments | which iterations run (`RunsBelowUpperBounds`), that they store different locations (`StoresDistinct`), that they end (`UnitStepEnds`) |
| `kernel1` | one loop of 5, vectors of 2: the last overlaps; every body of one assignment with one or two reads at -1, 0, +1 over three arrays, and pairs of assignments; all interleavings of three tasks | `ModesExact`, `KernelMatchesLoop`, `AppliedOnceOrTwice`, `ImplementsSummary` |
| `kernel2` | 4 by 2 points in arrays with different bounds, assignments with one read, and pairs | parallel rows; strides and host offset of two dimensions: `ImplementsSummary` |
| `backend` | every set of up to three of 23 variables; every element with offsets -3..2 of one or two loops in either order, neighbours of three | `ArgumentsMatch`, `FoundIsRight`, `NoneOnlyOutside`, `Answered` |
| `pipeline` | two versions of a source, of one loop and of three; lists of 8 elements, two scalars of 1..3, two tries | `ChainConsistent`, `GuessIsStored`, `FailsWithReason`, `InterpreterEnds` |

Four runs are expected to find a violation, each of a sentence that the
repository says of its program; section 5 explains them: `kernel_inplace`
(the instance of `kernel1`), `z3_lastrow`, `do_step` and `timers_i`.

Bounds, and why they are enough to be interesting.

- `frontend`: four nodes are two nests of a
  loop and a store, a nest of two loops with two statements, a loop over a variable
  mentioned before an inner loop over it, or two DOs over one variable in a third; the
  theorems cover every other program. Structure and variables are varied in turn
  (`MCInit`), since selection does not look at variables and the analysis of variables does not
  look at the flags.
- `timers`: five statements are a function with a loop around an IF around a RETURN, a loop
  in a loop next to another one, declarations followed by a loop, two functions with a
  loop or a RETURN each. `timers_i` needs four: a function, two loops and an assignment.
- `nest2`: a loop of two iterations
  is the least the conditions are emitted under (`max - min > 1`), and has a first, a
  last and an exhausted position; two levels have every kind of condition
  (entry, descend, body, ascend, exit), and the theorems cover single loops and every other
  bound. Values 0 and 1 differ between neighbouring points. `Junk` is a pair of
  values outside every loop range.
- `kernel1`, `kernel2`: a vector is 2 elements where the
  template has 8: what matters is whether the row is a multiple of it. 5 is not, so two vectors
  of `kernel1` share a point, with and without updates in place; 4, in `kernel2`, is. Elements are 4
  bytes so that an offset in elements differs from one in bytes. The arrays have
  different bounds so that their strides differ. `Eval` mixes the values read with
  different weights modulo 11, so a value from the wrong place is seen.
- `backend`: the names are `u`, `u1`, `u_n`, `u_p` and `v`, of which one begins others, and
  which go on with characters in front of and behind `:`, and in front of and behind `_out`.
  Offsets reach one further on either side than the code tries; strides 1, 7, 50 keep
  neighbours of up to three dimensions apart. Names and elements are varied in turn.
- `pipeline`: a list of 8 with location 0 at element 2 has elements in front of it, and loops
  of the instance reach past both ends; a loop may be empty for some scalars and not for
  others, changes nothing if it copies, and two loops store in different arrays. Two tries
  are a first one and a last one. With two versions a file of one can meet a file of the
  other; the number of failures and restarts has no bound.

Fairness. `WF_vars(Next)` in `LoopNest`, `DoNest` and `HalideBackend`: one thread executes the
nest, one process translates, and whenever it can go on it does. In `Pipeline` only
`WF_vars(Interpret \/ EndInterpret)`: the interpreter goes on as long as nobody kills it,
and a user may always stay away. `Kernel`, `Frontend` and `Timers` state no
liveness: nothing waits in them, and a run of a program need not end.

Deadlock is not checked, since every specification here stops when the nest, the
call, the translation or the build has ended.

## 4. Proofs

All theorems hold for every value of the constants that satisfies the named
assumptions.

**`LoopNestProofs`** (from `NestAssumption`: one loop or two, bounds more than one
apart, as the sketch assumes; `RunAssumption`: types). For single loops and loops in a loop, every
bounds, every index function, injective or not, every body and candidate:

- `Typing`, `Ranges`, `Heads`, `Soundness` (`Spec => []AcceptedIsCorrect`), `FrameHolds`,
- `Refines` (`Spec => ImplementsSummary`): running the nest implements one
  application of an accepted summary.

The inductive invariant `IInv` is

    TypeOK /\ StartsOutermost /\ ok = SketchAccepts(gen) /\ RangesHold
      /\ Entered /\ HeadInvariant /\ AcceptedIsCorrect

`HeadInvariant` (the concluded form `I__2`, at every point, for the loop about to
be tested) is what the conditions preserve, but a condition *assumes* the other
form, `I`, which also asks that all loop variables be in range, the enclosed ones
included. At a head reached for the first time those are uninitialised. Two facts
close the gap. The invariant of a loop does not look at enclosed variables
(`BoxLocal`), so a condition may be instantiated at `Clamp(i, lvl)`, which agrees with `i`
on the loops entered and is at the minimum elsewhere; and the loops entered are in
range, which no condition ever establishes but the execution does (`RangesHold`, for
which `Entered`, that enclosing tests succeeded, is needed).

`CurrentRow` (`LocationsDistinct => (Spec => []Z3RowIsVerified)`) is about the Z3 script. The
condition of the body assumes the candidate at every iteration done before, of which only those of
the current row are known, since nothing is concluded of a row that ends. It is
therefore applied to another memory, the nest's with the candidate's values put in at those
iterations (`Patched`): what the body stores is the same in both, if
iterations have locations of their own. Without the hypothesis there may be no memory
that satisfies the assumption, the condition says nothing, and the property fails. It is what
`NestStoresDistinct` proves of the locations that the translator makes.

**`FrontendProofs`** (from `FrontendAssumption`: at least one node, the literal is not a
variable, only a store may have the literal). For every program, of any size, shape
and labels:

- `SelectionHolds` (`Spec => []SelectionExact`), `Names` (`LabelsDistinct`), `VarSetsHold`
  (`VarSetsExact`), `Enclosing` (`BoundsEnclose`), `Asserted` (`AssertionsHold`), `Typing`.

Each pass has its invariant, which says what the nodes passed so far have
established, and relies on those of the passes before it. `StructureInv`: a depth is
above 1 exactly for a loop inside another one, and a visited loop has its content as
its flags. That is an induction over the tree, and the prover has none over data;
it becomes one over steps, because a node is visited after its children and a depth
is set after the parent's (`UnderParent`, `ContentSplit`). `SelectInv`: the chosen loops are
candidates in front of the cursor, then wanted ones behind it. `VarInv`: the two sets of
a loop are what the nodes seen say (`Seen`). `IndexInv`: the index sets are what the stores
used so far give, and a loop is chosen as long as every store checked so far
has one; that findVar always finds and that no array arrives without an index are
consequences.

**`TimersProofs`** (from `TimersAssumption`: at least one statement). For programs of every
size, every choice of lifted loops and every path: `TimersNumberedDistinctly`
(`Spec => []NumbersDistinct`), `TimersDeclaredFirst`, `TimersMeasure` (`RecordsMeasure`),
`TimersSkipped` (`SkippedExactly`), `TimersTypes`. There are four invariants, each relying on those before it.
- Numbers: the list has no timer twice, a loop's at the number that is part of its name, and a
  record's number is the position of its timer in the list. `OneTimer` is a step that
  numbers at most one function's timer, which RETURN and the end of a function are.
  `LoopsInTurn`: the loops of one block take consecutive numbers from the length of the
  list, each its own.
- `Counted`: the list is as long as there are function names and timed loops among what was
  visited, hence never longer than the program, which is what `TypeOK` says of it.
- `Shape`: where every call stands. A statement has the opening of its function in front of it if it is the
  first actual one, a timed loop its start in front and its end and record behind, a
  RETURN the function's closing in front, the body the closing at its end; and the declarations of a
  function cover the timers inside it. That a block's children were visited before it, so
  that none of this is disturbed later, is `Forest` (which trees a program may be) put to work.
- `Place` and `OnPath`: where the next step of an activation can be, and that the place
  alone says what the clock has of the function's timer (`FunctionClock`) and of every
  loop's (`LoopClock`), whatever path led there. A loop's timer is started and not ended exactly if
  the place is inside the loop; leaving a loop, in order or by RETURN, is then a fact about the forest.

**`DoNestProofs`** (from `DoAssumption`: types, increments positive, bounds inside the
declared dimensions). For nests of every depth and all bounds: `DoNestTypes`,
`NestRunsBelowUpperBounds` (`Spec => []RunsBelowUpperBounds`), `NestStoresDistinct` (`Spec => []StoresDistinct`). Under `NoSteps`, the invariant
is that the iterations executed are exactly those that come before
the position (`v`, `lvl`) in the order of the nest (`Before`) and are below every upper bound.
For the locations, the index of `IRTranslator` is a number in a mixed radix, least significant dimension
first: its factor `hi - lo` is one short of the dimension's size, but the loops are one short as
well, so a digit stays below its radix, and from the first dimension on, equal
numbers have equal digits. The induction is over the dimensions.

**`Induction`** (no assumptions) is what these inductions rest on: from the library's theorem that `<` on the
naturals is well-founded, that a set holding 0 and successors holds every number
(`Induct`, and `InductDown` on `1..N`), and that functions defined by recursion on a number
exist and satisfy their equation (`RecursionUp`, `RecursionDown`). What is proved by
induction is a *set* of numbers and what is recursed a *function*, so that no lemma
takes an operator for a parameter, which the provers could not instantiate.

**`KernelProofs`**. About `Glue`, without assumptions, for every rank from 1 to 4, every declared bounds
and every box: `OutAddress` and `InAddress`, buffer coordinate `x` has the address of Fortran
index `x + 1`. `Horner` shows that the nested sum of the call site and the product of
strides of the glue are one number, `Additive` that the host offset and the
coordinate's distance add up.

About `Kernel` (from `KernelAssumption`: a nest of depth 1 or 2, arrays of its
rank, no array assigned twice, and assignments inside the declared bounds; `ValueAssumption`:
reads and right-hand sides yield values). For every nest, body, shape and vector width:
`Typing`, `ModesAreUnions` (`Spec => []ModesExact`),
`Refines` (`Spec => ImplementsSummary`), `KernelIsLoop` (`Spec => []KernelMatchesLoop`) and
`UpdatesOnceOrTwice` (`Spec => []AppliedOnceOrTwice`). There are three invariants. `IInv` adds to types and modes that
pending values are values, without which a store could put anything into memory. `SInv` says
what memory is in the middle of a call: outside the nest's places what it was (`Frame`, for every
body), and for independent bodies, at each place that is not spoilt (`Undisturbed`), the summary's value
if some task has stored the point and the old value if none has (`Results`). It rests on three facts
about the schedule, each of which is arithmetic about one row: vectors stay inside the nest
(`LanesInNest`), cover it (`LanesCover`), and where two of them meet the one is the row's last
and the other a whole one in front of it, which they do nowhere if the row is a multiple of the
width (`LanesMeet`); and on two about addresses: points of the nest are in the array
(`PlaceInLocs`) at places of their own (`PlacesDistinct`), for which `OutAddress` turns a
coordinate of the buffer into an index of the Fortran array. In-place updates are why
`LanesMeet` is needed: a point read by the task that is about to store it must not have
been stored by another one.

`TInv` is about the spoilt points of one assignment. A point is in two vectors at most
(`LanesTwice`), so what a task has computed and not stored is the update of the old value, or
of the updated one if the other task has stored; and as long as a vector that holds the point
is outstanding, the update has been stored once at most.

`KernelIsLoop` needs in addition what the *sequential* nest computes. `NestIsSummary` says that,
executed in place, assignment after assignment, it computes the summary of memory
before it. `NestComputes` is a recursive function over the steps (iteration, then
assignment), and the proof an induction over them: after a number of steps, the places of
the iterations and assignments that were executed hold the summary's values and all others what they
held. A step reads the summary's operands because, by independence, no step
before it stored in an element that it reads, except its own iteration's, which were not
assigned yet. The two results meet in the summary: the kernel leaves it, in any order and wherever a point
is not spoilt, and so does the nest, in its one.

**`AbiProofs`** (from `AbiAssumption`: finite sets of variables with distinct names). For
any variables: `GlueAndKernelAgree` (`Spec => []ArgumentsMatch`), for the composition with
`Resugar`. The invariant says what the header and the two lists are as functions of
the variables used. Under `Plain`, adding `:` to names does not change their order
(`ColonOrder`), nor does adding `_out` to some of the outputs' (`SuffixOrder`); under `Passable` both
sides list the same variables (`SameVariables`); and sets with the same places have the same
sequence (`SamePlacesSameOrder`), for which each place must be taken by one element only.

About `Resugar` (from `ResugarAssumption`: every dimension of a nest runs over one of its
loops, every loop over one dimension, and there are strides enough), for nests of every depth and all offsets:
`NeighboursFoundRight` (`StridesApart => (Spec => []FoundIsRight)`) and `NoNeighbourMissed`
(`Spec => []NoneOnlyOutside`). A substitution is a sum over the variables (`SubstSums`), so `c`
more of a variable is `c` more of what is put in its place (`SubstMore`), and shifting the index function
gives the location of the neighbour at that shift (`ShiftedLocation`). Candidates are tried in
lexicographic order without a gap (`NoneSkipped`), hence the invariant `Ahead` of the search:
a neighbour whose offsets are among the candidates is still ahead until it is found. That what is found
is the right one needs `StridesApart`: every stride exceeds the one before it by more than the offsets
compared are apart, which makes the offsets digits (`NeighboursApart`). The code
compares *symbolic* expressions, in which the strides are products of array sizes
and coincide for no offsets; strides that are numbers, as in the model, may, and
the hypothesis excludes no more than that. `NoNeighbourMissed` does without it. In nests
of several loops the second phase finds no neighbour, since what it tries leaves a variable
out (`LeftOut`) that every location of a neighbour has (`EveryVariable`).

`BackendTypes` (`TextsApart => (Spec => []TypeOK)`) is the types of both. That an argument list is
a sequence of variables depends on the order being total: a variable called like another one's second name
(`a_out` beside an `a` that is read and written) is a tie, and then nothing says which comes first.

**`PipelineProofs`** (from `PipelineAssumption`: programs are sequences of loops, at least one
version; `InterpAssumption`). For any number of versions, failures, kills and restarts:
`LinkedIsConsistent` (`Spec => []ChainConsistent`), `PipelineTypes`, and,
of the interpreter inside, `GuessesAreStored` (`Spec => []GuessIsStored`) and `FailuresHaveReasons`
(`Spec => []FailsWithReason`). For the files, the
invariant is that there is *one* version `v`, that of the last translation, such that every
file an earlier command of the sequence has made is absent or whole and of version `v`
(`FilesHold`), and so is what the running command has read (`GotHolds`). It is kept
because a command that fails is followed by itself or by the first one, and a file
of an older version stops the backend rather than being replaced. `TInv` has the
types of the interpreter. `GuessInv` says what it knows: during a try, each element holds what the
last of the stores executed so far left in it (`LastStoreHolds`), where iterations are ordered by loop
and then by variable; when all loops have ended that is what the program stores
(`AsStored`), and when the tries have ended without a change the arrays are fresh ones, in which the
search finds nothing. That one try's arrays are never searched with
another's scalars is the point of keeping `s` in both.

Model-checked only:

- liveness (`Termination`, `UnitStepEnds`, `Answered`, `InterpreterEnds`), which is
  out of the prover's reach, as is `ENABLED`;
- the refutations of section 5, which are facts about one instance.

Every other property of a run is a theorem. Three of them carry a hypothesis that the
runs' instances satisfy: `LocationsDistinct` (`CurrentRow`), `StridesApart` (`NeighboursFoundRight`)
and `TextsApart` (`BackendTypes`).

## 5. Where the code and its documentation disagree

Shown by runs:

1. **`do_step`.** A DO increment `n` becomes the statement `v = n`, where
   `v = v + n` is meant (`IRTranslator.cpp:254`). The translated loop repeats its second
   iteration for ever, unless `n` has reached the bound.
2. **`z3_lastrow`.** `I__2` is true in the Z3 script as soon as another loop variable is at its
   maximum, where inner loops end: leaving an inner loop proves nothing
   (`invariant.2.z3.mako:180`). What the script does check is the current row (`Z3RowIsVerified`).
3. **`timers_i`.** With `-i` the variable identifier runs again "to insert the timer variables"
   (`main.cpp:142`), after the analysis of modes. The timers inside a lifted nest of two loops
   are arrays of unknown mode, and the glue generator asserts that a mode is known
   (`HalideCodeGenerator.cpp:118`): the translator ends.
4. **`kernel_inplace`.** An array that is read and written has both its buffers over one Fortran array,
   and the last vector of a row that is not a multiple of 8 is moved back over points that
   another one has stored (`halide_aot.cpp.mako:103`). An update in place can be
   applied twice to those points, whatever the solvers have verified, and nothing in the frontend
   or the template asks for the length. The website says that a candidate "preserves the same program
   semantics as the original" (`website/index.html:129-130`). What does hold is that the
   other points are right (`KernelMatchesLoop`) and these are updated once or twice, never
   to a mixture (`AppliedOnceOrTwice`).

Met while modelling, with the definition that has it:

- For three loops or more, `templates/invariant/1.mako` closes the block of each contained loop
  before it opens the next one's (lines 41-58 and 109-124). `I` of the outermost loop then reads
  a loop variable that is not declared there, and `I__2` compares where any one contained
  variable is in range instead of all. `NestAssumption` therefore says `Depth \in 1..2`.
- `do j = 1, m` becomes `while (j < m)` (`IRTranslator.cpp:263`): the last iteration of every
  loop is not in what is summarised and verified (`RunsBelowUpperBounds`). The glue
  does cover it (`Glue`'s extents are inclusive), so the kernel computes points of
  which nothing was verified.
- The factor of a dimension `(lo:hi)` is `hi - lo` where the comment above
  it says "size" (`IRTranslator.cpp:349`): two elements of neighbouring columns become one
  location. Only reads are affected, since the iterations stop one short (`StoresDistinct`).
- The Z3 postcondition is strict at the minimum (`postcondition.z3.mako:26`): a summary
  wrong at the first index of a loop is verified (`Z3Nest`).
- Arrays that are read and written get a second name in the IR
  and a second buffer over the same memory in the glue. A read after the
  write in the same iteration sees the old value; a read ahead of the write
  may see the new one, because another task has stored it. `KernelMatchesLoop`
  therefore says `Independent(body)`: an array is read and written at the same point
  only, before or by the assignment that writes it. It asks nothing of the length of a row; what a
  row that is not a multiple of the vector does is `Spoilt`, and the run `kernel_inplace`.
- Names of which one is another followed by a digit (`in`, `in2`) are ordered differently by glue
  and kernel, since `:` follows the digits; `ArgumentsMatch` says `Plain`.
- `need_to_rev` substitutes into a number where it should substitute into the index
  (`backend_halide.py:78`), so it finds "unit stride order" (line 68) in no nest of
  two loops or more, and subscripts are always reversed. That is right for a nest whose
  outermost loop runs over the last dimension, of which `FoundIsRight` speaks (`ColumnMajor`); in one
  that is already in order the subscripts of a neighbour come out transposed.
- An offset of +2 is never tried by the resugaring, one of -2 is (`Candidate`,
  `NoneOnlyOutside`). Constant subscripts of two-dimensional arrays in the order of the loops come out
  swapped; `FoundIsRight` is about neighbours and single loops.
- A function with declarations only records its timer in front of starting it
  (`TimeInstrumentor.cpp:100`); COMMON and PARAMETER statements are taken for executable
  ones, so that what is inserted comes between specification statements; functions of one name share a
  timer. `DeclaredFirst` and `RecordsMeasure` except the first two. Otherwise the declarations stand exactly
  between the specification statements and the first statement that can be executed (`DeclaredFirst`).
- A RETURN inside loops leaves their timers running and unrecorded (`SkippedExactly`).
- `backend/tests/test_interpret.py:31` expects location 1 at element 11, where `interpret.py:9` puts it at
  100 (`Offset`).

## 6. Not modelled, and the plan

`PROJECT.json` lists every component with its status. In the order of importance:

1. More of `Kernel`: depth 3 and 4. (For `VCGen` there is nothing to model there before the templates
   nest their blocks.)
2. `Nests`: sequences of loops and imperfect nests in `VCGen`, where keys are hashes of
   text and the last bound found for a variable wins.
3. More of `Glue`: arrays declared `(:)`, pointer arrays, and index expressions `a(i + 1)` on the
   left-hand side.
4. More of `Resugar`: `dimension_reduce` for arrays of fewer dimensions than loops; the C++
   backend, which has a printer of its own.
5. More of `Frontend`: types as part of a variable's key, arrays of two dimensions, the modes
   of scalars.
6. More of `Interp`: nested loops, and the generators a guess is turned into.
7. `LocationsDistinct` of `CurrentRow` and `StridesApart` of `NeighboursFoundRight` derived where they
   come from: the first from `DoNest`'s locations, by instantiating `LoopNest` with them, the second
   from strides that are products of sizes above a bound.

Left out for good: the text of the pyparsing grammar, of mako templates and of
Fortran and C++ unparsing; the website, the docker files and the benchmark
drivers; level 12 (its templates are not in the repository);
`ArrayIndexClassifier.cpp` (never called); ROSE, Sketch, Z3 and Halide themselves, of
which the modules assume only what `map` marks external. Most of the repository's
lines are headers of ROSE and Boost under `frontend/include`, which STNG only compiles against.
