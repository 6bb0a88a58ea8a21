------------------------------- MODULE Interp -------------------------------
(* The concrete interpreter (interpret.py) that a sketch's postcondition is   *)
(* guessed from: the loop nest is run on arrays of symbols, for scalars drawn *)
(* at random; if no output has changed it is run again, a few times; then the *)
(* first changed element of every output becomes its guess. The program is a  *)
(* sequence of loops, each over i with two scalars in its bounds,             *)
(*   i = s[1] + lo;  while (i < s[2] + hi) { out[i + at] = in[i + rd];  ... } *)
(* or, if copies, out[i + at] = out[i + at].                                  *)
EXTENDS Integers, Sequences, FiniteSetsExt

CONSTANTS ArraySize,   \* ARRAYSIZE
          Offset,      \* AOFFSET
          Tries,
          Scalars,     \* the values a scalar may have
          Outputs      \* arrays

ASSUME InterpAssumption ==
  /\ ArraySize \in Nat \ {0} /\ Offset \in 0..ArraySize - 1
  /\ Tries \in Nat \ {0}
  /\ Scalars \subseteq Int

\* Loops, and sequences of them.
LoopType == [out : Outputs, lo : Int, hi : Int, at : Int, rd : Int, copies : BOOLEAN]

VARIABLES loops,       \* the program interpreted
          s,           \* the two scalars
          arr,         \* the outputs: a symbol for each element
          loop, i,     \* the loop that runs, and its variable
          triesLeft,
          guess,       \* for each output guessed, the element and its value
          phase

interpVars == <<loops, s, arr, loop, i, triesLeft, guess, phase>>

Indices == 0..ArraySize - 1

\* The symbol of an element that nothing was stored in.
Symbol(name, k) == <<name, k>>
Fresh == [o \in Outputs |-> [k \in Indices |-> Symbol(o, k)]]

\* A Python list's elements can be counted from its end.
InList(n) == -ArraySize <= n /\ n < ArraySize
Element(n) == IF n < 0 THEN n + ArraySize ELSE n

First(l, sc) == sc[1] + l.lo
End(l, sc) == sc[2] + l.hi
Value(l, k) == Symbol("in", Element(k + l.rd + Offset))

Idle ==
  /\ phase = "idle" /\ loops = <<>> /\ s = <<0, 0>> /\ arr = Fresh /\ loop = 0 /\ i = 0
  /\ triesLeft = 0 /\ guess = [o \in {} |-> <<>>]

-----------------------------------------------------------------------------

\* Interpreter.__init__: initialize_state, for scalars drawn at random.
StartInterpreting(program) ==
  /\ phase' = "run" /\ loops' = program
  /\ s' \in Scalars \X Scalars
  /\ arr' = Fresh /\ loop' = 1 /\ i' = First(program[1], s')
  /\ triesLeft' = Tries /\ guess' = [o \in {} |-> <<>>]

\* One iteration: an assignment, which may be outside the list.
Iterate ==
  /\ phase = "run" /\ loop <= Len(loops) /\ i < End(loops[loop], s)
  /\ LET l == loops[loop]
         to == i + l.at + Offset
     IN IF InList(to) /\ (l.copies \/ InList(i + l.rd + Offset))
        THEN /\ arr' = IF l.copies THEN arr ELSE [arr EXCEPT ![l.out][Element(to)] = Value(l, i)]
             /\ i' = i + 1 /\ UNCHANGED phase
        ELSE phase' = "error" /\ UNCHANGED <<arr, i>>
  /\ UNCHANGED <<loops, s, loop, triesLeft, guess>>

NextLoop ==
  /\ phase = "run" /\ loop <= Len(loops) /\ i >= End(loops[loop], s)
  /\ loop' = loop + 1
  /\ i' = IF loop < Len(loops) THEN First(loops[loop + 1], s) ELSE i
  /\ UNCHANGED <<loops, s, arr, triesLeft, guess, phase>>

\* The arrays that the program assigns (get_out_array).
Assigned == {loops[k].out : k \in DOMAIN loops}

ChangedIn(o) == {k \in Indices : arr[o][k] # Symbol(o, k)}

\* outputs_changed: any output has changed.
OutputsChanged == \E o \in Assigned : ChangedIn(o) # {}

\* The end of a try: another one with other scalars if nothing has changed. The
\* last one is followed by an initialisation, too.
Finish ==
  /\ phase = "run" /\ loop > Len(loops) /\ OutputsChanged
  /\ phase' = "guess"
  /\ UNCHANGED <<loops, s, arr, loop, i, triesLeft, guess>>

\* Mutant: tries are not counted.
RetryForEver ==
  /\ phase = "run" /\ loop > Len(loops) /\ ~OutputsChanged
  /\ s' \in Scalars \X Scalars
  /\ arr' = Fresh /\ loop' = 1 /\ i' = First(loops[1], s')
  /\ UNCHANGED <<loops, triesLeft, guess, phase>>

\* Mutant: the tries are tested before they are counted.
RetryOnceMore ==
  /\ phase = "run" /\ loop > Len(loops) /\ ~OutputsChanged
  /\ triesLeft' = triesLeft - 1
  /\ s' \in Scalars \X Scalars
  /\ arr' = Fresh /\ loop' = 1 /\ i' = First(loops[1], s')
  /\ phase' = IF triesLeft = 0 THEN "guess" ELSE "run"
  /\ UNCHANGED <<loops, guess>>

Retry ==
  /\ phase = "run" /\ loop > Len(loops) /\ ~OutputsChanged
  /\ triesLeft' = triesLeft - 1
  /\ s' \in Scalars \X Scalars
  /\ arr' = Fresh /\ loop' = 1 /\ i' = First(loops[1], s')
  /\ phase' = IF triesLeft = 1 THEN "guess" ELSE "run"
  /\ UNCHANGED <<loops, guess>>

\* Mutant: the search starts at location 0.
SearchedPositive(o) == {k \in ChangedIn(o) : k >= Offset}

\* The elements among which the first changed one is found.
Searched(o) == ChangedIn(o)

\* Guesser.guess_postcondition, one output after the other. The search for a
\* changed element does not end before the list does, and then with an error.
Guess(o) ==
  /\ phase = "guess" /\ o \in Assigned \ DOMAIN guess
  /\ IF Searched(o) = {} THEN phase' = "error" /\ UNCHANGED guess
     ELSE LET k == Min(Searched(o)) IN
          /\ guess' = [p \in DOMAIN guess \cup {o} |-> IF p = o THEN <<k, arr[o][k]>> ELSE guess[p]]
          /\ UNCHANGED phase
  /\ UNCHANGED <<loops, s, arr, loop, i, triesLeft>>

Guessed ==
  /\ phase = "guess" /\ DOMAIN guess = Assigned
  /\ phase' = "guessed"
  /\ UNCHANGED <<loops, s, arr, loop, i, triesLeft, guess>>

InterpNext ==
  Iterate \/ NextLoop \/ Finish \/ Retry \/ (\E o \in Assigned : Guess(o)) \/ Guessed

-----------------------------------------------------------------------------
\* Properties.

InterpTypeOK ==
  /\ phase \in {"idle", "run", "guess", "guessed", "error"}
  /\ triesLeft \in 0..Tries /\ loop \in 0..Len(loops) + 1
  /\ DOMAIN guess \subseteq Outputs
  /\ \A o \in Outputs : DOMAIN arr[o] = Indices

\* What the program stores in an element for given scalars: the last loop that
\* stores something there decides, and the last iteration of it that does.
StoredAt(o, k, sc) ==
  LET at(n, j) == Element(j + loops[n].at + Offset)
      stores == {n \in DOMAIN loops : /\ loops[n].out = o /\ ~loops[n].copies
                                      /\ \E j \in First(loops[n], sc)..End(loops[n], sc) - 1 : at(n, j) = k}
      n == Max(stores)
  IN IF stores = {} THEN Symbol(o, k)
     ELSE Value(loops[n], Max({j \in First(loops[n], sc)..End(loops[n], sc) - 1 : at(n, j) = k}))

\* A guess is the first element that the program changes, for the scalars of one
\* and the same try, and has the value it gets.
GuessIsStored ==
  \A o \in DOMAIN guess :
    /\ guess[o][2] = StoredAt(o, guess[o][1], s) /\ guess[o][2] # Symbol(o, guess[o][1])
    /\ \A k \in 0..guess[o][1] - 1 : StoredAt(o, k, s) = Symbol(o, k)

\* There is no guess only if every try was in vain, some output is not changed
\* for the scalars of the last one, or the element that an iteration stores, or one
\* that it reads without copying it to itself, is outside the list.
FailsWithReason ==
  phase = "error" =>
    \/ triesLeft = 0
    \/ \E o \in Assigned : \A k \in Indices : StoredAt(o, k, s) = Symbol(o, k)
    \/ /\ loop <= Len(loops)
       /\ ~(/\ InList(i + loops[loop].at + Offset)
            /\ loops[loop].copies \/ InList(i + loops[loop].rd + Offset))
=============================================================================
