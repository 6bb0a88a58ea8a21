------------------------------- MODULE Timers -------------------------------
(* The translator's option -i, from the traversal that inserts timer calls to *)
(* an execution of the program that comes out:                                *)
(*   TimeInstrumentor       pass "insert": bottom-up, statement by statement  *)
(*   VariableIdentifier     pass "identify": run again over the lifted loops  *)
(*   HalideCodeGenerator    pass "generate": the glue of each of them         *)
(*   the Fortran program    pass "run": one activation of one function, in    *)
(*                          which the lifted loops are calls of their glue    *)
(* A program is a forest of statements numbered in preorder, chosen in Init;  *)
(* its roots are functions. The calls inserted next to a statement are kept   *)
(* with it, in program order.                                                 *)
EXTENDS Integers, Sequences, FiniteSets

CONSTANTS Size,     \* number of statements, functions included
          Names     \* names of functions

ASSUME TimersAssumption == Size \in Nat \ {0}

Nodes == 1..Size

\* "common" is a specification statement other than a declaration, IMPLICIT or
\* USE; "work" is an executable statement without parts.
Labels == {"function", "declaration", "common", "work", "do", "if", "return"}
Specification == {"declaration", "common"}
Blocks == {"function", "do", "if"}

VARIABLES label, parent, fname, lifted,   \* the program
          pass, visited, wrapped,         \* where the passes are
          timers,                         \* TimeInstrumentor::timers, by number
          before, after, decls,           \* calls inserted; variables to declare
          at, clock                       \* the execution

program == <<label, parent, fname, lifted>>
inserted == <<timers, before, after, decls>>
vars == <<program, pass, visited, wrapped, inserted, at, clock>>

-----------------------------------------------------------------------------
\* Programs.

Functions == {n \in Nodes : label[n] = "function"}
Loops == {n \in Nodes : label[n] = "do"}
Children(n) == {c \in Nodes : parent[c] = n}
Inside(n) == {m \in n + 1..Size : \A k \in n + 1..m : parent[k] >= n}
Least(S) == CHOOSE x \in S : \A y \in S : x <= y
Greatest(S) == CHOOSE x \in S : \A y \in S : y <= x

\* findEnclosingFunction
Enclosing(n) == Greatest({f \in Functions : f <= n})

IsForest(p) ==
  /\ \A n \in Nodes : p[n] < n
  /\ \A m, n \in Nodes : m < n /\ p[n] < m => p[m] >= p[n]

IsProgram ==
  /\ \A n \in Nodes : parent[n] = 0 <=> label[n] = "function"
  /\ \A n \in Nodes \ Functions : label[parent[n]] \in Blocks
  /\ \A n \in Nodes : label[n] \in Specification =>
       label[parent[n]] = "function" /\ \A m \in parent[n] + 1..n : label[m] \in Specification

\* The loops that were labelled before: outermost, assignments in them and
\* nothing else but loops. (The other conditions on one are not looked at.)
Liftable ==
  {l \in Loops : /\ \A n \in Inside(l) : label[n] \in {"do", "work"}
                 /\ \E n \in Inside(l) : label[n] = "work"
                 /\ \A m \in Loops : l \notin Inside(m)}

\* A timer is named after its function, a loop's also after the number it gets.
FunctionTimer(f) == <<fname[f]>>
LoopTimer(f, num) == <<fname[f], num>>
TimerNames == {<<s>> : s \in Names} \cup (Names \X (0..Size))

\* The calls inserted. timerVar makes two variables of a timer; "start" and
\* "end" set one of them to the date, "record" reads both. "declare" stands for
\* the declarations, which are those in decls.
StartCall(t) == [op |-> "start", timer |-> t, num |-> 0]
EndCall(t) == [op |-> "end", timer |-> t, num |-> 0]
RecordCall(t, num) == [op |-> "record", timer |-> t, num |-> num]
Declarations == [op |-> "declare", timer |-> <<>>, num |-> 0]
TimerVars == {"start", "end"} \X TimerNames
VarsOf(call) ==
  CASE call.op = "start" -> {<<"start", call.timer>>}
    [] call.op = "end" -> {<<"end", call.timer>>}
    [] call.op = "record" -> {<<"start", call.timer>>, <<"end", call.timer>>}
    [] call.op = "declare" -> {}

\* timerNum: the number of a name, a new one if the name is.
NumberOf(list, t) ==
  IF \E k \in 1..Len(list) : list[k] = t
  THEN (CHOOSE k \in 1..Len(list) : list[k] = t) - 1
  ELSE Len(list)
Numbered(list, t) == IF \E k \in 1..Len(list) : list[k] = t THEN list ELSE Append(list, t)

Init ==
  /\ parent \in {p \in [Nodes -> 0..Size] : IsForest(p)}
  /\ label \in [Nodes -> Labels]
  /\ IsProgram
  /\ fname \in [Functions -> Names]
  /\ lifted \in SUBSET Liftable
  /\ pass = "insert" /\ visited = {} /\ wrapped = {}
  /\ timers = <<>>
  /\ before = [n \in Nodes |-> <<>>] /\ after = [n \in Nodes |-> <<>>]
  /\ decls = [n \in Nodes |-> {}]
  /\ at = <<>> /\ clock = [t \in {} |-> "unset"]

-----------------------------------------------------------------------------
\* TimeInstrumentor::evaluateSynthesizedAttribute, children first.

\* Mutant: parents first.
InsertTopDown(n) ==
  /\ pass = "insert" /\ visited \cap Functions = wrapped
  /\ n \notin visited /\ 1..n - 1 \subseteq visited

\* n is the statement whose turn it is: the first whose own statements are done.
Insert(n) ==
  /\ pass = "insert" /\ visited \cap Functions = wrapped
  /\ n \notin visited /\ Inside(n) \subseteq visited
  /\ \A m \in 1..n - 1 : m \in visited \/ n \in Inside(m)

\* Mutant: what is collected inside a block does not get out of it.
CollectedNothing(n) == {}

\* What the statements inside a block want declared.
Collected(n) == UNION {decls[c] : c \in Children(n)}

\* A statement without parts other than RETURN.
VisitOther(n) ==
  /\ Insert(n) /\ label[n] \notin Blocks \cup {"return"}
  /\ visited' = visited \cup {n}
  /\ UNCHANGED <<program, pass, wrapped, inserted, at, clock>>

\* Mutant: the time is recorded before it is taken.
ClosingSwapped(f, num) == <<RecordCall(FunctionTimer(f), num), EndCall(FunctionTimer(f))>>

\* The calls that end the timer of function f.
Closing(f, num) == <<EndCall(FunctionTimer(f)), RecordCall(FunctionTimer(f), num)>>

\* Mutant: the timer ends after the RETURN.
VisitReturnAfter(n) ==
  /\ Insert(n) /\ label[n] = "return"
  /\ LET f == Enclosing(n)
         t == FunctionTimer(f) IN
     /\ timers' = Numbered(timers, t)
     /\ after' = [after EXCEPT ![n] = Closing(f, NumberOf(timers, t))]
     /\ decls' = [decls EXCEPT ![n] = {<<"end", t>>}]
  /\ visited' = visited \cup {n}
  /\ UNCHANGED <<program, pass, wrapped, before, at, clock>>

\* RETURN: the function's timer ends in front of it.
VisitReturn(n) ==
  /\ Insert(n) /\ label[n] = "return"
  /\ LET f == Enclosing(n)
         t == FunctionTimer(f) IN
     /\ timers' = Numbered(timers, t)
     /\ before' = [before EXCEPT ![n] = Closing(f, NumberOf(timers, t))]
     /\ decls' = [decls EXCEPT ![n] = {<<"end", t>>}]
  /\ visited' = visited \cup {n}
  /\ UNCHANGED <<program, pass, wrapped, after, at, clock>>

\* Mutant: a loop's number does not take the loops before it into account.
LoopNumberFirst(n, c) == Len(timers)

\* The number a loop c of block n gets: the loops of a block are numbered in turn.
LoopNumber(n, c) == Len(timers) + Cardinality({d \in Children(n) \cap Loops : d < c})

\* A block: the loops in it are timed. (Not at the loops themselves: that would
\* change what the traversal iterates over.)
VisitBlock(n) ==
  /\ Insert(n) /\ label[n] \in Blocks
  /\ LET dos == Children(n) \cap Loops
         Timer(c) == LoopTimer(Enclosing(n), LoopNumber(n, c))
     IN
     /\ timers' = timers \o
          [k \in 1..Cardinality(dos) |-> LoopTimer(Enclosing(n), Len(timers) + k - 1)]
     /\ before' = [m \in Nodes |-> IF m \in dos THEN <<StartCall(Timer(m))>> ELSE before[m]]
     /\ after' = [m \in Nodes |->
          IF m \in dos THEN <<EndCall(Timer(m)), RecordCall(Timer(m), LoopNumber(n, m))>>
          ELSE after[m]]
     /\ decls' = [decls EXCEPT ![n] = Collected(n) \cup {"start", "end"} \X {Timer(c) : c \in dos}]
  /\ visited' = visited \cup {n}
  /\ UNCHANGED <<program, pass, wrapped, at, clock>>

\* The statements of a function from the first one that is not skipped.
Actual(f) == {c \in Children(f) : \E b \in Children(f) : b <= c /\ label[b] # "declaration"}

\* A function, after its body: declarations and the start of its timer in front
\* of the first actual statement, or at the end if there is none; the end of the
\* timer behind the last statement, unless that is a RETURN. Without any
\* statement there is nothing to insert behind, and the translator stops.
Wrap(f) ==
  /\ pass = "insert" /\ f \in visited \cap Functions /\ f \notin wrapped
  /\ LET t == FunctionTimer(f)
         opening == <<Declarations, StartCall(t)>>
         closing == Closing(f, NumberOf(timers, t))
         last == Greatest(Children(f))
         first == Least(Actual(f))
     IN IF Children(f) = {}
        THEN pass' = "no statement" /\ UNCHANGED <<wrapped, inserted>>
        ELSE /\ wrapped' = wrapped \cup {f}
             /\ timers' = Numbered(timers, t)
             /\ decls' = [decls EXCEPT ![f] = @ \cup {<<"start", t>>, <<"end", t>>}]
             /\ IF Actual(f) = {}
                THEN after' = [after EXCEPT ![last] = closing \o opening] /\ UNCHANGED before
                ELSE /\ before' = [before EXCEPT ![first] = opening \o @]
                     /\ after' = IF label[last] = "return" THEN after
                                 ELSE [after EXCEPT ![last] = @ \o closing]
             /\ UNCHANGED pass
  /\ UNCHANGED <<program, visited, at, clock>>

EndInsert ==
  /\ pass = "insert" /\ visited = Nodes /\ wrapped = Functions
  /\ pass' = "generate"
  /\ UNCHANGED <<program, visited, wrapped, inserted, at, clock>>

-----------------------------------------------------------------------------
\* The variable identifier again, and the glue.

CallsAt(n) == {before[n][k] : k \in DOMAIN before[n]} \cup {after[n][k] : k \in DOMAIN after[n]}

\* The timer variables mentioned in a nest. They are arrays, and no use of them
\* has been analysed.
Unanalysed(l) == UNION {VarsOf(call) : call \in UNION {CallsAt(n) : n \in Inside(l)}}

\* The glue cannot be generated for an array of unknown mode.
Generate ==
  /\ pass = "generate"
  /\ pass' = IF \E l \in lifted : Unanalysed(l) # {} THEN "unknown mode" ELSE "run"
  /\ UNCHANGED <<program, visited, wrapped, inserted, at, clock>>

-----------------------------------------------------------------------------
\* One activation of a function. <<n, "before", k>>: the k-th call in front of n
\* is next, then n itself; <<n, "after", k>> the same behind it; <<n, "exit">>:
\* the function has ended, at the RETURN n or, if n is the function, at its end.

Enter(f) ==
  /\ pass = "run" /\ at = <<>> /\ f \in Functions
  /\ at' = <<Least(Children(f)), "before", 1>>
  /\ clock' = [t \in {timers[k] : k \in DOMAIN timers} |-> "unset"]
  /\ UNCHANGED <<program, pass, visited, wrapped, inserted>>

\* A timer is worth recording when it was started and then ended.
Effect(call) ==
  IF call.op = "declare" THEN clock
  ELSE [clock EXCEPT ![call.timer] =
          CASE call.op = "start" -> "started"
            [] call.op = "end" -> IF @ = "started" THEN "ended" ELSE "bad"
            [] call.op = "record" -> IF @ = "ended" THEN "recorded" ELSE "bad"]

Calls(n, side) == IF side = "before" THEN before[n] ELSE after[n]

Perform(n, side, k) ==
  /\ at = <<n, side, k>> /\ k <= Len(Calls(n, side))
  /\ at' = <<n, side, k + 1>>
  /\ clock' = Effect(Calls(n, side)[k])
  /\ UNCHANGED <<program, pass, visited, wrapped, inserted>>

\* The statement itself: a RETURN leaves, a loop or an IF is entered or passed,
\* everything else is passed. A lifted loop is one call.
Statement(n) ==
  /\ at = <<n, "before", Len(before[n]) + 1>>
  /\ \/ label[n] = "return" /\ at' = <<n, "exit">>
     \/ /\ label[n] \in {"do", "if"} /\ n \notin lifted /\ Children(n) # {}
        /\ at' = <<Least(Children(n)), "before", 1>>
     \/ label[n] # "return" /\ at' = <<n, "after", 1>>
  /\ UNCHANGED <<program, pass, visited, wrapped, inserted, clock>>

Later(n) == {m \in Children(parent[n]) : m > n}

\* Behind statement n: the next one of its block, or the end of the block, where
\* a loop may start over.
Continue(n) ==
  /\ at = <<n, "after", Len(after[n]) + 1>>
  /\ \/ Later(n) # {} /\ at' = <<Least(Later(n)), "before", 1>>
     \/ Later(n) = {} /\ label[parent[n]] = "function" /\ at' = <<parent[n], "exit">>
     \/ Later(n) = {} /\ label[parent[n]] # "function" /\ at' = <<parent[n], "after", 1>>
     \/ Later(n) = {} /\ label[parent[n]] = "do" /\ at' = <<Least(Children(parent[n])), "before", 1>>
  /\ UNCHANGED <<program, pass, visited, wrapped, inserted, clock>>

Next ==
  \/ \E n \in Nodes : VisitOther(n) \/ VisitReturn(n) \/ VisitBlock(n) \/ Wrap(n)
  \/ EndInsert
  \/ Generate
  \/ \E n \in Nodes : Enter(n) \/ Statement(n) \/ Continue(n)
  \/ \E n \in Nodes : \E side \in {"before", "after"} : \E k \in 1..Len(Calls(n, side)) :
       Perform(n, side, k)

Spec == Init /\ [][Next]_vars

-----------------------------------------------------------------------------
\* Properties.

\* Types; what is visited includes what is inside it.
TypeOK ==
  /\ pass \in {"insert", "no statement", "generate", "unknown mode", "run"}
  /\ visited \subseteq Nodes /\ \A n \in visited : Inside(n) \subseteq visited
  /\ wrapped \subseteq Functions \cap visited
  /\ Len(timers) <= Size /\ \A k \in DOMAIN timers : timers[k] \in TimerNames
  /\ \A n \in Nodes : decls[n] \subseteq TimerVars
  /\ at # <<>> => at[1] \in Nodes /\ at[2] \in {"before", "after", "exit"}
  /\ \A t \in DOMAIN clock : clock[t] \in {"unset", "started", "ended", "recorded", "bad"}

Records(n) == {call \in CallsAt(n) : call.op = "record"}
AllRecords == UNION {Records(n) : n \in Nodes}

\* Two calls record under one number exactly if they record one timer, which no
\* two loops share, and timerDefs.c has that timer's name at that number: loops
\* take numbers before, between and after the functions' own, which RETURNs may
\* take first.
NumbersDistinct ==
  /\ \A r, s \in AllRecords : r.num = s.num <=> r.timer = s.timer
  /\ \A r \in AllRecords : r.num < Len(timers) /\ timers[r.num + 1] = r.timer
  /\ \A l, m \in Loops : \A r \in Records(l) \cap Records(m) : l # m => Len(r.timer) = 1

\* Everything a function's calls mention is declared in it, once, behind the
\* specification statements and in front of everything that can be executed,
\* unless one of the former is such that the code takes it for an actual one.
DeclaredFirst ==
  pass \in {"generate", "run"} =>
    \A f \in Functions :
      LET body == Inside(f)
          first == Least(Actual(f))
      IN Actual(f) # {} /\ (\A n \in body : label[n] # "common") =>
           /\ UNION {VarsOf(call) : call \in UNION {CallsAt(n) : n \in body}} \subseteq decls[f]
           /\ before[first][1] = Declarations
           /\ \A n \in body : n < first <=> label[n] \in Specification
           /\ \A n \in body : n < first => CallsAt(n) = {}
           /\ \A n \in body : \A k \in DOMAIN before[n] :
                before[n][k] = Declarations => n = first /\ k = 1
           /\ \A n \in body : Declarations \notin {after[n][k] : k \in DOMAIN after[n]}

Activation == Enclosing(at[1])

\* No activation records a timer that it has not started and ended before, on
\* any path through loops, IFs and RETURNs.
RecordsMeasure ==
  at # <<>> /\ Actual(Activation) # {} => \A t \in DOMAIN clock : clock[t] # "bad"

\* An activation that ends has recorded its function's timer, whichever way it
\* ends, and the loop timers it leaves running are those of the loops around the
\* RETURN it ends at.
SkippedExactly ==
  at # <<>> /\ at[2] = "exit" /\ Actual(Activation) # {} =>
    /\ clock[FunctionTimer(Activation)] = "recorded"
    /\ \A l \in Loops \cap Inside(Activation) :
         clock[before[l][Len(before[l])].timer] = "started" <=> at[1] \in Inside(l)

\* Not a property of this code. The modes of all arrays are known when the glue
\* is generated (HalideCodeGenerator.cpp:118).
ModesKnown == pass # "unknown mode"
=============================================================================
