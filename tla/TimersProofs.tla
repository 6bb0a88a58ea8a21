----------------------------- MODULE TimersProofs -----------------------------
(* Theorems about Timers, for programs of any size and any names.             *)
EXTENDS Timers, FiniteSetTheorems, Induction, TLAPS

Elements(q) == {q[k] : k \in DOMAIN q}

\* A loop's timer carries its number, a function's none; no timer has two numbers.
NumberedWell(list) ==
  /\ \A k \in 1..Len(list) : Len(list[k]) = 1 \/ (Len(list[k]) = 2 /\ list[k][2] = k - 1)
  /\ \A j, k \in 1..Len(list) : list[j] = list[k] => j = k

Recorded(list, r) == r.num \in 0..Len(list) - 1 /\ list[r.num + 1] = r.timer

SequencesOfCalls == \E C : before \in [Nodes -> Seq(C)] /\ after \in [Nodes -> Seq(C)]

IInv ==
  /\ \E S : timers \in Seq(S)
  /\ SequencesOfCalls
  /\ NumberedWell(timers)
  /\ \A n \in Nodes : \A r \in Records(n) : Recorded(timers, r)
  /\ \A l, m \in Loops : \A r \in Records(l) \cap Records(m) : l # m => Len(r.timer) = 1

-------------------------------------------------------------------------------
LEMMA ElementsOf ==
  ASSUME NEW n
  PROVE  CallsAt(n) = Elements(before[n]) \cup Elements(after[n])
BY DEF CallsAt, Elements

(* The elements of a concatenation. *)
LEMMA ConcatElements ==
  ASSUME NEW C, NEW a \in Seq(C), NEW b \in Seq(C)
  PROVE  a \o b \in Seq(C) /\ Elements(a \o b) \subseteq Elements(a) \cup Elements(b)
<1>1. a \o b \in Seq(C) /\ Len(a \o b) = Len(a) + Len(b)
  OBVIOUS
<1>2. ASSUME NEW k \in 1..Len(a \o b)
      PROVE  (a \o b)[k] \in Elements(a) \cup Elements(b)
  <2>1. CASE k <= Len(a)
    BY <1>1, <1>2, <2>1 DEF Elements
  <2>2. CASE k > Len(a)
    <3>1. (a \o b)[k] = b[k - Len(a)] /\ k - Len(a) \in 1..Len(b)
      BY <1>1, <1>2, <2>2
    <3> QED BY <3>1 DEF Elements
  <2> QED BY <1>1, <2>1, <2>2
<1> QED BY <1>1, <1>2 DEF Elements

(* Two calls. *)
LEMMA PairElements ==
  ASSUME NEW C, NEW a \in C, NEW b \in C
  PROVE  <<a, b>> \in Seq(C) /\ Elements(<<a, b>>) = {a, b}
BY DEF Elements

LEMMA SingleElements ==
  ASSUME NEW C, NEW a \in C
  PROVE  <<a>> \in Seq(C) /\ Elements(<<a>>) = {a}
BY DEF Elements

(* timerNum: a name gets one number, the names before it keep theirs. *)
LEMMA NumberingTimer ==
  ASSUME NEW S, NEW list \in Seq(S), NumberedWell(list), NEW t, Len(t) = 1
  PROVE  LET new == Numbered(list, t)
             num == NumberOf(list, t)
         IN /\ \E T : new \in Seq(T)
            /\ NumberedWell(new)
            /\ Len(list) <= Len(new) /\ \A k \in 1..Len(list) : new[k] = list[k]
            /\ num \in 0..Len(new) - 1 /\ new[num + 1] = t
<1>1. CASE \E k \in 1..Len(list) : list[k] = t
  <2>1. PICK k \in 1..Len(list) : list[k] = t /\ NumberOf(list, t) = k - 1
    BY <1>1 DEF NumberOf
  <2>2. Numbered(list, t) = list
    BY <1>1 DEF Numbered
  <2> QED BY <2>1, <2>2
<1>2. CASE ~\E k \in 1..Len(list) : list[k] = t
  <2> DEFINE new == Append(list, t)
  <2>1. Numbered(list, t) = new /\ NumberOf(list, t) = Len(list)
    BY <1>2 DEF Numbered, NumberOf
  <2>2. list \in Seq(S \cup {t}) /\ t \in S \cup {t}
    OBVIOUS
  <2>3. /\ new \in Seq(S \cup {t}) /\ Len(new) = Len(list) + 1
        /\ new[Len(list) + 1] = t /\ \A k \in 1..Len(list) : new[k] = list[k]
    BY <2>2
  <2>4. NumberedWell(new)
    <3>1. \A k \in 1..Len(new) : k \in 1..Len(list) \/ k = Len(list) + 1
      BY <2>3
    <3> QED BY <1>2, <2>3, <3>1 DEF NumberedWell
  <2> HIDE DEF new
  <2> QED BY <2>1, <2>3, <2>4
<1> QED BY <1>1, <1>2

-------------------------------------------------------------------------------
(* A step that may number one function's timer and only adds records of it. *)
LEMMA OneTimer ==
  ASSUME IInv, UNCHANGED program, NEW t, Len(t) = 1,
         timers' = Numbered(timers, t), SequencesOfCalls',
         \A n \in Nodes : \A r \in Records(n)' :
           r \in Records(n) \/ r = RecordCall(t, NumberOf(timers, t))
  PROVE  IInv'
<1> DEFINE num == NumberOf(timers, t)
<1>1. PICK S : timers \in Seq(S)
  BY DEF IInv
<1>2. /\ \E T : timers' \in Seq(T)
      /\ NumberedWell(timers')
      /\ Len(timers) <= Len(timers') /\ \A k \in 1..Len(timers) : timers'[k] = timers[k]
      /\ num \in 0..Len(timers') - 1 /\ timers'[num + 1] = t
  BY <1>1, NumberingTimer DEF IInv
<1>3. RecordCall(t, num).num = num /\ RecordCall(t, num).timer = t
  BY DEF RecordCall
<1>4. Len(timers) \in Nat /\ Len(timers') \in Nat
  BY <1>1, <1>2
<1> HIDE DEF num
<1>5. ASSUME NEW n \in Nodes, NEW r \in Records(n)'
      PROVE  Recorded(timers', r)
  <2>1. CASE r \in Records(n)
    <3>1. r.num \in 0..Len(timers) - 1 /\ timers[r.num + 1] = r.timer
      BY <2>1 DEF IInv, Recorded
    <3> QED BY <3>1, <1>2, <1>4 DEF Recorded
  <2>2. CASE r = RecordCall(t, num)
    BY <2>2, <1>2, <1>3 DEF Recorded
  <2> QED BY <2>1, <2>2 DEF num
<1>6. Loops' = Loops /\ Loops \subseteq Nodes
  BY DEF program, Loops
<1>7. ASSUME NEW l \in Loops, NEW m \in Loops, NEW r \in Records(l)' \cap Records(m)', l # m
      PROVE  Len(r.timer) = 1
  <2>1. CASE r = RecordCall(t, num)
    BY <2>1, <1>3
  <2>2. CASE r \in Records(l) \cap Records(m)
    BY <2>2, <1>7 DEF IInv
  <2> QED BY <2>1, <2>2, <1>6 DEF num
<1> QED BY <1>2, <1>5, <1>6, <1>7 DEF IInv

LEMMA SameCalls ==
  ASSUME IInv, UNCHANGED <<program, timers, before, after>>
  PROVE  IInv'
<1>1. \A n \in Nodes : Records(n)' = Records(n)
  BY DEF Records, CallsAt
<1>2. Loops' = Loops /\ Loops \subseteq Nodes
  BY DEF program, Loops
<1>3. SequencesOfCalls'
  BY DEF IInv, SequencesOfCalls
<1> QED BY <1>1, <1>2, <1>3 DEF IInv

LEMMA FunctionTimerLen == \A f : Len(FunctionTimer(f)) = 1
BY DEF FunctionTimer

LEMMA VisitReturnIInv ==
  ASSUME IInv, NEW n \in Nodes, VisitReturn(n)
  PROVE  IInv'
<1> DEFINE t == FunctionTimer(Enclosing(n))
           num == NumberOf(timers, t)
<1>1. /\ UNCHANGED program /\ timers' = Numbered(timers, t) /\ after' = after
      /\ before' = [before EXCEPT ![n] = <<EndCall(t), RecordCall(t, num)>>]
  BY DEF VisitReturn, Closing
<1>2. Len(t) = 1
  BY FunctionTimerLen
<1> HIDE DEF t, num
<1>3. PICK C : before \in [Nodes -> Seq(C)] /\ after \in [Nodes -> Seq(C)]
  BY DEF IInv, SequencesOfCalls
<1> DEFINE D == C \cup {EndCall(t), RecordCall(t, num)}
           new == <<EndCall(t), RecordCall(t, num)>>
<1>4. new \in Seq(D) /\ Elements(new) = {EndCall(t), RecordCall(t, num)}
  BY PairElements
<1>5. Seq(C) \subseteq Seq(D)
  OBVIOUS
<1>6. SequencesOfCalls'
  <2> HIDE DEF new, D
  <2>1. before' \in [Nodes -> Seq(D)] /\ after' \in [Nodes -> Seq(D)]
    BY <1>1, <1>3, <1>4, <1>5 DEF new
  <2> QED BY <2>1 DEF SequencesOfCalls
<1>7. ASSUME NEW m \in Nodes, NEW r \in Records(m)'
      PROVE  r \in Records(m) \/ r = RecordCall(t, num)
  <2>1. r \in (Elements(before[m]) \cup Elements(after[m]))' /\ r.op = "record"
    BY ElementsOf DEF Records, CallsAt, Elements
  <2>2. EndCall(t).op # "record"
    BY DEF EndCall
  <2>3. CASE r \in Elements(before'[m]) /\ m = n
    BY <2>1, <2>2, <2>3, <1>1, <1>3, <1>4
  <2>4. CASE r \in Elements(before'[m]) /\ m # n
    <3>1. r \in Elements(before[m])
      BY <2>4, <1>1, <1>3
    <3> QED BY <2>1, <3>1, ElementsOf DEF Records
  <2>5. CASE r \in Elements(after[m])
    BY <2>1, <2>5, ElementsOf DEF Records
  <2> QED BY <1>1, <2>1, <2>3, <2>4, <2>5 DEF Elements
<1> QED BY <1>1, <1>2, <1>6, <1>7, OneTimer DEF num

-------------------------------------------------------------------------------
(* The loops of a block are numbered in turn, without a gap. *)
LEMMA LoopsInTurn ==
  ASSUME NEW D \in SUBSET Nodes
  PROVE  /\ Cardinality(D) \in Nat
         /\ \A c \in D : Cardinality({d \in D : d < c}) \in 0..Cardinality(D) - 1
         /\ \A c, e \in D : Cardinality({d \in D : d < c}) = Cardinality({d \in D : d < e}) => c = e
<1>1. IsFiniteSet(D) /\ Cardinality(D) \in Nat
  <2>1. IsFiniteSet(Nodes)
    BY TimersAssumption, FS_Interval DEF Nodes
  <2>2. IsFiniteSet(D)
    BY <2>1, FS_Subset
  <2> QED BY <2>2, FS_CardinalityType
<1>2. ASSUME NEW c \in D
      PROVE  LET U == {d \in D : d < c} IN
             IsFiniteSet(U) /\ Cardinality(U) \in 0..Cardinality(D) - 1
  <2> DEFINE U == {d \in D : d < c}
  <2>1. U \in SUBSET D /\ c \notin U
    BY DEF Nodes
  <2>2. IsFiniteSet(U) /\ Cardinality(U) <= Cardinality(D) /\ Cardinality(U) # Cardinality(D)
    BY <1>1, <2>1, FS_Subset
  <2>3. Cardinality(U) \in Nat
    BY <2>2, FS_CardinalityType
  <2> QED BY <1>1, <2>2, <2>3
<1>3. ASSUME NEW c \in D, NEW e \in D, c < e
      PROVE  Cardinality({d \in D : d < c}) # Cardinality({d \in D : d < e})
  <2> DEFINE U == {d \in D : d < c}
             V == {d \in D : d < e}
  <2>1. c \in V /\ c \notin U /\ U \in SUBSET V
    <3>1. D \subseteq Int
      BY TimersAssumption DEF Nodes
    <3>2. \A d \in D : d < c => d < e
      BY <1>3, <3>1
    <3>3. ~(c < c)
      BY <3>1
    <3> QED BY <1>3, <3>2, <3>3
  <2>2. IsFiniteSet(V)
    BY <1>2
  <2> QED BY <2>1, <2>2, FS_Subset
<1>4. \A c, e \in D : c # e => c < e \/ e < c
  BY DEF Nodes
<1> QED BY <1>1, <1>2, <1>3, <1>4

(* The timers of the loops of a block follow those there are. *)
LEMMA BlockTimers ==
  ASSUME NEW S, timers \in Seq(S), NEW n \in Nodes, VisitBlock(n)
  PROVE  LET dos == Children(n) \cap Loops
             size == Cardinality(dos)
             old == Len(timers)
             Timer(k) == LoopTimer(Enclosing(n), k)
         IN /\ old \in Nat /\ size \in Nat
            /\ \A c \in dos : LoopNumber(n, c) \in old..old + size - 1
            /\ \A c, e \in dos : LoopNumber(n, c) = LoopNumber(n, e) => c = e
            /\ timers' \in Seq(S \cup {Timer(k) : k \in Int}) /\ Len(timers') = old + size
            /\ \A k \in 1..old : timers'[k] = timers[k]
            /\ \A k \in old + 1..old + size : timers'[k] = Timer(k - 1)
<1> DEFINE dos == Children(n) \cap Loops
           f == Enclosing(n)
           size == Cardinality(dos)
           more == [k \in 1..size |-> LoopTimer(f, Len(timers) + k - 1)]
           old == Len(timers)
           T == S \cup {LoopTimer(f, k) : k \in Int}
<1>1. old \in Nat
  OBVIOUS
<1>2. dos \in SUBSET Nodes
  BY DEF Children
<1>3. /\ size \in Nat
      /\ \A c \in dos : Cardinality({d \in dos : d < c}) \in 0..size - 1
      /\ \A c, e \in dos : Cardinality({d \in dos : d < c}) = Cardinality({d \in dos : d < e}) => c = e
  <2>1. ASSUME NEW D \in SUBSET Nodes
        PROVE  /\ Cardinality(D) \in Nat
               /\ \A c \in D : Cardinality({d \in D : d < c}) \in 0..Cardinality(D) - 1
               /\ \A c, e \in D :
                    Cardinality({d \in D : d < c}) = Cardinality({d \in D : d < e}) => c = e
    BY LoopsInTurn
  <2> HIDE DEF dos
  <2> QED BY <1>2, <2>1 DEF size
<1>4. /\ \A c \in dos : LoopNumber(n, c) \in old..old + size - 1
      /\ \A c, e \in dos : LoopNumber(n, c) = LoopNumber(n, e) => c = e
  <2> DEFINE P(c) == Cardinality({d \in dos : d < c})
  <2>1. \A c : LoopNumber(n, c) = old + P(c)
    BY DEF LoopNumber
  <2>2. /\ \A c \in dos : P(c) \in 0..size - 1
        /\ \A c, e \in dos : P(c) = P(e) => c = e
    BY <1>3
  <2>3. size \in Nat
    BY <1>3
  <2> HIDE DEF dos, size, old, P
  <2>4. \A c \in dos : LoopNumber(n, c) \in old..old + size - 1
    BY <1>1, <2>1, <2>2, <2>3
  <2>5. \A c, e \in dos : LoopNumber(n, c) = LoopNumber(n, e) => P(c) = P(e)
    BY <1>1, <2>1, <2>2, <2>3
  <2> QED BY <2>2, <2>4, <2>5
<1>5. timers' = timers \o more
  BY DEF VisitBlock
<1>6. more \in Seq(T) /\ Len(more) = size
  <2>1. size \in Nat
    BY <1>3
  <2>2. \A k \in 1..size : LoopTimer(f, Len(timers) + k - 1) \in T
    BY <1>1, <2>1
  <2> HIDE DEF size, T
  <2>3. more \in [1..size -> T]
    BY <2>2
  <2> HIDE DEF more
  <2> QED BY <2>1, <2>3
<1>7. timers \in Seq(T)
  OBVIOUS
<1>8. \A k \in 1..size : more[k] = LoopTimer(f, old + k - 1)
  OBVIOUS
<1>9. size \in Nat
  BY <1>3
<1> HIDE DEF more, T, size
<1>10. timers \o more \in Seq(T) /\ Len(timers \o more) = old + size
  BY <1>6, <1>7
<1>11. \A k \in 1..old : (timers \o more)[k] = timers[k]
  BY <1>6, <1>7
<1>12. ASSUME NEW k \in old + 1..old + size
       PROVE  (timers \o more)[k] = LoopTimer(f, k - 1)
  <2>1. k - old \in 1..size /\ old + (k - old) - 1 = k - 1
    BY <1>1, <1>9
  <2>2. (timers \o more)[k] = more[k - old]
    BY <1>6, <1>7, <1>9, <2>1
  <2> QED BY <1>8, <2>1, <2>2
<1> QED BY <1>1, <1>4, <1>5, <1>9, <1>10, <1>11, <1>12 DEF T, size

LEMMA VisitBlockIInv ==
  ASSUME IInv, NEW n \in Nodes, VisitBlock(n)
  PROVE  IInv'
<1> DEFINE dos == Children(n) \cap Loops
           f == Enclosing(n)
           size == Cardinality(dos)
           Timer(c) == LoopTimer(f, LoopNumber(n, c))
           old == Len(timers)
<1>1. PICK S : timers \in Seq(S)
  BY DEF IInv
<1>2. old \in Nat
  BY <1>1
<1>3. dos \in SUBSET Nodes /\ Loops \subseteq Nodes
  BY DEF Children, Loops
<1>5. /\ UNCHANGED program
      /\ before' = [m \in Nodes |-> IF m \in dos THEN <<StartCall(Timer(m))>> ELSE before[m]]
      /\ after' = [m \in Nodes |->
            IF m \in dos THEN <<EndCall(Timer(m)), RecordCall(Timer(m), LoopNumber(n, m))>>
            ELSE after[m]]
  BY DEF VisitBlock
<1> DEFINE T == S \cup {LoopTimer(f, k) : k \in Int}
<1>4. /\ size \in Nat
      /\ \A c \in dos : LoopNumber(n, c) \in old..old + size - 1
      /\ \A c, e \in dos : LoopNumber(n, c) = LoopNumber(n, e) => c = e
  BY <1>1, BlockTimers
<1>6. /\ timers' \in Seq(T) /\ Len(timers') = old + size
      /\ \A k \in 1..old : timers'[k] = timers[k]
      /\ \A k \in old + 1..old + size : timers'[k] = LoopTimer(f, k - 1)
  BY <1>1, BlockTimers
<1>7. \A k : Len(LoopTimer(f, k)) = 2 /\ LoopTimer(f, k)[2] = k
  BY DEF LoopTimer
<1> HIDE DEF T
<1>8. NumberedWell(timers')
  <2> HIDE DEF f, size
  <2>1. \A k \in 1..Len(timers') : k \in 1..old \/ k \in old + 1..old + size
    BY <1>2, <1>4, <1>6
  <2>2. \A k \in 1..old : Len(timers[k]) = 1 \/ (Len(timers[k]) = 2 /\ timers[k][2] = k - 1)
    BY DEF IInv, NumberedWell
  <2>3. \A k \in 1..Len(timers') :
          Len(timers'[k]) = 1 \/ (Len(timers'[k]) = 2 /\ timers'[k][2] = k - 1)
    BY <2>1, <2>2, <1>6, <1>7
  <2>4. \A k \in old + 1..old + size : Len(timers'[k]) = 2 /\ timers'[k][2] = k - 1
    BY <1>6, <1>7
  <2>5. ASSUME NEW j \in 1..Len(timers'), NEW k \in 1..Len(timers'), timers'[j] = timers'[k]
        PROVE  j = k
    <3>1. CASE j \in 1..old /\ k \in 1..old
      BY <1>6, <2>5, <3>1 DEF IInv, NumberedWell
    <3>2. CASE j \in old + 1..old + size \/ k \in old + 1..old + size
      <4>1. Len(timers'[j]) = 2 /\ timers'[j][2] = j - 1 /\ timers'[k][2] = k - 1
        BY <2>3, <2>4, <2>5, <3>2
      <4>2. j \in Int /\ k \in Int /\ j - 1 = k - 1
        BY <2>5, <4>1
      <4> QED BY <4>2
    <3> QED BY <2>1, <3>1, <3>2
  <2> QED BY <2>3, <2>5 DEF NumberedWell
<1>9. PICK C : before \in [Nodes -> Seq(C)] /\ after \in [Nodes -> Seq(C)]
  BY DEF IInv, SequencesOfCalls
<1> DEFINE E == C \cup {StartCall(Timer(m)) : m \in Nodes} \cup {EndCall(Timer(m)) : m \in Nodes}
                  \cup {RecordCall(Timer(m), LoopNumber(n, m)) : m \in Nodes}
<1>10. \A m \in dos : /\ <<StartCall(Timer(m))>> \in Seq(E)
                      /\ <<EndCall(Timer(m)), RecordCall(Timer(m), LoopNumber(n, m))>> \in Seq(E)
                      /\ Elements(<<StartCall(Timer(m))>>) = {StartCall(Timer(m))}
                      /\ Elements(<<EndCall(Timer(m)), RecordCall(Timer(m), LoopNumber(n, m))>>)
                           = {EndCall(Timer(m)), RecordCall(Timer(m), LoopNumber(n, m))}
  <2> TAKE m \in dos
  <2>1. /\ StartCall(Timer(m)) \in E /\ EndCall(Timer(m)) \in E
        /\ RecordCall(Timer(m), LoopNumber(n, m)) \in E
    BY <1>3
  <2> HIDE DEF E
  <2>2. <<StartCall(Timer(m))>> \in Seq(E) /\ Elements(<<StartCall(Timer(m))>>) = {StartCall(Timer(m))}
    BY <2>1, SingleElements
  <2> QED BY <2>1, <2>2, PairElements
<1>11. Seq(C) \subseteq Seq(E)
  OBVIOUS
<1> HIDE DEF E, dos, Timer
<1>12. SequencesOfCalls'
  <2>1. before' \in [Nodes -> Seq(E)] /\ after' \in [Nodes -> Seq(E)]
    BY <1>5, <1>9, <1>10, <1>11
  <2> QED BY <2>1 DEF SequencesOfCalls
<1>13. ASSUME NEW m \in Nodes, NEW r \in Records(m)'
       PROVE  \/ m \notin dos /\ r \in Records(m)
              \/ m \in dos /\ r = RecordCall(Timer(m), LoopNumber(n, m))
  <2>1. r \in Elements(before'[m]) \cup Elements(after'[m]) /\ r.op = "record"
    BY ElementsOf DEF Records, CallsAt, Elements
  <2>2. \A t : EndCall(t).op # "record" /\ StartCall(t).op # "record"
    BY DEF EndCall, StartCall
  <2>3. CASE m \in dos
    BY <2>1, <2>2, <2>3, <1>5, <1>10
  <2>4. CASE m \notin dos
    <3>1. r \in Elements(before[m]) \cup Elements(after[m])
      BY <2>1, <2>4, <1>5
    <3> QED BY <2>1, <2>4, <3>1, ElementsOf DEF Records
  <2> QED BY <2>3, <2>4
<1>14. \A t, num : RecordCall(t, num).num = num /\ RecordCall(t, num).timer = t
  BY DEF RecordCall
<1>15. \A m \in Nodes : \A r \in Records(m) : r.num \in 0..old - 1 /\ timers[r.num + 1] = r.timer
  BY DEF IInv, Recorded
<1>16. ASSUME NEW m \in Nodes, NEW r \in Records(m)'
       PROVE  Recorded(timers', r)
  <2>1. CASE r \in Records(m)
    <3>1. r.num \in 0..old - 1 /\ timers[r.num + 1] = r.timer
      BY <2>1, <1>15
    <3>2. r.num + 1 \in 1..old /\ r.num \in 0..Len(timers') - 1
      BY <3>1, <1>2, <1>4, <1>6
    <3>3. timers'[r.num + 1] = timers[r.num + 1]
      BY <3>2, <1>6
    <3> QED BY <3>1, <3>2, <3>3 DEF Recorded
  <2>2. CASE m \in dos /\ r = RecordCall(Timer(m), LoopNumber(n, m))
    <3>1. r.num = LoopNumber(n, m) /\ r.timer = LoopTimer(f, r.num)
      BY <2>2, <1>14 DEF Timer
    <3>2. r.num \in old..old + size - 1
      BY <2>2, <3>1, <1>4
    <3>3. r.num + 1 \in old + 1..old + size /\ r.num + 1 - 1 = r.num
      BY <3>2, <1>2, <1>4
    <3>4. timers'[r.num + 1] = r.timer
      <4> DEFINE k == r.num + 1
      <4>1. k \in old + 1..old + size /\ k - 1 = r.num
        <5> HIDE DEF old, size
        <5>1. r.num \in Int
          BY <3>2, <1>2, <1>4
        <5> QED BY <3>3, <5>1
      <4> HIDE DEF k
      <4>2. timers'[k] = LoopTimer(f, k - 1)
        BY <4>1, <1>6
      <4>3. timers'[k] = r.timer
        BY <3>1, <4>1, <4>2
      <4> QED BY <4>3 DEF k
    <3>5. r.num \in 0..Len(timers') - 1
      BY <3>2, <1>2, <1>4, <1>6
    <3> QED BY <3>4, <3>5 DEF Recorded
  <2> QED BY <2>1, <2>2, <1>13
<1>17. Loops' = Loops
  BY <1>5 DEF program, Loops
<1>18. ASSUME NEW l \in Loops, NEW m \in Loops, NEW r \in Records(l)' \cap Records(m)', l # m
       PROVE  Len(r.timer) = 1
  <2>1. CASE l \notin dos /\ m \notin dos
    BY <2>1, <1>3, <1>13, <1>18 DEF IInv
  <2>2. CASE l \in dos /\ m \in dos
    <3>1. r.num = LoopNumber(n, l) /\ r.num = LoopNumber(n, m)
      BY <2>2, <1>3, <1>13, <1>14, <1>18
    <3> QED BY <2>2, <3>1, <1>4, <1>18
  <2>3. ASSUME NEW a \in Nodes, NEW b \in Nodes, a \in dos, b \notin dos, r \in Records(a)', r \in Records(b)'
        PROVE  FALSE
    <3>1. r.num \in old..old + size - 1
      BY <2>3, <1>4, <1>13, <1>14
    <3>2. r.num \in 0..old - 1
      BY <2>3, <1>13, <1>15
    <3> QED BY <3>1, <3>2, <1>2, <1>4
  <2> QED BY <2>1, <2>2, <2>3, <1>3, <1>18
<1> QED BY <1>6, <1>8, <1>12, <1>16, <1>17, <1>18 DEF IInv

LEMMA WrapIInv ==
  ASSUME IInv, NEW f \in Nodes, Wrap(f)
  PROVE  IInv'
<1> DEFINE t == FunctionTimer(f)
           num == NumberOf(timers, t)
           opening == <<Declarations, StartCall(t)>>
           closing == <<EndCall(t), RecordCall(t, num)>>
           last == Greatest(Children(f))
           first == Least(Actual(f))
<1>1. UNCHANGED program
  BY DEF Wrap
<1>2. CASE Children(f) = {}
  BY <1>1, <1>2, SameCalls DEF Wrap, inserted
<1>3. CASE Children(f) # {}
  <2>1. /\ timers' = Numbered(timers, t)
        /\ \/ after' = [after EXCEPT ![last] = closing \o opening] /\ before' = before
           \/ /\ before' = [before EXCEPT ![first] = opening \o @]
              /\ after' = after \/ after' = [after EXCEPT ![last] = @ \o closing]
    BY <1>3 DEF Wrap, Closing
  <2>2. PICK C : before \in [Nodes -> Seq(C)] /\ after \in [Nodes -> Seq(C)]
    BY DEF IInv, SequencesOfCalls
  <2> DEFINE D == C \cup {Declarations, StartCall(t), EndCall(t), RecordCall(t, num)}
  <2>3. /\ opening \in Seq(D) /\ Elements(opening) = {Declarations, StartCall(t)}
        /\ closing \in Seq(D) /\ Elements(closing) = {EndCall(t), RecordCall(t, num)}
    BY PairElements
  <2>4. before \in [Nodes -> Seq(D)] /\ after \in [Nodes -> Seq(D)]
    <3>1. Seq(C) \subseteq Seq(D)
      OBVIOUS
    <3> QED BY <2>2, <3>1
  <2>5. Len(t) = 1
    BY FunctionTimerLen
  <2> HIDE DEF D, opening, closing, last, first, t, num
  <2>6. /\ closing \o opening \in Seq(D)
        /\ Elements(closing \o opening) \subseteq Elements(closing) \cup Elements(opening)
        /\ \A m \in Nodes :
             /\ opening \o before[m] \in Seq(D)
             /\ Elements(opening \o before[m]) \subseteq Elements(opening) \cup Elements(before[m])
             /\ after[m] \o closing \in Seq(D)
             /\ Elements(after[m] \o closing) \subseteq Elements(after[m]) \cup Elements(closing)
    BY <2>3, <2>4, ConcatElements
  <2>7. SequencesOfCalls'
    <3>1. before' = [m \in Nodes |-> before'[m]] /\ after' = [m \in Nodes |-> after'[m]]
      BY <2>1, <2>4
    <3>2. \A m \in Nodes : /\ before'[m] \in {before[m], opening \o before[m]}
                           /\ after'[m] \in {after[m], closing \o opening, after[m] \o closing}
      BY <2>1, <2>4
    <3>3. \A m \in Nodes : before'[m] \in Seq(D) /\ after'[m] \in Seq(D)
      BY <2>4, <2>6, <3>2
    <3>4. before' \in [Nodes -> Seq(D)] /\ after' \in [Nodes -> Seq(D)]
      BY <3>1, <3>3
    <3> QED BY <3>4 DEF SequencesOfCalls
  <2> DEFINE new == Elements(opening) \cup Elements(closing)
  <2>8. ASSUME NEW m \in Nodes
        PROVE  /\ Elements(before'[m]) \subseteq Elements(before[m]) \cup new
               /\ Elements(after'[m]) \subseteq Elements(after[m]) \cup new
    <3>1. before'[m] \in {before[m], opening \o before[m]}
      BY <2>1, <2>4
    <3>2. after'[m] \in {after[m], closing \o opening, after[m] \o closing}
      BY <2>1, <2>4
    <3> QED BY <3>1, <3>2, <2>6
  <2>9. ASSUME NEW m \in Nodes, NEW r \in Records(m)'
        PROVE  r \in Records(m) \/ r = RecordCall(t, num)
    <3>1. r \in Elements(before'[m]) \cup Elements(after'[m]) /\ r.op = "record"
      BY ElementsOf DEF Records, CallsAt, Elements
    <3>2. EndCall(t).op # "record" /\ StartCall(t).op # "record" /\ Declarations.op # "record"
      BY DEF EndCall, StartCall, Declarations
    <3>3. r \in Elements(before[m]) \cup Elements(after[m]) \/ r = RecordCall(t, num)
      BY <3>1, <3>2, <2>3, <2>8
    <3> QED BY <3>1, <3>3, ElementsOf DEF Records
  <2> QED BY <1>1, <2>1, <2>5, <2>7, <2>9, OneTimer DEF num
<1> QED BY <1>2, <1>3

LEMMA InitIInv == Init => IInv
<1> SUFFICES ASSUME Init PROVE IInv
  OBVIOUS
<1>1. /\ timers = <<>>
      /\ before = [n \in Nodes |-> <<>>] /\ after = [n \in Nodes |-> <<>>]
  BY DEF Init
<1>2. timers \in Seq({}) /\ Len(timers) = 0
  BY <1>1
<1>3. before \in [Nodes -> Seq({})] /\ after \in [Nodes -> Seq({})]
  BY <1>1
<1>4. \A n \in Nodes : Records(n) = {}
  <2> TAKE n \in Nodes
  <2>1. before[n] = <<>> /\ after[n] = <<>>
    BY <1>1
  <2> QED BY <2>1 DEF Records, CallsAt
<1>5. Loops \subseteq Nodes
  BY DEF Loops
<1> QED BY <1>2, <1>3, <1>4, <1>5 DEF IInv, SequencesOfCalls, NumberedWell

LEMMA NextIInv == IInv /\ [Next]_vars => IInv'
<1> SUFFICES ASSUME IInv, [Next]_vars PROVE IInv'
  OBVIOUS
<1>1. CASE UNCHANGED <<program, timers, before, after>>
  BY <1>1, SameCalls
<1>2. ASSUME NEW n \in Nodes, VisitOther(n) PROVE IInv'
  BY <1>2, <1>1 DEF VisitOther, inserted
<1>3. CASE EndInsert \/ Generate
  BY <1>3, <1>1 DEF EndInsert, Generate, inserted
<1>4. ASSUME NEW n \in Nodes, Enter(n) \/ Statement(n) \/ Continue(n) PROVE IInv'
  BY <1>4, <1>1 DEF Enter, Statement, Continue, inserted
<1>5. ASSUME NEW n \in Nodes, NEW side \in {"before", "after"}, NEW k \in 1..Len(Calls(n, side)),
             Perform(n, side, k)
      PROVE  IInv'
  BY <1>5, <1>1 DEF Perform, inserted
<1>6. CASE UNCHANGED vars
  BY <1>6, <1>1 DEF vars, inserted
<1> QED
  BY <1>2, <1>3, <1>4, <1>5, <1>6, VisitReturnIInv, VisitBlockIInv, WrapIInv DEF Next

(* Two calls record under one number exactly if they record one timer, whose  *)
(* name timerDefs.c has at that number; no two loops share a timer            *)
(* (TimeInstrumentor.cpp's timerNum and its loop numbers).                    *)
THEOREM TimersNumberedDistinctly == Spec => []NumbersDistinct
<1>1. Spec => []IInv
  BY InitIInv, NextIInv, PTL DEF Spec
<1>2. IInv => NumbersDistinct
  <2> SUFFICES ASSUME IInv PROVE NumbersDistinct
    OBVIOUS
  <2>1. \A r \in AllRecords : r.num \in 0..Len(timers) - 1 /\ timers[r.num + 1] = r.timer
    BY DEF IInv, AllRecords, Recorded
  <2>2. Len(timers) \in Nat
    BY DEF IInv
  <2>3. \A r \in AllRecords : r.num < Len(timers) /\ r.num + 1 \in 1..Len(timers)
    BY <2>1, <2>2
  <2>4. ASSUME NEW r \in AllRecords, NEW q \in AllRecords, r.timer = q.timer
        PROVE  r.num = q.num
    <3>1. r.num + 1 = q.num + 1
      BY <2>1, <2>3, <2>4 DEF IInv, NumberedWell
    <3> QED BY <2>1, <2>2, <3>1
  <2>5. \A r, q \in AllRecords : r.num = q.num => r.timer = q.timer
    BY <2>1
  <2> QED BY <2>1, <2>3, <2>4, <2>5 DEF NumbersDistinct, IInv
<1> QED BY <1>1, <1>2, PTL

-------------------------------------------------------------------------------
(* Where the calls are. *)

\* Where Wrap puts the opening of a function and its closing: Opens, Closes; in a
\* function without an actual statement both behind the last one: Bare.
First(f) == Least(Actual(f))
Last(f) == Greatest(Children(f))
Opens(n) == \E f \in wrapped : Actual(f) # {} /\ n = First(f)
Closes(n) == \E f \in wrapped : Actual(f) # {} /\ n = Last(f) /\ label[n] # "return"
Bare(n) == \E f \in wrapped : Actual(f) = {} /\ n = Last(f)

\* Loops that are timed, and RETURNs that were visited.
Timed(n) == label[n] = "do" /\ parent[n] \in visited
Left(n) == label[n] = "return" /\ n \in visited

\* How many calls come before a statement's own, and before the function's end.
Ahead(n) == IF Opens(n) THEN 2 ELSE 0
Behind(n) == IF Timed(n) THEN 2 ELSE 0

TimerOf(l) == before[l][Ahead(l) + 1].timer
EndsTimer(c, d, t) == c = EndCall(t) /\ d = RecordCall(t, d.num)

\* The calls in front of a statement: the function's opening, then the start of
\* the loop's timer or, at a RETURN, the end of the function's.
Before(n) ==
  LET b == before[n]
      o == Ahead(n)
      t == FunctionTimer(Enclosing(n))
  IN /\ Len(b) = o + IF Timed(n) THEN 1 ELSE IF Left(n) THEN 2 ELSE 0
     /\ Opens(n) => b[1] = Declarations /\ b[2] = StartCall(t)
     /\ Timed(n) => b[o + 1] = StartCall(TimerOf(n)) /\ Len(TimerOf(n)) = 2
     /\ Left(n) => EndsTimer(b[o + 1], b[o + 2], t)

\* The calls behind it: the end of the loop's timer, then of the function's.
After(n) ==
  LET a == after[n]
      o == Behind(n)
      t == FunctionTimer(Enclosing(n))
  IN /\ Len(a) = o + IF Closes(n) THEN 2 ELSE IF Bare(n) THEN 4 ELSE 0
     /\ Timed(n) => EndsTimer(a[1], a[2], TimerOf(n))
     /\ Closes(n) => EndsTimer(a[o + 1], a[o + 2], t)
     /\ Bare(n) => EndsTimer(a[1], a[2], t) /\ a[3] = Declarations /\ a[4] = StartCall(t)

TimerVarsOf(t) == {<<"start", t>>, <<"end", t>>}

Forest ==
  /\ parent \in [Nodes -> 0..Size] /\ IsForest(parent)
  /\ label \in [Nodes -> Labels] /\ IsProgram /\ fname \in [Functions -> Names]

\* The calls are those, everything they mention is declared in the blocks around
\* them that have been visited, and blocks are visited after what is inside.
Shape ==
  /\ decls = [n \in Nodes |-> decls[n]]
  /\ \A n \in Nodes : Before(n) /\ After(n)
  /\ wrapped \subseteq Functions \cap visited
  /\ \A f \in wrapped : Children(f) # {} /\ TimerVarsOf(FunctionTimer(f)) \subseteq decls[f]
  /\ visited \subseteq Nodes /\ \A n \in visited : Inside(n) \subseteq visited
  /\ \A n \in visited : \A m \in Inside(n) : Timed(m) => TimerVarsOf(TimerOf(m)) \subseteq decls[n]
  /\ pass \in {"insert", "no statement", "generate", "unknown mode", "run"}
  /\ pass \notin {"insert", "no statement"} => visited = Nodes /\ wrapped = Functions

-------------------------------------------------------------------------------
(* Programs. *)

(* The least and the greatest of some statements. *)
LEMMA LeastIs ==
  ASSUME NEW S \in SUBSET Nodes, S # {}
  PROVE  Least(S) \in S /\ \A y \in S : Least(S) <= y
<1>1. PICK m \in S : \A y \in S : m <= y
  BY LeastNumber DEF Nodes
<1> QED BY <1>1 DEF Least

LEMMA GreatestIs ==
  ASSUME NEW S \in SUBSET Nodes, S # {}
  PROVE  Greatest(S) \in S /\ \A y \in S : y <= Greatest(S)
<1>1. PICK m \in S : \A y \in S : y <= m
  BY TimersAssumption, GreatestNumber DEF Nodes
<1> QED BY <1>1 DEF Greatest

(* What it is to be a program, at one statement. *)
LEMMA NodeFacts ==
  ASSUME Forest, NEW n \in Nodes
  PROVE  /\ n \in Int /\ n >= 1 /\ n <= Size /\ Size \in Nat
         /\ parent[n] \in Int /\ 0 <= parent[n] /\ parent[n] < n
         /\ n \in Functions <=> label[n] = "function"
         /\ n \in Functions <=> parent[n] = 0
         /\ n \notin Functions => parent[n] \in Nodes /\ label[parent[n]] \in Blocks
         /\ Children(n) \subseteq Nodes /\ \A c \in Children(n) : parent[c] = n /\ c \notin Functions
         /\ Inside(n) \subseteq Nodes /\ \A m \in Inside(n) : n < m /\ m \notin Functions
<1>1. Size \in Nat
  BY TimersAssumption
<1>2. /\ \A k \in Nodes : k \in Int /\ k >= 1 /\ k <= Size /\ parent[k] \in 0..Size /\ parent[k] < k
      /\ \A k \in Nodes : k \in Functions <=> label[k] = "function"
      /\ \A k \in Nodes : k \in Functions <=> parent[k] = 0
      /\ \A k \in Nodes \ Functions : label[parent[k]] \in Blocks
  BY <1>1 DEF Forest, IsForest, IsProgram, Functions, Nodes
<1>3. \A k \in Nodes : parent[k] # 0 => parent[k] \in Nodes
  BY <1>1, <1>2 DEF Nodes
<1>4. ASSUME NEW m \in Inside(n)
      PROVE  m \in Nodes /\ n < m /\ m \notin Functions
  <2>1. m \in n + 1..Size /\ n < m /\ m \in Nodes /\ m \in n + 1..m
    BY <1>1, <1>2 DEF Inside, Nodes
  <2>2. parent[m] >= n
    BY <2>1 DEF Inside
  <2> QED BY <1>2, <2>1, <2>2
<1>5. ASSUME NEW c \in Children(n)
      PROVE  parent[c] = n /\ c \notin Functions /\ c \in Nodes
  <2>1. c \in Nodes /\ parent[c] = n
    BY DEF Children
  <2> QED BY <1>2, <2>1
<1> QED BY <1>1, <1>2, <1>3, <1>4, <1>5

(* A child is inside. *)
LEMMA ChildInside ==
  ASSUME Forest, NEW n \in Nodes, NEW c \in Children(n)
  PROVE  c \in Inside(n)
<1>1. c \in Nodes /\ parent[c] = n /\ n < c /\ c <= Size
  BY NodeFacts DEF Children
<1>2. ASSUME NEW k \in n + 1..c
      PROVE  parent[k] >= n
  <2>1. k \in Nodes /\ n < k /\ k <= c
    BY <1>1, TimersAssumption DEF Nodes
  <2>2. CASE k < c
    <3>1. parent[k] >= parent[c]
      BY <1>1, <2>1, <2>2 DEF Forest, IsForest
    <3> QED BY <1>1, <3>1
  <2>3. CASE k = c
    BY <1>1, <2>3, NodeFacts
  <2> QED BY <1>1, <2>1, <2>2, <2>3 DEF Nodes
<1> QED BY <1>1, <1>2, TimersAssumption DEF Inside, Nodes

(* What is inside something inside is inside. *)
LEMMA InsideInside ==
  ASSUME Forest, NEW n \in Nodes, NEW m \in Inside(n), NEW k \in Inside(m)
  PROVE  k \in Inside(n)
<1>1. m \in Nodes /\ n < m /\ k \in Nodes /\ m < k
  <2>1. m \in Nodes /\ n < m
    BY NodeFacts
  <2> QED BY <2>1, NodeFacts
<1>2. ASSUME NEW j \in n + 1..k
      PROVE  parent[j] >= n
  <2>1. j \in Nodes
    BY <1>1, TimersAssumption DEF Nodes
  <2>2. CASE j <= m
    <3>1. j \in n + 1..m
      BY <1>1, <2>1, <2>2 DEF Nodes
    <3> QED BY <3>1 DEF Inside
  <2>3. CASE j > m
    <3>1. j \in m + 1..k
      BY <1>1, <2>1, <2>3 DEF Nodes
    <3>2. parent[j] >= m
      BY <3>1 DEF Inside
    <3>3. parent[j] \in Int
      BY <2>1, NodeFacts
    <3> QED BY <1>1, <3>2, <3>3 DEF Nodes
  <2> QED BY <1>1, <2>1, <2>2, <2>3 DEF Nodes
<1> QED BY <1>1, <1>2, TimersAssumption DEF Inside, Nodes

(* The parent of what is inside is the block itself or inside it. *)
LEMMA ParentInside ==
  ASSUME Forest, NEW n \in Nodes, NEW m \in Inside(n)
  PROVE  parent[m] = n \/ parent[m] \in Inside(n)
<1>1. m \in Nodes /\ n < m /\ parent[m] \in Int /\ parent[m] < m /\ m <= Size
  <2>1. m \in Nodes /\ n < m
    BY NodeFacts
  <2> QED BY <2>1, NodeFacts
<1>2. parent[m] >= n
  BY <1>1 DEF Inside, Nodes
<1>3. ASSUME parent[m] # n
      PROVE  parent[m] \in Inside(n)
  <2>1. n \in Int /\ m \in Int /\ Size \in Int
    BY <1>1, NodeFacts
  <2>2. n < parent[m] /\ parent[m] <= m
    BY <1>1, <1>2, <1>3, <2>1
  <2>3. parent[m] \in n + 1..Size
    BY <1>1, <2>1, <2>2
  <2>4. \A k \in n + 1..parent[m] : k \in n + 1..m
    BY <1>1, <2>1, <2>2
  <2>5. \A k \in n + 1..m : parent[k] >= n
    BY DEF Inside
  <2> QED BY <2>3, <2>4, <2>5 DEF Inside
<1> QED BY <1>3

(* A child is where its parent is. *)
LEMMA ChildWithParent ==
  ASSUME Forest, NEW n \in Nodes, NEW c \in Children(n), NEW l \in Nodes
  PROVE  c \in Inside(l) <=> n = l \/ n \in Inside(l)
<1>1. parent[c] = n
  BY NodeFacts
<1>2. c \in Inside(l) => n = l \/ n \in Inside(l)
  BY <1>1, ParentInside
<1>3. n \in Inside(l) => c \in Inside(l)
  BY ChildInside, InsideInside
<1> QED BY <1>2, <1>3, ChildInside

(* What is inside a block is a child or inside one. *)
LEMMA InsideChild ==
  ASSUME Forest, NEW n \in Nodes, NEW m \in Inside(n)
  PROVE  parent[m] = n \/ \E c \in Children(n) : m \in Inside(c)
<1> SUFFICES ASSUME parent[m] # n PROVE \E c \in Children(n) : m \in Inside(c)
  OBVIOUS
<1>1. m \in Nodes /\ n < m /\ m <= Size /\ Size \in Nat /\ n >= 1
  BY NodeFacts
<1>2. \A k \in n + 1..m : k \in Nodes /\ parent[k] \in Int /\ parent[k] >= n /\ parent[k] < k
  <2>1. \A k \in n + 1..m : k \in Nodes
    BY <1>1 DEF Nodes
  <2> QED BY <2>1, NodeFacts DEF Inside
<1> DEFINE S == {c \in Children(n) : c <= m}
<1>3. n + 1 \in S
  <2>1. n + 1 \in n + 1..m
    BY <1>1 DEF Nodes
  <2>2. parent[n + 1] = n
    BY <1>1, <1>2, <2>1 DEF Nodes
  <2> QED BY <1>1, <1>2, <2>1, <2>2 DEF Children, Nodes
<1>4. PICK c \in S : \A y \in S : y <= c
  <2>1. S \in SUBSET (1..Size) /\ S # {}
    BY <1>3 DEF Children, Nodes
  <2> HIDE DEF S
  <2> QED BY <1>1, <2>1, GreatestNumber
<1>5. c \in Nodes /\ parent[c] = n /\ n < c /\ c <= m
  BY <1>4, NodeFacts DEF Children
<1>6. c < m
  BY <1>1, <1>5 DEF Nodes
<1>7. ASSUME NEW k \in c + 1..m
      PROVE  parent[k] >= c
  <2>1. k \in n + 1..m /\ c < k
    BY <1>1, <1>5, <1>6 DEF Nodes
  <2>2. parent[k] # n
    <3>1. k \notin S
      BY <1>4, <1>5, <2>1 DEF Nodes
    <3> QED BY <1>2, <2>1, <3>1 DEF Children, Nodes
  <2>3. parent[k] \in Int /\ parent[k] > n /\ k \in Nodes
    BY <1>2, <2>1, <2>2 DEF Nodes
  <2>4. ASSUME parent[k] < c PROVE FALSE
    <3>1. parent[c] >= parent[k]
      BY <1>5, <2>1, <2>3, <2>4 DEF Forest, IsForest
    <3> QED BY <1>5, <2>3, <3>1 DEF Nodes
  <2> QED BY <1>5, <2>3, <2>4 DEF Nodes
<1>8. m \in Inside(c)
  BY <1>1, <1>5, <1>6, <1>7 DEF Inside, Nodes
<1> QED BY <1>4, <1>8

(* A statement with something inside is a block. *)
LEMMA BlockInside ==
  ASSUME Forest, NEW n \in Nodes, label[n] \notin Blocks
  PROVE  Inside(n) = {} /\ Children(n) = {}
<1>1. ASSUME NEW c \in Children(n) PROVE FALSE
  <2>1. c \in Nodes \ Functions /\ parent[c] = n
    BY NodeFacts
  <2> QED BY <2>1, NodeFacts
<1>2. ASSUME NEW m \in Inside(n) PROVE FALSE
  <2>1. parent[m] = n /\ m \in Nodes
    BY <1>1, InsideChild, NodeFacts
  <2> QED BY <1>1, <2>1 DEF Children
<1> QED BY <1>1, <1>2

(* Every statement is in one function. *)
LEMMA EnclosingIs ==
  ASSUME Forest, NEW n \in Nodes
  PROVE  /\ Enclosing(n) \in Functions /\ Enclosing(n) \in Nodes /\ Enclosing(n) <= n
         /\ n = Enclosing(n) \/ n \in Inside(Enclosing(n))
         /\ n \in Functions => Enclosing(n) = n
<1> DEFINE S(m) == {f \in Functions : f <= m}
<1>1. \A m \in Nodes : m \in Int /\ m >= 1 /\ m <= Size /\ Size \in Nat /\ parent[m] \in Int /\ parent[m] >= 0
  BY NodeFacts
<1>2. 1 \in S(n) /\ S(n) \in SUBSET Nodes
  <2>1. 1 \in Nodes
    BY <1>1 DEF Nodes
  <2>2. 1 \in Functions
    BY <2>1, NodeFacts
  <2> QED BY <1>1, <2>2 DEF Functions
<1> DEFINE f == Enclosing(n)
<1>3. f \in S(n) /\ \A y \in S(n) : y <= f
  BY <1>2, GreatestIs DEF Enclosing
<1>4. f \in Nodes /\ f \in Functions /\ f <= n
  BY <1>3 DEF Functions
<1> HIDE DEF f
<1>5. ASSUME f # n
      PROVE  n \in Inside(f)
  <2>1. f < n
    BY <1>1, <1>4, <1>5
  <2>2. ASSUME NEW k \in f + 1..n
        PROVE  parent[k] >= f
    <3>1. k \in Nodes /\ f < k /\ k <= n
      BY <1>1, <1>4, <2>1 DEF Nodes
    <3>2. k \notin Functions
      BY <1>1, <1>3, <1>4, <3>1
    <3>3. parent[k] # 0 /\ parent[f] = 0
      BY <1>4, <3>1, <3>2, NodeFacts
    <3>4. ASSUME parent[k] < f PROVE FALSE
      <4>1. parent[f] >= parent[k]
        BY <1>4, <3>1, <3>4 DEF Forest, IsForest
      <4> QED BY <1>1, <3>1, <3>3, <4>1
    <3> QED BY <1>1, <1>4, <3>1, <3>4
  <2> QED BY <1>1, <1>4, <2>1, <2>2 DEF Inside
<1>6. n \in Functions => f = n
  BY <1>1, <1>3, <1>4
<1> QED BY <1>4, <1>5, <1>6 DEF f

(* What is inside a statement is in the same function. *)
LEMMA EnclosingInside ==
  ASSUME Forest, NEW n \in Nodes, NEW m \in Inside(n)
  PROVE  Enclosing(m) = Enclosing(n)
<1>1. n \in Int /\ n >= 1 /\ m \in Nodes /\ n < m /\ Size \in Nat
  BY NodeFacts
<1>2. ASSUME NEW f \in Functions, f <= m
      PROVE  f <= n
  <2>1. f \in Nodes /\ parent[f] = 0
    BY NodeFacts DEF Functions
  <2>2. ASSUME f > n PROVE FALSE
    <3>1. f \in n + 1..m
      BY <1>1, <1>2, <2>1, <2>2 DEF Nodes
    <3>2. parent[f] >= n
      BY <3>1 DEF Inside
    <3> QED BY <1>1, <2>1, <3>2
  <2> QED BY <1>1, <2>1, <2>2 DEF Nodes
<1>3. {f \in Functions : f <= m} = {f \in Functions : f <= n}
  <2>1. \A f \in Functions : f \in Int
    BY DEF Functions, Nodes
  <2>2. \A f \in Functions : f <= n => f <= m
    BY <1>1, <2>1 DEF Nodes
  <2> QED BY <1>2, <2>2
<1> QED BY <1>3 DEF Enclosing

(* A statement is in the function its block is in. *)
LEMMA EnclosingParent ==
  ASSUME Forest, NEW n \in Nodes \ Functions
  PROVE  /\ parent[n] \in Nodes /\ n \in Children(parent[n]) /\ n \in Inside(parent[n])
         /\ Enclosing(n) = Enclosing(parent[n])
<1>1. parent[n] \in Nodes /\ n \in Children(parent[n])
  BY NodeFacts DEF Children
<1> QED BY <1>1, ChildInside, EnclosingInside

(* A function's statements in front of the first actual one are declarations. *)
LEMMA BeforeFirst ==
  ASSUME Forest, NEW f \in Functions, Actual(f) # {}
  PROVE  /\ First(f) \in Children(f) /\ First(f) \in Nodes /\ label[First(f)] # "declaration"
         /\ Last(f) \in Children(f) /\ Last(f) \in Nodes /\ First(f) <= Last(f)
         /\ Enclosing(First(f)) = f /\ Enclosing(Last(f)) = f
         /\ \A n \in Inside(f) : n < First(f) => parent[n] = f /\ label[n] = "declaration"
<1>1. f \in Nodes /\ Children(f) \subseteq Nodes /\ Enclosing(f) = f
  BY NodeFacts, EnclosingIs DEF Functions
<1>2. Actual(f) \subseteq Children(f)
  BY DEF Actual
<1>3. First(f) \in Actual(f) /\ \A y \in Actual(f) : First(f) <= y
  BY <1>1, <1>2, LeastIs DEF First
<1>4. Last(f) \in Children(f) /\ \A y \in Children(f) : y <= Last(f)
  BY <1>1, <1>2, GreatestIs DEF Last
<1>5. \A c \in Children(f) : label[c] # "declaration" => First(f) <= c
  BY <1>1, <1>3 DEF Actual, Nodes
<1>6. label[First(f)] # "declaration"
  <2>1. PICK b \in Children(f) : b <= First(f) /\ label[b] # "declaration"
    BY <1>3 DEF Actual
  <2>2. First(f) = b
    BY <1>1, <1>2, <1>3, <1>5, <2>1 DEF Nodes
  <2> QED BY <2>1, <2>2
<1>7. ASSUME NEW n \in Inside(f), n < First(f)
      PROVE  parent[n] = f /\ label[n] = "declaration"
  <2> DEFINE T == {k \in Inside(f) : k < First(f) /\ ~(parent[k] = f /\ label[k] = "declaration")}
  <2> SUFFICES ASSUME T # {} PROVE FALSE
    BY <1>7
  <2>1. T \in SUBSET Nat
    BY <1>1, NodeFacts DEF Nodes
  <2>2. PICK k \in T : \A y \in T : k <= y
    <3> HIDE DEF T
    <3> QED BY <2>1, LeastNumber
  <2>3. k \in Nodes /\ k \notin Functions /\ k \in Inside(f)
    BY <1>1, <2>2, NodeFacts
  <2>4. parent[k] # f
    <3> SUFFICES ASSUME parent[k] = f PROVE FALSE
      OBVIOUS
    <3>1. k \in Children(f) /\ label[k] # "declaration"
      BY <2>2, <2>3 DEF Children
    <3>2. First(f) <= k /\ k < First(f)
      BY <1>5, <2>2, <3>1
    <3> QED BY <1>1, <1>2, <1>3, <2>3, <3>2 DEF Nodes
  <2>5. parent[k] \in Inside(f)
    BY <1>1, <2>3, <2>4, ParentInside
  <2>6. parent[k] \in Nodes /\ parent[k] < k /\ label[parent[k]] \in Blocks
    BY <2>3, NodeFacts
  <2>7. parent[k] < First(f)
    BY <1>1, <1>2, <1>3, <2>2, <2>3, <2>6 DEF Nodes
  <2>8. parent[k] \notin T
    BY <2>2, <2>3, <2>6 DEF Nodes
  <2>9. label[parent[k]] = "declaration"
    BY <2>5, <2>7, <2>8
  <2> QED BY <2>6, <2>9 DEF Blocks
<1>8. Enclosing(First(f)) = f /\ Enclosing(Last(f)) = f
  <2>1. First(f) \in Children(f) /\ Last(f) \in Children(f)
    BY <1>2, <1>3, <1>4
  <2> QED BY <1>1, <2>1, ChildInside, EnclosingInside
<1> QED BY <1>1, <1>2, <1>3, <1>4, <1>6, <1>7, <1>8

(* A function without an actual statement has declarations only. *)
LEMMA NoActual ==
  ASSUME Forest, NEW f \in Functions, Actual(f) = {}, Children(f) # {}
  PROVE  /\ Last(f) \in Children(f) /\ Last(f) \in Nodes /\ label[Last(f)] = "declaration"
         /\ Enclosing(Last(f)) = f
<1>1. f \in Nodes /\ Children(f) \subseteq Nodes /\ Enclosing(f) = f
  BY NodeFacts, EnclosingIs DEF Functions
<1>2. Last(f) \in Children(f)
  BY <1>1, GreatestIs DEF Last
<1>3. label[Last(f)] = "declaration"
  BY <1>1, <1>2 DEF Actual, Nodes
<1> QED BY <1>1, <1>2, <1>3, ChildInside, EnclosingInside

-------------------------------------------------------------------------------
(* The program does not change. *)
LEMMA SameProgram ==
  ASSUME UNCHANGED program
  PROVE  /\ label' = label /\ parent' = parent /\ fname' = fname /\ lifted' = lifted
         /\ Functions' = Functions /\ Loops' = Loops
         /\ \A n : /\ Children(n)' = Children(n) /\ Inside(n)' = Inside(n)
                   /\ Actual(n)' = Actual(n) /\ First(n)' = First(n) /\ Last(n)' = Last(n)
                   /\ Enclosing(n)' = Enclosing(n) /\ FunctionTimer(n)' = FunctionTimer(n)
         /\ Forest => Forest'
<1>1. label' = label /\ parent' = parent /\ fname' = fname /\ lifted' = lifted
  BY DEF program
<1>2. Functions' = Functions /\ Loops' = Loops
  BY <1>1 DEF Functions, Loops
<1>3. \A n : Children(n)' = Children(n) /\ Inside(n)' = Inside(n)
  BY <1>1 DEF Children, Inside
<1>4. \A n : Actual(n)' = Actual(n) /\ Last(n)' = Last(n)
  BY <1>1, <1>3 DEF Actual, Last
<1>5. \A n : First(n)' = First(n) /\ Enclosing(n)' = Enclosing(n) /\ FunctionTimer(n)' = FunctionTimer(n)
  BY <1>1, <1>2, <1>4 DEF First, Enclosing, FunctionTimer
<1>6. Forest => Forest'
  BY <1>1, <1>2 DEF Forest, IsForest, IsProgram
<1> QED BY <1>1, <1>2, <1>3, <1>4, <1>5, <1>6

(* The places a wrapped function has calls at are its children. *)
LEMMA PlacesOf ==
  ASSUME Forest, Shape, NEW f \in wrapped
  PROVE  /\ f \in Functions /\ f \in Nodes /\ f \in visited
         /\ Last(f) \in Children(f)
         /\ Actual(f) # {} => First(f) \in Children(f)
<1>1. f \in Functions /\ f \in Nodes /\ f \in visited /\ Children(f) # {}
  BY DEF Shape, Functions
<1>2. CASE Actual(f) # {}
  BY <1>1, <1>2, BeforeFirst
<1>3. CASE Actual(f) = {}
  BY <1>1, <1>3, NoActual
<1> QED BY <1>1, <1>2, <1>3

(* Nothing was inserted next to a statement, or inside one, for a timer that    *)
(* is set later.                                                                *)
LEMMA NotYet ==
  ASSUME Forest, Shape, NEW n \in Nodes, n \notin visited
  PROVE  /\ \A f \in visited : n \notin Inside(f)
         /\ ~Opens(n) /\ ~Closes(n) /\ ~Bare(n)
         /\ \A c \in Children(n) : ~Opens(c) /\ ~Closes(c) /\ ~Bare(c) /\ ~Timed(c)
<1>1. \A f \in visited : n \notin Inside(f)
  BY DEF Shape
<1>2. \A f \in wrapped : f \in visited /\ Last(f) \in Children(f)
                         /\ (Actual(f) # {} => First(f) \in Children(f))
  BY PlacesOf
<1>3. \A f \in wrapped : n \notin Children(f)
  <2> TAKE f \in wrapped
  <2>1. f \in Nodes /\ f \in visited
    BY PlacesOf
  <2> QED BY <1>1, <2>1, ChildInside
<1>4. ASSUME NEW c \in Children(n), NEW f \in wrapped
      PROVE  c \notin Children(f)
  <2>1. f \in Nodes /\ f \in visited
    BY PlacesOf
  <2>2. parent[c] = n
    BY DEF Children
  <2> QED BY <2>1, <2>2 DEF Children
<1>5. ~Opens(n) /\ ~Closes(n) /\ ~Bare(n)
  BY <1>2, <1>3 DEF Opens, Closes, Bare
<1>6. \A c \in Children(n) : ~Opens(c) /\ ~Closes(c) /\ ~Bare(c)
  BY <1>2, <1>4 DEF Opens, Closes, Bare
<1>7. \A c \in Children(n) : ~Timed(c)
  BY DEF Children, Timed
<1> QED BY <1>1, <1>5, <1>6, <1>7

(* No statement has two roles. *)
LEMMA Roles ==
  ASSUME Forest, Shape, NEW n \in Nodes
  PROVE  /\ ~(Timed(n) /\ Left(n))
         /\ Bare(n) => ~Timed(n) /\ ~Closes(n) /\ ~Opens(n)
<1>1. ~(Timed(n) /\ Left(n))
  BY DEF Timed, Left
<1>2. ASSUME Bare(n)
      PROVE  ~Timed(n) /\ ~Closes(n) /\ ~Opens(n)
  <2>1. PICK f \in wrapped : Actual(f) = {} /\ n = Last(f)
    BY <1>2 DEF Bare
  <2>2. f \in Functions /\ Children(f) # {}
    BY DEF Shape
  <2>3. n \in Children(f) /\ label[n] = "declaration"
    BY <2>1, <2>2, NoActual
  <2>4. ASSUME NEW g \in wrapped, n \in Children(g) PROVE g = f
    BY <2>3, <2>4 DEF Children
  <2>5. \A g \in wrapped : Last(g) \in Children(g) /\ (Actual(g) # {} => First(g) \in Children(g))
    BY PlacesOf
  <2>6. ~Closes(n) /\ ~Opens(n)
    BY <2>1, <2>4, <2>5 DEF Closes, Opens
  <2> QED BY <2>3, <2>6 DEF Timed
<1> QED BY <1>1, <1>2

-------------------------------------------------------------------------------
(* The passes after the first one insert nothing. *)
LEMMA ShapeSame ==
  ASSUME Forest, Shape, UNCHANGED <<program, visited, wrapped, before, after, decls>>,
         pass' = pass \/ (visited = Nodes /\ wrapped = Functions /\ pass' \in {"generate", "unknown mode", "run"})
         \/ pass' = "no statement"
  PROVE  Shape'
<1>1. \A n : /\ Opens(n)' = Opens(n) /\ Closes(n)' = Closes(n) /\ Bare(n)' = Bare(n)
             /\ Timed(n)' = Timed(n) /\ Left(n)' = Left(n)
  BY SameProgram DEF Opens, Closes, Bare, Timed, Left
<1>2. \A n : Ahead(n)' = Ahead(n) /\ Behind(n)' = Behind(n) /\ TimerOf(n)' = TimerOf(n)
  BY <1>1 DEF Ahead, Behind, TimerOf
<1>3. \A n \in Nodes : Before(n)' /\ After(n)'
  <2>1. ASSUME NEW n \in Nodes PROVE Before(n)'
    <3>1. Before(n)
      BY DEF Shape
    <3> QED BY <3>1, <1>1, <1>2, SameProgram DEF Before, EndsTimer, RecordCall, StartCall, EndCall, Declarations
  <2>2. ASSUME NEW n \in Nodes PROVE After(n)'
    <3>1. After(n)
      BY DEF Shape
    <3> QED BY <3>1, <1>1, <1>2, SameProgram DEF After, EndsTimer, RecordCall, StartCall, EndCall, Declarations
  <2> QED BY <2>1, <2>2
<1>4. \A t : TimerVarsOf(t)' = TimerVarsOf(t)
  BY DEF TimerVarsOf
<1>5. decls' = [n \in Nodes |-> decls'[n]]
  BY DEF Shape
<1>7. /\ pass' \in {"insert", "no statement", "generate", "unknown mode", "run"}
      /\ pass' \notin {"insert", "no statement"} => visited' = Nodes /\ wrapped' = Functions
  BY DEF Shape
<1>8. Shape
  OBVIOUS
<1>9. \A n \in visited' : \A m \in Inside(n)' : Timed(m)' => (TimerVarsOf(TimerOf(m)) \subseteq decls[n])'
  <2> TAKE n \in visited'
  <2> TAKE m \in Inside(n)'
  <2>1. n \in visited /\ m \in Inside(n) /\ Timed(m)' = Timed(m) /\ TimerOf(m)' = TimerOf(m) /\ decls' = decls
    BY <1>1, <1>2, SameProgram
  <2>2. Timed(m) => TimerVarsOf(TimerOf(m)) \subseteq decls[n]
    BY <1>8, <2>1 DEF Shape
  <2> QED BY <2>1, <2>2 DEF TimerVarsOf
<1>10. \A f \in wrapped' : Children(f)' # {} /\ (TimerVarsOf(FunctionTimer(f)) \subseteq decls[f])'
  BY <1>8, SameProgram DEF Shape, TimerVarsOf
<1>11. /\ wrapped' \subseteq Functions' \cap visited' /\ visited' \subseteq Nodes
       /\ \A n \in visited' : Inside(n)' \subseteq visited'
  BY <1>8, SameProgram DEF Shape
<1> QED BY <1>3, <1>5, <1>7, <1>9, <1>10, <1>11, SameProgram DEF Shape

(* No loop is timed when a statement without parts is visited. *)
LEMMA SameTimed ==
  ASSUME Forest, UNCHANGED program, NEW n \in Nodes, label[n] \notin Blocks, visited' = visited \cup {n}
  PROVE  \A m \in Nodes : Timed(m)' = Timed(m)
<1> TAKE m \in Nodes
<1>1. CASE label[m] = "do"
  <2>1. m \notin Functions
    BY <1>1, NodeFacts
  <2>2. parent[m] # n
    BY <2>1, NodeFacts
  <2> QED BY <2>2, SameProgram DEF Timed
<1>2. CASE label[m] # "do"
  BY <1>2, SameProgram DEF Timed
<1> QED BY <1>1, <1>2

(* Each step of the traversal keeps that. *)
LEMMA VisitOtherShape ==
  ASSUME Forest, Shape, NEW n \in Nodes, VisitOther(n)
  PROVE  Shape'
<1>1. /\ visited' = visited \cup {n} /\ n \notin visited /\ label[n] \notin Blocks /\ label[n] # "return"
      /\ UNCHANGED <<program, pass, wrapped, timers, before, after, decls>>
      /\ pass = "insert"
  BY DEF VisitOther, Insert, inserted
<1>2. \A m : /\ Opens(m)' = Opens(m) /\ Closes(m)' = Closes(m) /\ Bare(m)' = Bare(m)
             /\ Left(m)' = Left(m)
  BY <1>1, SameProgram DEF Opens, Closes, Bare, Left
<1>3. \A m \in Nodes : Timed(m)' = Timed(m)
  BY <1>1, SameTimed
<1>4. \A m \in Nodes : Ahead(m)' = Ahead(m) /\ Behind(m)' = Behind(m) /\ TimerOf(m)' = TimerOf(m)
  BY <1>1, <1>2, <1>3 DEF Ahead, Behind, TimerOf
<1>5. \A m \in Nodes : Before(m)' /\ After(m)'
  <2>1. ASSUME NEW m \in Nodes PROVE Before(m)'
    <3>1. Before(m)
      BY DEF Shape
    <3> QED BY <3>1, <1>1, <1>2, <1>3, <1>4, SameProgram DEF Before, EndsTimer, RecordCall, StartCall, EndCall, Declarations
  <2>2. ASSUME NEW m \in Nodes PROVE After(m)'
    <3>1. After(m)
      BY DEF Shape
    <3> QED BY <3>1, <1>1, <1>2, <1>3, <1>4, SameProgram DEF After, EndsTimer, RecordCall, StartCall, EndCall, Declarations
  <2> QED BY <2>1, <2>2
<1>6. Inside(n) = {}
  BY <1>1, BlockInside
<1>7. \A m \in visited' : Inside(m) \subseteq visited'
  BY <1>1, <1>6 DEF Shape
<1>8. \A m \in visited' : \A k \in Inside(m) : Timed(k) => TimerVarsOf(TimerOf(k)) \subseteq decls[m]
  BY <1>1, <1>6 DEF Shape
<1>9. \A m \in visited' : m \in Nodes /\ Inside(m) \subseteq Nodes
  BY <1>1, NodeFacts DEF Shape
<1>10. \A m \in visited' : \A k \in Inside(m)' : Timed(k)' => (TimerVarsOf(TimerOf(k)) \subseteq decls[m])'
  BY <1>1, <1>3, <1>4, <1>8, <1>9, SameProgram DEF TimerVarsOf
<1>11. decls' = [m \in Nodes |-> decls'[m]]
  BY <1>1 DEF Shape
<1> QED BY <1>1, <1>2, <1>5, <1>7, <1>9, <1>11, <1>10, SameProgram DEF Shape, TimerVarsOf

(* Sequences of calls. *)
LEMMA TwoCalls ==
  ASSUME NEW a, NEW b
  PROVE  Len(<<a, b>>) = 2 /\ <<a, b>>[1] = a /\ <<a, b>>[2] = b
OBVIOUS

LEMMA VisitReturnShape ==
  ASSUME Forest, Shape, IInv, NEW n \in Nodes, VisitReturn(n)
  PROVE  Shape'
<1> DEFINE t == FunctionTimer(Enclosing(n))
           new == Closing(Enclosing(n), NumberOf(timers, t))
<1>1. /\ visited' = visited \cup {n} /\ n \notin visited /\ label[n] = "return"
      /\ UNCHANGED <<program, pass, wrapped, after>>
      /\ before' = [before EXCEPT ![n] = new]
      /\ decls' = [decls EXCEPT ![n] = {<<"end", t>>}]
      /\ pass = "insert"
  BY DEF VisitReturn, Insert
<1>2. new = <<EndCall(t), RecordCall(t, NumberOf(timers, t))>>
  BY DEF Closing
<1>3. Len(new) = 2 /\ EndsTimer(new[1], new[2], t)
  BY <1>2, TwoCalls DEF EndsTimer, RecordCall
<1> HIDE DEF new, t
<1>4. \A m : /\ Opens(m)' = Opens(m) /\ Closes(m)' = Closes(m) /\ Bare(m)' = Bare(m)
             /\ m # n => Left(m)' = Left(m)
  BY <1>1, SameProgram DEF Opens, Closes, Bare, Left
<1>5. Left(n)' /\ ~Timed(n) /\ label[n] \notin Blocks
  BY <1>1, SameProgram DEF Left, Timed, Blocks
<1>6. \A m \in Nodes : Timed(m)' = Timed(m)
  BY <1>1, <1>5, SameTimed
<1>7. before \in [Nodes -> {before[m] : m \in Nodes}]
  BY DEF IInv, SequencesOfCalls
<1>8. before'[n] = new /\ \A m \in Nodes : m # n => before'[m] = before[m]
  BY <1>1, <1>7
<1>9. /\ \A m \in Nodes : Ahead(m)' = Ahead(m) /\ Behind(m)' = Behind(m)
      /\ \A m \in Nodes : m # n => TimerOf(m)' = TimerOf(m)
  BY <1>1, <1>4, <1>6, <1>8 DEF Ahead, Behind, TimerOf
<1>10. \A m \in Nodes : Before(m)' /\ After(m)'
  <2>1. ASSUME NEW m \in Nodes, m # n PROVE Before(m)'
    <3>1. Before(m)
      BY DEF Shape
    <3> QED BY <2>1, <3>1, <1>1, <1>4, <1>6, <1>8, <1>9, SameProgram
            DEF Before, EndsTimer, RecordCall, StartCall, EndCall, Declarations
  <2>2. Before(n)'
    <3>1. ~Opens(n)' /\ ~Timed(n)' /\ Ahead(n)' = 0
      BY <1>1, <1>4, <1>5, <1>6, NotYet DEF Ahead
    <3>2. FunctionTimer(Enclosing(n))' = t
      BY <1>1, SameProgram DEF t
    <3> QED BY <1>3, <1>5, <1>8, <3>1, <3>2 DEF Before, EndsTimer, RecordCall, EndCall
  <2>3. ASSUME NEW m \in Nodes PROVE After(m)'
    <3>1. After(m)
      BY DEF Shape
    <3>2. Timed(m) => TimerOf(m)' = TimerOf(m)
      BY <1>5, <1>9
    <3> QED BY <3>1, <3>2, <1>1, <1>4, <1>6, <1>9, SameProgram DEF After, EndsTimer, RecordCall, StartCall, EndCall, Declarations
  <2> QED BY <2>1, <2>2, <2>3
<1>11. Inside(n) = {}
  BY <1>5, BlockInside
<1>12. \A m \in visited' : m \in Nodes /\ Inside(m) \subseteq visited' /\ Inside(m) \subseteq Nodes
  BY <1>1, <1>11, NodeFacts DEF Shape
<1>13. /\ decls' = [m \in Nodes |-> decls'[m]]
       /\ \A m \in Nodes : m # n => decls'[m] = decls[m]
  <2>1. decls = [m \in Nodes |-> decls[m]]
    BY DEF Shape
  <2> QED BY <1>1, <2>1
<1>14. ASSUME NEW m \in visited', NEW k \in Inside(m)', Timed(k)'
       PROVE  (TimerVarsOf(TimerOf(k)) \subseteq decls[m])'
  <2>1. m \in visited /\ k \in Inside(m) /\ m # n
    BY <1>1, <1>11, <1>14, SameProgram
  <2>2. k \in Nodes /\ k # n /\ m \in Nodes
    BY <2>1, <1>1, <1>12, NotYet
  <2>3. TimerVarsOf(TimerOf(k)) \subseteq decls[m]
    BY <1>6, <1>14, <2>1, <2>2 DEF Shape
  <2>4. decls'[m] = decls[m] /\ TimerOf(k)' = TimerOf(k)
    BY <2>1, <2>2, <1>9, <1>13
  <2> QED BY <2>3, <2>4 DEF TimerVarsOf
<1>15. ASSUME NEW f \in wrapped
       PROVE  Children(f)' # {} /\ (TimerVarsOf(FunctionTimer(f)) \subseteq decls[f])'
  <2>1. f # n /\ f \in Nodes
    BY <1>1, PlacesOf
  <2>2. decls'[f] = decls[f] /\ Children(f)' = Children(f) /\ FunctionTimer(f)' = FunctionTimer(f)
    BY <1>1, <1>13, <2>1, SameProgram
  <2>3. Children(f) # {} /\ TimerVarsOf(FunctionTimer(f)) \subseteq decls[f]
    BY DEF Shape
  <2> QED BY <2>2, <2>3 DEF TimerVarsOf
<1>16. \A m \in visited' : Inside(m)' \subseteq visited'
  BY <1>1, <1>12, SameProgram
<1>17. wrapped' \subseteq (Functions \cap visited)' /\ visited' \subseteq Nodes
  BY <1>1, SameProgram DEF Shape
<1>18. wrapped' = wrapped /\ pass' = "insert"
  BY <1>1
<1> QED BY <1>10, <1>13, <1>14, <1>15, <1>16, <1>17, <1>18 DEF Shape

LEMMA VisitBlockShape ==
  ASSUME Forest, Shape, NEW n \in Nodes, VisitBlock(n)
  PROVE  Shape'
<1> DEFINE dos == Children(n) \cap Loops
           Timer(c) == LoopTimer(Enclosing(n), LoopNumber(n, c))
<1>1. /\ visited' = visited \cup {n} /\ n \notin visited /\ Inside(n) \subseteq visited
      /\ label[n] \in Blocks
      /\ UNCHANGED <<program, pass, wrapped>>
      /\ before' = [m \in Nodes |-> IF m \in dos THEN <<StartCall(Timer(m))>> ELSE before[m]]
      /\ after' = [m \in Nodes |->
           IF m \in dos THEN <<EndCall(Timer(m)), RecordCall(Timer(m), LoopNumber(n, m))>>
           ELSE after[m]]
      /\ decls' = [decls EXCEPT ![n] = Collected(n) \cup {"start", "end"} \X {Timer(c) : c \in dos}]
      /\ pass = "insert"
  BY DEF VisitBlock, Insert
<1>2. dos \subseteq Nodes /\ \A c \in dos : label[c] = "do" /\ c \in Children(n) /\ parent[c] = n
  BY DEF Children, Loops
<1>3. \A c : Len(Timer(c)) = 2
  BY DEF LoopTimer
<1>4. \A c \in dos : /\ Len(before'[c]) = 1 /\ before'[c][1] = StartCall(Timer(c))
                     /\ Len(after'[c]) = 2 /\ EndsTimer(after'[c][1], after'[c][2], Timer(c))
  <2> TAKE c \in dos
  <2> HIDE DEF Timer, dos
  <2>1. /\ before'[c] = <<StartCall(Timer(c))>>
        /\ after'[c] = <<EndCall(Timer(c)), RecordCall(Timer(c), LoopNumber(n, c))>>
    BY <1>1, <1>2
  <2> QED BY <2>1 DEF EndsTimer, RecordCall
<1>5. \A m \in Nodes : m \notin dos => before'[m] = before[m] /\ after'[m] = after[m]
  BY <1>1
<1>6. decls = [m \in Nodes |-> decls[m]]
  BY DEF Shape
<1>7. /\ decls' = [m \in Nodes |-> decls'[m]]
      /\ \A m \in Nodes : m # n => decls'[m] = decls[m]
      /\ decls'[n] = Collected(n) \cup {"start", "end"} \X {Timer(c) : c \in dos}
  <2> HIDE DEF dos, Timer
  <2> QED BY <1>1, <1>6
<1>8. \A c \in dos : TimerVarsOf(Timer(c)) \subseteq decls'[n]
  <2> TAKE c \in dos
  <2> HIDE DEF dos, Timer
  <2> QED BY <1>7 DEF TimerVarsOf
<1>9. \A c \in Children(n) : decls[c] \subseteq decls'[n]
  <2> HIDE DEF dos, Timer
  <2> QED BY <1>7 DEF Collected
<1> HIDE DEF Timer
<1>10. \A m : /\ Opens(m)' = Opens(m) /\ Closes(m)' = Closes(m) /\ Bare(m)' = Bare(m)
              /\ Left(m)' = Left(m)
  BY <1>1, SameProgram DEF Opens, Closes, Bare, Left, Blocks
<1>11. \A m \in Nodes : /\ m \in dos => Timed(m)' /\ ~Timed(m) /\ ~Opens(m) /\ ~Closes(m) /\ ~Bare(m) /\ ~Left(m)
                        /\ m \notin dos => Timed(m)' = Timed(m)
  <2> TAKE m \in Nodes
  <2>1. m \in dos => label[m] = "do" /\ parent[m] = n /\ m \in Children(n)
    BY <1>2
  <2>2. m \notin dos => label[m] # "do" \/ parent[m] # n
    BY DEF Children, Loops
  <2>3. m \in dos => ~Timed(m) /\ ~Opens(m) /\ ~Closes(m) /\ ~Bare(m)
    BY <1>1, <2>1, NotYet
  <2> HIDE DEF dos
  <2> QED BY <1>1, <2>1, <2>2, <2>3, SameProgram DEF Timed, Left
<1>12. /\ \A m \in Nodes : Ahead(m)' = Ahead(m) /\ (m \notin dos => Behind(m)' = Behind(m))
       /\ \A m \in dos : Ahead(m) = 0 /\ Behind(m)' = 2
       /\ \A m \in Nodes : m \notin dos => TimerOf(m)' = TimerOf(m)
  BY <1>2, <1>5, <1>10, <1>11 DEF Ahead, Behind, TimerOf
<1>13. \A m \in dos : TimerOf(m)' = Timer(m)
  <2> TAKE m \in dos
  <2>1. m \in Nodes /\ Ahead(m)' = 0
    BY <1>2, <1>12
  <2> HIDE DEF dos
  <2>2. before'[m][Ahead(m)' + 1] = StartCall(Timer(m))
    BY <1>4, <2>1
  <2> QED BY <2>2 DEF TimerOf, StartCall
<1>14. ASSUME NEW m \in Nodes PROVE Before(m)'
  <2>1. Before(m)
    BY DEF Shape
  <2>2. CASE m \in dos
    <3>1. /\ ~Opens(m)' /\ ~Left(m)' /\ Timed(m)' /\ Ahead(m)' = 0
      BY <2>2, <1>10, <1>11, <1>12
    <3>2. Len(before'[m]) = 1 /\ before'[m][1] = StartCall(TimerOf(m)') /\ Len(TimerOf(m)') = 2
      BY <2>2, <1>3, <1>4, <1>13
    <3> QED BY <3>1, <3>2 DEF Before, StartCall
  <2>3. CASE m \notin dos
    BY <2>1, <2>3, <1>1, <1>5, <1>10, <1>11, <1>12, SameProgram
       DEF Before, EndsTimer, RecordCall, StartCall, EndCall, Declarations
  <2> QED BY <2>2, <2>3
<1>15. ASSUME NEW m \in Nodes PROVE After(m)'
  <2>1. After(m)
    BY DEF Shape
  <2>2. CASE m \in dos
    <3>1. ~Closes(m)' /\ ~Bare(m)' /\ Timed(m)' /\ Behind(m)' = 2
      BY <2>2, <1>10, <1>11, <1>12
    <3>2. Len(after'[m]) = 2 /\ EndsTimer(after'[m][1], after'[m][2], TimerOf(m)')
      BY <2>2, <1>4, <1>13
    <3> QED BY <3>1, <3>2 DEF After, EndsTimer, RecordCall, StartCall, EndCall, Declarations
  <2>3. CASE m \notin dos
    BY <2>1, <2>3, <1>1, <1>5, <1>10, <1>11, <1>12, SameProgram DEF After, EndsTimer, RecordCall, StartCall, EndCall, Declarations
  <2> QED BY <2>2, <2>3
<1>16. Shape
  OBVIOUS
<1>17. \A m \in visited' : m \in Nodes /\ Inside(m)' \subseteq visited'
  BY <1>1, <1>16, SameProgram DEF Shape
<1>18. ASSUME NEW m \in visited', NEW k \in Inside(m)', Timed(k)'
       PROVE  (TimerVarsOf(TimerOf(k)) \subseteq decls[m])'
  <2>1. k \in Inside(m) /\ m \in Nodes
    BY <1>1, <1>17, SameProgram
  <2>2. k \in Nodes
    BY <2>1, NodeFacts
  <2>3. CASE m # n
    <3>1. m \in visited
      BY <1>1, <2>3
    <3>2. k \notin dos
      <4> SUFFICES ASSUME k \in dos PROVE FALSE
        OBVIOUS
      <4>1. k \in Children(n)
        BY <1>2
      <4>2. n \in Inside(m)
        BY <2>1, <2>3, <4>1, ChildWithParent
      <4> QED BY <1>1, <3>1, <4>2, NotYet
    <3>3. TimerVarsOf(TimerOf(k)) \subseteq decls[m]
      BY <1>11, <1>18, <2>1, <2>2, <3>1, <3>2 DEF Shape
    <3>4. TimerOf(k)' = TimerOf(k) /\ decls'[m] = decls[m]
      BY <2>1, <2>2, <2>3, <3>2, <1>7, <1>12
    <3> QED BY <3>3, <3>4 DEF TimerVarsOf
  <2>4. CASE m = n /\ k \in dos
    BY <2>4, <1>8, <1>13 DEF TimerVarsOf
  <2>5. CASE m = n /\ k \notin dos
    <3>1. Timed(k) /\ TimerOf(k)' = TimerOf(k)
      BY <1>11, <1>12, <1>18, <2>2, <2>5
    <3>2. parent[k] # n
      BY <3>1, <1>1 DEF Timed
    <3>3. PICK c \in Children(n) : k \in Inside(c)
      BY <2>1, <2>5, <3>2, InsideChild
    <3>4. c \in visited
      BY <1>1, ChildInside
    <3>5. TimerVarsOf(TimerOf(k)) \subseteq decls[c]
      BY <3>1, <3>3, <3>4 DEF Shape
    <3> QED BY <1>9, <2>5, <3>1, <3>5 DEF TimerVarsOf
  <2> QED BY <2>3, <2>4, <2>5
<1>19. ASSUME NEW f \in wrapped
       PROVE  Children(f)' # {} /\ (TimerVarsOf(FunctionTimer(f)) \subseteq decls[f])'
  <2>1. f # n /\ f \in Nodes
    BY <1>1, PlacesOf
  <2>2. decls'[f] = decls[f] /\ Children(f)' = Children(f) /\ FunctionTimer(f)' = FunctionTimer(f)
    BY <1>1, <1>7, <2>1, SameProgram
  <2>3. Children(f) # {} /\ TimerVarsOf(FunctionTimer(f)) \subseteq decls[f]
    BY DEF Shape
  <2> QED BY <2>2, <2>3 DEF TimerVarsOf
<1>20. wrapped' \subseteq (Functions \cap visited)' /\ visited' \subseteq Nodes
  BY <1>1, <1>16, SameProgram DEF Shape
<1>21. wrapped' = wrapped /\ pass' = "insert"
  BY <1>1
<1> QED BY <1>7, <1>14, <1>15, <1>17, <1>18, <1>19, <1>20, <1>21 DEF Shape

(* The length of a concatenation. *)
LEMMA ConcatLen ==
  ASSUME NEW C, NEW a \in Seq(C), NEW b \in Seq(C)
  PROVE  a \o b \in Seq(C) /\ Len(a \o b) = Len(a) + Len(b) /\ Len(b) \in Nat
OBVIOUS

(* Calls put in front of others, and behind them. *)
LEMMA CallsPut ==
  ASSUME NEW C, NEW a \in Seq(C), NEW b \in Seq(C), Len(a) = 2
  PROVE  /\ Len(a \o b) = 2 + Len(b) /\ (a \o b)[1] = a[1] /\ (a \o b)[2] = a[2]
         /\ \A k \in 1..Len(b) : (a \o b)[2 + k] = b[k]
         /\ Len(b \o a) = Len(b) + 2 /\ (b \o a)[Len(b) + 1] = a[1] /\ (b \o a)[Len(b) + 2] = a[2]
         /\ \A k \in 1..Len(b) : (b \o a)[k] = b[k]
<1>1. /\ a \o b \in Seq(C) /\ Len(a \o b) = Len(a) + Len(b)
      /\ b \o a \in Seq(C) /\ Len(b \o a) = Len(b) + Len(a)
      /\ Len(b) \in Nat
  BY ConcatLen
<1>2. (a \o b)[1] = a[1] /\ (a \o b)[2] = a[2]
  BY <1>1
<1>3. \A k \in 1..Len(b) : (b \o a)[k] = b[k]
  BY <1>1
<1>4. ASSUME NEW i \in 3..2 + Len(b)
      PROVE  (a \o b)[i] = b[i - 2]
  BY <1>1
<1>5. ASSUME NEW i \in Len(b) + 1..Len(b) + 2
      PROVE  (b \o a)[i] = a[i - Len(b)]
  BY <1>1
<1>6. ASSUME NEW k \in 1..Len(b)
      PROVE  (a \o b)[2 + k] = b[k]
  <2>1. 2 + k \in 3..2 + Len(b) /\ 2 + k - 2 = k
    BY <1>1
  <2> DEFINE i == 2 + k
  <2> HIDE DEF i
  <2>2. (a \o b)[i] = b[i - 2]
    BY <1>4, <2>1 DEF i
  <2> QED BY <2>1, <2>2 DEF i
<1>7. ASSUME NEW k \in 1..2
      PROVE  (b \o a)[Len(b) + k] = a[k]
  <2>1. Len(b) + k \in Len(b) + 1..Len(b) + 2 /\ Len(b) + k - Len(b) = k
    BY <1>1
  <2> DEFINE i == Len(b) + k
  <2> HIDE DEF i
  <2>2. (b \o a)[i] = a[i - Len(b)]
    BY <1>5, <2>1 DEF i
  <2> QED BY <2>1, <2>2 DEF i
<1>8. 1 \in 1..2 /\ 2 \in 1..2
  OBVIOUS
<1>9. (b \o a)[Len(b) + 1] = a[1] /\ (b \o a)[Len(b) + 2] = a[2]
  BY <1>7, <1>8
<1> QED BY <1>1, <1>2, <1>3, <1>6, <1>9

(* No call was put at the ends of a function that is not wrapped. *)
LEMMA NotWrapped ==
  ASSUME Forest, Shape, NEW f \in Functions, f \notin wrapped, NEW c \in Children(f)
  PROVE  ~Opens(c) /\ ~Closes(c) /\ ~Bare(c)
<1>1. \A g \in wrapped : Last(g) \in Children(g) /\ (Actual(g) # {} => First(g) \in Children(g))
  BY PlacesOf
<1>2. \A g \in wrapped : c \notin Children(g)
  BY DEF Children
<1> QED BY <1>1, <1>2 DEF Opens, Closes, Bare

(* A function's statements are in it. *)
LEMMA EnclosingChild ==
  ASSUME Forest, NEW f \in Functions, NEW c \in Children(f)
  PROVE  Enclosing(c) = f
<1>1. f \in Nodes
  BY DEF Functions
<1> QED BY <1>1, ChildInside, EnclosingInside, EnclosingIs

(* Everything in Shape but what it says of the calls. *)
LEMMA WrapRest ==
  ASSUME Forest, Shape, NEW f \in Nodes, Wrap(f), Children(f) # {},
         \A m \in Nodes : Timed(m) => TimerOf(m)' = TimerOf(m),
         \A m \in Nodes : Before(m)' /\ After(m)'
  PROVE  Shape'
<1> DEFINE t == FunctionTimer(f)
<1>1. /\ UNCHANGED <<program, visited, pass>> /\ wrapped' = wrapped \cup {f}
      /\ decls' = [decls EXCEPT ![f] = @ \cup {<<"start", t>>, <<"end", t>>}]
      /\ pass = "insert" /\ f \in visited /\ f \in Functions
  BY DEF Wrap
<1>2. Shape /\ decls = [m \in Nodes |-> decls[m]]
  BY DEF Shape
<1>3. /\ decls' = [m \in Nodes |-> decls'[m]]
      /\ \A m \in Nodes : decls[m] \subseteq decls'[m]
      /\ TimerVarsOf(t) \subseteq decls'[f]
  <2> HIDE DEF t
  <2>1. decls' = [m \in Nodes |-> IF m = f THEN decls[f] \cup {<<"start", t>>, <<"end", t>>} ELSE decls[m]]
    BY <1>1, <1>2
  <2> QED BY <2>1 DEF TimerVarsOf
<1>4. \A m \in Nodes : Timed(m)' = Timed(m)
  BY <1>1, SameProgram DEF Timed
<1>5. /\ wrapped' \subseteq (Functions \cap visited)' /\ visited' \subseteq Nodes
      /\ \A m \in visited' : Inside(m)' \subseteq visited'
  BY <1>1, <1>2, SameProgram DEF Shape
<1>6. ASSUME NEW g \in wrapped'
      PROVE  Children(g)' # {} /\ (TimerVarsOf(FunctionTimer(g)) \subseteq decls[g])'
  <2>1. g \in Nodes
    BY <1>1, <1>2 DEF Shape, Functions
  <2>2. Children(g)' = Children(g) /\ FunctionTimer(g)' = FunctionTimer(g)
    BY <1>1, SameProgram
  <2>3. Children(g) # {} /\ TimerVarsOf(FunctionTimer(g)) \subseteq decls'[g]
    <3>1. CASE g = f
      BY <1>3, <3>1
    <3>2. CASE g \in wrapped
      BY <1>2, <1>3, <2>1, <3>2 DEF Shape
    <3> QED BY <1>1, <3>1, <3>2
  <2> QED BY <2>2, <2>3 DEF TimerVarsOf
<1>7. ASSUME NEW m \in visited', NEW k \in Inside(m)', Timed(k)'
      PROVE  (TimerVarsOf(TimerOf(k)) \subseteq decls[m])'
  <2>1. m \in visited /\ m \in Nodes /\ k \in Inside(m)
    BY <1>1, <1>5, SameProgram
  <2>2. k \in Nodes /\ Timed(k) /\ TimerOf(k)' = TimerOf(k)
    BY <1>4, <1>7, <2>1, NodeFacts
  <2>3. TimerVarsOf(TimerOf(k)) \subseteq decls[m]
    BY <1>2, <2>1, <2>2 DEF Shape
  <2>4. decls[m] \subseteq decls'[m]
    BY <1>3, <2>1
  <2> QED BY <2>2, <2>3, <2>4 DEF TimerVarsOf
<1>8. pass' = "insert"
  BY <1>1
<1> QED BY <1>3, <1>5, <1>6, <1>7, <1>8 DEF Shape

LEMMA WrapShape ==
  ASSUME Forest, Shape, IInv, NEW f \in Nodes, Wrap(f)
  PROVE  Shape'
<1> DEFINE t == FunctionTimer(f)
           num == NumberOf(timers, t)
           opening == <<Declarations, StartCall(t)>>
           closing == <<EndCall(t), RecordCall(t, num)>>
<1>0. PICK first, last : first = First(f) /\ last = Last(f)
  OBVIOUS
<1>1. CASE Children(f) = {}
  <2>1. UNCHANGED <<program, visited, wrapped, before, after, decls>> /\ pass' = "no statement"
    BY <1>1 DEF Wrap, inserted
  <2> QED BY <2>1, ShapeSame
<1>2. CASE Children(f) # {}
  <2>1. /\ UNCHANGED <<program, visited, pass>> /\ wrapped' = wrapped \cup {f}
        /\ f \in visited /\ f \in Functions /\ f \notin wrapped
        /\ Actual(f) = {} => after' = [after EXCEPT ![last] = closing \o opening] /\ before' = before
        /\ Actual(f) # {} => /\ before' = [before EXCEPT ![first] = opening \o @]
                             /\ after' = IF label[last] = "return" THEN after
                                         ELSE [after EXCEPT ![last] = @ \o closing]
    BY <1>0, <1>2 DEF Wrap, Closing, Last, First
  <2>2. PICK C : before \in [Nodes -> Seq(C)] /\ after \in [Nodes -> Seq(C)]
    BY DEF IInv, SequencesOfCalls
  <2> DEFINE D == C \cup {Declarations, StartCall(t), EndCall(t), RecordCall(t, num)}
  <2>3. opening \in Seq(D) /\ closing \in Seq(D)
    BY PairElements
  <2>4. before \in [Nodes -> Seq(D)] /\ after \in [Nodes -> Seq(D)]
    <3>1. Seq(C) \subseteq Seq(D)
      OBVIOUS
    <3> QED BY <2>2, <3>1
  <2>5. /\ Len(opening) = 2 /\ opening[1] = Declarations /\ opening[2] = StartCall(t)
        /\ Len(closing) = 2 /\ EndsTimer(closing[1], closing[2], t)
    BY DEF EndsTimer, RecordCall
  <2> HIDE DEF D, opening, closing, t, num
  <2>6. \A m \in Nodes : Timed(m)' = Timed(m) /\ Left(m)' = Left(m) /\ Behind(m)' = Behind(m)
    BY <2>1, SameProgram DEF Timed, Left, Behind
  <2>7. \A m \in Nodes : Before(m) /\ After(m)
    BY DEF Shape
  <2>8. CASE Actual(f) # {}
    <3>1. /\ first \in Nodes /\ Enclosing(first) = f /\ first \in Children(f)
          /\ last \in Nodes /\ Enclosing(last) = f /\ last \in Children(f)
      BY <1>0, <2>1, <2>8, BeforeFirst
    <3>2. ~Opens(first) /\ ~Closes(last) /\ ~Bare(last)
      BY <2>1, <3>1, NotWrapped
    <3>3. \A m \in Nodes : /\ Opens(m)' <=> Opens(m) \/ m = first
                           /\ Closes(m)' <=> Closes(m) \/ (m = last /\ label[last] # "return")
                           /\ Bare(m)' = Bare(m)
      BY <1>0, <2>1, <2>8, SameProgram DEF Opens, Closes, Bare
    <3>4. /\ before'[first] = opening \o before[first]
          /\ \A m \in Nodes : m # first => before'[m] = before[m]
          /\ label[last] # "return" => after'[last] = after[last] \o closing
          /\ \A m \in Nodes : m # last \/ label[last] = "return" => after'[m] = after[m]
      BY <2>1, <2>4, <2>8, <3>1
    <3>5. /\ Ahead(first) = 0 /\ Ahead(first)' = 2
          /\ \A m \in Nodes : m # first => Ahead(m)' = Ahead(m)
      BY <3>1, <3>2, <3>3 DEF Ahead
    <3>6. /\ Len(before'[first]) = 2 + Len(before[first])
          /\ before'[first][1] = Declarations /\ before'[first][2] = StartCall(t)
          /\ \A k \in 1..Len(before[first]) : before'[first][2 + k] = before[first][k]
      <4> DEFINE b == before[first]
      <4>1. b \in Seq(D)
        BY <2>4, <3>1
      <4> HIDE DEF b
      <4>2. /\ Len(opening \o b) = 2 + Len(b)
            /\ (opening \o b)[1] = opening[1] /\ (opening \o b)[2] = opening[2]
            /\ \A k \in 1..Len(b) : (opening \o b)[2 + k] = b[k]
        BY <2>3, <2>5, <4>1, CallsPut
      <4> QED BY <2>5, <3>4, <4>2 DEF b
    <3>7. label[last] # "return" =>
            LET n == Len(after[last]) IN
            /\ Len(after'[last]) = n + 2 /\ EndsTimer(after'[last][n + 1], after'[last][n + 2], t)
            /\ \A k \in 1..n : after'[last][k] = after[last][k]
      <4> DEFINE a == after[last]
      <4>1. a \in Seq(D)
        BY <2>4, <3>1
      <4> HIDE DEF a
      <4>2. /\ Len(a \o closing) = Len(a) + 2
            /\ (a \o closing)[Len(a) + 1] = closing[1] /\ (a \o closing)[Len(a) + 2] = closing[2]
            /\ \A k \in 1..Len(a) : (a \o closing)[k] = a[k]
        BY <2>3, <2>5, <4>1, CallsPut
      <4> QED BY <2>5, <3>4, <4>2 DEF a
    <3>8. Len(before[first]) = IF Timed(first) THEN 1 ELSE IF Left(first) THEN 2 ELSE 0
      BY <2>7, <3>1, <3>5 DEF Before
    <3>9. /\ Timed(first) => before'[first][3] = before[first][1]
          /\ Left(first) => before'[first][3] = before[first][1] /\ before'[first][4] = before[first][2]
      <4>1. ~(Timed(first) /\ Left(first))
        BY DEF Timed, Left
      <4>2. Timed(first) => 1 \in 1..Len(before[first])
        BY <3>8
      <4>3. Left(first) => 1 \in 1..Len(before[first]) /\ 2 \in 1..Len(before[first])
        BY <3>8, <4>1
      <4>4. 2 + 1 = 3 /\ 2 + 2 = 4
        OBVIOUS
      <4> QED BY <3>6, <4>2, <4>3, <4>4
    <3>10. \A m \in Nodes : Timed(m) => TimerOf(m)' = TimerOf(m)
      <4>1. Timed(first) => TimerOf(first)' = TimerOf(first)
        <5>1. TimerOf(first)' = before'[first][3].timer /\ TimerOf(first) = before[first][1].timer
          BY <3>5 DEF TimerOf
        <5> QED BY <3>9, <5>1
      <4>2. \A m \in Nodes : m # first => TimerOf(m)' = TimerOf(m)
        BY <3>4, <3>5 DEF TimerOf
      <4> QED BY <4>1, <4>2
    <3>11. \A m : Enclosing(m)' = Enclosing(m) /\ FunctionTimer(m)' = FunctionTimer(m)
      BY <2>1, SameProgram
    <3>12. ASSUME NEW m \in Nodes PROVE Before(m)'
      <4>1. CASE m = first
        <5>1. Before(first)
          BY <2>7, <3>1
        <5>2. /\ Opens(first)' /\ Ahead(first)' = 2 /\ Timed(first)' = Timed(first) /\ Left(first)' = Left(first)
              /\ FunctionTimer(Enclosing(first))' = t /\ FunctionTimer(Enclosing(first)) = t
          BY <2>6, <3>1, <3>3, <3>5, <3>11 DEF t
        <5>3. Len(before'[first]) = 2 + IF Timed(first) THEN 1 ELSE IF Left(first) THEN 2 ELSE 0
          BY <3>6, <3>8
        <5>4. Timed(first) => /\ before'[first][3] = StartCall(TimerOf(first)') /\ Len(TimerOf(first)') = 2
          BY <3>1, <3>5, <3>9, <3>10, <5>1 DEF Before
        <5>5. Left(first) => EndsTimer(before'[first][3], before'[first][4], t)
          BY <3>5, <3>9, <5>1, <5>2 DEF Before
        <5>6. 2 + 1 = 3 /\ 2 + 2 = 4
          OBVIOUS
        <5>7. before'[first][1] = Declarations /\ before'[first][2] = StartCall(t)
          BY <3>6
        <5> QED BY <4>1, <5>2, <5>3, <5>4, <5>5, <5>6, <5>7
                DEF Before, EndsTimer, RecordCall, StartCall, EndCall, Declarations
      <4>2. CASE m # first
        <5>1. /\ (Opens(m)' <=> Opens(m)) /\ Ahead(m)' = Ahead(m) /\ before'[m] = before[m]
              /\ Timed(m)' = Timed(m) /\ Left(m)' = Left(m) /\ FunctionTimer(Enclosing(m))' = FunctionTimer(Enclosing(m))
              /\ Timed(m) => TimerOf(m)' = TimerOf(m)
          BY <2>6, <3>3, <3>4, <3>5, <3>10, <3>11, <4>2
        <5>2. Before(m)
          BY <2>7
        <5> QED BY <5>1, <5>2 DEF Before, EndsTimer, RecordCall, StartCall, EndCall, Declarations
      <4> QED BY <4>1, <4>2
    <3>13. ASSUME NEW m \in Nodes PROVE After(m)'
      <4>1. CASE m = last /\ label[last] # "return"
        <5>1. After(last)
          BY <2>7, <3>1
        <5>2. /\ Closes(last)' /\ ~Bare(last)' /\ Behind(last)' = Behind(last) /\ Timed(last)' = Timed(last)
              /\ FunctionTimer(Enclosing(last))' = t
          BY <2>6, <3>1, <3>2, <3>3, <3>11, <4>1 DEF t
        <5>3. Len(after[last]) = Behind(last) /\ Behind(last) \in {0, 2} /\ (Timed(last) => Behind(last) = 2)
          BY <3>2, <5>1 DEF After, Behind
        <5>4. Timed(last) => EndsTimer(after'[last][1], after'[last][2], TimerOf(last)')
          <6>1. Timed(last) => 1 \in 1..Len(after[last]) /\ 2 \in 1..Len(after[last])
            BY <5>3
          <6>2. Timed(last) => after'[last][1] = after[last][1] /\ after'[last][2] = after[last][2]
            BY <3>7, <4>1, <6>1
          <6> QED BY <3>1, <3>10, <5>1, <6>2 DEF After
        <5>5. /\ Len(after'[last]) = Behind(last) + 2
              /\ EndsTimer(after'[last][Behind(last) + 1], after'[last][Behind(last) + 2], t)
          BY <3>7, <4>1, <5>3
        <5> QED BY <4>1, <5>2, <5>4, <5>5 DEF After, EndsTimer, RecordCall, StartCall, EndCall, Declarations
      <4>2. CASE m # last \/ label[last] = "return"
        <5>1. /\ (Closes(m)' <=> Closes(m)) /\ Bare(m)' = Bare(m) /\ Behind(m)' = Behind(m)
              /\ Timed(m)' = Timed(m) /\ FunctionTimer(Enclosing(m))' = FunctionTimer(Enclosing(m))
              /\ Timed(m) => TimerOf(m)' = TimerOf(m)
              /\ after'[m] = after[m]
          BY <2>6, <3>3, <3>4, <3>10, <3>11, <4>2
        <5>2. After(m)
          BY <2>7
        <5> QED BY <5>1, <5>2 DEF After, EndsTimer, RecordCall, StartCall, EndCall, Declarations
      <4> QED BY <4>1, <4>2
    <3> QED BY <1>2, <3>10, <3>12, <3>13, WrapRest
  <2>9. CASE Actual(f) = {}
    <3>1. last \in Nodes /\ last \in Children(f) /\ label[last] = "declaration"
      BY <1>0, <1>2, <2>1, <2>9, NoActual
    <3>2. ~Closes(last) /\ ~Bare(last)
      BY <2>1, <3>1, NotWrapped
    <3>3. \A m \in Nodes : /\ Opens(m)' = Opens(m) /\ Closes(m)' = Closes(m)
                           /\ Bare(m)' <=> Bare(m) \/ m = last
      BY <1>0, <2>1, <2>9, SameProgram DEF Opens, Closes, Bare
    <3>4. /\ before' = before
          /\ after'[last] = closing \o opening
          /\ \A m \in Nodes : m # last => after'[m] = after[m]
      BY <2>1, <2>4, <2>9, <3>1
    <3>5. /\ Len(after'[last]) = 4
          /\ EndsTimer(after'[last][1], after'[last][2], t)
          /\ after'[last][3] = Declarations /\ after'[last][4] = StartCall(t)
      <4>1. /\ Len(closing \o opening) = 2 + Len(opening)
            /\ (closing \o opening)[1] = closing[1] /\ (closing \o opening)[2] = closing[2]
            /\ \A k \in 1..Len(opening) : (closing \o opening)[2 + k] = opening[k]
        BY <2>3, <2>5, CallsPut
      <4>2. 1 \in 1..2 /\ 2 \in 1..2 /\ 2 + 1 = 3 /\ 2 + 2 = 4
        OBVIOUS
      <4> QED BY <2>5, <3>4, <4>1, <4>2
    <3>6. \A m \in Nodes : Ahead(m)' = Ahead(m) /\ TimerOf(m)' = TimerOf(m)
      BY <3>3, <3>4 DEF Ahead, TimerOf
    <3>7. \A m : Enclosing(m)' = Enclosing(m) /\ FunctionTimer(m)' = FunctionTimer(m)
      BY <2>1, SameProgram
    <3>8. ASSUME NEW m \in Nodes PROVE Before(m)'
      BY <2>6, <2>7, <3>3, <3>4, <3>6, <3>7 DEF Before, EndsTimer, RecordCall, StartCall, EndCall, Declarations
    <3>9. ASSUME NEW m \in Nodes PROVE After(m)'
      <4>1. CASE m = last
        <5>1. ~Timed(last)' /\ ~Closes(last)' /\ Bare(last)' /\ Behind(last)' = 0
          BY <2>6, <3>1, <3>2, <3>3 DEF Timed, Behind
        <5>2. FunctionTimer(Enclosing(last))' = t
          BY <2>1, <3>1, <3>7, EnclosingChild DEF t
        <5> QED BY <3>5, <4>1, <5>1, <5>2 DEF After, EndsTimer, RecordCall, StartCall, EndCall, Declarations
      <4>2. CASE m # last
        <5>1. /\ Closes(m)' = Closes(m) /\ (Bare(m)' <=> Bare(m)) /\ Behind(m)' = Behind(m)
              /\ Timed(m)' = Timed(m) /\ FunctionTimer(Enclosing(m))' = FunctionTimer(Enclosing(m))
              /\ TimerOf(m)' = TimerOf(m) /\ after'[m] = after[m]
          BY <2>6, <3>3, <3>4, <3>6, <3>7, <4>2
        <5>2. After(m)
          BY <2>7
        <5> QED BY <5>1, <5>2 DEF After, EndsTimer, RecordCall, StartCall, EndCall, Declarations
      <4> QED BY <4>1, <4>2
    <3> QED BY <1>2, <3>6, <3>8, <3>9, WrapRest
  <2> QED BY <2>8, <2>9
<1> QED BY <1>1, <1>2

(* Nothing is inserted before the first step. *)
LEMMA InitShape ==
  ASSUME Init
  PROVE  Forest /\ Shape
<1>1. Forest
  BY DEF Init, Forest
<1>2. \A n \in Nodes : /\ ~Opens(n) /\ ~Closes(n) /\ ~Bare(n) /\ ~Timed(n) /\ ~Left(n)
                       /\ before[n] = <<>> /\ after[n] = <<>>
  BY DEF Init, Opens, Closes, Bare, Timed, Left
<1>3. \A n \in Nodes : Before(n) /\ After(n)
  BY <1>2 DEF Before, After, Ahead, Behind
<1>4. decls = [n \in Nodes |-> decls[n]]
  BY DEF Init
<1>5. visited = {} /\ wrapped = {} /\ pass = "insert"
  BY DEF Init
<1> QED BY <1>1, <1>3, <1>4, <1>5 DEF Shape

(* No step changes the program, and the calls are where they are expected. *)
LEMMA NextShape ==
  ASSUME Forest, Shape, IInv, [Next]_vars
  PROVE  Forest' /\ Shape'
<1>1. ASSUME UNCHANGED <<program, pass, visited, wrapped, inserted>>
      PROVE  Forest' /\ Shape'
  BY <1>1, ShapeSame, SameProgram DEF inserted
<1>2. CASE UNCHANGED vars
  BY <1>1, <1>2 DEF vars
<1>3. ASSUME NEW n \in Nodes, VisitOther(n)
      PROVE  Forest' /\ Shape'
  <2>1. UNCHANGED program
    BY <1>3 DEF VisitOther
  <2> QED BY <1>3, <2>1, VisitOtherShape, SameProgram
<1>4. ASSUME NEW n \in Nodes, VisitReturn(n)
      PROVE  Forest' /\ Shape'
  <2>1. UNCHANGED program
    BY <1>4 DEF VisitReturn
  <2> QED BY <1>4, <2>1, VisitReturnShape, SameProgram
<1>5. ASSUME NEW n \in Nodes, VisitBlock(n)
      PROVE  Forest' /\ Shape'
  <2>1. UNCHANGED program
    BY <1>5 DEF VisitBlock
  <2> QED BY <1>5, <2>1, VisitBlockShape, SameProgram
<1>6. ASSUME NEW n \in Nodes, Wrap(n)
      PROVE  Forest' /\ Shape'
  <2>1. UNCHANGED program
    BY <1>6 DEF Wrap
  <2> QED BY <1>6, <2>1, WrapShape, SameProgram
<1>7. CASE EndInsert
  <2>1. /\ UNCHANGED <<program, visited, wrapped, before, after, decls>>
        /\ visited = Nodes /\ wrapped = Functions /\ pass' = "generate"
    BY <1>7 DEF EndInsert, inserted
  <2> QED BY <2>1, ShapeSame, SameProgram
<1>8. CASE Generate
  <2>1. /\ UNCHANGED <<program, visited, wrapped, before, after, decls>>
        /\ pass = "generate" /\ pass' \in {"unknown mode", "run"}
    BY <1>8 DEF Generate, inserted
  <2>2. visited = Nodes /\ wrapped = Functions
    BY <2>1 DEF Shape
  <2> QED BY <2>1, <2>2, ShapeSame, SameProgram
<1>9. ASSUME NEW n \in Nodes, Enter(n) \/ Statement(n) \/ Continue(n)
      PROVE  Forest' /\ Shape'
  BY <1>1, <1>9 DEF Enter, Statement, Continue
<1>10. ASSUME NEW n \in Nodes, NEW side \in {"before", "after"}, NEW k \in 1..Len(Calls(n, side)),
              Perform(n, side, k)
       PROVE  Forest' /\ Shape'
  BY <1>1, <1>10 DEF Perform
<1> QED BY <1>2, <1>3, <1>4, <1>5, <1>6, <1>7, <1>8, <1>9, <1>10 DEF Next

-------------------------------------------------------------------------------
(* What the calls next to a statement are. *)
LEMMA BeforeCalls ==
  ASSUME Forest, Shape, IInv, NEW n \in Nodes, NEW k \in DOMAIN before[n]
  PROVE  LET t == FunctionTimer(Enclosing(n))
             c == before[n][k]
         IN \/ Opens(n) /\ k = 1 /\ c = Declarations
            \/ Opens(n) /\ k = 2 /\ c = StartCall(t)
            \/ Timed(n) /\ k = Ahead(n) + 1 /\ c = StartCall(TimerOf(n))
            \/ Left(n) /\ k = Ahead(n) + 1 /\ c = EndCall(t)
            \/ Left(n) /\ k = Ahead(n) + 2 /\ c.op = "record" /\ c.timer = t
<1>1. k \in 1..Len(before[n])
  BY DEF IInv, SequencesOfCalls
<1>2. Before(n)
  BY DEF Shape
<1>3. /\ \/ Ahead(n) = 0 /\ ~Opens(n)
         \/ Ahead(n) = 2 /\ Opens(n)
      /\ ~(Timed(n) /\ Left(n))
  <2>1. ~(Timed(n) /\ Left(n))
    BY DEF Timed, Left
  <2> QED BY <2>1 DEF Ahead
<1>4. Len(before[n]) = Ahead(n) + IF Timed(n) THEN 1 ELSE IF Left(n) THEN 2 ELSE 0
  BY <1>2 DEF Before
<1>5. \/ Opens(n) /\ k = 1
      \/ Opens(n) /\ k = 2
      \/ Timed(n) /\ k = Ahead(n) + 1
      \/ Left(n) /\ k = Ahead(n) + 1
      \/ Left(n) /\ k = Ahead(n) + 2
  BY <1>1, <1>3, <1>4
<1> QED BY <1>2, <1>5 DEF Before, EndsTimer, RecordCall

LEMMA AfterCalls ==
  ASSUME Forest, Shape, IInv, NEW n \in Nodes, NEW k \in DOMAIN after[n], ~Bare(n)
  PROVE  LET t == FunctionTimer(Enclosing(n))
             c == after[n][k]
         IN \/ Timed(n) /\ k = 1 /\ c = EndCall(TimerOf(n))
            \/ Timed(n) /\ k = 2 /\ c.op = "record" /\ c.timer = TimerOf(n)
            \/ Closes(n) /\ k = Behind(n) + 1 /\ c = EndCall(t)
            \/ Closes(n) /\ k = Behind(n) + 2 /\ c.op = "record" /\ c.timer = t
<1>1. k \in 1..Len(after[n])
  BY DEF IInv, SequencesOfCalls
<1>2. After(n)
  BY DEF Shape
<1>3. \/ Behind(n) = 0 /\ ~Timed(n)
      \/ Behind(n) = 2 /\ Timed(n)
  BY DEF Behind
<1>4. Len(after[n]) = Behind(n) + IF Closes(n) THEN 2 ELSE 0
  BY <1>2 DEF After
<1>5. \/ Timed(n) /\ k = 1
      \/ Timed(n) /\ k = 2
      \/ Closes(n) /\ k = Behind(n) + 1
      \/ Closes(n) /\ k = Behind(n) + 2
  BY <1>1, <1>3, <1>4
<1> QED BY <1>2, <1>5 DEF After, EndsTimer, RecordCall

(* What is inserted is one of the four kinds of calls. *)
LEMMA OpsOf ==
  ASSUME Forest, Shape, IInv, NEW n \in Nodes, NEW c \in CallsAt(n)
  PROVE  c.op \in {"start", "end", "record", "declare"}
<1>1. Declarations.op = "declare" /\ \A u : StartCall(u).op = "start" /\ EndCall(u).op = "end"
  BY DEF Declarations, StartCall, EndCall
<1>2. CASE \E k \in DOMAIN before[n] : c = before[n][k]
  BY <1>1, <1>2, BeforeCalls
<1>3. CASE ~Bare(n) /\ \E k \in DOMAIN after[n] : c = after[n][k]
  BY <1>1, <1>3, AfterCalls
<1>4. CASE Bare(n) /\ \E k \in DOMAIN after[n] : c = after[n][k]
  <2>1. After(n) /\ Behind(n) = 0 /\ ~Closes(n)
    <3>1. ~Timed(n) /\ ~Closes(n)
      BY <1>4, Roles
    <3> QED BY <3>1 DEF Shape, Behind
  <2>2. DOMAIN after[n] = 1..4
    <3>1. Len(after[n]) = 4
      BY <1>4, <2>1 DEF After
    <3> QED BY <3>1 DEF IInv, SequencesOfCalls
  <2>3. PICK k \in 1..4 : c = after[n][k]
    BY <1>4, <2>2
  <2>4. k = 1 \/ k = 2 \/ k = 3 \/ k = 4
    OBVIOUS
  <2> QED BY <1>1, <1>4, <2>1, <2>3, <2>4 DEF After, EndsTimer, RecordCall
<1> QED BY <1>2, <1>3, <1>4 DEF CallsAt

(* In a function with an actual statement, the calls at its ends are its own. *)
LEMMA EndsOf ==
  ASSUME Forest, Shape, NEW n \in Nodes, Actual(Enclosing(n)) # {}
  PROVE  /\ ~Bare(n)
         /\ Opens(n) => n = First(Enclosing(n))
         /\ Closes(n) => n = Last(Enclosing(n))
<1>1. ASSUME NEW f \in wrapped, n \in Children(f)
      PROVE  Enclosing(n) = f
  <2>1. f \in Nodes /\ f \in Functions
    BY PlacesOf
  <2> QED BY <1>1, <2>1, EnclosingIs, ChildInside, EnclosingInside
<1>2. \A f \in wrapped : Last(f) \in Children(f) /\ (Actual(f) # {} => First(f) \in Children(f))
  BY PlacesOf
<1> QED BY <1>1, <1>2 DEF Bare, Opens, Closes

(* DeclaredFirst is a matter of where the calls are. *)
LEMMA DeclaredFirstHolds ==
  ASSUME Forest, Shape, IInv
  PROVE  DeclaredFirst
<1> SUFFICES ASSUME pass \in {"generate", "run"}, NEW f \in Functions, Actual(f) # {},
                    \A n \in Inside(f) : label[n] # "common"
             PROVE  /\ UNION {VarsOf(call) : call \in UNION {CallsAt(n) : n \in Inside(f)}} \subseteq decls[f]
                    /\ before[First(f)][1] = Declarations
                    /\ \A n \in Inside(f) : n < First(f) <=> label[n] \in Specification
                    /\ \A n \in Inside(f) : n < First(f) => CallsAt(n) = {}
                    /\ \A n \in Inside(f) : \A k \in DOMAIN before[n] :
                         before[n][k] = Declarations => n = First(f) /\ k = 1
                    /\ \A n \in Inside(f) : Declarations \notin {after[n][k] : k \in DOMAIN after[n]}
  BY DEF DeclaredFirst, First
<1> DEFINE t == FunctionTimer(f)
<1>1. visited = Nodes /\ wrapped = Functions /\ f \in Nodes
  BY DEF Shape, Functions
<1>2. /\ First(f) \in Children(f) /\ First(f) \in Nodes /\ label[First(f)] # "declaration"
      /\ Last(f) \in Children(f) /\ Last(f) \in Nodes /\ First(f) <= Last(f)
      /\ \A n \in Inside(f) : n < First(f) => parent[n] = f /\ label[n] = "declaration"
  BY BeforeFirst
<1>3. \A n \in Inside(f) : n \in Nodes /\ Enclosing(n) = f
  BY <1>1, NodeFacts, EnclosingInside, EnclosingIs
<1>4. \A n \in Inside(f) : /\ ~Bare(n) /\ (Opens(n) => n = First(f)) /\ (Closes(n) => n = Last(f))
  BY <1>3, EndsOf
<1>5. TimerVarsOf(t) \subseteq decls[f]
  BY <1>1 DEF Shape
<1>6. \A n \in Inside(f) : Timed(n) => TimerVarsOf(TimerOf(n)) \subseteq decls[f]
  BY <1>1 DEF Shape
<1> HIDE DEF t
<1>7. \A u : /\ VarsOf(StartCall(u)) \subseteq TimerVarsOf(u) /\ VarsOf(EndCall(u)) \subseteq TimerVarsOf(u)
             /\ \A c : c.op = "record" /\ c.timer = u => VarsOf(c) \subseteq TimerVarsOf(u)
  BY DEF VarsOf, StartCall, EndCall, TimerVarsOf
<1>8. VarsOf(Declarations) = {}
  BY DEF VarsOf, Declarations
<1>9. ASSUME NEW n \in Inside(f), NEW c \in CallsAt(n)
      PROVE  VarsOf(c) \subseteq decls[f]
  <2>1. CASE \E k \in DOMAIN before[n] : c = before[n][k]
    <3>1. PICK k \in DOMAIN before[n] : c = before[n][k]
      BY <2>1
    <3>2. \/ c = Declarations
          \/ c = StartCall(t)
          \/ Timed(n) /\ c = StartCall(TimerOf(n))
          \/ c = EndCall(t)
          \/ c.op = "record" /\ c.timer = t
      BY <1>3, <3>1, BeforeCalls DEF t
    <3> QED BY <1>5, <1>6, <1>7, <1>8, <3>2
  <2>2. CASE \E k \in DOMAIN after[n] : c = after[n][k]
    <3>1. PICK k \in DOMAIN after[n] : c = after[n][k]
      BY <2>2
    <3>2. \/ Timed(n) /\ c = EndCall(TimerOf(n))
          \/ Timed(n) /\ c.op = "record" /\ c.timer = TimerOf(n)
          \/ c = EndCall(t)
          \/ c.op = "record" /\ c.timer = t
      BY <1>3, <1>4, <3>1, AfterCalls DEF t
    <3> QED BY <1>5, <1>6, <1>7, <3>2
  <2> QED BY <2>1, <2>2 DEF CallsAt
<1>10. before[First(f)][1] = Declarations
  <2>1. Opens(First(f))
    BY <1>1 DEF Opens
  <2> QED BY <1>2, <2>1 DEF Shape, Before
<1>11. ASSUME NEW n \in Inside(f), n < First(f)
       PROVE  label[n] \in Specification /\ CallsAt(n) = {}
  <2>1. label[n] = "declaration" /\ n \in Nodes
    BY <1>2, <1>3, <1>11
  <2>2. n # First(f) /\ n # Last(f)
    BY <1>2, <1>11, <2>1 DEF Nodes
  <2>3. ~Timed(n) /\ ~Left(n) /\ ~Opens(n) /\ ~Closes(n) /\ ~Bare(n)
    BY <1>4, <2>1, <2>2 DEF Timed, Left
  <2>4. Len(before[n]) = 0 /\ Len(after[n]) = 0
    <3>1. Before(n) /\ After(n)
      BY <2>1 DEF Shape
    <3>2. Ahead(n) = 0 /\ Behind(n) = 0
      BY <2>3 DEF Ahead, Behind
    <3> QED BY <2>3, <3>1, <3>2 DEF Before, After
  <2>5. DOMAIN before[n] = {} /\ DOMAIN after[n] = {}
    BY <2>1, <2>4 DEF IInv, SequencesOfCalls
  <2> QED BY <2>1, <2>5 DEF CallsAt, Specification
<1>12. ASSUME NEW n \in Inside(f), label[n] \in Specification
       PROVE  n < First(f)
  <2>1. label[n] = "declaration" /\ n \in Nodes /\ n \notin Functions
    BY <1>1, <1>3, <1>12, NodeFacts DEF Specification
  <2>2. /\ parent[n] \in Nodes /\ parent[n] \in Functions
        /\ \A m \in parent[n] + 1..n : label[m] \in Specification
    <3>1. /\ label[parent[n]] = "function"
          /\ \A m \in parent[n] + 1..n : label[m] \in Specification
      BY <1>12, <2>1 DEF Forest, IsProgram
    <3> QED BY <2>1, <3>1, NodeFacts
  <2>3. parent[n] = f
    <3>1. Enclosing(n) = Enclosing(parent[n]) /\ Enclosing(parent[n]) = parent[n]
      BY <2>1, <2>2, EnclosingParent, EnclosingIs
    <3> QED BY <1>3, <3>1
  <2>4. First(f) \in Inside(f) /\ First(f) > f /\ f \in Int /\ n \in Int /\ First(f) \in Int
    BY <1>1, <1>2, <2>1, ChildInside, NodeFacts
  <2>5. ~(First(f) <= n)
    <3> SUFFICES ASSUME First(f) <= n PROVE FALSE
      OBVIOUS
    <3>1. First(f) \in parent[n] + 1..n
      BY <2>3, <2>4
    <3>2. label[First(f)] \in Specification
      BY <2>2, <3>1
    <3> QED BY <1>2, <2>4, <3>2 DEF Specification
  <2> QED BY <2>4, <2>5
<1>13. Declarations.op = "declare" /\ \A u : StartCall(u).op = "start" /\ EndCall(u).op = "end"
  BY DEF Declarations, StartCall, EndCall
<1>14. ASSUME NEW n \in Inside(f), NEW k \in DOMAIN before[n], before[n][k] = Declarations
       PROVE  n = First(f) /\ k = 1
  <2>1. Opens(n) /\ k = 1
    BY <1>3, <1>13, <1>14, BeforeCalls
  <2> QED BY <1>4, <2>1
<1>15. ASSUME NEW n \in Inside(f), NEW k \in DOMAIN after[n]
       PROVE  after[n][k] # Declarations
  BY <1>3, <1>4, <1>13, AfterCalls
<1> QED BY <1>9, <1>10, <1>11, <1>12, <1>14, <1>15

-------------------------------------------------------------------------------
(* The execution. *)

\* Where an activation can be.
AtCall(n, side, k) ==
  /\ n \in Nodes \ Functions /\ side \in {"before", "after"}
  /\ k \in 1..Len(Calls(n, side)) + 1
  /\ side = "after" => label[n] # "return"
  /\ at = <<n, side, k>>
AtExit(n) == n \in Nodes /\ label[n] \in {"function", "return"} /\ at = <<n, "exit">>

Place ==
  at # <<>> =>
    /\ pass = "run"
    /\ DOMAIN clock = {timers[k] : k \in DOMAIN timers}
    /\ (\E n, side, k : AtCall(n, side, k)) \/ (\E n : AtExit(n))

(* The execution changes nothing else. *)
LEMMA SameCallsAt ==
  ASSUME Forest, Shape, IInv, UNCHANGED <<program, pass, visited, wrapped, inserted>>
  PROVE  \A n, side : Calls(n, side)' = Calls(n, side)
BY DEF Calls, inserted

(* The calls next to a statement are numbered from one. *)
LEMMA CallsLen ==
  ASSUME IInv, NEW n \in Nodes, NEW side
  PROVE  /\ Len(Calls(n, side)) \in Nat /\ DOMAIN Calls(n, side) = 1..Len(Calls(n, side))
         /\ Len(before[n]) \in Nat /\ Len(after[n]) \in Nat
<1>1. PICK C : before \in [Nodes -> Seq(C)] /\ after \in [Nodes -> Seq(C)]
  BY DEF IInv, SequencesOfCalls
<1>2. before[n] \in Seq(C) /\ after[n] \in Seq(C)
  BY <1>1
<1>3. Calls(n, side) \in Seq(C)
  BY <1>2 DEF Calls
<1> QED BY <1>2, <1>3

(* In front of a statement, and behind it, is a place. *)
LEMMA GoTo ==
  ASSUME Forest, Shape, IInv, UNCHANGED <<program, pass, visited, wrapped, inserted>>,
         NEW n \in Nodes \ Functions, NEW side \in {"before", "after"}, at' = <<n, side, 1>>,
         side = "after" => label[n] # "return"
  PROVE  AtCall(n, side, 1)'
<1>1. Calls(n, side)' = Calls(n, side) /\ Len(Calls(n, side)) \in Nat
  BY SameCallsAt, CallsLen
<1>2. 1 \in 1..Len(Calls(n, side)') + 1
  BY <1>1
<1> QED BY <1>2, SameProgram DEF AtCall

(* A place is what it looks like. *)
LEMMA PlaceIs ==
  ASSUME Place, NEW n, NEW side, NEW k, at = <<n, side, k>>
  PROVE  AtCall(n, side, k) /\ pass = "run" /\ DOMAIN clock = {timers[j] : j \in DOMAIN timers}
<1>1. at # <<>>
  OBVIOUS
<1>2. ASSUME NEW m, AtExit(m) PROVE FALSE
  <2>1. Len(at) = 3
    OBVIOUS
  <2>2. at = <<m, "exit">>
    BY <1>2 DEF AtExit
  <2>3. Len(at) = 2
    BY <2>2
  <2> QED BY <2>1, <2>3
<1>3. PICK m, s, j : AtCall(m, s, j)
  BY <1>1, <1>2 DEF Place
<1>4. m = n /\ s = side /\ j = k
  BY <1>3 DEF AtCall
<1> QED BY <1>1, <1>3, <1>4 DEF Place

(* The next statement of the block. *)
LEMMA LaterIs ==
  ASSUME Forest, NEW n \in Nodes \ Functions, Later(n) # {}
  PROVE  /\ Least(Later(n)) \in Children(parent[n]) /\ Least(Later(n)) > n
         /\ Least(Later(n)) \in Nodes \ Functions
         /\ \A c \in Children(parent[n]) : c > n => Least(Later(n)) <= c
<1>1. Later(n) \subseteq Nodes /\ Later(n) \subseteq Children(parent[n])
  BY DEF Later, Children
<1>2. parent[n] \in Nodes
  BY NodeFacts
<1>3. Least(Later(n)) \in Later(n) /\ \A y \in Later(n) : Least(Later(n)) <= y
  BY <1>1, LeastIs
<1> QED BY <1>1, <1>2, <1>3, NodeFacts DEF Later

(* Every step of the execution goes from a place to a place. *)
LEMMA NextPlace ==
  ASSUME Forest, Shape, IInv, Place, [Next]_vars
  PROVE  Place'
<1>1. ASSUME at' = at, at = <<>> PROVE Place'
  BY <1>1 DEF Place
<1>2. CASE UNCHANGED vars
  <2>1. UNCHANGED <<program, pass, timers, before, after, at, clock>>
    BY <1>2 DEF vars, inserted
  <2>2. \A n, side, k : AtCall(n, side, k)' <=> AtCall(n, side, k)
    BY <2>1, SameProgram DEF AtCall, Calls
  <2>3. \A n : AtExit(n)' <=> AtExit(n)
    BY <2>1, SameProgram DEF AtExit
  <2> QED BY <2>1, <2>2, <2>3 DEF Place
<1>3. ASSUME NEW n \in Nodes, VisitOther(n) \/ VisitReturn(n) \/ VisitBlock(n) \/ Wrap(n)
      PROVE  Place'
  <2>1. pass = "insert" /\ at' = at
    BY <1>3 DEF VisitOther, VisitReturn, VisitBlock, Wrap, Insert
  <2> QED BY <1>1, <2>1 DEF Place
<1>4. CASE EndInsert \/ Generate
  <2>1. pass # "run" /\ at' = at
    BY <1>4 DEF EndInsert, Generate
  <2> QED BY <1>1, <2>1 DEF Place
<1>5. ASSUME NEW n \in Nodes, Enter(n)
      PROVE  Place'
  <2>1. /\ pass = "run" /\ n \in Functions /\ at' = <<Least(Children(n)), "before", 1>>
        /\ UNCHANGED <<program, pass, visited, wrapped, inserted>>
        /\ clock' = [t \in {timers[k] : k \in DOMAIN timers} |-> "unset"]
    BY <1>5 DEF Enter
  <2>2. n \in wrapped
    BY <2>1 DEF Shape
  <2>3. Children(n) # {} /\ Children(n) \subseteq Nodes
    BY <2>2, NodeFacts DEF Shape
  <2>4. Least(Children(n)) \in Nodes \ Functions
    BY <2>3, LeastIs, NodeFacts
  <2>5. AtCall(Least(Children(n)), "before", 1)'
    <3>1. PICK c : c = Least(Children(n))
      OBVIOUS
    <3>2. AtCall(c, "before", 1)'
      BY <2>1, <2>4, <3>1, GoTo
    <3>3. Least(Children(n))' = Least(Children(n))
      BY <2>1, SameProgram DEF Least
    <3> QED BY <3>1, <3>2, <3>3 DEF AtCall, Calls
  <2>6. timers' = timers /\ DOMAIN clock' = {timers[k] : k \in DOMAIN timers}
    BY <2>1 DEF inserted
  <2> QED BY <2>1, <2>5, <2>6 DEF Place
<1>6. ASSUME NEW n \in Nodes, Statement(n)
      PROVE  Place'
  <2>1. /\ at = <<n, "before", Len(before[n]) + 1>>
        /\ UNCHANGED <<program, pass, visited, wrapped, inserted, clock>>
    BY <1>6 DEF Statement
  <2>2. AtCall(n, "before", Len(before[n]) + 1) /\ pass = "run"
        /\ DOMAIN clock = {timers[j] : j \in DOMAIN timers}
    BY <2>1, PlaceIs
  <2>3. n \in Nodes \ Functions
    BY <2>2 DEF AtCall
  <2>4. (\E m, side, k : AtCall(m, side, k)') \/ (\E m : AtExit(m)')
    <3>1. CASE label[n] = "return" /\ at' = <<n, "exit">>
      <4>1. AtExit(n)'
        BY <2>1, <3>1, SameProgram DEF AtExit
      <4> QED BY <4>1
    <3>2. CASE Children(n) # {} /\ at' = <<Least(Children(n)), "before", 1>>
      <4>1. PICK c : c = Least(Children(n))
        OBVIOUS
      <4>2. c \in Nodes \ Functions
        BY <3>2, <4>1, LeastIs, NodeFacts
      <4>3. AtCall(c, "before", 1)'
        BY <2>1, <3>2, <4>1, <4>2, GoTo
      <4> QED BY <4>3
    <3>3. CASE label[n] # "return" /\ at' = <<n, "after", 1>>
      <4>1. AtCall(n, "after", 1)'
        BY <2>1, <2>3, <3>3, GoTo
      <4> QED BY <4>1
    <3> QED BY <1>6, <3>1, <3>2, <3>3 DEF Statement
  <2> QED BY <2>1, <2>2, <2>4 DEF Place, inserted
<1>7. ASSUME NEW n \in Nodes, Continue(n)
      PROVE  Place'
  <2>1. /\ at = <<n, "after", Len(after[n]) + 1>>
        /\ UNCHANGED <<program, pass, visited, wrapped, inserted, clock>>
    BY <1>7 DEF Continue
  <2>2. AtCall(n, "after", Len(after[n]) + 1) /\ pass = "run"
        /\ DOMAIN clock = {timers[j] : j \in DOMAIN timers}
    BY <2>1, PlaceIs
  <2>3. n \in Nodes \ Functions
    BY <2>2 DEF AtCall
  <2>4. parent[n] \in Nodes /\ label[parent[n]] \in Blocks /\ n \in Children(parent[n])
        /\ Children(parent[n]) \subseteq Nodes
    BY <2>3, NodeFacts, EnclosingParent
  <2>5. (\E m, side, k : AtCall(m, side, k)') \/ (\E m : AtExit(m)')
    <3>1. CASE Later(n) # {} /\ at' = <<Least(Later(n)), "before", 1>>
      <4>1. PICK c : c = Least(Later(n))
        OBVIOUS
      <4>2. c \in Nodes \ Functions
        BY <2>3, <3>1, <4>1, LaterIs
      <4>3. AtCall(c, "before", 1)'
        BY <2>1, <3>1, <4>1, <4>2, GoTo
      <4> QED BY <4>3
    <3>2. CASE label[parent[n]] = "function" /\ at' = <<parent[n], "exit">>
      <4>1. PICK p : p = parent[n]
        OBVIOUS
      <4>2. AtExit(p)'
        BY <2>1, <2>4, <3>2, <4>1, SameProgram DEF AtExit
      <4> QED BY <4>2
    <3>3. CASE label[parent[n]] # "function" /\ at' = <<parent[n], "after", 1>>
      <4>1. PICK p : p = parent[n]
        OBVIOUS
      <4>2. p \in Nodes \ Functions /\ label[p] # "return"
        BY <2>4, <3>3, <4>1, NodeFacts DEF Blocks
      <4>3. AtCall(p, "after", 1)'
        BY <2>1, <3>3, <4>1, <4>2, GoTo
      <4> QED BY <4>3
    <3>4. CASE at' = <<Least(Children(parent[n])), "before", 1>>
      <4>1. PICK c : c = Least(Children(parent[n]))
        OBVIOUS
      <4>2. c \in Nodes \ Functions
        BY <2>4, <4>1, LeastIs, NodeFacts
      <4>3. AtCall(c, "before", 1)'
        BY <2>1, <3>4, <4>1, <4>2, GoTo
      <4> QED BY <4>3
    <3> QED BY <1>7, <3>1, <3>2, <3>3, <3>4 DEF Continue
  <2> QED BY <2>1, <2>2, <2>5 DEF Place, inserted
<1>8. ASSUME NEW n \in Nodes, NEW side \in {"before", "after"}, NEW k \in 1..Len(Calls(n, side)),
             Perform(n, side, k)
      PROVE  Place'
  <2>1. /\ at = <<n, side, k>> /\ at' = <<n, side, k + 1>> /\ clock' = Effect(Calls(n, side)[k])
        /\ UNCHANGED <<program, pass, visited, wrapped, inserted>>
    BY <1>8 DEF Perform
  <2>2. AtCall(n, side, k) /\ pass = "run"
        /\ DOMAIN clock = {timers[j] : j \in DOMAIN timers}
    BY <2>1, PlaceIs
  <2>3. Calls(n, side)' = Calls(n, side) /\ Len(Calls(n, side)) \in Nat
    BY <2>1, SameCallsAt, CallsLen
  <2>4. AtCall(n, side, k + 1)'
    <3>1. k + 1 \in 1..Len(Calls(n, side)') + 1
      BY <2>3
    <3> QED BY <2>1, <2>2, <3>1, SameProgram DEF AtCall
  <2>5. DOMAIN clock' = DOMAIN clock
    BY <2>1 DEF Effect
  <2> QED BY <2>1, <2>2, <2>4, <2>5 DEF Place, inserted
<1> QED BY <1>2, <1>3, <1>4, <1>5, <1>6, <1>7, <1>8 DEF Next

-------------------------------------------------------------------------------
TimedLoops == {l \in Nodes : Timed(l)}
Named(S) == \A f \in S : \E k \in 1..Len(timers) : timers[k] = FunctionTimer(f)

\* Every name was given out to a function or to a loop.
Counted == \E S \in SUBSET Functions : Named(S) /\ Len(timers) = Cardinality(S) + Cardinality(TimedLoops)

(* No more names than statements. *)
LEMMA EnoughNumbers ==
  ASSUME Forest, Counted
  PROVE  Len(timers) <= Size
<1>1. PICK S \in SUBSET Functions : Len(timers) = Cardinality(S) + Cardinality(TimedLoops)
  BY DEF Counted
<1>2. IsFiniteSet(Nodes) /\ Cardinality(Nodes) = Size
  <2>1. Size >= 1 /\ Size \in Nat
    BY TimersAssumption
  <2>2. IsFiniteSet(1..Size) /\ Cardinality(1..Size) = IF 1 > Size THEN 0 ELSE Size - 1 + 1
    BY <2>1, FS_Interval
  <2> QED BY <2>1, <2>2 DEF Nodes
<1>3. S \subseteq Nodes /\ TimedLoops \subseteq Nodes /\ S \cap TimedLoops = {}
  BY DEF TimedLoops, Functions, Timed
<1>4. /\ IsFiniteSet(S) /\ IsFiniteSet(TimedLoops) /\ IsFiniteSet(S \cup TimedLoops)
      /\ Cardinality(S \cup TimedLoops) <= Cardinality(Nodes)
  BY <1>2, <1>3, FS_Subset
<1>5. Cardinality(S \cup TimedLoops) = Cardinality(S) + Cardinality(TimedLoops) - Cardinality(S \cap TimedLoops)
  BY <1>4, FS_Union
<1>6. Cardinality({}) = 0
  BY FS_EmptySet
<1>7. Cardinality(S) \in Nat /\ Cardinality(TimedLoops) \in Nat
  BY <1>4, FS_CardinalityType
<1>8. Cardinality(S \cap TimedLoops) = 0
  BY <1>3, <1>6
<1> HIDE DEF TimedLoops
<1>9. Cardinality(S \cup TimedLoops) = Len(timers)
  BY <1>1, <1>5, <1>7, <1>8
<1> QED BY <1>2, <1>4, <1>9

(* A function's name is given out once. *)
LEMMA CountedOne ==
  ASSUME Forest, IInv, Counted, UNCHANGED program, NEW f \in Functions,
         timers' = Numbered(timers, FunctionTimer(f)), \A l \in Nodes : Timed(l)' = Timed(l)
  PROVE  Counted'
<1>1. PICK S \in SUBSET Functions : Named(S) /\ Len(timers) = Cardinality(S) + Cardinality(TimedLoops)
  BY DEF Counted
<1>2. TimedLoops' = TimedLoops
  BY DEF TimedLoops
<1>3. PICK T : timers \in Seq(T)
  BY DEF IInv
<1> DEFINE t == FunctionTimer(f)
<1>4. CASE \E k \in 1..Len(timers) : timers[k] = t
  <2>1. timers' = timers
    BY <1>4 DEF Numbered
  <2>2. Named(S)'
    BY <1>1, <2>1, SameProgram DEF Named
  <2> QED BY <1>1, <1>2, <2>1, <2>2, SameProgram DEF Counted
<1>5. CASE ~\E k \in 1..Len(timers) : timers[k] = t
  <2> HIDE DEF t
  <2>1. timers' = Append(timers, t)
    BY <1>5 DEF Numbered, t
  <2>2. timers \in Seq(T \cup {t}) /\ t \in T \cup {t}
    BY <1>3
  <2>3. /\ Len(timers) \in Nat /\ Len(timers') = Len(timers) + 1 /\ timers'[Len(timers) + 1] = t
        /\ \A k \in 1..Len(timers) : timers'[k] = timers[k]
    BY <2>1, <2>2
  <2>4. f \notin S
    BY <1>1, <1>5 DEF Named, t
  <2>5. S \cup {f} \in SUBSET Functions /\ Functions' = Functions
    BY SameProgram
  <2>6. Named(S \cup {f})'
    <3>1. ASSUME NEW g \in S \cup {f}
          PROVE  \E k \in 1..Len(timers') : timers'[k] = FunctionTimer(g)
      <4>1. CASE g = f
        <5>1. Len(timers) + 1 \in 1..Len(timers')
          BY <2>3
        <5> QED BY <2>3, <4>1, <5>1 DEF t
      <4>2. CASE g \in S
        <5>1. PICK k \in 1..Len(timers) : timers[k] = FunctionTimer(g)
          BY <1>1, <4>2 DEF Named
        <5>2. k \in 1..Len(timers') /\ timers'[k] = timers[k]
          BY <2>3
        <5> QED BY <5>1, <5>2
      <4> QED BY <4>1, <4>2
    <3> QED BY <3>1, SameProgram DEF Named
  <2>7. IsFiniteSet(S)
    <3>1. IsFiniteSet(Nodes)
      BY TimersAssumption, FS_Interval DEF Nodes
    <3>2. S \subseteq Nodes
      BY DEF Functions
    <3> QED BY <3>1, <3>2, FS_Subset
  <2>8. Cardinality(S \cup {f}) = Cardinality(S) + 1
    BY <2>4, <2>7, FS_AddElement
  <2>9. Cardinality(S) \in Nat /\ Cardinality(TimedLoops) \in Nat
    <3>1. IsFiniteSet(Nodes)
      BY TimersAssumption, FS_Interval DEF Nodes
    <3>2. IsFiniteSet(TimedLoops)
      BY <3>1, FS_Subset DEF TimedLoops
    <3> QED BY <2>7, <3>2, FS_CardinalityType
  <2>10. Len(timers') = Cardinality(S \cup {f}) + Cardinality(TimedLoops')
    BY <1>1, <1>2, <2>3, <2>8, <2>9
  <2> QED BY <2>5, <2>6, <2>10 DEF Counted
<1> QED BY <1>4, <1>5

(* The loops of a block get as many names as they are. *)
LEMMA CountedBlock ==
  ASSUME Forest, Shape, IInv, Counted, NEW n \in Nodes, VisitBlock(n)
  PROVE  Counted'
<1> DEFINE dos == Children(n) \cap Loops
<1>1. PICK S \in SUBSET Functions : Named(S) /\ Len(timers) = Cardinality(S) + Cardinality(TimedLoops)
  BY DEF Counted
<1>2. PICK T : timers \in Seq(T)
  BY DEF IInv
<1>3. /\ Len(timers) \in Nat /\ Len(timers') = Len(timers) + Cardinality(dos)
      /\ \A k \in 1..Len(timers) : timers'[k] = timers[k]
      /\ Cardinality(dos) \in Nat
  BY <1>2, BlockTimers
<1>4. /\ UNCHANGED program /\ visited' = visited \cup {n} /\ n \notin visited
  BY DEF VisitBlock, Insert
<1>5. TimedLoops' = TimedLoops \cup dos /\ TimedLoops \cap dos = {}
  BY <1>4, SameProgram DEF TimedLoops, Timed, Children, Loops
<1>6. /\ IsFiniteSet(S) /\ IsFiniteSet(TimedLoops) /\ IsFiniteSet(dos)
  <2>1. IsFiniteSet(Nodes)
    BY TimersAssumption, FS_Interval DEF Nodes
  <2>2. S \subseteq Nodes /\ TimedLoops \subseteq Nodes /\ dos \subseteq Nodes
    BY DEF Functions, TimedLoops, Loops
  <2> QED BY <2>1, <2>2, FS_Subset
<1> HIDE DEF dos
<1>7. Cardinality(TimedLoops \cup dos) = Cardinality(TimedLoops) + Cardinality(dos)
  <2>1. Cardinality(TimedLoops \cup dos) = Cardinality(TimedLoops) + Cardinality(dos) - Cardinality(TimedLoops \cap dos)
    BY <1>6, FS_Union
  <2>2. Cardinality(TimedLoops \cap dos) = 0
    BY <1>5, FS_EmptySet
  <2>3. Cardinality(TimedLoops) \in Nat /\ Cardinality(dos) \in Nat
    BY <1>6, FS_CardinalityType
  <2> QED BY <2>1, <2>2, <2>3
<1>8. Cardinality(S) \in Nat /\ Cardinality(TimedLoops) \in Nat
  BY <1>6, FS_CardinalityType
<1>9. Len(timers') = Cardinality(S) + Cardinality(TimedLoops')
  BY <1>1, <1>3, <1>5, <1>7, <1>8
<1>10. Named(S)'
  <2>1. ASSUME NEW g \in S
        PROVE  \E k \in 1..Len(timers') : timers'[k] = FunctionTimer(g)
    <3>1. PICK k \in 1..Len(timers) : timers[k] = FunctionTimer(g)
      BY <1>1 DEF Named
    <3>2. k \in 1..Len(timers') /\ timers'[k] = timers[k]
      BY <1>3
    <3> QED BY <3>1, <3>2
  <2> QED BY <1>4, <2>1, SameProgram DEF Named
<1> QED BY <1>4, <1>9, <1>10, SameProgram DEF Counted

(* Every step keeps count. *)
LEMMA NextCounted ==
  ASSUME Forest, Shape, IInv, Counted, [Next]_vars
  PROVE  Counted'
<1>1. ASSUME UNCHANGED <<program, timers>>, TimedLoops' = TimedLoops
      PROVE  Counted'
  <2>1. \A S : Named(S)' = Named(S)
    BY <1>1, SameProgram DEF Named
  <2> QED BY <1>1, <2>1, SameProgram DEF Counted
<1>2. ASSUME UNCHANGED <<program, timers, visited>>
      PROVE  Counted'
  <2>1. TimedLoops' = TimedLoops
    BY <1>2, SameProgram DEF TimedLoops, Timed
  <2> QED BY <1>1, <1>2, <2>1
<1>3. ASSUME NEW n \in Nodes, VisitOther(n)
      PROVE  Counted'
  <2>1. /\ UNCHANGED program /\ timers' = timers /\ visited' = visited \cup {n} /\ label[n] \notin Blocks
    BY <1>3 DEF VisitOther, inserted
  <2>2. TimedLoops' = TimedLoops
    BY <2>1, SameTimed DEF TimedLoops
  <2> QED BY <1>1, <2>1, <2>2
<1>4. ASSUME NEW n \in Nodes, VisitReturn(n)
      PROVE  Counted'
  <2>1. /\ UNCHANGED program /\ visited' = visited \cup {n} /\ label[n] \notin Blocks
        /\ timers' = Numbered(timers, FunctionTimer(Enclosing(n)))
    BY <1>4 DEF VisitReturn, Insert, Blocks
  <2>2. \A m \in Nodes : Timed(m)' = Timed(m)
    BY <2>1, SameTimed
  <2>3. Enclosing(n) \in Functions
    BY EnclosingIs
  <2> QED BY <2>1, <2>2, <2>3, CountedOne
<1>5. ASSUME NEW n \in Nodes, Wrap(n)
      PROVE  Counted'
  <2>1. UNCHANGED <<program, visited>> /\ n \in Functions
        /\ (timers' = timers \/ timers' = Numbered(timers, FunctionTimer(n)))
    BY <1>5 DEF Wrap, inserted
  <2>2. \A m \in Nodes : Timed(m)' = Timed(m)
    BY <2>1, SameProgram DEF Timed
  <2> QED BY <1>2, <2>1, <2>2, CountedOne
<1>6. ASSUME UNCHANGED <<program, visited, inserted>>
      PROVE  Counted'
  BY <1>2, <1>6 DEF inserted
<1>7. CASE UNCHANGED vars
  BY <1>6, <1>7 DEF vars
<1>8. ASSUME NEW n \in Nodes, Enter(n) \/ Statement(n) \/ Continue(n)
      PROVE  Counted'
  BY <1>6, <1>8 DEF Enter, Statement, Continue
<1>9. ASSUME NEW n \in Nodes, NEW side, NEW k, Perform(n, side, k)
      PROVE  Counted'
  BY <1>6, <1>9 DEF Perform
<1>10. CASE EndInsert \/ Generate
  BY <1>6, <1>10 DEF EndInsert, Generate
<1> QED BY <1>3, <1>4, <1>5, <1>7, <1>8, <1>9, <1>10, CountedBlock DEF Next

-------------------------------------------------------------------------------
\* What TypeOK says of the names, the declarations and the clock.
Types ==
  /\ \A k \in DOMAIN timers : timers[k] \in TimerNames
  /\ \A n \in Nodes : decls[n] \subseteq TimerVars
  /\ \A t \in DOMAIN clock : clock[t] \in {"unset", "started", "ended", "recorded", "bad"}

LEMMA TimersNamed ==
  ASSUME Forest, NEW f \in Functions
  PROVE  /\ FunctionTimer(f) \in TimerNames
         /\ \A num \in 0..Size : LoopTimer(f, num) \in TimerNames
<1>1. fname[f] \in Names
  BY DEF Forest
<1> QED BY <1>1 DEF FunctionTimer, LoopTimer, TimerNames

LEMMA VarsNamed ==
  ASSUME NEW t \in TimerNames
  PROVE  <<"start", t>> \in TimerVars /\ <<"end", t>> \in TimerVars
BY DEF TimerVars

(* A new number has a name of the right kind. *)
LEMMA NumberedNamed ==
  ASSUME IInv, \A k \in DOMAIN timers : timers[k] \in TimerNames, NEW t \in TimerNames,
         timers' = Numbered(timers, t)
  PROVE  \A k \in DOMAIN timers' : timers'[k] \in TimerNames
<1>1. PICK T : timers \in Seq(T)
  BY DEF IInv
<1>2. CASE timers' = timers
  BY <1>2
<1>3. CASE timers' = Append(timers, t)
  <2>1. timers \in Seq(T \cup {t}) /\ t \in T \cup {t} /\ DOMAIN timers = 1..Len(timers) /\ Len(timers) \in Nat
    BY <1>1
  <2>2. /\ DOMAIN timers' = 1..Len(timers) + 1 /\ timers'[Len(timers) + 1] = t
        /\ \A k \in 1..Len(timers) : timers'[k] = timers[k]
    BY <1>3, <2>1
  <2>3. \A k \in DOMAIN timers' : k \in 1..Len(timers) \/ k = Len(timers) + 1
    BY <2>1, <2>2
  <2> QED BY <2>1, <2>2, <2>3
<1> QED BY <1>2, <1>3 DEF Numbered

(* Every step keeps the types; names are numbers up to Size, as they are counted. *)
LEMMA NextTypes ==
  ASSUME Forest, Shape, IInv, Types, Len(timers') <= Size, [Next]_vars
  PROVE  Types'
<1>1. Shape /\ decls = [n \in Nodes |-> decls[n]]
  BY DEF Shape
<1>2. ASSUME UNCHANGED <<inserted, clock>>
      PROVE  Types'
  BY <1>2 DEF Types, inserted
<1>3. CASE UNCHANGED vars
  BY <1>2, <1>3 DEF vars
<1>4. ASSUME NEW n \in Nodes, VisitOther(n) \/ Statement(n) \/ Continue(n)
      PROVE  Types'
  BY <1>2, <1>4 DEF VisitOther, Statement, Continue
<1>5. CASE EndInsert \/ Generate
  BY <1>2, <1>5 DEF EndInsert, Generate
<1>6. ASSUME NEW n \in Nodes, VisitReturn(n)
      PROVE  Types'
  <2> DEFINE t == FunctionTimer(Enclosing(n))
  <2>1. /\ timers' = Numbered(timers, t) /\ decls' = [decls EXCEPT ![n] = {<<"end", t>>}]
        /\ clock' = clock
    BY <1>6 DEF VisitReturn
  <2>2. t \in TimerNames
    BY EnclosingIs, TimersNamed
  <2> HIDE DEF t
  <2>3. \A k \in DOMAIN timers' : timers'[k] \in TimerNames
    BY <2>1, <2>2, NumberedNamed DEF Types
  <2>4. decls' = [m \in Nodes |-> IF m = n THEN {<<"end", t>>} ELSE decls[m]]
    BY <1>1, <2>1
  <2>5. \A m \in Nodes : decls'[m] \subseteq TimerVars
    BY <2>2, <2>4, VarsNamed DEF Types
  <2>6. TimerNames' = TimerNames /\ TimerVars' = TimerVars
    BY DEF TimerNames, TimerVars
  <2> QED BY <2>1, <2>3, <2>5, <2>6 DEF Types
<1>7. ASSUME NEW f \in Nodes, Wrap(f)
      PROVE  Types'
  <2> DEFINE t == FunctionTimer(f)
  <2>1. CASE Children(f) = {}
    BY <1>2, <1>7, <2>1 DEF Wrap
  <2>2. CASE Children(f) # {}
    <3>1. /\ timers' = Numbered(timers, t) /\ clock' = clock /\ f \in Functions
          /\ decls' = [decls EXCEPT ![f] = @ \cup {<<"start", t>>, <<"end", t>>}]
      BY <1>7, <2>2 DEF Wrap
    <3>2. t \in TimerNames
      BY <3>1, TimersNamed
    <3> HIDE DEF t
    <3>3. \A k \in DOMAIN timers' : timers'[k] \in TimerNames
      BY <3>1, <3>2, NumberedNamed DEF Types
    <3>4. decls' = [m \in Nodes |-> IF m = f THEN decls[f] \cup {<<"start", t>>, <<"end", t>>} ELSE decls[m]]
      BY <1>1, <3>1
    <3>5. \A m \in Nodes : decls'[m] \subseteq TimerVars
      BY <3>2, <3>4, VarsNamed DEF Types
    <3>6. TimerNames' = TimerNames /\ TimerVars' = TimerVars
      BY DEF TimerNames, TimerVars
    <3> QED BY <3>1, <3>3, <3>5, <3>6 DEF Types
  <2> QED BY <2>1, <2>2
<1>8. ASSUME NEW n \in Nodes, VisitBlock(n)
      PROVE  Types'
  <2> DEFINE dos == Children(n) \cap Loops
             Timer(c) == LoopTimer(Enclosing(n), LoopNumber(n, c))
             size == Cardinality(dos)
             old == Len(timers)
  <2>1. PICK S : timers \in Seq(S)
    BY DEF IInv
  <2>2. /\ old \in Nat /\ size \in Nat
        /\ \A c \in dos : LoopNumber(n, c) \in old..old + size - 1
        /\ \E T : timers' \in Seq(T)
        /\ Len(timers') = old + size
        /\ \A k \in 1..old : timers'[k] = timers[k]
        /\ \A k \in old + 1..old + size : timers'[k] = LoopTimer(Enclosing(n), k - 1)
    BY <1>8, <2>1, BlockTimers
  <2>3. old + size <= Size /\ Size \in Nat
    BY <2>2, TimersAssumption
  <2>4. \A num \in 0..Size : LoopTimer(Enclosing(n), num) \in TimerNames
    BY EnclosingIs, TimersNamed
  <2>5. /\ clock' = clock
        /\ decls' = [decls EXCEPT ![n] = Collected(n) \cup {"start", "end"} \X {Timer(c) : c \in dos}]
    BY <1>8 DEF VisitBlock
  <2>6. DOMAIN timers = 1..old
    BY <2>1
  <2> HIDE DEF dos, size, old
  <2>7. \A k \in DOMAIN timers' : timers'[k] \in TimerNames
    <3>1. DOMAIN timers' = 1..old + size
      BY <2>2
    <3>2. \A k \in 1..old + size : k \in 1..old \/ (k \in old + 1..old + size /\ k - 1 \in 0..Size)
      BY <2>2, <2>3
    <3>3. \A k \in 1..old : timers[k] \in TimerNames
      BY <2>6 DEF Types
    <3> QED BY <2>2, <2>4, <3>1, <3>2, <3>3
  <2>8. \A c \in dos : Timer(c) \in TimerNames
    <3>1. \A c \in dos : LoopNumber(n, c) \in 0..Size
      BY <2>2, <2>3
    <3> QED BY <2>4, <3>1
  <2> HIDE DEF Timer
  <2>9. Collected(n) \subseteq TimerVars
    BY DEF Collected, Children, Types
  <2>10. decls' = [m \in Nodes |-> IF m = n THEN Collected(n) \cup {"start", "end"} \X {Timer(c) : c \in dos} ELSE decls[m]]
    BY <1>1, <2>5
  <2>11. {"start", "end"} \X {Timer(c) : c \in dos} \subseteq TimerVars
    BY <2>8 DEF TimerVars
  <2>12. \A m \in Nodes : decls'[m] \subseteq TimerVars
    BY <2>9, <2>10, <2>11 DEF Types
  <2>13. TimerNames' = TimerNames /\ TimerVars' = TimerVars
    BY DEF TimerNames, TimerVars
  <2> QED BY <2>5, <2>7, <2>12, <2>13 DEF Types
<1>9. ASSUME NEW n \in Nodes, Enter(n)
      PROVE  Types'
  BY <1>9 DEF Enter, Types, inserted
<1>10. ASSUME NEW n \in Nodes, NEW side \in {"before", "after"}, NEW k \in 1..Len(Calls(n, side)),
              Perform(n, side, k)
       PROVE  Types'
  <2> DEFINE c == Calls(n, side)[k]
  <2>1. UNCHANGED inserted /\ clock' = Effect(c)
    BY <1>10 DEF Perform
  <2>2. k \in DOMAIN Calls(n, side)
    BY CallsLen
  <2>3. c \in CallsAt(n)
    BY <2>2 DEF Calls, CallsAt
  <2>4. c.op \in {"start", "end", "record", "declare"}
    BY <2>3, OpsOf
  <2> HIDE DEF c
  <2>5. \A t \in DOMAIN clock' : clock'[t] \in {"unset", "started", "ended", "recorded", "bad"}
    <3>1. CASE c.op = "declare"
      BY <2>1, <3>1 DEF Effect, Types
    <3>2. CASE c.op = "start"
      BY <2>1, <3>2 DEF Effect, Types
    <3>3. CASE c.op = "end"
      BY <2>1, <3>3 DEF Effect, Types
    <3>4. CASE c.op = "record"
      BY <2>1, <3>4 DEF Effect, Types
    <3> QED BY <2>4, <3>1, <3>2, <3>3, <3>4
  <2> QED BY <2>1, <2>5 DEF Types, inserted
<1> QED BY <1>3, <1>4, <1>5, <1>6, <1>7, <1>8, <1>9, <1>10 DEF Next

(* TypeOK, from its parts. *)
LEMMA TypesHold ==
  ASSUME Forest, Shape, Place, Counted, Types
  PROVE  TypeOK
<1>1. Len(timers) <= Size
  BY EnoughNumbers
<1>2. at # <<>> => at[1] \in Nodes /\ at[2] \in {"before", "after", "exit"}
  BY DEF Place, AtCall, AtExit
<1> QED BY <1>1, <1>2 DEF TypeOK, Types, Shape

-------------------------------------------------------------------------------
\* What every step keeps, put together.
RunInv == Forest /\ Shape /\ IInv /\ Place /\ Counted

(* It always holds. *)
LEMMA AlwaysRun == Spec => []RunInv
<1>1. Init => RunInv
  <2> SUFFICES ASSUME Init PROVE RunInv
    OBVIOUS
  <2>1. Forest /\ Shape
    BY InitShape
  <2>2. IInv
    BY InitIInv
  <2>3. Place
    BY DEF Init, Place
  <2>4. TimedLoops = {} /\ Len(timers) = 0
    BY DEF Init, TimedLoops, Timed
  <2>5. Counted
    <3>1. Named({}) /\ Cardinality({}) = 0
      BY FS_EmptySet DEF Named
    <3> QED BY <2>4, <3>1 DEF Counted
  <2> QED BY <2>1, <2>2, <2>3, <2>5 DEF RunInv
<1>2. RunInv /\ [Next]_vars => RunInv'
  BY NextShape, NextIInv, NextPlace, NextCounted DEF RunInv
<1> QED BY <1>1, <1>2, PTL DEF Spec

(* Types: among others there are never more names of timers than statements,   *)
(* so that a loop's number is one, and no call mentions another name            *)
(* (TimeInstrumentor::timerNum).                                                *)
THEOREM TimersTypes == Spec => []TypeOK
<1>1. RunInv => Len(timers) <= Size
  BY EnoughNumbers DEF RunInv
<1>2. Init => Types
  BY DEF Init, Types
<1>3. RunInv /\ (Len(timers) <= Size)' /\ Types /\ [Next]_vars => Types'
  BY NextTypes DEF RunInv
<1>4. Spec => []Types
  BY <1>1, <1>2, <1>3, AlwaysRun, PTL DEF Spec
<1>5. RunInv /\ Types => TypeOK
  BY TypesHold DEF RunInv
<1> QED BY <1>4, <1>5, AlwaysRun, PTL

(* Whatever the program, a function's calls mention declared variables only,   *)
(* declared once, behind the specification statements and in front of all      *)
(* calls, provided the first actual statement is an executable one             *)
(* (TimeInstrumentor::visit of functions).                                      *)
THEOREM TimersDeclaredFirst == Spec => []DeclaredFirst
<1>1. RunInv => DeclaredFirst
  BY DeclaredFirstHolds DEF RunInv
<1> QED BY <1>1, AlwaysRun, PTL

-------------------------------------------------------------------------------
\* The function's timer, at a place in it.
FunctionClock(n, side, k) ==
  LET f == Enclosing(n) IN
  IF n < First(f) \/ (n = First(f) /\ side = "before" /\ k <= 2) THEN "unset"
  ELSE IF side = "before" /\ Left(n) /\ k > Ahead(n) + 1
       THEN IF k = Ahead(n) + 2 THEN "ended" ELSE "recorded"
  ELSE IF side = "after" /\ Closes(n) /\ k > Behind(n) + 1
       THEN IF k = Behind(n) + 2 THEN "ended" ELSE "recorded"
  ELSE "started"

\* What the timer of loop l can be at a place.
LoopClock(l, n, side, k) ==
  IF n \in Inside(l) \/ (n = l /\ ((side = "before" /\ k > Ahead(n) + 1) \/ (side = "after" /\ k = 1)))
  THEN {"started"}
  ELSE IF n = l /\ side = "after" /\ k = 2 THEN {"ended"}
  ELSE {"unset", "recorded"}

(* The end of a function is not inside anything. *)
LEMMA FunctionInside ==
  ASSUME Forest, NEW l \in Nodes, NEW f \in Functions
  PROVE  f \notin Inside(l)
BY NodeFacts

(* When the program runs, every loop and every function has a timer. *)
LEMMA AllTimed ==
  ASSUME Forest, Shape, IInv, pass = "run"
  PROVE  \A l \in Loops :
           /\ l \in Nodes /\ Timed(l) /\ Len(TimerOf(l)) = 2
           /\ \E r \in Records(l) : r = RecordCall(TimerOf(l), r.num)
           /\ before[l][Len(before[l])].timer = TimerOf(l)
<1> TAKE l \in Loops
<1>1. visited = Nodes
  BY DEF Shape
<1>2. l \in Nodes /\ label[l] = "do" /\ l \notin Functions
  BY NodeFacts DEF Loops
<1>3. Timed(l)
  BY <1>1, <1>2, NodeFacts DEF Timed
<1>4. Before(l) /\ After(l)
  BY <1>2 DEF Shape
<1>5. Len(TimerOf(l)) = 2 /\ Len(before[l]) = Ahead(l) + 1
  BY <1>3, <1>4 DEF Before
<1>6. before[l][Len(before[l])].timer = TimerOf(l)
  BY <1>5 DEF TimerOf
<1>7. 2 \in DOMAIN after[l]
  <2>1. Len(after[l]) = 2 + IF Closes(l) THEN 2 ELSE IF Bare(l) THEN 4 ELSE 0
    BY <1>3, <1>4 DEF After, Behind
  <2>2. Len(after[l]) >= 2 /\ DOMAIN after[l] = 1..Len(after[l]) /\ Len(after[l]) \in Nat
    BY <1>2, <2>1, CallsLen DEF Calls
  <2> QED BY <2>2
<1>8. after[l][2] = RecordCall(TimerOf(l), after[l][2].num)
  BY <1>3, <1>4 DEF After, EndsTimer
<1>9. after[l][2] \in Records(l)
  BY <1>7, <1>8 DEF Records, CallsAt, RecordCall
<1> QED BY <1>2, <1>3, <1>5, <1>6, <1>8, <1>9

(* No two loops have one timer. *)
LEMMA TimersApart ==
  ASSUME Forest, Shape, IInv, pass = "run"
  PROVE  /\ \A l \in Loops : TimerOf(l) \in {timers[k] : k \in DOMAIN timers}
         /\ \A l, m \in Loops : TimerOf(l) = TimerOf(m) => l = m
<1>1. \A l \in Nodes : \A r \in Records(l) :
        r.num + 1 \in DOMAIN timers /\ timers[r.num + 1] = r.timer /\ r.num \in Nat
  <2>1. DOMAIN timers = 1..Len(timers) /\ Len(timers) \in Nat
    BY DEF IInv
  <2>2. \A i \in 0..Len(timers) - 1 : i + 1 \in 1..Len(timers) /\ i \in Nat
    BY <2>1
  <2> QED BY <2>1, <2>2 DEF IInv, Recorded
<1>2. \A t, i : RecordCall(t, i).timer = t
  BY DEF RecordCall
<1>3. \A l \in Loops : TimerOf(l) \in {timers[k] : k \in DOMAIN timers}
  BY <1>1, <1>2, AllTimed
<1>4. ASSUME NEW l \in Loops, NEW m \in Loops, TimerOf(l) = TimerOf(m), l # m
      PROVE  FALSE
  <2>1. PICK r \in Records(l) : r = RecordCall(TimerOf(l), r.num)
    BY AllTimed
  <2>2. PICK s \in Records(m) : s = RecordCall(TimerOf(m), s.num)
    BY AllTimed
  <2>3. r.timer = s.timer /\ l \in Nodes /\ m \in Nodes /\ Len(r.timer) = 2
    BY <1>2, <1>4, <2>1, <2>2, AllTimed
  <2>4. timers[r.num + 1] = timers[s.num + 1] /\ r.num \in Nat /\ s.num \in Nat
        /\ r.num + 1 \in 1..Len(timers) /\ s.num + 1 \in 1..Len(timers)
    <3>1. DOMAIN timers = 1..Len(timers)
      BY DEF IInv
    <3> QED BY <1>1, <2>3, <3>1
  <2>5. r.num = s.num
    <3>1. r.num + 1 = s.num + 1
      BY <2>4 DEF IInv, NumberedWell
    <3> QED BY <2>4, <3>1
  <2>6. r = s
    BY <1>4, <2>1, <2>2, <2>5
  <2>7. Len(r.timer) = 1
    BY <1>4, <2>6 DEF IInv
  <2> QED BY <2>3, <2>7
<1> QED BY <1>3, <1>4

(* Where the calls of a function with an actual statement are. *)
LEMMA Layout ==
  ASSUME Forest, Shape, IInv, pass = "run", NEW n \in Nodes \ Functions, Actual(Enclosing(n)) # {}
  PROVE  LET f == Enclosing(n) IN
         /\ f \in Functions /\ f \in Nodes /\ n \in Inside(f) /\ n \in Int
         /\ First(f) \in Nodes /\ First(f) \in Int /\ First(f) \in Children(f)
         /\ Last(f) \in Children(f) /\ Last(f) \in Nodes /\ Last(f) >= First(f)
         /\ n = First(f) => Opens(n) /\ Ahead(n) = 2
         /\ n # First(f) => ~Opens(n) /\ Ahead(n) = 0
         /\ Closes(n) <=> n = Last(f) /\ label[n] # "return"
         /\ ~Bare(n)
         /\ Timed(n) <=> n \in Loops
         /\ Left(n) <=> label[n] = "return"
         /\ n \in Loops => Behind(n) = 2
         /\ n \notin Loops => Behind(n) = 0
         /\ label[n] # "declaration" => First(f) <= n
         /\ n < First(f) => parent[n] = f
         /\ Len(before[n]) = Ahead(n) + IF n \in Loops THEN 1 ELSE IF label[n] = "return" THEN 2 ELSE 0
         /\ Len(after[n]) = Behind(n) + IF Closes(n) THEN 2 ELSE 0
<1> DEFINE f == Enclosing(n)
<1>1. f \in Functions /\ f \in Nodes /\ n \in Inside(f) /\ n \in Int
  BY EnclosingIs, NodeFacts
<1>2. /\ First(f) \in Children(f) /\ First(f) \in Nodes
      /\ Last(f) \in Children(f) /\ Last(f) \in Nodes /\ First(f) <= Last(f)
      /\ \A m \in Inside(f) : m < First(f) => parent[m] = f /\ label[m] = "declaration"
  BY <1>1, BeforeFirst
<1>3. First(f) \in Int /\ Last(f) \in Int
  BY <1>2, NodeFacts
<1>4. visited = Nodes /\ wrapped = Functions
  BY DEF Shape
<1>5. ~Bare(n) /\ (Opens(n) => n = First(f)) /\ (Closes(n) => n = Last(f))
  BY EndsOf
<1>6. n = First(f) => Opens(n)
  BY <1>1, <1>4 DEF Opens
<1>7. Closes(n) <=> n = Last(f) /\ label[n] # "return"
  BY <1>1, <1>4, <1>5 DEF Closes
<1>8. (Timed(n) <=> n \in Loops) /\ (Left(n) <=> label[n] = "return")
  BY <1>4, NodeFacts DEF Timed, Left, Loops
<1>9. /\ n = First(f) => Opens(n) /\ Ahead(n) = 2
      /\ n # First(f) => ~Opens(n) /\ Ahead(n) = 0
      /\ n \in Loops => Behind(n) = 2
      /\ n \notin Loops => Behind(n) = 0
  BY <1>5, <1>6, <1>8 DEF Ahead, Behind
<1>10. label[n] # "declaration" => First(f) <= n
  BY <1>1, <1>2, <1>3
<1>11. Before(n) /\ After(n)
  BY DEF Shape
<1>12. /\ Len(before[n]) = Ahead(n) + IF n \in Loops THEN 1 ELSE IF label[n] = "return" THEN 2 ELSE 0
       /\ Len(after[n]) = Behind(n) + IF Closes(n) THEN 2 ELSE 0
  BY <1>5, <1>8, <1>11 DEF Before, After
<1> QED BY <1>1, <1>2, <1>3, <1>5, <1>7, <1>8, <1>9, <1>10, <1>12

(* The timer of a function with an actual statement has a number. *)
LEMMA FunctionTimed ==
  ASSUME Forest, Shape, IInv, pass = "run", NEW f \in Functions, Actual(f) # {}
  PROVE  /\ FunctionTimer(f) \in {timers[k] : k \in DOMAIN timers}
         /\ Len(FunctionTimer(f)) = 1
<1>1. PICK n : n = Last(f)
  OBVIOUS
<1>2. n \in Children(f) /\ n \in Nodes /\ Enclosing(n) = f
  BY <1>1, BeforeFirst
<1>3. f \in Nodes
  BY DEF Functions
<1>4. n \in Nodes \ Functions
  BY <1>2, <1>3, NodeFacts
<1>5. /\ Left(n) <=> label[n] = "return"
      /\ Closes(n) <=> n = Last(f) /\ label[n] # "return"
  BY <1>2, <1>4, Layout
<1>6. Before(n) /\ After(n)
  BY <1>2 DEF Shape
<1>7. PICK r \in Records(n) : r.timer = FunctionTimer(f)
  <2>1. CASE label[n] = "return"
    <3>1. Ahead(n) + 2 \in DOMAIN before[n]
      <4>1. Len(before[n]) = Ahead(n) + 2 /\ Ahead(n) \in {0, 2}
        BY <1>5, <1>6, <2>1 DEF Before, Left, Timed, Ahead
      <4>2. DOMAIN before[n] = 1..Len(before[n])
        BY <1>2, CallsLen DEF Calls
      <4> QED BY <4>1, <4>2
    <3>2. LET c == before[n][Ahead(n) + 2] IN c = RecordCall(FunctionTimer(f), c.num)
      BY <1>2, <1>5, <1>6, <2>1 DEF Before, EndsTimer
    <3>3. before[n][Ahead(n) + 2] \in Records(n)
      BY <3>1, <3>2 DEF Records, CallsAt, RecordCall
    <3> QED BY <3>2, <3>3 DEF RecordCall
  <2>2. CASE label[n] # "return"
    <3>1. Behind(n) + 2 \in DOMAIN after[n]
      <4>1. Len(after[n]) = Behind(n) + 2 /\ Behind(n) \in {0, 2}
        BY <1>1, <1>5, <1>6, <2>2 DEF After, Behind
      <4>2. DOMAIN after[n] = 1..Len(after[n])
        BY <1>2, CallsLen DEF Calls
      <4> QED BY <4>1, <4>2
    <3>2. LET c == after[n][Behind(n) + 2] IN c = RecordCall(FunctionTimer(f), c.num)
      BY <1>1, <1>2, <1>5, <1>6, <2>2 DEF After, EndsTimer
    <3>3. after[n][Behind(n) + 2] \in Records(n)
      BY <3>1, <3>2 DEF Records, CallsAt, RecordCall
    <3> QED BY <3>2, <3>3 DEF RecordCall
  <2> QED BY <2>1, <2>2
<1>8. r.num \in 0..Len(timers) - 1 /\ timers[r.num + 1] = r.timer
  BY <1>2, <1>7 DEF IInv, Recorded
<1>9. DOMAIN timers = 1..Len(timers) /\ Len(timers) \in Nat
  BY DEF IInv
<1>10. r.num + 1 \in DOMAIN timers
  BY <1>8, <1>9
<1> QED BY <1>7, <1>8, <1>10, FunctionTimerLen

-------------------------------------------------------------------------------
\* The timers at a place, and at the end of an activation.
ClocksAt(n, side, k) ==
  /\ clock[FunctionTimer(Enclosing(n))] = FunctionClock(n, side, k)
  /\ \A l \in Loops : clock[TimerOf(l)] \in LoopClock(l, n, side, k)
ClocksEnd(n) ==
  /\ clock[FunctionTimer(Enclosing(n))] = "recorded"
  /\ \A l \in Loops : clock[TimerOf(l)] \in IF n \in Inside(l) THEN {"started"} ELSE {"unset", "recorded"}

\* Every place an activation can be at determines its timers, however it got
\* there.
OnPath ==
  at # <<>> /\ Actual(Enclosing(at[1])) # {} =>
    /\ \A t \in DOMAIN clock : clock[t] # "bad"
    /\ \A n, side, k : AtCall(n, side, k) => ClocksAt(n, side, k)
    /\ \A n : AtExit(n) => ClocksEnd(n)

(* What a step of the execution does not change. *)
LEMMA SameRun ==
  ASSUME UNCHANGED <<program, pass, visited, wrapped, inserted>>
  PROVE  /\ \A n, side, k : FunctionClock(n, side, k)' = FunctionClock(n, side, k)
         /\ \A l, n, side, k : LoopClock(l, n, side, k)' = LoopClock(l, n, side, k)
         /\ \A l : TimerOf(l)' = TimerOf(l)
         /\ pass' = pass
<1>1. \A n : /\ Opens(n)' = Opens(n) /\ Closes(n)' = Closes(n)
             /\ Timed(n)' = Timed(n) /\ Left(n)' = Left(n)
  BY SameProgram DEF Opens, Closes, Timed, Left
<1>2. \A n : Ahead(n)' = Ahead(n) /\ Behind(n)' = Behind(n)
  BY <1>1 DEF Ahead, Behind
<1>3. \A n : TimerOf(n)' = TimerOf(n)
  BY <1>2 DEF TimerOf, inserted
<1>4. \A n, side, k : FunctionClock(n, side, k)' = FunctionClock(n, side, k)
  BY <1>1, <1>2, SameProgram DEF FunctionClock
<1>5. \A l, n, side, k : LoopClock(l, n, side, k)' = LoopClock(l, n, side, k)
  BY <1>2, SameProgram DEF LoopClock
<1> QED BY <1>3, <1>4, <1>5

(* Arriving at a place with the timers as they should be. *)
LEMMA Arrive ==
  ASSUME UNCHANGED <<program, pass, visited, wrapped, inserted>>,
         NEW m, NEW s, NEW j, at' = <<m, s, j>>,
         Actual(Enclosing(m)) # {} =>
           /\ \A t \in DOMAIN clock' : clock'[t] # "bad"
           /\ clock'[FunctionTimer(Enclosing(m))] = FunctionClock(m, s, j)
           /\ \A l \in Loops : clock'[TimerOf(l)] \in LoopClock(l, m, s, j)
  PROVE  OnPath'
<1>1. SUFFICES ASSUME Actual(Enclosing(at[1]))' # {}
               PROVE  /\ \A t \in DOMAIN clock' : clock'[t] # "bad"
                      /\ \A n, side, k : AtCall(n, side, k)' => ClocksAt(n, side, k)'
                      /\ \A n : AtExit(n)' => ClocksEnd(n)'
  BY DEF OnPath
<1>3. Actual(Enclosing(m)) # {}
  <2>1. at'[1] = m
    OBVIOUS
  <2>2. Actual(Enclosing(at[1]))' = Actual(Enclosing(m))
    BY <2>1, SameProgram DEF Actual, Enclosing
  <2> QED BY <1>1, <2>2
<1>4. ASSUME NEW n, AtExit(n)' PROVE FALSE
  <2>1. at' = <<n, "exit">>
    BY <1>4 DEF AtExit
  <2>2. Len(at') = 3
    OBVIOUS
  <2>3. Len(at') = 2
    BY <2>1
  <2> QED BY <2>2, <2>3
<1>5. ASSUME NEW n, NEW side, NEW k, AtCall(n, side, k)'
      PROVE  ClocksAt(n, side, k)'
  <2>1. n = m /\ side = s /\ k = j
    BY <1>5 DEF AtCall
  <2>2. FunctionTimer(Enclosing(m))' = FunctionTimer(Enclosing(m))
    BY SameProgram DEF FunctionTimer
  <2> QED BY <1>3, <2>1, <2>2, SameRun, SameProgram DEF ClocksAt
<1> QED BY <1>3, <1>4, <1>5

(* The same at the end. *)
LEMMA ArriveEnd ==
  ASSUME UNCHANGED <<program, pass, visited, wrapped, inserted>>,
         NEW m, at' = <<m, "exit">>,
         Actual(Enclosing(m)) # {} =>
           /\ \A t \in DOMAIN clock' : clock'[t] # "bad"
           /\ clock'[FunctionTimer(Enclosing(m))] = "recorded"
           /\ \A l \in Loops : clock'[TimerOf(l)] \in IF m \in Inside(l) THEN {"started"} ELSE {"unset", "recorded"}
  PROVE  OnPath'
<1>1. SUFFICES ASSUME Actual(Enclosing(at[1]))' # {}
               PROVE  /\ \A t \in DOMAIN clock' : clock'[t] # "bad"
                      /\ \A n, side, k : AtCall(n, side, k)' => ClocksAt(n, side, k)'
                      /\ \A n : AtExit(n)' => ClocksEnd(n)'
  BY DEF OnPath
<1>3. Actual(Enclosing(m)) # {}
  <2>1. at'[1] = m
    OBVIOUS
  <2>2. Actual(Enclosing(at[1]))' = Actual(Enclosing(m))
    BY <2>1, SameProgram DEF Actual, Enclosing
  <2> QED BY <1>1, <2>2
<1>4. ASSUME NEW n, NEW side, NEW k, AtCall(n, side, k)' PROVE FALSE
  <2>1. at' = <<n, side, k>>
    BY <1>4 DEF AtCall
  <2>2. Len(at') = 2
    OBVIOUS
  <2>3. Len(at') = 3
    BY <2>1
  <2> QED BY <2>2, <2>3
<1>5. ASSUME NEW n, AtExit(n)'
      PROVE  ClocksEnd(n)'
  <2>1. n = m
    BY <1>5 DEF AtExit
  <2>2. FunctionTimer(Enclosing(m))' = FunctionTimer(Enclosing(m))
    BY SameProgram DEF FunctionTimer
  <2> QED BY <1>3, <2>1, <2>2, SameRun, SameProgram DEF ClocksEnd
<1> QED BY <1>3, <1>4, <1>5

(* What is known at a place. *)
LEMMA OnPathAt ==
  ASSUME OnPath, NEW n, NEW side, NEW k, AtCall(n, side, k), Actual(Enclosing(n)) # {}
  PROVE  ClocksAt(n, side, k) /\ \A t \in DOMAIN clock : clock[t] # "bad"
<1>1. at = <<n, side, k>>
  BY DEF AtCall
<1>2. at # <<>> /\ at[1] = n
  BY <1>1
<1> QED BY <1>2 DEF OnPath

-------------------------------------------------------------------------------
(* Each step of the execution arrives with the right timers. *)
LEMMA EnterOnPath ==
  ASSUME Forest, Shape, IInv, NEW f \in Nodes, Enter(f)
  PROVE  OnPath'
<1>1. /\ pass = "run" /\ f \in Functions /\ at' = <<Least(Children(f)), "before", 1>>
      /\ UNCHANGED <<program, pass, visited, wrapped, inserted>>
      /\ clock' = [t \in {timers[k] : k \in DOMAIN timers} |-> "unset"]
  BY DEF Enter
<1>2. PICK c : c = Least(Children(f))
  OBVIOUS
<1>3. f \in wrapped
  BY <1>1 DEF Shape
<1>4. Children(f) # {} /\ Children(f) \subseteq Nodes
  BY <1>3, NodeFacts DEF Shape
<1>5. c \in Children(f) /\ c \in Nodes \ Functions /\ Enclosing(c) = f /\ \A y \in Children(f) : c <= y
  <2>1. c \in Children(f) /\ \A y \in Children(f) : c <= y
    BY <1>2, <1>4, LeastIs
  <2> QED BY <1>1, <2>1, NodeFacts, EnclosingChild
<1>6. ASSUME Actual(f) # {}
      PROVE  /\ \A t \in DOMAIN clock' : clock'[t] # "bad"
             /\ clock'[FunctionTimer(f)] = FunctionClock(c, "before", 1)
             /\ \A l \in Loops : clock'[TimerOf(l)] \in LoopClock(l, c, "before", 1)
  <2>1. FunctionTimer(f) \in {timers[k] : k \in DOMAIN timers}
    BY <1>1, <1>6, FunctionTimed
  <2>2. \A l \in Loops : l \in Nodes /\ TimerOf(l) \in {timers[k] : k \in DOMAIN timers}
    BY <1>1, AllTimed, TimersApart
  <2>3. FunctionClock(c, "before", 1) = "unset"
    <3>1. First(f) \in Children(f) /\ First(f) \in Int /\ c \in Int
      BY <1>1, <1>5, <1>6, Layout
    <3>2. c < First(f) \/ c = First(f)
      BY <1>5, <3>1
    <3> QED BY <1>5, <3>2 DEF FunctionClock
  <2>4. ASSUME NEW l \in Loops
        PROVE  "unset" \in LoopClock(l, c, "before", 1)
    <3>1. c \notin Inside(l)
      <4>1. l \notin Functions /\ l \in Nodes
        BY <2>2, NodeFacts DEF Loops
      <4>2. f # l /\ f \notin Inside(l)
        BY <1>1, <4>1, FunctionInside
      <4> QED BY <1>5, <4>1, <4>2, ChildWithParent
    <3>2. ~(1 > Ahead(c) + 1)
      BY DEF Ahead
    <3> QED BY <3>1, <3>2 DEF LoopClock
  <2> QED BY <1>1, <2>1, <2>2, <2>3, <2>4
<1> QED BY <1>1, <1>2, <1>5, <1>6, Arrive

LEMMA StatementOnPath ==
  ASSUME Forest, Shape, IInv, Place, OnPath, NEW n \in Nodes, Statement(n)
  PROVE  OnPath'
<1> DEFINE f == Enclosing(n)
<1>1. /\ at = <<n, "before", Len(before[n]) + 1>>
      /\ UNCHANGED <<program, pass, visited, wrapped, inserted, clock>>
  BY DEF Statement
<1>2. PICK k : k = Len(before[n]) + 1
  OBVIOUS
<1>3. AtCall(n, "before", k) /\ pass = "run" /\ n \in Nodes \ Functions
  <2>1. AtCall(n, "before", k) /\ pass = "run"
    BY <1>1, <1>2, PlaceIs
  <2> QED BY <2>1 DEF AtCall
<1>4. \A l \in Loops : l \in Nodes /\ l \notin Functions
  BY <1>3, AllTimed, NodeFacts DEF Loops
<1>5. ASSUME Actual(f) # {}
      PROVE  /\ \A t \in DOMAIN clock : clock[t] # "bad"
             /\ clock[FunctionTimer(f)] = FunctionClock(n, "before", k)
             /\ \A l \in Loops : clock[TimerOf(l)] \in LoopClock(l, n, "before", k)
             /\ k = Ahead(n) + IF n \in Loops THEN 2 ELSE IF label[n] = "return" THEN 3 ELSE 1
             /\ FunctionClock(n, "before", k) = IF n < First(f) THEN "unset"
                                                ELSE IF label[n] = "return" THEN "recorded" ELSE "started"
             /\ n \in Int /\ First(f) \in Int /\ (label[n] # "declaration" => First(f) <= n)
             /\ Ahead(n) \in {0, 2} /\ Behind(n) \in {0, 2}
  <2>1. ClocksAt(n, "before", k) /\ \A t \in DOMAIN clock : clock[t] # "bad"
    BY <1>3, <1>5, OnPathAt
  <2>2. /\ n = First(f) => Ahead(n) = 2
        /\ n # First(f) => Ahead(n) = 0
        /\ Left(n) <=> label[n] = "return"
        /\ Len(before[n]) = Ahead(n) + IF n \in Loops THEN 1 ELSE IF label[n] = "return" THEN 2 ELSE 0
        /\ n \in Int /\ First(f) \in Int /\ (label[n] # "declaration" => First(f) <= n)
        /\ n \in Loops => Behind(n) = 2
        /\ n \notin Loops => Behind(n) = 0
    BY <1>3, <1>5, Layout
  <2>3. /\ k = Ahead(n) + IF n \in Loops THEN 2 ELSE IF label[n] = "return" THEN 3 ELSE 1
        /\ Ahead(n) \in {0, 2}
    BY <1>2, <2>2
  <2>4. n \in Loops => label[n] # "return"
    BY DEF Loops
  <2> HIDE DEF f
  <2>5. FunctionClock(n, "before", k) = IF n < First(f) THEN "unset"
                                        ELSE IF label[n] = "return" THEN "recorded" ELSE "started"
    <3>1. CASE n < First(f)
      BY <3>1 DEF FunctionClock, f
    <3>2. CASE ~(n < First(f)) /\ label[n] = "return"
      <4>1. k = Ahead(n) + 3
        BY <2>3, <2>4, <3>2
      <4>2. ~(n = First(f) /\ k <= 2) /\ k > Ahead(n) + 1 /\ k # Ahead(n) + 2 /\ Left(n)
        BY <2>2, <2>3, <3>2, <4>1
      <4> QED BY <3>2, <4>2 DEF FunctionClock, f
    <3>3. CASE ~(n < First(f)) /\ label[n] # "return"
      <4>1. ~(n = First(f) /\ k <= 2) /\ ~Left(n)
        BY <2>2, <2>3, <3>3
      <4> QED BY <3>3, <4>1 DEF FunctionClock, f
    <3> QED BY <3>1, <3>2, <3>3
  <2> QED BY <2>1, <2>2, <2>3, <2>5 DEF ClocksAt, f
<1>6. CASE label[n] = "return" /\ at' = <<n, "exit">>
  <2>1. ASSUME Actual(f) # {}
        PROVE  /\ clock[FunctionTimer(f)] = "recorded"
               /\ \A l \in Loops : clock[TimerOf(l)] \in IF n \in Inside(l) THEN {"started"} ELSE {"unset", "recorded"}
    <3>1. clock[FunctionTimer(f)] = "recorded"
      <4>1. First(f) <= n /\ n \in Int /\ First(f) \in Int
        BY <1>5, <1>6, <2>1
      <4>2. ~(n < First(f))
        BY <4>1
      <4> QED BY <1>5, <1>6, <2>1, <4>2
    <3>2. ASSUME NEW l \in Loops
          PROVE  clock[TimerOf(l)] \in IF n \in Inside(l) THEN {"started"} ELSE {"unset", "recorded"}
      <4>1. n # l
        BY <1>6 DEF Loops
      <4>2. clock[TimerOf(l)] \in LoopClock(l, n, "before", k)
        BY <1>5, <2>1
      <4> QED BY <4>1, <4>2 DEF LoopClock
    <3> QED BY <3>1, <3>2
  <2> QED BY <1>1, <1>5, <1>6, <2>1, ArriveEnd
<1>7. CASE label[n] \in {"do", "if"} /\ Children(n) # {} /\ at' = <<Least(Children(n)), "before", 1>>
  <2>1. PICK c : c = Least(Children(n))
    OBVIOUS
  <2>2. c \in Children(n) /\ c \in Nodes \ Functions /\ c > n /\ Enclosing(c) = f
    <3>1. c \in Children(n)
      BY <1>7, <2>1, LeastIs, NodeFacts
    <3>2. c \in Inside(n)
      BY <3>1, ChildInside
    <3> QED BY <3>1, <3>2, NodeFacts, EnclosingInside
  <2>3. ASSUME Actual(f) # {}
        PROVE  /\ clock[FunctionTimer(f)] = FunctionClock(c, "before", 1)
               /\ \A l \in Loops : clock[TimerOf(l)] \in LoopClock(l, c, "before", 1)
    <3>1. First(f) <= n /\ clock[FunctionTimer(f)] = "started" /\ n \in Int /\ First(f) \in Int
      <4>1. First(f) <= n /\ n \in Int /\ First(f) \in Int
        BY <1>5, <1>7, <2>3
      <4>2. ~(n < First(f)) /\ label[n] # "return"
        BY <1>7, <4>1
      <4> QED BY <1>5, <2>3, <4>1, <4>2
    <3>2. Ahead(c) \in {0, 2} /\ c \in Int
      BY <2>2, NodeFacts DEF Ahead
    <3>3. FunctionClock(c, "before", 1) = "started"
      <4>1. ~(c < First(f)) /\ c # First(f) /\ ~(1 > Ahead(c) + 1)
        BY <2>2, <3>1, <3>2
      <4> QED BY <2>2, <4>1 DEF FunctionClock
    <3>4. ASSUME NEW l \in Loops
          PROVE  clock[TimerOf(l)] \in LoopClock(l, c, "before", 1)
      <4>1. clock[TimerOf(l)] \in LoopClock(l, n, "before", k)
        BY <1>5, <2>3
      <4>2. c \in Inside(l) <=> n = l \/ n \in Inside(l)
        BY <1>4, <2>2, ChildWithParent
      <4>3. n = l => k > Ahead(n) + 1
        <5>1. n = l => k = Ahead(n) + 2
          BY <1>5, <2>3
        <5> QED BY <1>5, <2>3, <5>1
      <4>4. ~(1 > Ahead(c) + 1)
        BY <3>2
      <4> QED BY <4>1, <4>2, <4>3, <4>4 DEF LoopClock
    <3> QED BY <3>1, <3>3, <3>4
  <2> QED BY <1>1, <1>5, <1>7, <2>1, <2>2, <2>3, Arrive
<1>8. CASE label[n] # "return" /\ at' = <<n, "after", 1>>
  <2>1. ASSUME Actual(f) # {}
        PROVE  /\ clock[FunctionTimer(f)] = FunctionClock(n, "after", 1)
               /\ \A l \in Loops : clock[TimerOf(l)] \in LoopClock(l, n, "after", 1)
    <3>1. FunctionClock(n, "after", 1) = IF n < First(f) THEN "unset" ELSE "started"
      <4>1. ~(1 > Behind(n) + 1)
        BY <1>5, <2>1
      <4> QED BY <4>1 DEF FunctionClock
    <3>2. ASSUME NEW l \in Loops
          PROVE  clock[TimerOf(l)] \in LoopClock(l, n, "after", 1)
      <4>1. clock[TimerOf(l)] \in LoopClock(l, n, "before", k)
        BY <1>5, <2>1
      <4>2. n = l => k > Ahead(n) + 1
        <5>1. n = l => k = Ahead(n) + 2
          BY <1>5, <2>1
        <5> QED BY <1>5, <2>1, <5>1
      <4> QED BY <4>1, <4>2 DEF LoopClock
    <3> QED BY <1>5, <1>8, <2>1, <3>1, <3>2
  <2> QED BY <1>1, <1>5, <1>8, <2>1, Arrive
<1> QED BY <1>6, <1>7, <1>8 DEF Statement

(* Going on behind a statement: a sibling, the end of the block, or a new turn. *)
LEMMA ContinueOnPath ==
  ASSUME Forest, Shape, IInv, Place, OnPath, NEW n \in Nodes, Continue(n)
  PROVE  OnPath'
<1> DEFINE f == Enclosing(n)
<1>1. /\ at = <<n, "after", Len(after[n]) + 1>>
      /\ UNCHANGED <<program, pass, visited, wrapped, inserted, clock>>
  BY DEF Continue
<1>2. PICK k : k = Len(after[n]) + 1
  OBVIOUS
<1>3. AtCall(n, "after", k) /\ pass = "run" /\ n \in Nodes \ Functions /\ label[n] # "return"
  <2>1. AtCall(n, "after", k) /\ pass = "run"
    BY <1>1, <1>2, PlaceIs
  <2> QED BY <2>1 DEF AtCall
<1>4. \A l \in Loops : l \in Nodes /\ l \notin Functions
  BY <1>3, AllTimed, NodeFacts DEF Loops
<1>5. PICK p : p = parent[n]
  OBVIOUS
<1>6. /\ p \in Nodes /\ label[p] \in Blocks /\ n \in Children(p) /\ p < n /\ n \in Int /\ p \in Int
      /\ f \in Functions /\ f \in Nodes /\ Enclosing(p) = f
      /\ (p \in Functions <=> label[p] = "function") /\ Children(p) \subseteq Nodes
  BY <1>3, <1>5, NodeFacts, EnclosingParent, EnclosingIs
<1>7. \A c \in Children(p) : c \in Nodes \ Functions /\ c > p /\ Enclosing(c) = f
  <2> TAKE c \in Children(p)
  <2>1. c \in Inside(p) /\ c \in Nodes \ Functions
    BY <1>6, ChildInside, NodeFacts
  <2> QED BY <1>6, <2>1, NodeFacts, EnclosingInside
\* Where n is, p is or its siblings are.
<1>8. ASSUME NEW l \in Loops
      PROVE  /\ n \in Inside(l) <=> p = l \/ p \in Inside(l)
             /\ \A c \in Children(p) : c \in Inside(l) <=> n \in Inside(l)
  BY <1>4, <1>6, ChildWithParent
<1>9. ASSUME Actual(f) # {}
      PROVE  /\ \A t \in DOMAIN clock : clock[t] # "bad"
             /\ clock[FunctionTimer(f)] = IF n < First(f) THEN "unset"
                                          ELSE IF n = Last(f) THEN "recorded" ELSE "started"
             /\ \A l \in Loops : clock[TimerOf(l)] \in IF n \in Inside(l) THEN {"started"} ELSE {"unset", "recorded"}
             /\ First(f) \in Int /\ First(f) \in Children(f) /\ Last(f) \in Children(f)
             /\ n < First(f) => p = f
             /\ \A c \in Children(f) : c <= Last(f)
  <2>1. ClocksAt(n, "after", k) /\ \A t \in DOMAIN clock : clock[t] # "bad"
    BY <1>3, <1>9, OnPathAt
  <2>2. /\ Closes(n) <=> n = Last(f) /\ label[n] # "return"
        /\ n \in Loops => Behind(n) = 2
        /\ n \notin Loops => Behind(n) = 0
        /\ Len(after[n]) = Behind(n) + IF Closes(n) THEN 2 ELSE 0
        /\ First(f) \in Int /\ First(f) \in Children(f) /\ Last(f) \in Children(f)
        /\ n < First(f) => p = f
    BY <1>3, <1>5, <1>9, Layout
  <2> HIDE DEF f
  <2>3. k = Behind(n) + IF n = Last(f) THEN 3 ELSE 1
    BY <1>2, <1>3, <2>2
  <2>4. FunctionClock(n, "after", k) = IF n < First(f) THEN "unset"
                                       ELSE IF n = Last(f) THEN "recorded" ELSE "started"
    <3>1. CASE n < First(f)
      BY <3>1 DEF FunctionClock, f
    <3>2. CASE ~(n < First(f)) /\ n = Last(f)
      <4>1. k = Behind(n) + 3 /\ Behind(n) \in {0, 2} /\ Closes(n)
        BY <1>3, <2>2, <2>3, <3>2
      <4>2. k > Behind(n) + 1 /\ k # Behind(n) + 2
        BY <4>1
      <4> QED BY <3>2, <4>1, <4>2 DEF FunctionClock, f
    <3>3. CASE ~(n < First(f)) /\ n # Last(f)
      <4>1. ~Closes(n)
        BY <2>2, <3>3
      <4> QED BY <3>3, <4>1 DEF FunctionClock, f
    <3> QED BY <3>1, <3>2, <3>3
  <2>5. ASSUME NEW l \in Loops
        PROVE  clock[TimerOf(l)] \in IF n \in Inside(l) THEN {"started"} ELSE {"unset", "recorded"}
    <3>1. clock[TimerOf(l)] \in LoopClock(l, n, "after", k)
      BY <2>1 DEF ClocksAt
    <3>2. n = l => k # 1 /\ k # 2
      <4>1. n = l => Behind(n) = 2 /\ (k = Behind(n) + 3 \/ k = Behind(n) + 1)
        BY <2>2, <2>3
      <4> QED BY <4>1
    <3> QED BY <3>1, <3>2 DEF LoopClock
  <2>6. \A c \in Children(f) : c <= Last(f)
    BY <1>6, GreatestIs DEF Last, Children, f
  <2> QED BY <2>1, <2>2, <2>4, <2>5, <2>6 DEF ClocksAt, f
<1> HIDE DEF f
\* Arriving in front of a sibling, or of the first statement of the block again.
<1>10. ASSUME NEW c \in Children(p), at' = <<c, "before", 1>>,
              Actual(f) # {} => clock[FunctionTimer(f)] = IF c <= First(f) THEN "unset" ELSE "started"
       PROVE  OnPath'
  <2>1. c \in Nodes \ Functions /\ c \in Int /\ Enclosing(c) = f
    BY <1>7, NodeFacts
  <2>2. Ahead(c) \in {0, 2}
    BY DEF Ahead
  <2>3. ASSUME Actual(f) # {}
        PROVE  /\ clock[FunctionTimer(f)] = FunctionClock(c, "before", 1)
               /\ \A l \in Loops : clock[TimerOf(l)] \in LoopClock(l, c, "before", 1)
    <3>1. First(f) \in Int
      BY <1>9, <2>3
    <3>2. FunctionClock(c, "before", 1) = IF c <= First(f) THEN "unset" ELSE "started"
      <4>1. ~(1 > Ahead(c) + 1) /\ (c <= First(f) <=> c < First(f) \/ c = First(f))
        BY <2>1, <2>2, <3>1
      <4> QED BY <2>1, <4>1 DEF FunctionClock
    <3>3. ASSUME NEW l \in Loops
          PROVE  clock[TimerOf(l)] \in LoopClock(l, c, "before", 1)
      <4>1. clock[TimerOf(l)] \in IF n \in Inside(l) THEN {"started"} ELSE {"unset", "recorded"}
        BY <1>9, <2>3
      <4>2. c \in Inside(l) <=> n \in Inside(l)
        BY <1>8
      <4>3. ~(1 > Ahead(c) + 1)
        BY <2>2
      <4>4. c = l => c \notin Inside(l)
        BY <1>4, NodeFacts
      <4> QED BY <4>1, <4>2, <4>3, <4>4 DEF LoopClock
    <3> QED BY <1>10, <2>3, <3>2, <3>3
  <2> QED BY <1>1, <1>9, <1>10, <2>1, <2>3, Arrive
<1>11. CASE Later(n) # {} /\ at' = <<Least(Later(n)), "before", 1>>
  <2>1. PICK c : c = Least(Later(n))
    OBVIOUS
  <2>2. c \in Children(p) /\ c > n /\ c \in Int /\ \A y \in Children(p) : y > n => c <= y
    <3>1. c \in Children(p) /\ c > n /\ \A y \in Children(p) : y > n => c <= y
      BY <1>3, <1>5, <1>11, <2>1, LaterIs
    <3> QED BY <1>7, <3>1, NodeFacts
  <2>3. ASSUME Actual(f) # {}
        PROVE  clock[FunctionTimer(f)] = IF c <= First(f) THEN "unset" ELSE "started"
    <3>1. First(f) \in Int /\ First(f) \in Children(f)
      BY <1>9, <2>3
    <3>2. n < First(f) => c <= First(f)
      BY <1>9, <2>2, <2>3, <3>1
    <3>3. ~(n < First(f)) => ~(c <= First(f))
      BY <1>6, <2>2, <3>1
    <3>4. n # Last(f)
      <4> SUFFICES ASSUME n = Last(f) PROVE FALSE
        OBVIOUS
      <4>1. n \in Children(f) /\ \A y \in Children(f) : y <= n
        BY <1>9, <2>3
      <4>2. p = f
        BY <1>5, <4>1 DEF Children
      <4>3. c <= n
        BY <2>2, <4>1, <4>2
      <4> QED BY <1>6, <2>2, <4>3
    <3> QED BY <1>9, <2>3, <3>2, <3>3, <3>4
  <2> QED BY <1>10, <1>11, <2>1, <2>2, <2>3
<1>12. CASE Later(n) = {} /\ label[p] = "function" /\ at' = <<p, "exit">>
  <2>1. p = f
    BY <1>6, <1>12, EnclosingIs
  <2>2. ASSUME Actual(f) # {}
        PROVE  /\ clock[FunctionTimer(f)] = "recorded"
               /\ \A l \in Loops : clock[TimerOf(l)] \in IF p \in Inside(l) THEN {"started"} ELSE {"unset", "recorded"}
    <3>1. /\ Last(f) \in Children(f) /\ n <= Last(f) /\ Last(f) \in Int
          /\ First(f) \in Children(f) /\ First(f) \in Int /\ First(f) <= Last(f)
      <4>1. /\ Last(f) \in Children(f) /\ n <= Last(f)
            /\ First(f) \in Children(f) /\ First(f) \in Int /\ First(f) <= Last(f)
        BY <1>6, <1>9, <2>1, <2>2
      <4> QED BY <1>7, <2>1, <4>1, NodeFacts
    <3>2. n = Last(f)
      <4>1. ~(Last(f) > n)
        BY <1>5, <1>7, <1>12, <2>1, <3>1 DEF Later
      <4> QED BY <1>6, <3>1, <4>1
    <3>3. clock[FunctionTimer(f)] = "recorded"
      BY <1>6, <1>9, <2>2, <3>1, <3>2
    <3>4. \A l \in Loops : p \notin Inside(l) /\ p # l
      BY <1>4, <1>6, <1>12, FunctionInside
    <3>5. \A l \in Loops : clock[TimerOf(l)] \in IF n \in Inside(l) THEN {"started"} ELSE {"unset", "recorded"}
      BY <1>9, <2>2
    <3> QED BY <1>8, <3>3, <3>4, <3>5
  <2> QED BY <1>1, <1>6, <1>9, <1>12, <2>2, ArriveEnd
<1>13. ASSUME label[p] # "function", Actual(f) # {}
       PROVE  First(f) <= p /\ clock[FunctionTimer(f)] = "started" /\ First(f) \in Int
  <2>1. p \in Nodes \ Functions /\ label[p] # "declaration"
    BY <1>6, <1>13 DEF Blocks
  <2>2. First(f) <= p /\ First(f) \in Int
    BY <1>3, <1>6, <1>13, <2>1, Layout
  <2>3. ~(n < First(f))
    BY <1>6, <2>2
  <2>4. n # Last(f)
    <3>1. n \notin Children(f)
      BY <1>5, <1>6, <2>1 DEF Children
    <3> QED BY <1>9, <1>13, <3>1
  <2> QED BY <1>9, <1>13, <2>2, <2>3, <2>4
<1>14. CASE label[p] # "function" /\ at' = <<p, "after", 1>>
  <2>1. ASSUME Actual(f) # {}
        PROVE  /\ clock[FunctionTimer(f)] = FunctionClock(p, "after", 1)
               /\ \A l \in Loops : clock[TimerOf(l)] \in LoopClock(l, p, "after", 1)
    <3>1. Behind(p) \in {0, 2}
      BY DEF Behind
    <3>2. FunctionClock(p, "after", 1) = "started"
      <4>1. ~(p < First(f)) /\ ~(1 > Behind(p) + 1)
        BY <1>6, <1>13, <1>14, <2>1, <3>1
      <4> QED BY <1>6, <4>1 DEF FunctionClock
    <3>3. ASSUME NEW l \in Loops
          PROVE  clock[TimerOf(l)] \in LoopClock(l, p, "after", 1)
      <4>1. clock[TimerOf(l)] \in IF n \in Inside(l) THEN {"started"} ELSE {"unset", "recorded"}
        BY <1>9, <2>1
      <4> QED BY <1>8, <4>1 DEF LoopClock
    <3> QED BY <1>13, <1>14, <2>1, <3>2, <3>3
  <2> QED BY <1>1, <1>6, <1>9, <1>14, <2>1, Arrive
<1>15. CASE label[p] = "do" /\ at' = <<Least(Children(p)), "before", 1>>
  <2>1. PICK c : c = Least(Children(p))
    OBVIOUS
  <2>2. c \in Children(p) /\ c > p /\ c \in Int
    <3>1. c \in Children(p)
      BY <1>6, <2>1, LeastIs
    <3> QED BY <1>7, <3>1, NodeFacts
  <2>3. ASSUME Actual(f) # {}
        PROVE  clock[FunctionTimer(f)] = IF c <= First(f) THEN "unset" ELSE "started"
    <3>1. First(f) <= p /\ clock[FunctionTimer(f)] = "started" /\ First(f) \in Int
      BY <1>13, <1>15, <2>3
    <3>2. ~(c <= First(f))
      BY <1>6, <2>2, <3>1
    <3> QED BY <3>1, <3>2
  <2> QED BY <1>10, <1>15, <2>1, <2>2, <2>3
<1> QED BY <1>5, <1>11, <1>12, <1>14, <1>15 DEF Continue

(* What a call does to its timer, and to no other. *)
LEMMA EffectIs ==
  ASSUME NEW c, NEW t \in DOMAIN clock, c.timer = t,
         \/ c.op = "start"
         \/ c.op = "end" /\ clock[t] = "started"
         \/ c.op = "record" /\ clock[t] = "ended"
  PROVE  /\ DOMAIN Effect(c) = DOMAIN clock
         /\ \A u \in DOMAIN clock : u # t => Effect(c)[u] = clock[u]
         /\ Effect(c)[t] = IF c.op = "start" THEN "started" ELSE IF c.op = "end" THEN "ended" ELSE "recorded"
<1>1. CASE c.op = "start"
  BY <1>1 DEF Effect
<1>2. CASE c.op = "end" /\ clock[t] = "started"
  BY <1>2 DEF Effect
<1>3. CASE c.op = "record" /\ clock[t] = "ended"
  BY <1>3 DEF Effect
<1> QED BY <1>1, <1>2, <1>3

(* A call is of the function's timer or of the loop's; which one, and what the *)
(* timer was before, its position tells.                                        *)
LEMMA PerformOnPath ==
  ASSUME Forest, Shape, IInv, Place, OnPath,
         NEW n \in Nodes, NEW side \in {"before", "after"}, NEW k \in 1..Len(Calls(n, side)),
         Perform(n, side, k)
  PROVE  OnPath'
<1>1. PICK c : c = Calls(n, side)[k]
  OBVIOUS
<1>2. /\ at = <<n, side, k>> /\ at' = <<n, side, k + 1>> /\ clock' = Effect(c)
      /\ UNCHANGED <<program, pass, visited, wrapped, inserted>>
  BY <1>1 DEF Perform
<1>3. /\ AtCall(n, side, k) /\ pass = "run" /\ n \in Nodes \ Functions
      /\ (side = "after" => label[n] # "return") /\ DOMAIN clock = {timers[j] : j \in DOMAIN timers}
  <2>1. AtCall(n, side, k) /\ pass = "run" /\ DOMAIN clock = {timers[j] : j \in DOMAIN timers}
    BY <1>2, PlaceIs
  <2> QED BY <2>1 DEF AtCall
<1>4. PICK f : f = Enclosing(n)
  OBVIOUS
<1>5. SUFFICES ASSUME Actual(f) # {}
               PROVE  /\ \A t \in DOMAIN clock' : clock'[t] # "bad"
                      /\ clock'[FunctionTimer(f)] = FunctionClock(n, side, k + 1)
                      /\ \A l \in Loops : clock'[TimerOf(l)] \in LoopClock(l, n, side, k + 1)
  BY <1>2, <1>4, Arrive
<1>6. PICK t : t = FunctionTimer(f)
  OBVIOUS
<1>7. /\ f \in Functions /\ First(f) \in Int /\ n \in Int
      /\ n = First(f) => Opens(n) /\ Ahead(n) = 2
      /\ n # First(f) => ~Opens(n) /\ Ahead(n) = 0
      /\ Closes(n) <=> n = Last(f) /\ label[n] # "return"
      /\ ~Bare(n)
      /\ Timed(n) <=> n \in Loops
      /\ Left(n) <=> label[n] = "return"
      /\ n \in Loops => Behind(n) = 2
      /\ n \notin Loops => Behind(n) = 0
      /\ label[n] # "declaration" => First(f) <= n
      /\ Last(f) >= First(f)
  BY <1>3, <1>4, <1>5, Layout
<1>8. t \in DOMAIN clock /\ Len(t) = 1
  BY <1>3, <1>5, <1>6, <1>7, FunctionTimed
<1>9. /\ \A l \in Loops : TimerOf(l) \in DOMAIN clock /\ TimerOf(l) # t
      /\ \A l, m \in Loops : TimerOf(l) = TimerOf(m) => l = m
  <2>1. \A l \in Loops : Len(TimerOf(l)) = 2
    BY <1>3, AllTimed
  <2>2. \A l \in Loops : TimerOf(l) # t
    BY <1>8, <2>1
  <2>3. \A l \in Loops : TimerOf(l) \in {timers[j] : j \in DOMAIN timers}
    BY <1>3, TimersApart
  <2>4. \A l, m \in Loops : TimerOf(l) = TimerOf(m) => l = m
    BY <1>3, TimersApart
  <2> QED BY <1>3, <2>2, <2>3, <2>4
<1>10. /\ clock[t] = FunctionClock(n, side, k)
       /\ \A l \in Loops : clock[TimerOf(l)] \in LoopClock(l, n, side, k)
       /\ \A u \in DOMAIN clock : clock[u] # "bad"
  BY <1>3, <1>4, <1>5, <1>6, OnPathAt DEF ClocksAt
<1>11. k \in Int /\ k >= 1
  BY CallsLen
<1>12. \A u : /\ StartCall(u).op = "start" /\ StartCall(u).timer = u
              /\ EndCall(u).op = "end" /\ EndCall(u).timer = u
  BY DEF StartCall, EndCall
\* A call of the function's timer.
<1>13. ASSUME c.timer = t,
              \/ c.op = "start"
              \/ c.op = "end" /\ FunctionClock(n, side, k) = "started"
              \/ c.op = "record" /\ FunctionClock(n, side, k) = "ended",
              FunctionClock(n, side, k + 1) =
                IF c.op = "start" THEN "started" ELSE IF c.op = "end" THEN "ended" ELSE "recorded",
              \A l \in Loops : LoopClock(l, n, side, k + 1) = LoopClock(l, n, side, k)
       PROVE  /\ \A u \in DOMAIN clock' : clock'[u] # "bad"
              /\ clock'[t] = FunctionClock(n, side, k + 1)
              /\ \A l \in Loops : clock'[TimerOf(l)] \in LoopClock(l, n, side, k + 1)
  <2>1. /\ DOMAIN Effect(c) = DOMAIN clock
        /\ \A u \in DOMAIN clock : u # t => Effect(c)[u] = clock[u]
        /\ Effect(c)[t] = IF c.op = "start" THEN "started" ELSE IF c.op = "end" THEN "ended" ELSE "recorded"
    BY <1>8, <1>10, <1>13, EffectIs
  <2> QED BY <1>2, <1>9, <1>10, <1>13, <2>1
\* A call of a loop's timer.
<1>14. ASSUME n \in Loops, c.timer = TimerOf(n),
              \/ c.op = "start"
              \/ c.op = "end" /\ LoopClock(n, n, side, k) = {"started"}
              \/ c.op = "record" /\ LoopClock(n, n, side, k) = {"ended"},
              (IF c.op = "start" THEN "started" ELSE IF c.op = "end" THEN "ended" ELSE "recorded")
                \in LoopClock(n, n, side, k + 1),
              FunctionClock(n, side, k + 1) = FunctionClock(n, side, k)
       PROVE  /\ \A u \in DOMAIN clock' : clock'[u] # "bad"
              /\ clock'[t] = FunctionClock(n, side, k + 1)
              /\ \A l \in Loops : clock'[TimerOf(l)] \in LoopClock(l, n, side, k + 1)
  <2>1. PICK u : u = TimerOf(n)
    OBVIOUS
  <2>2. u \in DOMAIN clock /\ u # t /\ clock[u] \in LoopClock(n, n, side, k)
    BY <1>9, <1>10, <1>14, <2>1
  <2>3. /\ DOMAIN Effect(c) = DOMAIN clock
        /\ \A v \in DOMAIN clock : v # u => Effect(c)[v] = clock[v]
        /\ Effect(c)[u] = IF c.op = "start" THEN "started" ELSE IF c.op = "end" THEN "ended" ELSE "recorded"
    BY <1>14, <2>1, <2>2, EffectIs
  <2>4. ASSUME NEW l \in Loops, l # n
        PROVE  clock'[TimerOf(l)] \in LoopClock(l, n, side, k + 1)
    <3>1. TimerOf(l) # u /\ clock[TimerOf(l)] \in LoopClock(l, n, side, k) /\ TimerOf(l) \in DOMAIN clock
      BY <1>9, <1>10, <1>14, <2>1, <2>4
    <3>2. LoopClock(l, n, side, k + 1) = LoopClock(l, n, side, k)
      BY <2>4 DEF LoopClock
    <3> QED BY <1>2, <2>3, <3>1, <3>2
  <2>5. clock'[TimerOf(n)] \in LoopClock(n, n, side, k + 1)
    BY <1>2, <1>14, <2>1, <2>3
  <2> QED BY <1>2, <1>8, <1>10, <1>14, <2>2, <2>3, <2>4, <2>5
<1>15. n \in Loops => n \notin Inside(n) /\ label[n] = "do"
  BY NodeFacts DEF Loops
<1>16. CASE side = "before"
  <2>1. k \in DOMAIN before[n] /\ c = before[n][k]
    BY <1>1, <1>16, CallsLen DEF Calls
  <2>2. \/ Opens(n) /\ k = 1 /\ c = Declarations
        \/ Opens(n) /\ k = 2 /\ c = StartCall(t)
        \/ Timed(n) /\ k = Ahead(n) + 1 /\ c = StartCall(TimerOf(n))
        \/ Left(n) /\ k = Ahead(n) + 1 /\ c = EndCall(t)
        \/ Left(n) /\ k = Ahead(n) + 2 /\ c.op = "record" /\ c.timer = t
    BY <1>4, <1>6, <2>1, BeforeCalls
  <2>3. CASE Opens(n) /\ k = 1 /\ c = Declarations
    <3>1. n = First(f) /\ Ahead(n) = 2
      BY <1>7, <2>3
    <3>2. FunctionClock(n, side, k) = "unset" /\ FunctionClock(n, side, k + 1) = "unset"
      BY <1>4, <1>16, <2>3, <3>1 DEF FunctionClock
    <3>3. \A l \in Loops : LoopClock(l, n, side, k + 1) = LoopClock(l, n, side, k)
      BY <1>16, <2>3, <3>1 DEF LoopClock
    <3>4. clock' = clock
      BY <1>2, <2>3 DEF Effect, Declarations
    <3> QED BY <1>6, <1>10, <3>2, <3>3, <3>4
  <2>4. CASE Opens(n) /\ k = 2 /\ c = StartCall(t)
    <3>1. n = First(f) /\ Ahead(n) = 2
      BY <1>7, <2>4
    <3>2. FunctionClock(n, side, k + 1) = "started"
      <4>1. ~(n < First(f)) /\ ~(k + 1 <= 2) /\ ~(k + 1 > Ahead(n) + 1)
        BY <1>7, <2>4, <3>1
      <4> QED BY <1>4, <1>16, <4>1 DEF FunctionClock
    <3>3. \A l \in Loops : LoopClock(l, n, side, k + 1) = LoopClock(l, n, side, k)
      BY <1>16, <2>4, <3>1 DEF LoopClock
    <3> QED BY <1>6, <1>12, <1>13, <2>4, <3>2, <3>3
  <2>5. CASE Timed(n) /\ k = Ahead(n) + 1 /\ c = StartCall(TimerOf(n))
    <3>1. n \in Loops /\ label[n] = "do" /\ ~Left(n) /\ First(f) <= n /\ Ahead(n) \in {0, 2}
      BY <1>7, <1>15, <2>5
    <3>2. FunctionClock(n, side, k) = "started" /\ FunctionClock(n, side, k + 1) = "started"
      <4>1. ~(n < First(f)) /\ ~(n = First(f) /\ k <= 2) /\ ~(n = First(f) /\ k + 1 <= 2)
        BY <1>7, <2>5, <3>1
      <4> QED BY <1>4, <1>16, <3>1, <4>1 DEF FunctionClock
    <3>3. LoopClock(n, n, side, k + 1) = {"started"}
      <4>1. k + 1 > Ahead(n) + 1
        BY <2>5, <3>1
      <4> QED BY <1>16, <4>1 DEF LoopClock
    <3> QED BY <1>6, <1>12, <1>14, <2>5, <3>1, <3>2, <3>3
  <2>6. CASE Left(n) /\ k = Ahead(n) + 1 /\ c = EndCall(t)
    <3>1. n \notin Loops /\ First(f) <= n /\ Ahead(n) \in {0, 2}
      BY <1>7, <1>15, <2>6
    <3>2. FunctionClock(n, side, k) = "started" /\ FunctionClock(n, side, k + 1) = "ended"
      <4>1. ~(n < First(f)) /\ ~(n = First(f) /\ k <= 2) /\ ~(n = First(f) /\ k + 1 <= 2)
            /\ ~(k > Ahead(n) + 1) /\ k + 1 > Ahead(n) + 1 /\ k + 1 = Ahead(n) + 2
        BY <1>7, <2>6, <3>1
      <4> QED BY <1>4, <1>16, <2>6, <4>1 DEF FunctionClock
    <3>3. \A l \in Loops : LoopClock(l, n, side, k + 1) = LoopClock(l, n, side, k)
      BY <3>1 DEF LoopClock
    <3> QED BY <1>6, <1>12, <1>13, <2>6, <3>2, <3>3
  <2>7. CASE Left(n) /\ k = Ahead(n) + 2 /\ c.op = "record" /\ c.timer = t
    <3>1. n \notin Loops /\ First(f) <= n /\ Ahead(n) \in {0, 2}
      BY <1>7, <1>15, <2>7
    <3>2. FunctionClock(n, side, k) = "ended" /\ FunctionClock(n, side, k + 1) = "recorded"
      <4>1. ~(n < First(f)) /\ ~(n = First(f) /\ k <= 2) /\ ~(n = First(f) /\ k + 1 <= 2)
            /\ k > Ahead(n) + 1 /\ k + 1 > Ahead(n) + 1 /\ k + 1 # Ahead(n) + 2
        BY <1>7, <2>7, <3>1
      <4> QED BY <1>4, <1>16, <2>7, <4>1 DEF FunctionClock
    <3>3. \A l \in Loops : LoopClock(l, n, side, k + 1) = LoopClock(l, n, side, k)
      BY <3>1 DEF LoopClock
    <3> QED BY <1>6, <1>13, <2>7, <3>2, <3>3
  <2> QED BY <2>2, <2>3, <2>4, <2>5, <2>6, <2>7
<1>17. CASE side = "after"
  <2>1. k \in DOMAIN after[n] /\ c = after[n][k]
    BY <1>1, <1>17, CallsLen DEF Calls
  <2>2. \/ Timed(n) /\ k = 1 /\ c = EndCall(TimerOf(n))
        \/ Timed(n) /\ k = 2 /\ c.op = "record" /\ c.timer = TimerOf(n)
        \/ Closes(n) /\ k = Behind(n) + 1 /\ c = EndCall(t)
        \/ Closes(n) /\ k = Behind(n) + 2 /\ c.op = "record" /\ c.timer = t
    BY <1>4, <1>6, <1>7, <2>1, AfterCalls
  <2>3. CASE Timed(n) /\ k = 1 /\ c = EndCall(TimerOf(n))
    <3>1. n \in Loops /\ Behind(n) = 2
      BY <1>7, <2>3
    <3>2. FunctionClock(n, side, k + 1) = FunctionClock(n, side, k)
      BY <1>4, <1>17, <2>3, <3>1 DEF FunctionClock
    <3>3. LoopClock(n, n, side, k) = {"started"} /\ LoopClock(n, n, side, k + 1) = {"ended"}
      BY <1>15, <1>17, <2>3, <3>1 DEF LoopClock
    <3> QED BY <1>6, <1>12, <1>14, <2>3, <3>1, <3>2, <3>3
  <2>4. CASE Timed(n) /\ k = 2 /\ c.op = "record" /\ c.timer = TimerOf(n)
    <3>1. n \in Loops /\ Behind(n) = 2
      BY <1>7, <2>4
    <3>2. FunctionClock(n, side, k + 1) = FunctionClock(n, side, k)
      BY <1>4, <1>17, <2>4, <3>1 DEF FunctionClock
    <3>3. LoopClock(n, n, side, k) = {"ended"} /\ LoopClock(n, n, side, k + 1) = {"unset", "recorded"}
      BY <1>15, <1>17, <2>4, <3>1 DEF LoopClock
    <3> QED BY <1>6, <1>14, <2>4, <3>1, <3>2, <3>3
  <2>5. ASSUME Closes(n)
        PROVE  ~(n < First(f)) /\ Behind(n) \in {0, 2} /\ (n \in Loops => Behind(n) = 2)
    BY <1>7, <2>5
  <2>6. CASE Closes(n) /\ k = Behind(n) + 1 /\ c = EndCall(t)
    <3>1. FunctionClock(n, side, k) = "started" /\ FunctionClock(n, side, k + 1) = "ended"
      <4>1. ~(k > Behind(n) + 1) /\ k + 1 > Behind(n) + 1 /\ k + 1 = Behind(n) + 2
        BY <2>5, <2>6
      <4> QED BY <1>4, <1>17, <2>5, <2>6, <4>1 DEF FunctionClock
    <3>2. \A l \in Loops : LoopClock(l, n, side, k + 1) = LoopClock(l, n, side, k)
      <4>1. n \in Loops => k # 1 /\ k # 2 /\ k + 1 # 1 /\ k + 1 # 2
        BY <2>5, <2>6
      <4> QED BY <1>17, <4>1 DEF LoopClock
    <3> QED BY <1>6, <1>12, <1>13, <2>6, <3>1, <3>2
  <2>7. CASE Closes(n) /\ k = Behind(n) + 2 /\ c.op = "record" /\ c.timer = t
    <3>1. FunctionClock(n, side, k) = "ended" /\ FunctionClock(n, side, k + 1) = "recorded"
      <4>1. k > Behind(n) + 1 /\ k + 1 > Behind(n) + 1 /\ k + 1 # Behind(n) + 2
        BY <2>5, <2>7
      <4> QED BY <1>4, <1>17, <2>5, <2>7, <4>1 DEF FunctionClock
    <3>2. \A l \in Loops : LoopClock(l, n, side, k + 1) = LoopClock(l, n, side, k)
      <4>1. n \in Loops => k # 1 /\ k # 2 /\ k + 1 # 1 /\ k + 1 # 2
        BY <2>5, <2>7
      <4> QED BY <1>17, <4>1 DEF LoopClock
    <3> QED BY <1>6, <1>13, <2>7, <3>1, <3>2
  <2> QED BY <2>2, <2>3, <2>4, <2>6, <2>7
<1> QED BY <1>16, <1>17

-------------------------------------------------------------------------------
(* No step leaves the path. *)
LEMMA NextOnPath ==
  ASSUME Forest, Shape, IInv, Place, OnPath, [Next]_vars
  PROVE  OnPath'
<1>1. ASSUME at' = at, at = <<>> PROVE OnPath'
  BY <1>1 DEF OnPath
<1>2. CASE UNCHANGED vars
  <2>1. UNCHANGED <<program, pass, visited, wrapped, inserted, at, clock>>
    BY <1>2 DEF vars
  <2>2. \A n, side, k : (AtCall(n, side, k)' <=> AtCall(n, side, k)) /\ (AtExit(n)' <=> AtExit(n))
    BY <2>1, SameProgram DEF AtCall, AtExit, Calls, inserted
  <2>3. \A n, side, k : (ClocksAt(n, side, k)' <=> ClocksAt(n, side, k)) /\ (ClocksEnd(n)' <=> ClocksEnd(n))
    BY <2>1, SameProgram, SameRun DEF ClocksAt, ClocksEnd, FunctionTimer
  <2>4. Actual(Enclosing(at[1]))' = Actual(Enclosing(at[1]))
    BY <2>1, SameProgram DEF Actual, Enclosing
  <2> QED BY <2>1, <2>2, <2>3, <2>4 DEF OnPath
<1>3. ASSUME NEW n \in Nodes, VisitOther(n) \/ VisitReturn(n) \/ VisitBlock(n) \/ Wrap(n)
      PROVE  OnPath'
  <2>1. pass = "insert" /\ at' = at
    BY <1>3 DEF VisitOther, VisitReturn, VisitBlock, Wrap, Insert
  <2> QED BY <1>1, <2>1 DEF Place
<1>4. CASE EndInsert \/ Generate
  <2>1. pass # "run" /\ at' = at
    BY <1>4 DEF EndInsert, Generate
  <2> QED BY <1>1, <2>1 DEF Place
<1> QED BY <1>2, <1>3, <1>4, EnterOnPath, StatementOnPath, ContinueOnPath, PerformOnPath DEF Next

(* It is never left. *)
LEMMA AlwaysOnPath == Spec => []OnPath
<1>1. Init => OnPath
  BY DEF Init, OnPath
<1>2. RunInv /\ OnPath /\ [Next]_vars => OnPath'
  BY NextOnPath DEF RunInv
<1> QED BY <1>1, <1>2, AlwaysRun, PTL DEF Spec

(* No activation records a timer it has not started and ended before, whatever *)
(* the program and its path through loops, IFs and RETURNs.                     *)
THEOREM TimersMeasure == Spec => []RecordsMeasure
<1>1. OnPath => RecordsMeasure
  BY DEF OnPath, RecordsMeasure, Activation
<1> QED BY <1>1, AlwaysOnPath, PTL

(* An activation that ends has recorded its function's timer; the loop timers  *)
(* left running are those of the loops around the RETURN it ended at.           *)
THEOREM TimersSkipped == Spec => []SkippedExactly
<1>1. RunInv /\ OnPath => SkippedExactly
  <2> SUFFICES ASSUME RunInv, OnPath, at # <<>>, at[2] = "exit", Actual(Activation) # {}
               PROVE  /\ clock[FunctionTimer(Activation)] = "recorded"
                      /\ \A l \in Loops \cap Inside(Activation) :
                           clock[before[l][Len(before[l])].timer] = "started" <=> at[1] \in Inside(l)
    BY DEF SkippedExactly
  <2>1. Forest /\ Shape /\ IInv /\ Place
    BY DEF RunInv
  <2>2. \A n, side, k : ~AtCall(n, side, k)
    BY DEF AtCall
  <2>3. PICK n : AtExit(n)
    BY <2>1, <2>2 DEF Place
  <2>4. at[1] = n /\ pass = "run"
    BY <2>1, <2>3 DEF AtExit, Place
  <2>5. ClocksEnd(n)
    BY <2>3 DEF OnPath, Activation
  <2>6. \A l \in Loops : before[l][Len(before[l])].timer = TimerOf(l)
    BY <2>1, <2>4, AllTimed
  <2> QED BY <2>4, <2>5, <2>6 DEF ClocksEnd, Activation
<1> QED BY <1>1, AlwaysOnPath, AlwaysRun, PTL
===============================================================================
