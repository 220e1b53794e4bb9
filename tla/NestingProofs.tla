----------------------------- MODULE NestingProofs -----------------------------
(***************************************************************************)
(* Theorems about Nesting: edits see the truth at every depth, a Python    *)
(* thread never waits for itself, and edits that call in one order of the  *)
(* files never stand still.                                                *)
(***************************************************************************)
EXTENDS Nesting, SequenceTheorems, WellFoundedInduction, TLAPS

(* The locks of a thread are those of the edits it is inside of, one each.    *)
Nested(t) ==
    /\ \A i \in 1..Len(stack[t]) :
          /\ holder[stack[t][i].file] = t
          /\ value[stack[t][i].file] = stack[t][i].seen
    /\ \A i, j \in 1..Len(stack[t]) : i # j => stack[t][i].file # stack[t][j].file
    /\ \A f \in Files : holder[f] = t => f \in Inside(t)

(* Python lists the files a thread is inside of, and the one it waits for.    *)
Listed(t) ==
    /\ listed[t] = Inside(t) \cup ({want[t]} \ {None})
    /\ want[t] # None => want[t] \notin Inside(t)

Inv ==
    /\ NestingTypeOK
    /\ \A t \in Threads : Nested(t)
    /\ \A t \in Python : Listed(t)

(* What becomes of a stack when an edit begins.                               *)
LEMMA Pushed ==
  ASSUME NEW S, NEW s \in Seq(S), NEW e \in S
  PROVE  /\ Append(s, e) \in Seq(S) /\ Len(Append(s, e)) = Len(s) + 1
         /\ \A i \in 1..Len(s) : Append(s, e)[i] = s[i]
         /\ Append(s, e)[Len(s) + 1] = e
OBVIOUS

(* What is left of a stack when its innermost edit ends.                      *)
LEMMA Popped ==
  ASSUME NEW S, NEW s \in Seq(S), s # <<>>
  PROVE  /\ Len(s) \in Nat \ {0} /\ s[Len(s)] \in S
         /\ Pop(s) \in Seq(S) /\ Len(Pop(s)) = Len(s) - 1
         /\ \A i \in 1..(Len(s) - 1) : Pop(s)[i] = s[i]
<1>1. Len(s) \in Nat \ {0} /\ Len(s) - 1 \in 0..Len(s)
  BY EmptySeq, LenProperties
<1>2. ASSUME NEW k \in 0..Len(s)
      PROVE  /\ SubSeq(s, 1, k) \in Seq(S) /\ Len(SubSeq(s, 1, k)) = k
             /\ \A i \in 1..k : SubSeq(s, 1, k)[i] = s[i]
  OBVIOUS
<1>3. s[Len(s)] \in S
  BY <1>1, ElementOfSeq
<1>4. /\ Pop(s) \in Seq(S) /\ Len(Pop(s)) = Len(s) - 1
      /\ \A i \in 1..(Len(s) - 1) : Pop(s)[i] = s[i]
  BY <1>1, <1>2 DEF Pop
<1> QED
  BY <1>1, <1>3, <1>4

(* The frames of a stack, the innermost among them.                           *)
LEMMA FramesTyped ==
  ASSUME NestingTypeOK, NEW t \in Threads
  PROVE  /\ stack[t] \in Seq(Frames) /\ Len(stack[t]) \in Nat
         /\ \A i \in 1..Len(stack[t]) : stack[t][i].file \in Files /\ stack[t][i].seen \in Values
         /\ stack[t] # <<>> => Len(stack[t]) \in 1..Len(stack[t])
<1>1. stack[t] \in Seq(Frames)
  BY DEF NestingTypeOK
<1>2. Len(stack[t]) \in Nat /\ (stack[t] # <<>> => Len(stack[t]) \in Nat \ {0})
  BY <1>1, LenProperties, EmptySeq
<1>3. \A i \in 1..Len(stack[t]) : stack[t][i] \in Frames
  BY <1>1, ElementOfSeq
<1> QED
  BY <1>1, <1>2, <1>3 DEF Frames

(* A step of t leaves what the others hold, and what they were shown.         *)
LEMMA OthersStand ==
  ASSUME Inv, NEW t \in Threads, Step(t), NEW u \in Threads, u # t
  PROVE  Nested(u)' /\ (u \in Python => Listed(u)')
<1> USE NestingAssumption DEF Inv, NestingTypeOK
<1>1. stack'[u] = stack[u] /\ want'[u] = want[u] /\ listed'[u] = listed[u]
  BY DEF Step, Ask, Refuse, Get, End, Kill, vars
<1>2. Inside(u)' = Inside(u)
  BY <1>1 DEF Inside
<1>3. u \in Python => Listed(u)'
  BY <1>1, <1>2 DEF Listed
<1>4. \A f \in Files : (holder[f] = u <=> holder'[f] = u) /\ (holder[f] = u => value'[f] = value[f])
  <2>1. CASE \E f \in Files : Ask(t, f) \/ Refuse(t, f)
    BY <2>1 DEF Ask, Refuse, vars
  <2>2. CASE Get(t)
    BY <2>2 DEF Get
  <2>3. CASE End(t)
    <3>1. Top(t).file \in Files /\ holder[Top(t).file] = t
      BY <2>3, FramesTyped DEF End, Nested, Top
    <3> QED
      BY <2>3, <3>1 DEF End
  <2>4. CASE Kill(t)
    BY <2>4 DEF Kill
  <2> QED
    BY <2>1, <2>2, <2>3, <2>4 DEF Step
<1>5. \A i \in 1..Len(stack[u]) : stack[u][i].file \in Files
  BY FramesTyped
<1> QED
  BY <1>1, <1>2, <1>3, <1>4, <1>5 DEF Nested

(* The types hold in the next state.                                          *)
LEMMA TypesNext ==
  ASSUME Inv, NEW t \in Threads, Step(t)
  PROVE  NestingTypeOK'
<1> USE NestingAssumption DEF Inv, NestingTypeOK
<1>1. CASE \E f \in Files : Ask(t, f) \/ Refuse(t, f)
  BY <1>1 DEF Ask, Refuse, vars
<1>2. CASE Get(t)
  <2>1. [file |-> want[t], seen |-> value[want[t]]] \in Frames
    BY <1>2 DEF Get, Frames
  <2>2. Append(stack[t], [file |-> want[t], seen |-> value[want[t]]]) \in Seq(Frames)
    BY <2>1, Pushed
  <2> QED
    BY <1>2, <2>2 DEF Get
<1>3. CASE End(t)
  <2>1. Top(t).file \in Files /\ Pop(stack[t]) \in Seq(Frames)
    BY <1>3, FramesTyped, Popped DEF End, Top
  <2>2. /\ stack' = [stack EXCEPT ![t] = Pop(stack[t])]
        /\ holder' = [holder EXCEPT ![Top(t).file] = None]
        /\ listed' = [listed EXCEPT ![t] = listed[t] \ {Top(t).file}]
        /\ want' = want
        /\ value' = value \/ \E v \in Values : value' = [value EXCEPT ![Top(t).file] = v]
    BY <1>3 DEF End
  <2> DEFINE f == Top(t).file
  <2> HIDE DEF f
  <2>3. stack' \in [Threads -> Seq(Frames)] /\ holder' \in [Files -> Threads \cup {None}]
    BY <2>1, <2>2 DEF f
  <2>4. listed' \in [Threads -> SUBSET Files] /\ value' \in [Files -> Values]
    <3>1. listed' \in [Threads -> SUBSET Files]
      BY <2>2
    <3>2. CASE value' = value
      BY <3>1, <3>2
    <3>3. ASSUME NEW v \in Values, value' = [value EXCEPT ![f] = v] PROVE value' \in [Files -> Values]
      BY <3>3
    <3> QED
      BY <2>2, <3>1, <3>2, <3>3 DEF f
  <2> QED
    BY <2>2, <2>3, <2>4
<1>4. CASE Kill(t)
  BY <1>4, EmptySeq DEF Kill
<1> QED
  BY <1>1, <1>2, <1>3, <1>4 DEF Step

(* A step of t keeps what holds of t.                                         *)
LEMMA OwnNext ==
  ASSUME Inv, NEW t \in Threads, Step(t)
  PROVE  Nested(t)' /\ (t \in Python => Listed(t)')
<1> USE NestingAssumption DEF Inv, NestingTypeOK
<1>1. CASE \E f \in Files : Ask(t, f) \/ Refuse(t, f)
  <2>1. UNCHANGED <<holder, value, stack>> /\ Inside(t)' = Inside(t)
    BY <1>1 DEF Ask, Refuse, vars, Inside
  <2>2. Nested(t)'
    BY <2>1 DEF Nested
  <2>3. t \in Python => Listed(t)'
    BY <1>1, <2>1 DEF Listed, Ask, Refuse, vars, MayAsk, Running
  <2> QED
    BY <2>2, <2>3
<1>2. CASE Get(t)
  <2> DEFINE e == [file |-> want[t], seen |-> value[want[t]]]
             n == Len(stack[t])
  <2>1. e \in Frames /\ e.file = want[t] /\ e.seen = value[want[t]] /\ want[t] \in Files
    BY <1>2 DEF Get, Frames
  <2> HIDE DEF e
  <2>2. /\ n \in Nat /\ Len(stack'[t]) = n + 1 /\ stack'[t][n + 1] = e
        /\ \A i \in 1..n : stack'[t][i] = stack[t][i]
    BY <1>2, <2>1, Pushed, FramesTyped DEF Get, e
  <2>3. Inside(t)' = Inside(t) \cup {want[t]}
    <3>1. \A g : g \in Inside(t)' <=> \E i \in 1..(n + 1) : g = stack'[t][i].file
      BY <2>2 DEF Inside
    <3>2. \A g : g \in Inside(t) <=> \E i \in 1..n : g = stack[t][i].file
      BY DEF Inside
    <3>3. \A i : i \in 1..(n + 1) <=> i \in 1..n \/ i = n + 1
      BY <2>2
    <3> HIDE DEF n
    <3>4. ASSUME NEW g PROVE g \in Inside(t)' <=> g \in Inside(t) \/ g = want[t]
      <4>1. stack'[t][n + 1].file = want[t] /\ \A i \in 1..n : stack'[t][i].file = stack[t][i].file
        BY <2>1, <2>2
      <4>2. ASSUME g \in Inside(t)' PROVE g \in Inside(t) \/ g = want[t]
        <5>1. PICK i \in 1..(n + 1) : g = stack'[t][i].file
          BY <3>1, <4>2
        <5> QED
          BY <3>2, <3>3, <4>1, <5>1
      <4>3. g \in Inside(t) => g \in Inside(t)'
        BY <2>2, <3>1, <3>2, <3>3, <4>1
      <4>4. want[t] \in Inside(t)'
        BY <2>2, <3>1, <3>3, <4>1
      <4> QED
        BY <4>2, <4>3, <4>4
    <3> QED
      BY <3>4
  <2>4. want[t] \notin Inside(t)
    BY <1>2, <2>1 DEF Get, Nested, Inside
  <2>5. /\ value' = value /\ holder'[want[t]] = t /\ want'[t] = None
        /\ \A f \in Files : f # want[t] => holder'[f] = holder[f]
    BY <1>2, <2>1 DEF Get
  <2>6. \A i \in 1..n : stack[t][i].file \in Files /\ stack[t][i].file \in Inside(t)
    BY FramesTyped DEF Inside
  <2>7. \A i \in 1..Len(stack'[t]) :
           \/ i \in 1..n /\ stack'[t][i] = stack[t][i]
           \/ i = n + 1 /\ stack'[t][i] = e
    BY <2>2
  <2>8. Nested(t)'
    <3>1. (\A i \in 1..Len(stack[t]) :
            /\ holder[stack[t][i].file] = t
            /\ value[stack[t][i].file] = stack[t][i].seen)'
      <4> SUFFICES ASSUME NEW i \in 1..Len(stack'[t])
                   PROVE  /\ holder'[stack'[t][i].file] = t
                          /\ value'[stack'[t][i].file] = stack'[t][i].seen
        OBVIOUS
      <4>1. CASE i \in 1..n /\ stack'[t][i] = stack[t][i]
        BY <2>4, <2>5, <2>6, <4>1 DEF Nested
      <4>2. CASE i = n + 1 /\ stack'[t][i] = e
        BY <2>1, <2>5, <4>2
      <4> QED
        BY <2>7, <4>1, <4>2
    <3>2. (\A i, j \in 1..Len(stack[t]) : i # j => stack[t][i].file # stack[t][j].file)'
      <4> SUFFICES ASSUME NEW i \in 1..Len(stack'[t]), NEW j \in 1..Len(stack'[t]), i # j
                   PROVE  stack'[t][i].file # stack'[t][j].file
        OBVIOUS
      <4>1. CASE i \in 1..n /\ j \in 1..n
        BY <2>2, <4>1 DEF Nested
      <4>2. CASE i \in 1..n /\ j = n + 1
        BY <2>1, <2>2, <2>4, <2>6, <4>2
      <4>3. CASE i = n + 1 /\ j \in 1..n
        BY <2>1, <2>2, <2>4, <2>6, <4>3
      <4> QED
        BY <2>7, <4>1, <4>2, <4>3
    <3>3. (\A f \in Files : holder[f] = t => f \in Inside(t))'
      BY <2>3, <2>5 DEF Nested
    <3> QED
      BY <3>1, <3>2, <3>3 DEF Nested
  <2>9. t \in Python => Listed(t)'
    BY <1>2, <2>1, <2>3, <2>5 DEF Listed, Get
  <2> QED
    BY <2>8, <2>9
<1>3. CASE End(t)
  <2> DEFINE f == Top(t).file
             n == Len(stack[t])
  <2>1. /\ n \in Nat \ {0} /\ Len(stack'[t]) = n - 1
        /\ \A i \in 1..(n - 1) : stack'[t][i] = stack[t][i]
        /\ f \in Files /\ stack[t][n].file = f
    BY <1>3, Popped, FramesTyped DEF End, Top
  <2>2. /\ \A i \in 1..n : /\ stack[t][i].file \in Files
                           /\ holder[stack[t][i].file] = t
                           /\ value[stack[t][i].file] = stack[t][i].seen
        /\ \A i, j \in 1..n : i # j => stack[t][i].file # stack[t][j].file
        /\ \A g \in Files : holder[g] = t => g \in Inside(t)
    BY FramesTyped DEF Nested
  <2>3. /\ holder'[f] = None /\ want' = want /\ want[t] = None
        /\ listed'[t] = listed[t] \ {f}
        /\ \A g \in Files : g # f => holder'[g] = holder[g] /\ value'[g] = value[g]
    BY <1>3, <2>1 DEF End, Running
  <2>4. \A g : g \in Inside(t) <=> \E i \in 1..n : g = stack[t][i].file
    BY DEF Inside
  <2>5. \A g : g \in Inside(t)' <=> \E i \in 1..(n - 1) : g = stack'[t][i].file
    BY <2>1 DEF Inside
  <2> HIDE DEF f, n
  <2>6. \A i : i \in 1..n <=> i \in 1..(n - 1) \/ i = n
    BY <2>1
  <2>7. \A i \in 1..(n - 1) : i \in 1..n /\ i # n /\ stack[t][i].file # f
    <3>1. \A i \in 1..(n - 1) : i # n
      BY <2>1
    <3> QED
      BY <2>1, <2>2, <2>6, <3>1
  <2>8. Inside(t)' = Inside(t) \ {f}
    <3>1. ASSUME NEW g PROVE g \in Inside(t)' <=> g \in Inside(t) /\ g # f
      <4>1. \A i \in 1..(n - 1) : stack'[t][i].file = stack[t][i].file
        BY <2>1
      <4>2. g \in Inside(t)' => g \in Inside(t) /\ g # f
        BY <2>4, <2>5, <2>7, <4>1
      <4>3. g \in Inside(t) /\ g # f => g \in Inside(t)'
        BY <2>1, <2>4, <2>5, <2>6, <4>1
      <4> QED
        BY <4>2, <4>3
    <3> QED
      BY <3>1
  <2>9. Nested(t)'
    <3>1. (\A i \in 1..Len(stack[t]) :
            /\ holder[stack[t][i].file] = t
            /\ value[stack[t][i].file] = stack[t][i].seen)'
      <4> SUFFICES ASSUME NEW i \in 1..(n - 1)
                   PROVE  /\ holder'[stack'[t][i].file] = t
                          /\ value'[stack'[t][i].file] = stack'[t][i].seen
        BY <2>1
      <4>1. stack'[t][i] = stack[t][i] /\ i \in 1..n /\ stack[t][i].file # f
        BY <2>1, <2>7
      <4> DEFINE g == stack[t][i].file
      <4>2. g \in Files /\ g # f /\ holder[g] = t /\ value[g] = stack[t][i].seen
        BY <2>2, <4>1
      <4>3. holder'[g] = holder[g] /\ value'[g] = value[g]
        BY <2>3, <4>2
      <4> QED
        BY <4>1, <4>2, <4>3
    <3>2. (\A i, j \in 1..Len(stack[t]) : i # j => stack[t][i].file # stack[t][j].file)'
      BY <2>1, <2>2, <2>7
    <3>3. (\A g \in Files : holder[g] = t => g \in Inside(t))'
      BY <2>2, <2>3, <2>8
    <3> QED
      BY <3>1, <3>2, <3>3 DEF Nested
  <2>10. t \in Python => Listed(t)'
    BY <2>3, <2>8 DEF Listed
  <2> QED
    BY <2>9, <2>10
<1>4. CASE Kill(t)
  <2>1. stack'[t] = <<>> /\ want'[t] = None /\ listed'[t] = {} /\ Len(stack'[t]) = 0
        /\ \A f \in Files : holder'[f] # t
    BY <1>4 DEF Kill
  <2>2. Inside(t)' = {}
    BY <2>1 DEF Inside
  <2> QED
    BY <2>1, <2>2 DEF Nested, Listed
<1> QED
  BY <1>1, <1>2, <1>3, <1>4 DEF Step

--------------------------------------------------------------------------------
(* The invariants of the locks, at any depth and whatever edits call.         *)
THEOREM NestingHolds == Spec => []Inv
<1>1. Init => Inv
  BY NestingAssumption, EmptySeq DEF Init, Inv, NestingTypeOK, Nested, Listed, Inside
<1>2. Inv /\ [Next]_vars => Inv'
  <2> SUFFICES ASSUME Inv, [Next]_vars PROVE Inv'
    OBVIOUS
  <2>1. ASSUME NEW t \in Threads, Step(t) PROVE Inv'
    BY <2>1, TypesNext, OwnNext, OthersStand, NestingAssumption DEF Inv
  <2>2. CASE UNCHANGED vars
    <3>1. \A t \in Threads : Inside(t)' = Inside(t)
      BY <2>2 DEF vars, Inside
    <3>2. NestingTypeOK'
      BY <2>2 DEF vars, Inv, NestingTypeOK
    <3>3. ASSUME NEW t \in Threads PROVE Nested(t)'
      BY <2>2, <3>1, <3>3 DEF vars, Inv, Nested
    <3>4. ASSUME NEW t \in Python PROVE Listed(t)'
      BY <2>2, <3>1, <3>4, NestingAssumption DEF vars, Inv, Listed
    <3> QED
      BY <3>2, <3>3, <3>4 DEF Inv
  <2> QED
    BY <2>1, <2>2 DEF Next
<1> QED
  BY <1>1, <1>2, PTL DEF Spec

(* Every edit a thread is inside of has its file to itself, as it was shown.  *)
THEOREM NestedEditsAreSafe == Spec => []NestedEditsSeeTruth
<1>1. Inv => NestedEditsSeeTruth
  BY DEF Inv, Nested, NestedEditsSeeTruth
<1> QED
  BY <1>1, NestingHolds, PTL

(* No Python thread ever waits for itself.                                    *)
THEOREM PythonNeverWaitsForItself == Spec => []PythonIsTold
<1>1. Inv => PythonIsTold
  BY NestingAssumption DEF Inv, NestingTypeOK, Nested, Listed, PythonIsTold, Waits
<1> QED
  BY <1>1, NestingHolds, PTL

--------------------------------------------------------------------------------
(* Edits call in one order of the files; Python's may also try their own.     *)
Orderly(rank) ==
    /\ rank \in [Files -> Nat]
    /\ \A t \in Threads : \A f, g \in Files :
          <<f, g>> \in Nests[t] => rank[g] < rank[f] \/ (t \in Python /\ f = g)

(* Then a thread goes down in that order, and waits below all it is inside.   *)
Descending(rank, t) ==
    /\ \A i, j \in 1..Len(stack[t]) : i < j => rank[stack[t][j].file] < rank[stack[t][i].file]
    /\ want[t] # None => \A i \in 1..Len(stack[t]) : rank[want[t]] < rank[stack[t][i].file]

(* A call that an orderly edit makes is below every file the thread is inside. *)
LEMMA AskDescends ==
  ASSUME NEW rank, Orderly(rank), Inv, NEW t \in Threads, Descending(rank, t),
         NEW f \in Files, Ask(t, f)
  PROVE  Descending(rank, t)'
<1> DEFINE n == Len(stack[t])
<1>1. /\ stack'[t] = stack[t] /\ want'[t] = f /\ want[t] = None
      /\ stack[t] # <<>> => <<Top(t).file, f>> \in Nests[t]
      /\ t \in Python => f \notin listed[t]
  BY DEF Ask, MayAsk, Running, Inv, NestingTypeOK
<1>2. SUFFICES ASSUME NEW i \in 1..n PROVE rank[f] < rank[stack[t][i].file]
  BY <1>1 DEF Descending
<1>3. /\ n \in Nat \ {0} /\ n \in 1..n /\ stack[t] # <<>>
      /\ stack[t][n].file \in Files /\ stack[t][i].file \in Files
  BY FramesTyped, EmptySeq DEF Inv
<1>4. t \in Python => f # stack[t][n].file
  <2>1. stack[t][n].file \in Inside(t)
    BY <1>3 DEF Inside
  <2> QED
    BY <1>1, <2>1 DEF Inv, Listed
<1>5. rank[f] < rank[stack[t][n].file]
  BY <1>1, <1>3, <1>4 DEF Orderly, Top
<1>6. i = n \/ rank[stack[t][n].file] < rank[stack[t][i].file]
  BY <1>3 DEF Descending
<1> QED
  <2>1. rank[f] \in Nat /\ rank[stack[t][n].file] \in Nat /\ rank[stack[t][i].file] \in Nat
    BY <1>3 DEF Orderly
  <2> QED
    BY <1>5, <1>6, <2>1

(* Every step keeps the order. *)
LEMMA DescendingNext ==
  ASSUME NEW rank, Orderly(rank), Inv, NEW t \in Threads, Step(t), NEW u \in Threads,
         Descending(rank, u)
  PROVE  Descending(rank, u)'
<1> USE DEF Inv, NestingTypeOK
<1>1. CASE u # t
  <2>1. stack'[u] = stack[u] /\ want'[u] = want[u]
    BY <1>1 DEF Step, Ask, Refuse, Get, End, Kill, vars
  <2> QED
    BY <2>1 DEF Descending
<1>2. CASE u = t /\ \E f \in Files : Ask(t, f) \/ Refuse(t, f)
  BY <1>2, AskDescends DEF Refuse, vars, Descending
<1>3. CASE u = t /\ Get(t)
  <2> DEFINE n == Len(stack[t])
             e == [file |-> want[t], seen |-> value[want[t]]]
  <2>1. e \in Frames /\ e.file = want[t] /\ want[t] # None
    BY <1>3 DEF Get, Frames
  <2> HIDE DEF e
  <2>2. /\ n \in Nat /\ Len(stack'[t]) = n + 1 /\ stack'[t][n + 1] = e
        /\ \A i \in 1..n : stack'[t][i] = stack[t][i]
        /\ want'[t] = None
    BY <1>3, <2>1, Pushed, FramesTyped DEF Get, e
  <2>3. /\ \A i, j \in 1..n : i < j => rank[stack[t][j].file] < rank[stack[t][i].file]
        /\ \A i \in 1..n : rank[want[t]] < rank[stack[t][i].file]
    BY <1>3, <2>1 DEF Descending
  <2> HIDE DEF n
  <2>4. SUFFICES ASSUME NEW i \in 1..(n + 1), NEW j \in 1..(n + 1), i < j
                 PROVE  rank[stack'[t][j].file] < rank[stack'[t][i].file]
    BY <1>3, <2>2 DEF Descending
  <2>5. i \in 1..n /\ (j \in 1..n \/ j = n + 1)
    BY <2>2, <2>4
  <2> QED
    BY <2>1, <2>2, <2>3, <2>4, <2>5
<1>4. CASE u = t /\ End(t)
  <2> DEFINE n == Len(stack[t])
  <2>1. /\ n \in Nat \ {0} /\ Len(stack'[t]) = n - 1 /\ want'[t] = None
        /\ \A i \in 1..(n - 1) : stack'[t][i] = stack[t][i] /\ i \in 1..n
    BY <1>4, Popped, FramesTyped DEF End, Running
  <2> QED
    BY <1>4, <2>1 DEF Descending
<1>5. CASE u = t /\ Kill(t)
  <2>1. want'[t] = None /\ Len(stack'[t]) = 0
    BY <1>5 DEF Kill
  <2> QED
    BY <1>5, <2>1 DEF Descending
<1> QED
  BY <1>1, <1>2, <1>3, <1>4, <1>5 DEF Step

(* Of the files that a set of threads waits for, the lowest is held by no     *)
(* thread of the set: it would wait for a lower one.                          *)
LEMMA LowestIsFree ==
  ASSUME NEW rank, Orderly(rank), Inv, \A t \in Threads : Descending(rank, t)
  PROVE  NoStandstill
<1> SUFFICES ASSUME NEW S \in (SUBSET Threads) \ {{}}, \A t \in S : \E u \in S : Waits(t, u)
             PROVE  FALSE
  BY DEF NoStandstill
<1>1. \A t \in S : want[t] \in Files /\ rank[want[t]] \in Nat
  BY DEF Waits, Inv, NestingTypeOK, Orderly
<1> DEFINE R == {rank[want[t]] : t \in S}
<1>2. PICK r \in R : \A q \in R : ~(q < r)
  <2>1. R \subseteq Nat /\ R # {}
    BY <1>1
  <2> HIDE DEF R
  <2>2. \E r \in R : \A q \in R : ~(<<q, r>> \in OpToRel(<, Nat))
    BY <2>1, WFMin, NatLessThanWellFounded
  <2> QED
    BY <2>1, <2>2 DEF OpToRel
<1>3. PICK t \in S : r = rank[want[t]]
  BY <1>2
<1>4. PICK u \in S : Waits(t, u)
  OBVIOUS
<1>5. want[t] \in Inside(u) /\ want[u] # None
  BY <1>1, <1>4 DEF Inv, Nested, Waits
<1>6. rank[want[u]] < rank[want[t]]
  BY <1>5 DEF Inside, Descending
<1> QED
  BY <1>2, <1>3, <1>6

(* Edits that call in one order of the files never stand still, in whatever   *)
(* number of threads, over whatever files.                                    *)
THEOREM OrderedEditsNeverStandStill ==
  ASSUME NEW rank, Orderly(rank) PROVE Spec => []NoStandstill
<1> DEFINE Down == \A t \in Threads : Descending(rank, t)
<1>1. Init => Down
  BY DEF Init, Descending
<1>2. Inv /\ Down /\ [Next]_vars => Down'
  <2> SUFFICES ASSUME Inv, Down, [Next]_vars PROVE Down'
    OBVIOUS
  <2>1. CASE UNCHANGED vars
    BY <2>1 DEF vars, Descending
  <2> QED
    BY <2>1, DescendingNext DEF Next
<1>3. Inv /\ Down => NoStandstill
  BY LowestIsFree
<1> QED
  BY <1>1, <1>2, <1>3, NestingHolds, PTL DEF Spec
================================================================================
