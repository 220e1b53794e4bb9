-------------------------------- MODULE Nesting --------------------------------
(***************************************************************************)
(* Calls made by edits.  An edit runs while its call holds the lock of the *)
(* file, and may call Change, Write or Sweep itself: the locks of one      *)
(* thread are those of the edits it is inside of.  Locks belong to the     *)
(* handle that took them, so that a thread's second handle waits for its   *)
(* first.  Python keeps, for each thread, the set of the files it has a    *)
(* call on, and raises Reentrant where Go and C++ wait.                    *)
(*                                                                         *)
(* A call is here what FileCas shows it to be: the lock is taken, the file *)
(* is read, the edit runs, and the value is replaced, or not, before the   *)
(* lock goes.  A Write and a Sweep are calls whose edit calls nothing.     *)
(***************************************************************************)
EXTENDS Integers, Sequences, FiniteSets

CONSTANTS Threads, Files, Values, None,
    Python,      \* the threads that run the Python provider
    Nests,       \* Nests[t]: <<f, g>> when t's edits of f may call on g
    Kills        \* whether threads may be killed

ASSUME NestingAssumption ==
    /\ Nests \in [Threads -> SUBSET (Files \X Files)]
    /\ Python \subseteq Threads
    /\ None \notin Threads \cup Files

VARIABLES
    holder,   \* holder[f]: the thread whose handle holds the lock of f
    value,    \* value[f]: what f holds
    stack,    \* stack[t]: the edits t is inside of, [file, seen], innermost last
    want,     \* want[t]: the file whose lock t is waiting for, or None
    listed    \* listed[t]: Python's set of the files t has a call on

vars == <<holder, value, stack, want, listed>>

Frames == [file : Files, seen : Values]

(* The type invariant. *)
NestingTypeOK ==
    /\ holder \in [Files -> Threads \cup {None}]
    /\ value \in [Files -> Values]
    /\ stack \in [Threads -> Seq(Frames)]
    /\ want \in [Threads -> Files \cup {None}]
    /\ listed \in [Threads -> SUBSET Files]

Init ==
    /\ holder = [f \in Files |-> None]
    /\ value \in [Files -> Values]
    /\ stack = [t \in Threads |-> <<>>]
    /\ want = [t \in Threads |-> None]
    /\ listed = [t \in Threads |-> {}]

Top(t)     == stack[t][Len(stack[t])]
Pop(s)     == SubSeq(s, 1, Len(s) - 1)
Inside(t)  == {stack[t][i].file : i \in 1..Len(stack[t])}
Running(t) == want[t] = None
MayAsk(t, f) == Running(t) /\ (stack[t] # <<>> => <<Top(t).file, f>> \in Nests[t])

--------------------------------------------------------------------------------
(* As a slip would have it: nobody looks at the list. *)
AskUnchecked(t, f) ==
    /\ MayAsk(t, f)
    /\ want' = [want EXCEPT ![t] = f]
    /\ UNCHANGED <<holder, value, stack, listed>>

(* A call on f begins: Python looks f up and lists it, before it waits.       *)
Ask(t, f) ==
    /\ MayAsk(t, f)
    /\ t \in Python => f \notin listed[t]
    /\ want' = [want EXCEPT ![t] = f]
    /\ listed' = IF t \in Python THEN [listed EXCEPT ![t] = @ \cup {f}] ELSE listed
    /\ UNCHANGED <<holder, value, stack>>

(* As a slip would have it: the check is inside the try, whose finally takes  *)
(* the file off the list.                                                     *)
RefuseUnlisting(t, f) ==
    /\ MayAsk(t, f)
    /\ t \in Python /\ f \in listed[t]
    /\ listed' = [listed EXCEPT ![t] = @ \ {f}]
    /\ UNCHANGED <<holder, value, stack, want>>

(* Reentrant is raised in the edit, which may catch it and go on, or end.     *)
Refuse(t, f) ==
    /\ MayAsk(t, f)
    /\ t \in Python /\ f \in listed[t]
    /\ UNCHANGED vars

(* The lock is taken and the file read; the edit runs from here.              *)
Get(t) ==
    /\ want[t] # None
    /\ holder[want[t]] = None
    /\ holder' = [holder EXCEPT ![want[t]] = t]
    /\ stack' = [stack EXCEPT ![t] = Append(@, [file |-> want[t], seen |-> value[want[t]]])]
    /\ want' = [want EXCEPT ![t] = None]
    /\ UNCHANGED <<value, listed>>

(* As a slip would have it: the lock stays when the edit fails.               *)
EndLeaking(t) ==
    /\ Running(t) /\ stack[t] # <<>>
    /\ \/ \E v \in Values : value' = [value EXCEPT ![Top(t).file] = v]
          /\ holder' = [holder EXCEPT ![Top(t).file] = None]
       \/ UNCHANGED <<value, holder>>
    /\ stack' = [stack EXCEPT ![t] = Pop(@)]
    /\ listed' = [listed EXCEPT ![t] = @ \ {Top(t).file}]
    /\ UNCHANGED want

(* As a slip would have it: every lock of the thread goes (fcntl's way).      *)
EndReleasingAll(t) ==
    /\ Running(t) /\ stack[t] # <<>>
    /\ LET f == Top(t).file
       IN  /\ \/ UNCHANGED value
              \/ value[f] = Top(t).seen /\ \E v \in Values : value' = [value EXCEPT ![f] = v]
           /\ holder' = [g \in Files |-> IF holder[g] = t THEN None ELSE holder[g]]
           /\ listed' = [listed EXCEPT ![t] = @ \ {f}]
    /\ stack' = [stack EXCEPT ![t] = Pop(@)]
    /\ UNCHANGED want

(* The innermost edit ends: it fails, keeps the value, is refused because the *)
(* value has moved, or replaces it.  The lock goes with the handle.           *)
End(t) ==
    /\ Running(t) /\ stack[t] # <<>>
    /\ LET f == Top(t).file
       IN  /\ \/ UNCHANGED value
              \/ value[f] = Top(t).seen /\ \E v \in Values : value' = [value EXCEPT ![f] = v]
           /\ holder' = [holder EXCEPT ![f] = None]
           /\ listed' = [listed EXCEPT ![t] = @ \ {f}]
    /\ stack' = [stack EXCEPT ![t] = Pop(@)]
    /\ UNCHANGED want

(* A thread is killed, with its process: its handles are closed.              *)
Kill(t) ==
    /\ Kills
    /\ holder' = [f \in Files |-> IF holder[f] = t THEN None ELSE holder[f]]
    /\ stack' = [stack EXCEPT ![t] = <<>>]
    /\ want' = [want EXCEPT ![t] = None]
    /\ listed' = [listed EXCEPT ![t] = {}]
    /\ UNCHANGED value

Step(t) ==
    \/ \E f \in Files : Ask(t, f) \/ Refuse(t, f)
    \/ Get(t) \/ End(t) \/ Kill(t)

Next == \E t \in Threads : Step(t)

Spec == Init /\ [][Next]_vars

(* Threads are scheduled, and edits end: one that comes back from its calls   *)
(* again and again returns some time, at each depth.  flock need not be fair: *)
(* a waiter may be overtaken, but not for ever once no thread makes a new     *)
(* call of its own.                                                           *)
QuietSpec ==
    /\ Spec
    /\ \A t \in Threads : WF_vars(Get(t))
    /\ \A t \in Threads, n \in 1..Cardinality(Files) : SF_vars(End(t) /\ Len(stack[t]) = n)
    /\ <>[][\A t \in Threads : ~(stack[t] = <<>> /\ want'[t] # want[t] /\ want[t] = None)]_vars

--------------------------------------------------------------------------------
Waits(t, u) == want[t] # None /\ holder[want[t]] = u

(* Edits that call in one order of the files never stand still: there is no   *)
(* set of threads that all wait for one another.                              *)
NoStandstill ==
    \A S \in (SUBSET Threads) \ {{}} : \E t \in S : ~\E u \in S : Waits(t, u)

(* A Python thread never waits for itself: whatever its edits call, and       *)
(* whatever they do with a Reentrant, it is told instead.                     *)
PythonIsTold == \A t \in Python : ~Waits(t, t)

(* Every edit a thread is inside of, not only the innermost, still has its    *)
(* file to itself and as it was shown it.                                     *)
NestedEditsSeeTruth ==
    \A t \in Threads : \A i \in 1..Len(stack[t]) :
        LET f == stack[t][i].file
        IN  holder[f] = t /\ value[f] = stack[t][i].seen

(* Every call ends, the nested ones and those that wait for them.             *)
NestedCallsEnd == \A t \in Threads : (want[t] # None \/ stack[t] # <<>>) ~> (stack[t] = <<>> /\ want[t] = None)
================================================================================
