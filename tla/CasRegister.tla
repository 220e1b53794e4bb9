------------------------------ MODULE CasRegister ------------------------------
(***************************************************************************)
(* What the library promises about ONE path: a register that many callers  *)
(* read, write against a base, and change through an edit, each call       *)
(* taking effect at a single instant between its invocation and its        *)
(* answer.  Nothing is said here of locks, staged files or directories:    *)
(* FileCas shows that the protocol of go/cas.go implements this module.    *)
(*                                                                         *)
(* Every answer but two tells the caller exactly what happened.  The two   *)
(* are "oserror", which a caller also gets when its value is already in    *)
(* place and only the directory sync failed, and the silence of a killed   *)
(* caller.                                                                 *)
(***************************************************************************)
EXTENDS Integers

CONSTANTS
    Procs,       \* the callers: threads, and processes, of any language
    Values,      \* the byte strings a file can hold
    Nil,         \* no value: the file is missing
    None,        \* no call
    Requests,    \* the calls that callers make
    Size,        \* Size[v] is the length of the value v
    EditErrors   \* the errors an edit may answer with instead of a value

VARIABLES
    value,       \* what the path holds, or Nil
    call,        \* call[p] is the request p is making, or None
    phase,       \* how far the call of p has come
    seen,        \* what the read of p has observed
    status       \* the answer of p's call, once it has one

vars == <<value, call, phase, seen, status>>

Init ==
    /\ value = Nil
    /\ call = [p \in Procs |-> None]
    /\ phase = [p \in Procs |-> "idle"]
    /\ seen = [p \in Procs |-> Nil]
    /\ status = [p \in Procs |-> "none"]

(* A limit of 0 means that the caller named none. *)
TooLarge(r, c) == r.limit # 0 /\ c # Nil /\ Size[c] > r.limit

(* The value that the request r puts in place of the current one, and whether *)
(* the register takes it.                                                     *)
Replacement(r) == IF r.kind = "write" THEN r.data ELSE r.edit[value]

Accepts(r) ==
    \/ /\ r.kind = "write"
       /\ r.data # Nil
       /\ r.base = value
    \/ /\ r.kind = "change"
       /\ ~TooLarge(r, value)
       /\ r.edit[value] \in Values \ {value}
       /\ ~TooLarge(r, r.edit[value])

(* The answers a call may get without the register having changed, and what   *)
(* must be true of the register at that instant.                              *)
Answers(r, s) ==
    \/ s = "oserror"
    \/ /\ s = "ok"
       /\ \/ r.kind = "sweep"
          \/ r.kind = "change" /\ r.edit[value] = value /\ ~TooLarge(r, value)
    \/ /\ s = "moved"
       /\ r.kind = "write"
       /\ r.data # Nil
       /\ r.base # value
    \/ /\ s = "novalue"
       /\ \/ r.kind = "write" /\ r.data = Nil
          \/ r.kind = "change" /\ value # Nil /\ r.edit[value] = Nil
    \/ /\ s = "toolarge"
       /\ r.kind = "change"
       /\ \/ TooLarge(r, value)
          \/ r.edit[value] \in Values /\ TooLarge(r, r.edit[value])
    \/ /\ s = "cancelled"
       /\ r.kind = "change"
       /\ r.deadline
    \/ /\ s \in EditErrors
       /\ r.kind = "change"
       /\ ~TooLarge(r, value)
       /\ r.edit[value] = s

Invoke(p, r) ==
    /\ phase[p] = "idle"
    /\ phase' = [phase EXCEPT ![p] = "waiting"]
    /\ call' = [call EXCEPT ![p] = r]
    /\ UNCHANGED <<value, seen, status>>

(* The instant of a read. *)
Observe(p) ==
    /\ phase[p] = "waiting"
    /\ call[p].kind = "read"
    /\ phase' = [phase EXCEPT ![p] = "observed"]
    /\ seen' = [seen EXCEPT ![p] = value]
    /\ UNCHANGED <<value, call, status>>

Deliver(p) ==
    /\ phase[p] = "observed"
    /\ phase' = [phase EXCEPT ![p] = "answered"]
    /\ \/ /\ ~TooLarge(call[p], seen[p])
          /\ status' = [status EXCEPT ![p] = "ok"]
          /\ UNCHANGED seen
       \/ /\ TooLarge(call[p], seen[p])
          /\ status' = [status EXCEPT ![p] = "toolarge"]
          /\ seen' = [seen EXCEPT ![p] = Nil]
       \/ /\ status' = [status EXCEPT ![p] = "oserror"]
          /\ seen' = [seen EXCEPT ![p] = Nil]
    /\ UNCHANGED <<value, call>>

(* The instant of a write or of a change. *)
Apply(p) ==
    /\ phase[p] = "waiting"
    /\ Accepts(call[p])
    /\ value' = Replacement(call[p])
    /\ phase' = [phase EXCEPT ![p] = "applied"]
    /\ UNCHANGED <<call, seen, status>>

Acknowledge(p) ==
    /\ phase[p] = "applied"
    /\ phase' = [phase EXCEPT ![p] = "answered"]
    /\ \E s \in {"ok", "oserror"} : status' = [status EXCEPT ![p] = s]
    /\ UNCHANGED <<value, call, seen>>

(* The instant of a call that changes nothing. *)
Answer(p, s) ==
    /\ phase[p] = "waiting"
    /\ Answers(call[p], s)
    /\ phase' = [phase EXCEPT ![p] = "answered"]
    /\ status' = [status EXCEPT ![p] = s]
    /\ UNCHANGED <<value, call, seen>>

Forget(p) ==
    /\ phase' = [phase EXCEPT ![p] = "idle"]
    /\ call' = [call EXCEPT ![p] = None]
    /\ seen' = [seen EXCEPT ![p] = Nil]
    /\ status' = [status EXCEPT ![p] = "none"]
    /\ UNCHANGED value

Return(p) == phase[p] = "answered" /\ Forget(p)

Kill(p) == phase[p] # "idle" /\ Forget(p)

Statuses ==
    {"ok", "moved", "novalue", "toolarge", "cancelled", "oserror"} \cup EditErrors

Next == \E p \in Procs :
    \/ \E r \in Requests : Invoke(p, r)
    \/ Observe(p)
    \/ Deliver(p)
    \/ Apply(p)
    \/ Acknowledge(p)
    \/ \E s \in Statuses : Answer(p, s)
    \/ Return(p)
    \/ Kill(p)

Spec == Init /\ [][Next]_vars
================================================================================
