-------------------------------- MODULE Denials --------------------------------
(***************************************************************************)
(* FileCas where the operating system denies.                              *)
(*                                                                         *)
(* Windows answers access denied, or a sharing violation, to an open and   *)
(* to a rename: for an instant while a writer replaces the file, while a   *)
(* program holds the file without delete sharing, or for good.  Over SMB   *)
(* every open handle on the file denies its replacement, a reader's of     *)
(* ours included.  A denied try is made again, with everything the call    *)
(* holds, until its tries or, for an open, the caller's context end.  The  *)
(* last denial is then an error of the operating system as any other, and  *)
(* ErrRefused is one of those.                                             *)
(*                                                                         *)
(* A rename of Go's os.Root may over SMB not answer the denial at all: the *)
(* call then stalls inside its try, with its lock and its staged file, and *)
(* neither its tries nor its context end it.  Python's and C++'s answer.   *)
(*                                                                         *)
(* Who denies and for how long is the environment's choice at each try.    *)
(***************************************************************************)
EXTENDS FileCas

CONSTANTS
    ReadTries,    \* the denials after which an open fails at the next (2000)
    RenameTries,  \* the denials with which a rename fails (1000)
    Hasty,        \* the calls whose deadline ends long before their tries do
    OverSMB,      \* whether a reader's handle denies the replacement
    Stalling      \* the callers whose denied rename may not return over SMB

ASSUME DenialsAssumption ==
    /\ ReadTries \in Nat /\ RenameTries \in Nat
    /\ {"open", "read", "rename"} \subseteq Faults
    /\ Hasty \subseteq {r \in Requests : r.kind \in {"read", "change"} /\ r.deadline}
    /\ Stalling \subseteq Procs

VARIABLES
    tries,    \* tries[p]: the denials p has met in the loop it is in
    stalled   \* the callers inside a rename that has not returned

deniedVars == <<vars, tries, stalled>>

DenialsTypeOK ==
    /\ tries \in [Procs -> Nat]
    /\ stalled \in SUBSET Stalling

DenialsInit ==
    /\ Init
    /\ tries = [p \in Procs |-> 0]
    /\ stalled = {}

(* The steps that open the data file; a write of no value does not come to it. *)
Opening(p) ==
    \/ At(p, "open")
    \/ At(p, "current")
    \/ At(p, "compare") /\ data[p] # Nil

(* A reader keeps the file from being replaced.                               *)
Held == OverSMB /\ target # None /\ \E q \in Procs : At(q, "load") /\ fd[q] = target

--------------------------------------------------------------------------------
(* Of the two ends of the loop, the count comes into play for these calls.    *)
Counted(p) == op[p] \notin Hasty

(* As a slip would have it: the context looked at before the first try only.  *)
GivesUpByCount(p) == (Counted(p) /\ tries[p] >= ReadTries) \/ (tries[p] = 0 /\ expired[p])

GivesUp(p) == (Counted(p) /\ tries[p] >= ReadTries) \/ expired[p]

(* As a slip would have it: a loop that only the context ends.                *)
DeniedOpenUncounted(p) ==
    /\ Opening(p)
    /\ \/ /\ ~expired[p]
          /\ tries' = [tries EXCEPT ![p] = 1 + (@ % 2)]
          /\ UNCHANGED vars
       \/ /\ expired[p]
          /\ tries' = [tries EXCEPT ![p] = 0]
          /\ Finish(p, "oserror")
          /\ UNCHANGED <<op, base, data, fd, todo, expired, holder, disk>>

(* Of tries that are not counted it is told only which is the first, and each *)
(* from the one before, since every try is a step.                            *)
DeniedOpen(p) ==
    /\ Opening(p)
    /\ \/ /\ ~GivesUp(p)
          /\ tries' = [tries EXCEPT ![p] = IF Counted(p) THEN @ + 1 ELSE 1 + (@ % 2)]
          /\ UNCHANGED vars
       \/ /\ GivesUp(p)
          /\ tries' = [tries EXCEPT ![p] = 0]
          /\ Finish(p, "oserror")
          /\ UNCHANGED <<op, base, data, fd, todo, expired, holder, disk>>

(* As a slip would have it: the last denial leaves the staged file.           *)
DeniedRenameLeaving(p) ==
    /\ At(p, "rename")
    /\ \/ /\ tries[p] + 1 < RenameTries
          /\ tries' = [tries EXCEPT ![p] = @ + 1]
          /\ UNCHANGED vars
       \/ /\ tries[p] + 1 >= RenameTries
          /\ tries' = [tries EXCEPT ![p] = 0]
          /\ fd' = [fd EXCEPT ![p] = None]
          /\ Finish(p, "oserror")
          /\ UNCHANGED <<op, base, data, todo, expired, holder, disk>>

(* The replacement looks at no context.  Its last denial removes the staged   *)
(* file.                                                                      *)
DeniedRename(p) ==
    /\ At(p, "rename")
    /\ \/ /\ tries[p] + 1 < RenameTries
          /\ tries' = [tries EXCEPT ![p] = @ + 1]
          /\ UNCHANGED vars
       \/ /\ tries[p] + 1 >= RenameTries
          /\ tries' = [tries EXCEPT ![p] = 0]
          /\ Discard(p)
          /\ Finish(p, "oserror")
          /\ UNCHANGED <<op, base, data, todo, expired, holder, target, file>>

(* A try over SMB that does not return, and the end of one.  README.md has a  *)
(* call killed after 90 s under a handle that stayed open; whether any comes  *)
(* back later is left open.                                                   *)
Stall(p) ==
    /\ OverSMB /\ p \in Stalling \ stalled
    /\ At(p, "rename")
    /\ stalled' = stalled \cup {p}
    /\ UNCHANGED <<vars, tries>>

Recover(p) ==
    /\ p \in stalled
    /\ stalled' = stalled \ {p}
    /\ UNCHANGED <<vars, tries>>

(* A step of FileCas that is not denied.  Each loop counts from nothing.      *)
Granted(p) ==
    /\ Work(p) \/ Edit(p)
    /\ ~(At(p, "rename") /\ Held)
    /\ tries' = [tries EXCEPT ![p] = 0]

Outside(p) ==
    /\ Environment(p)
    /\ IF pc'[p] = pc[p] THEN UNCHANGED <<tries, stalled>>
       ELSE tries' = [tries EXCEPT ![p] = 0] /\ stalled' = stalled \ {p}

Try(p) ==
    /\ p \notin stalled
    /\ Granted(p) \/ DeniedOpen(p) \/ DeniedRename(p)
    /\ UNCHANGED stalled

DenialsNext == \E p \in Procs : Outside(p) \/ Stall(p) \/ Recover(p) \/ Try(p)

DenialsSpec == DenialsInit /\ [][DenialsNext]_deniedVars

--------------------------------------------------------------------------------
(* Whatever is denied, whenever and for however long, a call does nothing     *)
(* that FileCas does not: what it has read, locked and staged stays its own   *)
(* between two tries, and is given back after the last.                       *)
KeepsToTheProtocol == Spec

(* Every caller takes its steps, unless it is stalled, and nobody denies any  *)
(* the less for it.                                                           *)
FairDenials == DenialsSpec /\ \A p \in Procs : WF_deniedVars(Try(p))

(* Contexts end some time, a waiter's select does not prefer its timer every  *)
(* time, and calls stop coming.                                               *)
QuietDenials ==
    /\ FairDenials
    /\ \A p \in Procs :
          WF_deniedVars(Outside(p) /\ Expire(p)) /\ SF_deniedVars(Try(p) /\ GiveUp(p))
    /\ <>[][\A p \in Procs, r \in Requests : ~Call(p, r)]_deniedVars

(* Whoever denies what, for however long, a call ends, by its tries or by its *)
(* deadline.  It may be kept for ever only by a rename that does not return,  *)
(* its own or that of the caller whose lock it waits for without a deadline:  *)
(* nobody else waits for a stalled call, no read and no polling change.       *)
Kept(p) ==
    \/ p \in stalled
    \/ At(p, "lock") /\ ~HasDeadline(p) /\ holder \in stalled

OnlyStallsKeepCalls == \A p \in Procs :
    pc[p] # "idle" ~> At(p, "idle") \/ Kept(p)

(* A deadline bounds every denied open of a call, whether it reads without    *)
(* the lock, for the edit, or once more for the comparison, even when it ends *)
(* long before the tries do.                                                  *)
DeadlineEndsDeniedOpens == \A p \in Procs :
    Opening(p) /\ HasDeadline(p) ~> ~Opening(p)
================================================================================
