-------------------------------- MODULE FileCas --------------------------------
(***************************************************************************)
(* The protocol of go/cas.go on one path, as the file system of a POSIX    *)
(* machine sees it: a lock file, a data file, and replacements staged in a *)
(* directory and renamed over the data file.                               *)
(*                                                                         *)
(* A caller is one call in progress: a goroutine, a thread or a process.   *)
(* flock belongs to the open file and not to the process, so callers of    *)
(* one process exclude each other as callers of two processes do.  Callers *)
(* interleave between any two system calls that another caller can tell    *)
(* apart.  A read of a file through one open handle is one step, because   *)
(* no inode is written once a rename has given it a name (HeldStill in     *)
(* FileCasProofs), and so is a removal with the check that led to it.      *)
(*                                                                         *)
(* What the edit of a Change computes is a function of what it is shown;   *)
(* it may also answer with an error.  How long it takes is not bounded.    *)
(***************************************************************************)
EXTENDS Integers, FiniteSets

CONSTANTS
    Procs,       \* the callers
    Inodes,      \* the files the disk has room for
    Values,      \* the byte strings a finished file can hold
    Torn,        \* what a file still being written holds
    Nil,         \* no value: a missing file, or Go's nil slice
    None,        \* no caller, no inode, no call
    Size,        \* Size[v]: the length of v in bytes
    Limits,      \* the bounds a caller may set on a record; 0 is no bound
    EditErrors,  \* the errors an edit may answer with
    Edits,       \* the edits: functions of what they are shown
    Requests,    \* the calls made in this instance
    Faults       \* the steps of the operating system that may fail

Contents == Values \cup {Nil}        \* what the data file may be found to hold
Sights   == Contents \cup {Torn}     \* what a reader of any file may see

(* The public calls.  ReadLimitContext and ChangeLimitContext are the general *)
(* read and change; the others are their cases without a deadline or a limit. *)
(* A limit is one that the code takes: a call with another is refused before  *)
(* it looks at any file, and is left out.                                     *)
ReadRequest   == [kind : {"read"}, limit : Limits, deadline : BOOLEAN]
WriteRequest  == [kind : {"write"}, base : Contents, data : Contents, limit : {0}]
ChangeRequest == [kind : {"change"}, edit : Edits, limit : Limits, deadline : BOOLEAN]
SweepRequest  == [kind : {"sweep"}]

Request == ReadRequest \cup WriteRequest \cup ChangeRequest \cup SweepRequest

(* The edit of a write through api/bounded.go: the value next over base only. *)
(* next is not nil: that is refused before the lock, and is left out.         *)
Over(b, next) == [c \in Sights |-> IF c = b THEN next ELSE "moved"]

OSSteps == {"kill", "enter", "lock", "open", "read", "create", "write",
            "rename", "sync", "list", "remove"}

ASSUME ValuesAssumption ==
    /\ Nil \notin Values
    /\ Torn \notin Contents
    /\ Size \in [Values \cup {Torn} -> Nat]
ASSUME NoneAssumption   == None \notin Procs \cup Inodes \cup Requests
ASSUME EditsAssumption  ==
    /\ Edits \subseteq [Sights -> Contents \cup EditErrors]
    /\ EditErrors \cap (Contents \cup {"none", "ok"}) = {}
ASSUME RequestsAssumption ==
    /\ Requests \subseteq Request
    /\ Limits \subseteq Nat
ASSUME FaultsAssumption == Faults \subseteq OSSteps

VARIABLES
    pc,        \* pc[p]: the step p is at
    op,        \* op[p]: the call p is making, or None
    base,      \* base[p]: what its edit was shown, or what the caller gave
    data,      \* data[p]: what it is to write, or what it has read
    fd,        \* fd[p]: the inode of the data file it reads or of its staged file
    todo,      \* todo[p]: what is left of the directory a sweep has listed
    res,       \* res[p]: the answer, once it is known
    expired,   \* expired[p]: the caller's context has ended
    holder,    \* the caller whose handle holds the lock file, or None
    target,    \* the inode under the data file's name, or None
    temps,     \* the inodes under staged names
    file,      \* file[i]: what inode i holds
    orphans    \* history: staged files whose writer was killed or could not
               \* remove them

locals == <<op, base, data, fd, todo, res, expired>>
disk   == <<target, temps, file, orphans>>
vars   == <<pc, locals, holder, disk>>

Labels == {"idle", "enter", "lock", "wait", "current", "edit", "compare",
           "stage", "fill", "staged", "rename", "sync", "list", "remove",
           "open", "load", "return"}
Statuses ==
    {"none", "ok", "moved", "novalue", "toolarge", "cancelled", "oserror"}
        \cup EditErrors

(* The type invariant. *)
TypeOK ==
    /\ pc \in [Procs -> Labels]
    /\ op \in [Procs -> Requests \cup {None}]
    /\ base \in [Procs -> Sights]
    /\ data \in [Procs -> Sights]
    /\ fd \in [Procs -> Inodes \cup {None}]
    /\ todo \in [Procs -> SUBSET Inodes]
    /\ res \in [Procs -> Statuses]
    /\ expired \in [Procs -> BOOLEAN]
    /\ holder \in Procs \cup {None}
    /\ target \in Inodes \cup {None}
    /\ temps \in SUBSET Inodes
    /\ file \in [Inodes -> Values \cup {Torn}]
    /\ orphans \in SUBSET Inodes

Init ==
    /\ pc = [p \in Procs |-> "idle"]
    /\ op = [p \in Procs |-> None]
    /\ base = [p \in Procs |-> Nil]
    /\ data = [p \in Procs |-> Nil]
    /\ fd = [p \in Procs |-> None]
    /\ todo = [p \in Procs |-> {}]
    /\ res = [p \in Procs |-> "none"]
    /\ expired = [p \in Procs |-> FALSE]
    /\ holder = None
    /\ target = None
    /\ temps = {}
    /\ file = [i \in Inodes |-> Torn]
    /\ orphans = {}

--------------------------------------------------------------------------------
(* What a caller sees, and how it moves on.                                   *)

Bytes(i) == IF i = None THEN Nil ELSE file[i]
Current  == Bytes(target)

Fails(s) == s \in Faults

TooLarge(r, c) == r.limit # 0 /\ c # Nil /\ Size[c] > r.limit

HasDeadline(p) == op[p].kind \in {"read", "change"} /\ op[p].deadline

At(p, l)     == pc[p] = l
Goto(p, l)   == pc' = [pc EXCEPT ![p] = l]
Finish(p, s) == Goto(p, "return") /\ res' = [res EXCEPT ![p] = s]

(* The staged names a sweep or a deferred os.Remove takes off the directory.  *)
Unlink(i)    == temps' = temps \ {i} /\ orphans' = orphans \ {i}

(* os.Remove(tmp) on the way out of a writer: its own error is dropped.       *)
Discard(p) ==
    /\ \/ Unlink(fd[p])
       \/ /\ Fails("remove")
          /\ orphans' = orphans \cup {fd[p]}
          /\ UNCHANGED temps
    /\ fd' = [fd EXCEPT ![p] = None]

(* The inodes that a name or an open handle keeps from being reused.          *)
InUse == temps \cup {target} \cup {fd[p] : p \in Procs}
Free  == Inodes \ InUse

--------------------------------------------------------------------------------
(* A call begins, its context ends, it returns, or its process is killed.     *)

(* As a slip would have it: a sweep that does not take the lock. *)
CallSweepingUnlocked(p, r) ==
    /\ At(p, "idle")
    /\ Goto(p, CASE r.kind = "read" -> "open" [] r.kind = "sweep" -> "list" [] OTHER -> "enter")
    /\ op' = [op EXCEPT ![p] = r]
    /\ base' = [base EXCEPT ![p] = IF r.kind = "write" THEN r.base ELSE Nil]
    /\ data' = [data EXCEPT ![p] = IF r.kind = "write" THEN r.data ELSE Nil]
    /\ UNCHANGED <<fd, todo, res, expired, holder, disk>>

Call(p, r) ==
    /\ At(p, "idle")
    /\ Goto(p, IF r.kind = "read" THEN "open" ELSE "enter")
    /\ op' = [op EXCEPT ![p] = r]
    /\ base' = [base EXCEPT ![p] = IF r.kind = "write" THEN r.base ELSE Nil]
    /\ data' = [data EXCEPT ![p] = IF r.kind = "write" THEN r.data ELSE Nil]
    /\ UNCHANGED <<fd, todo, res, expired, holder, disk>>

Expire(p) ==
    /\ pc[p] \notin {"idle", "return"}
    /\ HasDeadline(p)
    /\ ~expired[p]
    /\ expired' = [expired EXCEPT ![p] = TRUE]
    /\ UNCHANGED <<pc, op, base, data, fd, todo, res, holder, disk>>

(* As slips would have it: a lock that the first close in the process drops,  *)
(* as fcntl locks are, and an unlock forgotten on the way out of an error.    *)
ReleaseByAnyClose(p)   == holder' = None
ReleaseUnlessFailed(p) == holder' = IF holder = p /\ res[p] # "oserror" THEN None ELSE holder

(* Closing the lock file's handle, by the deferred unlock or by the kernel    *)
(* when the process ends, is what releases the lock.                          *)
Release(p) == holder' = IF holder = p THEN None ELSE holder

Forget(p) ==
    /\ Goto(p, "idle")
    /\ op' = [op EXCEPT ![p] = None]
    /\ base' = [base EXCEPT ![p] = Nil]
    /\ data' = [data EXCEPT ![p] = Nil]
    /\ fd' = [fd EXCEPT ![p] = None]
    /\ todo' = [todo EXCEPT ![p] = {}]
    /\ res' = [res EXCEPT ![p] = "none"]
    /\ expired' = [expired EXCEPT ![p] = FALSE]

Return(p) ==
    /\ At(p, "return")
    /\ Release(p)
    /\ Forget(p)
    /\ UNCHANGED disk

Kill(p) ==
    /\ Fails("kill")
    /\ ~At(p, "idle")
    /\ Release(p)
    /\ Forget(p)
    /\ orphans' = orphans \cup ({fd[p]} \cap temps)
    /\ UNCHANGED <<target, temps, file>>

--------------------------------------------------------------------------------
(* Taking the lock: lockAt, and lockAtContext for a call with a deadline.     *)

Locked(r) ==
    IF r.kind = "write" THEN "compare"
    ELSE IF r.kind = "change" THEN "current"
    ELSE "list"

(* The context's first check, the directories, and the lock file's open.      *)
Enter(p) ==
    /\ At(p, "enter")
    /\ \/ expired[p] /\ Finish(p, "cancelled")
       \/ ~expired[p] /\ Goto(p, "lock") /\ UNCHANGED res
       \/ ~expired[p] /\ Fails("enter") /\ Finish(p, "oserror")
    /\ UNCHANGED <<op, base, data, fd, todo, expired, holder, disk>>

(* flock: whoever finds the lock free has it.  A call without a deadline      *)
(* blocks in flock while another holds it.                                    *)
Acquire(p) ==
    /\ At(p, "lock")
    /\ holder = None
    /\ holder' = p
    /\ Goto(p, Locked(op[p]))
    /\ UNCHANGED <<locals, disk>>

LockFails(p) ==
    /\ At(p, "lock")
    /\ Fails("lock")
    /\ Finish(p, "oserror")
    /\ UNCHANGED <<op, base, data, fd, todo, expired, holder, disk>>

(* tryFlock finds the lock taken; select then waits for the timer, which      *)
(* leads to the next try, or for the context.                                 *)
TryAgainLater(p) ==
    /\ At(p, "lock")
    /\ HasDeadline(p)
    /\ holder # None
    /\ Goto(p, "wait")
    /\ UNCHANGED <<locals, holder, disk>>

Retry(p) ==
    /\ At(p, "wait")
    /\ Goto(p, "lock")
    /\ UNCHANGED <<locals, holder, disk>>

(* As a slip would have it: the context looked at only once the lock is free. *)
GiveUpOnceFree(p) ==
    /\ At(p, "wait")
    /\ expired[p]
    /\ holder = None
    /\ Finish(p, "cancelled")
    /\ UNCHANGED <<op, base, data, fd, todo, expired, holder, disk>>

GiveUp(p) ==
    /\ At(p, "wait")
    /\ expired[p]
    /\ Finish(p, "cancelled")
    /\ UNCHANGED <<op, base, data, fd, todo, expired, holder, disk>>

--------------------------------------------------------------------------------
(* Deciding under the lock what to write: changeAtContext.                    *)

(* The read under the lock, and the context's check after it. *)
ReadCurrent(p) ==
    /\ At(p, "current")
    /\ \/ Fails("read") /\ Finish(p, "oserror") /\ UNCHANGED base
       \/ TooLarge(op[p], Current) /\ Finish(p, "toolarge") /\ UNCHANGED base
       \/ ~TooLarge(op[p], Current) /\ expired[p] /\ Finish(p, "cancelled") /\ UNCHANGED base
       \/ /\ ~TooLarge(op[p], Current)
          /\ ~expired[p]
          /\ base' = [base EXCEPT ![p] = Current]
          /\ Goto(p, "edit")
          /\ UNCHANGED res
    /\ UNCHANGED <<op, data, fd, todo, expired, holder, disk>>

(* As a slip would have it: the edit's error is not looked at.                *)
EditStopsDeaf(r, c, next, late) ==
    IF TooLarge(r, next) THEN "toolarge"
    ELSE IF late THEN "cancelled"
    ELSE IF next = c THEN "ok"
    ELSE "none"

(* The edit answers.  Its error comes before the limit, the limit before the  *)
(* context, and the context before the comparison that spares a write.        *)
EditStops(r, c, next, late) ==
    IF next \in EditErrors THEN next
    ELSE IF TooLarge(r, next) THEN "toolarge"
    ELSE IF late THEN "cancelled"
    ELSE IF next = c THEN "ok"
    ELSE "none"

Edit(p) ==
    /\ At(p, "edit")
    /\ LET next == op[p].edit[base[p]]
           stop == EditStops(op[p], base[p], next, expired[p])
       IN  \/ /\ stop # "none"
              /\ Finish(p, stop)
              /\ UNCHANGED data
           \/ /\ stop = "none"
              /\ data' = [data EXCEPT ![p] = next]
              /\ Goto(p, "compare")
              /\ UNCHANGED res
    /\ UNCHANGED <<op, base, fd, todo, expired, holder, disk>>

--------------------------------------------------------------------------------
(* Writing under the lock: writeReadAtContext.                                *)

(* As a slip would have it: nil taken for an empty value.                     *)
CompareStopsTakingNil(r, want, found, next, late) ==
    IF TooLarge(r, found) THEN "toolarge"
    ELSE IF late THEN "cancelled"
    ELSE IF found # want THEN "moved"
    ELSE "none"

CompareStops(r, want, found, next, late) ==
    IF next = Nil THEN "novalue"
    ELSE IF TooLarge(r, found) THEN "toolarge"
    ELSE IF late THEN "cancelled"
    ELSE IF found # want THEN "moved"
    ELSE "none"

Compare(p) ==
    /\ At(p, "compare")
    /\ LET stop == CompareStops(op[p], base[p], Current, data[p], expired[p])
       IN  \/ stop # "none" /\ Finish(p, stop)
           \/ stop # "novalue" /\ Fails("read") /\ Finish(p, "oserror")
           \/ stop = "none" /\ Goto(p, "stage") /\ UNCHANGED res
    /\ UNCHANGED <<op, base, data, fd, todo, expired, holder, disk>>

(* CreateTemp, under the lock; it fails when the disk has no file left.       *)
Stage(p) ==
    /\ At(p, "stage")
    /\ \/ \E i \in Free :
             /\ file' = [file EXCEPT ![i] = Torn]
             /\ temps' = temps \cup {i}
             /\ fd' = [fd EXCEPT ![p] = i]
             /\ Goto(p, "fill")
             /\ UNCHANGED res
       \/ /\ Fails("create") \/ Free = {}
          /\ Finish(p, "oserror")
          /\ UNCHANGED <<file, temps, fd>>
    /\ UNCHANGED <<op, base, data, todo, expired, holder, target, orphans>>

(* As a slip would have it: the error of a short write is dropped.            *)
FillCarelessly(p) ==
    /\ At(p, "fill")
    /\ \/ file' = [file EXCEPT ![fd[p]] = data[p]]
       \/ Fails("write") /\ UNCHANGED file
    /\ Goto(p, "staged")
    /\ UNCHANGED <<op, base, data, fd, todo, res, expired, holder, target, temps, orphans>>

(* Write, Sync and Close of the staged file, and the context's check.         *)
Fill(p) ==
    /\ At(p, "fill")
    /\ \/ /\ file' = [file EXCEPT ![fd[p]] = data[p]]
          /\ \/ ~expired[p] /\ Goto(p, "staged") /\ UNCHANGED <<res, fd, temps, orphans>>
             \/ expired[p] /\ Discard(p) /\ Finish(p, "cancelled")
       \/ Fails("write") /\ Discard(p) /\ Finish(p, "oserror") /\ UNCHANGED file
    /\ UNCHANGED <<op, base, data, todo, expired, holder, target>>

(* As a slip would have it: a cancelled writer leaves its staged file.        *)
RecheckLeaving(p) ==
    /\ At(p, "staged")
    /\ \/ ~expired[p] /\ Goto(p, "rename") /\ UNCHANGED <<res, fd>>
       \/ expired[p] /\ fd' = [fd EXCEPT ![p] = None] /\ Finish(p, "cancelled")
    /\ UNCHANGED <<op, base, data, todo, expired, holder, disk>>

(* The context's last check, after the hook between staging and replacing.    *)
Recheck(p) ==
    /\ At(p, "staged")
    /\ \/ ~expired[p] /\ Goto(p, "rename") /\ UNCHANGED <<res, fd, temps, orphans>>
       \/ expired[p] /\ Discard(p) /\ Finish(p, "cancelled")
    /\ UNCHANGED <<op, base, data, todo, expired, holder, target, file>>

(* The instant a write takes effect.  A context that ends from here on is not *)
(* looked at.                                                                 *)
Rename(p) ==
    /\ At(p, "rename")
    /\ \/ /\ target' = fd[p]
          /\ Unlink(fd[p])
          /\ fd' = [fd EXCEPT ![p] = None]
          /\ Goto(p, "sync")
          /\ UNCHANGED res
       \/ Fails("rename") /\ Discard(p) /\ Finish(p, "oserror") /\ UNCHANGED target
    /\ UNCHANGED <<op, base, data, todo, expired, holder, file>>

(* As a slip would have it: a context looked at after the rename.             *)
SyncParentLate(p) ==
    /\ At(p, "sync")
    /\ \/ Finish(p, IF expired[p] THEN "cancelled" ELSE "ok")
       \/ Fails("sync") /\ Finish(p, "oserror")
    /\ UNCHANGED <<op, base, data, fd, todo, expired, holder, disk>>

(* The directory's flush.  Its error is the call's, though the value is in    *)
(* place.                                                                     *)
SyncParent(p) ==
    /\ At(p, "sync")
    /\ \/ Finish(p, "ok")
       \/ Fails("sync") /\ Finish(p, "oserror")
    /\ UNCHANGED <<op, base, data, fd, todo, expired, holder, disk>>

--------------------------------------------------------------------------------
(* Sweeping under the lock: the listing is taken once, and each name found in *)
(* it is removed on its own.                                                  *)

List(p) ==
    /\ At(p, "list")
    /\ \/ todo' = [todo EXCEPT ![p] = temps] /\ Goto(p, "remove") /\ UNCHANGED res
       \/ Fails("list") /\ Finish(p, "oserror") /\ UNCHANGED todo
    /\ UNCHANGED <<op, base, data, fd, expired, holder, disk>>

RemoveStaged(p) ==
    /\ At(p, "remove")
    /\ \E i \in todo[p] :
          /\ todo' = [todo EXCEPT ![p] = @ \ {i}]
          /\ \/ Unlink(i)
             \/ Fails("remove") /\ UNCHANGED <<temps, orphans>>
    /\ UNCHANGED <<pc, op, base, data, fd, res, expired, holder, target, file>>

(* As a slip would have it: a sweep that answers before its list is empty.    *)
SweptEarly(p) ==
    /\ At(p, "remove")
    /\ Finish(p, "ok")
    /\ UNCHANGED <<op, base, data, fd, todo, expired, holder, disk>>

Swept(p) ==
    /\ At(p, "remove")
    /\ todo[p] = {}
    /\ Finish(p, "ok")
    /\ UNCHANGED <<op, base, data, fd, todo, expired, holder, disk>>

--------------------------------------------------------------------------------
(* Reading, with no lock: readFileLimit.                                      *)

(* The open decides what the read will answer.  A missing file gives no       *)
(* handle.                                                                    *)
Open(p) ==
    /\ At(p, "open")
    /\ \/ fd' = [fd EXCEPT ![p] = target] /\ Goto(p, "load") /\ UNCHANGED res
       \/ Fails("open") /\ Finish(p, "oserror") /\ UNCHANGED fd
    /\ UNCHANGED <<op, base, data, todo, expired, holder, disk>>

(* What the handle reads, or nil when there is none: whatever has been        *)
(* renamed over the name since.                                               *)
Load(p) ==
    /\ At(p, "load")
    /\ LET found == Bytes(fd[p])
       IN  \/ /\ ~TooLarge(op[p], found)
              /\ data' = [data EXCEPT ![p] = found]
              /\ Finish(p, "ok")
           \/ /\ TooLarge(op[p], found)
              /\ Finish(p, "toolarge")
              /\ UNCHANGED data
           \/ /\ fd[p] # None
              /\ Fails("read")
              /\ Finish(p, "oserror")
              /\ UNCHANGED data
    /\ fd' = [fd EXCEPT ![p] = None]
    /\ UNCHANGED <<op, base, todo, expired, holder, disk>>

--------------------------------------------------------------------------------
(* The steps a caller takes by itself once it has been called.                *)

Locking(p)  == Enter(p) \/ Acquire(p) \/ LockFails(p) \/ TryAgainLater(p)
                 \/ Retry(p) \/ GiveUp(p)
Writing(p)  == ReadCurrent(p) \/ Compare(p) \/ Stage(p) \/ Fill(p) \/ Recheck(p)
                 \/ Rename(p) \/ SyncParent(p)
Sweeping(p) == List(p) \/ RemoveStaged(p) \/ Swept(p)
Reading(p)  == Open(p) \/ Load(p)

Work(p) == Locking(p) \/ Writing(p) \/ Sweeping(p) \/ Reading(p) \/ Return(p)

Environment(p) == (\E r \in Requests : Call(p, r)) \/ Expire(p) \/ Kill(p)

Next == \E p \in Procs : Environment(p) \/ Work(p) \/ Edit(p)

Spec == Init /\ [][Next]_vars

--------------------------------------------------------------------------------
(* Safety.                                                                    *)

(* The steps between an edit being shown a value and that value's replacement *)
(* taking its name.                                                           *)
Replacing == {"stage", "fill", "staged", "rename"}
Staging   == {"fill", "staged", "rename"}

(* No update is lost: from the moment an edit is shown the value, through the *)
(* comparison, the staging and up to the rename itself, what it was shown is  *)
(* still what the path holds, whoever else reads, writes, sweeps or dies      *)
(* meanwhile.  ErrMoved is therefore never the library's answer to a Change.  *)
EditSeesTruth == \A p \in Procs :
    (\/ pc[p] \in {"edit"} \cup Replacing
     \/ At(p, "compare") /\ op[p].kind = "change") => base[p] = Current

(* Neither the path, nor an edit, nor a read without the lock ever holds or   *)
(* sees a file half written, at any step of a writer or of its death.         *)
WholeOrNothing ==
    /\ Current # Torn
    /\ \A p \in Procs : base[p] # Torn /\ data[p] # Torn

(* A sweep takes nothing from a live writer: the file a writer has staged is  *)
(* there when it renames it.                                                  *)
LiveStageSurvives == \A p \in Procs : pc[p] \in Staging => fd[p] \in temps

(* Every way out of a writer, refusal, cancellation or failure, cleans up: a  *)
(* staged file belongs to the writer now at work, or its writer was killed,   *)
(* or its removal failed.                                                     *)
NothingLeftBehind ==
    temps \ orphans \subseteq {fd[p] : p \in {q \in Procs : pc[q] \in Staging}}

(* A sweep that answers has left no staged file, unless a removal failed.     *)
SweepIsComplete == \A p \in Procs :
    /\ At(p, "return")
    /\ op[p].kind = "sweep"
    /\ res[p] = "ok"
    /\ ~Fails("remove")
    => temps = {}

(* The library never deletes: a path that has a value has one ever after,     *)
(* even when an edit answers with no value.                                   *)
NeverDeleted == [][Current # Nil => Current' # Nil]_vars

(* How far each call has come, and what its read has observed, as the         *)
(* register's callers know it.                                                *)
Phase(p) ==
    IF At(p, "idle") THEN "idle"
    ELSE IF At(p, "load") THEN "observed"
    ELSE IF At(p, "sync") THEN "applied"
    ELSE IF At(p, "return") THEN "answered"
    ELSE "waiting"

Observed(p) ==
    IF At(p, "load") THEN Bytes(fd[p])
    ELSE IF At(p, "return") /\ op[p].kind = "read" THEN data[p]
    ELSE Nil

PhaseOfAll    == [p \in Procs |-> Phase(p)]
ObservedByAll == [p \in Procs |-> Observed(p)]

Register == INSTANCE CasRegister WITH
    value <- Current, call <- op, status <- res,
    phase <- PhaseOfAll, seen <- ObservedByAll

(* Each call takes effect at one instant between its invocation and its       *)
(* answer, and its answer says what happened at that instant.                 *)
ActsAsRegister == Register!Spec

--------------------------------------------------------------------------------
(* Liveness.  A caller that can take a step takes one, unless its process is  *)
(* killed.  Nothing makes flock fair to the callers that wait for it.         *)

FairSpec == Spec /\ \A p \in Procs : WF_vars(Work(p) \/ Edit(p))

(* From some moment on nobody calls any more. *)
QuietSpec == FairSpec /\ <>[][\A p \in Procs, r \in Requests : ~Call(p, r)]_vars

(* Every call returns once the calls stop coming: nobody waits for a lock     *)
(* that its holder never lets go, and no loop goes on for ever.               *)
CallsReturn == \A p \in Procs : pc[p] # "idle" ~> At(p, "idle")

(* Edits may take for ever.  Contexts end, and the select of lockAtContext    *)
(* does not prefer its timer every time that the context has ended.           *)
PatientSpec == Spec /\ \A p \in Procs :
    WF_vars(Work(p)) /\ WF_vars(Expire(p)) /\ SF_vars(GiveUp(p))

(* A deadline bounds the wait for the lock, even when the edit of the caller  *)
(* that holds it never answers.                                               *)
DeadlineBoundsTheWait == \A p \in Procs :
    pc[p] \in {"enter", "lock", "wait"} /\ HasDeadline(p)
        ~> pc[p] \notin {"enter", "lock", "wait"}
================================================================================
