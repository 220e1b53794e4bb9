----------------------------- MODULE FileCasProofs -----------------------------
(***************************************************************************)
(* Theorems about FileCas, for every set of callers, every disk, every     *)
(* call and every fault.                                                   *)
(***************************************************************************)
EXTENDS FileCas, TLAPS

(* The steps taken under the lock.                                            *)
Inside == {"current", "edit", "compare", "sync", "list", "remove"} \cup Replacing

(* Which call is at which step, and what it carries there.                    *)
Shape(p) ==
    /\ At(p, "idle") => op[p] = None
    /\ ~At(p, "idle") => op[p] \in Requests
    /\ pc[p] \in {"current", "edit"} => op[p].kind = "change"
    /\ pc[p] \in {"compare", "sync"} \cup Replacing => op[p].kind \in {"write", "change"}
    /\ pc[p] \in {"list", "remove"} => op[p].kind = "sweep"
    /\ pc[p] \in {"open", "load"} => op[p].kind = "read" /\ data[p] = Nil
    /\ pc[p] \in {"enter", "lock", "wait"} => op[p].kind \in {"write", "change", "sweep"}
    /\ pc[p] \in {"enter", "lock", "wait", "compare"} => data[p] \in Contents
    /\ pc[p] \in Replacing => data[p] \in Values
    /\ pc[p] \in Staging => fd[p] \in Inodes
    /\ expired[p] => ~At(p, "idle") /\ HasDeadline(p)
    /\ ~At(p, "return") => res[p] = "none"

Exclusion == \A p \in Procs : pc[p] \in Inside => holder = p

Control == TypeOK /\ (\A p \in Procs : Shape(p)) /\ Exclusion

(* What the data file holds is a value, nothing, or a file half written.      *)
LEMMA CurrentIsASight == ASSUME TypeOK PROVE Current \in Sights
  BY DEF TypeOK, Current, Bytes, Sights, Contents

(* What is known of a request by its kind.                                    *)
LEMMA RequestKinds ==
  ASSUME NEW r \in Requests
  PROVE  /\ r.kind \in {"read", "write", "change", "sweep"}
         /\ r.kind = "write" => r.base \in Contents /\ r.data \in Contents /\ r.limit = 0
         /\ r.kind = "change" => r.edit \in Edits
  BY RequestsAssumption
     DEF Request, ReadRequest, WriteRequest, ChangeRequest, SweepRequest

(* The values an edit can answer with.                                        *)
LEMMA EditAnswers ==
  ASSUME NEW r \in Requests, r.kind = "change", NEW c \in Sights
  PROVE  r.edit[c] \in Contents \cup EditErrors
<1>1. r.edit \in [Sights -> Contents \cup EditErrors]
  BY RequestKinds, EditsAssumption
<1> QED
  BY <1>1

(* Where an edit lets the write go on, it has answered with another content.  *)
LEMMA StopOrGoOn ==
  ASSUME NEW r, NEW c, NEW next \in Contents \cup EditErrors, NEW late
  PROVE  /\ EditStops(r, c, next, late) \in Statuses
         /\ EditStops(r, c, next, late) = "none" =>
              next \in Contents /\ next # c /\ ~TooLarge(r, next)
  BY EditsAssumption DEF EditStops, Statuses

(* Control holds before the first call.                                       *)
LEMMA ControlInit == Init => Control
  BY ValuesAssumption, NoneAssumption
     DEF Init, Control, TypeOK, Shape, Exclusion, Inside, Replacing, Staging, At, Labels, Statuses,
         Sights, Contents

(* No step breaks Control: one case for each action of FileCas.               *)
LEMMA ControlNext == Control /\ [Next]_vars => Control'
<1> SUFFICES ASSUME Control, [Next]_vars PROVE Control'
  OBVIOUS
<1> USE DEF Control, TypeOK, Exclusion, At, Goto, Labels
<1>1. ASSUME NEW p \in Procs, NEW r \in Requests, Call(p, r) PROVE Control'
  <2>1. TypeOK'
    BY <1>1, RequestKinds DEF Call, disk, Sights, Contents
  <2>2. \A q \in Procs : Shape(q)'
    BY <1>1, RequestKinds DEF Call, Shape, HasDeadline, Replacing, Staging, Contents
  <2>3. Exclusion'
    BY <1>1 DEF Call, Inside, Replacing
  <2> QED
    BY <2>1, <2>2, <2>3
<1>2. ASSUME NEW p \in Procs, Expire(p) PROVE Control'
  <2>1. TypeOK' /\ Exclusion'
    BY <1>2 DEF Expire, disk
  <2>2. \A q \in Procs : Shape(q)'
    BY <1>2 DEF Expire, disk, Shape, HasDeadline, Replacing, Staging
  <2> QED
    BY <2>1, <2>2
<1>3. ASSUME NEW p \in Procs, Forget(p), Release(p), UNCHANGED <<target, temps, file>>,
             orphans' \in SUBSET Inodes
      PROVE  Control'
  <2>1. TypeOK'
    BY <1>3 DEF Forget, Release, Statuses, Sights, Contents
  <2>2. \A q \in Procs : Shape(q)'
    BY <1>3 DEF Forget, Shape, HasDeadline, Replacing, Staging
  <2>3. Exclusion'
    BY <1>3 DEF Forget, Release, Inside, Replacing
  <2> QED
    BY <2>1, <2>2, <2>3
<1>4. ASSUME NEW p \in Procs, Return(p) \/ Kill(p) PROVE Control'
  BY <1>3, <1>4 DEF Return, Kill, disk
<1>5. ASSUME NEW p \in Procs, Enter(p) PROVE Control'
  <2> USE DEF Enter, Finish, disk
  <2>1. TypeOK'
    BY <1>5 DEF Statuses
  <2>2. \A q \in Procs : Shape(q)'
    BY <1>5 DEF Shape, HasDeadline, Replacing, Staging
  <2>3. Exclusion'
    BY <1>5 DEF Inside, Replacing
  <2> QED
    BY <2>1, <2>2, <2>3
<1>6. ASSUME NEW p \in Procs, Acquire(p) PROVE Control'
  <2> USE DEF Acquire, Locked, locals, disk
  <2>1. TypeOK'
    BY <1>6
  <2>2. \A q \in Procs : Shape(q)'
    BY <1>6 DEF Shape, HasDeadline, Replacing, Staging
  <2>3. Exclusion'
    BY <1>6, NoneAssumption DEF Inside, Replacing
  <2> QED
    BY <2>1, <2>2, <2>3
<1>7. ASSUME NEW p \in Procs, LockFails(p) PROVE Control'
  <2> USE DEF LockFails, Finish, disk
  <2>1. TypeOK'
    BY <1>7 DEF Statuses
  <2>2. \A q \in Procs : Shape(q)'
    BY <1>7 DEF Shape, HasDeadline, Replacing, Staging
  <2>3. Exclusion'
    BY <1>7 DEF Inside, Replacing
  <2> QED
    BY <2>1, <2>2, <2>3
<1>8. ASSUME NEW p \in Procs, TryAgainLater(p) PROVE Control'
  <2> USE DEF TryAgainLater, locals, disk
  <2>1. TypeOK'
    BY <1>8
  <2>2. \A q \in Procs : Shape(q)'
    BY <1>8 DEF Shape, HasDeadline, Replacing, Staging
  <2>3. Exclusion'
    BY <1>8 DEF Inside, Replacing
  <2> QED
    BY <2>1, <2>2, <2>3
<1>9. ASSUME NEW p \in Procs, Retry(p) PROVE Control'
  <2> USE DEF Retry, locals, disk
  <2>1. TypeOK'
    BY <1>9
  <2>2. \A q \in Procs : Shape(q)'
    BY <1>9 DEF Shape, HasDeadline, Replacing, Staging
  <2>3. Exclusion'
    BY <1>9 DEF Inside, Replacing
  <2> QED
    BY <2>1, <2>2, <2>3
<1>10. ASSUME NEW p \in Procs, GiveUp(p) PROVE Control'
  <2> USE DEF GiveUp, Finish, disk
  <2>1. TypeOK'
    BY <1>10 DEF Statuses
  <2>2. \A q \in Procs : Shape(q)'
    BY <1>10 DEF Shape, HasDeadline, Replacing, Staging
  <2>3. Exclusion'
    BY <1>10 DEF Inside, Replacing
  <2> QED
    BY <2>1, <2>2, <2>3
<1>11. ASSUME NEW p \in Procs, ReadCurrent(p) PROVE Control'
  <2> USE DEF ReadCurrent, Finish, disk
  <2>1. TypeOK'
    BY <1>11, CurrentIsASight DEF Statuses
  <2>2. \A q \in Procs : Shape(q)'
    BY <1>11 DEF Shape, HasDeadline, Replacing, Staging
  <2>3. Exclusion'
    BY <1>11 DEF Inside, Replacing
  <2> QED
    BY <2>1, <2>2, <2>3
<1>12. ASSUME NEW p \in Procs, Compare(p) PROVE Control'
  <2> USE DEF Compare, CompareStops, Finish, disk
  <2>1. TypeOK'
    BY <1>12 DEF Statuses
  <2>2. \A q \in Procs : Shape(q)'
    BY <1>12 DEF Shape, HasDeadline, Replacing, Staging, Contents
  <2>3. Exclusion'
    BY <1>12 DEF Inside, Replacing
  <2> QED
    BY <2>1, <2>2, <2>3
<1>13. ASSUME NEW p \in Procs, Stage(p) PROVE Control'
  <2> USE DEF Stage, Free, Finish
  <2>1. TypeOK'
    BY <1>13 DEF Statuses
  <2>2. \A q \in Procs : Shape(q)'
    BY <1>13 DEF Shape, HasDeadline, Replacing, Staging
  <2>3. Exclusion'
    BY <1>13 DEF Inside, Replacing
  <2> QED
    BY <2>1, <2>2, <2>3
<1>14. ASSUME NEW p \in Procs, Fill(p) PROVE Control'
  <2> USE DEF Fill, Discard, Unlink, Finish
  <2>1. TypeOK'
    BY <1>14 DEF Statuses, Shape, Replacing, Staging
  <2>2. \A q \in Procs : Shape(q)'
    BY <1>14 DEF Shape, HasDeadline, Replacing, Staging
  <2>3. Exclusion'
    BY <1>14 DEF Inside, Replacing
  <2> QED
    BY <2>1, <2>2, <2>3
<1>15. ASSUME NEW p \in Procs, Recheck(p) PROVE Control'
  <2> USE DEF Recheck, Discard, Unlink, Finish
  <2>1. TypeOK'
    BY <1>15 DEF Statuses, Shape, Staging
  <2>2. \A q \in Procs : Shape(q)'
    BY <1>15 DEF Shape, HasDeadline, Replacing, Staging
  <2>3. Exclusion'
    BY <1>15 DEF Inside, Replacing
  <2> QED
    BY <2>1, <2>2, <2>3
<1>16. ASSUME NEW p \in Procs, Rename(p) PROVE Control'
  <2> USE DEF Rename, Discard, Unlink, Finish
  <2>1. TypeOK'
    BY <1>16 DEF Statuses, Shape, Staging
  <2>2. \A q \in Procs : Shape(q)'
    BY <1>16 DEF Shape, HasDeadline, Replacing, Staging
  <2>3. Exclusion'
    BY <1>16 DEF Inside, Replacing
  <2> QED
    BY <2>1, <2>2, <2>3
<1>17. ASSUME NEW p \in Procs, SyncParent(p) PROVE Control'
  <2> USE DEF SyncParent, Finish, disk
  <2>1. TypeOK'
    BY <1>17 DEF Statuses
  <2>2. \A q \in Procs : Shape(q)'
    BY <1>17 DEF Shape, HasDeadline, Replacing, Staging
  <2>3. Exclusion'
    BY <1>17 DEF Inside, Replacing
  <2> QED
    BY <2>1, <2>2, <2>3
<1>18. ASSUME NEW p \in Procs, List(p) PROVE Control'
  <2> USE DEF List, Finish, disk
  <2>1. TypeOK'
    BY <1>18 DEF Statuses
  <2>2. \A q \in Procs : Shape(q)'
    BY <1>18 DEF Shape, HasDeadline, Replacing, Staging
  <2>3. Exclusion'
    BY <1>18 DEF Inside, Replacing
  <2> QED
    BY <2>1, <2>2, <2>3
<1>19. ASSUME NEW p \in Procs, RemoveStaged(p) PROVE Control'
  <2> USE DEF RemoveStaged, Unlink
  <2>1. TypeOK'
    BY <1>19
  <2>2. \A q \in Procs : Shape(q)'
    BY <1>19 DEF Shape, HasDeadline, Replacing, Staging
  <2>3. Exclusion'
    BY <1>19 DEF Inside, Replacing
  <2> QED
    BY <2>1, <2>2, <2>3
<1>20. ASSUME NEW p \in Procs, Swept(p) PROVE Control'
  <2> USE DEF Swept, Finish, disk
  <2>1. TypeOK'
    BY <1>20 DEF Statuses
  <2>2. \A q \in Procs : Shape(q)'
    BY <1>20 DEF Shape, HasDeadline, Replacing, Staging
  <2>3. Exclusion'
    BY <1>20 DEF Inside, Replacing
  <2> QED
    BY <2>1, <2>2, <2>3
<1>21. ASSUME NEW p \in Procs, Open(p) PROVE Control'
  <2> USE DEF Open, Finish, disk
  <2>1. TypeOK'
    BY <1>21 DEF Statuses
  <2>2. \A q \in Procs : Shape(q)'
    BY <1>21 DEF Shape, HasDeadline, Replacing, Staging
  <2>3. Exclusion'
    BY <1>21 DEF Inside, Replacing
  <2> QED
    BY <2>1, <2>2, <2>3
<1>22. ASSUME NEW p \in Procs, Load(p) PROVE Control'
  <2> USE DEF Load, Finish, disk, Bytes
  <2>1. TypeOK'
    BY <1>22 DEF Statuses, Sights, Contents
  <2>2. \A q \in Procs : Shape(q)'
    BY <1>22 DEF Shape, HasDeadline, Replacing, Staging
  <2>3. Exclusion'
    BY <1>22 DEF Inside, Replacing
  <2> QED
    BY <2>1, <2>2, <2>3
<1>23. ASSUME NEW p \in Procs, Edit(p) PROVE Control'
  <2> DEFINE next == op[p].edit[base[p]]
             stop == EditStops(op[p], base[p], next, expired[p])
  <2>1. next \in Contents \cup EditErrors
    BY <1>23, EditAnswers DEF Edit, Shape
  <2>2. stop \in Statuses /\ (stop = "none" => next \in Contents)
    BY <2>1, StopOrGoOn
  <2> HIDE DEF next, stop
  <2>3. \/ stop # "none" /\ Finish(p, stop) /\ UNCHANGED data
        \/ stop = "none" /\ data' = [data EXCEPT ![p] = next] /\ Goto(p, "compare") /\ UNCHANGED res
    BY <1>23 DEF Edit, next, stop
  <2>4. At(p, "edit") /\ UNCHANGED <<op, base, fd, todo, expired, holder, disk>>
    BY <1>23 DEF Edit
  <2>5. TypeOK'
    BY <2>2, <2>3, <2>4 DEF Finish, Sights, disk
  <2>6. \A q \in Procs : Shape(q)'
    BY <2>2, <2>3, <2>4 DEF Finish, Shape, HasDeadline, Replacing, Staging
  <2>7. Exclusion'
    BY <2>3, <2>4 DEF Finish, Inside, Replacing
  <2> QED
    BY <2>5, <2>6, <2>7
<1>24. CASE UNCHANGED vars
  BY <1>24 DEF vars, locals, disk, Shape, HasDeadline, Inside, Replacing, Staging
<1> QED
  BY <1>1, <1>2, <1>4, <1>5, <1>6, <1>7, <1>8, <1>9, <1>10, <1>11, <1>12, <1>13, <1>14, <1>15, <1>16, <1>17, <1>18, <1>19, <1>20, <1>21, <1>22, <1>23, <1>24
     DEF Next, Environment, Work, Locking, Writing, Sweeping, Reading

(* Types, the shape of a call at each of its steps, and mutual exclusion:     *)
(* two callers are never both between lockAt and the deferred unlock.         *)
THEOREM ControlHolds == Spec => []Control
  BY ControlInit, ControlNext, PTL DEF Spec

(* The type invariant. *)
THEOREM TypeCorrect == Spec => []TypeOK
<1>1. Control => TypeOK
  BY DEF Control
<1> QED
  BY <1>1, ControlHolds, PTL

--------------------------------------------------------------------------------
(* Files.  An inode is written only while it has a staged name, a staged name *)
(* is taken away only by the caller that holds the lock, and the data file    *)
(* and every reader's handle are on inodes that are written no more.          *)

HeldStill(p) ==
    /\ pc[p] \in Staging => fd[p] \in temps
    /\ pc[p] \in {"staged", "rename"} => file[fd[p]] = data[p]
    /\ At(p, "load") => fd[p] \notin temps /\ (fd[p] # None => file[fd[p]] \in Values)
    /\ pc[p] \notin Staging \cup {"load"} => fd[p] = None

Files ==
    /\ target \notin temps
    /\ target # None => file[target] \in Values
    /\ \A p \in Procs : HeldStill(p)

(* Files holds before the first call.                                         *)
LEMMA FilesInit == Init => Files
  BY NoneAssumption DEF Init, Files, HeldStill, Staging, At

(* A step of p that leaves the disk alone, and after which p has no handle.   *)
LEMMA FilesCalm ==
  ASSUME Control, Files, NEW p \in Procs, UNCHANGED <<target, temps, file>>,
         pc'[p] \notin Staging \cup {"load"}, fd'[p] = None,
         \A q \in Procs \ {p} : pc'[q] = pc[q] /\ fd'[q] = fd[q] /\ data'[q] = data[q]
  PROVE  Files'
  BY DEF Files, HeldStill, Staging, At

(* A step of p under the lock that gives up its staged file. *)
LEMMA FilesDiscard ==
  ASSUME Control, Files, NEW p \in Procs, pc[p] \in Staging, Discard(p),
         UNCHANGED <<target, data>>, pc' = [pc EXCEPT ![p] = "return"],
         \A i \in Inodes \ {fd[p]} : file'[i] = file[i]
  PROVE  Files'
<1>1. \A q \in Procs : q # p => pc[q] \notin Staging
  BY NoneAssumption DEF Control, Exclusion, Inside, Replacing, Staging
<1>2. temps' \subseteq temps
  BY DEF Discard, Unlink
<1>3. fd[p] \in temps /\ fd' = [fd EXCEPT ![p] = None]
  BY DEF Files, HeldStill, Discard
<1> QED
  BY <1>1, <1>2, <1>3 DEF Files, HeldStill, At, Control, TypeOK, Staging

(* No step breaks Files.                                                      *)
LEMMA FilesNext == Control /\ Files /\ [Next]_vars => Files'
<1> SUFFICES ASSUME Control, Files, [Next]_vars PROVE Files'
  OBVIOUS
<1> USE DEF At, Goto
<1>1. ASSUME NEW p \in Procs, \/ \E r \in Requests : Call(p, r)
                              \/ Return(p) \/ Kill(p)
      PROVE  Files'
  BY <1>1, FilesCalm
     DEF Call, Return, Kill, Forget, disk, Files, HeldStill, Control, TypeOK, Staging
<1>2. ASSUME NEW p \in Procs, Expire(p) PROVE Files'
  BY <1>2 DEF Expire, disk, Files, HeldStill
<1>3. ASSUME NEW p \in Procs, Locking(p) PROVE Files'
  BY <1>3, FilesCalm
     DEF Locking, Enter, Acquire, LockFails, TryAgainLater, Retry, GiveUp, Locked, Finish,
         locals, disk, Files, HeldStill, Control, TypeOK, Staging
<1>4. ASSUME NEW p \in Procs, ReadCurrent(p) \/ Edit(p) \/ Compare(p) \/ SyncParent(p)
      PROVE  Files'
  BY <1>4, FilesCalm
     DEF ReadCurrent, Edit, Compare, SyncParent, Finish, disk, Files, HeldStill, Control,
         TypeOK, Staging
<1>5. ASSUME NEW p \in Procs, Stage(p) PROVE Files'
  <2>1. CASE UNCHANGED <<file, temps, fd>>
    BY <1>5, <2>1, FilesCalm DEF Stage, Finish, Files, HeldStill, Control, TypeOK, Staging
  <2>2. CASE ~UNCHANGED <<file, temps, fd>>
    <3>1. PICK i \in Free : /\ file' = [file EXCEPT ![i] = Torn]
                            /\ temps' = temps \cup {i}
                            /\ fd' = [fd EXCEPT ![p] = i]
                            /\ pc' = [pc EXCEPT ![p] = "fill"]
      BY <1>5, <2>2 DEF Stage
    <3>2. i \in Inodes /\ i # target /\ i \notin temps /\ \A q \in Procs : fd[q] # i
      BY <3>1 DEF Free, InUse
    <3>3. UNCHANGED <<target, data>> /\ pc[p] = "stage"
      BY <1>5 DEF Stage
    <3> QED
      BY <3>1, <3>2, <3>3 DEF Files, HeldStill, Control, TypeOK, Staging
  <2> QED
    BY <2>1, <2>2
<1>6. ASSUME NEW p \in Procs, Fill(p) PROVE Files'
  <2>1. CASE pc'[p] = "return"
    <3>1. /\ Discard(p) /\ pc[p] \in Staging
          /\ UNCHANGED <<target, data>> /\ pc' = [pc EXCEPT ![p] = "return"]
          /\ \A i \in Inodes \ {fd[p]} : file'[i] = file[i]
      BY <1>6, <2>1 DEF Fill, Finish, Staging, Control, TypeOK
    <3> QED
      BY <3>1, FilesDiscard
  <2>2. CASE pc'[p] # "return"
    <3>1. /\ file' = [file EXCEPT ![fd[p]] = data[p]]
          /\ pc' = [pc EXCEPT ![p] = "staged"]
          /\ pc[p] = "fill"
          /\ UNCHANGED <<fd, temps, target, data>>
      BY <1>6, <2>2 DEF Fill, Finish, Control, TypeOK
    <3>2. \A q \in Procs : q # p => pc[q] \notin Staging
      BY <3>1, NoneAssumption DEF Control, Exclusion, Inside, Replacing, Staging
    <3>3. fd[p] \in temps
      BY <3>1 DEF Files, HeldStill, Staging
    <3> QED
      BY <3>1, <3>2, <3>3 DEF Files, HeldStill, Control, TypeOK, Staging
  <2> QED
    BY <2>1, <2>2
<1>7. ASSUME NEW p \in Procs, Recheck(p) PROVE Files'
  <2>1. CASE pc'[p] = "return"
    <3>1. /\ Discard(p) /\ pc[p] \in Staging
          /\ UNCHANGED <<target, data>> /\ pc' = [pc EXCEPT ![p] = "return"]
          /\ \A i \in Inodes \ {fd[p]} : file'[i] = file[i]
      BY <1>7, <2>1 DEF Recheck, Finish, Staging, Control, TypeOK
    <3> QED
      BY <3>1, FilesDiscard
  <2>2. CASE pc'[p] # "return"
    BY <1>7, <2>2 DEF Recheck, Finish, Files, HeldStill, Control, TypeOK, Staging
  <2> QED
    BY <2>1, <2>2
<1>8. ASSUME NEW p \in Procs, Rename(p) PROVE Files'
  <2>1. CASE pc'[p] = "return"
    <3>1. /\ Discard(p) /\ pc[p] \in Staging
          /\ UNCHANGED <<target, data>> /\ pc' = [pc EXCEPT ![p] = "return"]
          /\ \A i \in Inodes \ {fd[p]} : file'[i] = file[i]
      BY <1>8, <2>1 DEF Rename, Finish, Staging, Control, TypeOK
    <3> QED
      BY <3>1, FilesDiscard
  <2>2. CASE pc'[p] # "return"
    <3>1. /\ target' = fd[p]
          /\ temps' = temps \ {fd[p]}
          /\ fd' = [fd EXCEPT ![p] = None]
          /\ pc' = [pc EXCEPT ![p] = "sync"]
          /\ pc[p] = "rename"
          /\ UNCHANGED <<file, data>>
      BY <1>8, <2>2 DEF Rename, Finish, Control, TypeOK, Unlink
    <3>2. \A q \in Procs : q # p => pc[q] \notin Staging
      BY <3>1, NoneAssumption DEF Control, Exclusion, Inside, Replacing, Staging
    <3>3. fd[p] \in temps /\ file[fd[p]] \in Values
      BY <3>1 DEF Files, HeldStill, Staging, Control, Shape, Replacing
    <3> QED
      BY <3>1, <3>2, <3>3 DEF Files, HeldStill, Control, TypeOK, Staging
  <2> QED
    BY <2>1, <2>2
<1>9. ASSUME NEW p \in Procs, List(p) \/ Swept(p) PROVE Files'
  BY <1>9, FilesCalm
     DEF List, Swept, Finish, disk, Files, HeldStill, Control, TypeOK, Staging
<1>10. ASSUME NEW p \in Procs, RemoveStaged(p) PROVE Files'
  <2>1. \A q \in Procs : pc[q] \notin Staging
    BY <1>10, NoneAssumption
       DEF RemoveStaged, Control, Exclusion, Inside, Replacing, Staging
  <2>2. temps' \subseteq temps /\ UNCHANGED <<pc, fd, data, target, file>>
    BY <1>10 DEF RemoveStaged, Unlink
  <2> QED
    BY <2>1, <2>2 DEF Files, HeldStill
<1>11. ASSUME NEW p \in Procs, Open(p) PROVE Files'
  BY <1>11, NoneAssumption
     DEF Open, Finish, disk, Files, HeldStill, Control, TypeOK, Staging
<1>12. ASSUME NEW p \in Procs, Load(p) PROVE Files'
  BY <1>12, FilesCalm DEF Load, Finish, disk, Files, HeldStill, Control, TypeOK, Staging
<1>13. CASE UNCHANGED vars
  BY <1>13 DEF vars, locals, disk, Files, HeldStill
<1> QED
  BY <1>1, <1>2, <1>3, <1>4, <1>5, <1>6, <1>7, <1>8, <1>9, <1>10, <1>11, <1>12, <1>13
     DEF Next, Environment, Work, Writing, Sweeping, Reading

(* What a name or a handle refers to is written by nobody any more.           *)
THEOREM FilesHold == Spec => []Files
  BY ControlHolds, FilesInit, FilesNext, PTL DEF Spec

--------------------------------------------------------------------------------
(* The value.  Only a rename changes what the path holds, and it puts there   *)
(* what its caller decided on.                                                *)

StepOf(p) == Environment(p) \/ Work(p) \/ Edit(p)

(* A step of p leaves the variables of every other caller as they are.        *)
LEMMA OthersStand ==
  ASSUME Control, NEW p \in Procs, StepOf(p), NEW q \in Procs, q # p
  PROVE  /\ pc'[q] = pc[q] /\ op'[q] = op[q] /\ base'[q] = base[q] /\ data'[q] = data[q]
         /\ fd'[q] = fd[q] /\ res'[q] = res[q] /\ todo'[q] = todo[q]
<1> USE DEF Control, TypeOK, Goto, Finish
<1>1. CASE Environment(p)
  BY <1>1 DEF Environment, Call, Expire, Kill, Forget
<1>2. CASE Locking(p) \/ Return(p)
  BY <1>2 DEF Locking, Enter, Acquire, LockFails, TryAgainLater, Retry, GiveUp, locals,
              Return, Forget
<1>3. CASE ReadCurrent(p) \/ Edit(p) \/ Compare(p)
  BY <1>3 DEF ReadCurrent, Edit, Compare
<1>4. CASE Stage(p) \/ Fill(p) \/ Recheck(p) \/ Rename(p) \/ SyncParent(p)
  BY <1>4 DEF Stage, Fill, Recheck, Rename, SyncParent, Discard
<1>5. CASE Sweeping(p) \/ Reading(p)
  BY <1>5 DEF Sweeping, List, RemoveStaged, Swept, Reading, Open, Load
<1> QED
  BY <1>1, <1>2, <1>3, <1>4, <1>5 DEF StepOf, Work, Writing

(* The value of the path changes in a rename only, and becomes what the       *)
(* renaming caller staged.                                                    *)
LEMMA OnlyRenamesMoveIt ==
  ASSUME Control, Files, NEW p \in Procs, StepOf(p)
  PROVE  \/ Current' = Current
         \/ /\ Rename(p) /\ pc[p] = "rename" /\ pc'[p] = "sync"
            /\ Current' = data[p]
<1> USE DEF Goto, At
<1>1. CASE UNCHANGED <<target, file>>
  BY <1>1 DEF Current, Bytes
<1>2. CASE Stage(p)
  BY <1>2 DEF Stage, Free, InUse, Current, Bytes, Control, TypeOK
<1>3. CASE Fill(p)
  <2>1. fd[p] \in temps /\ fd[p] # target
    BY <1>3 DEF Fill, Files, HeldStill, Staging
  <2> QED
    BY <1>3, <2>1 DEF Fill, Current, Bytes, Control, TypeOK
<1>4. CASE Rename(p)
  <2>1. fd[p] \in Inodes /\ file[fd[p]] = data[p]
    BY <1>4 DEF Rename, Files, HeldStill, Control, Shape, Staging
  <2> QED
    BY <1>4, <2>1, NoneAssumption DEF Rename, Finish, Current, Bytes, Control, TypeOK
<1>5. Stage(p) \/ Fill(p) \/ Rename(p) \/ UNCHANGED <<target, file>>
  BY DEF StepOf, Environment, Call, Expire, Kill, Work, Locking, Enter, Acquire, LockFails,
         TryAgainLater, Retry, GiveUp, Return, ReadCurrent, Edit, Compare, Recheck,
         SyncParent, Writing, Sweeping, List, RemoveStaged, Swept, Reading, Open, Load, disk
<1> QED
  BY <1>1, <1>2, <1>3, <1>4, <1>5

(* What a caller holds in hand is what its call asked for, and what an edit   *)
(* was shown is still there.                                                  *)
Decided(p) ==
    /\ base[p] # Torn /\ data[p] # Torn
    /\ \/ pc[p] \in {"edit"} \cup Replacing
       \/ At(p, "compare") /\ op[p].kind = "change"
       => base[p] = Current
    /\ /\ pc[p] \in {"enter", "lock", "wait", "compare"} \cup Replacing
       /\ op[p].kind = "write"
       => base[p] = op[p].base /\ data[p] = op[p].data
    /\ At(p, "edit") => ~TooLarge(op[p], base[p])
    /\ pc[p] \in {"compare"} \cup Replacing /\ op[p].kind = "change"
       => /\ data[p] = op[p].edit[base[p]]
          /\ data[p] # base[p]
          /\ ~TooLarge(op[p], base[p])
          /\ ~TooLarge(op[p], data[p])

Decisions == \A p \in Procs : Decided(p)

(* Decisions holds before the first call.                                     *)
LEMMA DecisionsInit == Init => Decisions
  BY ValuesAssumption DEF Init, Decisions, Decided, Replacing, At, Contents

(* Nobody's decision is disturbed by a step of somebody else. *)
LEMMA DecisionStands ==
  ASSUME Control, Files, Decisions, NEW p \in Procs, StepOf(p),
         NEW q \in Procs, q # p
  PROVE  Decided(q)'
<1>1. /\ pc'[q] = pc[q] /\ op'[q] = op[q] /\ base'[q] = base[q] /\ data'[q] = data[q]
  BY OthersStand
<1>2. Current' = Current \/ pc[q] \notin Inside
  BY OnlyRenamesMoveIt, NoneAssumption DEF Control, Exclusion, Inside, Replacing
<1> QED
  BY <1>1, <1>2 DEF Decisions, Decided, Inside, At, TooLarge

(* The path holds a finished value or nothing.                                *)
LEMMA CurrentIsWhole == ASSUME Control, Files PROVE Current \in Contents
  BY DEF Control, TypeOK, Files, Current, Bytes, Contents

(* A step of p leaves p with a decision that is right.                        *)
LEMMA DecisionMade ==
  ASSUME Control, Files, Decisions, NEW p \in Procs, StepOf(p)
  PROVE  Decided(p)'
<1> USE DEF Goto, At, Finish
<1>0. Torn \notin Contents /\ Current \in Contents /\ Nil \in Contents
  BY ValuesAssumption, CurrentIsWhole DEF Contents
<1>1. ASSUME NEW r \in Requests, Call(p, r) PROVE Decided(p)'
  BY <1>0, <1>1, RequestKinds DEF Call, Control, TypeOK, Decided, Replacing
<1>2. CASE Expire(p)
  BY <1>2 DEF Expire, Decisions, Decided, Current, Bytes, disk, TooLarge
<1>3. CASE Return(p) \/ Kill(p)
  BY <1>0, <1>3 DEF Return, Kill, Forget, Control, TypeOK, Decided, Replacing
<1>4. CASE Locking(p)
  BY <1>4 DEF Locking, Enter, Acquire, LockFails, TryAgainLater, Retry, GiveUp, Locked,
              locals, Control, TypeOK, Shape, Decisions, Decided, Replacing
<1>5. CASE ReadCurrent(p)
  BY <1>0, <1>5 DEF ReadCurrent, disk, Current, Bytes, Control, TypeOK, Shape, Decisions,
                    Decided, Replacing, TooLarge
<1>6. CASE Edit(p)
  <2> DEFINE next == op[p].edit[base[p]]
             stop == EditStops(op[p], base[p], next, expired[p])
  <2>1. next \in Contents \cup EditErrors /\ op[p].kind = "change"
    BY <1>6, EditAnswers DEF Edit, Control, TypeOK, Shape
  <2>2. stop = "none" => next \in Contents /\ next # base[p] /\ ~TooLarge(op[p], next)
    BY <2>1, StopOrGoOn
  <2>3. base[p] = Current /\ ~TooLarge(op[p], base[p]) /\ Current' = Current
    BY <1>6 DEF Edit, Decisions, Decided, disk, Current, Bytes
  <2> HIDE DEF next, stop
  <2>4. /\ UNCHANGED <<op, base>>
        /\ \/ UNCHANGED data /\ pc'[p] = "return"
           \/ data'[p] = next /\ pc'[p] = "compare" /\ stop = "none"
    BY <1>6 DEF Edit, next, stop, Control, TypeOK
  <2>5. CASE pc'[p] = "return"
    BY <2>4, <2>5 DEF Decisions, Decided, Replacing
  <2>6. CASE pc'[p] = "compare"
    BY <1>0, <2>1, <2>2, <2>3, <2>4, <2>6
       DEF Decisions, Decided, Replacing, TooLarge, next
  <2> QED
    BY <2>4, <2>5, <2>6
<1>7. CASE Compare(p)
  BY <1>7 DEF Compare, CompareStops, disk, Current, Bytes, Control, TypeOK, Shape,
              Decisions, Decided, Replacing, TooLarge
<1>8. CASE Stage(p) \/ Fill(p) \/ Recheck(p)
  <2>1. Current' = Current
    BY <1>8, OnlyRenamesMoveIt DEF Stage, Fill, Recheck
  <2>2. /\ UNCHANGED <<op, base, data>> /\ pc[p] \in Replacing
        /\ pc'[p] \in Replacing \cup {"return"}
    BY <1>8 DEF Stage, Fill, Recheck, Control, TypeOK, Replacing
  <2> QED
    BY <2>1, <2>2 DEF Decisions, Decided, Replacing, TooLarge
<1>9. CASE Rename(p) \/ SyncParent(p)
  <2>1. UNCHANGED <<op, base, data>> /\ pc'[p] \in {"sync", "return"}
    BY <1>9 DEF Rename, SyncParent, Control, TypeOK
  <2> QED
    BY <2>1 DEF Decisions, Decided, Replacing
<1>10. CASE Sweeping(p) \/ Open(p)
  <2>1. UNCHANGED <<op, base, data>> /\ pc'[p] \in {"remove", "load", "return"}
    BY <1>10 DEF Sweeping, List, RemoveStaged, Swept, Open, Control, TypeOK
  <2> QED
    BY <2>1 DEF Decisions, Decided, Replacing
<1>11. CASE Load(p)
  <2>1. Bytes(fd[p]) \in Contents
    BY <1>11 DEF Load, Files, HeldStill, Bytes, Contents
  <2>2. UNCHANGED <<op, base>> /\ pc'[p] = "return" /\ data'[p] \in {data[p], Bytes(fd[p])}
    BY <1>11 DEF Load, Control, TypeOK
  <2> QED
    BY <1>0, <2>1, <2>2 DEF Decisions, Decided, Replacing
<1> QED
  BY <1>1, <1>2, <1>3, <1>4, <1>5, <1>6, <1>7, <1>8, <1>9, <1>10, <1>11
     DEF StepOf, Environment, Work, Writing, Reading

(* No step breaks Decisions.                                                  *)
LEMMA DecisionsNext == Control /\ Files /\ Decisions /\ [Next]_vars => Decisions'
<1> SUFFICES ASSUME Control, Files, Decisions, [Next]_vars PROVE Decisions'
  OBVIOUS
<1>1. ASSUME NEW p \in Procs, StepOf(p) PROVE Decisions'
  BY <1>1, DecisionMade, DecisionStands DEF Decisions
<1>2. CASE UNCHANGED vars
  BY <1>2 DEF vars, locals, disk, Decisions, Decided, At, Current, Bytes, TooLarge
<1> QED
  BY <1>1, <1>2 DEF Next, StepOf

(* What a caller is about to write answers what the path still holds.         *)
THEOREM DecisionsHold == Spec => []Decisions
  BY ControlHolds, FilesHold, DecisionsInit, DecisionsNext, PTL DEF Spec

(* No update is lost: see EditSeesTruth. *)
THEOREM NoUpdateIsLost == Spec => []EditSeesTruth
<1>1. Decisions => EditSeesTruth
  BY DEF Decisions, Decided, EditSeesTruth
<1> QED
  BY <1>1, DecisionsHold, PTL

(* No half-written file is ever under the name, shown to an edit or read.     *)
THEOREM NothingIsTorn == Spec => []WholeOrNothing
<1>1. Control /\ Files /\ Decisions => WholeOrNothing
  BY CurrentIsWhole, ValuesAssumption DEF Decisions, Decided, WholeOrNothing
<1> QED
  BY <1>1, ControlHolds, FilesHold, DecisionsHold, PTL

(* No sweep takes the staged file of a live writer.                           *)
THEOREM LiveStageIsSafe == Spec => []LiveStageSurvives
<1>1. Files => LiveStageSurvives
  BY DEF Files, HeldStill, LiveStageSurvives
<1> QED
  BY <1>1, FilesHold, PTL

(* The library never deletes the data file.                                   *)
THEOREM NothingIsDeleted == Spec => NeverDeleted
<1>1. Control /\ Files /\ [Next]_vars => [Current # Nil => Current' # Nil]_vars
  <2> SUFFICES ASSUME Control, Files, [Next]_vars, Current # Nil, ~UNCHANGED vars
               PROVE  Current' # Nil
    OBVIOUS
  <2>1. PICK p \in Procs : StepOf(p)
    BY DEF Next, StepOf
  <2>2. CASE Current' = Current
    BY <2>2
  <2>3. CASE pc[p] = "rename" /\ Current' = data[p]
    BY <2>3, ValuesAssumption DEF Control, Shape, Replacing
  <2> QED
    BY <2>1, <2>2, <2>3, OnlyRenamesMoveIt
<1> QED
  BY <1>1, ControlHolds, FilesHold, PTL DEF Spec, NeverDeleted

--------------------------------------------------------------------------------
(* What is left in the staging directory.                                     *)

(* No step leaves a staged file behind that is not an orphan.                 *)
LEMMA LeftoversNext ==
  Control /\ Files /\ NothingLeftBehind /\ [Next]_vars => NothingLeftBehind'
<1> SUFFICES ASSUME Control, Files, NothingLeftBehind, [Next]_vars,
                    NEW i \in temps', i \notin orphans'
             PROVE  \E q \in Procs : pc'[q] \in Staging /\ fd'[q] = i
  BY DEF NothingLeftBehind
<1> USE DEF Goto, At, Finish
<1>1. CASE UNCHANGED vars
  BY <1>1 DEF vars, locals, disk, NothingLeftBehind
<1>2. ASSUME NEW p \in Procs, StepOf(p)
      PROVE  \E q \in Procs : pc'[q] \in Staging /\ fd'[q] = i
  <2>1. CASE i \in temps \ orphans
    <3>1. PICK q \in Procs : pc[q] \in Staging /\ fd[q] = i
      BY <2>1 DEF NothingLeftBehind
    <3>2. CASE q # p
      BY <1>2, <3>1, <3>2, OthersStand
    <3>3. CASE q = p
      <4>1. fd[p] = i /\ i \in Inodes /\ i # None
        BY <2>1, <3>1, <3>3, NoneAssumption DEF Control, TypeOK
      <4>2. Expire(p) \/ Kill(p) \/ Fill(p) \/ Recheck(p) \/ Rename(p)
        BY <1>2, <3>1, <3>3
           DEF StepOf, Environment, Work, Locking, Writing, Sweeping, Reading, Call, Enter,
               Acquire, LockFails, TryAgainLater, Retry, GiveUp, Return, ReadCurrent, Edit,
               Compare, Stage, SyncParent, List, RemoveStaged, Swept, Open, Load, Staging
      <4>3. ~Kill(p)
        BY <2>1, <4>1 DEF Kill
      <4>4. ~Discard(p)
        BY <4>1 DEF Discard, Unlink
      <4>5. Expire(p) \/ (fd' = fd /\ pc'[p] \in Staging)
        BY <4>1, <4>2, <4>3, <4>4
           DEF Fill, Recheck, Rename, Unlink, Control, TypeOK, Staging
      <4> QED
        BY <3>1, <3>3, <4>5 DEF Expire
    <3> QED
      BY <3>2, <3>3
  <2>2. CASE i \notin temps \ orphans
    <3>1. Stage(p)
      BY <1>2, <2>2
         DEF StepOf, Environment, Work, Locking, Writing, Sweeping, Reading, Call, Enter,
             Acquire, LockFails, TryAgainLater, Retry, GiveUp, Return, ReadCurrent, Edit,
             Compare, SyncParent, List, RemoveStaged, Swept, Open, Load, Expire, Kill,
             Fill, Recheck, Rename, Discard, Unlink, disk
    <3> QED
      BY <2>2, <3>1 DEF Stage, Control, TypeOK, Staging
  <2> QED
    BY <2>1, <2>2
<1> QED
  BY <1>1, <1>2 DEF Next, StepOf

(* Every way out of a writer removes its staged file.                         *)
THEOREM LeftoversAreOrphans == Spec => []NothingLeftBehind
<1>1. Init => NothingLeftBehind
  BY DEF Init, NothingLeftBehind
<1> QED
  BY <1>1, LeftoversNext, ControlHolds, FilesHold, PTL DEF Spec

(* A sweep in progress has everything that is left on its list.               *)
SweepGains(p) ==
    /\ At(p, "remove") /\ ~Fails("remove") => temps \subseteq todo[p]
    /\ At(p, "return") /\ op[p].kind = "sweep" /\ res[p] = "ok"
       => holder = p /\ (~Fails("remove") => temps = {})

Sweeps == \A p \in Procs : SweepGains(p)

(* No step adds a staged file behind the back of a sweep.                     *)
LEMMA SweepsNext == Control /\ Sweeps /\ [Next]_vars => Sweeps'
<1> SUFFICES ASSUME Control, Sweeps, [Next]_vars PROVE Sweeps'
  OBVIOUS
<1> USE DEF Goto, At, Finish
<1>1. CASE UNCHANGED vars
  BY <1>1 DEF vars, locals, disk, Sweeps, SweepGains
<1>2. ASSUME NEW p \in Procs, StepOf(p), NEW q \in Procs, q # p PROVE SweepGains(q)'
  <2>1. SUFFICES ASSUME \/ pc[q] = "remove"
                        \/ pc[q] = "return" /\ op[q].kind = "sweep" /\ res[q] = "ok"
                 PROVE  SweepGains(q)'
    BY <1>2, OthersStand DEF SweepGains
  <2>2. holder = q
    BY <2>1 DEF Sweeps, SweepGains, Control, Exclusion, Inside
  <2>3. pc[p] \notin Inside
    BY <1>2, <2>2, NoneAssumption DEF Control, Exclusion
  <2>4. temps' = temps /\ holder' = q
    BY <1>2, <2>2, <2>3, NoneAssumption
       DEF StepOf, Environment, Work, Locking, Writing, Sweeping, Reading, Call, Enter,
           Acquire, LockFails, TryAgainLater, Retry, GiveUp, Return, Release, ReadCurrent,
           Edit, Compare, Stage, SyncParent, List, RemoveStaged, Swept, Open, Load, Expire,
           Kill, Fill, Recheck, Rename, disk, locals, Inside, Replacing
  <2> QED
    BY <1>2, <2>4, OthersStand DEF Sweeps, SweepGains
<1>3. ASSUME NEW p \in Procs, StepOf(p) PROVE SweepGains(p)'
  <2> USE DEF Control, TypeOK
  <2>1. CASE List(p) \/ RemoveStaged(p) \/ Swept(p)
    BY <2>1 DEF List, RemoveStaged, Swept, Unlink, disk, Sweeps, SweepGains, Exclusion, Inside
  <2>2. CASE Locking(p) \/ Return(p)
    BY <2>2 DEF Locking, Enter, Acquire, LockFails, TryAgainLater, Retry, GiveUp, Locked,
                locals, disk, Return, Forget, Sweeps, SweepGains
  <2>3. CASE Environment(p)
    BY <2>3 DEF Environment, Call, Expire, Kill, Forget, disk, Sweeps, SweepGains
  <2>4. CASE ReadCurrent(p) \/ Edit(p) \/ Compare(p) \/ SyncParent(p) \/ Reading(p)
    <3>1. op[p].kind # "sweep" /\ op' = op /\ pc'[p] # "remove"
      BY <2>4 DEF ReadCurrent, Edit, Compare, SyncParent, Reading, Open, Load, Shape
    <3> QED
      BY <3>1 DEF SweepGains
  <2>5. CASE Stage(p) \/ Fill(p) \/ Recheck(p) \/ Rename(p)
    <3>1. op[p].kind # "sweep" /\ op' = op /\ pc'[p] # "remove"
      BY <2>5 DEF Stage, Fill, Recheck, Rename, Shape, Replacing
    <3> QED
      BY <3>1 DEF SweepGains
  <2> QED
    BY <1>3, <2>1, <2>2, <2>3, <2>4, <2>5 DEF StepOf, Work, Writing, Sweeping
<1> QED
  BY <1>1, <1>2, <1>3 DEF Next, StepOf, Sweeps

(* A sweep that answers has left nothing.                                     *)
THEOREM SweepsAreComplete == Spec => []SweepIsComplete
<1>1. Init => Sweeps
  BY DEF Init, Sweeps, SweepGains, At
<1>2. Sweeps => SweepIsComplete
  BY DEF Sweeps, SweepGains, SweepIsComplete
<1> QED
  BY <1>1, <1>2, SweepsNext, ControlHolds, PTL DEF Spec

--------------------------------------------------------------------------------
(* FileCas implements CasRegister.                                            *)

(* A step of p leaves every other call where the register has it.             *)
LEMMA PhaseOfOthers ==
  ASSUME Control, Files, NEW p \in Procs, StepOf(p), NEW q \in Procs, q # p
  PROVE  Phase(q)' = Phase(q) /\ Observed(q)' = Observed(q)
<1> USE DEF At
<1>1. /\ pc'[q] = pc[q] /\ op'[q] = op[q] /\ data'[q] = data[q] /\ fd'[q] = fd[q]
  BY OthersStand
<1>2. ASSUME pc[q] = "load" PROVE Bytes(fd[q])' = Bytes(fd[q])
  <2>1. fd[q] \notin temps
    BY <1>2 DEF Files, HeldStill
  <2>2. CASE UNCHANGED file
    BY <1>1, <2>2 DEF Bytes
  <2>3. CASE Stage(p)
    BY <1>1, <2>1, <2>3 DEF Stage, Free, InUse, Bytes, Control, TypeOK
  <2>4. CASE Fill(p)
    <3>1. fd[p] \in temps
      BY <2>4 DEF Fill, Files, HeldStill, Staging
    <3> QED
      BY <1>1, <2>1, <2>4, <3>1 DEF Fill, Bytes, Control, TypeOK
  <2>5. Stage(p) \/ Fill(p) \/ UNCHANGED file
    BY DEF StepOf, Environment, Call, Expire, Kill, Work, Locking, Enter, Acquire, LockFails,
           TryAgainLater, Retry, GiveUp, Return, ReadCurrent, Edit, Compare, Recheck, Rename,
           SyncParent, Writing, Sweeping, List, RemoveStaged, Swept, Reading, Open, Load, disk
  <2> QED
    BY <2>2, <2>3, <2>4, <2>5
<1> QED
  BY <1>1, <1>2 DEF Phase, Observed

(* A step of p, in the register's terms. *)
LEMMA StepOfRegister ==
  ASSUME Control, Files, NEW p \in Procs, StepOf(p)
  PROVE  /\ PhaseOfAll' = [PhaseOfAll EXCEPT ![p] = Phase(p)']
         /\ ObservedByAll' = [ObservedByAll EXCEPT ![p] = Observed(p)']
         /\ PhaseOfAll[p] = Phase(p) /\ ObservedByAll[p] = Observed(p)
  BY PhaseOfOthers DEF PhaseOfAll, ObservedByAll

(* A step that shows none of the register's variables is a stutter.           *)
LEMMA Stutters ==
  ASSUME Control, Files, NEW p \in Procs, StepOf(p), UNCHANGED <<op, res>>,
         Phase(p)' = Phase(p), Observed(p)' = Observed(p), Current' = Current
  PROVE  UNCHANGED Register!vars
  BY StepOfRegister DEF Register!vars, PhaseOfAll, ObservedByAll

(* A way out of a call that changed nothing is an Answer of the register.     *)
LEMMA IsAnswer ==
  ASSUME Control, Files, NEW p \in Procs, StepOf(p), NEW s \in Statuses,
         Phase(p) = "waiting", Observed(p) = Nil, Finish(p, s), op' = op,
         op[p].kind = "read" => data'[p] = Nil, Current' = Current,
         Register!Answers(op[p], s), s # "none"
  PROVE  Register!Next
<1>1. Phase(p)' = "answered" /\ Observed(p)' = Nil
  BY DEF Finish, Goto, At, Phase, Observed, Control, TypeOK
<1>2. Register!Answer(p, s)
  BY <1>1, StepOfRegister DEF Register!Answer, Finish, PhaseOfAll, ObservedByAll
<1>3. s \in Register!Statuses
  BY DEF Register!Statuses, Statuses
<1> QED
  BY <1>2, <1>3 DEF Register!Next

(* The first state of FileCas is one of the register.                         *)
LEMMA RegisterInit == Init => Register!Init
  BY DEF Init, Register!Init, Current, Bytes, PhaseOfAll, ObservedByAll, Phase, Observed, At

(* Every step of FileCas is a step of the register, or none.                  *)
LEMMA RegisterStep ==
  ASSUME Control, Control', Files, Files', Decisions, NEW p \in Procs, StepOf(p)
  PROVE  Register!Next \/ UNCHANGED Register!vars
<1> USE DEF Control, TypeOK, Goto, At
<1>1. /\ PhaseOfAll' = [PhaseOfAll EXCEPT ![p] = Phase(p)']
      /\ ObservedByAll' = [ObservedByAll EXCEPT ![p] = Observed(p)']
      /\ PhaseOfAll[p] = Phase(p) /\ ObservedByAll[p] = Observed(p)
  BY StepOfRegister
<1>2. Current \in Contents /\ Nil \notin Values /\ EditErrors \cap Contents = {}
  BY CurrentIsWhole, ValuesAssumption, EditsAssumption DEF Contents
<1>3. ASSUME NEW r \in Requests, Call(p, r) PROVE Register!Next
  <2>1. Register!Invoke(p, r)
    BY <1>1, <1>3 DEF Call, Register!Invoke, Phase, Observed, Current, Bytes, disk,
                      PhaseOfAll, ObservedByAll
  <2> QED
    BY <2>1 DEF Register!Next
<1>4. CASE Expire(p)
  BY <1>4, Stutters DEF Expire, Phase, Observed, Current, Bytes, disk
<1>5. CASE Return(p) \/ Kill(p)
  <2>1. Phase(p)' = "idle" /\ Observed(p)' = Nil /\ Current' = Current
    BY <1>5 DEF Return, Kill, Forget, Phase, Observed, Current, Bytes, disk
  <2>2. Register!Kill(p)
    BY <1>1, <1>5, <2>1
       DEF Return, Kill, Forget, Register!Kill, Register!Forget, Phase, PhaseOfAll, ObservedByAll
  <2> QED
    BY <2>2 DEF Register!Next
(* The ways out and the ways on of a call that has not taken effect.          *)
<1> DEFINE Before == pc[p] \notin {"idle", "load", "sync", "return"}
<1>6. ASSUME Before, pc'[p] \notin {"idle", "load", "sync", "return"},
             UNCHANGED <<op, res>>, Current' = Current
      PROVE  UNCHANGED Register!vars
  BY <1>6, Stutters DEF Phase, Observed
<1>7. ASSUME Before, NEW s \in Statuses \ {"none"}, Finish(p, s), UNCHANGED <<op, data>>,
             Current' = Current, Register!Answers(op[p], s)
      PROVE  Register!Next
  <2>1. op[p].kind = "read" => data[p] = Nil
    BY <1>7, RequestKinds DEF Shape, Labels, Replacing
  <2> QED
    BY <1>7, <2>1, IsAnswer DEF Phase, Observed
<1> DEFINE waiting == pc[p] \notin {"idle", "open", "load", "return"}
<1>8. waiting /\ expired[p] => op[p].kind = "change" /\ op[p].deadline
  BY RequestKinds DEF Shape, HasDeadline, Replacing, Labels
<1>9. ASSUME Before, UNCHANGED <<op, data>>, Current' = Current,
             \/ Finish(p, "oserror")
             \/ waiting /\ expired[p] /\ Finish(p, "cancelled")
      PROVE  Register!Next
  BY <1>7, <1>8, <1>9 DEF Register!Answers, Statuses
<1>10. CASE Locking(p)
  <2>1. /\ Before /\ UNCHANGED <<op, data>> /\ Current' = Current
        /\ \/ pc'[p] \notin {"idle", "load", "sync", "return"} /\ UNCHANGED res
           \/ Finish(p, "oserror")
           \/ waiting /\ expired[p] /\ Finish(p, "cancelled")
    BY <1>10 DEF Locking, Enter, Acquire, LockFails, TryAgainLater, Retry, GiveUp, Locked,
                 locals, disk, Current, Bytes
  <2> QED
    BY <1>6, <1>9, <2>1
<1>11. CASE ReadCurrent(p)
  <2>1. /\ Before /\ UNCHANGED <<op, data>> /\ Current' = Current
        /\ \/ pc'[p] = "edit" /\ UNCHANGED res
           \/ Finish(p, "oserror")
           \/ waiting /\ expired[p] /\ Finish(p, "cancelled")
           \/ TooLarge(op[p], Current) /\ Finish(p, "toolarge")
    BY <1>11 DEF ReadCurrent, disk, Current, Bytes
  <2>2. TooLarge(op[p], Current) => Register!Answers(op[p], "toolarge")
    BY <1>11 DEF ReadCurrent, Shape, Register!Answers, Register!TooLarge, TooLarge
  <2> QED
    BY <1>6, <1>7, <1>9, <2>1, <2>2 DEF Statuses
<1>12. CASE Edit(p)
  <2> DEFINE r == op[p]
             next == r.edit[base[p]]
             stop == EditStops(r, base[p], next, expired[p])
  <2>1. /\ r \in Requests /\ r.kind = "change" /\ base[p] = Current
        /\ ~TooLarge(r, Current) /\ next \in Contents \cup EditErrors /\ waiting
    BY <1>12, EditAnswers DEF Edit, Shape, Decisions, Decided
  <2>2. /\ Before /\ UNCHANGED op /\ Current' = Current
        /\ \/ stop = "none" /\ pc'[p] = "compare" /\ UNCHANGED res
           \/ stop # "none" /\ Finish(p, stop) /\ UNCHANGED data
    BY <1>12 DEF Edit, disk, Current, Bytes
  <2>3. CASE stop = "none"
    BY <1>6, <2>2, <2>3
  <2>4. CASE stop # "none"
    <3>1. stop \in Statuses
      BY <2>1, StopOrGoOn
    <3>2. ASSUME next \in EditErrors PROVE Register!Answers(r, stop)
      BY <2>1, <3>2 DEF EditStops, Register!Answers, Register!TooLarge, TooLarge
    <3>3. ASSUME next \notin EditErrors, TooLarge(r, next) PROVE Register!Answers(r, stop)
      BY <1>2, <2>1, <3>3
         DEF EditStops, Register!Answers, Register!TooLarge, TooLarge, Contents
    <3>4. ASSUME next \notin EditErrors, ~TooLarge(r, next) PROVE Register!Answers(r, stop)
      BY <1>8, <2>1, <2>4, <3>4
         DEF EditStops, Register!Answers, Register!TooLarge, TooLarge
    <3> QED
      BY <1>7, <2>2, <2>4, <3>1, <3>2, <3>3, <3>4
  <2> QED
    BY <2>3, <2>4
<1>13. CASE Compare(p)
  <2> DEFINE stop == CompareStops(op[p], base[p], Current, data[p], expired[p])
  <2>1. /\ Before /\ UNCHANGED <<op, data>> /\ Current' = Current
        /\ \/ stop = "none" /\ pc'[p] = "stage" /\ UNCHANGED res
           \/ stop # "none" /\ Finish(p, stop)
           \/ Finish(p, "oserror")
    BY <1>13 DEF Compare, disk, Current, Bytes
  <2>2. CASE stop # "none"
    <3>1. op[p] \in Requests /\ pc[p] = "compare"
      BY <1>13 DEF Compare, Shape
    <3>2. ASSUME op[p].kind = "write" PROVE Register!Answers(op[p], stop)
      BY <1>8, <2>2, <3>1, <3>2, RequestKinds
         DEF Decisions, Decided, CompareStops, Register!Answers, TooLarge
    <3>3. ASSUME op[p].kind = "change" PROVE Register!Answers(op[p], stop)
      BY <1>8, <2>2, <3>1, <3>3
         DEF Decisions, Decided, CompareStops, Register!Answers, Register!TooLarge, TooLarge
    <3>4. Register!Answers(op[p], stop) /\ stop \in Statuses
      BY <3>1, <3>2, <3>3 DEF Shape, CompareStops, Statuses
    <3> QED
      BY <1>7, <1>9, <2>1, <2>2, <3>4
  <2> QED
    BY <1>6, <1>9, <2>1, <2>2
<1>14. CASE Stage(p) \/ Fill(p) \/ Recheck(p)
  <2>1. Current' = Current
    BY <1>14, OnlyRenamesMoveIt DEF Stage, Fill, Recheck
  <2>2. /\ Before /\ UNCHANGED <<op, data>>
        /\ \/ pc'[p] \in Replacing /\ UNCHANGED res
           \/ Finish(p, "oserror")
           \/ waiting /\ expired[p] /\ Finish(p, "cancelled")
    BY <1>14 DEF Stage, Fill, Recheck, Replacing
  <2> QED
    BY <1>6, <1>9, <2>1, <2>2 DEF Replacing
<1>15. CASE Rename(p)
  <2>1. CASE Current' = Current /\ Finish(p, "oserror")
    BY <1>9, <1>15, <2>1 DEF Rename
  <2>2. CASE pc'[p] = "sync"
    <3>1. /\ pc[p] = "rename" /\ pc' = [pc EXCEPT ![p] = "sync"] /\ UNCHANGED <<op, res>>
      BY <1>15, <2>2 DEF Rename, Finish
    <3>2. Current' = data[p]
      <4>1. target' = fd[p] /\ file' = file
        BY <1>15, <2>2 DEF Rename, Finish
      <4>2. fd[p] # None /\ file[fd[p]] = data[p]
        BY <3>1, NoneAssumption DEF Shape, Staging, Files, HeldStill
      <4> QED
        BY <4>1, <4>2 DEF Current, Bytes
    <3>3. Register!Accepts(op[p]) /\ Register!Replacement(op[p]) = data[p]
      BY <1>2, <3>1 DEF Decisions, Decided, Shape, Replacing, Register!Accepts,
         Register!Replacement, Register!TooLarge, TooLarge
    <3>4. Register!Apply(p)
      BY <1>1, <3>1, <3>2, <3>3
         DEF Register!Apply, Phase, Observed, PhaseOfAll, ObservedByAll
    <3> QED
      BY <3>4 DEF Register!Next
  <2>3. pc'[p] = "sync" \/ (Current' = Current /\ Finish(p, "oserror"))
    BY <1>15 DEF Rename, Current, Bytes
  <2> QED
    BY <2>1, <2>2, <2>3
<1>16. CASE SyncParent(p)
  <2>1. /\ Phase(p) = "applied" /\ Phase(p)' = "answered" /\ UNCHANGED op
        /\ Observed(p) = Nil /\ Observed(p)' = Nil /\ Current' = Current
        /\ \E s \in {"ok", "oserror"} : res' = [res EXCEPT ![p] = s]
    BY <1>16 DEF SyncParent, Finish, Phase, Observed, Shape, disk, Current, Bytes
  <2>2. ObservedByAll' = ObservedByAll
    BY <1>1, <2>1 DEF ObservedByAll
  <2>3. Register!Acknowledge(p)
    BY <1>1, <2>1, <2>2 DEF Register!Acknowledge
  <2> QED
    BY <2>3 DEF Register!Next
<1>17. CASE Sweeping(p)
  <2>1. /\ Before /\ op[p].kind = "sweep" /\ UNCHANGED <<op, data>> /\ Current' = Current
        /\ \/ pc'[p] = "remove" /\ UNCHANGED res
           \/ Finish(p, "oserror")
           \/ Finish(p, "ok")
    BY <1>17 DEF Sweeping, List, RemoveStaged, Swept, Shape, disk, Current, Bytes
  <2>2. Register!Answers(op[p], "ok")
    BY <2>1 DEF Register!Answers
  <2> QED
    BY <1>6, <1>7, <1>9, <2>1, <2>2 DEF Statuses
<1>18. CASE Open(p)
  <2>1. CASE Finish(p, "oserror")
    BY <1>9, <1>18, <2>1 DEF Open, disk, Current, Bytes
  <2>2. CASE ~Finish(p, "oserror")
    <3>1. /\ Phase(p) = "waiting" /\ Phase(p)' = "observed" /\ op[p].kind = "read"
          /\ Observed(p)' = Current /\ UNCHANGED <<op, res>> /\ Current' = Current
      BY <1>18, <2>2 DEF Open, Phase, Observed, Shape, disk, Current, Bytes
    <3>2. Register!Observe(p)
      BY <1>1, <3>1 DEF Register!Observe, PhaseOfAll, ObservedByAll
    <3> QED
      BY <3>2 DEF Register!Next
  <2> QED
    BY <2>1, <2>2
<1>19. CASE Load(p)
  <2> DEFINE found == Bytes(fd[p])
  <2>1. /\ Phase(p) = "observed" /\ Phase(p)' = "answered" /\ Observed(p) = found
        /\ UNCHANGED op /\ Current' = Current /\ op[p].kind = "read" /\ data[p] = Nil
        /\ Observed(p)' = data'[p]
    BY <1>19 DEF Load, Finish, Phase, Observed, Shape, disk, Current, Bytes
  <2>2. \/ ~TooLarge(op[p], found) /\ res' = [res EXCEPT ![p] = "ok"] /\ data'[p] = found
        \/ TooLarge(op[p], found) /\ res' = [res EXCEPT ![p] = "toolarge"] /\ data'[p] = Nil
        \/ res' = [res EXCEPT ![p] = "oserror"] /\ data'[p] = Nil
    BY <1>19, <2>1 DEF Load, Finish, Sights
  <2> HIDE DEF found
  <2>3. data'[p] = found => ObservedByAll' = ObservedByAll
    <3>1. ObservedByAll = [q \in Procs |-> ObservedByAll[q]]
      BY DEF ObservedByAll
    <3> QED
      BY <1>1, <2>1, <3>1
  <2>4. Register!Deliver(p)
    BY <1>1, <2>1, <2>2, <2>3 DEF Register!Deliver, Register!TooLarge, TooLarge
  <2> QED
    BY <2>4 DEF Register!Next
<1> QED
  BY <1>3, <1>4, <1>5, <1>10, <1>11, <1>12, <1>13, <1>14, <1>15, <1>16, <1>17, <1>18, <1>19
     DEF StepOf, Environment, Work, Writing, Reading

(* Each call takes effect at one instant, and its answer tells what happened. *)
THEOREM FileCasIsARegister == Spec => ActsAsRegister
<1>1. Control /\ Control' /\ Files /\ Files' /\ Decisions /\ [Next]_vars
      => [Register!Next]_(Register!vars)
  <2> SUFFICES ASSUME Control, Control', Files, Files', Decisions, [Next]_vars
               PROVE  Register!Next \/ UNCHANGED Register!vars
    OBVIOUS
  <2>1. ASSUME NEW p \in Procs, StepOf(p) PROVE Register!Next \/ UNCHANGED Register!vars
    BY <2>1, RegisterStep
  <2>2. CASE UNCHANGED vars
    BY <2>2 DEF vars, locals, disk, Register!vars, PhaseOfAll, ObservedByAll, Phase, Observed,
                At, Current, Bytes
  <2> QED
    BY <2>1, <2>2 DEF Next, StepOf
<1> QED
  BY <1>1, RegisterInit, ControlHolds, FilesHold, DecisionsHold, PTL
     DEF Spec, Register!Spec, ActsAsRegister
================================================================================
