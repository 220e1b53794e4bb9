---------------------------- MODULE DurabilityProofs ----------------------------
(***************************************************************************)
(* Theorems about Durability: FileCas's invariants outlive power cuts, the *)
(* name never holds half a file after one, and what was acknowledged       *)
(* survives as long as every change that answers ok has written.           *)
(***************************************************************************)
EXTENDS Durability, FileCasProofs

Protocol == Control /\ Files /\ Decisions

(* A power cut leaves a disk on which the protocol can start again.           *)
LEMMA ProtocolAfterPowerCut ==
  ASSUME Protocol, DurableTypeOK, PowerCut,
         onDisk # None => onDisk \in inked /\ file[onDisk] \in Values
  PROVE  Protocol'
<1> USE ValuesAssumption, NoneAssumption DEF Protocol, PowerCut, Control, TypeOK, DurableTypeOK
<1>1. TypeOK'
  BY DEF Labels, Statuses, Sights, Contents
<1>2. (\A p \in Procs : Shape(p)') /\ Exclusion'
  BY DEF Shape, Exclusion, Inside, Replacing, Staging, At, HasDeadline
<1>3. Files'
  BY DEF Files, HeldStill, Staging, At
<1>4. Decisions'
  BY DEF Decisions, Decided, Replacing, At, Contents
<1> QED
  BY <1>1, <1>2, <1>3, <1>4

(* What the platter names is finished, and stays; so is what may come to be   *)
(* named by it.                                                               *)
Platter ==
    /\ DurableTypeOK
    /\ onDisk # None => onDisk \in inked /\ file[onDisk] \in Values /\ onDisk \notin temps
    /\ target # None => target \in inked
    /\ \A p \in Procs : pc[p] \in {"staged", "rename"} => fd[p] \in inked

(* What a step of p does to the inodes.                                       *)
LEMMA InodesMove ==
  ASSUME Control, Files, NEW p \in Procs, StepOf(p)
  PROVE  \/ /\ UNCHANGED <<target, file>>
            /\ temps' \subseteq temps
            /\ pc'[p] \notin {"staged", "rename"}
         \/ Stage(p) \/ Fill(p) \/ Recheck(p) \/ Rename(p) \/ Expire(p)
<1> USE DEF Goto, Finish, At, Control, TypeOK
<1>1. CASE Environment(p) \/ Return(p)
  BY <1>1 DEF Environment, Call, Kill, Return, Forget, disk
<1>2. CASE Locking(p)
  BY <1>2 DEF Locking, Enter, Acquire, LockFails, TryAgainLater, Retry, GiveUp, Locked,
              locals, disk
<1>3. CASE ReadCurrent(p) \/ Edit(p) \/ Compare(p) \/ SyncParent(p)
  BY <1>3 DEF ReadCurrent, Edit, Compare, SyncParent, disk
<1>4. CASE Sweeping(p) \/ Reading(p)
  BY <1>4 DEF Sweeping, List, RemoveStaged, Swept, Unlink, Reading, Open, Load, disk
<1> QED
  BY <1>1, <1>2, <1>3, <1>4 DEF StepOf, Work, Writing

(* No step of FileCas breaks Platter. *)
LEMMA PlatterRun ==
  ASSUME Protocol, Protocol', Platter, NEW p \in Procs, Run(p)
  PROVE  Platter'
<1> USE DEF Protocol
<1>1. StepOf(p)
  BY DEF Run, StepOf
<1>2. DurableTypeOK'
  BY DEF Run, DurableTypeOK, Platter, Control, TypeOK, FileSync, Renames, DirSync, Staging,
         Shape, At
<1>3. \A q \in Procs : q # p => pc'[q] = pc[q] /\ fd'[q] = fd[q]
  BY <1>1, OthersStand
<1>4. /\ onDisk' = onDisk \/ (At(p, "sync") /\ onDisk' = target)
      /\ onDisk \notin temps' \ temps
      /\ inked \ (temps' \ temps) \subseteq inked'
  BY DEF Run, DirSync
<1> USE DEF At, Goto, Finish, Control, TypeOK
<1>5. CASE UNCHANGED <<target, file>> /\ temps' \subseteq temps /\ pc'[p] \notin {"staged", "rename"}
  BY <1>2, <1>3, <1>4, <1>5 DEF Platter, Files
<1>6. CASE Stage(p)
  <2>1. /\ UNCHANGED <<target, onDisk>> /\ pc'[p] \in {"fill", "return"}
        /\ \A i \in temps' \ temps : i \in Free
        /\ temps \subseteq temps'
        /\ \A i \in Inodes \ (temps' \ temps) : file'[i] = file[i]
    BY <1>4, <1>6 DEF Stage, Free, InUse
  <2>2. target \notin temps' \ temps /\ \A q \in Procs : fd[q] \notin temps' \ temps
    BY <2>1 DEF Free, InUse
  <2> QED
    BY <1>2, <1>3, <1>4, <2>1, <2>2 DEF Platter, DurableTypeOK
<1>7. CASE Fill(p)
  <2>1. /\ UNCHANGED <<target, onDisk>> /\ pc[p] = "fill" /\ temps' \subseteq temps
        /\ \A i \in Inodes \ {fd[p]} : file'[i] = file[i]
        /\ pc'[p] \in {"staged", "return"}
        /\ pc'[p] = "staged" => fd'[p] = fd[p] /\ file' = [file EXCEPT ![fd[p]] = data[p]]
    BY <1>4, <1>7 DEF Fill, Discard, Unlink
  <2>2. fd[p] \in temps /\ fd[p] \in Inodes /\ data[p] \in Values /\ (fd[p] # onDisk \/ onDisk = None)
    BY <2>1 DEF Files, HeldStill, Shape, Staging, Replacing, Platter
  <2>3. pc'[p] = "staged" => fd[p] \in inked'
    <3>1. data[p] \in Values /\ data[p] # Torn /\ fd[p] \in Inodes
      BY <2>1, ValuesAssumption DEF Shape, Staging, Replacing, Contents
    <3> QED
      BY <2>1, <3>1 DEF Run, FileSync
  <2>4. fd[p] # target
    BY <2>1 DEF Files, HeldStill, Staging
  <2> QED
    BY <1>2, <1>3, <1>4, <2>1, <2>2, <2>3, <2>4 DEF Platter, DurableTypeOK
<1>8. CASE Recheck(p)
  <2>1. /\ UNCHANGED <<target, onDisk, file>> /\ temps' \subseteq temps /\ pc[p] = "staged"
        /\ pc'[p] \in {"rename", "return"}
        /\ pc'[p] = "rename" => fd'[p] = fd[p]
    BY <1>4, <1>8 DEF Recheck, Discard, Unlink
  <2> QED
    BY <1>2, <1>3, <1>4, <2>1 DEF Platter
<1>9. CASE Rename(p)
  <2>1. /\ UNCHANGED <<onDisk, file>> /\ temps' \subseteq temps /\ pc[p] = "rename"
        /\ pc'[p] \in {"sync", "return"} /\ target' \in {target, fd[p]}
    BY <1>4, <1>9 DEF Rename, Discard, Unlink
  <2> QED
    BY <1>2, <1>3, <1>4, <2>1 DEF Platter
<1>10. CASE Expire(p)
  BY <1>2, <1>4, <1>10 DEF Expire, disk, Platter, Files
<1> QED
  BY <1>1, <1>5, <1>6, <1>7, <1>8, <1>9, <1>10, InodesMove

(* Platter holds of a new disk. *)
LEMMA PlatterInit == DurableInit => Protocol /\ Platter
<1>1. DurableInit => Protocol
  BY ControlInit, FilesInit, DecisionsInit DEF DurableInit, Protocol
<1>2. DurableInit => Platter
  BY DEF DurableInit, Init, Platter, DurableTypeOK
<1> QED
  BY <1>1, <1>2

(* Platter is inductive, beside the invariants of FileCas. *)
LEMMA PlatterNext == Protocol /\ Platter /\ [DurableNext]_diskVars => Protocol' /\ Platter'
<1> SUFFICES ASSUME Protocol, Platter, [DurableNext]_diskVars PROVE Protocol' /\ Platter'
  OBVIOUS
<1>1. ASSUME NEW p \in Procs, Run(p) PROVE Protocol' /\ Platter'
  <2>1. [Next]_vars
    BY <1>1 DEF Run, Next
  <2>2. Protocol'
    BY <2>1, ControlNext, FilesNext, DecisionsNext DEF Protocol
  <2> QED
    BY <1>1, <2>2, PlatterRun
<1>2. CASE UNCHANGED vars /\ (WriteBack \/ UNCHANGED platter)
  <2>1. Protocol'
    BY <1>2, ControlNext, FilesNext, DecisionsNext DEF Protocol
  <2>2. UNCHANGED <<target, temps, file, pc, fd>>
    BY <1>2 DEF vars, locals, disk
  <2>3. CASE WriteBack
    BY <2>1, <2>2, <2>3 DEF WriteBack, Platter, DurableTypeOK, Protocol, Files, Control, TypeOK
  <2>4. CASE UNCHANGED platter
    BY <2>1, <2>2, <2>4 DEF platter, Platter, DurableTypeOK
  <2> QED
    BY <1>2, <2>1, <2>3, <2>4
<1>3. CASE PowerCut
  <2>1. Protocol'
    BY <1>3, ProtocolAfterPowerCut DEF Platter
  <2>2. Platter'
    BY <1>3 DEF PowerCut, Platter, DurableTypeOK, Protocol, Control, TypeOK
  <2> QED
    BY <2>1, <2>2
<1> QED
  BY <1>1, <1>2, <1>3 DEF DurableNext, WriteBack, diskVars

(* Power cuts and all, the protocol's invariants and Platter hold.            *)
THEOREM PlatterHolds == DurableSpec => [](Protocol /\ Platter)
  BY PlatterInit, PlatterNext, PTL DEF DurableSpec

(* No power cut leaves half a file under the name: see WholeAfterPowerCut.    *)
THEOREM NameIsNeverTorn == DurableSpec => []WholeAfterPowerCut
<1>1. Platter => WholeAfterPowerCut
  BY ValuesAssumption DEF Platter, WholeAfterPowerCut, Contents
<1> QED
  BY <1>1, PlatterHolds, PTL

(* No update is lost on a machine whose power is cut: see EditSeesTruth.      *)
THEOREM NoUpdateIsLostToPowerCuts == DurableSpec => []EditSeesTruth
<1>1. Protocol => EditSeesTruth
  BY DEF Protocol, Decisions, Decided, EditSeesTruth
<1> QED
  BY <1>1, PlatterHolds, PTL

--------------------------------------------------------------------------------
(* What was acknowledged.  A writer that is about to answer ok still holds    *)
(* the lock, so what it has synced is still what the name holds.              *)

(* No edit answers with the very value that it was shown.                     *)
EditsAlwaysWrite ==
    \A r \in Requests : r.kind = "change" => \A c \in Contents : r.edit[c] # c

AnsweringOk(p) == At(p, "return") /\ res[p] = "ok" /\ op[p].kind \in {"write", "change"}

Acknowledged ==
    /\ onDisk \in since /\ target \in since
    /\ \A p \in Procs : AnsweringOk(p) => holder = p /\ onDisk = target

(* The way to ok is the directory's sync.                                     *)
LEMMA OnlySyncsAnswerOk ==
  ASSUME EditsAlwaysWrite, Protocol, NEW p \in Procs, StepOf(p), AnsweringOk(p)'
  PROVE  SyncParent(p)
<1> USE DEF Protocol, AnsweringOk, At, Goto, Finish, Control, TypeOK
<1>1. CASE Environment(p) \/ Return(p)
  BY <1>1 DEF Environment, Call, Expire, Kill, Return, Forget
<1>2. CASE Locking(p)
  BY <1>2 DEF Locking, Enter, Acquire, LockFails, TryAgainLater, Retry, GiveUp, Locked
<1>3. CASE ReadCurrent(p) \/ Compare(p)
  BY <1>3 DEF ReadCurrent, Compare, CompareStops
<1>4. CASE Edit(p)
  <2>1. op[p] \in Requests /\ op[p].kind = "change" /\ base[p] \in Contents
    BY <1>4, CurrentIsWhole DEF Edit, Shape, Decisions, Decided
  <2>2. /\ op[p].edit[base[p]] # base[p]
        /\ op[p].edit[base[p]] \in Contents \cup EditErrors
    BY <2>1, EditAnswers DEF EditsAlwaysWrite, Sights
  <2>3. EditStops(op[p], base[p], op[p].edit[base[p]], expired[p]) # "ok"
    BY <2>2, EditsAssumption DEF EditStops
  <2> QED
    BY <1>4, <2>3 DEF Edit
<1>5. CASE Stage(p) \/ Fill(p) \/ Recheck(p) \/ Rename(p)
  BY <1>5 DEF Stage, Fill, Recheck, Rename
<1>6. CASE Sweeping(p) \/ Reading(p)
  BY <1>6 DEF Sweeping, List, RemoveStaged, Swept, Reading, Open, Load, Shape
<1> QED
  BY <1>1, <1>2, <1>3, <1>4, <1>5, <1>6 DEF StepOf, Work, Writing

(* A step after which the name has another inode is a rename under the lock.  *)
LEMMA OnlyRenamesMoveTheName ==
  ASSUME Protocol, NEW p \in Procs, StepOf(p)
  PROVE  UNCHANGED target \/ (Renames(p) /\ holder = p /\ pc'[p] = "sync")
<1> USE DEF Protocol
<1>1. CASE Rename(p)
  BY <1>1 DEF Rename, Renames, Control, TypeOK, Exclusion, Inside, Replacing, At, Goto
<1>2. CASE Stage(p) \/ Fill(p) \/ Recheck(p) \/ Expire(p)
  BY <1>2 DEF Stage, Fill, Recheck, Expire, disk
<1> QED
  BY <1>1, <1>2, InodesMove

(* Only the caller that holds the lock lets it go, and takes it when free.    *)
LEMMA HolderStands ==
  ASSUME Protocol, NEW p \in Procs, StepOf(p), NEW q \in Procs, q # p, holder = q
  PROVE  holder' = q
<1> USE NoneAssumption DEF Protocol, Control, TypeOK
<1>1. CASE Environment(p) \/ Return(p)
  BY <1>1 DEF Environment, Call, Expire, Kill, Return, Release
<1>2. CASE Locking(p)
  BY <1>2 DEF Locking, Enter, Acquire, LockFails, TryAgainLater, Retry, GiveUp
<1>3. CASE Writing(p) \/ Edit(p)
  BY <1>3 DEF Writing, ReadCurrent, Compare, Edit, Stage, Fill, Recheck, Rename, SyncParent
<1>4. CASE Sweeping(p) \/ Reading(p)
  BY <1>4 DEF Sweeping, List, RemoveStaged, Swept, Reading, Open, Load
<1> QED
  BY <1>1, <1>2, <1>3, <1>4 DEF StepOf, Work

(* No step of FileCas breaks Acknowledged. *)
LEMMA AcknowledgedRun ==
  ASSUME EditsAlwaysWrite, Protocol, Acknowledged, NEW p \in Procs, Run(p)
  PROVE  Acknowledged'
<1> USE DEF Protocol
<1>1. StepOf(p)
  BY DEF Run, StepOf
<1>2. \A q \in Procs : q # p => pc'[q] = pc[q] /\ op'[q] = op[q] /\ res'[q] = res[q]
  BY <1>1, OthersStand
<1>3. onDisk' = onDisk \/ onDisk' = target
  BY DEF Run
<1>4. ASSUME AnsweringOk(p)' PROVE holder' = p /\ onDisk' = target' /\ UNCHANGED target
  <2>1. SyncParent(p)
    BY <1>1, <1>4, OnlySyncsAnswerOk
  <2>2. At(p, "sync") /\ holder = p /\ UNCHANGED <<target, holder>>
    BY <2>1 DEF SyncParent, disk, Control, Exclusion, Inside, At
  <2>3. onDisk' = target
    BY <1>4, <2>2 DEF Run, DirSync, AnsweringOk
  <2> QED
    BY <2>2, <2>3
<1>5. ASSUME NEW q \in Procs, q # p, AnsweringOk(q)' PROVE holder' = q /\ onDisk' = target'
  <2>1. AnsweringOk(q)
    BY <1>2, <1>5 DEF AnsweringOk, At
  <2>2. holder = q /\ onDisk = target
    BY <2>1 DEF Acknowledged
  <2>3. UNCHANGED target
    BY <1>1, <1>5, <2>2, OnlyRenamesMoveTheName
  <2> QED
    BY <1>1, <1>3, <1>5, <2>2, <2>3, HolderStands
<1>6. onDisk' \in since' /\ target' \in since'
  <2>1. CASE Answered(p)
    <3>1. AnsweringOk(p)
      BY <2>1 DEF Answered, AnsweringOk
    <3>2. onDisk = target
      BY <3>1 DEF Acknowledged
    <3>3. UNCHANGED target
      BY <1>1, <2>1, OnlyRenamesMoveTheName DEF Answered
    <3>4. since' = {target}
      BY <2>1 DEF Run
    <3> QED
      BY <1>3, <3>2, <3>3, <3>4
  <2>2. CASE ~Answered(p) /\ Renames(p)
    <3>1. since' = since \cup {target'}
      BY <2>2 DEF Run
    <3> QED
      BY <1>3, <3>1 DEF Acknowledged
  <2>3. CASE ~Answered(p) /\ ~Renames(p)
    <3>1. since' = since
      BY <2>3 DEF Run
    <3>2. UNCHANGED target
      BY <1>1, <2>3, OnlyRenamesMoveTheName
    <3> QED
      BY <1>3, <3>1, <3>2 DEF Acknowledged
  <2> QED
    BY <2>1, <2>2, <2>3
<1> QED
  BY <1>4, <1>5, <1>6 DEF Acknowledged

(* Where every change that answers ok has written, what was acknowledged      *)
(* survives a power cut: see AcknowledgedSurvives.                            *)
THEOREM AcknowledgedIsDurable ==
  ASSUME EditsAlwaysWrite
  PROVE  DurableSpec => []AcknowledgedSurvives
<1>1. DurableInit => Acknowledged
  BY DEF DurableInit, Init, Acknowledged, AnsweringOk, At
<1>2. Protocol /\ Acknowledged /\ [DurableNext]_diskVars => Acknowledged'
  <2> SUFFICES ASSUME Protocol, Acknowledged, [DurableNext]_diskVars PROVE Acknowledged'
    OBVIOUS
  <2>1. ASSUME NEW p \in Procs, Run(p) PROVE Acknowledged'
    BY <2>1, AcknowledgedRun
  <2>2. CASE WriteBack \/ UNCHANGED diskVars
    <3>1. UNCHANGED <<target, holder, pc, res, op, since>> /\ onDisk' \in {onDisk, target}
      BY <2>2 DEF WriteBack, diskVars, vars, locals, disk, platter
    <3> QED
      BY <3>1 DEF Acknowledged, AnsweringOk, At
  <2>3. CASE PowerCut
    BY <2>3 DEF PowerCut, Acknowledged, AnsweringOk, At
  <2> QED
    BY <2>1, <2>2, <2>3 DEF DurableNext
<1>3. Acknowledged => AcknowledgedSurvives
  BY DEF Acknowledged, AcknowledgedSurvives
<1> QED
  BY <1>1, <1>2, <1>3, PlatterHolds, PTL DEF DurableSpec
================================================================================
