----------------------------- MODULE DenialsProofs -----------------------------
(***************************************************************************)
(* Theorems about Denials: however tries are denied, a call keeps to the   *)
(* protocol of FileCas, so that all that is proved of FileCas holds on     *)
(* Windows and over SMB as well.                                           *)
(***************************************************************************)
EXTENDS Denials, FileCasProofs

(* A denied open changes nothing, or is a failing step of FileCas.            *)
LEMMA DeniedOpenIsAStep ==
  ASSUME Control, NEW p \in Procs, DeniedOpen(p)
  PROVE  [Next]_vars
<1>1. CASE UNCHANGED vars
  BY <1>1
<1>2. CASE ~UNCHANGED vars
  <2>1. /\ Opening(p)
        /\ Finish(p, "oserror")
        /\ UNCHANGED <<op, base, data, fd, todo, expired, holder, disk>>
    BY <1>2 DEF DeniedOpen
  <2>2. Fails("read") /\ Fails("open")
    BY DenialsAssumption DEF Fails
  <2>3. CASE At(p, "open")
    <3>1. Open(p)
      BY <2>1, <2>2, <2>3 DEF Open
    <3> QED
      BY <3>1 DEF Next, Work, Reading
  <2>4. CASE At(p, "current")
    <3>1. ReadCurrent(p)
      BY <2>1, <2>2, <2>4 DEF ReadCurrent
    <3> QED
      BY <3>1 DEF Next, Work, Writing
  <2>5. CASE At(p, "compare") /\ data[p] # Nil
    <3>1. CompareStops(op[p], base[p], Current, data[p], expired[p]) # "novalue"
      BY <2>5 DEF CompareStops
    <3>2. Compare(p)
      BY <2>1, <2>2, <2>5, <3>1 DEF Compare
    <3> QED
      BY <3>2 DEF Next, Work, Writing
  <2> QED
    BY <2>1, <2>3, <2>4, <2>5 DEF Opening
<1> QED
  BY <1>1, <1>2

(* A denied rename changes nothing, or is a failing rename of FileCas.        *)
LEMMA DeniedRenameIsAStep ==
  ASSUME NEW p \in Procs, DeniedRename(p)
  PROVE  [Next]_vars
<1>1. CASE UNCHANGED vars
  BY <1>1
<1>2. CASE ~UNCHANGED vars
  <2>1. Rename(p)
    BY <1>2, DenialsAssumption DEF DeniedRename, Rename, Fails
  <2> QED
    BY <2>1 DEF Next, Work, Writing
<1> QED
  BY <1>1, <1>2

(* No denial, of any length, makes a call do what FileCas does not.           *)
THEOREM DenialsKeepToTheProtocol == DenialsSpec => KeepsToTheProtocol
<1>1. DenialsInit => Init
  BY DEF DenialsInit
<1>2. Control /\ [DenialsNext]_deniedVars => [Next]_vars
  <2> SUFFICES ASSUME Control, [DenialsNext]_deniedVars PROVE [Next]_vars
    OBVIOUS
  <2>1. ASSUME NEW p \in Procs, Outside(p) \/ Granted(p) PROVE [Next]_vars
    BY <2>1 DEF Outside, Granted, Next
  <2>2. CASE (\E p \in Procs : Stall(p) \/ Recover(p)) \/ UNCHANGED deniedVars
    BY <2>2 DEF Stall, Recover, deniedVars
  <2> QED
    BY <2>1, <2>2, DeniedOpenIsAStep, DeniedRenameIsAStep DEF DenialsNext, Try
<1>3. Init => Control
  BY ControlInit
<1>4. Control /\ [Next]_vars => Control'
  BY ControlNext
<1> QED
  BY <1>1, <1>2, <1>3, <1>4, PTL DEF DenialsSpec, KeepsToTheProtocol, Spec

(* A writer whose replacement is denied again and again loses no update and   *)
(* lets none be lost: its lock is held throughout the tries.                  *)
THEOREM DeniedWritersLoseNothing == DenialsSpec => []EditSeesTruth
  BY DenialsKeepToTheProtocol, NoUpdateIsLost, PTL DEF KeepsToTheProtocol

(* A replacement that is denied to the last leaves nothing behind.            *)
THEOREM DeniedWritersCleanUp == DenialsSpec => []NothingLeftBehind
  BY DenialsKeepToTheProtocol, LeftoversAreOrphans, PTL DEF KeepsToTheProtocol

(* Under denials each call still takes effect at one instant.                 *)
THEOREM DeniedCallsActAsRegister == DenialsSpec => ActsAsRegister
  BY DenialsKeepToTheProtocol, FileCasIsARegister, PTL DEF KeepsToTheProtocol

(* The number of tries is a count, and only renames that may stall do.        *)
THEOREM DenialsTypes == DenialsSpec => []DenialsTypeOK
<1>1. DenialsInit => DenialsTypeOK
  BY DEF DenialsInit, DenialsTypeOK
<1>2. DenialsTypeOK /\ [DenialsNext]_deniedVars => DenialsTypeOK'
  <2> SUFFICES ASSUME DenialsTypeOK, [DenialsNext]_deniedVars PROVE DenialsTypeOK'
    OBVIOUS
  <2> USE DEF DenialsTypeOK
  <2>1. CASE UNCHANGED deniedVars
    BY <2>1 DEF deniedVars
  <2>2. ASSUME NEW p \in Procs, Outside(p) \/ Try(p) \/ Stall(p) \/ Recover(p)
        PROVE  DenialsTypeOK'
    <3>1. stalled' \in SUBSET Stalling
      BY <2>2 DEF Outside, Try, Stall, Recover
    <3>2. tries' = tries \/ \E n \in Nat : tries' = [tries EXCEPT ![p] = n]
      BY <2>2 DEF Outside, Try, Stall, Recover, Granted, DeniedOpen, DeniedRename
    <3> QED
      BY <3>1, <3>2
  <2> QED
    BY <2>1, <2>2 DEF DenialsNext
<1> QED
  BY <1>1, <1>2, PTL DEF DenialsSpec

StallsHoldTheLock == \A p \in stalled : At(p, "rename") /\ holder = p

(* A call that stalls in its rename holds the lock, and with it its staged    *)
(* file, for as long: no write comes between, and no two calls stall at once. *)
THEOREM StalledCallsHoldTheLock == DenialsSpec => []StallsHoldTheLock
<1>1. DenialsInit => \A p \in stalled : At(p, "rename")
  BY DEF DenialsInit
<1>2. /\ \A p \in stalled : At(p, "rename")
      /\ DenialsTypeOK /\ Control /\ [DenialsNext]_deniedVars
      => (\A p \in stalled : At(p, "rename"))'
  <2> SUFFICES ASSUME \A p \in stalled : At(p, "rename"),
                      DenialsTypeOK, Control, [DenialsNext]_deniedVars,
                      NEW q \in stalled'
               PROVE  pc'[q] = "rename"
    BY DEF At
  <2>1. pc \in [Procs -> Labels] /\ Stalling \subseteq Procs /\ stalled \subseteq Stalling
    BY DenialsAssumption DEF Control, TypeOK, DenialsTypeOK
  <2>2. CASE UNCHANGED deniedVars
    BY <2>2 DEF deniedVars, vars, At
  <2>3. ASSUME NEW p \in Procs, Stall(p) \/ Recover(p) PROVE pc'[q] = "rename"
    BY <2>3 DEF Stall, Recover, vars, At
  <2>4. ASSUME NEW p \in Procs, Outside(p) PROVE pc'[q] = "rename"
    <3>1. CASE p = q
      BY <2>4, <3>1 DEF Outside, At
    <3>2. CASE p # q
      <4>1. q \in stalled /\ q \in Procs
        BY <2>1, <2>4 DEF Outside
      <4>2. pc'[q] = pc[q]
        BY <2>4, <3>2, <4>1, OthersStand DEF Outside, StepOf
      <4> QED
        BY <4>1, <4>2 DEF At
    <3> QED
      BY <3>1, <3>2
  <2>5. ASSUME NEW p \in Procs, Try(p) PROVE pc'[q] = "rename"
    <3>1. q \in stalled /\ q \in Procs /\ p # q
      BY <2>1, <2>5 DEF Try
    <3>2. pc'[q] = pc[q]
      <4>1. CASE DeniedOpen(p) \/ DeniedRename(p)
        BY <2>1, <3>1, <4>1 DEF DeniedOpen, DeniedRename, Finish, Goto, vars
      <4>2. CASE Granted(p)
        BY <3>1, <4>2, OthersStand DEF Granted, StepOf
      <4> QED
        BY <2>5, <4>1, <4>2 DEF Try
    <3> QED
      BY <3>1, <3>2 DEF At
  <2> QED
    BY <2>2, <2>3, <2>4, <2>5 DEF DenialsNext
<1>3. Control /\ (\A p \in stalled : At(p, "rename")) /\ DenialsTypeOK => StallsHoldTheLock
  BY DenialsAssumption
     DEF Control, Exclusion, Inside, Replacing, StallsHoldTheLock, DenialsTypeOK, At
<1>4. DenialsSpec => []Control
  BY DenialsKeepToTheProtocol, ControlHolds DEF KeepsToTheProtocol
<1> QED
  BY <1>1, <1>2, <1>3, <1>4, DenialsTypes, PTL DEF DenialsSpec
================================================================================
