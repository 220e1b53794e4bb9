----------------------------- MODULE RecordsProofs -----------------------------
(***************************************************************************)
(* Theorems about Records: records whose names are apart are independent,  *)
(* and a Placement keeps every two names apart.                            *)
(***************************************************************************)
EXTENDS Records, SequenceTheorems, WellFoundedInduction, TLAPS

--------------------------------------------------------------------------------
(* The first k elements of a sequence.                                        *)
LEMMA Prefix ==
  ASSUME NEW S, NEW s \in Seq(S), NEW k \in 0..Len(s)
  PROVE  /\ SubSeq(s, 1, k) \in Seq(S)
         /\ Len(SubSeq(s, 1, k)) = k
         /\ \A i \in 1..k : SubSeq(s, 1, k)[i] = s[i]
OBVIOUS

(* Two words make a name, or the end of one.                                  *)
LEMMA Pair ==
  ASSUME NEW S, NEW a \in S, NEW b \in S
  PROVE  /\ <<a, b>> \in Seq(S) /\ Len(<<a, b>>) = 2
         /\ <<a, b>>[1] = a /\ <<a, b>>[2] = b
OBVIOUS

(* A path is its directory with its own name at the end.                      *)
LEMMA PathIsDirAndBase ==
  ASSUME NEW q \in Path, q # <<>>
  PROVE  Dir(q) \in Path /\ Base(q) \in Name /\ q = In(Dir(q), Base(q))
<1>1. Len(q) \in Nat \ {0} /\ Len(q) - 1 \in 0..Len(q)
  BY EmptySeq, LenProperties DEF Path
<1>2. Base(q) \in Name
  BY <1>1, ElementOfSeq DEF Path, Base
<1>3. /\ Dir(q) \in Seq(Name)
      /\ Len(Dir(q)) = Len(q) - 1
      /\ \A i \in 1..(Len(q) - 1) : Dir(q)[i] = q[i]
  BY <1>1, Prefix DEF Dir, Path
<1>4. /\ In(Dir(q), Base(q)) \in Seq(Name)
      /\ Len(In(Dir(q), Base(q))) = Len(q)
      /\ \A i \in 1..Len(q) : In(Dir(q), Base(q))[i] = q[i]
  BY <1>1, <1>2, <1>3, AppendProperties DEF In, Base
<1> QED
  BY <1>2, <1>3, <1>4, SeqEqual DEF Path

(* What a sweep takes has a staged name of its record.                        *)
LEMMA SweepTakesStagedNames ==
  ASSUME NEW place \in Places, NEW q \in Sweepable(place)
  PROVE  \E u \in Unique : q = StagedAs(place, u)
<1> DEFINE base == Base(place.target)
           name == Base(q)
<1>1. q \in Path /\ q # <<>> /\ Dir(q) = place.stage /\ StagedName(name, base)
  BY CallsAssumption DEF Sweepable
<1>2. place.target \in Path /\ place.target # <<>>
  BY CallsAssumption DEF Places, Place, Beside, InSide
<1> HIDE DEF base, name
<1>3. base \in Name /\ name \in Name /\ q = In(place.stage, name)
  BY <1>1, <1>2, PathIsDirAndBase DEF base, name
<1>4. PICK u \in Unique \cap Words : name[Len(base) + 1] = u
  BY <1>1, NamesAssumption DEF StagedName
<1>5. name = base \o <<u, "tmp">>
  <2>1. /\ <<u, "tmp">> \in Name /\ Len(<<u, "tmp">>) = 2
        /\ <<u, "tmp">>[1] = u /\ <<u, "tmp">>[2] = "tmp"
    BY <1>4, Pair, NamesAssumption DEF Name
  <2>2. /\ base \o <<u, "tmp">> \in Name
        /\ Len(base \o <<u, "tmp">>) = Len(base) + 2
        /\ \A i \in 1..(Len(base) + 2) : (base \o <<u, "tmp">>)[i] =
               IF i <= Len(base) THEN base[i] ELSE <<u, "tmp">>[i - Len(base)]
    BY <1>3, <2>1, ConcatProperties DEF Name
  <2>3. /\ Len(base) \in Nat /\ Len(name) = Len(base) + 2
        /\ \A i \in 1..Len(base) : name[i] = base[i]
        /\ name[Len(base) + 2] = "tmp"
    BY <1>1, <1>3, LenProperties DEF StagedName, Name, base, name
  <2>4. \A i \in 1..Len(name) : name[i] = (base \o <<u, "tmp">>)[i]
    <3> TAKE i \in 1..Len(name)
    <3>1. CASE i \in 1..Len(base)
      BY <2>2, <2>3, <3>1
    <3>2. CASE i = Len(base) + 1
      BY <1>4, <2>1, <2>2, <2>3, <3>2
    <3>3. CASE i = Len(base) + 2
      <4>1. i - Len(base) = 2 /\ ~(i <= Len(base)) /\ i \in 1..(Len(base) + 2)
        BY <2>3, <3>3
      <4> QED
        BY <2>1, <2>2, <2>3, <3>3, <4>1
    <3> QED
      BY <2>3, <3>1, <3>2, <3>3
  <2> QED
    BY <1>3, <2>2, <2>3, <2>4, SeqEqual DEF Name
<1> QED
  BY <1>3, <1>4, <1>5 DEF StagedAs, base
--------------------------------------------------------------------------------
(* What holds in every state.  A caller that has opened its lock file still   *)
(* finds it under its name, so that whoever holds a record's lock holds the   *)
(* one every other caller of the record will ask for; and what it has seen    *)
(* and staged is still under its name.                                        *)
Opened(p)    == pc[p] \in {"flock", "read", "stage", "rename", "sweep"}
Holding(p)   == pc[p] \in {"read", "stage", "rename", "sweep"}
Replacing(p) == pc[p] \in {"stage", "rename"}

Served(p) == pc[p] # "idle" => op[p] \in Calls /\ Allowed(op[p])
Locked(p) ==
    /\ Opened(p) => lk[p] \in Inodes /\ names[Its(p).lock] = lk[p]
    /\ Holding(p) => holder[lk[p]] = p
Shown(p)  == Replacing(p) => seen[p] = names[Its(p).target]
Staged(p) == At(p, "rename") =>
    /\ fd[p] \in Inodes /\ names[tmp[p]] = fd[p]
    /\ \E u \in Unique : tmp[p] = StagedAs(Its(p), u)

Inv == RecordsTypeOK /\ \A p \in Procs : Served(p) /\ Locked(p) /\ Shown(p) /\ Staged(p)

(* The files of a call have names.                                            *)
LEMMA FilesHaveNames ==
  ASSUME NEW r \in Calls, Allowed(r)
  PROVE  /\ Place(r) \in Places
         /\ Place(r).target \in Paths /\ Place(r).lock \in Paths
         /\ \A u \in Unique : StagedAs(Place(r), u) \in Paths
<1>1. Place(r) \in Places
  BY DEF Places
<1> QED
  BY <1>1, FilesAssumption

(* Callers that hold one lock are one caller.                                 *)
LEMMA Exclusion ==
  ASSUME Inv, NEW p \in Procs, NEW q \in Procs, Holding(p), Holding(q), Its(p).lock = Its(q).lock
  PROVE  p = q
BY DEF Inv, Locked, Opened, Holding

(* A step of p is p's alone.                                                  *)
LEMMA OthersStand ==
  ASSUME Inv, NEW p \in Procs, Step(p), NEW q \in Procs, q # p
  PROVE  /\ pc'[q] = pc[q] /\ op'[q] = op[q] /\ lk'[q] = lk[q]
         /\ seen'[q] = seen[q] /\ tmp'[q] = tmp[q] /\ fd'[q] = fd[q]
BY DEF Inv, RecordsTypeOK, Step, Call, MakeDirs, OpenLock, Acquire, ReadCurrent, Stage, Rename,
       Sweep, Return, Kill, Forget, Finish, Goto, caller

(* The steps that change names, and how.                                      *)
LEMMA NamesMove ==
  ASSUME Inv, NEW p \in Procs, Step(p)
  PROVE  \/ names' = names
         \/ OpenLock(p) \/ Stage(p) \/ Rename(p) \/ Sweep(p)
BY DEF Step, Call, MakeDirs, Acquire, ReadCurrent, Return, Kill, caller

(* A lock file stays where it is.                                             *)
LEMMA LockStays ==
  ASSUME Apart, Inv, NEW p \in Procs, Step(p), NEW place \in Places, names[place.lock] # None
  PROVE  names'[place.lock] = names[place.lock]
<1>1. place.lock \in Paths /\ names \in [Paths -> Inodes \cup {None}]
  BY FilesAssumption DEF Inv, RecordsTypeOK
<1>2. CASE OpenLock(p)
  BY <1>1, <1>2 DEF OpenLock
<1>3. CASE Stage(p)
  BY <1>1, <1>3 DEF Stage
<1>4. CASE Rename(p)
  <2>1. Its(p) \in Places /\ \E u \in Unique : tmp[p] = StagedAs(Its(p), u)
    BY <1>4, FilesHaveNames DEF Inv, Served, Staged, Rename, At, Its
  <2>2. place.lock # tmp[p] /\ place.lock # Its(p).target
    BY <2>1 DEF Apart
  <2> QED
    BY <1>1, <1>4, <2>2 DEF Rename
<1>5. CASE Sweep(p)
  <2>1. Its(p) \in Places
    BY <1>5, FilesHaveNames DEF Inv, Served, Sweep, At, Its
  <2>2. place.lock \notin Sweepable(Its(p))
    BY <2>1, SweepTakesStagedNames DEF Apart
  <2> QED
    BY <1>1, <1>5, <2>2 DEF Sweep
<1> QED
  BY <1>2, <1>3, <1>4, <1>5, NamesMove

(* A record changes when its writer renames over it.                          *)
LEMMA TargetChanges ==
  ASSUME Apart, Inv, NEW p \in Procs, Step(p), NEW place \in Places,
         names'[place.target] # names[place.target]
  PROVE  At(p, "rename") /\ Its(p) = place /\ names'[place.target] = fd[p]
<1>1. place.target \in Paths /\ names \in [Paths -> Inodes \cup {None}]
  BY FilesAssumption DEF Inv, RecordsTypeOK
<1>2. CASE OpenLock(p)
  <2>1. Its(p) \in Places
    BY <1>2, FilesHaveNames DEF Inv, Served, OpenLock, At, Its
  <2> QED
    BY <1>1, <1>2, <2>1 DEF OpenLock, Apart
<1>3. CASE Stage(p)
  <2>1. Its(p) \in Places
    BY <1>3, FilesHaveNames DEF Inv, Served, Stage, At, Its
  <2> QED
    BY <1>1, <1>3, <2>1 DEF Stage, Apart
<1>4. CASE Rename(p)
  <2>1. /\ Its(p) \in Places /\ \E u \in Unique : tmp[p] = StagedAs(Its(p), u)
        /\ names[tmp[p]] = fd[p]
    BY <1>4, FilesHaveNames DEF Inv, Served, Staged, Rename, At, Its
  <2>2. place.target # tmp[p]
    BY <2>1 DEF Apart
  <2>3. place.target = Its(p).target /\ names'[place.target] = names[tmp[p]]
    BY <1>1, <1>4, <2>2 DEF Rename
  <2> QED
    BY <1>4, <2>1, <2>3 DEF Rename, Apart
<1>5. CASE Sweep(p)
  <2>1. Its(p) \in Places
    BY <1>5, FilesHaveNames DEF Inv, Served, Sweep, At, Its
  <2>2. place.target \notin Sweepable(Its(p))
    BY <2>1, SweepTakesStagedNames DEF Apart
  <2> QED
    BY <1>1, <1>5, <2>2 DEF Sweep
<1> QED
  BY <1>2, <1>3, <1>4, <1>5, NamesMove

(* A staged file is moved or taken by a caller that holds its record's lock.  *)
LEMMA StagedChanges ==
  ASSUME Apart, Inv, NEW p \in Procs, Step(p), NEW place \in Places, NEW u \in Unique,
         names[StagedAs(place, u)] # None,
         names'[StagedAs(place, u)] # names[StagedAs(place, u)]
  PROVE  Holding(p) /\ Its(p).lock = place.lock
<1> DEFINE f == StagedAs(place, u)
<1>1. f \in Paths /\ names \in [Paths -> Inodes \cup {None}]
  BY FilesAssumption DEF Inv, RecordsTypeOK
<1> HIDE DEF f
<1>2. CASE OpenLock(p)
  BY <1>1, <1>2 DEF OpenLock, f
<1>3. CASE Stage(p)
  BY <1>1, <1>3 DEF Stage, f
<1>4. CASE Rename(p)
  <2>1. /\ Its(p) \in Places /\ \E v \in Unique : tmp[p] = StagedAs(Its(p), v)
        /\ Holding(p)
    BY <1>4, FilesHaveNames DEF Inv, Served, Staged, Rename, At, Its, Holding
  <2>2. f # Its(p).target
    BY <2>1 DEF Apart, f
  <2>3. f = tmp[p]
    BY <1>1, <1>4, <2>2 DEF Rename, f
  <2> QED
    BY <2>1, <2>3 DEF Apart, f
<1>5. CASE Sweep(p)
  <2>1. Its(p) \in Places /\ Holding(p)
    BY <1>5, FilesHaveNames DEF Inv, Served, Sweep, At, Its, Holding
  <2>2. f \in Sweepable(Its(p))
    BY <1>1, <1>5 DEF Sweep, f
  <2>3. \E v \in Unique : f = StagedAs(Its(p), v)
    BY <2>1, <2>2, SweepTakesStagedNames
  <2> QED
    BY <2>1, <2>3 DEF Apart, f
<1> QED
  BY <1>2, <1>3, <1>4, <1>5, NamesMove DEF f

(* The types hold in the next state.                                          *)
LEMMA TypesNext ==
  ASSUME Inv, NEW p \in Procs, Step(p)
  PROVE  RecordsTypeOK'
<1> USE CallsAssumption DEF Inv, RecordsTypeOK, Labels, Goto, Finish, Release, Forget, At, caller
<1>1. CASE \E r \in Calls : Call(p, r)
  BY <1>1 DEF Call
<1>2. ASSUME NEW from \in Labels, NEW to \in Labels, NEW q \in Paths, MakeDirs(p, from, q, to)
      PROVE  RecordsTypeOK'
  BY <1>2, FilesAssumption DEF MakeDirs, Makeable
<1>3. pc[p] # "idle" =>
         /\ Its(p).target \in Paths /\ Its(p).lock \in Paths
         /\ \A u \in Unique : StagedAs(Its(p), u) \in Paths
  BY FilesHaveNames DEF Served, Its
<1>4. CASE OpenLock(p)
  BY <1>3, <1>4 DEF OpenLock, Free
<1>5. CASE Acquire(p)
  BY <1>5 DEF Acquire
<1>6. CASE ReadCurrent(p)
  BY <1>3, <1>6 DEF ReadCurrent
<1>7. CASE Stage(p)
  BY <1>3, <1>7 DEF Stage, Free
<1>8. CASE Rename(p)
  <2>1. tmp[p] \in Paths /\ names[tmp[p]] \in Inodes
    BY <1>3, <1>8 DEF Rename, Staged
  <2> QED
    BY <1>3, <1>8, <2>1 DEF Rename
<1>9. CASE Sweep(p)
  BY <1>9 DEF Sweep
<1>10. CASE Return(p) \/ Kill(p)
  BY <1>10 DEF Return, Kill
<1>11. CASE MakeDirs(p, "dirs", Its(p).target, "lockdir") \/ MakeDirs(p, "lockdir", Its(p).lock, "open")
  BY <1>2, <1>3, <1>11 DEF MakeDirs
<1> QED
  BY <1>1, <1>4, <1>5, <1>6, <1>7, <1>8, <1>9, <1>10, <1>11 DEF Step

(* A step of p keeps what holds of p.                                         *)
LEMMA OwnNext ==
  ASSUME Apart, Inv, NEW p \in Procs, Step(p)
  PROVE  (Served(p) /\ Locked(p) /\ Shown(p) /\ Staged(p))'
<1> USE CallsAssumption DEF Inv, RecordsTypeOK, Goto, Finish, At, caller
<1>0. pc[p] # "idle" =>
         /\ Its(p) \in Places
         /\ Its(p).target \in Paths /\ Its(p).lock \in Paths
         /\ \A u \in Unique : StagedAs(Its(p), u) \in Paths
  BY FilesHaveNames DEF Served, Its
<1> USE DEF Served, Locked, Shown, Staged, Opened, Holding, Replacing
<1>1. CASE \E r \in Calls : Call(p, r)
  BY <1>1 DEF Call
<1>2. CASE MakeDirs(p, "dirs", Its(p).target, "lockdir") \/ MakeDirs(p, "lockdir", Its(p).lock, "open")
  BY <1>2 DEF MakeDirs
<1>3. CASE OpenLock(p)
  <2>1. op' = op /\ (pc'[p] = "flock" \/ pc'[p] = "return")
    BY <1>3 DEF OpenLock
  <2>2. pc'[p] = "flock" => lk'[p] \in Inodes /\ names'[Its(p).lock] = lk'[p]
    BY <1>0, <1>3 DEF OpenLock, Free
  <2> QED
    BY <1>3, <2>1, <2>2 DEF Its, OpenLock
<1>4. CASE Acquire(p)
  BY <1>4 DEF Acquire, Its
<1>5. CASE ReadCurrent(p)
  BY <1>5 DEF ReadCurrent, Its
<1>6. CASE Stage(p)
  <2>1. PICK u \in Unique, i \in Free :
           /\ names[StagedAs(Its(p), u)] = None
           /\ names' = [names EXCEPT ![StagedAs(Its(p), u)] = i]
           /\ tmp' = [tmp EXCEPT ![p] = StagedAs(Its(p), u)]
           /\ fd' = [fd EXCEPT ![p] = i]
    BY <1>6 DEF Stage
  <2>2. /\ pc[p] = "stage" /\ pc'[p] = "rename"
        /\ UNCHANGED <<op, lk, seen, holder>> /\ Its(p)' = Its(p) /\ i \in Inodes
    BY <1>6 DEF Stage, Its, Free
  <2>3. StagedAs(Its(p), u) \notin {Its(p).target, Its(p).lock}
    BY <1>0, <2>2 DEF Apart
  <2>4. names'[Its(p).target] = names[Its(p).target] /\ names'[Its(p).lock] = names[Its(p).lock]
    BY <1>0, <2>1, <2>2, <2>3
  <2> QED
    BY <1>0, <2>1, <2>2, <2>4
<1>7. CASE Rename(p) \/ Sweep(p)
  <2>1. pc'[p] = "return" /\ op' = op
    BY <1>7 DEF Rename, Sweep
  <2> QED
    BY <1>7, <2>1 DEF Rename, Sweep
<1>8. CASE Return(p) \/ Kill(p)
  BY <1>8 DEF Return, Kill, Forget
<1> QED
  BY <1>1, <1>2, <1>3, <1>4, <1>5, <1>6, <1>7, <1>8 DEF Step

(* A lock is released, or passed on, by its holder only.                      *)
LEMMA HolderStays ==
  ASSUME Inv, NEW p \in Procs, Step(p), NEW i \in Inodes, holder[i] \notin {None, p}
  PROVE  holder'[i] = holder[i]
BY DEF Inv, RecordsTypeOK, Step, Call, MakeDirs, OpenLock, Acquire, ReadCurrent, Stage, Rename,
       Sweep, Return, Kill, Release, caller

(* A step of p keeps what holds of the others.                                *)
LEMMA OthersNext ==
  ASSUME Apart, Inv, NEW p \in Procs, Step(p), NEW q \in Procs, q # p
  PROVE  (Served(q) /\ Locked(q) /\ Shown(q) /\ Staged(q))'
<1>1. /\ pc'[q] = pc[q] /\ op'[q] = op[q] /\ lk'[q] = lk[q]
      /\ seen'[q] = seen[q] /\ tmp'[q] = tmp[q] /\ fd'[q] = fd[q] /\ Its(q)' = Its(q)
  BY OthersStand DEF Its
<1>2. Served(q)'
  BY <1>1 DEF Inv, Served
<1>3. pc[q] # "idle" => Its(q) \in Places
  BY FilesHaveNames DEF Inv, Served, Its
<1>4. Locked(q)'
  <2>1. Opened(q) => lk[q] \in Inodes /\ names[Its(q).lock] = lk[q]
                     /\ names'[Its(q).lock] = names[Its(q).lock]
    BY <1>3, LockStays, CallsAssumption DEF Inv, Locked, Opened
  <2>2. Holding(q) => holder[lk[q]] = q /\ lk[q] \in Inodes
    BY DEF Inv, Locked, Holding, Opened
  <2>3. Holding(q) => holder'[lk[q]] = q
    BY <2>2, HolderStays, CallsAssumption
  <2> QED
    BY <1>1, <2>1, <2>3 DEF Locked, Opened, Holding
<1>5. Shown(q)'
  <2>1. ASSUME Replacing(q) PROVE names'[Its(q).target] = names[Its(q).target]
    <3>1. Holding(q) /\ Its(q) \in Places
      BY <1>3, <2>1 DEF Replacing, Holding
    <3> SUFFICES ASSUME names'[Its(q).target] # names[Its(q).target] PROVE FALSE
      OBVIOUS
    <3>2. At(p, "rename") /\ Its(p) = Its(q)
      BY <3>1, TargetChanges
    <3> QED
      BY <3>1, <3>2, Exclusion DEF Holding, At
  <2> QED
    BY <1>1, <2>1 DEF Inv, Shown, Replacing
<1>6. Staged(q)'
  <2>1. ASSUME At(q, "rename") PROVE names'[tmp[q]] = names[tmp[q]]
    <3>1. Holding(q) /\ Its(q) \in Places /\ names[tmp[q]] # None
      BY <1>3, <2>1, CallsAssumption DEF Inv, Staged, Holding, At
    <3>2. PICK u \in Unique : tmp[q] = StagedAs(Its(q), u)
      BY <2>1 DEF Inv, Staged
    <3> SUFFICES ASSUME names'[tmp[q]] # names[tmp[q]] PROVE FALSE
      OBVIOUS
    <3>3. Holding(p) /\ Its(p).lock = Its(q).lock
      BY <3>1, <3>2, StagedChanges
    <3> QED
      BY <3>1, <3>3, Exclusion
  <2> QED
    BY <1>1, <2>1 DEF Inv, Staged, At
<1> QED
  BY <1>2, <1>4, <1>5, <1>6

--------------------------------------------------------------------------------
(* Records whose names are apart keep the invariant.                          *)
THEOREM RecordsHold == ASSUME Apart PROVE Spec => []Inv
<1>1. Init => Inv
  BY CallsAssumption DEF Init, Inv, RecordsTypeOK, Labels, Served, Locked, Shown, Staged, Opened,
         Holding, Replacing, At
<1>2. Inv /\ [Next]_vars => Inv'
  <2> SUFFICES ASSUME Inv, [Next]_vars PROVE Inv'
    OBVIOUS
  <2>1. ASSUME NEW p \in Procs, Step(p) PROVE Inv'
    BY <2>1, TypesNext, OwnNext, OthersNext DEF Inv
  <2>2. CASE UNCHANGED vars
    BY <2>2 DEF vars, caller, Inv, RecordsTypeOK, Served, Locked, Shown, Staged, Opened, Holding,
                Replacing, At, Its
  <2> QED
    BY <2>1, <2>2 DEF Next
<1> QED
  BY <1>1, <1>2, PTL DEF Spec

(* Every state has values of the types stated.                                *)
THEOREM RecordsTypes == ASSUME Apart PROVE Spec => []RecordsTypeOK
<1>1. Inv => RecordsTypeOK
  BY DEF Inv
<1> QED
  BY <1>1, RecordsHold, PTL

(* A record's file changes by a writer of that very record, which replaces    *)
(* what it has read: no update is lost, whatever the neighbours are doing.    *)
THEOREM NoNeighbourTouchesARecord == ASSUME Apart PROVE Spec => RecordsChangeByTheirWriters
<1>1. ASSUME Inv, [Next]_vars
      PROVE  [\A place \in Places : names'[place.target] # names[place.target] =>
                \E p \in Procs :
                    /\ At(p, "rename") /\ Its(p) = place
                    /\ seen[p] = names[place.target]
                    /\ fd[p] = names'[place.target]]_vars
  <2> SUFFICES ASSUME Next, NEW place \in Places, names'[place.target] # names[place.target]
               PROVE  \E p \in Procs :
                    /\ At(p, "rename") /\ Its(p) = place
                    /\ seen[p] = names[place.target]
                    /\ fd[p] = names'[place.target]
    BY <1>1
  <2>1. PICK p \in Procs : Step(p)
    BY DEF Next
  <2>2. At(p, "rename") /\ Its(p) = place /\ names'[place.target] = fd[p]
    BY <1>1, <2>1, TargetChanges
  <2> QED
    BY <1>1, <2>2 DEF Inv, Shown, Replacing, At
<1> QED
  BY <1>1, RecordsHold, PTL DEF Spec, RecordsChangeByTheirWriters

(* A lock file keeps its inode for ever: no rename or sweep of a neighbour    *)
(* takes it from under its holders.                                           *)
THEOREM LocksAreForEver == ASSUME Apart PROVE Spec => LocksStay
<1>1. ASSUME Inv, [Next]_vars
      PROVE  [\A place \in Places : names[place.lock] # None =>
                 names'[place.lock] = names[place.lock]]_vars
  BY <1>1, LockStays DEF Next
<1> QED
  BY <1>1, RecordsHold, PTL DEF Spec, LocksStay

(* What a live writer has staged is there when it renames it.                 *)
THEOREM StagedFilesAreSafe == ASSUME Apart PROVE Spec => []StagedFilesStay
<1>1. Inv => StagedFilesStay
  BY DEF Inv, Staged, StagedFilesStay
<1> QED
  BY <1>1, RecordsHold, PTL

--------------------------------------------------------------------------------
(* A covered file lies deeper than the root, and its mirror as much deeper    *)
(* than the side directory, under its own name.                               *)
LEMMA MirrorLiesInSide ==
  ASSUME NEW x \in Path, Covers(x)
  PROVE  /\ x # <<>> /\ Mirror(x) \in Path /\ Mirror(x) # <<>>
         /\ Base(x) \in Name /\ Base(Mirror(x)) = Base(x)
         /\ Len(Side) < Len(Mirror(x))
         /\ \A i \in 1..Len(Side) : Mirror(x)[i] = Side[i]
<1> DEFINE rel == SubSeq(x, Len(Root) + 1, Len(x))
<1>1. Root \in Seq(Name) /\ Side \in Seq(Name) /\ x \in Seq(Name)
  BY NamesAssumption DEF Path
<1>2. Len(Root) \in Nat /\ Len(Side) \in Nat /\ Len(x) \in Nat
  BY <1>1, LenProperties
<1>3. Len(Root) < Len(x)
  BY <1>1, <1>2, SeqEqual DEF Covers, Within
<1>4. /\ rel \in Seq(Name) /\ Len(rel) = Len(x) - Len(Root)
      /\ rel[Len(x) - Len(Root)] = x[Len(x)]
  BY <1>1, <1>2, <1>3
<1> HIDE DEF rel
<1>5. /\ Mirror(x) \in Seq(Name) /\ Len(Mirror(x)) = Len(Side) + Len(rel)
      /\ \A i \in 1..(Len(Side) + Len(rel)) : Mirror(x)[i] =
             IF i <= Len(Side) THEN Side[i] ELSE rel[i - Len(Side)]
  BY <1>1, <1>4, ConcatProperties DEF Mirror, rel
<1>6. Base(Mirror(x)) = x[Len(x)]
  BY <1>2, <1>3, <1>4, <1>5 DEF Base
<1>7. x # <<>> /\ Mirror(x) # <<>>
  BY <1>2, <1>3, <1>4, <1>5, EmptySeq
<1>8. Base(x) \in Name /\ Base(x) = x[Len(x)]
  BY <1>7, PathIsDirAndBase DEF Base
<1> QED
  BY <1>2, <1>3, <1>4, <1>5, <1>6, <1>7, <1>8 DEF Path

(* What is put in the directory of a mirror lies in the side directory.       *)
LEMMA SideHoldsTheRest ==
  ASSUME NEW x \in Path, Covers(x), NEW n \in Name
  PROVE  Within(In(Dir(Mirror(x)), n), Side)
<1>1. /\ Mirror(x) \in Path /\ Mirror(x) # <<>> /\ Len(Side) < Len(Mirror(x))
      /\ \A i \in 1..Len(Side) : Mirror(x)[i] = Side[i]
  BY MirrorLiesInSide
<1>2. Len(Side) \in Nat /\ Len(Mirror(x)) \in Nat
  BY <1>1, NamesAssumption, LenProperties DEF Path
<1>3. /\ Dir(Mirror(x)) \in Seq(Name) /\ Len(Dir(Mirror(x))) = Len(Mirror(x)) - 1
      /\ \A i \in 1..(Len(Mirror(x)) - 1) : Dir(Mirror(x))[i] = Mirror(x)[i]
  <2>1. Mirror(x) \in Seq(Name) /\ Len(Mirror(x)) - 1 \in 0..Len(Mirror(x))
    BY <1>1, <1>2, NamesAssumption, LenProperties DEF Path
  <2> QED
    BY <2>1, Prefix DEF Dir
<1>4. /\ Len(In(Dir(Mirror(x)), n)) = Len(Mirror(x))
      /\ \A i \in 1..(Len(Mirror(x)) - 1) : In(Dir(Mirror(x)), n)[i] = Dir(Mirror(x))[i]
  BY <1>2, <1>3, AppendProperties DEF In
<1> QED
  BY <1>1, <1>2, <1>3, <1>4 DEF Within

(* A staged name tells its record's name, and is no lock's.                   *)
LEMMA StagedNameTells ==
  ASSUME NEW a \in Name, NEW b \in Name, NEW u \in Unique, NEW v \in Unique
  PROVE  /\ a \o <<u, "tmp">> \in Name /\ Append(a, "lock") \in Name
         /\ a \o <<u, "tmp">> # Append(b, "lock")
         /\ a \o <<u, "tmp">> = b \o <<v, "tmp">> => a = b
<1> DEFINE s == a \o <<u, "tmp">>
           t == b \o <<v, "tmp">>
           l == Append(b, "lock")
<1>1. /\ <<u, "tmp">> \in Seq(Words) /\ Len(<<u, "tmp">>) = 2 /\ <<u, "tmp">>[2] = "tmp"
      /\ <<v, "tmp">> \in Seq(Words) /\ Len(<<v, "tmp">>) = 2
  BY Pair, NamesAssumption
<1>2. Len(a) \in Nat /\ Len(b) \in Nat /\ a \in Seq(Words) /\ b \in Seq(Words)
  BY LenProperties DEF Name
<1>3. /\ s \in Seq(Words) /\ Len(s) = Len(a) + 2 /\ s[Len(a) + 2] = "tmp"
      /\ \A i \in 1..Len(a) : s[i] = a[i]
  BY <1>1, <1>2, ConcatProperties
<1>4. /\ t \in Seq(Words) /\ Len(t) = Len(b) + 2
      /\ \A i \in 1..Len(b) : t[i] = b[i]
  BY <1>1, <1>2, ConcatProperties
<1>5. l \in Seq(Words) /\ Len(l) = Len(b) + 1 /\ l[Len(b) + 1] = "lock"
  BY <1>2, NamesAssumption, AppendProperties
<1>6. Append(a, "lock") \in Seq(Words)
  BY <1>2, NamesAssumption, AppendProperties
<1> HIDE DEF s, t, l
<1>7. s # l
  <2> SUFFICES ASSUME s = l PROVE FALSE
    OBVIOUS
  <2>1. Len(a) + 2 = Len(b) + 1
    BY <1>3, <1>5
  <2>2. s[Len(a) + 2] = "lock"
    BY <1>5, <2>1
  <2> QED
    BY <1>3, <2>2
<1>8. s = t => a = b
  BY <1>2, <1>3, <1>4, SeqEqual
<1> QED
  BY <1>3, <1>5, <1>6, <1>7, <1>8 DEF s, t, l, Name

(* The names of a record's files, whichever way it is written.                *)
LEMMA PlaceNames ==
  ASSUME NEW a \in Places
  PROVE  /\ a.target \in Path /\ a.target # <<>> /\ a.stage \in Path
         /\ Base(a.target) \in Name /\ Append(Base(a.target), "lock") \in Name
         /\ a.lock = In(a.stage, Append(Base(a.target), "lock"))
         /\ \A u \in Unique : /\ Base(a.target) \o <<u, "tmp">> \in Name
                              /\ StagedAs(a, u) = In(a.stage, Base(a.target) \o <<u, "tmp">>)
<1>1. PICK c \in Calls : Allowed(c) /\ a = Place(c)
  BY DEF Places
<1> DEFINE x == c.path
<1>2. x \in Path /\ x # <<>> /\ c.via \in {"beside", "placement"}
  BY CallsAssumption
<1> HIDE DEF x
<1>3. Dir(x) \in Path /\ Base(x) \in Name
  BY <1>2, PathIsDirAndBase
<1>4. c.via = "placement" =>
         Dir(Mirror(x)) \in Path /\ Base(Mirror(x)) = Base(x)
  BY <1>1, <1>2, MirrorLiesInSide, PathIsDirAndBase DEF Allowed, x
<1>5. /\ a.target = x /\ a.stage \in Path
      /\ a.lock = In(a.stage, Append(Base(x), "lock"))
  BY <1>1, <1>2, <1>3, <1>4 DEF Place, Beside, InSide, Suffixed, x
<1>6. Append(Base(x), "lock") \in Name
  BY <1>3, AppendProperties, NamesAssumption DEF Name
<1>7. ASSUME NEW u \in Unique PROVE Base(x) \o <<u, "tmp">> \in Name
  BY <1>3, StagedNameTells
<1> QED
  BY <1>2, <1>3, <1>5, <1>6, <1>7 DEF StagedAs

(* One directory and one name in it make a path.                              *)
LEMMA InTells ==
  ASSUME NEW d \in Path, NEW e \in Path, NEW m \in Name, NEW n \in Name, In(d, m) = In(e, n)
  PROVE  d = e /\ m = n
BY AppendInjective DEF In, Path

(* Names are apart when no record is written in two ways and none has the     *)
(* name of a lock or of a staged file.                                        *)
LEMMA KeepApart ==
  ASSUME \A a, b \in Places : a.target = b.target => a = b,
         \A a, b \in Places : a.target # b.lock /\ \A u \in Unique : a.target # StagedAs(b, u)
  PROVE  Apart
<1>1. \A a, b \in Places, u \in Unique : StagedAs(a, u) # b.lock
  <2> TAKE a, b \in Places, u \in Unique
  <2>1. Base(a.target) \o <<u, "tmp">> # Append(Base(b.target), "lock")
    BY PlaceNames, StagedNameTells
  <2> DEFINE s == Base(a.target) \o <<u, "tmp">>
             l == Append(Base(b.target), "lock")
  <2>2. s \in Name /\ l \in Name /\ s # l /\ StagedAs(a, u) = In(a.stage, s) /\ b.lock = In(b.stage, l)
    BY <2>1, PlaceNames
  <2> HIDE DEF s, l
  <2> QED
    BY <2>2, PlaceNames, InTells
<1>2. \A a, b \in Places, u, v \in Unique : StagedAs(a, u) = StagedAs(b, v) => a.lock = b.lock
  <2> SUFFICES ASSUME NEW a \in Places, NEW b \in Places, NEW u \in Unique, NEW v \in Unique,
                      StagedAs(a, u) = StagedAs(b, v)
               PROVE  a.lock = b.lock
    OBVIOUS
  <2> DEFINE s == Base(a.target) \o <<u, "tmp">>
             t == Base(b.target) \o <<v, "tmp">>
  <2>1. s \in Name /\ t \in Name /\ In(a.stage, s) = In(b.stage, t)
    BY PlaceNames
  <2>2. a.stage = b.stage /\ s = t
    <3> HIDE DEF s, t
    <3> QED
      BY <2>1, PlaceNames, InTells
  <2>3. Base(a.target) = Base(b.target)
    <3>1. Base(a.target) \in Name /\ Base(b.target) \in Name
      BY PlaceNames
    <3> QED
      BY <2>2, <3>1, StagedNameTells
  <2> QED
    BY <2>2, <2>3, PlaceNames
<1> QED
  BY <1>1, <1>2 DEF Apart

(* Through a Placement alone, every two names are apart.                      *)
THEOREM PlacementKeepsApart ==
  ASSUME \A c \in Calls : c.via = "placement" PROVE Apart
<1>1. \A a \in Places : \E x \in Path : Covers(x) /\ a = InSide(x)
  BY CallsAssumption DEF Places, Place, Allowed
<1>2. \A a \in Places, n \in Name : Within(In(a.stage, n), Side) /\ ~Within(a.target, Side)
  BY <1>1, SideHoldsTheRest DEF InSide, Covers
<1>3. \A a, b \in Places : a.target = b.target => a = b
  BY <1>1 DEF InSide
<1>4. \A a, b \in Places : a.target # b.lock /\ \A u \in Unique : a.target # StagedAs(b, u)
  BY <1>2, PlaceNames
<1> QED
  BY <1>3, <1>4, KeepApart

(* Whether a name is one that the package gives its own files.                *)
Ordinary(name) == name # <<>> => name[Len(name)] \notin {"lock", "tmp"}

(* A lock's name and a staged name end as no ordinary name does.              *)
LEMMA NotOrdinary ==
  ASSUME NEW n \in Name
  PROVE  /\ ~Ordinary(Append(n, "lock"))
         /\ \A u \in Unique : ~Ordinary(n \o <<u, "tmp">>)
<1>1. n \in Seq(Words) /\ Len(n) \in Nat /\ {"lock", "tmp"} \cup Unique \subseteq Words
  BY NamesAssumption, LenProperties DEF Name
<1>2. ~Ordinary(Append(n, "lock"))
  <2>1. /\ Append(n, "lock") \in Seq(Words) /\ Len(Append(n, "lock")) = Len(n) + 1
        /\ Append(n, "lock")[Len(n) + 1] = "lock"
    BY <1>1, AppendProperties
  <2> QED
    BY <1>1, <2>1, EmptySeq DEF Ordinary
<1>3. ASSUME NEW u \in Unique PROVE ~Ordinary(n \o <<u, "tmp">>)
  <2> DEFINE two == <<u, "tmp">>
  <2>1. two \in Seq(Words) /\ Len(two) = 2 /\ two[2] = "tmp"
    BY <1>1, Pair
  <2> HIDE DEF two
  <2>2. /\ n \o two \in Seq(Words) /\ Len(n \o two) = Len(n) + 2
        /\ (n \o two)[Len(n) + 2] = "tmp"
    <3>1. Len(n) + 2 \in 1..(Len(n) + Len(two)) /\ ~(Len(n) + 2 <= Len(n))
          /\ (Len(n) + 2) - Len(n) = 2
      BY <1>1, <2>1
    <3>2. /\ n \o two \in Seq(Words) /\ Len(n \o two) = Len(n) + Len(two)
          /\ \A i \in 1..(Len(n) + Len(two)) :
                (n \o two)[i] = IF i <= Len(n) THEN n[i] ELSE two[i - Len(n)]
      BY <1>1, <2>1, ConcatProperties
    <3> QED
      BY <2>1, <3>1, <3>2
  <2>3. ~Ordinary(n \o two)
    BY <1>1, <2>2, EmptySeq DEF Ordinary
  <2> QED
    BY <2>3 DEF two
<1> QED
  BY <1>2, <1>3

(* Records of ordinary names are apart, beside their files or through a       *)
(* Placement, as long as each is always written in one way.                   *)
THEOREM OrdinaryNamesKeepApart ==
  ASSUME \A c \in Calls : Ordinary(Base(c.path)),
         \A c, e \in Calls : c.path = e.path => c.via = e.via
  PROVE  Apart
<1>1. \A a \in Places : \E c \in Calls : a = Place(c) /\ a.target = c.path
  BY DEF Places, Place, Beside, InSide
<1>2. \A a, b \in Places : a.target = b.target => a = b
  BY <1>1 DEF Place
<1>3. ASSUME NEW a \in Places, NEW b \in Places, NEW n \in Name, ~Ordinary(n)
      PROVE  a.target # In(b.stage, n)
  <2>1. /\ a.target \in Path /\ a.target # <<>> /\ b.stage \in Path /\ Ordinary(Base(a.target))
    BY <1>1, PlaceNames
  <2>2. /\ Dir(a.target) \in Path /\ Base(a.target) \in Name
        /\ a.target = In(Dir(a.target), Base(a.target))
    BY <2>1, PathIsDirAndBase
  <2> QED
    BY <1>3, <2>1, <2>2, InTells
<1>4. \A a, b \in Places : a.target # b.lock /\ \A u \in Unique : a.target # StagedAs(b, u)
  BY <1>3, PlaceNames, NotOrdinary
<1> QED
  BY <1>2, <1>4, KeepApart

(* Every file is some record's: its data, its lock or a replacement.          *)
Known == \A q \in Paths : names[q] # None => \E place \in Places : q \in FilesOf(place)

(* No step makes a file that is nobody's.                                     *)
LEMMA KnownNext ==
  ASSUME Inv, Known, [Next]_vars PROVE Known'
<1>1. CASE names' = names
  BY <1>1 DEF Known
<1>2. ASSUME NEW p \in Procs, Step(p) PROVE Known'
  <2> USE <1>2 DEF Inv, RecordsTypeOK
  <2>1. pc[p] # "idle" => Its(p) \in Places
    BY FilesHaveNames DEF Served, Its
  <2>2. CASE OpenLock(p)
    BY <2>1, <2>2 DEF OpenLock, Known, FilesOf, At
  <2>3. CASE Stage(p)
    BY <2>1, <2>3 DEF Stage, Known, FilesOf, At
  <2>4. CASE Rename(p)
    BY <2>1, <2>4 DEF Rename, Known, FilesOf, At
  <2>5. CASE Sweep(p)
    BY <2>5 DEF Sweep, Known
  <2> QED
    BY <1>1, <2>2, <2>3, <2>4, <2>5, NamesMove
<1> QED
  BY <1>1, <1>2 DEF Next, vars

(* Through a Placement the locks and replacements are in the side directory.  *)
LEMMA RestLiesInSide ==
  ASSUME \A c \in Calls : c.via = "placement", NEW place \in Places
  PROVE  Within(place.lock, Side) /\ \A u \in Unique : Within(StagedAs(place, u), Side)
<1>1. PICK x \in Path : Covers(x) /\ place = InSide(x)
  BY CallsAssumption DEF Places, Place, Allowed
<1>2. /\ Append(Base(Mirror(x)), "lock") \in Name
      /\ \A u \in Unique : Base(x) \o <<u, "tmp">> \in Name
  BY <1>1, MirrorLiesInSide, StagedNameTells, AppendProperties, NamesAssumption DEF Name
<1> QED
  BY <1>1, <1>2, SideHoldsTheRest DEF InSide, Suffixed, StagedAs

(* A directory read by enumeration holds only its data files.                 *)
THEOREM RootIsClean ==
  ASSUME \A c \in Calls : c.via = "placement" PROVE Spec => []RootHoldsOnlyData
<1>1. Init => Known
  BY DEF Init, Known
<1>2. Inv /\ Known /\ [Next]_vars => Known'
  BY KnownNext
<1>3. Known => RootHoldsOnlyData
  BY RestLiesInSide DEF Known, FilesOf, RootHoldsOnlyData
<1>4. Spec => []Inv
  BY PlacementKeepsApart, RecordsHold
<1> QED
  BY <1>1, <1>2, <1>3, <1>4, PTL DEF Spec

--------------------------------------------------------------------------------
(* A set of numbers has a least one.                                          *)
LEMMA Least ==
  ASSUME NEW R \in SUBSET Nat, R # {}
  PROVE  \E m \in R : \A k \in R : m <= k
<1>1. PICK m \in R : \A k \in R : ~(<<k, m>> \in OpToRel(<, Nat))
  BY WFMin, NatLessThanWellFounded
<1>2. \A k \in R : ~(k < m)
  BY <1>1 DEF OpToRel
<1> QED
  BY <1>2

(* A loop from base over 1..size has a value after every round.               *)
Loop(S, size) == [1..size -> [S -> S]]
Run(f, S, base, size, step) ==
    f \in [0..size -> S] /\ f[0] = base /\ \A i \in 1..size : f[i] = step[i][f[i - 1]]

LEMMA Iterates ==
  ASSUME NEW S, NEW base \in S, NEW size \in Nat, NEW step \in Loop(S, size)
  PROVE  \E f : Run(f, S, base, size, step)
<1> USE DEF Loop
<1> DEFINE Rounds(f, k) == Run(f, S, base, k, step)
           R == {k \in 0..size : \A f : ~Rounds(f, k)}
<1> USE DEF Run
<1>1. ASSUME NEW k \in 0..size, k = 0 \/ k - 1 \notin R PROVE k \notin R
  <2>1. CASE k = 0
    <3>1. Rounds([i \in 0..0 |-> base], 0)
      OBVIOUS
    <3> QED
      BY <2>1, <3>1
  <2>2. CASE k # 0
    <3>1. k - 1 \in 0..size /\ k \in 1..size
      BY <2>2
    <3>2. PICK f : Rounds(f, k - 1)
      BY <1>1, <2>2, <3>1
    <3> DEFINE g == [i \in 0..k |-> IF i = k THEN step[k][f[k - 1]] ELSE f[i]]
    <3>3. f[k - 1] \in S /\ step[k][f[k - 1]] \in S
      BY <3>1, <3>2
    <3>4. g \in [0..k -> S] /\ g[0] = base
      BY <3>1, <3>2, <3>3
    <3>5. ASSUME NEW i \in 1..k PROVE g[i] = step[i][g[i - 1]]
      <4>1. CASE i = k
        <5>1. k \in 0..k /\ k - 1 \in 0..k /\ k - 1 # k
          BY <3>1
        <5> QED
          BY <4>1, <5>1
      <4>2. CASE i # k
        <5>1. i \in 0..k /\ i - 1 \in 0..k /\ i \in 1..(k - 1) /\ i - 1 # k
          BY <3>1, <4>2
        <5> QED
          BY <3>2, <4>2, <5>1
      <4> QED
        BY <4>1, <4>2
    <3>6. Rounds(g, k)
      BY <3>4, <3>5
    <3> HIDE DEF g, Rounds
    <3> QED
      BY <3>6
  <2> QED
    BY <2>1, <2>2
<1> HIDE DEF Rounds
<1>2. R = {}
  <2>1. R \subseteq 0..size
    OBVIOUS
  <2> HIDE DEF R
  <2> SUFFICES ASSUME R # {} PROVE FALSE
    OBVIOUS
  <2>2. PICK k \in R : \A j \in R : k <= j
    BY <2>1, Least
  <2>3. k \in 0..size /\ k - 1 \notin R
    BY <2>1, <2>2
  <2> QED
    BY <1>1, <2>3
<1>3. \E f : Rounds(f, size)
  <2> HIDE DEF R
  <2>1. size \in 0..size /\ size \notin R
    BY <1>2
  <2> QED
    BY <2>1 DEF R
<1> QED
  BY <1>3 DEF Rounds

(* The directory that the rename opens holds both paths.                      *)
LEMMA CommonDirHoldsBoth ==
  ASSUME NEW a \in Path, NEW b \in Path
  PROVE  CommonDir(a, b) \in Path /\ Within(a, CommonDir(a, b)) /\ Within(b, CommonDir(a, b))
<1> DEFINE Up(n)    == SubSeq(a, 1, n)
           Holds(n) == n = 0 \/ Within(b, Up(n))
           Fits(f)  == f = [n \in 0..Len(a) |-> IF Holds(n) THEN Up(n) ELSE f[n - 1]]
           up       == CHOOSE f : Fits(f)
<1>1. Len(a) \in Nat /\ Len(b) \in Nat
  BY LenProperties DEF Path
<1>2. ASSUME NEW n \in 0..Len(a)
      PROVE  Up(n) \in Path /\ Within(a, Up(n)) /\ (Holds(n) => Within(b, Up(n)))
  <2>1. Up(n) \in Path /\ Len(Up(n)) = n /\ \A i \in 1..n : Up(n)[i] = a[i]
    BY <1>1, Prefix DEF Path
  <2> QED
    BY <1>1, <2>1 DEF Within
<1> HIDE DEF Up
<1>3. \E f : Fits(f)
  <2> DEFINE step == [n \in 1..Len(a) |-> [x \in Path |-> IF Holds(n) THEN Up(n) ELSE x]]
  <2>1. Up(0) \in Path /\ step \in Loop(Path, Len(a))
    BY <1>1, <1>2 DEF Loop
  <2> HIDE DEF step
  <2>2. PICK f : Run(f, Path, Up(0), Len(a), step)
    BY <1>1, <2>1, Iterates
  <2> USE DEF Run, step
  <2>3. ASSUME NEW n \in 0..Len(a) PROVE f[n] = IF Holds(n) THEN Up(n) ELSE f[n - 1]
    <3>1. CASE n = 0
      BY <2>2, <3>1
    <3>2. CASE n \in 1..Len(a)
      <4>1. f[n - 1] \in Path /\ f[n] = step[n][f[n - 1]]
        BY <1>1, <2>2, <3>2
      <4> HIDE DEF Holds
      <4> QED
        BY <3>2, <4>1
    <3> QED
      BY <1>1, <3>1, <3>2
  <2>4. Fits(f)
    BY <2>2, <2>3
  <2> QED
    BY <2>4
<1>4. CommonDir(a, b) = up[Len(a)]
  BY DEF CommonDir, Up
<1>5. Fits(up)
  BY <1>3
<1> HIDE DEF up, Fits
<1>6. \A n \in 0..Len(a) : up[n] = IF Holds(n) THEN Up(n) ELSE up[n - 1]
  BY <1>5 DEF Fits
<1> DEFINE R == {n \in 0..Len(a) : ~(up[n] \in Path /\ Within(a, up[n]) /\ Within(b, up[n]))}
<1>7. ASSUME NEW n \in R, \A m \in R : n <= m PROVE FALSE
  <2>1. ~Holds(n)
    BY <1>2, <1>6
  <2>2. n - 1 \in 0..Len(a) /\ n - 1 \notin R
    BY <1>1, <1>7, <2>1
  <2> QED
    BY <1>6, <2>1, <2>2
<1>8. R = {}
  <2> HIDE DEF R
  <2>1. R \subseteq Nat
    BY <1>1 DEF R
  <2> QED
    BY <1>7, <2>1, Least
<1> QED
  BY <1>1, <1>4, <1>8

(* The directories are those that the calls need.                             *)
Grown == \A d \in dirs : \E place \in Places : d \in Ancestors(place.target) \cup Ancestors(place.lock)

(* A call that failed has a record above its own, or under it.                *)
Excused(a) == \E place \in Places :
    place.target # a.target /\ (Within(a.target, place.target) \/ Within(place.target, a.target))
Answered(p) == res[p] = "oserror" => At(p, "return") /\ Excused(Its(p))

(* A path above another is a path, and holds it.                              *)
LEMMA AboveHolds ==
  ASSUME NEW q \in Path, NEW e \in Ancestors(q)
  PROVE  e \in Path /\ e # q /\ Within(q, e)
<1>1. PICK n \in 0..(Len(q) - 1) : e = SubSeq(q, 1, n)
  BY DEF Ancestors
<1>2. q \in Seq(Name) /\ Len(q) \in Nat
  BY LenProperties DEF Path
<1>3. n \in 0..Len(q) /\ n < Len(q)
  BY <1>2
<1>4. e \in Seq(Name) /\ Len(e) = n /\ \A i \in 1..n : e[i] = q[i]
  BY <1>1, <1>2, <1>3, Prefix
<1> QED
  BY <1>2, <1>3, <1>4 DEF Within, Path

(* Files of a record that stand above another's excuse them both.             *)
LEMMA StandingAbove ==
  ASSUME OutOfTheWay, NEW a \in Places, NEW b \in Places, NEW f \in FilesOf(a),
         f \in Ancestors(b.target) \cup Ancestors(b.lock)
  PROVE  f = a.target /\ Excused(a) /\ Excused(b)
<1>1. f = a.target /\ f \in Ancestors(b.target)
  BY DEF OutOfTheWay
<1>2. f # b.target /\ Within(b.target, f)
  BY <1>1, PlaceNames, AboveHolds
<1> QED
  BY <1>1, <1>2 DEF Excused

(* A directory that has the name of a file is a record above another.         *)
LEMMA DirectoryInTheWay ==
  ASSUME OutOfTheWay, Grown, NEW a \in Places, NEW f \in FilesOf(a), f \in dirs
  PROVE  f = a.target /\ Excused(a)
BY StandingAbove DEF Grown

(* What MkdirAll makes is above the file it is called for; it fails where a   *)
(* record stands in its way.                                                  *)
LEMMA DirectoriesMade ==
  ASSUME OutOfTheWay, Inv, Known, Grown, NEW p \in Procs, NEW from, NEW to,
         Its(p) \in Places, NEW q \in {Its(p).target, Its(p).lock}, MakeDirs(p, from, q, to)
  PROVE  Grown' /\ (Makeable(q) = Ancestors(q) \/ Excused(Its(p)))
<1>1. Grown'
  BY DEF MakeDirs, Makeable, Grown
<1>2. ASSUME Makeable(q) # Ancestors(q) PROVE Excused(Its(p))
  <2>1. PICK e \in Ancestors(q) : names[e] # None
    BY <1>2 DEF Makeable
  <2>2. q \in Paths /\ e \in Paths
    BY FilesAssumption
  <2>3. PICK a \in Places : e \in FilesOf(a)
    BY <2>1, <2>2 DEF Known
  <2> QED
    BY <2>3, StandingAbove
<1> QED
  BY <1>1, <1>2

(* The rename can name both its files below the directory it opens.           *)
LEMMA BothBelow ==
  ASSUME NEW q \in Path, q # <<>>, NEW t \in Path, t # <<>>
  PROVE  LET opened == CommonDir(Dir(q), Dir(t)) IN Within(q, opened) /\ Within(t, opened)
<1> DEFINE opened == CommonDir(Dir(q), Dir(t))
<1>1. Dir(q) \in Path /\ Dir(t) \in Path
  BY PathIsDirAndBase
<1>2. opened \in Path /\ Within(Dir(q), opened) /\ Within(Dir(t), opened)
  BY <1>1, CommonDirHoldsBoth
<1> HIDE DEF opened
<1>3. ASSUME NEW x \in Path, x # <<>>, Within(Dir(x), opened) PROVE Within(x, opened)
  <2>1. Len(x) \in Nat \ {0} /\ Len(opened) \in Nat /\ x \in Seq(Name)
    BY <1>2, <1>3, EmptySeq, LenProperties DEF Path
  <2>2. Len(Dir(x)) = Len(x) - 1 /\ \A i \in 1..(Len(x) - 1) : Dir(x)[i] = x[i]
    BY <2>1, Prefix DEF Dir
  <2> QED
    BY <1>3, <2>1, <2>2 DEF Within
<1>4. Within(q, opened) /\ Within(t, opened)
  BY <1>2, <1>3
<1> QED
  BY <1>4 DEF opened

(* Every step keeps the directories, and fails only where it is excused.      *)
LEMMA RoomNext ==
  ASSUME Apart, OutOfTheWay, Inv, Known, Grown, NEW p \in Procs, Answered(p), Step(p)
  PROVE  Grown' /\ Answered(p)'
<1> USE DEF Inv, RecordsTypeOK, Goto, Finish, At, caller
<1>1. pc[p] # "idle" => Its(p) \in Places
  BY FilesHaveNames DEF Served, Its
<1>2. Its(p) \in Places =>
         /\ {Its(p).target, Its(p).lock} \subseteq FilesOf(Its(p))
         /\ Its(p).target # Its(p).lock
  BY DEF FilesOf, Apart
<1>3. CASE \E r \in Calls : Call(p, r)
  BY <1>3 DEF Call, Grown, Answered
<1>4. ASSUME NEW q \in {Its(p).target, Its(p).lock}, NEW from \in {"dirs", "lockdir"}, NEW to,
             MakeDirs(p, from, q, to)
      PROVE  Grown' /\ Answered(p)'
  <2>1. Its(p) \in Places /\ res[p] # "oserror"
    BY <1>1, <1>4 DEF MakeDirs, Answered
  <2>2. Grown' /\ (Makeable(q) = Ancestors(q) \/ Excused(Its(p)))
    BY <1>4, <2>1, DirectoriesMade
  <2>3. op' = op /\ (Makeable(q) = Ancestors(q) => res' = res)
        /\ (Makeable(q) # Ancestors(q) => pc'[p] = "return")
    BY <1>4 DEF MakeDirs
  <2> QED
    BY <2>1, <2>2, <2>3 DEF Answered, Its, Excused
<1>5. CASE OpenLock(p)
  <2>1. Its(p) \in Places /\ res[p] # "oserror"
    BY <1>1, <1>5 DEF OpenLock, Answered
  <2>2. Its(p).lock \notin dirs
    BY <1>2, <2>1, DirectoryInTheWay
  <2> QED
    BY <1>5, <2>1, <2>2 DEF OpenLock, Grown, Answered
<1>6. CASE ReadCurrent(p)
  <2>1. Its(p) \in Places /\ res[p] # "oserror"
    BY <1>1, <1>6 DEF ReadCurrent, Answered
  <2>2. Its(p).target \in dirs => Excused(Its(p))
    BY <1>2, <2>1, DirectoryInTheWay
  <2>3. Grown' /\ op' = op
    BY <1>6 DEF ReadCurrent, Grown
  <2>4. CASE Its(p).target \in dirs
    BY <1>6, <2>2, <2>3, <2>4 DEF ReadCurrent, Answered, Its, Excused
  <2>5. CASE Its(p).target \notin dirs
    BY <1>6, <2>1, <2>3, <2>5 DEF ReadCurrent, Answered
  <2> QED
    BY <2>4, <2>5
<1>7. CASE Rename(p)
  <2>1. Its(p) \in Places /\ names[tmp[p]] # None
    BY <1>1, <1>7, CallsAssumption DEF Rename, Staged
  <2>2. PICK u \in Unique : tmp[p] = StagedAs(Its(p), u)
    BY <1>7 DEF Rename, Staged
  <2>3. tmp[p] \in Path /\ tmp[p] # <<>> /\ Its(p).target \in Path /\ Its(p).target # <<>>
    <3> DEFINE base == Base(Its(p).target) \o <<u, "tmp">>
    <3>1. /\ Its(p).stage \in Seq(Name) /\ base \in Name
          /\ tmp[p] = Append(Its(p).stage, base)
      BY <2>1, <2>2, PlaceNames DEF In, Path
    <3> HIDE DEF base
    <3>2. tmp[p] \in Seq(Name) /\ tmp[p] # <<>>
      BY <3>1, AppendProperties
    <3> QED
      BY <2>1, <3>2, PlaceNames DEF Path
  <2>4. LET opened == CommonDir(Dir(tmp[p]), Dir(Its(p).target))
        IN  Within(tmp[p], opened) /\ Within(Its(p).target, opened)
    BY <2>3, BothBelow
  <2>5. Its(p).target \in dirs => Excused(Its(p))
    BY <1>2, <2>1, DirectoryInTheWay
  <2>6. Grown' /\ op' = op /\ pc'[p] = "return"
    BY <1>7 DEF Rename, Grown
  <2>7. res'[p] = "oserror" => Its(p).target \in dirs
    BY <1>7, <2>1, <2>4 DEF Rename
  <2> QED
    BY <2>5, <2>6, <2>7 DEF Answered, Its, Excused
<1>8. CASE Acquire(p) \/ Stage(p) \/ Sweep(p) \/ Return(p) \/ Kill(p)
  <2>1. Grown' /\ res'[p] # "oserror"
    BY <1>8 DEF Acquire, Stage, Sweep, Return, Kill, Forget, Grown, Answered
  <2> QED
    BY <2>1 DEF Answered
<1>9. MakeDirs(p, "dirs", Its(p).target, "lockdir") => Grown' /\ Answered(p)'
  BY <1>4
<1>10. MakeDirs(p, "lockdir", Its(p).lock, "open") => Grown' /\ Answered(p)'
  BY <1>4
<1> QED
  BY <1>3, <1>5, <1>6, <1>7, <1>8, <1>9, <1>10 DEF Step

(* Every record is served: a call fails only where the records themselves     *)
(* cannot coexist, one being under the other.                                 *)
THEOREM EveryRecordIsServed ==
  ASSUME Apart, OutOfTheWay PROVE Spec => []EveryFileIsServed
<1> DEFINE Room == Known /\ Grown /\ \A p \in Procs : Answered(p)
<1>1. Init => Room
  BY DEF Init, Known, Grown, Answered
<1>2. Inv /\ Room /\ [Next]_vars => Room'
  <2> SUFFICES ASSUME Inv, Room, [Next]_vars PROVE Room'
    OBVIOUS
  <2>1. Known'
    BY KnownNext
  <2>2. ASSUME NEW p \in Procs, Step(p) PROVE Grown' /\ \A q \in Procs : Answered(q)'
    <3>1. Grown' /\ Answered(p)'
      BY <2>2, RoomNext
    <3>2. ASSUME NEW q \in Procs, q # p PROVE Answered(q)'
      <4>1. pc'[q] = pc[q] /\ op'[q] = op[q]
        BY <2>2, <3>2, OthersStand
      <4>2. res'[q] = res[q]
        BY <2>2, <3>2 DEF Inv, RecordsTypeOK, Step, Call, MakeDirs, OpenLock, Acquire, ReadCurrent,
               Stage, Rename, Sweep, Return, Kill, Forget, Finish, caller
      <4> QED
        BY <4>1, <4>2 DEF Answered, At, Its, Excused
    <3> QED
      BY <3>1, <3>2
  <2>3. CASE UNCHANGED vars
    BY <2>1, <2>3 DEF vars, caller, Grown, Answered, At, Its, Excused
  <2> QED
    BY <2>1, <2>2, <2>3 DEF Next
<1>3. Inv /\ Room => EveryFileIsServed
  BY DEF Answered, Excused, EveryFileIsServed
<1>4. Spec => []Inv
  BY RecordsHold
<1> QED
  BY <1>1, <1>2, <1>3, <1>4, PTL DEF Spec

--------------------------------------------------------------------------------
(* Whether the names of a path's directories are ordinary, from the kth on.   *)
OrdinaryDirs(q, k) == \A i \in k..(Len(q) - 1) : Ordinary(q[i])

(* Above a path are its beginnings.                                           *)
LEMMA AboveBegins ==
  ASSUME NEW q \in Path, NEW e \in Ancestors(q)
  PROVE  /\ e \in Path /\ Len(q) \in Nat /\ Len(e) \in 0..(Len(q) - 1)
         /\ \A i \in 1..Len(e) : e[i] = q[i]
<1>1. PICK n \in 0..(Len(q) - 1) : e = SubSeq(q, 1, n)
  BY DEF Ancestors
<1>2. q \in Seq(Name) /\ Len(q) \in Nat
  BY LenProperties DEF Path
<1>3. n \in 0..Len(q)
  BY <1>2
<1> QED
  BY <1>1, <1>2, <1>3, Prefix DEF Path

(* The directories of a path are above whatever else is put in its own.       *)
LEMMA NeighboursShare ==
  ASSUME NEW q \in Path, q # <<>>, NEW n \in Name
  PROVE  In(Dir(q), n) \in Path /\ Ancestors(In(Dir(q), n)) = Ancestors(q)
<1> DEFINE d == Dir(q)
           x == In(d, n)
<1>1. q \in Seq(Name) /\ Len(q) \in Nat \ {0} /\ Len(q) - 1 \in 0..Len(q)
  BY EmptySeq, LenProperties DEF Path
<1>2. d \in Seq(Name) /\ Len(d) = Len(q) - 1 /\ \A i \in 1..(Len(q) - 1) : d[i] = q[i]
  BY <1>1, Prefix DEF Dir
<1> HIDE DEF d
<1>3. x \in Seq(Name) /\ Len(x) = Len(q) /\ \A i \in 1..(Len(q) - 1) : x[i] = q[i]
  BY <1>1, <1>2, AppendProperties DEF In
<1> HIDE DEF x
<1>4. ASSUME NEW k \in 0..(Len(q) - 1) PROVE SubSeq(x, 1, k) = SubSeq(q, 1, k)
  <2>1. k \in 0..Len(q) /\ k \in 0..Len(x)
    BY <1>1, <1>3
  <2>2. /\ SubSeq(x, 1, k) \in Seq(Name) /\ Len(SubSeq(x, 1, k)) = k
        /\ \A i \in 1..k : SubSeq(x, 1, k)[i] = x[i]
    BY <1>3, <2>1, Prefix
  <2>3. /\ SubSeq(q, 1, k) \in Seq(Name) /\ Len(SubSeq(q, 1, k)) = k
        /\ \A i \in 1..k : SubSeq(q, 1, k)[i] = q[i]
    BY <1>1, <2>1, Prefix
  <2>4. ASSUME NEW i \in 1..k PROVE SubSeq(x, 1, k)[i] = SubSeq(q, 1, k)[i]
    <3>1. i \in 1..(Len(q) - 1)
      BY <1>1
    <3> QED
      BY <1>3, <2>2, <2>3, <3>1
  <2> QED
    BY <2>2, <2>3, <2>4, SeqEqual
<1>5. Ancestors(x) = Ancestors(q)
  BY <1>3, <1>4 DEF Ancestors
<1> QED
  BY <1>3, <1>5 DEF x, d, Path

(* No lock or staged file has the name of a directory that is ordinary.       *)
LEMMA OrdinaryIsFree ==
  ASSUME NEW a \in Places, NEW f \in FilesOf(a), f # a.target,
         NEW q \in Path, NEW k \in Nat, k <= Len(f), OrdinaryDirs(q, k)
  PROVE  f \notin Ancestors(q)
<1>1. PICK n \in Name : ~Ordinary(n) /\ f = In(a.stage, n) /\ a.stage \in Path
  BY PlaceNames, NotOrdinary DEF FilesOf
<1>2. Len(f) \in Nat \ {0} /\ f[Len(f)] = n
  BY <1>1, AppendProperties, LenProperties DEF In, Path
<1> SUFFICES ASSUME f \in Ancestors(q) PROVE FALSE
  OBVIOUS
<1>3. Len(q) \in Nat /\ Len(f) \in 0..(Len(q) - 1) /\ \A i \in 1..Len(f) : f[i] = q[i]
  BY AboveBegins
<1>4. Len(f) \in k..(Len(q) - 1) /\ Len(f) \in 1..Len(f)
  BY <1>2, <1>3
<1> QED
  BY <1>1, <1>2, <1>3, <1>4 DEF OrdinaryDirs

(* Beside their files, records in directories of ordinary names have room.    *)
THEOREM OrdinaryDirectoriesLeaveRoom ==
  ASSUME \A c \in Calls : c.via = "beside" /\ OrdinaryDirs(c.path, 1)
  PROVE  OutOfTheWay
<1> SUFFICES ASSUME NEW a \in Places, NEW b \in Places, NEW f \in FilesOf(a),
                    f \in Ancestors(b.target) \cup Ancestors(b.lock)
             PROVE  f = a.target /\ f \in Ancestors(b.target)
  BY DEF OutOfTheWay
<1>1. PICK c \in Calls : b = Beside(c.path)
  BY DEF Places, Place
<1>2. b.target = c.path /\ c.path \in Path /\ c.path # <<>> /\ OrdinaryDirs(c.path, 1)
  BY <1>1, CallsAssumption DEF Beside
<1>3. Append(Base(c.path), "lock") \in Name /\ b.lock = In(Dir(c.path), Append(Base(c.path), "lock"))
  BY <1>1, <1>2, PlaceNames DEF Beside, Suffixed
<1>4. f \in Ancestors(c.path)
  BY <1>2, <1>3, NeighboursShare
<1>5. f # a.target => 1 <= Len(f)
  <2>1. ASSUME NEW n \in Name PROVE Len(In(a.stage, n)) \in Nat \ {0}
    BY PlaceNames, AppendProperties, LenProperties DEF In, Path
  <2>2. f # a.target => \E n \in Name : f = In(a.stage, n)
    BY PlaceNames DEF FilesOf
  <2> QED
    BY <2>1, <2>2
<1>6. f = a.target
  BY <1>2, <1>4, <1>5, OrdinaryIsFree
<1> QED
  BY <1>2, <1>4, <1>6

(* The names of a mirror under the side directory are those of its file under *)
(* the root.                                                                  *)
LEMMA MirrorNames ==
  ASSUME NEW x \in Path, Covers(x)
  PROVE  /\ Len(Root) \in Nat /\ Len(Side) \in Nat /\ Len(x) \in Nat /\ Len(Root) < Len(x)
         /\ Len(Mirror(x)) = Len(Side) + (Len(x) - Len(Root))
         /\ \A i \in (Len(Side) + 1)..Len(Mirror(x)) :
                Mirror(x)[i] = x[i - Len(Side) + Len(Root)]
<1> DEFINE rel == SubSeq(x, Len(Root) + 1, Len(x))
<1>1. Root \in Seq(Name) /\ Side \in Seq(Name) /\ x \in Seq(Name)
  BY NamesAssumption DEF Path
<1>2. Len(Root) \in Nat /\ Len(Side) \in Nat /\ Len(x) \in Nat
  BY <1>1, LenProperties
<1>3. Len(Root) < Len(x)
  BY <1>1, <1>2, SeqEqual DEF Covers, Within
<1>4. /\ rel \in Seq(Name) /\ Len(rel) = Len(x) - Len(Root)
      /\ \A i \in 1..(Len(x) - Len(Root)) : rel[i] = x[i + Len(Root)]
  BY <1>1, <1>2, <1>3
<1> HIDE DEF rel
<1>5. /\ Mirror(x) \in Seq(Name) /\ Len(Mirror(x)) = Len(Side) + Len(rel)
      /\ \A i \in 1..(Len(Side) + Len(rel)) : Mirror(x)[i] =
             IF i <= Len(Side) THEN Side[i] ELSE rel[i - Len(Side)]
  BY <1>1, <1>4, ConcatProperties DEF Mirror, rel
<1>6. ASSUME NEW i \in (Len(Side) + 1)..Len(Mirror(x))
      PROVE  Mirror(x)[i] = x[i - Len(Side) + Len(Root)]
  <2>1. /\ i \in 1..(Len(Side) + Len(rel)) /\ ~(i <= Len(Side))
        /\ i - Len(Side) \in 1..(Len(x) - Len(Root))
    BY <1>2, <1>3, <1>4, <1>5
  <2> QED
    BY <1>4, <1>5, <2>1
<1> QED
  BY <1>2, <1>3, <1>4, <1>5, <1>6

(* Through a Placement, records in directories of ordinary names under the    *)
(* root have room, when none has the name of a directory above the side       *)
(* directory.                                                                 *)
THEOREM PlacementLeavesRoom ==
  ASSUME \A c \in Calls : /\ c.via = "placement"
                          /\ c.path \notin Ancestors(Side)
                          /\ OrdinaryDirs(c.path, Len(Root) + 1)
  PROVE  OutOfTheWay
<1> SUFFICES ASSUME NEW a \in Places, NEW b \in Places, NEW f \in FilesOf(a),
                    f \in Ancestors(b.target) \cup Ancestors(b.lock)
             PROVE  f = a.target /\ f \in Ancestors(b.target)
  BY DEF OutOfTheWay
<1>1. \A pl \in Places : \E x \in Path :
         /\ Covers(x) /\ pl = InSide(x) /\ pl.target = x
         /\ x \notin Ancestors(Side) /\ OrdinaryDirs(x, Len(Root) + 1)
  BY CallsAssumption DEF Places, Place, Allowed, InSide
<1>2. PICK x \in Path : Covers(x) /\ a = InSide(x) /\ a.target = x /\ x \notin Ancestors(Side)
  BY <1>1
<1>3. PICK y \in Path : Covers(y) /\ b = InSide(y) /\ b.target = y /\ OrdinaryDirs(y, Len(Root) + 1)
  BY <1>1
<1>4. /\ Mirror(y) \in Path /\ Mirror(y) # <<>> /\ Len(Mirror(y)) \in Nat
      /\ \A i \in 1..Len(Side) : Mirror(y)[i] = Side[i]
  BY <1>3, MirrorLiesInSide, LenProperties DEF Path
<1>5. /\ Len(Root) \in Nat /\ Len(Side) \in Nat /\ Len(y) \in Nat /\ Len(Root) < Len(y)
      /\ Len(Mirror(y)) = Len(Side) + (Len(y) - Len(Root))
      /\ \A i \in (Len(Side) + 1)..Len(Mirror(y)) : Mirror(y)[i] = y[i - Len(Side) + Len(Root)]
  BY <1>3, MirrorNames
<1>6. Ancestors(b.lock) = Ancestors(Mirror(y))
  <2>1. Append(Base(Mirror(y)), "lock") \in Name
    BY <1>4, PathIsDirAndBase, AppendProperties, NamesAssumption DEF Name
  <2>2. b.lock = In(Dir(Mirror(y)), Append(Base(Mirror(y)), "lock"))
    BY <1>3 DEF InSide, Suffixed
  <2> QED
    BY <1>4, <2>1, <2>2, NeighboursShare
<1>7. CASE f = a.target
  <2> SUFFICES ASSUME f \in Ancestors(Mirror(y)) PROVE FALSE
    BY <1>6, <1>7
  <2>1. /\ f \in Path /\ Len(f) \in 0..(Len(Mirror(y)) - 1)
        /\ \A i \in 1..Len(f) : f[i] = Mirror(y)[i]
    BY <1>4, AboveBegins
  <2>2. ~Within(f, Side)
    BY <1>2, <1>7 DEF Covers
  <2>3. Len(f) < Len(Side)
    BY <1>4, <1>5, <2>1, <2>2 DEF Within
  <2>4. Len(f) \in 0..Len(Side) /\ Len(f) \in 0..(Len(Side) - 1) /\ Side \in Seq(Name) /\ f \in Seq(Name)
    BY <1>5, <2>1, <2>3, NamesAssumption DEF Path
  <2>5. /\ SubSeq(Side, 1, Len(f)) \in Seq(Name) /\ Len(SubSeq(Side, 1, Len(f))) = Len(f)
        /\ \A i \in 1..Len(f) : SubSeq(Side, 1, Len(f))[i] = Side[i]
    BY <2>4, Prefix
  <2>6. \A i \in 1..Len(f) : f[i] = SubSeq(Side, 1, Len(f))[i]
    BY <1>4, <1>5, <2>1, <2>4, <2>5
  <2>7. f = SubSeq(Side, 1, Len(f))
    BY <2>4, <2>5, <2>6, SeqEqual
  <2> QED
    BY <1>2, <1>7, <2>4, <2>7 DEF Ancestors
<1>8. CASE f # a.target
  <2>1. Within(f, Side)
    BY <1>8, RestLiesInSide DEF FilesOf
  <2>2. Len(Side) < Len(f) /\ Len(f) \in Nat
    <3>1. ASSUME NEW n \in Name PROVE Len(Side) < Len(In(a.stage, n)) /\ Len(In(a.stage, n)) \in Nat
      <4>1. /\ Mirror(x) \in Path /\ Mirror(x) # <<>> /\ Len(Side) < Len(Mirror(x))
        BY <1>2, MirrorLiesInSide
      <4>2. /\ Mirror(x) \in Seq(Name) /\ Len(Mirror(x)) \in Nat \ {0}
            /\ Len(Mirror(x)) - 1 \in 0..Len(Mirror(x))
        BY <4>1, EmptySeq, LenProperties DEF Path
      <4>3. Dir(Mirror(x)) \in Seq(Name) /\ Len(Dir(Mirror(x))) = Len(Mirror(x)) - 1
        BY <4>2, Prefix DEF Dir
      <4>4. Len(In(Dir(Mirror(x)), n)) = Len(Mirror(x))
        BY <4>2, <4>3, AppendProperties DEF In
      <4> QED
        BY <1>2, <4>1, <4>2, <4>4 DEF InSide
    <3> QED
      BY <1>8, <3>1, PlaceNames DEF FilesOf
  <2>3. f \notin Ancestors(b.target)
    <3> SUFFICES ASSUME f \in Ancestors(y) PROVE FALSE
      BY <1>3
    <3>1. Len(f) \in 0..(Len(y) - 1) /\ \A i \in 1..Len(f) : f[i] = y[i]
      BY AboveBegins
    <3>2. Within(y, Side)
      BY <1>5, <2>1, <2>2, <3>1 DEF Within
    <3> QED
      BY <1>3, <3>2 DEF Covers
  <2>4. OrdinaryDirs(Mirror(y), Len(Side) + 1)
    <3> SUFFICES ASSUME NEW i \in (Len(Side) + 1)..(Len(Mirror(y)) - 1) PROVE Ordinary(Mirror(y)[i])
      BY DEF OrdinaryDirs
    <3>1. /\ i \in (Len(Side) + 1)..Len(Mirror(y))
          /\ i - Len(Side) + Len(Root) \in (Len(Root) + 1)..(Len(y) - 1)
      BY <1>4, <1>5
    <3> QED
      BY <1>3, <1>5, <3>1 DEF OrdinaryDirs
  <2>5. Len(Side) + 1 \in Nat /\ Len(Side) + 1 <= Len(f)
    BY <1>5, <2>2
  <2>6. f \notin Ancestors(Mirror(y))
    BY <1>4, <1>8, <2>4, <2>5, OrdinaryIsFree
  <2> QED
    BY <1>6, <2>3, <2>6
<1> QED
  BY <1>7, <1>8

(* Such a Placement serves every file under its root, as its records'         *)
(* directories are in nobody's way.                                           *)
THEOREM PlacementServesItsFiles ==
  ASSUME \A c \in Calls : /\ c.via = "placement"
                          /\ c.path \notin Ancestors(Side)
                          /\ OrdinaryDirs(c.path, Len(Root) + 1)
  PROVE  Spec => []EveryFileIsServed
<1>1. Apart
  BY PlacementKeepsApart
<1>2. OutOfTheWay
  BY PlacementLeavesRoom
<1> QED
  BY <1>1, <1>2, EveryRecordIsServed
================================================================================
