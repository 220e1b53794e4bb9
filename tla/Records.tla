-------------------------------- MODULE Records --------------------------------
(***************************************************************************)
(* Many records in one tree of directories: which files they share.        *)
(*                                                                         *)
(* FileCas is the protocol of one record with files of its own.  Here the  *)
(* names decide what a call locks, stages, replaces and removes: a lock is *)
(* held on the inode that the lock's name had when it was opened, a rename *)
(* takes whatever has the staged name, and a sweep whatever looks like     *)
(* one.  Change and Write are one kind of call, which reads the record     *)
(* once and may then leave it as it is.  Each rename puts a new inode in   *)
(* place, so that the inode stands for the value.                          *)
(***************************************************************************)
EXTENDS Names

CONSTANTS Procs, Inodes, None,
    Paths,        \* the paths that may come to be used
    Calls,        \* the calls made: [kind, via, path]
    Kills         \* whether callers may be killed

ASSUME CallsAssumption ==
    /\ Paths \subseteq Path
    /\ Calls \subseteq [kind : {"change", "sweep"}, via : {"beside", "placement"},
                        path : Paths \ {<<>>}]
    /\ None \notin Procs \cup Inodes \cup Calls

VARIABLES
    dirs,     \* the paths that are directories
    names,    \* names[q]: the inode under path q, or None
    holder,   \* holder[i]: the caller whose handle holds the lock on inode i
    pc, op,   \* the step each caller is at, and its call
    lk,       \* lk[p]: the inode of the lock file that p has opened
    seen,     \* seen[p]: the inode that p has read, or None for a missing file
    tmp,      \* tmp[p]: the name of its staged file
    fd,       \* fd[p]: the inode of its staged file
    res       \* res[p]: its answer

caller == <<op, lk, seen, tmp, fd, res>>
vars   == <<dirs, names, holder, pc, caller>>

Place(r)   == IF r.via = "beside" THEN Beside(r.path) ELSE InSide(r.path)
Allowed(r) == r.via = "placement" => Accepted /\ Covers(r.path)
Places     == {Place(r) : r \in {c \in Calls : Allowed(c)}}
Its(p)     == Place(op[p])

ASSUME FilesAssumption ==
    /\ \A place \in Places : {place.target, place.lock} \cup {StagedAs(place, u) : u \in Unique} \subseteq Paths
    /\ \A q \in Paths : Ancestors(q) \subseteq Paths

Labels == {"idle", "dirs", "lockdir", "open", "flock", "read", "stage", "rename", "sweep", "return"}

(* The type invariant. *)
RecordsTypeOK ==
    /\ dirs \subseteq Paths
    /\ names \in [Paths -> Inodes \cup {None}]
    /\ holder \in [Inodes -> Procs \cup {None}]
    /\ pc \in [Procs -> Labels]
    /\ op \in [Procs -> Calls \cup {None}]
    /\ lk \in [Procs -> Inodes \cup {None}]
    /\ seen \in [Procs -> Inodes \cup {None}]
    /\ tmp \in [Procs -> Paths \cup {None}]
    /\ fd \in [Procs -> Inodes \cup {None}]
    /\ res \in [Procs -> {"none", "ok", "oserror"}]

Init ==
    /\ dirs = {}
    /\ names = [q \in Paths |-> None]
    /\ holder = [i \in Inodes |-> None]
    /\ pc = [p \in Procs |-> "idle"]
    /\ op = [p \in Procs |-> None]
    /\ lk = [p \in Procs |-> None]
    /\ seen = [p \in Procs |-> None]
    /\ tmp = [p \in Procs |-> None]
    /\ fd = [p \in Procs |-> None]
    /\ res = [p \in Procs |-> "none"]

At(p, l)     == pc[p] = l
Goto(p, l)   == pc' = [pc EXCEPT ![p] = l]
Finish(p, s) == Goto(p, "return") /\ res' = [res EXCEPT ![p] = s]

(* An inode is free when neither a name nor a caller refers to it.            *)
Free == {i \in Inodes : /\ \A q \in Paths : names[q] # i
                        /\ \A p \in Procs : i \notin {lk[p], seen[p], fd[p]}}

--------------------------------------------------------------------------------
(* A call that its Placement refuses changes nothing. *)
Call(p, r) ==
    /\ At(p, "idle")
    /\ Allowed(r)
    /\ op' = [op EXCEPT ![p] = r]
    /\ Goto(p, "dirs")
    /\ UNCHANGED <<dirs, names, holder, lk, seen, tmp, fd, res>>

(* MkdirAll of the directory of q: it stops at the first name that is a file. *)
Makeable(q) == {d \in Ancestors(q) : \A e \in Ancestors(q) : Within(d, e) => names[e] = None}

MakeDirs(p, from, q, to) ==
    /\ At(p, from)
    /\ dirs' = dirs \cup Makeable(q)
    /\ IF Makeable(q) = Ancestors(q) THEN Goto(p, to) /\ UNCHANGED res ELSE Finish(p, "oserror")
    /\ UNCHANGED <<names, holder, op, lk, seen, tmp, fd>>

(* The lock file is opened, and created when it is missing.                   *)
OpenLock(p) ==
    /\ At(p, "open")
    /\ LET l == Its(p).lock
       IN  \/ /\ l \notin dirs
              /\ \E i \in IF names[l] = None THEN Free ELSE {names[l]} :
                     /\ names' = [names EXCEPT ![l] = i]
                     /\ lk' = [lk EXCEPT ![p] = i]
              /\ Goto(p, "flock")
              /\ UNCHANGED res
           \/ /\ l \in dirs
              /\ Finish(p, "oserror")
              /\ UNCHANGED <<names, lk>>
    /\ UNCHANGED <<dirs, holder, op, seen, tmp, fd>>

Acquire(p) ==
    /\ At(p, "flock")
    /\ holder[lk[p]] = None
    /\ holder' = [holder EXCEPT ![lk[p]] = p]
    /\ Goto(p, IF op[p].kind = "sweep" THEN "sweep" ELSE "read")
    /\ UNCHANGED <<dirs, names, caller>>

(* The call reads the record, and answers at once or goes on to replace it.   *)
ReadCurrent(p) ==
    /\ At(p, "read")
    /\ \/ /\ Its(p).target \notin dirs
          /\ seen' = [seen EXCEPT ![p] = names[Its(p).target]]
          /\ \/ Goto(p, "stage") /\ UNCHANGED res
             \/ Finish(p, "ok")
       \/ /\ Its(p).target \in dirs
          /\ Finish(p, "oserror")
          /\ UNCHANGED seen
    /\ UNCHANGED <<dirs, names, holder, op, lk, tmp, fd>>

(* CreateTemp draws names until one is free.                                  *)
Stage(p) ==
    /\ At(p, "stage")
    /\ \E u \in Unique, i \in Free :
          LET q == StagedAs(Its(p), u)
          IN  /\ names[q] = None /\ q \notin dirs
              /\ names' = [names EXCEPT ![q] = i]
              /\ tmp' = [tmp EXCEPT ![p] = q]
              /\ fd' = [fd EXCEPT ![p] = i]
    /\ Goto(p, "rename")
    /\ UNCHANGED <<dirs, holder, op, lk, seen, res>>

(* The rename fails when the staged name is gone, the target is a directory   *)
(* or one of them is not below the directory opened; os.Remove then takes the *)
(* staged name if it is there.                                                *)
Rename(p) ==
    /\ At(p, "rename")
    /\ LET q == tmp[p]
           t == Its(p).target
           opened == CommonDir(Dir(q), Dir(t))
           can == names[q] # None /\ t \notin dirs /\ Within(q, opened) /\ Within(t, opened)
       IN  \/ /\ can
              /\ names' = [names EXCEPT ![t] = names[q], ![q] = None]
              /\ Finish(p, "ok")
           \/ /\ ~can
              /\ names' = [names EXCEPT ![q] = None]
              /\ Finish(p, "oserror")
    /\ UNCHANGED <<dirs, holder, op, lk, seen, tmp, fd>>

(* Every file in the staging directory with a staged name of the record. *)
Sweepable(place) ==
    {q \in Paths : q # <<>> /\ Dir(q) = place.stage /\ StagedName(Base(q), Base(place.target))}

Sweep(p) ==
    /\ At(p, "sweep")
    /\ names' = [q \in Paths |-> IF q \in Sweepable(Its(p)) THEN None ELSE names[q]]
    /\ Finish(p, "ok")
    /\ UNCHANGED <<dirs, holder, op, lk, seen, tmp, fd>>

Release(p) == holder' = [i \in Inodes |-> IF holder[i] = p THEN None ELSE holder[i]]
Forget(p) ==
    /\ Goto(p, "idle")
    /\ op' = [op EXCEPT ![p] = None]
    /\ lk' = [lk EXCEPT ![p] = None]
    /\ seen' = [seen EXCEPT ![p] = None]
    /\ tmp' = [tmp EXCEPT ![p] = None]
    /\ fd' = [fd EXCEPT ![p] = None]
    /\ res' = [res EXCEPT ![p] = "none"]

(* As a slip would have it: the lock file is tidied away. *)
ReturnTidying(p) ==
    /\ At(p, "return")
    /\ names' = [names EXCEPT ![Its(p).lock] = None]
    /\ Release(p)
    /\ Forget(p)
    /\ UNCHANGED dirs

Return(p) == At(p, "return") /\ Release(p) /\ Forget(p) /\ UNCHANGED <<dirs, names>>
Kill(p)   == Kills /\ ~At(p, "idle") /\ Release(p) /\ Forget(p) /\ UNCHANGED <<dirs, names>>

Step(p) ==
    \/ \E r \in Calls : Call(p, r)
    \/ MakeDirs(p, "dirs", Its(p).target, "lockdir")
    \/ MakeDirs(p, "lockdir", Its(p).lock, "open")
    \/ OpenLock(p) \/ Acquire(p) \/ ReadCurrent(p) \/ Stage(p) \/ Rename(p) \/ Sweep(p)
    \/ Return(p) \/ Kill(p)

Next == \E p \in Procs : Step(p)

Spec == Init /\ [][Next]_vars

--------------------------------------------------------------------------------
(* What the names of the calls must be for them to be independent: every      *)
(* caller of one record uses one lock and one staging directory, and a data   *)
(* file is nobody's lock or staged file, nor a staged file somebody's lock;   *)
(* where two records stage under one name they share their lock.              *)
Apart ==
    /\ \A a, b \in Places : a.target = b.target => a = b
    /\ \A a, b \in Places : a.target # b.lock
    /\ \A a, b \in Places, u \in Unique : StagedAs(a, u) \notin {b.target, b.lock}
    /\ \A a, b \in Places, u, v \in Unique : StagedAs(a, u) = StagedAs(b, v) => a.lock = b.lock

(* What they must be for every record to have room: where a file of one       *)
(* record has the name of a directory above a file of another, it is because  *)
(* the one record lies under the other.                                       *)
FilesOf(place) == {place.target, place.lock} \cup {StagedAs(place, u) : u \in Unique}
OutOfTheWay ==
    \A a, b \in Places : \A f \in FilesOf(a) \cap (Ancestors(b.target) \cup Ancestors(b.lock)) :
        f = a.target /\ f \in Ancestors(b.target)

(* A record's file changes in one way only: a writer of that very record      *)
(* renames its staged file over what it has read.  So no update is lost, no   *)
(* sweep deletes a record, and no lock file shows up as one.                  *)
RecordsChangeByTheirWriters ==
    [][\A place \in Places : names'[place.target] # names[place.target] =>
          \E p \in Procs :
              /\ At(p, "rename") /\ Its(p) = place
              /\ seen[p] = names[place.target]
              /\ fd[p] = names'[place.target]]_vars

(* A lock file is never replaced or deleted: a deleted lock file is a new     *)
(* inode, and holders of two inodes exclude nobody.                           *)
LocksStay ==
    [][\A place \in Places :
          names[place.lock] # None => names'[place.lock] = names[place.lock]]_vars

(* What a live writer has staged is there, as it staged it, when it renames.  *)
StagedFilesStay == \A p \in Procs : At(p, "rename") => names[tmp[p]] = fd[p]

(* Under a Placement the root holds the records and nothing else.             *)
RootHoldsOnlyData ==
    \A q \in Paths : names[q] # None /\ Within(q, Root) /\ ~Within(q, Side) =>
        \E place \in Places : q = place.target

(* Where the names leave room, every file is served: a call fails only where  *)
(* the records themselves cannot coexist, one being under the other.          *)
EveryFileIsServed ==
    \A p \in Procs : res[p] = "oserror" =>
        \E place \in Places : LET t == Its(p).target
                              IN  place.target # t /\ (Within(t, place.target) \/ Within(place.target, t))
================================================================================
