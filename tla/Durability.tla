------------------------------- MODULE Durability -------------------------------
(***************************************************************************)
(* FileCas over a disk that a power cut takes back to what has reached it. *)
(*                                                                         *)
(* What callers see is FileCas's; what the platter holds is here.  A name  *)
(* reaches it with a sync of the directory, the bytes of a file with a     *)
(* sync of the file, and either by itself at any time.  A rename reaches   *)
(* it whole or not at all.                                                 *)
(***************************************************************************)
EXTENDS FileCas

VARIABLES
    onDisk,   \* the inode under the data file's name on the platter, or None
    inked,    \* the inodes whose bytes are on the platter
    since     \* history: the inodes the name has had since a write or a change
              \* was last answered ok, from the one it was answered for

platter  == <<onDisk, inked, since>>
diskVars == <<vars, platter>>

DurableTypeOK ==
    /\ onDisk \in Inodes \cup {None}
    /\ inked \in SUBSET Inodes
    /\ since \in SUBSET (Inodes \cup {None})

DurableInit ==
    /\ Init
    /\ onDisk = None
    /\ inked = {}
    /\ since = {None}

(* What the step that p has just taken did to the platter.  f.Sync comes with *)
(* every filled file, the directory's sync with every write that answers ok.  *)
NoFileSync(p) == FALSE
FileSync(p)   == At(p, "fill") /\ file'[fd[p]] # Torn

NoDirSync(p)  == FALSE
DirSync(p)    == At(p, "sync") /\ res'[p] = "ok"

Renames(p)  == At(p, "rename") /\ pc'[p] = "sync"
Answered(p) ==
    /\ At(p, "return")
    /\ pc'[p] = "idle"
    /\ res[p] = "ok"
    /\ op[p].kind \in {"write", "change"}

(* A step of FileCas.  The file system does not hand out again an inode that  *)
(* the platter's directory still names.                                       *)
Run(p) ==
    /\ Environment(p) \/ Work(p) \/ Edit(p)
    /\ onDisk \notin temps' \ temps
    /\ onDisk' = IF DirSync(p) THEN target ELSE onDisk
    /\ inked' = (inked \ (temps' \ temps)) \cup (IF FileSync(p) THEN {fd[p]} ELSE {})
    /\ since' = IF Answered(p) THEN {target}
                ELSE IF Renames(p) THEN since \cup {target'}
                ELSE since

(* The kernel writes the directory, or a file, in its own time.               *)
WriteBack ==
    /\ \/ onDisk # target /\ onDisk' = target /\ UNCHANGED inked
       \/ /\ \E i \in Inodes \ inked : file[i] # Torn /\ inked' = inked \cup {i}
          /\ UNCHANGED onDisk
    /\ UNCHANGED <<vars, since>>

(* Everybody dies.  Of the staged names any may have reached the platter, and *)
(* a rename that did not leaves the file under the staged name it had.        *)
PowerCut ==
    /\ Fails("kill")
    /\ pc' = [p \in Procs |-> "idle"]
    /\ op' = [p \in Procs |-> None]
    /\ base' = [p \in Procs |-> Nil]
    /\ data' = [p \in Procs |-> Nil]
    /\ fd' = [p \in Procs |-> None]
    /\ todo' = [p \in Procs |-> {}]
    /\ res' = [p \in Procs |-> "none"]
    /\ expired' = [p \in Procs |-> FALSE]
    /\ holder' = None
    /\ target' = onDisk
    /\ temps' \in SUBSET ((temps \cup {target}) \ {onDisk, None})
    /\ orphans' = temps'
    /\ file' = [i \in Inodes |-> IF i \in inked THEN file[i] ELSE Torn]
    /\ since' = {onDisk}
    /\ UNCHANGED <<onDisk, inked>>

DurableNext == (\E p \in Procs : Run(p)) \/ WriteBack \/ PowerCut

DurableSpec == DurableInit /\ [][DurableNext]_diskVars

(* A value that a writer was told is in place is there after a power cut, or  *)
(* one that replaced it is.                                                   *)
AcknowledgedSurvives == onDisk \in since

(* The name never comes back from a power cut with half a file.               *)
WholeAfterPowerCut == onDisk # None => onDisk \in inked /\ file[onDisk] # Torn
================================================================================
