------------------------------- MODULE MCRecords -------------------------------
(* Small instances of Records for TLC.                                        *)
EXTENDS Records, TLC

r    == <<"r">>
s    == <<"s">>
d    == <<"d">>
n    == <<"n">>
lock == <<"n", "lock">>        \* a record named as a lock file is
temp == <<"n", "x", "tmp">>    \* a record named as a staged file is

AllWords == STRING
MCRoot   == <<r>>
MCSide   == <<r, s>>           \* a side directory inside the root

Change(via, path) == [kind |-> "change", via |-> via, path |-> path]
SweepOf(via, path) == [kind |-> "sweep", via |-> via, path |-> path]
Both(via, path)   == {Change(via, path), SweepOf(via, path)}

(* Records in a directory under the root: with the names of a neighbour's     *)
(* files, under a neighbour's name, so that the two cannot coexist, and at    *)
(* the path of a lock file in the side directory, which no Placement covers.  *)
PlacedCalls ==
    Both("placement", <<r, d, n>>) \cup {Change("placement", <<r, d, lock>>),
        Change("placement", <<r, d, temp>>), Change("placement", <<r, d, n, n>>),
        Change("placement", <<r, s, d, lock>>)}

(* A record named as its neighbour's lock. *)
LockNamed == {Change("beside", <<r, n>>), Change("beside", <<r, lock>>)}

MCPaths ==
    LET used   == {Place(c) : c \in Calls}
        files  == UNION {{pl.target, pl.lock} \cup {StagedAs(pl, u) : u \in Unique} : pl \in used}
                    \cup {c.path : c \in Calls}
    IN  files \cup UNION {Ancestors(q) : q \in files \ {<<>>}}

Alike == Permutations(Procs) \cup Permutations(Inodes)
================================================================================
