--------------------------------- MODULE Names ---------------------------------
(***************************************************************************)
(* The names one call uses: the data file, its lock file and its staged    *)
(* replacements, beside the file or through a Placement.                   *)
(*                                                                         *)
(* A path is absolute and clean: the sequence of its names, as Abs leaves  *)
(* it.  A name is the sequence of its words, the parts between its dots:   *)
(* b.lock is <<"b", "lock">>.                                              *)
(***************************************************************************)
EXTENDS Integers, Sequences

CONSTANTS
    Root, Side,   \* the two directories of the Placement
    SameVolume,   \* whether they are on one volume
    Words,        \* the parts of names
    Unique        \* those of letters, digits and underscores, not empty

Name == Seq(Words)
Path == Seq(Name)

ASSUME NamesAssumption == Root \in Path /\ Side \in Path /\ Unique \cup {"lock", "tmp"} \subseteq Words

Base(path)        == path[Len(path)]
Dir(path)         == SubSeq(path, 1, Len(path) - 1)
In(dir, name)     == Append(dir, name)
Ancestors(path)   == {SubSeq(path, 1, n) : n \in 0..(Len(path) - 1)}
Suffixed(path, w) == In(Dir(path), Append(Base(path), w))

(* Whether child is parent or lies under it. *)
Within(child, parent) ==
    /\ Len(parent) <= Len(child)
    /\ \A i \in 1..Len(parent) : child[i] = parent[i]

Beside(path) == [target |-> path, lock |-> Suffixed(path, "lock"), stage |-> Dir(path)]

Mirror(path) == Side \o SubSeq(path, Len(Root) + 1, Len(path))

(* As a slip would have it: the replacement staged beside its target. *)
InSideStagedBeside(path) ==
    [target |-> path, lock |-> Suffixed(Mirror(path), "lock"), stage |-> Dir(path)]

InSide(path) ==
    [target |-> path, lock |-> Suffixed(Mirror(path), "lock"), stage |-> Dir(Mirror(path))]

(* The directories that NewPlacement accepts.                                 *)
Accepted == ~Within(Root, Side) /\ SameVolume

(* As a slip would have it: nothing but the root is looked at. *)
CoversItsSide(path) == Within(path, Root) /\ path # Root

(* The files that the Placement covers.                                       *)
Covers(path) == Within(path, Root) /\ path # Root /\ ~Within(path, Side)

(* The name CreateTemp gives a replacement, and the sweep's test for one.     *)
StagedAs(place, u) == In(place.stage, Base(place.target) \o <<u, "tmp">>)

(* As a slip would have it: dots allowed in the unique part. *)
StagedNameWithDots(name, base) ==
    /\ Len(name) >= Len(base) + 2
    /\ \A i \in 1..Len(base) : name[i] = base[i]
    /\ name[Len(name)] = "tmp"

StagedName(name, base) ==
    /\ Len(name) = Len(base) + 2
    /\ \A i \in 1..Len(base) : name[i] = base[i]
    /\ name[Len(base) + 1] \in Unique
    /\ name[Len(base) + 2] = "tmp"

(* As a slip would have it: the target's directory, wherever the other is. *)
CommonDirOfTarget(a, b) == b

(* The directory that the rename opens, to name both files below it: dir goes *)
(* up from a until it holds b.                                                *)
CommonDir(a, b) ==
    LET up[n \in 0..Len(a)] ==
            IF n = 0 \/ Within(b, SubSeq(a, 1, n)) THEN SubSeq(a, 1, n) ELSE up[n - 1]
    IN  up[Len(a)]
================================================================================
