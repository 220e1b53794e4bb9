------------------------------- MODULE MCFileCas -------------------------------
(* Small instances of FileCas for TLC.                                        *)
EXTENDS FileCas, TLC

CONSTANTS v1, v2

(* v2 is over the limit of 1 that some callers set. *)
MCSize == v1 :> 1 @@ v2 :> 2 @@ Torn :> 1

(* The edits.  Shown a file half written, they take it for v1.                *)
Flip    == v1 :> v2  @@ v2 :> v1  @@ Nil :> v1  @@ Torn :> v2   \* always changes it
Settle  == v1 :> v1  @@ v2 :> v1  @@ Nil :> v1  @@ Torn :> v1   \* may leave it as it is
Erase   == v1 :> Nil @@ v2 :> Nil @@ Nil :> Nil @@ Torn :> Nil  \* answers nil
Grow    == v1 :> v2  @@ v2 :> "refused" @@ Nil :> v2 @@ Torn :> v2
                                                                \* may refuse
MCEdits == {Flip, Settle, Erase, Grow, Over(Nil, v1), Over(v1, v2)}
MCEditErrors == {"refused", "moved"}

ReadOf(n, late)      == [kind |-> "read", limit |-> n, deadline |-> late]
WriteOf(b, d)        == [kind |-> "write", base |-> b, data |-> d, limit |-> 0]
ChangeOf(e, n, late) == [kind |-> "change", edit |-> e, limit |-> n, deadline |-> late]
SweepOf              == [kind |-> "sweep"]

(* Every kind of call, every reason for which one is refused.                 *)
AllRequests ==
    {ReadOf(0, FALSE), ReadOf(1, TRUE), SweepOf,
     WriteOf(Nil, v1), WriteOf(v1, v2), WriteOf(v1, Nil),
     ChangeOf(Flip, 1, TRUE), ChangeOf(Settle, 0, FALSE),
     ChangeOf(Erase, 0, FALSE), ChangeOf(Grow, 1, FALSE), ChangeOf(Grow, 0, FALSE),
     ChangeOf(Over(v1, v2), 0, TRUE)}

(* The calls that contend: one of each kind. *)
FewRequests ==
    {ReadOf(0, FALSE), SweepOf, WriteOf(v1, v2), ChangeOf(Flip, 0, TRUE)}

(* Neither the callers nor the files of the disk are told apart.              *)
Alike == Permutations(Procs) \cup Permutations(Inodes)

(* One call that polls for the lock, and one that blocks for it. *)
LiveRequests == {ChangeOf(Flip, 0, TRUE), SweepOf}
================================================================================
