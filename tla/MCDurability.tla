------------------------------ MODULE MCDurability ------------------------------
(* Small instances of Durability for TLC.                                     *)
EXTENDS Durability, MCFileCas

(* Calls that write whenever they answer ok, and a sweep. *)
WritingRequests ==
    {WriteOf(v1, v2), ChangeOf(Flip, 0, TRUE), ChangeOf(Over(Nil, v1), 0, FALSE), SweepOf}

(* A change that may find the value as it wants it, and a write. *)
SettlingRequests == {ChangeOf(Settle, 0, FALSE), WriteOf(v1, v2)}
================================================================================
