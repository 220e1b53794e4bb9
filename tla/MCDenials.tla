------------------------------- MODULE MCDenials -------------------------------
(* Small instances of Denials for TLC.                                        *)
EXTENDS Denials, MCFileCas

(* A read and a sweep without a deadline, whose tries are counted, and a read *)
(* and a change whose deadline comes first.                                   *)
DeniableRequests == {ReadOf(0, FALSE), ReadOf(0, TRUE), ChangeOf(Flip, 0, TRUE), SweepOf}
HastyRequests    == {ReadOf(0, TRUE), ChangeOf(Flip, 0, TRUE)}
================================================================================
