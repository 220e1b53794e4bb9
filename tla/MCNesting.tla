------------------------------- MODULE MCNesting -------------------------------
(* Small instances of Nesting for TLC.                                        *)
EXTENDS Nesting

CONSTANTS t1, t2, t3, a, b, c

(* A record, its index and what they share; Python may also try the file      *)
(* itself.                                                                    *)
InOrder    == {<<a, b>>, <<a, c>>, <<b, c>>}
Ordered    == [t \in Threads |-> InOrder \cup IF t \in Python THEN {<<f, f>> : f \in Files} ELSE {}]
Crosswise  == [t \in Threads |-> {<<a, b>>, <<b, a>>}]
================================================================================
