------------------------------- MODULE MCLists -------------------------------
(* Two items, of which a search finds one; two folders.                    *)
EXTENDS Views

CONSTANTS i1, i2, a, all, here, there

MCMatches == [t \in {a, all} |-> IF t = a THEN {i1} ELSE {i1, i2}]
==============================================================================
