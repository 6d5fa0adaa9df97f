--------------------------- MODULE MCDispatchQueue ---------------------------
(* Two interchangeable requests and one of another kind.                    *)
EXTENDS DispatchQueue

CONSTANTS r1, r2, r3, k1, k2

KeyOf == [r \in Requests |-> IF r = r3 THEN k2 ELSE k1]
=============================================================================
