--------------------------- MODULE MCAccountLeases ---------------------------
(* Two processes that share one account directory: most of the goroutines   *)
(* run in the first.                                                        *)
EXTENDS AccountLeases, TLC

CONSTANTS p1, p2, t1, t2, t3, t4

HomeOf == [t \in Tasks |-> IF t = t4 THEN p2 ELSE p1]

(* The goroutines of the first process are alike.                           *)
Alike == Permutations({t1, t2, t3})
=============================================================================
