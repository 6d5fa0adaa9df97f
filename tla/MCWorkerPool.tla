---------------------------- MODULE MCWorkerPool ----------------------------
(* Model values and symmetry for the runs on WorkerPool.                    *)
EXTENDS WorkerPool, TLC

CONSTANTS a1, a2, a3, a4, t1, t2, t3

Interchangeable == Permutations(Accounts) \cup Permutations(Tasks)

(* What the guards and the properties of the run that uses this view tell   *)
(* apart: not whether an account has a stray browser, not which worker a    *)
(* task was given, and of generations only whether they are still the same. *)
Current(t) == acct[t] # None /\ seen[t].generation = slot[acct[t]].generation

Distinguished ==
  <<pc, op, acct, victim, swap, [t \in Tasks |-> Current(t)], cancelled, poolVars, mgrVars, startup,
    [a \in Accounts |-> [slot[a] EXCEPT !.stray = FALSE, !.generation = 0]]>>
=============================================================================
