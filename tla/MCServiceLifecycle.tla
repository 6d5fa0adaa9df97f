------------------------- MODULE MCServiceLifecycle -------------------------
(* Two administrators, of whom one also ends the process, and a client.     *)
EXTENDS ServiceLifecycle

CONSTANTS t1, t2, t3

Roles ==
  [t \in Tasks |->
     CASE t = t1 -> {"start"}
       [] t = t2 -> {"start", "stop", "shutdown"}
       [] t = t3 -> {"generate", "count"}]
=============================================================================
