--------------------------- MODULE MCRuntimeState ---------------------------
(* Three jobs in two processes: a late mark beside a login, a cooldown and  *)
(* a reading of the catalog, of its own process or of the other.            *)
EXTENDS RuntimeState

CONSTANTS p, q, j1, j2, j3

In(home, ends) == [home |-> home, ends |-> ends]

Scene(first, second, third) ==
  [j \in Job |-> CASE j = j1 -> first [] j = j2 -> second [] j = j3 -> third]

Plays ==
  {Scene(In(p, {"finish"}), In(p, {"quota", "block"}), In(p, {"login"})),
   Scene(In(p, {"finish"}), In(q, {"quota", "block"}), In(q, {"catalog"})),
   Scene(In(p, {"finish"}), In(p, {"catalog"}), In(q, {"catalog"})),
   Scene(In(p, {"finish", "success"}), In(p, {"quota"}), In(q, {"finish", "failure"})),
   Scene(In(p, {"finish"}), In(q, {"block"}), In(q, {"login"}))}

Catalog(tier, entry) == [tier |-> tier, entry |-> entry, others |-> "same"]
Answers == {Catalog("free", "old"), Catalog("free", "new")}
=============================================================================
