------------------------------ MODULE LeaseLock ------------------------------
(***************************************************************************)
(* What the leases of one account promise to the goroutines of every        *)
(* process that shares the account directory: a bounded group of readers    *)
(* of one process (requests), or one writer alone (an account operation).   *)
(***************************************************************************)
EXTENDS Naturals, FiniteSets

CONSTANTS
  Tasks,        (* goroutines of all processes                             *)
  Processes,
  Home,         (* the process of each task                                *)
  Limit         (* PER_ACCOUNT_CONCURRENCY                                 *)

VARIABLES
  readers,      (* tasks that hold a shared lease                          *)
  writers       (* the task that holds an exclusive lease, if any          *)

Init == readers = {} /\ writers = {}

Read(t) ==
  /\ t \notin readers /\ writers = {}
  /\ \A u \in readers : Home[u] = Home[t]
  /\ Cardinality(readers) < Limit
  /\ readers' = readers \cup {t}
  /\ UNCHANGED writers

Write(t) ==
  /\ readers = {} /\ writers = {}
  /\ writers' = {t}
  /\ UNCHANGED readers

Leave(t) ==
  /\ t \in readers \cup writers
  /\ readers' = readers \ {t}
  /\ writers' = writers \ {t}

(* A process ends, and with it every lease it holds.                        *)
Crash(p) ==
  /\ readers' = {t \in readers : Home[t] # p}
  /\ writers' = {t \in writers : Home[t] # p}

Next ==
  \/ \E t \in Tasks : Read(t) \/ Write(t) \/ Leave(t)
  \/ \E p \in Processes : Crash(p)

Spec == Init /\ [][Next]_<<readers, writers>>
=============================================================================
