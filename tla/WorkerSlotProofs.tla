-------------------------- MODULE WorkerSlotProofs --------------------------
(***************************************************************************)
(* What the functions on an accountWorker preserve, whatever they fail at:  *)
(* the process-lease discipline of one slot.                                *)
(***************************************************************************)
EXTENDS WorkerSlot, TLAPS

(* At most one lease file handle, and each process leans on a lease that is *)
(* released only after the process is gone.                                 *)
SlotGuard(s) ==
  /\ Locks(s) <= 1
  /\ s.worker # "none" => s.runtimeLease # "none"
  /\ s.pending = "borrowing" => s.runtimeLease # "none"
  /\ s.cleanupWorker => s.runtimeLease # "none" \/ s.cleanupLease # "none"

(* A slot no preparer is working on.                                        *)
Quiet(s) == s \in Slot /\ SlotGuard(s) /\ s.pending = "none"

(* A released lease is a lease.                                             *)
LEMMA ReleaseType ==
  ASSUME NEW l \in Leases, NEW r \in Release(l)
  PROVE  r \in Leases /\ (l = "none" => r = "none")
BY DEF Leases, Release

(* Closing the current worker of a quiet slot.                              *)
LEMMA CloseWorkerQuiet ==
  ASSUME NEW s, Quiet(s), NEW r \in CloseWorker(s)
  PROVE  Quiet(r)
<1>1. CASE s.worker = "none"
  BY <1>1 DEF CloseWorker
<1>2. CASE r = [s EXCEPT !.worker = "none", !.generation = s.generation + 1]
  <2>1. s.generation + 1 \in Nat
    BY DEF Quiet, Slot
  <2>2. r \in Slot
    BY <1>2, <2>1, Zenon DEF Quiet, Slot, Phases
  <2>3. SlotGuard(r) /\ r.pending = "none"
    BY <1>2 DEF Quiet, Slot, SlotGuard, Locks
  <2> QED
    BY <2>2, <2>3 DEF Quiet
<1>3. CASE s.worker # "none" /\ r = [s EXCEPT !.worker = "closing"]
  BY <1>3 DEF Quiet, Slot, SlotGuard, Locks, Phases
<1> QED
  BY <1>1, <1>2, <1>3 DEF CloseWorker

(* Closing the pending worker that a discard could not close.               *)
LEMMA CloseCleanupQuiet ==
  ASSUME NEW s, Quiet(s), NEW r \in CloseCleanup(s)
  PROVE  Quiet(r)
BY DEF Quiet, CloseCleanup, Slot, SlotGuard, Locks, Count

(* Releasing the lease that guarded it.                                     *)
LEMMA ReleaseCleanupQuiet ==
  ASSUME NEW s, Quiet(s), NEW r \in ReleaseCleanup(s)
  PROVE  Quiet(r)
<1>1. CASE s.cleanupWorker
  BY <1>1 DEF ReleaseCleanup
<1>2. CASE ~s.cleanupWorker
  <2>1. PICK l \in Release(s.cleanupLease) : r = [s EXCEPT !.cleanupLease = l]
    BY <1>2 DEF ReleaseCleanup
  <2>2. l \in Leases /\ (s.cleanupLease = "none" => l = "none")
    BY <2>1, ReleaseType DEF Quiet, Slot
  <2> QED
    BY <1>2, <2>1, <2>2 DEF Quiet, Slot, SlotGuard, Locks, Count
<1> QED
  BY <1>1, <1>2

(* Releasing the runtime lease, which only happens once nothing leans on it *)
LEMMA ReleaseRuntimeQuiet ==
  ASSUME NEW s, Quiet(s), NEW r \in ReleaseRuntime(s)
  PROVE  Quiet(r)
<1>1. CASE ~(s.worker = "none" /\ ~s.cleanupWorker /\ s.cleanupLease = "none")
  BY <1>1 DEF ReleaseRuntime
<1>2. CASE s.worker = "none" /\ ~s.cleanupWorker /\ s.cleanupLease = "none"
  <2>1. PICK l \in Release(s.runtimeLease) : r = [s EXCEPT !.runtimeLease = l]
    BY <1>2 DEF ReleaseRuntime
  <2>2. l \in Leases /\ (s.runtimeLease = "none" => l = "none")
    BY <2>1, ReleaseType DEF Quiet, Slot
  <2> QED
    BY <1>2, <2>1, <2>2 DEF Quiet, Slot, SlotGuard, Locks, Count
<1> QED
  BY <1>1, <1>2

(* closeAccountWorker keeps the discipline, whichever of its four attempts  *)
(* fail.                                                                    *)
THEOREM CloseAccountWorkerQuiet ==
  ASSUME NEW s, Quiet(s), NEW r \in CloseAccountWorker(s)
  PROVE  Quiet(r)
<1> DEFINE closed    == UNION {CloseCleanup(c) : c \in CloseWorker(s)}
           unguarded == UNION {ReleaseCleanup(c) : c \in closed}
<1>1. \A c \in closed : Quiet(c)
  BY CloseWorkerQuiet, CloseCleanupQuiet
<1>2. \A c \in unguarded : Quiet(c)
  BY <1>1, ReleaseCleanupQuiet
<1>3. \A c \in UNION {ReleaseRuntime(u) : u \in unguarded} : Quiet(c)
  BY <1>2, ReleaseRuntimeQuiet
<1>4. PICK c : Quiet(c) /\ r = Settle(c)
  BY <1>3 DEF CloseAccountWorker
<1> QED
  BY <1>4 DEF Settle, Quiet, Slot, SlotGuard, Locks, Count

(* A launch begins on a quiet slot whose lease file is free to be locked.   *)
LEMMA LaunchGuard ==
  ASSUME NEW s, Quiet(s), LeaseFree(s), ~CleanupPending(s)
  PROVE  Launch(s) \in Slot /\ SlotGuard(Launch(s)) /\ Launch(s).pending # "none"
<1> DEFINE r == Launch(s)
<1>1. r \in Slot /\ r.pending # "none"
  BY DEF Quiet, Launch, Slot, Pendings
<1>2. /\ r.worker = s.worker /\ r.runtimeLease = s.runtimeLease
      /\ r.cleanupWorker = s.cleanupWorker /\ r.cleanupLease = s.cleanupLease
      /\ r.lostLease = s.lostLease
      /\ r.pending = IF s.runtimeLease = "none" THEN "owning" ELSE "borrowing"
  BY DEF Quiet, Launch, Slot
<1>3. s.cleanupLease = "none" /\ ~s.cleanupWorker
  BY DEF CleanupPending
<1> HIDE DEF r
<1>4. SlotGuard(r)
  BY <1>2, <1>3 DEF Quiet, LeaseFree, SlotGuard, Locks, Count
<1> QED
  BY <1>1, <1>4 DEF r

(* What an aborted launch changes: the pending process is gone, or it is a  *)
(* stray, and the lock of its own lease may be lost.                        *)
LEMMA AbortLaunchShape ==
  ASSUME NEW s \in Slot, NEW r \in AbortLaunch(s)
  PROVE  /\ r \in Slot /\ r.pending = "none"
         /\ r.worker = s.worker /\ r.cleanupWorker = s.cleanupWorker
         /\ r.runtimeLease = s.runtimeLease /\ r.cleanupLease = s.cleanupLease
         /\ r.warm = s.warm /\ r.generation = s.generation /\ r.serial = s.serial
         /\ r.config = s.config /\ r.pendingConfig = s.pendingConfig
         /\ r.workerConfig = s.workerConfig
         /\ s.pending # "owning" => r.lostLease = s.lostLease
         /\ ~CloseMayFail => r.stray = s.stray
<1> DEFINE ended == IF s.pending = "owning"
                    THEN {[s EXCEPT !.pending = "none", !.lostLease = (l = "stuck")]
                            : l \in Release("held")}
                    ELSE {[s EXCEPT !.pending = "none"]}
<1>1. PICK e \in ended : r = e \/ (CloseMayFail /\ r = [e EXCEPT !.stray = TRUE])
  BY Zenon DEF AbortLaunch
<1>2. PICK lost \in BOOLEAN : /\ e = [s EXCEPT !.pending = "none", !.lostLease = lost]
                              /\ s.pending # "owning" => lost = s.lostLease
  <2>1. CASE s.pending = "owning"
    BY <2>1
  <2>2. CASE s.pending # "owning"
    <3>1. e = [s EXCEPT !.pending = "none"]
      BY <2>2
    <3>2. e = [s EXCEPT !.pending = "none", !.lostLease = s.lostLease]
      BY <3>1 DEF Slot
    <3> QED
      BY <3>2 DEF Slot
  <2> QED
    BY <2>1, <2>2
<1> HIDE DEF ended
<1>3. PICK b \in BOOLEAN : /\ r = [s EXCEPT !.pending = "none", !.lostLease = lost, !.stray = b]
                           /\ ~CloseMayFail => b = s.stray
  <2>1. CASE r = e
    <3>1. r = [s EXCEPT !.pending = "none", !.lostLease = lost, !.stray = s.stray]
      BY <1>2, <2>1 DEF Slot
    <3> QED
      BY <3>1 DEF Slot
  <2>2. CASE CloseMayFail /\ r = [e EXCEPT !.stray = TRUE]
    BY <1>2, <2>2 DEF Slot
  <2> QED
    BY <1>1, <2>1, <2>2
<1>4. r \in Slot
  BY <1>3 DEF Slot, Pendings
<1> QED
  BY <1>2, <1>3, <1>4 DEF Slot

(* A failed launch leaves no pending process.                               *)
LEMMA AbortLaunchQuiet ==
  ASSUME NEW s \in Slot, SlotGuard(s), NEW r \in AbortLaunch(s)
  PROVE  Quiet(r)
<1>1. /\ r \in Slot /\ r.pending = "none"
      /\ r.worker = s.worker /\ r.cleanupWorker = s.cleanupWorker
      /\ r.runtimeLease = s.runtimeLease /\ r.cleanupLease = s.cleanupLease
      /\ s.pending # "owning" => r.lostLease = s.lostLease
  BY AbortLaunchShape
<1>2. SlotGuard(r)
  BY <1>1 DEF SlotGuard, Locks, Count, Slot
<1> QED
  BY <1>1, <1>2 DEF Quiet

(* A discarded preparer is gone, or it became the cleanup worker and its    *)
(* own lease the cleanup lease.                                             *)
LEMMA DiscardPendingQuiet ==
  ASSUME NEW s \in Slot, SlotGuard(s), NEW r \in DiscardPending(s)
  PROVE  Quiet(r)
<1>1. CASE s.pending = "none"
  BY <1>1 DEF DiscardPending, Quiet
<1>2. CASE s.pending = "borrowing"
  <2>1. PICK b \in BOOLEAN :
          r = [s EXCEPT !.pending = "none", !.cleanupWorker = b, !.cleanupLease = s.cleanupLease]
    <3>1. \/ r = [s EXCEPT !.pending = "none"]
          \/ r = [s EXCEPT !.pending = "none", !.cleanupWorker = TRUE, !.cleanupLease = s.cleanupLease]
      BY <1>2 DEF DiscardPending
    <3>2. [s EXCEPT !.pending = "none"] =
            [s EXCEPT !.pending = "none", !.cleanupWorker = s.cleanupWorker,
                      !.cleanupLease = s.cleanupLease]
      BY DEF Slot
    <3> QED
      BY <3>1, <3>2 DEF Slot
  <2>2. /\ r.worker = s.worker /\ r.runtimeLease = s.runtimeLease
        /\ r.cleanupLease = s.cleanupLease /\ r.pending = "none" /\ r.lostLease = s.lostLease
    BY <2>1 DEF Slot
  <2>3. r \in Slot
    BY <2>1 DEF Slot, Pendings
  <2>4. SlotGuard(r)
    BY <1>2, <2>2 DEF SlotGuard, Locks, Count
  <2> QED
    BY <2>2, <2>3, <2>4 DEF Quiet
<1>3. CASE s.pending = "owning"
  <2>1. CASE r = [s EXCEPT !.pending = "none", !.cleanupWorker = TRUE,
                           !.cleanupLease = "held"]
    <3>1. /\ r.worker = s.worker /\ r.runtimeLease = s.runtimeLease
          /\ r.cleanupLease = "held" /\ r.pending = "none" /\ r.lostLease = s.lostLease
      BY <2>1 DEF Slot
    <3>2. r \in Slot
      BY <2>1 DEF Slot, Pendings, Leases
    <3>3. SlotGuard(r)
      BY <1>3, <3>1 DEF SlotGuard, Locks, Count
    <3> QED
      BY <3>1, <3>2, <3>3 DEF Quiet
  <2>2. CASE \E l \in Release("held") :
               r = [s EXCEPT !.pending = "none", !.cleanupLease = l]
    <3>1. PICK l \in Release("held") : r = [s EXCEPT !.pending = "none", !.cleanupLease = l]
      BY <2>2
    <3>2. l \in Leases
      BY <3>1, ReleaseType DEF Leases
    <3>3. /\ r.worker = s.worker /\ r.runtimeLease = s.runtimeLease
          /\ r.cleanupWorker = s.cleanupWorker /\ r.cleanupLease = l
          /\ r.pending = "none" /\ r.lostLease = s.lostLease
      BY <3>1 DEF Slot
    <3>4. r \in Slot
      BY <3>1, <3>2 DEF Slot, Pendings
    <3>5. SlotGuard(r)
      BY <1>3, <3>3 DEF SlotGuard, Locks, Count
    <3> QED
      BY <3>3, <3>4, <3>5 DEF Quiet
  <2> QED
    BY <1>3, <2>1, <2>2 DEF DiscardPending
<1> QED
  BY <1>1, <1>2, <1>3 DEF Slot, Pendings

(* An activation publishes the pending worker or discards it.               *)
THEOREM ActivatePendingQuiet ==
  ASSUME NEW s \in Slot, SlotGuard(s), NEW r \in ActivatePending(s)
  PROVE  Quiet(r)
<1>1. CASE s.pending = "none"
  BY <1>1 DEF ActivatePending, Quiet
<1>2. CASE s.pending # "none" /\ r = Publish(s)
  <2>1. /\ r.worker = "ready" /\ r.pending = "none"
        /\ r.runtimeLease = IF s.pending = "owning" THEN "held" ELSE s.runtimeLease
        /\ r.cleanupWorker = s.cleanupWorker /\ r.cleanupLease = s.cleanupLease
        /\ r.lostLease = s.lostLease
    BY <1>2 DEF Publish, Slot
  <2>2. /\ s.generation + Count(s.worker # "none") \in Nat /\ s.serial + 1 \in Nat
        /\ (IF s.pending = "owning" THEN "held" ELSE s.runtimeLease) \in Leases
    BY DEF Count, Slot, Leases
  <2>3. r \in Slot
    BY <1>2, <2>2, Zenon DEF Publish, Slot, Pendings, Phases
  <2>4. SlotGuard(r)
    BY <1>2, <2>1 DEF SlotGuard, Locks, Count, Slot, Pendings
  <2> QED
    BY <2>1, <2>3, <2>4 DEF Quiet
<1>3. CASE s.worker # "none" /\ r \in DiscardPending([s EXCEPT !.worker = "closing"])
  <2>1. [s EXCEPT !.worker = "closing"] \in Slot /\ SlotGuard([s EXCEPT !.worker = "closing"])
    BY <1>3 DEF Slot, Phases, SlotGuard, Locks, Count
  <2> QED
    BY <1>3, <2>1, DiscardPendingQuiet
<1> QED
  BY <1>1, <1>2, <1>3 DEF ActivatePending

-----------------------------------------------------------------------------
(* What they do to the history of a slot.                                   *)

(* The members that tell one worker from the next, and the options that the *)
(* account and its two processes have.                                      *)
SameWorker(s, r) ==
  /\ r.worker = s.worker /\ r.generation = s.generation /\ r.serial = s.serial
  /\ r.config = s.config /\ r.workerConfig = s.workerConfig
  /\ r.pendingConfig = s.pendingConfig

(* The worker left or its Close failed; the options and the count of        *)
(* published workers stay.                                                  *)
WorkerLeft(s, r) ==
  /\ r.serial = s.serial /\ r.config = s.config
  /\ r.workerConfig = s.workerConfig /\ r.pendingConfig = s.pendingConfig
  /\ \/ s.worker = "none" /\ r.worker = "none" /\ r.generation = s.generation
     \/ s.worker # "none" /\ r.worker = "none" /\ r.generation = s.generation + 1
     \/ s.worker # "none" /\ r.worker = "closing" /\ r.generation = s.generation

(* Every worker had a generation of its own.                                *)
OneWorker(s) == s.serial = s.generation + Count(s.worker # "none")

(* No release of a lease has failed.                                        *)
Released(s) == s.runtimeLease # "stuck" /\ s.cleanupLease # "stuck"

(* The first of the four attempts moves the worker.                         *)
LEMMA CloseWorkerLeft ==
  ASSUME NEW s, Quiet(s), NEW r \in CloseWorker(s)
  PROVE  /\ WorkerLeft(s, r)
         /\ Released(s) => Released(r)
         /\ ~CloseMayFail => r.worker = "none"
<1>1. CASE s.worker = "none"
  BY <1>1 DEF CloseWorker, WorkerLeft
<1>2. CASE s.worker # "none" /\ r = [s EXCEPT !.worker = "none", !.generation = s.generation + 1]
  BY <1>2 DEF WorkerLeft, Released, Quiet, Slot
<1>3. CASE s.worker # "none" /\ CloseMayFail /\ r = [s EXCEPT !.worker = "closing"]
  BY <1>3 DEF WorkerLeft, Released, Quiet, Slot
<1> QED
  BY <1>1, <1>2, <1>3 DEF CloseWorker

(* The other three do not.                                                  *)
LEMMA CloseCleanupSame ==
  ASSUME NEW s, Quiet(s), NEW r \in CloseCleanup(s)
  PROVE  /\ SameWorker(s, r)
         /\ Released(s) => Released(r)
         /\ ~CloseMayFail => ~r.cleanupWorker
<1>1. CASE r = [s EXCEPT !.cleanupWorker = FALSE]
  BY <1>1 DEF SameWorker, Released, Quiet, Slot
<1>2. CASE CloseMayFail /\ r = s
  BY <1>2 DEF SameWorker
<1> QED
  BY <1>1, <1>2 DEF CloseCleanup

(* Releasing the leases of a worker that is gone concerns no other.         *)
LEMMA ReleaseCleanupSame ==
  ASSUME NEW s, Quiet(s), NEW r \in ReleaseCleanup(s)
  PROVE  /\ SameWorker(s, r) /\ r.cleanupWorker = s.cleanupWorker
         /\ ~ReleaseMayFail /\ Released(s) =>
              Released(r) /\ (~s.cleanupWorker => r.cleanupLease = "none")
<1>1. CASE s.cleanupWorker
  BY <1>1 DEF ReleaseCleanup, SameWorker
<1>2. CASE ~s.cleanupWorker
  <2>1. PICK l \in Release(s.cleanupLease) : r = [s EXCEPT !.cleanupLease = l]
    BY <1>2 DEF ReleaseCleanup
  <2>2. /\ SameWorker(s, r) /\ r.cleanupWorker = s.cleanupWorker
        /\ r.cleanupLease = l /\ r.runtimeLease = s.runtimeLease
    BY <2>1 DEF SameWorker, Quiet, Slot
  <2>3. ~ReleaseMayFail /\ Released(s) => l = "none"
    BY <2>1 DEF Release, Released, Quiet, Slot, Leases
  <2> QED
    BY <2>2, <2>3 DEF Released
<1> QED
  BY <1>1, <1>2

(* Releasing the lease of the last worker leaves the slot empty.            *)
LEMMA ReleaseRuntimeSame ==
  ASSUME NEW s, Quiet(s), NEW r \in ReleaseRuntime(s)
  PROVE  /\ SameWorker(s, r) /\ r.cleanupWorker = s.cleanupWorker
         /\ r.cleanupLease = s.cleanupLease
         /\ ~ReleaseMayFail /\ Released(s) =>
              /\ Released(r)
              /\ s.worker = "none" /\ ~s.cleanupWorker /\ s.cleanupLease = "none" =>
                   r.runtimeLease = "none"
<1>1. CASE ~(s.worker = "none" /\ ~s.cleanupWorker /\ s.cleanupLease = "none")
  BY <1>1 DEF ReleaseRuntime, SameWorker
<1>2. CASE s.worker = "none" /\ ~s.cleanupWorker /\ s.cleanupLease = "none"
  <2>1. PICK l \in Release(s.runtimeLease) : r = [s EXCEPT !.runtimeLease = l]
    BY <1>2 DEF ReleaseRuntime
  <2>2. /\ SameWorker(s, r) /\ r.cleanupWorker = s.cleanupWorker
        /\ r.cleanupLease = s.cleanupLease /\ r.runtimeLease = l
    BY <2>1 DEF SameWorker, Quiet, Slot
  <2>3. ~ReleaseMayFail /\ Released(s) => l = "none"
    BY <2>1 DEF Release, Released, Quiet, Slot, Leases
  <2> QED
    BY <2>2, <2>3 DEF Released
<1> QED
  BY <1>1, <1>2

(* closeAccountWorker: the generation counts the workers that left, and     *)
(* nothing remains if nothing fails.                                        *)
THEOREM CloseAccountWorkerLeft ==
  ASSUME NEW s, Quiet(s), NEW r \in CloseAccountWorker(s)
  PROVE  /\ WorkerLeft(s, r)
         /\ ~ReleaseMayFail /\ Released(s) => Released(r) /\ (~CloseMayFail => Empty(r))
<1> DEFINE closed    == UNION {CloseCleanup(c) : c \in CloseWorker(s)}
           unguarded == UNION {ReleaseCleanup(c) : c \in closed}
<1>1. PICK u \in unguarded : \E c \in ReleaseRuntime(u) : r = Settle(c)
  BY DEF CloseAccountWorker
<1>2. PICK c3 \in ReleaseRuntime(u) : r = Settle(c3)
  BY <1>1
<1>3. PICK c2 \in closed : u \in ReleaseCleanup(c2)
  BY <1>1
<1>4. PICK c1 \in CloseWorker(s) : c2 \in CloseCleanup(c1)
  BY <1>3
<1> HIDE DEF closed, unguarded
<1>5. Quiet(c1) /\ Quiet(c2) /\ Quiet(u) /\ Quiet(c3)
  BY <1>2, <1>3, <1>4, CloseWorkerQuiet, CloseCleanupQuiet, ReleaseCleanupQuiet,
     ReleaseRuntimeQuiet
<1>6. /\ WorkerLeft(s, c1) /\ (Released(s) => Released(c1))
      /\ ~CloseMayFail => c1.worker = "none"
  BY CloseWorkerLeft
<1>7. /\ SameWorker(c1, c2) /\ (Released(c1) => Released(c2))
      /\ ~CloseMayFail => ~c2.cleanupWorker
  BY <1>4, <1>5, CloseCleanupSame
<1>8. /\ SameWorker(c2, u) /\ u.cleanupWorker = c2.cleanupWorker
      /\ ~ReleaseMayFail /\ Released(c2) =>
           Released(u) /\ (~c2.cleanupWorker => u.cleanupLease = "none")
  BY <1>3, <1>5, ReleaseCleanupSame
<1>9. /\ SameWorker(u, c3) /\ c3.cleanupWorker = u.cleanupWorker
      /\ c3.cleanupLease = u.cleanupLease
      /\ ~ReleaseMayFail /\ Released(u) =>
           /\ Released(c3)
           /\ u.worker = "none" /\ ~u.cleanupWorker /\ u.cleanupLease = "none" =>
                c3.runtimeLease = "none"
  BY <1>2, <1>5, ReleaseRuntimeSame
<1>10. /\ SameWorker(c3, r) /\ (Released(c3) => Released(r)) /\ (Empty(c3) => Empty(r))
  BY <1>2, <1>5 DEF Settle, SameWorker, Released, Empty, Quiet, Slot
<1>11. WorkerLeft(s, c3) /\ WorkerLeft(s, r)
  BY <1>6, <1>7, <1>8, <1>9, <1>10 DEF WorkerLeft, SameWorker
<1>12. ~ReleaseMayFail /\ Released(s) => Released(r) /\ (~CloseMayFail => Empty(c3))
  BY <1>6, <1>7, <1>8, <1>9, <1>10 DEF SameWorker, Empty
<1> QED
  BY <1>10, <1>11, <1>12

(* A launch records the options it starts with.                             *)
LEMMA LaunchRecords ==
  ASSUME NEW s \in Slot
  PROVE  LET r == Launch(s) IN
         /\ r.worker = s.worker /\ r.generation = s.generation /\ r.serial = s.serial
         /\ r.config = s.config /\ r.workerConfig = s.workerConfig
         /\ r.pendingConfig = s.config /\ r.pending # "none"
         /\ Released(s) => Released(r)
BY DEF Launch, Released, Slot

(* A preparer that is given up leaves the worker alone.                     *)
LEMMA AbortLaunchSame ==
  ASSUME NEW s \in Slot, NEW r \in AbortLaunch(s)
  PROVE  /\ SameWorker(s, r) /\ r.pending = "none"
         /\ Released(s) => Released(r)
         /\ Empty(s) => Empty(r)
BY AbortLaunchShape DEF SameWorker, Released, Empty

(* discardAccountWorker leaves the published worker alone.                  *)
LEMMA DiscardPendingSame ==
  ASSUME NEW s \in Slot, NEW r \in DiscardPending(s)
  PROVE  /\ SameWorker(s, r) /\ r.pending = "none"
         /\ ~ReleaseMayFail /\ Released(s) => Released(r)
         /\ s.pending = "none" => r = s
<1>1. CASE s.pending = "none"
  BY <1>1 DEF DiscardPending, SameWorker
<1>2. CASE s.pending # "none" /\ r = [s EXCEPT !.pending = "none"]
  BY <1>2 DEF SameWorker, Released, Slot
<1>3. CASE s.pending # "none" /\ \E l \in Release("held") :
             r = [s EXCEPT !.pending = "none", !.cleanupLease = l]
  <2>1. PICK l \in Release("held") : r = [s EXCEPT !.pending = "none", !.cleanupLease = l]
    BY <1>3
  <2>2. ~ReleaseMayFail => l = "none"
    BY <2>1 DEF Release
  <2> QED
    BY <1>3, <2>1, <2>2 DEF SameWorker, Released, Slot
<1>4. CASE s.pending # "none" /\ \E l \in {"held", s.cleanupLease} :
             r = [s EXCEPT !.pending = "none", !.cleanupWorker = TRUE, !.cleanupLease = l]
  <2>1. PICK l \in {"held", s.cleanupLease} :
          r = [s EXCEPT !.pending = "none", !.cleanupWorker = TRUE, !.cleanupLease = l]
    BY <1>4
  <2> QED
    BY <1>4, <2>1 DEF SameWorker, Released, Slot
<1> QED
  BY <1>1, <1>2, <1>3, <1>4 DEF DiscardPending

(* An activation publishes the next worker with the options of its launch,  *)
(* or gives it up with the one it should have replaced.                     *)
THEOREM ActivatePendingEffect ==
  ASSUME NEW s \in Slot, NEW r \in ActivatePending(s)
  PROVE  /\ ~ReleaseMayFail /\ Released(s) => Released(r)
         /\ r.pending = "none" /\ r.config = s.config
         /\ \/ r = s
            \/ /\ s.pending # "none" /\ r.worker = "ready" /\ r.serial = s.serial + 1
               /\ r.generation = s.generation + Count(s.worker # "none")
               /\ r.workerConfig = s.pendingConfig
            \/ /\ s.worker # "none" /\ r.worker = "closing" /\ r.generation = s.generation
               /\ r.serial = s.serial /\ r.workerConfig = s.workerConfig
<1>1. CASE s.pending = "none"
  BY <1>1 DEF ActivatePending
<1>2. CASE s.pending # "none" /\ r = Publish(s)
  <2>1. s.generation + Count(s.worker # "none") \in Nat /\ s.serial + 1 \in Nat
    BY DEF Count, Slot
  <2> QED
    BY <1>2, <2>1, Zenon DEF Publish, Released, Slot
<1>3. CASE s.worker # "none" /\ r \in DiscardPending([s EXCEPT !.worker = "closing"])
  <2> DEFINE c == [s EXCEPT !.worker = "closing"]
  <2>1. c \in Slot /\ c.worker = "closing" /\ c.generation = s.generation
        /\ c.serial = s.serial /\ c.config = s.config /\ c.workerConfig = s.workerConfig
        /\ (Released(s) => Released(c))
    BY DEF Slot, Phases, Released
  <2> HIDE DEF c
  <2>2. SameWorker(c, r) /\ r.pending = "none" /\ (~ReleaseMayFail /\ Released(c) => Released(r))
    BY <1>3, <2>1, DiscardPendingSame DEF c
  <2> QED
    BY <1>3, <2>1, <2>2 DEF SameWorker
<1> QED
  BY <1>1, <1>2, <1>3 DEF ActivatePending

-----------------------------------------------------------------------------
(* What is left over.                                                       *)

(* A warm account has something, and no pending worker is left over, for a  *)
(* cleanup or as a stray, unless closing it may fail.                       *)
Tidy(s) ==
  /\ s.warm => ~Empty(s)
  /\ ~CloseMayFail => ~s.cleanupWorker /\ ~s.stray

(* closeAccountWorker takes the mark of a warm account with the last of it. *)
LEMMA CloseTidy ==
  ASSUME NEW s, Quiet(s), Tidy(s), NEW r \in CloseAccountWorker(s)
  PROVE  Tidy(r)
<1> DEFINE closed    == UNION {CloseCleanup(c) : c \in CloseWorker(s)}
           unguarded == UNION {ReleaseCleanup(c) : c \in closed}
<1>1. PICK u \in unguarded : \E c \in ReleaseRuntime(u) : r = Settle(c)
  BY DEF CloseAccountWorker
<1>2. PICK c3 \in ReleaseRuntime(u) : r = Settle(c3)
  BY <1>1
<1>3. PICK c1 \in closed : u \in ReleaseCleanup(c1)
  BY <1>1
<1>4. PICK c0 \in CloseWorker(s) : c1 \in CloseCleanup(c0)
  BY <1>3
<1> HIDE DEF closed, unguarded
<1>5. Quiet(c0) /\ Quiet(c1) /\ Quiet(u) /\ Quiet(c3)
  BY <1>2, <1>3, <1>4, CloseWorkerQuiet, CloseCleanupQuiet, ReleaseCleanupQuiet,
     ReleaseRuntimeQuiet
<1>6. (~CloseMayFail => ~c1.cleanupWorker) /\ c1.stray = s.stray
  <2>1. (~CloseMayFail => ~c1.cleanupWorker) /\ c1.stray = c0.stray
    BY <1>4, <1>5 DEF CloseCleanup, Quiet, Slot
  <2>2. c0.stray = s.stray
    BY DEF CloseWorker, Quiet, Slot
  <2> QED
    BY <2>1, <2>2
<1>7. u.cleanupWorker = c1.cleanupWorker /\ u.stray = c1.stray
  BY <1>3, <1>5 DEF ReleaseCleanup, Quiet, Slot
<1>8. c3.cleanupWorker = u.cleanupWorker /\ c3.stray = u.stray
  BY <1>2, <1>5 DEF ReleaseRuntime, Quiet, Slot
<1>9. CASE Empty(c3)
  BY <1>2, <1>5, <1>6, <1>7, <1>8, <1>9 DEF Settle, Tidy, Quiet, Slot
<1>10. CASE ~Empty(c3)
  BY <1>2, <1>6, <1>7, <1>8, <1>10 DEF Settle, Tidy
<1> QED
  BY <1>9, <1>10

(* A preparer that is started, given up or discarded.                       *)
LEMMA PreparerTidy ==
  ASSUME NEW s \in Slot, SlotGuard(s), Tidy(s),
         NEW r \in {Launch(s)} \cup AbortLaunch(s) \cup DiscardPending(s)
  PROVE  Tidy(r)
<1>1. CASE r = Launch(s)
  BY <1>1 DEF Launch, Tidy, Empty, Slot
<1>2. CASE r \in AbortLaunch(s)
  BY <1>2, AbortLaunchShape DEF Tidy, Empty
<1>3. CASE s.pending = "none" /\ r = s
  BY <1>3
<1>4. CASE r = [s EXCEPT !.pending = "none"]
  BY <1>4 DEF Tidy, Empty, Slot
<1>5. CASE s.pending = "owning" /\ \E l \in Release("held") :
             r = [s EXCEPT !.pending = "none", !.cleanupLease = l]
  <2>1. s.cleanupLease = "none"
    BY <1>5 DEF SlotGuard, Locks, Count
  <2> QED
    BY <1>5, <2>1 DEF Tidy, Empty, Slot
<1>6. CASE CloseMayFail /\ \E l \in {"held", s.cleanupLease} :
             r = [s EXCEPT !.pending = "none", !.cleanupWorker = TRUE, !.cleanupLease = l]
  BY <1>6 DEF Tidy, Empty, Slot
<1> QED
  BY <1>1, <1>2, <1>3, <1>4, <1>5, <1>6 DEF DiscardPending

(* An activation.                                                           *)
LEMMA ActivateTidy ==
  ASSUME NEW s \in Slot, SlotGuard(s), Tidy(s), NEW r \in ActivatePending(s)
  PROVE  Tidy(r)
<1>1. CASE s.pending = "none"
  BY <1>1 DEF ActivatePending
<1>2. CASE s.pending # "none" /\ r = Publish(s)
  <2>1. r.worker = "ready" /\ r.cleanupWorker = s.cleanupWorker /\ r.stray = s.stray
    BY <1>2 DEF Publish, Slot
  <2> QED
    BY <2>1 DEF Tidy, Empty
<1>3. CASE CloseMayFail /\ s.worker # "none" /\ r \in DiscardPending([s EXCEPT !.worker = "closing"])
  <2> DEFINE c == [s EXCEPT !.worker = "closing"]
  <2>1. c \in Slot /\ c.worker = "closing"
    BY DEF Slot, Phases
  <2> HIDE DEF c
  <2>2. r.worker = "closing"
    BY <1>3, <2>1, DiscardPendingSame DEF c, SameWorker
  <2> QED
    BY <1>3, <2>2 DEF Tidy, Empty
<1> QED
  BY <1>1, <1>2, <1>3 DEF ActivatePending

=============================================================================
