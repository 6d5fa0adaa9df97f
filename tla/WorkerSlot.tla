----------------------------- MODULE WorkerSlot -----------------------------
(***************************************************************************)
(* One account's accountWorker record (internal/app/runtime.go) and the     *)
(* functions that rewrite it while its mutexes are held: the launch of a    *)
(* pending WAA worker, its activation or discard, and closeAccountWorker.   *)
(*                                                                         *)
(* Each function is an operator from a slot to the SET of slots it may      *)
(* leave behind: closing a browser and unlocking a file lease can fail, and *)
(* the error paths decide who keeps the process and who keeps the lease.    *)
(***************************************************************************)
EXTENDS Naturals

CONSTANTS
  CloseMayFail,     (* NativeWorker.Close may return an error.             *)
  ReleaseMayFail    (* The Release of a lease may return an error.         *)

ASSUME FailureAssumption ==
  /\ CloseMayFail \in BOOLEAN
  /\ ReleaseMayFail \in BOOLEAN

(***************************************************************************)
(* worker: the phase of the published process ("ready" stands for READY and *)
(* BUSY, which every reader treats alike; "closing" is what a failed Close  *)
(* leaves).  pending: the process of the accountWorkerPreparer between its  *)
(* launch and its activation, "owning" when the preparer took the runtime   *)
(* lease itself.  A lease is "stuck" once its one Unlock failed: Release    *)
(* runs under a sync.Once and only repeats the error.  lostLease: the file  *)
(* lock of an aborted launch whose Unlock failed, which nothing refers to.  *)
(* stray: a browser of a failed launch that did not close, which nothing    *)
(* refers to either.                                                        *)
(* config: the version of the account's committed worker options;           *)
(* pendingConfig and workerConfig: the versions the processes started with. *)
(* serial: history, the number of workers published so far.                 *)
(***************************************************************************)
Phases == {"none", "ready", "failed", "closing"}
Leases == {"none", "held", "stuck"}
Pendings == {"none", "borrowing", "owning"}

Slot == [worker : Phases, cleanupWorker : BOOLEAN, pending : Pendings,
         runtimeLease : Leases, cleanupLease : Leases, lostLease : BOOLEAN,
         stray : BOOLEAN,
         warm : BOOLEAN, generation : Nat, serial : Nat,
         config : Nat, pendingConfig : Nat, workerConfig : Nat]

NewSlot == [worker |-> "none", cleanupWorker |-> FALSE, pending |-> "none",
            runtimeLease |-> "none", cleanupLease |-> "none",
            lostLease |-> FALSE, stray |-> FALSE, warm |-> FALSE,
            generation |-> 0, serial |-> 0, config |-> 0,
            pendingConfig |-> 0, workerConfig |-> 0]

-----------------------------------------------------------------------------
(* What the code asks of a slot.                                            *)

(* Nothing is left: no process and no lease.                                *)
Empty(s) ==
  /\ s.worker = "none"
  /\ ~s.cleanupWorker
  /\ s.runtimeLease = "none"
  /\ s.cleanupLease = "none"

CleanupPending(s) ==
  \/ s.cleanupWorker
  \/ s.cleanupLease # "none"
  \/ s.worker = "none" /\ s.runtimeLease # "none"
  \/ s.worker = "closing"

Count(b) == IF b THEN 1 ELSE 0

(* What occupiedWorkers charges beside processes.                           *)
RuntimeLeaseLeft(s) == s.worker = "none" /\ ~s.cleanupWorker /\ s.runtimeLease # "none"
CleanupLeaseLeft(s) == ~s.cleanupWorker /\ s.cleanupLease # "none"

-----------------------------------------------------------------------------
(* closeAccountWorker, in the order of its four attempts.                   *)

Release(lease) ==
  CASE lease = "none"  -> {"none"}
    [] lease = "held"  -> {"none"} \cup (IF ReleaseMayFail THEN {"stuck"} ELSE {})
    [] lease = "stuck" -> {"stuck"}

(* A close that forgets the generation, and one that counts it down.        *)
CloseWorkerSameGeneration(s) ==
  IF s.worker = "none" THEN {s} ELSE {[s EXCEPT !.worker = "none"]}
CloseWorkerCountsDown(s) ==
  IF s.worker = "none" THEN {s}
  ELSE {[s EXCEPT !.worker = "none", !.generation = @ - 1]}

CloseWorker(s) ==
  IF s.worker = "none" THEN {s}
  ELSE {[s EXCEPT !.worker = "none", !.generation = @ + 1]}
       \cup (IF CloseMayFail THEN {[s EXCEPT !.worker = "closing"]} ELSE {})

CloseCleanup(s) ==
  {[s EXCEPT !.cleanupWorker = FALSE]} \cup (IF CloseMayFail THEN {s} ELSE {})

ReleaseCleanup(s) ==
  IF s.cleanupWorker THEN {s}
  ELSE {[s EXCEPT !.cleanupLease = l] : l \in Release(s.cleanupLease)}

(* A release that does not ask whether the processes are gone.              *)
ReleaseRuntimeAlways(s) ==
  {[s EXCEPT !.runtimeLease = l] : l \in Release(s.runtimeLease)}

ReleaseRuntime(s) ==
  IF s.worker = "none" /\ ~s.cleanupWorker /\ s.cleanupLease = "none"
  THEN {[s EXCEPT !.runtimeLease = l] : l \in Release(s.runtimeLease)}
  ELSE {s}

Settle(s) == IF Empty(s) THEN [s EXCEPT !.warm = FALSE] ELSE s

CloseAccountWorker(s) ==
  LET closed    == UNION {CloseCleanup(c) : c \in CloseWorker(s)}
      unguarded == UNION {ReleaseCleanup(c) : c \in closed}
  IN  {Settle(r) : r \in UNION {ReleaseRuntime(c) : c \in unguarded}}

-----------------------------------------------------------------------------
(* A preparer: launched, then activated, discarded or aborted.              *)

(* The runtime lease file can be locked unless this process already does.   *)
LeaseFree(s) == s.runtimeLease # "none" \/ ~s.lostLease

Launch(s) ==
  [s EXCEPT !.pending = IF s.runtimeLease = "none" THEN "owning" ELSE "borrowing",
            !.pendingConfig = s.config]

(* newWAAWorker failed: an error of closing the browser is ignored, in      *)
(* launchBrowser and in Worker.abort, and so is one of releasing the        *)
(* launch's own lease.                                                      *)
AbortLaunch(s) ==
  LET ended == IF s.pending = "owning"
               THEN {[s EXCEPT !.pending = "none", !.lostLease = (l = "stuck")]
                       : l \in Release("held")}
               ELSE {[s EXCEPT !.pending = "none"]}
  IN  ended \cup (IF CloseMayFail THEN {[e EXCEPT !.stray = TRUE] : e \in ended} ELSE {})

DiscardPending(s) ==
  LET owns == s.pending = "owning"
      kept == [s EXCEPT !.pending = "none", !.cleanupWorker = TRUE,
                        !.cleanupLease = IF owns THEN "held" ELSE @]
      gone == IF owns
              THEN {[s EXCEPT !.pending = "none", !.cleanupLease = l]
                      : l \in Release("held")}
              ELSE {[s EXCEPT !.pending = "none"]}
  IN  IF s.pending = "none" THEN {s}
      ELSE gone \cup (IF CloseMayFail THEN {kept} ELSE {})

Publish(s) ==
  [s EXCEPT !.worker = "ready", !.pending = "none",
            !.runtimeLease = IF s.pending = "owning" THEN "held" ELSE @,
            !.generation = @ + Count(s.worker # "none"),
            !.warm = TRUE, !.serial = @ + 1,
            !.workerConfig = s.pendingConfig]

ActivatePending(s) ==
  IF s.pending = "none" THEN {s}
  ELSE {Publish(s)}
       \cup (IF CloseMayFail /\ s.worker # "none"
             THEN DiscardPending([s EXCEPT !.worker = "closing"]) ELSE {})

-----------------------------------------------------------------------------
(* Who guards the browser profile of the account: the processes somebody    *)
(* can still close, and the locks of its runtime lease.                     *)

Processes(s) ==
  Count(s.worker # "none") + Count(s.cleanupWorker) + Count(s.pending # "none")

Locks(s) ==
  Count(s.runtimeLease # "none") + Count(s.cleanupLease # "none")
  + Count(s.pending = "owning") + Count(s.lostLease)
=============================================================================
