---------------------------- MODULE DispatchQueue ----------------------------
(***************************************************************************)
(* The requests that wait for a slot on a warm worker (internal/app:        *)
(* dispatch.go and acquireWarmLease in runtime.go).  A request looks for a  *)
(* slot, and joins the queue of its kind when there is none; only the head  *)
(* of a queue is woken, by whoever makes a slot free, through a channel     *)
(* that keeps one signal.                                                   *)
(*                                                                         *)
(* Workers announce their changes to the queues themselves; the account     *)
(* pool closes a channel, and forwardPoolChanges passes that on.            *)
(***************************************************************************)
EXTENDS Naturals, Sequences, SequencesExt

CONSTANTS
  Requests,
  Keys,          (* dispatchKey: kinds of interchangeable requests         *)
  Key,           (* the kind of each request                               *)
  Slots          (* bound: slots of all the workers there may be           *)

ASSUME DispatchAssumption ==
  Key \in [Requests -> Keys] /\ Slots \in Nat \ {0}

VARIABLES
  pc,            (* per request: where acquireWarmLease is                 *)
  queues,        (* per kind: its waiters in order of arrival              *)
  wake,          (* per request: a signal is in its waiter's channel       *)
  free,          (* slots that can be leased                               *)
  slots,         (* slots of the running workers                           *)
  announcing,    (* a worker has changed, and wakeHeads is still to come   *)
  forwarder,     (* forwardPoolChanges: "fetching" the pool's channel,     *)
                 (* "listening" to it, or "waking" the heads               *)
  missed         (* the pool changed while the forwarder held no channel,  *)
                 (* and the heads have not been woken since                *)

vars == <<pc, queues, wake, free, slots, announcing, forwarder, missed>>

Init ==
  /\ pc = [r \in Requests |-> "idle"]
  /\ queues = [k \in Keys |-> <<>>]
  /\ wake = [r \in Requests |-> FALSE]
  /\ slots \in 0..Slots /\ free = slots
  /\ announcing = FALSE
  /\ forwarder = "fetching"
  /\ missed = FALSE

-----------------------------------------------------------------------------
(* dispatchQueue, each operation under its mutex.                           *)

Queue(r) == queues[Key[r]]
Queued(r) == Contains(Queue(r), r)
Goto(r, label) == pc' = [pc EXCEPT ![r] = label]

Join(r) ==
  /\ queues' = [queues EXCEPT ![Key[r]] = Append(@, r)]
  /\ wake' = [wake EXCEPT ![Head(Append(Queue(r), r))] = TRUE]

(* A request that was served or gives up; its waiter ends with it.          *)
LeaveUnsignalled(r) ==
  /\ queues' = [queues EXCEPT ![Key[r]] = RemoveFirst(@, r)]
  /\ wake' = [wake EXCEPT ![r] = FALSE]

LeaveHead(r) ==
  /\ queues' = [queues EXCEPT ![Key[r]] = IF @ = <<>> THEN @ ELSE Tail(@)]
  /\ wake' = [wake EXCEPT ![r] = FALSE]

Leave(r) ==
  LET others == RemoveFirst(Queue(r), r)
      next == Queued(r) /\ Head(Queue(r)) = r /\ others # <<>>
  IN  /\ queues' = [queues EXCEPT ![Key[r]] = others]
      /\ wake' = [q \in Requests |->
                    IF q = r THEN FALSE ELSE wake[q] \/ (next /\ q = Head(others))]

Heads == {Head(queues[k]) : k \in {k \in Keys : queues[k] # <<>>}}

WakeHeads ==
  /\ wake' = [r \in Requests |-> wake[r] \/ r \in Heads]
  /\ missed' = FALSE

-----------------------------------------------------------------------------
(* acquireWarmLease.                                                        *)

Ask(r) ==
  /\ pc[r] = "idle"
  /\ Goto(r, "looking")
  /\ UNCHANGED <<queues, wake, free, slots, announcing, forwarder, missed>>

(* ClassifyCandidates and TryAcquireFor: a slot is leased, whoever waits    *)
(* for one; otherwise the request waits, in the queue.                      *)
Look(r) ==
  /\ pc[r] = "looking"
  /\ \/ free > 0 /\ free' = free - 1 /\ Goto(r, "served")
     \/ free = 0 /\ UNCHANGED free /\ Goto(r, IF Queued(r) THEN "waiting" ELSE "joining")
  /\ UNCHANGED <<queues, wake, slots, announcing, forwarder, missed>>

Enter(r) ==
  /\ pc[r] = "joining"
  /\ Join(r)
  /\ Goto(r, "waiting")
  /\ UNCHANGED <<free, slots, announcing, forwarder, missed>>

(* waitScheduling: a signal, the recheck interval, or the end of the        *)
(* request's context.                                                       *)
Woken(r) ==
  /\ pc[r] = "waiting" /\ wake[r]
  /\ wake' = [wake EXCEPT ![r] = FALSE]
  /\ Goto(r, "looking")
  /\ UNCHANGED <<queues, free, slots, announcing, forwarder, missed>>

RecheckHeardOnly(r) == Woken(r)

Recheck(r) ==
  /\ pc[r] = "waiting"
  /\ Goto(r, "looking")
  /\ UNCHANGED <<queues, wake, free, slots, announcing, forwarder, missed>>

(* Seen while waiting, or at the head of the loop.                          *)
GiveUp(r) ==
  /\ pc[r] \in {"waiting", "looking"}
  /\ Goto(r, "leaving")
  /\ UNCHANGED <<queues, wake, free, slots, announcing, forwarder, missed>>

(* The deferred leave.                                                      *)
Return(r) ==
  /\ \/ pc[r] = "served" /\ Goto(r, "holding")
     \/ pc[r] = "leaving" /\ Goto(r, "idle")
  /\ Leave(r)
  /\ UNCHANGED <<free, slots, announcing, forwarder, missed>>

-----------------------------------------------------------------------------
(* What makes slots free.                                                   *)

(* AccountPool.notifyLocked.                                                *)
NotifyPool ==
  /\ forwarder' = IF forwarder = "listening" THEN "waking" ELSE forwarder
  /\ missed' = (missed \/ forwarder = "fetching")

(* AccountLease.Release.                                                    *)
Release(r) ==
  /\ pc[r] = "holding"
  /\ Goto(r, "idle")
  /\ free' = free + 1
  /\ NotifyPool
  /\ UNCHANGED <<queues, wake, slots, announcing>>

Fetch ==
  /\ forwarder = "fetching"
  /\ forwarder' = "listening"
  /\ UNCHANGED <<pc, queues, wake, free, slots, announcing, missed>>

Forward ==
  /\ forwarder = "waking"
  /\ forwarder' = "fetching"
  /\ WakeHeads
  /\ UNCHANGED <<pc, queues, free, slots, announcing>>

(* A worker becomes ready, then notifyScheduling.                           *)
WorkerReady ==
  /\ slots < Slots
  /\ slots' = slots + 1
  /\ free' = free + 1
  /\ announcing' = TRUE
  /\ UNCHANGED <<pc, queues, wake, forwarder, missed>>

NotifyScheduling ==
  /\ announcing
  /\ announcing' = FALSE
  /\ WakeHeads
  /\ UNCHANGED <<pc, queues, free, slots, forwarder>>

(* An idle worker is stopped.                                               *)
WorkerStops ==
  /\ free > 0
  /\ slots' = slots - 1
  /\ free' = free - 1
  /\ UNCHANGED <<pc, queues, wake, announcing, forwarder, missed>>

-----------------------------------------------------------------------------
Proceeds(r) ==
  Look(r) \/ Enter(r) \/ Woken(r) \/ Recheck(r) \/ Return(r) \/ Release(r)

Passes == Fetch \/ Forward \/ NotifyScheduling

Next ==
  \/ \E r \in Requests : Ask(r) \/ Proceeds(r) \/ GiveUp(r)
  \/ Passes \/ WorkerReady \/ WorkerStops

Spec == Init /\ [][Next]_vars

(* Requests and their holders go on, and the recheck timer runs.            *)
FairSpec == Spec /\ WF_vars(Passes) /\ \A r \in Requests : WF_vars(Proceeds(r))

-----------------------------------------------------------------------------
(* Properties.                                                              *)

(* Types, and: a queue holds each waiting request once, in the queue of its *)
(* kind, and none that has returned or not joined yet.                      *)
TypeOK ==
  /\ pc \in [Requests -> {"idle", "looking", "joining", "waiting", "served", "leaving", "holding"}]
  /\ queues \in [Keys -> Seq(Requests)]
  /\ wake \in [Requests -> BOOLEAN]
  /\ slots \in 0..Slots /\ free \in 0..slots
  /\ announcing \in BOOLEAN /\ missed \in BOOLEAN
  /\ forwarder \in {"fetching", "listening", "waking"}
  /\ \A k \in Keys : IsInjective(queues[k])
  /\ \A r \in Requests, k \in Keys :
       /\ pc[r] = "waiting" /\ k = Key[r] => Contains(queues[k], r)
       /\ pc[r] \in {"idle", "joining", "holding"} \/ k # Key[r] => ~Contains(queues[k], r)

(* A slot that has become free is not overlooked: the head of every queue   *)
(* is about to look for it, has a signal, or will be sent one, except after *)
(* a change of the pool that forwardPoolChanges missed between two fetches. *)
HeadHears ==
  free > 0 =>
    \A r \in Heads :
      \/ pc[r] # "waiting" \/ wake[r]
      \/ announcing \/ forwarder = "waking" \/ missed

(* A slot that stays free does not stay unused while requests wait, the     *)
(* missed changes and signals of requests that give up included.            *)
SlotUsed ==
  \A k \in Keys :
    free > 0 /\ queues[k] # <<>> ~> free = 0 \/ queues[k] = <<>>
=============================================================================
