----------------------------- MODULE WorkerPool -----------------------------
(***************************************************************************)
(* The accountWorkerManager of internal/app/runtime.go: which accounts own  *)
(* a WAA worker process, who may start, replace or stop it, and the locks   *)
(* these operations take: rebalanceMu, each account's startupMu, and the    *)
(* shared and exclusive leases of the AccountPool.                          *)
(*                                                                         *)
(* A task is one goroutine.  A step of the model is a stretch of code the   *)
(* other tasks cannot observe half-done; a task's pc names the call it is   *)
(* about to make or is blocked in.  account.mu is only ever held across     *)
(* code that is one step here, so it needs no variable.                     *)
(***************************************************************************)
EXTENDS WorkerSlot, FiniteSets

CONSTANTS
  Accounts,
  Tasks,
  Ops,          (* the operations tasks may run, a subset of AllOps        *)
  None,         (* no account, no task                                     *)
  MaxActive,    (* MAX_ACTIVE_WORKERS                                      *)
  WarmTarget,   (* WARM_WORKER_LIMIT                                       *)
  PerAccount,   (* PER_ACCOUNT_CONCURRENCY                                 *)
  ModelsChange, (* the live catalog may move an account's bootstrap model  *)
  MaxSerial,    (* bound: workers published per account                    *)
  MaxConfig     (* bound: account updates committed per account            *)

(* "serve" is a request that calls Worker on a leased account, "promote"    *)
(* one that first ensures its worker in acquireWarmLease.                   *)
AllOps == {"serve", "promote", "expand", "prewarm", "reap",
           "reset", "update", "remove", "close"}

ASSUME PoolAssumption ==
  /\ IsFiniteSet(Accounts) /\ IsFiniteSet(Tasks)
  /\ None \notin Accounts \cup Tasks
  /\ Ops \subseteq AllOps
  /\ MaxActive \in Nat \ {0} /\ WarmTarget \in 1..MaxActive
  /\ PerAccount \in Nat \ {0} /\ ModelsChange \in BOOLEAN /\ MaxSerial \in Nat /\ MaxConfig \in Nat

VARIABLES
  pc, op, acct,   (* per task: next call, operation, its account          *)
  victim,         (* per task: the worker it wants to evict                *)
  swap,           (* per task: ensureWorker runs its replacement branch    *)
  seen,           (* per task: the generation read with its lease and, as  *)
                  (* history, the serial of the worker it was given        *)
  cancelled,      (* tasks whose context is cancelled                      *)
  pooled,         (* accounts the AccountPool knows                        *)
  sharers,        (* per account: tasks holding a shared lease             *)
  exclusive,      (* per account: the holder of the exclusive lease        *)
  waiters,        (* per account: tasks inside AcquireAccount              *)
  registered,     (* accounts the manager knows                            *)
  closed,         (* manager.closed                                        *)
  rebalance,      (* holder of rebalanceMu across steps                    *)
  openings,       (* per account: the task that is opening its worker      *)
  victims,        (* accounts reserved for replacement                     *)
  startup,        (* per account: holder of startupMu across steps         *)
  slot,           (* per account: its accountWorker                        *)
  todo            (* accounts Close has still to shut down                 *)

taskVars == <<pc, op, acct, victim, swap, seen>>
poolVars == <<pooled, sharers, exclusive, waiters>>
mgrVars  == <<registered, closed, rebalance, openings, victims, todo>>
workVars == <<startup, slot>>
vars == <<taskVars, cancelled, poolVars, mgrVars, workVars>>

Unseen == [generation |-> 0, serial |-> 0]

Init ==
  /\ pc = [t \in Tasks |-> "idle"]
  /\ op = [t \in Tasks |-> "none"]
  /\ acct = [t \in Tasks |-> None]
  /\ victim = [t \in Tasks |-> None]
  /\ swap = [t \in Tasks |-> FALSE]
  /\ seen = [t \in Tasks |-> Unseen]
  /\ cancelled = {}
  /\ pooled = Accounts
  /\ sharers = [a \in Accounts |-> {}]
  /\ exclusive = [a \in Accounts |-> None]
  /\ waiters = [a \in Accounts |-> {}]
  /\ registered = Accounts
  /\ closed = FALSE
  /\ rebalance = None
  /\ openings = [a \in Accounts |-> None]
  /\ victims = {}
  /\ startup = [a \in Accounts |-> None]
  /\ slot = [a \in Accounts |-> NewSlot]
  /\ todo = {}

-----------------------------------------------------------------------------
(* What the operations read.                                                *)

(* ensureWorker callers that wait for another task's opening and for room.  *)
Waits(t) == op[t] \in {"serve", "prewarm"}
(* ensureWorker callers that hold a shared lease on their account.          *)
Leased(t) == op[t] \in {"serve", "promote"}

UsableThoughClosed(a) == a \in registered
Usable(a) == a \in registered /\ ~closed
Ready(a) == slot[a].worker = "ready"
(* readyWorker's test that the resident worker is not the one to use: it is *)
(* not ready, or it started with another bootstrap model than the one the   *)
(* call has read.  The models are not followed: with ModelsChange any ready *)
(* worker may be found outdated.                                            *)
Outdated(a) == ~Ready(a) \/ ModelsChange
Warm == {a \in registered : slot[a].warm}

(* Activity: the pool reports the account as in use.                        *)
Busy(a) ==
  /\ a \in pooled
  /\ exclusive[a] # None \/ waiters[a] \cup sharers[a] # {}

(* AcquireAccount may take the account.                                     *)
FreeOfExclusive(a) == exclusive[a] = None
Free(a) == exclusive[a] = None /\ sharers[a] = {}

Occupied == {a \in registered :
               \/ ~Empty(slot[a])
               \/ openings[a] # None}
(* occupiedWorkers: the slots it charges for processes, and for leases that *)
(* are left without one.                                                    *)
ResidentSlots ==
  Cardinality({a \in registered : slot[a].worker # "none"})
  + Cardinality({a \in registered : slot[a].cleanupWorker})
  + Cardinality({a \in registered : RuntimeLeaseLeft(slot[a])})
  + Cardinality({a \in registered : CleanupLeaseLeft(slot[a])})
ChargedSlots ==
  ResidentSlots + Cardinality({a \in Accounts : openings[a] # None})

(* idleWarmVictimFor: recency and cooldowns only rank the candidates, so    *)
(* any of them may be the one it returns.                                   *)
IdleWarm(exclude) ==
  {v \in Warm \ (victims \cup {exclude}) :
     ~CleanupPending(slot[v]) /\ ~Busy(v)}

-----------------------------------------------------------------------------
(* Shared endings.                                                          *)

Goto(t, label) == pc' = [pc EXCEPT ![t] = label]

(* The task returns: its deferred calls drop its leases and reservations.   *)
Finish(t) ==
  /\ Goto(t, "idle")
  /\ op' = [op EXCEPT ![t] = "none"]
  /\ acct' = [acct EXCEPT ![t] = None]
  /\ victim' = [victim EXCEPT ![t] = None]
  /\ swap' = [swap EXCEPT ![t] = FALSE]
  /\ seen' = [seen EXCEPT ![t] = Unseen]
  /\ cancelled' = cancelled \ {t}
  /\ sharers' = [a \in Accounts |-> sharers[a] \ {t}]
  /\ waiters' = [a \in Accounts |-> waiters[a] \ {t}]
  /\ exclusive' = [a \in Accounts |-> IF exclusive[a] = t THEN None ELSE exclusive[a]]
  /\ UNCHANGED pooled

(* ensureWorker returned the worker with this serial.  A promoted request   *)
(* reads the generation and asks for the worker of its lease; a serving one *)
(* uses it; a background expansion or a prewarm task is done.               *)
Deliver(t, serial) ==
  IF ~Leased(t) THEN Finish(t)
  ELSE /\ op' = [op EXCEPT ![t] = "serve"]
       /\ Goto(t, IF op[t] = "serve" THEN "serving" ELSE "loop")
       /\ seen' = [seen EXCEPT ![t] =
            [generation |-> IF op[t] = "serve" THEN seen[t].generation
                            ELSE slot'[acct[t]].generation,
             serial |-> serial]]
       /\ victim' = [victim EXCEPT ![t] = None]
       /\ swap' = [swap EXCEPT ![t] = FALSE]
       /\ UNCHANGED <<acct, cancelled, poolVars>>

Begin(t, o, a, label) ==
  /\ pc[t] = "idle" /\ o \in Ops
  /\ op' = [op EXCEPT ![t] = o]
  /\ acct' = [acct EXCEPT ![t] = a]
  /\ seen' = [seen EXCEPT ![t].generation = IF a = None THEN 0 ELSE slot[a].generation]
  /\ Goto(t, label)
  /\ UNCHANGED <<swap, cancelled>>

-----------------------------------------------------------------------------
(* ensureWorker: the callers.                                               *)

(* A leased caller has taken a shared slot of its account (TryAcquireFor). *)
BeginLeased(t, a, o) ==
  /\ o \in {"serve", "promote"}
  /\ Begin(t, o, a, "loop")
  /\ a \in pooled
  /\ exclusive[a] = None /\ waiters[a] = {} /\ Cardinality(sharers[a]) < PerAccount
  /\ \A u \in sharers[a] : pc[u] # "reauth"
  /\ sharers' = [sharers EXCEPT ![a] = @ \cup {t}]
  /\ UNCHANGED <<victim, pooled, exclusive, waiters, mgrVars, workVars>>

(* expandInBackground, under the conditions acquireWarmLease tests before  *)
(* it: the account is a standby (not usable as it is, idle, not opening),  *)
(* another worker can serve the model but is busy, and either a slot is    *)
(* free or some third, cooling worker could be evicted.                    *)
BeginExpand(t, a) ==
  /\ Begin(t, "expand", a, "loop")
  /\ a \in pooled /\ ~Ready(a) /\ ~Busy(a) /\ openings[a] = None
  /\ \E u \in Warm \ {a} :
       /\ Ready(u)
       /\ Cardinality(Warm) < MaxActive \/ IdleWarm(None) \ {a, u} # {}
  /\ UNCHANGED <<victim, poolVars, mgrVars, workVars>>

(* fillWarm starts one Worker call per cold, idle account it picks.         *)
BeginPrewarm(t, a) ==
  /\ Begin(t, "prewarm", a, "loop")
  /\ a \in pooled \ Warm /\ ~Busy(a)
  /\ ~closed /\ Cardinality(Warm) < WarmTarget
  /\ UNCHANGED <<victim, poolVars, mgrVars, workVars>>

(* The request's client leaves, its deadline passes, ResetAll cancels the   *)
(* background context, or Stop cancels the service context.                 *)
Cancel(t) ==
  /\ pc[t] \notin {"idle", "serving", "reauth"} /\ t \notin cancelled
  /\ op[t] \in {"serve", "promote", "expand", "prewarm", "update"}
  /\ cancelled' = cancelled \cup {t}
  /\ UNCHANGED <<taskVars, poolVars, mgrVars, workVars>>

-----------------------------------------------------------------------------
(* ensureWorker: one pass of its outer loop, under rebalanceMu.  The        *)
(* context is tested just before the lock; a cancellation after that test   *)
(* is one after the whole pass, which does not look at the context.         *)

InLoop(t) == pc[t] = "loop" /\ t \notin cancelled /\ rebalance = None

EnsureCancelled(t) ==
  /\ pc[t] \in {"loop", "await"} /\ t \in cancelled
  /\ Finish(t)
  /\ UNCHANGED <<mgrVars, workVars>>

(* Somebody is opening this account: wait for it or leave.                  *)
EnsureOpening(t) ==
  /\ InLoop(t) /\ openings[acct[t]] # None
  /\ IF Waits(t)
     THEN /\ Goto(t, "await")
          /\ UNCHANGED <<op, acct, victim, swap, seen, cancelled, poolVars>>
     ELSE Finish(t)
  /\ UNCHANGED <<mgrVars, workVars>>

EnsureResume(t) ==
  /\ pc[t] = "await" /\ openings[acct[t]] = None
  /\ Goto(t, "loop")
  /\ UNCHANGED <<op, acct, victim, swap, seen, cancelled, poolVars, mgrVars, workVars>>

(* readyWorker: an error, or the resident worker.                           *)
EnsureRefused(t) ==
  /\ InLoop(t) /\ openings[acct[t]] = None
  /\ ~Usable(acct[t]) \/ CleanupPending(slot[acct[t]])
  /\ Finish(t)
  /\ UNCHANGED <<mgrVars, workVars>>

EnsureReady(t) ==
  /\ InLoop(t) /\ openings[acct[t]] = None
  /\ Usable(acct[t]) /\ ~CleanupPending(slot[acct[t]]) /\ Ready(acct[t])
  /\ UNCHANGED <<mgrVars, workVars>>
  /\ Deliver(t, slot[acct[t]].serial)

MustStart(t) ==
  /\ InLoop(t) /\ openings[acct[t]] = None
  /\ Usable(acct[t]) /\ ~CleanupPending(slot[acct[t]]) /\ Outdated(acct[t])

HasRoomForOneMore(t) == acct[t] \in Occupied \/ ChargedSlots <= MaxActive
HasRoom(t) == acct[t] \in Occupied \/ ChargedSlots < MaxActive

Open(t) ==
  /\ openings' = [openings EXCEPT ![acct[t]] = t]
  /\ Goto(t, "starting")

EnsureSlot(t) ==
  /\ MustStart(t) /\ HasRoom(t)
  /\ Open(t)
  /\ UNCHANGED <<op, acct, victim, swap, seen, cancelled, poolVars,
                 registered, closed, rebalance, victims, todo, workVars>>

(* At capacity: reserve an idle worker and start the replacement first.     *)
EnsureSwap(t) ==
  /\ MustStart(t) /\ ~HasRoom(t)
  /\ \E v \in IdleWarm(acct[t]) :
       /\ victim' = [victim EXCEPT ![t] = v]
       /\ victims' = victims \cup {v}
  /\ swap' = [swap EXCEPT ![t] = TRUE]
  /\ Open(t)
  /\ UNCHANGED <<op, acct, seen, cancelled, poolVars,
                 registered, closed, rebalance, todo, workVars>>

(* No victim: while something is opening only cooling workers qualify.  A   *)
(* waiting caller polls, which is this task staying in its loop.            *)
EnsureNoRoom(t) ==
  /\ MustStart(t) /\ ~HasRoom(t) /\ ~Waits(t)
  /\ IdleWarm(acct[t]) = {} \/ \E a \in Accounts : openings[a] # None
  /\ Finish(t)
  /\ UNCHANGED <<mgrVars, workVars>>

-----------------------------------------------------------------------------
(* startReservedWorker.                                                     *)

StartingOn(t, a) == pc[t] = "starting" /\ acct[t] = a

(* Refused before or after startupMu is taken, or the runtime lease is with *)
(* another process, or locking its file failed.                             *)
StartRefused(t, a) ==
  /\ StartingOn(t, a)
  /\ \/ ~Usable(a)
     \/ startup[a] = None /\ CleanupPending(slot[a])
     \/ startup[a] = None /\ Outdated(a) /\ slot[a].runtimeLease = "none"
  /\ Goto(t, "startFailed")
  /\ UNCHANGED <<op, acct, victim, swap, seen, cancelled, poolVars, mgrVars, workVars>>

(* The worker became ready meanwhile: the preparer is not a pending one.    *)
StartFound(t, a) ==
  /\ StartingOn(t, a) /\ startup[a] = None
  /\ Usable(a) /\ ~CleanupPending(slot[a]) /\ Ready(a)
  /\ Goto(t, "started")
  /\ seen' = [seen EXCEPT ![t].serial = slot[a].serial]
  /\ UNCHANGED <<op, acct, victim, swap, cancelled, poolVars, mgrVars, workVars>>

(* The runtime lease is held and newWAAWorker runs, under startupMu.        *)
StartLaunch(t, a) ==
  /\ StartingOn(t, a) /\ startup[a] = None
  /\ Usable(a) /\ ~CleanupPending(slot[a]) /\ Outdated(a) /\ LeaseFree(slot[a])
  /\ startup' = [startup EXCEPT ![a] = t]
  /\ slot' = [slot EXCEPT ![a] = Launch(@)]
  /\ Goto(t, "launching")
  /\ UNCHANGED <<op, acct, victim, swap, seen, cancelled, poolVars, mgrVars>>

LaunchSucceeds(t, a) ==
  /\ pc[t] = "launching" /\ acct[t] = a /\ slot[a].serial < MaxSerial
  /\ Goto(t, "started")
  /\ UNCHANGED <<op, acct, victim, swap, seen, cancelled, poolVars, mgrVars, workVars>>

LaunchFails(t, a) ==
  /\ pc[t] = "launching" /\ acct[t] = a
  /\ \E s \in AbortLaunch(slot[a]) : slot' = [slot EXCEPT ![a] = s]
  /\ startup' = [startup EXCEPT ![a] = None]
  /\ Goto(t, "startFailed")
  /\ UNCHANGED <<op, acct, victim, swap, seen, cancelled, poolVars, mgrVars>>

-----------------------------------------------------------------------------
(* ensureWorker: after the start, again under rebalanceMu.                  *)

(* finishOpening, the deferred releaseVictim and the unlock.                *)
CloseOpening(t) ==
  /\ openings' = [openings EXCEPT ![acct[t]] = None]
  /\ victims' = victims \ {victim[t]}
  /\ rebalance' = None
  /\ UNCHANGED <<registered, closed, todo>>

(* activateAccountWorker and discardAccountWorker end with startupMu free.  *)
UnlockStartup(t, a) ==
  startup' = [startup EXCEPT ![a] = IF @ = t THEN None ELSE @]

DiscardKeepsStartup(t) ==
  /\ \E s \in DiscardPending(slot[acct[t]]) : slot' = [slot EXCEPT ![acct[t]] = s]
  /\ UNCHANGED startup
  /\ Finish(t)

Discard(t) ==
  LET a == acct[t] IN
  /\ \E s \in DiscardPending(slot[a]) : slot' = [slot EXCEPT ![a] = s]
  /\ UnlockStartup(t, a)
  /\ Finish(t)

Activate(t) ==
  LET a == acct[t] IN
  \E s \in IF Usable(a) \/ slot[a].pending = "none"
           THEN ActivatePending(slot[a]) ELSE DiscardPending(slot[a]) :
    /\ slot' = [slot EXCEPT ![a] = s]
    /\ UnlockStartup(t, a)
    /\ IF slot[a].pending = "none" THEN Deliver(t, seen[t].serial)
       ELSE IF s.serial # slot[a].serial THEN Deliver(t, s.serial)
       ELSE Finish(t)

OpenFailsUnfinished(t) ==
  /\ pc[t] = "startFailed" /\ rebalance = None
  /\ Finish(t)
  /\ UNCHANGED <<mgrVars, workVars>>

OpenFails(t) ==
  /\ pc[t] = "startFailed" /\ rebalance = None
  /\ CloseOpening(t) /\ Finish(t)
  /\ UNCHANGED workVars

OpenCancelled(t) ==
  /\ pc[t] = "started" /\ rebalance = None /\ t \in cancelled
  /\ CloseOpening(t) /\ Discard(t)

OpenSucceeds(t) ==
  /\ pc[t] = "started" /\ ~swap[t] /\ rebalance = None /\ t \notin cancelled
  /\ CloseOpening(t) /\ Activate(t)

(* The replacement branch keeps rebalanceMu while it evicts the victim, the *)
(* one it reserved or, after a failed attempt, any idle one it finds now.   *)
SwapEvict(t) ==
  /\ pc[t] = "started" /\ swap[t] /\ rebalance = None /\ t \notin cancelled
  /\ \E v \in IF victim[t] = None THEN IdleWarm(acct[t]) ELSE {victim[t]} :
       /\ victim' = [victim EXCEPT ![t] = v]
       /\ victims' = victims \cup {v}
  /\ rebalance' = t
  /\ Goto(t, "evictAsk")
  /\ UNCHANGED <<op, acct, swap, seen, cancelled, poolVars,
                 registered, closed, openings, todo, workVars>>

-----------------------------------------------------------------------------
(* evictIdleWorker, called with rebalanceMu held: an exclusive lease within *)
(* 100ms, Reset, and the release of the lease.                              *)

(* AcquireAccount counts its caller; until then a request may still lease   *)
(* the victim, which was idle when it was chosen.                           *)
EvictAsks(t, v) ==
  /\ pc[t] = "evictAsk" /\ victim[t] = v
  /\ IF v \in pooled
     THEN waiters' = [waiters EXCEPT ![v] = @ \cup {t}]
     ELSE UNCHANGED waiters
  /\ Goto(t, "evict")
  /\ UNCHANGED <<op, acct, victim, swap, seen, cancelled, pooled, sharers,
                 exclusive, mgrVars, workVars>>

ContextDone(t) == t \in cancelled \/ (closed /\ op[t] = "reap")

LeavePool(t, a) ==
  /\ waiters' = [waiters EXCEPT ![a] = @ \ {t}]
  /\ UNCHANGED <<pooled, sharers>>

EvictAcquire(t, v) ==
  /\ pc[t] = "evict" /\ victim[t] = v /\ ~ContextDone(t)
  /\ v \in pooled /\ Free(v)
  /\ exclusive' = [exclusive EXCEPT ![v] = t]
  /\ LeavePool(t, v)
  /\ Goto(t, "evicting")
  /\ UNCHANGED <<op, acct, victim, swap, seen, cancelled, mgrVars, workVars>>

(* The 100ms are over: the reservation is dropped and another victim sought *)
EvictLate(t, v) ==
  /\ pc[t] = "evict" /\ victim[t] = v /\ swap[t] /\ ~ContextDone(t)
  /\ LeavePool(t, v)
  /\ victims' = victims \ {v}
  /\ victim' = [victim EXCEPT ![t] = None]
  /\ rebalance' = None
  /\ Goto(t, "started")
  /\ UNCHANGED <<op, acct, swap, seen, cancelled, exclusive,
                 registered, closed, openings, todo, workVars>>

(* The account is gone, the context is done, or its lease file or runtime   *)
(* state could not be read.                                                 *)
EvictRefused(t, v) ==
  /\ pc[t] = "evict" /\ victim[t] = v /\ swap[t]
  /\ LeavePool(t, v)
  /\ Goto(t, "evictFailed")
  /\ UNCHANGED <<op, acct, victim, swap, seen, cancelled, exclusive, mgrVars, workVars>>

(* The eviction fails with Reset, or with the release of its own lease.     *)
EvictReset(t, v) ==
  /\ pc[t] = "evicting" /\ victim[t] = v /\ swap[t]
  /\ IF v \in registered
     THEN /\ startup[v] = None
          /\ \E s \in CloseAccountWorker(slot[v]), l \in Release("held") :
               /\ slot' = [slot EXCEPT ![v] = s]
               /\ Goto(t, IF Empty(s) /\ l = "none" THEN "evicted" ELSE "evictFailed")
     ELSE Goto(t, "evictFailed") /\ UNCHANGED slot
  /\ exclusive' = [exclusive EXCEPT ![v] = None]
  /\ UNCHANGED <<op, acct, victim, swap, seen, cancelled, pooled, sharers, waiters,
                 mgrVars, startup>>

SwapPublish(t) ==
  /\ pc[t] = "evicted"
  /\ CloseOpening(t) /\ Activate(t)

SwapDiscard(t) ==
  /\ pc[t] = "evictFailed"
  /\ CloseOpening(t) /\ Discard(t)

(* reapIdleWorker: the same eviction for a worker idle for five minutes     *)
(* while nothing is opening and more than the warm target are resident.     *)
BeginReap(t, v) ==
  /\ Begin(t, "reap", None, "evictAsk")
  /\ rebalance = None /\ ~closed
  /\ \A a \in Accounts : openings[a] = None
  /\ Cardinality(Warm) > WarmTarget /\ v \in IdleWarm(None)
  /\ rebalance' = t
  /\ victim' = [victim EXCEPT ![t] = v]
  /\ UNCHANGED <<poolVars, registered, closed, openings, victims, todo, workVars>>

ReapEnds(t) ==
  /\ Finish(t)
  /\ rebalance' = None
  /\ UNCHANGED <<registered, closed, openings, victims, todo, startup>>

ReapGivesUp(t) ==
  /\ pc[t] = "evict" /\ op[t] = "reap"
  /\ ReapEnds(t)
  /\ UNCHANGED slot

ReapReset(t, v) ==
  /\ pc[t] = "evicting" /\ op[t] = "reap" /\ victim[t] = v
  /\ IF v \in registered
     THEN /\ startup[v] = None
          /\ \E s \in CloseAccountWorker(slot[v]) : slot' = [slot EXCEPT ![v] = s]
     ELSE UNCHANGED slot
  /\ ReapEnds(t)

-----------------------------------------------------------------------------
(* A request using its worker, and what its failures set off.               *)

ServeEnds(t) ==
  /\ pc[t] = "serving"
  /\ Finish(t)
  /\ UNCHANGED <<mgrVars, workVars>>

(* The request blames its worker: it releases its lease and, unless the     *)
(* generation has moved on (recoverWorkerOnce), asks for an exclusive one.  *)
ServeFails(t, a) ==
  /\ pc[t] = "serving" /\ acct[t] = a
  /\ slot[a].generation = seen[t].generation
  /\ sharers' = [sharers EXCEPT ![a] = @ \ {t}]
  /\ waiters' = [waiters EXCEPT ![a] = @ \cup {t}]
  /\ Goto(t, "recoverWait")
  /\ UNCHANGED <<op, acct, victim, swap, seen, cancelled, pooled, exclusive, mgrVars, workVars>>

(* HTTP 401: the login is renewed under the shared lease and commits with a *)
(* Reset, unless another request has renewed it already; then the request   *)
(* asks for the worker again.                                               *)
ServeUnauthorized(t) ==
  /\ pc[t] = "serving"
  /\ \E next \in {"loop", "reauth"} : Goto(t, next)
  /\ UNCHANGED <<op, acct, victim, swap, seen, cancelled, poolVars, mgrVars, workVars>>

(* Reset on an account: not found, or everything it owns is closed.         *)
ResetAccount(a) ==
  IF a \in registered
  THEN /\ startup[a] = None
       /\ \E s \in CloseAccountWorker(slot[a]) : slot' = [slot EXCEPT ![a] = s]
  ELSE UNCHANGED slot

Reauthorize(t, a) ==
  /\ pc[t] = "reauth" /\ acct[t] = a
  /\ ResetAccount(a)
  /\ IF a \in registered /\ Empty(slot'[a])
     THEN /\ Goto(t, "loop")
          /\ UNCHANGED <<op, acct, victim, swap, seen, cancelled, poolVars>>
     ELSE Finish(t)
  /\ UNCHANGED <<mgrVars, startup>>

(* A failing send marks the worker FAILED, even one a failed Close left     *)
(* CLOSING; a proof that completes afterwards marks it READY again.         *)
WorkerFails(a) ==
  /\ slot[a].worker \in {"ready", "closing"}
  /\ \E t \in sharers[a] : pc[t] = "serving"
  /\ slot' = [slot EXCEPT ![a].worker = "failed"]
  /\ UNCHANGED <<taskVars, cancelled, poolVars, mgrVars, startup>>

WorkerRecovers(a) ==
  /\ slot[a].worker = "failed"
  /\ \E t \in sharers[a] : pc[t] = "serving"
  /\ slot' = [slot EXCEPT ![a].worker = "ready"]
  /\ UNCHANGED <<taskVars, cancelled, poolVars, mgrVars, startup>>

-----------------------------------------------------------------------------
(* ResetIfGeneration, prepareUpdate: both wait for an exclusive lease.      *)

AcquireExclusive(t, a) ==
  /\ pc[t] \in {"recoverWait", "updateWait"} /\ acct[t] = a /\ t \notin cancelled
  /\ a \in pooled /\ Free(a)
  /\ exclusive' = [exclusive EXCEPT ![a] = t]
  /\ LeavePool(t, a)
  /\ Goto(t, IF pc[t] = "recoverWait" THEN "recovering" ELSE "updating")
  /\ UNCHANGED <<op, acct, victim, swap, seen, cancelled, mgrVars, workVars>>

AcquireGivesUp(t) ==
  /\ pc[t] \in {"recoverWait", "updateWait"}
  /\ t \in cancelled \/ acct[t] \notin pooled
  /\ Finish(t)
  /\ UNCHANGED <<mgrVars, workVars>>

RecoverReset(t, a) ==
  /\ pc[t] = "recovering" /\ acct[t] = a
  /\ IF a \in registered
     THEN /\ startup[a] = None
          /\ \E s \in IF slot[a].generation = seen[t].generation
                      THEN CloseAccountWorker(slot[a]) ELSE {slot[a]} :
               slot' = [slot EXCEPT ![a] = s]
     ELSE UNCHANGED slot
  /\ Finish(t)
  /\ UNCHANGED <<mgrVars, startup>>

BeginUpdate(t, a) ==
  /\ Begin(t, "update", a, "updateWait")
  /\ a \in pooled
  /\ waiters' = [waiters EXCEPT ![a] = @ \cup {t}]
  /\ UNCHANGED <<victim, pooled, sharers, exclusive, mgrVars, workVars>>

UpdatePrepareUnlocked(t, a) ==
  /\ pc[t] = "updating" /\ acct[t] = a
  /\ ResetAccount(a)
  /\ IF a \in registered /\ Empty(slot'[a])
     THEN /\ Goto(t, "saving")
          /\ UNCHANGED <<op, acct, victim, swap, seen, cancelled, poolVars>>
     ELSE Finish(t)
  /\ UNCHANGED <<mgrVars, startup>>

(* prepareUpdate closes the worker and keeps startupMu until the outcome.   *)
UpdatePrepare(t, a) ==
  /\ pc[t] = "updating" /\ acct[t] = a
  /\ ResetAccount(a)
  /\ IF a \in registered /\ Empty(slot'[a])
     THEN /\ startup' = [startup EXCEPT ![a] = t]
          /\ Goto(t, "saving")
          /\ UNCHANGED <<op, acct, victim, swap, seen, cancelled, poolVars>>
     ELSE Finish(t) /\ UNCHANGED startup
  /\ UNCHANGED mgrVars

(* The account file is saved and the new options published, or dropped.     *)
UpdateEnds(t, a) ==
  /\ pc[t] = "saving" /\ acct[t] = a
  /\ \/ /\ slot[a].config < MaxConfig
        /\ slot' = [slot EXCEPT ![a].config = @ + 1]
     \/ UNCHANGED slot
  /\ startup' = [startup EXCEPT ![a] = None]
  /\ Finish(t)
  /\ UNCHANGED mgrVars

-----------------------------------------------------------------------------
(* Reset by Stop (ResetAll runs one per account), DeleteAccount and Close.  *)

BeginReset(t, a) ==
  /\ Begin(t, "reset", a, "resetting")
  /\ a \in registered
  /\ UNCHANGED <<victim, poolVars, mgrVars, workVars>>

Reset(t, a) ==
  /\ pc[t] = "resetting" /\ acct[t] = a
  /\ ResetAccount(a)
  /\ Finish(t)
  /\ UNCHANGED <<mgrVars, startup>>

(* AccountPool.Remove claims an unused account and deletes it while its     *)
(* worker is stopped; only then does the manager forget it.                 *)
BeginRemove(t, a) ==
  /\ Begin(t, "remove", a, "removeReset")
  /\ a \in pooled /\ ~Busy(a)
  /\ exclusive' = [exclusive EXCEPT ![a] = t]
  /\ UNCHANGED <<victim, pooled, sharers, waiters, mgrVars, workVars>>

RemoveReset(t, a) ==
  /\ pc[t] = "removeReset" /\ acct[t] = a
  /\ ResetAccount(a)
  /\ \/ /\ a \in registered /\ Empty(slot'[a])
        /\ pooled' = pooled \ {a}
        /\ exclusive' = [exclusive EXCEPT ![a] = None]
        /\ Goto(t, "removing")
        /\ UNCHANGED <<op, acct, victim, swap, seen, cancelled, sharers, waiters>>
     \/ Finish(t)
  /\ UNCHANGED <<mgrVars, startup>>

RemoveUnregister(t, a) ==
  /\ pc[t] = "removing" /\ acct[t] = a /\ rebalance = None
  /\ registered' = registered \ {a}
  /\ Goto(t, "removeClose")
  /\ UNCHANGED <<op, acct, victim, swap, seen, cancelled, poolVars,
                 closed, rebalance, openings, victims, todo, workVars>>

RemoveClose(t, a) ==
  /\ pc[t] = "removeClose" /\ acct[t] = a /\ startup[a] = None
  /\ \E s \in CloseAccountWorker(slot[a]) : slot' = [slot EXCEPT ![a] = s]
  /\ Finish(t)
  /\ UNCHANGED <<mgrVars, startup>>

Ensuring == {"loop", "await", "starting", "launching", "started",
             "startFailed", "evictAsk", "evict", "evicting", "evicted", "evictFailed"}

BeginClose(t) ==
  /\ pc[t] = "idle" /\ "close" \in Ops /\ ~closed
  /\ op' = [op EXCEPT ![t] = "close"]
  /\ Goto(t, "closing")
  /\ closed' = TRUE
  /\ todo' = registered
  /\ cancelled' = cancelled \cup {u \in Tasks : pc[u] \in Ensuring /\ op[u] # "reap"}
  /\ UNCHANGED <<acct, victim, swap, seen, poolVars, registered, rebalance,
                 openings, victims, workVars>>

(* One goroutine per account, once prewarming has ended (waitPrewarm).      *)
CloseOne(t, a) ==
  /\ pc[t] = "closing" /\ a \in todo /\ startup[a] = None
  /\ \A u \in Tasks : op[u] # "prewarm"
  /\ \E s \in IF Empty(slot[a]) THEN {slot[a]} ELSE CloseAccountWorker(slot[a]) :
       slot' = [slot EXCEPT ![a] = s]
  /\ todo' = todo \ {a}
  /\ UNCHANGED <<taskVars, cancelled, poolVars, registered, closed, rebalance,
                 openings, victims, startup>>

CloseEnds(t) ==
  /\ pc[t] = "closing" /\ todo = {}
  /\ Finish(t)
  /\ UNCHANGED <<mgrVars, workVars>>

-----------------------------------------------------------------------------
(* What a task does without waiting for a lock or a lease, and what it does *)
(* once it gets one.                                                        *)

Begins(t) ==
  \/ BeginClose(t)
  \/ \E a \in Accounts :
       \/ \E o \in {"serve", "promote"} : BeginLeased(t, a, o)
       \/ BeginExpand(t, a) \/ BeginPrewarm(t, a) \/ BeginReap(t, a)
       \/ BeginUpdate(t, a) \/ BeginReset(t, a) \/ BeginRemove(t, a)

EnsureStep(t) ==
  \/ EnsureCancelled(t) \/ EnsureOpening(t) \/ EnsureResume(t)
  \/ EnsureRefused(t) \/ EnsureReady(t)
  \/ EnsureSlot(t) \/ EnsureSwap(t) \/ EnsureNoRoom(t)
  \/ \E a \in Accounts :
       \/ StartRefused(t, a) \/ StartFound(t, a) \/ StartLaunch(t, a)
       \/ LaunchSucceeds(t, a) \/ LaunchFails(t, a)
  \/ OpenFails(t) \/ OpenCancelled(t) \/ OpenSucceeds(t)
  \/ SwapEvict(t) \/ SwapPublish(t) \/ SwapDiscard(t)
  \/ \E v \in Accounts :
       \/ EvictAsks(t, v) \/ EvictAcquire(t, v) \/ EvictLate(t, v) \/ EvictRefused(t, v) \/ EvictReset(t, v)

ServeStep(t) ==
  \/ ServeEnds(t) \/ ServeUnauthorized(t)
  \/ \E a \in Accounts :
       ServeFails(t, a) \/ Reauthorize(t, a) \/ RecoverReset(t, a)

AdminStep(t) ==
  \/ AcquireGivesUp(t) \/ ReapGivesUp(t) \/ CloseEnds(t)
  \/ \E a \in Accounts :
       \/ ReapReset(t, a) \/ AcquireExclusive(t, a)
       \/ UpdatePrepare(t, a) \/ UpdateEnds(t, a) \/ Reset(t, a)
       \/ RemoveReset(t, a) \/ RemoveUnregister(t, a) \/ RemoveClose(t, a)
       \/ CloseOne(t, a)

Proceeds(t) == EnsureStep(t) \/ ServeStep(t) \/ AdminStep(t)

Next ==
  \/ \E t \in Tasks : Begins(t) \/ Cancel(t) \/ Proceeds(t)
  \/ \E a \in Accounts : WorkerFails(a) \/ WorkerRecovers(a)

Spec == Init /\ [][Next]_vars

(* Every goroutine keeps running, and Go's mutexes and the account pool's   *)
(* waiter count keep a blocked one from being overtaken for ever.           *)
FairSpec == Spec /\ \A t \in Tasks : SF_vars(Proceeds(t))

-----------------------------------------------------------------------------
(* Properties.                                                              *)

PCs == {"idle", "loop", "await", "starting", "launching", "startFailed",
        "started", "evictAsk", "evict", "evicting", "evicted", "evictFailed", "serving",
        "recoverWait", "recovering", "reauth", "updateWait", "updating",
        "saving", "resetting", "removeReset", "removing", "removeClose",
        "closing"}

TaskTypes ==
  /\ pc \in [Tasks -> PCs]
  /\ op \in [Tasks -> AllOps \cup {"none"}]
  /\ acct \in [Tasks -> Accounts \cup {None}]
  /\ victim \in [Tasks -> Accounts \cup {None}]
  /\ swap \in [Tasks -> BOOLEAN]
  /\ seen \in [Tasks -> [generation : Nat, serial : Nat]]
  /\ cancelled \subseteq Tasks

PoolTypes ==
  /\ pooled \subseteq Accounts
  /\ sharers \in [Accounts -> SUBSET Tasks]
  /\ exclusive \in [Accounts -> Tasks \cup {None}]
  /\ waiters \in [Accounts -> SUBSET Tasks]

ManagerTypes ==
  /\ registered \subseteq Accounts
  /\ closed \in BOOLEAN
  /\ rebalance \in Tasks \cup {None}
  /\ openings \in [Accounts -> Tasks \cup {None}]
  /\ victims \subseteq Accounts
  /\ todo \subseteq Accounts

WorkTypes ==
  /\ startup \in [Accounts -> Tasks \cup {None}]
  /\ slot \in [Accounts -> Slot]

(* The variables have the values the Go structures can hold.                *)
TypeOK == TaskTypes /\ PoolTypes /\ ManagerTypes /\ WorkTypes

(* Whatever close or release fails, and in whatever order launches,         *)
(* replacements, evictions and resets meet, a browser process the manager   *)
(* still refers to, published, unpublished or waiting for its cleanup, runs *)
(* only while this program locks the account's runtime lease, and it never  *)
(* locks that file twice.  Nothing is claimed of a stray: the browser of a  *)
(* failed launch that did not close runs on while the lease is released.    *)
ProfileGuarded ==
  \A a \in Accounts :
    /\ Processes(slot[a]) > 0 => Locks(slot[a]) > 0
    /\ Locks(slot[a]) <= 1

(* An unpublished process always belongs to the one task that holds the     *)
(* account's startupMu and opens that account: no error path, cancellation  *)
(* or shutdown strands it, its opening or its reserved victim.              *)
NothingStranded ==
  /\ \A a \in Accounts :
       /\ slot[a].pending # "none" =>
            /\ startup[a] # None /\ openings[a] = startup[a]
            /\ acct[startup[a]] = a
            /\ pc[startup[a]] \in Ensuring \ {"loop", "await", "starting", "startFailed"}
       /\ startup[a] # None => pc[startup[a]] # "idle"
       /\ openings[a] # None => pc[openings[a]] \in Ensuring \ {"loop", "await"}
  /\ \A v \in victims : \E t \in Tasks : victim[t] = v /\ pc[t] \in Ensuring

(* Once Close has returned, no registered account has a process or a lease  *)
(* and none comes back, although launches were in flight when it began.     *)
ClosedMeansEmpty ==
  closed /\ (\A t \in Tasks : op[t] # "close") =>
    \A a \in registered :
      Empty(slot[a]) /\ slot[a].pending = "none" /\ ~slot[a].stray

(* A worker that may serve runs the options of the last committed account   *)
(* update: no launch overlapping an update survives with the old ones.      *)
WorkerConfigCurrent ==
  \A a \in Accounts :
    slot[a].worker \in {"ready", "failed"} => slot[a].workerConfig = slot[a].config

(* The workers never outnumber the capacity limit, as long as every call    *)
(* holds the lease of its account.  (An "expand" or a "prewarm" call does   *)
(* not: the worker it retries in place may be evicted meanwhile.)           *)
Resident == Cardinality({a \in Accounts : slot[a].worker # "none"})
Replacing == Cardinality({t \in Tasks : swap[t]})
CapacityHeld == Resident <= MaxActive

(* Nor do all processes, unpublished, uncleaned and stray ones, but for one  *)
(* of each replacement under way and one of each worker that is             *)
(* replaced in place, if closes succeed.                                    *)
AllProcesses ==
  Resident + Cardinality({a \in Accounts : slot[a].cleanupWorker})
  + Cardinality({a \in Accounts : slot[a].pending # "none"})
  + Cardinality({a \in Accounts : slot[a].stray})
PeakHeld ==
  AllProcesses <= MaxActive + Replacing
    + Cardinality({a \in Accounts : slot[a].worker # "none" /\ slot[a].pending # "none"})

(* A worker that requests are using is never closed by an eviction, a       *)
(* generation recovery or an account update.                                *)
Using(a) == {t \in sharers[a] : pc[t] = "serving"}
UsersSpared ==
  [][\A a \in Accounts :
       slot[a].worker \in {"ready", "failed"} /\ slot'[a].worker \in {"none", "closing"} /\ Using(a) # {} =>
         \/ closed
         \/ \E t \in Tasks : acct[t] = a /\ pc[t] \in {"reauth", "resetting", "removeClose", "started", "evicted"}]_vars

(* A recovery stops the very worker the failed request was using, never one *)
(* published after it: equal generations mean the same worker.              *)
RecoveryOnTarget ==
  [][\A t \in Tasks, a \in Accounts :
       /\ pc[t] = "recovering" /\ pc'[t] = "idle" /\ acct[t] = a
       /\ slot[a].worker # "none" /\ slot'[a] # slot[a]
       => slot[a].serial = seen[t].serial]_vars

(* A cancelled ensureWorker call returns, whatever it was waiting for: an   *)
(* opening, a mutex, a launch or a victim.                                  *)
CancelledCallsReturn ==
  \A t \in Tasks :
    (t \in cancelled /\ pc[t] \in Ensuring) ~> (pc[t] \notin Ensuring)

(* No task holding rebalanceMu waits for a startupMu whose holder cannot    *)
(* release it before it gets rebalanceMu itself.                            *)
NoLockCycle ==
  \A t \in Tasks :
    pc[t] = "evicting" /\ victim[t] \in registered /\ startup[victim[t]] # None =>
      pc[startup[victim[t]]] # "started"
=============================================================================
