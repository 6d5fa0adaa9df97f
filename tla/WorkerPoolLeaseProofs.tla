------------------------ MODULE WorkerPoolLeaseProofs ------------------------
(***************************************************************************)
(* For any accounts, tasks, limits and failures: what the leases of the     *)
(* account pool and the generations of its workers protect.  A worker runs  *)
(* the committed options (WorkerConfigCurrent), is not closed under its     *)
(* users (UsersSpared), and a recovery stops the worker it was asked for    *)
(* (RecoveryOnTarget); if no close and no release fails, nothing is left    *)
(* after Close (ClosedMeansEmpty); and rebalanceMu and the startupMus form  *)
(* no cycle as long as every opening call holds a lease (NoLockCycle).      *)
(* Under the same condition the workers, and the processes beside those of  *)
(* replacements, stay within MaxActive (CapacityHeld, PeakHeld).            *)
(***************************************************************************)
EXTENDS WorkerPoolProofs, FiniteSetTheorems, FunctionTheorems

-----------------------------------------------------------------------------
(* The inductive invariant.                                                 *)

(* Where a leased call holds its shared lease.                              *)
Sharing == Ensuring \cup {"serving", "reauth"}

(* A task that is at a place reached only with a lease has that lease.      *)
HeldInv(t) ==
  /\ pc[t] = "evicting" => victim[t] \in Accounts /\ exclusive[victim[t]] = t
  /\ pc[t] \in {"recovering", "updating", "removeReset"} => exclusive[acct[t]] = t
  /\ Leased(t) /\ pc[t] \in Sharing => t \in sharers[acct[t]]
  /\ pc[t] \in Ensuring => op[t] \in {"serve", "promote", "expand", "prewarm", "reap"}
  /\ op[t] \in {"expand", "prewarm"} => op[t] \in Ops
  /\ pc[t] = "closing" => op[t] = "close" /\ closed

(* An exclusive lease excludes the shared ones.                             *)
LockInv(a) == exclusive[a] # None => sharers[a] = {}

(* The options of the processes and the holder of startupMu.                *)
SlotInv(a) ==
  /\ OneWorker(slot[a])
  /\ slot[a].worker # "none" => slot[a].workerConfig = slot[a].config
  /\ slot[a].pending # "none" => slot[a].pendingConfig = slot[a].config
  /\ startup[a] # None => IF pc[startup[a]] = "saving" THEN slot[a].worker = "none"
                          ELSE slot[a].pending # "none"
  /\ ~ReleaseMayFail => Released(slot[a])
  /\ Tidy(slot[a])

(* The task was given a worker published after it read the generation, and  *)
(* none after the current one.                                              *)
Delivered(t) ==
  /\ seen[t].generation < seen[t].serial
  /\ seen[t].serial <= slot[acct[t]].generation + 1

(* ensureWorker from the end of a successful start on.                      *)
Started == {"started", "evictAsk", "evict", "evicting", "evicted", "evictFailed"}

SeenInv(t) ==
  /\ Leased(t) => /\ acct[t] \in Accounts
                  /\ seen[t].generation <= slot[acct[t]].generation
  /\ pc[t] \in {"serving", "reauth", "recoverWait", "recovering"} => op[t] = "serve"
  /\ pc[t] \in {"serving", "recoverWait", "recovering"} => Delivered(t)
  /\ pc[t] \in Started /\ op[t] = "serve" /\ startup[acct[t]] # t => Delivered(t)

(* What Close has dealt with stays empty.                                   *)
Shut(a) == Empty(slot[a]) /\ slot[a].pending = "none"
ClosedInv ==
  /\ todo # {} => \E t \in Tasks : pc[t] = "closing"
  /\ closed /\ ~CloseMayFail /\ ~ReleaseMayFail => \A a \in registered \ todo : Shut(a)

UseInv ==
  /\ IInv
  /\ \A t \in Tasks : HeldInv(t) /\ SeenInv(t)
  /\ \A a \in Accounts : LockInv(a) /\ SlotInv(a)
  /\ ClosedInv

-----------------------------------------------------------------------------
(* How a step of a task changes the slots and the startupMus.               *)

(* Who runs closeAccountWorker on an account, and on what condition.        *)
MayClose(t, a) ==
  \/ pc[t] = "evicting" /\ victim[t] = a
  \/ pc[t] \in {"reauth", "resetting", "updating", "removeReset", "removeClose"} /\ acct[t] = a
  \/ pc[t] = "recovering" /\ acct[t] = a /\ slot[a].generation = seen[t].generation
  \/ pc[t] = "closing"

Closes(t, a) ==
  startup[a] = None /\ MayClose(t, a) /\ slot'[a] \in CloseAccountWorker(slot[a])

Prepares(t, a) ==
  /\ acct[t] = a
  /\ \/ /\ pc[t] = "starting" /\ startup[a] = None /\ Usable(a)
        /\ slot'[a] = Launch(slot[a])
     \/ pc[t] = "launching" /\ slot'[a] \in AbortLaunch(slot[a])
     \/ /\ pc[t] \in {"started", "evicted", "evictFailed"}
        /\ slot'[a] \in DiscardPending(slot[a])
     \/ /\ pc[t] \in {"started", "evicted"} /\ Usable(a)
        /\ slot'[a] \in ActivatePending(slot[a])

Saves(t, a) ==
  /\ pc[t] = "saving" /\ acct[t] = a
  /\ slot'[a] = [slot[a] EXCEPT !.config = slot[a].config + 1]

SlotMoves(t) ==
  \A a \in Accounts :
    slot'[a] = slot[a] \/ Closes(t, a) \/ Prepares(t, a) \/ Saves(t, a)

StartupMoves(t) ==
  \A a \in Accounts :
    \/ /\ startup'[a] = startup[a]
       /\ startup[a] = t => slot'[a] = slot[a] /\ (pc[t] = "saving" => pc'[t] = "saving")
    \/ startup[a] = t /\ startup'[a] = None
    \/ /\ startup[a] = None /\ startup'[a] = t
       /\ \/ pc'[t] = "launching" /\ slot'[a] = Launch(slot[a])
          \/ pc'[t] = "saving" /\ slot'[a].worker = "none"

Moves(t) == SlotMoves(t) /\ StartupMoves(t)

(* One slot changes.                                                        *)
LEMMA OneSlot ==
  ASSUME TypeOK, NEW a \in Accounts, NEW s, slot' = [slot EXCEPT ![a] = s]
  PROVE  slot'[a] = s /\ \A b \in Accounts \ {a} : slot'[b] = slot[b]
BY DEF TypeOK, WorkTypes

(* A step that leaves the slots and the mutexes alone.                      *)
LEMMA StillMoves ==
  ASSUME NEW t \in Tasks, UNCHANGED workVars, pc[t] = "saving" => pc'[t] = "saving"
  PROVE  Moves(t)
BY DEF Moves, SlotMoves, StartupMoves, workVars

(* A step that closes a slot whose mutex is free.                           *)
LEMMA CloseMoves ==
  ASSUME TypeOK, NEW t \in Tasks, NEW a \in Accounts, UNCHANGED startup,
         pc[t] # "saving", MayClose(t, a),
         \/ slot' = slot
         \/ startup[a] = None /\ \E s \in CloseAccountWorker(slot[a]) :
              slot' = [slot EXCEPT ![a] = s]
  PROVE  Moves(t)
<1> USE PoolAssumption
<1>1. CASE slot' = slot
  BY <1>1 DEF Moves, SlotMoves, StartupMoves
<1>2. CASE startup[a] = None /\ \E s \in CloseAccountWorker(slot[a]) :
             slot' = [slot EXCEPT ![a] = s]
  <2>1. slot'[a] \in CloseAccountWorker(slot[a]) /\ \A b \in Accounts \ {a} : slot'[b] = slot[b]
    BY <1>2, OneSlot
  <2>2. SlotMoves(t)
    BY <1>2, <2>1 DEF SlotMoves, Closes
  <2>3. StartupMoves(t)
    BY <1>2, <2>1 DEF StartupMoves, PoolAssumption
  <2> QED
    BY <2>2, <2>3 DEF Moves
<1> QED
  BY <1>1, <1>2

(* A step that ends the work on a slot gives its mutex back.                *)
LEMMA EndMoves ==
  ASSUME IInv, NEW t \in Tasks, NEW a \in Accounts, acct[t] = a,
         NEW s, slot' = [slot EXCEPT ![a] = s], UnlockStartup(t, a),
         s = slot[a] \/ (slot'[a] = s => Prepares(t, a) \/ Saves(t, a))
  PROVE  Moves(t)
<1> USE PoolAssumption
<1>1. slot'[a] = s /\ \A b \in Accounts \ {a} : slot'[b] = slot[b]
  BY OneSlot DEF IInv
<1>2. \A b \in Accounts : startup[b] = t => b = a
  BY DEF IInv, AccountInv, PoolAssumption
<1>3. SlotMoves(t)
  BY <1>1 DEF SlotMoves
<1>4. startup'[a] = (IF startup[a] = t THEN None ELSE startup[a])
      /\ \A b \in Accounts \ {a} : startup'[b] = startup[b]
  BY DEF UnlockStartup, IInv, TypeOK, WorkTypes
<1>5. StartupMoves(t)
  BY <1>2, <1>4 DEF StartupMoves
<1> QED
  BY <1>3, <1>5 DEF Moves

(* Beginning a call and giving up touch no slot.                            *)
LEMMA BeginsMove ==
  ASSUME IInv, NEW t \in Tasks, Begins(t) \/ Cancel(t)
  PROVE  Moves(t)
<1>1. UNCHANGED workVars
  BY DEF Begins, Cancel, BeginClose, BeginLeased, BeginExpand, BeginPrewarm, BeginReap,
     BeginUpdate, BeginReset, BeginRemove
<1>2. pc[t] = "saving" => pc'[t] = "saving"
  BY DEF Begins, Cancel, BeginClose, BeginLeased, BeginExpand, BeginPrewarm, BeginReap,
     BeginUpdate, BeginReset, BeginRemove, Begin, taskVars
<1> QED
  BY <1>1, <1>2, StillMoves

(* ensureWorker only closes its victim and launches under startupMu.        *)
LEMMA EnsureMoves ==
  ASSUME IInv, NEW t \in Tasks, EnsureStep(t)
  PROVE  Moves(t)
<1> USE PoolAssumption
<1>1. TypeOK /\ TaskInv(t)
  BY DEF IInv
<1>2. CASE \/ EnsureCancelled(t) \/ EnsureOpening(t) \/ EnsureResume(t)
           \/ EnsureRefused(t) \/ EnsureReady(t)
           \/ EnsureSlot(t) \/ EnsureSwap(t) \/ EnsureNoRoom(t)
  <2>1. UNCHANGED workVars /\ pc[t] # "saving"
    BY <1>2 DEF EnsureCancelled, EnsureOpening, EnsureResume, EnsureRefused, EnsureReady,
       EnsureSlot, EnsureSwap, EnsureNoRoom, MustStart, InLoop
  <2> QED
    BY <2>1, StillMoves
<1>3. ASSUME NEW a \in Accounts,
             \/ StartRefused(t, a) \/ StartFound(t, a) \/ StartLaunch(t, a)
             \/ LaunchSucceeds(t, a) \/ LaunchFails(t, a)
      PROVE  Moves(t)
  <2>1. CASE StartRefused(t, a) \/ StartFound(t, a) \/ LaunchSucceeds(t, a)
    <3>1. UNCHANGED workVars /\ pc[t] # "saving"
      BY <2>1 DEF StartRefused, StartFound, StartingOn, LaunchSucceeds
    <3> QED
      BY <3>1, StillMoves
  <2>2. CASE StartLaunch(t, a)
    <3>1. /\ pc[t] = "starting" /\ acct[t] = a /\ startup[a] = None /\ Usable(a)
          /\ startup' = [startup EXCEPT ![a] = t]
          /\ slot' = [slot EXCEPT ![a] = Launch(slot[a])]
          /\ pc'[t] = "launching"
      BY <1>1, <2>2 DEF StartLaunch, StartingOn, Goto, TypeOK, TaskTypes
    <3>2. slot'[a] = Launch(slot[a]) /\ \A b \in Accounts \ {a} : slot'[b] = slot[b]
      BY <1>1, <3>1 DEF TypeOK, WorkTypes
    <3>3. startup'[a] = t /\ \A b \in Accounts \ {a} : startup'[b] = startup[b]
      BY <1>1, <3>1 DEF TypeOK, WorkTypes
    <3>4. SlotMoves(t)
      BY <3>1, <3>2 DEF SlotMoves, Prepares
    <3>5. StartupMoves(t)
      BY <3>1, <3>2, <3>3 DEF StartupMoves
    <3> QED
      BY <3>4, <3>5 DEF Moves
  <2>3. CASE LaunchFails(t, a)
    <3>1. PICK s \in AbortLaunch(slot[a]) : slot' = [slot EXCEPT ![a] = s]
      BY <2>3 DEF LaunchFails
    <3>2. /\ pc[t] = "launching" /\ acct[t] = a
          /\ startup' = [startup EXCEPT ![a] = None]
      BY <2>3 DEF LaunchFails
    <3>3. startup[a] = t
      BY <1>1, <3>2 DEF TaskInv
    <3>4. UnlockStartup(t, a)
      BY <3>2, <3>3 DEF UnlockStartup
    <3> QED
      BY <3>1, <3>2, <3>4, EndMoves DEF Prepares
  <2> QED
    BY <1>3, <2>1, <2>2, <2>3
<1>4. CASE OpenFails(t)
  BY <1>4, StillMoves DEF OpenFails
<1>5. CASE OpenCancelled(t) \/ OpenSucceeds(t) \/ SwapPublish(t) \/ SwapDiscard(t)
  <2>1. /\ pc[t] \in {"started", "evicted", "evictFailed"}
        /\ Discard(t) \/ (Activate(t) /\ pc[t] \in {"started", "evicted"})
    BY <1>5 DEF OpenCancelled, OpenSucceeds, SwapPublish, SwapDiscard
  <2>2. acct[t] \in Accounts
    BY <1>1, <2>1 DEF TaskInv, Opening, Reaping
  <2>3. PICK s : /\ slot' = [slot EXCEPT ![acct[t]] = s] /\ UnlockStartup(t, acct[t])
                 /\ \/ s \in DiscardPending(slot[acct[t]])
                    \/ /\ pc[t] \in {"started", "evicted"}
                       /\ Usable(acct[t]) \/ slot[acct[t]].pending = "none"
                       /\ s \in ActivatePending(slot[acct[t]])
    BY <2>1 DEF Discard, Activate
  <2>4. \/ s \in DiscardPending(slot[acct[t]])
        \/ /\ pc[t] \in {"started", "evicted"} /\ Usable(acct[t])
           /\ s \in ActivatePending(slot[acct[t]])
    BY <2>3 DEF ActivatePending, DiscardPending
  <2> QED
    BY <2>1, <2>2, <2>3, <2>4, EndMoves DEF Prepares
<1>6. CASE SwapEvict(t)
  BY <1>6, StillMoves DEF SwapEvict
<1>7. ASSUME NEW v \in Accounts,
             \/ EvictAsks(t, v) \/ EvictAcquire(t, v) \/ EvictLate(t, v)
             \/ EvictRefused(t, v) \/ EvictReset(t, v)
      PROVE  Moves(t)
  <2>1. CASE EvictAsks(t, v) \/ EvictAcquire(t, v) \/ EvictLate(t, v) \/ EvictRefused(t, v)
    <3>1. UNCHANGED workVars /\ pc[t] # "saving"
      BY <2>1 DEF EvictAsks, EvictAcquire, EvictLate, EvictRefused
    <3> QED
      BY <3>1, StillMoves
  <2>2. CASE EvictReset(t, v)
    <3>1. /\ pc[t] = "evicting" /\ victim[t] = v /\ UNCHANGED startup
          /\ \/ slot' = slot
             \/ startup[v] = None /\ \E s \in CloseAccountWorker(slot[v]) :
                  slot' = [slot EXCEPT ![v] = s]
      BY <2>2 DEF EvictReset
    <3> QED
      BY <1>1, <3>1, CloseMoves DEF MayClose
  <2> QED
    BY <1>7, <2>1, <2>2
<1> QED
  BY <1>2, <1>3, <1>4, <1>5, <1>6, <1>7 DEF EnsureStep

(* A request only closes a worker to reauthorize or recover it.             *)
LEMMA ServeMoves ==
  ASSUME IInv, NEW t \in Tasks, ServeStep(t)
  PROVE  Moves(t)
<1>1. TypeOK /\ TaskInv(t)
  BY DEF IInv
<1>2. CASE ServeEnds(t) \/ ServeUnauthorized(t) \/ \E a \in Accounts : ServeFails(t, a)
  <2>1. UNCHANGED workVars /\ pc[t] # "saving"
    BY <1>2 DEF ServeEnds, ServeUnauthorized, ServeFails
  <2> QED
    BY <2>1, StillMoves
<1>3. ASSUME NEW a \in Accounts, Reauthorize(t, a) PROVE Moves(t)
  <2>1. /\ pc[t] = "reauth" /\ acct[t] = a /\ UNCHANGED startup
        /\ \/ slot' = slot
           \/ startup[a] = None /\ \E s \in CloseAccountWorker(slot[a]) :
                slot' = [slot EXCEPT ![a] = s]
    BY <1>3 DEF Reauthorize, ResetAccount
  <2> QED
    BY <1>1, <2>1, CloseMoves DEF MayClose
<1>4. ASSUME NEW a \in Accounts, RecoverReset(t, a) PROVE Moves(t)
  <2>1. pc[t] = "recovering" /\ acct[t] = a /\ UNCHANGED startup
    BY <1>4 DEF RecoverReset
  <2>2. CASE slot' = slot
    BY <2>1, <2>2, StillMoves DEF workVars
  <2>3. CASE /\ startup[a] = None /\ slot[a].generation = seen[t].generation
             /\ \E s \in CloseAccountWorker(slot[a]) : slot' = [slot EXCEPT ![a] = s]
    BY <1>1, <2>1, <2>3, CloseMoves DEF MayClose
  <2>4. CASE slot' = [slot EXCEPT ![a] = slot[a]]
    BY <1>1, <2>2, <2>4 DEF TypeOK, WorkTypes
  <2> QED
    BY <1>4, <2>2, <2>3, <2>4 DEF RecoverReset
<1> QED
  BY <1>2, <1>3, <1>4 DEF ServeStep

(* Updates, resets, removals and Close change slots as they may.            *)
LEMMA AdminMoves ==
  ASSUME IInv, NEW t \in Tasks, AdminStep(t)
  PROVE  Moves(t)
<1> USE PoolAssumption
<1>1. TypeOK /\ TaskInv(t) /\ t # None
  BY DEF IInv, PoolAssumption
<1>2. CASE AcquireGivesUp(t) \/ ReapGivesUp(t) \/ CloseEnds(t)
           \/ \E a \in Accounts : AcquireExclusive(t, a) \/ RemoveUnregister(t, a)
  <2>1. UNCHANGED workVars /\ pc[t] # "saving"
    BY <1>2 DEF AcquireGivesUp, ReapGivesUp, ReapEnds, CloseEnds, AcquireExclusive,
       RemoveUnregister, workVars
  <2> QED
    BY <2>1, StillMoves
<1>3. ASSUME NEW a \in Accounts,
             ReapReset(t, a) \/ Reset(t, a) \/ RemoveReset(t, a) \/ RemoveClose(t, a)
      PROVE  Moves(t)
  <2>1. /\ pc[t] # "saving" /\ MayClose(t, a) /\ UNCHANGED startup
        /\ \/ slot' = slot
           \/ startup[a] = None /\ \E s \in CloseAccountWorker(slot[a]) :
                slot' = [slot EXCEPT ![a] = s]
    BY <1>3 DEF ReapReset, ReapEnds, Reset, RemoveReset, RemoveClose, ResetAccount, MayClose
  <2> QED
    BY <1>1, <2>1, CloseMoves
<1>4. ASSUME NEW a \in Accounts, CloseOne(t, a) PROVE Moves(t)
  <2>1. pc[t] = "closing" /\ startup[a] = None /\ UNCHANGED startup
    BY <1>4 DEF CloseOne
  <2>2. CASE slot' = [slot EXCEPT ![a] = slot[a]]
    <3>1. slot' = slot
      BY <1>1, <2>2 DEF TypeOK, WorkTypes
    <3> QED
      BY <2>1, <3>1, StillMoves DEF workVars
  <2>3. CASE \E s \in CloseAccountWorker(slot[a]) : slot' = [slot EXCEPT ![a] = s]
    BY <1>1, <2>1, <2>3, CloseMoves DEF MayClose
  <2> QED
    BY <1>4, <2>2, <2>3 DEF CloseOne
<1>5. ASSUME NEW a \in Accounts, UpdatePrepare(t, a) PROVE Moves(t)
  <2>1. /\ pc[t] = "updating" /\ acct[t] = a
        /\ \/ slot' = slot
           \/ startup[a] = None /\ \E s \in CloseAccountWorker(slot[a]) :
                slot' = [slot EXCEPT ![a] = s]
    BY <1>5 DEF UpdatePrepare, ResetAccount
  <2>2. CASE UNCHANGED startup
    BY <1>1, <2>1, <2>2, CloseMoves DEF MayClose
  <2>3. CASE /\ startup[a] = None /\ Empty(slot'[a])
             /\ \E s \in CloseAccountWorker(slot[a]) : slot' = [slot EXCEPT ![a] = s]
             /\ startup' = [startup EXCEPT ![a] = t] /\ pc'[t] = "saving"
    <3>1. slot'[a] \in CloseAccountWorker(slot[a]) /\ \A b \in Accounts \ {a} : slot'[b] = slot[b]
      BY <1>1, <2>3, OneSlot
    <3>2. startup'[a] = t /\ \A b \in Accounts \ {a} : startup'[b] = startup[b]
      BY <1>1, <2>3 DEF TypeOK, WorkTypes
    <3>3. SlotMoves(t)
      BY <2>1, <2>3, <3>1 DEF SlotMoves, Closes, MayClose
    <3>4. StartupMoves(t)
      BY <2>1, <2>3, <3>1, <3>2 DEF StartupMoves, Empty
    <3> QED
      BY <3>3, <3>4 DEF Moves
  <2>4. UNCHANGED startup \/ (pc'[t] = "saving" /\ Empty(slot'[a]) /\ a \in registered
                              /\ startup' = [startup EXCEPT ![a] = t])
    BY <1>1, <1>5 DEF UpdatePrepare, Goto, TypeOK, TaskTypes
  <2> QED
    BY <1>5, <2>2, <2>3, <2>4 DEF UpdatePrepare, ResetAccount
<1>6. ASSUME NEW a \in Accounts, UpdateEnds(t, a) PROVE Moves(t)
  <2>1. pc[t] = "saving" /\ acct[t] = a /\ startup' = [startup EXCEPT ![a] = None]
    BY <1>6 DEF UpdateEnds
  <2>2. UnlockStartup(t, a)
    BY <1>1, <2>1 DEF TaskInv, UnlockStartup
  <2>3. PICK s \in {slot[a], [slot[a] EXCEPT !.config = slot[a].config + 1]} :
          slot' = [slot EXCEPT ![a] = s]
    BY <1>1, <1>6 DEF UpdateEnds, TypeOK, WorkTypes
  <2> QED
    BY <2>1, <2>2, <2>3, EndMoves DEF Saves
<1> QED
  BY <1>2, <1>3, <1>4, <1>5, <1>6 DEF AdminStep

(* Every step of a task.                                                    *)
LEMMA TaskMoves ==
  ASSUME IInv, NEW t \in Tasks, Begins(t) \/ Cancel(t) \/ Proceeds(t)
  PROVE  Moves(t)
BY BeginsMove, EnsureMoves, ServeMoves, AdminMoves DEF Proceeds

-----------------------------------------------------------------------------
(* The slots.                                                               *)

(* The options of the processes and the count of the workers.               *)
WorkInv(s) ==
  /\ OneWorker(s)
  /\ s.worker # "none" => s.workerConfig = s.config
  /\ s.pending # "none" => s.pendingConfig = s.config
  /\ ~ReleaseMayFail => Released(s)

(* A generation never returns, and the options follow the account's.        *)
LEMMA WorkKept ==
  ASSUME IInv, IInv', NEW t \in Tasks, SlotMoves(t), NEW a \in Accounts, SlotInv(a)
  PROVE  WorkInv(slot'[a]) /\ slot[a].generation <= slot'[a].generation
<1> USE PoolAssumption
<1> DEFINE s == slot[a]
           r == slot'[a]
<1> SUFFICES WorkInv(r) /\ s.generation <= r.generation
  OBVIOUS
<1>1. /\ s \in Slot /\ r \in Slot /\ AccountInv(a) /\ TaskInv(t) /\ WorkInv(s)
      /\ s.generation \in Nat /\ s.serial \in Nat
  BY DEF IInv, TypeOK, WorkTypes, SlotInv, WorkInv, Slot
<1>2. CASE r = s
  BY <1>1, <1>2
<1>3. CASE Closes(t, a)
  <2>1. Quiet(s) /\ r \in CloseAccountWorker(s)
    BY <1>1, <1>3 DEF Closes, AccountInv, Quiet
  <2>2. s.pending = "none" /\ r.pending = "none"
    BY <2>1, CloseAccountWorkerQuiet DEF Quiet
  <2>3. WorkerLeft(s, r) /\ (~ReleaseMayFail => Released(r))
    BY <1>1, <2>1, CloseAccountWorkerLeft DEF WorkInv
  <2> HIDE DEF s, r
  <2> QED
    BY <1>1, <2>2, <2>3 DEF WorkInv, OneWorker, WorkerLeft, Count
<1>4. CASE Prepares(t, a)
  <2>1. CASE r = Launch(s)
    <3>1. /\ r.worker = s.worker /\ r.generation = s.generation /\ r.serial = s.serial
          /\ r.config = s.config /\ r.workerConfig = s.workerConfig
          /\ r.pendingConfig = s.config /\ (Released(s) => Released(r))
      BY <1>1, <2>1, LaunchRecords
    <3> HIDE DEF s, r
    <3> QED
      BY <1>1, <3>1 DEF WorkInv, OneWorker
  <2>2. CASE r \in AbortLaunch(s) \cup DiscardPending(s)
    <3>1. /\ SameWorker(s, r) /\ r.pending = "none"
          /\ ~ReleaseMayFail /\ Released(s) => Released(r)
      BY <1>1, <2>2, AbortLaunchSame, DiscardPendingSame
    <3> HIDE DEF s, r
    <3> QED
      BY <1>1, <3>1 DEF WorkInv, OneWorker, SameWorker
  <2>3. CASE r \in ActivatePending(s)
    <3>1. /\ ~ReleaseMayFail /\ Released(s) => Released(r)
          /\ r.pending = "none" /\ r.config = s.config
          /\ \/ r = s
             \/ /\ s.pending # "none" /\ r.worker = "ready" /\ r.serial = s.serial + 1
                /\ r.generation = s.generation + Count(s.worker # "none")
                /\ r.workerConfig = s.pendingConfig
             \/ /\ s.worker # "none" /\ r.worker = "closing" /\ r.generation = s.generation
                /\ r.serial = s.serial /\ r.workerConfig = s.workerConfig
      BY <1>1, <2>3, ActivatePendingEffect
    <3> HIDE DEF s, r
    <3> QED
      BY <1>1, <3>1 DEF WorkInv, OneWorker, Count
  <2> QED
    BY <1>4, <2>1, <2>2, <2>3 DEF Prepares
<1>5. CASE Saves(t, a)
  <2>1. startup[a] = t /\ pc[t] = "saving"
    BY <1>1, <1>5 DEF Saves, TaskInv
  <2>2. s.worker = "none" /\ s.pending = "none"
    BY <1>1, <2>1 DEF SlotInv, AccountInv, PoolAssumption
  <2>3. /\ r.worker = s.worker /\ r.pending = s.pending /\ r.generation = s.generation
        /\ r.serial = s.serial /\ (Released(s) => Released(r))
    BY <1>1, <1>5 DEF Saves, Slot, Released
  <2> HIDE DEF s, r
  <2> QED
    BY <1>1, <2>2, <2>3 DEF WorkInv, OneWorker
<1> QED
  BY <1>2, <1>3, <1>4, <1>5 DEF SlotMoves

(* Only the holder of a startupMu changes the slot it guards.               *)
LEMMA Guarded1 ==
  ASSUME IInv, NEW t \in Tasks, SlotMoves(t), NEW a \in Accounts,
         startup[a] \notin {None, t}
  PROVE  slot'[a] = slot[a]
<1> USE PoolAssumption
<1>1. slot[a] \in Slot /\ AccountInv(a) /\ TaskInv(t)
  BY DEF IInv, TypeOK, WorkTypes
<1>2. ~Closes(t, a) /\ ~Saves(t, a)
  BY <1>1 DEF Closes, Saves, TaskInv
<1>3. CASE Prepares(t, a)
  <2>1. /\ acct[t] = a /\ pc[t] \in {"started", "evicted", "evictFailed"}
        /\ slot'[a] \in DiscardPending(slot[a]) \cup ActivatePending(slot[a])
    BY <1>1, <1>3 DEF Prepares, TaskInv
  <2>2. openings[a] = t
    BY <1>1, <2>1 DEF TaskInv, Opening, Reaping, PoolAssumption
  <2>3. slot[a].pending = "none"
    <3> SUFFICES ASSUME slot[a].pending # "none" PROVE FALSE
      OBVIOUS
    <3>1. /\ startup[a] \in Tasks /\ acct[startup[a]] = a
          /\ pc[startup[a]] \in Opening
      BY <1>1 DEF AccountInv, Holding, IInv, TypeOK, WorkTypes
    <3>2. TaskInv(startup[a])
      BY <3>1 DEF IInv
    <3> QED
      BY <2>2, <3>1, <3>2 DEF TaskInv, PoolAssumption
  <2> QED
    BY <2>1, <2>3 DEF DiscardPending, ActivatePending
<1> QED
  BY <1>2, <1>3 DEF SlotMoves

(* A task keeps its slots tidy.                                             *)
LEMMA TidyKept ==
  ASSUME IInv, NEW t \in Tasks, SlotMoves(t), NEW a \in Accounts, Tidy(slot[a])
  PROVE  Tidy(slot'[a])
<1>1. slot[a] \in Slot /\ AccountInv(a)
  BY DEF IInv, TypeOK, WorkTypes
<1>2. CASE Closes(t, a)
  BY <1>1, <1>2, CloseTidy DEF Closes, AccountInv, Quiet
<1>3. CASE Prepares(t, a)
  BY <1>1, <1>3, PreparerTidy, ActivateTidy DEF Prepares, AccountInv
<1>4. CASE Saves(t, a)
  BY <1>1, <1>4 DEF Saves, Tidy, Empty, Slot
<1> QED
  BY <1>2, <1>3, <1>4 DEF SlotMoves

(* The options of the processes follow those of the account.                *)
LEMMA SlotKept ==
  ASSUME IInv, IInv', NEW t \in Tasks, Moves(t),
         \A u \in Tasks \ {t} : pc'[u] = pc[u], NEW a \in Accounts, SlotInv(a)
  PROVE  SlotInv(a)'
<1> USE PoolAssumption
<1>1. SlotMoves(t) /\ StartupMoves(t) /\ AccountInv(a) /\ AccountInv(a)'
  BY DEF Moves, IInv
<1>2. WorkInv(slot'[a])
  BY <1>1, WorkKept
<1>3. ASSUME startup'[a] # None
      PROVE  IF pc'[startup'[a]] = "saving" THEN slot'[a].worker = "none"
             ELSE slot'[a].pending # "none"
  <2>1. startup[a] \in Tasks \cup {None}
    BY DEF IInv, TypeOK, WorkTypes
  <2>2. CASE startup'[a] = startup[a] /\ startup[a] = t
    BY <1>1, <1>3, <2>2 DEF SlotInv, AccountInv, StartupMoves
  <2>3. CASE startup'[a] = startup[a] /\ startup[a] # t
    <3>1. slot'[a] = slot[a]
      BY <1>1, <1>3, <2>3, Guarded1
    <3>2. pc'[startup[a]] = pc[startup[a]]
      BY <1>3, <2>1, <2>3
    <3> QED
      BY <1>3, <2>3, <3>1, <3>2 DEF SlotInv
  <2>4. CASE startup'[a] = t /\ pc'[t] = "launching" /\ slot'[a] = Launch(slot[a])
    <3>1. slot[a] \in Slot
      BY DEF IInv, TypeOK, WorkTypes
    <3>2. slot'[a].pending # "none"
      BY <2>4, <3>1, LaunchRecords
    <3> QED
      BY <2>4, <3>2
  <2>5. CASE startup'[a] = t /\ pc'[t] = "saving" /\ slot'[a].worker = "none"
    BY <2>5
  <2> QED
    BY <1>1, <1>3, <2>2, <2>3, <2>4, <2>5 DEF StartupMoves
<1>4. Tidy(slot'[a])
  BY <1>1, TidyKept DEF SlotInv
<1> QED
  BY <1>2, <1>3, <1>4 DEF SlotInv, WorkInv

(* What is empty stays so after Close, if nothing fails.                    *)
LEMMA ShutKept ==
  ASSUME IInv, IInv', NEW t \in Tasks, SlotMoves(t), NEW a \in Accounts, SlotInv(a),
         ~CloseMayFail, ~ReleaseMayFail, closed, Shut(a)
  PROVE  Shut(a)'
<1> DEFINE s == slot[a]
           r == slot'[a]
<1>1. s \in Slot /\ AccountInv(a) /\ Released(s) /\ Empty(s) /\ s.pending = "none"
  BY DEF IInv, TypeOK, WorkTypes, SlotInv, Shut
<1>2. CASE Closes(t, a)
  <2>1. Quiet(s) /\ r \in CloseAccountWorker(s)
    BY <1>1, <1>2 DEF Closes, AccountInv, Quiet
  <2>2. r.pending = "none" /\ Empty(r)
    BY <1>1, <2>1, CloseAccountWorkerQuiet, CloseAccountWorkerLeft DEF Quiet
  <2> QED
    BY <2>2 DEF Shut
<1>3. CASE Prepares(t, a)
  <2>1. r \in AbortLaunch(s) \cup DiscardPending(s)
    BY <1>3 DEF Prepares, Usable
  <2>2. Empty(r) /\ r.pending = "none"
    BY <1>1, <2>1, AbortLaunchSame, DiscardPendingSame
  <2> QED
    BY <2>2 DEF Shut
<1>4. CASE Saves(t, a)
  BY <1>1, <1>4 DEF Saves, Shut, Empty, Slot
<1> QED
  BY <1>2, <1>3, <1>4 DEF SlotMoves, Shut

-----------------------------------------------------------------------------
(* The leases and what the requests have read.                              *)

(* A step leaves the other tasks where they are, and what they have read.   *)
Alone(t) ==
  \A u \in Tasks \ {t} :
    /\ pc'[u] = pc[u] /\ op'[u] = op[u] /\ acct'[u] = acct[u]
    /\ victim'[u] = victim[u] /\ seen'[u] = seen[u]

(* A task gives back its own leases, and takes one that is free.            *)
LeaseMoves(t) ==
  \A a \in Accounts :
    /\ \/ exclusive'[a] = exclusive[a]
       \/ exclusive[a] = t /\ exclusive'[a] = None
       \/ exclusive[a] = None /\ exclusive'[a] = t /\ sharers[a] = {}
    /\ sharers'[a] \ {t} = sharers[a] \ {t}
    /\ t \in sharers'[a] => t \in sharers[a] \/ (exclusive[a] = None /\ exclusive'[a] = None)

Uses(t) == Alone(t) /\ LeaseMoves(t) /\ HeldInv(t)' /\ SeenInv(t)'

(* A returning task.                                                        *)
LEMMA FinishUses ==
  ASSUME TypeOK, NEW t \in Tasks, Finish(t)
  PROVE  Uses(t)
<1> USE PoolAssumption
<1>1. /\ pc'[t] = "idle" /\ op'[t] = "none"
      /\ Alone(t)
  BY DEF Finish, Goto, TypeOK, TaskTypes, Alone
<1>2. LeaseMoves(t)
  BY DEF Finish, LeaseMoves
<1>3. HeldInv(t)'
  BY <1>1 DEF HeldInv, Ensuring, Leased
<1>4. SeenInv(t)'
  BY <1>1 DEF SeenInv, Started, Leased
<1> QED
  BY <1>1, <1>2, <1>3, <1>4 DEF Uses

(* What a task has read grows no newer than its account.                    *)
LEMMA SeenCarried ==
  ASSUME UseInv, IInv', NEW t \in Tasks, SlotMoves(t), NEW u \in Tasks, Leased(u),
         acct'[u] = acct[u], seen'[u] = seen[u]
  PROVE  /\ acct[u] \in Accounts /\ seen'[u].generation <= slot'[acct'[u]].generation
         /\ Delivered(u) => Delivered(u)'
<1> DEFINE a == acct[u]
<1>1. a \in Accounts /\ seen[u].generation <= slot[a].generation
  BY DEF UseInv, SeenInv
<1>2. slot[a].generation <= slot'[a].generation
  BY <1>1, WorkKept DEF UseInv
<1>3. /\ slot[a].generation \in Nat /\ slot'[a].generation \in Nat
      /\ seen[u].generation \in Nat /\ seen[u].serial \in Nat
  BY <1>1 DEF UseInv, IInv, TypeOK, TaskTypes, WorkTypes, Slot
<1>4. seen'[u].generation <= slot'[a].generation
  BY <1>1, <1>2, <1>3
<1>5. ASSUME Delivered(u) PROVE Delivered(u)'
  BY <1>2, <1>3, <1>5 DEF Delivered
<1> QED
  BY <1>1, <1>4, <1>5

(* A task that goes on inside ensureWorker.                                 *)
LEMMA EnsureOn ==
  ASSUME UseInv, IInv', NEW t \in Tasks, SlotMoves(t),
         pc[t] \in Ensuring, pc'[t] \in Ensuring \ {"evicting"},
         op'[t] = op[t], acct'[t] = acct[t], seen'[t] = seen[t], sharers' = sharers,
         pc'[t] \in Started =>
           \/ pc[t] \in Started /\ startup' = startup
           \/ startup'[acct[t]] = t
  PROVE  HeldInv(t)' /\ SeenInv(t)'
<1>1. HeldInv(t) /\ SeenInv(t)
  BY DEF UseInv
<1>2. HeldInv(t)'
  BY <1>1 DEF HeldInv, Leased, Sharing, Ensuring
<1>3. CASE Leased(t)
  <2>1. /\ acct[t] \in Accounts /\ seen'[t].generation <= slot'[acct'[t]].generation
        /\ Delivered(t) => Delivered(t)'
    BY <1>3, SeenCarried
  <2>2. pc'[t] \in Started /\ op[t] = "serve" /\ startup'[acct[t]] # t => Delivered(t)
    BY <1>1 DEF SeenInv
  <2> QED
    BY <1>2, <2>1, <2>2 DEF SeenInv, Leased, Ensuring
<1>4. CASE ~Leased(t)
  BY <1>2, <1>4 DEF SeenInv, Leased, Ensuring
<1> QED
  BY <1>3, <1>4

(* A task that is handed a worker newer than what it had read.              *)
LEMMA DeliverUses ==
  ASSUME UseInv, IInv', NEW t \in Tasks, SlotMoves(t), NEW n \in Nat, Deliver(t, n),
         pc[t] \in Ensuring,
         op[t] = "serve" => seen[t].generation < n /\ n <= slot'[acct[t]].generation + 1
  PROVE  Uses(t)
<1> USE PoolAssumption
<1>1. TypeOK /\ HeldInv(t) /\ SeenInv(t)
  BY DEF UseInv, IInv
<1>2. CASE ~Leased(t)
  BY <1>1, <1>2, FinishUses DEF Deliver
<1>3. CASE Leased(t)
  <2>1. /\ op'[t] = "serve" /\ acct'[t] = acct[t] /\ UNCHANGED <<sharers, exclusive>>
        /\ pc'[t] = IF op[t] = "serve" THEN "serving" ELSE "loop"
        /\ seen'[t] = [generation |-> IF op[t] = "serve" THEN seen[t].generation
                                      ELSE slot'[acct[t]].generation,
                       serial |-> n]
        /\ Alone(t)
    BY <1>1, <1>3 DEF Deliver, Goto, TypeOK, TaskTypes, poolVars, Alone
  <2>2. LeaseMoves(t)
    BY <2>1 DEF LeaseMoves
  <2>3. HeldInv(t)'
    BY <1>1, <1>3, <2>1 DEF HeldInv, Leased, Sharing, Ensuring
  <2>4. acct[t] \in Accounts /\ slot'[acct[t]].generation \in Nat
    BY <1>1, <1>3 DEF SeenInv, IInv, TypeOK, WorkTypes, Slot
  <2>5. seen'[t].generation <= slot'[acct[t]].generation
    <3>1. CASE op[t] = "serve"
      <4>1. /\ seen[t].generation <= slot[acct[t]].generation
            /\ slot[acct[t]].generation <= slot'[acct[t]].generation
        BY <1>1, <1>3, <2>4, WorkKept DEF SeenInv, UseInv
      <4>2. seen[t].generation \in Nat /\ slot[acct[t]].generation \in Nat
        BY <1>1, <2>4 DEF TypeOK, TaskTypes, WorkTypes, Slot
      <4>3. seen'[t].generation = seen[t].generation
        BY <2>1, <3>1
      <4> QED
        BY <2>4, <4>1, <4>2, <4>3
    <3>2. CASE op[t] # "serve"
      <4>1. seen'[t].generation = slot'[acct[t]].generation
        BY <2>1, <3>2
      <4> QED
        BY <2>4, <4>1
    <3> QED
      BY <3>1, <3>2
  <2>6. pc'[t] = "serving" => Delivered(t)'
    <3> SUFFICES ASSUME op[t] = "serve" PROVE Delivered(t)'
      BY <2>1
    <3>1. seen'[t].generation = seen[t].generation /\ seen'[t].serial = n
      BY <2>1
    <3> QED
      BY <2>1, <3>1 DEF Delivered
  <2>7. SeenInv(t)'
    BY <2>1, <2>4, <2>5, <2>6 DEF SeenInv, Started
  <2> QED
    BY <2>1, <2>2, <2>3, <2>7 DEF Uses
<1> QED
  BY <1>2, <1>3

(* Beginning a call and giving up disturb nobody's lease.                   *)
LEMMA BeginsUse ==
  ASSUME UseInv, IInv', NEW t \in Tasks, Begins(t) \/ Cancel(t)
  PROVE  Uses(t)
<1> USE PoolAssumption
<1>1. TypeOK /\ HeldInv(t) /\ SeenInv(t)
  BY DEF UseInv, IInv
<1>2. CASE BeginClose(t)
  <2>1. /\ op' = [op EXCEPT ![t] = "close"] /\ pc' = [pc EXCEPT ![t] = "closing"] /\ closed'
        /\ UNCHANGED <<acct, victim, seen, sharers, exclusive>>
    BY <1>2 DEF BeginClose, Goto, poolVars
  <2>2. pc'[t] = "closing" /\ op'[t] = "close" /\ Alone(t)
    BY <1>1, <2>1 DEF Alone, TypeOK, TaskTypes
  <2> QED
    BY <2>1, <2>2 DEF Uses, LeaseMoves, HeldInv, SeenInv, Leased, Ensuring, Started
<1>3. CASE Cancel(t)
  <2>1. UNCHANGED <<pc, op, acct, victim, seen, sharers, exclusive, closed, slot, startup>>
    BY <1>3 DEF Cancel, taskVars, poolVars, mgrVars, workVars
  <2> QED
    BY <1>1, <2>1 DEF Uses, Alone, LeaseMoves, HeldInv, SeenInv, Leased, Delivered
<1>4. ASSUME NEW a \in Accounts, NEW o \in AllOps, NEW l \in PCs, Begin(t, o, a, l),
             UNCHANGED <<slot, startup>>
      PROVE  /\ o \in Ops /\ pc'[t] = l /\ op'[t] = o /\ acct'[t] = a
             /\ seen'[t].generation = slot'[a].generation /\ slot'[a].generation \in Nat
             /\ \A u \in Tasks \ {t} :
                  pc'[u] = pc[u] /\ op'[u] = op[u] /\ acct'[u] = acct[u] /\ seen'[u] = seen[u]
  <2>1. /\ op' = [op EXCEPT ![t] = o] /\ acct' = [acct EXCEPT ![t] = a]
        /\ seen' = [seen EXCEPT ![t].generation = slot[a].generation]
        /\ pc' = [pc EXCEPT ![t] = l] /\ o \in Ops
    BY <1>4 DEF Begin, Goto, PoolAssumption
  <2>2. slot[a].generation \in Nat
    BY <1>1 DEF TypeOK, WorkTypes, Slot
  <2> QED
    BY <1>1, <1>4, <2>1, <2>2 DEF TypeOK, TaskTypes
<1>5. ASSUME NEW a \in Accounts, NEW o \in {"serve", "promote"}, BeginLeased(t, a, o)
      PROVE  Uses(t)
  <2>1. /\ Begin(t, o, a, "loop") /\ UNCHANGED <<slot, startup, exclusive, victim>>
        /\ exclusive[a] = None /\ sharers' = [sharers EXCEPT ![a] = @ \cup {t}]
    BY <1>5 DEF BeginLeased, workVars
  <2>2. /\ pc'[t] = "loop" /\ op'[t] = o /\ acct'[t] = a /\ Alone(t)
        /\ seen'[t].generation = slot'[a].generation /\ slot'[a].generation \in Nat
    <3>1. o \in AllOps /\ "loop" \in PCs
      BY DEF AllOps, PCs
    <3> QED
      BY <1>4, <2>1, <3>1 DEF Alone
  <2>3. LeaseMoves(t) /\ t \in sharers'[a]
    BY <1>1, <2>1 DEF LeaseMoves, TypeOK, PoolTypes
  <2>4. HeldInv(t)'
    BY <2>2, <2>3 DEF HeldInv, Leased, Ensuring
  <2>5. SeenInv(t)'
    BY <2>2 DEF SeenInv, Started
  <2> QED
    BY <2>2, <2>3, <2>4, <2>5 DEF Uses
<1>6. ASSUME NEW a \in Accounts, NEW o \in {"expand", "prewarm", "update", "reset", "remove"},
             NEW l \in {"loop", "updateWait", "resetting", "removeReset"},
             Begin(t, o, a, l), UNCHANGED <<slot, startup, sharers, victim>>,
             l = "loop" => o \in {"expand", "prewarm"},
             \/ l # "removeReset" /\ exclusive' = exclusive
             \/ exclusive' = [exclusive EXCEPT ![a] = t] /\ exclusive[a] = None /\ sharers[a] = {}
      PROVE  Uses(t)
  <2>1. o \in Ops /\ pc'[t] = l /\ op'[t] = o /\ acct'[t] = a /\ Alone(t)
    <3>1. o \in AllOps /\ l \in PCs
      BY DEF AllOps, PCs
    <3> QED
      BY <1>4, <1>6, <3>1 DEF Alone
  <2>2. LeaseMoves(t) /\ (l = "removeReset" => exclusive'[a] = t)
    BY <1>1, <1>6 DEF LeaseMoves, TypeOK, PoolTypes
  <2>3. HeldInv(t)'
    BY <1>6, <2>1, <2>2 DEF HeldInv, Leased, Ensuring
  <2>4. SeenInv(t)'
    BY <1>6, <2>1 DEF SeenInv, Started, Leased
  <2> QED
    BY <2>1, <2>2, <2>3, <2>4 DEF Uses
<1>7. ASSUME NEW a \in Accounts,
             \/ BeginExpand(t, a) \/ BeginPrewarm(t, a) \/ BeginUpdate(t, a)
             \/ BeginReset(t, a) \/ BeginRemove(t, a)
      PROVE  Uses(t)
  <2>1. UNCHANGED <<slot, startup, sharers, victim>>
    BY <1>7 DEF BeginExpand, BeginPrewarm, BeginUpdate, BeginReset, BeginRemove,
       poolVars, workVars
  <2>2. CASE BeginExpand(t, a)
    BY <1>6, <2>1, <2>2 DEF BeginExpand, poolVars
  <2>3. CASE BeginPrewarm(t, a)
    BY <1>6, <2>1, <2>3 DEF BeginPrewarm, poolVars
  <2>4. CASE BeginUpdate(t, a)
    BY <1>6, <2>1, <2>4 DEF BeginUpdate
  <2>5. CASE BeginReset(t, a)
    BY <1>6, <2>1, <2>5 DEF BeginReset, poolVars
  <2>6. CASE BeginRemove(t, a)
    <3>1. exclusive[a] = None /\ sharers[a] = {}
      BY <1>1, <2>6 DEF BeginRemove, Busy, TypeOK, PoolTypes
    <3> QED
      BY <1>6, <2>1, <2>6, <3>1 DEF BeginRemove
  <2> QED
    BY <1>7, <2>2, <2>3, <2>4, <2>5, <2>6
<1>8. ASSUME NEW v \in Accounts, BeginReap(t, v) PROVE Uses(t)
  <2>1. /\ pc' = [pc EXCEPT ![t] = "evictAsk"] /\ op' = [op EXCEPT ![t] = "reap"]
        /\ acct' = [acct EXCEPT ![t] = None] /\ victim' = [victim EXCEPT ![t] = v]
        /\ seen' = [seen EXCEPT ![t].generation = 0] /\ UNCHANGED <<sharers, exclusive>>
    BY <1>8 DEF BeginReap, Begin, Goto, poolVars
  <2>2. pc'[t] = "evictAsk" /\ op'[t] = "reap" /\ Alone(t)
    BY <1>1, <2>1 DEF Alone, TypeOK, TaskTypes
  <2> QED
    BY <2>1, <2>2 DEF Uses, LeaseMoves, HeldInv, SeenInv, Leased, Ensuring, Started
<1> QED
  BY <1>2, <1>3, <1>5, <1>7, <1>8 DEF Begins

(* ensureWorker before a start has succeeded.                               *)
LEMMA LoopUses ==
  ASSUME UseInv, IInv', NEW t \in Tasks, SlotMoves(t),
         \/ EnsureCancelled(t) \/ EnsureOpening(t) \/ EnsureResume(t)
         \/ EnsureRefused(t) \/ EnsureReady(t)
         \/ EnsureSlot(t) \/ EnsureSwap(t) \/ EnsureNoRoom(t)
  PROVE  Uses(t)
<1> USE PoolAssumption
<1>1. TypeOK /\ HeldInv(t) /\ SeenInv(t) /\ TaskInv(t)
  BY DEF UseInv, IInv
<1>2. pc[t] \in {"loop", "await"} /\ pc[t] \in Ensuring /\ acct[t] \in Accounts
  <2>1. pc[t] \in {"loop", "await"}
    BY DEF EnsureCancelled, EnsureOpening, EnsureResume, EnsureRefused, EnsureReady,
       EnsureSlot, EnsureSwap, EnsureNoRoom, MustStart, InLoop
  <2> QED
    BY <1>1, <2>1 DEF Ensuring, TaskInv, Opening
<1>3. CASE Finish(t)
  BY <1>1, <1>3, FinishUses
<1>4. CASE EnsureReady(t)
  <2>1. /\ Ready(acct[t]) /\ slot' = slot
        /\ Deliver(t, slot[acct[t]].serial)
    BY <1>4 DEF EnsureReady, workVars
  <2>2. slot[acct[t]].serial = slot[acct[t]].generation + 1
    BY <1>2, <2>1 DEF UseInv, SlotInv, OneWorker, Ready, Count
  <2>3. slot[acct[t]].serial \in Nat /\ slot[acct[t]].generation \in Nat
    BY <1>1, <1>2 DEF TypeOK, WorkTypes, Slot
  <2>4. op[t] = "serve" => seen[t].generation <= slot[acct[t]].generation /\ seen[t].generation \in Nat
    BY <1>1 DEF SeenInv, Leased, TypeOK, TaskTypes
  <2>5. op[t] = "serve" => /\ seen[t].generation < slot[acct[t]].serial
                           /\ slot[acct[t]].serial <= slot'[acct[t]].generation + 1
    BY <2>1, <2>2, <2>3, <2>4
  <2> QED
    BY <1>2, <2>1, <2>3, <2>5, DeliverUses
<1>5. CASE /\ \E l \in {"loop", "await", "starting"} : Goto(t, l)
           /\ UNCHANGED <<op, acct, seen, sharers, exclusive>>
           /\ \A u \in Tasks \ {t} : victim'[u] = victim[u]
  <2>1. /\ pc'[t] \in {"loop", "await", "starting"} /\ Alone(t)
        /\ op'[t] = op[t] /\ acct'[t] = acct[t] /\ seen'[t] = seen[t]
    BY <1>1, <1>5 DEF Goto, TypeOK, TaskTypes, Alone
  <2>2. HeldInv(t)' /\ SeenInv(t)'
    BY <1>2, <1>5, <2>1, EnsureOn DEF Ensuring, Started
  <2> QED
    BY <1>5, <2>1, <2>2 DEF Uses, LeaseMoves
<1>6. CASE EnsureOpening(t) \/ EnsureResume(t)
  BY <1>3, <1>5, <1>6 DEF EnsureOpening, EnsureResume, poolVars
<1>7. CASE EnsureSlot(t) \/ EnsureSwap(t)
  <2>1. Goto(t, "starting") /\ UNCHANGED <<op, acct, seen, sharers, exclusive>>
    BY <1>7 DEF EnsureSlot, EnsureSwap, Open, poolVars
  <2>2. \A u \in Tasks \ {t} : victim'[u] = victim[u]
    BY <1>1, <1>7 DEF EnsureSlot, EnsureSwap, TypeOK, TaskTypes
  <2> QED
    BY <1>5, <2>1, <2>2
<1> QED
  BY <1>3, <1>4, <1>6, <1>7 DEF EnsureCancelled, EnsureRefused, EnsureNoRoom

(* startReservedWorker.                                                     *)
LEMMA StartUses ==
  ASSUME UseInv, IInv', NEW t \in Tasks, SlotMoves(t), NEW a \in Accounts,
         \/ StartRefused(t, a) \/ StartFound(t, a) \/ StartLaunch(t, a)
         \/ LaunchSucceeds(t, a) \/ LaunchFails(t, a)
  PROVE  Uses(t)
<1> USE PoolAssumption
<1>1. TypeOK /\ HeldInv(t) /\ SeenInv(t) /\ TaskInv(t)
  BY DEF UseInv, IInv
<1>2. /\ pc[t] \in {"starting", "launching"} /\ acct[t] = a
      /\ \E l \in {"startFailed", "started", "launching"} : Goto(t, l)
      /\ UNCHANGED <<op, acct, victim, sharers, exclusive>>
      /\ seen' = seen \/ StartFound(t, a)
  BY DEF StartRefused, StartFound, StartLaunch, LaunchSucceeds, LaunchFails, StartingOn, poolVars
<1>3. /\ pc'[t] \in {"startFailed", "started", "launching"}
      /\ op'[t] = op[t] /\ acct'[t] = acct[t] /\ pc[t] \in Ensuring /\ LeaseMoves(t)
  BY <1>1, <1>2 DEF Goto, TypeOK, TaskTypes, Ensuring, LeaseMoves
<1>4. CASE ~StartFound(t, a)
  <2>1. seen' = seen /\ Alone(t)
    BY <1>1, <1>2, <1>4 DEF Goto, TypeOK, TaskTypes, Alone
  <2>2. pc'[t] = "started" => startup'[acct[t]] = t
    <3>1. pc'[t] = "started" => LaunchSucceeds(t, a)
      BY <1>1, <1>4 DEF StartRefused, StartLaunch, LaunchFails, Goto, TypeOK, TaskTypes
    <3>2. LaunchSucceeds(t, a) => startup'[acct[t]] = t
      BY <1>1 DEF LaunchSucceeds, workVars, TaskInv
    <3> QED
      BY <3>1, <3>2
  <2>3. HeldInv(t)' /\ SeenInv(t)'
    BY <1>2, <1>3, <2>1, <2>2, EnsureOn DEF Ensuring, Started
  <2> QED
    BY <1>3, <2>1, <2>3 DEF Uses
<1>5. CASE StartFound(t, a)
  <2>1. /\ Ready(a) /\ slot' = slot /\ pc' = [pc EXCEPT ![t] = "started"]
        /\ seen' = [seen EXCEPT ![t].serial = slot[a].serial]
    BY <1>5 DEF StartFound, Goto, workVars
  <2>2. /\ Alone(t) /\ pc'[t] = "started" /\ seen'[t].serial = slot[a].serial
        /\ seen'[t].generation = seen[t].generation /\ seen[t].generation \in Nat
    BY <1>1, <1>2, <2>1 DEF TypeOK, TaskTypes, Alone
  <2>3. /\ slot[a].serial = slot[a].generation + 1
        /\ slot[a].serial \in Nat /\ slot[a].generation \in Nat
    BY <1>1, <2>1 DEF UseInv, SlotInv, OneWorker, Ready, Count, TypeOK, WorkTypes, Slot
  <2>4. HeldInv(t)'
    BY <1>1, <1>2, <1>3, <2>2 DEF HeldInv, Leased, Sharing, Ensuring
  <2>5. Leased(t) => seen[t].generation <= slot[a].generation
    BY <1>1, <1>2 DEF SeenInv
  <2>6. Leased(t) => Delivered(t)'
    BY <1>2, <1>3, <2>1, <2>2, <2>3, <2>5 DEF Delivered
  <2>7. SeenInv(t)'
    BY <1>2, <1>3, <2>1, <2>2, <2>5, <2>6 DEF SeenInv, Leased
  <2> QED
    BY <1>3, <2>2, <2>4, <2>7 DEF Uses
<1> QED
  BY <1>4, <1>5

(* The ends of an opening.                                                  *)
LEMMA EndUses ==
  ASSUME UseInv, IInv', NEW t \in Tasks, SlotMoves(t),
         \/ OpenFails(t) \/ OpenCancelled(t) \/ OpenSucceeds(t)
         \/ SwapPublish(t) \/ SwapDiscard(t)
  PROVE  Uses(t)
<1> USE PoolAssumption
<1>1. TypeOK /\ HeldInv(t) /\ SeenInv(t) /\ TaskInv(t)
  BY DEF UseInv, IInv
<1>2. CASE Finish(t)
  BY <1>1, <1>2, FinishUses
<1>3. CASE Activate(t) /\ pc[t] \in {"started", "evicted"}
  <2> DEFINE a == acct[t]
  <2>1. a \in Accounts /\ pc[t] \in Started /\ pc[t] \in Ensuring
    BY <1>1, <1>3 DEF TaskInv, Opening, Reaping, Started, Ensuring
  <2>2. PICK s : /\ slot' = [slot EXCEPT ![a] = s]
                 /\ s \in ActivatePending(slot[a]) \/ s \in DiscardPending(slot[a])
                 /\ IF slot[a].pending = "none" THEN Deliver(t, seen[t].serial)
                    ELSE IF s.serial # slot[a].serial THEN Deliver(t, s.serial)
                    ELSE Finish(t)
    BY <1>3 DEF Activate
  <2>3. slot'[a] = s /\ s \in Slot
    BY <1>1, <2>1, <2>2 DEF TypeOK, WorkTypes, IInv
  <2>4. /\ WorkInv(s) /\ slot[a].generation <= s.generation /\ slot[a] \in Slot
        /\ slot[a].generation \in Nat /\ s.generation \in Nat /\ s.serial \in Nat
        /\ seen[t].generation \in Nat /\ seen[t].serial \in Nat
    BY <1>1, <2>1, <2>3, WorkKept DEF UseInv, TypeOK, TaskTypes, WorkTypes, Slot
  <2>5. op[t] = "serve" => seen[t].generation <= slot[a].generation
    BY <1>1 DEF SeenInv, Leased
  <2>6. CASE slot[a].pending = "none"
    <3>1. startup[a] # t
      BY <1>3, <2>1, <2>6 DEF UseInv, SlotInv, PoolAssumption
    <3>2. op[t] = "serve" => Delivered(t)
      BY <1>1, <2>1, <3>1 DEF SeenInv
    <3>3. op[t] = "serve" => /\ seen[t].generation < seen[t].serial
                             /\ seen[t].serial <= slot'[a].generation + 1
      BY <2>3, <2>4, <3>2 DEF Delivered
    <3> QED
      BY <2>1, <2>2, <2>4, <2>6, <3>3, DeliverUses
  <2>7. CASE slot[a].pending # "none" /\ s.serial # slot[a].serial
    <3>1. s.worker = "ready"
      <4>1. s \notin DiscardPending(slot[a])
        BY <2>4, <2>7, DiscardPendingSame DEF SameWorker
      <4> QED
        BY <2>2, <2>4, <2>7, <4>1, ActivatePendingEffect
    <3>2. s.serial = s.generation + 1
      BY <2>4, <3>1 DEF WorkInv, OneWorker, Count
    <3>3. op[t] = "serve" => /\ seen[t].generation < s.serial
                             /\ s.serial <= slot'[a].generation + 1
      BY <2>3, <2>4, <2>5, <3>2
    <3> QED
      BY <2>1, <2>2, <2>4, <2>7, <3>3, DeliverUses
  <2>8. CASE slot[a].pending # "none" /\ s.serial = slot[a].serial
    BY <1>2, <2>2, <2>8
  <2> QED
    BY <2>6, <2>7, <2>8
<1> QED
  BY <1>2, <1>3 DEF OpenFails, OpenCancelled, OpenSucceeds, SwapPublish, SwapDiscard, Discard

(* The eviction of a victim.                                                *)
LEMMA EvictUses ==
  ASSUME UseInv, IInv', NEW t \in Tasks, SlotMoves(t),
         \/ SwapEvict(t)
         \/ \E v \in Accounts :
              \/ EvictAsks(t, v) \/ EvictAcquire(t, v) \/ EvictLate(t, v)
              \/ EvictRefused(t, v) \/ EvictReset(t, v)
  PROVE  Uses(t)
<1> USE PoolAssumption
<1>1. TypeOK /\ HeldInv(t) /\ SeenInv(t) /\ TaskInv(t)
  BY DEF UseInv, IInv
<1>2. /\ pc[t] \in {"started", "evictAsk", "evict", "evicting"}
      /\ \E l \in Started : Goto(t, l)
      /\ UNCHANGED <<op, acct, seen, sharers, startup>>
      /\ \A u \in Tasks \ {t} : victim'[u] = victim[u]
  <2>1. CASE SwapEvict(t)
    BY <1>1, <2>1 DEF SwapEvict, Started, poolVars, workVars, TypeOK, TaskTypes
  <2>2. ASSUME NEW v \in Accounts,
               \/ EvictAsks(t, v) \/ EvictAcquire(t, v) \/ EvictLate(t, v)
               \/ EvictRefused(t, v) \/ EvictReset(t, v)
        PROVE  /\ pc[t] \in {"evictAsk", "evict", "evicting"}
               /\ \E l \in Started : Goto(t, l)
               /\ UNCHANGED <<op, acct, seen, sharers, startup>>
               /\ victim' = victim \/ victim' = [victim EXCEPT ![t] = None]
    BY <2>2 DEF EvictAsks, EvictAcquire, EvictLate, EvictRefused, EvictReset, LeavePool, workVars, Started
  <2> QED
    BY <1>1, <2>1, <2>2 DEF TypeOK, TaskTypes
<1>3. /\ pc'[t] \in Started /\ pc[t] \in Started /\ pc[t] \in Ensuring /\ pc'[t] \in Ensuring
      /\ op'[t] = op[t] /\ acct'[t] = acct[t] /\ seen'[t] = seen[t] /\ Alone(t)
  BY <1>1, <1>2 DEF Goto, TypeOK, TaskTypes, Started, Ensuring, Alone
<1>4. ASSUME NEW v \in Accounts, EvictAcquire(t, v)
      PROVE  Uses(t)
  <2>1. /\ victim[t] = v /\ exclusive[v] = None /\ sharers[v] = {} /\ victim' = victim
        /\ exclusive' = [exclusive EXCEPT ![v] = t] /\ pc'[t] = "evicting"
    BY <1>1, <1>4 DEF EvictAcquire, Free, Goto, TypeOK, TaskTypes
  <2>2. LeaseMoves(t) /\ victim'[t] \in Accounts /\ exclusive'[victim'[t]] = t
    BY <1>1, <1>2, <2>1 DEF LeaseMoves, TypeOK, PoolTypes
  <2>3. HeldInv(t)'
    BY <1>1, <1>2, <1>3, <2>1, <2>2 DEF HeldInv, Leased, Sharing
  <2>4. Leased(t) => /\ acct[t] \in Accounts /\ seen'[t].generation <= slot'[acct'[t]].generation
                     /\ Delivered(t) => Delivered(t)'
    BY <1>3, SeenCarried
  <2>5. SeenInv(t)'
    BY <1>1, <1>2, <1>3, <2>1, <2>4 DEF SeenInv, Leased
  <2> QED
    BY <1>3, <2>2, <2>3, <2>5 DEF Uses
<1>5. CASE \A v \in Accounts : ~EvictAcquire(t, v)
  <2>1. pc'[t] # "evicting"
    BY <1>1, <1>5 DEF SwapEvict, EvictAsks, EvictLate, EvictRefused, EvictReset, Goto, TypeOK, TaskTypes
  <2>2. HeldInv(t)' /\ SeenInv(t)'
    BY <1>2, <1>3, <2>1, EnsureOn
  <2>3. \/ exclusive' = exclusive
        \/ \E v \in Accounts : exclusive' = [exclusive EXCEPT ![v] = None] /\ exclusive[v] = t
    BY <1>1, <1>5 DEF SwapEvict, EvictAsks, EvictLate, EvictRefused, EvictReset, HeldInv, poolVars
  <2>4. LeaseMoves(t)
    BY <1>1, <1>2, <2>3 DEF LeaseMoves, TypeOK, PoolTypes
  <2> QED
    BY <1>3, <2>2, <2>4 DEF Uses
<1> QED
  BY <1>4, <1>5

(* A request using its worker.                                              *)
LEMMA ServeUses ==
  ASSUME UseInv, IInv', NEW t \in Tasks, SlotMoves(t), ServeStep(t)
  PROVE  Uses(t)
<1> USE PoolAssumption
<1>1. TypeOK /\ HeldInv(t) /\ SeenInv(t) /\ TaskInv(t)
  BY DEF UseInv, IInv
<1>2. CASE Finish(t)
  BY <1>1, <1>2, FinishUses
<1>3. CASE ServeUnauthorized(t) \/ \E a \in Accounts : Reauthorize(t, a) /\ ~Finish(t)
  <2>1. /\ pc[t] \in {"serving", "reauth"} /\ \E l \in {"loop", "reauth"} : Goto(t, l)
        /\ UNCHANGED <<op, acct, victim, seen, sharers, exclusive>>
    BY <1>3 DEF ServeUnauthorized, Reauthorize, poolVars
  <2>2. /\ pc'[t] \in {"loop", "reauth"} /\ op[t] = "serve" /\ op'[t] = "serve"
        /\ acct'[t] = acct[t] /\ seen'[t] = seen[t] /\ Alone(t)
    BY <1>1, <2>1 DEF Goto, TypeOK, TaskTypes, Alone, SeenInv
  <2>3. HeldInv(t)'
    BY <1>1, <2>1, <2>2 DEF HeldInv, Leased, Sharing, Ensuring
  <2>4. acct[t] \in Accounts /\ seen'[t].generation <= slot'[acct'[t]].generation
    BY <2>2, SeenCarried DEF Leased
  <2>5. SeenInv(t)'
    BY <2>2, <2>4 DEF SeenInv, Started
  <2> QED
    BY <2>1, <2>2, <2>3, <2>5 DEF Uses, LeaseMoves
<1>4. ASSUME NEW a \in Accounts, ServeFails(t, a) PROVE Uses(t)
  <2>1. /\ pc[t] = "serving" /\ Goto(t, "recoverWait") /\ sharers' = [sharers EXCEPT ![a] = @ \ {t}]
        /\ UNCHANGED <<op, acct, victim, seen, exclusive>>
    BY <1>4 DEF ServeFails
  <2>2. /\ pc'[t] = "recoverWait" /\ op[t] = "serve" /\ op'[t] = "serve"
        /\ acct'[t] = acct[t] /\ seen'[t] = seen[t] /\ Alone(t) /\ Delivered(t)
    BY <1>1, <2>1 DEF Goto, TypeOK, TaskTypes, Alone, SeenInv
  <2>3. HeldInv(t)'
    BY <2>2 DEF HeldInv, Leased, Sharing, Ensuring
  <2>4. /\ acct[t] \in Accounts /\ seen'[t].generation <= slot'[acct'[t]].generation
        /\ Delivered(t)'
    BY <2>2, SeenCarried DEF Leased
  <2>5. SeenInv(t)'
    BY <2>2, <2>4 DEF SeenInv, Started
  <2>6. LeaseMoves(t)
    BY <1>1, <2>1 DEF LeaseMoves, TypeOK, PoolTypes
  <2> QED
    BY <2>2, <2>3, <2>5, <2>6 DEF Uses
<1> QED
  BY <1>2, <1>3, <1>4 DEF ServeStep, ServeEnds, RecoverReset

(* Management calls.                                                        *)
LEMMA AdminUses ==
  ASSUME UseInv, IInv', NEW t \in Tasks, SlotMoves(t), AdminStep(t)
  PROVE  Uses(t)
<1> USE PoolAssumption
<1>1. TypeOK /\ HeldInv(t) /\ SeenInv(t) /\ TaskInv(t)
  BY DEF UseInv, IInv
<1>2. CASE Finish(t)
  BY <1>1, <1>2, FinishUses
<1>3. ASSUME NEW l \in {"recovering", "updating", "saving", "removing", "removeClose"},
             Goto(t, l), UNCHANGED <<op, acct, victim, seen>>, sharers' = sharers,
             LeaseMoves(t),
             l \in {"recovering", "updating"} => exclusive'[acct[t]] = t,
             l = "recovering" => pc[t] = "recoverWait"
      PROVE  Uses(t)
  <2>1. /\ pc'[t] = l /\ op'[t] = op[t] /\ acct'[t] = acct[t] /\ seen'[t] = seen[t] /\ Alone(t)
    BY <1>1, <1>3 DEF Goto, TypeOK, TaskTypes, Alone
  <2>2. HeldInv(t)'
    BY <1>1, <1>3, <2>1 DEF HeldInv, Leased, Sharing, Ensuring
  <2>3. Leased(t) => /\ acct[t] \in Accounts /\ seen'[t].generation <= slot'[acct'[t]].generation
                     /\ Delivered(t) => Delivered(t)'
    BY <2>1, SeenCarried
  <2>4. l = "recovering" => op[t] = "serve" /\ Delivered(t)
    BY <1>1, <1>3 DEF SeenInv
  <2>5. SeenInv(t)'
    BY <1>3, <2>1, <2>3, <2>4 DEF SeenInv, Started, Leased
  <2> QED
    BY <1>3, <2>1, <2>2, <2>5 DEF Uses
<1>4. ASSUME NEW a \in Accounts, AcquireExclusive(t, a) PROVE Uses(t)
  <2>1. /\ pc[t] \in {"recoverWait", "updateWait"} /\ acct[t] = a
        /\ exclusive[a] = None /\ sharers[a] = {}
        /\ exclusive' = [exclusive EXCEPT ![a] = t] /\ sharers' = sharers
        /\ UNCHANGED <<op, acct, victim, seen>>
        /\ Goto(t, IF pc[t] = "recoverWait" THEN "recovering" ELSE "updating")
    BY <1>4 DEF AcquireExclusive, Free, LeavePool
  <2>2. LeaseMoves(t) /\ exclusive'[acct[t]] = t
    BY <1>1, <2>1 DEF LeaseMoves, TypeOK, PoolTypes
  <2> QED
    BY <1>3, <2>1, <2>2
<1>5. ASSUME NEW a \in Accounts,
             \/ UpdatePrepare(t, a) \/ RemoveReset(t, a) \/ RemoveUnregister(t, a),
             ~Finish(t)
      PROVE  Uses(t)
  <2>1. /\ \E l \in {"saving", "removing", "removeClose"} : Goto(t, l)
        /\ UNCHANGED <<op, acct, victim, seen, sharers>>
    BY <1>5 DEF UpdatePrepare, RemoveReset, RemoveUnregister, poolVars
  <2>2. \/ exclusive' = exclusive
        \/ exclusive' = [exclusive EXCEPT ![a] = None] /\ exclusive[a] = t
    BY <1>1, <1>5 DEF UpdatePrepare, RemoveReset, RemoveUnregister, poolVars, HeldInv
  <2>3. LeaseMoves(t)
    BY <1>1, <2>1, <2>2 DEF LeaseMoves, TypeOK, PoolTypes
  <2> QED
    BY <1>3, <2>1, <2>3
<1>6. ASSUME NEW a \in Accounts, CloseOne(t, a) PROVE Uses(t)
  <2>1. UNCHANGED <<pc, op, acct, victim, seen, sharers, exclusive, closed, startup>>
    BY <1>6 DEF CloseOne, taskVars, poolVars
  <2>2. op[t] = "close"
    BY <1>1, <1>6 DEF HeldInv, CloseOne
  <2> QED
    BY <1>1, <1>6, <2>1, <2>2 DEF Uses, Alone, LeaseMoves, HeldInv, SeenInv, Leased, Started, CloseOne
<1> QED
  BY <1>2, <1>4, <1>5, <1>6 DEF AdminStep, AcquireGivesUp, ReapGivesUp, ReapEnds, CloseEnds,
     ReapReset, Reset, RemoveClose, UpdateEnds

(* Every step of a task.                                                    *)
LEMMA TaskUses ==
  ASSUME UseInv, IInv', NEW t \in Tasks, SlotMoves(t), Begins(t) \/ Cancel(t) \/ Proceeds(t)
  PROVE  Uses(t)
<1>1. CASE EnsureStep(t)
  BY <1>1, LoopUses, StartUses, EndUses, EvictUses DEF EnsureStep
<1> QED
  BY <1>1, BeginsUse, ServeUses, AdminUses DEF Proceeds

-----------------------------------------------------------------------------
(* Close.                                                                   *)

(* closed stays, accounts only leave, and Close goes from one to the next.  *)
ManagerMoves(t) ==
  /\ registered' \subseteq registered
  /\ pc[t] = "closing" => pc'[t] = "closing" \/ todo' = {}
  /\ \/ UNCHANGED <<closed, todo>>
     \/ ~closed /\ closed' /\ todo' = registered /\ pc'[t] = "closing"
     \/ /\ UNCHANGED closed
        /\ \E a \in Accounts :
             /\ todo' = todo \ {a} /\ startup[a] = None
             /\ \/ slot' = [slot EXCEPT ![a] = slot[a]] /\ Empty(slot[a])
                \/ \E s \in CloseAccountWorker(slot[a]) : slot' = [slot EXCEPT ![a] = s]

(* Only Close sets closed and takes accounts off its list.                  *)
LEMMA TaskManager ==
  ASSUME TypeOK, NEW t \in Tasks, Begins(t) \/ Cancel(t) \/ Proceeds(t)
  PROVE  ManagerMoves(t)
<1>1. CASE BeginClose(t)
  BY <1>1 DEF BeginClose, Goto, ManagerMoves, TypeOK, TaskTypes
<1>2. ASSUME NEW a \in Accounts, CloseOne(t, a) PROVE ManagerMoves(t)
  <2>1. /\ UNCHANGED <<closed, registered, pc>> /\ todo' = todo \ {a} /\ startup[a] = None
        /\ \E s \in IF Empty(slot[a]) THEN {slot[a]} ELSE CloseAccountWorker(slot[a]) :
             slot' = [slot EXCEPT ![a] = s]
    BY <1>2 DEF CloseOne, taskVars
  <2> QED
    BY <2>1 DEF ManagerMoves
<1>3. CASE CloseEnds(t)
  BY <1>3 DEF CloseEnds, ManagerMoves, mgrVars
<1>4. CASE Cancel(t)
  BY <1>4 DEF Cancel, ManagerMoves, taskVars, mgrVars
<1>5. ASSUME NEW a \in Accounts,
             \/ \E o \in {"serve", "promote"} : BeginLeased(t, a, o)
             \/ BeginExpand(t, a) \/ BeginPrewarm(t, a) \/ BeginReap(t, a)
             \/ BeginUpdate(t, a) \/ BeginReset(t, a) \/ BeginRemove(t, a)
      PROVE  ManagerMoves(t)
  <2>1. pc[t] = "idle" /\ UNCHANGED <<registered, closed, todo>>
    BY <1>5 DEF BeginLeased, BeginExpand, BeginPrewarm, BeginReap, BeginUpdate, BeginReset,
       BeginRemove, Begin, mgrVars
  <2> QED
    BY <2>1 DEF ManagerMoves
<1>6. CASE EnsureStep(t)
  <2>1. CASE \/ EnsureCancelled(t) \/ EnsureOpening(t) \/ EnsureResume(t)
             \/ EnsureRefused(t) \/ EnsureReady(t)
             \/ EnsureSlot(t) \/ EnsureSwap(t) \/ EnsureNoRoom(t)
    <3>1. pc[t] \in {"loop", "await"} /\ UNCHANGED <<registered, closed, todo>>
      BY <2>1 DEF EnsureCancelled, EnsureOpening, EnsureResume, EnsureRefused, EnsureReady,
         EnsureSlot, EnsureSwap, EnsureNoRoom, MustStart, InLoop, mgrVars
    <3> QED
      BY <3>1 DEF ManagerMoves
  <2>2. ASSUME NEW a \in Accounts,
               \/ StartRefused(t, a) \/ StartFound(t, a) \/ StartLaunch(t, a)
               \/ LaunchSucceeds(t, a) \/ LaunchFails(t, a)
        PROVE  ManagerMoves(t)
    <3>1. pc[t] \in {"starting", "launching"} /\ UNCHANGED <<registered, closed, todo>>
      BY <2>2 DEF StartRefused, StartFound, StartLaunch, StartingOn, LaunchSucceeds,
         LaunchFails, mgrVars
    <3> QED
      BY <3>1 DEF ManagerMoves
  <2>3. CASE \/ OpenFails(t) \/ OpenCancelled(t) \/ OpenSucceeds(t) \/ SwapEvict(t)
             \/ SwapPublish(t) \/ SwapDiscard(t)
    <3>1. /\ pc[t] \in {"startFailed", "started", "evicted", "evictFailed"}
          /\ UNCHANGED <<registered, closed, todo>>
      BY <2>3 DEF OpenFails, OpenCancelled, OpenSucceeds, SwapEvict, SwapPublish, SwapDiscard,
         CloseOpening
    <3> QED
      BY <3>1 DEF ManagerMoves
  <2>4. ASSUME NEW v \in Accounts,
               \/ EvictAsks(t, v) \/ EvictAcquire(t, v) \/ EvictLate(t, v)
               \/ EvictRefused(t, v) \/ EvictReset(t, v)
        PROVE  ManagerMoves(t)
    <3>1. pc[t] \in {"evictAsk", "evict", "evicting"} /\ UNCHANGED <<registered, closed, todo>>
      BY <2>4 DEF EvictAsks, EvictAcquire, EvictLate, EvictRefused, EvictReset, mgrVars
    <3> QED
      BY <3>1 DEF ManagerMoves
  <2> QED
    BY <1>6, <2>1, <2>2, <2>3, <2>4 DEF EnsureStep
<1>7. CASE ServeStep(t)
  <2>1. pc[t] \in {"serving", "reauth", "recovering"} /\ UNCHANGED <<registered, closed, todo>>
    BY <1>7 DEF ServeStep, ServeEnds, ServeUnauthorized, ServeFails, Reauthorize, RecoverReset,
       mgrVars
  <2> QED
    BY <2>1 DEF ManagerMoves
<1>8. CASE AcquireGivesUp(t) \/ ReapGivesUp(t)
  <2>1. /\ pc[t] \in {"recoverWait", "updateWait", "evict"}
        /\ UNCHANGED <<registered, closed, todo>>
    BY <1>8 DEF AcquireGivesUp, ReapGivesUp, ReapEnds, mgrVars
  <2> QED
    BY <2>1 DEF ManagerMoves
<1>9. ASSUME NEW a \in Accounts,
             \/ ReapReset(t, a) \/ AcquireExclusive(t, a) \/ UpdatePrepare(t, a)
             \/ UpdateEnds(t, a) \/ Reset(t, a) \/ RemoveReset(t, a)
             \/ RemoveUnregister(t, a) \/ RemoveClose(t, a)
      PROVE  ManagerMoves(t)
  <2>1. /\ pc[t] # "closing" /\ UNCHANGED <<closed, todo>> /\ registered' \subseteq registered
    BY <1>9 DEF ReapReset, ReapEnds, AcquireExclusive, UpdatePrepare, UpdateEnds, Reset,
       RemoveReset, RemoveUnregister, RemoveClose, mgrVars
  <2> QED
    BY <2>1 DEF ManagerMoves
<1> QED
  BY <1>1, <1>2, <1>3, <1>4, <1>5, <1>6, <1>7, <1>8, <1>9
  DEF Begins, Proceeds, AdminStep

(* What Close has emptied stays empty.                                      *)
LEMMA ClosedKept ==
  ASSUME UseInv, IInv', NEW t \in Tasks, SlotMoves(t), Alone(t), ManagerMoves(t)
  PROVE  ClosedInv'
<1> USE PoolAssumption
<1>1. ASSUME todo' # {} PROVE \E u \in Tasks : pc'[u] = "closing"
  <2>1. CASE todo # {}
    <3>1. PICK u \in Tasks : pc[u] = "closing"
      BY <2>1 DEF UseInv, ClosedInv
    <3> QED
      BY <1>1, <3>1 DEF Alone, ManagerMoves
  <2>2. CASE todo = {}
    BY <1>1, <2>2 DEF ManagerMoves
  <2> QED
    BY <2>1, <2>2
<1>2. ASSUME closed', ~CloseMayFail, ~ReleaseMayFail, NEW a \in registered' \ todo'
      PROVE  Shut(a)'
  <2>1. a \in registered /\ a \in Accounts /\ SlotInv(a) /\ AccountInv(a)
    BY <1>2 DEF ManagerMoves, UseInv, IInv, TypeOK, ManagerTypes
  <2>2. closed
    BY <1>2, <2>1 DEF ManagerMoves
  <2>3. CASE a \notin todo
    <3>1. Shut(a)
      BY <1>2, <2>1, <2>2, <2>3 DEF UseInv, ClosedInv
    <3> QED
      BY <1>2, <2>1, <2>2, <3>1, ShutKept DEF UseInv
  <2>4. CASE a \in todo
    <3>1. /\ startup[a] = None
          /\ \/ slot' = [slot EXCEPT ![a] = slot[a]] /\ Empty(slot[a])
             \/ \E s \in CloseAccountWorker(slot[a]) : slot' = [slot EXCEPT ![a] = s]
      BY <1>2, <2>2, <2>4 DEF ManagerMoves
    <3>2. slot \in [Accounts -> Slot] /\ Quiet(slot[a]) /\ Released(slot[a])
      BY <1>2, <2>1, <3>1 DEF UseInv, IInv, TypeOK, WorkTypes, AccountInv, Quiet, SlotInv
    <3>3. CASE slot' = [slot EXCEPT ![a] = slot[a]] /\ Empty(slot[a])
      BY <2>1, <3>2, <3>3 DEF Shut, Quiet
    <3>4. CASE \E s \in CloseAccountWorker(slot[a]) : slot' = [slot EXCEPT ![a] = s]
      <4>1. PICK s \in CloseAccountWorker(slot[a]) : slot' = [slot EXCEPT ![a] = s]
        BY <3>4
      <4>2. Empty(s) /\ s.pending = "none"
        BY <1>2, <3>2, <4>1, CloseAccountWorkerQuiet, CloseAccountWorkerLeft DEF Quiet
      <4> QED
        BY <2>1, <3>2, <4>1, <4>2 DEF Shut
    <3> QED
      BY <3>1, <3>3, <3>4
  <2> QED
    BY <2>3, <2>4
<1> QED
  BY <1>1, <1>2 DEF ClosedInv

-----------------------------------------------------------------------------
(* The invariant.                                                           *)

(* A step of a task keeps the invariant.                                    *)
LEMMA TaskKeeps ==
  ASSUME UseInv, IInv', NEW t \in Tasks, Begins(t) \/ Cancel(t) \/ Proceeds(t)
  PROVE  UseInv'
<1> USE PoolAssumption
<1>1. Moves(t) /\ SlotMoves(t) /\ StartupMoves(t)
  BY TaskMoves DEF UseInv, Moves
<1>2. Alone(t) /\ LeaseMoves(t) /\ HeldInv(t)' /\ SeenInv(t)'
  BY <1>1, TaskUses DEF Uses
<1>3. ManagerMoves(t)
  BY TaskManager DEF UseInv, IInv
<1>4. ASSUME NEW a \in Accounts PROVE LockInv(a)'
  BY <1>2 DEF LeaseMoves, UseInv, LockInv, IInv, TypeOK, PoolTypes
<1>5. ASSUME NEW a \in Accounts PROVE SlotInv(a)'
  <2>1. \A u \in Tasks \ {t} : pc'[u] = pc[u]
    BY <1>2 DEF Alone
  <2> QED
    BY <1>1, <2>1, SlotKept DEF UseInv
<1>6. ASSUME NEW u \in Tasks \ {t} PROVE HeldInv(u)' /\ SeenInv(u)'
  <2>1. HeldInv(u) /\ SeenInv(u) /\ TaskInv(u) /\ u # None
    BY DEF UseInv, IInv, PoolAssumption
  <2>2. /\ pc'[u] = pc[u] /\ op'[u] = op[u] /\ acct'[u] = acct[u]
        /\ victim'[u] = victim[u] /\ seen'[u] = seen[u]
    BY <1>2 DEF Alone
  <2>3. \A a \in Accounts : /\ exclusive[a] = u => exclusive'[a] = u
                            /\ u \in sharers[a] => u \in sharers'[a]
    BY <1>2, <2>1 DEF LeaseMoves
  <2>4. pc[u] = "evicting" => victim[u] \in Accounts
    BY <2>1 DEF HeldInv
  <2>5. /\ pc[u] \in {"recovering", "updating", "removeReset"} => acct[u] \in Accounts
        /\ Leased(u) => acct[u] \in Accounts
    BY <2>1 DEF TaskInv, Opening, SeenInv
  <2>6. closed => closed'
    BY <1>3 DEF ManagerMoves
  <2>7. HeldInv(u)'
    BY <2>1, <2>2, <2>3, <2>4, <2>5, <2>6 DEF HeldInv, Leased
  <2>8. CASE Leased(u)
    <3>1. /\ acct[u] \in Accounts /\ seen'[u].generation <= slot'[acct'[u]].generation
          /\ Delivered(u) => Delivered(u)'
      BY <1>1, <2>2, <2>8, SeenCarried
    <3>2. startup[acct[u]] = u => startup'[acct[u]] = u
      BY <1>1, <2>1, <3>1 DEF StartupMoves
    <3> QED
      BY <2>1, <2>2, <2>7, <3>1, <3>2 DEF SeenInv, Leased
  <2>9. CASE ~Leased(u)
    BY <2>1, <2>2, <2>7, <2>9 DEF SeenInv, Leased
  <2> QED
    BY <2>8, <2>9
<1>7. ClosedInv'
  BY <1>1, <1>2, <1>3, ClosedKept
<1> QED
  BY <1>2, <1>4, <1>5, <1>6, <1>7 DEF UseInv

(* A process that fails or recovers is still the same worker.               *)
LEMMA ProcessUses ==
  ASSUME UseInv, NEW a \in Accounts, WorkerFails(a) \/ WorkerRecovers(a)
  PROVE  UseInv'
<1>1. IInv' /\ slot \in [Accounts -> Slot]
  BY ProcessKeeps DEF UseInv, IInv, TypeOK, WorkTypes
<1>2. PICK w \in {"ready", "failed"} : slot' = [slot EXCEPT ![a] = [slot[a] EXCEPT !.worker = w]]
  BY DEF WorkerFails, WorkerRecovers
<1>3. /\ slot[a].worker # "none"
      /\ UNCHANGED <<pc, op, acct, victim, seen, sharers, exclusive, registered, closed, todo, startup>>
  BY DEF WorkerFails, WorkerRecovers, taskVars, poolVars, mgrVars
<1> DEFINE r == [slot[a] EXCEPT !.worker = w]
<1>4. /\ r.generation = slot[a].generation /\ r.serial = slot[a].serial
      /\ r.config = slot[a].config /\ r.workerConfig = slot[a].workerConfig
      /\ r.pendingConfig = slot[a].pendingConfig /\ r.pending = slot[a].pending
      /\ r.worker # "none" /\ (Released(slot[a]) => Released(r))
  BY <1>1 DEF Slot, Released
<1>5. Tidy(slot[a]) => Tidy(r)
  BY <1>1, <1>3 DEF Slot, Tidy, Empty
<1>6. slot'[a] = r /\ \A b \in Accounts \ {a} : slot'[b] = slot[b]
  BY <1>1, <1>2
<1> HIDE DEF r
<1>7. ASSUME NEW b \in Accounts PROVE SlotInv(b)' /\ LockInv(b)'
  <2>1. SlotInv(b) /\ LockInv(b)
    BY DEF UseInv
  <2>2. CASE b = a
    BY <1>3, <1>4, <1>6, <1>5, <2>1, <2>2 DEF SlotInv, LockInv, OneWorker, Count
  <2>3. CASE b # a
    BY <1>3, <1>6, <2>1, <2>3 DEF SlotInv, LockInv
  <2> QED
    BY <2>2, <2>3
<1>8. ASSUME NEW t \in Tasks PROVE HeldInv(t)' /\ SeenInv(t)'
  <2>1. HeldInv(t) /\ SeenInv(t) /\ \A b \in Accounts : slot'[b].generation = slot[b].generation
    BY <1>4, <1>6 DEF UseInv
  <2>2. HeldInv(t)'
    BY <1>3, <2>1 DEF HeldInv, Leased
  <2>3. Leased(t) => slot'[acct[t]].generation = slot[acct[t]].generation
    BY <2>1 DEF SeenInv
  <2>4. pc[t] \in {"serving", "recoverWait", "recovering"} => Leased(t)
    BY <2>1 DEF SeenInv, Leased
  <2>5. SeenInv(t)'
    BY <1>3, <2>1, <2>3, <2>4 DEF SeenInv, Leased, Delivered
  <2> QED
    BY <2>2, <2>5
<1>9. ClosedInv'
  <2>1. \A b \in registered \ todo : Shut(b) => b # a
    BY <1>3 DEF Shut, Empty
  <2> QED
    BY <1>3, <1>6, <2>1 DEF UseInv, IInv, TypeOK, ManagerTypes, ClosedInv, Shut
<1> QED
  BY <1>1, <1>7, <1>8, <1>9 DEF UseInv

(* The invariant holds initially.                                           *)
LEMMA UseInit == Init => UseInv
<1> SUFFICES ASSUME Init PROVE UseInv
  OBVIOUS
<1>1. \A t \in Tasks : HeldInv(t) /\ SeenInv(t)
  BY DEF Init, HeldInv, SeenInv, Leased, Ensuring, Started
<1>2. \A a \in Accounts : LockInv(a) /\ SlotInv(a)
  BY DEF Init, LockInv, SlotInv, NewSlot, OneWorker, Count, Released, Tidy, Empty
<1>3. ClosedInv
  BY DEF Init, ClosedInv
<1> QED
  BY <1>1, <1>2, <1>3, InitInv DEF UseInv

(* Every step keeps the invariant.                                          *)
LEMMA UseNext == UseInv /\ [Next]_vars => UseInv'
<1> SUFFICES ASSUME UseInv, [Next]_vars PROVE UseInv'
  OBVIOUS
<1>1. IInv'
  BY NextInv DEF UseInv
<1>2. CASE UNCHANGED vars
  BY <1>1, <1>2 DEF vars, taskVars, poolVars, mgrVars, workVars, UseInv, HeldInv, SeenInv,
     LockInv, SlotInv, ClosedInv, Leased, Delivered, Shut
<1> QED
  BY <1>1, <1>2, TaskKeeps, ProcessUses DEF Next

(* The leases, the slots and what the requests have read stay in step.      *)
THEOREM UseInvariance == Spec => []UseInv
  BY UseInit, UseNext, PTL DEF Spec

-----------------------------------------------------------------------------
(* The theorems.                                                            *)

(* No worker with the options of before an account update: whichever        *)
(* launches, closes and updates meet.                                       *)
THEOREM ConfigCurrent == Spec => []WorkerConfigCurrent
<1>1. UseInv => WorkerConfigCurrent
  BY DEF UseInv, SlotInv, WorkerConfigCurrent
<1> QED
  BY <1>1, UseInvariance, PTL

(* Unless a close fails no browser is left behind by a failed launch: every *)
(* process an account runs is then guarded by its lease, whichever launches *)
(* and releases fail.                                                       *)
THEOREM NoStray ==
  ASSUME ~CloseMayFail
  PROVE  Spec => [](ProfileGuarded /\ \A a \in Accounts : ~slot[a].stray)
<1>1. UseInv => \A a \in Accounts : ~slot[a].stray
  BY DEF UseInv, SlotInv, Tidy
<1> QED
  BY <1>1, UseInvariance, Guarded, PTL

(* After Close nothing is left and nothing comes back, unless a close or a  *)
(* release failed.                                                          *)
THEOREM NothingLeft ==
  ASSUME ~CloseMayFail, ~ReleaseMayFail
  PROVE  Spec => []ClosedMeansEmpty
<1>1. UseInv => ClosedMeansEmpty
  <2> SUFFICES ASSUME UseInv, closed, \A t \in Tasks : op[t] # "close", NEW a \in registered
               PROVE  Empty(slot[a]) /\ slot[a].pending = "none" /\ ~slot[a].stray
    BY DEF ClosedMeansEmpty
  <2>1. \A t \in Tasks : pc[t] # "closing"
    BY DEF UseInv, HeldInv
  <2>2. todo = {}
    BY <2>1 DEF UseInv, ClosedInv
  <2>3. a \in Accounts
    BY DEF UseInv, IInv, TypeOK, ManagerTypes
  <2>4. ~slot[a].stray
    BY <2>3 DEF UseInv, SlotInv, Tidy
  <2> QED
    BY <2>2, <2>4 DEF UseInv, ClosedInv, Shut
<1> QED
  BY <1>1, UseInvariance, PTL

(* rebalanceMu never waits for the startupMu of a task that waits for       *)
(* rebalanceMu, as long as every call that opens an account holds a lease   *)
(* of it: an eviction needs the exclusive one.                              *)
THEOREM NoCycle ==
  ASSUME Ops \cap {"expand", "prewarm"} = {}
  PROVE  Spec => []NoLockCycle
<1> USE PoolAssumption
<1>1. UseInv => NoLockCycle
  <2> SUFFICES ASSUME UseInv, NEW t \in Tasks, pc[t] = "evicting", victim[t] \in registered,
                      startup[victim[t]] # None, pc[startup[victim[t]]] = "started"
               PROVE  FALSE
    BY DEF NoLockCycle
  <2> DEFINE v == victim[t]
             u == startup[v]
  <2>1. v \in Accounts /\ exclusive[v] = t /\ sharers[v] = {}
    BY DEF UseInv, HeldInv, LockInv, PoolAssumption
  <2>2. u \in Tasks /\ acct[u] = v
    BY <2>1 DEF UseInv, IInv, TypeOK, WorkTypes, AccountInv
  <2>3. HeldInv(u) /\ TaskInv(u)
    BY <2>2 DEF UseInv, IInv
  <2>4. op[u] \in {"serve", "promote"}
    BY <2>3 DEF HeldInv, TaskInv, Ensuring, Reaping
  <2>5. u \in sharers[v]
    BY <2>2, <2>3, <2>4 DEF HeldInv, Leased, Sharing, Ensuring
  <2> QED
    BY <2>1, <2>5
<1> QED
  BY <1>1, UseInvariance, PTL

(* An eviction, a recovery or an account update never closes a worker under *)
(* a request: they hold the exclusive lease.                                *)
THEOREM UsersAreSpared == Spec => UsersSpared
<1>1. UseInv /\ [Next]_vars =>
        \A a \in Accounts :
          slot[a].worker \in {"ready", "failed"} /\ slot'[a].worker \in {"none", "closing"} /\ Using(a) # {} =>
            \/ closed
            \/ \E t \in Tasks : acct[t] = a /\ pc[t] \in {"reauth", "resetting", "removeClose", "started", "evicted"}
  <2> SUFFICES ASSUME UseInv, [Next]_vars, NEW a \in Accounts,
                      slot[a].worker \in {"ready", "failed"},
                      slot'[a].worker \in {"none", "closing"}, Using(a) # {}
               PROVE  \/ closed
                      \/ \E t \in Tasks : acct[t] = a /\ pc[t] \in {"reauth", "resetting", "removeClose", "started", "evicted"}
    OBVIOUS
  <2>1. slot[a] \in Slot /\ slot \in [Accounts -> Slot]
    BY DEF UseInv, IInv, TypeOK, WorkTypes
  <2>2. slot'[a] # slot[a]
    OBVIOUS
  <2>3. ASSUME NEW b \in Accounts, WorkerFails(b) \/ WorkerRecovers(b) PROVE FALSE
    <3>1. PICK w \in {"ready", "failed"} : slot' = [slot EXCEPT ![b] = [slot[b] EXCEPT !.worker = w]]
      BY <2>3 DEF WorkerFails, WorkerRecovers
    <3>2. [slot[b] EXCEPT !.worker = w].worker = w
      BY <2>1 DEF Slot
    <3> QED
      BY <2>1, <2>2, <3>1, <3>2
  <2>4. PICK t \in Tasks : Begins(t) \/ Cancel(t) \/ Proceeds(t)
    BY <2>2, <2>3 DEF Next, vars, workVars
  <2>5. SlotMoves(t)
    BY <2>4, TaskMoves DEF UseInv, Moves
  <2>6. CASE Closes(t, a)
    <3>1. HeldInv(t) /\ (exclusive[a] = t => sharers[a] = {})
      BY PoolAssumption DEF UseInv, LockInv, PoolAssumption
    <3>2. exclusive[a] # t
      BY <3>1, PoolAssumption DEF Using
    <3> QED
      BY <2>6, <3>1, <3>2 DEF Closes, MayClose, HeldInv
  <2>7. CASE Prepares(t, a)
    <3>1. CASE slot'[a] = Launch(slot[a])
      BY <2>1, <3>1, LaunchRecords
    <3>2. CASE slot'[a] \in AbortLaunch(slot[a]) \cup DiscardPending(slot[a])
      BY <2>1, <3>2, AbortLaunchSame, DiscardPendingSame DEF SameWorker
    <3>3. CASE pc[t] \in {"started", "evicted"}
      BY <2>7, <3>3 DEF Prepares
    <3> QED
      BY <2>7, <3>1, <3>2, <3>3 DEF Prepares
  <2>8. CASE Saves(t, a)
    BY <2>1, <2>8 DEF Saves, Slot
  <2> QED
    BY <2>2, <2>5, <2>6, <2>7, <2>8 DEF SlotMoves
<1> QED
  BY <1>1, UseInvariance, PTL DEF Spec, UsersSpared

(* A recovery stops the worker that the failed request was using.           *)
THEOREM RecoveryHitsTarget == Spec => RecoveryOnTarget
<1>1. UseInv /\ [Next]_vars =>
        \A t \in Tasks, a \in Accounts :
          /\ pc[t] = "recovering" /\ pc'[t] = "idle" /\ acct[t] = a
          /\ slot[a].worker # "none" /\ slot'[a] # slot[a]
          => slot[a].serial = seen[t].serial
  <2> SUFFICES ASSUME UseInv, [Next]_vars, NEW t \in Tasks, NEW a \in Accounts,
                      pc[t] = "recovering", pc'[t] = "idle", acct[t] = a,
                      slot[a].worker # "none", slot'[a] # slot[a]
               PROVE  slot[a].serial = seen[t].serial
    OBVIOUS
  <2>1. \A b \in Accounts : ~WorkerFails(b) /\ ~WorkerRecovers(b)
    BY DEF WorkerFails, WorkerRecovers, taskVars
  <2>2. PICK u \in Tasks : Begins(u) \/ Cancel(u) \/ Proceeds(u)
    BY <2>1 DEF Next, vars, taskVars
  <2>3. SlotMoves(u)
    BY <2>2, TaskMoves DEF UseInv, Moves
  <2>4. u = t
    <3>1. IInv'
      BY NextInv DEF UseInv
    <3>2. Alone(u)
      BY <2>2, <2>3, <3>1, TaskUses DEF Uses
    <3> QED
      BY <3>2 DEF Alone
  <2>5. slot[a].generation = seen[t].generation
    BY <2>3, <2>4 DEF SlotMoves, Closes, MayClose, Prepares, Saves
  <2>6. SeenInv(t) /\ SlotInv(a)
    BY DEF UseInv
  <2>7. /\ slot[a].generation \in Nat /\ slot[a].serial \in Nat
        /\ seen[t].serial \in Nat
    BY DEF UseInv, IInv, TypeOK, TaskTypes, WorkTypes, Slot
  <2> QED
    BY <2>5, <2>6, <2>7 DEF SeenInv, SlotInv, Delivered, OneWorker, Count
<1> QED
  BY <1>1, UseInvariance, PTL DEF Spec, RecoveryOnTarget

-----------------------------------------------------------------------------
(* An account without a worker gets one only from the task that opens it.   *)
LEMMA Gains ==
  ASSUME IInv, NEW t \in Tasks, SlotMoves(t), NEW a \in Accounts,
         slot[a].worker = "none", slot'[a].worker # "none"
  PROVE  /\ acct[t] = a /\ pc[t] \in {"started", "evicted"} /\ openings[a] = t
         /\ slot'[a] \notin DiscardPending(slot[a])
<1>1. slot[a] \in Slot /\ AccountInv(a) /\ TaskInv(t)
  BY DEF IInv, TypeOK, WorkTypes
<1>2. ~Closes(t, a)
  <2> SUFFICES ASSUME Closes(t, a) PROVE FALSE
    OBVIOUS
  <2>1. Quiet(slot[a]) /\ slot'[a] \in CloseAccountWorker(slot[a])
    BY <1>1 DEF Closes, AccountInv, Quiet
  <2> QED
    BY <2>1, CloseAccountWorkerLeft DEF WorkerLeft
<1>3. slot'[a] # Launch(slot[a])
  BY <1>1, LaunchRecords
<1>4. slot'[a] \notin AbortLaunch(slot[a]) \cup DiscardPending(slot[a])
  BY <1>1, AbortLaunchSame, DiscardPendingSame DEF SameWorker
<1>5. ~Saves(t, a)
  BY <1>1 DEF Saves, Slot
<1>6. acct[t] = a /\ pc[t] \in {"started", "evicted"}
  BY <1>2, <1>3, <1>4, <1>5 DEF SlotMoves, Prepares
<1> QED
  BY <1>1, <1>4, <1>6, PoolAssumption DEF TaskInv, Opening, Reaping

-----------------------------------------------------------------------------
(* The inductive invariant.                                                 *)

(* A place in the pool is taken by a worker or by an opening that found     *)
(* room, and passes to the replacement of a worker that has gone.           *)
Resides(a) == slot[a].worker # "none" \/ (openings[a] # None /\ ~swap[openings[a]])
Replaces(a) == openings[a] # None /\ swap[openings[a]] /\ victim[openings[a]] # None
Inherits(a) == Replaces(a) /\ ~Resides(victim[openings[a]])
Places == {a \in Accounts : Resides(a) \/ Inherits(a)}

(* evictIdleWorker and what follows it run under rebalanceMu.               *)
Evicting == {"evictAsk", "evict", "evicting", "evicted", "evictFailed"}

PlaceInv(t) ==
  /\ swap[t] /\ victim[t] # None => victim[t] \in victims
  /\ victim[t] # None => swap[t] \/ Reaping(t)
  /\ pc[t] \in Evicting => rebalance = t
  /\ pc[t] = "evicted" => swap[t] /\ victim[t] # None /\ ~Resides(victim[t])
  /\ pc[t] = "removing" => acct[t] \notin pooled

GoneInv(a) ==
  /\ openings[a] # None /\ swap[openings[a]] => slot[a].worker = "none"
  /\ a \notin registered => a \notin pooled
  /\ a \notin pooled => slot[a].worker = "none" /\ sharers[a] = {}
  /\ Tidy(slot[a])

(* Each victim is reserved for one replacement.                             *)
OneVictim ==
  \A t, u \in Tasks : swap[t] /\ swap[u] /\ victim[t] = victim[u] /\ victim[t] # None => t = u

RoomInv ==
  /\ UseInv
  /\ \A t \in Tasks : PlaceInv(t)
  /\ \A a \in Accounts : GoneInv(a)
  /\ OneVictim
  /\ Cardinality(Places) <= MaxActive

-----------------------------------------------------------------------------
(* Counting.                                                                *)

(* The sets of accounts are finite.                                         *)
LEMMA Finite ==
  ASSUME NEW S, S \subseteq Accounts
  PROVE  IsFiniteSet(S) /\ Cardinality(S) \in Nat
BY PoolAssumption, FS_Subset, FS_CardinalityType DEF PoolAssumption

(* A smaller set counts less.                                               *)
LEMMA Fewer ==
  ASSUME NEW S, NEW T, S \subseteq T, T \subseteq Accounts
  PROVE  Cardinality(S) <= Cardinality(T)
BY Finite, FS_Subset

(* A task that opens an account is on it.                                   *)
LEMMA Opener ==
  ASSUME IInv, NEW a \in Accounts, openings[a] # None
  PROVE  /\ openings[a] \in Tasks /\ acct[openings[a]] = a
         /\ pc[openings[a]] \in Opening /\ ~Reaping(openings[a])
  BY PoolAssumption DEF IInv, AccountInv, TypeOK, ManagerTypes, TaskInv, PoolAssumption

(* If whoever comes in had a place, and replacements keep their victims,    *)
(* places pass at most from victims to their replacements.                  *)
LEMMA PlacesPass ==
  ASSUME RoomInv,
         \A a \in Accounts : Resides(a)' => a \in Places,
         \A a \in Accounts : Inherits(a)' =>
           Replaces(a) /\ (victim[openings[a]])' = victim[openings[a]]
  PROVE  Cardinality(Places') <= MaxActive
<1> USE PoolAssumption
<1>1. Places \subseteq Accounts /\ Places' \subseteq Accounts /\ IInv /\ TypeOK
  BY DEF Places, RoomInv, UseInv, IInv
<1> DEFINE old(a) == victim[openings[a]]
           f == [a \in Places' |-> IF a \in Places THEN a ELSE old(a)]
<1>2. ASSUME NEW a \in Places', a \notin Places
      PROVE  /\ Replaces(a) /\ openings[a] \in Tasks /\ acct[openings[a]] = a
             /\ old(a) \in Places /\ old(a) \notin Places'
  <2>1. a \in Accounts /\ Inherits(a)'
    BY <1>2 DEF Places
  <2>2. PICK v : v = old(a)
    OBVIOUS
  <2>3. Replaces(a) /\ (victim[openings[a]])' = v
    BY <2>1, <2>2
  <2>4. openings[a] \in Tasks /\ acct[openings[a]] = a
    BY <1>1, <2>1, <2>3, Opener DEF Replaces
  <2>5. v \in Accounts
    BY <1>1, <2>2, <2>3, <2>4 DEF Replaces, TypeOK, TaskTypes
  <2>6. Resides(v)
    BY <1>2, <2>1, <2>2, <2>3 DEF Places, Inherits
  <2>7. ~Resides(v)'
    BY <2>1, <2>3 DEF Inherits
  <2>8. ~Inherits(v)'
    <3>1. ~Replaces(v)
      BY <2>5, <2>6 DEF Replaces, Resides, RoomInv, GoneInv
    <3> QED
      BY <2>5, <3>1
  <2> QED
    BY <2>2, <2>3, <2>4, <2>5, <2>6, <2>7, <2>8 DEF Places
<1>3. f \in [Places' -> Places]
  BY <1>2
<1>4. ASSUME NEW a \in Places', NEW b \in Places', f[a] = f[b] PROVE a = b
  <2>1. CASE a \in Places /\ b \in Places
    BY <1>4, <2>1
  <2>2. CASE a \in Places /\ b \notin Places
    BY <1>2, <1>4, <2>2
  <2>3. CASE a \notin Places /\ b \in Places
    BY <1>2, <1>4, <2>3
  <2>4. CASE a \notin Places /\ b \notin Places
    <3>1. old(a) = old(b)
      BY <1>4, <2>4
    <3>2. openings[a] = openings[b]
      BY <1>2, <2>4, <3>1 DEF RoomInv, OneVictim, Replaces
    <3> QED
      BY <1>2, <2>4, <3>2
  <2> QED
    BY <2>1, <2>2, <2>3, <2>4
<1> HIDE DEF f
<1>5. f \in Injection(Places', Places)
  BY <1>3, <1>4, Fun_IsInj
<1>6. Cardinality(Places') <= Cardinality(Places)
  BY <1>1, <1>5, Finite, FS_Injection
<1> QED
  BY <1>1, <1>6, Finite, PoolAssumption DEF RoomInv, PoolAssumption

-----------------------------------------------------------------------------
(* What a step does to openings, victims and rebalanceMu.                   *)

(* The other tasks stay, and t only takes or gives back rebalanceMu.        *)
Turns(t) ==
  /\ \A u \in Tasks \ {t} : swap'[u] = swap[u]
  /\ rebalance' = rebalance \/ rebalance \in {None, t}
  /\ pc'[t] \in Evicting => rebalance' = t
  /\ pc'[t] = "removing" => acct'[t] \notin pooled'

(* It reserves nothing but a victim to reap.                                *)
Keeps(t) ==
  /\ UNCHANGED <<openings, victims>> /\ swap'[t] = swap[t]
  /\ \/ victim'[t] = victim[t] /\ op'[t] = op[t]
     \/ ~swap[t] /\ (victim'[t] = None \/ op'[t] = "reap")
  /\ pc[t] \in {"started", "evicted"} => slot' = slot
  /\ pc'[t] = "evicted" =>
       /\ swap[t]
       /\ \/ pc[t] = "evicted"
          \/ pc[t] = "evicting" /\ Empty(slot'[victim[t]])

(* It opens its account on a free slot.                                     *)
Opens(t) ==
  /\ rebalance = None /\ pc[t] = "loop" /\ pc'[t] = "starting"
  /\ openings[acct[t]] = None /\ openings' = [openings EXCEPT ![acct[t]] = t]
  /\ UNCHANGED <<op, victim, victims, swap, slot>>
  /\ \/ slot[acct[t]].worker # "none"
     \/ ChargedSlots < MaxActive

(* It reserves an idle worker to replace.                                   *)
Picks(t) ==
  /\ rebalance = None /\ swap'[t] /\ op'[t] = op[t] /\ slot' = slot
  /\ pc'[t] # "evicted"
  /\ \E v \in IdleWarm(acct[t]) : victim'[t] = v /\ victims' = victims \cup {v}
  /\ \/ openings' = openings /\ swap[t]
     \/ /\ pc[t] = "loop" /\ openings[acct[t]] = None
        /\ openings' = [openings EXCEPT ![acct[t]] = t]
        /\ slot[acct[t]].worker = "none"

(* It gives up its victim and goes on.                                      *)
Drops(t) ==
  /\ UNCHANGED <<openings, swap, slot>> /\ swap[t] /\ pc'[t] # "evicted"
  /\ victims' = victims \ {victim[t]} /\ victim'[t] = None

(* It ends its opening.                                                     *)
Ends(t) ==
  /\ pc[t] \in Opening /\ ~Reaping(t) /\ pc'[t] # "evicted"
  /\ pc[t] = "started" => rebalance = None
  /\ openings' = [openings EXCEPT ![acct[t]] = None]
  /\ victims' = victims \ {victim[t]} /\ victim'[t] = None /\ ~swap'[t]
  /\ swap[t] /\ pc[t] # "evicted" =>
       \A a \in Accounts : slot'[a] = slot[a] \/ slot'[a] \in DiscardPending(slot[a])

Rooms(t) == Turns(t) /\ (Keeps(t) \/ Opens(t) \/ Picks(t) \/ Drops(t) \/ Ends(t))

(* A returning task.                                                        *)
LEMMA FinishTurns ==
  ASSUME TypeOK, NEW t \in Tasks, Finish(t)
  PROVE  /\ \A u \in Tasks \ {t} : swap'[u] = swap[u]
         /\ pc'[t] = "idle" /\ victim'[t] = None /\ swap'[t] = FALSE
BY DEF Finish, Goto, TypeOK, TaskTypes

(* A delivered worker.                                                      *)
LEMMA DeliverTurns ==
  ASSUME TypeOK, NEW t \in Tasks, NEW n, Deliver(t, n)
  PROVE  /\ \A u \in Tasks \ {t} : swap'[u] = swap[u]
         /\ pc'[t] \in {"idle", "loop", "serving"} /\ victim'[t] = None /\ swap'[t] = FALSE
<1>1. CASE Finish(t)
  BY <1>1, FinishTurns
<1>2. CASE ~Finish(t)
  BY <1>2 DEF Deliver, Goto, TypeOK, TaskTypes
<1> QED
  BY <1>1, <1>2

(* A returning task that opens nothing.                                     *)
LEMMA FinishRooms ==
  ASSUME RoomInv, NEW t \in Tasks, Finish(t), UNCHANGED <<openings, victims>>,
         rebalance' = rebalance \/ rebalance \in {None, t},
         pc[t] \notin Opening \/ Reaping(t)
  PROVE  Rooms(t)
<1>1. TypeOK /\ TaskInv(t)
  BY DEF RoomInv, UseInv, IInv
<1>2. ~swap[t] /\ pc[t] \notin {"started", "evicted"}
  BY <1>1 DEF TaskInv, Opening, Reaping, TypeOK, TaskTypes
<1> QED
  BY <1>1, <1>2, FinishTurns DEF Rooms, Turns, Keeps, Evicting, TypeOK, TaskTypes

(* Beginning a call.                                                        *)
LEMMA BeginsRoom ==
  ASSUME RoomInv, NEW t \in Tasks, Begins(t) \/ Cancel(t)
  PROVE  Rooms(t)
<1> USE PoolAssumption
<1>1. TypeOK /\ TaskInv(t) /\ PlaceInv(t)
  BY DEF RoomInv, UseInv, IInv
<1>2. CASE Cancel(t)
  BY <1>1, <1>2 DEF Cancel, Rooms, Turns, Keeps, PlaceInv, taskVars, poolVars, mgrVars, workVars
<1>3. CASE Begins(t)
  <2>1. /\ pc[t] = "idle" /\ UNCHANGED <<openings, victims, swap>>
        /\ \E l \in {"closing", "loop", "evictAsk", "updateWait", "resetting", "removeReset"} :
             pc' = [pc EXCEPT ![t] = l]
        /\ \/ UNCHANGED <<victim, rebalance>> /\ pc'[t] # "evictAsk"
           \/ /\ rebalance = None /\ rebalance' = t /\ op' = [op EXCEPT ![t] = "reap"]
              /\ \E v : victim' = [victim EXCEPT ![t] = v]
    <3>1. CASE BeginClose(t)
      BY <1>1, <3>1 DEF BeginClose, Goto, TypeOK, TaskTypes
    <3>2. CASE \E a \in Accounts : \/ \E o \in {"serve", "promote"} : BeginLeased(t, a, o)
                                   \/ BeginExpand(t, a) \/ BeginPrewarm(t, a)
      BY <1>1, <3>2 DEF BeginLeased, BeginExpand, BeginPrewarm, Begin, Goto, mgrVars, TypeOK,
         TaskTypes
    <3>3. CASE \E a \in Accounts : BeginReap(t, a)
      BY <1>1, <3>3 DEF BeginReap, Begin, Goto, TypeOK, TaskTypes
    <3>4. CASE \E a \in Accounts : BeginUpdate(t, a) \/ BeginReset(t, a) \/ BeginRemove(t, a)
      BY <1>1, <3>4 DEF BeginUpdate, BeginReset, BeginRemove, Begin, Goto, mgrVars, TypeOK,
         TaskTypes
    <3> QED
      BY <1>3, <3>1, <3>2, <3>3, <3>4 DEF Begins
  <2>2. victim[t] = None /\ ~swap[t]
    BY <1>1, <2>1 DEF TaskInv, Opening, TypeOK, TaskTypes
  <2> QED
    BY <1>1, <2>1, <2>2 DEF Rooms, Turns, Keeps, Evicting, TypeOK, TaskTypes
<1> QED
  BY <1>2, <1>3

(* ensureWorker until a start has succeeded.                                *)
LEMMA LoopRoom ==
  ASSUME RoomInv, NEW t \in Tasks,
         \/ EnsureCancelled(t) \/ EnsureOpening(t) \/ EnsureResume(t)
         \/ EnsureRefused(t) \/ EnsureReady(t) \/ EnsureNoRoom(t)
  PROVE  Rooms(t)
<1> USE PoolAssumption
<1>1. TypeOK /\ TaskInv(t)
  BY DEF RoomInv, UseInv, IInv
<1>2. pc[t] \in {"loop", "await"} /\ UNCHANGED <<openings, victims, rebalance>>
  BY DEF EnsureCancelled, EnsureOpening, EnsureResume, EnsureRefused, EnsureReady,
     EnsureNoRoom, InLoop, MustStart, mgrVars
<1>3. ~swap[t] /\ victim[t] = None /\ pc[t] \notin Opening /\ swap[t] = FALSE
  BY <1>1, <1>2 DEF TaskInv, Opening, TypeOK, TaskTypes
<1>4. CASE Finish(t)
  BY <1>2, <1>3, <1>4, FinishRooms
<1>5. CASE EnsureReady(t)
  <2>1. Deliver(t, slot[acct[t]].serial)
    BY <1>5 DEF EnsureReady
  <2> QED
    BY <1>1, <1>2, <1>3, <2>1, DeliverTurns DEF Rooms, Turns, Keeps, Evicting
<1>6. CASE /\ \E l \in {"await", "loop"} : Goto(t, l)
           /\ UNCHANGED <<op, acct, victim, swap>>
  BY <1>1, <1>2, <1>3, <1>6 DEF Goto, Rooms, Turns, Keeps, Evicting, TypeOK, TaskTypes
<1> QED
  BY <1>4, <1>5, <1>6 DEF EnsureCancelled, EnsureOpening, EnsureResume, EnsureRefused, EnsureNoRoom

(* Opening an account.                                                      *)
LEMMA OpenRoom ==
  ASSUME RoomInv, NEW t \in Tasks, EnsureSlot(t) \/ EnsureSwap(t)
  PROVE  Rooms(t)
<1> USE PoolAssumption
<1> DEFINE a == acct[t]
<1>1. TypeOK /\ TaskInv(t)
  BY DEF RoomInv, UseInv, IInv
<1>2. /\ pc[t] = "loop" /\ rebalance = None /\ openings[a] = None
      /\ Usable(a) /\ ~CleanupPending(slot[a])
      /\ openings' = [openings EXCEPT ![a] = t] /\ pc' = [pc EXCEPT ![t] = "starting"]
      /\ UNCHANGED <<op, acct, rebalance, slot>>
  BY DEF EnsureSlot, EnsureSwap, MustStart, InLoop, Open, Goto, workVars
<1>3. a \in Accounts /\ a \in registered
  BY <1>1, <1>2 DEF Usable, TypeOK, ManagerTypes
<1>4. slot[a].worker # "none" <=> a \in Occupied
  BY <1>2, <1>3 DEF Occupied, Empty, CleanupPending
<1>5. pc'[t] = "starting"
  BY <1>1, <1>2 DEF TypeOK, TaskTypes
<1>6. CASE EnsureSlot(t)
  <2>1. UNCHANGED <<victim, swap, victims>> /\ (a \in Occupied \/ ChargedSlots < MaxActive)
    BY <1>6 DEF EnsureSlot, HasRoom
  <2>2. Opens(t)
    BY <1>2, <1>4, <1>5, <2>1 DEF Opens
  <2> QED
    BY <1>2, <1>5, <2>1, <2>2 DEF Rooms, Turns, Evicting
<1>7. CASE EnsureSwap(t)
  <2>1. a \notin Occupied /\ swap' = [swap EXCEPT ![t] = TRUE]
        /\ \E v \in IdleWarm(a) : victim' = [victim EXCEPT ![t] = v] /\ victims' = victims \cup {v}
    BY <1>7 DEF EnsureSwap, HasRoom
  <2>2. Picks(t)
    BY <1>1, <1>2, <1>4, <1>5, <2>1 DEF Picks, TypeOK, TaskTypes
  <2>3. \A u \in Tasks \ {t} : swap'[u] = swap[u]
    BY <1>1, <2>1 DEF TypeOK, TaskTypes
  <2> QED
    BY <1>2, <1>5, <2>2, <2>3 DEF Rooms, Turns, Evicting
<1> QED
  BY <1>6, <1>7

(* startReservedWorker.                                                     *)
LEMMA StartRoom ==
  ASSUME RoomInv, NEW t \in Tasks, NEW a \in Accounts,
         \/ StartRefused(t, a) \/ StartFound(t, a) \/ StartLaunch(t, a)
         \/ LaunchSucceeds(t, a) \/ LaunchFails(t, a)
  PROVE  Rooms(t)
<1>1. TypeOK
  BY DEF RoomInv, UseInv, IInv
<1>2. /\ pc[t] \in {"starting", "launching"}
      /\ \E l \in {"startFailed", "started", "launching"} : pc' = [pc EXCEPT ![t] = l]
      /\ UNCHANGED <<op, acct, victim, swap, openings, victims, rebalance>>
  BY DEF StartRefused, StartFound, StartLaunch, LaunchSucceeds, LaunchFails, StartingOn,
     Goto, mgrVars
<1>3. pc'[t] \in {"startFailed", "started", "launching"}
  BY <1>1, <1>2 DEF TypeOK, TaskTypes
<1> QED
  BY <1>2, <1>3 DEF Rooms, Turns, Keeps, Evicting

(* The ends of an opening.                                                  *)
LEMMA EndRoom ==
  ASSUME RoomInv, NEW t \in Tasks,
         \/ OpenFails(t) \/ OpenCancelled(t) \/ OpenSucceeds(t)
         \/ SwapPublish(t) \/ SwapDiscard(t)
  PROVE  Rooms(t)
<1> USE PoolAssumption
<1> DEFINE a == acct[t]
<1>1. TypeOK /\ TaskInv(t) /\ PlaceInv(t)
  BY DEF RoomInv, UseInv, IInv
<1>2. /\ pc[t] \in {"startFailed", "started", "evicted", "evictFailed"}
      /\ pc[t] \in {"startFailed", "started"} => rebalance = None
      /\ CloseOpening(t)
  BY DEF OpenFails, OpenCancelled, OpenSucceeds, SwapPublish, SwapDiscard
<1>3. pc[t] \in Opening /\ ~Reaping(t) /\ rebalance \in {None, t} /\ a \in Accounts
  BY <1>1, <1>2 DEF TaskInv, Opening, Reaping, PlaceInv, Evicting
<1>4. /\ \A u \in Tasks \ {t} : swap'[u] = swap[u]
      /\ pc'[t] \in {"idle", "loop", "serving"} /\ victim'[t] = None /\ swap'[t] = FALSE
  <2>1. \/ Finish(t)
        \/ \E n : Deliver(t, n)
    BY DEF OpenFails, OpenCancelled, OpenSucceeds, SwapPublish, SwapDiscard, Discard, Activate
  <2> QED
    BY <1>1, <2>1, FinishTurns, DeliverTurns
<1>5. ASSUME swap[t], pc[t] # "evicted", NEW b \in Accounts
      PROVE  slot'[b] = slot[b] \/ slot'[b] \in DiscardPending(slot[b])
  <2>1. slot' = slot \/ \E s \in DiscardPending(slot[a]) : slot' = [slot EXCEPT ![a] = s]
    BY <1>5 DEF OpenFails, OpenCancelled, OpenSucceeds, SwapPublish, SwapDiscard, Discard, workVars
  <2> QED
    BY <1>1, <1>3, <2>1 DEF TypeOK, WorkTypes
<1>6. Ends(t)
  BY <1>2, <1>3, <1>4, <1>5 DEF Ends, CloseOpening
<1>7. Turns(t)
  BY <1>3, <1>4 DEF Turns, Evicting
<1> QED
  BY <1>6, <1>7 DEF Rooms

(* The eviction of a victim.                                                *)
LEMMA EvictRoom ==
  ASSUME RoomInv, NEW t \in Tasks,
         \/ SwapEvict(t)
         \/ \E v \in Accounts :
              \/ EvictAsks(t, v) \/ EvictAcquire(t, v) \/ EvictLate(t, v)
              \/ EvictRefused(t, v) \/ EvictReset(t, v)
  PROVE  Rooms(t)
<1> USE PoolAssumption
<1>1. TypeOK /\ TaskInv(t) /\ PlaceInv(t)
  BY DEF RoomInv, UseInv, IInv
<1>2. CASE SwapEvict(t)
  <2>1. /\ pc[t] = "started" /\ swap[t] /\ rebalance = None /\ rebalance' = t
        /\ pc' = [pc EXCEPT ![t] = "evictAsk"] /\ UNCHANGED <<op, acct, swap, openings, slot>>
    BY <1>2 DEF SwapEvict, Goto, workVars
  <2>2. PICK v \in IF victim[t] = None THEN IdleWarm(acct[t]) ELSE {victim[t]} :
          victim' = [victim EXCEPT ![t] = v] /\ victims' = victims \cup {v}
    BY <1>2 DEF SwapEvict
  <2>3. Turns(t) /\ pc'[t] = "evictAsk" /\ victim'[t] = v
    BY <1>1, <2>1, <2>2 DEF Turns, TypeOK, TaskTypes
  <2>4. CASE victim[t] = None
    <3>1. Picks(t)
      BY <2>1, <2>2, <2>3, <2>4 DEF Picks
    <3> QED
      BY <2>3, <3>1 DEF Rooms
  <2>5. CASE victim[t] # None
    <3>1. victims' = victims /\ victim'[t] = victim[t]
      BY <1>1, <2>1, <2>2, <2>3, <2>5 DEF PlaceInv
    <3>2. Keeps(t)
      BY <2>1, <2>3, <3>1 DEF Keeps
    <3> QED
      BY <2>3, <3>2 DEF Rooms
  <2> QED
    BY <2>4, <2>5
<1>3. ASSUME NEW v \in Accounts, EvictLate(t, v) PROVE Rooms(t)
  <2>1. /\ pc[t] = "evict" /\ victim[t] = v /\ swap[t] /\ victims' = victims \ {v}
        /\ victim' = [victim EXCEPT ![t] = None] /\ rebalance' = None
        /\ pc' = [pc EXCEPT ![t] = "started"] /\ UNCHANGED <<swap, openings, slot>>
    BY <1>3 DEF EvictLate, Goto, workVars
  <2>2. Turns(t) /\ Drops(t)
    BY <1>1, <2>1 DEF Turns, Drops, PlaceInv, Evicting, TypeOK, TaskTypes
  <2> QED
    BY <2>2 DEF Rooms
<1>4. ASSUME NEW v \in Accounts,
             EvictAsks(t, v) \/ EvictAcquire(t, v) \/ EvictRefused(t, v) \/ EvictReset(t, v)
      PROVE  Rooms(t)
  <2>1. /\ pc[t] \in {"evictAsk", "evict", "evicting"} /\ victim[t] = v
        /\ UNCHANGED <<op, acct, victim, swap, openings, victims, rebalance>>
        /\ pc'[t] \in {"evict", "evicting", "evicted", "evictFailed"}
        /\ pc'[t] = "evicted" => swap[t] /\ pc[t] = "evicting" /\ EvictReset(t, v)
    BY <1>1, <1>4 DEF EvictAsks, EvictAcquire, EvictRefused, EvictReset, Goto, mgrVars, TypeOK, TaskTypes
  <2>2. ASSUME pc'[t] = "evicted" PROVE Empty(slot'[v])
    BY <1>1, <2>1, <2>2 DEF EvictReset, Goto, TypeOK, TaskTypes, WorkTypes
  <2>3. rebalance = t
    BY <1>1, <2>1 DEF PlaceInv, Evicting
  <2> QED
    BY <2>1, <2>2, <2>3 DEF Rooms, Turns, Keeps
<1> QED
  BY <1>2, <1>3, <1>4

(* A request using its worker.                                              *)
LEMMA ServeRoom ==
  ASSUME RoomInv, NEW t \in Tasks, ServeStep(t)
  PROVE  Rooms(t)
<1>1. TypeOK /\ TaskInv(t)
  BY DEF RoomInv, UseInv, IInv
<1>2. pc[t] \in {"serving", "reauth", "recovering"} /\ UNCHANGED <<openings, victims, rebalance>>
  BY DEF ServeStep, ServeEnds, ServeUnauthorized, ServeFails, Reauthorize, RecoverReset, mgrVars
<1>3. CASE Finish(t)
  BY <1>2, <1>3, FinishRooms DEF Opening
<1>4. CASE ~Finish(t)
  <2>1. /\ UNCHANGED <<op, acct, victim, swap>>
        /\ \E l \in {"loop", "reauth", "recoverWait"} : pc' = [pc EXCEPT ![t] = l]
    BY <1>4 DEF ServeStep, ServeEnds, ServeUnauthorized, ServeFails, Reauthorize, RecoverReset, Goto
  <2>2. pc'[t] \in {"loop", "reauth", "recoverWait"}
    BY <1>1, <2>1 DEF TypeOK, TaskTypes
  <2> QED
    BY <1>2, <2>1, <2>2 DEF Rooms, Turns, Keeps, Evicting
<1> QED
  BY <1>3, <1>4

(* Management calls.                                                        *)
LEMMA AdminRoom ==
  ASSUME RoomInv, NEW t \in Tasks, AdminStep(t)
  PROVE  Rooms(t)
<1> USE PoolAssumption
<1>1. TypeOK /\ TaskInv(t) /\ PlaceInv(t)
  BY DEF RoomInv, UseInv, IInv
<1>2. CASE AcquireGivesUp(t) \/ CloseEnds(t)
  <2>1. Finish(t) /\ pc[t] \notin Opening /\ UNCHANGED <<openings, victims, rebalance>>
    BY <1>2 DEF AcquireGivesUp, CloseEnds, mgrVars, Opening
  <2> QED
    BY <2>1, FinishRooms
<1>3. CASE ReapGivesUp(t) \/ \E a \in Accounts : ReapReset(t, a)
  <2>1. /\ Finish(t) /\ Reaping(t) /\ pc[t] \in {"evict", "evicting"}
        /\ UNCHANGED <<openings, victims>>
    BY <1>3 DEF ReapGivesUp, ReapReset, ReapEnds, Reaping
  <2>2. rebalance = t
    BY <1>1, <2>1 DEF PlaceInv, Evicting
  <2> QED
    BY <2>1, <2>2, FinishRooms
<1>4. ASSUME NEW a \in Accounts, CloseOne(t, a) PROVE Rooms(t)
  <2>1. /\ pc[t] = "closing"
        /\ UNCHANGED <<pc, op, acct, victim, swap, openings, victims, rebalance>>
    BY <1>4 DEF CloseOne, taskVars
  <2> QED
    BY <2>1 DEF Rooms, Turns, Keeps, Evicting
<1>5. ASSUME NEW a \in Accounts,
             \/ AcquireExclusive(t, a) \/ UpdatePrepare(t, a) \/ UpdateEnds(t, a) \/ Reset(t, a)
             \/ RemoveReset(t, a) \/ RemoveUnregister(t, a) \/ RemoveClose(t, a)
      PROVE  Rooms(t)
  <2>1. /\ pc[t] \notin Opening /\ UNCHANGED <<openings, victims, rebalance>>
    BY <1>5 DEF AcquireExclusive, UpdatePrepare, UpdateEnds, Reset,
       RemoveReset, RemoveUnregister, RemoveClose, mgrVars, Opening
  <2>2. CASE Finish(t)
    BY <2>1, <2>2, FinishRooms
  <2>3. CASE ~Finish(t)
    <3>1. /\ UNCHANGED <<op, acct, victim, swap>>
          /\ \E l \in {"recovering", "updating", "saving", "removing", "removeClose"} :
               /\ pc' = [pc EXCEPT ![t] = l]
               /\ l = "removing" => acct[t] \notin pooled'
      BY <1>5, <2>3 DEF AcquireExclusive, UpdatePrepare, UpdateEnds,
         Reset, RemoveReset, RemoveUnregister, RemoveClose, Goto
    <3>2. /\ pc'[t] \in {"recovering", "updating", "saving", "removing", "removeClose"}
          /\ pc'[t] = "removing" => acct[t] \notin pooled'
      BY <1>1, <3>1 DEF TypeOK, TaskTypes
    <3> QED
      BY <2>1, <3>1, <3>2 DEF Rooms, Turns, Keeps, Evicting, Opening
  <2> QED
    BY <2>2, <2>3
<1> QED
  BY <1>2, <1>3, <1>4, <1>5 DEF AdminStep

(* Every step of a task.                                                    *)
LEMMA TaskRoom ==
  ASSUME RoomInv, NEW t \in Tasks, Begins(t) \/ Cancel(t) \/ Proceeds(t)
  PROVE  Rooms(t)
<1>1. CASE EnsureStep(t)
  BY <1>1, LoopRoom, OpenRoom, StartRoom, EndRoom, EvictRoom DEF EnsureStep
<1> QED
  BY <1>1, BeginsRoom, ServeRoom, AdminRoom DEF Proceeds

-----------------------------------------------------------------------------
(* Accounts that leave.                                                     *)

(* An account leaves the pool empty and unused, and the manager after that. *)
Leaves(t) ==
  /\ pooled' \subseteq pooled
  /\ \A a \in registered \ registered' : a \notin pooled
  /\ \A a \in pooled \ pooled' : Empty(slot'[a]) /\ sharers'[a] = {}
  /\ \A a \in Accounts \ pooled : sharers'[a] \subseteq sharers[a]

(* Only a removal makes an account leave.                                   *)
LEMMA TaskLeaves ==
  ASSUME RoomInv, NEW t \in Tasks, Begins(t) \/ Cancel(t) \/ Proceeds(t)
  PROVE  Leaves(t)
<1> USE PoolAssumption
<1>1. TypeOK /\ TaskInv(t) /\ PlaceInv(t) /\ HeldInv(t) /\ (\A a \in Accounts : LockInv(a))
      /\ t # None
  BY DEF RoomInv, UseInv, IInv, PoolAssumption
<1>2. CASE Finish(t) /\ UNCHANGED registered
  BY <1>2 DEF Finish, Leaves
<1>3. CASE UNCHANGED <<pooled, registered, sharers>>
  BY <1>3 DEF Leaves
<1>4. ASSUME NEW a \in Accounts, NEW o \in {"serve", "promote"}, BeginLeased(t, a, o)
      PROVE  Leaves(t)
  BY <1>1, <1>4 DEF BeginLeased, Leaves, TypeOK, PoolTypes, mgrVars
<1>5. ASSUME NEW a \in Accounts, ServeFails(t, a) PROVE Leaves(t)
  BY <1>1, <1>5 DEF ServeFails, Leaves, TypeOK, PoolTypes, mgrVars
<1>6. ASSUME NEW a \in Accounts, RemoveReset(t, a) PROVE Leaves(t)
  <2>1. CASE Finish(t)
    BY <1>2, <1>6, <2>1 DEF RemoveReset, mgrVars
  <2>2. CASE ~Finish(t)
    <3>1. /\ pc[t] = "removeReset" /\ acct[t] = a /\ Empty(slot'[a])
          /\ pooled' = pooled \ {a} /\ UNCHANGED <<sharers, registered>>
      BY <1>6, <2>2 DEF RemoveReset, mgrVars
    <3>2. sharers[a] = {}
      BY <1>1, <3>1 DEF HeldInv, LockInv
    <3> QED
      BY <3>1, <3>2 DEF Leaves
  <2> QED
    BY <2>1, <2>2
<1>7. ASSUME NEW a \in Accounts, RemoveUnregister(t, a) PROVE Leaves(t)
  BY <1>1, <1>7 DEF RemoveUnregister, poolVars, PlaceInv, Leaves
<1>8. CASE Begins(t) \/ Cancel(t)
  BY <1>3, <1>4, <1>8 DEF Begins, Cancel, BeginClose, BeginExpand, BeginPrewarm, BeginReap,
     BeginUpdate, BeginReset, BeginRemove, poolVars, mgrVars
<1>9. CASE EnsureStep(t)
  <2>1. CASE \/ EnsureCancelled(t) \/ EnsureOpening(t) \/ EnsureResume(t)
             \/ EnsureRefused(t) \/ EnsureReady(t)
             \/ EnsureSlot(t) \/ EnsureSwap(t) \/ EnsureNoRoom(t)
    BY <1>2, <1>3, <2>1 DEF EnsureCancelled, EnsureOpening, EnsureResume, EnsureRefused,
       EnsureReady, EnsureSlot, EnsureSwap, EnsureNoRoom, Deliver, poolVars, mgrVars
  <2>2. ASSUME NEW a \in Accounts,
               \/ StartRefused(t, a) \/ StartFound(t, a) \/ StartLaunch(t, a)
               \/ LaunchSucceeds(t, a) \/ LaunchFails(t, a)
        PROVE  Leaves(t)
    BY <1>3, <2>2 DEF StartRefused, StartFound, StartLaunch, LaunchSucceeds, LaunchFails,
       poolVars, mgrVars
  <2>3. CASE \/ OpenFails(t) \/ OpenCancelled(t) \/ OpenSucceeds(t)
             \/ SwapPublish(t) \/ SwapDiscard(t)
    <3>1. UNCHANGED registered /\ (Finish(t) \/ \E n : Deliver(t, n))
      BY <2>3 DEF OpenFails, OpenCancelled, OpenSucceeds, SwapPublish, SwapDiscard, Discard,
         Activate, CloseOpening
    <3> QED
      BY <1>2, <1>3, <3>1 DEF Deliver, poolVars
  <2>4. ASSUME NEW v \in Accounts,
               \/ EvictAsks(t, v) \/ EvictAcquire(t, v) \/ EvictLate(t, v)
               \/ EvictRefused(t, v) \/ EvictReset(t, v)
        PROVE  Leaves(t)
    BY <1>3, <2>4 DEF EvictAsks, EvictAcquire, EvictLate, EvictRefused, EvictReset, LeavePool,
       mgrVars
  <2>5. CASE SwapEvict(t)
    BY <1>3, <2>5 DEF SwapEvict, poolVars
  <2> QED
    BY <1>9, <2>1, <2>2, <2>3, <2>4, <2>5 DEF EnsureStep
<1>10. CASE ServeStep(t)
  BY <1>2, <1>3, <1>5, <1>10 DEF ServeStep, ServeEnds, ServeUnauthorized, Reauthorize,
     RecoverReset, poolVars, mgrVars
<1>11. CASE AdminStep(t)
  BY <1>2, <1>3, <1>6, <1>7, <1>11 DEF AdminStep, AcquireGivesUp, ReapGivesUp, ReapEnds, CloseEnds,
     ReapReset, AcquireExclusive, LeavePool, UpdatePrepare, UpdateEnds, Reset, RemoveClose,
     CloseOne, poolVars, mgrVars
<1> QED
  BY <1>8, <1>9, <1>10, <1>11 DEF Proceeds

-----------------------------------------------------------------------------
(* The places.                                                              *)

(* Whoever opens an account holds a lease of it, if no expansion and no     *)
(* prewarming does.                                                         *)
LEMMA Sharer ==
  ASSUME UseInv, Ops \cap {"expand", "prewarm"} = {}, NEW a \in Accounts, openings[a] # None
  PROVE  openings[a] \in sharers[a]
<1> DEFINE u == openings[a]
<1>1. u \in Tasks /\ acct[u] = a /\ pc[u] \in Opening /\ ~Reaping(u)
  BY Opener DEF UseInv
<1>2. HeldInv(u)
  BY <1>1 DEF UseInv
<1>3. pc[u] \in Ensuring /\ pc[u] \in Sharing
  BY <1>1 DEF Opening, Ensuring, Sharing
<1> QED
  BY <1>1, <1>2, <1>3 DEF HeldInv, Leased, Reaping

(* A victim that may be chosen is a worker.                                 *)
LEMMA IdleWorks ==
  ASSUME RoomInv, NEW a, NEW v \in IdleWarm(a)
  PROVE  v \in Accounts /\ v \notin victims /\ slot[v].worker # "none"
<1>1. v \in Accounts /\ v \notin victims /\ slot[v].warm /\ ~CleanupPending(slot[v])
  BY DEF IdleWarm, Warm, RoomInv, UseInv, IInv, TypeOK, ManagerTypes
<1>2. Tidy(slot[v])
  BY <1>1 DEF RoomInv, GoneInv
<1> QED
  BY <1>1, <1>2 DEF Tidy, Empty, CleanupPending

(* A worker comes from the end of an opening that has a place.              *)
LEMMA NewWorker ==
  ASSUME RoomInv, NEW t \in Tasks, SlotMoves(t), Rooms(t), NEW a \in Accounts,
         slot[a].worker = "none", slot'[a].worker # "none"
  PROVE  /\ Ends(t) /\ acct[t] = a /\ openings[a] = t
         /\ pc[t] = "evicted" \/ (pc[t] = "started" /\ ~swap[t])
<1>1. /\ acct[t] = a /\ pc[t] \in {"started", "evicted"} /\ openings[a] = t
      /\ slot'[a] \notin DiscardPending(slot[a])
  BY Gains DEF RoomInv, UseInv
<1>2. Ends(t)
  BY <1>1 DEF Rooms, Keeps, Opens, Picks, Drops
<1> QED
  BY <1>1, <1>2 DEF Ends

(* A worker or an opening with a place comes from another, from room that   *)
(* was found, or takes the place of its victim.                             *)
LEMMA Residing ==
  ASSUME RoomInv, NEW t \in Tasks, SlotMoves(t), Rooms(t), NEW a \in Accounts, Resides(a)'
  PROVE  \/ Resides(a)
         \/ Opens(t) /\ acct[t] = a
         \/ pc[t] = "evicted" /\ openings[a] = t
<1> USE PoolAssumption
<1>1. IInv /\ TaskInv(t) /\ t # None /\ openings \in [Accounts -> Tasks \cup {None}]
  BY DEF RoomInv, UseInv, IInv, TypeOK, ManagerTypes, PoolAssumption
<1>2. CASE slot[a].worker # "none"
  BY <1>2 DEF Resides
<1>3. CASE slot[a].worker = "none" /\ slot'[a].worker # "none"
  <2>1. openings[a] = t /\ (pc[t] = "evicted" \/ (pc[t] = "started" /\ ~swap[t]))
    BY <1>3, NewWorker
  <2> QED
    BY <1>1, <2>1 DEF Resides
<1>4. CASE slot'[a].worker = "none"
  <2>1. PICK u : u = openings'[a] /\ u # None /\ ~swap'[u]
    BY <1>4 DEF Resides
  <2>2. CASE openings[a] = u
    <3>1. u \in Tasks /\ acct[u] = a /\ pc[u] \in Opening
      BY <1>1, <2>1, <2>2, Opener
    <3>2. CASE u # t
      BY <2>1, <2>2, <3>1, <3>2 DEF Rooms, Turns, Resides
    <3>3. CASE u = t
      <4>1. ~Opens(t) /\ ~Picks(t) /\ ~Ends(t)
        BY <1>1, <2>1, <3>1, <3>3 DEF Opens, Opening, Picks, Ends
      <4> QED
        BY <2>1, <2>2, <3>3, <4>1 DEF Rooms, Keeps, Drops, Resides
    <3> QED
      BY <3>2, <3>3
  <2>3. CASE openings[a] # u
    BY <1>1, <2>1, <2>3 DEF Rooms, Keeps, Opens, Picks, Drops, Ends
  <2> QED
    BY <2>2, <2>3
<1> QED
  BY <1>2, <1>3, <1>4

(* While another task evicts, no account comes to reside.                   *)
LEMMA Unresiding ==
  ASSUME RoomInv, NEW t \in Tasks, SlotMoves(t), Rooms(t), NEW a \in Accounts,
         rebalance \notin {None, t}, ~Resides(a)
  PROVE  ~Resides(a)'
<1>1. PlaceInv(t)
  BY DEF RoomInv
<1> QED
  BY <1>1, Residing DEF Opens, PlaceInv, Evicting

(* A replacement inherits from the victim it had.                           *)
LEMMA Inheriting ==
  ASSUME RoomInv, NEW t \in Tasks, Alone(t), Rooms(t), NEW a \in Accounts, Inherits(a)'
  PROVE  Replaces(a) /\ (victim[openings[a]])' = victim[openings[a]]
<1> USE PoolAssumption
<1>1. /\ IInv /\ PlaceInv(t) /\ TaskInv(t) /\ t # None
      /\ openings \in [Accounts -> Tasks \cup {None}]
  BY DEF RoomInv, UseInv, IInv, TypeOK, ManagerTypes, PoolAssumption
<1>2. PICK u, w : u = openings'[a] /\ w = victim'[u]
  OBVIOUS
<1>3. u # None /\ swap'[u] /\ w # None /\ ~Resides(w)'
  BY <1>2 DEF Inherits, Replaces
<1>4. CASE u # t
  <2>1. openings[a] = u
    BY <1>1, <1>2, <1>3, <1>4 DEF Rooms, Keeps, Opens, Picks, Drops, Ends
  <2>2. u \in Tasks
    BY <1>1, <1>3, <2>1
  <2> QED
    BY <1>2, <1>3, <1>4, <2>1, <2>2 DEF Rooms, Turns, Alone, Replaces
<1>5. CASE u = t
  <2>1. ~Opens(t)
    BY <1>1, <1>3, <1>5 DEF Opens, TaskInv, Opening
  <2>2. ~Picks(t)
    <3> SUFFICES ASSUME Picks(t) PROVE FALSE
      OBVIOUS
    <3>1. w \in IdleWarm(acct[t])
      BY <1>2, <1>5 DEF Picks
    <3>2. slot[w].worker # "none"
      BY <3>1, IdleWorks
    <3> QED
      BY <1>3, <3>2 DEF Picks, Resides
  <2>3. ~Drops(t) /\ ~Ends(t)
    BY <1>2, <1>3, <1>5 DEF Drops, Ends
  <2>4. Keeps(t)
    BY <2>1, <2>2, <2>3 DEF Rooms
  <2> QED
    BY <1>2, <1>3, <1>5, <2>4 DEF Keeps, Replaces
<1> QED
  BY <1>4, <1>5

(* The places of the tasks.                                                 *)
LEMMA PlaceKept ==
  ASSUME RoomInv, Ops \cap {"expand", "prewarm"} = {}, IInv', NEW t \in Tasks,
         SlotMoves(t), Alone(t), Rooms(t), Leaves(t), NEW u \in Tasks
  PROVE  PlaceInv(u)'
<1> USE PoolAssumption
<1>1. /\ IInv /\ PlaceInv(t) /\ TaskInv(t) /\ t # None /\ PlaceInv(u) /\ TaskInv(u) /\ u # None
      /\ openings \in [Accounts -> Tasks \cup {None}]
      /\ victim \in [Tasks -> Accounts \cup {None}]
  BY DEF RoomInv, UseInv, IInv, TypeOK, TaskTypes, ManagerTypes, PoolAssumption
<1>2. CASE u = t
  <2>1. swap'[t] /\ victim'[t] # None => victim'[t] \in victims'
    <3>1. Keeps(t) => (swap'[t] => swap[t] /\ victim'[t] = victim[t])
      BY DEF Keeps
    <3>2. Opens(t) => (swap'[t] => swap[t] /\ victim'[t] = victim[t])
      BY DEF Opens
    <3>3. CASE Keeps(t) \/ Opens(t)
      <4>1. victims' = victims
        BY <3>3 DEF Keeps, Opens
      <4> QED
        BY <1>1, <3>1, <3>2, <3>3, <4>1 DEF PlaceInv
    <3>4. CASE Picks(t) \/ Drops(t) \/ Ends(t)
      BY <3>4 DEF Picks, Drops, Ends
    <3> QED
      BY <3>3, <3>4 DEF Rooms
  <2>2. victim'[t] # None => swap'[t] \/ Reaping(t)'
    BY <1>1 DEF Rooms, Keeps, Opens, Picks, Drops, Ends, PlaceInv, Reaping
  <2>3. pc'[t] \in Evicting => rebalance' = t
    BY DEF Rooms, Turns
  <2>4. ASSUME pc'[t] = "evicted", NEW v, v = victim'[t]
        PROVE  swap'[t] /\ v # None /\ ~Resides(v)'
    <3>1. Keeps(t)
      BY <2>4 DEF Rooms, Opens, Picks, Drops, Ends
    <3>2. swap[t] /\ swap'[t] /\ victim'[t] = victim[t] /\ openings' = openings
      BY <2>4, <3>1 DEF Keeps
    <3>3. CASE pc[t] = "evicted"
      <4>1. slot' = slot /\ v # None /\ ~Resides(v)
        BY <1>1, <2>4, <3>1, <3>2, <3>3 DEF Keeps, PlaceInv
      <4>2. v \in Accounts
        BY <1>1, <2>4, <3>2, <4>1
      <4>3. ~Resides(v)'
        <5>1. rebalance = t
          BY <1>1, <3>3 DEF PlaceInv, Evicting
        <5>2. \A w \in Tasks : swap'[w] = swap[w]
          BY <3>1 DEF Rooms, Turns, Keeps
        <5>3. openings[v] # None => openings[v] \in Tasks
          BY <1>1, <4>2
        <5> QED
          BY <3>2, <4>1, <5>2, <5>3 DEF Resides
      <4> QED
        BY <3>2, <4>1, <4>3
    <3>4. CASE pc[t] = "evicting" /\ Empty(slot'[victim[t]])
      <4>1. v = victim[t] /\ v \in Accounts /\ exclusive[v] = t
        BY <1>1, <2>4, <3>2, <3>4 DEF RoomInv, UseInv, HeldInv
      <4>2. sharers[v] = {}
        BY <1>1, <4>1 DEF RoomInv, UseInv, LockInv
      <4>3. openings[v] = None
        BY <4>1, <4>2, Sharer DEF RoomInv
      <4> QED
        BY <1>1, <3>2, <3>4, <4>1, <4>3 DEF Resides, Empty
    <3> QED
      BY <2>4, <3>1, <3>3, <3>4 DEF Keeps
  <2>5. pc'[t] = "removing" => acct'[t] \notin pooled'
    BY DEF Rooms, Turns
  <2>6. PICK v : v = victim'[t]
    OBVIOUS
  <2> QED
    BY <1>2, <2>1, <2>2, <2>3, <2>4, <2>5, <2>6 DEF PlaceInv
<1>3. CASE u # t
  <2>1. /\ pc'[u] = pc[u] /\ op'[u] = op[u] /\ acct'[u] = acct[u]
        /\ victim'[u] = victim[u] /\ swap'[u] = swap[u]
    BY <1>3 DEF Alone, Rooms, Turns
  <2>2. swap[u] /\ victim[u] # None => victim[u] \in victims'
    <3>1. swap[u] /\ victim[u] # None /\ swap[t] => victim[u] # victim[t]
      BY <1>3 DEF RoomInv, OneVictim
    <3>2. CASE Keeps(t) \/ Opens(t) \/ Picks(t)
      BY <1>1, <3>2 DEF Keeps, Opens, Picks, PlaceInv
    <3>3. CASE Drops(t) \/ Ends(t)
      BY <1>1, <3>1, <3>3 DEF Drops, Ends, PlaceInv
    <3> QED
      BY <3>2, <3>3 DEF Rooms
  <2>3. pc[u] \in Evicting => rebalance' = u
    BY <1>1, <1>3 DEF PlaceInv, Rooms, Turns
  <2>4. ASSUME pc[u] = "evicted", NEW v, v = victim[u]
        PROVE  swap[u] /\ v # None /\ ~Resides(v)'
    <3>1. swap[u] /\ v # None /\ ~Resides(v) /\ rebalance = u
      BY <1>1, <2>4 DEF PlaceInv, Evicting
    <3>2. v \in Accounts
      BY <1>1, <2>4, <3>1
    <3> QED
      BY <1>1, <1>3, <3>1, <3>2, Unresiding
  <2>5. pc[u] = "removing" => acct[u] \notin pooled'
    BY <1>1 DEF PlaceInv, Leaves
  <2>6. PICK v : v = victim[u]
    OBVIOUS
  <2> QED
    BY <1>1, <2>1, <2>2, <2>3, <2>4, <2>5, <2>6 DEF PlaceInv, Reaping
<1> QED
  BY <1>2, <1>3

(* Each victim stays reserved once.                                         *)
LEMMA OneKept ==
  ASSUME RoomInv, NEW t \in Tasks, Alone(t), Rooms(t)
  PROVE  OneVictim'
<1> USE PoolAssumption
<1>1. \A u \in Tasks \ {t} : victim'[u] = victim[u] /\ swap'[u] = swap[u]
  BY DEF Alone, Rooms, Turns
<1>2. \A u \in Tasks : swap[u] /\ victim[u] # None => victim[u] \in victims
  BY DEF RoomInv, PlaceInv
<1>3. swap'[t] /\ victim'[t] # None => (swap[t] /\ victim'[t] = victim[t]) \/ victim'[t] \notin victims
  <2>1. Keeps(t) => (swap'[t] => swap[t] /\ victim'[t] = victim[t])
    BY DEF Keeps
  <2>2. Picks(t) => victim'[t] \notin victims
    <3> SUFFICES ASSUME Picks(t) PROVE victim'[t] \notin victims
      OBVIOUS
    <3>1. victim'[t] \in IdleWarm(acct[t])
      BY DEF Picks
    <3> QED
      BY <3>1, IdleWorks
  <2>3. Opens(t) => (swap'[t] => swap[t] /\ victim'[t] = victim[t])
    BY DEF Opens
  <2> QED
    BY <2>1, <2>2, <2>3 DEF Rooms, Drops, Ends
<1>4. \A u \in Tasks \ {t} :
        ~(swap'[t] /\ swap'[u] /\ victim'[t] = victim'[u] /\ victim'[t] # None)
  BY <1>1, <1>2, <1>3 DEF RoomInv, OneVictim
<1> QED
  BY <1>1, <1>4 DEF RoomInv, OneVictim

(* Accounts that are gone, and those about to be replaced, have no worker.  *)
LEMMA GoneKept ==
  ASSUME RoomInv, Ops \cap {"expand", "prewarm"} = {}, NEW t \in Tasks,
         SlotMoves(t), Alone(t), Rooms(t), Leaves(t), NEW a \in Accounts
  PROVE  GoneInv(a)'
<1> USE PoolAssumption
<1>1. /\ IInv /\ TaskInv(t) /\ t # None /\ GoneInv(a)
      /\ openings \in [Accounts -> Tasks \cup {None}]
  BY DEF RoomInv, UseInv, IInv, TypeOK, ManagerTypes, PoolAssumption
<1>2. Tidy(slot'[a])
  BY <1>1, TidyKept DEF GoneInv
<1>3. a \notin registered' => a \notin pooled'
  BY <1>1 DEF GoneInv, Leaves
<1>4. ASSUME a \notin pooled' PROVE slot'[a].worker = "none" /\ sharers'[a] = {}
  <2>1. CASE a \in pooled
    BY <1>4, <2>1 DEF Leaves, Empty
  <2>2. CASE a \notin pooled
    <3>1. slot[a].worker = "none" /\ sharers[a] = {}
      BY <1>1, <2>2 DEF GoneInv
    <3>2. openings[a] # t
      BY <1>1, <3>1, Sharer DEF RoomInv
    <3> QED
      BY <2>2, <3>1, <3>2, NewWorker DEF Leaves
  <2> QED
    BY <2>1, <2>2
<1>5. ASSUME NEW u, u = openings'[a], u # None, swap'[u]
      PROVE  slot'[a].worker = "none"
  <2>1. CASE openings[a] = u
    <3>1. u \in Tasks /\ acct[u] = a /\ pc[u] \in Opening
      BY <1>1, <1>5, <2>1, Opener
    <3>2. ~Ends(t) \/ u # t
      BY <1>1, <1>5, <3>1 DEF Ends
    <3>3. slot[a].worker = "none" => slot'[a].worker = "none"
      BY <1>1, <2>1, <3>2, NewWorker
    <3>4. CASE swap[u]
      BY <1>1, <1>5, <2>1, <3>3, <3>4 DEF GoneInv
    <3>5. CASE ~swap[u]
      <4>1. u = t
        BY <1>5, <3>1, <3>5 DEF Rooms, Turns
      <4>2. ~Keeps(t) /\ ~Drops(t) /\ ~Opens(t)
        BY <1>5, <3>5, <4>1 DEF Keeps, Drops, Opens
      <4>3. pc[t] = "loop"
        BY <3>2, <3>5, <4>1, <4>2 DEF Rooms, Picks
      <4> QED
        BY <3>1, <4>1, <4>3 DEF Opening
    <3> QED
      BY <3>4, <3>5
  <2>2. CASE openings[a] # u
    <3>1. Opens(t) \/ Picks(t)
      BY <1>1, <1>5, <2>2 DEF Rooms, Keeps, Drops, Ends
    <3>2. a = acct[t] /\ u = t
      BY <1>1, <1>5, <2>2, <3>1 DEF Opens, Picks
    <3>3. ~Opens(t)
      BY <1>1, <1>5, <3>2 DEF Opens, TaskInv, Opening
    <3> QED
      BY <1>1, <1>5, <2>2, <3>1, <3>2, <3>3 DEF Picks
  <2> QED
    BY <2>1, <2>2
<1>6. PICK u : u = openings'[a]
  OBVIOUS
<1> QED
  BY <1>2, <1>3, <1>4, <1>5, <1>6 DEF GoneInv

(* There is room for what is opened.                                        *)
LEMMA CountKept ==
  ASSUME RoomInv, IInv', NEW t \in Tasks, SlotMoves(t), Alone(t), Rooms(t)
  PROVE  Cardinality(Places') <= MaxActive
<1> USE PoolAssumption
<1>1. /\ IInv /\ PlaceInv(t) /\ TaskInv(t) /\ t # None
      /\ openings \in [Accounts -> Tasks \cup {None}]
  BY DEF RoomInv, UseInv, IInv, TypeOK, ManagerTypes, PoolAssumption
<1>2. \A a \in Accounts : Inherits(a)' => Replaces(a) /\ (victim[openings[a]])' = victim[openings[a]]
  BY Inheriting
<1>3. CASE Opens(t) => slot[acct[t]].worker # "none"
  <2>1. ASSUME NEW a \in Accounts, Resides(a)' PROVE a \in Places
    <3>1. CASE Resides(a)
      BY <3>1 DEF Places
    <3>2. CASE Opens(t) /\ acct[t] = a
      <4>1. Resides(a)
        BY <1>3, <3>2 DEF Resides
      <4> QED
        BY <4>1 DEF Places
    <3>3. CASE pc[t] = "evicted" /\ openings[a] = t
      <4>1. Inherits(a)
        BY <1>1, <3>3 DEF PlaceInv, Inherits, Replaces
      <4> QED
        BY <4>1 DEF Places
    <3> QED
      BY <2>1, <3>1, <3>2, <3>3, Residing
  <2> QED
    BY <1>2, <2>1, PlacesPass
<1>4. CASE Opens(t) /\ slot[acct[t]].worker = "none"
  <2> DEFINE W == {a \in registered : slot[a].worker # "none"}
             P == {a \in Accounts : openings[a] # None}
  <2>1. ChargedSlots < MaxActive
    BY <1>4 DEF Opens
  <2>2. W \subseteq Accounts /\ P \subseteq Accounts /\ acct[t] \in Accounts
    BY <1>1, <1>4 DEF Opens, TaskInv, Opening, IInv, TypeOK, ManagerTypes
  <2>3. ASSUME NEW a \in Places' PROVE a \in (W \cup P) \cup {acct[t]}
    <3>1. a \in Accounts /\ (slot'[a].worker # "none" \/ openings'[a] # None)
      BY DEF Places, Resides, Inherits, Replaces
    <3>2. slot' = slot /\ openings' = [openings EXCEPT ![acct[t]] = t]
      BY <1>4 DEF Opens
    <3>3. slot[a].worker # "none" => a \in registered
      BY <3>1 DEF RoomInv, GoneInv
    <3> QED
      BY <1>1, <3>1, <3>2, <3>3
  <2>4. /\ Cardinality(W) \in Nat /\ Cardinality(P) \in Nat /\ Cardinality(W \cap P) \in Nat
        /\ Cardinality(W \cup P) = Cardinality(W) + Cardinality(P) - Cardinality(W \cap P)
        /\ IsFiniteSet(W \cup P) /\ Cardinality(W \cup P) \in Nat
    <3>1. W \cup P \subseteq Accounts /\ W \cap P \subseteq Accounts
      BY <2>2
    <3> QED
      BY <2>2, <3>1, Finite, FS_Union
  <2>5. Cardinality(W) + Cardinality(P) <= ChargedSlots /\ ChargedSlots \in Nat
    <3> DEFINE C == {a \in registered : slot[a].cleanupWorker}
               R == {a \in registered : RuntimeLeaseLeft(slot[a])}
               L == {a \in registered : CleanupLeaseLeft(slot[a])}
    <3>1. Cardinality(C) \in Nat /\ Cardinality(R) \in Nat /\ Cardinality(L) \in Nat
      <4>1. C \subseteq Accounts /\ R \subseteq Accounts /\ L \subseteq Accounts
        BY <1>1 DEF IInv, TypeOK, ManagerTypes
      <4> QED
        BY <4>1, Finite
    <3>2. ChargedSlots =
            Cardinality(W) + Cardinality(C) + Cardinality(R) + Cardinality(L) + Cardinality(P)
      BY DEF ChargedSlots, ResidentSlots
    <3> HIDE DEF W, P, C, R, L
    <3> QED
      BY <2>4, <3>1, <3>2
  <2>6. Cardinality((W \cup P) \cup {acct[t]}) <= Cardinality(W \cup P) + 1
    <3> HIDE DEF W, P
    <3>1. Cardinality((W \cup P) \cup {acct[t]}) =
            IF acct[t] \in W \cup P THEN Cardinality(W \cup P) ELSE Cardinality(W \cup P) + 1
      BY <2>4, FS_AddElement, Zenon
    <3> QED
      BY <2>4, <3>1
  <2>7. Cardinality(Places') <= Cardinality((W \cup P) \cup {acct[t]})
    <3>1. Places' \subseteq (W \cup P) \cup {acct[t]}
      BY <2>3
    <3>2. (W \cup P) \cup {acct[t]} \subseteq Accounts
      BY <2>2
    <3> QED
      BY <3>1, <3>2, Fewer
  <2>8. Cardinality((W \cup P) \cup {acct[t]}) \in Nat /\ Cardinality(Places') \in Nat
    <3>1. (W \cup P) \cup {acct[t]} \subseteq Accounts /\ Places' \subseteq Accounts
      BY <2>2 DEF Places
    <3> QED
      BY <3>1, Finite
  <2> DEFINE n == Cardinality(Places')
             m == Cardinality((W \cup P) \cup {acct[t]})
             w == Cardinality(W)
             p == Cardinality(P)
             i == Cardinality(W \cap P)
             o == Cardinality(W \cup P)
  <2>9. /\ n \in Nat /\ m \in Nat /\ w \in Nat /\ p \in Nat /\ i \in Nat /\ o \in Nat
        /\ n <= m /\ m <= o + 1 /\ o = w + p - i /\ w + p <= ChargedSlots
        /\ ChargedSlots < MaxActive /\ ChargedSlots \in Nat /\ MaxActive \in Nat
    BY <2>1, <2>4, <2>5, <2>6, <2>7, <2>8 DEF PoolAssumption
  <2> HIDE DEF n, m, w, p, i, o
  <2>10. n <= MaxActive
    BY <2>9
  <2> QED
    BY <2>10 DEF n
<1> QED
  BY <1>3, <1>4

-----------------------------------------------------------------------------
(* The invariant.                                                           *)

(* It holds initially.                                                      *)
LEMMA RoomInit == Init => RoomInv
<1> SUFFICES ASSUME Init PROVE RoomInv
  OBVIOUS
<1> USE PoolAssumption
<1>1. \A t \in Tasks : PlaceInv(t)
  BY DEF Init, PlaceInv, Evicting
<1>2. \A a \in Accounts : GoneInv(a)
  BY DEF Init, GoneInv, NewSlot, Tidy, Empty
<1>3. OneVictim
  BY DEF Init, OneVictim
<1>4. Places = {}
  BY DEF Init, Places, Resides, Inherits, Replaces, NewSlot
<1>5. Cardinality(Places) <= MaxActive
  BY <1>4, FS_EmptySet DEF PoolAssumption
<1> QED
  BY <1>1, <1>2, <1>3, <1>5, UseInit DEF RoomInv

(* A process that fails or recovers keeps its place.                        *)
LEMMA ProcessRoom ==
  ASSUME RoomInv, NEW a \in Accounts, WorkerFails(a) \/ WorkerRecovers(a)
  PROVE  RoomInv'
<1> USE PoolAssumption
<1>1. UseInv' /\ slot \in [Accounts -> Slot]
  BY ProcessUses DEF RoomInv, UseInv, IInv, TypeOK, WorkTypes
<1>2. PICK w \in {"ready", "failed"} : slot' = [slot EXCEPT ![a] = [slot[a] EXCEPT !.worker = w]]
  BY DEF WorkerFails, WorkerRecovers
<1>3. /\ slot[a].worker # "none"
      /\ UNCHANGED <<pc, op, acct, victim, swap, pooled, sharers, registered, rebalance,
                     openings, victims>>
  BY DEF WorkerFails, WorkerRecovers, taskVars, poolVars, mgrVars
<1> DEFINE r == [slot[a] EXCEPT !.worker = w]
<1>4. r.worker # "none" /\ (Tidy(slot[a]) => Tidy(r))
  BY <1>1, <1>3 DEF Slot, Tidy, Empty
<1>5. slot'[a] = r /\ \A b \in Accounts \ {a} : slot'[b] = slot[b]
  BY <1>1, <1>2
<1> HIDE DEF r
<1>6. \A b \in Accounts : (slot'[b].worker # "none") = (slot[b].worker # "none")
  BY <1>3, <1>4, <1>5
<1>7. \A b \in Accounts : Resides(b)' = Resides(b)
  BY <1>3, <1>6 DEF Resides
<1>8. \A t \in Tasks : victim[t] \in Accounts \cup {None}
  BY DEF RoomInv, UseInv, IInv, TypeOK, TaskTypes
<1>9. ASSUME NEW t \in Tasks PROVE PlaceInv(t)'
  BY <1>3, <1>7, <1>8 DEF RoomInv, PlaceInv, Reaping
<1>10. ASSUME NEW b \in Accounts PROVE GoneInv(b)'
  <2>1. GoneInv(b) /\ (slot'[b].worker = "none" <=> slot[b].worker = "none")
    BY <1>6 DEF RoomInv
  <2>2. Tidy(slot'[b])
    BY <1>4, <1>5, <2>1 DEF GoneInv
  <2> QED
    BY <1>3, <2>1, <2>2 DEF GoneInv
<1>11. OneVictim'
  BY <1>3 DEF RoomInv, OneVictim
<1>12. Cardinality(Places') <= MaxActive
  <2>1. \A b \in Accounts : Resides(b)' => b \in Places
    BY <1>7 DEF Places
  <2>2. \A b \in Accounts : Inherits(b)' =>
          Replaces(b) /\ (victim[openings[b]])' = victim[openings[b]]
    BY <1>3 DEF Inherits, Replaces
  <2> QED
    BY <2>1, <2>2, PlacesPass
<1> QED
  BY <1>1, <1>9, <1>10, <1>11, <1>12 DEF RoomInv

(* Every step keeps the invariant.                                          *)
LEMMA RoomNext ==
  ASSUME Ops \cap {"expand", "prewarm"} = {}
  PROVE  RoomInv /\ [Next]_vars => RoomInv'
<1> SUFFICES ASSUME RoomInv, [Next]_vars PROVE RoomInv'
  OBVIOUS
<1>1. UseInv' /\ IInv'
  BY UseNext DEF RoomInv, UseInv
<1>2. CASE UNCHANGED vars
  BY <1>1, <1>2 DEF vars, taskVars, poolVars, mgrVars, workVars, RoomInv, PlaceInv, GoneInv,
     OneVictim, Places, Resides, Inherits, Replaces, Reaping
<1>3. ASSUME NEW t \in Tasks, Begins(t) \/ Cancel(t) \/ Proceeds(t) PROVE RoomInv'
  <2>1. SlotMoves(t) /\ Rooms(t) /\ Leaves(t)
    BY <1>3, TaskMoves, TaskRoom, TaskLeaves DEF RoomInv, UseInv, Moves
  <2>2. Alone(t)
    BY <1>1, <1>3, <2>1, TaskUses DEF RoomInv, Uses
  <2>3. \A u \in Tasks : PlaceInv(u)'
    BY <1>1, <2>1, <2>2, PlaceKept
  <2>4. \A a \in Accounts : GoneInv(a)'
    BY <2>1, <2>2, GoneKept
  <2>5. OneVictim'
    BY <2>1, <2>2, OneKept
  <2>6. Cardinality(Places') <= MaxActive
    BY <1>1, <2>1, <2>2, CountKept
  <2> QED
    BY <1>1, <2>3, <2>4, <2>5, <2>6 DEF RoomInv
<1> QED
  BY <1>2, <1>3, ProcessRoom DEF Next

(* Each account has its place, and the places are at most MaxActive.        *)
THEOREM RoomInvariance ==
  ASSUME Ops \cap {"expand", "prewarm"} = {}
  PROVE  Spec => []RoomInv
BY RoomInit, RoomNext, PTL DEF Spec

(* Workers never outnumber MaxActive, whatever closes and launches fail, as *)
(* long as every call that opens an account holds a lease of it.            *)
THEOREM CapacityIsHeld ==
  ASSUME Ops \cap {"expand", "prewarm"} = {}
  PROVE  Spec => []CapacityHeld
<1>1. RoomInv => CapacityHeld
  <2> SUFFICES ASSUME RoomInv PROVE Resident <= MaxActive
    BY DEF CapacityHeld
  <2>1. {a \in Accounts : slot[a].worker # "none"} \subseteq Places /\ Places \subseteq Accounts
    BY DEF Places, Resides
  <2>2. Resident <= Cardinality(Places)
    BY <2>1, Fewer DEF Resident
  <2>3. Resident \in Nat /\ Cardinality(Places) \in Nat
    BY <2>1, Finite DEF Resident
  <2> QED
    BY <2>2, <2>3, PoolAssumption DEF RoomInv, PoolAssumption
<1> QED
  BY <1>1, RoomInvariance, PTL

(* A replacement under way is at most one of each task.                     *)
LEMMA SwapsCounted ==
  ASSUME RoomInv
  PROVE  Cardinality({a \in Accounts : openings[a] # None /\ swap[openings[a]]}) <= Replacing
<1> DEFINE S == {a \in Accounts : openings[a] # None /\ swap[openings[a]]}
           T == {t \in Tasks : swap[t]}
           f == [a \in S |-> openings[a]]
<1>1. ASSUME NEW a \in S PROVE openings[a] \in T /\ acct[openings[a]] = a
  BY Opener DEF RoomInv, UseInv
<1>2. f \in [S -> T]
  BY <1>1
<1>3. ASSUME NEW a \in S, NEW b \in S, f[a] = f[b] PROVE a = b
  BY <1>1, <1>3
<1>4. IsFiniteSet(T)
  BY PoolAssumption, FS_Subset DEF PoolAssumption
<1> HIDE DEF f, S, T
<1>5. f \in Injection(S, T)
  BY <1>2, <1>3, Fun_IsInj
<1>6. Cardinality(S) <= Cardinality(T)
  BY <1>4, <1>5, FS_Injection
<1> QED
  BY <1>6 DEF Replacing, S, T

(* A launched worker belongs to a call that opens its account.              *)
LEMMA PendingOpens ==
  ASSUME RoomInv, NEW a \in Accounts, slot[a].pending # "none"
  PROVE  openings[a] # None
<1> DEFINE u == startup[a]
<1>1. IInv
  BY DEF RoomInv, UseInv
<1>2. u \in Tasks /\ acct[u] = a /\ pc[u] \in Holding /\ pc[u] # "saving"
  BY <1>1 DEF IInv, AccountInv, TypeOK, ManagerTypes, WorkTypes
<1>3. pc[u] \in Opening /\ ~Reaping(u)
  BY <1>1, <1>2, PoolAssumption DEF IInv, Holding, TaskInv, PoolAssumption
<1> QED
  BY <1>1, <1>2, <1>3, PoolAssumption DEF IInv, TaskInv, PoolAssumption

(* As long as closes succeed, the processes of the manager are at most      *)
(* MaxActive, one more for each replacement under way and one more for each *)
(* account with both a worker and a launched one.                           *)
THEOREM PeakIsHeld ==
  ASSUME Ops \cap {"expand", "prewarm"} = {}, ~CloseMayFail
  PROVE  Spec => []PeakHeld
<1>1. RoomInv => PeakHeld
  <2> SUFFICES ASSUME RoomInv PROVE PeakHeld
    OBVIOUS
  <2> DEFINE W == {a \in Accounts : slot[a].worker # "none"}
             P == {a \in Accounts : slot[a].pending # "none"}
             C == {a \in Accounts : slot[a].cleanupWorker}
             R == {a \in Accounts : slot[a].stray}
             S == {a \in Accounts : openings[a] # None /\ swap[openings[a]]}
             B == {a \in Accounts : slot[a].worker # "none" /\ slot[a].pending # "none"}
  <2>1. C = {} /\ R = {}
    BY DEF RoomInv, GoneInv, Tidy
  <2>2. B = W \cap P
    OBVIOUS
  <2>3. W \cup P \subseteq Places \cup S
    BY PendingOpens DEF Places, Resides
  <2>4. /\ W \subseteq Accounts /\ P \subseteq Accounts /\ Places \subseteq Accounts
        /\ S \subseteq Accounts /\ B \subseteq Accounts
    BY DEF Places
  <2>5. Cardinality(S) <= Replacing
    BY SwapsCounted
  <2>6. IsFiniteSet({t \in Tasks : swap[t]})
    BY PoolAssumption, FS_Subset DEF PoolAssumption
  <2>7. Replacing \in Nat
    BY <2>6, FS_CardinalityType DEF Replacing
  <2>8. AllProcesses = Cardinality(W) + Cardinality(C) + Cardinality(P) + Cardinality(R)
    BY DEF AllProcesses, Resident
  <2>9. PeakHeld <=> AllProcesses <= MaxActive + Replacing + Cardinality(B)
    BY DEF PeakHeld
  <2> HIDE DEF W, P, C, R, S, B
  <2>10. /\ Cardinality(W) \in Nat /\ Cardinality(P) \in Nat /\ Cardinality(B) \in Nat
         /\ Cardinality(S) \in Nat /\ Cardinality(Places) \in Nat /\ Cardinality(C) = 0
         /\ Cardinality(R) = 0
         /\ IsFiniteSet(W) /\ IsFiniteSet(P) /\ IsFiniteSet(Places) /\ IsFiniteSet(S)
    BY <2>1, <2>4, Finite, FS_EmptySet
  <2>11. Cardinality(W \cup P) = Cardinality(W) + Cardinality(P) - Cardinality(B)
    BY <2>2, <2>10, FS_Union
  <2>12. Cardinality(W \cup P) <= Cardinality(Places \cup S)
    BY <2>3, <2>4, Fewer
  <2>13. Cardinality(Places \cup S) = Cardinality(Places) + Cardinality(S) - Cardinality(Places \cap S)
    BY <2>10, FS_Union
  <2>14. Cardinality(Places \cap S) \in Nat /\ Cardinality(W \cup P) \in Nat
    BY <2>4, Finite
  <2>15. Cardinality(Places) <= MaxActive
    BY DEF RoomInv
  <2> DEFINE n == Cardinality(W \cup P)
             m == Cardinality(Places \cup S)
             i == Cardinality(Places \cap S)
             w == Cardinality(W)
             p == Cardinality(P)
             b == Cardinality(B)
             s == Cardinality(S)
             q == Cardinality(Places)
  <2>16. /\ n = w + p - b /\ n <= m /\ m = q + s - i /\ q <= MaxActive /\ s <= Replacing
         /\ n \in Nat /\ i \in Nat /\ w \in Nat /\ p \in Nat /\ b \in Nat /\ s \in Nat
         /\ q \in Nat /\ MaxActive \in Nat /\ Replacing \in Nat
         /\ AllProcesses = w + 0 + p + 0
         /\ PeakHeld <=> AllProcesses <= MaxActive + Replacing + b
    BY <2>5, <2>7, <2>8, <2>9, <2>10, <2>11, <2>12, <2>13, <2>14, <2>15, PoolAssumption
       DEF PoolAssumption
  <2> HIDE DEF n, m, i, w, p, b, s, q
  <2> QED
    BY <2>16
<1> QED
  BY <1>1, RoomInvariance, PTL
=============================================================================
