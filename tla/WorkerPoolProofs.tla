-------------------------- MODULE WorkerPoolProofs --------------------------
(***************************************************************************)
(* For any accounts, tasks, limits and failures: the types of the worker    *)
(* pool, that no process the manager refers to runs without its lease       *)
(* (ProfileGuarded), and that no launch, opening or reserved victim is      *)
(* stranded (NothingStranded).                                              *)
(***************************************************************************)
EXTENDS WorkerPool, WorkerSlotProofs

(* Tasks between the opening of their account and its end.                  *)
Opening == {"starting", "launching", "startFailed", "started",
            "evictAsk", "evict", "evicting", "evicted", "evictFailed"}
(* Tasks that may hold a startupMu across their steps.                      *)
Holding == (Opening \ {"starting", "startFailed"}) \cup {"saving"}

Reaping(t) == op[t] = "reap"

(* What a task at its pc owns.                                              *)
TaskInv(t) ==
  /\ Reaping(t) => acct[t] = None /\ pc[t] \in {"evictAsk", "evict", "evicting"}
  /\ swap[t] => pc[t] \in Opening /\ ~Reaping(t)
  /\ victim[t] # None => pc[t] \in Opening
  /\ pc[t] \in Opening /\ ~Reaping(t) => acct[t] \in Accounts /\ openings[acct[t]] = t
  /\ pc[t] \notin Opening \cup {"idle", "closing"} => acct[t] \in Accounts
  /\ pc[t] \in {"launching", "saving"} => startup[acct[t]] = t

(* Who owns an account's mutex, opening and pending process.                *)
AccountInv(a) ==
  /\ startup[a] # None => acct[startup[a]] = a /\ pc[startup[a]] \in Holding
  /\ openings[a] # None => acct[openings[a]] = a /\ pc[openings[a]] \in Opening
  /\ slot[a].pending # "none" => startup[a] # None /\ pc[startup[a]] # "saving"
  /\ SlotGuard(slot[a])

VictimInv ==
  \A v \in victims : \E t \in Tasks : victim[t] = v /\ ~Reaping(t)

IInv ==
  /\ TypeOK
  /\ \A t \in Tasks : TaskInv(t)
  /\ \A a \in Accounts : AccountInv(a)
  /\ VictimInv

-----------------------------------------------------------------------------
(* Frames.                                                                  *)

(* A step leaves the other tasks where they are.                            *)
Others(t) ==
  \A u \in Tasks \ {t} :
    /\ pc'[u] = pc[u] /\ op'[u] = op[u] /\ acct'[u] = acct[u]
    /\ victim'[u] = victim[u] /\ swap'[u] = swap[u]

(* The mutexes and openings of the others stay, t only takes free ones and  *)
(* gives back its own.                                                      *)
FairShare(t, owner, owner2) ==
  \A a \in Accounts :
    IF owner2[a] = t THEN owner[a] \in {None, t}
    ELSE owner2[a] = owner[a] \/ (owner[a] = t /\ owner2[a] = None)

(* A pending process may stay where it is, or appear under t's mutex.       *)
PendingMoves(t) ==
  \A a \in Accounts :
    /\ SlotGuard(slot'[a])
    /\ slot'[a].pending # "none" =>
         IF startup'[a] = t THEN pc'[t] # "saving"
         ELSE slot[a].pending # "none" /\ startup'[a] = startup[a]

LEMMA Frame ==
  ASSUME IInv, TypeOK', NEW t \in Tasks, Others(t), TaskInv(t)',
         FairShare(t, startup, startup'), FairShare(t, openings, openings'),
         \A a \in Accounts : startup'[a] = t => acct'[t] = a /\ pc'[t] \in Holding,
         \A a \in Accounts : openings'[a] = t => acct'[t] = a /\ pc'[t] \in Opening,
         PendingMoves(t),
         \A v \in victims' :
            \/ victim'[t] = v /\ ~Reaping(t)'
            \/ v \in victims /\ ~(victim[t] = v /\ ~Reaping(t))
  PROVE  IInv'
<1> USE PoolAssumption
<1>1. ASSUME NEW u \in Tasks PROVE TaskInv(u)'
  <2>1. CASE u = t
    BY <2>1
  <2>2. CASE u # t
    <3>1. TaskInv(u) /\ acct'[u] = acct[u] /\ pc'[u] = pc[u] /\ op'[u] = op[u]
          /\ victim'[u] = victim[u] /\ swap'[u] = swap[u]
      BY <2>2 DEF IInv, Others
    <3>2. pc[u] \in Opening /\ ~Reaping(u) => openings'[acct[u]] = u
      BY <2>2, <3>1 DEF TaskInv, FairShare, PoolAssumption
    <3>3. pc[u] \in {"launching", "saving"} => acct[u] \in Accounts
      BY <3>1 DEF TaskInv, Opening, Reaping
    <3>4. pc[u] \in {"launching", "saving"} => startup'[acct[u]] = u
      BY <2>2, <3>1, <3>3 DEF TaskInv, FairShare, PoolAssumption
    <3> QED
      BY <3>1, <3>2, <3>4 DEF TaskInv, Reaping
  <2> QED
    BY <2>1, <2>2
<1>2. ASSUME NEW a \in Accounts PROVE AccountInv(a)'
  <2>1. startup'[a] \in Tasks \cup {None} /\ openings'[a] \in Tasks \cup {None}
    BY DEF TypeOK, WorkTypes, ManagerTypes
  <2>2. AccountInv(a)
    BY DEF IInv
  <2>3. startup'[a] # None => acct'[startup'[a]] = a /\ pc'[startup'[a]] \in Holding
    <3>1. CASE startup'[a] = t
      BY <3>1
    <3>2. CASE startup'[a] \notin {t, None}
      <4>1. startup'[a] = startup[a]
        BY <3>2 DEF FairShare
      <4> QED
        BY <2>1, <2>2, <3>2, <4>1 DEF AccountInv, Others
    <3> QED
      BY <3>1, <3>2
  <2>4. openings'[a] # None => acct'[openings'[a]] = a /\ pc'[openings'[a]] \in Opening
    <3>1. CASE openings'[a] = t
      BY <3>1
    <3>2. CASE openings'[a] \notin {t, None}
      <4>1. openings'[a] = openings[a]
        BY <3>2 DEF FairShare
      <4> QED
        BY <2>1, <2>2, <3>2, <4>1 DEF AccountInv, Others
    <3> QED
      BY <3>1, <3>2
  <2>5. slot'[a].pending # "none" => startup'[a] # None /\ pc'[startup'[a]] # "saving"
    <3> SUFFICES ASSUME slot'[a].pending # "none"
                 PROVE  startup'[a] # None /\ pc'[startup'[a]] # "saving"
      OBVIOUS
    <3>1. CASE startup'[a] = t
      BY <3>1 DEF PendingMoves, PoolAssumption
    <3>2. CASE startup'[a] # t
      <4>1. slot[a].pending # "none" /\ startup'[a] = startup[a]
        BY <3>2 DEF PendingMoves
      <4>2. startup[a] # None /\ pc[startup[a]] # "saving"
        BY <2>2, <4>1 DEF AccountInv
      <4> QED
        BY <2>1, <3>2, <4>1, <4>2 DEF Others
    <3> QED
      BY <3>1, <3>2
  <2> QED
    BY <2>3, <2>4, <2>5 DEF AccountInv, PendingMoves
<1>3. VictimInv'
  <2> SUFFICES ASSUME NEW v \in victims' PROVE \E u \in Tasks : victim'[u] = v /\ ~Reaping(u)'
    BY DEF VictimInv
  <2>1. CASE victim'[t] = v /\ ~Reaping(t)'
    BY <2>1
  <2>2. CASE v \in victims /\ ~(victim[t] = v /\ ~Reaping(t))
    <3>1. PICK u \in Tasks : victim[u] = v /\ ~Reaping(u)
      BY <2>2 DEF IInv, VictimInv
    <3> QED
      BY <2>2, <3>1 DEF Others, Reaping
  <2> QED
    BY <2>1, <2>2
<1> QED
  BY <1>1, <1>2, <1>3 DEF IInv

(* The slots change only where no preparer works, or keep their pending     *)
(* process.                                                                 *)
SlotsKept ==
  \A a \in Accounts :
    \/ slot'[a] = slot[a]
    \/ startup[a] = None /\ Quiet(slot'[a])

(* A step of a task that owns no opening and no mutex.                      *)
LEMMA FreeStep ==
  ASSUME IInv, TypeOK', NEW t \in Tasks, Others(t), TaskInv(t)',
         pc[t] \notin Opening \cup {"saving"} \/ Reaping(t),
         UNCHANGED <<openings, victims, startup>>, SlotsKept
  PROVE  IInv'
<1> USE PoolAssumption
<1>1. \A a \in Accounts : AccountInv(a)
  BY DEF IInv
<1>2. TaskInv(t) /\ t # None
  BY DEF IInv, PoolAssumption
<1>3. \A a \in Accounts : startup[a] # t /\ openings[a] # t
  BY <1>1, <1>2 DEF AccountInv, TaskInv, Holding, PoolAssumption
<1>4. PendingMoves(t)
  BY <1>1, <1>3 DEF PendingMoves, SlotsKept, Quiet, AccountInv
<1>5. \A v \in victims' : v \in victims /\ ~(victim[t] = v /\ ~Reaping(t))
  BY <1>2 DEF TaskInv, IInv, TypeOK, ManagerTypes, PoolAssumption
<1>6. FairShare(t, startup, startup') /\ FairShare(t, openings, openings')
  BY <1>3 DEF FairShare
<1> QED
  BY <1>3, <1>4, <1>5, <1>6, Frame

(* A step of a task that opens an account and goes on doing so.             *)
LEMMA OwnStep ==
  ASSUME IInv, TypeOK', NEW t \in Tasks, Others(t), TaskInv(t)',
         pc[t] \in Opening, ~Reaping(t), pc'[t] \in Opening,
         pc[t] \in Holding => pc'[t] \in Holding,
         acct'[t] = acct[t], op'[t] = op[t],
         UNCHANGED <<openings, startup>>, SlotsKept,
         \A v \in victims' : victim'[t] = v \/ (v \in victims /\ victim[t] # v)
  PROVE  IInv'
<1> USE PoolAssumption
<1>1. \A a \in Accounts : AccountInv(a)
  BY DEF IInv
<1>2. t # None
  BY DEF PoolAssumption
<1>3. \A a \in Accounts : startup'[a] = t => acct'[t] = a /\ pc'[t] \in Holding
  BY <1>1, <1>2 DEF AccountInv
<1>4. \A a \in Accounts : openings'[a] = t => acct'[t] = a /\ pc'[t] \in Opening
  BY <1>1, <1>2 DEF AccountInv
<1>5. PendingMoves(t)
  BY <1>1 DEF PendingMoves, SlotsKept, Quiet, AccountInv, Opening
<1>6. FairShare(t, startup, startup') /\ FairShare(t, openings, openings')
  BY DEF FairShare
<1>7. \A v \in victims' :
        \/ victim'[t] = v /\ ~Reaping(t)'
        \/ v \in victims /\ ~(victim[t] = v /\ ~Reaping(t))
  BY DEF Reaping
<1> QED
  BY <1>3, <1>4, <1>5, <1>6, <1>7, Frame

(* A step that ends an opening: finishOpening, the victim given back, the   *)
(* pending process gone and the mutex free.                                 *)
LEMMA EndStep ==
  ASSUME IInv, TypeOK', NEW t \in Tasks, Others(t), TaskInv(t)',
         pc[t] \in Opening, ~Reaping(t), victim'[t] = None,
         CloseOpening(t),
         \A a \in Accounts : startup'[a] = IF startup[a] = t THEN None ELSE startup[a],
         \A a \in Accounts :
           \/ slot'[a] = slot[a] /\ startup[a] # t
           \/ a = acct[t] /\ Quiet(slot'[a])
  PROVE  IInv'
<1> USE PoolAssumption
<1>1. \A a \in Accounts : AccountInv(a)
  BY DEF IInv
<1>2. t # None /\ TaskInv(t)
  BY DEF PoolAssumption, IInv
<1>3. \A a \in Accounts : startup'[a] # t
  BY <1>2
<1>4. /\ acct[t] \in Accounts
      /\ openings' = [openings EXCEPT ![acct[t]] = None]
      /\ victims' = victims \ {victim[t]}
      /\ openings \in [Accounts -> Tasks \cup {None}]
  BY <1>2 DEF CloseOpening, TaskInv, IInv, TypeOK, ManagerTypes
<1>5. \A a \in Accounts : openings'[a] # t
  BY <1>1, <1>2, <1>4 DEF AccountInv
<1>6. FairShare(t, startup, startup')
  BY <1>3 DEF FairShare
<1>7. FairShare(t, openings, openings')
  BY <1>2, <1>4, <1>5 DEF FairShare, TaskInv
<1>8. PendingMoves(t)
  BY <1>1, <1>3 DEF PendingMoves, Quiet, AccountInv
<1> QED
  BY <1>3, <1>4, <1>5, <1>6, <1>7, <1>8, Frame

-----------------------------------------------------------------------------
(* What the shared endings do.                                              *)

(* Finish leaves the task idle and owning nothing.                          *)
LEMMA FinishFrame ==
  ASSUME TypeOK, NEW t \in Tasks, Finish(t)
  PROVE  /\ TaskTypes' /\ PoolTypes' /\ Others(t) /\ TaskInv(t)'
         /\ pc'[t] = "idle" /\ victim'[t] = None
<1> USE PoolAssumption DEF TypeOK, TaskTypes, PoolTypes, Finish, Goto, PCs
<1>1. TaskTypes'
  BY DEF Unseen
<1>2. PoolTypes'
  BY DEF PoolAssumption
<1>3. /\ pc'[t] = "idle" /\ op'[t] = "none" /\ acct'[t] = None
      /\ victim'[t] = None /\ swap'[t] = FALSE
  OBVIOUS
<1>4. Others(t)
  BY DEF Others
<1>5. TaskInv(t)'
  BY <1>3 DEF TaskInv, Opening, Reaping
<1> QED
  BY <1>1, <1>2, <1>3, <1>4, <1>5

(* Deliver hands the worker to a leased request or finishes.                *)
LEMMA DeliverFrame ==
  ASSUME TypeOK, NEW t \in Tasks, NEW n \in Nat, Deliver(t, n),
         acct[t] \in Accounts, slot' \in [Accounts -> Slot]
  PROVE  /\ TaskTypes' /\ PoolTypes' /\ Others(t) /\ TaskInv(t)'
         /\ victim'[t] = None
<1>1. CASE Finish(t)
  BY <1>1, FinishFrame
<1>2. CASE ~Finish(t)
  <2> USE PoolAssumption DEF TypeOK
  <2>1. /\ Leased(t)
        /\ op' = [op EXCEPT ![t] = "serve"]
        /\ pc' = [pc EXCEPT ![t] = IF op[t] = "serve" THEN "serving" ELSE "loop"]
        /\ victim' = [victim EXCEPT ![t] = None]
        /\ swap' = [swap EXCEPT ![t] = FALSE]
        /\ seen' = [seen EXCEPT ![t] =
             [generation |-> IF op[t] = "serve" THEN seen[t].generation
                             ELSE slot'[acct[t]].generation,
              serial |-> n]]
        /\ UNCHANGED <<acct, cancelled, poolVars>>
    BY <1>2 DEF Deliver, Goto
  <2>2. slot'[acct[t]].generation \in Nat
    BY DEF Slot
  <2>3. seen' \in [Tasks -> [generation : Nat, serial : Nat]]
    BY <2>1, <2>2 DEF TaskTypes
  <2>4. TaskTypes'
    BY <2>1, <2>3 DEF TaskTypes, PCs, AllOps
  <2>5. PoolTypes'
    BY <2>1 DEF PoolTypes, poolVars
  <2>6. /\ pc'[t] \in {"serving", "loop"} /\ op'[t] = "serve" /\ acct'[t] = acct[t]
        /\ victim'[t] = None /\ swap'[t] = FALSE
    BY <2>1 DEF TaskTypes
  <2>7. Others(t)
    BY <2>1 DEF TaskTypes, Others
  <2>8. TaskInv(t)'
    BY <2>6 DEF TaskInv, Opening, Reaping
  <2> QED
    BY <2>4, <2>5, <2>6, <2>7, <2>8
<1> QED
  BY <1>1, <1>2

(* A task that owns nothing returns.                                        *)
LEMMA FreeEnd ==
  ASSUME IInv, NEW t \in Tasks, Finish(t),
         pc[t] \notin Opening \cup {"saving"} \/ Reaping(t),
         UNCHANGED <<openings, victims, startup>>, SlotsKept,
         ManagerTypes', WorkTypes'
  PROVE  IInv'
<1>1. TypeOK
  BY DEF IInv
<1> QED
  BY <1>1, FinishFrame, FreeStep DEF TypeOK

(* closeAccountWorker under a free startupMu keeps the slots well.          *)
LEMMA CloseKeepsSlots ==
  ASSUME IInv, NEW a \in Accounts, startup[a] = None,
         NEW s \in CloseAccountWorker(slot[a]), slot' = [slot EXCEPT ![a] = s]
  PROVE  SlotsKept /\ slot' \in [Accounts -> Slot] /\ slot'[a] = s
<1>1. slot \in [Accounts -> Slot] /\ AccountInv(a)
  BY DEF IInv, TypeOK, WorkTypes
<1>2. Quiet(slot[a])
  BY <1>1 DEF AccountInv, Quiet
<1>3. Quiet(s)
  BY <1>2, CloseAccountWorkerQuiet
<1> QED
  BY <1>1, <1>3 DEF SlotsKept, Quiet

(* Reset keeps the slots well, whether it finds the account or not.         *)
LEMMA ResetKeepsSlots ==
  ASSUME IInv, NEW a \in Accounts, ResetAccount(a)
  PROVE  SlotsKept /\ slot' \in [Accounts -> Slot] /\ (a \in registered => startup[a] = None)
<1>1. CASE a \in registered
  BY <1>1, CloseKeepsSlots DEF ResetAccount
<1>2. CASE a \notin registered
  BY <1>2 DEF ResetAccount, SlotsKept, IInv, TypeOK, WorkTypes
<1> QED
  BY <1>1, <1>2

(* A new call on an account.                                                *)
LEMMA BeginFrame ==
  ASSUME IInv, NEW t \in Tasks, NEW o \in AllOps \ {"reap"}, NEW a \in Accounts,
         NEW label \in {"loop", "updateWait", "resetting", "removeReset"},
         Begin(t, o, a, label), UNCHANGED victim
  PROVE  TaskTypes' /\ Others(t) /\ TaskInv(t)' /\ pc[t] = "idle"
<1> USE PoolAssumption DEF IInv, TypeOK
<1>1. /\ pc[t] = "idle"
      /\ pc' = [pc EXCEPT ![t] = label] /\ op' = [op EXCEPT ![t] = o]
      /\ acct' = [acct EXCEPT ![t] = a]
      /\ seen' = [seen EXCEPT ![t].generation = slot[a].generation]
      /\ UNCHANGED <<swap, cancelled, victim>>
  BY DEF Begin, Goto, PoolAssumption
<1>2. slot[a].generation \in Nat
  BY DEF WorkTypes, Slot
<1>3. seen' \in [Tasks -> [generation : Nat, serial : Nat]]
  BY <1>1, <1>2 DEF TaskTypes
<1>4. TaskTypes'
  BY <1>1, <1>3 DEF TaskTypes, PCs
<1>5. TaskInv(t)
  OBVIOUS
<1>6. /\ pc'[t] = label /\ op'[t] = o /\ acct'[t] = a
      /\ victim'[t] = victim[t] /\ swap'[t] = swap[t]
  BY <1>1 DEF TaskTypes
<1>7. TaskInv(t)'
  BY <1>1, <1>5, <1>6 DEF TaskInv, Opening, Reaping
<1>8. Others(t)
  BY <1>1 DEF TaskTypes, Others
<1> QED
  BY <1>1, <1>4, <1>7, <1>8

-----------------------------------------------------------------------------
(* One lemma per family of actions, one step per action.                    *)

LEMMA BeginsKeep ==
  ASSUME IInv, NEW t \in Tasks, Begins(t)
  PROVE  IInv'
<1> USE PoolAssumption
<1>1. TypeOK /\ TaskInv(t)
  BY DEF IInv
<1>2. CASE BeginClose(t)
  <2>1. /\ pc[t] = "idle" /\ op' = [op EXCEPT ![t] = "close"]
        /\ pc' = [pc EXCEPT ![t] = "closing"]
        /\ UNCHANGED <<acct, victim, swap, seen, poolVars, registered, rebalance,
                       openings, victims, workVars>>
        /\ closed' = TRUE /\ todo' = registered
        /\ cancelled' = cancelled \cup {u \in Tasks : pc[u] \in Ensuring /\ op[u] # "reap"}
    BY <1>2 DEF BeginClose, Goto
  <2>2. TypeOK'
    BY <1>1, <2>1 DEF TypeOK, TaskTypes, PoolTypes, ManagerTypes, WorkTypes, PCs,
       AllOps, poolVars, workVars
  <2>3. Others(t) /\ TaskInv(t)'
    BY <1>1, <2>1 DEF TypeOK, TaskTypes, Others, TaskInv, Opening, Reaping, workVars
  <2> QED
    BY <2>1, <2>2, <2>3, FreeStep DEF workVars, SlotsKept, Opening
<1>3. ASSUME NEW a \in Accounts, NEW o \in {"serve", "promote"}, BeginLeased(t, a, o)
      PROVE  IInv'
  <2>1. TaskTypes' /\ Others(t) /\ TaskInv(t)' /\ pc[t] = "idle"
    BY <1>3, BeginFrame DEF BeginLeased, AllOps
  <2>2. TypeOK'
    BY <1>1, <1>3, <2>1 DEF BeginLeased, TypeOK, PoolTypes, ManagerTypes, WorkTypes,
       mgrVars, workVars
  <2> QED
    BY <1>3, <2>1, <2>2, FreeStep DEF BeginLeased, mgrVars, workVars, SlotsKept, Opening
<1>4. ASSUME NEW a \in Accounts, BeginExpand(t, a) \/ BeginPrewarm(t, a)
      PROVE  IInv'
  <2>1. TaskTypes' /\ Others(t) /\ TaskInv(t)' /\ pc[t] = "idle"
    BY <1>4, BeginFrame DEF BeginExpand, BeginPrewarm, AllOps
  <2>2. UNCHANGED <<poolVars, mgrVars, workVars>>
    BY <1>4 DEF BeginExpand, BeginPrewarm
  <2>3. TypeOK'
    BY <1>1, <2>1, <2>2 DEF TypeOK, PoolTypes, ManagerTypes, WorkTypes,
       poolVars, mgrVars, workVars
  <2> QED
    BY <2>1, <2>2, <2>3, FreeStep DEF mgrVars, workVars, SlotsKept, Opening
<1>5. ASSUME NEW a \in Accounts, BeginReap(t, a)
      PROVE  IInv'
  <2>1. /\ pc[t] = "idle" /\ pc' = [pc EXCEPT ![t] = "evictAsk"]
        /\ op' = [op EXCEPT ![t] = "reap"] /\ acct' = [acct EXCEPT ![t] = None]
        /\ seen' = [seen EXCEPT ![t].generation = 0]
        /\ victim' = [victim EXCEPT ![t] = a] /\ rebalance' = t
        /\ UNCHANGED <<swap, cancelled, poolVars, registered, closed,
                       openings, victims, todo, workVars>>
    BY <1>5 DEF BeginReap, Begin, Goto
  <2>2. TypeOK'
    <3>1. TaskTypes'
      BY <1>1, <2>1 DEF TypeOK, TaskTypes, PCs, AllOps
    <3>2. PoolTypes'
      BY <1>1, <2>1 DEF TypeOK, PoolTypes, poolVars
    <3>3. ManagerTypes' /\ WorkTypes'
      BY <1>1, <2>1 DEF TypeOK, ManagerTypes, WorkTypes, workVars
    <3> QED
      BY <3>1, <3>2, <3>3 DEF TypeOK
  <2>3. Others(t) /\ TaskInv(t)'
    BY <1>1, <2>1 DEF TypeOK, TaskTypes, Others, TaskInv, Opening, Reaping
  <2> QED
    BY <2>1, <2>2, <2>3, FreeStep DEF workVars, SlotsKept, Opening
<1>6. ASSUME NEW a \in Accounts, BeginUpdate(t, a)
      PROVE  IInv'
  <2>1. TaskTypes' /\ Others(t) /\ TaskInv(t)' /\ pc[t] = "idle"
    BY <1>6, BeginFrame DEF BeginUpdate, AllOps
  <2>2. TypeOK'
    BY <1>1, <1>6, <2>1 DEF BeginUpdate, TypeOK, PoolTypes, ManagerTypes, WorkTypes,
       mgrVars, workVars
  <2> QED
    BY <1>6, <2>1, <2>2, FreeStep DEF BeginUpdate, mgrVars, workVars, SlotsKept, Opening
<1>7. ASSUME NEW a \in Accounts, BeginReset(t, a)
      PROVE  IInv'
  <2>1. TaskTypes' /\ Others(t) /\ TaskInv(t)' /\ pc[t] = "idle"
    BY <1>7, BeginFrame DEF BeginReset, AllOps
  <2>2. TypeOK'
    BY <1>1, <1>7, <2>1 DEF BeginReset, TypeOK, PoolTypes, ManagerTypes, WorkTypes,
       poolVars, mgrVars, workVars
  <2> QED
    BY <1>7, <2>1, <2>2, FreeStep DEF BeginReset, mgrVars, workVars, SlotsKept, Opening
<1>8. ASSUME NEW a \in Accounts, BeginRemove(t, a)
      PROVE  IInv'
  <2>1. TaskTypes' /\ Others(t) /\ TaskInv(t)' /\ pc[t] = "idle"
    BY <1>8, BeginFrame DEF BeginRemove, AllOps
  <2>2. TypeOK'
    BY <1>1, <1>8, <2>1 DEF BeginRemove, TypeOK, PoolTypes, ManagerTypes, WorkTypes,
       mgrVars, workVars
  <2> QED
    BY <1>8, <2>1, <2>2, FreeStep DEF BeginRemove, mgrVars, workVars, SlotsKept, Opening
<1> QED
  BY <1>2, <1>3, <1>4, <1>5, <1>6, <1>7, <1>8 DEF Begins

(* ensureWorker before it opens anything.                                   *)
LEMMA LoopKeeps ==
  ASSUME IInv, NEW t \in Tasks,
         \/ EnsureCancelled(t) \/ EnsureOpening(t) \/ EnsureResume(t)
         \/ EnsureRefused(t) \/ EnsureReady(t) \/ EnsureNoRoom(t)
  PROVE  IInv'
<1>1. TypeOK /\ TaskInv(t)
  BY DEF IInv
<1>2. /\ pc[t] \in {"loop", "await"} /\ UNCHANGED <<mgrVars, workVars>>
  BY DEF EnsureCancelled, EnsureOpening, EnsureResume, EnsureRefused,
     EnsureReady, EnsureNoRoom, InLoop, MustStart
<1>3. ManagerTypes' /\ WorkTypes' /\ SlotsKept /\ UNCHANGED <<openings, victims, startup>>
  BY <1>1, <1>2 DEF TypeOK, ManagerTypes, WorkTypes, mgrVars, workVars, SlotsKept
<1>4. pc[t] \notin Opening \cup {"saving"} /\ acct[t] \in Accounts
  BY <1>1, <1>2 DEF Opening, TaskInv
<1>5. CASE Finish(t)
  BY <1>3, <1>4, <1>5, FreeEnd
<1>6. CASE EnsureReady(t)
  <2>1. slot[acct[t]].serial \in Nat /\ slot' \in [Accounts -> Slot]
    BY <1>1, <1>3, <1>4 DEF TypeOK, WorkTypes, Slot
  <2>2. TaskTypes' /\ PoolTypes' /\ Others(t) /\ TaskInv(t)'
    BY <1>1, <1>4, <1>6, <2>1, DeliverFrame DEF EnsureReady
  <2> QED
    BY <1>3, <1>4, <2>2, FreeStep DEF TypeOK
<1>7. CASE \E l \in {"loop", "await"} :
             Goto(t, l) /\ UNCHANGED <<op, acct, victim, swap, seen, cancelled, poolVars>>
  <2>1. TaskTypes' /\ PoolTypes'
    BY <1>1, <1>7 DEF TypeOK, TaskTypes, PoolTypes, Goto, PCs, poolVars
  <2>2. Others(t) /\ TaskInv(t)'
    BY <1>1, <1>4, <1>7 DEF TypeOK, TaskTypes, Goto, Others, TaskInv, Opening, Reaping
  <2> QED
    BY <1>3, <1>4, <2>1, <2>2, FreeStep DEF TypeOK
<1> QED
  BY <1>5, <1>6, <1>7 DEF EnsureCancelled, EnsureOpening, EnsureResume,
     EnsureRefused, EnsureNoRoom

(* Opening an account, with a free slot or with a victim to replace.        *)
LEMMA OpenKeeps ==
  ASSUME IInv, NEW t \in Tasks, EnsureSlot(t) \/ EnsureSwap(t)
  PROVE  IInv'
<1> USE PoolAssumption
<1> DEFINE a == acct[t]
<1>1. TypeOK /\ TaskInv(t) /\ \A b \in Accounts : AccountInv(b)
  BY DEF IInv
<1>2. /\ pc[t] = "loop" /\ openings[a] = None
      /\ pc' = [pc EXCEPT ![t] = "starting"]
      /\ openings' = [openings EXCEPT ![a] = t]
      /\ UNCHANGED <<op, acct, seen, cancelled, poolVars, registered, closed,
                     rebalance, todo, workVars>>
  BY DEF EnsureSlot, EnsureSwap, MustStart, InLoop, Open, Goto
<1>3. a \in Accounts /\ ~Reaping(t)
  BY <1>1, <1>2 DEF TaskInv, Opening
<1>4. \/ UNCHANGED <<victim, victims, swap>>
      \/ \E v \in Accounts : /\ victim' = [victim EXCEPT ![t] = v]
                             /\ victims' = victims \cup {v}
                             /\ swap' = [swap EXCEPT ![t] = TRUE]
  <2>1. IdleWarm(a) \subseteq Accounts
    BY <1>1 DEF IdleWarm, Warm, TypeOK, ManagerTypes
  <2> QED
    BY <2>1 DEF EnsureSlot, EnsureSwap
<1>5. TypeOK'
  <2>1. TaskTypes'
    <3>1. victim' \in [Tasks -> Accounts \cup {None}] /\ swap' \in [Tasks -> BOOLEAN]
      <4>1. victim \in [Tasks -> Accounts \cup {None}] /\ swap \in [Tasks -> BOOLEAN]
        BY <1>1 DEF TypeOK, TaskTypes
      <4>2. CASE UNCHANGED <<victim, victims, swap>>
        BY <4>1, <4>2
      <4>3. CASE \E v \in Accounts : /\ victim' = [victim EXCEPT ![t] = v]
                                    /\ swap' = [swap EXCEPT ![t] = TRUE]
        <5>1. PICK v \in Accounts : /\ victim' = [victim EXCEPT ![t] = v]
                                    /\ swap' = [swap EXCEPT ![t] = TRUE]
          BY <4>3
        <5> QED
          BY <4>1, <5>1
      <4> QED
        BY <1>4, <4>2, <4>3
    <3>2. pc' \in [Tasks -> PCs]
      BY <1>1, <1>2 DEF TypeOK, TaskTypes, PCs
    <3> QED
      BY <1>1, <1>2, <3>1, <3>2 DEF TypeOK, TaskTypes
  <2>2. PoolTypes' /\ WorkTypes'
    BY <1>1, <1>2 DEF TypeOK, PoolTypes, WorkTypes, poolVars, workVars
  <2>3. ManagerTypes'
    BY <1>1, <1>2, <1>4 DEF TypeOK, ManagerTypes
  <2> QED
    BY <2>1, <2>2, <2>3 DEF TypeOK
<1>6. /\ pc'[t] = "starting" /\ acct'[t] = a /\ op'[t] = op[t]
      /\ openings'[a] = t /\ swap'[t] \in {swap[t], TRUE}
  BY <1>1, <1>2, <1>3, <1>4 DEF TypeOK, TaskTypes, ManagerTypes
<1>7. TaskInv(t)'
  BY <1>1, <1>2, <1>3, <1>6 DEF TaskInv, Opening, Reaping
<1>8. Others(t)
  BY <1>1, <1>2, <1>4 DEF TypeOK, TaskTypes, Others
<1>9. t # None /\ \A b \in Accounts : startup[b] # t /\ (openings[b] # t)
  BY <1>1, <1>2 DEF AccountInv, Opening, Holding, PoolAssumption
<1>10. FairShare(t, startup, startup') /\ FairShare(t, openings, openings')
  BY <1>1, <1>2, <1>3, <1>9 DEF FairShare, workVars, TypeOK, ManagerTypes
<1>11. \A b \in Accounts : /\ startup'[b] # t
                           /\ openings'[b] = t => b = a
  BY <1>1, <1>2, <1>9 DEF workVars, TypeOK, ManagerTypes
<1>12. PendingMoves(t)
  BY <1>1, <1>2, <1>11 DEF PendingMoves, AccountInv, workVars
<1>13. ASSUME NEW v \in victims'
       PROVE  \/ victim'[t] = v /\ ~Reaping(t)'
              \/ v \in victims /\ ~(victim[t] = v /\ ~Reaping(t))
  <2>1. victim[t] = None /\ ~Reaping(t)'
    BY <1>1, <1>2, <1>3 DEF TaskInv, Opening, Reaping
  <2>2. v \in victims => v # None
    BY <1>1 DEF TypeOK, ManagerTypes, PoolAssumption
  <2> QED
    BY <1>1, <1>4, <2>1, <2>2 DEF TypeOK, TaskTypes
<1> QED
  BY <1>5, <1>6, <1>7, <1>8, <1>10, <1>11, <1>12, <1>13, Frame DEF Opening

(* startReservedWorker.                                                     *)
LEMMA StartKeeps ==
  ASSUME IInv, NEW t \in Tasks, NEW a \in Accounts,
         \/ StartRefused(t, a) \/ StartFound(t, a) \/ StartLaunch(t, a)
         \/ LaunchSucceeds(t, a) \/ LaunchFails(t, a)
  PROVE  IInv'
<1> USE PoolAssumption
<1>1. TypeOK /\ TaskInv(t) /\ AccountInv(a)
  BY DEF IInv
<1>2. /\ acct[t] = a /\ pc[t] \in {"starting", "launching"}
      /\ \E l \in {"startFailed", "started", "launching"} : Goto(t, l)
      /\ UNCHANGED <<op, acct, victim, swap, cancelled, poolVars, mgrVars>>
  BY DEF StartRefused, StartFound, StartLaunch, LaunchSucceeds, LaunchFails, StartingOn
<1>3. pc[t] \in Opening /\ ~Reaping(t) /\ openings[a] = t
  BY <1>1, <1>2 DEF TaskInv, Opening
<1>4. seen' \in [Tasks -> [generation : Nat, serial : Nat]]
  <2>1. slot[a].serial \in Nat
    BY <1>1 DEF TypeOK, WorkTypes, Slot
  <2> QED
    BY <1>1, <2>1 DEF TypeOK, TaskTypes, StartRefused, StartFound, StartLaunch,
       LaunchSucceeds, LaunchFails
<1>5. TaskTypes' /\ PoolTypes' /\ ManagerTypes' /\ Others(t)
  <2>1. pc' \in [Tasks -> PCs]
    BY <1>1, <1>2 DEF TypeOK, TaskTypes, Goto, PCs
  <2>2. TaskTypes'
    BY <1>1, <1>2, <1>4, <2>1 DEF TypeOK, TaskTypes
  <2>3. PoolTypes' /\ ManagerTypes'
    BY <1>1, <1>2 DEF TypeOK, PoolTypes, ManagerTypes, poolVars, mgrVars
  <2>4. Others(t)
    BY <1>1, <1>2 DEF TypeOK, TaskTypes, Goto, Others
  <2> QED
    BY <2>2, <2>3, <2>4
<1>6. pc'[t] \in {"startFailed", "started", "launching"} /\ UNCHANGED <<openings, victims>>
  BY <1>1, <1>2 DEF TypeOK, TaskTypes, Goto, mgrVars
<1>7. (pc'[t] = "launching" => startup'[a] = t) => TaskInv(t)'
  BY <1>1, <1>2, <1>3, <1>6 DEF TaskInv, Opening, Reaping
<1>8. ASSUME NEW v \in victims' PROVE victim'[t] = v \/ (v \in victims /\ victim[t] # v)
  BY <1>2, <1>6
<1>9. CASE StartRefused(t, a) \/ StartFound(t, a) \/ LaunchSucceeds(t, a)
  <2>1. WorkTypes' /\ UNCHANGED startup /\ SlotsKept
    BY <1>1, <1>9 DEF TypeOK, WorkTypes, workVars, SlotsKept, StartRefused, StartFound,
       LaunchSucceeds
  <2>2. /\ pc'[t] \in {"startFailed", "started"}
        /\ pc[t] = "starting" \/ pc'[t] = "started"
    BY <1>1, <1>9 DEF StartRefused, StartFound, StartingOn, LaunchSucceeds, Goto,
       TypeOK, TaskTypes
  <2>3. pc[t] \in Holding => pc'[t] \in Holding
    BY <2>2 DEF Holding, Opening
  <2> QED
    BY <1>2, <1>3, <1>5, <1>7, <1>8, <2>1, <2>2, <2>3, OwnStep DEF TypeOK, Opening, mgrVars
<1>10. CASE StartLaunch(t, a)
  <2>1. /\ startup[a] = None /\ LeaseFree(slot[a]) /\ ~CleanupPending(slot[a])
        /\ startup' = [startup EXCEPT ![a] = t]
        /\ slot' = [slot EXCEPT ![a] = Launch(slot[a])]
        /\ pc'[t] = "launching"
    BY <1>1, <1>10 DEF StartLaunch, Goto, TypeOK, TaskTypes
  <2>2. Quiet(slot[a])
    BY <1>1, <2>1 DEF AccountInv, Quiet, TypeOK, WorkTypes
  <2>3. Launch(slot[a]) \in Slot /\ SlotGuard(Launch(slot[a]))
    BY <2>1, <2>2, LaunchGuard
  <2>4. TypeOK'
    BY <1>1, <1>5, <2>1, <2>3 DEF TypeOK, WorkTypes
  <2>5. startup'[a] = t /\ startup \in [Accounts -> Tasks \cup {None}] /\ slot \in [Accounts -> Slot]
    BY <1>1, <2>1 DEF TypeOK, WorkTypes
  <2>6. t # None /\ \A b \in Accounts : /\ startup[b] = t => b = a
                                        /\ openings[b] = t => b = a
    BY <1>2 DEF IInv, AccountInv, PoolAssumption
  <2>7. FairShare(t, startup, startup') /\ FairShare(t, openings, openings')
    BY <1>6, <2>1, <2>5, <2>6 DEF FairShare
  <2>8. PendingMoves(t)
    BY <2>1, <2>3, <2>5, <2>6 DEF PendingMoves, IInv, AccountInv
  <2>9. \A b \in Accounts : startup'[b] = t => acct'[t] = b /\ pc'[t] \in Holding
    BY <1>2, <2>1, <2>5, <2>6 DEF Holding, Opening
  <2>10. \A b \in Accounts : openings'[b] = t => acct'[t] = b /\ pc'[t] \in Opening
    BY <1>2, <1>6, <2>1, <2>6 DEF Opening
  <2>11. ~Reaping(t)'
    BY <1>2, <1>3 DEF Reaping
  <2> QED
    BY <1>3, <1>5, <1>7, <1>8, <2>4, <2>5, <2>7, <2>8, <2>9, <2>10, <2>11, Frame
<1>11. CASE LaunchFails(t, a)
  <2>1. PICK s \in AbortLaunch(slot[a]) : slot' = [slot EXCEPT ![a] = s]
    BY <1>11 DEF LaunchFails
  <2>2. /\ startup' = [startup EXCEPT ![a] = None] /\ startup[a] = t
        /\ pc'[t] = "startFailed"
    BY <1>1, <1>11 DEF LaunchFails, Goto, TypeOK, TaskTypes, TaskInv
  <2>3. Quiet(s)
    BY <1>1, AbortLaunchQuiet DEF AccountInv, TypeOK, WorkTypes
  <2>4. startup \in [Accounts -> Tasks \cup {None}] /\ slot \in [Accounts -> Slot]
    BY <1>1 DEF TypeOK, WorkTypes
  <2>5. TypeOK'
    BY <1>1, <1>5, <2>1, <2>2, <2>3, <2>4 DEF TypeOK, WorkTypes, Quiet
  <2>6. t # None /\ \A b \in Accounts : /\ startup[b] = t => b = a
                                        /\ openings[b] = t => b = a
    BY <1>2 DEF IInv, AccountInv, PoolAssumption
  <2>7. FairShare(t, startup, startup') /\ FairShare(t, openings, openings')
    BY <1>6, <2>2, <2>4, <2>6 DEF FairShare
  <2>8. PendingMoves(t)
    BY <2>1, <2>2, <2>3, <2>4, <2>6 DEF PendingMoves, IInv, AccountInv, Quiet
  <2>9. \A b \in Accounts : startup'[b] # t
    BY <2>2, <2>4, <2>6
  <2>10. \A b \in Accounts : openings'[b] = t => acct'[t] = b /\ pc'[t] \in Opening
    BY <1>2, <1>6, <2>2, <2>6 DEF Opening
  <2>11. ~Reaping(t)'
    BY <1>2, <1>3 DEF Reaping
  <2> QED
    BY <1>3, <1>5, <1>7, <1>8, <2>2, <2>5, <2>7, <2>8, <2>9, <2>10, <2>11, Frame
<1> QED
  BY <1>9, <1>10, <1>11

(* finishOpening and the unlock keep the manager's types.                   *)
LEMMA CloseOpeningTypes ==
  ASSUME TypeOK, NEW t \in Tasks, CloseOpening(t)
  PROVE  ManagerTypes'
BY DEF TypeOK, ManagerTypes, CloseOpening

(* A discarded or activated preparer leaves its account quiet.              *)
LEMMA PreparerEnds ==
  ASSUME IInv, NEW t \in Tasks, acct[t] \in Accounts,
         NEW s, s \in DiscardPending(slot[acct[t]]) \cup ActivatePending(slot[acct[t]]),
         slot' = [slot EXCEPT ![acct[t]] = s], UnlockStartup(t, acct[t])
  PROVE  /\ WorkTypes' /\ Quiet(s)
         /\ \A a \in Accounts : startup'[a] = IF startup[a] = t THEN None ELSE startup[a]
         /\ \A a \in Accounts :
              \/ slot'[a] = slot[a] /\ startup[a] # t
              \/ a = acct[t] /\ Quiet(slot'[a])
<1> USE PoolAssumption
<1>1. WorkTypes /\ \A a \in Accounts : AccountInv(a)
  BY DEF IInv, TypeOK
<1>2. Quiet(s)
  BY <1>1, DiscardPendingQuiet, ActivatePendingQuiet DEF WorkTypes, AccountInv
<1>3. \A a \in Accounts : startup[a] = t => a = acct[t]
  BY <1>1 DEF AccountInv, PoolAssumption
<1>4. WorkTypes'
  BY <1>1, <1>2 DEF WorkTypes, UnlockStartup, Quiet
<1>5. \A a \in Accounts : startup'[a] = IF startup[a] = t THEN None ELSE startup[a]
  BY <1>1, <1>3 DEF WorkTypes, UnlockStartup
<1> QED
  BY <1>1, <1>2, <1>3, <1>4, <1>5 DEF WorkTypes

(* ensureWorker's ways out of an opening.                                   *)
LEMMA EndKeeps ==
  ASSUME IInv, NEW t \in Tasks,
         \/ OpenFails(t) \/ OpenCancelled(t) \/ OpenSucceeds(t)
         \/ SwapPublish(t) \/ SwapDiscard(t)
  PROVE  IInv'
<1> USE PoolAssumption
<1>1. TypeOK /\ TaskInv(t) /\ \A a \in Accounts : AccountInv(a)
  BY DEF IInv
<1>2. pc[t] \in {"startFailed", "started", "evicted", "evictFailed"} /\ CloseOpening(t)
  BY DEF OpenFails, OpenCancelled, OpenSucceeds, SwapPublish, SwapDiscard
<1>3. pc[t] \in Opening /\ ~Reaping(t) /\ acct[t] \in Accounts
  BY <1>1, <1>2 DEF TaskInv, Opening
<1>4. ManagerTypes'
  BY <1>1, <1>2, CloseOpeningTypes
<1>5. CASE OpenFails(t)
  <2>1. pc[t] = "startFailed" /\ Finish(t) /\ UNCHANGED <<startup, slot>>
    BY <1>5 DEF OpenFails, workVars
  <2>2. TypeOK' /\ Others(t) /\ TaskInv(t)' /\ victim'[t] = None
    BY <1>1, <1>4, <2>1, FinishFrame DEF TypeOK, WorkTypes
  <2>3. t # None /\ \A a \in Accounts : startup[a] # t
    BY <1>1, <2>1 DEF AccountInv, Holding, Opening, PoolAssumption
  <2> QED
    BY <1>2, <1>3, <2>1, <2>2, <2>3, EndStep
<1>6. CASE Discard(t)
  <2>1. PICK s \in DiscardPending(slot[acct[t]]) : slot' = [slot EXCEPT ![acct[t]] = s]
    BY <1>6 DEF Discard
  <2>2. UnlockStartup(t, acct[t]) /\ Finish(t)
    BY <1>6 DEF Discard
  <2>3. TypeOK' /\ Others(t) /\ TaskInv(t)' /\ victim'[t] = None
    BY <1>1, <1>3, <1>4, <2>1, <2>2, FinishFrame, PreparerEnds DEF TypeOK
  <2> QED
    BY <1>2, <1>3, <2>1, <2>2, <2>3, PreparerEnds, EndStep
<1>7. CASE Activate(t)
  <2>1. PICK s \in DiscardPending(slot[acct[t]]) \cup ActivatePending(slot[acct[t]]) :
          /\ slot' = [slot EXCEPT ![acct[t]] = s]
          /\ UnlockStartup(t, acct[t])
          /\ Deliver(t, seen[t].serial) \/ Deliver(t, s.serial) \/ Finish(t)
    BY <1>7 DEF Activate
  <2>2. WorkTypes' /\ Quiet(s)
    BY <1>3, <2>1, PreparerEnds
  <2>3. seen[t].serial \in Nat /\ s.serial \in Nat /\ slot' \in [Accounts -> Slot]
    BY <1>1, <2>2 DEF TypeOK, TaskTypes, WorkTypes, Quiet, Slot
  <2>4. TaskTypes' /\ PoolTypes' /\ Others(t) /\ TaskInv(t)' /\ victim'[t] = None
    BY <1>1, <1>3, <2>1, <2>3, FinishFrame, DeliverFrame
  <2>5. TypeOK'
    BY <1>4, <2>2, <2>4 DEF TypeOK
  <2> QED
    BY <1>2, <1>3, <2>1, <2>4, <2>5, PreparerEnds, EndStep
<1> QED
  BY <1>5, <1>6, <1>7 DEF OpenCancelled, OpenSucceeds, SwapPublish, SwapDiscard

(* A free idle worker that SwapEvict picks is an account.                   *)
LEMMA IdleWarmIsAccount ==
  ASSUME TypeOK, NEW a
  PROVE  IdleWarm(a) \subseteq Accounts
BY DEF TypeOK, ManagerTypes, IdleWarm, Warm

(* The eviction of a victim by a replacement.                               *)
LEMMA EvictKeeps ==
  ASSUME IInv, NEW t \in Tasks, NEW v \in Accounts,
         \/ EvictAsks(t, v) \/ EvictAcquire(t, v) \/ EvictLate(t, v)
         \/ EvictRefused(t, v) \/ EvictReset(t, v)
  PROVE  IInv'
<1> USE PoolAssumption
<1>1. TypeOK /\ TaskInv(t) /\ \A a \in Accounts : AccountInv(a)
  BY DEF IInv
<1>2. /\ pc[t] \in {"evictAsk", "evict", "evicting"} /\ victim[t] = v
      /\ \E l \in {"evict", "evicting", "started", "evictFailed", "evicted"} : Goto(t, l)
      /\ UNCHANGED <<op, acct, swap, seen, cancelled, pooled, sharers,
                     registered, closed, openings, todo, startup>>
  BY DEF EvictAsks, EvictAcquire, EvictLate, EvictRefused, EvictReset, LeavePool,
     mgrVars, workVars
<1>3. /\ rebalance' \in {rebalance, None} /\ victim' \in [Tasks -> Accounts \cup {None}]
      /\ \A u \in Tasks \ {t} : victim'[u] = victim[u]
      /\ victims' \subseteq victims
      /\ exclusive' \in [Accounts -> Tasks \cup {None}]
      /\ waiters' \in [Accounts -> SUBSET Tasks]
      /\ \A w \in victims' : victim'[t] = w \/ (w \in victims /\ victim[t] # w)
  <2>1. /\ rebalance' \in {rebalance, None}
        /\ \/ UNCHANGED <<victim, victims>>
           \/ victim' = [victim EXCEPT ![t] = None] /\ victims' = victims \ {v}
    BY DEF EvictAsks, EvictAcquire, EvictLate, EvictRefused, EvictReset, mgrVars
  <2>2. /\ exclusive' \in {exclusive, [exclusive EXCEPT ![v] = t], [exclusive EXCEPT ![v] = None]}
        /\ waiters' \in {waiters, [waiters EXCEPT ![v] = @ \cup {t}], [waiters EXCEPT ![v] = @ \ {t}]}
    BY DEF EvictAsks, EvictAcquire, EvictLate, EvictRefused, EvictReset, LeavePool
  <2>3. victim \in [Tasks -> Accounts \cup {None}] /\ victims \subseteq Accounts
    BY <1>1 DEF TypeOK, TaskTypes, ManagerTypes
  <2>4. /\ exclusive' \in [Accounts -> Tasks \cup {None}]
        /\ waiters' \in [Accounts -> SUBSET Tasks]
    BY <1>1, <2>2 DEF TypeOK, PoolTypes
  <2>5. CASE UNCHANGED <<victim, victims>>
    BY <2>1, <2>3, <2>4, <2>5
  <2>6. CASE victim' = [victim EXCEPT ![t] = None] /\ victims' = victims \ {v}
    BY <1>2, <2>1, <2>3, <2>4, <2>6
  <2> QED
    BY <2>1, <2>5, <2>6
<1>4. /\ slot' \in [Accounts -> Slot] /\ SlotsKept
  <2>1. CASE UNCHANGED slot
    BY <1>1, <2>1 DEF TypeOK, WorkTypes, SlotsKept
  <2>2. CASE ~UNCHANGED slot
    <3>1. /\ startup[v] = None
          /\ \E s \in CloseAccountWorker(slot[v]) : slot' = [slot EXCEPT ![v] = s]
      BY <2>2 DEF EvictAsks, EvictAcquire, EvictLate, EvictRefused, EvictReset, workVars
    <3> QED
      BY <3>1, CloseKeepsSlots
  <2> QED
    BY <2>1, <2>2
<1>5. TypeOK'
  <2>1. pc' \in [Tasks -> PCs]
    BY <1>1, <1>2 DEF TypeOK, TaskTypes, Goto, PCs
  <2>2. TaskTypes'
    BY <1>1, <1>2, <1>3, <2>1 DEF TypeOK, TaskTypes
  <2>3. PoolTypes' /\ ManagerTypes' /\ WorkTypes'
    BY <1>1, <1>2, <1>3, <1>4 DEF TypeOK, PoolTypes, ManagerTypes, WorkTypes
  <2> QED
    BY <2>2, <2>3 DEF TypeOK
<1>6. Others(t) /\ pc'[t] \in {"evict", "evicting", "started", "evictFailed", "evicted"}
  BY <1>1, <1>2, <1>3 DEF TypeOK, TaskTypes, Goto, Others
<1>7. CASE Reaping(t)
  <2>1. EvictAsks(t, v) \/ EvictAcquire(t, v)
    BY <1>1, <1>7 DEF TaskInv, EvictLate, EvictRefused, EvictReset
  <2>2. pc'[t] \in {"evict", "evicting"} /\ UNCHANGED <<victim, mgrVars>>
    BY <1>1, <2>1 DEF EvictAsks, EvictAcquire, Goto, TypeOK, TaskTypes
  <2>3. TaskInv(t)' /\ UNCHANGED <<openings, victims, startup>>
    BY <1>1, <1>2, <1>7, <2>2 DEF TaskInv, Reaping, Opening, mgrVars
  <2> QED
    BY <1>4, <1>5, <1>6, <1>7, <2>3, FreeStep
<1>8. CASE ~Reaping(t)
  <2>1. pc[t] \in Opening /\ pc'[t] \in Opening /\ pc'[t] \in Holding
    BY <1>2, <1>6 DEF Opening, Holding
  <2>2. TaskInv(t)'
    BY <1>1, <1>2, <1>6, <1>8, <2>1 DEF TaskInv, Reaping
  <2> QED
    BY <1>2, <1>3, <1>4, <1>5, <1>6, <1>8, <2>1, <2>2, OwnStep
<1> QED
  BY <1>7, <1>8

(* The replacement takes rebalanceMu and turns to its victim.               *)
LEMMA SwapKeeps ==
  ASSUME IInv, NEW t \in Tasks, SwapEvict(t)
  PROVE  IInv'
<1> USE PoolAssumption
<1>1. TypeOK /\ TaskInv(t)
  BY DEF IInv
<1>2. PICK v \in IF victim[t] = None THEN IdleWarm(acct[t]) ELSE {victim[t]} :
        victim' = [victim EXCEPT ![t] = v] /\ victims' = victims \cup {v}
  BY DEF SwapEvict
<1>3. v \in Accounts /\ (victim[t] # None => v = victim[t])
  BY <1>1, <1>2, IdleWarmIsAccount DEF TypeOK, TaskTypes
<1>4. /\ pc[t] = "started" /\ pc' = [pc EXCEPT ![t] = "evictAsk"] /\ rebalance' = t
      /\ UNCHANGED <<op, acct, swap, seen, cancelled, poolVars, registered, closed, openings, todo, startup, slot>>
  BY DEF SwapEvict, Goto, workVars
<1>5. TypeOK'
  <2>1. TaskTypes'
    BY <1>1, <1>2, <1>3, <1>4 DEF TypeOK, TaskTypes, PCs
  <2>2. PoolTypes' /\ ManagerTypes' /\ WorkTypes'
    BY <1>1, <1>2, <1>3, <1>4 DEF TypeOK, PoolTypes, ManagerTypes, WorkTypes, poolVars
  <2> QED
    BY <2>1, <2>2 DEF TypeOK
<1>6. Others(t) /\ pc'[t] = "evictAsk" /\ victim'[t] = v /\ ~Reaping(t)
  BY <1>1, <1>2, <1>3, <1>4 DEF TypeOK, TaskTypes, Others, TaskInv
<1>7. TaskInv(t)'
  BY <1>1, <1>4, <1>6 DEF TaskInv, Reaping, Opening
<1>8. \A w \in victims' : victim'[t] = w \/ (w \in victims /\ victim[t] # w)
  BY <1>1, <1>2, <1>3, <1>6 DEF TypeOK, ManagerTypes, PoolAssumption
<1> QED
  BY <1>4, <1>5, <1>6, <1>7, <1>8, OwnStep DEF Opening, Holding, SlotsKept

(* A task that owns nothing goes on to its next call.                       *)
LEMMA MoveFrame ==
  ASSUME IInv, NEW t \in Tasks, pc[t] \notin Opening \cup {"idle", "closing"},
         NEW l \in PCs \ (Opening \cup {"saving"}), Goto(t, l),
         UNCHANGED <<op, acct, victim, swap, seen, cancelled>>
  PROVE  TaskTypes' /\ Others(t) /\ TaskInv(t)'
<1>1. TypeOK /\ TaskInv(t)
  BY DEF IInv
<1>2. TaskTypes' /\ Others(t) /\ pc'[t] = l
  BY <1>1 DEF TypeOK, TaskTypes, Goto, Others
<1>3. TaskInv(t)'
  BY <1>1, <1>2 DEF TaskInv, Opening, Reaping
<1> QED
  BY <1>2, <1>3

(* A request using its worker, its failures and its recovery.               *)
LEMMA ServeKeeps ==
  ASSUME IInv, NEW t \in Tasks, ServeStep(t)
  PROVE  IInv'
<1>1. TypeOK /\ TaskInv(t)
  BY DEF IInv
<1>2. CASE ServeEnds(t)
  <2>1. pc[t] \notin Opening \cup {"saving"} /\ Finish(t)
    BY <1>2 DEF ServeEnds, Opening
  <2>2. UNCHANGED <<mgrVars, workVars>>
    BY <1>2 DEF ServeEnds
  <2> QED
    BY <1>1, <2>1, <2>2, FreeEnd DEF TypeOK, ManagerTypes, WorkTypes, mgrVars, workVars, SlotsKept
<1>3. CASE ServeUnauthorized(t)
  <2>1. /\ pc[t] = "serving" /\ \E l \in {"loop", "reauth"} : Goto(t, l)
        /\ UNCHANGED <<op, acct, victim, swap, seen, cancelled, poolVars, mgrVars, workVars>>
    BY <1>3 DEF ServeUnauthorized
  <2>2. TaskTypes' /\ Others(t) /\ TaskInv(t)'
    BY <2>1, MoveFrame DEF Opening, PCs
  <2>3. TypeOK'
    BY <1>1, <2>1, <2>2 DEF TypeOK, PoolTypes, ManagerTypes, WorkTypes, poolVars, mgrVars, workVars
  <2> QED
    BY <2>1, <2>2, <2>3, FreeStep DEF Opening, mgrVars, workVars, SlotsKept
<1>4. ASSUME NEW a \in Accounts, ServeFails(t, a)
      PROVE  IInv'
  <2>1. /\ pc[t] = "serving" /\ Goto(t, "recoverWait")
        /\ sharers' = [sharers EXCEPT ![a] = @ \ {t}]
        /\ waiters' = [waiters EXCEPT ![a] = @ \cup {t}]
        /\ UNCHANGED <<op, acct, victim, swap, seen, cancelled, pooled, exclusive, mgrVars, workVars>>
    BY <1>4 DEF ServeFails
  <2>2. TaskTypes' /\ Others(t) /\ TaskInv(t)'
    BY <2>1, MoveFrame DEF Opening, PCs
  <2>3. TypeOK'
    BY <1>1, <2>1, <2>2 DEF TypeOK, PoolTypes, ManagerTypes, WorkTypes, mgrVars, workVars
  <2> QED
    BY <2>1, <2>2, <2>3, FreeStep DEF Opening, mgrVars, workVars, SlotsKept
<1>5. ASSUME NEW a \in Accounts, Reauthorize(t, a)
      PROVE  IInv'
  <2>1. /\ pc[t] = "reauth" /\ ResetAccount(a) /\ UNCHANGED <<mgrVars, startup>>
        /\ \/ Finish(t)
           \/ Goto(t, "loop") /\ UNCHANGED <<op, acct, victim, swap, seen, cancelled, poolVars>>
    BY <1>5 DEF Reauthorize
  <2>2. SlotsKept /\ WorkTypes' /\ ManagerTypes'
    BY <1>1, <2>1, ResetKeepsSlots DEF TypeOK, WorkTypes, ManagerTypes, mgrVars
  <2>3. pc[t] \notin Opening \cup {"saving", "idle", "closing"} /\ UNCHANGED <<openings, victims, startup>>
    BY <2>1 DEF Opening, mgrVars
  <2>4. CASE Finish(t)
    BY <2>2, <2>3, <2>4, FreeEnd
  <2>5. CASE Goto(t, "loop") /\ UNCHANGED <<op, acct, victim, swap, seen, cancelled, poolVars>>
    <3>1. TaskTypes' /\ Others(t) /\ TaskInv(t)'
      BY <2>3, <2>5, MoveFrame DEF Opening, PCs
    <3>2. TypeOK'
      BY <1>1, <2>2, <2>5, <3>1 DEF TypeOK, PoolTypes, poolVars
    <3> QED
      BY <2>2, <2>3, <3>1, <3>2, FreeStep
  <2> QED
    BY <2>1, <2>4, <2>5
<1>6. ASSUME NEW a \in Accounts, RecoverReset(t, a)
      PROVE  IInv'
  <2>1. pc[t] = "recovering" /\ Finish(t) /\ UNCHANGED <<mgrVars, startup>>
    BY <1>6 DEF RecoverReset
  <2>2. SlotsKept /\ slot' \in [Accounts -> Slot]
    <3>1. slot \in [Accounts -> Slot]
      BY <1>1 DEF TypeOK, WorkTypes
    <3>2. CASE slot' = slot
      BY <3>1, <3>2 DEF SlotsKept
    <3>3. CASE startup[a] = None /\ \E s \in CloseAccountWorker(slot[a]) : slot' = [slot EXCEPT ![a] = s]
      BY <3>3, CloseKeepsSlots
    <3>4. CASE slot' = [slot EXCEPT ![a] = slot[a]]
      BY <3>1, <3>2, <3>4
    <3> QED
      BY <1>6, <3>2, <3>3, <3>4 DEF RecoverReset
  <2> QED
    BY <1>1, <2>1, <2>2, FreeEnd DEF TypeOK, ManagerTypes, WorkTypes, mgrVars, Opening
<1> QED
  BY <1>2, <1>3, <1>4, <1>5, <1>6 DEF ServeStep

(* Steps that end a call after a Reset, and the shutdown of one account.    *)
LEMMA ResetsKeep ==
  ASSUME IInv, NEW t \in Tasks, NEW a \in Accounts,
         \/ ReapReset(t, a) \/ Reset(t, a) \/ RemoveReset(t, a)
         \/ RemoveClose(t, a) \/ CloseOne(t, a)
  PROVE  IInv'
<1>1. TypeOK /\ TaskInv(t)
  BY DEF IInv
<1>2. SlotsKept /\ WorkTypes' /\ UNCHANGED startup
  <2>1. WorkTypes /\ UNCHANGED startup
    BY <1>1 DEF TypeOK, ReapReset, ReapEnds, Reset, RemoveReset, RemoveClose, CloseOne
  <2>2. CASE ResetAccount(a)
    BY <2>1, <2>2, ResetKeepsSlots DEF WorkTypes
  <2>3. CASE startup[a] = None /\ \E s \in CloseAccountWorker(slot[a]) : slot' = [slot EXCEPT ![a] = s]
    BY <2>1, <2>3, CloseKeepsSlots DEF WorkTypes
  <2>4. CASE slot' = slot \/ slot' = [slot EXCEPT ![a] = slot[a]]
    BY <2>1, <2>4 DEF WorkTypes, SlotsKept
  <2> QED
    BY <2>2, <2>3, <2>4 DEF ReapReset, Reset, RemoveReset, RemoveClose, CloseOne, ResetAccount
<1>3. CASE ReapReset(t, a)
  <2>1. Reaping(t) /\ Finish(t) /\ rebalance' = None
        /\ UNCHANGED <<registered, closed, openings, victims, todo, startup>>
    BY <1>3 DEF ReapReset, ReapEnds, Reaping
  <2>2. ManagerTypes'
    BY <1>1, <2>1 DEF TypeOK, ManagerTypes
  <2> QED
    BY <1>2, <2>1, <2>2, FreeEnd
<1>4. CASE Reset(t, a) \/ RemoveClose(t, a)
  <2>1. pc[t] \in {"resetting", "removeClose"} /\ Finish(t) /\ UNCHANGED mgrVars
    BY <1>4 DEF Reset, RemoveClose
  <2>2. ManagerTypes'
    BY <1>1, <2>1 DEF TypeOK, ManagerTypes, mgrVars
  <2> QED
    BY <1>2, <2>1, <2>2, FreeEnd DEF mgrVars, Opening
<1>5. CASE RemoveReset(t, a)
  <2>1. /\ pc[t] = "removeReset" /\ UNCHANGED mgrVars
        /\ \/ Finish(t)
           \/ /\ pooled' = pooled \ {a} /\ exclusive' = [exclusive EXCEPT ![a] = None]
              /\ Goto(t, "removing")
              /\ UNCHANGED <<op, acct, victim, swap, seen, cancelled, sharers, waiters>>
    BY <1>5 DEF RemoveReset
  <2>2. /\ ManagerTypes' /\ UNCHANGED <<openings, victims>>
        /\ pc[t] \notin Opening \cup {"saving", "idle", "closing"}
    BY <1>1, <2>1 DEF TypeOK, ManagerTypes, mgrVars, Opening
  <2>3. CASE Finish(t)
    BY <1>2, <2>2, <2>3, FreeEnd
  <2>4. CASE ~Finish(t)
    <3>1. TaskTypes' /\ Others(t) /\ TaskInv(t)'
      BY <2>1, <2>2, <2>4, MoveFrame DEF Opening, PCs
    <3>2. PoolTypes'
      BY <1>1, <2>1, <2>4 DEF TypeOK, PoolTypes
    <3> QED
      BY <1>2, <2>2, <3>1, <3>2, FreeStep DEF TypeOK
  <2> QED
    BY <2>3, <2>4
<1>6. CASE CloseOne(t, a)
  <2>1. pc[t] = "closing" /\ todo' = todo \ {a}
        /\ UNCHANGED <<taskVars, cancelled, poolVars, registered, closed, rebalance,
                       openings, victims, startup>>
    BY <1>6 DEF CloseOne
  <2>2. TypeOK'
    BY <1>1, <1>2, <2>1 DEF TypeOK, TaskTypes, PoolTypes, ManagerTypes, taskVars, poolVars
  <2>3. Others(t) /\ TaskInv(t)'
    BY <1>1, <2>1 DEF Others, TaskInv, Opening, Reaping, taskVars
  <2> QED
    BY <1>2, <2>1, <2>2, <2>3, FreeStep DEF Opening
<1> QED
  BY <1>3, <1>4, <1>5, <1>6

(* The mutex that prepareUpdate keeps until the account file is saved.      *)
LEMMA UpdateKeeps ==
  ASSUME IInv, NEW t \in Tasks, NEW a \in Accounts,
         UpdatePrepare(t, a) \/ UpdateEnds(t, a)
  PROVE  IInv'
<1> USE PoolAssumption
<1>1. TypeOK /\ TaskInv(t) /\ (\A b \in Accounts : AccountInv(b)) /\ t # None
  BY DEF IInv, PoolAssumption
<1>2. /\ acct[t] = a /\ pc[t] \in {"updating", "saving"} /\ UNCHANGED mgrVars
      /\ victim[t] = None /\ pc[t] \notin Opening
  BY <1>1 DEF UpdatePrepare, UpdateEnds, TaskInv, Opening
<1>3. ManagerTypes' /\ UNCHANGED <<openings, victims>>
  BY <1>1, <1>2 DEF TypeOK, ManagerTypes, mgrVars
<1>4. FairShare(t, openings, openings') /\ \A b \in Accounts : openings'[b] # t
  BY <1>1, <1>2, <1>3 DEF AccountInv, FairShare
<1>5. \A v \in victims' : v \in victims /\ ~(victim[t] = v /\ ~Reaping(t))
  BY <1>1, <1>2, <1>3 DEF TypeOK, ManagerTypes, PoolAssumption
<1>6. \A b \in Accounts : startup[b] = t => b = a
  BY <1>1, <1>2 DEF AccountInv
<1>7. CASE UpdatePrepare(t, a)
  <2>1. SlotsKept /\ slot' \in [Accounts -> Slot]
    BY <1>7, ResetKeepsSlots DEF UpdatePrepare
  <2>2. CASE Finish(t) /\ UNCHANGED startup
    <3>1. pc[t] = "updating" /\ WorkTypes'
      BY <1>1, <1>7, <2>1, <2>2 DEF UpdatePrepare, TypeOK, WorkTypes
    <3> QED
      BY <1>3, <2>1, <2>2, <3>1, FreeEnd DEF Opening
  <2>3. CASE ~(Finish(t) /\ UNCHANGED startup)
    <3>1. /\ a \in registered /\ startup' = [startup EXCEPT ![a] = t] /\ Goto(t, "saving")
          /\ UNCHANGED <<op, acct, victim, swap, seen, cancelled, poolVars>>
          /\ pc[t] = "updating"
      BY <1>7, <2>3 DEF UpdatePrepare
    <3>2. startup[a] = None
      BY <1>7, <3>1, ResetKeepsSlots DEF UpdatePrepare
    <3>3. TypeOK'
      BY <1>1, <1>3, <2>1, <3>1 DEF TypeOK, TaskTypes, PoolTypes, WorkTypes, Goto, PCs, poolVars
    <3>4. Others(t) /\ pc'[t] = "saving" /\ startup'[a] = t
      BY <1>1, <3>1 DEF TypeOK, TaskTypes, WorkTypes, Goto, Others
    <3>5. TaskInv(t)'
      BY <1>1, <1>2, <3>1, <3>4 DEF TaskInv, Opening, Reaping
    <3>6. FairShare(t, startup, startup')
      BY <1>1, <1>6, <3>1, <3>2 DEF FairShare, TypeOK, WorkTypes
    <3>7. \A b \in Accounts : startup'[b] = t => acct'[t] = b /\ pc'[t] \in Holding
      BY <1>1, <1>2, <1>6, <3>1, <3>4 DEF Holding, TypeOK, WorkTypes
    <3>8. \A b \in Accounts : slot'[b].pending # "none" =>
            b # a /\ slot[b].pending # "none" /\ startup'[b] = startup[b] /\ startup'[b] # t
      BY <1>1, <1>6, <2>1, <3>1, <3>2 DEF SlotsKept, Quiet, AccountInv, TypeOK, WorkTypes
    <3>9. PendingMoves(t)
      BY <1>1, <2>1, <3>8 DEF PendingMoves, SlotsKept, Quiet, AccountInv
    <3> QED
      BY <1>4, <1>5, <3>3, <3>4, <3>5, <3>6, <3>7, <3>9, Frame
  <2> QED
    BY <2>2, <2>3
<1>8. CASE UpdateEnds(t, a)
  <2>1. /\ pc[t] = "saving" /\ startup' = [startup EXCEPT ![a] = None] /\ Finish(t)
        /\ slot' \in {slot, [slot EXCEPT ![a].config = @ + 1]}
    BY <1>8 DEF UpdateEnds
  <2>2. startup[a] = t /\ slot[a].pending = "none" /\ Quiet(slot[a])
    BY <1>1, <1>2, <2>1 DEF TaskInv, AccountInv, TypeOK, WorkTypes, Quiet
  <2>3. Quiet([slot[a] EXCEPT !.config = slot[a].config + 1])
    BY <2>2 DEF Quiet, Slot, SlotGuard, Locks
  <2>4. /\ slot' \in [Accounts -> Slot]
        /\ \A b \in Accounts : slot'[b] = slot[b] \/ (b = a /\ Quiet(slot'[b]))
    <3>1. slot \in [Accounts -> Slot]
      BY <1>1 DEF TypeOK, WorkTypes
    <3>2. CASE slot' = slot
      BY <3>1, <3>2
    <3>3. CASE slot' = [slot EXCEPT ![a] = [slot[a] EXCEPT !.config = slot[a].config + 1]]
      <4> DEFINE s == [slot[a] EXCEPT !.config = slot[a].config + 1]
      <4>1. Quiet(s) /\ s \in Slot
        BY <2>3 DEF Quiet
      <4> HIDE DEF s
      <4> QED
        BY <3>1, <3>3, <4>1 DEF s
    <3> QED
      BY <2>1, <3>2, <3>3
  <2>5. TypeOK' /\ Others(t) /\ TaskInv(t)' /\ victim'[t] = None
    BY <1>1, <1>3, <2>1, <2>4, FinishFrame DEF TypeOK, WorkTypes
  <2>6. \A b \in Accounts : startup'[b] # t /\ (b # a => startup'[b] = startup[b])
    BY <1>1, <1>6, <2>1 DEF TypeOK, WorkTypes
  <2>7. FairShare(t, startup, startup')
    BY <1>1, <2>1, <2>2, <2>6 DEF FairShare, TypeOK, WorkTypes
  <2>8. PendingMoves(t)
    BY <1>1, <2>2, <2>4, <2>6 DEF PendingMoves, Quiet, AccountInv
  <2> QED
    BY <1>4, <1>5, <2>5, <2>6, <2>7, <2>8, Frame
<1> QED
  BY <1>7, <1>8

(* Management calls.                                                        *)
LEMMA AdminKeeps ==
  ASSUME IInv, NEW t \in Tasks, AdminStep(t)
  PROVE  IInv'
<1>1. TypeOK /\ TaskInv(t)
  BY DEF IInv
<1>2. CASE AcquireGivesUp(t) \/ CloseEnds(t)
  <2>1. pc[t] \notin Opening \cup {"saving"} /\ Finish(t) /\ UNCHANGED <<mgrVars, workVars>>
    BY <1>2 DEF AcquireGivesUp, CloseEnds, Opening
  <2> QED
    BY <1>1, <2>1, FreeEnd DEF TypeOK, ManagerTypes, WorkTypes, mgrVars, workVars, SlotsKept
<1>3. CASE ReapGivesUp(t)
  <2>1. Reaping(t) /\ Finish(t) /\ rebalance' = None
        /\ UNCHANGED <<registered, closed, openings, victims, todo, startup, slot>>
    BY <1>3 DEF ReapGivesUp, ReapEnds, Reaping
  <2> QED
    BY <1>1, <2>1, FreeEnd DEF TypeOK, ManagerTypes, WorkTypes, SlotsKept
<1>4. ASSUME NEW a \in Accounts, AcquireExclusive(t, a)
      PROVE  IInv'
  <2>1. /\ pc[t] \in {"recoverWait", "updateWait"}
        /\ \E l \in {"recovering", "updating"} : Goto(t, l)
        /\ exclusive' = [exclusive EXCEPT ![a] = t]
        /\ waiters' = [waiters EXCEPT ![a] = @ \ {t}]
        /\ UNCHANGED <<op, acct, victim, swap, seen, cancelled, pooled, sharers, mgrVars, workVars>>
    BY <1>4 DEF AcquireExclusive, LeavePool
  <2>2. TaskTypes' /\ Others(t) /\ TaskInv(t)'
    BY <2>1, MoveFrame DEF Opening, PCs
  <2>3. TypeOK'
    BY <1>1, <2>1, <2>2 DEF TypeOK, PoolTypes, ManagerTypes, WorkTypes, mgrVars, workVars
  <2> QED
    BY <2>1, <2>2, <2>3, FreeStep DEF Opening, mgrVars, workVars, SlotsKept
<1>5. ASSUME NEW a \in Accounts, RemoveUnregister(t, a)
      PROVE  IInv'
  <2>1. /\ pc[t] = "removing" /\ Goto(t, "removeClose") /\ registered' = registered \ {a}
        /\ UNCHANGED <<op, acct, victim, swap, seen, cancelled, poolVars,
                       closed, rebalance, openings, victims, todo, workVars>>
    BY <1>5 DEF RemoveUnregister
  <2>2. TaskTypes' /\ Others(t) /\ TaskInv(t)'
    BY <2>1, MoveFrame DEF Opening, PCs
  <2>3. TypeOK'
    BY <1>1, <2>1, <2>2 DEF TypeOK, PoolTypes, ManagerTypes, WorkTypes, poolVars, workVars
  <2> QED
    BY <2>1, <2>2, <2>3, FreeStep DEF Opening, workVars, SlotsKept
<1> QED
  BY <1>2, <1>3, <1>4, <1>5, ResetsKeep, UpdateKeeps DEF AdminStep

(* A cancellation moves nothing.                                            *)
LEMMA CancelKeeps ==
  ASSUME IInv, NEW t \in Tasks, Cancel(t)
  PROVE  IInv'
<1>1. cancelled' \subseteq Tasks /\ UNCHANGED <<taskVars, poolVars, mgrVars, workVars>>
  BY DEF Cancel, IInv, TypeOK, TaskTypes
<1>2. TypeOK'
  BY <1>1 DEF IInv, TypeOK, TaskTypes, PoolTypes, ManagerTypes, WorkTypes,
     taskVars, poolVars, mgrVars, workVars
<1> QED
  BY <1>1, <1>2 DEF IInv, TaskInv, AccountInv, VictimInv, Reaping, taskVars, mgrVars, workVars

(* Neither does a process that fails or recovers.                           *)
LEMMA ProcessKeeps ==
  ASSUME IInv, NEW a \in Accounts, WorkerFails(a) \/ WorkerRecovers(a)
  PROVE  IInv'
<1>1. TypeOK /\ AccountInv(a) /\ slot \in [Accounts -> Slot]
  BY DEF IInv, TypeOK, WorkTypes
<1>2. PICK w \in {"ready", "failed"} : slot' = [slot EXCEPT ![a] = [slot[a] EXCEPT !.worker = w]]
  BY DEF WorkerFails, WorkerRecovers
<1>3. slot[a].worker # "none" /\ UNCHANGED <<taskVars, cancelled, poolVars, mgrVars, startup>>
  BY DEF WorkerFails, WorkerRecovers
<1> DEFINE s == [slot[a] EXCEPT !.worker = w]
<1>4. s \in Slot /\ SlotGuard(s) /\ s.pending = slot[a].pending
  BY <1>1, <1>3 DEF Slot, Phases, SlotGuard, Locks, AccountInv
<1>5. slot' = [slot EXCEPT ![a] = s]
  BY <1>2
<1> HIDE DEF s
<1>6. WorkTypes'
  BY <1>1, <1>3, <1>4, <1>5 DEF TypeOK, WorkTypes
<1>7. TypeOK'
  BY <1>1, <1>3, <1>6 DEF TypeOK, TaskTypes, PoolTypes, ManagerTypes, taskVars, poolVars, mgrVars
<1>8. ASSUME NEW b \in Accounts PROVE AccountInv(b)'
  <2>1. AccountInv(b) /\ UNCHANGED <<startup, openings, acct, pc>>
    BY <1>3 DEF IInv, taskVars, mgrVars
  <2>2. slot'[b] = IF b = a THEN s ELSE slot[b]
    BY <1>1, <1>5
  <2> QED
    BY <1>4, <2>1, <2>2 DEF AccountInv
<1>9. (\A t \in Tasks : TaskInv(t)') /\ VictimInv'
  BY <1>3 DEF IInv, TaskInv, VictimInv, Reaping, taskVars, mgrVars
<1> QED
  BY <1>7, <1>8, <1>9 DEF IInv

-----------------------------------------------------------------------------
(* The theorems.                                                            *)

(* The pool starts well.                                                    *)
THEOREM InitInv == Init => IInv
<1> SUFFICES ASSUME Init PROVE IInv
  OBVIOUS
<1> USE PoolAssumption
<1>1. NewSlot \in Slot /\ SlotGuard(NewSlot) /\ NewSlot.pending = "none"
  BY DEF NewSlot, Slot, Phases, Leases, Pendings, SlotGuard, Locks, Count
<1>2. TaskTypes /\ PoolTypes
  BY DEF Init, TaskTypes, PoolTypes, PCs, Unseen
<1>3. ManagerTypes
  BY DEF Init, ManagerTypes
<1>4. WorkTypes
  BY <1>1 DEF Init, WorkTypes
<1>5. \A t \in Tasks : TaskInv(t)
  BY DEF Init, TaskInv, Opening, Reaping
<1>6. \A a \in Accounts : AccountInv(a)
  BY <1>1 DEF Init, AccountInv
<1> QED
  BY <1>2, <1>3, <1>4, <1>5, <1>6 DEF IInv, TypeOK, VictimInv, Init

(* Every step of every goroutine keeps the invariant.                       *)
THEOREM NextInv == IInv /\ [Next]_vars => IInv'
<1> SUFFICES ASSUME IInv, [Next]_vars PROVE IInv'
  OBVIOUS
<1>1. ASSUME NEW t \in Tasks, EnsureStep(t) PROVE IInv'
  <2>1. CASE SwapEvict(t)
    BY <2>1, SwapKeeps
  <2> QED
    BY <1>1, <2>1, LoopKeeps, OpenKeeps, StartKeeps, EndKeeps, EvictKeeps DEF EnsureStep
<1>2. CASE UNCHANGED vars
  BY <1>2 DEF vars, taskVars, poolVars, mgrVars, workVars, IInv, TypeOK, TaskTypes, PoolTypes,
     ManagerTypes, WorkTypes, TaskInv, AccountInv, VictimInv, Reaping
<1> QED
  BY <1>1, <1>2, BeginsKeep, CancelKeeps, ServeKeeps, AdminKeeps, ProcessKeeps
  DEF Next, Proceeds

(* The inductive invariant holds of the specification.                      *)
THEOREM Invariance == Spec => []IInv
  BY InitInv, NextInv, PTL DEF Spec

(* The variables keep their types, for any accounts, tasks and limits.      *)
THEOREM TypeCorrect == Spec => []TypeOK
<1>1. IInv => TypeOK
  BY DEF IInv
<1> QED
  BY <1>1, Invariance, PTL

(* No browser process that the manager refers to without its runtime lease, *)
(* and no lease twice: for any number of accounts and goroutines, whichever *)
(* closes and releases fail.  The stray browser of a failed launch, which   *)
(* nothing refers to, is outside the claim; NoStray is about those.         *)
THEOREM Guarded == Spec => []ProfileGuarded
<1>1. IInv => ProfileGuarded
  <2> SUFFICES ASSUME IInv, NEW a \in Accounts
               PROVE  /\ Processes(slot[a]) > 0 => Locks(slot[a]) > 0
                      /\ Locks(slot[a]) <= 1
    BY DEF ProfileGuarded
  <2>1. SlotGuard(slot[a]) /\ slot[a] \in Slot
    BY DEF IInv, AccountInv, TypeOK, WorkTypes
  <2>2. slot[a].pending \in {"none", "borrowing", "owning"} /\ slot[a].cleanupWorker \in BOOLEAN
    BY <2>1 DEF Slot, Pendings
  <2> QED
    BY <2>1, <2>2 DEF SlotGuard, Processes, Locks, Count
<1> QED
  BY <1>1, Invariance, PTL

(* No unpublished process, opening, mutex or reserved victim is left behind *)
(* by any cancellation, shutdown or failure.                                *)
THEOREM NotStranded == Spec => []NothingStranded
<1> USE PoolAssumption
<1>1. IInv => NothingStranded
  <2> SUFFICES ASSUME IInv PROVE NothingStranded
    OBVIOUS
  <2>1. ASSUME NEW a \in Accounts
        PROVE  /\ slot[a].pending # "none" =>
                    /\ startup[a] # None /\ openings[a] = startup[a]
                    /\ acct[startup[a]] = a
                    /\ pc[startup[a]] \in Ensuring \ {"loop", "await", "starting", "startFailed"}
               /\ startup[a] # None => pc[startup[a]] # "idle"
               /\ openings[a] # None => pc[openings[a]] \in Ensuring \ {"loop", "await"}
    <3>1. AccountInv(a) /\ startup[a] \in Tasks \cup {None}
      BY DEF IInv, TypeOK, WorkTypes
    <3>2. startup[a] # None => TaskInv(startup[a])
      BY <3>1 DEF IInv
    <3>3. slot[a].pending # "none" => openings[a] = startup[a]
      BY <3>1, <3>2 DEF AccountInv, TaskInv, Holding, PoolAssumption
    <3> QED
      BY <3>1, <3>3 DEF AccountInv, Holding, Opening, Ensuring
  <2>2. ASSUME NEW v \in victims PROVE \E t \in Tasks : victim[t] = v /\ pc[t] \in Ensuring
    <3>1. PICK t \in Tasks : victim[t] = v
      BY DEF IInv, VictimInv
    <3>2. v # None
      BY DEF IInv, TypeOK, ManagerTypes, PoolAssumption
    <3> QED
      BY <3>1, <3>2 DEF IInv, TaskInv, Opening, Ensuring
  <2> QED
    BY <2>1, <2>2 DEF NothingStranded
<1> QED
  BY <1>1, Invariance, PTL
=============================================================================
