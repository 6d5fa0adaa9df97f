------------------------- MODULE AccountLeasesProofs -------------------------
(***************************************************************************)
(* Proofs about the leases of one account: what the counters of the Account *)
(* objects and the lock file say of the goroutines, for any number of       *)
(* processes and goroutines, and that together they implement the           *)
(* readers-writer lock LeaseLock.                                           *)
(***************************************************************************)
EXTENDS AccountLeases, FiniteSetTheorems, TLAPS

Labels ==
  Shared \cup Exclusive \cup
    {"idle", "stale", "waiting", "leaving", "leavingStale", "removing", "forgetting", "keeping"}

Objects ==
  [registered : BOOLEAN, ready : BOOLEAN, active : Nat, exclusive : BOOLEAN,
   waiters : Nat, refreshers : Nat, locked : BOOLEAN, generation : Nat,
   storage : Tasks \cup {None}]

(* The tasks that Account.active, .waiters and .refreshers of a process     *)
(* count, and the labels at which .exclusive is the task's.                 *)
Sharers(p) == {t \in Tasks : Home[t] = p /\ pc[t] \in Shared}
AskingLabels == {"waiting", "opening", "leaving", "leavingStale"}
Counted(p) == {t \in Tasks : Home[t] = p /\ pc[t] \in AskingLabels /\ t \notin orphans}
Renewing(p) == {t \in Tasks : Home[t] = p /\ renew[t] # "none" /\ pc[t] # "exclusive"}

RemovingLabels == {"removing", "deleting", "forgetting", "keeping"}
Holding == {"opening", "exclusive"}
Owning == Holding \cup RemovingLabels

(* The labels of a task that has the lock file without the Account's        *)
(* leaseLock.                                                               *)
Apart == {"deleting", "publishing", "published"}

Typed(p) == pool[p] \in Objects

(* The type invariant but for leaked, which no guard but TryLock's reads:    *)
(* the invariant holds whatever it is.                                      *)
Typing ==
  /\ pc \in [Tasks -> Labels] /\ renew \in [Tasks -> {"none", "window", "renewing", "ended"}]
  /\ leaseLogin \in [Tasks -> Nat] /\ orphans \subseteq Tasks
  /\ pool \in [Processes -> Objects]
  /\ file \in Processes \cup {None} /\ directory \in BOOLEAN

CountsInv ==
  \A p \in Processes :
    /\ pool[p].active = Cardinality(Sharers(p))
    /\ pool[p].waiters = Cardinality(Counted(p))
    /\ pool[p].refreshers = Cardinality(Renewing(p))

OwnerInv ==
  /\ \A t \in Tasks : pc[t] \in Owning => Account(t).exclusive
  /\ \A p \in Processes :
       pool[p].exclusive => \E t \in Tasks : Home[t] = p /\ pc[t] \in Owning
  /\ \A t, u \in Tasks :
       Home[t] = Home[u] /\ pc[t] \in Owning /\ pc[u] \in Owning => t = u
  /\ \A t, u \in Tasks :
       Home[t] = Home[u] /\ pc[t] \in RemovingLabels => pc[u] \notin {"leaving", "leavingStale"}

(* What the fields of one Account object say of each other.                 *)
Coherent(a) ==
  /\ a.exclusive => a.active = 0
  /\ a.exclusive \/ a.active > 0 \/ a.waiters > 0 => a.registered
  /\ a.active > 0 \/ a.refreshers > 0 => a.locked

FileInv ==
  /\ \A p \in Processes : Coherent(pool[p])
  /\ \A p \in Processes : pool[p].locked => file = p
  /\ \A t \in Tasks : pc[t] \in Holding => Account(t).locked
  /\ \A t \in Tasks : pc[t] \in {"forgetting", "keeping"} => ~Account(t).locked
  /\ \A t \in Tasks : pc[t] \in Apart => file = Home[t] /\ ~Account(t).locked
  /\ \A t, u \in Tasks : pc[t] \in Apart /\ pc[u] \in Apart => t = u
  /\ \A p \in Processes :
       file = p /\ ~pool[p].locked => \E t \in Tasks : Home[t] = p /\ pc[t] \in Apart
  /\ ~RenewalOutlives =>
       \A p \in Processes : pool[p].locked =>
         pool[p].active > 0 \/ \E t \in Tasks : Home[t] = p /\ pc[t] \in Holding

RenewInv ==
  /\ \A t \in Tasks : renew[t] # "none" =>
       Leased(t) \/ (RenewalOutlives /\ pc[t] = "idle")
  /\ \A t \in Tasks : renew[t] = "renewing" =>
       Leased(t) /\ Account(t).storage = t /\ leaseLogin[t] = Account(t).generation
  /\ \A p \in Processes : pool[p].storage # None =>
       Home[pool[p].storage] = p /\ renew[pool[p].storage] = "renewing"

OrphanInv == \A t \in orphans : pc[t] \in {"waiting", "stale", "opening"}

DirectoryInv == \A t \in Tasks : pc[t] \in {"sharing", "exclusive"} => directory

IInv ==
  /\ Typing /\ CountsInv /\ OwnerInv /\ FileInv
  /\ RenewInv /\ OrphanInv /\ DirectoryInv

-----------------------------------------------------------------------------
(* What a step of one task t does, which leaves its process with the Account *)
(* object a and t with the labels l and r: in terms of t and of the object   *)
(* alone, so that one lemma per conjunct of IInv speaks of the other tasks.  *)

Renewals == {"none", "window", "renewing", "ended"}
One(b) == IF b THEN 1 ELSE 0

Moves(t, a, l, r) ==
  /\ a \in Objects /\ l \in Labels /\ r \in Renewals
  /\ pc' = [pc EXCEPT ![t] = l] /\ renew' = [renew EXCEPT ![t] = r]
  /\ pool' = [pool EXCEPT ![Home[t]] = a]
  /\ leaseLogin' \in [Tasks -> Nat]
  /\ \A u \in Tasks : u # t => leaseLogin'[u] = leaseLogin[u]
  /\ directory' \in BOOLEAN
  /\ file' = file \/ (file \in {None, Home[t]} /\ file' \in {None, Home[t]})

Orphans(t, l) ==
  /\ orphans' \subseteq Tasks
  /\ \A u \in orphans' :
       IF u = t THEN l \in {"waiting", "stale", "opening"}
                ELSE pc[u] \in {"waiting", "stale", "opening"}
  /\ \A u \in Tasks : Home[u] # Home[t] => (u \in orphans' <=> u \in orphans)

Counts(t, b, a, l, r) ==
  /\ a.active + One(pc[t] \in Shared) = b.active + One(l \in Shared)
  /\ a.refreshers + One(renew[t] # "none" /\ pc[t] # "exclusive")
       = b.refreshers + One(r # "none" /\ l # "exclusive")

Waits(t, a) == a.waiters = Cardinality(Counted(Home[t])')

Owns(t, b, a, l) ==
  /\ a.exclusive <=> l \in Owning \/ (b.exclusive /\ pc[t] \notin Owning)
  /\ l \in Owning /\ pc[t] \notin Owning => ~b.exclusive
  /\ l \in RemovingLabels /\ pc[t] \notin RemovingLabels => b.waiters = 0
  /\ l \in {"leaving", "leavingStale"} => pc[t] = "opening" \/ pc[t] = l

Files(t, b, a, l) ==
  /\ Coherent(a)
  /\ a.locked => file' = Home[t]
  /\ l \in Holding => a.locked
  /\ l \in {"forgetting", "keeping"} => ~a.locked
  /\ b.exclusive /\ pc[t] \notin Owning => (a.locked <=> b.locked)
  /\ l \in Apart => file' = Home[t] /\ ~a.locked
  /\ l \in Apart /\ pc[t] \notin Apart => file = None
  /\ file = Home[t] /\ ~b.locked /\ pc[t] \notin Apart =>
       file' = Home[t] /\ ~a.locked /\ l \notin Apart
  /\ file' = Home[t] /\ ~a.locked /\ l \notin Apart =>
       file = Home[t] /\ ~b.locked /\ pc[t] \notin Apart
  /\ ~RenewalOutlives /\ a.locked =>
       a.active > 0 \/ l \in Holding \/ (b.locked /\ b.active = 0 /\ pc[t] \notin Holding)

Renews(t, b, a, l, r) ==
  /\ r # "none" => l \in {"sharing", "joined", "exclusive"} \/ (RenewalOutlives /\ l = "idle")
  /\ r = "renewing" =>
       /\ l \in {"sharing", "joined", "exclusive"} /\ leaseLogin'[t] = a.generation
       /\ a.storage = t /\ b.storage \in {None, t}
  /\ r # "renewing" => a.storage = IF renew[t] = "renewing" THEN None ELSE b.storage
  /\ a.generation # b.generation => b.storage \in {None, t}

Deletes(t, l) ==
  /\ directory /\ ~directory' => pc[t] \in Apart
  /\ l \in {"sharing", "exclusive"} => directory'

Step(t, a, l, r) ==
  /\ Moves(t, a, l, r) /\ Orphans(t, l)
  /\ Counts(t, Account(t), a, l, r) /\ Waits(t, a)
  /\ Owns(t, Account(t), a, l) /\ Files(t, Account(t), a, l)
  /\ Renews(t, Account(t), a, l, r) /\ Deletes(t, l)

-----------------------------------------------------------------------------
(* Counting.                                                                *)

(* Two finite sets that agree on all elements but one.                      *)
LEMMA Recount ==
  ASSUME NEW S \in SUBSET Tasks, NEW T \in SUBSET Tasks, NEW t \in Tasks,
         \A u \in Tasks : u # t => (u \in S <=> u \in T)
  PROVE  /\ Cardinality(S) \in Nat /\ Cardinality(T) \in Nat
         /\ Cardinality(T) + One(t \in S) = Cardinality(S) + One(t \in T)
<1>1. IsFiniteSet(S) /\ IsFiniteSet(T)
  BY FS_Subset, LeaseAssumption
<1>2. Cardinality(S) \in Nat /\ Cardinality(T) \in Nat
  BY <1>1, FS_CardinalityType
<1>3. CASE t \in S /\ t \notin T
  <2>1. T = S \ {t}
    BY <1>3
  <2>2. QED
    BY <1>1, <1>2, <1>3, <2>1, FS_RemoveElement DEF One
<1>4. CASE t \notin S /\ t \in T
  <2>1. T = S \cup {t}
    BY <1>4
  <2>2. QED
    BY <1>1, <1>2, <1>4, <2>1, FS_AddElement DEF One
<1>5. CASE t \in S <=> t \in T
  <2>1. S = T
    BY <1>5
  <2>2. QED
    BY <1>2, <2>1 DEF One
<1>6. QED
  BY <1>3, <1>4, <1>5

(* A count is zero only when nothing is counted.                            *)
LEMMA NoneCounted ==
  ASSUME NEW S \in SUBSET Tasks
  PROVE  /\ Cardinality(S) \in Nat
         /\ \A t \in S : Cardinality(S) > 0
         /\ Cardinality(S) > 0 => \E t \in S : TRUE
         /\ S = {} => Cardinality(S) = 0
<1>1. IsFiniteSet(S)
  BY FS_Subset, LeaseAssumption
<1>2. Cardinality(S) \in Nat /\ (Cardinality(S) = 0 <=> S = {})
  BY <1>1, FS_CardinalityType, FS_EmptySet
<1>3. QED
  BY <1>2

-----------------------------------------------------------------------------
(* Each conjunct of IInv is kept by a Step.                                 *)

LEMMA Types ==
  ASSUME IInv
  PROVE  /\ pc \in [Tasks -> Labels] /\ renew \in [Tasks -> Renewals]
         /\ leaseLogin \in [Tasks -> Nat] /\ orphans \subseteq Tasks
         /\ pool \in [Processes -> Objects]
         /\ file \in Processes \cup {None} /\ directory \in BOOLEAN
         /\ Home \in [Tasks -> Processes]
         /\ None \notin Processes /\ None \notin Tasks
BY LeaseAssumption DEF IInv, Typing, Labels, Objects, Renewals

LEMMA TypeKept ==
  ASSUME IInv, NEW t \in Tasks, NEW a, NEW l, NEW r, Step(t, a, l, r)
  PROVE  /\ Typing'
         /\ pool'[Home[t]] = a /\ pc'[t] = l /\ renew'[t] = r
         /\ \A u \in Tasks : u # t => pc'[u] = pc[u] /\ renew'[u] = renew[u]
         /\ \A p \in Processes : p # Home[t] =>
              pool'[p] = pool[p] /\ (file' = p <=> file = p)
<1>1. Moves(t, a, l, r) /\ Orphans(t, l)
  BY DEF Step
<1>2. /\ pc' \in [Tasks -> Labels] /\ renew' \in [Tasks -> Renewals]
      /\ pool' \in [Processes -> Objects] /\ file' \in Processes \cup {None}
  BY <1>1, Types DEF Moves
<1>3. Typing'
  BY <1>1, <1>2 DEF Typing, Labels, Objects, Renewals, Moves, Orphans
<1>4. /\ pool'[Home[t]] = a /\ pc'[t] = l /\ renew'[t] = r
      /\ \A u \in Tasks : u # t => pc'[u] = pc[u] /\ renew'[u] = renew[u]
      /\ \A p \in Processes : p # Home[t] => pool'[p] = pool[p]
  BY <1>1, Types DEF Moves
<1>5. \A p \in Processes : p # Home[t] => (file' = p <=> file = p)
  BY <1>1, Types DEF Moves
<1>6. QED
  BY <1>3, <1>4, <1>5

LEMMA CountsKept ==
  ASSUME IInv, NEW t \in Tasks, NEW a, NEW l, NEW r, Step(t, a, l, r)
  PROVE  CountsInv'
<1> DEFINE home == Home[t]
<1>1. /\ pool'[home] = a /\ pc'[t] = l /\ renew'[t] = r
      /\ \A u \in Tasks : u # t => pc'[u] = pc[u] /\ renew'[u] = renew[u]
      /\ \A p \in Processes : p # home => pool'[p] = pool[p]
      /\ a \in Objects /\ home \in Processes /\ pool[home] \in Objects
  BY TypeKept, Types DEF Step, Moves
<1>2. Counts(t, pool[home], a, l, r) /\ Orphans(t, l)
  BY DEF Step, Account
<1>3. ASSUME NEW p \in Processes
      PROVE  /\ Sharers(p) \in SUBSET Tasks /\ Sharers(p)' \in SUBSET Tasks
             /\ Renewing(p) \in SUBSET Tasks /\ Renewing(p)' \in SUBSET Tasks
             /\ \A u \in Tasks : u # t => /\ u \in Sharers(p) <=> u \in Sharers(p)'
                                          /\ u \in Renewing(p) <=> u \in Renewing(p)'
             /\ t \in Sharers(p) <=> home = p /\ pc[t] \in Shared
             /\ t \in Sharers(p)' <=> home = p /\ l \in Shared
             /\ t \in Renewing(p) <=> home = p /\ renew[t] # "none" /\ pc[t] # "exclusive"
             /\ t \in Renewing(p)' <=> home = p /\ r # "none" /\ l # "exclusive"
  BY <1>1 DEF Sharers, Renewing
<1>4. ASSUME NEW p \in Processes
      PROVE  /\ Cardinality(Sharers(p)') \in Nat /\ Cardinality(Renewing(p)') \in Nat
             /\ pool[p].active \in Nat /\ pool[p].refreshers \in Nat
             /\ Cardinality(Sharers(p)') + One(t \in Sharers(p))
                  = pool[p].active + One(t \in Sharers(p)')
             /\ Cardinality(Renewing(p)') + One(t \in Renewing(p))
                  = pool[p].refreshers + One(t \in Renewing(p)')
  <2>1. pool[p].active = Cardinality(Sharers(p)) /\ pool[p].refreshers = Cardinality(Renewing(p))
    BY DEF IInv, CountsInv
  <2> DEFINE S == Sharers(p) S2 == Sharers(p)' R == Renewing(p) R2 == Renewing(p)'
  <2>2. /\ S \in SUBSET Tasks /\ S2 \in SUBSET Tasks
        /\ \A u \in Tasks : u # t => (u \in S <=> u \in S2)
    BY <1>3
  <2>3. /\ R \in SUBSET Tasks /\ R2 \in SUBSET Tasks
        /\ \A u \in Tasks : u # t => (u \in R <=> u \in R2)
    BY <1>3
  <2> HIDE DEF S, S2, R, R2
  <2>4. /\ Cardinality(S) \in Nat /\ Cardinality(S2) \in Nat
        /\ Cardinality(S2) + One(t \in S) = Cardinality(S) + One(t \in S2)
    BY <2>2, Recount
  <2>5. /\ Cardinality(R) \in Nat /\ Cardinality(R2) \in Nat
        /\ Cardinality(R2) + One(t \in R) = Cardinality(R) + One(t \in R2)
    BY <2>3, Recount
  <2>6. QED
    BY <2>1, <2>4, <2>5 DEF S, S2, R, R2
<1>5. ASSUME NEW p \in Processes, p # home
      PROVE  Counted(p)' = Counted(p)
  BY <1>1, <1>2, <1>5 DEF Counted, Orphans
<1>6. ASSUME NEW p \in Processes
      PROVE  /\ pool'[p].active = Cardinality(Sharers(p)')
             /\ pool'[p].refreshers = Cardinality(Renewing(p)')
             /\ pool'[p].waiters = Cardinality(Counted(p)')
  <2>1. CASE p = home
    <3> USE <2>1
    <3>1. /\ a.active \in Nat /\ a.refreshers \in Nat
          /\ a.active + One(t \in Sharers(p)) = pool[p].active + One(t \in Sharers(p)')
          /\ a.refreshers + One(t \in Renewing(p)) = pool[p].refreshers + One(t \in Renewing(p)')
      BY <1>1, <1>2, <1>3 DEF Counts, Objects, One
    <3>2. One(t \in Sharers(p)) \in Nat /\ One(t \in Renewing(p)) \in Nat
      BY DEF One
    <3>3. a.waiters = Cardinality(Counted(p)')
      BY DEF Step, Waits
    <3>4. a.active = Cardinality(Sharers(p)') /\ a.refreshers = Cardinality(Renewing(p)')
      BY <1>4, <3>1, <3>2
    <3>5. QED
      BY <1>1, <3>3, <3>4
  <2>2. CASE p # home
    <3>1. pool'[p] = pool[p] /\ Counted(p)' = Counted(p)
      BY <1>1, <1>5, <2>2
    <3>2. pool[p].waiters = Cardinality(Counted(p))
      BY DEF IInv, CountsInv
    <3>3. t \notin Sharers(p) /\ t \notin Sharers(p)' /\ t \notin Renewing(p) /\ t \notin Renewing(p)'
      BY <1>3, <2>2
    <3>4. pool[p].active = Cardinality(Sharers(p)') /\ pool[p].refreshers = Cardinality(Renewing(p)')
      BY <1>4, <3>3 DEF One
    <3>5. QED
      BY <3>1, <3>2, <3>4
  <2>3. QED
    BY <2>1, <2>2
<1>7. QED
  BY <1>6 DEF CountsInv

(* What the counts say of single tasks.                                     *)
LEMMA CountFacts ==
  ASSUME IInv, NEW t \in Tasks
  PROVE  /\ pc[t] \in Shared => Account(t).active > 0
         /\ pc[t] \in AskingLabels /\ t \notin orphans => Account(t).waiters > 0
         /\ renew[t] # "none" /\ pc[t] # "exclusive" => Account(t).refreshers > 0
<1>1. Home[t] \in Processes
  BY Types
<1>2. /\ Account(t).active = Cardinality(Sharers(Home[t]))
      /\ Account(t).waiters = Cardinality(Counted(Home[t]))
      /\ Account(t).refreshers = Cardinality(Renewing(Home[t]))
  BY <1>1 DEF IInv, CountsInv, Account
<1>3. /\ Sharers(Home[t]) \in SUBSET Tasks /\ Counted(Home[t]) \in SUBSET Tasks
      /\ Renewing(Home[t]) \in SUBSET Tasks
  BY DEF Sharers, Counted, Renewing
<1>4. pc[t] \in Shared => Account(t).active > 0
  BY <1>2, <1>3, NoneCounted DEF Sharers
<1>5. pc[t] \in AskingLabels /\ t \notin orphans => Account(t).waiters > 0
  BY <1>2, <1>3, NoneCounted DEF Counted
<1>6. renew[t] # "none" /\ pc[t] # "exclusive" => Account(t).refreshers > 0
  BY <1>2, <1>3, NoneCounted DEF Renewing
<1>7. QED
  BY <1>4, <1>5, <1>6

LEMMA OwnerKept ==
  ASSUME IInv, NEW t \in Tasks, NEW a, NEW l, NEW r, Step(t, a, l, r)
  PROVE  OwnerInv'
<1> DEFINE b == pool[Home[t]]
<1>1. /\ pool'[Home[t]] = a /\ pc'[t] = l
      /\ \A u \in Tasks : u # t => pc'[u] = pc[u]
      /\ \A p \in Processes : p # Home[t] => pool'[p] = pool[p]
  BY TypeKept
<1>2. Owns(t, b, a, l)
  BY DEF Step, Account
<1>3. OwnerInv /\ OrphanInv /\ Home \in [Tasks -> Processes]
  BY Types DEF IInv
<1>4. ASSUME NEW u \in Tasks, pc'[u] \in Owning
      PROVE  pool'[Home[u]].exclusive
  BY <1>1, <1>2, <1>3, <1>4 DEF OwnerInv, Owns, Account
<1>5. ASSUME NEW u \in Tasks, NEW v \in Tasks,
             Home[u] = Home[v], pc'[u] \in Owning, pc'[v] \in Owning
      PROVE  u = v
  BY <1>1, <1>2, <1>3, <1>5 DEF OwnerInv, Owns, Account
<1>6. ASSUME NEW p \in Processes, pool'[p].exclusive
      PROVE  \E u \in Tasks : Home[u] = p /\ pc'[u] \in Owning
  <2>1. CASE p # Home[t] \/ l \notin Owning
    <3>1. pool[p].exclusive /\ (p = Home[t] => pc[t] \notin Owning)
      BY <1>1, <1>2, <1>6, <2>1 DEF Owns
    <3>2. PICK u \in Tasks : Home[u] = p /\ pc[u] \in Owning
      BY <1>3, <3>1 DEF OwnerInv
    <3>3. QED
      BY <1>1, <3>1, <3>2
  <2>2. CASE p = Home[t] /\ l \in Owning
    BY <1>1, <2>2
  <2>3. QED
    BY <2>1, <2>2
<1>7. ASSUME NEW u \in Tasks, NEW v \in Tasks, Home[u] = Home[v],
             pc'[u] \in RemovingLabels, pc'[v] \in {"leaving", "leavingStale"}
      PROVE  FALSE
  <2>1. u # v
    BY <1>7 DEF RemovingLabels
  <2>2. CASE u # t /\ v # t
    BY <1>1, <1>3, <1>7, <2>2 DEF OwnerInv
  <2>3. CASE u = t
    <3>1. pc[v] \in {"leaving", "leavingStale"} /\ v \notin orphans
      BY <1>1, <1>3, <1>7, <2>1, <2>3 DEF OrphanInv
    <3>2. b.waiters # 0
      BY <1>7, <2>3, <3>1, CountFacts, Types DEF AskingLabels, Account, Objects
    <3>3. pc[u] \in RemovingLabels
      BY <1>1, <1>2, <1>7, <2>3, <3>2 DEF Owns
    <3>4. QED
      BY <1>3, <1>7, <3>1, <3>3 DEF OwnerInv
  <2>4. CASE v = t
    <3>1. pc[u] \in RemovingLabels /\ (pc[v] = "opening" \/ pc[v] = l)
      BY <1>1, <1>2, <1>7, <2>1, <2>4 DEF Owns
    <3>2. CASE pc[v] = "opening"
      BY <1>3, <1>7, <2>1, <3>1, <3>2 DEF OwnerInv, Owning, Holding
    <3>3. CASE pc[v] = l
      BY <1>1, <1>3, <1>7, <2>4, <3>1, <3>3 DEF OwnerInv
    <3>4. QED
      BY <3>1, <3>2, <3>3
  <2>5. QED
    BY <2>2, <2>3, <2>4
<1>8. QED
  BY <1>4, <1>5, <1>6, <1>7 DEF OwnerInv, Account

(* A request that uses the account, and an operation that does, have the     *)
(* lock file of their process; the one excludes the other.                   *)
LEMMA HolderFacts ==
  ASSUME IInv, NEW t \in Tasks
  PROVE  /\ Coherent(Account(t))
         /\ Account(t).locked => file = Home[t]
         /\ pc[t] \in Shared => Account(t).locked /\ ~Account(t).exclusive
         /\ pc[t] \in Holding => Account(t).locked /\ Account(t).exclusive
         /\ pc[t] \in Owning => Account(t).exclusive /\ Account(t).active = 0
         /\ pc[t] \in Apart => ~Account(t).locked /\ file = Home[t]
         /\ pc[t] \in {"forgetting", "keeping"} => ~Account(t).locked
         /\ Account(t) \in Objects
<1>1. Home[t] \in Processes /\ Account(t) \in Objects
  BY Types DEF Account
<1>2. Coherent(Account(t)) /\ (Account(t).locked => file = Home[t])
  BY <1>1 DEF IInv, FileInv, Account
<1>3. pc[t] \in Shared => Account(t).active > 0
  BY CountFacts
<1>4. pc[t] \in Owning => Account(t).exclusive
  BY DEF IInv, OwnerInv
<1>5. /\ pc[t] \in Holding => Account(t).locked
      /\ pc[t] \in Apart => file = Home[t] /\ ~Account(t).locked
      /\ pc[t] \in {"forgetting", "keeping"} => ~Account(t).locked
  BY DEF IInv, FileInv
<1>6. pc[t] \in Shared => Account(t).locked /\ ~Account(t).exclusive
  BY <1>1, <1>2, <1>3 DEF Coherent, Objects
<1>7. QED
  BY <1>1, <1>2, <1>4, <1>5, <1>6 DEF Coherent, Owning

LEMMA FileKept ==
  ASSUME IInv, NEW t \in Tasks, NEW a, NEW l, NEW r, Step(t, a, l, r)
  PROVE  FileInv'
<1> DEFINE home == Home[t] b == pool[Home[t]]
<1>1. /\ pool'[home] = a /\ pc'[t] = l
      /\ \A u \in Tasks : u # t => pc'[u] = pc[u]
      /\ \A p \in Processes : p # home => pool'[p] = pool[p] /\ (file' = p <=> file = p)
  BY TypeKept
<1>2. Files(t, b, a, l) /\ Owns(t, b, a, l)
  BY DEF Step, Account
<1>3. FileInv /\ OwnerInv /\ Home \in [Tasks -> Processes] /\ None \notin Processes
  BY Types DEF IInv
<1>4. \A p \in Processes : Coherent(pool'[p])
  BY <1>1, <1>2, <1>3 DEF FileInv, Files
<1>5. \A p \in Processes : pool'[p].locked => file' = p
  BY <1>1, <1>2, <1>3 DEF FileInv, Files
<1>6. ASSUME NEW u \in Tasks, pc'[u] \in Holding
      PROVE  pool'[Home[u]].locked
  <2>1. CASE u = t
    BY <1>1, <1>2, <1>6, <2>1 DEF Files
  <2>2. CASE Home[u] # home
    BY <1>1, <1>3, <1>6, <2>2 DEF FileInv, Account
  <2>3. CASE u # t /\ Home[u] = home
    <3>1. pc[u] \in Holding
      BY <1>1, <1>6, <2>3
    <3>2. b.locked /\ b.exclusive
      BY <1>3, <2>3, <3>1 DEF FileInv, OwnerInv, Account, Owning
    <3>3. pc[t] \notin Owning
      BY <1>3, <2>3, <3>1 DEF OwnerInv, Owning
    <3>4. QED
      BY <1>1, <1>2, <2>3, <3>2, <3>3 DEF Files
  <2>4. QED
    BY <2>1, <2>2, <2>3
<1>7. ASSUME NEW u \in Tasks, pc'[u] \in {"forgetting", "keeping"}
       PROVE  ~pool'[Home[u]].locked
  <2>1. CASE u = t
    BY <1>1, <1>2, <1>7, <2>1 DEF Files
  <2>2. CASE Home[u] # home
    BY <1>1, <1>3, <1>7, <2>2 DEF FileInv, Account
  <2>3. CASE u # t /\ Home[u] = home
    <3>1. pc[u] \in {"forgetting", "keeping"}
      BY <1>1, <1>7, <2>3
    <3>2. ~b.locked /\ b.exclusive
      BY <1>3, <2>3, <3>1 DEF FileInv, OwnerInv, Account, Owning, RemovingLabels
    <3>3. pc[t] \notin Owning
      BY <1>3, <2>3, <3>1 DEF OwnerInv, Owning, RemovingLabels
    <3>4. QED
      BY <1>1, <1>2, <2>3, <3>2, <3>3 DEF Files
  <2>4. QED
    BY <2>1, <2>2, <2>3
<1>8. ASSUME NEW u \in Tasks, pc'[u] \in Apart
      PROVE  file' = Home[u] /\ ~pool'[Home[u]].locked /\ (u # t => pc'[t] \notin Apart)
  <2>1. CASE u = t
    BY <1>1, <1>2, <1>8, <2>1 DEF Files
  <2>2. CASE u # t
    <3>1. pc[u] \in Apart /\ file = Home[u] /\ ~pool[Home[u]].locked /\ pc[t] \notin Apart
      BY <1>1, <1>3, <1>8, <2>2 DEF FileInv, Account
    <3>2. CASE Home[u] # home
      BY <1>1, <1>2, <1>3, <3>1, <3>2 DEF Files
    <3>3. CASE Home[u] = home
      BY <1>1, <1>2, <3>1, <3>3 DEF Files
    <3>4. QED
      BY <3>2, <3>3
  <2>3. QED
    BY <2>1, <2>2
<1>9. \A u, v \in Tasks : pc'[u] \in Apart /\ pc'[v] \in Apart => u = v
  BY <1>1, <1>3, <1>8 DEF FileInv
<1>10. ASSUME NEW p \in Processes, file' = p, ~pool'[p].locked
      PROVE  \E u \in Tasks : Home[u] = p /\ pc'[u] \in Apart
  <2>1. CASE p = home /\ l \in Apart
    BY <1>1, <2>1
  <2>2. CASE p # home \/ l \notin Apart
    <3>1. file = p /\ ~pool[p].locked /\ (p = home => pc[t] \notin Apart)
      BY <1>1, <1>2, <1>10, <2>2 DEF Files
    <3>2. PICK u \in Tasks : Home[u] = p /\ pc[u] \in Apart
      BY <1>3, <3>1 DEF FileInv
    <3>3. QED
      BY <1>1, <3>1, <3>2
  <2>3. QED
    BY <2>1, <2>2
<1>11. ASSUME ~RenewalOutlives, NEW p \in Processes, pool'[p].locked
       PROVE  pool'[p].active > 0 \/ \E u \in Tasks : Home[u] = p /\ pc'[u] \in Holding
  <2>1. CASE p = home /\ (a.active > 0 \/ l \in Holding)
    BY <1>1, <2>1
  <2>2. CASE p # home
    <3>1. pool[p].active > 0 \/ \E u \in Tasks : Home[u] = p /\ pc[u] \in Holding
      BY <1>1, <1>3, <1>11, <2>2 DEF FileInv
    <3>2. QED
      BY <1>1, <2>2, <3>1
  <2>3. CASE p = home /\ ~(a.active > 0 \/ l \in Holding)
    <3>1. b.locked /\ b.active = 0 /\ pc[t] \notin Holding
      BY <1>1, <1>2, <1>11, <2>3 DEF Files
    <3>2. PICK u \in Tasks : Home[u] = p /\ pc[u] \in Holding
      BY <1>3, <1>11, <2>3, <3>1 DEF FileInv
    <3>3. QED
      BY <1>1, <3>1, <3>2
  <2>4. QED
    BY <2>1, <2>2, <2>3
<1>12. QED
  BY <1>4, <1>5, <1>6, <1>7, <1>8, <1>9, <1>10, <1>11 DEF FileInv, Account

LEMMA RenewKept ==
  ASSUME IInv, NEW t \in Tasks, NEW a, NEW l, NEW r, Step(t, a, l, r)
  PROVE  RenewInv'
<1> DEFINE home == Home[t] b == pool[Home[t]]
<1>1. \A u \in Tasks : u # t => leaseLogin'[u] = leaseLogin[u]
  BY DEF Step, Moves
<1>2. /\ pool'[home] = a /\ pc'[t] = l /\ renew'[t] = r
      /\ \A u \in Tasks : u # t => /\ pc'[u] = pc[u] /\ renew'[u] = renew[u]
                                   /\ leaseLogin'[u] = leaseLogin[u]
      /\ \A p \in Processes : p # home => pool'[p] = pool[p]
  BY <1>1, TypeKept
<1>3. Renews(t, b, a, l, r)
  BY DEF Step, Account
<1>4. RenewInv /\ Home \in [Tasks -> Processes] /\ None \notin Tasks
  BY Types DEF IInv
<1>5. ASSUME NEW u \in Tasks, renew'[u] # "none"
      PROVE  pc'[u] \in {"sharing", "joined", "exclusive"} \/ (RenewalOutlives /\ pc'[u] = "idle")
  BY <1>2, <1>3, <1>4, <1>5 DEF RenewInv, Renews, Leased
<1>6. ASSUME NEW u \in Tasks, renew'[u] = "renewing"
      PROVE  /\ pc'[u] \in {"sharing", "joined", "exclusive"}
             /\ pool'[Home[u]].storage = u
             /\ leaseLogin'[u] = pool'[Home[u]].generation
  <2>1. CASE u = t
    BY <1>2, <1>3, <1>6, <2>1 DEF Renews
  <2>2. CASE u # t
    <3>1. /\ pc'[u] \in {"sharing", "joined", "exclusive"}
          /\ pool[Home[u]].storage = u /\ leaseLogin'[u] = pool[Home[u]].generation
          /\ u # None
      BY <1>2, <1>4, <1>6, <2>2 DEF RenewInv, Leased, Account
    <3>2. CASE Home[u] # home
      BY <1>2, <1>4, <3>1, <3>2
    <3>3. CASE Home[u] = home
      <4>1. b.storage \notin {None, t}
        BY <2>2, <3>1, <3>3
      <4>2. renew[t] # "renewing"
        BY <1>4, <2>2, <3>1, <3>3 DEF RenewInv, Account
      <4>3. a.storage = u /\ a.generation = b.generation
        BY <1>3, <3>1, <3>3, <4>1, <4>2 DEF Renews
      <4>4. QED
        BY <1>2, <3>1, <3>3, <4>3
    <3>4. QED
      BY <3>2, <3>3
  <2>3. QED
    BY <2>1, <2>2
<1>7. ASSUME NEW p \in Processes, pool'[p].storage # None
      PROVE  Home[pool'[p].storage] = p /\ renew'[pool'[p].storage] = "renewing"
  <2>1. CASE p = home /\ r = "renewing"
    BY <1>2, <1>3, <2>1 DEF Renews
  <2>2. CASE p = home /\ r # "renewing"
    <3>1. renew[t] # "renewing" /\ a.storage = b.storage /\ b.storage # None
      BY <1>2, <1>3, <1>7, <2>2 DEF Renews
    <3>2. Home[b.storage] = home /\ renew[b.storage] = "renewing"
      BY <1>4, <3>1 DEF RenewInv
    <3>3. b.storage # t /\ b.storage \in Tasks
      BY <3>1, <3>2, Types DEF Objects
    <3>4. QED
      BY <1>2, <2>2, <3>1, <3>2, <3>3
  <2>3. CASE p # home
    <3>1. pool'[p] = pool[p] /\ Home[pool[p].storage] = p /\ renew[pool[p].storage] = "renewing"
      BY <1>2, <1>4, <1>7, <2>3 DEF RenewInv
    <3>2. pool[p].storage \in Tasks /\ pool[p].storage # t
      BY <1>2, <1>7, <2>3, <3>1, Types DEF Objects
    <3>3. QED
      BY <1>2, <3>1, <3>2
  <2>4. QED
    BY <2>1, <2>2, <2>3
<1>8. QED
  BY <1>5, <1>6, <1>7 DEF RenewInv, Leased, Account

LEMMA StepKeeps ==
  ASSUME IInv, NEW t \in Tasks, NEW a, NEW l, NEW r, Step(t, a, l, r)
  PROVE  IInv'
<1>1. /\ pc'[t] = l /\ \A u \in Tasks : u # t => pc'[u] = pc[u]
      /\ Typing'
  BY TypeKept
<1>2. OrphanInv'
  <2>1. Orphans(t, l)
    BY DEF Step
  <2>2. QED
    BY <1>1, <2>1 DEF OrphanInv, Orphans
<1>3. DirectoryInv'
  <2>1. SUFFICES ASSUME NEW u \in Tasks, pc'[u] \in {"sharing", "exclusive"}
                 PROVE  directory'
    BY DEF DirectoryInv
  <2>2. CASE u = t
    BY <1>1, <2>1, <2>2 DEF Step, Deletes
  <2>3. CASE u # t
    <3>1. pc[u] \in {"sharing", "exclusive"} /\ directory
      BY <1>1, <2>1, <2>3 DEF IInv, DirectoryInv
    <3>2. Account(u).locked /\ file = Home[u]
      BY <3>1, HolderFacts DEF Shared, Holding
    <3>3. pc[t] \in Apart => ~Account(t).locked /\ file = Home[t]
      BY HolderFacts
    <3>4. pc[t] \notin Apart
      BY <3>2, <3>3 DEF Account
    <3>5. directory' \in BOOLEAN
      BY DEF Step, Moves
    <3>6. QED
      BY <3>1, <3>4, <3>5 DEF Step, Deletes
  <2>4. QED
    BY <2>2, <2>3
<1>4. QED
  BY <1>1, <1>2, <1>3, CountsKept, OwnerKept, FileKept, RenewKept DEF IInv

-----------------------------------------------------------------------------
(* Each action is a Step.                                                   *)

(* The usual case of Orphans and Waits: only t can stop being an orphan.     *)
Asks(t, b, a, l) ==
  /\ orphans' \in {orphans, orphans \ {t}}
  /\ t \in orphans' => l \in {"waiting", "stale", "opening"}
  /\ a.waiters + One(pc[t] \in AskingLabels /\ t \notin orphans)
       = b.waiters + One(l \in AskingLabels /\ t \notin orphans')

LEMMA StepOf ==
  ASSUME IInv, NEW t \in Tasks, NEW a, NEW l, NEW r, NEW b, b = Account(t),
         Moves(t, a, l, r), Asks(t, b, a, l), Counts(t, b, a, l, r),
         Owns(t, b, a, l), Files(t, b, a, l), Renews(t, b, a, l, r), Deletes(t, l)
  PROVE  IInv'
<1> DEFINE S == Counted(Home[t]) T == Counted(Home[t])'
<1>1. /\ pc \in [Tasks -> Labels] /\ orphans \subseteq Tasks
      /\ Home[t] \in Processes /\ b \in Objects /\ a \in Objects
      /\ \A u \in orphans : pc[u] \in {"waiting", "stale", "opening"}
  BY Types DEF IInv, OrphanInv, Account, Moves
<1>2. pc'[t] = l /\ \A u \in Tasks : u # t => pc'[u] = pc[u]
  BY <1>1 DEF Moves
<1>3. Orphans(t, l)
  BY <1>1 DEF Orphans, Asks
<1>4. /\ S \in SUBSET Tasks /\ T \in SUBSET Tasks
      /\ \A u \in Tasks : u # t => (u \in S <=> u \in T)
      /\ t \in S <=> pc[t] \in AskingLabels /\ t \notin orphans
      /\ t \in T <=> l \in AskingLabels /\ t \notin orphans'
  BY <1>1, <1>2 DEF Counted, Asks
<1>5. b.waiters = Cardinality(S)
  BY <1>1 DEF IInv, CountsInv, Account
<1> HIDE DEF S, T
<1>6. Cardinality(S) \in Nat /\ Cardinality(T) \in Nat
      /\ Cardinality(T) + One(t \in S) = Cardinality(S) + One(t \in T)
  BY <1>4, Recount
<1>7. a.waiters + One(t \in S) = Cardinality(S) + One(t \in T) /\ a.waiters \in Nat
  BY <1>1, <1>4, <1>5 DEF Asks, Objects
<1>8. One(t \in S) \in Nat /\ One(t \in T) \in Nat
  BY DEF One
<1>9. Waits(t, a)
  BY <1>6, <1>7, <1>8 DEF Waits, S, T
<1>10. Step(t, a, l, r)
  BY <1>3, <1>9 DEF Step
<1>11. QED
  BY <1>10, StepKeeps

(* Everything a step of t needs to know of the invariant.                   *)
Known(t, b) ==
  /\ b \in Objects /\ Home[t] \in Processes /\ pc[t] \in Labels /\ renew[t] \in Renewals
  /\ pc \in [Tasks -> Labels] /\ renew \in [Tasks -> Renewals]
  /\ leaseLogin \in [Tasks -> Nat] /\ orphans \subseteq Tasks
  /\ pool \in [Processes -> Objects] /\ directory \in BOOLEAN
  /\ file \in Processes \cup {None} /\ None \notin Processes /\ None # t
  /\ Coherent(b)
  /\ b.locked => file = Home[t]
  /\ pc[t] \in Shared => b.active > 0 /\ b.locked /\ ~b.exclusive
  /\ pc[t] \in Holding => b.locked
  /\ pc[t] \in Owning => b.exclusive /\ b.active = 0
  /\ pc[t] \in Apart => ~b.locked /\ file = Home[t]
  /\ pc[t] \in {"forgetting", "keeping"} => ~b.locked
  /\ pc[t] \in AskingLabels /\ t \notin orphans => b.waiters > 0
  /\ t \in orphans => pc[t] \in {"waiting", "stale", "opening"}
  /\ pc[t] \in {"sharing", "exclusive"} => directory

KnownRenewal(t, b) ==
  /\ renew[t] # "none" => Leased(t) \/ (RenewalOutlives /\ pc[t] = "idle")
  /\ renew[t] # "none" /\ pc[t] # "exclusive" => b.refreshers > 0
  /\ IF renew[t] = "renewing"
     THEN Leased(t) /\ b.storage = t /\ leaseLogin[t] = b.generation
     ELSE b.storage # t
  /\ b.storage # None /\ b.storage # t => b.active > 0 \/ (b.exclusive /\ pc[t] \notin Owning)
  /\ ~RenewalOutlives => b.refreshers <= b.active
  /\ ~RenewalOutlives /\ pc[t] \in Shared /\ renew[t] = "none" => b.refreshers < b.active

LEMMA TaskFacts ==
  ASSUME IInv, NEW t \in Tasks, NEW b, b = Account(t)
  PROVE  Known(t, b) /\ KnownRenewal(t, b)
<1>1. Known(t, b)
  <2>1. t \in orphans => pc[t] \in {"waiting", "stale", "opening"}
    BY DEF IInv, OrphanInv
  <2>2. pc[t] \in {"sharing", "exclusive"} => directory
    BY DEF IInv, DirectoryInv
  <2>3. QED
    BY <2>1, <2>2, Types, HolderFacts, CountFacts DEF Known
<1>2. RenewInv /\ Home[t] \in Processes /\ b \in Objects
  BY Types DEF IInv, Account
<1>3. /\ renew[t] # "none" => Leased(t) \/ (RenewalOutlives /\ pc[t] = "idle")
      /\ IF renew[t] = "renewing"
         THEN Leased(t) /\ b.storage = t /\ leaseLogin[t] = b.generation
         ELSE b.storage # t
  <2>1. t # None
    BY Types
  <2>2. QED
    BY <1>2, <2>1 DEF RenewInv, Account
<1>4. ASSUME b.storage # None, b.storage # t
      PROVE  b.active > 0 \/ (b.exclusive /\ pc[t] \notin Owning)
  <2> DEFINE u == b.storage
  <2>1. u \in Tasks /\ Home[u] = Home[t] /\ Leased(u)
    BY <1>2, <1>4 DEF RenewInv, Account, Objects
  <2>2. Account(u) = b
    BY <2>1 DEF Account
  <2>3. CASE pc[u] \in Shared
    BY <2>1, <2>2, <2>3, CountFacts
  <2>4. CASE pc[u] = "exclusive"
    <3>1. b.exclusive
      BY <2>1, <2>2, <2>4, HolderFacts DEF Holding
    <3>2. pc[t] \notin Owning
      BY <1>4, <2>1, <2>4 DEF IInv, OwnerInv, Owning, Holding
    <3>3. QED
      BY <3>1, <3>2
  <2>5. QED
    BY <2>1, <2>3, <2>4 DEF Leased, Shared
<1>5. ASSUME ~RenewalOutlives
      PROVE  /\ b.refreshers <= b.active
             /\ pc[t] \in Shared /\ renew[t] = "none" => b.refreshers < b.active
  <2> DEFINE S == Sharers(Home[t]) R == Renewing(Home[t])
  <2>1. b.active = Cardinality(S) /\ b.refreshers = Cardinality(R)
    BY <1>2 DEF IInv, CountsInv, Account
  <2>2. S \in SUBSET Tasks /\ R \in SUBSET S
    <3>1. ASSUME NEW u \in R PROVE u \in S
      <4>1. u \in Tasks /\ Home[u] = Home[t] /\ renew[u] # "none" /\ pc[u] # "exclusive"
        BY <3>1 DEF Renewing
      <4>2. Leased(u)
        BY <1>2, <1>5, <4>1 DEF RenewInv
      <4>3. QED
        BY <4>1, <4>2 DEF Leased, Sharers, Shared
    <3>2. S \subseteq Tasks
      BY DEF Sharers
    <3>3. QED
      BY <3>1, <3>2
  <2>3. /\ t \in S <=> pc[t] \in Shared
        /\ renew[t] = "none" => t \notin R
    BY DEF Sharers, Renewing
  <2> HIDE DEF S, R
  <2>4. IsFiniteSet(S)
    BY <2>2, FS_Subset, LeaseAssumption
  <2>5. Cardinality(S) \in Nat /\ Cardinality(R) \in Nat /\ Cardinality(R) <= Cardinality(S)
        /\ (Cardinality(R) = Cardinality(S) => S = R)
    BY <2>2, <2>4, FS_Subset, FS_CardinalityType
  <2>6. QED
    BY <2>1, <2>3, <2>5
<1>6. renew[t] # "none" /\ pc[t] # "exclusive" => b.refreshers > 0
  BY CountFacts
<1>7. KnownRenewal(t, b)
  BY <1>3, <1>4, <1>5, <1>6 DEF KnownRenewal
<1>8. QED
  BY <1>1, <1>7

(* AccountLease.Release, and what a lease leaves of the counts.             *)
LEMMA ReleasedFacts ==
  ASSUME NEW c \in Objects
  PROVE  /\ Released(c) \in Objects
         /\ Released(c).registered = c.registered /\ Released(c).active = c.active
         /\ Released(c).exclusive = c.exclusive /\ Released(c).waiters = c.waiters
         /\ Released(c).refreshers = c.refreshers /\ Released(c).storage = c.storage
         /\ Released(c).generation = c.generation
         /\ Released(c).locked <=>
              c.locked /\ (c.active > 0 \/ c.exclusive \/ c.refreshers > 0)
<1>1. c.active \in Nat /\ c.refreshers \in Nat /\ c.exclusive \in BOOLEAN /\ c.locked \in BOOLEAN
  BY DEF Objects
<1>2. CASE c.active = 0 /\ ~c.exclusive /\ c.refreshers = 0
  <2>1. Released(c) = [c EXCEPT !.locked = FALSE]
    BY <1>2 DEF Released
  <2> DEFINE x == [c EXCEPT !.locked = FALSE]
  <2>2. /\ x \in Objects /\ x.registered = c.registered /\ x.active = c.active
        /\ x.exclusive = c.exclusive /\ x.waiters = c.waiters
        /\ x.refreshers = c.refreshers /\ x.storage = c.storage
        /\ x.generation = c.generation /\ x.locked = FALSE
    BY DEF Objects
  <2>3. ~(c.active > 0 \/ c.exclusive \/ c.refreshers > 0)
    BY <1>1, <1>2
  <2>4. QED
    BY <2>1, <2>2, <2>3
<1>3. CASE ~(c.active = 0 /\ ~c.exclusive /\ c.refreshers = 0)
  <2>1. Released(c) = c /\ (c.active > 0 \/ c.exclusive \/ c.refreshers > 0)
    BY <1>1, <1>3 DEF Released
  <2>2. QED
    BY <2>1
<1>4. QED
  BY <1>2, <1>3

(* The edits of an Account object that change two fields.                   *)
LEMMA Admitted ==
  ASSUME NEW c \in Objects
  PROVE  LET x == [c EXCEPT !.active = @ + 1, !.locked = TRUE] IN
         /\ x \in Objects /\ x.registered = c.registered /\ x.active = c.active + 1
         /\ x.exclusive = c.exclusive /\ x.waiters = c.waiters /\ x.refreshers = c.refreshers
         /\ x.locked = TRUE /\ x.generation = c.generation /\ x.storage = c.storage
<1> DEFINE y == [c EXCEPT !.active = @ + 1]
           x == [y EXCEPT !.locked = TRUE]
<1>1. /\ y \in Objects /\ y.registered = c.registered /\ y.active = c.active + 1
      /\ y.exclusive = c.exclusive /\ y.waiters = c.waiters /\ y.refreshers = c.refreshers
      /\ y.generation = c.generation /\ y.storage = c.storage
  BY DEF Objects
<1> HIDE DEF y
<1>2. /\ x \in Objects /\ x.registered = y.registered /\ x.active = y.active
      /\ x.exclusive = y.exclusive /\ x.waiters = y.waiters /\ x.refreshers = y.refreshers
      /\ x.locked = TRUE /\ x.generation = y.generation /\ x.storage = y.storage
  BY <1>1 DEF Objects
<1>3. QED
  BY <1>1, <1>2 DEF y

(* A step that changes nothing, but perhaps leaked.                         *)
LEMMA Unmoved ==
  ASSUME IInv, UNCHANGED <<pc, renew, leaseLogin, orphans, pool, file, directory>>
  PROVE  IInv'
<1>1. Typing' /\ DirectoryInv' /\ OrphanInv'
  BY DEF IInv, Typing, DirectoryInv, OrphanInv
<1>2. \A p \in Processes : /\ Sharers(p)' = Sharers(p) /\ Counted(p)' = Counted(p)
                          /\ Renewing(p)' = Renewing(p)
  BY DEF Sharers, Counted, Renewing
<1>3. CountsInv'
  BY <1>2 DEF IInv, CountsInv
<1>4. OwnerInv' /\ FileInv'
  BY DEF IInv, OwnerInv, FileInv, Account
<1>5. RenewInv'
  BY DEF IInv, RenewInv, Leased, Account
<1>6. QED
  BY <1>1, <1>3, <1>4, <1>5 DEF IInv

LEMMA TryAcquireKeeps == ASSUME IInv, NEW t \in Tasks, TryAcquire(t) PROVE IInv'
<1> DEFINE b == Account(t) a == [b EXCEPT !.active = @ + 1, !.locked = TRUE]
           l == IF b.active = 0 THEN "validating" ELSE "joined"
<1>1. Known(t, b) /\ KnownRenewal(t, b)
  BY TaskFacts
<1>2. /\ a \in Objects /\ a.registered = b.registered /\ a.active = b.active + 1
      /\ a.exclusive = b.exclusive /\ a.waiters = b.waiters /\ a.refreshers = b.refreshers
      /\ a.locked = TRUE /\ a.generation = b.generation /\ a.storage = b.storage
  BY <1>1, Admitted DEF Known
<1>3. /\ pc[t] = "idle" /\ renew[t] = "none"
      /\ b.registered /\ ~b.exclusive /\ b.active < Limit
      /\ b.active = 0 => file = None
      /\ pc' = [pc EXCEPT ![t] = l] /\ pool' = [pool EXCEPT ![Home[t]] = a]
      /\ file' = IF b.active = 0 THEN Home[t] ELSE file
      /\ leaseLogin' = [leaseLogin EXCEPT ![t] = b.generation]
      /\ UNCHANGED <<renew, orphans, directory>>
  BY DEF TryAcquire, FreeForSharing, TryLock, FileFree, Goto, SetAccount
<1>4. l \in Shared /\ l \in {"validating", "joined"} /\ file' = Home[t]
  BY <1>1, <1>3 DEF Shared, Known, Coherent, Objects
<1> HIDE DEF a, b, l
<1>5. Moves(t, a, l, "none")
  BY <1>1, <1>2, <1>3, <1>4 DEF Moves, Known, Labels, Renewals, Objects, Coherent
<1>6. Asks(t, b, a, l) /\ Counts(t, b, a, l, "none") /\ Owns(t, b, a, l) /\ Deletes(t, l)
  BY <1>1, <1>2, <1>3, <1>4
     DEF Asks, Counts, Owns, Deletes, Known, AskingLabels, Owning, Holding, RemovingLabels,
         Shared, One, Objects
<1>7. Files(t, b, a, l)
  BY <1>1, <1>2, <1>3, <1>4
     DEF Files, Known, Coherent, Owning, Holding, RemovingLabels, Apart, Objects
<1>8. Renews(t, b, a, l, "none")
  BY <1>1, <1>2, <1>3, <1>4 DEF Renews, KnownRenewal
<1>9. QED
  BY <1>5, <1>6, <1>7, <1>8, StepOf DEF b

LEMMA Occupied ==
  ASSUME NEW c \in Objects
  PROVE  LET x == [c EXCEPT !.exclusive = TRUE, !.locked = TRUE] IN
         /\ x \in Objects /\ x.registered = c.registered /\ x.active = c.active
         /\ x.exclusive = TRUE /\ x.waiters = c.waiters /\ x.refreshers = c.refreshers
         /\ x.locked = TRUE /\ x.generation = c.generation /\ x.storage = c.storage
<1> DEFINE y == [c EXCEPT !.exclusive = TRUE]
           x == [y EXCEPT !.locked = TRUE]
<1>1. /\ y \in Objects /\ y.registered = c.registered /\ y.active = c.active
      /\ y.exclusive = TRUE /\ y.waiters = c.waiters /\ y.refreshers = c.refreshers
      /\ y.generation = c.generation /\ y.storage = c.storage
  BY DEF Objects
<1> HIDE DEF y
<1>2. /\ x \in Objects /\ x.registered = y.registered /\ x.active = y.active
      /\ x.exclusive = y.exclusive /\ x.waiters = y.waiters /\ x.refreshers = y.refreshers
      /\ x.locked = TRUE /\ x.generation = y.generation /\ x.storage = y.storage
  BY <1>1 DEF Objects
<1>3. QED
  BY <1>1, <1>2 DEF y

LEMMA Left ==
  ASSUME NEW c \in Objects, c.waiters > 0, NEW keeps \in BOOLEAN
  PROVE  LET x == [c EXCEPT !.waiters = @ - 1, !.ready = @ /\ keeps] IN
         /\ x \in Objects /\ x.registered = c.registered /\ x.active = c.active
         /\ x.exclusive = c.exclusive /\ x.waiters = c.waiters - 1
         /\ x.refreshers = c.refreshers /\ x.locked = c.locked
         /\ x.generation = c.generation /\ x.storage = c.storage
<1> DEFINE y == [c EXCEPT !.waiters = @ - 1]
           x == [y EXCEPT !.ready = @ /\ keeps]
<1>1. /\ y \in Objects /\ y.registered = c.registered /\ y.active = c.active
      /\ y.exclusive = c.exclusive /\ y.waiters = c.waiters - 1
      /\ y.refreshers = c.refreshers /\ y.locked = c.locked
      /\ y.generation = c.generation /\ y.storage = c.storage
  BY DEF Objects
<1> HIDE DEF y
<1>2. y.ready \in BOOLEAN /\ (y.ready /\ keeps) \in BOOLEAN
  BY <1>1 DEF Objects
<1>3. /\ x \in Objects /\ x.registered = y.registered /\ x.active = y.active
      /\ x.exclusive = y.exclusive /\ x.waiters = y.waiters
      /\ x.refreshers = y.refreshers /\ x.locked = y.locked
      /\ x.generation = y.generation /\ x.storage = y.storage
  BY <1>1, <1>2 DEF Objects
<1>4. QED
  BY <1>1, <1>3 DEF y

LEMMA UncountedFacts ==
  ASSUME NEW t \in Tasks, NEW c \in Objects, t \notin orphans => c.waiters > 0
  PROVE  LET x == Uncounted(t, c) IN
         /\ x \in Objects /\ x.registered = c.registered /\ x.active = c.active
         /\ x.exclusive = c.exclusive
         /\ x.waiters = IF t \in orphans THEN c.waiters ELSE c.waiters - 1
         /\ x.refreshers = c.refreshers /\ x.locked = c.locked
         /\ x.generation = c.generation /\ x.storage = c.storage
<1>1. CASE t \in orphans
  BY <1>1 DEF Uncounted
<1>2. CASE t \notin orphans
  <2>1. Uncounted(t, c) = [c EXCEPT !.waiters = @ - 1]
    BY <1>2 DEF Uncounted
  <2>2. c.waiters - 1 \in Nat
    BY <1>2 DEF Objects
  <2>3. QED
    BY <1>2, <2>1, <2>2 DEF Objects
<1>3. QED
  BY <1>1, <1>2

LEMMA FindMissingKeeps == ASSUME IInv, NEW t \in Tasks, FindMissing(t) PROVE IInv'
<1> DEFINE b == Account(t) a == b l == "stale" r == "none"
<1>1. Known(t, b) /\ KnownRenewal(t, b)
  BY TaskFacts
<1>2. /\ a \in Objects /\ a.registered = b.registered /\ a.active = b.active
      /\ a.exclusive = b.exclusive /\ a.waiters = b.waiters
      /\ a.refreshers = b.refreshers /\ a.locked = b.locked
      /\ a.generation = b.generation /\ a.storage = b.storage
  BY <1>1 DEF Known, Objects
<1>3. /\ pc[t] = "idle" /\ renew[t] = "none"
      /\ pc' = [pc EXCEPT ![t] = l] /\ pool' = [pool EXCEPT ![Home[t]] = a]
      /\ UNCHANGED <<renew, leaseLogin, orphans, file, directory>>
  BY <1>1 DEF FindMissing, Goto, Known, Account
<1> HIDE DEF a, b
<1>4. Moves(t, a, l, r)
  BY <1>1, <1>2, <1>3 DEF Moves, Known, Labels, Renewals, Shared, Exclusive, Apart, Objects
<1>5. Asks(t, b, a, l) /\ Counts(t, b, a, l, r) /\ Owns(t, b, a, l) /\ Deletes(t, l)
  BY <1>1, <1>2, <1>3
     DEF Asks, Counts, Owns, Deletes, Known, KnownRenewal, Leased, AskingLabels, Owning, Holding,
         RemovingLabels, Shared, Apart, One, Objects
<1>6. Files(t, b, a, l)
  BY <1>1, <1>2, <1>3
     DEF Files, Known, KnownRenewal, Leased, Coherent, Owning, Holding, RemovingLabels, Apart,
         Shared, Objects
<1>7. Renews(t, b, a, l, r)
  BY <1>1, <1>2, <1>3
     DEF Renews, Known, KnownRenewal, Leased, Coherent, Shared, Owning, Holding, RemovingLabels, Objects
<1>8. QED
  BY <1>4, <1>5, <1>6, <1>7, StepOf DEF b

LEMMA MarkStaleKeeps == ASSUME IInv, NEW t \in Tasks, MarkStale(t) PROVE IInv'
<1> DEFINE b == Account(t) l == "idle" r == renew[t]
           a == IF t \in orphans \/ ~b.registered THEN b ELSE [b EXCEPT !.ready = FALSE]
<1>1. Known(t, b) /\ KnownRenewal(t, b)
  BY TaskFacts
<1>2. /\ a \in Objects /\ a.registered = b.registered /\ a.active = b.active
      /\ a.exclusive = b.exclusive /\ a.waiters = b.waiters
      /\ a.refreshers = b.refreshers /\ a.locked = b.locked
      /\ a.generation = b.generation /\ a.storage = b.storage
  BY <1>1 DEF Known, Objects
<1>3. /\ pc[t] = "stale"
      /\ pc' = [pc EXCEPT ![t] = l] /\ pool' = [pool EXCEPT ![Home[t]] = a]
      /\ orphans' = orphans \ {t}
      /\ UNCHANGED <<renew, leaseLogin, file, directory>>
  BY <1>1 DEF MarkStale, Goto, SetAccount, Account
<1> HIDE DEF a, b
<1>4. Moves(t, a, l, r)
  BY <1>1, <1>2, <1>3 DEF Moves, Known, Labels, Renewals, Shared, Exclusive, Apart, Objects
<1>5. Asks(t, b, a, l) /\ Counts(t, b, a, l, r) /\ Owns(t, b, a, l) /\ Deletes(t, l)
  BY <1>1, <1>2, <1>3
     DEF Asks, Counts, Owns, Deletes, Known, KnownRenewal, Leased, AskingLabels, Owning, Holding,
         RemovingLabels, Shared, Apart, One, Objects
<1>6. Files(t, b, a, l)
  BY <1>1, <1>2, <1>3
     DEF Files, Known, KnownRenewal, Leased, Coherent, Owning, Holding, RemovingLabels, Apart,
         Shared, Objects
<1>7. Renews(t, b, a, l, r)
  BY <1>1, <1>2, <1>3
     DEF Renews, Known, KnownRenewal, Leased, Coherent, Shared, Owning, Holding, RemovingLabels, Objects
<1>8. QED
  BY <1>4, <1>5, <1>6, <1>7, StepOf DEF b

LEMMA BeginAuthRefreshKeeps == ASSUME IInv, NEW t \in Tasks, BeginAuthRefresh(t) PROVE IInv'
<1> DEFINE b == Account(t) l == pc[t] r == "window" w == Window(t)
           a == [b EXCEPT !.refreshers = @ + w]
<1>1. Known(t, b) /\ KnownRenewal(t, b)
  BY TaskFacts
<1>2. /\ a \in Objects /\ a.registered = b.registered /\ a.active = b.active
      /\ a.exclusive = b.exclusive /\ a.waiters = b.waiters
      /\ a.refreshers = b.refreshers + w /\ a.locked = b.locked
      /\ a.generation = b.generation /\ a.storage = b.storage
  BY <1>1 DEF Known, Objects, Window
<1>3. /\ Leased(t) /\ renew[t] = "none" /\ (pc[t] = "exclusive" \/ ~b.exclusive)
      /\ pc' = [pc EXCEPT ![t] = l] /\ pool' = [pool EXCEPT ![Home[t]] = a]
      /\ renew' = [renew EXCEPT ![t] = r]
      /\ UNCHANGED <<pc, leaseLogin, orphans, file, directory>>
  BY <1>1 DEF BeginAuthRefresh, SetAccount, Known
<1>4. w = IF pc[t] = "exclusive" THEN 0 ELSE 1
  BY DEF Window, w
<1> HIDE DEF a, b, w
<1>5. Moves(t, a, l, r)
  BY <1>1, <1>2, <1>3, <1>4 DEF Moves, Known, Labels, Renewals, Shared, Exclusive, Apart, Objects
<1>6. Asks(t, b, a, l) /\ Counts(t, b, a, l, r) /\ Owns(t, b, a, l) /\ Deletes(t, l)
  BY <1>1, <1>2, <1>3, <1>4
     DEF Asks, Counts, Owns, Deletes, Known, KnownRenewal, Leased, AskingLabels, Owning, Holding,
         RemovingLabels, Shared, Apart, One, Objects
<1>7. Files(t, b, a, l)
  BY <1>1, <1>2, <1>3, <1>4
     DEF Files, Known, KnownRenewal, Leased, Coherent, Owning, Holding, RemovingLabels, Apart,
         Shared, Objects
<1>8. Renews(t, b, a, l, r)
  BY <1>1, <1>2, <1>3, <1>4
     DEF Renews, Known, KnownRenewal, Leased, Coherent, Shared, Owning, Holding, RemovingLabels, Objects
<1>9. QED
  BY <1>5, <1>6, <1>7, <1>8, StepOf DEF b

LEMMA EndAuthRefreshKeeps == ASSUME IInv, NEW t \in Tasks, EndAuthRefresh(t) PROVE IInv'
<1> DEFINE b == Account(t) l == pc[t] r == "none" w == Window(t)
           a == [b EXCEPT !.refreshers = IF @ > 0 THEN @ - w ELSE 0]
<1>1. Known(t, b) /\ KnownRenewal(t, b)
  BY TaskFacts
<1>2. /\ a \in Objects /\ a.registered = b.registered /\ a.active = b.active
      /\ a.exclusive = b.exclusive /\ a.waiters = b.waiters
      /\ a.refreshers = IF b.refreshers > 0 THEN b.refreshers - w ELSE 0
      /\ a.locked = b.locked /\ a.generation = b.generation
      /\ a.storage = b.storage
  BY <1>1 DEF Known, Objects, Window
<1>3. /\ renew[t] = "ended"
      /\ pc' = [pc EXCEPT ![t] = l] /\ pool' = [pool EXCEPT ![Home[t]] = a]
      /\ renew' = [renew EXCEPT ![t] = r]
      /\ UNCHANGED <<pc, leaseLogin, orphans, file, directory>>
  BY <1>1 DEF EndAuthRefresh, SetAccount, Known
<1>4. w = IF pc[t] = "exclusive" THEN 0 ELSE 1
  BY DEF Window, w
<1> HIDE DEF a, b, w
<1>5. Moves(t, a, l, r)
  BY <1>1, <1>2, <1>3, <1>4 DEF Moves, Known, Labels, Renewals, Shared, Exclusive, Apart, Objects
<1>6. Asks(t, b, a, l) /\ Counts(t, b, a, l, r) /\ Owns(t, b, a, l) /\ Deletes(t, l)
  BY <1>1, <1>2, <1>3, <1>4
     DEF Asks, Counts, Owns, Deletes, Known, KnownRenewal, Leased, AskingLabels, Owning, Holding,
         RemovingLabels, Shared, Apart, One, Objects
<1>7. Files(t, b, a, l)
  BY <1>1, <1>2, <1>3, <1>4
     DEF Files, Known, KnownRenewal, Leased, Coherent, Owning, Holding, RemovingLabels, Apart,
         Shared, Objects
<1>8. Renews(t, b, a, l, r)
  BY <1>1, <1>2, <1>3, <1>4
     DEF Renews, Known, KnownRenewal, Leased, Coherent, Shared, Owning, Holding, RemovingLabels, Objects
<1>9. QED
  BY <1>5, <1>6, <1>7, <1>8, StepOf DEF b

LEMMA WaitKeeps == ASSUME IInv, NEW t \in Tasks, Wait(t) PROVE IInv'
<1> DEFINE b == Account(t) a == [b EXCEPT !.waiters = @ + 1] l == "waiting" r == "none"
<1>1. Known(t, b) /\ KnownRenewal(t, b)
  BY TaskFacts
<1>2. /\ a \in Objects /\ a.registered = b.registered /\ a.active = b.active
      /\ a.exclusive = b.exclusive /\ a.waiters = b.waiters + 1
      /\ a.refreshers = b.refreshers /\ a.locked = b.locked
      /\ a.generation = b.generation /\ a.storage = b.storage
  BY <1>1 DEF Known, Objects
<1>3. /\ pc[t] = "idle" /\ renew[t] = "none" /\ b.registered
      /\ pc' = [pc EXCEPT ![t] = l] /\ pool' = [pool EXCEPT ![Home[t]] = a]
      /\ UNCHANGED <<renew, leaseLogin, orphans, file, directory>>
  BY <1>1 DEF Wait, Goto, SetAccount
<1> HIDE DEF a, b
<1>4. Moves(t, a, l, r)
  BY <1>1, <1>2, <1>3 DEF Moves, Known, Labels, Renewals, Shared, Exclusive, Apart, Objects
<1>5. Asks(t, b, a, l) /\ Counts(t, b, a, l, r) /\ Owns(t, b, a, l) /\ Deletes(t, l)
  BY <1>1, <1>2, <1>3
     DEF Asks, Counts, Owns, Deletes, Known, KnownRenewal, Leased, AskingLabels, Owning, Holding,
         RemovingLabels, Shared, Apart, One, Objects
<1>6. Files(t, b, a, l)
  BY <1>1, <1>2, <1>3
     DEF Files, Known, KnownRenewal, Leased, Coherent, Owning, Holding, RemovingLabels, Apart,
         Shared, Objects
<1>7. Renews(t, b, a, l, r)
  BY <1>1, <1>2, <1>3
     DEF Renews, Known, KnownRenewal, Leased, Coherent, Shared, Owning, Holding, RemovingLabels, Objects
<1>8. QED
  BY <1>4, <1>5, <1>6, <1>7, StepOf DEF b

LEMMA GiveUpKeeps == ASSUME IInv, NEW t \in Tasks, GiveUp(t) PROVE IInv'
<1> DEFINE b == Account(t) a == Uncounted(t, b) l == "idle" r == renew[t]
<1>1. Known(t, b) /\ KnownRenewal(t, b)
  BY TaskFacts
<1>2. /\ a \in Objects /\ a.registered = b.registered /\ a.active = b.active
      /\ a.exclusive = b.exclusive
      /\ a.waiters = (IF t \in orphans THEN b.waiters ELSE b.waiters - 1)
      /\ a.refreshers = b.refreshers /\ a.locked = b.locked
      /\ a.generation = b.generation /\ a.storage = b.storage
  BY <1>1, UncountedFacts DEF Known, Objects, GiveUp, AskingLabels
<1>3. /\ pc[t] = "waiting"
      /\ pc' = [pc EXCEPT ![t] = l] /\ pool' = [pool EXCEPT ![Home[t]] = a]
      /\ orphans' = orphans \ {t}
      /\ UNCHANGED <<renew, leaseLogin, file, directory>>
  BY <1>1 DEF GiveUp, Goto, SetAccount
<1> HIDE DEF a, b
<1>4. Moves(t, a, l, r)
  BY <1>1, <1>2, <1>3 DEF Moves, Known, Labels, Renewals, Shared, Exclusive, Apart, Objects
<1>5. Asks(t, b, a, l) /\ Counts(t, b, a, l, r) /\ Owns(t, b, a, l) /\ Deletes(t, l)
  BY <1>1, <1>2, <1>3
     DEF Asks, Counts, Owns, Deletes, Known, KnownRenewal, Leased, AskingLabels, Owning, Holding,
         RemovingLabels, Shared, Apart, One, Objects
<1>6. Files(t, b, a, l)
  BY <1>1, <1>2, <1>3
     DEF Files, Known, KnownRenewal, Leased, Coherent, Owning, Holding, RemovingLabels, Apart,
         Shared, Objects
<1>7. Renews(t, b, a, l, r)
  BY <1>1, <1>2, <1>3
     DEF Renews, Known, KnownRenewal, Leased, Coherent, Shared, Owning, Holding, RemovingLabels, Objects
<1>8. QED
  BY <1>4, <1>5, <1>6, <1>7, StepOf DEF b

LEMMA AcquireExclusiveKeeps == ASSUME IInv, NEW t \in Tasks, AcquireExclusive(t) PROVE IInv'
<1> DEFINE b == Account(t) a == [b EXCEPT !.exclusive = TRUE, !.locked = TRUE] l == "opening" r == renew[t]
<1>1. Known(t, b) /\ KnownRenewal(t, b)
  BY TaskFacts
<1>2. /\ a \in Objects /\ a.registered = b.registered /\ a.active = b.active
      /\ a.exclusive = TRUE /\ a.waiters = b.waiters
      /\ a.refreshers = b.refreshers /\ a.locked = TRUE
      /\ a.generation = b.generation /\ a.storage = b.storage
  BY <1>1, Occupied DEF Known, Objects
<1>3. /\ pc[t] = "waiting" /\ file = None
      /\ b.registered /\ ~b.exclusive /\ b.refreshers = 0 /\ b.active = 0
      /\ pc' = [pc EXCEPT ![t] = l] /\ pool' = [pool EXCEPT ![Home[t]] = a]
      /\ file' = Home[t] /\ leaseLogin' = [leaseLogin EXCEPT ![t] = b.generation]
      /\ UNCHANGED <<renew, orphans, directory>>
  BY <1>1 DEF AcquireExclusive, FreeForExclusive, TryLock, FileFree, Goto, SetAccount
<1> HIDE DEF a, b
<1>4. Moves(t, a, l, r)
  BY <1>1, <1>2, <1>3 DEF Moves, Known, Labels, Renewals, Shared, Exclusive, Apart, Objects
<1>5. Asks(t, b, a, l) /\ Counts(t, b, a, l, r) /\ Owns(t, b, a, l) /\ Deletes(t, l)
  BY <1>1, <1>2, <1>3
     DEF Asks, Counts, Owns, Deletes, Known, KnownRenewal, Leased, AskingLabels, Owning, Holding,
         RemovingLabels, Shared, Apart, One, Objects
<1>6. Files(t, b, a, l)
  BY <1>1, <1>2, <1>3
     DEF Files, Known, KnownRenewal, Leased, Coherent, Owning, Holding, RemovingLabels, Apart,
         Shared, Objects
<1>7. Renews(t, b, a, l, r)
  BY <1>1, <1>2, <1>3
     DEF Renews, Known, KnownRenewal, Leased, Coherent, Shared, Owning, Holding, RemovingLabels, Objects
<1>8. QED
  BY <1>4, <1>5, <1>6, <1>7, StepOf DEF b

LEMMA LeaveExclusiveKeeps == ASSUME IInv, NEW t \in Tasks, LeaveExclusive(t) PROVE IInv'
<1> DEFINE b == Account(t) l == "idle" r == renew[t]
           a == [b EXCEPT !.waiters = @ - 1, !.ready = @ /\ pc[t] = "leaving"]
<1>1. Known(t, b) /\ KnownRenewal(t, b)
  BY TaskFacts
<1>2. /\ a \in Objects /\ a.registered = b.registered /\ a.active = b.active
      /\ a.exclusive = b.exclusive /\ a.waiters = b.waiters - 1
      /\ a.refreshers = b.refreshers /\ a.locked = b.locked
      /\ a.generation = b.generation /\ a.storage = b.storage
  <2>1. b \in Objects /\ b.waiters > 0
    BY <1>1 DEF Known, LeaveExclusive, AskingLabels
  <2>2. (pc[t] = "leaving") \in BOOLEAN
    OBVIOUS
  <2> HIDE DEF b
  <2>3. QED
    BY <2>1, <2>2, Left
<1>3. /\ pc[t] \in {"leaving", "leavingStale"}
      /\ pc' = [pc EXCEPT ![t] = l] /\ pool' = [pool EXCEPT ![Home[t]] = a]
      /\ UNCHANGED <<renew, leaseLogin, orphans, file, directory>>
  BY <1>1 DEF LeaveExclusive, Goto, SetAccount
<1> HIDE DEF a, b
<1>4. Moves(t, a, l, r)
  BY <1>1, <1>2, <1>3 DEF Moves, Known, Labels, Renewals, Shared, Exclusive, Apart, Objects
<1>5. Asks(t, b, a, l) /\ Counts(t, b, a, l, r) /\ Owns(t, b, a, l) /\ Deletes(t, l)
  BY <1>1, <1>2, <1>3
     DEF Asks, Counts, Owns, Deletes, Known, KnownRenewal, Leased, AskingLabels, Owning, Holding,
         RemovingLabels, Shared, Apart, One, Objects
<1>6. Files(t, b, a, l)
  BY <1>1, <1>2, <1>3
     DEF Files, Known, KnownRenewal, Leased, Coherent, Owning, Holding, RemovingLabels, Apart,
         Shared, Objects
<1>7. Renews(t, b, a, l, r)
  BY <1>1, <1>2, <1>3
     DEF Renews, Known, KnownRenewal, Leased, Coherent, Shared, Owning, Holding, RemovingLabels, Objects
<1>8. QED
  BY <1>4, <1>5, <1>6, <1>7, StepOf DEF b

LEMMA BeginRemoveKeeps == ASSUME IInv, NEW t \in Tasks, BeginRemove(t) PROVE IInv'
<1> DEFINE b == Account(t) a == [b EXCEPT !.exclusive = TRUE] l == "removing" r == "none"
<1>1. Known(t, b) /\ KnownRenewal(t, b)
  BY TaskFacts
<1>2. /\ a \in Objects /\ a.registered = b.registered /\ a.active = b.active
      /\ a.exclusive = TRUE /\ a.waiters = b.waiters
      /\ a.refreshers = b.refreshers /\ a.locked = b.locked
      /\ a.generation = b.generation /\ a.storage = b.storage
  BY <1>1 DEF Known, Objects
<1>3. /\ pc[t] = "idle" /\ renew[t] = "none" /\ b.registered
      /\ ~b.exclusive /\ b.waiters = 0 /\ b.active = 0
      /\ pc' = [pc EXCEPT ![t] = l] /\ pool' = [pool EXCEPT ![Home[t]] = a]
      /\ UNCHANGED <<renew, leaseLogin, orphans, file, directory>>
  BY <1>1 DEF BeginRemove, Goto, SetAccount
<1> HIDE DEF a, b
<1>4. Moves(t, a, l, r)
  BY <1>1, <1>2, <1>3 DEF Moves, Known, Labels, Renewals, Shared, Exclusive, Apart, Objects
<1>5. Asks(t, b, a, l) /\ Counts(t, b, a, l, r) /\ Owns(t, b, a, l) /\ Deletes(t, l)
  BY <1>1, <1>2, <1>3
     DEF Asks, Counts, Owns, Deletes, Known, KnownRenewal, Leased, AskingLabels, Owning, Holding,
         RemovingLabels, Shared, Apart, One, Objects
<1>6. Files(t, b, a, l)
  BY <1>1, <1>2, <1>3
     DEF Files, Known, KnownRenewal, Leased, Coherent, Owning, Holding, RemovingLabels, Apart,
         Shared, Objects
<1>7. Renews(t, b, a, l, r)
  BY <1>1, <1>2, <1>3
     DEF Renews, Known, KnownRenewal, Leased, Coherent, Shared, Owning, Holding, RemovingLabels, Objects
<1>8. QED
  BY <1>4, <1>5, <1>6, <1>7, StepOf DEF b

LEMMA PublishBegins ==
  ASSUME IInv, NEW t \in Tasks, pc[t] = "idle", renew[t] = "none", ~directory,
         TryLock(Home[t]), directory' = TRUE, Goto(t, "publishing"),
         UNCHANGED <<renew, leaseLogin, orphans, pool>>
  PROVE  IInv'
<1> DEFINE b == Account(t) a == b l == "publishing" r == "none"
<1>1. Known(t, b) /\ KnownRenewal(t, b)
  BY TaskFacts
<1>2. /\ a \in Objects /\ a.registered = b.registered /\ a.active = b.active
      /\ a.exclusive = b.exclusive /\ a.waiters = b.waiters
      /\ a.refreshers = b.refreshers /\ a.locked = b.locked
      /\ a.generation = b.generation /\ a.storage = b.storage
  BY <1>1 DEF Known, Objects
<1>3. /\ pc[t] = "idle" /\ renew[t] = "none" /\ file = None /\ ~directory
      /\ pc' = [pc EXCEPT ![t] = l] /\ pool' = [pool EXCEPT ![Home[t]] = a]
      /\ file' = Home[t] /\ directory' = TRUE
      /\ UNCHANGED <<renew, leaseLogin, orphans>>
  BY <1>1 DEF TryLock, FileFree, Goto, Known, Account
<1> HIDE DEF a, b
<1>4. Moves(t, a, l, r)
  <2>1. a \in Objects /\ l \in Labels /\ r \in Renewals
    BY <1>2 DEF Labels, Renewals, Exclusive
  <2>2. renew' = [renew EXCEPT ![t] = r]
    BY <1>1, <1>3 DEF Known
  <2>3. leaseLogin' \in [Tasks -> Nat] /\ \A u \in Tasks : u # t => leaseLogin'[u] = leaseLogin[u]
    BY <1>1, <1>3 DEF Known
  <2>4. QED
    BY <1>3, <2>1, <2>2, <2>3 DEF Moves
<1>5. Asks(t, b, a, l) /\ Counts(t, b, a, l, r) /\ Owns(t, b, a, l) /\ Deletes(t, l)
  BY <1>1, <1>2, <1>3
     DEF Asks, Counts, Owns, Deletes, Known, KnownRenewal, Leased, AskingLabels, Owning, Holding,
         RemovingLabels, Shared, Apart, One, Objects
<1>6. Files(t, b, a, l)
  BY <1>1, <1>2, <1>3
     DEF Files, Known, KnownRenewal, Leased, Coherent, Owning, Holding, RemovingLabels, Apart,
         Shared, Objects
<1>7. Renews(t, b, a, l, r)
  BY <1>1, <1>2, <1>3
     DEF Renews, Known, KnownRenewal, Leased, Coherent, Shared, Owning, Holding, RemovingLabels, Objects
<1>8. QED
  BY <1>4, <1>5, <1>6, <1>7, StepOf DEF b

LEMMA BeginAddKeeps == ASSUME IInv, NEW t \in Tasks, BeginAdd(t) PROVE IInv'
<1>1. CASE ~directory /\ TryLock(Home[t]) /\ directory' = TRUE /\ Goto(t, "publishing")
  BY <1>1, PublishBegins DEF BeginAdd
<1>2. CASE FileFree /\ Unlock(Home[t]) /\ UNCHANGED <<pc, directory>>
  BY <1>2, Unmoved DEF BeginAdd, FileFree, Unlock
<1>3. QED
  BY <1>1, <1>2 DEF BeginAdd

LEMMA EndPublishKeeps == ASSUME IInv, NEW t \in Tasks, EndPublish(t) PROVE IInv'
<1> DEFINE b == Account(t) a == b l == "idle" r == renew[t]
<1>1. Known(t, b) /\ KnownRenewal(t, b)
  BY TaskFacts
<1>2. /\ a \in Objects /\ a.registered = b.registered /\ a.active = b.active
      /\ a.exclusive = b.exclusive /\ a.waiters = b.waiters
      /\ a.refreshers = b.refreshers /\ a.locked = b.locked
      /\ a.generation = b.generation /\ a.storage = b.storage
  BY <1>1 DEF Known, Objects
<1>3. /\ pc[t] = "published"
      /\ pc' = [pc EXCEPT ![t] = l] /\ pool' = [pool EXCEPT ![Home[t]] = a]
      /\ file' = None
      /\ UNCHANGED <<renew, leaseLogin, orphans, directory>>
  BY <1>1 DEF EndPublish, Unlock, Goto, Known, Account
<1> HIDE DEF a, b
<1>4. Moves(t, a, l, r)
  BY <1>1, <1>2, <1>3 DEF Moves, Known, Labels, Renewals, Shared, Exclusive, Apart, Objects
<1>5. Asks(t, b, a, l) /\ Counts(t, b, a, l, r) /\ Owns(t, b, a, l) /\ Deletes(t, l)
  BY <1>1, <1>2, <1>3
     DEF Asks, Counts, Owns, Deletes, Known, KnownRenewal, Leased, AskingLabels, Owning, Holding,
         RemovingLabels, Shared, Apart, One, Objects
<1>6. Files(t, b, a, l)
  BY <1>1, <1>2, <1>3
     DEF Files, Known, KnownRenewal, Leased, Coherent, Owning, Holding, RemovingLabels, Apart,
         Shared, Objects
<1>7. Renews(t, b, a, l, r)
  BY <1>1, <1>2, <1>3
     DEF Renews, Known, KnownRenewal, Leased, Coherent, Shared, Owning, Holding, RemovingLabels, Objects
<1>8. QED
  BY <1>4, <1>5, <1>6, <1>7, StepOf DEF b

LEMMA DroppedFacts ==
  ASSUME NEW c \in Objects
  PROVE  /\ LET x == DropShared(c) IN
            /\ x \in Objects /\ x.registered = c.registered
            /\ x.active = IF c.active > 0 THEN c.active - 1 ELSE 0
            /\ x.exclusive = c.exclusive /\ x.waiters = c.waiters
            /\ x.refreshers = c.refreshers /\ x.locked = c.locked
            /\ x.generation = c.generation /\ x.storage = c.storage
         /\ LET x == DropExclusive(c) IN
            /\ x \in Objects /\ x.registered = c.registered /\ x.active = c.active
            /\ x.exclusive = FALSE /\ x.waiters = c.waiters
            /\ x.refreshers = c.refreshers /\ x.locked = c.locked
            /\ x.generation = c.generation /\ x.storage = c.storage
<1>1. (IF c.active > 0 THEN c.active - 1 ELSE 0) \in Nat
  BY DEF Objects
<1>2. QED
  BY <1>1 DEF DropShared, DropExclusive, Objects

(* The last shared lease, and one of several, given back.                   *)
LEMMA SharedGivenBack ==
  ASSUME IInv, NEW t \in Tasks, NEW l, pc[t] \in Shared, l \in {"idle", "stale"},
         renew[t] # "renewing", renew[t] # "none" => RenewalOutlives /\ l = "idle",
         Goto(t, l), ReleaseLease(t, DropShared(Account(t))),
         UNCHANGED <<renew, orphans, directory>>
  PROVE  IInv'
<1> DEFINE b == Account(t) a == Released(DropShared(b)) r == renew[t]
<1>1. Known(t, b) /\ KnownRenewal(t, b)
  BY TaskFacts
<1>2. /\ a \in Objects /\ a.registered = b.registered
      /\ a.active = b.active - 1 /\ a.exclusive = b.exclusive
      /\ a.waiters = b.waiters /\ a.refreshers = b.refreshers
      /\ (a.locked <=> b.locked /\ (a.active > 0 \/ a.exclusive \/ a.refreshers > 0))
      /\ a.generation = b.generation /\ a.storage = b.storage
  <2> DEFINE c == DropShared(b)
  <2>1. /\ b \in Objects
        /\ pc[t] \in Shared => b.active > 0 /\ b.active - 1 \in Nat
    BY <1>1 DEF Known, Objects
  <2>2. /\ c \in Objects /\ c.registered = b.registered
        /\ c.active = b.active - 1 /\ c.exclusive = b.exclusive
        /\ c.waiters = b.waiters /\ c.refreshers = b.refreshers
        /\ c.locked = b.locked /\ c.generation = b.generation
        /\ c.storage = b.storage
    BY <2>1, DroppedFacts
  <2>3. a = Released(c)
    OBVIOUS
  <2> HIDE DEF c, a
  <2>4. /\ a \in Objects /\ a.registered = c.registered /\ a.active = c.active
        /\ a.exclusive = c.exclusive /\ a.waiters = c.waiters
        /\ a.refreshers = c.refreshers
        /\ (a.locked <=> c.locked /\ (c.active > 0 \/ c.exclusive \/ c.refreshers > 0))
        /\ a.generation = c.generation /\ a.storage = c.storage
    BY <2>2, <2>3, ReleasedFacts
  <2>5. QED
    BY <2>2, <2>4
<1>3. /\ pc' = [pc EXCEPT ![t] = l] /\ pool' = [pool EXCEPT ![Home[t]] = a]
      /\ file' = IF b.locked /\ ~a.locked THEN None ELSE file
      /\ leaseLogin' = [leaseLogin EXCEPT ![t] = 0]
      /\ UNCHANGED <<renew, orphans, directory>>
  BY <1>1, DroppedFacts DEF Goto, ReleaseLease, Unlock, SetAccount, Known
<1> HIDE DEF a, b
<1>4. Moves(t, a, l, r)
  BY <1>1, <1>2, <1>3 DEF Moves, Known, Labels, Renewals, Shared, Exclusive, Apart, Objects
<1>5. Asks(t, b, a, l) /\ Counts(t, b, a, l, r) /\ Owns(t, b, a, l) /\ Deletes(t, l)
  BY <1>1, <1>2, <1>3
     DEF Asks, Counts, Owns, Deletes, Known, KnownRenewal, Leased, AskingLabels, Owning, Holding,
         RemovingLabels, Shared, Apart, One, Objects
<1>6. Files(t, b, a, l)
  BY <1>1, <1>2, <1>3
     DEF Files, Known, KnownRenewal, Leased, Coherent, Owning, Holding, RemovingLabels, Apart,
         Shared, Objects
<1>7. Renews(t, b, a, l, r)
  BY <1>1, <1>2, <1>3
     DEF Renews, Known, KnownRenewal, Leased, Coherent, Shared, Owning, Holding, RemovingLabels, Objects
<1>8. QED
  BY <1>4, <1>5, <1>6, <1>7, StepOf DEF b

LEMMA ExclusiveGivenBack ==
  ASSUME IInv, NEW t \in Tasks, NEW l, pc[t] \in Holding, renew[t] = "none",
         l \in {"idle", "stale", "leaving", "leavingStale"},
         l \in {"leaving", "leavingStale"} <=> pc[t] = "opening" /\ t \notin orphans,
         Goto(t, l), ReleaseLease(t, DropExclusive(Account(t))),
         orphans' = orphans \ {t}, UNCHANGED <<renew, directory>>
  PROVE  IInv'
<1> DEFINE b == Account(t) a == Released(DropExclusive(b)) r == renew[t]
<1>1. Known(t, b) /\ KnownRenewal(t, b)
  BY TaskFacts
<1>2. /\ a \in Objects /\ a.registered = b.registered /\ a.active = b.active
      /\ a.exclusive = FALSE /\ a.waiters = b.waiters
      /\ a.refreshers = b.refreshers
      /\ (a.locked <=> b.locked /\ (a.active > 0 \/ a.exclusive \/ a.refreshers > 0))
      /\ a.generation = b.generation /\ a.storage = b.storage
  <2> DEFINE c == DropExclusive(b)
  <2>1. /\ b \in Objects
        /\ pc[t] \in Shared => b.active > 0 /\ b.active - 1 \in Nat
    BY <1>1 DEF Known, Objects
  <2>2. /\ c \in Objects /\ c.registered = b.registered /\ c.active = b.active
        /\ c.exclusive = FALSE /\ c.waiters = b.waiters
        /\ c.refreshers = b.refreshers /\ c.locked = b.locked
        /\ c.generation = b.generation /\ c.storage = b.storage
    BY <2>1, DroppedFacts
  <2>3. a = Released(c)
    OBVIOUS
  <2> HIDE DEF c, a
  <2>4. /\ a \in Objects /\ a.registered = c.registered /\ a.active = c.active
        /\ a.exclusive = c.exclusive /\ a.waiters = c.waiters
        /\ a.refreshers = c.refreshers
        /\ (a.locked <=> c.locked /\ (c.active > 0 \/ c.exclusive \/ c.refreshers > 0))
        /\ a.generation = c.generation /\ a.storage = c.storage
    BY <2>2, <2>3, ReleasedFacts
  <2>5. QED
    BY <2>2, <2>4
<1>3. /\ pc' = [pc EXCEPT ![t] = l] /\ pool' = [pool EXCEPT ![Home[t]] = a]
      /\ file' = IF b.locked /\ ~a.locked THEN None ELSE file
      /\ leaseLogin' = [leaseLogin EXCEPT ![t] = 0]
      /\ orphans' = orphans \ {t} /\ UNCHANGED <<renew, directory>>
  BY <1>1, DroppedFacts DEF Goto, ReleaseLease, Unlock, SetAccount, Known
<1> HIDE DEF a, b
<1>4. Moves(t, a, l, r)
  BY <1>1, <1>2, <1>3 DEF Moves, Known, Labels, Renewals, Shared, Exclusive, Apart, Objects
<1>5. Asks(t, b, a, l) /\ Counts(t, b, a, l, r) /\ Owns(t, b, a, l) /\ Deletes(t, l)
  BY <1>1, <1>2, <1>3
     DEF Asks, Counts, Owns, Deletes, Known, KnownRenewal, Leased, AskingLabels, Owning, Holding,
         RemovingLabels, Shared, Apart, One, Objects
<1>6. Files(t, b, a, l)
  BY <1>1, <1>2, <1>3
     DEF Files, Known, KnownRenewal, Leased, Coherent, Owning, Holding, RemovingLabels, Apart,
         Shared, Objects
<1>7. Renews(t, b, a, l, r)
  BY <1>1, <1>2, <1>3
     DEF Renews, Known, KnownRenewal, Leased, Coherent, Shared, Owning, Holding, RemovingLabels, Objects
<1>8. QED
  BY <1>4, <1>5, <1>6, <1>7, StepOf DEF b

LEMMA SharingKeeps ==
  ASSUME IInv, NEW t \in Tasks, pc[t] = "validating", directory, Goto(t, "sharing"),
         UNCHANGED <<renew, leaseLogin, orphans, pool, file, directory>>
  PROVE  IInv'
<1> DEFINE b == Account(t) a == b l == "sharing" r == renew[t]
<1>1. Known(t, b) /\ KnownRenewal(t, b)
  BY TaskFacts
<1>2. /\ a \in Objects /\ a.registered = b.registered /\ a.active = b.active
      /\ a.exclusive = b.exclusive /\ a.waiters = b.waiters
      /\ a.refreshers = b.refreshers /\ a.locked = b.locked
      /\ a.generation = b.generation /\ a.storage = b.storage
  BY <1>1 DEF Known, Objects
<1>3. /\ pc' = [pc EXCEPT ![t] = l] /\ pool' = [pool EXCEPT ![Home[t]] = a]
      /\ UNCHANGED <<renew, leaseLogin, orphans, file, directory>>
  BY <1>1 DEF Goto, SetAccount, Known, Account
<1> HIDE DEF a, b
<1>4. Moves(t, a, l, r)
  BY <1>1, <1>2, <1>3 DEF Moves, Known, Labels, Renewals, Shared, Exclusive, Apart, Objects
<1>5. Asks(t, b, a, l) /\ Counts(t, b, a, l, r) /\ Owns(t, b, a, l) /\ Deletes(t, l)
  BY <1>1, <1>2, <1>3
     DEF Asks, Counts, Owns, Deletes, Known, KnownRenewal, Leased, AskingLabels, Owning, Holding,
         RemovingLabels, Shared, Apart, One, Objects
<1>6. Files(t, b, a, l)
  BY <1>1, <1>2, <1>3
     DEF Files, Known, KnownRenewal, Leased, Coherent, Owning, Holding, RemovingLabels, Apart,
         Shared, Objects
<1>7. Renews(t, b, a, l, r)
  BY <1>1, <1>2, <1>3
     DEF Renews, Known, KnownRenewal, Leased, Coherent, Shared, Owning, Holding, RemovingLabels, Objects
<1>8. QED
  BY <1>4, <1>5, <1>6, <1>7, StepOf DEF b

LEMMA ValidateKeeps == ASSUME IInv, NEW t \in Tasks, Validate(t) PROVE IInv'
<1>1. renew[t] = "none"
  BY TaskFacts DEF Validate, KnownRenewal, Leased
<1>2. CASE /\ directory /\ Goto(t, "sharing")
           /\ UNCHANGED <<renew, leaseLogin, orphans, pool, file, directory>>
  BY <1>2, SharingKeeps DEF Validate
<1>3. ASSUME NEW l \in Failures, Goto(t, l), ReleaseLease(t, DropShared(Account(t)))
      PROVE  IInv'
  <2>1. l \in {"idle", "stale"}
    BY DEF Failures
  <2>2. pc[t] \in Shared /\ UNCHANGED <<renew, orphans, directory>>
    BY DEF Validate, Shared
  <2>3. QED
    BY <1>1, <1>3, <2>1, <2>2, SharedGivenBack
<1>4. QED
  BY <1>2, <1>3 DEF Validate

LEMMA ReleaseSharedKeeps == ASSUME IInv, NEW t \in Tasks, ReleaseShared(t) PROVE IInv'
<1>1. /\ pc[t] \in Shared /\ Goto(t, "idle")
      /\ renew[t] # "renewing" /\ (renew[t] # "none" => RenewalOutlives)
      /\ ReleaseLease(t, DropShared(Account(t))) /\ UNCHANGED <<renew, orphans, directory>>
  BY DEF ReleaseShared, Shared
<1>2. QED
  BY <1>1, SharedGivenBack

LEMMA ReleaseExclusiveKeeps == ASSUME IInv, NEW t \in Tasks, ReleaseExclusive(t) PROVE IInv'
<1>1. /\ pc[t] = "exclusive" /\ renew[t] = "none" /\ Goto(t, "idle")
      /\ ReleaseLease(t, DropExclusive(Account(t))) /\ UNCHANGED <<renew, orphans, directory>>
  BY DEF ReleaseExclusive
<1>2. t \notin orphans
  BY <1>1, TaskFacts DEF Known
<1>3. orphans' = orphans \ {t}
  BY <1>1, <1>2
<1>4. QED
  BY <1>1, <1>3, ExclusiveGivenBack DEF Holding

LEMMA RenewalEnds ==
  ASSUME IInv, NEW t \in Tasks, renew[t] = "window", renew' = [renew EXCEPT ![t] = "ended"],
         leaseLogin' = [leaseLogin EXCEPT ![t] = IF Leased(t) THEN Account(t).generation ELSE @],
         UNCHANGED <<pc, orphans, pool, file, directory>>
  PROVE  IInv'
<1> DEFINE b == Account(t) a == b l == pc[t] r == "ended"
<1>1. Known(t, b) /\ KnownRenewal(t, b)
  BY TaskFacts
<1>2. /\ a \in Objects /\ a.registered = b.registered /\ a.active = b.active
      /\ a.exclusive = b.exclusive /\ a.waiters = b.waiters
      /\ a.refreshers = b.refreshers /\ a.locked = b.locked
      /\ a.generation = b.generation /\ a.storage = b.storage
  BY <1>1 DEF Known, Objects
<1>3. /\ pc' = [pc EXCEPT ![t] = l] /\ pool' = [pool EXCEPT ![Home[t]] = a]
      /\ renew' = [renew EXCEPT ![t] = r]
      /\ leaseLogin' = [leaseLogin EXCEPT ![t] = IF Leased(t) THEN b.generation ELSE @]
      /\ UNCHANGED <<orphans, file, directory>>
  BY <1>1 DEF Goto, SetAccount, Known, Account
<1>4. (IF Leased(t) THEN b.generation ELSE leaseLogin[t]) \in Nat
  BY <1>1 DEF Known, Objects
<1> HIDE DEF a, b
<1>5. Moves(t, a, l, r)
  BY <1>1, <1>2, <1>3, <1>4 DEF Moves, Known, Renewals
<1>6. Asks(t, b, a, l) /\ Counts(t, b, a, l, r) /\ Owns(t, b, a, l) /\ Deletes(t, l)
  BY <1>1, <1>2, <1>3, <1>4
     DEF Asks, Counts, Owns, Deletes, Known, KnownRenewal, Leased, AskingLabels, Owning, Holding,
         RemovingLabels, Shared, Apart, One, Objects
<1>7. Files(t, b, a, l)
  BY <1>1, <1>2, <1>3, <1>4
     DEF Files, Known, KnownRenewal, Leased, Coherent, Owning, Holding, RemovingLabels, Apart,
         Shared, Objects
<1>8. Renews(t, b, a, l, r)
  BY <1>1, <1>2, <1>3, <1>4
     DEF Renews, Known, KnownRenewal, Leased, Coherent, Shared, Owning, Holding, RemovingLabels, Objects
<1>9. QED
  BY <1>5, <1>6, <1>7, <1>8, StepOf DEF b

LEMMA RenewalBegins ==
  ASSUME IInv, NEW t \in Tasks, renew[t] = "window", Leased(t), Account(t).storage = None,
         renew' = [renew EXCEPT ![t] = "renewing"],
         SetAccount(t, [Account(t) EXCEPT !.storage = t]),
         leaseLogin' = [leaseLogin EXCEPT ![t] = Account(t).generation],
         UNCHANGED <<pc, orphans, file, directory>>
  PROVE  IInv'
<1> DEFINE b == Account(t) a == [b EXCEPT !.storage = t] l == pc[t] r == "renewing"
<1>1. Known(t, b) /\ KnownRenewal(t, b)
  BY TaskFacts
<1>2. /\ a \in Objects /\ a.registered = b.registered /\ a.active = b.active
      /\ a.exclusive = b.exclusive /\ a.waiters = b.waiters
      /\ a.refreshers = b.refreshers /\ a.locked = b.locked
      /\ a.generation = b.generation /\ a.storage = t
  BY <1>1 DEF Known, Objects
<1>3. /\ pc' = [pc EXCEPT ![t] = l] /\ pool' = [pool EXCEPT ![Home[t]] = a]
      /\ b.storage = None /\ renew' = [renew EXCEPT ![t] = r]
      /\ leaseLogin' = [leaseLogin EXCEPT ![t] = b.generation]
      /\ UNCHANGED <<orphans, file, directory>>
  BY <1>1 DEF Goto, SetAccount, Known, Account
<1> HIDE DEF a, b
<1>4. Moves(t, a, l, r)
  BY <1>1, <1>2, <1>3 DEF Moves, Known, Labels, Renewals, Shared, Exclusive, Apart, Objects
<1>5. Asks(t, b, a, l) /\ Counts(t, b, a, l, r) /\ Owns(t, b, a, l) /\ Deletes(t, l)
  BY <1>1, <1>2, <1>3
     DEF Asks, Counts, Owns, Deletes, Known, KnownRenewal, Leased, AskingLabels, Owning, Holding,
         RemovingLabels, Shared, Apart, One, Objects
<1>6. Files(t, b, a, l)
  BY <1>1, <1>2, <1>3
     DEF Files, Known, KnownRenewal, Leased, Coherent, Owning, Holding, RemovingLabels, Apart,
         Shared, Objects
<1>7. Renews(t, b, a, l, r)
  BY <1>1, <1>2, <1>3
     DEF Renews, Known, KnownRenewal, Leased, Coherent, Shared, Owning, Holding, RemovingLabels, Objects
<1>8. QED
  BY <1>4, <1>5, <1>6, <1>7, StepOf DEF b

LEMMA RefreshStorageStateKeeps ==
  ASSUME IInv, NEW t \in Tasks, RefreshStorageState(t) PROVE IInv'
<1>1. CASE ~Leased(t) \/ leaseLogin[t] # Account(t).generation
  BY <1>1, RenewalEnds DEF RefreshStorageState
<1>2. CASE Leased(t) /\ leaseLogin[t] = Account(t).generation
  BY <1>2, RenewalBegins DEF RefreshStorageState
<1>3. QED
  BY <1>1, <1>2

(* A renewal that is committed, and one that failed.                        *)
LEMMA Renewed ==
  ASSUME NEW c \in Objects
  PROVE  LET x == [c EXCEPT !.generation = @ + 1, !.storage = None] IN
         /\ x \in Objects /\ x.registered = c.registered /\ x.active = c.active
         /\ x.exclusive = c.exclusive /\ x.waiters = c.waiters /\ x.refreshers = c.refreshers
         /\ x.locked = c.locked /\ x.generation = c.generation + 1 /\ x.storage = None
<1> DEFINE y == [c EXCEPT !.generation = @ + 1]
           x == [y EXCEPT !.storage = None]
<1>1. /\ y \in Objects /\ y.registered = c.registered /\ y.active = c.active
      /\ y.exclusive = c.exclusive /\ y.waiters = c.waiters /\ y.refreshers = c.refreshers
      /\ y.locked = c.locked /\ y.generation = c.generation + 1
  BY DEF Objects
<1> HIDE DEF y
<1>2. /\ x \in Objects /\ x.registered = y.registered /\ x.active = y.active
      /\ x.exclusive = y.exclusive /\ x.waiters = y.waiters /\ x.refreshers = y.refreshers
      /\ x.locked = y.locked /\ x.generation = y.generation /\ x.storage = None
  BY <1>1 DEF Objects
<1>3. QED
  BY <1>1, <1>2 DEF y

LEMMA RenewalCommits ==
  ASSUME IInv, NEW t \in Tasks, renew[t] = "renewing", renew' = [renew EXCEPT ![t] = "ended"],
         SetAccount(t, [Account(t) EXCEPT !.generation = @ + 1, !.storage = None]),
         leaseLogin' = [leaseLogin EXCEPT ![t] = Account(t).generation + 1],
         UNCHANGED <<pc, orphans, file, directory>>
  PROVE  IInv'
<1> DEFINE b == Account(t) n == b.generation + 1 l == pc[t] r == "ended"
           a == [b EXCEPT !.generation = @ + 1, !.storage = None]
<1>1. Known(t, b) /\ KnownRenewal(t, b)
  BY TaskFacts
<1>2. /\ a \in Objects /\ a.registered = b.registered /\ a.active = b.active
      /\ a.exclusive = b.exclusive /\ a.waiters = b.waiters
      /\ a.refreshers = b.refreshers /\ a.locked = b.locked
      /\ a.generation = b.generation + 1 /\ a.storage = None
  BY <1>1, Renewed DEF Known, Objects
<1>3. /\ pc' = [pc EXCEPT ![t] = l] /\ pool' = [pool EXCEPT ![Home[t]] = a]
      /\ renew' = [renew EXCEPT ![t] = r]
      /\ leaseLogin' = [leaseLogin EXCEPT ![t] = n] /\ n = b.generation + 1
      /\ leaseLogin' \in [Tasks -> Nat]
      /\ UNCHANGED <<orphans, file, directory>>
  BY <1>1 DEF SetAccount, Known, Objects
<1> HIDE DEF a, b, n
<1>4. Moves(t, a, l, r)
  BY <1>1, <1>2, <1>3 DEF Moves, Known, Renewals
<1>5. Asks(t, b, a, l) /\ Counts(t, b, a, l, r) /\ Owns(t, b, a, l) /\ Deletes(t, l)
  BY <1>1, <1>2, <1>3
     DEF Asks, Counts, Owns, Deletes, Known, KnownRenewal, Leased, AskingLabels, Owning, Holding,
         RemovingLabels, Shared, Apart, One, Objects
<1>6. Files(t, b, a, l)
  BY <1>1, <1>2, <1>3
     DEF Files, Known, KnownRenewal, Leased, Coherent, Owning, Holding, RemovingLabels, Apart,
         Shared, Objects
<1>7. Renews(t, b, a, l, r)
  BY <1>1, <1>2, <1>3
     DEF Renews, Known, KnownRenewal, Leased, Coherent, Shared, Owning, Holding, RemovingLabels, Objects
<1>8. QED
  BY <1>4, <1>5, <1>6, <1>7, StepOf DEF b

LEMMA RenewalFails ==
  ASSUME IInv, NEW t \in Tasks, renew[t] = "renewing", renew' = [renew EXCEPT ![t] = "ended"],
         SetAccount(t, [Account(t) EXCEPT !.storage = None]),
         UNCHANGED <<pc, leaseLogin, orphans, file, directory>>
  PROVE  IInv'
<1> DEFINE b == Account(t) l == pc[t] r == "ended" a == [b EXCEPT !.storage = None]
<1>1. Known(t, b) /\ KnownRenewal(t, b)
  BY TaskFacts
<1>2. /\ a \in Objects /\ a.registered = b.registered /\ a.active = b.active
      /\ a.exclusive = b.exclusive /\ a.waiters = b.waiters
      /\ a.refreshers = b.refreshers /\ a.locked = b.locked
      /\ a.generation = b.generation /\ a.storage = None
  BY <1>1 DEF Known, Objects
<1>3. /\ pc' = [pc EXCEPT ![t] = l] /\ pool' = [pool EXCEPT ![Home[t]] = a]
      /\ renew' = [renew EXCEPT ![t] = r]
      /\ UNCHANGED <<leaseLogin, orphans, file, directory>>
  BY <1>1 DEF SetAccount, Known
<1> HIDE DEF a, b
<1>4. Moves(t, a, l, r)
  BY <1>1, <1>2, <1>3 DEF Moves, Known, Labels, Renewals, Shared, Exclusive, Apart, Objects
<1>5. Asks(t, b, a, l) /\ Counts(t, b, a, l, r) /\ Owns(t, b, a, l) /\ Deletes(t, l)
  BY <1>1, <1>2, <1>3
     DEF Asks, Counts, Owns, Deletes, Known, KnownRenewal, Leased, AskingLabels, Owning, Holding,
         RemovingLabels, Shared, Apart, One, Objects
<1>6. Files(t, b, a, l)
  BY <1>1, <1>2, <1>3
     DEF Files, Known, KnownRenewal, Leased, Coherent, Owning, Holding, RemovingLabels, Apart,
         Shared, Objects
<1>7. Renews(t, b, a, l, r)
  BY <1>1, <1>2, <1>3
     DEF Renews, Known, KnownRenewal, Leased, Coherent, Shared, Owning, Holding, RemovingLabels, Objects
<1>8. QED
  BY <1>4, <1>5, <1>6, <1>7, StepOf DEF b

LEMMA RefreshCommitsKeeps == ASSUME IInv, NEW t \in Tasks, RefreshCommits(t) PROVE IInv'
BY RenewalCommits, RenewalFails DEF RefreshCommits

LEMMA OpeningKeeps ==
  ASSUME IInv, NEW t \in Tasks, pc[t] = "opening", directory, Goto(t, "exclusive"),
         SetAccount(t, Uncounted(t, Account(t))), orphans' = orphans \ {t},
         UNCHANGED <<renew, leaseLogin, file, directory>>
  PROVE  IInv'
<1> DEFINE b == Account(t) a == Uncounted(t, b) l == "exclusive" r == renew[t]
<1>1. Known(t, b) /\ KnownRenewal(t, b)
  BY TaskFacts
<1>2. /\ a \in Objects /\ a.registered = b.registered /\ a.active = b.active
      /\ a.exclusive = b.exclusive
      /\ a.waiters = (IF t \in orphans THEN b.waiters ELSE b.waiters - 1)
      /\ a.refreshers = b.refreshers /\ a.locked = b.locked
      /\ a.generation = b.generation /\ a.storage = b.storage
  BY <1>1, UncountedFacts DEF Known, Objects, AskingLabels
<1>3. /\ pc' = [pc EXCEPT ![t] = l] /\ pool' = [pool EXCEPT ![Home[t]] = a]
      /\ orphans' = orphans \ {t}
      /\ UNCHANGED <<renew, leaseLogin, file, directory>>
  BY <1>1 DEF Goto, SetAccount
<1> HIDE DEF a, b
<1>4. Moves(t, a, l, r)
  BY <1>1, <1>2, <1>3 DEF Moves, Known, Labels, Renewals, Shared, Exclusive, Apart, Objects
<1>5. Asks(t, b, a, l) /\ Counts(t, b, a, l, r) /\ Owns(t, b, a, l) /\ Deletes(t, l)
  BY <1>1, <1>2, <1>3
     DEF Asks, Counts, Owns, Deletes, Known, KnownRenewal, Leased, AskingLabels, Owning, Holding,
         RemovingLabels, Shared, Apart, One, Objects
<1>6. Files(t, b, a, l)
  BY <1>1, <1>2, <1>3
     DEF Files, Known, KnownRenewal, Leased, Coherent, Owning, Holding, RemovingLabels, Apart,
         Shared, Objects
<1>7. Renews(t, b, a, l, r)
  BY <1>1, <1>2, <1>3
     DEF Renews, Known, KnownRenewal, Leased, Coherent, Shared, Owning, Holding, RemovingLabels, Objects
<1>8. QED
  BY <1>4, <1>5, <1>6, <1>7, StepOf DEF b

LEMMA OpenExclusiveKeeps == ASSUME IInv, NEW t \in Tasks, OpenExclusive(t) PROVE IInv'
<1>1. pc[t] = "opening" /\ orphans' = orphans \ {t} /\ UNCHANGED <<renew, directory>>
  BY DEF OpenExclusive
<1>2. renew[t] = "none"
  BY <1>1, TaskFacts DEF KnownRenewal, Leased
<1>3. CASE /\ directory /\ Goto(t, "exclusive") /\ SetAccount(t, Uncounted(t, Account(t)))
           /\ UNCHANGED <<leaseLogin, file>>
  BY <1>1, <1>3, OpeningKeeps
<1>4. ASSUME NEW label \in Failures, Goto(t, IF t \in orphans THEN label ELSE Leaving(label)),
             ReleaseLease(t, DropExclusive(Account(t)))
      PROVE  IInv'
  <2> DEFINE l == IF t \in orphans THEN label ELSE Leaving(label)
  <2>1. /\ l \in {"idle", "stale", "leaving", "leavingStale"}
        /\ l \in {"leaving", "leavingStale"} <=> pc[t] = "opening" /\ t \notin orphans
    BY <1>1 DEF Failures, Leaving
  <2>2. Goto(t, l)
    BY <1>4
  <2> HIDE DEF l
  <2>3. QED
    BY <1>1, <1>2, <1>4, <2>1, <2>2, ExclusiveGivenBack DEF Holding
<1>5. QED
  BY <1>3, <1>4 DEF OpenExclusive

LEMMA RemoveLocksFile ==
  ASSUME IInv, NEW t \in Tasks, pc[t] = "removing", file = None, file' = Home[t],
         Goto(t, "deleting"), UNCHANGED <<renew, leaseLogin, orphans, pool, directory>>
  PROVE  IInv'
<1> DEFINE b == Account(t) a == b l == "deleting" r == renew[t]
<1>1. Known(t, b) /\ KnownRenewal(t, b)
  BY TaskFacts
<1>2. /\ a \in Objects /\ a.registered = b.registered /\ a.active = b.active
      /\ a.exclusive = b.exclusive /\ a.waiters = b.waiters
      /\ a.refreshers = b.refreshers /\ a.locked = b.locked
      /\ a.generation = b.generation /\ a.storage = b.storage
  BY <1>1 DEF Known, Objects
<1>3. /\ pc' = [pc EXCEPT ![t] = l] /\ pool' = [pool EXCEPT ![Home[t]] = a]
      /\ file = None /\ file' = Home[t] /\ ~b.locked
      /\ UNCHANGED <<renew, leaseLogin, orphans, directory>>
  BY <1>1 DEF Goto, SetAccount, Known, Account
<1> HIDE DEF a, b
<1>4. Moves(t, a, l, r)
  <2>1. l \in Labels
    BY DEF Labels, Shared, Exclusive
  <2>2. QED
    BY <1>1, <1>2, <1>3, <2>1 DEF Moves, Known
<1>5. Asks(t, b, a, l) /\ Counts(t, b, a, l, r) /\ Owns(t, b, a, l) /\ Deletes(t, l)
  BY <1>1, <1>2, <1>3
     DEF Asks, Counts, Owns, Deletes, Known, KnownRenewal, Leased, AskingLabels, Owning, Holding,
         RemovingLabels, Shared, Apart, One, Objects
<1>6. Files(t, b, a, l)
  BY <1>1, <1>2, <1>3
     DEF Files, Known, KnownRenewal, Leased, Coherent, Owning, Holding, RemovingLabels, Apart,
         Shared, Objects
<1>7. Renews(t, b, a, l, r)
  BY <1>1, <1>2, <1>3
     DEF Renews, Known, KnownRenewal, Leased, Coherent, Shared, Owning, Holding, RemovingLabels, Objects
<1>8. QED
  BY <1>4, <1>5, <1>6, <1>7, StepOf DEF b

LEMMA RemovalDropped ==
  ASSUME IInv, NEW t \in Tasks, pc[t] \in {"removing", "keeping"}, Goto(t, "idle"),
         SetAccount(t, DropExclusive(Account(t))),
         UNCHANGED <<renew, leaseLogin, orphans, file, directory>>
  PROVE  IInv'
<1> DEFINE b == Account(t) a == DropExclusive(b) l == "idle" r == renew[t]
<1>1. Known(t, b) /\ KnownRenewal(t, b)
  BY TaskFacts
<1>2. /\ a \in Objects /\ a.registered = b.registered /\ a.active = b.active
      /\ a.exclusive = FALSE /\ a.waiters = b.waiters
      /\ a.refreshers = b.refreshers /\ a.locked = b.locked
      /\ a.generation = b.generation /\ a.storage = b.storage
  BY <1>1, DroppedFacts DEF Known, Objects
<1>3. /\ pc' = [pc EXCEPT ![t] = l] /\ pool' = [pool EXCEPT ![Home[t]] = a]
      /\ UNCHANGED <<renew, leaseLogin, orphans, file, directory>>
  BY <1>1 DEF Goto, SetAccount, Known, Account
<1> HIDE DEF a, b
<1>4. Moves(t, a, l, r)
  BY <1>1, <1>2, <1>3 DEF Moves, Known, Labels, Renewals, Shared, Exclusive, Apart, Objects
<1>5. Asks(t, b, a, l) /\ Counts(t, b, a, l, r) /\ Owns(t, b, a, l) /\ Deletes(t, l)
  BY <1>1, <1>2, <1>3
     DEF Asks, Counts, Owns, Deletes, Known, KnownRenewal, Leased, AskingLabels, Owning, Holding,
         RemovingLabels, Shared, Apart, One, Objects
<1>6. Files(t, b, a, l)
  BY <1>1, <1>2, <1>3
     DEF Files, Known, KnownRenewal, Leased, Coherent, Owning, Holding, RemovingLabels, Apart,
         Shared, Objects
<1>7. Renews(t, b, a, l, r)
  BY <1>1, <1>2, <1>3
     DEF Renews, Known, KnownRenewal, Leased, Coherent, Shared, Owning, Holding, RemovingLabels, Objects
<1>8. QED
  BY <1>4, <1>5, <1>6, <1>7, StepOf DEF b

LEMMA RemoveLocksKeeps == ASSUME IInv, NEW t \in Tasks, RemoveLocks(t) PROVE IInv'
<1>1. /\ pc[t] = "removing" /\ UNCHANGED <<renew, leaseLogin, orphans, directory>>
  BY DEF RemoveLocks
<1>2. CASE TryLock(Home[t]) /\ Goto(t, "deleting") /\ UNCHANGED pool
  BY <1>1, <1>2, RemoveLocksFile DEF TryLock, FileFree
<1>3. CASE /\ IF FileFree THEN Unlock(Home[t]) ELSE UNCHANGED <<file, leaked>>
           /\ Goto(t, "idle") /\ SetAccount(t, DropExclusive(Account(t)))
  <2>1. UNCHANGED file
    BY <1>3 DEF FileFree, Unlock
  <2>2. QED
    BY <1>1, <1>3, <2>1, RemovalDropped
<1>4. QED
  BY <1>2, <1>3 DEF RemoveLocks

LEMMA RemoveDeletesTo ==
  ASSUME IInv, NEW t \in Tasks, NEW l \in {"forgetting", "keeping"}, pc[t] = "deleting",
         Goto(t, l), file' = None, directory' \in BOOLEAN,
         UNCHANGED <<renew, leaseLogin, orphans, pool>>
  PROVE  IInv'
<1> DEFINE b == Account(t) a == b r == renew[t]
<1>1. Known(t, b) /\ KnownRenewal(t, b)
  BY TaskFacts
<1>2. /\ a \in Objects /\ a.registered = b.registered /\ a.active = b.active
      /\ a.exclusive = b.exclusive /\ a.waiters = b.waiters
      /\ a.refreshers = b.refreshers /\ a.locked = b.locked
      /\ a.generation = b.generation /\ a.storage = b.storage
  BY <1>1 DEF Known, Objects
<1>3. /\ pc' = [pc EXCEPT ![t] = l] /\ pool' = [pool EXCEPT ![Home[t]] = a]
      /\ l \in {"forgetting", "keeping"} /\ file = Home[t] /\ file' = None
      /\ directory' \in BOOLEAN
      /\ UNCHANGED <<renew, leaseLogin, orphans>>
  BY <1>1 DEF Goto, SetAccount, Known, Account, Apart
<1> HIDE DEF a, b
<1>4. Moves(t, a, l, r)
  <2>1. a \in Objects /\ l \in Labels /\ r \in Renewals
    BY <1>1, <1>2, <1>3 DEF Known, Labels, Objects
  <2>2. renew' = [renew EXCEPT ![t] = r]
    BY <1>1, <1>3 DEF Known
  <2>3. leaseLogin' \in [Tasks -> Nat] /\ \A u \in Tasks : u # t => leaseLogin'[u] = leaseLogin[u]
    BY <1>1, <1>3 DEF Known
  <2>4. file \in {None, Home[t]} /\ file' \in {None, Home[t]}
    BY <1>1, <1>3 DEF Known, Apart
  <2>5. QED
    BY <1>3, <2>1, <2>2, <2>3, <2>4 DEF Moves
<1>5. Asks(t, b, a, l) /\ Counts(t, b, a, l, r) /\ Owns(t, b, a, l) /\ Deletes(t, l)
  BY <1>1, <1>2, <1>3
     DEF Asks, Counts, Owns, Deletes, Known, KnownRenewal, Leased, AskingLabels, Owning, Holding,
         RemovingLabels, Shared, Apart, One, Objects
<1>6. Files(t, b, a, l)
  BY <1>1, <1>2, <1>3
     DEF Files, Known, KnownRenewal, Leased, Coherent, Owning, Holding, RemovingLabels, Apart,
         Shared, Objects
<1>7. Renews(t, b, a, l, r)
  BY <1>1, <1>2, <1>3
     DEF Renews, Known, KnownRenewal, Leased, Coherent, Shared, Owning, Holding, RemovingLabels, Objects
<1>8. QED
  BY <1>4, <1>5, <1>6, <1>7, StepOf DEF b

LEMMA RemoveDeletesKeeps == ASSUME IInv, NEW t \in Tasks, RemoveDeletes(t) PROVE IInv'
<1>1. directory' \in BOOLEAN
  BY Types DEF RemoveDeletes
<1>2. QED
  BY <1>1, RemoveDeletesTo DEF RemoveDeletes, Unlock

LEMMA AddJoinsPool ==
  ASSUME IInv, NEW t \in Tasks, pc[t] = "publishing", ~Account(t).registered, SetAccount(t, NewAccount),
         Goto(t, "published"), UNCHANGED <<renew, leaseLogin, orphans, file, directory>>
  PROVE  IInv'
<1> DEFINE b == Account(t) a == NewAccount l == "published" r == renew[t]
<1>1. Known(t, b) /\ KnownRenewal(t, b)
  BY TaskFacts
<1>2. /\ a \in Objects /\ a.registered = TRUE /\ a.active = 0
      /\ a.exclusive = FALSE /\ a.waiters = 0 /\ a.refreshers = 0
      /\ a.locked = FALSE /\ a.generation = 0 /\ a.storage = None
  BY <1>1 DEF Known, Objects, NewAccount
<1>3. /\ pc' = [pc EXCEPT ![t] = l] /\ pool' = [pool EXCEPT ![Home[t]] = a]
      /\ ~b.registered
      /\ UNCHANGED <<renew, leaseLogin, orphans, file, directory>>
  BY <1>1 DEF Goto, SetAccount, Known, Account
<1>4. b.active = 0 /\ ~b.exclusive /\ b.waiters = 0 /\ b.refreshers = 0
  BY <1>1, <1>3 DEF Known, Coherent, Apart, Objects
<1> HIDE DEF a, b
<1>5. Moves(t, a, l, r)
  BY <1>1, <1>2, <1>3, <1>4 DEF Moves, Known, Labels, Renewals, Shared, Exclusive, Apart, Objects
<1>6. Asks(t, b, a, l) /\ Counts(t, b, a, l, r) /\ Owns(t, b, a, l) /\ Deletes(t, l)
  BY <1>1, <1>2, <1>3, <1>4
     DEF Asks, Counts, Owns, Deletes, Known, KnownRenewal, Leased, AskingLabels, Owning, Holding,
         RemovingLabels, Shared, Apart, One, Objects
<1>7. Files(t, b, a, l)
  BY <1>1, <1>2, <1>3, <1>4
     DEF Files, Known, KnownRenewal, Leased, Coherent, Owning, Holding, RemovingLabels, Apart,
         Shared, Objects
<1>8. Renews(t, b, a, l, r)
  BY <1>1, <1>2, <1>3, <1>4
     DEF Renews, Known, KnownRenewal, Leased, Coherent, Shared, Owning, Holding, RemovingLabels, Objects
<1>9. QED
  BY <1>5, <1>6, <1>7, <1>8, StepOf DEF b

LEMMA AddRefused ==
  ASSUME IInv, NEW t \in Tasks, pc[t] = "publishing", directory' \in BOOLEAN, file' = None,
         Goto(t, "idle"), UNCHANGED <<renew, leaseLogin, orphans, pool>>
  PROVE  IInv'
<1> DEFINE b == Account(t) a == b l == "idle" r == renew[t]
<1>1. Known(t, b) /\ KnownRenewal(t, b)
  BY TaskFacts
<1>2. /\ a \in Objects /\ a.registered = b.registered /\ a.active = b.active
      /\ a.exclusive = b.exclusive /\ a.waiters = b.waiters
      /\ a.refreshers = b.refreshers /\ a.locked = b.locked
      /\ a.generation = b.generation /\ a.storage = b.storage
  BY <1>1 DEF Known, Objects
<1>3. /\ pc' = [pc EXCEPT ![t] = l] /\ pool' = [pool EXCEPT ![Home[t]] = a]
      /\ file = Home[t] /\ file' = None /\ directory' \in BOOLEAN
      /\ UNCHANGED <<renew, leaseLogin, orphans>>
  BY <1>1 DEF Goto, SetAccount, Known, Account, Apart
<1> HIDE DEF a, b
<1>4. Moves(t, a, l, r)
  <2>1. a \in Objects /\ l \in Labels /\ r \in Renewals
    BY <1>1, <1>2, <1>3 DEF Known, Labels, Objects
  <2>2. renew' = [renew EXCEPT ![t] = r]
    BY <1>1, <1>3 DEF Known
  <2>3. leaseLogin' \in [Tasks -> Nat] /\ \A u \in Tasks : u # t => leaseLogin'[u] = leaseLogin[u]
    BY <1>1, <1>3 DEF Known
  <2>4. file \in {None, Home[t]} /\ file' \in {None, Home[t]}
    BY <1>1, <1>3 DEF Known, Apart
  <2>5. QED
    BY <1>3, <2>1, <2>2, <2>3, <2>4 DEF Moves
<1>5. Asks(t, b, a, l) /\ Counts(t, b, a, l, r) /\ Owns(t, b, a, l) /\ Deletes(t, l)
  BY <1>1, <1>2, <1>3
     DEF Asks, Counts, Owns, Deletes, Known, KnownRenewal, Leased, AskingLabels, Owning, Holding,
         RemovingLabels, Shared, Apart, One, Objects
<1>6. Files(t, b, a, l)
  BY <1>1, <1>2, <1>3
     DEF Files, Known, KnownRenewal, Leased, Coherent, Owning, Holding, RemovingLabels, Apart,
         Shared, Objects
<1>7. Renews(t, b, a, l, r)
  BY <1>1, <1>2, <1>3
     DEF Renews, Known, KnownRenewal, Leased, Coherent, Shared, Owning, Holding, RemovingLabels, Objects
<1>8. QED
  BY <1>4, <1>5, <1>6, <1>7, StepOf DEF b

LEMMA AddKeeps == ASSUME IInv, NEW t \in Tasks, Add(t) PROVE IInv'
<1>1. directory' \in BOOLEAN
  BY Types DEF Add
<1>2. QED
  BY <1>1, AddJoinsPool, AddRefused DEF Add, Unlock

(* RemoveEnds: the account is kept, or forgotten with nobody in it, and then *)
(* every task that still refers to it is an orphan.                         *)
LEMMA AccountForgotten ==
  ASSUME IInv, NEW t \in Tasks, pc[t] = "forgetting", Goto(t, "idle"),
         SetAccount(t, NoAccount), orphans' = orphans \cup Referring(Home[t]),
         UNCHANGED <<renew, leaseLogin, file, directory>>
  PROVE  IInv'
<1> DEFINE b == Account(t) a == NoAccount l == "idle" r == renew[t]
<1>1. Known(t, b) /\ KnownRenewal(t, b)
  BY TaskFacts
<1>2. /\ a \in Objects /\ a.registered = FALSE /\ a.active = 0 /\ a.exclusive = FALSE
      /\ a.waiters = 0 /\ a.refreshers = 0 /\ a.locked = FALSE
      /\ a.generation = 0 /\ a.storage = None
  BY DEF NoAccount, NewAccount, Objects
<1>3. /\ pc' = [pc EXCEPT ![t] = l] /\ pool' = [pool EXCEPT ![Home[t]] = a]
      /\ UNCHANGED <<renew, leaseLogin, file, directory>>
  BY DEF Goto, SetAccount
<1>4. b.active = 0 /\ b.refreshers = 0 /\ ~b.locked /\ b.storage = None /\ renew[t] = "none"
  BY <1>1 DEF Known, KnownRenewal, Coherent, Owning, RemovingLabels, Leased, Objects
<1>5. ASSUME NEW u \in Tasks, u # t, Home[u] = Home[t], pc[u] \in AskingLabels, u \notin orphans
      PROVE  u \in Referring(Home[t])
  <2>1. pc[u] \notin {"leaving", "leavingStale", "opening"}
    BY <1>5 DEF IInv, OwnerInv, Owning, RemovingLabels, Holding
  <2>2. QED
    BY <1>5, <2>1 DEF AskingLabels, Referring
<1>6. Waits(t, a)
  <2>1. \A u \in Tasks : u # t => pc'[u] = pc[u]
    BY <1>1, <1>3 DEF Known
  <2>2. pc'[t] = "idle"
    BY <1>1, <1>3 DEF Known
  <2>3. Counted(Home[t])' = {}
    BY <1>5, <2>1, <2>2 DEF Counted, AskingLabels
  <2>4. QED
    BY <1>2, <2>3, FS_EmptySet DEF Waits
<1>7. Orphans(t, l)
  <2>1. t \notin orphans /\ t \notin Referring(Home[t]) /\ Referring(Home[t]) \subseteq Tasks
    BY <1>1 DEF Known, Referring
  <2>2. QED
    BY <1>1, <2>1 DEF Orphans, Referring, Known, IInv, OrphanInv
<1> HIDE DEF a, b
<1>8. Moves(t, a, l, r)
  BY <1>1, <1>2, <1>3 DEF Moves, Known, Labels, Renewals
<1>9. Counts(t, b, a, l, r) /\ Owns(t, b, a, l) /\ Deletes(t, l)
  BY <1>1, <1>2, <1>3, <1>4
     DEF Counts, Owns, Deletes, Known, Owning, Holding, RemovingLabels, Shared, Apart, One
<1>10. Files(t, b, a, l)
  BY <1>1, <1>2, <1>3, <1>4
     DEF Files, Known, Coherent, Owning, Holding, RemovingLabels, Apart
<1>11. Renews(t, b, a, l, r)
  BY <1>2, <1>4 DEF Renews
<1>12. Step(t, a, l, r)
  BY <1>6, <1>7, <1>8, <1>9, <1>10, <1>11 DEF Step, b
<1>13. QED
  BY <1>12, StepKeeps

LEMMA RemoveEndsKeeps == ASSUME IInv, NEW t \in Tasks, RemoveEnds(t) PROVE IInv'
BY AccountForgotten, RemovalDropped DEF RemoveEnds

-----------------------------------------------------------------------------
(* The two actions that are no task's.                                      *)

LEMMA SetCatalogKeeps == ASSUME IInv, NEW p \in Processes, SetCatalog(p) PROVE IInv'
<1> DEFINE a == [pool[p] EXCEPT !.ready = TRUE]
<1>1. /\ pool \in [Processes -> Objects] /\ pool' = [pool EXCEPT ![p] = a]
      /\ UNCHANGED <<pc, renew, leaseLogin, orphans, file, directory>>
  BY Types DEF SetCatalog
<1>2. /\ a \in Objects /\ a.active = pool[p].active
      /\ a.exclusive = pool[p].exclusive /\ a.waiters = pool[p].waiters
      /\ a.refreshers = pool[p].refreshers /\ a.locked = pool[p].locked
      /\ a.generation = pool[p].generation /\ a.storage = pool[p].storage
      /\ a.registered = pool[p].registered
  BY <1>1 DEF Objects
<1> HIDE DEF a
<1>3. /\ pool' \in [Processes -> Objects]
      /\ \A q \in Processes :
           /\ pool'[q].registered = pool[q].registered /\ pool'[q].active = pool[q].active
           /\ pool'[q].exclusive = pool[q].exclusive /\ pool'[q].waiters = pool[q].waiters
           /\ pool'[q].refreshers = pool[q].refreshers /\ pool'[q].locked = pool[q].locked
           /\ pool'[q].generation = pool[q].generation /\ pool'[q].storage = pool[q].storage
  BY <1>1, <1>2
<1>4. Home \in [Tasks -> Processes]
  BY LeaseAssumption
<1>5. Typing'
  BY <1>1, <1>3, Types DEF Typing, Labels, Objects, Renewals
<1>6. CountsInv'
  <2>1. \A q \in Processes : /\ Sharers(q)' = Sharers(q) /\ Counted(q)' = Counted(q)
                            /\ Renewing(q)' = Renewing(q)
    BY <1>1 DEF Sharers, Counted, Renewing
  <2>2. QED
    BY <1>3, <2>1 DEF IInv, CountsInv
<1>7. OwnerInv'
  BY <1>1, <1>3, <1>4 DEF IInv, OwnerInv, Account
<1>8. FileInv'
  BY <1>1, <1>3, <1>4 DEF IInv, FileInv, Account, Coherent
<1>9. RenewInv' /\ OrphanInv' /\ DirectoryInv'
  BY <1>1, <1>3, <1>4 DEF IInv, RenewInv, OrphanInv, DirectoryInv, Leased, Account
<1>10. QED
  BY <1>5, <1>6, <1>7, <1>8, <1>9 DEF IInv

(* A crash leaves nothing of its process, and everything of the others.     *)
LEMMA CrashKeeps == ASSUME IInv, NEW p \in Processes, Crash(p) PROVE IInv'
<1> DEFINE fresh == IF directory' THEN NewAccount ELSE NoAccount
<1>1. /\ pc \in [Tasks -> Labels] /\ renew \in [Tasks -> Renewals]
      /\ leaseLogin \in [Tasks -> Nat] /\ orphans \subseteq Tasks
      /\ pool \in [Processes -> Objects]
      /\ file \in Processes \cup {None} /\ directory \in BOOLEAN
      /\ Home \in [Tasks -> Processes] /\ None \notin Processes
  BY Types
<1>2. /\ fresh \in Objects /\ fresh.active = 0 /\ fresh.exclusive = FALSE
      /\ fresh.waiters = 0 /\ fresh.refreshers = 0 /\ fresh.locked = FALSE
      /\ fresh.storage = None
  BY DEF NoAccount, NewAccount, Objects
<1>3. pool' = [pool EXCEPT ![p] = fresh]
  BY DEF Crash
<1> HIDE DEF fresh
<1>4. /\ pc' = [t \in Tasks |-> IF Home[t] = p THEN "idle" ELSE pc[t]]
      /\ renew' = [t \in Tasks |-> IF Home[t] = p THEN "none" ELSE renew[t]]
      /\ leaseLogin' = [t \in Tasks |-> IF Home[t] = p THEN 0 ELSE leaseLogin[t]]
      /\ orphans' \subseteq Tasks
      /\ \A t \in Tasks : t \in orphans' <=> t \in orphans /\ Home[t] # p
      /\ file' = IF file = p THEN None ELSE file
  BY <1>1 DEF Crash
<1>5. /\ directory' \in BOOLEAN
      /\ directory /\ ~directory' => \E t \in Tasks : Home[t] = p /\ pc[t] = "deleting"
  BY <1>1 DEF Crash
<1>6. /\ \A t \in Tasks :
           IF Home[t] = p THEN pc'[t] = "idle" /\ renew'[t] = "none"
           ELSE pc'[t] = pc[t] /\ renew'[t] = renew[t] /\ leaseLogin'[t] = leaseLogin[t]
      /\ \A q \in Processes : q # p => pool'[q] = pool[q] /\ (file' = q <=> file = q)
      /\ pool'[p] = fresh /\ file' # p
  BY <1>1, <1>3, <1>4
<1>7. Typing'
  <2>1. /\ pc' \in [Tasks -> Labels] /\ renew' \in [Tasks -> Renewals]
        /\ leaseLogin' \in [Tasks -> Nat] /\ pool' \in [Processes -> Objects]
        /\ file' \in Processes \cup {None}
    BY <1>1, <1>2, <1>3, <1>4 DEF Labels, Renewals
  <2>2. QED
    BY <1>4, <1>5, <2>1 DEF Typing, Labels, Objects, Renewals
<1>8. CountsInv'
  <2>1. ASSUME NEW q \in Processes, q # p
        PROVE  /\ Sharers(q)' = Sharers(q) /\ Counted(q)' = Counted(q)
               /\ Renewing(q)' = Renewing(q)
    BY <1>4, <1>6, <2>1 DEF Sharers, Counted, Renewing
  <2>2. Sharers(p)' = {} /\ Counted(p)' = {} /\ Renewing(p)' = {}
    BY <1>6 DEF Sharers, Counted, Renewing, Shared, AskingLabels
  <2>3. QED
    BY <1>2, <1>6, <2>1, <2>2, FS_EmptySet DEF IInv, CountsInv
<1>9. OwnerInv'
  <2>1. ASSUME NEW t \in Tasks, pc'[t] \in Owning \/ pc'[t] \in {"leaving", "leavingStale"}
        PROVE  Home[t] # p /\ pc'[t] = pc[t]
    BY <1>6, <2>1 DEF Owning, Holding, RemovingLabels
  <2>2. RemovingLabels \subseteq Owning
    BY DEF Owning
  <2>3. QED
    BY <1>1, <1>2, <1>6, <2>1, <2>2 DEF IInv, OwnerInv, Account
<1>10. FileInv'
  <2>1. ASSUME NEW t \in Tasks, pc'[t] # "idle"
        PROVE  Home[t] # p /\ pc'[t] = pc[t] /\ pool'[Home[t]] = pool[Home[t]]
    BY <1>1, <1>6, <2>1
  <2>2. FileInv
    BY DEF IInv
  <2>3. \A q \in Processes : Coherent(pool'[q])
    BY <1>2, <1>6, <2>2 DEF FileInv, Coherent
  <2>4. \A q \in Processes : pool'[q].locked => file' = q
    BY <1>2, <1>6, <2>2 DEF FileInv
  <2>5. \A t \in Tasks :
          /\ pc'[t] \in Holding => pool'[Home[t]].locked
          /\ pc'[t] \in {"forgetting", "keeping"} => ~pool'[Home[t]].locked
          /\ pc'[t] \in Apart => file' = Home[t] /\ ~pool'[Home[t]].locked
    BY <1>1, <1>6, <2>1, <2>2 DEF FileInv, Account, Holding, Apart
  <2>6. \A t, u \in Tasks : pc'[t] \in Apart /\ pc'[u] \in Apart => t = u
    BY <2>1, <2>2 DEF FileInv, Apart
  <2>7. \A q \in Processes :
          file' = q /\ ~pool'[q].locked => \E t \in Tasks : Home[t] = q /\ pc'[t] \in Apart
    BY <1>6, <2>2 DEF FileInv
  <2>8. ~RenewalOutlives =>
          \A q \in Processes : pool'[q].locked =>
            pool'[q].active > 0 \/ \E t \in Tasks : Home[t] = q /\ pc'[t] \in Holding
    BY <1>2, <1>6, <2>2 DEF FileInv
  <2>9. QED
    BY <2>3, <2>4, <2>5, <2>6, <2>7, <2>8 DEF FileInv, Account
<1>11. RenewInv'
  <2>1. ASSUME NEW q \in Processes, q # p, pool[q].storage # None
        PROVE  /\ pool[q].storage \in Tasks /\ Home[pool[q].storage] = q
               /\ renew'[pool[q].storage] = "renewing"
    BY <1>1, <1>6, <2>1 DEF IInv, RenewInv, Objects
  <2>2. QED
    BY <1>1, <1>2, <1>6, <2>1 DEF IInv, RenewInv, Leased, Account
<1>12. OrphanInv'
  BY <1>4, <1>6 DEF IInv, OrphanInv
<1>13. DirectoryInv'
  <2>1. SUFFICES ASSUME NEW t \in Tasks, pc'[t] \in {"sharing", "exclusive"}, ~directory'
                 PROVE  FALSE
    BY <1>5 DEF DirectoryInv
  <2>2. Home[t] # p /\ pc[t] \in {"sharing", "exclusive"} /\ directory
    BY <1>6, <2>1 DEF IInv, DirectoryInv
  <2>3. PICK u \in Tasks : Home[u] = p /\ pc[u] = "deleting"
    BY <1>5, <2>1, <2>2
  <2>4. file = Home[t] /\ file = Home[u]
    BY <2>2, <2>3, HolderFacts DEF Shared, Holding, Apart
  <2>5. QED
    BY <2>2, <2>3, <2>4
<1>14. QED
  BY <1>7, <1>8, <1>9, <1>10, <1>11, <1>12, <1>13 DEF IInv

-----------------------------------------------------------------------------
(* The invariant holds of every behaviour.                                  *)

LEMMA InitInv == Init => IInv
<1> SUFFICES ASSUME Init PROVE IInv
  OBVIOUS
<1>1. /\ pc = [t \in Tasks |-> "idle"] /\ renew = [t \in Tasks |-> "none"]
      /\ leaseLogin = [t \in Tasks |-> 0] /\ orphans = {}
      /\ pool = [p \in Processes |-> NewAccount] /\ file = None /\ directory = TRUE
  BY DEF Init
<1>2. Home \in [Tasks -> Processes] /\ None \notin Processes
  BY LeaseAssumption
<1>3. /\ NewAccount \in Objects /\ NewAccount.active = 0 /\ NewAccount.exclusive = FALSE
      /\ NewAccount.waiters = 0 /\ NewAccount.refreshers = 0 /\ NewAccount.locked = FALSE
      /\ NewAccount.storage = None
  BY DEF NewAccount, Objects
<1>4. Typing
  <2>1. /\ pc \in [Tasks -> Labels] /\ renew \in [Tasks -> Renewals]
        /\ leaseLogin \in [Tasks -> Nat] /\ pool \in [Processes -> Objects]
    BY <1>1, <1>3 DEF Labels, Renewals
  <2>2. QED
    BY <1>1, <2>1 DEF Typing, Labels, Objects, Renewals
<1>5. CountsInv
  <2>1. \A p \in Processes : Sharers(p) = {} /\ Counted(p) = {} /\ Renewing(p) = {}
    BY <1>1 DEF Sharers, Counted, Renewing, Shared, AskingLabels
  <2>2. QED
    BY <1>1, <1>3, <2>1, FS_EmptySet DEF CountsInv
<1>6. OwnerInv
  BY <1>1, <1>2, <1>3 DEF OwnerInv, Owning, Holding, RemovingLabels, Account
<1>7. FileInv
  BY <1>1, <1>2, <1>3 DEF FileInv, Coherent, Holding, Apart, Account
<1>8. RenewInv /\ OrphanInv /\ DirectoryInv
  BY <1>1, <1>3 DEF RenewInv, OrphanInv, DirectoryInv
<1>9. QED
  BY <1>4, <1>5, <1>6, <1>7, <1>8 DEF IInv

LEMMA NextInv == IInv /\ [Next]_vars => IInv'
<1> SUFFICES ASSUME IInv, [Next]_vars PROVE IInv'
  OBVIOUS
<1>1. CASE UNCHANGED vars \/ Collect
  BY <1>1, Unmoved DEF vars, Collect
<1>2. ASSUME NEW t \in Tasks, Begins(t) PROVE IInv'
  BY <1>2, TryAcquireKeeps, FindMissingKeeps, WaitKeeps, BeginRemoveKeeps, BeginAddKeeps DEF Begins
<1>3. ASSUME NEW t \in Tasks, Proceeds(t) PROVE IInv'
  BY <1>3, ValidateKeeps, MarkStaleKeeps, ReleaseSharedKeeps, ReleaseExclusiveKeeps,
     RefreshStorageStateKeeps, RefreshCommitsKeeps, EndAuthRefreshKeeps, GiveUpKeeps,
     OpenExclusiveKeeps, LeaveExclusiveKeeps, RemoveLocksKeeps, RemoveDeletesKeeps,
     RemoveEndsKeeps, AddKeeps, EndPublishKeeps
     DEF Proceeds, Releases, WaitedInVain
<1>4. ASSUME NEW t \in Tasks, BeginAuthRefresh(t) \/ AcquireExclusive(t) \/ GiveUp(t) PROVE IInv'
  BY <1>4, BeginAuthRefreshKeeps, AcquireExclusiveKeeps, GiveUpKeeps
<1>5. ASSUME NEW p \in Processes, Crash(p) \/ SetCatalog(p) PROVE IInv'
  BY <1>5, CrashKeeps, SetCatalogKeeps
<1>6. QED
  BY <1>1, <1>2, <1>3, <1>4, <1>5 DEF Next

THEOREM Invariance == Spec => []IInv
<1>1. QED
  BY InitInv, NextInv, PTL DEF Spec

(* Only a process whose unlock fails leaves a lock behind.                  *)
LEMMA LeakedTyped ==
  ASSUME IInv, leaked \in Processes \cup {None}, [Next]_vars
  PROVE  leaked' \in Processes \cup {None}
<1>1. CASE UNCHANGED vars \/ Collect
  BY <1>1 DEF vars, Collect
<1>2. ASSUME NEW t \in Tasks,
             Begins(t) \/ Proceeds(t) \/ BeginAuthRefresh(t) \/ AcquireExclusive(t) \/ GiveUp(t)
      PROVE  leaked' \in Processes \cup {None}
  <2>1. leaked' = leaked \/ Unlock(Home[t])
    <3>1. CASE Begins(t) \/ BeginAuthRefresh(t) \/ AcquireExclusive(t) \/ GiveUp(t)
      BY <3>1 DEF Begins, TryAcquire, FindMissing, Wait, BeginRemove, BeginAdd, BeginAuthRefresh,
                  AcquireExclusive, GiveUp, TryLock
    <3>2. CASE Validate(t) \/ MarkStale(t) \/ Releases(t) \/ OpenExclusive(t) \/ LeaveExclusive(t)
      BY <3>2 DEF Validate, MarkStale, Releases, ReleaseShared, ReleaseExclusive, OpenExclusive,
                  LeaveExclusive, ReleaseLease
    <3>3. CASE \/ RefreshStorageState(t) \/ RefreshCommits(t) \/ EndAuthRefresh(t) \/ WaitedInVain(t)
               \/ RemoveLocks(t) \/ RemoveDeletes(t) \/ RemoveEnds(t) \/ Add(t) \/ EndPublish(t)
      BY <3>3 DEF RefreshStorageState, RefreshCommits, EndAuthRefresh, WaitedInVain, GiveUp,
                  RemoveLocks, RemoveDeletes, RemoveEnds, Add, EndPublish, TryLock
    <3>4. QED
      BY <1>2, <3>1, <3>2, <3>3 DEF Proceeds
  <2>2. QED
    BY <2>1, Types DEF Unlock
<1>3. ASSUME NEW p \in Processes, Crash(p) \/ SetCatalog(p)
      PROVE  leaked' \in Processes \cup {None}
  BY <1>3 DEF Crash, SetCatalog
<1>4. QED
  BY <1>1, <1>2, <1>3 DEF Next

(* Every variable keeps its type; in particular no counter of an Account    *)
(* object is ever decremented below zero, whatever is removed, re-created   *)
(* and given up meanwhile (active, waiters and refreshers in accounts.go).  *)
THEOREM TypeCorrect == Spec => []TypeOK
<1> DEFINE L == leaked \in Processes \cup {None}
<1>1. Init => L
  BY DEF Init
<1>2. IInv /\ L /\ [Next]_vars => L'
  BY LeakedTyped
<1>3. IInv /\ L => TypeOK
  BY DEF IInv, Typing, TypeOK, Labels, Objects
<1>4. QED
  BY <1>1, <1>2, <1>3, Invariance, PTL DEF Spec

(* refreshAndValidateLease and AcquireAccount: while a validated lease      *)
(* lasts, no Remove of any process deletes the account's directory, nor     *)
(* takes the account from the pool.                                         *)
THEOREM DirectoryHeld == Spec => []DirectoryKept
<1>1. IInv => DirectoryKept
  <2>1. SUFFICES ASSUME IInv, NEW t \in Tasks, pc[t] \in {"sharing", "exclusive"}
                 PROVE  directory /\ Account(t).registered
    BY DEF DirectoryKept
  <2>2. directory
    BY <2>1 DEF IInv, DirectoryInv
  <2>3. Account(t).active > 0 \/ Account(t).exclusive
    BY <2>1, CountFacts, HolderFacts DEF Shared, Holding
  <2>4. Coherent(Account(t))
    BY <2>1, HolderFacts
  <2>5. QED
    BY <2>2, <2>3, <2>4 DEF Coherent
<1>2. QED
  BY <1>1, Invariance, PTL

(* lockLease, Release and BeginAuthRefresh: whoever uses the account     *)
(* does so under the lock file of its own process, also a renewal that      *)
(* outlives its lease: no two processes ever use an account at a time.       *)
UsersHaveFile == \A t \in Tasks : UsesAccount(t) => file = Home[t]
THEOREM UnderFile == Spec => []UsersHaveFile
<1>1. IInv => UsersHaveFile
  <2>1. SUFFICES ASSUME IInv, NEW t \in Tasks, UsesAccount(t) PROVE file = Home[t]
    BY DEF UsersHaveFile
  <2>2. CASE pc[t] \in Shared \cup Exclusive
    <3>1. pc[t] \in Shared \cup Holding \cup Apart
      BY <2>2 DEF Exclusive, Holding, Apart
    <3>2. QED
      BY <2>1, <3>1, HolderFacts
  <2>3. CASE renew[t] # "none" /\ pc[t] \notin Shared \cup Exclusive
    <3>1. Account(t).refreshers > 0
      BY <2>1, <2>3, CountFacts DEF Exclusive
    <3>2. Account(t).locked
      BY <2>1, <3>1, HolderFacts DEF Coherent
    <3>3. QED
      BY <2>1, <3>2, HolderFacts
  <2>4. QED
    BY <2>1, <2>2, <2>3 DEF UsesAccount
<1>2. QED
  BY <1>1, Invariance, PTL

(* lockLease and AccountLease.Release: a process has the lock file exactly  *)
(* as long as some goroutine of it uses the account, provided that no       *)
(* renewal outlives its lease.                                              *)
THEOREM FileExact == ASSUME ~RenewalOutlives PROVE Spec => []LeaseFileExact
<1>1. IInv => LeaseFileExact
  <2>1. SUFFICES ASSUME IInv, NEW p \in Processes
                 PROVE  file = p <=> \E t \in Tasks : Home[t] = p /\ UsesAccount(t)
    BY DEF LeaseFileExact
  <2>2. ASSUME NEW t \in Tasks, Home[t] = p, UsesAccount(t)
        PROVE  file = p
    <3>1. pc[t] \in Shared \cup Exclusive
      BY <2>1, <2>2 DEF UsesAccount, IInv, RenewInv, Leased, Shared, Exclusive
    <3>2. pc[t] \in Shared \cup Holding \cup Apart
      BY <3>1 DEF Exclusive, Holding, Apart
    <3>3. QED
      BY <2>1, <2>2, <3>2, HolderFacts
  <2>3. ASSUME file = p
        PROVE  \E t \in Tasks : Home[t] = p /\ pc[t] \in Shared \cup Exclusive
    <3>1. CASE ~pool[p].locked
      BY <2>1, <2>3, <3>1 DEF IInv, FileInv, Apart, Exclusive
    <3>2. CASE pool[p].locked /\ pool[p].active > 0
      <4>1. Cardinality(Sharers(p)) > 0 /\ Sharers(p) \in SUBSET Tasks
        BY <2>1, <3>2 DEF IInv, CountsInv, Sharers
      <4>2. PICK t \in Sharers(p) : TRUE
        BY <4>1, NoneCounted
      <4>3. QED
        BY <4>2 DEF Sharers
    <3>3. CASE pool[p].locked /\ ~(pool[p].active > 0)
      BY <2>1, <3>3 DEF IInv, FileInv, Holding, Exclusive
    <3>4. QED
      BY <3>1, <3>2, <3>3
  <2>4. QED
    BY <2>2, <2>3 DEF UsesAccount
<1>2. QED
  BY <1>1, Invariance, PTL

(* RefreshStorageState: the login that a renewal replaces is the one its    *)
(* lease began with, for storageMu and the counted generations keep every   *)
(* other renewal of the process out between the comparison and the commit.  *)
THEOREM RenewalOnce == Spec => RenewedOnce
<1>1. IInv /\ [Next]_vars =>
        [\A t \in Tasks :
           /\ renew[t] = "renewing" /\ renew'[t] = "ended"
           /\ pool'[Home[t]].generation # Account(t).generation
           => leaseLogin[t] = Account(t).generation]_vars
  BY DEF IInv, RenewInv
<1>2. QED
  BY <1>1, Invariance, PTL DEF Spec, RenewedOnce

-----------------------------------------------------------------------------
(* The refinement.                                                          *)

(* What the guards of an action say of a task that comes to hold a lease.   *)
Enters(t, l) ==
  /\ pc' = [pc EXCEPT ![t] = l]
  /\ l \in Shared => \/ pc[t] \in Shared
                     \/ /\ pc[t] \notin Exclusive /\ ~Account(t).exclusive
                        /\ Account(t).active < Limit
                        /\ Account(t).active = 0 => file = None
  /\ l \in Exclusive => pc[t] \in Exclusive \/ (pc[t] \notin Shared /\ file = None)

(* A holder of any kind of lease has the file.                              *)
LEMMA HolderFile ==
  ASSUME IInv, NEW t \in Tasks, pc[t] \in Shared \cup Exclusive
  PROVE  file = Home[t] /\ file # None
<1>1. pc[t] \in Shared \cup Holding \cup Apart
  BY DEF Exclusive, Holding, Apart
<1>2. file = Home[t]
  BY <1>1, HolderFacts
<1>3. QED
  BY <1>2, Types

LEMMA LockStep ==
  ASSUME IInv, NEW t \in Tasks, NEW l, Enters(t, l)
  PROVE  [Lock!Next]_<<{u \in Tasks : pc[u] \in Shared}, {u \in Tasks : pc[u] \in Exclusive}>>
<1> DEFINE R == {u \in Tasks : pc[u] \in Shared} W == {u \in Tasks : pc[u] \in Exclusive}
<1>1. Shared \cap Exclusive = {}
  BY DEF Shared, Exclusive
<1>2. pc'[t] = l /\ \A u \in Tasks : u # t => pc'[u] = pc[u]
  BY Types DEF Enters
<1>3. CASE l \in Shared /\ pc[t] \notin Shared
  <2>1. /\ pc[t] \notin Exclusive /\ ~Account(t).exclusive /\ Account(t).active < Limit
        /\ Account(t).active = 0 => file = None
    BY <1>3 DEF Enters
  <2>2. t \notin R /\ R' = R \cup {t} /\ W' = W
    BY <1>1, <1>2, <1>3, <2>1
  <2>3. Home[t] \in Processes /\ Account(t) \in Objects /\ Account(t).active = Cardinality(Sharers(Home[t]))
    BY Types DEF IInv, CountsInv, Account
  <2>4. ASSUME NEW u \in Tasks, pc[u] \in Shared \cup Exclusive
        PROVE  Home[u] = Home[t] /\ pc[u] \in Shared
    <3>1. file = Home[u] /\ file # None
      BY <2>4, HolderFile
    <3>2. Account(t).active > 0
      BY <2>1, <2>3, <3>1 DEF Objects
    <3>3. Account(t).locked /\ file = Home[t]
      BY <2>3, <3>2, HolderFacts DEF Coherent
    <3>4. pc[u] \notin Holding /\ pc[u] \notin Apart
      BY <2>1, <3>1, <3>3, HolderFacts DEF Account
    <3>5. QED
      BY <2>4, <3>1, <3>3, <3>4 DEF Exclusive, Holding, Apart
  <2>5. W = {} /\ \A u \in R : Home[u] = Home[t]
    BY <1>1, <2>4
  <2>6. R = Sharers(Home[t]) \/ R = {}
    BY <2>4 DEF Sharers
  <2>7. Cardinality(R) < Limit
    BY <2>1, <2>3, <2>6, FS_EmptySet, LeaseAssumption
  <2>8. Lock!Read(t)
    <3>1. Lock!Cardinality(R) = Cardinality(R)
      BY DEF Lock!Cardinality, Cardinality
    <3>2. QED
      BY <3>1, <2>2, <2>5, <2>7 DEF Lock!Read
  <2>9. QED
    BY <2>8 DEF Lock!Next
<1>4. CASE l \in Exclusive /\ pc[t] \notin Exclusive
  <2>1. pc[t] \notin Shared /\ file = None
    BY <1>4 DEF Enters
  <2>2. R = {} /\ W = {}
    BY <2>1, HolderFile
  <2>3. W' = {t} /\ R' = R
    BY <1>1, <1>2, <1>4, <2>1, <2>2
  <2>4. Lock!Write(t)
    BY <2>2, <2>3 DEF Lock!Write
  <2>5. QED
    BY <2>4 DEF Lock!Next
<1>5. CASE pc[t] \in Shared \cup Exclusive /\ l \notin Shared \cup Exclusive
  <2>1. t \in R \cup W /\ R' = R \ {t} /\ W' = W \ {t}
    BY <1>2, <1>5
  <2>2. Lock!Leave(t)
    BY <2>1 DEF Lock!Leave
  <2>3. QED
    BY <2>2 DEF Lock!Next
<1>6. CASE (l \in Shared <=> pc[t] \in Shared) /\ (l \in Exclusive <=> pc[t] \in Exclusive)
  <2>1. R' = R /\ W' = W
    BY <1>2, <1>6
  <2>2. QED
    BY <2>1
<1>7. QED
  BY <1>1, <1>3, <1>4, <1>5, <1>6 DEF Enters

LEMMA Guards ==
  ASSUME IInv, NEW t \in Tasks,
         Begins(t) \/ Proceeds(t) \/ BeginAuthRefresh(t) \/ AcquireExclusive(t) \/ GiveUp(t)
  PROVE  \E l \in Labels : Enters(t, l)
<1>1. pc \in [Tasks -> Labels]
  BY Types
<1> USE DEF Enters, Goto, Labels, Shared, Exclusive
<1>2. ASSUME UNCHANGED pc
      PROVE  \E l \in Labels : Enters(t, l)
  <2>1. pc[t] \in Labels /\ Enters(t, pc[t])
    BY <1>1, <1>2
  <2>2. QED
    BY <2>1
<1>3. ASSUME NEW l \in Labels \ (Shared \cup Exclusive), Goto(t, l)
      PROVE  \E m \in Labels : Enters(t, m)
  BY <1>3
<1>4. CASE TryAcquire(t)
  <2> DEFINE l == IF Account(t).active = 0 THEN "validating" ELSE "joined"
  <2>1. l \in Labels /\ Enters(t, l)
    BY <1>4 DEF TryAcquire, FreeForSharing, TryLock, FileFree
  <2>2. QED
    BY <2>1
<1>5. CASE AcquireExclusive(t)
  BY <1>5 DEF AcquireExclusive, TryLock, FileFree
<1>6. CASE BeginAdd(t)
  BY <1>2, <1>6 DEF BeginAdd, TryLock, FileFree
<1>7. CASE RemoveLocks(t)
  BY <1>3, <1>7 DEF RemoveLocks, TryLock, FileFree
<1>8. CASE Validate(t)
  BY <1>3, <1>8 DEF Validate, Failures
<1>9. CASE OpenExclusive(t)
  <2>1. CASE Goto(t, "exclusive")
    BY <1>9, <2>1 DEF OpenExclusive
  <2>2. ASSUME NEW label \in Failures, Goto(t, IF t \in orphans THEN label ELSE Leaving(label))
        PROVE  \E l \in Labels : Enters(t, l)
    <3> DEFINE l == IF t \in orphans THEN label ELSE Leaving(label)
    <3>1. l \in Labels \ (Shared \cup Exclusive) /\ Goto(t, l)
      BY <2>2 DEF Failures, Leaving
    <3> HIDE DEF l
    <3>2. QED
      BY <1>3, <3>1
  <2>3. QED
    BY <1>9, <2>1, <2>2 DEF OpenExclusive
<1>10. CASE RemoveDeletes(t)
  BY <1>3, <1>10 DEF RemoveDeletes
<1>11. CASE Add(t)
  BY <1>3, <1>11 DEF Add
<1>12. CASE FindMissing(t) \/ Wait(t) \/ BeginRemove(t) \/ MarkStale(t) \/ Releases(t)
  BY <1>3, <1>12 DEF FindMissing, Wait, BeginRemove, MarkStale, Releases, ReleaseShared,
                     ReleaseExclusive
<1>13. CASE WaitedInVain(t) \/ GiveUp(t) \/ LeaveExclusive(t) \/ RemoveEnds(t) \/ EndPublish(t)
  BY <1>3, <1>13 DEF WaitedInVain, GiveUp, LeaveExclusive, RemoveEnds, EndPublish
<1>14. CASE BeginAuthRefresh(t) \/ RefreshStorageState(t) \/ RefreshCommits(t) \/ EndAuthRefresh(t)
  BY <1>2, <1>14 DEF BeginAuthRefresh, RefreshStorageState, RefreshCommits, EndAuthRefresh
<1>15. QED
  BY <1>4, <1>5, <1>6, <1>7, <1>8, <1>9, <1>10, <1>11, <1>12, <1>13, <1>14 DEF Begins, Proceeds

(* accounts.go as a whole: whatever requests, operations, renewals,         *)
(* removals, re-creations and crashes there are, the goroutines of all      *)
(* processes hold the account as under one readers-writer lock: at most     *)
(* PER_ACCOUNT_CONCURRENCY requests, of one process, or one operation.      *)
THEOREM LeaseLockHeld == Spec => LeaseLockImplemented
<1> DEFINE R == {t \in Tasks : pc[t] \in Shared} W == {t \in Tasks : pc[t] \in Exclusive}
<1>1. Init => Lock!Init
  BY DEF Init, Lock!Init, Shared, Exclusive
<1>2. IInv /\ [Next]_vars => [Lock!Next]_<<R, W>>
  <2> SUFFICES ASSUME IInv, [Next]_vars PROVE [Lock!Next]_<<R, W>>
    OBVIOUS
  <2>1. CASE UNCHANGED pc
    <3>1. R' = R /\ W' = W
      BY <2>1
    <3>2. QED
      BY <3>1
  <2>2. ASSUME NEW t \in Tasks,
               Begins(t) \/ Proceeds(t) \/ BeginAuthRefresh(t) \/ AcquireExclusive(t) \/ GiveUp(t)
        PROVE  [Lock!Next]_<<R, W>>
    BY <2>2, Guards, LockStep
  <2>3. ASSUME NEW p \in Processes, Crash(p)
        PROVE  [Lock!Next]_<<R, W>>
    <3>1. pc' = [t \in Tasks |-> IF Home[t] = p THEN "idle" ELSE pc[t]]
      BY <2>3 DEF Crash
    <3>2. R' = {t \in R : Home[t] # p} /\ W' = {t \in W : Home[t] # p}
      BY <3>1 DEF Shared, Exclusive
    <3>3. Lock!Crash(p)
      BY <3>2 DEF Lock!Crash
    <3>4. QED
      BY <3>3 DEF Lock!Next
  <2>4. QED
    BY <2>1, <2>2, <2>3 DEF Next, SetCatalog, Collect, vars
<1>3. QED
  BY <1>1, <1>2, Invariance, PTL DEF Spec, LeaseLockImplemented, Lock!Spec
=============================================================================
