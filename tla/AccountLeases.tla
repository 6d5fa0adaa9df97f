---------------------------- MODULE AccountLeases ----------------------------
(***************************************************************************)
(* The leases of one account in the AccountPools of several processes       *)
(* (internal/aistudio/accounts.go): shared leases of requests, exclusive    *)
(* leases of account operations, the removal and creation of the account,   *)
(* and the renewal of its login beside the requests that use it.            *)
(*                                                                         *)
(* Each process counts its leases in its Account object under pool.mu, so a *)
(* stretch of code under pool.mu is one step; between processes stands the  *)
(* lock file of the account, which the first lease of a process takes and   *)
(* its last one releases.                                                   *)
(***************************************************************************)
EXTENDS Naturals, FiniteSets

CONSTANTS
  Processes,
  Tasks,             (* goroutines                                         *)
  Home,              (* the process of each task                           *)
  None,
  Limit,             (* PER_ACCOUNT_CONCURRENCY                            *)
  UnlockMayFail,     (* the unlock of the lock file may fail                *)
  RenewalOutlives,   (* a renewal may be running in a second goroutine of  *)
                     (* its request, which is not waited for               *)
  MaxGeneration      (* bound: login renewals per process                  *)

ASSUME LeaseAssumption ==
  /\ IsFiniteSet(Tasks) /\ Home \in [Tasks -> Processes]
  /\ None \notin Processes \cup Tasks
  /\ Limit \in Nat \ {0} /\ MaxGeneration \in Nat
  /\ UnlockMayFail \in BOOLEAN /\ RenewalOutlives \in BOOLEAN

VARIABLES
  pc,          (* per task: the lease it holds or asks for                 *)
  renew,       (* per task: its AuthRefresher, see BeginAuthRefresh        *)
  leaseLogin,  (* per task: authGeneration of its lease                    *)
  orphans,     (* tasks that refer to an Account object that was removed   *)
  pool,        (* per process: its Account object and whether byID has it  *)
  file,        (* the process that holds the flock of .leases/<email>.lock *)
  leaked,      (* the process that has failed to unlock it, and whose flock *)
               (* nobody refers to any more                                *)
  directory    (* the account's directory exists                           *)

vars == <<pc, renew, leaseLogin, orphans, pool, file, leaked, directory>>

(* active, exclusive, waiters, refreshers, locked, generation: the fields   *)
(* of Account (locked: leaseLock is not nil); ready: State is not           *)
(* AccountUnavailable, the one state a lease's validation sets; storage:    *)
(* the task inside storageMu.                                               *)
NewAccount ==
  [registered |-> TRUE, ready |-> TRUE, active |-> 0, exclusive |-> FALSE,
   waiters |-> 0, refreshers |-> 0, locked |-> FALSE, generation |-> 0,
   storage |-> None]

NoAccount == [NewAccount EXCEPT !.registered = FALSE]

Init ==
  /\ pc = [t \in Tasks |-> "idle"]
  /\ renew = [t \in Tasks |-> "none"]
  /\ leaseLogin = [t \in Tasks |-> 0]
  /\ orphans = {}
  /\ pool = [p \in Processes |-> NewAccount]
  /\ file = None
  /\ leaked = None
  /\ directory = TRUE

-----------------------------------------------------------------------------
(* Steps under pool.mu, as functions of the Account object.                 *)

Goto(t, label) == pc' = [pc EXCEPT ![t] = label]
Account(t) == pool[Home[t]]
SetAccount(t, account) == pool' = [pool EXCEPT ![Home[t]] = account]

(* flock's TryLock and Unlock.  A lease gives up its reference to the lock, *)
(* and removal and creation theirs, even when the unlock fails: the file    *)
(* then stays locked for every process, this one included.                  *)
FileFree == file = None /\ leaked = None
TryLock(p) == FileFree /\ file' = p /\ leaked' = leaked
Unlock(p) == file' = None /\ leaked' \in {leaked} \cup {q \in {p} : UnlockMayFail}

(* The garbage collector closes a file that nobody refers to, some time.    *)
Collect ==
  /\ leaked # None /\ leaked' = None
  /\ UNCHANGED <<pc, renew, leaseLogin, orphans, pool, file, directory>>

ReleasedEarly(account) ==
  IF ~account.exclusive THEN [account EXCEPT !.locked = FALSE] ELSE account

(* AccountLease.Release: the last lease gives the file back, or reports     *)
(* that it could not.                                                       *)
Released(account) ==
  IF account.active = 0 /\ ~account.exclusive /\ account.refreshers = 0
  THEN [account EXCEPT !.locked = FALSE] ELSE account

ReleaseLease(t, account) ==
  /\ SetAccount(t, Released(account))
  /\ IF account.locked /\ ~Released(account).locked
     THEN Unlock(Home[t]) ELSE UNCHANGED <<file, leaked>>
  /\ leaseLogin' = [leaseLogin EXCEPT ![t] = 0]

DropShared(account) ==
  [account EXCEPT !.active = IF @ > 0 THEN @ - 1 ELSE 0]
DropExclusive(account) == [account EXCEPT !.exclusive = FALSE]

-----------------------------------------------------------------------------
(* TryAcquireFor, AcquireFor: a shared lease.                               *)

FreeForSharingPastWaiters(account) ==
  /\ account.registered /\ account.ready
  /\ ~account.exclusive /\ account.refreshers = 0
  /\ account.active < Limit

FreeForSharing(account) ==
  /\ account.registered /\ account.ready
  /\ ~account.exclusive /\ account.waiters = 0 /\ account.refreshers = 0
  /\ account.active < Limit

(* The first lease of the process takes the file and must re-read the       *)
(* account's files (refreshRuntime); a further one relies on the first.     *)
TryAcquireUnchecked(t) ==
  /\ pc[t] = "idle" /\ renew[t] = "none" /\ FreeForSharing(Account(t))
  /\ IF Account(t).active = 0 THEN TryLock(Home[t]) ELSE UNCHANGED <<file, leaked>>
  /\ SetAccount(t, [Account(t) EXCEPT !.active = @ + 1, !.locked = TRUE])
  /\ Goto(t, IF Account(t).active = 0 THEN "sharing" ELSE "joined")
  /\ leaseLogin' = [leaseLogin EXCEPT ![t] = Account(t).generation]
  /\ UNCHANGED <<renew, orphans, directory>>

TryAcquire(t) ==
  /\ pc[t] = "idle" /\ renew[t] = "none" /\ FreeForSharing(Account(t))
  /\ IF Account(t).active = 0
     THEN TryLock(Home[t]) /\ Goto(t, "validating")
     ELSE Goto(t, "joined") /\ UNCHANGED <<file, leaked>>
  /\ SetAccount(t, [Account(t) EXCEPT !.active = @ + 1, !.locked = TRUE])
  /\ leaseLogin' = [leaseLogin EXCEPT ![t] = Account(t).generation]
  /\ UNCHANGED <<renew, orphans, directory>>

(* A validation that fails may have found the account deleted, and then has *)
(* yet to mark it, or has failed for another reason, such as a request that *)
(* was cancelled while it waited for the runtime lock.                      *)
Failures == IF directory THEN {"idle"} ELSE {"idle", "stale"}

(* A lease forgotten when its validation fails.                             *)
ValidateKeepsLease(t) ==
  /\ pc[t] = "validating"
  /\ IF directory
     THEN Goto(t, "sharing") /\ UNCHANGED pool
     ELSE Goto(t, "stale") /\ SetAccount(t, DropShared(Account(t)))
  /\ UNCHANGED <<renew, leaseLogin, orphans, file, leaked, directory>>

(* refreshAndValidateLease: the account's files are there, or the lease is  *)
(* given back.                                                              *)
Validate(t) ==
  /\ pc[t] = "validating"
  /\ \/ /\ directory
        /\ Goto(t, "sharing")
        /\ UNCHANGED <<leaseLogin, pool, file, leaked>>
     \/ /\ \E label \in Failures : Goto(t, label)
        /\ ReleaseLease(t, DropShared(Account(t)))
  /\ UNCHANGED <<renew, orphans, directory>>

(* A runtime state is also read without a lease, to choose among accounts   *)
(* or to update it, and may then find the account deleted.                  *)
FindMissing(t) ==
  /\ pc[t] = "idle" /\ renew[t] = "none"
  /\ Account(t).registered /\ ~directory
  /\ Goto(t, "stale")
  /\ UNCHANGED <<renew, leaseLogin, orphans, pool, file, leaked, directory>>

(* The account this process still has is withdrawn: its files are gone.     *)
MarkStale(t) ==
  /\ pc[t] = "stale"
  /\ Goto(t, "idle")
  /\ SetAccount(t, IF t \in orphans \/ ~Account(t).registered THEN Account(t)
                   ELSE [Account(t) EXCEPT !.ready = FALSE])
  /\ orphans' = orphans \ {t}
  /\ UNCHANGED <<renew, leaseLogin, file, leaked, directory>>

(* A catalogue that arrives for an account whose files are there.           *)
SetCatalog(p) ==
  /\ pool[p].registered /\ ~pool[p].ready /\ directory
  /\ pool' = [pool EXCEPT ![p].ready = TRUE]
  /\ UNCHANGED <<pc, renew, leaseLogin, orphans, file, leaked, directory>>

(* Release waits for the lease's operation mutex, which a renewal holds.    *)
ReleaseShared(t) ==
  /\ pc[t] \in {"sharing", "joined"}
  /\ IF RenewalOutlives THEN renew[t] # "renewing" ELSE renew[t] = "none"
  /\ Goto(t, "idle")
  /\ ReleaseLease(t, DropShared(Account(t)))
  /\ UNCHANGED <<renew, orphans, directory>>

-----------------------------------------------------------------------------
(* The renewal of a login: BeginAuthRefresh opens a window that keeps new   *)
(* leases out, RefreshStorageState runs inside it, and its end closes it.   *)
(* An exclusive lease needs no window.                                      *)
Window(t) == IF pc[t] = "exclusive" THEN 0 ELSE 1
Leased(t) == pc[t] \in {"sharing", "joined", "exclusive"}

BeginAuthRefresh(t) ==
  /\ Leased(t) /\ renew[t] = "none"
  /\ pc[t] = "exclusive" \/ ~Account(t).exclusive
  /\ renew' = [renew EXCEPT ![t] = "window"]
  /\ SetAccount(t, [Account(t) EXCEPT !.refreshers = @ + Window(t)])
  /\ UNCHANGED <<pc, leaseLogin, orphans, file, leaked, directory>>

(* Under storageMu: a released lease is refused, and a login that another   *)
(* request has renewed since this lease began is adopted.                   *)
RefreshUnlocked(t) ==
  /\ renew[t] = "window"
  /\ IF ~Leased(t) \/ leaseLogin[t] # Account(t).generation
     THEN renew' = [renew EXCEPT ![t] = "ended"]
     ELSE renew' = [renew EXCEPT ![t] = "renewing"]
  /\ leaseLogin' = [leaseLogin EXCEPT ![t] = IF Leased(t) THEN Account(t).generation ELSE @]
  /\ UNCHANGED <<pc, orphans, pool, file, leaked, directory>>

RefreshStorageState(t) ==
  /\ renew[t] = "window" /\ Account(t).storage = None
  /\ IF ~Leased(t) \/ leaseLogin[t] # Account(t).generation
     THEN /\ renew' = [renew EXCEPT ![t] = "ended"]
          /\ UNCHANGED pool
     ELSE /\ renew' = [renew EXCEPT ![t] = "renewing"]
          /\ SetAccount(t, [Account(t) EXCEPT !.storage = t])
  /\ leaseLogin' = [leaseLogin EXCEPT ![t] = IF Leased(t) THEN Account(t).generation ELSE @]
  /\ UNCHANGED <<pc, orphans, file, leaked, directory>>

(* The new cookies are saved and the generation counted, or an error.       *)
RefreshCommits(t) ==
  /\ renew[t] = "renewing"
  /\ renew' = [renew EXCEPT ![t] = "ended"]
  /\ \/ /\ Account(t).generation < MaxGeneration
        /\ SetAccount(t, [Account(t) EXCEPT !.generation = @ + 1, !.storage = None])
        /\ leaseLogin' = [leaseLogin EXCEPT ![t] = Account(t).generation + 1]
     \/ /\ SetAccount(t, [Account(t) EXCEPT !.storage = None])
        /\ UNCHANGED leaseLogin
  /\ UNCHANGED <<pc, orphans, file, leaked, directory>>

EndAuthRefresh(t) ==
  /\ renew[t] = "ended"
  /\ renew' = [renew EXCEPT ![t] = "none"]
  /\ SetAccount(t, [Account(t) EXCEPT !.refreshers = IF @ > 0 THEN @ - Window(t) ELSE 0])
  /\ UNCHANGED <<pc, leaseLogin, orphans, file, leaked, directory>>

-----------------------------------------------------------------------------
(* AcquireAccount: an exclusive lease, asked for until the context ends.    *)

Wait(t) ==
  /\ pc[t] = "idle" /\ renew[t] = "none" /\ Account(t).registered
  /\ SetAccount(t, [Account(t) EXCEPT !.waiters = @ + 1])
  /\ Goto(t, "waiting")
  /\ UNCHANGED <<renew, leaseLogin, orphans, file, leaked, directory>>

(* The deferred decrement, on the object the task was counted in.           *)
UncountedInPool(t, account) == [account EXCEPT !.waiters = @ - 1]
Uncounted(t, account) ==
  IF t \in orphans THEN account ELSE [account EXCEPT !.waiters = @ - 1]

GiveUp(t) ==
  /\ pc[t] = "waiting"
  /\ SetAccount(t, Uncounted(t, Account(t)))
  /\ orphans' = orphans \ {t}
  /\ Goto(t, "idle")
  /\ UNCHANGED <<renew, leaseLogin, file, leaked, directory>>

(* The pool has forgotten the account.                                      *)
WaitedInVain(t) == ~Account(t).registered /\ GiveUp(t)

FreeForExclusive(account) ==
  /\ account.registered
  /\ ~account.exclusive /\ account.refreshers = 0 /\ account.active = 0

AcquireExclusive(t) ==
  /\ pc[t] = "waiting" /\ FreeForExclusive(Account(t)) /\ TryLock(Home[t])
  /\ SetAccount(t, [Account(t) EXCEPT !.exclusive = TRUE, !.locked = TRUE])
  /\ Goto(t, "opening")
  /\ leaseLogin' = [leaseLogin EXCEPT ![t] = Account(t).generation]
  /\ UNCHANGED <<renew, orphans, directory>>

(* refreshAccountRuntime inside AcquireAccount.  On an error the lease is    *)
(* released, and a task that is still counted has yet to leave.             *)
Leaving(label) == IF label = "stale" THEN "leavingStale" ELSE "leaving"

OpenExclusive(t) ==
  /\ pc[t] = "opening"
  /\ orphans' = orphans \ {t}
  /\ \/ /\ directory
        /\ Goto(t, "exclusive")
        /\ SetAccount(t, Uncounted(t, Account(t)))
        /\ UNCHANGED <<leaseLogin, file, leaked>>
     \/ /\ \E label \in Failures :
             Goto(t, IF t \in orphans THEN label ELSE Leaving(label))
        /\ ReleaseLease(t, DropExclusive(Account(t)))
  /\ UNCHANGED <<renew, directory>>

(* markStaleAccountUnavailable, and the deferred decrement.                 *)
LeaveExclusive(t) ==
  /\ pc[t] \in {"leaving", "leavingStale"}
  /\ Goto(t, "idle")
  /\ SetAccount(t, [Account(t) EXCEPT !.waiters = @ - 1, !.ready = @ /\ pc[t] = "leaving"])
  /\ UNCHANGED <<renew, leaseLogin, orphans, file, leaked, directory>>

ReleaseExclusive(t) ==
  /\ pc[t] = "exclusive" /\ renew[t] = "none"
  /\ Goto(t, "idle")
  /\ ReleaseLease(t, DropExclusive(Account(t)))
  /\ UNCHANGED <<renew, orphans, directory>>

-----------------------------------------------------------------------------
(* Remove and Add, which lock the file without the Account's leaseLock.     *)

BeginRemove(t) ==
  /\ pc[t] = "idle" /\ renew[t] = "none" /\ Account(t).registered
  /\ ~Account(t).exclusive /\ Account(t).waiters = 0 /\ Account(t).active = 0
  /\ SetAccount(t, [Account(t) EXCEPT !.exclusive = TRUE])
  /\ Goto(t, "removing")
  /\ UNCHANGED <<renew, leaseLogin, orphans, file, leaked, directory>>

(* It gives the file back when it cannot have the runtime lock besides.     *)
RemoveLocks(t) ==
  /\ pc[t] = "removing"
  /\ \/ /\ TryLock(Home[t])
        /\ Goto(t, "deleting")
        /\ UNCHANGED pool
     \/ /\ IF FileFree THEN Unlock(Home[t]) ELSE UNCHANGED <<file, leaked>>
        /\ Goto(t, "idle")
        /\ SetAccount(t, DropExclusive(Account(t)))
  /\ UNCHANGED <<renew, leaseLogin, orphans, directory>>

(* The directory is deleted, or an error, perhaps after some of its files   *)
(* are gone; the file is given back before the pool is brought up to date.  *)
RemoveDeletes(t) ==
  /\ pc[t] = "deleting"
  /\ Unlock(Home[t])
  /\ \/ Goto(t, "forgetting") /\ directory' = FALSE
     \/ Goto(t, "keeping") /\ directory' \in {directory, FALSE}
  /\ UNCHANGED <<renew, leaseLogin, orphans, pool>>

(* Tasks that still refer to an Account object which the pool forgets.      *)
Referring(p) == {t \in Tasks : Home[t] = p /\ pc[t] \in {"waiting", "stale"}}

RemoveEnds(t) ==
  /\ pc[t] \in {"forgetting", "keeping"}
  /\ Goto(t, "idle")
  /\ IF pc[t] = "forgetting"
     THEN /\ SetAccount(t, NoAccount)
          /\ orphans' = orphans \cup Referring(Home[t])
     ELSE /\ SetAccount(t, DropExclusive(Account(t)))
          /\ UNCHANGED orphans
  /\ UNCHANGED <<renew, leaseLogin, file, leaked, directory>>

(* AccountStore.Create: the publish lease and the directory, or an error    *)
(* after which the lease is given back.                                     *)
BeginAdd(t) ==
  /\ pc[t] = "idle" /\ renew[t] = "none"
  /\ \/ ~directory /\ TryLock(Home[t]) /\ directory' = TRUE /\ Goto(t, "publishing")
     \/ FileFree /\ Unlock(Home[t]) /\ UNCHANGED <<pc, directory>>
  /\ UNCHANGED <<renew, leaseLogin, orphans, pool>>

(* AccountPool.Add, refused when the pool still has the account: the new    *)
(* directory is then deleted again, if that does not fail.                  *)
Add(t) ==
  /\ pc[t] = "publishing"
  /\ \/ /\ ~Account(t).registered
        /\ SetAccount(t, NewAccount)
        /\ Goto(t, "published")
        /\ UNCHANGED <<file, leaked, directory>>
     \/ /\ directory' \in {directory, FALSE}
        /\ Unlock(Home[t])
        /\ Goto(t, "idle")
        /\ UNCHANGED pool
  /\ UNCHANGED <<renew, leaseLogin, orphans>>

(* AccountPublishLease.Release.                                             *)
EndPublish(t) ==
  /\ pc[t] = "published"
  /\ Goto(t, "idle")
  /\ Unlock(Home[t])
  /\ UNCHANGED <<renew, leaseLogin, orphans, pool, directory>>

(* The process ends and starts again: the kernel drops its flock, and it    *)
(* loads the accounts it finds.  A deletion under way may have happened.    *)
Crash(p) ==
  LET own == {t \in Tasks : Home[t] = p} IN
  /\ \/ UNCHANGED directory
     \/ (\E t \in own : pc[t] = "deleting") /\ directory' = FALSE
  /\ pc' = [t \in Tasks |-> IF t \in own THEN "idle" ELSE pc[t]]
  /\ renew' = [t \in Tasks |-> IF t \in own THEN "none" ELSE renew[t]]
  /\ leaseLogin' = [t \in Tasks |-> IF t \in own THEN 0 ELSE leaseLogin[t]]
  /\ orphans' = orphans \ own
  /\ pool' = [pool EXCEPT ![p] = IF directory' THEN NewAccount ELSE NoAccount]
  /\ file' = IF file = p THEN None ELSE file
  /\ leaked' = IF leaked = p THEN None ELSE leaked

-----------------------------------------------------------------------------
Begins(t) == TryAcquire(t) \/ FindMissing(t) \/ Wait(t) \/ BeginRemove(t) \/ BeginAdd(t)

Releases(t) == ReleaseShared(t) \/ ReleaseExclusive(t)

Proceeds(t) ==
  \/ Validate(t) \/ MarkStale(t) \/ Releases(t)
  \/ RefreshStorageState(t) \/ RefreshCommits(t) \/ EndAuthRefresh(t)
  \/ WaitedInVain(t) \/ OpenExclusive(t) \/ LeaveExclusive(t)
  \/ RemoveLocks(t) \/ RemoveDeletes(t) \/ RemoveEnds(t) \/ Add(t) \/ EndPublish(t)

Next ==
  \/ \E t \in Tasks :
       \/ Begins(t) \/ Proceeds(t)
       \/ BeginAuthRefresh(t) \/ AcquireExclusive(t) \/ GiveUp(t)
  \/ \E p \in Processes : Crash(p) \/ SetCatalog(p)
  \/ Collect

Spec == Init /\ [][Next]_vars

(* Requests end, by their timeout at the latest, and operations do; every   *)
(* Release wakes all the waiters, and one that can have the account again   *)
(* and again takes it once.                                                 *)
FairSpec ==
  Spec /\ \A t \in Tasks :
    WF_vars(Proceeds(t)) /\ SF_vars(Releases(t)) /\ SF_vars(AcquireExclusive(t))

-----------------------------------------------------------------------------
(* Properties.                                                              *)

Shared == {"validating", "sharing", "joined"}
Exclusive == {"opening", "exclusive", "deleting", "publishing", "published"}

TypeOK ==
  /\ pc \in [Tasks -> Shared \cup Exclusive \cup
       {"idle", "stale", "waiting", "leaving", "leavingStale", "removing", "forgetting", "keeping"}]
  /\ renew \in [Tasks -> {"none", "window", "renewing", "ended"}]
  /\ leaseLogin \in [Tasks -> Nat]
  /\ orphans \subseteq Tasks
  /\ pool \in [Processes ->
       [registered : BOOLEAN, ready : BOOLEAN, active : Nat, exclusive : BOOLEAN,
        waiters : Nat, refreshers : Nat, locked : BOOLEAN, generation : Nat,
        storage : Tasks \cup {None}]]
  /\ file \in Processes \cup {None} /\ leaked \in Processes \cup {None}
  /\ directory \in BOOLEAN

(* The counters of all the Account objects and the one lock file together   *)
(* implement a readers-writer lock over the goroutines of all processes,    *)
(* crashes, removal and re-creation of the account included.                *)
Lock == INSTANCE LeaseLock WITH
  readers <- {t \in Tasks : pc[t] \in Shared},
  writers <- {t \in Tasks : pc[t] \in Exclusive}
LeaseLockImplemented == Lock!Spec

(* The first lease of a process takes the lock file and the last one gives  *)
(* it back: a process with no lease, and no renewal under way, never keeps  *)
(* the account from the other processes or from itself.  (But for a file    *)
(* whose unlock has failed, which is leaked and no longer file.)            *)
UsesAccount(t) == pc[t] \in Shared \cup Exclusive \/ renew[t] # "none"
LeaseFileExact ==
  \A p \in Processes :
    file = p <=> \E t \in Tasks : Home[t] = p /\ UsesAccount(t)

(* Once a lease has been validated, no process deletes the account until it *)
(* is released: a request never works on an account that is gone, nor an    *)
(* operation.  (Not of a lease that joined and whose first lease failed.)   *)
DirectoryKept ==
  \A t \in Tasks :
    pc[t] \in {"sharing", "exclusive"} => directory /\ Account(t).registered

(* Requests of one process that see the same login expire renew it once:    *)
(* none replaces a login newer than the one it failed with.                 *)
RenewedOnce ==
  [][\A t \in Tasks :
       /\ renew[t] = "renewing" /\ renew'[t] = "ended"
       /\ pool'[Home[t]].generation # Account(t).generation
       => leaseLogin[t] = Account(t).generation]_vars

(* An account operation that waits for its account gets it, however many    *)
(* requests of its process keep asking, once other processes are quiet and  *)
(* the account is neither removed nor created any more: its count in        *)
(* waiters keeps new requests out.  (One that waits through a removal and a *)
(* re-creation of the account is not in the new Account's count.)           *)
Settled(t) ==
  \A u \in Tasks :
    IF Home[u] = Home[t]
    THEN pc[u] \notin {"removing", "deleting", "forgetting", "publishing", "published"}
    ELSE pc[u] = "idle"
ExclusiveServed ==
  \A t \in Tasks :
    <>[]Settled(t) => (pc[t] = "waiting" ~> pc[t] # "waiting" \/ t \in orphans)
=============================================================================
