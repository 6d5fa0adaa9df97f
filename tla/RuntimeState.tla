---------------------------- MODULE RuntimeState ----------------------------
(***************************************************************************)
(* What is known of one account beside its login: the cooldowns of its      *)
(* models, the models a request has succeeded with, and the catalog they    *)
(* were read from (internal/aistudio/accounts.go).  It is kept in           *)
(* runtime-state.json, which several processes read, merge and replace      *)
(* under a file lock, and in the memory of each of them, with the catalog   *)
(* itself and modelAccessGeneration, which the file does not have.          *)
(*                                                                         *)
(* A job is one use of a lease of the account: a request, a reading of the  *)
(* catalog, or a new login, with the transactions its outcome asks for, of  *)
(* which the mark of a finished request runs on after the lease is given    *)
(* back.  The leases themselves are those of LeaseLock.  modelAccess-       *)
(* Generation is only ever compared with what a lease has noted of it: the  *)
(* model keeps, per job, whether the two are still equal.                   *)
(***************************************************************************)
EXTENDS Naturals, Sequences, FiniteSets

CONSTANTS
  Process,
  Job,
  Free,          (* nobody holds the file lock                             *)
  Scenes,        (* which process a job is in, and what may become of it   *)
  Catalogs,      (* what ListModels and the benefit tier may amount to     *)
  MaxTime        (* bound: the clock, on which leases and cooldowns are    *)

Requests == {"finish", "quota", "block", "success", "failure"}
Ends == Requests \cup {"catalog", "login"}

ASSUME RuntimeAssumption ==
  /\ Scenes \subseteq [Job -> [home : Process, ends : SUBSET Ends]]
  /\ Free \notin Job
  /\ Catalogs \subseteq [tier : STRING, entry : STRING, others : STRING]
  /\ MaxTime \in Nat \ {0}

(* "model" is the scope of the one model that requests ask for, "global"    *)
(* is "*": every request of the account.                                    *)
Scopes == {"model", "global"}
Time == 0 .. MaxTime

(* The catalog of an account that has never been read, as the file or the   *)
(* memory says, and the empty one that a login leaves.                      *)
Unset == [tier |-> "", entry |-> "unset", others |-> "unset"]
Emptied(tier) == [tier |-> tier, entry |-> "absent", others |-> "absent"]

AllCatalogs ==
  Catalogs \cup {Unset}
    \cup {Emptied(c.tier) : c \in Catalogs \cup {Unset}}

(* checked: CheckedAt of the last result that counted, 0 where there is     *)
(* none.  cooling: the cooldown of a scope, with the time of the lease that *)
(* set it.  verified: the catalog entry the model was verified under.       *)
NotCooling == [by |-> 0, until |-> 0]
Unverified == "no"

NewState ==
  [checked  |-> [s \in Scopes |-> 0],
   cooling  |-> [s \in Scopes |-> NotCooling],
   verified |-> Unverified,
   catalog  |-> Unset]

VARIABLES
  scene,      (* the one being played                                      *)
  file,       (* runtime-state.json                                        *)
  memory,     (* per process: account.runtime, and account.Models          *)
  flock,      (* the job inside a transaction                              *)
  job,
  upstream,   (* the catalog AI Studio answers                             *)
  clock,
  newest,     (* per scope: time of the newest result ever recorded        *)
  carried     (* verified was kept by a process whose catalog was not the  *)
              (* one of the file                                           *)

vars == <<scene, file, memory, flock, job, upstream, clock, newest, carried>>

Home == [j \in Job |-> scene[j].home]

(* An account as a process loads it, and after it has read the catalog.     *)
Loaded(state) == [state |-> state, models |-> Unset]
WithModels(state) == [state |-> state, models |-> state.catalog]

(* lease: what for, if held.  joined: it is not the first of its process.   *)
(* checked: when it was taken.  granted, under: when, and by which entry of *)
(* the catalog, it was found to be eligible.                                *)
(* current: it has the process's generation.  overtaken: another process    *)
(* has since forgotten results.  todo: the transactions left to run.  work: *)
(* what the running one leaves.                                             *)
Idle ==
  [at |-> "idle", lease |-> "none", joined |-> FALSE, checked |-> 0,
   granted |-> 0, under |-> Unverified, current |-> FALSE, overtaken |-> FALSE,
   todo |-> <<>>, work |-> NewState]

Done == [Idle EXCEPT !.at = "done"]

(* A new account, or one whose catalog both processes have read.            *)
Init ==
  /\ scene \in Scenes
  /\ upstream \in Catalogs
  /\ \/ /\ file = NewState
        /\ memory = [p \in Process |-> Loaded(file)]
     \/ /\ file = [NewState EXCEPT !.catalog = upstream]
        /\ memory = [p \in Process |-> WithModels(file)]
  /\ flock = Free
  /\ job = [j \in Job |-> Idle]
  /\ clock = 1
  /\ newest = [s \in Scopes |-> 0]
  /\ carried = FALSE

Mine(j) == memory[Home[j]]
Set(j, new) == job' = [job EXCEPT ![j] = new]

-----------------------------------------------------------------------------
(* Reading the file: syncAccountRuntimeLocked.  A catalog other than the    *)
(* remembered one ends the generation of every lease of the process.        *)

Synced(p, state) == [memory EXCEPT ![p].state = state]
Turns(p, state) == memory[p].state.catalog # state.catalog

(* The jobs, once the generation of process p has moved on.                 *)
Outdated(p, jobs) ==
  [j \in Job |-> IF Home[j] = p THEN [jobs[j] EXCEPT !.current = FALSE]
                               ELSE jobs[j]]

OutdatedIf(moved, p, jobs) == IF moved THEN Outdated(p, jobs) ELSE jobs

Active(state, s) == state.cooling[s].until > clock

(* accountCooldown: a request minds both scopes, a reading of the catalog   *)
(* names no model, and an account operation does not ask.                   *)
Refused(state, lease) ==
  CASE lease = "request" -> \E s \in Scopes : Active(state, s)
    [] lease = "catalog" -> Active(state, "global")
    [] OTHER             -> FALSE

-----------------------------------------------------------------------------
(* Leases.                                                                  *)

LeaseFor(end) == IF end \in Requests THEN "request" ELSE end

Holders == {j \in Job : job[j].lease # "none"}
Shared(j) == job[j].lease \in {"request", "catalog"}

(* TryAcquireFor, AcquireAccount: the first lease of a process re-reads the *)
(* file before it counts, a further one does not.                           *)
Acquire(j) ==
  /\ job[j].at = "idle"
  /\ \E end \in scene[j].ends :
       LET lease == LeaseFor(end) IN
       /\ IF lease = "login" THEN Holders = {}
          ELSE \A h \in Holders : Shared(h) /\ Home[h] = Home[j]
       /\ ~Refused(Mine(j).state, lease)
       /\ Set(j, [Idle EXCEPT !.lease = lease, !.checked = clock,
                              !.joined = Holders # {},
                              !.at = IF Holders = {} THEN "refreshing"
                                                     ELSE "checking"])
  /\ UNCHANGED <<scene, file, memory, flock, upstream, clock, newest, carried>>

(* A refresh that is taken for done when the process has some state.        *)
RefreshUnread(j) ==
  /\ job[j].at = "refreshing" /\ flock = Free
  /\ Set(j, [job[j] EXCEPT !.at = "checking"])
  /\ UNCHANGED <<scene, file, memory, flock, upstream, clock, newest, carried>>

(* refreshAccountRuntime, all of it under the file lock.                    *)
Refresh(j) ==
  /\ job[j].at = "refreshing" /\ flock = Free
  /\ memory' = Synced(Home[j], file)
  /\ job' = [OutdatedIf(Turns(Home[j], file), Home[j], job)
               EXCEPT ![j].at = "checking"]
  /\ UNCHANGED <<scene, file, flock, upstream, clock, newest, carried>>

(* refreshSelectionRuntimes, refreshResource: a process without a lease     *)
(* reads the file to see whether an account is free again.                  *)
Reread(p) ==
  /\ flock = Free /\ memory[p].state # file
  /\ memory' = Synced(p, file)
  /\ job' = OutdatedIf(Turns(p, file), p, job)
  /\ UNCHANGED <<scene, file, flock, upstream, clock, newest, carried>>

(* refreshAndValidateLease, after the re-reading: the lease notes the       *)
(* generation, or is given back for a cooldown.                             *)
Check(j) ==
  /\ job[j].at = "checking"
  /\ Set(j, IF Refused(Mine(j).state, job[j].lease) THEN Done
            ELSE [job[j] EXCEPT !.at = "leased", !.current = TRUE, !.granted = clock,
                                !.under = Mine(j).state.catalog.entry])
  /\ UNCHANGED <<scene, file, memory, flock, upstream, clock, newest, carried>>

(* The lock is not had within runtimeLockLimit, or the caller is cancelled. *)
RefreshFails(j) ==
  /\ job[j].at = "refreshing"
  /\ Set(j, Done)
  /\ UNCHANGED <<scene, file, memory, flock, upstream, clock, newest, carried>>

-----------------------------------------------------------------------------
(* What becomes of a lease, and the transactions that follow from it.       *)

Peek == [op |-> "peek", scope |-> "model"]
Verify == [op |-> "verify", scope |-> "model"]
Cool(s) == [op |-> "cool", scope |-> s, until |-> clock + 1]
Clear(s) == [op |-> "clear", scope |-> s]
Reset == [op |-> "reset"]
Put(catalog) == [op |-> "set", catalog |-> catalog]

(* A request finishes (EventFinish), is turned away for the quota of the    *)
(* model or of the account, succeeds with something that is no generation,  *)
(* or fails; the catalog is read; an administrator has logged in again.     *)
Outcome(j, end) ==
  CASE end = "finish"  -> <<Peek>>
    [] end = "quota"   -> <<Cool("model")>>
    [] end = "block"   -> <<Cool("global")>>
    [] end = "success" -> <<Clear("model")>>
    [] end = "catalog" -> <<Clear("global"), Put(upstream)>>
    [] end = "login"   -> <<Reset, Put(Emptied(Mine(j).state.catalog.tier))>>
    [] OTHER           -> <<>>

(* What is left of a job when nothing more is to be recorded.               *)
Left(j, todo) ==
  IF todo # <<>>
  THEN [job[j] EXCEPT !.at = "settling", !.todo = todo, !.work = NewState]
  ELSE [Idle EXCEPT !.lease = job[j].lease,
                    !.at = IF job[j].lease = "none" THEN "done"
                                                 ELSE "settling"]

(* The request, the reading or the login has come to its end.               *)
EndsWith(j) ==
  /\ job[j].at = "leased"
  /\ \E end \in {e \in scene[j].ends : LeaseFor(e) = job[j].lease} :
       Set(j, Left(j, Outcome(j, end)))
  /\ UNCHANGED <<scene, file, memory, flock, upstream, clock, newest, carried>>

(* The mark of a finished request runs in a goroutine of its own.           *)
InBackground(j) == job[j].todo # <<>> /\ Head(job[j].todo) \in {Peek, Verify}

(* AccountLease.Release.                                                    *)
Release(j) ==
  /\ job[j].at \in {"settling", "writing", "applying"}
  /\ job[j].lease # "none"
  /\ job[j].todo = <<>> \/ InBackground(j)
  /\ Set(j, IF job[j].todo = <<>> THEN Done
            ELSE [job[j] EXCEPT !.lease = "none"])
  /\ UNCHANGED <<scene, file, memory, flock, upstream, clock, newest, carried>>

-----------------------------------------------------------------------------
(* The mutations of the state, for the results of a lease taken at time t.  *)

(* MarkCooldownIfGeneration: only a result newer than all others.           *)
Cooled(state, s, t, until) ==
  IF state.checked[s] < t
  THEN [state EXCEPT !.checked[s] = t,
                     !.cooling[s] = [by |-> t, until |-> until]]
  ELSE state

(* A success, which counts as well when it is as new as the last result.    *)
Lifted(state, s, t) ==
  IF state.checked[s] <= t
  THEN [state EXCEPT !.checked[s] = t, !.cooling[s] = NotCooling]
  ELSE state

(* ClearCooldownIfGeneration: the scope, and the account as a whole.        *)
Cleared(state, s, t) == Lifted(Lifted(state, s, t), "global", t)

(* markModelAccessVerified, its transaction.                                *)
Verified(state, entry, t) ==
  LET known == state.checked["model"] = t /\ state.verified # Unverified
      good  == [state EXCEPT !.verified = IF known THEN @ ELSE entry]
  IN Cleared(IF state.checked["model"] <= t THEN good ELSE state, "model", t)

(* ResetModelAccess: the results, and with them the check times.            *)
Forgotten(state, scopes) ==
  [state EXCEPT
     !.checked  = [s \in Scopes |-> IF s \in scopes THEN 0 ELSE @[s]],
     !.verified = IF "model" \in scopes THEN Unverified ELSE @]

First(j) == Mine(j).models = Unset

EntriesChanged(j, new) ==
  /\ ~First(j)
  /\ \/ Mine(j).models.entry # new.entry
     \/ Mine(j).models.others # new.others

(* A new catalog that only forgets when the tier is another.                *)
OutmodedByTier(j, state, new) ==
  IF state.catalog.tier # new.tier THEN Scopes ELSE {}

(* SetCatalog compares the new catalog with the one in memory, and only a   *)
(* process that has none with the fingerprint in the file.                  *)
Outmoded(j, state, new) ==
  IF state.catalog.tier # new.tier \/ (First(j) /\ state.catalog # new) THEN Scopes
  ELSE IF ~First(j) /\ Mine(j).models.entry # new.entry THEN {"model"}
  ELSE {}

WithCatalog(j, state, new) ==
  [Forgotten(state, Outmoded(j, state, new)) EXCEPT !.catalog = new]

(* A request's result, of the lease taken when it was.                      *)
Recording(j, task, state) ==
  LET t == job[j].checked
  IN CASE task.op = "cool"  -> Cooled(state, task.scope, t, task.until)
       [] task.op = "clear" -> Cleared(state, task.scope, t)
       [] OTHER             -> Verified(state, job[j].under, t)

(* Results judged by their check time alone.                                *)
ResultOfAnyGeneration(j, task, current, state) ==
  CASE task.op = "reset" -> Forgotten(state, Scopes)
    [] task.op = "set"   -> WithCatalog(j, state, task.catalog)
    [] OTHER             -> Recording(j, task, state)

(* What the transaction of a job makes of the state; the results of a lease *)
(* of an earlier generation are dropped.                                    *)
Result(j, task, current, state) ==
  CASE task.op = "reset" -> Forgotten(state, Scopes)
    [] task.op = "set"   -> WithCatalog(j, state, task.catalog)
    [] OTHER             -> IF current THEN Recording(j, task, state) ELSE state

-----------------------------------------------------------------------------
(* markModelAccessVerified looks at the memory first: a success that tells  *)
(* nothing new needs no transaction.                                        *)

TellsNothing(j) ==
  LET state == Mine(j).state
  IN /\ job[j].current /\ state.verified # Unverified
     /\ \A s \in Scopes : /\ state.cooling[s] = NotCooling
                          /\ state.checked[s] >= job[j].checked

Peeks(j) ==
  /\ job[j].at = "settling" /\ job[j].todo = <<Peek>>
  /\ Set(j, Left(j, IF TellsNothing(j) THEN <<>> ELSE <<Verify>>))
  /\ UNCHANGED <<scene, file, memory, flock, upstream, clock, newest, carried>>

Ready(j) ==
  /\ job[j].at = "settling" /\ job[j].todo # <<>>
  /\ Head(job[j].todo) # Peek

(* A transaction that does not wait for the file lock.                      *)
BeginUnlocked(j) ==
  /\ Ready(j)
  /\ flock' = j
  /\ memory' = Synced(Home[j], file)
  /\ LET moved == Turns(Home[j], file)
         work  == Result(j, Head(job[j].todo), job[j].current /\ ~moved, file)
     IN job' = [OutdatedIf(moved, Home[j], job)
                  EXCEPT ![j].work = work,
                         ![j].at = IF work = file THEN "applying"
                                                  ELSE "writing"]
  /\ UNCHANGED <<scene, file, upstream, clock, newest, carried>>

(* updateRuntimeContext, up to the mutation: under the file lock the file   *)
(* is read, the memory follows it, and the mutation works on what was read. *)
Begin(j) ==
  /\ Ready(j) /\ flock = Free
  /\ flock' = j
  /\ memory' = Synced(Home[j], file)
  /\ LET moved == Turns(Home[j], file)
         work  == Result(j, Head(job[j].todo), job[j].current /\ ~moved, file)
     IN job' = [OutdatedIf(moved, Home[j], job)
                  EXCEPT ![j].work = work,
                         ![j].at = IF work = file THEN "applying"
                                                  ELSE "writing"]
  /\ UNCHANGED <<scene, file, upstream, clock, newest, carried>>

Recorded(j) ==
  {s \in Scopes : /\ Head(job[j].todo).op \notin {"reset", "set"}
                  /\ \/ job[j].work.checked[s] # file.checked[s]
                     \/ job[j].work.cooling[s] # file.cooling[s]}

(* writeRuntime replaces the file.  Results that it forgets leave a late    *)
(* mark of another process nothing to be compared with.                     *)
Write(j) ==
  LET work == job[j].work
      forgets == \E s \in Scopes : work.checked[s] < file.checked[s]
  IN /\ job[j].at = "writing"
     /\ file' = work
     /\ newest' = [s \in Scopes |-> IF s \in Recorded(j) THEN job[j].checked
                                                         ELSE newest[s]]
     /\ carried' =
          /\ work.verified # Unverified
          /\ \/ /\ Head(job[j].todo).op = "set" /\ ~First(j)
                /\ Mine(j).models.entry # file.catalog.entry
             \/ /\ carried
                /\ \/ Head(job[j].todo).op # "verify"
                   \/ work.checked["model"] = file.checked["model"]
     /\ job' = [k \in Job |->
                  CASE k = j -> [job[j] EXCEPT !.at = "applying"]
                    [] Home[k] # Home[j] /\ forgets ->
                         [job[k] EXCEPT !.overtaken = job[k].current]
                    [] OTHER -> job[k]]
     /\ UNCHANGED <<scene, memory, flock, upstream, clock>>

(* After the write the memory follows it, and a login or a changed catalog  *)
(* ends the generation.                                                     *)
Apply(j) ==
  LET task == Head(job[j].todo)
      moved == \/ Turns(Home[j], job[j].work)
               \/ task.op = "reset"
               \/ task.op = "set" /\ (First(j) \/ EntriesChanged(j, task.catalog))
      rest == [job EXCEPT ![j] = Left(j, Tail(@.todo))]
  IN /\ job[j].at = "applying"
     /\ memory' = [Synced(Home[j], job[j].work) EXCEPT
                     ![Home[j]].models = IF task.op = "set" THEN task.catalog
                                                           ELSE @]
     /\ job' = OutdatedIf(moved, Home[j], rest)
     /\ flock' = Free
     /\ UNCHANGED <<scene, file, upstream, clock, newest, carried>>

(* A login goes on to its second transaction when the first has failed, a   *)
(* reading of the catalog does not.                                         *)
Abandoned(j) ==
  Left(j, IF Head(job[j].todo) = Reset THEN Tail(job[j].todo) ELSE <<>>)

LockTimesOut(j) ==
  /\ Ready(j) /\ flock # Free /\ Home[flock] # Home[j]
  /\ Set(j, Abandoned(j))
  /\ UNCHANGED <<scene, file, memory, flock, upstream, clock, newest, carried>>

(* An error return before the lock is given back.                           *)
WriteFailsLocked(j) ==
  /\ job[j].at = "writing"
  /\ Set(j, Abandoned(j))
  /\ UNCHANGED <<scene, file, memory, flock, upstream, clock, newest, carried>>

WriteFails(j) ==
  /\ job[j].at = "writing"
  /\ Set(j, Abandoned(j))
  /\ flock' = Free
  /\ UNCHANGED <<scene, file, memory, upstream, clock, newest, carried>>

-----------------------------------------------------------------------------
(* A process ends, and another is started that loads the account.           *)
Restart(p) ==
  /\ job' = [j \in Job |-> IF Home[j] = p /\ job[j].at # "idle" THEN Done
                                                             ELSE job[j]]
  /\ memory' = [memory EXCEPT ![p] = Loaded(file)]
  /\ flock' = IF flock # Free /\ Home[flock] = p THEN Free ELSE flock
  /\ UNCHANGED <<scene, file, upstream, clock, newest, carried>>

CatalogChanges ==
  /\ upstream' \in Catalogs \ {upstream}
  /\ UNCHANGED <<scene, file, memory, flock, job, clock, newest, carried>>

Tick ==
  /\ clock < MaxTime
  /\ clock' = clock + 1
  /\ UNCHANGED <<scene, file, memory, flock, job, upstream, newest, carried>>

JobStep(j) ==
  \/ Acquire(j) \/ Refresh(j) \/ RefreshFails(j) \/ Check(j)
  \/ EndsWith(j) \/ Release(j)
  \/ Peeks(j) \/ Begin(j) \/ Write(j) \/ Apply(j)
  \/ LockTimesOut(j) \/ WriteFails(j)

Next ==
  \/ \E j \in Job : JobStep(j)
  \/ \E p \in Process : Reread(p) \/ Restart(p)
  \/ CatalogChanges
  \/ Tick

Spec == Init /\ [][Next]_vars

-----------------------------------------------------------------------------
State ==
  [checked  : [Scopes -> Time],
   cooling  : [Scopes -> [by : Time, until : 0 .. MaxTime + 1]],
   verified : {c.entry : c \in AllCatalogs} \cup {Unverified},
   catalog  : AllCatalogs]

(* The type of every variable; a transaction runs in the job that has the   *)
(* file lock, and in no other.                                              *)
TypeOK ==
  /\ file \in State
  /\ memory \in [Process -> [state : State, models : AllCatalogs]]
  /\ flock \in Job \cup {Free}
  /\ upstream \in Catalogs /\ clock \in Time
  /\ newest \in [Scopes -> Time] /\ carried \in BOOLEAN
  /\ \A j \in Job :
       /\ job[j].at \in {"idle", "done", "refreshing", "checking", "leased",
                         "settling", "writing", "applying"}
       /\ job[j].work \in State /\ job[j].checked \in Time
       /\ flock = j <=> job[j].at \in {"writing", "applying"}

(* No transaction is lost: what a process is about to write is what its     *)
(* result makes of the file as it is now, whatever the other processes and  *)
(* its own requests have written since it read it.                          *)
NoLostUpdate ==
  \A j \in Job :
    job[j].at = "writing" =>
      job[j].work = Result(j, Head(job[j].todo), job[j].current, file)

(* A model counts as verified only for the catalog entry it was tried with: *)
(* a mark that comes late, after the catalog or the login has changed, is   *)
(* not recorded, and a new catalog drops the marks of the entries it        *)
(* changes.  Except what a process keeps that compares a new catalog with   *)
(* one that another process had replaced.                                   *)
VerifiedByEntry ==
  file.verified # Unverified /\ ~carried => file.verified = file.catalog.entry

(* A result that comes late does not undo a newer one: it neither lifts the *)
(* cooldown nor replaces the success of a lease taken after its own was     *)
(* granted, also when a login or a new catalog has wiped the check times in *)
(* between.  Except a late mark of one process after another process has    *)
(* wiped them.                                                              *)
ResultsInOrder ==
  [][\A j \in Job :
       job[j].at = "writing" /\ job'[j].at = "applying" /\ ~job[j].overtaken =>
         \A s \in Recorded(j) : newest[s] <= job[j].granted]_vars

(* The first lease a process takes is not granted on an account that the    *)
(* file, which other processes have written, says is cooling for it; but    *)
(* for the moment between the write of its own process and its memory.      *)
CoolingRefused ==
  [][\A j \in Job :
       /\ job[j].at = "checking" /\ ~job[j].joined /\ job'[j].at = "leased"
       /\ flock # Free => Home[flock] # Home[j]
       => ~Refused(file, job[j].lease)]_vars
=============================================================================
