--------------------------- MODULE RuntimeStateProofs ---------------------------
(* Proofs about RuntimeState, for every set of processes and jobs, every    *)
(* scene, every catalog and every bound of the clock.                       *)
EXTENDS RuntimeState, TLAPS

-----------------------------------------------------------------------------
(* The inductive invariant: types, and that only the job which has the file *)
(* lock is inside a transaction, so that nothing its mutation was computed  *)
(* from can change under it.                                                *)

Places ==
  {"idle", "done", "refreshing", "checking", "leased", "settling", "writing", "applying"}
Locking == {"writing", "applying"}

Entries == {c.entry : c \in AllCatalogs} \cup {Unverified}

Task ==
  {Peek, Verify, Reset}
    \cup [op : {"cool"}, scope : Scopes, until : 0 .. MaxTime + 1]
    \cup [op : {"clear"}, scope : Scopes]
    \cup [op : {"set"}, catalog : AllCatalogs]

JobRecord ==
  [at : Places, lease : {"none", "request", "catalog", "login"}, joined : BOOLEAN,
   checked : Time, granted : Time, under : Entries, current : BOOLEAN,
   overtaken : BOOLEAN, todo : Seq(Task), work : State]

AccountRecord == [state : State, models : AllCatalogs]

Busy == \A j \in Job : job[j].at \in Locking => job[j].todo # <<>>

IInv ==
  /\ scene \in Scenes
  /\ job \in [Job -> JobRecord]
  /\ TypeOK /\ Busy /\ NoLostUpdate

-----------------------------------------------------------------------------
(* Types of the values the module computes with.                            *)

LEMMA TimeType ==
  /\ MaxTime \in Nat /\ Time = 0 .. MaxTime /\ 0 \in Time /\ 1 \in Time
  /\ \A t \in Time : t + 1 \in 0 .. MaxTime + 1
BY RuntimeAssumption DEF Time

LEMMA HomeType == ASSUME scene \in Scenes, NEW j \in Job PROVE Home[j] \in Process
BY RuntimeAssumption DEF Home

LEMMA EndsType == ASSUME scene \in Scenes, NEW j \in Job PROVE scene[j].ends \subseteq Ends
BY RuntimeAssumption

LEMMA CatalogType ==
  /\ Catalogs \subseteq AllCatalogs /\ Unset \in AllCatalogs
  /\ \A c \in AllCatalogs : Emptied(c.tier) \in AllCatalogs /\ c.entry \in Entries
<1>1. ASSUME NEW c \in AllCatalogs PROVE Emptied(c.tier) \in AllCatalogs
  <2>1. CASE c \in Catalogs \cup {Unset}
    BY <2>1 DEF AllCatalogs
  <2>2. CASE \E d \in Catalogs \cup {Unset} : c = Emptied(d.tier)
    <3>1. PICK d \in Catalogs \cup {Unset} : c = Emptied(d.tier)
      BY <2>2
    <3>2. c.tier = d.tier
      BY <3>1 DEF Emptied
    <3> QED
      BY <3>2 DEF AllCatalogs
  <2> QED
    BY <2>1, <2>2 DEF AllCatalogs
<1> QED
  BY <1>1 DEF AllCatalogs, Entries

LEMMA NewStateType == NewState \in State /\ NewState.catalog = Unset
<1>1. 0 \in Time /\ 0 \in 0 .. MaxTime + 1
  BY TimeType
<1> QED
  BY <1>1, CatalogType DEF NewState, State, NotCooling

LEMMA StateType ==
  ASSUME NEW state \in State
  PROVE  /\ state.checked \in [Scopes -> Time]
         /\ state.cooling \in [Scopes -> [by : Time, until : 0 .. MaxTime + 1]]
         /\ state.verified \in Entries /\ state.catalog \in AllCatalogs
BY DEF State, Entries

LEMMA IdleType == Idle \in JobRecord /\ Done \in JobRecord
<1>1. /\ Unverified \in Entries /\ 0 \in Time /\ NewState \in State
      /\ <<>> \in Seq(Task)
  BY NewStateType, TimeType DEF Entries
<1>2. Idle \in JobRecord
  BY <1>1 DEF Idle, JobRecord, Places
<1>3. \A rec \in JobRecord : [rec EXCEPT !.at = "done"] \in JobRecord
  BY DEF JobRecord, Places
<1> QED
  BY <1>2, <1>3 DEF Done

-----------------------------------------------------------------------------
(* Each mutation of a state makes a state.                                  *)

LEMMA CooledType ==
  ASSUME NEW state \in State, NEW s \in Scopes, NEW t \in Time, NEW until \in 0 .. MaxTime + 1
  PROVE  Cooled(state, s, t, until) \in State
BY DEF Cooled, State

LEMMA LiftedType ==
  ASSUME NEW state \in State, NEW s \in Scopes, NEW t \in Time
  PROVE  Lifted(state, s, t) \in State
<1>1. NotCooling \in [by : Time, until : 0 .. MaxTime + 1]
  BY TimeType DEF NotCooling
<1> QED
  BY <1>1 DEF Lifted, State

LEMMA ClearedType ==
  ASSUME NEW state \in State, NEW s \in Scopes, NEW t \in Time
  PROVE  Cleared(state, s, t) \in State
<1>1. "global" \in Scopes
  BY DEF Scopes
<1> QED
  BY <1>1, LiftedType DEF Cleared

LEMMA VerifiedType ==
  ASSUME NEW state \in State, NEW entry \in Entries, NEW t \in Time
  PROVE  Verified(state, entry, t) \in State
<1> DEFINE known == state.checked["model"] = t /\ state.verified # Unverified
           good == [state EXCEPT !.verified = IF known THEN @ ELSE entry]
<1>1. good \in State
  BY DEF State, Entries
<1>2. "model" \in Scopes
  BY DEF Scopes
<1> QED
  BY <1>1, <1>2, ClearedType DEF Verified

LEMMA ForgottenType ==
  ASSUME NEW state \in State, NEW scopes
  PROVE  Forgotten(state, scopes) \in State
BY TimeType DEF Forgotten, State

LEMMA ResultType ==
  ASSUME IInv, NEW j \in Job, NEW task \in Task, task # Peek, NEW current \in BOOLEAN,
         NEW state \in State
  PROVE  Result(j, task, current, state) \in State
<1>1. job[j].checked \in Time /\ job[j].under \in Entries
  BY DEF IInv, JobRecord
<1>2. CASE task = Verify
  BY <1>1, <1>2, VerifiedType DEF Result, Recording, Verify
<1>3. CASE task = Reset
  BY <1>3, ForgottenType DEF Result, Recording, Reset
<1>4. CASE task \in [op : {"cool"}, scope : Scopes, until : 0 .. MaxTime + 1]
  BY <1>1, <1>4, CooledType DEF Result, Recording
<1>5. CASE task \in [op : {"clear"}, scope : Scopes]
  BY <1>1, <1>5, ClearedType DEF Result, Recording
<1>6. CASE task \in [op : {"set"}, catalog : AllCatalogs]
  <2>1. \A made \in State : [made EXCEPT !.catalog = task.catalog] \in State
    BY <1>6 DEF State
  <2> QED
    BY <1>6, <2>1, ForgottenType DEF Result, Recording, WithCatalog
<1> QED
  BY <1>2, <1>3, <1>4, <1>5, <1>6 DEF Task

-----------------------------------------------------------------------------
(* Steps that leave state and lock alone.                                   *)

LEMMA JobType ==
  ASSUME IInv, NEW j \in Job
  PROVE  /\ job[j] \in JobRecord
         /\ flock = j <=> job[j].at \in Locking
         /\ Home[j] \in Process /\ Mine(j) \in AccountRecord
         /\ clock \in Time /\ file \in State
BY HomeType DEF IInv, TypeOK, Locking, Mine, AccountRecord

LEMMA Unlocked ==
  ASSUME IInv, flock = Free
  PROVE  \A j \in Job : job[j].at \notin Locking
BY JobType, RuntimeAssumption

(* One job moves to a place where it has no transaction.                    *)
LEMMA SetStep ==
  ASSUME IInv, NEW j \in Job, NEW new \in JobRecord, Set(j, new),
         job[j].at \notin Locking, new.at \notin Locking,
         UNCHANGED <<scene, file, memory, flock, upstream, clock, newest, carried>>
  PROVE  IInv'
<1>1. scene' \in Scenes /\ job' \in [Job -> JobRecord]
  BY DEF IInv, Set
<1>2. ASSUME NEW k \in Job PROVE job'[k] = IF k = j THEN new ELSE job[k]
  BY DEF IInv, Set
<1>3. TypeOK'
  <2>1. ASSUME NEW k \in Job PROVE flock = k <=> job'[k].at \in Locking
    BY <1>2, JobType
  <2>2. ASSUME NEW k \in Job
        PROVE  job'[k].at \in Places /\ job'[k].work \in State /\ job'[k].checked \in Time
    BY <1>1 DEF JobRecord
  <2> QED
    BY <2>1, <2>2 DEF IInv, TypeOK, Locking, Places
<1>4. Busy'
  BY <1>2 DEF IInv, Busy
<1>5. ASSUME NEW k \in Job, job'[k].at = "writing"
      PROVE  job'[k].work = Result(k, Head(job[k].todo), job[k].current, file)'
  <2>1. k # j /\ job'[k] = job[k]
    BY <1>2, <1>5 DEF Locking
  <2>2. job[k].work = Result(k, Head(job[k].todo), job[k].current, file)
    BY <1>5, <2>1 DEF IInv, NoLostUpdate
  <2> QED
    BY <2>1, <2>2 DEF Result, Recording, WithCatalog, Outmoded, First, Mine, Home
<1> QED
  BY <1>1, <1>3, <1>4, <1>5 DEF IInv, NoLostUpdate

LEMMA LeaseForType == ASSUME NEW end \in Ends PROVE LeaseFor(end) \in {"request", "catalog", "login"}
BY DEF LeaseFor, Ends

LEMMA AcquireStep == ASSUME IInv, NEW j \in Job, Acquire(j) PROVE IInv'
<1>1. PICK end \in scene[j].ends :
        Set(j, [Idle EXCEPT !.lease = LeaseFor(end), !.checked = clock,
                            !.joined = Holders # {},
                            !.at = IF Holders = {} THEN "refreshing" ELSE "checking"])
  BY DEF Acquire
<1>2. LeaseFor(end) \in {"request", "catalog", "login"} /\ clock \in Time
  BY <1>1, EndsType, LeaseForType, JobType DEF IInv
<1> DEFINE new == [Idle EXCEPT !.lease = LeaseFor(end), !.checked = clock,
                               !.joined = Holders # {},
                               !.at = IF Holders = {} THEN "refreshing" ELSE "checking"]
<1>3. new \in JobRecord /\ new.at \notin Locking
  <2>1. \A joined \in BOOLEAN, lease \in {"request", "catalog", "login"},
           at \in {"refreshing", "checking"} :
          LET rec == [Idle EXCEPT !.lease = lease, !.checked = clock,
                                  !.joined = joined, !.at = at]
          IN rec \in JobRecord /\ rec.at \notin Locking
    BY ZenonT(30), <1>2, IdleType DEF JobRecord, Places, Locking
  <2> QED
    BY <1>2, <2>1
<1>4. Set(j, new)
  BY <1>1
<1>5. /\ job[j].at \notin Locking
      /\ UNCHANGED <<scene, file, memory, flock, upstream, clock, newest, carried>>
  BY DEF Acquire, Locking
<1> HIDE DEF new
<1> QED
  BY <1>3, <1>4, <1>5, SetStep

LEMMA CheckStep == ASSUME IInv, NEW j \in Job, Check(j) PROVE IInv'
<1> DEFINE leased == [job[j] EXCEPT !.at = "leased", !.current = TRUE, !.granted = clock,
                                    !.under = Mine(j).state.catalog.entry]
           new == IF Refused(Mine(j).state, job[j].lease) THEN Done ELSE leased
<1>1. Mine(j).state.catalog.entry \in Entries
  BY JobType, StateType, CatalogType DEF AccountRecord
<1>2. leased \in JobRecord /\ leased.at \notin Locking
  BY <1>1, JobType DEF JobRecord, Places, Locking
<1>3. Done \in JobRecord /\ Done.at \notin Locking
  BY IdleType DEF Done, Idle, Locking
<1>4. /\ Set(j, new) /\ job[j].at \notin Locking
      /\ UNCHANGED <<scene, file, memory, flock, upstream, clock, newest, carried>>
  BY DEF Check, Locking
<1>5. new \in JobRecord /\ new.at \notin Locking
  <2> HIDE DEF leased
  <2> QED
    BY <1>2, <1>3
<1> HIDE DEF new
<1> QED
  BY <1>4, <1>5, SetStep

LEMMA RefreshFailsStep == ASSUME IInv, NEW j \in Job, RefreshFails(j) PROVE IInv'
<1>1. Done \in JobRecord /\ Done.at \notin Locking
  BY IdleType DEF Done, Idle, Locking
<1> QED
  BY <1>1, SetStep DEF RefreshFails, Locking

(* What is left of a job that goes on with some transactions.               *)
LEMMA LeftType ==
  ASSUME IInv, NEW j \in Job, NEW todo \in Seq(Task)
  PROVE  /\ Left(j, todo) \in JobRecord
         /\ Left(j, todo).at \in {"settling", "done"}
<1> DEFINE more == [job[j] EXCEPT !.at = "settling", !.todo = todo, !.work = NewState]
           last == [Idle EXCEPT !.lease = job[j].lease,
                                !.at = IF job[j].lease = "none" THEN "done" ELSE "settling"]
<1>1. more \in JobRecord /\ more.at = "settling"
  BY JobType, NewStateType DEF JobRecord, Places
<1>2. \A lease \in {"none", "request", "catalog", "login"}, at \in {"done", "settling"} :
        LET rec == [Idle EXCEPT !.lease = lease, !.at = at]
        IN rec \in JobRecord /\ rec.at = at
  BY IdleType DEF JobRecord, Places
<1>3. job[j].lease \in {"none", "request", "catalog", "login"}
  BY JobType DEF JobRecord
<1>4. last \in JobRecord /\ last.at \in {"done", "settling"}
  BY <1>2, <1>3
<1>5. Left(j, todo) = IF todo # <<>> THEN more ELSE last
  BY DEF Left
<1> HIDE DEF more, last
<1> QED
  BY <1>1, <1>4, <1>5

LEMMA OutcomeType ==
  ASSUME IInv, NEW j \in Job, NEW end \in Ends
  PROVE  Outcome(j, end) \in Seq(Task)
<1>1. /\ Peek \in Task /\ Reset \in Task
      /\ \A s \in Scopes : Cool(s) \in Task /\ Clear(s) \in Task
      /\ \A c \in AllCatalogs : Put(c) \in Task
  <2>1. \A s \in Scopes : Cool(s) \in [op : {"cool"}, scope : Scopes, until : 0 .. MaxTime + 1]
    BY JobType, TimeType DEF Cool
  <2>2. \A s \in Scopes : Clear(s) \in [op : {"clear"}, scope : Scopes]
    BY DEF Clear
  <2>3. \A c \in AllCatalogs : Put(c) \in [op : {"set"}, catalog : AllCatalogs]
    BY DEF Put
  <2> QED
    BY <2>1, <2>2, <2>3 DEF Task
<1>2. /\ upstream \in AllCatalogs
      /\ Emptied(Mine(j).state.catalog.tier) \in AllCatalogs
  BY JobType, StateType, CatalogType DEF IInv, TypeOK, AccountRecord
<1>3. "model" \in Scopes /\ "global" \in Scopes
  BY DEF Scopes
<1> QED
  BY <1>1, <1>2, <1>3 DEF Outcome, Ends

LEMMA EndsWithStep == ASSUME IInv, NEW j \in Job, EndsWith(j) PROVE IInv'
<1>1. PICK end \in scene[j].ends : Set(j, Left(j, Outcome(j, end)))
  BY DEF EndsWith
<1>2. Outcome(j, end) \in Seq(Task)
  BY <1>1, EndsType, OutcomeType DEF IInv
<1>3. Left(j, Outcome(j, end)) \in JobRecord /\ Left(j, Outcome(j, end)).at \notin Locking
  BY <1>2, LeftType DEF Locking
<1> QED
  BY <1>1, <1>3, SetStep DEF EndsWith, Locking

LEMMA PeeksStep == ASSUME IInv, NEW j \in Job, Peeks(j) PROVE IInv'
<1>1. <<>> \in Seq(Task) /\ <<Verify>> \in Seq(Task)
  BY DEF Task
<1> DEFINE todo == IF TellsNothing(j) THEN <<>> ELSE <<Verify>>
<1>2. Left(j, todo) \in JobRecord /\ Left(j, todo).at \notin Locking
  BY <1>1, LeftType DEF Locking
<1>3. Set(j, Left(j, todo)) /\ job[j].at \notin Locking
      /\ UNCHANGED <<scene, file, memory, flock, upstream, clock, newest, carried>>
  BY DEF Peeks, Locking
<1> HIDE DEF todo
<1> QED
  BY <1>2, <1>3, SetStep

LEMMA AbandonedType ==
  ASSUME IInv, NEW j \in Job, job[j].todo # <<>>
  PROVE  Abandoned(j) \in JobRecord /\ Abandoned(j).at \notin Locking
<1>1. /\ job[j].todo \in Seq(Task) /\ <<>> \in Seq(Task) /\ Tail(job[j].todo) \in Seq(Task)
  BY JobType DEF JobRecord
<1> QED
  BY <1>1, LeftType DEF Abandoned, Locking

LEMMA LockTimesOutStep == ASSUME IInv, NEW j \in Job, LockTimesOut(j) PROVE IInv'
BY AbandonedType, SetStep DEF LockTimesOut, Ready, Locking

(* A lease is given back while a transaction may run on.                    *)
LEMMA ReleaseStep == ASSUME IInv, NEW j \in Job, Release(j) PROVE IInv'
<1>1. CASE job[j].todo = <<>>
  <2>1. job[j].at \notin Locking
    BY <1>1 DEF IInv, Busy
  <2>2. Done \in JobRecord /\ Done.at \notin Locking
    BY IdleType DEF Done, Idle, Locking
  <2> QED
    BY <1>1, <2>1, <2>2, SetStep DEF Release
<1>2. CASE job[j].todo # <<>>
  <2> DEFINE new == [job[j] EXCEPT !.lease = "none"]
  <2>1. /\ new \in JobRecord /\ new.at = job[j].at /\ new.todo = job[j].todo
        /\ new.work = job[j].work /\ new.current = job[j].current
        /\ new.checked = job[j].checked /\ new.under = job[j].under
    BY JobType DEF JobRecord
  <2>2. Set(j, new) /\ UNCHANGED <<scene, file, memory, flock, upstream, clock, newest, carried>>
    BY <1>2 DEF Release
  <2> HIDE DEF new
  <2>3. /\ scene' \in Scenes /\ job' \in [Job -> JobRecord]
        /\ \A k \in Job : job'[k] = IF k = j THEN new ELSE job[k]
    BY <2>1, <2>2 DEF IInv, Set
  <2>4. TypeOK'
    <3>1. ASSUME NEW k \in Job PROVE flock = k <=> job'[k].at \in Locking
      BY <2>1, <2>3, JobType
    <3>2. ASSUME NEW k \in Job
          PROVE  job'[k].at \in Places /\ job'[k].work \in State /\ job'[k].checked \in Time
      BY <2>3 DEF JobRecord
    <3> QED
      BY <2>2, <3>1, <3>2 DEF IInv, TypeOK, Locking, Places
  <2>5. Busy'
    BY <2>1, <2>3 DEF IInv, Busy
  <2>6. ASSUME NEW k \in Job, job'[k].at = "writing"
        PROVE  job'[k].work = Result(k, Head(job[k].todo), job[k].current, file)'
    <3>1. /\ job'[k].at = job[k].at /\ job'[k].todo = job[k].todo
          /\ job'[k].work = job[k].work /\ job'[k].current = job[k].current
          /\ job'[k].checked = job[k].checked /\ job'[k].under = job[k].under
      BY <2>1, <2>3
    <3>2. job[k].work = Result(k, Head(job[k].todo), job[k].current, file)
      BY <2>6, <3>1 DEF IInv, NoLostUpdate
    <3> QED
      BY <2>2, <3>1, <3>2 DEF Result, Recording, WithCatalog, Outmoded, First, Mine, Home
  <2> QED
    BY <2>3, <2>4, <2>5, <2>6 DEF IInv, NoLostUpdate
<1> QED
  BY <1>1, <1>2

-----------------------------------------------------------------------------
(* Steps of the holder of the lock, and steps that need it to be free.      *)

LEMMA SyncedType ==
  ASSUME IInv, NEW p \in Process, NEW state \in State
  PROVE  Synced(p, state) \in [Process -> AccountRecord]
<1>1. memory \in [Process -> AccountRecord]
  BY DEF IInv, TypeOK, AccountRecord
<1>2. [memory[p] EXCEPT !.state = state] \in AccountRecord
  BY <1>1 DEF AccountRecord
<1> QED
  BY <1>1, <1>2 DEF Synced

(* Only the generation of a job is affected by what its process reads.      *)
LEMMA OutdatedType ==
  ASSUME NEW jobs \in [Job -> JobRecord], NEW moved \in BOOLEAN, NEW p
  PROVE  /\ OutdatedIf(moved, p, jobs) \in [Job -> JobRecord]
         /\ \A k \in Job :
              /\ OutdatedIf(moved, p, jobs)[k].at = jobs[k].at
              /\ OutdatedIf(moved, p, jobs)[k].todo = jobs[k].todo
              /\ OutdatedIf(moved, p, jobs)[k].checked = jobs[k].checked
              /\ OutdatedIf(moved, p, jobs)[k].under = jobs[k].under
              /\ OutdatedIf(moved, p, jobs)[k].lease = jobs[k].lease
              /\ OutdatedIf(moved, p, jobs)[k].joined = jobs[k].joined
              /\ OutdatedIf(moved, p, jobs)[k].work = jobs[k].work
              /\ Home[k] = p => OutdatedIf(moved, p, jobs)[k].current = (jobs[k].current /\ ~moved)
<1>1. ASSUME NEW k \in Job
      PROVE  LET rec == [jobs[k] EXCEPT !.current = FALSE]
             IN /\ rec \in JobRecord /\ rec.at = jobs[k].at /\ rec.todo = jobs[k].todo
                /\ rec.checked = jobs[k].checked /\ rec.under = jobs[k].under
                /\ rec.lease = jobs[k].lease /\ rec.joined = jobs[k].joined
                /\ rec.work = jobs[k].work
                /\ rec.current = FALSE /\ jobs[k].current \in BOOLEAN
  BY DEF JobRecord
<1> QED
  BY <1>1 DEF OutdatedIf, Outdated

(* After a step that leaves nobody with the lock, or one that is applying.  *)
LEMMA LockStep ==
  ASSUME IInv, job' \in [Job -> JobRecord], scene' = scene, file' \in State,
         memory' \in [Process -> AccountRecord],
         flock' \in Job \cup {Free}, upstream' \in Catalogs, clock' \in Time,
         newest' \in [Scopes -> Time], carried' \in BOOLEAN,
         \A k \in Job : /\ flock' = k <=> job'[k].at \in Locking
                        /\ job'[k].at \in Locking => job'[k].todo # <<>>,
         NoLostUpdate'
  PROVE  IInv'
<1>1. ASSUME NEW k \in Job
      PROVE  job'[k].at \in Places /\ job'[k].work \in State /\ job'[k].checked \in Time
  BY DEF JobRecord
<1>2. TypeOK'
  BY <1>1 DEF TypeOK, AccountRecord, Locking, Places
<1> QED
  BY <1>2 DEF IInv, Busy

LEMMA Typed ==
  ASSUME IInv
  PROVE  /\ job \in [Job -> JobRecord] /\ memory \in [Process -> AccountRecord]
         /\ flock \in Job \cup {Free} /\ upstream \in Catalogs /\ clock \in Time
         /\ newest \in [Scopes -> Time] /\ carried \in BOOLEAN /\ file \in State
BY DEF IInv, TypeOK, AccountRecord

LEMMA RefreshStep == ASSUME IInv, NEW j \in Job, Refresh(j) PROVE IInv'
<1> DEFINE moved == Turns(Home[j], file)
           jobs == OutdatedIf(moved, Home[j], job)
<1>1. moved \in BOOLEAN
  BY DEF Turns
<1>2. jobs \in [Job -> JobRecord] /\ \A k \in Job : jobs[k].at = job[k].at
  <2> HIDE DEF moved
  <2> QED
    BY <1>1, OutdatedType, Typed
<1>3. job' = [jobs EXCEPT ![j].at = "checking"]
  BY DEF Refresh
<1> HIDE DEF jobs
<1>4. job' \in [Job -> JobRecord] /\ \A k \in Job : job'[k].at \notin Locking
  <2>1. flock = Free /\ \A k \in Job : job[k].at \notin Locking
    BY Unlocked DEF Refresh
  <2>2. \A rec \in JobRecord : LET new == [rec EXCEPT !.at = "checking"]
                               IN new \in JobRecord /\ new.at = "checking"
    BY DEF JobRecord, Places
  <2> QED
    BY <1>2, <1>3, <2>1, <2>2 DEF Locking
<1>5. memory' \in [Process -> AccountRecord]
  BY SyncedType, JobType DEF Refresh
<1>6. NoLostUpdate'
  BY <1>4 DEF NoLostUpdate, Locking
<1> QED
  BY <1>4, <1>5, <1>6, Typed, LockStep, RuntimeAssumption DEF Refresh

LEMMA RereadStep == ASSUME IInv, NEW p \in Process, Reread(p) PROVE IInv'
<1>1. Turns(p, file) \in BOOLEAN
  BY DEF Turns
<1>2. job' \in [Job -> JobRecord] /\ \A k \in Job : job'[k].at \notin Locking
  BY <1>1, OutdatedType, Typed, Unlocked DEF Reread
<1>3. memory' \in [Process -> AccountRecord]
  BY SyncedType, Typed DEF Reread
<1>4. NoLostUpdate'
  BY <1>2 DEF NoLostUpdate, Locking
<1> QED
  BY <1>2, <1>3, <1>4, Typed, LockStep, RuntimeAssumption DEF Reread

(* The mutation works on the file as it was read under the lock.            *)
LEMMA BeginStep == ASSUME IInv, NEW j \in Job, Begin(j) PROVE IInv'
<1> DEFINE moved == Turns(Home[j], file)
           task == Head(job[j].todo)
           work == Result(j, task, job[j].current /\ ~moved, file)
           jobs == OutdatedIf(moved, Home[j], job)
           place == IF work = file THEN "applying" ELSE "writing"
<1>1. moved \in BOOLEAN
  BY DEF Turns
<1>2. /\ jobs \in [Job -> JobRecord]
      /\ \A k \in Job : jobs[k].at = job[k].at /\ jobs[k].todo = job[k].todo
      /\ jobs[j].current = (job[j].current /\ ~moved)
      /\ jobs[j].checked = job[j].checked /\ jobs[j].under = job[j].under
  <2> HIDE DEF moved
  <2> QED
    BY <1>1, OutdatedType, Typed
<1>3. job[j].todo # <<>> /\ task \in Task /\ task # Peek
  <2>1. job[j].todo \in Seq(Task)
    BY Typed DEF JobRecord
  <2> QED
    BY <2>1 DEF Begin, Ready
<1>4. work \in State
  <2>1. (job[j].current /\ ~moved) \in BOOLEAN
    OBVIOUS
  <2> HIDE DEF task, moved
  <2> QED
    BY <1>3, <2>1, ResultType, Typed
<1>5. job' = [jobs EXCEPT ![j].work = work, ![j].at = place]
  BY DEF Begin
<1>6. /\ job' \in [Job -> JobRecord]
      /\ \A k \in Job : k # j => job'[k] = jobs[k]
      /\ job'[j].at = place /\ job'[j].work = work /\ job'[j].todo = job[j].todo
      /\ job'[j].current = (job[j].current /\ ~moved)
      /\ job'[j].checked = job[j].checked /\ job'[j].under = job[j].under
  <2>1. place \in Locking
    BY DEF Locking
  <2> HIDE DEF jobs, work, place, moved
  <2>2. \A rec \in JobRecord :
          LET new == [rec EXCEPT !.work = work, !.at = place]
          IN /\ new \in JobRecord /\ new.at = place /\ new.work = work
             /\ new.todo = rec.todo /\ new.current = rec.current
             /\ new.checked = rec.checked /\ new.under = rec.under
    BY <1>4, <2>1 DEF JobRecord, Places, Locking
  <2>3. /\ job'[j] = [jobs[j] EXCEPT !.work = work, !.at = place]
        /\ job' = [k \in Job |-> IF k = j THEN [jobs[j] EXCEPT !.work = work, !.at = place]
                                         ELSE jobs[k]]
    BY <1>2, <1>5
  <2> QED
    BY <1>2, <2>2, <2>3
<1>7. flock = Free /\ flock' = j /\ \A k \in Job : job[k].at \notin Locking
  BY Unlocked DEF Begin
<1>8. \A k \in Job : /\ flock' = k <=> job'[k].at \in Locking
                     /\ job'[k].at \in Locking => job'[k].todo # <<>>
  BY <1>2, <1>3, <1>6, <1>7 DEF Locking
<1>9. memory' \in [Process -> AccountRecord] /\ memory'[Home[j]].models = memory[Home[j]].models
  <2>1. memory' = Synced(Home[j], file)
    BY DEF Begin
  <2> QED
    BY <2>1, SyncedType, Typed, HomeType DEF IInv, Synced, AccountRecord
<1>10. UNCHANGED <<scene, file, upstream, clock, newest, carried>>
  BY DEF Begin
<1>11. ASSUME NEW k \in Job, job'[k].at = "writing"
       PROVE  job'[k].work = Result(k, Head(job[k].todo), job[k].current, file)'
  <2>1. k = j
    BY <1>7, <1>8, <1>11 DEF Locking
  <2>2. job'[j].work = Result(j, Head(job'[j].todo), job'[j].current, file)
    BY <1>6
  <2> HIDE DEF moved, task, work, jobs, place
  <2> QED
    BY <2>1, <2>2, <1>6, <1>9, <1>10 DEF Result, Recording, WithCatalog, Outmoded, First, Mine, Home
<1>12. NoLostUpdate'
  BY <1>11 DEF NoLostUpdate
<1> HIDE DEF moved, task, work, jobs, place
<1> QED
  BY <1>6, <1>7, <1>8, <1>9, <1>10, <1>12, Typed, LockStep

LEMMA Holder ==
  ASSUME IInv, NEW j \in Job, job[j].at \in Locking
  PROVE  /\ flock = j /\ \A k \in Job : k # j => job[k].at \notin Locking
         /\ job[j].todo # <<>> /\ job[j].todo \in Seq(Task)
         /\ Head(job[j].todo) \in Task /\ Tail(job[j].todo) \in Seq(Task)
<1>1. job[j].todo # <<>> /\ job[j].todo \in Seq(Task)
  BY Typed DEF IInv, Busy, JobRecord
<1> QED
  BY <1>1, JobType

LEMMA WriteStep == ASSUME IInv, NEW j \in Job, Write(j) PROVE IInv'
<1>1. job[j].at \in Locking
  BY DEF Write, Locking
<1>2. \A rec \in JobRecord :
        LET new == [rec EXCEPT !.at = "applying"]
        IN new \in JobRecord /\ new.at = "applying" /\ new.todo = rec.todo
  BY DEF JobRecord, Places
<1>3. \A rec \in JobRecord :
        LET new == [rec EXCEPT !.overtaken = rec.current]
        IN new \in JobRecord /\ new.at = rec.at /\ new.todo = rec.todo
  BY DEF JobRecord
<1>4. /\ job' \in [Job -> JobRecord] /\ job'[j].at = "applying"
      /\ \A k \in Job : /\ k # j => job'[k].at = job[k].at
                        /\ job'[k].todo = job[k].todo
  <2> DEFINE forgets == \E s \in Scopes : job[j].work.checked[s] < file.checked[s]
             next(k) == CASE k = j -> [job[j] EXCEPT !.at = "applying"]
                          [] Home[k] # Home[j] /\ forgets ->
                               [job[k] EXCEPT !.overtaken = job[k].current]
                          [] OTHER -> job[k]
  <2>1. job' = [k \in Job |-> next(k)]
    BY DEF Write
  <2>2. ASSUME NEW k \in Job
        PROVE  /\ next(k) \in JobRecord /\ next(k).todo = job[k].todo
               /\ IF k = j THEN next(k).at = "applying" ELSE next(k).at = job[k].at
    <3> HIDE DEF forgets
    <3> QED
      BY <1>2, <1>3, Typed
  <2> HIDE DEF next
  <2> QED
    BY <2>1, <2>2
<1>5. \A k \in Job : /\ flock' = k <=> job'[k].at \in Locking
                     /\ job'[k].at \in Locking => job'[k].todo # <<>>
  BY <1>1, <1>4, Holder DEF Write, Locking
<1>6. file' \in State
  BY Typed DEF Write, JobRecord
<1>7. newest' \in [Scopes -> Time]
  BY Typed DEF Write, JobRecord
<1>8. carried' \in BOOLEAN
  BY Typed DEF Write
<1>9. NoLostUpdate'
  BY <1>1, <1>4, Holder DEF NoLostUpdate, Locking
<1>10. UNCHANGED <<scene, memory, flock, upstream, clock>>
  BY DEF Write
<1> QED
  BY <1>4, <1>5, <1>6, <1>7, <1>8, <1>9, <1>10, Typed, LockStep

LEMMA ApplyStep == ASSUME IInv, NEW j \in Job, Apply(j) PROVE IInv'
<1> DEFINE task == Head(job[j].todo)
           moved == \/ Turns(Home[j], job[j].work)
                    \/ task.op = "reset"
                    \/ task.op = "set" /\ (First(j) \/ EntriesChanged(j, task.catalog))
           rest == [job EXCEPT ![j] = Left(j, Tail(job[j].todo))]
<1>1. job[j].at \in Locking
  BY DEF Apply, Locking
<1>2. rest \in [Job -> JobRecord] /\ \A k \in Job : rest[k].at \notin Locking
  <2>1. /\ Left(j, Tail(job[j].todo)) \in JobRecord
        /\ Left(j, Tail(job[j].todo)).at \notin Locking
    BY <1>1, Holder, LeftType DEF Locking
  <2> QED
    BY <1>1, <2>1, Holder, Typed
<1>3. job' = OutdatedIf(moved, Home[j], rest)
  BY DEF Apply
<1>4. moved \in BOOLEAN
  BY DEF Turns
<1>5. job' \in [Job -> JobRecord] /\ \A k \in Job : job'[k].at \notin Locking
  <2> HIDE DEF moved, rest
  <2> QED
    BY <1>2, <1>3, <1>4, OutdatedType
<1>6. memory' \in [Process -> AccountRecord]
  <2>1. job[j].work \in State
    BY Typed DEF JobRecord
  <2>2. Synced(Home[j], job[j].work) \in [Process -> AccountRecord]
    BY <2>1, SyncedType, JobType
  <2>3. task \in Task /\ (task.op = "set" => task.catalog \in AllCatalogs)
    <3>1. task \in Task
      BY <1>1, Holder
    <3> HIDE DEF task
    <3> QED
      BY <3>1 DEF Task, Peek, Verify, Reset
  <2>4. \E models \in AllCatalogs :
          memory' = [Synced(Home[j], job[j].work) EXCEPT ![Home[j]].models = models]
    <3>1. Synced(Home[j], job[j].work)[Home[j]].models \in AllCatalogs
      BY <2>2, JobType DEF AccountRecord
    <3>2. memory' = [Synced(Home[j], job[j].work) EXCEPT
                       ![Home[j]].models = IF task.op = "set" THEN task.catalog ELSE @]
      BY DEF Apply
    <3> HIDE DEF task
    <3> QED
      BY <2>3, <3>1, <3>2
  <2>5. PICK models \in AllCatalogs :
          memory' = [Synced(Home[j], job[j].work) EXCEPT ![Home[j]].models = models]
    BY <2>4
  <2>6. \A rec \in AccountRecord : [rec EXCEPT !.models = models] \in AccountRecord
    BY DEF AccountRecord
  <2> QED
    BY <2>2, <2>5, <2>6
<1>7. flock' = Free /\ UNCHANGED <<scene, file, upstream, clock, newest, carried>>
  BY DEF Apply
<1>8. NoLostUpdate'
  BY <1>5 DEF NoLostUpdate, Locking
<1> HIDE DEF task, moved, rest
<1> QED
  BY <1>5, <1>6, <1>7, <1>8, Typed, LockStep, RuntimeAssumption

LEMMA WriteFailsStep == ASSUME IInv, NEW j \in Job, WriteFails(j) PROVE IInv'
<1>1. job[j].at \in Locking
  BY DEF WriteFails, Locking
<1>2. Abandoned(j) \in JobRecord /\ Abandoned(j).at \notin Locking
  BY <1>1, Holder, AbandonedType
<1>3. job' \in [Job -> JobRecord] /\ \A k \in Job : job'[k].at \notin Locking
  BY <1>1, <1>2, Holder, Typed DEF WriteFails, Set
<1>4. NoLostUpdate'
  BY <1>3 DEF NoLostUpdate, Locking
<1> QED
  BY <1>3, <1>4, Typed, LockStep, RuntimeAssumption DEF WriteFails

-----------------------------------------------------------------------------
(* The world.                                                               *)

(* A process that ends leaves a transaction of another process as it is.    *)
LEMMA RestartStep == ASSUME IInv, NEW p \in Process, Restart(p) PROVE IInv'
<1>1. /\ job' \in [Job -> JobRecord]
      /\ \A k \in Job : \/ job'[k] = job[k] /\ (Home[k] # p \/ job[k].at = "idle")
                        \/ job'[k] = Done /\ Home[k] = p /\ job[k].at # "idle"
  BY IdleType, Typed DEF Restart
<1>2. Done.at \notin Locking
  BY DEF Done, Idle, Locking
<1>3. flock' = IF flock # Free /\ Home[flock] = p THEN Free ELSE flock
  BY DEF Restart
<1>4. \A k \in Job : /\ flock' = k <=> job'[k].at \in Locking
                     /\ job'[k].at \in Locking => job'[k].todo # <<>>
  <2>1. ASSUME NEW k \in Job PROVE flock' = k <=> job'[k].at \in Locking
    <3>1. flock = k <=> job[k].at \in Locking
      BY JobType
    <3>2. k # Free /\ ("idle" \notin Locking)
      BY RuntimeAssumption DEF Locking
    <3> QED
      BY <1>1, <1>2, <1>3, <3>1, <3>2
  <2>2. ASSUME NEW k \in Job, job'[k].at \in Locking PROVE job'[k].todo # <<>>
    BY <1>1, <1>2, <2>2, Holder
  <2> QED
    BY <2>1, <2>2
<1>5. /\ memory' \in [Process -> AccountRecord]
      /\ \A q \in Process : q # p => memory'[q] = memory[q]
  <2>1. Loaded(file) \in AccountRecord
    BY Typed, CatalogType DEF Loaded, AccountRecord
  <2> QED
    BY <2>1, Typed DEF Restart
<1>6. UNCHANGED <<scene, file, upstream, clock, newest, carried>>
  BY DEF Restart
<1>7. flock' \in Job \cup {Free}
  BY <1>3, Typed
<1>8. ASSUME NEW k \in Job, job'[k].at = "writing"
      PROVE  job'[k].work = Result(k, Head(job[k].todo), job[k].current, file)'
  <2>1. job'[k] = job[k] /\ Home[k] # p
    BY <1>1, <1>2, <1>8 DEF Locking
  <2>2. memory'[Home[k]] = memory[Home[k]]
    BY <1>5, <2>1, JobType
  <2>3. job[k].work = Result(k, Head(job[k].todo), job[k].current, file)
    BY <1>8, <2>1 DEF IInv, NoLostUpdate
  <2> QED
    BY <1>6, <2>1, <2>2, <2>3 DEF Result, Recording, WithCatalog, Outmoded, First, Mine, Home
<1>9. NoLostUpdate'
  BY <1>8 DEF NoLostUpdate
<1> QED
  BY <1>1, <1>4, <1>5, <1>6, <1>7, <1>9, Typed, LockStep

LEMMA WorldStep ==
  ASSUME IInv, UNCHANGED <<scene, file, memory, flock, job, newest, carried>>,
         upstream' \in Catalogs, clock' \in Time
  PROVE  IInv'
<1>1. NoLostUpdate'
  BY DEF IInv, NoLostUpdate, Result, Recording, WithCatalog, Outmoded, First, Mine, Home
<1>2. \A k \in Job : /\ flock' = k <=> job'[k].at \in Locking
                     /\ job'[k].at \in Locking => job'[k].todo # <<>>
  BY JobType, Holder
<1> QED
  BY <1>1, <1>2, Typed, LockStep

LEMMA TickStep == ASSUME IInv, Tick PROVE IInv'
<1>1. clock' \in Time
  BY Typed, TimeType DEF Tick
<1> QED
  BY <1>1, Typed, WorldStep DEF Tick

LEMMA CatalogChangesStep == ASSUME IInv, CatalogChanges PROVE IInv'
BY Typed, WorldStep DEF CatalogChanges

LEMMA InitStep == ASSUME Init PROVE IInv
<1>1. file \in State
  BY NewStateType, CatalogType DEF Init, State
<1>2. \A state \in State : Loaded(state) \in AccountRecord /\ WithModels(state) \in AccountRecord
  BY CatalogType, StateType DEF Loaded, WithModels, AccountRecord
<1>3. memory \in [Process -> AccountRecord]
  BY <1>1, <1>2 DEF Init
<1>4. /\ job \in [Job -> JobRecord] /\ \A k \in Job : job[k].at = "idle"
  BY IdleType DEF Init, Idle
<1>5. /\ scene \in Scenes /\ flock = Free /\ upstream \in Catalogs /\ clock \in Time
      /\ newest \in [Scopes -> Time] /\ carried \in BOOLEAN
  BY TimeType DEF Init
<1>6. ASSUME NEW k \in Job
      PROVE  /\ job[k].work \in State /\ job[k].checked \in Time
             /\ flock = k <=> job[k].at \in {"writing", "applying"}
  BY <1>4, <1>5, RuntimeAssumption DEF JobRecord
<1>7. TypeOK
  BY <1>1, <1>3, <1>4, <1>5, <1>6 DEF TypeOK, AccountRecord
<1> QED
  BY <1>4, <1>5, <1>7 DEF IInv, Busy, NoLostUpdate, Locking

LEMMA NextStep == ASSUME IInv, [Next]_vars PROVE IInv'
<1>1. ASSUME NEW j \in Job, JobStep(j) PROVE IInv'
  BY <1>1, AcquireStep, RefreshStep, RefreshFailsStep, CheckStep, EndsWithStep,
     ReleaseStep, PeeksStep, BeginStep, WriteStep, ApplyStep, LockTimesOutStep,
     WriteFailsStep DEF JobStep
<1>2. ASSUME UNCHANGED vars PROVE IInv'
  BY <1>2, Typed, WorldStep DEF vars
<1> QED
  BY <1>1, <1>2, RereadStep, RestartStep, CatalogChangesStep, TickStep DEF Next

(* The inductive invariant holds in every reachable state.                  *)
THEOREM Invariance == Spec => []IInv
<1>1. Init => IInv
  BY InitStep
<1>2. IInv /\ [Next]_vars => IInv'
  BY NextStep
<1> QED
  BY <1>1, <1>2, PTL DEF Spec

(* Every variable keeps its type, and exactly the job inside a transaction  *)
(* (updateRuntimeContext) has the file lock.                                *)
THEOREM TypeCorrect == Spec => []TypeOK
<1>1. IInv => TypeOK
  BY DEF IInv
<1> QED
  BY <1>1, Invariance, PTL

(* No transaction is lost: what a job is about to write is what its result  *)
(* makes of the file as it is, however many processes and requests write.   *)
THEOREM NoUpdateIsLost == Spec => []NoLostUpdate
<1>1. IInv => NoLostUpdate
  BY DEF IInv
<1> QED
  BY <1>1, Invariance, PTL

-----------------------------------------------------------------------------
(* Cooling accounts are refused.  Between its reading of the file and its   *)
(* check, the first lease of a process can only miss a cooldown that another *)
(* process records; but while it is held, the jobs of other processes have  *)
(* no lease, and what runs on without one is a mark, which sets no cooldown. *)

Marks == {<<Peek>>, <<Verify>>}
Plans == {<<>>} \cup Marks \cup Seq(Task \ {Peek, Verify})

Fits(rec, state) ==
  /\ rec.todo \in Plans
  /\ rec.at \in {"refreshing", "checking", "leased"} => rec.lease # "none"
  /\ rec.at \in {"settling"} \cup Locking /\ rec.lease = "none" => rec.todo \in Marks
  /\ rec.at = "applying" => rec.work = state

OneProcess ==
  \A j, k \in Job : job[j].lease # "none" /\ job[k].lease # "none" => Home[j] = Home[k]

Applying(p) == \E k \in Job : job[k].at = "applying" /\ Home[k] = p
Follows(p) ==
  \A s \in Scopes : file.cooling[s].until <= memory[p].state.cooling[s].until

Fresh(j) ==
  job[j].at = "checking" /\ ~job[j].joined => Applying(Home[j]) \/ Follows(Home[j])

CInv ==
  /\ IInv /\ OneProcess
  /\ \A j \in Job : Fits(job[j], file) /\ Fresh(j)

LEMMA PlansType ==
  /\ <<>> \in Plans
  /\ \A plan \in Plans : plan # <<>> =>
       /\ Tail(plan) \in Plans
       /\ Head(plan) \in {Peek, Verify} => plan \in Marks /\ Tail(plan) = <<>>
       /\ plan \in Marks => Head(plan) \in {Peek, Verify}
<1>1. <<>> \in Plans
  BY DEF Plans
<1>2. ASSUME NEW plan \in Marks
      PROVE  plan # <<>> /\ Tail(plan) = <<>> /\ Head(plan) \in {Peek, Verify}
  <2>1. PICK mark \in {Peek, Verify} : plan = <<mark>>
    BY DEF Marks
  <2>2. \A m : <<m>> # <<>> /\ Tail(<<m>>) = <<>> /\ Head(<<m>>) = m
    OBVIOUS
  <2> QED
    BY <2>1, <2>2
<1>3. ASSUME NEW plan \in Seq(Task \ {Peek, Verify}), plan # <<>>
      PROVE  Tail(plan) \in Seq(Task \ {Peek, Verify}) /\ Head(plan) \notin {Peek, Verify}
  <2>1. \A S : plan \in Seq(S) => Tail(plan) \in Seq(S) /\ Head(plan) \in S
    BY <1>3
  <2> QED
    BY <2>1
<1> QED
  BY <1>1, <1>2, <1>3 DEF Plans

LEMMA SetFits ==
  ASSUME CInv, IInv', NEW j \in Job, NEW new, Set(j, new), Fits(new, file),
         job[j].at = "applying" => new.at = "applying",
         new.at = "checking" => new.joined,
         new.lease # "none" => \A k \in Job : job[k].lease # "none" => Home[k] = Home[j],
         UNCHANGED <<scene, file, memory>>
  PROVE  CInv'
<1>1. \A k \in Job : job'[k] = IF k = j THEN new ELSE job[k]
  BY Typed DEF CInv, Set
<1>2. \A k \in Job : Home'[k] = Home[k]
  BY DEF Home
<1>3. OneProcess'
  BY <1>1, <1>2 DEF CInv, OneProcess
<1>4. ASSUME NEW k \in Job PROVE Fits(job[k], file)'
  BY <1>1 DEF CInv, Fits
<1>5. ASSUME NEW k \in Job PROVE Fresh(k)'
  <2>1. SUFFICES ASSUME job'[k].at = "checking", ~job'[k].joined
                 PROVE  (Applying(Home[k]) \/ Follows(Home[k]))'
    BY DEF Fresh
  <2>2. k # j /\ job'[k] = job[k]
    BY <1>1, <2>1
  <2>3. Applying(Home[k]) \/ Follows(Home[k])
    BY <2>1, <2>2 DEF CInv, Fresh
  <2>4. Applying(Home[k]) => Applying(Home[k])'
    BY <1>1, <1>2 DEF Applying
  <2>5. Follows(Home[k]) => Follows(Home[k])'
    BY <1>2 DEF Follows
  <2> QED
    BY <2>3, <2>4, <2>5
<1> QED
  BY <1>3, <1>4, <1>5 DEF CInv

LEMMA DoneFits == ASSUME NEW state PROVE Fits(Done, state) /\ Done.lease = "none" /\ Done.at = "done"
BY PlansType DEF Fits, Done, Idle, Locking

LEMMA LeftFits ==
  ASSUME CInv, NEW j \in Job, NEW todo \in Plans,
         job[j].lease = "none" => todo \in Marks \cup {<<>>}
  PROVE  /\ Fits(Left(j, todo), file)
         /\ Left(j, todo).at \notin Locking \cup {"checking"}
         /\ Left(j, todo).lease = job[j].lease
<1>1. CASE todo # <<>>
  <2> DEFINE more == [job[j] EXCEPT !.at = "settling", !.todo = todo, !.work = NewState]
  <2>1. Left(j, todo) = more
    BY <1>1 DEF Left
  <2>2. /\ more.at = "settling" /\ more.todo = todo /\ more.lease = job[j].lease
    BY Typed DEF CInv, JobRecord
  <2> HIDE DEF more
  <2> QED
    BY <1>1, <2>1, <2>2 DEF Fits, Locking
<1>2. CASE todo = <<>>
  <2> DEFINE last == [Idle EXCEPT !.lease = job[j].lease,
                                  !.at = IF job[j].lease = "none" THEN "done" ELSE "settling"]
  <2>1. Left(j, todo) = last
    BY <1>2 DEF Left
  <2>2. /\ last.at = IF job[j].lease = "none" THEN "done" ELSE "settling"
        /\ last.todo = <<>> /\ last.lease = job[j].lease
    BY DEF Idle
  <2> HIDE DEF last
  <2> QED
    BY <2>1, <2>2, PlansType DEF Fits, Locking
<1> QED
  BY <1>1, <1>2

LEMMA OutcomePlans ==
  ASSUME IInv, NEW j \in Job, NEW end \in Ends
  PROVE  Outcome(j, end) \in Plans
<1>1. /\ Reset \in Task \ {Peek, Verify}
      /\ \A s \in Scopes : {Cool(s), Clear(s)} \subseteq Task \ {Peek, Verify}
      /\ \A c \in AllCatalogs : Put(c) \in Task \ {Peek, Verify}
  <2>1. \A s \in Scopes : /\ Cool(s) \in [op : {"cool"}, scope : Scopes, until : 0 .. MaxTime + 1]
                          /\ Cool(s).op = "cool"
    BY JobType, TimeType DEF Cool
  <2>2. \A s \in Scopes : Clear(s) \in [op : {"clear"}, scope : Scopes] /\ Clear(s).op = "clear"
    BY DEF Clear
  <2>3. \A c \in AllCatalogs : Put(c) \in [op : {"set"}, catalog : AllCatalogs] /\ Put(c).op = "set"
    BY DEF Put
  <2>4. Peek.op = "peek" /\ Verify.op = "verify" /\ Reset.op = "reset"
    BY DEF Peek, Verify, Reset
  <2>5. Reset \in Task \ {Peek, Verify}
    BY <2>4 DEF Task
  <2>6. \A s \in Scopes : {Cool(s), Clear(s)} \subseteq Task \ {Peek, Verify}
    BY <2>1, <2>2, <2>4 DEF Task
  <2>7. \A c \in AllCatalogs : Put(c) \in Task \ {Peek, Verify}
    BY <2>3, <2>4 DEF Task
  <2> QED
    BY <2>5, <2>6, <2>7
<1>2. /\ upstream \in AllCatalogs
      /\ Emptied(Mine(j).state.catalog.tier) \in AllCatalogs
  BY JobType, StateType, CatalogType DEF IInv, TypeOK, AccountRecord
<1>3. "model" \in Scopes /\ "global" \in Scopes
  BY DEF Scopes
<1>4. \A S : \A a, b \in S : <<a>> \in Seq(S) /\ <<a, b>> \in Seq(S)
  OBVIOUS
<1>5. \A a, b \in Task \ {Peek, Verify} : <<a>> \in Plans /\ <<a, b>> \in Plans
  BY <1>4 DEF Plans
<1>6. <<Peek>> \in Plans /\ <<>> \in Plans
  BY DEF Plans, Marks
<1> QED
  BY <1>1, <1>2, <1>3, <1>5, <1>6 DEF Outcome, Ends

LEMMA Lone ==
  ASSUME CInv, NEW j \in Job, job[j].lease # "none"
  PROVE  \A k \in Job : job[k].lease # "none" => Home[k] = Home[j]
BY DEF CInv, OneProcess

LEMMA AcquireFits == ASSUME CInv, NEW j \in Job, Acquire(j) PROVE CInv'
<1>1. IInv'
  BY AcquireStep DEF CInv
<1>2. PICK end \in scene[j].ends :
        /\ IF LeaseFor(end) = "login" THEN Holders = {}
           ELSE \A h \in Holders : Shared(h) /\ Home[h] = Home[j]
        /\ Set(j, [Idle EXCEPT !.lease = LeaseFor(end), !.checked = clock,
                               !.joined = Holders # {},
                               !.at = IF Holders = {} THEN "refreshing" ELSE "checking"])
  BY DEF Acquire
<1>3. LeaseFor(end) \in {"request", "catalog", "login"}
  BY <1>2, EndsType, LeaseForType DEF CInv, IInv
<1> DEFINE new == [Idle EXCEPT !.lease = LeaseFor(end), !.checked = clock,
                               !.joined = Holders # {},
                               !.at = IF Holders = {} THEN "refreshing" ELSE "checking"]
<1>4. /\ new.todo = <<>> /\ new.lease = LeaseFor(end) /\ new.joined = (Holders # {})
      /\ new.at = IF Holders = {} THEN "refreshing" ELSE "checking"
  BY DEF Idle
<1>5. Set(j, new)
  BY <1>2
<1>6. \A k \in Job : job[k].lease # "none" => Home[k] = Home[j]
  BY <1>2 DEF Holders
<1>7. job[j].at = "idle" /\ UNCHANGED <<scene, file, memory>>
  BY DEF Acquire
<1> HIDE DEF new
<1>8. Fits(new, file)
  BY <1>3, <1>4, PlansType DEF Fits, Locking
<1>9. new.at = "checking" => new.joined
  BY <1>4
<1> QED
  BY <1>1, <1>5, <1>6, <1>7, <1>8, <1>9, SetFits

LEMMA CheckFits == ASSUME CInv, NEW j \in Job, Check(j) PROVE CInv'
<1> DEFINE leased == [job[j] EXCEPT !.at = "leased", !.current = TRUE, !.granted = clock,
                                    !.under = Mine(j).state.catalog.entry]
<1>1. /\ leased.at = "leased" /\ leased.lease = job[j].lease /\ leased.todo = job[j].todo
  BY Typed DEF CInv, JobRecord
<1>2. job[j].at = "checking" /\ UNCHANGED <<scene, file, memory>>
  BY DEF Check
<1>3. Set(j, Done) \/ Set(j, leased)
  BY DEF Check, Set
<1>4. IInv'
  BY CheckStep DEF CInv
<1> HIDE DEF leased
<1>5. Fits(job[j], file)
  BY DEF CInv
<1>6. Fits(leased, file) /\ leased.lease # "none"
  BY <1>1, <1>2, <1>5 DEF Fits, Locking
<1>7. CASE Set(j, Done)
  BY <1>2, <1>4, <1>7, DoneFits, SetFits
<1>8. CASE Set(j, leased)
  BY <1>1, <1>2, <1>4, <1>6, <1>8, Lone, SetFits
<1> QED
  BY <1>3, <1>7, <1>8

LEMMA RefreshFailsFits == ASSUME CInv, NEW j \in Job, RefreshFails(j) PROVE CInv'
<1>1. IInv'
  BY RefreshFailsStep DEF CInv
<1> QED
  BY <1>1, DoneFits, SetFits DEF RefreshFails

(* The lemma for steps that end in Left.                                    *)
LEMMA LeftStep ==
  ASSUME CInv, IInv', NEW j \in Job, NEW todo \in Plans, Set(j, Left(j, todo)),
         job[j].lease = "none" => todo \in Marks \cup {<<>>},
         job[j].at # "applying", UNCHANGED <<scene, file, memory>>
  PROVE  CInv'
BY LeftFits, Lone, SetFits

LEMMA EndsWithFits == ASSUME CInv, NEW j \in Job, EndsWith(j) PROVE CInv'
<1>1. PICK end \in scene[j].ends : Set(j, Left(j, Outcome(j, end)))
  BY DEF EndsWith
<1>2. Outcome(j, end) \in Plans
  BY <1>1, EndsType, OutcomePlans DEF CInv, IInv
<1>3. /\ job[j].at = "leased" /\ job[j].lease # "none" /\ UNCHANGED <<scene, file, memory>>
  BY DEF EndsWith, CInv, Fits
<1>4. IInv'
  BY EndsWithStep DEF CInv
<1> QED
  BY <1>1, <1>2, <1>3, <1>4, LeftStep

LEMMA PeeksFits == ASSUME CInv, NEW j \in Job, Peeks(j) PROVE CInv'
<1> DEFINE todo == IF TellsNothing(j) THEN <<>> ELSE <<Verify>>
<1>1. todo \in Plans /\ todo \in Marks \cup {<<>>}
  BY DEF Plans, Marks
<1>2. /\ Set(j, Left(j, todo)) /\ job[j].at # "applying" /\ UNCHANGED <<scene, file, memory>>
  BY DEF Peeks
<1>3. IInv'
  BY PeeksStep DEF CInv
<1> HIDE DEF todo
<1> QED
  BY <1>1, <1>2, <1>3, LeftStep

(* A transaction that is given up.                                          *)
LEMMA AbandonedFits ==
  ASSUME CInv, IInv', NEW j \in Job, Set(j, Abandoned(j)), job[j].todo # <<>>,
         job[j].at \in {"settling", "writing"}, UNCHANGED <<scene, file, memory>>
  PROVE  CInv'
<1> DEFINE todo == IF Head(job[j].todo) = Reset THEN Tail(job[j].todo) ELSE <<>>
<1>1. Fits(job[j], file)
  BY DEF CInv
<1>2. todo \in Plans
  BY <1>1, PlansType DEF Fits
<1>3. job[j].lease = "none" => todo \in Marks \cup {<<>>}
  <2>1. SUFFICES ASSUME job[j].lease = "none" PROVE Head(job[j].todo) # Reset
    OBVIOUS
  <2>2. job[j].todo \in Marks /\ job[j].todo \in Plans
    BY <1>1, <2>1 DEF Fits, Locking
  <2>3. Peek.op = "peek" /\ Verify.op = "verify" /\ Reset.op = "reset"
    BY DEF Peek, Verify, Reset
  <2> QED
    BY <2>2, <2>3, PlansType
<1>4. Set(j, Left(j, todo))
  BY DEF Abandoned
<1> HIDE DEF todo
<1> QED
  BY <1>2, <1>3, <1>4, LeftStep

LEMMA LockTimesOutFits == ASSUME CInv, NEW j \in Job, LockTimesOut(j) PROVE CInv'
<1>1. IInv'
  BY LockTimesOutStep DEF CInv
<1> QED
  BY <1>1, AbandonedFits DEF LockTimesOut, Ready

LEMMA WriteFailsFits == ASSUME CInv, NEW j \in Job, WriteFails(j) PROVE CInv'
<1>1. IInv'
  BY WriteFailsStep DEF CInv
<1>2. job[j].todo # <<>>
  BY Holder DEF CInv, WriteFails, Locking
<1> QED
  BY <1>1, <1>2, AbandonedFits DEF WriteFails

LEMMA ReleaseFits == ASSUME CInv, NEW j \in Job, Release(j) PROVE CInv'
<1>1. IInv' /\ UNCHANGED <<scene, file, memory>>
  BY ReleaseStep DEF CInv, Release
<1>2. CASE job[j].todo = <<>>
  <2>1. job[j].at # "applying"
    BY <1>2, Holder DEF CInv, Locking
  <2> QED
    BY <1>1, <1>2, <2>1, DoneFits, SetFits DEF Release
<1>3. CASE job[j].todo # <<>>
  <2> DEFINE new == [job[j] EXCEPT !.lease = "none"]
  <2>1. /\ new.at = job[j].at /\ new.lease = "none" /\ new.todo = job[j].todo
        /\ new.work = job[j].work /\ new.joined = job[j].joined
    BY Typed DEF CInv, JobRecord
  <2>2. Set(j, new) /\ InBackground(j) /\ job[j].at \in {"settling"} \cup Locking
    BY <1>3 DEF Release, Locking
  <2>3. Fits(job[j], file)
    BY DEF CInv
  <2> HIDE DEF new
  <2>4. job[j].todo \in Marks
    BY <2>2, <2>3, PlansType DEF InBackground, Fits
  <2>5. Fits(new, file)
    BY <2>1, <2>2, <2>3, <2>4 DEF Fits, Locking
  <2>6. new.at # "checking" /\ (job[j].at = "applying" => new.at = "applying")
    BY <2>1, <2>2 DEF Locking
  <2> QED
    BY <1>1, <2>1, <2>2, <2>5, <2>6, SetFits
<1> QED
  BY <1>2, <1>3

(* Steps after which a process remembers something else.                    *)
LEMMA MemoryFits ==
  ASSUME CInv, IInv', UNCHANGED <<scene, file>>,
         \A k \in Job : /\ Fits(job'[k], file)
                        /\ job'[k].lease \in {job[k].lease, "none"},
         \A k \in Job : job'[k].at = "checking" =>
           \/ Follows(Home[k])'
           \/ /\ job[k].at = "checking" /\ job'[k].joined = job[k].joined
              /\ memory'[Home[k]] = memory[Home[k]]
              /\ Applying(Home[k]) => Applying(Home[k])'
  PROVE  CInv'
<1>1. \A k \in Job : Home'[k] = Home[k]
  BY DEF Home
<1>2. OneProcess'
  BY <1>1 DEF CInv, OneProcess
<1>3. ASSUME NEW k \in Job PROVE Fits(job[k], file)'
  BY DEF Fits
<1>4. ASSUME NEW k \in Job PROVE Fresh(k)'
  <2>1. SUFFICES ASSUME job'[k].at = "checking", ~job'[k].joined
                 PROVE  (Applying(Home[k]) \/ Follows(Home[k]))'
    BY DEF Fresh
  <2>2. ASSUME job[k].at = "checking", job'[k].joined = job[k].joined,
               memory'[Home[k]] = memory[Home[k]], Applying(Home[k]) => Applying(Home[k])'
        PROVE  (Applying(Home[k]) \/ Follows(Home[k]))'
    <3>1. Applying(Home[k]) \/ Follows(Home[k])
      BY <2>1, <2>2 DEF CInv, Fresh
    <3>2. Follows(Home[k]) => Follows(Home[k])'
      BY <1>1, <2>2 DEF Follows
    <3> QED
      BY <2>2, <3>1, <3>2
  <2> QED
    BY <2>1, <2>2
<1> QED
  BY <1>2, <1>3, <1>4 DEF CInv

LEMMA SyncedAt ==
  ASSUME IInv, NEW p \in Process, NEW state \in State
  PROVE  /\ Synced(p, state)[p].state = state
         /\ \A q \in Process : q # p => Synced(p, state)[q] = memory[q]
<1>1. memory \in [Process -> AccountRecord]
  BY Typed
<1>2. \A rec \in AccountRecord : [rec EXCEPT !.state = state].state = state
  BY DEF AccountRecord
<1> QED
  BY <1>1, <1>2 DEF Synced

(* What has just been read is not behind the file.                          *)
LEMMA SyncFollows ==
  ASSUME IInv, IInv', scene' = scene, NEW p \in Process, memory'[p].state = file'
  PROVE  Follows(p)'
<1>1. file' \in State
  BY DEF IInv, TypeOK
<1>2. \A s \in Scopes : file'.cooling[s].until \in 0 .. MaxTime + 1
  BY <1>1 DEF State
<1> QED
  BY <1>2, TimeType DEF Follows

(* One process has read the file.                                           *)
LEMMA ReadFits ==
  ASSUME CInv, IInv', UNCHANGED <<scene, file>>, NEW p \in Process,
         memory'[p].state = file', \A q \in Process : q # p => memory'[q] = memory[q],
         \A k \in Job : /\ Fits(job'[k], file)
                        /\ job'[k].lease \in {job[k].lease, "none"},
         \A k \in Job : Home[k] # p =>
           /\ job'[k].at = "checking" =>
                job[k].at = "checking" /\ job'[k].joined = job[k].joined
           /\ job[k].at = "applying" => job'[k].at = "applying"
  PROVE  CInv'
<1>1. Follows(p)'
  BY SyncFollows DEF CInv
<1>2. ASSUME NEW k \in Job, job'[k].at = "checking"
      PROVE  \/ Follows(Home[k])'
             \/ /\ job[k].at = "checking" /\ job'[k].joined = job[k].joined
                /\ memory'[Home[k]] = memory[Home[k]]
                /\ Applying(Home[k]) => Applying(Home[k])'
  <2>1. CASE Home[k] = p
    BY <1>1, <2>1 DEF Follows, Home
  <2>2. CASE Home[k] # p
    <3>1. memory'[Home[k]] = memory[Home[k]]
      BY <2>2, JobType DEF CInv
    <3>2. Applying(Home[k]) => Applying(Home[k])'
      BY <2>2 DEF Applying, Home
    <3> QED
      BY <1>2, <2>2, <3>1, <3>2
  <2> QED
    BY <2>1, <2>2
<1> QED
  BY <1>2, MemoryFits

LEMMA RefreshFits == ASSUME CInv, NEW j \in Job, Refresh(j) PROVE CInv'
<1> DEFINE moved == Turns(Home[j], file)
           jobs == OutdatedIf(moved, Home[j], job)
<1>1. IInv' /\ UNCHANGED <<scene, file>> /\ flock = Free /\ job[j].at = "refreshing"
  BY RefreshStep DEF CInv, Refresh
<1>2. /\ jobs \in [Job -> JobRecord]
      /\ \A k \in Job : /\ jobs[k].at = job[k].at /\ jobs[k].todo = job[k].todo
                        /\ jobs[k].lease = job[k].lease /\ jobs[k].work = job[k].work
                        /\ jobs[k].joined = job[k].joined
  <2>1. moved \in BOOLEAN
    BY DEF Turns
  <2> HIDE DEF moved
  <2> QED
    BY <2>1, OutdatedType, Typed DEF CInv
<1>3. job' = [jobs EXCEPT ![j].at = "checking"]
  BY DEF Refresh
<1> HIDE DEF jobs
<1>4. \A rec \in JobRecord :
        LET new == [rec EXCEPT !.at = "checking"]
        IN new.at = "checking" /\ new.todo = rec.todo /\ new.lease = rec.lease
  BY DEF JobRecord
<1>5. /\ \A k \in Job : job'[k].todo = job[k].todo /\ job'[k].lease = job[k].lease
      /\ job'[j].at = "checking"
      /\ \A k \in Job : k # j => /\ job'[k].at = job[k].at /\ job'[k].work = job[k].work
                                 /\ job'[k].joined = job[k].joined
  BY <1>2, <1>3, <1>4
<1>6. ASSUME NEW k \in Job PROVE Fits(job'[k], file)
  <2>1. Fits(job[k], file)
    BY DEF CInv
  <2> QED
    BY <1>1, <1>5, <2>1 DEF Fits, Locking
<1>7. PICK p \in Process : p = Home[j]
  BY JobType DEF CInv
<1>8. /\ memory'[p].state = file'
      /\ \A q \in Process : q # p => memory'[q] = memory[q]
  BY <1>1, <1>7, SyncedAt, Typed DEF CInv, Refresh
<1> QED
  BY <1>1, <1>5, <1>6, <1>7, <1>8, ReadFits

LEMMA RereadFits == ASSUME CInv, NEW p \in Process, Reread(p) PROVE CInv'
<1>1. IInv' /\ UNCHANGED <<scene, file>>
  BY RereadStep DEF CInv, Reread
<1>2. \A k \in Job : /\ job'[k].at = job[k].at /\ job'[k].todo = job[k].todo
                     /\ job'[k].lease = job[k].lease /\ job'[k].work = job[k].work
                     /\ job'[k].joined = job[k].joined
  <2>1. Turns(p, file) \in BOOLEAN
    BY DEF Turns
  <2> QED
    BY <2>1, OutdatedType, Typed DEF CInv, Reread
<1>3. ASSUME NEW k \in Job PROVE Fits(job'[k], file)
  <2>1. Fits(job[k], file)
    BY DEF CInv
  <2> QED
    BY <1>2, <2>1 DEF Fits
<1>4. /\ memory'[p].state = file'
      /\ \A q \in Process : q # p => memory'[q] = memory[q]
  BY <1>1, SyncedAt, Typed DEF CInv, Reread
<1> QED
  BY <1>1, <1>2, <1>3, <1>4, ReadFits

LEMMA BeginFits == ASSUME CInv, NEW j \in Job, Begin(j) PROVE CInv'
<1> DEFINE moved == Turns(Home[j], file)
           work == Result(j, Head(job[j].todo), job[j].current /\ ~moved, file)
           jobs == OutdatedIf(moved, Home[j], job)
           place == IF work = file THEN "applying" ELSE "writing"
<1>1. IInv' /\ UNCHANGED <<scene, file>> /\ flock = Free /\ job[j].at = "settling"
  BY BeginStep DEF CInv, Begin, Ready
<1>2. /\ jobs \in [Job -> JobRecord]
      /\ \A k \in Job : /\ jobs[k].at = job[k].at /\ jobs[k].todo = job[k].todo
                        /\ jobs[k].lease = job[k].lease /\ jobs[k].work = job[k].work
                        /\ jobs[k].joined = job[k].joined
  <2>1. moved \in BOOLEAN
    BY DEF Turns
  <2> HIDE DEF moved
  <2> QED
    BY <2>1, OutdatedType, Typed DEF CInv
<1>3. job' = [jobs EXCEPT ![j].work = work, ![j].at = place]
  BY DEF Begin
<1>4. place \in Locking /\ (place = "applying" => work = file)
  BY DEF Locking
<1> HIDE DEF jobs, work, place, moved
<1>5. \A rec \in JobRecord :
        LET new == [rec EXCEPT !.work = work, !.at = place]
        IN /\ new.at = place /\ new.todo = rec.todo /\ new.lease = rec.lease
           /\ new.work = work
  BY DEF JobRecord
<1>6. /\ \A k \in Job : job'[k].todo = job[k].todo /\ job'[k].lease = job[k].lease
      /\ job'[j].at = place /\ job'[j].work = work
      /\ \A k \in Job : k # j => /\ job'[k].at = job[k].at /\ job'[k].work = job[k].work
                                 /\ job'[k].joined = job[k].joined
  <2> DEFINE new == [jobs[j] EXCEPT !.work = work, !.at = place]
  <2>1. job'[j] = new /\ \A k \in Job : k # j => job'[k] = jobs[k]
    BY <1>2, <1>3
  <2>2. /\ new.at = place /\ new.todo = jobs[j].todo /\ new.lease = jobs[j].lease
        /\ new.work = work
    BY <1>2, <1>5
  <2> HIDE DEF new
  <2> QED
    BY <1>2, <2>1, <2>2
<1>7. ASSUME NEW k \in Job PROVE Fits(job'[k], file)
  <2>1. Fits(job[k], file)
    BY DEF CInv
  <2> QED
    BY <1>1, <1>4, <1>6, <2>1 DEF Fits, Locking
<1>8. PICK p \in Process : p = Home[j]
  BY JobType DEF CInv
<1>9. /\ memory'[p].state = file'
      /\ \A q \in Process : q # p => memory'[q] = memory[q]
  BY <1>1, <1>8, SyncedAt, Typed DEF CInv, Begin
<1> QED
  BY <1>1, <1>6, <1>7, <1>8, <1>9, ReadFits

(* After the write the memory is what was written, which is the file.       *)
LEMMA ApplyFits == ASSUME CInv, NEW j \in Job, Apply(j) PROVE CInv'
<1> DEFINE task == Head(job[j].todo)
           moved == \/ Turns(Home[j], job[j].work)
                    \/ task.op = "reset"
                    \/ task.op = "set" /\ (First(j) \/ EntriesChanged(j, task.catalog))
           left == Left(j, Tail(job[j].todo))
           rest == [job EXCEPT ![j] = left]
<1>1. /\ IInv' /\ UNCHANGED <<scene, file>> /\ job[j].at = "applying"
      /\ job[j].at \in Locking
  BY ApplyStep DEF CInv, Apply, Locking
<1>2. Fits(job[j], file) /\ job[j].todo # <<>>
  BY <1>1, Holder DEF CInv
<1>3. /\ Tail(job[j].todo) \in Plans
      /\ job[j].lease = "none" => Tail(job[j].todo) \in Marks \cup {<<>>}
  BY <1>1, <1>2, PlansType DEF Fits
<1>4. /\ Fits(left, file) /\ left.at \notin Locking \cup {"checking"}
      /\ left.lease = job[j].lease
  BY <1>3, LeftFits
<1>5. left \in JobRecord
  BY <1>1, Holder, LeftType DEF CInv
<1>6. job' = OutdatedIf(moved, Home[j], rest)
  BY DEF Apply
<1>7. moved \in BOOLEAN
  BY DEF Turns
<1> HIDE DEF left, moved
<1>8. /\ rest \in [Job -> JobRecord] /\ rest[j] = left
      /\ \A k \in Job : k # j => rest[k] = job[k]
  BY <1>5, Typed DEF CInv
<1> HIDE DEF rest
<1>9. \A k \in Job : /\ job'[k].at = rest[k].at /\ job'[k].todo = rest[k].todo
                     /\ job'[k].lease = rest[k].lease /\ job'[k].work = rest[k].work
                     /\ job'[k].joined = rest[k].joined
  BY <1>6, <1>7, <1>8, OutdatedType
<1>10. ASSUME NEW k \in Job
       PROVE  Fits(job'[k], file) /\ job'[k].lease = job[k].lease
  <2>1. Fits(rest[k], file) /\ rest[k].lease = job[k].lease
    BY <1>4, <1>8 DEF CInv
  <2> QED
    BY <1>9, <2>1 DEF Fits
<1>11. PICK p \in Process : p = Home[j]
  BY JobType DEF CInv
<1>12. job[j].work = file /\ job[j].work \in State
  BY <1>1, <1>2, Typed DEF Fits, CInv
<1>13. /\ memory'[p].state = file'
       /\ \A q \in Process : q # p => memory'[q] = memory[q]
  <2>1. /\ Synced(p, file) \in [Process -> AccountRecord] /\ Synced(p, file)[p].state = file
        /\ \A q \in Process : q # p => Synced(p, file)[q] = memory[q]
    BY <1>12, SyncedType, SyncedAt DEF CInv
  <2>2. \E models : memory' = [Synced(p, file) EXCEPT ![p].models = models]
    BY <1>11, <1>12 DEF Apply
  <2>3. PICK models : memory' = [Synced(p, file) EXCEPT ![p].models = models]
    BY <2>2
  <2>4. \A rec \in AccountRecord : [rec EXCEPT !.models = models].state = rec.state
    BY DEF AccountRecord
  <2> QED
    BY <1>1, <2>1, <2>3, <2>4
<1>14. \A k \in Job : k # j => job'[k].at = job[k].at /\ job'[k].joined = job[k].joined
  BY <1>8, <1>9
<1> QED
  BY <1>1, <1>10, <1>11, <1>13, <1>14, ReadFits

(* A mark lifts cooldowns and sets none.                                    *)
LEMMA LiftedLifts ==
  ASSUME NEW state \in State, NEW scope \in Scopes, NEW t \in Time, NEW s \in Scopes
  PROVE  Lifted(state, scope, t).cooling[s].until <= state.cooling[s].until
<1>1. state.cooling[s].until \in Nat /\ 0 <= state.cooling[s].until
  BY StateType, TimeType
<1>2. [state EXCEPT !.checked[scope] = t, !.cooling[scope] = NotCooling].cooling[s]
        = IF s = scope THEN NotCooling ELSE state.cooling[s]
  BY DEF State
<1> QED
  BY <1>1, <1>2 DEF Lifted, NotCooling

LEMMA MarksLift ==
  ASSUME NEW state \in State, NEW entry \in Entries, NEW t \in Time, NEW s \in Scopes
  PROVE  Verified(state, entry, t).cooling[s].until <= state.cooling[s].until
<1>1. ASSUME NEW st \in State
      PROVE  Cleared(st, "model", t).cooling[s].until <= st.cooling[s].until
  <2>1. "model" \in Scopes /\ "global" \in Scopes
    BY DEF Scopes
  <2> DEFINE once == Lifted(st, "model", t)
             twice == Lifted(once, "global", t)
  <2>2. once \in State /\ once.cooling[s].until <= st.cooling[s].until
    BY <2>1, LiftedType, LiftedLifts
  <2>3. twice \in State /\ twice.cooling[s].until <= once.cooling[s].until
    <3> HIDE DEF once
    <3> QED
      BY <2>1, <2>2, LiftedType, LiftedLifts
  <2>4. Cleared(st, "model", t) = twice
    BY DEF Cleared
  <2> HIDE DEF once, twice
  <2>5. /\ st.cooling[s].until \in Nat /\ once.cooling[s].until \in Nat
        /\ twice.cooling[s].until \in Nat
    BY <2>2, <2>3, StateType, TimeType
  <2> QED
    BY <2>2, <2>3, <2>4, <2>5
<1> DEFINE known == state.checked["model"] = t /\ state.verified # Unverified
           good == [state EXCEPT !.verified = IF known THEN @ ELSE entry]
<1>2. good \in State /\ good.cooling = state.cooling
  BY DEF State, Entries
<1>3. Verified(state, entry, t)
        = Cleared(IF state.checked["model"] <= t THEN good ELSE state, "model", t)
  BY DEF Verified
<1> HIDE DEF good
<1> QED
  BY <1>1, <1>2, <1>3

LEMMA WriteFits == ASSUME CInv, NEW j \in Job, Write(j) PROVE CInv'
<1>1. IInv' /\ file' = job[j].work /\ UNCHANGED <<scene, memory>>
  BY WriteStep DEF CInv, Write
<1>2. /\ job[j].at = "writing" /\ \A k \in Job : k # j => job[k].at \notin Locking
      /\ job[j].todo # <<>>
  BY Holder DEF CInv, Write, Locking
<1>3. \A rec \in JobRecord :
        /\ LET new == [rec EXCEPT !.at = "applying"]
           IN /\ new.at = "applying" /\ new.todo = rec.todo /\ new.lease = rec.lease
              /\ new.work = rec.work
        /\ LET new == [rec EXCEPT !.overtaken = rec.current]
           IN /\ new.at = rec.at /\ new.todo = rec.todo /\ new.lease = rec.lease
              /\ new.work = rec.work /\ new.joined = rec.joined
  BY DEF JobRecord
<1>4. /\ \A k \in Job : job'[k].todo = job[k].todo /\ job'[k].lease = job[k].lease
      /\ job'[j].at = "applying" /\ job'[j].work = job[j].work
      /\ \A k \in Job : k # j => job'[k].at = job[k].at /\ job'[k].joined = job[k].joined
  <2> DEFINE forgets == \E s \in Scopes : job[j].work.checked[s] < file.checked[s]
             next(k) == CASE k = j -> [job[j] EXCEPT !.at = "applying"]
                          [] Home[k] # Home[j] /\ forgets ->
                               [job[k] EXCEPT !.overtaken = job[k].current]
                          [] OTHER -> job[k]
  <2>1. job' = [k \in Job |-> next(k)]
    BY DEF Write
  <2>2. ASSUME NEW k \in Job
        PROVE  /\ next(k).todo = job[k].todo /\ next(k).lease = job[k].lease
               /\ k = j => next(k).at = "applying" /\ next(k).work = job[k].work
               /\ k # j => next(k).at = job[k].at /\ next(k).joined = job[k].joined
    <3> HIDE DEF forgets
    <3> QED
      BY <1>3, Typed DEF CInv
  <2> HIDE DEF next
  <2> QED
    BY <2>1, <2>2
<1>5. ASSUME NEW k \in Job PROVE Fits(job[k], file)'
  <2>1. Fits(job[k], file)
    BY DEF CInv
  <2> QED
    BY <1>1, <1>2, <1>4, <2>1 DEF Fits, Locking
<1>6. \A k \in Job : Home'[k] = Home[k]
  BY <1>1 DEF Home
<1>7. OneProcess'
  BY <1>4, <1>6 DEF CInv, OneProcess
<1>8. ASSUME NEW k \in Job PROVE Fresh(k)'
  <2>1. SUFFICES ASSUME job'[k].at = "checking", ~job'[k].joined
                 PROVE  (Applying(Home[k]) \/ Follows(Home[k]))'
    BY DEF Fresh
  <2>2. k # j /\ job[k].at = "checking" /\ ~job[k].joined
    BY <1>4, <2>1
  <2>3. CASE Home[k] = Home[j]
    BY <1>4, <1>6, <2>3 DEF Applying
  <2>4. CASE Home[k] # Home[j]
    <3>1. job[k].lease # "none" /\ Fits(job[j], file)
      BY <2>2 DEF CInv, Fits
    <3>2. job[j].lease = "none"
      BY <2>4, <3>1, Lone
    <3>3. Head(job[j].todo) \in {Peek, Verify}
      BY <1>2, <3>1, <3>2, PlansType DEF Fits, Locking
    <3>4. Head(job[j].todo).op \notin {"reset", "set", "cool", "clear"}
      BY <3>3 DEF Peek, Verify
    <3>5. job[j].work = Result(j, Head(job[j].todo), job[j].current, file)
      BY <1>2 DEF CInv, IInv, NoLostUpdate
    <3>6. \/ job[j].work = file
          \/ job[j].work = Verified(file, job[j].under, job[j].checked)
      BY <3>4, <3>5 DEF Result, Recording
    <3>7. /\ file \in State /\ file' \in State
          /\ job[j].under \in Entries /\ job[j].checked \in Time
      BY <1>1, Typed DEF CInv, JobRecord
    <3>8. \A s \in Scopes : file'.cooling[s].until <= file.cooling[s].until
      <4>1. \A s \in Scopes : file.cooling[s].until \in Nat
        BY <3>7, StateType, TimeType
      <4> QED
        BY <1>1, <3>6, <3>7, <4>1, MarksLift
    <3>9. Follows(Home[k])
      <4>1. ~Applying(Home[k])
        BY <1>2 DEF Applying, Locking
      <4> QED
        BY <2>2, <4>1 DEF CInv, Fresh
    <3>10. \A s \in Scopes : /\ file.cooling[s].until \in Nat
                             /\ file'.cooling[s].until \in Nat
                             /\ memory[Home[k]].state.cooling[s].until \in Nat
      <4>1. memory[Home[k]].state \in State
        BY JobType DEF CInv, Mine, AccountRecord
      <4> QED
        BY <3>7, <4>1, StateType, TimeType
    <3>11. \A s \in Scopes : file'.cooling[s].until <= memory[Home[k]].state.cooling[s].until
      BY <3>8, <3>9, <3>10 DEF Follows
    <3> QED
      BY <1>1, <1>6, <3>11 DEF Follows
  <2> QED
    BY <2>3, <2>4
<1> QED
  BY <1>1, <1>5, <1>7, <1>8 DEF CInv

LEMMA RestartFits == ASSUME CInv, NEW p \in Process, Restart(p) PROVE CInv'
<1>1. IInv' /\ UNCHANGED <<scene, file>>
  BY RestartStep DEF CInv, Restart
<1>2. \A k \in Job : \/ job'[k] = job[k] /\ (Home[k] # p \/ job[k].at = "idle")
                     \/ job'[k] = Done /\ Home[k] = p
  BY Typed DEF CInv, Restart
<1>3. ASSUME NEW k \in Job PROVE Fits(job'[k], file) /\ job'[k].lease \in {job[k].lease, "none"}
  BY <1>2, DoneFits DEF CInv
<1>4. /\ memory'[p].state = file'
      /\ \A q \in Process : q # p => memory'[q] = memory[q]
  BY <1>1, Typed DEF CInv, Restart, Loaded
<1> QED
  BY <1>1, <1>2, <1>3, <1>4, ReadFits

LEMMA WorldFits ==
  ASSUME CInv, IInv', UNCHANGED <<scene, file, memory, job>>
  PROVE  CInv'
<1>1. \A k \in Job : Home'[k] = Home[k]
  BY DEF Home
<1> QED
  BY <1>1 DEF CInv, OneProcess, Fits, Fresh, Applying, Follows

LEMMA InitFits == ASSUME Init PROVE CInv
<1>1. IInv
  BY InitStep
<1>2. \A k \in Job : job[k] = Idle
  BY DEF Init
<1>3. Fits(Idle, file) /\ Idle.lease = "none" /\ Idle.at = "idle"
  BY PlansType DEF Fits, Idle, Locking
<1> QED
  BY <1>1, <1>2, <1>3 DEF CInv, OneProcess, Fresh

LEMMA NextFits == ASSUME CInv, [Next]_vars PROVE CInv'
<1>1. IInv'
  BY NextStep DEF CInv
<1>2. ASSUME NEW j \in Job, JobStep(j) PROVE CInv'
  BY <1>2, AcquireFits, RefreshFits, RefreshFailsFits, CheckFits, EndsWithFits,
     ReleaseFits, PeeksFits, BeginFits, WriteFits, ApplyFits, LockTimesOutFits,
     WriteFailsFits DEF JobStep
<1>3. CASE UNCHANGED vars \/ CatalogChanges \/ Tick
  BY <1>1, <1>3, WorldFits DEF vars, CatalogChanges, Tick
<1> QED
  BY <1>2, <1>3, RereadFits, RestartFits DEF Next

LEMMA Granted ==
  ASSUME CInv, [Next]_vars, NEW j \in Job, job[j].at = "checking", job'[j].at = "leased"
  PROVE  Check(j)
<1>1. ASSUME JobStep(j) PROVE Check(j)
  BY <1>1 DEF JobStep, Acquire, Refresh, RefreshFails, EndsWith, Release, Peeks, Begin,
              Write, Apply, LockTimesOut, WriteFails, Ready
<1>2. ASSUME NEW k \in Job, k # j, JobStep(k) PROVE job'[j].at = job[j].at
  <2>1. ASSUME NEW new, Set(k, new) PROVE job'[j] = job[j]
    BY <1>2, <2>1, Typed DEF CInv, Set
  <2>2. ASSUME NEW moved \in BOOLEAN, NEW jobs \in [Job -> JobRecord], NEW p
        PROVE  OutdatedIf(moved, p, jobs)[j].at = jobs[j].at
    BY <2>2, OutdatedType
  <2>3. CASE Acquire(k) \/ Check(k) \/ RefreshFails(k) \/ EndsWith(k) \/ Release(k)
             \/ Peeks(k) \/ LockTimesOut(k) \/ WriteFails(k)
    BY <2>1, <2>3 DEF Acquire, Check, RefreshFails, EndsWith, Release, Peeks,
                      LockTimesOut, WriteFails
  <2>4. \A p \in Process : Turns(p, file) \in BOOLEAN
    BY DEF Turns
  <2>5. CASE Refresh(k)
    <3> DEFINE jobs == OutdatedIf(Turns(Home[k], file), Home[k], job)
    <3>1. jobs[j].at = job[j].at /\ jobs \in [Job -> JobRecord]
      BY <2>4, OutdatedType, JobType, Typed DEF CInv
    <3>2. job' = [jobs EXCEPT ![k].at = "checking"]
      BY <2>5 DEF Refresh
    <3> HIDE DEF jobs
    <3> QED
      BY <1>2, <3>1, <3>2
  <2>6. CASE Begin(k)
    <3> DEFINE jobs == OutdatedIf(Turns(Home[k], file), Home[k], job)
    <3>1. jobs[j].at = job[j].at /\ jobs \in [Job -> JobRecord]
      BY <2>4, OutdatedType, JobType, Typed DEF CInv
    <3>2. \E work, place : job' = [jobs EXCEPT ![k].work = work, ![k].at = place]
      BY <2>6 DEF Begin
    <3> HIDE DEF jobs
    <3> QED
      BY <1>2, <3>1, <3>2
  <2>7. CASE Write(k)
    <3>1. \/ job'[j] = job[j] \/ job'[j] = [job[j] EXCEPT !.overtaken = job[j].current]
      BY <1>2, <2>7 DEF Write
    <3>2. \A rec \in JobRecord : [rec EXCEPT !.overtaken = rec.current].at = rec.at
      BY DEF JobRecord
    <3> QED
      BY <3>1, <3>2, Typed DEF CInv
  <2>8. CASE Apply(k)
    <3> DEFINE rest == [job EXCEPT ![k] = Left(k, Tail(job[k].todo))]
    <3>1. rest \in [Job -> JobRecord] /\ rest[j] = job[j]
      <4>1. Left(k, Tail(job[k].todo)) \in JobRecord
        BY <2>8, Holder, LeftType DEF CInv, Apply, Locking
      <4> QED
        BY <1>2, <4>1, Typed DEF CInv
    <3>2. \E moved \in BOOLEAN : job' = OutdatedIf(moved, Home[k], rest)
      <4> DEFINE task == Head(job[k].todo)
                 moved == \/ Turns(Home[k], job[k].work)
                          \/ task.op = "reset"
                          \/ task.op = "set" /\ (First(k) \/ EntriesChanged(k, task.catalog))
      <4>1. moved \in BOOLEAN
        BY DEF Turns
      <4>2. job' = OutdatedIf(moved, Home[k], rest)
        BY <2>8 DEF Apply
      <4> HIDE DEF moved, rest
      <4> QED
        BY <4>1, <4>2
    <3> HIDE DEF rest
    <3> QED
      BY <3>1, <3>2, OutdatedType
  <2> QED
    BY <1>2, <2>3, <2>5, <2>6, <2>7, <2>8 DEF JobStep
<1>3. ASSUME NEW p \in Process, Reread(p) PROVE job'[j].at = job[j].at
  <2>1. Turns(p, file) \in BOOLEAN
    BY DEF Turns
  <2> QED
    BY <1>3, <2>1, OutdatedType, Typed DEF CInv, Reread
<1>4. ASSUME NEW p \in Process, Restart(p) PROVE job'[j] = job[j] \/ job'[j].at = "done"
  BY <1>4, DoneFits DEF Restart
<1>5. CASE UNCHANGED vars \/ CatalogChanges \/ Tick
  BY <1>5 DEF vars, CatalogChanges, Tick
<1> QED
  BY <1>1, <1>2, <1>3, <1>4, <1>5 DEF Next

(* What follows the file refuses what the file refuses.                     *)
LEMMA RefusedFollows ==
  ASSUME CInv, NEW p \in Process, Follows(p), NEW lease, Refused(file, lease)
  PROVE  Refused(memory[p].state, lease)
<1>1. /\ clock \in Nat
      /\ \A s \in Scopes : /\ file.cooling[s].until \in Nat
                           /\ memory[p].state.cooling[s].until \in Nat
  <2>1. file \in State /\ memory[p].state \in State
    BY Typed DEF CInv, AccountRecord
  <2> QED
    BY <2>1, StateType, TimeType, Typed DEF CInv
<1>2. \A s \in Scopes : Active(file, s) => Active(memory[p].state, s)
  BY <1>1 DEF Follows, Active
<1>3. "global" \in Scopes
  BY DEF Scopes
<1> QED
  BY <1>2, <1>3 DEF Refused

(* The first lease of a process is not granted while the file, which other  *)
(* processes have written, says that the account is cooling for it: from    *)
(* refreshAccountRuntime to the check in refreshAndValidateLease the memory *)
(* of the process does not fall behind the file.                            *)
THEOREM CoolingIsRefused == Spec => CoolingRefused
<1>1. Init => CInv
  BY InitFits
<1>2. CInv /\ [Next]_vars => CInv'
  BY NextFits
<1>3. CInv /\ [Next]_vars =>
        \A j \in Job :
          /\ job[j].at = "checking" /\ ~job[j].joined /\ job'[j].at = "leased"
          /\ flock # Free => Home[flock] # Home[j]
          => ~Refused(file, job[j].lease)
  <2>1. SUFFICES ASSUME CInv, [Next]_vars, NEW j \in Job,
                        job[j].at = "checking", ~job[j].joined, job'[j].at = "leased",
                        flock # Free => Home[flock] # Home[j]
                 PROVE  ~Refused(file, job[j].lease)
    OBVIOUS
  <2>2. ~Applying(Home[j])
    <3>1. ASSUME NEW k \in Job, job[k].at = "applying" PROVE flock = k /\ k # Free
      BY <2>1, <3>1, Holder, RuntimeAssumption DEF CInv, Locking
    <3> QED
      BY <2>1, <3>1 DEF Applying
  <2>3. Follows(Home[j])
    BY <2>1, <2>2 DEF CInv, Fresh
  <2>4. ~Refused(Mine(j).state, job[j].lease)
    <3>1. Check(j)
      BY <2>1, Granted
    <3>2. Refused(Mine(j).state, job[j].lease) => job'[j].at = "done"
      BY <2>1, <3>1, DoneFits, Typed DEF Check, Set, CInv
    <3> QED
      BY <2>1, <3>2
  <2> QED
    BY <2>1, <2>3, <2>4, RefusedFollows, JobType DEF CInv, Mine
<1> QED
  BY <1>1, <1>2, <1>3, PTL DEF Spec, CoolingRefused

-----------------------------------------------------------------------------
(* Results and marks are in order.  The check times of the file, when they  *)
(* have not been forgotten since, are those of the newest results; whoever  *)
(* forgets them ends the generation of its own process (Moving: it is about *)
(* to), and overtakes the leases of the others.                             *)

Moves(j) ==
  LET task == Head(job[j].todo)
  IN \/ Turns(Home[j], job[j].work)
     \/ task.op = "reset"
     \/ task.op = "set" /\ (First(j) \/ EntriesChanged(j, task.catalog))

Moving(p) == \E h \in Job : job[h].at = "applying" /\ Home[h] = p /\ Moves(h)

(* A lease of the current generation was checked under the entry that its   *)
(* process still remembers.                                                 *)
Noted(rec, state) ==
  /\ rec.checked <= clock
  /\ rec.at = "idle" => ~rec.current
  /\ rec.current => rec.checked <= rec.granted /\ rec.under = state.catalog.entry

InOrder(rec) ==
  rec.current /\ ~rec.overtaken =>
    \A s \in Scopes : newest[s] <= rec.granted \/ newest[s] = file.checked[s]

OInv ==
  /\ IInv
  /\ VerifiedByEntry
  /\ \A s \in Scopes : newest[s] <= clock
  /\ \A j \in Job :
       /\ Noted(job[j], Mine(j).state)
       /\ InOrder(job[j]) \/ Moving(Home[j])
       /\ job[j].at = "writing" => Mine(j).state = file

(* What becomes of a lease: it goes on as it was, or is granted now.        *)
GoesOn(new, old, state) ==
  /\ new.checked <= clock
  /\ new.at = "idle" => ~new.current
  /\ new.current =>
       \/ /\ old.current
          /\ new.checked = old.checked /\ new.granted = old.granted
          /\ new.under = old.under /\ new.overtaken = old.overtaken
       \/ new.granted = clock /\ new.under = state.catalog.entry

LEMMA ClockType == ASSUME IInv
  PROVE /\ clock \in Nat
        /\ \A s \in Scopes : newest[s] \in Nat /\ file.checked[s] \in Nat
        /\ \A j \in Job : job[j].checked \in Nat /\ job[j].granted \in Nat
<1>1. Time \subseteq Nat
  BY DEF Time
<1> QED
  BY <1>1, Typed, StateType DEF JobRecord

LEMMA GoesOnNoted ==
  ASSUME OInv, NEW k \in Job, NEW new \in JobRecord, NEW state,
         GoesOn(new, job[k], state),
         state.catalog = Mine(k).state.catalog \/ ~new.current
  PROVE  Noted(new, state) /\ (InOrder(job[k]) => InOrder(new))
<1>1. Noted(job[k], Mine(k).state) /\ \A s \in Scopes : newest[s] <= clock
  BY DEF OInv
<1>2. clock \in Nat
  BY ClockType DEF OInv
<1>3. Noted(new, state)
  BY <1>1, <1>2 DEF GoesOn, Noted
<1>4. ASSUME InOrder(job[k]) PROVE InOrder(new)
  BY <1>1, <1>4 DEF GoesOn, InOrder
<1> QED
  BY <1>3, <1>4

(* Steps that write no file.                                                *)
LEMMA ReadOrder ==
  ASSUME OInv, IInv', UNCHANGED <<scene, file, newest, carried, clock>>,
         \A k \in Job :
           /\ GoesOn(job'[k], job[k], memory'[Home[k]].state)
           /\ job'[k].current => memory'[Home[k]].state.catalog = Mine(k).state.catalog
           /\ job'[k].current => InOrder(job[k]) \/ Moving(Home[k])'
           /\ job'[k].at = "writing" => memory'[Home[k]].state = file
  PROVE  OInv'
<1>1. \A k \in Job : Home'[k] = Home[k] /\ Mine(k)' = memory'[Home[k]]
  BY DEF Home, Mine
<1>2. VerifiedByEntry' /\ \A s \in Scopes : newest'[s] <= clock'
  BY DEF OInv, VerifiedByEntry
<1>3. ASSUME NEW k \in Job
      PROVE  /\ Noted(job[k], Mine(k).state)'
             /\ (InOrder(job[k]) \/ Moving(Home[k]))'
             /\ (job[k].at = "writing" => Mine(k).state = file)'
  <2> DEFINE new == job'[k]
             state == memory'[Home[k]].state
  <2>1. new \in JobRecord /\ GoesOn(new, job[k], state)
    BY DEF IInv
  <2>2. state.catalog = Mine(k).state.catalog \/ ~new.current
    OBVIOUS
  <2>3. Noted(new, state) /\ (InOrder(job[k]) => InOrder(new))
    <3> HIDE DEF new, state
    <3> QED
      BY <2>1, <2>2, GoesOnNoted
  <2>4. Noted(job[k], Mine(k).state)'
    BY <1>1, <2>3 DEF Noted
  <2>5. InOrder(new) => InOrder(job[k])'
    BY DEF InOrder
  <2>6. ~new.current => InOrder(new)
    BY DEF InOrder
  <2>7. (InOrder(job[k]) \/ Moving(Home[k]))'
    BY <1>1, <2>3, <2>5, <2>6
  <2> QED
    BY <1>1, <2>4, <2>7
<1> QED
  BY <1>2, <1>3 DEF OInv

(* One job goes on; what another is applying stays.                         *)
LEMMA SetOrder ==
  ASSUME OInv, IInv', NEW j \in Job, NEW new \in JobRecord, Set(j, new),
         UNCHANGED <<scene, file, memory, newest, carried, clock>>,
         GoesOn(new, job[j], Mine(j).state),
         new.at = "writing" => job[j].at = "writing",
         job[j].at = "applying" =>
           new.at = "applying" /\ new.todo = job[j].todo /\ new.work = job[j].work
  PROVE  OInv'
<1>1. job' = [job EXCEPT ![j] = new] /\ \A k \in Job : job'[k] = IF k = j THEN new ELSE job[k]
  BY Typed DEF OInv, Set
<1>2. ASSUME NEW k \in Job PROVE GoesOn(job[k], job[k], Mine(k).state)
  BY DEF OInv, Noted, GoesOn
<1>3. \A k \in Job : Mine(k) = memory'[Home[k]] /\ Home'[k] = Home[k]
  BY DEF Mine, Home
<1>4. ASSUME NEW p, Moving(p) PROVE Moving(p)'
  <2>1. PICK h \in Job : job[h].at = "applying" /\ Home[h] = p /\ Moves(h)
    BY <1>4 DEF Moving
  <2>2. /\ job'[h].at = "applying" /\ job'[h].todo = job[h].todo
        /\ job'[h].work = job[h].work
    BY <1>1, <2>1
  <2>3. Moves(h)'
    BY <1>3, <2>1, <2>2 DEF Moves, Turns, First, EntriesChanged, Mine
  <2> QED
    BY <1>3, <2>1, <2>2, <2>3 DEF Moving
<1>5. ASSUME NEW k \in Job
      PROVE  /\ GoesOn(job'[k], job[k], memory'[Home[k]].state)
             /\ memory'[Home[k]].state.catalog = Mine(k).state.catalog
             /\ InOrder(job[k]) \/ Moving(Home[k])'
             /\ job'[k].at = "writing" => memory'[Home[k]].state = file
  <2>1. GoesOn(job'[k], job[k], Mine(k).state)
    BY <1>1, <1>2
  <2>2. /\ InOrder(job[k]) \/ Moving(Home[k])
        /\ job[k].at = "writing" => Mine(k).state = file
    BY DEF OInv
  <2>3. job'[k].at = "writing" => job[k].at = "writing"
    BY <1>1
  <2>4. Moving(Home[k]) => Moving(Home[k])'
    BY <1>4, <1>3 DEF Moving
  <2> QED
    BY <1>3, <2>1, <2>2, <2>3, <2>4
<1> QED
  BY <1>5, ReadOrder

LEMMA DoneGoesOn ==
  ASSUME OInv, NEW old, NEW state
  PROVE  GoesOn(Done, old, state) /\ Done.at = "done"
<1>1. Done.checked = 0 /\ Done.current = FALSE /\ Done.at = "done"
  BY DEF Done, Idle
<1>2. clock \in Nat
  BY ClockType DEF OInv
<1> QED
  BY <1>1, <1>2 DEF GoesOn

LEMMA LeftGoesOn ==
  ASSUME OInv, NEW j \in Job, NEW todo \in Seq(Task), NEW state
  PROVE  GoesOn(Left(j, todo), job[j], state)
<1> DEFINE more == [job[j] EXCEPT !.at = "settling", !.todo = todo, !.work = NewState]
           last == [Idle EXCEPT !.lease = job[j].lease,
                                !.at = IF job[j].lease = "none" THEN "done" ELSE "settling"]
<1>1. job[j] \in JobRecord /\ job[j].checked <= clock /\ clock \in Nat
  BY Typed, ClockType DEF OInv, Noted
<1>2. GoesOn(more, job[j], state)
  BY <1>1 DEF GoesOn, JobRecord
<1>3. last.checked = 0 /\ last.current = FALSE
  BY DEF Idle
<1>4. GoesOn(last, job[j], state)
  BY <1>1, <1>3 DEF GoesOn
<1> HIDE DEF more, last
<1>5. Left(j, todo) = IF todo # <<>> THEN more ELSE last
  BY DEF Left, more, last
<1> QED
  BY <1>2, <1>4, <1>5

LEMMA AcquireOrder == ASSUME OInv, NEW j \in Job, Acquire(j) PROVE OInv'
<1>1. PICK end \in scene[j].ends :
        Set(j, [Idle EXCEPT !.lease = LeaseFor(end), !.checked = clock,
                            !.joined = Holders # {},
                            !.at = IF Holders = {} THEN "refreshing" ELSE "checking"])
  BY DEF Acquire
<1> DEFINE new == [Idle EXCEPT !.lease = LeaseFor(end), !.checked = clock,
                               !.joined = Holders # {},
                               !.at = IF Holders = {} THEN "refreshing" ELSE "checking"]
<1>2. new.checked = clock /\ new.current = FALSE /\ new.at \in {"refreshing", "checking"}
  BY DEF Idle
<1>3. IInv'
  BY AcquireStep DEF OInv
<1>4. /\ Set(j, new) /\ job[j].at = "idle"
      /\ UNCHANGED <<scene, file, memory, newest, carried, clock>>
  BY <1>1 DEF Acquire
<1> HIDE DEF new
<1>5. job'[j] = new /\ new \in JobRecord
  BY <1>3, <1>4, Typed DEF OInv, IInv, Set
<1>6. GoesOn(new, job[j], Mine(j).state)
  BY <1>2, ClockType DEF GoesOn, OInv
<1> QED
  BY <1>2, <1>3, <1>4, <1>5, <1>6, SetOrder

LEMMA CheckOrder == ASSUME OInv, NEW j \in Job, Check(j) PROVE OInv'
<1> DEFINE leased == [job[j] EXCEPT !.at = "leased", !.current = TRUE, !.granted = clock,
                                    !.under = Mine(j).state.catalog.entry]
           new == IF Refused(Mine(j).state, job[j].lease) THEN Done ELSE leased
<1>1. IInv'
  BY CheckStep DEF OInv
<1>2. /\ Set(j, new) /\ job[j].at = "checking"
      /\ UNCHANGED <<scene, file, memory, newest, carried, clock>>
  BY DEF Check
<1>3. job[j] \in JobRecord /\ job[j].checked <= clock /\ clock \in Nat
  BY Typed, ClockType DEF OInv, Noted
<1>4. GoesOn(leased, job[j], Mine(j).state) /\ leased.at = "leased"
  BY <1>3 DEF GoesOn, JobRecord
<1> HIDE DEF leased
<1>5. GoesOn(new, job[j], Mine(j).state) /\ new.at \in {"leased", "done"}
  BY <1>4, DoneGoesOn
<1> HIDE DEF new
<1>6. job'[j] = new /\ new \in JobRecord
  BY <1>1, <1>2, Typed DEF OInv, IInv, Set
<1> QED
  BY <1>1, <1>2, <1>5, <1>6, SetOrder

LEMMA RefreshFailsOrder == ASSUME OInv, NEW j \in Job, RefreshFails(j) PROVE OInv'
<1>1. IInv' /\ Done \in JobRecord
  BY RefreshFailsStep, IdleType DEF OInv
<1> QED
  BY <1>1, DoneGoesOn, SetOrder DEF RefreshFails

LEMMA EndsWithOrder == ASSUME OInv, NEW j \in Job, EndsWith(j) PROVE OInv'
<1>1. PICK end \in scene[j].ends : Set(j, Left(j, Outcome(j, end)))
  BY DEF EndsWith
<1>2. Outcome(j, end) \in Seq(Task)
  BY <1>1, EndsType, OutcomeType DEF OInv, IInv
<1>3. /\ Left(j, Outcome(j, end)) \in JobRecord
      /\ Left(j, Outcome(j, end)).at \in {"settling", "done"}
      /\ GoesOn(Left(j, Outcome(j, end)), job[j], Mine(j).state)
  BY <1>2, LeftType, LeftGoesOn DEF OInv
<1>4. IInv'
  BY EndsWithStep DEF OInv
<1> QED
  BY <1>1, <1>3, <1>4, SetOrder DEF EndsWith

LEMMA PeeksOrder == ASSUME OInv, NEW j \in Job, Peeks(j) PROVE OInv'
<1> DEFINE todo == IF TellsNothing(j) THEN <<>> ELSE <<Verify>>
<1>1. todo \in Seq(Task)
  <2>1. <<>> \in Seq(Task) /\ <<Verify>> \in Seq(Task)
    BY DEF Task
  <2> QED
    BY <2>1
<1>2. /\ Set(j, Left(j, todo)) /\ job[j].at = "settling"
      /\ UNCHANGED <<scene, file, memory, newest, carried, clock>>
  BY DEF Peeks
<1>3. IInv'
  BY PeeksStep DEF OInv
<1> HIDE DEF todo
<1>4. /\ Left(j, todo) \in JobRecord /\ Left(j, todo).at \in {"settling", "done"}
      /\ GoesOn(Left(j, todo), job[j], Mine(j).state)
  BY <1>1, LeftType, LeftGoesOn DEF OInv
<1> QED
  BY <1>2, <1>3, <1>4, SetOrder

LEMMA AbandonedGoesOn ==
  ASSUME OInv, NEW j \in Job, job[j].todo # <<>>
  PROVE  /\ Abandoned(j) \in JobRecord /\ Abandoned(j).at \notin Locking
         /\ GoesOn(Abandoned(j), job[j], Mine(j).state)
<1>1. Tail(job[j].todo) \in Seq(Task) /\ <<>> \in Seq(Task)
  BY Typed DEF OInv, JobRecord
<1> QED
  BY <1>1, AbandonedType, LeftGoesOn DEF OInv, Abandoned

LEMMA LockTimesOutOrder == ASSUME OInv, NEW j \in Job, LockTimesOut(j) PROVE OInv'
<1>1. IInv' /\ job[j].at = "settling"
  BY LockTimesOutStep DEF OInv, LockTimesOut, Ready
<1> QED
  BY <1>1, AbandonedGoesOn, SetOrder DEF LockTimesOut, Ready, Locking

LEMMA WriteFailsOrder == ASSUME OInv, NEW j \in Job, WriteFails(j) PROVE OInv'
<1>1. IInv' /\ job[j].at = "writing" /\ job[j].todo # <<>>
  BY WriteFailsStep, Holder DEF OInv, WriteFails, Locking
<1> QED
  BY <1>1, AbandonedGoesOn, SetOrder DEF WriteFails, Locking

LEMMA ReleaseOrder == ASSUME OInv, NEW j \in Job, Release(j) PROVE OInv'
<1>1. IInv'
  BY ReleaseStep DEF OInv
<1>2. CASE job[j].todo = <<>>
  <2>1. job[j].at \notin Locking
    BY <1>2, Holder DEF OInv
  <2>2. Done \in JobRecord
    BY IdleType
  <2> QED
    BY <1>1, <1>2, <2>1, <2>2, DoneGoesOn, SetOrder DEF Release, Locking
<1>3. CASE job[j].todo # <<>>
  <2> DEFINE new == [job[j] EXCEPT !.lease = "none"]
  <2>1. Noted(job[j], Mine(j).state) /\ job[j] \in JobRecord
    BY Typed DEF OInv
  <2>2. /\ new \in JobRecord /\ GoesOn(new, job[j], Mine(j).state)
        /\ new.at = job[j].at /\ new.todo = job[j].todo /\ new.work = job[j].work
    BY <2>1 DEF JobRecord, Noted, GoesOn
  <2>3. Set(j, new) /\ UNCHANGED <<scene, file, memory, newest, carried, clock>>
    BY <1>3 DEF Release
  <2> HIDE DEF new
  <2> QED
    BY <1>1, <2>2, <2>3, SetOrder
<1> QED
  BY <1>2, <1>3

(* Readings of the file, under the lock: no transaction is open.            *)
LEMMA OutdatedGoesOn ==
  ASSUME OInv, NEW p \in Process, flock = Free, NEW k \in Job,
         memory' = Synced(p, file), scene' = scene
  PROVE  LET new == OutdatedIf(Turns(p, file), p, job)[k]
         IN /\ GoesOn(new, job[k], memory'[Home[k]].state) /\ new.at = job[k].at
            /\ new.current => memory'[Home[k]].state.catalog = Mine(k).state.catalog
            /\ InOrder(job[k])
            /\ Home[k] = p => memory'[Home[k]].state = file
<1> DEFINE new == OutdatedIf(Turns(p, file), p, job)[k]
<1>1. job[k] \in JobRecord /\ Noted(job[k], Mine(k).state) /\ InOrder(job[k])
  <2>1. ~Moving(Home[k])
    BY Unlocked DEF OInv, Moving, Locking
  <2> QED
    BY <2>1, Typed DEF OInv
<1>2. new = IF Turns(p, file) /\ Home[k] = p THEN [job[k] EXCEPT !.current = FALSE] ELSE job[k]
  BY DEF OutdatedIf, Outdated
<1>3. /\ Synced(p, file)[p].state = file
      /\ \A q \in Process : q # p => Synced(p, file)[q] = memory[q]
  BY Typed, SyncedAt DEF OInv
<1>4. Home[k] \in Process /\ Mine(k) = memory[Home[k]]
  BY JobType DEF OInv, Mine
<1>5. new.current => memory'[Home[k]].state.catalog = Mine(k).state.catalog
  <2>1. CASE Turns(p, file) /\ Home[k] = p
    BY <1>1, <1>2, <2>1 DEF JobRecord
  <2>2. CASE ~Turns(p, file) /\ Home[k] = p
    BY <1>3, <1>4, <2>2 DEF Turns
  <2>3. CASE Home[k] # p
    BY <1>3, <1>4, <2>3
  <2> QED
    BY <2>1, <2>2, <2>3
<1>6. GoesOn(new, job[k], memory'[Home[k]].state) /\ new.at = job[k].at
  <2>1. GoesOn(job[k], job[k], memory'[Home[k]].state)
    BY <1>1 DEF Noted, GoesOn
  <2>2. LET rec == [job[k] EXCEPT !.current = FALSE]
        IN GoesOn(rec, job[k], memory'[Home[k]].state) /\ rec.at = job[k].at
    BY <1>1 DEF JobRecord, Noted, GoesOn
  <2> QED
    BY <1>2, <2>1, <2>2
<1> QED
  BY <1>1, <1>3, <1>5, <1>6

LEMMA RereadOrder == ASSUME OInv, NEW p \in Process, Reread(p) PROVE OInv'
<1>1. IInv'
  BY RereadStep DEF OInv
<1>2. /\ flock = Free /\ memory' = Synced(p, file)
      /\ job' = OutdatedIf(Turns(p, file), p, job)
      /\ UNCHANGED <<scene, file, newest, carried, clock>>
  BY DEF Reread
<1>3. \A k \in Job : job[k].at \notin Locking
  BY <1>2, Unlocked DEF OInv
<1>4. ASSUME NEW k \in Job
      PROVE  /\ GoesOn(job'[k], job[k], memory'[Home[k]].state)
             /\ job'[k].current => memory'[Home[k]].state.catalog = Mine(k).state.catalog
             /\ InOrder(job[k])
             /\ job'[k].at # "writing"
  BY <1>2, <1>3, OutdatedGoesOn DEF Locking
<1> QED
  BY <1>1, <1>2, <1>4, ReadOrder

LEMMA RefreshOrder == ASSUME OInv, NEW j \in Job, Refresh(j) PROVE OInv'
<1>1. IInv'
  BY RefreshStep DEF OInv
<1> DEFINE p == Home[j]
           jobs == OutdatedIf(Turns(p, file), p, job)
<1>2. /\ flock = Free /\ memory' = Synced(p, file)
      /\ job' = [jobs EXCEPT ![j].at = "checking"]
      /\ UNCHANGED <<scene, file, newest, carried, clock>>
  BY DEF Refresh
<1>3. \A k \in Job : job[k].at \notin Locking
  BY <1>2, Unlocked DEF OInv
<1>4. p \in Process /\ Turns(p, file) \in BOOLEAN
  BY JobType DEF OInv, Turns
<1>5. jobs \in [Job -> JobRecord] /\ \A k \in Job : jobs[k].at = job[k].at
  <2> HIDE DEF p
  <2> QED
    BY <1>4, OutdatedType, Typed DEF OInv
<1>6. ASSUME NEW k \in Job
      PROVE  /\ GoesOn(jobs[k], job[k], memory'[Home[k]].state)
             /\ jobs[k].current => memory'[Home[k]].state.catalog = Mine(k).state.catalog
             /\ InOrder(job[k])
  BY <1>2, <1>4, OutdatedGoesOn
<1> HIDE DEF jobs, p
<1>7. ASSUME NEW k \in Job
      PROVE  /\ job'[k].current = jobs[k].current /\ job'[k].at # "writing"
             /\ GoesOn(job'[k], job[k], memory'[Home[k]].state)
  <2>1. CASE k # j
    BY <1>2, <1>3, <1>5, <1>6, <2>1 DEF Locking
  <2>2. CASE k = j
    <3>1. job'[k] = [jobs[k] EXCEPT !.at = "checking"]
      BY <1>2, <1>5, <2>2
    <3>2. jobs[k] \in JobRecord
      BY <1>5
    <3> QED
      BY <1>6, <3>1, <3>2 DEF GoesOn, JobRecord
  <2> QED
    BY <2>1, <2>2
<1> QED
  BY <1>1, <1>2, <1>6, <1>7, ReadOrder

LEMMA BeginOrder == ASSUME OInv, NEW j \in Job, Begin(j) PROVE OInv'
<1>1. IInv'
  BY BeginStep DEF OInv
<1> DEFINE p == Home[j]
           jobs == OutdatedIf(Turns(p, file), p, job)
           work == Result(j, Head(job[j].todo), job[j].current /\ ~Turns(p, file), file)
           place == IF work = file THEN "applying" ELSE "writing"
<1>2. /\ flock = Free /\ memory' = Synced(p, file)
      /\ job' = [jobs EXCEPT ![j].work = work, ![j].at = place]
      /\ UNCHANGED <<scene, file, newest, carried, clock>>
  BY DEF Begin
<1>3. \A k \in Job : job[k].at \notin Locking
  BY <1>2, Unlocked DEF OInv
<1>4. p \in Process /\ Turns(p, file) \in BOOLEAN /\ place \in Locking
  BY JobType DEF OInv, Turns, Locking
<1>5. jobs \in [Job -> JobRecord] /\ \A k \in Job : jobs[k].at = job[k].at
  <2> HIDE DEF p
  <2> QED
    BY <1>4, OutdatedType, Typed DEF OInv
<1>6. ASSUME NEW k \in Job
      PROVE  /\ GoesOn(jobs[k], job[k], memory'[Home[k]].state)
             /\ jobs[k].current => memory'[Home[k]].state.catalog = Mine(k).state.catalog
             /\ InOrder(job[k])
             /\ k = j => memory'[Home[k]].state = file
  BY <1>2, <1>4, OutdatedGoesOn
<1> HIDE DEF jobs, p, work, place
<1>7. ASSUME NEW k \in Job
      PROVE  /\ job'[k].current = jobs[k].current /\ (k # j => job'[k].at # "writing")
             /\ GoesOn(job'[k], job[k], memory'[Home[k]].state)
  <2>1. CASE k # j
    BY <1>2, <1>3, <1>5, <1>6, <2>1 DEF Locking
  <2>2. CASE k = j
    <3>1. job'[k] = [jobs[k] EXCEPT !.work = work, !.at = place]
      BY <1>2, <1>5, <2>2
    <3>2. /\ job'[k].at = place /\ place # "idle"
          /\ job'[k].checked = jobs[k].checked /\ job'[k].current = jobs[k].current
          /\ job'[k].granted = jobs[k].granted /\ job'[k].under = jobs[k].under
          /\ job'[k].overtaken = jobs[k].overtaken
      BY <1>4, <1>5, <3>1 DEF JobRecord, Locking
    <3> QED
      BY <1>6, <2>2, <3>2 DEF GoesOn
  <2> QED
    BY <2>1, <2>2
<1> QED
  BY <1>1, <1>2, <1>6, <1>7, ReadOrder

(* The memory follows what was written.                                     *)
LEMMA ApplyOrder == ASSUME OInv, NEW j \in Job, Apply(j) PROVE OInv'
<1>1. IInv'
  BY ApplyStep DEF OInv
<1> DEFINE moved == Moves(j)
           left == Left(j, Tail(job[j].todo))
           rest == [job EXCEPT ![j] = left]
<1>2. /\ job[j].at = "applying" /\ UNCHANGED <<scene, file, newest, carried, clock>>
      /\ job' = OutdatedIf(moved, Home[j], rest)
  BY DEF Apply, Moves
<1>3. moved \in BOOLEAN /\ Home[j] \in Process /\ job[j].work \in State
  BY JobType, Typed DEF OInv, Moves, Turns, JobRecord
<1>4. /\ left \in JobRecord /\ left.at \in {"settling", "done"}
      /\ \A state : GoesOn(left, job[j], state)
  <2>1. Tail(job[j].todo) \in Seq(Task)
    BY <1>2, Holder DEF OInv, Locking
  <2> QED
    BY <2>1, LeftType, LeftGoesOn DEF OInv
<1>5. /\ \A q \in Process : q # Home[j] => memory'[q] = memory[q]
      /\ ~moved => memory'[Home[j]].state.catalog = memory[Home[j]].state.catalog
  <2>1. /\ Synced(Home[j], job[j].work) \in [Process -> AccountRecord]
        /\ Synced(Home[j], job[j].work)[Home[j]].state = job[j].work
        /\ \A q \in Process : q # Home[j] => Synced(Home[j], job[j].work)[q] = memory[q]
    BY <1>3, SyncedType, SyncedAt DEF OInv
  <2>2. \E models : memory' = [Synced(Home[j], job[j].work) EXCEPT ![Home[j]].models = models]
    BY DEF Apply
  <2>3. PICK models :
          memory' = [Synced(Home[j], job[j].work) EXCEPT ![Home[j]].models = models]
    BY <2>2
  <2>4. \A rec \in AccountRecord : [rec EXCEPT !.models = models].state = rec.state
    BY DEF AccountRecord
  <2>5. memory'[Home[j]].state = job[j].work
    BY <1>3, <2>1, <2>3, <2>4
  <2>6. ~moved => job[j].work.catalog = memory[Home[j]].state.catalog
    BY DEF Moves, Turns
  <2> HIDE DEF moved
  <2> QED
    BY <1>3, <2>1, <2>3, <2>5, <2>6
<1>6. \A k \in Job : k # j => job[k].at \notin Locking
  BY <1>2, Holder DEF OInv, Locking
<1> HIDE DEF moved, left
<1>7. ASSUME NEW k \in Job
      PROVE  /\ rest[k] \in JobRecord /\ rest[k].at # "writing"
             /\ GoesOn(rest[k], job[k], Mine(k).state)
             /\ k # j => rest[k] = job[k]
  <2>1. Noted(job[k], Mine(k).state) /\ job[k] \in JobRecord
    BY Typed DEF OInv
  <2>2. CASE k = j
    BY <1>4, <2>2, Typed DEF OInv
  <2>3. CASE k # j
    <3>1. rest[k] = job[k]
      BY <2>3, Typed DEF OInv
    <3> QED
      BY <1>6, <2>1, <2>3, <3>1 DEF Noted, GoesOn, Locking
  <2> QED
    BY <2>2, <2>3
<1>8. \A k \in Job : job'[k] = IF moved /\ Home[k] = Home[j]
                                THEN [rest[k] EXCEPT !.current = FALSE] ELSE rest[k]
  BY <1>2, <1>3 DEF OutdatedIf, Outdated
<1> HIDE DEF rest
<1>9. ASSUME NEW k \in Job
      PROVE  /\ GoesOn(job'[k], job[k], memory'[Home[k]].state)
             /\ job'[k].at # "writing"
             /\ job'[k].current =>
                  memory'[Home[k]].state.catalog = Mine(k).state.catalog /\ InOrder(job[k])
  <2>1. CASE moved /\ Home[k] = Home[j]
    <3>1. job'[k] = [rest[k] EXCEPT !.current = FALSE]
      BY <1>8, <2>1
    <3>2. job'[k].current = FALSE /\ job'[k].at = rest[k].at /\ job'[k].checked = rest[k].checked
      BY <1>7, <3>1 DEF JobRecord
    <3> QED
      BY <1>7, <3>2 DEF GoesOn
  <2>2. CASE ~(moved /\ Home[k] = Home[j])
    <3>1. job'[k] = rest[k]
      BY <1>8, <2>2
    <3>2. Mine(k) = memory[Home[k]] /\ Home[k] \in Process
      BY JobType DEF OInv, Mine
    <3>3. memory'[Home[k]].state.catalog = Mine(k).state.catalog
      BY <1>5, <2>2, <3>2
    <3>4. ~Moving(Home[k])
      BY <1>6, <2>2 DEF Moving, moved, Locking
    <3>5. InOrder(job[k])
      BY <3>4 DEF OInv
    <3>6. GoesOn(rest[k], job[k], memory'[Home[k]].state)
      BY <1>7, <3>3 DEF GoesOn
    <3> QED
      BY <1>7, <3>1, <3>3, <3>5, <3>6
  <2> QED
    BY <2>1, <2>2
<1> QED
  BY <1>1, <1>2, <1>9, ReadOrder

(* The jobs of a process that ends are over; one that is applying in another *)
(* process goes on.                                                         *)
LEMMA RestartOrder == ASSUME OInv, NEW p \in Process, Restart(p) PROVE OInv'
<1>1. IInv' /\ UNCHANGED <<scene, file, newest, carried, clock>>
  BY RestartStep DEF OInv, Restart
<1>2. \A k \in Job : \/ job'[k] = job[k] /\ (Home[k] # p \/ job[k].at = "idle")
                     \/ job'[k] = Done /\ Home[k] = p
  BY Typed DEF OInv, Restart
<1>3. \A q \in Process : q # p => memory'[q] = memory[q]
  BY Typed DEF OInv, Restart
<1>4. Done.current = FALSE
  BY DEF Done, Idle
<1>5. ASSUME NEW k \in Job
      PROVE  /\ GoesOn(job'[k], job[k], memory'[Home[k]].state)
             /\ job'[k].current =>
                  /\ memory'[Home[k]].state.catalog = Mine(k).state.catalog
                  /\ InOrder(job[k]) \/ Moving(Home[k])'
             /\ job'[k].at = "writing" => memory'[Home[k]].state = file
  <2>1. CASE job'[k] = Done
    BY <1>4, <2>1, DoneGoesOn
  <2>2. CASE job'[k] = job[k] /\ Home[k] = p /\ job[k].at = "idle"
    BY <2>2 DEF OInv, Noted, GoesOn
  <2>3. CASE job'[k] = job[k] /\ Home[k] # p
    <3>1. memory'[Home[k]] = Mine(k) /\ Home'[k] = Home[k]
      BY <1>1, <1>3, <2>3, JobType DEF OInv, Mine, Home
    <3>2. GoesOn(job[k], job[k], Mine(k).state)
      BY DEF OInv, Noted, GoesOn
    <3>3. ASSUME Moving(Home[k]) PROVE Moving(Home[k])'
      <4>1. PICK h \in Job : job[h].at = "applying" /\ Home[h] = Home[k] /\ Moves(h)
        BY <3>3 DEF Moving
      <4>2. job'[h] = job[h] /\ Home'[h] = Home[h]
        BY <1>1, <1>2, <2>3, <4>1 DEF Home
      <4>3. memory'[Home[h]] = memory[Home[h]] /\ Mine(h)' = Mine(h)
        BY <1>1, <3>1, <4>1, <4>2 DEF Mine
      <4>4. Moves(h)'
        BY <4>1, <4>2, <4>3 DEF Moves, Turns, First, EntriesChanged
      <4> QED
        BY <3>1, <4>1, <4>2, <4>4 DEF Moving
    <3>4. /\ InOrder(job[k]) \/ Moving(Home[k])
          /\ job[k].at = "writing" => Mine(k).state = file
      BY DEF OInv
    <3> QED
      BY <2>3, <3>1, <3>2, <3>3, <3>4
  <2> QED
    BY <1>2, <2>1, <2>2, <2>3
<1> QED
  BY <1>1, <1>5, ReadOrder

(* The clock goes on, the upstream catalog changes, nothing happens.        *)
LEMMA WorldOrder ==
  ASSUME OInv, IInv', UNCHANGED <<scene, file, memory, job, newest, carried>>,
         clock' \in {clock, clock + 1}
  PROVE  OInv'
<1>1. clock \in Nat /\ clock' \in Nat /\ clock <= clock'
  BY ClockType DEF OInv
<1>2. \A k \in Job : job[k].checked \in Nat /\ \A s \in Scopes : newest[s] \in Nat
  BY ClockType DEF OInv
<1>3. \A k \in Job : Home'[k] = Home[k] /\ Mine(k)' = Mine(k)
  BY DEF Home, Mine
<1>4. ASSUME NEW k \in Job
      PROVE  /\ Noted(job[k], Mine(k).state)' /\ (InOrder(job[k]) => InOrder(job[k])')
             /\ (job[k].at = "writing" => Mine(k).state = file)'
             /\ (Moves(k) => Moves(k)')
  BY <1>1, <1>2, <1>3 DEF OInv, Noted, InOrder, Moves, Turns, First, EntriesChanged
<1>5. \A k \in Job : Moving(Home[k]) => Moving(Home[k])'
  BY <1>3, <1>4 DEF Moving
<1>6. \A s \in Scopes : newest[s] \in Nat /\ newest[s] <= clock
  BY ClockType DEF OInv
<1>7. VerifiedByEntry' /\ \A s \in Scopes : newest'[s] <= clock'
  BY <1>1, <1>6 DEF OInv, VerifiedByEntry
<1> QED
  BY <1>3, <1>4, <1>5, <1>7 DEF OInv

LEMMA InitOrder == ASSUME Init PROVE OInv
<1>1. IInv
  BY InitStep
<1>2. /\ Idle.checked = 0 /\ Idle.current = FALSE /\ Idle.at = "idle"
      /\ \A k \in Job : job[k] = Idle
      /\ clock = 1 /\ \A s \in Scopes : newest[s] = 0
  BY DEF Init, Idle
<1>3. VerifiedByEntry
  BY DEF Init, VerifiedByEntry, NewState
<1> QED
  BY <1>1, <1>2, <1>3 DEF OInv, Noted, InOrder

-----------------------------------------------------------------------------
(* What a result records: check times that were not newer than its own.     *)

Records(new, state, t) ==
  /\ new.catalog = state.catalog
  /\ \A s \in Scopes :
       \/ new.checked[s] = state.checked[s] /\ new.cooling[s] = state.cooling[s]
       \/ new.checked[s] = t /\ state.checked[s] <= t

LEMMA CooledRecords ==
  ASSUME NEW state \in State, NEW scope \in Scopes, NEW t \in Time, NEW until
  PROVE  /\ Records(Cooled(state, scope, t, until), state, t)
         /\ Cooled(state, scope, t, until).verified = state.verified
<1> DEFINE new == [state EXCEPT !.checked[scope] = t,
                                !.cooling[scope] = [by |-> t, until |-> until]]
<1>1. /\ new.catalog = state.catalog /\ new.verified = state.verified
      /\ \A s \in Scopes : IF s = scope THEN new.checked[s] = t
                           ELSE new.checked[s] = state.checked[s] /\ new.cooling[s] = state.cooling[s]
  BY DEF State
<1>2. state.checked[scope] \in Nat /\ t \in Nat
  BY StateType DEF Time
<1> HIDE DEF new
<1>3. state.checked[scope] < t => Records(new, state, t)
  BY <1>1, <1>2 DEF Records
<1>4. Records(state, state, t)
  BY DEF Records
<1> QED
  BY <1>1, <1>3, <1>4 DEF Cooled, new

LEMMA LiftedRecords ==
  ASSUME NEW state \in State, NEW scope \in Scopes, NEW t \in Time
  PROVE  /\ Records(Lifted(state, scope, t), state, t)
         /\ Lifted(state, scope, t).verified = state.verified
         /\ \A s \in Scopes : s # scope => Lifted(state, scope, t).checked[s] = state.checked[s]
         /\ ~(state.checked[scope] <= t) => Lifted(state, scope, t) = state
         /\ state.checked[scope] = t => Lifted(state, scope, t).checked[scope] = t
<1> DEFINE new == [state EXCEPT !.checked[scope] = t, !.cooling[scope] = NotCooling]
<1>1. /\ new.catalog = state.catalog /\ new.verified = state.verified
      /\ \A s \in Scopes : IF s = scope THEN new.checked[s] = t
                           ELSE new.checked[s] = state.checked[s] /\ new.cooling[s] = state.cooling[s]
  BY DEF State
<1> HIDE DEF new
<1>2. state.checked[scope] <= t => Records(new, state, t)
  BY <1>1 DEF Records
<1>3. Records(state, state, t)
  BY DEF Records
<1>4. Lifted(state, scope, t) = IF state.checked[scope] <= t THEN new ELSE state
  BY DEF Lifted, new
<1> QED
  BY <1>1, <1>2, <1>3, <1>4

LEMMA ClearedRecords ==
  ASSUME NEW state \in State, NEW scope \in Scopes, NEW t \in Time
  PROVE  /\ Records(Cleared(state, scope, t), state, t)
         /\ Cleared(state, scope, t).verified = state.verified
         /\ scope = "model" /\ (state.checked["model"] = t \/ ~(state.checked["model"] <= t)) =>
              Cleared(state, scope, t).checked["model"] = state.checked["model"]
<1>1. "global" \in Scopes /\ "model" \in Scopes /\ "model" # "global"
  BY DEF Scopes
<1> DEFINE once == Lifted(state, scope, t)
           twice == Lifted(once, "global", t)
<1>2. /\ once \in State /\ Records(once, state, t) /\ once.verified = state.verified
      /\ ~(state.checked[scope] <= t) => once = state
      /\ state.checked[scope] = t => once.checked[scope] = t
  BY LiftedType, LiftedRecords
<1> HIDE DEF once
<1>3. /\ Records(twice, once, t) /\ twice.verified = once.verified
      /\ twice.checked["model"] = once.checked["model"]
  BY <1>1, <1>2, LiftedRecords
<1>4. Cleared(state, scope, t) = twice
  BY DEF Cleared, once
<1> HIDE DEF twice
<1>5. ASSUME NEW s \in Scopes
      PROVE  \/ twice.checked[s] = state.checked[s] /\ twice.cooling[s] = state.cooling[s]
             \/ twice.checked[s] = t /\ state.checked[s] <= t
  BY <1>2, <1>3 DEF Records
<1>6. Records(twice, state, t)
  BY <1>2, <1>3, <1>5 DEF Records
<1> QED
  BY <1>2, <1>3, <1>4, <1>6

LEMMA VerifiedRecords ==
  ASSUME NEW state \in State, NEW entry \in Entries, NEW t \in Time
  PROVE  LET new == Verified(state, entry, t)
         IN /\ Records(new, state, t)
            /\ \/ new.verified = entry
               \/ /\ new.verified = state.verified
                  /\ new.checked["model"] = state.checked["model"]
<1> DEFINE known == state.checked["model"] = t /\ state.verified # Unverified
           good == [state EXCEPT !.verified = IF known THEN @ ELSE entry]
           base == IF state.checked["model"] <= t THEN good ELSE state
           new == Cleared(base, "model", t)
<1>1. /\ good \in State /\ good.checked = state.checked /\ good.cooling = state.cooling
      /\ good.catalog = state.catalog
      /\ good.verified = IF known THEN state.verified ELSE entry
  BY DEF State, Entries
<1>2. "model" \in Scopes
  BY DEF Scopes
<1> HIDE DEF known, good
<1>3. /\ base \in State /\ base.checked = state.checked /\ base.cooling = state.cooling
      /\ base.catalog = state.catalog
      /\ \/ base.verified = entry
         \/ base.verified = state.verified /\ (known \/ ~(state.checked["model"] <= t))
  BY <1>1
<1> HIDE DEF base
<1>4. /\ Records(new, base, t) /\ new.verified = base.verified
      /\ base.checked["model"] = t \/ ~(base.checked["model"] <= t) =>
           new.checked["model"] = base.checked["model"]
  BY <1>2, <1>3, ClearedRecords
<1> HIDE DEF new
<1>5. Records(new, state, t)
  BY <1>3, <1>4 DEF Records
<1>6. \/ new.verified = entry
      \/ new.verified = state.verified /\ new.checked["model"] = state.checked["model"]
  BY <1>3, <1>4 DEF known
<1>7. Verified(state, entry, t) = new
  BY DEF Verified, new, base, good, known
<1> QED
  BY <1>5, <1>6, <1>7

(* What a login and a new catalog forget.                                   *)
LEMMA ForgottenChecks ==
  ASSUME NEW state \in State, NEW scopes
  PROVE  LET new == Forgotten(state, scopes)
         IN /\ new \in State /\ new.catalog = state.catalog
            /\ \A s \in Scopes : new.checked[s] = IF s \in scopes THEN 0 ELSE state.checked[s]
            /\ new.verified = IF "model" \in scopes THEN Unverified ELSE state.verified
<1>1. Forgotten(state, scopes) \in State
  BY ForgottenType
<1> QED
  BY <1>1 DEF Forgotten, State

LEMMA WithCatalogChecks ==
  ASSUME NEW j \in Job, NEW state \in State, NEW catalog \in AllCatalogs
  PROVE  LET new == WithCatalog(j, state, catalog)
             scopes == Outmoded(j, state, catalog)
         IN /\ new.catalog = catalog
            /\ \A s \in Scopes : new.checked[s] = IF s \in scopes THEN 0 ELSE state.checked[s]
            /\ new.verified = IF "model" \in scopes THEN Unverified ELSE state.verified
<1> DEFINE old == Forgotten(state, Outmoded(j, state, catalog))
<1>1. /\ old \in State
      /\ \A s \in Scopes : old.checked[s] = IF s \in Outmoded(j, state, catalog)
                                           THEN 0 ELSE state.checked[s]
      /\ old.verified = IF "model" \in Outmoded(j, state, catalog)
                        THEN Unverified ELSE state.verified
  BY ForgottenChecks
<1>2. WithCatalog(j, state, catalog) = [old EXCEPT !.catalog = catalog]
  BY DEF WithCatalog
<1> HIDE DEF old
<1>3. LET new == [old EXCEPT !.catalog = catalog]
      IN new.catalog = catalog /\ new.checked = old.checked /\ new.verified = old.verified
  BY <1>1 DEF State
<1> QED
  BY <1>1, <1>2, <1>3

LEMMA Writing ==
  ASSUME OInv, NEW j \in Job, job[j].at = "writing"
  PROVE  /\ Head(job[j].todo) \in Task /\ \A k \in Job : k # j => job[k].at \notin Locking
         /\ \A k \in Job : InOrder(job[k])
         /\ Mine(j).state = file /\ Noted(job[j], file)
         /\ job[j].work = Result(j, Head(job[j].todo), job[j].current, file)
         /\ job[j] \in JobRecord /\ job[j].work \in State /\ file \in State
<1>1. \A k \in Job : ~Moving(Home[k])
  BY Holder DEF OInv, Moving, Locking
<1> QED
  BY <1>1, Holder, Typed DEF OInv, IInv, NoLostUpdate, Locking, JobRecord

(* A result leaves the catalog; it counts only in its generation.           *)
LEMMA ResultRecords ==
  ASSUME OInv, NEW j \in Job, job[j].at = "writing",
         Head(job[j].todo).op \notin {"reset", "set"}
  PROVE  /\ job[j].work # file => job[j].current
         /\ Records(job[j].work, file, job[j].checked)
         /\ \/ job[j].current /\ job[j].work.verified = job[j].under
            \/ /\ job[j].work.verified = file.verified
               /\ \/ Head(job[j].todo).op # "verify"
                  \/ job[j].work.checked["model"] = file.checked["model"]
<1> DEFINE task == Head(job[j].todo)
           t == job[j].checked
           new == job[j].work
<1>1. /\ task \in Task /\ file \in State /\ t \in Time /\ job[j].under \in Entries
      /\ new = Result(j, task, job[j].current, file)
  BY Writing DEF JobRecord
<1>2. CASE ~job[j].current
  <2>1. new = file
    BY <1>1, <1>2 DEF Result, Recording
  <2> QED
    BY <2>1 DEF Records
<1>3. CASE job[j].current /\ task.op = "cool"
  <2>1. task.scope \in Scopes
    BY <1>1, <1>3 DEF Task, Peek, Verify, Reset
  <2>2. new = Cooled(file, task.scope, t, task.until)
    BY <1>1, <1>3 DEF Result, Recording
  <2> HIDE DEF task, new, t
  <2>3. Records(new, file, t) /\ new.verified = file.verified
    BY <1>1, <2>1, <2>2, CooledRecords
  <2> QED
    BY <1>3, <2>3 DEF task, new, t
<1>4. CASE job[j].current /\ task.op = "clear"
  <2>1. task.scope \in Scopes
    BY <1>1, <1>4 DEF Task, Peek, Verify, Reset
  <2>2. new = Cleared(file, task.scope, t)
    BY <1>1, <1>4 DEF Result, Recording
  <2> HIDE DEF task, new, t
  <2>3. Records(new, file, t) /\ new.verified = file.verified
    BY <1>1, <2>1, <2>2, ClearedRecords
  <2> QED
    BY <1>4, <2>3 DEF task, new, t
<1>5. CASE job[j].current /\ task.op \notin {"cool", "clear"}
  <2>1. new = Verified(file, job[j].under, t)
    BY <1>1, <1>5 DEF Result, Recording
  <2>2. /\ Records(new, file, t)
        /\ \/ new.verified = job[j].under
           \/ /\ new.verified = file.verified
              /\ new.checked["model"] = file.checked["model"]
    <3> HIDE DEF new, t, task
    <3> QED
      BY <1>1, <2>1, VerifiedRecords
  <2> QED
    BY <1>5, <2>2
<1> QED
  BY <1>2, <1>3, <1>4, <1>5

(* A login or a catalog that forgets check times will end the generation.   *)
LEMMA ForgetsMoves ==
  ASSUME OInv, NEW j \in Job, job[j].at = "writing",
         Head(job[j].todo).op \in {"reset", "set"}
  PROVE  \/ \A s \in Scopes : job[j].work.checked[s] = file.checked[s]
         \/ /\ \E s \in Scopes : job[j].work.checked[s] < file.checked[s]
            /\ Moves(j)
<1> DEFINE task == Head(job[j].todo)
           new == job[j].work
<1>1. /\ task \in Task /\ file \in State /\ Mine(j).state = file
      /\ new = Result(j, task, job[j].current, file)
      /\ \A s \in Scopes : file.checked[s] \in Nat
  BY Writing, ClockType DEF OInv
<1>2. /\ \A s \in Scopes : new.checked[s] \in {0, file.checked[s]}
      /\ Moves(j) \/ \A s \in Scopes : new.checked[s] = file.checked[s]
  <2>1. CASE task.op = "reset"
    <3>1. new = Forgotten(file, Scopes)
      BY <1>1, <2>1 DEF Result, Recording
    <3> QED
      BY <1>1, <2>1, <3>1, ForgottenChecks DEF Moves
  <2>2. CASE task.op = "set"
    <3>1. task.catalog \in AllCatalogs
      BY <1>1, <2>2 DEF Task, Peek, Verify, Reset
    <3>2. new = WithCatalog(j, file, task.catalog)
      BY <1>1, <2>2 DEF Result, Recording
    <3>3. /\ new.catalog = task.catalog
          /\ \A s \in Scopes : new.checked[s] = IF s \in Outmoded(j, file, task.catalog)
                                               THEN 0 ELSE file.checked[s]
      <4> HIDE DEF task, new
      <4> QED
        BY <1>1, <3>1, <3>2, WithCatalogChecks
    <3>4. Outmoded(j, file, task.catalog) # {} => Moves(j)
      <4>1. file.catalog # task.catalog => Moves(j)
        BY <1>1, <3>3 DEF Moves, Turns, Mine
      <4>2. CASE file.catalog = task.catalog
        <5>1. First(j) => Moves(j)
          BY <2>2 DEF Moves
        <5>2. ~First(j) /\ Mine(j).models.entry # task.catalog.entry => Moves(j)
          BY <2>2 DEF Moves, EntriesChanged
        <5> QED
          BY <4>2, <5>1, <5>2 DEF Outmoded
      <4> QED
        BY <4>1, <4>2
    <3> QED
      BY <3>3, <3>4
  <2> QED
    BY <2>1, <2>2
<1> HIDE DEF new
<1> QED
  BY <1>1, <1>2 DEF new

LEMMA WriteVerified == ASSUME OInv, NEW j \in Job, Write(j) PROVE VerifiedByEntry'
<1> DEFINE task == Head(job[j].todo)
           new == job[j].work
<1>1. job[j].at = "writing" /\ file' = new
  BY DEF Write
<1>2. SUFFICES ASSUME new.verified # Unverified, ~carried'
               PROVE  new.verified = new.catalog.entry
  BY <1>1 DEF VerifiedByEntry
<1>3. /\ task \in Task /\ file \in State /\ Mine(j).state = file /\ Noted(job[j], file)
      /\ new = Result(j, task, job[j].current, file)
  BY <1>1, Writing
<1>4. /\ task.op = "set" /\ ~First(j) => Mine(j).models.entry = file.catalog.entry
      /\ task.op # "verify" \/ new.checked["model"] = file.checked["model"] => ~carried
  BY <1>2 DEF Write
<1>5. file.verified # Unverified /\ ~carried => file.verified = file.catalog.entry
  BY DEF OInv, VerifiedByEntry
<1>6. CASE task.op \notin {"reset", "set"}
  <2>1. /\ Records(new, file, job[j].checked)
        /\ \/ job[j].current /\ new.verified = job[j].under
           \/ /\ new.verified = file.verified
              /\ task.op # "verify" \/ new.checked["model"] = file.checked["model"]
    BY <1>1, <1>6, ResultRecords
  <2>2. CASE job[j].current /\ new.verified = job[j].under
    BY <1>3, <2>1, <2>2 DEF Noted, Records
  <2>3. CASE /\ new.verified = file.verified
             /\ task.op # "verify" \/ new.checked["model"] = file.checked["model"]
    <3>1. ~carried
      BY <1>4, <2>3
    <3> QED
      BY <1>2, <1>5, <2>1, <2>3, <3>1 DEF Records
  <2> QED
    BY <2>1, <2>2, <2>3
<1>7. CASE task.op = "reset"
  <2>1. new = Forgotten(file, Scopes) /\ "model" \in Scopes
    BY <1>3, <1>7 DEF Result, Scopes
  <2> QED
    BY <1>2, <1>3, <2>1, ForgottenChecks
<1>8. CASE task.op = "set"
  <2>1. task.catalog \in AllCatalogs
    BY <1>3, <1>8 DEF Task, Peek, Verify, Reset
  <2>2. new = WithCatalog(j, file, task.catalog)
    BY <1>3, <1>8 DEF Result, Recording
  <2>3. /\ new.catalog = task.catalog
        /\ new.verified = IF "model" \in Outmoded(j, file, task.catalog)
                          THEN Unverified ELSE file.verified
    <3> HIDE DEF task, new
    <3> QED
      BY <1>3, <2>1, <2>2, WithCatalogChecks
  <2>4. "model" \notin Outmoded(j, file, task.catalog) /\ new.verified = file.verified
    BY <1>2, <2>3
  <2>5. CASE First(j)
    <3>1. file.catalog = task.catalog
      BY <2>4, <2>5 DEF Outmoded, Scopes
    <3>2. ~carried
      BY <1>4, <1>8
    <3> QED
      BY <1>2, <1>5, <2>3, <2>4, <3>1, <3>2
  <2>6. CASE ~First(j)
    <3>1. Mine(j).models.entry = task.catalog.entry
      BY <2>4, <2>6 DEF Outmoded, Scopes
    <3>2. Mine(j).models.entry = file.catalog.entry /\ ~carried
      BY <1>4, <1>8, <2>6
    <3> QED
      BY <1>2, <1>5, <2>3, <2>4, <3>1, <3>2
  <2> QED
    BY <2>5, <2>6
<1> QED
  BY <1>6, <1>7, <1>8

LEMMA WriteOrder == ASSUME OInv, NEW j \in Job, Write(j) PROVE OInv'
<1> DEFINE new == job[j].work
           forgets == \E s \in Scopes : new.checked[s] < file.checked[s]
<1>1. IInv' /\ VerifiedByEntry'
  BY WriteStep, WriteVerified DEF OInv
<1>2. /\ job[j].at = "writing" /\ file' = new
      /\ newest' = [s \in Scopes |-> IF s \in Recorded(j) THEN job[j].checked ELSE newest[s]]
      /\ UNCHANGED <<scene, memory, clock>>
  BY DEF Write
<1>3. /\ \A k \in Job : InOrder(job[k]) /\ Noted(job[k], Mine(k).state)
      /\ \A s \in Scopes : newest[s] <= clock
      /\ \A k \in Job : k # j => job[k].at # "writing"
  BY <1>2, Writing DEF OInv, Locking
<1>4. \A k \in Job : Home'[k] = Home[k] /\ Mine(k)' = Mine(k)
  BY <1>2 DEF Home, Mine
<1>5. ASSUME NEW k \in Job
      PROVE  /\ job'[k].current = job[k].current /\ job'[k].checked = job[k].checked
             /\ job'[k].granted = job[k].granted /\ job'[k].under = job[k].under
             /\ job'[k].todo = job[k].todo /\ job'[k].work = job[k].work
             /\ job'[k].at = IF k = j THEN "applying" ELSE job[k].at
             /\ ~job'[k].overtaken /\ job'[k].current =>
                  ~job[k].overtaken /\ (Home[k] # Home[j] => ~forgets)
  <2> DEFINE next == CASE k = j -> [job[j] EXCEPT !.at = "applying"]
                       [] Home[k] # Home[j] /\ forgets ->
                            [job[k] EXCEPT !.overtaken = job[k].current]
                       [] OTHER -> job[k]
  <2>1. job'[k] = next
    BY DEF Write
  <2>2. job[k] \in JobRecord
    BY Typed DEF OInv
  <2>3. CASE k = j
    <3>1. job'[k] = [job[k] EXCEPT !.at = "applying"]
      BY <2>1, <2>3
    <3> HIDE DEF forgets
    <3> QED
      BY <2>2, <2>3, <3>1 DEF JobRecord
  <2>4. CASE k # j /\ Home[k] # Home[j] /\ forgets
    <3>1. job'[k] = [job[k] EXCEPT !.overtaken = job[k].current]
      BY <2>1, <2>4
    <3> HIDE DEF forgets
    <3> QED
      BY <2>2, <2>4, <3>1 DEF JobRecord
  <2>5. CASE k # j /\ ~(Home[k] # Home[j] /\ forgets)
    <3>1. job'[k] = job[k]
      BY <2>1, <2>5
    <3> HIDE DEF forgets
    <3> QED
      BY <2>5, <3>1
  <2> QED
    BY <2>3, <2>4, <2>5
<1>6. \A s \in Scopes : newest'[s] <= clock'
  BY <1>2, <1>3 DEF Noted
<1>7. ASSUME NEW k \in Job
      PROVE  Noted(job[k], Mine(k).state)' /\ (job[k].at = "writing" => Mine(k).state = file)'
  BY <1>2, <1>3, <1>4, <1>5 DEF Noted
<1>8. ASSUME NEW k \in Job PROVE (InOrder(job[k]) \/ Moving(Home[k]))'
  <2>1. CASE Head(job[j].todo).op \notin {"reset", "set"}
    <3>1. ASSUME NEW s \in Scopes
          PROVE  \/ newest'[s] = file'.checked[s]
                 \/ newest'[s] = newest[s] /\ file'.checked[s] = file.checked[s]
      <4>1. \/ new.checked[s] = file.checked[s] /\ new.cooling[s] = file.cooling[s]
            \/ new.checked[s] = job[j].checked
        BY <1>2, <2>1, ResultRecords DEF Records
      <4>2. s \in Recorded(j) <=> \/ new.checked[s] # file.checked[s]
                                  \/ new.cooling[s] # file.cooling[s]
        BY <2>1 DEF Recorded
      <4> QED
        BY <1>2, <4>1, <4>2
    <3>2. InOrder(job[k])'
      BY <1>3, <1>5, <3>1 DEF InOrder
    <3> QED
      BY <3>2
  <2>2. CASE Head(job[j].todo).op \in {"reset", "set"}
    <3>1. newest' = newest
      BY <1>2, <2>2, Typed DEF OInv, Recorded
    <3>2. CASE \A s \in Scopes : new.checked[s] = file.checked[s]
      <4>1. InOrder(job[k])'
        BY <1>2, <1>3, <1>5, <3>1, <3>2 DEF InOrder
      <4> QED
        BY <4>1
    <3>3. CASE forgets /\ Moves(j)
      <4>1. Moves(j)'
        BY <1>2, <1>4, <1>5, <3>3 DEF Moves, Turns, First, EntriesChanged
      <4>2. Home[k] = Home[j] => Moving(Home[k])'
        BY <1>4, <1>5, <4>1 DEF Moving
      <4>3. Home[k] # Home[j] => InOrder(job[k])'
        BY <1>5, <3>3 DEF InOrder
      <4> QED
        BY <4>2, <4>3
    <3> QED
      BY <1>2, <2>2, <3>2, <3>3, ForgetsMoves
  <2> QED
    BY <2>1, <2>2
<1> QED
  BY <1>1, <1>6, <1>7, <1>8 DEF OInv

LEMMA NextOrder == ASSUME OInv, [Next]_vars PROVE OInv'
<1>1. IInv'
  BY NextStep DEF OInv
<1>2. ASSUME NEW j \in Job, JobStep(j) PROVE OInv'
  BY <1>2, AcquireOrder, RefreshOrder, RefreshFailsOrder, CheckOrder, EndsWithOrder,
     ReleaseOrder, PeeksOrder, BeginOrder, WriteOrder, ApplyOrder, LockTimesOutOrder,
     WriteFailsOrder DEF JobStep
<1>3. CASE UNCHANGED vars \/ CatalogChanges \/ Tick
  BY <1>1, <1>3, WorldOrder DEF vars, CatalogChanges, Tick
<1> QED
  BY <1>2, <1>3, RereadOrder, RestartOrder DEF Next

(* A model that the file calls verified was tried with the entry the        *)
(* catalog in the file has: SetCatalog, ResetModelAccess and late calls of  *)
(* markModelAccessVerified leave no mark of an entry that is gone, except   *)
(* one kept by a process that compares with a catalog already replaced.     *)
THEOREM MarksFitCatalog == Spec => []VerifiedByEntry
<1>1. Init => OInv
  BY InitOrder
<1>2. OInv /\ [Next]_vars => OInv'
  BY NextOrder
<1>3. OInv => VerifiedByEntry
  BY DEF OInv
<1> QED
  BY <1>1, <1>2, <1>3, PTL DEF Spec

(* MarkCooldownIfGeneration and its siblings: a result is recorded only if  *)
(* no newer one has been since its lease was granted, though a login or a   *)
(* new catalog may have forgotten when that was.                            *)
THEOREM ResultsAreInOrder == Spec => ResultsInOrder
<1>1. Init => OInv
  BY InitOrder
<1>2. OInv /\ [Next]_vars => OInv'
  BY NextOrder
<1>3. OInv /\ [Next]_vars =>
        \A j \in Job :
          job[j].at = "writing" /\ job'[j].at = "applying" /\ ~job[j].overtaken =>
            \A s \in Recorded(j) : newest[s] <= job[j].granted
  <2>1. SUFFICES ASSUME OInv, NEW j \in Job, job[j].at = "writing", ~job[j].overtaken,
                        NEW s \in Recorded(j)
                 PROVE  newest[s] <= job[j].granted
    OBVIOUS
  <2>2. /\ s \in Scopes /\ Head(job[j].todo).op \notin {"reset", "set"}
        /\ \/ job[j].work.checked[s] # file.checked[s]
           \/ job[j].work.cooling[s] # file.cooling[s]
    BY <2>1 DEF Recorded
  <2>3. job[j].current /\ file.checked[s] <= job[j].checked
    BY <2>1, <2>2, ResultRecords DEF Records
  <2>4. InOrder(job[j]) /\ Noted(job[j], file)
    BY <2>1, Writing
  <2>5. /\ job[j].checked \in Nat /\ job[j].granted \in Nat
        /\ newest[s] \in Nat /\ file.checked[s] \in Nat
    BY <2>1, <2>2, ClockType DEF OInv
  <2> QED
    BY <2>1, <2>2, <2>3, <2>4, <2>5 DEF InOrder, Noted
<1> QED
  BY <1>1, <1>2, <1>3, PTL DEF Spec, ResultsInOrder

=============================================================================
