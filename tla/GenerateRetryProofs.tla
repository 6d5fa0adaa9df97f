-------------------------- MODULE GenerateRetryProofs --------------------------
(* Proofs about GenerateRetry, for every set of requests and accounts,      *)
(* every scene and every bound.                                             *)
EXTENDS GenerateRetry, FiniteSetTheorems, TLAPS

-----------------------------------------------------------------------------
(* The inductive invariant.                                                 *)

(* An attempt holds the lease of its account until it is settled, a stream  *)
(* until it is closed; Apart are the places where a request holds nothing.  *)
Trying == {"copy", "fetch", "upload", "generate", "cleanup", "settle"}
Leased == Trying \cup {"sending", "telling", "closing", "releasing"}
Apart ==
  {"idle", "select", "recover", "resetting", "failed", "reporting", "finished", "ended"}

Kept(r) ==
  /\ req[r].at \in Leased => lease[r] \in Accounts
  /\ req[r].at \in Trying => req[r].account = lease[r] /\ req[r].channel \in Channels
  /\ req[r].at \in {"recover", "resetting"} => req[r].account \in Accounts
  /\ req[r].at = "resetting" => req[r].reset
  /\ req[r].at \in Apart => lease[r] = None
  /\ req[r].at \in Apart \cup {"settle", "releasing"} => copies[r] = {}
  /\ req[r].at # "dead" => \A copy \in copies[r] : copy[1] = lease[r]
  /\ source[r] # None => req[r].at = "fetch" /\ source[r] # lease[r]
  /\ req[r].at \in {"copy", "fetch"} =>
       \A i \in req[r].left : i \in DOMAIN scene.ask[r].files /\ scene.ask[r].files[i] # lease[r]

(* The worker of an attempt is there as long as its generation lasts, and a *)
(* request that is to reset it, or whose attempt has failed by it, finds it *)
(* blamed or of another generation.                                         *)
Blamed(r) ==
  LET a == req[r].account
      toReset == \/ req[r].at \in {"cleanup", "settle"} /\ req[r].cause \in {"waa", "worker"}
                 \/ req[r].at \in {"recover", "resetting"} /\ req[r].reset
  IN /\ req[r].at \in Trying \cup {"recover", "resetting"} =>
          /\ req[r].gen <= generation[a]
          /\ (generation[a] = req[r].gen => worker[a] # "closed")
     /\ toReset /\ generation[a] = req[r].gen => unfit[a]

FailedUnfit == \A a \in Accounts : worker[a] = "failed" => unfit[a]

IInv ==
  /\ TypeOK
  /\ \A r \in Requests : Kept(r) /\ Blamed(r)
  /\ FailedUnfit

-----------------------------------------------------------------------------
(* Type correctness.                                                        *)

(* What TypeOK says of one request.                                         *)
LEMMA Looked ==
  ASSUME TypeOK, NEW r \in Requests
  PROVE  /\ req[r] \in Attempt /\ stream[r] \in Stream
         /\ lease[r] \in Accounts \cup {None} /\ source[r] \in Accounts \cup {None}
         /\ copies[r] \in SUBSET (Accounts \X SUBSET Nat)
BY DEF TypeOK

LEMMA SceneType ==
  ASSUME RetryAssumption, scene \in Scenes, NEW r \in Requests
  PROVE  /\ scene.ask[r].files \in Seq(Accounts)
         /\ scene.ask[r].pinned \in Accounts \cup {None}
         /\ scene.ask[r].causes \in SUBSET AllCauses
<1>1. scene \in Scene
  BY DEF RetryAssumption
<1> QED
  BY <1>1 DEF Scene

(* A request whose variables are replaced by others of the type.            *)
LEMMA LocalType ==
  ASSUME req \in [Requests -> Attempt], NEW r \in Requests, NEW q \in Attempt, Local(r, q)
  PROVE  req' \in [Requests -> Attempt]
BY DEF Local

LEMMA MovesType ==
  ASSUME req \in [Requests -> Attempt], NEW r \in Requests, NEW p \in Phases, Moves(r, p)
  PROVE  req' \in [Requests -> Attempt]
<1>1. [req[r] EXCEPT !.at = p] \in Attempt
  BY DEF Attempt
<1> QED
  BY <1>1 DEF Moves, Local

LEMMA EndingType ==
  ASSUME stream \in [Requests -> Stream], NEW r \in Requests, NEW s \in Stream, Ending(r, s)
  PROVE  stream' \in [Requests -> Stream]
BY DEF Ending

LEMMA AfterType ==
  ASSUME NEW p \in Phases, NEW e \in {None, "failed", "cancelled", "noEligible", "cooling"}
  PROVE  After(p, e) \in Attempt
BY DEF After, Unstarted, Attempt

LEMMA FailsType ==
  ASSUME TypeOK, NEW r \in Requests, NEW cause \in AllCauses,
         NEW files \in SUBSET (Accounts \X SUBSET Nat), Fails(r, cause, files)
  PROVE  /\ req' \in [Requests -> Attempt]
         /\ copies' \in [Requests -> SUBSET (Accounts \X SUBSET Nat)]
<1> DEFINE e == IF cause = "fatal" /\ ~Live(r) THEN stream[r].ctx ELSE "failed"
           p == IF files = {} THEN "settle" ELSE "cleanup"
           q == [req[r] EXCEPT !.at = p, !.cause = cause, !.left = {}, !.err = e]
<1>a. e \in {None, "failed", "cancelled", "noEligible", "cooling"}
  BY Looked DEF Stream, Live
<1>b. p \in Phases
  BY DEF Phases
<1>c. {} \in SUBSET Nat /\ req[r] \in Attempt
  BY Looked
<1>d. q \in Attempt
  <2> HIDE DEF e, p
  <2> QED
    BY <1>a, <1>b, <1>c DEF Attempt
<1>1. Local(r, q)
  BY DEF Fails
<1> HIDE DEF q
<1>2. req' \in [Requests -> Attempt]
  BY <1>1, <1>d, LocalType DEF TypeOK
<1> QED
  BY <1>2 DEF Fails, TypeOK

(* The steps of the loop.                                                   *)
LEMMA InitType == Init => TypeOK
<1> SUFFICES ASSUME Init PROVE TypeOK
  OBVIOUS
<1>1. Unstarted \in Attempt
  BY DEF Unstarted, Attempt, Phases
<1>2. Untouched \in Stream
  BY RetryAssumption DEF Untouched, Stream
<1> QED
  BY <1>1, <1>2, RetryAssumption DEF Init, TypeOK

LEMMA CountsAreNat == ASSUME NEW S \in SUBSET Accounts PROVE Cardinality(S) \in Nat
BY RetryAssumption, FS_Subset, FS_CardinalityType

LEMMA BeginType == ASSUME TypeOK, NEW r \in Requests, Begin(r) PROVE TypeOK'
<1> DEFINE tries == IF Unpinned(r) /\ Cardinality(Schedulable) > 1
                      THEN Cardinality(Schedulable) ELSE 1
<1> DEFINE q == [req[r] EXCEPT !.at = "select", !.tries = tries]
<1>1. tries \in Nat
  BY CountsAreNat DEF Schedulable, Enabled
<1> HIDE DEF tries
<1>2. req[r] \in Attempt
  BY DEF TypeOK
<1>3. q \in Attempt
  BY <1>1, <1>2 DEF Attempt, Phases
<1>4. req' \in [Requests -> Attempt]
  BY <1>3, LocalType DEF Begin, TypeOK, tries
<1> QED
  BY <1>4 DEF Begin, TypeOK, accounts

Errors == {None, "failed", "cancelled", "noEligible", "cooling"}

LEMMA NextAttemptType ==
  ASSUME TypeOK, NEW r \in Requests, NEW q \in Attempt, NextAttempt(r, q)
  PROVE  req' \in [Requests -> Attempt]
<1> DEFINE n == [q EXCEPT !.tries = @ - 1, !.recovery = None]
<1>1. CASE q.tries > 1
  <2>1. q.tries \in Nat /\ q.tries - 1 \in Nat
    BY <1>1 DEF Attempt
  <2>2. n \in Attempt
    BY <2>1 DEF Attempt
  <2> QED
    BY <1>1, <2>2, LocalType DEF NextAttempt, TypeOK
<1>2. CASE ~(q.tries > 1)
  <2>1. /\ (IF q.err # None THEN "failed" ELSE "forward") \in Phases
        /\ q.err \in Errors
    BY DEF Phases, Attempt, Errors
  <2>2. After(IF q.err # None THEN "failed" ELSE "forward", q.err) \in Attempt
    BY <2>1, AfterType DEF Errors
  <2> QED
    BY <1>2, <2>2, LocalType DEF NextAttempt, TypeOK
<1> QED
  BY <1>1, <1>2

LEMMA AcquireFailsType == ASSUME TypeOK, NEW r \in Requests, AcquireFails(r) PROVE TypeOK'
<1> SUFFICES req' \in [Requests -> Attempt]
  BY DEF AcquireFails, TypeOK, accounts
<1> PICK refusal \in Refusals(r) :
       LET q == req[r]
           err == IF q.err = None \/ refusal # "noEligible" THEN refusal ELSE q.err
       IN CASE TurnsToCopying(r, refusal) ->
                 NextAttempt(r, [q EXCEPT !.copyFiles = TRUE])
            [] ~TurnsToCopying(r, refusal) /\ q.recovery # None /\ Unbound(r) /\ Live(r) ->
                 NextAttempt(r, [q EXCEPT !.attempted = @ \cup {q.recovery}, !.err = err])
            [] OTHER -> Local(r, After("failed", err))
  BY DEF AcquireFails
<1> DEFINE q == req[r]
           err == IF q.err = None \/ refusal # "noEligible" THEN refusal ELSE q.err
<1>1. q \in Attempt /\ stream[r] \in Stream
  BY DEF TypeOK
<1>a. refusal \in Errors
  BY <1>1 DEF Refusals, Live, Stream, Errors
<1>b. q.err \in Errors
  BY <1>1 DEF Attempt, Errors
<1>2. q \in Attempt /\ err \in Errors
  BY <1>1, <1>a, <1>b
<1> HIDE DEF q, err
<1>3. CASE TurnsToCopying(r, refusal)
  <2>1. [q EXCEPT !.copyFiles = TRUE] \in Attempt
    BY <1>2 DEF Attempt
  <2>2. NextAttempt(r, [q EXCEPT !.copyFiles = TRUE])
    BY <1>3 DEF q
  <2> QED
    BY <2>1, <2>2, NextAttemptType
<1>4. CASE ~TurnsToCopying(r, refusal) /\ q.recovery # None /\ Unbound(r) /\ Live(r)
  <2>1. [q EXCEPT !.attempted = @ \cup {q.recovery}, !.err = err] \in Attempt
    BY <1>2, <1>4 DEF Attempt, Errors
  <2>2. NextAttempt(r, [q EXCEPT !.attempted = @ \cup {q.recovery}, !.err = err])
    BY <1>4 DEF q, err
  <2> QED
    BY <2>1, <2>2, NextAttemptType
<1>5. CASE ~TurnsToCopying(r, refusal) /\ ~(q.recovery # None /\ Unbound(r) /\ Live(r))
  <2>1. After("failed", err) \in Attempt
    BY <1>2, AfterType DEF Phases, Errors
  <2>2. Local(r, After("failed", err))
    BY <1>5 DEF q, err
  <2> QED
    BY <2>1, <2>2, LocalType DEF TypeOK
<1> QED
  BY <1>3, <1>4, <1>5

LEMMA PreparesType ==
  ASSUME NEW r, NEW left, NEW channel PROVE Prepares(r, left, channel) \in Phases
BY DEF Prepares, Phases

LEMMA OutletsType ==
  ASSUME NEW r, NEW p \in Outlets(r)
  PROVE  p[1] \in Accounts /\ p[2] \in Channels /\ p[1] \in Eligible(r)
<1>1. Eligible(r) \in SUBSET Accounts
  BY DEF Eligible, Allowed, Enabled
<1>2. Routes(r) \in SUBSET Channels
  BY DEF Routes
<1> QED
  BY <1>1, <1>2 DEF Outlets
LEMMA AcquireType == ASSUME TypeOK, NEW r \in Requests, Acquire(r) PROVE TypeOK'
<1> PICK p \in Outlets(r) :
       LET a == p[1]
           foreign == {i \in DOMAIN scene.ask[r].files : scene.ask[r].files[i] # a}
           gen == IF worker[a] = "failed" THEN generation[a] + 1 ELSE generation[a]
       IN /\ HasSlot(a) /\ worker[a] # "closing"
          /\ lease' = [lease EXCEPT ![r] = a]
          /\ worker' = [worker EXCEPT ![a] = "ok"]
          /\ unfit' = [unfit EXCEPT ![a] = IF worker[a] = "ok" THEN @ ELSE FALSE]
          /\ generation' = [generation EXCEPT ![a] = gen]
          /\ Local(r, [req[r] EXCEPT
               !.at = Prepares(r, foreign, p[2]), !.left = foreign,
               !.account = a, !.channel = p[2], !.gen = gen, !.err = None,
               !.recovery = None, !.attempted = @ \cup {a}, !.checked = FALSE])
  BY DEF Acquire
<1> DEFINE a == p[1]
           gen == IF worker[a] = "failed" THEN generation[a] + 1 ELSE generation[a]
           foreign == {i \in DOMAIN scene.ask[r].files : scene.ask[r].files[i] # a}
           place == Prepares(r, foreign, p[2])
           q == [req[r] EXCEPT
                   !.at = place, !.left = foreign,
                   !.account = a, !.channel = p[2], !.gen = gen, !.err = None,
                   !.recovery = None, !.attempted = @ \cup {a}, !.checked = FALSE]
<1>1. a \in Accounts /\ p[2] \in Channels
  BY OutletsType
<1>2. gen \in Nat
  BY <1>1 DEF TypeOK
<1>3. foreign \in SUBSET Nat
  BY SceneType, RetryAssumption DEF TypeOK
<1>4. place \in Phases
  BY PreparesType
<1>5. lease' = [lease EXCEPT ![r] = a] /\ worker' = [worker EXCEPT ![a] = "ok"]
  OBVIOUS
<1>6. unfit' \in [Accounts -> BOOLEAN]
  BY <1>1 DEF TypeOK
<1>7. generation' = [generation EXCEPT ![a] = gen] /\ Local(r, q)
  OBVIOUS
<1> HIDE DEF gen, foreign, place
<1>8. q \in Attempt
  <2>1. req[r] \in Attempt
    BY DEF TypeOK
  <2> QED
    BY <2>1, <1>1, <1>2, <1>3, <1>4 DEF Attempt
<1>9. req' \in [Requests -> Attempt]
  BY <1>7, <1>8, LocalType DEF TypeOK
<1>10. generation' \in [Accounts -> Nat]
  BY <1>1, <1>2, <1>7 DEF TypeOK
<1>11. /\ lease' \in [Requests -> Accounts \cup {None}]
       /\ worker' \in [Accounts -> {"ok", "failed", "closing", "closed"}]
  BY <1>1, <1>5 DEF TypeOK
<1>12. UNCHANGED <<stream, source, copies, state, login, cooling, upsets, scene>>
  BY DEF Acquire
<1> HIDE DEF a, q
<1> QED
  BY <1>6, <1>9, <1>10, <1>11, <1>12 DEF TypeOK


(* The copies.                                                              *)
LEMMA TemporaryType ==
  ASSUME TypeOK, NEW r \in Requests, lease[r] # None
  PROVE  Temporary(r) \in Accounts \X SUBSET Nat
<1>1. req[r] \in Attempt
  BY DEF TypeOK
<1>2. lease[r] \in Accounts /\ req[r].left \in SUBSET Nat
  BY <1>1 DEF TypeOK, Attempt
<1> QED
  BY <1>2 DEF Temporary

-----------------------------------------------------------------------------
(* The steps preserve the inductive invariant.                              *)

OnlyOf(r) ==
  \A q \in Requests \ {r} :
    /\ req'[q] = req[q] /\ lease'[q] = lease[q]
    /\ source'[q] = source[q] /\ copies'[q] = copies[q]

LEMMA StepOf ==
  ASSUME IInv, NEW r \in Requests, TypeOK', Kept(r)', Blamed(r)', OnlyOf(r),
         UNCHANGED <<worker, unfit, generation, scene>>
  PROVE  IInv'
<1>1. FailedUnfit'
  BY DEF IInv, FailedUnfit
<1>2. ASSUME NEW q \in Requests PROVE Kept(q)' /\ Blamed(q)'
  <2>1. CASE q = r
    BY <2>1
  <2>2. CASE q # r
    <3>1. Kept(q) /\ Blamed(q)
      BY DEF IInv
    <3>2. /\ req'[q] = req[q] /\ lease'[q] = lease[q]
          /\ source'[q] = source[q] /\ copies'[q] = copies[q]
      BY <2>2 DEF OnlyOf
    <3> QED
      BY <3>1, <3>2 DEF Kept, Blamed
  <2> QED
    BY <2>1, <2>2
<1> QED
  BY <1>1, <1>2 DEF IInv

(* What the others rely on: while its generation lasts, a worker that is     *)
(* there stays, and stays blamed.                                           *)
Stays(a) ==
  /\ generation[a] <= generation'[a]
  /\ generation'[a] = generation[a] /\ worker[a] # "closed" =>
       worker'[a] # "closed" /\ (unfit[a] => unfit'[a])

LEMMA OtherStays ==
  ASSUME IInv, TypeOK', NEW q \in Requests, scene' = scene, \A a \in Accounts : Stays(a),
         req'[q] = req[q], lease'[q] = lease[q], source'[q] = source[q], copies'[q] = copies[q]
  PROVE  Kept(q)' /\ Blamed(q)'
<1>1. Kept(q) /\ Blamed(q)
  BY DEF IInv
<1>2. Kept(q)'
  BY <1>1 DEF Kept
<1>3. req[q].at \in Trying \cup {"recover", "resetting"} =>
        /\ req[q].account \in Accounts /\ req[q].gen <= generation[req[q].account]
        /\ Stays(req[q].account)
  BY <1>1 DEF Kept, Blamed, Leased
<1>4. req[q].gen \in Nat /\ generation \in [Accounts -> Nat] /\ generation' \in [Accounts -> Nat]
  BY Looked DEF IInv, TypeOK, Attempt
<1> DEFINE a == req[q].account
           toReset == \/ req[q].at \in {"cleanup", "settle"} /\ req[q].cause \in {"waa", "worker"}
                      \/ req[q].at \in {"recover", "resetting"} /\ req[q].reset
<1>5. ASSUME req[q].at \in Trying \cup {"recover", "resetting"}
      PROVE  req[q].gen <= generation'[a]
  BY <1>3, <1>4, <1>5 DEF Stays
<1>6. ASSUME req[q].at \in Trying \cup {"recover", "resetting"}, generation'[a] = req[q].gen
      PROVE  worker'[a] # "closed" /\ (unfit[a] => unfit'[a]) /\ generation[a] = req[q].gen
  <2>1. generation[a] = req[q].gen /\ generation'[a] = generation[a]
    BY <1>3, <1>4, <1>6 DEF Stays
  <2>2. worker[a] # "closed"
    BY <1>1, <1>6, <2>1 DEF Blamed
  <2> QED
    BY <1>3, <1>6, <2>1, <2>2 DEF Stays
<1>7. ASSUME toReset, generation'[a] = req[q].gen PROVE unfit'[a]
  <2>1. req[q].at \in Trying \cup {"recover", "resetting"}
    BY <1>7 DEF Trying
  <2>2. generation[a] = req[q].gen /\ (unfit[a] => unfit'[a])
    BY <1>6, <1>7, <2>1
  <2>3. unfit[a]
    BY <1>1, <1>7, <2>2 DEF Blamed
  <2> QED
    BY <2>2, <2>3
<1>8. Blamed(q)'
  BY <1>5, <1>6, <1>7 DEF Blamed
<1> QED
  BY <1>2, <1>8

LEMMA SameStays ==
  ASSUME IInv, UNCHANGED <<worker, unfit, generation>>
  PROVE  /\ worker' \in [Accounts -> {"ok", "failed", "closing", "closed"}]
         /\ unfit' \in [Accounts -> BOOLEAN] /\ generation' \in [Accounts -> Nat]
         /\ FailedUnfit' /\ \A b \in Accounts : Stays(b)
BY DEF IInv, TypeOK, FailedUnfit, Stays

LEMMA WorkerStepOf ==
  ASSUME IInv, NEW r \in Requests, TypeOK', Kept(r)', Blamed(r)', OnlyOf(r),
         scene' = scene, FailedUnfit', \A a \in Accounts : Stays(a)
  PROVE  IInv'
<1>1. ASSUME NEW q \in Requests PROVE Kept(q)' /\ Blamed(q)'
  <2>1. CASE q # r
    <3>1. /\ req'[q] = req[q] /\ lease'[q] = lease[q]
          /\ source'[q] = source[q] /\ copies'[q] = copies[q]
      BY <2>1 DEF OnlyOf
    <3> QED
      BY <3>1, OtherStays
  <2> QED
    BY <2>1
<1> QED
  BY <1>1 DEF IInv

LEMMA AccountStepOf ==
  ASSUME IInv, TypeOK', UNCHANGED <<req, lease, source, copies, scene>>,
         FailedUnfit', \A a \in Accounts : Stays(a)
  PROVE  IInv'
BY OtherStays DEF IInv

LEMMA InitStep == ASSUME Init PROVE IInv
<1>1. TypeOK
  BY InitType
<1>2. ASSUME NEW r \in Requests PROVE Kept(r) /\ Blamed(r)
  BY RetryAssumption DEF Init, Unstarted, Kept, Blamed, Trying, Leased, Apart
<1>3. FailedUnfit
  BY DEF Init, FailedUnfit
<1> QED
  BY <1>1, <1>2, <1>3 DEF IInv

LEMMA BeginStep == ASSUME IInv, NEW r \in Requests, Begin(r) PROVE IInv'
<1>1. TypeOK'
  BY BeginType DEF IInv
<1>2. req[r].at = "idle" /\ req'[r].at = "select"
  BY DEF Begin, Local, IInv, TypeOK, Attempt
<1>3. UNCHANGED <<lease, source, copies, worker, unfit, generation, scene>> /\ OnlyOf(r)
  BY DEF Begin, Local, accounts, OnlyOf, IInv, TypeOK
<1>4. Kept(r)' /\ Blamed(r)'
  BY <1>2, <1>3 DEF IInv, Kept, Blamed, Trying, Leased, Apart
<1> QED
  BY <1>1, <1>3, <1>4, StepOf

LEMMA AcquireFailsOf ==
  ASSUME IInv, NEW r \in Requests, AcquireFails(r)
  PROVE  req'[r].at \in {"select", "failed", "forward"} /\ OnlyOf(r)
<1>1. req[r] \in Attempt /\ req[r].at = "select"
  BY DEF AcquireFails, IInv, TypeOK
<1>2. ASSUME NEW q \in Attempt, q.at = "select", NextAttempt(r, q)
      PROVE  req'[r].at \in {"select", "failed", "forward"}
  BY <1>2 DEF NextAttempt, Local, After, Unstarted, IInv, TypeOK, Attempt
<1>3. req'[r].at \in {"select", "failed", "forward"}
  <2> PICK refusal \in Refusals(r) :
       LET q == req[r]
           err == IF q.err = None \/ refusal # "noEligible" THEN refusal ELSE q.err
       IN CASE TurnsToCopying(r, refusal) ->
                 NextAttempt(r, [q EXCEPT !.copyFiles = TRUE])
            [] ~TurnsToCopying(r, refusal) /\ q.recovery # None /\ Unbound(r) /\ Live(r) ->
                 NextAttempt(r, [q EXCEPT !.attempted = @ \cup {q.recovery}, !.err = err])
            [] OTHER -> Local(r, After("failed", err))
    BY DEF AcquireFails
  <2> DEFINE again == req[r].recovery # None /\ Unbound(r) /\ Live(r)
             err == IF req[r].err = None \/ refusal # "noEligible" THEN refusal ELSE req[r].err
  <2>1. CASE TurnsToCopying(r, refusal)
    <3>1. [req[r] EXCEPT !.copyFiles = TRUE] \in Attempt
      BY <1>1 DEF Attempt
    <3>2. [req[r] EXCEPT !.copyFiles = TRUE].at = "select"
      BY <1>1 DEF Attempt
    <3> QED
      BY <2>1, <3>1, <3>2, <1>2
  <2>2. CASE ~TurnsToCopying(r, refusal) /\ again
    <3> DEFINE q == [req[r] EXCEPT !.attempted = @ \cup {req[r].recovery}, !.err = err]
    <3>1. NextAttempt(r, q)
      BY <2>2
    <3>2. q.at = "select" /\ q.tries = req[r].tries
      BY <1>1 DEF Attempt
    <3> QED
      BY <3>1, <3>2, <1>1 DEF NextAttempt, Local, After, Unstarted, IInv, TypeOK, Attempt
  <2>3. CASE ~TurnsToCopying(r, refusal) /\ ~again
    <3>1. Local(r, After("failed", err))
      BY <2>3
    <3> QED
      BY <3>1 DEF Local, After, Unstarted, IInv, TypeOK
  <2> QED
    BY <2>1, <2>2, <2>3
<1>4. UNCHANGED <<lease, source, copies, worker, unfit, generation, scene>>
  BY DEF AcquireFails, accounts
<1>5. OnlyOf(r)
  <2>1. \E q : Local(r, q)
    BY DEF AcquireFails, NextAttempt
  <2> QED
    BY <1>4, <2>1 DEF Local, OnlyOf, IInv, TypeOK
<1> QED
  BY <1>3, <1>5

LEMMA AcquireFailsStep == ASSUME IInv, NEW r \in Requests, AcquireFails(r) PROVE IInv'
<1>1. TypeOK'
  BY AcquireFailsType DEF IInv
<1>2. req[r].at = "select" /\ UNCHANGED <<lease, source, copies, worker, unfit, generation, scene>>
  BY DEF AcquireFails, accounts
<1>3. req'[r].at \in {"select", "failed", "forward"} /\ OnlyOf(r)
  BY AcquireFailsOf
<1>4. Kept(r)' /\ Blamed(r)'
  BY <1>2, <1>3 DEF IInv, Kept, Blamed, Trying, Leased, Apart
<1> QED
  BY <1>1, <1>2, <1>3, <1>4, StepOf

LEMMA AcquireStep == ASSUME IInv, NEW r \in Requests, Acquire(r) PROVE IInv'
<1>1. TypeOK'
  BY AcquireType DEF IInv
<1> PICK p \in Outlets(r) :
       LET a == p[1]
           foreign == {i \in DOMAIN scene.ask[r].files : scene.ask[r].files[i] # a}
           gen == IF worker[a] = "failed" THEN generation[a] + 1 ELSE generation[a]
       IN /\ HasSlot(a) /\ worker[a] # "closing"
          /\ lease' = [lease EXCEPT ![r] = a]
          /\ worker' = [worker EXCEPT ![a] = "ok"]
          /\ unfit' = [unfit EXCEPT ![a] = IF worker[a] = "ok" THEN @ ELSE FALSE]
          /\ generation' = [generation EXCEPT ![a] = gen]
          /\ Local(r, [req[r] EXCEPT
               !.at = Prepares(r, foreign, p[2]), !.left = foreign,
               !.account = a, !.channel = p[2], !.gen = gen, !.err = None,
               !.recovery = None, !.attempted = @ \cup {a}, !.checked = FALSE])
  BY DEF Acquire
<1> DEFINE a == p[1]
           gen == IF worker[a] = "failed" THEN generation[a] + 1 ELSE generation[a]
           foreign == {i \in DOMAIN scene.ask[r].files : scene.ask[r].files[i] # a}
           place == Prepares(r, foreign, p[2])
           q == [req[r] EXCEPT
                   !.at = place, !.left = foreign,
                   !.account = a, !.channel = p[2], !.gen = gen, !.err = None,
                   !.recovery = None, !.attempted = @ \cup {a}, !.checked = FALSE]
<1>2. a \in Accounts /\ p[2] \in Channels
  BY OutletsType
<1>3. /\ lease' = [lease EXCEPT ![r] = a] /\ worker' = [worker EXCEPT ![a] = "ok"]
      /\ unfit' = [unfit EXCEPT ![a] = IF worker[a] = "ok" THEN @ ELSE FALSE]
      /\ generation' = [generation EXCEPT ![a] = gen] /\ Local(r, q)
  OBVIOUS
<1>4. UNCHANGED <<source, copies, scene>> /\ req[r].at = "select"
  BY DEF Acquire
<1>5. place \in {"copy", "upload", "generate"}
  BY DEF Prepares
<1>6. \A i \in foreign : i \in DOMAIN scene.ask[r].files /\ scene.ask[r].files[i] # a
  OBVIOUS
<1> HIDE DEF a, gen, foreign, place, q
<1>7. req'[r] = q /\ OnlyOf(r) /\ lease'[r] = a
  BY <1>2, <1>3, <1>4 DEF Local, OnlyOf, IInv, TypeOK
<1>8. /\ q.at = place /\ q.left = foreign /\ q.account = a /\ q.channel = p[2] /\ q.gen = gen
  BY Looked DEF q, IInv, Attempt
<1>9. generation \in [Accounts -> Nat] /\ worker \in [Accounts -> {"ok", "failed", "closing", "closed"}]
      /\ unfit \in [Accounts -> BOOLEAN]
  BY DEF IInv, TypeOK
<1>10. \A b \in Accounts : Stays(b)
  BY <1>2, <1>3, <1>9 DEF Stays, gen
<1>11. FailedUnfit'
  BY <1>2, <1>3, <1>9 DEF FailedUnfit, IInv
<1>12. source[r] = None /\ copies[r] = {}
  BY <1>4 DEF IInv, Kept, Apart
<1>13. Kept(r)'
  BY <1>2, <1>4, <1>5, <1>6, <1>7, <1>8, <1>12 DEF Kept, Trying, Leased, Apart
<1>14. generation'[a] = gen /\ gen \in Nat /\ worker'[a] = "ok"
  BY <1>2, <1>3, <1>9 DEF gen
<1>15. Blamed(r)'
  BY <1>5, <1>7, <1>8, <1>14 DEF Blamed
<1> QED
  BY <1>1, <1>4, <1>7, <1>10, <1>11, <1>13, <1>15, WorkerStepOf

LEMMA BlocksOf ==
  ASSUME IInv, NEW r \in Requests, Blocks(r)
  PROVE  /\ req[r].at \in {"select", "copy", "upload", "generate", "failed", "forward"}
         /\ req' \in [Requests -> Attempt] /\ req'[r].at = "blocked" /\ OnlyOf(r)
         /\ lease' \in [Requests -> Accounts \cup {None}]
         /\ req[r].at # "select" => lease' = lease
<1> DEFINE q == [Unstarted EXCEPT !.at = "blocked", !.checked = req[r].checked]
<1>1. req[r] \in Attempt
  BY DEF IInv, TypeOK
<1>2. q \in Attempt /\ q.at = "blocked"
  <2>1. Unstarted \in Attempt /\ req[r].checked \in BOOLEAN /\ "blocked" \in Phases
    BY <1>1 DEF Attempt, Unstarted, Phases
  <2> QED
    BY <2>1 DEF Attempt
<1>3. Local(r, q) /\ UNCHANGED <<stream, source, copies, accounts>>
  BY DEF Blocks
<1> HIDE DEF q
<1>4. req' \in [Requests -> Attempt] /\ req'[r].at = "blocked"
  BY <1>2, <1>3, LocalType DEF Local, IInv, TypeOK
<1>5. lease' = lease \/ \E p \in Outlets(r) : lease' = [lease EXCEPT ![r] = p[1]]
  BY DEF Blocks
<1>6. lease' = lease \/ \E a \in Accounts : lease' = [lease EXCEPT ![r] = a]
  BY <1>5, OutletsType
<1>7. lease' \in [Requests -> Accounts \cup {None}] /\ OnlyOf(r)
  BY <1>3, <1>6 DEF Local, OnlyOf, IInv, TypeOK
<1>8. /\ req[r].at \in {"select", "copy", "upload", "generate", "failed", "forward"}
      /\ req[r].at # "select" => lease' = lease
  BY DEF Blocks
<1> QED
  BY <1>4, <1>7, <1>8

LEMMA BlocksStep == ASSUME IInv, NEW r \in Requests, Blocks(r) PROVE IInv'
<1>1. /\ req[r].at \in {"select", "copy", "upload", "generate", "failed", "forward"}
      /\ req' \in [Requests -> Attempt] /\ req'[r].at = "blocked" /\ OnlyOf(r)
      /\ lease' \in [Requests -> Accounts \cup {None}]
      /\ req[r].at # "select" => lease' = lease
  BY BlocksOf
<1>2. UNCHANGED <<stream, source, copies, accounts>>
  BY DEF Blocks
<1>3. TypeOK'
  BY <1>1, <1>2 DEF IInv, TypeOK, accounts
<1>4. Kept(r)
  BY DEF IInv
<1>5. source[r] = None
  BY <1>1, <1>4 DEF Kept
<1>6. \A copy \in copies[r] : copy[1] = lease'[r]
  <2>1. CASE req[r].at = "select"
    BY <1>4, <2>1 DEF Kept, Apart
  <2>2. CASE req[r].at # "select"
    BY <1>1, <1>4, <2>2 DEF Kept
  <2> QED
    BY <2>1, <2>2
<1>7. Kept(r)' /\ Blamed(r)'
  BY <1>1, <1>2, <1>5, <1>6 DEF Kept, Blamed, Trying, Leased, Apart
<1> QED
  BY <1>1, <1>2, <1>3, <1>7, StepOf DEF accounts

(* An attempt that fails, whatever else its step changes.                   *)
LEMMA FailsKept ==
  ASSUME IInv, NEW r \in Requests, NEW cause \in AllCauses,
         NEW files \in SUBSET (Accounts \X SUBSET Nat), Fails(r, cause, files),
         req[r].at \in {"copy", "fetch", "upload", "generate"},
         \A file \in files : file[1] = lease[r],
         UNCHANGED <<lease, generation, scene>>, source'[r] = None,
         worker[lease[r]] # "closed" => worker'[lease[r]] # "closed",
         cause \in {"waa", "worker"} => unfit'[lease[r]]
  PROVE  Kept(r)' /\ Blamed(r)'
<1>1. /\ req'[r].at = IF files = {} THEN "settle" ELSE "cleanup"
      /\ req'[r].cause = cause /\ copies'[r] = files
      /\ req'[r].account = req[r].account /\ req'[r].gen = req[r].gen
      /\ req'[r].channel = req[r].channel
  BY Looked DEF Fails, Local, IInv, TypeOK, Attempt
<1>2. /\ lease[r] \in Accounts /\ req[r].account = lease[r] /\ req[r].channel \in Channels
      /\ req[r].gen <= generation[lease[r]]
      /\ (generation[lease[r]] = req[r].gen => worker[lease[r]] # "closed")
  BY DEF IInv, Kept, Blamed, Trying, Leased
<1>3. Kept(r)'
  BY <1>1, <1>2 DEF Kept, Trying, Leased, Apart
<1>4. Blamed(r)'
  BY <1>1, <1>2 DEF Blamed
<1> QED
  BY <1>3, <1>4

LEMMA FailsOnlyOf ==
  ASSUME IInv, NEW r \in Requests, NEW cause, NEW files, Fails(r, cause, files), lease' = lease,
         \A q \in Requests \ {r} : source'[q] = source[q]
  PROVE  OnlyOf(r)
BY DEF Fails, Local, OnlyOf, IInv, TypeOK

LEMMA DriveFaultsType ==
  ASSUME NEW r, NEW cause \in DriveFaults(r)
  PROVE  cause \in AllCauses /\ cause \notin {"waa", "worker"}
BY DEF DriveFaults, Faults, AllCauses

LEMMA SignedOutType ==
  ASSUME TypeOK, NEW a \in Accounts, SignedOut(a)
  PROVE  state' \in [Accounts -> {"ready", "auth", "off"}]
BY DEF SignedOut, TypeOK

LEMMA MarksType ==
  ASSUME TypeOK, NEW r \in Requests, lease[r] # None, NEW cause, MarksAuthentication(r, cause)
  PROVE  state' \in [Accounts -> {"ready", "auth", "off"}]
<1>1. state' = state \/ SignedOut(lease[r])
  BY DEF MarksAuthentication
<1>2. lease[r] \in Accounts
  BY Looked
<1> QED
  BY <1>1, <1>2, SignedOutType DEF TypeOK

LEMMA LiftsType ==
  ASSUME TypeOK, NEW used, Lifts(used)
  PROVE  cooling' \in [Accounts -> SUBSET (Channels \cup {"global"})]
BY DEF Lifts, TypeOK

LEMMA OwnersType ==
  ASSUME IInv, NEW r \in Requests, req[r].at = "copy", NEW owner \in Owners(r)
  PROVE  owner \in Accounts /\ owner # lease[r]
<1>1. PICK i \in req[r].left : owner = scene.ask[r].files[i]
  BY DEF Owners, NextFiles
<1>2. i \in DOMAIN scene.ask[r].files /\ scene.ask[r].files[i] # lease[r]
  BY DEF IInv, Kept
<1>3. scene.ask[r].files \in Seq(Accounts)
  BY SceneType, RetryAssumption DEF IInv, TypeOK
<1> QED
  BY <1>1, <1>2, <1>3

LEMMA HoldOwnerStep == ASSUME IInv, NEW r \in Requests, HoldOwner(r) PROVE IInv'
<1> PICK owner \in Owners(r) : source' = [source EXCEPT ![r] = owner]
  BY DEF HoldOwner
<1>1. /\ req[r].at = "copy" /\ Moves(r, "fetch")
      /\ UNCHANGED <<stream, lease, copies, accounts>>
  BY DEF HoldOwner, Moves
<1>2. owner \in Accounts /\ owner # lease[r]
  BY <1>1, OwnersType
<1>3. req' \in [Requests -> Attempt]
  BY <1>1, MovesType DEF IInv, TypeOK, Phases
<1>4. TypeOK'
  BY <1>1, <1>2, <1>3 DEF IInv, TypeOK, accounts
<1>5. req'[r] = [req[r] EXCEPT !.at = "fetch"] /\ OnlyOf(r) /\ source'[r] = owner
  BY <1>1 DEF Moves, Local, OnlyOf, IInv, TypeOK
<1>6. /\ req'[r].at = "fetch" /\ req'[r].account = req[r].account /\ req'[r].gen = req[r].gen
      /\ req'[r].channel = req[r].channel /\ req'[r].left = req[r].left
  BY <1>5, Looked DEF IInv, Attempt
<1>7. Kept(r)' /\ Blamed(r)'
  BY <1>1, <1>2, <1>5, <1>6 DEF IInv, Kept, Blamed, Trying, Leased, Apart, accounts
<1> QED
  BY <1>1, <1>4, <1>5, <1>7, StepOf DEF accounts

LEMMA OwnerRefusedStep == ASSUME IInv, NEW r \in Requests, OwnerRefused(r) PROVE IInv'
<1>1. req[r].at = "copy" /\ Fails(r, "fatal", copies[r]) /\ "fatal" \in AllCauses
  BY DEF OwnerRefused, AllCauses
<1>2. UNCHANGED <<stream, lease, source, accounts>>
  BY DEF OwnerRefused
<1>3. copies[r] \in SUBSET (Accounts \X SUBSET Nat)
  BY Looked DEF IInv
<1>4. TypeOK'
  BY <1>1, <1>2, <1>3, FailsType DEF IInv, TypeOK, accounts
<1>5. source[r] = None /\ \A file \in copies[r] : file[1] = lease[r]
  BY <1>1 DEF IInv, Kept
<1>6. Kept(r)' /\ Blamed(r)'
  BY <1>1, <1>2, <1>3, <1>5, FailsKept DEF accounts
<1>7. OnlyOf(r)
  BY <1>1, <1>2, FailsOnlyOf
<1> QED
  BY <1>2, <1>4, <1>6, <1>7, StepOf DEF accounts

LEMMA FetchUnauthorizedStep ==
  ASSUME IInv, NEW r \in Requests, FetchUnauthorized(r) PROVE IInv'
<1>1. req[r].at = "fetch" /\ Fails(r, "auth", copies[r]) /\ "auth" \in AllCauses
  BY DEF FetchUnauthorized, AllCauses
<1>2. UNCHANGED <<stream, lease, login, cooling, worker, unfit, generation, upsets, scene>>
  BY DEF FetchUnauthorized
<1>3. source' = [source EXCEPT ![r] = None] /\ SignedOut(source[r])
  BY DEF FetchUnauthorized
<1>4. copies[r] \in SUBSET (Accounts \X SUBSET Nat)
  BY Looked DEF IInv
<1>5. state' \in [Accounts -> {"ready", "auth", "off"}]
  <2>1. CASE source[r] = None
    BY <1>3, <2>1, RetryAssumption DEF SignedOut, IInv, TypeOK
  <2>2. CASE source[r] # None
    BY <1>3, <2>2, SignedOutType, Looked DEF IInv
  <2> QED
    BY <2>1, <2>2
<1>6. TypeOK'
  BY <1>1, <1>2, <1>3, <1>4, <1>5, FailsType DEF IInv, TypeOK
<1>7. source'[r] = None /\ \A file \in copies[r] : file[1] = lease[r]
  BY <1>1, <1>3 DEF IInv, Kept, TypeOK
<1>8. Kept(r)' /\ Blamed(r)'
  BY <1>1, <1>2, <1>4, <1>7, FailsKept
<1>9. OnlyOf(r)
  BY <1>1, <1>2, <1>3, FailsOnlyOf DEF IInv, TypeOK
<1> QED
  BY <1>2, <1>6, <1>8, <1>9, StepOf

(* A drive call of the attempt that fails, with its temporary file or       *)
(* without one.                                                             *)
LEMMA DriveFailsStep ==
  ASSUME IInv, NEW r \in Requests, req[r].at \in {"fetch", "upload"},
         NEW cause \in DriveFaults(r), NEW written \in SUBSET {Temporary(r)},
         Fails(r, cause, copies[r] \cup written), MarksAuthentication(r, cause),
         source' = [source EXCEPT ![r] = None],
         UNCHANGED <<stream, lease, login, cooling, worker, unfit, generation, upsets, scene>>
  PROVE  IInv'
<1> DEFINE files == copies[r] \cup written
<1>1. cause \in AllCauses /\ cause \notin {"waa", "worker"}
  BY DriveFaultsType
<1>2. lease[r] \in Accounts
  BY DEF IInv, Kept, Leased, Trying
<1>3. Temporary(r) \in Accounts \X SUBSET Nat /\ Temporary(r)[1] = lease[r]
  BY <1>2, RetryAssumption, TemporaryType DEF IInv, Temporary
<1>4. files \in SUBSET (Accounts \X SUBSET Nat) /\ \A file \in files : file[1] = lease[r]
  BY <1>3, Looked DEF IInv, Kept
<1>5. Fails(r, cause, files)
  OBVIOUS
<1>6. state' \in [Accounts -> {"ready", "auth", "off"}]
  BY <1>2, RetryAssumption, MarksType DEF IInv
<1> HIDE DEF files
<1>7. TypeOK'
  BY <1>1, <1>4, <1>5, <1>6, FailsType DEF IInv, TypeOK
<1>8. source'[r] = None
  BY DEF IInv, TypeOK
<1>9. Kept(r)' /\ Blamed(r)'
  BY <1>1, <1>4, <1>5, <1>8, FailsKept
<1>10. OnlyOf(r)
  BY <1>5, FailsOnlyOf DEF IInv, TypeOK
<1> QED
  BY <1>7, <1>9, <1>10, StepOf

LEMMA FetchFailsStep == ASSUME IInv, NEW r \in Requests, FetchFails(r) PROVE IInv'
BY DriveFailsStep DEF FetchFails

LEMMA UploadFailsStep == ASSUME IInv, NEW r \in Requests, UploadFails(r) PROVE IInv'
<1>1. req[r].at = "upload" /\ source' = source
  BY DEF UploadFails
<1>2. source[r] = None
  BY <1>1 DEF IInv, Kept
<1>3. source' = [source EXCEPT ![r] = None]
  BY <1>1, <1>2 DEF IInv, TypeOK
<1> QED
  BY <1>1, <1>3, DriveFailsStep DEF UploadFails

LEMMA FetchStep == ASSUME IInv, NEW r \in Requests, Fetch(r) PROVE IInv'
<1> DEFINE left == req[r].left \ NextFiles(r)
           place == Prepares(r, left, req[r].channel)
           q == [req[r] EXCEPT !.at = place, !.left = left, !.checked = TRUE]
<1>1. /\ req[r].at = "fetch" /\ Local(r, q)
      /\ copies' = [copies EXCEPT ![r] = @ \cup {Temporary(r)}]
      /\ source' = [source EXCEPT ![r] = None] /\ Lifts({source[r], lease[r]})
      /\ UNCHANGED <<stream, lease, state, login, worker, unfit, generation, upsets, scene>>
  BY DEF Fetch
<1>2. place \in {"copy", "upload", "generate"} /\ left \subseteq req[r].left
  BY DEF Prepares
<1>3. req[r] \in Attempt
  BY Looked DEF IInv
<1> HIDE DEF left, place
<1>4. /\ q \in Attempt /\ q.at = place /\ q.left = left /\ q.account = req[r].account
      /\ q.channel = req[r].channel /\ q.gen = req[r].gen
  BY ZenonT(40), <1>2, <1>3 DEF Attempt, Phases
<1> HIDE DEF q
<1>5. lease[r] \in Accounts
  BY <1>1 DEF IInv, Kept, Leased, Trying
<1>6. Temporary(r) \in Accounts \X SUBSET Nat /\ Temporary(r)[1] = lease[r]
  BY <1>5, RetryAssumption, TemporaryType DEF IInv, Temporary
<1>7. req' \in [Requests -> Attempt]
  BY <1>1, <1>4, LocalType DEF IInv, TypeOK
<1>8. cooling' \in [Accounts -> SUBSET (Channels \cup {"global"})]
  BY <1>1, LiftsType DEF IInv
<1>9. copies'[r] = copies[r] \cup {Temporary(r)} /\ source'[r] = None /\ req'[r] = q /\ OnlyOf(r)
  BY <1>1 DEF Local, OnlyOf, IInv, TypeOK
<1>10. copies' \in [Requests -> SUBSET (Accounts \X SUBSET Nat)]
  BY <1>1, <1>6 DEF IInv, TypeOK
<1>11. TypeOK'
  BY <1>1, <1>7, <1>8, <1>10 DEF IInv, TypeOK
<1>12. Kept(r)'
  BY <1>1, <1>2, <1>4, <1>6, <1>9 DEF IInv, Kept, Trying, Leased, Apart
<1>13. Blamed(r)'
  BY <1>1, <1>2, <1>4, <1>9 DEF IInv, Blamed, Trying
<1> QED
  BY <1>1, <1>9, <1>11, <1>12, <1>13, StepOf

LEMMA UploadStep == ASSUME IInv, NEW r \in Requests, Upload(r) PROVE IInv'
<1> PICK written \in SUBSET {Temporary(r)} :
       /\ copies' = [copies EXCEPT ![r] = @ \cup written]
       /\ IF written = {} THEN cooling' = cooling ELSE Lifts({lease[r]})
       /\ Local(r, [req[r] EXCEPT !.at = "generate", !.checked = @ \/ written # {}])
  BY DEF Upload
<1> DEFINE checked == req[r].checked \/ written # {}
           q == [req[r] EXCEPT !.at = "generate", !.checked = checked]
<1>1. /\ req[r].at = "upload" /\ Local(r, q)
      /\ UNCHANGED <<stream, lease, source, state, login, worker, unfit, generation, upsets, scene>>
  BY DEF Upload
<1>2. /\ q \in Attempt /\ q.at = "generate" /\ q.account = req[r].account
      /\ q.channel = req[r].channel /\ q.gen = req[r].gen
  <2>1. checked \in BOOLEAN /\ req[r] \in Attempt
    BY Looked DEF IInv
  <2> HIDE DEF checked
  <2> QED
    BY ZenonT(40), <2>1 DEF Attempt, Phases
<1> HIDE DEF q
<1>3. lease[r] \in Accounts
  BY <1>1 DEF IInv, Kept, Leased, Trying
<1>4. Temporary(r) \in Accounts \X SUBSET Nat /\ Temporary(r)[1] = lease[r]
  BY <1>3, RetryAssumption, TemporaryType DEF IInv, Temporary
<1>5. req' \in [Requests -> Attempt]
  BY <1>1, <1>2, LocalType DEF IInv, TypeOK
<1>6. cooling' \in [Accounts -> SUBSET (Channels \cup {"global"})]
  BY LiftsType DEF IInv, TypeOK
<1>7. copies'[r] = copies[r] \cup written /\ req'[r] = q /\ OnlyOf(r)
  BY <1>1 DEF Local, OnlyOf, IInv, TypeOK
<1>8. TypeOK'
  <2>1. copies' \in [Requests -> SUBSET (Accounts \X SUBSET Nat)]
    BY <1>4 DEF IInv, TypeOK
  <2> QED
    BY <1>1, <1>5, <1>6, <2>1 DEF IInv, TypeOK
<1>9. Kept(r)'
  BY <1>1, <1>2, <1>4, <1>7 DEF IInv, Kept, Trying, Leased, Apart
<1>10. Blamed(r)'
  BY <1>1, <1>2, <1>7 DEF IInv, Blamed, Trying
<1> QED
  BY <1>1, <1>7, <1>8, <1>9, <1>10, StepOf

LEMMA FirstEventStep == ASSUME IInv, NEW r \in Requests, FirstEvent(r) PROVE IInv'
<1>1. /\ req[r].at = "generate" /\ Local(r, After("forward", None))
      /\ UNCHANGED <<stream, lease, source, copies, accounts>>
  BY DEF FirstEvent
<1>2. After("forward", None) \in Attempt
  BY AfterType DEF Phases
<1>3. TypeOK'
  BY <1>1, <1>2, LocalType DEF IInv, TypeOK, accounts
<1>4. req'[r].at = "forward" /\ OnlyOf(r)
  BY <1>1 DEF Local, After, Unstarted, OnlyOf, IInv, TypeOK
<1>5. Kept(r)' /\ Blamed(r)'
  BY <1>1, <1>4 DEF IInv, Kept, Blamed, Trying, Leased, Apart, accounts
<1> QED
  BY <1>1, <1>3, <1>4, <1>5, StepOf DEF accounts

LEMMA GenerateFailsStep == ASSUME IInv, NEW r \in Requests, GenerateFails(r) PROVE IInv'
<1> PICK cause \in Faults(r, AllCauses) :
       /\ Possible(r, cause)
       /\ Fails(r, cause, copies[r])
       /\ worker' = IF cause = "worker" THEN [worker EXCEPT ![lease[r]] = "failed"] ELSE worker
       /\ unfit' = IF cause \in {"worker", "waa"} THEN [unfit EXCEPT ![lease[r]] = TRUE] ELSE unfit
  BY DEF GenerateFails
<1>1. /\ req[r].at = "generate"
      /\ UNCHANGED <<stream, lease, source, state, login, cooling, generation, upsets, scene>>
  BY DEF GenerateFails
<1>2. cause \in AllCauses
  BY DEF Faults, AllCauses
<1>3. copies[r] \in SUBSET (Accounts \X SUBSET Nat) /\ lease[r] \in Accounts
  BY <1>1, Looked DEF IInv, Kept, Leased, Trying
<1>4. TypeOK'
  <2>1. req' \in [Requests -> Attempt] /\ copies' \in [Requests -> SUBSET (Accounts \X SUBSET Nat)]
    BY <1>2, <1>3, FailsType DEF IInv
  <2>2. worker' \in [Accounts -> {"ok", "failed", "closing", "closed"}] /\ unfit' \in [Accounts -> BOOLEAN]
    BY <1>3 DEF IInv, TypeOK
  <2> QED
    BY <1>1, <2>1, <2>2 DEF IInv, TypeOK
<1>5. source'[r] = None /\ \A file \in copies[r] : file[1] = lease[r]
  BY <1>1 DEF IInv, Kept
<1>6. cause \in {"waa", "worker"} => unfit'[lease[r]]
  BY <1>3 DEF IInv, TypeOK
<1>7. Kept(r)' /\ Blamed(r)'
  <2>1. worker[lease[r]] # "closed" => worker'[lease[r]] # "closed"
    BY <1>3 DEF IInv, TypeOK
  <2> QED
    BY <1>1, <1>2, <1>3, <1>5, <1>6, <2>1, FailsKept
<1>8. OnlyOf(r)
  BY <1>1, FailsOnlyOf
<1>9. \A a \in Accounts : Stays(a)
  <2>1. generation \in [Accounts -> Nat]
    BY DEF IInv, TypeOK
  <2>2. \A a \in Accounts : worker[a] # "closed" => worker'[a] # "closed"
    BY <1>3 DEF IInv, TypeOK
  <2>3. \A a \in Accounts : unfit[a] => unfit'[a]
    BY <1>3 DEF IInv, TypeOK
  <2> QED
    BY <1>1, <2>1, <2>2, <2>3 DEF Stays
<1>10. FailedUnfit'
  BY <1>3 DEF FailedUnfit, IInv, TypeOK
<1> QED
  BY <1>1, <1>4, <1>7, <1>8, <1>9, <1>10, WorkerStepOf

LEMMA CleanupStep == ASSUME IInv, NEW r \in Requests, Cleanup(r) PROVE IInv'
<1>1. /\ req[r].at = "cleanup" /\ Moves(r, "settle")
      /\ copies' = [copies EXCEPT ![r] = {}] /\ UNCHANGED <<stream, lease, source, accounts>>
  BY DEF Cleanup, Deletes, Moves
<1>2. req' \in [Requests -> Attempt]
  BY <1>1, MovesType DEF IInv, TypeOK, Phases
<1>3. TypeOK'
  BY <1>1, <1>2 DEF IInv, TypeOK, accounts
<1>4. req'[r] = [req[r] EXCEPT !.at = "settle"] /\ OnlyOf(r) /\ copies'[r] = {}
  BY <1>1 DEF Moves, Local, OnlyOf, IInv, TypeOK
<1>5. /\ req'[r].at = "settle" /\ req'[r].account = req[r].account /\ req'[r].gen = req[r].gen
      /\ req'[r].channel = req[r].channel /\ req'[r].cause = req[r].cause
  BY <1>4, Looked DEF IInv, Attempt
<1>6. Kept(r)' /\ Blamed(r)'
  BY <1>1, <1>4, <1>5 DEF IInv, Kept, Blamed, Trying, Leased, Apart, accounts
<1> QED
  BY <1>1, <1>3, <1>4, <1>6, StepOf DEF accounts

LEMMA ClearedType ==
  ASSUME NEW q \in Attempt
  PROVE  [q EXCEPT !.account = None, !.gen = 0, !.needs = FALSE, !.reset = FALSE] \in Attempt
BY DEF Attempt

LEMMA SettledOf ==
  ASSUME IInv, NEW r \in Requests, req[r].at = "settle", NEW unwritten \in BOOLEAN
  PROVE  /\ Settled(r, unwritten) \in Attempt /\ Settled(r, unwritten).at = "recover"
         /\ Settled(r, unwritten).account = lease[r] /\ Settled(r, unwritten).gen = req[r].gen
         /\ Settled(r, unwritten).reset => worker[lease[r]] = "failed" \/ req[r].cause = "waa"
<1>1. req[r] \in Attempt /\ req[r].account = lease[r]
  BY DEF IInv, TypeOK, Kept, Trying
<1> DEFINE failed == worker[lease[r]] = "failed"
           retried == ChannelOpen(r) /\ ~unwritten
           again == /\ ~unwritten
                    /\ \/ req[r].cause \in {"auth", "quota", "globalQuota", "server", "waa"}
                       \/ (failed \/ req[r].cause = "replaced") /\ Live(r)
           needs == failed \/ req[r].cause \in {"replaced", "waa"}
           reset == failed \/ req[r].cause = "waa"
           attempted == IF retried THEN req[r].attempted \ {lease[r]} ELSE req[r].attempted
           tries == IF retried THEN req[r].tries + 1 ELSE req[r].tries
<1>2. /\ again \in BOOLEAN /\ needs \in BOOLEAN /\ reset \in BOOLEAN
      /\ attempted \in SUBSET Accounts /\ tries \in Nat
  BY <1>1 DEF Attempt
<1>3. /\ Settled(r, unwritten) =
           [[req[r] EXCEPT !.at = "recover", !.retryable = again, !.needs = needs,
                           !.reset = reset]
              EXCEPT !.attempted = attempted, !.tries = tries,
                     !.cause = None, !.checked = FALSE, !.channel = None]
      /\ reset => worker[lease[r]] = "failed" \/ req[r].cause = "waa"
  BY <1>1 DEF Settled, Attempt
<1> HIDE DEF failed, retried, again, needs, reset, attempted, tries
<1> DEFINE p == [req[r] EXCEPT !.at = "recover", !.retryable = again, !.needs = needs,
                               !.reset = reset]
<1>4. /\ p \in Attempt /\ p.at = "recover" /\ p.account = req[r].account /\ p.gen = req[r].gen
      /\ (p.reset => reset)
  <2>1. p \in Attempt
    BY <1>1, <1>2 DEF Attempt, Phases
  <2>2. p.at = "recover" /\ p.account = req[r].account /\ p.gen = req[r].gen
    BY <1>1 DEF Attempt
  <2>3. p.reset => reset
    BY <1>1, <1>2 DEF Attempt
  <2> QED
    BY <2>1, <2>2, <2>3
<1> DEFINE q == [p EXCEPT !.attempted = attempted, !.tries = tries,
                          !.cause = None, !.checked = FALSE, !.channel = None]
<1>5. Settled(r, unwritten) = q
  BY <1>3
<1> HIDE DEF p
<1>6. q \in Attempt /\ q.at = p.at /\ q.account = p.account /\ q.gen = p.gen /\ (q.reset => p.reset)
  <2>1. q \in Attempt
    BY <1>2, <1>4 DEF Attempt
  <2>2. q.at = p.at /\ q.account = p.account /\ q.gen = p.gen
    BY <1>4 DEF Attempt
  <2>3. q.reset => p.reset
    BY <1>4 DEF Attempt
  <2> QED
    BY <2>1, <2>2, <2>3
<1> HIDE DEF q
<1> QED
  BY <1>1, <1>3, <1>4, <1>5, <1>6

LEMMA SettleStep == ASSUME IInv, NEW r \in Requests, Settle(r) PROVE IInv'
<1>1. /\ req[r].at = "settle" /\ MarksAuthentication(r, req[r].cause)
      /\ lease' = [lease EXCEPT ![r] = None]
      /\ UNCHANGED <<stream, source, copies, login, worker, unfit, generation, upsets, scene>>
  BY DEF Settle
<1> PICK unwritten \in BOOLEAN, released \in BOOLEAN :
       /\ \/ ~unwritten /\ cooling' = MarkedCooling(r)
          \/ (unwritten \/ Overtaken(r)) /\ cooling' = cooling
       /\ Local(r, IF released THEN Settled(r, unwritten) ELSE After("failed", req[r].err))
  BY DEF Settle
<1> DEFINE settled == Settled(r, unwritten)
<1>2. PICK q : Local(r, q) /\ q \in {settled, After("failed", req[r].err)}
  OBVIOUS
<1>3. /\ settled \in Attempt /\ settled.at = "recover"
      /\ settled.account = lease[r] /\ settled.gen = req[r].gen
      /\ settled.reset => worker[lease[r]] = "failed" \/ req[r].cause = "waa"
  BY <1>1, SettledOf
<1> HIDE DEF settled
<1>4. /\ After("failed", req[r].err) \in Attempt /\ After("failed", req[r].err).at = "failed"
  <2>1. req[r].err \in {None, "failed", "cancelled", "noEligible", "cooling"}
    BY Looked DEF IInv, Attempt
  <2>2. After("failed", req[r].err) \in Attempt
    BY <2>1, AfterType DEF Phases
  <2> QED
    BY <2>2 DEF After, Unstarted
<1>5. /\ lease[r] \in Accounts /\ copies[r] = {} /\ source[r] = None
      /\ req[r].channel \in Channels
  BY <1>1 DEF IInv, Kept, Leased, Trying
<1>6. state' \in [Accounts -> {"ready", "auth", "off"}]
  BY <1>1, <1>5, RetryAssumption, MarksType DEF IInv
<1>7. cooling' \in [Accounts -> SUBSET (Channels \cup {"global"})]
  <2>1. Scopes(r) \in SUBSET (Channels \cup {"global"})
    BY <1>5 DEF Scopes
  <2>2. cooling' = [cooling EXCEPT ![lease[r]] = @ \cup Scopes(r)] \/ cooling' = cooling
    BY DEF MarkedCooling
  <2> QED
    BY <1>5, <2>1, <2>2 DEF IInv, TypeOK
<1>8. TypeOK'
  <2>1. req' \in [Requests -> Attempt]
    BY <1>2, <1>3, <1>4, LocalType DEF IInv, TypeOK
  <2>2. lease' \in [Requests -> Accounts \cup {None}]
    BY <1>1 DEF IInv, TypeOK
  <2> QED
    BY <1>1, <1>6, <1>7, <2>1, <2>2 DEF IInv, TypeOK
<1>9. req'[r] = q /\ lease'[r] = None /\ OnlyOf(r)
  BY <1>1, <1>2 DEF Local, OnlyOf, IInv, TypeOK
<1>10. Kept(r)'
  <2>1. (q.at = "recover" /\ q.account \in Accounts) \/ q.at = "failed"
    BY <1>2, <1>3, <1>4, <1>5
  <2> QED
    BY <1>1, <1>5, <1>9, <2>1 DEF Kept, Leased, Trying, Apart
<1>11. Blamed(r)'
  <2>1. CASE q = settled
    <3>1. req[r].gen <= generation[lease[r]] /\ req[r].account = lease[r]
      BY <1>1 DEF IInv, Kept, Blamed, Trying
    <3>2. worker[lease[r]] = "failed" => unfit[lease[r]]
      BY <1>5 DEF IInv, FailedUnfit
    <3>3. req[r].cause = "waa" /\ generation[lease[r]] = req[r].gen => unfit[lease[r]]
      BY <1>1, <3>1 DEF IInv, Blamed
    <3>4. generation[lease[r]] = req[r].gen => worker[lease[r]] # "closed"
      BY <1>1, <3>1 DEF IInv, Blamed, Trying
    <3> QED
      BY <1>1, <1>3, <1>9, <2>1, <3>1, <3>2, <3>3, <3>4 DEF Blamed
  <2>2. CASE q = After("failed", req[r].err)
    BY <1>4, <1>9, <2>2 DEF Blamed, Trying
  <2> QED
    BY <1>2, <2>1, <2>2
<1> QED
  BY <1>1, <1>8, <1>9, <1>10, <1>11, StepOf

LEMMA DecidedType ==
  ASSUME RetryAssumption, NEW q \in Attempt, q.account \in Accounts, NEW recovered \in BOOLEAN
  PROVE  Decided(q, recovered) \in Attempt
<1> DEFINE again == recovered /\ q.retryable
           recovery == IF again THEN q.account ELSE None
           attempted == IF again THEN q.attempted \ {q.account} ELSE q.attempted
           done == IF recovered THEN q.recovered \cup {q.account} ELSE q.recovered
           tries == IF again THEN q.tries + 1 ELSE q.tries
<1>1. /\ recovery \in Accounts \cup {None} /\ attempted \in SUBSET Accounts
      /\ done \in SUBSET Accounts /\ tries \in Nat
  BY DEF Attempt
<1>2. Decided(q, recovered) =
        [q EXCEPT !.recovery = recovery, !.attempted = attempted, !.recovered = done,
                  !.tries = tries, !.account = None, !.gen = 0, !.needs = FALSE, !.reset = FALSE]
  BY DEF Decided
<1> DEFINE p == [q EXCEPT !.recovery = recovery, !.attempted = attempted, !.recovered = done,
                          !.tries = tries]
<1> HIDE DEF again, recovery, attempted, done, tries
<1>3. p \in Attempt
  BY <1>1 DEF Attempt
<1>4. Decided(q, recovered) =
        [p EXCEPT !.account = None, !.gen = 0, !.needs = FALSE, !.reset = FALSE]
  BY <1>2
<1> HIDE DEF p
<1> QED
  BY <1>3, <1>4, ClearedType

(* After the decision the request is between two attempts, or has failed.   *)
LEMMA DecideOf ==
  ASSUME IInv, NEW r \in Requests, NEW q \in Attempt, Decide(r, q)
  PROVE  /\ req' \in [Requests -> Attempt] /\ req'[r].at \in {"select", "failed"}
         /\ \A p \in Requests \ {r} : req'[p] = req[p]
<1> DEFINE n == [q EXCEPT !.at = "select", !.tries = @ - 1, !.retryable = FALSE]
           m == IF q.retryable /\ q.tries > 1 THEN n ELSE After("failed", q.err)
<1>1. m \in Attempt /\ m.at \in {"select", "failed"}
  <2>1. CASE q.retryable /\ q.tries > 1
    <3>1. q.tries - 1 \in Nat
      BY <2>1 DEF Attempt
    <3>2. n \in Attempt /\ n.at = "select"
      BY ZenonT(40), <3>1 DEF Attempt, Phases
    <3> QED
      BY <2>1, <3>2
  <2>2. CASE ~(q.retryable /\ q.tries > 1)
    <3>1. After("failed", q.err) \in Attempt
      BY AfterType DEF Attempt, Phases
    <3>2. After("failed", q.err).at = "failed"
      BY DEF After, Unstarted
    <3> QED
      BY <2>2, <3>1, <3>2
  <2> QED
    BY <2>1, <2>2
<1>2. Local(r, m)
  BY DEF Decide
<1> HIDE DEF m
<1> QED
  BY <1>1, <1>2, LocalType DEF Local, IInv, TypeOK

LEMMA DecideKept ==
  ASSUME IInv, NEW r \in Requests, NEW q \in Attempt, Decide(r, q),
         req[r].at \in {"recover", "resetting"}, UNCHANGED <<lease, source, copies, scene>>
  PROVE  Kept(r)' /\ Blamed(r)' /\ OnlyOf(r)
<1>1. /\ req'[r].at \in {"select", "failed"}
      /\ \A p \in Requests \ {r} : req'[p] = req[p]
  BY DecideOf
<1> QED
  BY <1>1 DEF IInv, Kept, Blamed, OnlyOf, Trying, Leased, Apart

LEMMA RecoverStep == ASSUME IInv, NEW r \in Requests, Recover(r) PROVE IInv'
<1> DEFINE q == req[r]
           changed == generation[q.account] # q.gen
           again == q.account \in q.recovered
           resets == Live(r) /\ ~again /\ ~changed /\ q.needs /\ q.reset
           recovered == Live(r) /\ ~again /\ (changed \/ q.needs)
<1>1. /\ req[r].at = "recover" /\ UNCHANGED <<stream, lease, source, copies, accounts>>
      /\ IF resets THEN Moves(r, "resetting") ELSE Decide(r, Decided(req[r], recovered))
  BY DEF Recover, Moves
<1>2. recovered \in BOOLEAN /\ (resets => req[r].reset)
  BY Looked DEF IInv, Attempt, Live
<1>3. req[r] \in Attempt /\ req[r].account \in Accounts
  BY <1>1, Looked DEF IInv, Kept
<1> HIDE DEF resets, recovered
<1>4. CASE resets
  <2>1. req' \in [Requests -> Attempt]
    BY <1>1, <1>4, MovesType DEF IInv, TypeOK, Phases
  <2>2. TypeOK'
    BY <1>1, <2>1 DEF IInv, TypeOK, accounts
  <2>3. req'[r] = [req[r] EXCEPT !.at = "resetting"] /\ OnlyOf(r)
    BY <1>1, <1>4 DEF Moves, Local, OnlyOf, IInv, TypeOK
  <2>4. /\ req'[r].at = "resetting" /\ req'[r].account = req[r].account
        /\ req'[r].gen = req[r].gen /\ (req'[r].reset = req[r].reset)
    BY <1>3, <2>3 DEF Attempt
  <2>5. Kept(r)' /\ Blamed(r)'
    BY <1>1, <1>2, <1>4, <2>4 DEF IInv, Kept, Blamed, Trying, Leased, Apart, accounts
  <2> QED
    BY <1>1, <2>2, <2>3, <2>5, StepOf DEF accounts
<1>5. CASE ~resets
  <2>1. Decided(req[r], recovered) \in Attempt
    BY <1>2, <1>3, DecidedType, RetryAssumption
  <2>2. req' \in [Requests -> Attempt] /\ Kept(r)' /\ Blamed(r)' /\ OnlyOf(r)
    BY <1>1, <1>5, <2>1, DecideOf, DecideKept DEF accounts
  <2>3. TypeOK'
    BY <1>1, <2>2 DEF IInv, TypeOK, accounts
  <2> QED
    BY <1>1, <2>2, <2>3, StepOf DEF accounts
<1> QED
  BY <1>4, <1>5

LEMMA ClosesStays ==
  ASSUME IInv, NEW a \in Accounts, Closes(a)
  PROVE  /\ worker' \in [Accounts -> {"ok", "failed", "closing", "closed"}]
         /\ unfit' \in [Accounts -> BOOLEAN] /\ generation' \in [Accounts -> Nat]
         /\ FailedUnfit' /\ \A b \in Accounts : Stays(b)
<1> DEFINE gen == IF worker[a] = "closed" THEN generation[a] ELSE generation[a] + 1
<1>1. /\ worker \in [Accounts -> {"ok", "failed", "closing", "closed"}]
      /\ unfit \in [Accounts -> BOOLEAN] /\ generation \in [Accounts -> Nat]
  BY DEF IInv, TypeOK
<1>2. /\ worker' = [worker EXCEPT ![a] = "closed"] /\ unfit' = [unfit EXCEPT ![a] = FALSE]
      /\ generation' = [generation EXCEPT ![a] = gen]
  BY DEF Closes
<1>3. gen \in Nat /\ generation[a] <= gen /\ (worker[a] # "closed" => gen # generation[a])
  BY <1>1
<1> HIDE DEF gen
<1>4. ASSUME NEW b \in Accounts, b # a
      PROVE  worker'[b] = worker[b] /\ generation'[b] = generation[b]
  BY <1>1, <1>2, <1>4, Zenon
<1>5. ASSUME NEW b \in Accounts, b # a PROVE unfit'[b] = unfit[b]
  BY <1>1, <1>2, <1>5, Zenon
<1>6. worker'[a] = "closed" /\ generation'[a] = gen
  BY <1>1, <1>2
<1>7. FailedUnfit'
  BY <1>4, <1>5, <1>6 DEF FailedUnfit, IInv
<1>8. ASSUME NEW b \in Accounts PROVE Stays(b)
  <2>1. CASE b = a
    BY <1>3, <1>6, <2>1 DEF Stays
  <2>2. CASE b # a
    <3>1. generation[b] <= generation'[b]
      BY <1>1, <1>4, <2>2
    <3> QED
      BY <1>4, <1>5, <2>2, <3>1 DEF Stays
  <2> QED
    BY <2>1, <2>2
<1>9. /\ worker' \in [Accounts -> {"ok", "failed", "closing", "closed"}]
      /\ generation' \in [Accounts -> Nat]
  BY <1>1, <1>2, <1>3
<1>10. unfit' \in [Accounts -> BOOLEAN]
  BY <1>1, <1>2
<1> QED
  BY <1>7, <1>8, <1>9, <1>10

(* What the worker of the account that is reset may become.                 *)
LEMMA ResetsOf ==
  ASSUME IInv, NEW r \in Requests, req[r].account \in Accounts, Resets(r)
  PROVE  /\ worker' \in [Accounts -> {"ok", "failed", "closing", "closed"}]
         /\ unfit' \in [Accounts -> BOOLEAN] /\ generation' \in [Accounts -> Nat]
         /\ FailedUnfit' /\ \A b \in Accounts : Stays(b)
<1>1. CASE generation[req[r].account] = req[r].gen
  BY <1>1, ClosesStays DEF Resets
<1>2. CASE generation[req[r].account] # req[r].gen
  <2>1. UNCHANGED <<worker, unfit, generation>>
    BY <1>2 DEF Resets
  <2> QED
    BY <2>1, SameStays
<1> QED
  BY <1>1, <1>2

LEMMA ResetWorkerStep == ASSUME IInv, NEW r \in Requests, ResetWorker(r) PROVE IInv'
<1>1. /\ req[r].at = "resetting" /\ Decide(r, Decided(req[r], TRUE)) /\ Resets(r)
      /\ UNCHANGED <<stream, lease, source, copies, state, login, cooling, upsets, scene>>
  BY DEF ResetWorker
<1>2. req[r] \in Attempt /\ req[r].account \in Accounts
  BY <1>1, Looked DEF IInv, Kept
<1>3. Decided(req[r], TRUE) \in Attempt
  BY <1>2, DecidedType, RetryAssumption
<1>4. req' \in [Requests -> Attempt] /\ Kept(r)' /\ Blamed(r)' /\ OnlyOf(r)
  BY <1>1, <1>3, DecideOf, DecideKept
<1>5. /\ worker' \in [Accounts -> {"ok", "failed", "closing", "closed"}]
      /\ unfit' \in [Accounts -> BOOLEAN] /\ generation' \in [Accounts -> Nat]
      /\ FailedUnfit' /\ \A b \in Accounts : Stays(b)
  BY <1>1, <1>2, ResetsOf
<1>6. TypeOK'
  BY <1>1, <1>4, <1>5 DEF IInv, TypeOK
<1> QED
  BY <1>1, <1>4, <1>5, <1>6, WorkerStepOf

LEMMA ResetFailsOf ==
  ASSUME IInv, NEW r \in Requests, ResetFails(r), req[r].account \in Accounts
  PROVE  /\ worker' \in [Accounts -> {"ok", "failed", "closing", "closed"}]
         /\ unfit' \in [Accounts -> BOOLEAN] /\ generation' \in [Accounts -> Nat]
         /\ FailedUnfit' /\ \A b \in Accounts : Stays(b)
<1> DEFINE a == req[r].account
<1>1. CASE UNCHANGED <<worker, unfit, generation>>
  BY <1>1, SameStays
<1>2. CASE /\ worker[a] # "closed" /\ worker' = [worker EXCEPT ![a] = "closing"]
           /\ UNCHANGED <<unfit, generation>>
  <2>1. /\ worker \in [Accounts -> {"ok", "failed", "closing", "closed"}]
        /\ unfit \in [Accounts -> BOOLEAN] /\ generation \in [Accounts -> Nat]
    BY DEF IInv, TypeOK
  <2>2. \A b \in Accounts : worker'[b] = IF b = a THEN "closing" ELSE worker[b]
    BY <1>2, <2>1
  <2>3. FailedUnfit'
    BY <1>2, <2>2 DEF FailedUnfit, IInv
  <2>4. \A b \in Accounts : Stays(b)
    BY <1>2, <2>1, <2>2 DEF Stays
  <2>5. worker' \in [Accounts -> {"ok", "failed", "closing", "closed"}]
    BY <1>2, <2>1
  <2> QED
    BY <1>2, <2>1, <2>3, <2>4, <2>5
<1>3. CASE Resets(r)
  BY <1>3, ResetsOf
<1> QED
  BY <1>1, <1>2, <1>3 DEF ResetFails

LEMMA ResetFailsStep == ASSUME IInv, NEW r \in Requests, ResetFails(r) PROVE IInv'
<1> DEFINE q == [Decided(req[r], FALSE) EXCEPT !.retryable = FALSE]
<1>1. /\ req[r].at = "resetting" /\ Decide(r, q)
      /\ UNCHANGED <<stream, lease, source, copies, state, login, cooling, upsets, scene>>
  BY DEF ResetFails
<1>2. req[r] \in Attempt /\ req[r].account \in Accounts
  BY <1>1, Looked DEF IInv, Kept
<1>3. Decided(req[r], FALSE) \in Attempt
  BY <1>2, DecidedType, RetryAssumption
<1>4. q \in Attempt
  BY <1>3 DEF Attempt
<1>5. req' \in [Requests -> Attempt] /\ Kept(r)' /\ Blamed(r)' /\ OnlyOf(r)
  BY <1>1, <1>4, DecideOf, DecideKept
<1>6. /\ worker' \in [Accounts -> {"ok", "failed", "closing", "closed"}]
      /\ unfit' \in [Accounts -> BOOLEAN] /\ generation' \in [Accounts -> Nat]
      /\ FailedUnfit' /\ \A b \in Accounts : Stays(b)
  BY <1>2, ResetFailsOf
<1>7. TypeOK'
  BY <1>1, <1>5, <1>6 DEF IInv, TypeOK
<1> QED
  BY <1>1, <1>5, <1>6, <1>7, WorkerStepOf

(* The end of the request.                                                  *)
LEMMA FinishesOf ==
  ASSUME IInv, NEW r \in Requests, Finishes(r), UNCHANGED <<lease, source, copies, scene>>,
         lease'[r] = None, copies[r] = {}, source[r] = None
  PROVE  req' \in [Requests -> Attempt] /\ OnlyOf(r) /\ Kept(r)' /\ Blamed(r)'
<1>1. After("finished", None) \in Attempt
  BY AfterType DEF Phases
<1>2. req' \in [Requests -> Attempt]
  BY <1>1, LocalType DEF Finishes, IInv, TypeOK
<1>3. req'[r].at = "finished" /\ OnlyOf(r)
  BY DEF Finishes, Local, After, Unstarted, OnlyOf, IInv, TypeOK
<1>4. Kept(r)' /\ Blamed(r)'
  BY <1>3 DEF Kept, Blamed, Trying, Leased, Apart
<1> QED
  BY <1>2, <1>3, <1>4

LEMMA FailStep == ASSUME IInv, NEW r \in Requests, Fail(r) PROVE IInv'
<1>1. req[r].at = "failed" /\ Finishes(r) /\ UNCHANGED <<lease, source, copies, accounts>>
  BY DEF Fail
<1>2. lease[r] = None /\ copies[r] = {} /\ source[r] = None
  BY <1>1 DEF IInv, Kept, Apart
<1>3. req' \in [Requests -> Attempt] /\ OnlyOf(r) /\ Kept(r)' /\ Blamed(r)'
  BY <1>1, <1>2, FinishesOf DEF accounts
<1>4. stream' \in [Requests -> Stream]
  <2> PICK told \in {{}, {"error"}} :
        Ending(r, [stream[r] EXCEPT
            !.result = IF req[r].err = "cancelled" THEN "cancelled" ELSE "failed",
            !.told = told])
    BY DEF Fail
  <2> DEFINE result == IF req[r].err = "cancelled" THEN "cancelled" ELSE "failed"
  <2>1. stream[r] \in Stream /\ result \in {"failed", "cancelled"}
    BY Looked DEF IInv
  <2> HIDE DEF result
  <2>2. [stream[r] EXCEPT !.result = result, !.told = told] \in Stream
    BY <2>1 DEF Stream
  <2> QED
    BY <2>2, EndingType DEF IInv, TypeOK, result
<1>5. TypeOK'
  BY <1>1, <1>3, <1>4 DEF IInv, TypeOK, accounts
<1> QED
  BY <1>1, <1>3, <1>5, StepOf DEF accounts

LEMMA PanicStep == ASSUME IInv, NEW r \in Requests, Panic(r) PROVE IInv'
<1>1. /\ req' = [q \in Requests |-> [Unstarted EXCEPT !.at = "dead"]]
      /\ lease' = [q \in Requests |-> None] /\ source' = [q \in Requests |-> None]
      /\ stream' = [q \in Requests |-> [stream[q] EXCEPT !.client = FALSE]]
      /\ UNCHANGED <<copies, accounts>>
  BY DEF Panic
<1>2. [Unstarted EXCEPT !.at = "dead"] \in Attempt
  BY DEF Unstarted, Attempt, Phases
<1>3. stream' \in [Requests -> Stream]
  <2>1. ASSUME NEW q \in Requests PROVE [stream[q] EXCEPT !.client = FALSE] \in Stream
    <3>1. stream[q] \in Stream
      BY Looked DEF IInv
    <3> QED
      BY <3>1 DEF Stream
  <2> QED
    BY <1>1, <2>1
<1>4. TypeOK'
  BY <1>1, <1>2, <1>3 DEF IInv, TypeOK, accounts
<1>5. \A q \in Requests : req'[q].at = "dead" /\ lease'[q] = None /\ source'[q] = None
  BY <1>1 DEF Unstarted
<1>6. \A q \in Requests : Kept(q)' /\ Blamed(q)'
  BY <1>5 DEF Kept, Blamed, Trying, Leased, Apart
<1> QED
  BY <1>1, <1>4, <1>6 DEF IInv, FailedUnfit, accounts

(* A stream that goes on to another place.                                  *)
LEMMA StreamMoves ==
  ASSUME IInv, NEW r \in Requests, lease[r] \in Accounts,
         req[r].at \in {"forward", "sending", "telling", "closing"},
         NEW p \in {"forward", "sending", "telling", "closing", "releasing"},
         Moves(r, p), stream' \in [Requests -> Stream],
         state' \in [Accounts -> {"ready", "auth", "off"}],
         p = "releasing" => copies'[r] = {},
         copies' = copies \/ copies' = [copies EXCEPT ![r] = {}],
         UNCHANGED <<lease, source, login, cooling, worker, unfit, generation, upsets, scene>>
  PROVE  IInv'
<1>1. req' \in [Requests -> Attempt]
  BY MovesType DEF IInv, TypeOK, Phases
<1>2. TypeOK'
  BY <1>1 DEF IInv, TypeOK
<1>3. req'[r].at = p /\ OnlyOf(r)
  BY Looked DEF Moves, Local, OnlyOf, IInv, TypeOK, Attempt
<1>4. copies'[r] \subseteq copies[r]
  BY DEF IInv, TypeOK
<1>5. source[r] = None
  BY DEF IInv, Kept
<1>6. Kept(r)' /\ Blamed(r)'
  BY <1>3, <1>4, <1>5 DEF IInv, Kept, Blamed, Trying, Leased, Apart
<1> QED
  BY <1>2, <1>3, <1>6, StepOf

LEMMA Streamed ==
  ASSUME IInv, NEW r \in Requests,
         Streaming(r) \/ req[r].at \in {"sending", "telling", "closing", "releasing"}
  PROVE  lease[r] \in Accounts
BY Looked DEF IInv, Kept, Leased, Streaming

LEMMA ClosingType ==
  ASSUME NEW r \in Requests
  PROVE  /\ Closing(r) \in {"closing", "releasing"}
         /\ Closing(r) = "releasing" => copies[r] = {}
BY DEF Closing

(* A step that changes no more than a request's stream.                     *)
LEMMA EndingStep ==
  ASSUME IInv, NEW r \in Requests, NEW s \in Stream, Ending(r, s),
         UNCHANGED <<req, lease, source, copies, accounts>>
  PROVE  IInv'
<1>1. stream' \in [Requests -> Stream]
  BY EndingType DEF IInv, TypeOK
<1>2. TypeOK'
  BY <1>1 DEF IInv, TypeOK, accounts
<1> QED
  BY <1>2 DEF IInv, Kept, Blamed, FailedUnfit, accounts

LEMMA SentType ==
  ASSUME RetryAssumption, NEW r \in Requests, stream[r] \in Stream, HasRoom(r)
  PROVE  [stream[r] EXCEPT !.backlog = @ + 1] \in Stream
<1>1. stream[r].backlog + 1 \in 0 .. Buffer
  BY DEF Stream, HasRoom, RetryAssumption
<1> QED
  BY <1>1 DEF Stream

LEMMA ForwardContentStep == ASSUME IInv, NEW r \in Requests, ForwardContent(r) PROVE IInv'
<1>1. [stream[r] EXCEPT !.backlog = @ + 1] \in Stream
  BY SentType, Looked, RetryAssumption DEF ForwardContent, IInv
<1> QED
  BY <1>1, EndingStep DEF ForwardContent

LEMMA ForwardTerminalStep == ASSUME IInv, NEW r \in Requests, ForwardTerminal(r) PROVE IInv'
<1> PICK result \in {"completed", "failed"} :
       /\ Ending(r, [stream[r] EXCEPT !.terminal = TRUE, !.result = result])
       /\ state' = state \/ SignedOut(lease[r])
  BY DEF ForwardTerminal
<1>1. /\ Streaming(r) /\ Moves(r, "sending")
      /\ UNCHANGED <<lease, source, copies, login, cooling, worker, unfit, generation,
                     upsets, scene>>
  BY DEF ForwardTerminal
<1>2. lease[r] \in Accounts
  BY <1>1, Streamed
<1>3. [stream[r] EXCEPT !.terminal = TRUE, !.result = result] \in Stream
  BY ZenonT(40), Looked DEF IInv, Stream
<1>4. stream' \in [Requests -> Stream]
  BY <1>3, EndingType DEF IInv, TypeOK
<1>5. state' \in [Accounts -> {"ready", "auth", "off"}]
  BY <1>2, SignedOutType DEF IInv, TypeOK
<1> QED
  BY <1>1, <1>2, <1>4, <1>5, StreamMoves DEF Streaming

LEMMA SendTerminalStep == ASSUME IInv, NEW r \in Requests, SendTerminal(r) PROVE IInv'
<1> DEFINE s == [stream[r] EXCEPT !.backlog = @ + 1]
           told == stream[r].told \cup {Terminal(stream[r].result)}
<1>1. /\ req[r].at = "sending" /\ HasRoom(r) /\ Moves(r, "forward")
      /\ Ending(r, [s EXCEPT !.told = told])
      /\ UNCHANGED <<lease, source, copies, accounts>>
  BY Looked DEF SendTerminal, IInv, Stream
<1>2. lease[r] \in Accounts
  BY <1>1, Streamed
<1>3. s \in Stream
  BY <1>1, SentType, Looked, RetryAssumption DEF IInv
<1>4. told \in SUBSET {"finish", "error"}
  BY Looked DEF IInv, Stream, Terminal
<1> HIDE DEF s, told
<1>5. [s EXCEPT !.told = told] \in Stream
  BY <1>3, <1>4 DEF Stream
<1>6. stream' \in [Requests -> Stream]
  BY <1>1, <1>5, EndingType DEF IInv, TypeOK
<1> QED
  BY <1>1, <1>2, <1>6, StreamMoves DEF accounts, IInv, TypeOK

LEMMA StopByContextStep == ASSUME IInv, NEW r \in Requests, StopByContext(r) PROVE IInv'
<1> DEFINE p == IF stream[r].terminal \/ ~stream[r].client THEN Closing(r) ELSE "telling"
<1>1. /\ Streaming(r) \/ req[r].at = "sending"
      /\ ~Live(r) /\ Moves(r, p)
      /\ Ending(r, [stream[r] EXCEPT !.result = stream[r].ctx])
      /\ UNCHANGED <<lease, source, copies, accounts>>
  BY DEF StopByContext
<1>2. lease[r] \in Accounts
  BY <1>1, Streamed
<1>3. p \in {"closing", "releasing", "telling"} /\ (p = "releasing" => copies[r] = {})
  BY ClosingType
<1> HIDE DEF p
<1>4. [stream[r] EXCEPT !.result = stream[r].ctx] \in Stream
  <2>1. stream[r] \in Stream /\ stream[r].ctx \in {"failed", "cancelled"}
    BY <1>1, Looked DEF IInv, Stream, Live
  <2> QED
    BY <2>1 DEF Stream
<1>5. stream' \in [Requests -> Stream]
  BY <1>1, <1>4, EndingType DEF IInv, TypeOK
<1> QED
  BY <1>1, <1>2, <1>3, <1>5, StreamMoves DEF accounts, IInv, TypeOK, Streaming

LEMMA SourceClosesStep == ASSUME IInv, NEW r \in Requests, SourceCloses(r) PROVE IInv'
<1> DEFINE p == IF stream[r].terminal THEN Closing(r) ELSE "telling"
           result == IF stream[r].terminal THEN stream[r].result ELSE "failed"
<1>1. /\ Streaming(r) /\ Moves(r, p) /\ Ending(r, [stream[r] EXCEPT !.result = result])
      /\ UNCHANGED <<lease, source, copies, accounts>>
  BY DEF SourceCloses
<1>2. lease[r] \in Accounts
  BY <1>1, Streamed
<1>3. p \in {"closing", "releasing", "telling"} /\ (p = "releasing" => copies[r] = {})
  BY ClosingType
<1>4. stream[r] \in Stream /\ result \in {None, "completed", "failed", "cancelled"}
  BY Looked DEF IInv, Stream
<1> HIDE DEF p, result
<1>5. [stream[r] EXCEPT !.result = result] \in Stream
  BY <1>4 DEF Stream
<1>6. stream' \in [Requests -> Stream]
  BY <1>1, <1>5, EndingType DEF IInv, TypeOK
<1> QED
  BY <1>1, <1>2, <1>3, <1>6, StreamMoves DEF accounts, IInv, TypeOK, Streaming

LEMMA TellStep == ASSUME IInv, NEW r \in Requests, Tell(r) PROVE IInv'
<1>1. /\ req[r].at = "telling" /\ Moves(r, Closing(r))
      /\ UNCHANGED <<lease, source, copies, accounts>>
  BY DEF Tell
<1>2. lease[r] \in Accounts
  BY <1>1, Streamed
<1>3. stream' \in [Requests -> Stream]
  <2>1. CASE stream' = stream
    BY <2>1 DEF IInv, TypeOK
  <2>2. CASE HasRoom(r) /\ Ending(r, [stream[r] EXCEPT !.backlog = @ + 1, !.told = @ \cup {"error"}])
    <3> DEFINE s == [stream[r] EXCEPT !.backlog = @ + 1]
               told == stream[r].told \cup {"error"}
    <3>1. Ending(r, [s EXCEPT !.told = told])
      BY <2>2, Looked DEF IInv, Stream
    <3>2. s \in Stream
      BY <2>2, SentType, Looked, RetryAssumption DEF IInv
    <3>3. told \in SUBSET {"finish", "error"}
      BY Looked DEF IInv, Stream
    <3> HIDE DEF s, told
    <3>4. [s EXCEPT !.told = told] \in Stream
      BY <3>2, <3>3 DEF Stream
    <3> QED
      BY <3>1, <3>4, EndingType DEF IInv, TypeOK
  <2> QED
    BY <2>1, <2>2 DEF Tell
<1> QED
  BY <1>1, <1>2, <1>3, ClosingType, StreamMoves DEF accounts, IInv, TypeOK

LEMMA ClosingCleanupStep == ASSUME IInv, NEW r \in Requests, ClosingCleanup(r) PROVE IInv'
<1>1. /\ req[r].at = "closing" /\ Moves(r, "releasing") /\ copies' = [copies EXCEPT ![r] = {}]
      /\ UNCHANGED <<stream, lease, source, accounts>>
  BY DEF ClosingCleanup, Deletes
<1>2. lease[r] \in Accounts
  BY <1>1, Streamed
<1>3. copies'[r] = {}
  BY <1>1 DEF IInv, TypeOK
<1> QED
  BY <1>1, <1>2, <1>3, StreamMoves DEF accounts, IInv, TypeOK

LEMMA ClosingReleaseStep == ASSUME IInv, NEW r \in Requests, ClosingRelease(r) PROVE IInv'
<1>1. /\ req[r].at = "releasing" /\ lease' = [lease EXCEPT ![r] = None]
      /\ UNCHANGED <<source, copies, accounts>>
  BY DEF ClosingRelease
<1>2. copies[r] = {} /\ source[r] = None
  BY <1>1 DEF IInv, Kept
<1>3. lease' \in [Requests -> Accounts \cup {None}] /\ lease'[r] = None
  BY <1>1 DEF IInv, TypeOK
<1>4. stream[r] \in Stream /\ 0 \in 0 .. Buffer
  BY Looked, RetryAssumption DEF IInv
<1>5. stream' \in [Requests -> Stream]
  <2>1. /\ [stream[r] EXCEPT !.backlog = 0] \in Stream
        /\ [stream[r] EXCEPT !.result = "failed", !.unreleased = TRUE] \in Stream
    BY <1>4 DEF Stream
  <2> QED
    BY <2>1, EndingType DEF ClosingRelease, IInv, TypeOK
<1>6. \/ Local(r, After("finished", None)) \/ Moves(r, "reporting")
  BY DEF ClosingRelease, Finishes
<1>7. req' \in [Requests -> Attempt]
  <2>1. /\ After("finished", None) \in Attempt /\ "reporting" \in Phases
        /\ req \in [Requests -> Attempt]
    BY AfterType DEF Phases, IInv, TypeOK
  <2>2. CASE Local(r, After("finished", None))
    BY <2>1, <2>2, LocalType
  <2>3. CASE Moves(r, "reporting")
    BY <2>1, <2>3, MovesType
  <2> QED
    BY <1>6, <2>2, <2>3
<1>8. req'[r].at \in {"finished", "reporting"}
  <2>1. req[r] \in Attempt
    BY Looked DEF IInv
  <2>2. CASE Local(r, After("finished", None))
    BY <2>2 DEF Local, After, Unstarted, IInv, TypeOK
  <2>3. CASE Moves(r, "reporting")
    BY <2>1, <2>3 DEF Moves, Local, IInv, TypeOK, Attempt
  <2> QED
    BY <1>6, <2>2, <2>3
<1>9. OnlyOf(r)
  BY <1>1, <1>6 DEF Local, Moves, OnlyOf, IInv, TypeOK
<1>10. TypeOK'
  BY <1>1, <1>3, <1>5, <1>7 DEF IInv, TypeOK, accounts
<1>11. Kept(r)' /\ Blamed(r)'
  BY <1>1, <1>2, <1>3, <1>8 DEF Kept, Blamed, Trying, Leased, Apart
<1> QED
  BY <1>1, <1>9, <1>10, <1>11, StepOf DEF accounts

LEMMA ReportReleaseStep == ASSUME IInv, NEW r \in Requests, ReportRelease(r) PROVE IInv'
<1> DEFINE told == IF stream[r].client THEN stream[r].told \cup {"error"} ELSE stream[r].told
<1>1. /\ req[r].at = "reporting" /\ Finishes(r) /\ Ending(r, [stream[r] EXCEPT !.told = told])
      /\ UNCHANGED <<lease, source, copies, accounts>>
  BY DEF ReportRelease
<1>2. lease[r] = None /\ copies[r] = {} /\ source[r] = None
  BY <1>1 DEF IInv, Kept, Apart
<1>3. req' \in [Requests -> Attempt] /\ OnlyOf(r) /\ Kept(r)' /\ Blamed(r)'
  BY <1>1, <1>2, FinishesOf DEF accounts
<1>4. stream[r] \in Stream /\ told \in SUBSET {"finish", "error"}
  BY Looked DEF IInv, Stream
<1> HIDE DEF told
<1>5. [stream[r] EXCEPT !.told = told] \in Stream
  BY <1>4 DEF Stream
<1>6. TypeOK'
  BY <1>1, <1>3, <1>5, EndingType DEF IInv, TypeOK, accounts
<1> QED
  BY <1>1, <1>3, <1>6, StepOf DEF accounts

LEMMA CloseStep == ASSUME IInv, NEW r \in Requests, Close(r) PROVE IInv'
<1>1. /\ req[r].at = "finished" /\ Moves(r, "ended") /\ Ending(r, Untouched)
      /\ UNCHANGED <<lease, source, copies, accounts>>
  BY DEF Close
<1>2. lease[r] = None /\ copies[r] = {} /\ source[r] = None
  BY <1>1 DEF IInv, Kept, Apart
<1>3. req' \in [Requests -> Attempt]
  BY <1>1, MovesType DEF IInv, TypeOK, Phases
<1>4. Untouched \in Stream
  BY RetryAssumption DEF Untouched, Stream
<1>5. TypeOK'
  BY <1>1, <1>3, <1>4, EndingType DEF IInv, TypeOK, accounts
<1>6. req'[r].at = "ended" /\ OnlyOf(r)
  BY <1>1, Looked DEF Moves, Local, OnlyOf, IInv, TypeOK, Attempt
<1>7. Kept(r)' /\ Blamed(r)'
  BY <1>1, <1>2, <1>6 DEF Kept, Blamed, Trying, Leased, Apart
<1> QED
  BY <1>1, <1>5, <1>6, <1>7, StepOf DEF accounts

(* The client, the contexts, and the accounts.                              *)
LEMMA CutStep ==
  ASSUME IInv, NEW r \in Requests,
         ClientReads(r) \/ ClientLeaves(r) \/ TimesOut(r) \/ IsCancelled(r)
  PROVE  IInv'
<1>1. stream[r] \in Stream
  BY Looked DEF IInv
<1>2. CASE ClientReads(r)
  <2>1. stream[r].backlog - 1 \in 0 .. Buffer
    BY <1>1, <1>2, RetryAssumption DEF ClientReads, Stream
  <2>2. [stream[r] EXCEPT !.backlog = @ - 1] \in Stream
    BY <1>1, <2>1 DEF Stream
  <2> QED
    BY <1>2, <2>2, EndingStep DEF ClientReads
<1>3. CASE ClientLeaves(r)
  <2> DEFINE ctx == IF stream[r].ctx = "live" THEN "cancelled" ELSE stream[r].ctx
  <2>1. ctx \in {"live", "failed", "cancelled"}
    BY <1>1 DEF Stream
  <2>2. Ending(r, [stream[r] EXCEPT !.client = FALSE, !.ctx = ctx])
    BY <1>1, <1>3 DEF ClientLeaves, Stream
  <2> HIDE DEF ctx
  <2>3. [stream[r] EXCEPT !.client = FALSE, !.ctx = ctx] \in Stream
    BY <1>1, <2>1 DEF Stream
  <2> QED
    BY <1>3, <2>2, <2>3, EndingStep DEF ClientLeaves
<1>4. CASE TimesOut(r) \/ IsCancelled(r)
  <2>1. /\ [stream[r] EXCEPT !.ctx = "failed"] \in Stream
        /\ [stream[r] EXCEPT !.ctx = "cancelled"] \in Stream
    BY <1>1 DEF Stream
  <2> QED
    BY <1>4, <2>1, EndingStep DEF TimesOut, IsCancelled
<1> QED
  BY <1>2, <1>3, <1>4

LEMMA UpsetType ==
  ASSUME IInv, NEW a, NEW kind, Upset(a, kind) PROVE upsets' \in 0 .. MaxUpsets
BY RetryAssumption DEF Upset, IInv, TypeOK

LEMMA SameWorkersStep ==
  ASSUME IInv, TypeOK',
         UNCHANGED <<req, lease, source, copies, worker, unfit, generation, scene>>
  PROVE  IInv'
BY DEF IInv, Kept, Blamed, FailedUnfit

LEMMA LoginExpiresStep == ASSUME IInv, NEW a \in Accounts, LoginExpires(a) PROVE IInv'
<1>1. TypeOK'
  BY UpsetType DEF LoginExpires, IInv, TypeOK
<1> QED
  BY <1>1, SameWorkersStep DEF LoginExpires

LEMMA DisableStep == ASSUME IInv, NEW a \in Accounts, Disable(a) PROVE IInv'
<1>1. TypeOK'
  BY UpsetType DEF Disable, IInv, TypeOK
<1> QED
  BY <1>1, SameWorkersStep DEF Disable

LEMMA CooldownEndsStep == ASSUME IInv, NEW a \in Accounts, CooldownEnds(a) PROVE IInv'
<1>1. TypeOK'
  BY UpsetType DEF CooldownEnds, IInv, TypeOK
<1> QED
  BY <1>1, SameWorkersStep DEF CooldownEnds

LEMMA RenewedStep == ASSUME IInv, NEW a \in Accounts, Renewed(a) PROVE IInv'
<1>1. /\ Upset(a, "renewed") /\ worker[a] = "ok"
      /\ generation' = [generation EXCEPT ![a] = @ + 1]
      /\ unfit' = [unfit EXCEPT ![a] = FALSE]
      /\ UNCHANGED <<req, stream, lease, source, copies, scene, state, login, cooling, worker>>
  BY DEF Renewed
<1>2. /\ worker \in [Accounts -> {"ok", "failed", "closing", "closed"}] /\ unfit \in [Accounts -> BOOLEAN]
      /\ generation \in [Accounts -> Nat]
  BY DEF IInv, TypeOK
<1>3. /\ generation'[a] = generation[a] + 1
      /\ \A b \in Accounts \ {a} : generation'[b] = generation[b]
  BY <1>1, <1>2
<1>4. \A b \in Accounts \ {a} : unfit'[b] = unfit[b]
  BY <1>1, <1>2, Zenon
<1>5. TypeOK'
  <2>1. generation' \in [Accounts -> Nat] /\ unfit' \in [Accounts -> BOOLEAN]
    BY <1>1, <1>2
  <2>2. upsets' \in 0 .. MaxUpsets
    BY <1>1, UpsetType
  <2> QED
    BY <1>1, <2>1, <2>2 DEF IInv, TypeOK
<1>6. ASSUME NEW b \in Accounts PROVE Stays(b)
  <2>1. CASE b = a
    BY <1>2, <1>3, <2>1 DEF Stays
  <2>2. CASE b # a
    <3>1. generation'[b] = generation[b] /\ worker'[b] = worker[b] /\ generation[b] \in Nat
      BY <1>1, <1>2, <1>3, <2>2
    <3>2. unfit[b] => unfit'[b]
      BY <1>4, <2>2
    <3> QED
      BY <3>1, <3>2 DEF Stays
  <2> QED
    BY <2>1, <2>2
<1>7. FailedUnfit'
  BY <1>1, <1>4 DEF FailedUnfit, IInv
<1> QED
  BY <1>1, <1>5, <1>6, <1>7, AccountStepOf

-----------------------------------------------------------------------------
(* The theorems.                                                            *)

LEMMA RequestStep ==
  ASSUME IInv, NEW r \in Requests, Begin(r) \/ Runs(r) \/ Blocks(r) PROVE IInv'
<1>1. CASE Begin(r) \/ AcquireFails(r) \/ Acquire(r) \/ Blocks(r)
  BY <1>1, BeginStep, AcquireFailsStep, AcquireStep, BlocksStep
<1>2. CASE Copying(r)
  BY <1>2, HoldOwnerStep, OwnerRefusedStep, FetchStep, FetchUnauthorizedStep, FetchFailsStep,
     UploadStep, UploadFailsStep DEF Copying
<1>3. CASE FirstEvent(r) \/ GenerateFails(r)
  BY <1>3, FirstEventStep, GenerateFailsStep
<1>4. CASE Settling(r)
  BY <1>4, CleanupStep, SettleStep, RecoverStep, ResetWorkerStep, ResetFailsStep DEF Settling
<1>5. CASE Fail(r) \/ Panic(r)
  BY <1>5, FailStep, PanicStep
<1>6. CASE Streams(r)
  BY <1>6, ForwardContentStep, ForwardTerminalStep, SendTerminalStep, StopByContextStep,
     SourceClosesStep, TellStep, ClosingCleanupStep, ClosingReleaseStep, ReportReleaseStep,
     CloseStep DEF Streams
<1> QED
  BY <1>1, <1>2, <1>3, <1>4, <1>5, <1>6 DEF Runs

LEMMA NextStep == ASSUME IInv, [Next]_vars PROVE IInv'
<1>1. CASE \E r \in Requests : Begin(r) \/ Runs(r) \/ Blocks(r)
  BY <1>1, RequestStep
<1>2. CASE \E r \in Requests : ClientReads(r) \/ ClientLeaves(r) \/ TimesOut(r) \/ IsCancelled(r)
  BY <1>2, CutStep
<1>3. CASE \E a \in Accounts : LoginExpires(a) \/ Disable(a) \/ CooldownEnds(a) \/ Renewed(a)
  BY <1>3, LoginExpiresStep, DisableStep, CooldownEndsStep, RenewedStep
<1>4. CASE UNCHANGED vars
  <2>1. TypeOK'
    BY <1>4 DEF IInv, TypeOK, vars, accounts
  <2> QED
    BY <1>4, <2>1, SameWorkersStep DEF vars, accounts
<1> QED
  BY <1>1, <1>2, <1>3, <1>4 DEF Next

(* The inductive invariant holds in every reachable state.                  *)
THEOREM Inductive == Spec => []IInv
<1>1. Init => IInv
  BY InitStep
<1>2. IInv /\ [Next]_vars => IInv'
  BY NextStep
<1> QED
  BY <1>1, <1>2, PTL DEF Spec

(* The variables of generateWithRetry, the streams and the accounts keep    *)
(* their types, whatever fails and in whatever order.                       *)
THEOREM TypeCorrect == Spec => []TypeOK
<1>1. IInv => TypeOK
  BY DEF IInv
<1> QED
  BY <1>1, Inductive, PTL

(* Every temporary file that is left to delete lies on the account whose    *)
(* lease the request holds (upload.go: deleted before the release).         *)
THEOREM CopiesAreUnderLease == Spec => []CopiesUnderLease
<1>1. IInv => CopiesUnderLease
  BY DEF IInv, Kept, CopiesUnderLease
<1> QED
  BY <1>1, Inductive, PTL

(* Between attempts, and once it is over, a request holds no slot and has   *)
(* no file left to delete; an owner's slot is held only besides the         *)
(* attempt's own, of another account.                                       *)
THEOREM NothingIsKept == Spec => []NothingKept
<1>1. ASSUME IInv PROVE NothingKept
  <2> SUFFICES ASSUME NEW r \in Requests
               PROVE  /\ req[r].at \in Apart => lease[r] = None /\ copies[r] = {}
                      /\ source[r] # None => req[r].at = "fetch" /\ lease[r] \notin {None, source[r]}
    BY DEF NothingKept, Apart
  <2>1. Kept(r)
    BY <1>1 DEF IInv
  <2>2. req[r].at \in Apart => lease[r] = None /\ copies[r] = {}
    BY <2>1 DEF Kept
  <2>3. source[r] # None => req[r].at = "fetch" /\ lease[r] \in Accounts /\ source[r] # lease[r]
    BY <2>1 DEF Kept, Leased, Trying
  <2> QED
    BY <2>2, <2>3, RetryAssumption
<1> QED
  BY <1>1, Inductive, PTL

(* Only the reset closes a worker, or leaves it as its close failed, and its *)
(* caller has a worker of the generation that failed it.                     *)
Spares(a) == worker[a] \in {"ok", "failed"} => worker'[a] \in {"ok", "failed"}

LEMMA ResetCloses ==
  ASSUME IInv, NEW r \in Requests, ResetWorker(r) \/ ResetFails(r), NEW a \in Accounts, ~Spares(a)
  PROVE  unfit[a]
<1>1. req[r].at = "resetting" /\ req[r].account \in Accounts /\ req[r].reset
  BY DEF ResetWorker, ResetFails, IInv, Kept
<1>2. \/ worker' = worker
      \/ /\ generation[req[r].account] = req[r].gen
         /\ \E w : worker' = [worker EXCEPT ![req[r].account] = w]
  <2>1. CASE Resets(r)
    BY <2>1 DEF Resets, Closes
  <2>2. CASE ~Resets(r)
    BY <2>2 DEF ResetWorker, ResetFails
  <2> QED
    BY <2>1, <2>2
<1>3. worker'[a] # worker[a]
  BY DEF Spares
<1>4. a = req[r].account /\ generation[a] = req[r].gen
  BY <1>1, <1>2, <1>3 DEF IInv, TypeOK
<1> QED
  BY <1>1, <1>4 DEF IInv, Blamed

LEMMA AcquireSpares ==
  ASSUME IInv, NEW r \in Requests, Acquire(r), NEW a \in Accounts PROVE Spares(a)
<1>1. PICK b \in Accounts : worker' = [worker EXCEPT ![b] = "ok"]
  BY OutletsType DEF Acquire
<1> QED
  BY <1>1 DEF IInv, TypeOK, Spares

LEMMA GenerateFailsSpares ==
  ASSUME IInv, NEW r \in Requests, GenerateFails(r), NEW a \in Accounts PROVE Spares(a)
<1>1. worker' = worker \/ worker' = [worker EXCEPT ![lease[r]] = "failed"]
  BY DEF GenerateFails
<1> QED
  BY <1>1 DEF IInv, TypeOK, Spares

LEMMA OthersSpare ==
  ASSUME [Next]_vars,
         ~ \E r \in Requests : ResetWorker(r) \/ ResetFails(r) \/ Acquire(r) \/ GenerateFails(r)
  PROVE  worker' = worker
<1>1. CASE \E r \in Requests : \/ Begin(r) \/ AcquireFails(r) \/ Blocks(r) \/ FirstEvent(r)
                               \/ Fail(r) \/ Panic(r)
  BY <1>1 DEF Begin, AcquireFails, Blocks, FirstEvent, Fail, Panic, accounts
<1>2. CASE \E r \in Requests : Copying(r)
  BY <1>2 DEF Copying, HoldOwner, OwnerRefused, Fetch, FetchUnauthorized, FetchFails, Upload,
     UploadFails, accounts
<1>3. CASE \E r \in Requests : Cleanup(r) \/ Settle(r) \/ Recover(r)
  BY <1>3 DEF Cleanup, Settle, Recover, accounts
<1>4. CASE \E r \in Requests : Streams(r)
  BY <1>4 DEF Streams, ForwardContent, ForwardTerminal, SendTerminal, StopByContext, SourceCloses,
     Tell, ClosingCleanup, ClosingRelease, ReportRelease, Close, accounts
<1>5. CASE \E r \in Requests : ClientReads(r) \/ ClientLeaves(r) \/ TimesOut(r) \/ IsCancelled(r)
  BY <1>5 DEF ClientReads, ClientLeaves, TimesOut, IsCancelled, accounts
<1>6. CASE \E a \in Accounts : LoginExpires(a) \/ Disable(a) \/ CooldownEnds(a) \/ Renewed(a)
  BY <1>6 DEF LoginExpires, Disable, CooldownEnds, Renewed
<1>7. CASE UNCHANGED vars
  BY <1>7 DEF vars, accounts
<1> QED
  BY <1>1, <1>2, <1>3, <1>4, <1>5, <1>6, <1>7 DEF Next, Runs, Settling

(* A worker is closed by a reset only if it failed a request since it was   *)
(* started: of the requests it failed one closes it, and nobody closes the  *)
(* worker that replaced it.                                                 *)
THEOREM HealthyIsSpared == Spec => HealthySpared
<1>1. ASSUME IInv, [Next]_vars, NEW a \in Accounts, ~Spares(a) PROVE unfit[a]
  <2>1. CASE \E r \in Requests : ResetWorker(r) \/ ResetFails(r)
    BY <1>1, <2>1, ResetCloses
  <2>2. CASE \E r \in Requests : Acquire(r) \/ GenerateFails(r)
    BY <1>1, <2>2, AcquireSpares, GenerateFailsSpares
  <2>3. CASE ~ \E r \in Requests : ResetWorker(r) \/ ResetFails(r) \/ Acquire(r) \/ GenerateFails(r)
    <3>1. worker' = worker
      BY <1>1, <2>3, OthersSpare
    <3> QED
      BY <1>1, <3>1 DEF Spares
  <2> QED
    BY <2>1, <2>2, <2>3
<1>2. IInv /\ [Next]_vars =>
        \A a \in Accounts :
          worker[a] \in {"ok", "failed"} /\ worker'[a] \in {"closing", "closed"} => unfit[a]
  BY <1>1 DEF Spares
<1> QED
  BY <1>2, Inductive, PTL DEF Spec, HealthySpared

-----------------------------------------------------------------------------
(* What is recorded of a request and what its client has heard, from the    *)
(* registration to the close of the stream.  Before its first event nothing *)
(* is; from then on both are told apart by the place in forwardEvents, and  *)
(* neither mentions the client or the context until the stream is closed,   *)
(* so that the client may leave and the context end at any step.            *)
Before ==
  {"idle", "select", "copy", "fetch", "upload", "generate", "cleanup", "settle", "recover",
   "resetting", "failed"}

Unheard(s) == s.told = {} /\ ~s.unreleased
Unrecorded(s) == Unheard(s) /\ s.result = None /\ ~s.terminal
Noted(s) == s.terminal /\ s.result \in {"completed", "failed"} /\ ~s.unreleased
Closed(s) ==
  /\ s.result # None
  /\ s.client /\ s.ctx = "live" => s.told # {}
  /\ s.result = "completed" => s.told = {"finish"}

Said(at, s) ==
  /\ at \in Before => Unrecorded(s)
  /\ at = "forward" => Unrecorded(s) \/ (Noted(s) /\ s.told = {Terminal(s.result)})
  /\ at = "sending" => Noted(s) /\ s.told = {}
  /\ at = "telling" => Unheard(s) /\ s.result \in {"failed", "cancelled"}
  /\ at \in {"closing", "releasing"} =>
       Closed(s) /\ ~s.unreleased /\ s.told # {"finish", "error"}
  /\ at = "reporting" => s.result = "failed" /\ s.unreleased
  /\ at = "finished" => Closed(s) /\ (s.told = {"finish", "error"} => s.unreleased)

AInv == IInv /\ \A r \in Requests : Said(req[r].at, stream[r])

(* One request goes on, and with it perhaps its stream.                     *)
LEMMA SaidOf ==
  ASSUME AInv, NEW r \in Requests, Said(req'[r].at, stream'[r]),
         \A x \in Requests \ {r} : req'[x] = req[x] /\ stream'[x] = stream[x]
  PROVE  \A x \in Requests : Said(req'[x].at, stream'[x])
BY DEF AInv

(* A step before the first event leaves the stream as it is.                *)
LEMMA SilentStep ==
  ASSUME AInv, NEW r \in Requests, stream' = stream, req[r].at \in Before,
         req'[r].at \in Before \cup {"forward"}, \A x \in Requests \ {r} : req'[x] = req[x]
  PROVE  \A x \in Requests : Said(req'[x].at, stream'[x])
<1>1. Unrecorded(stream[r])
  BY DEF AInv, Said
<1>2. Said(req'[r].at, stream'[r])
  BY <1>1 DEF Said, Before
<1> QED
  BY <1>2, SaidOf

LEMMA SilentLocal ==
  ASSUME AInv, NEW r \in Requests, stream' = stream, req[r].at \in Before,
         NEW q, Local(r, q), q.at \in Before \cup {"forward"}
  PROVE  \A x \in Requests : Said(req'[x].at, stream'[x])
<1>1. req'[r].at = q.at /\ \A x \in Requests \ {r} : req'[x] = req[x]
  BY DEF Local, AInv, IInv, TypeOK
<1> QED
  BY <1>1, SilentStep

LEMMA FailsSilent ==
  ASSUME AInv, NEW r \in Requests, stream' = stream, req[r].at \in Before,
         NEW cause, NEW files, Fails(r, cause, files)
  PROVE  \A x \in Requests : Said(req'[x].at, stream'[x])
<1> DEFINE place == IF files = {} THEN "settle" ELSE "cleanup"
           err == IF cause = "fatal" /\ ~Live(r) THEN stream[r].ctx ELSE "failed"
           q == [req[r] EXCEPT !.at = place, !.cause = cause, !.left = {}, !.err = err]
<1>1. Local(r, q)
  BY DEF Fails
<1>2. place \in Before
  BY DEF Before
<1>3. q.at = place
  <2> HIDE DEF place, err
  <2> QED
    BY Looked DEF AInv, IInv, Attempt
<1> HIDE DEF q, place
<1> QED
  BY <1>1, <1>2, <1>3, SilentLocal

LEMMA PreparesBefore ==
  ASSUME NEW r, NEW left, NEW channel PROVE Prepares(r, left, channel) \in Before
BY DEF Prepares, Before

LEMMA BeginSaid ==
  ASSUME AInv, NEW r \in Requests, Begin(r)
  PROVE  \A x \in Requests : Said(req'[x].at, stream'[x])
<1> DEFINE tries == IF Unpinned(r) /\ Cardinality(Schedulable) > 1
                      THEN Cardinality(Schedulable) ELSE 1
           q == [req[r] EXCEPT !.at = "select", !.tries = tries]
<1>1. /\ Local(r, q) /\ stream' = stream /\ req[r].at \in Before
  BY DEF Begin, Before
<1>2. q.at \in Before
  <2> HIDE DEF tries
  <2> QED
    BY Looked DEF AInv, IInv, Attempt, Before
<1> HIDE DEF q
<1> QED
  BY <1>1, <1>2, SilentLocal

LEMMA AcquireFailsSaid ==
  ASSUME AInv, NEW r \in Requests, AcquireFails(r)
  PROVE  \A x \in Requests : Said(req'[x].at, stream'[x])
<1>1. req[r].at = "select" /\ stream' = stream
  BY DEF AcquireFails
<1>2. req'[r].at \in {"select", "failed", "forward"} /\ OnlyOf(r)
  BY AcquireFailsOf DEF AInv
<1> QED
  BY <1>1, <1>2, SilentStep DEF Before, OnlyOf

LEMMA AcquireSaid ==
  ASSUME AInv, NEW r \in Requests, Acquire(r)
  PROVE  \A x \in Requests : Said(req'[x].at, stream'[x])
<1>1. req[r].at = "select" /\ stream' = stream /\ req[r] \in Attempt
  BY Looked DEF Acquire, AInv, IInv
<1> PICK p \in Outlets(r) :
       LET a == p[1]
           foreign == {i \in DOMAIN scene.ask[r].files : scene.ask[r].files[i] # a}
           gen == IF worker[a] = "failed" THEN generation[a] + 1 ELSE generation[a]
       IN Local(r, [req[r] EXCEPT
               !.at = Prepares(r, foreign, p[2]), !.left = foreign,
               !.account = a, !.channel = p[2], !.gen = gen, !.err = None,
               !.recovery = None, !.attempted = @ \cup {a}, !.checked = FALSE])
  BY DEF Acquire
<1> DEFINE foreign == {i \in DOMAIN scene.ask[r].files : scene.ask[r].files[i] # p[1]}
           gen == IF worker[p[1]] = "failed" THEN generation[p[1]] + 1 ELSE generation[p[1]]
           place == Prepares(r, foreign, p[2])
           q == [req[r] EXCEPT
               !.at = place, !.left = foreign,
               !.account = p[1], !.channel = p[2], !.gen = gen, !.err = None,
               !.recovery = None, !.attempted = @ \cup {p[1]}, !.checked = FALSE]
<1>2. Local(r, q)
  OBVIOUS
<1>3. place \in Before
  BY PreparesBefore
<1>4. q.at = place
  <2> HIDE DEF foreign, gen, place
  <2> QED
    BY <1>1 DEF Attempt
<1> HIDE DEF q, place
<1> QED
  BY <1>1, <1>2, <1>3, <1>4, SilentLocal DEF Before

LEMMA BlocksSaid ==
  ASSUME AInv, NEW r \in Requests, Blocks(r)
  PROVE  \A x \in Requests : Said(req'[x].at, stream'[x])
<1>1. req'[r].at = "blocked" /\ OnlyOf(r)
  BY BlocksOf DEF AInv
<1>2. stream' = stream /\ Said(req'[r].at, stream'[r])
  BY <1>1 DEF Blocks, Said, Before
<1> QED
  BY <1>1, <1>2, SaidOf DEF OnlyOf

LEMMA CopyingSaid ==
  ASSUME AInv, NEW r \in Requests, Copying(r)
  PROVE  \A x \in Requests : Said(req'[x].at, stream'[x])
<1>1. req[r].at \in {"copy", "fetch", "upload"} /\ stream' = stream
  BY DEF Copying, HoldOwner, OwnerRefused, Fetch, FetchUnauthorized, FetchFails, Upload, UploadFails
<1>2. req[r].at \in Before /\ req[r] \in Attempt
  BY <1>1, Looked DEF Before, AInv, IInv
<1>3. CASE \E cause, files : Fails(r, cause, files)
  BY <1>1, <1>2, <1>3, FailsSilent
<1>4. CASE HoldOwner(r)
  <2>1. Local(r, [req[r] EXCEPT !.at = "fetch"])
    BY <1>4 DEF HoldOwner
  <2>2. [req[r] EXCEPT !.at = "fetch"].at = "fetch"
    BY <1>2 DEF Attempt
  <2> QED
    BY <1>1, <1>2, <2>1, <2>2, SilentLocal DEF Before
<1>5. CASE Fetch(r)
  <2> DEFINE left == req[r].left \ NextFiles(r)
             place == Prepares(r, left, req[r].channel)
             q == [req[r] EXCEPT !.at = place, !.left = left, !.checked = TRUE]
  <2>1. Local(r, q) /\ place \in Before
    BY <1>5, PreparesBefore DEF Fetch
  <2>2. q.at = place
    <3> HIDE DEF left, place
    <3> QED
      BY <1>2 DEF Attempt
  <2> HIDE DEF q, place
  <2> QED
    BY <1>1, <1>2, <2>1, <2>2, SilentLocal
<1>6. CASE Upload(r)
  <2>1. PICK written : Local(r, [req[r] EXCEPT !.at = "generate", !.checked = @ \/ written # {}])
    BY <1>6 DEF Upload
  <2> DEFINE q == [req[r] EXCEPT !.at = "generate", !.checked = @ \/ written # {}]
  <2>2. q.at = "generate"
    BY <1>2 DEF Attempt
  <2>3. Local(r, q)
    BY <2>1
  <2> HIDE DEF q
  <2> QED
    BY <1>1, <1>2, <2>2, <2>3, SilentLocal DEF Before
<1>7. OwnerRefused(r) \/ FetchUnauthorized(r) \/ FetchFails(r) \/ UploadFails(r) =>
        \E cause, files : Fails(r, cause, files)
  BY DEF OwnerRefused, FetchUnauthorized, FetchFails, UploadFails
<1> QED
  BY <1>3, <1>4, <1>5, <1>6, <1>7 DEF Copying

LEMMA CallSaid ==
  ASSUME AInv, NEW r \in Requests, FirstEvent(r) \/ GenerateFails(r)
  PROVE  \A x \in Requests : Said(req'[x].at, stream'[x])
<1>1. req[r].at = "generate" /\ stream' = stream
  BY DEF FirstEvent, GenerateFails
<1>2. req[r].at \in Before
  BY <1>1 DEF Before
<1>3. CASE FirstEvent(r)
  <2>1. Local(r, After("forward", None)) /\ After("forward", None).at = "forward"
    BY <1>3 DEF FirstEvent, After, Unstarted
  <2> QED
    BY <1>1, <1>2, <2>1, SilentLocal
<1>4. CASE GenerateFails(r)
  <2>1. \E cause : Fails(r, cause, copies[r])
    BY <1>4 DEF GenerateFails
  <2> QED
    BY <1>1, <1>2, <2>1, FailsSilent
<1> QED
  BY <1>3, <1>4

LEMMA DecideSaid ==
  ASSUME AInv, NEW r \in Requests, stream' = stream, req[r].at \in Before,
         NEW q \in Attempt, Decide(r, q)
  PROVE  \A x \in Requests : Said(req'[x].at, stream'[x])
<1>1. req'[r].at \in {"select", "failed"} /\ \A x \in Requests \ {r} : req'[x] = req[x]
  BY DecideOf DEF AInv
<1>2. Said(req'[r].at, stream'[r])
  BY <1>1 DEF AInv, Said, Before
<1> QED
  BY <1>1, <1>2, SaidOf

LEMMA SettlingSaid ==
  ASSUME AInv, NEW r \in Requests, Settling(r)
  PROVE  \A x \in Requests : Said(req'[x].at, stream'[x])
<1>1. req[r].at \in {"cleanup", "settle", "recover", "resetting"} /\ stream' = stream
  BY DEF Settling, Cleanup, Settle, Recover, ResetWorker, ResetFails
<1>2. req[r].at \in Before /\ req[r] \in Attempt
  BY <1>1, Looked DEF Before, AInv, IInv
<1>3. CASE Cleanup(r)
  <2>1. Local(r, [req[r] EXCEPT !.at = "settle"])
    BY <1>3 DEF Cleanup
  <2>2. [req[r] EXCEPT !.at = "settle"].at = "settle"
    BY <1>2 DEF Attempt
  <2> QED
    BY <1>1, <1>2, <2>1, <2>2, SilentLocal DEF Before
<1>4. CASE Settle(r)
  <2>1. PICK unwritten \in BOOLEAN : \/ Local(r, Settled(r, unwritten))
                                     \/ Local(r, After("failed", req[r].err))
    BY <1>4 DEF Settle
  <2>2. Settled(r, unwritten).at = "recover"
    BY <1>4, SettledOf DEF Settle, AInv
  <2>3. After("failed", req[r].err).at = "failed"
    BY DEF After, Unstarted
  <2> QED
    BY <1>1, <1>2, <2>1, <2>2, <2>3, SilentLocal DEF Before
<1>5. ASSUME NEW recovered \in BOOLEAN, Decide(r, Decided(req[r], recovered)), req[r].account \in Accounts
      PROVE  \A x \in Requests : Said(req'[x].at, stream'[x])
  <2>1. Decided(req[r], recovered) \in Attempt
    BY <1>2, <1>5, DecidedType, RetryAssumption
  <2> QED
    BY <1>1, <1>2, <1>5, <2>1, DecideSaid
<1>6. req[r].at \in {"recover", "resetting"} => req[r].account \in Accounts
  BY DEF AInv, IInv, Kept
<1>7. CASE Recover(r)
  <2> DEFINE a == req[r].account
             changed == generation[a] # req[r].gen
             again == a \in req[r].recovered
             resets == Live(r) /\ ~again /\ ~changed /\ req[r].needs /\ req[r].reset
             recovered == Live(r) /\ ~again /\ (changed \/ req[r].needs)
  <2>1. /\ req[r].at = "recover"
        /\ \/ Local(r, [req[r] EXCEPT !.at = "resetting"])
           \/ Decide(r, Decided(req[r], recovered))
    BY <1>7 DEF Recover
  <2>2. [req[r] EXCEPT !.at = "resetting"].at = "resetting"
    BY <1>2 DEF Attempt
  <2>3. recovered \in BOOLEAN
    BY <1>2 DEF Attempt, Live
  <2> HIDE DEF recovered
  <2>4. CASE Local(r, [req[r] EXCEPT !.at = "resetting"])
    BY <1>1, <1>2, <2>2, <2>4, SilentLocal DEF Before
  <2>5. CASE Decide(r, Decided(req[r], recovered))
    BY <1>5, <1>6, <2>1, <2>3, <2>5
  <2> QED
    BY <2>1, <2>4, <2>5
<1>8. CASE ResetWorker(r)
  <2>1. req[r].at = "resetting" /\ Decide(r, Decided(req[r], TRUE))
    BY <1>8 DEF ResetWorker
  <2> QED
    BY <1>5, <1>6, <2>1
<1>9. CASE ResetFails(r)
  <2> DEFINE q == [Decided(req[r], FALSE) EXCEPT !.retryable = FALSE]
  <2>1. req[r].at = "resetting" /\ Decide(r, q)
    BY <1>9 DEF ResetFails
  <2>2. Decided(req[r], FALSE) \in Attempt
    BY <1>2, <1>6, <2>1, DecidedType, RetryAssumption
  <2>3. q \in Attempt
    BY <2>2 DEF Attempt
  <2> HIDE DEF q
  <2> QED
    BY <1>1, <1>2, <2>1, <2>3, DecideSaid
<1> QED
  BY <1>3, <1>4, <1>7, <1>8, <1>9 DEF Settling

(* A stream that is recorded, told of its end or closed.                    *)
LEMMA StreamLocal ==
  ASSUME AInv, NEW r \in Requests, NEW s, Ending(r, s), NEW q, Local(r, q), Said(q.at, s)
  PROVE  \A x \in Requests : Said(req'[x].at, stream'[x])
<1>1. /\ req'[r] = q /\ stream'[r] = s
      /\ \A x \in Requests \ {r} : req'[x] = req[x] /\ stream'[x] = stream[x]
  BY DEF Local, Ending, AInv, IInv, TypeOK
<1> QED
  BY <1>1, SaidOf

LEMMA StreamMovesSaid ==
  ASSUME AInv, NEW r \in Requests, NEW s, Ending(r, s), NEW p, Moves(r, p), Said(p, s)
  PROVE  \A x \in Requests : Said(req'[x].at, stream'[x])
<1> DEFINE q == [req[r] EXCEPT !.at = p]
<1>1. q.at = p
  BY Looked DEF AInv, IInv, Attempt
<1>2. Local(r, q)
  BY DEF Moves
<1> HIDE DEF q
<1> QED
  BY <1>1, <1>2, StreamLocal

LEMMA FinishesSaid ==
  ASSUME AInv, NEW r \in Requests, NEW s, Ending(r, s), Finishes(r), Said("finished", s)
  PROVE  \A x \in Requests : Said(req'[x].at, stream'[x])
<1>1. Local(r, After("finished", None)) /\ After("finished", None).at = "finished"
  BY DEF Finishes, After, Unstarted
<1> QED
  BY <1>1, StreamLocal

LEMMA StreamUnchanged ==
  ASSUME TypeOK, NEW r \in Requests, stream' = stream PROVE Ending(r, stream[r])
BY DEF Ending, TypeOK

LEMMA FailSaid ==
  ASSUME AInv, NEW r \in Requests, Fail(r)
  PROVE  \A x \in Requests : Said(req'[x].at, stream'[x])
<1> DEFINE result == IF req[r].err = "cancelled" THEN "cancelled" ELSE "failed"
<1> PICK told \in {{}, {"error"}} :
      /\ told = {} => ~stream[r].client
      /\ Ending(r, [stream[r] EXCEPT !.result = result, !.told = told])
  BY DEF Fail
<1> DEFINE s == [stream[r] EXCEPT !.result = result, !.told = told]
<1>1. req[r].at = "failed" /\ Finishes(r) /\ Ending(r, s)
  BY DEF Fail
<1>2. s.result = result /\ s.told = told /\ s.client = stream[r].client
  <2> HIDE DEF result
  <2> QED
    BY Looked DEF AInv, IInv, Stream
<1>3. result \in {"failed", "cancelled"} /\ result # None
  BY RetryAssumption
<1> HIDE DEF s, result
<1>4. Said("finished", s)
  BY <1>2, <1>3 DEF Said, Before, Closed
<1> QED
  BY <1>1, <1>4, FinishesSaid

LEMMA PanicSaid ==
  ASSUME AInv, NEW r \in Requests, Panic(r)
  PROVE  \A x \in Requests : Said(req'[x].at, stream'[x])
<1>1. \A x \in Requests : req'[x].at = "dead"
  BY DEF Panic, Unstarted
<1> QED
  BY <1>1 DEF Said, Before

LEMMA ForwardsSaid ==
  ASSUME AInv, NEW r \in Requests,
         ForwardContent(r) \/ ForwardTerminal(r) \/ SendTerminal(r)
  PROVE  \A x \in Requests : Said(req'[x].at, stream'[x])
<1>1. stream[r] \in Stream /\ req[r] \in Attempt /\ Said(req[r].at, stream[r])
  BY Looked DEF AInv, IInv
<1>2. CASE ForwardContent(r)
  <2> DEFINE s == [stream[r] EXCEPT !.backlog = @ + 1]
  <2>1. Ending(r, s) /\ req' = req /\ req[r].at = "forward" /\ ~stream[r].terminal
    BY <1>2 DEF ForwardContent, Streaming
  <2>2. /\ s.terminal = stream[r].terminal /\ s.result = stream[r].result
        /\ s.told = stream[r].told /\ s.unreleased = stream[r].unreleased
    BY <1>1 DEF Stream
  <2>3. Unrecorded(stream[r])
    BY <1>1, <2>1 DEF Said, Noted
  <2> HIDE DEF s
  <2>4. Said("forward", s)
    BY <2>2, <2>3 DEF Said, Before, Unrecorded, Unheard
  <2>5. stream'[r] = s /\ \A x \in Requests \ {r} : stream'[x] = stream[x]
    BY <2>1 DEF Ending, AInv, IInv, TypeOK
  <2> QED
    BY <2>1, <2>4, <2>5, SaidOf
<1>3. CASE ForwardTerminal(r)
  <2>1. PICK result \in {"completed", "failed"} :
          Ending(r, [stream[r] EXCEPT !.terminal = TRUE, !.result = result])
    BY <1>3 DEF ForwardTerminal
  <2> DEFINE s == [stream[r] EXCEPT !.terminal = TRUE, !.result = result]
  <2>2. Ending(r, s) /\ Moves(r, "sending") /\ req[r].at = "forward" /\ ~stream[r].terminal
    BY <1>3, <2>1 DEF ForwardTerminal, Streaming
  <2>3. /\ s.terminal /\ s.result = result
        /\ s.told = stream[r].told /\ s.unreleased = stream[r].unreleased
    BY <1>1 DEF Stream
  <2>4. Unrecorded(stream[r])
    BY <1>1, <2>2 DEF Said, Noted
  <2> HIDE DEF s
  <2>5. Said("sending", s)
    BY <2>3, <2>4 DEF Said, Before, Unrecorded, Unheard, Noted
  <2> QED
    BY <2>2, <2>5, StreamMovesSaid
<1>4. CASE SendTerminal(r)
  <2> DEFINE told == stream[r].told \cup {Terminal(stream[r].result)}
             s == [stream[r] EXCEPT !.backlog = @ + 1, !.told = told]
  <2>1. /\ req[r].at = "sending" /\ Moves(r, "forward") /\ Ending(r, s)
    BY <1>1, <1>4 DEF SendTerminal, Stream
  <2>2. /\ s.terminal = stream[r].terminal /\ s.result = stream[r].result
        /\ s.told = told /\ s.unreleased = stream[r].unreleased
    <3> HIDE DEF told
    <3> QED
      BY <1>1 DEF Stream
  <2>3. Noted(stream[r]) /\ stream[r].told = {}
    BY <1>1, <2>1 DEF Said
  <2> HIDE DEF s
  <2>4. Said("forward", s)
    BY <2>2, <2>3 DEF Said, Before, Noted
  <2> QED
    BY <2>1, <2>4, StreamMovesSaid
<1> QED
  BY <1>2, <1>3, <1>4

LEMMA EndsSaid ==
  ASSUME AInv, NEW r \in Requests, StopByContext(r) \/ SourceCloses(r) \/ Tell(r)
  PROVE  \A x \in Requests : Said(req'[x].at, stream'[x])
<1>1. stream[r] \in Stream /\ req[r] \in Attempt /\ Said(req[r].at, stream[r])
  BY Looked DEF AInv, IInv
<1>2. Closing(r) \in {"closing", "releasing"}
  BY ClosingType
<1>3. CASE StopByContext(r)
  <2> DEFINE s == [stream[r] EXCEPT !.result = stream[r].ctx]
             p == IF stream[r].terminal \/ ~stream[r].client THEN Closing(r) ELSE "telling"
  <2>1. /\ req[r].at \in {"forward", "sending"} /\ Moves(r, p) /\ Ending(r, s) /\ ~Live(r)
    BY <1>3 DEF StopByContext, Streaming
  <2>2. /\ s.told = stream[r].told /\ s.unreleased = stream[r].unreleased
        /\ s.result = stream[r].ctx /\ s.ctx = stream[r].ctx
        /\ stream[r].ctx \in {"failed", "cancelled"} /\ stream[r].ctx # None
    BY <1>1, <2>1, RetryAssumption DEF Stream, Live
  <2>3. /\ ~stream[r].unreleased /\ stream[r].told # {"finish", "error"}
        /\ ~stream[r].terminal => stream[r].told = {}
    <3>1. stream[r].told = {} \/ stream[r].told = {Terminal(stream[r].result)}
      BY <1>1, <2>1 DEF Said, Noted, Unrecorded, Unheard
    <3>2. ~stream[r].unreleased /\ (~stream[r].terminal => stream[r].told = {})
      BY <1>1, <2>1 DEF Said, Noted, Unrecorded, Unheard
    <3> QED
      BY <3>1, <3>2
  <2>4. p = "telling" => ~stream[r].terminal
    BY <1>2
  <2>5. p \in {"telling", "closing", "releasing"}
    BY <1>2
  <2> HIDE DEF s, p
  <2>6. Said(p, s)
    BY <2>2, <2>3, <2>4, <2>5 DEF Said, Before, Closed, Unheard
  <2> QED
    BY <2>1, <2>6, StreamMovesSaid
<1>4. CASE SourceCloses(r)
  <2> DEFINE result == IF stream[r].terminal THEN stream[r].result ELSE "failed"
             s == [stream[r] EXCEPT !.result = result]
             p == IF stream[r].terminal THEN Closing(r) ELSE "telling"
  <2>1. /\ req[r].at = "forward" /\ Moves(r, p) /\ Ending(r, s)
    BY <1>4 DEF SourceCloses, Streaming
  <2>2. /\ s.told = stream[r].told /\ s.unreleased = stream[r].unreleased
        /\ s.result = result
    <3> HIDE DEF result
    <3> QED
      BY <1>1 DEF Stream
  <2>3. CASE stream[r].terminal
    <3>1. Noted(stream[r]) /\ stream[r].told = {Terminal(stream[r].result)}
      BY <1>1, <2>1, <2>3 DEF Said, Unrecorded
    <3>2. result = stream[r].result /\ p = Closing(r)
      BY <2>3
    <3> HIDE DEF s, p, result
    <3>3. /\ ~s.unreleased /\ s.result \in {"completed", "failed"}
          /\ s.told = {Terminal(s.result)}
      BY <2>2, <3>1, <3>2 DEF Noted
    <3>4. s.told # {} /\ s.told # {"finish", "error"} /\ s.result # None
      BY <3>3, RetryAssumption
    <3>5. s.result = "completed" => s.told = {"finish"}
      BY <3>3 DEF Terminal
    <3>6. Said(Closing(r), s)
      BY <1>2, <3>3, <3>4, <3>5 DEF Said, Before, Closed
    <3> QED
      BY <2>1, <3>2, <3>6, StreamMovesSaid
  <2>4. CASE ~stream[r].terminal
    <3>1. Unrecorded(stream[r])
      BY <1>1, <2>1, <2>4 DEF Said, Noted
    <3>2. result = "failed" /\ p = "telling"
      BY <2>4
    <3> HIDE DEF s, p, result
    <3>3. Said("telling", s)
      BY <2>2, <3>1, <3>2 DEF Said, Before, Unrecorded, Unheard
    <3> QED
      BY <2>1, <3>2, <3>3, StreamMovesSaid
  <2> QED
    BY <2>3, <2>4
<1>5. CASE Tell(r)
  <2>1. /\ req[r].at = "telling" /\ Moves(r, Closing(r))
        /\ Unheard(stream[r]) /\ stream[r].result \in {"failed", "cancelled"}
    BY <1>1, <1>5 DEF Tell, Said
  <2>2. stream[r].result # None /\ stream[r].result # "completed"
    BY <2>1, RetryAssumption
  <2>3. CASE ~stream[r].client /\ stream' = stream
    <3>1. Said(Closing(r), stream[r])
      BY <1>2, <2>1, <2>2, <2>3 DEF Said, Before, Closed, Unheard
    <3> QED
      BY <2>1, <2>3, <3>1, StreamUnchanged, StreamMovesSaid DEF AInv, IInv
  <2>4. CASE Ending(r, [stream[r] EXCEPT !.backlog = @ + 1, !.told = @ \cup {"error"}])
    <3> DEFINE s == [stream[r] EXCEPT !.backlog = @ + 1, !.told = @ \cup {"error"}]
    <3>1. /\ s.told = stream[r].told \cup {"error"} /\ s.unreleased = stream[r].unreleased
          /\ s.result = stream[r].result
      BY <1>1 DEF Stream
    <3>2. Ending(r, s)
      BY <2>4
    <3> HIDE DEF s
    <3>3. s.told = {"error"} /\ ~s.unreleased
      BY <2>1, <3>1 DEF Unheard
    <3>4. Said(Closing(r), s)
      BY <1>2, <2>2, <3>1, <3>3 DEF Said, Before, Closed
    <3> QED
      BY <2>1, <3>2, <3>4, StreamMovesSaid
  <2> QED
    BY <1>5, <2>3, <2>4 DEF Tell
<1> QED
  BY <1>3, <1>4, <1>5

LEMMA ClosesSaid ==
  ASSUME AInv, NEW r \in Requests,
         ClosingCleanup(r) \/ ClosingRelease(r) \/ ReportRelease(r) \/ Close(r)
  PROVE  \A x \in Requests : Said(req'[x].at, stream'[x])
<1>1. stream[r] \in Stream /\ req[r] \in Attempt /\ Said(req[r].at, stream[r])
  BY Looked DEF AInv, IInv
<1>2. CASE ClosingCleanup(r)
  <2>1. req[r].at = "closing" /\ Moves(r, "releasing") /\ stream' = stream
    BY <1>2 DEF ClosingCleanup
  <2>2. Said("releasing", stream[r])
    BY <1>1, <2>1 DEF Said, Before
  <2> QED
    BY <2>1, <2>2, StreamUnchanged, StreamMovesSaid DEF AInv, IInv
<1>3. CASE ClosingRelease(r)
  <2>1. req[r].at = "releasing" /\ Closed(stream[r]) /\ stream[r].told # {"finish", "error"}
    BY <1>1, <1>3 DEF ClosingRelease, Said
  <2>2. CASE Ending(r, [stream[r] EXCEPT !.backlog = 0]) /\ Finishes(r)
    <3> DEFINE s == [stream[r] EXCEPT !.backlog = 0]
    <3>1. /\ s.told = stream[r].told /\ s.client = stream[r].client
          /\ s.ctx = stream[r].ctx /\ s.result = stream[r].result
      BY <1>1 DEF Stream
    <3>2. Ending(r, s) /\ Finishes(r)
      BY <2>2
    <3> HIDE DEF s
    <3>3. Said("finished", s)
      BY <2>1, <3>1 DEF Said, Before, Closed
    <3> QED
      BY <3>2, <3>3, FinishesSaid
  <2>3. CASE /\ Ending(r, [stream[r] EXCEPT !.result = "failed", !.unreleased = TRUE])
             /\ Moves(r, "reporting")
    <3> DEFINE s == [stream[r] EXCEPT !.result = "failed", !.unreleased = TRUE]
    <3>1. s.result = "failed" /\ s.unreleased
      BY <1>1 DEF Stream
    <3>2. Ending(r, s)
      BY <2>3
    <3> HIDE DEF s
    <3>3. Said("reporting", s)
      BY <3>1 DEF Said, Before
    <3> QED
      BY <2>3, <3>2, <3>3, StreamMovesSaid
  <2> QED
    BY <1>3, <2>2, <2>3 DEF ClosingRelease
<1>4. CASE ReportRelease(r)
  <2> DEFINE told == IF stream[r].client THEN stream[r].told \cup {"error"} ELSE stream[r].told
             s == [stream[r] EXCEPT !.told = told]
  <2>1. /\ stream[r].result = "failed" /\ stream[r].unreleased
        /\ Ending(r, s) /\ Finishes(r)
    BY <1>1, <1>4 DEF ReportRelease, Said
  <2>2. /\ s.told = told /\ s.client = stream[r].client /\ s.result = stream[r].result
        /\ s.unreleased = stream[r].unreleased
    <3> HIDE DEF told
    <3> QED
      BY <1>1 DEF Stream
  <2>3. stream[r].client => told # {}
    OBVIOUS
  <2> HIDE DEF s, told
  <2>4. Said("finished", s)
    BY <2>1, <2>2, <2>3, RetryAssumption DEF Said, Before, Closed
  <2> QED
    BY <2>1, <2>4, FinishesSaid
<1>5. CASE Close(r)
  <2>1. Moves(r, "ended") /\ Ending(r, Untouched) /\ Said("ended", Untouched)
    BY <1>5 DEF Close, Said, Before
  <2> QED
    BY <2>1, StreamMovesSaid
<1> QED
  BY <1>2, <1>3, <1>4, <1>5

(* The client reads or leaves, or its context ends: nothing that is said of *)
(* a request that is served depends on it.                                  *)
LEMMA CutSaid ==
  ASSUME AInv, NEW r \in Requests,
         ClientReads(r) \/ ClientLeaves(r) \/ TimesOut(r) \/ IsCancelled(r)
  PROVE  \A x \in Requests : Said(req'[x].at, stream'[x])
<1>1. /\ stream[r] \in Stream /\ Said(req[r].at, stream[r])
      /\ stream \in [Requests -> Stream]
  BY Looked DEF AInv, IInv, TypeOK
<1>2. req' = req /\ Served(r)
  BY DEF ClientReads, ClientLeaves, TimesOut, IsCancelled
<1>3. PICK s : /\ Ending(r, s) /\ s.terminal = stream[r].terminal
               /\ s.result = stream[r].result /\ s.told = stream[r].told
               /\ s.unreleased = stream[r].unreleased
  <2>1. CASE ClientReads(r)
    BY <1>1, <2>1 DEF ClientReads, Stream
  <2>2. CASE ClientLeaves(r)
    <3> DEFINE ctx == IF stream[r].ctx = "live" THEN "cancelled" ELSE stream[r].ctx
               s == [stream[r] EXCEPT !.client = FALSE, !.ctx = ctx]
    <3>1. Ending(r, s)
      BY <1>1, <2>2 DEF ClientLeaves, Stream
    <3>2. /\ s.terminal = stream[r].terminal
          /\ s.result = stream[r].result /\ s.told = stream[r].told
          /\ s.unreleased = stream[r].unreleased
      <4> HIDE DEF ctx
      <4> QED
        BY <1>1 DEF Stream
    <3> HIDE DEF s
    <3> QED
      BY <3>1, <3>2
  <2>3. CASE TimesOut(r) \/ IsCancelled(r)
    BY <1>1, <2>3 DEF TimesOut, IsCancelled, Stream
  <2> QED
    BY <2>1, <2>2, <2>3
<1>4. Said(req[r].at, s)
  BY <1>1, <1>2, <1>3 DEF Said, Served, Unrecorded, Unheard, Noted
<1>5. stream'[r] = s /\ \A x \in Requests \ {r} : stream'[x] = stream[x]
  BY <1>1, <1>3 DEF Ending
<1> QED
  BY <1>2, <1>4, <1>5, SaidOf

LEMMA AnswerStep == ASSUME AInv, [Next]_vars PROVE AInv'
<1>1. IInv'
  BY NextStep DEF AInv
<1>2. CASE \E r \in Requests : \/ Begin(r) \/ AcquireFails(r) \/ Acquire(r) \/ Blocks(r)
                               \/ Copying(r)
  BY <1>1, <1>2, BeginSaid, AcquireFailsSaid, AcquireSaid, BlocksSaid, CopyingSaid DEF AInv
<1>3. CASE \E r \in Requests : FirstEvent(r) \/ GenerateFails(r) \/ Settling(r)
  BY <1>1, <1>3, CallSaid, SettlingSaid DEF AInv
<1>4. CASE \E r \in Requests : Fail(r) \/ Panic(r)
  BY <1>1, <1>4, FailSaid, PanicSaid DEF AInv
<1>5. CASE \E r \in Requests : Streams(r)
  BY <1>1, <1>5, ForwardsSaid, EndsSaid, ClosesSaid DEF AInv, Streams
<1>6. CASE \E r \in Requests : ClientReads(r) \/ ClientLeaves(r) \/ TimesOut(r) \/ IsCancelled(r)
  BY <1>1, <1>6, CutSaid DEF AInv
<1>7. CASE \E a \in Accounts : LoginExpires(a) \/ Disable(a) \/ CooldownEnds(a) \/ Renewed(a)
  BY <1>1, <1>7 DEF AInv, LoginExpires, Disable, CooldownEnds, Renewed
<1>8. CASE UNCHANGED vars
  BY <1>1, <1>8 DEF AInv, vars
<1> QED
  BY <1>2, <1>3, <1>4, <1>5, <1>6, <1>7, <1>8 DEF Next, Runs

(* What the registry recorded of a request and what its client heard agree  *)
(* when the stream is closed, whenever the client leaves, the context ends, *)
(* the source closes or the release fails.                                  *)
THEOREM AnswersAreGiven == Spec => []AnswerGiven
<1>1. ASSUME Init PROVE AInv
  <2>1. IInv
    BY <1>1, InitStep
  <2>2. \A r \in Requests : Said(req[r].at, stream[r])
    BY <1>1 DEF Init, Unstarted, Untouched, Said, Before, Unrecorded, Unheard
  <2> QED
    BY <2>1, <2>2 DEF AInv
<1>2. AInv /\ [Next]_vars => AInv'
  BY AnswerStep
<1>3. AInv => AnswerGiven
  BY DEF AInv, Said, Before, Closed, AnswerGiven, Live
<1> QED
  BY <1>1, <1>2, <1>3, PTL DEF Spec
=============================================================================
