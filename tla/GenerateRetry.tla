---------------------------- MODULE GenerateRetry ----------------------------
(***************************************************************************)
(* A generation request from its registration to the end of its stream:     *)
(* trackedService.Generate, generateWithRetry and forwardEvents             *)
(* (internal/app/runtime.go), with the copies of referenced files and of    *)
(* inline media that an attempt makes on its account                        *)
(* (internal/aistudio/upload.go).                                           *)
(*                                                                         *)
(* Requests compete for the slots of the accounts.  An attempt holds a slot *)
(* of its account and, while it copies a file, one of the file's owner too. *)
(* Scheduling among the accounts that would do (WorkerPool, DispatchQueue)  *)
(* is a choice here; the lease files are in AccountLeases.                  *)
(***************************************************************************)
EXTENDS Naturals, Sequences, FiniteSets

CONSTANTS
  Requests, Accounts, None,
  Scenes,          (* what clients ask for, with the bounds on what may    *)
                   (* go wrong: see Scene                                  *)
  Channels,        (* UPSTREAM_CHANNELS                                    *)
  Slots,           (* PER_ACCOUNT_CONCURRENCY                              *)
  Buffer,          (* bound: the room of a destination channel, 8          *)
  MaxGeneration,   (* bound: worker generations per account                *)
  MaxUpsets        (* bound: things that happen to accounts meanwhile      *)

AllCauses ==
  {"auth", "quota", "globalQuota", "server", "waa", "worker", "replaced", "fatal"}

(* pinned: the account the client asks for; files: the owners of the files  *)
(* it refers to; inline: it sends media along; unary: it wants no stream.   *)
(* causes: the ways an attempt of it may fail; mishaps, upsets: what else   *)
(* may go wrong with the request (a release, a close of a worker or the     *)
(* write of a mark fails; its marks come too late; it waits for a mutex for *)
(* ever; it is cancelled; its client goes) and with an account meanwhile.   *)
Scene ==
  [ask : [Requests -> [pinned : Accounts \cup {None}, files : Seq(Accounts),
                       inline : BOOLEAN, unary : BOOLEAN,
                       causes : SUBSET AllCauses,
                       mishaps : SUBSET {"release", "close", "mark", "overtaken", "blocked",
                                         "cancelled", "gone"}]],
   upsets : [Accounts -> SUBSET {"disabled", "expired", "renewed", "cooled"}]]

ASSUME RetryAssumption ==
  /\ None \notin Requests \cup Accounts
  /\ None \notin {"completed", "failed", "cancelled", "noEligible", "cooling"}
  /\ IsFiniteSet(Requests) /\ IsFiniteSet(Accounts)
  /\ \A s \in Scenes : s \in Scene
  /\ Channels \subseteq {"playground", "build"} /\ Channels # {}
  /\ Slots \in Nat \ {0} /\ Buffer \in Nat \ {0}
  /\ MaxGeneration \in Nat /\ MaxUpsets \in Nat

VARIABLES
  req,        (* per request: the variables of generateWithRetry           *)
  stream,     (* per request: destination, its client and its contexts     *)
  lease,      (* per request: the account of its lease                     *)
  source,     (* per request: the owner whose file is being copied         *)
  copies,     (* per request: its temporary files still to be deleted      *)
  state,      (* per account: Account.State, "off" for a disabled one      *)
  login,      (* per account: the website still accepts its login          *)
  cooling,    (* per account: the scopes of the model that cool down       *)
  worker,     (* per account: its worker, "ok", "failed", "closed", or     *)
              (* "closing" when its close has failed                       *)
  unfit,      (* per account: it failed a request since its worker started *)
  generation, (* per account: WorkerGeneration, the workers it has closed  *)
  upsets,     (* how many of scene.upsets have happened                    *)
  scene       (* the member of Scenes that is played                       *)

accounts == <<state, login, cooling, worker, unfit, generation, upsets, scene>>
vars == <<req, stream, lease, source, copies, accounts>>

(* tries is maxAttempts - attempt: the attempts that are left, this one     *)
(* included.  retryable, needs and reset are what the failed attempt has    *)
(* settled; checked: its account was found signed in under this lease.      *)
Unstarted ==
  [at |-> "idle", tries |-> 0, attempted |-> {},
   recovered |-> {}, recovery |-> None, copyFiles |-> FALSE, err |-> None,
   account |-> None, channel |-> None, left |-> {}, gen |-> 0,
   cause |-> None, checked |-> FALSE, retryable |-> FALSE, needs |-> FALSE,
   reset |-> FALSE]

(* told: the terminal events the client got; ctx: requestCtx, "live", or    *)
(* the error it ended with; result: the state the registry recorded.        *)
Untouched ==
  [backlog |-> 0, terminal |-> FALSE, told |-> {}, client |-> TRUE,
   ctx |-> "live", result |-> None, unreleased |-> FALSE]

Init ==
  /\ scene \in Scenes
  /\ req = [r \in Requests |-> Unstarted]
  /\ stream = [r \in Requests |-> Untouched]
  /\ lease = [r \in Requests |-> None]
  /\ source = [r \in Requests |-> None]
  /\ copies = [r \in Requests |-> {}]
  /\ state = [a \in Accounts |-> "ready"]
  /\ login = [a \in Accounts |-> TRUE]
  /\ cooling = [a \in Accounts |-> {}]
  /\ worker = [a \in Accounts |-> "ok"]
  /\ unfit = [a \in Accounts |-> FALSE]
  /\ generation = [a \in Accounts |-> 0]
  /\ upsets = 0

-----------------------------------------------------------------------------
(* The pool, as generateWithRetry sees it.                                  *)

Live(r) == stream[r].ctx = "live"

Holders(a) ==
  Cardinality({r \in Requests : lease[r] = a}) + Cardinality({r \in Requests : source[r] = a})

(* AcquireAccount, for ResetIfGeneration: it waits for the account to be    *)
(* idle and meanwhile keeps new leases out.                                 *)
Resetting(a) == \E r \in Requests : req[r].at = "resetting" /\ req[r].account = a
HasSlot(a) == Holders(a) < Slots /\ ~Resetting(a)

Enabled == {a \in Accounts : state[a] # "off"}
Schedulable ==
  {a \in Enabled : \/ Holders(a) > 0 \/ Resetting(a)
                   \/ state[a] = "ready" /\ "global" \notin cooling[a]}

Open(a, channel) == channel \notin cooling[a] /\ "global" \notin cooling[a]

-----------------------------------------------------------------------------
(* What an attempt asks the scheduler for.                                  *)

Unpinned(r) == scene.ask[r].pinned = None
FileBound(r) == Unpinned(r) /\ scene.ask[r].files # <<>>
Unbound(r) == Unpinned(r) /\ scene.ask[r].files = <<>>
ByResource(r) == scene.ask[r].files # <<>> /\ ~req[r].copyFiles
AccountID(r) == IF req[r].recovery # None THEN req[r].recovery ELSE scene.ask[r].pinned

(* AllowedAccountIDs stays nil, which allows all, when no enabled account   *)
(* is left to try.                                                          *)
Allowed(r) ==
  LET fresh == Enabled \ req[r].attempted
  IN IF Unpinned(r) /\ req[r].attempted # {} /\ fresh # {} THEN fresh ELSE Accounts

Conflict(r) ==
  ByResource(r) /\ AccountID(r) \notin {None, Head(scene.ask[r].files)}

Eligible(r) ==
  {a \in Allowed(r) : /\ ByResource(r) => a = Head(scene.ask[r].files)
                      /\ AccountID(r) # None => a = AccountID(r)
                      /\ state[a] = "ready"}

(* PlaygroundOnly for a request with files; a non-streaming request takes   *)
(* Build wherever that channel of an account is open.                       *)
Routes(r) ==
  LET all == IF scene.ask[r].files # <<>> THEN Channels \cap {"playground"} ELSE Channels
      build == all \cap {"build"}
  IN IF scene.ask[r].unary /\ \E a \in Eligible(r), c \in build : Open(a, c)
       THEN build ELSE all

Outlets(r) == {p \in Eligible(r) \X Routes(r) : Open(p[1], p[2])}

-----------------------------------------------------------------------------
(* Steps of the loop.                                                       *)

Local(r, changed) == req' = [req EXCEPT ![r] = changed]

(* Past the loop its variables are dead, save err.                          *)
After(place, err) == [Unstarted EXCEPT !.at = place, !.err = err]

(* The next iteration, or the end of the loop, after which only err tells   *)
(* whether the request failed.                                              *)
NextAttempt(r, q) ==
  Local(r, IF q.tries > 1 THEN [q EXCEPT !.tries = @ - 1, !.recovery = None]
           ELSE After(IF q.err # None THEN "failed" ELSE "forward", q.err))

(* Generate: the request is registered and its goroutine starts.            *)
Begin(r) ==
  /\ req[r].at = "idle"
  /\ Local(r, [req[r] EXCEPT
       !.at = "select",
       !.tries = IF Unpinned(r) /\ Cardinality(Schedulable) > 1
                   THEN Cardinality(Schedulable) ELSE 1])
  /\ UNCHANGED <<stream, lease, source, copies, accounts>>

(* Why acquireWarmLease may fail: the context is done, no account is        *)
(* eligible, all eligible ones cool down (longer than it waits for), or     *)
(* their workers do not start.                                              *)
Refusals(r) ==
  IF ~Live(r) THEN {stream[r].ctx}
  ELSE IF Conflict(r) THEN {"failed"}
  ELSE IF Eligible(r) \X Routes(r) = {} THEN {"noEligible"}
  ELSE IF Outlets(r) = {} THEN {"cooling"}
  ELSE IF \A p \in Outlets(r) : worker[p[1]] # "ok" THEN {"failed"}
  ELSE {}

TurnsToCopying(r, refusal) ==
  /\ FileBound(r) /\ ~req[r].copyFiles /\ Live(r)
  /\ refusal \in {"noEligible", "cooling"}

AcquireFails(r) ==
  /\ req[r].at = "select"
  /\ \E refusal \in Refusals(r) :
       LET q == req[r]
           err == IF q.err = None \/ refusal # "noEligible" THEN refusal ELSE q.err
       IN CASE TurnsToCopying(r, refusal) ->
                 NextAttempt(r, [q EXCEPT !.copyFiles = TRUE])
            [] ~TurnsToCopying(r, refusal) /\ q.recovery # None /\ Unbound(r) /\ Live(r) ->
                 NextAttempt(r, [q EXCEPT !.attempted = @ \cup {q.recovery}, !.err = err])
            [] OTHER -> Local(r, After("failed", err))
  /\ UNCHANGED <<stream, lease, source, copies, accounts>>

(* Where an attempt goes on with these files to copy: inline media are sent *)
(* along on Build and uploaded on Playground.                               *)
Prepares(r, left, channel) ==
  IF left # {} THEN "copy"
  ELSE IF scene.ask[r].inline /\ channel # "build" THEN "upload" ELSE "generate"

(* A lease with a running worker: promote starts one where there is none,   *)
(* in place of one that failed, and none before a failed close is repeated. *)
Acquire(r) ==
  /\ req[r].at = "select" /\ Live(r) /\ ~Conflict(r)
  /\ \E p \in Outlets(r) :
       LET a == p[1]
           foreign == {i \in DOMAIN scene.ask[r].files : scene.ask[r].files[i] # a}
           gen == IF worker[a] = "failed" THEN generation[a] + 1 ELSE generation[a]
       IN /\ HasSlot(a) /\ worker[a] # "closing"
          /\ lease' = [lease EXCEPT ![r] = a]
          /\ worker' = [worker EXCEPT ![a] = "ok"]
          /\ unfit' = [unfit EXCEPT ![a] = IF worker[a] = "ok" THEN @ ELSE FALSE]
          /\ generation' = [generation EXCEPT ![a] = gen]
          /\ Local(r, [req[r] EXCEPT
               !.at = Prepares(r, foreign, p[2]), !.left = foreign,
               !.account = a, !.channel = p[2], !.gen = gen, !.err = None,
               !.recovery = None, !.attempted = @ \cup {a}, !.checked = FALSE])
  /\ UNCHANGED <<stream, source, copies, state, login, cooling, upsets, scene>>

(* A request that waits for rebalanceMu, for a startupMu or, in the access  *)
(* log, for manager.mu.RLock does not look at its context, and waits for    *)
(* ever once these are locked for ever (WorkerPool!NoLockCycle and          *)
(* ServiceLifecycle!NoReaderBehindWriter are violated).  It keeps what it   *)
(* holds.                                                                   *)
Blocks(r) ==
  /\ "blocked" \in scene.ask[r].mishaps
  /\ \/ /\ req[r].at = "select" /\ Live(r) /\ ~Conflict(r)
        /\ \E p \in Outlets(r) : HasSlot(p[1]) /\ lease' = [lease EXCEPT ![r] = p[1]]
     \/ req[r].at \in {"copy", "upload", "generate", "failed", "forward"} /\ lease' = lease
  /\ Local(r, [Unstarted EXCEPT !.at = "blocked", !.checked = req[r].checked])
  /\ UNCHANGED <<stream, source, copies, accounts>>

FailsUncleaned(r, cause, files) ==
  /\ copies' = [copies EXCEPT ![r] = files]
  /\ Local(r, [req[r] EXCEPT
       !.at = "settle",
       !.cause = cause, !.left = {},
       !.err = IF cause = "fatal" /\ ~Live(r) THEN stream[r].ctx ELSE "failed"])

(* The attempt has failed with these temporary files in being: they are     *)
(* deleted while it still holds its lease.                                  *)
Fails(r, cause, files) ==
  /\ copies' = [copies EXCEPT ![r] = files]
  /\ Local(r, [req[r] EXCEPT
       !.at = IF files = {} THEN "settle" ELSE "cleanup",
       !.cause = cause, !.left = {},
       !.err = IF cause = "fatal" /\ ~Live(r) THEN stream[r].ctx ELSE "failed"])

(* What a call may fail with, kinds of causes or the end of its context.    *)
Faults(r, kinds) ==
  (scene.ask[r].causes \cap kinds) \cup (IF Live(r) THEN {} ELSE {"fatal"})

DriveFaults(r) ==
  Faults(r, {"server", "fatal"} \cup {c \in {"auth"} : ~login[lease[r]]})

-----------------------------------------------------------------------------
(* CopyFileReferencesToLease and UploadInlineMediaToLease.                  *)

(* The next of the files whose owner is another account, and that owner.    *)
NextFiles(r) == {i \in req[r].left : \A j \in req[r].left : i <= j}
Owners(r) == {scene.ask[r].files[i] : i \in NextFiles(r)}

(* DownloadFile's AcquireFor: the owner's slot besides the attempt's own.   *)
HoldOwner(r) ==
  /\ req[r].at = "copy"
  /\ \E owner \in Owners(r) :
       /\ state[owner] = "ready" /\ HasSlot(owner)
       /\ source' = [source EXCEPT ![r] = owner]
  /\ Local(r, [req[r] EXCEPT !.at = "fetch"])
  /\ UNCHANGED <<stream, lease, copies, accounts>>

OwnerRefusedReady(r) ==
  /\ req[r].at = "copy"
  /\ \E owner \in Owners(r) : state[owner] # "ready"
  /\ Fails(r, "fatal", copies[r])
  /\ UNCHANGED <<stream, lease, source, accounts>>

OwnerRefused(r) ==
  /\ req[r].at = "copy"
  /\ ~Live(r) \/ \E owner \in Owners(r) : state[owner] # "ready"
  /\ Fails(r, "fatal", copies[r])
  /\ UNCHANGED <<stream, lease, source, accounts>>

(* A temporary file, known by its account and by the files still to copy.   *)
Temporary(r) == <<lease[r], req[r].left>>

(* A call that succeeds may lift a global cooldown: one no newer than its   *)
(* lease.                                                                   *)
Lifts(used) ==
  \E older \in SUBSET used :
    cooling' = [a \in Accounts |-> IF a \in older THEN cooling[a] \ {"global"} ELSE cooling[a]]

(* The file is read from its owner and written to the leased account; both  *)
(* calls show that the login of their account is valid.                     *)
Fetch(r) ==
  /\ req[r].at = "fetch" /\ Live(r) /\ login[source[r]] /\ login[lease[r]]
  /\ copies' = [copies EXCEPT ![r] = @ \cup {Temporary(r)}]
  /\ source' = [source EXCEPT ![r] = None]
  /\ Lifts({source[r], lease[r]})
  /\ LET left == req[r].left \ NextFiles(r) IN
       Local(r, [req[r] EXCEPT !.at = Prepares(r, left, req[r].channel),
                               !.left = left, !.checked = TRUE])
  /\ UNCHANGED <<stream, lease, state, login, worker, unfit, generation, upsets, scene>>

SignedOut(a) ==
  state' = [state EXCEPT ![a] = IF @ = "off" THEN @ ELSE "auth"]

(* The account has another login, or the model another catalog entry or a   *)
(* newer result, than when the lease began: a mark is passed over.          *)
Overtaken(r) == "overtaken" \in scene.ask[r].mishaps

(* An answer 401 on the leased account counts unless a check under the same *)
(* or a later lease has found the login valid, or the login is another one. *)
(* (markAuthenticationStateAt writes no file, and cannot fail.)             *)
MarksAuthentication(r, cause) ==
  LET a == lease[r] IN
  IF cause # "auth" \/ req[r].checked THEN state' = state
  ELSE \/ SignedOut(a)
       \/ /\ state' = state
          /\ \/ \E q \in Requests \ {r} : lease[q] = a /\ req[q].checked
             \/ Overtaken(r)

(* The owner answers 401: DownloadFile marks it and returns the error.      *)
FetchUnauthorized(r) ==
  /\ req[r].at = "fetch" /\ "auth" \in scene.ask[r].causes /\ ~login[source[r]]
  /\ SignedOut(source[r])
  /\ source' = [source EXCEPT ![r] = None]
  /\ Fails(r, "auth", copies[r])
  /\ UNCHANGED <<stream, lease, login, cooling, worker, unfit, generation, upsets, scene>>

FetchFailsHolding(r) ==
  /\ req[r].at = "fetch"
  /\ \E cause \in DriveFaults(r), written \in SUBSET {Temporary(r)} :
       Fails(r, cause, copies[r] \cup written) /\ MarksAuthentication(r, cause)
  /\ UNCHANGED <<stream, lease, source, login, cooling, worker, unfit, generation, upsets, scene>>

(* A file that is written but cannot be bound is a temporary file too.      *)
FetchFails(r) ==
  /\ req[r].at = "fetch"
  /\ \E cause \in DriveFaults(r), written \in SUBSET {Temporary(r)} :
       Fails(r, cause, copies[r] \cup written) /\ MarksAuthentication(r, cause)
  /\ source' = [source EXCEPT ![r] = None]
  /\ UNCHANGED <<stream, lease, login, cooling, worker, unfit, generation, upsets, scene>>

(* Without Drive authorization the media stay inline.                       *)
Upload(r) ==
  /\ req[r].at = "upload" /\ Live(r)
  /\ \E written \in SUBSET {Temporary(r)} :
       /\ written # {} => login[lease[r]]
       /\ copies' = [copies EXCEPT ![r] = @ \cup written]
       /\ IF written = {} THEN cooling' = cooling ELSE Lifts({lease[r]})
       /\ Local(r, [req[r] EXCEPT !.at = "generate", !.checked = @ \/ written # {}])
  /\ UNCHANGED <<stream, lease, source, state, login, worker, unfit, generation, upsets, scene>>

UploadFails(r) ==
  /\ req[r].at = "upload"
  /\ \E cause \in DriveFaults(r), written \in SUBSET {Temporary(r)} :
       Fails(r, cause, copies[r] \cup written) /\ MarksAuthentication(r, cause)
  /\ UNCHANGED <<stream, lease, source, login, cooling, worker, unfit, generation, upsets, scene>>

-----------------------------------------------------------------------------
(* The call itself, up to its first event.  What a call returns when its    *)
(* context is just done is as if it had returned before.                    *)

FirstEvent(r) ==
  /\ req[r].at = "generate" /\ Live(r)
  /\ login[lease[r]] /\ generation[lease[r]] = req[r].gen /\ worker[lease[r]] = "ok"
  /\ Local(r, After("forward", None))
  /\ UNCHANGED <<stream, lease, source, copies, accounts>>

(* Which failures a call can meet: 401 only from a login that is not        *)
(* accepted, the worker's own only if it fails now or was replaced.         *)
Possible(r, cause) ==
  LET a == lease[r] IN
  CASE cause = "auth" -> ~login[a]
    [] cause = "replaced" -> generation[a] # req[r].gen \/ worker[a] = "closed"
    [] cause \in {"worker", "waa"} ->
         /\ generation[a] = req[r].gen /\ worker[a] # "closed"
         /\ generation[a] < MaxGeneration \/ unfit[a]
    [] OTHER -> TRUE

GenerateFails(r) ==
  /\ req[r].at = "generate"
  /\ \E cause \in Faults(r, AllCauses) :
       /\ Possible(r, cause)
       /\ Fails(r, cause, copies[r])
       /\ worker' = IF cause = "worker" THEN [worker EXCEPT ![lease[r]] = "failed"] ELSE worker
       /\ unfit' = IF cause \in {"worker", "waa"} THEN [unfit EXCEPT ![lease[r]] = TRUE] ELSE unfit
  /\ UNCHANGED <<stream, lease, source, state, login, cooling, generation, upsets, scene>>

(* TemporaryFileCopies.Cleanup: under contexts of its own, once.  A file    *)
(* that cannot be deleted stays, and the error is joined or logged.         *)
Deletes(r) == copies' = [copies EXCEPT ![r] = {}]

Cleanup(r) ==
  /\ req[r].at = "cleanup"
  /\ Deletes(r)
  /\ Local(r, [req[r] EXCEPT !.at = "settle"])
  /\ UNCHANGED <<stream, lease, source, accounts>>

-----------------------------------------------------------------------------
(* What a failed attempt leaves: the marks on its account, the release of   *)
(* the lease, the recovery of the worker and the decision to go on.         *)

Scopes(r) ==
  CASE req[r].cause = "quota" -> {req[r].channel}
    [] req[r].cause = "globalQuota" -> {"global"}
    [] OTHER -> {}
MarkedCooling(r) == [cooling EXCEPT ![lease[r]] = @ \cup Scopes(r)]

(* After a limit of one channel, recorded or not, the same account is tried *)
(* once more if any channel of it is open.                                  *)
ChannelOpen(r) ==
  /\ req[r].cause = "quota" /\ state[lease[r]] # "off"
  /\ \E c \in IF scene.ask[r].files # <<>> THEN Channels \cap {"playground"} ELSE Channels :
       {"global", c} \cap cooling'[lease[r]] = {}

Settled(r, unwritten) ==
  LET q == req[r]
      failed == worker[lease[r]] = "failed"
      retried == ChannelOpen(r) /\ ~unwritten
  IN [q EXCEPT
        !.at = "recover",
        !.retryable = /\ ~unwritten
                      /\ \/ q.cause \in {"auth", "quota", "globalQuota", "server", "waa"}
                         \/ (failed \/ q.cause = "replaced") /\ Live(r),
        !.needs = failed \/ q.cause \in {"replaced", "waa"},
        !.reset = failed \/ q.cause = "waa",
        !.attempted = IF retried THEN @ \ {lease[r]} ELSE @,
        !.tries = IF retried THEN @ + 1 ELSE @,
        !.cause = None, !.checked = FALSE, !.channel = None]

(* A limit whose mark cannot be written is the end of the request.          *)
Settle(r) ==
  /\ req[r].at = "settle"
  /\ MarksAuthentication(r, req[r].cause)
  /\ \E unwritten, released \in BOOLEAN :
       /\ unwritten => "mark" \in scene.ask[r].mishaps /\ Scopes(r) # {}
       /\ ~released => "release" \in scene.ask[r].mishaps
       /\ \/ ~unwritten /\ cooling' = MarkedCooling(r)
          \/ (unwritten \/ Overtaken(r)) /\ cooling' = cooling
       /\ Local(r, IF released THEN Settled(r, unwritten) ELSE After("failed", req[r].err))
  /\ lease' = [lease EXCEPT ![r] = None]
  /\ UNCHANGED <<stream, source, copies, login, worker, unfit, generation, upsets, scene>>

Decided(q, recovered) ==
  [q EXCEPT !.recovery = IF recovered /\ q.retryable THEN q.account ELSE None,
            !.attempted = IF recovered /\ q.retryable THEN @ \ {q.account} ELSE @,
            !.recovered = IF recovered THEN @ \cup {q.account} ELSE @,
            !.tries = IF recovered /\ q.retryable THEN @ + 1 ELSE @,
            !.account = None, !.gen = 0, !.needs = FALSE, !.reset = FALSE]

Decide(r, q) ==
  Local(r, IF q.retryable /\ q.tries > 1
             THEN [q EXCEPT !.at = "select", !.tries = @ - 1, !.retryable = FALSE]
             ELSE After("failed", q.err))

(* recoverWorkerOnce, up to the wait of ResetIfGeneration.                  *)
Recover(r) ==
  LET q == req[r]
      changed == generation[q.account] # q.gen
      again == q.account \in q.recovered
  IN /\ q.at = "recover"
     /\ IF Live(r) /\ ~again /\ ~changed /\ q.needs /\ q.reset
          THEN Local(r, [q EXCEPT !.at = "resetting"])
          ELSE Decide(r, Decided(q, Live(r) /\ ~again /\ (changed \/ q.needs)))
     /\ UNCHANGED <<stream, lease, source, copies, accounts>>

(* closeAccountWorker.                                                      *)
Closes(a) ==
  /\ worker' = [worker EXCEPT ![a] = "closed"]
  /\ unfit' = [unfit EXCEPT ![a] = FALSE]
  /\ generation' = [generation EXCEPT ![a] = IF worker[a] = "closed" THEN @ ELSE @ + 1]

ResetsAnyGeneration(r) == Closes(req[r].account)

(* The reset finds the worker it is about, a later one, or none.            *)
Resets(r) ==
  LET a == req[r].account IN
  IF generation[a] = req[r].gen THEN Closes(a) ELSE UNCHANGED <<worker, unfit, generation>>

ResetWorker(r) ==
  /\ req[r].at = "resetting" /\ Live(r) /\ Holders(req[r].account) = 0
  /\ Resets(r)
  /\ Decide(r, Decided(req[r], TRUE))
  /\ UNCHANGED <<stream, lease, source, copies, state, login, cooling, upsets, scene>>

(* The context ends before the account is idle; the worker cannot be        *)
(* closed, and nobody uses it any more; or the exclusive lease cannot be    *)
(* released.                                                                *)
ResetFails(r) ==
  /\ req[r].at = "resetting"
  /\ LET a == req[r].account IN
     \/ ~Live(r) /\ UNCHANGED <<worker, unfit, generation>>
     \/ /\ "close" \in scene.ask[r].mishaps /\ Holders(a) = 0
        /\ generation[a] = req[r].gen /\ worker[a] # "closed"
        /\ worker' = [worker EXCEPT ![a] = "closing"]
        /\ UNCHANGED <<unfit, generation>>
     \/ "release" \in scene.ask[r].mishaps /\ Holders(a) = 0 /\ Resets(r)
  /\ Decide(r, [Decided(req[r], FALSE) EXCEPT !.retryable = FALSE])
  /\ UNCHANGED <<stream, lease, source, copies, state, login, cooling, upsets, scene>>

-----------------------------------------------------------------------------
(* The end of a request that failed before its first event, and of one that *)
(* streams: forwardEvents.                                                  *)

Ending(r, changed) == stream' = [stream EXCEPT ![r] = changed]
Finishes(r) == Local(r, After("finished", None))

Fail(r) ==
  /\ req[r].at = "failed"
  /\ \E told \in {{}, {"error"}} :
       /\ told = {} => ~stream[r].client
       /\ Ending(r, [stream[r] EXCEPT
            !.result = IF req[r].err = "cancelled" THEN "cancelled" ELSE "failed",
            !.told = told])
  /\ Finishes(r)
  /\ UNCHANGED <<lease, source, copies, accounts>>

(* forwardEvents reads the account of a lease it does not have: the process *)
(* ends.                                                                    *)
Panic(r) ==
  /\ req[r].at = "forward" /\ lease[r] = None
  /\ req' = [q \in Requests |-> [Unstarted EXCEPT !.at = "dead"]]
  /\ lease' = [q \in Requests |-> None]
  /\ source' = [q \in Requests |-> None]
  /\ stream' = [q \in Requests |-> [stream[q] EXCEPT !.client = FALSE]]
  /\ UNCHANGED <<copies, accounts>>

Streaming(r) == req[r].at = "forward" /\ lease[r] # None
Moves(r, place) == Local(r, [req[r] EXCEPT !.at = place])
HasRoomForOneMore(r) == stream[r].backlog <= Buffer
HasRoom(r) == stream[r].backlog < Buffer
Closing(r) == IF copies[r] = {} THEN "releasing" ELSE "closing"

ForwardContent(r) ==
  /\ Streaming(r) /\ ~stream[r].terminal /\ HasRoom(r)
  /\ Ending(r, [stream[r] EXCEPT !.backlog = @ + 1])
  /\ UNCHANGED <<req, lease, source, copies, accounts>>

(* A terminal event is noted before it is sent; a 401 signs the account     *)
(* out.                                                                     *)
ForwardTerminal(r) ==
  /\ Streaming(r) /\ ~stream[r].terminal
  /\ \E result \in {"completed", "failed"} :
       /\ Ending(r, [stream[r] EXCEPT !.terminal = TRUE, !.result = result])
       /\ \/ state' = state
          \/ result = "failed" /\ ~login[lease[r]] /\ SignedOut(lease[r])
  /\ Moves(r, "sending")
  /\ UNCHANGED <<lease, source, copies, login, cooling, worker, unfit, generation, upsets, scene>>

Terminal(result) == IF result = "completed" THEN "finish" ELSE "error"

SendTerminal(r) ==
  /\ req[r].at = "sending" /\ HasRoom(r)
  /\ Ending(r, [stream[r] EXCEPT !.backlog = @ + 1, !.told = @ \cup {Terminal(stream[r].result)}])
  /\ Moves(r, "forward")
  /\ UNCHANGED <<lease, source, copies, accounts>>

(* finishFromContext: nothing is sent after a terminal event, nor to a      *)
(* client that is gone.                                                     *)
StopByContext(r) ==
  /\ Streaming(r) \/ req[r].at = "sending"
  /\ ~Live(r)
  /\ Ending(r, [stream[r] EXCEPT !.result = stream[r].ctx])
  /\ Moves(r, IF stream[r].terminal \/ ~stream[r].client THEN Closing(r) ELSE "telling")
  /\ UNCHANGED <<lease, source, copies, accounts>>

SourceClosesSilently(r) ==
  /\ Streaming(r) /\ Live(r)
  /\ Ending(r, [stream[r] EXCEPT !.result = IF stream[r].terminal THEN @ ELSE "failed"])
  /\ Moves(r, Closing(r))
  /\ UNCHANGED <<lease, source, copies, accounts>>

(* A stream that closes without a terminal event failed.                    *)
SourceCloses(r) ==
  /\ Streaming(r) /\ Live(r)
  /\ Ending(r, [stream[r] EXCEPT !.result = IF stream[r].terminal THEN @ ELSE "failed"])
  /\ Moves(r, IF stream[r].terminal THEN Closing(r) ELSE "telling")
  /\ UNCHANGED <<lease, source, copies, accounts>>

Tell(r) ==
  /\ req[r].at = "telling"
  /\ \/ HasRoom(r) /\ Ending(r, [stream[r] EXCEPT !.backlog = @ + 1, !.told = @ \cup {"error"}])
     \/ ~stream[r].client /\ stream' = stream
  /\ Moves(r, Closing(r))
  /\ UNCHANGED <<lease, source, copies, accounts>>

ClosingCleanup(r) ==
  /\ req[r].at = "closing"
  /\ Deletes(r)
  /\ Moves(r, "releasing")
  /\ UNCHANGED <<stream, lease, source, accounts>>

(* The lease is released, the registry told, and the stream closed.         *)
ClosingRelease(r) ==
  /\ req[r].at = "releasing"
  /\ lease' = [lease EXCEPT ![r] = None]
  /\ \/ /\ Ending(r, [stream[r] EXCEPT !.backlog = 0])
        /\ Finishes(r)
     \/ /\ "release" \in scene.ask[r].mishaps
        /\ Ending(r, [stream[r] EXCEPT !.result = "failed", !.unreleased = TRUE])
        /\ Moves(r, "reporting")
  /\ UNCHANGED <<source, copies, accounts>>

ReportRelease(r) ==
  /\ req[r].at = "reporting"
  /\ HasRoom(r) \/ ~stream[r].client
  /\ Ending(r, [stream[r] EXCEPT !.told = IF stream[r].client THEN @ \cup {"error"} ELSE @])
  /\ Finishes(r)
  /\ UNCHANGED <<lease, source, copies, accounts>>

(* The destination is closed; what was recorded of the request is dropped   *)
(* from the model.                                                          *)
Close(r) ==
  /\ req[r].at = "finished"
  /\ Moves(r, "ended")
  /\ Ending(r, Untouched)
  /\ UNCHANGED <<lease, source, copies, accounts>>

-----------------------------------------------------------------------------
(* The client, the contexts, and what happens to accounts meanwhile.        *)

(* Nothing the client or a context does matters while the request is being *)
(* closed.                                                                  *)
Served(r) ==
  req[r].at \notin {"idle", "blocked", "failed", "closing", "releasing", "finished", "ended", "dead"}

ClientReads(r) ==
  /\ Served(r) /\ stream[r].backlog > 0
  /\ Ending(r, [stream[r] EXCEPT !.backlog = @ - 1])
  /\ UNCHANGED <<req, lease, source, copies, accounts>>

ClientLeaves(r) ==
  /\ "gone" \in scene.ask[r].mishaps /\ Served(r) /\ stream[r].client
  /\ Ending(r, [stream[r] EXCEPT !.client = FALSE, !.ctx = IF @ = "live" THEN "cancelled" ELSE @])
  /\ UNCHANGED <<req, lease, source, copies, accounts>>

(* The timeout of dataRequestContext.                                       *)
TimesOut(r) ==
  /\ Served(r) /\ Live(r)
  /\ Ending(r, [stream[r] EXCEPT !.ctx = "failed"])
  /\ UNCHANGED <<req, lease, source, copies, accounts>>

(* An administrator cancels the request, or the service stops.              *)
IsCancelled(r) ==
  /\ "cancelled" \in scene.ask[r].mishaps /\ Served(r) /\ Live(r)
  /\ Ending(r, [stream[r] EXCEPT !.ctx = "cancelled"])
  /\ UNCHANGED <<req, lease, source, copies, accounts>>

Upset(a, kind) ==
  /\ kind \in scene.upsets[a] /\ upsets < MaxUpsets /\ upsets' = upsets + 1
  /\ \E r \in Requests : req[r].at \notin {"idle", "ended", "dead"}

LoginExpires(a) ==
  /\ Upset(a, "expired") /\ login[a]
  /\ login' = [login EXCEPT ![a] = FALSE]
  /\ UNCHANGED <<req, stream, lease, source, copies, scene>>
  /\ UNCHANGED <<state, cooling, worker, unfit, generation>>

(* UpdateAccount has the account to itself.                                 *)
Disable(a) ==
  /\ Upset(a, "disabled") /\ state[a] # "off" /\ Holders(a) = 0
  /\ state' = [state EXCEPT ![a] = "off"]
  /\ UNCHANGED <<req, stream, lease, source, copies, scene>>
  /\ UNCHANGED <<login, cooling, worker, unfit, generation>>

CooldownEnds(a) ==
  /\ Upset(a, "cooled")
  /\ \E scope \in cooling[a] : cooling' = [cooling EXCEPT ![a] = @ \ {scope}]
  /\ UNCHANGED <<req, stream, lease, source, copies, scene>>
  /\ UNCHANGED <<state, login, worker, unfit, generation>>

(* An auth renewal replaces the worker under the lease it goes by.          *)
Renewed(a) ==
  /\ Upset(a, "renewed") /\ Holders(a) > 0
  /\ worker[a] = "ok" /\ generation[a] < MaxGeneration
  /\ generation' = [generation EXCEPT ![a] = @ + 1]
  /\ unfit' = [unfit EXCEPT ![a] = FALSE]
  /\ UNCHANGED <<req, stream, lease, source, copies, scene>>
  /\ UNCHANGED <<state, login, cooling, worker>>

-----------------------------------------------------------------------------
Settling(r) ==
  \/ Cleanup(r) \/ Settle(r) \/ Recover(r) \/ ResetWorker(r) \/ ResetFails(r)

Copying(r) ==
  \/ HoldOwner(r) \/ OwnerRefused(r)
  \/ Fetch(r) \/ FetchUnauthorized(r) \/ FetchFails(r) \/ Upload(r) \/ UploadFails(r)

Streams(r) ==
  \/ ForwardContent(r) \/ ForwardTerminal(r) \/ SendTerminal(r) \/ StopByContext(r)
  \/ SourceCloses(r) \/ Tell(r)
  \/ ClosingCleanup(r) \/ ClosingRelease(r) \/ ReportRelease(r) \/ Close(r)

Runs(r) ==
  \/ AcquireFails(r) \/ Acquire(r) \/ Copying(r) \/ FirstEvent(r) \/ GenerateFails(r)
  \/ Settling(r) \/ Fail(r) \/ Panic(r) \/ Streams(r)

Next ==
  \/ \E r \in Requests : \/ Begin(r) \/ Runs(r) \/ Blocks(r) \/ ClientReads(r) \/ ClientLeaves(r)
                         \/ TimesOut(r) \/ IsCancelled(r)
  \/ \E a \in Accounts : LoginExpires(a) \/ Disable(a) \/ CooldownEnds(a) \/ Renewed(a)

Spec == Init /\ [][Next]_vars

(* A request times out, works itself out of whatever it does once its       *)
(* context is done, unless it blocks on a mutex (Blocks), sooner or later   *)
(* sees that beside the events it forwards (select chooses at random), and  *)
(* has a client that reads or leaves.  Upstream, other requests and the     *)
(* scheduler owe it nothing.                                                *)
Unwinds(r) == ~Live(r) /\ Runs(r)
Answers(r) ==
  /\ req[r].at \in {"failed", "telling", "closing", "releasing", "reporting", "finished"}
  /\ Runs(r)

FairSpec ==
  /\ Spec
  /\ \A r \in Requests :
       /\ WF_vars(TimesOut(r)) /\ WF_vars(Unwinds(r)) /\ WF_vars(StopByContext(r))
       /\ WF_vars(Answers(r)) /\ WF_vars(ClientReads(r))

-----------------------------------------------------------------------------
Phases ==
  {"idle", "select", "copy", "fetch", "upload", "generate", "cleanup", "settle", "recover",
   "resetting", "failed", "forward", "sending", "telling", "closing", "releasing",
   "reporting", "finished", "ended", "blocked", "dead"}

Attempt ==
  [at : Phases, tries : Nat, attempted : SUBSET Accounts, recovered : SUBSET Accounts,
   recovery : Accounts \cup {None}, copyFiles : BOOLEAN,
   err : {None, "failed", "cancelled", "noEligible", "cooling"},
   account : Accounts \cup {None}, channel : Channels \cup {None}, left : SUBSET Nat,
   gen : Nat, cause : AllCauses \cup {None}, checked : BOOLEAN, retryable : BOOLEAN,
   needs : BOOLEAN, reset : BOOLEAN]

Stream ==
  [backlog : 0 .. Buffer, terminal : BOOLEAN, told : SUBSET {"finish", "error"},
   client : BOOLEAN, ctx : {"live", "failed", "cancelled"},
   result : {None, "completed", "failed", "cancelled"}, unreleased : BOOLEAN]

TypeOK ==
  /\ req \in [Requests -> Attempt]
  /\ stream \in [Requests -> Stream]
  /\ lease \in [Requests -> Accounts \cup {None}]
  /\ source \in [Requests -> Accounts \cup {None}]
  /\ copies \in [Requests -> SUBSET (Accounts \X SUBSET Nat)]
  /\ state \in [Accounts -> {"ready", "auth", "off"}]
  /\ login \in [Accounts -> BOOLEAN]
  /\ cooling \in [Accounts -> SUBSET (Channels \cup {"global"})]
  /\ worker \in [Accounts -> {"ok", "failed", "closing", "closed"}]
  /\ unfit \in [Accounts -> BOOLEAN]
  /\ generation \in [Accounts -> Nat]
  /\ upsets \in 0 .. MaxUpsets
  /\ scene \in Scenes

(* Temporary files are deleted before their account is let go (upload.go:   *)
(* "deletes all temporary Drive copies before releasing the target account  *)
(* lease"): as long as one is left to delete, the request holds the lease   *)
(* of the account it lies on, on every way out of every attempt.            *)
CopiesUnderLease ==
  \A r \in Requests : req[r].at # "dead" => \A copy \in copies[r] : lease[r] = copy[1]

(* A request between two attempts and one that is over hold no slot of any  *)
(* account and leave no file to delete, and the slot of a file's owner is   *)
(* held only by an attempt with a lease.                                    *)
NothingKept ==
  \A r \in Requests :
    /\ req[r].at \in {"idle", "select", "recover", "resetting", "failed", "reporting",
                      "finished", "ended"} => lease[r] = None /\ copies[r] = {}
    /\ source[r] # None => req[r].at = "fetch" /\ lease[r] \notin {None, source[r]}

(* What the client heard and what the registry recorded agree when the      *)
(* stream is closed: something is recorded; a client that is there and      *)
(* whose request was not cut has heard how it ended; it hears of one end    *)
(* (of a second only when the release failed); and a request is recorded as *)
(* completed only if its finish was sent.                                   *)
AnswerGiven ==
  \A r \in Requests : req[r].at = "finished" =>
    /\ stream[r].result # None
    /\ stream[r].client /\ Live(r) => stream[r].told # {}
    /\ stream[r].told = {"finish", "error"} => stream[r].unreleased
    /\ stream[r].result = "completed" => stream[r].told = {"finish"}

(* A worker is reset only if it failed a request since it was started: of   *)
(* several requests that a worker failed, one closes it, and the others     *)
(* find it replaced or gone and replay on what there is.                    *)
HealthySpared ==
  [][\A a \in Accounts :
       worker[a] \in {"ok", "failed"} /\ worker'[a] \in {"closing", "closed"} => unfit[a]]_vars

(* Every request that is not blocked on a mutex ends, whatever upstream,    *)
(* the other requests and the scheduler do: even two requests that hold     *)
(* their accounts and want a slot of each other's to copy a file from it,   *)
(* and one that wants a slot which a blocked request never gives back.      *)
RequestsEnd ==
  \A r \in Requests : (req[r].at = "select") ~> (req[r].at \in {"ended", "blocked", "dead"})

(* generateWithRetry streams from an attempt (docs/build.md: files whose    *)
(* owner cannot be scheduled are copied to another account).                *)
StreamsUnderLease == \A r \in Requests : req[r].at = "forward" => lease[r] # None
=============================================================================
