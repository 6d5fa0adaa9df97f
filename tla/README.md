# Verification of AIStudio2API

TLA+ models of AIStudio2API's concurrent core, TLC runs on small instances, and
TLAPS proofs for every value of the constants. Every definition is translated
from the source; `PROJECT.json` names its lines (`map`). Paths below are
relative to the repository root.

## 1. Inventory

AIStudio2API serves OpenAI-, Anthropic- and Gemini-style APIs from browser
accounts of Google AI Studio. A request needs an account, a slot on it, and a
WAA worker: a Camoufox process on the account's profile that signs requests.

| component | state it keeps | operations | interacts with | hard behaviour | correct when |
|---|---|---|---|---|---|
| **Worker pool** `internal/app/runtime.go` `accountWorkerManager` | per account: worker, pending and cleanup processes, runtime leases, generation; `openings`, `victims`, `closed`; `rebalanceMu`, `startupMu`, `account.mu` | ensureWorker, startReservedWorker, activate/discard, evict, reap, prewarm, Reset, ResetIfGeneration, prepareUpdate, Remove, Close | account pool leases, browser processes, lease files, request service | launches last a minute without a lock; five operations may stop the same worker; closes fail | capacity holds; users are spared; a process is locked and owned as long as the manager knows it; Close leaves nothing |
| **Account pool, leases** `internal/aistudio/accounts.go` | `active`, `exclusive`, `exclusiveWaiters`, `authRefreshers`, the lease file | TryAcquireFor, AcquireAccount, Release, BeginAuthRefresh, Remove | other processes through the file lock | readers and one writer, across processes, with a renewal beside both | a writer is alone, waits finitely, the file is locked exactly while needed |
| **Account pool, runtime state** same file, `quota.go` | cooldowns, resource owners, model access and generations, a file per account | mark, clear, refresh, merge | other processes through the state file | late marks, merges, failing writes | newer knowledge is never undone by older |
| **Dispatch queue** `internal/app/dispatch.go` | FIFO of waiters per selection key, one-token wake channel each | join, leave, wakeHeads | acquireWarmLease, pool notifications | only heads are woken; signals coalesce | arrival order; no lost wakeup |
| **Request service** `runtime.go` `trackedService` | transition state, retry loop, model catalogue revision | Start, Stop, generateWithRetry, forwardEvents | all of the above | switching accounts, recovery, copying files, cancellation | each request answered once; each lease released once |
| **Lifecycle** `internal/app/lifecycle.go` `runtimeManager` | current generation, `startMu`, RWMutex, `startCancel` | StartService, StopService, Close | the service and pool of each generation | Stop during Start, long readers | one generation runs; a stopped start leaves nothing |
| **Auth renewal** `internal/app/auth_retry.go`, `bidi.go` | login storage, bidi release gate | Refresh, gate Commit/Abandon | shared leases, worker pool Reset | several 401s on one account | one renewal; lease released once |
| **Browser processes** `internal/camoufoxnative` | process, connection, profile cache lock | Start, abort, Close | worker pool | a close that fails half-way, unnoticed in an abort | no process without its lock, as far as closes succeed |
| **Protocol client, WebChannel, uploads** `internal/aistudio` | per request | RPCs, streams, copies | transports | reconnection, cleanup of copies | mostly data |
| **HTTP API, admin** `internal/api`, `internal/app/admin.go` | responses store, admin sessions, settings | handlers | lifecycle | mostly stateless conversion | data |
| **WAA runtime, chromeauth, config, setup, web** | none shared | start-up and computation | - | - | not modelled |

`PROJECT.json` lists every component with its status, and every hazard at its
line with the property that covers it, or a note saying why none does.

## 2. The modules

`WorkerSlot` is one `accountWorker` record as pure operators. Each function of
the code that rewrites the record under its mutexes (`closeAccountWorker`, the
launch, `activateAccountWorker`, `discardAccountWorker`) is an operator from a
slot to the *set* of slots it may leave, because closing a browser and unlocking
a lease file can fail and the error paths decide who keeps process and lease. A
failed launch may leave its browser running: `Worker.abort` and `launchBrowser`
drop the error of `process.Close`, and `startReservedWorker` releases the runtime
lease. `AbortLaunch` records such a browser as `stray`, to which nothing in the
program refers any more.

`WorkerPool` is the `accountWorkerManager` with the part of the account pool it
uses. A task is one goroutine; `pc` is the call it is about to make or blocked
in. `rebalance`, `startup`, `exclusive`, `waiters` and `sharers` are the locks
and leases held *across* steps. Sections under a lock nobody else can look into
are one step. `account.mu` is only held inside steps. What a task does:

| code | actions |
|---|---|
| `ensureWorker`, one pass of the outer loop under `rebalanceMu` | `EnsureCancelled/Opening/Resume/Refused/Ready/Slot/Swap/NoRoom` |
| `startReservedWorker`, without `rebalanceMu`, keeping `startupMu` | `StartRefused/Found/Launch`, `LaunchSucceeds`, `LaunchFails` |
| `ensureWorker` after the start, direct branch | `OpenFails`, `OpenCancelled`, `OpenSucceeds` |
| replacement branch, keeping `rebalanceMu` across `evictIdleWorker` | `SwapEvict` (the choice), `EvictAsks` (`AcquireAccount` counts its caller), `EvictAcquire/Late/Refused/Reset`, `SwapPublish`, `SwapDiscard` |
| `reapIdleWorker` | `BeginReap` (the choice), `EvictAsks`, `EvictAcquire`, `ReapReset`, `ReapGivesUp` |
| a request's use of its worker, 401, `recoverWorkerOnce` | `ServeEnds/Fails/Unauthorized`, `Reauthorize`, `RecoverReset` |
| `UpdateAccount` with `prepareUpdate`, Commit or Discard | `BeginUpdate`, `AcquireExclusive`, `UpdatePrepare`, `UpdateEnds` |
| `ResetAll`, `DeleteAccount`, `Close` | `BeginReset`, `Reset`, `BeginRemove` ... `RemoveClose`, `BeginClose`, `CloseOne`, `CloseEnds` |

`WorkerSlotProofs`, `WorkerPoolProofs` and `WorkerPoolLeaseProofs` hold the proofs, `MCWorkerPool` the
model values and the symmetry of the runs.

What `WorkerPool` abstracts: which idle worker is chosen (recency and cooldown only
rank), which model a request wants, times (a timeout is a step that may happen
whenever the code waits), and the redetection delay of a busy profile. A ready
worker is replaced when it started with another bootstrap model than the call has
read from the live catalog; with `ModelsChange`, any ready worker may be found so
(`Outdated`), without it none is. "serve" is a request whose account has a worker
or gets one by `Worker`; "promote" one that ensures its worker in
`acquireWarmLease` first and serves then.

`AccountLeases` is the life of *one* account in several processes that share the
account directory. `pool[p]` is process `p`'s `Account` object (its counters, its
`leaseLock`, its login generation); `file` is the flock on
`.leases/<email>.lock`, `directory` whether the account's files exist. A stretch
of code under `pool.mu` is one step. A task is a goroutine:

| code | actions |
|---|---|
| `tryAcquireLocked`, `refreshAndValidateLease`, `Release` | `TryAcquire`, `Validate`, `MarkStale`, `ReleaseShared` |
| `refreshSelectionRuntimes`, `SetCatalog` (a runtime state read without a lease) | `FindMissing`, `SetCatalog` |
| `BeginAuthRefresh`, `RefreshStorageState`, the deferred end | `BeginAuthRefresh`, `RefreshStorageState`, `RefreshCommits`, `EndAuthRefresh` |
| `AcquireAccount` and its deferred decrement | `Wait`, `GiveUp`, `WaitedInVain`, `AcquireExclusive`, `OpenExclusive`, `LeaveExclusive`, `ReleaseExclusive` |
| `Remove` with the file lock it takes outside `pool.mu` | `BeginRemove`, `RemoveLocks`, `RemoveDeletes`, `RemoveEnds` |
| `AccountStore.Create`, `AccountPool.Add`, `AccountPublishLease.Release` | `BeginAdd`, `Add`, `EndPublish` |
| a process that ends and restarts | `Crash` |
| the lock file: `TryLock`, an `Unlock` that may fail, the finalizer of the file | `TryLock`, `Unlock`, `Collect` |

Some tasks keep a pointer to an `Account` the pool has forgotten and perhaps
replaced; `orphans` records them. `RenewalOutlives` lets a renewal run in a
second goroutine of its request (the token count of a request with stop
sequences). `leaked` is a lock whose unlock has failed (`UnlockMayFail`): the
code has dropped its reference, and the file stays locked for every process
until the finalizer closes it or the process ends. Abstracted: which account a
request picks, cooldowns and channels, what the runtime state holds, and login
states other than "deleted".

`LeaseLock` is what the leases promise: a bounded group of readers of one
process, or one writer. `AccountLeases` implements it with `readers` and
`writers` read off the tasks' `pc` (`Lock`, `LeaseLockImplemented`): the
counters, the flock and the removal path together never admit a reader beside a
writer, a reader of a second process, or one above the account's limit.

`DispatchQueue` is the waiting inside `acquireWarmLease`: `Look` (classify and
try to lease), `Enter`, `Woken`, `Recheck`, `GiveUp`, `Return` (the deferred
`leave`) over `join`, `leave` and `wakeHeads`. Slots become free by `Release`,
which closes the pool's channel, and by `WorkerReady`, whose `notifyScheduling`
wakes the heads itself. `Fetch` and `Forward` are `forwardPoolChanges`; it holds
no channel between `wakeHeads` and the next `Changed()`, and `missed` records a
change of the pool in that gap. A waiter at capacity listens to `workersChanged` instead of its
own wake token (`runtime.go:3148`); the model gives it the token, which the same
`notifyScheduling` sets. Which worker gives the slot is abstracted, with
the start of a cold worker by the request itself (that is in `WorkerPool`).

`ServiceLifecycle` is the `runtimeManager` with the `trackedService` of each
generation. `manager.mu` is Go's RWMutex: `writer` is the task that has announced
itself in `Lock`, after which nobody may join `readers`. `gens` is a record per
launch: the fields of the `trackedService`, its contexts, whether it has workers.

| code | actions |
|---|---|
| `StartService` up to the launch | `BeginStart`, `LockStart`, `StartChecks`, then `Restart` (the same service again) or `Prepares`/`Refuses` |
| waiting for the stop of the old generation | `CleanStopped`, `CleanWaits`, `CleanLate` |
| `buildService`, the swap of `current` | `Build`, `Swap` |
| `trackedService.Start`, `finishLaunch`, its error paths | `LaunchNext/Warms/Fails/Detaches/Returns/Enables`, `Unlaunch` |
| `finishStart`, closing the replaced or rejected generation | `FinishStart`, `CloseOther` |
| `StopService`, `trackedService.Stop` | `BeginStop`, `StopReads`, `StopCancels`, `HaltStopped/Launching/Running` (under `lifecycleMu`), `CutLaunch`, `Cut` (the data context, after the unlock), `AwaitEnds`, `AwaitTimesOut`, `StopLate` |
| the goroutine `finishStop` | `FinishStopCancels`, `FinishStopResets` |
| a request: `withService`, the access log, `Generate`, the registry, the worker it opens | `Enter`, `LogAccess`, `Generate`, `Register`, `Select`, `LogSelection`, `OpenWorker`, `RecoverWorker`, `EndRequest` |
| `acquireWarmLease` with `expandInBackground`, whose start does not depend on the request | `Looks`, `Expands` |
| a data call that keeps the read lock until it returns | `CountTokens` |
| the end of the process | `BeginShutdown`, `CloseManager` |

Abstracted: configuration and catalog contents, why a launch or a warm-up fails,
and the worker pool behind a generation, of which only "has processes, or is about
to start one in the background" remains (`workers`). A request that has looked at
its context may ask for a background expansion after the `ResetAll` of a stop, whose
fresh context starts a worker in the stopped generation; `late` records it. An
error of the HTTP server itself also ends the process (`app.go:166`), with the root
context live; that way out is not modelled, the one after a signal is.

`GenerateRetry` is one request from its registration to the end of its stream,
with others that compete for the slots of the accounts. `req` is the local state
of `generateWithRetry`, `stream` what the client shares with it, `copies` the
temporary files still to be deleted.

| code | actions |
|---|---|
| `Generate`, the head of the retry loop, `acquireWarmLease` | `Begin`, `Acquire`, `AcquireFails` |
| `prepareFileReferences`: a slot of the owner, the fetch, the copy | `HoldOwner`, `OwnerRefused`, `Fetch`, `FetchUnauthorized`, `FetchFails`, `Upload`, `UploadFails` |
| the first event, or the failure of the attempt | `FirstEvent`, `GenerateFails` |
| after a failure: cleanup, marks, release, recovery of the worker | `Cleanup`, `Settle`, `Recover`, `ResetWorker`, `ResetFails` |
| no further attempt, or a panic | `Fail`, `Panic` |
| a wait for `rebalanceMu`, `startupMu` or `manager.mu` that never ends | `Blocks` |
| `forwardEvents` and its deferred calls, in their order | `ForwardContent`, `ForwardTerminal`, `SendTerminal`, `StopByContext`, `SourceCloses`, `Tell`, `ClosingCleanup`, `ClosingRelease`, `ReportRelease`, `Close` |
| the client, `REQUEST_TIMEOUT`, the request registry | `ClientReads`, `ClientLeaves`, `TimesOut`, `IsCancelled` |
| what happens to an account beside it | `LoginExpires`, `Disable`, `CooldownEnds`, `Renewed` |

`generation` is what `closeAccountWorker` and an activation in place count, so it
grows when a worker is closed; a close that fails leaves the worker `CLOSING` and
unusable. A mark comes too late (`Overtaken`) or cannot be written, which ends the
request. A `Scene` says what the clients ask for and which failures may meet them;
the module leaves it open, a run lists the combinations it explores.
Abstracted: contents, the order among accounts that would do, errors of
`ResourceIDForContents`, `PlaygroundOnly` for speech, stall logging, the return
of a state from "auth" to ready by a success, and files whose deletion failed.

`RuntimeState` is what is known of *one* account beside its login, in
`runtime-state.json` and in the memory of each process. A job is one use of a
lease with the transactions that follow from its outcome.

| code | actions |
|---|---|
| `TryAcquireFor`, `refreshAccountRuntime`, `refreshAndValidateLease`, `Release` | `Acquire`, `Refresh`, `RefreshFails`, `Check`, `Release` |
| `refreshSelectionRuntimes` (a reading without a lease) | `Reread` |
| a request finishes, meets a quota, fails; the catalog is read; a login | `EndsWith`, with the transactions of `Outcome` |
| the look at the memory that may save a mark its transaction | `Peeks` |
| `updateRuntimeContext` until the mutation, `writeRuntime`, what follows it | `Begin`, `Write`, `Apply`; `LockTimesOut`, `WriteFails` |
| the mutations | `Cooled`, `Cleared`, `Verified`, `Forgotten`, `WithCatalog`, chosen by `Result` |
| the world | `CatalogChanges`, `Restart`, `Tick` |

`modelAccessGeneration` is only compared with what a lease noted of it, so a job
keeps whether they are equal (`current`). `granted`, `under`, `overtaken`,
`newest` and `carried` observe: nothing reads them but properties (and `under`
the mark, as the entry the request was made with). Abstracted: other models,
resources and leases bound to them, and the wait for an exclusive lease.

## 3. The runs

| run | instance | asks |
|---|---|---|
| `pool_safety` | 2 accounts of 1 slot, 2 tasks, limit 2, all but promotion, any close or release may fail | `TypeOK`; a process the manager refers to runs under its profile's lock (`ProfileGuarded`) and has somebody to settle it (`NothingStranded`); a worker runs committed options (`WorkerConfigCurrent`); evictions, recoveries and updates spare users (`UsersSpared`) |
| `pool_capacity` | 2 accounts of 2 slots, 2 tasks, limit 1, promoting requests and Close, fair | `CapacityHeld`, `PeakHeld`, `NoLockCycle`; `ClosedMeansEmpty`; `RecoveryOnTarget`; `CancelledCallsReturn` |
| `pool_lock_cycle` | 4 accounts, limit 3, expansion | violates `NoLockCycle` (finding) |
| `lifecycle` | 2 administrators, of whom one ends the process, and a client; 3 generations, fair | `TypeOK`; one generation has workers (`OneGeneration`); a stop reaches what it stops (`RequestsCut`, `StopSticks`) and nothing else (`NoCollateral`); `ExitClean`; `CallsReturn`, `SupersededClosed` |
| `lifecycle_lock` | the same, 2 generations | violates `NoReaderBehindWriter` (finding) |
| `dispatch` | 3 requests of 2 kinds, up to 2 slots, fair | queues exact (`TypeOK`), `HeadHears`, `SlotUsed` |
| `leases` | 2 processes, 3 + 1 tasks, limit 2, 2 renewals, unlocks may fail | `TypeOK`, `LeaseFileExact`, `DirectoryKept`, `LeaseLockImplemented`, `RenewedOnce` |
| `leases_liveness` | 1 process, 3 tasks, limit 2, fair | `ExclusiveServed` |
| `leases_renewal_outlives` | 2 processes, 2 + 1 tasks, outliving renewals | violates `LeaseFileExact` (finding) |
| `retry` | 2 requests, 2 accounts of 1 slot, 4 scenes, fair | `TypeOK`; temporary files under their account's lease (`CopiesUnderLease`); no slot kept between attempts (`NothingKept`); one end, recorded and heard (`AnswerGiven`); `HealthySpared`; `RequestsEnd` |
| `retry_unleased` | the same | violates `StreamsUnderLease` (finding) |
| `runtime_state` | 3 jobs in 2 processes, 5 scenes, 2 catalogs, 2 times | `TypeOK`; no transaction is lost (`NoLostUpdate`); a mark counts for the entry it was made under (`VerifiedByEntry`); late results do not undo newer ones (`ResultsInOrder`); a cooling account is not leased (`CoolingRefused`) |

Bounds. `MaxSerial` caps the workers published per account and `MaxConfig` its
updates, both in guards; two publications are what a stale generation needs, and
`pool_capacity` has them: its requests enter as promotions and go on as serving
ones, two on one account as soon as they share it. `pool_safety` publishes one
worker per account, which a failed close, an outdated launch and a reset may each
meet, and lets the two tasks differ in operation rather than share an account.
`ModelsChange` is TRUE in both. `pool_safety` has limit 2 because a worker is only
reaped above `WARM_WORKER_LIMIT`, which is at least 1; openings and closing
workers count, so two accounts reach the limit and a replacement.
Two tasks make each pairwise race over a lock or a lease. For the leases,
two sharers and a waiter of one process beside a task of another are what
overtaking, joining and a deletion from outside need, and two renewals
(`MaxGeneration`) what a repeated one needs. For the queue: a head, its follower
and a head of another kind, with fewer slots (`Slots`) than requests.
Three generations let a launch replace one while the one before is still closing.
In `retry`, two requests with one slot per account meet each other at every
slot, two referenced files let a copy fail after another has succeeded, a buffer
of 1 (8 in the code) is full after one event, and `MaxGeneration` and
`MaxUpsets` allow one recovery and one change per account beside them; the scenes pair
each kind of failure with a second request it may disturb. In `runtime_state` each scene
pairs a late mark with a login, a cooldown or another reading of the catalog,
of its own process or the other; two lease times make results older and newer.
The catalogs differ in the model's entry, the tier stays.
`CHECK_DEADLOCK FALSE`: the
system may stop after Close or when all requests are served, and a bounded
instance when its bounds are used up. Symmetry is used in `pool_safety`, `leases` and `pool_lock_cycle`,
whose properties are invariants and step properties. `pool_safety` also has a `VIEW`,
`Distinguished` in `MCWorkerPool`: states that differ in what no guard and none
of its properties reads (the stray flag, the serial a task was given, the number of
a generation beyond its being the one a task has noted) count as one.

Fairness. In `WorkerPool`, `FairSpec` is strong fairness of each task's steps except `Begins` and
`Cancel`: goroutines keep being scheduled, launches end (they have a timeout),
and Go's mutexes (starvation mode) and the pool's waiter count keep a blocked
task from being overtaken for ever. Nothing makes a request, a cancellation or a
failure happen, so `CancelledCallsReturn` starts from a cancelled call.
For the dispatch queue: weak fairness of each request's steps, the one-second
recheck among them, and of the notifications. For the leases: weak fairness of the steps of a call under way; strong fairness
of releases, since a request renews a login finitely often and ends by its
timeout; and strong fairness of `AcquireExclusive`, since every release wakes all
waiters, who compete for `pool.mu`. `ExclusiveServed` assumes that other
processes are quiet (a flock is not fair) and that the account is not removed
and created for ever, and exempts a waiter that waited through a removal and a
re-creation: it is counted in the old `Account`, so that requests on the new one
may overtake it.
For the lifecycle: strong fairness of each task's steps (a launch and a warm-up
end by their timeouts, a request by its own, Go's mutexes are handed to whoever
waits longest) and weak fairness of `FinishStop`; nobody has to start, stop or
ask for anything. `CallsReturn` excepts `Wedged`, which is
the finding below. For the retry loop: the timeout strikes (`TimesOut`), what
ends by a cancelled context ends (`Unwinds`, `StopByContext`), the steps that
answer are taken (`Answers`) and a client that stays reads (`ClientReads`). No
attempt has to succeed, and the upstream, the other request and the scheduler owe
a request nothing. But its deadline alone is not enough: `ensureWorker` waits for
`rebalanceMu` and `startupMu`, and the access log for `manager.mu`, without looking
at the context, and the first two findings below lock these for ever. A request may
therefore block at each place that takes one of them (`Blocks`), keeping what it
holds; `RequestsEnd` excepts it, and shows that those who only wait for the slot
such a request keeps still end. `runtime_state` has
no liveness property; a transaction gives up when it cannot have the lock.

### Findings

* **Lock cycle** (`pool_lock_cycle`). A background expansion holds no lease on
  its account, so the account may be a replacement's victim and be re-opened at
  once. The eviction holds `rebalanceMu` and wants the victim's `startupMu`, the
  launch holds that and wants `rebalanceMu`.
* **Reader behind a writer** (`lifecycle_lock`). A data call holds `manager.mu`
  for reading and, to record its access, asks for it again. A start that has
  announced itself in between waits for the call, and the call for the start;
  every later call, Status and Stop included, waits behind them.
* **Lease file kept** (`leases_renewal_outlives`). `Release` leaves the unlock to nobody while a renewal's
  window is open: `BeginAuthRefresh`'s end never unlocks. A renewal started by
  the token count of a request with stop sequences outlives its request, and the
  account stays locked until the process ends. Without such renewals the file is
  exact (`leases`).
* **Stream without a lease** (`retry_unleased`). The pass that turns from the
  owner of a file to copying counts as an attempt. With one schedulable account
  it is the last: the loop ends with neither an error nor a lease, and
  `forwardEvents` dereferences the lease.

Seen beside the findings, each a note of a hazard in `PROJECT.json`:

* The overlap of the lock cycle also publishes one worker above the limit, and a
  launched replacement whose victim somebody else stopped waits for another
  victim although the pool has room. `CapacityHeld` is checked without expansion.
* A request that *joins* a lease whose first holder still validates it is not
  validated itself. When the first validation is cancelled, it goes on with an
  account that another process may have deleted: `DirectoryKept` does not speak
  of joined leases.
* `forwardPoolChanges` may miss a released lease, so `HeadHears` excepts
  `missed`; `SlotUsed` shows that the recheck timer makes up for it. Service is
  not in order of arrival: new requests look before they queue, and any waiter
  may recheck.
* A launch that fails may leave its browser running, with its lease released
  (`stray`), and a request cut by a stop may start a worker in the stopped pool by a
  background expansion (`late`), which lasts until that generation is closed or
  stopped once more. `ProfileGuarded`, `OneGeneration` and `ExitClean` except these.
* A 401 of the *owner* while its file is copied is blamed on the account of the
  attempt. An account that was already tried may be tried again while no
  request-wide list of accounts is set.
* A terminal event that waits for room when the context ends is not sent; and a
  client that neither reads nor leaves keeps its lease beyond `REQUEST_TIMEOUT`.
* `modelAccessGeneration` is in memory only, and `SetCatalog` compares a new
  catalog with the one its *own* process read last. So a late mark may be
  recorded after another process has forgotten the results (`overtaken`), and a
  mark may be kept for an entry that changed and changed back elsewhere
  (`carried`). Both properties of `RuntimeState` fail without these two
  exceptions and hold with them, which is the promise of docs/logging.md:248
  within one process.

## 4. The proofs

### The worker pool

Assumed: `FailureAssumption` and `PoolAssumption` (finite sets of accounts and
tasks, `None` in neither, positive limits). TLC evaluates both on every run.

`ProfileGuarded` and `NothingStranded` are not inductive: which close may release
a lease depends on who may still have a process pending, and that on who holds
which mutex at which pc. `IInv` adds exactly this: what a task at each pc owns
(`TaskInv`: a task between opening and end of its account is that account's
opener, a launching task holds its `startupMu`, a reaper has no account), the
converse from the account's side (`AccountInv`: a held `startupMu` or opening
names a task that is on this account and at a pc that will give it back; a
pending process is under a `startupMu` and the slot is guarded, `SlotGuard`), and
that every reserved victim has a task (`VictimInv`).

`WorkerSlotProofs` shows that each slot operator keeps `SlotGuard`
whatever fails inside it. `Frame` reduces a step of one task to four facts: the
others stay where they are, it took only free locks and gave back only its own,
and no pending process left its mutex. Each group of actions supplies these;
`Invariance`, `TypeCorrect`, `Guarded`, `NotStranded` follow. `Guarded` speaks of the
processes the manager refers to; a stray of a failed launch is outside it, and the
code gives no more: its runtime lease is released while it may run.

`WorkerPoolLeaseProofs` adds what the leases of the account pool protect.
`UseInv` says at which pc a task has a shared or the exclusive lease (`HeldInv`,
`LockInv`), that published and pending processes run the committed options and
that a slot's `generation` counts the workers that left it (`SlotInv`), that a
request noted its generation before its worker was published (`SeenInv`), and
that what `Close` has passed is empty (`ClosedInv`). `Moves` lists the only ways a
step may change a slot, `Uses` what it does to leases and notes. Then:

* `ConfigCurrent` and `UsersAreSpared`, without further hypotheses: an eviction,
  recovery or update holds the exclusive lease of what it closes, a user a shared
  one.
* `RecoveryHitsTarget`: of the workers of a slot only the one the request used
  was published after its note and before the next increment of `generation`, so
  a recovery that finds its generation closes that worker or none.
* `NoStray` assumes `~CloseMayFail`: then no launch leaves a stray, and `Guarded`
  covers every browser process there is.
* `NothingLeft` assumes `~CloseMayFail` and `~ReleaseMayFail`: a process that
  cannot be closed stays.
* `NoCycle` assumes that `Ops` has neither expansion nor prewarming, which open
  accounts without a lease of them: `pool_lock_cycle` refutes it otherwise.
* `CapacityIsHeld` and `PeakIsHeld` assume the same, for the same overlap
  publishes a worker above the limit; `PeakIsHeld` also assumes `~CloseMayFail`,
  since a replacement that is given up and cannot be closed stays, as
  `cleanupWorker`. TLC refutes either without its hypotheses.

For the last two, the limit itself is not inductive: a replacement is launched
before its victim is stopped, and somebody else may stop the victim first.
`RoomInv` counts *places* instead. An account has one if it has a worker or is
being opened after room was found (`Resides`), and a replacement has that of its
victim as soon as the victim is gone (`Inherits`). `Places` never outnumber
`MaxActive`. `Residing` and `Inheriting` show that a place is otherwise passed
on, by `PlacesPass` from each victim to one replacement, because `victims`
reserves each for one (`OneVictim`). A new place is taken under `rebalanceMu`,
where `ChargedSlots`, what the manager counts, covers all places there are
(`CountKept`); no worker comes back meanwhile, because what evicts is under
`rebalanceMu`, too (`PlaceInv`), and a removed account has no worker and is not
leased (`GoneInv`). The processes beside the workers are those of openings:
`PendingOpens`, `SwapsCounted`.

### The retry loop

Assumed: `RetryAssumption` (`None` is no account, request or outcome, scenes are of their
type, there is a slot and room in a channel). `IInv` is `TypeOK`, `Kept` and
`Blamed`. `Kept` says for each place of `generateWithRetry` and `forwardEvents`
whether the request holds its lease, an owner's slot and temporary files: of two
requests that do the same on the same account, only this tells whose files are
whose. `Blamed` says that an attempt remembers a worker
generation the account has had, that its worker is not closed as long as it is that
generation, and that a request on its way to a reset then finds a worker that has
failed a request; so the comparison in `ResetIfGeneration` spares a worker
that has replaced it. `FailedUnfit` is the same of the workers that broke by
themselves.

Each step belongs to one request or to one account. What it owes the others is
`OnlyOf` (their record, lease and files stay) and `Stays` (a worker changes for
the worse or gets a new generation), from which `OtherStays` keeps their part of
the invariant. `StepOf`, `WorkerStepOf` and `AccountStepOf` reduce an action to
these and to the new place of its own request; a lemma per action supplies them. `Inductive` collects them; `TypeCorrect`,
`CopiesAreUnderLease`, `NothingIsKept` and `HealthyIsSpared` follow, for any
number of requests and accounts and every scene. `AnswersAreGiven` adds `Said`: what
is recorded and told at each place of `forwardEvents`, where nothing refers to
the client or the context, so that these may change at any step.

### The runtime state

Assumed: `RuntimeAssumption` (the types of scenes and catalogs, `Free` is no job,
the clock may reach 1). `IInv` is `TypeOK` (with "a job is inside a transaction
exactly when it has the lock"), `NoLostUpdate`, and the types of the jobs. While a
job has computed what it will write, every step that could change what that was
computed from, the file, the remembered catalog or the generation of its
process, needs the lock or belongs to a process that ends; `NoUpdateIsLost`
follows.

`CoolingIsRefused` is an action property, and its invariant is about leases. `CInv` adds
that all leases are of one process (`OneProcess`), that a transaction which
goes on without a lease is a mark (`Fits`), and that a process between its
reading and its check, if it is the first there, remembers every cooldown of
the file at least as long as the file does (`Fresh`). The others can then only
lift cooldowns (`MarksLift`); a transaction of its own process may set
one, of which the memory learns with `Apply`. Hence the exception in the property.

`ResultsAreInOrder` is about leases, too. `OInv` says that the newest result of each
scope is no newer than a lease that still counts, or is the one the file has
(`InOrder`), which the mutations compare with; where one of them wipes the file's
check times, its job is about to end the generation of its own process (`Moving`),
and the leases of others are `overtaken`. A lease that counts was checked
under the entry its process still remembers (`Noted`), and a job that writes has
just read the file: hence `MarksFitCatalog`.

### The leases

Assumed: `LeaseAssumption`. `LeaseFileExact` speaks of counters and of a file, and
neither is inductive without the goroutines behind them. `IInv` counts these:
`active`, `waiters` and `refreshers` of an Account object are the cardinalities of
the sets of tasks at the respective labels (`CountsInv`), and `exclusive` is set
exactly while one task of the process is at a label that owns the account
(`OwnerInv`). `FileInv` relates each object with the flock: one that is `locked`
has it, and what else has it is a task that locked without the object (a removal, a
publication), of which there is at most one. `RenewInv` gives a renewing
task the object's `storageMu` and the login it was leased with.

A step of a task is described once (`Step`: the new object, label and renewal of
*this* task, and what it owes each conjunct), one lemma per conjunct carries it over
to the tasks beside it, and every action is shown to be a `Step`. From `IInv`:
`TypeCorrect`, `DirectoryHeld`, `RenewalOnce` and, with the tasks' labels as
readers and writers, the refinement `LeaseLockHeld`, without further hypotheses.
`FileExact` assumes `~RenewalOutlives`: the run `leases_renewal_outlives` refutes
it otherwise. Unlocks may fail in all of them: a leaked lock belongs to no lease,
and only keeps others from taking the file. The half that keeps processes apart, that nobody uses the
account without the lock file, is `UnderFile` and needs no hypothesis.

### The lifecycle

Assumed: `LifecycleAssumption`. `LockInv` says at which places a call holds
`startMu` and `manager.mu`, `StartInv` which generation a start is then about and
what it knows of it, `GenInv` how the fields of a `trackedService` fit together
(`Sound`), that every generation but the current one is at rest, and that a
launch under way has its task. `RequestInv` is what a stop owes to requests: when
a generation is launched again, every request admitted to it before has been
cancelled (`AllCut`); that is why a request with a live context can only be
one of the running generation, or of one that a Stop has marked stopped and is about
to cut (`Cut` follows the unlock of `lifecycleMu`). `StopInv` strengthens `StopSticks` to launches that
have not finished.

A step lies `Outside` a start, where generations only calm down (`Calms`), or
`Inside` one, where the task has `startMu` and answers for the current generation
alone; `StepKeeps` carries both over to the others. The goroutine `finishStop` has
a lemma of its own. `StoppedRequestsAreCut`, `LaunchStaysStopped` and
`StopSparesOthers` follow, whatever closes fail.

`GenerationsApart` and `NothingLeftBehind` assume `~ResetMayFail`, that closing
workers succeeds: a worker that cannot be closed stays, and the error may be
swallowed (hazard at `runtime.go:2331`). Both except workers of a `late` background
expansion; every other worker that a request, an expansion or a launch starts is
within their claim. Their invariant adds that a generation
at rest has no workers, and none has any after the end of the process; it rests
on `Tended`, the only way a step may change the workers of a generation.
`ReplacedClosed` needs no hypothesis: `ReplaceInv` says which generation the holder
of `startMu` has in its hand (`Hand`) at each place of `StartService`, and that
every other one that is not current is closed or was never built.

### The dispatch queue

Assumed: `DispatchAssumption`. `HeadHears` is inductive with two facts beside it:
queues hold each waiter once and only at the labels where it waits (in `TypeOK`),
and the free slots are those no request has (`SlotsInv`), so that a slot given
back is one that was taken. `Joined` and `Removed` say what `append` and
`slices.Delete` make of a queue without repetitions: who is in it, and when its
head changes, which is when a new waiter must be signalled. `HeadsAreTold` then is a case
per operation. That the signal is *used* (`SlotUsed`) is liveness.

### Model-checked only

Every invariant and step property that a passing run checks is a theorem, some
under the hypotheses named above. Liveness under fairness is beyond TLAPS and
left to the runs:
`CancelledCallsReturn`, `CallsReturn`, `SlotUsed`,
`ExclusiveServed`, `RequestsEnd`.

## 5. Plan, and what is not modelled

Done: the six modules of section 2 with the theorems of section 4. Left, in this order:

1. The binding of resources to accounts, with the leases it restricts.
2. The release gate of a bidi session (`auth_retry.go`, `bidi.go`).
3. Acknowledgement and reconnection of a WebChannel session.

Not planned: protocol conversion, platform cookie decryption, configuration
parsing and the web console are computation or I/O without shared state. The
vendored JavaScript engine (`internal/waa/goja`), more than half of the
implementation's lines, computes one value; no state of it outlives a call or is
shared between requests.
