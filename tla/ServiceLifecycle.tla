-------------------------- MODULE ServiceLifecycle --------------------------
(***************************************************************************)
(* Starting, stopping and using the generation service: runtimeManager      *)
(* (internal/app/lifecycle.go), which replaces one runtimeGeneration by the *)
(* next behind a readers-writer lock, and the trackedService of each        *)
(* generation (internal/app/runtime.go), whose launches and stops are       *)
(* transitions under lifecycleMu.                                           *)
(*                                                                         *)
(* manager.mu is Go's RWMutex: Lock announces the writer, after which no    *)
(* RLock succeeds, and waits for the readers there are.  Every request      *)
(* enters its generation under RLock and, for the access log, asks for a    *)
(* second RLock while it holds the first.                                   *)
(***************************************************************************)
EXTENDS Naturals, FiniteSets

CONSTANTS
  Tasks,            (* goroutines of HTTP handlers, and main               *)
  None,
  Ops,              (* per task: the operations it calls                   *)
  MaxGenerations,   (* bound: launches, the first generation included      *)
  ResetMayFail      (* closing the workers of a generation may fail        *)

ASSUME LifecycleAssumption ==
  /\ None \notin Tasks /\ IsFiniteSet(Tasks)
  /\ Ops \in [Tasks -> SUBSET {"start", "stop", "generate", "count", "shutdown"}]
  /\ MaxGenerations \in Nat \ {0}
  /\ ResetMayFail \in BOOLEAN

VARIABLES
  call,         (* per task: where its call is and what it has read        *)
  startMu,      (* the task holding manager.startMu                        *)
  writer,       (* the task that has announced itself in mu.Lock           *)
  readers,      (* the tasks holding mu.RLock                              *)
  startCancel,  (* the launch manager.startCancel belongs to, 0 for nil    *)
  current,      (* manager.current                                         *)
  gens,         (* the generations and the launches that create them       *)
  launches,     (* number of launches                                      *)
  registered,   (* tasks in the requestRegistry                            *)
  cancelled,    (* registered tasks whose cancel function was called       *)
  root          (* the process's context is live                           *)

manager == <<startMu, writer, readers, startCancel, current, launches, root>>
registry == <<registered, cancelled>>
vars == <<call, manager, gens, registry>>

Generations == 1 .. MaxGenerations

(* state, transition (transitionDone: nil, or closed at the end of a launch *)
(* or a stop), timedOut, failed (transitionErr is not nil): the fields of   *)
(* trackedService.  data: dataContext is neither nil nor cancelled itself;  *)
(* attached: Start's AfterFunc still ties it to the launch's context, whose *)
(* condition is launchCtx.  life: the generation's lifecycle is not         *)
(* cancelled.  cleanup: the step finishStop is at.  workers: some worker    *)
(* has a process, or a background expansion is about to start one; late     *)
(* records that one was asked for after the stopped pool had been reset.    *)
(* launchCtx records who cancelled it: a Stop ("stopped", or "outrun" when  *)
(* that Stop had read the generation before and the launch had already let  *)
(* go of its context) or finishStart ("done").                              *)
Absent ==
  [built |-> FALSE, state |-> "stopped", transition |-> "none",
   timedOut |-> FALSE, failed |-> FALSE, data |-> FALSE, attached |-> FALSE,
   launchCtx |-> "none", life |-> FALSE, cleanup |-> "none",
   workers |-> FALSE, late |-> FALSE, closed |-> FALSE]
Built(g) == [g EXCEPT !.built = TRUE, !.life = TRUE]

(* gen: the generation the call is about; old: the one a Start replaces;    *)
(* handle: the launch whose cancel function a Stop has read.                *)
Idle == [at |-> "idle", gen |-> 1, old |-> 1, handle |-> 0]

Init ==
  /\ call = [t \in Tasks |-> Idle]
  /\ startMu = None /\ writer = None /\ readers = {}
  /\ startCancel = 0 /\ current = 1 /\ launches = 1
  /\ gens = [g \in Generations |-> IF g = 1 THEN Built(Absent) ELSE Absent]
  /\ registered = {} /\ cancelled = {}
  /\ root = TRUE

-----------------------------------------------------------------------------
(* Contexts and locks.                                                      *)

DataLiveRootless(g) ==
  /\ gens[g].data /\ gens[g].life
  /\ gens[g].attached => gens[g].launchCtx = "live"

DataLive(g) ==
  /\ gens[g].data /\ gens[g].life /\ root
  /\ gens[g].attached => gens[g].launchCtx = "live"

Goes(t, place) == call' = [call EXCEPT ![t].at = place]
GoesFor(t, place, g) == call' = [call EXCEPT ![t].at = place, ![t].gen = g]
Returns(t) == call' = [call EXCEPT ![t] = Idle]

(* A step of t under mu.Lock, and one that takes and drops mu.RLock.        *)
Writes(t) == writer = t /\ readers = {}
Reads == writer = None

(* What ResetAll and closeRuntime leave of the workers: both begin by       *)
(* cancelling the background expansions there are.                          *)
Resets(g, failed) ==
  /\ failed \in BOOLEAN
  /\ failed => ResetMayFail /\ gens[g].workers
Emptied(g, failed) ==
  [g EXCEPT !.workers = @ /\ failed, !.late = @ /\ failed]

CancelAllAdmitted ==
  /\ cancelled' = cancelled \cup {t \in Tasks : call[t].at \in {"registering", "serving"}}
  /\ UNCHANGED registered

(* cancelAll: every registered request, of whatever generation.             *)
CancelAll == cancelled' = cancelled \cup registered /\ UNCHANGED registered

-----------------------------------------------------------------------------
(* runtimeManager.StartService.                                             *)

Preparing == {"starting", "lockCheck", "restart", "clean", "cleanWait", "cleanLate"}

BeginStart(t) ==
  /\ call[t].at = "idle" /\ "start" \in Ops[t] /\ root
  /\ launches + Cardinality({u \in Tasks : call[u].at \in Preparing}) < MaxGenerations
  /\ Goes(t, "starting")
  /\ UNCHANGED <<manager, gens, registry>>

LockStart(t) ==
  /\ call[t].at = "starting" /\ startMu = None
  /\ startMu' = t
  /\ Goes(t, "lockCheck")
  /\ UNCHANGED <<writer, readers, startCancel, current,
                 launches, root, gens, registry>>

Announce(t) ==
  /\ call[t].at \in {"lockCheck", "lockSwap", "lockFinish", "lockClose"}
  /\ writer = None
  /\ writer' = t
  /\ UNCHANGED <<call, startMu, readers, startCancel, current,
                 launches, root, gens, registry>>

(* The return of a StartService that holds manager.mu.                      *)
ReturnLocked(t) ==
  /\ writer' = None /\ startMu' = None
  /\ Returns(t)
  /\ UNCHANGED <<readers, startCancel, current, launches, root>>

StartChecks(t) ==
  /\ call[t].at = "lockCheck" /\ Writes(t)
  /\ GoesFor(t, IF gens[current].state = "stopped" THEN "clean" ELSE "restart", current)
  /\ UNCHANGED <<manager, gens, registry>>

(* trackedService.Start up to its launch, by a Start that holds the lock:   *)
(* the generation was not stopped when it looked.  Its context is then the  *)
(* caller's, whose end is one more reason for LaunchFails.                  *)
CanLaunch(g) == gens[g].state = "stopped" /\ gens[g].transition = "none"
Launched(g, attached) ==
  [g EXCEPT !.state = "launching", !.transition = "launch", !.data = TRUE,
            !.attached = attached, !.timedOut = FALSE, !.failed = FALSE, !.late = FALSE]

Restart(t) ==
  /\ call[t].at = "restart"
  /\ \/ ~CanLaunch(call[t].gen) /\ ReturnLocked(t) /\ UNCHANGED gens
     \/ /\ CanLaunch(call[t].gen)
        /\ gens' = [gens EXCEPT ![call[t].gen] =
                      [Launched(@, FALSE) EXCEPT !.launchCtx = "none"]]
        /\ Goes(t, "launching") /\ UNCHANGED manager
  /\ UNCHANGED registry

(* The end of the locked part: a new launch and its cancel function.        *)
Prepares(t) ==
  /\ launches' = launches + 1
  /\ startCancel' = launches + 1
  /\ call' = [call EXCEPT ![t].at = "build", ![t].gen = launches + 1,
                          ![t].old = call[t].gen]
  /\ writer' = None
  /\ UNCHANGED <<startMu, readers, current, root, registry>>

Refuses(t) == ReturnLocked(t) /\ UNCHANGED registry

(* trackedService.Stop of a stopped service, by which StartService first    *)
(* completes what an earlier stop or launch left: a transition is waited    *)
(* for, an error of one that timed out is reported, or the workers are      *)
(* reset once more.                                                         *)
Settled(g, failed) == [g EXCEPT !.failed = failed, !.timedOut = FALSE]
ResetStopped(g, failed) ==
  [Emptied(g, failed) EXCEPT !.failed = failed, !.timedOut = FALSE]

NewLaunch(f) == [f EXCEPT ![launches + 1].launchCtx = "live"]

CleanStoppedUnchecked(t) ==
  call[t].at = "clean" /\ Prepares(t) /\ gens' = NewLaunch(gens)

CleanStopped(t) ==
  /\ call[t].at = "clean"
  /\ LET g == call[t].gen IN
     \/ /\ gens[g].transition # "none"
        /\ Goes(t, "cleanWait")
        /\ UNCHANGED <<manager, gens, registry>>
     \/ /\ gens[g].transition = "none" /\ gens[g].timedOut
        /\ LET after == [gens EXCEPT ![g] = Settled(@, FALSE)] IN
           IF gens[g].failed THEN Refuses(t) /\ gens' = after
                             ELSE Prepares(t) /\ gens' = NewLaunch(after)
     \/ /\ gens[g].transition = "none" /\ ~gens[g].timedOut
        /\ \E failed \in BOOLEAN :
             /\ Resets(g, failed)
             /\ LET after == [gens EXCEPT ![g] = ResetStopped(@, failed)] IN
                IF failed THEN Refuses(t) /\ gens' = after
                          ELSE Prepares(t) /\ gens' = NewLaunch(after)

(* The wait ends with the transition or after 12 s.                         *)
CleanWaits(t) ==
  /\ call[t].at = "cleanWait"
  /\ LET g == call[t].gen after == [gens EXCEPT ![g] = Settled(@, FALSE)] IN
     \/ /\ gens[g].transition = "none"
        /\ IF gens[g].failed THEN Refuses(t) /\ gens' = after
                             ELSE Prepares(t) /\ gens' = NewLaunch(after)
     \/ /\ gens[g].transition # "none"
        /\ Goes(t, "cleanLate")
        /\ UNCHANGED <<manager, gens, registry>>
CleanLateGoesOn(t) ==
  call[t].at = "cleanLate" /\ Prepares(t) /\ gens' = NewLaunch(gens)

CleanLate(t) ==
  /\ call[t].at = "cleanLate"
  /\ gens' = [gens EXCEPT ![call[t].gen].timedOut = TRUE]
  /\ Refuses(t)

(* config.Load, Validate and the factory, without the lock; a launch that   *)
(* was cancelled meanwhile is given up.                                     *)
Build(t) ==
  /\ call[t].at = "build"
  /\ \/ /\ gens' = [gens EXCEPT ![call[t].gen] = Built(@)]
        /\ Goes(t, IF gens[call[t].gen].launchCtx = "live" /\ root
                      THEN "lockSwap" ELSE "lockFinish")
     \/ Goes(t, "lockFinish") /\ UNCHANGED gens
  /\ UNCHANGED <<manager, registry>>

Swap(t) ==
  /\ call[t].at = "lockSwap" /\ Writes(t)
  /\ current' = call[t].gen
  /\ writer' = None
  /\ Goes(t, "launch")
  /\ UNCHANGED <<startMu, readers, startCancel, launches,
                 root, gens, registry>>

LaunchNext(t) ==
  /\ call[t].at = "launch"
  /\ LET retired == [gens EXCEPT ![call[t].old].life = FALSE] IN
     gens' = [retired EXCEPT ![call[t].gen] = Launched(@, TRUE)]
  /\ Goes(t, "launching")
  /\ UNCHANGED <<manager, registry>>

-----------------------------------------------------------------------------
(* trackedService.Start: the launch.                                        *)

LaunchWarms(t) ==
  /\ call[t].at = "launching" /\ DataLive(call[t].gen) /\ ~gens[call[t].gen].workers
  /\ gens' = [gens EXCEPT ![call[t].gen].workers = TRUE]
  /\ UNCHANGED <<call, manager, registry>>

(* No account, no model, no worker, or a cancelled context: finishLaunch    *)
(* begins.                                                                  *)
LaunchFails(t) ==
  /\ call[t].at \in {"launching", "enabling"}
  /\ gens' = [gens EXCEPT ![call[t].gen].data = FALSE]
  /\ Goes(t, "unlaunch")
  /\ UNCHANGED <<manager, registry>>

LaunchDetachesAnyway(t) ==
  /\ call[t].at = "launching" /\ gens[call[t].gen].workers
  /\ gens' = [gens EXCEPT ![call[t].gen].attached = FALSE]
  /\ Goes(t, "enabling")
  /\ UNCHANGED <<manager, registry>>

(* The first worker is ready, and stopCaller finds the launch's context     *)
(* uncancelled: from here on only Stop can end the service.                 *)
LaunchDetaches(t) ==
  /\ call[t].at = "launching" /\ DataLive(call[t].gen) /\ gens[call[t].gen].workers
  /\ gens' = [gens EXCEPT ![call[t].gen].attached = FALSE]
  /\ Goes(t, "enabling")
  /\ UNCHANGED <<manager, registry>>

(* How a Start goes on when trackedService.Start has returned.              *)
LaunchReturns(t) ==
  IF writer = t THEN ReturnLocked(t)
  ELSE Goes(t, "lockFinish") /\ UNCHANGED manager

(* finishModelLaunch.                                                       *)
LaunchEnables(t) ==
  /\ call[t].at = "enabling"
  /\ gens[call[t].gen].state = "launching" /\ DataLive(call[t].gen)
  /\ gens' = [gens EXCEPT ![call[t].gen].state = "running", ![call[t].gen].transition = "none"]
  /\ LaunchReturns(t)
  /\ UNCHANGED registry

(* The end of finishLaunch.                                                 *)
Unlaunched(g, failed) ==
  [Emptied(g, failed) EXCEPT !.state = "stopped", !.transition = "none",
                             !.attached = FALSE, !.failed = failed]

Unlaunch(t) ==
  /\ call[t].at = "unlaunch"
  /\ \E failed \in BOOLEAN :
       /\ Resets(call[t].gen, failed)
       /\ gens' = [gens EXCEPT ![call[t].gen] = Unlaunched(@, failed)]
  /\ LaunchReturns(t)
  /\ UNCHANGED registry

FinishStart(t) ==
  /\ call[t].at = "lockFinish" /\ Writes(t)
  /\ startCancel' = 0
  /\ writer' = None
  /\ gens' = [gens EXCEPT ![call[t].gen].launchCtx = IF @ = "live" THEN "done" ELSE @]
  /\ Goes(t, "closing")
  /\ UNCHANGED <<startMu, readers, current, launches, root, registry>>

(* runtimeGeneration.Close.  (With its lifecycle cancelled nothing depends  *)
(* on the context of its launch any more.)                                  *)
Closed(g, failed) ==
  [Emptied(g, failed) EXCEPT !.life = FALSE, !.closed = TRUE, !.launchCtx = "none"]

CloseReplaced(t) ==
  /\ call[t].at = "closing"
  /\ \E failed \in BOOLEAN :
       /\ Resets(call[t].old, failed)
       /\ gens' = [gens EXCEPT ![call[t].old] = Closed(@, failed)]
  /\ startMu' = None
  /\ Returns(t)
  /\ UNCHANGED <<writer, readers, startCancel, current, launches, root, registry>>

(* The replaced generation is closed, or the new one that never replaced it.*)
CloseOther(t) ==
  /\ call[t].at = "closing"
  /\ LET g == IF current = call[t].gen THEN call[t].old ELSE call[t].gen IN
     \/ ~gens[g].built /\ UNCHANGED gens
     \/ /\ gens[g].built
        /\ \E failed \in BOOLEAN :
             Resets(g, failed) /\ gens' = [gens EXCEPT ![g] = Closed(@, failed)]
  /\ startMu' = None
  /\ Returns(t)
  /\ UNCHANGED <<writer, readers, startCancel, current,
                 launches, root, registry>>

-----------------------------------------------------------------------------
(* runtimeManager.StopService and trackedService.Stop.                      *)

BeginStop(t) ==
  /\ call[t].at = "idle" /\ "stop" \in Ops[t] /\ root
  /\ Goes(t, "stopping")
  /\ UNCHANGED <<manager, gens, registry>>

StopReads(t) ==
  /\ call[t].at = "stopping" /\ Reads
  /\ call' = [call EXCEPT ![t].at = "cancelling", ![t].gen = current,
                          ![t].handle = startCancel]
  /\ UNCHANGED <<manager, gens, registry>>

LetGo(g) == gens[g].state \in {"launching", "running"} /\ ~gens[g].attached

StopCancels(t) ==
  /\ call[t].at = "cancelling"
  /\ LET n == call[t].handle IN
     IF n = 0 THEN UNCHANGED gens
     ELSE gens' = [gens EXCEPT ![n].launchCtx =
            IF @ # "live" THEN @
            ELSE IF call[t].gen # n /\ LetGo(n) THEN "outrun" ELSE "stopped"]
  /\ call' = [call EXCEPT ![t].at = "halting", ![t].handle = 0]
  /\ UNCHANGED <<manager, registry>>

HaltStopped(t) ==
  /\ call[t].at = "halting" /\ gens[call[t].gen].state = "stopped"
  /\ LET g == call[t].gen IN
     \/ /\ gens[g].transition # "none"
        /\ Goes(t, "awaiting") /\ UNCHANGED gens
     \/ /\ gens[g].transition = "none" /\ gens[g].timedOut
        /\ gens' = [gens EXCEPT ![g] = Settled(@, FALSE)]
        /\ Returns(t)
     \/ /\ gens[g].transition = "none" /\ ~gens[g].timedOut
        /\ \E failed \in BOOLEAN :
             Resets(g, failed) /\ gens' = [gens EXCEPT ![g] = ResetStopped(@, failed)]
        /\ Returns(t)
  /\ UNCHANGED <<manager, registry>>

(* The stop is on record before the data context is cancelled: the cancel   *)
(* function is called after the unlock.  By then no other context of the    *)
(* generation has taken its place: a generation is launched again only      *)
(* after the end of a stop, which follows this call.                        *)
HaltLaunching(t) ==
  /\ call[t].at = "halting" /\ gens[call[t].gen].state = "launching"
  /\ gens' = [gens EXCEPT ![call[t].gen].state = "stopped"]
  /\ Goes(t, "cuttingLaunch")
  /\ UNCHANGED <<manager, registry>>

HaltRunning(t) ==
  /\ call[t].at = "halting" /\ gens[call[t].gen].state = "running"
  /\ gens' = [gens EXCEPT ![call[t].gen].state = "stopped", ![call[t].gen].transition = "stop"]
  /\ Goes(t, "cutting")
  /\ UNCHANGED <<manager, registry>>

CutLaunch(t) ==
  /\ call[t].at = "cuttingLaunch"
  /\ gens' = [gens EXCEPT ![call[t].gen].data = FALSE]
  /\ Goes(t, "awaitingLaunch")
  /\ UNCHANGED <<manager, registry>>

CutNothing(t) ==
  /\ call[t].at = "cutting"
  /\ gens' = [gens EXCEPT ![call[t].gen].cleanup = "cancel"]
  /\ Goes(t, "awaiting")
  /\ UNCHANGED <<manager, registry>>

(* dataCancel, and the goroutine of finishStop.                             *)
Cut(t) ==
  /\ call[t].at = "cutting"
  /\ gens' = [gens EXCEPT ![call[t].gen].data = FALSE, ![call[t].gen].cleanup = "cancel"]
  /\ Goes(t, "awaiting")
  /\ UNCHANGED <<manager, registry>>

(* waitServiceTransition: the transition ends, or 12 s pass and the result  *)
(* is kept for the next Stop.  A Stop that met a launch cancels every       *)
(* request after its wait.                                                  *)
AfterWait(t) ==
  IF call[t].at = "awaitingLaunch" THEN CancelAll ELSE UNCHANGED registry

AwaitEnds(t) ==
  /\ call[t].at \in {"awaiting", "awaitingLaunch"}
  /\ gens[call[t].gen].transition = "none"
  /\ gens' = [gens EXCEPT ![call[t].gen] = Settled(@, FALSE)]
  /\ AfterWait(t)
  /\ Returns(t)
  /\ UNCHANGED manager

AwaitTimesOut(t) ==
  /\ call[t].at \in {"awaiting", "awaitingLaunch"}
  /\ gens[call[t].gen].transition # "none"
  /\ AfterWait(t)
  /\ Goes(t, "late")
  /\ UNCHANGED <<manager, gens>>

StopLate(t) ==
  /\ call[t].at = "late"
  /\ gens' = [gens EXCEPT ![call[t].gen].timedOut = TRUE]
  /\ Returns(t)
  /\ UNCHANGED <<manager, registry>>

(* finishStop, in a goroutine of its own.                                   *)
FinishStopCancels(g) ==
  /\ gens[g].cleanup = "cancel"
  /\ gens' = [gens EXCEPT ![g].cleanup = "reset"]
  /\ CancelAll
  /\ UNCHANGED <<call, manager>>

CleanedUp(g, failed) ==
  [Emptied(g, failed) EXCEPT !.cleanup = "none", !.transition = "none", !.failed = failed]

FinishStopResets(g) ==
  /\ gens[g].cleanup = "reset"
  /\ \E failed \in BOOLEAN :
       /\ Resets(g, failed)
       /\ gens' = [gens EXCEPT ![g] = CleanedUp(@, failed)]
  /\ UNCHANGED <<call, manager, registry>>

-----------------------------------------------------------------------------
(* Requests.  Generate holds the read lock until its goroutine runs; the    *)
(* other calls, CountTokens here, hold it until they return.                *)

Enter(t) ==
  /\ call[t].at = "idle" /\ root /\ Reads
  /\ readers' = readers \cup {t}
  /\ \/ "generate" \in Ops[t] /\ GoesFor(t, "logging", current)
     \/ "count" \in Ops[t] /\ GoesFor(t, "admission", current)
  /\ UNCHANGED <<startMu, writer, startCancel, current, launches,
                 root, gens, registry>>

(* StartAccessLog: RecordAccessStart takes and drops mu.RLock again.        *)
LogAccess(t) ==
  /\ call[t].at = "logging" /\ Reads
  /\ Goes(t, "generating")
  /\ UNCHANGED <<manager, gens, registry>>

(* dataRequestContext; a refused request is registered and finished at once.*)
Admits(g) == gens[g].state = "running" /\ gens[g].data

Generate(t) ==
  /\ call[t].at = "generating"
  /\ \/ Admits(call[t].gen) /\ Goes(t, "registering") /\ UNCHANGED readers
     \/ ~Admits(call[t].gen) /\ Returns(t) /\ readers' = readers \ {t}
  /\ UNCHANGED <<startMu, writer, startCancel, current,
                 launches, root, gens, registry>>

Register(t) ==
  /\ call[t].at = "registering"
  /\ registered' = registered \cup {t}
  /\ readers' = readers \ {t}
  /\ Goes(t, "serving")
  /\ UNCHANGED <<startMu, writer, startCancel, current,
                 launches, root, gens, cancelled>>

CountKeepsLock(t) ==
  /\ call[t].at = "admission"
  /\ \/ Admits(call[t].gen) /\ Goes(t, "selecting")
     \/ ~Admits(call[t].gen) /\ Returns(t)
  /\ UNCHANGED <<manager, gens, registry>>

CountTokens(t) ==
  /\ call[t].at = "admission"
  /\ \/ Admits(call[t].gen) /\ Goes(t, "selecting") /\ UNCHANGED readers
     \/ ~Admits(call[t].gen) /\ Returns(t) /\ readers' = readers \ {t}
  /\ UNCHANGED <<startMu, writer, startCancel, current,
                 launches, root, gens, registry>>

(* The observer of the account selection starts the access log.             *)
Select(t) ==
  /\ call[t].at = "selecting"
  /\ Goes(t, "observing")
  /\ UNCHANGED <<manager, gens, registry>>

LogSelection(t) ==
  /\ call[t].at = "observing" /\ Reads
  /\ Goes(t, "counting")
  /\ UNCHANGED <<manager, gens, registry>>

(* A request may start a worker of its generation as long as its context    *)
(* lives.                                                                   *)
RequestLive(t) == DataLive(call[t].gen) /\ t \notin cancelled
OpenWorker(t) ==
  /\ call[t].at \in {"serving", "looking", "counting"} /\ RequestLive(t)
  /\ ~gens[call[t].gen].workers
  /\ gens' = [gens EXCEPT ![call[t].gen].workers = TRUE]
  /\ UNCHANGED <<call, manager, registry>>

(* A request that finds the worker failed has it reset before its next      *)
(* attempt, which may be the last worker there is.                          *)
RecoverWorker(t) ==
  /\ call[t].at \in {"serving", "looking", "counting"} /\ RequestLive(t)
  /\ gens[call[t].gen].workers
  /\ gens' = [gens EXCEPT ![call[t].gen].workers = FALSE]
  /\ UNCHANGED <<call, manager, registry>>

(* acquireWarmLease looks at the context of its request and then at the     *)
(* workers.                                                                 *)
Looks(t) ==
  /\ call[t].at = "serving" /\ RequestLive(t) /\ gens[call[t].gen].workers
  /\ Goes(t, "looking")
  /\ UNCHANGED <<manager, gens, registry>>

(* With no worker free it may have one more started in the background: a    *)
(* start that is not tied to the request any more.  Its context is          *)
(* manager.background, which the next ResetAll cancels and renews, and the  *)
(* Close of the pool cancels for good.  While the request lives workers is  *)
(* TRUE anyway; one that was cut after it had looked may still ask once,    *)
(* before it looks at its context again.                                    *)
AfterReset(g) == gens[g].state = "stopped" /\ gens[g].transition = "none"
Expands(t) ==
  /\ call[t].at = "looking" /\ ~RequestLive(t) /\ ~gens[call[t].gen].closed
  /\ gens' = [gens EXCEPT ![call[t].gen].workers = TRUE,
                          ![call[t].gen].late = @ \/ AfterReset(call[t].gen)]
  /\ Goes(t, "serving")
  /\ UNCHANGED <<manager, registry>>

EndRequest(t) ==
  /\ call[t].at \in {"serving", "looking", "selecting", "counting"}
  /\ registered' = registered \ {t}
  /\ cancelled' = cancelled \ {t}
  /\ readers' = readers \ {t}
  /\ Returns(t)
  /\ UNCHANGED <<startMu, writer, startCancel, current,
                 launches, root, gens>>

-----------------------------------------------------------------------------
(* The end of the process after a signal: its context is cancelled, the     *)
(* HTTP server is given 10 s, and main closes the current generation and    *)
(* returns.  (An error of the HTTP server itself comes to the same close    *)
(* with the context live; that way out is not modelled.)                    *)

BeginShutdown(t) ==
  /\ call[t].at = "idle" /\ "shutdown" \in Ops[t] /\ root
  /\ root' = FALSE
  /\ Goes(t, "lockClose")
  /\ UNCHANGED <<startMu, writer, readers, startCancel,
                 current, launches, gens, registry>>

CloseManager(t) ==
  /\ call[t].at = "lockClose" /\ Writes(t)
  /\ \E failed \in BOOLEAN :
       /\ Resets(current, failed)
       /\ gens' = [gens EXCEPT ![current] = Closed(@, failed)]
  /\ writer' = None
  /\ Returns(t)
  /\ UNCHANGED <<startMu, readers, startCancel, current,
                 launches, root, registry>>

-----------------------------------------------------------------------------

StartStep(t) ==
  \/ StartChecks(t) \/ Restart(t) \/ CleanStopped(t) \/ CleanWaits(t)
  \/ CleanLate(t) \/ Build(t) \/ Swap(t) \/ LaunchNext(t) \/ LaunchWarms(t)
  \/ LaunchFails(t) \/ LaunchDetaches(t) \/ LaunchEnables(t) \/ Unlaunch(t)
  \/ FinishStart(t) \/ CloseOther(t)
StopStep(t) ==
  \/ StopCancels(t) \/ HaltStopped(t) \/ HaltLaunching(t) \/ HaltRunning(t)
  \/ CutLaunch(t) \/ Cut(t)
  \/ AwaitEnds(t) \/ AwaitTimesOut(t) \/ StopLate(t)
RequestStep(t) ==
  Generate(t) \/ Register(t) \/ CountTokens(t) \/ Select(t) \/ EndRequest(t)
LockStep(t) ==
  LockStart(t) \/ Announce(t) \/ CloseManager(t)
  \/ StopReads(t) \/ LogAccess(t) \/ LogSelection(t)
Steps(t) == StartStep(t) \/ StopStep(t) \/ RequestStep(t) \/ LockStep(t)
FinishStop(g) == FinishStopCancels(g) \/ FinishStopResets(g)

Next ==
  \/ \E t \in Tasks :
       \/ BeginStart(t) \/ BeginStop(t) \/ Enter(t) \/ BeginShutdown(t)
       \/ Steps(t) \/ OpenWorker(t) \/ RecoverWorker(t)
       \/ Looks(t) \/ Expands(t)
  \/ \E g \in Generations : FinishStop(g)

Spec == Init /\ [][Next]_vars

(* Launches end, by their failure at the latest, and requests by their      *)
(* timeout; Go's mutexes are handed on to whoever has waited longest, so a  *)
(* call that again and again could have its lock gets it.                   *)
FairSpec ==
  /\ Spec
  /\ \A t \in Tasks : SF_vars(Steps(t))
  /\ \A g \in Generations : WF_vars(FinishStop(g))

-----------------------------------------------------------------------------
(* Properties.                                                              *)

TypeOK ==
  /\ call \in [Tasks ->
       [at : Preparing \cup {"idle", "build", "lockSwap", "launch", "launching",
               "enabling", "unlaunch", "lockFinish", "closing", "stopping",
               "cancelling", "halting", "cutting", "cuttingLaunch", "awaiting",
               "awaitingLaunch", "late",
               "logging", "generating", "registering", "serving", "looking", "admission",
               "selecting", "observing", "counting", "lockClose"},
        gen : Generations, old : Generations, handle : {0} \cup Generations]]
  /\ startMu \in Tasks \cup {None} /\ writer \in Tasks \cup {None}
  /\ readers \subseteq Tasks
  /\ startCancel \in {0} \cup Generations /\ current \in Generations
  /\ launches \in Generations
  /\ gens \in [Generations ->
       [built : BOOLEAN, state : {"stopped", "launching", "running"},
        transition : {"none", "launch", "stop"}, timedOut : BOOLEAN,
        failed : BOOLEAN, data : BOOLEAN, attached : BOOLEAN,
        launchCtx : {"none", "live", "stopped", "outrun", "done"},
        life : BOOLEAN, cleanup : {"none", "cancel", "reset"},
        workers : BOOLEAN, late : BOOLEAN, closed : BOOLEAN]]
  /\ registered \subseteq Tasks /\ cancelled \subseteq registered
  /\ root \in BOOLEAN

(* Two generations never have browser processes at a time: they would fight *)
(* for the same profiles and together exceed the limits of each.  (Except   *)
(* the workers of an expansion that a request, cut by the stop on the way   *)
(* to it, asked for after the stopped pool had been reset: only the close   *)
(* of that generation, or another stop of it, ends those.)                  *)
OneGeneration ==
  \A g, h \in Generations :
    gens[g].workers /\ gens[h].workers /\ ~gens[g].late /\ ~gens[h].late => g = h

(* A request whose context lives is working on the current generation, and  *)
(* that is running, or a Stop is just about to cut it: whatever stop        *)
(* overlaps with its admission cuts it.                                     *)
RequestsCut ==
  \A t \in Tasks :
    call[t].at \in {"serving", "looking", "selecting", "counting"} /\ RequestLive(t) =>
      /\ call[t].gen = current
      /\ \/ gens[current].state = "running"
         \/ \E u \in Tasks : call[u].at = "cutting" /\ call[u].gen = current

(* A launch that a Stop has cancelled before it let go of its context never *)
(* comes to serve, unless that Stop is just about to halt it.               *)
StopSticks ==
  \A g \in Generations :
    gens[g].state = "running" /\ gens[g].launchCtx = "stopped" =>
      \E t \in Tasks : call[t].at = "halting" /\ call[t].gen = g

(* A request that gets cancelled by a stop is one of a generation that is   *)
(* being stopped, never of its successor.  (A Stop that met a launch is the *)
(* exception: it cancels everything after its wait, whoever serves by then.)*)
NoCollateral ==
  [][\A t \in cancelled' \ cancelled :
       \/ gens[call[t].gen].state = "stopped"
       \/ \E u \in Tasks : call[u].at = "awaitingLaunch" /\ call'[u].at # "awaitingLaunch"]_vars

(* When main returns after a signal no browser process is left behind, and  *)
(* none comes up after it in a start that is under way, except one whose    *)
(* close failed and one of an expansion asked for after a stop.             *)
ExitClean ==
  ~root /\ (\A t \in Tasks : call[t].at # "lockClose") =>
    \A g \in Generations : gens[g].workers /\ ~gens[g].late => gens[g].closed /\ ResetMayFail

(* A reader that asks for the lock again behind a writer waits for the      *)
(* writer, which waits for the reader.                                      *)
Wedged == \E t \in readers : call[t].at \in {"logging", "observing"} /\ writer # None

(* While the service is stopped, started and used, the management calls and *)
(* requests go on: no reader of manager.mu meets a writer in its back.      *)
NoReaderBehindWriter == ~Wedged

(* Otherwise every call returns, whatever starts, stops and requests        *)
(* overlap with it.                                                         *)
CallsReturn ==
  \A t \in Tasks :
    call[t].at # "idle" ~> call[t].at = "idle" \/ Wedged

(* A generation that was replaced, or never came to be current, is closed   *)
(* or in the hands of the start that replaced or rejected it, which closes  *)
(* one generation before it returns: nobody else would ever close it.       *)
SupersededClosed ==
  \A g \in Generations :
    gens[g].built /\ g # current =>
      \/ gens[g].closed
      \/ \E t \in Tasks :
           /\ startMu = t /\ call[t].at \notin Preparing
           /\ g = IF current = call[t].gen THEN call[t].old ELSE call[t].gen
=============================================================================
