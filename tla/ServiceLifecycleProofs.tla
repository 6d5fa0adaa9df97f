----------------------- MODULE ServiceLifecycleProofs -----------------------
(***************************************************************************)
(* Proofs about the starts, stops and requests of ServiceLifecycle, for any *)
(* number of handlers and generations: which task holds which mutex at      *)
(* which place, that all generations but the current one are at rest, and   *)
(* what a stop therefore owes to requests, launches and the process's end.  *)
(***************************************************************************)
EXTENDS ServiceLifecycle, FiniteSetTheorems, TLAPS

-----------------------------------------------------------------------------
(* The inductive invariant.                                                 *)

(* The places at which a call holds startMu; those at which it holds        *)
(* mu.Lock, and mu.RLock; those of a launch; those of an admitted request,  *)
(* and of one that is in the registry.                                      *)
Launching == {"launching", "enabling", "unlaunch"}
Decided == {"restart", "clean", "cleanWait", "cleanLate"}
Starting ==
  Decided \cup Launching \cup
    {"lockCheck", "build", "lockSwap", "launch", "lockFinish", "closing"}
Asking == {"lockCheck", "lockSwap", "lockFinish", "lockClose"}
Served == {"serving", "looking"}
Admitted == Served \cup {"registering", "selecting", "observing", "counting"}
Reading == (Admitted \ Served) \cup {"logging", "generating", "admission"}

Places ==
  Preparing \cup {"idle", "build", "lockSwap", "launch", "launching",
    "enabling", "unlaunch", "lockFinish", "closing", "stopping",
    "cancelling", "halting", "cutting", "cuttingLaunch", "awaiting",
    "awaitingLaunch", "late",
    "logging", "generating", "registering", "serving", "looking", "admission",
    "selecting", "observing", "counting", "lockClose"}
Calls == [at : Places, gen : Generations, old : Generations, handle : {0} \cup Generations]

Gen ==
  [built : BOOLEAN, state : {"stopped", "launching", "running"},
   transition : {"none", "launch", "stop"}, timedOut : BOOLEAN,
   failed : BOOLEAN, data : BOOLEAN, attached : BOOLEAN,
   launchCtx : {"none", "live", "stopped", "outrun", "done"},
   life : BOOLEAN, cleanup : {"none", "cancel", "reset"},
   workers : BOOLEAN, late : BOOLEAN, closed : BOOLEAN]

(* What the fields of one generation say of each other.                     *)
Sound(G) ==
  /\ G.state = "launching" => G.transition = "launch"
  /\ G.state = "running" => G.transition = "none" /\ ~G.attached
  /\ G.state = "stopped" /\ G.transition = "none" => ~G.data
  /\ G.transition = "stop" => G.state = "stopped"
  /\ G.cleanup # "none" => G.transition = "stop" /\ ~G.data

AtRest(G) == G.state = "stopped" /\ G.transition = "none"
(* A stop that has not cut the data context, or not cancelled the requests. *)
Uncut(G) == G.transition = "stop" /\ G.cleanup = "none"
Uncancelled(G) == G.transition = "stop" /\ G.cleanup # "reset"
Cutting(c, g) == c.at = "cutting" /\ c.gen = g

Prepared == {t \in Tasks : call[t].at \in Preparing}
BoundInv == launches + Cardinality(Prepared) <= MaxGenerations

LockInv ==
  /\ \A t \in Tasks : call[t].at \in Starting <=> startMu = t
  /\ \A t \in Tasks : writer = t => call[t].at \in Asking \cup Decided \cup Launching
  /\ \A t \in Tasks : call[t].at \in Decided => writer = t
  /\ \A t \in Tasks : call[t].at \in Decided \cup Launching /\ writer = t => readers = {}
  /\ \A t \in Tasks : t \in readers <=> call[t].at \in Reading
  /\ \A t \in Tasks : t \in registered <=> call[t].at \in Served

(* The generation of a call at each place of a start.                       *)
StartInv ==
  /\ current <= launches
  /\ \A t \in Tasks :
       /\ call[t].at \in Decided \cup Launching \cup {"launch"} => call[t].gen = current
       /\ call[t].at \in {"clean", "cleanWait", "cleanLate"} => gens[current].state = "stopped"
       /\ call[t].at \in {"build", "lockSwap"} =>
            AtRest(gens[current]) /\ call[t].gen > current /\ call[t].gen <= launches
       /\ call[t].at = "launch" => AtRest(gens[current])
       /\ call[t].at \in Launching => gens[current].transition = "launch"
       /\ call[t].at = "enabling" => ~gens[current].attached
       /\ call[t].at = "unlaunch" => ~gens[current].data

GenInv ==
  /\ \A g \in Generations : Sound(gens[g])
  /\ \A g \in Generations : g # current => AtRest(gens[g])
  /\ \A g \in Generations : gens[g].transition = "launch" =>
       \E t \in Tasks : startMu = t /\ call[t].at \in Launching

(* No admitted request of the current generation has a live context.        *)
AllCut ==
  \A t \in Tasks :
    call[t].at \in Admitted /\ call[t].gen = current => call[t].at \in Served /\ t \in cancelled

RequestInv ==
  /\ \A t \in Tasks : call[t].at \in Reading \cup Served => call[t].gen <= current
  /\ gens[current].transition = "launch" => AllCut
  /\ \A t \in Tasks : call[t].at = "launch" => AllCut
  /\ \A t \in Tasks : call[t].at = "restart" =>
       gens[current].state = "running" \/ Uncancelled(gens[current]) \/ AllCut

StopInv ==
  \A g \in Generations :
    gens[g].state # "stopped" /\ gens[g].launchCtx = "stopped" =>
      gens[g].attached \/ \E t \in Tasks : call[t].at = "halting" /\ call[t].gen = g

(* Who stops a running service cuts it, nobody else.                        *)
CutInv ==
  \A g \in Generations :
    /\ Uncut(gens[g]) => \E t \in Tasks : Cutting(call[t], g)
    /\ \A t \in Tasks : Cutting(call[t], g) => Uncut(gens[g])
    /\ \A t, u \in Tasks : Cutting(call[t], g) /\ Cutting(call[u], g) => t = u

IInv ==
  TypeOK /\ BoundInv /\ LockInv /\ StartInv /\ GenInv /\ RequestInv /\ StopInv /\ CutInv

(* The process has been told to end, and main has closed the generation     *)
(* that was current.                                                        *)
Ended == ~root /\ \A t \in Tasks : call[t].at # "lockClose"

(* What holds besides if no close of a worker fails.                        *)
WorkerInv ==
  /\ \A g \in Generations : AtRest(gens[g]) => ~gens[g].workers \/ gens[g].late
  /\ \A g \in Generations : g > current => ~gens[g].workers
  /\ Ended =>
       /\ \A g \in Generations : ~gens[g].workers \/ gens[g].late
       /\ ~gens[current].workers
       /\ \A t \in Tasks :
            call[t].at \in Reading \cup Served /\ call[t].gen = current => gens[current].closed

-----------------------------------------------------------------------------
(* What a step of one task owes to each conjunct: in terms of its own call  *)
(* and of the generations, so that one lemma per conjunct speaks of the     *)
(* other tasks.                                                             *)

One(b) == IF b THEN 1 ELSE 0

Moves(t) ==
  /\ call' \in [Tasks -> Calls] /\ \A u \in Tasks : u # t => call'[u] = call[u]
  /\ startMu' \in Tasks \cup {None} /\ writer' \in Tasks \cup {None}
  /\ readers' \subseteq Tasks
  /\ startCancel' \in {0} \cup Generations /\ current' \in Generations
  /\ launches' \in Generations
  /\ gens' \in [Generations -> Gen]
  /\ registered' \subseteq Tasks /\ cancelled' \subseteq registered'
  /\ root' \in BOOLEAN

Counts(t) ==
  \/ launches' + One(call'[t].at \in Preparing) <= launches + One(call[t].at \in Preparing)
  \/ launches' = launches /\ launches + Cardinality(Prepared) < MaxGenerations

Locks(t, l) ==
  /\ l \in Starting <=> startMu' = t
  /\ startMu' = startMu \/ (startMu \in {None, t} /\ startMu' \in {None, t})
  /\ writer' = t => l \in Asking \cup Decided \cup Launching
  /\ l \in Decided => writer' = t
  /\ writer' = writer \/ (writer \in {None, t} /\ writer' \in {None, t})
  /\ l \in Decided \cup Launching /\ writer' = t => readers' = {}
  /\ t \in readers' <=> l \in Reading
  /\ t \in registered' <=> l \in Served
  /\ t \in readers' /\ t \notin readers => writer = None
  /\ \A u \in Tasks : u # t => /\ u \in readers' <=> u \in readers
                               /\ u \in registered' <=> u \in registered

Halts(t) ==
  \A g \in Generations :
    gens'[g].state # "stopped" /\ gens'[g].launchCtx = "stopped" =>
      \/ gens'[g].attached
      \/ call'[t].at = "halting" /\ call'[t].gen = g
      \/ /\ gens[g].state # "stopped" /\ gens[g].launchCtx = "stopped" /\ ~gens[g].attached
         /\ call[t].at = "halting" => call[t].gen # g

Cuts(t) ==
  \A g \in Generations :
    \/ /\ Cutting(call'[t], g) <=> Cutting(call[t], g)
       /\ Uncut(gens'[g]) <=> Uncut(gens[g])
    \/ Cutting(call'[t], g) /\ ~Uncut(gens[g]) /\ Uncut(gens'[g])
    \/ Cutting(call[t], g) /\ ~Cutting(call'[t], g) /\ ~Uncut(gens'[g])

(* A step outside a start: generations only come to rest.                   *)
Calms(G, H) ==
  /\ Sound(H)
  /\ H.state \in {G.state, "stopped"}
  /\ H.transition = "launch" <=> G.transition = "launch"
  /\ AtRest(G) => AtRest(H)
  /\ H.data => G.data
  /\ H.attached => G.attached
  /\ G.state = "running" \/ Uncancelled(G) => H.state = "running" \/ Uncancelled(H)

Outside(t, c, d) ==
  /\ c.at \notin Starting /\ d.at \notin Starting
  /\ startMu' = startMu /\ current' = current /\ launches' = launches
  /\ \A g \in Generations : Calms(gens[g], gens'[g])
  /\ d.at \in Reading \cup Served =>
       /\ d.gen <= current
       /\ root \/ (c.at \in Reading \cup Served /\ d.gen = c.gen)
  /\ \A u \in Tasks : u # t /\ u \in cancelled => u \in cancelled'
  /\ d.at \in Admitted /\ d.gen = current =>
       \/ gens[current].state = "running"
       \/ /\ c.at \in Admitted /\ c.gen = current
          /\ c.at \in Served => d.at \in Served /\ (t \in cancelled => t \in cancelled')

(* A step of a start.                                                       *)
Inside(t, c, d) ==
  /\ c.at \in Starting \/ d.at \in Starting
  /\ c.at \notin Reading \cup Served /\ d.at \notin Reading \cup Served
  /\ cancelled' = cancelled
  /\ current <= current' /\ current' <= launches'
  /\ d.at \in Decided \cup Launching \cup {"launch"} => d.gen = current'
  /\ d.at \in {"clean", "cleanWait", "cleanLate"} => gens'[current'].state = "stopped"
  /\ d.at \in {"build", "lockSwap"} => AtRest(gens'[current']) /\ d.gen > current' /\ d.gen <= launches'
  /\ d.at = "launch" => AtRest(gens'[current'])
  /\ d.at \in Launching => gens'[current'].transition = "launch"
  /\ d.at = "enabling" => ~gens'[current'].attached
  /\ d.at = "unlaunch" => ~gens'[current'].data
  /\ \A g \in Generations :
       /\ Sound(gens'[g])
       /\ g # current' => AtRest(gens'[g])
       /\ gens'[g].transition = "launch" => d.at \in Launching
  /\ current' # current \/ AllCut \/ ~(gens'[current'].transition = "launch" \/ d.at = "launch")
  /\ d.at = "restart" => \/ gens'[current'].state = "running"
                         \/ Uncancelled(gens'[current'])
                         \/ (current' = current /\ AllCut)

Step(t) ==
  /\ Moves(t) /\ Counts(t) /\ Locks(t, call'[t].at) /\ Halts(t) /\ Cuts(t)
  /\ Outside(t, call[t], call'[t]) \/ Inside(t, call[t], call'[t])

LEMMA Types ==
  ASSUME IInv
  PROVE  /\ call \in [Tasks -> Calls] /\ gens \in [Generations -> Gen]
         /\ startMu \in Tasks \cup {None} /\ writer \in Tasks \cup {None}
         /\ readers \subseteq Tasks /\ registered \subseteq Tasks /\ cancelled \subseteq registered
         /\ startCancel \in {0} \cup Generations /\ current \in Generations
         /\ launches \in Generations /\ root \in BOOLEAN
         /\ None \notin Tasks
BY LifecycleAssumption DEF IInv, TypeOK, Calls, Places, Gen

LEMMA TypeKept ==
  ASSUME NEW t \in Tasks, Step(t)
  PROVE  TypeOK'
BY DEF Step, Moves, TypeOK, Calls, Places, Gen

LEMMA LockKept ==
  ASSUME IInv, NEW t \in Tasks, Step(t)
  PROVE  LockInv'
<1> DEFINE l == call'[t].at
<1>1. Locks(t, l) /\ \A u \in Tasks : u # t => call'[u].at = call[u].at
  BY DEF Step, Moves
<1>2. LockInv /\ None \notin Tasks
  BY Types DEF IInv
<1> HIDE DEF l
<1>3. ASSUME NEW u \in Tasks
      PROVE  call'[u].at \in Starting <=> startMu' = u
  BY <1>1, <1>2 DEF LockInv, Locks, l
<1>4. ASSUME NEW u \in Tasks
      PROVE  /\ writer' = u => call'[u].at \in Asking \cup Decided \cup Launching
             /\ call'[u].at \in Decided => writer' = u
             /\ u \in readers' <=> call'[u].at \in Reading
             /\ u \in registered' <=> call'[u].at \in Served
  BY <1>1, <1>2 DEF LockInv, Locks, l
<1>5. ASSUME NEW u \in Tasks, call'[u].at \in Decided \cup Launching, writer' = u
      PROVE  readers' = {}
  <2>1. CASE u = t
    BY <1>1, <1>5, <2>1 DEF Locks, l
  <2>2. CASE u # t
    <3>1. readers = {} /\ writer = u
      BY <1>1, <1>2, <1>5, <2>2 DEF LockInv, Locks
    <3>2. \A v \in Tasks : v \notin readers'
      BY <1>1, <1>2, <3>1 DEF Locks
    <3>3. readers' \subseteq Tasks
      BY DEF Step, Moves
    <3>4. QED
      BY <3>2, <3>3
  <2>3. QED
    BY <2>1, <2>2
<1>6. QED
  BY <1>3, <1>4, <1>5 DEF LockInv

LEMMA BoundKept ==
  ASSUME IInv, NEW t \in Tasks, Step(t)
  PROVE  BoundInv'
<1> DEFINE S == Prepared T == Prepared'
<1>1. /\ S \in SUBSET Tasks /\ T \in SUBSET Tasks
      /\ \A u \in Tasks : u # t => (u \in S <=> u \in T)
      /\ t \in S <=> call[t].at \in Preparing
      /\ t \in T <=> call'[t].at \in Preparing
  BY DEF Step, Moves, Prepared
<1>2. Counts(t) /\ launches \in Nat /\ launches' \in Nat /\ MaxGenerations \in Nat
  BY Types, LifecycleAssumption DEF Step, Moves, Generations
<1>3. launches + Cardinality(S) <= MaxGenerations
  BY DEF IInv, BoundInv
<1> HIDE DEF S, T
<1>4. IsFiniteSet(S) /\ IsFiniteSet(T)
  BY <1>1, FS_Subset, LifecycleAssumption
<1>5. Cardinality(S) \in Nat /\ Cardinality(T) \in Nat
  BY <1>4, FS_CardinalityType
<1>6. Cardinality(T) + One(t \in S) = Cardinality(S) + One(t \in T)
  <2>1. CASE t \in S /\ t \notin T
    <3>1. T = S \ {t}
      BY <1>1, <2>1
    <3>2. QED
      BY <1>4, <1>5, <2>1, <3>1, FS_RemoveElement DEF One
  <2>2. CASE t \notin S /\ t \in T
    <3>1. T = S \cup {t}
      BY <1>1, <2>2
    <3>2. QED
      BY <1>4, <1>5, <2>2, <3>1, FS_AddElement DEF One
  <2>3. CASE t \in S <=> t \in T
    <3>1. S = T
      BY <1>1, <2>3
    <3>2. QED
      BY <1>5, <2>3, <3>1
  <2>4. QED
    BY <2>1, <2>2, <2>3
<1>7. launches' + Cardinality(T) <= MaxGenerations
  <2>1. /\ One(t \in S) = One(call[t].at \in Preparing) /\ One(t \in T) = One(call'[t].at \in Preparing)
        /\ One(t \in S) \in {0, 1} /\ One(t \in T) \in {0, 1}
    BY <1>1 DEF One
  <2>2. \/ launches' + One(t \in T) <= launches + One(t \in S)
        \/ launches' = launches /\ launches + Cardinality(S) < MaxGenerations
    BY <1>2, <2>1 DEF Counts, S
  <2>3. QED
    BY <1>2, <1>3, <1>5, <1>6, <2>1, <2>2
<1>8. QED
  BY <1>7 DEF BoundInv, T

LEMMA StopKept ==
  ASSUME IInv, NEW t \in Tasks, Step(t)
  PROVE  StopInv'
<1>1. Halts(t) /\ Moves(t)
  BY DEF Step
<1>2. ASSUME NEW g \in Generations, gens'[g].state # "stopped",
             gens'[g].launchCtx = "stopped", ~gens'[g].attached
      PROVE  \E u \in Tasks : call'[u].at = "halting" /\ call'[u].gen = g
  <2>1. CASE call'[t].at = "halting" /\ call'[t].gen = g
    BY <2>1
  <2>2. CASE /\ gens[g].state # "stopped" /\ gens[g].launchCtx = "stopped" /\ ~gens[g].attached
             /\ call[t].at = "halting" => call[t].gen # g
    <3>1. PICK u \in Tasks : call[u].at = "halting" /\ call[u].gen = g
      BY <2>2 DEF IInv, StopInv
    <3>2. call'[u] = call[u]
      BY <1>1, <2>2, <3>1 DEF Moves
    <3>3. QED
      BY <3>1, <3>2
  <2>3. QED
    BY <1>1, <1>2, <2>1, <2>2 DEF Halts
<1>3. QED
  BY <1>2 DEF StopInv

LEMMA CutKept ==
  ASSUME IInv, NEW t \in Tasks, Step(t)
  PROVE  CutInv'
<1>1. CutInv /\ Cuts(t) /\ \A u \in Tasks : u # t => call'[u] = call[u]
  BY DEF IInv, Step, Moves
<1>2. ASSUME NEW g \in Generations
      PROVE  /\ Uncut(gens'[g]) => \E u \in Tasks : Cutting(call'[u], g)
             /\ \A u \in Tasks : Cutting(call'[u], g) => Uncut(gens'[g])
             /\ \A u, v \in Tasks : Cutting(call'[u], g) /\ Cutting(call'[v], g) => u = v
  <2>1. \A u \in Tasks : u # t => (Cutting(call'[u], g) <=> Cutting(call[u], g))
    BY <1>1
  <2>2. /\ Uncut(gens[g]) => \E u \in Tasks : Cutting(call[u], g)
        /\ \A u \in Tasks : Cutting(call[u], g) => Uncut(gens[g])
        /\ \A u, v \in Tasks : Cutting(call[u], g) /\ Cutting(call[v], g) => u = v
    BY <1>1 DEF CutInv
  <2>3. \/ /\ Cutting(call'[t], g) <=> Cutting(call[t], g)
           /\ Uncut(gens'[g]) <=> Uncut(gens[g])
        \/ Cutting(call'[t], g) /\ ~Uncut(gens[g]) /\ Uncut(gens'[g])
        \/ Cutting(call[t], g) /\ ~Cutting(call'[t], g) /\ ~Uncut(gens'[g])
    BY <1>1 DEF Cuts
  <2>4. QED
    BY <2>1, <2>2, <2>3
<1>3. QED
  BY <1>2 DEF CutInv

LEMMA NotCutting ==
  ASSUME NEW t \in Tasks, call[t].at # "cutting", call'[t].at # "cutting",
         \A g \in Generations : Uncut(gens'[g]) <=> Uncut(gens[g])
  PROVE  Cuts(t)
BY DEF Cuts, Cutting

LEMMA OutsideKeeps ==
  ASSUME IInv, NEW t \in Tasks, Moves(t), Outside(t, call[t], call'[t])
  PROVE  StartInv' /\ GenInv' /\ RequestInv'
<1> DEFINE c == call[t] d == call'[t]
<1>1. Outside(t, c, d) /\ \A u \in Tasks : u # t => call'[u] = call[u]
  BY DEF Moves
<1>2. LockInv /\ StartInv /\ GenInv /\ RequestInv
  BY DEF IInv
<1>3. current \in Generations /\ current' = current /\ launches' = launches /\ startMu' = startMu
  BY <1>1, Types DEF Outside
<1> HIDE DEF c, d
<1>4. ASSUME NEW u \in Tasks, call'[u].at \in Starting
      PROVE  u # t /\ call'[u] = call[u] /\ call[u].at \in Starting
  BY <1>1, <1>4 DEF Outside, d
<1>5. Calms(gens[current], gens'[current])
  BY <1>1, <1>3 DEF Outside
<1>6. StartInv'
  BY <1>2, <1>3, <1>4, <1>5 DEF StartInv, Calms, Starting, Decided, Launching
<1>7. GenInv'
  <2>1. \A g \in Generations : Calms(gens[g], gens'[g])
    BY <1>1 DEF Outside
  <2>2. ASSUME NEW g \in Generations, gens'[g].transition = "launch"
        PROVE  \E u \in Tasks : startMu' = u /\ call'[u].at \in Launching
    <3>1. PICK u \in Tasks : startMu = u /\ call[u].at \in Launching
      BY <1>2, <2>1, <2>2 DEF GenInv, Calms
    <3>2. u # t
      BY <1>1, <3>1 DEF Outside, c, Starting
    <3>3. QED
      BY <1>1, <1>3, <3>1, <3>2
  <2>3. QED
    BY <1>2, <1>3, <2>1, <2>2 DEF GenInv, Calms
<1>8. \A u \in Tasks : call'[u].at \in Reading \cup Served => call'[u].gen <= current
  BY <1>1, <1>2 DEF RequestInv, Outside, d
<1>9. ASSUME AllCut, gens[current].state # "running"
      PROVE  AllCut'
  <2>1. ASSUME NEW u \in Tasks, call'[u].at \in Admitted, call'[u].gen = current
        PROVE  call'[u].at \in Served /\ u \in cancelled'
    BY <1>1, <1>9, <2>1 DEF AllCut, Outside, c, d
  <2>2. QED
    BY <1>3, <2>1 DEF AllCut
<1>10. gens'[current].transition = "launch" => AllCut'
  <2>1. gens[current].transition = "launch" => gens[current].state # "running"
    BY <1>2, <1>3 DEF GenInv, Sound
  <2>2. QED
    BY <1>2, <1>5, <1>9, <2>1 DEF RequestInv, Calms
<1>11. ASSUME NEW u \in Tasks, call'[u].at = "launch"
       PROVE  AllCut'
  BY <1>2, <1>4, <1>9, <1>11 DEF RequestInv, StartInv, AtRest, Starting
<1>12. ASSUME NEW u \in Tasks, call'[u].at = "restart"
       PROVE  gens'[current].state = "running" \/ Uncancelled(gens'[current]) \/ AllCut'
  BY <1>2, <1>4, <1>5, <1>9, <1>12 DEF RequestInv, Calms, Starting, Decided
<1>13. RequestInv'
  BY <1>3, <1>8, <1>10, <1>11, <1>12 DEF RequestInv
<1>14. QED
  BY <1>6, <1>7, <1>13

LEMMA InsideKeeps ==
  ASSUME IInv, LockInv', NEW t \in Tasks, Moves(t), Inside(t, call[t], call'[t])
  PROVE  StartInv' /\ GenInv' /\ RequestInv'
<1> DEFINE c == call[t] d == call'[t]
<1>1. Inside(t, c, d) /\ \A u \in Tasks : u # t => call'[u] = call[u]
  BY DEF Moves
<1>2. LockInv /\ RequestInv
  BY DEF IInv
<1>3. current \in Generations /\ current' \in Generations
  BY Types DEF Moves
<1> HIDE DEF c, d
<1>4. ASSUME NEW u \in Tasks, u # t
      PROVE  call'[u].at \notin Starting
  BY <1>1, <1>2, <1>4 DEF LockInv, Inside, c, d
<1>5. d.at \in Starting => startMu' = t
  BY DEF LockInv, d
<1>6. StartInv'
  BY <1>1, <1>4 DEF StartInv, Inside, Starting, Decided, Launching, d
<1>7. GenInv'
  BY <1>1, <1>5 DEF GenInv, Inside, Starting, d
<1>8. \A u \in Tasks : call'[u].at \in Reading \cup Served => call'[u].gen <= current'
  <2>1. ASSUME NEW u \in Tasks, call'[u].at \in Reading \cup Served
        PROVE  call'[u].gen <= current'
    <3>1. u # t /\ call'[u] = call[u]
      BY <1>1, <2>1 DEF Inside, d
    <3>2. call[u].gen <= current /\ call[u].gen \in Nat /\ current \in Nat /\ current' \in Nat
      BY <1>2, <1>3, <2>1, <3>1, Types DEF RequestInv, Calls, Generations
    <3>3. current <= current'
      BY <1>1 DEF Inside
    <3>4. QED
      BY <3>1, <3>2, <3>3
  <2>2. QED
    BY <2>1
<1>9. ASSUME current' # current \/ AllCut
      PROVE  AllCut'
  <2>1. ASSUME NEW u \in Tasks, call'[u].at \in Admitted, call'[u].gen = current'
        PROVE  call'[u].at \in Served /\ u \in cancelled'
    <3>1. u # t /\ call'[u] = call[u]
      BY <1>1, <2>1 DEF Inside, d, Reading
    <3>2. call[u].gen <= current /\ call[u].gen \in Nat /\ current \in Nat /\ current' \in Nat
      BY <1>2, <1>3, <2>1, <3>1, Types DEF RequestInv, Calls, Generations, Reading
    <3>3. current' = current /\ cancelled' = cancelled
      BY <1>1, <2>1, <3>1, <3>2 DEF Inside
    <3>4. QED
      BY <1>9, <2>1, <3>1, <3>3 DEF AllCut
  <2>2. QED
    BY <2>1 DEF AllCut
<1>10. RequestInv'
  BY <1>1, <1>4, <1>8, <1>9 DEF RequestInv, Inside, Starting, Decided, d
<1>11. QED
  BY <1>6, <1>7, <1>10

LEMMA StepKeeps ==
  ASSUME IInv, NEW t \in Tasks, Step(t)
  PROVE  IInv'
<1>1. TypeOK' /\ LockInv' /\ BoundInv' /\ StopInv' /\ CutInv'
  BY TypeKept, LockKept, BoundKept, StopKept, CutKept
<1>2. StartInv' /\ GenInv' /\ RequestInv'
  BY <1>1, OutsideKeeps, InsideKeeps DEF Step
<1>3. QED
  BY <1>1, <1>2 DEF IInv

-----------------------------------------------------------------------------
(* The ways in which a call goes on.                                        *)

LEMMA Going ==
  ASSUME IInv, NEW t \in Tasks, NEW l \in Places, Goes(t, l)
  PROVE  /\ call' \in [Tasks -> Calls] /\ \A u \in Tasks : u # t => call'[u] = call[u]
         /\ call'[t].at = l /\ call'[t].gen = call[t].gen
BY Types DEF Goes, Calls

LEMMA GoingFor ==
  ASSUME IInv, NEW t \in Tasks, NEW l \in Places, NEW g \in Generations, GoesFor(t, l, g)
  PROVE  /\ call' \in [Tasks -> Calls] /\ \A u \in Tasks : u # t => call'[u] = call[u]
         /\ call'[t].at = l /\ call'[t].gen = g
BY Types DEF GoesFor, Calls

LEMMA Returning ==
  ASSUME IInv, NEW t \in Tasks, Returns(t)
  PROVE  /\ call' \in [Tasks -> Calls] /\ \A u \in Tasks : u # t => call'[u] = call[u]
         /\ call'[t].at = "idle"
<1>1. Idle \in Calls /\ Idle.at = "idle"
  BY LifecycleAssumption DEF Idle, Calls, Places, Generations
<1>2. QED
  BY <1>1, Types DEF Returns

(* A generation that a step leaves alone.                                   *)
LEMMA Unchanged ==
  ASSUME IInv, NEW g \in Generations
  PROVE  Calms(gens[g], gens[g]) /\ Sound(gens[g]) /\ gens[g] \in Gen
<1>1. Sound(gens[g]) /\ gens[g] \in Gen
  BY Types DEF IInv, GenInv
<1>2. QED
  BY <1>1 DEF Calms, Gen

LEMMA UnchangedGens ==
  ASSUME IInv, NEW t \in Tasks, gens' = gens, call[t].at # "halting"
  PROVE  Halts(t) /\ \A g \in Generations : Calms(gens[g], gens'[g])
BY Unchanged DEF Halts

-----------------------------------------------------------------------------
(* Requests.                                                                *)

(* A request that goes on, or returns, without a change of the manager but  *)
(* for its read lock.                                                       *)
RequestMoves(t, l) ==
  /\ call' \in [Tasks -> Calls] /\ \A u \in Tasks : u # t => call'[u] = call[u]
  /\ call'[t].at = l
  /\ readers' = IF l \in Reading THEN readers \cup {t} ELSE readers \ {t}
  /\ registered' = IF l \in Served THEN registered \cup {t} ELSE registered \ {t}
  /\ UNCHANGED <<startMu, writer, startCancel, current, launches, root>>
  /\ gens' \in [Generations -> Gen]
  /\ \A g \in Generations : /\ Calms(gens[g], gens'[g])
                            /\ gens'[g].launchCtx = gens[g].launchCtx
                            /\ gens'[g].attached = gens[g].attached
                            /\ Uncut(gens'[g]) <=> Uncut(gens[g])

LEMMA RequestKeeps ==
  ASSUME IInv, NEW t \in Tasks, NEW l, RequestMoves(t, l),
         call[t].at \in Reading \cup Served \cup {"idle"},
         l \in Reading \cup Served \cup {"idle"},
         cancelled' = IF l = "idle" THEN cancelled \ {t} ELSE cancelled,
         call[t].at # "idle" => call'[t].gen = call[t].gen \/ l = "idle",
         call[t].at = "idle" => writer = None /\ call'[t].gen = current /\ l \notin Admitted /\ root,
         l \in Admitted => call[t].at \in Admitted \/ gens[call[t].gen].state = "running",
         call[t].at \in Served => l \in Served \cup {"idle"}
  PROVE  Step(t)
<1> DEFINE c == call[t]
<1>1. LockInv /\ GenInv /\ RequestInv
  BY DEF IInv
<1>2. c.at \notin Starting /\ l \notin Starting /\ c.at \notin Preparing /\ l \notin Preparing
  BY DEF Starting, Decided, Launching, Preparing, Reading, Admitted, Served
<1>3. t \in registered <=> c.at \in Served
  BY <1>1 DEF LockInv
<1>4. cancelled' \subseteq registered'
  BY <1>3, Types DEF RequestMoves
<1>5. Moves(t)
  BY <1>4, Types DEF RequestMoves, Moves
<1>6. Counts(t)
  BY <1>2, Types DEF RequestMoves, Counts, Generations, One
<1>7. Locks(t, l)
  <2>1. writer # t /\ startMu # t
    BY <1>1, <1>2, Types DEF LockInv, Asking, Starting, Decided, Launching, Reading, Admitted, Served
  <2>2. t \in readers <=> c.at \in Reading
    BY <1>1 DEF LockInv
  <2>3. "idle" \notin Reading \cup Served /\ \A k \in Served : k \notin Reading
    BY DEF Reading, Admitted, Served
  <2>4. t \in readers' /\ t \notin readers => writer = None
    BY <2>2, <2>3 DEF RequestMoves, Reading, Admitted, Served
  <2>5. QED
    BY <1>2, <2>1, <2>4 DEF RequestMoves, Locks, Starting
<1>8. Halts(t)
  BY DEF RequestMoves, Halts, Calms, Reading, Admitted, Served
<1>9. call'[t].at \in Reading \cup Served =>
        /\ call'[t].gen <= current
        /\ root \/ (c.at \in Reading \cup Served /\ call'[t].gen = c.gen)
  <2>1. c.at \in Reading \cup Served => c.gen <= current
    BY <1>1 DEF RequestInv
  <2>2. current <= current
    BY Types DEF Generations
  <2>3. QED
    BY <2>1, <2>2 DEF RequestMoves, Reading, Admitted, Served
<1>10. call'[t].at \in Admitted /\ call'[t].gen = current =>
         \/ gens[current].state = "running"
         \/ /\ c.at \in Admitted /\ c.gen = current
            /\ c.at \in Served => call'[t].at \in Served /\ (t \in cancelled => t \in cancelled')
  BY DEF RequestMoves, Admitted, Served
<1>11. Outside(t, c, call'[t])
  BY <1>2, <1>9, <1>10 DEF RequestMoves, Outside
<1>12. Cuts(t)
  BY NotCutting DEF RequestMoves, Reading, Admitted, Served
<1>13. QED
  BY <1>5, <1>6, <1>7, <1>8, <1>11, <1>12 DEF RequestMoves, Step

LEMMA RequestsKeep ==
  ASSUME IInv, NEW t \in Tasks,
         \/ Enter(t) \/ LogAccess(t) \/ LogSelection(t) \/ RequestStep(t)
         \/ OpenWorker(t) \/ RecoverWorker(t) \/ Looks(t) \/ Expands(t)
  PROVE  Step(t)
<1> DEFINE c == call[t]
<1>1. /\ t \in registered <=> c.at \in Served
      /\ t \in readers <=> c.at \in Reading
      /\ cancelled \subseteq registered /\ current \in Generations /\ gens \in [Generations -> Gen]
      /\ call \in [Tasks -> Calls] /\ c.gen \in Generations
  BY Types DEF IInv, LockInv, Calls
<1>2. {"logging", "generating", "admission", "registering", "selecting", "observing", "counting"} = Reading
  BY DEF Reading, Admitted, Served
<1>3. gens' = gens =>
        /\ gens' \in [Generations -> Gen]
        /\ \A g \in Generations : /\ Calms(gens[g], gens'[g])
                                  /\ gens'[g].launchCtx = gens[g].launchCtx
                                  /\ gens'[g].attached = gens[g].attached
                                  /\ Uncut(gens'[g]) <=> Uncut(gens[g])
  BY <1>1, Unchanged
<1>4. CASE Enter(t)
  <2>1. PICK l \in {"logging", "admission"} : GoesFor(t, l, current)
    BY <1>4 DEF Enter
  <2>2. l \in Places /\ l \in Reading /\ l \notin Admitted \cup Served \cup {"idle"}
    BY <1>2 DEF Places, Admitted, Served
  <2>3. /\ call' \in [Tasks -> Calls] /\ \A u \in Tasks : u # t => call'[u] = call[u]
        /\ call'[t].at = l /\ call'[t].gen = current
    BY <1>1, <2>1, <2>2, GoingFor
  <2>4. c.at = "idle" /\ c.at \notin Served /\ t \notin registered
    BY <1>1, <1>4 DEF Enter, Served
  <2>5. RequestMoves(t, l)
    BY <1>1, <1>3, <1>4, <2>2, <2>3, <2>4 DEF Enter, RequestMoves, registry
  <2>6. QED
    BY <1>4, <2>2, <2>3, <2>4, <2>5, RequestKeeps DEF Enter, Reads, registry
<1>5. ASSUME NEW l \in Places, Goes(t, l)
      PROVE  /\ call' \in [Tasks -> Calls] /\ \A u \in Tasks : u # t => call'[u] = call[u]
             /\ call'[t].at = l /\ call'[t].gen = c.gen
  BY <1>5, Going
<1>6. ASSUME Returns(t)
      PROVE  /\ call' \in [Tasks -> Calls] /\ \A u \in Tasks : u # t => call'[u] = call[u]
             /\ call'[t].at = "idle"
  BY <1>6, Returning
<1>7. ASSUME NEW l \in {"generating", "registering", "selecting", "observing", "counting"},
             Goes(t, l), c.at \in Reading, UNCHANGED <<manager, gens, registry>>,
             l \in Admitted => c.at \in Admitted \/ gens[c.gen].state = "running"
      PROVE  Step(t)
  <2>1. l \in Places /\ l \in Reading /\ l \notin Served \cup {"idle"} /\ c.at \notin Served \cup {"idle"}
    BY <1>2, <1>7 DEF Places, Served
  <2>2. RequestMoves(t, l)
    BY <1>1, <1>3, <1>5, <1>7, <2>1 DEF RequestMoves, manager, registry
  <2>3. QED
    BY <1>5, <1>7, <2>1, <2>2, RequestKeeps DEF registry
<1>8. ASSUME Returns(t), c.at \in Reading \cup Served, readers' = readers \ {t},
             registered' = registered \ {t}, cancelled' = cancelled \ {t},
             UNCHANGED <<startMu, writer, startCancel, current, launches, root, gens>>
      PROVE  Step(t)
  <2>1. "idle" \notin Reading \cup Admitted \cup Served
    BY <1>2 DEF Admitted, Served
  <2>2. RequestMoves(t, "idle")
    BY <1>3, <1>6, <1>8, <2>1 DEF RequestMoves
  <2>3. QED
    BY <1>8, <2>1, <2>2, RequestKeeps
<1>9. CASE LogAccess(t) \/ LogSelection(t) \/ Select(t)
  <2>1. PICK l \in {"generating", "counting", "observing"} :
          /\ Goes(t, l) /\ c.at \in Reading /\ UNCHANGED <<manager, gens, registry>>
          /\ l \in Admitted => c.at \in Admitted
    BY <1>2, <1>9 DEF LogAccess, LogSelection, Select, Admitted, Served
  <2>2. QED
    BY <1>7, <2>1
<1>10. CASE Generate(t) \/ CountTokens(t)
  <2>1. c.at \in Reading \ Admitted /\ UNCHANGED <<startMu, writer, startCancel, current,
                 launches, root, gens, registry>>
    BY <1>2, <1>10 DEF Generate, CountTokens, Admitted, Served
  <2>2. CASE Returns(t) /\ readers' = readers \ {t}
    <3>1. t \notin registered /\ t \notin cancelled
      BY <1>1, <2>1 DEF Admitted, Served
    <3>2. registered' = registered \ {t} /\ cancelled' = cancelled \ {t}
      BY <2>1, <3>1 DEF registry
    <3>3. QED
      BY <1>8, <2>1, <2>2, <3>2
  <2>3. CASE Admits(c.gen) /\ UNCHANGED readers /\ (Goes(t, "registering") \/ Goes(t, "selecting"))
    BY <1>7, <2>1, <2>3 DEF Admits, manager
  <2>4. QED
    BY <1>10, <2>2, <2>3 DEF Generate, CountTokens
<1>11. CASE Register(t)
  <2>1. /\ c.at = "registering" /\ Goes(t, "serving")
        /\ "serving" \in Places /\ "serving" \in Served /\ "serving" \notin Reading
        /\ c.at \in Reading /\ c.at \in Admitted /\ c.at \notin Served
    BY <1>2, <1>11 DEF Register, Places, Reading, Admitted, Served
  <2>2. RequestMoves(t, "serving")
    BY <1>1, <1>3, <1>5, <1>11, <2>1 DEF RequestMoves, Register
  <2>3. QED
    BY <1>5, <1>11, <2>1, <2>2, RequestKeeps DEF Register
<1>12. CASE EndRequest(t)
  BY <1>2, <1>8, <1>12 DEF EndRequest, Served
<1>13. ASSUME NEW l \in Places, NEW G, G = gens[c.gen], NEW b \in BOOLEAN, NEW x \in BOOLEAN,
              c.at \in {"serving", "looking", "counting"},
              gens' = [gens EXCEPT ![c.gen] = [G EXCEPT !.workers = b, !.late = x]],
              \/ l = c.at /\ call' = call
              \/ l = "serving" /\ c.at = "looking" /\ Goes(t, l),
              UNCHANGED <<manager, registry>>
       PROVE  Step(t)
  <2> DEFINE H == [G EXCEPT !.workers = b, !.late = x]
  <2>1. G \in Gen /\ Sound(G) /\ gens' = [gens EXCEPT ![c.gen] = H]
    BY <1>1, <1>13, Unchanged
  <2>2. /\ H \in Gen /\ Calms(G, H) /\ H.launchCtx = G.launchCtx /\ H.attached = G.attached
        /\ Uncut(H) <=> Uncut(G)
    <3>1. H \in Gen
      BY ZenonT(30), <1>13, <2>1 DEF Gen
    <3>2. /\ H.launchCtx = G.launchCtx /\ H.attached = G.attached
          /\ H.built = G.built /\ H.state = G.state /\ H.transition = G.transition
          /\ H.timedOut = G.timedOut /\ H.failed = G.failed /\ H.data = G.data
          /\ H.life = G.life /\ H.cleanup = G.cleanup /\ H.closed = G.closed
      BY <2>1 DEF Gen
    <3> HIDE DEF H
    <3>3. QED
      BY <2>1, <3>1, <3>2 DEF Calms, Sound, AtRest, Uncancelled, Uncut
  <2> HIDE DEF H
  <2>3. /\ gens' \in [Generations -> Gen]
        /\ \A g \in Generations : /\ Calms(gens[g], gens'[g])
                                  /\ gens'[g].launchCtx = gens[g].launchCtx
                                  /\ gens'[g].attached = gens[g].attached
                                  /\ Uncut(gens'[g]) <=> Uncut(gens[g])
    BY <1>1, <1>13, <2>1, <2>2, Unchanged
  <2>4. /\ call' \in [Tasks -> Calls] /\ \A u \in Tasks : u # t => call'[u] = call[u]
        /\ call'[t].at = l /\ call'[t].gen = c.gen
    BY <1>1, <1>5, <1>13
  <2>5. /\ l \in Served <=> c.at \in Served
        /\ l \in Reading <=> c.at \in Reading
        /\ c.at \in Admitted /\ l \in Reading \cup Served /\ c.at \in Reading \cup Served
        /\ l # "idle" /\ c.at # "idle"
    BY <1>13 DEF Served, Reading, Admitted
  <2>6. /\ readers' = IF l \in Reading THEN readers \cup {t} ELSE readers \ {t}
        /\ registered' = IF l \in Served THEN registered \cup {t} ELSE registered \ {t}
        /\ UNCHANGED <<startMu, writer, startCancel, current, launches, root, cancelled>>
    BY <1>1, <1>13, <2>5 DEF manager, registry
  <2>7. RequestMoves(t, l)
    BY <2>3, <2>4, <2>6 DEF RequestMoves
  <2>8. QED
    BY <2>4, <2>5, <2>6, <2>7, RequestKeeps
<1>14. CASE OpenWorker(t) \/ RecoverWorker(t)
  <2> DEFINE G == gens[c.gen]
  <2>1. /\ c.at \in {"serving", "looking", "counting"} /\ UNCHANGED <<call, manager, registry>>
        /\ G \in Gen /\ c.at \in Places
    BY <1>1, <1>14 DEF OpenWorker, RecoverWorker, Calls
  <2>2. PICK b \in BOOLEAN : gens' = [gens EXCEPT ![c.gen].workers = b]
    BY <1>14 DEF OpenWorker, RecoverWorker
  <2>3. gens' = [gens EXCEPT ![c.gen] = [G EXCEPT !.workers = b, !.late = G.late]]
        /\ G.late \in BOOLEAN
    BY <1>1, <2>1, <2>2 DEF Gen
  <2>4. QED
    BY <1>13, <2>1, <2>3
<1>15. CASE Looks(t)
  <2>1. /\ c.at = "serving" /\ Goes(t, "looking") /\ UNCHANGED <<manager, gens, registry>>
        /\ "looking" \in Places /\ "looking" \in Served /\ c.at \in Served
        /\ "looking" \notin Reading /\ c.at \notin Reading /\ c.at \in Admitted
        /\ "looking" # "idle"
    BY <1>15 DEF Looks, Places, Served, Reading, Admitted
  <2>2. RequestMoves(t, "looking")
    BY <1>1, <1>3, <1>5, <2>1 DEF RequestMoves, manager, registry
  <2>3. QED
    BY <1>5, <2>1, <2>2, RequestKeeps DEF registry
<1>16. CASE Expands(t)
  <2> DEFINE G == gens[c.gen] x == G.late \/ AfterReset(c.gen)
  <2>1. /\ c.at = "looking" /\ Goes(t, "serving") /\ "serving" \in Places
        /\ UNCHANGED <<manager, registry>>
    BY <1>16 DEF Expands, Places
  <2>2. G \in Gen /\ x \in BOOLEAN
    BY <1>1 DEF AfterReset, Gen
  <2>3. gens' = [gens EXCEPT ![c.gen] = [G EXCEPT !.workers = TRUE, !.late = x]]
    BY <1>1, <1>16 DEF Expands
  <2>4. QED
    BY <1>13, <2>1, <2>2, <2>3
<1>17. QED
  BY <1>4, <1>9, <1>10, <1>11, <1>12, <1>14, <1>15, <1>16 DEF RequestStep

-----------------------------------------------------------------------------
(* Stops, the end of the process, and the beginnings of calls.              *)

Stopping ==
  {"idle", "starting", "stopping", "cancelling", "halting", "cutting", "cuttingLaunch",
   "awaiting", "awaitingLaunch", "late", "lockClose"}

LEMMA StoppingKeeps ==
  ASSUME IInv, NEW t \in Tasks, NEW l \in Stopping,
         call' \in [Tasks -> Calls], \A u \in Tasks : u # t => call'[u] = call[u],
         call'[t].at = l, call[t].at \in Stopping,
         UNCHANGED <<startMu, readers, startCancel, current, launches, registered>>,
         writer' \in {writer, None, t}, writer' # writer => writer \in {None, t},
         writer' = t => l = "lockClose",
         l = "starting" => launches + Cardinality(Prepared) < MaxGenerations,
         cancelled \subseteq cancelled', cancelled' \subseteq registered, root' \in BOOLEAN,
         gens' \in [Generations -> Gen], \A g \in Generations : Calms(gens[g], gens'[g]),
         Halts(t), Cuts(t)
  PROVE  Step(t)
<1> DEFINE c == call[t]
<1>1. /\ c.at \notin Starting /\ c.at \notin Reading \cup Served /\ c.at \notin Admitted
      /\ l \notin Starting /\ l \notin Reading \cup Served /\ l \notin Admitted
      /\ l \in Preparing => l = "starting"
  BY DEF Stopping, Starting, Decided, Launching, Reading, Admitted, Served, Preparing
<1>2. LockInv /\ launches \in Nat /\ writer \in Tasks \cup {None}
  BY Types DEF IInv, Generations
<1>3. Moves(t)
  BY Types DEF Moves
<1>4. Counts(t)
  BY <1>1, <1>2 DEF Counts, One
<1>5. Locks(t, l)
  <2>1. startMu # t /\ t \notin readers /\ t \notin registered
    BY <1>1, <1>2 DEF LockInv
  <2>2. l \notin Decided /\ l \notin Launching /\ ("lockClose" \in Asking)
    BY <1>1 DEF Starting, Asking
  <2>3. QED
    BY <1>1, <2>1, <2>2 DEF Locks
<1>6. Outside(t, c, call'[t])
  BY <1>1 DEF Outside
<1>7. QED
  BY <1>3, <1>4, <1>5, <1>6 DEF Step

(* A stop's change of one generation.                                       *)
LEMMA CalmChange ==
  ASSUME IInv, NEW g \in Generations, NEW H \in Gen, gens' = [gens EXCEPT ![g] = H],
         Calms(gens[g], H)
  PROVE  gens' \in [Generations -> Gen] /\ \A h \in Generations : Calms(gens[h], gens'[h])
BY Types, Unchanged

LEMMA BeginsKeep ==
  ASSUME IInv, NEW t \in Tasks,
         \/ BeginStart(t) \/ BeginStop(t) \/ BeginShutdown(t) \/ StopReads(t) \/ AwaitTimesOut(t)
         \/ Announce(t) /\ call[t].at = "lockClose"
  PROVE  Step(t)
<1> DEFINE c == call[t]
<1>1. /\ call \in [Tasks -> Calls] /\ gens \in [Generations -> Gen] /\ c.gen \in Generations
      /\ current \in Generations /\ startCancel \in {0} \cup Generations
      /\ root \in BOOLEAN /\ cancelled \subseteq registered /\ writer \in Tasks \cup {None}
      /\ None \notin Tasks
      /\ writer = t => c.at \in Asking \cup Decided \cup Launching
  BY Types DEF IInv, LockInv, Calls
<1>2. gens' = gens
  BY <1>1 DEF BeginStart, BeginStop, BeginShutdown, StopReads, AwaitTimesOut, Announce
<1>3. c.at \notin {"halting", "cutting"} /\ c.at \in Stopping
  BY DEF BeginStart, BeginStop, BeginShutdown, StopReads, AwaitTimesOut, Stopping
<1>4. Halts(t) /\ gens' \in [Generations -> Gen] /\ \A g \in Generations : Calms(gens[g], gens'[g])
  BY <1>1, <1>2, <1>3, UnchangedGens
<1>5. UNCHANGED <<startMu, readers, startCancel, current, launches, registered>> /\ root' \in BOOLEAN
  BY <1>1 DEF BeginStart, BeginStop, BeginShutdown, StopReads, AwaitTimesOut, Announce, AfterWait, CancelAll,
       manager, registry
<1>6. cancelled \subseteq cancelled' /\ cancelled' \subseteq registered
  BY <1>1 DEF BeginStart, BeginStop, BeginShutdown, StopReads, AwaitTimesOut, Announce, AfterWait, CancelAll,
       manager, registry
<1>7. call'[t].at # "cutting" => Cuts(t)
  BY <1>2, <1>3, NotCutting
<1>8. ASSUME NEW l \in Stopping \ {"cutting"}, Goes(t, l), UNCHANGED writer, c.at # "lockClose",
             l = "starting" => launches + Cardinality(Prepared) < MaxGenerations
      PROVE  Step(t)
  <2>1. l \in Places
    BY DEF Stopping, Places, Preparing
  <2>2. /\ call' \in [Tasks -> Calls] /\ \A u \in Tasks : u # t => call'[u] = call[u]
        /\ call'[t].at = l
    BY <1>8, <2>1, Going
  <2>3. writer' # t
    BY <1>1, <1>3, <1>8 DEF Stopping, Asking, Decided, Launching
  <2>4. QED
    BY <1>3, <1>4, <1>5, <1>6, <1>8, <1>7, <2>2, <2>3, StoppingKeeps
<1>9. CASE BeginStart(t) \/ BeginStop(t) \/ BeginShutdown(t) \/ AwaitTimesOut(t)
  <2>1. PICK l \in {"starting", "stopping", "lockClose", "late"} :
          /\ Goes(t, l) /\ UNCHANGED writer /\ c.at # "lockClose"
          /\ l = "starting" => launches + Cardinality(Prepared) < MaxGenerations
    BY <1>9 DEF BeginStart, BeginStop, BeginShutdown, AwaitTimesOut, manager, Prepared
  <2>2. QED
    BY <1>8, <2>1 DEF Stopping
<1>10. CASE StopReads(t)
  <2>1. /\ call' \in [Tasks -> Calls] /\ \A u \in Tasks : u # t => call'[u] = call[u]
        /\ call'[t].at = "cancelling" /\ writer' # t /\ writer' = writer
    <3> DEFINE d == [c EXCEPT !.at = "cancelling", !.gen = current, !.handle = startCancel]
    <3>1. call' = [call EXCEPT ![t] = d] /\ writer = None /\ writer' = writer
      BY <1>1, <1>10 DEF StopReads, Reads, manager
    <3>2. c \in Calls /\ "cancelling" \in Places
      BY <1>1 DEF Places
    <3>3. d \in Calls /\ d.at = "cancelling"
      BY <1>1, <3>2 DEF Calls
    <3>4. QED
      BY <1>1, <3>1, <3>3
  <2>2. QED
    BY <1>3, <1>4, <1>5, <1>6, <1>7, <2>1, StoppingKeeps DEF Stopping
<1>11. CASE Announce(t) /\ c.at = "lockClose"
  <2>1. call' = call /\ writer = None /\ writer' = t
    BY <1>11 DEF Announce
  <2>2. QED
    BY <1>1, <1>3, <1>4, <1>5, <1>6, <1>11, <1>7, <2>1, StoppingKeeps DEF Stopping
<1>12. QED
  BY <1>9, <1>10, <1>11

(* A reset leaves the service as it is.                                     *)
SameService(G, H) ==
  /\ H.state = G.state /\ H.transition = G.transition /\ H.data = G.data
  /\ H.attached = G.attached /\ H.launchCtx = G.launchCtx /\ H.cleanup = G.cleanup

LEMMA EmptiedFields ==
  ASSUME NEW G \in Gen, NEW failed \in BOOLEAN
  PROVE  Emptied(G, failed) \in Gen /\ SameService(G, Emptied(G, failed))
<1>1. PICK w \in BOOLEAN, l \in BOOLEAN : Emptied(G, failed) = [G EXCEPT !.workers = w, !.late = l]
  BY DEF Emptied, Gen
<1>2. QED
  BY <1>1 DEF Gen, SameService

LEMMA ResetFields ==
  ASSUME NEW G \in Gen, NEW failed \in BOOLEAN
  PROVE  ResetStopped(G, failed) \in Gen /\ SameService(G, ResetStopped(G, failed))
<1> DEFINE E == Emptied(G, failed)
<1>1. E \in Gen /\ SameService(G, E)
  BY EmptiedFields
<1>2. ResetStopped(G, failed) = [E EXCEPT !.failed = failed, !.timedOut = FALSE]
  BY DEF ResetStopped
<1> HIDE DEF E
<1> DEFINE R == [E EXCEPT !.failed = failed, !.timedOut = FALSE]
<1>3. R \in Gen
  BY <1>1 DEF Gen
<1>4. SameService(E, R)
  BY <1>1 DEF Gen, SameService
<1> HIDE DEF R
<1>5. QED
  BY <1>1, <1>2, <1>3, <1>4 DEF R, SameService

(* So does a close, but for the context of the launch.                      *)
SameButContext(G, H) ==
  /\ H.state = G.state /\ H.transition = G.transition /\ H.data = G.data
  /\ H.attached = G.attached /\ H.launchCtx = "none" /\ H.cleanup = G.cleanup

LEMMA ClosedFields ==
  ASSUME NEW G \in Gen, NEW failed \in BOOLEAN
  PROVE  Closed(G, failed) \in Gen /\ SameButContext(G, Closed(G, failed))
<1> DEFINE E == Emptied(G, failed)
<1>1. E \in Gen /\ SameService(G, E)
  BY EmptiedFields
<1>2. Closed(G, failed) = [E EXCEPT !.life = FALSE, !.closed = TRUE, !.launchCtx = "none"]
  BY DEF Closed
<1> HIDE DEF E
<1> DEFINE R == [E EXCEPT !.life = FALSE, !.closed = TRUE, !.launchCtx = "none"]
<1>3. R \in Gen
  BY <1>1 DEF Gen
<1>4. SameButContext(E, R)
  BY <1>1 DEF Gen, SameButContext
<1> HIDE DEF E, R
<1>5. QED
  BY <1>1, <1>2, <1>3, <1>4 DEF R, SameService, SameButContext

LEMMA StopsKeep ==
  ASSUME IInv, NEW t \in Tasks,
         \/ StopCancels(t) \/ HaltStopped(t) \/ HaltLaunching(t) \/ CutLaunch(t)
         \/ AwaitEnds(t) \/ StopLate(t) \/ CloseManager(t)
  PROVE  Step(t)
<1> DEFINE c == call[t] g == IF c.at = "lockClose" THEN current ELSE c.gen
<1>1. /\ call \in [Tasks -> Calls] /\ gens \in [Generations -> Gen] /\ c.gen \in Generations
      /\ current \in Generations /\ c.handle \in {0} \cup Generations
      /\ root \in BOOLEAN /\ cancelled \subseteq registered /\ writer \in Tasks \cup {None}
      /\ None \notin Tasks
      /\ writer = t => c.at \in Asking \cup Decided \cup Launching
  BY Types DEF IInv, LockInv, Calls
<1>2. c.at \in Stopping /\ c.at # "cutting"
  BY DEF StopCancels, HaltStopped, HaltLaunching, CutLaunch, AwaitEnds, StopLate, CloseManager, Stopping
<1>3. UNCHANGED <<startMu, readers, startCancel, current, launches, registered, root>>
  BY DEF StopCancels, HaltStopped, HaltLaunching, CutLaunch, AwaitEnds, StopLate, CloseManager,
       AfterWait, CancelAll, manager, registry
<1>4. cancelled \subseteq cancelled' /\ cancelled' \subseteq registered
  BY <1>1 DEF StopCancels, HaltStopped, HaltLaunching, CutLaunch, AwaitEnds, StopLate, CloseManager,
       AfterWait, CancelAll, manager, registry
<1>5. writer' = IF c.at = "lockClose" THEN None ELSE writer
  BY DEF StopCancels, HaltStopped, HaltLaunching, CutLaunch, AwaitEnds, StopLate, CloseManager,
       AfterWait, CancelAll, manager, registry
<1>6. PICK l \in Stopping \ {"lockClose", "starting", "cutting"} :
        /\ call' \in [Tasks -> Calls] /\ \A u \in Tasks : u # t => call'[u] = call[u]
        /\ call'[t].at = l /\ (l # "idle" => call'[t].gen = c.gen)
  <2>1. CASE StopCancels(t)
    <3> DEFINE d == [c EXCEPT !.at = "halting", !.handle = 0]
    <3>1. call' = [call EXCEPT ![t] = d] /\ c \in Calls /\ "halting" \in Places
      BY <1>1, <2>1 DEF StopCancels, Places
    <3>2. d \in Calls /\ d.at = "halting" /\ d.gen = c.gen
      BY <3>1 DEF Calls
    <3> HIDE DEF d
    <3>3. QED
      BY <1>1, <3>1, <3>2 DEF Stopping
  <2>2. CASE ~StopCancels(t)
    <3>1. PICK k \in Stopping \ {"lockClose", "starting", "cutting"} :
            Goes(t, k) \/ (k = "idle" /\ Returns(t))
      BY <2>2 DEF HaltStopped, HaltLaunching, CutLaunch, AwaitEnds, StopLate, CloseManager, Stopping
    <3>2. k \in Places
      BY DEF Stopping, Places, Preparing
    <3>3. QED
      BY <3>1, <3>2, Going, Returning
  <2>3. QED
    BY <2>1, <2>2
<1>7. writer' \in {writer, None, t} /\ (writer' # writer => writer \in {None, t}) /\ writer' # t
  <2>1. c.at = "lockClose" => writer = t
    BY DEF CloseManager, Writes, StopCancels, HaltStopped, HaltLaunching, CutLaunch, AwaitEnds, StopLate
  <2>2. QED
    BY <1>1, <1>2, <1>5, <2>1 DEF Stopping, Asking, Decided, Launching
<1>8. ASSUME \A h \in Generations : Uncut(gens'[h]) <=> Uncut(gens[h])
      PROVE  Cuts(t)
  BY <1>2, <1>6, <1>8, NotCutting
<1>9. ASSUME gens' \in [Generations -> Gen], \A h \in Generations : Calms(gens[h], gens'[h]), Halts(t),
             \A h \in Generations : Uncut(gens'[h]) <=> Uncut(gens[h])
      PROVE  Step(t)
  BY <1>1, <1>2, <1>3, <1>4, <1>6, <1>8, <1>7, <1>9, StoppingKeeps
<1>10. ASSUME NEW h \in Generations, NEW H \in Gen, gens' = [gens EXCEPT ![h] = H], Calms(gens[h], H),
              H.launchCtx \in {gens[h].launchCtx, "none"}, H.attached = gens[h].attached,
              Uncut(H) <=> Uncut(gens[h]),
              c.at = "halting" => h = c.gen /\ H.state = "stopped"
       PROVE  Step(t)
  <2>1. gens' \in [Generations -> Gen] /\ \A k \in Generations : Calms(gens[k], gens'[k])
    BY <1>10, CalmChange
  <2>2. Halts(t)
    BY <1>1, <1>10, <2>1 DEF Halts, Calms
  <2>3. \A k \in Generations : Uncut(gens'[k]) <=> Uncut(gens[k])
    BY <1>1, <1>10
  <2>4. QED
    BY <1>9, <2>1, <2>2, <2>3
<1>11. ASSUME gens' = gens, c.at = "halting" => gens[c.gen].state = "stopped"
       PROVE  Step(t)
  <2>1. \A k \in Generations : Calms(gens[k], gens'[k])
    BY <1>11, Unchanged
  <2>2. Halts(t)
    BY <1>1, <1>11 DEF Halts
  <2>3. QED
    BY <1>1, <1>9, <1>11, <2>1, <2>2
<1>12. CASE StopCancels(t)
  <2> DEFINE n == c.handle
  <2>1. c.at = "cancelling" /\ call'[t].at = "halting" /\ call'[t].gen = c.gen
    BY <1>1, <1>12 DEF StopCancels, Calls
  <2>2. CASE n = 0
    BY <1>11, <1>12, <2>1, <2>2 DEF StopCancels
  <2>3. CASE n # 0
    <3> DEFINE G == gens[n]
               x == IF G.launchCtx # "live" THEN G.launchCtx
                    ELSE IF c.gen # n /\ LetGo(n) THEN "outrun" ELSE "stopped"
               H == [G EXCEPT !.launchCtx = x]
    <3>1. n \in Generations /\ gens' = [gens EXCEPT ![n] = H]
      BY <1>1, <1>12, <2>3 DEF StopCancels
    <3>2. G \in Gen /\ Sound(G)
      BY <3>1, Unchanged
    <3>3. x \in {"none", "live", "stopped", "outrun", "done"}
      BY <3>2 DEF Gen
    <3>4. x = "stopped" => G.launchCtx = "stopped" \/ c.gen = n \/ ~LetGo(n)
      OBVIOUS
    <3>5. ~LetGo(n) => G.state = "stopped" \/ G.attached
      BY <3>2 DEF LetGo, Gen
    <3> HIDE DEF x, G
    <3>6. /\ H \in Gen /\ Calms(G, H) /\ H.attached = G.attached /\ H.state = G.state
          /\ H.launchCtx = x /\ (Uncut(H) <=> Uncut(G))
      BY <3>2, <3>3 DEF Gen, Calms, Sound, AtRest, Uncut, Uncancelled
    <3> HIDE DEF H
    <3>7. gens' \in [Generations -> Gen] /\ \A k \in Generations : Calms(gens[k], gens'[k])
      BY <3>1, <3>6, CalmChange DEF G
    <3>8. ASSUME NEW k \in Generations, gens'[k].state # "stopped", gens'[k].launchCtx = "stopped"
          PROVE  \/ gens'[k].attached
                 \/ call'[t].at = "halting" /\ call'[t].gen = k
                 \/ gens[k].state # "stopped" /\ gens[k].launchCtx = "stopped" /\ ~gens[k].attached
      <4>1. CASE k = n
        BY <1>1, <2>1, <3>1, <3>2, <3>4, <3>5, <3>6, <3>8, <4>1 DEF G, Gen
      <4>2. CASE k # n
        <5>1. gens'[k] = gens[k] /\ gens[k].attached \in BOOLEAN
          BY <1>1, <3>1, <4>2 DEF Gen
        <5>2. QED
          BY <3>8, <5>1
      <4>3. QED
        BY <4>1, <4>2
    <3>9. Halts(t)
      BY <2>1, <3>8 DEF Halts
    <3>10. \A k \in Generations : Uncut(gens'[k]) <=> Uncut(gens[k])
      BY <1>1, <3>1, <3>6 DEF G
    <3>11. QED
      BY <1>9, <3>7, <3>9, <3>10
  <2>4. QED
    BY <2>2, <2>3
<1> DEFINE G == gens[c.gen]
<1>13. G \in Gen /\ Sound(G) /\ c.gen \in Generations
  BY <1>1, Unchanged
<1>14. gens[current] \in Gen /\ Sound(gens[current])
  BY <1>1, Unchanged
<1>15. CASE HaltStopped(t)
  <2>1. c.at = "halting" /\ G.state = "stopped"
    BY <1>15 DEF HaltStopped
  <2>2. CASE UNCHANGED gens
    BY <1>11, <2>1, <2>2
  <2>3. CASE \E failed \in BOOLEAN : gens' = [gens EXCEPT ![c.gen] = ResetStopped(@, failed)]
    <3>1. PICK failed \in BOOLEAN : gens' = [gens EXCEPT ![c.gen] = ResetStopped(@, failed)]
      BY <2>3
    <3> DEFINE H == ResetStopped(G, failed)
    <3>2. gens' = [gens EXCEPT ![c.gen] = H]
      BY <3>1
    <3> HIDE DEF G
    <3>3. H \in Gen /\ SameService(G, H)
      BY <1>13, ResetFields
    <3> HIDE DEF H
    <3>4. /\ Calms(G, H) /\ H.launchCtx = G.launchCtx /\ H.attached = G.attached
          /\ H.state = G.state /\ (Uncut(H) <=> Uncut(G))
      BY <1>13, <3>3 DEF SameService, Calms, Sound, AtRest, Uncut, Uncancelled
    <3>5. QED
      BY <1>10, <1>13, <2>1, <3>2, <3>3, <3>4 DEF G
  <2>4. CASE gens' = [gens EXCEPT ![c.gen] = Settled(@, FALSE)]
    <3> DEFINE H == Settled(G, FALSE)
    <3>1. gens' = [gens EXCEPT ![c.gen] = H]
      BY <2>4
    <3> HIDE DEF G
    <3>2. /\ H \in Gen /\ Calms(G, H) /\ H.launchCtx = G.launchCtx /\ H.attached = G.attached
          /\ H.state = G.state /\ (Uncut(H) <=> Uncut(G))
      BY <1>13 DEF Settled, Gen, Calms, Sound, AtRest, Uncut, Uncancelled
    <3> HIDE DEF H
    <3>3. QED
      BY <1>10, <1>13, <2>1, <3>1, <3>2 DEF G
  <2>5. QED
    BY <1>15, <2>2, <2>3, <2>4 DEF HaltStopped
<1>16. CASE HaltLaunching(t)
  <2> DEFINE H == [G EXCEPT !.state = "stopped"]
  <2>1. c.at = "halting" /\ G.state = "launching" /\ gens' = [gens EXCEPT ![c.gen] = H]
    BY <1>1, <1>16 DEF HaltLaunching
  <2> HIDE DEF G
  <2>2. /\ H \in Gen /\ Calms(G, H) /\ H.launchCtx = G.launchCtx /\ H.attached = G.attached
        /\ H.state = "stopped" /\ (Uncut(H) <=> Uncut(G))
    BY <1>13, <2>1 DEF Gen, Calms, Sound, AtRest, Uncut, Uncancelled
  <2> HIDE DEF H
  <2>3. QED
    BY <1>10, <1>13, <2>1, <2>2 DEF G
<1>17. CASE CutLaunch(t)
  <2> DEFINE H == [G EXCEPT !.data = FALSE]
  <2>1. c.at # "halting" /\ gens' = [gens EXCEPT ![c.gen] = H]
    BY <1>1, <1>17 DEF CutLaunch
  <2> HIDE DEF G
  <2>2. /\ H \in Gen /\ Calms(G, H) /\ H.launchCtx = G.launchCtx /\ H.attached = G.attached
        /\ Uncut(H) <=> Uncut(G)
    BY <1>13 DEF Gen, Calms, Sound, AtRest, Uncut, Uncancelled
  <2> HIDE DEF H
  <2>3. QED
    BY <1>10, <1>13, <2>1, <2>2 DEF G
<1>18. CASE AwaitEnds(t)
  <2> DEFINE H == Settled(G, FALSE)
  <2>1. c.at # "halting" /\ gens' = [gens EXCEPT ![c.gen] = H]
    BY <1>18 DEF AwaitEnds
  <2> HIDE DEF G
  <2>2. /\ H \in Gen /\ Calms(G, H) /\ H.launchCtx = G.launchCtx /\ H.attached = G.attached
        /\ Uncut(H) <=> Uncut(G)
    BY <1>13 DEF Settled, Gen, Calms, Sound, AtRest, Uncut, Uncancelled
  <2> HIDE DEF H
  <2>3. QED
    BY <1>10, <1>13, <2>1, <2>2 DEF G
<1>19. CASE StopLate(t)
  <2> DEFINE H == [G EXCEPT !.timedOut = TRUE]
  <2>1. c.at # "halting" /\ gens' = [gens EXCEPT ![c.gen] = H]
    BY <1>1, <1>19 DEF StopLate
  <2> HIDE DEF G
  <2>2. /\ H \in Gen /\ Calms(G, H) /\ H.launchCtx = G.launchCtx /\ H.attached = G.attached
        /\ Uncut(H) <=> Uncut(G)
    BY <1>13 DEF Gen, Calms, Sound, AtRest, Uncut, Uncancelled
  <2> HIDE DEF H
  <2>3. QED
    BY <1>10, <1>13, <2>1, <2>2 DEF G
<1>20. CASE CloseManager(t)
  <2>1. PICK failed \in BOOLEAN : gens' = [gens EXCEPT ![current] = Closed(@, failed)]
    BY <1>20 DEF CloseManager
  <2> DEFINE K == gens[current] H == Closed(K, failed)
  <2>2. c.at # "halting" /\ gens' = [gens EXCEPT ![current] = H] /\ K \in Gen /\ Sound(K)
    BY <1>14, <1>20, <2>1 DEF CloseManager
  <2> HIDE DEF K
  <2>3. /\ H \in Gen /\ SameButContext(K, H)
    BY <2>2, ClosedFields
  <2> HIDE DEF H
  <2>4. Calms(K, H) /\ (Uncut(H) <=> Uncut(K))
    BY <2>2, <2>3 DEF SameButContext, Calms, Sound, AtRest, Uncut, Uncancelled
  <2>5. QED
    BY <1>1, <1>10, <2>2, <2>3, <2>4 DEF K, SameButContext
<1>21. QED
  BY <1>12, <1>15, <1>16, <1>17, <1>18, <1>19, <1>20

(* A stop that meets the running service: nobody else is cutting it, until  *)
(* it has.                                                                  *)
LEMMA CuttingKeeps ==
  ASSUME IInv, NEW t \in Tasks, HaltRunning(t) \/ Cut(t)
  PROVE  Step(t)
<1> DEFINE c == call[t] G == gens[c.gen]
<1>1. /\ call \in [Tasks -> Calls] /\ gens \in [Generations -> Gen] /\ c.gen \in Generations
      /\ G \in Gen /\ Sound(G) /\ cancelled \subseteq registered
      /\ root \in BOOLEAN /\ writer \in Tasks \cup {None} /\ None \notin Tasks
      /\ writer = t => c.at \in Asking \cup Decided \cup Launching
  BY Types, Unchanged DEF IInv, LockInv, Calls
<1>2. UNCHANGED <<manager, registry>>
  BY DEF HaltRunning, Cut
<1>3. c.at \in {"halting", "cutting"} /\ c.at \in Stopping /\ writer # t
  BY <1>1 DEF HaltRunning, Cut, Stopping, Asking, Decided, Launching
<1>4. ASSUME NEW l \in {"cutting", "awaiting"}, Goes(t, l), NEW H \in Gen,
             gens' = [gens EXCEPT ![c.gen] = H], Calms(G, H), H.state = "stopped",
             \/ l = "cutting" /\ c.at # "cutting" /\ ~Uncut(G) /\ Uncut(H)
             \/ l # "cutting" /\ c.at = "cutting" /\ ~Uncut(H)
      PROVE  Step(t)
  <2>1. l \in Places /\ l \in Stopping
    BY DEF Places, Stopping
  <2>2. /\ call' \in [Tasks -> Calls] /\ \A u \in Tasks : u # t => call'[u] = call[u]
        /\ call'[t].at = l /\ call'[t].gen = c.gen
    BY <1>4, <2>1, Going
  <2>3. /\ gens' \in [Generations -> Gen] /\ \A h \in Generations : Calms(gens[h], gens'[h])
        /\ gens'[c.gen] = H /\ \A h \in Generations : h # c.gen => gens'[h] = gens[h]
    BY <1>1, <1>4, CalmChange
  <2>4. Halts(t)
    BY <1>1, <1>3, <1>4, <2>3 DEF Halts, Gen
  <2>5. Cuts(t)
    BY <1>4, <2>2, <2>3 DEF Cuts, Cutting
  <2>6. QED
    BY <1>1, <1>2, <1>3, <1>4, <2>1, <2>2, <2>3, <2>4, <2>5, StoppingKeeps DEF manager, registry
<1>5. CASE HaltRunning(t)
  <2> DEFINE H == [G EXCEPT !.state = "stopped", !.transition = "stop"]
  <2>1. c.at = "halting" /\ G.state = "running" /\ Goes(t, "cutting") /\ gens' = [gens EXCEPT ![c.gen] = H]
    BY <1>1, <1>5 DEF HaltRunning
  <2> HIDE DEF G
  <2>2. G.cleanup = "none" /\ G.transition = "none"
    BY <1>1, <2>1 DEF Sound, Gen
  <2>3. /\ H \in Gen /\ Calms(G, H) /\ H.state = "stopped" /\ ~Uncut(G) /\ Uncut(H)
    BY <1>1, <2>1, <2>2 DEF Gen, Calms, Sound, AtRest, Uncut, Uncancelled
  <2> HIDE DEF H
  <2>4. QED
    BY <1>4, <2>1, <2>3 DEF G
<1>6. CASE Cut(t)
  <2> DEFINE H == [G EXCEPT !.data = FALSE, !.cleanup = "cancel"]
  <2>1. c.at = "cutting" /\ Goes(t, "awaiting") /\ gens' = [gens EXCEPT ![c.gen] = H]
    BY <1>1, <1>6 DEF Cut
  <2>2. Uncut(G)
    BY <1>1, <2>1 DEF IInv, CutInv, Cutting
  <2> HIDE DEF G
  <2>3. /\ H \in Gen /\ Calms(G, H) /\ H.state = "stopped" /\ ~Uncut(H)
    BY <1>1, <2>2 DEF Gen, Calms, Sound, AtRest, Uncut, Uncancelled
  <2> HIDE DEF H
  <2>4. QED
    BY <1>4, <2>1, <2>3 DEF G
<1>7. QED
  BY <1>5, <1>6

-----------------------------------------------------------------------------
(* Starts.                                                                  *)

LEMMA StartingKeeps ==
  ASSUME IInv, NEW t \in Tasks, NEW l \in Starting \cup {"idle"}, call[t].at \in Starting,
         call' \in [Tasks -> Calls], \A u \in Tasks : u # t => call'[u] = call[u],
         call'[t].at = l,
         startMu' = IF l = "idle" THEN None ELSE t,
         writer' = writer \/ (writer = t /\ writer' = None),
         writer' = t => l \in Asking \cup Decided \cup Launching,
         l \in Decided => writer' = t,
         l \in Decided \cup Launching /\ writer' = t => readers = {},
         UNCHANGED <<readers, registered, cancelled, root>>,
         launches' \in Generations,
         launches' = launches \/ (launches' = launches + 1 /\ call[t].at \in Preparing /\ l \notin Preparing),
         l \in Preparing => call[t].at \in Preparing,
         startCancel' \in {0} \cup Generations, current' \in Generations,
         gens' \in [Generations -> Gen], Halts(t), Inside(t, call[t], call'[t]),
         \A g \in Generations : Uncut(gens'[g]) <=> Uncut(gens[g])
  PROVE  Step(t)
<1> DEFINE c == call[t]
<1>1. /\ c.at \notin Reading \cup Served
      /\ l \notin Reading \cup Served /\ "idle" \notin Starting
  BY DEF Starting, Decided, Launching, Reading, Admitted, Served
<1>2. LockInv /\ launches \in Nat /\ writer \in Tasks \cup {None} /\ startMu = t /\ None \notin Tasks
  BY Types DEF IInv, LockInv, Generations
<1>3. Moves(t)
  BY <1>2, Types DEF Moves
<1>4. Counts(t)
  <2>1. CASE launches' = launches
    BY <1>2, <2>1 DEF Counts, One
  <2>2. CASE launches' = launches + 1 /\ c.at \in Preparing /\ l \notin Preparing
    <3>1. One(c.at \in Preparing) = 1 /\ One(l \in Preparing) = 0
      BY <2>2 DEF One
    <3>2. launches + 1 + 0 <= launches + 1
      BY <1>2
    <3>3. QED
      BY <2>2, <3>1, <3>2 DEF Counts
  <2>3. QED
    BY <2>1, <2>2
<1>5. Locks(t, l)
  <2>1. t \notin readers /\ t \notin registered
    BY <1>1, <1>2 DEF LockInv
  <2>2. QED
    BY <1>1, <1>2, <2>1 DEF Locks
<1>6. Cuts(t)
  BY NotCutting DEF Starting, Decided, Launching
<1>7. QED
  BY <1>3, <1>4, <1>5, <1>6 DEF Step

(* What a start may rely on.                                                *)
LEMMA StartFacts ==
  ASSUME IInv, NEW t \in Tasks, call[t].at \in Starting
  PROVE  /\ startMu = t /\ call[t] \in Calls
         /\ writer = t => call[t].at \in Asking \cup Decided \cup Launching
         /\ call[t].at \in Decided => writer = t
         /\ call[t].at \in Decided \cup Launching /\ writer = t => readers = {}
         /\ current <= launches /\ current \in Nat /\ launches \in Nat
         /\ call[t].at \in Decided \cup Launching \cup {"launch"} => call[t].gen = current
         /\ call[t].at \in {"clean", "cleanWait", "cleanLate"} => gens[current].state = "stopped"
         /\ call[t].at \in {"build", "lockSwap"} =>
              AtRest(gens[current]) /\ call[t].gen > current /\ call[t].gen <= launches
         /\ call[t].at = "launch" => AtRest(gens[current]) /\ AllCut
         /\ call[t].at \in Launching => gens[current].transition = "launch"
         /\ call[t].at = "enabling" => ~gens[current].attached
         /\ call[t].at = "unlaunch" => ~gens[current].data
         /\ call[t].at = "restart" => \/ gens[current].state = "running"
                                      \/ Uncancelled(gens[current]) \/ AllCut
         /\ gens[current].transition = "launch" => AllCut
         /\ \A g \in Generations : /\ gens[g] \in Gen /\ Sound(gens[g])
                                   /\ g # current => AtRest(gens[g])
                                   /\ gens[g].transition = "launch" => call[t].at \in Launching
         /\ call[t].at \notin Reading \cup Served \cup {"halting"}
         /\ current \in Generations
<1>1. LockInv /\ StartInv /\ GenInv /\ RequestInv
  BY DEF IInv
<1>2. startMu = t /\ \A g \in Generations : gens[g].transition = "launch" => call[t].at \in Launching
  BY <1>1 DEF LockInv, GenInv
<1>3. call[t].at \notin Reading \cup Served \cup {"halting"}
  BY DEF Starting, Decided, Launching, Reading, Admitted, Served
<1>4. /\ call[t] \in Calls /\ current \in Nat /\ launches \in Nat /\ current \in Generations
      /\ \A g \in Generations : gens[g] \in Gen
  BY Types DEF Generations
<1>5. QED
  BY <1>1, <1>2, <1>3, <1>4 DEF LockInv, StartInv, GenInv, RequestInv

(* The steps of a start that leave the generations alone.                   *)
LEMMA LocksKeep ==
  ASSUME IInv, NEW t \in Tasks, LockStart(t) \/ Announce(t)
  PROVE  Step(t)
<1> DEFINE c == call[t]
<1>1. LockInv /\ StartInv /\ GenInv /\ RequestInv /\ None \notin Tasks
  BY Types DEF IInv
<1>2. UNCHANGED <<gens, registry, readers, startCancel, current, launches, root>>
  BY DEF LockStart, Announce
<1>3. Halts(t)
  BY <1>2, UnchangedGens DEF LockStart, Announce
<1>4. call[t].at # "cutting" /\ call'[t].at # "cutting" => Cuts(t)
  BY <1>2, NotCutting
<1>5. CASE LockStart(t)
  <2>1. /\ call' \in [Tasks -> Calls] /\ \A u \in Tasks : u # t => call'[u] = call[u]
        /\ call'[t].at = "lockCheck" /\ c.at = "starting" /\ startMu = None /\ startMu' = t
        /\ writer' = writer
    BY <1>5, Going DEF LockStart, Places, Preparing
  <2>2. Moves(t)
    BY <1>2, <2>1, Types DEF Moves, registry
  <2>3. Counts(t)
    BY <1>2, <2>1, Types DEF Counts, One, Preparing, Generations
  <2>4. Locks(t, "lockCheck")
    BY <1>1, <1>2, <2>1 DEF LockInv, Locks, registry, Starting, Decided, Launching, Asking, Reading, Admitted, Served
  <2>5. \A g \in Generations : gens[g].transition # "launch" /\ gens[g].state # "launching"
    BY <1>1, <2>1 DEF GenInv, Sound
  <2>6. current <= current /\ current \in Generations
    BY Types DEF Generations
  <2>7. Inside(t, c, call'[t])
    BY <1>1, <1>2, <2>1, <2>5, <2>6 DEF Inside, StartInv, GenInv, registry, Starting, Decided, Launching,
         Reading, Admitted, Served
  <2>8. QED
    BY <1>3, <1>4, <2>1, <2>2, <2>3, <2>4, <2>7 DEF Step
<1>6. CASE Announce(t)
  <2>1. call' = call /\ c.at \in {"lockCheck", "lockSwap", "lockFinish", "lockClose"} /\ startMu' = startMu
        /\ writer = None /\ writer' = t
    BY <1>6 DEF Announce
  <2>2. CASE c.at = "lockClose"
    BY <1>6, <2>2, BeginsKeep
  <2>3. CASE c.at # "lockClose"
    <3>1. c.at \in Starting /\ c.at \in Asking /\ c.at \notin Decided \cup Launching
      BY <2>1, <2>3 DEF Starting, Asking, Decided, Launching
    <3>2. Moves(t)
      BY <1>2, <2>1, Types DEF Moves, registry
    <3>3. Counts(t)
      BY <1>2, <2>1, Types DEF Counts, One, Generations
    <3>4. Locks(t, c.at)
      BY <1>1, <1>2, <2>1, <3>1 DEF LockInv, Locks, registry
    <3>5. current <= current
      BY Types DEF Generations
    <3>6. Inside(t, c, call'[t])
      BY <1>2, <2>1, <3>1, <3>5, StartFacts DEF Inside, registry, Decided
    <3>7. QED
      BY <1>3, <1>4, <2>1, <3>2, <3>3, <3>4, <3>6 DEF Step
  <2>4. QED
    BY <2>2, <2>3
<1>7. QED
  BY <1>5, <1>6

(* The steps of a start that change, at most, the current generation.       *)
LEMMA CurrentKeeps ==
  ASSUME IInv, NEW t \in Tasks, NEW l \in Starting \cup {"idle"}, NEW H \in Gen,
         call[t].at \in Decided \cup Launching \cup {"lockCheck"},
         call' \in [Tasks -> Calls], \A u \in Tasks : u # t => call'[u] = call[u],
         call'[t].at = l, l # "idle" => call'[t].gen = current,
         l \notin {"lockCheck", "build", "lockSwap", "launch"},
         l \in Preparing => call[t].at \in Preparing,
         startMu' = IF l = "idle" THEN None ELSE t,
         writer' = IF l = "idle" /\ writer = t THEN None ELSE writer,
         l \in Decided => writer = t,
         l \in Decided \cup Launching /\ writer = t => readers = {},
         l \in {"lockFinish", "closing"} => writer # t,
         UNCHANGED <<readers, registry, root, startCancel, current, launches>>,
         gens' = [gens EXCEPT ![current] = H], Sound(H),
         l \in {"clean", "cleanWait", "cleanLate"} => H.state = "stopped",
         H.transition = "launch" <=> l \in Launching,
         l = "enabling" => ~H.attached, l = "unlaunch" => ~H.data,
         H.transition = "launch" => AllCut,
         l = "restart" => H.state = "running" \/ Uncancelled(H) \/ AllCut,
         Uncut(H) <=> Uncut(gens[current]),
         H.state # "stopped" /\ H.launchCtx = "stopped" =>
           \/ H.attached
           \/ /\ gens[current].state # "stopped" /\ gens[current].launchCtx = "stopped"
              /\ ~gens[current].attached
  PROVE  Step(t)
<1> DEFINE c == call[t]
<1>1. /\ c.at \in Starting /\ c.at \notin Reading \cup Served \cup {"halting"}
      /\ "idle" \notin Starting /\ l \notin Reading \cup Served
  BY DEF Starting, Decided, Launching, Reading, Admitted, Served
<1>2. /\ startMu = t /\ current \in Generations /\ current \in Nat /\ launches \in Generations
      /\ current <= launches
      /\ \A g \in Generations : /\ gens[g] \in Gen /\ Sound(gens[g])
                                /\ g # current => AtRest(gens[g])
                                /\ gens[g].transition = "launch" => c.at \in Launching
      /\ startCancel \in {0} \cup Generations /\ gens \in [Generations -> Gen]
      /\ None \notin Tasks
  BY <1>1, StartFacts, Types
<1>3. /\ gens' \in [Generations -> Gen] /\ gens'[current] = H
      /\ \A g \in Generations : g # current => gens'[g] = gens[g]
  BY <1>2
<1>4. Halts(t)
  BY <1>1, <1>2, <1>3 DEF Halts
<1>5. Inside(t, c, call'[t])
  <2>1. \A g \in Generations :
          /\ Sound(gens'[g])
          /\ g # current => AtRest(gens'[g])
          /\ gens'[g].transition = "launch" => l \in Launching
    BY <1>2, <1>3 DEF AtRest
  <2>2. current <= current
    BY <1>2
  <2>3. QED
    BY <1>1, <1>2, <1>3, <2>1, <2>2 DEF Inside, registry, Decided, Launching
<1>6. /\ writer' = writer \/ (writer = t /\ writer' = None)
      /\ l \in Decided => writer' = t
      /\ l \in Decided \cup Launching /\ writer' = t => readers = {}
  BY <1>1 DEF Starting
<1>7. writer' = t => l \in Asking \cup Decided \cup Launching
  BY <1>2 DEF Starting, Asking
<1>8. \A g \in Generations : Uncut(gens'[g]) <=> Uncut(gens[g])
  BY <1>3
<1>9. QED
  BY <1>1, <1>2, <1>3, <1>4, <1>5, <1>6, <1>7, <1>8, StartingKeeps DEF registry

(* How these steps move the call and the locks.                             *)
LEMMA ReturningLocked ==
  ASSUME IInv, NEW t \in Tasks, call[t].at \in Decided, ReturnLocked(t)
  PROVE  /\ call' \in [Tasks -> Calls] /\ \A u \in Tasks : u # t => call'[u] = call[u]
         /\ call'[t].at = "idle" /\ startMu' = None /\ writer' = None /\ writer = t
         /\ UNCHANGED <<readers, startCancel, current, launches, root>>
<1>1. call[t].at \in Starting
  BY DEF Starting
<1>2. writer = t
  BY <1>1, StartFacts
<1>3. QED
  BY <1>2, Returning DEF ReturnLocked

LEMMA ChecksKeep ==
  ASSUME IInv, NEW t \in Tasks, StartChecks(t) \/ Restart(t)
  PROVE  Step(t)
<1> DEFINE c == call[t] G == gens[current]
<1>1. c.at \in {"lockCheck", "restart"} /\ c.at \in Starting /\ c.at \in Decided \cup {"lockCheck"}
  BY DEF StartChecks, Restart, Starting, Decided
<1>2. /\ current \in Generations /\ G \in Gen /\ Sound(G) /\ startMu = t
      /\ gens \in [Generations -> Gen]
      /\ G.transition = "launch" => c.at \in Launching
  BY <1>1, StartFacts, Types
<1>3. G.transition # "launch" /\ G.state # "launching"
  BY <1>1, <1>2 DEF Launching, Sound
<1>4. gens = [gens EXCEPT ![current] = G]
  BY <1>2
<1>5. CASE StartChecks(t)
  <2> DEFINE l == IF G.state = "stopped" THEN "clean" ELSE "restart"
  <2>1. /\ writer = t /\ readers = {} /\ GoesFor(t, l, current)
        /\ UNCHANGED <<manager, gens, registry>>
    BY <1>5 DEF StartChecks, Writes
  <2>2. l \in Places /\ l \in Decided /\ l \in Starting
    BY DEF Places, Preparing, Decided, Starting
  <2>3. l = "clean" => G.state = "stopped"
    OBVIOUS
  <2>4. l = "restart" => G.state = "running"
    BY <1>2, <1>3 DEF Gen
  <2>5. c.at \in Preparing
    BY <1>5 DEF StartChecks, Preparing
  <2>6. l \notin Launching
    BY DEF Launching
  <2> HIDE DEF l
  <2>7. /\ call' \in [Tasks -> Calls] /\ \A u \in Tasks : u # t => call'[u] = call[u]
        /\ call'[t].at = l /\ call'[t].gen = current
    BY <1>2, <2>1, <2>2, GoingFor
  <2>8. l \in {"clean", "restart"}
    BY DEF l
  <2> HIDE DEF G
  <2>9. QED
    BY <1>1, <1>2, <1>3, <1>4, <2>1, <2>2, <2>3, <2>4, <2>5, <2>6, <2>7, <2>8, CurrentKeeps
       DEF manager, registry, G
<1>6. CASE Restart(t)
  <2>1. c.at = "restart" /\ c.at \in Decided /\ UNCHANGED registry
    BY <1>6 DEF Restart, Decided
  <2>2. /\ c.gen = current /\ writer = t /\ readers = {}
        /\ G.state = "running" \/ Uncancelled(G) \/ AllCut
    BY <1>1, <2>1, StartFacts
  <2>3. CASE ReturnLocked(t) /\ UNCHANGED gens
    <3>1. /\ call' \in [Tasks -> Calls] /\ \A u \in Tasks : u # t => call'[u] = call[u]
          /\ call'[t].at = "idle" /\ startMu' = None /\ writer' = None
          /\ UNCHANGED <<readers, startCancel, current, launches, root>>
      BY <2>1, <2>3, ReturningLocked
    <3>2. "idle" \notin Launching \cup Decided \cup Preparing
      BY DEF Launching, Decided, Preparing
    <3>3. gens' = [gens EXCEPT ![current] = G]
      BY <1>4, <2>3
    <3> HIDE DEF G
    <3>4. QED
      BY <1>1, <1>2, <1>3, <2>1, <2>2, <3>1, <3>2, <3>3, CurrentKeeps DEF G
  <2>4. CASE CanLaunch(c.gen) /\ Goes(t, "launching") /\ UNCHANGED manager
    <3> DEFINE H == [Launched(G, FALSE) EXCEPT !.launchCtx = "none"]
    <3>1. gens' = [gens EXCEPT ![current] = H] /\ G.state = "stopped" /\ G.transition = "none"
      BY <1>2, <1>6, <2>2, <2>4 DEF Restart, CanLaunch
    <3>2. AllCut /\ G.cleanup = "none" /\ ~Uncut(G)
      BY <1>2, <2>2, <3>1 DEF Sound, Uncancelled, Uncut
    <3>3. "launching" \in Places /\ "launching" \in Launching /\ "launching" \in Starting
          /\ "launching" \notin Preparing /\ "launching" \notin Decided
      BY DEF Places, Launching, Starting, Preparing, Decided
    <3>4. /\ call' \in [Tasks -> Calls] /\ \A u \in Tasks : u # t => call'[u] = call[u]
          /\ call'[t].at = "launching" /\ call'[t].gen = current
      BY <2>2, <2>4, <3>3, Going
    <3> HIDE DEF G
    <3>5. /\ H \in Gen /\ Sound(H) /\ H.state = "launching" /\ H.transition = "launch"
          /\ H.launchCtx = "none" /\ ~Uncut(H)
      BY <1>2, <3>2 DEF Launched, Gen, Sound, Uncut
    <3> HIDE DEF H
    <3>6. QED
      BY <1>1, <1>2, <2>1, <2>2, <2>4, <3>1, <3>2, <3>3, <3>4, <3>5, CurrentKeeps DEF manager, registry, G
  <2>5. QED
    BY <1>6, <2>3, <2>4 DEF Restart
<1>7. QED
  BY <1>5, <1>6

LEMMA UnlaunchedFields ==
  ASSUME NEW G \in Gen, NEW failed \in BOOLEAN
  PROVE  /\ Unlaunched(G, failed) \in Gen
         /\ Unlaunched(G, failed).transition = "none" /\ Unlaunched(G, failed).state = "stopped"
         /\ Unlaunched(G, failed).data = G.data /\ Unlaunched(G, failed).cleanup = G.cleanup
<1> DEFINE E == Emptied(G, failed)
<1>1. E \in Gen /\ E.data = G.data /\ E.cleanup = G.cleanup
  BY EmptiedFields DEF SameService
<1>2. Unlaunched(G, failed) = [E EXCEPT !.state = "stopped", !.transition = "none",
                                        !.attached = FALSE, !.failed = failed]
  BY DEF Unlaunched
<1> HIDE DEF E
<1> DEFINE U == [E EXCEPT !.state = "stopped", !.transition = "none",
                          !.attached = FALSE, !.failed = failed]
<1>3. U \in Gen
  BY ZenonT(30), <1>1 DEF Gen
<1>4. U.transition = "none" /\ U.state = "stopped" /\ U.data = G.data /\ U.cleanup = G.cleanup
  BY ZenonT(30), <1>1 DEF Gen
<1> HIDE DEF U
<1>5. QED
  BY <1>2, <1>3, <1>4 DEF U

LEMMA LaunchesKeep ==
  ASSUME IInv, NEW t \in Tasks,
         LaunchWarms(t) \/ LaunchFails(t) \/ LaunchDetaches(t) \/ LaunchEnables(t) \/ Unlaunch(t)
  PROVE  Step(t)
<1> DEFINE c == call[t] G == gens[current]
<1>1. /\ c.at \in Launching /\ c.at \in Starting /\ c.at \in Decided \cup Launching \cup {"lockCheck"}
      /\ UNCHANGED registry
  BY DEF LaunchWarms, LaunchFails, LaunchDetaches, LaunchEnables, Unlaunch, Launching, Starting
<1>2. /\ current \in Generations /\ G \in Gen /\ Sound(G) /\ startMu = t
      /\ gens \in [Generations -> Gen] /\ c.gen = current
      /\ writer = t => readers = {}
      /\ AllCut /\ G.transition = "launch" /\ G.cleanup = "none" /\ ~Uncut(G)
      /\ c.at = "enabling" => ~G.attached
      /\ c.at = "unlaunch" => ~G.data
      /\ call \in [Tasks -> Calls]
  BY <1>1, StartFacts, Types DEF Sound, Uncut
<1> HIDE DEF G
<1>3. ASSUME NEW l \in Launching, NEW H \in Gen,
             \/ Goes(t, l)
             \/ call' = call /\ c.at = l,
             UNCHANGED manager,
             gens' = [gens EXCEPT ![current] = H], Sound(H), H.transition = "launch",
             H.state \in {G.state, "stopped"}, l = "enabling" => ~H.attached, l = "unlaunch" => ~H.data,
             H.state # "stopped" /\ H.launchCtx = "stopped" =>
               H.attached \/ (G.state # "stopped" /\ G.launchCtx = "stopped" /\ ~G.attached)
      PROVE  Step(t)
  <2>1. /\ l \in Places /\ l \in Starting /\ l \notin Preparing /\ l \notin Decided /\ l # "idle"
        /\ l \notin {"lockCheck", "build", "lockSwap", "launch", "lockFinish", "closing"}
        /\ l \notin {"clean", "cleanWait", "cleanLate", "restart"}
    BY DEF Places, Starting, Preparing, Decided, Launching
  <2>2. /\ call' \in [Tasks -> Calls] /\ \A u \in Tasks : u # t => call'[u] = call[u]
        /\ call'[t].at = l /\ call'[t].gen = current
    BY <1>2, <1>3, <2>1, Going
  <2>3. ~Uncut(H)
    BY <1>3 DEF Uncut
  <2>4. QED
    BY <1>1, <1>2, <1>3, <2>1, <2>2, <2>3, CurrentKeeps DEF manager, G
<1>4. ASSUME LaunchReturns(t), NEW H \in Gen,
             gens' = [gens EXCEPT ![current] = H], Sound(H), H.transition = "none", H.state # "launching",
             H.state # "stopped" /\ H.launchCtx = "stopped" =>
               H.attached \/ (G.state # "stopped" /\ G.launchCtx = "stopped" /\ ~G.attached)
      PROVE  Step(t)
  <2>1. ~Uncut(H) /\ H.transition # "launch"
    BY <1>4 DEF Uncut
  <2>2. CASE writer = t
    <3>1. ReturnLocked(t)
      BY <1>4, <2>2 DEF LaunchReturns
    <3>2. /\ call' \in [Tasks -> Calls] /\ \A u \in Tasks : u # t => call'[u] = call[u]
          /\ call'[t].at = "idle" /\ startMu' = None /\ writer' = None
          /\ UNCHANGED <<readers, startCancel, current, launches, root>>
      BY <3>1, Returning DEF ReturnLocked
    <3>3. "idle" \notin Launching \cup Decided \cup Preparing
      BY DEF Launching, Decided, Preparing
    <3>4. QED
      BY <1>1, <1>2, <1>4, <2>2, <2>1, <3>2, <3>3, CurrentKeeps DEF G
  <2>3. CASE writer # t
    <3>1. Goes(t, "lockFinish") /\ UNCHANGED manager
      BY <1>4, <2>3 DEF LaunchReturns
    <3>2. /\ "lockFinish" \in Places /\ "lockFinish" \in Starting
          /\ "lockFinish" \notin Launching \cup Decided \cup Preparing
      BY DEF Places, Starting, Launching, Decided, Preparing
    <3>3. /\ call' \in [Tasks -> Calls] /\ \A u \in Tasks : u # t => call'[u] = call[u]
          /\ call'[t].at = "lockFinish" /\ call'[t].gen = current
      BY <1>2, <3>1, <3>2, Going
    <3>4. QED
      BY <1>1, <1>2, <1>4, <2>3, <2>1, <3>1, <3>2, <3>3, CurrentKeeps DEF manager, G
  <2>4. QED
    BY <2>2, <2>3
<1>5. CASE LaunchWarms(t)
  <2> DEFINE H == [G EXCEPT !.workers = TRUE]
  <2>1. /\ gens' = [gens EXCEPT ![current] = H] /\ call' = call /\ c.at = "launching"
        /\ UNCHANGED manager
    BY <1>2, <1>5 DEF LaunchWarms, G
  <2>2. /\ H \in Gen /\ Sound(H) /\ H.transition = "launch" /\ H.state = G.state
        /\ H.launchCtx = G.launchCtx /\ H.attached = G.attached
    BY <1>2 DEF Gen, Sound
  <2> HIDE DEF H
  <2>3. "launching" \in Launching /\ G.attached \in BOOLEAN
    BY <1>2 DEF Launching, Gen
  <2>4. QED
    BY <1>3, <2>1, <2>2, <2>3
<1>6. CASE LaunchFails(t)
  <2> DEFINE H == [G EXCEPT !.data = FALSE]
  <2>1. gens' = [gens EXCEPT ![current] = H] /\ Goes(t, "unlaunch") /\ UNCHANGED manager
    BY <1>2, <1>6 DEF LaunchFails, G
  <2>2. /\ H \in Gen /\ Sound(H) /\ H.transition = "launch" /\ H.state = G.state /\ ~H.data
        /\ H.launchCtx = G.launchCtx /\ H.attached = G.attached
    BY <1>2 DEF Gen, Sound
  <2> HIDE DEF H
  <2>3. "unlaunch" \in Launching /\ G.attached \in BOOLEAN
    BY <1>2 DEF Launching, Gen
  <2>4. QED
    BY <1>3, <2>1, <2>2, <2>3
<1>7. CASE LaunchDetaches(t)
  <2> DEFINE H == [G EXCEPT !.attached = FALSE]
  <2>1. /\ gens' = [gens EXCEPT ![current] = H] /\ Goes(t, "enabling") /\ UNCHANGED manager
        /\ G.attached => G.launchCtx = "live"
    BY <1>2, <1>7 DEF LaunchDetaches, DataLive, G
  <2>2. /\ H \in Gen /\ Sound(H) /\ H.transition = "launch" /\ H.state = G.state /\ ~H.attached
        /\ H.launchCtx = G.launchCtx
    BY <1>2 DEF Gen, Sound
  <2> HIDE DEF H
  <2>3. "enabling" \in Launching
    BY DEF Launching
  <2>4. QED
    BY <1>3, <2>1, <2>2, <2>3
<1>8. CASE LaunchEnables(t)
  <2> DEFINE H == [G EXCEPT !.state = "running", !.transition = "none"]
  <2>1. /\ gens' = [gens EXCEPT ![current] = H] /\ LaunchReturns(t)
        /\ G.state = "launching" /\ ~G.attached
    BY <1>2, <1>8 DEF LaunchEnables, G
  <2>2. /\ H \in Gen /\ Sound(H) /\ H.transition = "none" /\ H.state = "running"
        /\ H.launchCtx = G.launchCtx
    BY <1>2, <2>1 DEF Gen, Sound
  <2> HIDE DEF H
  <2>3. QED
    BY <1>4, <2>1, <2>2
<1>9. CASE Unlaunch(t)
  <2>1. PICK failed \in BOOLEAN : gens' = [gens EXCEPT ![c.gen] = Unlaunched(@, failed)]
    BY <1>9 DEF Unlaunch
  <2> DEFINE H == Unlaunched(G, failed)
  <2>2. gens' = [gens EXCEPT ![current] = H] /\ LaunchReturns(t) /\ ~G.data
    BY <1>2, <1>9, <2>1 DEF Unlaunch, G
  <2>3. G \in Gen
    BY <1>2
  <2>4. /\ H \in Gen /\ H.transition = "none" /\ H.state = "stopped"
        /\ H.data = G.data /\ H.cleanup = G.cleanup
    BY <2>3, UnlaunchedFields
  <2> HIDE DEF H
  <2>5. Sound(H)
    BY <1>2, <2>2, <2>4 DEF Sound
  <2>6. QED
    BY <1>4, <2>2, <2>4, <2>5
<1>10. QED
  BY <1>5, <1>6, <1>7, <1>8, <1>9

(* The end of the locked part, with the stopped generation K left behind.   *)
LEMMA PreparesKeeps ==
  ASSUME IInv, NEW t \in Tasks, call[t].at \in {"clean", "cleanWait"}, Prepares(t),
         NEW K \in Gen, Sound(K), AtRest(K), K.launchCtx = gens[current].launchCtx,
         AtRest(gens[current]),
         NEW f, f = [gens EXCEPT ![current] = K], gens' = NewLaunch(f)
  PROVE  Step(t)
<1> DEFINE c == call[t] n == launches + 1 N == [gens[n] EXCEPT !.launchCtx = "live"]
<1>1. /\ c.at \in Starting /\ c.at \in Decided /\ c.at \in Preparing /\ c.at # "halting"
      /\ {"build"} \subseteq Starting \ (Decided \cup Launching \cup Preparing)
      /\ "build" \in Places /\ "build" # "idle" /\ "build" \notin Reading \cup Served
  BY DEF Starting, Decided, Launching, Preparing, Places, Reading, Admitted, Served
<1>2. /\ current \in Generations /\ current \in Nat /\ launches \in Nat /\ launches \in Generations
      /\ current <= launches /\ startMu = t /\ writer = t /\ c \in Calls
      /\ \A g \in Generations : /\ gens[g] \in Gen /\ Sound(gens[g])
                                /\ g # current => AtRest(gens[g])
                                /\ gens[g].transition = "launch" => c.at \in Launching
      /\ startCancel \in {0} \cup Generations /\ gens \in [Generations -> Gen]
      /\ call \in [Tasks -> Calls] /\ None \notin Tasks
      /\ c.at \notin Reading \cup Served
      /\ c.gen = current
  BY <1>1, StartFacts, Types
<1>3. n \in Generations /\ n # current /\ n > current
  <2>1. t \in Prepared /\ IsFiniteSet(Prepared)
    BY <1>1, FS_Subset, LifecycleAssumption DEF Prepared
  <2>2. Cardinality(Prepared) \in Nat /\ Cardinality(Prepared) # 0
    BY <2>1, FS_CardinalityType, FS_EmptySet
  <2>3. launches + Cardinality(Prepared) <= MaxGenerations /\ MaxGenerations \in Nat
    BY LifecycleAssumption DEF IInv, BoundInv
  <2>4. QED
    BY <1>2, <2>2, <2>3 DEF Generations
<1>4. N \in Gen /\ Sound(N) /\ AtRest(N)
  <2> DEFINE G == gens[n]
  <2>1. G \in Gen /\ Sound(G) /\ AtRest(G)
    BY <1>2, <1>3
  <2> HIDE DEF G
  <2>2. [G EXCEPT !.launchCtx = "live"] \in Gen /\ Sound([G EXCEPT !.launchCtx = "live"])
        /\ AtRest([G EXCEPT !.launchCtx = "live"])
    BY <2>1 DEF Gen, Sound, AtRest
  <2>3. QED
    BY <2>2 DEF G
<1>5. f[n] = gens[n] /\ gens' = [f EXCEPT ![n] = N]
  BY <1>2, <1>3 DEF NewLaunch
<1> HIDE DEF N
<1>6. /\ gens' \in [Generations -> Gen] /\ gens'[n] = N /\ gens'[current] = K
      /\ \A g \in Generations : g # current /\ g # n => gens'[g] = gens[g]
  BY ZenonT(30), <1>2, <1>3, <1>4, <1>5
<1>7. /\ call' \in [Tasks -> Calls] /\ \A u \in Tasks : u # t => call'[u] = call[u]
      /\ call'[t].at = "build" /\ call'[t].gen = n
  <2> DEFINE d == [c EXCEPT !.at = "build", !.gen = n, !.old = c.gen]
  <2>1. call' = [call EXCEPT ![t] = d]
    BY <1>2 DEF Prepares
  <2>2. d \in Calls /\ d.at = "build" /\ d.gen = n
    BY <1>1, <1>2, <1>3 DEF Calls
  <2> HIDE DEF d
  <2>3. QED
    BY <1>2, <2>1, <2>2
<1>8. /\ launches' = n /\ startCancel' = n /\ writer' = None /\ current' = current
      /\ UNCHANGED <<startMu, readers, root, registered, cancelled>>
  BY DEF Prepares, registry
<1> HIDE DEF n
<1>9. \A g \in Generations :
        /\ Sound(gens'[g]) /\ AtRest(gens'[g])
  BY <1>2, <1>4, <1>6
<1>10. Halts(t)
  BY <1>9 DEF Halts, AtRest
<1>11. Inside(t, c, call'[t])
  <2>1. current <= n /\ current <= current /\ n <= n
    BY <1>2 DEF n
  <2>2. /\ "build" \in Starting /\ "build" \notin Decided \cup Launching \cup {"launch"}
        /\ "build" \notin {"clean", "cleanWait", "cleanLate"} \cup Reading \cup Served
    BY DEF Starting, Decided, Launching, Reading, Admitted, Served
  <2>3. \A g \in Generations : gens'[g].transition # "launch" /\ gens'[g].state # "launching"
    BY <1>9 DEF AtRest
  <2>4. QED
    BY <1>1, <1>2, <1>3, <1>7, <1>8, <1>9, <2>1, <2>2, <2>3 DEF Inside
<1>12. launches' = launches + 1
  BY <1>8 DEF n
<1>13. \A g \in Generations : Uncut(gens'[g]) <=> Uncut(gens[g])
  BY <1>2, <1>9 DEF AtRest, Uncut
<1>14. QED
  BY <1>1, <1>2, <1>3, <1>6, <1>7, <1>8, <1>10, <1>11, <1>12, <1>13, StartingKeeps

LEMMA CleansKeep ==
  ASSUME IInv, NEW t \in Tasks, CleanStopped(t) \/ CleanWaits(t) \/ CleanLate(t)
  PROVE  Step(t)
<1> DEFINE c == call[t] G == gens[current]
<1>1. /\ c.at \in {"clean", "cleanWait", "cleanLate"} /\ c.at \in Starting /\ c.at \in Decided
      /\ c.at \in Preparing
  BY DEF CleanStopped, CleanWaits, CleanLate, Starting, Decided, Preparing
<1>2. /\ current \in Generations /\ G \in Gen /\ Sound(G) /\ startMu = t /\ writer = t
      /\ readers = {} /\ c.gen = current /\ G.state = "stopped"
      /\ gens \in [Generations -> Gen] /\ call \in [Tasks -> Calls]
      /\ G.transition = "launch" => c.at \in Launching
  BY <1>1, StartFacts, Types
<1>3. G.transition # "launch"
  BY <1>1, <1>2 DEF Launching
<1>4. UNCHANGED registry
  BY DEF CleanStopped, CleanWaits, CleanLate, Refuses, Prepares
<1>5. gens = [gens EXCEPT ![current] = G]
  BY <1>2
<1> HIDE DEF G
<1>6. ASSUME Refuses(t), NEW K \in Gen, gens' = [gens EXCEPT ![current] = K],
             Sound(K), K.state = "stopped", K.transition # "launch", Uncut(K) <=> Uncut(G)
      PROVE  Step(t)
  <2>1. ReturnLocked(t)
    BY <1>6 DEF Refuses
  <2>2. /\ call' \in [Tasks -> Calls] /\ \A u \in Tasks : u # t => call'[u] = call[u]
        /\ call'[t].at = "idle" /\ startMu' = None /\ writer' = None
        /\ UNCHANGED <<readers, startCancel, current, launches, root>>
    BY <1>1, <2>1, ReturningLocked
  <2>3. "idle" \notin Launching \cup Decided \cup Preparing
    BY DEF Launching, Decided, Preparing
  <2>4. QED
    BY <1>1, <1>2, <1>4, <1>6, <2>2, <2>3, CurrentKeeps DEF G
<1>7. ASSUME NEW l \in {"cleanWait", "cleanLate"}, Goes(t, l), UNCHANGED <<manager, gens>>
      PROVE  Step(t)
  <2>1. /\ l \in Places /\ l \in Decided /\ l \in Preparing /\ l \in Starting /\ l \notin Launching
        /\ l \notin {"restart", "idle"}
    BY DEF Places, Decided, Preparing, Starting, Launching
  <2>2. /\ call' \in [Tasks -> Calls] /\ \A u \in Tasks : u # t => call'[u] = call[u]
        /\ call'[t].at = l /\ call'[t].gen = current
    BY <1>2, <1>7, <2>1, Going
  <2>3. gens' = [gens EXCEPT ![current] = G]
    BY <1>5, <1>7
  <2>4. QED
    BY <1>1, <1>2, <1>3, <1>4, <1>7, <2>1, <2>2, <2>3, CurrentKeeps DEF manager, G
<1>8. \A failed \in BOOLEAN :
        /\ Settled(G, failed) \in Gen /\ Sound(Settled(G, failed))
        /\ Settled(G, failed).state = "stopped" /\ Settled(G, failed).transition = G.transition
        /\ Settled(G, failed).launchCtx = G.launchCtx
        /\ Settled(G, failed).cleanup = G.cleanup
  BY <1>2 DEF Settled, Gen, Sound
<1>9. \A failed \in BOOLEAN :
        /\ ResetStopped(G, failed) \in Gen /\ Sound(ResetStopped(G, failed))
        /\ ResetStopped(G, failed).state = "stopped"
        /\ ResetStopped(G, failed).transition = G.transition
        /\ ResetStopped(G, failed).launchCtx = G.launchCtx
        /\ ResetStopped(G, failed).cleanup = G.cleanup
  <2> SUFFICES ASSUME NEW failed \in BOOLEAN
               PROVE  /\ ResetStopped(G, failed) \in Gen /\ Sound(ResetStopped(G, failed))
                      /\ ResetStopped(G, failed).state = "stopped"
                      /\ ResetStopped(G, failed).transition = G.transition
                      /\ ResetStopped(G, failed).launchCtx = G.launchCtx
                      /\ ResetStopped(G, failed).cleanup = G.cleanup
    OBVIOUS
  <2>1. ResetStopped(G, failed) \in Gen /\ SameService(G, ResetStopped(G, failed))
    BY <1>2, ResetFields
  <2>2. QED
    BY <1>2, <2>1 DEF SameService, Sound
<1>10. ASSUME NEW K \in Gen, Sound(K), K.state = "stopped", K.transition = G.transition,
              K.launchCtx = G.launchCtx, K.cleanup = G.cleanup, NEW f, f = [gens EXCEPT ![current] = K],
              \/ Refuses(t) /\ gens' = f
              \/ G.transition = "none" /\ c.at \in {"clean", "cleanWait"}
                 /\ Prepares(t) /\ gens' = NewLaunch(f)
       PROVE  Step(t)
  <2>1. CASE Refuses(t) /\ gens' = f
    BY <1>3, <1>6, <1>10, <2>1 DEF Uncut
  <2>2. CASE G.transition = "none" /\ c.at \in {"clean", "cleanWait"}
             /\ Prepares(t) /\ gens' = NewLaunch(f)
    <3>1. AtRest(K) /\ AtRest(G)
      BY <1>2, <1>10, <2>2 DEF AtRest
    <3>2. QED
      BY <1>10, <2>2, <3>1, PreparesKeeps DEF G
  <2>3. QED
    BY <1>10, <2>1, <2>2
<1>11. CASE CleanStopped(t)
  <2>1. CASE Goes(t, "cleanWait") /\ UNCHANGED <<manager, gens, registry>>
    BY <1>7, <2>1
  <2>2. CASE G.transition = "none" /\ gens[current].timedOut
    <3> DEFINE f == [gens EXCEPT ![current] = Settled(G, FALSE)]
    <3>1. \/ Refuses(t) /\ gens' = f
          \/ Prepares(t) /\ gens' = NewLaunch(f)
      BY <1>2, <1>11, <2>2 DEF CleanStopped, G
    <3> HIDE DEF f
    <3>2. c.at = "clean"
      BY <1>11 DEF CleanStopped
    <3>3. f = [gens EXCEPT ![current] = Settled(G, FALSE)]
      BY DEF f
    <3>4. QED
      BY <1>8, <1>10, <2>2, <3>1, <3>2, <3>3
  <2>3. CASE G.transition = "none" /\ ~gens[current].timedOut
    <3>1. PICK failed \in BOOLEAN :
            LET f == [gens EXCEPT ![current] = ResetStopped(G, failed)] IN
            \/ Refuses(t) /\ gens' = f
            \/ Prepares(t) /\ gens' = NewLaunch(f)
      BY <1>2, <1>11, <2>3 DEF CleanStopped, G
    <3> DEFINE f == [gens EXCEPT ![current] = ResetStopped(G, failed)]
    <3>2. \/ Refuses(t) /\ gens' = f
          \/ Prepares(t) /\ gens' = NewLaunch(f)
      BY <3>1
    <3> HIDE DEF f
    <3>3. c.at = "clean"
      BY <1>11 DEF CleanStopped
    <3>4. f = [gens EXCEPT ![current] = ResetStopped(G, failed)]
      BY DEF f
    <3>5. QED
      BY <1>9, <1>10, <2>3, <3>2, <3>3, <3>4
  <2>4. QED
    BY <1>2, <1>11, <2>1, <2>2, <2>3 DEF CleanStopped, G
<1>12. CASE CleanWaits(t)
  <2>1. CASE G.transition # "none"
    BY <1>2, <1>7, <1>12, <2>1 DEF CleanWaits, G
  <2>2. CASE G.transition = "none"
    <3> DEFINE f == [gens EXCEPT ![current] = Settled(G, FALSE)]
    <3>1. \/ Refuses(t) /\ gens' = f
          \/ Prepares(t) /\ gens' = NewLaunch(f)
      BY <1>2, <1>12, <2>2 DEF CleanWaits, G
    <3> HIDE DEF f
    <3>2. c.at = "cleanWait"
      BY <1>12 DEF CleanWaits
    <3>3. f = [gens EXCEPT ![current] = Settled(G, FALSE)]
      BY DEF f
    <3>4. QED
      BY <1>8, <1>10, <2>2, <3>1, <3>2, <3>3
  <2>3. QED
    BY <2>1, <2>2
<1>13. CASE CleanLate(t)
  <2> DEFINE H == [G EXCEPT !.timedOut = TRUE]
  <2>1. Refuses(t) /\ gens' = [gens EXCEPT ![current] = H]
    BY <1>2, <1>13 DEF CleanLate, G
  <2>2. /\ H \in Gen /\ Sound(H) /\ H.state = "stopped" /\ H.transition # "launch"
        /\ Uncut(H) <=> Uncut(G)
    BY <1>2, <1>3 DEF Gen, Sound, Uncut
  <2> HIDE DEF H
  <2>3. QED
    BY <1>6, <2>1, <2>2
<1>14. QED
  BY <1>11, <1>12, <1>13

(* The steps of a start that change a generation at rest.                   *)
LEMMA RestingKeeps ==
  ASSUME IInv, NEW t \in Tasks, NEW l \in {"idle", "lockSwap", "lockFinish", "closing"},
         call[t].at \in {"build", "lockFinish", "closing"},
         call' \in [Tasks -> Calls], \A u \in Tasks : u # t => call'[u] = call[u],
         call'[t].at = l, l = "lockSwap" => call[t].at = "build" /\ call'[t].gen = call[t].gen,
         startMu' = IF l = "idle" THEN None ELSE t,
         writer' = writer \/ (writer = t /\ writer' = None), l \in {"idle", "closing"} => writer' # t,
         startCancel' \in {0} \cup Generations,
         UNCHANGED <<readers, registry, root, current, launches>>,
         gens' \in [Generations -> Gen],
         \A g \in Generations :
           /\ gens'[g].state = gens[g].state /\ gens'[g].transition = gens[g].transition
           /\ gens'[g].launchCtx = "stopped" => gens[g].launchCtx = "stopped"
           /\ gens'[g].cleanup = gens[g].cleanup /\ gens'[g].data = gens[g].data
           /\ gens'[g].attached = gens[g].attached
  PROVE  Step(t)
<1> DEFINE c == call[t]
<1>1. /\ c.at \in Starting /\ c.at \notin Launching \cup Decided /\ c.at # "halting"
      /\ c.at \notin Reading \cup Served
      /\ l \in Starting \cup {"idle"} /\ l \notin Launching \cup Decided \cup Preparing
      /\ l \notin Reading \cup Served
      /\ l \in {"lockSwap", "lockFinish"} => l \in Asking
  BY DEF Starting, Launching, Decided, Preparing, Reading, Admitted, Served, Asking
<1>2. /\ startMu = t /\ current \in Generations /\ current \in Nat /\ launches \in Generations
      /\ current <= launches
      /\ \A g \in Generations : /\ gens[g] \in Gen /\ Sound(gens[g])
                                /\ g # current => AtRest(gens[g])
                                /\ gens[g].transition # "launch"
      /\ l = "lockSwap" => AtRest(gens[current]) /\ c.gen > current /\ c.gen <= launches
  BY <1>1, StartFacts, Types
<1>3. \A g \in Generations :
        /\ Sound(gens'[g]) /\ gens'[g].transition # "launch" /\ gens'[g].state # "launching"
        /\ g # current => AtRest(gens'[g])
  BY <1>2 DEF Sound, AtRest
<1>4. l = "lockSwap" => AtRest(gens'[current])
  BY <1>2 DEF AtRest
<1>5. Halts(t)
  <2>1. \A g \in Generations : gens[g].attached \in BOOLEAN
    BY <1>2 DEF Gen
  <2>2. QED
    BY <1>1, <1>2, <2>1 DEF Halts
<1>6. Inside(t, c, call'[t])
  <2>1. current <= current
    BY <1>2
  <2>2. QED
    BY <1>1, <1>2, <1>3, <1>4, <2>1 DEF Inside, registry, Decided
<1>7. \A g \in Generations : Uncut(gens'[g]) <=> Uncut(gens[g])
  BY DEF Uncut
<1>8. QED
  BY <1>1, <1>2, <1>5, <1>6, <1>7, StartingKeeps DEF registry, Starting

LEMMA BuildKeeps ==
  ASSUME IInv, NEW t \in Tasks, Build(t)
  PROVE  Step(t)
<1> DEFINE c == call[t] G == gens[c.gen]
<1>1. c.at = "build" /\ c.at \in Starting /\ UNCHANGED <<manager, registry>>
  BY DEF Build, Starting
<1>2. /\ c \in Calls /\ c.gen \in Generations /\ G \in Gen /\ startMu = t
      /\ gens \in [Generations -> Gen] /\ startCancel \in {0} \cup Generations
      /\ writer = t => c.at \in Asking \cup Decided \cup Launching
  BY <1>1, StartFacts, Types DEF Calls
<1>3. writer # t
  BY <1>1, <1>2 DEF Asking, Decided, Launching
<1>4. PICK l \in {"lockSwap", "lockFinish"} : Goes(t, l)
  BY DEF Build
<1>5. l \in Places
  BY DEF Places
<1>6. /\ call' \in [Tasks -> Calls] /\ \A u \in Tasks : u # t => call'[u] = call[u]
      /\ call'[t].at = l /\ call'[t].gen = c.gen
  BY <1>4, <1>5, Going
<1>7. gens' \in [Generations -> Gen] /\ \A g \in Generations :
        /\ gens'[g].state = gens[g].state /\ gens'[g].transition = gens[g].transition
        /\ gens'[g].launchCtx = gens[g].launchCtx
        /\ gens'[g].cleanup = gens[g].cleanup /\ gens'[g].data = gens[g].data
        /\ gens'[g].attached = gens[g].attached
  <2> DEFINE H == Built(G)
  <2>1. gens' = [gens EXCEPT ![c.gen] = H] \/ gens' = gens
    BY DEF Build
  <2> HIDE DEF G
  <2>2. /\ H \in Gen /\ H.state = G.state /\ H.transition = G.transition
        /\ H.launchCtx = G.launchCtx /\ H.cleanup = G.cleanup /\ H.data = G.data
        /\ H.attached = G.attached
    BY <1>2 DEF Built, Gen
  <2> HIDE DEF H
  <2>3. QED
    BY <1>2, <2>1, <2>2 DEF G
<1>8. QED
  BY <1>1, <1>2, <1>3, <1>4, <1>6, <1>7, RestingKeeps DEF manager

LEMMA FinishStartKeeps ==
  ASSUME IInv, NEW t \in Tasks, FinishStart(t)
  PROVE  Step(t)
<1> DEFINE c == call[t] G == gens[c.gen]
           x == IF G.launchCtx = "live" THEN "done" ELSE G.launchCtx
           H == [G EXCEPT !.launchCtx = x]
<1>1. c.at = "lockFinish" /\ c.at \in Starting
  BY DEF FinishStart, Starting
<1>2. /\ c \in Calls /\ c.gen \in Generations /\ G \in Gen /\ startMu = t
      /\ gens \in [Generations -> Gen] /\ None \notin Tasks
  BY <1>1, StartFacts, Types DEF Calls
<1>3. /\ gens' = [gens EXCEPT ![c.gen] = H] /\ Goes(t, "closing") /\ writer = t /\ writer' = None
      /\ startCancel' = 0 /\ UNCHANGED <<startMu, readers, current, launches, root, registry>>
  BY <1>2 DEF FinishStart, Writes
<1>4. "closing" \in Places
  BY DEF Places
<1>5. /\ call' \in [Tasks -> Calls] /\ \A u \in Tasks : u # t => call'[u] = call[u]
      /\ call'[t].at = "closing"
  BY <1>3, <1>4, Going
<1>6. x \in {"none", "live", "stopped", "outrun", "done"} /\ (x = "stopped" => G.launchCtx = "stopped")
  BY <1>2 DEF Gen
<1> HIDE DEF G, x
<1>7. /\ H \in Gen /\ H.state = G.state /\ H.transition = G.transition
      /\ H.launchCtx = x /\ H.cleanup = G.cleanup /\ H.data = G.data
      /\ H.attached = G.attached
  BY <1>2, <1>6 DEF Gen
<1> HIDE DEF H
<1>8. gens' \in [Generations -> Gen] /\ \A g \in Generations :
        /\ gens'[g].state = gens[g].state /\ gens'[g].transition = gens[g].transition
        /\ gens'[g].launchCtx = "stopped" => gens[g].launchCtx = "stopped"
        /\ gens'[g].cleanup = gens[g].cleanup /\ gens'[g].data = gens[g].data
        /\ gens'[g].attached = gens[g].attached
  BY <1>2, <1>3, <1>6, <1>7 DEF G
<1>9. QED
  BY <1>1, <1>2, <1>3, <1>5, <1>8, RestingKeeps

LEMMA CloseOtherKeeps ==
  ASSUME IInv, NEW t \in Tasks, CloseOther(t)
  PROVE  Step(t)
<1> DEFINE c == call[t] g == IF current = c.gen THEN c.old ELSE c.gen G == gens[g]
<1>1. c.at = "closing" /\ c.at \in Starting
  BY DEF CloseOther, Starting
<1>2. /\ c \in Calls /\ g \in Generations /\ G \in Gen /\ startMu = t
      /\ gens \in [Generations -> Gen] /\ startCancel \in {0} \cup Generations /\ None \notin Tasks
      /\ writer = t => c.at \in Asking \cup Decided \cup Launching
  BY <1>1, StartFacts, Types DEF Calls
<1>3. writer # t
  BY <1>1, <1>2 DEF Asking, Decided, Launching
<1>4. /\ startMu' = None /\ Returns(t)
      /\ UNCHANGED <<writer, readers, startCancel, current, launches, root, registry>>
  BY DEF CloseOther
<1>5. PICK failed \in BOOLEAN : gens' = gens \/ gens' = [gens EXCEPT ![g] = Closed(@, failed)]
  BY DEF CloseOther
<1> DEFINE H == Closed(G, failed)
<1>6. gens' = gens \/ gens' = [gens EXCEPT ![g] = H]
  BY <1>5
<1> HIDE DEF G
<1>7. H \in Gen /\ SameButContext(G, H)
  BY <1>2, ClosedFields
<1> HIDE DEF H, g
<1>8. gens' \in [Generations -> Gen] /\ \A h \in Generations :
        /\ gens'[h].state = gens[h].state /\ gens'[h].transition = gens[h].transition
        /\ gens'[h].launchCtx = "stopped" => gens[h].launchCtx = "stopped"
        /\ gens'[h].cleanup = gens[h].cleanup /\ gens'[h].data = gens[h].data
        /\ gens'[h].attached = gens[h].attached
  BY <1>2, <1>6, <1>7 DEF G, SameButContext
<1>9. QED
  BY <1>1, <1>2, <1>3, <1>4, <1>8, Returning, RestingKeeps

LEMMA SwapKeeps ==
  ASSUME IInv, NEW t \in Tasks, Swap(t)
  PROVE  Step(t)
<1> DEFINE c == call[t]
<1>1. c.at = "lockSwap" /\ c.at \in Starting
  BY DEF Swap, Starting
<1>2. /\ c \in Calls /\ c.gen \in Generations /\ startMu = t
      /\ gens \in [Generations -> Gen] /\ startCancel \in {0} \cup Generations /\ None \notin Tasks
      /\ launches \in Generations /\ current \in Nat
      /\ AtRest(gens[current]) /\ c.gen > current
      /\ \A g \in Generations : Sound(gens[g]) /\ AtRest(gens[g])
  BY <1>1, StartFacts, Types DEF Calls
<1>3. /\ current' = c.gen /\ Goes(t, "launch") /\ writer = t /\ writer' = None
      /\ UNCHANGED <<startMu, readers, startCancel, launches, root, gens, registry>>
  BY DEF Swap, Writes
<1>4. /\ "launch" \in Places /\ "launch" \in Starting
      /\ "launch" \notin Decided \cup Launching \cup Asking \cup Preparing \cup Reading \cup Served
      /\ c.at \notin Reading \cup Served
  BY <1>1 DEF Places, Starting, Decided, Launching, Asking, Preparing, Reading, Admitted, Served
<1>5. /\ call' \in [Tasks -> Calls] /\ \A u \in Tasks : u # t => call'[u] = call[u]
      /\ call'[t].at = "launch" /\ call'[t].gen = c.gen
  BY <1>3, <1>4, Going
<1>6. Halts(t)
  BY <1>1, <1>3, UnchangedGens
<1>7. Inside(t, c, call'[t])
  <2>1. c.gen <= launches
    BY <1>1, StartFacts
  <2>2. QED
    BY <1>1, <1>2, <1>3, <1>4, <1>5, <2>1 DEF Inside, registry, AtRest, Generations
<1>8. \A g \in Generations : Uncut(gens'[g]) <=> Uncut(gens[g])
  BY <1>3
<1>9. QED
  BY <1>1, <1>2, <1>3, <1>4, <1>5, <1>6, <1>7, <1>8, StartingKeeps DEF registry

LEMMA LaunchNextKeeps ==
  ASSUME IInv, NEW t \in Tasks, LaunchNext(t)
  PROVE  Step(t)
<1> DEFINE c == call[t] O == [gens[c.old] EXCEPT !.life = FALSE]
           K == [gens EXCEPT ![c.old] = O] X == K[current] H == Launched(X, TRUE)
<1>1. c.at = "launch" /\ c.at \in Starting
  BY DEF LaunchNext, Starting
<1>2. /\ c \in Calls /\ c.old \in Generations /\ c.gen = current /\ startMu = t
      /\ gens \in [Generations -> Gen] /\ startCancel \in {0} \cup Generations /\ None \notin Tasks
      /\ launches \in Generations /\ current \in Nat /\ current \in Generations /\ current <= launches
      /\ AtRest(gens[current]) /\ AllCut
      /\ \A g \in Generations : Sound(gens[g]) /\ gens[g] \in Gen /\ AtRest(gens[g])
      /\ writer = t => c.at \in Asking \cup Decided \cup Launching
  BY <1>1, StartFacts, Types DEF Calls
<1>3. O \in Gen /\ Sound(O) /\ AtRest(O)
  <2> DEFINE G == gens[c.old]
  <2>1. G \in Gen /\ Sound(G) /\ AtRest(G)
    BY <1>2
  <2> HIDE DEF G
  <2>2. /\ [G EXCEPT !.life = FALSE] \in Gen /\ Sound([G EXCEPT !.life = FALSE])
        /\ AtRest([G EXCEPT !.life = FALSE])
    BY <2>1 DEF Gen, Sound, AtRest
  <2>3. QED
    BY <2>2 DEF G
<1>4. gens' = [K EXCEPT ![current] = H] /\ Goes(t, "launching") /\ UNCHANGED <<manager, registry>>
  <2>1. K = [gens EXCEPT ![c.old].life = FALSE]
    BY <1>2
  <2>2. QED
    BY <1>2, <2>1 DEF LaunchNext
<1> HIDE DEF O
<1>5. /\ K \in [Generations -> Gen]
      /\ \A g \in Generations : Sound(K[g]) /\ AtRest(K[g])
  BY <1>2, <1>3
<1>6. X \in Gen /\ Sound(X) /\ AtRest(X)
  BY <1>2, <1>5
<1> HIDE DEF X
<1>7. H \in Gen /\ Sound(H) /\ H.attached /\ H.transition = "launch"
  BY <1>6 DEF Launched, Gen, Sound, AtRest
<1> HIDE DEF H, K
<1>8. /\ gens' \in [Generations -> Gen] /\ gens'[current] = H
      /\ \A g \in Generations : g # current => Sound(gens'[g]) /\ AtRest(gens'[g])
  BY <1>2, <1>4, <1>5, <1>7
<1>9. /\ "launching" \in Places /\ "launching" \in Starting /\ "launching" \in Launching
      /\ "launching" \notin Decided \cup Preparing \cup Reading \cup Served
      /\ c.at \notin Reading \cup Served /\ c.at \notin Asking \cup Decided \cup Launching
  BY <1>1 DEF Places, Starting, Decided, Launching, Asking, Preparing, Reading, Admitted, Served
<1>10. /\ call' \in [Tasks -> Calls] /\ \A u \in Tasks : u # t => call'[u] = call[u]
       /\ call'[t].at = "launching" /\ call'[t].gen = current
  BY <1>2, <1>4, <1>9, Going
<1>11. Halts(t)
  BY <1>2, <1>7, <1>8 DEF Halts, AtRest
<1>12. Inside(t, c, call'[t])
  <2>1. current <= current
    BY <1>2
  <2>2. QED
    BY <1>1, <1>2, <1>4, <1>7, <1>8, <1>9, <1>10, <2>1 DEF Inside, manager, registry
<1>13. writer # t
  BY <1>2, <1>9
<1>14. \A g \in Generations : Uncut(gens'[g]) <=> Uncut(gens[g])
  BY <1>2, <1>7, <1>8 DEF Uncut, AtRest
<1>15. QED
  BY <1>1, <1>2, <1>4, <1>8, <1>9, <1>10, <1>11, <1>12, <1>13, <1>14, StartingKeeps DEF manager, registry

-----------------------------------------------------------------------------
(* finishStop, the initial state, and the theorems.                         *)

LEMMA FinishStopKeeps ==
  ASSUME IInv, NEW g \in Generations, FinishStop(g)
  PROVE  IInv'
<1> DEFINE G == gens[g]
<1>1. TypeOK /\ BoundInv /\ LockInv /\ StartInv /\ GenInv /\ RequestInv /\ StopInv /\ CutInv
  BY DEF IInv
<1>2. G.cleanup \in {"cancel", "reset"} /\ G \in Gen /\ Sound(G) /\ gens \in [Generations -> Gen]
  BY <1>1, Types DEF FinishStop, FinishStopCancels, FinishStopResets, GenInv
<1>3. G.transition = "stop" /\ G.state = "stopped" /\ g = current
  BY <1>1, <1>2 DEF Sound, GenInv, AtRest
<1>4. UNCHANGED <<call, manager, registered>>
  BY DEF FinishStop, FinishStopCancels, FinishStopResets, CancelAll, registry
<1>5. PICK H \in Gen : /\ gens' = [gens EXCEPT ![g] = H] /\ Sound(H) /\ H.state = "stopped"
                       /\ H.transition # "launch" /\ ~H.data
                       /\ H.attached = G.attached /\ H.launchCtx = G.launchCtx
                       /\ ~Uncut(G) /\ ~Uncut(H)
  <2> HIDE DEF G
  <2>1. CASE FinishStopCancels(g)
    <3> DEFINE H == [G EXCEPT !.cleanup = "reset"]
    <3>1. gens' = [gens EXCEPT ![g] = H]
      BY <2>1 DEF FinishStopCancels, G
    <3>2. H \in Gen /\ Sound(H) /\ H.state = "stopped" /\ H.transition # "launch" /\ ~H.data
          /\ H.attached = G.attached /\ H.launchCtx = G.launchCtx /\ ~Uncut(G) /\ ~Uncut(H)
      BY <1>2, <1>3 DEF Gen, Sound, Uncut
    <3> HIDE DEF H
    <3>3. QED
      BY <3>1, <3>2
  <2>2. CASE FinishStopResets(g)
    <3>1. PICK failed \in BOOLEAN : gens' = [gens EXCEPT ![g] = CleanedUp(@, failed)]
      BY <2>2 DEF FinishStopResets
    <3> DEFINE H == CleanedUp(G, failed)
    <3>2. gens' = [gens EXCEPT ![g] = H]
      BY <3>1 DEF G
    <3>3. H \in Gen /\ H.state = "stopped" /\ H.transition = "none" /\ H.cleanup = "none"
          /\ H.data = G.data /\ H.attached = G.attached /\ H.launchCtx = G.launchCtx
      <4> DEFINE E == Emptied(G, failed)
      <4>1. /\ E \in Gen /\ E.state = G.state /\ E.data = G.data
            /\ E.attached = G.attached /\ E.launchCtx = G.launchCtx
        BY <1>2, EmptiedFields DEF SameService
      <4>2. H = [E EXCEPT !.cleanup = "none", !.transition = "none", !.failed = failed]
        BY DEF CleanedUp
      <4> HIDE DEF E, H
      <4>3. QED
        BY <1>2, <1>3, <4>1, <4>2 DEF Gen
    <3>4. Sound(H) /\ ~H.data /\ ~Uncut(G) /\ ~Uncut(H)
      BY <1>2, <3>3 DEF Sound, Uncut
    <3> HIDE DEF H
    <3>5. QED
      BY <3>2, <3>3, <3>4
  <2>3. QED
    BY <2>1, <2>2 DEF FinishStop
<1>6. /\ gens' \in [Generations -> Gen] /\ gens'[current] = H
      /\ \A h \in Generations : h # current => gens'[h] = gens[h]
  BY <1>2, <1>3, <1>5
<1>7. cancelled \subseteq cancelled' /\ cancelled' \subseteq registered
  BY Types DEF FinishStop, FinishStopCancels, FinishStopResets, CancelAll, registry
<1>8. TypeOK' /\ LockInv'
  BY <1>1, <1>4, <1>6, <1>7 DEF TypeOK, LockInv, manager, Gen
<1>9. BoundInv'
  <2>1. Prepared' = Prepared
    BY <1>4 DEF Prepared
  <2>2. QED
    BY <1>1, <1>4, <2>1 DEF BoundInv, manager
<1>10. \A t \in Tasks : call[t].at \notin {"build", "lockSwap", "launch"} \cup Launching
  BY <1>1, <1>3 DEF StartInv, AtRest
<1>11. StartInv'
  <2>1. current' = current /\ launches' = launches
    BY <1>4 DEF manager
  <2>2. QED
    BY <1>1, <1>4, <1>5, <1>6, <1>10, <2>1 DEF StartInv, Launching
<1>12. GenInv'
  BY <1>1, <1>4, <1>5, <1>6 DEF GenInv, manager
<1>13. StopInv'
  BY <1>1, <1>4, <1>5, <1>6 DEF StopInv
<1>14. current' = current /\ call' = call
  BY <1>4 DEF manager
<1>15. AllCut => AllCut'
  BY <1>7, <1>14 DEF AllCut
<1>16. ASSUME NEW t \in Tasks, call[t].at = "restart"
       PROVE  AllCut'
  <2>1. CASE AllCut
    BY <1>15, <2>1
  <2>2. CASE ~AllCut
    <3>1. FinishStopCancels(g)
      BY <1>1, <1>3, <1>16, <2>2 DEF RequestInv, FinishStop, FinishStopResets, Uncancelled
    <3>2. readers = {}
      BY <1>1, <1>16 DEF LockInv, Decided
    <3>3. \A u \in Tasks : call[u].at \in Admitted => call[u].at \in Served /\ u \in registered
      BY <1>1, <3>2 DEF LockInv, Reading
    <3>4. cancelled' = cancelled \cup registered
      BY <3>1 DEF FinishStopCancels, CancelAll
    <3>5. QED
      BY <1>14, <3>3, <3>4 DEF AllCut
  <2>3. QED
    BY <2>1, <2>2
<1>17. RequestInv'
  BY <1>1, <1>5, <1>6, <1>10, <1>14, <1>16 DEF RequestInv
<1>18. CutInv'
  <2>1. \A h \in Generations : Uncut(gens'[h]) <=> Uncut(gens[h])
    BY <1>3, <1>5, <1>6
  <2>2. QED
    BY <1>1, <1>14, <2>1 DEF CutInv
<1>19. QED
  BY <1>8, <1>9, <1>11, <1>12, <1>13, <1>17, <1>18 DEF IInv

LEMMA InitInv == Init => IInv
<1> SUFFICES ASSUME Init PROVE IInv
  OBVIOUS
<1>1. 1 \in Generations /\ MaxGenerations \in Nat /\ 1 <= MaxGenerations /\ None \notin Tasks
  BY LifecycleAssumption DEF Generations
<1>2. Idle \in Calls /\ Idle.at = "idle"
  BY <1>1 DEF Idle, Calls, Places
<1>3. /\ Absent \in Gen /\ Sound(Absent) /\ AtRest(Absent)
      /\ Built(Absent) \in Gen /\ Sound(Built(Absent)) /\ AtRest(Built(Absent))
  BY DEF Absent, Built, Gen, Sound, AtRest
<1>4. gens \in [Generations -> Gen] /\ \A g \in Generations : Sound(gens[g]) /\ AtRest(gens[g])
  BY <1>3 DEF Init
<1>5. call \in [Tasks -> Calls] /\ \A t \in Tasks : call[t].at = "idle"
  BY <1>2 DEF Init
<1>6. TypeOK
  BY <1>1, <1>4, <1>5 DEF Init, TypeOK, Gen, Calls, Places
<1>7. BoundInv
  <2>1. Prepared = {}
    BY <1>5 DEF Prepared, Preparing
  <2>2. QED
    BY <1>1, <2>1, FS_EmptySet DEF BoundInv, Init
<1>8. LockInv
  BY <1>1, <1>5 DEF Init, LockInv, Starting, Asking, Decided, Launching, Reading, Admitted, Served
<1>9. StartInv
  BY <1>5 DEF Init, StartInv, Decided, Launching
<1>10. GenInv /\ StopInv
  BY <1>4 DEF GenInv, StopInv, AtRest
<1>11. RequestInv
  BY <1>1, <1>4, <1>5 DEF Init, RequestInv, AtRest, Reading, Admitted, Served
<1>12. CutInv
  BY <1>4, <1>5 DEF CutInv, Uncut, Cutting, AtRest
<1>13. QED
  BY <1>6, <1>7, <1>8, <1>9, <1>10, <1>11, <1>12 DEF IInv

LEMMA EveryStep ==
  ASSUME IInv, NEW t \in Tasks,
         \/ BeginStart(t) \/ BeginStop(t) \/ Enter(t) \/ BeginShutdown(t)
         \/ Steps(t) \/ OpenWorker(t) \/ RecoverWorker(t) \/ Looks(t) \/ Expands(t)
  PROVE  Step(t)
<1>1. CASE StartStep(t)
  BY <1>1, ChecksKeep, CleansKeep, BuildKeeps, SwapKeeps, LaunchNextKeeps, LaunchesKeep,
     FinishStartKeeps, CloseOtherKeeps DEF StartStep
<1>2. CASE StopStep(t)
  BY <1>2, BeginsKeep, StopsKeep, CuttingKeeps DEF StopStep
<1>3. CASE \/ RequestStep(t) \/ Enter(t) \/ OpenWorker(t) \/ RecoverWorker(t)
           \/ Looks(t) \/ Expands(t)
  BY <1>3, RequestsKeep
<1>4. CASE LockStep(t)
  BY <1>4, LocksKeep, StopsKeep, BeginsKeep, RequestsKeep DEF LockStep
<1>5. CASE BeginStart(t) \/ BeginStop(t) \/ BeginShutdown(t)
  BY <1>5, BeginsKeep
<1>6. QED
  BY <1>1, <1>2, <1>3, <1>4, <1>5 DEF Steps

LEMMA NextInv == IInv /\ [Next]_vars => IInv'
<1> SUFFICES ASSUME IInv, [Next]_vars PROVE IInv'
  OBVIOUS
<1>1. CASE UNCHANGED vars
  <2>1. UNCHANGED <<call, startMu, writer, readers, startCancel, current, gens, launches,
                    registered, cancelled, root>>
    BY <1>1 DEF vars, manager, registry
  <2>2. Prepared' = Prepared /\ (AllCut' <=> AllCut)
    BY <2>1 DEF Prepared, AllCut
  <2>3. TypeOK' /\ BoundInv' /\ LockInv'
    BY <2>1, <2>2 DEF IInv, TypeOK, BoundInv, LockInv
  <2>4. StartInv' /\ GenInv' /\ StopInv'
    BY <2>1 DEF IInv, StartInv, GenInv, StopInv
  <2>5. RequestInv' /\ CutInv'
    BY <2>1, <2>2 DEF IInv, RequestInv, CutInv
  <2>6. QED
    BY <2>3, <2>4, <2>5 DEF IInv
<1>2. QED
  BY <1>1, EveryStep, StepKeeps, FinishStopKeeps DEF Next

(* The invariant of lifecycle.go and trackedService from which the          *)
(* theorems below follow: startMu, mu and the transitions of a generation   *)
(* each belong to the call at the place where the code holds them, and every*)
(* generation but the current one is at rest.                               *)
THEOREM Invariance == Spec => []IInv
<1>1. QED
  BY InitInv, NextInv, PTL DEF Spec

(* The fields of every generation, the locks and the registry keep their    *)
(* types, and no start goes beyond the generations it was admitted for.     *)
THEOREM TypeCorrect == Spec => []TypeOK
<1>1. IInv => TypeOK
  BY DEF IInv
<1>2. QED
  BY <1>1, Invariance, PTL

(* trackedService.Start and StopService: a launch that a Stop has cancelled *)
(* before it let go of its context never comes to serve, except in the      *)
(* moment in which that Stop is about to halt it.                           *)
THEOREM LaunchStaysStopped == Spec => []StopSticks
<1>1. IInv => StopSticks
  <2> SUFFICES ASSUME IInv, NEW g \in Generations,
                      gens[g].state = "running", gens[g].launchCtx = "stopped"
               PROVE  \E t \in Tasks : call[t].at = "halting" /\ call[t].gen = g
    BY DEF StopSticks
  <2>1. ~gens[g].attached
    BY DEF IInv, GenInv, Sound
  <2>2. QED
    BY <2>1 DEF IInv, StopInv
<1>2. QED
  BY <1>1, Invariance, PTL

(* dataRequestContext, Register and cancelAll: a request that still has a   *)
(* live context works on the current generation, and that one is running or *)
(* a Stop is just about to cut it, however its admission overlapped with a  *)
(* stop and the next start.                                                 *)
THEOREM StoppedRequestsAreCut == Spec => []RequestsCut
<1>1. IInv => RequestsCut
  <2> SUFFICES ASSUME IInv, NEW t \in Tasks,
                      call[t].at \in {"serving", "looking", "selecting", "counting"}, RequestLive(t)
               PROVE  /\ call[t].gen = current
                      /\ \/ gens[current].state = "running"
                         \/ \E u \in Tasks : call[u].at = "cutting" /\ call[u].gen = current
    BY DEF RequestsCut
  <2> DEFINE G == gens[call[t].gen]
  <2>1. /\ call[t].gen \in Generations /\ G.data /\ t \notin cancelled
        /\ G \in Gen /\ Sound(G) /\ (call[t].gen # current => AtRest(G))
    BY Types DEF RequestLive, DataLive, Calls, IInv, GenInv
  <2>2. ~AtRest(G)
    BY <2>1 DEF Sound, AtRest
  <2>3. call[t].gen = current
    BY <2>1, <2>2
  <2>4. G.transition # "launch"
    BY <2>1, <2>3 DEF IInv, RequestInv, AllCut, Admitted, Served
  <2>5. G.state = "running" \/ Uncut(G)
    BY <2>1, <2>2, <2>4 DEF Gen, Sound, AtRest, Uncut
  <2>6. Uncut(G) => \E u \in Tasks : call[u].at = "cutting" /\ call[u].gen = current
    BY <2>1, <2>3 DEF IInv, CutInv, Cutting
  <2>7. QED
    BY <2>3, <2>5, <2>6
<1>2. QED
  BY <1>1, Invariance, PTL

(* requestRegistry.cancelAll goes over the requests of all generations;     *)
(* finishStop nevertheless only ever cancels those of a stopped one.        *)
LEMMA CancelStep ==
  ASSUME IInv, [Next]_vars, NEW t \in cancelled' \ cancelled
  PROVE  \/ gens[call[t].gen].state = "stopped"
         \/ \E u \in Tasks : call[u].at = "awaitingLaunch" /\ call'[u].at # "awaitingLaunch"
<1>1. CASE UNCHANGED vars
  BY <1>1 DEF vars, registry
<1>2. ASSUME NEW g \in Generations, FinishStop(g)
      PROVE  gens[call[t].gen].state = "stopped"
  <2>1. FinishStopCancels(g) /\ t \in registered
    BY <1>2 DEF FinishStop, FinishStopCancels, FinishStopResets, CancelAll, registry
  <2>2. gens[g].state = "stopped" /\ (g # current => AtRest(gens[g]))
    BY <2>1 DEF IInv, GenInv, Sound, FinishStopCancels
  <2>3. g = current
    BY <2>1, <2>2 DEF IInv, GenInv, Sound, AtRest, FinishStopCancels
  <2>4. t \in Tasks /\ call[t].gen \in Generations
    BY <2>1, Types DEF Calls
  <2>5. QED
    BY <2>2, <2>3, <2>4 DEF IInv, GenInv, AtRest
<1>3. ASSUME NEW u \in Tasks,
             \/ BeginStart(u) \/ BeginStop(u) \/ Enter(u) \/ BeginShutdown(u)
             \/ Steps(u) \/ OpenWorker(u) \/ RecoverWorker(u) \/ Looks(u) \/ Expands(u)
      PROVE  call[u].at = "awaitingLaunch" /\ call'[u].at # "awaitingLaunch"
  <2>1. CASE AwaitEnds(u) \/ AwaitTimesOut(u)
    <3>1. call[u].at = "awaitingLaunch"
      BY <2>1 DEF AwaitEnds, AwaitTimesOut, AfterWait, registry
    <3>2. Returns(u) \/ Goes(u, "late")
      BY <2>1 DEF AwaitEnds, AwaitTimesOut
    <3>3. "late" \in Places /\ "late" # "awaitingLaunch" /\ "idle" # "awaitingLaunch"
      BY DEF Places
    <3>4. QED
      BY <3>1, <3>2, <3>3, Going, Returning
  <2>2. CASE StartStep(u)
    BY <2>2 DEF StartStep, StartChecks, Restart, CleanStopped, CleanWaits, CleanLate, Build, Swap,
         LaunchNext, LaunchWarms, LaunchFails, LaunchDetaches, LaunchEnables, Unlaunch, FinishStart,
         CloseOther, Refuses, Prepares, registry
  <2>3. CASE \/ StopCancels(u) \/ HaltStopped(u) \/ HaltLaunching(u) \/ HaltRunning(u)
             \/ CutLaunch(u) \/ Cut(u) \/ StopLate(u)
    BY <2>3 DEF StopCancels, HaltStopped, HaltLaunching, HaltRunning, CutLaunch, Cut, StopLate, registry
  <2>4. CASE \/ RequestStep(u) \/ Enter(u) \/ OpenWorker(u) \/ RecoverWorker(u)
             \/ Looks(u) \/ Expands(u)
    BY <2>4 DEF RequestStep, Generate, Register, CountTokens, Select, EndRequest, Enter, OpenWorker,
         RecoverWorker, Looks, Expands, registry
  <2>5. CASE LockStep(u) \/ BeginStart(u) \/ BeginStop(u) \/ BeginShutdown(u)
    BY <2>5 DEF LockStep, LockStart, Announce, CloseManager, StopReads, LogAccess, LogSelection,
         BeginStart, BeginStop, BeginShutdown, registry
  <2>6. QED
    BY <1>3, <2>1, <2>2, <2>3, <2>4, <2>5 DEF Steps, StopStep
<1>4. QED
  BY <1>1, <1>2, <1>3 DEF Next

(* A request that a stop cancels belongs to a generation that is stopped:   *)
(* whenever the cancelAll of finishStop runs, however late, it does not     *)
(* reach those of the successor.  The property excepts the cancelAll that   *)
(* follows the wait of a Stop for a launch.                                 *)
THEOREM StopSparesOthers == Spec => NoCollateral
<1>1. IInv /\ [Next]_vars =>
        [\A t \in cancelled' \ cancelled :
           \/ gens[call[t].gen].state = "stopped"
           \/ \E u \in Tasks : call[u].at = "awaitingLaunch" /\ call'[u].at # "awaitingLaunch"]_vars
  BY CancelStep
<1>2. QED
  BY <1>1, Invariance, PTL DEF Spec, NoCollateral

-----------------------------------------------------------------------------
(* The workers, if no close of one fails.                                   *)

(* But for the late expansions, workers come up only under a live context,  *)
(* and none is left when a transition ends.                                 *)
Tended(G, H) ==
  /\ H.workers => G.workers \/ (G.data /\ root)
  /\ AtRest(H) => AtRest(G) \/ ~H.workers
  /\ G.late => H.late \/ ~H.workers \/ ~AtRest(H)
  /\ G.closed => H.closed

LEMMA TendedChange ==
  ASSUME IInv, NEW h \in Generations, NEW H, gens' = [gens EXCEPT ![h] = H] \/ gens' = gens,
         Tended(gens[h], H) \/ gens' = gens
  PROVE  \A g \in Generations : Tended(gens[g], gens'[g])
BY Types DEF Tended

LEMMA OperatorsTend ==
  ASSUME NEW G \in Gen
  PROVE  /\ Tended(G, Settled(G, FALSE)) /\ Tended(G, ResetStopped(G, FALSE))
         /\ Tended(G, Built(G)) /\ Tended(G, Unlaunched(G, FALSE)) /\ Tended(G, CleanedUp(G, FALSE))
         /\ Tended(G, Closed(G, FALSE)) /\ ~Closed(G, FALSE).workers /\ Closed(G, FALSE).closed
         /\ Tended(G, Launched(G, TRUE)) /\ Tended(G, [Launched(G, FALSE) EXCEPT !.launchCtx = "none"])
         /\ Tended(G, [G EXCEPT !.launchCtx = "live"]) /\ Tended(G, [G EXCEPT !.timedOut = TRUE])
         /\ Tended(G, [G EXCEPT !.life = FALSE])
         /\ \A x \in {"none", "live", "stopped", "outrun", "done"} :
              Tended(G, [G EXCEPT !.launchCtx = x])
         /\ Tended(G, [G EXCEPT !.data = FALSE]) /\ Tended(G, [G EXCEPT !.attached = FALSE])
         /\ Tended(G, [G EXCEPT !.workers = FALSE])
<1>1. Tended(G, Settled(G, FALSE)) /\ Tended(G, ResetStopped(G, FALSE)) /\ Tended(G, Built(G))
  BY DEF Settled, ResetStopped, Emptied, Built, Gen, Tended, AtRest
<1>2. Tended(G, Unlaunched(G, FALSE)) /\ Tended(G, CleanedUp(G, FALSE))
  BY DEF Unlaunched, CleanedUp, Emptied, Gen, Tended, AtRest
<1>3. Tended(G, Closed(G, FALSE)) /\ ~Closed(G, FALSE).workers /\ Closed(G, FALSE).closed
  BY DEF Closed, Emptied, Gen, Tended, AtRest
<1>4. Tended(G, Launched(G, TRUE)) /\ Tended(G, [Launched(G, FALSE) EXCEPT !.launchCtx = "none"])
  BY DEF Launched, Gen, Tended, AtRest
<1>5. /\ Tended(G, [G EXCEPT !.launchCtx = "live"]) /\ Tended(G, [G EXCEPT !.timedOut = TRUE])
      /\ Tended(G, [G EXCEPT !.life = FALSE])
      /\ \A x \in {"none", "live", "stopped", "outrun", "done"} :
           Tended(G, [G EXCEPT !.launchCtx = x])
  BY DEF Gen, Tended, AtRest
<1>6. /\ Tended(G, [G EXCEPT !.data = FALSE]) /\ Tended(G, [G EXCEPT !.attached = FALSE])
      /\ Tended(G, [G EXCEPT !.workers = FALSE])
  BY DEF Gen, Tended, AtRest
<1>7. QED
  BY <1>1, <1>2, <1>3, <1>4, <1>5, <1>6

LEMMA StartsTend ==
  ASSUME IInv, ~ResetMayFail, NEW t \in Tasks, StartStep(t)
  PROVE  \A g \in Generations : Tended(gens[g], gens'[g])
<1> DEFINE c == call[t] h == c.gen G == gens[h]
<1>1. /\ gens \in [Generations -> Gen] /\ c \in Calls /\ h \in Generations /\ G \in Gen
      /\ c.old \in Generations /\ current \in Generations
  BY Types DEF Calls
<1>2. \A g \in Generations : \A failed : Resets(g, failed) => failed = FALSE
  BY DEF Resets
<1>3. ASSUME gens' = gens
      PROVE  \A g \in Generations : Tended(gens[g], gens'[g])
  BY <1>1, <1>3, TendedChange
<1>4. ASSUME NEW g \in Generations, NEW H, gens' = [gens EXCEPT ![g] = H], Tended(gens[g], H)
      PROVE  \A k \in Generations : Tended(gens[k], gens'[k])
  BY <1>4, TendedChange
<1>5. ASSUME NEW K, NEW f, f = [gens EXCEPT ![h] = K] \/ (K = G /\ f = gens),
             gens' = NewLaunch(f), Tended(G, K),
             K \in Gen, launches + 1 # h
      PROVE  \A k \in Generations : Tended(gens[k], gens'[k])
  <2> DEFINE n == launches + 1
  <2>1. f \in [Generations -> Gen] /\ \A k \in Generations : Tended(gens[k], f[k])
    <3>1. Tended(G, G)
      BY <1>1 DEF Tended, Gen
    <3>2. \A k \in Generations : Tended(gens[k], gens[k])
      BY DEF Tended
    <3>3. QED
      BY <1>1, <1>5, <3>1, <3>2
  <2>2. CASE n \in Generations
    <3> DEFINE N == [f[n] EXCEPT !.launchCtx = "live"]
    <3>1. gens' = [f EXCEPT ![n] = N] /\ f[n] = gens[n] /\ gens[n] \in Gen
      BY <1>1, <1>5, <2>1, <2>2 DEF NewLaunch
    <3>2. Tended(gens[n], N)
      BY <3>1, OperatorsTend
    <3> HIDE DEF N, n
    <3>3. QED
      BY <2>1, <2>2, <3>1, <3>2
  <2>3. CASE n \notin Generations
    <3>1. gens' = f
      BY <1>5, <2>1, <2>3 DEF NewLaunch
    <3>2. QED
      BY <2>1, <3>1
  <2>4. QED
    BY <2>2, <2>3

<1>6. CASE StartChecks(t) \/ Swap(t)
  BY <1>3, <1>6 DEF StartChecks, Swap
<1>7. CASE Restart(t)
  <2>1. gens' = gens \/ gens' = [gens EXCEPT ![h] = [Launched(G, FALSE) EXCEPT !.launchCtx = "none"]]
    BY <1>7 DEF Restart
  <2>2. Tended(G, [Launched(G, FALSE) EXCEPT !.launchCtx = "none"])
    BY <1>1, OperatorsTend
  <2>3. QED
    BY <1>1, <1>3, <1>4, <2>1, <2>2
<1>8. CASE CleanStopped(t) \/ CleanWaits(t)
  <2>1. launches + 1 # h
    <3>1. c.at \in Starting /\ c.at \in Decided
      BY <1>8 DEF CleanStopped, CleanWaits, Starting, Decided
    <3>2. h = current /\ current <= launches /\ current \in Nat /\ launches \in Nat
      BY <3>1, StartFacts
    <3>3. QED
      BY <3>2
  <2>2. ASSUME NEW K \in Gen, Tended(G, K), NEW f, f = [gens EXCEPT ![h] = K],
               gens' = f \/ gens' = NewLaunch(f)
        PROVE  \A g \in Generations : Tended(gens[g], gens'[g])
    BY <1>1, <1>4, <1>5, <2>1, <2>2
  <2> DEFINE f1 == [gens EXCEPT ![h] = Settled(G, FALSE)]
             f2 == [gens EXCEPT ![h] = ResetStopped(G, FALSE)]
  <2>3. \/ gens' = gens
        \/ gens' = f1 \/ gens' = NewLaunch(f1)
        \/ gens' = f2 \/ gens' = NewLaunch(f2)
    <3>1. CASE CleanWaits(t)
      BY <3>1 DEF CleanWaits
    <3>2. CASE CleanStopped(t)
      BY <1>1, <1>2, <3>2 DEF CleanStopped
    <3>3. QED
      BY <1>8, <3>1, <3>2
  <2>4. /\ Settled(G, FALSE) \in Gen /\ Tended(G, Settled(G, FALSE))
        /\ ResetStopped(G, FALSE) \in Gen /\ Tended(G, ResetStopped(G, FALSE))
    <3>1. Tended(G, Settled(G, FALSE)) /\ Tended(G, ResetStopped(G, FALSE))
      BY <1>1, OperatorsTend
    <3> HIDE DEF G
    <3>2. Settled(G, FALSE) \in Gen /\ ResetStopped(G, FALSE) \in Gen
      <4>1. Settled(G, FALSE) \in Gen
        BY <1>1 DEF Settled, Gen
      <4>2. QED
        BY <1>1, <4>1, ResetFields
    <3>3. QED
      BY <3>1, <3>2
  <2>5. f1 = [gens EXCEPT ![h] = Settled(G, FALSE)] /\ f2 = [gens EXCEPT ![h] = ResetStopped(G, FALSE)]
    OBVIOUS
  <2> HIDE DEF f1, f2
  <2>6. CASE gens' = f1 \/ gens' = NewLaunch(f1)
    BY <2>2, <2>4, <2>5, <2>6
  <2>7. CASE gens' = f2 \/ gens' = NewLaunch(f2)
    BY <2>2, <2>4, <2>5, <2>7
  <2>8. QED
    BY <1>3, <2>3, <2>6, <2>7
<1>9. CASE CleanLate(t)
  <2>1. gens' = [gens EXCEPT ![h] = [G EXCEPT !.timedOut = TRUE]]
    BY <1>1, <1>9 DEF CleanLate
  <2>2. Tended(G, [G EXCEPT !.timedOut = TRUE])
    BY <1>1, OperatorsTend
  <2>3. QED
    BY <1>1, <1>4, <2>1, <2>2
<1>10. CASE Build(t)
  <2>1. gens' = gens \/ gens' = [gens EXCEPT ![h] = Built(G)]
    BY <1>10 DEF Build
  <2>2. Tended(G, Built(G))
    BY <1>1, OperatorsTend
  <2>3. QED
    BY <1>1, <1>3, <1>4, <2>1, <2>2
<1>11. CASE LaunchNext(t)
  <2> DEFINE O == gens[c.old] P == [O EXCEPT !.life = FALSE] K == [gens EXCEPT ![c.old] = P] X == K[h]
  <2>1. O \in Gen /\ Tended(O, P)
    BY <1>1, OperatorsTend
  <2>2. P \in Gen /\ P.workers = O.workers /\ P.closed = O.closed
    <3> HIDE DEF O
    <3>1. QED
      BY <2>1 DEF Gen
  <2>3. K = [gens EXCEPT ![c.old].life = FALSE]
    BY <1>1
  <2>4. gens' = [K EXCEPT ![h] = Launched(X, TRUE)]
    BY <1>11, <2>3 DEF LaunchNext
  <2> HIDE DEF P
  <2>5. K \in [Generations -> Gen] /\ \A g \in Generations : Tended(gens[g], K[g])
    <3>1. \A g \in Generations : Tended(gens[g], gens[g])
      BY DEF Tended
    <3>2. QED
      BY <1>1, <2>1, <2>2, <3>1
  <2>6. X \in Gen /\ X.workers = G.workers /\ X.closed = G.closed
    BY <1>1, <2>2, <2>5
  <2> HIDE DEF X, K
  <2>7. /\ Launched(X, TRUE).workers = X.workers /\ Launched(X, TRUE).state = "launching"
        /\ Launched(X, TRUE).closed = X.closed
    BY <2>6 DEF Launched, Gen
  <2>8. Tended(G, Launched(X, TRUE))
    BY <2>6, <2>7 DEF Tended, AtRest
  <2>9. QED
    BY <1>1, <2>4, <2>5, <2>8
<1>12. CASE LaunchWarms(t) \/ LaunchFails(t) \/ LaunchDetaches(t)
  <2> DEFINE W == [G EXCEPT !.workers = TRUE]
  <2>1. \/ gens' = [gens EXCEPT ![h] = W] /\ G.data /\ root /\ c.at = "launching"
        \/ gens' = [gens EXCEPT ![h] = [G EXCEPT !.data = FALSE]]
        \/ gens' = [gens EXCEPT ![h] = [G EXCEPT !.attached = FALSE]]
    BY <1>1, <1>12 DEF LaunchWarms, LaunchFails, LaunchDetaches, DataLive
  <2>2. Tended(G, [G EXCEPT !.data = FALSE]) /\ Tended(G, [G EXCEPT !.attached = FALSE])
    BY <1>1, OperatorsTend
  <2>3. G.data /\ root => Tended(G, W)
    <3> HIDE DEF G
    <3>1. QED
      BY <1>1 DEF Tended, AtRest, Gen
  <2>4. QED
    BY <1>1, <1>4, <2>1, <2>2, <2>3
<1>13. CASE LaunchEnables(t)
  <2> DEFINE H == [G EXCEPT !.state = "running", !.transition = "none"]
  <2>1. gens' = [gens EXCEPT ![h] = H]
    BY <1>1, <1>13 DEF LaunchEnables
  <2>2. Tended(G, H)
    <3> HIDE DEF G
    <3>1. QED
      BY <1>1 DEF Tended, AtRest, Gen
  <2>3. QED
    BY <1>1, <1>4, <2>1, <2>2
<1>14. CASE Unlaunch(t)
  <2>1. gens' = [gens EXCEPT ![h] = Unlaunched(G, FALSE)]
    BY <1>1, <1>2, <1>14 DEF Unlaunch
  <2>2. Tended(G, Unlaunched(G, FALSE))
    BY <1>1, OperatorsTend
  <2>3. QED
    BY <1>1, <1>4, <2>1, <2>2
<1>15. CASE FinishStart(t)
  <2> DEFINE x == IF G.launchCtx = "live" THEN "done" ELSE G.launchCtx
  <2>1. gens' = [gens EXCEPT ![h] = [G EXCEPT !.launchCtx = x]]
    BY <1>1, <1>15 DEF FinishStart
  <2>2. x \in {"none", "live", "stopped", "outrun", "done"}
    BY <1>1 DEF Gen
  <2> HIDE DEF x
  <2>3. Tended(G, [G EXCEPT !.launchCtx = x])
    BY <1>1, <2>2, OperatorsTend
  <2>4. QED
    BY <1>1, <1>4, <2>1, <2>3
<1>16. CASE CloseOther(t)
  <2> DEFINE g == IF current = c.gen THEN c.old ELSE c.gen
  <2>1. g \in Generations /\ (gens' = gens \/ gens' = [gens EXCEPT ![g] = Closed(gens[g], FALSE)])
    BY <1>1, <1>2, <1>16 DEF CloseOther
  <2> HIDE DEF g
  <2>2. Tended(gens[g], Closed(gens[g], FALSE))
    BY <1>1, <2>1, OperatorsTend
  <2>3. QED
    BY <1>3, <1>4, <2>1, <2>2
<1>17. QED
  BY <1>6, <1>7, <1>8, <1>9, <1>10, <1>11, <1>12, <1>13, <1>14, <1>15, <1>16 DEF StartStep

LEMMA OthersTend ==
  ASSUME IInv, ~ResetMayFail, NEW t \in Tasks,
         \/ BeginStart(t) \/ BeginStop(t) \/ Enter(t) \/ BeginShutdown(t)
         \/ StopStep(t) \/ RequestStep(t) \/ LockStep(t) \/ OpenWorker(t) \/ RecoverWorker(t)
         \/ Looks(t)
  PROVE  \A g \in Generations : Tended(gens[g], gens'[g])
<1> DEFINE c == call[t] h == c.gen G == gens[h]
<1>1. /\ gens \in [Generations -> Gen] /\ c \in Calls /\ h \in Generations /\ G \in Gen
      /\ current \in Generations /\ c.handle \in {0} \cup Generations
  BY Types DEF Calls
<1>2. \A g \in Generations : \A failed : Resets(g, failed) => failed = FALSE
  BY DEF Resets
<1>3. ASSUME gens' = gens
      PROVE  \A g \in Generations : Tended(gens[g], gens'[g])
  BY <1>1, <1>3, TendedChange
<1>4. ASSUME NEW g \in Generations, NEW H, gens' = [gens EXCEPT ![g] = H], Tended(gens[g], H)
      PROVE  \A k \in Generations : Tended(gens[k], gens'[k])
  BY <1>4, TendedChange
<1>5. CASE \/ BeginStart(t) \/ BeginStop(t) \/ Enter(t) \/ BeginShutdown(t) \/ RequestStep(t)
           \/ LockStart(t) \/ Announce(t) \/ StopReads(t) \/ LogAccess(t) \/ LogSelection(t)
           \/ AwaitTimesOut(t) \/ Looks(t)
  BY <1>3, <1>5 DEF BeginStart, BeginStop, Enter, BeginShutdown, RequestStep, Generate, Register,
       CountTokens, Select, EndRequest, LockStart, Announce, StopReads, LogAccess, LogSelection,
       AwaitTimesOut, Looks
<1>6. CASE OpenWorker(t) \/ RecoverWorker(t)
  <2> DEFINE W == [G EXCEPT !.workers = TRUE]
  <2>1. /\ G.data /\ root
        /\ gens' = [gens EXCEPT ![h] = W] \/ gens' = [gens EXCEPT ![h] = [G EXCEPT !.workers = FALSE]]
    BY <1>1, <1>6 DEF OpenWorker, RecoverWorker, RequestLive, DataLive
  <2>2. Tended(G, [G EXCEPT !.workers = FALSE])
    BY <1>1, OperatorsTend
  <2>3. Tended(G, W)
    <3> HIDE DEF G
    <3>1. QED
      BY <1>1, <2>1 DEF Tended, AtRest, Gen
  <2>4. QED
    BY <1>1, <1>4, <2>1, <2>2, <2>3
<1>7. CASE StopCancels(t)
  <2> DEFINE n == c.handle
             x == IF gens[n].launchCtx # "live" THEN gens[n].launchCtx
                  ELSE IF h # n /\ LetGo(n) THEN "outrun" ELSE "stopped"
  <2>1. CASE n = 0
    BY <1>3, <1>7, <2>1 DEF StopCancels
  <2>2. CASE n # 0
    <3>1. n \in Generations /\ gens[n] \in Gen
      BY <1>1, <2>2
    <3>2. gens' = [gens EXCEPT ![n] = [gens[n] EXCEPT !.launchCtx = x]]
      BY <1>1, <1>7, <2>2, <3>1 DEF StopCancels
    <3>3. x \in {"none", "live", "stopped", "outrun", "done"}
      BY <3>1 DEF Gen
    <3> HIDE DEF x
    <3>4. Tended(gens[n], [gens[n] EXCEPT !.launchCtx = x])
      BY <3>1, <3>3, OperatorsTend
    <3>5. QED
      BY <1>4, <3>1, <3>2, <3>4
  <2>3. QED
    BY <2>1, <2>2
<1>8. CASE HaltStopped(t) \/ AwaitEnds(t)
  <2>1. \/ gens' = gens \/ gens' = [gens EXCEPT ![h] = Settled(G, FALSE)]
        \/ gens' = [gens EXCEPT ![h] = ResetStopped(G, FALSE)]
    <3>1. CASE AwaitEnds(t)
      BY <3>1 DEF AwaitEnds
    <3>2. CASE HaltStopped(t)
      BY <1>1, <1>2, <3>2 DEF HaltStopped
    <3>3. QED
      BY <1>8, <3>1, <3>2
  <2>2. Tended(G, Settled(G, FALSE)) /\ Tended(G, ResetStopped(G, FALSE))
    BY <1>1, OperatorsTend
  <2>3. QED
    BY <1>1, <1>3, <1>4, <2>1, <2>2
<1>9. CASE HaltLaunching(t)
  <2> DEFINE H == [G EXCEPT !.state = "stopped"]
  <2>1. gens' = [gens EXCEPT ![h] = H] /\ G.state = "launching" /\ Sound(G)
    BY <1>1, <1>9, Unchanged DEF HaltLaunching
  <2>2. Tended(G, H)
    <3> HIDE DEF G
    <3>1. QED
      BY <1>1, <2>1 DEF Tended, AtRest, Gen, Sound
  <2>3. QED
    BY <1>1, <1>4, <2>1, <2>2
<1>10. CASE HaltRunning(t)
  <2> DEFINE H == [G EXCEPT !.state = "stopped", !.transition = "stop"]
  <2>1. gens' = [gens EXCEPT ![h] = H]
    BY <1>1, <1>10 DEF HaltRunning
  <2>2. Tended(G, H)
    <3> HIDE DEF G
    <3>1. QED
      BY <1>1 DEF Tended, AtRest, Gen
  <2>3. QED
    BY <1>1, <1>4, <2>1, <2>2
<1>11. CASE CutLaunch(t) \/ Cut(t)
  <2> DEFINE H == [G EXCEPT !.data = FALSE, !.cleanup = "cancel"]
  <2>1. gens' = [gens EXCEPT ![h] = [G EXCEPT !.data = FALSE]] \/ gens' = [gens EXCEPT ![h] = H]
    BY <1>1, <1>11 DEF CutLaunch, Cut
  <2>2. Tended(G, [G EXCEPT !.data = FALSE])
    BY <1>1, OperatorsTend
  <2>3. Tended(G, H)
    <3> HIDE DEF G
    <3>1. QED
      BY <1>1 DEF Tended, AtRest, Gen
  <2>4. QED
    BY <1>1, <1>4, <2>1, <2>2, <2>3
<1>12. CASE StopLate(t)
  <2>1. gens' = [gens EXCEPT ![h] = [G EXCEPT !.timedOut = TRUE]]
    BY <1>1, <1>12 DEF StopLate
  <2>2. Tended(G, [G EXCEPT !.timedOut = TRUE])
    BY <1>1, OperatorsTend
  <2>3. QED
    BY <1>1, <1>4, <2>1, <2>2
<1>13. CASE CloseManager(t)
  <2>1. gens' = [gens EXCEPT ![current] = Closed(gens[current], FALSE)]
    BY <1>1, <1>2, <1>13 DEF CloseManager
  <2>2. Tended(gens[current], Closed(gens[current], FALSE))
    BY <1>1, OperatorsTend
  <2>3. QED
    BY <1>1, <1>4, <2>1, <2>2
<1>14. QED
  BY <1>5, <1>6, <1>7, <1>8, <1>9, <1>10, <1>12, <1>13, <1>11 DEF StopStep, LockStep

(* Only BeginShutdown ends the process's context, and only CloseManager     *)
(* goes on from there.                                                      *)
LEMMA Ending ==
  ASSUME IInv, ~ResetMayFail, [Next]_vars
  PROVE  /\ ~root => ~root'
         /\ root /\ ~root' => \E t \in Tasks : call'[t].at = "lockClose"
         /\ \A t \in Tasks : call[t].at = "lockClose" /\ call'[t].at # "lockClose" =>
              /\ current' = current /\ ~gens'[current].workers /\ gens'[current].closed
              /\ \A g \in Generations : g # current => gens'[g] = gens[g]
<1>1. CASE UNCHANGED vars
  BY <1>1 DEF vars, manager
<1>2. ASSUME NEW g \in Generations, FinishStop(g)
      PROVE  UNCHANGED <<root, call>>
  BY <1>2 DEF FinishStop, FinishStopCancels, FinishStopResets, manager
<1>3. ASSUME NEW t \in Tasks, BeginShutdown(t)
      PROVE  /\ ~root' /\ root /\ call'[t].at = "lockClose" /\ call[t].at # "lockClose"
             /\ \A u \in Tasks : u # t => call'[u] = call[u]
  BY <1>3, Going DEF BeginShutdown, Places
<1>4. ASSUME NEW t \in Tasks, CloseManager(t)
      PROVE  /\ root' = root /\ \A u \in Tasks : u # t => call'[u] = call[u]
             /\ current' = current /\ ~gens'[current].workers /\ gens'[current].closed
             /\ \A g \in Generations : g # current => gens'[g] = gens[g]
  <2>1. root' = root /\ Returns(t) /\ current' = current
    BY <1>4 DEF CloseManager
  <2>2. \A u \in Tasks : u # t => call'[u] = call[u]
    BY <2>1, Returning
  <2>3. gens' = [gens EXCEPT ![current] = Closed(gens[current], FALSE)]
    BY <1>4 DEF CloseManager, Resets
  <2>4. current \in Generations /\ gens \in [Generations -> Gen] /\ gens[current] \in Gen
    BY Types
  <2>5. ~Closed(gens[current], FALSE).workers /\ Closed(gens[current], FALSE).closed
    BY <2>4, OperatorsTend
  <2>6. QED
    BY <2>1, <2>2, <2>3, <2>4, <2>5
<1>5. ASSUME NEW t \in Tasks,
             \/ BeginStart(t) \/ BeginStop(t) \/ Enter(t)
             \/ StartStep(t) \/ StopStep(t) \/ RequestStep(t) \/ OpenWorker(t) \/ RecoverWorker(t)
             \/ Looks(t) \/ Expands(t)
             \/ LockStart(t) \/ Announce(t) \/ StopReads(t) \/ LogAccess(t) \/ LogSelection(t)
      PROVE  /\ root' = root
             /\ \A u \in Tasks : call[u].at = "lockClose" => call'[u].at = "lockClose"
  <2>1. root' = root
    <3>1. CASE StartStep(t)
      BY <3>1 DEF StartStep, StartChecks, Restart, CleanStopped, CleanWaits, CleanLate, Build, Swap,
           LaunchNext, LaunchWarms, LaunchFails, LaunchDetaches, LaunchEnables, Unlaunch, FinishStart,
           CloseOther, Refuses, Prepares, ReturnLocked, LaunchReturns, manager
    <3>2. CASE StopStep(t)
      BY <3>2 DEF StopStep, StopCancels, HaltStopped, HaltLaunching, HaltRunning, CutLaunch, Cut,
           AwaitEnds, AwaitTimesOut, StopLate, manager
    <3>3. CASE \/ RequestStep(t) \/ Enter(t) \/ OpenWorker(t) \/ RecoverWorker(t)
               \/ Looks(t) \/ Expands(t)
      BY <3>3 DEF RequestStep, Generate, Register, CountTokens, Select, EndRequest, Enter, OpenWorker,
           RecoverWorker, Looks, Expands, manager
    <3>4. CASE \/ BeginStart(t) \/ BeginStop(t)
               \/ LockStart(t) \/ Announce(t) \/ StopReads(t) \/ LogAccess(t) \/ LogSelection(t)
      BY <3>4 DEF BeginStart, BeginStop, LockStart, Announce, StopReads, LogAccess, LogSelection, manager
    <3>5. QED
      BY <1>5, <3>1, <3>2, <3>3, <3>4
  <2>2. call[t].at # "lockClose" \/ call' = call
    <3>1. CASE StartStep(t)
      BY <3>1 DEF StartStep, StartChecks, Restart, CleanStopped, CleanWaits, CleanLate, Build, Swap,
           LaunchNext, LaunchWarms, LaunchFails, LaunchDetaches, LaunchEnables, Unlaunch, FinishStart,
           CloseOther
    <3>2. CASE StopStep(t)
      BY <3>2 DEF StopStep, StopCancels, HaltStopped, HaltLaunching, HaltRunning, CutLaunch, Cut,
           AwaitEnds, AwaitTimesOut, StopLate
    <3>3. CASE \/ RequestStep(t) \/ Enter(t) \/ OpenWorker(t) \/ RecoverWorker(t)
               \/ Looks(t) \/ Expands(t)
      BY <3>3 DEF RequestStep, Generate, Register, CountTokens, Select, EndRequest, Enter, OpenWorker,
           RecoverWorker, Looks, Expands
    <3>4. CASE \/ BeginStart(t) \/ BeginStop(t)
               \/ LockStart(t) \/ Announce(t) \/ StopReads(t) \/ LogAccess(t) \/ LogSelection(t)
      BY <3>4 DEF BeginStart, BeginStop, LockStart, Announce, StopReads, LogAccess, LogSelection
    <3>5. QED
      BY <1>5, <3>1, <3>2, <3>3, <3>4
  <2>3. Step(t)
    BY <1>5, EveryStep DEF Steps, LockStep
  <2>4. \A u \in Tasks : u # t => call'[u] = call[u]
    BY <2>3 DEF Step, Moves
  <2>5. QED
    BY <2>1, <2>2, <2>4
<1>6. QED
  BY <1>1, <1>2, <1>3, <1>4, <1>5 DEF Next, Steps, LockStep

LEMMA FinishStopTends ==
  ASSUME IInv, ~ResetMayFail, NEW g \in Generations, FinishStop(g)
  PROVE  \A h \in Generations : Tended(gens[h], gens'[h])
<1> DEFINE G == gens[g]
<1>1. G \in Gen /\ Sound(G) /\ gens \in [Generations -> Gen]
  BY Types DEF IInv, GenInv
<1>2. CASE FinishStopCancels(g)
  <2> DEFINE H == [G EXCEPT !.cleanup = "reset"]
  <2>1. gens' = [gens EXCEPT ![g] = H] /\ G.transition = "stop"
    BY <1>1, <1>2 DEF FinishStopCancels, Sound
  <2>2. Tended(G, H)
    <3> HIDE DEF G
    <3>1. QED
      BY <1>1, <2>1 DEF Tended, AtRest, Gen
  <2>3. QED
    BY <2>1, <2>2, TendedChange
<1>3. CASE FinishStopResets(g)
  <2>1. gens' = [gens EXCEPT ![g] = CleanedUp(G, FALSE)]
    BY <1>3 DEF FinishStopResets, Resets
  <2>2. Tended(G, CleanedUp(G, FALSE))
    BY <1>1, OperatorsTend
  <2>3. QED
    BY <2>1, <2>2, TendedChange
<1>4. QED
  BY <1>2, <1>3 DEF FinishStop

LEMMA AllTend ==
  ASSUME IInv, ~ResetMayFail, [Next]_vars, \A t \in Tasks : ~Expands(t)
  PROVE  \A g \in Generations : Tended(gens[g], gens'[g])
<1>1. CASE UNCHANGED vars
  BY <1>1 DEF vars, Tended
<1>2. QED
  BY <1>1, StartsTend, OthersTend, FinishStopTends DEF Next, Steps

(* A generation only ever makes way for a later one, and once the process   *)
(* has been told to end no request begins.                                  *)
LEMMA Succession ==
  ASSUME IInv, [Next]_vars
  PROVE  /\ current <= current' /\ current \in Nat /\ current' \in Generations
         /\ \A u \in Tasks :
              ~root /\ call'[u].at \in Reading \cup Served =>
                call[u].at \in Reading \cup Served /\ call'[u].gen = call[u].gen
<1>1. current \in Nat /\ current <= current /\ current \in Generations
  BY Types DEF Generations
<1>2. CASE UNCHANGED vars
  BY <1>1, <1>2 DEF vars, manager
<1>3. CASE \E g \in Generations : FinishStop(g)
  BY <1>1, <1>3 DEF FinishStop, FinishStopCancels, FinishStopResets, manager
<1>4. ASSUME NEW t \in Tasks, Step(t)
      PROVE  /\ current <= current' /\ current' \in Generations
             /\ \A u \in Tasks :
                  ~root /\ call'[u].at \in Reading \cup Served =>
                    call[u].at \in Reading \cup Served /\ call'[u].gen = call[u].gen
  BY <1>1, <1>4 DEF Step, Moves, Outside, Inside
<1>5. QED
  BY <1>1, <1>2, <1>3, <1>4, EveryStep DEF Next

LEMMA WorkersInit == Init => WorkerInv
<1> SUFFICES ASSUME Init PROVE WorkerInv
  OBVIOUS
<1>1. ~Absent.workers /\ ~Built(Absent).workers
  BY DEF Absent, Built
<1>2. QED
  BY <1>1 DEF Init, WorkerInv, Ended

(* An expansion in a generation that has been stopped is a late one; when   *)
(* the process ends the current generation has been closed and admits none. *)
LEMMA WorkersExpand ==
  ASSUME IInv, WorkerInv, NEW t \in Tasks, Expands(t)
  PROVE  WorkerInv'
<1> DEFINE c == call[t] h == c.gen G == gens[h]
           H == [G EXCEPT !.workers = TRUE, !.late = @ \/ AfterReset(h)]
<1>1. /\ gens \in [Generations -> Gen] /\ c \in Calls /\ h \in Generations /\ G \in Gen
      /\ h <= current /\ h \in Nat /\ current \in Nat /\ call \in [Tasks -> Calls]
  <2>1. /\ gens \in [Generations -> Gen] /\ c \in Calls /\ c.gen \in Generations
        /\ current \in Generations /\ call \in [Tasks -> Calls]
    BY Types DEF Calls
  <2>2. c.at \in Served
    BY DEF Expands, Served
  <2>3. h <= current
    BY <2>2 DEF IInv, RequestInv
  <2>4. QED
    BY <2>1, <2>3 DEF Generations
<1>2. /\ gens' = [gens EXCEPT ![h] = H] /\ ~G.closed /\ c.at = "looking" /\ Goes(t, "serving")
      /\ UNCHANGED manager
  BY <1>1 DEF Expands
<1>3. /\ call'[t].at = "serving" /\ call'[t].gen = h
      /\ \A u \in Tasks : u # t => call'[u] = call[u]
  BY <1>2, Going DEF Places
<1>4. current' = current /\ (Ended' <=> Ended)
  BY <1>1, <1>2, <1>3 DEF Ended, manager
<1>5. /\ AtRest(H) <=> AtRest(G)
      /\ AtRest(G) => H.late
      /\ H.closed = G.closed
  BY <1>1 DEF Gen, AtRest, AfterReset
<1>6. Ended => h # current
  BY <1>1, <1>2 DEF WorkerInv, Served
<1>7. h # current => AtRest(G)
  BY <1>1 DEF IInv, GenInv
<1> HIDE DEF H
<1>8. gens'[h] = H /\ \A g \in Generations : g # h => gens'[g] = gens[g]
  BY <1>1, <1>2
<1>9. \A g \in Generations : AtRest(gens'[g]) => ~gens'[g].workers \/ gens'[g].late
  BY <1>5, <1>8 DEF WorkerInv
<1>10. \A g \in Generations : g > current => ~gens'[g].workers
  BY <1>1, <1>8 DEF WorkerInv
<1>11. Ended => /\ \A g \in Generations : ~gens'[g].workers \/ gens'[g].late
                /\ ~gens'[current].workers
  BY <1>5, <1>6, <1>7, <1>8, Types DEF WorkerInv
<1>12. ASSUME Ended, NEW u \in Tasks, call'[u].at \in Reading \cup Served, call'[u].gen = current
       PROVE  gens'[current].closed
  BY <1>3, <1>6, <1>8, <1>12, Types DEF WorkerInv
<1>13. QED
  BY <1>4, <1>9, <1>10, <1>11, <1>12 DEF WorkerInv

LEMMA WorkersNext ==
  ASSUME IInv, ~ResetMayFail, WorkerInv, [Next]_vars
  PROVE  WorkerInv'
<1>1. CASE \E t \in Tasks : Expands(t)
  BY <1>1, WorkersExpand
<1>2. CASE \A t \in Tasks : ~Expands(t)
  <2>1. \A g \in Generations : Tended(gens[g], gens'[g]) /\ Sound(gens[g])
    BY <1>2, AllTend DEF IInv, GenInv
  <2>2. IInv'
    BY NextInv
  <2>3. /\ current <= current' /\ current \in Nat /\ current' \in Nat
        /\ current \in Generations /\ current' \in Generations
    BY Succession, Types DEF Generations
  <2>4. \A g \in Generations : g # current => ~gens[g].data
    BY <2>1 DEF IInv, GenInv, Sound, AtRest
  <2>5. ASSUME NEW g \in Generations, AtRest(gens'[g])
        PROVE  ~gens'[g].workers \/ gens'[g].late
    BY <2>1, <2>5 DEF Tended, AtRest, Sound, WorkerInv
  <2>6. ASSUME NEW g \in Generations, g > current
        PROVE  ~gens'[g].workers
    <3>1. g # current /\ ~gens[g].workers
      BY <2>3, <2>6 DEF WorkerInv, Generations
    <3>2. QED
      BY <2>1, <2>4, <3>1 DEF Tended
  <2>7. ASSUME NEW g \in Generations, g > current'
        PROVE  ~gens'[g].workers
    BY <2>3, <2>6, <2>7 DEF Generations
  <2>8. ASSUME Ended', Ended
        PROVE  /\ \A g \in Generations : ~gens'[g].workers \/ gens'[g].late
               /\ ~gens'[current'].workers
               /\ \A u \in Tasks :
                    call'[u].at \in Reading \cup Served /\ call'[u].gen = current' =>
                      gens'[current'].closed
    <3>1. ~gens'[current].workers
      BY <2>1, <2>3, <2>8 DEF Tended, WorkerInv, Ended
    <3>2. ~gens'[current'].workers
      BY <2>3, <2>6, <3>1
    <3>3. ASSUME NEW g \in Generations
          PROVE  ~gens'[g].workers \/ gens'[g].late
      <4>1. CASE g = current'
        BY <3>2, <4>1
      <4>2. CASE g # current'
        BY <2>2, <2>5, <4>2 DEF IInv, GenInv
      <4>3. QED
        BY <4>1, <4>2
    <3>4. ASSUME NEW u \in Tasks, call'[u].at \in Reading \cup Served, call'[u].gen = current'
          PROVE  gens'[current'].closed
      <4>1. call[u].at \in Reading \cup Served /\ call[u].gen = current'
        BY <2>8, <3>4, Succession DEF Ended
      <4>2. current' <= current
        BY <4>1 DEF IInv, RequestInv
      <4>3. current' = current
        BY <2>3, <4>2
      <4>4. gens[current].closed
        BY <2>8, <4>1, <4>3 DEF WorkerInv
      <4>5. QED
        BY <2>1, <2>3, <4>3, <4>4 DEF Tended
    <3>5. QED
      BY <3>2, <3>3, <3>4
  <2>9. ASSUME Ended', ~Ended
        PROVE  /\ \A g \in Generations : ~gens'[g].workers \/ gens'[g].late
               /\ ~gens'[current'].workers /\ gens'[current'].closed
    <3>1. PICK t \in Tasks : call[t].at = "lockClose" /\ call'[t].at # "lockClose"
      BY <2>9, Ending DEF Ended
    <3>2. /\ current' = current /\ ~gens'[current].workers /\ gens'[current].closed
          /\ \A g \in Generations : g # current => gens'[g] = gens[g]
      BY <3>1, Ending
    <3>3. \A g \in Generations : g # current => ~gens[g].workers \/ gens[g].late
      BY DEF IInv, GenInv, WorkerInv
    <3>4. QED
      BY <3>2, <3>3
  <2>10. QED
    BY <2>5, <2>7, <2>8, <2>9 DEF WorkerInv, AtRest
<1>3. QED
  BY <1>1, <1>2

LEMMA WorkersKept ==
  ASSUME ~ResetMayFail
  PROVE  Spec => [](IInv /\ WorkerInv)
<1>1. Init => IInv /\ WorkerInv
  BY InitInv, WorkersInit
<1>2. (IInv /\ WorkerInv) /\ [Next]_vars => (IInv /\ WorkerInv)'
  BY NextInv, WorkersNext
<1>3. QED
  BY <1>1, <1>2, PTL DEF Spec

(* StartService closes or stops a generation before the next one launches,  *)
(* so two of them never have browser processes at a time, but for those of  *)
(* a late expansion.  The hypothesis is needed: a worker that cannot be     *)
(* closed outlives its generation, whose error the Stop after a launch may  *)
(* have swallowed (transitionErr).                                          *)
THEOREM GenerationsApart ==
  ASSUME ~ResetMayFail
  PROVE  Spec => []OneGeneration
<1>1. IInv /\ WorkerInv => OneGeneration
  <2> SUFFICES ASSUME IInv, WorkerInv, NEW g \in Generations, NEW h \in Generations,
                      gens[g].workers, gens[h].workers, ~gens[g].late, ~gens[h].late
               PROVE  g = h
    BY DEF OneGeneration
  <2>1. \A k \in {g, h} : ~AtRest(gens[k])
    BY DEF WorkerInv
  <2>2. QED
    BY <2>1 DEF IInv, GenInv
<1>2. QED
  BY <1>1, WorkersKept, PTL

(* app.go, after the server has stopped: when runtimeManager.Close returns  *)
(* no worker is left, and none comes up in a start that is under way then,  *)
(* if the closes of the workers succeed, except one that a request cut by   *)
(* an earlier stop asks for in the background.                              *)
THEOREM NothingLeftBehind ==
  ASSUME ~ResetMayFail
  PROVE  Spec => []ExitClean
<1>1. IInv /\ WorkerInv => ExitClean
  BY DEF WorkerInv, Ended, ExitClean
<1>2. QED
  BY <1>1, WorkersKept, PTL

-----------------------------------------------------------------------------
(* What becomes of the generations that are replaced.                       *)

(* The generation a start has to close before it returns, from the end of   *)
(* its locked part on; a start that launches the generation there is, with  *)
(* manager.mu held, has none.                                               *)
Hand(c) == IF current = c.gen THEN c.old ELSE c.gen
Holds(t, g) ==
  /\ startMu = t /\ call[t].at \notin Preparing /\ g = Hand(call[t])
  /\ ~(call[t].at \in Launching /\ writer = t)

ReplaceInv ==
  /\ \A t \in Tasks : call[t].at \in {"build", "lockSwap"} => call[t].old = current
  /\ \A g \in Generations :
       gens[g].built /\ g # current => gens[g].closed \/ \E t \in Tasks : Holds(t, g)

(* A close is for good, and only Build makes a generation.                  *)
Kept(G, H) == H.built = G.built /\ (G.closed => H.closed)

LEMMA KeptChange ==
  ASSUME IInv, NEW h \in Generations, NEW H, gens' = [gens EXCEPT ![h] = H], Kept(gens[h], H)
  PROVE  \A g \in Generations : Kept(gens[g], gens'[g])
BY Types DEF Kept

LEMMA OperatorsKeep ==
  ASSUME NEW G \in Gen, NEW failed \in BOOLEAN, NEW b \in BOOLEAN
  PROVE  /\ Kept(G, Settled(G, FALSE)) /\ Kept(G, ResetStopped(G, failed))
         /\ Kept(G, Unlaunched(G, failed)) /\ Kept(G, CleanedUp(G, failed))
         /\ Kept(G, Closed(G, failed)) /\ Closed(G, failed).closed
         /\ Kept(G, Launched(G, b))
<1>1. Kept(G, Settled(G, FALSE)) /\ Kept(G, ResetStopped(G, failed))
  BY DEF Settled, ResetStopped, Emptied, Gen, Kept
<1>2. Kept(G, Unlaunched(G, failed)) /\ Kept(G, CleanedUp(G, failed))
  BY DEF Unlaunched, CleanedUp, Emptied, Gen, Kept
<1>3. Kept(G, Closed(G, failed)) /\ Closed(G, failed).closed
  BY DEF Closed, Emptied, Gen, Kept
<1>4. Kept(G, Launched(G, b))
  BY DEF Launched, Gen, Kept
<1>5. QED
  BY <1>1, <1>2, <1>3, <1>4

LEMMA StartsKept ==
  ASSUME IInv, NEW t \in Tasks, StartStep(t), ~Build(t)
  PROVE  \A g \in Generations : Kept(gens[g], gens'[g])
<1> DEFINE c == call[t] h == c.gen G == gens[h]
<1>1. /\ gens \in [Generations -> Gen] /\ c \in Calls /\ h \in Generations /\ G \in Gen
      /\ c.old \in Generations /\ current \in Generations
  BY Types DEF Calls
<1>2. ASSUME NEW g \in Generations, NEW H, gens' = [gens EXCEPT ![g] = H], Kept(gens[g], H)
      PROVE  \A k \in Generations : Kept(gens[k], gens'[k])
  BY <1>2, KeptChange
<1>3. \A g \in Generations : Kept(gens[g], gens[g])
  BY DEF Kept
<1>4. CASE StartChecks(t) \/ Swap(t)
  BY <1>3, <1>4 DEF StartChecks, Swap
<1>5. CASE Restart(t)
  <2> DEFINE L == Launched(G, FALSE) H == [L EXCEPT !.launchCtx = "none"]
  <2>1. gens' = gens \/ gens' = [gens EXCEPT ![h] = H]
    BY <1>5 DEF Restart
  <2>2. Kept(G, L)
    BY <1>1, OperatorsKeep
  <2>3. H.built = L.built /\ H.closed = L.closed
    BY DEF Launched
  <2>4. QED
    BY <1>1, <1>2, <1>3, <2>1, <2>2, <2>3 DEF Kept
<1>6. ASSUME NEW f, \A k \in Generations : Kept(gens[k], f[k]),
             f \in [Generations -> Gen], gens' = f \/ gens' = NewLaunch(f)
      PROVE  \A k \in Generations : Kept(gens[k], gens'[k])
  <2>1. \A k \in Generations : Kept(f[k], NewLaunch(f)[k])
    BY <1>6 DEF NewLaunch, Kept, Gen
  <2>2. QED
    BY <1>6, <2>1 DEF Kept
<1>7. CASE CleanStopped(t) \/ CleanWaits(t)
  <2> DEFINE f1 == [gens EXCEPT ![h] = Settled(G, FALSE)]
             f2(failed) == [gens EXCEPT ![h] = ResetStopped(G, failed)]
  <2>1. \/ gens' = gens
        \/ gens' = f1 \/ gens' = NewLaunch(f1)
        \/ \E failed \in BOOLEAN : gens' = f2(failed) \/ gens' = NewLaunch(f2(failed))
    <3>1. CASE CleanWaits(t)
      BY <3>1 DEF CleanWaits
    <3>2. CASE CleanStopped(t)
      BY <3>2 DEF CleanStopped
    <3>3. QED
      BY <1>7, <3>1, <3>2
  <2>2. Kept(G, Settled(G, FALSE)) /\ \A failed \in BOOLEAN : Kept(G, ResetStopped(G, failed))
    BY <1>1, OperatorsKeep
  <2>3. Settled(G, FALSE) \in Gen /\ \A failed \in BOOLEAN : ResetStopped(G, failed) \in Gen
    <3> HIDE DEF G
    <3>1. Settled(G, FALSE) \in Gen
      BY <1>1 DEF Settled, Gen
    <3>2. QED
      BY <1>1, <3>1, ResetFields
  <2>4. CASE gens' = gens
    BY <1>3, <2>4
  <2>5. CASE gens' = f1 \/ gens' = NewLaunch(f1)
    <3>1. f1 \in [Generations -> Gen] /\ \A k \in Generations : Kept(gens[k], f1[k])
      BY <1>1, <1>3, <2>2, <2>3
    <3> HIDE DEF f1
    <3>2. QED
      BY <1>6, <2>5, <3>1
  <2>6. ASSUME NEW failed \in BOOLEAN, gens' = f2(failed) \/ gens' = NewLaunch(f2(failed))
        PROVE  \A k \in Generations : Kept(gens[k], gens'[k])
    <3> DEFINE f == f2(failed)
    <3>1. f \in [Generations -> Gen] /\ \A k \in Generations : Kept(gens[k], f[k])
      BY <1>1, <1>3, <2>2, <2>3
    <3>2. gens' = f \/ gens' = NewLaunch(f)
      BY <2>6
    <3> HIDE DEF f, f2
    <3>3. QED
      BY <1>6, <3>1, <3>2
  <2>7. QED
    BY <2>1, <2>4, <2>5, <2>6
<1>8. CASE LaunchNext(t)
  <2> DEFINE K == [gens EXCEPT ![c.old].life = FALSE] L == Launched(K[h], TRUE)
  <2>1. gens' = [K EXCEPT ![h] = L]
    BY <1>8 DEF LaunchNext
  <2>2. K \in [Generations -> Gen] /\ \A k \in Generations : Kept(gens[k], K[k])
    <3>1. [gens[c.old] EXCEPT !.life = FALSE] \in Gen
      BY ZenonT(30), <1>1 DEF Gen
    <3>2. Kept(gens[c.old], [gens[c.old] EXCEPT !.life = FALSE])
      BY ZenonT(30), <1>1 DEF Gen, Kept
    <3>3. K \in [Generations -> Gen]
      BY <1>1, <3>1
    <3>4. QED
      BY <1>1, <3>2, <3>3 DEF Kept
  <2>3. Kept(K[h], L)
    BY <1>1, <2>2, OperatorsKeep
  <2> HIDE DEF K, L
  <2>4. \A k \in Generations : Kept(K[k], gens'[k])
    BY <1>1, <2>1, <2>2, <2>3 DEF Kept
  <2>5. QED
    BY <2>2, <2>4 DEF Kept
<1>9. CASE \/ CleanLate(t) \/ LaunchWarms(t) \/ LaunchFails(t) \/ LaunchDetaches(t)
           \/ LaunchEnables(t) \/ FinishStart(t)
  BY <1>1, <1>9 DEF CleanLate, LaunchWarms, LaunchFails, LaunchDetaches, LaunchEnables, FinishStart,
     Kept, Gen
<1>10. CASE Unlaunch(t)
  <2>1. PICK failed \in BOOLEAN : gens' = [gens EXCEPT ![h] = Unlaunched(G, failed)]
    BY <1>1, <1>10 DEF Unlaunch
  <2>2. QED
    BY <1>1, <1>2, <2>1, OperatorsKeep
<1>11. CASE CloseOther(t)
  <2>1. PICK g \in Generations, failed \in BOOLEAN :
          gens' = gens \/ gens' = [gens EXCEPT ![g] = Closed(gens[g], failed)]
    BY <1>1, <1>11 DEF CloseOther
  <2>2. gens[g] \in Gen
    BY <1>1
  <2>3. QED
    BY <1>2, <1>3, <2>1, <2>2, OperatorsKeep
<1>12. QED
  BY <1>4, <1>5, <1>7, <1>8, <1>9, <1>10, <1>11 DEF StartStep

LEMMA OthersKept ==
  ASSUME IInv, NEW t \in Tasks,
         \/ BeginStart(t) \/ BeginStop(t) \/ Enter(t) \/ BeginShutdown(t)
         \/ StopStep(t) \/ RequestStep(t) \/ LockStep(t) \/ OpenWorker(t) \/ RecoverWorker(t)
         \/ Looks(t) \/ Expands(t)
  PROVE  \A g \in Generations : Kept(gens[g], gens'[g])
<1> DEFINE c == call[t] h == c.gen G == gens[h]
<1>1. /\ gens \in [Generations -> Gen] /\ c \in Calls /\ h \in Generations /\ G \in Gen
      /\ current \in Generations /\ gens[current] \in Gen /\ c.handle \in {0} \cup Generations
  BY Types DEF Calls
<1>2. ASSUME NEW g \in Generations, NEW H, gens' = [gens EXCEPT ![g] = H], Kept(gens[g], H)
      PROVE  \A k \in Generations : Kept(gens[k], gens'[k])
  BY <1>2, KeptChange
<1>3. \A g \in Generations : Kept(gens[g], gens[g])
  BY DEF Kept
<1>4. CASE \/ BeginStart(t) \/ BeginStop(t) \/ Enter(t) \/ BeginShutdown(t) \/ RequestStep(t)
           \/ LockStart(t) \/ Announce(t) \/ StopReads(t) \/ LogAccess(t) \/ LogSelection(t)
           \/ AwaitTimesOut(t) \/ Looks(t)
  BY <1>3, <1>4 DEF BeginStart, BeginStop, Enter, BeginShutdown, RequestStep, Generate, Register,
       CountTokens, Select, EndRequest, LockStart, Announce, StopReads, LogAccess, LogSelection,
       AwaitTimesOut, Looks
<1>5. CASE StopCancels(t) \/ HaltLaunching(t) \/ HaltRunning(t) \/ CutLaunch(t) \/ Cut(t) \/ StopLate(t)
  BY <1>1, <1>5 DEF StopCancels, HaltLaunching, HaltRunning, CutLaunch, Cut, StopLate, Kept, Gen
<1>6. CASE OpenWorker(t) \/ RecoverWorker(t) \/ Expands(t)
  BY <1>1, <1>6 DEF OpenWorker, RecoverWorker, Expands, Kept, Gen
<1>7. CASE HaltStopped(t) \/ AwaitEnds(t)
  <2>1. PICK failed \in BOOLEAN :
          \/ gens' = gens \/ gens' = [gens EXCEPT ![h] = Settled(G, FALSE)]
          \/ gens' = [gens EXCEPT ![h] = ResetStopped(G, failed)]
    <3>1. CASE AwaitEnds(t)
      BY <3>1 DEF AwaitEnds
    <3>2. CASE HaltStopped(t)
      BY <3>2 DEF HaltStopped
    <3>3. QED
      BY <1>7, <3>1, <3>2
  <2>2. Kept(G, Settled(G, FALSE)) /\ Kept(G, ResetStopped(G, failed))
    BY <1>1, OperatorsKeep
  <2>3. QED
    BY <1>1, <1>2, <1>3, <2>1, <2>2
<1>8. CASE CloseManager(t)
  <2>1. PICK failed \in BOOLEAN : gens' = [gens EXCEPT ![current] = Closed(gens[current], failed)]
    BY <1>1, <1>8 DEF CloseManager
  <2>2. QED
    BY <1>1, <1>2, <2>1, OperatorsKeep
<1>9. QED
  BY <1>4, <1>5, <1>6, <1>7, <1>8 DEF StopStep, LockStep

LEMMA FinishStopKept ==
  ASSUME IInv, NEW g \in Generations, FinishStop(g)
  PROVE  \A h \in Generations : Kept(gens[h], gens'[h])
<1> DEFINE G == gens[g]
<1>1. G \in Gen /\ gens \in [Generations -> Gen]
  BY Types
<1>2. CASE FinishStopCancels(g)
  BY <1>1, <1>2 DEF FinishStopCancels, Kept, Gen
<1>3. CASE FinishStopResets(g)
  <2>1. PICK failed \in BOOLEAN : gens' = [gens EXCEPT ![g] = CleanedUp(G, failed)]
    BY <1>3 DEF FinishStopResets
  <2>2. QED
    BY <1>1, <2>1, OperatorsKeep, KeptChange
<1>4. QED
  BY <1>2, <1>3 DEF FinishStop

LEMMA ReplaceInit == Init => ReplaceInv
BY LifecycleAssumption DEF Init, ReplaceInv, Idle, Absent, Built, Generations

(* A step outside a start, and one of finishStop: the start there is still  *)
(* has what it had to close.                                                *)
LEMMA ReplaceOutside ==
  ASSUME IInv, ReplaceInv, UNCHANGED <<startMu, current>>,
         \A u \in Tasks : call[u].at \in Starting \/ call'[u].at \in Starting =>
                            call'[u] = call[u] /\ (writer' = u => writer = u),
         \A g \in Generations : Kept(gens[g], gens'[g])
  PROVE  ReplaceInv'
<1>1. ASSUME NEW u \in Tasks, call'[u].at \in {"build", "lockSwap"}
      PROVE  call'[u].old = current'
  BY <1>1 DEF Starting, ReplaceInv
<1>2. ASSUME NEW g \in Generations, gens'[g].built, g # current', ~gens'[g].closed
      PROVE  \E u \in Tasks : Holds(u, g)'
  <2>1. PICK u \in Tasks : Holds(u, g)
    BY <1>2 DEF ReplaceInv, Kept
  <2>2. call[u].at \in Starting
    BY <2>1 DEF Holds, IInv, LockInv
  <2>3. Holds(u, g)'
    BY <2>1, <2>2 DEF Holds, Hand
  <2>4. QED
    BY <2>3
<1>3. QED
  BY <1>1, <1>2 DEF ReplaceInv

(* A step of the start t.                                                   *)
Cared(t, g) == gens[g].built /\ g # current => gens[g].closed \/ Holds(t, g)

LEMMA ReplaceInside ==
  ASSUME IInv, ReplaceInv, NEW t \in Tasks, startMu \in {None, t}, startMu' \in {None, t},
         LockInv', \A u \in Tasks : u # t => call'[u] = call[u],
         call'[t].at \in {"build", "lockSwap"} => call'[t].old = current',
         \A g \in Generations : Cared(t, g) => Cared(t, g)'
  PROVE  ReplaceInv'
<1>1. None \notin Tasks
  BY Types
<1>2. ASSUME NEW u \in Tasks, call'[u].at \in {"build", "lockSwap"}
      PROVE  call'[u].old = current'
  <2>1. u = t
    BY <1>1, <1>2 DEF LockInv, Starting
  <2>2. QED
    BY <1>2, <2>1
<1>3. \A g \in Generations : Cared(t, g)
  BY <1>1 DEF ReplaceInv, Holds, Cared
<1>4. \A g \in Generations : Cared(t, g)'
  BY <1>3
<1>5. QED
  BY <1>2, <1>4 DEF ReplaceInv, Cared

LEMMA Elsewhere ==
  ASSUME IInv, NEW t \in Tasks,
         \/ BeginStart(t) \/ BeginStop(t) \/ Enter(t) \/ BeginShutdown(t)
         \/ StopStep(t) \/ RequestStep(t) \/ OpenWorker(t) \/ RecoverWorker(t)
         \/ Looks(t) \/ Expands(t) \/ CloseManager(t)
         \/ StopReads(t) \/ LogAccess(t) \/ LogSelection(t)
  PROVE  call[t].at \notin Starting /\ call'[t].at \notin Starting
<1>1. call \in [Tasks -> Calls] /\ Idle.at = "idle"
  BY Types DEF Idle
<1>2. ASSUME NEW l, Goes(t, l)
      PROVE  call'[t].at = l
  BY <1>1, <1>2 DEF Goes, Calls
<1>3. ASSUME Returns(t)
      PROVE  call'[t].at = "idle"
  BY <1>1, <1>3 DEF Returns
<1>4. ASSUME NEW l, NEW g, GoesFor(t, l, g)
      PROVE  call'[t].at = l
  BY <1>1, <1>4 DEF GoesFor, Calls
<1>5. CASE BeginStart(t) \/ BeginStop(t) \/ BeginShutdown(t) \/ Enter(t)
  BY <1>2, <1>4, <1>5 DEF BeginStart, BeginStop, BeginShutdown, Enter, Starting, Decided, Launching
<1>6. CASE RequestStep(t) \/ LogAccess(t) \/ LogSelection(t)
  BY <1>2, <1>3, <1>6 DEF RequestStep, Generate, Register, CountTokens, Select, EndRequest, LogAccess,
     LogSelection, Starting, Decided, Launching
<1>7. CASE OpenWorker(t) \/ RecoverWorker(t) \/ Looks(t) \/ Expands(t)
  BY <1>2, <1>7 DEF OpenWorker, RecoverWorker, Looks, Expands, Starting, Decided, Launching
<1>8. CASE StopReads(t) \/ StopCancels(t)
  BY <1>1, <1>8 DEF StopReads, StopCancels, Calls, Starting, Decided, Launching
<1>9. CASE HaltStopped(t) \/ HaltLaunching(t) \/ HaltRunning(t) \/ CutLaunch(t) \/ Cut(t)
  BY <1>2, <1>3, <1>9 DEF HaltStopped, HaltLaunching, HaltRunning, CutLaunch, Cut, Starting, Decided, Launching
<1>10. CASE AwaitEnds(t) \/ AwaitTimesOut(t) \/ StopLate(t) \/ CloseManager(t)
  BY <1>2, <1>3, <1>10 DEF AwaitEnds, AwaitTimesOut, StopLate, CloseManager, Starting, Decided, Launching
<1>11. QED
  BY <1>5, <1>6, <1>7, <1>8, <1>9, <1>10 DEF StopStep

LEMMA ReplaceByOthers ==
  ASSUME IInv, ReplaceInv, NEW t \in Tasks,
         \/ BeginStart(t) \/ BeginStop(t) \/ Enter(t) \/ BeginShutdown(t)
         \/ StopStep(t) \/ RequestStep(t) \/ LockStep(t) \/ OpenWorker(t) \/ RecoverWorker(t)
         \/ Looks(t) \/ Expands(t)
  PROVE  ReplaceInv'
<1>1. Step(t) /\ \A g \in Generations : Kept(gens[g], gens'[g])
  BY EveryStep, OthersKept DEF Steps
<1>2. \A u \in Tasks : u # t => call'[u] = call[u] /\ (writer' = u => writer = u)
  BY <1>1, Types DEF Step, Moves, Locks
<1>3. CASE call[t].at \notin Starting /\ call'[t].at \notin Starting
  <2>1. UNCHANGED <<startMu, current>>
    BY <1>1, <1>3 DEF Step, Outside, Inside
  <2>2. QED
    BY <1>1, <1>2, <1>3, <2>1, ReplaceOutside
<1>4. CASE LockStart(t)
  <2>1. /\ startMu = None /\ startMu' = t /\ call'[t].at = "lockCheck"
        /\ UNCHANGED <<current, gens>>
    BY <1>4, Types DEF LockStart, Goes, Calls
  <2>2. \A g \in Generations : Cared(t, g) => Cared(t, g)'
    BY <2>1, Types DEF Cared, Holds
  <2>3. LockInv'
    BY <1>1, StepKeeps DEF IInv
  <2>4. QED
    BY <1>2, <2>1, <2>2, <2>3, ReplaceInside
<1>5. CASE Announce(t) /\ call[t].at \in Starting
  <2>1. /\ call' = call /\ startMu' = startMu /\ UNCHANGED <<current, gens>>
        /\ call[t].at \notin Launching
    BY <1>5 DEF Announce, Launching
  <2>2. startMu = t
    BY <1>5 DEF IInv, LockInv
  <2>3. \A g \in Generations : Cared(t, g) => Cared(t, g)'
    BY <2>1 DEF Cared, Holds, Hand
  <2>4. LockInv' /\ (call'[t].at \in {"build", "lockSwap"} => call'[t].old = current')
    BY <1>1, <2>1, StepKeeps DEF IInv, ReplaceInv
  <2>5. QED
    BY <2>1, <2>2, <2>3, <2>4, ReplaceInside
<1>6. CASE Announce(t) /\ call[t].at \notin Starting
  BY <1>3, <1>6 DEF Announce
<1>7. QED
  BY <1>3, <1>4, <1>5, <1>6, Elsewhere DEF LockStep

(* The steps of a start that leave its hand as it is: it has none yet.      *)
LEMMA ReplaceByEmpty ==
  ASSUME IInv, ReplaceInv, NEW t \in Tasks,
         \/ StartChecks(t) \/ Restart(t) \/ CleanStopped(t) \/ CleanWaits(t) \/ CleanLate(t)
  PROVE  ReplaceInv'
<1> DEFINE c == call[t]
<1>1. Step(t) /\ (\A g \in Generations : Kept(gens[g], gens'[g])) /\ LockInv'
  BY EveryStep, StartsKept, StepKeeps DEF Steps, StartStep, StartChecks, Restart, CleanStopped,
     CleanWaits, CleanLate, Build, IInv
<1>2. c.at \in Preparing /\ c.at \in Starting /\ current' = current
  BY DEF StartChecks, Restart, CleanStopped, CleanWaits, CleanLate, Preparing, Starting, Decided,
     manager, ReturnLocked, Prepares, Refuses
<1>3. startMu = t /\ startMu' \in {None, t}
  BY <1>1, <1>2, StartFacts DEF Step, Locks
<1>4. \A g \in Generations : Cared(t, g) => Cared(t, g)'
  BY <1>1, <1>2 DEF Cared, Holds, Kept
<1>5. call'[t].at \in {"build", "lockSwap"} => call'[t].old = current'
  <2>1. CASE StartChecks(t) \/ Restart(t) \/ CleanLate(t)
    <3>1. call'[t].at # "build" /\ call'[t].at # "lockSwap"
      <4>1. CASE StartChecks(t)
        BY <4>1, Types DEF StartChecks, GoesFor, Calls
      <4>2. CASE Restart(t) \/ CleanLate(t)
        BY <4>2, Types, Returning DEF Restart, CleanLate, Goes, Refuses, ReturnLocked, Calls
      <4>3. QED
        BY <2>1, <4>1, <4>2
    <3>2. QED
      BY <3>1
  <2>2. CASE CleanStopped(t) \/ CleanWaits(t)
    <3>1. c.gen = current
      BY <1>2, <2>2, StartFacts DEF CleanStopped, CleanWaits, Decided
    <3>2. Prepares(t) \/ Refuses(t) \/ Goes(t, "cleanWait") \/ Goes(t, "cleanLate")
      BY <2>2 DEF CleanStopped, CleanWaits
    <3>3. CASE Prepares(t)
      BY <1>2, <3>1, <3>3, Types DEF Prepares, Calls
    <3>4. CASE Refuses(t) \/ Goes(t, "cleanWait") \/ Goes(t, "cleanLate")
      BY <3>4, Types, Returning DEF Refuses, ReturnLocked, Goes, Calls
    <3>5. QED
      BY <3>2, <3>3, <3>4
  <2>3. QED
    BY <2>1, <2>2
<1>6. QED
  BY <1>1, <1>3, <1>4, <1>5, ReplaceInside DEF Step, Moves

LEMMA ReplaceByFull ==
  ASSUME IInv, ReplaceInv, NEW t \in Tasks, StartStep(t),
         call[t].at \in Launching \cup {"build", "lockSwap", "launch", "lockFinish", "closing"}
  PROVE  ReplaceInv'
<1> DEFINE c == call[t]
<1>1. Step(t) /\ (Build(t) \/ \A g \in Generations : Kept(gens[g], gens'[g])) /\ LockInv'
  BY EveryStep, StartsKept, StepKeeps DEF Steps, IInv
<1>2. c.at \in Starting
  BY DEF Starting
<1>3. startMu = t /\ startMu' \in {None, t}
  BY <1>1, <1>2, StartFacts DEF Step, Locks
<1>4. c \in Calls /\ current \in Nat
  BY StartFacts, <1>2
<1>5. CASE Build(t)
  <2> DEFINE g == c.gen
  <2>1. g > current /\ g \in Nat /\ g # current
    BY <1>2, <1>4, <1>5, StartFacts DEF Build, Calls, Generations
  <2>2. UNCHANGED manager /\ \A h \in Generations : h # g => gens'[h] = gens[h]
    BY <1>5, Types DEF Build
  <2>3. /\ call'[t].at \in {"lockSwap", "lockFinish"} /\ call'[t].gen = g
        /\ call'[t].old = c.old /\ c.old = current
    BY <1>5, Types DEF Build, Goes, Calls, ReplaceInv
  <2>4. \A h \in Generations : h = g => Holds(t, h)'
    BY <1>3, <2>1, <2>2, <2>3 DEF Holds, Hand, manager, Preparing, Launching
  <2>5. \A h \in Generations : h # g => ~Holds(t, h)
    BY <2>1 DEF Holds, Hand
  <2>6. \A h \in Generations : Cared(t, h) => Cared(t, h)'
    BY <2>2, <2>4, <2>5 DEF Cared, manager
  <2>7. QED
    BY <1>1, <1>3, <2>2, <2>3, <2>6, ReplaceInside DEF Step, Moves, manager
<1>6. CASE Swap(t)
  <2> DEFINE g == c.gen
  <2>1. g > current /\ g \in Nat /\ g # current /\ c.old = current
    BY <1>2, <1>4, <1>6, StartFacts DEF Swap, Calls, Generations, ReplaceInv
  <2>2. /\ current' = g /\ UNCHANGED <<gens, startMu>>
        /\ call'[t].at = "launch" /\ call'[t].gen = g /\ call'[t].old = current
    BY <1>6, <2>1, Types DEF Swap, Goes, Calls
  <2>3. \A h \in Generations : h = current => Holds(t, h)'
    BY <1>3, <2>1, <2>2 DEF Holds, Hand, Preparing, Launching
  <2>4. \A h \in Generations : h # g => ~Holds(t, h)
    BY <2>1 DEF Holds, Hand
  <2>5. \A h \in Generations : Cared(t, h) => Cared(t, h)'
    BY <2>2, <2>3, <2>4 DEF Cared
  <2>6. QED
    BY <1>1, <1>3, <2>2, <2>5, ReplaceInside DEF Step, Moves
<1>7. CASE CloseOther(t)
  <2>1. \A h \in Generations : h = Hand(c) => (gens[h].built => gens'[h].closed)
    <3>1. Hand(c) \in Generations /\ gens[Hand(c)] \in Gen
      BY <1>4, Types DEF Hand, Calls
    <3>2. CASE ~gens[Hand(c)].built
      BY <3>2
    <3>3. CASE gens[Hand(c)].built
      <4>1. PICK failed \in BOOLEAN :
              gens' = [gens EXCEPT ![Hand(c)] = Closed(gens[Hand(c)], failed)]
        BY <1>7, <3>3 DEF CloseOther, Hand
      <4>2. Closed(gens[Hand(c)], failed).closed
        BY <3>1, OperatorsKeep
      <4>3. QED
        BY <3>1, <4>1, <4>2, Types
    <3>4. QED
      BY <3>2, <3>3
  <2>2. \A h \in Generations : Kept(gens[h], gens'[h])
    BY <1>1, <1>7 DEF CloseOther, Build
  <2>3. UNCHANGED current /\ call'[t].at = "idle"
    BY <1>7, Returning DEF CloseOther
  <2>4. \A h \in Generations : Cared(t, h) => Cared(t, h)'
    BY <2>1, <2>2, <2>3 DEF Cared, Holds, Kept
  <2>5. QED
    BY <1>1, <1>3, <2>3, <2>4, ReplaceInside DEF Step, Moves
<1>8. CASE \/ LaunchNext(t) \/ LaunchWarms(t) \/ LaunchFails(t) \/ LaunchDetaches(t)
           \/ LaunchEnables(t) \/ Unlaunch(t) \/ FinishStart(t)
  <2>1. UNCHANGED current /\ \A h \in Generations : Kept(gens[h], gens'[h])
    BY <1>1, <1>8 DEF LaunchNext, LaunchWarms, LaunchFails, LaunchDetaches, LaunchEnables, Unlaunch,
       FinishStart, LaunchReturns, ReturnLocked, manager, Build
  <2>2. c.at = "launch" => writer # t
    BY <1>2, StartFacts DEF Asking, Decided, Launching
  <2>3. CASE writer = t /\ c.at \in Launching
    <3>1. call'[t].at # "build" /\ call'[t].at # "lockSwap"
      <4>1. \/ Returns(t) \/ call' = call
            \/ \E l \in {"unlaunch", "enabling", "lockFinish"} : Goes(t, l)
        BY <1>8, <2>3 DEF LaunchNext, LaunchWarms, LaunchFails, LaunchDetaches, LaunchEnables, Unlaunch,
           FinishStart, LaunchReturns, ReturnLocked, Launching
      <4>2. QED
        BY <2>3, <4>1, Types, Returning DEF Goes, Calls, Launching
    <3>2. \A h \in Generations : Cared(t, h) => Cared(t, h)'
      BY <2>1, <2>3 DEF Cared, Holds, Kept
    <3>3. QED
      BY <1>1, <1>3, <3>1, <3>2, ReplaceInside DEF Step, Moves
  <2>4. CASE ~(writer = t /\ c.at \in Launching)
    <3>1. startMu' = startMu /\ (Goes(t, "closing") \/ (writer # t /\ writer' = writer))
      BY <1>8, <2>2, <2>4
         DEF LaunchNext, LaunchWarms, LaunchFails, LaunchDetaches, LaunchEnables, Unlaunch,
             FinishStart, LaunchReturns, manager, Launching
    <3>2. \/ call' = call /\ c.at \in Launching
          \/ \E l \in Launching \cup {"lockFinish", "closing"} : Goes(t, l)
      <4>1. CASE LaunchWarms(t)
        BY <4>1 DEF LaunchWarms, Launching
      <4>2. CASE LaunchNext(t) \/ LaunchFails(t) \/ LaunchDetaches(t) \/ FinishStart(t)
        BY <4>2 DEF LaunchNext, LaunchFails, LaunchDetaches, FinishStart, Launching
      <4>3. CASE LaunchEnables(t) \/ Unlaunch(t)
        BY <2>4, <4>3 DEF LaunchEnables, Unlaunch, LaunchReturns, Launching
      <4>4. QED
        BY <1>8, <4>1, <4>2, <4>3
    <3>3. /\ call'[t].gen = c.gen /\ call'[t].old = c.old
          /\ call'[t].at \in Launching \cup {"lockFinish", "closing"}
          /\ call'[t].at \in Launching => writer' # t
      BY <3>1, <3>2, Types DEF Goes, Calls, Launching
    <3>4. \A h \in Generations : Holds(t, h) => Holds(t, h)'
      BY <1>3, <2>1, <3>1, <3>3 DEF Holds, Hand, Launching, Preparing
    <3>5. \A h \in Generations : Cared(t, h) => Cared(t, h)'
      BY <2>1, <3>4 DEF Cared, Kept
    <3>6. QED
      BY <1>1, <1>3, <3>1, <3>3, <3>5, ReplaceInside DEF Step, Moves, Launching
  <2>5. QED
    BY <2>3, <2>4
<1>9. QED
  BY <1>5, <1>6, <1>7, <1>8
     DEF StartStep, StartChecks, Restart, CleanStopped, CleanWaits, CleanLate, Launching

LEMMA ReplaceNext ==
  ASSUME IInv, ReplaceInv, [Next]_vars
  PROVE  ReplaceInv'
<1>1. CASE UNCHANGED vars
  BY <1>1 DEF vars, manager, ReplaceInv, Holds, Hand
<1>2. CASE \E g \in Generations : FinishStop(g)
  <2>1. UNCHANGED <<call, manager>> /\ \A g \in Generations : Kept(gens[g], gens'[g])
    BY <1>2, FinishStopKept DEF FinishStop, FinishStopCancels, FinishStopResets
  <2>2. QED
    BY <2>1, ReplaceOutside DEF manager
<1>3. ASSUME NEW t \in Tasks, StartStep(t)
      PROVE  ReplaceInv'
  <2>1. CASE \/ StartChecks(t) \/ Restart(t) \/ CleanStopped(t) \/ CleanWaits(t) \/ CleanLate(t)
    BY <2>1, ReplaceByEmpty
  <2>2. CASE ~(\/ StartChecks(t) \/ Restart(t) \/ CleanStopped(t) \/ CleanWaits(t) \/ CleanLate(t))
    <3>1. call[t].at \in Launching \cup {"build", "lockSwap", "launch", "lockFinish", "closing"}
      BY <1>3, <2>2 DEF StartStep, Build, Swap, LaunchNext, LaunchWarms, LaunchFails, LaunchDetaches,
         LaunchEnables, Unlaunch, FinishStart, CloseOther, Launching
    <3>2. QED
      BY <1>3, <3>1, ReplaceByFull
  <2>3. QED
    BY <2>1, <2>2
<1>4. QED
  BY <1>1, <1>2, <1>3, ReplaceByOthers DEF Next, Steps

(* lifecycle.go, StartService: what a start has built and made current, or  *)
(* rejected, and what it has replaced is closed before the next start: no   *)
(* generation is forgotten, whichever way its start returns.                *)
THEOREM ReplacedClosed == Spec => []SupersededClosed
<1>1. Init => IInv /\ ReplaceInv
  BY InitInv, ReplaceInit
<1>2. (IInv /\ ReplaceInv) /\ [Next]_vars => (IInv /\ ReplaceInv)'
  BY NextInv, ReplaceNext
<1>3. IInv /\ ReplaceInv => SupersededClosed
  BY DEF ReplaceInv, Holds, Hand, SupersededClosed
<1>4. QED
  BY <1>1, <1>2, <1>3, PTL DEF Spec

=============================================================================
