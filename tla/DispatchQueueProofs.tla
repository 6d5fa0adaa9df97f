------------------------- MODULE DispatchQueueProofs -------------------------
(***************************************************************************)
(* Proofs about the dispatch queue, for any number of requests, kinds of    *)
(* requests and slots: a queue holds each of its waiters once, slots are    *)
(* neither lost nor leased twice, and every head hears of a free one.       *)
(***************************************************************************)
EXTENDS DispatchQueue, SequenceTheorems, FiniteSetTheorems, TLAPS

(* The requests with a slot: free counts the others.                        *)
Leasing == {r \in Requests : pc[r] \in {"served", "holding"}}
SlotsInv == IsFiniteSet(Leasing) /\ free + Cardinality(Leasing) = slots

IInv == TypeOK /\ SlotsInv /\ HeadHears

-----------------------------------------------------------------------------
(* The queues: what append and slices.Delete make of a queue without        *)
(* repetitions.                                                             *)

LEMMA Joined ==
  ASSUME NEW S, NEW s \in Seq(S), IsInjective(s), NEW e \in S, ~Contains(s, e)
  PROVE  /\ Append(s, e) \in Seq(S) /\ IsInjective(Append(s, e)) /\ Append(s, e) # <<>>
         /\ \A x \in S : Contains(Append(s, e), x) <=> Contains(s, x) \/ x = e
         /\ Head(Append(s, e)) \in S
         /\ s # <<>> => Head(Append(s, e)) = Head(s)
<1> DEFINE u == Append(s, e)
<1>1. /\ u \in Seq(S) /\ u # <<>> /\ Len(u) = Len(s) + 1 /\ Len(s) \in Nat
      /\ \A i \in 1..Len(s) : u[i] = s[i]
      /\ u[Len(s) + 1] = e
  BY AppendProperties, LenProperties
<1>2. DOMAIN u = 1..(Len(s) + 1) /\ DOMAIN s = 1..Len(s)
  BY <1>1, LenProperties
<1>3. Head(u) = IF s = <<>> THEN e ELSE Head(s)
  BY HeadTailAppend
<1>4. s # <<>> => Head(s) \in S
  BY HeadTailProperties
<1> HIDE DEF u
<1>5. \A i \in 1..(Len(s) + 1) : i \in 1..Len(s) \/ i = Len(s) + 1
  BY <1>1
<1>6. IsInjective(u)
  <2> SUFFICES ASSUME NEW a \in DOMAIN u, NEW b \in DOMAIN u, u[a] = u[b]
               PROVE  a = b
    BY DEF IsInjective
  <2>1. \A i \in 1..Len(s) : s[i] # e
    BY DEF Contains
  <2>2. QED
    BY <1>1, <1>2, <1>5, <2>1 DEF IsInjective
<1>7. ASSUME NEW x \in S
      PROVE  Contains(u, x) <=> Contains(s, x) \/ x = e
  <2>1. 1..Len(u) = 1..Len(s) \cup {Len(s) + 1}
    BY <1>1
  <2>2. QED
    BY <1>1, <2>1 DEF Contains
<1>8. QED
  BY <1>1, <1>3, <1>4, <1>6, <1>7 DEF u

LEMMA RemovedAt ==
  ASSUME NEW S, NEW s \in Seq(S), IsInjective(s), NEW i \in 1..Len(s)
  PROVE  RemoveFirst(s, s[i]) = SubSeq(s, 1, i-1) \o SubSeq(s, i+1, Len(s))
<1> DEFINE I == {j \in 1..Len(s) : s[j] = s[i]}
<1>1. I = {i}
  BY DEF IsInjective
<1>2. Min(I) = i
  BY <1>1 DEF Min
<1>3. SelectInSeq(s, LAMBDA v : v = s[i]) = i
  BY <1>1, <1>2 DEF SelectInSeq
<1>4. QED
  BY <1>3 DEF RemoveFirst, RemoveAt

LEMMA Removed ==
  ASSUME NEW S, NEW s \in Seq(S), IsInjective(s), NEW e \in S
  PROVE  /\ RemoveFirst(s, e) \in Seq(S) /\ IsInjective(RemoveFirst(s, e))
         /\ \A x \in S : Contains(RemoveFirst(s, e), x) <=> Contains(s, x) /\ x # e
         /\ RemoveFirst(s, e) # <<>> => Head(RemoveFirst(s, e)) \in S
         /\ s # <<>> /\ Head(s) # e =>
              RemoveFirst(s, e) # <<>> /\ Head(RemoveFirst(s, e)) = Head(s)
<1> DEFINE u == RemoveFirst(s, e)
<1>1. Len(s) \in Nat /\ DOMAIN s = 1..Len(s) /\ \A j \in 1..Len(s) : s[j] \in S
  BY LenProperties, ElementOfSeq
<1>2. CASE ~Contains(s, e)
  <2>1. u = s
    BY <1>2 DEF RemoveFirst, Contains
  <2>2. s # <<>> => Head(s) \in S
    BY HeadTailProperties
  <2>3. \A x \in S : Contains(s, x) <=> Contains(s, x) /\ x # e
    BY <1>2
  <2>4. QED
    BY <2>1, <2>2, <2>3
<1>3. CASE Contains(s, e)
  <2>1. PICK i \in 1..Len(s) : s[i] = e
    BY <1>3 DEF Contains
  <2> DEFINE before == SubSeq(s, 1, i-1) after == SubSeq(s, i+1, Len(s))
  <2>2. u = before \o after
    BY <2>1, RemovedAt
  <2>3. /\ before \in Seq(S) /\ Len(before) = i - 1 /\ \A j \in 1..(i-1) : before[j] = s[j]
    <3>1. \A j \in 1..(i-1) : s[j] \in S
      BY <1>1
    <3>2. i - 1 \in Int /\ 1 \in Int
      OBVIOUS
    <3>3. /\ before \in Seq(S) /\ Len(before) = IF 1 <= i-1 THEN i-1-1+1 ELSE 0
          /\ \A j \in 1..(i-1-1+1) : before[j] = s[1+j-1]
      BY <3>1, <3>2, SubSeqProperties
    <3>4. QED
      BY <3>3
  <2>4. /\ after \in Seq(S) /\ Len(after) = Len(s) - i
        /\ \A j \in 1..(Len(s) - i) : after[j] = s[i+j]
    <3>1. \A j \in (i+1)..Len(s) : s[j] \in S
      BY <1>1
    <3>2. i + 1 \in Int /\ Len(s) \in Int
      BY <1>1
    <3>3. /\ after \in Seq(S) /\ Len(after) = IF i+1 <= Len(s) THEN Len(s)-(i+1)+1 ELSE 0
          /\ \A j \in 1..(Len(s)-(i+1)+1) : after[j] = s[i+1+j-1]
      BY <3>1, <3>2, SubSeqProperties
    <3> HIDE DEF after
    <3>4. Len(after) = Len(s) - i
      <4> DEFINE n == Len(s)
      <4>1. n \in Nat /\ i \in Nat /\ i <= n
        BY <1>1
      <4>2. Len(after) = IF i+1 <= n THEN n-(i+1)+1 ELSE 0
        BY <3>3
      <4> HIDE DEF n
      <4>3. Len(after) = n - i
        BY <4>1, <4>2
      <4>4. QED
        BY <4>3 DEF n
    <3>5. ASSUME NEW j \in 1..(Len(s) - i)
          PROVE  after[j] = s[i+j]
      <4>1. j \in 1..(Len(s)-(i+1)+1) /\ i+1+j-1 = i+j
        BY <1>1
      <4>2. QED
        BY <3>3, <4>1
    <3>6. QED
      BY <3>3, <3>4, <3>5
  <2> HIDE DEF before, after, u
  <2>5. /\ u \in Seq(S) /\ Len(u) = Len(before) + Len(after)
        /\ \A j \in 1..(Len(before) + Len(after)) :
             u[j] = IF j <= Len(before) THEN before[j] ELSE after[j - Len(before)]
    BY <2>2, <2>3, <2>4, ConcatProperties
  <2>6. /\ u \in Seq(S) /\ Len(u) = Len(s) - 1
        /\ \A j \in 1..(Len(s) - 1) : u[j] = IF j < i THEN s[j] ELSE s[j+1]
    <3>1. Len(u) = Len(s) - 1
      BY <1>1, <2>3, <2>4, <2>5
    <3>2. ASSUME NEW j \in 1..(Len(s) - 1)
          PROVE  u[j] = IF j < i THEN s[j] ELSE s[j+1]
      <4>1. u[j] = IF j <= i-1 THEN before[j] ELSE after[j-(i-1)]
        BY <1>1, <2>3, <2>4, <2>5
      <4>2. CASE j < i
        BY <2>3, <4>1, <4>2
      <4>3. CASE ~(j < i)
        <5>1. j-(i-1) \in 1..(Len(s)-i) /\ i + (j-(i-1)) = j+1
          BY <1>1, <4>3
        <5>2. QED
          BY <2>4, <4>1, <4>3, <5>1
      <4>4. QED
        BY <4>2, <4>3
    <3>3. QED
      BY <2>5, <3>1, <3>2
  <2>7. DOMAIN u = 1..(Len(s) - 1) /\ 1..Len(u) = 1..(Len(s) - 1)
    BY <2>6, LenProperties
  <2>8. IsInjective(u)
    <3> SUFFICES ASSUME NEW a \in 1..(Len(s)-1), NEW b \in 1..(Len(s)-1), u[a] = u[b]
                 PROVE  a = b
      BY <2>7 DEF IsInjective
    <3> DEFINE at(j) == IF j < i THEN j ELSE j+1
    <3>1. u[a] = s[at(a)] /\ u[b] = s[at(b)] /\ at(a) \in 1..Len(s) /\ at(b) \in 1..Len(s)
      BY <1>1, <2>6
    <3>2. at(a) = at(b)
      BY <1>1, <3>1 DEF IsInjective
    <3>3. QED
      BY <1>1, <3>2
  <2>9. ASSUME NEW x \in S
        PROVE  Contains(u, x) <=> Contains(s, x) /\ x # e
    <3>1. ASSUME Contains(u, x)
          PROVE  Contains(s, x) /\ x # e
      <4>1. PICK j \in 1..(Len(s)-1) : u[j] = x
        BY <2>7, <3>1 DEF Contains
      <4>2. PICK k \in 1..Len(s) : s[k] = x /\ k # i
        BY <1>1, <2>6, <4>1
      <4>3. QED
        BY <1>1, <2>1, <4>2 DEF Contains, IsInjective
    <3>2. ASSUME Contains(s, x), x # e
          PROVE  Contains(u, x)
      <4>1. PICK k \in 1..Len(s) : s[k] = x /\ k # i
        BY <2>1, <3>2 DEF Contains
      <4>2. CASE k < i
        <5>1. k \in 1..(Len(s)-1) /\ u[k] = x
          BY <1>1, <2>6, <4>1, <4>2
        <5>2. QED
          BY <2>7, <5>1 DEF Contains
      <4>3. CASE ~(k < i)
        <5>1. k-1 \in 1..(Len(s)-1) /\ u[k-1] = x
          BY <1>1, <2>6, <4>1, <4>3
        <5>2. QED
          BY <2>7, <5>1 DEF Contains
      <4>4. QED
        BY <4>2, <4>3
    <3>3. QED
      BY <3>1, <3>2
  <2>10. u # <<>> => Head(u) \in S
    BY <2>6, HeadTailProperties
  <2>11. ASSUME s # <<>>, Head(s) # e
         PROVE  u # <<>> /\ Head(u) = Head(s)
    <3>1. Head(s) = s[1]
      BY <2>11
    <3>2. i # 1 /\ Len(s) > 1
      BY <1>1, <2>1, <2>11, <3>1
    <3>3. Len(u) # 0 /\ u[1] = s[1]
      BY <1>1, <2>6, <3>2
    <3>4. u # <<>>
      BY <3>3
    <3>5. Head(u) = u[1]
      BY <2>6, <3>4
    <3>6. QED
      BY <3>1, <3>3, <3>4, <3>5
  <2>12. QED
    BY <2>6, <2>8, <2>9, <2>10, <2>11 DEF u
<1>4. QED
  BY <1>2, <1>3

LEMMA HeadIn ==
  ASSUME NEW S, NEW s \in Seq(S), s # <<>>
  PROVE  Head(s) \in S /\ Contains(s, Head(s))
<1>1. Len(s) \in Nat \ {0} /\ Head(s) \in S
  BY EmptySeq, HeadTailProperties
<1>2. Head(s) = s[1]
  OBVIOUS
<1>3. QED
  BY <1>1, <1>2 DEF Contains

-----------------------------------------------------------------------------
(* The invariant.                                                           *)

LEMMA InitInv == Init => IInv
<1> SUFFICES ASSUME Init PROVE IInv
  OBVIOUS
<1>1. Slots \in Nat /\ slots \in Nat
  BY DispatchAssumption DEF Init
<1>2. /\ \A k \in Keys : queues[k] = <<>>
      /\ queues \in [Keys -> Seq(Requests)]
      /\ Len(<<>>) = 0 /\ IsInjective(<<>>)
  <2>1. <<>> \in Seq(Requests)
    BY EmptySeq
  <2>2. QED
    BY <2>1 DEF Init, IsInjective
<1>3. TypeOK
  <2>1. \A k \in Keys : \A r : ~Contains(queues[k], r)
    BY <1>2 DEF Contains
  <2>2. slots \in 0..Slots /\ free \in 0..slots
    BY <1>1 DEF Init
  <2>3. QED
    BY <1>2, <2>1, <2>2 DEF Init, TypeOK
<1>4. Leasing = {}
  BY DEF Init, Leasing
<1>5. SlotsInv
  BY <1>1, <1>4, FS_EmptySet DEF Init, SlotsInv
<1>6. HeadHears
  BY <1>2 DEF HeadHears, Heads
<1>7. QED
  BY <1>3, <1>5, <1>6 DEF IInv

(* What a step of the request r does to its queue and its slot.             *)
Labels == {"idle", "looking", "joining", "waiting", "served", "leaving", "holding"}

LEMMA Facts ==
  ASSUME IInv
  PROVE  /\ pc \in [Requests -> Labels] /\ queues \in [Keys -> Seq(Requests)]
         /\ wake \in [Requests -> BOOLEAN]
         /\ slots \in 0..Slots /\ free \in 0..slots /\ slots \in Nat /\ free \in Nat /\ Slots \in Nat
         /\ announcing \in BOOLEAN /\ missed \in BOOLEAN
         /\ forwarder \in {"fetching", "listening", "waking"}
         /\ \A k \in Keys : IsInjective(queues[k]) /\ queues[k] \in Seq(Requests)
         /\ \A r \in Requests : Key[r] \in Keys
         /\ \A r \in Requests, k \in Keys :
              /\ pc[r] = "waiting" /\ k = Key[r] => Contains(queues[k], r)
              /\ pc[r] \in {"idle", "joining", "holding"} \/ k # Key[r] => ~Contains(queues[k], r)
BY DispatchAssumption DEF IInv, TypeOK, Labels

(* The label of r changes to l while the queues stay.                       *)
LEMMA LabelKeeps ==
  ASSUME IInv, NEW r \in Requests, NEW l \in Labels,
         pc' = [pc EXCEPT ![r] = l], queues' = queues, wake' \in [Requests -> BOOLEAN],
         slots' \in 0..Slots, free' \in 0..slots', announcing' \in BOOLEAN, missed' \in BOOLEAN,
         forwarder' \in {"fetching", "listening", "waking"},
         l = "waiting" => Queued(r),
         l \in {"idle", "joining", "holding"} => ~Queued(r)
  PROVE  TypeOK'
<1>1. pc' \in [Requests -> Labels] /\ pc'[r] = l /\ \A q \in Requests : q # r => pc'[q] = pc[q]
  BY Facts
<1>2. ASSUME NEW q \in Requests, NEW k \in Keys
      PROVE  /\ pc'[q] = "waiting" /\ k = Key[q] => Contains(queues[k], q)
             /\ pc'[q] \in {"idle", "joining", "holding"} \/ k # Key[q] => ~Contains(queues[k], q)
  <2>1. CASE q # r
    BY <1>1, <2>1, Facts
  <2>2. CASE q = r
    BY <1>1, <2>2, Facts DEF Queued, Queue
  <2>3. QED
    BY <2>1, <2>2
<1>3. QED
  BY <1>1, <1>2, Facts DEF TypeOK, Labels

(* A slot is leased, given back, or neither.                                *)
LEMMA SlotKeeps ==
  ASSUME IInv, NEW r \in Requests, NEW l \in Labels, pc' = [pc EXCEPT ![r] = l],
         slots' = slots, free' \in Nat,
         \/ free' = free /\ (pc[r] \in {"served", "holding"} <=> l \in {"served", "holding"})
         \/ free' = free - 1 /\ pc[r] \notin {"served", "holding"} /\ l \in {"served", "holding"}
         \/ free' = free + 1 /\ pc[r] \in {"served", "holding"} /\ l \notin {"served", "holding"}
  PROVE  SlotsInv' /\ free' \in 0..slots'
<1> DEFINE S == Leasing T == Leasing'
<1>1. /\ r \in S <=> pc[r] \in {"served", "holding"}
      /\ r \in T <=> l \in {"served", "holding"}
      /\ \A q : q # r => (q \in T <=> q \in S)
      /\ IsFiniteSet(S) /\ free + Cardinality(S) = slots
  <2>1. pc'[r] = l /\ \A q \in Requests : q # r => pc'[q] = pc[q]
    BY Facts
  <2>2. QED
    BY <2>1 DEF Leasing, IInv, SlotsInv
<1> HIDE DEF S, T
<1>2. free \in Nat /\ slots \in Nat /\ Cardinality(S) \in Nat
  BY <1>1, Facts, FS_CardinalityType
<1>3. CASE r \in S <=> r \in T
  <2>1. T = S /\ free' = free
    BY <1>1, <1>3
  <2>2. QED
    BY <1>1, <1>2, <2>1 DEF SlotsInv, T
<1>4. CASE r \in T /\ r \notin S
  <2>1. T = S \cup {r} /\ free' = free - 1
    BY <1>1, <1>4
  <2>2. IsFiniteSet(T) /\ Cardinality(T) = Cardinality(S) + 1
    BY <1>1, <1>4, <2>1, FS_AddElement
  <2>3. QED
    BY <1>1, <1>2, <2>1, <2>2 DEF SlotsInv, T
<1>5. CASE r \in S /\ r \notin T
  <2>1. T = S \ {r} /\ free' = free + 1
    BY <1>1, <1>5
  <2>2. IsFiniteSet(T) /\ Cardinality(T) = Cardinality(S) - 1
    BY <1>1, <1>5, <2>1, FS_RemoveElement
  <2>3. Cardinality(T) \in Nat
    BY <2>2, FS_CardinalityType
  <2>4. QED
    BY <1>1, <1>2, <2>1, <2>2, <2>3 DEF SlotsInv, T
<1>6. QED
  BY <1>3, <1>4, <1>5

LEMMA LooksKeep ==
  ASSUME IInv, NEW r \in Requests, Ask(r) \/ Look(r) \/ Woken(r) \/ Recheck(r) \/ GiveUp(r)
  PROVE  IInv'
<1>1. PICK l \in Labels : /\ pc' = [pc EXCEPT ![r] = l] /\ queues' = queues /\ slots' = slots
                          /\ l = "waiting" => Queued(r) /\ (free = 0 \/ wake[r])
                          /\ l \notin {"idle", "holding"}
                          /\ l = "joining" => ~Queued(r)
                          /\ \/ free' = free /\ (l \notin {"served", "holding"})
                             \/ free > 0 /\ free' = free - 1 /\ l = "served"
                          /\ pc[r] \notin {"served", "holding"}
                          /\ wake' = wake \/ (wake' = [wake EXCEPT ![r] = FALSE] /\ l = "looking")
                          /\ UNCHANGED <<announcing, forwarder, missed>>
  BY DEF Ask, Look, Woken, Recheck, GiveUp, Goto, Labels
<1>2. wake' \in [Requests -> BOOLEAN] /\ free' \in Nat
  <2>1. wake' \in [Requests -> BOOLEAN]
    BY <1>1, Facts
  <2>2. free' \in Nat
    BY <1>1, Facts
  <2>3. QED
    BY <2>1, <2>2
<1>3. SlotsInv' /\ free' \in 0..slots'
  BY <1>1, <1>2, SlotKeeps
<1>4. TypeOK'
  BY <1>1, <1>2, <1>3, LabelKeeps, Facts
<1>5. HeadHears'
  <2> SUFFICES ASSUME free' > 0, NEW q \in Heads
               PROVE  \/ pc'[q] # "waiting" \/ wake'[q]
                      \/ announcing \/ forwarder = "waking" \/ missed
    BY <1>1 DEF HeadHears, Heads
  <2>1. q \in Requests /\ free > 0
    BY <1>1, Facts, HeadTailProperties DEF Heads
  <2>2. CASE q = r
    BY <1>1, <2>1, <2>2, Facts
  <2>3. CASE q # r
    <3>1. pc'[q] = pc[q] /\ wake'[q] = wake[q]
      BY <1>1, <2>1, <2>3, Facts
    <3>2. QED
      BY <2>1, <3>1 DEF IInv, HeadHears
  <2>4. QED
    BY <2>2, <2>3
<1>6. QED
  BY <1>3, <1>4, <1>5 DEF IInv

LEMMA EnterKeeps ==
  ASSUME IInv, NEW r \in Requests, Enter(r)
  PROVE  IInv'
<1> DEFINE k == Key[r] s == queues[k] u == Append(s, r)
<1>1. /\ k \in Keys /\ s \in Seq(Requests) /\ IsInjective(s) /\ ~Contains(s, r) /\ pc[r] = "joining"
  BY Facts DEF Enter
<1>2. /\ u \in Seq(Requests) /\ IsInjective(u) /\ u # <<>> /\ Head(u) \in Requests
      /\ \A x \in Requests : Contains(u, x) <=> Contains(s, x) \/ x = r
  BY <1>1, Joined
<1>3. /\ queues' = [queues EXCEPT ![k] = u] /\ pc' = [pc EXCEPT ![r] = "waiting"]
      /\ wake' = [wake EXCEPT ![Head(u)] = TRUE]
      /\ UNCHANGED <<free, slots, announcing, forwarder, missed>>
  BY DEF Enter, Join, Queue, Goto
<1> HIDE DEF u
<1>4. /\ \A h \in Keys : queues'[h] = IF h = k THEN u ELSE queues[h]
      /\ queues' \in [Keys -> Seq(Requests)] /\ wake' \in [Requests -> BOOLEAN]
      /\ wake'[Head(u)] /\ \A q \in Requests : wake[q] => wake'[q]
      /\ pc'[r] = "waiting" /\ \A q \in Requests : q # r => pc'[q] = pc[q]
      /\ pc' \in [Requests -> Labels]
  BY <1>1, <1>2, <1>3, Facts DEF Labels
<1>5. ASSUME NEW q \in Requests, NEW h \in Keys
      PROVE  /\ IsInjective(queues'[h])
             /\ pc'[q] = "waiting" /\ h = Key[q] => Contains(queues'[h], q)
             /\ pc'[q] \in {"idle", "joining", "holding"} \/ h # Key[q] => ~Contains(queues'[h], q)
  <2>1. Contains(queues'[h], q) <=> Contains(queues[h], q) \/ (h = k /\ q = r)
    BY <1>2, <1>4
  <2>2. IsInjective(queues'[h])
    BY <1>2, <1>4, Facts
  <2>3. CASE q = r
    BY <1>4, <2>1, <2>2, <2>3, Facts
  <2>4. CASE q # r
    BY <1>4, <2>1, <2>2, <2>4, Facts
  <2>5. QED
    BY <2>3, <2>4
<1>6. TypeOK'
  <2>1. \A h \in Keys : IsInjective(queues'[h])
    BY <1>2, <1>4, Facts
  <2>2. QED
    BY <1>3, <1>4, <1>5, <2>1, Facts DEF TypeOK, Labels
<1>7. SlotsInv'
  BY <1>1, <1>3, Facts, SlotKeeps DEF Labels
<1>8. HeadHears'
  <2> SUFFICES ASSUME free > 0, NEW h \in Keys, queues'[h] # <<>>
               PROVE  \/ pc'[Head(queues'[h])] # "waiting" \/ wake'[Head(queues'[h])]
                      \/ announcing \/ forwarder = "waking" \/ missed
    BY <1>3 DEF HeadHears, Heads
  <2>1. CASE h = k
    BY <1>4, <2>1
  <2>2. CASE h # k
    <3>1. queues'[h] = queues[h] /\ Head(queues[h]) \in Heads
      BY <1>4, <2>2 DEF Heads
    <3>2. Head(queues[h]) \in Requests /\ Head(queues[h]) # r
      <4>1. Contains(queues[h], Head(queues[h])) /\ Head(queues[h]) \in Requests
        BY <3>1, Facts, HeadIn
      <4>2. ~Contains(queues[h], r)
        BY <2>2, Facts
      <4>3. QED
        BY <4>1, <4>2
    <3>3. QED
      BY <1>4, <3>1, <3>2 DEF IInv, HeadHears
  <2>3. QED
    BY <2>1, <2>2
<1>9. QED
  BY <1>6, <1>7, <1>8 DEF IInv

LEMMA ReturnKeeps ==
  ASSUME IInv, NEW r \in Requests, Return(r)
  PROVE  IInv'
<1> DEFINE k == Key[r] s == queues[k] u == RemoveFirst(s, r)
<1>1. k \in Keys /\ s \in Seq(Requests) /\ IsInjective(s)
  BY Facts
<1>2. /\ u \in Seq(Requests) /\ IsInjective(u) /\ (u # <<>> => Head(u) \in Requests)
      /\ \A x \in Requests : Contains(u, x) <=> Contains(s, x) /\ x # r
      /\ s # <<>> /\ Head(s) # r => u # <<>> /\ Head(u) = Head(s)
  BY <1>1, Removed
<1>3. PICK l \in {"idle", "holding"} : /\ pc' = [pc EXCEPT ![r] = l]
                                       /\ pc[r] \in {"served", "leaving"}
                                       /\ l = "holding" <=> pc[r] = "served"
  BY DEF Return, Goto
<1> DEFINE next == Contains(s, r) /\ Head(s) = r /\ u # <<>>
<1>4. /\ queues' = [queues EXCEPT ![k] = u]
      /\ wake' = [q \in Requests |-> IF q = r THEN FALSE ELSE wake[q] \/ (next /\ q = Head(u))]
      /\ UNCHANGED <<free, slots, announcing, forwarder, missed>>
  BY DEF Return, Leave, Queue, Queued
<1> HIDE DEF u, next
<1>5. /\ \A h \in Keys : queues'[h] = IF h = k THEN u ELSE queues[h]
      /\ queues' \in [Keys -> Seq(Requests)]
      /\ pc'[r] = l /\ (\A q \in Requests : q # r => pc'[q] = pc[q])
      /\ pc' \in [Requests -> Labels]
  BY <1>1, <1>2, <1>3, <1>4, Facts DEF Labels
<1>6. wake' \in [Requests -> BOOLEAN] /\ \A q \in Requests : q # r => (wake[q] => wake'[q])
  <2>1. \A q \in Requests : wake[q] \in BOOLEAN /\ next \in BOOLEAN
    BY Facts DEF next
  <2>2. QED
    BY <1>4, <2>1, Zenon
<1>7. ASSUME NEW q \in Requests, NEW h \in Keys
      PROVE  /\ pc'[q] = "waiting" /\ h = Key[q] => Contains(queues'[h], q)
             /\ pc'[q] \in {"idle", "joining", "holding"} \/ h # Key[q] => ~Contains(queues'[h], q)
  <2>1. Contains(queues'[h], q) <=> Contains(queues[h], q) /\ ~(h = k /\ q = r)
    BY <1>2, <1>5
  <2>2. CASE q = r
    BY <1>3, <1>5, <2>1, <2>2, Facts
  <2>3. CASE q # r
    BY <1>5, <2>1, <2>3, Facts
  <2>4. QED
    BY <2>2, <2>3
<1>8. TypeOK'
  <2>1. \A h \in Keys : IsInjective(queues'[h])
    BY <1>2, <1>5, Facts
  <2>2. QED
    BY <1>4, <1>5, <1>6, <1>7, <2>1, Facts DEF TypeOK, Labels
<1>9. SlotsInv'
  BY <1>3, <1>4, Facts, SlotKeeps DEF Labels
<1>10. HeadHears'
  <2> SUFFICES ASSUME free > 0, NEW h \in Keys, queues'[h] # <<>>
               PROVE  \/ pc'[Head(queues'[h])] # "waiting" \/ wake'[Head(queues'[h])]
                      \/ announcing \/ forwarder = "waking" \/ missed
    BY <1>4 DEF HeadHears, Heads
  <2> DEFINE q == Head(queues'[h])
  <2>1. q \in Requests /\ q # r
    <3>1. Contains(queues'[h], q) /\ q \in Requests
      BY <1>5, HeadIn
    <3>2. ~Contains(queues'[h], r)
      BY <1>3, <1>5, <1>7
    <3>3. QED
      BY <3>1, <3>2
  <2>2. CASE queues[h] # <<>> /\ Head(queues[h]) = q
    <3>1. q \in Heads
      BY <2>2 DEF Heads
    <3>2. QED
      BY <1>5, <1>6, <2>1, <3>1 DEF IInv, HeadHears
  <2>3. CASE ~(queues[h] # <<>> /\ Head(queues[h]) = q)
    <3>1. h = k
      BY <1>5, <2>3
    <3>2. q = Head(u) /\ u # <<>>
      BY <1>5, <3>1
    <3>3. s # <<>>
      <4>1. Contains(u, q)
        BY <1>2, <3>2, HeadIn
      <4>2. Contains(s, q)
        BY <1>2, <2>1, <4>1
      <4>3. QED
        BY <4>2 DEF Contains
    <3>4. Head(s) = r
      BY <1>2, <2>3, <3>1, <3>2, <3>3
    <3>5. Contains(s, r)
      BY <1>1, <3>3, <3>4, HeadIn
    <3>6. next
      BY <3>2, <3>4, <3>5 DEF next
    <3>7. wake'[q]
      BY <1>4, <2>1, <3>2, <3>6
    <3>8. QED
      BY <3>7
  <2>4. QED
    BY <2>2, <2>3
<1>11. QED
  BY <1>8, <1>9, <1>10 DEF IInv

(* What makes slots free, and who passes it on.                             *)
LEMMA ReleaseKeeps ==
  ASSUME IInv, NEW r \in Requests, Release(r)
  PROVE  IInv'
<1>1. /\ pc' = [pc EXCEPT ![r] = "idle"] /\ pc[r] = "holding" /\ free' = free + 1
      /\ UNCHANGED <<queues, wake, slots, announcing>>
      /\ forwarder' = IF forwarder = "listening" THEN "waking" ELSE forwarder
      /\ missed' = (missed \/ forwarder = "fetching")
  BY DEF Release, Goto, NotifyPool
<1>2. forwarder' \in {"fetching", "listening", "waking"} /\ missed' \in BOOLEAN /\ free' \in Nat
  BY <1>1, Facts
<1>3. SlotsInv' /\ free' \in 0..slots'
  BY <1>1, <1>2, Facts, SlotKeeps DEF Labels
<1>4. ~Queued(r)
  BY <1>1, Facts DEF Queued, Queue
<1>5. TypeOK'
  BY <1>1, <1>2, <1>3, <1>4, Facts, LabelKeeps DEF Labels
<1>6. forwarder' = "waking" \/ missed'
  BY <1>1, Facts
<1>7. HeadHears'
  BY <1>6 DEF HeadHears
<1>8. QED
  BY <1>3, <1>5, <1>7 DEF IInv

LEMMA PassesKeep ==
  ASSUME IInv, Passes \/ WorkerReady \/ WorkerStops
  PROVE  IInv'
<1>1. /\ pc' = pc /\ queues' = queues /\ Leasing' = Leasing /\ Heads' = Heads
  BY DEF Passes, Fetch, Forward, NotifyScheduling, WorkerReady, WorkerStops, Leasing, Heads
<1>2. /\ slots' \in 0..Slots /\ free' \in 0..slots' /\ slots' \in Nat /\ free' \in Nat
      /\ slots' - free' = slots - free
  <2>1. \/ slots' = slots /\ free' = free
        \/ slots < Slots /\ slots' = slots + 1 /\ free' = free + 1
        \/ free > 0 /\ slots' = slots - 1 /\ free' = free - 1
    BY DEF Passes, Fetch, Forward, NotifyScheduling, WorkerReady, WorkerStops
  <2>2. free \in Nat /\ slots \in Nat /\ Slots \in Nat /\ free <= slots /\ slots <= Slots
    BY Facts
  <2>3. QED
    BY <2>1, <2>2
<1>3. wake' = wake \/ wake' = [r \in Requests |-> wake[r] \/ r \in Heads]
  BY DEF Passes, Fetch, Forward, NotifyScheduling, WorkerReady, WorkerStops, WakeHeads
<1>4. wake' \in [Requests -> BOOLEAN]
  BY <1>3, Facts
<1>5. /\ announcing' \in BOOLEAN /\ missed' \in BOOLEAN
      /\ forwarder' \in {"fetching", "listening", "waking"}
  BY Facts DEF Passes, Fetch, Forward, NotifyScheduling, WorkerReady, WorkerStops, WakeHeads
<1>6. TypeOK'
  BY <1>1, <1>2, <1>4, <1>5, Facts DEF TypeOK, Labels
<1>7. SlotsInv'
  <2>1. IsFiniteSet(Leasing) /\ free + Cardinality(Leasing) = slots /\ Cardinality(Leasing) \in Nat
    BY FS_CardinalityType DEF IInv, SlotsInv
  <2>2. QED
    BY <1>1, <1>2, <2>1, Facts DEF SlotsInv
<1>8. HeadHears'
  <2> SUFFICES ASSUME free' > 0, NEW q \in Heads
               PROVE  \/ pc[q] # "waiting" \/ wake'[q]
                      \/ announcing' \/ forwarder' = "waking" \/ missed'
    BY <1>1 DEF HeadHears
  <2>1. q \in Requests
    BY Facts, HeadTailProperties DEF Heads
  <2>2. CASE Forward \/ NotifyScheduling
    BY <2>1, <2>2 DEF Forward, NotifyScheduling, WakeHeads
  <2>3. CASE WorkerReady
    BY <2>3 DEF WorkerReady
  <2>4. CASE Fetch \/ WorkerStops
    <3>1. free > 0 /\ UNCHANGED <<wake, announcing, missed>>
          /\ (forwarder = "waking" => forwarder' = "waking")
      BY <2>4, Facts DEF Fetch, WorkerStops
    <3>2. QED
      BY <3>1 DEF IInv, HeadHears
  <2>5. QED
    BY <2>2, <2>3, <2>4 DEF Passes
<1>9. QED
  BY <1>6, <1>7, <1>8 DEF IInv

LEMMA NextInv == IInv /\ [Next]_vars => IInv'
<1> SUFFICES ASSUME IInv, [Next]_vars PROVE IInv'
  OBVIOUS
<1>1. CASE UNCHANGED vars
  <2>1. UNCHANGED <<pc, queues, wake, free, slots, announcing, forwarder, missed>>
    BY <1>1 DEF vars
  <2>2. Leasing' = Leasing /\ Heads' = Heads
    BY <2>1 DEF Leasing, Heads
  <2>3. QED
    BY <2>1, <2>2 DEF IInv, TypeOK, SlotsInv, HeadHears
<1>2. QED
  BY <1>1, LooksKeep, EnterKeeps, ReturnKeeps, ReleaseKeeps, PassesKeep DEF Next, Proceeds

(* dispatchQueue and the leases behind it: the queues are exact, and every  *)
(* slot is free or leased to one request.                                   *)
THEOREM Invariance == Spec => []IInv
<1>1. QED
  BY InitInv, NextInv, PTL DEF Spec

(* join and leave: however requests are woken, recheck, give up and return, *)
(* each is in the queue of its kind exactly once from its join to its leave.*)
THEOREM TypeCorrect == Spec => []TypeOK
<1>1. IInv => TypeOK
  BY DEF IInv
<1>2. QED
  BY <1>1, Invariance, PTL

(* wakeHeads, leave and forwardPoolChanges: no head sleeps while there is a *)
(* free slot, except after a change that falls between two fetches of the   *)
(* pool's channel.                                                          *)
THEOREM HeadsAreTold == Spec => []HeadHears
<1>1. IInv => HeadHears
  BY DEF IInv
<1>2. QED
  BY <1>1, Invariance, PTL
=============================================================================
