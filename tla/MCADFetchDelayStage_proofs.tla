---------------------- MODULE MCADFetchDelayStage_proofs ----------------------
(***************************************************************************)
(* Theorems about the fetch stage: instructions leave it in the order they *)
(* came in, and not before the cycles they were charged are over; the      *)
(* branch predictors stay within their bounds and predict what they saw.   *)
(* About the caches that it and the load/store unit ask: a level is asked  *)
(* for what the levels above it missed and for nothing else, and an        *)
(* instruction cache of W ways holds the last W lines asked of each set.   *)
(***************************************************************************)
EXTENDS MCADFetchDelayStage, SequenceTheorems, FiniteSetTheorems,
        WellFoundedInduction, TLAPS

-----------------------------------------------------------------------------
(* Minima.                                                                 *)

\* A nonempty set of natural numbers has a least element.
LEMMA NatMin ==
  ASSUME NEW S, S \subseteq Nat, S # {}
  PROVE  \E m \in S : \A k \in S : m <= k
<1>1. IsWellFoundedOn(OpToRel(<, Nat), Nat)
  BY NatLessThanWellFounded
<1>2. PICK x \in S : \A y \in S : ~(<<y, x>> \in OpToRel(<, Nat))
  BY <1>1, WFMin
<1>3. \A y \in S : ~(y < x)
  BY <1>2 DEF OpToRel
<1>4. QED BY <1>3

\* Min of a nonempty set of natural numbers is its least element.
LEMMA MinOf ==
  ASSUME NEW T, T \subseteq Nat, T # {}
  PROVE  Min(T) \in T /\ \A y \in T : Min(T) <= y
<1>1. \E x \in T : \A y \in T : x <= y
  BY NatMin
<1> QED
  BY <1>1 DEF Min

-----------------------------------------------------------------------------
(* The queue of the stage.                                                 *)

\* What the stage keeps of an instruction.
Entry == [id : Nat, left : Nat, age : Nat, due : Nat]

\* The types of what the queue's steps read and write.
QueueType ==
  /\ cfg \in Configs
  /\ room \in Nat
  /\ numInst \in Nat
  /\ instrQueue \in Seq(Entry)
  /\ forwarded \in Seq(Entry)

\* The cycles an entry has waited and those it has left make up its delay.
Waiting == \A k \in DOMAIN instrQueue :
             instrQueue[k].age + instrQueue[k].left = instrQueue[k].due

\* The inductive invariant of the queue.
QInv == QueueType /\ FetchInOrder /\ Waiting /\ DelaysServed

\* forwardDueInstrs takes a number of entries from the front of the queue,
\* no more than there is room for, none of which has cycles left.
LEMMA NumDueExists ==
  ASSUME NEW q \in Seq(Entry), NEW r \in Nat
  PROVE  /\ NumDue(q, r) \in 0 .. Len(q)
         /\ NumDue(q, r) <= r
         /\ \A j \in 1 .. NumDue(q, r) : q[j].left = 0
<1> DEFINE P(m) == /\ m <= r /\ \A j \in 1 .. m : q[j].left = 0
                   /\ m < Len(q) /\ m < r => q[m + 1].left # 0
           S == {m \in Nat : m = Len(q) \/ m = r \/ (m < Len(q) /\ q[m+1].left # 0)}
<1>1. \E m \in S : \A k \in S : m <= k
  <2>1. S \subseteq Nat /\ r \in S
    OBVIOUS
  <2>2. S # {}
    BY <2>1
  <2> HIDE DEF S
  <2> QED
    BY <2>1, <2>2, NatMin
<1>1a. PICK m \in S : \A k \in S : m <= k
  BY <1>1
<1>2. Len(q) \in S /\ r \in S /\ Len(q) \in Nat
  OBVIOUS
<1>3. m \in 0 .. Len(q) /\ m <= r
  <2>1. m \in Nat
    OBVIOUS
  <2>2. m <= Len(q) /\ m <= r
    <3> HIDE DEF S
    <3> QED BY <1>1a, <1>2
  <2> QED
    BY <2>1, <2>2, <1>2
<1>4. ASSUME NEW j \in 1 .. m
      PROVE  q[j].left = 0
  <2>1. j - 1 \in Nat /\ j - 1 < m /\ j - 1 \notin S
    BY <1>1a, <1>3
  <2> QED
    BY <2>1, <1>3
<1>5. P(m)
  BY <1>1a, <1>3, <1>4
<1>6. QED
  BY <1>3, <1>5 DEF NumDue

\* A sequence that is cut in two is put together again.
LEMMA CutAndJoin ==
  ASSUME NEW S, NEW f \in Seq(S), NEW q \in Seq(S), NEW m \in 0 .. Len(q)
  PROVE  (f \o SubSeq(q, 1, m)) \o SubSeq(q, m + 1, Len(q)) = f \o q
<1> DEFINE a == SubSeq(q, 1, m)
           b == SubSeq(q, m + 1, Len(q))
           g == f \o a
<1>3. /\ a \in Seq(S) /\ Len(a) = m /\ \A j \in 1 .. m : a[j] = q[j]
      /\ b \in Seq(S) /\ Len(b) = Len(q) - m
      /\ \A j \in 1 .. (Len(q) - m) : b[j] = q[m + j]
  OBVIOUS
<1> HIDE DEF a, b
<1>4. /\ g \in Seq(S) /\ Len(g) = Len(f) + m
      /\ \A j \in 1 .. Len(f) + m : g[j] = IF j <= Len(f) THEN f[j] ELSE a[j - Len(f)]
  BY <1>3, ConcatProperties
<1> HIDE DEF g
<1>5. /\ g \o b \in Seq(S) /\ Len(g \o b) = Len(g) + Len(b)
      /\ \A j \in 1 .. Len(g) + Len(b) :
            (g \o b)[j] = IF j <= Len(g) THEN g[j] ELSE b[j - Len(g)]
  <2>1. g \in Seq(S) /\ b \in Seq(S)
    BY <1>3, <1>4
  <2> QED
    BY <2>1, ConcatProperties
<1>6. /\ f \o q \in Seq(S) /\ Len(f \o q) = Len(f) + Len(q)
      /\ \A j \in 1 .. Len(f) + Len(q) :
            (f \o q)[j] = IF j <= Len(f) THEN f[j] ELSE q[j - Len(f)]
  BY ConcatProperties
<1>7. Len(f) \in Nat /\ Len(q) \in Nat /\ m \in Nat /\ m <= Len(q)
  OBVIOUS
<1> DEFINE u == g \o b
           v == f \o q
<1> HIDE DEF u, v
<1>8. Len(u) = Len(v) /\ Len(v) = Len(f) + Len(q)
  BY <1>3, <1>4, <1>5, <1>6, <1>7 DEF u, v
<1>9. ASSUME NEW j \in 1 .. Len(v) PROVE u[j] = v[j]
  <2>1. CASE j <= Len(f)
    BY <2>1, <1>3, <1>4, <1>5, <1>6, <1>7, <1>8 DEF u, v
  <2>2. CASE j > Len(f) /\ j <= Len(f) + m
    <3>1. j - Len(f) \in 1 .. m
      BY <2>2, <1>7, <1>8
    <3>2. u[j] = a[j - Len(f)]
      BY <2>2, <1>3, <1>4, <1>5, <1>7, <1>8 DEF u
    <3>3. v[j] = q[j - Len(f)]
      BY <2>2, <1>6, <1>7, <1>8 DEF v
    <3> QED
      BY <3>1, <3>2, <3>3, <1>3
  <2>3. CASE j > Len(f) + m
    <3>1. j - (Len(f) + m) \in 1 .. (Len(q) - m)
      BY <2>3, <1>7, <1>8
    <3>2. u[j] = b[j - (Len(f) + m)]
      BY <2>3, <1>3, <1>4, <1>5, <1>7, <1>8 DEF u
    <3>3. v[j] = q[m + (j - (Len(f) + m))]
      BY <2>3, <1>6, <1>7, <1>8 DEF v
    <3> QED
      BY <3>1, <3>2, <3>3, <1>3
  <2>4. j <= Len(f) \/ (j > Len(f) /\ j <= Len(f) + m) \/ j > Len(f) + m
    BY <1>7, <1>8
  <2> QED
    BY <2>1, <2>2, <2>3, <2>4, Zenon
<1>10. u = v
  BY <1>5, <1>6, <1>8, <1>9, SeqEqual DEF u, v
<1> QED
  BY <1>10 DEF u, v, g, a, b

\* Forwarding from a well-formed queue keeps the order of the instructions,
\* and what it forwards has served its delay.
LEMMA ForwardStep ==
  ASSUME NEW q \in Seq(Entry), NEW r \in Nat, ForwardDueInstrs(q, r),
         NEW n \in Nat, forwarded \in Seq(Entry), DelaysServed,
         Len(forwarded \o q) = n, 
         \A k \in DOMAIN (forwarded \o q) : (forwarded \o q)[k].id = k,
         \A k \in DOMAIN q : q[k].age + q[k].left = q[k].due
  PROVE  /\ room' \in Nat /\ instrQueue' \in Seq(Entry) /\ forwarded' \in Seq(Entry)
         /\ Len((forwarded \o instrQueue)') = n
         /\ \A k \in DOMAIN (forwarded \o instrQueue)' : (forwarded \o instrQueue)'[k].id = k
         /\ Waiting' /\ DelaysServed'
<1> DEFINE m == NumDue(q, r)
           a == SubSeq(q, 1, m)
           b == SubSeq(q, m + 1, Len(q))
<1>1. /\ m \in 0 .. Len(q) /\ m <= r
      /\ \A j \in 1 .. m : q[j].left = 0
  BY NumDueExists
<1>2. /\ forwarded' = forwarded \o a
      /\ instrQueue' = b
      /\ room' = r - m
  BY DEF ForwardDueInstrs
<1> HIDE DEF m
<1>3. /\ a \in Seq(Entry) /\ Len(a) = m /\ \A j \in 1 .. m : a[j] = q[j]
      /\ b \in Seq(Entry) /\ Len(b) = Len(q) - m
      /\ \A j \in 1 .. (Len(q) - m) : b[j] = q[m + j]
  BY <1>1
<1> HIDE DEF a, b
<1>4. room' \in Nat /\ instrQueue' \in Seq(Entry) /\ forwarded' \in Seq(Entry)
  BY <1>1, <1>2, <1>3
<1>5. (forwarded \o instrQueue)' = forwarded \o q
  BY <1>1, <1>2, CutAndJoin DEF a, b
<1>7. Waiting'
  <2> SUFFICES ASSUME NEW k \in DOMAIN b
               PROVE  b[k].age + b[k].left = b[k].due
    BY <1>2 DEF Waiting
  <2>1. k \in 1 .. (Len(q) - m)
    BY <1>1, <1>3
  <2>2. m + k \in DOMAIN q /\ b[k] = q[m + k]
    BY <2>1, <1>1, <1>3
  <2> QED
    BY <2>2
<1>8. DelaysServed'
  <2> SUFFICES ASSUME NEW k \in DOMAIN forwarded'
               PROVE  forwarded'[k].age >= forwarded'[k].due
    BY DEF DelaysServed
  <2>1. CASE k <= Len(forwarded)
    BY <2>1, <1>2, <1>3 DEF DelaysServed
  <2>2. CASE k > Len(forwarded)
    <3> DEFINE j == k - Len(forwarded)
    <3>1. j \in 1 .. m /\ forwarded'[k] = q[j]
      BY <2>2, <1>1, <1>2, <1>3
    <3>2. q[j] \in Entry /\ q[j].left = 0 /\ j \in DOMAIN q
      BY <3>1, <1>1
    <3> QED
      BY <3>1, <3>2 DEF Entry
  <2> QED
    BY <2>1, <2>2, <1>2, <1>3
<1>9. QED
  BY <1>4, <1>5, <1>7, <1>8

\* The queue after a cycle: only its first entry has changed.
Counted(q) == [k \in DOMAIN q |->
       IF k > 1 THEN q[k]
       ELSE [q[k] EXCEPT !.left = IF @ > 0 THEN @ - 1 ELSE @,
                         !.age = IF @ < q[k].due THEN @ + 1 ELSE @]]

\* The levels of a cache hierarchy, at most three of them.
LEMMA ChainType ==
  ASSUME NEW top \in Units, NEW enabled
  PROVE  /\ Chain(top, enabled) \in Seq(Units)
         /\ Len(Chain(top, enabled)) <= 3
<1> DEFINE a == Level(top, enabled)
           b == Level("L2", enabled)
           c == Level("L3", enabled)
<1>0. \A u \in Units : Level(u, enabled) \in Seq(Units) /\ Len(Level(u, enabled)) <= 1
  BY DEF Level
<1>1. /\ a \in Seq(Units) /\ Len(a) <= 1
      /\ b \in Seq(Units) /\ Len(b) <= 1
      /\ c \in Seq(Units) /\ Len(c) <= 1
  BY <1>0 DEF Units
<1> HIDE DEF a, b, c
<1>2. a \o b \in Seq(Units) /\ Len(a \o b) <= 2
  BY <1>1
<1>3. (a \o b) \o c \in Seq(Units) /\ Len((a \o b) \o c) <= 3
  <2> DEFINE d == a \o b
  <2>1. d \in Seq(Units) /\ Len(d) <= 2
    BY <1>2
  <2> HIDE DEF d
  <2>2. d \o c \in Seq(Units) /\ Len(d \o c) <= 3
    BY <2>1, <1>1
  <2> QED
    BY <2>2 DEF d
<1> QED
  BY <1>3 DEF Chain, a, b, c

\* A load costs a natural number of cycles.
LEMMA LoadCyclesNat ==
  ASSUME NEW us, NEW top \in Units, NEW enabled, NEW a
  PROVE  LoadCycles(us, Chain(top, enabled), a) \in Nat
<1> DEFINE chain == Chain(top, enabled)
           last == Answers(us, chain, a)
<1>1. chain \in Seq(Units) /\ Len(chain) \in Nat
  BY ChainType
<1> HIDE DEF chain, last
<1>2. \A k \in 1 .. 4 : LatencyOf(chain, k) \in Nat
  BY <1>1, CacheAssumption DEF LatencyOf
<1>3. CyclesOf(chain, last) \in Nat
  <2> DEFINE Part(k) == IF k <= last THEN LatencyOf(chain, k) ELSE 0
  <2>1. Part(1) \in Nat /\ Part(2) \in Nat /\ Part(3) \in Nat /\ Part(4) \in Nat
    BY <1>2
  <2>2. CyclesOf(chain, last) = Part(1) + Part(2) + Part(3) + Part(4)
    BY DEF CyclesOf
  <2> HIDE DEF Part
  <2> QED
    BY <2>1, <2>2
<1> QED
  BY <1>3 DEF LoadCycles, chain, last

\* So does an instruction, shortened to the idle limit or not.
LEMMA DelayNat ==
  ASSUME NEW i \in Insts, QueueType
  PROVE  /\ Delay(i) \in Nat
         /\ (IF Shortened(Delay(i)) THEN cfg.maxIdle ELSE Delay(i)) \in Nat
<1>1. "L1I" \in Units
  BY DEF Units
<1>2. LoadCycles(units, L1IChain, i.addr) \in Nat
  BY <1>1, LoadCyclesNat DEF L1IChain
<1>3. Delay(i) \in Nat
  BY <1>2, StageAssumption DEF Delay
<1> QED
  BY <1>3, StageAssumption DEF Shortened, QueueType

\* Entering an instruction keeps the invariant of the queue.
LEMMA ExecuteQueue ==
  ASSUME QInv, NEW i \in Insts, Execute(i)
  PROVE  QInv'
<1> DEFINE left == IF Shortened(Delay(i)) THEN cfg.maxIdle ELSE Delay(i)
           e == [id |-> numInst + 1, left |-> left, age |-> 0, due |-> left]
           q == Append(instrQueue, e)
<1>1. /\ cfg \in Configs /\ room \in Nat /\ numInst \in Nat
      /\ instrQueue \in Seq(Entry) /\ forwarded \in Seq(Entry)
  BY DEF QInv, QueueType
<1>2. ForwardDueInstrs(q, room) /\ numInst' = numInst + 1 /\ cfg' = cfg
  BY DEF Execute
<1>3. left \in Nat
  BY DelayNat DEF QInv
<1> HIDE DEF left
<1>4. e \in Entry
  BY <1>1, <1>3 DEF Entry
<1>5. /\ q \in Seq(Entry) /\ Len(q) = Len(instrQueue) + 1
      /\ \A k \in 1 .. Len(instrQueue) : q[k] = instrQueue[k]
      /\ q[Len(instrQueue) + 1] = e
  BY <1>1, <1>4
<1>6. e.id = numInst + 1 /\ e.age + e.left = e.due
  BY <1>3
<1> HIDE DEF q, e
<1>7. \A k \in DOMAIN q : q[k].age + q[k].left = q[k].due
  BY <1>1, <1>5, <1>6 DEF QInv, Waiting
<1>8. /\ Len(forwarded \o q) = numInst + 1
      /\ \A k \in DOMAIN (forwarded \o q) : (forwarded \o q)[k].id = k
  <2>1. forwarded \o q = Append(forwarded \o instrQueue, e)
    BY <1>1, <1>4, AppendIsConcat, ConcatAssociative DEF q
  <2> DEFINE all == forwarded \o instrQueue
  <2>2. all \in Seq(Entry) /\ Len(all) = numInst /\ \A k \in DOMAIN all : all[k].id = k
    BY <1>1, ConcatProperties DEF QInv, FetchInOrder
  <2> HIDE DEF all
  <2>3. /\ Len(Append(all, e)) = numInst + 1
        /\ \A k \in DOMAIN Append(all, e) : Append(all, e)[k].id = k
    BY <2>2, <1>1, <1>4, <1>6
  <2> QED
    BY <2>1, <2>3 DEF all
<1>9. /\ room' \in Nat /\ instrQueue' \in Seq(Entry) /\ forwarded' \in Seq(Entry)
      /\ Len((forwarded \o instrQueue)') = numInst + 1
      /\ \A k \in DOMAIN (forwarded \o instrQueue)' : (forwarded \o instrQueue)'[k].id = k
      /\ Waiting' /\ DelaysServed'
  <2>1. numInst + 1 \in Nat
    BY <1>1
  <2> QED
    BY <1>1, <1>2, <1>5, <1>7, <1>8, <2>1, ForwardStep DEF QInv
<1> QED
  BY <1>1, <1>2, <1>9 DEF QInv, QueueType, FetchInOrder

\* The start of a cycle keeps the invariant of the queue.
LEMMA CycleQueue ==
  ASSUME QInv, NEW r \in 0 .. DispatchWidth, CycleStart(r)
  PROVE  QInv'
<1> DEFINE q == Counted(instrQueue)
<1>1. /\ cfg \in Configs /\ numInst \in Nat /\ r \in Nat
      /\ instrQueue \in Seq(Entry) /\ forwarded \in Seq(Entry)
  BY StageAssumption DEF QInv, QueueType
<1>2. ForwardDueInstrs(q, r) /\ numInst' = numInst /\ cfg' = cfg
  BY DEF CycleStart, Counted
<1>3. ASSUME NEW k \in DOMAIN instrQueue
      PROVE  /\ q[k] \in Entry /\ q[k].id = instrQueue[k].id
             /\ q[k].age + q[k].left = q[k].due
  <2>1. instrQueue[k] \in Entry /\ instrQueue[k].age + instrQueue[k].left = instrQueue[k].due
    BY <1>1 DEF QInv, Waiting
  <2>2. CASE k > 1
    <3>1. q[k] = instrQueue[k]
      BY <2>2 DEF Counted
    <3> QED
      BY <2>1, <3>1
  <2>3. CASE ~(k > 1)
    <3> DEFINE e == instrQueue[k]
    <3>1. q[k] = [e EXCEPT !.left = IF @ > 0 THEN @ - 1 ELSE @,
                           !.age = IF @ < e.due THEN @ + 1 ELSE @]
      BY <2>3 DEF Counted
    <3> HIDE DEF q, e
    <3>2. e = [id |-> e.id, left |-> e.left, age |-> e.age, due |-> e.due]
          /\ e.id \in Nat /\ e.left \in Nat /\ e.age \in Nat /\ e.due \in Nat
      BY <2>1 DEF Entry, e
    <3>3. q[k] = [id |-> e.id, left |-> IF e.left > 0 THEN e.left - 1 ELSE e.left,
                  age |-> IF e.age < e.due THEN e.age + 1 ELSE e.age, due |-> e.due]
      BY <3>1, <3>2
    <3>4. e.age + e.left = e.due
      BY <2>1 DEF e
    <3> QED
      BY <3>2, <3>3, <3>4 DEF Entry, e
  <2> QED
    BY <2>2, <2>3
<1>4. q \in Seq(Entry) /\ Len(q) = Len(instrQueue) /\ DOMAIN q = DOMAIN instrQueue
  <2>1. DOMAIN q = 1 .. Len(instrQueue) /\ Len(instrQueue) \in Nat
    BY <1>1 DEF Counted
  <2>2. q \in [1 .. Len(instrQueue) -> Entry]
    <3>1. q = [k \in DOMAIN q |-> q[k]]
      BY DEF Counted
    <3> HIDE DEF q
    <3> QED
      BY <1>1, <1>3, <2>1, <3>1
  <2> HIDE DEF q
  <2> QED
    BY <2>1, <2>2
<1> HIDE DEF q
<1>5. /\ Len(forwarded \o q) = numInst
      /\ \A k \in DOMAIN (forwarded \o q) : (forwarded \o q)[k].id = k
  <2>1. Len(forwarded \o instrQueue) = numInst /\ Len(forwarded \o q) = numInst
    BY <1>1, <1>4, ConcatProperties DEF QInv, FetchInOrder
  <2>2. ASSUME NEW k \in 1 .. numInst
        PROVE  (forwarded \o q)[k].id = (forwarded \o instrQueue)[k].id
    <3>1. CASE k <= Len(forwarded)
      BY <1>1, <1>4, <2>1, <3>1
    <3>2. CASE k > Len(forwarded)
      <4>1. k - Len(forwarded) \in DOMAIN instrQueue
        BY <1>1, <1>4, <2>1, <3>2
      <4> QED
        BY <1>1, <1>3, <1>4, <2>1, <3>2, <4>1
    <3>3. k <= Len(forwarded) \/ k > Len(forwarded)
      BY <1>1
    <3> QED
      BY <3>1, <3>2, <3>3, Zenon
  <2>3. DOMAIN (forwarded \o q) = 1 .. numInst /\ DOMAIN (forwarded \o instrQueue) = 1 .. numInst
    BY <1>1, <1>4, <2>1
  <2> QED
    BY <2>1, <2>2, <2>3 DEF QInv, FetchInOrder
<1>9. /\ room' \in Nat /\ instrQueue' \in Seq(Entry) /\ forwarded' \in Seq(Entry)
      /\ Len((forwarded \o instrQueue)') = numInst
      /\ \A k \in DOMAIN (forwarded \o instrQueue)' : (forwarded \o instrQueue)'[k].id = k
      /\ Waiting' /\ DelaysServed'
  BY <1>1, <1>2, <1>3, <1>4, <1>5, ForwardStep DEF QInv
<1> QED
  BY <1>1, <1>2, <1>9 DEF QInv, QueueType, FetchInOrder

\* The empty queue satisfies the invariant.
LEMMA QueueInit == Init => QInv
<1> SUFFICES ASSUME Init PROVE QInv
  OBVIOUS
<1>1. QueueType
  BY DEF Init, QueueType
<1>2. FetchInOrder
  <2>1. forwarded \o instrQueue = <<>>
    BY DEF Init
  <2> QED
    BY <2>1 DEF Init, FetchInOrder
<1> QED
  BY <1>1, <1>2 DEF QInv, Waiting, DelaysServed, Init

\* Every step keeps the invariant of the queue.
LEMMA QueueStep == QInv /\ [Next]_vars => QInv'
<1> SUFFICES ASSUME QInv, [Next]_vars PROVE QInv'
  OBVIOUS
<1>1. CASE \E i \in Insts : Execute(i)
  BY <1>1, ExecuteQueue
<1>2. CASE \E r \in 0 .. DispatchWidth : CycleStart(r)
  BY <1>2, CycleQueue
<1>3. CASE \/ \E a \in DataAddr, isStore \in BOOLEAN : DataAccess(a, isStore)
           \/ UNCHANGED vars
  BY <1>3 DEF QInv, QueueType, FetchInOrder, Waiting, DelaysServed, DataAccess, vars
<1> QED
  BY <1>1, <1>2, <1>3 DEF Next

\* For every program and every choice of delays, forwardDueInstrs forwards the
\* instructions in the order in which execute received them, each once.
THEOREM ForwardedInOrder == Spec => []FetchInOrder
<1>1. QInv => FetchInOrder
  BY DEF QInv
<1> QED
  BY <1>1, QueueInit, QueueStep, PTL DEF Spec

\* For every program, an instruction leaves the stage only after it has waited
\* at the front of the queue for all the cycles it was charged.
THEOREM DelaysAreServed == Spec => []DelaysServed
<1>1. QInv => DelaysServed
  BY DEF QInv
<1> QED
  BY <1>1, QueueInit, QueueStep, PTL DEF Spec

-----------------------------------------------------------------------------
(* The branch predictors.                                                  *)

\* The keys of the history table, those of the branches of the program, and
\* an entry of the table.
KeyType == [addr : Nat, size : Nat]
BranchKeys == {Key(i) : i \in {j \in Insts : j.branch}}
UseType == [lastDirection : Direction, lastUse : Nat]

\* A history table that only holds branches of the program.
HistoryOK(h) == /\ h = [l \in DOMAIN h |-> h[l]]
                /\ IsFiniteSet(DOMAIN h)
                /\ DOMAIN h \subseteq BranchKeys
                /\ \A l \in DOMAIN h : h[l] \in UseType

\* A state of the naive predictor, with its table below the capacity.
NaiveOK(p) == /\ p = [history |-> p.history, nAccesses |-> p.nAccesses]
              /\ p.nAccesses \in Nat
              /\ HistoryOK(p.history)
              /\ Cardinality(DOMAIN p.history) < Max({1, HistoryCapacity})

\* An entry that belongs to one branch only has the direction it last took.
Backed(p, dirs) == \A l \in DOMAIN p.history :
                     Alone(l) => p.history[l].lastDirection = dirs[l]

\* The branches of the program have keys.
LEMMA BranchKeysType == BranchKeys \subseteq KeyType
BY StageAssumption DEF BranchKeys, KeyType, Key

\* The size below which the history table is kept.
LEMMA MaxOne ==
  ASSUME NEW h \in Nat
  PROVE  Max({1, h}) = IF h > 1 THEN h ELSE 1
<1>1. \E x \in {1, h} : \A y \in {1, h} : x >= y
  OBVIOUS
<1>2. Max({1, h}) \in {1, h} /\ \A y \in {1, h} : Max({1, h}) >= y
  BY <1>1 DEF Max
<1> QED
  BY <1>2

\* A branch that shares no entry with another one finds its own entry or none.
LEMMA FoundFacts ==
  ASSUME NEW h, DOMAIN h \subseteq BranchKeys, NEW k \in BranchKeys
  PROVE  /\ Found(h, k) \subseteq DOMAIN h
         /\ \A l \in Found(h, k) : Alone(l) => l = k
         /\ Alone(k) => Found(h, k) = IF k \in DOMAIN h THEN {k} ELSE {}
<1>1. k \in KeyType /\ DOMAIN h \subseteq KeyType
  BY BranchKeysType
<1>2. Found(h, k) \subseteq DOMAIN h
  BY DEF Found
<1>3. ASSUME NEW l \in Found(h, k), Alone(l) PROVE l = k
  <2>1. ~Before(l, k) /\ ~Before(k, l)
    BY DEF Found
  <2>2. k = l \/ Before(k, l) \/ Before(l, k)
    BY <1>3 DEF Alone, BranchKeys
  <2> QED
    BY <2>1, <2>2
<1>4. ASSUME NEW l \in Found(h, k), Alone(k) PROVE l = k
  <2>1. ~Before(l, k) /\ ~Before(k, l) /\ l \in BranchKeys
    BY <1>2 DEF Found
  <2>2. k = l \/ Before(k, l) \/ Before(l, k)
    BY <1>4, <2>1 DEF Alone, BranchKeys
  <2> QED
    BY <2>1, <2>2
<1>5. ASSUME k \in DOMAIN h, Alone(k) PROVE k \in Found(h, k)
  <2>1. ~Before(k, k)
    BY <1>1 DEF Before, KeyType
  <2>2. ASSUME NEW m \in DOMAIN h, ~Before(m, k) PROVE k.addr <= m.addr
    <3>1. m = k \/ Before(k, m)
      BY <1>5, <2>2 DEF Alone, BranchKeys
    <3> QED
      BY <1>1, <3>1 DEF Before, KeyType
  <2> QED
    BY <1>5, <2>1, <2>2 DEF Found
<1> QED
  BY <1>2, <1>3, <1>4, <1>5

\* The history after the entry of a branch was made or changed, and the entry
\* that recordTakenBranch would evict.
Recording(p, k) == IF Found(p.history, k) = {} THEN k ELSE CHOOSE l \in Found(p.history, k) : TRUE
Updated(p, k, dir) == [l \in DOMAIN p.history \cup {Recording(p, k)} |->
                         IF l = Recording(p, k)
                         THEN [lastDirection |-> dir, lastUse |-> p.nAccesses]
                         ELSE p.history[l]]
Oldest(upd) == {l \in DOMAIN upd : \A m \in DOMAIN upd : upd[l].lastUse <= upd[m].lastUse}
Evicted(upd) == CHOOSE l \in Oldest(upd) : \A m \in Oldest(upd) : l.addr <= m.addr

\* recordTakenBranch evicts an entry of the table.
LEMMA EvictedFacts ==
  ASSUME NEW h, HistoryOK(h), DOMAIN h # {}
  PROVE  Evicted(h) \in DOMAIN h /\ Evicted(h) \in Oldest(h)
<1> DEFINE U == {h[l].lastUse : l \in DOMAIN h}
           O == Oldest(h)
           A == {l.addr : l \in O}
<1>1. U \subseteq Nat /\ U # {}
  BY DEF HistoryOK, UseType
<1>2. PICK m \in U : \A y \in U : m <= y
  <2> HIDE DEF U
  <2> QED BY <1>1, NatMin
<1>3. O \subseteq DOMAIN h /\ O # {}
  BY <1>2 DEF Oldest
<1>4. DOMAIN h \subseteq KeyType
  BY BranchKeysType DEF HistoryOK
<1> HIDE DEF O
<1>5. A \subseteq Nat /\ A # {}
  BY <1>3, <1>4 DEF KeyType
<1>6. PICK a \in A : \A y \in A : a <= y
  <2> HIDE DEF A
  <2> QED BY <1>5, NatMin
<1>7. \E l \in O : \A x \in O : l.addr <= x.addr
  BY <1>6
<1> QED
  BY <1>3, <1>7 DEF Evicted, O

\* Recording the direction of a branch, evictions included, keeps the table
\* within its bound and its entries true to the directions last taken.
LEMMA NaiveRecordFacts ==
  ASSUME NEW p, NaiveOK(p), NEW k \in BranchKeys, NEW dir \in Direction,
         NEW dirs, Backed(p, dirs), NEW new,
         new = [l \in DOMAIN dirs |-> IF l = k THEN dir ELSE dirs[l]],
         BranchKeys \subseteq DOMAIN dirs
  PROVE  NaiveOK(NaiveRecord(p, k, dir)) /\ Backed(NaiveRecord(p, k, dir), new)
<1> DEFINE h == p.history
           key == Recording(p, k)
           upd == Updated(p, k, dir)
           q == NaiveRecord(p, k, dir)
           cap == HistoryCapacity
           res == IF Cardinality(DOMAIN upd) >= cap
                  THEN Restrict(upd, DOMAIN upd \ {Evicted(upd)}) ELSE upd
<1>1. /\ HistoryOK(h) /\ p.nAccesses \in Nat
      /\ p = [history |-> h, nAccesses |-> p.nAccesses]
      /\ Cardinality(DOMAIN h) < Max({1, cap})
  BY DEF NaiveOK
<1>2. key \in BranchKeys /\ (Alone(key) => key = k) /\ (Alone(k) => key = k)
  <2>1. DOMAIN h \subseteq BranchKeys
    BY <1>1 DEF HistoryOK
  <2>2. CASE Found(h, k) = {}
    BY <2>2 DEF Recording
  <2>3. CASE Found(h, k) # {}
    <3>1. key \in Found(h, k)
      BY <2>3 DEF Recording
    <3> QED
      BY <2>1, <3>1, FoundFacts
  <2> QED
    BY <2>2, <2>3
<1>3. /\ DOMAIN upd = DOMAIN h \cup {key}
      /\ \A l \in DOMAIN upd : upd[l] = IF l = key
                         THEN [lastDirection |-> dir, lastUse |-> p.nAccesses] ELSE h[l]
      /\ upd = [l \in DOMAIN upd |-> upd[l]]
  BY DEF Updated
<1>4. q = [p EXCEPT !.history = res]
  BY DEF NaiveRecord, Recording, Updated, Oldest, Evicted
<1> HIDE DEF h, key, upd, q
<1>5. HistoryOK(upd) /\ DOMAIN upd # {}
  <2>1. IsFiniteSet(DOMAIN upd)
    BY <1>1, <1>3, FS_AddElement DEF HistoryOK
  <2>2. \A l \in DOMAIN upd : upd[l] \in UseType
    BY <1>1, <1>3 DEF HistoryOK, UseType
  <2> QED
    BY <1>1, <1>2, <1>3, <2>1, <2>2 DEF HistoryOK
<1>6. \A l \in DOMAIN upd : Alone(l) => upd[l].lastDirection = new[l]
  <2> SUFFICES ASSUME NEW l \in DOMAIN upd, Alone(l) PROVE upd[l].lastDirection = new[l]
    OBVIOUS
  <2>0. l \in BranchKeys
    BY <1>5 DEF HistoryOK
  <2>1. CASE l = key
    BY <1>2, <1>3, <2>0, <2>1
  <2>2. CASE l # key
    <3>1. l \in DOMAIN h /\ l # k /\ upd[l] = h[l]
      BY <1>2, <1>3, <2>2
    <3> QED
      BY <3>1, <2>0 DEF Backed, h
  <2> QED
    BY <2>1, <2>2
<1>7. /\ IsFiniteSet(DOMAIN h) /\ Cardinality(DOMAIN h) \in Nat /\ cap \in Nat
      /\ Cardinality(DOMAIN upd) <= Cardinality(DOMAIN h) + 1
      /\ Cardinality(DOMAIN upd) \in Nat
  <2>1. IsFiniteSet(DOMAIN h) /\ cap \in Nat
    BY <1>1, PredictorAssumption DEF HistoryOK
  <2>2. Cardinality(DOMAIN h) \in Nat
    BY <2>1, FS_CardinalityType
  <2>3. Cardinality(DOMAIN h \cup {key}) =
          IF key \in DOMAIN h THEN Cardinality(DOMAIN h) ELSE Cardinality(DOMAIN h) + 1
    BY <2>1, FS_AddElement
  <2> QED
    BY <1>3, <2>1, <2>2, <2>3
<1>8. /\ HistoryOK(res) /\ Cardinality(DOMAIN res) < Max({1, cap})
      /\ \A l \in DOMAIN res : Alone(l) => res[l].lastDirection = new[l]
  <2>1. CASE Cardinality(DOMAIN upd) >= cap
    <3> DEFINE e == Evicted(upd)
               rest == DOMAIN upd \ {e}
    <3>1. e \in DOMAIN upd
      BY <1>5, EvictedFacts
    <3>2. IsFiniteSet(DOMAIN upd)
      BY <1>5 DEF HistoryOK
    <3> HIDE DEF e
    <3>3. IsFiniteSet(rest) /\ Cardinality(rest) = Cardinality(DOMAIN upd) - 1
      BY <3>1, <3>2, FS_RemoveElement
    <3>4. res = [l \in rest |-> upd[l]]
      BY <2>1 DEF Restrict, e
    <3> HIDE DEF rest, res
    <3>5. HistoryOK(res)
      BY <1>5, <3>3, <3>4 DEF HistoryOK, rest
    <3>6. Cardinality(DOMAIN res) < Max({1, cap})
      BY <3>3, <3>4, <1>7, <1>1, MaxOne
    <3>7. \A l \in DOMAIN res : Alone(l) => res[l].lastDirection = new[l]
      BY <3>4, <1>6 DEF rest
    <3> QED
      BY <3>5, <3>6, <3>7
  <2>2. CASE ~(Cardinality(DOMAIN upd) >= cap)
    <3>1. res = upd
      BY <2>2
    <3>2. Cardinality(DOMAIN upd) < Max({1, cap})
      BY <2>2, <1>7, MaxOne
    <3> HIDE DEF res
    <3> QED
      BY <1>5, <1>6, <3>1, <3>2
  <2> QED
    BY <2>1, <2>2
<1> HIDE DEF res
<1>9. q = [history |-> res, nAccesses |-> p.nAccesses]
  BY <1>1, <1>4
<1>10. NaiveOK(q) /\ Backed(q, new)
  BY <1>1, <1>8, <1>9 DEF NaiveOK, Backed
<1> QED
  BY <1>10 DEF q

\* A prediction changes only the time an entry was last used, and TAKEN is
\* predicted only for a branch whose last direction that was.
LEMMA NaivePredictFacts ==
  ASSUME NEW p, NaiveOK(p), NEW k \in BranchKeys, NEW dirs, Backed(p, dirs)
  PROVE  LET r == NaivePredict(p, k)
         IN  /\ NaiveOK(r.next) /\ Backed(r.next, dirs)
             /\ r.dir = "TAKEN" /\ Alone(k) => dirs[k] = "TAKEN"
<1> DEFINE h == p.history
           f == Found(h, k)
           n == (p.nAccesses + 1) % CounterModulus
           g == [l \in DOMAIN h |-> IF l \in f THEN [h[l] EXCEPT !.lastUse = n] ELSE h[l]]
           r == NaivePredict(p, k)
           d == IF f = {} THEN "NOT_TAKEN" ELSE h[CHOOSE l \in f : TRUE].lastDirection
<1>1. r = [dir |-> d, next |-> [nAccesses |-> n, history |-> g]]
  BY DEF NaivePredict
<1>2. /\ HistoryOK(h) /\ p.nAccesses \in Nat /\ CounterModulus \in Nat \ {0}
      /\ Cardinality(DOMAIN h) < Max({1, HistoryCapacity})
  BY PredictorAssumption DEF NaiveOK
<1>3. n \in Nat
  BY <1>2
<1> HIDE DEF n
<1>4. \A l \in DOMAIN h : g[l] \in UseType /\ g[l].lastDirection = h[l].lastDirection
  BY <1>2, <1>3 DEF HistoryOK, UseType
<1>5. DOMAIN g = DOMAIN h /\ g = [l \in DOMAIN g |-> g[l]]
  OBVIOUS
<1>6. Alone(k) => d = IF k \in DOMAIN h THEN h[k].lastDirection ELSE "NOT_TAKEN"
  BY <1>2, FoundFacts DEF HistoryOK
<1> HIDE DEF g, d, f
<1>7. HistoryOK(g)
  BY <1>2, <1>4, <1>5 DEF HistoryOK
<1>8. r.next = [history |-> g, nAccesses |-> n] /\ r.dir = d
      /\ r.next.history = g /\ r.next.nAccesses = n
  BY <1>1
<1> HIDE DEF r
<1>9. NaiveOK(r.next)
  BY <1>2, <1>3, <1>5, <1>7, <1>8 DEF NaiveOK
<1>10. Backed(r.next, dirs)
  BY <1>4, <1>5, <1>8 DEF Backed
<1>11. r.dir = "TAKEN" /\ Alone(k) => dirs[k] = "TAKEN"
  BY <1>6, <1>8 DEF Backed
<1> QED
  BY <1>9, <1>10, <1>11 DEF r

\* The rows and the tables of the Skylake predictor, and its state.
PEntry == [pc : Nat, useful : Nat]
RowType == {row \in Seq(PEntry) : Len(row) <= PHTWays}
TableOK(t) == /\ t = [x \in DOMAIN t |-> t[x]]
              /\ \A x \in DOMAIN t : t[x] \in RowType
Small(t) == IsFiniteSet(DOMAIN t) /\ Cardinality(DOMAIN t) <= PHTRows
Names == {"pht1", "pht2", "pht3", "base"}
SkylakeOK(p) == /\ p = [phr |-> p.phr, tables |-> p.tables]
                /\ p.tables = [t \in Names |-> p.tables[t]]
                /\ \A t \in Names : TableOK(p.tables[t]) /\ (t # "base" => Small(p.tables[t]))

\* The names of the four tables.
LEMMA NamesRange == Range(Tables) = Names
BY DEF Range, Tables, Names

\* A row that is full makes room for the new entry.
LEMMA PushEntryType ==
  ASSUME NEW row \in RowType, NEW a \in Nat
  PROVE  PushEntry(row, a) \in RowType
<1> DEFINE T == {i \in DOMAIN row : \A j \in DOMAIN row : row[i].useful <= row[j].useful}
           kept == IF Len(row) >= PHTWays THEN RemoveAt(row, Min(T)) ELSE row
           e == [pc |-> a, useful |-> 0]
           U == {row[j].useful : j \in DOMAIN row}
<1>1. row \in Seq(PEntry) /\ Len(row) <= PHTWays /\ PHTWays \in Nat \ {0} /\ Len(row) \in Nat
  BY PredictorAssumption DEF RowType
<1>2. e \in PEntry
  BY DEF PEntry
<1>3. PushEntry(row, a) = Append(kept, e)
  BY DEF PushEntry
<1>4. kept \in Seq(PEntry) /\ Len(kept) < PHTWays
  <2>1. CASE Len(row) >= PHTWays
    <3>1. 1 \in DOMAIN row /\ DOMAIN row = 1 .. Len(row)
      BY <1>1, <2>1
    <3>2. \A j \in DOMAIN row : row[j].useful \in Nat
      <4>1. \A j \in DOMAIN row : row[j] \in PEntry
        BY <1>1
      <4> QED
        BY <4>1 DEF PEntry
    <3>3. U \subseteq Nat /\ U # {}
      BY <3>1, <3>2
    <3>4. PICK m \in U : \A y \in U : m <= y
      <4> HIDE DEF U
      <4> QED BY <3>3, NatMin
    <3>5. T \subseteq Nat /\ T \subseteq 1 .. Len(row) /\ T # {}
      BY <3>1, <3>4
    <3> DEFINE i == Min(T)
    <3>6. i \in 1 .. Len(row)
      <4> HIDE DEF T
      <4> QED BY <3>5, MinOf
    <3> HIDE DEF i
    <3>7. kept = SubSeq(row, 1, i - 1) \o SubSeq(row, i + 1, Len(row))
      BY <2>1 DEF RemoveAt, i
    <3> DEFINE b == SubSeq(row, 1, i - 1)
               c == SubSeq(row, i + 1, Len(row))
    <3>8. /\ b \in Seq(PEntry) /\ Len(b) = i - 1
          /\ c \in Seq(PEntry) /\ Len(c) = Len(row) - i
      BY <1>1, <3>6
    <3> HIDE DEF b, c
    <3>9. b \o c \in Seq(PEntry) /\ Len(b \o c) = Len(row) - 1
      <4>1. b \o c \in Seq(PEntry) /\ Len(b \o c) = Len(b) + Len(c)
        BY <3>8, ConcatProperties
      <4> QED
        BY <4>1, <3>6, <3>8, <1>1
    <3>10. kept = b \o c
      BY <3>7 DEF b, c
    <3> HIDE DEF kept
    <3> QED
      BY <3>9, <3>10, <1>1
  <2>2. CASE ~(Len(row) >= PHTWays)
    BY <1>1, <2>2
  <2> QED
    BY <2>1, <2>2
<1> HIDE DEF kept, e
<1>5. Append(kept, e) \in Seq(PEntry) /\ Len(Append(kept, e)) = Len(kept) + 1
  BY <1>2, <1>4
<1>6. Len(kept) \in Nat
  BY <1>4
<1> QED
  BY <1>1, <1>3, <1>4, <1>5, <1>6 DEF RowType

\* Pushing an entry changes one row of a table.
LEMMA SetPushFacts ==
  ASSUME NEW t, TableOK(t), NEW x, NEW a \in Nat
  PROVE  /\ TableOK(SetPush(t, x, a))
         /\ DOMAIN SetPush(t, x, a) = DOMAIN t \cup {x}
<1> DEFINE s == SetPush(t, x, a)
           row == IF x \in DOMAIN t THEN t[x] ELSE <<>>
<1>1. row \in RowType
  BY PredictorAssumption DEF TableOK, RowType
<1>2. PushEntry(row, a) \in RowType
  <2> HIDE DEF row
  <2> QED BY <1>1, PushEntryType
<1>3. s = [i \in DOMAIN t \cup {x} |-> IF i = x THEN PushEntry(row, a) ELSE t[i]]
  BY DEF SetPush
<1> HIDE DEF row, s
<1>4. DOMAIN s = DOMAIN t \cup {x} /\ s = [i \in DOMAIN s |-> s[i]]
      /\ \A i \in DOMAIN s : s[i] \in RowType
  BY <1>2, <1>3 DEF TableOK
<1> QED
  BY <1>4 DEF TableOK, s

\* A table that is full gives up a row before it takes a new one.
LEMMA InsertTableFacts ==
  ASSUME NEW t, TableOK(t), Small(t), NEW x, NEW a \in Nat, NEW s \in InsertTable(t, x, a)
  PROVE  TableOK(s) /\ Small(s)
<1>0. /\ PHTRows \in Nat \ {0} /\ IsFiniteSet(DOMAIN t)
      /\ Cardinality(DOMAIN t) \in Nat /\ Cardinality(DOMAIN t) <= PHTRows
  BY PredictorAssumption, FS_CardinalityType DEF Small
<1>1. CASE x \notin DOMAIN t /\ Cardinality(DOMAIN t) >= PHTRows
  <2>1. PICK i \in DOMAIN t : s = SetPush(Restrict(t, DOMAIN t \ {i}), x, a)
    BY <1>1 DEF InsertTable
  <2> DEFINE D == DOMAIN t \ {i}
             r == Restrict(t, D)
  <2>2. TableOK(r) /\ DOMAIN r = D
    BY DEF TableOK, Restrict
  <2> HIDE DEF r
  <2>3. TableOK(s) /\ DOMAIN s = D \cup {x}
    BY <2>1, <2>2, SetPushFacts DEF r
  <2>4. IsFiniteSet(D) /\ Cardinality(D) = Cardinality(DOMAIN t) - 1
    BY <1>0, FS_RemoveElement
  <2> HIDE DEF D
  <2>5. IsFiniteSet(D \cup {x})
        /\ Cardinality(D \cup {x}) = IF x \in D THEN Cardinality(D) ELSE Cardinality(D) + 1
    BY <2>4, FS_AddElement
  <2> QED
    BY <1>0, <2>3, <2>4, <2>5 DEF Small
<1>2. CASE ~(x \notin DOMAIN t /\ Cardinality(DOMAIN t) >= PHTRows)
  <2>1. s = SetPush(t, x, a)
    BY <1>2 DEF InsertTable
  <2>2. TableOK(s) /\ DOMAIN s = DOMAIN t \cup {x}
    BY <2>1, SetPushFacts
  <2>3. IsFiniteSet(DOMAIN t \cup {x})
        /\ Cardinality(DOMAIN t \cup {x}) =
             IF x \in DOMAIN t THEN Cardinality(DOMAIN t) ELSE Cardinality(DOMAIN t) + 1
    BY <1>0, FS_AddElement
  <2> QED
    BY <1>0, <1>2, <2>2, <2>3 DEF Small
<1> QED
  BY <1>1, <1>2

\* Recording a branch keeps the tables of the Skylake predictor in bounds.
LEMMA SkylakeRecordFacts ==
  ASSUME NEW p, SkylakeOK(p), NEW a \in Nat, NEW dir, NEW q \in SkylakeRecord(p, a, dir)
  PROVE  SkylakeOK(q)
<1>1. CASE dir # "TAKEN"
  BY <1>1 DEF SkylakeRecord
<1>2. CASE dir = "TAKEN"
  <2> DEFINE phr == UpdatePHR(p.phr, a)
             In(t) == IF t = "base" THEN {SetPush(p.tables[t], Row(t, phr, a), a)}
                      ELSE InsertTable(p.tables[t], Row(t, phr, a), a)
  <2>1. \E t1 \in In("pht1"), t2 \in In("pht2"), t3 \in In("pht3"), tb \in In("base") :
          q = [phr |-> phr, tables |-> [t \in Names |->
                 CASE t = "pht1" -> t1 [] t = "pht2" -> t2
                   [] t = "pht3" -> t3 [] t = "base" -> tb]]
    <3> DEFINE Result(R, t1, t2, t3, tb) ==
                 [phr |-> phr, tables |-> [t \in R |->
                    CASE t = "pht1" -> t1 [] t = "pht2" -> t2
                      [] t = "pht3" -> t3 [] t = "base" -> tb]]
    <3>1. SkylakeRecord(p, a, dir) =
            {Result(Range(Tables), t1, t2, t3, tb) : t1 \in In("pht1"), t2 \in In("pht2"),
               t3 \in In("pht3"), tb \in In("base")}
      BY <1>2 DEF SkylakeRecord
    <3> HIDE DEF In, Result
    <3>2. \E t1 \in In("pht1"), t2 \in In("pht2"), t3 \in In("pht3"), tb \in In("base") :
            q = Result(Range(Tables), t1, t2, t3, tb)
      BY <3>1
    <3> QED
      BY <3>2, NamesRange DEF Result
  <2>2. \A t \in Names : \A s \in In(t) : TableOK(s) /\ (t # "base" => Small(s))
    <3> SUFFICES ASSUME NEW t \in Names, NEW s \in In(t)
                 PROVE  TableOK(s) /\ (t # "base" => Small(s))
      OBVIOUS
    <3> DEFINE x == Row(t, phr, a)
               y == p.tables[t]
    <3>0. TableOK(y) /\ (t # "base" => Small(y))
      BY DEF SkylakeOK
    <3>1. CASE t = "base"
      <4>1. s = SetPush(y, x, a)
        BY <3>1
      <4> HIDE DEF x, y
      <4> QED BY <3>0, <3>1, <4>1, SetPushFacts
    <3>2. CASE t # "base"
      <4>1. s \in InsertTable(y, x, a)
        BY <3>2
      <4> HIDE DEF x, y
      <4> QED BY <3>0, <3>2, <4>1, InsertTableFacts
    <3> QED
      BY <3>1, <3>2
  <2> HIDE DEF phr, In
  <2>3. PICK t1 \in In("pht1"), t2 \in In("pht2"), t3 \in In("pht3"), tb \in In("base") :
          q = [phr |-> phr, tables |-> [t \in Names |->
                 CASE t = "pht1" -> t1 [] t = "pht2" -> t2
                   [] t = "pht3" -> t3 [] t = "base" -> tb]]
    BY <2>1
  <2>4. /\ TableOK(t1) /\ Small(t1) /\ TableOK(t2) /\ Small(t2)
        /\ TableOK(t3) /\ Small(t3) /\ TableOK(tb)
    BY <2>2 DEF Names
  <2>5. /\ q = [phr |-> q.phr, tables |-> q.tables]
        /\ q.tables = [t \in Names |-> q.tables[t]]
        /\ q.tables["pht1"] = t1 /\ q.tables["pht2"] = t2
        /\ q.tables["pht3"] = t3 /\ q.tables["base"] = tb
    BY <2>3 DEF Names
  <2>6. \A t \in Names : TableOK(q.tables[t]) /\ (t # "base" => Small(q.tables[t]))
    BY <2>4, <2>5 DEF Names
  <2> QED
    BY <2>5, <2>6 DEF SkylakeOK
<1> QED
  BY <1>1, <1>2

\* So does a prediction, which only counts that an entry was useful.
LEMMA SkylakePredictFacts ==
  ASSUME NEW p, SkylakeOK(p), NEW a \in Nat
  PROVE  SkylakeOK(SkylakePredict(p, a).next)
<1> DEFINE phr == UpdatePHR(p.phr, a)
           In(t) == Useful(p.tables[t], Row(t, phr, a), a)
           hits == {k \in DOMAIN Tables : In(Tables[k]) # {}}
           t == Tables[Min(hits)]
           x == Row(t, phr, a)
           y == p.tables[t]
           i == Min(In(t))
           q == [p EXCEPT !.tables[t][x][i].useful = @ + 1]
<1>1. CASE hits = {}
  BY <1>1 DEF SkylakePredict
<1>2. CASE hits # {}
  <2>1. SkylakePredict(p, a).next = q
    BY <1>2 DEF SkylakePredict
  <2>2. hits \subseteq 1 .. 4 /\ hits \subseteq Nat
    BY DEF Tables
  <2> DEFINE m == Min(hits)
  <2>3. m \in hits
    <3> HIDE DEF hits
    <3> QED BY <1>2, <2>2, MinOf
  <2>4. m \in 1 .. 4 /\ In(Tables[m]) # {}
    BY <2>2, <2>3
  <2>4a. t \in Names /\ In(t) # {}
    <3>1. \A k \in 1 .. 4 : Tables[k] \in Names
      BY DEF Tables, Names
    <3> HIDE DEF m
    <3> QED BY <2>4, <3>1 DEF m
  <2> HIDE DEF t, phr
  <2>5. In(t) \subseteq DOMAIN y[x] /\ x \in DOMAIN y
    BY <2>4a DEF Useful
  <2>6. TableOK(y) /\ (t # "base" => Small(y)) /\ y[x] \in RowType
    BY <2>4a, <2>5 DEF SkylakeOK, TableOK
  <2>7. In(t) \subseteq Nat
    BY <2>5, <2>6 DEF RowType
  <2>8. i \in In(t)
    <3> DEFINE S == In(t)
    <3> HIDE DEF S
    <3>1. Min(S) \in S
      BY <2>4a, <2>7, MinOf DEF S
    <3> QED BY <3>1 DEF S
  <2>9. i \in DOMAIN y[x]
    BY <2>5, <2>8
  <2> DEFINE row == [y[x] EXCEPT ![i] = [y[x][i] EXCEPT !.useful = y[x][i].useful + 1]]
             z == [y EXCEPT ![x] = row]
  <2>10. q = [p EXCEPT !.tables = [p.tables EXCEPT ![t] = z]]
    OBVIOUS
  <2> HIDE DEF i, x, y, q, In
  <2>11. row \in RowType
    <3>1. y[x] \in Seq(PEntry) /\ i \in 1 .. Len(y[x]) /\ Len(y[x]) <= PHTWays
      BY <2>6, <2>9 DEF RowType
    <3>2. [y[x][i] EXCEPT !.useful = y[x][i].useful + 1] \in PEntry
      <4>1. y[x][i] \in PEntry
        BY <3>1
      <4> QED
        BY <4>1 DEF PEntry
    <3>3. row \in Seq(PEntry) /\ Len(row) = Len(y[x])
      BY <3>1, <3>2, ExceptSeq
    <3> QED
      BY <3>1, <3>3 DEF RowType
  <2> HIDE DEF row
  <2>12. TableOK(z) /\ DOMAIN z = DOMAIN y
    BY <2>5, <2>6, <2>11 DEF TableOK
  <2>13. t # "base" => Small(z)
    BY <2>6, <2>12 DEF Small
  <2> HIDE DEF z
  <2>14. /\ q = [phr |-> p.phr, tables |-> [p.tables EXCEPT ![t] = z]]
         /\ p.tables = [n \in Names |-> p.tables[n]]
    BY <2>10 DEF SkylakeOK
  <2>15. q.tables = [n \in Names |-> IF n = t THEN z ELSE p.tables[n]]
         /\ q.phr = p.phr
    BY <2>14, <2>4a
  <2>16. SkylakeOK(q)
    <3>1. q = [phr |-> q.phr, tables |-> q.tables] /\ q.tables = [n \in Names |-> q.tables[n]]
      BY <2>14, <2>15
    <3>2. \A n \in Names : TableOK(q.tables[n]) /\ (n # "base" => Small(q.tables[n]))
      BY <2>12, <2>13, <2>15 DEF SkylakeOK
    <3> QED BY <3>1, <3>2 DEF SkylakeOK
  <2> QED
    BY <2>1, <2>16
<1> QED
  BY <1>1, <1>2

\* The keys of all instructions.
AllKeys == {Key(i) : i \in Insts}

\* The inductive invariant of the predictors: the table in use has its shape,
\* and the entries of the naive one agree with the directions last taken.
PInv ==
  /\ cfg \in Configs
  /\ predicted # "none" => previous \in BranchKeys /\ cfg.bpu # "None"
  /\ DOMAIN lastDir = AllKeys /\ lastDir = [k \in AllKeys |-> lastDir[k]]
  /\ cfg.bpu = "Naive" => NaiveOK(bpu) /\ Backed(bpu, lastDir)
  /\ cfg.bpu = "Skylake" => SkylakeOK(bpu)
  /\ PredictionBacked

\* The empty predictors satisfy the invariant.
LEMMA PredictorInit == Init => PInv
<1> SUFFICES ASSUME Init PROVE PInv
  OBVIOUS
<1>1. /\ cfg \in Configs /\ predicted = "none"
      /\ lastDir = [k \in AllKeys |-> "none"]
  BY DEF Init, AllKeys
<1>2. ASSUME cfg.bpu = "Naive" PROVE NaiveOK(bpu) /\ Backed(bpu, lastDir)
  <2>1. PICK n \in 0 .. (CounterModulus - 1) : bpu = NewNaive(n)
    BY <1>2 DEF Init
  <2>2. bpu.history = <<>> /\ bpu.nAccesses = n
        /\ bpu = [history |-> bpu.history, nAccesses |-> n]
    BY <2>1 DEF NewNaive
  <2>3. DOMAIN bpu.history = {} /\ bpu.history = [l \in DOMAIN bpu.history |-> bpu.history[l]]
    BY <2>2
  <2>4. IsFiniteSet(DOMAIN bpu.history) /\ Cardinality(DOMAIN bpu.history) = 0
    BY <2>3, FS_EmptySet
  <2>5. 0 < Max({1, HistoryCapacity})
    BY MaxOne, PredictorAssumption
  <2>6. n \in Nat
    OBVIOUS
  <2> QED
    BY <2>2, <2>3, <2>4, <2>5, <2>6 DEF NaiveOK, HistoryOK, Backed
<1>3. ASSUME cfg.bpu = "Skylake" PROVE SkylakeOK(bpu)
  <2>1. bpu = NewSkylake
    BY <1>3 DEF Init
  <2>2. bpu = [phr |-> {}, tables |-> [t \in Names |-> <<>>]]
    BY <2>1, NamesRange DEF NewSkylake
  <2>3. TableOK(<<>>) /\ Small(<<>>)
    <3>1. DOMAIN <<>> = {} /\ <<>> = [x \in {} |-> <<>>[x]]
      OBVIOUS
    <3> QED
      BY <3>1, FS_EmptySet, PredictorAssumption DEF TableOK, Small
  <2> QED
    BY <2>2, <2>3 DEF SkylakeOK
<1> QED
  BY <1>1, <1>2, <1>3 DEF PInv, PredictionBacked

\* Resolving the last branch and predicting the next keep the invariant.
LEMMA ExecutePredictor ==
  ASSUME PInv, NEW i \in Insts, Execute(i)
  PROVE  PInv'
<1>1. PICK p \in Recorded(i) : predicted' = Predict(p, i).dir /\ bpu' = Predict(p, i).next
  BY DEF Execute
<1>2. /\ cfg' = cfg /\ cfg \in Configs
      /\ previous' = IF i.md THEN Key(i) ELSE NoAddr
      /\ lastDir' = IF Resolves(i) THEN [lastDir EXCEPT ![previous] = Actual(i)] ELSE lastDir
      /\ DOMAIN lastDir = AllKeys
  BY DEF Execute, PInv
<1>3. BranchKeys \subseteq AllKeys
  BY DEF BranchKeys, AllKeys
<1>4. Actual(i) \in Direction
  BY DEF Actual, Direction
<1>5. Resolves(i) => previous \in BranchKeys /\ cfg.bpu # "None"
  BY DEF Resolves, PInv
<1>6. DOMAIN lastDir' = AllKeys /\ lastDir' = [k \in AllKeys |-> lastDir'[k]]
  BY <1>2 DEF PInv
<1>7. Key(i) \in AllKeys /\ (i.branch => Key(i) \in BranchKeys)
  BY DEF AllKeys, BranchKeys
<1>8. Predict(p, i).dir # "none" => i.branch /\ i.md /\ cfg.bpu # "None"
  BY DEF Predict
<1>9. predicted' # "none" => previous' \in BranchKeys /\ cfg'.bpu # "None"
  BY <1>1, <1>2, <1>7, <1>8
<1>10. ASSUME cfg.bpu = "Naive"
       PROVE  /\ NaiveOK(bpu') /\ Backed(bpu', lastDir')
              /\ predicted' = "TAKEN" /\ Alone(previous') => lastDir'[previous'] = "TAKEN"
  <2>1. NaiveOK(bpu) /\ Backed(bpu, lastDir)
    BY <1>10 DEF PInv
  <2>2. NaiveOK(p) /\ Backed(p, lastDir')
    <3>1. CASE Resolves(i)
      <4>1. p = NaiveRecord(bpu, previous, Actual(i))
        BY <1>10, <3>1 DEF Recorded
      <4>2. previous \in BranchKeys
        BY <1>5, <3>1
      <4>3. lastDir' = [l \in DOMAIN lastDir |-> IF l = previous THEN Actual(i) ELSE lastDir[l]]
        BY <1>2, <1>3, <3>1, <4>2
      <4> DEFINE new == lastDir'
      <4> HIDE DEF new
      <4>4. NaiveOK(NaiveRecord(bpu, previous, Actual(i)))
            /\ Backed(NaiveRecord(bpu, previous, Actual(i)), new)
        BY <1>2, <1>3, <1>4, <2>1, <4>2, <4>3, NaiveRecordFacts DEF new
      <4> QED
        BY <4>1, <4>4 DEF new
    <3>2. CASE ~Resolves(i)
      BY <1>2, <2>1, <3>2 DEF Recorded
    <3> QED
      BY <3>1, <3>2
  <2>3. CASE i.branch /\ i.md
    <3>1. Predict(p, i) = NaivePredict(p, Key(i)) /\ previous' = Key(i)
      BY <1>2, <1>10, <2>3 DEF Predict
    <3> DEFINE new == lastDir'
               r == NaivePredict(p, Key(i))
    <3> HIDE DEF new, r
    <3>2. /\ NaiveOK(r.next) /\ Backed(r.next, new)
          /\ r.dir = "TAKEN" /\ Alone(Key(i)) => new[Key(i)] = "TAKEN"
      BY <1>7, <2>2, <2>3, NaivePredictFacts DEF new, r
    <3> QED
      BY <1>1, <3>1, <3>2 DEF new, r
  <2>4. CASE ~(i.branch /\ i.md)
    <3>1. Predict(p, i) = [dir |-> "none", next |-> p]
      BY <2>4, StageAssumption DEF Predict
    <3> QED
      BY <1>1, <2>2, <3>1
  <2> QED
    BY <2>3, <2>4
<1>11. ASSUME cfg.bpu = "Skylake" PROVE SkylakeOK(bpu')
  <2>1. SkylakeOK(bpu)
    BY <1>11 DEF PInv
  <2>2. SkylakeOK(p)
    <3>1. CASE Resolves(i)
      <4>1. p \in SkylakeRecord(bpu, previous.addr, Actual(i))
        BY <1>11, <3>1 DEF Recorded
      <4>2. previous.addr \in Nat
        BY <1>5, <3>1, BranchKeysType DEF KeyType
      <4> QED
        BY <2>1, <4>1, <4>2, SkylakeRecordFacts
    <3>2. CASE ~Resolves(i)
      BY <2>1, <3>2 DEF Recorded
    <3> QED
      BY <3>1, <3>2
  <2>3. CASE i.branch /\ i.md
    <3>1. Predict(p, i) = SkylakePredict(p, i.addr)
      BY <1>11, <2>3 DEF Predict
    <3>2. i.addr \in Nat
      BY StageAssumption
    <3> QED
      BY <1>1, <2>2, <3>1, <3>2, SkylakePredictFacts
  <2>4. CASE ~(i.branch /\ i.md)
    <3>1. Predict(p, i) = [dir |-> "none", next |-> p]
      BY <2>4, StageAssumption DEF Predict
    <3> QED
      BY <1>1, <2>2, <3>1
  <2> QED
    BY <2>3, <2>4
<1>12. PredictionBacked'
  BY <1>2, <1>10 DEF PredictionBacked, Alone
<1> QED
  BY <1>2, <1>6, <1>9, <1>10, <1>11, <1>12 DEF PInv, Backed, Alone

\* Every step keeps the invariant of the predictors.
LEMMA PredictorStep == PInv /\ [Next]_vars => PInv'
<1> SUFFICES ASSUME PInv, [Next]_vars PROVE PInv'
  OBVIOUS
<1>1. CASE \E i \in Insts : Execute(i)
  BY <1>1, ExecutePredictor
<1>2. CASE ~ \E i \in Insts : Execute(i)
  <2>1. UNCHANGED <<cfg, bpu, predicted, previous, lastDir>>
    BY <1>2 DEF Next, CycleStart, DataAccess, vars
  <2> QED
    BY <2>1 DEF PInv, PredictionBacked, Alone, Backed
<1> QED
  BY <1>1, <1>2

\* For every program, every capacity of the history table and every modulus of
\* the access counter, the naive predictor predicts TAKEN for a branch that
\* shares no entry with another one only if it was taken the last time.
THEOREM TakenPredictionsBacked == Spec => []PredictionBacked
<1>1. PInv => PredictionBacked
  BY DEF PInv
<1> QED
  BY <1>1, PredictorInit, PredictorStep, PTL DEF Spec

\* For every program and all sizes of the tables, the history table stays
\* below its capacity, the three tagged tables have at most PHTRows rows, and
\* no row has more than PHTWays entries.
THEOREM PredictorTablesBounded == Spec => []PredictorsBounded
<1>1. PInv => PredictorsBounded
  <2> SUFFICES ASSUME PInv PROVE PredictorsBounded
    OBVIOUS
  <2>1. cfg.bpu = "Naive" => Cardinality(DOMAIN bpu.history) < Max({1, HistoryCapacity})
    BY DEF PInv, NaiveOK
  <2>2. ASSUME cfg.bpu = "Skylake", NEW t \in Names
        PROVE  /\ t # "base" => Cardinality(DOMAIN bpu.tables[t]) <= PHTRows
               /\ \A x \in DOMAIN bpu.tables[t] : Len(bpu.tables[t][x]) <= PHTWays
    BY <2>2 DEF PInv, SkylakeOK, TableOK, Small, RowType
  <2> QED
    BY <2>1, <2>2, NamesRange DEF PredictorsBounded
<1> QED
  BY <1>1, PredictorInit, PredictorStep, PTL DEF Spec

-----------------------------------------------------------------------------
(* Eviction in the naive predictor.                                        *)

\* No entry was used after the last access, and none but that of k at it.
UsedBefore(p) == \A l \in DOMAIN p.history : p.history[l].lastUse <= p.nAccesses
UsedLast(p, k) == \A l \in DOMAIN p.history : l = k \/ p.history[l].lastUse < p.nAccesses

\* Recording a branch keeps its own entry: what is evicted was used before.
LEMMA RecordKeepsOwn ==
  ASSUME NEW p, NaiveOK(p), NEW k \in BranchKeys, NEW dir \in Direction, UsedBefore(p)
  PROVE  LET q == NaiveRecord(p, k, dir)
         IN  /\ q.nAccesses = p.nAccesses /\ UsedBefore(q)
             /\ HistoryCapacity > 1 /\ Alone(k) /\ UsedLast(p, k) => k \in DOMAIN q.history
<1> DEFINE h == p.history
           key == Recording(p, k)
           upd == Updated(p, k, dir)
           q == NaiveRecord(p, k, dir)
           cap == HistoryCapacity
           full == Cardinality(DOMAIN upd) >= cap
           res == IF full THEN Restrict(upd, DOMAIN upd \ {Evicted(upd)}) ELSE upd
<1>1. /\ HistoryOK(h) /\ p.nAccesses \in Nat
      /\ p = [history |-> h, nAccesses |-> p.nAccesses]
  BY DEF NaiveOK
<1>2. key \in BranchKeys /\ (Alone(k) => key = k)
  <2>1. DOMAIN h \subseteq BranchKeys
    BY <1>1 DEF HistoryOK
  <2>2. Found(h, k) # {} => key \in Found(h, k)
    BY DEF Recording
  <2> QED
    BY <2>1, <2>2, FoundFacts DEF Recording
<1>3. /\ DOMAIN upd = DOMAIN h \cup {key}
      /\ \A l \in DOMAIN upd : upd[l] = IF l = key
                         THEN [lastDirection |-> dir, lastUse |-> p.nAccesses] ELSE h[l]
      /\ upd = [l \in DOMAIN upd |-> upd[l]]
  BY DEF Updated
<1>4. q = [p EXCEPT !.history = res]
  BY DEF NaiveRecord, Recording, Updated, Oldest, Evicted
<1> HIDE DEF h, key, upd, q
<1>5. HistoryOK(upd) /\ DOMAIN upd # {}
  <2>1. IsFiniteSet(DOMAIN upd)
    BY <1>1, <1>3, FS_AddElement DEF HistoryOK
  <2>2. \A l \in DOMAIN upd : upd[l] \in UseType
    BY <1>1, <1>3 DEF HistoryOK, UseType
  <2> QED
    BY <1>1, <1>2, <1>3, <2>1, <2>2 DEF HistoryOK
<1>6. \A l \in DOMAIN upd : upd[l].lastUse <= p.nAccesses
  <2> SUFFICES ASSUME NEW l \in DOMAIN upd PROVE upd[l].lastUse <= p.nAccesses
    OBVIOUS
  <2>1. CASE l = key
    BY <1>1, <1>3, <2>1
  <2>2. CASE l # key
    BY <1>3, <2>2 DEF UsedBefore, h
  <2> QED BY <2>1, <2>2
<1>7. /\ \A l \in DOMAIN res : l \in DOMAIN upd /\ res[l] = upd[l]
      /\ DOMAIN res = IF full THEN DOMAIN upd \ {Evicted(upd)} ELSE DOMAIN upd
  BY <1>3 DEF Restrict
<1> HIDE DEF res, full
<1>8. q.history = res /\ q.nAccesses = p.nAccesses
  BY <1>1, <1>4
<1>9. UsedBefore(q)
  BY <1>6, <1>7, <1>8 DEF UsedBefore
<1>10. ASSUME cap > 1, Alone(k), UsedLast(p, k) PROVE k \in DOMAIN q.history
  <2>1. key = k /\ k \in DOMAIN upd /\ upd[k].lastUse = p.nAccesses
    BY <1>2, <1>3, <1>10
  <2>2. CASE full
    <3>1. PICK l \in DOMAIN upd : l # k
      <4>1. SUFFICES ASSUME DOMAIN upd = {k} PROVE FALSE
        BY <2>1
      <4>2. Cardinality(DOMAIN upd) = 1
        BY <4>1, FS_Singleton
      <4> QED BY <4>2, <1>10, <2>2, PredictorAssumption DEF full
    <3>2. upd[l].lastUse < p.nAccesses /\ upd[l].lastUse \in Nat
      BY <1>3, <1>5, <1>10, <2>1, <3>1 DEF UsedLast, h, HistoryOK, UseType
    <3>3. k \notin Oldest(upd)
      BY <1>1, <2>1, <3>1, <3>2 DEF Oldest
    <3>4. Evicted(upd) # k
      BY <1>5, <3>3, EvictedFacts
    <3> QED BY <1>7, <1>8, <2>1, <2>2, <3>4
  <2>3. CASE ~full
    BY <1>7, <1>8, <2>1, <2>3
  <2> QED BY <2>2, <2>3
<1> QED
  BY <1>8, <1>9, <1>10 DEF q

\* A prediction is an access later than all others, unless the counter wraps.
LEMMA PredictUses ==
  ASSUME NEW p, NaiveOK(p), NEW k \in BranchKeys, p.nAccesses < CounterModulus
  PROVE  LET q == NaivePredict(p, k).next
         IN  /\ q.nAccesses < CounterModulus /\ DOMAIN q.history = DOMAIN p.history
             /\ UsedBefore(p) /\ q.nAccesses # 0 =>
                  UsedBefore(q) /\ (Alone(k) => UsedLast(q, k))
<1> DEFINE h == p.history
           f == Found(h, k)
           n == (p.nAccesses + 1) % CounterModulus
           g == [l \in DOMAIN h |-> IF l \in f THEN [h[l] EXCEPT !.lastUse = n] ELSE h[l]]
           q == NaivePredict(p, k).next
<1>1. q = [nAccesses |-> n, history |-> g] /\ q.nAccesses = n /\ q.history = g
  BY DEF NaivePredict
<1>2. HistoryOK(h) /\ p.nAccesses \in Nat /\ CounterModulus \in Nat \ {0}
  BY PredictorAssumption DEF NaiveOK
<1>3. n \in Nat /\ n < CounterModulus /\ (n # 0 => n = p.nAccesses + 1)
  <2>1. CASE p.nAccesses + 1 < CounterModulus
    BY <1>2, <2>1
  <2>2. CASE p.nAccesses + 1 = CounterModulus
    BY <1>2, <2>2
  <2> QED BY <1>2, <2>1, <2>2
<1> HIDE DEF n
<1>4. \A l \in DOMAIN h : g[l].lastUse = IF l \in f THEN n ELSE h[l].lastUse
  BY <1>2 DEF HistoryOK, UseType
<1>5. DOMAIN g = DOMAIN h
  OBVIOUS
<1>6. Alone(k) => f \subseteq {k}
  BY <1>2, FoundFacts DEF HistoryOK
<1> HIDE DEF g, f, q, h
<1>7. ASSUME UsedBefore(p), n # 0 PROVE UsedBefore(q) /\ (Alone(k) => UsedLast(q, k))
  <2>1. \A l \in DOMAIN h : h[l].lastUse \in Nat /\ h[l].lastUse < n
    BY <1>2, <1>3, <1>7 DEF UsedBefore, HistoryOK, UseType, h
  <2>2. \A l \in DOMAIN g : g[l].lastUse <= n /\ (l \notin f => g[l].lastUse < n)
    BY <1>3, <1>4, <1>5, <2>1
  <2> QED
    BY <1>1, <1>6, <2>2 DEF UsedBefore, UsedLast
<1> QED
  BY <1>1, <1>3, <1>5, <1>7 DEF q, h

\* The inductive invariant of the order of use, as long as the counter has not
\* wrapped.
KInv ==
  /\ PInv
  /\ cfg.bpu = "Naive" => bpu.nAccesses < CounterModulus
  /\ cfg.bpu = "Naive" /\ ~wrapped =>
       /\ UsedBefore(bpu)
       /\ predicted # "none" /\ Alone(previous) => UsedLast(bpu, previous)
       /\ HistoryCapacity > 1 /\ resolved # NoAddr /\ Alone(resolved)
            => resolved \in DOMAIN bpu.history

\* It holds at the start.
LEMMA KnownInit == Init => KInv
<1> SUFFICES ASSUME Init PROVE KInv
  OBVIOUS
<1>1. PInv
  BY PredictorInit
<1>2. ASSUME cfg.bpu = "Naive"
      PROVE  bpu.nAccesses < CounterModulus /\ DOMAIN bpu.history = {}
  <2>1. PICK n \in 0 .. (CounterModulus - 1) : bpu = NewNaive(n)
    BY <1>2 DEF Init
  <2>2. bpu.history = <<>> /\ bpu.nAccesses = n
    BY <2>1 DEF NewNaive
  <2> QED BY <2>2, PredictorAssumption
<1>3. resolved = NoAddr /\ predicted = "none"
  BY DEF Init
<1> QED BY <1>1, <1>2, <1>3 DEF KInv, UsedBefore

LEMMA ExecuteKnown ==
  ASSUME KInv, NEW i \in Insts, Execute(i), cfg.bpu = "Naive"
  PROVE  /\ bpu'.nAccesses < CounterModulus
         /\ ~wrapped' =>
              /\ UsedBefore(bpu')
              /\ predicted' # "none" /\ Alone(previous') => UsedLast(bpu', previous')
              /\ HistoryCapacity > 1 /\ resolved' # NoAddr /\ Alone(resolved')
                   => resolved' \in DOMAIN bpu'.history
<1>1. PICK p \in Recorded(i) : predicted' = Predict(p, i).dir /\ bpu' = Predict(p, i).next
  BY DEF Execute
<1>2. /\ previous' = IF i.md THEN Key(i) ELSE NoAddr
      /\ resolved' = IF Resolves(i) THEN previous ELSE resolved
      /\ ~wrapped' => ~wrapped /\ (predicted' # "none" => bpu'.nAccesses # 0)
  BY DEF Execute
<1>3. /\ NaiveOK(bpu) /\ Backed(bpu, lastDir) /\ bpu.nAccesses < CounterModulus
      /\ DOMAIN lastDir = AllKeys /\ (Resolves(i) => previous \in BranchKeys)
  BY DEF KInv, PInv, Resolves
<1>4. Actual(i) \in Direction /\ BranchKeys \subseteq AllKeys
  BY DEF Actual, Direction, BranchKeys, AllKeys
<1>5. /\ NaiveOK(p) /\ p.nAccesses = bpu.nAccesses
      /\ ~wrapped => /\ UsedBefore(p)
                     /\ HistoryCapacity > 1 /\ resolved' # NoAddr /\ Alone(resolved')
                          => resolved' \in DOMAIN p.history
  <2>1. CASE Resolves(i)
    <3>1. p = NaiveRecord(bpu, previous, Actual(i)) /\ previous \in BranchKeys
      BY <1>3, <2>1 DEF Recorded
    <3>2. NaiveOK(p)
      <4> DEFINE new == [l \in DOMAIN lastDir |-> IF l = previous THEN Actual(i) ELSE lastDir[l]]
      <4> HIDE DEF new
      <4>1. NaiveOK(NaiveRecord(bpu, previous, Actual(i)))
        BY <1>3, <1>4, <3>1, NaiveRecordFacts DEF new
      <4> QED BY <3>1, <4>1
    <3>3. p.nAccesses = bpu.nAccesses
      <4>1. NaiveRecord(bpu, previous, Actual(i)).nAccesses = bpu.nAccesses
        BY <1>3 DEF NaiveRecord, NaiveOK
      <4> QED BY <3>1, <4>1
    <3>4. ASSUME ~wrapped
          PROVE  /\ UsedBefore(p)
                 /\ HistoryCapacity > 1 /\ Alone(previous) => previous \in DOMAIN p.history
      <4>1. UsedBefore(bpu) /\ (Alone(previous) => UsedLast(bpu, previous))
        BY <3>4, <2>1 DEF KInv, Resolves
      <4> QED
        BY <1>3, <1>4, <3>1, <4>1, RecordKeepsOwn
    <3> QED BY <1>2, <2>1, <3>2, <3>3, <3>4
  <2>2. CASE ~Resolves(i)
    <3>1. p = bpu /\ resolved' = resolved
      BY <1>2, <2>2 DEF Recorded
    <3> QED BY <1>3, <3>1 DEF KInv
  <2> QED BY <2>1, <2>2
<1>6. CASE i.branch /\ i.md
  <2>1. Predict(p, i) = NaivePredict(p, Key(i)) /\ previous' = Key(i) /\ Key(i) \in BranchKeys
    BY <1>2, <1>6 DEF Predict, BranchKeys
  <2>2. bpu' = NaivePredict(p, Key(i)).next
    BY <1>1, <2>1
  <2>3. predicted' # "none"
    <3>1. \A l \in DOMAIN p.history : p.history[l].lastDirection # "none"
      BY <1>5 DEF NaiveOK, HistoryOK, UseType, Direction
    <3>2. Found(p.history, Key(i)) \subseteq DOMAIN p.history
      BY DEF Found
    <3> QED BY <1>1, <2>1, <3>1, <3>2 DEF NaivePredict
  <2> DEFINE q == NaivePredict(p, Key(i)).next
  <2>4. /\ q.nAccesses < CounterModulus /\ DOMAIN q.history = DOMAIN p.history
        /\ UsedBefore(p) /\ q.nAccesses # 0 =>
             UsedBefore(q) /\ (Alone(Key(i)) => UsedLast(q, Key(i)))
    BY <1>3, <1>5, <2>1, PredictUses
  <2> HIDE DEF q
  <2>5. bpu' = q
    BY <2>2 DEF q
  <2> QED BY <1>2, <1>5, <2>1, <2>3, <2>4, <2>5
<1>7. CASE ~(i.branch /\ i.md)
  <2>1. Predict(p, i) = [dir |-> "none", next |-> p]
    BY <1>7, StageAssumption DEF Predict
  <2>2. bpu' = p /\ predicted' = "none"
    BY <1>1, <2>1
  <2> QED BY <1>2, <1>3, <1>5, <2>2
<1> QED BY <1>6, <1>7

LEMMA KnownStep == KInv /\ [Next]_vars => KInv'
<1> SUFFICES ASSUME KInv, [Next]_vars PROVE KInv'
  OBVIOUS
<1>1. PInv'
  BY PredictorStep DEF KInv
<1>2. ASSUME NEW i \in Insts, Execute(i) PROVE KInv'
  <2>1. cfg' = cfg
    BY <1>2 DEF Execute
  <2> QED BY <1>1, <1>2, <2>1, ExecuteKnown DEF KInv, UsedBefore, UsedLast, Alone
<1>3. CASE ~ \E i \in Insts : Execute(i)
  <2>1. UNCHANGED <<cfg, bpu, predicted, previous, resolved, wrapped>>
    BY <1>3 DEF Next, CycleStart, DataAccess, vars
  <2> QED
    BY <1>1, <2>1 DEF KInv, UsedBefore, UsedLast, Alone
<1> QED
  BY <1>2, <1>3

\* For every capacity above one, every start and modulus of the access counter
\* and every program, eviction does not take the entry of the branch that was
\* just recorded (if no other branch shares it), until the counter wraps.
THEOREM RecordedBranchesKnown == Spec => []LastBranchKnown
<1>1. KInv => LastBranchKnown
  BY DEF KInv, PInv, LastBranchKnown, Backed
<1> QED
  BY <1>1, KnownInit, KnownStep, PTL DEF Spec

-----------------------------------------------------------------------------
(* Ways, sets and what one access changes.                                 *)

\* The sets and the ways of a cache, and what they hold.
Sets(u) == 0 .. (NumSets[u] - 1)
Ways(u) == 1 .. NumWays[u]
Way == [line : Nat, last : Nat]
UnitType(u) == [table : [Sets(u) -> [Ways(u) -> Way]],
                nextFree : [Sets(u) -> 0 .. NumWays[u]],
                clock : Nat, misses : Nat, loads : Nat, stores : Nat]

\* A nonempty set of numbers up to n has a greatest element.
LEMMA NatMax ==
  ASSUME NEW n \in Nat, NEW T, T \subseteq 1 .. n, T # {}
  PROVE  \E x \in T : \A y \in T : x >= y
<1> DEFINE D == {n - y : y \in T}
<1>1. D \subseteq Nat /\ D # {}
  <2>1. \A y \in T : n - y \in Nat
    OBVIOUS
  <2>2. PICK y : y \in T
    OBVIOUS
  <2>3. n - y \in D
    BY <2>2
  <2> QED
    BY <2>1, <2>3
<1>2. PICK d \in D : \A e \in D : d <= e
  <2> HIDE DEF D
  <2> QED BY <1>1, NatMin
<1>3. PICK x \in T : d = n - x
  OBVIOUS
<1>4. \A y \in T : n - y \in D
  OBVIOUS
<1>5. \A y \in T : n - x <= n - y
  <2> HIDE DEF D
  <2> QED BY <1>2, <1>3, <1>4
<1> QED
  BY <1>5

\* Max of a nonempty set of numbers up to n is its greatest element.
LEMMA MaxOf ==
  ASSUME NEW n \in Nat, NEW T, T \subseteq 1 .. n, T # {}
  PROVE  Max(T) \in T /\ \A y \in T : Max(T) >= y
<1>1. \E x \in T : \A y \in T : x >= y
  BY NatMax
<1> QED
  BY <1>1 DEF Max

\* The line of an address is an address, its set one of the cache's sets.
LEMMA AddressFacts ==
  ASSUME NEW u \in Units, NEW a \in Nat
  PROVE  /\ CachelineAddress(a) \in Nat
         /\ SetIndex(u, a) \in Sets(u)
<1>1. LineSize \in Nat \ {0} /\ NumSets[u] \in Nat \ {0}
  BY CacheAssumption
<1>2. a % LineSize \in 0 .. (LineSize - 1) /\ a % LineSize <= a
  BY <1>1
<1>3. CachelineAddress(a) \in Nat
  BY <1>2 DEF CachelineAddress
<1> DEFINE l == CachelineAddress(a) \div LineSize
<1>4. l \in Nat
  BY <1>1, <1>3
<1> HIDE DEF l
<1>5. l % NumSets[u] \in 0 .. (NumSets[u] - 1)
  BY <1>1, <1>4
<1> QED
  BY <1>3, <1>5 DEF SetIndex, Sets, l

\* The way that Touch uses.
Used(u, c, a) == IF Hit(u, c, a) THEN Min(Entries(u, c, a)) ELSE EvictEntry(u, c, a)

\* evictEntry returns the next free way, if there is one, and otherwise a way
\* that no other way was used before.
LEMMA EvictFacts ==
  ASSUME NEW u \in Units, NEW c \in UnitType(u), NEW a \in Nat
  PROVE  LET s == SetIndex(u, a)
             v == EvictEntry(u, c, a)
         IN  /\ v \in Ways(u)
             /\ c.nextFree[s] < NumWays[u] => v = c.nextFree[s] + 1
             /\ ~(c.nextFree[s] < NumWays[u]) =>
                  \A w \in Ways(u) : c.table[s][v].last <= c.table[s][w].last
<1> DEFINE s == SetIndex(u, a)
           ways == c.table[s]
           n == NumWays[u]
           T == {w \in DOMAIN ways : \A v \in DOMAIN ways : ways[w].last <= ways[v].last}
           L == {ways[w].last : w \in DOMAIN ways}
<1>1. s \in Sets(u) /\ n \in Nat \ {0}
  BY AddressFacts, CacheAssumption
<1>2. ways \in [Ways(u) -> Way] /\ c.nextFree[s] \in 0 .. n
  BY <1>1 DEF UnitType
<1> HIDE DEF s, ways, n
<1>3. DOMAIN ways = 1 .. n /\ 1 \in DOMAIN ways
  BY <1>1, <1>2 DEF Ways, n
<1>4. \A w \in DOMAIN ways : ways[w].last \in Nat
  BY <1>2 DEF Way
<1>5. L \subseteq Nat /\ L # {}
  BY <1>3, <1>4
<1>6. PICK m \in L : \A y \in L : m <= y
  <2> HIDE DEF L
  <2> QED BY <1>5, NatMin
<1>7. T \subseteq 1 .. n /\ T # {}
  BY <1>3, <1>6
<1>8. Max(T) \in T
  <2> HIDE DEF T
  <2> QED BY <1>1, <1>7, MaxOf
<1>9. EvictEntry(u, c, a) = IF c.nextFree[s] < n THEN c.nextFree[s] + 1 ELSE Max(T)
  BY DEF EvictEntry, s, ways, n
<1>10. Max(T) \in 1 .. n /\ \A w \in 1 .. n : ways[Max(T)].last <= ways[w].last
  BY <1>8, <1>3
<1> HIDE DEF T
<1> QED
  BY <1>1, <1>2, <1>9, <1>10 DEF Ways, s, ways, n

\* An access uses one of the ways of its set.
LEMMA UsedFacts ==
  ASSUME NEW u \in Units, NEW c \in UnitType(u), NEW a \in Nat
  PROVE  /\ Used(u, c, a) \in Ways(u)
         /\ Hit(u, c, a) => c.table[SetIndex(u, a)][Used(u, c, a)].line = a
<1> DEFINE s == SetIndex(u, a)
           T == Entries(u, c, a)
<1>1. s \in Sets(u) /\ NumWays[u] \in Nat \ {0}
  BY AddressFacts, CacheAssumption
<1>2. c.table[s] \in [Ways(u) -> Way]
  BY <1>1 DEF UnitType
<1>3. CASE Hit(u, c, a)
  <2>1. T \subseteq Nat /\ T \subseteq Ways(u) /\ \A w \in T : c.table[s][w].line = a
    BY <1>1, <1>2 DEF Entries, Ways
  <2>2. T # {}
    BY <1>3 DEF Hit
  <2> HIDE DEF T
  <2>3. Min(T) \in T
    BY <2>1, <2>2, MinOf
  <2> QED
    BY <2>1, <2>3, <1>3 DEF Used, T
<1>4. CASE ~Hit(u, c, a)
  BY <1>4, EvictFacts DEF Used
<1> QED
  BY <1>3, <1>4

\* What Touch makes of the table and of the next free ways.
TouchedFree(u, c, a) ==
  [c.nextFree EXCEPT ![SetIndex(u, a)] =
     IF ~Hit(u, c, a) /\ c.nextFree[SetIndex(u, a)] < NumWays[u]
     THEN c.nextFree[SetIndex(u, a)] + 1 ELSE c.nextFree[SetIndex(u, a)]]
TouchedTable(u, c, a) ==
  [c.table EXCEPT ![SetIndex(u, a)] =
     [c.table[SetIndex(u, a)] EXCEPT ![Used(u, c, a)] =
        [line |-> IF Hit(u, c, a) THEN a ELSE CachelineAddress(a),
         last |-> (c.clock + 1) % AccessModulus]]]

\* An access changes the table and the next free way of its set as stated
\* above, moves the clock on, and keeps the type of the cache.
LEMMA TouchFacts ==
  ASSUME NEW u \in Units, NEW c \in UnitType(u), NEW a \in Nat
  PROVE  /\ Touch(u, c, a) \in UnitType(u)
         /\ Touch(u, c, a).misses = c.misses
         /\ Touch(u, c, a).loads = c.loads
         /\ Touch(u, c, a).clock = c.clock + 1
         /\ Touch(u, c, a).nextFree = TouchedFree(u, c, a)
         /\ Touch(u, c, a).table = TouchedTable(u, c, a)
<1> DEFINE s == SetIndex(u, a)
           w == Used(u, c, a)
           t == Touch(u, c, a)
           hit == Hit(u, c, a)
           line == IF hit THEN c.table[s][w].line ELSE CachelineAddress(a)
           e == [line |-> line, last |-> (c.clock + 1) % AccessModulus]
           nf == IF ~hit /\ c.nextFree[s] < NumWays[u] THEN c.nextFree[s] + 1 ELSE c.nextFree[s]
           row == [c.table[s] EXCEPT ![w] = e]
           r == [table |-> [c.table EXCEPT ![s] = row], 
                 nextFree |-> [c.nextFree EXCEPT ![s] = nf],
                 clock |-> c.clock + 1, misses |-> c.misses, loads |-> c.loads, stores |-> c.stores]
<1>1. s \in Sets(u) /\ NumWays[u] \in Nat \ {0} /\ w \in Ways(u) /\ CachelineAddress(a) \in Nat
  BY AddressFacts, UsedFacts, CacheAssumption
<1>2. /\ c.table \in [Sets(u) -> [Ways(u) -> Way]]
      /\ c.nextFree \in [Sets(u) -> 0 .. NumWays[u]]
      /\ c.clock \in Nat /\ c.misses \in Nat /\ c.loads \in Nat /\ c.stores \in Nat
      /\ c = [table |-> c.table, nextFree |-> c.nextFree, clock |-> c.clock,
              misses |-> c.misses, loads |-> c.loads, stores |-> c.stores]
  BY DEF UnitType
<1>3. t = [c EXCEPT !.clock = @ + 1,
                    !.nextFree[s] = IF ~hit /\ c.nextFree[s] < NumWays[u] THEN @ + 1 ELSE @,
                    !.table[s][w] = e]
  BY DEF Touch, Used
<1> HIDE DEF s, w, hit, t
<1>4. line = IF hit THEN a ELSE CachelineAddress(a)
  BY UsedFacts DEF s, w, hit
<1>5. e \in Way /\ nf \in 0 .. NumWays[u]
  <2>1. (c.clock + 1) % AccessModulus \in Nat
    BY <1>2, CacheAssumption
  <2> QED
    BY <1>1, <1>2, <1>4, <2>1 DEF Way
<1> HIDE DEF e, line
<1>6. t = r
  BY <1>1, <1>2, <1>3
<1>7. row \in [Ways(u) -> Way]
  BY <1>1, <1>2, <1>5
<1> HIDE DEF row, nf
<1>8. r \in UnitType(u)
  BY <1>1, <1>2, <1>5, <1>7 DEF UnitType
<1>9. t \in UnitType(u) /\ t.misses = c.misses /\ t.loads = c.loads /\ t.stores = c.stores
      /\ t.clock = c.clock + 1 /\ t.nextFree = [c.nextFree EXCEPT ![s] = nf]
      /\ t.table = [c.table EXCEPT ![s] = row]
  BY <1>6, <1>8
<1> HIDE DEF r
<1> QED
  BY <1>9, <1>4 DEF nf, row, e, line, s, w, t, hit, TouchedFree, TouchedTable

\* All caches have their type.
UnitsOK(us) == /\ us = [u \in Units |-> us[u]]
               /\ \A u \in Units : us[u] \in UnitType(u)

\* A level of the hierarchy takes part in a load exactly if all the levels
\* before it miss.
LEMMA AnswersFacts ==
  ASSUME NEW us, NEW chain \in Seq(Units), NEW a, NEW k \in 1 .. Len(chain)
  PROVE  k <= Answers(us, chain, a)
           <=> \A j \in 1 .. (k - 1) : ~Hit(chain[j], us[chain[j]], a)
<1> DEFINE H(j) == Hit(chain[j], us[chain[j]], a)
           T == {j \in DOMAIN chain : H(j)} \cup {Len(chain) + 1}
<1>1. Len(chain) \in Nat /\ DOMAIN chain = 1 .. Len(chain)
  OBVIOUS
<1>2. Answers(us, chain, a) = Min(T)
  BY DEF Answers
<1> HIDE DEF H
<1>3. T \subseteq Nat /\ T # {}
  BY <1>1
<1>4. Min(T) \in T /\ \A y \in T : Min(T) <= y
  <2> HIDE DEF T
  <2> QED BY <1>3, MinOf
<1>5. ASSUME k <= Min(T), NEW j \in 1 .. (k - 1) PROVE ~H(j)
  <2>1. j \in DOMAIN chain /\ ~(Min(T) <= j)
    BY <1>1, <1>3, <1>4, <1>5
  <2> QED
    BY <2>1, <1>4
<1>6. ASSUME \A j \in 1 .. (k - 1) : ~H(j) PROVE k <= Min(T)
  <2>1. ASSUME NEW y \in T PROVE k <= y
    BY <1>1, <1>6
  <2> QED
    BY <2>1, <1>4
<1> QED
  BY <1>2, <1>5, <1>6 DEF H

\* The units a load through the cache top asks.
Asked(us, top, caches, a, u) ==
  \/ u = top
  \/ u = "L2" /\ "L2" \in caches /\ ~Hit(top, us[top], a)
  \/ /\ u = "L3" /\ "L3" \in caches /\ ~Hit(top, us[top], a)
     /\ "L2" \in caches => ~Hit("L2", us["L2"], a)

\* Short sequences put together.
LEMMA TwoOf ==
  ASSUME NEW x, NEW y
  PROVE  <<x>> \o <<y>> = <<x, y>>
<1> DEFINE S == {x, y}
           l == <<x>>
           m == <<y>>
<1>1. l \in Seq(S) /\ m \in Seq(S) /\ Len(l) = 1 /\ Len(m) = 1 /\ l[1] = x /\ m[1] = y
  OBVIOUS
<1> DEFINE k == l \o m
           t == <<x, y>>
<1> HIDE DEF l, m, S, t
<1>2. /\ k \in Seq(S) /\ Len(k) = Len(l) + Len(m)
      /\ \A i \in 1 .. Len(l) + Len(m) : k[i] = IF i <= Len(l) THEN l[i] ELSE m[i - Len(l)]
  BY <1>1, ConcatProperties
<1> HIDE DEF k
<1>3. Len(k) = 2 /\ k[1] = x /\ k[2] = y
  BY <1>1, <1>2
<1>4. t \in Seq(S) /\ Len(t) = 2 /\ t[1] = x /\ t[2] = y
  BY DEF S, t
<1>5. \A i \in 1 .. Len(k) : k[i] = t[i]
  BY <1>3, <1>4
<1>6. k = t
  BY <1>2, <1>3, <1>4, <1>5, SeqEqual
<1> QED
  BY <1>6 DEF k, l, m, t

\* The same for three elements and for none.
LEMMA ThreeOf ==
  ASSUME NEW x, NEW y, NEW z
  PROVE  /\ <<x, y>> \o <<z>> = <<x, y, z>>
         /\ <<x, y>> \o <<>> = <<x, y>>
         /\ <<x>> \o <<>> = <<x>>
<1> DEFINE S == {x, y, z}
           l == <<x, y>>
           m == <<z>>
<1>1. l \in Seq(S) /\ m \in Seq(S) /\ Len(l) = 2 /\ Len(m) = 1 /\ l[1] = x /\ l[2] = y
      /\ m[1] = z /\ <<x>> \in Seq(S)
  OBVIOUS
<1> DEFINE k == l \o m
           t == <<x, y, z>>
<1> HIDE DEF l, m, S, t
<1>2. /\ k \in Seq(S) /\ Len(k) = Len(l) + Len(m)
      /\ \A i \in 1 .. Len(l) + Len(m) : k[i] = IF i <= Len(l) THEN l[i] ELSE m[i - Len(l)]
  BY <1>1, ConcatProperties
<1> HIDE DEF k
<1>3. Len(k) = 3 /\ k[1] = x /\ k[2] = y /\ k[3] = z
  BY <1>1, <1>2
<1>4. t \in Seq(S) /\ Len(t) = 3 /\ t[1] = x /\ t[2] = y /\ t[3] = z
  BY DEF S, t
<1>5. \A i \in 1 .. Len(k) : k[i] = t[i]
  BY <1>3, <1>4
<1>6. k = t
  BY <1>2, <1>3, <1>4, <1>5, SeqEqual
<1>7. l \o <<>> = l /\ <<x>> \o <<>> = <<x>>
  BY <1>1, ConcatEmptySeq
<1> QED
  BY <1>6, <1>7 DEF k, l, m, t

\* The four shapes of a cache hierarchy: with and without L2 and L3.
LEMMA ChainCases ==
  ASSUME NEW caches, NEW top \in caches
  PROVE  Chain(top, caches) =
           IF "L2" \in caches
           THEN IF "L3" \in caches THEN <<top, "L2", "L3">> ELSE <<top, "L2">>
           ELSE IF "L3" \in caches THEN <<top, "L3">> ELSE <<top>>
<1>1. Level(top, caches) = <<top>>
  BY DEF Level
<1>2. "L2" \in caches => Level("L2", caches) = <<"L2">>
  BY DEF Level
<1>3. "L2" \notin caches => Level("L2", caches) = <<>>
  BY DEF Level
<1>4. "L3" \in caches => Level("L3", caches) = <<"L3">>
  BY DEF Level
<1>5. "L3" \notin caches => Level("L3", caches) = <<>>
  BY DEF Level
<1>6. /\ <<top>> \o <<"L2">> = <<top, "L2">>
      /\ <<top>> \o <<"L3">> = <<top, "L3">>
  BY TwoOf
<1>7. /\ <<top, "L2">> \o <<"L3">> = <<top, "L2", "L3">>
      /\ <<top, "L2">> \o <<>> = <<top, "L2">>
      /\ <<top>> \o <<>> = <<top>>
  BY ThreeOf
<1> QED
  BY <1>1, <1>2, <1>3, <1>4, <1>5, <1>6, <1>7 DEF Chain

\* The levels that take part in a load are those Asked names.
LEMMA LoadAsks ==
  ASSUME NEW us, NEW caches, NEW top \in caches, top \in {"L1I", "L1D"}, NEW a,
         NEW u \in Units
  PROVE  LET chain == Chain(top, caches)
         IN  (\E k \in DOMAIN chain : chain[k] = u /\ k <= Answers(us, chain, a))
               <=> Asked(us, top, caches, a, u)
<1> DEFINE chain == Chain(top, caches)
           H(v) == Hit(v, us[v], a)
           last == Answers(us, chain, a)
<1>1. chain \in Seq(Units)
  BY ChainType DEF Units
<1> HIDE DEF chain, H, last
<1>2. \A k \in 1 .. Len(chain) : k <= last <=> \A j \in 1 .. (k - 1) : ~H(chain[j])
  BY <1>1, AnswersFacts DEF H, last
<1>3. Asked(us, top, caches, a, u) <=>
        \/ u = top
        \/ u = "L2" /\ "L2" \in caches /\ ~H(top)
        \/ u = "L3" /\ "L3" \in caches /\ ~H(top) /\ ("L2" \in caches => ~H("L2"))
  BY DEF Asked, H
<1>4. (\E k \in DOMAIN chain : chain[k] = u /\ k <= last) <=>
        \/ u = top
        \/ u = "L2" /\ "L2" \in caches /\ ~H(top)
        \/ u = "L3" /\ "L3" \in caches /\ ~H(top) /\ ("L2" \in caches => ~H("L2"))
  <2>1. CASE "L2" \in caches /\ "L3" \in caches
    <3>1. chain = <<top, "L2", "L3">>
      BY <2>1, ChainCases DEF chain
    <3>2. /\ 1 <= last
          /\ 2 <= last <=> ~H(top)
          /\ 3 <= last <=> ~H(top) /\ ~H("L2")
      BY <1>2, <3>1
    <3> QED
      BY <2>1, <3>1, <3>2
  <2>2. CASE "L2" \in caches /\ "L3" \notin caches
    <3>1. chain = <<top, "L2">>
      BY <2>2, ChainCases DEF chain
    <3>2. /\ 1 <= last
          /\ 2 <= last <=> ~H(top)
      BY <1>2, <3>1
    <3> QED
      BY <2>2, <3>1, <3>2
  <2>3. CASE "L2" \notin caches /\ "L3" \in caches
    <3>1. chain = <<top, "L3">>
      BY <2>3, ChainCases DEF chain
    <3>2. /\ 1 <= last
          /\ 2 <= last <=> ~H(top)
      BY <1>2, <3>1
    <3> QED
      BY <2>3, <3>1, <3>2
  <2>4. CASE "L2" \notin caches /\ "L3" \notin caches
    <3>1. chain = <<top>>
      BY <2>4, ChainCases DEF chain
    <3>2. 1 <= last
      BY <1>2, <3>1
    <3> QED
      BY <2>4, <3>1, <3>2
  <2> QED
    BY <2>1, <2>2, <2>3, <2>4
<1> QED
  BY <1>3, <1>4 DEF chain, last

\* What a load changes in each cache.
LEMMA LoadFacts ==
  ASSUME NEW us, UnitsOK(us), NEW caches, NEW top \in caches,
         top \in {"L1I", "L1D"}, NEW a \in Nat
  PROVE  LET new == Load(us, Chain(top, caches), a)
         IN  /\ UnitsOK(new)
             /\ \A u \in Units :
                  IF Asked(us, top, caches, a, u)
                  THEN /\ new[u].loads = us[u].loads + 1
                       /\ new[u].misses = IF Hit(u, us[u], a) THEN us[u].misses
                                                             ELSE us[u].misses + 1
                       /\ new[u].table = Touch(u, us[u], a).table
                       /\ new[u].nextFree = Touch(u, us[u], a).nextFree
                       /\ new[u].clock = us[u].clock + 1
                  ELSE new[u] = us[u]
<1> DEFINE new == Load(us, Chain(top, caches), a)
<1>1. DOMAIN us = Units
  BY DEF UnitsOK
<1>2. new = [u \in Units |->
               IF \E k \in DOMAIN Chain(top, caches) :
                    Chain(top, caches)[k] = u /\ k <= Answers(us, Chain(top, caches), a)
               THEN [Touch(u, us[u], a) EXCEPT
                       !.loads = @ + 1,
                       !.misses = IF Hit(u, us[u], a) THEN @ ELSE @ + 1]
               ELSE us[u]]
  BY <1>1 DEF Load
<1>3. ASSUME NEW u \in Units
      PROVE  new[u] = IF Asked(us, top, caches, a, u)
                      THEN [Touch(u, us[u], a) EXCEPT
                              !.loads = @ + 1,
                              !.misses = IF Hit(u, us[u], a) THEN @ ELSE @ + 1]
                      ELSE us[u]
  BY <1>2, LoadAsks
<1> HIDE DEF new
<1>4. ASSUME NEW u \in Units, Asked(us, top, caches, a, u)
      PROVE  /\ new[u] \in UnitType(u)
             /\ new[u].loads = us[u].loads + 1
             /\ new[u].misses = IF Hit(u, us[u], a) THEN us[u].misses
                                                   ELSE us[u].misses + 1
             /\ new[u].table = Touch(u, us[u], a).table
             /\ new[u].nextFree = Touch(u, us[u], a).nextFree
             /\ new[u].clock = us[u].clock + 1
  <2> DEFINE t == Touch(u, us[u], a)
  <2>1. us[u] \in UnitType(u)
    BY DEF UnitsOK
  <2>2. t \in UnitType(u) /\ t.loads = us[u].loads /\ t.misses = us[u].misses
        /\ t.clock = us[u].clock + 1
    BY <2>1, TouchFacts
  <2>3. new[u] = [t EXCEPT !.loads = @ + 1,
                           !.misses = IF Hit(u, us[u], a) THEN @ ELSE @ + 1]
    BY <1>3, <1>4
  <2> HIDE DEF t
  <2>4. new[u] = [table |-> t.table, nextFree |-> t.nextFree, clock |-> t.clock,
                  misses |-> IF Hit(u, us[u], a) THEN t.misses ELSE t.misses + 1,
                  loads |-> t.loads + 1, stores |-> t.stores]
    BY <2>2, <2>3 DEF UnitType
  <2> QED
    BY <2>2, <2>4 DEF UnitType, t
<1>5. UnitsOK(new)
  <2>1. \A u \in Units : new[u] \in UnitType(u)
    BY <1>3, <1>4 DEF UnitsOK
  <2>2. new = [u \in Units |-> new[u]]
    BY <1>2
  <2> QED
    BY <2>1, <2>2 DEF UnitsOK
<1> QED
  BY <1>3, <1>4, <1>5 DEF new

\* A store touches the caches of its hierarchy and counts neither as a load
\* nor as a miss.
LEMMA StoreFacts ==
  ASSUME NEW us, UnitsOK(us), NEW caches, NEW top \in caches,
         top \in {"L1I", "L1D"}, NEW a \in Nat
  PROVE  LET new == Store(us, Chain(top, caches), a)
         IN  /\ UnitsOK(new)
             /\ \A u \in Units : /\ new[u].loads = us[u].loads
                                  /\ new[u].misses = us[u].misses
             /\ \A u \in Units \ {top, "L2", "L3"} : new[u] = us[u]
<1> DEFINE chain == Chain(top, caches)
           new == Store(us, chain, a)
<1>1. DOMAIN us = Units /\ chain \in Seq(Units)
  BY ChainType DEF UnitsOK, Units
<1>2. new = [u \in Units |->
               IF \E k \in DOMAIN chain : chain[k] = u
               THEN [Touch(u, us[u], a) EXCEPT !.stores = @ + 1]
               ELSE us[u]]
  BY <1>1 DEF Store
<1>3. \A k \in DOMAIN chain : chain[k] \in {top, "L2", "L3"}
  BY ChainCases
<1> HIDE DEF new, chain
<1>4. ASSUME NEW u \in Units
      PROVE  /\ new[u] \in UnitType(u)
             /\ new[u].loads = us[u].loads
             /\ new[u].misses = us[u].misses
             /\ u \notin {top, "L2", "L3"} => new[u] = us[u]
  <2> DEFINE t == Touch(u, us[u], a)
  <2>1. us[u] \in UnitType(u)
    BY DEF UnitsOK
  <2>2. t \in UnitType(u) /\ t.loads = us[u].loads /\ t.misses = us[u].misses
    BY <2>1, TouchFacts
  <2>3. new[u] = IF \E k \in DOMAIN chain : chain[k] = u
                 THEN [t EXCEPT !.stores = @ + 1] ELSE us[u]
    BY <1>2
  <2> HIDE DEF t
  <2>4. [t EXCEPT !.stores = @ + 1] =
          [table |-> t.table, nextFree |-> t.nextFree, clock |-> t.clock,
           misses |-> t.misses, loads |-> t.loads, stores |-> t.stores + 1]
    BY <2>2 DEF UnitType
  <2>5. [t EXCEPT !.stores = @ + 1] \in UnitType(u)
    BY <2>2, <2>4 DEF UnitType
  <2> QED
    BY <2>1, <2>2, <2>3, <2>4, <2>5, <1>3
<1>5. new = [u \in Units |-> new[u]]
  BY <1>2
<1> QED
  BY <1>4, <1>5 DEF UnitsOK, new, chain

\* The inductive invariant of the caches.
CInv == /\ cfg \in Configs
        /\ UnitsOK(units)
        /\ MissesGoDown

\* An empty cache has its type and has not been asked.
LEMMA NewUnitType ==
  ASSUME NEW u \in Units
  PROVE  NewUnit(u) \in UnitType(u) /\ NewUnit(u).loads = 0 /\ NewUnit(u).misses = 0
<1>1. NumSets[u] \in Nat \ {0} /\ NumWays[u] \in Nat \ {0}
  BY CacheAssumption
<1> QED
  BY <1>1 DEF NewUnit, UnitType, Sets, Ways, Way

\* The empty caches satisfy the invariant.
LEMMA CacheInit == Init => CInv
<1> SUFFICES ASSUME Init PROVE CInv
  OBVIOUS
<1>1. UnitsOK(units)
  BY NewUnitType DEF Init, UnitsOK
<1>2. \A u \in Units : units[u].loads = 0 /\ units[u].misses = 0
  BY NewUnitType DEF Init
<1>3. MissesGoDown
  BY <1>2 DEF MissesGoDown, Units
<1> QED
  BY <1>1, <1>3 DEF CInv, Init

\* A load of either hierarchy keeps the invariant.
LEMMA LoadKeeps ==
  ASSUME CInv, NEW top \in cfg.caches, top \in {"L1I", "L1D"}, NEW a \in Nat,
         units' = Load(units, Chain(top, cfg.caches), a), cfg' = cfg
  PROVE  CInv'
<1>1. UnitsOK(units) /\ cfg \in Configs
  BY DEF CInv
<1>2. UnitsOK(units')
  BY <1>1, LoadFacts
<1> DEFINE H(u) == Hit(u, units[u], a)
<1> HIDE DEF H
<1>3. \A u \in Units :
        IF Asked(units, top, cfg.caches, a, u)
        THEN /\ units'[u].loads = units[u].loads + 1
             /\ units'[u].misses = IF H(u) THEN units[u].misses ELSE units[u].misses + 1
        ELSE units'[u] = units[u]
  BY <1>1, LoadFacts DEF H
<1>4. \A u \in Units : Asked(units, top, cfg.caches, a, u) <=>
        \/ u = top
        \/ u = "L2" /\ "L2" \in cfg.caches /\ ~H(top)
        \/ /\ u = "L3" /\ "L3" \in cfg.caches /\ ~H(top)
           /\ "L2" \in cfg.caches => ~H("L2")
  BY DEF Asked, H
<1>5. \A u \in Units : units[u].loads \in Nat /\ units[u].misses \in Nat
  BY <1>1 DEF UnitsOK, UnitType
<1>6. MissesGoDown'
  BY <1>3, <1>4, <1>5 DEF CInv, MissesGoDown, Units
<1> QED
  BY <1>1, <1>2, <1>6 DEF CInv

\* A store of the data hierarchy keeps the invariant.
LEMMA StoreKeeps ==
  ASSUME CInv, NEW a \in Nat, "L1D" \in cfg.caches,
         units' = Store(units, Chain("L1D", cfg.caches), a), cfg' = cfg
  PROVE  CInv'
<1>1. UnitsOK(units) /\ cfg \in Configs
  BY DEF CInv
<1>2. UnitsOK(units') /\ \A u \in Units : /\ units'[u].loads = units[u].loads
                                          /\ units'[u].misses = units[u].misses
  BY <1>1, StoreFacts
<1>3. MissesGoDown'
  BY <1>2 DEF CInv, MissesGoDown, Units
<1> QED
  BY <1>1, <1>2, <1>3 DEF CInv

\* Every step keeps the invariant of the caches.
LEMMA CacheStep == CInv /\ [Next]_vars => CInv'
<1> SUFFICES ASSUME CInv, [Next]_vars PROVE CInv'
  OBVIOUS
<1>1. ASSUME NEW i \in Insts, Execute(i) PROVE CInv'
  <2>1. i.addr \in Nat /\ cfg' = cfg
    BY <1>1, StageAssumption DEF Execute
  <2>2. CASE Fetches(i)
    <3>1. "L1I" \in cfg.caches /\ units' = Load(units, Chain("L1I", cfg.caches), i.addr)
      BY <1>1, <2>2 DEF Execute, Fetches, L1IChain
    <3> QED
      BY <2>1, <3>1, LoadKeeps
  <2>3. CASE ~Fetches(i)
    BY <1>1, <2>1, <2>3 DEF Execute, CInv, MissesGoDown
  <2> QED
    BY <2>2, <2>3
<1>2. ASSUME NEW r \in 0 .. DispatchWidth, CycleStart(r) PROVE CInv'
  BY <1>2 DEF CycleStart, CInv, MissesGoDown
<1>3. ASSUME NEW a \in DataAddr, NEW isStore \in BOOLEAN, DataAccess(a, isStore) PROVE CInv'
  <2>1. a \in Nat /\ cfg' = cfg /\ "L1D" \in cfg.caches
    BY <1>3, StageAssumption DEF DataAccess
  <2>2. CASE isStore
    <3>1. units' = Store(units, Chain("L1D", cfg.caches), a)
      BY <1>3, <2>2 DEF DataAccess
    <3> QED
      BY <2>1, <3>1, StoreKeeps
  <2>3. CASE ~isStore
    <3>1. units' = Load(units, Chain("L1D", cfg.caches), a)
      BY <1>3, <2>3 DEF DataAccess
    <3> QED
      BY <2>1, <3>1, LoadKeeps
  <2> QED
    BY <2>2, <2>3
<1>4. CASE UNCHANGED vars
  BY <1>4 DEF vars, CInv, MissesGoDown
<1> QED
  BY <1>1, <1>2, <1>3, <1>4 DEF Next

\* For every size of the caches and whichever of them are enabled, a lower
\* level is asked for a load exactly once for every miss of the levels above
\* it, although L2 and L3 are shared by instruction fetches and data accesses.
THEOREM MissesAreAskedBelow == Spec => []MissesGoDown
<1>1. CInv => MissesGoDown
  BY DEF CInv
<1> QED
  BY <1>1, CacheInit, CacheStep, PTL DEF Spec

-----------------------------------------------------------------------------
(* The order of use.                                                       *)

\* Quotient and remainder.
LEMMA DivMod == \A a, l \in Int : l > 0 => a = l * (a \div l) + (a % l)
BY Z3

\* A multiple leaves no remainder.
LEMMA MultipleMod ==
  ASSUME NEW q \in Nat, NEW l \in Nat \ {0}
  PROVE  (l * q) % l = 0
OBVIOUS

\* A number below the divisor is its own remainder.
LEMMA SmallMod == \A m \in Nat, n \in Nat \ {0} : m < n => m % n = m
OBVIOUS

\* The address of a line is its own.
LEMMA LineOfLine ==
  ASSUME NEW a \in Nat
  PROVE  CachelineAddress(CachelineAddress(a)) = CachelineAddress(a)
<1> DEFINE q == a \div LineSize
           r == a % LineSize
           b == CachelineAddress(a)
<1>1. LineSize \in Nat \ {0} /\ q \in Nat /\ r \in Nat
  BY CacheAssumption
<1>2. a = LineSize * q + r
  BY <1>1, DivMod
<1>3. b = a - r
  BY DEF CachelineAddress
<1> HIDE DEF q, r, b
<1>4. b = LineSize * q /\ b \in Nat
  BY <1>1, <1>2, <1>3
<1>5. b % LineSize = 0
  BY <1>1, <1>4, MultipleMod
<1>6. CachelineAddress(b) = b
  BY <1>4, <1>5 DEF CachelineAddress
<1> QED
  BY <1>6 DEF b

\* The accesses f to set s of the instruction cache c, ordered by pos: by way
\* the number of the access that used it last.  A line that was asked for is
\* in a way used since, or every way has been used since.
Rank(c, f, s, pos) ==
  LET ways == c.table[s]
      W    == Ways("L1I")
  IN  /\ pos \in [W -> 0 .. Len(f)]
      /\ \A w, v \in W : w # v /\ pos[w] = pos[v] => pos[w] = 0
      /\ \A w, v \in W : pos[w] < pos[v] => ways[w].last < ways[v].last
      /\ \A w \in W : ways[w].last <= c.clock
      /\ \A w \in W : w <= c.nextFree[s] => pos[w] > 0
      /\ \A w \in W : w > c.nextFree[s] => ways[w].line = 0
      /\ \A w \in W : CachelineAddress(ways[w].line) = ways[w].line
      /\ \A k \in 1 .. Len(f) : f[k] # 0 =>
            \/ \E w \in W : ways[w].line = f[k] /\ pos[w] >= k
            \/ \A w \in W : pos[w] > k

\* The inductive invariant of the order of use: as long as the clock fits into
\* lastAccess.
RInv ==
  /\ cfg \in Configs
  /\ UnitsOK(units)
  /\ fetched \in [Sets("L1I") -> Seq(Nat)]
  /\ units["L1I"].clock < AccessModulus =>
       \A s \in Sets("L1I") : \E pos : Rank(units["L1I"], fetched[s], s, pos)

\* Of the accesses f, the lines of the last NumWays are in the ways of set s.
RecentIn(c, f, s) ==
  \A k \in 1 .. Len(f) : k + NumWays["L1I"] > Len(f) /\ f[k] # 0 =>
    \E w \in Ways("L1I") : c.table[s][w].line = f[k]

\* If every way had been used since one of the last NumWays accesses, two ways
\* would have been used last by the same access.
LEMMA RankImplies ==
  ASSUME NEW c, NEW f \in Seq(Nat), NEW s, NEW pos, Rank(c, f, s, pos)
  PROVE  RecentIn(c, f, s)
<1> SUFFICES ASSUME NEW k \in 1 .. Len(f), k + NumWays["L1I"] > Len(f), f[k] # 0
             PROVE  \E w \in Ways("L1I") : c.table[s][w].line = f[k]
  BY DEF RecentIn
<1> DEFINE W == Ways("L1I")
           N == NumWays["L1I"]
           T == (k + 1) .. Len(f)
<1>1. N \in Nat \ {0} /\ Len(f) \in Nat
  BY CacheAssumption DEF Units
<1>2. CASE \A w \in W : pos[w] > k
  <2>1. pos \in [W -> T]
    <3>1. pos \in [W -> 0 .. Len(f)]
      BY DEF Rank
    <3>2. ASSUME NEW w \in W PROVE pos[w] \in T
      BY <1>1, <1>2, <3>1
    <3> HIDE DEF T, W
    <3> QED
      BY <3>1, <3>2
  <2>2. IsFiniteSet(W) /\ Cardinality(W) = N
    <3>0. 1 \in Int /\ N \in Int
      BY <1>1
    <3>1. IsFiniteSet(1 .. N) /\ Cardinality(1 .. N) = IF 1 > N THEN 0 ELSE N - 1 + 1
      BY <3>0, FS_Interval, Zenon
    <3> QED
      BY <1>1, <3>1 DEF Ways
  <2>3. IsFiniteSet(T) /\ Cardinality(T) = IF k + 1 > Len(f) THEN 0 ELSE Len(f) - (k + 1) + 1
    <3>1. k + 1 \in Int /\ Len(f) \in Int
      BY <1>1
    <3> QED
      BY <3>1, FS_Interval, Zenon
  <2>4. Cardinality(T) < Cardinality(W)
    BY <1>1, <2>2, <2>3
  <2> HIDE DEF T
  <2>5. PICK x, y \in W : x # y /\ pos[x] = pos[y]
    <3> HIDE DEF W
    <3> QED BY <2>1, <2>2, <2>3, <2>4, FS_PigeonHole
  <2>6. pos[x] = 0
    BY <2>5 DEF Rank
  <2> QED
    BY <2>6, <1>1, <1>2
<1>3. CASE ~ \A w \in W : pos[w] > k
  BY <1>3 DEF Rank
<1> QED
  BY <1>2, <1>3

\* The accesses to another set change only the clock.
LEMMA RankOther ==
  ASSUME NEW c \in UnitType("L1I"), NEW d, NEW f \in Seq(Nat), NEW s \in Sets("L1I"),
         NEW pos, Rank(c, f, s, pos), d.clock = c.clock + 1,
         d.table[s] = c.table[s], d.nextFree[s] = c.nextFree[s]
  PROVE  Rank(d, f, s, pos)
<1>1. c.clock \in Nat /\ c.table[s] \in [Ways("L1I") -> Way]
  BY DEF UnitType
<1>2. \A w \in Ways("L1I") : c.table[s][w].last <= d.clock
  <2>1. \A w \in Ways("L1I") : c.table[s][w].last \in Nat
    BY <1>1 DEF Way
  <2> QED
    BY <1>1, <2>1 DEF Rank
<1> QED
  BY <1>2 DEF Rank

\* An access to the set itself: the way it uses becomes the last one used,
\* and what it evicts was used before all others.
LEMMA RankTouched ==
  ASSUME NEW c \in UnitType("L1I"), NEW d, NEW f \in Seq(Nat), NEW a \in Nat,
         NEW pos, Rank(c, f, SetIndex("L1I", a), pos), d.clock = c.clock + 1,
         d.clock < AccessModulus,
         d.table = TouchedTable("L1I", c, a), d.nextFree = TouchedFree("L1I", c, a)
  PROVE  Rank(d, Append(f, CachelineAddress(a)), SetIndex("L1I", a),
              [pos EXCEPT ![Used("L1I", c, a)] = Len(f) + 1])
<1> DEFINE s == SetIndex("L1I", a)
           W == Ways("L1I")
           N == NumWays["L1I"]
           n == Len(f)
           u == Used("L1I", c, a)
           l == CachelineAddress(a)
           hit == Hit("L1I", c, a)
           old == c.table[s]
           new == d.table[s]
           free == c.nextFree[s]
           g == Append(f, l)
           rank == [pos EXCEPT ![u] = n + 1]
<1>1. /\ s \in Sets("L1I") /\ N \in Nat \ {0} /\ n \in Nat /\ "L1I" \in Units
      /\ u \in W /\ l \in Nat /\ W = 1 .. N
  <2>1. "L1I" \in Units
    BY DEF Units
  <2>2. s \in Sets("L1I") /\ l \in Nat
    BY <2>1, AddressFacts
  <2>3. u \in W
    BY <2>1, UsedFacts
  <2>4. N \in Nat \ {0} /\ W = 1 .. N /\ n \in Nat
    BY <2>1, CacheAssumption DEF Ways
  <2> QED
    BY <2>1, <2>2, <2>3, <2>4
<1>2. /\ old \in [W -> Way] /\ free \in 0 .. N /\ c.clock \in Nat
      /\ c.table \in [Sets("L1I") -> [W -> Way]]
      /\ c.nextFree \in [Sets("L1I") -> 0 .. N]
  BY <1>1 DEF UnitType
<1>3. hit => old[u].line = a
  BY <1>1, UsedFacts
<1>4. /\ ~hit /\ free < N => u = free + 1
      /\ ~hit /\ ~(free < N) => \A w \in W : old[u].last <= old[w].last
  BY <1>1, EvictFacts DEF Used
<1>5. new = [old EXCEPT ![u] = [line |-> IF hit THEN a ELSE l, last |-> c.clock + 1]]
  <2>1. (c.clock + 1) % AccessModulus = c.clock + 1
    <3>1. c.clock + 1 \in Nat /\ c.clock + 1 < AccessModulus /\ AccessModulus \in Nat \ {0}
      BY <1>2, CacheAssumption
    <3> QED BY ONLY <3>1, SmallMod
  <2> QED BY <1>1, <1>2, <2>1 DEF TouchedTable
<1>6. d.nextFree[s] = IF ~hit /\ free < N THEN free + 1 ELSE free
  BY <1>1, <1>2 DEF TouchedFree
<1>7. CachelineAddress(l) = l
  BY LineOfLine
<1> HIDE DEF s, N, u, l, hit, W
<1>8. /\ pos \in [W -> 0 .. n]
      /\ \A w, v \in W : w # v /\ pos[w] = pos[v] => pos[w] = 0
      /\ \A w, v \in W : pos[w] < pos[v] => old[w].last < old[v].last
      /\ \A w \in W : old[w].last <= c.clock
      /\ \A w \in W : w <= free => pos[w] > 0
      /\ \A w \in W : w > free => old[w].line = 0
      /\ \A w \in W : CachelineAddress(old[w].line) = old[w].line
      /\ \A k \in 1 .. n : f[k] # 0 =>
            \/ \E w \in W : old[w].line = f[k] /\ pos[w] >= k
            \/ \A w \in W : pos[w] > k
  BY DEF Rank, W, s
<1> HIDE DEF n, old, new, free, g
<1>9. hit => l = a
  BY <1>1, <1>3, <1>8 DEF l
<1>10. new[u].line = l /\ new[u].last = c.clock + 1
  BY <1>1, <1>2, <1>5, <1>9
<1>11. \A w \in W \ {u} : new[w] = old[w]
  BY <1>2, <1>5
<1>12. g \in Seq(Nat) /\ Len(g) = n + 1 /\ g[n + 1] = l /\ \A k \in 1 .. n : g[k] = f[k]
  BY <1>1 DEF g, n
<1>13. rank \in [W -> 0 .. (n + 1)] /\ rank[u] = n + 1 /\ \A w \in W \ {u} : rank[w] = pos[w]
  BY <1>1, <1>8
<1> HIDE DEF rank
<1>14. \A w \in W : /\ old[w].last \in Nat /\ old[w].line \in Nat
                     /\ pos[w] \in Nat /\ pos[w] <= n /\ w \in Nat
  <2>1. \A w \in W : old[w].last \in Nat /\ old[w].line \in Nat
    BY ONLY <1>2 DEF Way
  <2>2. \A w \in W : pos[w] \in Nat /\ pos[w] <= n /\ w \in Nat
    BY ONLY <1>1, <1>8
  <2> QED BY ONLY <2>1, <2>2
<1>15. ASSUME NEW w \in W, NEW v \in W, w # v, rank[w] = rank[v] PROVE rank[w] = 0
  <2>1. w # u /\ v # u
    <3>1. ASSUME NEW x \in W \ {u} PROVE rank[x] # n + 1
      <4>1. rank[x] = pos[x]
        BY ONLY <1>13, <3>1
      <4>2. pos[x] \in Nat /\ pos[x] <= n /\ n \in Nat
        BY ONLY <1>14, <1>1, <3>1
      <4> QED BY ONLY <4>1, <4>2
    <3> QED BY ONLY <3>1, <1>13, <1>15
  <2> QED
    BY <2>1, <1>8, <1>13, <1>15
<1>16. \A w, v \in W : rank[w] < rank[v] => new[w].last < new[v].last
  <2> SUFFICES ASSUME NEW w \in W, NEW v \in W, rank[w] < rank[v]
               PROVE  new[w].last < new[v].last
    OBVIOUS
  <2>1. w # u
    <3>1. rank[v] <= n + 1 /\ rank[v] \in Nat
      BY <1>1, <1>13
    <3> QED BY <3>1, <1>13, <1>1
  <2>2. CASE v = u
    BY <2>1, <2>2, <1>2, <1>8, <1>10, <1>11, <1>14
  <2>3. CASE v # u
    BY <2>1, <2>3, <1>8, <1>11, <1>13
  <2> QED
    BY <2>2, <2>3
<1>17. ASSUME NEW w \in W PROVE new[w].last <= d.clock
  <2>1. CASE w = u
    BY <2>1, <1>2, <1>10
  <2>2. CASE w # u
    <3>1. new[w].last \in Nat /\ new[w].last <= c.clock
      BY <2>2, <1>8, <1>11, <1>14
    <3> QED BY <3>1, <1>2
  <2> QED BY <2>1, <2>2
<1>18. ASSUME NEW w \in W, w <= d.nextFree[s] PROVE rank[w] > 0
  <2>1. CASE w = u
    BY <2>1, <1>1, <1>13
  <2>2. CASE w # u
    <3>1. w <= free
      BY <2>2, <1>2, <1>4, <1>6, <1>14, <1>18
    <3> QED BY <2>2, <3>1, <1>8, <1>13
  <2> QED BY <2>1, <2>2
<1>19. \A w \in W : w > d.nextFree[s] => new[w].line = 0
  <2> SUFFICES ASSUME NEW w \in W, w > d.nextFree[s] PROVE new[w].line = 0
    OBVIOUS
  <2>1. w > free /\ old[w].line = 0
    BY <1>1, <1>2, <1>6, <1>8
  <2>2. CASE w = u
    <3>1. hit
      BY <1>1, <1>2, <1>4, <1>6, <2>1, <2>2
    <3> QED
      BY <3>1, <1>3, <1>9, <1>10, <2>1, <2>2
  <2>3. CASE w # u
    BY <1>11, <2>1, <2>3
  <2> QED
    BY <2>2, <2>3
<1>20. \A w \in W : CachelineAddress(new[w].line) = new[w].line
  BY <1>7, <1>8, <1>10, <1>11
<1>21. ASSUME NEW k \in 1 .. n + 1, g[k] # 0
       PROVE  \/ \E w \in W : new[w].line = g[k] /\ rank[w] >= k
              \/ \A w \in W : rank[w] > k
  <2>1. CASE k = n + 1
    BY <2>1, <1>1, <1>10, <1>12, <1>13
  <2>2. CASE k # n + 1
    <3>1. k \in 1 .. n /\ g[k] = f[k]
      BY <2>2, <1>1, <1>12
    <3>2. CASE \A w \in W : pos[w] > k
      <4>1. ASSUME NEW w \in W PROVE rank[w] > k
        <5>1. CASE w = u
          BY <5>1, <1>1, <1>13, <3>1
        <5>2. CASE w # u
          BY <5>2, <1>13, <3>2
        <5> QED BY <5>1, <5>2
      <4> QED BY <4>1
    <3>3. CASE \E w \in W : old[w].line = f[k] /\ pos[w] >= k
      <4>1. PICK w \in W : old[w].line = f[k] /\ pos[w] >= k
        BY <3>3
      <4>2. CASE w # u
        <5>1. new[w].line = g[k] /\ rank[w] >= k
          BY <1>11, <1>13, <3>1, <4>1, <4>2
        <5> QED BY <5>1
      <4>3. CASE w = u /\ hit
        <5>1. new[u].line = g[k]
          BY <1>3, <1>9, <1>10, <3>1, <4>1, <4>3
        <5>2. rank[u] >= k
          BY <1>1, <1>13, <3>1
        <5> QED BY <1>1, <5>1, <5>2
      <4>4. CASE w = u /\ ~hit
        <5>1. ~(free < N)
          <6> SUFFICES ASSUME free < N PROVE FALSE
            OBVIOUS
          <6>1. u = free + 1
            BY <1>4, <4>4
          <6>2. old[u].line = 0
            BY <1>1, <1>2, <1>8, <6>1
          <6> QED
            BY <6>2, <4>1, <4>4, <1>21, <3>1
        <5>2. \A v \in W : old[u].last <= old[v].last
          BY <1>4, <4>4, <5>1
        <5>3. ASSUME NEW v \in W, v # u PROVE pos[v] > k
          <6>1. ~(pos[v] < pos[u])
            <7>1. pos[v] < pos[u] => old[v].last < old[u].last
              BY <1>1, <1>8, <5>3
            <7>2. old[u].last <= old[v].last /\ old[u].last \in Nat /\ old[v].last \in Nat
              BY <1>1, <1>14, <5>2, <5>3
            <7> QED BY <7>1, <7>2
          <6>2. pos[u] \in Nat /\ pos[v] \in Nat /\ pos[u] >= k /\ k \in Nat /\ k > 0
            BY <1>1, <1>14, <4>1, <4>4, <3>1
          <6>3. pos[v] # pos[u]
            <7>1. \A x, y \in W : x # y /\ pos[x] = pos[y] => pos[x] = 0
              BY <1>8
            <7>2. v # u /\ pos[v] = pos[u] => pos[v] = 0
              BY <1>1, <5>3, <7>1
            <7> QED
              BY <5>3, <6>2, <7>2
          <6> QED
            BY <6>1, <6>2, <6>3
        <5>4. ASSUME NEW v \in W PROVE rank[v] > k
          <6>1. CASE v = u
            BY <6>1, <1>1, <1>13, <3>1
          <6>2. CASE v # u
            BY <6>2, <1>13, <5>3
          <6> QED BY <6>1, <6>2
        <5> QED BY <5>4
      <4> QED BY <4>2, <4>3, <4>4
    <3> QED
      BY <3>1, <3>2, <3>3, <1>8, <1>21
  <2> QED
    BY <2>1, <2>2
<1> QED
  BY <1>12, <1>13, <1>15, <1>16, <1>17, <1>18, <1>19, <1>20, <1>21
     DEF Rank, W, s, new, g, rank, l, u, n

\* The empty cache satisfies the invariant.
LEMMA ResidentInit == Init => RInv
<1> SUFFICES ASSUME Init PROVE RInv
  OBVIOUS
<1> DEFINE u == "L1I"
           c == units[u]
           pos == [w \in Ways(u) |-> 0]
<1>1. cfg \in Configs /\ UnitsOK(units) /\ u \in Units
  BY NewUnitType DEF Init, UnitsOK, Units
<1>2. fetched = [s \in Sets(u) |-> <<>>]
  BY DEF Init, Sets
<1>3. c = NewUnit(u)
  BY <1>1 DEF Init
<1>4. CachelineAddress(0) = 0
  <2>1. LineSize \in Nat \ {0}
    BY CacheAssumption
  <2>2. 0 % LineSize \in 0 .. 0
    BY <2>1
  <2> QED
    BY <2>2 DEF CachelineAddress
<1>5. ASSUME NEW s \in Sets(u) PROVE Rank(c, fetched[s], s, pos)
  <2>1. /\ c.clock = 0 /\ c.nextFree[s] = 0
        /\ \A w \in Ways(u) : c.table[s][w] = [line |-> 0, last |-> 0]
    BY <1>3 DEF NewUnit, Sets, Ways
  <2>2. fetched[s] = <<>> /\ Len(fetched[s]) = 0
    BY <1>2
  <2>3. \A w \in Ways(u) : w \in Nat /\ w > 0
    BY <1>1, CacheAssumption DEF Ways
  <2>4. pos \in [Ways(u) -> 0 .. Len(fetched[s])] /\ \A w \in Ways(u) : pos[w] = 0
    BY <2>2
  <2> HIDE DEF c, pos
  <2> QED
    BY <1>4, <2>1, <2>2, <2>3, <2>4 DEF Rank
<1>6. fetched \in [Sets(u) -> Seq(Nat)]
  BY <1>2
<1> QED
  BY <1>1, <1>5, <1>6 DEF RInv

\* Fetching an instruction keeps the invariant.
LEMMA ExecuteResident ==
  ASSUME RInv, NEW i \in Insts, Execute(i)
  PROVE  RInv'
<1> DEFINE c == units["L1I"]
           a == i.addr
           q == SetIndex("L1I", a)
<1>1. /\ cfg \in Configs /\ cfg' = cfg /\ a \in Nat /\ UnitsOK(units)
      /\ fetched \in [Sets("L1I") -> Seq(Nat)] /\ "L1I" \in Units
  BY StageAssumption DEF RInv, Execute, Units
<1>2. CASE ~Fetches(i)
  <2>1. UNCHANGED <<units, fetched>>
    BY <1>2 DEF Execute
  <2> QED
    BY <1>1, <2>1 DEF RInv
<1>3. CASE Fetches(i)
  <2>1. /\ "L1I" \in cfg.caches
        /\ units' = Load(units, Chain("L1I", cfg.caches), a)
        /\ fetched' = [fetched EXCEPT ![q] = Append(@, CachelineAddress(a))]
    BY <1>3 DEF Execute, Fetches, L1IChain
  <2>2. Asked(units, "L1I", cfg.caches, a, "L1I")
    BY DEF Asked
  <2> DEFINE d == units'["L1I"]
  <2>3. /\ UnitsOK(units')
        /\ d.table = Touch("L1I", c, a).table
        /\ d.nextFree = Touch("L1I", c, a).nextFree
        /\ d.clock = c.clock + 1
    BY <1>1, <2>1, <2>2, LoadFacts
  <2>4. c \in UnitType("L1I")
    BY <1>1 DEF UnitsOK
  <2>5. d.table = TouchedTable("L1I", c, a) /\ d.nextFree = TouchedFree("L1I", c, a)
    BY <1>1, <2>3, <2>4, TouchFacts
  <2>6. q \in Sets("L1I") /\ CachelineAddress(a) \in Nat
    BY <1>1, AddressFacts
  <2>7. fetched' \in [Sets("L1I") -> Seq(Nat)]
    BY <1>1, <2>1, <2>6
  <2> HIDE DEF c, a, q, d
  <2>8. ASSUME d.clock < AccessModulus, NEW s \in Sets("L1I")
        PROVE  \E pos : Rank(d, fetched'[s], s, pos)
    <3>0. c.clock < AccessModulus
      BY <2>3, <2>4, <2>8, CacheAssumption DEF UnitType
    <3>1. PICK pos : Rank(c, fetched[s], s, pos)
      BY <3>0 DEF RInv, c
    <3>2. fetched[s] \in Seq(Nat)
      BY <1>1
    <3>3. CASE s = q
      <4>1. fetched'[s] = Append(fetched[s], CachelineAddress(a))
        BY <1>1, <2>1, <2>6, <3>3
      <4>2. Rank(c, fetched[s], SetIndex("L1I", a), pos)
        BY <3>1, <3>3 DEF q
      <4>3. Rank(d, Append(fetched[s], CachelineAddress(a)), SetIndex("L1I", a),
                 [pos EXCEPT ![Used("L1I", c, a)] = Len(fetched[s]) + 1])
        BY <1>1, <2>3, <2>4, <2>5, <2>8, <3>2, <4>2, RankTouched
      <4> QED
        BY <3>3, <4>1, <4>3 DEF q
    <3>4. CASE s # q
      <4>1. fetched'[s] = fetched[s]
        BY <1>1, <2>1, <2>6, <3>4
      <4>2. d.table[s] = c.table[s]
        BY <2>4, <2>5, <2>6, <3>4 DEF TouchedTable, UnitType, q
      <4>3. d.nextFree[s] = c.nextFree[s]
        BY <2>4, <2>5, <2>6, <3>4 DEF TouchedFree, UnitType, q
      <4>4. Rank(d, fetched[s], s, pos)
        BY <2>3, <2>4, <3>1, <3>2, <4>2, <4>3, RankOther
      <4> QED
        BY <4>1, <4>4
    <3> QED
      BY <3>3, <3>4
  <2> QED
    BY <1>1, <2>3, <2>7, <2>8 DEF RInv, d
<1> QED
  BY <1>2, <1>3

\* Every step keeps the invariant.
LEMMA ResidentStep == RInv /\ [Next]_vars => RInv'
<1> SUFFICES ASSUME RInv, [Next]_vars PROVE RInv'
  OBVIOUS
<1>1. UnitsOK(units) /\ cfg \in Configs
  BY DEF RInv
<1>2. CASE \E i \in Insts : Execute(i)
  BY <1>2, ExecuteResident
<1>3. CASE \E r \in 0 .. DispatchWidth : CycleStart(r)
  BY <1>3 DEF CycleStart, RInv
<1>4. ASSUME NEW a \in DataAddr, NEW isStore \in BOOLEAN, DataAccess(a, isStore)
      PROVE  RInv'
  <2>1. /\ a \in Nat /\ cfg' = cfg /\ fetched' = fetched
        /\ "L1D" \in cfg.caches /\ "L1I" \in Units
    BY <1>4, StageAssumption DEF DataAccess, Units
  <2>2. UnitsOK(units') /\ units'["L1I"] = units["L1I"]
    <3>1. CASE isStore
      <4>1. units' = Store(units, Chain("L1D", cfg.caches), a)
        BY <1>4, <3>1 DEF DataAccess
      <4>2. "L1I" \in Units \ {"L1D", "L2", "L3"}
        BY DEF Units
      <4> DEFINE new == units'
      <4>3. new = Store(units, Chain("L1D", cfg.caches), a)
        BY <4>1
      <4> HIDE DEF new
      <4>4. UnitsOK(new)
        BY <1>1, <2>1, <4>3, StoreFacts
      <4>5. \A u \in Units \ {"L1D", "L2", "L3"} : new[u] = units[u]
        BY <1>1, <2>1, <4>3, StoreFacts
      <4> QED
        BY <4>2, <4>4, <4>5 DEF new
    <3>2. CASE ~isStore
      <4>1. units' = Load(units, Chain("L1D", cfg.caches), a)
        BY <1>4, <3>2 DEF DataAccess
      <4>2. ~Asked(units, "L1D", cfg.caches, a, "L1I")
        BY DEF Asked
      <4> DEFINE new == units'
      <4>0. new = Load(units, Chain("L1D", cfg.caches), a)
        BY <4>1
      <4> HIDE DEF new
      <4>3. UnitsOK(new)
        BY <1>1, <2>1, <4>0, LoadFacts
      <4>4. \A u \in Units : ~Asked(units, "L1D", cfg.caches, a, u) => new[u] = units[u]
        BY <1>1, <2>1, <4>0, LoadFacts
      <4> QED
        BY <2>1, <4>2, <4>3, <4>4 DEF new
    <3> QED
      BY <3>1, <3>2
  <2> QED
    BY <2>1, <2>2 DEF RInv
<1>5. CASE UNCHANGED vars
  BY <1>5 DEF vars, RInv
<1> QED
  BY <1>2, <1>3, <1>4, <1>5 DEF Next

\* For every number of sets and ways, every width of lastAccess and every
\* program, the lines of the last NumWays accesses to a set of the instruction
\* cache are in it (line 0 apart) until lastAccess wraps: the clock and
\* evictEntry implement least recently used replacement.
THEOREM LinesStayResident == Spec => []RecentLinesResident
<1>1. RInv => RecentLinesResident
  <2> SUFFICES ASSUME RInv, units["L1I"].clock < AccessModulus,
                      NEW s \in DOMAIN fetched, NEW k \in DOMAIN fetched[s],
                      k + NumWays["L1I"] > Len(fetched[s]), fetched[s][k] # 0
               PROVE  \E w \in 1 .. NumWays["L1I"] :
                        units["L1I"].table[s][w].line = fetched[s][k]
    BY DEF RecentLinesResident
  <2>1. s \in Sets("L1I") /\ fetched[s] \in Seq(Nat)
    BY DEF RInv
  <2>2. k \in 1 .. Len(fetched[s])
    BY <2>1
  <2>3. PICK pos : Rank(units["L1I"], fetched[s], s, pos)
    BY <2>1 DEF RInv
  <2>4. RecentIn(units["L1I"], fetched[s], s)
    BY <2>1, <2>3, RankImplies
  <2> QED
    BY <2>2, <2>4 DEF RecentIn, Ways
<1> QED
  BY <1>1, ResidentInit, ResidentStep, PTL DEF Spec

===============================================================================
