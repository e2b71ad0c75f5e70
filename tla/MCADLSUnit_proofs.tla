--------------------------- MODULE MCADLSUnit_proofs ---------------------------
(***************************************************************************)
(* Proofs about MCADLSUnit: type correctness, the assertion of             *)
(* getCustomGroup, and the order of stores, for every number and kind of   *)
(* instructions; on top of the same invariant, that the queues are         *)
(* accounted for, loads stay behind load barriers, load barriers behind    *)
(* the loads since the last store, the assertions of LLVM's MemoryGroup    *)
(* hold, and without knowledge about aliasing every instruction waits for  *)
(* the stores and load barriers before it.  And about the ranges of memory *)
(* accesses that stand for bundles of them.                                *)
(***************************************************************************)
EXTENDS MCADLSUnit, MDMemoryAccess, FiniteSetTheorems, TLAPS

-----------------------------------------------------------------------------
(* The inductive invariant.                                                *)

PureLoad(i) == ~IsStore(kind[i])
Barrier(i)  == IsStore(kind[i]) /\ kind[i].stb

TypeInv == TypeOK /\ NextCustomGroupID <= n + 1

\* Instructions i to k are loads, with no store between them.
LoadRun(i, k) == \A m \in i .. k : PureLoad(m)

\* Group ids are handed out in order; a group exists as long as one of its
\* instructions has not executed.
TokensOK ==
  /\ \A i \in Dispatched : token[i] \in 1 .. (NextCustomGroupID - 1)
  /\ \A g \in GID : g \in CustomGroups <=>
                      \E i \in Dispatched : token[i] = g /\ ~Finished(i)

\* A store has a group of its own, older than the group of every younger
\* instruction; groups of a run of loads are in order.
GroupOrder ==
  \A i, k \in Dispatched : i < k =>
    /\ IsStore(kind[i]) \/ IsStore(kind[k]) => token[i] < token[k]
    /\ LoadRun(i, k) => token[i] <= token[k]

\* Dependencies are between existing groups, an order dependency only on a
\* group that has not started, and the group of an instruction that became
\* ready has none left.
DepsOK ==
  /\ \A d \in deps : d.from \in CustomGroups /\ d.to \in CustomGroups
  /\ \A d \in deps : ~d.data =>
       \E i \in Dispatched : token[i] = d.from /\ ~Started(i)
  /\ \A i \in Dispatched : status[i] # "dispatched" => IsReady(token[i])

\* The current groups exist.
CurrentLive ==
  /\ CurrentStoreGroupID \in CustomGroups \cup {0}
  /\ CurrentStoreBarrierGroupID \in CustomGroups \cup {0}
  /\ CurrentLoadGroupID \in CustomGroups \cup {0}
  /\ CurrentLoadBarrierGroupID \in CustomGroups \cup {0}

\* The current groups: the youngest store and store barrier, if they have not
\* executed, and the group of the youngest instruction, if it is a load.
CurrentOK ==
  /\ CurrentLoadGroupID # 0 => CurrentLoadBarrierGroupID <= CurrentLoadGroupID
  /\ \A i \in Dispatched :
       IsStore(kind[i]) /\ ~Finished(i) /\ LoadRun(i + 1, n)
         => CurrentStoreGroupID = token[i]
  /\ CurrentStoreGroupID # 0 =>
       \E i \in Dispatched : IsStore(kind[i]) /\ token[i] = CurrentStoreGroupID
  /\ \A i \in Dispatched :
       Barrier(i) /\ ~Finished(i) /\ (\A m \in (i+1) .. n : ~Barrier(m))
         => CurrentStoreBarrierGroupID = token[i]
  /\ n > 0 /\ PureLoad(n) =>
       CurrentLoadGroupID = IF token[n] \in CustomGroups THEN token[n] ELSE 0

\* If there are stores, there is a youngest one; likewise for store barriers.
YoungestOK ==
  /\ (\E i \in Dispatched : IsStore(kind[i])) =>
       \E i \in Dispatched : IsStore(kind[i]) /\ LoadRun(i + 1, n)
  /\ (\E i \in Dispatched : Barrier(i)) =>
       \E i \in Dispatched : Barrier(i) /\ \A m \in (i+1) .. n : ~Barrier(m)

\* In a run of loads, a younger group starts after an older one.
RunInOrder ==
  \A i, k \in Dispatched :
    i < k /\ LoadRun(i, k) /\ token[i] # token[k] /\ Started(k) => Started(i)

\* Why: the younger group depends, by data, on the group of a load between.
RunBlocked ==
  \A i, k \in Dispatched :
    i < k /\ LoadRun(i, k) /\ token[i] # token[k] /\ ~Started(i) =>
      \E d \in deps : /\ d.to = token[k] /\ d.data
                      /\ \E p \in i .. (k - 1) : d.from = token[p]

\* Why stores start in order: as long as an older instruction i has not
\* started, the store depends on i, on a younger store, or on a load of the
\* run of loads that begins with i.
StoreBlocked ==
  \A i, j \in Dispatched :
    i < j /\ IsStore(kind[j]) /\ ~Started(i) =>
      \E d \in deps : /\ d.to = token[j]
                      /\ \E p \in i .. (j - 1) :
                           /\ d.from = token[p]
                           /\ p = i \/ IsStore(kind[p]) \/ LoadRun(i, p)

\* Why stores wait for store barriers.
BarrierBlocked ==
  \A i, j \in Dispatched :
    i < j /\ Barrier(i) /\ IsStore(kind[j]) /\ ~Finished(i) =>
      \E d \in deps : /\ d.to = token[j] /\ d.data
                      /\ \E p \in i .. (j - 1) : d.from = token[p] /\ Barrier(p)

\* What the life of a group rests on.
GroupInv == TypeInv /\ TokensOK /\ DepsOK /\ CurrentLive

IInv ==
  /\ GroupInv
  /\ GroupOrder
  /\ CurrentOK
  /\ YoungestOK
  /\ StoresInOrder /\ StoreBlocked
  /\ RunInOrder /\ RunBlocked
  /\ StoresAfterStoreBarriers /\ BarrierBlocked

-----------------------------------------------------------------------------
(* Type correctness.                                                       *)

LEMMA InitTypeInv == Init => TypeInv
  BY LSUAssumption DEF Init, TypeInv, TypeOK, Inst, GID, Statuses, DepType

\* Dispatching stays within the bounds.
LEMMA OccupyType ==
  ASSUME TypeInv, NEW k \in Kinds, NEW c \in Nat, Occupy(k, c)
  PROVE  /\ n < MaxInst /\ n' = n + 1
         /\ n' \in 0 .. MaxInst
         /\ kind' \in [Inst -> Kinds]
         /\ status' \in [Inst -> Statuses]
         /\ \A i \in Inst : status'[i] = "none" <=> i > n'
         /\ usedLQ' \in Int /\ usedSQ' \in Int
         /\ ongoing' \in [Addr -> Nat]
         /\ NextCustomGroupID \in GID
<1>1. /\ n < MaxInst /\ n' = n + 1 /\ n' \in 0 .. MaxInst
      /\ n + 1 \in Inst /\ NextCustomGroupID \in GID
  BY LSUAssumption DEF TypeInv, TypeOK, Occupy, Inst, GID
<1>2. kind' \in [Inst -> Kinds] /\ status' \in [Inst -> Statuses]
  BY DEF TypeInv, TypeOK, Occupy, Statuses
<1>3. \A i \in Inst : status'[i] = "none" <=> i > n'
  BY <1>1, LSUAssumption DEF TypeInv, TypeOK, Occupy, Inst
<1>4. usedLQ' \in Int /\ usedSQ' \in Int
  BY DEF TypeInv, TypeOK, Occupy
<1>5. ongoing' \in [Addr -> Nat]
  <2>1. CASE HasCache /\ k.md # NoMD
    <3>1. ongoing' = [ongoing EXCEPT ![k.md] = c]
      BY <2>1 DEF Occupy
    <3>2. QED BY <3>1 DEF TypeInv, TypeOK
  <2>2. CASE ~(HasCache /\ k.md # NoMD)
    BY <2>2 DEF Occupy, TypeInv, TypeOK
  <2>3. QED BY <2>1, <2>2
<1>6. QED BY <1>1, <1>2, <1>3, <1>4, <1>5

\* Dependencies on existing groups are dependencies.
LEMMA DependencyType ==
  ASSUME NEW p \in GID \cup {0}, NEW g \in GID, NEW data \in BOOLEAN
  PROVE  Dependency(p, g, data) \subseteq DepType
<1>1. IsExecuting(p) \in BOOLEAN
  BY DEF IsExecuting
<1>2. QED BY <1>1 DEF Dependency, DepType

LEMMA StoreDepsType ==
  ASSUME TypeOK, NEW g \in GID, NEW k \in Kinds
  PROVE  StoreDeps(g, k) \subseteq DepType
<1>1. ImmediateLoadDominator \in GID \cup {0}
  BY DEF TypeOK, ImmediateLoadDominator
<1>2. \A p : NoAlias(p, k) \in BOOLEAN
  BY LSUAssumption DEF NoAlias
<1>3. QED BY <1>1, <1>2, DependencyType DEF StoreDeps, TypeOK

LEMMA LoadDepsType ==
  ASSUME TypeOK, NEW g \in GID, NEW k \in Kinds
  PROVE  LoadDeps(g, k) \subseteq DepType
<1>1. ImmediateLoadDominator \in GID \cup {0}
  BY DEF TypeOK, ImmediateLoadDominator
<1>2. QED BY <1>1, DependencyType DEF LoadDeps, TypeOK

LEMMA NewGroupType ==
  ASSUME TypeOK, n < MaxInst, NextCustomGroupID \in GID,
         NEW ds \in SUBSET DepType, NewGroup(ds)
  PROVE  /\ token' \in [Inst -> GID \cup {0}]
         /\ CustomGroups' \subseteq GID
         /\ deps' \subseteq DepType
         /\ followed' \subseteq GID
         /\ NextCustomGroupID' \in 1 .. (MaxInst + 1)
         /\ NextCustomGroupID' = NextCustomGroupID + 1
<1>1. \A d \in ds : d.from \in GID
  BY DEF DepType
<1>2. {d.from : d \in ds} \subseteq GID
  BY <1>1
<1>3. token' \in [Inst -> GID \cup {0}]
  BY DEF TypeOK, NewGroup
<1>4. CustomGroups' \subseteq GID /\ deps' \subseteq DepType /\ followed' \subseteq GID
  BY <1>2 DEF TypeOK, NewGroup
<1>5. /\ NextCustomGroupID' \in 1 .. (MaxInst + 1)
      /\ NextCustomGroupID' = NextCustomGroupID + 1
  BY LSUAssumption DEF TypeOK, NewGroup, GID
<1>6. QED BY <1>3, <1>4, <1>5

\* The values dispatch uses for the latency of a cache access are numbers.
LEMMA LatencyNat == (IF HasCache THEN Latency ELSE {0}) \subseteq Nat
  BY LSUAssumption

LEMMA NextTypeInv == TypeInv /\ [Next]_vars => TypeInv'
<1> SUFFICES ASSUME TypeInv, [Next]_vars PROVE TypeInv'
  OBVIOUS
<1> USE LSUAssumption
<1>1. ASSUME NEW k \in Kinds, NEW c \in Nat, DispatchStore(k, c) PROVE TypeInv'
  <2>1. Occupy(k, c) /\ NewGroup(StoreDeps(NextCustomGroupID, k))
    BY <1>1 DEF DispatchStore
  <2>2. n < MaxInst /\ NextCustomGroupID \in GID
    BY <2>1, OccupyType
  <2>3. StoreDeps(NextCustomGroupID, k) \subseteq DepType
    BY <2>2, StoreDepsType DEF TypeInv
  <2>4. /\ CurrentLoadGroupID' \in GID \cup {0}
        /\ CurrentLoadBarrierGroupID' \in GID \cup {0}
        /\ CurrentStoreGroupID' \in GID \cup {0}
        /\ CurrentStoreBarrierGroupID' \in GID \cup {0}
    BY <1>1, <2>2 DEF DispatchStore, TypeInv, TypeOK
  <2>5. QED BY <2>1, <2>2, <2>3, <2>4, OccupyType, NewGroupType DEF TypeInv, TypeOK
<1>2. ASSUME NEW k \in Kinds, NEW c \in Nat, DispatchLoad(k, c) PROVE TypeInv'
  <2>1. Occupy(k, c) /\ NewGroup(LoadDeps(NextCustomGroupID, k))
    BY <1>2 DEF DispatchLoad
  <2>2. n < MaxInst /\ NextCustomGroupID \in GID
    BY <2>1, OccupyType
  <2>3. LoadDeps(NextCustomGroupID, k) \subseteq DepType
    BY <2>2, LoadDepsType DEF TypeInv
  <2>4. /\ CurrentLoadGroupID' \in GID \cup {0}
        /\ CurrentLoadBarrierGroupID' \in GID \cup {0}
        /\ CurrentStoreGroupID' \in GID \cup {0}
        /\ CurrentStoreBarrierGroupID' \in GID \cup {0}
    BY <1>2, <2>2 DEF DispatchLoad, TypeInv, TypeOK
  <2>5. QED BY <2>1, <2>2, <2>3, <2>4, OccupyType, NewGroupType DEF TypeInv, TypeOK
<1>3. ASSUME NEW k \in Kinds, NEW c \in Nat, DispatchJoin(k, c) PROVE TypeInv'
  <2>1. Occupy(k, c)
    BY <1>3 DEF DispatchJoin
  <2>2. token' \in [Inst -> GID \cup {0}]
    BY <1>3 DEF DispatchJoin, TypeInv, TypeOK
  <2>3. QED BY <1>3, <2>1, <2>2, OccupyType DEF DispatchJoin, current, TypeInv, TypeOK
<1>4. ASSUME NEW i \in Inst, BecomeReady(i) PROVE TypeInv'
  BY <1>4 DEF BecomeReady, TypeInv, TypeOK, current, Statuses
<1>5. ASSUME NEW i \in Inst, Issue(i) PROVE TypeInv'
  <2>1. \A d \in deps : [d EXCEPT !.issued = TRUE] \in DepType
    BY DEF TypeInv, TypeOK, DepType
  <2>2. deps' \subseteq DepType
    BY <1>5, <2>1 DEF Issue, TypeInv, TypeOK
  <2>3. QED BY <1>5, <2>2 DEF Issue, TypeInv, TypeOK, current, Statuses
<1>6. ASSUME NEW i \in Inst, Execute(i) PROVE TypeInv'
  <2>1. /\ CustomGroups' \subseteq GID
        /\ deps' \subseteq DepType
        /\ CurrentLoadGroupID' \in GID \cup {0}
        /\ CurrentLoadBarrierGroupID' \in GID \cup {0}
        /\ CurrentStoreGroupID' \in GID \cup {0}
        /\ CurrentStoreBarrierGroupID' \in GID \cup {0}
    BY <1>6 DEF Execute, TypeInv, TypeOK, current, Forget
  <2>2. QED BY <1>6, <2>1 DEF Execute, TypeInv, TypeOK, Statuses
<1>7. ASSUME NEW i \in Inst, Retire(i) PROVE TypeInv'
  <2>1. usedLQ' \in Int /\ usedSQ' \in Int
    BY <1>7 DEF Retire, TypeInv, TypeOK
  <2>2. ongoing' \in [Addr -> Nat]
    BY <1>7 DEF Retire, TypeInv, TypeOK
  <2>3. QED BY <1>7, <2>1, <2>2 DEF Retire, TypeInv, TypeOK, current, Statuses
<1>8. CASE CycleEvent
  BY <1>8 DEF CycleEvent, TypeInv, TypeOK, current
<1>9. CASE UNCHANGED vars
  BY <1>9 DEF vars, current, TypeInv, TypeOK
<1>10. QED
  BY <1>1, <1>2, <1>3, <1>4, <1>5, <1>6, <1>7, <1>8, <1>9, LatencyNat
     DEF Next, Dispatch

\* Every variable of the load/store unit keeps its type.
THEOREM TypeCorrect == Spec => []TypeOK
<1>1. TypeInv => TypeOK
  BY DEF TypeInv
<1>2. QED BY <1>1, InitTypeInv, NextTypeInv, PTL DEF Spec

-----------------------------------------------------------------------------
(* Groups exist as long as they are referred to.                           *)

\* A group that exists and is not executing has an instruction to start.
LEMMA NotExecuting ==
  ASSUME TypeInv, TokensOK, NEW g \in CustomGroups, ~IsExecuting(g)
  PROVE  \E i \in Dispatched : token[i] = g /\ ~Started(i)
<1>1. PICK i \in Dispatched : token[i] = g /\ ~Finished(i)
  BY DEF TokensOK, TypeInv, TypeOK
<1>2. i \in Members(g)
  BY <1>1 DEF Members
<1>3. CASE Started(i)
  <2>1. status[i] = "issued"
    BY <1>1, <1>3 DEF Started, Finished
  <2>2. PICK j \in Members(g) : ~Started(j)
    BY <1>2, <2>1 DEF IsExecuting
  <2>3. QED BY <2>2 DEF Members
<1>4. CASE ~Started(i)
  BY <1>1, <1>4
<1>5. QED BY <1>3, <1>4

LEMMA DependencyFacts ==
  ASSUME NEW p, NEW g, NEW data \in BOOLEAN, NEW d \in Dependency(p, g, data)
  PROVE  /\ d.from = p /\ d.to = g /\ d.data = data /\ p # 0
         /\ ~data => ~IsExecuting(p)
BY DEF Dependency

\* What a new group may depend on.
GoodDeps(ds) ==
  /\ ds \subseteq DepType
  /\ \A d \in ds : /\ d.to = NextCustomGroupID
                   /\ d.from \in CustomGroups
                   /\ ~d.data => ~IsExecuting(d.from)

LEMMA DominatorLive ==
  ASSUME CurrentLive
  PROVE  ImmediateLoadDominator \in CustomGroups \cup {0}
BY DEF CurrentLive, ImmediateLoadDominator

LEMMA StoreDepsGood ==
  ASSUME GroupInv, NEW k \in Kinds, NextCustomGroupID \in GID
  PROVE  GoodDeps(StoreDeps(NextCustomGroupID, k))
<1>1. StoreDeps(NextCustomGroupID, k) \subseteq DepType
  BY StoreDepsType DEF GroupInv, TypeInv
<1>2. \A p : NoAlias(p, k) \in BOOLEAN
  BY LSUAssumption DEF NoAlias
<1>3. ASSUME NEW d \in StoreDeps(NextCustomGroupID, k)
      PROVE  \E p \in CustomGroups \cup {0}, data \in BOOLEAN :
               d \in Dependency(p, NextCustomGroupID, data)
  BY <1>2, DominatorLive DEF StoreDeps, GroupInv, CurrentLive
<1>4. QED BY <1>1, <1>3, DependencyFacts DEF GoodDeps

LEMMA LoadDepsGood ==
  ASSUME GroupInv, NEW k \in Kinds, NextCustomGroupID \in GID
  PROVE  GoodDeps(LoadDeps(NextCustomGroupID, k))
<1>1. LoadDeps(NextCustomGroupID, k) \subseteq DepType
  BY LoadDepsType DEF GroupInv, TypeInv
<1>2. ASSUME NEW d \in LoadDeps(NextCustomGroupID, k)
      PROVE  \E p \in CustomGroups \cup {0}, data \in BOOLEAN :
               d \in Dependency(p, NextCustomGroupID, data)
  BY DominatorLive DEF LoadDeps, GroupInv, CurrentLive
<1>3. QED BY <1>1, <1>2, DependencyFacts DEF GoodDeps

\* What taking the queue entries does to the instructions.
LEMMA OccupyFacts ==
  ASSUME TypeInv, NEW k \in Kinds, NEW c \in Nat, Occupy(k, c)
  PROVE  /\ n \in Nat /\ n' = n + 1 /\ n + 1 \in Inst
         /\ Dispatched \subseteq Inst /\ Dispatched' = Dispatched \cup {n + 1}
         /\ n + 1 \notin Dispatched
         /\ \A i \in Dispatched : status'[i] = status[i] /\ kind'[i] = kind[i]
         /\ status'[n+1] = "dispatched" /\ kind'[n+1] = k
         /\ \A i \in Dispatched : Started(i)' = Started(i) /\ Finished(i)' = Finished(i)
         /\ \A i \in {n + 1} : ~Started(i)' /\ ~Finished(i)'
BY LSUAssumption DEF Occupy, TypeInv, TypeOK, Inst, Dispatched, Started, Finished

LEMMA NewGroupGroups ==
  ASSUME GroupInv, NEW k \in Kinds, NEW c \in Nat, Occupy(k, c),
         NextCustomGroupID \in GID,
         NEW ds, GoodDeps(ds), NewGroup(ds)
  PROVE  TokensOK' /\ DepsOK'
<1> USE DEF GroupInv
<1>1. /\ \A i \in Dispatched : token'[i] = token[i]
      /\ token'[n+1] = NextCustomGroupID
  BY OccupyFacts DEF NewGroup, TypeInv, TypeOK
<1>2. /\ \A i \in Dispatched : Started(i)' = Started(i) /\ Finished(i)' = Finished(i)
      /\ \A i \in {n + 1} : ~Started(i)' /\ ~Finished(i)'
  BY OccupyFacts
<1>3. \A i \in Dispatched : token[i] \in Int /\ token[i] < NextCustomGroupID
  BY DEF TokensOK, TypeInv, TypeOK
<1>4. NextCustomGroupID \in Nat /\ NextCustomGroupID' = NextCustomGroupID + 1
  BY DEF NewGroup, GID
<1>5. CustomGroups' = CustomGroups \cup {NextCustomGroupID} /\ deps' = deps \cup ds
  BY DEF NewGroup
<1>6. TokensOK'
  <2>1. \A i \in Dispatched' : token'[i] \in 1 .. (NextCustomGroupID' - 1)
    <3>1. \A i \in Dispatched : token[i] \in 1 .. NextCustomGroupID
      BY <1>4 DEF TokensOK
    <3>2. NextCustomGroupID \in 1 .. NextCustomGroupID
      BY DEF GID
    <3>3. NextCustomGroupID' - 1 = NextCustomGroupID
      BY <1>4
    <3>4. \A i \in Dispatched' : token'[i] \in 1 .. NextCustomGroupID
      BY <3>1, <3>2, <1>1, OccupyFacts
    <3>5. QED BY <3>3, <3>4
  <2>2. ASSUME NEW g \in GID
        PROVE  g \in CustomGroups' <=>
                 \E i \in Dispatched' : token'[i] = g /\ ~Finished(i)'
    <3>1. CASE g = NextCustomGroupID
      BY <3>1, <1>1, <1>2, <1>5, OccupyFacts
    <3>2. CASE g # NextCustomGroupID
      <4>1. g \in CustomGroups' <=> g \in CustomGroups
        BY <3>2, <1>5
      <4>2. (\E i \in Dispatched' : token'[i] = g /\ ~Finished(i)')
              <=> (\E i \in Dispatched : token[i] = g /\ ~Finished(i))
        BY <3>2, <1>1, <1>2, OccupyFacts
      <4>3. QED BY <4>1, <4>2 DEF TokensOK
    <3>3. QED BY <3>1, <3>2
  <2>3. QED BY <2>1, <2>2 DEF TokensOK
<1>7. DepsOK'
  <2>1. \A d \in deps' : d.from \in CustomGroups' /\ d.to \in CustomGroups'
    BY <1>5 DEF DepsOK, GoodDeps
  <2>2. ASSUME NEW d \in deps', ~d.data
        PROVE  \E i \in Dispatched' : token'[i] = d.from /\ ~Started(i)'
    <3>1. \E i \in Dispatched : token[i] = d.from /\ ~Started(i)
      <4>1. CASE d \in deps
        BY <2>2, <4>1 DEF DepsOK
      <4>2. CASE d \in ds
        BY <2>2, <4>2, NotExecuting DEF GoodDeps
      <4>3. QED BY <4>1, <4>2, <1>5
    <3>2. QED BY <3>1, <1>1, <1>2, OccupyFacts
  <2>3. ASSUME NEW i \in Dispatched', status'[i] # "dispatched"
        PROVE  \A d \in deps' : d.to # token'[i]
    <3>1. i \in Dispatched /\ status[i] # "dispatched"
      BY <2>3, OccupyFacts
    <3>2. \A d \in deps : d.to # token[i]
      BY <3>1 DEF DepsOK, IsReady
    <3>3. \A d \in ds : d.to # token[i]
      BY <3>1, <1>3, <1>4 DEF GoodDeps
    <3>4. QED BY <3>1, <3>2, <3>3, <1>1, <1>5
  <2>4. QED BY <2>1, <2>2, <2>3 DEF DepsOK, IsReady
<1>8. QED BY <1>6, <1>7

LEMMA JoinGroups ==
  ASSUME GroupInv, NEW k \in Kinds, NEW c \in Nat, DispatchJoin(k, c)
  PROVE  /\ TokensOK' /\ DepsOK'
         /\ CurrentLoadGroupID \in CustomGroups
         /\ ~IsExecuting(CurrentLoadGroupID)
         /\ CurrentLoadGroupID > CurrentStoreGroupID
         /\ CurrentLoadGroupID = ImmediateLoadDominator
<1> USE DEF GroupInv
<1> DEFINE g == CurrentLoadGroupID
<1>1. /\ g \in CustomGroups /\ ~IsExecuting(g) /\ g > CurrentStoreGroupID
      /\ g = ImmediateLoadDominator
  BY LSUAssumption DEF DispatchJoin, ShouldCreateANewGroup, ImmediateLoadDominator,
     CurrentLive, TypeInv, TypeOK, GID
<1>2. PICK x \in Dispatched : token[x] = g /\ ~Started(x)
  BY <1>1, NotExecuting
<1>3. Occupy(k, c)
  BY DEF DispatchJoin
<1>4. /\ \A i \in Dispatched : token'[i] = token[i]
      /\ token'[n+1] = g
  BY <1>3, OccupyFacts DEF DispatchJoin, TypeInv, TypeOK
<1>5. CustomGroups' = CustomGroups /\ deps' = deps /\ NextCustomGroupID' = NextCustomGroupID
  BY DEF DispatchJoin
<1>6. TokensOK'
  <2>1. \A i \in Dispatched' : token'[i] \in 1 .. (NextCustomGroupID' - 1)
    BY <1>2, <1>3, <1>4, <1>5, OccupyFacts DEF TokensOK
  <2>2. ~Finished(x)
    BY <1>2 DEF Started, Finished
  <2>3. ASSUME NEW h \in GID
        PROVE  (\E i \in Dispatched' : token'[i] = h /\ ~Finished(i)')
                 <=> (\E i \in Dispatched : token[i] = h /\ ~Finished(i))
    BY <1>2, <2>2, <1>3, <1>4, OccupyFacts
  <2>4. QED BY <2>1, <2>3, <1>5 DEF TokensOK
<1>7. DepsOK'
  <2>1. \A d \in deps' : d.from \in CustomGroups' /\ d.to \in CustomGroups'
    BY <1>5 DEF DepsOK
  <2>2. ASSUME NEW d \in deps', ~d.data
        PROVE  \E i \in Dispatched' : token'[i] = d.from /\ ~Started(i)'
    BY <2>2, <1>3, <1>4, <1>5, OccupyFacts DEF DepsOK
  <2>3. ASSUME NEW i \in Dispatched', status'[i] # "dispatched"
        PROVE  \A d \in deps' : d.to # token'[i]
    BY <2>3, <1>3, <1>4, <1>5, OccupyFacts DEF DepsOK, IsReady
  <2>4. QED BY <2>1, <2>2, <2>3 DEF DepsOK, IsReady
<1>8. QED BY <1>1, <1>6, <1>7

\* Steps that start and finish nothing, and neither dispatch nor release:
\* becoming ready, retiring, a cycle, a stutter.
Quiet ==
  /\ UNCHANGED <<n, kind, token, CustomGroups, deps, NextCustomGroupID, current>>
  /\ \A i \in Inst : Started(i)' = Started(i) /\ Finished(i)' = Finished(i)
  /\ \A i \in Inst : status'[i] # "dispatched" =>
       status[i] # "dispatched" \/ IsReady(token[i])

LEMMA DispatchedInst == ASSUME TypeInv PROVE Dispatched \subseteq Inst
BY LSUAssumption DEF TypeInv, TypeOK, Dispatched, Inst

LEMMA QuietSteps ==
  ASSUME TypeInv,
         \/ \E i \in Inst : BecomeReady(i) \/ Retire(i)
         \/ CycleEvent
         \/ UNCHANGED vars
  PROVE  Quiet
<1>1. ASSUME NEW i \in Inst, BecomeReady(i) PROVE Quiet
  BY <1>1 DEF BecomeReady, Quiet, Started, Finished, TypeInv, TypeOK, Statuses
<1>2. ASSUME NEW i \in Inst, Retire(i) PROVE Quiet
  BY <1>2 DEF Retire, Quiet, Started, Finished, TypeInv, TypeOK, Statuses
<1>3. ASSUME CycleEvent PROVE Quiet
  BY <1>3 DEF CycleEvent, Quiet, Started, Finished
<1>4. ASSUME UNCHANGED vars PROVE Quiet
  BY <1>4 DEF vars, Quiet, Started, Finished
<1>5. QED BY <1>1, <1>2, <1>3, <1>4

LEMMA QuietGroups ==
  ASSUME GroupInv, Quiet
  PROVE  TokensOK' /\ DepsOK' /\ CurrentLive'
<1> USE DEF GroupInv
<1>1. Dispatched' = Dispatched /\ Dispatched \subseteq Inst
  BY DispatchedInst DEF Quiet, Dispatched
<1>2. TokensOK'
  BY <1>1 DEF Quiet, TokensOK
<1>3. DepsOK'
  <2>1. ASSUME NEW i \in Dispatched, status'[i] # "dispatched"
        PROVE  \A d \in deps : d.to # token[i]
    BY <2>1, <1>1 DEF Quiet, DepsOK, IsReady
  <2>2. QED BY <1>1, <2>1 DEF Quiet, DepsOK, IsReady
<1>4. CurrentLive'
  BY DEF Quiet, CurrentLive, current
<1>5. QED BY <1>2, <1>3, <1>4

\* Issuing starts one instruction; dependencies only become fewer.
LEMMA IssueFacts ==
  ASSUME GroupInv, NEW i \in Inst, Issue(i)
  PROVE  /\ i \in Dispatched /\ Dispatched' = Dispatched /\ Dispatched \subseteq Inst
         /\ UNCHANGED <<n, kind, token, CustomGroups, NextCustomGroupID, current>>
         /\ status[i] = "ready" /\ ~Started(i) /\ ~Finished(i)
         /\ \A j \in Inst : Started(j)' = (j = i \/ Started(j))
         /\ \A j \in Inst : Finished(j)' = Finished(j)
         /\ \A j \in Inst : j # i => status'[j] = status[j]
         /\ \A e \in deps' : \E d \in deps :
               e.from = d.from /\ e.to = d.to /\ e.data = d.data
         /\ \A d \in deps :
              \/ \E e \in deps' : e.from = d.from /\ e.to = d.to /\ e.data = d.data
              \/ ~d.data /\ \A j \in Members(d.from) : j = i \/ Started(j)
         /\ \A e \in deps' : ~e.data /\ e.from = token[i] =>
              \E j \in Members(token[i]) : j # i /\ ~Started(j)
<1> USE DEF GroupInv
<1>1. /\ i \in Dispatched /\ Dispatched' = Dispatched /\ Dispatched \subseteq Inst
      /\ UNCHANGED <<n, kind, token, CustomGroups, NextCustomGroupID, current>>
      /\ status[i] = "ready" /\ ~Started(i) /\ ~Finished(i)
  BY LSUAssumption DEF Issue, TypeInv, TypeOK, Inst, Dispatched, Started, Finished
<1>2. /\ \A j \in Inst : Started(j)' = (j = i \/ Started(j))
      /\ \A j \in Inst : Finished(j)' = Finished(j)
      /\ \A j \in Inst : j # i => status'[j] = status[j]
  BY DEF Issue, TypeInv, TypeOK, Started, Finished
<1> DEFINE g == token[i]
           all == \A j \in Members(g) \ {i} : Started(j)
<1>3. CASE ~all
  <2>1. deps' = deps
    BY <1>3 DEF Issue
  <2>2. QED BY <1>1, <1>2, <1>3, <2>1
<1>4. CASE all
  <2>1. deps' = {d \in deps : d.from # g} \cup
                {[d EXCEPT !.issued = TRUE] : d \in {e \in deps : e.from = g /\ e.data}}
    BY <1>4 DEF Issue
  <2>2. \A d \in deps :
          LET e == [d EXCEPT !.issued = TRUE]
          IN  e.from = d.from /\ e.to = d.to /\ e.data = d.data
    BY DEF TypeInv, TypeOK, DepType
  <2>3. \A e \in deps' : \E d \in deps :
          e.from = d.from /\ e.to = d.to /\ e.data = d.data /\ (d.from = g => d.data)
    BY <2>1, <2>2
  <2>4. ASSUME NEW d \in deps
        PROVE  \/ \E e \in deps' : e.from = d.from /\ e.to = d.to /\ e.data = d.data
               \/ ~d.data /\ d.from = g
    BY <2>1, <2>2
  <2>5. QED BY <1>1, <1>2, <1>4, <2>3, <2>4
<1>5. QED BY <1>3, <1>4

LEMMA IssueGroups ==
  ASSUME GroupInv, NEW i \in Inst, Issue(i)
  PROVE  TokensOK' /\ DepsOK' /\ CurrentLive'
<1> USE DEF GroupInv
<1>1. TokensOK'
  BY IssueFacts DEF TokensOK
<1>2. DepsOK'
  <2>1. \A d \in deps' : d.from \in CustomGroups' /\ d.to \in CustomGroups'
    BY IssueFacts DEF DepsOK
  <2>2. ASSUME NEW e \in deps', ~e.data
        PROVE  \E j \in Dispatched' : token'[j] = e.from /\ ~Started(j)'
    <3>1. CASE e.from = token[i]
      <4>1. PICK j \in Members(token[i]) : j # i /\ ~Started(j)
        BY <2>2, <3>1, IssueFacts
      <4>2. j \in Dispatched /\ token[j] = token[i]
        BY DEF Members
      <4>3. QED BY <3>1, <4>1, <4>2, IssueFacts
    <3>2. CASE e.from # token[i]
      <4>1. PICK d \in deps : e.from = d.from /\ e.data = d.data
        BY IssueFacts
      <4>2. PICK j \in Dispatched : token[j] = d.from /\ ~Started(j)
        BY <2>2, <4>1 DEF DepsOK
      <4>3. QED BY <3>2, <4>1, <4>2, IssueFacts
    <3>3. QED BY <3>1, <3>2
  <2>3. ASSUME NEW j \in Dispatched', status'[j] # "dispatched"
        PROVE  \A e \in deps' : e.to # token'[j]
    <3>1. j \in Dispatched /\ status[j] # "dispatched"
      BY <2>3, IssueFacts
    <3>2. \A d \in deps : d.to # token[j]
      BY <3>1 DEF DepsOK, IsReady
    <3>3. QED BY <3>2, IssueFacts
  <2>4. QED BY <2>1, <2>2, <2>3 DEF DepsOK, IsReady
<1>3. CurrentLive'
  BY IssueFacts DEF CurrentLive, current
<1>4. QED BY <1>1, <1>2, <1>3

\* Executing finishes one instruction; when it was the last of its group, the
\* group and what depends on it by data go.
LEMMA ExecuteFacts ==
  ASSUME GroupInv, NEW i \in Inst, Execute(i)
  PROVE  /\ i \in Dispatched /\ Dispatched' = Dispatched /\ Dispatched \subseteq Inst
         /\ UNCHANGED <<n, kind, token, NextCustomGroupID>>
         /\ status[i] = "issued" /\ Started(i) /\ ~Finished(i)
         /\ token[i] \in CustomGroups
         /\ \A j \in Inst : Started(j)' = Started(j)
         /\ \A j \in Inst : Finished(j)' = (j = i \/ Finished(j))
         /\ \A j \in Inst : j # i => status'[j] = status[j]
         /\ deps' \subseteq deps
         /\ \A d \in deps :
              \/ d \in deps'
              \/ d.data /\ \A j \in Members(d.from) : j = i \/ Finished(j)
<1> USE DEF GroupInv
<1>1. /\ i \in Dispatched /\ Dispatched' = Dispatched /\ Dispatched \subseteq Inst
      /\ UNCHANGED <<n, kind, token, NextCustomGroupID>>
      /\ status[i] = "issued" /\ Started(i) /\ ~Finished(i)
  BY LSUAssumption DEF Execute, TypeInv, TypeOK, Inst, Dispatched, Started, Finished
<1>2. /\ \A j \in Inst : Started(j)' = Started(j)
      /\ \A j \in Inst : Finished(j)' = (j = i \/ Finished(j))
      /\ \A j \in Inst : j # i => status'[j] = status[j]
  BY DEF Execute, TypeInv, TypeOK, Started, Finished
<1>3. token[i] \in CustomGroups
  BY <1>1, LSUAssumption DEF TokensOK, TypeInv, TypeOK, GID
<1>4. /\ deps' \subseteq deps
      /\ \A d \in deps :
           \/ d \in deps'
           \/ d.data /\ \A j \in Members(d.from) : j = i \/ Finished(j)
  BY DEF Execute
<1>5. QED BY <1>1, <1>2, <1>3, <1>4

LEMMA ExecuteGroups ==
  ASSUME GroupInv, NEW i \in Inst, Execute(i)
  PROVE  TokensOK' /\ DepsOK' /\ CurrentLive'
<1> USE DEF GroupInv
<1> DEFINE g == token[i]
           all == \A j \in Members(g) \ {i} : Finished(j)
<1>1. TokensOK'
  <2>1. ASSUME NEW h \in GID
        PROVE  h \in CustomGroups' <=>
                 \E j \in Dispatched : token[j] = h /\ j # i /\ ~Finished(j)
    <3>1. h \in CustomGroups <=> \E j \in Dispatched : token[j] = h /\ ~Finished(j)
      BY DEF TokensOK
    <3>2. CASE all
      <4>1. CustomGroups' = CustomGroups \ {g}
        BY <3>2 DEF Execute
      <4>2. QED BY <3>1, <3>2, <4>1, ExecuteFacts DEF Members
    <3>3. CASE ~all
      <4>1. CustomGroups' = CustomGroups
        BY <3>3 DEF Execute
      <4>2. PICK j \in Members(g) : j # i /\ ~Finished(j)
        BY <3>3
      <4>3. j \in Dispatched /\ token[j] = g
        BY DEF Members
      <4>4. QED BY <3>1, <4>1, <4>2, <4>3, ExecuteFacts
    <3>4. QED BY <3>2, <3>3
  <2>2. QED BY <2>1, ExecuteFacts DEF TokensOK
<1>2. DepsOK'
  <2>1. ASSUME NEW d \in deps'
        PROVE  d.from \in CustomGroups' /\ d.to \in CustomGroups'
    <3>1. d \in deps /\ d.from \in CustomGroups /\ d.to \in CustomGroups
      BY ExecuteFacts DEF DepsOK
    <3>2. d.to # g
      BY <3>1, ExecuteFacts DEF DepsOK, IsReady
    <3>3. CASE all
      <4>1. CustomGroups' = CustomGroups \ {g} /\ (d.from = g => ~d.data)
        BY <3>3 DEF Execute
      <4>2. d.from # g
        <5>1. SUFFICES ASSUME d.from = g PROVE FALSE
          OBVIOUS
        <5>2. PICK j \in Dispatched : token[j] = g /\ ~Started(j)
          BY <3>1, <4>1, <5>1 DEF DepsOK
        <5>3. j # i /\ j \in Members(g) /\ ~Finished(j)
          BY <5>2, ExecuteFacts DEF Members, Started, Finished
        <5>4. QED BY <3>3, <5>3
      <4>3. QED BY <3>1, <3>2, <4>1, <4>2
    <3>4. CASE ~all
      BY <3>1, <3>4 DEF Execute
    <3>5. QED BY <3>3, <3>4
  <2>2. ASSUME NEW d \in deps', ~d.data
        PROVE  \E j \in Dispatched' : token'[j] = d.from /\ ~Started(j)'
    BY <2>2, ExecuteFacts DEF DepsOK
  <2>3. ASSUME NEW j \in Dispatched', status'[j] # "dispatched"
        PROVE  \A d \in deps' : d.to # token'[j]
    BY <2>3, ExecuteFacts DEF DepsOK, IsReady
  <2>4. QED BY <2>1, <2>2, <2>3 DEF DepsOK, IsReady
<1>3. CurrentLive'
  BY DEF Execute, CurrentLive, Forget, current
<1>4. QED BY <1>1, <1>2, <1>3

LEMMA InitGroupInv == Init => GroupInv
<1>1. Init => TokensOK /\ DepsOK /\ CurrentLive
  BY DEF Init, TokensOK, DepsOK, CurrentLive, Dispatched
<1>2. QED BY <1>1, InitTypeInv DEF GroupInv

LEMMA NextGroupInv == GroupInv /\ [Next]_vars => GroupInv'
<1> SUFFICES ASSUME GroupInv, [Next]_vars PROVE GroupInv'
  OBVIOUS
<1>0. TypeInv /\ TypeInv'
  BY NextTypeInv DEF GroupInv
<1>1. ASSUME NEW k \in Kinds, NEW c \in Nat, DispatchStore(k, c) PROVE GroupInv'
  <2>1. Occupy(k, c) /\ NewGroup(StoreDeps(NextCustomGroupID, k))
    BY <1>1 DEF DispatchStore
  <2>2. NextCustomGroupID \in GID
    BY <1>0, <2>1, OccupyType
  <2>3. TokensOK' /\ DepsOK'
    BY <2>1, <2>2, StoreDepsGood, NewGroupGroups
  <2>4. CurrentLive'
    BY <1>1 DEF DispatchStore, NewGroup, CurrentLive, GroupInv
  <2>5. QED BY <1>0, <2>3, <2>4 DEF GroupInv
<1>2. ASSUME NEW k \in Kinds, NEW c \in Nat, DispatchLoad(k, c) PROVE GroupInv'
  <2>1. Occupy(k, c) /\ NewGroup(LoadDeps(NextCustomGroupID, k))
    BY <1>2 DEF DispatchLoad
  <2>2. NextCustomGroupID \in GID
    BY <1>0, <2>1, OccupyType
  <2>3. TokensOK' /\ DepsOK'
    BY <2>1, <2>2, LoadDepsGood, NewGroupGroups
  <2>4. CurrentLive'
    BY <1>2 DEF DispatchLoad, NewGroup, CurrentLive, GroupInv
  <2>5. QED BY <1>0, <2>3, <2>4 DEF GroupInv
<1>3. ASSUME NEW k \in Kinds, NEW c \in Nat, DispatchJoin(k, c) PROVE GroupInv'
  <2>1. CurrentLive'
    BY <1>3 DEF DispatchJoin, CurrentLive, GroupInv, current
  <2>2. QED BY <1>0, <1>3, <2>1, JoinGroups DEF GroupInv
<1>4. ASSUME NEW i \in Inst, Issue(i) PROVE GroupInv'
  BY <1>0, <1>4, IssueGroups DEF GroupInv
<1>5. ASSUME NEW i \in Inst, Execute(i) PROVE GroupInv'
  BY <1>0, <1>5, ExecuteGroups DEF GroupInv
<1>6. ASSUME Quiet PROVE GroupInv'
  BY <1>0, <1>6, QuietGroups DEF GroupInv
<1>7. QED
  BY <1>0, <1>1, <1>2, <1>3, <1>4, <1>5, <1>6, LatencyNat, QuietSteps
     DEF Next, Dispatch

\* Every group id that the unit passes to getCustomGroup is in CustomGroups:
\* its assertion "Group doesn't exist!" holds for any number and mixture of
\* instructions.
THEOREM GroupsExistAlways == Spec => []GroupsExist
<1>1. ASSUME GroupInv PROVE GroupsExist
  <2>1. \A i \in Dispatched : ~Finished(i) => token[i] \in CustomGroups
    BY <1>1, LSUAssumption, DispatchedInst
       DEF GroupInv, TokensOK, TypeInv, TypeOK, GID
  <2>2. QED BY <1>1, <2>1 DEF GroupInv, CurrentLive, DepsOK, GroupsExist
<1>2. QED BY <1>1, InitGroupInv, NextGroupInv, PTL DEF Spec

-----------------------------------------------------------------------------
(* The order of stores.                                                    *)

\* The part of the invariant that says who may have started.
Order == StoresInOrder /\ RunInOrder /\ StoresAfterStoreBarriers

\* The part that says why the others cannot.
Blocked == StoreBlocked /\ RunBlocked /\ BarrierBlocked

\* The part that says which groups are where.
Shape == GroupOrder /\ CurrentOK /\ YoungestOK

LEMMA QuietOrder ==
  ASSUME IInv, Quiet
  PROVE  Shape' /\ Order' /\ Blocked'
<1> USE DEF IInv, GroupInv
<1>1. Dispatched' = Dispatched /\ Dispatched \subseteq Inst
  BY DispatchedInst DEF Quiet, Dispatched
<1>2. \A i, k : LoadRun(i, k)' <=> LoadRun(i, k)
  BY DEF Quiet, LoadRun, PureLoad
<1>3. \A i : Barrier(i)' <=> Barrier(i)
  BY DEF Quiet, Barrier
<1>4. Shape'
  <2>1. GroupOrder'
    BY <1>1, <1>2 DEF Quiet, GroupOrder
  <2>2. CurrentOK'
    BY <1>1, <1>2, <1>3 DEF Quiet, CurrentOK, current, PureLoad, LoadRun, Barrier
  <2>3. YoungestOK'
    BY <1>1, <1>2, <1>3 DEF Quiet, YoungestOK, PureLoad, LoadRun, Barrier
  <2>4. QED BY <2>1, <2>2, <2>3 DEF Shape
<1>5. Order'
  BY <1>1, <1>2 DEF Quiet, Order, StoresInOrder, RunInOrder,
     StoresAfterStoreBarriers, Passes
<1>6. Blocked'
  <2>1. StoreBlocked'
    BY <1>1, <1>2 DEF Quiet, StoreBlocked
  <2>2. RunBlocked'
    BY <1>1, <1>2 DEF Quiet, RunBlocked
  <2>3. BarrierBlocked'
    BY <1>1, <1>3 DEF Quiet, BarrierBlocked
  <2>4. QED BY <2>1, <2>2, <2>3 DEF Blocked
<1>7. QED BY <1>4, <1>5, <1>6

LEMMA IssueOrder ==
  ASSUME IInv, NEW i \in Inst, Issue(i)
  PROVE  Shape' /\ Order' /\ Blocked'
<1> USE DEF IInv, GroupInv
<1>1. /\ Dispatched' = Dispatched /\ Dispatched \subseteq Inst /\ Dispatched \subseteq Nat
      /\ i \in Dispatched
      /\ UNCHANGED <<n, kind, token, CustomGroups, current>>
  BY IssueFacts, LSUAssumption DEF Dispatched
<1>2. \A a, b : LoadRun(a, b)' <=> LoadRun(a, b)
  BY <1>1 DEF LoadRun, PureLoad
<1>3. \A a : Barrier(a)' <=> Barrier(a)
  BY <1>1 DEF Barrier
<1>4. \A a \in Dispatched : /\ Started(a)' <=> a = i \/ Started(a)
                            /\ Finished(a)' <=> Finished(a)
  BY <1>1, IssueFacts
<1>5. Shape'
  <2>1. GroupOrder'
    BY <1>1, <1>2 DEF GroupOrder
  <2>2. CurrentOK'
    BY <1>1, <1>2, <1>3, <1>4 DEF CurrentOK, current, PureLoad, LoadRun, Barrier
  <2>3. YoungestOK'
    BY <1>1, <1>2, <1>3 DEF YoungestOK, PureLoad, LoadRun, Barrier
  <2>4. QED BY <2>1, <2>2, <2>3 DEF Shape
<1>6. \A d \in deps : d.to # token[i]
  BY <1>1, IssueFacts DEF DepsOK, IsReady
<1>7. StoresInOrder'
  BY <1>1, <1>4, <1>6 DEF StoresInOrder, StoreBlocked, Passes
<1>8. RunInOrder'
  BY <1>1, <1>2, <1>4, <1>6 DEF RunInOrder, RunBlocked
<1>9. StoresAfterStoreBarriers'
  BY <1>1, <1>4, <1>6 DEF StoresAfterStoreBarriers, BarrierBlocked, Barrier
<1>10. ASSUME NEW a \in Dispatched, NEW b \in Dispatched,
              a < b, IsStore(kind[b]), ~Started(a)'
       PROVE  \E e \in deps' : /\ e.to = token[b]
                               /\ \E p \in a .. (b - 1) :
                                    /\ e.from = token[p]
                                    /\ p = a \/ IsStore(kind[p]) \/ LoadRun(a, p)
  <2>1. ~Started(a) /\ a # i
    BY <1>4, <1>10
  <2>2. PICK d \in deps : /\ d.to = token[b]
                          /\ \E p \in a .. (b - 1) :
                               /\ d.from = token[p]
                               /\ p = a \/ IsStore(kind[p]) \/ LoadRun(a, p)
    BY <1>10, <2>1 DEF StoreBlocked
  <2>3. PICK p \in a .. (b - 1) : /\ d.from = token[p]
                                  /\ p = a \/ IsStore(kind[p]) \/ LoadRun(a, p)
    BY <2>2
  <2>4. CASE \E e \in deps' : e.from = d.from /\ e.to = d.to
    BY <2>2, <2>3, <2>4
  <2>5. CASE \A j \in Members(d.from) : j = i \/ Started(j)
    <3>1. p \in Dispatched /\ p \in Nat /\ a \in Nat /\ p >= a
      BY <1>1 DEF TypeInv, TypeOK, Dispatched
    <3>2. Started(p)'
      BY <2>3, <2>5, <3>1, <1>4 DEF Members
    <3>3. p # a /\ a < p
      BY <3>1, <3>2, <1>10
    <3>4. ~IsStore(kind[p])
      BY <1>1, <1>7, <1>10, <3>1, <3>2, <3>3 DEF StoresInOrder, Passes
    <3>5. LoadRun(a, p)
      BY <2>3, <3>3, <3>4
    <3>6. token[a] = token[p]
      BY <1>1, <1>2, <1>8, <1>10, <3>1, <3>2, <3>3, <3>5 DEF RunInOrder
    <3>7. Started(a)'
      BY <2>3, <2>5, <3>6, <1>4 DEF Members
    <3>8. QED BY <1>10, <3>7
  <2>6. QED BY <2>4, <2>5, IssueFacts
<1>11. StoreBlocked'
  BY <1>1, <1>2, <1>10 DEF StoreBlocked
<1>12. \A d \in deps : d.data =>
         \E e \in deps' : e.from = d.from /\ e.to = d.to /\ e.data = d.data
  BY IssueFacts
<1>13. RunBlocked'
  <2>1. ASSUME NEW a \in Dispatched, NEW b \in Dispatched,
               a < b, LoadRun(a, b), token[a] # token[b], ~Started(a)'
        PROVE  \E e \in deps' : /\ e.to = token[b] /\ e.data
                                /\ \E p \in a .. (b - 1) : e.from = token[p]
    <3>1. PICK d \in deps : /\ d.to = token[b] /\ d.data
                            /\ \E p \in a .. (b - 1) : d.from = token[p]
      BY <1>4, <2>1 DEF RunBlocked
    <3>2. QED BY <3>1, <1>12
  <2>2. QED BY <1>1, <1>2, <2>1 DEF RunBlocked
<1>14. BarrierBlocked'
  <2>1. ASSUME NEW a \in Dispatched, NEW b \in Dispatched,
               a < b, Barrier(a), IsStore(kind[b]), ~Finished(a)
        PROVE  \E e \in deps' : /\ e.to = token[b] /\ e.data
                                /\ \E p \in a .. (b - 1) : e.from = token[p] /\ Barrier(p)
    <3>1. PICK d \in deps : /\ d.to = token[b] /\ d.data
                            /\ \E p \in a .. (b - 1) : d.from = token[p] /\ Barrier(p)
      BY <2>1 DEF BarrierBlocked
    <3>2. QED BY <3>1, <1>12
  <2>2. QED BY <1>1, <1>3, <1>4, <2>1 DEF BarrierBlocked
<1>15. QED BY <1>5, <1>7, <1>8, <1>9, <1>11, <1>13, <1>14 DEF Order, Blocked

LEMMA ExecuteOrder ==
  ASSUME IInv, NEW i \in Inst, Execute(i)
  PROVE  Shape' /\ Order' /\ Blocked'
<1> USE DEF IInv, GroupInv
<1>1. /\ Dispatched' = Dispatched /\ Dispatched \subseteq Inst /\ Dispatched \subseteq Nat
      /\ i \in Dispatched
      /\ UNCHANGED <<n, kind, token>>
  BY ExecuteFacts, LSUAssumption DEF Dispatched
<1>2. \A a, b : LoadRun(a, b)' <=> LoadRun(a, b)
  BY <1>1 DEF LoadRun, PureLoad
<1>3. \A a : Barrier(a)' <=> Barrier(a)
  BY <1>1 DEF Barrier
<1>4. \A a \in Dispatched : /\ Started(a)' <=> Started(a)
                            /\ Finished(a)' <=> a = i \/ Finished(a)
                            /\ Finished(a)' => Started(a)
  BY <1>1, ExecuteFacts DEF Started, Finished
<1>5. GroupOrder' /\ YoungestOK'
  <2>1. GroupOrder'
    BY <1>1, <1>2 DEF GroupOrder
  <2>2. YoungestOK'
    BY <1>1, <1>2, <1>3 DEF YoungestOK, PureLoad, LoadRun, Barrier
  <2>3. QED BY <2>1, <2>2
<1>6. CurrentOK'
  <2> DEFINE g == token[i]
             all == \A j \in Members(g) \ {i} : Finished(j)
  <2>1. CASE ~all
    <3>1. UNCHANGED <<CustomGroups, current>>
      BY <2>1 DEF Execute
    <3>2. QED
      BY <3>1, <1>1, <1>2, <1>3, <1>4 DEF CurrentOK, current, PureLoad, LoadRun, Barrier
  <2>2. CASE all
    <3>1. /\ CustomGroups' = CustomGroups \ {g}
          /\ CurrentLoadGroupID' = Forget(CurrentLoadGroupID, g)
          /\ CurrentStoreGroupID' = Forget(CurrentStoreGroupID, g)
          /\ CurrentLoadBarrierGroupID' = Forget(CurrentLoadBarrierGroupID, g)
          /\ CurrentStoreBarrierGroupID' = Forget(CurrentStoreBarrierGroupID, g)
      BY <2>2 DEF Execute
    <3>2. g \in CustomGroups /\ g # 0
      BY ExecuteFacts, LSUAssumption DEF TypeInv, TypeOK, GID
    <3>3. \A a \in Dispatched : ~Finished(a)' => token[a] # g /\ ~Finished(a)
      BY <2>2, <1>4 DEF Members
    <3>4. CurrentLoadGroupID' # 0 => CurrentLoadBarrierGroupID' <= CurrentLoadGroupID'
      BY <3>1, LSUAssumption DEF CurrentOK, Forget, TypeInv, TypeOK, GID
    <3>5. \A a \in Dispatched :
            IsStore(kind[a]) /\ ~Finished(a)' /\ LoadRun(a + 1, n)
              => CurrentStoreGroupID' = token[a]
      BY <3>1, <3>3 DEF CurrentOK, Forget
    <3>6. CurrentStoreGroupID' # 0 =>
            \E a \in Dispatched : IsStore(kind[a]) /\ token[a] = CurrentStoreGroupID'
      BY <3>1 DEF CurrentOK, Forget
    <3>7. \A a \in Dispatched :
            Barrier(a) /\ ~Finished(a)' /\ (\A m \in (a+1) .. n : ~Barrier(m))
              => CurrentStoreBarrierGroupID' = token[a]
      BY <3>1, <3>3 DEF CurrentOK, Forget
    <3>8. n > 0 /\ PureLoad(n) =>
            CurrentLoadGroupID' = IF token[n] \in CustomGroups' THEN token[n] ELSE 0
      BY <3>1, <3>2 DEF CurrentOK, Forget
    <3>9. QED
      BY <3>4, <3>5, <3>6, <3>7, <3>8, <1>1, <1>2, <1>3 DEF CurrentOK, PureLoad, LoadRun, Barrier
  <2>3. QED BY <2>1, <2>2
<1>7. StoresInOrder' /\ RunInOrder' /\ StoresAfterStoreBarriers'
  BY <1>1, <1>2, <1>4 DEF StoresInOrder, RunInOrder, StoresAfterStoreBarriers, Passes
<1>8. StoreBlocked'
  <2>1. ASSUME NEW a \in Dispatched, NEW b \in Dispatched,
               a < b, IsStore(kind[b]), ~Started(a)
        PROVE  \E e \in deps' : /\ e.to = token[b]
                                /\ \E p \in a .. (b - 1) :
                                     /\ e.from = token[p]
                                     /\ p = a \/ IsStore(kind[p]) \/ LoadRun(a, p)
    <3>1. PICK d \in deps : /\ d.to = token[b]
                            /\ \E p \in a .. (b - 1) :
                                 /\ d.from = token[p]
                                 /\ p = a \/ IsStore(kind[p]) \/ LoadRun(a, p)
      BY <2>1 DEF StoreBlocked
    <3>2. PICK p \in a .. (b - 1) : /\ d.from = token[p]
                                    /\ p = a \/ IsStore(kind[p]) \/ LoadRun(a, p)
      BY <3>1
    <3>3. CASE \A j \in Members(d.from) : j = i \/ Finished(j)
      <4>1. p \in Dispatched /\ p \in Nat /\ a \in Nat /\ p >= a
        BY <1>1 DEF TypeInv, TypeOK, Dispatched
      <4>2. Started(p)
        BY <3>2, <3>3, <4>1, <1>4 DEF Members
      <4>3. a < p /\ ~IsStore(kind[p])
        BY <2>1, <4>1, <4>2 DEF StoresInOrder, Passes
      <4>4. token[a] = token[p]
        BY <2>1, <3>2, <4>1, <4>2, <4>3 DEF RunInOrder
      <4>5. QED BY <2>1, <3>2, <3>3, <4>4, <1>4 DEF Members
    <3>4. QED BY <3>1, <3>3, ExecuteFacts
  <2>2. QED BY <1>1, <1>2, <1>4, <2>1 DEF StoreBlocked
<1>9. RunBlocked'
  <2>1. ASSUME NEW a \in Dispatched, NEW b \in Dispatched,
               a < b, LoadRun(a, b), token[a] # token[b], ~Started(a)
        PROVE  \E e \in deps' : /\ e.to = token[b] /\ e.data
                                /\ \E p \in a .. (b - 1) : e.from = token[p]
    <3>1. PICK d \in deps : /\ d.to = token[b] /\ d.data
                            /\ \E p \in a .. (b - 1) : d.from = token[p]
      BY <2>1 DEF RunBlocked
    <3>2. PICK p \in a .. (b - 1) : d.from = token[p]
      BY <3>1
    <3>3. CASE \A j \in Members(d.from) : j = i \/ Finished(j)
      <4>1. /\ p \in Dispatched /\ p \in Nat /\ a \in Nat /\ p >= a
            /\ p .. b \subseteq a .. b /\ a .. p \subseteq a .. b
        BY <1>1 DEF TypeInv, TypeOK, Dispatched
      <4>2. Started(p)
        BY <3>2, <3>3, <4>1, <1>4 DEF Members
      <4>3. a < p /\ LoadRun(a, p)
        BY <2>1, <4>1, <4>2 DEF LoadRun
      <4>4. token[a] = token[p]
        BY <2>1, <4>1, <4>2, <4>3 DEF RunInOrder
      <4>5. QED BY <2>1, <3>2, <3>3, <4>4, <1>4 DEF Members
    <3>4. QED BY <3>1, <3>3, ExecuteFacts
  <2> HIDE DEF IInv
  <2>2. QED BY <1>1, <1>2, <1>4, <2>1 DEF RunBlocked
<1>10. BarrierBlocked'
  <2>1. ASSUME NEW a \in Dispatched, NEW b \in Dispatched,
               a < b, Barrier(a), IsStore(kind[b]), ~Finished(a)'
        PROVE  \E e \in deps' : /\ e.to = token[b] /\ e.data
                                /\ \E p \in a .. (b - 1) : e.from = token[p] /\ Barrier(p)
    <3>1. PICK d \in deps : /\ d.to = token[b] /\ d.data
                            /\ \E p \in a .. (b - 1) : d.from = token[p] /\ Barrier(p)
      BY <2>1, <1>4 DEF BarrierBlocked
    <3>2. PICK p \in a .. (b - 1) : d.from = token[p] /\ Barrier(p)
      BY <3>1
    <3>3. CASE \A j \in Members(d.from) : j = i \/ Finished(j)
      <4>1. p \in Dispatched /\ p \in Nat /\ a \in Nat /\ p >= a
        BY <1>1 DEF TypeInv, TypeOK, Dispatched
      <4>2. Finished(p)' /\ Started(p)
        BY <3>2, <3>3, <4>1, <1>4 DEF Members
      <4>3. a < p
        BY <2>1, <4>1, <4>2
      <4>4. Finished(a)
        BY <2>1, <3>2, <4>1, <4>2, <4>3 DEF StoresAfterStoreBarriers, Barrier
      <4>5. QED BY <2>1, <4>4, <1>4
    <3>4. QED BY <3>1, <3>3, ExecuteFacts
  <2>2. QED BY <1>1, <1>3, <2>1 DEF BarrierBlocked
<1>11. QED BY <1>5, <1>6, <1>7, <1>8, <1>9, <1>10 DEF Shape, Order, Blocked

\* What a dispatch leaves alone: the runs of loads and the barriers among the
\* older instructions.
LEMMA DispatchRuns ==
  ASSUME TypeInv, NEW k \in Kinds, NEW c \in Nat, Occupy(k, c)
  PROVE  /\ \A a \in Dispatched : Barrier(a)' <=> Barrier(a)
         /\ \A a \in Dispatched : PureLoad(a)' <=> PureLoad(a)
         /\ \A a, b \in Dispatched : LoadRun(a, b)' <=> LoadRun(a, b)
         /\ \A a \in Dispatched, m \in {n + 1} :
              LoadRun(a, m)' <=> LoadRun(a, n) /\ ~IsStore(k)
         /\ \A a \in Dispatched :
              LoadRun(a + 1, n)' <=> LoadRun(a + 1, n) /\ ~IsStore(k)
<1> USE OccupyFacts
<1>1. Dispatched = 1 .. n /\ Dispatched' = 1 .. (n + 1) /\ n \in Nat
  BY DEF Dispatched
<1>2. \A a \in Dispatched : Barrier(a)' <=> Barrier(a)
  BY DEF Barrier
<1>3. \A a \in Dispatched : PureLoad(a)' <=> PureLoad(a)
  BY DEF PureLoad
<1>4. \A m \in {n + 1} : PureLoad(m)' <=> ~IsStore(k)
  BY DEF PureLoad
<1>5. \A a, b \in Dispatched : LoadRun(a, b)' <=> LoadRun(a, b)
  BY <1>1, <1>3 DEF LoadRun
<1>6. ASSUME NEW a \in Dispatched, NEW m \in {n + 1}
      PROVE  LoadRun(a, m)' <=> LoadRun(a, n) /\ ~IsStore(k)
  <2>1. a .. m = (a .. n) \cup {m}
    BY <1>1
  <2>2. a .. n \subseteq Dispatched
    BY <1>1
  <2>3. QED BY <2>1, <2>2, <1>3, <1>4 DEF LoadRun
<1>7. ASSUME NEW a \in Dispatched
      PROVE  LoadRun(a + 1, n)' <=> LoadRun(a + 1, n) /\ ~IsStore(k)
  <2>1. (a + 1) .. n' = ((a + 1) .. n) \cup {n + 1}
    BY <1>1
  <2>2. (a + 1) .. n \subseteq Dispatched
    BY <1>1
  <2>3. LoadRun(a + 1, n)' <=> \A m \in (a + 1) .. n' : PureLoad(m)'
    BY DEF LoadRun
  <2>4. QED BY <2>1, <2>2, <2>3, <1>3, <1>4 DEF LoadRun
<1>8. QED BY <1>2, <1>3, <1>5, <1>6, <1>7

\* A new instruction has not started, so nothing passes anything.
LEMMA DispatchOrder ==
  ASSUME IInv, NEW k \in Kinds, NEW c \in Nat, Occupy(k, c),
         \A a \in Dispatched : token'[a] = token[a]
  PROVE  Order'
<1> USE DEF IInv, GroupInv
<1>1. /\ Dispatched' = Dispatched \cup {n + 1}
      /\ \A a \in Dispatched : a \in Nat /\ a < n + 1
      /\ n + 1 \in Nat
  BY OccupyFacts DEF Dispatched
<1>2. StoresInOrder'
  BY <1>1, OccupyFacts DEF StoresInOrder, Passes
<1>3. RunInOrder'
  BY <1>1, OccupyFacts, DispatchRuns DEF RunInOrder
<1>4. StoresAfterStoreBarriers'
  BY <1>1, OccupyFacts DEF StoresAfterStoreBarriers
<1>5. QED BY <1>2, <1>3, <1>4 DEF Order

\* Only the new instruction needs new dependencies.
LEMMA DispatchBlocked ==
  ASSUME IInv, NEW k \in Kinds, NEW c \in Nat, Occupy(k, c),
         \A a \in Dispatched : token'[a] = token[a],
         deps \subseteq deps',
         IsStore(k) => \A a \in Dispatched : ~Started(a) =>
           \E d \in deps' : /\ d.to = token'[n+1]
                            /\ \E p \in a .. n :
                                 /\ d.from = token[p]
                                 /\ p = a \/ IsStore(kind[p]) \/ LoadRun(a, p),
         ~IsStore(k) => \A a \in Dispatched :
           LoadRun(a, n) /\ token[a] # token'[n+1] /\ ~Started(a) =>
             \E d \in deps' : /\ d.to = token'[n+1] /\ d.data
                              /\ \E p \in a .. n : d.from = token[p],
         IsStore(k) => \A a \in Dispatched : Barrier(a) /\ ~Finished(a) =>
           \E d \in deps' : /\ d.to = token'[n+1] /\ d.data
                            /\ \E p \in a .. n : d.from = token[p] /\ Barrier(p)
  PROVE  Blocked'
<1>0. TypeInv
  BY DEF IInv, GroupInv
<1>1. /\ Dispatched' = Dispatched \cup {n + 1}
      /\ \A a \in Dispatched : a \in Nat /\ a < n + 1 /\ a .. n \subseteq Dispatched
      /\ n + 1 \in Nat /\ n \in Nat
      /\ \A a, b \in Dispatched : a .. (b - 1) \subseteq Dispatched
  BY <1>0, OccupyFacts DEF Dispatched
<1>2. StoreBlocked'
  <2>1. SUFFICES ASSUME NEW a \in Dispatched', NEW b \in Dispatched',
                        a < b, IsStore(kind'[b]), ~Started(a)'
                 PROVE  \E d \in deps' :
                          /\ d.to = token'[b]
                          /\ \E p \in a .. (b - 1) :
                               /\ d.from = token'[p]
                               /\ p = a \/ IsStore(kind'[p]) \/ LoadRun(a, p)'
    BY DEF StoreBlocked
  <2>2. a \in Dispatched /\ ~Started(a)
    BY <2>1, <1>0, <1>1, OccupyFacts
  <2>3. CASE b \in Dispatched
    <3>1. PICK d \in deps : /\ d.to = token[b]
                            /\ \E p \in a .. (b - 1) :
                                 /\ d.from = token[p]
                                 /\ p = a \/ IsStore(kind[p]) \/ LoadRun(a, p)
      BY <2>1, <2>2, <2>3, <1>0, OccupyFacts DEF StoreBlocked, IInv
    <3>2. QED BY <3>1, <2>2, <2>3, <1>0, <1>1, OccupyFacts, DispatchRuns
  <2>4. CASE b = n + 1
    <3>1. IsStore(k) /\ b - 1 = n
      BY <2>1, <2>4, <1>0, <1>1, OccupyFacts
    <3>2. PICK d \in deps' : /\ d.to = token'[n+1]
                             /\ \E p \in a .. n :
                                  /\ d.from = token[p]
                                  /\ p = a \/ IsStore(kind[p]) \/ LoadRun(a, p)
      BY <3>1, <2>2
    <3>3. QED BY <3>1, <3>2, <2>2, <2>4, <1>0, <1>1, OccupyFacts, DispatchRuns
  <2>5. QED BY <2>3, <2>4, <1>1
<1>3. RunBlocked'
  <2>1. SUFFICES ASSUME NEW a \in Dispatched', NEW b \in Dispatched',
                        a < b, LoadRun(a, b)', token'[a] # token'[b], ~Started(a)'
                 PROVE  \E d \in deps' :
                          /\ d.to = token'[b] /\ d.data
                          /\ \E p \in a .. (b - 1) : d.from = token'[p]
    BY DEF RunBlocked
  <2>2. a \in Dispatched /\ ~Started(a)
    BY <2>1, <1>0, <1>1, OccupyFacts
  <2>3. CASE b \in Dispatched
    <3>1. LoadRun(a, b) /\ token[a] # token[b]
      BY <2>1, <2>2, <2>3, <1>0, DispatchRuns
    <3>2. PICK d \in deps : /\ d.to = token[b] /\ d.data
                            /\ \E p \in a .. (b - 1) : d.from = token[p]
      BY <2>1, <2>2, <2>3, <3>1 DEF RunBlocked, IInv
    <3>3. QED BY <3>2, <2>2, <2>3, <1>1
  <2>4. CASE b = n + 1
    <3>1. LoadRun(a, n) /\ ~IsStore(k) /\ token[a] # token'[n+1] /\ b - 1 = n
      BY <2>1, <2>2, <2>4, <1>0, <1>1, DispatchRuns
    <3>2. PICK d \in deps' : /\ d.to = token'[n+1] /\ d.data
                             /\ \E p \in a .. n : d.from = token[p]
      BY <3>1, <2>2
    <3>3. QED BY <3>1, <3>2, <2>2, <2>4, <1>1
  <2>5. QED BY <2>3, <2>4, <1>1
<1>4. BarrierBlocked'
  <2>1. SUFFICES ASSUME NEW a \in Dispatched', NEW b \in Dispatched',
                        a < b, Barrier(a)', IsStore(kind'[b]), ~Finished(a)'
                 PROVE  \E d \in deps' :
                          /\ d.to = token'[b] /\ d.data
                          /\ \E p \in a .. (b - 1) : d.from = token'[p] /\ Barrier(p)'
    BY DEF BarrierBlocked
  <2>2. a \in Dispatched /\ ~Finished(a) /\ Barrier(a)
    BY <2>1, <1>0, <1>1, OccupyFacts, DispatchRuns
  <2>3. CASE b \in Dispatched
    <3>1. PICK d \in deps : /\ d.to = token[b] /\ d.data
                            /\ \E p \in a .. (b - 1) : d.from = token[p] /\ Barrier(p)
      BY <2>1, <2>2, <2>3, <1>0, OccupyFacts DEF BarrierBlocked, IInv
    <3>2. QED BY <3>1, <2>2, <2>3, <1>0, <1>1, DispatchRuns
  <2>4. CASE b = n + 1
    <3>1. IsStore(k) /\ b - 1 = n
      BY <2>1, <2>4, <1>0, <1>1, OccupyFacts
    <3>2. PICK d \in deps' : /\ d.to = token'[n+1] /\ d.data
                             /\ \E p \in a .. n : d.from = token[p] /\ Barrier(p)
      BY <3>1, <2>2
    <3>3. QED BY <3>1, <3>2, <2>2, <2>4, <1>0, <1>1, DispatchRuns
  <2>5. QED BY <2>3, <2>4, <1>1
<1>5. QED BY <1>2, <1>3, <1>4 DEF Blocked

\* A youngest store exists after a dispatch.
LEMMA DispatchYoungest ==
  ASSUME IInv, NEW k \in Kinds, NEW c \in Nat, Occupy(k, c)
  PROVE  YoungestOK'
<1>0. TypeInv /\ YoungestOK
  BY DEF IInv, GroupInv
<1>1. /\ Dispatched' = Dispatched \cup {n + 1} /\ n \in Nat /\ n' = n + 1
      /\ Dispatched \subseteq Nat
  BY <1>0, OccupyFacts DEF Dispatched
<1>2. ASSUME \E i \in Dispatched' : IsStore(kind'[i])
      PROVE  \E i \in Dispatched' : IsStore(kind'[i]) /\ LoadRun(i + 1, n)'
  <2>1. CASE IsStore(k)
    <3>1. \A m \in {n + 1} : IsStore(kind'[m])
      BY <2>1, <1>0, OccupyFacts
    <3>2. \A m \in {n + 1} : LoadRun(m + 1, n)'
      BY <1>1 DEF LoadRun
    <3>3. QED BY <3>1, <3>2, <1>1
  <2>2. CASE ~IsStore(k)
    <3>1. \E i \in Dispatched : IsStore(kind[i])
      BY <1>2, <2>2, <1>0, <1>1, OccupyFacts
    <3>2. PICK i \in Dispatched : IsStore(kind[i]) /\ LoadRun(i + 1, n)
      BY <3>1, <1>0 DEF YoungestOK
    <3>3. QED BY <3>2, <2>2, <1>0, <1>1, OccupyFacts, DispatchRuns
  <2>3. QED BY <2>1, <2>2
<1>3. ASSUME \E i \in Dispatched' : Barrier(i)'
      PROVE  \E i \in Dispatched' : Barrier(i)' /\ \A m \in (i+1) .. n' : ~Barrier(m)'
  <2>1. CASE \A m \in {n + 1} : Barrier(m)'
    <3>1. \A m \in {n + 1} : (m + 1) .. n' = {}
      BY <1>1
    <3>2. QED BY <2>1, <3>1, <1>1
  <2>2. CASE \E m \in {n + 1} : ~Barrier(m)'
    <3>1. \E i \in Dispatched : Barrier(i)
      BY <1>3, <2>2, <1>0, <1>1, DispatchRuns
    <3>2. PICK i \in Dispatched : Barrier(i) /\ \A m \in (i+1) .. n : ~Barrier(m)
      BY <3>1, <1>0 DEF YoungestOK
    <3>3. \A m \in (i+1) .. n' : m \in {n + 1} \/ (m \in (i+1) .. n /\ m \in Dispatched)
      BY <1>1 DEF Dispatched
    <3>4. QED BY <2>2, <3>2, <3>3, <1>0, <1>1, DispatchRuns
  <2>3. QED BY <2>1, <2>2
<1>4. QED BY <1>2, <1>3 DEF YoungestOK

\* An instruction that has not started keeps its group alive.
LEMMA UnstartedGroup ==
  ASSUME GroupInv, NEW a \in Dispatched, ~Started(a)
  PROVE  /\ token[a] \in CustomGroups /\ token[a] \in Nat /\ token[a] # 0
         /\ ~IsExecuting(token[a]) /\ ~Finished(a)
<1>1. ~Finished(a)
  BY DEF Started, Finished
<1>2. token[a] \in GID
  BY LSUAssumption, DispatchedInst DEF GroupInv, TokensOK, TypeInv, TypeOK, GID
<1>3. token[a] \in CustomGroups
  BY <1>1, <1>2 DEF GroupInv, TokensOK
<1>4. ~IsExecuting(token[a])
  BY DEF IsExecuting, Members
<1>5. QED BY <1>1, <1>2, <1>3, <1>4 DEF GID

\* If the youngest instructions are loads and one of them has not started, the
\* youngest is in the load group that dominates a new instruction.
LEMMA RunDominator ==
  ASSUME IInv, NEW a \in Dispatched, ~Started(a), LoadRun(a, n)
  PROVE  /\ n \in Dispatched /\ n \in a .. n
         /\ token[n] \in CustomGroups /\ token[n] # 0
         /\ CurrentLoadGroupID = token[n]
         /\ ImmediateLoadDominator = token[n]
         /\ ~IsExecuting(token[n])
         /\ CurrentStoreGroupID < token[n]
<1> USE DEF IInv, GroupInv
<1>1. n \in Nat /\ n > 0 /\ n \in Dispatched /\ a \in Nat /\ a <= n /\ n \in a .. n
  BY DEF TypeInv, TypeOK, Dispatched
<1>2. PureLoad(n)
  BY <1>1 DEF LoadRun
<1>3. /\ token[n] \in CustomGroups /\ token[n] \in Nat /\ token[n] # 0
      /\ ~IsExecuting(token[n])
  <2>1. CASE token[a] = token[n]
    BY <2>1, UnstartedGroup
  <2>2. CASE token[a] # token[n]
    <3>1. a < n
      BY <1>1, <2>2
    <3>2. ~Started(n)
      BY <1>1, <2>2, <3>1 DEF RunInOrder
    <3>3. QED BY <1>1, <3>2, UnstartedGroup
  <2>3. QED BY <2>1, <2>2
<1>4. CurrentLoadGroupID = token[n]
  BY <1>1, <1>2, <1>3 DEF CurrentOK
<1>5. ImmediateLoadDominator = token[n]
  BY <1>3, <1>4 DEF CurrentOK, ImmediateLoadDominator
<1>6. CurrentStoreGroupID < token[n]
  <2>1. CASE CurrentStoreGroupID = 0
    BY <2>1, <1>3
  <2>2. CASE CurrentStoreGroupID # 0
    <3>1. PICK s \in Dispatched : IsStore(kind[s]) /\ token[s] = CurrentStoreGroupID
      BY <2>2 DEF CurrentOK
    <3>2. s < n
      BY <3>1, <1>1, <1>2 DEF PureLoad, Dispatched
    <3>3. QED BY <3>1, <3>2, <1>1 DEF GroupOrder
  <2>3. QED BY <2>1, <2>2
<1>7. QED BY <1>1, <1>3, <1>4, <1>5, <1>6

\* The dependencies dispatch gives a store are enough to keep it behind every
\* older instruction and every older store barrier.
LEMMA StoreDepsBlock ==
  ASSUME IInv, NEW k \in Kinds, NEW g
  PROVE  /\ \A a \in Dispatched : ~Started(a) =>
              \E d \in StoreDeps(g, k) :
                /\ d.to = g
                /\ \E p \in a .. n : /\ d.from = token[p]
                                     /\ p = a \/ IsStore(kind[p]) \/ LoadRun(a, p)
         /\ \A a \in Dispatched : Barrier(a) /\ ~Finished(a) =>
              \E d \in StoreDeps(g, k) :
                /\ d.to = g /\ d.data
                /\ \E p \in a .. n : d.from = token[p] /\ Barrier(p)
<1> DEFINE dom == ImmediateLoadDominator
           sb == CurrentStoreBarrierGroupID
           st == CurrentStoreGroupID
<1>0. GroupInv /\ TypeInv /\ n \in Nat /\ Dispatched = 1 .. n
  BY DEF IInv, GroupInv, TypeInv, TypeOK, Dispatched
<1>1. \A p : NoAlias(p, k) \in BOOLEAN
  BY LSUAssumption DEF NoAlias
<1>2. /\ Dependency(dom, g, ~NoAlias(dom, k)) \subseteq StoreDeps(g, k)
      /\ Dependency(sb, g, TRUE) \subseteq StoreDeps(g, k)
      /\ st # sb => Dependency(st, g, ~NoAlias(st, k)) \subseteq StoreDeps(g, k)
  BY DEF StoreDeps
<1>3. ASSUME NEW a \in Dispatched, ~Started(a)
      PROVE  \E d \in StoreDeps(g, k) :
               /\ d.to = g
               /\ \E p \in a .. n : /\ d.from = token[p]
                                    /\ p = a \/ IsStore(kind[p]) \/ LoadRun(a, p)
  <2>1. CASE LoadRun(a, n)
    <3>1. dom = token[n] /\ dom # 0 /\ ~IsExecuting(dom) /\ n \in a .. n
      BY <1>3, <2>1, RunDominator
    <3>2. PICK d \in Dependency(dom, g, ~NoAlias(dom, k)) : d.from = dom /\ d.to = g
      BY <3>1, <1>1 DEF Dependency
    <3>3. QED BY <2>1, <3>1, <3>2, <1>2
  <2>2. CASE ~LoadRun(a, n)
    <3>1. PICK s \in a .. n : IsStore(kind[s])
      BY <2>2 DEF LoadRun, PureLoad
    <3>2. s \in Dispatched
      BY <1>0
    <3>3. PICK y \in Dispatched : IsStore(kind[y]) /\ LoadRun(y + 1, n)
      BY <3>1, <3>2 DEF IInv, YoungestOK
    <3>4. ~(s > y)
      BY <3>1, <3>2, <3>3, <1>0 DEF LoadRun, PureLoad
    <3>5. a <= y /\ y \in a .. n
      BY <3>4, <1>0
    <3>6. ~Started(y)
      BY <1>3, <3>3, <3>5, <1>0 DEF IInv, StoresInOrder, Passes
    <3>7. token[y] # 0 /\ ~IsExecuting(token[y]) /\ ~Finished(y)
      BY <3>6, <1>0, UnstartedGroup
    <3>8. st = token[y]
      BY <3>3, <3>7 DEF IInv, CurrentOK
    <3>9. \E d \in StoreDeps(g, k) : d.from = token[y] /\ d.to = g
      <4>1. CASE st = sb
        BY <4>1, <3>7, <3>8, <1>2 DEF Dependency
      <4>2. CASE st # sb
        <5>1. PICK d \in Dependency(st, g, ~NoAlias(st, k)) : d.from = st /\ d.to = g
          BY <3>7, <3>8, <1>1 DEF Dependency
        <5>2. QED BY <4>2, <5>1, <3>8, <1>2
      <4>3. QED BY <4>1, <4>2
    <3>10. QED BY <3>3, <3>5, <3>9
  <2>3. QED BY <2>1, <2>2
<1>4. ASSUME NEW a \in Dispatched, Barrier(a), ~Finished(a)
      PROVE  \E d \in StoreDeps(g, k) :
               /\ d.to = g /\ d.data
               /\ \E p \in a .. n : d.from = token[p] /\ Barrier(p)
  <2>1. PICK y \in Dispatched : Barrier(y) /\ \A m \in (y+1) .. n : ~Barrier(m)
    BY <1>4 DEF IInv, YoungestOK
  <2>2. a <= y /\ y \in a .. n
    BY <1>4, <2>1, <1>0
  <2>3. ~Finished(y)
    <3>1. CASE a = y
      BY <1>4, <3>1
    <3>2. CASE a < y
      BY <1>4, <2>1, <3>2 DEF IInv, StoresAfterStoreBarriers, Barrier, Started, Finished
    <3>3. QED BY <2>2, <3>1, <3>2, <1>0
  <2>4. sb = token[y]
    BY <2>1, <2>3 DEF IInv, CurrentOK
  <2>5. sb # 0
    BY <2>4, <1>0, LSUAssumption DEF GroupInv, TokensOK, TypeInv, TypeOK
  <2>6. PICK d \in Dependency(sb, g, TRUE) : d.from = sb /\ d.to = g /\ d.data = TRUE
    BY <2>5 DEF Dependency
  <2>7. QED BY <2>1, <2>2, <2>4, <2>6, <1>2
<1>5. QED BY <1>3, <1>4

\* A load that opens a group waits for the youngest load group, if that has
\* not started.
LEMMA LoadDepsBlock ==
  ASSUME IInv, NEW k \in Kinds, NEW g, ShouldCreateANewGroup(k)
  PROVE  \A a \in Dispatched : LoadRun(a, n) /\ ~Started(a) =>
           \E d \in LoadDeps(g, k) : /\ d.to = g /\ d.data
                                     /\ \E p \in a .. n : d.from = token[p]
<1>1. SUFFICES ASSUME NEW a \in Dispatched, LoadRun(a, n), ~Started(a)
      PROVE  \E d \in LoadDeps(g, k) : /\ d.to = g /\ d.data
                                       /\ \E p \in a .. n : d.from = token[p]
  OBVIOUS
<1> DEFINE dom == ImmediateLoadDominator
<1>2. /\ dom = token[n] /\ dom # 0 /\ ~IsExecuting(dom) /\ n \in a .. n
      /\ CurrentStoreGroupID < dom
  BY <1>1, RunDominator
<1>3. k.ldb \/ CurrentLoadBarrierGroupID = dom
  BY <1>2, LSUAssumption DEF ShouldCreateANewGroup, IInv, GroupInv, TypeInv, TypeOK, GID
<1>4. Dependency(dom, g, TRUE) \subseteq LoadDeps(g, k)
  BY <1>3 DEF LoadDeps
<1>5. PICK d \in Dependency(dom, g, TRUE) : d.from = dom /\ d.to = g /\ d.data = TRUE
  BY <1>2 DEF Dependency
<1>6. QED BY <1>2, <1>4, <1>5

\* A group made by a dispatch is younger than all others.
LEMMA NewGroupShape ==
  ASSUME IInv, NEW k \in Kinds, NEW c \in Nat, Occupy(k, c), NEW ds, NewGroup(ds)
  PROVE  /\ GroupOrder'
         /\ \A a \in Dispatched : token'[a] = token[a]
         /\ token'[n+1] = NextCustomGroupID
         /\ \A h \in CustomGroups \cup {0} : h \in Int /\ h < NextCustomGroupID
         /\ NextCustomGroupID \in Nat /\ NextCustomGroupID # 0
<1> USE DEF IInv, GroupInv
<1>1. /\ \A a \in Dispatched : token'[a] = token[a]
      /\ token'[n+1] = NextCustomGroupID
  BY OccupyFacts DEF NewGroup, TypeInv, TypeOK
<1>2. NextCustomGroupID \in Nat /\ NextCustomGroupID > 0
  BY LSUAssumption DEF TypeInv, TypeOK
<1>3. \A a \in Dispatched : token[a] \in Int /\ token[a] < NextCustomGroupID
  BY <1>2 DEF TokensOK
<1>4. \A h \in CustomGroups : \E a \in Dispatched : token[a] = h
  BY DEF TokensOK, TypeInv, TypeOK
<1>5. \A h \in CustomGroups \cup {0} : h \in Int /\ h < NextCustomGroupID
  BY <1>2, <1>3, <1>4
<1>6. GroupOrder'
  <2>1. SUFFICES ASSUME NEW a \in Dispatched', NEW b \in Dispatched', a < b
                 PROVE  /\ IsStore(kind'[a]) \/ IsStore(kind'[b]) => token'[a] < token'[b]
                        /\ LoadRun(a, b)' => token'[a] <= token'[b]
    BY DEF GroupOrder
  <2>2. \A i \in Dispatched : i \in Nat /\ i < n + 1
    BY OccupyFacts DEF Dispatched
  <2>3. a \in Dispatched
    BY <2>1, <2>2, OccupyFacts
  <2>4. CASE b \in Dispatched
    <3>1. /\ IsStore(kind[a]) \/ IsStore(kind[b]) => token[a] < token[b]
          /\ LoadRun(a, b) => token[a] <= token[b]
      BY <2>1, <2>3, <2>4 DEF GroupOrder
    <3>2. kind'[a] = kind[a] /\ kind'[b] = kind[b] /\ (LoadRun(a, b)' <=> LoadRun(a, b))
      BY <2>3, <2>4, OccupyFacts, DispatchRuns
    <3>3. QED BY <3>1, <3>2, <2>3, <2>4, <1>1
  <2>5. CASE b = n + 1
    BY <2>3, <2>5, <1>1, <1>2, <1>3
  <2>6. QED BY <2>4, <2>5, OccupyFacts
<1>7. QED BY <1>1, <1>2, <1>5, <1>6

\* The two clauses of CurrentOK about stores, for a dispatch that leaves the
\* current store groups alone and is not a store.
LEMMA LoadKeepsStores ==
  ASSUME IInv, NEW k \in Kinds, NEW c \in Nat, Occupy(k, c), ~IsStore(k),
         \A a \in Dispatched : token'[a] = token[a],
         UNCHANGED <<CurrentStoreGroupID, CurrentStoreBarrierGroupID>>
  PROVE  /\ \A a \in Dispatched' :
              IsStore(kind'[a]) /\ ~Finished(a)' /\ LoadRun(a + 1, n)'
                => CurrentStoreGroupID' = token'[a]
         /\ CurrentStoreGroupID' # 0 => \E a \in Dispatched' :
              IsStore(kind'[a]) /\ token'[a] = CurrentStoreGroupID'
         /\ \A a \in Dispatched' :
              Barrier(a)' /\ ~Finished(a)' /\ (\A m \in (a+1) .. n' : ~Barrier(m)')
                => CurrentStoreBarrierGroupID' = token'[a]
<1>0. TypeInv /\ CurrentOK
  BY DEF IInv, GroupInv
<1>1. \A m \in {n + 1} : ~IsStore(kind'[m]) /\ ~Barrier(m)'
  BY <1>0, OccupyFacts DEF Barrier
<1>2. ASSUME NEW a \in Dispatched', IsStore(kind'[a]), ~Finished(a)', LoadRun(a + 1, n)'
      PROVE  CurrentStoreGroupID' = token'[a]
  <2>1. a \in Dispatched
    BY <1>0, <1>1, <1>2, OccupyFacts
  <2>2. IsStore(kind[a]) /\ ~Finished(a) /\ LoadRun(a + 1, n)
    BY <1>0, <1>2, <2>1, OccupyFacts, DispatchRuns
  <2>3. QED BY <1>0, <2>1, <2>2 DEF CurrentOK
<1>3. ASSUME CurrentStoreGroupID' # 0
      PROVE  \E a \in Dispatched' : IsStore(kind'[a]) /\ token'[a] = CurrentStoreGroupID'
  <2>1. PICK a \in Dispatched : IsStore(kind[a]) /\ token[a] = CurrentStoreGroupID
    BY <1>0, <1>3 DEF CurrentOK
  <2>2. QED BY <1>0, <2>1, OccupyFacts
<1>4. ASSUME NEW a \in Dispatched', Barrier(a)', ~Finished(a)',
             \A m \in (a+1) .. n' : ~Barrier(m)'
      PROVE  CurrentStoreBarrierGroupID' = token'[a]
  <2>1. a \in Dispatched
    BY <1>0, <1>1, <1>4, OccupyFacts
  <2>2. \A m \in (a+1) .. n : m \in (a+1) .. n' /\ m \in Dispatched
    BY <1>0, <2>1, OccupyFacts DEF Dispatched
  <2>3. Barrier(a) /\ ~Finished(a) /\ \A m \in (a+1) .. n : ~Barrier(m)
    BY <1>0, <1>4, <2>1, <2>2, OccupyFacts, DispatchRuns
  <2>4. QED BY <1>0, <2>1, <2>3 DEF CurrentOK
<1>5. QED BY <1>2, <1>3, <1>4

LEMMA DispatchStoreOrder ==
  ASSUME IInv, NEW k \in Kinds, NEW c \in Nat, DispatchStore(k, c)
  PROVE  Shape' /\ Order' /\ Blocked'
<1> DEFINE g == NextCustomGroupID
<1>0. GroupInv /\ TypeInv /\ CurrentOK /\ CurrentLive
  BY DEF IInv, GroupInv
<1>1. IsStore(k) /\ Occupy(k, c) /\ NewGroup(StoreDeps(g, k))
  BY DEF DispatchStore
<1>2. /\ GroupOrder'
      /\ \A a \in Dispatched : token'[a] = token[a]
      /\ token'[n+1] = g /\ g \in Nat /\ g # 0
      /\ \A h \in CustomGroups \cup {0} : h \in Int /\ h < g
  BY <1>1, NewGroupShape
<1>3. /\ Dispatched' = Dispatched \cup {n + 1} /\ n \in Nat /\ n' = n + 1
      /\ Dispatched \subseteq Nat /\ Dispatched = 1 .. n
      /\ \A m \in {n + 1} : IsStore(kind'[m])
  BY <1>0, <1>1, OccupyFacts DEF Dispatched
<1>4. CurrentOK'
  <2>1. CurrentLoadGroupID' # 0 => CurrentLoadBarrierGroupID' <= CurrentLoadGroupID'
    <3>1. CurrentLoadBarrierGroupID \in Int /\ CurrentLoadBarrierGroupID < g
      BY <1>0, <1>2 DEF CurrentLive
    <3>2. CASE k.ld
      BY <3>1, <3>2, <1>2 DEF DispatchStore
    <3>3. CASE ~k.ld
      BY <3>3, <1>0 DEF DispatchStore, CurrentOK
    <3>4. QED BY <3>2, <3>3
  <2>2. ASSUME NEW a \in Dispatched', IsStore(kind'[a]), ~Finished(a)', LoadRun(a + 1, n)'
        PROVE  CurrentStoreGroupID' = token'[a]
    <3>1. a = n + 1
      BY <2>2, <1>0, <1>1, <1>3, DispatchRuns
    <3>2. QED BY <3>1, <1>2 DEF DispatchStore
  <2>3. \E a \in Dispatched' : IsStore(kind'[a]) /\ token'[a] = CurrentStoreGroupID'
    BY <1>2, <1>3 DEF DispatchStore
  <2>4. ASSUME NEW a \in Dispatched', Barrier(a)', ~Finished(a)',
               \A m \in (a+1) .. n' : ~Barrier(m)'
        PROVE  CurrentStoreBarrierGroupID' = token'[a]
    <3>1. \A m \in {n + 1} : Barrier(m)' <=> k.stb
      BY <1>0, <1>1, OccupyFacts DEF Barrier
    <3>2. CASE k.stb
      <4>1. a = n + 1
        BY <3>1, <3>2, <2>4, <1>3
      <4>2. QED BY <4>1, <3>2, <1>2 DEF DispatchStore
    <3>3. CASE ~k.stb
      <4>1. a \in Dispatched
        BY <3>1, <3>3, <2>4, <1>3
      <4>2. \A m \in (a+1) .. n : m \in (a+1) .. n' /\ m \in Dispatched
        BY <1>3, <4>1
      <4>3. Barrier(a) /\ ~Finished(a) /\ \A m \in (a+1) .. n : ~Barrier(m)
        BY <1>0, <1>1, <2>4, <4>1, <4>2, OccupyFacts, DispatchRuns
      <4>4. CurrentStoreBarrierGroupID = token[a]
        BY <1>0, <4>1, <4>3 DEF CurrentOK
      <4>5. QED BY <3>3, <4>1, <4>4, <1>2 DEF DispatchStore
    <3>4. QED BY <3>2, <3>3
  <2>5. ~PureLoad(n)'
    BY <1>3 DEF PureLoad
  <2>6. QED BY <2>1, <2>2, <2>3, <2>4, <2>5 DEF CurrentOK
<1>5. Shape'
  BY <1>1, <1>2, <1>4, DispatchYoungest DEF Shape
<1>6. Order'
  BY <1>1, <1>2, DispatchOrder
<1>7. deps' = deps \cup StoreDeps(g, k)
  BY <1>1 DEF NewGroup
<1>8. /\ \A a \in Dispatched : ~Started(a) =>
           \E d \in deps' : /\ d.to = token'[n+1]
                            /\ \E p \in a .. n :
                                 /\ d.from = token[p]
                                 /\ p = a \/ IsStore(kind[p]) \/ LoadRun(a, p)
      /\ \A a \in Dispatched : Barrier(a) /\ ~Finished(a) =>
           \E d \in deps' : /\ d.to = token'[n+1] /\ d.data
                            /\ \E p \in a .. n : d.from = token[p] /\ Barrier(p)
  BY <1>2, <1>7, StoreDepsBlock
<1>9. Blocked'
  BY <1>1, <1>2, <1>7, <1>8, DispatchBlocked
<1>10. QED BY <1>5, <1>6, <1>9

LEMMA DispatchLoadOrder ==
  ASSUME IInv, NEW k \in Kinds, NEW c \in Nat, DispatchLoad(k, c)
  PROVE  Shape' /\ Order' /\ Blocked'
<1> DEFINE g == NextCustomGroupID
<1>0. GroupInv /\ TypeInv /\ CurrentOK /\ CurrentLive
  BY DEF IInv, GroupInv
<1>1. /\ ~IsStore(k) /\ Occupy(k, c) /\ NewGroup(LoadDeps(g, k))
      /\ ShouldCreateANewGroup(k)
  BY DEF DispatchLoad
<1>2. /\ GroupOrder'
      /\ \A a \in Dispatched : token'[a] = token[a]
      /\ token'[n+1] = g /\ g \in Nat /\ g # 0
      /\ \A h \in CustomGroups \cup {0} : h \in Int /\ h < g
  BY <1>1, NewGroupShape
<1>3. CurrentOK'
  <2>1. CurrentLoadGroupID' # 0 => CurrentLoadBarrierGroupID' <= CurrentLoadGroupID'
    BY <1>0, <1>2 DEF DispatchLoad, CurrentLive
  <2>2. n' = n + 1 /\ CurrentLoadGroupID' = g /\ g \in CustomGroups'
    BY <1>0, <1>1, OccupyFacts DEF DispatchLoad, NewGroup
  <2>3. CurrentLoadGroupID' = IF token'[n'] \in CustomGroups' THEN token'[n'] ELSE 0
    BY <2>2, <1>2
  <2>4. UNCHANGED <<CurrentStoreGroupID, CurrentStoreBarrierGroupID>>
    BY DEF DispatchLoad
  <2>5. QED BY <2>1, <2>3, <2>4, <1>1, <1>2, LoadKeepsStores DEF CurrentOK
<1>4. Shape'
  BY <1>1, <1>2, <1>3, DispatchYoungest DEF Shape
<1>5. Order'
  BY <1>1, <1>2, DispatchOrder
<1>6. deps' = deps \cup LoadDeps(g, k)
  BY <1>1 DEF NewGroup
<1>7. \A a \in Dispatched : LoadRun(a, n) /\ ~Started(a) =>
        \E d \in deps' : /\ d.to = token'[n+1] /\ d.data
                         /\ \E p \in a .. n : d.from = token[p]
  BY <1>1, <1>2, <1>6, LoadDepsBlock
<1>8. Blocked'
  BY <1>1, <1>2, <1>6, <1>7, DispatchBlocked
<1>9. QED BY <1>4, <1>5, <1>8

\* A load joins the youngest load group only when that is younger than every
\* store: otherwise a store between would have to wait for itself.
LEMMA JoinAfterStores ==
  ASSUME IInv, NEW k \in Kinds, NEW c \in Nat, DispatchJoin(k, c),
         NEW s \in Dispatched, IsStore(kind[s])
  PROVE  token[s] < CurrentLoadGroupID
<1>0. GroupInv /\ Dispatched = 1 .. n /\ Dispatched \subseteq Nat
  BY DEF IInv, GroupInv, TypeInv, TypeOK, Dispatched
<1> DEFINE g == CurrentLoadGroupID
<1>1. g \in CustomGroups /\ ~IsExecuting(g) /\ g > CurrentStoreGroupID
  BY <1>0, JoinGroups
<1>2. PICK x \in Dispatched : token[x] = g /\ ~Started(x)
  BY <1>0, <1>1, NotExecuting DEF GroupInv
<1>3. PICK y \in Dispatched : IsStore(kind[y]) /\ LoadRun(y + 1, n)
  BY DEF IInv, YoungestOK
<1>4. token[y] < g
  <2>1. CASE ~Finished(y)
    <3>1. CurrentStoreGroupID = token[y]
      BY <1>3, <2>1 DEF IInv, CurrentOK
    <3>2. QED BY <3>1, <1>0, <1>1 DEF GroupInv, TypeInv, TypeOK, GID
  <2>2. CASE Finished(y)
    <3>1. Started(y)
      BY <2>2 DEF Started, Finished
    <3>2. ~(x < y) /\ x # y
      BY <1>2, <1>3, <3>1 DEF IInv, StoresInOrder, Passes
    <3>3. y < x
      BY <3>2, <1>0
    <3>4. QED BY <1>2, <1>3, <3>3 DEF IInv, GroupOrder
  <2>3. QED BY <2>1, <2>2
<1>5. s <= y
  BY <1>0, <1>3 DEF LoadRun, PureLoad
<1>6. s = y \/ token[s] < token[y]
  BY <1>0, <1>3, <1>5 DEF IInv, GroupOrder
<1>7. token[s] \in Int /\ token[y] \in Int /\ g \in Int
  BY <1>0, <1>1 DEF GroupInv, TokensOK, TypeInv, TypeOK, GID
<1>8. QED BY <1>4, <1>6, <1>7

LEMMA DispatchJoinOrder ==
  ASSUME IInv, NEW k \in Kinds, NEW c \in Nat, DispatchJoin(k, c)
  PROVE  Shape' /\ Order' /\ Blocked'
<1> DEFINE g == CurrentLoadGroupID
<1>0. GroupInv /\ TypeInv /\ CurrentOK /\ CurrentLive
  BY DEF IInv, GroupInv
<1>1. ~IsStore(k) /\ Occupy(k, c)
  BY DEF DispatchJoin
<1>2. /\ \A a \in Dispatched : token'[a] = token[a]
      /\ token'[n+1] = g /\ g \in CustomGroups /\ g # 0 /\ g \in Int
      /\ UNCHANGED <<CustomGroups, deps, current>>
  BY <1>0, <1>1, OccupyFacts, JoinGroups DEF DispatchJoin, TypeInv, TypeOK, GID
<1>3. /\ Dispatched' = Dispatched \cup {n + 1} /\ n \in Nat /\ n' = n + 1
      /\ \A a \in Dispatched : a \in Nat /\ a < n + 1 /\ a <= n
      /\ Dispatched = 1 .. n
  BY <1>0, <1>1, OccupyFacts DEF Dispatched
<1>4. ASSUME NEW a \in Dispatched, LoadRun(a, n)
      PROVE  n \in Dispatched /\ g = token[n] /\ (a = n \/ a < n)
  <2>1. n \in Dispatched /\ n > 0 /\ n \in a .. n /\ (a = n \/ a < n)
    BY <1>3
  <2>2. PureLoad(n)
    BY <1>4, <2>1 DEF LoadRun
  <2>3. QED BY <1>0, <1>2, <2>1, <2>2 DEF CurrentOK
<1>5. GroupOrder'
  <2>1. SUFFICES ASSUME NEW a \in Dispatched', NEW b \in Dispatched', a < b
                 PROVE  /\ IsStore(kind'[a]) \/ IsStore(kind'[b]) => token'[a] < token'[b]
                        /\ LoadRun(a, b)' => token'[a] <= token'[b]
    BY DEF GroupOrder
  <2>2. a \in Dispatched /\ kind'[a] = kind[a]
    BY <2>1, <1>0, <1>1, <1>3, OccupyFacts
  <2>3. CASE b \in Dispatched
    <3>1. /\ IsStore(kind[a]) \/ IsStore(kind[b]) => token[a] < token[b]
          /\ LoadRun(a, b) => token[a] <= token[b]
      BY <2>1, <2>2, <2>3 DEF IInv, GroupOrder
    <3>2. kind'[b] = kind[b] /\ (LoadRun(a, b)' <=> LoadRun(a, b))
      BY <2>2, <2>3, <1>0, <1>1, OccupyFacts, DispatchRuns
    <3>3. QED BY <3>1, <3>2, <2>2, <2>3, <1>2
  <2>4. CASE b = n + 1
    <3>1. kind'[b] = k /\ (LoadRun(a, b)' <=> LoadRun(a, n))
      BY <2>2, <2>4, <1>0, <1>1, OccupyFacts, DispatchRuns
    <3>2. IsStore(kind[a]) => token[a] < g
      BY <2>2, JoinAfterStores
    <3>3. LoadRun(a, n) => token[a] <= g
      <4>1. SUFFICES ASSUME LoadRun(a, n) PROVE token[a] <= token[n]
        BY <1>4, <2>2
      <4>2. CASE a = n
        BY <4>2, <1>2, <1>4, <2>2, <4>1
      <4>3. CASE a < n
        BY <4>1, <4>3, <1>4, <2>2 DEF IInv, GroupOrder
      <4>4. QED BY <4>1, <4>2, <4>3, <1>4, <2>2
    <3>4. QED BY <3>1, <3>2, <3>3, <2>2, <2>4, <1>1, <1>2
  <2>5. QED BY <2>3, <2>4, <1>3
<1>6. CurrentOK'
  <2>1. CurrentLoadGroupID' # 0 => CurrentLoadBarrierGroupID' <= CurrentLoadGroupID'
    BY <1>0, <1>2 DEF CurrentOK, current
  <2>2. CurrentLoadGroupID' = IF token'[n'] \in CustomGroups' THEN token'[n'] ELSE 0
    BY <1>2, <1>3 DEF current
  <2>3. UNCHANGED <<CurrentStoreGroupID, CurrentStoreBarrierGroupID>>
    BY <1>2 DEF current
  <2>4. QED BY <2>1, <2>2, <2>3, <1>1, <1>2, LoadKeepsStores DEF CurrentOK
<1>7. Shape'
  BY <1>1, <1>5, <1>6, DispatchYoungest DEF Shape
<1>8. Order'
  BY <1>1, <1>2, DispatchOrder
<1>9. ASSUME NEW a \in Dispatched, LoadRun(a, n), token[a] # g, ~Started(a)
      PROVE  \E d \in deps' : /\ d.to = g /\ d.data
                              /\ \E p \in a .. n : d.from = token[p]
  <2>1. n \in Dispatched /\ g = token[n] /\ a < n /\ a .. (n - 1) \subseteq a .. n
    BY <1>3, <1>4, <1>9
  <2>2. PICK d \in deps : /\ d.to = token[n] /\ d.data
                          /\ \E p \in a .. (n - 1) : d.from = token[p]
    BY <1>9, <2>1 DEF IInv, RunBlocked
  <2>3. QED BY <2>1, <2>2, <1>2
<1>10. Blocked'
  BY <1>1, <1>2, <1>9, DispatchBlocked
<1>11. QED BY <1>7, <1>8, <1>10

-----------------------------------------------------------------------------
(* The invariant holds, and what follows from it.                          *)

LEMMA InitIInv == Init => IInv
<1>1. Init => /\ Shape /\ Order /\ Blocked
  BY DEF Init, Dispatched, Shape, GroupOrder, CurrentOK, YoungestOK, Order,
     StoresInOrder, RunInOrder, StoresAfterStoreBarriers, Blocked,
     StoreBlocked, RunBlocked, BarrierBlocked
<1>2. QED BY <1>1, InitGroupInv DEF IInv, Shape, Order, Blocked

LEMMA NextIInv == IInv /\ [Next]_vars => IInv'
<1> SUFFICES ASSUME IInv, [Next]_vars PROVE IInv'
  OBVIOUS
<1>0. GroupInv /\ TypeInv /\ GroupInv'
  BY NextGroupInv DEF IInv, GroupInv
<1>1. Shape' /\ Order' /\ Blocked'
  <2>1. ASSUME NEW k \in Kinds, NEW c \in Nat, DispatchStore(k, c)
        PROVE  Shape' /\ Order' /\ Blocked'
    BY <2>1, DispatchStoreOrder
  <2>2. ASSUME NEW k \in Kinds, NEW c \in Nat, DispatchLoad(k, c)
        PROVE  Shape' /\ Order' /\ Blocked'
    BY <2>2, DispatchLoadOrder
  <2>3. ASSUME NEW k \in Kinds, NEW c \in Nat, DispatchJoin(k, c)
        PROVE  Shape' /\ Order' /\ Blocked'
    BY <2>3, DispatchJoinOrder
  <2>4. ASSUME NEW i \in Inst, Issue(i) PROVE Shape' /\ Order' /\ Blocked'
    BY <2>4, IssueOrder
  <2>5. ASSUME NEW i \in Inst, Execute(i) PROVE Shape' /\ Order' /\ Blocked'
    BY <2>5, ExecuteOrder
  <2>6. ASSUME Quiet PROVE Shape' /\ Order' /\ Blocked'
    BY <2>6, QuietOrder
  <2>7. QED
    BY <1>0, <2>1, <2>2, <2>3, <2>4, <2>5, <2>6, LatencyNat, QuietSteps
       DEF Next, Dispatch
<1>2. QED BY <1>0, <1>1 DEF IInv, Shape, Order, Blocked

\* Stores start after every older memory instruction, whatever is assumed or
\* known about aliasing: "A store may not pass a previous store" and "A store
\* may not pass a previous load or load barrier".
THEOREM StoresNeverPass == Spec => []StoresInOrder
<1>1. IInv => StoresInOrder
  BY DEF IInv
<1>2. QED BY <1>1, InitIInv, NextIInv, PTL DEF Spec

\* "A store may not pass a previous store barrier": a store starts after the
\* barriers before it have executed.
THEOREM StoreBarriersHold == Spec => []StoresAfterStoreBarriers
<1>1. IInv => StoresAfterStoreBarriers
  BY DEF IInv
<1>2. QED BY <1>1, InitIInv, NextIInv, PTL DEF Spec

-----------------------------------------------------------------------------
(* The inductive invariant for the loads.                                  *)

LoadBarrier(i) == kind[i].ld /\ kind[i].ldb

\* The group of a load barrier is younger than those of all older
\* instructions and older than those of all younger ones.
BarrierGroups ==
  \A i, k \in Dispatched : i < k /\ (LoadBarrier(i) \/ LoadBarrier(k))
    => token[i] < token[k]

\* The current load group is the youngest group with an instruction that loads.
LoadTop ==
  CurrentLoadGroupID # 0 =>
    \A i \in Dispatched : kind[i].ld => token[i] <= CurrentLoadGroupID

\* The youngest load barrier is the current one until it has executed.
CurrentBarrier ==
  \A i \in Dispatched :
    LoadBarrier(i) /\ ~Finished(i) /\ (\A m \in (i+1) .. n : ~LoadBarrier(m))
      => CurrentLoadBarrierGroupID = token[i]

\* If there are load barriers, there is a youngest one.
YoungestBarrier ==
  (\E i \in Dispatched : LoadBarrier(i)) =>
    \E i \in Dispatched : LoadBarrier(i) /\ \A m \in (i+1) .. n : ~LoadBarrier(m)

\* Why loads stay behind load barriers: as long as the barrier has not
\* started, the group of the load depends, by data, on the group of the
\* barrier or of an instruction between.
LoadBarrierBlocked ==
  \A i, j \in Dispatched :
    i < j /\ LoadBarrier(i) /\ PureLoad(j) /\ ~Started(i) =>
      \E d \in deps : /\ d.to = token[j] /\ d.data
                      /\ \E p \in i .. (j - 1) : d.from = token[p]

\* Why a load never joins a group that others wait for: the current load group
\* gets a successor from a store or a load barrier, which is current as long
\* as the group has an instruction to start.
FollowedOK ==
  /\ \A g \in followed : g < NextCustomGroupID
  /\ CurrentLoadGroupID # 0 /\ CurrentLoadGroupID \in followed =>
       \/ CurrentLoadBarrierGroupID = CurrentLoadGroupID
       \/ CurrentLoadGroupID <= CurrentStoreGroupID
       \/ \A i \in Members(CurrentLoadGroupID) : Started(i)

LInv ==
  /\ IInv
  /\ BarrierGroups /\ LoadTop /\ CurrentBarrier /\ YoungestBarrier
  /\ NoLoadPassesLoadBarrier /\ LoadBarrierBlocked
  /\ FollowedOK

-----------------------------------------------------------------------------
(* The queues.                                                             *)

\* The instructions that hold an entry of the load queue, of the store queue.
LQ == {i \in InFlight : kind[i].ld}
SQ == {i \in InFlight : IsStore(kind[i])}

QueueInv == TypeInv /\ QueuesBalanced

\* Instructions in flight are finitely many.
LEMMA QueuesFinite ==
  ASSUME TypeInv
  PROVE  IsFiniteSet(LQ) /\ IsFiniteSet(SQ)
<1>1. n \in Nat
  BY LSUAssumption DEF TypeInv, TypeOK
<1>2. IsFiniteSet(1 .. n)
  BY <1>1, FS_Interval
<1>3. LQ \subseteq 1 .. n /\ SQ \subseteq 1 .. n
  BY DEF LQ, SQ, InFlight, Dispatched
<1>4. QED BY <1>2, <1>3, FS_Subset

LEMMA InitQueues == Init => QueuesBalanced
<1> SUFFICES ASSUME Init PROVE QueuesBalanced
  OBVIOUS
<1>1. InFlight = {} /\ usedLQ = 0 /\ usedSQ = 0
  BY DEF Init, InFlight, Dispatched
<1>2. Cardinality({}) = 0
  BY FS_EmptySet
<1>3. {i \in InFlight : kind[i].ld} = {} /\ {i \in InFlight : IsStore(kind[i])} = {}
  BY <1>1
<1>4. QED BY <1>1, <1>2, <1>3, LSUAssumption DEF QueuesBalanced

\* Dispatching takes an entry in each queue the instruction needs, and there
\* is one.
LEMMA OccupyQueues ==
  ASSUME QueueInv, NEW k \in Kinds, NEW c \in Nat, Occupy(k, c)
  PROVE  QueuesBalanced'
<1> USE DEF QueueInv
<1>1. /\ Dispatched' = Dispatched \cup {n + 1} /\ n + 1 \notin Dispatched
      /\ \A i \in Dispatched : status'[i] = status[i] /\ kind'[i] = kind[i]
      /\ status'[n+1] = "dispatched" /\ kind'[n+1] = k
  BY OccupyFacts
<1>2. LQ' = IF k.ld THEN LQ \cup {n + 1} ELSE LQ
  BY <1>1 DEF LQ, InFlight
<1>3. SQ' = IF IsStore(k) THEN SQ \cup {n + 1} ELSE SQ
  BY <1>1 DEF SQ, InFlight
<1>4. n + 1 \notin LQ /\ n + 1 \notin SQ
  BY <1>1 DEF LQ, SQ, InFlight
<1>5. /\ usedLQ = Cardinality(LQ) /\ usedSQ = Cardinality(SQ)
      /\ usedLQ \in Int /\ usedSQ \in Int
  BY DEF QueuesBalanced, LQ, SQ, TypeInv, TypeOK
<1>6. usedLQ' = Cardinality(LQ')
  <2>1. CASE k.ld
    BY <2>1, <1>2, <1>4, <1>5, QueuesFinite, FS_AddElement DEF Occupy
  <2>2. CASE ~k.ld
    BY <2>2, <1>2, <1>5 DEF Occupy
  <2>3. QED BY <2>1, <2>2
<1>7. usedSQ' = Cardinality(SQ')
  <2>1. CASE IsStore(k)
    BY <2>1, <1>3, <1>4, <1>5, QueuesFinite, FS_AddElement DEF Occupy
  <2>2. CASE ~IsStore(k)
    BY <2>2, <1>3, <1>5 DEF Occupy
  <2>3. QED BY <2>1, <2>2
<1>8. /\ LQSize # 0 => usedLQ' <= LQSize
      /\ SQSize # 0 => usedSQ' <= SQSize
  BY <1>5, LSUAssumption DEF Occupy, IsAvailable, QueuesBalanced
<1>9. QED BY <1>6, <1>7, <1>8 DEF QueuesBalanced, LQ, SQ

\* Retiring gives the entries back.
LEMMA RetireQueues ==
  ASSUME QueueInv, NEW i \in Inst, Retire(i)
  PROVE  QueuesBalanced'
<1> USE DEF QueueInv
<1>1. /\ Dispatched' = Dispatched /\ Dispatched \subseteq Inst /\ i \in Dispatched
      /\ kind' = kind
      /\ status[i] = "executed" /\ status' = [status EXCEPT ![i] = "retired"]
  BY LSUAssumption DEF Retire, TypeInv, TypeOK, Dispatched, Inst
<1>2. /\ i \in InFlight
      /\ InFlight' = InFlight \ {i}
  BY <1>1 DEF InFlight, TypeInv, TypeOK
<1>3. /\ LQ' = LQ \ {i} /\ (i \in LQ <=> kind[i].ld)
      /\ SQ' = SQ \ {i} /\ (i \in SQ <=> IsStore(kind[i]))
  BY <1>1, <1>2 DEF LQ, SQ
<1>4. /\ usedLQ = Cardinality(LQ) /\ usedSQ = Cardinality(SQ)
      /\ usedLQ \in Int /\ usedSQ \in Int
  BY DEF QueuesBalanced, LQ, SQ, TypeInv, TypeOK
<1>5. /\ Cardinality(LQ \ {i}) = IF i \in LQ THEN Cardinality(LQ) - 1 ELSE Cardinality(LQ)
      /\ Cardinality(SQ \ {i}) = IF i \in SQ THEN Cardinality(SQ) - 1 ELSE Cardinality(SQ)
  BY QueuesFinite, FS_RemoveElement
<1>6. /\ usedLQ' = IF kind[i].ld THEN usedLQ - 1 ELSE usedLQ
      /\ usedSQ' = IF IsStore(kind[i]) THEN usedSQ - 1 ELSE usedSQ
  BY DEF Retire
<1>7. usedLQ' = Cardinality(LQ') /\ usedSQ' = Cardinality(SQ')
  BY <1>3, <1>4, <1>5, <1>6
<1>8. /\ LQSize # 0 => usedLQ' <= LQSize
      /\ SQSize # 0 => usedSQ' <= SQSize
  BY <1>4, <1>6, LSUAssumption DEF QueuesBalanced
<1>9. QED BY <1>7, <1>8 DEF QueuesBalanced, LQ, SQ

\* The other steps leave the entries and the instructions in flight alone.
LEMMA OtherQueues ==
  ASSUME QueueInv, UNCHANGED <<n, kind, usedLQ, usedSQ>>,
         \A i \in Dispatched : status'[i] = "retired" <=> status[i] = "retired"
  PROVE  QueuesBalanced'
<1>1. InFlight' = InFlight
  BY DEF InFlight, Dispatched
<1>2. QED BY <1>1 DEF QueueInv, QueuesBalanced

LEMMA NextQueues == QueueInv /\ [Next]_vars => QueueInv'
<1> SUFFICES ASSUME QueueInv, [Next]_vars PROVE QueueInv'
  OBVIOUS
<1>0. TypeInv /\ TypeInv' /\ Dispatched \subseteq Inst
  BY NextTypeInv, DispatchedInst DEF QueueInv
<1>1. ASSUME NEW k \in Kinds, NEW c \in Nat,
             DispatchStore(k, c) \/ DispatchLoad(k, c) \/ DispatchJoin(k, c)
      PROVE  QueuesBalanced'
  BY <1>1, OccupyQueues DEF DispatchStore, DispatchLoad, DispatchJoin
<1>2. ASSUME NEW i \in Inst, BecomeReady(i) \/ Issue(i) \/ Execute(i)
      PROVE  QueuesBalanced'
  <2>1. /\ UNCHANGED <<n, kind, usedLQ, usedSQ>>
        /\ status[i] # "retired"
        /\ \E s \in Statuses \ {"retired"} : status' = [status EXCEPT ![i] = s]
    BY <1>2 DEF BecomeReady, Issue, Execute, Statuses
  <2>2. \A j \in Dispatched : status'[j] = "retired" <=> status[j] = "retired"
    BY <2>1, <1>0 DEF TypeInv, TypeOK
  <2>3. QED BY <2>1, <2>2, OtherQueues
<1>3. ASSUME NEW i \in Inst, Retire(i) PROVE QueuesBalanced'
  BY <1>3, RetireQueues
<1>4. CASE CycleEvent
  BY <1>0, <1>4, OtherQueues DEF CycleEvent, QueueInv
<1>5. CASE UNCHANGED vars
  BY <1>0, <1>5, OtherQueues DEF vars, QueueInv
<1>6. QED
  BY <1>0, <1>1, <1>2, <1>3, <1>4, <1>5, LatencyNat DEF QueueInv, Next, Dispatch

\* The load and store queues are accounted for exactly: an entry is taken for
\* every instruction in flight that needs one, given back once, and never
\* more of them than the queue has.
THEOREM QueuesStayBalanced == Spec => []QueuesBalanced
<1>1. Init => QueueInv
  BY InitTypeInv, InitQueues DEF QueueInv
<1>2. QueueInv => QueuesBalanced
  BY DEF QueueInv
<1>3. QED BY <1>1, <1>2, NextQueues, PTL DEF Spec

-----------------------------------------------------------------------------
(* Load barriers and the assertions of the base class.                     *)

\* The part of the invariant that dispatching establishes for the groups.
LoadShape == BarrierGroups /\ LoadTop /\ CurrentBarrier /\ YoungestBarrier

\* The steps that start and finish nothing give no group a successor.
LEMMA QuietFollowed ==
  ASSUME \/ \E i \in Inst : BecomeReady(i) \/ Retire(i)
         \/ CycleEvent
         \/ UNCHANGED vars
  PROVE  followed' = followed
BY DEF BecomeReady, Retire, CycleEvent, vars

LEMMA QuietLoads ==
  ASSUME LInv, Quiet, followed' = followed
  PROVE  LoadShape' /\ NoLoadPassesLoadBarrier' /\ LoadBarrierBlocked' /\ FollowedOK'
<1> USE DEF LInv
<1>1. Dispatched' = Dispatched /\ Dispatched \subseteq Inst
  BY DispatchedInst DEF Quiet, Dispatched, IInv, GroupInv
<1>2. /\ \A i : LoadBarrier(i)' <=> LoadBarrier(i)
      /\ \A i : PureLoad(i)' <=> PureLoad(i)
  BY DEF Quiet, LoadBarrier, PureLoad
<1>3. \A i \in Dispatched : /\ Started(i)' <=> Started(i)
                            /\ Finished(i)' <=> Finished(i)
  BY <1>1 DEF Quiet
<1>4. /\ UNCHANGED <<n, kind, token, deps, NextCustomGroupID>>
      /\ UNCHANGED <<CurrentLoadGroupID, CurrentLoadBarrierGroupID, CurrentStoreGroupID>>
  BY DEF Quiet, current
<1>5. BarrierGroups' /\ LoadTop'
  BY <1>1, <1>2, <1>4 DEF BarrierGroups, LoadTop
<1>6. CurrentBarrier'
  BY <1>1, <1>2, <1>3, <1>4 DEF CurrentBarrier, LoadBarrier
<1>7. YoungestBarrier'
  BY <1>1, <1>2, <1>4 DEF YoungestBarrier, LoadBarrier
<1>8. NoLoadPassesLoadBarrier'
  BY <1>1, <1>3, <1>4 DEF NoLoadPassesLoadBarrier, Passes
<1>9. LoadBarrierBlocked'
  BY <1>1, <1>2, <1>3, <1>4 DEF LoadBarrierBlocked
<1>10. FollowedOK'
  BY <1>1, <1>3, <1>4 DEF FollowedOK, Members
<1>11. QED BY <1>5, <1>6, <1>7, <1>8, <1>9, <1>10 DEF LoadShape

LEMMA IssueLoads ==
  ASSUME LInv, NEW i \in Inst, Issue(i)
  PROVE  LoadShape' /\ NoLoadPassesLoadBarrier' /\ LoadBarrierBlocked' /\ FollowedOK'
<1>0. IInv /\ GroupInv
  BY DEF LInv, IInv
<1>1. /\ Dispatched' = Dispatched /\ Dispatched \subseteq Inst /\ i \in Dispatched
      /\ UNCHANGED <<n, kind, token, NextCustomGroupID, followed>>
      /\ UNCHANGED <<CurrentLoadGroupID, CurrentLoadBarrierGroupID, CurrentStoreGroupID>>
  BY <1>0, IssueFacts DEF current, Issue
<1>2. /\ \A a : LoadBarrier(a)' <=> LoadBarrier(a)
      /\ \A a : PureLoad(a)' <=> PureLoad(a)
  BY <1>1 DEF LoadBarrier, PureLoad
<1>3. \A a \in Dispatched : /\ Started(a)' <=> a = i \/ Started(a)
                            /\ Finished(a)' <=> Finished(a)
  BY <1>0, <1>1, IssueFacts
<1>4. BarrierGroups' /\ LoadTop'
  BY <1>1, <1>2 DEF BarrierGroups, LoadTop, LInv
<1>5. CurrentBarrier'
  BY <1>1, <1>2, <1>3 DEF CurrentBarrier, LoadBarrier, LInv
<1>6. YoungestBarrier'
  BY <1>1, <1>2 DEF YoungestBarrier, LoadBarrier, LInv
<1>7. \A d \in deps : d.to # token[i]
  BY <1>0, <1>1, IssueFacts DEF GroupInv, DepsOK, IsReady
<1>8. NoLoadPassesLoadBarrier'
  <2>1. SUFFICES ASSUME NEW a \in Dispatched, NEW b \in Dispatched,
                        LoadBarrier(a), PureLoad(b), a < b, Started(b)', ~Started(a)'
                 PROVE  FALSE
    BY <1>1, <1>2 DEF NoLoadPassesLoadBarrier, Passes, LoadBarrier, PureLoad
  <2>2. ~Started(a) /\ a # i
    BY <2>1, <1>3
  <2>3. CASE Started(b)
    BY <2>1, <2>2, <2>3 DEF LInv, NoLoadPassesLoadBarrier, Passes, LoadBarrier, PureLoad
  <2>4. CASE b = i
    BY <2>1, <2>2, <2>4, <1>7 DEF LInv, LoadBarrierBlocked
  <2>5. QED BY <2>1, <2>3, <2>4, <1>3
<1>9. \A d \in deps : d.data =>
        \E e \in deps' : e.from = d.from /\ e.to = d.to /\ e.data = d.data
  BY <1>0, IssueFacts
<1>10. LoadBarrierBlocked'
  <2>1. ASSUME NEW a \in Dispatched, NEW b \in Dispatched,
               a < b, LoadBarrier(a), PureLoad(b), ~Started(a)'
        PROVE  \E e \in deps' : /\ e.to = token[b] /\ e.data
                                /\ \E p \in a .. (b - 1) : e.from = token[p]
    <3>1. PICK d \in deps : /\ d.to = token[b] /\ d.data
                            /\ \E p \in a .. (b - 1) : d.from = token[p]
      BY <2>1, <1>3 DEF LoadBarrierBlocked, LInv
    <3>2. QED BY <3>1, <1>9
  <2>2. QED BY <1>1, <1>2, <2>1 DEF LoadBarrierBlocked
<1>11. FollowedOK'
  BY <1>1, <1>3 DEF FollowedOK, Members, LInv
<1>12. QED BY <1>4, <1>5, <1>6, <1>8, <1>10, <1>11 DEF LoadShape

\* A group with a load barrier that has not started is not followed by a load
\* that has: an instruction behind a load barrier starts after it.
LEMMA AfterLoadBarrier ==
  ASSUME LInv, NEW a \in Dispatched, NEW p \in Dispatched,
         LoadBarrier(a), a < p, Started(p)
  PROVE  Started(a)
<1>1. CASE IsStore(kind[p])
  BY <1>1 DEF LInv, IInv, StoresInOrder, Passes
<1>2. CASE ~IsStore(kind[p])
  BY <1>2 DEF LInv, NoLoadPassesLoadBarrier, Passes, LoadBarrier
<1>3. QED BY <1>1, <1>2

LEMMA ExecuteLoads ==
  ASSUME LInv, NEW i \in Inst, Execute(i)
  PROVE  LoadShape' /\ NoLoadPassesLoadBarrier' /\ LoadBarrierBlocked' /\ FollowedOK'
<1>0. IInv /\ GroupInv /\ n \in Nat /\ Dispatched = 1 .. n
  BY DEF LInv, IInv, GroupInv, TypeInv, TypeOK, Dispatched
<1>1. /\ Dispatched' = Dispatched /\ Dispatched \subseteq Inst /\ i \in Dispatched
      /\ UNCHANGED <<n, kind, token, NextCustomGroupID, followed>>
      /\ Started(i)
  BY <1>0, ExecuteFacts DEF Execute
<1>2. /\ \A a : LoadBarrier(a)' <=> LoadBarrier(a)
      /\ \A a : PureLoad(a)' <=> PureLoad(a)
  BY <1>1 DEF LoadBarrier, PureLoad
<1>3. \A a \in Dispatched : /\ Started(a)' <=> Started(a)
                            /\ Finished(a)' <=> a = i \/ Finished(a)
                            /\ Finished(a)' => Started(a)
  BY <1>0, <1>1, ExecuteFacts DEF Started, Finished
<1> DEFINE g == token[i]
           all == \A j \in Members(g) \ {i} : Finished(j)
<1>4. /\ CurrentLoadGroupID' = CurrentLoadGroupID \/ CurrentLoadGroupID' = 0
      /\ CurrentLoadGroupID' # 0 /\ CurrentLoadBarrierGroupID = CurrentLoadGroupID
           => CurrentLoadBarrierGroupID' = CurrentLoadBarrierGroupID
      /\ CurrentStoreGroupID' # CurrentStoreGroupID => CurrentStoreGroupID = g
      /\ CurrentStoreGroupID' # CurrentStoreGroupID /\ CurrentLoadGroupID' # 0
           => CurrentLoadGroupID # g
  BY DEF Execute, Forget, current
<1>5. BarrierGroups' /\ LoadTop'
  <2>1. BarrierGroups'
    BY <1>1, <1>2 DEF BarrierGroups, LInv
  <2>2. LoadTop'
    BY <1>1, <1>4 DEF LoadTop, LInv
  <2>3. QED BY <2>1, <2>2
<1>6. YoungestBarrier'
  BY <1>1, <1>2 DEF YoungestBarrier, LoadBarrier, LInv
<1>7. CurrentBarrier'
  <2>1. SUFFICES ASSUME NEW a \in Dispatched, LoadBarrier(a), ~Finished(a)',
                        \A m \in (a+1) .. n : ~LoadBarrier(m)
                 PROVE  CurrentLoadBarrierGroupID' = token[a]
    BY <1>1, <1>2 DEF CurrentBarrier, LoadBarrier
  <2>2. ~Finished(a) /\ a # i
    BY <2>1, <1>3
  <2>3. CurrentLoadBarrierGroupID = token[a]
    BY <2>1, <2>2 DEF CurrentBarrier, LInv
  <2>4. CASE all
    BY <2>2, <2>3, <2>4 DEF Execute, Forget, Members
  <2>5. CASE ~all
    BY <2>3, <2>5 DEF Execute, current
  <2>6. QED BY <2>4, <2>5
<1>8. NoLoadPassesLoadBarrier'
  BY <1>1, <1>3 DEF NoLoadPassesLoadBarrier, Passes, LInv
<1>9. LoadBarrierBlocked'
  <2>1. ASSUME NEW a \in Dispatched, NEW b \in Dispatched,
               a < b, LoadBarrier(a), PureLoad(b), ~Started(a)
        PROVE  \E e \in deps' : /\ e.to = token[b] /\ e.data
                                /\ \E p \in a .. (b - 1) : e.from = token[p]
    <3>1. PICK d \in deps : /\ d.to = token[b] /\ d.data
                            /\ \E p \in a .. (b - 1) : d.from = token[p]
      BY <2>1 DEF LoadBarrierBlocked, LInv
    <3>2. PICK p \in a .. (b - 1) : d.from = token[p]
      BY <3>1
    <3>3. CASE \A j \in Members(d.from) : j = i \/ Finished(j)
      <4>1. p \in Dispatched /\ p >= a /\ a \in Nat /\ p \in Nat
        BY <1>0
      <4>2. Started(p)
        BY <3>2, <3>3, <4>1, <1>3 DEF Members
      <4>3. QED BY <2>1, <4>1, <4>2, AfterLoadBarrier
    <3>4. QED BY <3>1, <3>3, <1>0, ExecuteFacts
  <2>2. QED BY <1>1, <1>2, <1>3, <2>1 DEF LoadBarrierBlocked
<1>10. FollowedOK'
  <2>1. SUFFICES ASSUME CurrentLoadGroupID' # 0, CurrentLoadGroupID' \in followed
                 PROVE  \/ CurrentLoadBarrierGroupID' = CurrentLoadGroupID'
                        \/ CurrentLoadGroupID' <= CurrentStoreGroupID'
                        \/ \A j \in Members(CurrentLoadGroupID)' : Started(j)'
    BY <1>1 DEF FollowedOK, LInv
  <2>2. CurrentLoadGroupID' = CurrentLoadGroupID /\ CurrentLoadGroupID # 0
    BY <2>1, <1>4
  <2>3. Members(CurrentLoadGroupID)' = Members(CurrentLoadGroupID)
    BY <2>2, <1>1 DEF Members
  <2>4. CASE CurrentLoadBarrierGroupID = CurrentLoadGroupID
    BY <2>1, <2>2, <2>4, <1>4
  <2>5. CASE CurrentLoadGroupID <= CurrentStoreGroupID /\ CurrentStoreGroupID' = CurrentStoreGroupID
    BY <2>2, <2>5
  <2>6. CASE CurrentLoadGroupID <= CurrentStoreGroupID /\ CurrentStoreGroupID' # CurrentStoreGroupID
    <3>1. CurrentStoreGroupID = g /\ CurrentLoadGroupID # g
      BY <2>1, <2>2, <2>6, <1>4
    <3>2. /\ CurrentLoadGroupID \in Int /\ CurrentLoadGroupID # 0 /\ CurrentLoadGroupID >= 0
          /\ CurrentStoreGroupID \in Int
      BY <2>2, <1>0 DEF GroupInv, TypeInv, TypeOK, GID
    <3>3. PICK s \in Dispatched : IsStore(kind[s]) /\ token[s] = CurrentStoreGroupID
      BY <2>6, <3>2, <1>0 DEF IInv, CurrentOK
    <3>4. s = i
      <4>1. s \in Int /\ i \in Int /\ token[s] = token[i] /\ token[i] \in Int
        BY <3>1, <3>2, <3>3, <1>0, <1>1
      <4>2. GroupOrder
        BY <1>0 DEF IInv
      <4>3. /\ s < i => token[s] < token[i]
            /\ i < s => token[i] < token[s]
        BY <4>2, <3>3, <1>1 DEF GroupOrder
      <4>4. QED BY <4>1, <4>3
    <3>5. ASSUME NEW j \in Members(CurrentLoadGroupID) PROVE Started(j)
      <4>1. j \in Dispatched /\ token[j] < token[s]
        BY <2>6, <3>1, <3>2, <3>3 DEF Members
      <4>2. j < s
        <5>1. s \in Int /\ j \in Int /\ token[s] \in Int /\ token[j] \in Int
          BY <4>1, <3>2, <3>3, <1>0 DEF Members
        <5>2. ~(s < j)
          BY <5>1, <4>1, <3>3, <1>0 DEF IInv, GroupOrder
        <5>3. QED BY <5>1, <5>2, <4>1
      <4>3. QED BY <4>1, <4>2, <3>3, <3>4, <1>0, <1>1 DEF IInv, StoresInOrder, Passes
    <3>6. QED BY <2>3, <3>5, <1>3 DEF Members
  <2>7. CASE \A j \in Members(CurrentLoadGroupID) : Started(j)
    BY <2>3, <2>7, <1>3 DEF Members
  <2>8. QED BY <2>1, <2>2, <2>4, <2>5, <2>6, <2>7 DEF FollowedOK, LInv
<1>11. QED BY <1>5, <1>6, <1>7, <1>8, <1>9, <1>10 DEF LoadShape

\* What a dispatch leaves alone, and what the new instruction is.
LEMMA DispatchKinds ==
  ASSUME TypeInv, NEW k \in Kinds, NEW c \in Nat, Occupy(k, c)
  PROVE  /\ \A a \in Dispatched : LoadBarrier(a)' <=> LoadBarrier(a)
         /\ \A a \in Dispatched : PureLoad(a)' <=> PureLoad(a)
         /\ \A m \in {n + 1} : LoadBarrier(m)' <=> k.ld /\ k.ldb
         /\ \A m \in {n + 1} : PureLoad(m)' <=> ~IsStore(k)
         /\ n \in Nat /\ n' = n + 1 /\ Dispatched = 1 .. n
         /\ Dispatched' = Dispatched \cup {n + 1} /\ n + 1 \notin Dispatched
BY OccupyFacts DEF LoadBarrier, PureLoad, Dispatched

\* A kind that does not store loads.
LEMMA LoadsOrStores ==
  ASSUME NEW k \in Kinds
  PROVE  /\ ~IsStore(k) => k.ld
         /\ k.ld \in BOOLEAN /\ k.ldb \in BOOLEAN
BY LSUAssumption DEF IsStore, KindType

LEMMA DispatchLoadsPass ==
  ASSUME LInv, NEW k \in Kinds, NEW c \in Nat, Occupy(k, c)
  PROVE  NoLoadPassesLoadBarrier' /\ YoungestBarrier'
<1>0. TypeInv
  BY DEF LInv, IInv, GroupInv
<1>1. NoLoadPassesLoadBarrier'
  <2>1. SUFFICES ASSUME NEW a \in Dispatched', NEW b \in Dispatched',
                        LoadBarrier(a)', PureLoad(b)', a < b, Started(b)'
                 PROVE  Started(a)'
    BY DEF NoLoadPassesLoadBarrier, Passes, LoadBarrier, PureLoad
  <2>2. b \in Dispatched /\ Started(b)
    BY <1>0, <2>1, OccupyFacts
  <2>3. a \in Dispatched
    BY <1>0, <2>1, <2>2, DispatchKinds
  <2>4. LoadBarrier(a)
    BY <1>0, <2>1, <2>3, DispatchKinds
  <2>5. QED BY <1>0, <2>1, <2>2, <2>3, <2>4, AfterLoadBarrier, OccupyFacts
<1>2. ASSUME \E i \in Dispatched' : LoadBarrier(i)'
      PROVE  \E i \in Dispatched' : LoadBarrier(i)' /\ \A m \in (i+1) .. n' : ~LoadBarrier(m)'
  <2>0. /\ Dispatched' = Dispatched \cup {n + 1} /\ n \in Nat /\ n' = n + 1
        /\ Dispatched = 1 .. n
    BY <1>0, DispatchKinds
  <2>1. CASE \A m \in {n + 1} : LoadBarrier(m)'
    <3>1. \A m \in {n + 1} : (m + 1) .. n' = {}
      BY <2>0
    <3>2. QED BY <2>1, <3>1, <2>0
  <2>2. CASE \E m \in {n + 1} : ~LoadBarrier(m)'
    <3>1. \E i \in Dispatched : LoadBarrier(i)
      BY <1>2, <2>2, <1>0, <2>0, DispatchKinds
    <3>2. PICK i \in Dispatched : LoadBarrier(i) /\ \A m \in (i+1) .. n : ~LoadBarrier(m)
      BY <3>1 DEF LInv, YoungestBarrier
    <3>3. \A m \in (i+1) .. n' : m \in {n + 1} \/ (m \in (i+1) .. n /\ m \in Dispatched)
      BY <2>0
    <3>4. QED BY <2>2, <3>2, <3>3, <1>0, <2>0, DispatchKinds
  <2>3. QED BY <2>1, <2>2
<1>3. QED BY <1>1, <1>2 DEF YoungestBarrier

\* Only the new instruction needs a dependency.
LEMMA DispatchLoadsBlocked ==
  ASSUME LInv, NEW k \in Kinds, NEW c \in Nat, Occupy(k, c),
         \A a \in Dispatched : token'[a] = token[a],
         deps \subseteq deps',
         ~IsStore(k) => \A a \in Dispatched : LoadBarrier(a) /\ ~Started(a) =>
           \E d \in deps' : /\ d.to = token'[n+1] /\ d.data
                            /\ \E p \in a .. n : d.from = token[p]
  PROVE  LoadBarrierBlocked'
<1>0. TypeInv
  BY DEF LInv, IInv, GroupInv
<1>1. /\ Dispatched' = Dispatched \cup {n + 1} /\ n \in Nat /\ Dispatched = 1 .. n
      /\ \A a \in Dispatched : a \in Nat /\ a .. n \subseteq Dispatched
      /\ \A a, b \in Dispatched : a .. (b - 1) \subseteq Dispatched
  BY <1>0, DispatchKinds
<1>2. SUFFICES ASSUME NEW a \in Dispatched', NEW b \in Dispatched',
                      a < b, LoadBarrier(a)', PureLoad(b)', ~Started(a)'
               PROVE  \E d \in deps' :
                        /\ d.to = token'[b] /\ d.data
                        /\ \E p \in a .. (b - 1) : d.from = token'[p]
  BY DEF LoadBarrierBlocked
<1>3. a \in Dispatched /\ ~Started(a) /\ LoadBarrier(a)
  <2>1. a \in Dispatched
    BY <1>1, <1>2
  <2>2. QED BY <2>1, <1>0, <1>2, OccupyFacts, DispatchKinds
<1>4. CASE b \in Dispatched
  <2>1. PICK d \in deps : /\ d.to = token[b] /\ d.data
                          /\ \E p \in a .. (b - 1) : d.from = token[p]
    BY <1>0, <1>2, <1>3, <1>4, DispatchKinds DEF LInv, LoadBarrierBlocked
  <2>2. QED BY <2>1, <1>1, <1>3, <1>4
<1>5. CASE b = n + 1
  <2>1. ~IsStore(k) /\ b - 1 = n
    BY <1>0, <1>1, <1>2, <1>5, DispatchKinds
  <2>2. PICK d \in deps' : /\ d.to = token'[n+1] /\ d.data
                           /\ \E p \in a .. n : d.from = token[p]
    BY <2>1, <1>3
  <2>3. QED BY <2>1, <2>2, <1>1, <1>3, <1>5
<1>6. QED BY <1>1, <1>4, <1>5

\* Of the load barriers that have not started, the youngest is current.
LEMMA UnstartedBarrier ==
  ASSUME LInv, NEW a \in Dispatched, LoadBarrier(a), ~Started(a)
  PROVE  \E p \in Dispatched : /\ p \in a .. n /\ LoadBarrier(p)
                               /\ CurrentLoadBarrierGroupID = token[p]
                               /\ token[p] \in CustomGroups
<1>0. GroupInv /\ n \in Nat /\ Dispatched = 1 .. n
  BY DEF LInv, IInv, GroupInv, TypeInv, TypeOK, Dispatched
<1>1. PICK p \in Dispatched : LoadBarrier(p) /\ \A m \in (p+1) .. n : ~LoadBarrier(m)
  BY DEF LInv, YoungestBarrier
<1>2. p \in a .. n
  <2>1. ~(p < a)
    <3>1. p < a => a \in (p + 1) .. n
      BY <1>0
    <3>2. QED BY <3>1, <1>1
  <2>2. QED BY <2>1, <1>0
<1>3. ~Started(p)
  BY <1>0, <1>2, AfterLoadBarrier
<1>4. token[p] \in CustomGroups /\ ~Finished(p)
  BY <1>0, <1>3, UnstartedGroup
<1>5. CurrentLoadBarrierGroupID = token[p]
  BY <1>1, <1>4 DEF LInv, CurrentBarrier
<1>6. QED BY <1>1, <1>2, <1>4, <1>5

\* A group that is not older than a load barrier's holds no instruction that
\* is older than the barrier.
LEMMA NotBeforeBarrier ==
  ASSUME LInv, NEW p \in Dispatched, LoadBarrier(p),
         NEW h \in CustomGroups, token[p] <= h
  PROVE  \E m \in Dispatched : m \in p .. n /\ token[m] = h /\ ~Finished(m)
<1>0. GroupInv /\ n \in Nat /\ Dispatched = 1 .. n /\ token[p] \in Int /\ h \in GID
  BY DispatchedInst DEF LInv, IInv, GroupInv, TypeInv, TypeOK, Dispatched, TokensOK
<1>1. PICK m \in Dispatched : token[m] = h /\ ~Finished(m)
  BY <1>0 DEF GroupInv, TokensOK
<1>2. m < p => token[m] < token[p]
  BY DEF LInv, BarrierGroups
<1>3. h \in Int
  BY <1>0, LSUAssumption DEF GID
<1>4. ~(m < p)
  BY <1>0, <1>1, <1>2, <1>3
<1>5. QED BY <1>0, <1>1, <1>4

\* A data dependency on a group that exists.
LEMMA DataDependency ==
  ASSUME NEW p, p # 0, NEW g
  PROVE  \E d \in Dependency(p, g, TRUE) : d.from = p /\ d.to = g /\ d.data
BY DEF Dependency

\* The dominator is the current load barrier or a younger group.
LEMMA DominatorAfterBarrier ==
  ASSUME LInv, NEW p \in Dispatched, LoadBarrier(p),
         CurrentLoadBarrierGroupID = token[p], token[p] \in CustomGroups
  PROVE  /\ ImmediateLoadDominator # 0
         /\ \E m \in Dispatched : m \in p .. n /\ token[m] = ImmediateLoadDominator
<1>1. GroupInv
  BY DEF LInv, IInv
<1>2. /\ token[p] \in Nat /\ token[p] # 0 /\ ImmediateLoadDominator \in Nat
      /\ token[p] <= ImmediateLoadDominator
  BY <1>1, LSUAssumption DEF ImmediateLoadDominator, GroupInv, TypeInv, TypeOK, GID
<1>3. ImmediateLoadDominator \in CustomGroups
  BY <1>1, <1>2, DominatorLive DEF GroupInv
<1>4. QED BY <1>2, <1>3, NotBeforeBarrier

\* A load is given a dependency on the current load barrier or, if it is a
\* load barrier, on a group that is not older.
LEMMA CurrentBarrierDep ==
  ASSUME LInv, NEW k \in Kinds, NEW g, NEW p \in Dispatched, LoadBarrier(p),
         CurrentLoadBarrierGroupID = token[p], token[p] \in CustomGroups
  PROVE  \E d \in LoadDeps(g, k) : /\ d.to = g /\ d.data
                                   /\ \E q \in p .. n : d.from = token[q]
<1>0. GroupInv /\ n \in Nat /\ Dispatched = 1 .. n /\ p \in p .. n
  BY DEF LInv, IInv, GroupInv, TypeInv, TypeOK, Dispatched
<1>1. CurrentLoadBarrierGroupID # 0
  BY <1>0, LSUAssumption DEF GroupInv, TypeInv, TypeOK, GID
<1>2. CASE k.ldb
  <2>1. PICK m \in Dispatched : m \in p .. n /\ token[m] = ImmediateLoadDominator
    BY DominatorAfterBarrier
  <2>2. PICK d \in Dependency(ImmediateLoadDominator, g, TRUE) :
               d.from = ImmediateLoadDominator /\ d.to = g /\ d.data
    BY DominatorAfterBarrier, DataDependency
  <2>3. Dependency(ImmediateLoadDominator, g, TRUE) \subseteq LoadDeps(g, k)
    BY <1>2 DEF LoadDeps
  <2>4. d \in LoadDeps(g, k) /\ d.from = token[m]
    BY <2>1, <2>2, <2>3
  <2>5. QED BY <2>1, <2>2, <2>4
<1>3. CASE ~k.ldb
  <2>1. PICK d \in Dependency(CurrentLoadBarrierGroupID, g, TRUE) :
               d.from = CurrentLoadBarrierGroupID /\ d.to = g /\ d.data
    BY <1>1 DEF Dependency
  <2>2. QED BY <1>0, <1>3, <2>1 DEF LoadDeps
<1>4. QED BY <1>2, <1>3

\* The dependencies dispatch gives a load keep it behind every older load
\* barrier.
LEMMA LoadDepsBarrier ==
  ASSUME LInv, NEW k \in Kinds, NEW g,
         NEW a \in Dispatched, LoadBarrier(a), ~Started(a)
  PROVE  \E d \in LoadDeps(g, k) : /\ d.to = g /\ d.data
                                   /\ \E p \in a .. n : d.from = token[p]
<1>0. n \in Nat /\ Dispatched = 1 .. n
  BY DEF LInv, IInv, GroupInv, TypeInv, TypeOK, Dispatched
<1>1. PICK p \in Dispatched : /\ p \in a .. n /\ LoadBarrier(p)
                              /\ CurrentLoadBarrierGroupID = token[p]
                              /\ token[p] \in CustomGroups
  BY UnstartedBarrier
<1>2. p .. n \subseteq a .. n
  BY <1>0, <1>1
<1>3. QED BY <1>1, <1>2, CurrentBarrierDep

\* A new group is younger than all others.
LEMMA NewGroupBarriers ==
  ASSUME LInv, NEW k \in Kinds, NEW c \in Nat, Occupy(k, c), NEW ds, NewGroup(ds),
         CurrentLoadGroupID' \in {NextCustomGroupID, CurrentLoadGroupID},
         k.ld => CurrentLoadGroupID' = NextCustomGroupID,
         k.ld /\ k.ldb => CurrentLoadBarrierGroupID' = NextCustomGroupID,
         ~(k.ld /\ k.ldb) => CurrentLoadBarrierGroupID' = CurrentLoadBarrierGroupID
  PROVE  LoadShape'
<1>0. IInv /\ TypeInv /\ GroupInv
  BY DEF LInv, IInv, GroupInv
<1>1. /\ \A a \in Dispatched : token'[a] = token[a]
      /\ token'[n+1] = NextCustomGroupID
      /\ NextCustomGroupID \in Nat /\ NextCustomGroupID # 0
  BY <1>0, NewGroupShape
<1>2. \A a \in Dispatched : token[a] \in Int /\ token[a] < NextCustomGroupID
  BY <1>0, <1>1 DEF GroupInv, TokensOK
<1>3. /\ n \in Nat /\ n' = n + 1 /\ Dispatched = 1 .. n
      /\ Dispatched' = Dispatched \cup {n + 1} /\ n + 1 \notin Dispatched
  BY <1>0, DispatchKinds
<1>4. BarrierGroups'
  <2>1. SUFFICES ASSUME NEW a \in Dispatched', NEW b \in Dispatched', a < b,
                        LoadBarrier(a)' \/ LoadBarrier(b)'
                 PROVE  token'[a] < token'[b]
    BY DEF BarrierGroups
  <2>2. a \in Dispatched
    BY <2>1, <1>3
  <2>3. CASE b \in Dispatched
    <3>1. LoadBarrier(a) \/ LoadBarrier(b)
      BY <1>0, <2>1, <2>2, <2>3, DispatchKinds
    <3>2. QED BY <2>1, <2>2, <2>3, <3>1, <1>1 DEF LInv, BarrierGroups
  <2>4. CASE b = n + 1
    BY <2>2, <2>4, <1>1, <1>2
  <2>5. QED BY <2>3, <2>4, <1>3
<1>5. LoadTop'
  <2>1. SUFFICES ASSUME CurrentLoadGroupID' # 0, NEW a \in Dispatched', kind'[a].ld
                 PROVE  token'[a] <= CurrentLoadGroupID'
    BY DEF LoadTop
  <2>2. CASE CurrentLoadGroupID' = NextCustomGroupID
    BY <2>2, <1>1, <1>2, <1>3
  <2>3. CASE CurrentLoadGroupID' = CurrentLoadGroupID /\ ~k.ld
    <3>1. a \in Dispatched /\ kind[a].ld
      BY <1>0, <1>3, <2>1, <2>3, OccupyFacts
    <3>2. QED BY <2>1, <2>3, <3>1, <1>1 DEF LInv, LoadTop
  <2>4. QED BY <2>2, <2>3
<1>6. CurrentBarrier'
  <2>1. SUFFICES ASSUME NEW a \in Dispatched', LoadBarrier(a)', ~Finished(a)',
                        \A m \in (a+1) .. n' : ~LoadBarrier(m)'
                 PROVE  CurrentLoadBarrierGroupID' = token'[a]
    BY DEF CurrentBarrier
  <2>2. CASE a = n + 1
    <3>1. k.ld /\ k.ldb
      BY <1>0, <2>1, <2>2, DispatchKinds
    <3>2. QED BY <2>2, <3>1, <1>1
  <2>3. CASE a \in Dispatched
    <3>1. \A m \in {n + 1} : m \in (a+1) .. n' /\ ~LoadBarrier(m)'
      BY <2>1, <2>3, <1>3
    <3>2. ~(k.ld /\ k.ldb)
      BY <1>0, <3>1, DispatchKinds
    <3>3. \A m \in (a+1) .. n : m \in (a+1) .. n' /\ m \in Dispatched
      BY <2>3, <1>3
    <3>4. LoadBarrier(a) /\ ~Finished(a) /\ \A m \in (a+1) .. n : ~LoadBarrier(m)
      BY <1>0, <2>1, <2>3, <3>3, DispatchKinds, OccupyFacts
    <3>5. QED BY <2>3, <3>2, <3>4, <1>1 DEF LInv, CurrentBarrier
  <2>4. QED BY <2>2, <2>3, <1>3
<1>7. QED BY <1>4, <1>5, <1>6, DispatchLoadsPass DEF LoadShape

LEMMA DispatchStoreLoads ==
  ASSUME LInv, NEW k \in Kinds, NEW c \in Nat, DispatchStore(k, c)
  PROVE  LoadShape' /\ NoLoadPassesLoadBarrier' /\ LoadBarrierBlocked' /\ FollowedOK'
<1> DEFINE g == NextCustomGroupID
<1>0. IInv /\ TypeInv /\ GroupInv
  BY DEF LInv, IInv, GroupInv
<1>1. IsStore(k) /\ Occupy(k, c) /\ NewGroup(StoreDeps(g, k))
  BY DEF DispatchStore
<1>2. /\ \A a \in Dispatched : token'[a] = token[a]
      /\ \A h \in CustomGroups \cup {0} : h \in Int /\ h < g
      /\ g \in Nat /\ g # 0 /\ g \in GID
  BY <1>0, <1>1, NewGroupShape, OccupyType
<1>3. LoadShape'
  BY <1>1, NewGroupBarriers DEF DispatchStore
<1>4. deps \subseteq deps'
  BY <1>1 DEF NewGroup
<1>5. LoadBarrierBlocked'
  BY <1>1, <1>2, <1>4, DispatchLoadsBlocked
<1>6. FollowedOK'
  <2>1. \A d \in StoreDeps(g, k) : d.from \in Int /\ d.from < g
    BY <1>0, <1>2, StoreDepsGood DEF GoodDeps
  <2>2. NextCustomGroupID' = g + 1 /\ followed' = followed \cup {d.from : d \in StoreDeps(g, k)}
    BY <1>1 DEF NewGroup
  <2>3. \A h \in followed' : h < NextCustomGroupID'
    <3>1. \A h \in followed : h \in Int /\ h < g
      BY <1>0, LSUAssumption DEF LInv, FollowedOK, TypeInv, TypeOK, GID
    <3>2. \A h \in followed' : h \in Int /\ h < g
      BY <3>1, <2>1, <2>2
    <3>3. QED BY <3>2, <2>2, <1>2
  <2>4. CurrentLoadGroupID' <= CurrentStoreGroupID'
    BY <1>0, <1>2 DEF DispatchStore, GroupInv, CurrentLive
  <2>5. QED BY <2>3, <2>4 DEF FollowedOK
<1>7. QED BY <1>1, <1>3, <1>5, <1>6, DispatchLoadsPass

LEMMA DispatchLoadLoads ==
  ASSUME LInv, NEW k \in Kinds, NEW c \in Nat, DispatchLoad(k, c)
  PROVE  LoadShape' /\ NoLoadPassesLoadBarrier' /\ LoadBarrierBlocked' /\ FollowedOK'
<1> DEFINE g == NextCustomGroupID
<1>0. IInv /\ TypeInv /\ GroupInv
  BY DEF LInv, IInv, GroupInv
<1>1. ~IsStore(k) /\ k.ld /\ Occupy(k, c) /\ NewGroup(LoadDeps(g, k))
  BY LoadsOrStores DEF DispatchLoad
<1>2. /\ \A a \in Dispatched : token'[a] = token[a]
      /\ token'[n+1] = g
      /\ \A h \in CustomGroups \cup {0} : h \in Int /\ h < g
      /\ g \in Nat /\ g # 0 /\ g \in GID
  BY <1>0, <1>1, NewGroupShape, OccupyType
<1>3. LoadShape'
  BY <1>1, NewGroupBarriers DEF DispatchLoad
<1>4. deps \subseteq deps' /\ LoadDeps(g, k) \subseteq deps'
  BY <1>1 DEF NewGroup
<1>5. LoadBarrierBlocked'
  <2>1. \A a \in Dispatched : LoadBarrier(a) /\ ~Started(a) =>
          \E d \in deps' : /\ d.to = token'[n+1] /\ d.data
                           /\ \E p \in a .. n : d.from = token[p]
    BY <1>2, <1>4, LoadDepsBarrier
  <2>2. QED BY <1>1, <1>2, <1>4, <2>1, DispatchLoadsBlocked
<1>6. FollowedOK'
  <2>1. \A d \in LoadDeps(g, k) : d.from \in Int /\ d.from < g
    BY <1>0, <1>2, LoadDepsGood DEF GoodDeps
  <2>2. NextCustomGroupID' = g + 1 /\ followed' = followed \cup {d.from : d \in LoadDeps(g, k)}
    BY <1>1 DEF NewGroup
  <2>3. \A h \in followed' : h \in Int /\ h < g
    <3>1. \A h \in followed : h \in Int /\ h < g
      BY <1>0, LSUAssumption DEF LInv, FollowedOK, TypeInv, TypeOK, GID
    <3>2. QED BY <3>1, <2>1, <2>2
  <2>4. CurrentLoadGroupID' = g
    BY DEF DispatchLoad
  <2>5. CurrentLoadGroupID' \notin followed'
    BY <2>3, <2>4, <1>2
  <2>6. \A h \in followed' : h < NextCustomGroupID'
    BY <2>2, <2>3, <1>2
  <2>7. QED BY <2>5, <2>6 DEF FollowedOK
<1>7. QED BY <1>1, <1>3, <1>5, <1>6, DispatchLoadsPass

\* A load that is put into the current load group: the group exists, has an
\* instruction to start, and is younger than the current store and load
\* barrier.
LEMMA JoinTarget ==
  ASSUME GroupInv, NEW k \in Kinds, ~ShouldCreateANewGroup(k)
  PROVE  /\ CurrentLoadGroupID \in CustomGroups /\ CurrentLoadGroupID \in Nat
         /\ CurrentLoadGroupID # 0 /\ ~IsExecuting(CurrentLoadGroupID)
         /\ CurrentLoadGroupID > CurrentStoreGroupID
         /\ CurrentLoadGroupID > CurrentLoadBarrierGroupID
         /\ CurrentStoreGroupID \in Nat /\ CurrentLoadBarrierGroupID \in Nat
         /\ \E x \in Dispatched : token[x] = CurrentLoadGroupID /\ ~Started(x)
<1>1. /\ CurrentLoadGroupID \in CustomGroups /\ CurrentLoadGroupID \in Nat
      /\ CurrentLoadGroupID # 0 /\ ~IsExecuting(CurrentLoadGroupID)
      /\ CurrentLoadGroupID > CurrentStoreGroupID
      /\ CurrentLoadGroupID > CurrentLoadBarrierGroupID
      /\ CurrentStoreGroupID \in Nat /\ CurrentLoadBarrierGroupID \in Nat
  BY LSUAssumption DEF ShouldCreateANewGroup, ImmediateLoadDominator, GroupInv,
     CurrentLive, TypeInv, TypeOK, GID
<1>2. QED BY <1>1, NotExecuting DEF GroupInv

\* No group has been told to wait for the group a load is put into: the
\* assertion of MemoryGroup::addInstruction.
LEMMA JoinUnfollowed ==
  ASSUME LInv, NEW k \in Kinds, ~ShouldCreateANewGroup(k)
  PROVE  CurrentLoadGroupID \notin followed
<1>1. GroupInv
  BY DEF LInv, IInv
<1>2. PICK x \in Dispatched : token[x] = CurrentLoadGroupID /\ ~Started(x)
  BY <1>1, JoinTarget
<1>3. QED BY <1>1, <1>2, JoinTarget DEF LInv, FollowedOK, Members

\* The group a load is put into is younger than every load barrier's.
LEMMA JoinAfterBarriers ==
  ASSUME LInv, NEW k \in Kinds, ~ShouldCreateANewGroup(k),
         NEW a \in Dispatched, LoadBarrier(a)
  PROVE  token[a] < CurrentLoadGroupID
<1> DEFINE g == CurrentLoadGroupID
<1>0. GroupInv /\ n \in Nat /\ Dispatched = 1 .. n
  BY DEF LInv, IInv, GroupInv, TypeInv, TypeOK, Dispatched
<1>1. PICK x \in Dispatched : token[x] = g /\ ~Started(x)
  BY <1>0, JoinTarget
<1>2. g \in Nat /\ g # 0 /\ g > CurrentLoadBarrierGroupID /\ CurrentLoadBarrierGroupID \in Nat
  BY <1>0, JoinTarget
<1>3. token[a] \in Int /\ token[a] <= g
  BY <1>0, <1>2 DEF LInv, LoadTop, LoadBarrier, GroupInv, TokensOK
<1>4. SUFFICES ASSUME token[a] = g PROVE FALSE
  BY <1>2, <1>3
<1>5. a = x
  <2>1. /\ a < x => token[a] < token[x]
        /\ x < a => token[x] < token[a]
    BY DEF LInv, BarrierGroups
  <2>2. QED BY <2>1, <1>0, <1>1, <1>2, <1>4
<1>6. PICK p \in Dispatched : /\ p \in a .. n /\ LoadBarrier(p)
                              /\ CurrentLoadBarrierGroupID = token[p]
  BY <1>1, <1>5, UnstartedBarrier
<1>7. a < p => token[a] < token[p]
  BY DEF LInv, BarrierGroups
<1>8. QED BY <1>0, <1>2, <1>4, <1>6, <1>7

LEMMA DispatchJoinLoads ==
  ASSUME LInv, NEW k \in Kinds, NEW c \in Nat, DispatchJoin(k, c)
  PROVE  LoadShape' /\ NoLoadPassesLoadBarrier' /\ LoadBarrierBlocked' /\ FollowedOK'
<1> DEFINE g == CurrentLoadGroupID
<1>0. IInv /\ TypeInv /\ GroupInv
  BY DEF LInv, IInv, GroupInv
<1>1. ~IsStore(k) /\ k.ld /\ ~k.ldb /\ Occupy(k, c) /\ ~ShouldCreateANewGroup(k)
  BY LoadsOrStores DEF DispatchJoin, ShouldCreateANewGroup
<1>2. /\ \A a \in Dispatched : token'[a] = token[a]
      /\ token'[n+1] = g
      /\ UNCHANGED <<deps, followed, NextCustomGroupID>>
      /\ UNCHANGED <<CurrentLoadGroupID, CurrentLoadBarrierGroupID, CurrentStoreGroupID>>
  BY <1>0, <1>1, OccupyFacts DEF DispatchJoin, current, TypeInv, TypeOK
<1>3. /\ n \in Nat /\ n' = n + 1 /\ Dispatched = 1 .. n
      /\ Dispatched' = Dispatched \cup {n + 1} /\ n + 1 \notin Dispatched
  BY <1>0, <1>1, DispatchKinds
<1>4. PICK x \in Dispatched : token[x] = g /\ ~Started(x)
  BY <1>0, <1>1, JoinTarget
<1>5. g \in Nat /\ g # 0 /\ g > CurrentLoadBarrierGroupID /\ CurrentLoadBarrierGroupID \in Nat
  BY <1>0, <1>1, JoinTarget
<1>6. ASSUME NEW a \in Dispatched, LoadBarrier(a)
      PROVE  token[a] < g
  BY <1>1, <1>6, JoinAfterBarriers
<1>7. BarrierGroups'
  <2>1. SUFFICES ASSUME NEW a \in Dispatched', NEW b \in Dispatched', a < b,
                        LoadBarrier(a)' \/ LoadBarrier(b)'
                 PROVE  token'[a] < token'[b]
    BY DEF BarrierGroups
  <2>2. a \in Dispatched
    BY <2>1, <1>3
  <2>3. CASE b \in Dispatched
    <3>1. LoadBarrier(a) \/ LoadBarrier(b)
      BY <1>0, <1>1, <2>1, <2>2, <2>3, DispatchKinds
    <3>2. QED BY <2>1, <2>2, <2>3, <3>1, <1>2 DEF LInv, BarrierGroups
  <2>4. CASE b = n + 1
    <3>1. LoadBarrier(a)
      BY <1>0, <1>1, <2>1, <2>2, <2>4, DispatchKinds
    <3>2. QED BY <2>2, <2>4, <3>1, <1>2, <1>6
  <2>5. QED BY <2>3, <2>4, <1>3
<1>8. LoadTop'
  <2>1. \A a \in Dispatched : kind'[a] = kind[a]
    BY <1>0, <1>1, OccupyFacts
  <2>2. QED BY <2>1, <1>2, <1>3, <1>5 DEF LInv, LoadTop
<1>9. CurrentBarrier'
  <2>1. SUFFICES ASSUME NEW a \in Dispatched', LoadBarrier(a)', ~Finished(a)',
                        \A m \in (a+1) .. n' : ~LoadBarrier(m)'
                 PROVE  CurrentLoadBarrierGroupID' = token'[a]
    BY DEF CurrentBarrier
  <2>2. a \in Dispatched
    BY <1>0, <1>1, <2>1, <1>3, DispatchKinds
  <2>3. \A m \in (a+1) .. n : m \in (a+1) .. n' /\ m \in Dispatched
    BY <2>2, <1>3
  <2>4. LoadBarrier(a) /\ ~Finished(a) /\ \A m \in (a+1) .. n : ~LoadBarrier(m)
    BY <1>0, <1>1, <2>1, <2>2, <2>3, DispatchKinds, OccupyFacts
  <2>5. QED BY <2>2, <2>4, <1>2 DEF LInv, CurrentBarrier
<1>10. LoadBarrierBlocked'
  <2>1. ASSUME NEW a \in Dispatched, LoadBarrier(a), ~Started(a)
        PROVE  \E d \in deps' : /\ d.to = token'[n+1] /\ d.data
                                /\ \E p \in a .. n : d.from = token[p]
    <3>1. token[a] < token[x]
      BY <2>1, <1>4, <1>6
    <3>2. a < x
      <4>1. x < a => token[x] < token[a]
        BY <2>1 DEF LInv, BarrierGroups
      <4>2. token[a] \in Int
        BY <1>0 DEF GroupInv, TokensOK
      <4>3. QED BY <3>1, <4>1, <4>2, <1>3, <1>4, <1>5
    <3>3. PureLoad(x)
      <4>1. SUFFICES ASSUME IsStore(kind[x]) PROVE FALSE
        BY DEF PureLoad
      <4>2. token[x] < g
        BY <4>1, <1>0, JoinAfterStores
      <4>3. QED BY <4>2, <1>4, <1>5
    <3>4. PICK d \in deps : /\ d.to = token[x] /\ d.data
                            /\ \E p \in a .. (x - 1) : d.from = token[p]
      BY <2>1, <3>2, <3>3 DEF LInv, LoadBarrierBlocked
    <3>5. a .. (x - 1) \subseteq a .. n
      BY <1>3
    <3>6. QED BY <3>4, <3>5, <1>2, <1>4
  <2>2. QED BY <1>1, <1>2, <2>1, DispatchLoadsBlocked
<1>11. FollowedOK'
  BY <1>1, <1>2, JoinUnfollowed DEF LInv, FollowedOK
<1>12. QED BY <1>1, <1>7, <1>8, <1>9, <1>10, <1>11, DispatchLoadsPass DEF LoadShape

LEMMA InitLInv == Init => LInv
<1> SUFFICES ASSUME Init PROVE LInv
  OBVIOUS
<1>1. IInv
  BY InitIInv
<1>2. /\ Dispatched = {} /\ followed = {} /\ CurrentLoadGroupID = 0
  BY DEF Init, Dispatched
<1>3. QED
  BY <1>1, <1>2 DEF LInv, BarrierGroups, LoadTop, CurrentBarrier, YoungestBarrier,
     NoLoadPassesLoadBarrier, LoadBarrierBlocked, FollowedOK

LEMMA NextLInv == LInv /\ [Next]_vars => LInv'
<1> SUFFICES ASSUME LInv, [Next]_vars PROVE LInv'
  OBVIOUS
<1> DEFINE LoadsKept == /\ LoadShape' /\ NoLoadPassesLoadBarrier'
                        /\ LoadBarrierBlocked' /\ FollowedOK'
<1>0. TypeInv /\ IInv'
  BY NextIInv DEF LInv, IInv, GroupInv
<1>1. ASSUME NEW k \in Kinds, NEW c \in Nat, DispatchStore(k, c) PROVE LoadsKept
  BY <1>1, DispatchStoreLoads
<1>2. ASSUME NEW k \in Kinds, NEW c \in Nat, DispatchLoad(k, c) PROVE LoadsKept
  BY <1>2, DispatchLoadLoads
<1>3. ASSUME NEW k \in Kinds, NEW c \in Nat, DispatchJoin(k, c) PROVE LoadsKept
  BY <1>3, DispatchJoinLoads
<1>4. ASSUME NEW i \in Inst, Issue(i) PROVE LoadsKept
  BY <1>4, IssueLoads
<1>5. ASSUME NEW i \in Inst, Execute(i) PROVE LoadsKept
  BY <1>5, ExecuteLoads
<1>6. ASSUME \/ \E i \in Inst : BecomeReady(i) \/ Retire(i)
             \/ CycleEvent
             \/ UNCHANGED vars
      PROVE  LoadsKept
  BY <1>0, <1>6, QuietSteps, QuietFollowed, QuietLoads
<1> HIDE DEF LoadsKept
<1>7. LoadsKept
  BY <1>1, <1>2, <1>3, <1>4, <1>5, <1>6, LatencyNat DEF Next, Dispatch
<1>8. QED BY <1>0, <1>7 DEF LoadsKept, LInv, LoadShape

\* "A younger load cannot pass a older load barrier", whatever is assumed or
\* known about aliasing.
THEOREM LoadBarriersHold == Spec => []NoLoadPassesLoadBarrier
<1>1. LInv => NoLoadPassesLoadBarrier
  BY DEF LInv
<1>2. QED BY <1>1, InitLInv, NextLInv, PTL DEF Spec

\* The assertions of the base class never fail: a load joins a group no other
\* group waits for, an instruction is issued to a group that still has one to
\* issue, and a group with a started instruction waits for nothing.
THEOREM AssertionsHold == Spec => []GroupAssertions
<1>1. ASSUME LInv PROVE GroupAssertions
  <2>1. GroupInv /\ Dispatched \subseteq Inst
    BY <1>1, DispatchedInst DEF LInv, IInv, GroupInv
  <2>2. \A k \in Kinds : ~ShouldCreateANewGroup(k) => CurrentLoadGroupID \notin followed
    BY <1>1, JoinUnfollowed
  <2>3. \A i \in Dispatched : status[i] = "ready" => ~IsExecuting(token[i])
    BY DEF IsExecuting, Members, Started
  <2>4. \A i \in Dispatched : status[i] \in {"ready", "issued"} => IsReady(token[i])
    BY <2>1 DEF GroupInv, DepsOK
  <2>5. QED BY <2>2, <2>3, <2>4 DEF GroupAssertions
<1>2. QED BY <1>1, InitLInv, NextLInv, PTL DEF Spec

-----------------------------------------------------------------------------
(* Load barriers and the loads before them.                                *)

\* A load barrier may not pass a previous load, as far as the code enforces it:
\* the loads dispatched since the last store.  A barrier has a group of its own,
\* and the groups of a run of loads start in order.  No assumption is made
\* about aliasing.
THEOREM BarriersEndRuns == Spec => []NoLoadBarrierPassesRun
<1>1. ASSUME LInv, NEW i \in Dispatched, NEW j \in Dispatched,
             LoadRun(i, j), kind[j].ldb, i < j, Started(j)
      PROVE  Started(i)
  <2>0. /\ IInv /\ GroupInv /\ n \in Nat /\ Dispatched = 1 .. n
        /\ Dispatched \subseteq Inst
    BY <1>1, DispatchedInst DEF LInv, IInv, GroupInv, TypeInv, TypeOK, Dispatched
  <2>1. LoadBarrier(j)
    <3>1. kind[j] \in Kinds
      BY <2>0 DEF GroupInv, TypeInv, TypeOK
    <3>2. PureLoad(j)
      BY <1>1, <2>0 DEF LoadRun
    <3>3. QED BY <3>1, <3>2, <1>1, LoadsOrStores DEF LoadBarrier, PureLoad
  <2>2. token[i] # token[j]
    <3>1. token[i] < token[j]
      BY <1>1, <2>0, <2>1 DEF LInv, BarrierGroups
    <3>2. token[i] \in Int
      BY <2>0 DEF GroupInv, TokensOK
    <3>3. QED BY <3>1, <3>2
  <2>3. QED BY <1>1, <2>0, <2>2 DEF IInv, RunInOrder
<1>2. LInv => NoLoadBarrierPassesRun
  BY <1>1 DEF NoLoadBarrierPassesRun, Passes, LoadRun, PureLoad
<1>3. QED BY <1>2, InitLInv, NextLInv, PTL DEF Spec

-----------------------------------------------------------------------------
(* Nothing known about aliasing: the unit is strict.                       *)

\* No instruction has a traced access and the NoAlias flag is not set.
Strict == ~AssumeNoAlias /\ \A k \in Kinds : k.md = NoMD

\* What every younger instruction waits for.
Fence(i) == IsStore(kind[i]) \/ LoadBarrier(i)

\* An instruction starts after every older fence has executed.
StrictOrder ==
  \A i, j \in Dispatched : i < j /\ Fence(i) /\ Started(j) => Finished(i)

\* Why: as long as the fence has not executed, the group of the younger
\* instruction depends, by data, on the group of the fence or of a younger
\* instruction.
StrictBlocked ==
  \A i, j \in Dispatched :
    i < j /\ Fence(i) /\ ~Finished(i) =>
      \E d \in deps : /\ d.to = token[j] /\ d.data
                      /\ \E p \in i .. (j - 1) : d.from = token[p]

SInv == LInv /\ StrictOrder /\ StrictBlocked

LEMMA QuietStrict ==
  ASSUME SInv, Quiet
  PROVE  StrictOrder' /\ StrictBlocked'
<1>1. Dispatched' = Dispatched /\ Dispatched \subseteq Inst
  BY DispatchedInst DEF Quiet, Dispatched, SInv, LInv, IInv, GroupInv
<1>2. \A i : Fence(i)' <=> Fence(i)
  BY DEF Quiet, LoadBarrier, Fence
<1>3. \A i \in Dispatched : /\ Started(i)' <=> Started(i)
                            /\ Finished(i)' <=> Finished(i)
  BY <1>1 DEF Quiet
<1>4. UNCHANGED <<token, deps>>
  BY DEF Quiet
<1>5. StrictOrder'
  BY <1>1, <1>2, <1>3 DEF SInv, StrictOrder
<1>6. StrictBlocked'
  BY <1>1, <1>2, <1>3, <1>4 DEF SInv, StrictBlocked
<1>7. QED BY <1>5, <1>6

LEMMA IssueStrict ==
  ASSUME SInv, NEW i \in Inst, Issue(i)
  PROVE  StrictOrder' /\ StrictBlocked'
<1>0. GroupInv
  BY DEF SInv, LInv, IInv
<1>1. /\ Dispatched' = Dispatched /\ Dispatched \subseteq Inst /\ i \in Dispatched
      /\ UNCHANGED <<kind, token>>
  BY <1>0, IssueFacts
<1>2. \A a : Fence(a)' <=> Fence(a)
  BY <1>1 DEF Fence, LoadBarrier
<1>3. \A a \in Dispatched : /\ Started(a)' <=> a = i \/ Started(a)
                            /\ Finished(a)' <=> Finished(a)
  BY <1>0, <1>1, IssueFacts
<1>4. \A d \in deps : d.to # token[i]
  BY <1>0, <1>1, IssueFacts DEF GroupInv, DepsOK, IsReady
<1>5. StrictOrder'
  <2>1. SUFFICES ASSUME NEW a \in Dispatched, NEW b \in Dispatched,
                        Fence(a), a < b, Started(b)', ~Finished(a)
                 PROVE  FALSE
    BY <1>1, <1>2, <1>3 DEF StrictOrder
  <2>2. CASE Started(b)
    BY <2>1, <2>2 DEF SInv, StrictOrder
  <2>3. CASE b = i
    BY <2>1, <2>3, <1>4 DEF SInv, StrictBlocked
  <2>4. QED BY <2>1, <2>2, <2>3, <1>3
<1>6. \A d \in deps : d.data =>
        \E e \in deps' : e.from = d.from /\ e.to = d.to /\ e.data = d.data
  BY <1>0, IssueFacts
<1>7. StrictBlocked'
  <2>1. ASSUME NEW a \in Dispatched, NEW b \in Dispatched, a < b, Fence(a), ~Finished(a)
        PROVE  \E e \in deps' : /\ e.to = token[b] /\ e.data
                                /\ \E p \in a .. (b - 1) : e.from = token[p]
    <3>1. PICK d \in deps : /\ d.to = token[b] /\ d.data
                            /\ \E p \in a .. (b - 1) : d.from = token[p]
      BY <2>1 DEF StrictBlocked, SInv
    <3>2. QED BY <3>1, <1>6
  <2>2. QED BY <1>1, <1>2, <1>3, <2>1 DEF StrictBlocked
<1>8. QED BY <1>5, <1>7

LEMMA ExecuteStrict ==
  ASSUME SInv, NEW i \in Inst, Execute(i)
  PROVE  StrictOrder' /\ StrictBlocked'
<1>0. GroupInv /\ n \in Nat /\ Dispatched = 1 .. n
  BY DEF SInv, LInv, IInv, GroupInv, TypeInv, TypeOK, Dispatched
<1>1. /\ Dispatched' = Dispatched /\ Dispatched \subseteq Inst /\ i \in Dispatched
      /\ UNCHANGED <<kind, token>> /\ Started(i)
  BY <1>0, ExecuteFacts
<1>2. \A a : Fence(a)' <=> Fence(a)
  BY <1>1 DEF Fence, LoadBarrier
<1>3. \A a \in Dispatched : /\ Started(a)' <=> Started(a)
                            /\ Finished(a)' <=> a = i \/ Finished(a)
                            /\ Finished(a) => Started(a)
  BY <1>0, <1>1, ExecuteFacts DEF Started, Finished
<1>4. StrictOrder'
  BY <1>1, <1>2, <1>3 DEF SInv, StrictOrder
<1>5. StrictBlocked'
  <2>1. ASSUME NEW a \in Dispatched, NEW b \in Dispatched,
               a < b, Fence(a), ~Finished(a), a # i
        PROVE  \E e \in deps' : /\ e.to = token[b] /\ e.data
                                /\ \E p \in a .. (b - 1) : e.from = token[p]
    <3>1. PICK d \in deps : /\ d.to = token[b] /\ d.data
                            /\ \E p \in a .. (b - 1) : d.from = token[p]
      BY <2>1 DEF StrictBlocked, SInv
    <3>2. PICK p \in a .. (b - 1) : d.from = token[p]
      BY <3>1
    <3>3. CASE \A j \in Members(d.from) : j = i \/ Finished(j)
      <4>1. p \in Dispatched /\ p >= a /\ a \in Nat /\ p \in Nat
        BY <1>0
      <4>2. p = i \/ Finished(p)
        BY <3>2, <3>3, <4>1 DEF Members
      <4>3. Started(p) /\ p # a
        BY <2>1, <4>1, <4>2, <1>1, <1>3
      <4>4. QED BY <2>1, <4>1, <4>3 DEF SInv, StrictOrder
    <3>4. QED BY <3>1, <3>3, <1>0, ExecuteFacts
  <2>2. QED BY <1>1, <1>2, <1>3, <2>1 DEF StrictBlocked
<1>6. QED BY <1>4, <1>5

\* The youngest fence of either sort that has not executed is current.
LEMMA UnfinishedFence ==
  ASSUME SInv, NEW a \in Dispatched, ~Finished(a)
  PROVE  /\ IsStore(kind[a]) =>
              \E p \in a .. n : /\ p \in Dispatched /\ IsStore(kind[p])
                                /\ CurrentStoreGroupID = token[p]
                                /\ token[p] \in CustomGroups
         /\ LoadBarrier(a) =>
              \E p \in a .. n : /\ p \in Dispatched /\ LoadBarrier(p)
                                /\ CurrentLoadBarrierGroupID = token[p]
                                /\ token[p] \in CustomGroups
<1>0. IInv /\ GroupInv /\ n \in Nat /\ Dispatched = 1 .. n
  BY DEF SInv, LInv, IInv, GroupInv, TypeInv, TypeOK, Dispatched
<1>1. ASSUME NEW p \in Dispatched, p \in a .. n, Fence(a)
      PROVE  ~Finished(p) /\ token[p] \in CustomGroups
  <2>1. ~Finished(p)
    <3>1. CASE p = a
      BY <3>1
    <3>2. CASE p # a
      <4>1. a < p
        BY <3>2, <1>0, <1>1
      <4>2. ~Started(p)
        BY <4>1, <1>1 DEF SInv, StrictOrder
      <4>3. QED BY <4>2 DEF Started, Finished
    <3>3. QED BY <3>1, <3>2
  <2>2. token[p] \in GID
    BY <1>0, LSUAssumption DEF GroupInv, TokensOK, TypeInv, TypeOK, GID
  <2>3. QED BY <2>1, <2>2, <1>0 DEF GroupInv, TokensOK
<1>2. ASSUME IsStore(kind[a])
      PROVE  \E p \in a .. n : /\ p \in Dispatched /\ IsStore(kind[p])
                               /\ CurrentStoreGroupID = token[p]
                               /\ token[p] \in CustomGroups
  <2>1. PICK p \in Dispatched : IsStore(kind[p]) /\ LoadRun(p + 1, n)
    BY <1>0, <1>2 DEF IInv, YoungestOK
  <2>2. p \in a .. n
    <3>1. p < a => a \in (p + 1) .. n
      BY <1>0
    <3>2. ~(p < a)
      BY <3>1, <2>1, <1>2 DEF LoadRun, PureLoad
    <3>3. QED BY <3>2, <1>0
  <2>3. ~Finished(p) /\ token[p] \in CustomGroups
    BY <2>2, <1>1, <1>2 DEF Fence
  <2>4. CurrentStoreGroupID = token[p]
    BY <2>1, <2>3, <1>0 DEF IInv, CurrentOK
  <2>5. QED BY <2>1, <2>2, <2>3, <2>4
<1>3. ASSUME LoadBarrier(a)
      PROVE  \E p \in a .. n : /\ p \in Dispatched /\ LoadBarrier(p)
                               /\ CurrentLoadBarrierGroupID = token[p]
                               /\ token[p] \in CustomGroups
  <2>1. PICK p \in Dispatched : LoadBarrier(p) /\ \A m \in (p+1) .. n : ~LoadBarrier(m)
    BY <1>3 DEF SInv, LInv, YoungestBarrier
  <2>2. p \in a .. n
    <3>1. p < a => a \in (p + 1) .. n
      BY <1>0
    <3>2. ~(p < a)
      BY <3>1, <2>1, <1>3
    <3>3. QED BY <3>2, <1>0
  <2>3. ~Finished(p) /\ token[p] \in CustomGroups
    BY <2>2, <1>1, <1>3 DEF Fence
  <2>4. CurrentLoadBarrierGroupID = token[p]
    BY <2>1, <2>3 DEF SInv, LInv, CurrentBarrier
  <2>5. QED BY <2>1, <2>2, <2>3, <2>4
<1>4. QED BY <1>2, <1>3

\* Without knowledge about aliasing everything may alias, and dependencies are
\* by data.
LEMMA StrictDependency ==
  ASSUME Strict, NEW k \in Kinds, NEW p
  PROVE  NoAlias(p, k) = FALSE
BY LSUAssumption DEF Strict, NoAlias

\* The dependencies dispatch gives a new group keep it behind every older
\* fence that has not executed.
LEMMA StrictStoreDeps ==
  ASSUME Strict, SInv, NEW k \in Kinds, NEW g,
         NEW a \in Dispatched, Fence(a), ~Finished(a)
  PROVE  \E d \in StoreDeps(g, k) : /\ d.to = g /\ d.data
                                    /\ \E p \in a .. n : d.from = token[p]
<1> DEFINE dom == ImmediateLoadDominator
           sb == CurrentStoreBarrierGroupID
           st == CurrentStoreGroupID
<1>0. /\ LInv /\ n \in Nat /\ Dispatched = 1 .. n
      /\ \A h \in CustomGroups : h # 0
  BY LSUAssumption DEF SInv, LInv, IInv, GroupInv, TypeInv, TypeOK, Dispatched, GID
<1>1. /\ Dependency(dom, g, ~NoAlias(dom, k)) \subseteq StoreDeps(g, k)
      /\ Dependency(sb, g, TRUE) \subseteq StoreDeps(g, k)
      /\ st # sb => Dependency(st, g, ~NoAlias(st, k)) \subseteq StoreDeps(g, k)
  BY DEF StoreDeps
<1>2. CASE IsStore(kind[a])
  <2>1. PICK p \in a .. n : st = token[p] /\ token[p] \in CustomGroups
    BY <1>2, UnfinishedFence
  <2>2. st # 0
    BY <2>1, <1>0
  <2>3. CASE st = sb
    <3>1. PICK d \in Dependency(sb, g, TRUE) : d.from = sb /\ d.to = g /\ d.data
      BY <2>2, <2>3 DEF Dependency
    <3>2. d \in StoreDeps(g, k) /\ d.from = token[p]
      BY <3>1, <2>1, <2>3, <1>1
    <3>3. QED BY <3>1, <3>2
  <2>4. CASE st # sb
    <3>1. PICK d \in Dependency(st, g, ~NoAlias(st, k)) : d.from = st /\ d.to = g /\ d.data
      <4>1. NoAlias(st, k) = FALSE
        BY StrictDependency
      <4>2. QED BY <4>1, <2>2 DEF Dependency
    <3>2. d \in StoreDeps(g, k) /\ d.from = token[p]
      BY <3>1, <2>1, <2>4, <1>1
    <3>3. QED BY <3>1, <3>2
  <2>5. QED BY <2>3, <2>4
<1>3. CASE LoadBarrier(a)
  <2>1. PICK p \in a .. n : /\ p \in Dispatched /\ LoadBarrier(p)
                            /\ CurrentLoadBarrierGroupID = token[p]
                            /\ token[p] \in CustomGroups
    BY <1>3, UnfinishedFence
  <2>2. dom # 0 /\ \E m \in Dispatched : m \in p .. n /\ token[m] = dom
    BY <2>1, <1>0, DominatorAfterBarrier
  <2>3. PICK m \in Dispatched : m \in p .. n /\ token[m] = dom
    BY <2>2
  <2>4. m \in a .. n
    BY <1>0, <2>1, <2>3
  <2>5. PICK d \in Dependency(dom, g, ~NoAlias(dom, k)) : d.from = dom /\ d.to = g /\ d.data
    <3>1. NoAlias(dom, k) = FALSE
      BY StrictDependency
    <3>2. QED BY <3>1, <2>2 DEF Dependency
  <2>6. d \in StoreDeps(g, k) /\ d.from = token[m]
    BY <2>3, <2>5, <1>1
  <2>7. QED BY <2>4, <2>5, <2>6
<1>4. QED BY <1>2, <1>3 DEF Fence

LEMMA StrictLoadDeps ==
  ASSUME Strict, SInv, NEW k \in Kinds, NEW g,
         NEW a \in Dispatched, Fence(a), ~Finished(a)
  PROVE  \E d \in LoadDeps(g, k) : /\ d.to = g /\ d.data
                                   /\ \E p \in a .. n : d.from = token[p]
<1> DEFINE st == CurrentStoreGroupID
<1>0. /\ LInv /\ n \in Nat /\ Dispatched = 1 .. n
      /\ \A h \in CustomGroups : h # 0
  BY LSUAssumption DEF SInv, LInv, IInv, GroupInv, TypeInv, TypeOK, Dispatched, GID
<1>1. CASE IsStore(kind[a])
  <2>1. PICK p \in a .. n : st = token[p] /\ token[p] \in CustomGroups
    BY <1>1, UnfinishedFence
  <2>2. st # 0 /\ ~NoAlias(st, k)
    BY <2>1, <1>0, StrictDependency
  <2>3. Dependency(st, g, TRUE) \subseteq LoadDeps(g, k)
    BY <2>2 DEF LoadDeps
  <2>4. PICK d \in Dependency(st, g, TRUE) : d.from = st /\ d.to = g /\ d.data
    BY <2>2 DEF Dependency
  <2>5. d \in LoadDeps(g, k) /\ d.from = token[p]
    BY <2>1, <2>3, <2>4
  <2>6. QED BY <2>4, <2>5
<1>2. CASE LoadBarrier(a)
  <2>1. PICK p \in a .. n : /\ p \in Dispatched /\ LoadBarrier(p)
                            /\ CurrentLoadBarrierGroupID = token[p]
                            /\ token[p] \in CustomGroups
    BY <1>2, UnfinishedFence
  <2>2. p .. n \subseteq a .. n
    BY <1>0, <2>1
  <2>3. QED BY <1>0, <2>1, <2>2, CurrentBarrierDep
<1>3. QED BY <1>1, <1>2 DEF Fence

\* Dispatching starts nothing, and only the new instruction needs a dependency.
LEMMA DispatchStrict ==
  ASSUME SInv, NEW k \in Kinds, NEW c \in Nat, Occupy(k, c),
         \A a \in Dispatched : token'[a] = token[a],
         deps \subseteq deps',
         \A a \in Dispatched : Fence(a) /\ ~Finished(a) =>
           \E d \in deps' : /\ d.to = token'[n+1] /\ d.data
                            /\ \E p \in a .. n : d.from = token[p]
  PROVE  StrictOrder' /\ StrictBlocked'
<1>0. TypeInv
  BY DEF SInv, LInv, IInv, GroupInv
<1>1. /\ Dispatched' = Dispatched \cup {n + 1} /\ n \in Nat /\ Dispatched = 1 .. n
      /\ \A a \in Dispatched : a \in Nat /\ a .. n \subseteq Dispatched
      /\ \A a, b \in Dispatched : a .. (b - 1) \subseteq Dispatched
  BY <1>0, DispatchKinds
<1>2. \A a \in Dispatched : Fence(a)' <=> Fence(a)
  BY <1>0, OccupyFacts DEF Fence, LoadBarrier
<1>3. ASSUME NEW a \in Dispatched', NEW b \in Dispatched', a < b, Fence(a)', ~Finished(a)'
      PROVE  a \in Dispatched /\ Fence(a) /\ ~Finished(a)
  <2>1. a \in Dispatched
    BY <1>1, <1>3
  <2>2. QED BY <2>1, <1>0, <1>2, <1>3, OccupyFacts
<1>4. StrictOrder'
  <2>1. SUFFICES ASSUME NEW a \in Dispatched', NEW b \in Dispatched',
                        a < b, Fence(a)', ~Finished(a)', Started(b)'
                 PROVE  FALSE
    BY DEF StrictOrder
  <2>2. b \in Dispatched /\ Started(b)
    BY <1>0, <2>1, OccupyFacts
  <2>3. QED BY <2>1, <2>2, <1>3 DEF SInv, StrictOrder
<1>5. StrictBlocked'
  <2>1. SUFFICES ASSUME NEW a \in Dispatched', NEW b \in Dispatched',
                        a < b, Fence(a)', ~Finished(a)'
                 PROVE  \E d \in deps' :
                          /\ d.to = token'[b] /\ d.data
                          /\ \E p \in a .. (b - 1) : d.from = token'[p]
    BY DEF StrictBlocked
  <2>2. a \in Dispatched /\ Fence(a) /\ ~Finished(a)
    BY <2>1, <1>3
  <2>3. CASE b \in Dispatched
    <3>1. PICK d \in deps : /\ d.to = token[b] /\ d.data
                            /\ \E p \in a .. (b - 1) : d.from = token[p]
      BY <2>1, <2>2, <2>3 DEF SInv, StrictBlocked
    <3>2. QED BY <3>1, <1>1, <2>2, <2>3
  <2>4. CASE b = n + 1
    <3>1. b - 1 = n
      BY <2>4, <1>1
    <3>2. PICK d \in deps' : /\ d.to = token'[n+1] /\ d.data
                             /\ \E p \in a .. n : d.from = token[p]
      BY <2>2
    <3>3. QED BY <3>1, <3>2, <2>2, <2>4, <1>1
  <2>5. QED BY <2>3, <2>4, <1>1
<1>6. QED BY <1>4, <1>5

LEMMA NewGroupStrict ==
  ASSUME Strict, SInv, NEW k \in Kinds, NEW c \in Nat,
         DispatchStore(k, c) \/ DispatchLoad(k, c)
  PROVE  StrictOrder' /\ StrictBlocked'
<1> DEFINE g == NextCustomGroupID
<1>0. IInv
  BY DEF SInv, LInv
<1>1. CASE DispatchStore(k, c)
  <2>1. Occupy(k, c) /\ NewGroup(StoreDeps(g, k))
    BY <1>1 DEF DispatchStore
  <2>2. (\A a \in Dispatched : token'[a] = token[a]) /\ token'[n+1] = g
    BY <1>0, <2>1, NewGroupShape DEF IInv, GroupInv
  <2>3. deps \subseteq deps' /\ StoreDeps(g, k) \subseteq deps'
    BY <2>1 DEF NewGroup
  <2>4. \A a \in Dispatched : Fence(a) /\ ~Finished(a) =>
          \E d \in deps' : /\ d.to = token'[n+1] /\ d.data
                           /\ \E p \in a .. n : d.from = token[p]
    BY <2>2, <2>3, StrictStoreDeps
  <2>5. QED BY <2>1, <2>2, <2>3, <2>4, DispatchStrict
<1>2. CASE DispatchLoad(k, c)
  <2>1. Occupy(k, c) /\ NewGroup(LoadDeps(g, k))
    BY <1>2 DEF DispatchLoad
  <2>2. (\A a \in Dispatched : token'[a] = token[a]) /\ token'[n+1] = g
    BY <1>0, <2>1, NewGroupShape DEF IInv, GroupInv
  <2>3. deps \subseteq deps' /\ LoadDeps(g, k) \subseteq deps'
    BY <2>1 DEF NewGroup
  <2>4. \A a \in Dispatched : Fence(a) /\ ~Finished(a) =>
          \E d \in deps' : /\ d.to = token'[n+1] /\ d.data
                           /\ \E p \in a .. n : d.from = token[p]
    BY <2>2, <2>3, StrictLoadDeps
  <2>5. QED BY <2>1, <2>2, <2>3, <2>4, DispatchStrict
<1>3. QED BY <1>1, <1>2

\* A load that joins a group is behind the same fences as an instruction of
\* the group that has not started.
LEMMA JoinStrict ==
  ASSUME SInv, NEW k \in Kinds, NEW c \in Nat, DispatchJoin(k, c)
  PROVE  StrictOrder' /\ StrictBlocked'
<1> DEFINE g == CurrentLoadGroupID
<1>0. LInv /\ IInv /\ GroupInv /\ TypeInv
  BY DEF SInv, LInv, IInv, GroupInv
<1>1. Occupy(k, c) /\ ~ShouldCreateANewGroup(k)
  BY DEF DispatchJoin
<1>2. /\ \A a \in Dispatched : token'[a] = token[a]
      /\ token'[n+1] = g /\ deps' = deps
  BY <1>0, <1>1, OccupyFacts DEF DispatchJoin, current, TypeInv, TypeOK
<1>3. n \in Nat /\ Dispatched = 1 .. n
  BY <1>0, <1>1, DispatchKinds
<1>4. PICK x \in Dispatched : token[x] = g /\ ~Started(x)
  BY <1>0, <1>1, JoinTarget
<1>5. g \in Nat
  BY <1>0, <1>1, JoinTarget
<1>6. ASSUME NEW a \in Dispatched, Fence(a), ~Finished(a)
      PROVE  \E d \in deps' : /\ d.to = token'[n+1] /\ d.data
                              /\ \E p \in a .. n : d.from = token[p]
  <2>1. token[a] < token[x]
    BY <1>0, <1>1, <1>4, <1>6, JoinAfterStores, JoinAfterBarriers DEF Fence
  <2>2. x < a => token[x] < token[a]
    <3>1. GroupOrder /\ BarrierGroups
      BY <1>0 DEF LInv, IInv
    <3>2. QED BY <1>6, <3>1 DEF GroupOrder, BarrierGroups, Fence
  <2>3. a < x
    <3>1. token[a] \in Int
      BY <1>0 DEF GroupInv, TokensOK
    <3>2. QED BY <2>1, <2>2, <3>1, <1>3, <1>4, <1>5
  <2>4. PICK d \in deps : /\ d.to = token[x] /\ d.data
                          /\ \E p \in a .. (x - 1) : d.from = token[p]
    BY <1>6, <2>3 DEF SInv, StrictBlocked
  <2>5. a .. (x - 1) \subseteq a .. n
    BY <1>3
  <2>6. QED BY <2>4, <2>5, <1>2, <1>4
<1>7. QED BY <1>1, <1>2, <1>6, DispatchStrict

LEMMA InitSInv == Init => SInv
<1> SUFFICES ASSUME Init PROVE SInv
  OBVIOUS
<1>1. Dispatched = {}
  BY DEF Init, Dispatched
<1>2. QED BY <1>1, InitLInv DEF SInv, StrictOrder, StrictBlocked

LEMMA NextSInv == Strict => (SInv /\ [Next]_vars => SInv')
<1> SUFFICES ASSUME Strict, SInv, [Next]_vars PROVE SInv'
  OBVIOUS
<1> DEFINE StrictKept == StrictOrder' /\ StrictBlocked'
<1>0. TypeInv /\ LInv'
  BY NextLInv DEF SInv, LInv, IInv, GroupInv
<1>1. ASSUME NEW k \in Kinds, NEW c \in Nat, DispatchStore(k, c) PROVE StrictKept
  BY <1>1, NewGroupStrict
<1>2. ASSUME NEW k \in Kinds, NEW c \in Nat, DispatchLoad(k, c) PROVE StrictKept
  BY <1>2, NewGroupStrict
<1>3. ASSUME NEW k \in Kinds, NEW c \in Nat, DispatchJoin(k, c) PROVE StrictKept
  BY <1>3, JoinStrict
<1>4. ASSUME NEW i \in Inst, Issue(i) PROVE StrictKept
  BY <1>4, IssueStrict
<1>5. ASSUME NEW i \in Inst, Execute(i) PROVE StrictKept
  BY <1>5, ExecuteStrict
<1>6. ASSUME \/ \E i \in Inst : BecomeReady(i) \/ Retire(i)
             \/ CycleEvent
             \/ UNCHANGED vars
      PROVE  StrictKept
  BY <1>0, <1>6, QuietSteps, QuietStrict
<1> HIDE DEF StrictKept
<1>7. StrictKept
  BY <1>1, <1>2, <1>3, <1>4, <1>5, <1>6, LatencyNat DEF Next, Dispatch
<1>8. QED BY <1>0, <1>7 DEF StrictKept, SInv

\* Without traced accesses and without the NoAlias assumption a load starts
\* only when every older store and every older load barrier has executed.
LoadsAfterStores ==
  \A i, j \in Dispatched :
    i < j /\ (IsStore(kind[i]) \/ (kind[i].ld /\ kind[i].ldb))
          /\ ~IsStore(kind[j]) /\ Started(j)
      => Finished(i)

\* "A load may not pass a previous store or store barrier", and not a load
\* barrier: with nothing known about aliasing it even waits until they have
\* executed.
THEOREM StrictLoadsWait == Strict => (Spec => []LoadsAfterStores)
<1>1. SInv => LoadsAfterStores
  BY DEF SInv, StrictOrder, LoadsAfterStores, Fence, LoadBarrier
<1>2. ASSUME Strict PROVE Spec => []LoadsAfterStores
  <2>1. SInv /\ [Next]_vars => SInv'
    BY <1>2, NextSInv
  <2>2. QED BY <1>1, <2>1, InitSInv, PTL DEF Spec
<1>3. QED BY <1>2

-----------------------------------------------------------------------------
(* The ranges of MDMemoryAccess.                                           *)

\* The range after an append, as two numbers.
LEMMA AppendRange ==
  ASSUME NEW m \in MemoryAccesses, NEW addr \in Nat, NEW size \in Nat
  PROVE  /\ AppendAccess(m, addr, size) \in MemoryAccesses
         /\ GetExtendedStartAddr(AppendAccess(m, addr, size)) = LowerStart(m, addr)
         /\ GetExtendedEndAddr(AppendAccess(m, addr, size)) =
              IF addr + size > LowerStart(m, addr) + m.ExtendedSize
              THEN addr + size ELSE LowerStart(m, addr) + m.ExtendedSize
<1> DEFINE start == LowerStart(m, addr)
           new == IF addr + size > start + m.ExtendedSize
                  THEN (addr + size) - start ELSE m.ExtendedSize
<1>1. /\ m.ExtendedAddr \in Nat /\ m.ExtendedSize \in Nat
      /\ start \in Nat /\ start <= addr
  BY DEF MemoryAccesses, LowerStart
<1>2. new \in Nat
  BY <1>1
<1>3. AppendAccess(m, addr, size)
        = [m EXCEPT !.ExtendedAddr = start, !.ExtendedSize = new]
  BY DEF AppendAccess
<1>4. /\ AppendAccess(m, addr, size) \in MemoryAccesses
      /\ AppendAccess(m, addr, size).ExtendedAddr = start
      /\ AppendAccess(m, addr, size).ExtendedSize = new
  <2> HIDE DEF start, new
  <2> QED BY <1>1, <1>2, <1>3 DEF MemoryAccesses
<1>5. start + new = IF addr + size > start + m.ExtendedSize
                    THEN addr + size ELSE start + m.ExtendedSize
  BY <1>1
<1>6. QED
  BY <1>4, <1>5 DEF GetExtendedStartAddr, GetExtendedEndAddr

\* Appending never leaves the types, and the range always covers the access
\* that was appended.
THEOREM AppendCoversNew ==
  ASSUME NEW m \in MemoryAccesses, NEW addr \in Nat, NEW size \in Nat
  PROVE  /\ AppendAccess(m, addr, size) \in MemoryAccesses
         /\ Covers(AppendAccess(m, addr, size), addr, size)
<1>1. m.ExtendedAddr \in Nat /\ m.ExtendedSize \in Nat
  BY DEF MemoryAccesses
<1>2. LowerStart(m, addr) \in Nat /\ LowerStart(m, addr) <= addr
  BY <1>1 DEF LowerStart
<1>3. /\ AppendAccess(m, addr, size) \in MemoryAccesses
      /\ GetExtendedStartAddr(AppendAccess(m, addr, size)) = LowerStart(m, addr)
      /\ GetExtendedEndAddr(AppendAccess(m, addr, size)) =
           IF addr + size > LowerStart(m, addr) + m.ExtendedSize
           THEN addr + size ELSE LowerStart(m, addr) + m.ExtendedSize
  BY AppendRange
<1>4. QED
  BY <1>1, <1>2, <1>3 DEF Covers

\* What was covered before an append is covered after it if, and for the end of
\* the old range only if, the new access does not start below the range or
\* reaches its end: append lowers ExtendedAddr without making ExtendedSize
\* larger, so that otherwise the end of the bundle is lost.
THEOREM AppendKeepsIff ==
  ASSUME NEW m \in MemoryAccesses, NEW addr \in Nat, NEW size \in Nat
  PROVE  Covers(AppendAccess(m, addr, size), m.ExtendedAddr, m.ExtendedSize)
           <=> \/ addr >= m.ExtendedAddr
               \/ addr + size >= GetExtendedEndAddr(m)
<1>1. m.ExtendedAddr \in Nat /\ m.ExtendedSize \in Nat
  BY DEF MemoryAccesses
<1>2. /\ AppendAccess(m, addr, size) \in MemoryAccesses
      /\ GetExtendedStartAddr(AppendAccess(m, addr, size)) = LowerStart(m, addr)
      /\ GetExtendedEndAddr(AppendAccess(m, addr, size)) =
           IF addr + size > LowerStart(m, addr) + m.ExtendedSize
           THEN addr + size ELSE LowerStart(m, addr) + m.ExtendedSize
  BY AppendRange
<1>3. CASE addr >= m.ExtendedAddr
  <2>1. LowerStart(m, addr) = m.ExtendedAddr
    BY <1>1, <1>3 DEF LowerStart
  <2>2. QED
    BY <1>1, <1>2, <1>3, <2>1 DEF Covers, GetExtendedEndAddr
<1>4. CASE addr < m.ExtendedAddr
  <2>1. LowerStart(m, addr) = addr
    BY <1>4 DEF LowerStart
  <2>2. QED
    BY <1>1, <1>2, <1>4, <2>1 DEF Covers, GetExtendedEndAddr
<1>5. QED
  BY <1>1, <1>3, <1>4

\* The comparison is sound for what the ranges cover: two accesses that have a
\* byte in common, each covered by the range of its instruction, alias.
THEOREM AliasSound ==
  ASSUME NEW m \in MemoryAccesses, NEW o \in MemoryAccesses,
         NEW a \in Nat, NEW b \in Nat, NEW s \in Nat, NEW t \in Nat,
         NEW byte \in Nat,
         Covers(m, a, s), Covers(o, b, t),
         a <= byte, byte < a + s, b <= byte, byte < b + t
  PROVE  IsMemAccessAlias(m, o)
<1>1. /\ m.ExtendedAddr \in Nat /\ m.ExtendedSize \in Nat
      /\ o.ExtendedAddr \in Nat /\ o.ExtendedSize \in Nat
  BY DEF MemoryAccesses
<1>2. QED
  BY <1>1 DEF IsMemAccessAlias, Before, Covers, GetExtendedStartAddr,
              GetExtendedEndAddr
=============================================================================
