------------------------------ MODULE MCADLSUnit ------------------------------
(***************************************************************************)
(* The load/store unit of the simulated processor                          *)
(* (CustomHWUnits/MCADLSUnit.h and .cpp).  It decides the order in which   *)
(* memory instructions may start.  Instructions are put into memory groups *)
(* (CustomMemoryGroup); a new group depends on older ones, by data (it     *)
(* waits until they have executed) or by order (it waits until they have   *)
(* started).  The rest of the pipeline is LLVM's: it dispatches in program *)
(* order, issues what the unit reports as ready, and retires in order.     *)
(*                                                                         *)
(* The base class mca::LSUnit::MemoryGroup counts its instructions and its *)
(* predecessors.  Here the instructions are looked up by their token, and  *)
(* the predecessors are the set deps of dependencies not yet released; two *)
(* equal dependencies are released together, so a set does.                *)
(***************************************************************************)
EXTENDS Integers, FiniteSets

CONSTANTS
  MaxInst,        \* bound: number of memory instructions
  Kinds,          \* what an instruction can be, see KindType
  Addr,           \* addresses of memory accesses; two accesses overlap iff
                  \* they have the same address
  NoMD,           \* no memory access metadata for this instruction
  AssumeNoAlias,  \* the NoAlias argument of the constructor
  LQSize, SQSize, \* sizes of the load and store queues; 0 means unlimited
  HasCache,       \* the unit was given a CacheUnit
  Latency         \* latencies in cycles a cache access can have

KindType == [ld : BOOLEAN, st : BOOLEAN,      \* getMayLoad, getMayStore
             ldb : BOOLEAN, stb : BOOLEAN,    \* isALoadBarrier, isAStoreBarrier
             md : Addr \cup {NoMD},           \* MDMemoryAccess::Addr
             mdst : BOOLEAN]                  \* MDMemoryAccess::IsStore

ASSUME LSUAssumption ==
  /\ MaxInst \in Nat
  /\ Kinds \subseteq {k \in KindType : k.ld \/ k.st}
  /\ Kinds # {}
  /\ NoMD \notin Addr
  /\ AssumeNoAlias \in BOOLEAN
  /\ HasCache \in BOOLEAN
  /\ LQSize \in Nat /\ SQSize \in Nat
  /\ Latency \subseteq Nat

Inst == 1 .. MaxInst
GID  == 1 .. MaxInst

VARIABLES
  n,            \* number of instructions dispatched so far
  kind,         \* kind of each instruction
  status,       \* "none", "dispatched", "ready", "issued", "executed", "retired"
  token,        \* LSUTokenID: the group an instruction was dispatched to
  CustomGroups, \* the groups that exist
  deps,         \* unreleased dependencies between groups
  followed,     \* groups that were given a successor
  NextCustomGroupID,
  CurrentLoadGroupID, CurrentLoadBarrierGroupID,
  CurrentStoreGroupID, CurrentStoreBarrierGroupID,
  usedLQ, usedSQ, \* occupied queue entries
  ongoing       \* ongoing_requests: cycles left by address (0: done or absent)

current == <<CurrentLoadGroupID, CurrentLoadBarrierGroupID,
             CurrentStoreGroupID, CurrentStoreBarrierGroupID>>
vars == <<n, kind, status, token, CustomGroups, deps, followed,
          NextCustomGroupID, current, usedLQ, usedSQ, ongoing>>

-----------------------------------------------------------------------------
(* Instructions.                                                           *)

\* isStore: by the instruction or by the traced access.
IsStore(k) == k.st \/ (k.md # NoMD /\ k.mdst)

Dispatched == 1 .. n
Started(i)  == status[i] \in {"issued", "executed", "retired"}
Finished(i) == status[i] \in {"executed", "retired"}

-----------------------------------------------------------------------------
(* Memory groups.                                                          *)

Members(g) == {i \in Dispatched : token[i] = g}

\* All instructions have started and some are still executing.
IsExecuting(g) == /\ \A i \in Members(g) : Started(i)
                  /\ \E i \in Members(g) : status[i] = "issued"

\* No dependency on another group is left.
IsReady(g) == \A d \in deps : d.to # g

\* A predecessor has not started yet.
IsWaiting(g) == \E d \in deps : d.to = g /\ ~d.issued

\* noAlias: by the traced accesses of the group, or by assumption.
NoAlias(g, k) ==
  IF k.md # NoMD THEN \A i \in Members(g) : kind[i].md # k.md
                 ELSE AssumeNoAlias

\* MemoryGroup::addSuccessor of group p for the new group g: an order
\* dependency on a group that has started is not needed.
Dependency(p, g, data) ==
  IF p = 0 \/ (~data /\ IsExecuting(p)) THEN {}
  ELSE {[from |-> p, to |-> g, data |-> data, issued |-> IsExecuting(p)]}

\* max(CurrentLoadGroupID, CurrentLoadBarrierGroupID)
ImmediateLoadDominator ==
  IF CurrentLoadGroupID >= CurrentLoadBarrierGroupID
  THEN CurrentLoadGroupID ELSE CurrentLoadBarrierGroupID

\* Mutant: a store does not wait for older loads.
StoreDepsNoLoads(g, k) ==
  LET sb == CurrentStoreBarrierGroupID
      st == CurrentStoreGroupID
  IN  Dependency(sb, g, TRUE)
        \cup (IF st # sb THEN Dependency(st, g, ~NoAlias(st, k)) ELSE {})

\* Mutant: a store only waits until an older store barrier has started.
StoreDepsWeakBarrier(g, k) ==
  LET dom == ImmediateLoadDominator
      sb  == CurrentStoreBarrierGroupID
      st  == CurrentStoreGroupID
  IN  Dependency(dom, g, ~NoAlias(dom, k))
        \cup Dependency(sb, g, FALSE)
        \cup (IF st # sb THEN Dependency(st, g, ~NoAlias(st, k)) ELSE {})

\* The dependencies dispatch gives a new store group g.
StoreDeps(g, k) ==
  LET dom == ImmediateLoadDominator
      sb  == CurrentStoreBarrierGroupID
      st  == CurrentStoreGroupID
  IN  Dependency(dom, g, ~NoAlias(dom, k))
        \cup Dependency(sb, g, TRUE)
        \cup (IF st # sb THEN Dependency(st, g, ~NoAlias(st, k)) ELSE {})

\* Mutant: a load barrier is treated like any load.
LoadDepsPlain(g, k) ==
  LET st == CurrentStoreGroupID
  IN  (IF st # 0 /\ ~NoAlias(st, k) THEN Dependency(st, g, TRUE) ELSE {})
        \cup Dependency(CurrentLoadBarrierGroupID, g, TRUE)

\* Mutant: a load does not wait for an older load barrier.
LoadDepsNoBarrier(g, k) ==
  LET st == CurrentStoreGroupID
  IN  (IF st # 0 /\ ~NoAlias(st, k) THEN Dependency(st, g, TRUE) ELSE {})
        \cup (IF k.ldb THEN Dependency(ImmediateLoadDominator, g, TRUE) ELSE {})

\* The dependencies dispatch gives a new load group g.
LoadDeps(g, k) ==
  LET st == CurrentStoreGroupID
  IN  (IF st # 0 /\ ~NoAlias(st, k) THEN Dependency(st, g, TRUE) ELSE {})
        \cup (IF k.ldb THEN Dependency(ImmediateLoadDominator, g, TRUE)
                       ELSE Dependency(CurrentLoadBarrierGroupID, g, TRUE))

\* Mutant: a load may join a load group older than the current store.
NewGroupUnlessOlderStore(k) ==
  LET dom == ImmediateLoadDominator
  IN  \/ k.ldb
      \/ dom = 0
      \/ CurrentLoadBarrierGroupID = dom
      \/ IsExecuting(dom)

\* dispatch: a load opens a group of its own unless it can join the youngest
\* load group, which must be younger than every store and not yet started.
ShouldCreateANewGroup(k) ==
  LET dom == ImmediateLoadDominator
  IN  \/ k.ldb
      \/ dom = 0
      \/ CurrentLoadBarrierGroupID = dom
      \/ dom <= CurrentStoreGroupID
      \/ IsExecuting(dom)

-----------------------------------------------------------------------------
Init ==
  /\ n = 0
  /\ kind = [i \in Inst |-> CHOOSE k \in Kinds : TRUE]
  /\ status = [i \in Inst |-> "none"]
  /\ token = [i \in Inst |-> 0]
  /\ CustomGroups = {}
  /\ deps = {}
  /\ followed = {}
  /\ NextCustomGroupID = 1
  /\ CurrentLoadGroupID = 0 /\ CurrentLoadBarrierGroupID = 0
  /\ CurrentStoreGroupID = 0 /\ CurrentStoreBarrierGroupID = 0
  /\ usedLQ = 0 /\ usedSQ = 0
  /\ ongoing = [a \in Addr |-> 0]

-----------------------------------------------------------------------------
\* isAvailable: there is a free entry in each queue the instruction needs.
IsAvailable(k) ==
  /\ ~(k.ld /\ LQSize # 0 /\ usedLQ = LQSize)
  /\ ~(IsStore(k) /\ SQSize # 0 /\ usedSQ = SQSize)

\* What dispatch does to every memory instruction: take queue entries and
\* start the cache access, which replaces the request its address may have.
Occupy(k, c) ==
  /\ n < MaxInst
  /\ IsAvailable(k)
  /\ n' = n + 1
  /\ kind' = [kind EXCEPT ![n+1] = k]
  /\ status' = [status EXCEPT ![n+1] = "dispatched"]
  /\ usedLQ' = IF k.ld THEN usedLQ + 1 ELSE usedLQ
  /\ usedSQ' = IF IsStore(k) THEN usedSQ + 1 ELSE usedSQ
  /\ IF HasCache /\ k.md # NoMD
     THEN ongoing' = [ongoing EXCEPT ![k.md] = c]
     ELSE UNCHANGED ongoing

\* createCustomMemoryGroup and the dependencies of the new group.
NewGroup(ds) ==
  /\ token' = [token EXCEPT ![n+1] = NextCustomGroupID]
  /\ CustomGroups' = CustomGroups \cup {NextCustomGroupID}
  /\ NextCustomGroupID' = NextCustomGroupID + 1
  /\ deps' = deps \cup ds
  /\ followed' = followed \cup {d.from : d \in ds}

\* dispatch of a store, or of a load the trace says stores: always a group of
\* its own; an instruction that also loads becomes the current load group.
DispatchStore(k, c) ==
  LET g == NextCustomGroupID
  IN  /\ IsStore(k)
      /\ Occupy(k, c)
      /\ NewGroup(StoreDeps(g, k))
      /\ CurrentStoreGroupID' = g
      /\ CurrentStoreBarrierGroupID' =
           IF k.stb THEN g ELSE CurrentStoreBarrierGroupID
      /\ CurrentLoadGroupID' = IF k.ld THEN g ELSE CurrentLoadGroupID
      /\ CurrentLoadBarrierGroupID' =
           IF k.ld /\ k.ldb THEN g ELSE CurrentLoadBarrierGroupID

\* dispatch of a load into a new group.
DispatchLoad(k, c) ==
  LET g == NextCustomGroupID
  IN  /\ ~IsStore(k)
      /\ ShouldCreateANewGroup(k)
      /\ Occupy(k, c)
      /\ NewGroup(LoadDeps(g, k))
      /\ CurrentLoadGroupID' = g
      /\ CurrentLoadBarrierGroupID' =
           IF k.ldb THEN g ELSE CurrentLoadBarrierGroupID
      /\ UNCHANGED <<CurrentStoreGroupID, CurrentStoreBarrierGroupID>>

\* dispatch of a load into the current load group.
DispatchJoin(k, c) ==
  /\ ~IsStore(k)
  /\ ~ShouldCreateANewGroup(k)
  /\ Occupy(k, c)
  /\ token' = [token EXCEPT ![n+1] = CurrentLoadGroupID]
  /\ UNCHANGED <<CustomGroups, NextCustomGroupID, deps, followed, current>>

\* isReady: the group is ready and the cache has the data.  LLVM's scheduler
\* moves the instruction to its ready set and does not ask again.
WaitsForCache(i) == HasCache /\ kind[i].md # NoMD /\ ongoing[kind[i].md] > 0

\* Mutant: asked about an instruction that was not dispatched.
BecomeReadyEarly(i) ==
  /\ status[i] \in {"none", "dispatched"}
  /\ IsReady(token[i])
  /\ ~WaitsForCache(i)
  /\ status' = [status EXCEPT ![i] = "ready"]
  /\ UNCHANGED <<n, kind, token, CustomGroups, deps, followed,
                 NextCustomGroupID, current, usedLQ, usedSQ, ongoing>>

BecomeReady(i) ==
  /\ status[i] = "dispatched"
  /\ IsReady(token[i])
  /\ ~WaitsForCache(i)
  /\ status' = [status EXCEPT ![i] = "ready"]
  /\ UNCHANGED <<n, kind, token, CustomGroups, deps, followed,
                 NextCustomGroupID, current, usedLQ, usedSQ, ongoing>>

\* Mutant: the dependencies on a group that started are not released.
IssueNoRelease(i) ==
  /\ status[i] = "ready"
  /\ status' = [status EXCEPT ![i] = "issued"]
  /\ UNCHANGED <<n, kind, token, CustomGroups, deps, followed,
                 NextCustomGroupID, current, usedLQ, usedSQ, ongoing>>

\* onInstructionIssued: when the last instruction of the group has started,
\* order dependencies on the group are released and data dependencies noted.
Issue(i) ==
  LET g == token[i]
      all == \A j \in Members(g) \ {i} : Started(j)
  IN  /\ status[i] = "ready"
      /\ status' = [status EXCEPT ![i] = "issued"]
      /\ deps' = IF ~all THEN deps
                 ELSE {d \in deps : d.from # g} \cup
                      {[d EXCEPT !.issued = TRUE] :
                         d \in {e \in deps : e.from = g /\ e.data}}
      /\ UNCHANGED <<n, kind, token, CustomGroups, followed,
                     NextCustomGroupID, current, usedLQ, usedSQ, ongoing>>

\* Mutant: the ids of erased groups stay current.
ForgetNothing(c, g) == c

\* A current group that no longer exists is forgotten.
Forget(c, g) == IF c = g THEN 0 ELSE c

\* onInstructionExecuted: a group that has executed releases its successors
\* and is erased.
Execute(i) ==
  LET g == token[i]
      all == \A j \in Members(g) \ {i} : Finished(j)
  IN  /\ status[i] = "issued"
      /\ status' = [status EXCEPT ![i] = "executed"]
      /\ IF all
         THEN /\ CustomGroups' = CustomGroups \ {g}
              /\ deps' = {d \in deps : ~(d.from = g /\ d.data)}
              /\ CurrentLoadGroupID' = Forget(CurrentLoadGroupID, g)
              /\ CurrentStoreGroupID' = Forget(CurrentStoreGroupID, g)
              /\ CurrentLoadBarrierGroupID' =
                   Forget(CurrentLoadBarrierGroupID, g)
              /\ CurrentStoreBarrierGroupID' =
                   Forget(CurrentStoreBarrierGroupID, g)
         ELSE UNCHANGED <<CustomGroups, deps, current>>
      /\ UNCHANGED <<n, kind, token, followed, NextCustomGroupID,
                     usedLQ, usedSQ, ongoing>>

\* Mutant: an instruction that loads and stores gives one entry back.
RetireOneEntry(i) ==
  /\ status[i] = "executed"
  /\ \A j \in 1 .. (i - 1) : status[j] = "retired"
  /\ status' = [status EXCEPT ![i] = "retired"]
  /\ usedLQ' = IF kind[i].ld THEN usedLQ - 1 ELSE usedLQ
  /\ usedSQ' = IF IsStore(kind[i]) /\ ~kind[i].ld THEN usedSQ - 1 ELSE usedSQ
  /\ UNCHANGED <<n, kind, token, CustomGroups, deps, followed,
                 NextCustomGroupID, current, ongoing>>

\* onInstructionRetired: give the queue entries back and drop the request of
\* this address from the cache latency tracker.
Retire(i) ==
  /\ status[i] = "executed"
  /\ \A j \in 1 .. (i - 1) : status[j] = "retired"
  /\ status' = [status EXCEPT ![i] = "retired"]
  /\ usedLQ' = IF kind[i].ld THEN usedLQ - 1 ELSE usedLQ
  /\ usedSQ' = IF IsStore(kind[i]) THEN usedSQ - 1 ELSE usedSQ
  /\ ongoing' = IF HasCache /\ kind[i].md # NoMD
                THEN [ongoing EXCEPT ![kind[i].md] = 0] ELSE ongoing
  /\ UNCHANGED <<n, kind, token, CustomGroups, deps, followed,
                 NextCustomGroupID, current>>

\* cycleEvent: the clock advances.
CycleEvent ==
  /\ \E a \in Addr : ongoing[a] > 0
  /\ ongoing' = [a \in Addr |-> IF ongoing[a] > 0 THEN ongoing[a] - 1 ELSE 0]
  /\ UNCHANGED <<n, kind, status, token, CustomGroups, deps, followed,
                 NextCustomGroupID, current, usedLQ, usedSQ>>

Dispatch ==
  \E k \in Kinds : \E c \in (IF HasCache THEN Latency ELSE {0}) :
    DispatchStore(k, c) \/ DispatchLoad(k, c) \/ DispatchJoin(k, c)

Next ==
  \/ Dispatch
  \/ \E i \in Inst : BecomeReady(i) \/ Issue(i) \/ Execute(i) \/ Retire(i)
  \/ CycleEvent

\* Pipeline stages run every cycle: what they can do for an instruction in
\* flight they do eventually, and cycles go by.
Fairness ==
  /\ \A i \in Inst : /\ WF_vars(BecomeReady(i)) /\ WF_vars(Issue(i))
                     /\ WF_vars(Execute(i))     /\ WF_vars(Retire(i))
  /\ WF_vars(CycleEvent)

Spec == Init /\ [][Next]_vars
FairSpec == Spec /\ Fairness

-----------------------------------------------------------------------------
(* Properties.                                                             *)

Statuses == {"none", "dispatched", "ready", "issued", "executed", "retired"}
DepType == [from : GID, to : GID, data : BOOLEAN, issued : BOOLEAN]

\* Every variable has its type, and only dispatched instructions are in flight.
TypeOK ==
  /\ n \in 0 .. MaxInst
  /\ kind \in [Inst -> Kinds]
  /\ status \in [Inst -> Statuses]
  /\ \A i \in Inst : status[i] = "none" <=> i > n
  /\ token \in [Inst -> GID \cup {0}]
  /\ CustomGroups \subseteq GID
  /\ deps \subseteq DepType
  /\ followed \subseteq GID
  /\ NextCustomGroupID \in 1 .. (MaxInst + 1)
  /\ CurrentLoadGroupID \in GID \cup {0}
  /\ CurrentLoadBarrierGroupID \in GID \cup {0}
  /\ CurrentStoreGroupID \in GID \cup {0}
  /\ CurrentStoreBarrierGroupID \in GID \cup {0}
  /\ usedLQ \in Int /\ usedSQ \in Int
  /\ ongoing \in [Addr -> Nat]

\* The assertion of getCustomGroup ("Group doesn't exist!"), for every group
\* id the unit may pass to it: the current groups, the groups of instructions
\* that have not executed, and the predecessors of a waiting group.
GroupsExist ==
  /\ {CurrentLoadGroupID, CurrentLoadBarrierGroupID, CurrentStoreGroupID,
      CurrentStoreBarrierGroupID} \subseteq CustomGroups \cup {0}
  /\ \A i \in Dispatched : ~Finished(i) => token[i] \in CustomGroups
  /\ \A d \in deps : d.from \in CustomGroups /\ d.to \in CustomGroups

\* The assertions of LLVM's MemoryGroup: an instruction is added to a group
\* without successors, an instruction is issued to a group that is not already
\* executing, and an executing group is ready.
GroupAssertions ==
  /\ \A k \in Kinds : ~IsStore(k) /\ ~ShouldCreateANewGroup(k) /\ n < MaxInst
       => CurrentLoadGroupID \notin followed
  /\ \A i \in Dispatched :
       /\ status[i] = "ready" => ~IsExecuting(token[i])
       /\ status[i] \in {"ready", "issued"} => IsReady(token[i])

\* The comments in dispatch say what may not "pass" what: j passes the older
\* instruction i when it starts first.
Passes(j, i) == i < j /\ Started(j) /\ ~Started(i)

\* "A store may not pass a previous store" and "A store may not pass a
\* previous load or load barrier": stores start after everything older.
StoresInOrder ==
  \A i, j \in Dispatched : IsStore(kind[j]) => ~Passes(j, i)

\* "A store may not pass a previous store barrier": it even waits until the
\* barrier has executed.
StoresAfterStoreBarriers ==
  \A i, j \in Dispatched :
    i < j /\ IsStore(kind[i]) /\ kind[i].stb /\ IsStore(kind[j]) /\ Started(j)
      => Finished(i)

\* "A younger load cannot pass a older load barrier."
NoLoadPassesLoadBarrier ==
  \A i, j \in Dispatched :
    kind[i].ld /\ kind[i].ldb /\ ~IsStore(kind[j]) => ~Passes(j, i)

\* "A load barrier may not pass a previous load or load barrier": the comment
\* above the dependency of a load barrier on the youngest load group.  Nothing
\* orders that group behind an older one when a store came between the two, so
\* with the NoAlias assumption, which the driver always makes, the barrier
\* passes the older load.
NoLoadBarrierPassesLoad ==
  \A i, j \in Dispatched :
    kind[i].ld /\ ~IsStore(kind[j]) /\ kind[j].ldb => ~Passes(j, i)

\* What that dependency does give, aliasing or not: a load barrier passes no
\* load of its own run, the loads dispatched since the last store, though they
\* are in several groups and only the youngest one is asked.
NoLoadBarrierPassesRun ==
  \A i, j \in Dispatched :
    (\A m \in i .. j : ~IsStore(kind[m])) /\ kind[j].ldb => ~Passes(j, i)

\* "A load may not pass a previous store or store barrier unless flag
\* 'NoAlias' is set", for the stores it may alias: those with an access to the
\* same address, or all of them when the load has no traced access.
MayAlias(i, j) == IF kind[j].md = NoMD THEN ~AssumeNoAlias
                                       ELSE kind[i].md = kind[j].md
NoLoadPassesStore ==
  \A i, j \in Dispatched :
    IsStore(kind[i]) /\ ~IsStore(kind[j]) /\ MayAlias(i, j) => ~Passes(j, i)

\* Entries of the load and store queues are neither lost nor handed out twice,
\* and never more than there are.
InFlight == {i \in Dispatched : status[i] # "retired"}
QueuesBalanced ==
  /\ usedLQ = Cardinality({i \in InFlight : kind[i].ld})
  /\ usedSQ = Cardinality({i \in InFlight : IsStore(kind[i])})
  /\ LQSize # 0 => usedLQ <= LQSize
  /\ SQSize # 0 => usedSQ <= SQSize

\* Every dispatched instruction eventually retires: the groups never wait on
\* each other in a circle, and no release is missed.
AllRetire ==
  \A i \in Inst : status[i] = "dispatched" ~> status[i] = "retired"
=============================================================================
