------------------------- MODULE MCADFetchDelayStage -------------------------
(***************************************************************************)
(* The front end of the simulated processor: the fetch delay stage         *)
(* (CustomStages/MCADFetchDelayStage.cpp) with the branch predictor and    *)
(* the L1 instruction cache it asks, between the entry stage and the       *)
(* dispatch stage of LLVM.  The load/store unit shares the lower levels of *)
(* the cache hierarchy.  One cycle is a CycleStart followed by any number  *)
(* of Execute steps, one for each instruction the entry stage hands over.  *)
(***************************************************************************)
EXTENDS Cache, BranchPredictors

CONSTANTS
  Configs,        \* command line choices: [bpu, caches, maxIdle]
  Insts,          \* instructions: [addr, size, branch, md]; md says whether
                  \* the broker supplied the address
  DataAddr,       \* addresses the load/store unit asks for
  Penalty,        \* -mispredict-delay
  DispatchWidth,  \* instructions the next stage can take in a cycle
  MaxInst,        \* bound: instructions that enter
  MaxData         \* bound: data accesses

ASSUME StageAssumption ==
  /\ \A c \in Configs : /\ c.bpu \in {"None", "Naive", "Skylake"}
                        /\ c.caches \subseteq Units
                        /\ c.maxIdle \in Int /\ c.maxIdle >= -1
  /\ \A i \in Insts : /\ i.addr \in Nat /\ i.size \in Nat
                      /\ i.branch \in BOOLEAN /\ i.md \in BOOLEAN
  /\ DataAddr \subseteq Nat
  /\ Penalty \in Nat /\ DispatchWidth \in Nat \ {0}

VARIABLES
  cfg,         \* the member of Configs in use
  units,       \* the cache units
  bpu,         \* the branch predictor
  instrQueue,  \* instructions in the stage: [id, left, age, due]
  predicted,   \* predictedBranchDirection
  previous,    \* previousInstrAddr
  room,        \* what the next stage still takes in this cycle
  stats,       \* counts of branches, mispredictions and shortened delays
  numInst,     \* history: instructions that have entered
  numData,     \* history: data accesses
  forwarded,   \* history: instructions handed to the next stage
  lastDir,     \* history: the last direction each branch really took
  resolved,    \* history: the branch whose direction was recorded last
  wrapped,     \* history: the access counter of the naive predictor has wrapped
  fetched      \* history: by set of the L1 instruction cache, the lines it was
               \* asked for

vars == <<cfg, units, bpu, instrQueue, predicted, previous, room, stats,
          numInst, numData, forwarded, lastDir, resolved, wrapped, fetched>>

NoAddr == [addr |-> -1, size |-> 0]
Key(i) == [addr |-> i.addr, size |-> i.size]

\* The front end of a new pipeline.  The naive predictor does not initialise
\* nAccesses.
Init ==
  /\ cfg \in Configs
  /\ units = [u \in Units |-> NewUnit(u)]
  /\ bpu \in CASE cfg.bpu = "None"    -> {<<>>}
               [] cfg.bpu = "Naive"   -> {NewNaive(n) : n \in 0 .. (CounterModulus - 1)}
               [] cfg.bpu = "Skylake" -> {NewSkylake}
  /\ instrQueue = <<>>
  /\ predicted = "none"
  /\ previous = NoAddr
  /\ room = 0
  /\ stats = [branches |-> 0, mispredictions |-> 0, skipped |-> 0]
  /\ numInst = 0
  /\ numData = 0
  /\ forwarded = <<>>
  /\ lastDir = [k \in {Key(i) : i \in Insts} |-> "none"]
  /\ resolved = NoAddr
  /\ wrapped = FALSE
  /\ fetched = [s \in 0 .. (NumSets["L1I"] - 1) |-> <<>>]

-----------------------------------------------------------------------------
(* execute: one instruction enters.                                        *)

\* The instruction cache is asked when there is one and the address is known.
Fetches(i) == "L1I" \in cfg.caches /\ i.md
L1IChain == Chain("L1I", cfg.caches)

\* The previous instruction was a branch whose direction can now be told.
Resolves(i) == predicted # "none" /\ i.md /\ previous # NoAddr
Actual(i) == IF i.addr = previous.addr + previous.size THEN "NOT_TAKEN" ELSE "TAKEN"
Mispredicted(i) == Resolves(i) /\ Actual(i) # predicted

\* The predictor after it was told the direction of the previous branch.
Recorded(i) ==
  IF ~Resolves(i) THEN {bpu}
  ELSE IF cfg.bpu = "Naive" THEN {NaiveRecord(bpu, previous, Actual(i))}
  ELSE SkylakeRecord(bpu, previous.addr, Actual(i))

\* Its prediction if i is a branch.
Predict(p, i) ==
  IF cfg.bpu = "None" \/ ~i.branch \/ ~i.md THEN [dir |-> "none", next |-> p]
  ELSE IF cfg.bpu = "Naive" THEN NaivePredict(p, Key(i))
  ELSE SkylakePredict(p, i.addr)

\* The cycles i has to wait: its fetch, and the penalty of the branch before.
Delay(i) == (IF Fetches(i) THEN LoadCycles(units, L1IChain, i.addr) ELSE 0)
            + (IF Mispredicted(i) THEN Penalty ELSE 0)

Shortened(d) == cfg.maxIdle > -1 /\ d > cfg.maxIdle

\* The number of instructions that leave queue q: from its front, while they
\* are due and the next stage has room (r).
NumDue(q, r) ==
  CHOOSE m \in 0 .. Len(q) :
    /\ m <= r /\ \A j \in 1 .. m : q[j].left = 0
    /\ m < Len(q) /\ m < r => q[m + 1].left # 0

\* Mutant: whatever is due is forwarded, wherever it is in the queue.
ForwardDueAnywhere(q, r) ==
  LET IsDue(e) == e.left = 0
      out == SelectSeq(q, IsDue)
  IN  /\ forwarded' = forwarded \o out
      /\ instrQueue' = SelectSeq(q, LAMBDA e : ~IsDue(e))
      /\ room' = r - Len(out)

\* Part of execute and cycleStart: the stage is left with what queue q keeps.
ForwardDueInstrs(q, r) ==
  LET m == NumDue(q, r)
  IN  /\ forwarded' = forwarded \o SubSeq(q, 1, m)
      /\ instrQueue' = SubSeq(q, m + 1, Len(q))
      /\ room' = r - m

\* isAvailable asks the next stage, not the queue: instructions are taken in
\* while earlier ones are delayed.
Execute(i) ==
  LET d    == Delay(i)
      left == IF Shortened(d) THEN cfg.maxIdle ELSE d
  IN  /\ room > 0
      /\ numInst < MaxInst
      /\ numInst' = numInst + 1
      /\ units' = IF Fetches(i) THEN Load(units, L1IChain, i.addr) ELSE units
      /\ fetched' = IF Fetches(i)
                    THEN [fetched EXCEPT ![SetIndex("L1I", i.addr)] =
                            Append(@, CachelineAddress(i.addr))]
                    ELSE fetched
      /\ \E p \in Recorded(i) :
           /\ predicted' = Predict(p, i).dir
           /\ bpu' = Predict(p, i).next
      /\ stats' = [branches       |-> stats.branches + (IF Resolves(i) THEN 1 ELSE 0),
                   mispredictions |-> stats.mispredictions
                                        + (IF Mispredicted(i) THEN 1 ELSE 0),
                   skipped        |-> stats.skipped + (IF Shortened(d) THEN 1 ELSE 0)]
      /\ previous' = IF i.md THEN Key(i) ELSE NoAddr
      /\ lastDir' = IF Resolves(i) THEN [lastDir EXCEPT ![previous] = Actual(i)]
                                   ELSE lastDir
      /\ resolved' = IF Resolves(i) THEN previous ELSE resolved
      /\ wrapped' = (wrapped \/ (/\ cfg.bpu = "Naive" /\ predicted' # "none"
                                 /\ bpu'.nAccesses = 0))
      /\ ForwardDueInstrs(Append(instrQueue, [id |-> numInst + 1, left |-> left,
                                              age |-> 0, due |-> left]), room)
      /\ UNCHANGED <<cfg, numData>>

\* Mutant: all instructions of the queue wait at the same time.
CycleStartAll(r) ==
  /\ numInst < MaxInst \/ instrQueue # <<>>
  /\ ForwardDueInstrs([k \in DOMAIN instrQueue |->
       [instrQueue[k] EXCEPT !.left = IF @ > 0 THEN @ - 1 ELSE @,
                             !.age = IF k = 1 THEN @ + 1 ELSE @]], r)
  /\ UNCHANGED <<cfg, units, bpu, predicted, previous, stats, numInst, numData,
                 lastDir, resolved, wrapped, fetched>>

\* Mutant: instructions that have become due leave only when another enters.
CycleStartNoForward(r) ==
  /\ numInst < MaxInst \/ instrQueue # <<>>
  /\ instrQueue' = [k \in DOMAIN instrQueue |->
       [instrQueue[k] EXCEPT !.left = IF k = 1 /\ @ > 0 THEN @ - 1 ELSE @,
                             !.age = IF k = 1 /\ instrQueue[k].left > 0 THEN @ + 1 ELSE @]]
  /\ room' = r
  /\ UNCHANGED <<cfg, units, bpu, predicted, previous, stats, numInst, numData,
                 lastDir, resolved, wrapped, fetched, forwarded>>

\* cycleStart: only the instruction at the front comes closer to being due.
\* age counts the cycles it has been there.
CycleStart(r) ==
  /\ \/ numInst < MaxInst
     \/ instrQueue # <<>>
  /\ ForwardDueInstrs([k \in DOMAIN instrQueue |->
       IF k > 1 THEN instrQueue[k]
       ELSE [instrQueue[k] EXCEPT !.left = IF @ > 0 THEN @ - 1 ELSE @,
                                  !.age = IF @ < instrQueue[k].due THEN @ + 1 ELSE @]], r)
  /\ UNCHANGED <<cfg, units, bpu, predicted, previous, stats, numInst, numData,
                 lastDir, resolved, wrapped, fetched>>

\* The load/store unit asks the L1 data cache (MCADLSUnit::dispatch).
DataAccess(a, isStore) ==
  LET chain == Chain("L1D", cfg.caches)
  IN  /\ "L1D" \in cfg.caches
      /\ numData < MaxData
      /\ numData' = numData + 1
      /\ units' = IF isStore THEN Store(units, chain, a) ELSE Load(units, chain, a)
      /\ UNCHANGED <<cfg, bpu, instrQueue, predicted, previous, room, stats,
                     numInst, forwarded, lastDir, resolved, wrapped, fetched>>

Next ==
  \/ \E i \in Insts : Execute(i)
  \/ \E r \in 0 .. DispatchWidth : CycleStart(r)
  \/ \E a \in DataAddr, isStore \in BOOLEAN : DataAccess(a, isStore)

\* The pipeline runs cycle after cycle while a stage has work, and the next
\* stage has room again and again (its instructions retire).
Fairness == /\ WF_vars(\E r \in 0 .. DispatchWidth : CycleStart(r))
            /\ SF_vars(\E r \in 1 .. DispatchWidth : CycleStart(r))

Spec == Init /\ [][Next]_vars
FairSpec == Spec /\ Fairness

-----------------------------------------------------------------------------
(* Properties.                                                             *)

\* Instructions leave forwardDueInstrs in the order in which they entered,
\* each once, whatever their delays are.
FetchInOrder ==
  LET all == forwarded \o instrQueue
  IN  Len(all) = numInst /\ \A k \in DOMAIN all : all[k].id = k

\* Nothing leaves before its time: a delay is served at the front of the
\* queue, it does not run while an earlier instruction is delayed.
DelaysServed == \A k \in DOMAIN forwarded : forwarded[k].age >= forwarded[k].due

\* The branches of the program that share no entry of the naive predictor
\* with another one.
Alone(k) == \A i \in Insts : i.branch /\ Key(i) # k => Before(Key(i), k) \/ Before(k, Key(i))

\* The naive predictor predicts TAKEN only for a branch that was taken the
\* last time it was executed: entries that are evicted and made anew do not
\* bring back an old direction, wherever the access counter starts and whether
\* it wraps.
PredictionBacked ==
  cfg.bpu = "Naive" /\ predicted = "TAKEN" /\ Alone(previous)
    => lastDir[previous] = "TAKEN"

\* As long as its access counter has not wrapped, the naive predictor knows the
\* direction of the branch it was told of last: eviction takes an entry that was
\* used before, although it runs after the entry of the branch was made.  With
\* a capacity of one nothing is kept.
LastBranchKnown ==
  cfg.bpu = "Naive" /\ HistoryCapacity > 1 /\ ~wrapped
    /\ resolved # NoAddr /\ Alone(resolved)
    => /\ resolved \in DOMAIN bpu.history
       /\ bpu.history[resolved].lastDirection = lastDir[resolved]

\* The tables of the predictors keep to their sizes (the history table is
\* emptied to one less than its capacity, the base table has no limit).
PredictorsBounded ==
  /\ cfg.bpu = "Naive" => Cardinality(DOMAIN bpu.history) < Max({1, HistoryCapacity})
  /\ cfg.bpu = "Skylake" =>
       \A t \in Range(Tables) :
         /\ t # "base" => Cardinality(DOMAIN bpu.tables[t]) <= PHTRows
         /\ \A x \in DOMAIN bpu.tables[t] : Len(bpu.tables[t][x]) <= PHTWays

\* A shared lower level is asked exactly for the loads its upper levels miss,
\* whichever levels are enabled.
MissesGoDown ==
  LET first == units["L1I"].misses + units["L1D"].misses
  IN  /\ "L2" \in cfg.caches => units["L2"].loads = first
      /\ "L3" \in cfg.caches =>
           units["L3"].loads = IF "L2" \in cfg.caches THEN units["L2"].misses
                               ELSE first

\* The lines of the last NumWays accesses to a set of the instruction cache
\* are in it as long as lastAccess has not wrapped: evictEntry evicts what was
\* used least recently.  Line 0 is left out: it is found in ways that were never
\* filled, and the next free way is handed out although line 0 was just found
\* there.
RecentLinesResident ==
  units["L1I"].clock < AccessModulus =>
  \A s \in DOMAIN fetched : \A k \in DOMAIN fetched[s] :
    k + NumWays["L1I"] > Len(fetched[s]) /\ fetched[s][k] # 0
      => \E w \in 1 .. NumWays["L1I"] : units["L1I"].table[s][w].line = fetched[s][k]

\* An address whose line is in the instruction cache is found there.
CachedLinesHit ==
  \A i \in Insts :
    LET u == "L1I"
        ways == units[u].table[SetIndex(u, i.addr)]
    IN  (\E w \in DOMAIN ways : ways[w].line = CachelineAddress(i.addr))
          => Hit(u, units[u], i.addr)

\* Every instruction that enters the stage leaves it.
AllForwarded == \A k \in 1 .. MaxInst : numInst >= k ~> Len(forwarded) >= k
=============================================================================
