# A TLA+ model of LLVM-MCA-Daemon

LLVM-MCA-Daemon (MCAD) feeds a stream of instructions, produced by a *broker*,
into the cycle-level pipeline simulator of LLVM (`llvm-mca`) and reports timing.
Brokers are plugins: one receives executed translation blocks from QEMU over a
socket, others serve RPC clients (Binary Ninja, Ghidra, Vivisect), one reads an
assembly file. The interesting code is where threads hand instructions over,
where the worker cuts the stream into batches and regions, and where the
simulated hardware orders, delays and predicts. This directory models that code;
paths below are relative to the repository, and `PROJECT.json` maps every
definition to its source lines.

## The system

| Component | State it keeps | Operations | Correct when |
|---|---|---|---|
| QEMU relay, `plugins/qemu-broker/Qemu/Plugin.cpp` | the TB that is executing and its memory accesses, TB numbering, code range, registers it can read | translation, execution, memory and exit callbacks | every executed TB is sent once, with its own accesses, after the TB itself; then the end signal |
| QEMU broker, `plugins/qemu-broker/Broker.cpp` | TBs, open region, queue of slices, end-of-stream flag, connections | receiver thread: `handleMetadata`, `addTB`, `tbExec`; worker side: `fetchRegion` | the worker gets the executed instructions of the regions once, in order, with their own memory accesses; it stops after the end signal and not before the queue is empty |
| Region manifest, `plugins/qemu-broker/BinaryRegions.cpp` | regions by start address | `Create` | regions are those of the entries that can be resolved |
| Broker contract, `Brokers/Broker.h` | | `fetch`, `fetchRegion` | the next instructions, in order, never past the end of a region, -1 only at the end |
| Assembly broker and code regions, `Brokers/AsmFileBroker.cpp`, `Brokers/AsmUtils/` | regions, cursor | `parseCodeRegions`, `fetchRegion` | each region has the instructions between its directives; they are handed out by the contract |
| Driver and MCA worker, `llvm-mcad.cpp`, `MCAWorker.cpp` | trace buffer, metadata, recycled instructions, pipeline, pointers to statistics | `main`, `run`: fetch, convert, simulate, report, reset | every region is reported once with its own instructions; metadata and statistics are current |
| Views, `MCAViews/` | open regions, entries of the timeline, counts | dispatch and retire events | a timeline has a row for every instruction of its region |
| Fetch delay stage, `CustomStages/`, with predictors and caches, `CustomHWUnits/` | delayed instructions, branch history, cache tables | `execute`, `cycleStart`, `predictBranch`, `load`, `store` | instructions leave in order when they are due; tables keep to their sizes; a hit is a cached line |
| Load/store unit, `CustomHWUnits/MCADLSUnit.*` | memory groups and their dependencies, current groups, queue entries, outstanding cache requests | `dispatch`, `isReady`, `onInstructionIssued/Executed/Retired`, `cycleEvent` | nothing passes what it may not pass; every instruction eventually retires; queue entries balance |
| Binary Ninja broker, `plugins/binja-broker/Broker.cpp` | instruction queue, two flags, counts, errors, server | `RequestCycleCounts` (one thread per call), `fetchRegion`, `signalWorkerComplete`, the listener | a call gets the counts or the errors of its own instructions; calls return; shutdown stops everything |
| Vivisect broker, `plugins/vivisect-broker/` | queue, MCInst pool, running flag | `RecordEmulatorActions`, `fetchRegion` | instructions are delivered once, in order, while their MCInsts exist |

How they interact. `main` makes the worker, loads a broker plugin and calls
`run` in one thread. The worker calls its broker through `Broker.h`; the QEMU
broker's receiver thread and the RPC handlers run concurrently with it and share
queues (mutex and condition variable, or atomic flags). MCInsts are owned by the
broker and read by the worker through pointers. The worker makes
`mca::Instruction`s of them, or recycles old ones, tags them with a token that
leads to the broker's metadata, and drives the pipeline, whose stages call the
fetch delay stage and the load/store unit; both share the lower cache levels. The
views listen to dispatch and retire events and look the markers up by the same
token. At the end of a region the pipeline with its units is thrown away.

What is hard. Lost wake-ups between queueing, notifying, testing and waiting; an
end signal that overtakes queued work; slices that are split at the limit of a
batch; regions that begin and end inside TBs; TB indices and MCInst pointers that
are reused; flags that are cleared by a completion of an earlier round; pointers
to statistics of a pipeline that is gone; two regions in flight at once; a group
id that outlives its group; orders that depend on three "current" groups and two
sorts of dependency; tables and queues at their limits. `PROJECT.json` lists
these as hazards, each at its line.

## Modules

| Module | Models | State and actions |
|---|---|---|
| `Broker` | the contract of `Broker.h`, abstractly: a stream, how much of it was given, whether -1 was returned | `Produce`, `Fetch`, `FetchEnd` |
| `QemuBroker` | receiver thread and worker of the QEMU broker | One action per message and critical section: `Accept`, `CloseConnection`, `HandleMetadata`, `AddTB`, `TbExec` (with lazy disassembly and region handling), `TbExecEnd`, `TbExecInvalid`, `Enqueue`, `Notify`; worker: `FetchEmpty`, `SpuriousWakeup`, `FetchSelect`, `FetchDeliver`, `Convert` |
| `BinaryRegions` | the region manifest, as operators on its contents | `Create`, `ParseSymbolBasedRegions`, `ParseAddressBasedRegions` |
| `QemuSystem` | `QemuBroker` composed with the relay, the test client, the socket between them, options, constructor and destructor | relay: `Install`, `TbTranslateCallback`, `TbExecCallback`, `OnMemoryOps`, `OnPluginExit`, `Kill`; `TestClient`; broker: `Construct`, `AcceptClient`, `ReadMessage`, `ReadEOF`, `Destroy` and the actions of `QemuBroker` |
| `CodeRegions` | code regions and assembly file broker, as operators on values | `BeginRegion`, `EndRegion`, `AddInstruction`, `ParseCodeRegions`, `FetchRegion` |
| `Views` | timeline and summary views and region markers, as operators on values | `TimelineDispatched`, `TimelineRetired`, `SummaryDispatched`, `SummaryRetired` |
| `MCAWorker` | `main` and `run`, with `CodeRegions` and `Views` | `Main`, `FetchAsm`, `FetchStream`, `FetchStreamEnd`, `Convert`, `Dispatch`, `Redispatch`, `Retire`, `Pause`, `Finish`, `PipelineError`, `Report` |
| `Cache`, `BranchPredictors` | cache hierarchy, naive and Skylake predictor, as operators on values | `Load`, `Store`; `NaiveRecord`, `NaivePredict`, `SkylakeRecord`, `SkylakePredict` |
| `MCADFetchDelayStage` | the fetch delay stage with predictor and caches, and the data accesses of the load/store unit | `Execute`, `CycleStart`, `DataAccess` |
| `MCADLSUnit` | the load/store unit in LLVM's pipeline | `DispatchStore`, `DispatchLoad`, `DispatchJoin` (three outcomes of `dispatch`), `BecomeReady`, `Issue`, `Execute`, `Retire`, `CycleEvent` |
| `MDMemoryAccess` | bundles of memory accesses and their comparison | `AppendAccess`, `IsMemAccessAlias` |
| `BinjaBroker` | server, RPC handlers and worker of the Binary Ninja broker | handler: `Call`, `SignalShutdown`, `Push`, `SignalInput`, `Arm`, `Wake`, `Respond`, `Finish`; worker: `InputAvailable`, `CheckRunning`, `Fetch`, `Convert`, `Simulate`, `Complete`; `ServerLoop`, `Destroy` |
| `VivisectBroker` | client, handler and worker of the Vivisect broker | `RecordInstruction`, `Del`, `TestRunning`, `Push`, `FetchRegion`, `FetchStopped`, `Convert`, `ServerLoop`, `Destroy` |
| `MCADLSUnit_proofs` | theorems about `MCADLSUnit` and `MDMemoryAccess`: stores, groups, loads, barriers, queues, bundles of accesses | |
| `QemuBroker_proofs` | theorems about `QemuBroker`: copies, lifetime of MCInsts, the stream, the contract | |
| `QemuSystem_proofs` | the theorem about the relay in `QemuSystem` | |
| `MCAWorker_proofs`, `MCAWorker_regions`, `MCAWorker_reports` | theorems about `MCAWorker`, each module building on the one before: statistics, tokens, timelines; code regions and the assembly file broker; reports and the contract | |
| `MCADFetchDelayStage_proofs` | theorems about `MCADFetchDelayStage`: queue, predictors, caches | |
| `BinjaBroker_proofs` | theorems about `BinjaBroker`: types, hand-over of requests and results | |
| `MC...` | instances for TLC | |

Abstractions.

* `QemuBroker`, `QemuSystem`. A block is its address, the number of MCInsts each
  raw instruction decodes to (0: it cannot be decoded) and the raw instructions
  that access memory; instruction offsets keep their 8 bits and slice indices
  their 16-bit end marker. An instruction is the executed TB it belongs to and its
  position; the history variable `trace` is the stream the guest really executed
  inside regions, computed from the block alone, independently of the offsets,
  slices and splits of the code. The socket holds whole messages; a killed process
  may lose its last one, which the broker would have read in part and dropped. A
  TB is filtered as a whole. JSON, ELF and DWARF are reduced to the fields that
  are looked at.
* `MCAWorker`. LLVM's pipeline (external) is a FIFO of bounded depth: instructions
  enter and retire in order, and the pipeline pauses when its source has run dry.
  (An in-order pipeline of LLVM may retire out of order; that order is left out.) A
  microcoded instruction is carried over: it is dispatched again in later cycles, at
  most `CarryCycles` of them, perhaps after it has retired, and each time the views
  get the event (`Redispatch`); nothing else is dispatched meanwhile.
  Metadata is one record per token. A statistic is the number of the pipeline it
  points into. Cycles and text are left out. The lexer's look-ahead (external) is
  an input: either way of reading a file must give the same regions.
* `MCADFetchDelayStage`. Cycles are steps; the next stage has room for an
  arbitrary number of instructions in each. Uninitialised `nAccesses` is any
  value. The order of an `unordered_map` is any order. The counter of the naive
  predictor wraps at `CounterModulus`, the time kept in a way of a cache at
  `AccessModulus` (2^32 in the code), while the clock of the unit goes on.
* `MCADLSUnit`. LLVM's `MemoryGroup` (external) is modelled by what the unit uses
  of it: the counters of a group become the set of dependencies not yet released
  and the statuses of its members; two accesses overlap when they have the same
  address (bundles are in `MDMemoryAccess`); a cache access has a latency from a
  small set.
* `BinjaBroker`. Every access to an atomic flag is a step of its own; an entry of
  `CountStore` is the instruction its cycles were measured for and the instructions
  that set its pressure flag, which nothing clears; any simulated instruction may
  set it.
* `VivisectBroker`. An MCInst that was moved when the pool grew may read as garbage
  (0). The client makes synchronous calls.

Client programs may send anything the protocol allows, within bounds.

## Runs

| Run | Shows | Bounds, and why they suffice |
|---|---|---|
| `qemu_system` | From the guest's executions to the worker, in every order of the steps of QEMU, receiver and worker: executions are sent whole, once and in order (`RelayFaithful`); exactly the regions' instructions are delivered, in order, with their own accesses and region ends (`StreamInOrder`), copies stay inside a TB (`CopiesInBounds`); the broker implements `Broker` (`KeepsContract`); the worker always catches up (`TraceDelivered`), and when QEMU exits everything stops, with nothing lost (`ExitStops`). The assumptions checked with it compare `BinaryRegions` with a reference | 5 blocks (a region over two of them, one inside a third, one undecodable, one filtered), 3 TBs, 3 executions and one message of a test client, batch of 4, socket of 2 messages, 2 connections: slices are split at every position, the socket is full, the queue is empty and holds more than a batch |
| `qemu_reuse` | *violation* of `NoDanglingInst`: a second QEMU process numbers its TBs from 0 and `addTB` frees MCInsts the worker is reading | 2 connections, 1 TB |
| `qemu_second` | *violation* of `TraceDelivered`: with two connections allowed the worker stops at the first end signal | 2 connections |
| `worker` | Reports are exactly those of the regions (`ReportsExact`), instructions lead to their own metadata although they are recycled (`IdentifiersOwn`), regions hold what is between their directives whatever the lexer's look-ahead (`RegionsExact`), timelines are complete with two regions in flight and instructions that are dispatched several times (`TimelinesComplete`), statistics are read from the pipeline that exists (`StatsCurrent`), the assembly broker implements `Broker` (`KeepsContract`), the program ends (`WorkerEnds`) | every file of at most 5 lines and a longer one, marked and cut streams of 8 instructions, buffer 2, pipeline of 2, dispatches of up to 3 cycles (`CarryCycles` = 2), every start-up failure: regions longer than, as long as and shorter than the buffer, empty, overlapping, unclosed |
| `frontend_front` | Instructions leave the fetch stage in order (`FetchInOrder`), not before their delay was served at the front (`DelaysServed`), and all do (`AllForwarded`); a prediction of TAKEN is the last direction of that branch (`PredictionBacked`), and eviction does not take the branch that was just recorded (`LastBranchKnown`); tables keep to their sizes (`PredictorsBounded`); shared levels are asked exactly for the misses above (`MissesGoDown`); the lines used last are resident until the time kept with them wraps (`RecentLinesResident`) | 4 instructions of 4 kinds, 4 configurations of predictor and cache levels, 2 ways, history of 2 branches, pattern tables of 1 entry, access counter and access times modulo 4, one data access: the second branch evicts the first, every table is full after two or three instructions, and both counters wrap |
| `frontend_lines` | *violation* of `CachedLinesHit`: an address that does not start its line misses although the line is cached | 3 instructions |
| `lsu_order` | The unit as the driver builds it (`llvm-mcad.cpp:369`), with the NoAlias assumption, traced accesses and a cache: the ordering rules of the comments of `dispatch` that hold there (`StoresInOrder`, `StoresAfterStoreBarriers`, `NoLoadPassesLoadBarrier`, `NoLoadBarrierPassesRun`), the assertions on groups and the queues (`GroupsExist`, `GroupAssertions`, `QueuesBalanced`), and every instruction retires (`AllRetire`) | 4 instructions of 6 kinds, 2 addresses, load queue 3, store queue 2, latencies 0 and 1: a rule involves two instructions, and two more may stand between them or hold the current groups |
| `lsu_alias` | *violation* of `NoLoadPassesStore`: a load starts before an older store to its address | 3 instructions |
| `lsu_barrier` | *violation* of `NoLoadBarrierPassesLoad`: after a load, a store and another load, a load barrier depends on the group of the second load, which nothing orders behind the first, and starts before it (`MCADLSUnit.cpp:241` says it may not) | 4 instructions of 3 kinds |
| `binja_calls` | Calls of two clients that overlap in any way. A call that no other one interrupts gets its answer whatever earlier, overlapping calls have left behind (`CallsReturn`); a shutdown stops worker and server and releases the handlers that wait for an idle worker, those included that have missed their wake-up (`ShutdownStops`). For calls made while the worker and all handlers are idle: cycles and errors are those of the call's own instructions, and no instruction sets the pressure flag of another one of the request (`CalmResponseExact`, `ErrorsExact`), and nobody writes what a handler reads (`NoDataRace`) | 2 clients, 3 calls: two can overlap, the third sees what they left; one client sends plain instructions, a call and instructions MCA rejects, the other one bytes that cannot be disassembled, and shutdown |
| `binja_stale` | *violation* of `ResponseExact`: a call right after another is woken by an old completion and answered with old counts | 1 client, 2 calls |
| `vivisect_end` | *violation* of `NothingLeftAtEnd`: the client is deleted while its last instructions are queued, and `fetchRegion` returns -1 with them still there | 3 instructions, buffer 2 |

Deadlock checking is off in all runs: a bounded client stops, and so may the
program. Each property of a passing run has a mutant of the code that breaks it.

Refinement. `Broker` states the contract once. `KeepsContract` of `QemuBroker` maps the
stream to the guest's trace, what was given to the number of instructions
delivered, and the end to the worker's stop; that of `MCAWorker` maps them
to the regions of the file, the broker's counter and `EndOfStream`. In
`MCAWorker` any other broker is assumed to keep it (`FetchStream`), which is what
the first refinement provides for QEMU.

Fairness. The operating system runs the threads, so a thread that can take its
next step takes it: weak fairness on the worker, on the receiver, on each RPC
handler and on the destructors. In `QemuSystem` and `MCAWorker` it is written out
with the enabling conditions (`RecvEnabled`, `FetchEnabled`, `DestroyEnabled`,
`Running`) instead of `WF`, which says the same and is cheaper to check. A
spurious wake-up, a new message or call, and anything QEMU or a client does are
never owed, except that a relay that has exited has closed its socket. In the
pipeline every stage is run in every cycle, so weak fairness of each
instruction's steps and of the clock is what LLVM's scheduler provides; the stage
after the fetch delay stage has room again and again because instructions retire
(strong fairness in `MCADFetchDelayStage`).

## Proofs

34 theorems, each for every value of the constants that its module's assumption
admits. All 27 invariants that the passing runs check on small instances are
theorems, and so are both refinements of `Broker` (`KeepsContract`). An invariant is proved from an inductive strengthening, with one lemma per action;
where a theorem has a hypothesis on the constants, it is named here, together with
what happens without it. In this section an invariant is written as it is named in
the modules.

### Load/store unit

`MCADLSUnit_proofs` proves, from `LSUAssumption` only (any number of instructions,
any set of kinds, any addresses, queue sizes and latencies, with or without the
NoAlias assumption and the cache):

* `TypeCorrect`: `Spec => []TypeOK`. Needs that a group id is handed out per
  instruction (`NextCustomGroupID <= n + 1`).
* `GroupsExistAlways`: `Spec => []GroupsExist`, the assertion of
  `getCustomGroup`. The inductive invariant `GroupInv` adds that a group exists
  as long as one of its instructions has not executed (`TokensOK`), that an
  order dependency is only on a group with an instruction still to start, and
  that the group of an instruction that became ready has no dependency left
  (`DepsOK`). Without the second, erasing an executed group could leave an order
  dependency on it: `onInstructionExecuted` only releases data dependencies.
* `StoresNeverPass`: `Spec => []StoresInOrder`, and `StoreBarriersHold`:
  `Spec => []StoresAfterStoreBarriers`. Neither is inductive: a store is kept
  behind *all* older instructions although it only depends on the youngest store
  group, the youngest load group and the youngest store barrier. The invariant
  `IInv` says why that is enough. As long as an older instruction i has not
  started, the store still has a dependency on i, on a store after i, or on a
  load of the uninterrupted run of loads that begins with i (`StoreBlocked`);
  in such a run of loads a younger group waits for the older ones (`RunInOrder`,
  by `RunBlocked`); and what the current group ids stand for (`CurrentOK`,
  `YoungestOK`, `GroupOrder`). The proof has one lemma per action: issuing and
  executing can only remove dependencies, and those they remove are on groups
  whose start implies, by the order already established, that i has started;
  dispatching must add one (`StoreDepsBlock`, `LoadDepsBlock`).

It goes on from `IInv`, from the same assumption:

* `QueuesStayBalanced`: `Spec => []QueuesBalanced`, the entries of the two queues are
  those of the instructions that hold one. The invariant is the property with the
  types; the work is in the cardinalities.
* `LoadBarriersHold`: `Spec => []NoLoadPassesLoadBarrier`. A load depends on the
  current load barrier only. `LInv` adds that the current barrier is the youngest
  until it has executed (`CurrentBarrier`, `YoungestBarrier`), that its group comes
  after those of older instructions and before those of younger ones
  (`BarrierGroups`, `LoadTop`), and that a load behind a barrier that has not started
  has a data dependency on the group of the barrier or of an instruction between
  (`LoadBarrierBlocked`).
* `AssertionsHold`: `Spec => []GroupAssertions`, the assertions of LLVM's
  `MemoryGroup`. That a load joins a group nobody waits for is `FollowedOK`: the
  current load group gets a successor only from a store or a load barrier, which is
  current as long as the group has an instruction to start.
* `BarriersEndRuns`: `Spec => []NoLoadBarrierPassesRun`. A load barrier passes no load
  dispatched since the last store. From `LInv`: a barrier has a group of its own, and
  in a run of loads the groups start in order (`RunInOrder`). For loads before that
  store the rule fails, see the run `lsu_barrier`.
* `StrictLoadsWait`: `Strict => (Spec => []LoadsAfterStores)`, where `Strict` is a unit
  without NoAlias assumption and traced accesses. The driver does not build it, so no
  run checks it; it is the case in which the comment on loads and stores
  (`MCADLSUnit.cpp:232`) is unconditional, and the run `lsu_alias` shows what is left
  of it with traced accesses. `SInv` adds to `LInv` that a load waits
  until the stores before it have executed (`StrictOrder`, `StrictBlocked`).

Of `MDMemoryAccess` it proves, for all addresses and sizes, what a bundle of accesses
is worth: `AppendCoversNew` (the access appended last is inside the range),
`AppendKeepsIff` (the old range stays covered exactly when the new access does
not start below it, or reaches its end: `append` lowers the address and leaves the
size), and `AliasSound` (the comparison of ranges finds every overlap of what they
cover). Together: an overlap is missed only through the case `AppendKeepsIff`
names.

### QEMU broker

`QemuBroker_proofs`, for every trace, mode, set of regions, batch size and
interleaving of receiver and worker:

* `FreshNeverDangles`: `FreshIndices => (Spec => []NoDanglingInst)`. `FreshIndices`
  says that no TB index is sent twice, which is what one relay process does. The
  invariant `DInv` follows a TB from `addTB` over the slice that is being made
  (decoded between two critical sections) to the queue, the selected slices and the
  instructions in the worker's hands. Without the hypothesis a second process
  numbers its TBs from 0 again: the run `qemu_reuse` violates it. In the run
  `qemu_system` indices start over too, but the second client sends one message.
* `CopiesStayInBounds`: `BlocksFit => (Spec => []CopiesInBounds)`, where `BlocksFit`
  adds that no TB is longer than a batch. The end of a slice is computed from its
  length without its start (`Broker.cpp:805`), so a slice that starts late claims
  more than it has. `SInv` says why nothing is copied beyond the TB all the same: a
  late slice is the first of its region, so the slice before it in the queue ends
  one, so it comes first in its batch, so it is only cut if the TB is longer than a
  batch. The bound is sharp: TLC finds a violation with a TB of 4 and batches of 3,
  and none with batches of 4.
* `StreamStaysInOrder`: `StreamFit => (Spec => []StreamInOrder)`, the broker's whole
  purpose: trimming at regions, splitting at the end of the buffer, batching and the
  two threads change nothing about the stream. `StreamFit` is `BlocksFit` and, of every
  block: offsets fit into the byte they are kept in; the position at which the
  accesses of an instruction are filed is its own; in trim mode no second region starts
  after the end of one. Each of the three excludes a behaviour listed below under
  "What the code does not guarantee". On top of `DInv` and `SInv` the invariant `TInv`
  says that the trace is, without gap or overlap, what was delivered, what is selected,
  what is queued and the slice on its way to the queue (`Laid`); that each of these
  slices spells its part of the trace, accesses and region end included (`Covers`,
  `Spelled`); that what is selected fits into the buffer; that only its last slice may
  end a region, since the flag of a batch is about its last instruction; and that the
  region the broker takes to be open is the one the guest is in. The lemmas: what `tbExec`
  cuts out of a TB, scanning once for one start and one end, is what the definition of
  the trace selects instruction by instruction (`ScanFacts`, `SliceTraced`); a split slice
  spells the same in two parts (`SplitSpelled`); the copy loop over the selected slices
  spells them one after the other (`FlattenJoined`, `DeliverStream`).
* `BrokerKeepsContract`: `StreamFit /\ MaxConn = 1 => (Spec => KeepsContract)`, the
  refinement of `Broker`. A step of `tbExec` is a `Produce`, a delivery a `Fetch`, and the
  worker's stop the `FetchEnd`; the rest are stutters. `EInv` adds that once the end signal
  has been handled no slice is on its way and no client can be accepted. One connection
  is the default of `-max-accepted-connection`; with two, a client that connects after
  the end signal produces instructions nobody fetches (run `qemu_second`). The run
  `qemu_system` checks the refinement with two connections of which the first sends no
  end signal.

`QemuSystem_proofs`, for every program, options, manifest, socket size and number of
connections, and whatever the test client has sent before:

* `RelayIsFaithful`: `SysSpec => []RelayFaithful`. The invariant `RInv` relates the relay,
  the socket and the broker's table: while the relay runs, what the guest executed is what
  was handled, what is in the socket and the execution that is still held back, with
  the accesses seen so far (`Exact`); every TB that was translated is either held by the
  broker under its index or precedes, in the socket, every execution of it
  (`Told`), also when the table still has TBs of an earlier client; a relay that never
  started has left nothing behind (`Idle`).

### Worker

`MCAWorker_proofs`, for every input, batching, buffer and pipeline depth:

* `StatsAreCurrent`: `FirstLevelInUse => (Spec => []StatsCurrent)`. `StatsInv`: a
  statistics pointer that is set points into the pipeline that exists, and every
  pipeline made for an input owns and points at the same statistics. The hypothesis
  says that the lower cache levels given are kept by a first level that the
  pipeline uses. Without it the theorem is false: an in-order pipeline with an L1D
  and an L2 keeps a pointer to the L2's statistics, which were freed with the L1D.
* `IdentifiersAreOwn`: `Spec => []IdentifiersOwn`. `IdentInv` says that a staged
  instruction and a copy in flight carry the token of the MCInst they were made of,
  and of a recycled instruction only that it is one: it may carry any token. The
  conversion loop is a recursive function; that each of its values has its type is
  proved by a least counterexample (`RecursionExists`, `RecursionType`).
* `TimelinesAreComplete`: `WellMarked => (Spec => []TimelinesComplete)`. `WellMarked`
  says that among the simulated instructions of a stream begin and end markers
  alternate, that a region of the stream leaves none open, and that no marker is on a
  microcoded instruction, whose repeated events would open or close several
  regions. `TimelineInv` has four parts. `IdentInv`: the view looks up the markers of the right instruction.
  `ViewInv`: with D dispatched and R retired, the regions the view knows do not
  overlap, all but the open one end at an instruction in flight, and each has a row
  for every instruction dispatched inside it (`Recorded`), so that printing one
  erases no row of another. `LinkInv`: what is staged continues, without a gap,
  where the view is, across batches, pauses, dropped instructions and resets, so
  that the markers the view meets are legal because those of the stream are.
  `CarryInv`: an instruction that is carried over was dispatched before and has no
  marker, so its further events find its row or, if it has retired, change no other. The
  inputs of the run `worker` are well marked; for streams that are not, see below.

`MCAWorker_regions`, for every assembly file and buffer:

* `RegionsAreExact`: `Spec => []RegionsExact`. Two lemmas about the parser, both by a least
  counterexample over the lines. `ParsedFacts`: after each line a region holds the
  instruction lines between its directives so far. `ParseSame`: both reading orders
  give the same regions. They differ in that a directive may be reported before the
  instruction above it; that changes nothing (`SwapLines`), because
  an instruction goes to the regions that its location lies in, whether they are open
  or already ended. `BrokerInv` then follows the cursor: the assembly file broker has
  not been asked, or stands at a place in the regions that corresponds to the number of
  instructions given (`AsmHolds`), so that each fetch answers with the next ones, stops
  at the end of a region and skips the empty ones.

`MCAWorker_reports`, for every input, choice of batches and pipeline depth:

* `ReportsAreExact`: `Spec => []ReportsExact`. `Tally` is the account of a stream, one
  instruction after the other: the reports of the regions that have ended, the
  instructions counted in the open one, the regions without a name. `AccountInv` says
  that at each program point the worker's reports, its counter and its region index are
  those of the account of what was given (at "convert", of what was given before the
  batch); `PipeInv` that what is staged, in flight and retired adds up to that counter,
  and that the summary view has counted exactly what retired (`Counts`); `CarryIdx` that
  an instruction dispatched again is the last one dispatched.
* `WorkerKeepsContract`: `Spec => KeepsContract`, the refinement of `Broker`: every fetch,
  of the assembly file broker or of a stream, is a `Fetch` or the `FetchEnd`, and no
  other step touches what was given.

### Fetch delay stage, predictors and caches

`MCADFetchDelayStage_proofs`, for every program, choice of delays and sizes:

* `ForwardedInOrder`: `Spec => []FetchInOrder`, and `DelaysAreServed`:
  `Spec => []DelaysServed`, from `QInv`: the queue holds the instructions between
  the last one forwarded and the last one received, and the cycles an entry has
  waited and those it has left make up its delay (`Waiting`).
* `TakenPredictionsBacked`: `Spec => []PredictionBacked`, and
  `PredictorTablesBounded`: `Spec => []PredictorsBounded`, from `PInv`: an entry
  of the naive predictor's table that belongs to one branch only has its last
  direction (`Backed`), and
  the tables of both predictors keep to their sizes after an insertion, whatever
  entry was evicted.
* `RecordedBranchesKnown`: `Spec => []LastBranchKnown`, for every capacity above one and
  wherever the uninitialised counter starts. `KInv` adds that until the counter wraps no
  entry was used after the last access, and none but that of the branch predicted at it
  (`UsedBefore`, `UsedLast`), so the entry just made or updated is not the one used least recently.

And for all numbers of sets and ways and all combinations of levels:

* `MissesAreAskedBelow`: `Spec => []MissesGoDown`, from `CInv`, with one lemma on
  what an access to a level and all below it adds to their counters.
* `LinesStayResident`: `Spec => []RecentLinesResident`, least recently used
  replacement from the clock and the time of the last access of each way, as long as
  the clock is below `AccessModulus` (for every modulus, so for 2^32). `RInv`
  gives every way the position of its last access in the history of its set
  (`Rank`): positions and times are ordered alike, and a line is either in a way with
  a position at least as late or all ways were used after it. Line 0 is left out of
  the property, since ways that were never filled look like it.

### Binary Ninja broker

`BinjaBroker_proofs`, for any set of clients and requests and any number of calls:

* `TypeCorrect`: `Spec => []TypeOK`.
* `CountsAreExact`, `ErrorsAreExact` and `ResultsNotRaced`: `CalmResponseExact`,
  `ErrorsExact` and `NoDataRace`, for calls made while the worker and all handlers
  are idle (`calm`). `BInv` holds the hand-over (`HandOver`): what each value of the
  two flags together with the places of worker and handler says about queue, counts
  and errors, including the empty rounds the worker may make before it completes;
  `Ages` and `Fresh` that until the worker simulates a request every pressure flag is
  from an earlier one.
  Without calm the run `binja_stale` shows old counts.

### Only model-checked

* Liveness under fairness (`AllRetire`, `AllForwarded`, `TraceDelivered`, `ExitStops`,
  `WorkerEnds`, `CallsReturn`, `ShutdownStops`): the prover does not handle it.
* The refinement of `Broker` in the composed system of QEMU, relay and broker, and with
  indices that start over: `BrokerKeepsContract` is about the broker with any one client
  that numbers its TBs afresh, and does not follow the relay's options.

Recursive functions over the naturals can be reasoned about by a least
counterexample (`NatMin`), as above; the induction theorems of the library, which
take the induction hypothesis as an operator, cannot be used.

## What the code does not guarantee

The models show behaviour that the passing runs avoid by their constants or by a
hypothesis of the property. Seven of them disagree with a comment or a document
and have a run of their own (above). The others:

* QEMU broker. A TB longer than a batch: after a split the rest of the slice keeps
  an end beyond the TB and the copy loop runs past it (`Broker.cpp:805`, `862`).
  A region that begins in the TB in which another one ended is missed (`296`). A
  region edge 256 bytes or more into a TB is missed because offsets have 8 bits
  (`87`). A raw instruction that cannot be decoded shifts the memory accesses of
  those after it (`754`). A connection that closes without the end signal leaves
  the worker waiting (`665`). The destructor waits for the receiver, which waits
  until it has had all its connections (`453`). A manifest entry with a negative
  start offset is used without it (`BinaryRegions.cpp:145`).
* QEMU relay. While the register with the program counter cannot be read, a TB is
  reported at the address that is its index (`Plugin.cpp:139`). In a TB of which
  only a part is filtered, accesses are numbered by the position in the whole TB
  (`248`). `CurrentExecTB` is shared by all virtual CPUs (`89`). A TB whose
  message could not be written has memory callbacks and no execution callback
  (`271`), so its accesses join the execution before.
* Worker and views. With a lower cache level and no first level, or only the L1D of
  an in-order pipeline, the statistics point into units that were freed
  (`MCAWorker.cpp:287`). The end of a marked
  region without its beginning fails an assertion (`TimelineView.cpp:46`). Of nested
  marked regions the one that is printed first erases rows of the other
  (`TimelineView.cpp:123`), which is why `TimelinesAreComplete` asks for regions that
  do not nest. A marker on a microcoded instruction acts at each of its Dispatched
  events (`TimelineView.cpp:37`, `104`): a second begin stays open, a second end fails
  the assertion at `46`. The summary of a region counts what retired before its begin marker to what retired
  before its end marker, not the end itself (`SummaryView.cpp:52`). Errors of code
  region directives do not stop the analysis (`AsmFileBroker.cpp:44`). A file that
  cannot be read is only reported (`30`), and the broker parses without a buffer;
  that path is not modelled.
* Front end. Two branches of which one directly follows the other share an entry of
  the naive predictor (`MetadataCategories.h:36`). A prediction of the Skylake
  predictor needs an entry whose usefulness is above 0, and entries start at 0.
  Line 0 is found in ways that were never filled (`Cache.h:122`). The count of
  load cycles is the number of loads, since `inc` ignores its argument. After 2^32
  accesses to a cache the time kept with a way wraps (`Cache.h:31`, `81`; the code
  says "FIXME: fix wraparound" at `40`), and after as many predictions so does the
  counter of the naive predictor: then what was used last may be evicted first. The
  comment at `Cache.h:133` speaks of a random eviction; the code evicts the way
  used least recently.
* Load/store unit. Retiring an access erases the outstanding request of
  another access to the same address (`309`). A bundle can lose its end (`35`).
* Binary Ninja broker. A call or return in a request shifts the counts behind it
  (`Broker.cpp:106`); an instruction that cannot be disassembled stays in the
  queue and fails the next request too (`256`); a request longer than the
  worker's buffer is copied past its end (`243`). The pressure flag of an index is set
  and never cleared (`179`): on a CPU whose pipeline reports pressure, such as the
  in-order cortex-a55 of the plugin, a later instruction with the same index is reported
  under pressure, although `README.md:13` promises to say whether there was
  pressure during its own dispatch. When calls overlap, a handler that returns sets
  `DoneHandlingInput` (`115`): it can withdraw another handler's input, which then
  waits for ever, and a shutdown; `CallsReturn` and `ShutdownStops` say what remains.
  The worker may write `InstructionErrors` before the handler has set
  `IsWaitingForWorker` (`81`, `84`), against the rule at `129`; `NoDataRace` only says
  that nobody reads at that time.
* Vivisect broker. The newest instruction is read and the oldest removed
  (`Broker.cpp:108`), so with two queued one is delivered twice and one never.
  `MCI_Pool` may move while pointers into it are in the buffer (`124`). The length
  of the queue is returned even when the buffer is shorter (`171`), which fails an
  assertion of the worker. `running` is written and read without a common lock.

## Not modelled

* Printing of reports, option parsing of the driver, `InstructionView`, debug
  output: no state that anything depends on.
* Generated protocol code and third-party code (`lib/gem5`). It is close to half of
  the C++ of the repository.
* `LocalBPU`, `IndirectBPU`, `CustomSourceMgr`: no pipeline is built with them.
* `-disable-memory-access-md`; partial reads and writes of the socket.
* User interfaces of the Binary Ninja and Ghidra plugins, evaluation and container
  scripts. The tracer broker is a stub.

## Plan

Done: all brokers, the worker, the views, the front end, the load/store unit; the
broker contract as an abstract specification with two implementations; theorems
about every component that is modelled with state, except `VivisectBroker`, whose
only property is violated; among them every invariant the passing runs check and
both refinements. Left, in this order:

1. Mark mode: `QemuBroker` sets the marks (`Decoded`) and `MCAWorker` checks the views
   on streams with marks, but no run composes the two.
2. Several virtual CPUs in the relay.

## Running

    tlc -workers 2 -config MCMCADLSUnit_order.cfg MCMCADLSUnit
    tlapm MCAWorker_proofs.tla

and so on: `PROJECT.json` lists the module and configuration of every run. The modules
with proofs are `MCADLSUnit_proofs`, `QemuBroker_proofs`, `QemuSystem_proofs`,
`MCAWorker_proofs`, `MCAWorker_regions`, `MCAWorker_reports`, `MCADFetchDelayStage_proofs`
and `BinjaBroker_proofs`; each takes between a few seconds and a few minutes.
