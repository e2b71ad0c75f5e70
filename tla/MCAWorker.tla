------------------------------ MODULE MCAWorker ------------------------------
(***************************************************************************)
(* The driver (llvm-mcad.cpp) and the worker loop (MCAWorker.cpp): start   *)
(* up, fetch a batch from the broker, turn it into mca::Instructions, run  *)
(* the pipeline over them, report at the end of each region.               *)
(*                                                                         *)
(* The broker is either the assembly file broker (CodeRegions) or any      *)
(* broker that keeps the contract of Broker.h: it hands out the next       *)
(* instructions of a stream in batches of its own choosing.  The pipeline  *)
(* is LLVM's: its stages are left to MCADFetchDelayStage and MCADLSUnit,   *)
(* here an instruction enters it (and is dispatched, over several cycles   *)
(* if it is microcoded), retires in order, and the views see all of it.    *)
(***************************************************************************)
EXTENDS CodeRegions, Views

CONSTANTS
  Inputs,              \* see InputOK
  MaxNumProcessedInst, \* -mca-max-chunk-size, the length of TraceBuffer
  PreserveCallInst,    \* -use-call-inst
  PreserveReturnInst,  \* -use-return-inst
  CarryCycles,         \* further cycles the dispatch of a microcoded one takes
  PipelineDepth,       \* bound: instructions in flight
  MaxEmptyFetches      \* bound: batches without an instruction

Levels == {"L1i", "L1d", "L2", "L3"}      \* -cache-sim: EnableCache
Faults == {"none", "target", "cpu", "printer", "output", "profiler", "library",
           "symbol", "version", "callback", "nobroker", "pipeline"}

\* What one execution of llvm-mcad is given: a fault that the environment has
\* in store for it, and a file, or the stream of a broker and its features.
InputOK(in) ==
  /\ in.fault \in Faults
  /\ in.caches \subseteq Levels /\ in.outOfOrder \in BOOLEAN
  /\ in.kind \in {"asm", "stream"}
  /\ in.kind = "asm" =>
       /\ in.ahead \in BOOLEAN /\ in.parser \in BOOLEAN
       /\ in.text \in Seq([kind : {"inst", "begin", "end", "comment"},
                           name : STRING, op : STRING])
  /\ in.kind = "stream" =>
       /\ in.region \in BOOLEAN
       /\ in.insts \in Seq([op : STRING, marks : RegionMarker, last : BOOLEAN,
                            name : STRING])
       /\ \A k \in DOMAIN in.insts : in.insts[k].last => in.region

ASSUME WorkerAssumption ==
  /\ \A in \in Inputs : InputOK(in)
  /\ MaxNumProcessedInst \in Nat \ {0}
  /\ PreserveCallInst \in BOOLEAN /\ PreserveReturnInst \in BOOLEAN
  /\ CarryCycles \in Nat
  /\ PipelineDepth \in Nat \ {0} /\ MaxEmptyFetches \in Nat

VARIABLES
  input,         \* what this execution is given
  pc,            \* control point of main and run
  TheBroker,     \* state of the assembly file broker
  given,         \* instructions the broker has handed out
  empties,       \* batches without an instruction so far
  fetched,       \* TraceBuffer, Len, RD and MDIndexMap
  EndOfStream,
  RegionIdx,
  NumTraceMIs,
  MDRegistry,    \* metadata by token
  SrcMgr,        \* staged instructions, the counter, the end flag
  RecycledInsts, \* instructions the pipeline has copied
  created,       \* number of mca::Instructions created
  MCAPipeline,   \* which pipeline this is, and the statistics that live in it
  stats,         \* FetchDelayStats and CacheStats: the pipeline they point into
  flight,        \* instructions in the pipeline
  CarriedOver,   \* the instruction whose dispatch is not over, and what is left
  timeline,      \* TimelineView
  summary,       \* SummaryView
  stream,        \* history: the instructions the broker should hand out
  timelines,     \* history: the timelines printed, in all regions
  reports        \* history: the reports printed

brokerVars   == <<TheBroker, given, empties>>
loopVars     == <<fetched, EndOfStream, RegionIdx>>
instVars     == <<NumTraceMIs, SrcMgr, RecycledInsts, created>>
unitVars     == <<MCAPipeline, stats>>
pipelineVars == <<unitVars, flight, CarriedOver, timeline, summary, timelines>>
vars == <<input, stream, pc, brokerVars, loopVars, MDRegistry, instVars, pipelineVars,
          reports>>

Asm == input.kind = "asm"
UseRegion == Asm \/ input.region      \* Feature_Region
SupportMetadata == ~Asm               \* Feature_Metadata

-----------------------------------------------------------------------------
(* The stream the worker should be given.                                  *)

\* The regions of the file: the lines between their directives, those among the
\* first p lines of it.
LinesUpTo(text, r) ==
  LET lines[p \in 0 .. Len(text)] ==
        IF p = 0 THEN <<>>
        ELSE IF /\ text[p].kind = "inst"
                /\ p > r.start
                /\ r.end # 0 => p < r.end
             THEN Append(lines[p-1], p) ELSE lines[p-1]
  IN  lines
RegionLines(text, r) == LinesUpTo(text, r)[Len(text)]

\* What the broker should hand out: the regions one after the other, here the
\* first k of them.
AsmInsts(text, r) ==
  LET ls == RegionLines(text, r)
  IN  [k \in DOMAIN ls |-> [op |-> text[ls[k]].op, name |-> r.name, last |-> k = Len(ls)]]
AsmUpTo(text, regions) ==
  LET insts[k \in 0 .. Len(regions)] ==
        IF k = 0 THEN <<>> ELSE insts[k-1] \o AsmInsts(text, regions[k])
  IN  insts
AsmStream(text) ==
  LET cr == ParseCodeRegions(text, FALSE)
  IN  AsmUpTo(text, cr.regions)[Len(cr.regions)]

StreamOf(in) == CASE in.kind = "stream" -> in.insts
                  [] in.kind = "asm" /\ in.parser -> AsmStream(in.text)
                  [] OTHER -> <<>>

-----------------------------------------------------------------------------
Statistics == {"FetchDelay"} \cup Levels

NewSrcMgr == [Staging |-> <<>>, TotalCounter |-> 0, EOS |-> FALSE]
NotCarried == [left |-> 0, ident |-> NoIdentifier, idx |-> 0]
NoBatch == [Len |-> 0, rd |-> FALSE, name |-> "", insts |-> <<>>,
            MDIndexMap |-> <<>>]

Init ==
  /\ input \in Inputs
  /\ stream = StreamOf(input)
  /\ pc = "main"
  /\ TheBroker = NewAsmFileBroker
  /\ given = 0
  /\ empties = 0
  /\ fetched = NoBatch
  /\ EndOfStream = FALSE
  /\ RegionIdx = 0
  /\ NumTraceMIs = 0
  /\ MDRegistry = <<>>
  /\ SrcMgr = NewSrcMgr
  /\ RecycledInsts = {}
  /\ created = 0
  /\ MCAPipeline = [number |-> 0, owns |-> {}]
  /\ stats = [s \in Statistics |-> 0]
  /\ flight = <<>>
  /\ CarriedOver = NotCarried
  /\ timeline = NewTimeline
  /\ summary = NewSummary
  /\ timelines = <<>>
  /\ reports = <<>>

-----------------------------------------------------------------------------
(* Pipelines.                                                              *)

\* buildCache: the statistics of the levels that outlive it.  A lower level is
\* only kept by the first levels above it that end up in a unit.
Kept1(levels) == levels \cap {"L1i", "L1d"}
KeptCaches(levels) ==
  Kept1(levels) \cup (IF Kept1(levels) = {} THEN {} ELSE levels \cap {"L2", "L3"})

\* createDefaultPipeline: the load/store unit gets the L1D, the fetch delay
\* stage the L1I; all statistics are pointed to.
DefaultPipeline(in) ==
  [owns   |-> {"FetchDelay"} \cup KeptCaches(in.caches),
   points |-> {"FetchDelay"} \cup in.caches]

\* createInOrderPipeline: the L1D is built and dropped, and FetchDelayStats is
\* left alone.
InOrderPipeline(in) ==
  [owns   |-> {"FetchDelay"} \cup KeptCaches(in.caches \ {"L1d"}),
   points |-> in.caches \ {"L1d"}]

\* Mutant: the statistics of the data cache are those of the first pipeline.
CreatePipelineFirst(in) ==
  LET p == IF in.outOfOrder THEN DefaultPipeline(in) ELSE InOrderPipeline(in)
  IN  [p EXCEPT !.points = IF stats["L1d"] = 0 THEN @ ELSE @ \ {"L1d"}]

CreatePipeline(in) == IF in.outOfOrder THEN DefaultPipeline(in)
                      ELSE InOrderPipeline(in)

\* Mutant: the source manager is not cleared.
ResetPipelineKeepsSource ==
  LET p == CreatePipeline(input)
      n == MCAPipeline.number + 1
  IN  /\ RecycledInsts' = {}
      /\ NumTraceMIs' = 0
      /\ SrcMgr' = [SrcMgr EXCEPT !.Staging = <<>>, !.EOS = FALSE]
      /\ MCAPipeline' = [number |-> n, owns |-> p.owns]
      /\ stats' = [s \in Statistics |-> IF s \in p.points THEN n ELSE stats[s]]
      /\ flight' = <<>>
      /\ CarriedOver' = NotCarried
      /\ timeline' = NewTimeline
      /\ summary' = NewSummary

\* resetPipeline, with createPipeline and the two views.
ResetPipeline ==
  LET p == CreatePipeline(input)
      n == MCAPipeline.number + 1
  IN  /\ RecycledInsts' = {}
      /\ NumTraceMIs' = 0
      /\ SrcMgr' = NewSrcMgr
      /\ MCAPipeline' = [number |-> n, owns |-> p.owns]
      /\ stats' = [s \in Statistics |-> IF s \in p.points THEN n ELSE stats[s]]
      /\ flight' = <<>>
      /\ CarriedOver' = NotCarried
      /\ timeline' = NewTimeline
      /\ summary' = NewSummary

resetVars == <<RecycledInsts, NumTraceMIs, SrcMgr, unitVars, flight, CarriedOver,
               timeline, summary>>

-----------------------------------------------------------------------------
(* Start up.                                                               *)

\* getLLVMTarget finds no target for the triple.
NoTarget == input.fault = "target"

\* The target, the MC objects and the output file: main returns 1 when one of
\* them cannot be made.
SetUpFails == NoTarget \/ input.fault \in {"cpu", "printer", "output"}

\* initializeProfilers cannot make a temporary file; the worker is there.
ProfilersFail == input.fault = "profiler"

\* BrokerPlugin::Load: the library, its entry point, the API version and the
\* registration callback, in this order.
LoadFails == input.fault \in {"library", "symbol", "version", "callback"}

\* run() without a broker: the callback of the plugin has set none.
NoBroker == input.fault = "nobroker"

\* main up to the first fetch; the constructor of the worker makes the first
\* pipeline.
Main ==
  /\ pc = "main"
  /\ IF SetUpFails THEN UNCHANGED resetVars ELSE ResetPipeline
  /\ pc' = IF SetUpFails \/ ProfilersFail \/ LoadFails \/ NoBroker THEN "failed" ELSE "fetch"
  /\ UNCHANGED <<input, stream, brokerVars, loopVars, MDRegistry, created,
                 timelines, reports>>

-----------------------------------------------------------------------------
(* Fetching.                                                               *)

\* Mutant: only the end of a region ends the stream of the source manager.
AfterFetchRegionOnly(reply) ==
  /\ fetched' = reply
  /\ SrcMgr' = [SrcMgr EXCEPT !.EOS = @ \/ reply.rd]
  /\ EndOfStream' = (reply.Len < 0)
  /\ pc' = "convert"
  /\ UNCHANGED <<input, stream, RegionIdx, NumTraceMIs, RecycledInsts, created,
                 pipelineVars, reports>>

\* endOfStream of the source manager and Continue, after a fetch.
AfterFetch(reply) ==
  /\ fetched' = reply
  /\ SrcMgr' = [SrcMgr EXCEPT !.EOS = @ \/ reply.Len < 0 \/ reply.rd]
  /\ EndOfStream' = (reply.Len < 0)
  /\ pc' = "convert"
  /\ UNCHANGED <<input, stream, RegionIdx, NumTraceMIs, RecycledInsts, created,
                 pipelineVars, reports>>

\* The assembly file broker answers fetchRegion; it has no metadata.
FetchAsm ==
  LET parsed == ParseIfNeeded(TheBroker, input.text, input.ahead, input.parser)
      r == FetchRegion(parsed, MaxNumProcessedInst)
      Inst(loc) == [op |-> input.text[loc].op, key |-> loc]
  IN  /\ pc = "fetch" /\ Asm
      /\ TheBroker' = r.broker
      /\ given' = given + Len(r.insts)
      /\ AfterFetch([Len |-> r.Len, rd |-> r.rd, name |-> r.name,
                     insts |-> [k \in DOMAIN r.insts |-> Inst(r.insts[k])],
                     MDIndexMap |-> <<>>])
      /\ UNCHANGED <<empties, MDRegistry>>

\* A broker hands out the next n instructions.  It gives each one a token of
\* its own, which no instruction before it had, and files the metadata under
\* it (setRegionMarkerMD).  Nothing follows the end of the stream.
FetchStream(n) ==
  LET s == input.insts
      end == n > 0 /\ s[given + n].last
  IN  /\ pc = "fetch" /\ ~Asm /\ ~EndOfStream
      /\ n <= MaxNumProcessedInst /\ given + n <= Len(s)
      /\ \A k \in (given + 1) .. (given + n - 1) : ~s[k].last
      /\ n = 0 => empties < MaxEmptyFetches
      /\ given' = given + n
      /\ empties' = IF n = 0 THEN empties + 1 ELSE empties
      /\ MDRegistry' = [t \in 0 .. (given + n - 1) |->
                          [key |-> t + 1, marks |-> s[t+1].marks]]
      /\ AfterFetch([Len |-> n, rd |-> end,
                     name |-> IF end THEN s[given + n].name ELSE "",
                     insts |-> [k \in 1 .. n |-> [op |-> s[given + k].op,
                                                  key |-> given + k]],
                     MDIndexMap |-> [k \in 1 .. n |-> given + k - 1]])
      /\ UNCHANGED TheBroker

\* Nothing is left: fetch returns -1.
FetchStreamEnd ==
  /\ pc = "fetch" /\ ~Asm
  /\ given = Len(input.insts)
  /\ AfterFetch([NoBatch EXCEPT !.Len = -1, !.rd = input.region])
  /\ UNCHANGED <<brokerVars, MDRegistry>>

-----------------------------------------------------------------------------
(* From MCInsts to mca::Instructions.                                      *)

\* Return and call instructions are left out, and so is an instruction that
\* LLVM has no scheduling information for ("bad").
Kept(op) == /\ op = "ret" => PreserveReturnInst
            /\ op = "call" => PreserveCallInst
            /\ op # "bad"

\* createInstruction: a recycled instruction of the same descriptor is taken
\* out of RecycledInsts (std::set: the first in order) and used again.  It
\* keeps its identifier: reset() of LLVM leaves it alone.
Create(b, op, key) ==
  LET old == {i \in b.recycled : i.op = op}
      i == CHOOSE x \in old : \A y \in old : x.obj <= y.obj
  IN  IF old = {}
      THEN [i |-> [obj |-> b.created, op |-> op, key |-> key,
                   ident |-> NoIdentifier],
            recycled |-> b.recycled, created |-> b.created + 1]
      ELSE [i |-> [i EXCEPT !.key = key],
            recycled |-> b.recycled \ {i}, created |-> b.created]

\* Mutant: a recycled instruction is not given its own identifier.
IdentifyNew(i, MDIndexMap, k) ==
  IF SupportMetadata /\ k \in DOMAIN MDIndexMap /\ i.ident = NoIdentifier
  THEN [i EXCEPT !.ident = MDIndexMap[k]] ELSE i

\* setIdentifier, for new and recycled instructions alike.
Identify(i, MDIndexMap, k) ==
  IF SupportMetadata /\ k \in DOMAIN MDIndexMap
  THEN [i EXCEPT !.ident = MDIndexMap[k]] ELSE i

\* One round of the conversion loop.
ConvertInst(b, k) ==
  LET mci == fetched.insts[k]
      c == Create(b, mci.op, mci.key)
  IN  IF ~Kept(mci.op) THEN b
      ELSE [staging |-> Append(b.staging, Identify(c.i, fetched.MDIndexMap, k)),
            recycled |-> c.recycled, created |-> c.created, num |-> b.num + 1]

\* The conversion loop over TraceBufferSlice, after k rounds.
Converted ==
  LET after[k \in 0 .. Len(fetched.insts)] ==
        IF k = 0 THEN [staging |-> SrcMgr.Staging, recycled |-> RecycledInsts,
                       created |-> created, num |-> NumTraceMIs]
        ELSE ConvertInst(after[k-1], k)
  IN  after

\* The conversion of a batch.  Without an instruction so far the pipeline is
\* not run.
Convert ==
  LET b == Converted[Len(fetched.insts)]
  IN  /\ pc = "convert"
      /\ SrcMgr' = [SrcMgr EXCEPT !.Staging = b.staging]
      /\ RecycledInsts' = b.recycled
      /\ created' = b.created
      /\ NumTraceMIs' = b.num
      /\ pc' = CASE b.num > 0 -> "pipeline"
                 [] b.num = 0 /\ SrcMgr.EOS -> "report"
                 [] OTHER -> "fetch"
      /\ UNCHANGED <<input, stream, brokerVars, loopVars, MDRegistry, pipelineVars,
                     reports>>

-----------------------------------------------------------------------------
(* The pipeline.                                                           *)

\* The entry stage takes a copy of the next instruction, the original is freed
\* at once (AddRecycledInst); the copy is dispatched.  The micro-ops of a
\* microcoded instruction ("micro") do not fit in one cycle: LLVM carries the
\* rest over, and takes nothing else until they have been dispatched.
Dispatch ==
  LET i == Head(SrcMgr.Staging)
      idx == SrcMgr.TotalCounter
      marks == Markers(MDRegistry, i.ident)
  IN  /\ pc = "pipeline"
      /\ SrcMgr.Staging # <<>>
      /\ Len(flight) < PipelineDepth /\ CarriedOver.left = 0
      /\ SrcMgr' = [SrcMgr EXCEPT !.Staging = Tail(@), !.TotalCounter = @ + 1]
      /\ RecycledInsts' = RecycledInsts \cup {i}
      /\ flight' = Append(flight, [key |-> i.key, ident |-> i.ident, idx |-> idx])
      /\ CarriedOver' = [left |-> IF i.op = "micro" THEN CarryCycles ELSE 0,
                         ident |-> i.ident, idx |-> idx]
      /\ timeline' = TimelineDispatched(timeline, idx, marks)
      /\ summary' = SummaryDispatched(summary, idx)
      /\ UNCHANGED <<input, stream, pc, brokerVars, loopVars, MDRegistry, NumTraceMIs,
                     created, unitVars, timelines, reports>>

\* The next cycle of a dispatch that takes several: the views see another
\* Dispatched event of the same instruction, which may have retired by then.
Redispatch ==
  LET c == CarriedOver
  IN  /\ pc = "pipeline"
      /\ c.left > 0
      /\ CarriedOver' = [c EXCEPT !.left = @ - 1]
      /\ timeline' = TimelineDispatched(timeline, c.idx, Markers(MDRegistry, c.ident))
      /\ summary' = SummaryDispatched(summary, c.idx)
      /\ UNCHANGED <<input, stream, pc, brokerVars, loopVars, MDRegistry, instVars,
                     unitVars, flight, timelines, reports>>

\* The oldest instruction retires.
Retire ==
  LET i == Head(flight)
      marks == Markers(MDRegistry, i.ident)
      t == TimelineRetired(timeline, i.idx, marks)
  IN  /\ pc = "pipeline"
      /\ flight # <<>>
      /\ flight' = Tail(flight)
      /\ timeline' = [t EXCEPT !.printed = <<>>]
      /\ timelines' = timelines \o t.printed
      /\ summary' = SummaryRetired(summary, i.idx, marks, NumTraceMIs)
      /\ UNCHANGED <<input, stream, pc, brokerVars, loopVars, MDRegistry, instVars,
                     unitVars, CarriedOver, reports>>

\* runPipeline: the entry stage has nothing to take.  The pipeline pauses, with
\* instructions in flight, until the next batch.
Pause ==
  /\ pc = "pipeline"
  /\ SrcMgr.Staging = <<>> /\ ~SrcMgr.EOS
  /\ pc' = "fetch"
  /\ UNCHANGED <<input, stream, brokerVars, loopVars, MDRegistry, instVars,
                 pipelineVars, reports>>

\* runPipeline: the stream has ended and everything has retired.
Finish ==
  /\ pc = "pipeline"
  /\ SrcMgr.Staging = <<>> /\ SrcMgr.EOS /\ flight = <<>>
  /\ pc' = "report"
  /\ UNCHANGED <<input, stream, brokerVars, loopVars, MDRegistry, instVars,
                 pipelineVars, reports>>

\* runPipeline: a stage returns an error; run returns it and main exits with 1.
PipelineError ==
  /\ pc = "pipeline"
  /\ input.fault = "pipeline"
  /\ pc' = "failed"
  /\ UNCHANGED <<input, stream, brokerVars, loopVars, MDRegistry, instVars,
                 pipelineVars, reports>>

-----------------------------------------------------------------------------
(* Reporting.                                                              *)

\* printMCA: nothing is printed without an instruction.
PrintMCA(name) ==
  IF NumTraceMIs = 0 THEN reports
  ELSE Append(reports, [name |-> name, view |-> CollectData(summary, NumTraceMIs)])

\* The end of a region, or of the stream: report, tell the broker
\* (signalWorkerComplete), stop or start over.  A region without a name is
\* numbered, whether a report is printed for it or not.
Report ==
  /\ pc = "report"
  /\ reports' = PrintMCA(IF ~UseRegion THEN <<>>
                         ELSE IF fetched.name # "" THEN <<fetched.name>>
                         ELSE <<"Region", RegionIdx>>)
  /\ RegionIdx' = IF UseRegion /\ fetched.name = "" THEN RegionIdx + 1
                  ELSE RegionIdx
  /\ pc' = IF EndOfStream THEN "done" ELSE "fetch"
  /\ IF ~EndOfStream /\ UseRegion THEN ResetPipeline ELSE UNCHANGED resetVars
  /\ UNCHANGED <<input, stream, brokerVars, fetched, EndOfStream, MDRegistry, created,
                 timelines>>

Next == \/ Main
        \/ FetchAsm
        \/ \E n \in 0 .. MaxNumProcessedInst : FetchStream(n)
        \/ FetchStreamEnd
        \/ Convert
        \/ Dispatch \/ Redispatch \/ Retire \/ Pause \/ Finish \/ PipelineError
        \/ Report

Spec == Init /\ [][Next]_vars

\* One thread runs all of this and never blocks for good: the brokers hand out
\* finite streams here.  This is WF_vars(Next), with its enabling condition
\* written out.
Running == pc \notin {"done", "failed"}
Fairness == []<>~Running \/ []<><<Next>>_vars
FairSpec == Spec /\ Fairness

-----------------------------------------------------------------------------
(* What the worker should make of the stream.                              *)

\* A region is reported under its name, or under its number among the regions
\* without a name; a stream without regions has one report without a title.
Title(in, name, idx) == IF ~(in.kind = "asm" \/ in.region) THEN <<>>
                        ELSE IF name # "" THEN <<name>> ELSE <<"Region", idx>>

\* The account of a stream so far: the reports of the regions that have ended,
\* the instructions to simulate of the one that has not, and the number of
\* regions without a name.  A region without an instruction has no report.
Counted(t, inst) == IF Kept(inst.op) THEN [t EXCEPT !.count = @ + 1] ELSE t
Closed(in, t, name) ==
  [reports |-> IF t.count = 0 THEN t.reports
               ELSE Append(t.reports, [name |-> Title(in, name, t.unnamed),
                                       view |-> [TotalInstructions |-> t.count,
                                                 TotalUOps |-> t.count]]),
   count   |-> 0,
   unnamed |-> IF name = "" THEN t.unnamed + 1 ELSE t.unnamed]
TallyStep(in, t, inst) == IF inst.last THEN Closed(in, Counted(t, inst), inst.name)
                          ELSE Counted(t, inst)

\* The account after the first k instructions of the stream s.
Tally(in, s) ==
  LET after[k \in 0 .. Len(s)] ==
        IF k = 0 THEN [reports |-> <<>>, count |-> 0, unnamed |-> 0]
        ELSE TallyStep(in, after[k-1], s[k])
  IN  after

\* The reports, one for each region that has an instruction to simulate; the
\* end of the stream ends the last one.
ExpectedReports == Closed(input, Tally(input, stream)[Len(stream)], "").reports

-----------------------------------------------------------------------------
(* Properties.                                                             *)

\* Every region is reported once, in order and under its name or number, with
\* exactly the instructions and micro-ops it has: batches, pauses, dropped
\* instructions, empty regions and resetPipeline do not disturb the counts.
ReportsExact ==
  /\ IsPrefix(reports, ExpectedReports)
  /\ pc = "done" => reports = ExpectedReports

\* An instruction in the pipeline leads to the metadata the broker filed for
\* it, also when its mca::Instruction has been recycled.
IdentifiersOwn ==
  SupportMetadata =>
    \A k \in DOMAIN flight : /\ flight[k].ident \in DOMAIN MDRegistry
                             /\ MDRegistry[flight[k].ident].key = flight[k].key

\* A parsed region holds exactly the instructions between its directives,
\* whether or not the lexer reads ahead of the instruction it is matching.
RegionsExact ==
  TheBroker.parsed =>
    /\ \A k \in DOMAIN TheBroker.regions :
         TheBroker.regions[k].insts = RegionLines(input.text, TheBroker.regions[k])
    /\ TheBroker.regions = ParseCodeRegions(input.text, ~input.ahead).regions

\* The view never meets an end marker without a begin marker, and a timeline
\* has a row for every instruction of its region, even when the next region
\* is dispatched before the last instruction of this one retires, or when the
\* region has microcoded instructions, whose Dispatched events repeat.  The
\* inputs leave out a marker on such an instruction: onEvent opens or closes a
\* region at each of its events.
TimelinesComplete ==
  /\ timeline.ok
  /\ \A k \in DOMAIN timelines :
       timelines[k].rows = timelines[k].region.First .. timelines[k].region.Last

\* printMCA reads no statistics of an earlier pipeline and none that have been
\* freed with their unit.  A first level of the cache must be in use: the
\* inputs leave out the others.
StatsCurrent ==
  pc = "report" =>
    \A s \in Statistics : stats[s] # 0 => /\ stats[s] = MCAPipeline.number
                                          /\ s \in MCAPipeline.owns

\* The assembly file broker is a broker: see ContractSpec.
Contract == INSTANCE Broker WITH
              BufferSize <- MaxNumProcessedInst, stream <- stream, given <- given,
              ended <- EndOfStream
KeepsContract == Contract!ContractSpec

\* llvm-mcad comes to an end, with a report of everything or with an error.
WorkerEnds == <>(pc \in {"done", "failed"})
=============================================================================
