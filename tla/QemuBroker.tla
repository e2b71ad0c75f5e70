------------------------------ MODULE QemuBroker ------------------------------
(***************************************************************************)
(* The QEMU broker (plugins/qemu-broker/Broker.cpp).  A receiver thread    *)
(* (recvWorker) takes messages of a QEMU relay from a socket, keeps the    *)
(* translation blocks (TBs) it is sent and queues a slice for every        *)
(* executed TB.  The MCA worker thread (MCAWorker::run) calls fetchRegion  *)
(* to turn the queued slices into batches of at most Chunk instructions.   *)
(* The two threads share TBQueue and IsEndOfStream (QueueMutex, QueueCV)   *)
(* and TBs (TBsMutex); every action below is one critical section, or a    *)
(* stretch of code that touches nothing the other thread looks at.         *)
(*                                                                         *)
(* An instruction is named by the executed TB it belongs to (the serial    *)
(* number ex of the ExecTB message) and its position in that TB.           *)
(***************************************************************************)
EXTENDS Integers, Sequences, SequencesExt

CONSTANTS
  NumTBs,        \* bound: TB indices are 0 .. NumTBs-1
  Blocks,        \* TB contents, see BlockOK
  Regions,       \* binary regions: function {start address -> end address}
  Mode,          \* "none" (no manifest), "trim" or "mark"
  LoadAddr,      \* load address a Metadata message carries
  Chunk,         \* MaxNumProcessedInst, the size of the worker's TraceBuffer
  MaxConn,       \* -max-accepted-connection; 0 means no limit
  FreshIndices,  \* TRUE: a TB index is sent once; FALSE: every connection
                 \* numbers its TBs from 0 again, as a new QEMU process does
  MaxExec,       \* bound: number of ExecTB messages
  MaxAccept      \* bound: number of connections clients open

TBIndex == 0 .. (NumTBs - 1)
NoRegion == -1
NoEnd == 65535   \* ~uint16_t(0), the EndIdx of a slice that is not trimmed

\* A TB as the relay sends it: its address, and for each raw instruction the
\* number of MCInsts the disassembler makes of it (0 when it fails); all raw
\* instructions are width bytes long; mem are those that access memory.
BlockOK(b) == /\ b.addr \in Nat
              /\ b.width \in Nat
              /\ b.parts \in Seq(Nat)
              /\ b.mem \subseteq 0 .. (Len(b.parts) - 1)

\* The number of MCInsts of the first r raw instructions.
Starts(b) ==
  LET st[r \in 0 .. Len(b.parts)] == IF r = 0 THEN 0 ELSE st[r-1] + b.parts[r]
  IN  st
NumInsts(b) == Starts(b)[Len(b.parts)]

\* The distance of the p-th MCInst from the start of the TB, in bytes.
Offset(b, p) ==
  LET r == CHOOSE q \in 0 .. (Len(b.parts) - 1) :
             Starts(b)[q] <= p /\ p < Starts(b)[q+1]
  IN  r * b.width + (p - Starts(b)[r])

ASSUME BrokerAssumption ==
  /\ \A b \in Blocks : BlockOK(b) /\ NumInsts(b) < NoEnd
  /\ DOMAIN Regions \subseteq Nat
  /\ \A r \in DOMAIN Regions : Regions[r] \in Nat
  /\ Mode \in {"none", "trim", "mark"}
  /\ LoadAddr \in Nat
  /\ Chunk \in 1 .. (NoEnd - 1)
  /\ MaxConn \in Nat
  /\ FreshIndices \in BOOLEAN
  /\ NumTBs \in Nat /\ MaxExec \in Nat /\ MaxAccept \in Nat

VARIABLES
  rpc,               \* control point of recvWorker
  slice,             \* the slice tbExec is about to queue
  TBs,               \* translation blocks by index
  CodeStartAddress,
  CurBinRegion,      \* region being traced, by its start address
  conns,             \* connections accepted so far
  nextTB,            \* the index the client gives its next TB
  ended,             \* the open connection has sent the end signal
  TBQueue,           \* shared: slices waiting to be fetched
  IsEndOfStream,     \* shared
  wpc,               \* control point of the worker
  selected,          \* the slices fetchRegion has taken off the queue
  batch,             \* what fetchRegion has put into MCIS
  regionEnd,         \* fetchRegion's RegionDescriptor for this batch
  trace,             \* history: the instructions the worker should be given
  inRegion,          \* history: the region the guest is executing in
  delivered,         \* history: the instructions the worker was given
  execs              \* history: number of ExecTB messages so far

recvVars   == <<rpc, slice, TBs, CodeStartAddress, CurBinRegion, conns, nextTB,
                ended>>
sharedVars == <<TBQueue, IsEndOfStream>>
workVars   == <<selected, batch, regionEnd, delivered>>
histVars   == <<trace, inRegion, execs>>
vars == <<recvVars, sharedVars, wpc, workVars, histVars>>

-----------------------------------------------------------------------------
(* Translation blocks and slices.                                          *)

\* A TB that was not received: the std::nullopt of TBs.
NoTB == [gen |-> 0, raw |-> [addr |-> 0, width |-> 0, parts |-> <<>>, mem |-> {}],
         mcinsts |-> 0, VAddrOffsets |-> <<>>, skew |-> <<>>,
         beginMarks |-> {}, endMarks |-> {}]

\* The TB addTB stores: its instructions are not decoded until it is executed.
\* gen, the number of the connection that sent it, tells apart the TBs that
\* one index has held.
NewTB(b, g) == [NoTB EXCEPT !.gen = g, !.raw = b]

\* SkewIndicies: the MCInst a memory access of the r-th raw instruction is
\* given to; each raw instruction before it counts as one, or as what it
\* decodes to if that is more.
SkewIndex(b) ==
  LET sk[r \in 0 .. Len(b.parts)] ==
        IF r = 0 THEN 0
        ELSE sk[r-1] + (IF b.parts[r] > 1 THEN b.parts[r] ELSE 1)
  IN  sk

\* disassemble: fills MCInsts and what goes with it; a TB that is already
\* decoded is left alone.  The offsets are kept in a uint8_t.
Disassemble(tb) ==
  IF tb.mcinsts # 0 THEN tb
  ELSE [tb EXCEPT
          !.mcinsts = NumInsts(tb.raw),
          !.VAddrOffsets = [p \in 0 .. (NumInsts(tb.raw) - 1) |->
                              Offset(tb.raw, p) % 256],
          !.skew = SkewIndex(tb.raw)]

NoSlice == [index |-> 0, begin |-> 0, end |-> 0, region |-> NoRegion,
            mem |-> {}, ex |-> 0]

MinOf(S) == CHOOSE x \in S : \A y \in S : x <= y
MaxOf(S) == CHOOSE x \in S : \A y \in S : x >= y
Min2(a, b) == IF a <= b THEN a ELSE b

\* Mutant: the estimate forgets that an untrimmed slice ends with its TB.
SliceLenUnclipped(s) == s.end - s.begin

\* fetchRegion's estimate of the number of instructions in a slice.
SliceLen(s) == Min2(TBs[s.index].mcinsts, s.end - s.begin)

\* TBSlice::split, the part that is taken and the part that stays queued.
SplitTaken(s, n) == [s EXCEPT !.end = s.begin + n, !.region = NoRegion,
                              !.mem = {m \in @ : m < s.begin + n}]
SplitRest(s, n)  == [s EXCEPT !.begin = s.begin + n,
                              !.mem = {m \in @ : m >= s.begin + n}]

-----------------------------------------------------------------------------
(* The binary regions a TB begins and ends.                                *)

\* Address of the i-th instruction relative to the load address.
RelAddr(tb, i) == (tb.raw.addr - CodeStartAddress) + tb.VAddrOffsets[i]

\* handleBinaryRegions: look for a region that starts in this TB (only when
\* none is open), then for the end of the open one, at or after that start.
\* begin and end are positions in the TB or -1.
HandleBinaryRegions(tb) ==
  LET inCode == tb.raw.addr >= CodeStartAddress
      pos    == 0 .. (tb.mcinsts - 1)
      starts == {i \in pos : /\ CurBinRegion = NoRegion
                             /\ inCode
                             /\ RelAddr(tb, i) \in DOMAIN Regions}
      begin  == IF starts = {} THEN -1 ELSE MinOf(starts)
      open   == IF starts = {} THEN CurBinRegion ELSE RelAddr(tb, begin)
      ends   == {i \in pos : /\ open # NoRegion
                             /\ inCode
                             /\ i >= begin
                             /\ RelAddr(tb, i) = Regions[open]}
      end    == IF ends = {} THEN -1 ELSE MinOf(ends)
  IN  [begin  |-> begin,
       end    |-> end,
       region |-> open,
       cur    |-> IF ends = {} THEN open ELSE NoRegion]

\* The TB after tbExec has decoded it: region marks are only set the first
\* time, in mark mode.
Decoded(tb) ==
  LET dis == Disassemble(tb)
      hit == HandleBinaryRegions(dis)
  IN  IF tb.mcinsts # 0 \/ Mode # "mark" THEN dis
      ELSE [dis EXCEPT !.beginMarks = {hit.begin} \ {-1},
                       !.endMarks   = {hit.end} \ {-1}]

\* The slice tbExec makes of an executed TB, given the raw instructions that
\* accessed memory; begin = end when it is empty.
SliceOf(i, tb, accesses) ==
  LET hit   == HandleBinaryRegions(tb)
      trim  == Mode = "trim" /\ Regions # <<>>
      begin == IF trim /\ CurBinRegion = NoRegion
               THEN IF hit.begin = -1 THEN NoEnd ELSE hit.begin
               ELSE 0
      ends  == trim /\ hit.end # -1
      end   == IF ends THEN hit.end + 1 ELSE NoEnd
  IN  [index |-> i, begin |-> begin, end |-> end,
       region |-> IF ends THEN hit.region ELSE NoRegion,
       mem |-> {m \in {tb.skew[r] : r \in accesses} : begin <= m /\ m < end},
       ex |-> execs + 1]

-----------------------------------------------------------------------------
(* What the worker should be given, instruction by instruction.  In trim   *)
(* mode an instruction counts when a region is open; a region opens at its *)
(* start address and closes after its end address.                         *)

TrueAddr(tb, k) == (tb.raw.addr - CodeStartAddress) + Offset(tb.raw, k)

\* The region the k-th instruction of tb is in, if r is open before it, and
\* whether the instruction is the last one of region r.
RegionAt(tb, r, k) ==
  IF /\ r = NoRegion
     /\ tb.raw.addr >= CodeStartAddress
     /\ TrueAddr(tb, k) \in DOMAIN Regions
  THEN TrueAddr(tb, k) ELSE r
EndsAt(tb, r, k) == /\ r # NoRegion
                    /\ tb.raw.addr >= CodeStartAddress
                    /\ TrueAddr(tb, k) = Regions[r]
RegionAfter(tb, r, k) ==
  IF EndsAt(tb, RegionAt(tb, r, k), k) THEN NoRegion ELSE RegionAt(tb, r, k)

\* The region that is open after the first k instructions of tb.
OpenRegion(tb) ==
  LET open[k \in 0 .. NumInsts(tb.raw)] ==
        IF k = 0 THEN inRegion ELSE RegionAfter(tb, open[k-1], k - 1)
  IN  open

\* The region its k-th instruction is in.
During(tb, k) == RegionAt(tb, OpenRegion(tb)[k], k)

\* The instructions of one executed TB that count, here those among its first k.
\* A memory access belongs to the first MCInst of the raw instruction that made
\* it.
Counts(tb, k) == Mode # "trim" \/ Regions = <<>> \/ During(tb, k) # NoRegion
TracedInst(tb, k) ==
  [ex |-> execs + 1, pos |-> k,
   mem |-> \E r \in tb.raw.mem : tb.raw.parts[r+1] > 0 /\ Starts(tb.raw)[r] = k,
   last |-> Mode = "trim" /\ EndsAt(tb, During(tb, k), k)]
TracedUpTo(tb) ==
  LET insts[k \in 0 .. NumInsts(tb.raw)] ==
        IF k = 0 THEN <<>>
        ELSE IF Counts(tb, k - 1) THEN Append(insts[k-1], TracedInst(tb, k - 1))
        ELSE insts[k-1]
  IN  insts
Traced(tb) == TracedUpTo(tb)[NumInsts(tb.raw)]

-----------------------------------------------------------------------------
Init ==
  /\ rpc = "accept"
  /\ slice = NoSlice
  /\ TBs = [i \in TBIndex |-> NoTB]
  /\ CodeStartAddress = 0
  /\ CurBinRegion = NoRegion
  /\ conns = 0
  /\ nextTB = 0
  /\ ended = FALSE
  /\ TBQueue = <<>>
  /\ IsEndOfStream = FALSE
  /\ wpc = "fetch"
  /\ selected = <<>>
  /\ batch = <<>>
  /\ regionEnd = FALSE
  /\ trace = <<>>
  /\ inRegion = NoRegion
  /\ delivered = <<>>
  /\ execs = 0

-----------------------------------------------------------------------------
(* The receiver thread.                                                    *)

\* recvWorker: accept returns a client.
Accept ==
  /\ rpc = "accept"
  /\ conns < MaxAccept
  /\ rpc' = "read"
  /\ conns' = conns + 1
  /\ nextTB' = IF FreshIndices THEN nextTB ELSE 0
  /\ ended' = FALSE
  /\ UNCHANGED <<slice, TBs, CodeStartAddress, CurBinRegion,
                 sharedVars, wpc, workVars, histVars>>

\* recvWorker: end of file, a read error or an incomplete message closes the
\* connection; after the last allowed connection the thread returns.
CloseConnection ==
  /\ rpc = "read"
  /\ rpc' = IF MaxConn > 0 /\ conns >= MaxConn THEN "exit" ELSE "accept"
  /\ UNCHANGED <<slice, TBs, CodeStartAddress, CurBinRegion, conns, nextTB, ended,
                 sharedVars, wpc, workVars, histVars>>

\* handleMetadata.
HandleMetadata ==
  /\ rpc = "read" /\ ~ended
  /\ CodeStartAddress # LoadAddr
  /\ CodeStartAddress' = LoadAddr
  /\ UNCHANGED <<rpc, slice, TBs, CurBinRegion, conns, nextTB, ended,
                 sharedVars, wpc, workVars, histVars>>

\* addTB: a TB replaces whatever its index held before.  The client numbers its
\* TBs in order.
AddTB(i, b) ==
  /\ rpc = "read" /\ ~ended
  /\ i \in TBIndex
  /\ TBs' = [TBs EXCEPT ![i] = NewTB(b, conns)]
  /\ nextTB' = i + 1
  /\ UNCHANGED <<rpc, slice, CodeStartAddress, CurBinRegion, conns, ended,
                 sharedVars, wpc, workVars, histVars>>

\* Mutant: the end signal does not notify the worker.
TbExecEndSilent ==
  /\ rpc = "read" /\ ~ended
  /\ IsEndOfStream' = TRUE
  /\ ended' = TRUE
  /\ UNCHANGED <<rpc, slice, TBs, CodeStartAddress, CurBinRegion, conns, nextTB,
                 TBQueue, wpc, workVars, histVars>>

\* tbExec, the end signal.
TbExecEnd ==
  /\ rpc = "read" /\ ~ended
  /\ IsEndOfStream' = TRUE
  /\ ended' = TRUE
  /\ rpc' = "notify"
  /\ UNCHANGED <<slice, TBs, CodeStartAddress, CurBinRegion, conns, nextTB,
                 TBQueue, wpc, workVars, histVars>>

\* tbExec of an index that holds no TB reports an error and returns.
TbExecInvalid(i) ==
  /\ rpc = "read" /\ ~ended
  /\ execs < MaxExec
  /\ TBs[i].gen = 0
  /\ execs' = execs + 1
  /\ UNCHANGED <<recvVars, sharedVars, wpc, workVars, trace, inRegion>>

\* tbExec up to the empty slice test: decode the TB the first time, find the
\* regions it begins and ends, build the slice.  The message lists the memory
\* accesses.
TbExec(i, accesses) ==
  LET tb == Decoded(TBs[i])
      s  == SliceOf(i, tb, accesses)
      handled == \/ Mode = "trim"
                 \/ Mode = "mark" /\ TBs[i].mcinsts = 0
  IN  /\ rpc = "read" /\ ~ended
      /\ execs < MaxExec
      /\ TBs[i].gen # 0
      /\ TBs' = [TBs EXCEPT ![i] = tb]
      /\ CurBinRegion' = IF handled THEN HandleBinaryRegions(tb).cur
                                    ELSE CurBinRegion
      /\ slice' = s
      /\ rpc' = IF s.begin = s.end THEN "read" ELSE "enqueue"
      /\ execs' = execs + 1
      /\ trace' = trace \o Traced(tb)
      /\ inRegion' = IF Mode = "trim" THEN OpenRegion(tb)[NumInsts(tb.raw)]
                                      ELSE inRegion
      /\ UNCHANGED <<CodeStartAddress, conns, nextTB, ended,
                     sharedVars, wpc, workVars>>

\* Mutant: a queued slice does not notify the worker.
EnqueueSilent ==
  /\ rpc = "enqueue"
  /\ TBQueue' = Append(TBQueue, slice)
  /\ rpc' = "read"
  /\ UNCHANGED <<slice, TBs, CodeStartAddress, CurBinRegion, conns, nextTB, ended,
                 IsEndOfStream, wpc, workVars, histVars>>

\* tbExec, queueing the slice under QueueMutex.
Enqueue ==
  /\ rpc = "enqueue"
  /\ TBQueue' = Append(TBQueue, slice)
  /\ rpc' = "notify"
  /\ UNCHANGED <<slice, TBs, CodeStartAddress, CurBinRegion, conns, nextTB, ended,
                 IsEndOfStream, wpc, workVars, histVars>>

\* QueueCV.notify_one, after the mutex is released.
Notify ==
  /\ rpc = "notify"
  /\ rpc' = "read"
  /\ wpc' = IF wpc = "wait" THEN "fetch" ELSE wpc
  /\ UNCHANGED <<slice, TBs, CodeStartAddress, CurBinRegion, conns, nextTB, ended,
                 sharedVars, workVars, histVars>>

Receiver ==
  \/ Accept \/ CloseConnection \/ HandleMetadata
  \/ \E b \in Blocks : AddTB(nextTB, b)
  \/ TbExecEnd
  \/ \E i \in TBIndex : TbExecInvalid(i) \/ TbExec(i, TBs[i].raw.mem)
  \/ Enqueue \/ Notify

-----------------------------------------------------------------------------
(* The worker thread.                                                      *)

\* Mutant: the end of the stream is tested before the queue.
FetchStopsAtEnd ==
  /\ wpc = "fetch"
  /\ TBQueue = <<>> \/ IsEndOfStream
  /\ wpc' = IF IsEndOfStream THEN "done" ELSE "wait"
  /\ UNCHANGED <<recvVars, sharedVars, workVars, histVars>>

\* fetchRegion with nothing queued: stop, or wait on QueueCV.
FetchEmpty ==
  /\ wpc = "fetch"
  /\ TBQueue = <<>>
  /\ wpc' = IF IsEndOfStream THEN "done" ELSE "wait"
  /\ UNCHANGED <<recvVars, sharedVars, workVars, histVars>>

\* A wait on a condition variable may return without a notification.
SpuriousWakeup ==
  /\ wpc = "wait"
  /\ wpc' = "fetch"
  /\ UNCHANGED <<recvVars, sharedVars, workVars, histVars>>

\* Room in MCIS (the variable S) after the first k slices are taken whole.
Room(q) ==
  LET room[k \in 0 .. Len(q)] ==
        IF k = 0 THEN Chunk ELSE room[k-1] - SliceLen(q[k])
  IN  room

\* Mutant: the selection does not stop at the end of a region.
SelectsPastRegion(q, k) == k < Len(q) /\ Room(q)[k] > 0

\* The selection loop goes on after k whole slices.
Selects(q, k) == /\ k < Len(q)
                 /\ Room(q)[k] > 0
                 /\ k > 0 => q[k].region = NoRegion

\* The number of slices the loop takes whole.
NumWhole(q) ==
  MaxOf({k \in 0 .. Len(q) :
           \A j \in 0 .. (k - 1) : /\ Selects(q, j)
                                   /\ SliceLen(q[j+1]) <= Room(q)[j]})

\* fetchRegion under QueueMutex and TBsMutex: take slices until MCIS is full,
\* the queue is empty or a region ends; split the slice that does not fit.
FetchSelect ==
  LET n == NumWhole(TBQueue)
      split == Selects(TBQueue, n)
      room == Room(TBQueue)[n]
  IN  /\ wpc = "fetch"
      /\ TBQueue # <<>>
      /\ wpc' = "deliver"
      /\ selected' = SubSeq(TBQueue, 1, n) \o
           (IF split THEN <<SplitTaken(TBQueue[n+1], room)>> ELSE <<>>)
      /\ TBQueue' =
           IF split
           THEN <<SplitRest(TBQueue[n+1], room)>>
                  \o SubSeq(TBQueue, n + 2, Len(TBQueue))
           ELSE SubSeq(TBQueue, n + 1, Len(TBQueue))
      /\ UNCHANGED <<recvVars, IsEndOfStream, batch, regionEnd, delivered,
                     histVars>>

\* The positions the copy loop visits for slice s: from BeginIdx until it
\* meets End, which it never does when BeginIdx is already past End.
Positions(s) ==
  LET end == Min2(TBs[s.index].mcinsts, s.end)
      stop == IF s.begin <= end THEN end ELSE s.begin + Chunk
  IN  [k \in 1 .. (stop - s.begin) |-> s.begin + k - 1]

\* One MCInst put into MCIS with its metadata.  The chain of memory accesses
\* is walked in step with the positions: an entry that was passed over blocks
\* the entries behind it.
CopyInst(s, p) ==
  [ex |-> s.ex, pos |-> p, index |-> s.index, gen |-> TBs[s.index].gen,
   mem |-> p \in s.mem /\ \A m \in s.mem : m < p => m >= s.begin,
   begins |-> p \in TBs[s.index].beginMarks,
   ends |-> p \in TBs[s.index].endMarks]

\* fetchRegion under TBsMutex: copy the selected slices into MCIS, which holds
\* Chunk instructions, and say whether the batch ends a region.
FetchDeliver ==
  LET Copy(s) == [k \in DOMAIN Positions(s) |-> CopyInst(s, Positions(s)[k])]
      all == FlattenSeq([j \in DOMAIN selected |-> Copy(selected[j])])
      mcis == SubSeq(all, 1, Min2(Len(all), Chunk))
      rd == selected[Len(selected)].region # NoRegion
  IN  /\ wpc = "deliver"
      /\ wpc' = "convert"
      /\ batch' = mcis
      /\ regionEnd' = rd
      /\ delivered' = delivered \o
           [k \in DOMAIN mcis |->
              [ex |-> mcis[k].ex, pos |-> mcis[k].pos, mem |-> mcis[k].mem,
               last |-> rd /\ k = Len(mcis)]]
      /\ selected' = <<>>
      /\ UNCHANGED <<recvVars, sharedVars, histVars>>

\* MCAWorker::run reads the MCInsts MCIS points to and simulates them.
Convert ==
  /\ wpc = "convert"
  /\ wpc' = "fetch"
  /\ batch' = <<>>
  /\ UNCHANGED <<recvVars, sharedVars, selected, regionEnd, delivered, histVars>>

Worker == FetchEmpty \/ SpuriousWakeup \/ FetchSelect \/ FetchDeliver \/ Convert

Next == Receiver \/ Worker

\* The threads run: the receiver finishes the message it has read, the worker
\* never stops on its own (a spurious wakeup is not owed), and a client that
\* has sent its end signal closes the socket (onPluginExit of the relay).
Fairness ==
  /\ WF_vars(Enqueue \/ Notify)
  /\ WF_vars(FetchEmpty \/ FetchSelect \/ FetchDeliver \/ Convert)
  /\ WF_vars(ended /\ CloseConnection)

Spec == Init /\ [][Next]_vars
FairSpec == Spec /\ Fairness

-----------------------------------------------------------------------------
(* Properties.                                                             *)

\* The worker is given the executed instructions in order, each once, each
\* with its own memory access metadata, and a batch is flagged as the end of
\* a region exactly when its last instruction ends one: splitting, trimming
\* and batching in tbExec and fetchRegion change nothing about the stream.
StreamInOrder == IsPrefix(delivered, trace)

\* fetchRegion only copies instructions the TB has.
CopiesInBounds ==
  wpc = "convert" =>
    \A k \in DOMAIN batch : batch[k].pos < TBs[batch[k].index].mcinsts

\* The MCInsts the worker is reading still exist: their TB was not replaced.
NoDanglingInst ==
  wpc = "convert" =>
    \A k \in DOMAIN batch : TBs[batch[k].index].gen = batch[k].gen

\* The QEMU broker is a broker: the instructions of the executions it has been
\* told of are the stream.
Contract == INSTANCE Broker WITH
              BufferSize <- Chunk, stream <- trace, given <- Len(delivered),
              ended <- (wpc = "done")
KeepsContract == Contract!ContractSpec

\* The worker always catches up with the trace (clients send a bounded number
\* of messages), whichever order the threads queue, notify, test and wait in.
TraceDelivered == []<>(delivered = trace)
=============================================================================
