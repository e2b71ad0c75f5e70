---------------------------- MODULE VivisectBroker ----------------------------
(***************************************************************************)
(* The Vivisect broker (plugins/vivisect-broker/Broker.cpp) and its client *)
(* in the emulator (grpc_client/grpc_client.py).  The client makes one     *)
(* synchronous call of RecordEmulatorActions for every instruction it      *)
(* emulates and one with an empty list when it is deleted; a thread of the *)
(* gRPC server runs the handler, the worker thread calls fetchRegion.      *)
(*                                                                         *)
(* Instructions are numbered in the order they are emulated; 0 stands for  *)
(* what is found where a freed MCInst was.                                 *)
(***************************************************************************)
EXTENDS Integers, Sequences

CONSTANTS
  Chunk,      \* MaxNumProcessedInst, the size of the worker's TraceBuffer
  NumInsts    \* bound: instructions that are emulated

VARIABLES
  server,          \* serverLoop: "starting", "up" or "down"
  emulated,        \* the client: instructions emulated so far
  cpc,             \* the client: "run", "call" or "deleted"
  hpc,             \* the handler: "idle", "test" or "push"
  request,         \* the handler: the instructions of the call
  running,         \* shared, written without QueueMutex
  InsnQueue,       \* shared, guarded by QueueMutex
  wpc,             \* the worker: "fetch", "convert", "done", "crashed", "gone"
  result,          \* what fetchRegion returned
  MCIS,            \* the instructions the pointers in TraceBuffer lead to
  tokens,          \* their metadata, by position: what IndexMap leads to
  poolSize, poolCapacity,  \* MCI_Pool
  TotalNumTraces,
  analysed         \* history: what the worker was given, with its metadata

clientVars == <<emulated, cpc>>
handlerVars == <<hpc, request, running>>
fetchVars == <<result, MCIS, tokens, poolSize, poolCapacity, TotalNumTraces>>
vars == <<server, clientVars, handlerVars, InsnQueue, wpc, fetchVars, analysed>>

Init ==
  /\ server = "starting"
  /\ emulated = 0 /\ cpc = "run"
  /\ hpc = "idle" /\ request = <<>> /\ running = TRUE
  /\ InsnQueue = <<>>
  /\ wpc = "fetch" /\ result = 0 /\ MCIS = <<>> /\ tokens = <<>>
  /\ poolSize = 0 /\ poolCapacity = 0 /\ TotalNumTraces = 0
  /\ analysed = <<>>

-----------------------------------------------------------------------------
(* The server and the client.                                              *)

\* serverLoop.
ServerLoop ==
  /\ server = "starting"
  /\ server' = "up"
  /\ UNCHANGED <<clientVars, handlerVars, InsnQueue, wpc, fetchVars, analysed>>

Call(insns) ==
  /\ server = "up" /\ cpc = "run"
  /\ hpc = "idle"
  /\ hpc' = "test"
  /\ request' = insns
  /\ UNCHANGED <<server, running, InsnQueue, wpc, fetchVars, analysed>>

\* record_instruction.
RecordInstruction ==
  /\ emulated < NumInsts
  /\ Call(<<emulated + 1>>)
  /\ emulated' = emulated + 1
  /\ cpc' = "call"

\* __del__.
Del ==
  /\ Call(<<>>)
  /\ cpc' = "deleted"
  /\ UNCHANGED emulated

\* The call returns to the client.
Return == /\ hpc' = "idle"
          /\ cpc' = IF cpc = "call" THEN "run" ELSE cpc

\* RecordEmulatorActions, before the lock is taken.
TestRunning ==
  /\ hpc = "test"
  /\ IF running /\ request # <<>>
     THEN hpc' = "push" /\ UNCHANGED <<cpc, running>>
     ELSE Return /\ running' = FALSE
  /\ UNCHANGED <<server, emulated, request, InsnQueue, wpc, fetchVars, analysed>>

\* RecordEmulatorActions, under QueueMutex.
Push ==
  /\ hpc = "push"
  /\ InsnQueue' = InsnQueue \o request
  /\ Return
  /\ UNCHANGED <<server, emulated, request, running, wpc, fetchVars, analysed>>

-----------------------------------------------------------------------------
(* The worker.                                                             *)

\* fetchRegion, under QueueMutex, once running is false.
FetchStopped ==
  /\ wpc = "fetch"
  /\ ~running
  /\ result' = -1
  /\ wpc' = "convert"
  /\ UNCHANGED <<server, clientVars, handlerVars, InsnQueue, MCIS, tokens,
                 poolSize, poolCapacity, TotalNumTraces, analysed>>

\* MCI_Pool.emplace_back: the capacity after n more elements, doubled whenever
\* it is used up.
Capacity(n) ==
  LET cap[k \in 0 .. n] ==
        IF k = 0 THEN poolCapacity
        ELSE IF poolSize + k > cap[k-1]
             THEN IF cap[k-1] = 0 THEN 1 ELSE 2 * cap[k-1]
             ELSE cap[k-1]
  IN  cap

\* The k-th of n new elements was moved when a later one was added.
Moved(k, n) == Capacity(n)[k] # Capacity(n)[n]

\* fetchRegion, under QueueMutex: each round of the loop reads the back of the
\* queue and removes its front; the number returned is the length of the queue.
FetchRegion ==
  LET n == IF Len(InsnQueue) < Chunk THEN Len(InsnQueue) ELSE Chunk
      back == IF InsnQueue = <<>> THEN 0 ELSE InsnQueue[Len(InsnQueue)]
  IN  /\ wpc = "fetch"
      /\ running
      /\ result' = Len(InsnQueue)
      /\ \E found \in [1 .. n -> {0, back}] :
           /\ \A k \in 1 .. n : ~Moved(k, n) => found[k] = back
           /\ MCIS' = found
      /\ tokens' = [k \in 1 .. n |-> [id |-> TotalNumTraces + k - 1, md |-> back]]
      /\ poolSize' = poolSize + n
      /\ poolCapacity' = Capacity(n)[n]
      /\ TotalNumTraces' = TotalNumTraces + n
      /\ InsnQueue' = SubSeq(InsnQueue, n + 1, Len(InsnQueue))
      /\ wpc' = "convert"
      /\ UNCHANGED <<server, clientVars, handlerVars, analysed>>

\* MCAWorker::run with the result: -1 ends it, with signalWorkerComplete; more
\* than TraceBuffer holds fails the assertion of take_front.
Convert ==
  /\ wpc = "convert"
  /\ wpc' = CASE result = -1     -> "done"
              [] result > Chunk  -> "crashed"
              [] OTHER           -> "fetch"
  /\ poolSize' = IF result = -1 THEN 0 ELSE poolSize
  /\ analysed' = IF result \in 0 .. Chunk
                 THEN analysed \o [k \in 1 .. result |->
                                     [inst |-> MCIS[k], md |-> tokens[k]]]
                 ELSE analysed
  /\ UNCHANGED <<server, clientVars, handlerVars, InsnQueue, result, MCIS, tokens,
                 poolCapacity, TotalNumTraces>>

\* ~VivisectBroker: Shutdown lets the call in progress finish.
Destroy ==
  /\ wpc = "done"
  /\ hpc = "idle"
  /\ server' = "down"
  /\ wpc' = "gone"
  /\ UNCHANGED <<clientVars, handlerVars, InsnQueue, fetchVars, analysed>>

Next == \/ ServerLoop \/ RecordInstruction \/ Del \/ TestRunning \/ Push
        \/ FetchStopped \/ FetchRegion \/ Convert \/ Destroy

Spec == Init /\ [][Next]_vars

-----------------------------------------------------------------------------
(* Properties.                                                             *)

\* What Brokers/Broker.h says of fetch: -1 is returned when no MCInst is left.
\* No instruction whose call has returned may still be queued then.
NothingLeftAtEnd == result = -1 => InsnQueue = <<>>
=============================================================================
