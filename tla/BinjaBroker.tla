------------------------------ MODULE BinjaBroker ------------------------------
(***************************************************************************)
(* The Binary Ninja broker (plugins/binja-broker/Broker.cpp).  Handlers of *)
(* the RPC RequestCycleCounts (BinjaBridge, one gRPC thread per call) put  *)
(* the instructions of a request into InsnQueue and wait; the MCA worker   *)
(* (MCAWorker::run) fetches them, simulates them as one region, leaves     *)
(* cycle counts in CountStore and errors in InstructionErrors, and wakes   *)
(* the handler.  The hand-over is made of two atomic flags:                *)
(* DoneHandlingInput, on which the worker waits, and IsWaitingForWorker,   *)
(* on which the handler waits.  Every access to a flag is a step of its    *)
(* own.  atomic::wait(true) returns when it reads false, so it misses a    *)
(* flag that is cleared and set again in between.                          *)
(***************************************************************************)
EXTENDS Integers, Sequences, FiniteSets

CONSTANTS
  Clients,   \* threads that may call RequestCycleCounts
  Requests,  \* what each of them may send: sequences of Kind
  MaxReq     \* bound: number of calls

\* "plain": is simulated; "skip": a call or return, which the worker leaves
\* out (without -use-call-inst, -use-return-inst); "err": MCA cannot build it;
\* "bad": cannot be disassembled.
Kind == {"plain", "skip", "err", "bad"}

ASSUME BinjaAssumption ==
  /\ Requests \in [Clients -> SUBSET Seq(Kind)]
  /\ MaxReq \in Nat

VARIABLES
  Running, InsnQueue, IsWaitingForWorker, DoneHandlingInput,
  CountStore,         \* by source index, an InstructionEntry
  InstructionErrors,  \* by index, the instruction that failed
  hpc,                \* control point of each client's handler
  insns,              \* the request each handler is working on
  wpc,                \* control point of the worker
  server,             \* the gRPC server: "starting", "up" or "down"
  batch,              \* the instructions in TraceBuffer
  nreq,               \* history: number of calls so far
  calm,               \* history: every call so far was made while no other was
                      \* in progress and the worker was waiting for input, and
                      \* had no "bad" instruction
  response            \* history: the response to each client's last call

bridgeVars == <<Running, InsnQueue, IsWaitingForWorker, DoneHandlingInput,
                CountStore, InstructionErrors>>
vars == <<bridgeVars, hpc, insns, wpc, server, batch, nreq, calm, response>>

\* The instructions of the q-th call.
InstsOf(q, r) == [i \in DOMAIN r |-> [req |-> q, idx |-> i - 1, kind |-> r[i]]]

NoResponse == [status |-> "none", insns |-> <<>>, counts |-> <<>>, errors |-> <<>>]

Empty == [i \in {} |-> 0]
Merge(f, g) == [i \in DOMAIN f \cup DOMAIN g |->
                  IF i \in DOMAIN f THEN f[i] ELSE g[i]]

Init ==
  /\ Running = TRUE
  /\ InsnQueue = <<>>
  /\ IsWaitingForWorker = FALSE
  /\ DoneHandlingInput = TRUE
  /\ CountStore = Empty
  /\ InstructionErrors = Empty
  /\ hpc = [c \in Clients |-> "idle"]
  /\ insns = [c \in Clients |-> <<>>]
  /\ wpc = "wait"
  /\ server = "starting"
  /\ batch = <<>>
  /\ nreq = 0
  /\ calm = TRUE
  /\ response = [c \in Clients |-> NoResponse]

-----------------------------------------------------------------------------
(* RequestCycleCounts, in the thread of client c.                          *)

Goto(c, l) == hpc' = [hpc EXCEPT ![c] = l]
Answer(c, st, cs, es) ==
  response' = [response EXCEPT ![c] = [status |-> st, insns |-> insns'[c],
                                       counts |-> cs, errors |-> es]]

\* The tests at the beginning: a bridge that was shut down refuses, a request
\* without instructions shuts it down.
Call(c, r) ==
  /\ server = "up"
  /\ hpc[c] = "idle"
  /\ nreq < MaxReq
  /\ nreq' = nreq + 1
  /\ calm' = (calm /\ (\A d \in Clients : hpc[d] = "idle")
                   /\ wpc = "wait" /\ DoneHandlingInput
                   /\ \A i \in DOMAIN r : r[i] # "bad")
  /\ insns' = [insns EXCEPT ![c] = InstsOf(nreq + 1, r)]
  /\ IF ~Running
     THEN /\ Answer(c, "unavailable", <<>>, Empty)
          /\ UNCHANGED <<Running, hpc>>
     ELSE /\ Goto(c, IF r = <<>> THEN "shutdown" ELSE "push")
          /\ Running' = (r # <<>>)
          /\ response' = [response EXCEPT ![c] = NoResponse]
  /\ UNCHANGED <<InsnQueue, IsWaitingForWorker, DoneHandlingInput, CountStore,
                 InstructionErrors, wpc, server, batch>>

\* Mutant: shutdown does not wake the worker.
SignalShutdownSilent(c) ==
  /\ hpc[c] = "shutdown"
  /\ Goto(c, "idle")
  /\ UNCHANGED insns
  /\ Answer(c, "ok", <<>>, Empty)
  /\ UNCHANGED <<bridgeVars, wpc, batch, nreq, calm>>

\* shutdown, after Running was cleared.
SignalShutdown(c) ==
  /\ hpc[c] = "shutdown"
  /\ DoneHandlingInput' = FALSE
  /\ Goto(c, "idle")
  /\ UNCHANGED insns
  /\ Answer(c, "ok", <<>>, Empty)
  /\ UNCHANGED <<Running, InsnQueue, IsWaitingForWorker, CountStore,
                 InstructionErrors, wpc, batch, nreq, calm>>

\* Queue the instructions, under QueueMutex.
Push(c) ==
  /\ hpc[c] = "push"
  /\ InsnQueue' = InsnQueue \o insns[c]
  /\ Goto(c, "signal")
  /\ UNCHANGED <<Running, IsWaitingForWorker, DoneHandlingInput, CountStore,
                 InstructionErrors, insns, wpc, batch, nreq, calm, response>>

\* DoneHandlingInput.store(false): the worker may go.
SignalInput(c) ==
  /\ hpc[c] = "signal"
  /\ DoneHandlingInput' = FALSE
  /\ Goto(c, "arm")
  /\ UNCHANGED <<Running, InsnQueue, IsWaitingForWorker, CountStore,
                 InstructionErrors, insns, wpc, batch, nreq, calm, response>>

\* IsWaitingForWorker.store(true).
Arm(c) ==
  /\ hpc[c] = "arm"
  /\ IsWaitingForWorker' = TRUE
  /\ Goto(c, "wait")
  /\ UNCHANGED <<Running, InsnQueue, DoneHandlingInput, CountStore,
                 InstructionErrors, insns, wpc, batch, nreq, calm, response>>

\* Mutant: the handler does not wait.
WakeEarly(c) ==
  /\ hpc[c] = "wait"
  /\ Goto(c, "respond")
  /\ UNCHANGED <<bridgeVars, insns, wpc, batch, nreq, calm, response>>

\* IsWaitingForWorker.wait(true) returns.
Wake(c) ==
  /\ hpc[c] = "wait"
  /\ ~IsWaitingForWorker
  /\ Goto(c, "respond")
  /\ UNCHANGED <<bridgeVars, insns, wpc, batch, nreq, calm, response>>

\* The counts the response gives for instruction i; an instruction without an
\* entry in CountStore gets an empty count.
CountsFor(s) == [i \in DOMAIN s |->
                   IF i - 1 \in DOMAIN CountStore THEN {CountStore[i-1]} ELSE {}]

\* Mutant: the errors are not cleared.
RespondKeepErrors(c) ==
  /\ hpc[c] = "respond"
  /\ Goto(c, "finish")
  /\ UNCHANGED insns
  /\ IF InstructionErrors # Empty
     THEN Answer(c, "invalid", <<>>, InstructionErrors)
     ELSE Answer(c, "ok", CountsFor(insns[c]), Empty)
  /\ UNCHANGED <<bridgeVars, wpc, batch, nreq, calm>>

\* Report the errors and clear them, or fill in the counts.
Respond(c) ==
  /\ hpc[c] = "respond"
  /\ Goto(c, "finish")
  /\ UNCHANGED insns
  /\ IF InstructionErrors # Empty
     THEN Answer(c, "invalid", <<>>, InstructionErrors)
     ELSE Answer(c, "ok", CountsFor(insns[c]), Empty)
  /\ InstructionErrors' = Empty
  /\ UNCHANGED <<Running, InsnQueue, IsWaitingForWorker, DoneHandlingInput,
                 CountStore, wpc, batch, nreq, calm>>

\* DoneHandlingInput.store(true) and return.
Finish(c) ==
  /\ hpc[c] = "finish"
  /\ DoneHandlingInput' = TRUE
  /\ Goto(c, "idle")
  /\ UNCHANGED <<Running, InsnQueue, IsWaitingForWorker, CountStore,
                 InstructionErrors, insns, wpc, batch, nreq, calm, response>>

Handler(c) == /\ \/ SignalShutdown(c) \/ Push(c) \/ SignalInput(c) \/ Arm(c)
                 \/ Wake(c) \/ Respond(c) \/ Finish(c)
              /\ UNCHANGED server

-----------------------------------------------------------------------------
(* The worker: MCAWorker::run with this broker.                            *)

\* fetchRegion: DoneHandlingInput.wait(true) returns.
InputAvailable ==
  /\ wpc = "wait"
  /\ ~DoneHandlingInput
  /\ wpc' = "check"
  /\ UNCHANGED <<bridgeVars, hpc, insns, batch, nreq, calm, response>>

\* fetchRegion: was it a shutdown?  If so the worker will stop after this round.
CheckRunning ==
  /\ wpc = "check"
  /\ wpc' = IF Running THEN "fetch" ELSE "last"
  /\ UNCHANGED <<bridgeVars, hpc, insns, batch, nreq, calm, response>>

\* fetchRegion, under QueueMutex: take everything there is, up to the first
\* instruction that cannot be disassembled, which stays in the queue.
NumGood(q) == CHOOSE k \in 0 .. Len(q) :
                /\ \A j \in 1 .. k : q[j].kind # "bad"
                /\ k < Len(q) => q[k+1].kind = "bad"

Fetch ==
  LET k == NumGood(InsnQueue)
  IN  /\ wpc = "fetch"
      /\ wpc' = "convert"
      /\ batch' = SubSeq(InsnQueue, 1, k)
      /\ InsnQueue' = SubSeq(InsnQueue, k + 1, Len(InsnQueue))
      /\ InstructionErrors' =
           IF k < Len(InsnQueue)
           THEN Merge(InstructionErrors, [i \in {k} |-> InsnQueue[k+1]])
           ELSE InstructionErrors
      /\ UNCHANGED <<Running, IsWaitingForWorker, DoneHandlingInput,
                     CountStore, hpc, insns, nreq, calm, response>>

\* Mutant: errors are reported one position too early.
ConvertOffByOne ==
  LET failed == {i \in 0 .. (Len(batch) - 1) : batch[i+1].kind = "err"}
  IN  /\ wpc = "convert"
      /\ wpc' = "simulate"
      /\ InstructionErrors' = Merge(InstructionErrors,
                                    [i \in {j - 1 : j \in failed} |-> batch[i+2]])
      /\ UNCHANGED <<Running, InsnQueue, IsWaitingForWorker, DoneHandlingInput,
                     CountStore, hpc, insns, batch, nreq, calm, response>>

\* run: build MCA instructions of the batch; what fails is reported with its
\* position in the batch.
Convert ==
  LET failed == {i \in 0 .. (Len(batch) - 1) : batch[i+1].kind = "err"}
  IN  /\ wpc = "convert"
      /\ wpc' = "simulate"
      /\ InstructionErrors' = Merge(InstructionErrors,
                                    [i \in failed |-> batch[i+1]])
      /\ UNCHANGED <<Running, InsnQueue, IsWaitingForWorker, DoneHandlingInput,
                     CountStore, hpc, insns, batch, nreq, calm, response>>

\* The instructions of a batch that are simulated, and the source index such
\* an instruction gets: they are numbered from 0 in every region.
Simulated(b) == {i \in DOMAIN b : b[i].kind = "plain"}
SourceIndex(b, i) == Cardinality({j \in Simulated(b) : j < i})

\* An InstructionEntry: inst is the instruction the two cycles are of, pressed
\* holds the instruction that set IsUnderPressure last (none: it is not set).
\* RawListener sets the cycles anew for every simulated instruction (at the
\* fetch event and when it is executed).  It never clears IsUnderPressure.
Listened(store, b, k, under) ==
  LET i == CHOOSE j \in Simulated(b) : SourceIndex(b, j) = k
      old == IF k \in DOMAIN store THEN store[k].pressed ELSE {}
  IN  [inst |-> b[i],
       pressed |-> IF i \in under THEN {b[i]} ELSE old]

\* runPipeline: RawListener keeps its entries by source index.  The simulator
\* decides which instructions get a pressure event; on an out-of-order CPU none
\* does.
Simulate ==
  /\ wpc = "simulate"
  /\ wpc' = "complete"
  /\ \E under \in SUBSET Simulated(batch) :
       CountStore' =
         Merge([k \in {SourceIndex(batch, i) : i \in Simulated(batch)} |->
                  Listened(CountStore, batch, k, under)],
               CountStore)
  /\ batch' = <<>>
  /\ UNCHANGED <<Running, InsnQueue, IsWaitingForWorker, DoneHandlingInput,
                 InstructionErrors, hpc, insns, nreq, calm, response>>

\* Mutant: the handler is not woken.
CompleteSilent ==
  /\ wpc \in {"complete", "last"}
  /\ wpc' = IF wpc = "last" THEN "done" ELSE "wait"
  /\ UNCHANGED <<bridgeVars, hpc, insns, batch, nreq, calm, response>>

\* signalWorkerComplete, and resetPipeline or the end of the worker.
Complete ==
  /\ wpc \in {"complete", "last"}
  /\ IsWaitingForWorker' = FALSE
  /\ wpc' = IF wpc = "last" THEN "done" ELSE "wait"
  /\ UNCHANGED <<Running, InsnQueue, DoneHandlingInput, CountStore,
                 InstructionErrors, hpc, insns, batch, nreq, calm, response>>

Worker == /\ \/ InputAvailable \/ CheckRunning \/ Fetch \/ Convert \/ Simulate
             \/ Complete
          /\ UNCHANGED server

-----------------------------------------------------------------------------
(* The server.                                                             *)

\* serverLoop, in the thread the constructor starts.
ServerLoop ==
  /\ server = "starting"
  /\ server' = "up"
  /\ UNCHANGED <<bridgeVars, hpc, insns, wpc, batch, nreq, calm, response>>

\* ~BinjaBroker, when run has returned: Shutdown takes no more calls and waits
\* for those in progress, then serverLoop returns.
Destroy ==
  /\ wpc = "done" /\ server = "up"
  /\ \A c \in Clients : hpc[c] = "idle"
  /\ server' = "down"
  /\ UNCHANGED <<bridgeVars, hpc, insns, wpc, batch, nreq, calm, response>>

Next == \/ \E c \in Clients : (\E r \in Requests[c] : Call(c, r)) \/ Handler(c)
        \/ Worker \/ ServerLoop \/ Destroy

\* The threads run; nobody has to call.
Fairness == /\ WF_vars(Worker) /\ WF_vars(Destroy)
            /\ \A c \in Clients : WF_vars(Handler(c))

Spec == Init /\ [][Next]_vars
FairSpec == Spec /\ Fairness

-----------------------------------------------------------------------------
(* Properties.                                                             *)

InstType == [req : 1 .. MaxReq, idx : Nat, kind : Kind]
HandlerPCs == {"idle", "shutdown", "push", "signal", "arm", "wait", "respond",
               "finish"}
WorkerPCs == {"wait", "check", "fetch", "convert", "simulate", "complete",
              "last", "done"}

\* Every variable has its type.
TypeOK ==
  /\ Running \in BOOLEAN
  /\ IsWaitingForWorker \in BOOLEAN /\ DoneHandlingInput \in BOOLEAN
  /\ InsnQueue \in Seq(InstType) /\ batch \in Seq(InstType)
  /\ DOMAIN CountStore \subseteq Nat /\ DOMAIN InstructionErrors \subseteq Nat
  /\ hpc \in [Clients -> HandlerPCs]
  /\ insns \in [Clients -> Seq(InstType)]
  /\ wpc \in WorkerPCs /\ server \in {"starting", "up", "down"}
  /\ nreq \in 0 .. MaxReq /\ calm \in BOOLEAN

\* "Block until worker is done processing the input": a successful response
\* has the cycles of exactly the instructions of its request, one each.
ResponseExact ==
  \A c \in Clients : response[c].status = "ok" =>
    /\ DOMAIN response[c].counts = DOMAIN response[c].insns
    /\ \A i \in DOMAIN response[c].insns :
         \E e \in response[c].counts[i] : e.inst = response[c].insns[i]

\* The same as far as it holds: for calls made one by one while the worker is
\* idle, the k-th place of the response has the cycles of the k-th simulated
\* instruction of the request (so those behind a call or return are at the place
\* of an earlier instruction).  Its pressure flag was set by that instruction or
\* in an earlier request, never by another instruction of the same request.
CalmResponseExact ==
  calm => \A c \in Clients :
    LET r == response[c]
    IN  r.counts # <<>> => \A i \in Simulated(r.insns) :
          \E e \in r.counts[SourceIndex(r.insns, i) + 1] :
            /\ e.inst = r.insns[i]
            /\ \A p \in e.pressed : p = r.insns[i] \/ p.req < r.insns[i].req

\* A response with errors names instructions of its own request, each at its
\* place, and a request with an instruction MCA cannot handle gets one (again
\* for calls made one by one while the worker is idle).
Faulty(s) == {i \in DOMAIN s : s[i].kind \in {"err", "bad"}}
ErrorsExact ==
  calm => \A c \in Clients :
    LET r == response[c]
    IN  /\ \A i \in DOMAIN r.errors : i + 1 \in Faulty(r.insns)
                                      /\ r.errors[i] = r.insns[i+1]
        /\ r.status = "ok" => Faulty(r.insns) = {}

\* The worker never changes InstructionErrors or CountStore while a handler is
\* reading them: for such calls the flags make the two accesses exclude each
\* other.
Writing == \/ wpc = "fetch" /\ NumGood(InsnQueue) < Len(InsnQueue)
           \/ wpc \in {"convert", "simulate"} /\ batch # <<>>
NoDataRace == calm => \A c \in Clients : hpc[c] = "respond" => ~Writing

\* A call returns unless another one is made before it does: a handler that is
\* still to tell the worker of its input gets an answer, whatever flags and
\* instructions earlier calls (overlapping ones too) have left behind.
Others(c) == {d \in Clients \ {c} : hpc[d] # "idle"}
CallsReturn ==
  \A c \in Clients :
    Running /\ hpc[c] \in {"push", "signal"} /\ Others(c) = {}
      ~> hpc[c] = "idle" \/ Others(c) # {}

\* After a shutdown request the worker stops, all handlers return and the
\* broker is destroyed, unless a handler that is about to return withdraws the
\* signal: handlers that wait for an idle worker, those that have missed their
\* wake-up included, are released.
ShutdownStops ==
  \A c \in Clients :
    (/\ hpc[c] = "shutdown"
     /\ \A d \in Others(c) : hpc[d] = "wait" /\ IsWaitingForWorker /\ wpc = "wait")
      ~> wpc = "done" /\ server = "down"
=============================================================================
