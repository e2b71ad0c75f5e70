--------------------------- MODULE BinjaBroker_proofs ---------------------------
(***************************************************************************)
(* Theorems about the Binary Ninja broker, for any set of clients and      *)
(* requests: types, and what the hand-over with two flags guarantees to    *)
(* calls that are made one by one while the worker is idle.                *)
(***************************************************************************)
EXTENDS BinjaBroker, FiniteSetTheorems, SequenceTheorems, WellFoundedInduction, TLAPS

-----------------------------------------------------------------------------
(* The inductive invariant.                                                *)

TypeInv == TypeOK /\ response = [c \in Clients |-> response[c]]

\* Nothing of a request is left in the bridge.
Cleared == InsnQueue = <<>> /\ batch = <<>> /\ InstructionErrors = Empty

\* The errors a request gives rise to.
Failed(q) == {i \in 0 .. (Len(q) - 1) : q[i+1].kind = "err"}
ErrorsOf(q) == [i \in Failed(q) |-> q[i+1]]

\* e is the entry of instruction i: no other one of its request has set the
\* pressure flag.
EntryOf(e, i) == e.inst = i /\ \A p \in e.pressed : p = i \/ p.req < i.req

\* The entries of q are in CountStore.
Counted(q) ==
  \A i \in Simulated(q) : /\ SourceIndex(q, i) \in DOMAIN CountStore
                           /\ EntryOf(CountStore[SourceIndex(q, i)], q[i])

\* All pressure flags are from calls before the last one.
Fresh == \A k \in DOMAIN CountStore : \A p \in CountStore[k].pressed : p.req \in 0 .. (nreq - 1)

\* How far the worker has got with a request it was told of.
Queued(q) == /\ wpc \in {"wait", "check", "fetch"}
             /\ InsnQueue = q /\ batch = <<>> /\ InstructionErrors = Empty /\ Fresh
Fetched(q) == /\ wpc = "convert"
              /\ InsnQueue = <<>> /\ batch = q /\ InstructionErrors = Empty /\ Fresh
Converted(q) == /\ wpc = "simulate"
                /\ InsnQueue = <<>> /\ batch = q /\ InstructionErrors = ErrorsOf(q)
                /\ Fresh
Processed(q) == /\ InsnQueue = <<>> /\ batch = <<>> /\ InstructionErrors = ErrorsOf(q)
                /\ Counted(q)

\* One call at a time.
OneCall == \A c, d \in Clients : hpc[c] # "idle" /\ hpc[d] # "idle" => c = d

NoBad == \A c \in Clients : \A i \in DOMAIN insns[c] : insns[c][i].kind # "bad"

\* Before the handler has told the worker, the worker waits.
NotTold ==
  \A c \in Clients :
    /\ hpc[c] = "push"   => /\ wpc = "wait" /\ DoneHandlingInput /\ Running /\ Cleared
                            /\ Fresh
    /\ hpc[c] = "signal" => wpc = "wait" /\ DoneHandlingInput /\ Running /\ Queued(insns[c])

\* While the handler waits, the worker processes the request once; all later
\* rounds are empty.  The handler is only woken after that.
Told ==
  \A c \in Clients :
    LET q == insns[c]
    IN  /\ hpc[c] \in {"arm", "wait", "respond"} =>
             Running /\ (Queued(q) \/ Fetched(q) \/ Converted(q) \/ Processed(q))
        /\ hpc[c] = "respond" \/ (hpc[c] = "wait" /\ ~IsWaitingForWorker) => Processed(q)

\* Between calls nothing is left over.
AtRest == (\A c \in Clients : hpc[c] \in {"idle", "shutdown", "finish"}) => Cleared

\* Only a request without instructions shuts the bridge down.
ShutdownEmpty == \A c \in Clients : hpc[c] = "shutdown" => insns[c] = <<>>

\* A call in progress is the last one, and no pressure flag is from a later one.
Ages == /\ \A c \in Clients : hpc[c] # "idle" =>
             \A i \in DOMAIN insns[c] : insns[c][i].req = nreq
        /\ \A k \in DOMAIN CountStore : \A p \in CountStore[k].pressed : p.req \in 0 .. nreq

HandOver == OneCall /\ NoBad /\ NotTold /\ Told /\ AtRest /\ Ages

BInv == /\ TypeInv /\ ShutdownEmpty
        /\ calm => HandOver
        /\ CalmResponseExact /\ ErrorsExact

-----------------------------------------------------------------------------
(* Operators.                                                              *)

\* A set of natural numbers has a least one.
LEMMA NatMin ==
  ASSUME NEW T, T \subseteq Nat, T # {}
  PROVE  \E x \in T : \A y \in T : x <= y
<1>1. IsWellFoundedOn(OpToRel(<, Nat), Nat)
  BY NatLessThanWellFounded
<1>2. PICK x \in T : \A y \in T : ~(<<y, x>> \in OpToRel(<, Nat))
  BY <1>1, WFMin
<1>3. \A y \in T : ~(y < x)
  BY <1>2 DEF OpToRel
<1>4. QED BY <1>3

\* NumGood finds the first instruction that cannot be disassembled.
LEMMA NumGoodFacts ==
  ASSUME NEW q \in Seq(InstType)
  PROVE  /\ NumGood(q) \in 0 .. Len(q)
         /\ \A j \in 1 .. NumGood(q) : q[j].kind # "bad"
         /\ NumGood(q) < Len(q) => q[NumGood(q) + 1].kind = "bad"
<1> DEFINE T == {k \in 0 .. Len(q) : k < Len(q) => q[k+1].kind = "bad"}
           Good(k) == /\ \A j \in 1 .. k : q[j].kind # "bad"
                      /\ k < Len(q) => q[k+1].kind = "bad"
<1>1. Len(q) \in Nat
  OBVIOUS
<1>2. T \subseteq Nat /\ Len(q) \in T
  BY <1>1
<1>3. PICK k \in T : \A y \in T : k <= y
  BY <1>2, NatMin
<1>4. ASSUME NEW j \in 1 .. k PROVE q[j].kind # "bad"
  <2>1. j - 1 \in 0 .. Len(q) /\ j - 1 < k
    BY <1>1, <1>3
  <2>2. k \in Nat /\ j \in Nat
    BY <1>1, <1>3
  <2>3. j - 1 \notin T
    <3> HIDE DEF T
    <3>1. j - 1 \in T => k <= j - 1
      BY <1>3
    <3>2. QED BY <3>1, <2>1, <2>2
  <2>4. QED BY <2>1, <2>3
<1>5. k \in 0 .. Len(q) /\ Good(k)
  BY <1>3, <1>4
<1>6. NumGood(q) = CHOOSE m \in 0 .. Len(q) : Good(m)
  BY DEF NumGood
<1>7. NumGood(q) \in 0 .. Len(q) /\ Good(NumGood(q))
  BY <1>5, <1>6
<1>8. QED BY <1>7

\* Without such an instruction, all are good.
LEMMA AllGood ==
  ASSUME NEW q \in Seq(InstType), \A i \in DOMAIN q : q[i].kind # "bad"
  PROVE  NumGood(q) = Len(q)
<1>1. Len(q) \in Nat /\ DOMAIN q = 1 .. Len(q)
  OBVIOUS
<1>2. QED BY <1>1, NumGoodFacts

\* Source indices are positions of earlier instructions at most, and no two
\* instructions of a batch have the same.
LEMMA SourceIndexFacts ==
  ASSUME NEW q \in Seq(InstType), NEW i \in Simulated(q)
  PROVE  /\ SourceIndex(q, i) \in Nat /\ SourceIndex(q, i) + 1 \in DOMAIN q
         /\ \A m \in Simulated(q) : SourceIndex(q, m) = SourceIndex(q, i) => m = i
<1> DEFINE Below(m) == {j \in Simulated(q) : j < m}
<1>1. Len(q) \in Nat /\ DOMAIN q = 1 .. Len(q) /\ Simulated(q) \subseteq 1 .. Len(q)
  BY DEF Simulated
<1>2. \A m \in Simulated(q) :
        /\ IsFiniteSet(Below(m)) /\ Below(m) \subseteq 1 .. (m - 1)
        /\ m \in 1 .. Len(q) /\ m \notin Below(m)
  <2>1. SUFFICES ASSUME NEW m \in Simulated(q)
                 PROVE  /\ IsFiniteSet(Below(m)) /\ Below(m) \subseteq 1 .. (m - 1)
                        /\ m \in 1 .. Len(q) /\ m \notin Below(m)
    OBVIOUS
  <2>2. m \in 1 .. Len(q) /\ m - 1 \in Nat
    BY <1>1
  <2>3. Below(m) \subseteq 1 .. (m - 1) /\ m \notin Below(m)
    BY <1>1, <2>2
  <2>4. IsFiniteSet(1 .. (m - 1))
    BY <2>2, FS_Interval
  <2> HIDE DEF Below
  <2>5. QED BY <2>2, <2>3, <2>4, FS_Subset
<1>3. \A m \in Simulated(q) :
        SourceIndex(q, m) = Cardinality(Below(m)) /\ SourceIndex(q, m) \in Nat
  BY <1>2, FS_CardinalityType DEF SourceIndex
<1>4. \A m, n \in Simulated(q) : m < n => SourceIndex(q, m) < SourceIndex(q, n)
  <2>1. SUFFICES ASSUME NEW m \in Simulated(q), NEW n \in Simulated(q), m < n
                 PROVE  SourceIndex(q, m) < SourceIndex(q, n)
    OBVIOUS
  <2>2. Below(m) \cup {m} \subseteq Below(n)
    BY <1>1, <2>1
  <2> HIDE DEF Below
  <2>3. Cardinality(Below(m) \cup {m}) = Cardinality(Below(m)) + 1
    BY <1>2, FS_AddElement
  <2>4. Cardinality(Below(m) \cup {m}) <= Cardinality(Below(n))
    BY <1>2, <2>2, FS_Subset
  <2>5. QED BY <1>3, <2>3, <2>4
<1>5. SourceIndex(q, i) <= i - 1
  <2>0. i \in 1 .. Len(q) /\ i - 1 \in Nat
    BY <1>1
  <2>1. IsFiniteSet(1 .. (i - 1)) /\ Cardinality(1 .. (i - 1)) = i - 1
    BY <2>0, FS_Interval
  <2>2. Below(i) \subseteq 1 .. (i - 1)
    BY <1>2
  <2> HIDE DEF Below
  <2>3. Cardinality(Below(i)) <= Cardinality(1 .. (i - 1))
    BY <2>1, <2>2, FS_Subset
  <2>4. QED BY <1>3, <2>1, <2>3
<1>6. ASSUME NEW m \in Simulated(q), SourceIndex(q, m) = SourceIndex(q, i) PROVE m = i
  <2>1. m \in 1 .. Len(q) /\ i \in 1 .. Len(q)
    BY <1>2
  <2>2. ~(m < i) /\ ~(i < m)
    <3>1. /\ m < i => SourceIndex(q, m) < SourceIndex(q, i)
          /\ i < m => SourceIndex(q, i) < SourceIndex(q, m)
      BY <1>4, <1>6
    <3>2. SourceIndex(q, m) \in Nat
      BY <1>3, <1>6
    <3>3. QED BY <3>1, <3>2, <1>6
  <2>3. QED BY <1>1, <2>1, <2>2
<1>7. SourceIndex(q, i) + 1 \in DOMAIN q
  <2>1. i \in 1 .. Len(q)
    BY <1>2
  <2>2. SourceIndex(q, i) \in Nat
    BY <1>3
  <2>3. QED BY <1>1, <1>5, <2>1, <2>2
<1>8. QED BY <1>3, <1>6, <1>7

-----------------------------------------------------------------------------
(* Types.                                                                  *)

LEMMA InitTypeInv == Init => TypeInv
<1> SUFFICES ASSUME Init PROVE TypeInv
  OBVIOUS
<1>1. <<>> \in Seq(InstType)
  OBVIOUS
<1>2. /\ insns \in [Clients -> Seq(InstType)] /\ hpc \in [Clients -> HandlerPCs]
      /\ response = [c \in Clients |-> response[c]]
  BY <1>1 DEF Init, HandlerPCs
<1>3. DOMAIN Empty \subseteq Nat
  BY DEF Empty
<1>4. /\ InsnQueue \in Seq(InstType) /\ batch \in Seq(InstType)
      /\ DOMAIN CountStore \subseteq Nat /\ DOMAIN InstructionErrors \subseteq Nat
  BY <1>1, <1>3 DEF Init
<1>5. /\ Running \in BOOLEAN /\ IsWaitingForWorker \in BOOLEAN
      /\ DoneHandlingInput \in BOOLEAN /\ calm \in BOOLEAN
      /\ wpc \in WorkerPCs /\ server \in {"starting", "up", "down"}
  BY DEF Init, WorkerPCs
<1>6. nreq \in 0 .. MaxReq
  BY BinjaAssumption DEF Init
<1>7. QED BY <1>2, <1>4, <1>5, <1>6 DEF TypeInv, TypeOK

LEMMA InstsOfType ==
  ASSUME NEW k \in 1 .. MaxReq, NEW c \in Clients, NEW r \in Requests[c]
  PROVE  InstsOf(k, r) \in Seq(InstType)
<1>1. r \in Seq(Kind)
  BY BinjaAssumption
<1>2. Len(r) \in Nat /\ DOMAIN r = 1 .. Len(r) /\ \A i \in 1 .. Len(r) : r[i] \in Kind
  BY <1>1
<1>3. \A i \in 1 .. Len(r) : [req |-> k, idx |-> i - 1, kind |-> r[i]] \in InstType
  BY <1>2 DEF InstType
<1>4. InstsOf(k, r) \in [1 .. Len(r) -> InstType]
  BY <1>2, <1>3 DEF InstsOf
<1>5. QED BY <1>2, <1>4, SeqDef

LEMMA MergeDomain == ASSUME NEW f, NEW g PROVE DOMAIN Merge(f, g) = DOMAIN f \cup DOMAIN g
BY DEF Merge

LEMMA CallType ==
  ASSUME TypeInv, NEW c \in Clients, NEW r \in Requests[c], Call(c, r)
  PROVE  TypeInv'
<1> USE DEF TypeInv, TypeOK
<1>1. nreq + 1 \in 1 .. MaxReq /\ nreq' \in 0 .. MaxReq
  BY BinjaAssumption DEF Call
<1>2. insns' \in [Clients -> Seq(InstType)]
  <2>1. InstsOf(nreq + 1, r) \in Seq(InstType)
    BY <1>1, InstsOfType
  <2>2. QED BY <2>1 DEF Call
<1>3. hpc' \in [Clients -> HandlerPCs] /\ Running' \in BOOLEAN
  BY DEF Call, Goto, HandlerPCs
<1>4. response' = [d \in Clients |-> response'[d]]
  BY DEF Call, Answer
<1>5. calm' \in BOOLEAN
  BY DEF Call
<1>6. UNCHANGED <<InsnQueue, IsWaitingForWorker, DoneHandlingInput, CountStore,
                  InstructionErrors, wpc, server, batch>>
  BY DEF Call
<1>7. QED BY <1>1, <1>2, <1>3, <1>4, <1>5, <1>6

LEMMA HandlerType ==
  ASSUME TypeInv, NEW c \in Clients, Handler(c)
  PROVE  TypeInv'
<1> USE DEF TypeInv, TypeOK
<1>0. UNCHANGED server
  BY DEF Handler
<1>1. CASE SignalShutdown(c)
  BY <1>0, <1>1 DEF SignalShutdown, Goto, Answer, HandlerPCs
<1>2. CASE Push(c)
  <2>1. InsnQueue' \in Seq(InstType)
    BY <1>2 DEF Push
  <2>2. QED BY <1>0, <1>2, <2>1 DEF Push, Goto, HandlerPCs
<1>3. CASE SignalInput(c)
  BY <1>0, <1>3 DEF SignalInput, Goto, HandlerPCs
<1>4. CASE Arm(c)
  BY <1>0, <1>4 DEF Arm, Goto, HandlerPCs
<1>5. CASE Wake(c)
  BY <1>0, <1>5 DEF Wake, Goto, HandlerPCs, bridgeVars
<1>6. CASE Respond(c)
  <2>1. DOMAIN InstructionErrors' \subseteq Nat
    BY <1>6 DEF Respond, Empty
  <2>2. response' = [d \in Clients |-> response'[d]]
    BY <1>6 DEF Respond, Answer
  <2>3. QED BY <1>0, <1>6, <2>1, <2>2 DEF Respond, Goto, HandlerPCs
<1>7. CASE Finish(c)
  BY <1>0, <1>7 DEF Finish, Goto, HandlerPCs
<1>8. QED BY <1>1, <1>2, <1>3, <1>4, <1>5, <1>6, <1>7 DEF Handler

LEMMA WorkerType ==
  ASSUME TypeInv, Worker
  PROVE  TypeInv'
<1> USE DEF TypeInv, TypeOK
<1>0. UNCHANGED server
  BY DEF Worker
<1>1. CASE InputAvailable
  BY <1>0, <1>1 DEF InputAvailable, bridgeVars, WorkerPCs
<1>2. CASE CheckRunning
  BY <1>0, <1>2 DEF CheckRunning, bridgeVars, WorkerPCs
<1>3. CASE Fetch
  <2> DEFINE k == NumGood(InsnQueue)
  <2>1. k \in 0 .. Len(InsnQueue) /\ Len(InsnQueue) \in Nat
    BY NumGoodFacts
  <2> HIDE DEF k
  <2>2. InsnQueue' \in Seq(InstType) /\ batch' \in Seq(InstType)
    <3>1. \A i \in 1 .. k : InsnQueue[i] \in InstType
      BY <2>1
    <3>2. \A i \in (k + 1) .. Len(InsnQueue) : InsnQueue[i] \in InstType
      BY <2>1
    <3>3. /\ InsnQueue' = SubSeq(InsnQueue, k + 1, Len(InsnQueue))
          /\ batch' = SubSeq(InsnQueue, 1, k)
      BY <1>3 DEF Fetch, k
    <3>4. SubSeq(InsnQueue, 1, k) \in Seq(InstType)
      BY <2>1, <3>1, SubSeqProperties
    <3>5. SubSeq(InsnQueue, k + 1, Len(InsnQueue)) \in Seq(InstType)
      BY <2>1, <3>2, SubSeqProperties
    <3>6. QED BY <3>3, <3>4, <3>5
  <2>3. DOMAIN InstructionErrors' \subseteq Nat
    <3>1. DOMAIN [i \in {k} |-> InsnQueue[k+1]] = {k} /\ k \in Nat
      BY <2>1
    <3>2. \/ InstructionErrors' = InstructionErrors
          \/ InstructionErrors' = Merge(InstructionErrors, [i \in {k} |-> InsnQueue[k+1]])
      BY <1>3 DEF Fetch, k
    <3>3. DOMAIN Merge(InstructionErrors, [i \in {k} |-> InsnQueue[k+1]])
            = DOMAIN InstructionErrors \cup {k}
      BY <3>1, MergeDomain
    <3>4. QED BY <3>1, <3>2, <3>3
  <2>4. QED BY <1>0, <1>3, <2>2, <2>3 DEF Fetch, WorkerPCs
<1>4. CASE Convert
  <2>1. DOMAIN InstructionErrors' \subseteq Nat
    <3>1. InstructionErrors' = Merge(InstructionErrors, ErrorsOf(batch))
      BY <1>4 DEF Convert, ErrorsOf, Failed
    <3>2. DOMAIN ErrorsOf(batch) \subseteq Nat
      BY DEF ErrorsOf, Failed
    <3>3. QED BY <3>1, <3>2, MergeDomain
  <2>2. QED BY <1>0, <1>4, <2>1 DEF Convert, WorkerPCs
<1>5. CASE Simulate
  <2>0. PICK under \in SUBSET Simulated(batch) :
          CountStore' =
            Merge([k \in {SourceIndex(batch, i) : i \in Simulated(batch)} |->
                     Listened(CountStore, batch, k, under)],
                  CountStore)
    BY <1>5 DEF Simulate
  <2> DEFINE I == {SourceIndex(batch, i) : i \in Simulated(batch)}
             new == [k \in I |-> Listened(CountStore, batch, k, under)]
  <2>1. I \subseteq Nat
    BY SourceIndexFacts
  <2>2. CountStore' = Merge(new, CountStore)
    BY <2>0
  <2>3. DOMAIN new = I
    OBVIOUS
  <2> HIDE DEF I, new
  <2>4. DOMAIN CountStore' \subseteq Nat
    BY <2>1, <2>2, <2>3, MergeDomain
  <2>5. batch' \in Seq(InstType)
    BY <1>5 DEF Simulate
  <2>6. QED BY <1>0, <1>5, <2>4, <2>5 DEF Simulate, WorkerPCs
<1>6. CASE Complete
  BY <1>0, <1>6 DEF Complete, WorkerPCs
<1>7. QED BY <1>1, <1>2, <1>3, <1>4, <1>5, <1>6 DEF Worker

LEMMA NextTypeInv == TypeInv /\ [Next]_vars => TypeInv'
<1> SUFFICES ASSUME TypeInv, [Next]_vars PROVE TypeInv'
  OBVIOUS
<1>1. ASSUME NEW c \in Clients, NEW r \in Requests[c], Call(c, r) PROVE TypeInv'
  BY <1>1, CallType
<1>2. ASSUME NEW c \in Clients, Handler(c) PROVE TypeInv'
  BY <1>2, HandlerType
<1>3. CASE Worker
  BY <1>3, WorkerType
<1>4. CASE ServerLoop
  BY <1>4 DEF ServerLoop, TypeInv, TypeOK, bridgeVars
<1>5. CASE Destroy
  BY <1>5 DEF Destroy, TypeInv, TypeOK, bridgeVars
<1>6. CASE UNCHANGED vars
  BY <1>6 DEF vars, TypeInv, TypeOK, bridgeVars
<1>7. QED BY <1>1, <1>2, <1>3, <1>4, <1>5, <1>6 DEF Next

\* Every variable of the broker keeps its type, for any set of clients and
\* requests.
THEOREM TypeCorrect == Spec => []TypeOK
<1>1. TypeInv => TypeOK
  BY DEF TypeInv
<1>2. QED BY <1>1, InitTypeInv, NextTypeInv, PTL DEF Spec

-----------------------------------------------------------------------------
(* The hand-over.                                                          *)

\* A step of the handler of a calm call: all other handlers are idle.
LEMMA OnlyCall ==
  ASSUME BInv, calm, NEW c \in Clients, hpc[c] # "idle", NEW l, Goto(c, l)
  PROVE  /\ hpc'[c] = l
         /\ \A d \in Clients : d # c => hpc[d] = "idle" /\ hpc'[d] = "idle"
         /\ OneCall'
<1>1. \A d \in Clients : d # c => hpc[d] = "idle"
  BY DEF BInv, HandOver, OneCall
<1>2. hpc'[c] = l /\ \A d \in Clients : d # c => hpc'[d] = hpc[d]
  BY DEF BInv, TypeInv, TypeOK, Goto
<1>3. QED BY <1>1, <1>2 DEF OneCall

\* A step that leaves requests and entries alone.
LEMMA AgesKept ==
  ASSUME HandOver, UNCHANGED <<insns, nreq, CountStore>>,
         \A c \in Clients : hpc'[c] # "idle" => hpc[c] # "idle"
  PROVE  Ages' /\ (Fresh' <=> Fresh)
BY DEF HandOver, Ages, Fresh

LEMMA CallHandOver ==
  ASSUME BInv, NEW c \in Clients, NEW r \in Requests[c], Call(c, r), calm'
  PROVE  HandOver'
<1>1. /\ calm /\ wpc = "wait" /\ DoneHandlingInput
      /\ \A d \in Clients : hpc[d] = "idle"
      /\ \A i \in DOMAIN r : r[i] # "bad"
  BY DEF Call
<1>2. HandOver /\ Cleared
  BY <1>1 DEF BInv, HandOver, AtRest
<1>3. /\ UNCHANGED <<InsnQueue, DoneHandlingInput, InstructionErrors, wpc, batch>>
      /\ Cleared'
  BY <1>2 DEF Call, Cleared
<1>4. NoBad'
  <2>1. /\ insns'[c] = InstsOf(nreq + 1, r)
        /\ \A d \in Clients : d # c => insns'[d] = insns[d]
    BY DEF Call, BInv, TypeInv, TypeOK
  <2>2. \A i \in DOMAIN InstsOf(nreq + 1, r) : InstsOf(nreq + 1, r)[i].kind # "bad"
    BY <1>1 DEF InstsOf
  <2>3. QED BY <1>2, <2>1, <2>2 DEF HandOver, NoBad
<1>5. \A d \in Clients : d # c => hpc'[d] = "idle"
  BY <1>1 DEF Call, Goto, BInv, TypeInv, TypeOK
<1>6. hpc'[c] \in {"idle", "shutdown"} \/ (hpc'[c] = "push" /\ Running')
  BY <1>1 DEF Call, Goto, BInv, TypeInv, TypeOK
<1>7. Ages' /\ Fresh'
  <2>1. nreq \in Nat /\ nreq' = nreq + 1 /\ CountStore' = CountStore
    BY DEF Call, BInv, TypeInv, TypeOK
  <2>2. \A k \in DOMAIN CountStore : \A p \in CountStore[k].pressed : p.req \in 0 .. nreq
    BY <1>2 DEF HandOver, Ages
  <2>3. insns'[c] = InstsOf(nreq + 1, r)
    BY DEF Call, BInv, TypeInv, TypeOK
  <2>4. \A i \in DOMAIN InstsOf(nreq + 1, r) : InstsOf(nreq + 1, r)[i].req = nreq + 1
    BY DEF InstsOf
  <2>5. 0 .. nreq \subseteq 0 .. (nreq' - 1) /\ 0 .. nreq \subseteq 0 .. nreq'
    BY <2>1
  <2>6. Fresh'
    BY <2>1, <2>2, <2>5 DEF Fresh
  <2>7. QED BY <1>5, <2>1, <2>2, <2>3, <2>4, <2>5, <2>6 DEF Ages
<1>8. QED
  BY <1>1, <1>3, <1>4, <1>5, <1>6, <1>7 DEF HandOver, OneCall, NotTold, Told, AtRest

LEMMA SignalShutdownHandOver ==
  ASSUME BInv, NEW c \in Clients, SignalShutdown(c), calm
  PROVE  HandOver'
<1>1. hpc[c] = "shutdown" /\ Goto(c, "idle")
  BY DEF SignalShutdown
<1>2. /\ hpc'[c] = "idle" /\ OneCall'
      /\ \A d \in Clients : d # c => hpc[d] = "idle" /\ hpc'[d] = "idle"
  BY <1>1, OnlyCall
<1>3. Cleared
  BY <1>1, <1>2 DEF BInv, HandOver, AtRest
<1>4. Cleared' /\ NoBad'
  BY <1>3 DEF SignalShutdown, Cleared, BInv, HandOver, NoBad
<1>0. Ages' /\ (Fresh' <=> Fresh)
  <2>1. UNCHANGED <<insns, nreq, CountStore>> /\ HandOver
    BY DEF SignalShutdown, bridgeVars, BInv
  <2>2. \A d \in Clients : hpc'[d] # "idle" => hpc[d] # "idle"
    BY <1>1, <1>2
  <2>3. QED BY <2>1, <2>2, AgesKept
<1>5. QED BY <1>0, <1>2, <1>4 DEF HandOver, NotTold, Told, AtRest

LEMMA PushHandOver ==
  ASSUME BInv, NEW c \in Clients, Push(c), calm
  PROVE  HandOver'
<1>1. hpc[c] = "push" /\ Goto(c, "signal")
  BY DEF Push
<1>2. /\ hpc'[c] = "signal" /\ OneCall'
      /\ \A d \in Clients : d # c => hpc[d] = "idle" /\ hpc'[d] = "idle"
  BY <1>1, OnlyCall
<1>3. wpc = "wait" /\ DoneHandlingInput /\ Running /\ Cleared /\ Fresh
  BY <1>1 DEF BInv, HandOver, NotTold
<1>4. InsnQueue' = insns[c]
  <2>1. insns[c] \in Seq(InstType)
    BY DEF BInv, TypeInv, TypeOK
  <2>2. QED BY <1>3, <2>1, ConcatEmptySeq DEF Push, Cleared
<1>5. /\ UNCHANGED <<wpc, DoneHandlingInput, Running, batch, InstructionErrors, insns>>
  BY DEF Push
<1>6. NoBad'
  BY <1>5 DEF BInv, HandOver, NoBad
<1>0. Ages' /\ (Fresh' <=> Fresh)
  <2>1. UNCHANGED <<insns, nreq, CountStore>> /\ HandOver
    BY DEF Push, bridgeVars, BInv
  <2>2. \A d \in Clients : hpc'[d] # "idle" => hpc[d] # "idle"
    BY <1>1, <1>2
  <2>3. QED BY <2>1, <2>2, AgesKept
<1>7. QED
  BY <1>0, <1>2, <1>3, <1>4, <1>5, <1>6
     DEF HandOver, NotTold, Told, AtRest, Queued, Cleared

LEMMA SignalInputHandOver ==
  ASSUME BInv, NEW c \in Clients, SignalInput(c), calm
  PROVE  HandOver'
<1>1. hpc[c] = "signal" /\ Goto(c, "arm")
  BY DEF SignalInput
<1>2. /\ hpc'[c] = "arm" /\ OneCall'
      /\ \A d \in Clients : d # c => hpc[d] = "idle" /\ hpc'[d] = "idle"
  BY <1>1, OnlyCall
<1>3. Running /\ Queued(insns[c])
  BY <1>1 DEF BInv, HandOver, NotTold
<1>4. UNCHANGED <<wpc, Running, InsnQueue, batch, InstructionErrors, insns>>
  BY DEF SignalInput
<1>5. NoBad'
  BY <1>4 DEF BInv, HandOver, NoBad
<1>0. Ages' /\ (Fresh' <=> Fresh)
  <2>1. UNCHANGED <<insns, nreq, CountStore>> /\ HandOver
    BY DEF SignalInput, bridgeVars, BInv
  <2>2. \A d \in Clients : hpc'[d] # "idle" => hpc[d] # "idle"
    BY <1>1, <1>2
  <2>3. QED BY <2>1, <2>2, AgesKept
<1>6. QED
  BY <1>0, <1>2, <1>3, <1>4, <1>5 DEF HandOver, NotTold, Told, AtRest, Queued

\* Arm, Wake: the worker's progress is not touched.
LEMMA ArmHandOver ==
  ASSUME BInv, NEW c \in Clients, Arm(c) \/ Wake(c), calm
  PROVE  HandOver'
<1> DEFINE q == insns[c]
<1>1. hpc[c] \in {"arm", "wait"} /\ Goto(c, IF hpc[c] = "arm" THEN "wait" ELSE "respond")
  BY DEF Arm, Wake
<1>2. /\ hpc'[c] = (IF hpc[c] = "arm" THEN "wait" ELSE "respond") /\ OneCall'
      /\ \A d \in Clients : d # c => hpc[d] = "idle" /\ hpc'[d] = "idle"
  BY <1>1, OnlyCall
<1>3. /\ Running /\ (Queued(q) \/ Fetched(q) \/ Converted(q) \/ Processed(q))
      /\ hpc[c] = "wait" /\ ~IsWaitingForWorker => Processed(q)
  BY <1>1 DEF BInv, HandOver, Told
<1>4. /\ UNCHANGED <<Running, wpc, InsnQueue, batch, InstructionErrors, CountStore, insns>>
      /\ hpc[c] = "arm" => IsWaitingForWorker'
      /\ hpc[c] = "wait" => ~IsWaitingForWorker
  BY DEF Arm, Wake, bridgeVars
<1>5. NoBad'
  BY <1>4 DEF BInv, HandOver, NoBad
<1>0. Ages' /\ (Fresh' <=> Fresh)
  <2>1. UNCHANGED <<insns, nreq, CountStore>> /\ HandOver
    BY DEF Arm, Wake, bridgeVars, BInv
  <2>2. \A d \in Clients : hpc'[d] # "idle" => hpc[d] # "idle"
    BY <1>1, <1>2
  <2>3. QED BY <2>1, <2>2, AgesKept
<1>6. /\ Queued(insns[c])' <=> Queued(q)
      /\ Fetched(insns[c])' <=> Fetched(q)
      /\ Converted(insns[c])' <=> Converted(q)
      /\ Processed(insns[c])' <=> Processed(q)
  BY <1>0, <1>4 DEF Queued, Fetched, Converted, Processed, Counted, ErrorsOf, Failed
<1>7. Told'
  BY <1>1, <1>2, <1>3, <1>4, <1>6 DEF Told
<1>8. QED BY <1>0, <1>1, <1>2, <1>5, <1>7 DEF HandOver, NotTold, AtRest

LEMMA RespondHandOver ==
  ASSUME BInv, NEW c \in Clients, Respond(c), calm
  PROVE  HandOver'
<1>1. hpc[c] = "respond" /\ Goto(c, "finish")
  BY DEF Respond
<1>2. /\ hpc'[c] = "finish" /\ OneCall'
      /\ \A d \in Clients : d # c => hpc[d] = "idle" /\ hpc'[d] = "idle"
  BY <1>1, OnlyCall
<1>3. Processed(insns[c])
  BY <1>1 DEF BInv, HandOver, Told
<1>4. Cleared' /\ NoBad'
  BY <1>3 DEF Respond, Processed, Cleared, BInv, HandOver, NoBad
<1>0. Ages' /\ (Fresh' <=> Fresh)
  <2>1. UNCHANGED <<insns, nreq, CountStore>> /\ HandOver
    BY DEF Respond, bridgeVars, BInv
  <2>2. \A d \in Clients : hpc'[d] # "idle" => hpc[d] # "idle"
    BY <1>1, <1>2
  <2>3. QED BY <2>1, <2>2, AgesKept
<1>5. QED BY <1>0, <1>2, <1>4 DEF HandOver, NotTold, Told, AtRest

LEMMA FinishHandOver ==
  ASSUME BInv, NEW c \in Clients, Finish(c), calm
  PROVE  HandOver'
<1>1. hpc[c] = "finish" /\ Goto(c, "idle")
  BY DEF Finish
<1>2. /\ hpc'[c] = "idle" /\ OneCall'
      /\ \A d \in Clients : d # c => hpc[d] = "idle" /\ hpc'[d] = "idle"
  BY <1>1, OnlyCall
<1>3. Cleared
  BY <1>1, <1>2 DEF BInv, HandOver, AtRest
<1>4. Cleared' /\ NoBad'
  BY <1>3 DEF Finish, Cleared, BInv, HandOver, NoBad
<1>0. Ages' /\ (Fresh' <=> Fresh)
  <2>1. UNCHANGED <<insns, nreq, CountStore>> /\ HandOver
    BY DEF Finish, bridgeVars, BInv
  <2>2. \A d \in Clients : hpc'[d] # "idle" => hpc[d] # "idle"
    BY <1>1, <1>2
  <2>3. QED BY <2>1, <2>2, AgesKept
<1>5. QED BY <1>0, <1>2, <1>4 DEF HandOver, NotTold, Told, AtRest

\* The worker does not run before it was told, and leaves the handlers alone.
LEMMA WorkerCalls ==
  ASSUME BInv, Worker, calm
  PROVE  /\ \A c \in Clients : hpc[c] \notin {"push", "signal"}
         /\ UNCHANGED <<hpc, insns, Running, calm, response>>
         /\ OneCall' /\ NoBad' /\ NotTold'
<1>1. UNCHANGED <<hpc, insns, Running, calm, response>>
  BY DEF Worker, InputAvailable, CheckRunning, Fetch, Convert, Simulate, Complete, bridgeVars
<1>2. wpc # "wait" \/ ~DoneHandlingInput
  BY DEF Worker, InputAvailable, CheckRunning, Fetch, Convert, Simulate, Complete
<1>3. \A c \in Clients : hpc[c] \notin {"push", "signal"}
  BY <1>2 DEF BInv, HandOver, NotTold
<1>4. OneCall' /\ NoBad'
  BY <1>1 DEF BInv, HandOver, OneCall, NoBad
<1>5. NotTold'
  BY <1>1, <1>3 DEF NotTold
<1>6. QED BY <1>1, <1>3, <1>4, <1>5

LEMMA StartHandOver ==
  ASSUME BInv, Worker, calm, InputAvailable \/ CheckRunning
  PROVE  Told' /\ AtRest' /\ Ages'
<1>1. UNCHANGED <<hpc, insns, Running>>
  BY WorkerCalls
<1>0. Ages' /\ (Fresh' <=> Fresh)
  <2>1. UNCHANGED <<hpc, insns, nreq, CountStore>> /\ HandOver
    BY WorkerCalls DEF InputAvailable, CheckRunning, bridgeVars, BInv
  <2>2. QED BY <2>1, AgesKept
<1>2. UNCHANGED <<InsnQueue, batch, InstructionErrors, CountStore, IsWaitingForWorker>>
  BY DEF InputAvailable, CheckRunning, bridgeVars
<1>3. wpc \in {"wait", "check"} /\ (Running => wpc' \in {"check", "fetch"})
  BY DEF InputAvailable, CheckRunning
<1>4. AtRest'
  BY <1>1, <1>2 DEF BInv, HandOver, AtRest, Cleared
<1>5. \A c \in Clients : /\ Processed(insns[c])' <=> Processed(insns[c])
                         /\ Running /\ Queued(insns[c]) => Queued(insns[c])'
                         /\ ~Fetched(insns[c]) /\ ~Converted(insns[c])
  BY <1>0, <1>1, <1>2, <1>3
     DEF Queued, Fetched, Converted, Processed, Counted, ErrorsOf, Failed
<1>6. Told'
  BY <1>1, <1>2, <1>5 DEF BInv, HandOver, Told
<1>7. QED BY <1>0, <1>4, <1>6

\* Fetching takes everything that is queued.
LEMMA FetchAll ==
  ASSUME TypeInv, Fetch, \A i \in DOMAIN InsnQueue : InsnQueue[i].kind # "bad"
  PROVE  /\ batch' = InsnQueue /\ InsnQueue' = <<>>
         /\ InstructionErrors' = InstructionErrors
<1>1. InsnQueue \in Seq(InstType) /\ Len(InsnQueue) \in Nat
  BY DEF TypeInv, TypeOK
<1>2. NumGood(InsnQueue) = Len(InsnQueue)
  BY <1>1, AllGood
<1>3. /\ batch' = SubSeq(InsnQueue, 1, Len(InsnQueue))
      /\ InsnQueue' = SubSeq(InsnQueue, Len(InsnQueue) + 1, Len(InsnQueue))
      /\ InstructionErrors' = InstructionErrors
  BY <1>1, <1>2 DEF Fetch
<1>4. SubSeq(InsnQueue, 1, Len(InsnQueue)) = InsnQueue
  BY <1>1, SubSeqFull
<1>5. SubSeq(InsnQueue, Len(InsnQueue) + 1, Len(InsnQueue)) = <<>>
  BY <1>1, SubSeqEmpty
<1>6. QED BY <1>3, <1>4, <1>5

LEMMA FetchHandOver ==
  ASSUME BInv, Worker, calm, Fetch
  PROVE  Told' /\ AtRest' /\ Ages'
<1>1. /\ UNCHANGED <<hpc, insns, Running>>
      /\ UNCHANGED <<CountStore, IsWaitingForWorker>>
      /\ wpc = "fetch" /\ wpc' = "convert"
  BY WorkerCalls DEF Fetch
<1>0. Ages' /\ (Fresh' <=> Fresh)
  <2>1. UNCHANGED <<hpc, insns, nreq, CountStore>> /\ HandOver
    BY WorkerCalls DEF Fetch, bridgeVars, BInv
  <2>2. QED BY <2>1, AgesKept
<1>2. ASSUME InsnQueue = <<>>
      PROVE  batch' = <<>> /\ InsnQueue' = <<>> /\ InstructionErrors' = InstructionErrors
  <2>1. \A i \in DOMAIN InsnQueue : InsnQueue[i].kind # "bad"
    BY <1>2
  <2>2. QED BY <1>2, <2>1, FetchAll DEF BInv
<1>3. AtRest'
  BY <1>1, <1>2 DEF BInv, HandOver, AtRest, Cleared
<1>4. ASSUME NEW c \in Clients, Queued(insns[c]) PROVE Fetched(insns[c])'
  <2>1. \A i \in DOMAIN InsnQueue : InsnQueue[i].kind # "bad"
    BY <1>4 DEF BInv, HandOver, NoBad, Queued
  <2>2. QED BY <1>0, <1>1, <1>4, <2>1, FetchAll DEF BInv, Queued, Fetched
<1>5. ASSUME NEW c \in Clients, Processed(insns[c]) PROVE Processed(insns[c])'
  BY <1>1, <1>2, <1>5 DEF Processed, Counted, ErrorsOf, Failed
<1>6. \A c \in Clients : ~Fetched(insns[c]) /\ ~Converted(insns[c])
  BY <1>1 DEF Fetched, Converted
<1>7. Told'
  BY <1>1, <1>4, <1>5, <1>6 DEF BInv, HandOver, Told
<1>8. QED BY <1>0, <1>3, <1>7

\* Merging with nothing.
LEMMA MergeNothing ==
  ASSUME NEW f, f = [i \in DOMAIN f |-> f[i]], NEW g, DOMAIN g = {}
  PROVE  Merge(f, g) = f /\ Merge(g, f) = f
BY DEF Merge

LEMMA ConvertHandOver ==
  ASSUME BInv, Worker, calm, Convert
  PROVE  Told' /\ AtRest' /\ Ages'
<1>1. /\ UNCHANGED <<hpc, insns, Running>>
      /\ UNCHANGED <<InsnQueue, batch, CountStore, IsWaitingForWorker>>
      /\ wpc = "convert" /\ wpc' = "simulate"
  BY WorkerCalls DEF Convert
<1>0. Ages' /\ (Fresh' <=> Fresh)
  <2>1. UNCHANGED <<hpc, insns, nreq, CountStore>> /\ HandOver
    BY WorkerCalls DEF Convert, bridgeVars, BInv
  <2>2. QED BY <2>1, AgesKept
<1>2. InstructionErrors' = Merge(InstructionErrors, ErrorsOf(batch))
  BY DEF Convert, ErrorsOf, Failed
<1>3. \A q : ErrorsOf(q) = [i \in DOMAIN ErrorsOf(q) |-> ErrorsOf(q)[i]]
  BY DEF ErrorsOf
<1>4. Empty = [i \in DOMAIN Empty |-> Empty[i]] /\ DOMAIN Empty = {}
  BY DEF Empty
<1>5. DOMAIN ErrorsOf(<<>>) = {}
  BY DEF ErrorsOf, Failed
<1>6. AtRest'
  BY <1>1, <1>2, <1>4, <1>5, MergeNothing DEF BInv, HandOver, AtRest, Cleared
<1>7. ASSUME NEW c \in Clients, Fetched(insns[c]) PROVE Converted(insns[c])'
  <2>1. InstructionErrors' = ErrorsOf(insns[c])
    <3>1. InstructionErrors = Empty /\ batch = insns[c]
      BY <1>7 DEF Fetched
    <3>2. Merge(Empty, ErrorsOf(insns[c])) = ErrorsOf(insns[c])
      BY <1>3, <1>4, MergeNothing
    <3>3. QED BY <3>1, <3>2, <1>2
  <2>2. QED BY <1>0, <1>1, <1>7, <2>1 DEF Fetched, Converted, ErrorsOf, Failed
<1>8. ASSUME NEW c \in Clients, Processed(insns[c]) PROVE Processed(insns[c])'
  <2>1. InstructionErrors' = ErrorsOf(insns[c])
    <3>1. InstructionErrors = ErrorsOf(insns[c]) /\ batch = <<>>
      BY <1>8 DEF Processed
    <3>2. Merge(ErrorsOf(insns[c]), ErrorsOf(<<>>)) = ErrorsOf(insns[c])
      BY <1>3, <1>5, MergeNothing
    <3>3. QED BY <3>1, <3>2, <1>2
  <2>2. QED BY <1>1, <1>8, <2>1 DEF Processed, Counted, ErrorsOf, Failed
<1>9. \A c \in Clients : ~Queued(insns[c]) /\ ~Converted(insns[c])
  BY <1>1 DEF Queued, Converted
<1>10. Told'
  BY <1>1, <1>7, <1>8, <1>9 DEF BInv, HandOver, Told
<1>11. QED BY <1>0, <1>6, <1>10

\* What CountStore holds after a batch was simulated.
LEMMA SimulateCounts ==
  ASSUME Simulate, batch \in Seq(InstType)
  PROVE  /\ \A i \in Simulated(batch) :
              LET k == SourceIndex(batch, i)
              IN  /\ k \in DOMAIN CountStore' /\ CountStore'[k].inst = batch[i]
                  /\ \A p \in CountStore'[k].pressed :
                       p = batch[i] \/ (k \in DOMAIN CountStore /\ p \in CountStore[k].pressed)
         /\ \A k \in DOMAIN CountStore' :
              (\A i \in Simulated(batch) : k # SourceIndex(batch, i))
                => k \in DOMAIN CountStore /\ CountStore'[k] = CountStore[k]
         /\ batch = <<>> => /\ DOMAIN CountStore' = DOMAIN CountStore
                            /\ \A k \in DOMAIN CountStore : CountStore'[k] = CountStore[k]
<1>0. PICK under \in SUBSET Simulated(batch) :
        CountStore' =
          Merge([k \in {SourceIndex(batch, i) : i \in Simulated(batch)} |->
                   Listened(CountStore, batch, k, under)],
                CountStore)
  BY DEF Simulate
<1> DEFINE I == {SourceIndex(batch, i) : i \in Simulated(batch)}
           new == [k \in I |-> Listened(CountStore, batch, k, under)]
<1>1. /\ CountStore' = Merge(new, CountStore) /\ DOMAIN new = I
      /\ \A k \in I : new[k] = Listened(CountStore, batch, k, under)
  BY <1>0
<1>2. ASSUME NEW i \in Simulated(batch), NEW k, k = SourceIndex(batch, i)
      PROVE  /\ k \in DOMAIN CountStore' /\ CountStore'[k].inst = batch[i]
             /\ \A p \in CountStore'[k].pressed :
                  p = batch[i] \/ (k \in DOMAIN CountStore /\ p \in CountStore[k].pressed)
  <2>1. \A m \in Simulated(batch) : SourceIndex(batch, m) = k => m = i
    BY <1>2, SourceIndexFacts
  <2>2. i = CHOOSE m \in Simulated(batch) : SourceIndex(batch, m) = k
    BY <1>2, <2>1
  <2>3. k \in I
    BY <1>2
  <2> DEFINE old == IF k \in DOMAIN CountStore THEN CountStore[k].pressed ELSE {}
  <2>4. Listened(CountStore, batch, k, under)
          = [inst |-> batch[i], pressed |-> IF i \in under THEN {batch[i]} ELSE old]
    BY <2>2 DEF Listened
  <2> HIDE DEF I, new
  <2>5. /\ k \in DOMAIN CountStore'
        /\ CountStore'[k] = [inst |-> batch[i],
                             pressed |-> IF i \in under THEN {batch[i]} ELSE old]
    BY <1>1, <2>3, <2>4 DEF Merge
  <2>6. QED BY <2>5
<1>3. ASSUME NEW k \in DOMAIN CountStore', \A i \in Simulated(batch) : k # SourceIndex(batch, i)
      PROVE  k \in DOMAIN CountStore /\ CountStore'[k] = CountStore[k]
  <2>1. k \notin I
    BY <1>3
  <2> HIDE DEF I, new
  <2>2. QED BY <1>1, <1>3, <2>1 DEF Merge
<1>4. ASSUME batch = <<>>
      PROVE  /\ DOMAIN CountStore' = DOMAIN CountStore
             /\ \A k \in DOMAIN CountStore : CountStore'[k] = CountStore[k]
  <2>1. I = {}
    BY <1>4 DEF Simulated
  <2> HIDE DEF I, new
  <2>2. QED BY <1>1, <2>1 DEF Merge
<1>5. QED BY <1>2, <1>3, <1>4

\* A batch is simulated for a call in progress, or empty.
LEMMA SimulateFor ==
  ASSUME BInv, calm, wpc = "simulate", batch # <<>>
  PROVE  \E c \in Clients : hpc[c] # "idle" /\ Converted(insns[c])
<1>1. PICK c \in Clients : hpc[c] \notin {"idle", "shutdown", "finish"}
  BY DEF BInv, HandOver, AtRest, Cleared
<1>2. hpc[c] \in {"arm", "wait", "respond"}
  BY <1>1 DEF BInv, TypeInv, TypeOK, HandlerPCs, HandOver, NotTold
<1>3. Queued(insns[c]) \/ Fetched(insns[c]) \/ Converted(insns[c]) \/ Processed(insns[c])
  BY <1>2 DEF BInv, HandOver, Told
<1>4. Converted(insns[c])
  BY <1>3 DEF Queued, Fetched, Processed
<1>5. QED BY <1>1, <1>4

LEMMA SimulateHandOver ==
  ASSUME BInv, Worker, calm, Simulate
  PROVE  Told' /\ AtRest' /\ Ages'
<1>1. /\ UNCHANGED <<hpc, insns, Running, nreq>>
      /\ UNCHANGED <<InsnQueue, InstructionErrors, IsWaitingForWorker>>
      /\ wpc = "simulate" /\ wpc' = "complete" /\ batch' = <<>>
      /\ batch \in Seq(InstType) /\ nreq \in Nat
  BY WorkerCalls DEF Simulate, BInv, TypeInv, TypeOK
<1>2. AtRest'
  BY <1>1 DEF BInv, HandOver, AtRest, Cleared
<1>3. ASSUME NEW c \in Clients, Converted(insns[c]), hpc[c] # "idle"
      PROVE  /\ Processed(insns[c])'
             /\ \A k \in DOMAIN CountStore' : \A p \in CountStore'[k].pressed :
                  p.req \in 0 .. nreq
  <2>1. batch = insns[c] /\ Fresh
    BY <1>3 DEF Converted
  <2>2. \A i \in DOMAIN batch : batch[i].req = nreq
    BY <1>3, <2>1 DEF BInv, HandOver, Ages
  <2>3. Simulated(batch) \subseteq DOMAIN batch
    BY DEF Simulated
  <2>4. \A x \in 0 .. (nreq - 1) : x \in 0 .. nreq /\ x < nreq
    BY <1>1
  <2>5. \A k \in DOMAIN CountStore : \A p \in CountStore[k].pressed :
          p.req \in 0 .. nreq /\ p.req < nreq
    BY <2>1, <2>4 DEF Fresh
  <2>6. ASSUME NEW i \in Simulated(batch), NEW k, k = SourceIndex(batch, i)
        PROVE  /\ k \in DOMAIN CountStore' /\ EntryOf(CountStore'[k], batch[i])
               /\ \A p \in CountStore'[k].pressed : p.req \in 0 .. nreq
    <3>1. /\ k \in DOMAIN CountStore' /\ CountStore'[k].inst = batch[i]
          /\ \A p \in CountStore'[k].pressed :
               p = batch[i] \/ (k \in DOMAIN CountStore /\ p \in CountStore[k].pressed)
      BY <1>1, <2>6, SimulateCounts
    <3>2. batch[i].req = nreq /\ nreq \in 0 .. nreq
      BY <1>1, <2>2, <2>3
    <3>3. QED BY <3>1, <3>2, <2>5 DEF EntryOf
  <2>7. Counted(insns[c])'
    BY <1>1, <2>1, <2>6 DEF Counted
  <2>8. Processed(insns[c])'
    BY <1>1, <1>3, <2>7 DEF Converted, Processed, ErrorsOf, Failed
  <2>9. ASSUME NEW k \in DOMAIN CountStore',
               \A i \in Simulated(batch) : k # SourceIndex(batch, i)
        PROVE  \A p \in CountStore'[k].pressed : p.req \in 0 .. nreq
    BY <1>1, <2>5, <2>9, SimulateCounts
  <2>10. QED BY <2>6, <2>8, <2>9
<1>4. ASSUME batch = <<>>
      PROVE  /\ DOMAIN CountStore' = DOMAIN CountStore
             /\ \A k \in DOMAIN CountStore : CountStore'[k] = CountStore[k]
  BY <1>1, <1>4, SimulateCounts
<1>5. ASSUME NEW c \in Clients, Processed(insns[c]) PROVE Processed(insns[c])'
  <2>1. batch = <<>>
    BY <1>5 DEF Processed
  <2>2. Counted(insns[c])'
    BY <1>1, <1>4, <1>5, <2>1 DEF Processed, Counted
  <2>3. QED BY <1>1, <1>5, <2>2 DEF Processed, ErrorsOf, Failed
<1>6. \A c \in Clients : ~Queued(insns[c]) /\ ~Fetched(insns[c])
  BY <1>1 DEF Queued, Fetched
<1>7. Told'
  BY <1>1, <1>3, <1>5, <1>6 DEF BInv, HandOver, Told
<1>8. \A k \in DOMAIN CountStore' : \A p \in CountStore'[k].pressed : p.req \in 0 .. nreq
  <2>1. CASE batch = <<>>
    BY <1>4, <2>1 DEF BInv, HandOver, Ages
  <2>2. CASE batch # <<>>
    <3>1. PICK c \in Clients : hpc[c] # "idle" /\ Converted(insns[c])
      BY <1>1, <2>2, SimulateFor
    <3>2. QED BY <1>3, <3>1
  <2>3. QED BY <2>1, <2>2
<1>9. Ages'
  BY <1>1, <1>8 DEF BInv, HandOver, Ages
<1>10. QED BY <1>2, <1>7, <1>9

LEMMA CompleteHandOver ==
  ASSUME BInv, Worker, calm, Complete
  PROVE  Told' /\ AtRest' /\ Ages'
<1>1. /\ UNCHANGED <<hpc, insns, Running>>
      /\ UNCHANGED <<InsnQueue, batch, InstructionErrors, CountStore>>
      /\ wpc \in {"complete", "last"}
  BY WorkerCalls DEF Complete
<1>0. Ages' /\ (Fresh' <=> Fresh)
  <2>1. UNCHANGED <<hpc, insns, nreq, CountStore>> /\ HandOver
    BY WorkerCalls DEF Complete, bridgeVars, BInv
  <2>2. QED BY <2>1, AgesKept
<1>2. AtRest'
  BY <1>1 DEF BInv, HandOver, AtRest, Cleared
<1>3. \A c \in Clients : /\ Processed(insns[c]) => Processed(insns[c])'
                         /\ ~Queued(insns[c]) /\ ~Fetched(insns[c]) /\ ~Converted(insns[c])
  BY <1>1 DEF Queued, Fetched, Converted, Processed, Counted, ErrorsOf, Failed
<1>4. Told'
  BY <1>1, <1>3 DEF BInv, HandOver, Told
<1>5. QED BY <1>0, <1>2, <1>4

LEMMA NextHandOver ==
  ASSUME BInv, [Next]_vars, calm'
  PROVE  HandOver'
<1>1. ASSUME NEW c \in Clients, NEW r \in Requests[c], Call(c, r) PROVE HandOver'
  BY <1>1, CallHandOver
<1>2. ASSUME NEW c \in Clients, Handler(c) PROVE HandOver'
  <2>1. calm
    BY <1>2 DEF Handler, SignalShutdown, Push, SignalInput, Arm, Wake, Respond, Finish
  <2>2. QED
    BY <1>2, <2>1, SignalShutdownHandOver, PushHandOver, SignalInputHandOver,
       ArmHandOver, RespondHandOver, FinishHandOver DEF Handler
<1>3. CASE Worker
  <2>1. calm
    BY <1>3 DEF Worker, InputAvailable, CheckRunning, Fetch, Convert, Simulate, Complete
  <2>2. OneCall' /\ NoBad' /\ NotTold'
    BY <1>3, <2>1, WorkerCalls
  <2>3. Told' /\ AtRest' /\ Ages'
    BY <1>3, <2>1, StartHandOver, FetchHandOver, ConvertHandOver, SimulateHandOver,
       CompleteHandOver DEF Worker
  <2>4. QED BY <2>2, <2>3 DEF HandOver
<1>4. CASE \/ ServerLoop \/ Destroy \/ UNCHANGED vars
  <2>1. UNCHANGED <<bridgeVars, hpc, insns, wpc, batch, nreq, calm, response>>
    BY <1>4 DEF ServerLoop, Destroy, vars
  <2>2. HandOver
    BY <2>1 DEF BInv
  <2>3. /\ Cleared' <=> Cleared
        /\ \A c \in Clients : /\ Queued(insns[c])' <=> Queued(insns[c])
                              /\ Fetched(insns[c])' <=> Fetched(insns[c])
                              /\ Converted(insns[c])' <=> Converted(insns[c])
                              /\ Processed(insns[c])' <=> Processed(insns[c])
    BY <2>1 DEF Cleared, bridgeVars, Queued, Fetched, Converted, Processed, Counted,
                Fresh, ErrorsOf, Failed
  <2>8. Ages' /\ (Fresh' <=> Fresh)
    BY <2>1, <2>2, AgesKept DEF bridgeVars
  <2>4. OneCall' /\ NoBad' /\ AtRest'
    BY <2>1, <2>2, <2>3 DEF HandOver, OneCall, NoBad, AtRest
  <2>5. NotTold'
    BY <2>1, <2>2, <2>3, <2>8 DEF HandOver, NotTold, bridgeVars
  <2>6. Told'
    BY <2>1, <2>2, <2>3 DEF HandOver, Told, bridgeVars
  <2>7. QED BY <2>8, <2>4, <2>5, <2>6 DEF HandOver
<1>5. QED BY <1>1, <1>2, <1>3, <1>4 DEF Next

-----------------------------------------------------------------------------
(* The responses.                                                          *)

\* What the two properties say of one response.
Exact(r) == /\ r.counts # <<>> => \A i \in Simulated(r.insns) :
                 \E e \in r.counts[SourceIndex(r.insns, i) + 1] : EntryOf(e, r.insns[i])
            /\ \A i \in DOMAIN r.errors : i + 1 \in Faulty(r.insns)
                                          /\ r.errors[i] = r.insns[i+1]
            /\ r.status = "ok" => Faulty(r.insns) = {}

LEMMA ExactResponses ==
  CalmResponseExact /\ ErrorsExact <=> (calm => \A c \in Clients : Exact(response[c]))
BY DEF CalmResponseExact, ErrorsExact, Exact, EntryOf

\* An answer without counts and errors is exact unless it claims success for
\* instructions.
LEMMA EmptyAnswer ==
  ASSUME NEW st, NEW q, st = "ok" => q = <<>>
  PROVE  Exact([status |-> st, insns |-> q, counts |-> <<>>, errors |-> Empty])
BY DEF Exact, Empty, Faulty

LEMMA RespondExact ==
  ASSUME BInv, NEW c \in Clients, Respond(c), calm
  PROVE  Exact(response'[c])
<1> DEFINE q == insns[c]
<1>1. Processed(q)
  BY DEF Respond, BInv, HandOver, Told
<1>2. /\ q \in Seq(InstType) /\ Len(q) \in Nat /\ DOMAIN q = 1 .. Len(q)
      /\ \A i \in DOMAIN q : q[i].kind \in Kind /\ q[i].kind # "bad"
  <2>1. q \in Seq(InstType)
    BY DEF BInv, TypeInv, TypeOK
  <2>2. \A i \in DOMAIN q : q[i].kind # "bad"
    BY DEF BInv, HandOver, NoBad
  <2>3. \A i \in DOMAIN q : q[i] \in InstType
    BY <2>1
  <2>4. QED BY <2>1, <2>2, <2>3 DEF InstType
<1>3. /\ InstructionErrors = ErrorsOf(q) /\ DOMAIN ErrorsOf(q) = Failed(q)
      /\ \A i \in Failed(q) : ErrorsOf(q)[i] = q[i+1]
  BY <1>1 DEF Processed, ErrorsOf
<1>4. DOMAIN Empty = {}
  BY DEF Empty
<1>5. \A i \in DOMAIN q : q[i].kind = "err" => i - 1 \in Failed(q)
  BY <1>2 DEF Failed
<1>6. CASE InstructionErrors # Empty
  <2>1. response'[c] = [status |-> "invalid", insns |-> q, counts |-> <<>>,
                        errors |-> InstructionErrors]
    BY <1>6 DEF Respond, Answer, BInv, TypeInv
  <2>2. \A i \in Failed(q) : i + 1 \in Faulty(q)
    BY <1>2 DEF Failed, Faulty
  <2>3. QED BY <2>1, <2>2, <1>3 DEF Exact
<1>7. CASE InstructionErrors = Empty
  <2>1. response'[c] = [status |-> "ok", insns |-> q, counts |-> CountsFor(q),
                        errors |-> Empty]
    BY <1>7 DEF Respond, Answer, BInv, TypeInv
  <2>2. Failed(q) = {}
    BY <1>3, <1>4, <1>7
  <2>3. \A i \in DOMAIN q : q[i].kind \in {"plain", "skip"}
    BY <1>2, <1>5, <2>2 DEF Kind
  <2>4. Faulty(q) = {}
    BY <2>3 DEF Faulty
  <2>5. ASSUME NEW i \in Simulated(q)
        PROVE  \E e \in CountsFor(q)[SourceIndex(q, i) + 1] : EntryOf(e, q[i])
    <3> DEFINE k == SourceIndex(q, i)
    <3>1. k \in Nat /\ k + 1 \in DOMAIN q
      BY <1>2, SourceIndexFacts
    <3>2. k \in DOMAIN CountStore /\ EntryOf(CountStore[k], q[i])
      BY <1>1 DEF Processed, Counted
    <3>3. CountsFor(q)[k+1] = {CountStore[k]}
      <4>1. (k + 1) - 1 = k
        BY <3>1
      <4> HIDE DEF k
      <4>2. QED BY <3>1, <3>2, <4>1 DEF CountsFor
    <3>4. QED BY <3>2, <3>3
  <2>6. QED BY <2>1, <2>4, <2>5, <1>4 DEF Exact
<1>8. QED BY <1>6, <1>7

LEMMA NextResponses ==
  ASSUME BInv, [Next]_vars
  PROVE  CalmResponseExact' /\ ErrorsExact'
<1> SUFFICES ASSUME calm' PROVE \A c \in Clients : Exact(response'[c])
  BY DEF CalmResponseExact, ErrorsExact, Exact, EntryOf
<1>0. calm => \A c \in Clients : Exact(response[c])
  BY ExactResponses DEF BInv
<1>1. ASSUME NEW c \in Clients, NEW r \in Requests[c], Call(c, r)
      PROVE  \A d \in Clients : Exact(response'[d])
  <2>1. calm
    BY <1>1 DEF Call
  <2>2. CASE Running
    <3>1. /\ response'[c] = NoResponse
          /\ \A d \in Clients : d # c => response'[d] = response[d]
      BY <1>1, <2>2 DEF Call, BInv, TypeInv
    <3>2. Exact(NoResponse)
      BY DEF NoResponse, Exact
    <3>3. QED BY <1>0, <2>1, <3>1, <3>2
  <2>3. CASE ~Running
    <3>1. response'[c] = [status |-> "unavailable", insns |-> insns'[c], counts |-> <<>>,
                          errors |-> Empty]
      BY <1>1, <2>3 DEF Call, Answer, BInv, TypeInv
    <3>2. \A d \in Clients : d # c => response'[d] = response[d]
      BY <1>1, <2>3 DEF Call, Answer, BInv, TypeInv
    <3>3. Exact(response'[c])
      BY <3>1, EmptyAnswer
    <3>4. QED BY <1>0, <2>1, <3>2, <3>3
  <2>4. QED BY <2>2, <2>3
<1>2. ASSUME NEW c \in Clients, SignalShutdown(c)
      PROVE  \A d \in Clients : Exact(response'[d])
  <2>1. calm
    BY <1>2 DEF SignalShutdown
  <2>2. response'[c] = [status |-> "ok", insns |-> insns[c], counts |-> <<>>,
                        errors |-> Empty]
    BY <1>2 DEF SignalShutdown, Answer, BInv, TypeInv
  <2>3. \A d \in Clients : d # c => response'[d] = response[d]
    BY <1>2 DEF SignalShutdown, Answer, BInv, TypeInv
  <2>4. insns[c] = <<>>
    BY <1>2, <2>1 DEF SignalShutdown, BInv, ShutdownEmpty
  <2>5. Exact(response'[c])
    BY <2>2, <2>4, EmptyAnswer
  <2>6. QED BY <1>0, <2>1, <2>3, <2>5
<1>3. ASSUME NEW c \in Clients, Respond(c)
      PROVE  \A d \in Clients : Exact(response'[d])
  <2>1. calm
    BY <1>3 DEF Respond
  <2>2. \A d \in Clients : d # c => response'[d] = response[d]
    BY <1>3 DEF Respond, Answer, BInv, TypeInv
  <2>3. QED BY <1>0, <1>3, <2>1, <2>2, RespondExact
<1>4. ASSUME UNCHANGED <<calm, response>>
      PROVE  \A d \in Clients : Exact(response'[d])
  BY <1>0, <1>4
<1>5. QED
  BY <1>1, <1>2, <1>3, <1>4
     DEF Next, Handler, Push, SignalInput, Arm, Wake, Finish, Worker, InputAvailable,
         CheckRunning, Fetch, Convert, Simulate, Complete, ServerLoop, Destroy, vars

LEMMA NextShutdown ==
  ASSUME BInv, [Next]_vars
  PROVE  ShutdownEmpty'
<1>0. hpc \in [Clients -> HandlerPCs] /\ insns \in [Clients -> Seq(InstType)]
  BY DEF BInv, TypeInv, TypeOK
<1>1. ASSUME NEW c \in Clients, NEW r \in Requests[c], Call(c, r) PROVE ShutdownEmpty'
  <2>1. \A d \in Clients : d # c => hpc'[d] = hpc[d] /\ insns'[d] = insns[d]
    BY <1>0, <1>1 DEF Call, Goto
  <2>2. hpc'[c] = "shutdown" => r = <<>>
    BY <1>0, <1>1 DEF Call, Goto
  <2>3. insns'[c] = InstsOf(nreq + 1, r)
    BY <1>0, <1>1 DEF Call
  <2>4. InstsOf(nreq + 1, <<>>) = <<>>
    BY DEF InstsOf
  <2>5. QED BY <2>1, <2>2, <2>3, <2>4 DEF BInv, ShutdownEmpty
<1>2. ASSUME NEW c \in Clients, Handler(c) PROVE ShutdownEmpty'
  <2>1. UNCHANGED insns /\ \E l : Goto(c, l) /\ l # "shutdown"
    BY <1>2 DEF Handler, SignalShutdown, Push, SignalInput, Arm, Wake, Respond, Finish
  <2>2. QED BY <1>0, <2>1 DEF BInv, ShutdownEmpty, Goto
<1>3. ASSUME UNCHANGED <<hpc, insns>> PROVE ShutdownEmpty'
  BY <1>3 DEF BInv, ShutdownEmpty
<1>4. QED
  BY <1>1, <1>2, <1>3
     DEF Next, Worker, InputAvailable, CheckRunning, Fetch, Convert, Simulate, Complete,
         ServerLoop, Destroy, vars

LEMMA InitBInv == Init => BInv
<1> SUFFICES ASSUME Init PROVE BInv
  OBVIOUS
<1>1. HandOver
  <2>1. DOMAIN CountStore = {}
    BY DEF Init, Empty
  <2>2. Ages
    BY <2>1 DEF Init, Ages
  <2>3. QED BY <2>2 DEF Init, HandOver, OneCall, NoBad, NotTold, Told, AtRest, Cleared
<1>2. \A c \in Clients : Exact(response[c])
  <2>1. \A c \in Clients : response[c] = NoResponse
    BY DEF Init
  <2>2. Exact(NoResponse)
    BY DEF NoResponse, Exact
  <2>3. QED BY <2>1, <2>2
<1>3. ShutdownEmpty
  BY DEF Init, ShutdownEmpty
<1>4. QED BY <1>1, <1>2, <1>3, InitTypeInv, ExactResponses DEF BInv

LEMMA NextBInv == BInv /\ [Next]_vars => BInv'
<1> SUFFICES ASSUME BInv, [Next]_vars PROVE BInv'
  OBVIOUS
<1>1. TypeInv'
  BY NextTypeInv DEF BInv
<1>2. calm' => HandOver'
  BY NextHandOver
<1>3. QED BY <1>1, <1>2, NextResponses, NextShutdown DEF BInv

\* A response to a call made while the bridge is idle has the cycles of the
\* simulated instructions of its request, in their order, and no pressure flag
\* that another instruction of the request has set.
THEOREM CountsAreExact == Spec => []CalmResponseExact
<1>1. BInv => CalmResponseExact
  BY DEF BInv
<1>2. QED BY <1>1, InitBInv, NextBInv, PTL DEF Spec

\* Such a response reports errors of its own request, at their places, and
\* none is lost.
THEOREM ErrorsAreExact == Spec => []ErrorsExact
<1>1. BInv => ErrorsExact
  BY DEF BInv
<1>2. QED BY <1>1, InitBInv, NextBInv, PTL DEF Spec

\* The two flags make the worker's writes and the handler's reads of the
\* results exclude each other for such calls: the rounds the worker makes
\* until DoneHandlingInput is set again find nothing to write.
THEOREM ResultsNotRaced == Spec => []NoDataRace
<1>1. ASSUME BInv PROVE NoDataRace
  <2>1. SUFFICES ASSUME calm, NEW c \in Clients, hpc[c] = "respond" PROVE ~Writing
    BY DEF NoDataRace
  <2>2. InsnQueue = <<>> /\ batch = <<>>
    BY <1>1, <2>1 DEF BInv, HandOver, Told, Processed
  <2>3. NumGood(<<>>) = 0 /\ Len(<<>>) = 0
    <3>1. <<>> \in Seq(InstType) /\ Len(<<>>) = 0 /\ DOMAIN <<>> = {}
      OBVIOUS
    <3>2. QED BY <3>1, AllGood
  <2>4. QED BY <2>2, <2>3 DEF Writing
<1>2. QED BY <1>1, InitBInv, NextBInv, PTL DEF Spec
=============================================================================
