------------------------------ MODULE QemuSystem ------------------------------
(***************************************************************************)
(* QEMU with the relay plugin (plugins/qemu-broker/Qemu/Plugin.cpp)        *)
(* connected to the QEMU broker by a socket, and the test client           *)
(* (utils/qemu-broker-client.cpp) that may have used the broker before.    *)
(*                                                                         *)
(* QEMU calls the plugin when it translates a TB, when it executes one and *)
(* at every memory access; one virtual CPU runs.  A message is written as  *)
(* a whole; a process that is killed may leave its last one incomplete,    *)
(* and the broker drops that.                                              *)
(***************************************************************************)
EXTENDS QemuBroker, BinaryRegions

CONSTANTS
  Args,          \* the arguments of the broker plugin, in order
  Manifests,     \* manifest files by name
  OnlyMainCode,  \* -only-main-code
  CodeEnd,       \* end of the code of the main executable
  ClientMsgs,    \* messages the test client may send
  MaxRun,        \* bound: TBs the guest executes
  SockSize       \* bound: messages the socket holds

\* A message of the test client is one that the broker knows.
ASSUME SystemAssumption ==
  /\ \A b \in Blocks :
       b = [addr |-> b.addr, width |-> b.width, parts |-> b.parts, mem |-> b.mem]
  /\ \A m \in ClientMsgs : m.kind \in {"metadata", "tb", "exec", "end"}
  /\ OnlyMainCode \in BOOLEAN
  /\ CodeEnd \in Nat /\ MaxRun \in Nat /\ SockSize \in Nat \ {0, 1}

-----------------------------------------------------------------------------
(* How the broker is set up.                                               *)

\* Options: the defaults, and what each argument changes.  An argument for the
\* regions that names no mode keeps the mode of an earlier one.
DefaultOptions == [manifest |-> <<>>, mode |-> "trim", maxConn |-> 1]
ParseArg(o, a) ==
  CASE a.opt = "-max-accepted-connection" -> [o EXCEPT !.maxConn = a.value]
    [] a.opt = "-binary-regions"          -> [o EXCEPT !.manifest = <<a.value>>]
    [] a.opt = "-trim-binary-regions"     -> [o EXCEPT !.manifest = <<a.value>>,
                                                       !.mode = "trim"]
    [] a.opt = "-mark-binary-regions"     -> [o EXCEPT !.manifest = <<a.value>>,
                                                       !.mode = "mark"]
    [] OTHER                              -> o
Options == FoldLeft(ParseArg, DefaultOptions, Args)

\* QemuBroker::QemuBroker: a manifest that is in error is reported and ignored.
BinRegions == IF Options.manifest = <<>> THEN Failure
              ELSE Create(Manifests[Options.manifest[1]])

\* The constants of QemuBroker are what the constructor sets.
ASSUME ConstructorAssumption ==
  /\ MaxConn = Options.maxConn
  /\ Mode = IF BinRegions.ok THEN Options.mode ELSE "none"
  /\ Regions = BinRegions.regions

-----------------------------------------------------------------------------
VARIABLES
  server,         \* the broker process: "off", "up", "failed" or "down"
  relay,          \* the QEMU process: "off", "on", "exited", "killed" or
                  \* "refused"
  sock,           \* messages written and not read, by client
  backlog,        \* clients waiting to be accepted
  client,         \* the client recvWorker is serving
  CodeStartAddr,  \* whether the relay has asked for it and sent it
  RegInfoRegistry,\* QEMU has told how to read the program counter
  translated,     \* TBs with an exec callback, at the address they are reported
                  \* at; their callback data is their index
  unused,         \* the TB translated last was not executed yet
  CurrentExecTB,  \* none or one: the TB that is executing and its accesses
  accesses,       \* the accesses this execution still has to make, in order
  executed,       \* history: the executions the relay was told of
  handled         \* history: the executions the broker was told of by the relay

codeVars == <<CodeStartAddr, RegInfoRegistry, translated>>
relayVars == <<relay, codeVars, unused,
               CurrentExecTB, accesses, executed>>
sockVars == <<sock, backlog>>
sysVars == <<vars, relayVars, sockVars, client, handled, server>>

Metadata == [kind |-> "metadata"]
TranslatedBlock(i, b) == [kind |-> "tb", index |-> i, block |-> b]
ExecTB(i, mem) == [kind |-> "exec", index |-> i, mem |-> mem]
EndSignal == [kind |-> "end"]

SysInit ==
  /\ Init
  /\ server = "off"
  /\ relay = "off"
  /\ sock = [c \in {"relay", "test"} |-> <<>>]
  /\ backlog = <<>>
  /\ client = "none"
  /\ CodeStartAddr = FALSE
  /\ RegInfoRegistry = FALSE
  /\ translated = <<>>
  /\ unused = FALSE
  /\ CurrentExecTB = <<>>
  /\ accesses = <<>>
  /\ executed = <<>>
  /\ handled = <<>>

-----------------------------------------------------------------------------
(* The relay.                                                              *)

\* Write messages; a full socket blocks the process.
Send(msgs) == /\ Len(sock["relay"]) + Len(msgs) <= SockSize
              /\ sock' = [sock EXCEPT !["relay"] = @ \o msgs]

\* qemu_plugin_install: connect to the broker, register the callbacks.
Install ==
  /\ relay = "off"
  /\ IF server = "up" THEN relay' = "on" /\ backlog' = Append(backlog, "relay")
                      ELSE relay' = "refused" /\ UNCHANGED backlog
  /\ UNCHANGED <<vars, codeVars, unused, CurrentExecTB,
                 accesses, executed, sock, client, handled, server>>

\* Code outside of the main executable.  A TB is inside or outside as a whole.
Filtered(b) == OnlyMainCode /\ (b.addr < LoadAddr \/ b.addr > CodeEnd)

\* tbTranslateCallback, with sendCodeStartAddr: QEMU translates what it is about
\* to execute.  A TB of filtered code gets no index and no callbacks.  Then the
\* register that holds the program counter is asked for, if it is not known;
\* while it cannot be read, a TB is reported at the address that is its index.
TbTranslateCallback(b) ==
  LET start == IF CodeStartAddr THEN <<>> ELSE <<Metadata>>
      i == Len(translated)
      Reported(known) == IF known THEN b ELSE [b EXCEPT !.addr = i]
  IN  /\ relay = "on" /\ accesses = <<>> /\ ~unused
      /\ Len(translated) < NumTBs
      /\ CodeStartAddr' = TRUE
      /\ unused' = ~Filtered(b)
      /\ \/ /\ Filtered(b)
            /\ Send(start)
            /\ UNCHANGED <<translated, RegInfoRegistry>>
         \/ /\ ~Filtered(b)
            /\ RegInfoRegistry' \in {RegInfoRegistry, TRUE}
            /\ translated' = Append(translated, Reported(RegInfoRegistry'))
            /\ Send(Append(start, TranslatedBlock(i, Last(translated'))))
      /\ UNCHANGED <<vars, relay, CurrentExecTB, accesses, executed, backlog,
                     client, handled, server>>

\* What flushPreviousTBExec writes.
PreviousExecTB == [k \in DOMAIN CurrentExecTB |->
                     ExecTB(CurrentExecTB[k].index, CurrentExecTB[k].mem)]

\* Mutant: the accesses of the previous TB are not cleared.
StartExecTBKeeps(i) ==
  CurrentExecTB' = <<[index |-> i, mem |-> IF CurrentExecTB = <<>> THEN {}
                                           ELSE CurrentExecTB[1].mem]>>

\* CurrentExecTB is reset and set up for the TB with index i.
StartExecTB(i) == CurrentExecTB' = <<[index |-> i, mem |-> {}]>>

\* The raw instructions of a TB that access memory, in order.
Accesses(b) ==
  LET upTo[r \in 0 .. Len(b.parts)] ==
        IF r = 0 THEN <<>>
        ELSE IF r - 1 \in b.mem THEN Append(upTo[r-1], r - 1) ELSE upTo[r-1]
  IN  upTo[Len(b.parts)]

\* tbExecCallback: the previous execution is sent, a new one starts.
TbExecCallback(i) ==
  LET b == translated[i + 1]
  IN  /\ relay = "on" /\ accesses = <<>>
      /\ Len(executed) < MaxRun
      /\ i + 1 \in DOMAIN translated
      /\ unused => i + 1 = Len(translated)
      /\ Send(PreviousExecTB)
      /\ StartExecTB(i)
      /\ accesses' = Accesses(b)
      /\ unused' = FALSE
      /\ executed' = Append(executed, ExecTB(i, b.mem))
      /\ UNCHANGED <<vars, relay, codeVars, backlog, client,
                     handled, server>>

\* onMemoryOps: an access is added to the current execution.
OnMemoryOps ==
  /\ relay = "on" /\ accesses # <<>>
  /\ CurrentExecTB' = <<[CurrentExecTB[1] EXCEPT !.mem = @ \cup {Head(accesses)}]>>
  /\ accesses' = Tail(accesses)
  /\ UNCHANGED <<vars, relay, codeVars, unused, executed,
                 sockVars, client, handled, server>>

\* onPluginExit: send the last execution and the end signal, close.
OnPluginExit ==
  /\ relay = "on" /\ accesses = <<>>
  /\ Send(PreviousExecTB \o <<EndSignal>>)
  /\ CurrentExecTB' = [k \in DOMAIN CurrentExecTB |-> [index |-> 0, mem |-> {}]]
  /\ relay' = "exited"
  /\ UNCHANGED <<vars, codeVars, unused, accesses, executed,
                 backlog, client, handled, server>>

\* The QEMU process is killed; its last message may be cut short.
Kill ==
  /\ relay = "on"
  /\ relay' = "killed"
  /\ \/ UNCHANGED sock
     \/ /\ sock["relay"] # <<>>
        /\ sock' = [sock EXCEPT !["relay"] = Front(@)]
  /\ UNCHANGED <<vars, codeVars, unused, CurrentExecTB,
                 accesses, executed, backlog, client, handled, server>>

\* The test client, before QEMU is started: connect, send one message, close.
TestClient(m) ==
  /\ relay = "off" /\ server = "up" /\ conns = 0 /\ backlog = <<>>
  /\ backlog' = <<"test">>
  /\ sock' = [sock EXCEPT !["test"] = <<m>>]
  /\ UNCHANGED <<vars, relayVars, client, handled, server>>

Guest == \/ Install
         \/ \E b \in Blocks : TbTranslateCallback(b)
         \/ \E i \in TBIndex : TbExecCallback(i)
         \/ OnMemoryOps \/ OnPluginExit \/ Kill
         \/ \E m \in ClientMsgs : TestClient(m)

-----------------------------------------------------------------------------
(* The broker, with its messages coming out of the socket.                 *)

\* QemuBroker::QemuBroker, with initializeServer: a socket that cannot be bound
\* ends the process; otherwise the receiver thread is started.
Construct ==
  /\ server = "off"
  /\ server' \in {"up", "failed"}
  /\ UNCHANGED <<vars, relayVars, sockVars, client, handled>>

\* ~QemuBroker, after MCAWorker::run: waits for the receiver thread to return.
Destroy ==
  /\ server = "up" /\ wpc = "done" /\ rpc = "exit"
  /\ server' = "down"
  /\ UNCHANGED <<vars, relayVars, sockVars, client, handled>>

AcceptClient ==
  /\ backlog # <<>>
  /\ Accept
  /\ client' = Head(backlog)
  /\ backlog' = Tail(backlog)
  /\ UNCHANGED <<relayVars, sock, handled, server>>

\* read returns 0: the client has closed the socket and everything was read.
ReadEOF ==
  /\ client # "none"
  /\ sock[client] = <<>>
  /\ client = "relay" => relay \in {"exited", "killed"}
  /\ CloseConnection
  /\ client' = "none"
  /\ UNCHANGED <<relayVars, sockVars, handled, server>>

\* One complete message is read and handled.
HandleMessage(m) ==
  CASE m.kind = "metadata" -> HandleMetadata
    [] m.kind = "tb"       -> AddTB(m.index, m.block)
    [] m.kind = "exec"     -> \/ TbExecInvalid(m.index)
                              \/ TbExec(m.index, m.mem)
    [] m.kind = "end"      -> TbExecEnd

ReadMessage ==
  /\ client # "none"
  /\ sock[client] # <<>>
  /\ HandleMessage(Head(sock[client]))
  /\ sock' = [sock EXCEPT ![client] = Tail(@)]
  /\ handled' = IF client = "relay" /\ Head(sock[client]).kind = "exec"
                THEN Append(handled, Head(sock[client])) ELSE handled
  /\ UNCHANGED <<relayVars, backlog, client, server>>

\* The steps that have to do with the queue only.
InBroker(A) ==
  /\ server = "up"
  /\ A
  /\ UNCHANGED <<relayVars, sockVars, client, handled, server>>

RecvWorker == AcceptClient \/ ReadEOF \/ ReadMessage
              \/ InBroker(Enqueue) \/ InBroker(Notify)
FetchRegion == \/ InBroker(FetchEmpty) \/ InBroker(FetchSelect)
               \/ InBroker(FetchDeliver) \/ InBroker(Convert)

SysNext == \/ Guest \/ Construct \/ Destroy
           \/ RecvWorker \/ FetchRegion \/ InBroker(SpuriousWakeup)

\* When the threads of the broker can take a step.
RecvEnabled == \/ rpc = "accept" /\ backlog # <<>> /\ conns < MaxAccept
               \/ rpc \in {"enqueue", "notify"}
               \/ /\ rpc = "read"
                  /\ \/ sock[client] # <<>>
                     \/ client = "relay" => relay \in {"exited", "killed"}
FetchEnabled == server = "up" /\ wpc \in {"fetch", "deliver", "convert"}

DestroyEnabled == server = "up" /\ wpc = "done" /\ rpc = "exit"

\* The threads run: weak fairness, with the enabling conditions written out.
\* Nothing is assumed of QEMU and of the test client.
SysFairness ==
  /\ []<>~RecvEnabled \/ []<><<RecvWorker>>_sysVars
  /\ []<>~FetchEnabled \/ []<><<FetchRegion>>_sysVars
  /\ []<>~DestroyEnabled \/ []<><<Destroy>>_sysVars

SysSpec == SysInit /\ [][SysNext]_sysVars
SysFairSpec == SysSpec /\ SysFairness

-----------------------------------------------------------------------------
(* Properties.                                                             *)

\* The executions among the first k messages of s, and among all of them.
ExecsUpTo(s) ==
  LET upTo[k \in 0 .. Len(s)] ==
        IF k = 0 THEN <<>>
        ELSE IF s[k].kind = "exec" THEN Append(upTo[k-1], s[k]) ELSE upTo[k-1]
  IN  upTo
Execs(s) == ExecsUpTo(s)[Len(s)]

\* Every execution is sent once, in order and with exactly its own memory
\* accesses, although it is written only when the next one starts; and the
\* broker holds its TB, or is sent it first.  A QEMU that is killed loses a
\* tail of them.
RelayFaithful ==
  LET q == sock["relay"]
      sent == handled \o Execs(q)
      now == [k \in DOMAIN CurrentExecTB |->
                ExecTB(CurrentExecTB[k].index,
                       CurrentExecTB[k].mem \cup Range(accesses))]
  IN  /\ IsPrefix(sent, executed)
      /\ relay = "on" => executed = sent \o now
      /\ relay = "exited" => executed = sent
      /\ \A k \in DOMAIN q : q[k].kind = "exec" =>
           \/ /\ client = "relay"
              /\ TBs[q[k].index].raw = translated[q[k].index + 1]
           \/ \E j \in 1 .. (k - 1) : /\ q[j].kind = "tb"
                                      /\ q[j].index = q[k].index

\* When QEMU exits, fetchRegion comes to return -1, after every execution has
\* reached the worker: no message, wake-up or slice is lost on the way.  The
\* broker is then destroyed, if it has had all its connections; if not, its
\* destructor waits for a client.
ExitStops ==
  relay = "exited" ~> /\ wpc = "done"
                      /\ handled = executed
                      /\ delivered = trace
                      /\ conns = MaxConn => server = "down"
=============================================================================
