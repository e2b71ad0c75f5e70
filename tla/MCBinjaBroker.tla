----------------------------- MODULE MCBinjaBroker -----------------------------
(***************************************************************************)
(* Instances of BinjaBroker for TLC.                                       *)
(***************************************************************************)
EXTENDS BinjaBroker

CONSTANTS c1, c2  \* clients

Shutdown == <<>>
P == "plain"

\* One client sends instructions of every kind that can be disassembled; the
\* other one interferes with one that cannot, and with shutdown.
AllRequests ==
  [c \in Clients |->
     IF c = c1 THEN {<<P, "skip", P>>, <<"err", "err">>}
               ELSE {<<"bad">>, Shutdown}]

\* Requests of one and two instructions that can be simulated.
PlainRequests == [c \in Clients |-> {<<P>>, <<P, P>>}]
=============================================================================
