----------------------------- MODULE MCQemuBroker -----------------------------
(***************************************************************************)
(* Instances of QemuBroker for TLC.  Blocks are given by their start       *)
(* address, the MCInsts their raw instructions decode to, and the raw      *)
(* instructions that access memory; instructions are one byte wide unless  *)
(* said otherwise.                                                         *)
(***************************************************************************)
EXTENDS QemuBroker

Block(a, p, m) == [addr |-> a, width |-> 1, parts |-> p, mem |-> m]
Ones(k) == [i \in 1 .. k |-> 1]

NoRegions == <<>>

\* One block, as large as the batch.
OneBlock == {Block(10, Ones(3), {})}
=============================================================================
