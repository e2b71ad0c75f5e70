------------------------ MODULE MCMCADFetchDelayStage ------------------------
(***************************************************************************)
(* Instances of the front end for TLC: lines of four bytes, caches of one  *)
(* set with two ways (one in the first level of data).                     *)
(***************************************************************************)
EXTENDS MCADFetchDelayStage

Inst(a, s, b) == [addr |-> a, size |-> s, branch |-> b, md |-> TRUE]

\* A branch and the instruction after it in one line, a branch that leaves a
\* footprint in the upper half of the history register, an instruction of
\* unknown address.
FewInsts == {Inst(4, 2, TRUE), Inst(6, 2, FALSE), Inst(131076, 4, TRUE),
             [addr |-> 16, size |-> 4, branch |-> FALSE, md |-> FALSE]}

\* Both predictors and none, and different levels of the cache hierarchy.
FewConfigs ==
  {[bpu |-> "Naive",   caches |-> {},                        maxIdle |-> -1],
   [bpu |-> "Naive",   caches |-> {"L1I", "L1D", "L2"},      maxIdle |-> 1],
   [bpu |-> "None",    caches |-> {"L1I", "L1D", "L2", "L3"}, maxIdle |-> -1],
   [bpu |-> "Skylake", caches |-> {"L1D", "L3"},             maxIdle |-> 0]}

OneConfig == {[bpu |-> "None", caches |-> {"L1I"}, maxIdle |-> 0]}

OneSet == [u \in Units |-> 1]
TwoWays == [u \in Units |-> IF u = "L1D" THEN 1 ELSE 2]
ShortLatency == [u \in Units |-> 1]
=============================================================================
