----------------------------- MODULE MCMCADLSUnit -----------------------------
(***************************************************************************)
(* Instances of MCADLSUnit for TLC.                                        *)
(***************************************************************************)
EXTENDS MCADLSUnit

CONSTANTS a, b  \* two addresses

Kind(ld, st, ldb, stb, md, mdst) ==
  [ld |-> ld, st |-> st, ldb |-> ldb, stb |-> stb, md |-> md, mdst |-> mdst]

\* Instructions without traced access: a load, a store and a load barrier.
PlainKinds == {Kind(TRUE,  FALSE, FALSE, FALSE, NoMD, FALSE),
               Kind(FALSE, TRUE,  FALSE, FALSE, NoMD, FALSE),
               Kind(TRUE,  FALSE, TRUE,  FALSE, NoMD, FALSE)}

\* Instructions with traced accesses: loads of either address, a store, a load
\* that the trace says stores; without: a load barrier, and an instruction that
\* loads, stores and is a barrier on both sides.
TracedKinds == {Kind(TRUE,  FALSE, FALSE, FALSE, a, FALSE),
                Kind(TRUE,  FALSE, FALSE, FALSE, b, FALSE),
                Kind(FALSE, TRUE,  FALSE, FALSE, a, TRUE),
                Kind(TRUE,  FALSE, FALSE, FALSE, a, TRUE),
                Kind(TRUE,  FALSE, TRUE,  FALSE, NoMD, FALSE),
                Kind(TRUE,  TRUE,  TRUE,  TRUE,  NoMD, FALSE)}

\* Loads and stores of either address.
AccessKinds == {Kind(TRUE,  FALSE, FALSE, FALSE, a, FALSE),
                Kind(TRUE,  FALSE, FALSE, FALSE, b, FALSE),
                Kind(FALSE, TRUE,  FALSE, FALSE, a, TRUE)}
=============================================================================
