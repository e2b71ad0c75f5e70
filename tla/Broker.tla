-------------------------------- MODULE Broker --------------------------------
(***************************************************************************)
(* What a broker promises the worker (Brokers/Broker.h): fetch and         *)
(* fetchRegion put the next instructions of the stream into the worker's   *)
(* buffer, in order, never past the end of a region ("the last instruction *)
(* of a Region will not be in the middle of MCIS"), and return -1 only     *)
(* when no instruction is left.                                            *)
(***************************************************************************)
EXTENDS Integers, Sequences

CONSTANT BufferSize   \* the size of MCIS

VARIABLES
  stream,  \* the instructions known so far; x.last: x is the last of a region
  given,   \* how many of them the worker has been given
  ended    \* fetch has returned -1

\* A batch of n instructions may be handed out after the first g.
Deliverable(s, g, n) == /\ n <= BufferSize
                        /\ g + n <= Len(s)
                        /\ \A k \in (g + 1) .. (g + n - 1) : ~s[k].last

contractVars == <<stream, given, ended>>

ContractInit == given = 0 /\ ended = FALSE

\* The program under analysis executes; what was known does not change.
Produce == /\ ~ended
           /\ Len(stream') >= Len(stream)
           /\ SubSeq(stream', 1, Len(stream)) = stream
           /\ UNCHANGED <<given, ended>>

\* fetch or fetchRegion returns a number of instructions.
Fetch == /\ ~ended
         /\ given' >= given
         /\ Deliverable(stream, given, given' - given)
         /\ UNCHANGED <<stream, ended>>

\* fetch or fetchRegion returns -1.
FetchEnd == /\ ~ended
            /\ given = Len(stream)
            /\ ended' = TRUE
            /\ UNCHANGED <<stream, given>>

ContractSpec == ContractInit /\ [][Produce \/ Fetch \/ FetchEnd]_contractVars
=============================================================================
