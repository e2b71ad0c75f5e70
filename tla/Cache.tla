-------------------------------- MODULE Cache --------------------------------
(***************************************************************************)
(* The cache hierarchy (CustomHWUnits/Cache.h, buildCache of               *)
(* MCAWorker.cpp).  A unit is a value: its table of sets of ways, the next *)
(* free way of every set, its clock and its statistics.  Loads and stores  *)
(* are operators that take the units of one pipeline and return them       *)
(* changed.  Only addresses are kept: the simulation has no data.          *)
(***************************************************************************)
EXTENDS Integers, Sequences, SequencesExt, FiniteSetsExt

CONSTANTS
  LineSize,       \* bytes in a cache line (64 in the code)
  AccessModulus,  \* 2^32 in the code: lastAccess is an unsigned
  NumSets,        \* by unit: size / line size / ways
  NumWays,        \* by unit
  UnitLatency,    \* by unit
  MemoryLatency

Units == {"L1I", "L1D", "L2", "L3"}

ASSUME CacheAssumption ==
  /\ LineSize \in Nat \ {0} /\ AccessModulus \in Nat \ {0}
  /\ NumSets \in [Units -> Nat \ {0}]
  /\ NumWays \in [Units -> Nat \ {0}]
  /\ UnitLatency \in [Units -> Nat]
  /\ MemoryLatency \in Nat

\* A unit as its constructor leaves it: the table is filled with address 0.
NewUnit(u) ==
  LET sets == 0 .. (NumSets[u] - 1)
  IN  [table    |-> [s \in sets |-> [w \in 1 .. NumWays[u] |-> [line |-> 0, last |-> 0]]],
       nextFree |-> [s \in sets |-> 0],
       clock    |-> 0,
       misses   |-> 0,
       loads    |-> 0,
       stores   |-> 0]

\* buildCache: the units an access to the L1 cache top goes through; a level
\* that is not enabled is replaced by the next one, the last one by memory.
Level(u, enabled) == IF u \in enabled THEN <<u>> ELSE <<>>
Chain(top, enabled) ==
  Level(top, enabled) \o Level("L2", enabled) \o Level("L3", enabled)

CachelineAddress(a) == a - (a % LineSize)
SetIndex(u, a) == (CachelineAddress(a) \div LineSize) % NumSets[u]

\* The ways that hold the address itself: getEntry does not round it down to
\* its line, while the ways hold the addresses of lines.
Entries(u, c, a) ==
  LET ways == c.table[SetIndex(u, a)]
  IN  {w \in DOMAIN ways : ways[w].line = a}
Hit(u, c, a) == Entries(u, c, a) # {}

\* Mutant: the most recently used way is evicted.
EvictNewest(u, c, a) ==
  LET ways == c.table[SetIndex(u, a)]
      free == c.nextFree[SetIndex(u, a)]
  IN  IF free < NumWays[u] THEN free + 1
      ELSE Max({w \in DOMAIN ways : \A v \in DOMAIN ways : ways[w].last >= ways[v].last})

\* evictEntry: the next way never handed out, else the least recently used
\* one (the last of them if there are several).
EvictEntry(u, c, a) ==
  LET ways == c.table[SetIndex(u, a)]
      free == c.nextFree[SetIndex(u, a)]
  IN  IF free < NumWays[u] THEN free + 1
      ELSE Max({w \in DOMAIN ways : \A v \in DOMAIN ways : ways[w].last <= ways[v].last})

\* What load and store do to the unit itself: the entry is found or made, and
\* becomes the most recently used one.  The clock has twice as many bits as
\* lastAccess.
Touch(u, c, a) ==
  LET s    == SetIndex(u, a)
      hit  == Hit(u, c, a)
      free == ~hit /\ c.nextFree[s] < NumWays[u]
      w    == IF hit THEN Min(Entries(u, c, a)) ELSE EvictEntry(u, c, a)
      line == IF hit THEN c.table[s][w].line ELSE CachelineAddress(a)
  IN  [c EXCEPT !.clock = @ + 1,
                !.nextFree[s] = IF free THEN @ + 1 ELSE @,
                !.table[s][w] = [line |-> line, last |-> (c.clock + 1) % AccessModulus]]

\* The position in the chain of the unit that answers a load, Len + 1 for
\* memory: a miss loads from the next level.
Answers(units, chain, a) ==
  Min({k \in DOMAIN chain : Hit(chain[k], units[chain[k]], a)} \cup {Len(chain) + 1})

LatencyOf(chain, k) == IF k > Len(chain) THEN MemoryLatency ELSE UnitLatency[chain[k]]

\* The cycles of a load that is answered at position last: the latencies up to
\* there, of three units and memory at most.
CyclesOf(chain, last) ==
  LET Part(k) == IF k <= last THEN LatencyOf(chain, k) ELSE 0
  IN  Part(1) + Part(2) + Part(3) + Part(4)

LoadCycles(units, chain, a) == CyclesOf(chain, Answers(units, chain, a))

\* Mutant: a miss is counted, but the next level is not asked.
LoadFirstOnly(units, chain, a) ==
  [u \in DOMAIN units |->
     IF chain # <<>> /\ u = chain[1]
     THEN [Touch(u, units[u], a) EXCEPT
             !.loads = @ + 1,
             !.misses = IF Hit(u, units[u], a) THEN @ ELSE @ + 1]
     ELSE units[u]]

\* CacheUnit::load.  OverflowableCount::inc adds one whatever its argument is,
\* so the count of load cycles is the number of loads.
Load(units, chain, a) ==
  LET last == Answers(units, chain, a)
  IN  [u \in DOMAIN units |->
         IF \E k \in DOMAIN chain : chain[k] = u /\ k <= last
         THEN [Touch(u, units[u], a) EXCEPT
                 !.loads = @ + 1,
                 !.misses = IF Hit(u, units[u], a) THEN @ ELSE @ + 1]
         ELSE units[u]]

\* CacheUnit::store writes through all levels.
Store(units, chain, a) ==
  [u \in DOMAIN units |->
     IF \E k \in DOMAIN chain : chain[k] = u
     THEN [Touch(u, units[u], a) EXCEPT !.stores = @ + 1]
     ELSE units[u]]
=============================================================================
