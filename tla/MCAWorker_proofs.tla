--------------------------- MODULE MCAWorker_proofs ---------------------------
(***************************************************************************)
(* Theorems about the worker's loop: the statistics it prints are those of *)
(* the pipeline that exists, the instructions in the pipeline carry their  *)
(* own metadata tokens, and the timelines it prints are complete.          *)
(***************************************************************************)
EXTENDS MCAWorker, SequenceTheorems, WellFoundedInduction, TLAPS

-----------------------------------------------------------------------------
(* Recursive functions.                                                    *)

\* A nonempty set of natural numbers has a least element.
LEMMA NatMin ==
  ASSUME NEW S, S \subseteq Nat, S # {}
  PROVE  \E m \in S : \A k \in S : m <= k
<1>1. IsWellFoundedOn(OpToRel(<, Nat), Nat)
  BY NatLessThanWellFounded
<1>2. PICK x \in S : \A y \in S : ~(<<y, x>> \in OpToRel(<, Nat))
  BY <1>1, WFMin
<1>3. \A y \in S : ~(y < x)
  BY <1>2 DEF OpToRel
<1>4. QED BY <1>3

\* A function on lo .. n with values in S, given by its first value and by the
\* step G from each value to the next.
IsRecursion(f, lo, n, S, a, G) ==
  /\ f \in [lo .. n -> S]
  /\ \A k \in lo .. n : f[k] = IF k = lo THEN a ELSE G[k][f[k-1]]

\* There is such a function.
LEMMA RecursionExists ==
  ASSUME NEW lo \in Nat, NEW n \in Nat, NEW S, NEW a \in S, NEW G \in [1 .. n -> [S -> S]]
  PROVE  \E f : IsRecursion(f, lo, n, S, a, G)
<1> DEFINE P(m) == \E f \in [lo .. m -> S] :
                     \A k \in lo .. m : f[k] = IF k = lo THEN a ELSE G[k][f[k-1]]
           B == {m \in Nat : m >= lo /\ m <= n /\ ~P(m)}
<1> SUFFICES ASSUME ~P(n) PROVE FALSE
  BY DEF IsRecursion
<1>1. lo <= n
  <2> SUFFICES ASSUME n < lo PROVE FALSE
    OBVIOUS
  <2>1. lo .. n = {}
    OBVIOUS
  <2>2. [k \in lo .. n |-> a] \in [lo .. n -> S]
    OBVIOUS
  <2>3. P(n)
    BY <2>1, <2>2
  <2> QED
    BY <2>3
<1>2. n \in B
  BY <1>1
<1>3. PICK m \in B : \A k \in B : m <= k
  <2>1. B \subseteq Nat /\ B # {}
    BY <1>2
  <2> HIDE DEF B
  <2> QED
    BY <2>1, NatMin
<1>4. m \in Nat /\ m >= lo /\ m <= n /\ ~P(m)
  OBVIOUS
<1>5. CASE m = lo
  <2> DEFINE f == [k \in lo .. m |-> a]
  <2>1. f \in [lo .. m -> S] /\ \A k \in lo .. m : f[k] = IF k = lo THEN a ELSE G[k][f[k-1]]
    BY <1>5
  <2> QED
    BY <1>4, <2>1
<1>6. CASE m # lo
  <2>1. m - 1 \in Nat /\ m - 1 >= lo /\ m - 1 <= n /\ m \in 1 .. n
    BY <1>4, <1>6
  <2>2. P(m - 1)
    <3> HIDE DEF P
    <3>1. m - 1 \notin B
      BY <1>3, <2>1
    <3> QED
      BY <2>1, <3>1
  <2>3. PICK f \in [lo .. (m - 1) -> S] :
               \A k \in lo .. (m - 1) : f[k] = IF k = lo THEN a ELSE G[k][f[k-1]]
    BY <2>2
  <2> DEFINE g == [k \in lo .. m |-> IF k = m THEN G[m][f[m-1]] ELSE f[k]]
  <2>4. G[m][f[m-1]] \in S
    BY <2>1
  <2>5. g \in [lo .. m -> S]
    BY <1>4, <2>4
  <2>6. ASSUME NEW k \in lo .. m PROVE g[k] = IF k = lo THEN a ELSE G[k][g[k-1]]
    <3>1. CASE k = m
      BY <1>4, <1>6, <2>1, <3>1
    <3>2. CASE k # m
      <4>1. k \in lo .. (m - 1) /\ g[k] = f[k]
        BY <1>4, <3>2
      <4>2. k # lo => g[k-1] = f[k-1]
        BY <1>4, <3>2
      <4> QED
        BY <2>3, <4>1, <4>2
    <3> QED
      BY <3>1, <3>2
  <2> QED
    BY <1>4, <2>5, <2>6
<1> QED
  BY <1>5, <1>6

\* If the first value is in S and each step stays in S, all values are.
LEMMA RecursionType ==
  ASSUME NEW lo \in Nat, NEW n \in Nat, NEW S, NEW f, f[lo] \in S,
         \A k \in (lo + 1) .. n : f[k-1] \in S => f[k] \in S
  PROVE  \A k \in lo .. n : f[k] \in S
<1> DEFINE B == {m \in Nat : m >= lo /\ m <= n /\ f[m] \notin S}
<1> SUFFICES ASSUME B # {} PROVE FALSE
  OBVIOUS
<1>1. PICK m \in B : \A k \in B : m <= k
  <2>1. B \subseteq Nat
    OBVIOUS
  <2> HIDE DEF B
  <2> QED
    BY <2>1, NatMin
<1>2. m # lo /\ m \in (lo + 1) .. n /\ m - 1 \in Nat /\ m - 1 >= lo
  OBVIOUS
<1>3. m - 1 \notin B
  BY <1>1, <1>2
<1> QED
  BY <1>1, <1>2, <1>3

-----------------------------------------------------------------------------
(* Statistics.                                                             *)

\* The caches given on the command line start with a first level that the
\* pipeline uses: then keeping its statistics keeps those of the levels below it.
FirstLevelInUse ==
  \A in \in Inputs : \/ in.caches = {}
                     \/ "L1i" \in in.caches
                     \/ "L1d" \in in.caches /\ in.outOfOrder
                     \/ in.caches = {"L1d"}

\* The inductive invariant behind StatsAreCurrent: a statistics pointer that is
\* set is set to the pipeline that exists, and every pipeline created for this
\* input owns, and points at, the same ones.
StatsInv ==
  /\ input \in Inputs
  /\ stats = [s \in Statistics |-> stats[s]]
  /\ MCAPipeline.number \in Nat
  /\ \A s \in Statistics :
       stats[s] # 0 => /\ stats[s] = MCAPipeline.number
                       /\ s \in MCAPipeline.owns
                       /\ s \in CreatePipeline(input).points

\* What createPipeline points a statistics member at is owned by the pipeline
\* it returns.
LEMMA PointsOwned ==
  ASSUME FirstLevelInUse, NEW in \in Inputs
  PROVE  CreatePipeline(in).points \subseteq CreatePipeline(in).owns
<1>1. in.caches \subseteq Levels /\ in.outOfOrder \in BOOLEAN
  BY WorkerAssumption DEF InputOK
<1>2. CASE in.outOfOrder
  <2>1. /\ CreatePipeline(in).points = {"FetchDelay"} \cup in.caches
        /\ CreatePipeline(in).owns = {"FetchDelay"} \cup KeptCaches(in.caches)
    BY <1>2 DEF CreatePipeline, DefaultPipeline
  <2>2. in.caches = {} \/ Kept1(in.caches) # {}
    BY <1>2 DEF FirstLevelInUse, Kept1
  <2>3. in.caches \subseteq KeptCaches(in.caches)
    BY <1>1, <2>2 DEF KeptCaches, Kept1, Levels
  <2> QED
    BY <2>1, <2>3
<1>3. CASE ~in.outOfOrder
  <2> DEFINE c == in.caches \ {"L1d"}
  <2>1. /\ CreatePipeline(in).points = c
        /\ CreatePipeline(in).owns = {"FetchDelay"} \cup KeptCaches(c)
    BY <1>3 DEF CreatePipeline, InOrderPipeline
  <2>2. c = {} \/ Kept1(c) # {}
    BY <1>3 DEF FirstLevelInUse, Kept1
  <2>3. c \subseteq KeptCaches(c)
    BY <1>1, <2>2 DEF KeptCaches, Kept1, Levels
  <2> QED
    BY <2>1, <2>3
<1> QED
  BY <1>1, <1>2, <1>3

\* Resetting the pipeline replaces the owner and the pointers together.
LEMMA ResetStats ==
  ASSUME FirstLevelInUse, StatsInv, ResetPipeline, input' = input
  PROVE  StatsInv'
<1> DEFINE p == CreatePipeline(input)
           n == MCAPipeline.number + 1
<1>1. input \in Inputs /\ p.points \subseteq p.owns
  BY PointsOwned DEF StatsInv
<1>2. /\ MCAPipeline' = [number |-> n, owns |-> p.owns]
      /\ stats' = [s \in Statistics |-> IF s \in p.points THEN n ELSE stats[s]]
  BY DEF ResetPipeline
<1>3. CreatePipeline(input)' = p
  BY DEF CreatePipeline, DefaultPipeline, InOrderPipeline
<1> HIDE DEF p
<1>4. n \in Nat /\ MCAPipeline'.number = n /\ MCAPipeline'.owns = p.owns
  BY <1>2 DEF StatsInv
<1>5. stats' = [s \in Statistics |-> stats'[s]]
  BY <1>2
<1>6. ASSUME NEW s \in Statistics, stats'[s] # 0
      PROVE  stats'[s] = n /\ s \in p.points
  <2>1. stats'[s] = IF s \in p.points THEN n ELSE stats[s]
    BY <1>2
  <2> QED
    BY <1>6, <2>1 DEF StatsInv, p
<1>7. ASSUME NEW s \in Statistics, stats'[s] # 0
      PROVE  /\ stats'[s] = MCAPipeline'.number
             /\ s \in MCAPipeline'.owns
             /\ s \in CreatePipeline(input)'.points
  BY <1>1, <1>3, <1>4, <1>6, <1>7
<1> QED
  BY <1>1, <1>4, <1>5, <1>7 DEF StatsInv

\* Every step keeps StatsInv.
LEMMA StatsStep == FirstLevelInUse /\ StatsInv /\ [Next]_vars => StatsInv'
<1> SUFFICES ASSUME FirstLevelInUse, StatsInv, [Next]_vars PROVE StatsInv'
  OBVIOUS
<1>1. ASSUME UNCHANGED <<input, unitVars>> PROVE StatsInv'
  BY <1>1 DEF StatsInv, unitVars, CreatePipeline, DefaultPipeline, InOrderPipeline
<1>2. CASE Main
  <2>1. input' = input /\ (UNCHANGED resetVars \/ ResetPipeline)
    BY <1>2 DEF Main
  <2> QED
    BY <1>1, <2>1, ResetStats DEF resetVars
<1>3. CASE FetchAsm
  BY <1>1, <1>3 DEF FetchAsm, AfterFetch, pipelineVars
<1>4. ASSUME NEW n \in 0 .. MaxNumProcessedInst, FetchStream(n) PROVE StatsInv'
  BY <1>1, <1>4 DEF FetchStream, AfterFetch, pipelineVars
<1>5. CASE FetchStreamEnd
  BY <1>1, <1>5 DEF FetchStreamEnd, AfterFetch, pipelineVars
<1>6. CASE Convert
  BY <1>1, <1>6 DEF Convert, pipelineVars
<1>7. CASE Dispatch \/ Redispatch
  BY <1>1, <1>7 DEF Dispatch, Redispatch
<1>8. CASE Retire
  BY <1>1, <1>8 DEF Retire
<1>9. CASE Pause \/ Finish \/ PipelineError
  BY <1>1, <1>9 DEF Pause, Finish, PipelineError, pipelineVars
<1>10. CASE Report
  <2>1. input' = input /\ (UNCHANGED resetVars \/ ResetPipeline)
    BY <1>10 DEF Report
  <2> QED
    BY <1>1, <2>1, ResetStats DEF resetVars
<1>11. CASE UNCHANGED vars
  BY <1>1, <1>11 DEF vars, pipelineVars
<1> QED
  BY <1>2, <1>3, <1>4, <1>5, <1>6, <1>7, <1>8, <1>9, <1>10, <1>11 DEF Next

\* For every input and every number of regions: if the first cache level is in
\* use, every statistics pointer that is set when the worker prints belongs to
\* the pipeline that exists, however often the pipeline was reset.  Without the
\* hypothesis it is false: an in-order pipeline given an L1d and an L2 cache
\* keeps a pointer to the L2 statistics that nothing owns.
THEOREM StatsAreCurrent == FirstLevelInUse => (Spec => []StatsCurrent)
<1> SUFFICES ASSUME FirstLevelInUse PROVE Spec => []StatsCurrent
  OBVIOUS
<1>1. Init => StatsInv
  <2> SUFFICES ASSUME Init PROVE StatsInv
    OBVIOUS
  <2>1. input \in Inputs /\ MCAPipeline = [number |-> 0, owns |-> {}]
        /\ stats = [s \in Statistics |-> 0]
    BY DEF Init
  <2> QED
    BY <2>1 DEF StatsInv
<1>2. StatsInv => StatsCurrent
  BY DEF StatsInv, StatsCurrent
<1>3. StatsInv /\ [Next]_vars => StatsInv'
  BY StatsStep
<1> QED
  BY <1>1, <1>2, <1>3, PTL DEF Spec

-----------------------------------------------------------------------------
(* Tokens.                                                                 *)

\* An mca::Instruction.
Instruction == [obj : Nat, op : STRING, key : Nat, ident : Int]
\* One whose token is that of the MCInst it was made of: the broker numbers
\* tokens from 0 and keys from 1.
Own(g) == {x \in Instruction : x.ident \in 0 .. (g - 1) /\ x.key = x.ident + 1}

\* A copy in the pipeline.
Flying(g) == {x \in [key : Nat, ident : Int, idx : Nat] :
                x.ident \in 0 .. (g - 1) /\ x.key = x.ident + 1}

\* A batch that comes with the tokens of its instructions.
BatchOK(g) ==
  /\ fetched.insts \in Seq([op : STRING, key : Nat])
  /\ \A k \in 1 .. Len(fetched.insts) :
       /\ k \in DOMAIN fetched.MDIndexMap
       /\ fetched.MDIndexMap[k] \in 0 .. (g - 1)
       /\ fetched.insts[k].key = fetched.MDIndexMap[k] + 1

\* The inductive invariant behind IdentifiersAreOwn.  A recycled instruction may
\* carry any token: the invariant says so of RecycledInsts, and of the staged
\* ones that their token has been overwritten.
IdentInv ==
  /\ input \in Inputs
  /\ ~Asm =>
       /\ given \in 0 .. Len(input.insts)
       /\ DOMAIN MDRegistry = 0 .. (given - 1)
       /\ \A t \in 0 .. (given - 1) : MDRegistry[t].key = t + 1
       /\ pc = "convert" => BatchOK(given)
       /\ SrcMgr = [Staging |-> SrcMgr.Staging, TotalCounter |-> SrcMgr.TotalCounter,
                    EOS |-> SrcMgr.EOS]
       /\ SrcMgr.Staging \in Seq(Own(given)) /\ SrcMgr.TotalCounter \in Nat
       /\ RecycledInsts \in SUBSET Instruction
       /\ created \in Nat /\ NumTraceMIs \in Nat
       /\ flight \in Seq(Flying(given))

\* The state of the conversion loop.
Loop(g) == [staging : Seq(Own(g)), recycled : SUBSET Instruction, created : Nat, num : Nat]

\* createInstruction returns an instruction with the opcode and key of this MCInst,
\* whether it is a new one or a recycled one.
LEMMA CreateFacts ==
  ASSUME NEW b, b.recycled \in SUBSET Instruction, b.created \in Nat,
         NEW op \in STRING, NEW key \in Nat
  PROVE  LET c == Create(b, op, key)
         IN  /\ c.i \in Instruction /\ c.i.key = key /\ c.i.op = op
             /\ c.recycled \in SUBSET Instruction /\ c.created \in Nat
<1> DEFINE old == {i \in b.recycled : i.op = op}
           i == CHOOSE x \in old : \A y \in old : x.obj <= y.obj
           c == Create(b, op, key)
<1>1. CASE old = {}
  <2>1. c = [i |-> [obj |-> b.created, op |-> op, key |-> key, ident |-> NoIdentifier],
             recycled |-> b.recycled, created |-> b.created + 1]
    BY <1>1 DEF Create
  <2>2. NoIdentifier \in Int
    BY DEF NoIdentifier
  <2> HIDE DEF c
  <2> QED
    BY <2>1, <2>2 DEF Instruction, c
<1>2. CASE old # {}
  <2>1. c = [i |-> [i EXCEPT !.key = key], recycled |-> b.recycled \ {i},
             created |-> b.created]
    BY <1>2 DEF Create
  <2>2. \E x \in old : \A y \in old : x.obj <= y.obj
    <3> DEFINE D == {x.obj : x \in old}
    <3>1. D \subseteq Nat /\ D # {}
      BY <1>2 DEF Instruction
    <3>2. PICK m \in D : \A k \in D : m <= k
      <4> HIDE DEF D
      <4> QED BY <3>1, NatMin
    <3>3. PICK x \in old : x.obj = m
      OBVIOUS
    <3>4. \A y \in old : y.obj \in D
      OBVIOUS
    <3> QED
      BY <3>2, <3>3, <3>4
  <2>3. i \in old
    BY <2>2
  <2> HIDE DEF i
  <2>4. i \in Instruction /\ i.op = op
    BY <2>3
  <2> DEFINE j == [i EXCEPT !.key = key]
  <2>5. j \in Instruction /\ j.key = key /\ j.op = op
    BY <2>4 DEF Instruction
  <2> HIDE DEF c, j
  <2>6. c.i = j /\ c.recycled = b.recycled \ {i} /\ c.created = b.created
    BY <2>1 DEF j
  <2> QED
    BY <2>5, <2>6 DEF c
<1> QED
  BY <1>1, <1>2

\* What one iteration of the conversion loop does at step k: it appends an
\* instruction made of the k-th MCInst, unless that one is not simulated.
ConvertedOne(b, k, g) ==
  /\ ConvertInst(b, k) \in Loop(g)
  /\ IF Kept(fetched.insts[k].op)
     THEN \E i \in Own(g) : /\ i.key = fetched.insts[k].key /\ i.op = fetched.insts[k].op
                            /\ ConvertInst(b, k).staging = Append(b.staging, i)
     ELSE ConvertInst(b, k) = b

\* One iteration of the conversion loop keeps the types of its state: the
\* instruction it appends has its own token.
LEMMA ConvertFacts ==
  ASSUME ~Asm, NEW g \in Nat, BatchOK(g), NEW b \in Loop(g),
         NEW k \in 1 .. Len(fetched.insts)
  PROVE  ConvertedOne(b, k, g)
<1> DEFINE mci == fetched.insts[k]
           c == Create(b, mci.op, mci.key)
           t == fetched.MDIndexMap[k]
           i == Identify(c.i, fetched.MDIndexMap, k)
           e == [staging |-> Append(b.staging, i),
                 recycled |-> c.recycled, created |-> c.created, num |-> b.num + 1]
<1>1. ConvertInst(b, k) = IF ~Kept(mci.op) THEN b ELSE e
  BY DEF ConvertInst
<1>2. /\ mci \in [op : STRING, key : Nat]
      /\ k \in DOMAIN fetched.MDIndexMap
      /\ t \in 0 .. (g - 1) /\ mci.key = t + 1
  <2> DEFINE M == [op : STRING, key : Nat]
  <2>1. fetched.insts \in Seq(M)
    BY DEF BatchOK
  <2> HIDE DEF M
  <2>2. mci \in M
    BY <2>1
  <2>3. k \in DOMAIN fetched.MDIndexMap /\ t \in 0 .. (g - 1) /\ mci.key = t + 1
    BY DEF BatchOK
  <2> QED
    BY <2>2, <2>3 DEF M
<1>3. /\ b.staging \in Seq(Own(g)) /\ b.recycled \in SUBSET Instruction
      /\ b.created \in Nat /\ b.num \in Nat
  BY DEF Loop
<1>4. mci.op \in STRING /\ mci.key \in Nat
  BY <1>2
<1>5. i = [c.i EXCEPT !.ident = t]
  BY <1>2 DEF Identify, SupportMetadata
<1> HIDE DEF mci
<1>6. /\ c.i \in Instruction /\ c.i.key = mci.key /\ c.i.op = mci.op
      /\ c.recycled \in SUBSET Instruction /\ c.created \in Nat
  BY <1>3, <1>4, CreateFacts
<1> HIDE DEF c, i, t
<1>7. i \in Own(g) /\ i.key = mci.key /\ i.op = mci.op
  BY <1>2, <1>5, <1>6 DEF Own, Instruction
<1>8. Append(b.staging, i) \in Seq(Own(g))
  BY <1>3, <1>7
<1>9. e \in Loop(g) /\ e.staging = Append(b.staging, i)
  BY <1>3, <1>6, <1>8 DEF Loop
<1> HIDE DEF e
<1> QED
  BY <1>1, <1>7, <1>9 DEF ConvertedOne, mci

\* What the loop is before its first iteration and after each of them.
ConvertedAll(g, n) ==
  /\ \A k \in 0 .. n : Converted[k] \in Loop(g)
  /\ Converted[0].staging = SrcMgr.Staging
  /\ \A k \in 1 .. n : Converted[k] = ConvertInst(Converted[k-1], k)

\* So does the whole loop.
LEMMA ConvertedFacts ==
  ASSUME ~Asm, NEW g \in Nat, BatchOK(g), SrcMgr.Staging \in Seq(Own(g)),
         RecycledInsts \in SUBSET Instruction, created \in Nat, NumTraceMIs \in Nat
  PROVE  ConvertedAll(g, Len(fetched.insts))
<1> DEFINE n == Len(fetched.insts)
           a == [staging |-> SrcMgr.Staging, recycled |-> RecycledInsts,
                 created |-> created, num |-> NumTraceMIs]
           S == Loop(g)
           G == [k \in 1 .. n |-> [b \in S |-> ConvertInst(b, k)]]
           f == Converted
<1>1. n \in Nat /\ 0 \in Nat
  BY DEF BatchOK
<1>2. a \in S
  BY DEF Loop
<1>3. \A k \in 1 .. n : \A b \in S : ConvertInst(b, k) \in S
  BY ConvertFacts DEF ConvertedOne
<1>4. f = CHOOSE h : h = [k \in 0 .. n |-> IF k = 0 THEN a ELSE ConvertInst(h[k-1], k)]
  BY DEF Converted
<1> HIDE DEF n, a, S, f
<1>5. G \in [1 .. n -> [S -> S]]
  BY <1>3
<1>6. \A k \in 1 .. n : \A b \in S : G[k][b] = ConvertInst(b, k)
  OBVIOUS
<1> HIDE DEF G
<1>7. PICK h : IsRecursion(h, 0, n, S, a, G)
  BY <1>1, <1>2, <1>5, RecursionExists
<1>8. h = [k \in 0 .. n |-> IF k = 0 THEN a ELSE ConvertInst(h[k-1], k)]
  <2>1. ASSUME NEW k \in 0 .. n
        PROVE  h[k] = IF k = 0 THEN a ELSE ConvertInst(h[k-1], k)
    <3>1. h[k] = IF k = 0 THEN a ELSE G[k][h[k-1]]
      BY <1>7 DEF IsRecursion
    <3>2. k # 0 => k \in 1 .. n /\ k - 1 \in 0 .. n
      BY <1>1
    <3>3. k # 0 => h[k-1] \in S
      BY <1>7, <3>2 DEF IsRecursion
    <3> QED
      BY <1>6, <3>1, <3>2, <3>3
  <2>2. h = [k \in 0 .. n |-> h[k]]
    BY <1>7 DEF IsRecursion
  <2> QED
    BY <2>1, <2>2, Zenon
<1>9. f = [k \in 0 .. n |-> IF k = 0 THEN a ELSE ConvertInst(f[k-1], k)]
  BY <1>4, <1>8, Zenon
<1>10. f[0] \in S
  BY <1>1, <1>2, <1>9
<1>11. ASSUME NEW k \in (0 + 1) .. n, f[k-1] \in S PROVE f[k] \in S
  <2>1. k \in 0 .. n /\ k \in 1 .. n /\ k # 0
    BY <1>1
  <2>2. f[k] = ConvertInst(f[k-1], k)
    BY <1>9, <2>1
  <2> QED
    BY <1>3, <1>11, <2>1, <2>2
<1>12. \A k \in 0 .. n : f[k] \in S
  BY <1>1, <1>10, <1>11, RecursionType
<1>13. f[0] = a
  BY <1>1, <1>9
<1>14. f[0].staging = SrcMgr.Staging
  BY <1>13 DEF a
<1>15. ASSUME NEW k \in 1 .. n PROVE f[k] = ConvertInst(f[k-1], k)
  BY <1>1, <1>9
<1> QED
  BY <1>12, <1>14, <1>15 DEF n, f, S, ConvertedAll

\* What is right about the tokens given so far stays right when there are more.
LEMMA MoreOwn ==
  ASSUME NEW g \in Nat, NEW h \in Nat, g <= h
  PROVE  /\ \A q \in Seq(Own(g)) : q \in Seq(Own(h))
         /\ \A q \in Seq(Flying(g)) : q \in Seq(Flying(h))
<1>1. Own(g) \subseteq Own(h) /\ Flying(g) \subseteq Flying(h)
  BY DEF Own, Flying
<1> DEFINE A == Own(g)
           B == Own(h)
           C == Flying(g)
           D == Flying(h)
<1> HIDE DEF A, B, C, D
<1>2. \A q \in Seq(A) : q \in Seq(B)
  BY <1>1 DEF A, B
<1>3. \A q \in Seq(C) : q \in Seq(D)
  BY <1>1 DEF C, D
<1> QED
  BY <1>2, <1>3 DEF A, B, C, D

\* The fields of the source manager.
SourceShape == SrcMgr = [Staging |-> SrcMgr.Staging, TotalCounter |-> SrcMgr.TotalCounter,
                         EOS |-> SrcMgr.EOS]

\* What follows a fetch leaves the instructions alone.
LEMMA AfterFacts ==
  ASSUME NEW reply, AfterFetch(reply), SourceShape
  PROVE  /\ fetched' = reply
         /\ SourceShape' /\ SrcMgr'.Staging = SrcMgr.Staging
         /\ SrcMgr'.TotalCounter = SrcMgr.TotalCounter
         /\ UNCHANGED <<input, RecycledInsts, created, NumTraceMIs, flight>>
<1> DEFINE e == (SrcMgr.EOS \/ reply.Len < 0 \/ reply.rd)
<1>1. /\ fetched' = reply /\ SrcMgr' = [SrcMgr EXCEPT !.EOS = e]
      /\ UNCHANGED <<input, RecycledInsts, created, NumTraceMIs, flight>>
  BY DEF AfterFetch, pipelineVars
<1> HIDE DEF e
<1>2. SrcMgr' = [Staging |-> SrcMgr.Staging, TotalCounter |-> SrcMgr.TotalCounter,
                 EOS |-> e]
  BY <1>1 DEF SourceShape
<1> QED
  BY <1>1, <1>2 DEF SourceShape

\* A batch from a stream broker comes with its own tokens.
LEMMA FetchIdent ==
  ASSUME IdentInv, NEW n \in 0 .. MaxNumProcessedInst, FetchStream(n)
  PROVE  IdentInv'
<1> DEFINE s == input.insts
           M == [op : STRING, key : Nat]
           I == [k \in 1 .. n |-> [op |-> s[given + k].op, key |-> given + k]]
           X == [k \in 1 .. n |-> given + k - 1]
           end == (n > 0 /\ s[given + n].last)
           name == IF end THEN s[given + n].name ELSE ""
           R == [Len |-> n, rd |-> end, name |-> name, insts |-> I, MDIndexMap |-> X]
           marks(t) == s[t+1].marks
<1>1. /\ ~Asm /\ given + n <= Len(s) /\ given' = given + n
      /\ MDRegistry' = [t \in 0 .. (given + n - 1) |-> [key |-> t + 1, marks |-> marks(t)]]
      /\ AfterFetch(R)
  BY DEF FetchStream
<1>2. /\ input \in Inputs /\ given \in 0 .. Len(s) /\ SourceShape
      /\ SrcMgr.Staging \in Seq(Own(given)) /\ SrcMgr.TotalCounter \in Nat
      /\ RecycledInsts \in SUBSET Instruction
      /\ created \in Nat /\ NumTraceMIs \in Nat /\ flight \in Seq(Flying(given))
  BY <1>1 DEF IdentInv, SourceShape
<1>3. Len(s) \in Nat /\ \A k \in 1 .. Len(s) : s[k].op \in STRING
  <2> DEFINE T == [op : STRING, marks : RegionMarker, last : BOOLEAN, name : STRING]
  <2>1. \A x \in T : x.op \in STRING
    OBVIOUS
  <2>2. s \in Seq(T)
    BY <1>1, <1>2, WorkerAssumption DEF InputOK, Asm
  <2> HIDE DEF T, s
  <2>3. Len(s) \in Nat /\ \A k \in 1 .. Len(s) : s[k] \in T
    BY <2>2
  <2> QED
    BY <2>1, <2>3
<1>5. given \in Nat /\ n \in Nat /\ given' \in Nat /\ given <= given'
      /\ given' \in 0 .. Len(s)
  <2> HIDE DEF s
  <2>1. n \in Nat
    BY WorkerAssumption
  <2>2. given \in Nat /\ given + n <= Len(s) /\ given' = given + n
    <3>1. given \in 0 .. Len(s)
      BY <1>2
    <3> DEFINE l == Len(s)
    <3>2. l \in Nat
      BY <1>3
    <3>3. given \in 0 .. l
      BY <3>1
    <3> HIDE DEF l
    <3>4. given \in Nat
      BY <3>2, <3>3
    <3> QED
      BY <1>1, <3>4
  <2> QED
    BY <1>3, <2>1, <2>2
<1> HIDE DEF R, s, end, name, marks
<1>6. /\ fetched' = R
      /\ SourceShape' /\ SrcMgr'.Staging = SrcMgr.Staging
      /\ SrcMgr'.TotalCounter = SrcMgr.TotalCounter
      /\ UNCHANGED <<input, RecycledInsts, created, NumTraceMIs, flight>>
  BY <1>1, <1>2, AfterFacts
<1>7. /\ SrcMgr'.Staging \in Seq(Own(given')) /\ flight' \in Seq(Flying(given'))
  BY <1>2, <1>5, <1>6, MoreOwn
<1>8. /\ DOMAIN MDRegistry' = 0 .. (given' - 1)
      /\ \A t \in 0 .. (given' - 1) : MDRegistry'[t].key = t + 1
  BY <1>1, <1>5
<1>9. I \in Seq(M)
  <2>1. ASSUME NEW k \in 1 .. n
        PROVE  [op |-> s[given + k].op, key |-> given + k] \in M
    <3>1. given + k \in 1 .. Len(s) /\ given + k \in Nat
      BY <1>1, <1>5
    <3>2. s[given + k].op \in STRING
      BY <1>3, <3>1
    <3> QED
      BY <3>1, <3>2
  <2> HIDE DEF M
  <2>2. I \in [1 .. n -> M] /\ n \in Nat
    BY <1>5, <2>1
  <2> HIDE DEF I
  <2> QED
    BY <2>2
<1>10. Len(I) = n /\ \A k \in 1 .. n : I[k].key = given + k
  BY <1>5
<1>11. DOMAIN X = 1 .. n /\ \A k \in 1 .. n : X[k] = given + k - 1
  BY <1>5
<1>12. fetched'.insts = I /\ fetched'.MDIndexMap = X
  <2> HIDE DEF I, X
  <2> QED BY <1>6 DEF R
<1> HIDE DEF I, X
<1>13. BatchOK(given)'
  <2>1. ASSUME NEW k \in 1 .. n
        PROVE  /\ k \in DOMAIN X /\ X[k] \in 0 .. (given' - 1) /\ I[k].key = X[k] + 1
    BY <1>1, <1>5, <1>10, <1>11
  <2> QED
    BY <1>9, <1>10, <1>12, <2>1 DEF BatchOK
<1>14. Asm' = Asm /\ input' = input
  BY <1>6 DEF Asm
<1> QED
  BY <1>2, <1>5, <1>6, <1>7, <1>8, <1>13, <1>14 DEF IdentInv, s, SourceShape

\* A dispatched copy carries the token of its instruction; the instruction
\* itself goes to the recycler with it.
LEMMA DispatchIdent ==
  ASSUME IdentInv, Dispatch
  PROVE  IdentInv'
<1> DEFINE i == Head(SrcMgr.Staging)
           x == [key |-> i.key, ident |-> i.ident, idx |-> SrcMgr.TotalCounter]
<1>1. /\ SrcMgr.Staging # <<>> /\ pc = "pipeline" /\ pc' = pc
      /\ SrcMgr' = [SrcMgr EXCEPT !.Staging = Tail(SrcMgr.Staging),
                                  !.TotalCounter = SrcMgr.TotalCounter + 1]
      /\ RecycledInsts' = RecycledInsts \cup {i}
      /\ flight' = Append(flight, x)
      /\ UNCHANGED <<input, given, MDRegistry, NumTraceMIs, created>>
  BY DEF Dispatch, brokerVars
<1>2. Asm' = Asm /\ input' = input
  BY <1>1 DEF Asm
<1>3. CASE Asm
  BY <1>2, <1>3 DEF IdentInv
<1>4. CASE ~Asm
  <2>1. /\ given \in 0 .. Len(input.insts) /\ SourceShape
        /\ SrcMgr.Staging \in Seq(Own(given)) /\ SrcMgr.TotalCounter \in Nat
        /\ RecycledInsts \in SUBSET Instruction
        /\ flight \in Seq(Flying(given))
    BY <1>4 DEF IdentInv, SourceShape
  <2>2. i \in Own(given) /\ Tail(SrcMgr.Staging) \in Seq(Own(given))
    BY <1>1, <2>1
  <2> DEFINE tl == Tail(SrcMgr.Staging)
  <2> HIDE DEF i, tl
  <2>3. i \in Instruction /\ i.key \in Nat /\ i.ident \in Int
        /\ i.ident \in 0 .. (given - 1) /\ i.key = i.ident + 1
    BY <2>2 DEF Own, Instruction
  <2>4. x \in Flying(given)
    BY <2>1, <2>3 DEF Flying
  <2> HIDE DEF x
  <2>5. flight' \in Seq(Flying(given))
    BY <1>1, <2>1, <2>4
  <2>6. RecycledInsts' \in SUBSET Instruction
    BY <1>1, <2>1, <2>3
  <2>7. SrcMgr' = [Staging |-> tl, TotalCounter |-> SrcMgr.TotalCounter + 1,
                   EOS |-> SrcMgr.EOS]
    BY <1>1, <2>1 DEF tl, SourceShape
  <2>8. SourceShape' /\ SrcMgr'.Staging \in Seq(Own(given)) /\ SrcMgr'.TotalCounter \in Nat
    BY <2>1, <2>2, <2>7 DEF SourceShape, tl
  <2> QED
    BY <1>1, <1>2, <1>4, <2>5, <2>6, <2>8 DEF IdentInv, SourceShape
<1> QED
  BY <1>3, <1>4

\* Conversion keeps IdentInv.
LEMMA ConvertIdent ==
  ASSUME IdentInv, Convert
  PROVE  IdentInv'
<1> DEFINE b == Converted[Len(fetched.insts)]
<1>1. /\ pc = "convert" /\ pc' # "convert"
      /\ SrcMgr' = [SrcMgr EXCEPT !.Staging = b.staging]
      /\ RecycledInsts' = b.recycled /\ created' = b.created /\ NumTraceMIs' = b.num
      /\ UNCHANGED <<input, given, MDRegistry, flight>>
  BY DEF Convert, brokerVars, pipelineVars
<1>2. Asm' = Asm /\ input' = input
  BY <1>1 DEF Asm
<1>3. CASE Asm
  BY <1>2, <1>3 DEF IdentInv
<1>4. CASE ~Asm
  <2>1. /\ given \in 0 .. Len(input.insts) /\ SourceShape /\ BatchOK(given)
        /\ SrcMgr.Staging \in Seq(Own(given)) /\ SrcMgr.TotalCounter \in Nat
        /\ RecycledInsts \in SUBSET Instruction
        /\ created \in Nat /\ NumTraceMIs \in Nat
    BY <1>1, <1>4 DEF IdentInv, SourceShape
  <2>2. given \in Nat
    BY <2>1
  <2>3. b \in Loop(given)
    <3>1. ConvertedAll(given, Len(fetched.insts))
      BY <1>4, <2>1, <2>2, ConvertedFacts
    <3>2. Len(fetched.insts) \in 0 .. Len(fetched.insts)
      BY <2>1 DEF BatchOK
    <3> QED
      BY <3>1, <3>2 DEF ConvertedAll
  <2> HIDE DEF b
  <2>4. /\ b.staging \in Seq(Own(given)) /\ b.recycled \in SUBSET Instruction
        /\ b.created \in Nat /\ b.num \in Nat
    BY <2>3 DEF Loop
  <2>5. SrcMgr' = [Staging |-> b.staging, TotalCounter |-> SrcMgr.TotalCounter,
                   EOS |-> SrcMgr.EOS]
    BY <1>1, <2>1 DEF SourceShape
  <2>6. SourceShape' /\ SrcMgr'.Staging \in Seq(Own(given)) /\ SrcMgr'.TotalCounter \in Nat
    BY <2>1, <2>4, <2>5 DEF SourceShape
  <2> QED
    BY <1>1, <1>2, <1>4, <2>4, <2>6 DEF IdentInv, SourceShape
<1> QED
  BY <1>3, <1>4

\* So does resetting the pipeline.
LEMMA ResetIdent ==
  ASSUME IdentInv, ResetPipeline, UNCHANGED <<input, given, MDRegistry, created>>,
         pc' # "convert"
  PROVE  IdentInv'
<1>1. /\ RecycledInsts' = {} /\ NumTraceMIs' = 0 /\ SrcMgr' = NewSrcMgr /\ flight' = <<>>
  BY DEF ResetPipeline
<1>2. Asm' = Asm
  BY DEF Asm
<1> DEFINE z == <<>>
<1>3. NewSrcMgr = [Staging |-> z, TotalCounter |-> 0, EOS |-> FALSE]
  BY DEF NewSrcMgr
<1>4. z \in Seq(Own(given)) /\ <<>> \in Seq(Flying(given))
  OBVIOUS
<1> HIDE DEF z
<1>5. SourceShape' /\ SrcMgr'.Staging \in Seq(Own(given)) /\ SrcMgr'.TotalCounter \in Nat
  BY <1>1, <1>3, <1>4 DEF SourceShape
<1> QED
  BY <1>1, <1>2, <1>4, <1>5 DEF IdentInv, SourceShape

\* Every step keeps IdentInv.
LEMMA IdentStep == IdentInv /\ [Next]_vars => IdentInv'
<1> SUFFICES ASSUME IdentInv, [Next]_vars PROVE IdentInv'
  OBVIOUS
<1>1. ASSUME UNCHANGED <<input, given, MDRegistry, SrcMgr, RecycledInsts, created,
                         NumTraceMIs, flight>>,
             pc' = "convert" => pc = "convert" /\ fetched' = fetched
      PROVE  IdentInv'
  <2>1. Asm' = Asm
    BY <1>1 DEF Asm
  <2>2. pc' = "convert" /\ BatchOK(given) => BatchOK(given)'
    BY <1>1 DEF BatchOK
  <2> QED
    BY <1>1, <2>1, <2>2 DEF IdentInv
<1>2. CASE Main
  <2>1. /\ UNCHANGED <<input, given, MDRegistry, created>> /\ pc' \in {"failed", "fetch"}
        /\ UNCHANGED resetVars \/ ResetPipeline
    BY <1>2 DEF Main, brokerVars
  <2> QED
    BY <1>1, <2>1, ResetIdent DEF resetVars
<1>3. CASE FetchAsm
  <2>1. input' = input /\ Asm
    BY <1>3 DEF FetchAsm, AfterFetch
  <2> QED
    BY <2>1 DEF IdentInv, Asm
<1>4. ASSUME NEW n \in 0 .. MaxNumProcessedInst, FetchStream(n) PROVE IdentInv'
  BY <1>4, FetchIdent
<1>5. CASE FetchStreamEnd
  <2> DEFINE R == [NoBatch EXCEPT !.Len = -1, !.rd = input.region]
             z == <<>>
  <2>1. /\ ~Asm /\ UNCHANGED <<given, MDRegistry>> /\ AfterFetch(R)
    BY <1>5 DEF FetchStreamEnd, brokerVars
  <2>2. SourceShape
    BY <2>1 DEF IdentInv, SourceShape
  <2>3. NoBatch = [Len |-> 0, rd |-> FALSE, name |-> "", insts |-> z, MDIndexMap |-> z]
    BY DEF NoBatch
  <2>4. z \in Seq([op : STRING, key : Nat]) /\ Len(z) = 0
    OBVIOUS
  <2> HIDE DEF z
  <2>5. R.insts = z
    BY <2>3
  <2> HIDE DEF R
  <2>6. /\ fetched' = R
        /\ SourceShape' /\ SrcMgr'.Staging = SrcMgr.Staging
        /\ SrcMgr'.TotalCounter = SrcMgr.TotalCounter
        /\ UNCHANGED <<input, RecycledInsts, created, NumTraceMIs, flight>>
    BY <2>1, <2>2, AfterFacts
  <2>7. BatchOK(given)'
    <3>1. fetched'.insts = z
      BY <2>5, <2>6
    <3>2. 1 .. Len(fetched'.insts) = {}
      BY <2>4, <3>1
    <3>3. fetched'.insts \in Seq([op : STRING, key : Nat])
      BY <2>4, <3>1, Zenon
    <3> QED
      BY <3>2, <3>3, Zenon DEF BatchOK
  <2>8. Asm' = Asm
    BY <2>6 DEF Asm
  <2> QED
    BY <2>1, <2>6, <2>7, <2>8 DEF IdentInv, SourceShape
<1>6. CASE Convert
  BY <1>6, ConvertIdent
<1>7. CASE Dispatch
  BY <1>7, DispatchIdent
<1>8. CASE Retire
  <2>1. /\ flight # <<>> /\ flight' = Tail(flight) /\ pc' = pc /\ pc = "pipeline"
        /\ UNCHANGED <<input, given, MDRegistry, SrcMgr, RecycledInsts, created, NumTraceMIs>>
    BY <1>8 DEF Retire, brokerVars, instVars
  <2>2. Asm' = Asm
    BY <2>1 DEF Asm
  <2>3. ~Asm => flight' \in Seq(Flying(given))
    BY <2>1 DEF IdentInv
  <2> QED
    BY <2>1, <2>2, <2>3 DEF IdentInv
<1>9. CASE Redispatch \/ Pause \/ Finish \/ PipelineError
  BY <1>1, <1>9 DEF Redispatch, Pause, Finish, PipelineError, pipelineVars, instVars, brokerVars
<1>10. CASE Report
  <2>1. /\ UNCHANGED <<input, given, MDRegistry, created>> /\ pc' \in {"done", "fetch"}
        /\ UNCHANGED resetVars \/ ResetPipeline
    BY <1>10 DEF Report, brokerVars
  <2> QED
    BY <1>1, <2>1, ResetIdent DEF resetVars
<1>11. CASE UNCHANGED vars
  BY <1>1, <1>11 DEF vars, pipelineVars, instVars, brokerVars, loopVars
<1> QED
  BY <1>2, <1>3, <1>4, <1>5, <1>6, <1>7, <1>8, <1>9, <1>10, <1>11 DEF Next

\* The worker starts with no token given.
LEMMA IdentInit == Init => IdentInv
<1> SUFFICES ASSUME Init PROVE IdentInv
  OBVIOUS
<1> DEFINE z == <<>>
<1>1. /\ input \in Inputs /\ given = 0 /\ MDRegistry = z /\ SrcMgr = NewSrcMgr
      /\ RecycledInsts = {} /\ created = 0 /\ NumTraceMIs = 0 /\ flight = z
      /\ pc = "main"
  BY DEF Init
<1>2. NewSrcMgr = [Staging |-> z, TotalCounter |-> 0, EOS |-> FALSE]
  BY DEF NewSrcMgr
<1>3. z \in Seq(Own(0)) /\ z \in Seq(Flying(0)) /\ DOMAIN z = {} /\ 0 .. (0 - 1) = {}
  OBVIOUS
<1> HIDE DEF z
<1>4. SourceShape /\ SrcMgr.Staging = z /\ SrcMgr.TotalCounter = 0
  BY <1>1, <1>2 DEF SourceShape
<1>5. ~Asm => Len(input.insts) \in Nat
  BY <1>1, WorkerAssumption DEF InputOK, Asm
<1> QED
  BY <1>1, <1>3, <1>4, <1>5 DEF IdentInv, SourceShape

\* For every stream, however it is cut into batches, and however often an
\* instruction object is recycled: every instruction in the pipeline carries the
\* token of the MCInst it was made of, and the metadata registry has an entry
\* for it.
THEOREM IdentifiersAreOwn == Spec => []IdentifiersOwn
<1>1. IdentInv => IdentifiersOwn
  <2> SUFFICES ASSUME IdentInv, ~Asm, NEW k \in DOMAIN flight
               PROVE  /\ flight[k].ident \in DOMAIN MDRegistry
                      /\ MDRegistry[flight[k].ident].key = flight[k].key
    BY DEF IdentifiersOwn, SupportMetadata
  <2>1. flight \in Seq(Flying(given)) /\ DOMAIN MDRegistry = 0 .. (given - 1)
        /\ \A t \in 0 .. (given - 1) : MDRegistry[t].key = t + 1
    BY DEF IdentInv
  <2>2. flight[k] \in Flying(given)
    BY <2>1
  <2> QED
    BY <2>1, <2>2 DEF Flying
<1> QED
  BY <1>1, IdentInit, IdentStep, PTL DEF Spec

-----------------------------------------------------------------------------
(* What the timeline view records.                                         *)

\* A marked region in the view: Last is Open until it has ended.
Region == [First : Nat, Last : Int]

\* The regions A of which something is in flight, and the stack p: all were
\* begun before D and do not overlap; the one on the stack is open and the
\* others end at the members of E.
Regions(p, A, D, E) ==
  /\ p \in Seq(Nat) /\ Len(p) <= 1 /\ A \subseteq Region
  /\ \A r \in A : /\ r.First < D
                  /\ \/ r.Last = Open /\ Len(p) = 1 /\ p[1] = r.First
                     \/ r.Last \in E /\ r.First <= r.Last
  /\ \A r, q \in A : r # q => \/ r.Last # Open /\ r.Last < q.First
                              \/ q.Last # Open /\ q.Last < r.First
  /\ Len(p) = 1 => [First |-> p[1], Last |-> Open] \in A
  /\ \A e \in E : \E r \in A : r.Last = e

\* Every instruction before D that belongs to one of them has a row in T, and
\* those before R are marked as retired.
Rows(A, T, D, R) ==
  \A r \in A : \A i \in 0 .. (D - 1) :
    InRange(r, i) => i \in DOMAIN T /\ (i < R => T[i] = TRUE)

\* The view t when D instructions have been dispatched and R have retired, and E
\* are those in flight that carry an end marker.
Recorded(t, D, R, E) ==
  /\ t = [PairingStack |-> t.PairingStack, ActiveRegions |-> t.ActiveRegions,
          Timeline |-> t.Timeline, printed |-> t.printed, ok |-> t.ok]
  /\ t.printed = <<>> /\ t.ok = TRUE
  /\ Regions(t.PairingStack, t.ActiveRegions, D, E)
  /\ Rows(t.ActiveRegions, t.Timeline, D, R)
  /\ E \subseteq R .. (D - 1)
  /\ DOMAIN t.Timeline \subseteq 0 .. (D - 1)

\* A begin marker outside a region opens one.
LEMMA RegionsBegin ==
  ASSUME NEW p, NEW A, NEW D \in Nat, NEW E, Regions(p, A, D, E), Len(p) = 0,
         E \subseteq 0 .. (D - 1)
  PROVE  Regions(Append(p, D), A \cup {[First |-> D, Last |-> Open]}, D + 1, E)
<1> DEFINE n == [First |-> D, Last |-> Open]
           B == A \cup {n}
           s == Append(p, D)
<1>1. s \in Seq(Nat) /\ Len(s) = 1 /\ s[1] = D
  BY DEF Regions
<1>2. n \in Region /\ n.First = D /\ n.Last = Open
  BY DEF Region, Open
<1> HIDE DEF s, n
<1>3. B \subseteq Region
  BY <1>2 DEF Regions
<1>4. ASSUME NEW r \in A PROVE r.First \in Nat /\ r.Last \in Int /\ r.First < D /\ r.Last \in E
                               /\ r.First <= r.Last /\ r.Last # Open /\ r.Last < D
  BY DEF Regions, Region, Open
<1>5. ASSUME NEW r \in B
      PROVE  /\ r.First < D + 1
             /\ \/ r.Last = Open /\ Len(s) = 1 /\ s[1] = r.First
                \/ r.Last \in E /\ r.First <= r.Last
  BY <1>1, <1>2, <1>4
<1>6. ASSUME NEW r \in B, NEW q \in B, r # q
      PROVE  \/ r.Last # Open /\ r.Last < q.First
             \/ q.Last # Open /\ q.Last < r.First
  <2>1. CASE r \in A /\ q \in A
    BY <1>6, <2>1 DEF Regions
  <2>2. CASE r = n
    BY <1>2, <1>4, <1>6, <2>2
  <2>3. CASE q = n
    BY <1>2, <1>4, <1>6, <2>3
  <2> QED
    BY <2>1, <2>2, <2>3
<1>7. [First |-> s[1], Last |-> Open] \in B
  BY <1>1 DEF n
<1>8. \A e \in E : \E r \in B : r.Last = e
  BY DEF Regions
<1> HIDE DEF B
<1>9. Regions(s, B, D + 1, E)
  BY <1>1, <1>3, <1>5, <1>6, <1>7, <1>8 DEF Regions
<1> QED
  BY <1>9 DEF s, B, n

\* An end marker inside a region closes it.
LEMMA RegionsEnd ==
  ASSUME NEW p, NEW A, NEW D \in Nat, NEW E, Regions(p, A, D + 1, E), Len(p) = 1,
         E \subseteq 0 .. (D - 1)
  PROVE  /\ Regions(Front(p), (A \ {[First |-> Last(p), Last |-> Open]})
                                \cup {[First |-> Last(p), Last |-> D]}, D + 1, E \cup {D})
         /\ Len(Front(p)) = 0
<1> DEFINE b == Last(p)
           o == [First |-> b, Last |-> Open]
           n == [First |-> b, Last |-> D]
           B == (A \ {o}) \cup {n}
           F == E \cup {D}
           s == Front(p)
<1>1. s \in Seq(Nat) /\ Len(s) = 0 /\ b = p[1] /\ b \in Nat
  BY DEF Regions, Front, Last
<1>2. n \in Region /\ n.First = b /\ n.Last = D /\ o.First = b /\ o.Last = Open /\ o \in A
      /\ b < D + 1 /\ D # Open
  BY <1>1 DEF Region, Open, Regions
<1>3. ASSUME NEW r \in A, r.Last = Open PROVE r = o
  <2>1. r.First = b /\ r \in Region
    BY <1>1, <1>3 DEF Regions, Open
  <2> QED
    BY <1>3, <2>1 DEF Region
<1> HIDE DEF s, n, b
<1>4. ASSUME NEW r \in A \ {o}
      PROVE  r.First \in Nat /\ r.Last \in Int /\ r.Last \in E /\ r.First <= r.Last
             /\ r.Last # Open /\ r.Last < b /\ r.First < D + 1
  <2>1. r.Last # Open
    BY <1>3
  <2>2. r.First \in Nat /\ r.Last \in Int /\ r.Last \in E /\ r.First <= r.Last /\ r.First < D + 1
    BY <2>1 DEF Regions, Region
  <2>3. r.Last < b
    BY <1>2, <2>1, <2>2 DEF Regions
  <2> QED
    BY <2>1, <2>2, <2>3
<1>5. B \subseteq Region
  BY <1>2 DEF Regions
<1>6. ASSUME NEW r \in B
      PROVE  r.First < D + 1 /\ r.Last \in F /\ r.First <= r.Last
  BY <1>1, <1>2, <1>4
<1>7. ASSUME NEW r \in B, NEW q \in B, r # q
      PROVE  \/ r.Last # Open /\ r.Last < q.First
             \/ q.Last # Open /\ q.Last < r.First
  <2>1. CASE r \in A \ {o} /\ q \in A \ {o}
    BY <1>7, <2>1 DEF Regions
  <2>2. CASE r = n
    BY <1>2, <1>4, <1>7, <2>2
  <2>3. CASE q = n
    BY <1>2, <1>4, <1>7, <2>3
  <2> QED
    BY <2>1, <2>2, <2>3
<1>8. ASSUME NEW e \in F PROVE \E r \in B : r.Last = e
  <2>1. CASE e = D
    BY <1>2, <2>1
  <2>2. CASE e \in E
    <3>1. PICK r \in A : r.Last = e
      BY <2>2 DEF Regions
    <3>2. r # o
      BY <1>2, <2>2, <3>1 DEF Open
    <3> QED
      BY <3>1, <3>2
  <2> QED
    BY <2>1, <2>2
<1> HIDE DEF B, F, o
<1>9. Regions(s, B, D + 1, F)
  BY <1>1, <1>5, <1>6, <1>7, <1>8 DEF Regions
<1> QED
  BY <1>1, <1>9 DEF s, B, n, b, o, F

\* An instruction without a marker changes no region.
LEMMA RegionsLater ==
  ASSUME NEW p, NEW A, NEW D \in Nat, NEW E, Regions(p, A, D, E)
  PROVE  Regions(p, A, D + 1, E)
<1>1. \A r \in A : r.First \in Nat
  BY DEF Regions, Region
<1>2. \A r \in A : r.First < D => r.First < D + 1
  BY <1>1
<1> QED
  BY <1>2 DEF Regions

\* How many regions are open after an instruction with the markers m, when d
\* were before it; and when its markers are legal there.
DepthAfter(d, m) == IF "end" \in m THEN 0 ELSE IF "begin" \in m THEN 1 ELSE d
\* Regions match, and none is opened inside another.  One instruction may both
\* begin and end a region.
Legal(d, m) == /\ "begin" \in m => d = 0
               /\ "end" \in m => d = 1 \/ "begin" \in m

\* The value of a view.
View(p, A, T, x, y) == [PairingStack |-> p, ActiveRegions |-> A, Timeline |-> T,
                        printed |-> x, ok |-> y]

\* Two fields of a view are replaced at once.
Restack(u, s, B) == [u EXCEPT !.PairingStack = s, !.ActiveRegions = B]

\* It is the view with those fields.
LEMMA StackAndRegions ==
  ASSUME NEW x, NEW y, NEW p, NEW A, NEW T, NEW u, u = View(p, A, T, x, y), NEW s, NEW B
  PROVE  Restack(u, s, B) = View(s, B, T, x, y)
<1> DEFINE v == [u EXCEPT !.PairingStack = s]
<1>1. u = [PairingStack |-> p, ActiveRegions |-> A, Timeline |-> T, printed |-> x, ok |-> y]
  BY DEF View
<1>2. v = [PairingStack |-> s, ActiveRegions |-> A, Timeline |-> T, printed |-> x, ok |-> y]
  BY <1>1, SMT
<1>3. Restack(u, s, B) = [v EXCEPT !.ActiveRegions = B]
  BY SMT DEF Restack
<1> HIDE DEF v
<1>4. [v EXCEPT !.ActiveRegions = B]
        = [PairingStack |-> s, ActiveRegions |-> B, Timeline |-> T, printed |-> x, ok |-> y]
  BY <1>2, SMT
<1> QED
  BY <1>3, <1>4 DEF View

\* What BeginTimeline makes of a view.
LEMMA BeginFacts ==
  ASSUME NEW x, NEW y, NEW i, NEW p, NEW A, NEW T, NEW u, u = View(p, A, T, x, y)
  PROVE  BeginTimeline(u, i) = View(Append(p, i), A \cup {[First |-> i, Last |-> Open]}, T, x, y)
<1> DEFINE s == Append(p, i)
           B == A \cup {[First |-> i, Last |-> Open]}
<1>1. u.PairingStack = p /\ u.ActiveRegions = A
  BY DEF View
<1>2. BeginTimeline(u, i) = Restack(u, s, B)
  <2>1. BeginTimeline(u, i)
          = [u EXCEPT !.PairingStack = Append(u.PairingStack, i),
                      !.ActiveRegions = u.ActiveRegions \cup {[First |-> i, Last |-> Open]}]
    BY DEF BeginTimeline
  <2> QED
    BY <1>1, <2>1, Zenon DEF Restack
<1> HIDE DEF s, B
<1>3. BeginTimeline(u, i) = View(s, B, T, x, y)
  BY <1>2, StackAndRegions
<1> QED
  BY <1>3 DEF s, B

\* What EndTimeline makes of a view.
LEMMA EndFacts ==
  ASSUME NEW x, NEW y, NEW i, NEW p \in Seq(Nat), Len(p) = 1, NEW A, NEW T, NEW u,
         u = View(p, A, T, x, y)
  PROVE  EndTimeline(u, i) = View(Front(p), (A \ {[First |-> Last(p), Last |-> Open]})
                                         \cup {[First |-> Last(p), Last |-> i]}, T, x, y)
<1> DEFINE s == Front(p)
           b == Last(p)
           B == (A \ {[First |-> b, Last |-> Open]}) \cup {[First |-> b, Last |-> i]}
<1>1. p # <<>> /\ u.PairingStack = p /\ u.ActiveRegions = A
  BY DEF View
<1> HIDE DEF s, b
<1>2. EndTimeline(u, i) = Restack(u, s, B)
  <2> DEFINE c == Last(u.PairingStack)
  <2>1. u.PairingStack # <<>> =>
          EndTimeline(u, i)
            = [u EXCEPT !.PairingStack = Front(u.PairingStack),
                        !.ActiveRegions = (u.ActiveRegions \ {[First |-> c, Last |-> Open]})
                                            \cup {[First |-> c, Last |-> i]}]
    BY DEF EndTimeline
  <2> QED
    BY <1>1, <2>1, Zenon DEF s, b, Restack
<1> HIDE DEF B
<1>3. EndTimeline(u, i) = View(s, B, T, x, y)
  BY <1>2, StackAndRegions
<1> QED
  BY <1>3 DEF s, B, b

\* What the markers of a dispatched instruction do to stack and regions.
Marked(t, D, m) ==
  LET t1 == IF "begin" \in m THEN BeginTimeline(t, D) ELSE t
  IN  IF "end" \in m THEN EndTimeline(t1, D) ELSE t1
\* Stack, regions and rows are then those of one more instruction.
MarkedOK(u, t, D, R, E, m) ==
  \E p, A : /\ u = View(p, A, t.Timeline, t.printed, t.ok)
            /\ Len(p) = DepthAfter(Len(t.PairingStack), m)
            /\ Regions(p, A, D + 1, IF "end" \in m THEN E \cup {D} ELSE E)
            /\ Rows(A, t.Timeline, D, R)

\* Legal markers lead there.
LEMMA MarkFacts ==
  ASSUME NEW t, NEW D \in Nat, NEW R \in Nat, R <= D, NEW E, Recorded(t, D, R, E),
         NEW m, Legal(Len(t.PairingStack), m)
  PROVE  MarkedOK(Marked(t, D, m), t, D, R, E, m)
<1> DEFINE p0 == t.PairingStack
           A0 == t.ActiveRegions
           T == t.Timeline
           o == [First |-> D, Last |-> Open]
           p1 == IF "begin" \in m THEN Append(p0, D) ELSE p0
           A1 == IF "begin" \in m THEN A0 \cup {o} ELSE A0
           t1 == IF "begin" \in m THEN BeginTimeline(t, D) ELSE t
           b == Last(p1)
           A2 == (A1 \ {[First |-> b, Last |-> Open]}) \cup {[First |-> b, Last |-> D]}
<1>1. /\ t = View(p0, A0, T, t.printed, t.ok) /\ Regions(p0, A0, D, E) /\ Rows(A0, T, D, R)
      /\ E \subseteq 0 .. (D - 1)
  BY DEF Recorded, View
<1> HIDE DEF p0, A0, T
<1>2. t1 = View(p1, A1, T, t.printed, t.ok)
  BY <1>1, BeginFacts
<1>3. /\ Regions(p1, A1, D + 1, E)
      /\ Len(p1) = IF "begin" \in m THEN 1 ELSE Len(p0)
  <2>1. CASE "begin" \in m
    <3>1. Len(p0) = 0
      BY <2>1 DEF Legal, p0
    <3>2. Regions(Append(p0, D), A0 \cup {o}, D + 1, E)
      BY <1>1, <3>1, RegionsBegin
    <3>3. Len(Append(p0, D)) = 1
      BY <1>1, <3>1 DEF Regions
    <3> QED
      BY <2>1, <3>2, <3>3
  <2>2. CASE "begin" \notin m
    BY <1>1, <2>2, RegionsLater
  <2> QED
    BY <2>1, <2>2
<1>4. Rows(A1, T, D, R)
  <2>1. ASSUME NEW i \in 0 .. (D - 1) PROVE ~InRange(o, i)
    BY DEF InRange
  <2> HIDE DEF o
  <2> QED
    BY <1>1, <2>1 DEF Rows
<1> HIDE DEF o, p1, A1, t1
<1>5. CASE "end" \notin m
  <2>1. Len(p1) = DepthAfter(Len(p0), m)
    BY <1>3, <1>5 DEF DepthAfter
  <2> QED
    BY <1>2, <1>3, <1>4, <1>5, <2>1 DEF t1, T, p0, Marked, MarkedOK
<1>6. CASE "end" \in m
  <2>1. Len(p1) = 1 /\ p1 \in Seq(Nat)
    BY <1>3, <1>6 DEF Legal, Regions, p0
  <2>2. EndTimeline(t1, D) = View(Front(p1), A2, T, t.printed, t.ok)
    BY <1>2, <2>1, EndFacts
  <2>3. Regions(Front(p1), A2, D + 1, E \cup {D}) /\ Len(Front(p1)) = 0
    BY <1>1, <1>3, <2>1, RegionsEnd
  <2>4. Rows(A2, T, D, R)
    <3> DEFINE x == [First |-> b, Last |-> Open]
               y == [First |-> b, Last |-> D]
    <3>1. x \in A1
      BY <1>3, <2>1 DEF Regions, Last
    <3>2. ASSUME NEW i \in 0 .. (D - 1), InRange(y, i) PROVE InRange(x, i)
      BY <3>2 DEF InRange, Open
    <3> HIDE DEF x, y, b
    <3>3. A2 = (A1 \ {x}) \cup {y}
      BY DEF x, y
    <3> HIDE DEF A2
    <3> QED
      BY <1>4, <3>1, <3>2, <3>3 DEF Rows
  <2>5. DepthAfter(Len(p0), m) = 0
    BY <1>6 DEF DepthAfter
  <2> HIDE DEF A2
  <2> QED
    BY <1>6, <2>2, <2>3, <2>4, <2>5 DEF t1, T, p0, Marked, MarkedOK
<1> QED
  BY <1>5, <1>6

\* Replacing the rows of a view.
LEMMA RowFacts ==
  ASSUME NEW x, NEW y, NEW p, NEW A, NEW T, NEW u, u = View(p, A, T, x, y), NEW S
  PROVE  [u EXCEPT !.Timeline = S] = View(p, A, S, x, y)
BY SMT DEF View

\* A dispatched instruction is recorded.
DispatchedOK(u, D, R, F, d) == Recorded(u, D + 1, R, F) /\ Len(u.PairingStack) = d

\* Rows, with the bound written as the provers need it.
LEMMA RowsUpTo ==
  ASSUME NEW A, NEW T, NEW D \in Nat, NEW R,
         \A r \in A : \A i \in 0 .. D :
           InRange(r, i) => i \in DOMAIN T /\ (i < R => T[i] = TRUE)
  PROVE  Rows(A, T, D + 1, R)
BY SMT DEF Rows

\* A dispatch keeps the view Recorded: a region has a row for the new
\* instruction as soon as it is dispatched inside it.
LEMMA DispatchRecorded ==
  ASSUME NEW t, NEW D \in Nat, NEW R \in Nat, R <= D, NEW E, Recorded(t, D, R, E),
         NEW m, Legal(Len(t.PairingStack), m)
  PROVE  DispatchedOK(TimelineDispatched(t, D, m), D, R,
                      IF "end" \in m THEN E \cup {D} ELSE E,
                      DepthAfter(Len(t.PairingStack), m))
<1> DEFINE F == IF "end" \in m THEN E \cup {D} ELSE E
           d == DepthAfter(Len(t.PairingStack), m)
           x == t.printed
           y == t.ok
           T == t.Timeline
           t2 == Marked(t, D, m)
           u == TimelineDispatched(t, D, m)
           S == [k \in DOMAIN T \cup {D} |-> IF k = D THEN FALSE ELSE T[k]]
<1>1. PICK p, A : /\ t2 = View(p, A, T, x, y) /\ Len(p) = d
                  /\ Regions(p, A, D + 1, F) /\ Rows(A, T, D, R)
  BY MarkFacts DEF MarkedOK
<1>2. x = <<>> /\ y = TRUE /\ E \subseteq R .. (D - 1) /\ DOMAIN T \subseteq 0 .. (D - 1)
  BY DEF Recorded
<1>3. u = IF ~InActive(t2, D) \/ D \in DOMAIN t2.Timeline THEN t2
          ELSE [t2 EXCEPT !.Timeline = [k \in DOMAIN t2.Timeline \cup {D} |->
                                          IF k = D THEN FALSE ELSE t2.Timeline[k]]]
  BY DEF TimelineDispatched, Marked
<1> HIDE DEF t2, u, x, y, d, T, F
<1>4. t2.Timeline = T /\ t2.ActiveRegions = A
  BY <1>1 DEF View
<1>5. u = IF ~InActive(t2, D) THEN t2 ELSE [t2 EXCEPT !.Timeline = S]
  <2>1. D \notin DOMAIN T
    BY <1>2
  <2> QED
    BY <1>3, <1>4, <2>1, Zenon
<1>6. ASSUME NEW W, u = View(p, A, W, x, y), Rows(A, W, D + 1, R),
             DOMAIN W \subseteq 0 .. D
      PROVE  DispatchedOK(u, D, R, F, d)
  <2>1. /\ u.PairingStack = p /\ u.ActiveRegions = A /\ u.Timeline = W
        /\ u.printed = x /\ u.ok = y
    BY <1>6 DEF View
  <2>2. u = [PairingStack |-> u.PairingStack, ActiveRegions |-> u.ActiveRegions,
             Timeline |-> u.Timeline, printed |-> u.printed, ok |-> u.ok]
    BY <1>6, <2>1 DEF View
  <2> DEFINE G == D + 1
  <2>3. F \subseteq R .. (G - 1) /\ DOMAIN W \subseteq 0 .. (G - 1)
    BY <1>2, <1>6 DEF F
  <2>4. Regions(p, A, G, F) /\ Rows(A, W, G, R)
    BY <1>1, <1>6
  <2> HIDE DEF G
  <2>5. Recorded(u, G, R, F)
    BY <1>2, <2>1, <2>2, <2>3, <2>4, Zenon DEF Recorded
  <2> QED
    BY <1>1, <2>1, <2>5, Zenon DEF DispatchedOK, G
<1>7. CASE ~InActive(t2, D)
  <2>1. \A r \in A : ~InRange(r, D)
    BY <1>4, <1>7 DEF InActive
  <2>2. Rows(A, T, D + 1, R)
    <3>1. ASSUME NEW r \in A, NEW i \in 0 .. D, InRange(r, i)
          PROVE  i \in DOMAIN T /\ (i < R => T[i] = TRUE)
      <4>1. i # D
        BY <2>1, <3>1
      <4>2. i \in 0 .. (D - 1)
        BY <4>1
      <4> QED
        BY <1>1, <3>1, <4>2 DEF Rows
    <3> QED
      BY <3>1, RowsUpTo
  <2>3. u = View(p, A, T, x, y)
    BY <1>1, <1>5, <1>7, Zenon
  <2>4. DOMAIN T \subseteq 0 .. D
    BY <1>2
  <2> QED
    BY <1>6, <2>2, <2>3, <2>4 DEF u, F, d
<1>8. CASE InActive(t2, D)
  <2>1. Rows(A, S, D + 1, R)
    <3>1. ASSUME NEW r \in A, NEW i \in 0 .. D, InRange(r, i)
          PROVE  i \in DOMAIN S /\ (i < R => S[i] = TRUE)
      <4>1. CASE i = D
        BY <4>1
      <4>2. CASE i # D
        <5>1. i \in 0 .. (D - 1)
          BY <4>2
        <5>2. i \in DOMAIN T /\ (i < R => T[i] = TRUE)
          BY <1>1, <3>1, <5>1 DEF Rows
        <5> QED
          BY <4>2, <5>2
      <4> QED
        BY <4>1, <4>2
    <3> HIDE DEF S
    <3> QED
      BY <3>1, RowsUpTo
  <2>2. DOMAIN S \subseteq 0 .. D
    BY <1>2
  <2> HIDE DEF S
  <2>3. u = [t2 EXCEPT !.Timeline = S]
    BY <1>5, <1>8, Zenon
  <2>4. u = View(p, A, S, x, y)
    <3>1. [t2 EXCEPT !.Timeline = S] = View(p, A, S, x, y)
      BY <1>1, RowFacts
    <3> QED
      BY <2>3, <3>1, Zenon
  <2> QED
    BY <1>6, <2>1, <2>2, <2>4 DEF u, F, d
<1> QED
  BY <1>7, <1>8

\* The timelines with a row for every instruction of their region.
Complete == {[region |-> r, rows |-> r.First .. r.Last] : r \in Region}

\* A retired instruction: the view goes on without it.
RetiredOK(u, p, y, D, R, E) ==
  \E A, T, x : /\ u = View(p, A, T, x, y) /\ x \in Seq(Complete)
               /\ Regions(p, A, D, E \ {R}) /\ Rows(A, T, D, R + 1)
               /\ DOMAIN T \subseteq 0 .. (D - 1)

\* r is the region that ends at R; no other one does, or reaches into it.
EndsAt(r, p, A, D, R, E) ==
  /\ r \in A /\ r.Last = R /\ r.First \in Nat /\ r.First <= R
  /\ Regions(p, A \ {r}, D, E \ {R})
  /\ \A q \in A \ {r} : \A i \in r.First .. R : ~InRange(q, i)

\* When an instruction with an end marker retires, exactly one region ends there.
LEMMA LastRegion ==
  ASSUME NEW p, NEW A, NEW D \in Nat, NEW E, Regions(p, A, D, E), NEW R \in E,
         E \subseteq Nat, NEW r, r = CHOOSE q \in A : q.Last = R
  PROVE  EndsAt(r, p, A, D, R, E)
<1> DEFINE B == A \ {r}
           F == E \ {R}
<1>1. r \in A /\ r.Last = R
  BY DEF Regions
<1>2. ASSUME NEW q \in A
      PROVE  /\ q.First \in Nat /\ q.Last \in Int /\ q.First < D
             /\ \/ q.Last = Open /\ Len(p) = 1 /\ p[1] = q.First
                \/ q.Last \in E /\ q.First <= q.Last
  BY DEF Regions, Region
<1>3. R \in Nat /\ R # Open
  BY DEF Open
<1>4. r.First \in Nat /\ r.First <= R
  BY <1>1, <1>2, <1>3
<1>5. ASSUME NEW q \in B
      PROVE  /\ (q.Last # Open /\ q.Last < r.First) \/ R < q.First
             /\ q.Last # R
  <2>1. \/ q.Last # Open /\ q.Last < r.First
        \/ r.Last # Open /\ r.Last < q.First
    BY <1>1 DEF Regions
  <2>2. q.First \in Nat /\ q.Last \in Int /\ (q.Last = Open \/ q.First <= q.Last)
    BY <1>2
  <2> QED
    BY <1>1, <1>3, <1>4, <2>1, <2>2
<1>6. ASSUME NEW q \in B, NEW i \in r.First .. R PROVE ~InRange(q, i)
  <2>1. q.First \in Nat /\ q.Last \in Int
    BY <1>2
  <2> QED
    BY <1>3, <1>4, <1>5, <2>1 DEF InRange
<1>7. Regions(p, B, D, F)
  <2>1. /\ p \in Seq(Nat) /\ Len(p) <= 1 /\ B \subseteq Region
    BY DEF Regions
  <2>2. ASSUME NEW q \in B
        PROVE  /\ q.First < D
               /\ \/ q.Last = Open /\ Len(p) = 1 /\ p[1] = q.First
                  \/ q.Last \in F /\ q.First <= q.Last
    BY <1>2, <1>5
  <2>3. ASSUME NEW q \in B, NEW s \in B, q # s
        PROVE  \/ q.Last # Open /\ q.Last < s.First
               \/ s.Last # Open /\ s.Last < q.First
    BY <2>3 DEF Regions
  <2>4. Len(p) = 1 => [First |-> p[1], Last |-> Open] \in B
    <3> DEFINE o == [First |-> p[1], Last |-> Open]
    <3>1. o.Last # R
      BY <1>3
    <3> HIDE DEF o
    <3>2. o # r
      BY <1>1, <3>1
    <3> QED
      BY <3>2 DEF Regions, o
  <2>5. ASSUME NEW e \in F PROVE \E q \in B : q.Last = e
    BY <1>1 DEF Regions
  <2> HIDE DEF B, F
  <2> QED
    BY <2>1, <2>2, <2>3, <2>4, <2>5 DEF Regions
<1> QED
  BY <1>1, <1>4, <1>6, <1>7 DEF EndsAt

\* Three fields of a view are replaced at once.
Dropped(u, x, S, B) == [u EXCEPT !.printed = x, !.Timeline = S, !.ActiveRegions = B]

\* It is the view with those fields.
LEMMA DropFacts ==
  ASSUME NEW x, NEW y, NEW p, NEW A, NEW T, NEW u, u = View(p, A, T, x, y),
         NEW z, NEW S, NEW B
  PROVE  Dropped(u, z, S, B) = View(p, B, S, z, y)
<1> DEFINE v == [u EXCEPT !.printed = z]
           w == [v EXCEPT !.Timeline = S]
<1>1. v = View(p, A, T, z, y)
  BY SMT DEF View
<1>2. Dropped(u, z, S, B) = [w EXCEPT !.ActiveRegions = B]
  BY SMT DEF Dropped
<1> HIDE DEF v
<1>3. w = View(p, A, S, z, y)
  BY <1>1, SMT DEF View
<1> HIDE DEF w
<1>4. [w EXCEPT !.ActiveRegions = B] = View(p, B, S, z, y)
  BY <1>3, SMT DEF View
<1> QED
  BY <1>2, <1>4

\* Printing a region erases its own rows and nobody else's: this is where
\* nested regions would lose theirs.
LEMMA TerminateFacts ==
  ASSUME NEW y, NEW p, NEW A, NEW T, NEW D \in Nat, NEW E, NEW R \in E, NEW r,
         E \subseteq Nat, R < D, r = CHOOSE q \in A : q.Last = R,
         NEW u, u = View(p, A, T, <<>>, y), EndsAt(r, p, A, D, R, E), r \in Region,
         Rows(A, T, D, R + 1), DOMAIN T \subseteq 0 .. (D - 1)
  PROVE  RetiredOK(Terminate(u, R), p, y, D, R, E)
<1> DEFINE e == [region |-> r, rows |-> PrintTimeline(u, r)]
           x == Append(<<>>, e)
           S == [k \in DOMAIN T \ (r.First .. r.Last) |-> T[k]]
           B == A \ {r}
<1>1. u.ActiveRegions = A /\ u.Timeline = T /\ u.printed = <<>>
  BY DEF View
<1>2. r \in A /\ r.Last = R /\ r.First \in Nat /\ r.First <= R /\ R \in Nat
  BY DEF EndsAt
<1>3. PrintTimeline(u, r) = r.First .. r.Last
  <2>1. ASSUME NEW k \in r.First .. R PROVE k \in DOMAIN T /\ T[k] = TRUE
    <3>1. k \in 0 .. (D - 1) /\ k < R + 1 /\ InRange(r, k)
      BY <1>2 DEF InRange
    <3> QED
      BY <1>2, <3>1 DEF Rows
  <2>2. ASSUME NEW i \in r.First .. R, NEW k \in r.First .. i
        PROVE  k \in DOMAIN u.Timeline /\ u.Timeline[k]
    <3>1. k \in r.First .. R
      BY <1>2
    <3> QED
      BY <1>1, <2>1, <3>1
  <2> QED
    BY <1>2, <2>2 DEF PrintTimeline
<1>4. Terminate(u, R) = Dropped(u, x, S, B)
  <2> DEFINE c == CHOOSE q \in u.ActiveRegions : q.Last = R
             X == Append(u.printed, [region |-> c, rows |-> PrintTimeline(u, c)])
             Y == [k \in DOMAIN u.Timeline \ (c.First .. c.Last) |-> u.Timeline[k]]
             Z == u.ActiveRegions \ {c}
  <2>1. Terminate(u, R) = [u EXCEPT !.printed = X, !.Timeline = Y, !.ActiveRegions = Z]
    BY DEF Terminate
  <2>2. c = r
    BY <1>1, Zenon
  <2> HIDE DEF c
  <2>3. X = x /\ Y = S /\ Z = B
    BY <1>1, <2>2, Zenon
  <2> HIDE DEF X, Y, Z, x, S, B
  <2> QED
    BY <2>1, <2>3, Zenon DEF Dropped
<1>5. x \in Seq(Complete)
  <2>1. e \in Complete
    BY <1>3 DEF Complete
  <2> HIDE DEF e
  <2> QED
    BY <2>1
<1>6. Regions(p, B, D, E \ {R})
  BY DEF EndsAt
<1>7. Rows(B, S, D, R + 1)
  <2>1. ASSUME NEW q \in B, NEW i \in 0 .. (D - 1), InRange(q, i)
        PROVE  i \in DOMAIN S /\ (i < R + 1 => S[i] = TRUE)
    <3>1. i \in DOMAIN T /\ (i < R + 1 => T[i] = TRUE)
      BY <2>1 DEF Rows
    <3>2. i \notin r.First .. r.Last
      BY <1>2, <2>1 DEF EndsAt
    <3> QED
      BY <3>1, <3>2
  <2> HIDE DEF S, B
  <2> QED
    BY <2>1 DEF Rows
<1>8. DOMAIN S \subseteq 0 .. (D - 1)
  OBVIOUS
<1> HIDE DEF x, S, B
<1>9. Terminate(u, R) = View(p, B, S, x, y)
  <2> DEFINE none == <<>>
  <2>1. u = View(p, A, T, none, y)
    OBVIOUS
  <2> HIDE DEF none
  <2>2. Dropped(u, x, S, B) = View(p, B, S, x, y)
    BY <2>1, DropFacts
  <2> QED
    BY <1>4, <2>2
<1> QED
  BY <1>5, <1>6, <1>7, <1>8, <1>9 DEF RetiredOK

\* Replacing ok in a view.
LEMMA OkFacts ==
  ASSUME NEW x, NEW y, NEW p, NEW A, NEW T, NEW u, u = View(p, A, T, x, y), NEW z
  PROVE  [u EXCEPT !.ok = z] = View(p, A, T, x, z)
BY SMT DEF View

\* A retirement keeps the view Recorded; what it prints is Complete.
LEMMA RetireRecorded ==
  ASSUME NEW t, NEW D \in Nat, NEW R \in Nat, R < D, NEW E, Recorded(t, D, R, E),
         NEW m, "end" \in m <=> R \in E
  PROVE  RetiredOK(TimelineRetired(t, R, m), t.PairingStack, t.ok, D, R, E)
<1> DEFINE p == t.PairingStack
           A == t.ActiveRegions
           T == t.Timeline
           x == t.printed
           y == t.ok
           u == TimelineRetired(t, R, m)
           S == [T EXCEPT ![R] = TRUE]
           done == [t EXCEPT !.Timeline = S]
<1>1. /\ t = View(p, A, T, x, y) /\ x = <<>>
      /\ Regions(p, A, D, E) /\ Rows(A, T, D, R)
      /\ E \subseteq R .. (D - 1) /\ DOMAIN T \subseteq 0 .. (D - 1)
  BY DEF Recorded, View
<1>2. y = TRUE
  BY DEF Recorded
<1>3. u = CASE ~InActive(t, R) -> [t EXCEPT !.ok = y /\ "end" \notin m]
            [] InActive(t, R) /\ R \notin DOMAIN T -> [t EXCEPT !.ok = FALSE]
            [] OTHER -> IF "end" \in m THEN Terminate(done, R) ELSE done
  BY DEF TimelineRetired
<1>4. InActive(t, R) <=> \E r \in A : InRange(r, R)
  BY DEF InActive
<1>5. <<>> \in Seq(Complete)
  OBVIOUS
<1>6. ASSUME NEW r \in A PROVE r.First \in Nat /\ r.Last \in Int
  BY <1>1 DEF Regions, Region
<1> HIDE DEF p, A, T, x, y, u
<1>7. R \in E => InActive(t, R)
  <2> SUFFICES ASSUME R \in E PROVE \E r \in A : InRange(r, R)
    BY <1>4
  <2>1. PICK r \in A : r.Last = R
    BY <1>1 DEF Regions
  <2>2. r.First <= R
    BY <1>1, <2>1 DEF Regions, Open
  <2> QED
    BY <2>1, <2>2 DEF InRange
<1>8. Rows(A, T, D, R) /\ R \notin DOMAIN T => ~InActive(t, R)
  BY <1>4 DEF Rows
<1>9. CASE ~InActive(t, R)
  <2> DEFINE z == (y /\ "end" \notin m)
  <2>1. R \notin E
    BY <1>7, <1>9
  <2>2. z = y
    BY <1>2, <2>1, Zenon
  <2> HIDE DEF z
  <2>3. u = [t EXCEPT !.ok = z]
    BY <1>3, <1>9 DEF z
  <2>4. u = View(p, A, T, x, y)
    <3>1. [t EXCEPT !.ok = z] = View(p, A, T, x, z)
      BY <1>1, OkFacts
    <3> QED
      BY <2>2, <2>3, <3>1, Zenon
  <2>5. E \ {R} = E
    BY <2>1
  <2>6. Rows(A, T, D, R + 1)
    <3>1. ASSUME NEW r \in A, NEW i \in 0 .. (D - 1), InRange(r, i)
          PROVE  i \in DOMAIN T /\ (i < R + 1 => T[i] = TRUE)
      <4>1. i # R
        BY <1>4, <1>9, <3>1
      <4>2. i < R + 1 => i < R
        BY <4>1
      <4> QED
        BY <1>1, <3>1, <4>2 DEF Rows
    <3> QED
      BY <3>1 DEF Rows
  <2> QED
    BY <1>1, <1>5, <2>4, <2>5, <2>6, Zenon DEF RetiredOK, u, p, y
<1>10. CASE InActive(t, R)
  <2>1. R \in DOMAIN T
    BY <1>1, <1>8, <1>10
  <2>2. u = IF "end" \in m THEN Terminate(done, R) ELSE done
    BY <1>3, <1>10, <2>1
  <2>3. Rows(A, S, D, R + 1) /\ DOMAIN S \subseteq 0 .. (D - 1)
    <3>1. ASSUME NEW r \in A, NEW i \in 0 .. (D - 1), InRange(r, i)
          PROVE  i \in DOMAIN S /\ (i < R + 1 => S[i] = TRUE)
      <4>1. i \in DOMAIN T /\ (i < R => T[i] = TRUE)
        BY <1>1, <3>1 DEF Rows
      <4>2. CASE i = R
        BY <2>1, <4>2
      <4>3. CASE i # R
        BY <4>1, <4>3
      <4> QED
        BY <4>2, <4>3
    <3>2. DOMAIN S = DOMAIN T
      OBVIOUS
    <3> HIDE DEF S
    <3> QED
      BY <1>1, <3>1, <3>2 DEF Rows
  <2> HIDE DEF S
  <2>4. done = View(p, A, S, x, y)
    BY <1>1, RowFacts
  <2> HIDE DEF done
  <2>5. CASE R \notin E
    <3>1. u = done /\ E \ {R} = E
      BY <2>2, <2>5
    <3> QED
      BY <1>1, <1>5, <2>3, <2>4, <3>1, Zenon DEF RetiredOK, u, p, y
  <2>6. CASE R \in E
    <3>0. PICK r : r = CHOOSE q \in A : q.Last = R
      OBVIOUS
    <3>1. E \subseteq Nat /\ u = Terminate(done, R)
      BY <1>1, <2>2, <2>6
    <3>2. EndsAt(r, p, A, D, R, E)
      BY <1>1, <2>6, <3>0, <3>1, LastRegion
    <3>3. r \in Region
      BY <1>1, <3>2 DEF Regions, EndsAt
    <3>4. done = View(p, A, S, <<>>, y)
      BY <1>1, <2>4, Zenon
    <3>5. RetiredOK(Terminate(done, R), p, y, D, R, E)
      BY <2>3, <2>6, <3>0, <3>1, <3>2, <3>3, <3>4, TerminateFacts
    <3> QED
      BY <3>1, <3>5, Zenon DEF u, p, y
  <2> QED
    BY <2>5, <2>6
<1> QED
  BY <1>9, <1>10

\* What is printed is taken out of the view.
LEMMA PrintedFacts ==
  ASSUME NEW u, NEW p, NEW y, NEW D \in Nat, NEW R \in Nat, NEW E,
         RetiredOK(u, p, y, D, R, E), E \subseteq R .. (D - 1)
  PROVE  /\ y = TRUE => Recorded([u EXCEPT !.printed = <<>>], D, R + 1, E \ {R})
         /\ [u EXCEPT !.printed = <<>>].PairingStack = p
         /\ u.printed \in Seq(Complete)
<1> DEFINE z == <<>>
           v == [u EXCEPT !.printed = z]
<1>1. PICK A, T, x :
         /\ u = View(p, A, T, x, y) /\ x \in Seq(Complete)
         /\ Regions(p, A, D, E \ {R}) /\ Rows(A, T, D, R + 1)
         /\ DOMAIN T \subseteq 0 .. (D - 1)
  BY DEF RetiredOK
<1>2. u.printed \in Seq(Complete)
  BY <1>1 DEF View
<1> HIDE DEF z
<1>3. v = [PairingStack |-> p, ActiveRegions |-> A, Timeline |-> T, printed |-> z, ok |-> y]
  BY <1>1 DEF View
<1> HIDE DEF v
<1>4. /\ v.PairingStack = p /\ v.ActiveRegions = A /\ v.Timeline = T /\ v.printed = z
      /\ v.ok = y
  BY <1>3
<1>5. E \ {R} \subseteq (R + 1) .. (D - 1)
  OBVIOUS
<1>6. y = TRUE => Recorded(v, D, R + 1, E \ {R})
  BY <1>1, <1>3, <1>4, <1>5, Zenon DEF Recorded, z
<1> QED
  BY <1>2, <1>4, <1>6 DEF v, z

-----------------------------------------------------------------------------
(* Marked streams and what is staged.                                      *)

\* The number of open regions after each position of a stream: it changes only
\* at instructions that are simulated, and a region of the stream that ends
\* leaves none open.
IsDepth(s, depth) ==
  /\ depth[0] = 0
  /\ \A k \in 1 .. Len(s) :
       /\ Kept(s[k].op) => Legal(depth[k-1], s[k].marks)
       /\ depth[k] = IF s[k].last THEN 0
                     ELSE IF Kept(s[k].op) THEN DepthAfter(depth[k-1], s[k].marks)
                     ELSE depth[k-1]

\* The markers of every stream match and do not nest, and none is on a
\* microcoded instruction: its Dispatched events would open or close several
\* regions.
WellMarked ==
  \A in \in Inputs : in.kind = "stream" =>
    /\ \E depth \in [0 .. Len(in.insts) -> {0, 1}] : IsDepth(in.insts, depth)
    /\ \A k \in 1 .. Len(in.insts) : in.insts[k].op = "micro" => in.insts[k].marks = {}

\* The depths of a stream that is so marked.
Depth(s) == CHOOSE depth \in [0 .. Len(s) -> {0, 1}] : IsDepth(s, depth)

\* They are what IsDepth says.
LEMMA DepthFacts ==
  ASSUME WellMarked, NEW in \in Inputs, in.kind = "stream"
  PROVE  IsDepth(in.insts, Depth(in.insts))
BY DEF WellMarked, Depth

\* The staged instructions q of the stream s are simulated ones, and their
\* depths follow each other, from d open regions on.
Staged(q, d, s, O) ==
  /\ Len(q) > 0 => O[q[1].key - 1] = d
  /\ \A k \in 1 .. Len(q) :
       /\ Kept(s[q[k].key].op) /\ q[k].op = s[q[k].key].op
       /\ k < Len(q) => O[q[k+1].key - 1] = DepthAfter(O[q[k].key - 1], s[q[k].key].marks)
\* The number of open regions once all of q is dispatched.
EndDepth(q, d, s, O) ==
  IF Len(q) = 0 THEN d ELSE DepthAfter(O[q[Len(q)].key - 1], s[q[Len(q)].key].marks)

\* One more instruction is staged.
LEMMA StageAppend ==
  ASSUME NEW S, NEW q \in Seq(S), NEW d, NEW s, NEW O, NEW i \in S,
         Staged(q, d, s, O), Kept(s[i.key].op), i.op = s[i.key].op,
         EndDepth(q, d, s, O) = O[i.key - 1]
  PROVE  /\ Staged(Append(q, i), d, s, O)
         /\ EndDepth(Append(q, i), d, s, O) = DepthAfter(O[i.key - 1], s[i.key].marks)
<1> DEFINE r == Append(q, i)
           n == Len(q)
<1>1. /\ n \in Nat /\ Len(r) = n + 1 /\ r[n+1] = i
      /\ \A k \in 1 .. n : r[k] = q[k]
  OBVIOUS
<1> HIDE DEF r
<1>2. O[r[1].key - 1] = d
  <2>1. CASE n = 0
    BY <1>1, <2>1 DEF EndDepth
  <2>2. CASE n > 0
    BY <1>1, <2>2 DEF Staged
  <2> QED
    BY <1>1, <2>1, <2>2
<1>3. ASSUME NEW k \in 1 .. (n + 1)
      PROVE  /\ Kept(s[r[k].key].op) /\ r[k].op = s[r[k].key].op
             /\ k < n + 1 => O[r[k+1].key - 1] = DepthAfter(O[r[k].key - 1], s[r[k].key].marks)
  <2>1. CASE k = n + 1
    BY <1>1, <2>1
  <2>2. CASE k = n
    <3>1. /\ n > 0 /\ r[k] = q[n] /\ r[k+1] = i
          /\ Kept(s[q[n].key].op) /\ q[n].op = s[q[n].key].op
      BY <1>1, <2>2 DEF Staged
    <3>2. O[i.key - 1] = DepthAfter(O[q[n].key - 1], s[q[n].key].marks)
      BY <1>1, <3>1 DEF EndDepth
    <3> QED
      BY <3>1, <3>2
  <2>3. CASE k < n
    <3>1. r[k] = q[k] /\ r[k+1] = q[k+1] /\ k \in 1 .. n
      BY <1>1, <2>3
    <3> QED
      BY <2>3, <3>1 DEF Staged
  <2> QED
    BY <1>1, <2>1, <2>2, <2>3
<1>4. Staged(r, d, s, O)
  BY <1>1, <1>2, <1>3 DEF Staged
<1>5. EndDepth(r, d, s, O) = DepthAfter(O[i.key - 1], s[i.key].marks)
  BY <1>1 DEF EndDepth
<1> QED
  BY <1>4, <1>5 DEF r

\* The first staged instruction is dispatched.
LEMMA StageTail ==
  ASSUME NEW S, NEW q \in Seq(S), NEW d, NEW s, NEW O, q # <<>>, Staged(q, d, s, O)
  PROVE  LET e == DepthAfter(d, s[Head(q).key].marks)
         IN  /\ O[Head(q).key - 1] = d /\ Kept(s[Head(q).key].op)
             /\ Head(q).op = s[Head(q).key].op
             /\ Staged(Tail(q), e, s, O) /\ EndDepth(Tail(q), e, s, O) = EndDepth(q, d, s, O)
<1> DEFINE r == Tail(q)
           n == Len(q)
           i == Head(q)
           e == DepthAfter(d, s[i.key].marks)
<1>1. /\ n \in Nat /\ n > 0 /\ Len(r) = n - 1 /\ i = q[1]
      /\ \A k \in 1 .. (n - 1) : r[k] = q[k+1]
  OBVIOUS
<1> HIDE DEF r, i
<1>2. O[i.key - 1] = d /\ Kept(s[i.key].op) /\ i.op = s[i.key].op
  BY <1>1 DEF Staged
<1>3. n > 1 => O[r[1].key - 1] = e
  BY <1>1, <1>2 DEF Staged
<1>4. ASSUME NEW k \in 1 .. (n - 1)
      PROVE  /\ Kept(s[r[k].key].op) /\ r[k].op = s[r[k].key].op
             /\ k < n - 1 => O[r[k+1].key - 1] = DepthAfter(O[r[k].key - 1], s[r[k].key].marks)
  <2>1. r[k] = q[k+1] /\ k + 1 \in 1 .. n /\ (k < n - 1 => r[k+1] = q[(k+1)+1])
    BY <1>1
  <2>2. k < n - 1 => k + 1 < n
    BY <1>1
  <2> QED
    BY <2>1, <2>2 DEF Staged
<1> HIDE DEF e
<1>5. Staged(r, e, s, O)
  BY <1>1, <1>3, <1>4 DEF Staged
<1>6. EndDepth(r, e, s, O) = EndDepth(q, d, s, O)
  <2>1. CASE n = 1
    BY <1>1, <1>2, <2>1 DEF EndDepth, e
  <2>2. CASE n > 1
    <3>1. r[n - 1] = q[n]
      BY <1>1, <2>2
    <3> QED
      BY <1>1, <2>2, <3>1 DEF EndDepth
  <2> QED
    BY <1>1, <2>1, <2>2
<1> QED
  BY <1>2, <1>5, <1>6 DEF r, i, e

\* The batch of n instructions that was fetched last: the next ones of the
\* stream s, none but the last one the last of a region.
BatchFrom(s, n) ==
  /\ n <= given
  /\ \A k \in 1 .. n : /\ fetched.insts[k].key = given - n + k
                       /\ fetched.insts[k].op = s[given - n + k].op
                       /\ k < n => ~s[given - n + k].last

\* Staged as Staged and EndDepth say, at position j of the stream.
StagedTo(q, d, s, O, j) == Staged(q, d, s, O) /\ EndDepth(q, d, s, O) = O[j]
\* The same, when j is not the last of its region: there the depth starts over.
StagedIf(q, d, s, O, j) ==
  /\ Staged(q, d, s, O)
  /\ ~s[j].last => EndDepth(q, d, s, O) = O[j]

\* One iteration of the conversion loop stages the next position.
LEMMA StageOne ==
  ASSUME ~Asm, NEW g \in Nat, BatchOK(g), NEW b \in Loop(g), NEW n \in Nat,
         n = Len(fetched.insts), given \in Nat, NEW k \in 1 .. n,
         NEW d, NEW s, NEW O, IsDepth(s, O), BatchFrom(s, n), given <= Len(s), Len(s) \in Nat,
         StagedTo(b.staging, d, s, O, given - n + k - 1)
  PROVE  StagedIf(ConvertInst(b, k).staging, d, s, O, given - n + k)
<1> DEFINE j == given - n + k
           q == b.staging
           c == ConvertInst(b, k)
<1>1. j \in 1 .. Len(s) /\ j \in Nat
  BY DEF BatchFrom
<1>2. fetched.insts[k].key = j /\ fetched.insts[k].op = s[j].op
  BY DEF BatchFrom
<1>3. Staged(q, d, s, O) /\ EndDepth(q, d, s, O) = O[j - 1]
  BY DEF StagedTo
<1>4. ~s[j].last => O[j] = IF Kept(s[j].op) THEN DepthAfter(O[j-1], s[j].marks) ELSE O[j-1]
  BY <1>1 DEF IsDepth
<1>5. ConvertedOne(b, k, g)
  BY ConvertFacts
<1>6. q \in Seq(Own(g))
  BY DEF Loop
<1> HIDE DEF j, q, c
<1>7. CASE Kept(s[j].op)
  <2>1. PICK i \in Own(g) : i.key = j /\ i.op = s[j].op /\ c.staging = Append(q, i)
    BY <1>2, <1>5, <1>7 DEF ConvertedOne, q, c
  <2>2. /\ Staged(Append(q, i), d, s, O)
        /\ EndDepth(Append(q, i), d, s, O) = DepthAfter(O[i.key - 1], s[i.key].marks)
    BY <1>3, <1>6, <1>7, <2>1, StageAppend
  <2> QED
    BY <1>4, <1>7, <2>1, <2>2 DEF j, c, StagedIf
<1>8. CASE ~Kept(s[j].op)
  <2>1. c.staging = q
    BY <1>2, <1>5, <1>8 DEF ConvertedOne, q, c
  <2> QED
    BY <1>3, <1>4, <1>8, <2>1 DEF j, c, StagedIf
<1> QED
  BY <1>7, <1>8

\* A whole batch of n is staged.
BatchStaged(q, d, s, O, n) ==
  /\ Staged(q, d, s, O)
  /\ n = 0 \/ ~s[given].last => EndDepth(q, d, s, O) = O[given]

\* A set with 0 and the successor of each of its members below n has n.
LEMMA StepByStep ==
  ASSUME NEW n \in Nat, NEW G, 0 \in G, \A k \in 1 .. n : k - 1 \in G => k \in G
  PROVE  n \in G
<1> DEFINE B == {k \in 0 .. n : k \notin G}
<1> SUFFICES ASSUME B # {} PROVE FALSE
  OBVIOUS
<1>1. PICK m \in B : \A k \in B : m <= k
  <2>1. B \subseteq Nat
    OBVIOUS
  <2> HIDE DEF B
  <2> QED
    BY <2>1, NatMin
<1>2. m # 0 /\ m \in 1 .. n /\ m - 1 \in 0 .. n /\ m - 1 < m
  OBVIOUS
<1>3. m - 1 \notin B
  BY <1>1, <1>2
<1> QED
  BY <1>1, <1>2, <1>3

\* The conversion loop stages the batch.
LEMMA StageAll ==
  ASSUME ~Asm, NEW g \in Nat, BatchOK(g), NEW n \in Nat, n = Len(fetched.insts),
         ConvertedAll(g, n), given \in Nat, NEW d, NEW s, NEW O, IsDepth(s, O),
         BatchFrom(s, n), given <= Len(s), Len(s) \in Nat,
         StagedTo(SrcMgr.Staging, d, s, O, given - n)
  PROVE  BatchStaged(Converted[n].staging, d, s, O, n)
<1> DEFINE G == {k \in 0 .. n :
                   /\ Staged(Converted[k].staging, d, s, O)
                   /\ k = 0 \/ ~s[given - n + k].last =>
                        EndDepth(Converted[k].staging, d, s, O) = O[given - n + k]}
<1>1. 0 \in G
  <2>1. Converted[0].staging = SrcMgr.Staging
    BY DEF ConvertedAll
  <2>2. given - n + 0 = given - n
    OBVIOUS
  <2> QED
    BY <2>1, <2>2 DEF StagedTo
<1>2. ASSUME NEW k \in 1 .. n, k - 1 \in G PROVE k \in G
  <2>1. k \in 0 .. n /\ k - 1 \in 0 .. n /\ given - n + (k - 1) = given - n + k - 1
    OBVIOUS
  <2>2. PICK b : b = Converted[k-1]
    OBVIOUS
  <2>3. b \in Loop(g) /\ Converted[k] = ConvertInst(b, k)
    BY <2>1, <2>2 DEF ConvertedAll
  <2>4. k - 1 = 0 \/ ~s[given - n + (k - 1)].last
    <3>1. CASE k = 1
      BY <3>1
    <3>2. CASE k # 1
      <4>1. k - 1 \in 1 .. n /\ k - 1 < n
        BY <3>2
      <4> QED
        BY <4>1 DEF BatchFrom
    <3> QED
      BY <3>1, <3>2
  <2>5. StagedTo(b.staging, d, s, O, given - n + k - 1)
    BY <1>2, <2>1, <2>2, <2>4 DEF StagedTo
  <2>6. StagedIf(ConvertInst(b, k).staging, d, s, O, given - n + k)
    BY <2>3, <2>5, StageOne
  <2>7. StagedIf(Converted[k].staging, d, s, O, given - n + k)
    BY <2>3, <2>6
  <2>8. k # 0
    OBVIOUS
  <2>9. /\ Staged(Converted[k].staging, d, s, O)
        /\ k = 0 \/ ~s[given - n + k].last =>
             EndDepth(Converted[k].staging, d, s, O) = O[given - n + k]
    BY <2>7, <2>8, Zenon DEF StagedIf
  <2> QED
    BY <2>1, <2>9, Zenon
<1>3. n \in G
  <2> HIDE DEF G
  <2> QED
    BY <1>1, <1>2, StepByStep
<1>4. given - n + n = given
  OBVIOUS
<1> QED
  BY <1>3, <1>4 DEF BatchStaged

-----------------------------------------------------------------------------
(* Timelines.                                                              *)

\* The source indices of the instructions in flight that end a marked region.
EndIdx == {flight[k].idx : k \in {j \in 1 .. Len(flight) :
                                    "end" \in input.insts[flight[j].key].marks}}

\* What the timeline view knows is right about the instructions dispatched so
\* far, those still in flight and those that have retired; everything it has
\* printed is Complete.  An assembly file has no metadata and no marked region.
ViewInv ==
  /\ timelines \in Seq(Complete)
  /\ Asm => DOMAIN MDRegistry = {} /\ timeline = NewTimeline
  /\ ~Asm =>
       /\ Len(flight) <= SrcMgr.TotalCounter
       /\ \A k \in 1 .. Len(flight) :
            flight[k].idx = SrcMgr.TotalCounter - Len(flight) + k - 1
       /\ Recorded(timeline, SrcMgr.TotalCounter, SrcMgr.TotalCounter - Len(flight), EndIdx)

\* A new view has nothing to record.
LEMMA NewRecorded == Recorded(NewTimeline, 0, 0, {})
<1> DEFINE p == <<>>
           A == {}
           T == [i \in {} |-> FALSE]
           x == <<>>
<1>1. NewTimeline = View(p, A, T, x, TRUE)
  BY DEF NewTimeline, View
<1>2. p \in Seq(Nat) /\ Len(p) = 0 /\ x = <<>>
  OBVIOUS
<1>3. DOMAIN T = {}
  OBVIOUS
<1>4. A = {}
  OBVIOUS
<1> HIDE DEF p, A, T, x
<1>5. Regions(p, A, 0, {})
  BY <1>2, <1>4 DEF Regions
<1>6. Rows(A, T, 0, 0)
  BY <1>4 DEF Rows
<1>7. /\ NewTimeline.PairingStack = p /\ NewTimeline.ActiveRegions = A
      /\ NewTimeline.Timeline = T /\ NewTimeline.printed = x /\ NewTimeline.ok = TRUE
      /\ NewTimeline = [PairingStack |-> p, ActiveRegions |-> A, Timeline |-> T,
                        printed |-> x, ok |-> TRUE]
  BY <1>1 DEF View
<1> QED
  BY <1>2, <1>3, <1>5, <1>6, <1>7, Zenon DEF Recorded

\* Steps that leave the view and what is in flight alone.
LEMMA ViewSame ==
  ASSUME ViewInv, UNCHANGED <<input, flight, timeline, timelines>>,
         SrcMgr'.TotalCounter = SrcMgr.TotalCounter, Asm => MDRegistry' = MDRegistry
  PROVE  ViewInv'
<1>1. Asm' = Asm /\ EndIdx' = EndIdx
  BY DEF Asm, EndIdx
<1> QED
  BY <1>1 DEF ViewInv, Recorded, Regions, Rows, InRange, Open, Region

\* Resetting the pipeline starts a new view, with nothing in flight.
LEMMA ViewReset ==
  ASSUME ViewInv, ResetPipeline, UNCHANGED <<input, MDRegistry, timelines>>
  PROVE  ViewInv'
<1> DEFINE z == <<>>
<1>1. timeline' = NewTimeline /\ flight' = z /\ SrcMgr' = NewSrcMgr
  BY DEF ResetPipeline
<1>2. NewSrcMgr.TotalCounter = 0 /\ Len(z) = 0
  BY DEF NewSrcMgr
<1>3. Asm' = Asm
  BY DEF Asm
<1> HIDE DEF z
<1>4. 1 .. Len(flight') = {} /\ Len(flight') = 0 /\ SrcMgr'.TotalCounter = 0
  BY <1>1, <1>2
<1>5. EndIdx' = {}
  BY <1>4 DEF EndIdx
<1>6. Recorded(timeline, SrcMgr.TotalCounter, SrcMgr.TotalCounter - Len(flight), EndIdx)'
  <2>1. Recorded(timeline', 0, 0, {})
    BY <1>1, NewRecorded
  <2>2. SrcMgr'.TotalCounter - Len(flight') = 0
    BY <1>4
  <2> QED
    BY <1>4, <1>5, <2>1, <2>2
<1> QED
  BY <1>1, <1>3, <1>4, <1>6 DEF ViewInv

\* The metadata registry has the markers of the stream.
MarksInv == \A t \in 0 .. (given - 1) : MDRegistry[t].marks = input.insts[t+1].marks

\* An instruction's token leads to its own markers.
LEMMA MarkersFacts ==
  ASSUME IdentInv, MarksInv, ~Asm, NEW x, x.ident \in 0 .. (given - 1), x.key = x.ident + 1
  PROVE  Markers(MDRegistry, x.ident) = input.insts[x.key].marks
<1>1. DOMAIN MDRegistry = 0 .. (given - 1)
  BY DEF IdentInv
<1> QED
  BY <1>1 DEF Markers, MarksInv

\* EndIdx with one more instruction in flight.
LEMMA EndIdxAppend ==
  ASSUME NEW S, flight \in Seq(S), NEW x \in S, flight' = Append(flight, x), input' = input
  PROVE  EndIdx' = IF "end" \in input.insts[x.key].marks THEN EndIdx \cup {x.idx} ELSE EndIdx
<1> DEFINE f == flight'
           n == Len(flight)
           m(k) == input.insts[k].marks
<1>1. n \in Nat /\ Len(f) = n + 1 /\ f[n+1] = x /\ \A k \in 1 .. n : f[k] = flight[k]
  OBVIOUS
<1>2. EndIdx' = {f[k].idx : k \in {j \in 1 .. (n + 1) : "end" \in m(f[j].key)}}
  BY <1>1 DEF EndIdx
<1>3. EndIdx = {flight[k].idx : k \in {j \in 1 .. n : "end" \in m(flight[j].key)}}
  BY DEF EndIdx
<1> HIDE DEF f, n, m
<1>4. 1 .. (n + 1) = 1 .. n \cup {n + 1}
  BY <1>1
<1>5. EndIdx' = IF "end" \in m(x.key) THEN EndIdx \cup {x.idx} ELSE EndIdx
  BY <1>1, <1>2, <1>3, <1>4
<1> QED
  BY <1>5 DEF m

\* EndIdx with the oldest instruction gone.
LEMMA EndIdxTail ==
  ASSUME NEW S, flight \in Seq(S), flight # <<>>, flight' = Tail(flight), input' = input,
         NEW R \in Nat, \A k \in 1 .. Len(flight) : flight[k].idx = R + k - 1
  PROVE  /\ EndIdx' = EndIdx \ {R}
         /\ "end" \in input.insts[Head(flight).key].marks <=> R \in EndIdx
<1> DEFINE f == flight'
           n == Len(flight)
           m(k) == input.insts[k].marks
<1>1. n \in Nat /\ n > 0 /\ Len(f) = n - 1 /\ \A k \in 1 .. (n - 1) : f[k] = flight[k+1]
  OBVIOUS
<1>2. EndIdx' = {f[k].idx : k \in {j \in 1 .. (n - 1) : "end" \in m(f[j].key)}}
  BY <1>1 DEF EndIdx
<1>3. EndIdx = {flight[k].idx : k \in {j \in 1 .. n : "end" \in m(flight[j].key)}}
  BY DEF EndIdx
<1>4. Head(flight) = flight[1]
  OBVIOUS
<1>5. \A k \in 1 .. n : flight[k].idx = R + k - 1
  OBVIOUS
<1> HIDE DEF f, n, m
<1>6. ASSUME NEW k \in 1 .. (n - 1) PROVE f[k].idx = R + k
  <2>1. n \in Nat /\ R \in Nat /\ k \in 1 .. (n - 1)
    BY <1>1
  <2>2. k + 1 \in 1 .. n /\ R + (k + 1) - 1 = R + k
    BY ONLY <2>1
  <2>3. f[k] = flight[k+1] /\ flight[k+1].idx = R + (k + 1) - 1
    BY <1>1, <1>5, <2>2
  <2> QED
    BY <2>2, <2>3
<1>7. \A e : e \in EndIdx' <=> \E k \in 1 .. (n - 1) : "end" \in m(flight[k+1].key) /\ e = R + k
  BY <1>1, <1>2, <1>6
<1>8. \A e : e \in EndIdx <=> \E k \in 1 .. n : "end" \in m(flight[k].key) /\ e = R + k - 1
  BY <1>3, <1>5
<1>9. R \in EndIdx <=> "end" \in m(flight[1].key)
  <2>1. \A k \in 1 .. n : R = R + k - 1 <=> k = 1
    BY <1>1
  <2>2. 1 \in 1 .. n
    BY <1>1
  <2> QED
    BY <1>8, <2>1, <2>2
<1>10. ASSUME NEW e PROVE e \in EndIdx' <=> e \in EndIdx /\ e # R
  <2>1. ASSUME e \in EndIdx' PROVE e \in EndIdx /\ e # R
    <3>1. PICK k \in 1 .. (n - 1) : "end" \in m(flight[k+1].key) /\ e = R + k
      BY <1>7, <2>1
    <3>2. n \in Nat /\ R \in Nat /\ k \in 1 .. (n - 1) /\ e = R + k
      BY <1>1, <3>1
    <3>3. k + 1 \in 1 .. n /\ e = R + (k + 1) - 1 /\ e # R
      BY ONLY <3>2
    <3> QED
      BY <1>8, <3>1, <3>3
  <2>2. ASSUME e \in EndIdx, e # R PROVE e \in EndIdx'
    <3>1. PICK k \in 1 .. n : "end" \in m(flight[k].key) /\ e = R + k - 1
      BY <1>8, <2>2
    <3>2. n \in Nat /\ R \in Nat /\ k \in 1 .. n /\ e = R + k - 1 /\ e # R
      BY <1>1, <2>2, <3>1
    <3>3. k - 1 \in 1 .. (n - 1) /\ e = R + (k - 1) /\ (k - 1) + 1 = k
      BY ONLY <3>2
    <3> QED
      BY <1>7, <3>1, <3>3
  <2> QED
    BY <2>1, <2>2
<1> QED
  BY <1>4, <1>9, <1>10 DEF m

\* A dispatch with legal markers keeps ViewInv.
LEMMA ViewDispatch ==
  ASSUME IdentInv, ViewInv, ~Asm => MarksInv, Dispatch,
         ~Asm => Legal(Len(timeline.PairingStack), input.insts[Head(SrcMgr.Staging).key].marks)
  PROVE  /\ ViewInv'
         /\ ~Asm => Len(timeline'.PairingStack)
                      = DepthAfter(Len(timeline.PairingStack),
                                   input.insts[Head(SrcMgr.Staging).key].marks)
<1> DEFINE i == Head(SrcMgr.Staging)
           D == SrcMgr.TotalCounter
           x == [key |-> i.key, ident |-> i.ident, idx |-> D]
           m == Markers(MDRegistry, i.ident)
<1>1. /\ SrcMgr.Staging # <<>>
      /\ SrcMgr' = [SrcMgr EXCEPT !.Staging = Tail(SrcMgr.Staging), !.TotalCounter = D + 1]
      /\ flight' = Append(flight, x)
      /\ timeline' = TimelineDispatched(timeline, D, m)
      /\ UNCHANGED <<input, MDRegistry, timelines>>
  BY DEF Dispatch
<1>2. Asm' = Asm
  BY <1>1 DEF Asm
<1>3. CASE Asm
  <2>1. m = {}
    BY <1>3 DEF ViewInv, Markers
  <2>2. timeline = NewTimeline
    BY <1>3 DEF ViewInv
  <2>3. NewTimeline.ActiveRegions = {}
    BY DEF NewTimeline
  <2>4. ~InActive(NewTimeline, D)
    BY <2>3 DEF InActive
  <2> HIDE DEF m, D
  <2>5. TimelineDispatched(NewTimeline, D, m) = NewTimeline
    BY <2>1, <2>4 DEF TimelineDispatched
  <2>6. timeline' = NewTimeline
    BY <1>1, <2>2, <2>5, Zenon
  <2> QED
    BY <1>1, <1>2, <1>3, <2>6 DEF ViewInv
<1>4. CASE ~Asm
  <2> DEFINE L == Len(flight)
             R == D - L
             e == input.insts[i.key].marks
             p == timeline.PairingStack
  <2>1. /\ SourceShape /\ SrcMgr.Staging \in Seq(Own(given)) /\ D \in Nat
        /\ flight \in Seq(Flying(given)) /\ given \in 0 .. Len(input.insts)
    BY <1>4 DEF IdentInv, SourceShape
  <2>2. /\ L <= D /\ \A k \in 1 .. L : flight[k].idx = D - L + k - 1
        /\ Recorded(timeline, D, R, EndIdx)
    BY <1>4 DEF ViewInv
  <2>3. i \in Own(given)
    BY <1>1, <2>1
  <2>4. m = e
    <3>1. i.ident \in 0 .. (given - 1) /\ i.key = i.ident + 1
      BY <2>3 DEF Own
    <3> QED
      BY <1>4, <3>1, MarkersFacts
  <2>5. L \in Nat /\ R \in Nat /\ R <= D
    BY <2>1, <2>2
  <2>6. x \in Flying(given) /\ x.key = i.key /\ x.idx = D
    <3> HIDE DEF i, D
    <3> QED BY <2>1, <2>3 DEF Own, Flying, Instruction
  <2>7. SrcMgr'.TotalCounter = D + 1
    <3> DEFINE tl == Tail(SrcMgr.Staging)
    <3> HIDE DEF tl
    <3>1. SrcMgr' = [Staging |-> tl, TotalCounter |-> D + 1, EOS |-> SrcMgr.EOS]
      BY <1>1, <2>1 DEF tl, SourceShape
    <3> QED
      BY <3>1
  <2> HIDE DEF i, x, m
  <2>8. /\ Len(flight') = L + 1 /\ flight'[L+1] = x
        /\ \A k \in 1 .. L : flight'[k] = flight[k]
    BY <1>1, <2>1, <2>6
  <2>9. EndIdx' = IF "end" \in e THEN EndIdx \cup {D} ELSE EndIdx
    BY <1>1, <2>1, <2>6, EndIdxAppend
  <2>10. Legal(Len(p), e)
    BY <1>4 DEF i
  <2> HIDE DEF D, L, e
  <2>11. DispatchedOK(timeline', D, R, EndIdx', DepthAfter(Len(p), e))
    <3>1. timeline' = TimelineDispatched(timeline, D, e)
      BY <1>1, <2>4, Zenon
    <3>2. DispatchedOK(TimelineDispatched(timeline, D, e), D, R,
                       IF "end" \in e THEN EndIdx \cup {D} ELSE EndIdx,
                       DepthAfter(Len(p), e))
      BY <2>1, <2>2, <2>5, <2>10, DispatchRecorded
    <3> QED
      BY <2>9, <3>1, <3>2, Zenon
  <2>12. /\ Recorded(timeline', D + 1, R, EndIdx')
         /\ Len(timeline'.PairingStack) = DepthAfter(Len(p), e)
    BY <2>11, Zenon DEF DispatchedOK
  <2>13. Recorded(timeline, SrcMgr.TotalCounter, SrcMgr.TotalCounter - Len(flight), EndIdx)'
    <3>1. SrcMgr'.TotalCounter - Len(flight') = R
      BY <2>1, <2>5, <2>7, <2>8
    <3> QED
      BY <2>7, <2>12, <3>1
  <2>14. Len(flight') <= SrcMgr'.TotalCounter
    BY <2>1, <2>2, <2>5, <2>7, <2>8
  <2>15. ASSUME NEW k \in 1 .. Len(flight')
         PROVE  flight'[k].idx = SrcMgr'.TotalCounter - Len(flight') + k - 1
    <3>1. CASE k = L + 1
      BY <2>1, <2>5, <2>6, <2>7, <2>8, <3>1
    <3>2. CASE k # L + 1
      <4>1. k \in 1 .. L /\ flight'[k] = flight[k]
        BY <2>5, <2>8, <3>2
      <4>2. flight[k].idx = D - L + k - 1
        BY <2>2, <4>1
      <4> QED
        BY <2>1, <2>5, <2>7, <2>8, <4>1, <4>2
    <3> QED
      BY <3>1, <3>2
  <2> QED
    BY <1>1, <1>2, <1>4, <2>12, <2>13, <2>14, <2>15 DEF ViewInv, e, i
<1> QED
  BY <1>3, <1>4

\* A retirement keeps ViewInv.
LEMMA ViewRetire ==
  ASSUME IdentInv, ViewInv, ~Asm => MarksInv, Retire
  PROVE  ViewInv' /\ timeline'.PairingStack = timeline.PairingStack
<1> DEFINE i == Head(flight)
           m == Markers(MDRegistry, i.ident)
           t == TimelineRetired(timeline, i.idx, m)
<1>1. /\ flight # <<>> /\ flight' = Tail(flight)
      /\ timeline' = [t EXCEPT !.printed = <<>>] /\ timelines' = timelines \o t.printed
      /\ UNCHANGED <<input, MDRegistry, SrcMgr>>
  BY DEF Retire, instVars
<1>2. Asm' = Asm
  BY <1>1 DEF Asm
<1>3. timelines \in Seq(Complete)
  BY DEF ViewInv
<1>4. CASE Asm
  <2>1. m = {}
    BY <1>4 DEF ViewInv, Markers
  <2>2. timeline = NewTimeline
    BY <1>4 DEF ViewInv
  <2>3. NewTimeline.ActiveRegions = {}
    BY DEF NewTimeline
  <2>4. ~InActive(NewTimeline, i.idx)
    BY <2>3 DEF InActive
  <2> DEFINE p == <<>>
             A == {}
             T == [k \in {} |-> FALSE]
             y == TRUE
             o == (NewTimeline.ok /\ "end" \notin m)
  <2>5. NewTimeline = View(p, A, T, p, y)
    BY DEF NewTimeline, View
  <2>6. o = y
    <3>1. NewTimeline.ok = TRUE
      BY DEF NewTimeline
    <3> QED
      BY <2>1, <3>1, Zenon
  <2>7. t = [NewTimeline EXCEPT !.ok = o]
    BY <2>2, <2>4 DEF TimelineRetired
  <2> HIDE DEF o, t, p, A, T, y
  <2>8. t = NewTimeline
    <3>1. [NewTimeline EXCEPT !.ok = o] = View(p, A, T, p, o)
      BY <2>5, OkFacts
    <3> QED
      BY <2>5, <2>6, <2>7, <3>1, Zenon
  <2>9. t.printed = p
    BY <2>5, <2>8 DEF View
  <2>10. timeline' = [t EXCEPT !.printed = p]
    BY <1>1 DEF p
  <2>11. timeline' = NewTimeline
    <3>1. t = [PairingStack |-> p, ActiveRegions |-> A, Timeline |-> T, printed |-> p, ok |-> y]
      BY <2>5, <2>8, Zenon DEF View
    <3>2. [t EXCEPT !.printed = p] = t
      BY <3>1
    <3> QED
      BY <2>8, <2>10, <3>2, Zenon
  <2>12. timelines' = timelines
    BY <1>1, <1>3, <2>9 DEF p
  <2> QED
    BY <1>1, <1>2, <1>3, <1>4, <2>2, <2>11, <2>12 DEF ViewInv
<1>5. CASE ~Asm
  <2> DEFINE L == Len(flight)
             D == SrcMgr.TotalCounter
             R == D - L
             e == input.insts[i.key].marks
             p == timeline.PairingStack
             y == timeline.ok
  <2>1. /\ D \in Nat /\ flight \in Seq(Flying(given)) /\ given \in 0 .. Len(input.insts)
    BY <1>5 DEF IdentInv
  <2>2. /\ L <= D /\ \A k \in 1 .. L : flight[k].idx = D - L + k - 1
        /\ Recorded(timeline, D, R, EndIdx)
    BY <1>5 DEF ViewInv
  <2>3. i \in Flying(given) /\ i = flight[1] /\ L > 0 /\ L \in Nat
    BY <1>1, <2>1
  <2>4. m = e
    <3>1. i.ident \in 0 .. (given - 1) /\ i.key = i.ident + 1
      BY <2>3 DEF Flying
    <3> QED
      BY <1>5, <3>1, MarkersFacts
  <2>5. R \in Nat /\ R < D /\ R + 1 = D - (L - 1)
    BY <2>1, <2>2, <2>3
  <2>6. i.idx = R
    <3>1. 1 \in 1 .. L
      BY <2>3
    <3>2. flight[1].idx = D - L + 1 - 1
      BY <2>2, <3>1
    <3> QED
      BY <2>1, <2>3, <3>2
  <2>7. \A k \in 1 .. Len(flight) : flight[k].idx = R + k - 1
    BY <2>2
  <2>8. EndIdx' = EndIdx \ {R} /\ ("end" \in e <=> R \in EndIdx)
    BY <1>1, <2>1, <2>5, <2>7, EndIdxTail
  <2>9. EndIdx \subseteq R .. (D - 1) /\ y = TRUE
    BY <2>2 DEF Recorded
  <2> HIDE DEF i, m, e, D
  <2>10. RetiredOK(t, p, y, D, R, EndIdx)
    <3>1. t = TimelineRetired(timeline, R, e)
      BY <2>4, <2>6, Zenon
    <3>2. RetiredOK(TimelineRetired(timeline, R, e), p, y, D, R, EndIdx)
      BY <2>1, <2>2, <2>5, <2>8, RetireRecorded
    <3> QED
      BY <3>1, <3>2, Zenon
  <2> HIDE DEF t, R, p, y
  <2>11. /\ Recorded([t EXCEPT !.printed = <<>>], D, R + 1, EndIdx \ {R})
         /\ [t EXCEPT !.printed = <<>>].PairingStack = p
         /\ t.printed \in Seq(Complete)
    BY <2>1, <2>5, <2>9, <2>10, PrintedFacts
  <2>12. Recorded(timeline', D, R + 1, EndIdx') /\ timeline'.PairingStack = p
    BY <1>1, <2>8, <2>11, Zenon
  <2>13. timelines' \in Seq(Complete)
    BY <1>1, <1>3, <2>11, ConcatProperties
  <2>14. /\ Len(flight') = L - 1
         /\ \A k \in 1 .. (L - 1) : flight'[k] = flight[k+1]
    BY <1>1, <2>1
  <2>15. ASSUME NEW k \in 1 .. Len(flight')
         PROVE  flight'[k].idx = SrcMgr'.TotalCounter - Len(flight') + k - 1
    <3>1. k \in 1 .. (L - 1) /\ k + 1 \in 1 .. L
      BY <2>3, <2>14
    <3>2. flight'[k].idx = D - L + (k + 1) - 1
      BY <2>2, <2>14, <3>1
    <3>3. SrcMgr'.TotalCounter = D
      BY <1>1 DEF D
    <3> QED
      BY <2>1, <2>3, <2>14, <3>1, <3>2, <3>3
  <2>16. Recorded(timeline, SrcMgr.TotalCounter, SrcMgr.TotalCounter - Len(flight), EndIdx)'
    <3>1. SrcMgr'.TotalCounter = D
      BY <1>1 DEF D
    <3>2. D - Len(flight') = R + 1
      BY <2>5, <2>14
    <3> QED
      BY <2>12, <3>1, <3>2
  <2>17. Len(flight') <= SrcMgr'.TotalCounter
    BY <1>1, <2>1, <2>2, <2>3, <2>14 DEF D
  <2> QED
    BY <1>2, <1>5, <2>12, <2>13, <2>15, <2>16, <2>17 DEF ViewInv, p
<1> QED
  BY <1>4, <1>5

\* Where the worker is in the stream: a region that has ended leaves no marked
\* region open, and the pipeline is reset after it.
Place ==
  /\ pc = "main" => given = 0
  /\ pc \in {"main", "fetch"} => ~SrcMgr.EOS
  /\ pc = "report" => SrcMgr.EOS
  /\ SrcMgr.EOS /\ ~EndOfStream => Depth(input.insts)[given] = 0 /\ input.region

\* What is staged continues what the view has seen, up to what has been given;
\* while a batch is being converted, up to where that batch starts.
StageInv ==
  LET s == input.insts
      O == Depth(s)
      d == Len(timeline.PairingStack)
      n == Len(fetched.insts)
  IN  /\ Staged(SrcMgr.Staging, d, s, O)
      /\ pc = "convert" => /\ BatchFrom(s, n)
                           /\ EndDepth(SrcMgr.Staging, d, s, O) = O[given - n]
                           /\ n > 0 /\ s[given].last => SrcMgr.EOS
      /\ pc # "convert" /\ ~SrcMgr.EOS => EndDepth(SrcMgr.Staging, d, s, O) = O[given]

\* Both, for a stream: the markers that reach the view are legal because those
\* of the stream are.
LinkInv == ~Asm => MarksInv /\ Place /\ StageInv

\* Steps that only change pc.
LEMMA LinkSame ==
  ASSUME LinkInv, UNCHANGED <<input, given, MDRegistry, SrcMgr, EndOfStream>>,
         timeline'.PairingStack = timeline.PairingStack, pc # "convert", pc' # "convert",
         pc' # "main", pc' = "fetch" => ~SrcMgr.EOS, pc' = "report" => SrcMgr.EOS
  PROVE  LinkInv'
<1> SUFFICES ASSUME ~Asm' PROVE MarksInv' /\ Place' /\ StageInv'
  BY DEF LinkInv
<1>1. ~Asm
  BY DEF Asm
<1>2. MarksInv'
  BY <1>1 DEF LinkInv, MarksInv
<1>3. Depth(input.insts)' = Depth(input.insts)
  BY DEF Depth, IsDepth, Kept, Legal, DepthAfter
<1>4. Place'
  BY <1>1, <1>3 DEF LinkInv, Place
<1> DEFINE q == SrcMgr.Staging
           d == Len(timeline.PairingStack)
           s == input.insts
           O == Depth(s)
<1>5. Staged(q, d, s, O) /\ (~SrcMgr.EOS => EndDepth(q, d, s, O) = O[given])
  BY <1>1 DEF LinkInv, StageInv
<1>6. q' = q /\ d' = d /\ s' = s /\ O' = O /\ given' = given /\ SrcMgr'.EOS = SrcMgr.EOS
  BY <1>3
<1>7. StageInv' <=> /\ Staged(q', d', s', O')
                    /\ ~SrcMgr'.EOS => EndDepth(q', d', s', O') = O'[given']
  BY DEF StageInv
<1> HIDE DEF q, d, s, O
<1>8. StageInv'
  BY <1>5, <1>6, <1>7
<1> QED
  BY <1>2, <1>4, <1>8

\* A reset keeps LinkInv: no marked region is open there.
LEMMA LinkReset ==
  ASSUME LinkInv, ResetPipeline, UNCHANGED <<input, given, MDRegistry>>,
         pc' \notin {"convert", "main", "report"}, ~Asm => Depth(input.insts)[given] = 0
  PROVE  LinkInv'
<1> SUFFICES ASSUME ~Asm' PROVE MarksInv' /\ Place' /\ StageInv'
  BY DEF LinkInv
<1>1. ~Asm
  BY DEF Asm
<1>2. MarksInv'
  BY <1>1 DEF LinkInv, MarksInv
<1> DEFINE z == <<>>
<1>3. SrcMgr' = [Staging |-> z, TotalCounter |-> 0, EOS |-> FALSE] /\ timeline' = NewTimeline
  BY DEF ResetPipeline, NewSrcMgr
<1>4. NewTimeline.PairingStack = z /\ Len(z) = 0 /\ 1 .. Len(z) = {}
  BY DEF NewTimeline
<1> HIDE DEF z
<1>5. SrcMgr'.Staging = z /\ SrcMgr'.EOS = FALSE /\ timeline'.PairingStack = z
  BY <1>3, <1>4
<1>6. Place'
  BY <1>5, Zenon DEF Place
<1>7. (Depth(input.insts)[given])' = 0
  BY <1>1 DEF Depth, IsDepth, Kept, Legal, DepthAfter
<1>8. StageInv'
  BY <1>4, <1>5, <1>7 DEF StageInv, Staged, EndDepth
<1> QED
  BY <1>2, <1>6, <1>8

\* What follows a fetch: when the source manager is told of an end.
LEMMA AfterEOS ==
  ASSUME NEW l, NEW r, NEW reply, reply.Len = l, reply.rd = r, AfterFetch(reply), SourceShape,
         ~SrcMgr.EOS
  PROVE  /\ SrcMgr'.EOS <=> (l < 0 \/ r)
         /\ EndOfStream' <=> l < 0
         /\ pc' = "convert" /\ timeline' = timeline /\ timelines' = timelines
<1> DEFINE e == (SrcMgr.EOS \/ reply.Len < 0 \/ reply.rd)
           a == (reply.Len < 0)
<1>1. /\ SrcMgr' = [SrcMgr EXCEPT !.EOS = e] /\ EndOfStream' = a
      /\ pc' = "convert" /\ timeline' = timeline /\ timelines' = timelines
  BY DEF AfterFetch, pipelineVars
<1>2. (e <=> (l < 0 \/ r)) /\ (a <=> l < 0)
  BY Zenon
<1> HIDE DEF e, a
<1>3. SrcMgr' = [Staging |-> SrcMgr.Staging, TotalCounter |-> SrcMgr.TotalCounter,
                 EOS |-> e]
  BY <1>1 DEF SourceShape
<1>4. SrcMgr'.EOS = e
  BY <1>3
<1> QED
  BY <1>1, <1>2, <1>4, Zenon

\* A fetch keeps LinkInv: what is staged is what was staged.
LEMMA LinkFetched ==
  ASSUME ~Asm, LinkInv, ~SrcMgr.EOS, pc = "fetch", NEW n \in Nat, given \in Nat,
         input' = input, timeline' = timeline, SrcMgr'.Staging = SrcMgr.Staging,
         given' = given + n, pc' = "convert", Len(fetched'.insts) = n,
         MarksInv', BatchFrom(input.insts, n)', n > 0 /\ input.insts[given'].last => SrcMgr'.EOS,
         SrcMgr'.EOS /\ ~EndOfStream' => Depth(input.insts)[given'] = 0 /\ input.region
  PROVE  LinkInv'
<1> DEFINE q == SrcMgr.Staging
           d == Len(timeline.PairingStack)
           s == input.insts
           O == Depth(s)
           m == Len(fetched.insts)
<1>1. Staged(q, d, s, O) /\ EndDepth(q, d, s, O) = O[given]
  BY DEF LinkInv, StageInv
<1>2. Depth(input.insts)' = Depth(input.insts)
  BY DEF Depth, IsDepth, Kept, Legal, DepthAfter
<1>3. q' = q /\ d' = d /\ s' = s /\ O' = O /\ m' = n
  BY <1>2
<1>4. given' - n = given
  OBVIOUS
<1>5. StageInv' <=> /\ Staged(q', d', s', O')
                    /\ BatchFrom(s, m)'
                    /\ EndDepth(q', d', s', O') = O'[given' - m']
                    /\ m' > 0 /\ s'[given'].last => SrcMgr'.EOS
  BY DEF StageInv
<1>6. BatchFrom(s, m)'
  BY <1>3 DEF BatchFrom
<1>7. Place'
  BY <1>2 DEF Place
<1> HIDE DEF q, d, O, m
<1>8. StageInv'
  BY <1>1, <1>3, <1>4, <1>5, <1>6
<1> QED
  BY <1>7, <1>8 DEF LinkInv

\* The stream of a broker.
LEMMA StreamFacts ==
  ASSUME IdentInv, ~Asm
  PROVE  /\ input \in Inputs /\ input.kind = "stream"
         /\ Len(input.insts) \in Nat /\ given \in Nat /\ given <= Len(input.insts)
         /\ \A k \in 1 .. Len(input.insts) : input.insts[k].last => input.region
<1>1. input \in Inputs /\ given \in 0 .. Len(input.insts)
  BY DEF IdentInv
<1>2. InputOK(input) /\ input.kind = "stream"
  BY <1>1, WorkerAssumption DEF InputOK, Asm
<1> DEFINE s == input.insts
           T == [op : STRING, marks : RegionMarker, last : BOOLEAN, name : STRING]
<1>3. s \in Seq(T) /\ \A k \in DOMAIN s : s[k].last => input.region
  BY <1>2 DEF InputOK
<1> HIDE DEF s, T
<1>4. Len(s) \in Nat /\ DOMAIN s = 1 .. Len(s)
  BY <1>3
<1> QED
  BY <1>1, <1>2, <1>3, <1>4 DEF s

\* A batch keeps both invariants: its instructions are the next of the stream.
LEMMA LinkFetch ==
  ASSUME WellMarked, IdentInv, ViewInv, LinkInv,
         NEW n \in 0 .. MaxNumProcessedInst, FetchStream(n)
  PROVE  ViewInv' /\ LinkInv'
<1> DEFINE s == input.insts
           I == [k \in 1 .. n |-> [op |-> s[given + k].op, key |-> given + k]]
           X == [k \in 1 .. n |-> given + k - 1]
           end == (n > 0 /\ s[given + n].last)
           name == IF end THEN s[given + n].name ELSE ""
           R == [Len |-> n, rd |-> end, name |-> name, insts |-> I, MDIndexMap |-> X]
           marks(t) == s[t+1].marks
<1>1. /\ ~Asm /\ given + n <= Len(s) /\ given' = given + n /\ pc = "fetch"
      /\ \A k \in (given + 1) .. (given + n - 1) : ~s[k].last
      /\ MDRegistry' = [t \in 0 .. (given + n - 1) |-> [key |-> t + 1, marks |-> marks(t)]]
      /\ AfterFetch(R)
  BY DEF FetchStream
<1>2. SourceShape
  BY <1>1 DEF IdentInv, SourceShape
<1>3. /\ input \in Inputs /\ input.kind = "stream"
      /\ Len(s) \in Nat /\ given \in Nat /\ n \in Nat
      /\ \A k \in 1 .. Len(s) : s[k].last => input.region
  <2>1. n \in Nat
    BY WorkerAssumption
  <2> QED
    BY <1>1, <2>1, StreamFacts
<1>4. ~SrcMgr.EOS
  BY <1>1 DEF LinkInv, Place
<1>5. IsDepth(s, Depth(s))
  BY <1>3, DepthFacts
<1>6. Len(I) = n /\ \A k \in 1 .. n : I[k].key = given + k /\ I[k].op = s[given + k].op
  BY <1>3
<1> HIDE DEF s, I, X, end, name, marks
<1>7. R.Len = n /\ R.rd = end /\ R.insts = I
  OBVIOUS
<1> HIDE DEF R
<1>8. /\ fetched' = R /\ SrcMgr'.Staging = SrcMgr.Staging
      /\ SrcMgr'.TotalCounter = SrcMgr.TotalCounter
      /\ UNCHANGED <<input, flight>>
  BY <1>1, <1>2, AfterFacts
<1>9. /\ SrcMgr'.EOS <=> (n < 0 \/ end)
      /\ EndOfStream' <=> n < 0
      /\ pc' = "convert" /\ timeline' = timeline /\ timelines' = timelines
  BY <1>1, <1>2, <1>4, <1>7, AfterEOS
<1>10. ~(n < 0)
  BY <1>3
<1>11. ViewInv'
  BY <1>1, <1>8, <1>9, ViewSame
<1>12. MarksInv'
  <2>1. \A t \in 0 .. (given' - 1) : MDRegistry'[t].marks = marks(t)
    BY <1>1, <1>3
  <2> QED
    BY <1>8, <2>1 DEF MarksInv, marks, s
<1>13. fetched'.insts = I /\ Len(fetched'.insts) = n
  BY <1>6, <1>7, <1>8
<1>14. BatchFrom(input.insts, n)'
  <2>1. given' - n = given /\ n <= given'
    BY <1>1, <1>3
  <2>2. ASSUME NEW k \in 1 .. n PROVE I[k].key = given' - n + k /\ I[k].op = s[given' - n + k].op
    BY <1>6, <2>1
  <2>3. ASSUME NEW k \in 1 .. n, k < n PROVE ~s[given' - n + k].last
    <3>1. given' - n + k \in (given + 1) .. (given + n - 1)
      BY <1>1, <1>3, <2>1, <2>3
    <3> QED
      BY <1>1, <3>1
  <2> QED
    BY <1>8, <1>13, <2>1, <2>2, <2>3 DEF BatchFrom, s
<1>15. n > 0 /\ s[given'].last <=> end
  BY <1>1 DEF end
<1>16. ASSUME end PROVE Depth(s)[given'] = 0 /\ input.region
  <2>1. given' \in 1 .. Len(s) /\ s[given'].last
    BY <1>1, <1>3, <1>15, <1>16
  <2>2. Depth(s)[given'] = 0
    BY <1>5, <2>1 DEF IsDepth
  <2> QED
    BY <1>3, <2>1, <2>2
<1> QED
  BY <1>1, <1>3, <1>4, <1>8, <1>9, <1>10, <1>11, <1>12, <1>13, <1>14, <1>15, <1>16,
     LinkFetched DEF s

\* The fields of the last reply.
LEMMA EndReply ==
  ASSUME NEW a, NEW f, NEW c, NEW z, NEW w, NEW m, NEW g, NEW N,
         N = [Len |-> a, rd |-> f, name |-> c, insts |-> z, MDIndexMap |-> w]
  PROVE  LET R == [N EXCEPT !.Len = m, !.rd = g] IN R.Len = m /\ R.rd = g /\ R.insts = z
OBVIOUS

\* So does the end of the stream.
LEMMA LinkFetchEnd ==
  ASSUME IdentInv, ViewInv, LinkInv, FetchStreamEnd
  PROVE  ViewInv' /\ LinkInv'
<1> DEFINE m == -1
           g == input.region
           R == [NoBatch EXCEPT !.Len = m, !.rd = g]
           z == <<>>
           f == FALSE
<1>1. ~Asm /\ UNCHANGED <<given, MDRegistry>> /\ pc = "fetch" /\ AfterFetch(R)
  BY DEF FetchStreamEnd, brokerVars
<1>2. SourceShape
  BY <1>1 DEF IdentInv, SourceShape
<1>3. NoBatch = [Len |-> 0, rd |-> f, name |-> "", insts |-> z, MDIndexMap |-> z]
  BY DEF NoBatch
<1>4. Len(z) = 0 /\ m < 0
  OBVIOUS
<1> HIDE DEF z, m, g, f
<1>6. R.Len = m /\ R.rd = g /\ R.insts = z
  BY <1>3, EndReply
<1> HIDE DEF R
<1>7. ~SrcMgr.EOS
  BY <1>1 DEF LinkInv, Place
<1>8. /\ fetched' = R /\ SrcMgr'.Staging = SrcMgr.Staging
      /\ SrcMgr'.TotalCounter = SrcMgr.TotalCounter
      /\ UNCHANGED <<input, flight>>
  BY <1>1, <1>2, AfterFacts
<1>9. /\ EndOfStream' <=> m < 0
      /\ pc' = "convert" /\ timeline' = timeline /\ timelines' = timelines
  BY <1>1, <1>2, <1>6, <1>7, AfterEOS
<1>10. ViewInv'
  BY <1>1, <1>8, <1>9, ViewSame
<1>11. given \in Nat
  BY <1>1, StreamFacts
<1>12. MarksInv'
  BY <1>1, <1>8 DEF LinkInv, MarksInv
<1>13. Len(fetched'.insts) = 0
  BY <1>4, <1>6, <1>8
<1>14. BatchFrom(input.insts, 0)'
  BY <1>1, <1>11 DEF BatchFrom
<1>15. given' = given + 0 /\ EndOfStream' /\ ~(0 > 0)
  BY <1>1, <1>4, <1>9, <1>11
<1> QED
  BY <1>1, <1>7, <1>8, <1>9, <1>10, <1>11, <1>12, <1>13, <1>14, <1>15, LinkFetched

\* A step of the pipeline or of the conversion keeps LinkInv when what is
\* staged after it is right.
LEMMA LinkNow ==
  ASSUME ~Asm, MarksInv, UNCHANGED <<input, given, MDRegistry, EndOfStream>>,
         Place, pc' \notin {"convert", "main"}, SrcMgr'.EOS <=> SrcMgr.EOS,
         pc' = "fetch" => ~SrcMgr.EOS, pc' = "report" => SrcMgr.EOS,
         NEW q, SrcMgr'.Staging = q, NEW d, Len(timeline'.PairingStack) = d,
         Staged(q, d, input.insts, Depth(input.insts)),
         ~SrcMgr.EOS => EndDepth(q, d, input.insts, Depth(input.insts))
                          = Depth(input.insts)[given]
  PROVE  LinkInv'
<1> DEFINE s == input.insts
           O == Depth(s)
           r == SrcMgr.Staging
           e == Len(timeline.PairingStack)
<1>1. MarksInv'
  BY DEF MarksInv
<1>2. Depth(input.insts)' = Depth(input.insts)
  BY DEF Depth, IsDepth, Kept, Legal, DepthAfter
<1>3. Place'
  BY <1>2 DEF Place
<1>4. r' = q /\ e' = d /\ s' = s /\ O' = O
  BY <1>2
<1>5. StageInv' <=> /\ Staged(r', e', s', O')
                    /\ ~SrcMgr'.EOS => EndDepth(r', e', s', O') = O'[given']
  BY DEF StageInv
<1>6. Staged(q, d, s, O) /\ (~SrcMgr.EOS => EndDepth(q, d, s, O) = O[given])
  OBVIOUS
<1> HIDE DEF s, O, r, e
<1>7. StageInv'
  BY <1>4, <1>5, <1>6
<1> QED
  BY <1>1, <1>3, <1>7 DEF LinkInv

\* Conversion keeps both invariants.
LEMMA LinkConvert ==
  ASSUME WellMarked, IdentInv, ViewInv, LinkInv, Convert
  PROVE  ViewInv' /\ LinkInv'
<1> DEFINE n == Len(fetched.insts)
           b == Converted[n]
<1>1. /\ pc = "convert"
      /\ SrcMgr' = [SrcMgr EXCEPT !.Staging = b.staging]
      /\ pc' = CASE b.num > 0 -> "pipeline"
                 [] b.num = 0 /\ SrcMgr.EOS -> "report"
                 [] OTHER -> "fetch"
      /\ UNCHANGED <<input, given, MDRegistry, EndOfStream, flight, timeline, timelines>>
  BY DEF Convert, brokerVars, loopVars, pipelineVars
<1>2. Asm' = Asm
  BY <1>1 DEF Asm
<1>3. CASE Asm
  BY <1>1, <1>2, <1>3 DEF ViewInv, LinkInv
<1>4. CASE ~Asm
  <2> DEFINE s == input.insts
             O == Depth(s)
             d == Len(timeline.PairingStack)
  <2>1. /\ SourceShape /\ BatchOK(given) /\ SrcMgr.Staging \in Seq(Own(given))
        /\ RecycledInsts \in SUBSET Instruction
        /\ created \in Nat /\ NumTraceMIs \in Nat
    BY <1>1, <1>4 DEF IdentInv, SourceShape
  <2>2. /\ input \in Inputs /\ input.kind = "stream"
        /\ Len(s) \in Nat /\ given \in Nat /\ given <= Len(s)
    BY <1>4, StreamFacts
  <2>3. n \in Nat
    BY <2>1 DEF BatchOK
  <2>4. ConvertedAll(given, n)
    BY <1>4, <2>1, <2>2, ConvertedFacts
  <2>5. b.num \in Nat
    <3>1. b \in Loop(given)
      BY <2>3, <2>4 DEF ConvertedAll
    <3> QED
      BY <3>1 DEF Loop
  <2>6. IsDepth(s, O)
    BY <2>2, DepthFacts
  <2>7. /\ MarksInv /\ Place /\ BatchFrom(s, n) /\ StagedTo(SrcMgr.Staging, d, s, O, given - n)
        /\ n > 0 /\ s[given].last => SrcMgr.EOS
    BY <1>1, <1>4 DEF LinkInv, StageInv, StagedTo
  <2> HIDE DEF s, O, d, n
  <2>8. BatchStaged(b.staging, d, s, O, n)
    BY <1>4, <2>1, <2>2, <2>3, <2>4, <2>6, <2>7, StageAll DEF n
  <2>9. Staged(b.staging, d, s, O) /\ (~SrcMgr.EOS => EndDepth(b.staging, d, s, O) = O[given])
    BY <2>3, <2>7, <2>8 DEF BatchStaged
  <2> HIDE DEF b
  <2>10. SrcMgr' = [Staging |-> b.staging, TotalCounter |-> SrcMgr.TotalCounter,
                    EOS |-> SrcMgr.EOS]
    BY <1>1, <2>1 DEF SourceShape
  <2>11. /\ SrcMgr'.Staging = b.staging /\ SrcMgr'.TotalCounter = SrcMgr.TotalCounter
         /\ SrcMgr'.EOS = SrcMgr.EOS
    BY <2>10
  <2>12. /\ pc' \notin {"convert", "main"} /\ (pc' = "fetch" => ~SrcMgr.EOS)
         /\ (pc' = "report" => SrcMgr.EOS)
    BY <1>1, <2>5
  <2>13. ViewInv'
    BY <1>1, <2>11, ViewSame
  <2>14. Len(timeline'.PairingStack) = d
    BY <1>1 DEF d
  <2> QED
    BY <1>1, <1>4, <2>7, <2>9, <2>11, <2>12, <2>13, <2>14, LinkNow DEF s, O
<1> QED
  BY <1>3, <1>4

\* So does a dispatch: its markers are legal where it happens.
LEMMA LinkDispatch ==
  ASSUME WellMarked, IdentInv, ViewInv, LinkInv, Dispatch
  PROVE  ViewInv' /\ LinkInv'
<1> DEFINE q == SrcMgr.Staging
           i == Head(q)
           D == SrcMgr.TotalCounter
<1>1. /\ pc = "pipeline" /\ q # <<>>
      /\ SrcMgr' = [SrcMgr EXCEPT !.Staging = Tail(q), !.TotalCounter = D + 1]
      /\ UNCHANGED <<input, pc, given, MDRegistry, EndOfStream, timelines>>
  BY DEF Dispatch, brokerVars, loopVars
<1>2. Asm' = Asm
  BY <1>1 DEF Asm
<1>3. CASE Asm
  <2>1. ViewInv'
    BY <1>3, ViewDispatch
  <2> QED
    BY <1>2, <1>3, <2>1 DEF LinkInv
<1>4. CASE ~Asm
  <2> DEFINE s == input.insts
             O == Depth(s)
             d == Len(timeline.PairingStack)
             e == DepthAfter(d, s[i.key].marks)
  <2>1. SourceShape /\ q \in Seq(Own(given))
    BY <1>4 DEF IdentInv, SourceShape
  <2>2. /\ input \in Inputs /\ input.kind = "stream"
        /\ Len(s) \in Nat /\ given \in Nat /\ given <= Len(s)
    BY <1>4, StreamFacts
  <2>3. IsDepth(s, O)
    BY <2>2, DepthFacts
  <2>4. /\ MarksInv /\ Place /\ Staged(q, d, s, O)
        /\ ~SrcMgr.EOS => EndDepth(q, d, s, O) = O[given]
    BY <1>1, <1>4 DEF LinkInv, StageInv
  <2>5. i \in Own(given)
    BY <1>1, <2>1
  <2>6. i.key \in 1 .. Len(s)
    BY <2>2, <2>5 DEF Own, Instruction
  <2> HIDE DEF s, O, d, q
  <2>7. /\ O[i.key - 1] = d /\ Kept(s[i.key].op)
        /\ Staged(Tail(q), e, s, O) /\ EndDepth(Tail(q), e, s, O) = EndDepth(q, d, s, O)
    BY <1>1, <2>1, <2>4, StageTail
  <2>8. Legal(d, s[i.key].marks)
    BY <2>3, <2>6, <2>7 DEF IsDepth
  <2>9. ViewInv' /\ Len(timeline'.PairingStack) = e
    BY <1>4, <2>4, <2>8, ViewDispatch DEF d, s, q
  <2>10. SrcMgr'.Staging = Tail(q) /\ SrcMgr'.EOS = SrcMgr.EOS
    <3> DEFINE tl == Tail(SrcMgr.Staging)
    <3> HIDE DEF tl
    <3>1. SrcMgr' = [Staging |-> tl, TotalCounter |-> D + 1, EOS |-> SrcMgr.EOS]
      BY <1>1, <2>1 DEF tl, SourceShape, q
    <3> QED
      BY <3>1 DEF tl, q
  <2> HIDE DEF e
  <2> QED
    BY <1>1, <1>4, <2>4, <2>7, <2>9, <2>10, LinkNow DEF s, O
<1> QED
  BY <1>3, <1>4

-----------------------------------------------------------------------------
(* Dispatches that take several cycles.                                    *)

\* The instruction that is carried over is one of those dispatched, and its
\* token leads to no marker.
CarryInv ==
  ~Asm => /\ CarriedOver \in [left : Nat, ident : Int, idx : Nat]
          /\ CarriedOver.left > 0 =>
               /\ CarriedOver.idx < SrcMgr.TotalCounter
               /\ CarriedOver.ident \in 0 .. (given - 1)
               /\ input.insts[CarriedOver.ident + 1].marks = {}

\* Steps that leave it alone.
LEMMA CarrySame ==
  ASSUME CarryInv, UNCHANGED <<input, CarriedOver>>,
         ~Asm => /\ SrcMgr'.TotalCounter = SrcMgr.TotalCounter
                 /\ given \in Nat /\ given' \in Nat /\ given <= given'
  PROVE  CarryInv'
<1> SUFFICES ASSUME ~Asm'
             PROVE  (/\ CarriedOver \in [left : Nat, ident : Int, idx : Nat]
                     /\ CarriedOver.left > 0 =>
                          /\ CarriedOver.idx < SrcMgr.TotalCounter
                          /\ CarriedOver.ident \in 0 .. (given - 1)
                          /\ input.insts[CarriedOver.ident + 1].marks = {})'
  BY DEF CarryInv
<1>1. ~Asm
  BY DEF Asm
<1>2. /\ CarriedOver \in [left : Nat, ident : Int, idx : Nat]
      /\ CarriedOver.left > 0 =>
           /\ CarriedOver.idx < SrcMgr.TotalCounter
           /\ CarriedOver.ident \in 0 .. (given - 1)
           /\ input.insts[CarriedOver.ident + 1].marks = {}
  BY <1>1 DEF CarryInv
<1>3. \A k : k \in 0 .. (given - 1) => k \in 0 .. (given' - 1)
  BY <1>1
<1> QED
  BY <1>1, <1>2, <1>3

\* Nothing is carried over in a new pipeline.
LEMMA CarryReset ==
  ASSUME ResetPipeline
  PROVE  CarryInv'
<1>1. CarriedOver' = [left |-> 0, ident |-> -1, idx |-> 0]
  BY DEF ResetPipeline, NotCarried, NoIdentifier
<1>2. CarriedOver' \in [left : Nat, ident : Int, idx : Nat] /\ CarriedOver'.left = 0
  BY <1>1
<1>3. ~(CarriedOver'.left > 0)
  BY <1>2
<1> QED
  BY <1>2, <1>3 DEF CarryInv

\* What is carried over is what has just been dispatched, and microcoded.
LEMMA CarryDispatch ==
  ASSUME WellMarked, IdentInv, LinkInv, Dispatch
  PROVE  CarryInv'
<1> SUFFICES ASSUME ~Asm' PROVE CarryInv'
  BY DEF CarryInv
<1> DEFINE q == SrcMgr.Staging
           i == Head(q)
           D == SrcMgr.TotalCounter
           n == IF i.op = "micro" THEN CarryCycles ELSE 0
           s == input.insts
           O == Depth(s)
           d == Len(timeline.PairingStack)
<1>1. /\ q # <<>>
      /\ SrcMgr' = [SrcMgr EXCEPT !.Staging = Tail(q), !.TotalCounter = D + 1]
      /\ CarriedOver' = [left |-> n, ident |-> i.ident, idx |-> D]
      /\ UNCHANGED <<input, given>>
  BY DEF Dispatch, brokerVars
<1>2. ~Asm
  BY <1>1 DEF Asm
<1>3. SourceShape /\ q \in Seq(Own(given)) /\ D \in Nat
  BY <1>2 DEF IdentInv, SourceShape
<1>4. /\ input \in Inputs /\ input.kind = "stream"
      /\ Len(s) \in Nat /\ given \in Nat /\ given <= Len(s)
  BY <1>2, StreamFacts
<1>5. Staged(q, d, s, O)
  BY <1>2 DEF LinkInv, StageInv
<1>6. i \in Own(given)
  BY <1>1, <1>3
<1>7. i.op = s[i.key].op
  <2> HIDE DEF q, d, s, O
  <2> QED
    BY <1>1, <1>3, <1>5, StageTail
<1> HIDE DEF i
<1>8. i.ident \in 0 .. (given - 1) /\ i.key = i.ident + 1 /\ i.ident \in Int
  BY <1>4, <1>6 DEF Own, Instruction
<1>9. i.key \in 1 .. Len(s)
  BY <1>4, <1>8
<1>10. i.op = "micro" => s[i.key].marks = {}
  BY <1>4, <1>7, <1>9 DEF WellMarked
<1>11. n \in Nat /\ (n > 0 => i.op = "micro")
  BY WorkerAssumption
<1>12. SrcMgr'.TotalCounter = D + 1
  <2> DEFINE tl == Tail(SrcMgr.Staging)
  <2> HIDE DEF tl
  <2>1. SrcMgr' = [Staging |-> tl, TotalCounter |-> D + 1, EOS |-> SrcMgr.EOS]
    BY <1>1, <1>3 DEF tl, SourceShape, q
  <2> QED
    BY <2>1
<1> HIDE DEF n, D
<1>13. /\ CarriedOver' \in [left : Nat, ident : Int, idx : Nat]
       /\ CarriedOver'.left = n /\ CarriedOver'.ident = i.ident /\ CarriedOver'.idx = D
  BY <1>1, <1>3, <1>8, <1>11
<1>14. D < SrcMgr'.TotalCounter
  BY <1>3, <1>12
<1>15. n > 0 => s[i.ident + 1].marks = {}
  BY <1>8, <1>10, <1>11
<1>16. input'.insts = s /\ given' = given
  BY <1>1
<1> QED
  BY <1>8, <1>13, <1>14, <1>15, <1>16 DEF CarryInv

\* Another cycle of the same dispatch changes nothing in the timeline view: the
\* row of the instruction is there.
LEMMA RedispatchSame ==
  ASSUME IdentInv, ViewInv, LinkInv, CarryInv, Redispatch
  PROVE  timeline' = timeline /\ CarryInv'
<1> DEFINE c == CarriedOver
           k == c.idx
           m == Markers(MDRegistry, c.ident)
           l == c.left - 1
<1>1. /\ c.left > 0 /\ CarriedOver' = [c EXCEPT !.left = l]
      /\ timeline' = TimelineDispatched(timeline, k, m)
      /\ UNCHANGED <<input, given, SrcMgr>>
  BY DEF Redispatch, brokerVars, instVars
<1>2. Asm' = Asm
  BY <1>1 DEF Asm
<1>3. ASSUME m = {}, InActive(timeline, k) => k \in DOMAIN timeline.Timeline
      PROVE  timeline' = timeline
  <2> HIDE DEF m, k
  <2>1. TimelineDispatched(timeline, k, m) = timeline
    BY <1>3 DEF TimelineDispatched
  <2> QED
    BY <1>1, <2>1, Zenon
<1>4. CASE Asm
  <2>1. m = {}
    BY <1>4 DEF ViewInv, Markers
  <2>2. timeline.ActiveRegions = {}
    <3>1. timeline = NewTimeline
      BY <1>4 DEF ViewInv
    <3>2. NewTimeline.ActiveRegions = {}
      BY DEF NewTimeline
    <3> QED
      BY <3>1, <3>2
  <2>3. ~InActive(timeline, k)
    BY <2>2 DEF InActive
  <2> QED
    BY <1>2, <1>3, <1>4, <2>1, <2>3 DEF CarryInv
<1>5. CASE ~Asm
  <2> DEFINE D == SrcMgr.TotalCounter
  <2>1. /\ c \in [left : Nat, ident : Int, idx : Nat] /\ k < D
        /\ c.ident \in 0 .. (given - 1) /\ input.insts[c.ident + 1].marks = {}
    BY <1>1, <1>5 DEF CarryInv
  <2>2. D \in Nat /\ k \in Nat
    BY <1>5, <2>1 DEF IdentInv
  <2>3. m = {}
    <3>1. DOMAIN MDRegistry = 0 .. (given - 1)
      BY <1>5 DEF IdentInv
    <3>2. MarksInv
      BY <1>5 DEF LinkInv
    <3> QED
      BY <2>1, <3>1, <3>2 DEF Markers, MarksInv
  <2>4. Rows(timeline.ActiveRegions, timeline.Timeline, D, D - Len(flight))
    BY <1>5 DEF ViewInv, Recorded
  <2>5. k \in 0 .. (D - 1)
    BY <2>1, <2>2
  <2> HIDE DEF D, k
  <2>6. InActive(timeline, k) => k \in DOMAIN timeline.Timeline
    BY <2>4, <2>5 DEF Rows, InActive
  <2>7. timeline' = timeline
    BY <1>3, <2>3, <2>6 DEF k
  <2>8. l \in Nat
    BY <1>1, <2>1
  <2> HIDE DEF l, c
  <2>9. /\ CarriedOver' \in [left : Nat, ident : Int, idx : Nat]
        /\ CarriedOver'.ident = c.ident /\ CarriedOver'.idx = c.idx
    BY <1>1, <2>1, <2>8
  <2> QED
    BY <1>1, <1>2, <2>1, <2>7, <2>9 DEF CarryInv, D, k
<1> QED
  BY <1>4, <1>5

\* Every step keeps CarryInv.
LEMMA CarryStep ==
  ASSUME WellMarked, IdentInv, ViewInv, LinkInv, CarryInv, [Next]_vars
  PROVE  CarryInv'
<1>1. ASSUME UNCHANGED <<input, given, SrcMgr, CarriedOver>> PROVE CarryInv'
  BY <1>1, CarrySame, StreamFacts
<1>2. CASE Main
  <2>1. UNCHANGED <<input, given>> /\ (UNCHANGED resetVars \/ ResetPipeline)
    BY <1>2 DEF Main, brokerVars
  <2> QED
    BY <1>1, <2>1, CarryReset DEF resetVars
<1>3. CASE FetchAsm
  <2>1. Asm /\ input' = input
    BY <1>3 DEF FetchAsm, AfterFetch
  <2> QED
    BY <2>1 DEF CarryInv, Asm
<1>4. ASSUME NEW reply, AfterFetch(reply), ~Asm, NEW n \in Nat, given' = given + n
      PROVE  CarryInv'
  <2>1. SourceShape
    BY <1>4 DEF IdentInv, SourceShape
  <2>2. input' = input /\ SrcMgr'.TotalCounter = SrcMgr.TotalCounter
    BY <1>4, <2>1, AfterFacts
  <2>3. CarriedOver' = CarriedOver
    BY <1>4 DEF AfterFetch, pipelineVars
  <2>4. given \in Nat
    BY <1>4, StreamFacts
  <2> QED
    BY <1>4, <2>2, <2>3, <2>4, CarrySame
<1>5. ASSUME NEW n \in 0 .. MaxNumProcessedInst, FetchStream(n) PROVE CarryInv'
  <2>1. n \in Nat
    BY WorkerAssumption
  <2> QED
    BY <1>4, <1>5, <2>1 DEF FetchStream
<1>6. CASE FetchStreamEnd
  <2>1. ~Asm /\ given' = given
    BY <1>6 DEF FetchStreamEnd, brokerVars
  <2>2. given' = given + 0
    BY <2>1, StreamFacts
  <2> QED
    BY <1>4, <1>6, <2>1, <2>2 DEF FetchStreamEnd
<1>7. CASE Convert
  <2> DEFINE w == Converted[Len(fetched.insts)].staging
  <2>1. SrcMgr' = [SrcMgr EXCEPT !.Staging = w] /\ UNCHANGED <<input, given, CarriedOver>>
    BY <1>7 DEF Convert, brokerVars, pipelineVars
  <2> HIDE DEF w
  <2>2. ASSUME ~Asm PROVE SrcMgr'.TotalCounter = SrcMgr.TotalCounter
    <3>1. SourceShape
      BY <2>2 DEF IdentInv, SourceShape
    <3>2. SrcMgr' = [Staging |-> w, TotalCounter |-> SrcMgr.TotalCounter, EOS |-> SrcMgr.EOS]
      BY <2>1, <3>1 DEF SourceShape
    <3> QED
      BY <3>2
  <2> QED
    BY <2>1, <2>2, CarrySame, StreamFacts
<1>8. CASE Dispatch
  BY <1>8, CarryDispatch
<1>9. CASE Redispatch
  BY <1>9, RedispatchSame
<1>10. CASE Retire \/ Pause \/ Finish \/ PipelineError
  BY <1>1, <1>10 DEF Retire, Pause, Finish, PipelineError, pipelineVars, instVars, brokerVars
<1>11. CASE Report
  <2>1. UNCHANGED <<input, given>> /\ (UNCHANGED resetVars \/ ResetPipeline)
    BY <1>11 DEF Report, brokerVars
  <2> QED
    BY <1>1, <2>1, CarryReset DEF resetVars
<1>12. CASE UNCHANGED vars
  BY <1>1, <1>12 DEF vars, pipelineVars, instVars, brokerVars
<1> QED
  BY <1>2, <1>3, <1>5, <1>6, <1>7, <1>8, <1>9, <1>10, <1>11, <1>12 DEF Next

-----------------------------------------------------------------------------
(* The theorem about the timelines.                                        *)

\* The inductive invariant behind TimelinesAreComplete.
TimelineInv == IdentInv /\ ViewInv /\ LinkInv /\ CarryInv

\* It holds at the start.
LEMMA TimelineInit == WellMarked /\ Init => TimelineInv
<1> SUFFICES ASSUME WellMarked, Init PROVE TimelineInv
  OBVIOUS
<1>1. IdentInv
  BY IdentInit
<1> DEFINE z == <<>>
<1>2. /\ pc = "main" /\ given = 0 /\ timeline = NewTimeline /\ MDRegistry = z
      /\ SrcMgr = NewSrcMgr /\ flight = z /\ timelines = z
      /\ CarriedOver = [left |-> 0, ident |-> -1, idx |-> 0]
  BY DEF Init, NotCarried, NoIdentifier
<1>3. z \in Seq(Complete) /\ DOMAIN z = {} /\ Len(z) = 0 /\ 1 .. Len(z) = {}
  OBVIOUS
<1>4. NewSrcMgr = [Staging |-> z, TotalCounter |-> 0, EOS |-> FALSE]
  BY DEF NewSrcMgr
<1>5. NewTimeline.PairingStack = z
  BY DEF NewTimeline
<1> HIDE DEF z
<1>6. SrcMgr.Staging = z /\ SrcMgr.TotalCounter = 0 /\ ~SrcMgr.EOS
  BY <1>2, <1>4
<1>7. EndIdx = {} /\ Len(flight) = 0 /\ 1 .. Len(flight) = {}
  BY <1>2, <1>3 DEF EndIdx
<1>8. Recorded(timeline, SrcMgr.TotalCounter, SrcMgr.TotalCounter - Len(flight), EndIdx)
  <2>1. SrcMgr.TotalCounter - Len(flight) = 0
    BY <1>6, <1>7
  <2> QED
    BY <1>2, <1>6, <1>7, <2>1, NewRecorded
<1>9. ViewInv
  BY <1>2, <1>3, <1>6, <1>7, <1>8 DEF ViewInv
<1>10. ASSUME ~Asm PROVE MarksInv /\ Place /\ StageInv
  <2>1. IsDepth(input.insts, Depth(input.insts))
    BY <1>1, <1>10, StreamFacts, DepthFacts
  <2>2. Depth(input.insts)[given] = 0
    BY <1>2, <2>1 DEF IsDepth
  <2>3. 0 .. (given - 1) = {}
    BY <1>2
  <2>4. MarksInv
    BY <2>3 DEF MarksInv
  <2>5. Place
    BY <1>2, <1>6 DEF Place
  <2>6. StageInv
    BY <1>2, <1>3, <1>5, <1>6, <2>2 DEF StageInv, Staged, EndDepth
  <2> QED
    BY <2>4, <2>5, <2>6
<1>11. CarryInv
  <2>1. CarriedOver \in [left : Nat, ident : Int, idx : Nat] /\ ~(CarriedOver.left > 0)
    BY <1>2
  <2> QED
    BY <2>1 DEF CarryInv
<1> QED
  BY <1>1, <1>9, <1>10, <1>11 DEF TimelineInv, LinkInv

\* Every step keeps it.
LEMMA TimelineStep == WellMarked /\ TimelineInv /\ [Next]_vars => TimelineInv'
<1> SUFFICES ASSUME WellMarked, IdentInv, ViewInv, LinkInv, CarryInv, [Next]_vars
             PROVE  ViewInv' /\ LinkInv'
  BY IdentStep, CarryStep DEF TimelineInv
<1>1. ASSUME UNCHANGED <<input, given, MDRegistry, SrcMgr, EndOfStream, flight, timeline,
                         timelines>>,
             pc' \notin {"convert", "main"}, pc # "convert",
             ~Asm => (pc' = "fetch" => ~SrcMgr.EOS) /\ (pc' = "report" => SrcMgr.EOS)
      PROVE  ViewInv' /\ LinkInv'
  <2>1. ViewInv'
    BY <1>1, ViewSame
  <2>2. CASE Asm
    BY <1>1, <2>1, <2>2 DEF LinkInv, Asm
  <2>3. CASE ~Asm
    BY <1>1, <2>1, <2>3, LinkSame
  <2> QED
    BY <2>2, <2>3
<1>2. ASSUME ResetPipeline, UNCHANGED <<input, given, MDRegistry, timelines>>,
             pc' \notin {"convert", "main", "report"}, ~Asm => Depth(input.insts)[given] = 0
      PROVE  ViewInv' /\ LinkInv'
  BY <1>2, ViewReset, LinkReset
<1>3. CASE Main
  <2>1. /\ UNCHANGED <<input, given, MDRegistry, EndOfStream, timelines>>
        /\ pc' \in {"failed", "fetch"} /\ pc = "main"
        /\ UNCHANGED resetVars \/ ResetPipeline
    BY <1>3 DEF Main, brokerVars, loopVars
  <2>2. ASSUME ~Asm PROVE ~SrcMgr.EOS /\ Depth(input.insts)[given] = 0
    <3>1. given = 0 /\ ~SrcMgr.EOS
      BY <2>1, <2>2 DEF LinkInv, Place
    <3>2. IsDepth(input.insts, Depth(input.insts))
      BY <2>2, StreamFacts, DepthFacts
    <3> QED
      BY <3>1, <3>2 DEF IsDepth
  <2> QED
    BY <1>1, <1>2, <2>1, <2>2 DEF resetVars
<1>4. CASE FetchAsm
  <2>1. /\ Asm /\ UNCHANGED <<input, timeline, timelines, MDRegistry>>
    BY <1>4 DEF FetchAsm, AfterFetch, pipelineVars
  <2> QED
    BY <2>1 DEF ViewInv, LinkInv, Asm
<1>5. ASSUME NEW n \in 0 .. MaxNumProcessedInst, FetchStream(n) PROVE ViewInv' /\ LinkInv'
  BY <1>5, LinkFetch
<1>6. CASE FetchStreamEnd
  BY <1>6, LinkFetchEnd
<1>7. CASE Convert
  BY <1>7, LinkConvert
<1>8. CASE Dispatch
  BY <1>8, LinkDispatch
<1>9. CASE Retire
  <2>1. /\ UNCHANGED <<input, pc, given, MDRegistry, SrcMgr, EndOfStream>> /\ pc = "pipeline"
    BY <1>9 DEF Retire, brokerVars, loopVars, instVars
  <2>2. ~Asm => MarksInv
    BY DEF LinkInv
  <2>3. ViewInv' /\ timeline'.PairingStack = timeline.PairingStack
    BY <1>9, <2>2, ViewRetire
  <2> QED
    BY <2>1, <2>3, LinkSame
<1>10. CASE Pause \/ Finish \/ PipelineError
  BY <1>1, <1>10 DEF Pause, Finish, PipelineError, pipelineVars, instVars, brokerVars, loopVars
<1>11. CASE Report
  <2>1. /\ UNCHANGED <<input, given, MDRegistry, EndOfStream, timelines>> /\ pc = "report"
        /\ pc' = IF EndOfStream THEN "done" ELSE "fetch"
        /\ IF ~EndOfStream /\ UseRegion THEN ResetPipeline ELSE UNCHANGED resetVars
    BY <1>11 DEF Report, brokerVars
  <2>2. ASSUME ~Asm, ~EndOfStream PROVE Depth(input.insts)[given] = 0 /\ input.region
    BY <2>1, <2>2 DEF LinkInv, Place
  <2>3. CASE EndOfStream
    BY <1>1, <2>1, <2>3 DEF resetVars
  <2>4. CASE ~EndOfStream
    BY <1>2, <2>1, <2>2, <2>4 DEF UseRegion
  <2> QED
    BY <2>3, <2>4
<1>13. CASE Redispatch
  <2>1. /\ UNCHANGED <<input, given, MDRegistry, SrcMgr, EndOfStream, flight, timelines>>
        /\ pc = "pipeline" /\ pc' = "pipeline"
    BY <1>13 DEF Redispatch, brokerVars, loopVars, instVars
  <2>2. timeline' = timeline
    BY <1>13, RedispatchSame
  <2> QED
    BY <1>1, <2>1, <2>2
<1>12. CASE UNCHANGED vars
  <2>1. UNCHANGED <<input, pc, given, fetched, MDRegistry, SrcMgr, EndOfStream, flight, timeline,
                    timelines>>
    BY <1>12 DEF vars, pipelineVars, instVars, brokerVars, loopVars
  <2>2. ViewInv'
    BY <2>1, ViewSame
  <2>3. Asm' = Asm /\ MarksInv' = MarksInv
    BY <2>1 DEF Asm, MarksInv
  <2> DEFINE s == input.insts
             O == Depth(s)
             q == SrcMgr.Staging
             d == Len(timeline.PairingStack)
             n == Len(fetched.insts)
  <2>4. s' = s /\ O' = O /\ q' = q /\ d' = d /\ n' = n
    BY <2>1 DEF Depth, IsDepth, Kept, Legal, DepthAfter
  <2>5. BatchFrom(s, n)' = BatchFrom(s, n)
    BY <2>1 DEF BatchFrom
  <2>6. Place' = Place
    BY <2>1, <2>4 DEF Place
  <2>7. StageInv <=> /\ Staged(q, d, s, O)
                     /\ pc = "convert" => /\ BatchFrom(s, n)
                                          /\ EndDepth(q, d, s, O) = O[given - n]
                                          /\ n > 0 /\ s[given].last => SrcMgr.EOS
                     /\ pc # "convert" /\ ~SrcMgr.EOS => EndDepth(q, d, s, O) = O[given]
    BY DEF StageInv
  <2>8. StageInv' <=> /\ Staged(q', d', s', O')
                      /\ pc' = "convert" => /\ BatchFrom(s, n)'
                                            /\ EndDepth(q', d', s', O') = O'[given' - n']
                                            /\ n' > 0 /\ s'[given'].last => SrcMgr'.EOS
                      /\ pc' # "convert" /\ ~SrcMgr'.EOS => EndDepth(q', d', s', O') = O'[given']
    BY DEF StageInv
  <2> HIDE DEF s, O, q, d, n
  <2>9. StageInv' <=> StageInv
    BY <2>1, <2>4, <2>5, <2>7, <2>8
  <2> QED
    BY <2>2, <2>3, <2>6, <2>9 DEF LinkInv
<1> QED
  BY <1>3, <1>4, <1>5, <1>6, <1>7, <1>8, <1>9, <1>10, <1>11, <1>12, <1>13 DEF Next

\* For every stream whose markers match, do not nest and are not on a microcoded
\* instruction, however it is cut into batches and regions, whatever is dispatched
\* before an earlier region has retired, and however many Dispatched events the
\* microcoded instructions between the markers have: the view never meets an end marker without its begin marker, and
\* every timeline it prints has a row for each instruction of its region.
THEOREM TimelinesAreComplete == WellMarked => (Spec => []TimelinesComplete)
<1> SUFFICES ASSUME WellMarked PROVE Spec => []TimelinesComplete
  OBVIOUS
<1>1. Init => TimelineInv
  BY TimelineInit
<1>2. TimelineInv /\ [Next]_vars => TimelineInv'
  BY TimelineStep
<1>3. TimelineInv => TimelinesComplete
  <2> SUFFICES ASSUME ViewInv PROVE TimelinesComplete
    BY DEF TimelineInv
  <2>1. timeline.ok
    <3>1. CASE Asm
      <4>1. timeline = NewTimeline
        BY <3>1 DEF ViewInv
      <4>2. NewTimeline.ok = TRUE
        BY DEF NewTimeline
      <4> QED
        BY <4>1, <4>2, Zenon
    <3>2. CASE ~Asm
      <4>1. timeline.ok = TRUE
        BY <3>2 DEF ViewInv, Recorded
      <4> QED
        BY <4>1, Zenon
    <3> QED
      BY <3>1, <3>2
  <2>2. ASSUME NEW k \in DOMAIN timelines
        PROVE  timelines[k].rows = timelines[k].region.First .. timelines[k].region.Last
    <3>1. timelines \in Seq(Complete)
      BY DEF ViewInv
    <3>2. timelines[k] \in Complete
      <4> HIDE DEF Complete
      <4> QED BY <3>1
    <3> QED
      BY <3>2 DEF Complete
  <2> QED
    BY <2>1, <2>2 DEF TimelinesComplete
<1> QED
  BY <1>1, <1>2, <1>3, PTL DEF Spec

===============================================================================
