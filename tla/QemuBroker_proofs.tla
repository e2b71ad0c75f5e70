--------------------------- MODULE QemuBroker_proofs --------------------------
(***************************************************************************)
(* Theorems about the QEMU broker: what fetchRegion finds in its queue is  *)
(* decoded, what it copies is there, what it hands over stays there, and   *)
(* the worker is given the executed instructions, in order.                *)
(***************************************************************************)
EXTENDS QemuBroker, SequenceTheorems, WellFoundedInduction, TLAPS

-----------------------------------------------------------------------------
(* Recursive functions.                                                    *)

\* A nonempty set of natural numbers has a least element.
LEMMA NatMin ==
  ASSUME NEW S, S \subseteq Nat, S # {}
  PROVE  \E m \in S : \A k \in S : m <= k
<1>1. IsWellFoundedOn(OpToRel(<, Nat), Nat)
  BY NatLessThanWellFounded
<1>2. PICK x \in S : \A y \in S : ~(<<y, x>> \in OpToRel(<, Nat))
  BY <1>1, WFMin
<1>3. \A y \in S : ~(y < x)
  BY <1>2 DEF OpToRel
<1>4. QED BY <1>3

\* A function on lo .. n with values in S, given by its first value and by the
\* step G from each value to the next.
IsRecursion(f, lo, n, S, a, G) ==
  /\ f \in [lo .. n -> S]
  /\ \A k \in lo .. n : f[k] = IF k = lo THEN a ELSE G[k][f[k-1]]

\* There is such a function.
LEMMA RecursionExists ==
  ASSUME NEW lo \in Nat, NEW n \in Nat, NEW S, NEW a \in S, NEW G \in [1 .. n -> [S -> S]]
  PROVE  \E f : IsRecursion(f, lo, n, S, a, G)
<1> DEFINE P(m) == \E f \in [lo .. m -> S] :
                     \A k \in lo .. m : f[k] = IF k = lo THEN a ELSE G[k][f[k-1]]
           B == {m \in Nat : m >= lo /\ m <= n /\ ~P(m)}
<1> SUFFICES ASSUME ~P(n) PROVE FALSE
  BY DEF IsRecursion
<1>1. lo <= n
  <2> SUFFICES ASSUME n < lo PROVE FALSE
    OBVIOUS
  <2>1. lo .. n = {}
    OBVIOUS
  <2>2. [k \in lo .. n |-> a] \in [lo .. n -> S]
    OBVIOUS
  <2>3. P(n)
    BY <2>1, <2>2
  <2> QED
    BY <2>3
<1>2. n \in B
  BY <1>1
<1>3. PICK m \in B : \A k \in B : m <= k
  <2>1. B \subseteq Nat /\ B # {}
    BY <1>2
  <2> HIDE DEF B
  <2> QED
    BY <2>1, NatMin
<1>4. m \in Nat /\ m >= lo /\ m <= n /\ ~P(m)
  OBVIOUS
<1>5. CASE m = lo
  <2> DEFINE f == [k \in lo .. m |-> a]
  <2>1. f \in [lo .. m -> S] /\ \A k \in lo .. m : f[k] = IF k = lo THEN a ELSE G[k][f[k-1]]
    BY <1>5
  <2> QED
    BY <1>4, <2>1
<1>6. CASE m # lo
  <2>1. m - 1 \in Nat /\ m - 1 >= lo /\ m - 1 <= n /\ m \in 1 .. n
    BY <1>4, <1>6
  <2>2. P(m - 1)
    <3> HIDE DEF P
    <3>1. m - 1 \notin B
      BY <1>3, <2>1
    <3> QED
      BY <2>1, <3>1
  <2>3. PICK f \in [lo .. (m - 1) -> S] :
               \A k \in lo .. (m - 1) : f[k] = IF k = lo THEN a ELSE G[k][f[k-1]]
    BY <2>2
  <2> DEFINE g == [k \in lo .. m |-> IF k = m THEN G[m][f[m-1]] ELSE f[k]]
  <2>4. G[m][f[m-1]] \in S
    BY <2>1
  <2>5. g \in [lo .. m -> S]
    BY <1>4, <2>4
  <2>6. ASSUME NEW k \in lo .. m PROVE g[k] = IF k = lo THEN a ELSE G[k][g[k-1]]
    <3>1. CASE k = m
      BY <1>4, <1>6, <2>1, <3>1
    <3>2. CASE k # m
      <4>1. k \in lo .. (m - 1) /\ g[k] = f[k]
        BY <1>4, <3>2
      <4>2. k # lo => g[k-1] = f[k-1]
        BY <1>4, <3>2
      <4> QED
        BY <2>3, <4>1, <4>2
    <3> QED
      BY <3>1, <3>2
  <2> QED
    BY <1>4, <2>5, <2>6
<1> QED
  BY <1>5, <1>6

\* If the first value is in S and each step stays in S, all values are.
LEMMA RecursionType ==
  ASSUME NEW lo \in Nat, NEW n \in Nat, NEW S, NEW f, f[lo] \in S,
         \A k \in (lo + 1) .. n : f[k-1] \in S => f[k] \in S
  PROVE  \A k \in lo .. n : f[k] \in S
<1> DEFINE B == {m \in Nat : m >= lo /\ m <= n /\ f[m] \notin S}
<1> SUFFICES ASSUME B # {} PROVE FALSE
  OBVIOUS
<1>1. PICK m \in B : \A k \in B : m <= k
  <2>1. B \subseteq Nat
    OBVIOUS
  <2> HIDE DEF B
  <2> QED
    BY <2>1, NatMin
<1>2. m # lo /\ m \in (lo + 1) .. n /\ m - 1 \in Nat /\ m - 1 >= lo
  OBVIOUS
<1>3. m - 1 \notin B
  BY <1>1, <1>2
<1> QED
  BY <1>1, <1>2, <1>3

\* The running sums of p, from a.
IsSum(f, n, a, p) ==
  /\ f \in [0 .. n -> Int]
  /\ f = [r \in 0 .. n |-> IF r = 0 THEN a ELSE f[r-1] + p[r]]

\* There are running sums.
LEMMA SumExists ==
  ASSUME NEW n \in Nat, NEW a \in Int, NEW p, \A k \in 1 .. n : p[k] \in Int
  PROVE  \E f : IsSum(f, n, a, p)
<1> DEFINE G == [k \in 1 .. n |-> [x \in Int |-> x + p[k]]]
<1>1. G \in [1 .. n -> [Int -> Int]] /\ 0 \in Nat
  OBVIOUS
<1>2. \A k \in 1 .. n : \A x \in Int : G[k][x] = x + p[k]
  OBVIOUS
<1> HIDE DEF G
<1>3. PICK f : IsRecursion(f, 0, n, Int, a, G)
  BY <1>1, RecursionExists
<1>4. ASSUME NEW k \in 0 .. n, k # 0 PROVE G[k][f[k-1]] = f[k-1] + p[k]
  <2>1. k \in 1 .. n /\ k - 1 \in 0 .. n
    BY <1>4
  <2>2. f[k-1] \in Int
    BY <1>3, <2>1 DEF IsRecursion
  <2> QED
    BY <1>2, <2>1, <2>2
<1>5. IsSum(f, n, a, p)
  BY <1>3, <1>4 DEF IsRecursion, IsSum
<1> QED
  BY <1>5

\* MCInsts are counted by natural numbers.
LEMMA StartsType ==
  ASSUME NEW b, b.parts \in Seq(Nat)
  PROVE  Starts(b) \in [0 .. Len(b.parts) -> Nat]
<1> DEFINE n == Len(b.parts)
           p == b.parts
           st == Starts(b)
<1>1. n \in Nat /\ 0 \in Nat /\ 0 \in Int /\ \A k \in 1 .. n : p[k] \in Nat /\ p[k] \in Int
  OBVIOUS
<1>2. st = CHOOSE f : f = [r \in 0 .. n |-> IF r = 0 THEN 0 ELSE f[r-1] + p[r]]
  BY DEF Starts
<1> HIDE DEF n, p, st
<1>3. PICK f : IsSum(f, n, 0, p)
  BY <1>1, SumExists
<1>4. st = [r \in 0 .. n |-> IF r = 0 THEN 0 ELSE st[r-1] + p[r]]
  BY <1>2, <1>3 DEF IsSum
<1>5. \A k \in 0 .. n : st[k] \in Nat
  <2>1. st[0] \in Nat
    BY <1>1, <1>4
  <2>2. ASSUME NEW k \in (0 + 1) .. n, st[k-1] \in Nat PROVE st[k] \in Nat
    <3>1. k \in 0 .. n /\ k \in 1 .. n /\ k # 0
      BY <1>1
    <3>2. st[k] = st[k-1] + p[k]
      BY <1>4, <3>1
    <3> QED
      BY <1>1, <2>2, <3>1, <3>2
  <2> QED
    BY <1>1, <2>1, <2>2, RecursionType
<1> QED
  BY <1>4, <1>5 DEF n, st

\* The instruction a memory access is given to is a natural number.
LEMMA SkewType ==
  ASSUME NEW b, b.parts \in Seq(Nat)
  PROVE  \A r \in 0 .. Len(b.parts) : SkewIndex(b)[r] \in Nat
<1> DEFINE n == Len(b.parts)
           q == b.parts
           p == [r \in 1 .. n |-> IF q[r] > 1 THEN q[r] ELSE 1]
           sk == SkewIndex(b)
<1>1. n \in Nat /\ 0 \in Nat /\ 0 \in Int /\ \A k \in 1 .. n : p[k] \in Nat /\ p[k] \in Int
  OBVIOUS
<1>2. sk = CHOOSE f : f = [r \in 0 .. n |-> IF r = 0 THEN 0
                             ELSE f[r-1] + (IF q[r] > 1 THEN q[r] ELSE 1)]
  BY DEF SkewIndex
<1>3. \A k \in 1 .. n : p[k] = IF q[k] > 1 THEN q[k] ELSE 1
  OBVIOUS
<1> HIDE DEF n, p, q, sk
<1>4. PICK f : IsSum(f, n, 0, p)
  BY <1>1, SumExists
<1>5. f = [r \in 0 .. n |-> IF r = 0 THEN 0 ELSE f[r-1] + (IF q[r] > 1 THEN q[r] ELSE 1)]
  <2>1. \A r \in 0 .. n : f[r] = IF r = 0 THEN 0 ELSE f[r-1] + (IF q[r] > 1 THEN q[r] ELSE 1)
    <3> SUFFICES ASSUME NEW r \in 0 .. n
                 PROVE  f[r] = IF r = 0 THEN 0 ELSE f[r-1] + (IF q[r] > 1 THEN q[r] ELSE 1)
      OBVIOUS
    <3>1. f[r] = IF r = 0 THEN 0 ELSE f[r-1] + p[r]
      BY <1>4 DEF IsSum
    <3>2. r # 0 => r \in 1 .. n
      BY <1>1
    <3> QED
      BY <1>3, <3>1, <3>2
  <2>2. f = [r \in 0 .. n |-> f[r]]
    BY <1>4 DEF IsSum
  <2> QED
    BY <2>1, <2>2
<1>6. sk = [r \in 0 .. n |-> IF r = 0 THEN 0 ELSE sk[r-1] + (IF q[r] > 1 THEN q[r] ELSE 1)]
  BY <1>2, <1>5
<1>7. \A k \in 0 .. n : sk[k] \in Nat
  <2>1. sk[0] \in Nat
    BY <1>1, <1>6
  <2>2. ASSUME NEW k \in (0 + 1) .. n, sk[k-1] \in Nat PROVE sk[k] \in Nat
    <3>1. k \in 0 .. n /\ k \in 1 .. n /\ k # 0
      BY <1>1
    <3>2. sk[k] = sk[k-1] + p[k]
      BY <1>3, <1>6, <3>1
    <3> QED
      BY <1>1, <2>2, <3>1, <3>2
  <2> QED
    BY <1>1, <2>1, <2>2, RecursionType
<1> QED
  BY <1>7 DEF n, sk

\* Flattening appends one sequence after the other.
LEMMA FlattenRecursion ==
  ASSUME NEW S, NEW ss \in Seq(Seq(S)), Len(ss) # 0
  PROVE  \E fl : /\ FlattenSeq(ss) = fl[Len(ss)] /\ fl[1] = ss[1]
                 /\ \A k \in 2 .. Len(ss) : fl[k] = fl[k-1] \o ss[k]
                 /\ \A k \in 1 .. Len(ss) : fl[k] \in Seq(S)
<1> DEFINE n == Len(ss)
           F == FlattenSeq(ss)
           fl == CHOOSE f : f = [i \in 1 .. n |-> IF i = 1 THEN ss[i] ELSE f[i-1] \o ss[i]]
           G == [k \in 1 .. n |-> [x \in Seq(S) |-> x \o ss[k]]]
           a == ss[1]
<1>1. n \in Nat /\ 1 \in Nat /\ n # 0 /\ \A k \in 1 .. n : ss[k] \in Seq(S)
  OBVIOUS
<1>2. F = fl[n]
  BY <1>1 DEF FlattenSeq
<1>3. a \in Seq(S) /\ 1 \in 1 .. n /\ n \in 1 .. n
  BY <1>1
<1>4. \A x, y \in Seq(S) : x \o y \in Seq(S)
  BY ConcatProperties
<1>5. G \in [1 .. n -> [Seq(S) -> Seq(S)]]
  BY <1>1, <1>4
<1>6. \A k \in 1 .. n : \A x \in Seq(S) : G[k][x] = x \o ss[k]
  OBVIOUS
<1>7. fl = CHOOSE f : f = [i \in 1 .. n |-> IF i = 1 THEN ss[i] ELSE f[i-1] \o ss[i]]
  OBVIOUS
<1> HIDE DEF n, F, fl, G, a
<1>8. PICK f : IsRecursion(f, 1, n, Seq(S), a, G)
  BY <1>1, <1>3, <1>5, RecursionExists
<1>9. f = [i \in 1 .. n |-> IF i = 1 THEN ss[i] ELSE f[i-1] \o ss[i]]
  <2>1. ASSUME NEW i \in 1 .. n
        PROVE  f[i] = IF i = 1 THEN ss[i] ELSE f[i-1] \o ss[i]
    <3>1. f[i] = IF i = 1 THEN a ELSE G[i][f[i-1]]
      BY <1>8 DEF IsRecursion
    <3>2. i # 1 => i - 1 \in 1 .. n
      BY <1>1
    <3>3. i # 1 => f[i-1] \in Seq(S)
      BY <1>8, <3>2 DEF IsRecursion
    <3> QED
      BY <1>6, <3>1, <3>3 DEF a
  <2>2. f = [i \in 1 .. n |-> f[i]]
    BY <1>8 DEF IsRecursion
  <2> QED
    BY <2>1, <2>2, Zenon
<1>10. fl = [i \in 1 .. n |-> IF i = 1 THEN ss[i] ELSE fl[i-1] \o ss[i]]
  BY <1>7, <1>9, Zenon
<1>11. \A k \in 1 .. n : fl[k] \in Seq(S)
  <2>1. fl[1] \in Seq(S)
    BY <1>3, <1>10 DEF a
  <2>2. ASSUME NEW k \in (1 + 1) .. n, fl[k-1] \in Seq(S) PROVE fl[k] \in Seq(S)
    <3>1. k \in 1 .. n /\ k # 1
      BY <1>1
    <3>2. fl[k] = fl[k-1] \o ss[k]
      BY <1>10, <3>1
    <3>3. ss[k] \in Seq(S)
      BY <1>1, <3>1
    <3> QED
      BY <1>4, <2>2, <3>2, <3>3, Zenon
  <2> QED
    BY <1>1, <2>1, <2>2, RecursionType
<1>12. fl[1] = ss[1] /\ \A k \in 2 .. n : fl[k] = fl[k-1] \o ss[k]
  <2>1. \A k \in 2 .. n : k \in 1 .. n /\ k # 1
    BY <1>1
  <2> QED
    BY <1>3, <1>10, <2>1 DEF a
<1> QED
  BY <1>2, <1>11, <1>12 DEF F, n

\* Flattening sequences of members of S gives a sequence of members of S.
LEMMA FlattenType ==
  ASSUME NEW S, NEW ss \in Seq(Seq(S))
  PROVE  FlattenSeq(ss) \in Seq(S)
<1>1. CASE Len(ss) = 0
  <2>1. FlattenSeq(ss) = ss /\ ss = <<>>
    BY <1>1 DEF FlattenSeq
  <2> QED
    BY <2>1
<1>2. CASE Len(ss) # 0
  <2>1. PICK fl : /\ FlattenSeq(ss) = fl[Len(ss)]
                  /\ \A k \in 1 .. Len(ss) : fl[k] \in Seq(S)
    BY <1>2, FlattenRecursion
  <2>2. Len(ss) \in 1 .. Len(ss)
    BY <1>2
  <2> QED
    BY <2>1, <2>2
<1> QED
  BY <1>1, <1>2

-----------------------------------------------------------------------------
(* TBs and slices.                                                         *)

\* The slices tbExec makes and TBSlice::split cuts.
SliceType == [index : TBIndex, begin : Nat, end : Nat, region : Int,
              mem : SUBSET Nat, ex : Nat]

\* The offsets of the MCInsts of a TB, as disassemble keeps them.
Offsets(b) == [p \in 0 .. (NumInsts(b) - 1) |-> Offset(b, p) % 256]

\* A TB of the vector TBs: received or not, and decoded as its bytes say or
\* not yet.
TBOK(tb) ==
  /\ tb = [gen |-> tb.gen, raw |-> tb.raw, mcinsts |-> tb.mcinsts,
           VAddrOffsets |-> tb.VAddrOffsets, skew |-> tb.skew,
           beginMarks |-> tb.beginMarks, endMarks |-> tb.endMarks]
  /\ tb.gen \in Nat
  /\ tb.gen # 0 => tb.raw \in Blocks
  /\ tb.mcinsts # 0 => /\ tb.gen # 0
                       /\ tb.mcinsts = NumInsts(tb.raw)
                       /\ tb.skew = SkewIndex(tb.raw)
                       /\ tb.VAddrOffsets = Offsets(tb.raw)

\* The TB at index i was received and has all its MCInsts.
Ready(i) == /\ i \in TBIndex
            /\ TBs[i].gen # 0
            /\ TBs[i].mcinsts = NumInsts(TBs[i].raw)

\* What fetchRegion hands to the worker for one instruction.
InstType == [ex : Nat, pos : Int, index : TBIndex, gen : Nat, mem : BOOLEAN,
             begins : BOOLEAN, ends : BOOLEAN]

\* The types of what the proofs are about; an index at or above nextTB holds
\* no TB.
Types ==
  /\ TBs = [i \in TBIndex |-> TBs[i]]
  /\ \A i \in TBIndex : TBOK(TBs[i])
  /\ conns \in Nat /\ (rpc # "accept" => conns # 0)
  /\ nextTB \in Nat
  /\ execs \in Nat
  /\ \A i \in TBIndex : i >= nextTB => TBs[i].gen = 0
  /\ rpc = "enqueue" => slice \in SliceType
  /\ TBQueue \in Seq(SliceType)
  /\ selected \in Seq(SliceType)
  /\ CurBinRegion \in {NoRegion} \cup DOMAIN Regions

\* The TBs of a slice that is being queued, is queued or was selected, and of
\* the instructions the worker is reading, are ready, and the latter are still
\* the TBs that were copied from.
AllReady ==
  /\ rpc = "enqueue" => Ready(slice.index)
  /\ \A k \in DOMAIN TBQueue : Ready(TBQueue[k].index)
  /\ \A k \in DOMAIN selected : Ready(selected[k].index)
  /\ wpc = "convert" => /\ batch \in Seq(InstType)
                        /\ \A k \in DOMAIN batch :
                             /\ Ready(batch[k].index)
                             /\ TBs[batch[k].index].gen = batch[k].gen

\* The inductive invariant behind FreshNeverDangles.
DInv == Types /\ AllReady

\* A TB has a number of MCInsts that its slices can index, and every access
\* of it is given to one of them or to a position after them.
LEMMA BlockFacts ==
  ASSUME NEW b \in Blocks
  PROVE  /\ NumInsts(b) \in Nat /\ NumInsts(b) < NoEnd
         /\ \A r \in b.mem : SkewIndex(b)[r] \in Nat
<1>1. b.parts \in Seq(Nat) /\ b.mem \subseteq 0 .. (Len(b.parts) - 1) /\ NumInsts(b) < NoEnd
  BY BrokerAssumption DEF BlockOK
<1>2. Len(b.parts) \in Nat
  BY <1>1
<1>3. NumInsts(b) \in Nat
  BY <1>1, <1>2, StartsType DEF NumInsts
<1>4. \A r \in b.mem : r \in 0 .. Len(b.parts)
  BY <1>1, <1>2
<1>5. \A r \in 0 .. Len(b.parts) : SkewIndex(b)[r] \in Nat
  BY <1>1, SkewType
<1> QED
  BY <1>1, <1>3, <1>4, <1>5

\* Decoding a TB gives it the MCInsts of its bytes and changes nothing about
\* where it comes from; decoding it again changes nothing.
LEMMA DecodedFacts ==
  ASSUME NEW tb, TBOK(tb), tb.gen # 0
  PROVE  LET d == Decoded(tb)
         IN  /\ TBOK(d) /\ d.gen = tb.gen /\ d.raw = tb.raw
             /\ d.mcinsts = NumInsts(tb.raw) /\ d.skew = SkewIndex(tb.raw)
<1> DEFINE b == tb.raw
           n == NumInsts(b)
           d == Disassemble(tb)
<1>1. d = IF tb.mcinsts # 0 THEN tb
          ELSE [tb EXCEPT !.mcinsts = n,
                          !.VAddrOffsets = Offsets(b),
                          !.skew = SkewIndex(b)]
  BY DEF Disassemble, Offsets
<1>2. tb.raw \in Blocks /\ tb.gen \in Nat
  BY DEF TBOK
<1> DEFINE off == Offsets(b)
           k == SkewIndex(b)
<1> HIDE DEF off, n, k
<1>3. d = IF tb.mcinsts # 0 THEN tb
          ELSE [gen |-> tb.gen, raw |-> tb.raw, mcinsts |-> n, VAddrOffsets |-> off,
                skew |-> k, beginMarks |-> tb.beginMarks, endMarks |-> tb.endMarks]
  <2>1. d = IF tb.mcinsts # 0 THEN tb
            ELSE [tb EXCEPT !.mcinsts = n, !.VAddrOffsets = off, !.skew = k]
    BY <1>1 DEF off, k
  <2> QED
    BY <2>1 DEF TBOK
<1> HIDE DEF d
<1>4. /\ TBOK(d) /\ d.gen = tb.gen /\ d.raw = tb.raw
      /\ d.mcinsts = n /\ d.skew = k
  BY <1>2, <1>3 DEF TBOK, n, k, off
<1> DEFINE h == HandleBinaryRegions(d)
           bm == {h.begin} \ {-1}
           em == {h.end} \ {-1}
<1>5. Decoded(tb) = IF tb.mcinsts # 0 \/ Mode # "mark" THEN d
                    ELSE [d EXCEPT !.beginMarks = bm, !.endMarks = em]
  BY DEF Decoded, d
<1> HIDE DEF bm, em
<1>6. Decoded(tb) = IF tb.mcinsts # 0 \/ Mode # "mark" THEN d
                    ELSE [gen |-> d.gen, raw |-> d.raw, mcinsts |-> d.mcinsts,
                          VAddrOffsets |-> d.VAddrOffsets, skew |-> d.skew,
                          beginMarks |-> bm, endMarks |-> em]
  BY <1>4, <1>5 DEF TBOK
<1> QED
  BY <1>4, <1>6 DEF TBOK, n, k

\* MinOf finds the least element.
LEMMA LeastOf ==
  ASSUME NEW T, T \subseteq Nat, T # {}
  PROVE  MinOf(T) \in T /\ \A y \in T : MinOf(T) <= y
<1>1. \E x \in T : \A y \in T : x <= y
  BY NatMin
<1> QED
  BY <1>1 DEF MinOf

\* handleBinaryRegions finds positions of the TB, an end not before the
\* begin, and leaves a region open or not, according to whether it found an end.
LEMMA HitFacts ==
  ASSUME NEW tb, tb.mcinsts \in Nat, CurBinRegion \in {NoRegion} \cup DOMAIN Regions
  PROVE  LET hit == HandleBinaryRegions(tb)
             pos == 0 .. (tb.mcinsts - 1)
         IN  /\ hit.begin = -1 \/ hit.begin \in pos
             /\ hit.end = -1 \/ hit.end \in pos
             /\ hit.begin # -1 => CurBinRegion = NoRegion
             /\ hit.end # -1 => /\ hit.end >= hit.begin
                                /\ hit.region # NoRegion /\ hit.cur = NoRegion
             /\ hit.end = -1 => hit.cur = hit.region
             /\ hit.begin = -1 => hit.region = CurBinRegion
             /\ hit.begin # -1 => hit.region \in DOMAIN Regions
             /\ hit.region \in {NoRegion} \cup DOMAIN Regions
             /\ hit.cur \in {NoRegion} \cup DOMAIN Regions
<1> DEFINE hit == HandleBinaryRegions(tb)
           pos == 0 .. (tb.mcinsts - 1)
           inCode == tb.raw.addr >= CodeStartAddress
           starts == {i \in pos : /\ CurBinRegion = NoRegion
                                  /\ inCode
                                  /\ RelAddr(tb, i) \in DOMAIN Regions}
           begin == IF starts = {} THEN -1 ELSE MinOf(starts)
           open == IF starts = {} THEN CurBinRegion ELSE RelAddr(tb, begin)
           ends == {i \in pos : /\ open # NoRegion
                                /\ inCode
                                /\ i >= begin
                                /\ RelAddr(tb, i) = Regions[open]}
           end == IF ends = {} THEN -1 ELSE MinOf(ends)
<1>1. hit = [begin |-> begin, end |-> end, region |-> open,
             cur |-> IF ends = {} THEN open ELSE NoRegion]
  BY DEF HandleBinaryRegions
<1>2. pos \subseteq Nat /\ -1 \notin pos /\ -1 \notin Nat
  OBVIOUS
<1>3. starts \subseteq pos /\ ends \subseteq pos
  OBVIOUS
<1>4. starts # {} => /\ begin \in starts /\ begin \in pos /\ CurBinRegion = NoRegion
                     /\ RelAddr(tb, begin) \in DOMAIN Regions
  <2> SUFFICES ASSUME starts # {} PROVE begin \in starts
    BY <1>3
  <2>1. begin = MinOf(starts) /\ starts \subseteq Nat
    BY <1>2, <1>3
  <2> HIDE DEF starts, begin
  <2> QED
    BY <2>1, LeastOf
<1>5. ends # {} => end \in ends
  <2> SUFFICES ASSUME ends # {} PROVE end \in ends
    OBVIOUS
  <2>1. end = MinOf(ends) /\ ends \subseteq Nat
    BY <1>2, <1>3
  <2> HIDE DEF ends, end
  <2> QED
    BY <2>1, LeastOf
<1>6. ends # {} => end \in pos /\ open # NoRegion /\ end >= begin
  BY <1>5
<1>7. starts = {} => begin = -1 /\ open = CurBinRegion
  OBVIOUS
<1>8. starts # {} => begin # -1 /\ open = RelAddr(tb, begin)
  BY <1>2, <1>4
<1>9. ends = {} => end = -1
  OBVIOUS
<1>10. ends # {} => end # -1
  BY <1>2, <1>6
<1> HIDE DEF hit, pos, starts, ends, begin, open, end
<1>11. /\ hit.begin = begin /\ hit.end = end /\ hit.region = open
       /\ hit.cur = IF ends = {} THEN open ELSE NoRegion
  BY <1>1
<1>12. /\ begin = -1 \/ begin \in pos
       /\ end = -1 \/ end \in pos
       /\ begin # -1 => CurBinRegion = NoRegion
       /\ end # -1 => end >= begin /\ open # NoRegion /\ ends # {}
       /\ end = -1 => ends = {}
       /\ begin = -1 => open = CurBinRegion
       /\ begin # -1 => open \in DOMAIN Regions
       /\ open \in {NoRegion} \cup DOMAIN Regions
  BY <1>4, <1>6, <1>7, <1>8, <1>9, <1>10
<1> QED
  BY <1>11, <1>12 DEF hit, pos

\* Slices are trimmed to binary regions.
Trim == Mode = "trim" /\ Regions # <<>>

\* The slice tbExec makes of a TB lies inside it.  It starts late and runs to
\* the end of the TB only if no region was open before, and it carries a region
\* if none is open afterwards; a TB that is skipped opens no region.
LEMMA SliceFacts ==
  ASSUME NEW i \in TBIndex, NEW tb, NEW acc, tb.mcinsts \in Nat, tb.mcinsts < NoEnd,
         \A r \in acc : tb.skew[r] \in Nat, execs \in Nat,
         CurBinRegion \in {NoRegion} \cup DOMAIN Regions
  PROVE  LET s == SliceOf(i, tb, acc)
             hit == HandleBinaryRegions(tb)
         IN  /\ s \in SliceType /\ s.index = i
             /\ s.begin # s.end =>
                  /\ s.begin < s.end /\ s.begin <= tb.mcinsts
                  /\ s.end = NoEnd \/ s.end <= tb.mcinsts
                  /\ s.begin > 0 /\ s.end = NoEnd => Trim /\ CurBinRegion = NoRegion
                  /\ Trim /\ hit.cur = NoRegion => s.region # NoRegion
             /\ s.begin = s.end => Trim /\ (hit.cur = NoRegion => CurBinRegion = NoRegion)
<1> DEFINE s == SliceOf(i, tb, acc)
           hit == HandleBinaryRegions(tb)
           m == tb.mcinsts
           pos == 0 .. (m - 1)
           begin == IF Trim /\ CurBinRegion = NoRegion
                    THEN IF hit.begin = -1 THEN NoEnd ELSE hit.begin
                    ELSE 0
           ends == Trim /\ hit.end # -1
           end == IF ends THEN hit.end + 1 ELSE NoEnd
           region == IF ends THEN hit.region ELSE NoRegion
           mem == {x \in {tb.skew[r] : r \in acc} : begin <= x /\ x < end}
<1>1. s = [index |-> i, begin |-> begin, end |-> end, region |-> region,
           mem |-> mem, ex |-> execs + 1]
  BY DEF SliceOf, Trim
<1>2. /\ hit.begin = -1 \/ hit.begin \in pos
      /\ hit.end = -1 \/ hit.end \in pos
      /\ hit.begin # -1 => CurBinRegion = NoRegion
      /\ hit.end # -1 => /\ hit.end >= hit.begin
                         /\ hit.region # NoRegion /\ hit.cur = NoRegion
      /\ hit.end = -1 => hit.cur = hit.region
      /\ hit.begin = -1 => hit.region = CurBinRegion
      /\ hit.begin # -1 => hit.region \in DOMAIN Regions
      /\ hit.region \in {NoRegion} \cup DOMAIN Regions
  BY HitFacts
<1>3. NoEnd = 65535 /\ NoRegion = -1 /\ m \in Nat /\ m < NoEnd /\ DOMAIN Regions \subseteq Nat
  BY BrokerAssumption DEF NoEnd, NoRegion
<1>4. mem \in SUBSET Nat
  OBVIOUS
<1> HIDE DEF hit, m, mem
<1>5. begin \in Nat /\ end \in Nat /\ region \in Int
  BY <1>2, <1>3
<1>6. begin # end =>
        /\ begin < end /\ begin <= m
        /\ end = NoEnd \/ end <= m
        /\ begin > 0 /\ end = NoEnd => Trim /\ CurBinRegion = NoRegion
        /\ Trim /\ hit.cur = NoRegion => region # NoRegion
  BY <1>2, <1>3
<1>7. begin = end => Trim /\ (hit.cur = NoRegion => CurBinRegion = NoRegion)
  BY <1>2, <1>3
<1> HIDE DEF s, begin, end, region
<1>8. /\ s.index = i /\ s.begin = begin /\ s.end = end /\ s.region = region
      /\ s \in SliceType
  BY <1>1, <1>4, <1>5 DEF SliceType
<1> QED
  BY <1>6, <1>7, <1>8 DEF hit, m, s

\* MaxOf of a set of numbers up to n is its greatest element.
LEMMA GreatestOf ==
  ASSUME NEW n \in Nat, NEW T, T \subseteq 0 .. n, 0 \in T
  PROVE  MaxOf(T) \in T /\ \A y \in T : MaxOf(T) >= y
<1> DEFINE D == {n - y : y \in T}
<1>1. D \subseteq Nat /\ D # {}
  <2>1. \A y \in T : n - y \in Nat
    OBVIOUS
  <2>2. n - 0 \in D
    OBVIOUS
  <2> QED
    BY <2>1, <2>2
<1>2. PICK d \in D : \A e \in D : d <= e
  <2> HIDE DEF D
  <2> QED BY <1>1, NatMin
<1>3. PICK x \in T : d = n - x
  OBVIOUS
<1>4. \A y \in T : n - y \in D
  OBVIOUS
<1>5. \A y \in T : n - x <= n - y
  <2> HIDE DEF D
  <2> QED BY <1>2, <1>3, <1>4
<1>6. \A y \in T : x >= y
  BY <1>5
<1> QED
  BY <1>6 DEF MaxOf

\* The estimate exceeds neither the TB nor the slice.
LEMMA SliceLenType ==
  ASSUME NEW s \in SliceType, TBs[s.index].mcinsts \in Nat
  PROVE  /\ SliceLen(s) \in Int
         /\ SliceLen(s) <= TBs[s.index].mcinsts /\ SliceLen(s) <= s.end - s.begin
BY DEF SliceLen, Min2, SliceType

\* The room that is left is a number; at first it is the whole buffer.
LEMMA RoomType ==
  ASSUME NEW q \in Seq(SliceType), \A k \in 1 .. Len(q) : TBs[q[k].index].mcinsts \in Nat
  PROVE  /\ Room(q)[0] = Chunk
         /\ \A k \in 1 .. Len(q) : Room(q)[k] = Room(q)[k-1] - SliceLen(q[k])
         /\ \A k \in 0 .. Len(q) : Room(q)[k] \in Int
<1> DEFINE n == Len(q)
           r == Room(q)
           p == [k \in 1 .. n |-> 0 - SliceLen(q[k])]
<1>1. n \in Nat /\ 0 \in Nat /\ Chunk \in Int
  BY BrokerAssumption
<1>2. \A k \in 1 .. n : SliceLen(q[k]) \in Int
  <2> SUFFICES ASSUME NEW k \in 1 .. n PROVE SliceLen(q[k]) \in Int
    OBVIOUS
  <2>1. q[k] \in SliceType
    OBVIOUS
  <2> QED
    BY <2>1, SliceLenType
<1>3. r = CHOOSE f : f = [k \in 0 .. n |-> IF k = 0 THEN Chunk ELSE f[k-1] - SliceLen(q[k])]
  BY DEF Room
<1>4. \A k \in 1 .. n : p[k] = 0 - SliceLen(q[k]) /\ p[k] \in Int
  BY <1>2
<1> HIDE DEF n, p, r
<1>5. PICK f : IsSum(f, n, Chunk, p)
  BY <1>1, <1>4, SumExists
<1>6. f = [k \in 0 .. n |-> IF k = 0 THEN Chunk ELSE f[k-1] - SliceLen(q[k])]
  <2>1. ASSUME NEW k \in 0 .. n
        PROVE  f[k] = IF k = 0 THEN Chunk ELSE f[k-1] - SliceLen(q[k])
    <3>1. f[k] = IF k = 0 THEN Chunk ELSE f[k-1] + p[k]
      BY <1>5 DEF IsSum
    <3>2. k # 0 => k \in 1 .. n /\ k - 1 \in 0 .. n
      BY <1>1
    <3>3. k # 0 => f[k-1] \in Int
      BY <1>5, <3>2 DEF IsSum
    <3> QED
      BY <1>2, <1>4, <3>1, <3>2, <3>3
  <2>2. f = [k \in 0 .. n |-> f[k]]
    BY <1>5 DEF IsSum
  <2> QED
    BY <2>1, <2>2, Zenon
<1>7. r = [k \in 0 .. n |-> IF k = 0 THEN Chunk ELSE r[k-1] - SliceLen(q[k])]
  BY <1>3, <1>6, Zenon
<1>8. r[0] = Chunk
  BY <1>1, <1>7
<1>9. \A k \in 0 .. n : r[k] \in Int
  <2>1. ASSUME NEW k \in (0 + 1) .. n, r[k-1] \in Int PROVE r[k] \in Int
    <3>1. k \in 0 .. n /\ k \in 1 .. n /\ k # 0
      BY <1>1
    <3>2. r[k] = r[k-1] - SliceLen(q[k])
      BY <1>7, <3>1
    <3> QED
      BY <1>2, <2>1, <3>1, <3>2
  <2> QED
    BY <1>1, <1>8, <2>1, RecursionType
<1>10. ASSUME NEW k \in 1 .. n PROVE r[k] = r[k-1] - SliceLen(q[k])
  <2>1. k \in 0 .. n /\ k # 0
    BY <1>1
  <2> QED
    BY ONLY <1>7, <2>1
<1> QED
  BY <1>8, <1>9, <1>10 DEF n, r

\* The selection loop: n slices are taken whole; if it goes on after them, the
\* next one does not fit into what is left.
LEMMA WholeFacts ==
  ASSUME NEW q \in Seq(SliceType), \A k \in 1 .. Len(q) : TBs[q[k].index].mcinsts \in Nat
  PROVE  LET n == NumWhole(q)
         IN  /\ n \in 0 .. Len(q)
             /\ \A j \in 0 .. (n - 1) : Selects(q, j) /\ SliceLen(q[j+1]) <= Room(q)[j]
             /\ Selects(q, n) =>
                  /\ n < Len(q) /\ Room(q)[n] \in Nat \ {0}
                  /\ Room(q)[n] < SliceLen(q[n+1])
                  /\ n = 0 => Room(q)[n] = Chunk
                  /\ n > 0 => q[n].region = NoRegion
<1> DEFINE n == NumWhole(q)
           Fits(j) == Selects(q, j) /\ SliceLen(q[j+1]) <= Room(q)[j]
           T == {k \in 0 .. Len(q) : \A j \in 0 .. (k - 1) : Fits(j)}
<1>1. Len(q) \in Nat
  OBVIOUS
<1>2. n = MaxOf(T)
  BY DEF NumWhole
<1> HIDE DEF Fits
<1>3. T \subseteq 0 .. Len(q) /\ 0 \in T
  BY <1>1
<1>4. n \in T /\ \A y \in T : n >= y
  <2> HIDE DEF T
  <2> QED BY <1>1, <1>2, <1>3, GreatestOf
<1> HIDE DEF n
<1>5. n \in 0 .. Len(q) /\ \A j \in 0 .. (n - 1) : Fits(j)
  BY <1>4
<1>6. ASSUME Selects(q, n)
      PROVE  /\ n < Len(q) /\ Room(q)[n] \in Nat \ {0}
             /\ Room(q)[n] < SliceLen(q[n+1])
             /\ n = 0 => Room(q)[n] = Chunk
             /\ n > 0 => q[n].region = NoRegion
  <2>1. n < Len(q) /\ Room(q)[n] > 0 /\ (n > 0 => q[n].region = NoRegion)
    BY <1>6 DEF Selects
  <2>2. Room(q)[n] \in Int /\ Room(q)[0] = Chunk
    <3>1. q \in Seq(SliceType) /\ \A k \in 1 .. Len(q) : TBs[q[k].index].mcinsts \in Nat
      OBVIOUS
    <3> QED
      BY ONLY <1>5, <3>1, RoomType
  <2>3. n + 1 \notin T /\ n + 1 \in 0 .. Len(q)
    <3>1. n + 1 \in 0 .. Len(q) /\ ~(n >= n + 1)
      BY ONLY <1>1, <1>5, <2>1
    <3>2. \A y \in T : n >= y
      BY <1>4
    <3> HIDE DEF T
    <3> QED
      BY ONLY <3>1, <3>2
  <2>4. ~Fits(n)
    BY <1>5, <2>3
  <2>5. q[n+1] \in SliceType /\ TBs[q[n+1].index].mcinsts \in Nat
    BY <1>5, <2>1
  <2>6. SliceLen(q[n+1]) \in Int
    BY <2>5, SliceLenType
  <2>7. ~(SliceLen(q[n+1]) <= Room(q)[n])
    BY <1>6, <2>4 DEF Fits
  <2> QED
    BY <2>1, <2>2, <2>6, <2>7
<1> QED
  BY <1>5, <1>6 DEF n, Fits

-----------------------------------------------------------------------------
(* Selection, split and copy.                                              *)

\* TBSlice::split cuts at the given position; the rest keeps the region.
LEMMA SplitType ==
  ASSUME NEW s \in SliceType, NEW n \in Nat
  PROVE  /\ SplitTaken(s, n) \in SliceType /\ SplitRest(s, n) \in SliceType
         /\ SplitTaken(s, n).index = s.index /\ SplitRest(s, n).index = s.index
         /\ SplitTaken(s, n).begin = s.begin /\ SplitTaken(s, n).end = s.begin + n
         /\ SplitRest(s, n).begin = s.begin + n /\ SplitRest(s, n).end = s.end
         /\ SplitRest(s, n).region = s.region
<1> DEFINE tm == {m \in s.mem : m < s.begin + n}
           rm == {m \in s.mem : m >= s.begin + n}
<1>1. SplitTaken(s, n) = [s EXCEPT !.end = s.begin + n, !.region = NoRegion, !.mem = tm]
  BY DEF SplitTaken
<1>2. SplitRest(s, n) = [s EXCEPT !.begin = s.begin + n, !.mem = rm]
  BY DEF SplitRest
<1>3. tm \in SUBSET Nat /\ rm \in SUBSET Nat /\ s.begin + n \in Nat /\ NoRegion \in Int
  BY DEF SliceType, NoRegion
<1> HIDE DEF tm, rm
<1> QED
  BY <1>1, <1>2, <1>3 DEF SliceType

\* How the queue and the selection are made of the queue there was: d slices go
\* as they are, and the next one may be cut.
Cut(d, split) ==
  LET q == TBQueue
      room == Room(q)[d]
  IN  /\ TBQueue' \in Seq(SliceType) /\ Len(TBQueue') = Len(q) - d
      /\ \A k \in 1 .. Len(TBQueue') :
           TBQueue'[k] = IF split /\ k = 1 THEN SplitRest(q[d+1], room) ELSE q[k+d]
      /\ selected' \in Seq(SliceType)
      /\ Len(selected') = IF split THEN d + 1 ELSE d
      /\ \A k \in 1 .. Len(selected') :
           selected'[k] = IF k = d + 1 THEN SplitTaken(q[d+1], room) ELSE q[k]

\* fetchRegion's selection loop cuts the queue that way.
LEMMA SelectFacts ==
  ASSUME FetchSelect, TBQueue \in Seq(SliceType),
         \A k \in 1 .. Len(TBQueue) : TBs[TBQueue[k].index].mcinsts \in Nat
  PROVE  /\ NumWhole(TBQueue) \in 0 .. Len(TBQueue)
         /\ Selects(TBQueue, NumWhole(TBQueue)) => NumWhole(TBQueue) < Len(TBQueue)
         /\ Cut(NumWhole(TBQueue), Selects(TBQueue, NumWhole(TBQueue)))
<1> DEFINE q == TBQueue
           d == NumWhole(q)
           room == Room(q)[d]
           a == SubSeq(q, 1, d)
           b == SubSeq(q, d + 2, Len(q))
           c == SubSeq(q, d + 1, Len(q))
           t == SplitTaken(q[d+1], room)
           r == SplitRest(q[d+1], room)
<1>1. d \in 0 .. Len(q) /\ q \in Seq(SliceType) /\ Len(q) \in Nat
  BY WholeFacts
<1>2. CASE Selects(q, d)
  <2>1. d < Len(q) /\ room \in Nat
    BY <1>2, WholeFacts
  <2>2. q[d+1] \in SliceType
    BY <1>1, <2>1
  <2>3. t \in SliceType /\ r \in SliceType
    BY <2>1, <2>2, SplitType
  <2>4. selected' = a \o <<t>> /\ TBQueue' = <<r>> \o b
    BY <1>2 DEF FetchSelect
  <2> HIDE DEF q, d, t, r, room
  <2>5. /\ a \in Seq(SliceType) /\ Len(a) = d /\ \A k \in 1 .. d : a[k] = q[k]
        /\ b \in Seq(SliceType) /\ Len(b) = Len(q) - (d + 1)
        /\ \A k \in 1 .. (Len(q) - (d + 1)) : b[k] = q[k + d + 1]
    BY <1>1, <2>1
  <2>6. /\ <<t>> \in Seq(SliceType) /\ Len(<<t>>) = 1 /\ <<t>>[1] = t
        /\ <<r>> \in Seq(SliceType) /\ Len(<<r>>) = 1 /\ <<r>>[1] = r
    BY <2>3
  <2> DEFINE x == <<t>>
             y == <<r>>
  <2> HIDE DEF a, b, x, y
  <2>7. /\ a \o x \in Seq(SliceType) /\ Len(a \o x) = Len(a) + Len(x)
        /\ \A k \in 1 .. Len(a) + Len(x) :
             (a \o x)[k] = IF k <= Len(a) THEN a[k] ELSE x[k - Len(a)]
    BY <2>5, <2>6, ConcatProperties DEF x
  <2>8. /\ y \o b \in Seq(SliceType) /\ Len(y \o b) = Len(y) + Len(b)
        /\ \A k \in 1 .. Len(y) + Len(b) :
             (y \o b)[k] = IF k <= Len(y) THEN y[k] ELSE b[k - Len(y)]
    BY <2>5, <2>6, ConcatProperties DEF y
  <2>9. selected' = a \o x /\ TBQueue' = y \o b
    BY <2>4 DEF x, y
  <2>10. /\ Len(x) = 1 /\ x[1] = t /\ Len(y) = 1 /\ y[1] = r
    BY <2>6 DEF x, y
  <2> DEFINE u == a \o x
             v == y \o b
  <2> HIDE DEF u, v
  <2>11. /\ u \in Seq(SliceType) /\ Len(u) = d + 1
         /\ \A k \in 1 .. (d + 1) : u[k] = IF k = d + 1 THEN t ELSE q[k]
    <3>1. u \in Seq(SliceType) /\ Len(u) = d + 1
      BY <2>5, <2>7, <2>10 DEF u
    <3>2. ASSUME NEW k \in 1 .. (d + 1) PROVE u[k] = IF k = d + 1 THEN t ELSE q[k]
      <4>1. u[k] = IF k <= d THEN a[k] ELSE x[k - d]
        BY <2>5, <2>7, <2>10 DEF u
      <4>2. k = d + 1 => k - d = 1 /\ ~(k <= d)
        BY <1>1
      <4>3. k # d + 1 => k <= d /\ k \in 1 .. d
        BY <1>1
      <4> QED
        BY <2>5, <2>10, <4>1, <4>2, <4>3
    <3> QED
      BY <3>1, <3>2
  <2>12. /\ v \in Seq(SliceType) /\ Len(v) = Len(q) - d
         /\ \A k \in 1 .. (Len(q) - d) : v[k] = IF k = 1 THEN r ELSE q[k+d]
    <3>1. v \in Seq(SliceType) /\ Len(v) = Len(q) - d
      BY <1>1, <2>5, <2>8, <2>10 DEF v
    <3>2. ASSUME NEW k \in 1 .. (Len(q) - d) PROVE v[k] = IF k = 1 THEN r ELSE q[k+d]
      <4>1. v[k] = IF k <= 1 THEN y[k] ELSE b[k - 1]
        BY <1>1, <2>5, <2>8, <2>10 DEF v
      <4>2. k # 1 => ~(k <= 1) /\ k - 1 \in 1 .. (Len(q) - (d + 1)) /\ (k - 1) + d + 1 = k + d
        BY <1>1
      <4> QED
        BY <2>5, <2>10, <4>1, <4>2
    <3> QED
      BY <3>1, <3>2
  <2>13. selected' = u /\ TBQueue' = v
    BY <2>9 DEF u, v
  <2> QED
    BY <1>1, <1>2, <2>1, <2>11, <2>12, <2>13 DEF Cut, q, d, t, r, room
<1>3. CASE ~Selects(q, d)
  <2>1. selected' = a \o <<>> /\ TBQueue' = c
    BY <1>3 DEF FetchSelect
  <2> HIDE DEF q, d
  <2>2. /\ a \in Seq(SliceType) /\ Len(a) = d /\ \A k \in 1 .. d : a[k] = q[k]
        /\ c \in Seq(SliceType) /\ Len(c) = Len(q) - d
        /\ \A k \in 1 .. (Len(q) - d) : c[k] = q[k + d]
    BY <1>1
  <2>3. a \o <<>> = a
    BY <2>2, ConcatEmptySeq
  <2> HIDE DEF a, c
  <2>4. /\ \A k \in 1 .. Len(TBQueue') : TBQueue'[k] = q[k+d]
        /\ \A k \in 1 .. Len(selected') : k # d + 1 /\ selected'[k] = q[k]
    BY <1>1, <2>1, <2>2, <2>3
  <2> QED
    BY <1>1, <1>3, <2>1, <2>2, <2>3, <2>4 DEF Cut, q, d
<1> QED
  BY <1>2, <1>3

\* The copies of a slice are of its TB, as it is now; of a slice that begins
\* in its TB they are instructions the TB has.
LEMMA CopyFacts ==
  ASSUME NEW s \in SliceType, TBs[s.index].mcinsts \in Nat, TBs[s.index].gen \in Nat
  PROVE  LET copy == [k \in DOMAIN Positions(s) |-> CopyInst(s, Positions(s)[k])]
         IN  /\ copy \in Seq(InstType)
             /\ \A k \in DOMAIN copy :
                  /\ copy[k].index = s.index
                  /\ copy[k].gen = TBs[s.index].gen
                  /\ s.begin <= TBs[s.index].mcinsts /\ s.begin <= s.end
                       => copy[k].pos < TBs[s.index].mcinsts
<1> DEFINE m == TBs[s.index].mcinsts
           end == Min2(m, s.end)
           stop == IF s.begin <= end THEN end ELSE s.begin + Chunk
           n == stop - s.begin
           copy == [k \in DOMAIN Positions(s) |-> CopyInst(s, Positions(s)[k])]
<1>1. s.begin \in Nat /\ s.end \in Nat /\ m \in Nat /\ Chunk \in Nat
  BY BrokerAssumption DEF SliceType, NoEnd
<1>2. end \in Nat /\ end <= m /\ (s.begin <= m /\ s.begin <= s.end => s.begin <= end)
  BY <1>1 DEF Min2
<1>3. n \in Nat
  BY <1>1, <1>2
<1>4. Positions(s) = [k \in 1 .. n |-> s.begin + k - 1]
  BY DEF Positions
<1>5. DOMAIN copy = 1 .. n /\ \A k \in 1 .. n : copy[k] = CopyInst(s, s.begin + k - 1)
  BY <1>4
<1>6. ASSUME NEW k \in 1 .. n
      PROVE  /\ copy[k] \in InstType /\ copy[k].index = s.index
             /\ copy[k].gen = TBs[s.index].gen /\ copy[k].pos = s.begin + k - 1
  <2> DEFINE p == s.begin + k - 1
             u == (p \in s.mem /\ \A x \in s.mem : x < p => x >= s.begin)
             v == (p \in TBs[s.index].beginMarks)
             w == (p \in TBs[s.index].endMarks)
  <2>1. copy[k] = [ex |-> s.ex, pos |-> p, index |-> s.index, gen |-> TBs[s.index].gen,
                   mem |-> u, begins |-> v, ends |-> w]
    BY <1>5 DEF CopyInst
  <2>2. u \in BOOLEAN /\ v \in BOOLEAN /\ w \in BOOLEAN
    OBVIOUS
  <2>3. p \in Int /\ s.ex \in Nat /\ s.index \in TBIndex /\ TBs[s.index].gen \in Nat
    BY <1>1 DEF SliceType
  <2> HIDE DEF u, v, w, p, copy
  <2>4. copy[k].index = s.index /\ copy[k].gen = TBs[s.index].gen /\ copy[k].pos = p
    BY <2>1
  <2>5. copy[k] \in InstType
    BY <2>1, <2>2, <2>3 DEF InstType
  <2> QED
    BY <2>4, <2>5 DEF p
<1>7. copy = [k \in 1 .. n |-> copy[k]]
  BY <1>5
<1> HIDE DEF copy
<1>8. copy \in [1 .. n -> InstType]
  <2> HIDE DEF n
  <2> QED BY <1>6, <1>7
<1>9. copy \in Seq(InstType)
  <2> HIDE DEF n
  <2> QED BY <1>3, <1>8
<1>10. ASSUME NEW k \in 1 .. n, s.begin <= m, s.begin <= s.end PROVE s.begin + k - 1 < m
  BY <1>1, <1>2, <1>10
<1> QED
  BY <1>5, <1>6, <1>9, <1>10 DEF copy

\* What fetchRegion copies of a slice.
Copies(s) == [k \in DOMAIN Positions(s) |-> CopyInst(s, Positions(s)[k])]

\* A batch has the properties that the copies of every selected slice have.
LEMMA DeliverFacts ==
  ASSUME FetchDeliver, selected \in Seq(SliceType), NEW G,
         \A j \in 1 .. Len(selected) : Copies(selected[j]) \in Seq(G)
  PROVE  batch' \in Seq(G)
<1> DEFINE ss == [j \in DOMAIN selected |-> Copies(selected[j])]
           all == FlattenSeq(ss)
           n == Min2(Len(all), Chunk)
<1>1. batch' = SubSeq(all, 1, n)
  BY DEF FetchDeliver, Copies
<1>2. ss \in Seq(Seq(G))
  <2>1. DOMAIN selected = 1 .. Len(selected) /\ Len(selected) \in Nat
    OBVIOUS
  <2>2. ss \in [1 .. Len(selected) -> Seq(G)]
    BY <2>1
  <2> QED
    BY <2>1, <2>2
<1> HIDE DEF ss
<1>3. all \in Seq(G)
  BY <1>2, FlattenType
<1> HIDE DEF all
<1>4. Len(all) \in Nat /\ Chunk \in Nat
  BY <1>3, BrokerAssumption DEF NoEnd
<1>5. n \in 0 .. Len(all)
  BY <1>4 DEF Min2
<1> HIDE DEF n
<1> QED
  BY <1>1, <1>3, <1>4, <1>5

-----------------------------------------------------------------------------
(* What is queued is decoded.                                              *)

\* A step that keeps the TBs that are ready as they are.
Stays == /\ TBs' = [i \in TBIndex |-> TBs'[i]]
         /\ \A i \in TBIndex : Ready(i) => /\ Ready(i)'
                                           /\ TBs'[i].gen = TBs[i].gen
                                           /\ TBs'[i].mcinsts = TBs[i].mcinsts

\* addTB of an index that was not used leaves what is ready alone.
LEMMA AddStays ==
  ASSUME Types, NEW b \in Blocks, AddTB(nextTB, b)
  PROVE  /\ Stays /\ \A i \in TBIndex : TBOK(TBs'[i])
         /\ \A i \in TBIndex : i >= nextTB' => TBs'[i].gen = 0
<1> DEFINE new == NewTB(b, conns)
<1>1. /\ nextTB \in TBIndex /\ nextTB \in Nat /\ nextTB' = nextTB + 1
      /\ TBs' = [TBs EXCEPT ![nextTB] = new] /\ TBs[nextTB].gen = 0
      /\ conns \in Nat /\ conns # 0
  <2>1. /\ nextTB \in TBIndex /\ nextTB' = nextTB + 1 /\ rpc = "read"
        /\ TBs' = [TBs EXCEPT ![nextTB] = new]
    BY DEF AddTB
  <2>2. nextTB \in Nat /\ conns \in Nat /\ (rpc # "accept" => conns # 0)
    BY DEF Types
  <2>3. \A i \in TBIndex : i >= nextTB => TBs[i].gen = 0
    BY DEF Types
  <2> QED
    BY <2>1, <2>2, <2>3
<1>2. new.gen = conns /\ new.raw = b /\ new.mcinsts = 0 /\ TBOK(new)
  <2>1. TBOK(NoTB) /\ NoTB.mcinsts = 0
    BY DEF TBOK, NoTB
  <2>2. new = [NoTB EXCEPT !.gen = conns, !.raw = b]
    BY DEF NewTB
  <2> HIDE DEF new
  <2> DEFINE o == NoTB
  <2> HIDE DEF o
  <2>3. new = [gen |-> conns, raw |-> b, mcinsts |-> o.mcinsts,
               VAddrOffsets |-> o.VAddrOffsets, skew |-> o.skew,
               beginMarks |-> o.beginMarks, endMarks |-> o.endMarks]
    BY <2>1, <2>2 DEF TBOK, o
  <2>4. o.mcinsts = 0
    BY <2>1 DEF o
  <2> QED
    BY <1>1, <2>3, <2>4 DEF TBOK
<1>4. /\ TBs' = [i \in TBIndex |-> IF i = nextTB THEN new ELSE TBs[i]]
  <2>1. TBs = [i \in TBIndex |-> TBs[i]]
    BY DEF Types
  <2> HIDE DEF new
  <2> QED BY <1>1, <2>1
<1> HIDE DEF new
<1>5. \A i \in TBIndex : TBs'[i] = IF i = nextTB THEN new ELSE TBs[i]
  BY <1>4
<1>6. Stays
  BY <1>1, <1>4, <1>5 DEF Stays, Ready
<1>7. \A i \in TBIndex : i >= nextTB' => TBs'[i].gen = 0
  <2> SUFFICES ASSUME NEW i \in TBIndex, i >= nextTB' PROVE TBs'[i].gen = 0
    OBVIOUS
  <2>1. i # nextTB /\ i >= nextTB
    BY <1>1, BrokerAssumption DEF TBIndex
  <2> QED
    BY <1>5, <2>1 DEF Types
<1> QED
  BY <1>2, <1>5, <1>6, <1>7 DEF Types

\* tbExec decodes the TB it is given, leaves what was ready alone, and makes
\* a slice of the decoded TB.
LEMMA ExecStays ==
  ASSUME Types, NEW i \in TBIndex, TbExec(i, TBs[i].raw.mem)
  PROVE  /\ Stays /\ \A j \in TBIndex : TBOK(TBs'[j])
         /\ \A j \in TBIndex : j >= nextTB' => TBs'[j].gen = 0
         /\ slice' \in SliceType /\ slice'.index = i /\ Ready(i)'
         /\ TBs'[i].mcinsts \in Nat /\ TBs'[i].mcinsts < NoEnd
         /\ TBs'[i] = Decoded(TBs[i])
         /\ slice' = SliceOf(i, TBs'[i], TBs[i].raw.mem)
         /\ \A r \in TBs[i].raw.mem : TBs'[i].skew[r] \in Nat
<1> DEFINE old == TBs[i]
           tb == Decoded(old)
<1>1. /\ TBs' = [TBs EXCEPT ![i] = tb] /\ old.gen # 0 /\ nextTB' = nextTB
      /\ slice' = SliceOf(i, tb, old.raw.mem) /\ TBOK(old) /\ execs \in Nat
      /\ CurBinRegion \in {NoRegion} \cup DOMAIN Regions
  BY DEF TbExec, Types
<1>2. /\ TBOK(tb) /\ tb.gen = old.gen /\ tb.raw = old.raw
      /\ tb.mcinsts = NumInsts(old.raw) /\ tb.skew = SkewIndex(old.raw)
  BY <1>1, DecodedFacts
<1>3. old.raw \in Blocks
  BY <1>1 DEF TBOK
<1>4. /\ tb.mcinsts \in Nat /\ tb.mcinsts < NoEnd
      /\ \A r \in old.raw.mem : tb.skew[r] \in Nat
  BY <1>2, <1>3, BlockFacts
<1>5. TBs = [j \in TBIndex |-> TBs[j]]
  BY DEF Types
<1> HIDE DEF tb
<1>6. TBs' = [j \in TBIndex |-> IF j = i THEN tb ELSE TBs[j]]
  BY <1>1, <1>5
<1>7. TBs'[i] = tb /\ \A j \in TBIndex : TBs'[j] = IF j = i THEN tb ELSE TBs[j]
  BY <1>6
<1>8. Stays
  BY <1>2, <1>6, <1>7 DEF Stays, Ready
<1>9. Ready(i)'
  BY <1>1, <1>2, <1>7 DEF Ready
<1>10. \A j \in TBIndex : TBOK(TBs'[j]) /\ (j >= nextTB' => TBs'[j].gen = 0)
  BY <1>1, <1>2, <1>7 DEF Types
<1>11. slice' \in SliceType /\ slice'.index = i
  BY <1>1, <1>4, SliceFacts
<1> QED
  BY <1>1, <1>4, <1>7, <1>8, <1>9, <1>10, <1>11 DEF tb

\* The invariant holds at the start.
LEMMA InitDInv == Init => DInv
<1> SUFFICES ASSUME Init PROVE DInv
  OBVIOUS
<1>1. TBs = [i \in TBIndex |-> NoTB]
  BY DEF Init
<1>2. TBOK(NoTB)
  BY DEF TBOK, NoTB
<1>3. \A i \in TBIndex : TBs[i] = NoTB
  BY <1>1
<1>4. NoTB.gen = 0
  BY DEF NoTB
<1>5. Types
  BY <1>1, <1>2, <1>3, <1>4 DEF Init, Types
<1>6. AllReady
  BY DEF Init, AllReady
<1> QED
  BY <1>5, <1>6 DEF DInv

\* A ready TB keeps its MCInsts in a step that leaves what is ready alone.
LEMMA ReadyStays ==
  ASSUME Types, Stays, NEW i, Ready(i)
  PROVE  Ready(i)' /\ TBs'[i].gen = TBs[i].gen /\ TBs'[i].mcinsts = TBs[i].mcinsts
BY DEF Stays, Ready

\* A step that does not change TBs does so.
LEMMA SameStays ==
  ASSUME Types, TBs' = TBs
  PROVE  Stays
BY DEF Types, Stays, Ready

\* What is ready stays ready when nothing new is queued, selected or copied.
LEMMA KeepReady ==
  ASSUME DInv, Stays, UNCHANGED <<TBQueue, selected, batch>>,
         rpc' = "enqueue" => rpc = "enqueue" /\ slice' = slice,
         wpc' = "convert" => wpc = "convert"
  PROVE  AllReady'
<1>1. Types /\ AllReady
  BY DEF DInv
<1>2. \A i : Ready(i) => Ready(i)' /\ TBs'[i].gen = TBs[i].gen
  BY <1>1, ReadyStays
<1>3. rpc' = "enqueue" => Ready(slice.index)'
  BY <1>1, <1>2 DEF AllReady, Ready
<1>4. /\ \A k \in DOMAIN TBQueue' : Ready(TBQueue[k].index)'
      /\ \A k \in DOMAIN selected' : Ready(selected[k].index)'
  BY <1>1, <1>2 DEF AllReady, Ready
<1>5. wpc' = "convert" => /\ batch' \in Seq(InstType)
                          /\ \A k \in DOMAIN batch' :
                               /\ Ready(batch[k].index)'
                               /\ TBs'[batch'[k].index].gen = batch'[k].gen
  BY <1>1, <1>2 DEF AllReady, Ready
<1> QED
  BY <1>3, <1>4, <1>5 DEF AllReady

\* A ready TB is one of Blocks and has the number of MCInsts of its bytes.
LEMMA ReadyNat ==
  ASSUME Types, NEW i, Ready(i)
  PROVE  TBs[i].mcinsts \in Nat /\ TBs[i].gen \in Nat /\ TBs[i].mcinsts < NoEnd
         /\ TBs[i].raw \in Blocks
<1>1. TBOK(TBs[i]) /\ TBs[i].gen # 0 /\ TBs[i].mcinsts = NumInsts(TBs[i].raw)
  BY DEF Types, Ready
<1>2. TBs[i].raw \in Blocks /\ TBs[i].gen \in Nat
  BY <1>1 DEF TBOK
<1> QED
  BY <1>1, <1>2, BlockFacts

\* What DInv says of the queue, as the lemmas about the selection need it.
LEMMA QueueNat ==
  ASSUME DInv
  PROVE  /\ TBQueue \in Seq(SliceType)
         /\ \A k \in 1 .. Len(TBQueue) : /\ TBQueue[k] \in SliceType
                                         /\ Ready(TBQueue[k].index)
                                         /\ TBs[TBQueue[k].index].mcinsts \in Nat
<1>1. TBQueue \in Seq(SliceType) /\ DOMAIN TBQueue = 1 .. Len(TBQueue)
  BY DEF DInv, Types
<1>2. \A k \in 1 .. Len(TBQueue) : Ready(TBQueue[k].index)
  BY <1>1 DEF DInv, AllReady
<1> QED
  BY <1>1, <1>2, ReadyNat DEF DInv

\* The selection only takes slices whose TBs are ready.
LEMMA SelectKeeps ==
  ASSUME DInv, FetchSelect
  PROVE  DInv'
<1> DEFINE q == TBQueue
           d == NumWhole(q)
           sp == Selects(q, d)
           room == Room(q)[d]
<1>1. /\ q \in Seq(SliceType)
      /\ \A k \in 1 .. Len(q) : /\ q[k] \in SliceType
                                /\ Ready(q[k].index)
                                /\ TBs[q[k].index].mcinsts \in Nat
  BY QueueNat
<1>2. d \in 0 .. Len(q) /\ (sp => d < Len(q)) /\ Cut(d, sp) /\ Len(q) \in Nat
  BY <1>1, SelectFacts
<1>3. sp => /\ room \in Nat /\ q[d+1] \in SliceType /\ Ready(q[d+1].index)
            /\ SplitTaken(q[d+1], room).index = q[d+1].index
            /\ SplitRest(q[d+1], room).index = q[d+1].index
  <2> SUFFICES ASSUME sp
               PROVE  /\ room \in Nat /\ q[d+1] \in SliceType /\ Ready(q[d+1].index)
                      /\ SplitTaken(q[d+1], room).index = q[d+1].index
                      /\ SplitRest(q[d+1], room).index = q[d+1].index
    OBVIOUS
  <2>1. room \in Nat
    BY <1>1, WholeFacts
  <2>2. d + 1 \in 1 .. Len(q)
    BY <1>2
  <2>3. q[d+1] \in SliceType /\ Ready(q[d+1].index)
    BY <1>1, <2>2
  <2> QED
    BY <2>1, <2>3, SplitType
<1>4. /\ TBs' = TBs /\ rpc' = rpc /\ slice' = slice /\ wpc' = "deliver"
      /\ UNCHANGED <<conns, nextTB, execs, CurBinRegion>>
  BY DEF FetchSelect, recvVars, histVars
<1> HIDE DEF sp, d, room
<1>5. ASSUME NEW k \in 1 .. Len(TBQueue') PROVE Ready(TBQueue'[k].index)
  <2>1. TBQueue'[k] = IF sp /\ k = 1 THEN SplitRest(q[d+1], room) ELSE q[k+d]
    BY <1>2 DEF Cut, room
  <2>2. k + d \in 1 .. Len(q)
    BY <1>2 DEF Cut
  <2> QED
    BY <1>1, <1>3, <2>1, <2>2
<1>6. ASSUME NEW k \in 1 .. Len(selected') PROVE Ready(selected'[k].index)
  <2>1. /\ selected'[k] = IF k = d + 1 THEN SplitTaken(q[d+1], room) ELSE q[k]
        /\ Len(selected') = IF sp THEN d + 1 ELSE d
    BY <1>2 DEF Cut, room
  <2>2. k = d + 1 => sp
    BY <1>2, <2>1
  <2>3. k # d + 1 => k \in 1 .. Len(q)
    BY <1>2, <2>1
  <2> QED
    BY <1>1, <1>3, <2>1, <2>2, <2>3
<1>7. TBQueue' \in Seq(SliceType) /\ selected' \in Seq(SliceType)
  BY <1>2 DEF Cut
<1>8. Types'
  BY <1>4, <1>7 DEF DInv, Types
<1>9. AllReady'
  <2>1. \A k \in DOMAIN TBQueue' : Ready(TBQueue[k].index)'
    BY <1>4, <1>5, <1>7 DEF Ready
  <2>2. \A k \in DOMAIN selected' : Ready(selected[k].index)'
    BY <1>4, <1>6, <1>7 DEF Ready
  <2>3. rpc' = "enqueue" => Ready(slice.index)'
    BY <1>4 DEF DInv, AllReady, Ready
  <2> QED
    BY <1>4, <2>1, <2>2, <2>3 DEF AllReady
<1> QED
  BY <1>8, <1>9 DEF DInv

\* The copies are of TBs that are ready.
LEMMA DeliverKeeps ==
  ASSUME DInv, FetchDeliver
  PROVE  DInv'
<1> DEFINE G == {x \in InstType : Ready(x.index) /\ TBs[x.index].gen = x.gen}
<1>1. selected \in Seq(SliceType) /\ \A j \in 1 .. Len(selected) : Ready(selected[j].index)
  BY DEF DInv, Types, AllReady
<1>2. ASSUME NEW j \in 1 .. Len(selected) PROVE Copies(selected[j]) \in Seq(G)
  <2> DEFINE s == selected[j]
             c == Copies(s)
  <2>1. s \in SliceType /\ Ready(s.index)
    BY <1>1
  <2>2. TBs[s.index].mcinsts \in Nat /\ TBs[s.index].gen \in Nat
    BY <2>1, ReadyNat DEF DInv
  <2> HIDE DEF s
  <2>3. /\ c \in Seq(InstType)
        /\ \A k \in DOMAIN c : c[k].index = s.index /\ c[k].gen = TBs[s.index].gen
    BY <2>1, <2>2, CopyFacts DEF Copies
  <2> HIDE DEF c
  <2>4. \A k \in 1 .. Len(c) : c[k] \in G
    BY <2>1, <2>3
  <2> HIDE DEF G
  <2>5. c \in Seq(G)
    BY <2>3, <2>4
  <2> QED
    BY <2>5 DEF c, s
<1>3. batch' \in Seq(G)
  <2> HIDE DEF G
  <2> QED BY <1>1, <1>2, DeliverFacts
<1>4. \A k \in DOMAIN batch' : batch'[k] \in G
  <2> HIDE DEF G
  <2> QED BY <1>3
<1>5. batch' \in Seq(InstType)
  BY <1>3, <1>4
<1>6. /\ TBs' = TBs /\ rpc' = rpc /\ slice' = slice /\ selected' = <<>>
      /\ UNCHANGED <<conns, nextTB, execs, CurBinRegion, TBQueue>>
  BY DEF FetchDeliver, recvVars, sharedVars, histVars
<1>7. Types'
  BY <1>6 DEF DInv, Types
<1>8. AllReady'
  <2>1. \A k \in DOMAIN TBQueue' : Ready(TBQueue[k].index)'
    BY <1>6 DEF DInv, AllReady, Ready
  <2>2. \A k \in DOMAIN selected' : Ready(selected[k].index)'
    BY <1>6
  <2>3. rpc' = "enqueue" => Ready(slice.index)'
    BY <1>6 DEF DInv, AllReady, Ready
  <2>4. \A k \in DOMAIN batch' : /\ Ready(batch[k].index)'
                                 /\ TBs'[batch'[k].index].gen = batch'[k].gen
    BY <1>4, <1>6 DEF Ready
  <2> QED
    BY <1>5, <2>1, <2>2, <2>3, <2>4 DEF AllReady
<1> QED
  BY <1>7, <1>8 DEF DInv

\* Every step keeps DInv, if no TB replaces another.
LEMMA NextDInv == FreshIndices /\ DInv /\ [Next]_vars => DInv'
<1> SUFFICES ASSUME FreshIndices, DInv, [Next]_vars PROVE DInv'
  OBVIOUS
<1>0. Types /\ AllReady
  BY DEF DInv
<1>1. ASSUME TBs' = TBs, UNCHANGED <<TBQueue, selected>>, batch' = batch \/ wpc' # "convert",
             rpc' = "enqueue" => rpc = "enqueue" /\ slice' = slice,
             wpc' = "convert" => wpc = "convert",
             conns' \in Nat, rpc' # "accept" => conns' # 0, nextTB' = nextTB,
             execs' \in Nat, CurBinRegion' = CurBinRegion
      PROVE  DInv'
  <2>1. Types'
    BY <1>0, <1>1 DEF Types
  <2>2. AllReady'
    BY <1>0, <1>1 DEF AllReady, Ready
  <2> QED
    BY <2>1, <2>2 DEF DInv
<1>2. CASE Accept
  BY <1>0, <1>1, <1>2 DEF Accept, Types, sharedVars, workVars, histVars
<1>3. CASE CloseConnection
  BY <1>0, <1>1, <1>3 DEF CloseConnection, Types, sharedVars, workVars, histVars
<1>4. CASE HandleMetadata
  BY <1>0, <1>1, <1>4 DEF HandleMetadata, Types, sharedVars, workVars, histVars
<1>5. ASSUME NEW b \in Blocks, AddTB(nextTB, b) PROVE DInv'
  <2>1. /\ rpc' = rpc /\ rpc = "read" /\ nextTB' = nextTB + 1 /\ wpc' = wpc
        /\ UNCHANGED <<slice, conns, execs, CurBinRegion, TBQueue, selected, batch>>
    BY <1>5 DEF AddTB, sharedVars, workVars, histVars
  <2>2. /\ Stays /\ \A i \in TBIndex : TBOK(TBs'[i])
        /\ \A i \in TBIndex : i >= nextTB' => TBs'[i].gen = 0
    BY <1>0, <1>5, AddStays
  <2>3. AllReady'
    BY <2>1, <2>2, KeepReady
  <2>4. Types'
    BY <1>0, <2>1, <2>2 DEF Types, Stays
  <2> QED
    BY <2>3, <2>4 DEF DInv
<1>6. CASE TbExecEnd
  BY <1>0, <1>1, <1>6 DEF TbExecEnd, Types, sharedVars, workVars, histVars
<1>7. ASSUME NEW i \in TBIndex, TbExecInvalid(i) PROVE DInv'
  BY <1>0, <1>1, <1>7 DEF TbExecInvalid, Types, recvVars, sharedVars, workVars, histVars
<1>8. ASSUME NEW i \in TBIndex, TbExec(i, TBs[i].raw.mem) PROVE DInv'
  <2>1. /\ rpc' \in {"read", "enqueue"} /\ rpc = "read" /\ nextTB' = nextTB /\ wpc' = wpc
        /\ execs' = execs + 1
        /\ UNCHANGED <<conns, TBQueue, selected, batch>>
    BY <1>8 DEF TbExec, sharedVars, workVars
  <2>2. /\ Stays /\ \A j \in TBIndex : TBOK(TBs'[j])
        /\ \A j \in TBIndex : j >= nextTB' => TBs'[j].gen = 0
        /\ slice' \in SliceType /\ slice'.index = i /\ Ready(i)'
    BY <1>0, <1>8, ExecStays
  <2>3. CurBinRegion' \in {NoRegion} \cup DOMAIN Regions
    <3>1. CurBinRegion \in {NoRegion} \cup DOMAIN Regions /\ TBs'[i].mcinsts \in Nat
          /\ TBs'[i] = Decoded(TBs[i])
      BY <1>0, <1>8, ExecStays DEF Types
    <3>2. HandleBinaryRegions(Decoded(TBs[i])).cur \in {NoRegion} \cup DOMAIN Regions
      BY <3>1, HitFacts
    <3>3. CurBinRegion' \in {CurBinRegion, HandleBinaryRegions(Decoded(TBs[i])).cur}
      BY <1>8 DEF TbExec
    <3> QED
      BY <3>1, <3>2, <3>3
  <2>4. Types'
    BY <1>0, <2>1, <2>2, <2>3 DEF Types, Stays
  <2>5. AllReady'
    <3>1. \A j : Ready(j) => Ready(j)' /\ TBs'[j].gen = TBs[j].gen
      BY <1>0, <2>2, ReadyStays
    <3>2. \A k \in DOMAIN TBQueue' : Ready(TBQueue[k].index)'
      BY <1>0, <2>1, <3>1 DEF AllReady, Ready
    <3>3. \A k \in DOMAIN selected' : Ready(selected[k].index)'
      BY <1>0, <2>1, <3>1 DEF AllReady, Ready
    <3>4. Ready(slice.index)'
      BY <2>2 DEF Ready
    <3>5. wpc' = "convert" => /\ batch' \in Seq(InstType)
                              /\ \A k \in DOMAIN batch' :
                                   /\ Ready(batch[k].index)'
                                   /\ TBs'[batch'[k].index].gen = batch'[k].gen
      BY <1>0, <2>1, <3>1 DEF AllReady, Ready
    <3> QED
      BY <3>2, <3>3, <3>4, <3>5 DEF AllReady
  <2> QED
    BY <2>4, <2>5 DEF DInv
<1>9. CASE Enqueue
  <2>1. /\ rpc = "enqueue" /\ rpc' = "notify" /\ TBQueue' = Append(TBQueue, slice)
        /\ UNCHANGED <<TBs, conns, nextTB, execs, CurBinRegion, wpc, selected, batch>>
    BY <1>9 DEF Enqueue, workVars, histVars
  <2>2. /\ TBQueue \in Seq(SliceType) /\ slice \in SliceType /\ Ready(slice.index)
        /\ \A k \in DOMAIN TBQueue : Ready(TBQueue[k].index)
    BY <1>0, <2>1 DEF Types, AllReady
  <2>3. TBQueue' \in Seq(SliceType) /\ \A k \in DOMAIN TBQueue' : Ready(TBQueue'[k].index)
    BY <2>1, <2>2
  <2>4. Types'
    BY <1>0, <2>1, <2>3 DEF Types
  <2>5. \A k \in DOMAIN TBQueue' : Ready(TBQueue[k].index)'
    BY <2>1, <2>3 DEF Ready
  <2>6. AllReady'
    BY <1>0, <2>1, <2>5 DEF AllReady, Ready
  <2> QED
    BY <2>4, <2>6 DEF DInv
<1>10. CASE Notify
  BY <1>0, <1>1, <1>10 DEF Notify, Types, sharedVars, workVars, histVars
<1>11. CASE FetchEmpty
  BY <1>0, <1>1, <1>11 DEF FetchEmpty, Types, recvVars, sharedVars, workVars, histVars
<1>12. CASE SpuriousWakeup
  BY <1>0, <1>1, <1>12 DEF SpuriousWakeup, Types, recvVars, sharedVars, workVars, histVars
<1>13. CASE FetchSelect
  BY <1>13, SelectKeeps
<1>14. CASE FetchDeliver
  BY <1>14, DeliverKeeps
<1>15. CASE Convert
  BY <1>0, <1>1, <1>15 DEF Convert, Types, recvVars, sharedVars, workVars, histVars
<1>16. CASE UNCHANGED vars
  BY <1>0, <1>1, <1>16 DEF vars, Types, recvVars, sharedVars, workVars, histVars
<1> QED
  BY <1>2, <1>3, <1>4, <1>5, <1>6, <1>7, <1>8, <1>9, <1>10, <1>11, <1>12, <1>13, <1>14,
     <1>15, <1>16 DEF Next, Receiver, Worker

\* For every trace, mode and set of regions, and however the two threads
\* interleave: if no index is sent twice, the MCInsts the worker reads after
\* fetchRegion has released TBsMutex still exist.  An index that is sent again by another connection is the only
\* way to a dangling MCInst, and the run that violates NoDanglingInst takes it.
THEOREM FreshNeverDangles == FreshIndices => (Spec => []NoDanglingInst)
<1> SUFFICES ASSUME FreshIndices PROVE Spec => []NoDanglingInst
  OBVIOUS
<1>1. DInv => NoDanglingInst
  BY DEF DInv, AllReady, NoDanglingInst
<1>2. DInv /\ [Next]_vars => DInv'
  BY NextDInv
<1> QED
  BY <1>1, <1>2, InitDInv, PTL DEF Spec

-----------------------------------------------------------------------------
(* What is copied is there.                                                *)

\* A slice lies in its TB: it begins in it or where it ends, and ends in it or
\* runs to its end.
Inside(s) == /\ s.begin <= TBs[s.index].mcinsts /\ s.begin < s.end
             /\ s.end = NoEnd \/ s.end <= TBs[s.index].mcinsts

\* A slice whose length the estimate exceeds: it skips the start of the TB and
\* runs to its end.
Late(s) == s.begin > 0 /\ s.end = NoEnd

\* The last slice of q ends a region.
EndsRegion(q) == q # <<>> => q[Len(q)].region # NoRegion

\* The inductive invariant behind CopiesStayInBounds.  A late slice is the first
\* of its region, so the slice before it in the queue ended one, and the
\* selection stops there: a late slice comes first in its batch or not at all.
SInv ==
  /\ \A k \in DOMAIN TBQueue : Inside(TBQueue[k])
  /\ \A k \in 2 .. Len(TBQueue) : Late(TBQueue[k]) => TBQueue[k-1].region # NoRegion
  /\ rpc = "enqueue" =>
       /\ Inside(slice)
       /\ Late(slice) => EndsRegion(TBQueue)
       /\ Trim /\ CurBinRegion = NoRegion => slice.region # NoRegion
  /\ rpc # "enqueue" /\ Trim /\ CurBinRegion = NoRegion => EndsRegion(TBQueue)
  /\ \A k \in DOMAIN selected : /\ selected[k].begin <= TBs[selected[k].index].mcinsts
                                /\ selected[k].begin <= selected[k].end
  /\ CopiesInBounds

\* No index is sent twice and no TB is longer than a batch.  With a longer TB
\* fetchRegion can split a late slice beyond the end of its TB.
BlocksFit == FreshIndices /\ \A b \in Blocks : NumInsts(b) <= Chunk

\* The invariant holds at the start.
LEMMA InitSInv == Init => SInv
BY DEF Init, SInv, EndsRegion, CopiesInBounds

\* A step that leaves ready TBs, the queue and the selection alone keeps SInv.
LEMMA KeepSInv ==
  ASSUME DInv, SInv, Stays, UNCHANGED <<TBQueue, selected, CurBinRegion>>,
         rpc' = "enqueue" <=> rpc = "enqueue", rpc' = "enqueue" => slice' = slice,
         wpc' = "convert" => wpc = "convert" /\ batch' = batch
  PROVE  SInv'
<1>1. \A i : Ready(i) => TBs'[i].mcinsts = TBs[i].mcinsts
  BY ReadyStays DEF DInv
<1>2. /\ \A k \in DOMAIN TBQueue : Ready(TBQueue[k].index)
      /\ \A k \in DOMAIN selected : Ready(selected[k].index)
      /\ rpc = "enqueue" => Ready(slice.index)
      /\ wpc = "convert" => \A k \in DOMAIN batch : Ready(batch[k].index)
  BY DEF DInv, AllReady
<1>3. \A k \in DOMAIN TBQueue' : Inside(TBQueue[k])'
  BY <1>1, <1>2 DEF SInv, Inside
<1>4. \A k \in 2 .. Len(TBQueue') : Late(TBQueue'[k]) => TBQueue'[k-1].region # NoRegion
  BY DEF SInv
<1>5. rpc' = "enqueue" =>
        /\ Inside(slice)'
        /\ Late(slice') => EndsRegion(TBQueue')
        /\ Trim /\ CurBinRegion' = NoRegion => slice'.region # NoRegion
  <2> SUFFICES ASSUME rpc' = "enqueue"
               PROVE  /\ Inside(slice)'
                      /\ Late(slice') => EndsRegion(TBQueue')
                      /\ Trim /\ CurBinRegion' = NoRegion => slice'.region # NoRegion
    OBVIOUS
  <2>1. rpc = "enqueue" /\ slice' = slice
    OBVIOUS
  <2>2. Inside(slice)'
    BY <1>1, <1>2, <2>1 DEF SInv, Inside
  <2> QED
    BY <2>1, <2>2 DEF SInv
<1>6. rpc' # "enqueue" /\ Trim /\ CurBinRegion' = NoRegion => EndsRegion(TBQueue')
  BY DEF SInv
<1>7. \A k \in DOMAIN selected' : /\ selected'[k].begin <= TBs'[selected'[k].index].mcinsts
                                  /\ selected'[k].begin <= selected'[k].end
  BY <1>1, <1>2 DEF SInv
<1>8. CopiesInBounds'
  BY <1>1, <1>2 DEF SInv, CopiesInBounds
<1> QED
  BY <1>3, <1>4, <1>5, <1>6, <1>7, <1>8 DEF SInv, Late, EndsRegion, Trim

\* So does the selection: a slice that is cut is not late, and both its parts
\* lie in its TB.
LEMMA SelectSInv ==
  ASSUME BlocksFit, DInv, SInv, FetchSelect
  PROVE  SInv'
<1> DEFINE q == TBQueue
           d == NumWhole(q)
           sp == Selects(q, d)
           room == Room(q)[d]
           s == q[d+1]
           m == TBs[s.index].mcinsts
<1>1. /\ q \in Seq(SliceType)
      /\ \A k \in 1 .. Len(q) : /\ q[k] \in SliceType
                                /\ Ready(q[k].index)
                                /\ TBs[q[k].index].mcinsts \in Nat
  BY QueueNat
<1>2. d \in 0 .. Len(q) /\ (sp => d < Len(q)) /\ Cut(d, sp) /\ Len(q) \in Nat
  BY <1>1, SelectFacts
<1>3. /\ \A k \in 1 .. Len(q) : Inside(q[k])
      /\ \A k \in 2 .. Len(q) : Late(q[k]) => q[k-1].region # NoRegion
  BY <1>1 DEF SInv
<1>4. ASSUME sp
      PROVE  /\ Inside(SplitRest(s, room)) /\ SplitRest(s, room).region = s.region
             /\ SplitTaken(s, room).index = s.index
             /\ SplitTaken(s, room).begin <= m
             /\ SplitTaken(s, room).begin <= SplitTaken(s, room).end
  <2>1. d + 1 \in 1 .. Len(q)
    BY <1>2, <1>4
  <2>2. s \in SliceType /\ Ready(s.index) /\ m \in Nat /\ Inside(s)
    BY <1>1, <1>3, <2>1
  <2>3. /\ room \in Nat \ {0} /\ room < SliceLen(s)
        /\ d = 0 => room = Chunk
        /\ d > 0 => q[d].region = NoRegion
    BY <1>1, <1>4, WholeFacts
  <2>4. /\ SplitRest(s, room).index = s.index
        /\ SplitRest(s, room).begin = s.begin + room
        /\ SplitRest(s, room).end = s.end
        /\ SplitRest(s, room).region = s.region
        /\ SplitTaken(s, room).index = s.index
        /\ SplitTaken(s, room).begin = s.begin
        /\ SplitTaken(s, room).end = s.begin + room
    BY <2>2, <2>3, SplitType
  <2>5. /\ SliceLen(s) \in Int
        /\ SliceLen(s) <= m /\ SliceLen(s) <= s.end - s.begin
    BY <2>2, SliceLenType
  <2>6. m <= Chunk
    BY <2>2, ReadyNat DEF BlocksFit, Ready, DInv
  <2>7. Chunk \in Nat
    BY BrokerAssumption DEF NoEnd
  <2>8. ~Late(s)
    <3>1. CASE d = 0
      BY <2>2, <2>3, <2>5, <2>6, <2>7, <3>1
    <3>2. CASE d > 0
      <4>1. d + 1 \in 2 .. Len(q) /\ (d + 1) - 1 = d
        BY <1>2, <2>1, <3>2
      <4> QED
        BY <1>3, <2>3, <3>2, <4>1
    <3> QED
      BY <1>2, <3>1, <3>2
  <2>9. s.begin \in Nat /\ s.end \in Nat
    BY <2>2 DEF SliceType
  <2> HIDE DEF s, m, room
  <2>10. s.begin <= m /\ s.begin < s.end /\ (s.end = NoEnd \/ s.end <= m)
    BY <2>2 DEF Inside, m
  <2>11. s.begin = 0 \/ s.end <= m
    BY <2>8, <2>9, <2>10 DEF Late
  <2>12. s.begin + room <= m /\ s.begin + room < s.end
    BY <2>2, <2>3, <2>5, <2>9, <2>11
  <2>13. Inside(SplitRest(s, room))
    BY <2>4, <2>10, <2>12 DEF Inside, m
  <2> QED
    BY <2>3, <2>4, <2>9, <2>10, <2>13
<1>5. /\ TBs' = TBs /\ rpc' = rpc /\ slice' = slice /\ wpc' = "deliver"
      /\ CurBinRegion' = CurBinRegion
  BY DEF FetchSelect, recvVars, histVars
<1> HIDE DEF sp, d, room, s, m
<1>6. ASSUME NEW k \in 1 .. Len(TBQueue')
      PROVE  /\ k + d \in 1 .. Len(q)
             /\ TBQueue'[k] = IF sp /\ k = 1 THEN SplitRest(s, room) ELSE q[k+d]
             /\ TBQueue'[k].region = q[k+d].region
             /\ Inside(TBQueue'[k])
  <2>1. TBQueue'[k] = IF sp /\ k = 1 THEN SplitRest(s, room) ELSE q[k+d]
    BY <1>2 DEF Cut, room, s
  <2>2. k + d \in 1 .. Len(q)
    BY <1>2 DEF Cut
  <2>3. k = 1 => q[k+d] = s
    BY <1>2 DEF s
  <2>4. CASE sp /\ k = 1
    BY <1>4, <2>1, <2>2, <2>3, <2>4
  <2>5. CASE ~(sp /\ k = 1)
    BY <1>3, <2>1, <2>2, <2>5
  <2> QED
    BY <2>1, <2>2, <2>4, <2>5
<1>7. Len(TBQueue') \in Nat /\ DOMAIN TBQueue' = 1 .. Len(TBQueue') /\ Len(TBQueue') = Len(q) - d
      /\ DOMAIN selected' = 1 .. Len(selected') /\ Len(selected') \in Nat
  BY <1>2 DEF Cut
<1>8. \A k \in DOMAIN TBQueue' : Inside(TBQueue[k])'
  BY <1>5, <1>6, <1>7 DEF Inside
<1>9. ASSUME NEW k \in 2 .. Len(TBQueue'), Late(TBQueue'[k])
      PROVE  TBQueue'[k-1].region # NoRegion
  <2>1. k \in 1 .. Len(TBQueue') /\ k - 1 \in 1 .. Len(TBQueue') /\ k # 1
    BY <1>7
  <2>2. TBQueue'[k] = q[k+d] /\ TBQueue'[k-1].region = q[(k-1)+d].region
        /\ k + d \in 1 .. Len(q)
    BY <1>6, <2>1
  <2>3. k + d \in 2 .. Len(q) /\ (k + d) - 1 = (k - 1) + d
    BY <1>2, <2>2
  <2>4. Late(q[k+d])
    BY <1>9, <2>2
  <2> QED
    BY <1>3, <2>2, <2>3, <2>4
<1>10. EndsRegion(q) => EndsRegion(TBQueue')
  <2> SUFFICES ASSUME EndsRegion(q), TBQueue' # <<>>
               PROVE  TBQueue'[Len(TBQueue')].region # NoRegion
    BY DEF EndsRegion
  <2>1. Len(TBQueue') # 0
    <3>1. TBQueue' \in Seq(SliceType)
      BY <1>2 DEF Cut
    <3> QED
      BY <3>1
  <2>2. Len(TBQueue') \in 1 .. Len(TBQueue') /\ Len(TBQueue') + d = Len(q) /\ Len(q) # 0
    BY <1>2, <1>7, <2>1
  <2>3. TBQueue'[Len(TBQueue')].region = q[Len(q)].region
    BY <1>6, <2>2
  <2> QED
    BY <1>1, <2>2, <2>3 DEF EndsRegion
<1>11. ASSUME NEW k \in 1 .. Len(selected')
       PROVE  /\ selected'[k].begin <= TBs[selected'[k].index].mcinsts
              /\ selected'[k].begin <= selected'[k].end
  <2>1. /\ selected'[k] = IF k = d + 1 THEN SplitTaken(s, room) ELSE q[k]
        /\ Len(selected') = IF sp THEN d + 1 ELSE d
    BY <1>2 DEF Cut, room, s
  <2>2. k = d + 1 => sp
    BY <1>2, <2>1
  <2>3. CASE k = d + 1
    BY <1>4, <2>1, <2>2, <2>3 DEF m
  <2>4. CASE k # d + 1
    <3>1. k \in 1 .. Len(q)
      BY <1>2, <2>1, <2>4
    <3>2. Inside(q[k]) /\ q[k] \in SliceType
      BY <1>1, <1>3, <3>1
    <3>3. q[k].begin \in Nat /\ q[k].end \in Nat
      BY <3>2 DEF SliceType
    <3> QED
      BY <2>1, <2>4, <3>2, <3>3 DEF Inside
  <2> QED
    BY <2>3, <2>4
<1>12. \A k \in DOMAIN selected' : /\ selected'[k].begin <= TBs'[selected'[k].index].mcinsts
                                   /\ selected'[k].begin <= selected'[k].end
  BY <1>5, <1>7, <1>11
<1>13. rpc' = "enqueue" =>
         /\ Inside(slice)'
         /\ Late(slice') => EndsRegion(TBQueue')
         /\ Trim /\ CurBinRegion' = NoRegion => slice'.region # NoRegion
  BY <1>5, <1>10 DEF SInv, Inside
<1>14. rpc' # "enqueue" /\ Trim /\ CurBinRegion' = NoRegion => EndsRegion(TBQueue')
  BY <1>5, <1>10 DEF SInv
<1>15. CopiesInBounds'
  BY <1>5 DEF CopiesInBounds
<1> QED
  BY <1>8, <1>9, <1>12, <1>13, <1>14, <1>15 DEF SInv, Late, EndsRegion, Trim

\* Slices that lie in their TBs are copied from inside them.
LEMMA DeliverSInv ==
  ASSUME DInv, SInv, FetchDeliver
  PROVE  SInv'
<1> DEFINE G == {x \in InstType : x.pos < TBs[x.index].mcinsts}
<1>1. /\ selected \in Seq(SliceType)
      /\ \A j \in 1 .. Len(selected) :
           /\ Ready(selected[j].index)
           /\ selected[j].begin <= TBs[selected[j].index].mcinsts
           /\ selected[j].begin <= selected[j].end
  BY DEF DInv, Types, AllReady, SInv
<1>2. ASSUME NEW j \in 1 .. Len(selected) PROVE Copies(selected[j]) \in Seq(G)
  <2> DEFINE s == selected[j]
             c == Copies(s)
  <2>1. s \in SliceType /\ Ready(s.index)
        /\ s.begin <= TBs[s.index].mcinsts /\ s.begin <= s.end
    BY <1>1
  <2>2. TBs[s.index].mcinsts \in Nat /\ TBs[s.index].gen \in Nat
    BY <2>1, ReadyNat DEF DInv
  <2> HIDE DEF s
  <2>3. /\ c \in Seq(InstType)
        /\ \A k \in DOMAIN c : c[k].index = s.index /\ c[k].pos < TBs[s.index].mcinsts
    BY <2>1, <2>2, CopyFacts DEF Copies
  <2> HIDE DEF c
  <2>4. \A k \in 1 .. Len(c) : c[k] \in G
    BY <2>3
  <2> HIDE DEF G
  <2>5. c \in Seq(G)
    BY <2>3, <2>4
  <2> QED
    BY <2>5 DEF c, s
<1>3. batch' \in Seq(G)
  <2> HIDE DEF G
  <2> QED BY <1>1, <1>2, DeliverFacts
<1>4. \A k \in DOMAIN batch' : batch'[k] \in G
  <2> HIDE DEF G
  <2> QED BY <1>3
<1>5. /\ TBs' = TBs /\ rpc' = rpc /\ slice' = slice /\ selected' = <<>>
      /\ UNCHANGED <<CurBinRegion, TBQueue>>
  BY DEF FetchDeliver, recvVars, sharedVars, histVars
<1>6. CopiesInBounds'
  BY <1>4, <1>5 DEF CopiesInBounds
<1>7. \A k \in DOMAIN TBQueue' : Inside(TBQueue[k])'
  BY <1>5 DEF SInv, Inside
<1>8. \A k \in 2 .. Len(TBQueue') : Late(TBQueue'[k]) => TBQueue'[k-1].region # NoRegion
  BY <1>5 DEF SInv
<1>9. rpc' = "enqueue" =>
        /\ Inside(slice)'
        /\ Late(slice') => EndsRegion(TBQueue')
        /\ Trim /\ CurBinRegion' = NoRegion => slice'.region # NoRegion
  BY <1>5 DEF SInv, Inside
<1>10. rpc' # "enqueue" /\ Trim /\ CurBinRegion' = NoRegion => EndsRegion(TBQueue')
  BY <1>5 DEF SInv
<1>11. \A k \in DOMAIN selected' : /\ selected'[k].begin <= TBs'[selected'[k].index].mcinsts
                                   /\ selected'[k].begin <= selected'[k].end
  BY <1>5
<1> QED
  BY <1>6, <1>7, <1>8, <1>9, <1>10, <1>11 DEF SInv, Late, EndsRegion, Trim

\* The slice of an executed TB lies in it; one that starts late starts a region.
LEMMA ExecSInv ==
  ASSUME DInv, SInv, NEW i \in TBIndex, TbExec(i, TBs[i].raw.mem)
  PROVE  SInv'
<1> DEFINE tb == TBs'[i]
           hit == HandleBinaryRegions(tb)
           s == slice'
<1>1. Types /\ AllReady
  BY DEF DInv
<1>2. /\ Stays /\ s \in SliceType /\ s.index = i
      /\ tb.mcinsts \in Nat /\ tb.mcinsts < NoEnd
      /\ tb = Decoded(TBs[i]) /\ s = SliceOf(i, tb, TBs[i].raw.mem)
      /\ \A r \in TBs[i].raw.mem : tb.skew[r] \in Nat
  BY <1>1, ExecStays
<1>3. /\ rpc = "read" /\ rpc' = IF s.begin = s.end THEN "read" ELSE "enqueue"
      /\ Mode = "trim" => CurBinRegion' = hit.cur
      /\ UNCHANGED <<TBQueue, selected, batch, wpc>>
  BY <1>2 DEF TbExec, sharedVars, workVars
<1>4. execs \in Nat /\ CurBinRegion \in {NoRegion} \cup DOMAIN Regions
  BY <1>1 DEF Types
<1>5. /\ s.begin # s.end =>
           /\ s.begin < s.end /\ s.begin <= tb.mcinsts
           /\ s.end = NoEnd \/ s.end <= tb.mcinsts
           /\ s.begin > 0 /\ s.end = NoEnd => Trim /\ CurBinRegion = NoRegion
           /\ Trim /\ hit.cur = NoRegion => s.region # NoRegion
      /\ s.begin = s.end => Trim /\ (hit.cur = NoRegion => CurBinRegion = NoRegion)
  <2> DEFINE t == Decoded(TBs[i])
             acc == TBs[i].raw.mem
  <2>1. tb = t /\ s = SliceOf(i, t, acc)
    BY <1>2
  <2>2. t.mcinsts \in Nat /\ t.mcinsts < NoEnd /\ \A r \in acc : t.skew[r] \in Nat
    BY <1>2
  <2> HIDE DEF t, acc, tb, s
  <2>3. LET u == SliceOf(i, t, acc)
            h == HandleBinaryRegions(t)
        IN  /\ u.begin # u.end =>
                 /\ u.begin < u.end /\ u.begin <= t.mcinsts
                 /\ u.end = NoEnd \/ u.end <= t.mcinsts
                 /\ u.begin > 0 /\ u.end = NoEnd => Trim /\ CurBinRegion = NoRegion
                 /\ Trim /\ h.cur = NoRegion => u.region # NoRegion
            /\ u.begin = u.end => Trim /\ (h.cur = NoRegion => CurBinRegion = NoRegion)
    BY <1>4, <2>2, SliceFacts
  <2> QED
    BY <2>1, <2>3
<1>6. \A j : Ready(j) => TBs'[j].mcinsts = TBs[j].mcinsts
  BY <1>1, <1>2, ReadyStays
<1> HIDE DEF hit, tb, s
<1>7. \A k \in DOMAIN TBQueue' : Inside(TBQueue[k])'
  BY <1>1, <1>3, <1>6 DEF SInv, Inside, AllReady
<1>8. \A k \in DOMAIN selected' : /\ selected'[k].begin <= TBs'[selected'[k].index].mcinsts
                                  /\ selected'[k].begin <= selected'[k].end
  BY <1>1, <1>3, <1>6 DEF SInv, AllReady
<1>9. CopiesInBounds'
  BY <1>1, <1>3, <1>6 DEF SInv, CopiesInBounds, AllReady
<1>10. Trim /\ CurBinRegion = NoRegion => EndsRegion(TBQueue)
  BY <1>3 DEF SInv
<1>11. Trim => CurBinRegion' = hit.cur
  BY <1>3 DEF Trim
<1>12. ASSUME rpc' = "enqueue"
       PROVE  /\ Inside(slice)'
              /\ Late(slice') => EndsRegion(TBQueue')
              /\ Trim /\ CurBinRegion' = NoRegion => slice'.region # NoRegion
  <2>1. s.begin # s.end
    BY <1>3, <1>12
  <2>2. Inside(slice)'
    BY <1>2, <1>5, <2>1 DEF Inside, s, tb
  <2>3. Late(s) => EndsRegion(TBQueue')
    BY <1>3, <1>5, <1>10, <2>1 DEF Late
  <2> QED
    BY <1>5, <1>11, <2>1, <2>2, <2>3 DEF s
<1>13. rpc' # "enqueue" /\ Trim /\ CurBinRegion' = NoRegion => EndsRegion(TBQueue')
  BY <1>3, <1>5, <1>10, <1>11
<1>14. \A k \in 2 .. Len(TBQueue') : Late(TBQueue'[k]) => TBQueue'[k-1].region # NoRegion
  BY <1>3 DEF SInv
<1> QED
  BY <1>7, <1>8, <1>9, <1>12, <1>13, <1>14 DEF SInv, Late, EndsRegion, Trim

\* Queueing the slice of an executed TB keeps SInv.
LEMMA EnqueueSInv ==
  ASSUME DInv, SInv, Enqueue
  PROVE  SInv'
<1> DEFINE q == TBQueue
           n == Len(q)
<1>1. /\ rpc = "enqueue" /\ rpc' = "notify" /\ TBQueue' = Append(q, slice)
      /\ UNCHANGED <<TBs, CurBinRegion, wpc, selected, batch>>
  BY DEF Enqueue, workVars, histVars
<1>2. /\ q \in Seq(SliceType) /\ slice \in SliceType
  BY <1>1 DEF DInv, Types
<1>3. /\ Len(TBQueue') = n + 1 /\ n \in Nat /\ DOMAIN TBQueue' = 1 .. n + 1
      /\ TBQueue'[n+1] = slice /\ \A k \in 1 .. n : TBQueue'[k] = q[k]
      /\ DOMAIN q = 1 .. n
  BY <1>1, <1>2
<1>4. /\ Inside(slice) /\ (Late(slice) => EndsRegion(q))
      /\ Trim /\ CurBinRegion = NoRegion => slice.region # NoRegion
      /\ \A k \in 1 .. n : Inside(q[k])
      /\ \A k \in 2 .. n : Late(q[k]) => q[k-1].region # NoRegion
  BY <1>1, <1>3 DEF SInv
<1> HIDE DEF n
<1>5. \A k \in DOMAIN TBQueue' : Inside(TBQueue'[k])
  <2> SUFFICES ASSUME NEW k \in 1 .. n + 1 PROVE Inside(TBQueue'[k])
    BY <1>3
  <2>1. k = n + 1 \/ k \in 1 .. n
    BY <1>3
  <2> QED
    BY <1>3, <1>4, <2>1
<1>6. \A k \in DOMAIN TBQueue' : Inside(TBQueue[k])'
  BY <1>1, <1>5 DEF Inside
<1>7. ASSUME NEW k \in 2 .. Len(TBQueue'), Late(TBQueue'[k])
      PROVE  TBQueue'[k-1].region # NoRegion
  <2>1. k - 1 \in 1 .. n /\ TBQueue'[k-1] = q[k-1]
    BY <1>3
  <2>2. CASE k = n + 1
    <3>1. q # <<>> /\ k - 1 = n
      BY <1>3, <2>1, <2>2
    <3>2. Late(slice)
      BY <1>3, <1>7, <2>2
    <3> QED
      BY <1>4, <2>1, <3>1, <3>2 DEF EndsRegion, n
  <2>3. CASE k # n + 1
    <3>1. k \in 2 .. n /\ TBQueue'[k] = q[k]
      BY <1>3, <2>3
    <3> QED
      BY <1>4, <1>7, <2>1, <3>1
  <2> QED
    BY <2>2, <2>3
<1>8. Trim /\ CurBinRegion' = NoRegion => EndsRegion(TBQueue')
  BY <1>1, <1>3, <1>4 DEF EndsRegion
<1>9. \A k \in DOMAIN selected' : /\ selected'[k].begin <= TBs'[selected'[k].index].mcinsts
                                  /\ selected'[k].begin <= selected'[k].end
  BY <1>1 DEF SInv
<1>10. CopiesInBounds'
  BY <1>1 DEF SInv, CopiesInBounds
<1> QED
  BY <1>1, <1>6, <1>7, <1>8, <1>9, <1>10 DEF SInv, Late, EndsRegion, Trim

\* Every step keeps SInv, if TBs fit into a batch.
LEMMA NextSInv == BlocksFit /\ DInv /\ SInv /\ [Next]_vars => SInv'
<1> SUFFICES ASSUME BlocksFit, DInv, SInv, [Next]_vars PROVE SInv'
  OBVIOUS
<1>0. Types
  BY DEF DInv
<1>1. ASSUME TBs' = TBs, UNCHANGED <<TBQueue, selected, CurBinRegion>>,
             rpc' = "enqueue" <=> rpc = "enqueue", rpc' = "enqueue" => slice' = slice,
             wpc' = "convert" => wpc = "convert" /\ batch' = batch
      PROVE  SInv'
  <2>1. Stays
    BY <1>0, <1>1, SameStays
  <2> QED
    BY <1>1, <2>1, KeepSInv
<1>2. CASE Accept
  BY <1>1, <1>2 DEF Accept, sharedVars, workVars, histVars
<1>3. CASE CloseConnection
  BY <1>1, <1>3 DEF CloseConnection, sharedVars, workVars, histVars
<1>4. CASE HandleMetadata
  BY <1>1, <1>4 DEF HandleMetadata, sharedVars, workVars, histVars
<1>5. ASSUME NEW b \in Blocks, AddTB(nextTB, b) PROVE SInv'
  <2>1. /\ rpc' = rpc /\ wpc' = wpc
        /\ UNCHANGED <<slice, CurBinRegion, TBQueue, selected, batch>>
    BY <1>5 DEF AddTB, sharedVars, workVars, histVars
  <2>2. Stays
    BY <1>0, <1>5, AddStays
  <2> QED
    BY <2>1, <2>2, KeepSInv
<1>6. CASE TbExecEnd
  BY <1>1, <1>6 DEF TbExecEnd, sharedVars, workVars, histVars
<1>7. ASSUME NEW i \in TBIndex, TbExecInvalid(i) PROVE SInv'
  BY <1>1, <1>7 DEF TbExecInvalid, recvVars, sharedVars, workVars, histVars
<1>8. ASSUME NEW i \in TBIndex, TbExec(i, TBs[i].raw.mem) PROVE SInv'
  BY <1>8, ExecSInv
<1>9. CASE Enqueue
  BY <1>9, EnqueueSInv
<1>10. CASE Notify
  BY <1>1, <1>10 DEF Notify, sharedVars, workVars, histVars
<1>11. CASE FetchEmpty
  BY <1>1, <1>11 DEF FetchEmpty, recvVars, sharedVars, workVars, histVars
<1>12. CASE SpuriousWakeup
  BY <1>1, <1>12 DEF SpuriousWakeup, recvVars, sharedVars, workVars, histVars
<1>13. CASE FetchSelect
  BY <1>13, SelectSInv
<1>14. CASE FetchDeliver
  BY <1>14, DeliverSInv
<1>15. CASE Convert
  BY <1>1, <1>15 DEF Convert, recvVars, sharedVars, workVars, histVars
<1>16. CASE UNCHANGED vars
  BY <1>1, <1>16 DEF vars, recvVars, sharedVars, workVars, histVars
<1> QED
  BY <1>2, <1>3, <1>4, <1>5, <1>6, <1>7, <1>8, <1>9, <1>10, <1>11, <1>12, <1>13, <1>14,
     <1>15, <1>16 DEF Next, Receiver, Worker

\* For every trace, mode, set of regions and batch size, and however the two
\* threads interleave: if no index is sent twice and no TB is longer than a
\* batch, fetchRegion copies only instructions the TB has, whatever it trims,
\* batches and splits.
THEOREM CopiesStayInBounds == BlocksFit => (Spec => []CopiesInBounds)
<1> SUFFICES ASSUME BlocksFit PROVE Spec => []CopiesInBounds
  OBVIOUS
<1>1. FreshIndices
  BY DEF BlocksFit
<1>2. DInv /\ SInv => CopiesInBounds
  BY DEF SInv
<1>3. Init => DInv /\ SInv
  BY InitDInv, InitSInv
<1>4. DInv /\ SInv /\ [Next]_vars => DInv' /\ SInv'
  BY <1>1, NextDInv, NextSInv
<1> QED
  BY <1>2, <1>3, <1>4, PTL DEF Spec

-----------------------------------------------------------------------------
(* Counting up, and picking members of a sequence.                         *)

\* A set that has 0 and, with each number, the next one up to n, has n.
LEMMA StepByStep ==
  ASSUME NEW n \in Nat, NEW G, 0 \in G, \A k \in 1 .. n : k - 1 \in G => k \in G
  PROVE  n \in G
<1> DEFINE B == {k \in 0 .. n : k \notin G}
<1> SUFFICES ASSUME B # {} PROVE FALSE
  OBVIOUS
<1>1. PICK m \in B : \A k \in B : m <= k
  <2>1. B \subseteq Nat
    OBVIOUS
  <2> HIDE DEF B
  <2> QED
    BY <2>1, NatMin
<1>2. m # 0 /\ m \in 1 .. n /\ m - 1 \in 0 .. n /\ m - 1 < m
  OBVIOUS
<1>3. m - 1 \notin B
  BY <1>1, <1>2
<1> QED
  BY <1>1, <1>2, <1>3

\* Picking x, or nothing, onto a sequence.
Picked(c, b, x) == IF c THEN Append(b, x) ELSE b

\* It stays a sequence of the same things.
LEMMA PickedType ==
  ASSUME NEW M, NEW b \in Seq(M), NEW x \in M, NEW c
  PROVE  Picked(c, b, x) \in Seq(M)
<1>1. Append(b, x) \in Seq(M)
  OBVIOUS
<1> QED
  BY <1>1 DEF Picked

\* A function that picks as it goes along.
IsPicking(f, n, c, e) ==
  /\ f[0] = <<>>
  /\ \A k \in 1 .. n : f[k] = Picked(c[k], f[k-1], e[k])

\* The recursive function that does.
Picking(n, c, e) ==
  CHOOSE h : h = [k \in 0 .. n |-> IF k = 0 THEN <<>> ELSE Picked(c[k], h[k-1], e[k])]

\* The recursion of a picking has a solution, with sequences for values.
LEMMA PickingFacts ==
  ASSUME NEW n \in Nat, NEW M, NEW c, NEW e, \A k \in 1 .. n : e[k] \in M,
         NEW f, f = Picking(n, c, e)
  PROVE  IsPicking(f, n, c, e) /\ \A k \in 0 .. n : f[k] \in Seq(M)
<1> DEFINE S == Seq(M)
           a == <<>>
           Step(b, k) == Picked(c[k], b, e[k])
           G == [k \in 1 .. n |-> [b \in S |-> Step(b, k)]]
<1>1. n \in Nat /\ 0 \in Nat
  OBVIOUS
<1>2. a \in S
  OBVIOUS
<1>3. \A k \in 1 .. n : \A b \in S : Step(b, k) \in S
  <2> TAKE k \in 1 .. n
  <2> TAKE b \in S
  <2>1. e[k] \in M
    OBVIOUS
  <2> DEFINE x == e[k]
             d == c[k]
  <2> HIDE DEF x, d
  <2>2. x \in M
    BY <2>1 DEF x
  <2>3. Picked(d, b, x) \in Seq(M)
    BY <2>2, PickedType
  <2> QED
    BY <2>3 DEF x, d
<1>4. f = CHOOSE h : h = [k \in 0 .. n |-> IF k = 0 THEN a ELSE Step(h[k-1], k)]
  BY DEF Picking
<1> HIDE DEF a, S, Step
<1>5. G \in [1 .. n -> [S -> S]]
  BY <1>3
<1>6. \A k \in 1 .. n : \A b \in S : G[k][b] = Step(b, k)
  OBVIOUS
<1> HIDE DEF G
<1>7. PICK h : IsRecursion(h, 0, n, S, a, G)
  BY <1>1, <1>2, <1>5, RecursionExists
<1>8. h = [k \in 0 .. n |-> IF k = 0 THEN a ELSE Step(h[k-1], k)]
  <2>1. ASSUME NEW k \in 0 .. n
        PROVE  h[k] = IF k = 0 THEN a ELSE Step(h[k-1], k)
    <3>1. h[k] = IF k = 0 THEN a ELSE G[k][h[k-1]]
      BY <1>7 DEF IsRecursion
    <3>2. k # 0 => k \in 1 .. n /\ k - 1 \in 0 .. n
      BY <1>1
    <3>3. k # 0 => h[k-1] \in S
      BY <1>7, <3>2 DEF IsRecursion
    <3> QED
      BY <1>6, <3>1, <3>2, <3>3
  <2>2. h = [k \in 0 .. n |-> h[k]]
    BY <1>7 DEF IsRecursion
  <2> QED
    BY <2>1, <2>2, Zenon
<1>9. f = [k \in 0 .. n |-> IF k = 0 THEN a ELSE Step(f[k-1], k)]
  BY <1>4, <1>8, Zenon
<1>10. f[0] = a
  BY <1>1, <1>9
<1>11. ASSUME NEW k \in 1 .. n PROVE f[k] = Step(f[k-1], k)
  BY <1>1, <1>9
<1>12. ASSUME NEW k \in (0 + 1) .. n, f[k-1] \in S PROVE f[k] \in S
  <2>1. k \in 1 .. n
    BY <1>1
  <2> QED
    BY <1>3, <1>11, <1>12, <2>1
<1>13. f[0] \in S
  BY <1>2, <1>10
<1>14. \A k \in 0 .. n : f[k] \in S
  <2>1. \A k \in (0 + 1) .. n : f[k-1] \in S => f[k] \in S
    BY <1>12
  <2> QED
    BY <1>1, <1>13, <2>1, RecursionType
<1> QED
  BY <1>10, <1>11, <1>14 DEF IsPicking, a, S, Step

-----------------------------------------------------------------------------
(* What tbExec finds in a TB is what should be traced of it.               *)

\* In a block loaded at base no region starts after the end of one.
OneRegion(b, base) ==
  b.addr >= base =>
    \A i, j \in 0 .. (NumInsts(b) - 1) :
      i < j /\ (\E r \in DOMAIN Regions : Regions[r] = (b.addr - base) + Offset(b, i))
        => (b.addr - base) + Offset(b, j) \notin DOMAIN Regions

\* What the broker needs of the blocks to keep the stream: BlocksFit; the offset of
\* an instruction fits into the uint8_t it is kept in; the skew of an instruction
\* that accesses memory is the position of its first MCInst, as it is when no
\* instruction before it failed to decode; and, as handleBinaryRegions looks for
\* one start and one end per TB, no second region starts in a block.
StreamFit ==
  /\ BlocksFit
  /\ \A b \in Blocks :
       /\ \A p \in 0 .. (NumInsts(b) - 1) : Offset(b, p) \in 0 .. 255
       /\ \A r \in b.mem : SkewIndex(b)[r] = Starts(b)[r] /\ b.parts[r+1] > 0
       /\ Mode = "trim" => OneRegion(b, 0) /\ OneRegion(b, LoadAddr)

\* A TB that tbExec has decoded.
DecodedTB(tb) == /\ TBOK(tb) /\ tb.raw \in Blocks
                 /\ tb.mcinsts = NumInsts(tb.raw) /\ tb.skew = SkewIndex(tb.raw)

\* Offsets that fit into a byte are kept as they are.
LEMMA AddrFacts ==
  ASSUME StreamFit, NEW tb, DecodedTB(tb), CodeStartAddress \in Nat,
         NEW k \in 0 .. (tb.mcinsts - 1)
  PROVE  RelAddr(tb, k) = TrueAddr(tb, k) /\ TrueAddr(tb, k) \in Int
<1> DEFINE b == tb.raw
           n == NumInsts(b)
           x == Offset(b, k)
<1>1. b \in Blocks /\ tb.mcinsts = n /\ TBOK(tb)
  BY DEF DecodedTB
<1>2. n \in Nat
  BY <1>1, BlockFacts
<1>3. k \in 0 .. (n - 1) /\ tb.mcinsts # 0
  BY <1>1, <1>2
<1>4. tb.VAddrOffsets = Offsets(b)
  BY <1>1, <1>3 DEF TBOK
<1>5. x \in 0 .. 255
  BY <1>1, <1>3 DEF StreamFit
<1>6. tb.VAddrOffsets[k] = x % 256
  BY <1>3, <1>4 DEF Offsets
<1> HIDE DEF x
<1>7. x % 256 = x /\ x \in Int
  BY <1>5
<1>8. b.addr \in Nat
  BY <1>1, BrokerAssumption DEF BlockOK
<1> QED
  BY <1>6, <1>7, <1>8 DEF RelAddr, TrueAddr, x

\* What handleBinaryRegions has found: the first place a region starts, and the
\* first place from there on where it ends.
LEMMA HitMeaning ==
  ASSUME NEW tb, tb.mcinsts \in Nat, CurBinRegion \in {NoRegion} \cup DOMAIN Regions
  PROVE  LET hit == HandleBinaryRegions(tb)
             pos == 0 .. (tb.mcinsts - 1)
             inCode == tb.raw.addr >= CodeStartAddress
         IN  /\ hit.begin = -1 /\ CurBinRegion = NoRegion =>
                  \A i \in pos : ~(inCode /\ RelAddr(tb, i) \in DOMAIN Regions)
             /\ hit.begin # -1 =>
                  /\ inCode /\ RelAddr(tb, hit.begin) \in DOMAIN Regions
                  /\ hit.region = RelAddr(tb, hit.begin)
                  /\ \A i \in pos : i < hit.begin =>
                       ~(inCode /\ RelAddr(tb, i) \in DOMAIN Regions)
             /\ hit.end = -1 =>
                  \A i \in pos : hit.region # NoRegion /\ i >= hit.begin =>
                       ~(inCode /\ RelAddr(tb, i) = Regions[hit.region])
             /\ hit.end # -1 =>
                  /\ inCode /\ RelAddr(tb, hit.end) = Regions[hit.region]
                  /\ \A i \in pos : i >= hit.begin /\ i < hit.end =>
                       ~(inCode /\ RelAddr(tb, i) = Regions[hit.region])
<1> DEFINE hit == HandleBinaryRegions(tb)
           pos == 0 .. (tb.mcinsts - 1)
           inCode == tb.raw.addr >= CodeStartAddress
           starts == {i \in pos : /\ CurBinRegion = NoRegion
                                  /\ inCode
                                  /\ RelAddr(tb, i) \in DOMAIN Regions}
           begin == IF starts = {} THEN -1 ELSE MinOf(starts)
           open == IF starts = {} THEN CurBinRegion ELSE RelAddr(tb, begin)
           ends == {i \in pos : /\ open # NoRegion
                                /\ inCode
                                /\ i >= begin
                                /\ RelAddr(tb, i) = Regions[open]}
           end == IF ends = {} THEN -1 ELSE MinOf(ends)
<1>1. hit = [begin |-> begin, end |-> end, region |-> open,
             cur |-> IF ends = {} THEN open ELSE NoRegion]
  BY DEF HandleBinaryRegions
<1>2. pos \subseteq Nat /\ -1 \notin pos
  OBVIOUS
<1>3. starts \subseteq Nat /\ ends \subseteq Nat /\ starts \subseteq pos /\ ends \subseteq pos
  BY <1>2
<1>4. starts # {} => begin \in starts /\ \A y \in starts : begin <= y
  <2> SUFFICES ASSUME starts # {} PROVE begin \in starts /\ \A y \in starts : begin <= y
    OBVIOUS
  <2>1. begin = MinOf(starts) /\ starts \subseteq Nat
    BY <1>3
  <2> HIDE DEF starts, begin
  <2> QED
    BY <2>1, LeastOf
<1>5. ends # {} => end \in ends /\ \A y \in ends : end <= y
  <2> SUFFICES ASSUME ends # {} PROVE end \in ends /\ \A y \in ends : end <= y
    OBVIOUS
  <2>1. end = MinOf(ends) /\ ends \subseteq Nat
    BY <1>3
  <2> HIDE DEF ends, end
  <2> QED
    BY <2>1, LeastOf
<1>6. hit.begin = begin /\ hit.end = end /\ hit.region = open
  <2> HIDE DEF begin, end, open, ends
  <2> QED
    BY <1>1
<1>7. /\ begin = -1 => starts = {}
      /\ begin # -1 => starts # {} /\ open = RelAddr(tb, begin)
      /\ end = -1 => ends = {}
      /\ end # -1 => ends # {}
  <2>1. starts = {} => begin = -1
    OBVIOUS
  <2>2. ends = {} => end = -1
    OBVIOUS
  <2>3. starts # {} => begin # -1
    <3> HIDE DEF begin, starts, pos
    <3> QED BY <1>2, <1>3, <1>4
  <2>4. ends # {} => end # -1
    <3> HIDE DEF end, ends, pos
    <3> QED BY <1>2, <1>3, <1>5
  <2>5. starts # {} => open = RelAddr(tb, begin)
    OBVIOUS
  <2> HIDE DEF begin, end, open, starts, ends
  <2> QED
    BY <2>1, <2>2, <2>3, <2>4, <2>5
<1>8. begin = -1 /\ CurBinRegion = NoRegion =>
        \A i \in pos : ~(inCode /\ RelAddr(tb, i) \in DOMAIN Regions)
  <2>1. \A i \in pos : CurBinRegion = NoRegion /\ inCode /\ RelAddr(tb, i) \in DOMAIN Regions
                         => i \in starts
    OBVIOUS
  <2> HIDE DEF begin, starts, pos, inCode
  <2> QED
    BY <1>7, <2>1
<1>9. begin # -1 => /\ inCode /\ RelAddr(tb, begin) \in DOMAIN Regions
                    /\ \A i \in pos : i < begin =>
                         ~(inCode /\ RelAddr(tb, i) \in DOMAIN Regions)
  <2>1. \A i : i \in starts <=> /\ i \in pos /\ CurBinRegion = NoRegion /\ inCode
                                /\ RelAddr(tb, i) \in DOMAIN Regions
    OBVIOUS
  <2>2. \A i \in pos : i < begin /\ begin <= i => ~(begin \in Nat)
    BY <1>2
  <2> HIDE DEF begin, starts, pos, inCode
  <2> QED
    BY <1>3, <1>4, <1>7, <2>1, <2>2
<1>10. end = -1 => \A i \in pos : open # NoRegion /\ i >= begin =>
                       ~(inCode /\ RelAddr(tb, i) = Regions[open])
  <2>1. \A i \in pos : open # NoRegion /\ inCode /\ i >= begin
                         /\ RelAddr(tb, i) = Regions[open] => i \in ends
    OBVIOUS
  <2> HIDE DEF begin, end, open, ends, pos, inCode
  <2> QED
    BY <1>7, <2>1
<1>11. end # -1 => /\ inCode /\ RelAddr(tb, end) = Regions[open]
                   /\ \A i \in pos : i >= begin /\ i < end =>
                        ~(inCode /\ RelAddr(tb, i) = Regions[open])
  <2>1. \A i : i \in ends <=> /\ i \in pos /\ open # NoRegion /\ inCode /\ i >= begin
                              /\ RelAddr(tb, i) = Regions[open]
    OBVIOUS
  <2>2. \A i \in pos : i < end /\ end <= i => ~(end \in Nat)
    BY <1>2
  <2> HIDE DEF begin, end, open, ends, pos, inCode
  <2> QED
    BY <1>3, <1>5, <1>7, <2>1, <2>2
<1> HIDE DEF begin, end, open, ends, starts, pos, inCode, hit
<1> QED
  BY <1>6, <1>7, <1>8, <1>9, <1>10, <1>11 DEF hit, pos, inCode

\* A region, or none.
RegionOrNone == {NoRegion} \cup DOMAIN Regions

\* The recursion of OpenRegion has a solution.
LEMMA OpenFacts ==
  ASSUME NEW tb, NumInsts(tb.raw) \in Nat, inRegion \in RegionOrNone
  PROVE  /\ OpenRegion(tb)[0] = inRegion
         /\ \A k \in 1 .. NumInsts(tb.raw) :
              OpenRegion(tb)[k] = RegionAfter(tb, OpenRegion(tb)[k-1], k - 1)
         /\ \A k \in 0 .. NumInsts(tb.raw) : OpenRegion(tb)[k] \in RegionOrNone
<1> DEFINE S == RegionOrNone
           n == NumInsts(tb.raw)
           a == inRegion
           Step(r, k) == RegionAfter(tb, r, k - 1)
           G == [k \in 1 .. n |-> [r \in S |-> Step(r, k)]]
           f == OpenRegion(tb)
<1>1. n \in Nat /\ 0 \in Nat /\ a \in S
  OBVIOUS
<1>2. \A k \in 1 .. n : \A r \in S : Step(r, k) \in S
  <2>1. ASSUME NEW j, NEW r \in S PROVE RegionAt(tb, r, j) \in S
    BY DEF RegionAt, RegionOrNone
  <2>2. ASSUME NEW j, NEW r \in S PROVE RegionAfter(tb, r, j) \in S
    BY <2>1 DEF RegionAfter, RegionOrNone
  <2> QED
    BY <2>2
<1>3. f = CHOOSE h : h = [k \in 0 .. n |-> IF k = 0 THEN a ELSE Step(h[k-1], k)]
  BY DEF OpenRegion
<1> HIDE DEF a, S, Step, f, n
<1>4. G \in [1 .. n -> [S -> S]]
  BY <1>2
<1>5. \A k \in 1 .. n : \A r \in S : G[k][r] = Step(r, k)
  OBVIOUS
<1> HIDE DEF G
<1>6. PICK h : IsRecursion(h, 0, n, S, a, G)
  BY <1>1, <1>4, RecursionExists
<1>7. h = [k \in 0 .. n |-> IF k = 0 THEN a ELSE Step(h[k-1], k)]
  <2>1. ASSUME NEW k \in 0 .. n
        PROVE  h[k] = IF k = 0 THEN a ELSE Step(h[k-1], k)
    <3>1. h[k] = IF k = 0 THEN a ELSE G[k][h[k-1]]
      BY <1>6 DEF IsRecursion
    <3>2. k # 0 => k \in 1 .. n /\ k - 1 \in 0 .. n
      BY <1>1
    <3>3. k # 0 => h[k-1] \in S
      BY <1>6, <3>2 DEF IsRecursion
    <3> QED
      BY <1>5, <3>1, <3>2, <3>3
  <2>2. h = [k \in 0 .. n |-> h[k]]
    BY <1>6 DEF IsRecursion
  <2> QED
    BY <2>1, <2>2, Zenon
<1>8. f = [k \in 0 .. n |-> IF k = 0 THEN a ELSE Step(f[k-1], k)]
  BY <1>3, <1>7, Zenon
<1>9. f[0] = a
  BY <1>1, <1>8
<1>10. ASSUME NEW k \in 1 .. n PROVE f[k] = Step(f[k-1], k)
  BY <1>1, <1>8
<1>11. ASSUME NEW k \in (0 + 1) .. n, f[k-1] \in S PROVE f[k] \in S
  <2>1. k \in 1 .. n
    BY <1>1
  <2> QED
    BY <1>2, <1>10, <1>11, <2>1
<1>12. \A k \in 0 .. n : f[k] \in S
  <2>1. \A k \in (0 + 1) .. n : f[k-1] \in S => f[k] \in S
    BY <1>11
  <2>2. f[0] \in S
    BY <1>1, <1>9
  <2> QED
    BY <1>1, <2>1, <2>2, RecursionType
<1> QED
  BY <1>9, <1>10, <1>12 DEF a, S, Step, f, n

\* Where the traced part of a TB starts and where it ends, by what
\* handleBinaryRegions has found.
TraceFrom(tb) == IF CurBinRegion # NoRegion THEN 0
                 ELSE IF HandleBinaryRegions(tb).begin = -1 THEN tb.mcinsts
                 ELSE HandleBinaryRegions(tb).begin
TraceTo(tb) == IF HandleBinaryRegions(tb).end = -1 THEN tb.mcinsts
               ELSE HandleBinaryRegions(tb).end + 1

\* Scanning is what the state before the TB, the places and the region say.
Scanned(tb, o, k) ==
  LET hit == HandleBinaryRegions(tb)
  IN  /\ k <= TraceFrom(tb) => o[k] = CurBinRegion
      /\ TraceFrom(tb) < k /\ (hit.end = -1 \/ k <= hit.end) => o[k] = hit.region
      /\ hit.end # -1 /\ k > hit.end => o[k] = NoRegion

\* One instruction further, the region it is in and whether it ends there.
LEMMA ScanStep ==
  ASSUME StreamFit, NEW tb, DecodedTB(tb), Mode = "trim",
         CurBinRegion \in RegionOrNone, CodeStartAddress \in {0, LoadAddr},
         NEW o, NEW k \in 0 .. (tb.mcinsts - 1), Scanned(tb, o, k)
  PROVE  LET hit == HandleBinaryRegions(tb)
             in == TraceFrom(tb) <= k /\ k < TraceTo(tb)
         IN  /\ in => RegionAt(tb, o[k], k) = hit.region /\ hit.region # NoRegion
             /\ ~in => RegionAt(tb, o[k], k) = NoRegion
             /\ EndsAt(tb, RegionAt(tb, o[k], k), k) <=> k = hit.end
<1> DEFINE hit == HandleBinaryRegions(tb)
           n == tb.mcinsts
           pos == 0 .. (n - 1)
           inCode == tb.raw.addr >= CodeStartAddress
           c == CurBinRegion
           St(i) == inCode /\ TrueAddr(tb, i) \in DOMAIN Regions
           En(i) == inCode /\ TrueAddr(tb, i) = Regions[hit.region]
<1>0. n \in Nat /\ NoRegion = -1 /\ DOMAIN Regions \subseteq Nat /\ CodeStartAddress \in Nat
  BY BlockFacts, BrokerAssumption DEF DecodedTB, NoRegion
<1>1. /\ hit.begin = -1 \/ hit.begin \in pos
      /\ hit.end = -1 \/ hit.end \in pos
      /\ hit.begin # -1 => c = NoRegion
      /\ hit.end # -1 => hit.end >= hit.begin /\ hit.region # NoRegion
      /\ hit.begin = -1 => hit.region = c
      /\ hit.begin # -1 => hit.region \in DOMAIN Regions
      /\ hit.region \in {NoRegion} \cup DOMAIN Regions
  BY <1>0, HitFacts DEF RegionOrNone
<1>2. \A i \in pos : RelAddr(tb, i) = TrueAddr(tb, i)
  BY <1>0, AddrFacts
<1>3. /\ hit.begin = -1 /\ c = NoRegion => \A i \in pos : ~St(i)
      /\ hit.begin # -1 => /\ St(hit.begin) /\ hit.region = TrueAddr(tb, hit.begin)
                           /\ \A i \in pos : i < hit.begin => ~St(i)
      /\ hit.end = -1 => \A i \in pos : hit.region # NoRegion /\ i >= hit.begin => ~En(i)
      /\ hit.end # -1 => /\ En(hit.end)
                         /\ \A i \in pos : i >= hit.begin /\ i < hit.end => ~En(i)
  <2> HIDE DEF hit
  <2>1. /\ hit.begin = -1 /\ c = NoRegion =>
             \A i \in pos : ~(inCode /\ RelAddr(tb, i) \in DOMAIN Regions)
        /\ hit.begin # -1 =>
             /\ inCode /\ RelAddr(tb, hit.begin) \in DOMAIN Regions
             /\ hit.region = RelAddr(tb, hit.begin)
             /\ \A i \in pos : i < hit.begin =>
                  ~(inCode /\ RelAddr(tb, i) \in DOMAIN Regions)
        /\ hit.end = -1 =>
             \A i \in pos : hit.region # NoRegion /\ i >= hit.begin =>
                  ~(inCode /\ RelAddr(tb, i) = Regions[hit.region])
        /\ hit.end # -1 =>
             /\ inCode /\ RelAddr(tb, hit.end) = Regions[hit.region]
             /\ \A i \in pos : i >= hit.begin /\ i < hit.end =>
                  ~(inCode /\ RelAddr(tb, i) = Regions[hit.region])
    BY <1>0, HitMeaning DEF RegionOrNone, hit
  <2> HIDE DEF pos, inCode
  <2>2. /\ hit.begin # -1 => RelAddr(tb, hit.begin) = TrueAddr(tb, hit.begin)
        /\ hit.end # -1 => RelAddr(tb, hit.end) = TrueAddr(tb, hit.end)
    BY <1>1, <1>2
  <2> QED
    BY <1>2, <2>1, <2>2
<1>4. hit.end # -1 => \A i \in pos : i > hit.end => ~St(i)
  <2> SUFFICES ASSUME hit.end # -1, NEW i \in pos, i > hit.end, inCode
               PROVE  TrueAddr(tb, i) \notin DOMAIN Regions
    OBVIOUS
  <2> DEFINE b == tb.raw
             base == CodeStartAddress
             e == hit.end
             r == hit.region
  <2>1. b \in Blocks /\ NumInsts(b) = n
    BY DEF DecodedTB
  <2>2. OneRegion(b, base)
    BY <2>1 DEF StreamFit
  <2>3. e \in pos /\ e < i /\ r \in DOMAIN Regions /\ TrueAddr(tb, e) = Regions[r]
    <3> HIDE DEF hit
    <3>1. e \in pos /\ r \in DOMAIN Regions
      BY <1>1
    <3>2. TrueAddr(tb, e) = Regions[r]
      BY <1>3
    <3>3. e < i
      BY <1>0, <3>1
    <3> QED
      BY <3>1, <3>2, <3>3
  <2>4. /\ TrueAddr(tb, i) = (b.addr - base) + Offset(b, i)
        /\ TrueAddr(tb, e) = (b.addr - base) + Offset(b, e)
    BY DEF TrueAddr
  <2> HIDE DEF e, r, hit, b, base
  <2>5. b.addr >= base
    BY DEF b, base
  <2> QED
    BY <2>1, <2>2, <2>3, <2>4, <2>5 DEF OneRegion
<1>5. \A r : RegionAt(tb, r, k) = IF r = NoRegion /\ St(k) THEN TrueAddr(tb, k) ELSE r
  BY DEF RegionAt
<1>6. EndsAt(tb, hit.region, k) <=> hit.region # NoRegion /\ En(k)
  BY DEF EndsAt
<1>7. ~EndsAt(tb, NoRegion, k)
  BY DEF EndsAt
<1>8. /\ TraceFrom(tb) = IF c # NoRegion THEN 0 ELSE IF hit.begin = -1 THEN n ELSE hit.begin
      /\ TraceTo(tb) = IF hit.end = -1 THEN n ELSE hit.end + 1
  BY DEF TraceFrom, TraceTo
<1>9. /\ k <= TraceFrom(tb) => o[k] = c
      /\ TraceFrom(tb) < k /\ (hit.end = -1 \/ k <= hit.end) => o[k] = hit.region
      /\ hit.end # -1 /\ k > hit.end => o[k] = NoRegion
  BY DEF Scanned
<1>10. k \in pos
  OBVIOUS
<1> HIDE DEF hit, n, c, St, En
<1> DEFINE fst == TraceFrom(tb)
           stp == TraceTo(tb)
<1>11. fst \in 0 .. n /\ stp \in 0 .. n /\ fst <= stp
  BY <1>0, <1>1, <1>8
<1>12. k < fst => /\ o[k] = NoRegion /\ ~St(k) /\ k # hit.end
  BY <1>0, <1>1, <1>3, <1>8, <1>9, <1>10
<1>13. ASSUME fst <= k, k < stp
       PROVE  /\ hit.region # NoRegion
              /\ RegionAt(tb, o[k], k) = hit.region
              /\ En(k) <=> k = hit.end
  <2>1. k >= hit.begin /\ (hit.end = -1 \/ k <= hit.end) /\ fst # n
    BY <1>0, <1>1, <1>8, <1>10, <1>11, <1>13
  <2>2. hit.region # NoRegion
    BY <1>0, <1>1, <1>8, <2>1
  <2>3. RegionAt(tb, o[k], k) = hit.region
    <3>1. CASE k = fst /\ c = NoRegion
      <4>1. hit.begin # -1 /\ k = hit.begin /\ o[k] = NoRegion
        BY <1>0, <1>8, <1>9, <2>1, <3>1
      <4> QED
        BY <1>3, <1>5, <4>1
    <3>2. CASE k = fst /\ c # NoRegion
      <4>1. o[k] = c /\ hit.region = c
        BY <1>0, <1>1, <1>9, <3>2
      <4> QED
        BY <1>5, <3>2, <4>1
    <3>3. CASE k # fst
      <4>1. o[k] = hit.region
        BY <1>0, <1>9, <1>10, <1>11, <1>13, <2>1, <3>3
      <4> QED
        BY <1>5, <2>2, <4>1
    <3> QED
      BY <3>1, <3>2, <3>3
  <2>4. En(k) <=> k = hit.end
    <3>1. CASE hit.end = -1
      BY <1>0, <1>3, <1>10, <2>1, <2>2, <3>1
    <3>2. CASE hit.end # -1
      <4>1. hit.end \in Int /\ k \in Int
        BY <1>0, <1>1, <1>10
      <4> QED
        BY <1>3, <1>10, <2>1, <3>2, <4>1
    <3> QED
      BY <3>1, <3>2
  <2> QED
    BY <2>2, <2>3, <2>4
<1>14. k >= stp => o[k] = NoRegion /\ ~St(k) /\ k # hit.end
  <2> SUFFICES ASSUME k >= stp PROVE o[k] = NoRegion /\ ~St(k) /\ k # hit.end
    OBVIOUS
  <2>1. hit.end # -1 /\ k > hit.end /\ k # hit.end
    BY <1>0, <1>1, <1>8, <1>10
  <2> QED
    BY <1>4, <1>9, <1>10, <2>1
<1>15. CASE fst <= k /\ k < stp
  BY <1>6, <1>13, <1>15 DEF hit
<1>16. CASE ~(fst <= k /\ k < stp)
  <2>1. k < fst \/ k >= stp
    BY <1>10, <1>11, <1>16
  <2>2. o[k] = NoRegion /\ ~St(k) /\ k # hit.end
    BY <1>12, <1>14, <2>1
  <2>3. RegionAt(tb, o[k], k) = NoRegion
    BY <1>5, <2>2
  <2> QED
    BY <1>7, <1>16, <2>2, <2>3 DEF hit
<1> QED
  BY <1>15, <1>16

\* OpenRegion finds the region that handleBinaryRegions has found.
LEMMA ScanFacts ==
  ASSUME StreamFit, NEW tb, DecodedTB(tb), Mode = "trim", inRegion = CurBinRegion,
         CurBinRegion \in RegionOrNone, CodeStartAddress \in {0, LoadAddr}
  PROVE  /\ \A k \in 0 .. tb.mcinsts : Scanned(tb, OpenRegion(tb), k)
         /\ OpenRegion(tb)[tb.mcinsts] = HandleBinaryRegions(tb).cur
<1> DEFINE hit == HandleBinaryRegions(tb)
           n == tb.mcinsts
           o == OpenRegion(tb)
           c == CurBinRegion
           H == {k \in 0 .. n : Scanned(tb, o, k)}
<1>0. n \in Nat /\ NumInsts(tb.raw) = n /\ NoRegion = -1
  BY BlockFacts DEF DecodedTB, NoRegion
<1>1. /\ hit.begin = -1 \/ hit.begin \in 0 .. (n - 1)
      /\ hit.end = -1 \/ hit.end \in 0 .. (n - 1)
      /\ hit.begin # -1 => c = NoRegion
      /\ hit.end # -1 => hit.end >= hit.begin /\ hit.cur = NoRegion /\ hit.region # NoRegion
      /\ hit.end = -1 => hit.cur = hit.region
      /\ hit.begin = -1 => hit.region = c
  BY <1>0, HitFacts DEF RegionOrNone
<1>2. /\ o[0] = c
      /\ \A k \in 1 .. n : o[k] = RegionAfter(tb, o[k-1], k - 1)
  <2>1. NumInsts(tb.raw) \in Nat /\ inRegion \in RegionOrNone
    BY <1>0
  <2> QED
    BY <1>0, <2>1, OpenFacts
<1>3. /\ TraceFrom(tb) = IF c # NoRegion THEN 0 ELSE IF hit.begin = -1 THEN n ELSE hit.begin
      /\ TraceTo(tb) = IF hit.end = -1 THEN n ELSE hit.end + 1
  BY DEF TraceFrom, TraceTo
<1> DEFINE fst == TraceFrom(tb)
           stp == TraceTo(tb)
<1>4. \A k : Scanned(tb, o, k) <=>
        /\ k <= fst => o[k] = c
        /\ fst < k /\ (hit.end = -1 \/ k <= hit.end) => o[k] = hit.region
        /\ hit.end # -1 /\ k > hit.end => o[k] = NoRegion
  BY DEF Scanned
<1> HIDE DEF hit, n, o, c
<1>5. fst \in 0 .. n /\ stp \in fst .. n
  BY <1>0, <1>1, <1>3
<1>6. 0 \in H
  BY <1>0, <1>1, <1>2, <1>3, <1>4
<1>7. ASSUME NEW k \in 1 .. n, k - 1 \in H PROVE k \in H
  <2> DEFINE j == k - 1
             r == RegionAt(tb, o[j], j)
             in == fst <= j /\ j < stp
  <2>1. j \in 0 .. (n - 1) /\ j \in 0 .. n /\ k = j + 1 /\ Scanned(tb, o, j)
    BY <1>0, <1>7
  <2>2. o[k] = IF EndsAt(tb, r, j) THEN NoRegion ELSE r
    BY <1>2 DEF RegionAfter
  <2> HIDE DEF j
  <2>3. /\ in => r = hit.region
        /\ ~in => r = NoRegion
        /\ EndsAt(tb, r, j) <=> j = hit.end
    <3>1. j \in 0 .. (tb.mcinsts - 1)
      BY <2>1 DEF n
    <3> QED
      BY <2>1, <3>1, ScanStep DEF hit
  <2>4. o[k] = IF j = hit.end THEN NoRegion ELSE r
    BY <2>2, <2>3
  <2> HIDE DEF r
  <2>5. k <= fst => o[k] = c
    BY <1>0, <1>1, <1>3, <1>5, <2>1, <2>3, <2>4
  <2>6. fst < k /\ (hit.end = -1 \/ k <= hit.end) => o[k] = hit.region
    BY <1>0, <1>1, <1>3, <1>5, <2>1, <2>3, <2>4
  <2>7. hit.end # -1 /\ k > hit.end => o[k] = NoRegion
    BY <1>0, <1>1, <1>3, <1>5, <2>1, <2>3, <2>4
  <2>8. k \in 0 .. n
    BY <1>0
  <2> QED
    BY <1>4, <2>5, <2>6, <2>7, <2>8
<1>8. n \in H /\ \A k \in 0 .. n : k \in H
  <2>1. \A k \in 1 .. n : k - 1 \in H => k \in H
    BY <1>7
  <2>2. ASSUME NEW m \in 0 .. n PROVE m \in H
    <3>1. m \in Nat /\ \A k \in 1 .. m : k - 1 \in H => k \in H
      BY <1>0, <2>1
    <3> HIDE DEF H
    <3> QED
      BY <1>6, <3>1, StepByStep
  <2>3. n \in 0 .. n
    BY <1>0
  <2> QED
    BY <2>2, <2>3
<1>9. o[n] = hit.cur
  <2>1. Scanned(tb, o, n)
    BY <1>8
  <2> QED
    BY <1>0, <1>1, <1>3, <1>4, <1>5, <2>1
<1> QED
  BY <1>8, <1>9 DEF hit, n, o

\* What is picked from an interval is that interval.
Clip(k, b, e) == IF k <= b THEN 0 ELSE IF k <= e THEN k - b ELSE e - b

\* The places from b on and before e are the ones that count.
CountsInterval(c, n, b, e) == \A k \in 1 .. n : c[k] <=> b < k /\ k <= e

\* A picking of the interval from b to e, with sequences for values.
PicksInterval(f, n, c, x, b, e, M) ==
  /\ IsPicking(f, n, c, x)
  /\ \A k \in 0 .. n : f[k] \in Seq(M)
  /\ CountsInterval(c, n, b, e)

\* Then k steps pick what the interval and the first k have in common, in order.
LEMMA IntervalPicked ==
  ASSUME NEW n \in Nat, NEW b \in 0 .. n, NEW e \in b .. n, NEW M, NEW c, NEW x, NEW f,
         PicksInterval(f, n, c, x, b, e, M)
  PROVE  Len(f[n]) = e - b /\ \A j \in 1 .. (e - b) : f[n][j] = x[b+j]
<1> DEFINE L(k) == Clip(k, b, e)
           H == {k \in 0 .. n : Len(f[k]) = L(k) /\ \A j \in 1 .. L(k) : f[k][j] = x[b+j]}
<1>0. /\ IsPicking(f, n, c, x) /\ CountsInterval(c, n, b, e)
      /\ \A k \in 0 .. n : f[k] \in Seq(M)
  BY DEF PicksInterval
<1>1. 0 \in H
  BY <1>0 DEF IsPicking, Clip
<1>2. ASSUME NEW k \in 1 .. n, k - 1 \in H PROVE k \in H
  <2> DEFINE p == f[k-1]
             w == f[k]
             y == x[k]
  <2>1. k - 1 \in 0 .. n /\ p \in Seq(M) /\ Len(p) = L(k-1)
        /\ \A j \in 1 .. L(k-1) : p[j] = x[b+j]
    BY <1>0, <1>2
  <2>2. w = IF c[k] THEN Append(p, y) ELSE p
    BY <1>0 DEF IsPicking, Picked
  <2>3. w = IF b < k /\ k <= e THEN Append(p, y) ELSE p
    BY <1>0, <2>2 DEF CountsInterval
  <2> HIDE DEF p, w
  <2>4. CASE b < k /\ k <= e
    <3>1. w = Append(p, y) /\ L(k) = L(k-1) + 1 /\ L(k-1) \in Nat /\ b + L(k) = k
      BY <2>3, <2>4 DEF Clip
    <3>2. Len(w) = L(k) /\ w[L(k)] = y /\ \A j \in 1 .. L(k-1) : w[j] = p[j]
      BY <2>1, <3>1
    <3>3. ASSUME NEW j \in 1 .. L(k) PROVE w[j] = x[b+j]
      <4>1. CASE j = L(k)
        BY <3>1, <3>2, <4>1
      <4>2. CASE j # L(k)
        <5>1. j \in 1 .. L(k-1)
          BY <3>1, <4>2
        <5> QED
          BY <2>1, <3>2, <5>1
      <4> QED
        BY <4>1, <4>2
    <3> QED
      BY <3>2, <3>3 DEF w
  <2>5. CASE ~(b < k /\ k <= e)
    <3>1. w = p /\ L(k) = L(k-1)
      BY <2>3, <2>5 DEF Clip
    <3> QED
      BY <2>1, <3>1 DEF w
  <2> QED
    BY <2>4, <2>5
<1>3. n \in H
  <2>1. \A k \in 1 .. n : k - 1 \in H => k \in H
    BY <1>2
  <2> HIDE DEF H
  <2> QED
    BY <1>1, <2>1, StepByStep
<1>4. L(n) = e - b
  BY DEF Clip
<1> QED
  BY <1>3, <1>4

\* What a trace is made of.
TraceInsts == [ex : Nat, pos : Int, mem : BOOLEAN, last : BOOLEAN]

\* The instructions of a TB, when those that count are an interval of it.
LEMMA TracedFacts ==
  ASSUME NEW tb, NumInsts(tb.raw) \in Nat, execs \in Nat,
         NEW b \in 0 .. NumInsts(tb.raw), NEW e \in b .. NumInsts(tb.raw),
         \A k \in 0 .. (NumInsts(tb.raw) - 1) : Counts(tb, k) <=> b <= k /\ k < e
  PROVE  /\ Traced(tb) \in Seq(TraceInsts) /\ Len(Traced(tb)) = e - b
         /\ \A j \in 1 .. (e - b) : Traced(tb)[j] = TracedInst(tb, b + j - 1)
<1> DEFINE n == NumInsts(tb.raw)
           c == [k \in 1 .. n |-> Counts(tb, k - 1)]
           x == [k \in 1 .. n |-> TracedInst(tb, k - 1)]
           f == TracedUpTo(tb)
<1>1. f = CHOOSE h : h = [k \in 0 .. n |-> IF k = 0 THEN <<>>
             ELSE Picked(Counts(tb, k - 1), h[k-1], TracedInst(tb, k - 1))]
  BY DEF TracedUpTo, Picked
<1>2. f = Picking(n, c, x)
  <2>1. ASSUME NEW h
        PROVE  [k \in 0 .. n |-> IF k = 0 THEN <<>>
                  ELSE Picked(Counts(tb, k - 1), h[k-1], TracedInst(tb, k - 1))]
                 = [k \in 0 .. n |-> IF k = 0 THEN <<>> ELSE Picked(c[k], h[k-1], x[k])]
    <3>1. \A k \in 0 .. n : k # 0 => /\ c[k] = Counts(tb, k - 1)
                                     /\ x[k] = TracedInst(tb, k - 1)
      OBVIOUS
    <3> HIDE DEF c, x, n
    <3> QED
      BY <3>1, Zenon
  <2> HIDE DEF c, x, n, f
  <2> QED
    BY <1>1, <2>1, Zenon DEF Picking
<1>3. \A k \in 1 .. n : x[k] \in TraceInsts
  <2> SUFFICES ASSUME NEW k \in 1 .. n PROVE TracedInst(tb, k - 1) \in TraceInsts
    OBVIOUS
  <2> DEFINE mm == \E r \in tb.raw.mem : tb.raw.parts[r+1] > 0 /\ Starts(tb.raw)[r] = k - 1
             ll == Mode = "trim" /\ EndsAt(tb, During(tb, k - 1), k - 1)
  <2>1. mm \in BOOLEAN /\ ll \in BOOLEAN
    OBVIOUS
  <2>2. TracedInst(tb, k - 1) = [ex |-> execs + 1, pos |-> k - 1, mem |-> mm, last |-> ll]
    BY DEF TracedInst
  <2> HIDE DEF mm, ll
  <2>3. k - 1 \in Int /\ execs + 1 \in Nat
    OBVIOUS
  <2> QED
    BY <2>1, <2>2, <2>3 DEF TraceInsts
<1>4. IsPicking(f, n, c, x) /\ \A k \in 0 .. n : f[k] \in Seq(TraceInsts)
  <2> HIDE DEF c, x, n, f, TraceInsts
  <2>1. n \in Nat
    BY DEF n
  <2> QED
    BY <1>2, <1>3, <2>1, PickingFacts
<1>5. \A k \in 1 .. n : c[k] <=> b < k /\ k <= e
  <2> SUFFICES ASSUME NEW k \in 1 .. n PROVE c[k] <=> b < k /\ k <= e
    OBVIOUS
  <2> DEFINE j == k - 1
  <2>1. j \in 0 .. (n - 1) /\ (b <= j <=> b < k) /\ (j < e <=> k <= e) /\ c[k] = Counts(tb, j)
    OBVIOUS
  <2> HIDE DEF j, c
  <2>2. Counts(tb, j) <=> b <= j /\ j < e
    BY <2>1
  <2> QED
    BY <2>1, <2>2, Zenon
<1>6. Len(f[n]) = e - b /\ \A j \in 1 .. (e - b) : f[n][j] = x[b+j]
  <2>1. n \in Nat /\ b \in 0 .. n /\ e \in b .. n
    OBVIOUS
  <2>2. CountsInterval(c, n, b, e)
    BY <1>5 DEF CountsInterval
  <2>3. PicksInterval(f, n, c, x, b, e, TraceInsts)
    BY <1>4, <2>2, Zenon DEF PicksInterval
  <2> HIDE DEF c, x, f, n, TraceInsts
  <2> QED
    BY ONLY <2>1, <2>3, IntervalPicked
<1>7. \A j \in 1 .. (e - b) : x[b+j] = TracedInst(tb, b + j - 1)
  <2> SUFFICES ASSUME NEW j \in 1 .. (e - b) PROVE x[b+j] = TracedInst(tb, b + j - 1)
    OBVIOUS
  <2> DEFINE k == b + j
  <2>1. k \in 1 .. n /\ k - 1 = b + j - 1
    OBVIOUS
  <2> HIDE DEF k
  <2>2. x[k] = TracedInst(tb, k - 1)
    BY <2>1
  <2> QED
    BY <2>1, <2>2 DEF k
<1>8. Traced(tb) = f[n] /\ n \in 0 .. n
  BY DEF Traced
<1> HIDE DEF c, x, f, TraceInsts
<1> QED
  BY <1>4, <1>6, <1>7, <1>8 DEF n

\* The number of instructions in a slice, and the j-th of them, if T are the TBs.
Size(T, s) == Min2(T[s.index].mcinsts, s.end) - s.begin
SliceInst(T, s, j) ==
  [ex |-> s.ex, pos |-> s.begin + j - 1, mem |-> s.begin + j - 1 \in s.mem,
   last |-> s.region # NoRegion /\ j = Size(T, s)]

\* What tbExec puts into a slice is what should be traced of the TB.
LEMMA SliceTraced ==
  ASSUME StreamFit, NEW i \in TBIndex, NEW tb, DecodedTB(tb), execs \in Nat,
         CurBinRegion \in RegionOrNone, CodeStartAddress \in {0, LoadAddr},
         Mode = "trim" => inRegion = CurBinRegion, NEW T, T[i] = tb
  PROVE  LET s == SliceOf(i, tb, tb.raw.mem)
         IN  /\ Traced(tb) \in Seq(TraceInsts)
             /\ s.begin = s.end => Len(Traced(tb)) = 0
             /\ s.begin # s.end =>
                  /\ Size(T, s) \in Nat /\ Len(Traced(tb)) = Size(T, s)
                  /\ s.region # NoRegion => Size(T, s) > 0
                  /\ \A m \in s.mem : m >= s.begin
                  /\ \A j \in 1 .. Size(T, s) : Traced(tb)[j] = SliceInst(T, s, j)
<1> DEFINE s == SliceOf(i, tb, tb.raw.mem)
           hit == HandleBinaryRegions(tb)
           o == OpenRegion(tb)
           n == tb.mcinsts
           c == CurBinRegion
           b == IF Trim THEN TraceFrom(tb) ELSE 0
           e == IF Trim THEN TraceTo(tb) ELSE n
           begin == IF Trim /\ c = NoRegion
                    THEN IF hit.begin = -1 THEN NoEnd ELSE hit.begin
                    ELSE 0
           ends == Trim /\ hit.end # -1
           end == IF ends THEN hit.end + 1 ELSE NoEnd
           region == IF ends THEN hit.region ELSE NoRegion
           mem == {x \in {tb.skew[r] : r \in tb.raw.mem} : begin <= x /\ x < end}
<1>0. /\ n \in Nat /\ NumInsts(tb.raw) = n /\ n < NoEnd /\ NoRegion = -1 /\ NoEnd \in Nat
      /\ tb.raw \in Blocks /\ tb.skew = SkewIndex(tb.raw)
      /\ \A r \in tb.raw.mem : tb.skew[r] \in Nat
  BY BlockFacts DEF DecodedTB, NoRegion, NoEnd
<1>1. s = [index |-> i, begin |-> begin, end |-> end, region |-> region,
           mem |-> mem, ex |-> execs + 1]
  BY DEF SliceOf, Trim
<1>2. /\ hit.begin = -1 \/ hit.begin \in 0 .. (n - 1)
      /\ hit.end = -1 \/ hit.end \in 0 .. (n - 1)
      /\ hit.begin # -1 => c = NoRegion
      /\ hit.end # -1 => hit.end >= hit.begin /\ hit.region # NoRegion
      /\ hit.begin = -1 => hit.region = c
      /\ hit.region \in {NoRegion} \cup DOMAIN Regions
  BY <1>0, HitFacts DEF RegionOrNone
<1>3. /\ TraceFrom(tb) = IF c # NoRegion THEN 0 ELSE IF hit.begin = -1 THEN n ELSE hit.begin
      /\ TraceTo(tb) = IF hit.end = -1 THEN n ELSE hit.end + 1
  BY DEF TraceFrom, TraceTo
<1>4. Mode = "trim" /\ ~Trim => hit.end = -1
  <2>1. Mode = "trim" /\ ~Trim => DOMAIN Regions = {}
    BY DEF Trim
  <2> QED
    BY <1>2, <2>1
<1>5. ASSUME Mode = "trim", NEW k \in 0 .. (n - 1)
      PROVE  /\ During(tb, k) # NoRegion <=> TraceFrom(tb) <= k /\ k < TraceTo(tb)
             /\ EndsAt(tb, During(tb, k), k) <=> k = hit.end
  <2>1. k \in 0 .. n
    BY <1>0
  <2>2. Scanned(tb, o, k)
    BY <1>5, <2>1, ScanFacts
  <2> DEFINE in == TraceFrom(tb) <= k /\ k < TraceTo(tb)
             r == RegionAt(tb, o[k], k)
  <2>3. /\ in => r = hit.region /\ hit.region # NoRegion
        /\ ~in => r = NoRegion
        /\ EndsAt(tb, r, k) <=> k = hit.end
    BY <1>5, <2>2, ScanStep
  <2>4. During(tb, k) = r
    BY DEF During
  <2> HIDE DEF in, r, hit
  <2> QED
    BY <2>3, <2>4 DEF in, hit
<1> HIDE DEF hit, n, c, o, s, mem
<1>6. b \in 0 .. n /\ e \in b .. n
  BY <1>0, <1>2, <1>3
<1>7. \A k \in 0 .. (n - 1) : Counts(tb, k) <=> b <= k /\ k < e
  <2> SUFFICES ASSUME NEW k \in 0 .. (n - 1) PROVE Counts(tb, k) <=> b <= k /\ k < e
    OBVIOUS
  <2>1. CASE Trim
    <3>1. Counts(tb, k) <=> During(tb, k) # NoRegion
      BY <2>1 DEF Counts, Trim
    <3>2. During(tb, k) # NoRegion <=> TraceFrom(tb) <= k /\ k < TraceTo(tb)
      BY <1>5, <2>1 DEF Trim
    <3> QED
      BY <2>1, <3>1, <3>2
  <2>2. CASE ~Trim
    <3>1. Counts(tb, k)
      BY <2>2 DEF Counts, Trim
    <3>2. b <= k /\ k < e
      BY <1>0, <2>2
    <3> QED
      BY <3>1, <3>2
  <2> QED
    BY <2>1, <2>2
<1> DEFINE W == Traced(tb)
<1>8. /\ W \in Seq(TraceInsts) /\ Len(W) = e - b
      /\ \A j \in 1 .. (e - b) : W[j] = TracedInst(tb, b + j - 1)
  <2> HIDE DEF b, e, W, TraceInsts
  <2>1. /\ b \in 0 .. NumInsts(tb.raw) /\ e \in b .. NumInsts(tb.raw)
        /\ NumInsts(tb.raw) \in Nat
        /\ \A k \in 0 .. (NumInsts(tb.raw) - 1) : Counts(tb, k) <=> b <= k /\ k < e
    BY <1>0, <1>6, <1>7
  <2> QED
    BY <2>1, TracedFacts DEF W
<1>9. s.begin = begin /\ s.end = end /\ s.region = region /\ s.mem = mem /\ s.index = i
      /\ s.ex = execs + 1
  <2> HIDE DEF begin, end, region
  <2> QED
    BY <1>1
<1>10. begin = end => e - b = 0
  BY <1>0, <1>2, <1>3
<1>11. begin # end => begin = b /\ Min2(n, end) = e
  BY <1>0, <1>2, <1>3 DEF Min2
<1>12. Size(T, s) = Min2(n, end) - begin
  BY <1>9 DEF Size, n
<1>13. begin # end /\ region # NoRegion => e - b > 0
  BY <1>0, <1>2, <1>3
<1>14. \A m \in mem : m >= begin
  BY <1>0, <1>2 DEF mem
<1>15. ASSUME begin # end, NEW j \in 1 .. (e - b) PROVE W[j] = SliceInst(T, s, j)
  <2> DEFINE k == b + j - 1
             m1 == \E r \in tb.raw.mem : tb.raw.parts[r+1] > 0 /\ Starts(tb.raw)[r] = k
             l1 == Mode = "trim" /\ EndsAt(tb, During(tb, k), k)
             m2 == k \in mem
             l2 == region # NoRegion /\ j = e - b
  <2>1. k \in 0 .. (n - 1) /\ begin <= k /\ k < end
    BY <1>0, <1>2, <1>3, <1>6, <1>11, <1>15
  <2>2. W[j] = [ex |-> execs + 1, pos |-> k, mem |-> m1, last |-> l1]
    BY <1>8 DEF TracedInst
  <2>3. SliceInst(T, s, j) = [ex |-> execs + 1, pos |-> k, mem |-> m2, last |-> l2]
    <3>1. s.begin + j - 1 = k /\ Size(T, s) = e - b
      BY <1>9, <1>11, <1>12, <1>15
    <3> HIDE DEF k, e, b, region
    <3> QED
      BY <1>9, <3>1 DEF SliceInst
  <2>4. m1 <=> m2
    <3> HIDE DEF k
    <3>1. \A r \in tb.raw.mem : SkewIndex(tb.raw)[r] = Starts(tb.raw)[r] /\ tb.raw.parts[r+1] > 0
      BY <1>0 DEF StreamFit
    <3>2. m2 <=> k \in {tb.skew[r] : r \in tb.raw.mem}
      BY <2>1 DEF mem
    <3> QED
      BY <1>0, <3>1, <3>2
  <2>5. l1 <=> l2
    <3>1. CASE ends
      <4>1. l1 <=> k = hit.end
        <5> HIDE DEF k
        <5> QED BY <1>5, <2>1, <3>1 DEF Trim
      <4>2. k = hit.end <=> j = e - b
        BY <1>0, <1>2, <1>3, <1>6, <3>1
      <4>3. region # NoRegion
        BY <1>2, <3>1
      <4> QED
        BY <4>1, <4>2, <4>3
    <3>2. CASE ~ends
      <4>1. region = NoRegion
        BY <3>2
      <4>2. Mode = "trim" => hit.end = -1
        BY <1>4, <3>2
      <4>3. ~l1
        <5> HIDE DEF k
        <5>1. k # -1
          BY <1>0, <2>1
        <5> QED
          BY <1>5, <2>1, <4>2, <5>1
      <4> QED
        BY <4>1, <4>3
    <3> QED
      BY <3>1, <3>2
  <2>6. m1 = m2 /\ l1 = l2
    <3> HIDE DEF k, e, b, region
    <3>1. m1 \in BOOLEAN /\ m2 \in BOOLEAN /\ l1 \in BOOLEAN /\ l2 \in BOOLEAN
      OBVIOUS
    <3> HIDE DEF m1, m2, l1, l2
    <3> QED
      BY ONLY <2>4, <2>5, <3>1
  <2> HIDE DEF m1, m2, l1, l2, k
  <2> QED
    BY <2>2, <2>3, <2>6
<1> HIDE DEF b, e, begin, end, region, W, TraceInsts
<1>16. b \in Int /\ e \in Int /\ e - b \in Nat
  BY <1>0, <1>6
<1> QED
  BY <1>8, <1>9, <1>10, <1>11, <1>12, <1>13, <1>14, <1>15, <1>16 DEF s, W

-----------------------------------------------------------------------------
(* Slices, one after the other, hold a part of the trace.                  *)

\* Slice s holds the instructions of t that follow the a-th one.
Spelled(T, t, s, a) ==
  /\ Size(T, s) \in Nat
  /\ s.region # NoRegion => Size(T, s) > 0
  /\ \A m \in s.mem : m >= s.begin
  /\ \A j \in 1 .. Size(T, s) : t[a+j] = SliceInst(T, s, j)

\* The slices of q hold, one after the other, the instructions of t from a to z;
\* c[k] is where the k-th one ends.
Cuts(T, t, q, c) ==
  /\ c \in [0 .. Len(q) -> 0 .. Len(t)]
  /\ \A k \in 1 .. Len(q) : /\ c[k] = c[k-1] + Size(T, q[k])
                            /\ Spelled(T, t, q[k], c[k-1])
Covers(T, t, q, a, z) == \E c : Cuts(T, t, q, c) /\ c[0] = a /\ c[Len(q)] = z

\* No slices hold nothing.
LEMMA CoversNone ==
  ASSUME NEW T, NEW M, NEW t \in Seq(M), NEW a \in 0 .. Len(t)
  PROVE  Covers(T, t, <<>>, a, a)
<1> DEFINE c == [k \in 0 .. 0 |-> a]
<1>1. Cuts(T, t, <<>>, c) /\ c[0] = a
  BY DEF Cuts
<1> HIDE DEF c
<1>2. Len(<<>>) = 0
  OBVIOUS
<1> QED
  BY <1>1, <1>2 DEF Covers

\* And the other way round.
LEMMA NoneCovers ==
  ASSUME NEW T, NEW t, NEW a, NEW z, Covers(T, t, <<>>, a, z)
  PROVE  a = z
<1>1. PICK c : Cuts(T, t, <<>>, c) /\ c[0] = a /\ c[Len(<<>>)] = z
  BY DEF Covers
<1>2. Len(<<>>) = 0
  OBVIOUS
<1> QED
  BY <1>1, <1>2

\* One more slice.
LEMMA CoversAppend ==
  ASSUME NEW T, NEW M, NEW t \in Seq(M), NEW S, NEW q \in Seq(S), NEW s \in S, NEW a, NEW z,
         Covers(T, t, q, a, z), Spelled(T, t, s, z), z + Size(T, s) <= Len(t)
  PROVE  Covers(T, t, Append(q, s), a, z + Size(T, s))
<1> DEFINE n == Len(q)
           w == Append(q, s)
           d == Size(T, s)
<1>1. PICK c : Cuts(T, t, q, c) /\ c[0] = a /\ c[n] = z
  BY DEF Covers
<1>2. /\ c \in [0 .. n -> 0 .. Len(t)] /\ n \in Nat /\ Len(t) \in Nat
      /\ \A k \in 1 .. n : c[k] = c[k-1] + Size(T, q[k]) /\ Spelled(T, t, q[k], c[k-1])
  BY <1>1 DEF Cuts
<1>3. d \in Nat /\ z \in 0 .. Len(t)
  BY <1>1, <1>2 DEF Spelled
<1>4. Len(w) = n + 1 /\ w[n+1] = s /\ \A k \in 1 .. n : w[k] = q[k]
  OBVIOUS
<1> HIDE DEF w, d, n
<1> DEFINE g == [k \in 0 .. (n + 1) |-> IF k = n + 1 THEN z + d ELSE c[k]]
<1>5. g \in [0 .. (n + 1) -> 0 .. Len(t)]
  BY <1>2, <1>3 DEF d
<1>6. g[n+1] = z + d /\ (\A k \in 0 .. n : g[k] = c[k]) /\ g[0] = a /\ g[n] = z
  BY <1>1, <1>2
<1> HIDE DEF g
<1>7. ASSUME NEW k \in 1 .. (n + 1)
      PROVE  g[k] = g[k-1] + Size(T, w[k]) /\ Spelled(T, t, w[k], g[k-1])
  <2>1. CASE k = n + 1
    <3>1. k - 1 = n
      BY <1>2, <2>1
    <3> QED
      BY <1>4, <1>6, <2>1, <3>1 DEF d
  <2>2. CASE k # n + 1
    <3>1. k \in 1 .. n /\ k - 1 \in 0 .. n /\ k \in 0 .. n
      BY <1>2, <2>2
    <3> QED
      BY <1>2, <1>4, <1>6, <3>1
  <2> QED
    BY <2>1, <2>2
<1>8. Cuts(T, t, w, g)
  BY <1>4, <1>5, <1>7 DEF Cuts
<1> QED
  BY <1>4, <1>6, <1>8 DEF Covers, w, d

\* The TBs of the slices of q have as many instructions in U as they have in T.
SameLengths(T, U, q) == \A k \in 1 .. Len(q) : U[q[k].index].mcinsts = T[q[k].index].mcinsts

\* t is the beginning of u.
Extends(t, u) == Len(t) <= Len(u) /\ \A k \in 1 .. Len(t) : u[k] = t[k]

\* A slice holds what it held when its TB has as many instructions as it had, and
\* when the trace goes on.
LEMMA SpelledStill ==
  ASSUME NEW T, NEW U, NEW M, NEW t \in Seq(M), NEW u \in Seq(M), NEW s, NEW a \in Nat,
         U[s.index].mcinsts = T[s.index].mcinsts, Extends(t, u),
         Spelled(T, t, s, a), a + Size(T, s) <= Len(t)
  PROVE  Spelled(U, u, s, a) /\ Size(U, s) = Size(T, s)
<1>1. Size(U, s) = Size(T, s)
  BY DEF Size
<1>2. \A j : SliceInst(U, s, j) = SliceInst(T, s, j)
  BY <1>1 DEF SliceInst
<1>3. Size(T, s) \in Nat
  BY DEF Spelled
<1> DEFINE d == Size(T, s)
<1>4. ASSUME NEW j \in 1 .. d PROVE u[a+j] = t[a+j]
  <2> HIDE DEF d
  <2> DEFINE p == a + j
  <2>1. p \in 1 .. Len(t)
    BY <1>3 DEF d
  <2> HIDE DEF p
  <2>2. u[p] = t[p]
    BY <2>1 DEF Extends
  <2> QED
    BY <2>2 DEF p
<1>5. \A j \in 1 .. d : t[a+j] = SliceInst(T, s, j)
  BY DEF Spelled
<1>6. (s.region # NoRegion => d > 0) /\ \A m \in s.mem : m >= s.begin
  BY DEF Spelled
<1> QED
  BY <1>1, <1>2, <1>3, <1>4, <1>5, <1>6 DEF Spelled

\* So do the slices of a queue.
LEMMA CoversStill ==
  ASSUME NEW T, NEW U, NEW M, NEW t \in Seq(M), NEW u \in Seq(M), NEW S, NEW q \in Seq(S),
         NEW a, NEW z, Covers(T, t, q, a, z), SameLengths(T, U, q), Extends(t, u)
  PROVE  Covers(U, u, q, a, z)
<1> DEFINE n == Len(q)
<1>1. PICK c : Cuts(T, t, q, c) /\ c[0] = a /\ c[n] = z
  BY DEF Covers
<1>2. /\ c \in [0 .. n -> 0 .. Len(t)] /\ n \in Nat /\ Len(t) \in Nat /\ Len(u) \in Nat
      /\ \A k \in 1 .. n : c[k] = c[k-1] + Size(T, q[k]) /\ Spelled(T, t, q[k], c[k-1])
  BY <1>1 DEF Cuts
<1>3. Len(t) <= Len(u)
  BY DEF Extends
<1>4. c \in [0 .. n -> 0 .. Len(u)]
  BY <1>2, <1>3
<1>5. ASSUME NEW k \in 1 .. n
      PROVE  c[k] = c[k-1] + Size(U, q[k]) /\ Spelled(U, u, q[k], c[k-1])
  <2> DEFINE s == q[k]
             p == c[k-1]
  <2>1. U[s.index].mcinsts = T[s.index].mcinsts
    BY DEF SameLengths
  <2>2. k \in 0 .. n /\ k - 1 \in 0 .. n
    BY <1>2
  <2>3. p \in Nat /\ c[k] = p + Size(T, s) /\ c[k] <= Len(t) /\ Spelled(T, t, s, p)
    <3>1. c[k-1] \in 0 .. Len(t) /\ c[k] \in 0 .. Len(t)
      BY <1>2, <2>2
    <3>2. c[k] = p + Size(T, s) /\ Spelled(T, t, s, p)
      BY <1>2
    <3> QED
      BY <1>2, <3>1, <3>2
  <2> HIDE DEF s, p
  <2>4. Spelled(U, u, s, p) /\ Size(U, s) = Size(T, s)
    <3>1. t \in Seq(M) /\ u \in Seq(M) /\ Extends(t, u) /\ p + Size(T, s) <= Len(t)
      BY <2>3
    <3> QED
      BY ONLY <2>1, <2>3, <3>1, SpelledStill
  <2> QED
    BY <2>3, <2>4 DEF s, p
<1>6. Cuts(U, u, q, c)
  BY <1>4, <1>5 DEF Cuts
<1> QED
  BY <1>1, <1>6 DEF Covers

\* The parts of a split slice hold what it held.
LEMMA SplitSpelled ==
  ASSUME NEW T, NEW t, NEW s \in SliceType, NEW a \in Nat, NEW r \in Nat \ {0},
         T[s.index].mcinsts \in Nat, Spelled(T, t, s, a),
         s.begin + r < T[s.index].mcinsts, s.begin + r < s.end
  PROVE  LET h == SplitTaken(s, r)
             g == SplitRest(s, r)
         IN  /\ Size(T, h) = r /\ Spelled(T, t, h, a) /\ h.region = NoRegion
             /\ Size(T, g) = Size(T, s) - r /\ Spelled(T, t, g, a + r)
<1> DEFINE h == SplitTaken(s, r)
           g == SplitRest(s, r)
           m == T[s.index].mcinsts
           b == s.begin
           e == s.end
           hm == {x \in s.mem : x < s.begin + r}
           gm == {x \in s.mem : x >= s.begin + r}
           d == Size(T, s)
<1>1. h = [s EXCEPT !.end = s.begin + r, !.region = NoRegion, !.mem = hm]
  BY DEF SplitTaken
<1>2. g = [s EXCEPT !.begin = s.begin + r, !.mem = gm]
  BY DEF SplitRest
<1>3. b \in Nat /\ e \in Nat /\ s.mem \subseteq Nat /\ m \in Nat
  BY DEF SliceType
<1> HIDE DEF hm, gm, h, g
<1>4. /\ h.index = s.index /\ h.begin = b /\ h.end = b + r /\ h.region = NoRegion
      /\ h.mem = hm /\ h.ex = s.ex
  BY <1>1 DEF SliceType
<1>5. /\ g.index = s.index /\ g.begin = b + r /\ g.end = e /\ g.region = s.region
      /\ g.mem = gm /\ g.ex = s.ex
  BY <1>2 DEF SliceType
<1>6. d = Min2(m, e) - b
  BY DEF Size
<1>7. Size(T, h) = r
  <2>1. Size(T, h) = Min2(m, b + r) - b
    BY <1>4 DEF Size
  <2> QED
    BY <1>3, <2>1 DEF Min2
<1>8. Size(T, g) = d - r /\ d > r /\ d \in Nat
  <2>1. Size(T, g) = Min2(m, e) - (b + r)
    BY <1>5 DEF Size
  <2> QED
    BY <1>3, <1>6, <2>1 DEF Min2
<1>9. \A j \in 1 .. d : t[a+j] = SliceInst(T, s, j)
  BY DEF Spelled
<1>10. \A x \in s.mem : x >= b
  BY DEF Spelled
<1> HIDE DEF m, b, e, d
<1>11. \A x \in h.mem : x >= h.begin
  BY <1>4, <1>10 DEF hm
<1>12. \A x \in g.mem : x >= g.begin
  BY <1>5 DEF gm, b
<1>13. ASSUME NEW j \in 1 .. r PROVE t[a+j] = SliceInst(T, h, j)
  <2> DEFINE p == b + j - 1
             m1 == p \in s.mem
             m2 == p \in hm
             l1 == s.region # NoRegion /\ j = d
             l2 == NoRegion # NoRegion /\ j = r
  <2>1. j \in 1 .. d /\ j # d /\ p \in Nat /\ p < b + r
    BY <1>3, <1>8
  <2>2. t[a+j] = [ex |-> s.ex, pos |-> p, mem |-> m1, last |-> l1]
    BY <1>9, <2>1 DEF SliceInst, b, d
  <2>3. SliceInst(T, h, j) = [ex |-> s.ex, pos |-> p, mem |-> m2, last |-> l2]
    BY <1>4, <1>7 DEF SliceInst
  <2> HIDE DEF p
  <2>4. m1 <=> m2
    BY <2>1 DEF hm, b
  <2>5. l1 <=> l2
    BY <2>1
  <2>6. m1 \in BOOLEAN /\ m2 \in BOOLEAN /\ l1 \in BOOLEAN /\ l2 \in BOOLEAN
    OBVIOUS
  <2> HIDE DEF m1, m2, l1, l2
  <2>7. m1 = m2 /\ l1 = l2
    BY ONLY <2>4, <2>5, <2>6
  <2> QED
    BY <2>2, <2>3, <2>7
<1>14. ASSUME NEW j \in 1 .. (d - r) PROVE t[(a+r)+j] = SliceInst(T, g, j)
  <2> DEFINE i == r + j
             p == b + i - 1
             m1 == p \in s.mem
             m2 == p \in gm
             l1 == s.region # NoRegion /\ i = d
             l2 == s.region # NoRegion /\ j = d - r
  <2>1. /\ i \in 1 .. d /\ (i = d <=> j = d - r) /\ p \in Nat /\ p >= b + r
        /\ (b + r) + j - 1 = p /\ (a + r) + j = a + i
    BY <1>3, <1>8
  <2>2. SliceInst(T, g, j) = [ex |-> s.ex, pos |-> p, mem |-> m2, last |-> l2]
    BY <1>5, <1>8, <2>1 DEF SliceInst
  <2> HIDE DEF i
  <2>3. t[a+i] = [ex |-> s.ex, pos |-> p, mem |-> m1, last |-> l1]
    BY <1>9, <2>1 DEF SliceInst, b, d
  <2> HIDE DEF p
  <2>4. m1 <=> m2
    BY <2>1 DEF gm, b
  <2>5. l1 <=> l2
    BY <2>1
  <2>6. m1 \in BOOLEAN /\ m2 \in BOOLEAN /\ l1 \in BOOLEAN /\ l2 \in BOOLEAN
    OBVIOUS
  <2> HIDE DEF m1, m2, l1, l2
  <2>7. m1 = m2 /\ l1 = l2
    BY ONLY <2>4, <2>5, <2>6
  <2> QED
    BY <2>1, <2>2, <2>3, <2>7
<1>15. Spelled(T, t, h, a)
  BY <1>4, <1>7, <1>11, <1>13 DEF Spelled
<1>16. Spelled(T, t, g, a + r)
  <2>1. d - r \in Nat /\ d - r > 0
    BY <1>8
  <2> QED
    BY <1>5, <1>8, <1>12, <1>14, <2>1 DEF Spelled
<1> QED
  BY <1>4, <1>7, <1>8, <1>15, <1>16 DEF h, g, d

\* What the slices that are taken whole hold.
LEMMA CutFront ==
  ASSUME NEW T, NEW M, NEW t \in Seq(M), NEW S, NEW q \in Seq(S), NEW c, Cuts(T, t, q, c),
         NEW d \in 0 .. Len(q), NEW p \in Seq(S), Len(p) = d, \A k \in 1 .. d : p[k] = q[k]
  PROVE  Covers(T, t, p, c[0], c[d])
<1> DEFINE g == [k \in 0 .. d |-> c[k]]
           n == Len(q)
<1>1. /\ c \in [0 .. n -> 0 .. Len(t)] /\ n \in Nat /\ d \in 0 .. n
      /\ \A k \in 1 .. n : c[k] = c[k-1] + Size(T, q[k]) /\ Spelled(T, t, q[k], c[k-1])
  BY DEF Cuts
<1> HIDE DEF n
<1>2. g \in [0 .. d -> 0 .. Len(t)] /\ \A k \in 0 .. d : g[k] = c[k]
  BY <1>1
<1> HIDE DEF g
<1>3. ASSUME NEW k \in 1 .. d
      PROVE  g[k] = g[k-1] + Size(T, p[k]) /\ Spelled(T, t, p[k], g[k-1])
  <2>1. k \in 1 .. n /\ k \in 0 .. d /\ k - 1 \in 0 .. d
    BY <1>1
  <2> QED
    BY <1>1, <1>2, <2>1
<1>4. Cuts(T, t, p, g)
  BY <1>2, <1>3 DEF Cuts
<1>5. 0 \in 0 .. d /\ d \in 0 .. d
  BY <1>1
<1>6. g[0] = c[0] /\ g[d] = c[d]
  BY <1>2, <1>5
<1> QED
  BY <1>4, <1>6 DEF Covers

\* And with a part of the next one.
LEMMA CutTaken ==
  ASSUME NEW T, NEW M, NEW t \in Seq(M), NEW S, NEW q \in Seq(S), NEW c, Cuts(T, t, q, c),
         NEW d \in 0 .. Len(q), NEW p \in Seq(S), Len(p) = d + 1,
         \A k \in 1 .. d : p[k] = q[k],
         NEW w \in 0 .. Len(t), Spelled(T, t, p[d+1], c[d]), w = c[d] + Size(T, p[d+1])
  PROVE  Covers(T, t, p, c[0], w)
<1> DEFINE g == [k \in 0 .. (d + 1) |-> IF k = d + 1 THEN w ELSE c[k]]
           n == Len(q)
<1>1. /\ c \in [0 .. n -> 0 .. Len(t)] /\ n \in Nat /\ d \in 0 .. n
      /\ \A k \in 1 .. n : c[k] = c[k-1] + Size(T, q[k]) /\ Spelled(T, t, q[k], c[k-1])
  BY DEF Cuts
<1> HIDE DEF n
<1>2. /\ g \in [0 .. (d + 1) -> 0 .. Len(t)]
      /\ (\A k \in 0 .. d : g[k] = c[k]) /\ g[d+1] = w
  BY <1>1
<1> HIDE DEF g
<1>3. ASSUME NEW k \in 1 .. (d + 1)
      PROVE  g[k] = g[k-1] + Size(T, p[k]) /\ Spelled(T, t, p[k], g[k-1])
  <2>1. CASE k = d + 1
    <3>1. k - 1 = d /\ d \in 0 .. d
      BY <1>1, <2>1
    <3> QED
      BY <1>2, <2>1, <3>1
  <2>2. CASE k # d + 1
    <3>1. k \in 1 .. n /\ k \in 0 .. d /\ k - 1 \in 0 .. d /\ k \in 1 .. d
      BY <1>1, <2>2
    <3> QED
      BY <1>1, <1>2, <3>1
  <2> QED
    BY <2>1, <2>2
<1>4. Cuts(T, t, p, g)
  BY <1>2, <1>3 DEF Cuts
<1>5. g[0] = c[0] /\ g[d+1] = w
  BY <1>1, <1>2
<1> QED
  BY <1>4, <1>5 DEF Covers

\* What stays in the queue, from w on; its first slice may be the rest of one.
LEMMA CutBack ==
  ASSUME NEW T, NEW M, NEW t \in Seq(M), NEW S, NEW q \in Seq(S), NEW c, Cuts(T, t, q, c),
         NEW d \in 0 .. Len(q), NEW p \in Seq(S), Len(p) = Len(q) - d,
         \A k \in 2 .. Len(p) : p[k] = q[k+d],
         NEW w \in 0 .. Len(t), d = Len(q) => w = c[d],
         d < Len(q) => Spelled(T, t, p[1], w) /\ c[d+1] = w + Size(T, p[1])
  PROVE  Covers(T, t, p, w, c[Len(q)])
<1> DEFINE n == Len(q)
           m == Len(p)
           g == [k \in 0 .. m |-> IF k = 0 THEN w ELSE c[k+d]]
<1>1. /\ c \in [0 .. n -> 0 .. Len(t)] /\ n \in Nat /\ d \in 0 .. n
      /\ \A k \in 1 .. n : c[k] = c[k-1] + Size(T, q[k]) /\ Spelled(T, t, q[k], c[k-1])
  BY DEF Cuts
<1>2. m \in Nat /\ m = n - d
  OBVIOUS
<1> HIDE DEF n, m
<1>3. ASSUME NEW k \in 0 .. m, k # 0 PROVE c[k+d] \in 0 .. Len(t)
  <2> DEFINE j == k + d
  <2>1. j \in 0 .. n
    BY <1>1, <1>2
  <2> HIDE DEF j
  <2>2. c[j] \in 0 .. Len(t)
    BY <1>1, <2>1
  <2> QED
    BY <2>2 DEF j
<1>4. g \in [0 .. m -> 0 .. Len(t)] /\ g[0] = w /\ \A k \in 1 .. m : g[k] = c[k+d]
  BY <1>2, <1>3
<1> HIDE DEF g
<1>5. ASSUME NEW k \in 1 .. m
      PROVE  g[k] = g[k-1] + Size(T, p[k]) /\ Spelled(T, t, p[k], g[k-1])
  <2>1. CASE k = 1
    <3>1. d < Len(q) /\ k - 1 = 0 /\ k + d = d + 1
      BY <1>1, <1>2, <2>1 DEF n
    <3>2. g[k] = c[d+1] /\ g[k-1] = w
      BY <1>4, <3>1
    <3> QED
      BY <2>1, <3>1, <3>2
  <2>2. CASE k # 1
    <3> DEFINE j == k + d
    <3>1. j \in 1 .. n /\ k - 1 \in 1 .. m /\ (k - 1) + d = j - 1 /\ k \in 2 .. m
      BY <1>1, <1>2, <2>2
    <3>2. g[k] = c[j] /\ p[k] = q[j]
      BY <1>4, <3>1 DEF m
    <3>3. g[k-1] = c[j-1]
      BY <1>4, <3>1
    <3> HIDE DEF j
    <3> QED
      BY <1>1, <3>1, <3>2, <3>3
  <2> QED
    BY <2>1, <2>2
<1>6. Cuts(T, t, p, g)
  BY <1>4, <1>5 DEF Cuts, m
<1>7. g[m] = c[n]
  <2>1. CASE m = 0
    BY <1>1, <1>2, <1>4, <2>1 DEF n
  <2>2. CASE m # 0
    BY <1>1, <1>2, <1>4, <2>2
  <2> QED
    BY <2>1, <2>2
<1> QED
  BY <1>4, <1>6, <1>7 DEF Covers, n, m

\* The estimate is at least the number of instructions: what is selected whole
\* fits into MCIS.
LEMMA WholeFit ==
  ASSUME NEW q \in Seq(SliceType), \A k \in 1 .. Len(q) : TBs[q[k].index].mcinsts \in Nat,
         NEW t, NEW c, Cuts(TBs, t, q, c), Len(t) \in Nat
  PROVE  LET d == NumWhole(q)
         IN  /\ Room(q)[d] \in Nat
             /\ c[d] - c[0] <= Chunk - Room(q)[d]
<1> DEFINE d == NumWhole(q)
           n == Len(q)
           r == Room(q)
<1>0. q \in Seq(SliceType) /\ \A k \in 1 .. Len(q) : TBs[q[k].index].mcinsts \in Nat
  OBVIOUS
<1>1. /\ d \in 0 .. n /\ n \in Nat
      /\ \A j \in 0 .. (d - 1) : SliceLen(q[j+1]) <= r[j]
  <2>1. /\ d \in 0 .. n
        /\ \A j \in 0 .. (d - 1) : Selects(q, j) /\ SliceLen(q[j+1]) <= r[j]
    BY ONLY <1>0, WholeFacts
  <2>2. n \in Nat
    BY ONLY <1>0
  <2> QED
    BY ONLY <2>1, <2>2
<1>2. /\ r[0] = Chunk /\ Chunk \in Nat
      /\ \A k \in 1 .. n : r[k] = r[k-1] - SliceLen(q[k])
      /\ \A k \in 0 .. n : r[k] \in Int
  <2>1. Chunk \in Nat
    BY ONLY BrokerAssumption DEF NoEnd
  <2>2. /\ Room(q)[0] = Chunk
        /\ \A k \in 1 .. Len(q) : Room(q)[k] = Room(q)[k-1] - SliceLen(q[k])
        /\ \A k \in 0 .. Len(q) : Room(q)[k] \in Int
    BY ONLY <1>0, RoomType
  <2> QED
    BY <2>1, <2>2
<1>3. ASSUME NEW k \in 1 .. n
      PROVE  /\ c[k] = c[k-1] + Size(TBs, q[k]) /\ Size(TBs, q[k]) <= SliceLen(q[k])
             /\ c[k] \in Int /\ c[k-1] \in Int /\ c[0] \in Int /\ SliceLen(q[k]) \in Int
             /\ Size(TBs, q[k]) \in Int
  <2> DEFINE s == q[k]
             m == TBs[s.index].mcinsts
  <2>1. s \in SliceType /\ m \in Nat
    OBVIOUS
  <2>2. s.begin \in Nat /\ s.end \in Nat
    BY <2>1 DEF SliceType
  <2>3. Size(TBs, s) = Min2(m, s.end) - s.begin /\ SliceLen(s) = Min2(m, s.end - s.begin)
    BY DEF Size, SliceLen
  <2> HIDE DEF s, m
  <2>4. Size(TBs, s) <= SliceLen(s) /\ Size(TBs, s) \in Int /\ SliceLen(s) \in Int
    BY <2>1, <2>2, <2>3 DEF Min2
  <2>5. k \in 0 .. n /\ k - 1 \in 0 .. n /\ 0 \in 0 .. n
    BY <1>1
  <2>6. c[k] \in 0 .. Len(t) /\ c[k-1] \in 0 .. Len(t) /\ c[0] \in 0 .. Len(t)
    BY <2>5 DEF Cuts
  <2>7. c[k] = c[k-1] + Size(TBs, s)
    BY DEF Cuts, s
  <2>8. c[k] \in Int /\ c[k-1] \in Int /\ c[0] \in Int
    BY <2>6
  <2> QED
    BY <2>4, <2>7, <2>8 DEF s
<1> DEFINE H == {k \in 0 .. d : c[k] - c[0] <= Chunk - r[k]}
<1> HIDE DEF d, r
<1>4. 0 \in H
  <2>1. c[0] \in 0 .. Len(t)
    BY <1>1 DEF Cuts
  <2>2. c[0] - c[0] = 0 /\ Chunk - r[0] = 0
    BY <1>2, <2>1
  <2> QED
    BY <1>1, <2>2
<1>5. ASSUME NEW k \in 1 .. d, k - 1 \in H PROVE k \in H
  <2>1. k \in 1 .. n /\ k \in 0 .. d /\ k - 1 \in 0 .. n /\ k \in 0 .. n
    BY <1>1
  <2>2. c[k-1] - c[0] <= Chunk - r[k-1]
    BY <1>5
  <2>3. r[k] = r[k-1] - SliceLen(q[k]) /\ r[k-1] \in Int
    BY <1>2, <2>1
  <2>4. /\ c[k] = c[k-1] + Size(TBs, q[k]) /\ Size(TBs, q[k]) <= SliceLen(q[k])
        /\ c[k] \in Int /\ c[k-1] \in Int /\ c[0] \in Int /\ SliceLen(q[k]) \in Int
        /\ Size(TBs, q[k]) \in Int
    BY <1>3, <2>1
  <2>5. Chunk \in Int
    BY <1>2
  <2>6. c[k] - c[0] <= Chunk - r[k]
    <3> DEFINE c0 == c[0]
               c1 == c[k-1]
               c2 == c[k]
               r1 == r[k-1]
               r2 == r[k]
               z == Size(TBs, q[k])
               l == SliceLen(q[k])
    <3>1. /\ c0 \in Int /\ c1 \in Int /\ c2 \in Int /\ r1 \in Int /\ z \in Int /\ l \in Int
          /\ Chunk \in Int /\ c1 - c0 <= Chunk - r1 /\ r2 = r1 - l
          /\ c2 = c1 + z /\ z <= l
      BY <2>2, <2>3, <2>4, <2>5
    <3> HIDE DEF c0, c1, c2, r1, r2, z, l
    <3>2. c2 - c0 <= Chunk - r2
      BY ONLY <3>1
    <3> QED
      BY <3>2 DEF c0, c2, r2
  <2> QED
    BY <2>1, <2>6
<1>6. d \in H
  <2> HIDE DEF H
  <2>1. d \in Nat
    BY ONLY <1>1
  <2>2. \A k \in 1 .. d : k - 1 \in H => k \in H
    BY ONLY <1>5
  <2> QED
    BY ONLY <1>4, <2>1, <2>2, StepByStep
<1>7. r[d] \in Nat
  <2>1. CASE d = 0
    BY <1>2, <2>1
  <2>2. CASE d # 0
    <3> DEFINE j == d - 1
    <3>1. j \in 0 .. (d - 1) /\ d \in 1 .. n /\ j + 1 = d /\ d \in 0 .. n /\ j \in 0 .. n
      BY <1>1, <2>2
    <3>2. SliceLen(q[d]) <= r[j] /\ r[d] = r[j] - SliceLen(q[d]) /\ r[d] \in Int /\ r[j] \in Int
      BY <1>1, <1>2, <3>1
    <3>3. SliceLen(q[d]) \in Int
      BY <1>3, <3>1
    <3> QED
      BY <3>2, <3>3
  <2> QED
    BY <2>1, <2>2
<1> QED
  BY <1>6, <1>7 DEF d, r

-----------------------------------------------------------------------------
(* A batch is the instructions of the selected slices.                     *)

\* f is made of the first k sequences of ss, of which the i-th one ends at c[i].
Joined(f, ss, c, k) ==
  /\ Len(f) = c[k] - c[0]
  /\ \A p \in 1 .. Len(f) :
       \E i \in 1 .. k : \E j \in 1 .. Len(ss[i]) :
         p + c[0] = c[i-1] + j /\ f[p] = ss[i][j]

\* One more sequence.
LEMMA JoinedMore ==
  ASSUME NEW S, NEW ss \in Seq(Seq(S)), NEW c \in [0 .. Len(ss) -> Nat],
         NEW k \in 1 .. Len(ss), c[k] = c[k-1] + Len(ss[k]),
         NEW f \in Seq(S), NEW h \in Seq(S), Joined(f, ss, c, k - 1), h = f \o ss[k]
  PROVE  Joined(h, ss, c, k)
<1> DEFINE n == Len(ss)
           x == ss[k]
<1>0. n \in Nat /\ x \in Seq(S) /\ f \in Seq(S) /\ h = f \o x /\ c \in [0 .. n -> Nat]
  OBVIOUS
<1>1. c[k] = c[k-1] + Len(x) /\ Len(f) = c[k-1] - c[0]
  BY DEF Joined
<1> HIDE DEF n, x
<1>2. c[0] \in Nat /\ c[k] \in Nat /\ c[k-1] \in Nat /\ Len(x) \in Nat /\ Len(f) \in Nat
  <2>1. k - 1 \in 0 .. n /\ k \in 0 .. n /\ 0 \in 0 .. n
    BY <1>0 DEF n
  <2>2. c[0] \in Nat /\ c[k] \in Nat /\ c[k-1] \in Nat
    BY <1>0, <2>1
  <2> QED
    BY <1>0, <2>2
<1>4. /\ Len(h) = Len(f) + Len(x)
      /\ \A p \in 1 .. Len(f) : h[p] = f[p]
      /\ \A p \in (Len(f) + 1) .. (Len(f) + Len(x)) : h[p] = x[p - Len(f)]
  BY ONLY <1>0
<1>5. Len(h) = c[k] - c[0]
  BY ONLY <1>1, <1>2, <1>4
<1>6. ASSUME NEW p \in 1 .. Len(h)
      PROVE  \E i \in 1 .. k : \E j \in 1 .. Len(ss[i]) :
               p + c[0] = c[i-1] + j /\ h[p] = ss[i][j]
  <2>1. CASE p <= Len(f)
    <3>1. p \in 1 .. Len(f)
      BY <1>2, <1>4, <2>1
    <3>2. PICK i \in 1 .. (k - 1) : \E j \in 1 .. Len(ss[i]) :
            p + c[0] = c[i-1] + j /\ f[p] = ss[i][j]
      BY <3>1 DEF Joined
    <3>3. i \in 1 .. k
      OBVIOUS
    <3>4. h[p] = f[p]
      BY <1>4, <3>1
    <3> QED
      BY <3>2, <3>3, <3>4
  <2>2. CASE ~(p <= Len(f))
    <3> DEFINE j == p - Len(f)
    <3>0. p \in 1 .. Len(h)
      OBVIOUS
    <3> DEFINE lf == Len(f)
               lx == Len(x)
               c0 == c[0]
               c1 == c[k-1]
    <3>4. /\ Len(h) = lf + lx /\ lf \in Nat /\ lx \in Nat /\ c0 \in Nat /\ c1 \in Nat
          /\ lf = c1 - c0 /\ ~(p <= lf)
      BY <1>1, <1>2, <1>4, <2>2
    <3>1. /\ j \in 1 .. Len(x) /\ p \in (Len(f) + 1) .. (Len(f) + Len(x))
          /\ p + c[0] = c[k-1] + j
      <4> HIDE DEF lf, lx, c0, c1
      <4>1. p \in 1 .. (lf + lx)
        BY <3>0, <3>4
      <4>2. p \in (lf + 1) .. (lf + lx) /\ p - lf \in 1 .. lx
        BY ONLY <3>4, <4>1
      <4>3. p + c0 = c1 + (p - lf)
        BY ONLY <3>4, <4>1
      <4> QED
        BY <4>2, <4>3 DEF lf, lx, c0, c1
    <3>2. h[p] = x[j]
      BY ONLY <1>4, <3>1
    <3>3. k \in 1 .. k
      OBVIOUS
    <3> HIDE DEF j
    <3> QED
      BY <3>1, <3>2, <3>3 DEF x
  <2> QED
    BY <2>1, <2>2
<1> QED
  BY <1>5, <1>6 DEF Joined

\* Flattening joins all of them.
LEMMA FlattenJoined ==
  ASSUME NEW S, NEW ss \in Seq(Seq(S)), NEW c \in [0 .. Len(ss) -> Nat],
         \A k \in 1 .. Len(ss) : c[k] = c[k-1] + Len(ss[k])
  PROVE  Joined(FlattenSeq(ss), ss, c, Len(ss))
<1> DEFINE n == Len(ss)
           F == FlattenSeq(ss)
<1>1. n \in Nat /\ 1 \in Nat /\ \A k \in 1 .. n : ss[k] \in Seq(S)
  OBVIOUS
<1>2. CASE n = 0
  <2>1. F = ss /\ Len(F) = 0
    BY <1>2 DEF FlattenSeq
  <2>2. c[0] \in Nat /\ c[0] - c[0] = 0
    OBVIOUS
  <2> QED
    BY <1>2, <2>1, <2>2 DEF Joined
<1>3. CASE n # 0
  <2>1. PICK fl : /\ F = fl[n] /\ fl[1] = ss[1]
                  /\ \A k \in 2 .. n : fl[k] = fl[k-1] \o ss[k]
                  /\ \A k \in 1 .. n : fl[k] \in Seq(S)
    BY <1>3, FlattenRecursion
  <2> HIDE DEF F
  <2> DEFINE H == {k \in 0 .. n : k # 0 => Joined(fl[k], ss, c, k)}
  <2>2. 0 \in H
    BY <1>1
  <2>3. ASSUME NEW k \in 1 .. n, k - 1 \in H PROVE k \in H
    <3>1. /\ fl[k] \in Seq(S) /\ (k = 1 => fl[k] = ss[k])
          /\ k # 1 => fl[k] = fl[k-1] \o ss[k]
      <4>1. k # 1 => k \in 2 .. n
        BY <1>1
      <4> QED
        BY <2>1, <4>1
    <3>2. PICK g \in Seq(S) : Joined(g, ss, c, k - 1) /\ fl[k] = g \o ss[k]
      <4>1. CASE k = 1
        <5>1. <<>> \in Seq(S) /\ Len(<<>>) = 0 /\ <<>> \o ss[k] = ss[k]
          BY <1>1
        <5>2. c[0] \in Nat /\ c[0] - c[0] = 0 /\ k - 1 = 0
          BY <1>1, <4>1
        <5>3. Joined(<<>>, ss, c, k - 1)
          BY <5>1, <5>2 DEF Joined
        <5> QED
          BY <3>1, <4>1, <5>1, <5>3
      <4>2. CASE k # 1
        <5>1. k - 1 \in 1 .. n
          BY <1>1, <4>2
        <5>2. fl[k-1] \in Seq(S)
          BY <2>1, <5>1
        <5>3. Joined(fl[k-1], ss, c, k - 1)
          BY <2>3, <4>2
        <5> QED
          BY <3>1, <4>2, <5>2, <5>3
      <4> QED
        BY <4>1, <4>2
    <3>3. c[k] = c[k-1] + Len(ss[k]) /\ k \in 1 .. Len(ss)
      OBVIOUS
    <3>4. Joined(fl[k], ss, c, k)
      BY ONLY <3>1, <3>2, <3>3, JoinedMore, ss \in Seq(Seq(S)), c \in [0 .. Len(ss) -> Nat]
    <3> QED
      BY <3>4
  <2>4. n \in H
    <3>1. \A k \in 1 .. n : k - 1 \in H => k \in H
      BY <2>3
    <3> HIDE DEF H
    <3> QED
      BY <1>1, <2>2, <3>1, StepByStep
  <2> QED
    BY <1>3, <2>1, <2>4 DEF F
<1> QED
  BY <1>2, <1>3

\* The places where slices end do not go back.
LEMMA CutsUp ==
  ASSUME NEW T, NEW M, NEW t \in Seq(M), NEW S, NEW q \in Seq(S), NEW c, Cuts(T, t, q, c),
         NEW e \in 0 .. Len(q), NEW i \in 0 .. e
  PROVE  c[i] <= c[e]
<1> DEFINE n == Len(q)
           H == {k \in 0 .. e : k < i \/ c[i] <= c[k]}
<1>1. /\ c \in [0 .. n -> 0 .. Len(t)] /\ n \in Nat /\ e \in 0 .. n /\ Len(t) \in Nat
      /\ \A k \in 1 .. n : c[k] = c[k-1] + Size(T, q[k]) /\ Size(T, q[k]) \in Nat
  BY DEF Cuts, Spelled
<1> HIDE DEF n
<1>2. \A k \in 0 .. e : c[k] \in Nat
  <2> SUFFICES ASSUME NEW k \in 0 .. e PROVE c[k] \in Nat
    OBVIOUS
  <2>1. k \in 0 .. n
    BY <1>1
  <2>2. c[k] \in 0 .. Len(t)
    BY <1>1, <2>1
  <2> QED
    BY <1>1, <2>2
<1>3. 0 \in H
  BY <1>1, <1>2
<1>4. ASSUME NEW k \in 1 .. e, k - 1 \in H PROVE k \in H
  <2>1. k \in 1 .. n /\ k \in 0 .. e /\ k - 1 \in 0 .. e
    BY <1>1
  <2>2. c[k] = c[k-1] + Size(T, q[k]) /\ Size(T, q[k]) \in Nat
    BY <1>1, <2>1
  <2>3. c[k] \in Nat /\ c[k-1] \in Nat /\ c[i] \in Nat
    BY <1>2, <2>1
  <2>4. k - 1 < i \/ c[i] <= c[k-1]
    BY <1>4
  <2>5. CASE k < i
    BY <2>1, <2>5
  <2>6. CASE k = i
    BY <2>1, <2>3, <2>6
  <2>7. CASE k > i
    <3>1. c[i] <= c[k-1]
      BY <1>1, <2>4, <2>7
    <3>2. c[i] <= c[k]
      BY ONLY <2>2, <2>3, <3>1
    <3> QED
      BY <2>1, <3>2
  <2> QED
    BY <1>1, <2>5, <2>6, <2>7
<1>5. e \in H
  <2>1. e \in Nat /\ \A k \in 1 .. e : k - 1 \in H => k \in H
    BY <1>1, <1>4
  <2> HIDE DEF H
  <2> QED
    BY <1>3, <2>1, StepByStep
<1> QED
  BY <1>1, <1>5

\* The copies of a slice are its instructions, in order.
LEMMA CopiesOf ==
  ASSUME NEW s \in SliceType, TBs[s.index].mcinsts \in Nat, TBs[s.index].gen \in Nat,
         Size(TBs, s) \in Nat
  PROVE  /\ Copies(s) \in Seq(InstType) /\ Len(Copies(s)) = Size(TBs, s)
         /\ \A j \in 1 .. Size(TBs, s) : Copies(s)[j] = CopyInst(s, s.begin + j - 1)
<1> DEFINE m == TBs[s.index].mcinsts
           end == Min2(m, s.end)
           n == end - s.begin
           copy == [k \in DOMAIN Positions(s) |-> CopyInst(s, Positions(s)[k])]
<1>1. s.begin \in Nat /\ s.end \in Nat /\ m \in Nat
  BY DEF SliceType
<1>2. Size(TBs, s) = n
  BY DEF Size
<1>3. end \in Nat /\ n \in Nat /\ s.begin <= end
  BY <1>1, <1>2 DEF Min2
<1>4. Positions(s) = [k \in 1 .. n |-> s.begin + k - 1]
  BY <1>3 DEF Positions
<1>5. DOMAIN copy = 1 .. n /\ \A k \in 1 .. n : copy[k] = CopyInst(s, s.begin + k - 1)
  BY <1>4
<1>6. copy \in Seq(InstType)
  BY CopyFacts
<1>7. Copies(s) = copy
  BY DEF Copies
<1> HIDE DEF n, copy
<1>8. Len(copy) = n
  BY <1>3, <1>5, <1>6
<1> QED
  BY <1>2, <1>5, <1>6, <1>7, <1>8

\* When the selected slices hold at most Chunk instructions, the batch is all of
\* them: where the p-th one comes from.
LEMMA DeliverAll ==
  ASSUME DInv, FetchDeliver, NEW M, NEW t \in Seq(M), NEW c, Cuts(TBs, t, selected, c),
         c[Len(selected)] - c[0] <= Chunk
  PROVE  /\ batch' \in Seq(InstType) /\ Len(batch') = c[Len(selected)] - c[0]
         /\ \A p \in 1 .. Len(batch') :
              \E i \in 1 .. Len(selected) : \E j \in 1 .. Size(TBs, selected[i]) :
                /\ p + c[0] = c[i-1] + j
                /\ batch'[p] = CopyInst(selected[i], selected[i].begin + j - 1)
<1> DEFINE n == Len(selected)
           ss == [j \in DOMAIN selected |-> Copies(selected[j])]
           all == FlattenSeq(ss)
           l == Min2(Len(all), Chunk)
<1>1. /\ selected \in Seq(SliceType) /\ n \in Nat /\ DOMAIN selected = 1 .. n
      /\ \A k \in 1 .. n : selected[k] \in SliceType /\ Ready(selected[k].index)
  BY DEF DInv, Types, AllReady
<1>2. /\ c \in [0 .. n -> 0 .. Len(t)] /\ Len(t) \in Nat
      /\ \A k \in 1 .. n : /\ c[k] = c[k-1] + Size(TBs, selected[k])
                           /\ Size(TBs, selected[k]) \in Nat
  BY DEF Cuts, Spelled
<1>3. batch' = SubSeq(all, 1, l)
  BY DEF FetchDeliver, Copies
<1>4. ASSUME NEW k \in 1 .. n
      PROVE  LET s == selected[k]
             IN  /\ Copies(s) \in Seq(InstType) /\ Len(Copies(s)) = Size(TBs, s)
                 /\ \A j \in 1 .. Size(TBs, s) : Copies(s)[j] = CopyInst(s, s.begin + j - 1)
  <2> DEFINE s == selected[k]
  <2>1. s \in SliceType /\ Ready(s.index) /\ Size(TBs, s) \in Nat
    BY <1>1, <1>2
  <2> HIDE DEF s
  <2>2. TBs[s.index].mcinsts \in Nat /\ TBs[s.index].gen \in Nat
    BY <2>1, ReadyNat DEF DInv
  <2>3. /\ Copies(s) \in Seq(InstType) /\ Len(Copies(s)) = Size(TBs, s)
        /\ \A j \in 1 .. Size(TBs, s) : Copies(s)[j] = CopyInst(s, s.begin + j - 1)
    BY <2>1, <2>2, CopiesOf
  <2> QED
    BY <2>3 DEF s
<1>5. ss \in Seq(Seq(InstType)) /\ Len(ss) = n /\ \A k \in 1 .. n : ss[k] = Copies(selected[k])
  <2>1. ss \in [1 .. n -> Seq(InstType)]
    BY <1>1, <1>4
  <2>2. \A k \in 1 .. n : ss[k] = Copies(selected[k])
    BY <1>1
  <2> HIDE DEF ss, n
  <2> QED
    BY <1>1, <2>1, <2>2
<1> HIDE DEF ss
<1>6. c \in [0 .. Len(ss) -> Nat]
  BY <1>2, <1>5
<1>7. \A k \in 1 .. Len(ss) : c[k] = c[k-1] + Len(ss[k])
  BY <1>2, <1>4, <1>5
<1>8. Joined(all, ss, c, n) /\ all \in Seq(InstType)
  BY <1>5, <1>6, <1>7, FlattenJoined, FlattenType
<1> HIDE DEF all, n
<1>9. Len(all) = c[n] - c[0] /\ Len(all) \in Nat
  BY <1>8 DEF Joined
<1>10. l = Len(all)
  BY <1>9 DEF Min2, n
<1>11. batch' = all
  BY <1>3, <1>8, <1>9, <1>10
<1>12. ASSUME NEW p \in 1 .. Len(all)
       PROVE  \E i \in 1 .. n : \E j \in 1 .. Size(TBs, selected[i]) :
                /\ p + c[0] = c[i-1] + j
                /\ all[p] = CopyInst(selected[i], selected[i].begin + j - 1)
  <2>1. PICK i \in 1 .. n : \E j \in 1 .. Len(ss[i]) :
               p + c[0] = c[i-1] + j /\ all[p] = ss[i][j]
    BY <1>8 DEF Joined
  <2>2. /\ Len(ss[i]) = Size(TBs, selected[i])
        /\ \A j \in 1 .. Size(TBs, selected[i]) :
             ss[i][j] = CopyInst(selected[i], selected[i].begin + j - 1)
    BY <1>4, <1>5
  <2> QED
    BY <2>1, <2>2
<1> QED
  BY <1>8, <1>9, <1>11, <1>12 DEF n

\* What the worker is given for the p-th instruction of a batch.
Given(b, rd, p) == [ex |-> b[p].ex, pos |-> b[p].pos, mem |-> b[p].mem,
                    last |-> rd /\ p = Len(b)]

\* The copy of an instruction of a slice says of it what the slice says.
LEMMA CopiedInst ==
  ASSUME NEW s, \A m \in s.mem : m >= s.begin, NEW p
  PROVE  LET x == CopyInst(s, p)
         IN  x.ex = s.ex /\ x.pos = p /\ x.mem = (p \in s.mem)
<1> DEFINE u == (p \in s.mem /\ \A m \in s.mem : m < p => m >= s.begin)
           v == (p \in s.mem)
           x == CopyInst(s, p)
<1>1. x = [ex |-> s.ex, pos |-> p, index |-> s.index, gen |-> TBs[s.index].gen,
           mem |-> u, begins |-> p \in TBs[s.index].beginMarks,
           ends |-> p \in TBs[s.index].endMarks]
  BY DEF CopyInst
<1>2. (u <=> v) /\ u \in BOOLEAN /\ v \in BOOLEAN
  OBVIOUS
<1> HIDE DEF u, v
<1>3. u = v
  BY ONLY <1>2
<1>4. x.ex = s.ex /\ x.pos = p /\ x.mem = u
  BY <1>1
<1> QED
  BY <1>3, <1>4 DEF v

\* The last instruction of a batch that ends a region is the last one of the slice
\* that ends it.
LEMMA LastOfBatch ==
  ASSUME NEW M, NEW t \in Seq(M), NEW T, NEW q \in Seq(SliceType), NEW c, Cuts(T, t, q, c),
         \A k \in 1 .. (Len(q) - 1) : q[k].region = NoRegion,
         NEW i \in 1 .. Len(q), NEW j \in 1 .. Size(T, q[i]), NEW p \in Nat,
         p + c[0] = c[i-1] + j
  PROVE  (q[Len(q)].region # NoRegion /\ p = c[Len(q)] - c[0])
           <=> (q[i].region # NoRegion /\ j = Size(T, q[i]))
<1> DEFINE n == Len(q)
           z == Size(T, q[i])
<1>1. /\ c \in [0 .. n -> 0 .. Len(t)] /\ n \in Nat /\ Len(t) \in Nat
      /\ \A k \in 1 .. n : /\ c[k] = c[k-1] + Size(T, q[k]) /\ Size(T, q[k]) \in Nat
                           /\ q[k].region # NoRegion => Size(T, q[k]) > 0
  BY DEF Cuts, Spelled
<1>2. /\ i \in 1 .. n /\ j \in 1 .. z /\ z \in Nat /\ c[i] = c[i-1] + z
      /\ n \in 1 .. n /\ c[n] = c[n-1] + Size(T, q[n]) /\ Size(T, q[n]) \in Nat
      /\ q[n].region # NoRegion => Size(T, q[n]) > 0
  <2>1. i \in 1 .. n /\ n \in 1 .. n
    BY <1>1
  <2> QED
    BY <1>1, <2>1
<1>3. /\ c[0] \in Nat /\ c[i] \in Nat /\ c[i-1] \in Nat /\ c[n] \in Nat /\ c[n-1] \in Nat
  <2>1. 0 \in 0 .. n /\ i \in 0 .. n /\ i - 1 \in 0 .. n /\ n \in 0 .. n /\ n - 1 \in 0 .. n
    BY <1>1, <1>2
  <2>2. \A k \in 0 .. n : c[k] \in 0 .. Len(t)
    BY <1>1
  <2>3. \A k \in 0 .. Len(t) : k \in Nat
    BY <1>1
  <2> QED
    BY <2>1, <2>2, <2>3
<1>4. CASE i = n
  <2>1. p = c[n] - c[0] <=> j = z
    <3> DEFINE x == c[i-1]
               y == c[0]
               w == c[n]
    <3>1. /\ w = x + z /\ p + y = x + j /\ p \in Nat /\ j \in Nat /\ z \in Nat
          /\ x \in Nat /\ y \in Nat /\ w \in Nat
      BY <1>2, <1>3, <1>4
    <3> HIDE DEF n, z, x, y, w
    <3>2. p = w - y <=> j = z
      BY ONLY <3>1
    <3> QED
      BY <3>2 DEF w, y
  <2> QED
    BY <1>4, <2>1
<1>5. CASE i # n
  <2>1. i \in 1 .. (n - 1) /\ n - 1 \in 0 .. n /\ i \in 0 .. (n - 1)
    BY <1>1, <1>5
  <2>2. q[i].region = NoRegion
    BY <2>1
  <2>3. c[i] <= c[n-1]
    <3> DEFINE e == n - 1
    <3>1. e \in 0 .. Len(q) /\ i \in 0 .. e
      BY <2>1
    <3> HIDE DEF e, n
    <3>2. c[i] <= c[e]
      BY <3>1, CutsUp
    <3> QED
      BY <3>2 DEF e
  <2>4. ASSUME q[n].region # NoRegion, p = c[n] - c[0] PROVE FALSE
    <3> DEFINE x == c[i-1]
               y == c[0]
               w == c[n]
               v == c[n-1]
               u == Size(T, q[n])
    <3>1. /\ u > 0 /\ p = w - y /\ p + y = x + j /\ w = v + u /\ u \in Nat
      BY <1>2, <2>4
    <3>2. x + z <= v /\ j \in 1 .. z /\ z \in Nat
      BY <1>2, <2>3
    <3>3. x \in Nat /\ y \in Nat /\ w \in Nat /\ v \in Nat
      BY <1>3
    <3> HIDE DEF n, z, x, y, w, v, u
    <3> QED
      BY ONLY <3>1, <3>2, <3>3
  <2> QED
    BY <2>2, <2>4
<1> QED
  BY <1>4, <1>5

\* The elements of a sequence that another one is appended to.
LEMMA JoinFacts ==
  ASSUME NEW M, NEW s \in Seq(M), NEW t \in Seq(M), NEW a, a = Len(s), NEW b, b = Len(t)
  PROVE  /\ s \o t \in Seq(M) /\ Len(s \o t) = a + b
         /\ \A p \in 1 .. a : (s \o t)[p] = s[p]
         /\ \A p \in (a + 1) .. (a + b) : (s \o t)[p] = t[p - a]
OBVIOUS

\* So a batch continues what was delivered as the trace goes on.
LEMMA DeliverStream ==
  ASSUME DInv, FetchDeliver, delivered \in Seq(TraceInsts), trace \in Seq(TraceInsts),
         Extends(delivered, trace), NEW c, Cuts(TBs, trace, selected, c),
         c[0] = Len(delivered), c[Len(selected)] - c[0] <= Chunk,
         \A k \in 1 .. (Len(selected) - 1) : selected[k].region = NoRegion
  PROVE  /\ delivered' \in Seq(TraceInsts) /\ Extends(delivered', trace)
         /\ Len(delivered') = c[Len(selected)] /\ Len(delivered) <= Len(delivered')
         /\ \A k \in (Len(delivered) + 1) .. (Len(delivered') - 1) : ~delivered'[k].last
<1> DEFINE n == Len(selected)
           rd == selected[Len(selected)].region # NoRegion
           b == batch'
           D == [p \in DOMAIN b |-> Given(b, rd, p)]
           dl == Len(delivered)
<1>1. /\ b \in Seq(InstType) /\ Len(b) = c[n] - c[0]
      /\ \A p \in 1 .. Len(b) :
           \E i \in 1 .. n : \E j \in 1 .. Size(TBs, selected[i]) :
             /\ p + c[0] = c[i-1] + j
             /\ b[p] = CopyInst(selected[i], selected[i].begin + j - 1)
  <2>1. /\ DInv /\ FetchDeliver /\ trace \in Seq(TraceInsts) /\ Cuts(TBs, trace, selected, c)
        /\ c[Len(selected)] - c[0] <= Chunk
    OBVIOUS
  <2> QED
    BY ONLY <2>1, DeliverAll
<1>2. delivered' = delivered \o D
  <2> DEFINE Copy(s) == [k \in DOMAIN Positions(s) |-> CopyInst(s, Positions(s)[k])]
             all == FlattenSeq([j \in DOMAIN selected |-> Copy(selected[j])])
             mcis == SubSeq(all, 1, Min2(Len(all), Chunk))
  <2>1. b = mcis
    BY DEF FetchDeliver
  <2>2. delivered' = delivered \o [p \in DOMAIN mcis |-> Given(mcis, rd, p)]
    BY DEF FetchDeliver, Given
  <2> HIDE DEF mcis, b
  <2> QED
    BY <2>1, <2>2
<1>3. /\ selected \in Seq(SliceType) /\ n \in Nat
      /\ c \in [0 .. n -> 0 .. Len(trace)] /\ Len(trace) \in Nat
      /\ \A k \in 1 .. n : Spelled(TBs, trace, selected[k], c[k-1])
                           /\ c[k] = c[k-1] + Size(TBs, selected[k])
  BY DEF DInv, Types, Cuts
<1>4. c[0] = dl /\ dl \in Nat /\ c[n] \in 0 .. Len(trace)
  <2>1. n \in 0 .. n
    BY <1>3
  <2> QED
    BY <1>3, <2>1
<1> HIDE DEF b
<1>5. ASSUME NEW p \in 1 .. Len(b) PROVE Given(b, rd, p) = trace[dl+p]
  <2>0. PICK i \in 1 .. n : \E j \in 1 .. Size(TBs, selected[i]) :
             /\ p + c[0] = c[i-1] + j
             /\ b[p] = CopyInst(selected[i], selected[i].begin + j - 1)
    BY <1>1
  <2>1. PICK j \in 1 .. Size(TBs, selected[i]) :
             /\ p + c[0] = c[i-1] + j
             /\ b[p] = CopyInst(selected[i], selected[i].begin + j - 1)
    BY <2>0
  <2> DEFINE s == selected[i]
             k == s.begin + j - 1
             l1 == (rd /\ p = Len(b))
             l2 == (s.region # NoRegion /\ j = Size(TBs, s))
  <2>2. /\ Spelled(TBs, trace, s, c[i-1]) /\ s \in SliceType
    BY <1>3
  <2>3. trace[c[i-1]+j] = SliceInst(TBs, s, j)
    BY <2>2 DEF Spelled
  <2>4. \A m \in s.mem : m >= s.begin
    BY <2>2 DEF Spelled
  <2>5. b[p] = CopyInst(s, k)
    BY <2>1
  <2>6. b[p].ex = s.ex /\ b[p].pos = k /\ b[p].mem = (k \in s.mem)
    <3> HIDE DEF s, k
    <3> QED BY <2>4, <2>5, CopiedInst
  <2>7. l1 <=> l2
    <3>1. p \in Nat /\ Len(b) = c[Len(selected)] - c[0]
      BY <1>1
    <3>2. (rd /\ p = c[Len(selected)] - c[0]) <=> l2
      <4>1. /\ trace \in Seq(TraceInsts) /\ selected \in Seq(SliceType)
            /\ Cuts(TBs, trace, selected, c)
            /\ \A x \in 1 .. (Len(selected) - 1) : selected[x].region = NoRegion
            /\ i \in 1 .. Len(selected) /\ j \in 1 .. Size(TBs, selected[i])
            /\ p + c[0] = c[i-1] + j
        BY <1>3, <2>1
      <4> QED
        BY ONLY <3>1, <4>1, LastOfBatch
    <3> QED
      BY <3>1, <3>2
  <2>8. l1 = l2
    <3>1. l1 \in BOOLEAN /\ l2 \in BOOLEAN
      OBVIOUS
    <3> HIDE DEF l1, l2
    <3> QED
      BY ONLY <2>7, <3>1
  <2>9. Given(b, rd, p) = [ex |-> b[p].ex, pos |-> b[p].pos, mem |-> b[p].mem, last |-> l1]
    BY DEF Given
  <2>10. SliceInst(TBs, s, j) = [ex |-> s.ex, pos |-> k, mem |-> k \in s.mem, last |-> l2]
    BY DEF SliceInst
  <2>11. dl + p = c[i-1] + j
    <3>1. i - 1 \in 0 .. n
      BY <1>3
    <3>2. c[i-1] \in 0 .. Len(trace)
      BY <1>3, <3>1
    <3>3. dl + p = p + dl
      BY <1>4
    <3> QED
      BY <1>4, <2>1, <3>3
  <2> HIDE DEF l1, l2, k, s, rd
  <2> QED
    BY <2>3, <2>6, <2>8, <2>9, <2>10, <2>11
<1> DEFINE m == Len(b)
<1>6. DOMAIN b = 1 .. m /\ m \in Nat /\ m = c[n] - dl /\ dl + m \in 0 .. Len(trace)
      /\ dl + m = c[n]
  BY <1>1, <1>3, <1>4
<1>7. D = [p \in 1 .. m |-> D[p]] /\ \A p \in 1 .. m : D[p] = trace[dl+p]
  <2> HIDE DEF rd
  <2> QED BY <1>5, <1>6
<1>8. ASSUME NEW p \in 1 .. m PROVE D[p] \in TraceInsts
  <2> DEFINE x == dl + p
  <2> HIDE DEF D
  <2>1. x \in 1 .. Len(trace)
    BY <1>4, <1>6
  <2> HIDE DEF x
  <2>2. trace[x] \in TraceInsts
    BY <2>1
  <2> QED
    BY <1>7, <2>2 DEF x
<1> HIDE DEF D, m, dl
<1>9. D \in Seq(TraceInsts) /\ Len(D) = m
  <2> HIDE DEF TraceInsts
  <2>1. D \in [1 .. m -> TraceInsts]
    BY <1>7, <1>8
  <2>2. m \in Nat
    BY <1>6
  <2>3. D \in Seq(TraceInsts)
    BY ONLY <2>1, <2>2
  <2>4. DOMAIN D = 1 .. m
    BY ONLY <2>1
  <2> QED
    BY ONLY <2>2, <2>3, <2>4
<1>10. /\ delivered' \in Seq(TraceInsts) /\ Len(delivered') = dl + m
       /\ \A p \in 1 .. dl : delivered'[p] = delivered[p]
       /\ \A p \in (dl + 1) .. (dl + m) : delivered'[p] = D[p - dl]
  <2> HIDE DEF TraceInsts
  <2>1. delivered \in Seq(TraceInsts) /\ dl = Len(delivered) /\ delivered' = delivered \o D
    BY <1>2 DEF dl
  <2> QED
    BY ONLY <1>9, <2>1, JoinFacts
<1>11. ASSUME NEW p \in 1 .. (dl + m) PROVE trace[p] = delivered'[p]
  <2>1. CASE p <= dl
    <3>1. p \in 1 .. dl
      BY <1>4, <2>1
    <3> QED
      BY <1>10, <3>1 DEF Extends, dl
  <2>2. CASE ~(p <= dl)
    <3> DEFINE x == p - dl
    <3>1. x \in 1 .. m /\ dl + x = p /\ p \in (dl + 1) .. (dl + m)
      BY <1>4, <1>6, <2>2
    <3>2. delivered'[p] = D[x]
      BY <1>10, <3>1
    <3> HIDE DEF x
    <3>3. D[x] = trace[dl+x]
      BY <1>7, <3>1
    <3> QED
      BY <3>1, <3>2, <3>3
  <2> QED
    BY <2>1, <2>2
<1>12. Extends(delivered', trace)
  BY <1>3, <1>6, <1>10, <1>11 DEF Extends
<1>13. ASSUME NEW p \in (dl + 1) .. (dl + m - 1) PROVE ~delivered'[p].last
  <2> DEFINE x == p - dl
             l == (rd /\ x = m)
  <2>1. x \in 1 .. m /\ x # m /\ p \in (dl + 1) .. (dl + m)
    <3>1. dl \in Nat /\ m \in Nat
      BY <1>4, <1>6
    <3> QED
      BY ONLY <1>13, <3>1
  <2>2. delivered'[p] = D[x]
    BY ONLY <1>10, <2>1
  <2>3. D[x] = Given(b, rd, x)
    <3> HIDE DEF rd, x
    <3> QED BY <1>6, <2>1 DEF D
  <2>4. Given(b, rd, x) = [ex |-> b[x].ex, pos |-> b[x].pos, mem |-> b[x].mem, last |-> l]
    BY DEF Given, m
  <2>5. ~l
    BY <2>1
  <2> HIDE DEF l, x, rd
  <2> QED
    BY <2>2, <2>3, <2>4, <2>5
<1>14. dl + m - 1 = Len(delivered') - 1 /\ dl <= Len(delivered')
  BY <1>4, <1>6, <1>10
<1> QED
  BY <1>6, <1>10, <1>12, <1>13, <1>14 DEF n, dl

-----------------------------------------------------------------------------
(* What is delivered is a prefix of the trace.                             *)

\* The trace is what was delivered, what is selected (up to x), what is queued
\* (up to y) and the slice that is being queued, in this order.
Laid(x, y) ==
  /\ Covers(TBs, trace, selected, Len(delivered), x)
  /\ Covers(TBs, trace, TBQueue, x, y)
  /\ x - Len(delivered) <= Chunk
  /\ rpc = "enqueue" => Spelled(TBs, trace, slice, y) /\ y + Size(TBs, slice) = Len(trace)
  /\ rpc # "enqueue" => y = Len(trace)

\* The inductive invariant behind StreamStaysInOrder.  The trace is cut as Laid
\* says; what is selected fits into MCIS; the region the guest is in is the one
\* the broker takes to be open; and only the last selected slice may end a region,
\* for the flag of a batch is about its last instruction.
TInv ==
  /\ trace \in Seq(TraceInsts) /\ delivered \in Seq(TraceInsts)
  /\ Extends(delivered, trace)
  /\ CodeStartAddress \in {0, LoadAddr}
  /\ Mode = "trim" => inRegion = CurBinRegion
  /\ \A k \in 1 .. (Len(selected) - 1) : selected[k].region = NoRegion
  /\ wpc # "deliver" => selected = <<>>
  /\ \E x, y \in 0 .. Len(trace) : Laid(x, y)

\* The invariant holds at the start.
LEMMA InitTInv == Init => TInv
<1> SUFFICES ASSUME Init PROVE TInv
  OBVIOUS
<1>1. /\ trace = <<>> /\ delivered = <<>> /\ selected = <<>> /\ TBQueue = <<>>
      /\ rpc = "accept" /\ CodeStartAddress = 0 /\ inRegion = NoRegion
      /\ CurBinRegion = NoRegion
  BY DEF Init
<1>2. trace \in Seq(TraceInsts) /\ Len(trace) = 0 /\ Len(delivered) = 0
      /\ delivered \in Seq(TraceInsts) /\ Len(selected) = 0 /\ 0 \in 0 .. Len(trace)
  <2> HIDE DEF TraceInsts
  <2> QED BY <1>1
<1>3. Covers(TBs, trace, <<>>, 0, 0)
  <2> HIDE DEF TraceInsts
  <2> QED BY <1>2, CoversNone
<1>4. 0 - 0 <= Chunk
  BY BrokerAssumption DEF NoEnd
<1>5. Laid(0, 0)
  BY <1>1, <1>2, <1>3, <1>4 DEF Laid
<1>6. Extends(delivered, trace)
  BY <1>2 DEF Extends
<1> QED
  BY <1>1, <1>2, <1>5, <1>6 DEF TInv

\* A step that leaves ready TBs alone keeps the lengths of the TBs of all slices.
LEMMA SameSizes ==
  ASSUME DInv, Stays
  PROVE  /\ SameLengths(TBs, TBs', TBQueue) /\ SameLengths(TBs, TBs', selected)
         /\ rpc = "enqueue" => TBs'[slice.index].mcinsts = TBs[slice.index].mcinsts
<1>1. \A i : Ready(i) => TBs'[i].mcinsts = TBs[i].mcinsts
  BY ReadyStays DEF DInv
<1>2. /\ \A k \in 1 .. Len(TBQueue) : Ready(TBQueue[k].index)
      /\ \A k \in 1 .. Len(selected) : Ready(selected[k].index)
      /\ rpc = "enqueue" => Ready(slice.index)
  BY DEF DInv, Types, AllReady
<1> QED
  BY <1>1, <1>2 DEF SameLengths

\* What is selected and queued still holds what it held when the trace goes on
\* and the TBs that are ready are left alone.
LEMMA LaidStill ==
  ASSUME DInv, TInv, Stays, UNCHANGED <<TBQueue, selected, delivered>>,
         trace' \in Seq(TraceInsts), Extends(trace, trace'), NEW x, NEW y, Laid(x, y)
  PROVE  /\ Covers(TBs', trace', selected', Len(delivered'), x)
         /\ Covers(TBs', trace', TBQueue', x, y)
<1>1. /\ trace \in Seq(TraceInsts) /\ trace' \in Seq(TraceInsts) /\ Extends(trace, trace')
      /\ TBQueue \in Seq(SliceType) /\ selected \in Seq(SliceType)
      /\ TBQueue' = TBQueue /\ selected' = selected /\ delivered' = delivered
  BY DEF TInv, DInv, Types
<1>2. SameLengths(TBs, TBs', TBQueue) /\ SameLengths(TBs, TBs', selected)
  BY SameSizes
<1>3. /\ Covers(TBs, trace, selected, Len(delivered), x)
      /\ Covers(TBs, trace, TBQueue, x, y)
  BY DEF Laid
<1>4. Covers(TBs', trace', selected, Len(delivered), x)
  BY ONLY <1>1, <1>2, <1>3, CoversStill
<1>5. Covers(TBs', trace', TBQueue, x, y)
  BY ONLY <1>1, <1>2, <1>3, CoversStill
<1> QED
  BY <1>1, <1>4, <1>5

\* A sequence is its own beginning.
LEMMA ExtendsSelf ==
  ASSUME NEW M, NEW t \in Seq(M)
  PROVE  Extends(t, t)
<1>1. Len(t) \in Nat
  OBVIOUS
<1> QED
  BY <1>1 DEF Extends

\* A step that leaves ready TBs, the queue, the selection and the histories alone
\* keeps TInv.
LEMMA KeepTInv ==
  ASSUME DInv, TInv, Stays,
         UNCHANGED <<TBQueue, selected, delivered, trace, inRegion, CurBinRegion>>,
         rpc' = "enqueue" <=> rpc = "enqueue", rpc' = "enqueue" => slice' = slice,
         CodeStartAddress' \in {0, LoadAddr}, wpc' # "deliver" => wpc # "deliver"
  PROVE  TInv'
<1>1. PICK x \in 0 .. Len(trace), y \in 0 .. Len(trace) : Laid(x, y)
  BY DEF TInv
<1>2. trace \in Seq(TraceInsts) /\ trace' = trace /\ delivered' = delivered
      /\ delivered \in Seq(TraceInsts)
  BY DEF TInv
<1>3. Extends(trace, trace')
  BY <1>2, ExtendsSelf
<1>4. /\ Covers(TBs', trace', selected', Len(delivered'), x)
      /\ Covers(TBs', trace', TBQueue', x, y)
  BY <1>1, <1>2, <1>3, LaidStill
<1>5. ASSUME rpc' = "enqueue"
      PROVE  Spelled(TBs', trace', slice', y) /\ y + Size(TBs', slice') = Len(trace')
  <2>1. rpc = "enqueue" /\ slice' = slice
    BY <1>5
  <2>2. Spelled(TBs, trace, slice, y) /\ y + Size(TBs, slice) = Len(trace)
    BY <1>1, <2>1 DEF Laid
  <2>3. TBs'[slice.index].mcinsts = TBs[slice.index].mcinsts
    BY <2>1, SameSizes
  <2>4. y \in Nat /\ Len(trace) \in Nat /\ trace' \in Seq(TraceInsts)
    BY <1>2
  <2>5. y + Size(TBs, slice) <= Len(trace)
    BY <2>2, <2>4
  <2>6. Spelled(TBs', trace', slice, y) /\ Size(TBs', slice) = Size(TBs, slice)
    BY ONLY <1>2, <1>3, <2>2, <2>3, <2>4, <2>5, SpelledStill
  <2> QED
    BY <1>2, <2>1, <2>2, <2>6
<1>6. Laid(x, y)'
  BY <1>1, <1>2, <1>4, <1>5 DEF Laid
<1> QED
  BY <1>1, <1>2, <1>6 DEF TInv, Extends

\* tbExec: the trace goes on with what the new slice holds.
LEMMA ExecTInv ==
  ASSUME StreamFit, DInv, TInv, NEW i \in TBIndex, TbExec(i, TBs[i].raw.mem)
  PROVE  TInv' /\ Extends(trace, trace')
<1> DEFINE tb == TBs'[i]
           s == slice'
           W == Traced(tb)
<1>0. Types /\ TBOK(TBs[i]) /\ execs \in Nat /\ CurBinRegion \in RegionOrNone
  BY DEF DInv, Types, RegionOrNone
<1>1. /\ Stays /\ tb = Decoded(TBs[i]) /\ s = SliceOf(i, tb, TBs[i].raw.mem)
      /\ s \in SliceType /\ s.index = i
  BY <1>0, ExecStays
<1>2. /\ rpc = "read" /\ TBs[i].gen # 0 /\ UNCHANGED <<TBQueue, selected, delivered, wpc>>
      /\ rpc' = IF s.begin = s.end THEN "read" ELSE "enqueue"
      /\ trace' = trace \o W
      /\ CodeStartAddress' = CodeStartAddress
      /\ Mode = "trim" => /\ inRegion' = OpenRegion(tb)[NumInsts(tb.raw)]
                          /\ CurBinRegion' = HandleBinaryRegions(tb).cur
  <2>1. tb = Decoded(TBs[i])
    BY <1>1
  <2> HIDE DEF tb
  <2> QED
    BY <2>1 DEF TbExec, sharedVars, workVars
<1>3. DecodedTB(tb) /\ tb.raw = TBs[i].raw
  <2>1. /\ TBOK(tb) /\ tb.gen = TBs[i].gen /\ tb.raw = TBs[i].raw
        /\ tb.mcinsts = NumInsts(TBs[i].raw) /\ tb.skew = SkewIndex(TBs[i].raw)
    BY <1>0, <1>1, <1>2, DecodedFacts
  <2>2. tb.raw \in Blocks
    BY <1>0, <1>2, <2>1 DEF TBOK
  <2> QED
    BY <2>1, <2>2 DEF DecodedTB
<1>4. CodeStartAddress \in {0, LoadAddr} /\ (Mode = "trim" => inRegion = CurBinRegion)
  BY DEF TInv
<1>5. /\ W \in Seq(TraceInsts)
      /\ s.begin = s.end => Len(W) = 0
      /\ s.begin # s.end =>
           /\ Size(TBs', s) \in Nat /\ Len(W) = Size(TBs', s)
           /\ s.region # NoRegion => Size(TBs', s) > 0
           /\ \A m \in s.mem : m >= s.begin
           /\ \A j \in 1 .. Size(TBs', s) : W[j] = SliceInst(TBs', s, j)
  <2>1. s = SliceOf(i, tb, tb.raw.mem) /\ TBs'[i] = tb
    BY <1>1, <1>3
  <2> HIDE DEF tb, s
  <2> QED
    BY <1>0, <1>3, <1>4, <2>1, SliceTraced
<1>6. Mode = "trim" => inRegion' = CurBinRegion'
  <2> SUFFICES ASSUME Mode = "trim" PROVE inRegion' = CurBinRegion'
    OBVIOUS
  <2>1. OpenRegion(tb)[tb.mcinsts] = HandleBinaryRegions(tb).cur
    <3> HIDE DEF tb
    <3> QED BY <1>0, <1>3, <1>4, ScanFacts
  <2>2. tb.mcinsts = NumInsts(tb.raw)
    BY <1>3 DEF DecodedTB
  <2> QED
    BY <1>2, <2>1, <2>2
<1> HIDE DEF W, tb, s, TraceInsts
<1>7. trace \in Seq(TraceInsts) /\ delivered \in Seq(TraceInsts) /\ Extends(delivered, trace)
  BY DEF TInv
<1> DEFINE l == Len(trace)
           w == Len(W)
<1>8. /\ trace' \in Seq(TraceInsts) /\ l \in Nat /\ w \in Nat
      /\ Len(trace') = l + w
      /\ \A k \in 1 .. l : trace'[k] = trace[k]
      /\ \A k \in (l + 1) .. (l + w) : trace'[k] = W[k - l]
  BY <1>2, <1>5, <1>7
<1>9. Extends(trace, trace')
  BY <1>8 DEF Extends
<1>10. PICK x \in 0 .. l, y \in 0 .. l : Laid(x, y)
  BY DEF TInv
<1>11. /\ Covers(TBs', trace', selected', Len(delivered'), x)
       /\ Covers(TBs', trace', TBQueue', x, y)
  BY <1>1, <1>2, <1>8, <1>9, <1>10, LaidStill
<1>12. y = l
  BY <1>2, <1>10 DEF Laid
<1>13. ASSUME rpc' = "enqueue"
       PROVE  Spelled(TBs', trace', s, y) /\ y + Size(TBs', s) = Len(trace')
  <2>1. s.begin # s.end
    BY <1>2, <1>13
  <2>2. /\ Size(TBs', s) \in Nat /\ w = Size(TBs', s)
        /\ s.region # NoRegion => Size(TBs', s) > 0
        /\ \A m \in s.mem : m >= s.begin
        /\ \A j \in 1 .. Size(TBs', s) : W[j] = SliceInst(TBs', s, j)
    BY <1>5, <2>1
  <2>3. ASSUME NEW j \in 1 .. Size(TBs', s) PROVE trace'[y+j] = SliceInst(TBs', s, j)
    <3> DEFINE p == l + j
    <3>1. p \in (l + 1) .. (l + w) /\ p - l = j
      BY <1>8, <2>2
    <3> HIDE DEF p
    <3>2. trace'[p] = W[j]
      BY <1>8, <3>1
    <3> QED
      BY <1>12, <2>2, <3>2 DEF p
  <2>4. Spelled(TBs', trace', s, y)
    BY <2>2, <2>3 DEF Spelled
  <2> QED
    BY <1>8, <1>12, <2>2, <2>4
<1>14. rpc' # "enqueue" => y = Len(trace')
  BY <1>2, <1>5, <1>8, <1>12
<1>15. x - Len(delivered) <= Chunk
  BY <1>10 DEF Laid
<1>16. Laid(x, y)'
  BY <1>2, <1>11, <1>13, <1>14, <1>15 DEF Laid, s
<1>17. x \in 0 .. Len(trace') /\ y \in 0 .. Len(trace')
  BY <1>8, <1>10
<1>18. Extends(delivered, trace')
  <2>1. Len(delivered) <= l /\ Len(delivered) \in Nat
    BY <1>7 DEF Extends
  <2>2. \A k \in 1 .. Len(delivered) : trace[k] = delivered[k] /\ k \in 1 .. l
    BY <1>7, <1>8, <2>1 DEF Extends
  <2> QED
    BY <1>8, <2>1, <2>2 DEF Extends
<1>19. /\ \A k \in 1 .. (Len(selected') - 1) : selected'[k].region = NoRegion
       /\ wpc' # "deliver" => selected' = <<>>
  BY <1>2 DEF TInv
<1> QED
  BY <1>2, <1>4, <1>6, <1>7, <1>8, <1>9, <1>16, <1>17, <1>18, <1>19 DEF TInv

\* The slice that is queued follows what is in the queue.
LEMMA EnqueueTInv ==
  ASSUME DInv, TInv, Enqueue
  PROVE  TInv'
<1>1. /\ rpc = "enqueue" /\ rpc' = "notify" /\ TBQueue' = Append(TBQueue, slice)
      /\ UNCHANGED <<TBs, CodeStartAddress, CurBinRegion, wpc, selected, delivered, trace,
                     inRegion>>
  BY DEF Enqueue, workVars, histVars
<1>2. PICK x \in 0 .. Len(trace), y \in 0 .. Len(trace) : Laid(x, y)
  BY DEF TInv
<1>3. /\ trace \in Seq(TraceInsts) /\ TBQueue \in Seq(SliceType) /\ slice \in SliceType
  BY <1>1 DEF TInv, DInv, Types
<1>4. /\ Covers(TBs, trace, TBQueue, x, y) /\ Spelled(TBs, trace, slice, y)
      /\ y + Size(TBs, slice) = Len(trace)
  BY <1>1, <1>2 DEF Laid
<1>5. Len(trace) \in Nat /\ y + Size(TBs, slice) <= Len(trace)
  <2> HIDE DEF TraceInsts
  <2>1. Len(trace) \in Nat
    BY <1>3
  <2> QED
    BY <1>4, <2>1
<1>6. Covers(TBs, trace, Append(TBQueue, slice), x, y + Size(TBs, slice))
  BY ONLY <1>3, <1>4, <1>5, CoversAppend
<1>7. PICK z \in 0 .. Len(trace) : Covers(TBs, trace, TBQueue', x, z) /\ z = Len(trace)
  BY <1>1, <1>4, <1>5, <1>6
<1>8. /\ Covers(TBs, trace, selected, Len(delivered), x)
      /\ x - Len(delivered) <= Chunk
  BY <1>2 DEF Laid
<1>9. Laid(x, z)'
  <2>1. /\ Covers(TBs', trace', selected', Len(delivered'), x)
        /\ Covers(TBs', trace', TBQueue', x, z)
        /\ x - Len(delivered') <= Chunk
        /\ rpc' # "enqueue" /\ z = Len(trace')
    BY ONLY <1>1, <1>7, <1>8
  <2> QED
    BY ONLY <2>1 DEF Laid
<1>10. \E u, v \in 0 .. Len(trace') : Laid(u, v)'
  <2>1. x \in 0 .. Len(trace') /\ z \in 0 .. Len(trace')
    BY <1>1, <1>2, <1>7
  <2> QED
    BY <1>9, <2>1
<1> QED
  BY <1>1, <1>10 DEF TInv

\* What is selected is delivered.
LEMMA DeliverTInv ==
  ASSUME DInv, TInv, FetchDeliver
  PROVE  TInv'
<1>1. /\ UNCHANGED <<rpc, slice, TBs, CodeStartAddress, CurBinRegion, TBQueue, trace, inRegion>>
      /\ selected' = <<>> /\ wpc' = "convert"
  BY DEF FetchDeliver, recvVars, sharedVars, histVars
<1>2. PICK x \in 0 .. Len(trace), y \in 0 .. Len(trace) : Laid(x, y)
  BY DEF TInv
<1>3. /\ trace \in Seq(TraceInsts) /\ delivered \in Seq(TraceInsts)
      /\ Extends(delivered, trace)
      /\ \A k \in 1 .. (Len(selected) - 1) : selected[k].region = NoRegion
  BY DEF TInv
<1>4. PICK c : /\ Cuts(TBs, trace, selected, c)
               /\ c[0] = Len(delivered) /\ c[Len(selected)] = x
  BY <1>2 DEF Laid, Covers
<1>5. c[Len(selected)] - c[0] <= Chunk
  BY <1>2, <1>4 DEF Laid
<1>6. DInv /\ FetchDeliver
  OBVIOUS
<1>7. /\ delivered' \in Seq(TraceInsts) /\ Extends(delivered', trace)
      /\ Len(delivered') = x
  <2>1. /\ delivered' \in Seq(TraceInsts) /\ Extends(delivered', trace)
        /\ Len(delivered') = c[Len(selected)]
    BY ONLY <1>3, <1>4, <1>5, <1>6, DeliverStream
  <2> QED
    BY <1>4, <2>1
<1>8. Covers(TBs, trace, <<>>, x, x)
  BY <1>2, <1>3, CoversNone
<1>9. x - x <= Chunk
  <2>1. x \in Nat
    BY <1>2
  <2>2. Chunk \in Nat
    BY ONLY BrokerAssumption DEF NoEnd
  <2> QED
    BY ONLY <2>1, <2>2
<1>10. Laid(x, y)'
  BY <1>1, <1>2, <1>7, <1>8, <1>9 DEF Laid
<1>11. Len(selected') = 0
  BY <1>1
<1> QED
  BY <1>1, <1>2, <1>3, <1>7, <1>10, <1>11 DEF TInv

\* A slice that is split goes on in its TB after the cut: a late one is never split.
LEMMA SplitStrict ==
  ASSUME BlocksFit, DInv, SInv, Selects(TBQueue, NumWhole(TBQueue))
  PROVE  LET d == NumWhole(TBQueue)
             s == TBQueue[d+1]
             room == Room(TBQueue)[d]
         IN  /\ d + 1 \in 1 .. Len(TBQueue) /\ s \in SliceType
             /\ TBs[s.index].mcinsts \in Nat /\ room \in Nat \ {0}
             /\ s.begin + room < TBs[s.index].mcinsts /\ s.begin + room < s.end
<1> DEFINE q == TBQueue
           d == NumWhole(q)
           room == Room(q)[d]
           s == q[d+1]
           m == TBs[s.index].mcinsts
<1>1. /\ q \in Seq(SliceType)
      /\ \A k \in 1 .. Len(q) : /\ q[k] \in SliceType
                                /\ Ready(q[k].index)
                                /\ TBs[q[k].index].mcinsts \in Nat
  BY QueueNat
<1>2. /\ d \in 0 .. Len(q) /\ d < Len(q) /\ Len(q) \in Nat
      /\ room \in Nat \ {0} /\ room < SliceLen(s)
      /\ d = 0 => room = Chunk
      /\ d > 0 => q[d].region = NoRegion
  BY <1>1, WholeFacts
<1>3. /\ \A k \in 1 .. Len(q) : Inside(q[k])
      /\ \A k \in 2 .. Len(q) : Late(q[k]) => q[k-1].region # NoRegion
  BY <1>1 DEF SInv
<1>4. d + 1 \in 1 .. Len(q)
  BY <1>2
<1>5. s \in SliceType /\ Ready(s.index) /\ m \in Nat /\ Inside(s)
  BY <1>1, <1>3, <1>4
<1>6. SliceLen(s) \in Int /\ SliceLen(s) <= m /\ SliceLen(s) <= s.end - s.begin
  BY <1>5, SliceLenType
<1>7. m <= Chunk /\ Chunk \in Nat
  <2>1. m <= Chunk
    BY <1>5, ReadyNat DEF BlocksFit, Ready, DInv
  <2>2. Chunk \in Nat
    BY BrokerAssumption DEF NoEnd
  <2> QED
    BY <2>1, <2>2
<1>8. ~Late(s)
  <2>1. CASE d = 0
    BY <1>2, <1>5, <1>6, <1>7, <2>1
  <2>2. CASE d > 0
    <3>1. d + 1 \in 2 .. Len(q) /\ (d + 1) - 1 = d
      BY <1>2, <2>2
    <3> QED
      BY <1>2, <1>3, <2>2, <3>1
  <2> QED
    BY <1>2, <2>1, <2>2
<1>9. s.begin \in Nat /\ s.end \in Nat
  BY <1>5 DEF SliceType
<1> HIDE DEF s, m, room, d
<1>10. s.begin = 0 \/ s.end <= m
  BY <1>5, <1>8, <1>9 DEF Late, Inside, m
<1>11. s.begin + room < m /\ s.begin + room < s.end
  BY <1>2, <1>5, <1>6, <1>9, <1>10
<1> QED
  BY <1>2, <1>4, <1>5, <1>11 DEF s, m, room, d

\* The selection takes whole slices from the front of the queue and a part of the
\* next one, and leaves the rest.
LEMMA SelectTInv ==
  ASSUME BlocksFit, DInv, SInv, TInv, FetchSelect
  PROVE  TInv'
<1> DEFINE q == TBQueue
           n == Len(q)
           d == NumWhole(q)
           sp == Selects(q, d)
           room == Room(q)[d]
           s == q[d+1]
           Q == TBQueue'
           L == selected'
<1>1. /\ UNCHANGED <<rpc, slice, TBs, CodeStartAddress, CurBinRegion, trace, inRegion,
                     delivered>>
      /\ wpc = "fetch" /\ wpc' = "deliver"
  BY DEF FetchSelect, recvVars, histVars
<1>2. PICK x \in 0 .. Len(trace), y \in 0 .. Len(trace) : Laid(x, y)
  BY DEF TInv
<1>3. trace \in Seq(TraceInsts) /\ selected = <<>>
  BY <1>1 DEF TInv
<1>4. x = Len(delivered)
  <2>1. Covers(TBs, trace, <<>>, Len(delivered), x)
    BY <1>2, <1>3 DEF Laid
  <2> QED
    BY ONLY <2>1, NoneCovers
<1>5. PICK c : Cuts(TBs, trace, q, c) /\ c[0] = x /\ c[n] = y
  BY <1>2 DEF Laid, Covers
<1>6. /\ q \in Seq(SliceType) /\ n \in Nat
      /\ \A k \in 1 .. n : q[k] \in SliceType /\ TBs[q[k].index].mcinsts \in Nat
  BY QueueNat
<1>7. d \in 0 .. n /\ (sp => d < n) /\ Cut(d, sp)
  BY <1>6, SelectFacts
<1>8. Len(trace) \in Nat
  <2> HIDE DEF TraceInsts
  <2> QED BY <1>3
<1>9. room \in Nat /\ c[d] - c[0] <= Chunk - room
  BY ONLY <1>5, <1>6, <1>8, WholeFit
<1>10. \A k \in 1 .. (d - 1) : q[k].region = NoRegion
  <2> SUFFICES ASSUME NEW k \in 1 .. (d - 1) PROVE q[k].region = NoRegion
    OBVIOUS
  <2>1. k \in 0 .. (d - 1) /\ k > 0
    BY <1>7
  <2>2. Selects(q, k)
    BY <1>6, <2>1, WholeFacts
  <2> QED
    BY <2>1, <2>2 DEF Selects
<1>11. sp /\ d > 0 => q[d].region = NoRegion
  BY <1>6, WholeFacts
<1>12. /\ Q \in Seq(SliceType) /\ Len(Q) = n - d
       /\ \A k \in 1 .. Len(Q) : Q[k] = IF sp /\ k = 1 THEN SplitRest(s, room) ELSE q[k+d]
       /\ L \in Seq(SliceType) /\ Len(L) = IF sp THEN d + 1 ELSE d
       /\ \A k \in 1 .. Len(L) : L[k] = IF k = d + 1 THEN SplitTaken(s, room) ELSE q[k]
  BY <1>7 DEF Cut
<1>13. /\ c \in [0 .. n -> 0 .. Len(trace)]
       /\ \A k \in 1 .. n : /\ c[k] = c[k-1] + Size(TBs, q[k])
                            /\ Spelled(TBs, trace, q[k], c[k-1])
  BY <1>5 DEF Cuts
<1>14. c[d] \in 0 .. Len(trace) /\ c[0] \in 0 .. Len(trace) /\ Chunk \in Nat
  <2>1. 0 \in 0 .. n
    BY <1>6
  <2>2. c[d] \in 0 .. Len(trace) /\ c[0] \in 0 .. Len(trace)
    BY <1>7, <1>13, <2>1
  <2>3. Chunk \in Nat
    BY ONLY BrokerAssumption DEF NoEnd
  <2> QED
    BY <2>2, <2>3
<1> SUFFICES ASSUME TRUE
             PROVE  /\ \E w \in 0 .. Len(trace) : /\ Covers(TBs, trace, L, x, w)
                                                  /\ Covers(TBs, trace, Q, w, y)
                                                  /\ w - x <= Chunk
                    /\ \A k \in 1 .. (Len(L) - 1) : L[k].region = NoRegion
  <2>1. PICK w \in 0 .. Len(trace) : /\ Covers(TBs, trace, L, x, w)
                                     /\ Covers(TBs, trace, Q, w, y)
                                     /\ w - x <= Chunk
    OBVIOUS
  <2>2. \A k \in 1 .. (Len(L) - 1) : L[k].region = NoRegion
    OBVIOUS
  <2> HIDE DEF sp, room, s, d
  <2>3. /\ rpc = "enqueue" => Spelled(TBs, trace, slice, y) /\ y + Size(TBs, slice) = Len(trace)
        /\ rpc # "enqueue" => y = Len(trace)
    BY <1>2 DEF Laid
  <2>4. Laid(w, y)'
    BY <1>1, <1>4, <2>1, <2>3 DEF Laid
  <2>5. \E u, v \in 0 .. Len(trace') : Laid(u, v)'
    <3>1. w \in 0 .. Len(trace') /\ y \in 0 .. Len(trace')
      BY <1>1
    <3> QED
      BY <2>4, <3>1
  <2> QED
    BY <1>1, <2>2, <2>5 DEF TInv
<1>15. CASE sp
  <2>1. /\ d + 1 \in 1 .. n /\ s \in SliceType /\ TBs[s.index].mcinsts \in Nat
        /\ room \in Nat \ {0}
        /\ s.begin + room < TBs[s.index].mcinsts /\ s.begin + room < s.end
    BY <1>15, SplitStrict
  <2> DEFINE h == SplitTaken(s, room)
             g == SplitRest(s, room)
             a == c[d]
             w == a + room
  <2>2. Spelled(TBs, trace, s, a) /\ c[d+1] = a + Size(TBs, s) /\ a \in Nat
        /\ c[d+1] \in 0 .. Len(trace) /\ Size(TBs, s) \in Nat
    <3> DEFINE e == d + 1
    <3>1. e \in 1 .. n /\ e \in 0 .. n /\ e - 1 = d
      BY <1>7, <2>1
    <3> HIDE DEF e, d, n
    <3>2. /\ c[e] = c[e-1] + Size(TBs, q[e]) /\ Spelled(TBs, trace, q[e], c[e-1])
          /\ c[e] \in 0 .. Len(trace)
      BY <1>13, <3>1
    <3>3. a \in Nat
      BY <1>8, <1>14
    <3>4. Spelled(TBs, trace, s, a) /\ c[d+1] = a + Size(TBs, s) /\ c[d+1] \in 0 .. Len(trace)
      BY <3>1, <3>2 DEF e
    <3> QED
      BY <3>3, <3>4 DEF Spelled
  <2> HIDE DEF s, room, a
  <2>3. /\ Size(TBs, h) = room /\ Spelled(TBs, trace, h, a) /\ h.region = NoRegion
        /\ Size(TBs, g) = Size(TBs, s) - room /\ Spelled(TBs, trace, g, a + room)
    BY ONLY <2>1, <2>2, SplitSpelled
  <2>4. Size(TBs, g) \in Nat
    BY <2>3 DEF Spelled
  <2> HIDE DEF h, g
  <2>5. w \in 0 .. Len(trace) /\ c[d+1] = w + Size(TBs, g)
    BY <1>8, <2>1, <2>2, <2>3, <2>4
  <2> HIDE DEF d, n
  <2>6. /\ L \in Seq(SliceType) /\ Len(L) = d + 1 /\ L[d+1] = h
        /\ \A k \in 1 .. d : L[k] = q[k]
    <3>1. /\ Len(L) = d + 1 /\ d + 1 \in 1 .. (d + 1)
          /\ \A k \in 1 .. d : k \in 1 .. (d + 1) /\ k # d + 1
      BY <1>7, <1>12, <1>15
    <3>2. \A k \in 1 .. Len(L) : L[k] = IF k = d + 1 THEN h ELSE q[k]
      BY <1>12 DEF h
    <3> QED
      BY <1>12, <3>1, <3>2
  <2>7. Covers(TBs, trace, L, c[0], w)
    <3>1. /\ Spelled(TBs, trace, L[d+1], c[d]) /\ w = c[d] + Size(TBs, L[d+1])
          /\ w \in 0 .. Len(trace) /\ d \in 0 .. Len(q)
      BY <1>7, <2>3, <2>5, <2>6 DEF a, n
    <3> QED
      BY ONLY <1>3, <1>5, <1>6, <2>6, <3>1, CutTaken
  <2>8. Covers(TBs, trace, Q, w, c[n])
    <3>1. Len(Q) = Len(q) - d /\ d \in 0 .. Len(q) /\ d # Len(q) /\ 1 \in 1 .. Len(Q)
      BY <1>6, <1>7, <1>12, <1>15 DEF n
    <3>2. Q[1] = g
      BY <1>12, <1>15, <3>1 DEF g
    <3>3. \A k \in 2 .. Len(Q) : Q[k] = q[k+d]
      <4>1. \A k \in 2 .. Len(Q) : k \in 1 .. Len(Q) /\ k # 1
        BY <3>1
      <4> QED
        BY <1>12, <4>1
    <3>4. /\ d = Len(q) => w = c[d]
          /\ d < Len(q) => Spelled(TBs, trace, Q[1], w) /\ c[d+1] = w + Size(TBs, Q[1])
      BY <2>3, <2>5, <3>1, <3>2
    <3>5. Q \in Seq(SliceType) /\ w \in 0 .. Len(trace)
      BY <1>12, <2>5
    <3>6. Covers(TBs, trace, Q, w, c[Len(q)])
      BY ONLY <1>3, <1>5, <1>6, <3>1, <3>3, <3>4, <3>5, CutBack
    <3> QED
      BY <3>6 DEF n
  <2>9. w - x <= Chunk
    <3>1. a - x <= Chunk - room
      BY <1>5, <1>9 DEF a, room
    <3>2. x \in Nat
      BY <1>2
    <3>3. room \in Nat /\ a \in Nat /\ Chunk \in Nat
      BY <1>14, <2>1, <2>2
    <3> QED
      BY ONLY <3>1, <3>2, <3>3
  <2>10. \A k \in 1 .. (Len(L) - 1) : L[k].region = NoRegion
    <3>1. \A k \in 1 .. (Len(L) - 1) : k \in 1 .. d /\ (k = d \/ k \in 1 .. (d - 1))
      BY <1>7, <2>6
    <3>2. ASSUME NEW k \in 1 .. d, k = d \/ k \in 1 .. (d - 1) PROVE L[k].region = NoRegion
      <4>1. L[k] = q[k]
        BY <2>6
      <4>2. CASE k = d
        BY <1>11, <1>15, <4>1, <4>2
      <4>3. CASE k \in 1 .. (d - 1)
        BY <1>10, <4>1, <4>3
      <4> QED
        BY <3>2, <4>2, <4>3
    <3> QED
      BY <3>1, <3>2
  <2> QED
    BY <1>5, <2>5, <2>7, <2>8, <2>9, <2>10
<1>16. CASE ~sp
  <2> HIDE DEF d, n, sp, room, s
  <2>1. /\ L \in Seq(SliceType) /\ Len(L) = d
        /\ \A k \in 1 .. d : L[k] = q[k]
    <3>1. Len(L) = d /\ \A k \in 1 .. d : k # d + 1
      BY <1>7, <1>12, <1>16
    <3> QED
      BY <1>12, <3>1
  <2>2. Covers(TBs, trace, L, c[0], c[d])
    <3>1. d \in 0 .. Len(q)
      BY <1>7 DEF n
    <3> QED
      BY ONLY <1>3, <1>5, <1>6, <2>1, <3>1, CutFront
  <2>3. Covers(TBs, trace, Q, c[d], c[n])
    <3> DEFINE w == c[d]
    <3>1. /\ Len(Q) = Len(q) - d /\ d \in 0 .. Len(q) /\ Q \in Seq(SliceType)
          /\ w \in 0 .. Len(trace) /\ \A k \in 2 .. Len(Q) : k \in 1 .. Len(Q)
      BY <1>6, <1>7, <1>12, <1>14 DEF n
    <3>2. \A k \in 1 .. Len(Q) : Q[k] = q[k+d]
      BY <1>12, <1>16
    <3>3. \A k \in 2 .. Len(Q) : Q[k] = q[k+d]
      BY <3>1, <3>2
    <3>4. d < Len(q) => Spelled(TBs, trace, Q[1], w) /\ c[d+1] = w + Size(TBs, Q[1])
      <4> SUFFICES ASSUME d < Len(q)
                   PROVE  Spelled(TBs, trace, Q[1], w) /\ c[d+1] = w + Size(TBs, Q[1])
        OBVIOUS
      <4> DEFINE e == d + 1
      <4>1. e \in 1 .. n /\ e - 1 = d /\ 1 \in 1 .. Len(Q) /\ 1 + d = e
        BY <1>6, <1>7, <3>1 DEF n
      <4>2. Q[1] = q[e]
        BY <3>2, <4>1
      <4> HIDE DEF e
      <4>3. c[e] = c[e-1] + Size(TBs, q[e]) /\ Spelled(TBs, trace, q[e], c[e-1])
        BY <1>13, <4>1
      <4> QED
        BY <4>1, <4>2, <4>3 DEF e
    <3>5. d = Len(q) => w = c[d]
      OBVIOUS
    <3> HIDE DEF w
    <3>6. Covers(TBs, trace, Q, w, c[Len(q)])
      BY ONLY <1>3, <1>5, <1>6, <3>1, <3>3, <3>4, <3>5, CutBack
    <3> QED
      BY <3>6 DEF n, w
  <2>4. c[d] - x <= Chunk
    <3> DEFINE a == c[d]
    <3>1. a - x <= Chunk - room /\ room \in Nat
      BY <1>5, <1>9
    <3>2. x \in Nat /\ a \in Nat /\ Chunk \in Nat
      BY <1>2, <1>14
    <3> HIDE DEF a
    <3>3. a - x <= Chunk
      BY ONLY <3>1, <3>2
    <3> QED
      BY <3>3 DEF a
  <2>5. \A k \in 1 .. (Len(L) - 1) : L[k].region = NoRegion
    <3>1. \A k \in 1 .. (Len(L) - 1) : k \in 1 .. d /\ k \in 1 .. (d - 1)
      BY <1>7, <2>1
    <3> QED
      BY <1>10, <2>1, <3>1
  <2> QED
    BY <1>5, <1>14, <2>2, <2>3, <2>4, <2>5
<1> QED
  BY <1>15, <1>16

\* Every step keeps TInv.
LEMMA NextTInv == StreamFit /\ DInv /\ SInv /\ TInv /\ [Next]_vars => TInv'
<1> SUFFICES ASSUME StreamFit, DInv, SInv, TInv, [Next]_vars PROVE TInv'
  OBVIOUS
<1>0. Types /\ BlocksFit /\ CodeStartAddress \in {0, LoadAddr}
  BY DEF DInv, StreamFit, TInv
<1>1. ASSUME TBs' = TBs,
             UNCHANGED <<TBQueue, selected, delivered, trace, inRegion, CurBinRegion>>,
             rpc' = "enqueue" <=> rpc = "enqueue", rpc' = "enqueue" => slice' = slice,
             CodeStartAddress' \in {0, LoadAddr}, wpc' # "deliver" => wpc # "deliver"
      PROVE  TInv'
  <2>1. Stays
    BY <1>0, <1>1, SameStays
  <2> QED
    BY <1>1, <2>1, KeepTInv
<1>2. CASE Accept
  BY <1>0, <1>1, <1>2 DEF Accept, sharedVars, workVars, histVars
<1>3. CASE CloseConnection
  BY <1>0, <1>1, <1>3 DEF CloseConnection, sharedVars, workVars, histVars
<1>4. CASE HandleMetadata
  BY <1>0, <1>1, <1>4 DEF HandleMetadata, sharedVars, workVars, histVars
<1>5. ASSUME NEW b \in Blocks, AddTB(nextTB, b) PROVE TInv'
  <2>1. /\ rpc' = rpc /\ wpc' = wpc /\ CodeStartAddress' \in {0, LoadAddr}
        /\ UNCHANGED <<slice, TBQueue, selected, delivered, trace, inRegion, CurBinRegion>>
    BY <1>0, <1>5 DEF AddTB, sharedVars, workVars, histVars
  <2>2. Stays
    BY <1>0, <1>5, AddStays
  <2> QED
    BY <2>1, <2>2, KeepTInv
<1>6. CASE TbExecEnd
  BY <1>0, <1>1, <1>6 DEF TbExecEnd, sharedVars, workVars, histVars
<1>7. ASSUME NEW i \in TBIndex, TbExecInvalid(i) PROVE TInv'
  BY <1>0, <1>1, <1>7 DEF TbExecInvalid, recvVars, sharedVars, workVars, histVars
<1>8. ASSUME NEW i \in TBIndex, TbExec(i, TBs[i].raw.mem) PROVE TInv'
  BY <1>8, ExecTInv
<1>9. CASE Enqueue
  BY <1>9, EnqueueTInv
<1>10. CASE Notify
  BY <1>0, <1>1, <1>10 DEF Notify, sharedVars, workVars, histVars
<1>11. CASE FetchEmpty
  BY <1>0, <1>1, <1>11 DEF FetchEmpty, recvVars, sharedVars, workVars, histVars
<1>12. CASE SpuriousWakeup
  BY <1>0, <1>1, <1>12 DEF SpuriousWakeup, recvVars, sharedVars, workVars, histVars
<1>13. CASE FetchSelect
  BY <1>0, <1>13, SelectTInv
<1>14. CASE FetchDeliver
  BY <1>14, DeliverTInv
<1>15. CASE Convert
  BY <1>0, <1>1, <1>15 DEF Convert, recvVars, sharedVars, workVars, histVars
<1>16. CASE UNCHANGED vars
  BY <1>0, <1>1, <1>16 DEF vars, recvVars, sharedVars, workVars, histVars
<1> QED
  BY <1>2, <1>3, <1>4, <1>5, <1>6, <1>7, <1>8, <1>9, <1>10, <1>11, <1>12, <1>13, <1>14,
     <1>15, <1>16 DEF Next, Receiver, Worker

\* What was delivered is the beginning of the trace.
LEMMA PrefixOfTrace == TInv => StreamInOrder
<1> SUFFICES ASSUME TInv PROVE StreamInOrder
  OBVIOUS
<1>1. /\ trace \in Seq(TraceInsts) /\ delivered \in Seq(TraceInsts)
      /\ Extends(delivered, trace)
  BY DEF TInv
<1> DEFINE n == Len(delivered)
           u == SubSeq(trace, 1, n)
<1> HIDE DEF TraceInsts
<1>2. n \in Nat /\ Len(trace) \in Nat /\ n <= Len(trace)
      /\ \A k \in 1 .. n : trace[k] = delivered[k]
  BY <1>1 DEF Extends
<1>3. u \in Seq(TraceInsts) /\ Len(u) = n /\ \A k \in 1 .. n : u[k] = trace[k]
  BY <1>1, <1>2
<1> HIDE DEF u
<1>4. u = delivered
  BY <1>1, <1>2, <1>3
<1>5. DOMAIN delivered = 1 .. n
  BY <1>1
<1> QED
  BY <1>2, <1>4, <1>5 DEF StreamInOrder, IsPrefix, u

\* For every trace, mode, set of regions and batch size, and however the two
\* threads interleave: if the blocks fit (StreamFit), the worker is given the
\* executed instructions in order, each once, each with its own memory access
\* metadata, and the batch that ends a region is flagged exactly when its last
\* instruction ends one, whatever tbExec trims and fetchRegion splits and batches.
THEOREM StreamStaysInOrder == StreamFit => (Spec => []StreamInOrder)
<1> SUFFICES ASSUME StreamFit PROVE Spec => []StreamInOrder
  OBVIOUS
<1>1. BlocksFit /\ FreshIndices
  BY DEF StreamFit, BlocksFit
<1>2. DInv /\ SInv /\ TInv => StreamInOrder
  BY PrefixOfTrace
<1>3. Init => DInv /\ SInv /\ TInv
  BY InitDInv, InitSInv, InitTInv
<1>4. DInv /\ SInv /\ TInv /\ [Next]_vars => DInv' /\ SInv' /\ TInv'
  BY <1>1, NextDInv, NextSInv, NextTInv
<1> QED
  BY <1>2, <1>3, <1>4, PTL DEF Spec

-----------------------------------------------------------------------------
(* The broker keeps the contract of Broker.h.                              *)

\* With a single connection nothing follows the end signal: when IsEndOfStream is
\* set, no slice is on its way and no client can be accepted, and the worker stops
\* only then.
EInv ==
  /\ IsEndOfStream => ended /\ rpc \in {"notify", "read", "exit"}
  /\ wpc = "done" => IsEndOfStream

\* Every step keeps EInv, if one connection is accepted.
LEMMA NextEInv == MaxConn = 1 /\ DInv /\ EInv /\ [Next]_vars => EInv'
<1> SUFFICES ASSUME MaxConn = 1, DInv, EInv, [Next]_vars PROVE EInv'
  OBVIOUS
<1>1. /\ IsEndOfStream => ended /\ rpc \in {"notify", "read", "exit"}
      /\ wpc = "done" => IsEndOfStream
      /\ conns \in Nat /\ (rpc # "accept" => conns # 0)
  BY DEF EInv, DInv, Types
<1>2. CASE Accept
  BY <1>1, <1>2 DEF EInv, Accept, sharedVars
<1>3. CASE CloseConnection
  <2>1. conns >= MaxConn /\ MaxConn > 0
    BY <1>1, <1>3 DEF CloseConnection
  <2> QED
    BY <1>1, <1>3, <2>1 DEF EInv, CloseConnection, sharedVars
<1>4. CASE HandleMetadata
  BY <1>1, <1>4 DEF EInv, HandleMetadata, sharedVars
<1>5. ASSUME NEW b \in Blocks, AddTB(nextTB, b) PROVE EInv'
  BY <1>1, <1>5 DEF EInv, AddTB, sharedVars
<1>6. CASE TbExecEnd
  BY <1>1, <1>6 DEF EInv, TbExecEnd
<1>7. ASSUME NEW i \in TBIndex, TbExecInvalid(i) PROVE EInv'
  BY <1>1, <1>7 DEF EInv, TbExecInvalid, recvVars, sharedVars
<1>8. ASSUME NEW i \in TBIndex, TbExec(i, TBs[i].raw.mem) PROVE EInv'
  <2>1. ~ended /\ UNCHANGED <<IsEndOfStream, wpc>>
    BY <1>8 DEF TbExec, sharedVars
  <2> QED
    BY <1>1, <2>1 DEF EInv
<1>9. CASE Enqueue
  BY <1>1, <1>9 DEF EInv, Enqueue
<1>10. CASE Notify
  BY <1>1, <1>10 DEF EInv, Notify, sharedVars
<1>11. CASE FetchEmpty
  BY <1>1, <1>11 DEF EInv, FetchEmpty, recvVars, sharedVars
<1>12. CASE SpuriousWakeup
  BY <1>1, <1>12 DEF EInv, SpuriousWakeup, recvVars, sharedVars
<1>13. CASE FetchSelect
  <2>1. wpc' = "deliver" /\ UNCHANGED <<rpc, ended, IsEndOfStream>>
    BY <1>13 DEF FetchSelect, recvVars
  <2> QED
    BY <1>1, <2>1 DEF EInv
<1>14. CASE FetchDeliver
  <2>1. wpc' = "convert" /\ UNCHANGED <<rpc, ended, IsEndOfStream>>
    BY <1>14 DEF FetchDeliver, recvVars, sharedVars
  <2> QED
    BY <1>1, <2>1 DEF EInv
<1>15. CASE Convert
  BY <1>1, <1>15 DEF EInv, Convert, recvVars, sharedVars
<1>16. CASE UNCHANGED vars
  BY <1>1, <1>16 DEF EInv, vars, recvVars, sharedVars
<1> QED
  BY <1>2, <1>3, <1>4, <1>5, <1>6, <1>7, <1>8, <1>9, <1>10, <1>11, <1>12, <1>13, <1>14,
     <1>15, <1>16 DEF Next, Receiver, Worker

\* tbExec: the stream goes on, and the worker has not stopped.
LEMMA ExecProduces ==
  ASSUME StreamFit, DInv, TInv, TInv', EInv, NEW i \in TBIndex, TbExec(i, TBs[i].raw.mem)
  PROVE  Contract!Produce
<1> DEFINE l == Len(trace)
           u == SubSeq(trace', 1, l)
<1>1. ~ended /\ wpc' = wpc /\ delivered' = delivered
  BY DEF TbExec, workVars
<1>2. wpc # "done"
  BY <1>1 DEF EInv
<1>3. trace \in Seq(TraceInsts) /\ trace' \in Seq(TraceInsts)
  BY DEF TInv
<1>4. Extends(trace, trace')
  BY ExecTInv
<1> HIDE DEF TraceInsts
<1>5. /\ l \in Nat /\ Len(trace') \in Nat /\ l <= Len(trace')
      /\ \A k \in 1 .. l : trace'[k] = trace[k]
  BY <1>3, <1>4 DEF Extends
<1>6. u \in Seq(TraceInsts) /\ Len(u) = l /\ \A k \in 1 .. l : u[k] = trace'[k]
  BY <1>3, <1>5
<1> HIDE DEF u
<1>7. u = trace
  BY <1>3, <1>5, <1>6
<1>8. SubSeq(trace', 1, Len(trace)) = trace /\ Len(trace') >= Len(trace)
  BY <1>5, <1>7 DEF u
<1> QED
  BY <1>1, <1>2, <1>8 DEF Contract!Produce

\* A batch is at most a buffer of instructions, and ends at the first end of a region.
LEMMA DeliverFetches ==
  ASSUME DInv, TInv, TInv', FetchDeliver
  PROVE  Contract!Fetch
<1> DEFINE g == Len(delivered)
           h == Len(delivered')
           m == h - g
<1>1. /\ trace' = trace /\ wpc = "deliver" /\ wpc' = "convert"
  BY DEF FetchDeliver, histVars
<1>2. PICK x \in 0 .. Len(trace), y \in 0 .. Len(trace) : Laid(x, y)
  BY DEF TInv
<1>3. /\ trace \in Seq(TraceInsts) /\ delivered \in Seq(TraceInsts)
      /\ Extends(delivered, trace)
      /\ \A k \in 1 .. (Len(selected) - 1) : selected[k].region = NoRegion
  BY DEF TInv
<1>4. PICK c : /\ Cuts(TBs, trace, selected, c)
               /\ c[0] = Len(delivered) /\ c[Len(selected)] = x
  BY <1>2 DEF Laid, Covers
<1>5. c[Len(selected)] - c[0] <= Chunk
  BY <1>2, <1>4 DEF Laid
<1>6. DInv /\ FetchDeliver
  OBVIOUS
<1>7. /\ delivered' \in Seq(TraceInsts) /\ Extends(delivered', trace)
      /\ h = c[Len(selected)] /\ g <= h
      /\ \A k \in (g + 1) .. (h - 1) : ~delivered'[k].last
  BY ONLY <1>3, <1>4, <1>5, <1>6, DeliverStream
<1>8. g \in Nat /\ h \in Nat /\ h <= Len(trace) /\ Len(trace) \in Nat
  <2> HIDE DEF TraceInsts
  <2> QED BY <1>3, <1>7 DEF Extends
<1>9. h >= g
  BY <1>7, <1>8
<1>10. m <= Chunk
  BY <1>4, <1>5, <1>7
<1>11. ASSUME NEW k \in (g + 1) .. (g + m - 1) PROVE ~trace[k].last
  <2> HIDE DEF g, h
  <2>1. k \in (g + 1) .. (h - 1) /\ k \in 1 .. h
    BY <1>8, <1>9 DEF g, h
  <2>2. trace[k] = delivered'[k]
    BY <1>7, <2>1 DEF Extends, h
  <2> QED
    BY <1>7, <2>1, <2>2
<1>12. g + m <= Len(trace)
  <2> HIDE DEF g, h
  <2> QED BY <1>8 DEF g, h
<1> HIDE DEF m
<1>13. Contract!Deliverable(trace, g, m)
  BY <1>10, <1>11, <1>12 DEF Contract!Deliverable
<1> QED
  BY <1>1, <1>9, <1>13 DEF Contract!Fetch, m

\* fetchRegion returns -1 when everything has been handed out.
LEMMA EmptyFetches ==
  ASSUME TInv, EInv, FetchEmpty
  PROVE  Contract!FetchEnd \/ UNCHANGED Contract!contractVars
<1>1. /\ wpc = "fetch" /\ TBQueue = <<>> /\ UNCHANGED <<trace, delivered>>
      /\ wpc' = IF IsEndOfStream THEN "done" ELSE "wait"
  BY DEF FetchEmpty, workVars, histVars
<1>2. CASE IsEndOfStream
  <2>1. rpc # "enqueue" /\ wpc' = "done"
    BY <1>1, <1>2 DEF EInv
  <2>2. PICK x \in 0 .. Len(trace), y \in 0 .. Len(trace) : Laid(x, y)
    BY DEF TInv
  <2>3. /\ Covers(TBs, trace, <<>>, Len(delivered), x) /\ Covers(TBs, trace, <<>>, x, y)
        /\ y = Len(trace)
    BY <1>1, <2>1, <2>2 DEF Laid, TInv
  <2>4. Len(delivered) = x /\ x = y
    BY ONLY <2>3, NoneCovers
  <2>5. Len(delivered) = Len(trace)
    BY <2>3, <2>4
  <2> QED
    BY <1>1, <2>1, <2>5 DEF Contract!FetchEnd
<1>3. CASE ~IsEndOfStream
  BY <1>1, <1>3 DEF Contract!contractVars
<1> QED
  BY <1>2, <1>3

\* Every step is one of the contract's, or none.
LEMMA ContractStep ==
  StreamFit /\ DInv /\ TInv /\ TInv' /\ EInv /\ [Next]_vars =>
    [Contract!Produce \/ Contract!Fetch \/ Contract!FetchEnd]_(Contract!contractVars)
<1> SUFFICES ASSUME StreamFit, DInv, TInv, TInv', EInv, [Next]_vars
             PROVE  \/ Contract!Produce \/ Contract!Fetch \/ Contract!FetchEnd
                    \/ UNCHANGED Contract!contractVars
  OBVIOUS
<1>1. ASSUME UNCHANGED <<trace, delivered>>, wpc' = "done" <=> wpc = "done"
      PROVE  UNCHANGED Contract!contractVars
  <2> DEFINE d == (wpc = "done")
             e == (wpc' = "done")
  <2>1. e = d
    BY <1>1
  <2> QED
    BY <1>1, <2>1 DEF Contract!contractVars
<1>2. CASE Accept
  BY <1>1, <1>2 DEF Accept, workVars, histVars
<1>3. CASE CloseConnection
  BY <1>1, <1>3 DEF CloseConnection, workVars, histVars
<1>4. CASE HandleMetadata
  BY <1>1, <1>4 DEF HandleMetadata, workVars, histVars
<1>5. ASSUME NEW b \in Blocks, AddTB(nextTB, b) PROVE UNCHANGED Contract!contractVars
  BY <1>1, <1>5 DEF AddTB, workVars, histVars
<1>6. CASE TbExecEnd
  BY <1>1, <1>6 DEF TbExecEnd, workVars, histVars
<1>7. ASSUME NEW i \in TBIndex, TbExecInvalid(i) PROVE UNCHANGED Contract!contractVars
  BY <1>1, <1>7 DEF TbExecInvalid, workVars
<1>8. ASSUME NEW i \in TBIndex, TbExec(i, TBs[i].raw.mem) PROVE Contract!Produce
  BY <1>8, ExecProduces
<1>9. CASE Enqueue
  BY <1>1, <1>9 DEF Enqueue, workVars, histVars
<1>10. CASE Notify
  BY <1>1, <1>10 DEF Notify, workVars, histVars
<1>11. CASE FetchEmpty
  BY <1>11, EmptyFetches
<1>12. CASE SpuriousWakeup
  BY <1>1, <1>12 DEF SpuriousWakeup, workVars, histVars
<1>13. CASE FetchSelect
  <2>1. wpc = "fetch" /\ wpc' = "deliver" /\ UNCHANGED <<trace, delivered>>
    BY <1>13 DEF FetchSelect, histVars
  <2> QED
    BY <1>1, <2>1
<1>14. CASE FetchDeliver
  BY <1>14, DeliverFetches
<1>15. CASE Convert
  BY <1>1, <1>15 DEF Convert, workVars, histVars
<1>16. CASE UNCHANGED vars
  BY <1>1, <1>16 DEF vars, workVars, histVars
<1> QED
  BY <1>2, <1>3, <1>4, <1>5, <1>6, <1>7, <1>8, <1>9, <1>10, <1>11, <1>12, <1>13, <1>14,
     <1>15, <1>16 DEF Next, Receiver, Worker

\* The QEMU broker keeps the contract of Broker.h when its blocks fit (StreamFit) and it
\* accepts one connection, as it does by default: every fetchRegion hands out the next
\* instructions the guest executed inside regions, at most a buffer of them and never past
\* the end of a region, and returns -1 only when QEMU is done and nothing is left.  This
\* is the refinement of Broker by QemuBroker.
THEOREM BrokerKeepsContract == StreamFit /\ MaxConn = 1 => (Spec => KeepsContract)
<1> SUFFICES ASSUME StreamFit, MaxConn = 1 PROVE Spec => KeepsContract
  OBVIOUS
<1>1. BlocksFit /\ FreshIndices
  BY DEF StreamFit, BlocksFit
<1>2. Init => Contract!ContractInit
  BY DEF Init, Contract!ContractInit
<1>3. Init => DInv /\ SInv /\ TInv /\ EInv
  <2>1. Init => EInv
    BY DEF Init, EInv
  <2> QED
    BY <2>1, InitDInv, InitSInv, InitTInv
<1>4. DInv /\ SInv /\ TInv /\ EInv /\ [Next]_vars => DInv' /\ SInv' /\ TInv' /\ EInv'
  BY <1>1, NextDInv, NextSInv, NextTInv, NextEInv
<1>5. DInv /\ TInv /\ TInv' /\ EInv /\ [Next]_vars =>
        [Contract!Produce \/ Contract!Fetch \/ Contract!FetchEnd]_(Contract!contractVars)
  BY ContractStep
<1> QED
  BY <1>2, <1>3, <1>4, <1>5, PTL DEF Spec, KeepsContract, Contract!ContractSpec
===============================================================================
