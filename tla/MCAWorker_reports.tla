-------------------------- MODULE MCAWorker_reports ---------------------------
(***************************************************************************)
(* The reports of the worker: they are those the stream of its broker calls*)
(* for, and that broker keeps the contract of Broker.h.                    *)
(***************************************************************************)
EXTENDS MCAWorker_regions

-----------------------------------------------------------------------------
(* The account of a stream.                                                *)

(* What the reports should be.                                             *)

\* The account of a stream, the report of a region, and the types of both.
Tal(r, c, u) == [reports |-> r, count |-> c, unnamed |-> u]
Rep(in, name, u, c) == [name |-> Title(in, name, u),
                        view |-> [TotalInstructions |-> c, TotalUOps |-> c]]
NamesOf(s) == {s[k].name : k \in 1 .. Len(s)} \cup {""}
Reps(in, s) == {Rep(in, x, u, c) : x \in NamesOf(s), u \in Nat, c \in Nat}
TalType(in, s) == [reports : Seq(Reps(in, s)), count : Nat, unnamed : Nat]

\* What one more instruction, or the end of a region, makes of its fields.
MoreCount(x, c) == IF Kept(x.op) THEN c + 1 ELSE c
MoreReports(in, x, r, c, u) == IF c = 0 THEN r ELSE Append(r, Rep(in, x, u, c))
MoreUnnamed(x, u) == IF x = "" THEN u + 1 ELSE u

\* An account is the record of its fields.
LEMMA TalFacts ==
  ASSUME NEW in, NEW s, NEW t \in TalType(in, s)
  PROVE  /\ t = Tal(t.reports, t.count, t.unnamed)
         /\ t.reports \in Seq(Reps(in, s)) /\ t.count \in Nat /\ t.unnamed \in Nat
BY DEF TalType, Tal

\* The fields of an account.
LEMMA TalFields ==
  ASSUME NEW r, NEW c, NEW u, NEW t, t = Tal(r, c, u)
  PROVE  t.reports = r /\ t.count = c /\ t.unnamed = u
BY DEF Tal

\* Such a record is an account.
LEMMA TalIn ==
  ASSUME NEW in, NEW s, NEW r \in Seq(Reps(in, s)), NEW c \in Nat, NEW u \in Nat
  PROVE  Tal(r, c, u) \in TalType(in, s)
BY DEF TalType, Tal

\* One more instruction.
LEMMA CountedFacts ==
  ASSUME NEW in, NEW s, NEW r \in Seq(Reps(in, s)), NEW c \in Nat, NEW u \in Nat, NEW x,
         NEW t, t = Tal(r, c, u)
  PROVE  /\ Counted(t, x) = Tal(r, MoreCount(x, c), u)
         /\ Counted(t, x) \in TalType(in, s)
<1>1. t.count = c
  BY TalFields
<1>2. CASE Kept(x.op)
  <2> DEFINE d == t.count + 1
  <2>1. Counted(t, x) = [t EXCEPT !.count = d]
    BY <1>2 DEF Counted
  <2>2. d = c + 1
    BY <1>1
  <2> HIDE DEF d
  <2>3. [t EXCEPT !.count = d] = Tal(r, d, u)
    BY SMT DEF Tal
  <2>4. Tal(r, d, u) \in TalType(in, s)
    BY <2>2, TalIn
  <2>5. MoreCount(x, c) = d
    BY <1>2, <2>2 DEF MoreCount
  <2> QED
    BY <2>1, <2>3, <2>4, <2>5
<1>3. CASE ~Kept(x.op)
  <2>1. Counted(t, x) = t
    BY <1>3 DEF Counted
  <2>2. Tal(r, c, u) \in TalType(in, s)
    BY TalIn
  <2>3. MoreCount(x, c) = c
    BY <1>3 DEF MoreCount
  <2> QED
    BY <2>1, <2>2, <2>3
<1> QED
  BY <1>2, <1>3

\* The same for an account that is not taken apart.
LEMMA CountedType ==
  ASSUME NEW in, NEW s, NEW t \in TalType(in, s), NEW x
  PROVE  /\ Counted(t, x) = Tal(t.reports, MoreCount(x, t.count), t.unnamed)
         /\ Counted(t, x) \in TalType(in, s)
         /\ Counted(t, x).reports = t.reports
<1> DEFINE r == t.reports
           c == t.count
           u == t.unnamed
           d == Counted(t, x)
           m == MoreCount(x, c)
<1>1. t = Tal(r, c, u) /\ r \in Seq(Reps(in, s)) /\ c \in Nat /\ u \in Nat
  BY TalFacts
<1> HIDE DEF r, c, u
<1>2. Counted(t, x) = Tal(r, m, u) /\ Counted(t, x) \in TalType(in, s)
  BY <1>1, CountedFacts
<1> HIDE DEF d, m
<1>3. d = Tal(r, m, u)
  BY <1>2 DEF d
<1>4. d.reports = r
  BY <1>3, TalFields
<1> QED
  BY <1>2, <1>4 DEF r, c, u, d, m

\* The end of a region.
LEMMA ClosedFacts ==
  ASSUME NEW in, NEW s, NEW r \in Seq(Reps(in, s)), NEW c \in Nat, NEW u \in Nat,
         NEW x \in NamesOf(s), NEW t, t = Tal(r, c, u)
  PROVE  /\ Closed(in, t, x) = Tal(MoreReports(in, x, r, c, u), 0, MoreUnnamed(x, u))
         /\ Closed(in, t, x) \in TalType(in, s)
<1> DEFINE q == MoreReports(in, x, r, c, u)
           v == MoreUnnamed(x, u)
<1>1. t.reports = r /\ t.count = c /\ t.unnamed = u
  BY TalFields
<1>2. Closed(in, t, x) = Tal(q, 0, v)
  BY <1>1 DEF Closed, Tal, Rep, MoreReports, MoreUnnamed
<1>3. Rep(in, x, u, c) \in Reps(in, s)
  BY DEF Reps
<1>4. q \in Seq(Reps(in, s))
  <2> DEFINE y == Rep(in, x, u, c)
             R == Reps(in, s)
  <2> HIDE DEF y, R
  <2>1. y \in R /\ r \in Seq(R)
    BY <1>3 DEF y, R
  <2>2. Append(r, y) \in Seq(R)
    BY <2>1
  <2> QED
    BY <2>1, <2>2 DEF y, R, MoreReports
<1>5. v \in Nat
  <2>1. u + 1 \in Nat
    OBVIOUS
  <2> QED
    BY <2>1, Zenon DEF MoreUnnamed
<1>6. Tal(q, 0, v) \in TalType(in, s)
  <2> HIDE DEF q, v
  <2> QED
    BY <1>4, <1>5, TalIn
<1> QED
  BY <1>2, <1>6

\* The same for an account that is not taken apart.
LEMMA ClosedType ==
  ASSUME NEW in, NEW s, NEW t \in TalType(in, s), NEW x \in NamesOf(s)
  PROVE  /\ Closed(in, t, x) = Tal(MoreReports(in, x, t.reports, t.count, t.unnamed), 0,
                                   MoreUnnamed(x, t.unnamed))
         /\ Closed(in, t, x) \in TalType(in, s)
         /\ Closed(in, t, x).reports = MoreReports(in, x, t.reports, t.count, t.unnamed)
<1> DEFINE r == t.reports
           c == t.count
           u == t.unnamed
           d == Closed(in, t, x)
           q == MoreReports(in, x, r, c, u)
           v == MoreUnnamed(x, u)
<1>1. t = Tal(r, c, u) /\ r \in Seq(Reps(in, s)) /\ c \in Nat /\ u \in Nat
  BY TalFacts
<1> HIDE DEF r, c, u
<1>2. Closed(in, t, x) = Tal(q, 0, v) /\ Closed(in, t, x) \in TalType(in, s)
  BY <1>1, ClosedFacts
<1> HIDE DEF d, q, v
<1>3. d = Tal(q, 0, v)
  BY <1>2 DEF d
<1>4. d.reports = q
  BY <1>3, TalFields
<1> QED
  BY <1>2, <1>4 DEF r, c, u, d, q, v

\* One instruction keeps the type.
LEMMA TallyStepType ==
  ASSUME NEW in, NEW s, NEW k \in 1 .. Len(s), NEW t \in TalType(in, s)
  PROVE  TallyStep(in, t, s[k]) \in TalType(in, s)
<1> DEFINE x == s[k]
           d == Counted(t, x)
<1>1. d \in TalType(in, s)
  BY CountedType
<1>2. x.name \in NamesOf(s)
  BY DEF NamesOf
<1> HIDE DEF x, d
<1>3. Closed(in, d, x.name) \in TalType(in, s)
  BY <1>1, <1>2, ClosedType
<1>4. TallyStep(in, t, x) = IF x.last THEN Closed(in, d, x.name) ELSE d
  BY DEF TallyStep, d
<1>5. TallyStep(in, t, x) \in TalType(in, s)
  BY <1>1, <1>3, <1>4
<1> QED
  BY <1>5 DEF x

\* The account, step by step.
LEMMA TallySteps ==
  ASSUME NEW in, NEW s, Len(s) \in Nat
  PROVE  /\ \A k \in 0 .. Len(s) : Tally(in, s)[k] \in TalType(in, s)
         /\ Tally(in, s)[0] = Tal(<<>>, 0, 0)
         /\ \A k \in 1 .. Len(s) :
              Tally(in, s)[k] = TallyStep(in, Tally(in, s)[k-1], s[k])
<1> DEFINE n == Len(s)
           S == TalType(in, s)
           a == Tal(<<>>, 0, 0)
           Step(b, k) == TallyStep(in, b, s[k])
           G == [k \in 1 .. n |-> [b \in S |-> Step(b, k)]]
           f == Tally(in, s)
<1>1. n \in Nat /\ 0 \in Nat
  OBVIOUS
<1>2. a \in S
  <2> DEFINE z == <<>>
  <2>1. z \in Seq(Reps(in, s))
    OBVIOUS
  <2> HIDE DEF z
  <2>2. Tal(z, 0, 0) \in S
    BY <2>1, TalIn
  <2> QED
    BY <2>2 DEF z
<1>3. \A k \in 1 .. n : \A b \in S : Step(b, k) \in S
  BY TallyStepType
<1>4. f = CHOOSE h : h = [k \in 0 .. n |-> IF k = 0 THEN a ELSE Step(h[k-1], k)]
  BY DEF Tally, Tal
<1> HIDE DEF n, a, S, f, Step
<1>5. G \in [1 .. n -> [S -> S]]
  BY <1>3
<1>6. \A k \in 1 .. n : \A b \in S : G[k][b] = Step(b, k)
  OBVIOUS
<1> HIDE DEF G
<1>7. PICK h : IsRecursion(h, 0, n, S, a, G)
  BY <1>1, <1>2, <1>5, RecursionExists
<1>8. h = [k \in 0 .. n |-> IF k = 0 THEN a ELSE Step(h[k-1], k)]
  <2>1. ASSUME NEW k \in 0 .. n
        PROVE  h[k] = IF k = 0 THEN a ELSE Step(h[k-1], k)
    <3>1. h[k] = IF k = 0 THEN a ELSE G[k][h[k-1]]
      BY <1>7 DEF IsRecursion
    <3>2. k # 0 => k \in 1 .. n /\ k - 1 \in 0 .. n
      BY <1>1
    <3>3. k # 0 => h[k-1] \in S
      BY <1>7, <3>2 DEF IsRecursion
    <3> QED
      BY <1>6, <3>1, <3>2, <3>3
  <2>2. h = [k \in 0 .. n |-> h[k]]
    BY <1>7 DEF IsRecursion
  <2> QED
    BY <2>1, <2>2, Zenon
<1>9. f = [k \in 0 .. n |-> IF k = 0 THEN a ELSE Step(f[k-1], k)]
  BY <1>4, <1>8, Zenon
<1>10. f[0] = a
  BY <1>1, <1>9
<1>11. ASSUME NEW k \in 1 .. n PROVE f[k] = Step(f[k-1], k)
  BY <1>1, <1>9
<1>12. ASSUME NEW k \in (0 + 1) .. n, f[k-1] \in S PROVE f[k] \in S
  <2>1. k \in 1 .. n
    BY <1>1
  <2> QED
    BY <1>3, <1>11, <1>12, <2>1
<1>13. \A k \in 0 .. n : f[k] \in S
  BY <1>1, <1>2, <1>10, <1>12, RecursionType
<1> QED
  BY <1>10, <1>11, <1>13 DEF n, f, S, a, Step

\* One sequence starts with the other.
Starts(a, b) == Len(a) <= Len(b) /\ \A i \in 1 .. Len(a) : a[i] = b[i]

\* The relation is reflexive and transitive, and it is IsPrefix.
LEMMA StartsFacts ==
  ASSUME NEW R, NEW a \in Seq(R), NEW b \in Seq(R), NEW c \in Seq(R)
  PROVE  /\ Starts(a, a)
         /\ \A x \in R : Starts(a, Append(a, x))
         /\ Starts(a, b) /\ Starts(b, c) => Starts(a, c)
         /\ Starts(a, b) => IsPrefix(a, b)
<1>1. Len(a) \in Nat /\ Len(b) \in Nat /\ Len(c) \in Nat
  OBVIOUS
<1>2. Starts(a, a)
  BY <1>1 DEF Starts
<1>3. ASSUME NEW x \in R PROVE Starts(a, Append(a, x))
  BY <1>1 DEF Starts
<1>4. ASSUME Starts(a, b), Starts(b, c) PROVE Starts(a, c)
  BY <1>1, <1>4 DEF Starts
<1>5. ASSUME Starts(a, b) PROVE IsPrefix(a, b)
  BY <1>1, <1>5 DEF Starts, IsPrefix
<1> QED
  BY <1>2, <1>3, <1>4, <1>5

\* The reports of an account are kept when there is more of the stream.
LEMMA TallyStarts ==
  ASSUME NEW in, NEW s, Len(s) \in Nat, NEW k \in 0 .. Len(s)
  PROVE  IsPrefix(Tally(in, s)[k].reports, Closed(in, Tally(in, s)[Len(s)], "").reports)
<1> DEFINE n == Len(s)
           f == Tally(in, s)
           R == Reps(in, s)
           m == n - k
           G == {d \in 0 .. m : Starts(f[k].reports, f[k+d].reports)}
           e == Closed(in, f[n], "")
<1>1. n \in Nat /\ m \in Nat /\ k \in Nat /\ k + m = n
  OBVIOUS
<1>2. /\ \A j \in 0 .. n : f[j] \in TalType(in, s)
      /\ \A j \in 1 .. n : f[j] = TallyStep(in, f[j-1], s[j])
  BY TallySteps
<1>3. ASSUME NEW t \in TalType(in, s), NEW x \in NamesOf(s)
      PROVE  /\ Closed(in, t, x) \in TalType(in, s)
             /\ Starts(t.reports, Closed(in, t, x).reports)
  <2> DEFINE r == t.reports
             c == t.count
             u == t.unnamed
             y == Rep(in, x, u, c)
             q == MoreReports(in, x, r, c, u)
  <2>1. r \in Seq(R) /\ c \in Nat /\ u \in Nat
    BY TalFacts
  <2>2. Closed(in, t, x).reports = q /\ Closed(in, t, x) \in TalType(in, s)
    BY ClosedType
  <2> HIDE DEF r, c, u, R
  <2>3. y \in R
    BY <2>1 DEF R, Reps
  <2> HIDE DEF y
  <2>4. Starts(r, r) /\ Starts(r, Append(r, y))
    BY <2>1, <2>3, StartsFacts
  <2>5. q = r \/ q = Append(r, y)
    BY DEF MoreReports, y
  <2>6. Starts(r, q)
    BY <2>4, <2>5
  <2> QED
    BY <2>2, <2>6 DEF r
<1>4. ASSUME NEW j \in 1 .. n PROVE Starts(f[j-1].reports, f[j].reports)
  <2> DEFINE t == f[j-1]
             x == s[j]
             d == Counted(t, x)
  <2>1. t \in TalType(in, s) /\ f[j] = TallyStep(in, t, x)
    <3>1. j - 1 \in 0 .. n
      BY <1>1
    <3> QED
      BY <1>2, <3>1
  <2>2. x.name \in NamesOf(s)
    BY DEF NamesOf
  <2> HIDE DEF t, x, f
  <2>3. d \in TalType(in, s) /\ d.reports = t.reports
    BY <2>1, CountedType
  <2> HIDE DEF d
  <2>4. f[j] = IF x.last THEN Closed(in, d, x.name) ELSE d
    BY <2>1 DEF TallyStep, d
  <2>5. Starts(d.reports, Closed(in, d, x.name).reports)
    BY <1>3, <2>2, <2>3
  <2>6. Starts(d.reports, d.reports)
    <3>1. d.reports \in Seq(R)
      BY <2>3, TalFacts
    <3> QED
      BY <3>1, StartsFacts
  <2> QED
    BY <2>3, <2>4, <2>5, <2>6 DEF t
<1>5. \A j \in 0 .. n : f[j].reports \in Seq(R)
  BY <1>2, TalFacts
<1> HIDE DEF f, R, n, m
<1>6. 0 \in G
  <2>1. k + 0 = k /\ 0 \in 0 .. m /\ k \in 0 .. n
    BY <1>1 DEF n
  <2> QED
    BY <1>5, <2>1, StartsFacts
<1>7. ASSUME NEW d \in 1 .. m, d - 1 \in G PROVE d \in G
  <2> DEFINE i == k + (d - 1)
             j == k + d
  <2>1. i \in 0 .. n /\ j \in 1 .. n /\ j - 1 = i /\ d \in 0 .. m /\ k \in 0 .. n /\ j \in 0 .. n
    BY <1>1 DEF n
  <2>2. Starts(f[k].reports, f[i].reports)
    BY <1>7
  <2> HIDE DEF i, j
  <2>3. Starts(f[i].reports, f[j].reports)
    BY <1>4, <2>1
  <2>4. Starts(f[k].reports, f[j].reports)
    BY <1>5, <2>1, <2>2, <2>3, StartsFacts
  <2> QED
    BY <2>1, <2>4 DEF j
<1>8. m \in G
  <2> HIDE DEF G
  <2> QED
    BY <1>1, <1>6, <1>7, StepByStep
<1>9. Starts(f[k].reports, f[n].reports)
  BY <1>1, <1>8
<1>10. f[n] \in TalType(in, s) /\ "" \in NamesOf(s)
  BY <1>1, <1>2 DEF NamesOf
<1>11. e \in TalType(in, s) /\ Starts(f[n].reports, e.reports)
  BY <1>3, <1>10
<1> HIDE DEF e
<1>12. e.reports \in Seq(R)
  BY <1>11, TalFacts DEF R
<1>13. k \in 0 .. n /\ n \in 0 .. n
  BY <1>1 DEF n
<1>14. Starts(f[k].reports, e.reports)
  BY <1>5, <1>9, <1>11, <1>12, <1>13, StartsFacts
<1>15. IsPrefix(f[k].reports, e.reports)
  BY <1>5, <1>12, <1>13, <1>14, StartsFacts
<1> QED
  BY <1>15 DEF e, f, n

-----------------------------------------------------------------------------
(* The conversion loop keeps it.                                           *)

\* An instruction of a batch, a copy in the pipeline, the state of the conversion loop.
MCInsts == [op : STRING, key : Nat]
Copies == [key : Nat, ident : Int, idx : Nat]
Working == [staging : Seq(Instruction), recycled : SUBSET Instruction, created : Nat, num : Nat]

\* A batch, with or without tokens.
BatchType == /\ fetched.insts \in Seq(MCInsts)
             /\ ~Asm => \A k \in 1 .. Len(fetched.insts) : fetched.MDIndexMap[k] \in Int

\* One iteration of the conversion loop: a simulated instruction is staged and counted.
OneMore(b, k) ==
  /\ ConvertInst(b, k) \in Working
  /\ ConvertInst(b, k).num = MoreCount(fetched.insts[k], b.num)
  /\ Len(ConvertInst(b, k).staging) = MoreCount(fetched.insts[k], Len(b.staging))

\* Every iteration does that, for new and recycled instructions alike.
LEMMA ConvertInstFacts ==
  ASSUME BatchType, NEW b \in Working, NEW k \in 1 .. Len(fetched.insts)
  PROVE  OneMore(b, k)
<1> DEFINE mci == fetched.insts[k]
           c == Create(b, mci.op, mci.key)
           t == fetched.MDIndexMap[k]
           i == Identify(c.i, fetched.MDIndexMap, k)
           e == [staging |-> Append(b.staging, i),
                 recycled |-> c.recycled, created |-> c.created, num |-> b.num + 1]
<1>1. ConvertInst(b, k) = IF ~Kept(mci.op) THEN b ELSE e
  BY DEF ConvertInst
<1>2. mci.op \in STRING /\ mci.key \in Nat
  <2>1. fetched.insts \in Seq(MCInsts)
    BY DEF BatchType
  <2>2. mci \in MCInsts
    BY <2>1
  <2> QED
    BY <2>2 DEF MCInsts
<1>3. /\ b.staging \in Seq(Instruction) /\ b.recycled \in SUBSET Instruction
      /\ b.created \in Nat /\ b.num \in Nat
  BY DEF Working
<1>4. i = c.i \/ (~Asm /\ i = [c.i EXCEPT !.ident = t])
  BY DEF Identify, SupportMetadata
<1>5. ~Asm => t \in Int
  BY DEF BatchType
<1>6. mci = fetched.insts[k]
  OBVIOUS
<1> HIDE DEF mci
<1>7. c.i \in Instruction /\ c.recycled \in SUBSET Instruction /\ c.created \in Nat
  BY <1>2, <1>3, CreateFacts
<1> HIDE DEF c, i, t
<1>8. i \in Instruction
  BY <1>4, <1>5, <1>7 DEF Instruction
<1>9. /\ Append(b.staging, i) \in Seq(Instruction)
      /\ Len(Append(b.staging, i)) = Len(b.staging) + 1
  BY <1>3, <1>8
<1> DEFINE q == Append(b.staging, i)
           m == b.num + 1
<1>10. m \in Nat
  BY <1>3
<1> HIDE DEF q
<1>11. e = [staging |-> q, recycled |-> c.recycled, created |-> c.created, num |-> m]
  BY DEF q
<1> HIDE DEF m, e
<1>12. e \in Working /\ e.staging = q /\ e.num = m
  BY <1>7, <1>9, <1>10, <1>11 DEF Working, q
<1>13. CASE Kept(mci.op)
  <2>1. ConvertInst(b, k) = e
    BY <1>1, <1>13
  <2>2. MoreCount(mci, b.num) = m /\ MoreCount(mci, Len(b.staging)) = Len(q)
    BY <1>9, <1>13 DEF MoreCount, m, q
  <2> QED
    BY <1>6, <1>12, <2>1, <2>2 DEF OneMore
<1>14. CASE ~Kept(mci.op)
  <2>1. ConvertInst(b, k) = b
    BY <1>1, <1>14
  <2>2. MoreCount(mci, b.num) = b.num /\ MoreCount(mci, Len(b.staging)) = Len(b.staging)
    BY <1>14 DEF MoreCount
  <2> QED
    BY <1>6, <2>1, <2>2 DEF OneMore
<1> QED
  BY <1>13, <1>14

\* The loop before its first iteration and after each of them.
WorkingAll(n) ==
  /\ n \in Nat
  /\ \A k \in 0 .. n : Converted[k] \in Working
  /\ Converted[0] = [staging |-> SrcMgr.Staging, recycled |-> RecycledInsts,
                     created |-> created, num |-> NumTraceMIs]
  /\ \A k \in 1 .. n : OneMore(Converted[k-1], k) /\ Converted[k] = ConvertInst(Converted[k-1], k)

\* The loop stays in this state over the whole batch.
LEMMA WorkingFacts ==
  ASSUME BatchType, SrcMgr.Staging \in Seq(Instruction),
         RecycledInsts \in SUBSET Instruction, created \in Nat, NumTraceMIs \in Nat
  PROVE  WorkingAll(Len(fetched.insts))
<1> DEFINE n == Len(fetched.insts)
           a == [staging |-> SrcMgr.Staging, recycled |-> RecycledInsts,
                 created |-> created, num |-> NumTraceMIs]
           S == Working
           G == [k \in 1 .. n |-> [b \in S |-> ConvertInst(b, k)]]
           f == Converted
<1>1. n \in Nat /\ 0 \in Nat
  BY DEF BatchType
<1>2. a \in S
  BY DEF Working
<1>3. \A k \in 1 .. n : \A b \in S : OneMore(b, k) /\ ConvertInst(b, k) \in S
  BY ConvertInstFacts DEF OneMore
<1>4. f = CHOOSE h : h = [k \in 0 .. n |-> IF k = 0 THEN a ELSE ConvertInst(h[k-1], k)]
  BY DEF Converted
<1> HIDE DEF n, a, S, f
<1>5. G \in [1 .. n -> [S -> S]]
  BY <1>3
<1>6. \A k \in 1 .. n : \A b \in S : G[k][b] = ConvertInst(b, k)
  OBVIOUS
<1> HIDE DEF G
<1>7. PICK h : IsRecursion(h, 0, n, S, a, G)
  BY <1>1, <1>2, <1>5, RecursionExists
<1>8. h = [k \in 0 .. n |-> IF k = 0 THEN a ELSE ConvertInst(h[k-1], k)]
  <2>1. ASSUME NEW k \in 0 .. n
        PROVE  h[k] = IF k = 0 THEN a ELSE ConvertInst(h[k-1], k)
    <3>1. h[k] = IF k = 0 THEN a ELSE G[k][h[k-1]]
      BY <1>7 DEF IsRecursion
    <3>2. k # 0 => k \in 1 .. n /\ k - 1 \in 0 .. n
      BY <1>1
    <3>3. k # 0 => h[k-1] \in S
      BY <1>7, <3>2 DEF IsRecursion
    <3> QED
      BY <1>6, <3>1, <3>2, <3>3
  <2>2. h = [k \in 0 .. n |-> h[k]]
    BY <1>7 DEF IsRecursion
  <2> QED
    BY <2>1, <2>2, Zenon
<1>9. f = [k \in 0 .. n |-> IF k = 0 THEN a ELSE ConvertInst(f[k-1], k)]
  BY <1>4, <1>8, Zenon
<1>10. f[0] = a
  BY <1>1, <1>9
<1>11. ASSUME NEW k \in 1 .. n PROVE f[k] = ConvertInst(f[k-1], k)
  BY <1>1, <1>9
<1>12. ASSUME NEW k \in (0 + 1) .. n, f[k-1] \in S PROVE f[k] \in S
  <2>1. k \in 1 .. n
    BY <1>1
  <2> QED
    BY <1>3, <1>11, <1>12, <2>1
<1>13. \A k \in 0 .. n : f[k] \in S
  BY <1>1, <1>2, <1>10, <1>12, RecursionType
<1>14. ASSUME NEW k \in 1 .. n PROVE OneMore(f[k-1], k)
  <2>1. k - 1 \in 0 .. n
    BY <1>1
  <2> QED
    BY <1>3, <1>13, <2>1
<1> QED
  BY <1>1, <1>10, <1>11, <1>13, <1>14 DEF n, f, S, a, WorkingAll

\* The account of a stream s when the batch after its first c instructions has been
\* converted up to its k-th instruction: the end of a region comes after that.
OpenTally(in, s, c, k) == IF k = 0 THEN Tally(in, s)[c]
                          ELSE Counted(Tally(in, s)[c+k-1], s[c+k])

\* The batch is the n instructions of s after the first c.
BatchIs(s, c, n) ==
  /\ c \in Nat /\ n \in Nat /\ c + n <= Len(s) /\ Len(s) \in Nat
  /\ Len(fetched.insts) = n
  /\ \A k \in 1 .. n : fetched.insts[k].op = s[c+k].op
  /\ \A k \in 1 .. (n - 1) : ~s[c+k].last

\* The conversion loop keeps the account of the stream.
LEMMA ConvertTally ==
  ASSUME NEW in, NEW s, NEW c, NEW n, BatchIs(s, c, n), WorkingAll(n), NEW r, NEW u,
         Tally(in, s)[c] = Tal(r, NumTraceMIs, u)
  PROVE  /\ OpenTally(in, s, c, n) = Tal(r, Converted[n].num, u)
         /\ Converted[n].num \in Nat /\ Converted[n].staging \in Seq(Instruction)
         /\ Converted[n].num - Len(Converted[n].staging) = NumTraceMIs - Len(SrcMgr.Staging)
<1> DEFINE f == Converted
           T == Tally(in, s)
           N == NumTraceMIs
           L == Len(SrcMgr.Staging)
           G == {k \in 0 .. n : /\ OpenTally(in, s, c, k) = Tal(r, f[k].num, u)
                                /\ f[k].num - Len(f[k].staging) = N - L}
<1>1. c \in Nat /\ n \in Nat /\ c + n <= Len(s) /\ Len(s) \in Nat
  BY DEF BatchIs
<1>2. /\ \A k \in 0 .. n : f[k] \in Working
      /\ \A k \in 1 .. n : OneMore(f[k-1], k) /\ f[k] = ConvertInst(f[k-1], k)
  BY DEF WorkingAll
<1>3. \A x \in Working : x.num \in Nat /\ x.staging \in Seq(Instruction) /\ Len(x.staging) \in Nat
  <2>1. \A x \in Working : x.num \in Nat /\ x.staging \in Seq(Instruction)
    BY DEF Working
  <2>2. \A q \in Seq(Instruction) : Len(q) \in Nat
    OBVIOUS
  <2> QED
    BY <2>1, <2>2
<1>4. f[0].num = N /\ f[0].staging = SrcMgr.Staging
  <2> DEFINE a == SrcMgr.Staging
             b == RecycledInsts
             d == created
  <2>1. f[0] = [staging |-> a, recycled |-> b, created |-> d, num |-> N]
    BY DEF WorkingAll
  <2> HIDE DEF a, b, d, N, f
  <2>2. f[0].num = N /\ f[0].staging = a
    BY <2>1
  <2> QED
    BY <2>2 DEF a
<1>5. /\ \A j \in 0 .. Len(s) : T[j] \in TalType(in, s)
      /\ \A j \in 1 .. Len(s) : T[j] = TallyStep(in, T[j-1], s[j])
  BY <1>1, TallySteps
<1> HIDE DEF f, T
<1>6. 0 \in G
  <2>1. OpenTally(in, s, c, 0) = T[c]
    BY DEF OpenTally, T
  <2>2. 0 \in 0 .. n
    BY <1>1
  <2>3. T[c] = Tal(r, N, u)
    BY DEF T
  <2> QED
    BY <1>4, <2>1, <2>2, <2>3
<1>7. ASSUME NEW k \in 1 .. n, k - 1 \in G PROVE k \in G
  <2> DEFINE h == k - 1
             x == s[c+k]
             b == f[h]
             e == f[k]
  <2>1. h \in 0 .. n /\ k \in 0 .. n /\ c + h \in 0 .. Len(s) /\ h \in Nat /\ k # 0
        /\ c + k - 1 = c + h /\ c + h + 1 = c + k
    BY <1>1
  <2>2. OpenTally(in, s, c, h) = Tal(r, b.num, u) /\ b.num - Len(b.staging) = N - L
    BY <1>7
  <2>3. T[c+h] = OpenTally(in, s, c, h)
    <3>1. CASE h = 0
      <4>1. c + h = c
        BY <1>1, <3>1
      <4> QED
        BY <3>1, <4>1 DEF OpenTally, T
    <3>2. CASE h # 0
      <4> HIDE DEF h
      <4>1. OpenTally(in, s, c, h) = Counted(T[c+h-1], s[c+h])
        BY <3>2 DEF OpenTally, T
      <4>2. h \in 1 .. (n - 1) /\ c + h \in 1 .. Len(s)
        <5>1. h < n
          BY <1>1 DEF h
        <5> QED
          BY <1>1, <2>1, <3>2, <5>1
      <4>3. ~s[c+h].last
        BY <4>2 DEF BatchIs
      <4>4. T[c+h] = TallyStep(in, T[c+h-1], s[c+h])
        <5> DEFINE j == c + h
        <5>1. j \in 1 .. Len(s)
          BY <4>2
        <5> HIDE DEF j
        <5>2. T[j] = TallyStep(in, T[j-1], s[j])
          BY <1>5, <5>1
        <5>3. j - 1 = c + (h - 1)
          BY <1>1, <2>1 DEF j
        <5> QED
          BY <5>2, <5>3 DEF j
      <4> QED
        BY <4>1, <4>3, <4>4 DEF TallyStep
    <3> QED
      BY <3>1, <3>2
  <2>4. b \in Working /\ e \in Working
    BY <1>2, <2>1
  <2>5. /\ e.num = MoreCount(fetched.insts[k], b.num)
        /\ Len(e.staging) = MoreCount(fetched.insts[k], Len(b.staging))
    BY <1>2 DEF OneMore
  <2>6. MoreCount(fetched.insts[k], b.num) = MoreCount(x, b.num)
        /\ MoreCount(fetched.insts[k], Len(b.staging)) = MoreCount(x, Len(b.staging))
    BY DEF MoreCount, BatchIs
  <2>7. b.num \in Nat /\ Len(b.staging) \in Nat /\ N - L = b.num - Len(b.staging)
    BY <1>3, <2>2, <2>4
  <2>8. OpenTally(in, s, c, k) = Counted(T[c+h], x)
    BY <2>1 DEF OpenTally, T
  <2> HIDE DEF h, x, b, e
  <2>9. Counted(T[c+h], x) = Tal(r, e.num, u)
    <3> DEFINE t == T[c+h]
    <3>1. t \in TalType(in, s)
      BY <1>5, <2>1
    <3>2. t = Tal(r, b.num, u)
      BY <2>2, <2>3
    <3> HIDE DEF t
    <3>3. t.reports = r /\ t.count = b.num /\ t.unnamed = u
      BY <3>2, TalFields
    <3>4. Counted(t, x) = Tal(t.reports, MoreCount(x, t.count), t.unnamed)
      BY <3>1, CountedType
    <3> QED
      BY <2>5, <2>6, <3>3, <3>4 DEF t
  <2>10. e.num - Len(e.staging) = N - L
    <3>1. CASE Kept(x.op)
      <4>1. e.num = b.num + 1 /\ Len(e.staging) = Len(b.staging) + 1
        BY <2>5, <2>6, <3>1 DEF MoreCount
      <4> QED
        BY <2>7, <4>1
    <3>2. CASE ~Kept(x.op)
      <4>1. e.num = b.num /\ Len(e.staging) = Len(b.staging)
        BY <2>5, <2>6, <3>2 DEF MoreCount
      <4> QED
        BY <2>7, <4>1
    <3> QED
      BY <3>1, <3>2
  <2> QED
    BY <2>1, <2>8, <2>9, <2>10 DEF e
<1>8. n \in G
  <2> HIDE DEF G
  <2> QED
    BY <1>1, <1>6, <1>7, StepByStep
<1>9. f[n] \in Working
  BY <1>1, <1>2
<1> QED
  BY <1>3, <1>8, <1>9 DEF f, N, L

-----------------------------------------------------------------------------
(* The pipeline and the summary view.                                      *)

\* The summary view.
SummaryOf(l, m, p, q) == [LastInstructionIdx |-> l, NumMicroOps |-> m, PairingStack |-> p,
                    printed |-> q]
SetStack(s, x) == [s EXCEPT !.PairingStack = x]
SetPrinted(s, x) == [s EXCEPT !.printed = x]
SetBoth(s, x, y) == [s EXCEPT !.printed = x, !.PairingStack = y]
SetMicroOps(s, x) == [s EXCEPT !.NumMicroOps = x]
SetLast(s, x) == [s EXCEPT !.LastInstructionIdx = x]

\* It is the record of its fields.
LEMMA SummaryFields ==
  ASSUME NEW l, NEW m, NEW p, NEW q, NEW s, s = SummaryOf(l, m, p, q)
  PROVE  s.LastInstructionIdx = l /\ s.NumMicroOps = m
BY DEF SummaryOf

\* One of them is replaced.
LEMMA SummarySet ==
  ASSUME NEW l, NEW m, NEW p, NEW q, NEW s, s = SummaryOf(l, m, p, q), NEW x
  PROVE  /\ SetMicroOps(s, x) = SummaryOf(l, x, p, q) /\ SetLast(s, x) = SummaryOf(x, m, p, q)
         /\ SetStack(s, x) = SummaryOf(l, m, x, q) /\ SetPrinted(s, x) = SummaryOf(l, m, p, x)
<1>1. SetMicroOps(s, x) = SummaryOf(l, x, p, q)
  BY SMT DEF SummaryOf, SetMicroOps
<1>2. SetLast(s, x) = SummaryOf(x, m, p, q)
  BY SMT DEF SummaryOf, SetLast
<1>3. SetStack(s, x) = SummaryOf(l, m, x, q)
  BY SMT DEF SummaryOf, SetStack
<1>4. SetPrinted(s, x) = SummaryOf(l, m, p, x)
  BY SMT DEF SummaryOf, SetPrinted
<1> QED
  BY <1>1, <1>2, <1>3, <1>4

\* Two of them are.
LEMMA SummarySetBoth ==
  ASSUME NEW l, NEW m, NEW p, NEW q, NEW s, s = SummaryOf(l, m, p, q), NEW x, NEW y
  PROVE  SetBoth(s, x, y) = SummaryOf(l, m, y, x)
<1> DEFINE u == [s EXCEPT !.printed = x]
<1>1. u = SummaryOf(l, m, p, x)
  BY SMT DEF SummaryOf
<1>2. SetBoth(s, x, y) = [u EXCEPT !.PairingStack = y]
  BY SMT DEF SetBoth
<1> HIDE DEF u
<1>3. [u EXCEPT !.PairingStack = y] = SummaryOf(l, m, y, x)
  BY <1>1, SMT DEF SummaryOf
<1> QED
  BY <1>2, <1>3

\* Its counters.
Counts(s, l, m) == \E p, q : s = SummaryOf(l, m, p, q)

\* A retired instruction is counted, whatever its markers.
LEMMA RetiredCounts ==
  ASSUME NEW l, NEW m, NEW s, Counts(s, l, m), NEW i, NEW marks, NEW size, i < size
  PROVE  Counts(SummaryRetired(s, i, marks, size), l, m + 1)
<1>1. PICK p, q : s = SummaryOf(l, m, p, q)
  BY DEF Counts
<1> DEFINE view == <<[at |-> i, view |-> CollectData(s, size)]>>
           A == SetStack(s, s.PairingStack \o view)
           B == SetPrinted(s, s.printed \o view)
           C == SetBoth(s, s.printed \o <<Last(s.PairingStack)>> \o view, Front(s.PairingStack))
           marked == CASE marks = {} -> s
                       [] marks = {"begin"} -> A
                       [] marks = {"end"} -> IF s.PairingStack = <<>> THEN B ELSE C
                       [] OTHER -> B
<1>2. SummaryRetired(s, i, marks, size) =
        IF i < size THEN SetMicroOps(marked, marked.NumMicroOps + 1) ELSE marked
  BY DEF SummaryRetired, SetStack, SetPrinted, SetBoth, SetMicroOps
<1>3. Counts(s, l, m)
  OBVIOUS
<1> HIDE DEF view
<1>4. Counts(A, l, m) /\ Counts(B, l, m) /\ Counts(C, l, m)
  <2>1. ASSUME NEW x PROVE Counts(SetStack(s, x), l, m) /\ Counts(SetPrinted(s, x), l, m)
    <3>1. SetStack(s, x) = SummaryOf(l, m, x, q) /\ SetPrinted(s, x) = SummaryOf(l, m, p, x)
      BY <1>1, SummarySet
    <3> QED
      BY <3>1, Zenon DEF Counts
  <2>2. ASSUME NEW x, NEW y PROVE Counts(SetBoth(s, x, y), l, m)
    <3>1. SetBoth(s, x, y) = SummaryOf(l, m, y, x)
      BY <1>1, SummarySetBoth
    <3> QED
      BY <3>1, Zenon DEF Counts
  <2> QED
    BY <2>1, <2>2, Zenon
<1>5. marked \in {s, A, B, C}
  <2> HIDE DEF A, B, C
  <2> QED
    OBVIOUS
<1> HIDE DEF A, B, C
<1>6. Counts(marked, l, m)
  <2> HIDE DEF marked
  <2> QED
    BY <1>3, <1>4, <1>5
<1> HIDE DEF marked
<1>7. PICK p2, q2 : marked = SummaryOf(l, m, p2, q2)
  BY <1>6 DEF Counts
<1> DEFINE k == marked.NumMicroOps + 1
<1>8. k = m + 1
  BY <1>7, SummaryFields
<1>9. SummaryRetired(s, i, marks, size) = SetMicroOps(marked, k)
  BY <1>2
<1> HIDE DEF k
<1>10. SetMicroOps(marked, k) = SummaryOf(l, k, p2, q2)
  BY <1>7, SummarySet
<1> QED
  BY <1>8, <1>9, <1>10 DEF Counts

\* A dispatched instruction is the last one.
LEMMA DispatchedCounts ==
  ASSUME NEW l, NEW m, NEW s, Counts(s, l, m), NEW i
  PROVE  Counts(SummaryDispatched(s, i), i, m)
<1>1. PICK p, q : s = SummaryOf(l, m, p, q)
  BY DEF Counts
<1>2. SummaryDispatched(s, i) = SetLast(s, i)
  BY DEF SummaryDispatched, SetLast
<1>3. SetLast(s, i) = SummaryOf(i, m, p, q)
  BY <1>1, SummarySet
<1> QED
  BY <1>2, <1>3 DEF Counts

\* A view that has seen all n instructions of its source shows n of them.
LEMMA CollectFacts ==
  ASSUME NEW n \in Nat, n > 0, NEW s, Counts(s, n - 1, n)
  PROVE  CollectData(s, n) = [TotalInstructions |-> n, TotalUOps |-> n]
<1>1. s.LastInstructionIdx = n - 1 /\ s.NumMicroOps = n
  <2>1. PICK p, q : s = SummaryOf(n - 1, n, p, q)
    BY DEF Counts
  <2> QED
    BY <2>1, SummaryFields
<1> DEFINE d == (n - 1) \div n
<1>2. d = 0
  OBVIOUS
<1> HIDE DEF d
<1>3. n * (d + 1) = n
  BY <1>2
<1>4. CollectData(s, n) = [TotalInstructions |-> n * (d + 1), TotalUOps |-> n * (d + 1)]
  BY <1>1 DEF CollectData, d
<1> QED
  BY <1>3, <1>4

\* The pipeline of the worker: what is staged and in flight, and what the view has counted.
PipeInv ==
  /\ SourceShape /\ SrcMgr.Staging \in Seq(Instruction) /\ SrcMgr.TotalCounter \in Nat
  /\ RecycledInsts \in SUBSET Instruction /\ created \in Nat /\ NumTraceMIs \in Nat
  /\ flight \in Seq(Copies) /\ Len(flight) <= SrcMgr.TotalCounter
  /\ \A k \in 1 .. Len(flight) : flight[k].idx < SrcMgr.TotalCounter
  /\ NumTraceMIs - Len(SrcMgr.Staging) = SrcMgr.TotalCounter
  /\ \E l : /\ Counts(summary, l, SrcMgr.TotalCounter - Len(flight))
            /\ SrcMgr.TotalCounter > 0 => l = SrcMgr.TotalCounter - 1
  /\ pc = "convert" => BatchType
  /\ pc = "report" => Len(SrcMgr.Staging) = 0 /\ Len(flight) = 0

\* A new pipeline has seen nothing.
NewPipe == /\ SrcMgr = NewSrcMgr /\ RecycledInsts = {} /\ created \in Nat /\ NumTraceMIs = 0
           /\ flight = <<>> /\ summary = NewSummary /\ pc # "convert"

\* It has the invariant.
LEMMA PipeNew == NewPipe => PipeInv
<1> SUFFICES ASSUME NewPipe PROVE PipeInv
  OBVIOUS
<1> USE DEF NewPipe
<1> DEFINE z == <<>>
           f == FALSE
<1>1. SrcMgr = [Staging |-> z, TotalCounter |-> 0, EOS |-> f]
  BY DEF NewSrcMgr
<1>2. z \in Seq(Instruction) /\ z \in Seq(Copies) /\ Len(z) = 0 /\ 1 .. Len(z) = {}
  OBVIOUS
<1>3. summary = SummaryOf(0, 0, z, z)
  BY DEF NewSummary, SummaryOf
<1>4. flight = z
  OBVIOUS
<1> HIDE DEF z, f
<1>5. SourceShape /\ SrcMgr.Staging = z /\ SrcMgr.TotalCounter = 0
  BY <1>1 DEF SourceShape
<1>6. SrcMgr.TotalCounter - Len(flight) = 0 /\ ~(SrcMgr.TotalCounter > 0)
      /\ NumTraceMIs - Len(SrcMgr.Staging) = SrcMgr.TotalCounter
      /\ Len(flight) <= SrcMgr.TotalCounter
  <2>1. Len(flight) = 0 /\ Len(SrcMgr.Staging) = 0
    BY <1>2, <1>4, <1>5
  <2> DEFINE a == Len(flight)
             b == Len(SrcMgr.Staging)
             t == SrcMgr.TotalCounter
             n == NumTraceMIs
  <2>2. a = 0 /\ b = 0 /\ t = 0 /\ n = 0
    BY <1>5, <2>1
  <2> HIDE DEF a, b, t, n
  <2>3. t - a = 0 /\ ~(t > 0) /\ n - b = t /\ a <= t
    BY <2>2
  <2> QED
    BY <2>3 DEF a, b, t, n
<1>7. Counts(summary, 0, SrcMgr.TotalCounter - Len(flight))
  BY <1>3, <1>6 DEF Counts
<1>8. /\ SrcMgr.Staging \in Seq(Instruction) /\ SrcMgr.TotalCounter \in Nat
      /\ RecycledInsts \in SUBSET Instruction /\ NumTraceMIs \in Nat
      /\ flight \in Seq(Copies) /\ 1 .. Len(flight) = {}
      /\ Len(SrcMgr.Staging) = 0 /\ Len(flight) = 0
  BY <1>2, <1>4, <1>5
<1> QED
  BY <1>5, <1>6, <1>7, <1>8, Zenon DEF PipeInv

\* What leaves the pipeline alone keeps PipeInv.
LEMMA PipeSame ==
  ASSUME PipeInv, UNCHANGED <<SrcMgr, RecycledInsts, created, NumTraceMIs, flight, summary>>,
         pc' = "convert" => pc = "convert" /\ UNCHANGED <<fetched, input>>,
         pc' = "report" => Len(SrcMgr.Staging) = 0 /\ Len(flight) = 0
  PROVE  PipeInv'
<1>1. SourceShape' <=> SourceShape
  BY DEF SourceShape
<1>2. pc' = "convert" /\ BatchType => BatchType'
  BY DEF BatchType, Asm
<1>3. PICK l : /\ Counts(summary, l, SrcMgr.TotalCounter - Len(flight))
               /\ SrcMgr.TotalCounter > 0 => l = SrcMgr.TotalCounter - 1
  BY DEF PipeInv
<1>4. /\ Counts(summary', l, SrcMgr'.TotalCounter - Len(flight'))
      /\ SrcMgr'.TotalCounter > 0 => l = SrcMgr'.TotalCounter - 1
  BY <1>3
<1>5. (\E k : /\ Counts(summary, k, SrcMgr.TotalCounter - Len(flight))
              /\ SrcMgr.TotalCounter > 0 => k = SrcMgr.TotalCounter - 1)'
  BY <1>4
<1>6. (pc = "report" => Len(SrcMgr.Staging) = 0 /\ Len(flight) = 0)'
  OBVIOUS
<1>7. (\A k \in 1 .. Len(flight) : flight[k].idx < SrcMgr.TotalCounter)'
  BY DEF PipeInv
<1> QED
  BY <1>1, <1>2, <1>5, <1>6, <1>7 DEF PipeInv

-----------------------------------------------------------------------------
(* The worker has the account of its stream.                               *)

\* The worker has the account t of its stream: its reports r, n instructions in the
\* pipeline of the current region, and number i for the next region without a name.
Account(in, t, r, n, i) == /\ t.reports = r /\ t.count = n
                           /\ in.kind = "asm" \/ in.region => t.unnamed = i

\* What an end in sight is: that of the stream, or that of a region.
Ending ==
  /\ EndOfStream => SrcMgr.EOS /\ given = Len(stream) /\ fetched.name = ""
  /\ SrcMgr.EOS /\ ~EndOfStream =>
       /\ given >= 1 /\ stream[given].last /\ fetched.name = stream[given].name
       /\ input.kind = "asm" \/ input.region

\* It comes with the last instruction of a batch, or without any.
LastBatch(n) ==
  /\ EndOfStream => n = 0
  /\ SrcMgr.EOS /\ ~EndOfStream => n >= 1
  /\ n >= 1 /\ stream[given].last => SrcMgr.EOS

\* The account of what has been converted: the region that ends has not been closed.
Now == IF SrcMgr.EOS /\ ~EndOfStream THEN Counted(Tally(input, stream)[given-1], stream[given])
       ELSE Tally(input, stream)[given]

AtFetch ==
  /\ ~SrcMgr.EOS /\ ~EndOfStream
  /\ Account(input, Tally(input, stream)[given], reports, NumTraceMIs, RegionIdx)
AtConvert(n) ==
  /\ BatchIs(stream, given - n, n) /\ Ending /\ LastBatch(n)
  /\ Account(input, Tally(input, stream)[given - n], reports, NumTraceMIs, RegionIdx)
AtPipeline == Ending /\ Account(input, Now, reports, NumTraceMIs, RegionIdx)

\* The reports so far are those of some part of the stream.
SomeReports == \E k \in 0 .. Len(stream) : reports = Tally(input, stream)[k].reports

\* The inductive invariant behind ReportsAreExact, with PipeInv.
AccountInv ==
  /\ Len(stream) \in Nat /\ given \in 0 .. Len(stream)
  /\ pc = "main" => given = 0
  /\ pc \in {"main", "fetch"} => AtFetch
  /\ pc = "convert" => AtConvert(Len(fetched.insts))
  /\ pc \in {"pipeline", "report"} => AtPipeline
  /\ pc = "report" => SrcMgr.EOS
  /\ pc = "done" => reports = ExpectedReports
  /\ pc # "done" => SomeReports

\* The stream is a sequence.
LEMMA StreamLength ==
  ASSUME IdentInv, BrokerInv
  PROVE  Len(stream) \in Nat /\ (~Asm => stream = input.insts)
<1>1. input \in Inputs /\ stream = StreamOf(input)
  BY DEF BrokerInv
<1>2. CASE Asm
  <2>1. input.kind = "asm"
    BY <1>2 DEF Asm
  <2>2. /\ Exact(input.text, FileRegions(input))
        /\ input.parser => StreamOf(input) = Whole(input.text, FileRegions(input))
        /\ ~input.parser => StreamOf(input) = <<>>
    BY <1>1, <2>1, FileFacts
  <2>3. Len(Whole(input.text, FileRegions(input))) \in Nat
    <3> DEFINE w == Whole(input.text, FileRegions(input))
    <3>1. w \in Seq(Items(w))
      BY <2>2, BeforeFacts
    <3> HIDE DEF w
    <3>2. Len(w) \in Nat
      BY <3>1
    <3> QED
      BY <3>2 DEF w
  <2>4. Len(<<>>) \in Nat
    OBVIOUS
  <2> QED
    BY <1>1, <1>2, <2>2, <2>3, <2>4
<1>3. CASE ~Asm
  <2>1. input.kind = "stream" /\ Len(input.insts) \in Nat
    BY <1>3, StreamFacts
  <2>2. StreamOf(input) = input.insts
    BY <2>1 DEF StreamOf
  <2> QED
    BY <1>1, <2>1, <2>2
<1> QED
  BY <1>2, <1>3

\* A step that leaves the account alone, from the pipeline to where its ends lead.
LEMMA AccountSame ==
  ASSUME AccountInv, pc = "pipeline",
         UNCHANGED <<input, stream, given, fetched, EndOfStream, NumTraceMIs, RegionIdx,
                     reports>>,
         SrcMgr'.EOS <=> SrcMgr.EOS, pc' \in {"pipeline", "fetch", "report", "failed"},
         pc' = "fetch" => ~SrcMgr.EOS, pc' = "report" => SrcMgr.EOS
  PROVE  AccountInv'
<1>1. AtPipeline /\ SomeReports /\ Len(stream) \in Nat /\ given \in 0 .. Len(stream)
  BY DEF AccountInv
<1>2. SomeReports'
  BY <1>1 DEF SomeReports
<1>3. Ending' <=> Ending
  BY DEF Ending
<1>4. Now' = Now
  BY DEF Now
<1>5. AtPipeline'
  BY <1>1, <1>3, <1>4 DEF AtPipeline
<1>6. pc' = "fetch" => AtFetch'
  <2> SUFFICES ASSUME ~SrcMgr.EOS PROVE AtFetch'
    OBVIOUS
  <2>1. ~EndOfStream
    BY <1>1 DEF AtPipeline, Ending
  <2>2. Now = Tally(input, stream)[given]
    BY <2>1 DEF Now
  <2> QED
    BY <1>1, <2>1, <2>2 DEF AtPipeline, AtFetch
<1> QED
  BY <1>1, <1>2, <1>5, <1>6 DEF AccountInv

\* A step that changes nothing of it.
LEMMA AccountStutter ==
  ASSUME AccountInv,
         UNCHANGED <<input, stream, given, fetched, EndOfStream, NumTraceMIs, RegionIdx, reports,
                     SrcMgr, pc>>
  PROVE  AccountInv'
<1>1. SomeReports' <=> SomeReports
  BY DEF SomeReports
<1>2. Ending' <=> Ending
  BY DEF Ending
<1>3. Now' = Now
  BY DEF Now
<1>4. AtPipeline' <=> AtPipeline
  BY <1>2, <1>3 DEF AtPipeline
<1>5. AtFetch' <=> AtFetch
  BY DEF AtFetch
<1>6. AtConvert(Len(fetched.insts))' <=> AtConvert(Len(fetched.insts))
  BY <1>2 DEF AtConvert, BatchIs, LastBatch
<1>7. ExpectedReports' = ExpectedReports
  BY DEF ExpectedReports
<1> QED
  BY <1>1, <1>4, <1>5, <1>6, <1>7 DEF AccountInv

\* Where n more instructions lead.
LEMMA MovedOn ==
  ASSUME NEW g \in Nat, NEW n \in Nat, NEW h, h = g + n
  PROVE  /\ h \in Nat /\ h - n = g /\ (n = 0 => h = g) /\ (n >= 1 => h >= 1)
         /\ \A L \in Nat : h <= L => h \in 0 .. L
OBVIOUS

\* A fetch of the next n instructions, or of the end of the stream.
Fetched(n) ==
  /\ n \in Nat /\ n <= MaxNumProcessedInst
  /\ given' = given + n /\ given + n <= Len(stream)
  /\ UNCHANGED <<input, stream, NumTraceMIs, RegionIdx, reports>> /\ pc' = "convert"
  /\ Len(fetched'.insts) = n
  /\ \A k \in 1 .. n : fetched'.insts[k].op = stream[given+k].op
  /\ \A k \in 1 .. (n - 1) : ~stream[given+k].last
  /\ SrcMgr'.EOS <=> (EndOfStream' \/ (n >= 1 /\ stream[given+n].last))
  /\ EndOfStream' => n = 0 /\ given = Len(stream) /\ fetched'.name = ""
  /\ n >= 1 /\ stream[given+n].last =>
       fetched'.name = stream[given+n].name /\ (input.kind = "asm" \/ input.region)

\* It hands the batch to the conversion.
LEMMA AccountFetched ==
  ASSUME AccountInv, pc = "fetch", NEW n, Fetched(n)
  PROVE  AccountInv'
<1>1. AtFetch /\ SomeReports /\ Len(stream) \in Nat /\ given \in 0 .. Len(stream)
  BY DEF AccountInv
<1>2. n \in Nat /\ given' = given + n /\ given + n <= Len(stream)
  BY DEF Fetched
<1>3. UNCHANGED <<input, stream, NumTraceMIs, RegionIdx, reports>>
  BY DEF Fetched
<1> DEFINE L == Len(stream)
           g == given
           h == given'
<1>4. L \in Nat /\ g \in Nat /\ h = g + n /\ h <= L
  BY <1>1, <1>2
<1> HIDE DEF L, g, h
<1>5. /\ h \in 0 .. L /\ h - n = g /\ (n = 0 => h = g) /\ (n >= 1 => h >= 1)
  BY <1>2, <1>4, MovedOn
<1>6. SomeReports'
  BY <1>1, <1>3 DEF SomeReports
<1>7. BatchIs(stream, given - n, n)'
  <2> DEFINE m == given' - n
  <2>1. m = g
    BY <1>5 DEF h
  <2>2. stream' = stream /\ Len(fetched'.insts) = n
    BY DEF Fetched
  <2>3. /\ \A k \in 1 .. n : fetched'.insts[k].op = stream[g+k].op
        /\ \A k \in 1 .. (n - 1) : ~stream[g+k].last
    BY DEF Fetched, g
  <2> HIDE DEF m
  <2>4. /\ m \in Nat /\ n \in Nat /\ m + n <= Len(stream) /\ Len(stream) \in Nat
        /\ \A k \in 1 .. n : fetched'.insts[k].op = stream[m+k].op
        /\ \A k \in 1 .. (n - 1) : ~stream[m+k].last
    BY <1>2, <1>4, <2>1, <2>3 DEF L
  <2> QED
    BY <2>2, <2>4 DEF BatchIs, m
<1>8. ASSUME EndOfStream' PROVE SrcMgr'.EOS /\ h = L /\ fetched'.name = "" /\ n = 0
  <2>1. SrcMgr'.EOS /\ g = L /\ fetched'.name = "" /\ n = 0
    BY <1>8 DEF Fetched, g, L
  <2> QED
    BY <1>5, <2>1
<1>9. ASSUME SrcMgr'.EOS, ~EndOfStream'
      PROVE  /\ h >= 1 /\ stream[h].last /\ fetched'.name = stream[h].name
             /\ input.kind = "asm" \/ input.region
             /\ n >= 1
  <2>1. n >= 1 /\ stream[g+n].last
    BY <1>9 DEF Fetched, g
  <2>2. fetched'.name = stream[g+n].name /\ (input.kind = "asm" \/ input.region)
    BY <2>1 DEF Fetched, g
  <2> QED
    BY <1>4, <1>5, <2>1, <2>2
<1>10. ASSUME n >= 1, stream[h].last PROVE SrcMgr'.EOS
  <2>1. stream[given+n].last
    BY <1>4, <1>10 DEF g
  <2> QED
    BY <1>10, <2>1 DEF Fetched
<1>11. Ending'
  BY <1>3, <1>8, <1>9 DEF Ending, h, L
<1>12. LastBatch(n)'
  BY <1>3, <1>8, <1>9, <1>10 DEF LastBatch, h
<1>13. Account(input, Tally(input, stream)[given - n], reports, NumTraceMIs, RegionIdx)'
  <2>1. Account(input, Tally(input, stream)[given], reports, NumTraceMIs, RegionIdx)
    BY <1>1 DEF AtFetch
  <2>2. given' - n = given
    BY <1>5 DEF g, h
  <2> QED
    BY <1>3, <2>1, <2>2, Zenon
<1>14. AtConvert(n)'
  BY <1>7, <1>11, <1>12, <1>13 DEF AtConvert
<1>15. AtConvert(Len(fetched.insts))'
  <2>1. Len(fetched'.insts) = n
    BY DEF Fetched
  <2> QED
    BY <1>14, <2>1, Zenon DEF AtConvert, BatchIs, LastBatch
<1>16. pc' = "convert" /\ given' \in 0 .. Len(stream') /\ Len(stream') \in Nat
  BY <1>3, <1>4, <1>5 DEF Fetched, h, L
<1> QED
  BY <1>6, <1>15, <1>16 DEF AccountInv

-----------------------------------------------------------------------------
(* Fetches.                                                                *)

\* What follows a fetch keeps the pipeline as it is.
LEMMA PipeFetched ==
  ASSUME PipeInv, NEW reply, AfterFetch(reply), BatchType'
  PROVE  PipeInv'
<1>1. SourceShape
  BY DEF PipeInv
<1>2. /\ SourceShape' /\ SrcMgr'.Staging = SrcMgr.Staging
      /\ SrcMgr'.TotalCounter = SrcMgr.TotalCounter
      /\ UNCHANGED <<RecycledInsts, created, NumTraceMIs, flight>>
  BY <1>1, AfterFacts
<1>3. pc' = "convert" /\ summary' = summary
  BY DEF AfterFetch, pipelineVars
<1>4. (\E k : /\ Counts(summary, k, SrcMgr.TotalCounter - Len(flight))
              /\ SrcMgr.TotalCounter > 0 => k = SrcMgr.TotalCounter - 1)'
  <2>1. PICK l : /\ Counts(summary, l, SrcMgr.TotalCounter - Len(flight))
                 /\ SrcMgr.TotalCounter > 0 => l = SrcMgr.TotalCounter - 1
    BY DEF PipeInv
  <2> QED
    BY <1>2, <1>3, <2>1
<1>5. (\A k \in 1 .. Len(flight) : flight[k].idx < SrcMgr.TotalCounter)'
  BY <1>2 DEF PipeInv
<1> QED
  BY <1>2, <1>3, <1>4, <1>5 DEF PipeInv

\* The rest of what follows it.
LEMMA AfterRest ==
  ASSUME NEW reply, AfterFetch(reply)
  PROVE  UNCHANGED <<input, stream, NumTraceMIs, RegionIdx, reports>> /\ pc' = "convert"
BY DEF AfterFetch

\* A batch of the assembly file broker.
LEMMA AsmFetched ==
  ASSUME IdentInv, BrokerInv, PipeInv, AccountInv, NEW r, AsmFetch(r)
  PROVE  PipeInv' /\ \E n : Fetched(n)
<1> DEFINE R == AsmReply(r)
           I == [k \in DOMAIN r.insts |-> AsmInst(input.text, r.insts[k])]
           z == <<>>
<1>1. /\ pc = "fetch" /\ input.kind = "asm" /\ AsmReplied(r, input, given)
      /\ given' = given + Len(r.insts) /\ AfterFetch(R)
  BY DEF AsmFetch
<1>2. /\ SourceShape /\ ~SrcMgr.EOS /\ Asm /\ input \in Inputs /\ stream = StreamOf(input)
      /\ Len(stream) \in Nat /\ given \in 0 .. Len(stream)
  BY <1>1 DEF PipeInv, AccountInv, AtFetch, Asm, BrokerInv
<1>3. R = [Len |-> r.Len, rd |-> r.rd, name |-> r.name, insts |-> I, MDIndexMap |-> z]
  BY DEF AsmReply
<1> DEFINE l == r.Len
           d == r.rd
           x == r.name
<1>4. R = [Len |-> l, rd |-> d, name |-> x, insts |-> I, MDIndexMap |-> z]
  BY <1>3
<1> HIDE DEF R, I, z, l, d, x
<1>5. R.Len = l /\ R.rd = d /\ R.name = x /\ R.insts = I
  BY <1>4
<1>6. fetched' = R /\ UNCHANGED <<input, stream, NumTraceMIs, RegionIdx, reports>>
      /\ pc' = "convert"
  BY <1>1, <1>2, AfterFacts, AfterRest
<1>7. (SrcMgr'.EOS <=> (l < 0 \/ d)) /\ (EndOfStream' <=> l < 0)
  BY <1>1, <1>2, <1>5, AfterEOS
<1>8. fetched'.insts = I /\ fetched'.name = x
  BY <1>5, <1>6
<1>9. Asm'
  BY <1>1, <1>6 DEF Asm
<1>10. CASE AsmOver(r, StreamOf(input), given)
  <2>1. l = -1 /\ d /\ x = "" /\ r.insts = <<>> /\ given = Len(stream)
    BY <1>2, <1>10, Zenon DEF AsmOver, l, d, x
  <2>2. l < 0
    <3>1. l = -1
      BY <2>1, Zenon
    <3> QED
      BY <3>1
  <2>3. I \in Seq(MCInsts) /\ Len(I) = 0
    <3>1. DOMAIN r.insts = {}
      <4>1. r.insts = <<>>
        BY <2>1, Zenon
      <4> QED
        BY <4>1
    <3>2. I = <<>>
      BY <3>1 DEF I
    <3> QED
      BY <3>2
  <2>4. BatchType'
    BY <1>8, <1>9, <2>3 DEF BatchType
  <2>5. Len(r.insts) = 0 /\ 0 \in Nat /\ given + 0 = given /\ ~(0 >= 1) /\ 1 .. 0 = {}
        /\ 1 .. (0 - 1) = {}
    <3>1. r.insts = <<>>
      BY <2>1, Zenon
    <3> QED
      BY <1>2, <3>1
  <2>6. Fetched(0)
    <3>1. given' = given + 0 /\ given + 0 <= Len(stream) /\ Len(fetched'.insts) = 0
      BY <1>1, <1>2, <1>8, <2>3, <2>5
    <3>2. SrcMgr'.EOS /\ EndOfStream' /\ given = Len(stream) /\ fetched'.name = ""
      BY <1>7, <1>8, <2>1, <2>2
    <3>3. 0 <= MaxNumProcessedInst
      BY WorkerAssumption
    <3> QED
      BY <1>6, <2>5, <3>1, <3>2, <3>3, Zenon DEF Fetched
  <2> QED
    BY <1>1, <2>4, <2>6, PipeFetched
<1>11. ASSUME NEW n \in Nat,
              AsmBatch(r, input.text, StreamOf(input), given, MaxNumProcessedInst, n)
       PROVE  PipeInv' /\ Fetched(n)
  <2> DEFINE q == r.insts
  <2>1. /\ 1 <= n /\ n <= MaxNumProcessedInst /\ given + n <= Len(stream)
        /\ l = n /\ q \in Seq(Nat) /\ Len(q) = n
        /\ \A k \in 1 .. n : q[k] \in 1 .. Len(input.text)
                             /\ input.text[q[k]].op = stream[given+k].op
        /\ \A k \in 1 .. (n - 1) : ~stream[given+k].last
        /\ d <=> stream[given+n].last
        /\ x = stream[given+n].name
    BY <1>2, <1>11 DEF AsmBatch, l, d, x
  <2>2. ~(l < 0) /\ n >= 1
    BY <2>1
  <2>3. I = [k \in DOMAIN q |-> AsmInst(input.text, q[k])]
    BY DEF I
  <2> HIDE DEF q
  <2>4. DOMAIN q = 1 .. n
    BY <2>1
  <2>5. \A k \in 1 .. n : AsmInst(input.text, q[k]) \in MCInsts
                          /\ AsmInst(input.text, q[k]).op = stream[given+k].op
    <3> SUFFICES ASSUME NEW k \in 1 .. n
                 PROVE  AsmInst(input.text, q[k]) \in MCInsts
                        /\ AsmInst(input.text, q[k]).op = stream[given+k].op
      OBVIOUS
    <3> DEFINE T == [kind : {"inst", "begin", "end", "comment"}, name : STRING, op : STRING]
    <3>1. \A y \in T : y.op \in STRING
      OBVIOUS
    <3>2. input.text \in Seq(T)
      BY <1>1, <1>2, WorkerAssumption DEF InputOK
    <3> DEFINE t == input.text
               p == q[k]
               o == t[p].op
    <3>3. p \in 1 .. Len(t) /\ o = stream[given+k].op
      BY <2>1
    <3>4. AsmInst(t, p) = [op |-> o, key |-> p]
      BY DEF AsmInst
    <3> HIDE DEF T, t
    <3>5. t \in Seq(T)
      BY <3>2 DEF t
    <3>6. o \in STRING /\ p \in Nat
      <4> HIDE DEF p
      <4>1. Len(t) \in Nat /\ t[p] \in T
        BY <3>3, <3>5
      <4> QED
        BY <3>1, <3>3, <4>1
    <3> HIDE DEF p, o
    <3>7. AsmInst(t, p) \in MCInsts /\ AsmInst(t, p).op = o
      BY <3>4, <3>6 DEF MCInsts
    <3> QED
      BY <3>3, <3>7 DEF t, p
  <2>6. I \in Seq(MCInsts) /\ Len(I) = n /\ \A k \in 1 .. n : I[k].op = stream[given+k].op
    <3> DEFINE E(k) == AsmInst(input.text, q[k])
               M == MCInsts
    <3>1. I = [k \in 1 .. n |-> E(k)] /\ \A k \in 1 .. n : E(k) \in M
      BY <2>3, <2>4, <2>5
    <3> HIDE DEF E, M
    <3>2. I \in [1 .. n -> M]
      BY <3>1
    <3>3. I \in Seq(M) /\ Len(I) = n
      BY <3>2
    <3>4. \A k \in 1 .. n : I[k] = E(k)
      BY <3>1
    <3> QED
      BY <2>5, <3>3, <3>4 DEF E, M
  <2>7. BatchType'
    BY <1>8, <1>9, <2>6 DEF BatchType
  <2>8. Fetched(n)
    <3>1. given' = given + n /\ Len(fetched'.insts) = n
          /\ \A k \in 1 .. n : fetched'.insts[k].op = stream[given+k].op
      BY <1>1, <1>8, <2>1, <2>6 DEF q
    <3>2. SrcMgr'.EOS <=> (EndOfStream' \/ (n >= 1 /\ stream[given+n].last))
      BY <1>7, <2>1, <2>2, Zenon
    <3>3. ~EndOfStream'
      BY <1>7, <2>2
    <3>4. fetched'.name = stream[given+n].name
      BY <1>8, <2>1
    <3> QED
      BY <1>1, <1>6, <2>1, <3>1, <3>2, <3>3, <3>4, Zenon DEF Fetched
  <2> QED
    BY <1>1, <2>7, <2>8, PipeFetched
<1> QED
  BY <1>1, <1>10, <1>11 DEF AsmReplied

\* A batch of a broker with a stream.
LEMMA StreamFetched ==
  ASSUME IdentInv, BrokerInv, PipeInv, AccountInv, IdentInv',
         NEW n \in 0 .. MaxNumProcessedInst, FetchStream(n)
  PROVE  PipeInv' /\ Fetched(n)
<1> DEFINE s == input.insts
           I == [k \in 1 .. n |-> [op |-> s[given + k].op, key |-> given + k]]
           X == [k \in 1 .. n |-> given + k - 1]
           end == (n > 0 /\ s[given + n].last)
           name == IF end THEN s[given + n].name ELSE ""
           R == [Len |-> n, rd |-> end, name |-> name, insts |-> I, MDIndexMap |-> X]
<1>1. /\ ~Asm /\ given + n <= Len(s) /\ given' = given + n /\ pc = "fetch"
      /\ \A k \in (given + 1) .. (given + n - 1) : ~s[k].last
      /\ AfterFetch(R)
  BY DEF FetchStream
<1>2. SourceShape /\ ~SrcMgr.EOS
  BY <1>1 DEF PipeInv, AccountInv, AtFetch
<1>3. /\ stream = s /\ Len(s) \in Nat /\ given \in Nat /\ n \in Nat
      /\ \A k \in 1 .. Len(s) : s[k].last => input.region
  <2>1. n \in Nat
    BY WorkerAssumption
  <2> QED
    BY <1>1, <2>1, StreamFacts, StreamLength
<1>4. Len(I) = n /\ \A k \in 1 .. n : I[k].op = s[given + k].op
  BY <1>3
<1>5. (end => name = s[given + n].name) /\ (end <=> (n > 0 /\ s[given + n].last))
  OBVIOUS
<1> HIDE DEF s, I, X, end, name
<1>6. R.Len = n /\ R.rd = end /\ R.insts = I /\ R.name = name
  OBVIOUS
<1> HIDE DEF R
<1>7. fetched' = R /\ UNCHANGED <<input, stream, NumTraceMIs, RegionIdx, reports>>
      /\ pc' = "convert"
  BY <1>1, <1>2, AfterFacts, AfterRest
<1>8. (SrcMgr'.EOS <=> (n < 0 \/ end)) /\ (EndOfStream' <=> n < 0)
  BY <1>1, <1>2, <1>6, AfterEOS
<1>9. ~(n < 0) /\ (n > 0 <=> n >= 1)
  BY <1>3
<1>10. fetched'.insts = I /\ fetched'.name = name
  BY <1>6, <1>7
<1>11. BatchType'
  <2>1. (~Asm)'
    BY <1>1, <1>7 DEF Asm
  <2>2. BatchOK(given)'
    BY <1>7, <2>1 DEF IdentInv
  <2>3. \A k \in 1 .. Len(fetched'.insts) : fetched'.MDIndexMap[k] \in Int
    BY <2>2 DEF BatchOK
  <2>4. fetched'.insts \in Seq(MCInsts)
    BY <2>2 DEF BatchOK, MCInsts
  <2> QED
    BY <2>3, <2>4 DEF BatchType
<1>12. ASSUME NEW k \in 1 .. (n - 1) PROVE ~s[given+k].last
  <2>1. given + k \in (given + 1) .. (given + n - 1)
    BY <1>3
  <2> QED
    BY <1>1, <2>1
<1>13. ASSUME n >= 1, s[given+n].last PROVE fetched'.name = s[given+n].name /\ input.region
  <2>1. end
    BY <1>5, <1>9, <1>13
  <2>2. given + n \in 1 .. Len(s)
    BY <1>1, <1>3, <1>13
  <2> QED
    BY <1>3, <1>5, <1>10, <1>13, <2>1, <2>2
<1>14. SrcMgr'.EOS <=> (EndOfStream' \/ (n >= 1 /\ s[given+n].last))
  BY <1>5, <1>8, <1>9, Zenon
<1>15. n <= MaxNumProcessedInst
  BY WorkerAssumption
<1>16. Fetched(n)
  BY <1>1, <1>3, <1>4, <1>7, <1>8, <1>9, <1>10, <1>12, <1>13, <1>14, <1>15, Zenon
     DEF Fetched
<1> QED
  BY <1>1, <1>11, <1>16, PipeFetched

\* The last reply has no name.
LEMMA EndName ==
  ASSUME NEW a, NEW f, NEW c, NEW z, NEW w, NEW m, NEW g, NEW N,
         N = [Len |-> a, rd |-> f, name |-> c, insts |-> z, MDIndexMap |-> w]
  PROVE  [N EXCEPT !.Len = m, !.rd = g].name = c
OBVIOUS

\* The end of such a stream.
LEMMA EndFetched ==
  ASSUME IdentInv, BrokerInv, PipeInv, AccountInv, FetchStreamEnd
  PROVE  PipeInv' /\ Fetched(0)
<1> DEFINE m == -1
           g == input.region
           R == [NoBatch EXCEPT !.Len = m, !.rd = g]
           z == <<>>
           f == FALSE
           e == ""
<1>1. ~Asm /\ UNCHANGED <<given, MDRegistry>> /\ pc = "fetch" /\ AfterFetch(R)
      /\ given = Len(input.insts)
  BY DEF FetchStreamEnd, brokerVars
<1>2. SourceShape /\ ~SrcMgr.EOS
  BY <1>1 DEF PipeInv, AccountInv, AtFetch
<1>3. NoBatch = [Len |-> 0, rd |-> f, name |-> e, insts |-> z, MDIndexMap |-> z]
  BY DEF NoBatch
<1>4. Len(z) = 0 /\ m < 0 /\ z \in Seq(MCInsts) /\ 1 .. Len(z) = {}
  OBVIOUS
<1> HIDE DEF z, m, g, f, e
<1>5. R.Len = m /\ R.rd = g /\ R.insts = z
  BY <1>3, EndReply
<1>6. R.name = e
  BY <1>3, EndName
<1> HIDE DEF R
<1>7. fetched' = R /\ UNCHANGED <<input, stream, NumTraceMIs, RegionIdx, reports>>
      /\ pc' = "convert"
  BY <1>1, <1>2, AfterFacts, AfterRest
<1>8. (SrcMgr'.EOS <=> (m < 0 \/ g)) /\ (EndOfStream' <=> m < 0)
  BY <1>1, <1>2, <1>5, AfterEOS
<1>9. fetched'.insts = z /\ fetched'.name = ""
  BY <1>5, <1>6, <1>7 DEF e
<1>10. BatchType'
  BY <1>4, <1>9 DEF BatchType
<1>11. stream = input.insts /\ given \in Nat /\ given = Len(stream)
  BY <1>1, StreamFacts, StreamLength
<1>12. 0 \in Nat /\ given + 0 = given /\ given <= given
       /\ ~(0 >= 1) /\ 1 .. 0 = {} /\ 1 .. (0 - 1) = {}
  BY <1>11
<1>13. SrcMgr'.EOS /\ EndOfStream'
  BY <1>4, <1>8
<1>14. given' = given + 0 /\ given + 0 <= Len(stream) /\ Len(fetched'.insts) = 0
  BY <1>1, <1>4, <1>9, <1>11, <1>12
<1>15. 0 <= MaxNumProcessedInst
  BY WorkerAssumption
<1>16. Fetched(0)
  BY <1>7, <1>9, <1>11, <1>12, <1>13, <1>14, <1>15, Zenon DEF Fetched
<1> QED
  BY <1>1, <1>10, <1>16, PipeFetched

-----------------------------------------------------------------------------
(* Conversion.                                                             *)

\* At the end of a batch the account of the conversion is the one of the pipeline.
LEMMA NowOpen ==
  ASSUME NEW n, AtConvert(n), given \in Nat
  PROVE  Now = OpenTally(input, stream, given - n, n)
<1> DEFINE T == Tally(input, stream)
           c == given - n
<1>1. /\ c \in Nat /\ n \in Nat /\ c + n <= Len(stream) /\ Len(stream) \in Nat
      /\ Ending /\ LastBatch(n)
  BY DEF AtConvert, BatchIs
<1>2. c + n = given /\ c + n - 1 = given - 1 /\ (n = 0 => c = given)
  BY <1>1
<1>3. given \in 0 .. Len(stream) /\ (n # 0 => n >= 1 /\ given \in 1 .. Len(stream))
  BY <1>1, <1>2
<1>4. CASE n = 0
  <2>1. ~(SrcMgr.EOS /\ ~EndOfStream)
    BY <1>1, <1>4 DEF LastBatch
  <2>2. Now = T[given]
    BY <2>1 DEF Now
  <2> QED
    BY <1>2, <1>4, <2>2 DEF OpenTally
<1>5. CASE n # 0
  <2>1. OpenTally(input, stream, given - n, n) = Counted(T[given-1], stream[given])
    BY <1>2, <1>5 DEF OpenTally
  <2>2. ~EndOfStream
    BY <1>1, <1>5 DEF LastBatch
  <2>3. CASE SrcMgr.EOS
    BY <2>1, <2>2, <2>3 DEF Now
  <2>4. CASE ~SrcMgr.EOS
    <3>1. ~stream[given].last
      BY <1>1, <1>3, <1>5, <2>4 DEF LastBatch
    <3>2. T[given] = TallyStep(input, T[given-1], stream[given])
      BY <1>1, <1>3, <1>5, TallySteps
    <3>3. T[given] = Counted(T[given-1], stream[given])
      BY <3>1, <3>2 DEF TallyStep
    <3> QED
      BY <2>1, <2>4, <3>3 DEF Now
  <2> QED
    BY <2>3, <2>4
<1> QED
  BY <1>4, <1>5

\* Where the conversion leads.
LEMMA ConvertPlace ==
  ASSUME SourceShape, NEW b, b = Converted[Len(fetched.insts)], Convert
  PROVE  /\ SourceShape' /\ SrcMgr'.Staging = b.staging
         /\ SrcMgr'.TotalCounter = SrcMgr.TotalCounter /\ (SrcMgr'.EOS <=> SrcMgr.EOS)
         /\ RecycledInsts' = b.recycled /\ created' = b.created /\ NumTraceMIs' = b.num
         /\ pc = "convert"
         /\ b.num > 0 => pc' = "pipeline"
         /\ b.num = 0 => pc' = IF SrcMgr.EOS THEN "report" ELSE "fetch"
         /\ UNCHANGED <<input, stream, given, fetched, EndOfStream, RegionIdx, reports,
                        flight, summary>>
<1>1. /\ SrcMgr' = [SrcMgr EXCEPT !.Staging = b.staging]
      /\ RecycledInsts' = b.recycled /\ created' = b.created /\ NumTraceMIs' = b.num
      /\ pc = "convert"
      /\ UNCHANGED <<input, stream, given, fetched, EndOfStream, RegionIdx, reports,
                     flight, summary>>
  BY DEF Convert, brokerVars, loopVars, pipelineVars
<1>2. pc' = CASE b.num > 0 -> "pipeline"
              [] b.num = 0 /\ SrcMgr.EOS -> "report"
              [] OTHER -> "fetch"
  BY DEF Convert
<1> DEFINE q == b.staging
           e == SrcMgr.EOS
           m == b.num
<1>3. SrcMgr' = [Staging |-> q, TotalCounter |-> SrcMgr.TotalCounter, EOS |-> e]
  BY <1>1 DEF SourceShape
<1>4. pc' = CASE m > 0 -> "pipeline"
              [] m = 0 /\ e -> "report"
              [] OTHER -> "fetch"
  BY <1>2
<1> HIDE DEF q, e, m
<1>5. SourceShape' /\ SrcMgr'.Staging = q /\ SrcMgr'.TotalCounter = SrcMgr.TotalCounter
      /\ SrcMgr'.EOS = e
  BY <1>3 DEF SourceShape
<1>6. m > 0 => pc' = "pipeline"
  <2>1. m > 0 => ~(m = 0)
    OBVIOUS
  <2> QED
    BY <1>4, <2>1
<1>7. m = 0 => pc' = IF e THEN "report" ELSE "fetch"
  <2>1. m = 0 => ~(m > 0)
    OBVIOUS
  <2> QED
    BY <1>4, <2>1
<1>8. SrcMgr'.EOS <=> SrcMgr.EOS
  BY <1>5, Zenon DEF e
<1> QED
  BY <1>1, <1>5, <1>6, <1>7, <1>8, Zenon DEF q, e, m

\* The conversion stages and counts what is to be simulated.
LEMMA ConvertKeeps ==
  ASSUME PipeInv, AccountInv, Convert
  PROVE  PipeInv' /\ AccountInv'
<1> DEFINE n == Len(fetched.insts)
           b == Converted[n]
           c == given - n
           T == Tally(input, stream)
           t == T[c]
<1>1. /\ SourceShape /\ SrcMgr.Staging \in Seq(Instruction) /\ SrcMgr.TotalCounter \in Nat
      /\ RecycledInsts \in SUBSET Instruction /\ created \in Nat /\ NumTraceMIs \in Nat
      /\ flight \in Seq(Copies) /\ Len(flight) <= SrcMgr.TotalCounter
      /\ NumTraceMIs - Len(SrcMgr.Staging) = SrcMgr.TotalCounter
      /\ pc = "convert" /\ BatchType
  BY DEF PipeInv, Convert
<1>2. /\ AtConvert(n) /\ SomeReports /\ Len(stream) \in Nat /\ given \in 0 .. Len(stream)
  BY <1>1 DEF AccountInv
<1>3. given \in Nat
  BY <1>2
<1>4. /\ BatchIs(stream, c, n) /\ Ending
      /\ Account(input, t, reports, NumTraceMIs, RegionIdx)
  BY <1>2 DEF AtConvert
<1>5. WorkingAll(n)
  BY <1>1, WorkingFacts
<1>6. t \in TalType(input, stream)
  <2>1. c \in 0 .. Len(stream)
    BY <1>2, <1>3, <1>4 DEF BatchIs
  <2> QED
    BY <1>2, <2>1, TallySteps
<1>7. t = Tal(reports, NumTraceMIs, t.unnamed)
  BY <1>4, <1>6, TalFacts DEF Account
<1>8. /\ OpenTally(input, stream, c, n) = Tal(reports, b.num, t.unnamed)
      /\ b.num \in Nat /\ b.staging \in Seq(Instruction)
      /\ b.num - Len(b.staging) = NumTraceMIs - Len(SrcMgr.Staging)
  <2> DEFINE u == t.unnamed
  <2>1. Tally(input, stream)[c] = Tal(reports, NumTraceMIs, u)
    BY <1>7
  <2> HIDE DEF n, c, u
  <2>2. /\ OpenTally(input, stream, c, n) = Tal(reports, Converted[n].num, u)
        /\ Converted[n].num \in Nat /\ Converted[n].staging \in Seq(Instruction)
        /\ Converted[n].num - Len(Converted[n].staging) = NumTraceMIs - Len(SrcMgr.Staging)
    <3>1. BatchIs(stream, c, n) /\ WorkingAll(n)
      BY <1>4, <1>5
    <3> QED
      BY <2>1, <3>1, ConvertTally
  <2> QED
    BY <2>2 DEF u
<1>9. b \in Working
  <2>1. n \in 0 .. n
    BY <1>5 DEF WorkingAll
  <2> QED
    BY <1>5, <2>1 DEF WorkingAll
<1>10. b.recycled \in SUBSET Instruction /\ b.created \in Nat
  BY <1>9 DEF Working
<1>11. /\ SourceShape' /\ SrcMgr'.Staging = b.staging
       /\ SrcMgr'.TotalCounter = SrcMgr.TotalCounter /\ (SrcMgr'.EOS <=> SrcMgr.EOS)
       /\ RecycledInsts' = b.recycled /\ created' = b.created /\ NumTraceMIs' = b.num
       /\ b.num > 0 => pc' = "pipeline"
       /\ b.num = 0 => pc' = IF SrcMgr.EOS THEN "report" ELSE "fetch"
       /\ UNCHANGED <<input, stream, given, fetched, EndOfStream, RegionIdx, reports,
                      flight, summary>>
  BY <1>1, ConvertPlace
<1>12. Now = Tal(reports, b.num, t.unnamed)
  BY <1>2, <1>3, <1>8, NowOpen
<1>13. Account(input, Now, reports, b.num, RegionIdx)
  <2> DEFINE w == Now
             u == t.unnamed
  <2>1. w.reports = reports /\ w.count = b.num /\ w.unnamed = u
    <3> HIDE DEF w, u, b
    <3> QED
      BY <1>12, TalFields DEF w, u
  <2> QED
    BY <1>4, <2>1 DEF Account
<1> DEFINE N == b.num
           Q == b.staging
<1> HIDE DEF b, t, T, n, c
<1>14. N \in Nat /\ (N > 0 \/ N = 0)
  BY <1>8
<1>15. pc' \in {"pipeline", "report", "fetch"} /\ (pc' = "report" => N = 0 /\ SrcMgr.EOS)
       /\ (pc' = "fetch" => ~SrcMgr.EOS)
  BY <1>11, <1>14
<1>16. N - Len(Q) = SrcMgr.TotalCounter /\ Len(Q) \in Nat
  BY <1>1, <1>8
<1>17. (pc = "report" => Len(SrcMgr.Staging) = 0 /\ Len(flight) = 0)'
  <2>1. Len(flight) \in Nat
    BY <1>1
  <2>2. N = 0 => Len(Q) = 0 /\ Len(flight) = 0
    <3> DEFINE i == Len(Q)
               j == Len(flight)
               k == SrcMgr.TotalCounter
    <3>1. i \in Nat /\ j \in Nat /\ k \in Nat /\ N - i = k /\ j <= k
      BY <1>1, <1>16, <2>1
    <3> HIDE DEF i, j, k, N
    <3>2. N = 0 => i = 0 /\ j = 0
      BY <3>1
    <3> QED
      BY <3>2 DEF i, j
  <2> QED
    BY <1>11, <1>15, <2>2
<1>18. (\E k : /\ Counts(summary, k, SrcMgr.TotalCounter - Len(flight))
               /\ SrcMgr.TotalCounter > 0 => k = SrcMgr.TotalCounter - 1)'
  <2>1. PICK l : /\ Counts(summary, l, SrcMgr.TotalCounter - Len(flight))
                 /\ SrcMgr.TotalCounter > 0 => l = SrcMgr.TotalCounter - 1
    BY DEF PipeInv
  <2> QED
    BY <1>11, <2>1
<1>19. (\A k \in 1 .. Len(flight) : flight[k].idx < SrcMgr.TotalCounter)'
  BY <1>11 DEF PipeInv
<1>20. PipeInv'
  <2>1. (NumTraceMIs - Len(SrcMgr.Staging) = SrcMgr.TotalCounter)'
    BY <1>11, <1>16
  <2>2. (/\ SourceShape /\ SrcMgr.Staging \in Seq(Instruction) /\ SrcMgr.TotalCounter \in Nat
         /\ RecycledInsts \in SUBSET Instruction /\ created \in Nat /\ NumTraceMIs \in Nat
         /\ flight \in Seq(Copies) /\ Len(flight) <= SrcMgr.TotalCounter)'
    BY <1>1, <1>8, <1>10, <1>11
  <2>3. pc' # "convert"
    BY <1>15
  <2> QED
    BY <1>17, <1>18, <1>19, <2>1, <2>2, <2>3 DEF PipeInv
<1>21. SomeReports'
  BY <1>2, <1>11 DEF SomeReports
<1>22. Ending' /\ Now' = Now
  BY <1>4, <1>11 DEF Ending, Now
<1>23. AtPipeline'
  <2>1. Account(input, Now, reports, NumTraceMIs, RegionIdx)'
    BY <1>11, <1>13, <1>22
  <2> QED
    BY <1>22, <2>1 DEF AtPipeline
<1>24. pc' = "fetch" => AtFetch'
  <2> SUFFICES ASSUME ~SrcMgr.EOS PROVE AtFetch'
    BY <1>15
  <2>1. ~EndOfStream
    BY <1>4 DEF Ending
  <2>2. Now = Tally(input, stream)[given]
    BY <2>1 DEF Now
  <2> QED
    BY <1>11, <1>13, <2>1, <2>2 DEF AtFetch
<1>25. AccountInv'
  BY <1>2, <1>11, <1>15, <1>21, <1>23, <1>24 DEF AccountInv
<1> QED
  BY <1>20, <1>25

-----------------------------------------------------------------------------
(* The steps of the pipeline.                                              *)

\* The entry stage takes an instruction: one fewer is staged, one more in flight.
LEMMA DispatchKeeps ==
  ASSUME PipeInv, AccountInv, Dispatch
  PROVE  PipeInv' /\ AccountInv'
<1> DEFINE q == SrcMgr.Staging
           i == Head(q)
           N == SrcMgr.TotalCounter
           x == [key |-> i.key, ident |-> i.ident, idx |-> N]
           w == Tail(q)
           v == N + 1
           a == Len(q)
           d == Len(flight)
<1>1. /\ SourceShape /\ q \in Seq(Instruction) /\ N \in Nat
      /\ RecycledInsts \in SUBSET Instruction /\ created \in Nat /\ NumTraceMIs \in Nat
      /\ flight \in Seq(Copies) /\ d <= N
      /\ \A k \in 1 .. d : flight[k].idx < N
      /\ NumTraceMIs - a = N
  BY DEF PipeInv
<1>2. /\ pc = "pipeline" /\ q # <<>>
      /\ SrcMgr' = [SrcMgr EXCEPT !.Staging = w, !.TotalCounter = v]
      /\ RecycledInsts' = RecycledInsts \cup {i}
      /\ flight' = Append(flight, x)
      /\ summary' = SummaryDispatched(summary, N)
      /\ UNCHANGED <<input, stream, pc, given, fetched, EndOfStream, RegionIdx, NumTraceMIs,
                     created, reports>>
  BY DEF Dispatch, brokerVars, loopVars
<1>3. PICK l : /\ Counts(summary, l, N - d)
               /\ N > 0 => l = N - 1
  BY DEF PipeInv
<1>4. i \in Instruction /\ w \in Seq(Instruction) /\ a \in Nat /\ Len(w) = a - 1
  <2> HIDE DEF q
  <2> QED
    BY <1>1, <1>2
<1> HIDE DEF q, w, N, v
<1>5. SourceShape' /\ SrcMgr'.Staging = w /\ SrcMgr'.TotalCounter = v
      /\ (SrcMgr'.EOS <=> SrcMgr.EOS)
  <2> DEFINE e == SrcMgr.EOS
  <2>1. SrcMgr = [Staging |-> q, TotalCounter |-> N, EOS |-> e]
    BY <1>1 DEF SourceShape, q, N
  <2> HIDE DEF e
  <2>2. SrcMgr' = [Staging |-> w, TotalCounter |-> v, EOS |-> e]
    BY <1>2, <2>1
  <2>3. SourceShape' /\ SrcMgr'.Staging = w /\ SrcMgr'.TotalCounter = v /\ SrcMgr'.EOS = e
    BY <2>2 DEF SourceShape
  <2> QED
    BY <2>3 DEF e
<1> HIDE DEF i
<1>6. x \in Copies
  BY <1>1, <1>4 DEF Copies, Instruction
<1>7. x.idx = N
  OBVIOUS
<1> HIDE DEF x
<1>8. flight' \in Seq(Copies) /\ Len(flight') = d + 1 /\ d \in Nat
      /\ \A k \in 1 .. (d + 1) : flight'[k] = IF k <= d THEN flight[k] ELSE x
  <2> DEFINE C == Copies
  <2>1. flight \in Seq(C) /\ x \in C
    BY <1>1, <1>6
  <2> HIDE DEF C
  <2>2. flight' \in Seq(C) /\ Len(flight') = d + 1 /\ d \in Nat
    BY <1>2, <2>1
  <2>3. ASSUME NEW k \in 1 .. (d + 1) PROVE flight'[k] = IF k <= d THEN flight[k] ELSE x
    BY <1>2, <2>1, <2>2
  <2> QED
    BY <2>2, <2>3 DEF C
<1>9. v = N + 1
  BY DEF v
<1> DEFINE f == Len(flight')
           b == Len(w)
<1>10. f = d + 1 /\ b = a - 1
  BY <1>4, <1>8
<1> HIDE DEF a, d, f, b
<1>11. v \in Nat /\ f <= v /\ NumTraceMIs - b = v /\ v - f = N - d /\ v - 1 = N
  BY <1>1, <1>4, <1>8, <1>9, <1>10
<1>12. Counts(summary', N, v - f)
  <2>1. Counts(summary', N, N - d)
    BY <1>2, <1>3, DispatchedCounts
  <2> QED
    BY <1>11, <2>1
<1>13. ASSUME NEW k \in 1 .. f PROVE flight'[k].idx < v
  <2>1. k \in 1 .. (d + 1)
    BY <1>10
  <2>2. CASE k <= d
    <3>1. k \in 1 .. d /\ flight'[k] = flight[k]
      BY <1>8, <2>1, <2>2
    <3> DEFINE y == flight[k]
    <3>2. y \in Copies
      BY <1>1, <3>1 DEF d
    <3>3. y.idx \in Nat
      <4> HIDE DEF y
      <4> QED
        BY <3>2 DEF Copies
    <3>4. y.idx < N
      BY <1>1, <3>1
    <3> HIDE DEF y
    <3>5. y.idx < v
      BY <1>1, <1>9, <3>3, <3>4
    <3> QED
      BY <3>1, <3>5 DEF y
  <2>3. CASE ~(k <= d)
    <3>1. flight'[k] = x
      BY <1>8, <2>1, <2>3
    <3> QED
      BY <1>1, <1>7, <1>9, <3>1
  <2> QED
    BY <2>2, <2>3
<1>14. RecycledInsts' \in SUBSET Instruction
  BY <1>1, <1>2, <1>4
<1>15. (\E k : /\ Counts(summary, k, SrcMgr.TotalCounter - Len(flight))
               /\ SrcMgr.TotalCounter > 0 => k = SrcMgr.TotalCounter - 1)'
  BY <1>5, <1>11, <1>12 DEF f
<1>16. (\A k \in 1 .. Len(flight) : flight[k].idx < SrcMgr.TotalCounter)'
  BY <1>5, <1>13 DEF f
<1>17. (/\ SourceShape /\ SrcMgr.Staging \in Seq(Instruction) /\ SrcMgr.TotalCounter \in Nat
        /\ RecycledInsts \in SUBSET Instruction /\ created \in Nat /\ NumTraceMIs \in Nat
        /\ flight \in Seq(Copies) /\ Len(flight) <= SrcMgr.TotalCounter
        /\ NumTraceMIs - Len(SrcMgr.Staging) = SrcMgr.TotalCounter)'
  BY <1>1, <1>2, <1>4, <1>5, <1>8, <1>11, <1>14 DEF f, b
<1>18. pc' = "pipeline"
  BY <1>2
<1>19. PipeInv'
  BY <1>15, <1>16, <1>17, <1>18 DEF PipeInv
<1>20. AccountInv'
  BY <1>2, <1>5, AccountSame
<1> QED
  BY <1>19, <1>20

\* The oldest instruction retires: the view counts it.
LEMMA RetireKeeps ==
  ASSUME PipeInv, AccountInv, Retire
  PROVE  PipeInv' /\ AccountInv'
<1> DEFINE N == SrcMgr.TotalCounter
           i == Head(flight)
           h == i.idx
           marks == Markers(MDRegistry, i.ident)
           a == Len(SrcMgr.Staging)
           d == Len(flight)
           f == Len(flight')
<1>1. /\ SourceShape /\ SrcMgr.Staging \in Seq(Instruction) /\ N \in Nat
      /\ RecycledInsts \in SUBSET Instruction /\ created \in Nat /\ NumTraceMIs \in Nat
      /\ flight \in Seq(Copies) /\ d <= N
      /\ \A k \in 1 .. d : flight[k].idx < N
      /\ NumTraceMIs - a = N
  BY DEF PipeInv
<1>2. /\ pc = "pipeline" /\ flight # <<>> /\ flight' = Tail(flight)
      /\ summary' = SummaryRetired(summary, h, marks, NumTraceMIs)
      /\ UNCHANGED <<input, stream, pc, given, fetched, EndOfStream, RegionIdx, NumTraceMIs,
                     SrcMgr, RecycledInsts, created, reports>>
  BY DEF Retire, brokerVars, loopVars, instVars
<1>3. PICK l : /\ Counts(summary, l, N - d)
               /\ N > 0 => l = N - 1
  BY DEF PipeInv
<1>4. /\ flight' \in Seq(Copies) /\ d \in Nat /\ f = d - 1 /\ 1 <= d
      /\ i = flight[1] /\ i \in Copies
      /\ \A k \in 1 .. f : k + 1 \in 1 .. d /\ flight'[k] = flight[k+1]
  <2> DEFINE C == Copies
  <2>1. flight \in Seq(C)
    BY <1>1
  <2> HIDE DEF C
  <2>2. flight' \in Seq(C) /\ d \in Nat /\ f = d - 1 /\ 1 <= d /\ i = flight[1]
    BY <1>2, <2>1
  <2>3. i \in C
    BY <2>1, <2>2
  <2>4. ASSUME NEW k \in 1 .. f PROVE k + 1 \in 1 .. d /\ flight'[k] = flight[k+1]
    BY <1>2, <2>1, <2>2
  <2> QED
    BY <2>2, <2>3, <2>4 DEF C
<1>5. h \in Nat /\ h < N
  <2>1. h < N
    BY <1>1, <1>4
  <2> HIDE DEF i
  <2> QED
    BY <1>4, <2>1 DEF Copies
<1>6. a \in Nat
  BY <1>1
<1> HIDE DEF N, a, d, f, h, marks
<1>7. h < NumTraceMIs /\ f <= N /\ N - f = N - d + 1
  BY <1>1, <1>4, <1>5, <1>6
<1>8. Counts(summary', l, N - f)
  <2> DEFINE m == N - d
             NT == NumTraceMIs
  <2>1. Counts(summary, l, m) /\ h < NT
    BY <1>3, <1>7
  <2> HIDE DEF m, NT
  <2>2. Counts(SummaryRetired(summary, h, marks, NT), l, m + 1)
    BY <2>1, RetiredCounts
  <2> QED
    BY <1>2, <1>7, <2>2 DEF m, NT
<1>9. ASSUME NEW k \in 1 .. f PROVE flight'[k].idx < N
  <2> DEFINE j == k + 1
  <2>1. j \in 1 .. d /\ flight'[k] = flight[j]
    BY <1>4
  <2> HIDE DEF j
  <2> QED
    BY <1>1, <2>1
<1>10. (\E k : /\ Counts(summary, k, SrcMgr.TotalCounter - Len(flight))
               /\ SrcMgr.TotalCounter > 0 => k = SrcMgr.TotalCounter - 1)'
  BY <1>2, <1>3, <1>8 DEF f, N
<1>11. (\A k \in 1 .. Len(flight) : flight[k].idx < SrcMgr.TotalCounter)'
  BY <1>2, <1>9 DEF f, N
<1>12. SourceShape'
  BY <1>1, <1>2 DEF SourceShape
<1>13. (/\ SrcMgr.Staging \in Seq(Instruction) /\ SrcMgr.TotalCounter \in Nat
        /\ RecycledInsts \in SUBSET Instruction /\ created \in Nat /\ NumTraceMIs \in Nat
        /\ flight \in Seq(Copies) /\ Len(flight) <= SrcMgr.TotalCounter
        /\ NumTraceMIs - Len(SrcMgr.Staging) = SrcMgr.TotalCounter)'
  BY <1>1, <1>2, <1>4, <1>7 DEF f, N, a
<1>14. PipeInv'
  BY <1>2, <1>10, <1>11, <1>12, <1>13 DEF PipeInv
<1>15. AccountInv'
  BY <1>2, AccountSame
<1> QED
  BY <1>14, <1>15

\* A new pipeline after a step.
LEMMA PipeNewNext ==
  ASSUME ResetPipeline, created \in Nat, created' = created, pc' # "convert"
  PROVE  PipeInv'
<1>1. NewPipe'
  BY DEF ResetPipeline, NewPipe
<1> QED
  BY <1>1, PipeNew, PTL

\* What a region or the whole stream reports, once everything has retired.
LEMMA PrintFacts ==
  ASSUME PipeInv, pc = "report", NEW name
  PROVE  PrintMCA(name) = IF NumTraceMIs = 0 THEN reports
                          ELSE Append(reports, [name |-> name,
                                 view |-> [TotalInstructions |-> NumTraceMIs,
                                           TotalUOps |-> NumTraceMIs]])
<1> DEFINE n == NumTraceMIs
           k == SrcMgr.TotalCounter
           a == Len(SrcMgr.Staging)
           d == Len(flight)
<1>1. n \in Nat /\ k \in Nat /\ a = 0 /\ d = 0 /\ n - a = k
  BY DEF PipeInv
<1>2. PICK l : Counts(summary, l, k - d) /\ (k > 0 => l = k - 1)
  BY DEF PipeInv
<1>3. CASE n = 0
  BY <1>3 DEF PrintMCA
<1>4. CASE n # 0
  <2> HIDE DEF n, k, a, d
  <2>1. n > 0 /\ k = n /\ k - d = n /\ k > 0 /\ l = n - 1
    BY <1>1, <1>2, <1>4
  <2>2. Counts(summary, n - 1, n)
    BY <1>2, <2>1
  <2>3. CollectData(summary, n) = [TotalInstructions |-> n, TotalUOps |-> n]
    BY <1>1, <2>1, <2>2, CollectFacts
  <2> QED
    BY <1>4, <2>3 DEF PrintMCA, n
<1> QED
  BY <1>3, <1>4

-----------------------------------------------------------------------------
(* Reports.                                                                *)

\* The title printMCA gets.
TitleNow == IF ~UseRegion THEN <<>>
            ELSE IF fetched.name # "" THEN <<fetched.name>>
            ELSE <<"Region", RegionIdx>>

\* A report is that of the account when its region is closed.
LEMMA ReportClosed ==
  ASSUME PipeInv, pc = "report", NEW t \in TalType(input, stream),
         Account(input, t, reports, NumTraceMIs, RegionIdx), fetched.name \in NamesOf(stream)
  PROVE  /\ Closed(input, t, fetched.name).reports = PrintMCA(TitleNow)
         /\ Closed(input, t, fetched.name).count = 0
         /\ UseRegion => Closed(input, t, fetched.name).unnamed
                           = IF fetched.name = "" THEN RegionIdx + 1 ELSE RegionIdx
<1> DEFINE x == fetched.name
           r == reports
           n == NumTraceMIs
           u == t.unnamed
           C == Closed(input, t, x)
<1>1. t.reports = r /\ t.count = n /\ (UseRegion => u = RegionIdx)
  BY DEF Account, UseRegion, Asm
<1>2. C = Tal(MoreReports(input, x, r, n, u), 0, MoreUnnamed(x, u))
  <2>1. C = Tal(MoreReports(input, x, t.reports, t.count, t.unnamed), 0,
                MoreUnnamed(x, t.unnamed))
    BY ClosedType
  <2> QED
    BY <1>1, <2>1
<1>3. TitleNow = Title(input, x, u)
  BY <1>1 DEF TitleNow, Title, UseRegion, Asm
<1>4. PrintMCA(TitleNow) = MoreReports(input, x, r, n, u)
  <2> DEFINE w == TitleNow
  <2>1. PrintMCA(w) = IF n = 0 THEN r
                      ELSE Append(r, [name |-> w, view |-> [TotalInstructions |-> n,
                                                             TotalUOps |-> n]])
    BY PrintFacts
  <2> HIDE DEF n, r
  <2>2. Rep(input, x, u, n) = [name |-> w, view |-> [TotalInstructions |-> n, TotalUOps |-> n]]
    BY <1>3 DEF Rep
  <2> QED
    BY <2>1, <2>2, Zenon DEF MoreReports
<1>5. UseRegion => MoreUnnamed(x, u) = IF x = "" THEN RegionIdx + 1 ELSE RegionIdx
  BY <1>1 DEF MoreUnnamed
<1> DEFINE M == MoreReports(input, x, r, n, u)
           V == MoreUnnamed(x, u)
<1> HIDE DEF C, x, u
<1>6. C.reports = M /\ C.count = 0 /\ C.unnamed = V
  <2> HIDE DEF M, V
  <2>1. C = Tal(M, 0, V)
    BY <1>2 DEF M, V
  <2> QED
    BY <2>1, TalFields
<1> QED
  BY <1>4, <1>5, <1>6 DEF C, x, M, V

\* The end of a region or of the stream.
LEMMA ReportKeeps ==
  ASSUME PipeInv, AccountInv, Report
  PROVE  PipeInv' /\ AccountInv'
<1> DEFINE T == Tally(input, stream)
           x == fetched.name
<1>1. /\ pc = "report" /\ reports' = PrintMCA(TitleNow)
      /\ UseRegion => RegionIdx' = IF x = "" THEN RegionIdx + 1 ELSE RegionIdx
      /\ pc' = IF EndOfStream THEN "done" ELSE "fetch"
      /\ UNCHANGED <<input, stream, given, fetched, EndOfStream, created>>
  BY DEF Report, TitleNow, brokerVars
<1>2. IF ~EndOfStream /\ UseRegion THEN ResetPipeline ELSE UNCHANGED resetVars
  BY DEF Report
<1>3. /\ AtPipeline /\ SrcMgr.EOS /\ Len(stream) \in Nat /\ given \in 0 .. Len(stream)
  BY <1>1 DEF AccountInv
<1>4. Ending /\ Account(input, Now, reports, NumTraceMIs, RegionIdx)
  BY <1>3 DEF AtPipeline
<1>5. /\ \A k \in 0 .. Len(stream) : T[k] \in TalType(input, stream)
      /\ \A k \in 1 .. Len(stream) : T[k] = TallyStep(input, T[k-1], stream[k])
  BY <1>3, TallySteps
<1>6. CASE EndOfStream
  <2>1. given = Len(stream) /\ x = "" /\ Now = T[given]
    BY <1>4, <1>6 DEF Ending, Now
  <2>2. x \in NamesOf(stream)
    BY <2>1 DEF NamesOf
  <2>3. T[given] \in TalType(input, stream)
    BY <1>3, <1>5
  <2> DEFINE t == T[given]
  <2> HIDE DEF T
  <2>4. t \in TalType(input, stream) /\ Account(input, t, reports, NumTraceMIs, RegionIdx)
    BY <1>4, <2>1, <2>3
  <2> HIDE DEF t
  <2>5. Closed(input, t, x).reports = PrintMCA(TitleNow)
    BY <1>1, <2>2, <2>4, ReportClosed
  <2>6. reports' = ExpectedReports
    BY <1>1, <2>1, <2>5, Zenon DEF ExpectedReports, t, T
  <2>7. ExpectedReports' = ExpectedReports
    BY <1>1 DEF ExpectedReports
  <2>8. AccountInv'
    BY <1>1, <1>3, <1>6, <2>6, <2>7 DEF AccountInv
  <2>9. PipeInv'
    <3>1. UNCHANGED <<SrcMgr, RecycledInsts, created, NumTraceMIs, flight, summary>>
      BY <1>1, <1>2, <1>6 DEF resetVars
    <3>2. pc' = "done"
      BY <1>1, <1>6
    <3> QED
      BY <3>1, <3>2, PipeSame
  <2> QED
    BY <2>8, <2>9
<1>7. CASE ~EndOfStream
  <2>1. /\ given >= 1 /\ stream[given].last /\ x = stream[given].name
        /\ input.kind = "asm" \/ input.region
    BY <1>3, <1>4, <1>7 DEF Ending
  <2>2. given \in 1 .. Len(stream) /\ UseRegion
    BY <1>3, <2>1 DEF UseRegion, Asm
  <2>3. Now = Counted(T[given-1], stream[given])
    BY <1>3, <1>7 DEF Now
  <2>4. T[given] = TallyStep(input, T[given-1], stream[given]) /\ given - 1 \in 0 .. Len(stream)
    BY <1>3, <1>5, <2>2
  <2>5. T[given] = Closed(input, Now, x)
    BY <2>1, <2>3, <2>4 DEF TallyStep
  <2>6. Now \in TalType(input, stream)
    <3> DEFINE y == T[given-1]
    <3>1. y \in TalType(input, stream)
      BY <1>5, <2>4
    <3> HIDE DEF y
    <3>2. Counted(y, stream[given]) \in TalType(input, stream)
      BY <3>1, CountedType
    <3> QED
      BY <2>3, <3>2 DEF y
  <2>7. x \in NamesOf(stream)
    BY <2>1, <2>2 DEF NamesOf
  <2> DEFINE t == Now
  <2>8. /\ T[given].reports = PrintMCA(TitleNow) /\ T[given].count = 0
        /\ T[given].unnamed = IF x = "" THEN RegionIdx + 1 ELSE RegionIdx
    <3>1. t \in TalType(input, stream) /\ Account(input, t, reports, NumTraceMIs, RegionIdx)
          /\ T[given] = Closed(input, t, x)
      BY <1>4, <2>5, <2>6
    <3> HIDE DEF t, T
    <3>2. /\ Closed(input, t, x).reports = PrintMCA(TitleNow)
          /\ Closed(input, t, x).count = 0
          /\ Closed(input, t, x).unnamed = IF x = "" THEN RegionIdx + 1 ELSE RegionIdx
      BY <1>1, <2>2, <2>7, <3>1, ReportClosed
    <3> QED
      BY <3>1, <3>2
  <2>9. ResetPipeline /\ pc' = "fetch"
    BY <1>1, <1>2, <1>7, <2>2
  <2>10. NumTraceMIs' = 0 /\ ~SrcMgr'.EOS
    <3> DEFINE f == FALSE
    <3>1. NumTraceMIs' = 0 /\ SrcMgr' = [Staging |-> <<>>, TotalCounter |-> 0, EOS |-> f]
      BY <2>9 DEF ResetPipeline, NewSrcMgr
    <3> HIDE DEF f
    <3>2. SrcMgr'.EOS = f
      BY <3>1
    <3> QED
      BY <3>1, <3>2 DEF f
  <2>11. (Tally(input, stream)[given])' = T[given]
    BY <1>1
  <2>12. Account(input, Tally(input, stream)[given], reports, NumTraceMIs, RegionIdx)'
    BY <1>1, <2>2, <2>8, <2>10, <2>11 DEF Account
  <2>13. AtFetch'
    BY <1>1, <1>7, <2>10, <2>12 DEF AtFetch
  <2>14. SomeReports'
    BY <1>1, <1>3, <2>8 DEF SomeReports
  <2>15. AccountInv'
    BY <1>1, <1>3, <2>9, <2>13, <2>14 DEF AccountInv
  <2>16. PipeInv'
    <3>1. created \in Nat
      BY DEF PipeInv
    <3> QED
      BY <1>1, <2>9, <3>1, PipeNewNext
  <2> QED
    BY <2>15, <2>16
<1> QED
  BY <1>6, <1>7

\* The start of the worker.
LEMMA MainKeeps ==
  ASSUME PipeInv, AccountInv, Main
  PROVE  PipeInv' /\ AccountInv'
<1>1. /\ pc = "main" /\ pc' \in {"fetch", "failed"}
      /\ UNCHANGED <<input, stream, given, fetched, EndOfStream, RegionIdx, created, reports>>
      /\ \/ ResetPipeline
         \/ UNCHANGED resetVars /\ pc' = "failed"
  BY DEF Main, brokerVars, loopVars
<1>2. AtFetch /\ SomeReports /\ given = 0 /\ Len(stream) \in Nat /\ given \in 0 .. Len(stream)
  BY <1>1 DEF AccountInv
<1>3. SomeReports'
  BY <1>1, <1>2 DEF SomeReports
<1>4. CASE ResetPipeline
  <2>1. PipeInv'
    <3>1. created \in Nat
      BY DEF PipeInv
    <3> QED
      BY <1>1, <1>4, <3>1, PipeNewNext
  <2>2. NumTraceMIs' = 0 /\ ~SrcMgr'.EOS
    <3> DEFINE f == FALSE
    <3>1. NumTraceMIs' = 0 /\ SrcMgr' = [Staging |-> <<>>, TotalCounter |-> 0, EOS |-> f]
      BY <1>4 DEF ResetPipeline, NewSrcMgr
    <3> HIDE DEF f
    <3>2. SrcMgr'.EOS = f
      BY <3>1
    <3> QED
      BY <3>1, <3>2 DEF f
  <2>3. NumTraceMIs = 0
    <3> DEFINE t == Tally(input, stream)[0]
               z == <<>>
    <3>1. t.count = NumTraceMIs
      BY <1>2 DEF AtFetch, Account
    <3>2. t = Tal(z, 0, 0)
      BY <1>2, TallySteps
    <3> HIDE DEF t, z
    <3>3. t.count = 0
      BY <3>2, TalFields
    <3> QED
      BY <3>1, <3>3
  <2>4. AtFetch'
    BY <1>1, <1>2, <2>2, <2>3 DEF AtFetch
  <2> QED
    BY <1>1, <1>2, <1>3, <2>1, <2>4 DEF AccountInv
<1>5. CASE UNCHANGED resetVars /\ pc' = "failed"
  <2>1. UNCHANGED <<SrcMgr, RecycledInsts, created, NumTraceMIs, flight, summary>>
    BY <1>1, <1>5 DEF resetVars
  <2>2. PipeInv'
    BY <1>5, <2>1, PipeSame
  <2> QED
    BY <1>1, <1>2, <1>3, <1>5, <2>2 DEF AccountInv
<1> QED
  BY <1>1, <1>4, <1>5

\* The instruction that is carried over is the last one dispatched.
CarryIdx == /\ CarriedOver \in [left : Nat, ident : Int, idx : Nat]
            /\ CarriedOver.left > 0 => /\ SrcMgr.TotalCounter > 0
                                       /\ CarriedOver.idx = SrcMgr.TotalCounter - 1

\* Nothing is carried over at the start and in a new pipeline.
LEMMA CarryNone ==
  ASSUME CarriedOver = NotCarried
  PROVE  CarryIdx
<1>1. CarriedOver = [left |-> 0, ident |-> -1, idx |-> 0]
  BY DEF NotCarried, NoIdentifier
<1>2. CarriedOver \in [left : Nat, ident : Int, idx : Nat] /\ CarriedOver.left = 0
  BY <1>1
<1>3. ~(CarriedOver.left > 0)
  BY <1>2
<1> QED
  BY <1>2, <1>3 DEF CarryIdx

\* Another cycle of a dispatch leaves the counts of the summary alone.
LEMMA RedispatchKeeps ==
  ASSUME PipeInv, AccountInv, CarryIdx, Redispatch
  PROVE  PipeInv' /\ AccountInv' /\ CarryIdx'
<1> DEFINE c == CarriedOver
           N == SrcMgr.TotalCounter
           d == N - Len(flight)
           b == c.left - 1
<1>1. /\ pc = "pipeline" /\ c.left > 0
      /\ CarriedOver' = [c EXCEPT !.left = b]
      /\ summary' = SummaryDispatched(summary, c.idx)
      /\ UNCHANGED <<input, stream, pc, given, fetched, EndOfStream, RegionIdx, NumTraceMIs,
                     SrcMgr, RecycledInsts, created, flight, reports>>
  BY DEF Redispatch, brokerVars, loopVars, instVars
<1>2. c \in [left : Nat, ident : Int, idx : Nat] /\ N > 0 /\ c.idx = N - 1
  BY <1>1 DEF CarryIdx
<1>3. PICK l : Counts(summary, l, d) /\ (N > 0 => l = N - 1)
  BY DEF PipeInv
<1>4. b \in Nat
  BY <1>1, <1>2
<1> HIDE DEF c, b, N
<1>5. CarriedOver' \in [left : Nat, ident : Int, idx : Nat] /\ CarriedOver'.idx = c.idx
  BY <1>1, <1>2, <1>4
<1>6. CarryIdx'
  BY <1>1, <1>2, <1>5 DEF CarryIdx, N
<1> HIDE DEF d
<1>7. Counts(summary', N - 1, d)
  BY <1>1, <1>2, <1>3, DispatchedCounts
<1>8. (\E k : /\ Counts(summary, k, SrcMgr.TotalCounter - Len(flight))
              /\ SrcMgr.TotalCounter > 0 => k = SrcMgr.TotalCounter - 1)'
  BY <1>1, <1>7 DEF d, N
<1>9. SourceShape'
  BY <1>1 DEF PipeInv, SourceShape
<1>10. (/\ SrcMgr.Staging \in Seq(Instruction) /\ SrcMgr.TotalCounter \in Nat
        /\ RecycledInsts \in SUBSET Instruction /\ created \in Nat /\ NumTraceMIs \in Nat
        /\ flight \in Seq(Copies) /\ Len(flight) <= SrcMgr.TotalCounter
        /\ \A k \in 1 .. Len(flight) : flight[k].idx < SrcMgr.TotalCounter
        /\ NumTraceMIs - Len(SrcMgr.Staging) = SrcMgr.TotalCounter)'
  BY <1>1 DEF PipeInv
<1>11. PipeInv'
  BY <1>1, <1>8, <1>9, <1>10 DEF PipeInv
<1>12. AccountInv'
  BY <1>1, AccountSame
<1> QED
  BY <1>6, <1>11, <1>12

\* Every step keeps CarryIdx.
LEMMA CarryIdxStep ==
  ASSUME PipeInv, AccountInv, CarryIdx, [Next]_vars
  PROVE  CarryIdx'
<1>1. ASSUME SrcMgr'.TotalCounter = SrcMgr.TotalCounter, CarriedOver' = CarriedOver
      PROVE  CarryIdx'
  BY <1>1 DEF CarryIdx
<1>2. ASSUME ResetPipeline PROVE CarryIdx'
  <2>1. (CarriedOver = NotCarried)'
    BY <1>2 DEF ResetPipeline
  <2> QED
    BY <2>1, CarryNone, PTL
<1>3. CASE Main \/ Report
  <2>1. UNCHANGED resetVars \/ ResetPipeline
    BY <1>3 DEF Main, Report
  <2> QED
    BY <1>1, <1>2, <2>1 DEF resetVars
<1>4. ASSUME NEW reply, AfterFetch(reply) PROVE CarryIdx'
  <2>1. SourceShape
    BY DEF PipeInv
  <2>2. SrcMgr'.TotalCounter = SrcMgr.TotalCounter
    BY <1>4, <2>1, AfterFacts
  <2>3. CarriedOver' = CarriedOver
    BY <1>4 DEF AfterFetch, pipelineVars
  <2> QED
    BY <1>1, <2>2, <2>3
<1>5. CASE FetchAsm
  BY <1>4, <1>5 DEF FetchAsm
<1>6. ASSUME NEW n \in 0 .. MaxNumProcessedInst, FetchStream(n) PROVE CarryIdx'
  BY <1>4, <1>6 DEF FetchStream
<1>7. CASE FetchStreamEnd
  BY <1>4, <1>7 DEF FetchStreamEnd
<1>8. CASE Convert
  <2> DEFINE w == Converted[Len(fetched.insts)].staging
  <2>1. SrcMgr' = [SrcMgr EXCEPT !.Staging = w] /\ CarriedOver' = CarriedOver
    BY <1>8 DEF Convert, pipelineVars
  <2> HIDE DEF w
  <2>2. SrcMgr' = [Staging |-> w, TotalCounter |-> SrcMgr.TotalCounter, EOS |-> SrcMgr.EOS]
    BY <2>1 DEF PipeInv, SourceShape
  <2>3. SrcMgr'.TotalCounter = SrcMgr.TotalCounter
    BY <2>2
  <2> QED
    BY <1>1, <2>1, <2>3
<1>9. CASE Dispatch
  <2> DEFINE q == SrcMgr.Staging
             i == Head(q)
             N == SrcMgr.TotalCounter
             n == IF i.op = "micro" THEN CarryCycles ELSE 0
             w == Tail(q)
  <2>1. /\ q # <<>> /\ SrcMgr' = [SrcMgr EXCEPT !.Staging = w, !.TotalCounter = N + 1]
        /\ CarriedOver' = [left |-> n, ident |-> i.ident, idx |-> N]
    BY <1>9 DEF Dispatch
  <2>2. SourceShape /\ q \in Seq(Instruction) /\ N \in Nat
    BY DEF PipeInv
  <2>3. i \in Instruction
    BY <2>1, <2>2
  <2>4. i.ident \in Int
    <3> HIDE DEF i
    <3> QED BY <2>3 DEF Instruction
  <2>5. n \in Nat
    BY WorkerAssumption
  <2> HIDE DEF i, w, n
  <2>6. SrcMgr' = [Staging |-> w, TotalCounter |-> N + 1, EOS |-> SrcMgr.EOS]
    BY <2>1, <2>2 DEF SourceShape
  <2>7. SrcMgr'.TotalCounter = N + 1
    BY <2>6
  <2> HIDE DEF N
  <2>8. CarriedOver' \in [left : Nat, ident : Int, idx : Nat] /\ CarriedOver'.idx = N
    BY <2>1, <2>2, <2>4, <2>5
  <2>9. SrcMgr'.TotalCounter > 0 /\ N = SrcMgr'.TotalCounter - 1
    BY <2>2, <2>7
  <2> QED
    BY <2>8, <2>9 DEF CarryIdx
<1>10. CASE Redispatch
  BY <1>10, RedispatchKeeps
<1>11. CASE Retire \/ Pause \/ Finish \/ PipelineError
  BY <1>1, <1>11 DEF Retire, Pause, Finish, PipelineError, pipelineVars, instVars
<1>12. CASE UNCHANGED vars
  BY <1>1, <1>12 DEF vars, pipelineVars, instVars
<1> QED
  BY <1>3, <1>5, <1>6, <1>7, <1>8, <1>9, <1>10, <1>11, <1>12 DEF Next

\* The inductive invariant behind ReportsAreExact.
ReportsInv == IdentInv /\ BrokerInv /\ PipeInv /\ AccountInv /\ CarryIdx

\* It holds at the start.
LEMMA ReportsInit == Init => ReportsInv
<1> SUFFICES ASSUME Init PROVE ReportsInv
  OBVIOUS
<1>1. IdentInv /\ BrokerInv
  BY IdentInit, BrokerInit
<1>2. NewPipe
  BY DEF Init, NewPipe
<1>3. PipeInv
  BY <1>2, PipeNew
<1>4. Len(stream) \in Nat
  BY <1>1, StreamLength
<1>5. /\ given = 0 /\ pc = "main" /\ EndOfStream = FALSE /\ NumTraceMIs = 0 /\ RegionIdx = 0
      /\ reports = <<>>
  BY DEF Init
<1>6. ~SrcMgr.EOS
  <2> DEFINE f == FALSE
  <2>1. SrcMgr = [Staging |-> <<>>, TotalCounter |-> 0, EOS |-> f]
    BY DEF Init, NewSrcMgr
  <2> HIDE DEF f
  <2>2. SrcMgr.EOS = f
    BY <2>1
  <2> QED
    BY <2>2 DEF f
<1> DEFINE t == Tally(input, stream)[0]
           z == <<>>
<1>7. t = Tal(z, 0, 0)
  BY <1>4, TallySteps
<1>8. t.reports = reports /\ t.count = 0 /\ t.unnamed = 0
  <2> HIDE DEF t, z
  <2>1. t.reports = z /\ t.count = 0 /\ t.unnamed = 0
    BY <1>7, TalFields
  <2> QED
    BY <1>5, <2>1 DEF z
<1>9. AtFetch
  BY <1>5, <1>6, <1>8 DEF AtFetch, Account
<1>10. SomeReports
  BY <1>4, <1>8 DEF SomeReports
<1>11. AccountInv
  BY <1>4, <1>5, <1>9, <1>10 DEF AccountInv
<1>12. CarryIdx
  BY CarryNone DEF Init
<1> QED
  BY <1>1, <1>3, <1>11, <1>12 DEF ReportsInv

\* Every step keeps it.
LEMMA ReportsStep == ReportsInv /\ [Next]_vars => ReportsInv'
<1> SUFFICES ASSUME IdentInv, BrokerInv, PipeInv, AccountInv, CarryIdx, [Next]_vars
             PROVE  ReportsInv'
  BY DEF ReportsInv
<1>1. IdentInv' /\ BrokerInv' /\ CarryIdx'
  BY IdentStep, BrokerStep, CarryIdxStep
<1>2. CASE Main
  BY <1>1, <1>2, MainKeeps DEF ReportsInv
<1>3. CASE FetchAsm
  <2>1. PICK r : AsmFetch(r)
    BY <1>3, FetchAsmFacts
  <2>2. PipeInv' /\ \E n : Fetched(n)
    BY <2>1, AsmFetched
  <2>3. PICK n : Fetched(n)
    BY <2>2
  <2>4. AccountInv'
    BY <2>1, <2>3, AccountFetched DEF AsmFetch
  <2> QED
    BY <1>1, <2>2, <2>4 DEF ReportsInv
<1>4. ASSUME NEW n \in 0 .. MaxNumProcessedInst, FetchStream(n) PROVE ReportsInv'
  <2>1. PipeInv' /\ Fetched(n) /\ pc = "fetch"
    BY <1>1, <1>4, StreamFetched DEF FetchStream
  <2>2. AccountInv'
    BY <2>1, AccountFetched
  <2> QED
    BY <1>1, <2>1, <2>2 DEF ReportsInv
<1>5. CASE FetchStreamEnd
  <2>1. PipeInv' /\ Fetched(0) /\ pc = "fetch"
    BY <1>5, EndFetched DEF FetchStreamEnd
  <2>2. AccountInv'
    BY <2>1, AccountFetched
  <2> QED
    BY <1>1, <2>1, <2>2 DEF ReportsInv
<1>6. CASE Convert
  BY <1>1, <1>6, ConvertKeeps DEF ReportsInv
<1>7. CASE Dispatch
  BY <1>1, <1>7, DispatchKeeps DEF ReportsInv
<1>8. CASE Retire \/ Redispatch
  BY <1>1, <1>8, RetireKeeps, RedispatchKeeps DEF ReportsInv
<1>9. CASE Pause \/ Finish \/ PipelineError
  <2>1. /\ pc = "pipeline" /\ pc' \in {"fetch", "report", "failed"}
        /\ pc' = "fetch" => ~SrcMgr.EOS
        /\ pc' = "report" => SrcMgr.EOS /\ SrcMgr.Staging = <<>> /\ flight = <<>>
        /\ UNCHANGED <<input, stream, given, fetched, EndOfStream, NumTraceMIs, RegionIdx,
                       reports, SrcMgr, RecycledInsts, created, flight, summary>>
    BY <1>9 DEF Pause, Finish, PipelineError, brokerVars, loopVars, instVars, pipelineVars
  <2>2. AccountInv'
    BY <2>1, AccountSame
  <2>3. Len(<<>>) = 0
    OBVIOUS
  <2>4. PipeInv'
    BY <2>1, <2>3, PipeSame
  <2> QED
    BY <1>1, <2>2, <2>4 DEF ReportsInv
<1>10. CASE Report
  BY <1>1, <1>10, ReportKeeps DEF ReportsInv
<1>11. CASE UNCHANGED vars
  <2>1. UNCHANGED <<input, stream, given, fetched, EndOfStream, NumTraceMIs, RegionIdx, pc,
                    reports, SrcMgr, RecycledInsts, created, flight, summary>>
    BY <1>11 DEF vars, brokerVars, loopVars, instVars, pipelineVars
  <2>2. AccountInv'
    BY <2>1, AccountStutter
  <2>3. PipeInv'
    <3>1. pc = "report" => Len(SrcMgr.Staging) = 0 /\ Len(flight) = 0
      BY DEF PipeInv
    <3> QED
      BY <2>1, <3>1, PipeSame
  <2> QED
    BY <1>1, <2>2, <2>3 DEF ReportsInv
<1> QED
  BY <1>2, <1>3, <1>4, <1>5, <1>6, <1>7, <1>8, <1>9, <1>10, <1>11 DEF Next

\* For every input, chunk size, choice of batches and pipeline depth: the reports printed are
\* always the first ones of those the stream calls for, each with the title, the number of
\* instructions and the number of micro-ops of its region; when the worker is done they are
\* all of them.
THEOREM ReportsAreExact == Spec => []ReportsExact
<1>1. ReportsInv => ReportsExact
  <2> SUFFICES ASSUME ReportsInv PROVE ReportsExact
    OBVIOUS
  <2> DEFINE T == Tally(input, stream)
             e == ExpectedReports
  <2>1. AccountInv /\ Len(stream) \in Nat
    BY DEF ReportsInv, AccountInv
  <2>2. CASE pc # "done"
    <3>1. PICK k \in 0 .. Len(stream) : reports = T[k].reports
      BY <2>1, <2>2 DEF AccountInv, SomeReports
    <3>2. IsPrefix(T[k].reports, e)
      BY <2>1, TallyStarts DEF ExpectedReports
    <3> QED
      BY <2>2, <3>1, <3>2 DEF ReportsExact
  <2>3. CASE pc = "done"
    <3>1. reports = e
      BY <2>1, <2>3 DEF AccountInv
    <3>2. e \in Seq(Reps(input, stream))
      <4> DEFINE t == T[Len(stream)]
                 x == ""
      <4>1. t \in TalType(input, stream)
        BY <2>1, TallySteps
      <4>2. x \in NamesOf(stream)
        BY DEF NamesOf
      <4>3. e = Closed(input, t, x).reports
        BY DEF ExpectedReports
      <4> HIDE DEF t, x
      <4> DEFINE c == Closed(input, t, x)
      <4>4. c \in TalType(input, stream)
        BY <4>1, <4>2, ClosedType
      <4> HIDE DEF c
      <4>5. c.reports \in Seq(Reps(input, stream))
        BY <4>4, TalFacts
      <4> QED
        BY <4>3, <4>5 DEF c
    <3> DEFINE R == Reps(input, stream)
    <3> HIDE DEF e, R
    <3>3. IsPrefix(e, e)
      BY <3>2, StartsFacts DEF R
    <3> QED
      BY <3>1, <3>3 DEF ReportsExact, e
  <2> QED
    BY <2>2, <2>3
<1> QED
  BY <1>1, ReportsInit, ReportsStep, PTL DEF Spec

-----------------------------------------------------------------------------
(* The contract.                                                           *)

\* The end of the stream is a flag.
EndFlag == EndOfStream \in BOOLEAN

\* At the start and after every step.
LEMMA EndFlagInit == Init => EndFlag
BY DEF Init, EndFlag
\* A fetch sets it to a comparison, nothing else sets it.
LEMMA EndFlagStep == EndFlag /\ [Next]_vars => EndFlag'
<1> SUFFICES ASSUME EndFlag, [Next]_vars PROVE EndFlag'
  OBVIOUS
<1>1. ASSUME NEW reply, AfterFetch(reply) PROVE EndFlag'
  BY <1>1 DEF AfterFetch, EndFlag
<1>2. CASE FetchAsm
  BY <1>1, <1>2 DEF FetchAsm
<1>3. ASSUME NEW n \in 0 .. MaxNumProcessedInst, FetchStream(n) PROVE EndFlag'
  BY <1>1, <1>3 DEF FetchStream
<1>4. CASE FetchStreamEnd
  BY <1>1, <1>4 DEF FetchStreamEnd
<1>5. CASE EndOfStream' = EndOfStream
  BY <1>5 DEF EndFlag
<1>6. CASE Main \/ Convert \/ Dispatch \/ Redispatch \/ Retire \/ Pause \/ Finish
           \/ PipelineError \/ Report
  BY <1>5, <1>6 DEF Main, Convert, Dispatch, Redispatch, Retire, Pause, Finish, PipelineError, Report,
     loopVars
<1>7. CASE UNCHANGED vars
  BY <1>5, <1>7 DEF vars, loopVars
<1> QED
  BY <1>2, <1>3, <1>4, <1>6, <1>7 DEF Next

\* A fetch of the worker is one of the contract.
LEMMA FetchKeepsContract ==
  ASSUME AccountInv, EndFlag, EndFlag', pc = "fetch", NEW n, Fetched(n)
  PROVE  Contract!Fetch \/ Contract!FetchEnd
<1>1. /\ n \in Nat /\ n <= MaxNumProcessedInst
      /\ given' = given + n /\ given + n <= Len(stream) /\ stream' = stream
      /\ \A k \in 1 .. (n - 1) : ~stream[given+k].last
      /\ EndOfStream' => n = 0 /\ given = Len(stream)
  BY DEF Fetched
<1>2. ~EndOfStream /\ given \in 0 .. Len(stream) /\ Len(stream) \in Nat
  BY DEF AccountInv, AtFetch
<1> DEFINE g == given
           h == given'
           e == EndOfStream
           f == EndOfStream'
<1>3. g \in Nat /\ h = g + n
  BY <1>1, <1>2
<1> HIDE DEF g, h
<1>4. h >= g /\ h - g = n /\ (n = 0 => h = g)
  BY <1>1, <1>3
<1>5. CASE f
  <2>1. n = 0 /\ g = Len(stream)
    BY <1>1, <1>5 DEF g
  <2>2. h = g
    BY <1>4, <2>1
  <2>3. f = TRUE
    BY <1>5 DEF EndFlag
  <2>4. Contract!FetchEnd
    BY <1>1, <1>2, <2>1, <2>2, <2>3 DEF Contract!FetchEnd, g, h
  <2> QED
    BY <2>4
<1>6. CASE ~f
  <2>1. f = e
    BY <1>2, <1>6, Zenon DEF EndFlag
  <2>2. ASSUME NEW k \in (g + 1) .. (g + n - 1) PROVE ~stream[k].last
    <3> DEFINE j == k - g
    <3>1. j \in 1 .. (n - 1) /\ g + j = k
      BY <1>1, <1>3
    <3> HIDE DEF j
    <3>2. ~stream[g+j].last
      BY <1>1, <3>1 DEF g
    <3> QED
      BY <3>1, <3>2
  <2>3. g + n <= Len(stream)
    BY <1>1 DEF g
  <2> DEFINE m == h - g
  <2>4. m = n
    BY <1>4
  <2> HIDE DEF m
  <2>5. Contract!Deliverable(stream, g, m)
    BY <1>1, <2>2, <2>3, <2>4 DEF Contract!Deliverable
  <2>6. Contract!Fetch
    BY <1>1, <1>2, <1>4, <2>1, <2>5 DEF Contract!Fetch, g, h, m
  <2> QED
    BY <2>6
<1> QED
  BY <1>5, <1>6

\* The other steps do not touch what the contract is about.
LEMMA ContractStep ==
  ReportsInv /\ EndFlag /\ EndFlag' /\ [Next]_vars =>
    [Contract!Produce \/ Contract!Fetch \/ Contract!FetchEnd]_(Contract!contractVars)
<1> SUFFICES ASSUME IdentInv, BrokerInv, PipeInv, AccountInv, EndFlag, EndFlag', [Next]_vars
             PROVE  \/ Contract!Fetch \/ Contract!FetchEnd
                    \/ UNCHANGED <<stream, given, EndOfStream>>
  BY DEF ReportsInv, Contract!contractVars
<1>1. IdentInv'
  BY IdentStep
<1>2. CASE FetchAsm
  <2>1. PICK r : AsmFetch(r)
    BY <1>2, FetchAsmFacts
  <2>2. PICK n : Fetched(n)
    BY <2>1, AsmFetched
  <2> QED
    BY <2>1, <2>2, FetchKeepsContract DEF AsmFetch
<1>3. ASSUME NEW n \in 0 .. MaxNumProcessedInst, FetchStream(n)
      PROVE  Contract!Fetch \/ Contract!FetchEnd
  <2>1. Fetched(n) /\ pc = "fetch"
    BY <1>1, <1>3, StreamFetched DEF FetchStream
  <2> QED
    BY <2>1, FetchKeepsContract
<1>4. CASE FetchStreamEnd
  <2>1. Fetched(0) /\ pc = "fetch"
    BY <1>4, EndFetched DEF FetchStreamEnd
  <2> QED
    BY <2>1, FetchKeepsContract
<1>5. CASE Main \/ Convert \/ Dispatch \/ Redispatch \/ Retire \/ Pause \/ Finish
           \/ PipelineError \/ Report
  BY <1>5 DEF Main, Convert, Dispatch, Redispatch, Retire, Pause, Finish, PipelineError, Report, loopVars,
              brokerVars
<1>6. CASE UNCHANGED vars
  BY <1>6 DEF vars, loopVars, brokerVars
<1> QED
  BY <1>2, <1>3, <1>4, <1>5, <1>6 DEF Next

\* The worker's broker keeps the contract of Broker.h, whatever the input and the buffer: every
\* fetch hands out the next instructions of the stream, at most a buffer of them and never past
\* the end of a region, and the end comes when nothing is left.  This is the refinement of
\* Broker by MCAWorker.
THEOREM WorkerKeepsContract == Spec => KeepsContract
<1>1. Init => Contract!ContractInit
  BY DEF Init, Contract!ContractInit
<1> QED
  BY <1>1, ReportsInit, ReportsStep, EndFlagInit, EndFlagStep, ContractStep, PTL
     DEF Spec, KeepsContract, Contract!ContractSpec
=============================================================================
