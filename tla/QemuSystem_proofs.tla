-------------------------- MODULE QemuSystem_proofs --------------------------
(***************************************************************************)
(* The theorem about QEMU, the socket and the QEMU broker: the executions  *)
(* the relay writes are the ones it was told of, in order and with their   *)
(* own memory accesses, and each comes after its TB.                       *)
(***************************************************************************)
EXTENDS QemuSystem, QemuBroker_proofs

-----------------------------------------------------------------------------
(* Picking the executions out of messages, and the accesses of a TB.       *)

\* The executions among messages.
LEMMA ExecsFacts ==
  ASSUME NEW M, NEW s \in Seq(M)
  PROVE  /\ ExecsUpTo(s)[0] = <<>>
         /\ \A k \in 1 .. Len(s) :
              ExecsUpTo(s)[k] = Picked(s[k].kind = "exec", ExecsUpTo(s)[k-1], s[k])
         /\ \A k \in 0 .. Len(s) : ExecsUpTo(s)[k] \in Seq(M)
         /\ Execs(s) \in Seq(M)
<1> DEFINE n == Len(s)
           c == [k \in 1 .. n |-> s[k].kind = "exec"]
           f == ExecsUpTo(s)
<1>1. n \in Nat /\ \A k \in 1 .. n : s[k] \in M
  OBVIOUS
<1>2. f = CHOOSE h : h = [k \in 0 .. n |-> IF k = 0 THEN <<>>
                                ELSE Picked(s[k].kind = "exec", h[k-1], s[k])]
  BY DEF ExecsUpTo, Picked
<1>3. \A k \in 1 .. n : c[k] = (s[k].kind = "exec")
  OBVIOUS
<1>4. \A h : [k \in 0 .. n |-> IF k = 0 THEN <<>>
                                ELSE Picked(s[k].kind = "exec", h[k-1], s[k])]
           = [k \in 0 .. n |-> IF k = 0 THEN <<>>
                                ELSE Picked(c[k], h[k-1], s[k])]
  <2> TAKE h
  <2>1. ASSUME NEW k \in 0 .. n
        PROVE  (IF k = 0 THEN <<>> ELSE Picked(s[k].kind = "exec", h[k-1], s[k]))
             = (IF k = 0 THEN <<>> ELSE Picked(c[k], h[k-1], s[k]))
    <3>1. CASE k = 0
      BY <3>1
    <3>2. CASE k # 0
      <4>1. k \in 1 .. n
        BY <1>1, <3>2
      <4>2. c[k] = (s[k].kind = "exec")
        BY <1>3, <4>1
      <4> QED
        BY <3>2, <4>2, Zenon DEF Picked
    <3> QED
      BY <3>1, <3>2
  <2> HIDE DEF c, n
  <2> QED
    BY <2>1, Zenon
<1> HIDE DEF c, n, f
<1>5. f = Picking(n, c, s)
  BY <1>2, <1>4, Zenon DEF Picking
<1>6. IsPicking(f, n, c, s) /\ \A k \in 0 .. n : f[k] \in Seq(M)
  BY <1>1, <1>5, PickingFacts
<1>7. f[0] = <<>> /\ \A k \in 1 .. n : f[k] = Picked(c[k], f[k-1], s[k])
  BY <1>6 DEF IsPicking
<1>8. \A k \in 1 .. n : f[k] = Picked(s[k].kind = "exec", f[k-1], s[k])
  BY <1>3, <1>7, Zenon
<1>9. f[n] \in Seq(M)
  BY <1>1, <1>6
<1>10. Execs(s) \in Seq(M)
  BY <1>9 DEF Execs, f, n
<1> QED
  BY <1>6, <1>7, <1>8, <1>10 DEF f, n

\* The memory accesses of a TB.
LEMMA AccessesFacts ==
  ASSUME NEW b, b.parts \in Seq(Nat), b.mem \subseteq 0 .. (Len(b.parts) - 1)
  PROVE  /\ Accesses(b) \in Seq(Nat)
         /\ \A r : r \in b.mem <=> \E k \in 1 .. Len(Accesses(b)) : Accesses(b)[k] = r
<1> DEFINE n == Len(b.parts)
           c == [k \in 1 .. n |-> k - 1 \in b.mem]
           e == [k \in 1 .. n |-> k - 1]
           f == CHOOSE h : h = [r \in 0 .. n |->
                  IF r = 0 THEN <<>>
                  ELSE IF r - 1 \in b.mem THEN Append(h[r-1], r - 1) ELSE h[r-1]]
<1>1. n \in Nat /\ (\A k \in 1 .. n : e[k] \in Nat /\ e[k] = k - 1)
      /\ \A k \in 1 .. n : c[k] = (k - 1 \in b.mem)
  OBVIOUS
<1>2. Accesses(b) = f[n]
  BY DEF Accesses
<1>3. b.mem \subseteq 0 .. (n - 1)
  OBVIOUS
<1>4. \A h : [r \in 0 .. n |-> IF r = 0 THEN <<>>
                  ELSE IF r - 1 \in b.mem THEN Append(h[r-1], r - 1) ELSE h[r-1]]
           = [k \in 0 .. n |-> IF k = 0 THEN <<>>
                                ELSE Picked(c[k], h[k-1], e[k])]
  <2> TAKE h
  <2>1. ASSUME NEW r \in 0 .. n
        PROVE  (IF r = 0 THEN <<>>
                  ELSE IF r - 1 \in b.mem THEN Append(h[r-1], r - 1) ELSE h[r-1])
             = (IF r = 0 THEN <<>> ELSE Picked(c[r], h[r-1], e[r]))
    <3>1. CASE r = 0
      BY <3>1
    <3>2. CASE r # 0
      <4>1. r \in 1 .. n
        BY <1>1, <3>2
      <4>2. c[r] = (r - 1 \in b.mem) /\ e[r] = r - 1
        BY <1>1, <4>1
      <4> HIDE DEF c, e, n
      <4> QED
        BY <3>2, <4>2, Zenon DEF Picked
    <3> QED
      BY <3>1, <3>2
  <2> HIDE DEF c, e, n
  <2> QED
    BY <2>1, Zenon
<1>5. f = Picking(n, c, e)
  <2> HIDE DEF c, e, n
  <2> QED
    BY <1>4, Zenon DEF Picking
<1> HIDE DEF c, e, n, f
<1>6. IsPicking(f, n, c, e) /\ \A k \in 0 .. n : f[k] \in Seq(Nat)
  <2>1. \A k \in 1 .. n : e[k] \in Nat
    BY <1>1
  <2> DEFINE M == Nat
  <2>2. \A k \in 1 .. n : e[k] \in M
    BY <2>1
  <2> HIDE DEF M
  <2>3. IsPicking(f, n, c, e) /\ \A k \in 0 .. n : f[k] \in Seq(M)
    BY <1>1, <1>5, <2>2, PickingFacts
  <2> QED
    BY <2>3 DEF M
<1> DEFINE Has(q, r) == \E k \in 1 .. Len(q) : q[k] = r
           H == {k \in 0 .. n : \A r : r \in b.mem /\ r \in 0 .. (k - 1) <=> Has(f[k], r)}
<1>7. 0 \in H
  <2>1. f[0] = <<>>
    BY <1>6 DEF IsPicking
  <2> QED
    BY <1>1, <2>1
<1>8. ASSUME NEW k \in 1 .. n, k - 1 \in H PROVE k \in H
  <2> DEFINE q == f[k-1]
             w == f[k]
  <2>1. k - 1 \in 0 .. n /\ k \in 0 .. n /\ k - 1 \in Nat
    BY <1>1
  <2>2. q \in Seq(Nat) /\ \A r : r \in b.mem /\ r \in 0 .. ((k - 1) - 1) <=> Has(q, r)
    BY <1>6, <1>8, <2>1
  <2>3. w = IF k - 1 \in b.mem THEN Append(q, k - 1) ELSE q
    <3>1. f[k] = Picked(c[k], f[k-1], e[k]) /\ c[k] = (k - 1 \in b.mem) /\ e[k] = k - 1
      BY <1>1, <1>6 DEF IsPicking
    <3> QED
      BY <3>1, Zenon DEF Picked
  <2> HIDE DEF q, w
  <2>4. ASSUME NEW r PROVE r \in b.mem /\ r \in 0 .. (k - 1) <=> Has(w, r)
    <3>1. r \in 0 .. (k - 1) <=> r \in 0 .. ((k - 1) - 1) \/ r = k - 1
      BY <2>1
    <3>2. CASE k - 1 \in b.mem
      <4>1. w = Append(q, k - 1)
        BY <2>3, <3>2
      <4>2. Has(w, r) <=> Has(q, r) \/ r = k - 1
        BY <4>1, <2>1, <2>2
      <4> HIDE DEF Has
      <4> QED
        BY <2>2, <3>1, <3>2, <4>2
    <3>3. CASE k - 1 \notin b.mem
      <4>1. w = q
        BY <2>3, <3>3
      <4> HIDE DEF Has
      <4> QED
        BY <2>2, <3>1, <3>3, <4>1
    <3> QED
      BY <3>2, <3>3
  <2> HIDE DEF Has
  <2> QED
    BY <2>1, <2>4 DEF w
<1>9. n \in H
  <2>1. \A k \in 1 .. n : k - 1 \in H => k \in H
    BY <1>8
  <2> HIDE DEF H
  <2> QED
    BY <1>1, <1>7, <2>1, StepByStep
<1>10. \A r : r \in b.mem => r \in 0 .. (n - 1)
  BY <1>3
<1>11. f[n] \in Seq(Nat)
  BY <1>1, <1>6
<1> QED
  BY <1>2, <1>9, <1>10, <1>11

\* One more message, and one fewer at the front.
LEMMA ExecsAppend ==
  ASSUME NEW M, NEW s \in Seq(M), NEW x \in M
  PROVE  Execs(Append(s, x)) = Picked(x.kind = "exec", Execs(s), x)
<1> DEFINE w == Append(s, x)
           n == Len(s)
           f == ExecsUpTo(s)
           g == ExecsUpTo(w)
           G == {k \in 0 .. n : g[k] = f[k]}
<1>1. w \in Seq(M) /\ n \in Nat /\ Len(w) = n + 1 /\ w[n+1] = x
      /\ \A k \in 1 .. n : w[k] = s[k]
  OBVIOUS
<1> HIDE DEF w
<1>2. f[0] = <<>> /\ \A k \in 1 .. n : f[k] = Picked(s[k].kind = "exec", f[k-1], s[k])
  BY ExecsFacts
<1>3. g[0] = <<>> /\ \A k \in 1 .. (n + 1) : g[k] = Picked(w[k].kind = "exec", g[k-1], w[k])
  <2>1. g[0] = <<>> /\ \A k \in 1 .. Len(w) : g[k] = Picked(w[k].kind = "exec", g[k-1], w[k])
    BY <1>1, ExecsFacts
  <2> QED
    BY <1>1, <2>1
<1>4. Execs(s) = f[n] /\ Execs(w) = g[n+1]
  BY <1>1 DEF Execs
<1> HIDE DEF f, g, n
<1>5. 0 \in G
  BY <1>1, <1>2, <1>3
<1>6. ASSUME NEW k \in 1 .. n, k - 1 \in G PROVE k \in G
  <2>1. k \in 0 .. n /\ k \in 1 .. (n + 1) /\ g[k-1] = f[k-1] /\ w[k] = s[k]
    BY <1>1, <1>6
  <2>2. g[k] = Picked(w[k].kind = "exec", g[k-1], w[k])
    BY <1>3, <2>1
  <2>3. f[k] = Picked(s[k].kind = "exec", f[k-1], s[k])
    BY <1>2
  <2>4. g[k] = f[k]
    BY <2>1, <2>2, <2>3, Zenon
  <2> QED
    BY <2>1, <2>4
<1>7. n \in G
  <2>1. \A k \in 1 .. n : k - 1 \in G => k \in G
    BY <1>6
  <2> HIDE DEF G
  <2> QED
    BY <1>1, <1>5, <2>1, StepByStep
<1>8. g[n] = f[n] /\ n + 1 \in 1 .. (n + 1) /\ (n + 1) - 1 = n
  BY <1>1, <1>7
<1>9. g[n+1] = Picked(w[n+1].kind = "exec", g[n], w[n+1])
  <2> DEFINE j == n + 1
  <2>1. j \in 1 .. (n + 1) /\ j - 1 = n
    BY <1>8
  <2> HIDE DEF j
  <2>2. g[j] = Picked(w[j].kind = "exec", g[j-1], w[j])
    BY <1>3, <2>1
  <2>3. g[j] = Picked(w[j].kind = "exec", g[n], w[j])
    BY <2>1, <2>2, Zenon
  <2> QED
    BY <2>3 DEF j
<1>10. Execs(w) = Picked(x.kind = "exec", Execs(s), x)
  BY <1>1, <1>4, <1>8, <1>9, Zenon
<1> QED
  BY <1>10 DEF w

\* What the first message adds.
First(x) == IF x.kind = "exec" THEN <<x>> ELSE <<>>

\* Picking goes on at the end of a sequence.
LEMMA ConcatPicked ==
  ASSUME NEW M, NEW p \in Seq(M), NEW b \in Seq(M), NEW x \in M, NEW c
  PROVE  Picked(c, p \o b, x) = p \o Picked(c, b, x)
<1>1. Append(p \o b, x) = p \o Append(b, x)
  OBVIOUS
<1> QED
  BY <1>1, Zenon DEF Picked

\* The executions, taken from the front.
LEMMA ExecsTail ==
  ASSUME NEW M, NEW s \in Seq(M), s # <<>>
  PROVE  Execs(s) = First(Head(s)) \o Execs(Tail(s))
<1> DEFINE w == Tail(s)
           n == Len(w)
           x == Head(s)
           p == First(x)
           f == ExecsUpTo(s)
           g == ExecsUpTo(w)
           G == {k \in 0 .. n : f[k+1] = p \o g[k]}
<1>1. w \in Seq(M) /\ n \in Nat /\ Len(s) = n + 1 /\ s[1] = x /\ x \in M
      /\ \A k \in 1 .. n : w[k] = s[k+1] /\ w[k] \in M
  OBVIOUS
<1>2. p \in Seq(M) /\ p \o <<>> = p
  <2> HIDE DEF x
  <2>1. <<x>> \in Seq(M) /\ <<>> \in Seq(M)
    BY <1>1
  <2>2. p \in Seq(M)
    BY <2>1 DEF First
  <2> HIDE DEF p
  <2> QED
    BY <2>2
<1> HIDE DEF w, x
<1>3. f[0] = <<>> /\ \A k \in 1 .. (n + 1) : f[k] = Picked(s[k].kind = "exec", f[k-1], s[k])
  <2>1. f[0] = <<>> /\ \A k \in 1 .. Len(s) : f[k] = Picked(s[k].kind = "exec", f[k-1], s[k])
    BY <1>1, ExecsFacts
  <2> QED
    BY <1>1, <2>1
<1>4. /\ g[0] = <<>> /\ \A k \in 1 .. n : g[k] = Picked(w[k].kind = "exec", g[k-1], w[k])
      /\ \A k \in 0 .. n : g[k] \in Seq(M)
  BY <1>1, ExecsFacts
<1>5. Execs(s) = f[n+1] /\ Execs(w) = g[n]
  BY <1>1 DEF Execs
<1> HIDE DEF f, g, n
<1>6. 0 \in G
  <2>1. f[1] = Picked(s[1].kind = "exec", f[0], s[1])
    <3> DEFINE j == 1
    <3>1. j \in 1 .. (n + 1) /\ j - 1 = 0
      BY <1>1
    <3> HIDE DEF j
    <3>2. f[j] = Picked(s[j].kind = "exec", f[j-1], s[j])
      BY <1>3, <3>1
    <3>3. f[j] = Picked(s[j].kind = "exec", f[0], s[j])
      BY <3>1, <3>2, Zenon
    <3> QED
      BY <3>3 DEF j
  <2>2. Append(<<>>, x) = <<x>>
    OBVIOUS
  <2>3. f[1] = p
    BY <1>1, <1>3, <2>1, <2>2, Zenon DEF Picked, First
  <2> HIDE DEF p
  <2>4. f[0+1] = p \o g[0]
    BY <1>2, <1>4, <2>3
  <2> QED
    BY <1>1, <2>4
<1> HIDE DEF p
<1>7. ASSUME NEW k \in 1 .. n, k - 1 \in G PROVE k \in G
  <2> DEFINE j == k + 1
             i == k - 1
             a == f[k]
             b == g[i]
             y == w[k]
             c == y.kind = "exec"
  <2>1. k \in 0 .. n /\ j \in 1 .. (n + 1) /\ j - 1 = k /\ i \in 0 .. n /\ i + 1 = k
    BY <1>1
  <2>2. f[i+1] = p \o g[i]
    BY <1>7
  <2>3. a = p \o b
    BY <2>1, <2>2
  <2>4. s[j] = y /\ y \in M
    BY <1>1
  <2>5. b \in Seq(M)
    BY <1>4, <2>1
  <2>6. g[k] = Picked(c, b, y)
    BY <1>4
  <2> HIDE DEF j, y, i
  <2>7. f[j] = Picked(s[j].kind = "exec", f[j-1], s[j])
    BY <1>3, <2>1
  <2>8. f[j] = Picked(c, a, y)
    BY <2>1, <2>4, <2>7, Zenon
  <2> HIDE DEF a, b, c
  <2>9. f[j] = p \o Picked(c, b, y)
    BY <1>2, <2>3, <2>4, <2>5, <2>8, ConcatPicked
  <2>10. f[j] = p \o g[k]
    BY <2>6, <2>9, Zenon
  <2> QED
    BY <2>1, <2>10 DEF j
<1>8. n \in G
  <2>1. \A k \in 1 .. n : k - 1 \in G => k \in G
    BY <1>7
  <2> HIDE DEF G
  <2> QED
    BY <1>1, <1>6, <2>1, StepByStep
<1> QED
  BY <1>5, <1>8 DEF p, w, x

\* All but the last message.
LEMMA ExecsFront ==
  ASSUME NEW M, NEW s \in Seq(M), s # <<>>
  PROVE  /\ Front(s) \in Seq(M) /\ Len(s) \in Nat /\ Len(Front(s)) = Len(s) - 1
         /\ \A k \in 1 .. (Len(s) - 1) : Front(s)[k] = s[k]
         /\ \/ Execs(s) = Execs(Front(s))
            \/ Execs(s) = Append(Execs(Front(s)), s[Len(s)])
<1> DEFINE w == Front(s)
           x == s[Len(s)]
<1>1. w \in Seq(M) /\ Len(s) \in Nat \ {0} /\ Len(w) = Len(s) - 1 /\ x \in M
      /\ \A k \in 1 .. (Len(s) - 1) : w[k] = s[k]
  <2> DEFINE n == Len(s)
             h == n - 1
             z == SubSeq(s, 1, h)
  <2>1. n \in Nat \ {0} /\ h \in Nat /\ h <= n /\ s[n] \in M
        /\ \A k \in 1 .. n : s[k] \in M
    OBVIOUS
  <2> HIDE DEF n, h
  <2>2. z = [k \in 1 .. h |-> s[k]]
    <3>1. z = [k \in 1 .. ((1 + h) - 1) |-> s[(1 + k) - 1]]
      BY <2>1
    <3> QED
      BY <2>1
  <2>3. z \in Seq(M) /\ Len(z) = h
    BY <2>1, <2>2
  <2>4. \A k \in 1 .. h : z[k] = s[k]
    BY <2>2
  <2>5. w = z
    BY DEF Front, h, n
  <2> HIDE DEF z
  <2> QED
    BY <2>1, <2>3, <2>4, <2>5 DEF h, n
<1> HIDE DEF w
<1>2. s = Append(w, x)
  <2> DEFINE z == Append(w, x)
  <2> HIDE DEF x
  <2>1. z \in Seq(M) /\ Len(z) = Len(s)
    BY <1>1
  <2>2. ASSUME NEW k \in 1 .. Len(s) PROVE s[k] = z[k]
    <3>1. CASE k = Len(s)
      BY <1>1, <3>1 DEF x
    <3>2. CASE k # Len(s)
      <4>1. k \in 1 .. (Len(s) - 1) /\ k \in 1 .. Len(w)
        BY <1>1, <3>2
      <4>2. z[k] = w[k]
        BY <1>1, <4>1
      <4> QED
        BY <1>1, <4>1, <4>2
    <3> QED
      BY <3>1, <3>2
  <2> HIDE DEF z
  <2>3. s = z
    BY <2>1, <2>2, SeqEqual
  <2> QED
    BY <2>3 DEF z
<1> HIDE DEF x
<1>3. Execs(s) = Picked(x.kind = "exec", Execs(w), x)
  BY <1>1, <1>2, ExecsAppend
<1>4. Execs(s) = Execs(w) \/ Execs(s) = Append(Execs(w), x)
  BY <1>3, Zenon DEF Picked
<1> QED
  BY <1>1, <1>4 DEF w, x

-----------------------------------------------------------------------------
(* The order of the messages in the socket.                                *)

\* TB i is among the messages before the k-th.
Before(q, k, i) == \E j \in 1 .. (k - 1) : q[j].kind = "tb" /\ q[j].index = i

\* The messages q of a relay that has translated tr, to a broker that holds the
\* TBs H of them: a TB is what was translated, and an execution is of a TB that
\* the broker holds or is sent before.
MsgsOK(q, tr, H) ==
  /\ \A k \in 1 .. Len(q) : q[k].kind = "tb" =>
       q[k].index \in 0 .. (Len(tr) - 1) /\ q[k].block = tr[q[k].index + 1]
  /\ \A k \in 1 .. Len(q) : q[k].kind = "exec" =>
       /\ q[k].index \in 0 .. (Len(tr) - 1)
       /\ q[k].index \in H \/ Before(q, k, q[k].index)

\* The broker holds, or is sent, every TB.
AllSent(q, tr, H) ==
  \A i \in 0 .. (Len(tr) - 1) : i \in H \/ Before(q, Len(q) + 1, i)

\* Holding more TBs does no harm.
LEMMA MoreHeld ==
  ASSUME NEW q, NEW tr, NEW H, NEW K, H \subseteq K
  PROVE  /\ MsgsOK(q, tr, H) => MsgsOK(q, tr, K)
         /\ AllSent(q, tr, H) => AllSent(q, tr, K)
BY DEF MsgsOK, AllSent

\* A message that is added comes after the ones that were there.
LEMMA BeforeAppend ==
  ASSUME NEW M, NEW q \in Seq(M), NEW x \in M, NEW k \in 1 .. (Len(q) + 1), NEW i
  PROVE  Before(q, k, i) <=> Before(Append(q, x), k, i)
<1>1. \A j \in 1 .. (k - 1) : Append(q, x)[j] = q[j]
  OBVIOUS
<1> QED
  BY <1>1 DEF Before

\* A message that is not a TB is written.
LEMMA WriteOther ==
  ASSUME NEW M, NEW q \in Seq(M), NEW x \in M, NEW tr, NEW H,
         MsgsOK(q, tr, H), x.kind # "tb",
         x.kind = "exec" => /\ x.index \in 0 .. (Len(tr) - 1)
                            /\ AllSent(q, tr, H)
  PROVE  /\ MsgsOK(Append(q, x), tr, H)
         /\ AllSent(q, tr, H) => AllSent(Append(q, x), tr, H)
<1> DEFINE w == Append(q, x)
           n == Len(q)
<1>1. n \in Nat /\ Len(w) = n + 1 /\ w[n+1] = x /\ \A k \in 1 .. n : w[k] = q[k]
  OBVIOUS
<1>2. \A k \in 1 .. (n + 1) : \A i : Before(q, k, i) <=> Before(w, k, i)
  BY BeforeAppend
<1> HIDE DEF w, n
<1>3. \A i : Before(w, n + 1, i) => Before(w, Len(w) + 1, i)
  BY <1>1 DEF Before
<1>4. ASSUME NEW k \in 1 .. Len(w), w[k].kind = "tb"
      PROVE  w[k].index \in 0 .. (Len(tr) - 1) /\ w[k].block = tr[w[k].index + 1]
  <2>1. k \in 1 .. n
    BY <1>1, <1>4
  <2> QED
    BY <1>1, <1>4, <2>1 DEF MsgsOK, n
<1>5. ASSUME NEW k \in 1 .. Len(w), w[k].kind = "exec"
      PROVE  /\ w[k].index \in 0 .. (Len(tr) - 1)
             /\ w[k].index \in H \/ Before(w, k, w[k].index)
  <2>1. CASE k = n + 1
    <3>1. x.kind = "exec" /\ w[k] = x
      BY <1>1, <1>5, <2>1
    <3>2. x.index \in H \/ Before(q, n + 1, x.index)
      BY <3>1 DEF AllSent, n
    <3>3. n + 1 \in 1 .. (n + 1)
      BY <1>1
    <3> QED
      BY <1>2, <2>1, <3>1, <3>2, <3>3
  <2>2. CASE k # n + 1
    <3>1. k \in 1 .. n /\ k \in 1 .. (n + 1)
      BY <1>1, <2>2
    <3>2. q[k].kind = "exec" /\ w[k] = q[k]
      BY <1>1, <1>5, <3>1
    <3>3. /\ q[k].index \in 0 .. (Len(tr) - 1)
          /\ q[k].index \in H \/ Before(q, k, q[k].index)
      BY <3>1, <3>2 DEF MsgsOK, n
    <3> QED
      BY <1>2, <3>1, <3>2, <3>3
  <2> QED
    BY <2>1, <2>2
<1>6. AllSent(q, tr, H) => AllSent(w, tr, H)
  <2>1. n + 1 \in 1 .. (n + 1)
    BY <1>1
  <2> QED
    BY <1>2, <1>3, <2>1 DEF AllSent, n
<1>7. MsgsOK(w, tr, H)
  BY <1>4, <1>5 DEF MsgsOK
<1> QED
  BY <1>6, <1>7 DEF w

\* A TB is written when it has been translated.
LEMMA WriteTB ==
  ASSUME NEW M, NEW q \in Seq(M), NEW x \in M, NEW R, NEW tr \in Seq(R), NEW b \in R, NEW H,
         MsgsOK(q, tr, H), AllSent(q, tr, H),
         x.kind = "tb", x.index = Len(tr), x.block = b
  PROVE  MsgsOK(Append(q, x), Append(tr, b), H) /\ AllSent(Append(q, x), Append(tr, b), H)
<1> DEFINE w == Append(q, x)
           n == Len(q)
           u == Append(tr, b)
           m == Len(tr)
<1>1. n \in Nat /\ Len(w) = n + 1 /\ w[n+1] = x /\ \A k \in 1 .. n : w[k] = q[k]
  OBVIOUS
<1>2. m \in Nat /\ Len(u) = m + 1 /\ u[m+1] = b /\ \A k \in 1 .. m : u[k] = tr[k]
  OBVIOUS
<1>3. \A k \in 1 .. (n + 1) : \A i : Before(q, k, i) <=> Before(w, k, i)
  BY BeforeAppend
<1>4. x.index = m
  OBVIOUS
<1> HIDE DEF w, n, u, m
<1>5. \A i : Before(w, n + 1, i) => Before(w, Len(w) + 1, i)
  BY <1>1 DEF Before
<1>6. Before(w, Len(w) + 1, m)
  BY <1>1, <1>4 DEF Before
<1>7. ASSUME NEW k \in 1 .. Len(w), w[k].kind = "tb"
      PROVE  w[k].index \in 0 .. (Len(u) - 1) /\ w[k].block = u[w[k].index + 1]
  <2>1. CASE k = n + 1
    BY <1>1, <1>2, <1>4, <2>1
  <2>2. CASE k # n + 1
    <3>1. k \in 1 .. n
      BY <1>1, <2>2
    <3>2. w[k] = q[k] /\ q[k].kind = "tb"
      BY <1>1, <1>7, <3>1
    <3> DEFINE i == q[k].index
    <3>3. i \in 0 .. (m - 1) /\ q[k].block = tr[i+1]
      BY <3>1, <3>2 DEF MsgsOK, n, m
    <3> HIDE DEF i
    <3>4. i \in 0 .. (Len(u) - 1) /\ i + 1 \in 1 .. m
      BY <1>2, <3>3
    <3>5. u[i+1] = tr[i+1]
      BY <1>2, <3>4
    <3> QED
      BY <3>2, <3>3, <3>4, <3>5 DEF i
  <2> QED
    BY <2>1, <2>2
<1>8. ASSUME NEW k \in 1 .. Len(w), w[k].kind = "exec"
      PROVE  /\ w[k].index \in 0 .. (Len(u) - 1)
             /\ w[k].index \in H \/ Before(w, k, w[k].index)
  <2>1. k \in 1 .. n /\ k \in 1 .. (n + 1)
    BY <1>1, <1>8
  <2>2. q[k].kind = "exec" /\ w[k] = q[k]
    BY <1>1, <1>8, <2>1
  <2>3. /\ q[k].index \in 0 .. (m - 1)
        /\ q[k].index \in H \/ Before(q, k, q[k].index)
    BY <2>1, <2>2 DEF MsgsOK, n, m
  <2>4. 0 .. (m - 1) \subseteq 0 .. (Len(u) - 1)
    BY <1>2
  <2> QED
    BY <1>3, <2>1, <2>2, <2>3, <2>4
<1>9. ASSUME NEW i \in 0 .. (Len(u) - 1) PROVE i \in H \/ Before(w, Len(w) + 1, i)
  <2>1. n + 1 \in 1 .. (n + 1)
    BY <1>1
  <2>2. CASE i = m
    BY <1>6, <2>2
  <2>3. CASE i # m
    <3>1. i \in 0 .. (m - 1)
      BY <1>2, <2>3
    <3>2. i \in H \/ Before(q, n + 1, i)
      BY <3>1 DEF AllSent, n, m
    <3> QED
      BY <1>3, <1>5, <2>1, <3>2
  <2> QED
    BY <2>2, <2>3
<1>10. MsgsOK(w, u, H)
  BY <1>7, <1>8 DEF MsgsOK
<1>11. AllSent(w, u, H)
  BY <1>9 DEF AllSent
<1> QED
  BY <1>10, <1>11 DEF w, u

\* The first message is read; a TB is held then.
LEMMA ReadFirst ==
  ASSUME NEW M, NEW q \in Seq(M), q # <<>>, NEW tr, NEW H, NEW K, H \subseteq K,
         MsgsOK(q, tr, H), Head(q).kind = "tb" => Head(q).index \in K
  PROVE  /\ MsgsOK(Tail(q), tr, K)
         /\ AllSent(q, tr, H) => AllSent(Tail(q), tr, K)
<1> DEFINE w == Tail(q)
           n == Len(w)
           x == Head(q)
<1>1. n \in Nat /\ Len(q) = n + 1 /\ q[1] = x /\ \A k \in 1 .. n : w[k] = q[k+1]
  OBVIOUS
<1>2. x.kind = "tb" => x.index \in K
  OBVIOUS
<1> HIDE DEF w, n, x
<1>3. ASSUME NEW k \in 1 .. (n + 1), NEW i, i \in H \/ Before(q, k + 1, i)
      PROVE  i \in K \/ Before(w, k, i)
  <2>1. CASE i \in H
    BY <2>1
  <2>2. CASE Before(q, k + 1, i)
    <3>1. PICK j \in 1 .. ((k + 1) - 1) : q[j].kind = "tb" /\ q[j].index = i
      BY <2>2 DEF Before
    <3>2. CASE j = 1
      BY <1>1, <1>2, <3>1, <3>2
    <3>3. CASE j # 1
      <4> DEFINE h == j - 1
      <4>1. h \in 1 .. (k - 1) /\ h \in 1 .. n /\ h + 1 = j
        BY <1>1, <3>3
      <4> HIDE DEF h
      <4>2. w[h] = q[j]
        BY <1>1, <4>1
      <4> QED
        BY <3>1, <4>1, <4>2 DEF Before
    <3> QED
      BY <3>2, <3>3
  <2> QED
    BY <1>3, <2>1, <2>2
<1>4. ASSUME NEW k \in 1 .. n
      PROVE  /\ w[k].kind = "tb" =>
                  w[k].index \in 0 .. (Len(tr) - 1) /\ w[k].block = tr[w[k].index + 1]
             /\ w[k].kind = "exec" => /\ w[k].index \in 0 .. (Len(tr) - 1)
                                      /\ w[k].index \in K \/ Before(w, k, w[k].index)
  <2> DEFINE j == k + 1
  <2>1. j \in 1 .. Len(q) /\ w[k] = q[j] /\ k \in 1 .. (n + 1)
    BY <1>1
  <2>2. /\ q[j].kind = "tb" =>
             q[j].index \in 0 .. (Len(tr) - 1) /\ q[j].block = tr[q[j].index + 1]
        /\ q[j].kind = "exec" => /\ q[j].index \in 0 .. (Len(tr) - 1)
                                 /\ q[j].index \in H \/ Before(q, j, q[j].index)
    <3> HIDE DEF j
    <3> QED
      BY <2>1 DEF MsgsOK
  <2>3. q[j].index \in H \/ Before(q, j, q[j].index) =>
          q[j].index \in K \/ Before(w, k, q[j].index)
    BY <1>3, <2>1
  <2> HIDE DEF j
  <2> QED
    BY <2>1, <2>2, <2>3
<1>5. ASSUME AllSent(q, tr, H), NEW i \in 0 .. (Len(tr) - 1)
      PROVE  i \in K \/ Before(w, n + 1, i)
  <2>1. i \in H \/ Before(q, Len(q) + 1, i)
    BY <1>5 DEF AllSent
  <2> DEFINE k == n + 1
  <2>2. k \in 1 .. (n + 1) /\ Len(q) + 1 = k + 1
    BY <1>1
  <2> HIDE DEF k
  <2>3. i \in K \/ Before(w, k, i)
    BY <1>3, <2>1, <2>2
  <2> QED
    BY <2>3 DEF k
<1>6. MsgsOK(w, tr, K)
  BY <1>4 DEF MsgsOK, n
<1>7. AllSent(q, tr, H) => AllSent(w, tr, K)
  BY <1>5 DEF AllSent, n
<1> QED
  BY <1>6, <1>7 DEF w

\* The last message is lost.
LEMMA LoseLast ==
  ASSUME NEW M, NEW q \in Seq(M), q # <<>>, NEW tr, NEW H, MsgsOK(q, tr, H)
  PROVE  MsgsOK(Front(q), tr, H)
<1> DEFINE w == Front(q)
           n == Len(w)
<1>1. w \in Seq(M) /\ Len(q) \in Nat /\ n = Len(q) - 1
      /\ \A k \in 1 .. (Len(q) - 1) : w[k] = q[k]
  BY ExecsFront
<1> HIDE DEF w
<1>2. n \in Nat /\ (\A k \in 1 .. n : w[k] = q[k] /\ k \in 1 .. Len(q))
  BY <1>1
<1> HIDE DEF n
<1>3. \A k \in 1 .. n : \A i : Before(q, k, i) => Before(w, k, i)
  <2> SUFFICES ASSUME NEW k \in 1 .. n, NEW i, NEW j \in 1 .. (k - 1),
                      q[j].kind = "tb", q[j].index = i
               PROVE  w[j].kind = "tb" /\ w[j].index = i
    BY DEF Before
  <2>1. j \in 1 .. n
    BY <1>2
  <2> QED
    BY <1>2, <2>1
<1>4. ASSUME NEW k \in 1 .. n
      PROVE  /\ w[k].kind = "tb" =>
                  w[k].index \in 0 .. (Len(tr) - 1) /\ w[k].block = tr[w[k].index + 1]
             /\ w[k].kind = "exec" => /\ w[k].index \in 0 .. (Len(tr) - 1)
                                      /\ w[k].index \in H \/ Before(w, k, w[k].index)
  BY <1>2, <1>3 DEF MsgsOK
<1>5. MsgsOK(w, tr, H)
  BY <1>4 DEF MsgsOK, n
<1> QED
  BY <1>5 DEF w

-----------------------------------------------------------------------------
(* The inductive invariant.                                                *)

\* TBs as the relay reports them, its messages, and what the broker keeps of a TB.
Reportable == Blocks \cup {[b EXCEPT !.addr = i] : b \in Blocks, i \in Nat}
ExecMsg == {ExecTB(i, m) : i \in Nat, m \in SUBSET Nat}
TBMsg == {TranslatedBlock(i, b) : i \in Nat, b \in Reportable}
RelayMsg == {Metadata, EndSignal} \cup ExecMsg \cup TBMsg
TBShape(tb) == tb = [gen |-> tb.gen, raw |-> tb.raw, mcinsts |-> tb.mcinsts,
                     VAddrOffsets |-> tb.VAddrOffsets, skew |-> tb.skew,
                     beginMarks |-> tb.beginMarks, endMarks |-> tb.endMarks]

\* The TB that is executing, of a relay that has translated tr.
CurOK(cur, tr) == \/ cur = <<>>
                  \/ \E i \in 0 .. (Len(tr) - 1) : \E m \in SUBSET Nat :
                       cur = <<[index |-> i, mem |-> m]>>
NowOf(cur, acc) ==
  [k \in DOMAIN cur |-> ExecTB(cur[k].index, cur[k].mem \cup Range(acc))]

\* The executions that were written, and the TBs the broker holds.
Sent == handled \o Execs(sock["relay"])
HeldTBs == {i \in 0 .. (Len(translated) - 1) :
              client = "relay" /\ TBs[i].raw = translated[i+1]}

\* The types of the variables, by the process they belong to.
ServerTypes ==
  /\ sock = [c \in {"relay", "test"} |-> sock[c]]
  /\ sock["relay"] \in Seq(RelayMsg)
  /\ sock["test"] \in Seq(ClientMsgs)
  /\ backlog \in Seq({"relay", "test"})
  /\ client \in {"none", "relay", "test"}
  /\ rpc = "accept" => client = "none"
  /\ handled \in Seq(RelayMsg)
KeptTypes ==
  /\ TBs = [i \in TBIndex |-> TBs[i]]
  /\ \A i \in TBIndex : TBShape(TBs[i])
RelayTypes ==
  /\ translated \in Seq(Reportable)
  /\ Len(translated) <= NumTBs
  /\ executed \in Seq(RelayMsg)
  /\ accesses \in Seq(Nat)
  /\ CurOK(CurrentExecTB, translated)
  /\ accesses # <<>> => CurrentExecTB # <<>>
\* A relay that was not started has done nothing.
Idle == relay \in {"off", "refused"} =>
          /\ sock["relay"] = <<>> /\ handled = <<>> /\ executed = <<>>
          /\ translated = <<>> /\ CurrentExecTB = <<>> /\ accesses = <<>>
\* The messages are in order, and no TB of a running relay is missing.
Told == /\ MsgsOK(sock["relay"], translated, HeldTBs)
        /\ relay = "on" => AllSent(sock["relay"], translated, HeldTBs)
\* What was executed is what was written and, while the relay runs, the
\* execution that is going on with the accesses it will have made.
Exact == /\ relay = "on" => executed = Sent \o NowOf(CurrentExecTB, accesses)
         /\ relay = "exited" => executed = Sent
         /\ relay = "killed" => IsPrefix(Sent, executed)
\* The states of the relay, and the inductive invariant.
RelayState == relay \in {"off", "on", "exited", "killed", "refused"}

RInv == ServerTypes /\ KeptTypes /\ RelayTypes /\ RelayState /\ Idle /\ Told /\ Exact

-----------------------------------------------------------------------------
\* What decoding a TB keeps.
LEMMA DecodedKeeps ==
  ASSUME NEW tb, TBShape(tb)
  PROVE  TBShape(Decoded(tb)) /\ Decoded(tb).raw = tb.raw
<1> DEFINE b == tb.raw
           n == NumInsts(b)
           off == [p \in 0 .. (n - 1) |-> Offset(b, p) % 256]
           k == SkewIndex(b)
           d == Disassemble(tb)
<1>1. d = IF tb.mcinsts # 0 THEN tb
          ELSE [tb EXCEPT !.mcinsts = n, !.VAddrOffsets = off, !.skew = k]
  BY DEF Disassemble
<1> HIDE DEF off, n, k
<1>2. d = IF tb.mcinsts # 0 THEN tb
          ELSE [gen |-> tb.gen, raw |-> tb.raw, mcinsts |-> n, VAddrOffsets |-> off,
                skew |-> k, beginMarks |-> tb.beginMarks, endMarks |-> tb.endMarks]
  BY <1>1 DEF TBShape
<1> HIDE DEF d
<1>3. TBShape(d) /\ d.raw = tb.raw
  BY <1>2 DEF TBShape
<1> DEFINE h == HandleBinaryRegions(d)
           bm == {h.begin} \ {-1}
           em == {h.end} \ {-1}
<1>4. Decoded(tb) = IF tb.mcinsts # 0 \/ Mode # "mark" THEN d
                    ELSE [d EXCEPT !.beginMarks = bm, !.endMarks = em]
  BY DEF Decoded, d
<1> HIDE DEF bm, em
<1>5. Decoded(tb) = IF tb.mcinsts # 0 \/ Mode # "mark" THEN d
                    ELSE [gen |-> d.gen, raw |-> d.raw, mcinsts |-> d.mcinsts,
                          VAddrOffsets |-> d.VAddrOffsets, skew |-> d.skew,
                          beginMarks |-> bm, endMarks |-> em]
  BY <1>3, <1>4 DEF TBShape
<1> QED
  BY <1>3, <1>5 DEF TBShape

\* A TB that is added has the contents it was sent with.
LEMMA NewKeeps ==
  ASSUME NEW b, NEW g
  PROVE  TBShape(NewTB(b, g)) /\ NewTB(b, g).raw = b /\ TBShape(NoTB)
<1> DEFINE r == [addr |-> 0, width |-> 0, parts |-> <<>>, mem |-> {}]
           z == <<>>
           c == {}
           k == 0
           New == [gen |-> g, raw |-> b, mcinsts |-> NoTB.mcinsts,
                   VAddrOffsets |-> NoTB.VAddrOffsets, skew |-> NoTB.skew,
                   beginMarks |-> NoTB.beginMarks, endMarks |-> NoTB.endMarks]
<1>1. NoTB = [gen |-> k, raw |-> r, mcinsts |-> k, VAddrOffsets |-> z, skew |-> z,
              beginMarks |-> c, endMarks |-> c]
  BY DEF NoTB
<1> HIDE DEF r, z, c, k
<1>2. TBShape(NoTB)
  BY <1>1 DEF TBShape
<1>3. NewTB(b, g) = New
  <2> DEFINE o == NoTB
  <2>1. NewTB(b, g) = [o EXCEPT !.gen = g, !.raw = b] /\ TBShape(o)
    BY <1>2 DEF NewTB
  <2> HIDE DEF o
  <2>2. NewTB(b, g) = [gen |-> g, raw |-> b, mcinsts |-> o.mcinsts,
                   VAddrOffsets |-> o.VAddrOffsets, skew |-> o.skew,
                   beginMarks |-> o.beginMarks, endMarks |-> o.endMarks]
    BY <2>1 DEF TBShape
  <2> QED
    BY <2>2 DEF o
<1>4. TBShape(New) /\ New.raw = b
  BY DEF TBShape
<1> QED
  BY <1>2, <1>3, <1>4

\* What a block is.
LEMMA BlockParts ==
  ASSUME NEW b \in Reportable
  PROVE  b.parts \in Seq(Nat) /\ b.mem \subseteq 0 .. (Len(b.parts) - 1) /\ b.mem \subseteq Nat
<1>1. \A d \in Blocks : d.parts \in Seq(Nat) /\ d.mem \subseteq 0 .. (Len(d.parts) - 1)
  BY BrokerAssumption DEF BlockOK
<1>2. CASE b \in Blocks
  BY <1>1, <1>2
<1>3. CASE b \notin Blocks
  <2>1. PICK d \in Blocks, i \in Nat : b = [d EXCEPT !.addr = i]
    BY <1>3 DEF Reportable
  <2> DEFINE a == d.addr
             w == d.width
             p == d.parts
             m == d.mem
  <2>2. d = [addr |-> a, width |-> w, parts |-> p, mem |-> m]
    BY SystemAssumption
  <2>3. p \in Seq(Nat) /\ m \subseteq 0 .. (Len(p) - 1)
    BY <1>1
  <2> HIDE DEF a, w, p, m
  <2>4. b.parts = p /\ b.mem = m
    BY <2>1, <2>2
  <2> QED
    BY <2>3, <2>4
<1> QED
  BY <1>2, <1>3

\* What a message is.
LEMMA MsgFacts ==
  /\ \A x \in RelayMsg : x.kind \in {"metadata", "tb", "exec", "end"}
  /\ \A x \in RelayMsg : x.kind = "exec" => x \in ExecMsg
  /\ Metadata \in RelayMsg /\ Metadata.kind = "metadata"
  /\ EndSignal \in RelayMsg /\ EndSignal.kind = "end"
  /\ \A i \in Nat : \A m \in SUBSET Nat :
       /\ ExecTB(i, m) \in RelayMsg
       /\ ExecTB(i, m).kind = "exec" /\ ExecTB(i, m).index = i /\ ExecTB(i, m).mem = m
  /\ \A i \in Nat : \A b \in Reportable :
       /\ TranslatedBlock(i, b) \in RelayMsg
       /\ TranslatedBlock(i, b).kind = "tb"
       /\ TranslatedBlock(i, b).index = i /\ TranslatedBlock(i, b).block = b
<1>1. /\ Metadata \in RelayMsg /\ Metadata.kind = "metadata"
      /\ EndSignal \in RelayMsg /\ EndSignal.kind = "end"
  BY DEF RelayMsg, Metadata, EndSignal
<1>2. ASSUME NEW i \in Nat, NEW m \in SUBSET Nat
      PROVE  /\ ExecTB(i, m) \in ExecMsg
             /\ ExecTB(i, m).kind = "exec" /\ ExecTB(i, m).index = i /\ ExecTB(i, m).mem = m
  <2>1. ExecTB(i, m) \in ExecMsg
    BY DEF ExecMsg
  <2>2. ExecTB(i, m).kind = "exec" /\ ExecTB(i, m).index = i /\ ExecTB(i, m).mem = m
    BY DEF ExecTB
  <2> QED
    BY <2>1, <2>2
<1>3. ASSUME NEW i \in Nat, NEW b \in Reportable
      PROVE  /\ TranslatedBlock(i, b) \in TBMsg
             /\ TranslatedBlock(i, b).kind = "tb"
             /\ TranslatedBlock(i, b).index = i /\ TranslatedBlock(i, b).block = b
  <2>1. TranslatedBlock(i, b) \in TBMsg
    BY DEF TBMsg
  <2>2. /\ TranslatedBlock(i, b).kind = "tb"
        /\ TranslatedBlock(i, b).index = i /\ TranslatedBlock(i, b).block = b
    BY DEF TranslatedBlock
  <2> QED
    BY <2>1, <2>2
<1>4. \A x \in ExecMsg : x.kind = "exec"
  BY <1>2 DEF ExecMsg
<1>5. ASSUME NEW x \in TBMsg PROVE x.kind = "tb"
  <2>1. PICK i \in Nat, b \in Reportable : x = TranslatedBlock(i, b)
    BY DEF TBMsg
  <2> QED
    BY <1>3, <2>1
<1>6. ASSUME NEW x \in RelayMsg
      PROVE  x.kind \in {"metadata", "tb", "exec", "end"} /\ (x.kind = "exec" => x \in ExecMsg)
  <2>1. x = Metadata \/ x = EndSignal \/ x \in ExecMsg \/ x \in TBMsg
    BY DEF RelayMsg
  <2> QED
    BY <1>1, <1>4, <1>5, <2>1
<1>7. ExecMsg \subseteq RelayMsg /\ TBMsg \subseteq RelayMsg
  BY DEF RelayMsg
<1>8. \A i \in Nat : \A m \in SUBSET Nat :
        /\ ExecTB(i, m) \in RelayMsg
        /\ ExecTB(i, m).kind = "exec" /\ ExecTB(i, m).index = i /\ ExecTB(i, m).mem = m
  BY <1>2, <1>7
<1>9. \A i \in Nat : \A b \in Reportable :
        /\ TranslatedBlock(i, b) \in RelayMsg
        /\ TranslatedBlock(i, b).kind = "tb"
        /\ TranslatedBlock(i, b).index = i /\ TranslatedBlock(i, b).block = b
  BY <1>3, <1>7
<1> QED
  BY <1>1, <1>6, <1>8, <1>9

\* What is executing.
LEMMA NowFacts ==
  /\ \A acc : NowOf(<<>>, acc) = <<>>
  /\ \A i, m, acc : NowOf(<<[index |-> i, mem |-> m]>>, acc)
                      = <<ExecTB(i, m \cup Range(acc))>>
<1>1. \A acc : NowOf(<<>>, acc) = <<>>
  BY DEF NowOf
<1>2. ASSUME NEW i, NEW m, NEW acc
      PROVE  NowOf(<<[index |-> i, mem |-> m]>>, acc) = <<ExecTB(i, m \cup Range(acc))>>
  <2> DEFINE r == [index |-> i, mem |-> m]
             cur == <<r>>
             x == ExecTB(i, m \cup Range(acc))
  <2>1. r.index = i /\ r.mem = m
    OBVIOUS
  <2> HIDE DEF r
  <2>2. DOMAIN cur = {1} /\ cur[1] = r
    OBVIOUS
  <2>3. NowOf(cur, acc) = [k \in {1} |-> x]
    BY <2>1, <2>2 DEF NowOf
  <2> HIDE DEF x, cur
  <2>4. [k \in {1} |-> x] = <<x>>
    OBVIOUS
  <2> QED
    BY <2>3, <2>4 DEF cur, r, x
<1> QED
  BY <1>1, <1>2

\* No accesses.
LEMMA EmptyRange == Range(<<>>) = {}
BY DEF Range

-----------------------------------------------------------------------------
\* The invariant holds in the beginning.
LEMMA InitRInv == SysInit => RInv
<1> SUFFICES ASSUME SysInit PROVE RInv
  OBVIOUS
<1>1. sock = [c \in {"relay", "test"} |-> <<>>] /\ sock["relay"] = <<>> /\ sock["test"] = <<>>
  BY DEF SysInit
<1>2. ServerTypes
  BY <1>1 DEF SysInit, ServerTypes
<1>3. KeptTypes
  <2>1. TBs = [i \in TBIndex |-> NoTB]
    BY DEF SysInit, Init
  <2>2. TBShape(NoTB)
    BY NewKeeps
  <2> HIDE DEF TBIndex
  <2> QED
    BY <2>1, <2>2 DEF KeptTypes
<1>4. RelayTypes /\ Idle /\ RelayState
  BY <1>1, BrokerAssumption DEF SysInit, RelayTypes, CurOK, Idle, RelayState
<1>5. Exact
  BY DEF SysInit, Exact
<1>6. Told
  <2>1. relay # "on"
    BY DEF SysInit
  <2> HIDE DEF HeldTBs
  <2> QED
    BY <1>1, <2>1 DEF Told, MsgsOK
<1> QED
  BY <1>2, <1>3, <1>4, <1>5, <1>6 DEF RInv

-----------------------------------------------------------------------------
(* Steps of the broker and of the test client.                             *)

\* Steps that the relay has no part in.
LEMMA KeepInv ==
  ASSUME RInv, UNCHANGED relayVars, sock'["relay"] = sock["relay"], handled' = handled,
         ServerTypes', KeptTypes',
         HeldTBs \subseteq HeldTBs' \/ (sock["relay"] = <<>> /\ relay # "on")
  PROVE  RInv'
<1>1. UNCHANGED <<relay, translated, CurrentExecTB, accesses, executed>>
  BY DEF relayVars, codeVars
<1>2. RelayTypes' /\ RelayState'
  BY <1>1 DEF RInv, RelayTypes, RelayState
<1>3. Idle'
  BY <1>1 DEF RInv, Idle
<1>4. Sent' = Sent
  BY DEF Sent
<1>5. Exact'
  BY <1>1, <1>4 DEF RInv, Exact
<1>6. Told'
  <2>1. CASE HeldTBs \subseteq HeldTBs'
    <3>1. Told
      BY DEF RInv
    <3> DEFINE H == HeldTBs
               K == HeldTBs'
    <3>2. /\ MsgsOK(sock["relay"], translated, H)
          /\ relay = "on" => AllSent(sock["relay"], translated, H)
      BY <3>1 DEF Told
    <3>3. H \subseteq K
      BY <2>1
    <3> HIDE DEF H, K
    <3>4. /\ MsgsOK(sock["relay"], translated, K)
          /\ relay = "on" => AllSent(sock["relay"], translated, K)
      BY <3>2, <3>3, MoreHeld
    <3> QED
      BY <1>1, <3>4 DEF Told, K
  <2>2. CASE sock["relay"] = <<>> /\ relay # "on"
    <3>1. MsgsOK(sock["relay"], translated, HeldTBs')
      BY <2>2 DEF MsgsOK
    <3> QED
      BY <1>1, <2>2, <3>1 DEF Told
  <2> QED
    BY <2>1, <2>2
<1> QED
  BY <1>2, <1>3, <1>5, <1>6 DEF RInv

\* Replacing one TB leaves the others alone.
LEMMA SetTB ==
  ASSUME KeptTypes, NEW i, NEW tb, i \in TBIndex => TBShape(tb),
         TBs' = [TBs EXCEPT ![i] = tb]
  PROVE  /\ KeptTypes'
         /\ \A j \in TBIndex : j # i => TBs'[j] = TBs[j]
         /\ i \in TBIndex => TBs'[i] = tb
<1>1. TBs = [j \in TBIndex |-> TBs[j]] /\ \A j \in TBIndex : TBShape(TBs[j])
  BY DEF KeptTypes
<1>2. TBs' = [j \in TBIndex |-> IF j = i THEN tb ELSE TBs[j]]
  <2> HIDE DEF TBIndex
  <2> QED
    BY <1>1, Zenon
<1> HIDE DEF TBIndex
<1>3. \A j \in TBIndex : TBs'[j] = IF j = i THEN tb ELSE TBs[j]
  BY <1>2, Zenon
<1>4. \A j \in TBIndex : TBShape(TBs'[j])
  BY <1>1, <1>3, Zenon
<1>5. TBs' = [j \in TBIndex |-> TBs'[j]]
  BY <1>2, Zenon
<1> QED
  BY <1>3, <1>4, <1>5, Zenon DEF KeptTypes

\* What a message does to the TBs.
LEMMA HandleFacts ==
  ASSUME KeptTypes, NEW m, m.kind \in {"metadata", "tb", "exec", "end"}, HandleMessage(m)
  PROVE  /\ KeptTypes' /\ rpc' # "accept" /\ rpc # "accept"
         /\ \A j \in TBIndex : TBs'[j].raw = TBs[j].raw \/ (m.kind = "tb" /\ j = m.index)
         /\ m.kind = "tb" => m.index \in TBIndex /\ TBs'[m.index].raw = m.block
<1> HIDE DEF TBIndex
<1>1. CASE m.kind = "metadata"
  <2>1. HandleMetadata
    BY <1>1 DEF HandleMessage
  <2>2. TBs' = TBs /\ rpc' = "read" /\ rpc = "read"
    BY <2>1 DEF HandleMetadata
  <2> QED
    BY <1>1, <2>2 DEF KeptTypes
<1>2. CASE m.kind = "end"
  <2>1. TbExecEnd
    BY <1>2 DEF HandleMessage
  <2>2. TBs' = TBs /\ rpc' = "notify" /\ rpc = "read"
    BY <2>1 DEF TbExecEnd
  <2> QED
    BY <1>2, <2>2 DEF KeptTypes
<1>3. CASE m.kind = "tb"
  <2> DEFINE i == m.index
             b == m.block
             tb == NewTB(b, conns)
  <2>1. AddTB(i, b)
    BY <1>3 DEF HandleMessage
  <2>2. TBs' = [TBs EXCEPT ![i] = tb] /\ i \in TBIndex /\ rpc = "read" /\ rpc' = "read"
    BY <2>1 DEF AddTB
  <2>3. TBShape(tb) /\ tb.raw = b
    BY NewKeeps
  <2> HIDE DEF i, b, tb
  <2>4. /\ KeptTypes'
        /\ \A j \in TBIndex : j # i => TBs'[j] = TBs[j]
        /\ TBs'[i] = tb
    BY <2>2, <2>3, SetTB
  <2>5. rpc' # "accept" /\ rpc # "accept"
    BY <2>2
  <2>6. TBs'[i].raw = b
    BY <2>3, <2>4
  <2>7. \A j \in TBIndex : TBs'[j].raw = TBs[j].raw \/ j = i
    BY <2>4
  <2> QED
    BY <1>3, <2>2, <2>4, <2>5, <2>6, <2>7, Zenon DEF i, b
<1>4. CASE m.kind = "exec"
  <2> DEFINE i == m.index
  <2>1. TbExecInvalid(i) \/ TbExec(i, m.mem)
    BY <1>4 DEF HandleMessage
  <2>2. CASE TbExecInvalid(i)
    <3>1. TBs' = TBs /\ rpc' = "read" /\ rpc = "read"
      BY <2>2 DEF TbExecInvalid, recvVars
    <3> QED
      BY <1>4, <3>1 DEF KeptTypes
  <2>3. CASE TbExec(i, m.mem)
    <3> DEFINE tb == Decoded(TBs[i])
    <3>1. TBs' = [TBs EXCEPT ![i] = tb] /\ rpc = "read" /\ rpc' \in {"read", "enqueue"}
      BY <2>3 DEF TbExec
    <3>2. i \in TBIndex => TBShape(tb) /\ tb.raw = TBs[i].raw
      BY DecodedKeeps DEF KeptTypes
    <3> HIDE DEF i, tb
    <3>3. /\ KeptTypes'
          /\ \A j \in TBIndex : j # i => TBs'[j] = TBs[j]
          /\ i \in TBIndex => TBs'[i] = tb
      BY <3>1, <3>2, SetTB
    <3>4. rpc' # "accept" /\ rpc # "accept"
      BY <3>1
    <3>5. \A j \in TBIndex : TBs'[j].raw = TBs[j].raw
      BY <3>2, <3>3, Zenon
    <3>6. m.kind # "tb"
      BY <1>4
    <3> QED
      BY <3>3, <3>4, <3>5, <3>6, Zenon
  <2> QED
    BY <2>1, <2>2, <2>3
<1> QED
  BY <1>1, <1>2, <1>3, <1>4

\* A client is accepted or leaves, or the broker works on its queue.
LEMMA AcceptKeeps ==
  ASSUME RInv, AcceptClient
  PROVE  RInv'
<1>1. UNCHANGED <<relayVars, sock, handled>> /\ TBs' = TBs /\ rpc = "accept" /\ rpc' = "read"
  BY DEF AcceptClient, Accept
<1>2. client = "none" /\ ServerTypes /\ KeptTypes
      /\ backlog # <<>> /\ backlog \in Seq({"relay", "test"})
  BY <1>1 DEF AcceptClient, RInv, ServerTypes
<1>3. client' = Head(backlog) /\ backlog' = Tail(backlog)
  BY DEF AcceptClient
<1>4. client' \in {"relay", "test"} /\ backlog' \in Seq({"relay", "test"})
  <2> DEFINE S == {"relay", "test"}
  <2>1. backlog \in Seq(S) /\ backlog # <<>>
    BY <1>2
  <2> HIDE DEF S
  <2>2. Head(backlog) \in S /\ Tail(backlog) \in Seq(S)
    BY <2>1
  <2> QED
    BY <1>3, <2>2 DEF S
<1>5. ServerTypes'
  BY <1>1, <1>2, <1>4 DEF ServerTypes
<1>6. KeptTypes'
  BY <1>1, <1>2 DEF KeptTypes
<1>7. HeldTBs = {}
  BY <1>2 DEF HeldTBs
<1> QED
  BY <1>1, <1>5, <1>6, <1>7, KeepInv

\* A client has closed the socket and everything was read.
LEMMA EOFKeeps ==
  ASSUME RInv, ReadEOF
  PROVE  RInv'
<1>1. UNCHANGED <<relayVars, sock, backlog, handled>> /\ TBs' = TBs /\ client' = "none"
  BY DEF ReadEOF, CloseConnection, sockVars
<1>2. ServerTypes /\ KeptTypes
  BY DEF RInv
<1>3. ServerTypes'
  BY <1>1, <1>2 DEF ServerTypes
<1>4. KeptTypes'
  BY <1>1, <1>2 DEF KeptTypes
<1>5. CASE client = "relay"
  <2>1. sock["relay"] = <<>> /\ relay # "on"
    BY <1>5 DEF ReadEOF
  <2> QED
    BY <1>1, <1>3, <1>4, <2>1, KeepInv
<1>6. CASE client # "relay"
  <2>1. HeldTBs = {}
    BY <1>6 DEF HeldTBs
  <2> QED
    BY <1>1, <1>3, <1>4, <2>1, KeepInv
<1> QED
  BY <1>5, <1>6

\* Steps that touch neither the sockets nor the TBs.
LEMMA OtherKeeps ==
  ASSUME RInv, UNCHANGED <<relayVars, sockVars, client, handled, TBs>>,
         rpc' = "accept" => rpc = "accept"
  PROVE  RInv'
<1>1. UNCHANGED <<relayVars, sock, backlog, client, handled, translated>> /\ TBs' = TBs
  BY DEF sockVars, relayVars, codeVars
<1>2. ServerTypes /\ KeptTypes
  BY DEF RInv
<1>3. ServerTypes'
  BY <1>1, <1>2 DEF ServerTypes
<1>4. KeptTypes'
  BY <1>1, <1>2 DEF KeptTypes
<1>5. HeldTBs' = HeldTBs
  BY <1>1 DEF HeldTBs
<1> QED
  BY <1>1, <1>3, <1>4, <1>5, KeepInv

\* The broker starts and stops, and works on its queue.
LEMMA InBrokerKeeps ==
  ASSUME RInv,
         \/ Construct \/ Destroy
         \/ InBroker(Enqueue) \/ InBroker(Notify) \/ InBroker(SpuriousWakeup)
         \/ FetchRegion
         \/ UNCHANGED sysVars
  PROVE  RInv'
<1> USE DEF recvVars
<1>1. UNCHANGED <<relayVars, sockVars, client, handled, TBs>>
  BY DEF Construct, Destroy, InBroker, FetchRegion, Enqueue, Notify, SpuriousWakeup,
         FetchEmpty, FetchSelect, FetchDeliver, Convert, sysVars, vars
<1>2. rpc' = "accept" => rpc = "accept"
  BY DEF Construct, Destroy, InBroker, FetchRegion, Enqueue, Notify, SpuriousWakeup,
         FetchEmpty, FetchSelect, FetchDeliver, Convert, sysVars, vars
<1> QED
  BY <1>1, <1>2, OtherKeeps

\* The test client connects.
LEMMA TestKeeps ==
  ASSUME RInv, NEW m \in ClientMsgs, TestClient(m)
  PROVE  RInv'
<1>1. UNCHANGED <<relayVars, client, handled, translated>> /\ TBs' = TBs /\ rpc' = rpc
  BY DEF TestClient, vars, recvVars, relayVars, codeVars
<1>2. ServerTypes /\ KeptTypes
  BY DEF RInv
<1>3. sock = [c \in {"relay", "test"} |-> sock[c]] /\ sock' = [sock EXCEPT !["test"] = <<m>>]
  BY <1>2 DEF ServerTypes, TestClient
<1>4. /\ sock' = [c \in {"relay", "test"} |-> sock'[c]]
      /\ sock'["relay"] = sock["relay"] /\ sock'["test"] = <<m>>
  BY <1>3
<1>5. backlog' \in Seq({"relay", "test"})
  BY DEF TestClient
<1>6. ServerTypes'
  BY <1>1, <1>2, <1>4, <1>5 DEF ServerTypes
<1>7. KeptTypes'
  BY <1>1, <1>2 DEF KeptTypes
<1>8. HeldTBs' = HeldTBs
  BY <1>1 DEF HeldTBs
<1> QED
  BY <1>1, <1>4, <1>6, <1>7, <1>8, KeepInv

\* A message of the test client is handled.
LEMMA ReadTestKeeps ==
  ASSUME RInv, ReadMessage, client # "relay"
  PROVE  RInv'
<1> DEFINE m == Head(sock[client])
<1>1. UNCHANGED <<relayVars, client, handled, translated, backlog>>
  BY DEF ReadMessage, relayVars, codeVars
<1>2. ServerTypes /\ KeptTypes
  BY DEF RInv
<1>3. client = "test" /\ sock["test"] # <<>> /\ sock["test"] \in Seq(ClientMsgs)
  BY <1>2 DEF ReadMessage, ServerTypes
<1>4. sock = [c \in {"relay", "test"} |-> sock[c]]
      /\ sock' = [sock EXCEPT !["test"] = Tail(sock["test"])]
  BY <1>2, <1>3 DEF ServerTypes, ReadMessage
<1>5. /\ sock' = [c \in {"relay", "test"} |-> sock'[c]]
      /\ sock'["relay"] = sock["relay"] /\ sock'["test"] = Tail(sock["test"])
  BY <1>4
<1>6. m \in ClientMsgs /\ sock'["test"] \in Seq(ClientMsgs)
  BY <1>3, <1>5
<1>7. m.kind \in {"metadata", "tb", "exec", "end"}
  BY <1>6, SystemAssumption
<1>8. HandleMessage(m)
  BY DEF ReadMessage
<1> HIDE DEF m
<1>9. KeptTypes' /\ rpc' # "accept"
  BY <1>2, <1>7, <1>8, HandleFacts
<1>10. ServerTypes'
  BY <1>1, <1>2, <1>5, <1>6, <1>9 DEF ServerTypes
<1>11. HeldTBs = {}
  BY <1>3 DEF HeldTBs
<1> QED
  BY <1>1, <1>5, <1>9, <1>10, <1>11, KeepInv

\* A message of the relay is handled.
LEMMA ReadRelayKeeps ==
  ASSUME RInv, ReadMessage, client = "relay"
  PROVE  RInv'
<1> DEFINE q == sock["relay"]
           m == Head(q)
           H == HeldTBs
           K == HeldTBs'
<1>1. UNCHANGED <<relay, translated, CurrentExecTB, accesses, executed, client, backlog>>
  BY DEF ReadMessage, relayVars, codeVars
<1>2. ServerTypes /\ KeptTypes /\ RelayTypes /\ RelayState /\ Idle /\ Told /\ Exact
  BY DEF RInv
<1>3. q # <<>> /\ q \in Seq(RelayMsg) /\ handled \in Seq(RelayMsg)
  BY <1>2 DEF ReadMessage, ServerTypes
<1>4. sock = [c \in {"relay", "test"} |-> sock[c]] /\ sock' = [sock EXCEPT !["relay"] = Tail(q)]
  BY <1>2 DEF ServerTypes, ReadMessage
<1>5. /\ sock' = [c \in {"relay", "test"} |-> sock'[c]]
      /\ sock'["test"] = sock["test"] /\ sock'["relay"] = Tail(q)
  BY <1>4
<1>6. m \in RelayMsg /\ Tail(q) \in Seq(RelayMsg) /\ m = q[1] /\ 1 \in 1 .. Len(q)
  BY <1>3
<1>7. m.kind \in {"metadata", "tb", "exec", "end"}
  BY <1>6, MsgFacts
<1>8. HandleMessage(m) /\ handled' = IF m.kind = "exec" THEN Append(handled, m) ELSE handled
  BY DEF ReadMessage
<1>9. MsgsOK(q, translated, H) /\ (relay = "on" => AllSent(q, translated, H))
  BY <1>2 DEF Told
<1>10. m.kind = "tb" => /\ m.index \in 0 .. (Len(translated) - 1)
                        /\ m.block = translated[m.index + 1]
  BY <1>6, <1>9 DEF MsgsOK
<1> HIDE DEF q, m
<1>11. /\ KeptTypes' /\ rpc' # "accept"
       /\ \A j \in TBIndex : TBs'[j].raw = TBs[j].raw \/ (m.kind = "tb" /\ j = m.index)
       /\ m.kind = "tb" => m.index \in TBIndex /\ TBs'[m.index].raw = m.block
  BY <1>2, <1>7, <1>8, HandleFacts
<1>12. m.kind = "tb" => m.index \in K
  BY <1>1, <1>10, <1>11 DEF HeldTBs
<1>13. 0 .. (Len(translated) - 1) \subseteq TBIndex
  BY <1>2, BrokerAssumption DEF RelayTypes, TBIndex
<1>14. H \subseteq K
  <2> SUFFICES ASSUME NEW i \in H PROVE i \in K
    OBVIOUS
  <2>1. i \in 0 .. (Len(translated) - 1) /\ TBs[i].raw = translated[i+1]
    BY DEF HeldTBs
  <2>2. TBs'[i].raw = TBs[i].raw \/ (m.kind = "tb" /\ i = m.index)
    BY <1>11, <1>13, <2>1
  <2>3. CASE m.kind = "tb" /\ i = m.index
    BY <1>12, <2>3
  <2>4. CASE TBs'[i].raw = TBs[i].raw
    BY <1>1, <2>1, <2>4 DEF HeldTBs
  <2> QED
    BY <2>2, <2>3, <2>4
<1> HIDE DEF H, K
<1>15. /\ MsgsOK(Tail(q), translated, K)
       /\ AllSent(q, translated, H) => AllSent(Tail(q), translated, K)
  <2>1. Head(q).kind = "tb" => Head(q).index \in K
    BY <1>12 DEF m
  <2> QED
    BY <1>3, <1>9, <1>14, <2>1, ReadFirst
<1>16. Told'
  BY <1>1, <1>5, <1>9, <1>15 DEF Told, K
<1>17. handled' = handled \o First(m)
  <2>1. handled \o <<m>> = Append(handled, m) /\ handled \o <<>> = handled
    BY <1>3, <1>6
  <2> QED
    BY <1>8, <2>1 DEF First
<1>18. handled' \in Seq(RelayMsg)
  <2>1. Append(handled, m) \in Seq(RelayMsg)
    BY <1>3, <1>6
  <2> QED
    BY <1>3, <1>8, <2>1
<1>19. Sent' = Sent
  <2>1. Execs(q) = First(m) \o Execs(Tail(q))
    BY <1>3, ExecsTail DEF m
  <2>2. Execs(Tail(q)) \in Seq(RelayMsg)
    BY <1>6, ExecsFacts
  <2>3. First(m) \in Seq(RelayMsg)
    <3>1. <<m>> \in Seq(RelayMsg) /\ <<>> \in Seq(RelayMsg)
      BY <1>6
    <3> QED
      BY <3>1 DEF First
  <2> DEFINE f == First(m)
             e == Execs(Tail(q))
  <2> HIDE DEF f, e
  <2>4. (handled \o f) \o e = handled \o (f \o e)
    BY <1>3, <2>2, <2>3 DEF f, e
  <2>5. Sent' = (handled \o f) \o e
    BY <1>5, <1>17 DEF Sent, f, e
  <2>6. Sent = handled \o (f \o e)
    BY <2>1 DEF Sent, f, e, q
  <2> QED
    BY <2>4, <2>5, <2>6
<1>20. Exact'
  BY <1>1, <1>2, <1>19 DEF Exact
<1>21. ServerTypes'
  BY <1>1, <1>2, <1>5, <1>6, <1>11, <1>18 DEF ServerTypes
<1>22. RelayTypes' /\ RelayState'
  BY <1>1, <1>2 DEF RelayTypes, RelayState
<1>23. Idle'
  <2>1. relay \notin {"off", "refused"}
    BY <1>2, <1>3 DEF Idle, q
  <2> QED
    BY <1>1, <2>1 DEF Idle
<1> QED
  BY <1>11, <1>16, <1>20, <1>21, <1>22, <1>23 DEF RInv

\* One more at the end of two sequences.
LEMMA ConcatOne ==
  ASSUME NEW M, NEW a \in Seq(M), NEW b \in Seq(M), NEW x \in M
  PROVE  (a \o b) \o <<x>> = a \o Append(b, x)
OBVIOUS

\* The execution that flushPreviousTBExec writes is the one that was going on.
LEMMA PrevFacts ==
  ASSUME RInv, relay = "on", accesses = <<>>
  PROVE  LET w == sock["relay"] \o PreviousExecTB
         IN  /\ w \in Seq(RelayMsg)
             /\ MsgsOK(w, translated, HeldTBs)
             /\ AllSent(w, translated, HeldTBs)
             /\ handled \o Execs(w) = executed
<1> DEFINE q == sock["relay"]
           cur == CurrentExecTB
           tr == translated
           H == HeldTBs
           w == q \o PreviousExecTB
<1>1. /\ q \in Seq(RelayMsg) /\ handled \in Seq(RelayMsg) /\ CurOK(cur, tr)
      /\ MsgsOK(q, tr, H) /\ AllSent(q, tr, H)
      /\ executed = Sent \o NowOf(cur, accesses)
  BY DEF RInv, ServerTypes, RelayTypes, Told, Exact
<1>2. Execs(q) \in Seq(RelayMsg)
  BY <1>1, ExecsFacts
<1>3. CASE cur = <<>>
  <2>1. PreviousExecTB = <<>> /\ NowOf(cur, accesses) = <<>>
    BY <1>3, NowFacts DEF PreviousExecTB
  <2>2. w = q
    BY <1>1, <2>1
  <2>3. Sent \in Seq(RelayMsg)
    BY <1>1, <1>2 DEF Sent
  <2>4. Sent \o <<>> = Sent
    BY <2>3
  <2>5. handled \o Execs(w) = executed
    BY <1>1, <2>1, <2>2, <2>4 DEF Sent
  <2> HIDE DEF w, H
  <2> QED
    BY <1>1, <2>2, <2>5 DEF w, H
<1>4. CASE cur # <<>>
  <2>1. PICK i \in 0 .. (Len(tr) - 1), m \in SUBSET Nat : cur = <<[index |-> i, mem |-> m]>>
    BY <1>1, <1>4 DEF CurOK
  <2> DEFINE x == ExecTB(i, m)
             r == [index |-> i, mem |-> m]
  <2>2. Range(accesses) = {} /\ m \cup Range(accesses) = m
    BY EmptyRange
  <2>3. NowOf(cur, accesses) = <<ExecTB(i, m \cup Range(accesses))>>
    BY <2>1, NowFacts
  <2>4. NowOf(cur, accesses) = <<x>>
    BY <2>2, <2>3, Zenon
  <2>5. PreviousExecTB = <<x>>
    <3>1. r.index = i /\ r.mem = m /\ cur = <<r>>
      BY <2>1
    <3> HIDE DEF r
    <3>2. DOMAIN cur = {1} /\ cur[1] = r
      BY <3>1
    <3>3. PreviousExecTB = [k \in {1} |-> x]
      BY <3>1, <3>2 DEF PreviousExecTB
    <3> HIDE DEF x
    <3>4. [k \in {1} |-> x] = <<x>>
      OBVIOUS
    <3> QED
      BY <3>3, <3>4
  <2>6. i \in Nat
    OBVIOUS
  <2>7. x \in RelayMsg /\ x.kind = "exec" /\ x.index = i
    BY <2>6, MsgFacts
  <2> HIDE DEF x, w, H, q
  <2>8. w = Append(q, x)
    BY <1>1, <2>5, <2>7 DEF w
  <2>9. w \in Seq(RelayMsg)
    BY <1>1, <2>7, <2>8
  <2>10. MsgsOK(w, tr, H) /\ AllSent(w, tr, H)
    <3>1. x.kind # "tb" /\ x.index \in 0 .. (Len(tr) - 1)
      BY <2>7
    <3>2. MsgsOK(Append(q, x), tr, H) /\ AllSent(Append(q, x), tr, H)
      BY <1>1, <2>7, <3>1, WriteOther
    <3> QED
      BY <2>8, <3>2
  <2>11. Execs(w) = Append(Execs(q), x)
    <3>1. Execs(w) = Picked(x.kind = "exec", Execs(q), x)
      BY <1>1, <2>7, <2>8, ExecsAppend
    <3> QED
      BY <2>7, <3>1, Zenon DEF Picked
  <2>12. handled \o Execs(w) = executed
    <3> DEFINE e == Execs(q)
    <3>1. executed = (handled \o e) \o <<x>>
      <4>1. executed = Sent \o NowOf(cur, accesses)
        BY <1>1
      <4>2. Sent = handled \o e
        BY DEF Sent, q
      <4> QED
        BY <2>4, <4>1, <4>2, Zenon
    <3> HIDE DEF e
    <3>2. e \in Seq(RelayMsg)
      BY <1>2 DEF e
    <3>3. (handled \o e) \o <<x>> = handled \o Append(e, x)
      <4>1. handled \in Seq(RelayMsg) /\ x \in RelayMsg
        BY <1>1, <2>7
      <4> QED
        BY <3>2, <4>1, ConcatOne
    <3> QED
      BY <2>11, <3>1, <3>3 DEF e
  <2> QED
    BY <2>9, <2>10, <2>12 DEF w, H, q
<1> QED
  BY <1>3, <1>4

\* Writing to the socket.
LEMMA SendFacts ==
  ASSUME RInv, NEW msgs, Send(msgs)
  PROVE  /\ sock' = [c \in {"relay", "test"} |-> sock'[c]]
         /\ sock'["relay"] = sock["relay"] \o msgs /\ sock'["test"] = sock["test"]
<1>1. sock = [c \in {"relay", "test"} |-> sock[c]]
  BY DEF RInv, ServerTypes
<1> DEFINE w == sock["relay"] \o msgs
<1>2. sock' = [sock EXCEPT !["relay"] = w]
  BY DEF Send
<1> HIDE DEF w
<1>3. /\ sock' = [c \in {"relay", "test"} |-> sock'[c]]
      /\ sock'["relay"] = w /\ sock'["test"] = sock["test"]
  BY <1>1, <1>2
<1> QED
  BY <1>3 DEF w

-----------------------------------------------------------------------------
(* Steps of the relay.                                                     *)

\* The relay changes nothing of the broker's, and nothing of what is held.
LEMMA RelaySteps ==
  ASSUME RInv, UNCHANGED <<vars, client, handled>>,
         sock' = [c \in {"relay", "test"} |-> sock'[c]],
         sock'["test"] = sock["test"], sock'["relay"] \in Seq(RelayMsg),
         backlog' \in Seq({"relay", "test"})
  PROVE  ServerTypes' /\ KeptTypes' /\ (translated' = translated => HeldTBs' = HeldTBs)
<1>1. TBs' = TBs /\ rpc' = rpc
  BY DEF vars, recvVars
<1>2. ServerTypes'
  BY <1>1 DEF RInv, ServerTypes
<1>3. KeptTypes'
  BY <1>1 DEF RInv, KeptTypes
<1>4. translated' = translated => HeldTBs' = HeldTBs
  BY <1>1 DEF HeldTBs
<1> QED
  BY <1>2, <1>3, <1>4

\* An execution that has made the accesses m.
Running(i, m) == <<[index |-> i, mem |-> m]>>

\* It is what the relay would write of it and of the accesses to come.
LEMMA NowOne ==
  ASSUME NEW i, NEW m, NEW acc, NEW s, s = Running(i, m)
  PROVE  NowOf(s, acc) = <<ExecTB(i, m \cup Range(acc))>>
<1>1. NowOf(Running(i, m), acc) = <<ExecTB(i, m \cup Range(acc))>>
  BY NowFacts DEF Running
<1> QED
  BY <1>1, Zenon

\* An execution starts.
LEMMA ExecKeeps ==
  ASSUME RInv, NEW i \in TBIndex, TbExecCallback(i)
  PROVE  RInv'
<1> DEFINE b == translated[i+1]
           w == sock["relay"] \o PreviousExecTB
           H == HeldTBs
           acc == accesses'
           x == ExecTB(i, b.mem)
<1>1. /\ relay = "on" /\ relay' = "on" /\ accesses = <<>> /\ translated' = translated
      /\ UNCHANGED <<vars, client, handled, backlog>>
      /\ i + 1 \in DOMAIN translated
      /\ CurrentExecTB' = <<[index |-> i, mem |-> {}]>>
      /\ acc = Accesses(b) /\ executed' = Append(executed, x)
      /\ Send(PreviousExecTB)
  BY DEF TbExecCallback, StartExecTB, codeVars
<1>2. /\ translated \in Seq(Reportable) /\ Len(translated) <= NumTBs
      /\ executed \in Seq(RelayMsg) /\ backlog \in Seq({"relay", "test"})
  BY DEF RInv, RelayTypes, ServerTypes
<1>3. i \in Nat /\ i \in 0 .. (Len(translated) - 1) /\ b \in Reportable
  BY <1>1, <1>2 DEF TBIndex
<1>4. /\ w \in Seq(RelayMsg) /\ MsgsOK(w, translated, H) /\ AllSent(w, translated, H)
      /\ handled \o Execs(w) = executed
  BY <1>1, PrevFacts
<1>5. /\ sock' = [c \in {"relay", "test"} |-> sock'[c]]
      /\ sock'["relay"] = w /\ sock'["test"] = sock["test"]
  BY <1>1, SendFacts
<1> HIDE DEF w, H, b, x
<1>6. ServerTypes' /\ KeptTypes' /\ H' = H
  BY <1>1, <1>2, <1>4, <1>5, RelaySteps DEF H
<1>7. b.parts \in Seq(Nat) /\ b.mem \subseteq 0 .. (Len(b.parts) - 1) /\ b.mem \subseteq Nat
  BY <1>3, BlockParts
<1>8. acc \in Seq(Nat) /\ \A r : r \in b.mem <=> \E k \in 1 .. Len(acc) : acc[k] = r
  <2>1. /\ Accesses(b) \in Seq(Nat)
        /\ \A r : r \in b.mem <=> \E k \in 1 .. Len(Accesses(b)) : Accesses(b)[k] = r
    BY <1>7, AccessesFacts
  <2> QED
    BY <1>1, <2>1
<1> HIDE DEF acc
<1>9. Range(acc) = b.mem
  <2>1. DOMAIN acc = 1 .. Len(acc)
    BY <1>8
  <2> QED
    BY <1>8, <2>1 DEF Range
<1>10. NowOf(CurrentExecTB', acc) = <<x>>
  <2>1. {} \cup b.mem = b.mem
    OBVIOUS
  <2>2. NowOf(CurrentExecTB', acc) = <<ExecTB(i, {} \cup Range(acc))>>
    <3> DEFINE z == {}
               cur == CurrentExecTB'
    <3>1. cur = Running(i, z)
      BY <1>1 DEF Running
    <3> HIDE DEF z, cur
    <3>2. NowOf(cur, acc) = <<ExecTB(i, z \cup Range(acc))>>
      BY ONLY <3>1, NowOne
    <3> QED
      BY <3>2 DEF z, cur
  <2> QED
    BY <1>9, <2>1, <2>2, Zenon DEF x
<1>11. x \in RelayMsg
  BY <1>3, <1>7, MsgFacts DEF x
<1>12. executed' \in Seq(RelayMsg) /\ executed' = executed \o <<x>>
  BY <1>1, <1>2, <1>11
<1>13. CurOK(CurrentExecTB', translated')
  <2>1. {} \in SUBSET Nat
    OBVIOUS
  <2> QED
    BY <1>1, <1>3, <2>1 DEF CurOK
<1>14. CurrentExecTB' # <<>>
  <2> DEFINE r == [index |-> i, mem |-> {}]
  <2>1. CurrentExecTB' = <<r>>
    BY <1>1
  <2> HIDE DEF r
  <2> QED
    BY <2>1
<1>15. RelayTypes'
  <2>1. translated' \in Seq(Reportable) /\ Len(translated') <= NumTBs
    BY <1>1, <1>2
  <2>2. accesses' \in Seq(Nat)
    BY <1>8 DEF acc
  <2> QED
    BY <1>12, <1>13, <1>14, <2>1, <2>2 DEF RelayTypes
<1>16. Told'
  BY <1>1, <1>4, <1>5, <1>6 DEF Told, H
<1>17. Sent' = executed
  BY <1>1, <1>4, <1>5 DEF Sent
<1>18. Exact' /\ Idle' /\ RelayState'
  <2>1. executed' = Sent' \o NowOf(CurrentExecTB', accesses')
    BY <1>10, <1>12, <1>17 DEF acc
  <2> QED
    BY <1>1, <2>1 DEF Exact, Idle, RelayState
<1> QED
  BY <1>6, <1>15, <1>16, <1>18 DEF RInv

\* An access is added to the execution.
LEMMA MemoryKeeps ==
  ASSUME RInv, OnMemoryOps
  PROVE  RInv'
<1> DEFINE cur == CurrentExecTB
           a == Head(accesses)
           t == Tail(accesses)
<1>1. /\ relay = "on" /\ relay' = "on" /\ accesses # <<>> /\ accesses' = t
      /\ UNCHANGED <<vars, client, handled, translated, executed, sock, backlog>>
      /\ cur' = <<[cur[1] EXCEPT !.mem = @ \cup {a}]>>
  BY DEF OnMemoryOps, codeVars, sockVars
<1>2. RelayTypes /\ ServerTypes /\ Told /\ Exact
  BY DEF RInv
<1>3. accesses \in Seq(Nat) /\ cur # <<>> /\ CurOK(cur, translated)
  BY <1>1, <1>2 DEF RelayTypes
<1>4. PICK i \in 0 .. (Len(translated) - 1), m \in SUBSET Nat :
             cur = <<[index |-> i, mem |-> m]>>
  BY <1>3 DEF CurOK
<1>5. a \in Nat /\ t \in Seq(Nat) /\ Range(accesses) = {a} \cup Range(t)
  <2>1. a \in Nat /\ t \in Seq(Nat) /\ Len(accesses) \in Nat /\ Len(t) = Len(accesses) - 1
        /\ a = accesses[1] /\ 1 \in 1 .. Len(accesses)
        /\ \A k \in 1 .. Len(t) : t[k] = accesses[k+1]
    BY <1>1, <1>3
  <2> HIDE DEF a, t
  <2>2. DOMAIN accesses = 1 .. Len(accesses) /\ DOMAIN t = 1 .. Len(t)
    BY <1>3, <2>1
  <2>3. ASSUME NEW r \in Range(accesses) PROVE r \in {a} \cup Range(t)
    <3>1. PICK k \in 1 .. Len(accesses) : r = accesses[k]
      BY <2>2 DEF Range
    <3>2. CASE k = 1
      BY <2>1, <3>1, <3>2
    <3>3. CASE k # 1
      <4> DEFINE j == k - 1
      <4>1. j \in 1 .. Len(t) /\ j + 1 = k
        BY <2>1, <3>3
      <4> HIDE DEF j
      <4>2. t[j] = r
        BY <2>1, <3>1, <4>1
      <4> QED
        BY <2>2, <4>1, <4>2 DEF Range
    <3> QED
      BY <3>2, <3>3
  <2>4. ASSUME NEW r \in {a} \cup Range(t) PROVE r \in Range(accesses)
    <3>1. CASE r = a
      BY <2>1, <2>2, <3>1 DEF Range
    <3>2. CASE r # a
      <4>1. PICK k \in 1 .. Len(t) : r = t[k]
        BY <2>2, <3>2 DEF Range
      <4> DEFINE j == k + 1
      <4>2. j \in 1 .. Len(accesses) /\ accesses[j] = r
        BY <2>1, <4>1
      <4> HIDE DEF j
      <4> QED
        BY <2>2, <4>2 DEF Range
    <3> QED
      BY <3>1, <3>2
  <2> QED
    BY <2>1, <2>3, <2>4
<1> HIDE DEF a, t
<1>6. cur' = <<[index |-> i, mem |-> m \cup {a}]>>
  <2> DEFINE r == [index |-> i, mem |-> m]
             s == cur
             n == m \cup {a}
             v == s[1].mem \cup {a}
  <2>1. s = <<r>> /\ r.mem = m
    BY <1>4
  <2>2. s[1] = r
    <3> HIDE DEF r, s
    <3> QED
      BY <2>1
  <2>3. cur' = <<[r EXCEPT !.mem = v]>>
    <3>1. cur' = <<[s[1] EXCEPT !.mem = v]>>
      BY <1>1
    <3> HIDE DEF r, s, v
    <3> QED
      BY <2>2, <3>1
  <2>4. v = n
    BY <2>1, <2>2
  <2> HIDE DEF v, n, s
  <2>5. [r EXCEPT !.mem = v] = [index |-> i, mem |-> v]
    OBVIOUS
  <2> QED
    BY <2>3, <2>4, <2>5 DEF n
<1>7. m \cup {a} \in SUBSET Nat
  BY <1>5
<1>8. CurOK(cur', translated') /\ cur' # <<>>
  <2> DEFINE n == m \cup {a}
             r == [index |-> i, mem |-> n]
  <2>1. n \in SUBSET Nat /\ cur' = <<r>>
    BY <1>6, <1>7
  <2>2. CurOK(<<r>>, translated)
    <3> HIDE DEF n
    <3>1. \E j \in 0 .. (Len(translated) - 1) : \E k \in SUBSET Nat :
            <<r>> = <<[index |-> j, mem |-> k]>>
      BY <2>1
    <3> QED
      BY <3>1, Zenon DEF CurOK
  <2> DEFINE s == cur'
  <2> HIDE DEF r, s, n
  <2>3. s = <<r>>
    BY <2>1 DEF s
  <2>4. s # <<>>
    BY <2>3
  <2>5. CurOK(s, translated)
    BY <2>2, <2>3
  <2> QED
    BY <1>1, <2>4, <2>5, Zenon DEF s
<1>9. NowOf(cur', t) = NowOf(cur, accesses)
  <2>1. NowOf(cur', t) = <<ExecTB(i, (m \cup {a}) \cup Range(t))>>
    <3> DEFINE n == m \cup {a}
               s == cur'
    <3>1. s = Running(i, n)
      BY <1>6 DEF Running
    <3> HIDE DEF n, s, t
    <3>2. NowOf(s, t) = <<ExecTB(i, n \cup Range(t))>>
      BY ONLY <3>1, NowOne
    <3> QED
      BY <3>2 DEF n, s
  <2>2. NowOf(cur, accesses) = <<ExecTB(i, m \cup Range(accesses))>>
    <3> DEFINE s == cur
    <3>1. s = Running(i, m)
      BY <1>4 DEF Running
    <3> HIDE DEF s
    <3>2. NowOf(s, accesses) = <<ExecTB(i, m \cup Range(accesses))>>
      BY ONLY <3>1, NowOne
    <3> QED
      BY <3>2 DEF s
  <2>3. (m \cup {a}) \cup Range(t) = m \cup Range(accesses)
    BY <1>5
  <2> QED
    BY <2>1, <2>2, <2>3, Zenon
<1>10. RelayTypes'
  BY <1>1, <1>2, <1>5, <1>8 DEF RelayTypes
<1>11. ServerTypes' /\ KeptTypes' /\ HeldTBs' = HeldTBs
  <2>1. sock' = [c \in {"relay", "test"} |-> sock'[c]]
        /\ sock'["test"] = sock["test"] /\ sock'["relay"] \in Seq(RelayMsg)
        /\ backlog' \in Seq({"relay", "test"})
    BY <1>1, <1>2 DEF ServerTypes
  <2> QED
    BY <1>1, <2>1, RelaySteps
<1>12. Told'
  BY <1>1, <1>2, <1>11 DEF Told
<1>13. Sent' = Sent
  BY <1>1 DEF Sent
<1>14. Exact' /\ Idle' /\ RelayState'
  <2>1. executed' = Sent' \o NowOf(CurrentExecTB', accesses')
    BY <1>1, <1>2, <1>9, <1>13 DEF Exact
  <2> QED
    BY <1>1, <2>1 DEF Exact, Idle, RelayState
<1> QED
  BY <1>10, <1>11, <1>12, <1>14 DEF RInv

\* Prefixes.
LEMMA PrefixFacts ==
  ASSUME NEW M, NEW a \in Seq(M), NEW b \in Seq(M), NEW c \in Seq(M)
  PROVE  /\ IsPrefix(a, a) /\ IsPrefix(a, a \o b)
         /\ IsPrefix(a \o b, c) => IsPrefix(a, c)
<1> DEFINE Pre(s, t) == Len(s) <= Len(t) /\ \A k \in 1 .. Len(s) : s[k] = t[k]
<1>1. ASSUME NEW s \in Seq(M), NEW t \in Seq(M) PROVE IsPrefix(s, t) <=> Pre(s, t)
  <2>1. Len(s) \in Nat /\ Len(t) \in Nat
    OBVIOUS
  <2>2. ASSUME Len(s) <= Len(t)
        PROVE  /\ SubSeq(s, 1, Len(s)) = [k \in 1 .. Len(s) |-> s[k]]
               /\ SubSeq(t, 1, Len(s)) = [k \in 1 .. Len(s) |-> t[k]]
    BY <2>1, <2>2
  <2>3. CASE Len(s) <= Len(t)
    <3> DEFINE n == Len(s)
    <3>1. SubSeq(s, 1, n) = SubSeq(t, 1, n) <=> \A k \in 1 .. n : s[k] = t[k]
      BY <2>2, <2>3
    <3> QED
      BY <2>3, <3>1 DEF IsPrefix
  <2>4. CASE ~(Len(s) <= Len(t))
    BY <2>4 DEF IsPrefix
  <2> QED
    BY <2>3, <2>4
<1> HIDE DEF Pre
<1>2. a \o b \in Seq(M)
  OBVIOUS
<1>3. Pre(a, a) /\ Pre(a, a \o b) /\ (Pre(a \o b, c) => Pre(a, c))
  <2>1. /\ Len(a) \in Nat /\ Len(b) \in Nat /\ Len(c) \in Nat /\ Len(a \o b) = Len(a) + Len(b)
        /\ \A k \in 1 .. Len(a) : (a \o b)[k] = a[k]
    OBVIOUS
  <2> DEFINE d == a \o b
  <2> HIDE DEF d
  <2>2. /\ Len(a) \in Nat /\ Len(d) \in Nat /\ Len(c) \in Nat /\ Len(a) <= Len(d)
        /\ \A k \in 1 .. Len(a) : d[k] = a[k] /\ k \in 1 .. Len(d)
    BY <2>1 DEF d
  <2>3. Pre(a, a) /\ Pre(a, d) /\ (Pre(d, c) => Pre(a, c))
    BY <2>2 DEF Pre
  <2> QED
    BY <2>3 DEF d
<1> QED
  BY <1>1, <1>2, <1>3

\* QEMU starts the relay.
LEMMA InstallKeeps ==
  ASSUME RInv, Install
  PROVE  RInv'
<1>1. /\ UNCHANGED <<vars, client, handled, translated, CurrentExecTB, accesses, executed, sock>>
      /\ relay = "off" /\ relay' \in {"on", "refused"}
      /\ backlog' = backlog \/ backlog' = Append(backlog, "relay")
  BY DEF Install, codeVars
<1>2. ServerTypes /\ RelayTypes /\ Told /\ Idle
  BY DEF RInv
<1>3. /\ sock["relay"] = <<>> /\ handled = <<>> /\ executed = <<>>
      /\ translated = <<>> /\ CurrentExecTB = <<>> /\ accesses = <<>>
  BY <1>1, <1>2 DEF Idle
<1>4. backlog' \in Seq({"relay", "test"})
  <2> DEFINE S == {"relay", "test"}
             x == "relay"
  <2>1. backlog \in Seq(S) /\ x \in S
    BY <1>2 DEF ServerTypes
  <2> HIDE DEF S, x
  <2>2. Append(backlog, x) \in Seq(S)
    BY <2>1
  <2> QED
    BY <1>1, <2>1, <2>2 DEF S, x
<1>5. ServerTypes' /\ KeptTypes' /\ HeldTBs' = HeldTBs
  <2>1. sock' = [c \in {"relay", "test"} |-> sock'[c]]
        /\ sock'["test"] = sock["test"] /\ sock'["relay"] \in Seq(RelayMsg)
    BY <1>1, <1>2 DEF ServerTypes
  <2> QED
    BY <1>1, <1>4, <2>1, RelaySteps
<1>6. RelayTypes' /\ RelayState'
  BY <1>1, <1>2 DEF RelayTypes, RelayState
<1>7. Idle'
  BY <1>1, <1>3 DEF Idle
<1>8. AllSent(sock["relay"], translated, HeldTBs)
  BY <1>3 DEF AllSent
<1>9. Told'
  BY <1>1, <1>2, <1>5, <1>8 DEF Told
<1>10. Exact'
  <2>1. Execs(<<>>) = <<>>
    <3> DEFINE z == <<>>
    <3>1. z \in Seq({}) /\ Len(z) = 0
      OBVIOUS
    <3> HIDE DEF z
    <3>2. ExecsUpTo(z)[0] = <<>>
      BY <3>1, ExecsFacts
    <3> QED
      BY <3>1, <3>2 DEF Execs, z
  <2>2. Sent' = <<>>
    BY <1>1, <1>3, <2>1 DEF Sent
  <2>3. NowOf(CurrentExecTB', accesses') = <<>>
    BY <1>1, <1>3, NowFacts
  <2>4. executed' = Sent' \o NowOf(CurrentExecTB', accesses')
    BY <1>1, <1>3, <2>2, <2>3
  <2>5. relay' # "exited" /\ relay' # "killed"
    BY <1>1
  <2> QED
    BY <2>4, <2>5 DEF Exact
<1> QED
  BY <1>5, <1>6, <1>7, <1>9, <1>10 DEF RInv

\* The relay writes the last execution and the end signal.
LEMMA ExitKeeps ==
  ASSUME RInv, OnPluginExit
  PROVE  RInv'
<1> DEFINE p == PreviousExecTB
           w == sock["relay"] \o p
           H == HeldTBs
           v == Append(w, EndSignal)
<1>1. /\ UNCHANGED <<vars, client, handled, translated, accesses, executed, backlog>>
      /\ relay = "on" /\ relay' = "exited" /\ accesses = <<>>
      /\ CurrentExecTB' = [k \in DOMAIN CurrentExecTB |-> [index |-> 0, mem |-> {}]]
      /\ Send(p \o <<EndSignal>>)
  BY DEF OnPluginExit, codeVars
<1>2. /\ sock["relay"] \in Seq(RelayMsg) /\ handled \in Seq(RelayMsg)
      /\ CurOK(CurrentExecTB, translated) /\ RelayTypes
      /\ backlog \in Seq({"relay", "test"})
  BY DEF RInv, ServerTypes, RelayTypes
<1>3. /\ w \in Seq(RelayMsg) /\ MsgsOK(w, translated, H)
      /\ handled \o Execs(w) = executed
  BY <1>1, PrevFacts
<1>4. p \in Seq(RelayMsg)
  <2>1. CASE CurrentExecTB = <<>>
    BY <2>1 DEF PreviousExecTB
  <2>2. CASE CurrentExecTB # <<>>
    <3>1. PICK i \in 0 .. (Len(translated) - 1), m \in SUBSET Nat :
                 CurrentExecTB = <<[index |-> i, mem |-> m]>>
      BY <1>2, <2>2 DEF CurOK
    <3> DEFINE r == [index |-> i, mem |-> m]
    <3>2. CurrentExecTB = <<r>> /\ r.index \in Nat /\ r.mem \in SUBSET Nat
      BY <3>1
    <3> HIDE DEF r
    <3>3. DOMAIN CurrentExecTB = {1} /\ CurrentExecTB[1] = r
      BY <3>2
    <3> DEFINE x == ExecTB(r.index, r.mem)
    <3>4. x \in RelayMsg
      BY <3>2, MsgFacts
    <3>5. p = [k \in {1} |-> x]
      BY <3>3 DEF PreviousExecTB
    <3> HIDE DEF x, p
    <3>6. [k \in {1} |-> x] \in Seq(RelayMsg)
      <4>1. [k \in {1} |-> x] = <<x>>
        OBVIOUS
      <4>2. <<x>> \in Seq(RelayMsg)
        BY <3>4
      <4> QED
        BY <4>1, <4>2
    <3> QED
      BY <3>5, <3>6
  <2> QED
    BY <2>1, <2>2
<1>5. EndSignal \in RelayMsg /\ EndSignal.kind = "end"
  BY MsgFacts
<1>6. /\ sock' = [c \in {"relay", "test"} |-> sock'[c]]
      /\ sock'["relay"] = sock["relay"] \o (p \o <<EndSignal>>)
      /\ sock'["test"] = sock["test"]
  BY <1>1, SendFacts
<1>7. sock["relay"] \o (p \o <<EndSignal>>) = v
  <2> DEFINE q == sock["relay"]
             x == EndSignal
  <2>1. q \in Seq(RelayMsg) /\ x \in RelayMsg
    BY <1>2, <1>5
  <2> HIDE DEF p, q, x
  <2>2. q \o (p \o <<x>>) = Append(q \o p, x)
    BY <1>4, <2>1
  <2> QED
    BY <2>2 DEF q, x
<1> HIDE DEF p, w, H
<1>8. v \in Seq(RelayMsg)
  BY <1>3, <1>5
<1>9. MsgsOK(v, translated, H)
  <2> DEFINE x == EndSignal
  <2>1. x \in RelayMsg /\ x.kind # "tb" /\ x.kind # "exec"
    BY <1>5
  <2> HIDE DEF x
  <2>2. MsgsOK(Append(w, x), translated, H)
    BY <1>3, <2>1, WriteOther
  <2> QED
    BY <2>2 DEF x
<1>10. Execs(v) = Execs(w)
  <2> DEFINE x == EndSignal
  <2>1. x \in RelayMsg /\ x.kind # "exec"
    BY <1>5
  <2> HIDE DEF x
  <2>2. Execs(Append(w, x)) = Picked(x.kind = "exec", Execs(w), x)
    BY <1>3, <2>1, ExecsAppend
  <2>3. Execs(Append(w, x)) = Execs(w)
    BY <2>1, <2>2, Zenon DEF Picked
  <2> QED
    BY <2>3 DEF x
<1> HIDE DEF v
<1>11. ServerTypes' /\ KeptTypes' /\ H' = H
  <2>1. sock'["relay"] \in Seq(RelayMsg) /\ backlog' \in Seq({"relay", "test"})
    BY <1>1, <1>2, <1>6, <1>7, <1>8
  <2> QED
    BY <1>1, <1>6, <2>1, RelaySteps DEF H
<1>12. Told'
  BY <1>1, <1>6, <1>7, <1>9, <1>11 DEF Told, H
<1>13. Sent' = executed
  BY <1>1, <1>3, <1>6, <1>7, <1>10 DEF Sent
<1>14. Exact' /\ Idle' /\ RelayState'
  <2>1. executed' = Sent'
    BY <1>1, <1>13
  <2> QED
    BY <1>1, <2>1 DEF Exact, Idle, RelayState
<1>15. CurOK(CurrentExecTB', translated')
  <2>1. CASE CurrentExecTB = <<>>
    <3>1. CurrentExecTB' = <<>>
      BY <1>1, <2>1
    <3> QED
      BY <3>1 DEF CurOK
  <2>2. CASE CurrentExecTB # <<>>
    <3>1. PICK i \in 0 .. (Len(translated) - 1), m \in SUBSET Nat :
                 CurrentExecTB = <<[index |-> i, mem |-> m]>>
      BY <1>2, <2>2 DEF CurOK
    <3> DEFINE z == {}
               c == 0
               r == [index |-> c, mem |-> z]
    <3>2. c \in 0 .. (Len(translated) - 1) /\ z \in SUBSET Nat
      BY <1>2 DEF RelayTypes
    <3>3. CurrentExecTB' = [k \in DOMAIN CurrentExecTB |-> r]
      BY <1>1
    <3>4. CurOK(<<r>>, translated)
      <4> HIDE DEF z, c
      <4>1. \E j \in 0 .. (Len(translated) - 1) : \E k \in SUBSET Nat :
              <<r>> = <<[index |-> j, mem |-> k]>>
        BY <3>2
      <4> QED
        BY <4>1, Zenon DEF CurOK
    <3> DEFINE s == [index |-> i, mem |-> m]
    <3>5. CurrentExecTB = <<s>>
      BY <3>1
    <3> HIDE DEF r, s
    <3>6. CurrentExecTB' = <<r>>
      BY <3>3, <3>5
    <3> QED
      BY <1>1, <3>4, <3>6
  <2> QED
    BY <2>1, <2>2
<1>16. RelayTypes'
  BY <1>1, <1>2, <1>15 DEF RelayTypes
<1> QED
  BY <1>11, <1>12, <1>14, <1>16 DEF RInv

\* What was executed has what was sent for a prefix.
LEMMA SentPrefix ==
  ASSUME RInv
  PROVE  IsPrefix(Sent, executed) /\ Sent \in Seq(RelayMsg)
<1>1. /\ sock["relay"] \in Seq(RelayMsg) /\ handled \in Seq(RelayMsg)
      /\ executed \in Seq(RelayMsg) /\ RelayState /\ Idle /\ Exact
      /\ CurOK(CurrentExecTB, translated) /\ accesses \in Seq(Nat)
  BY DEF RInv, ServerTypes, RelayTypes
<1>2. Execs(sock["relay"]) \in Seq(RelayMsg)
  BY <1>1, ExecsFacts
<1>3. Sent \in Seq(RelayMsg)
  BY <1>1, <1>2 DEF Sent
<1>4. CASE relay \in {"off", "refused"}
  <2>1. executed = <<>> /\ handled = <<>> /\ sock["relay"] = <<>>
    BY <1>1, <1>4 DEF Idle
  <2>2. Execs(<<>>) = <<>>
    <3> DEFINE z == <<>>
    <3>1. z \in Seq({}) /\ Len(z) = 0
      OBVIOUS
    <3> HIDE DEF z
    <3>2. ExecsUpTo(z)[0] = <<>>
      BY <3>1, ExecsFacts
    <3> QED
      BY <3>1, <3>2 DEF Execs, z
  <2>3. Sent = executed
    BY <2>1, <2>2 DEF Sent
  <2> QED
    BY <1>1, <1>3, <2>3, PrefixFacts
<1>5. CASE relay = "on"
  <2> DEFINE n == NowOf(CurrentExecTB, accesses)
  <2>1. executed = Sent \o n
    BY <1>1, <1>5 DEF Exact
  <2>2. n \in Seq(RelayMsg)
    <3>1. CASE CurrentExecTB = <<>>
      <4>1. NowOf(<<>>, accesses) = <<>>
        BY NowFacts
      <4>2. n = <<>>
        BY <3>1, <4>1
      <4> QED
        BY <4>2
    <3>2. CASE CurrentExecTB # <<>>
      <4>1. PICK i \in 0 .. (Len(translated) - 1), m \in SUBSET Nat :
                   CurrentExecTB = <<[index |-> i, mem |-> m]>>
        BY <1>1, <3>2 DEF CurOK
      <4> DEFINE s == CurrentExecTB
                 d == m \cup Range(accesses)
                 x == ExecTB(i, d)
      <4>2. s = Running(i, m)
        BY <4>1 DEF Running
      <4>3. d \in SUBSET Nat /\ i \in Nat
        <5>1. DOMAIN accesses = 1 .. Len(accesses)
              /\ \A k \in 1 .. Len(accesses) : accesses[k] \in Nat
          BY <1>1
        <5>2. Range(accesses) \subseteq Nat
          BY <5>1 DEF Range
        <5>3. d \in SUBSET Nat
          BY <5>2
        <5>4. i \in Nat
          OBVIOUS
        <5> QED
          BY <5>3, <5>4
      <4> HIDE DEF s
      <4>4. NowOf(s, accesses) = <<x>>
        BY ONLY <4>2, NowOne
      <4> HIDE DEF d
      <4>5. x \in RelayMsg
        BY <4>3, MsgFacts
      <4> HIDE DEF x
      <4>6. <<x>> \in Seq(RelayMsg)
        BY <4>5
      <4> QED
        BY <4>4, <4>6 DEF s
    <3> QED
      BY <3>1, <3>2
  <2> HIDE DEF n
  <2> QED
    BY <1>3, <2>1, <2>2, PrefixFacts
<1>6. CASE relay = "exited"
  <2>1. Sent = executed
    BY <1>1, <1>6 DEF Exact
  <2> QED
    BY <1>3, <2>1, PrefixFacts
<1>7. CASE relay = "killed"
  BY <1>1, <1>3, <1>7 DEF Exact
<1> QED
  BY <1>1, <1>3, <1>4, <1>5, <1>6, <1>7 DEF RelayState

\* QEMU is killed.
LEMMA KillKeeps ==
  ASSUME RInv, Kill
  PROVE  RInv'
<1> DEFINE q == sock["relay"]
           w == sock'["relay"]
           H == HeldTBs
<1>1. /\ UNCHANGED <<vars, client, handled, translated, CurrentExecTB, accesses, executed,
                    backlog>>
      /\ relay = "on" /\ relay' = "killed"
      /\ sock' = sock \/ (q # <<>> /\ sock' = [sock EXCEPT !["relay"] = Front(q)])
  BY DEF Kill, codeVars
<1>2. /\ q \in Seq(RelayMsg) /\ handled \in Seq(RelayMsg) /\ executed \in Seq(RelayMsg)
      /\ sock = [c \in {"relay", "test"} |-> sock[c]] /\ RelayTypes
      /\ backlog \in Seq({"relay", "test"}) /\ MsgsOK(q, translated, H)
  BY DEF RInv, ServerTypes, RelayTypes, Told
<1>3. /\ sock' = [c \in {"relay", "test"} |-> sock'[c]]
      /\ sock'["test"] = sock["test"]
      /\ w = q \/ (q # <<>> /\ w = Front(q))
  BY <1>1, <1>2
<1>4. IsPrefix(Sent, executed) /\ Sent \in Seq(RelayMsg)
  BY SentPrefix
<1>5. Sent = handled \o Execs(q) /\ Sent' = handled \o Execs(w)
  BY <1>1 DEF Sent
<1> HIDE DEF q, w, H
<1>6. w \in Seq(RelayMsg) /\ MsgsOK(w, translated, H) /\ IsPrefix(Sent', executed)
  <2>1. CASE w = q
    <3>1. Sent' = Sent
      BY <1>5, <2>1, Zenon
    <3> QED
      BY <1>2, <1>4, <2>1, <3>1
  <2>2. CASE q # <<>> /\ w = Front(q)
    <3>1. Front(q) \in Seq(RelayMsg) /\ MsgsOK(Front(q), translated, H)
      BY <1>2, <2>2, ExecsFront, LoseLast
    <3> DEFINE e == Execs(w)
               x == q[Len(q)]
    <3>2. e \in Seq(RelayMsg) /\ x \in RelayMsg
      <4>1. Execs(w) \in Seq(RelayMsg)
        BY <2>2, <3>1, ExecsFacts
      <4> QED
        BY <1>2, <2>2, <4>1
    <3>3. Execs(q) = e \/ Execs(q) = Append(e, x)
      BY <1>2, <2>2, ExecsFront
    <3> HIDE DEF e, x
    <3>4. Sent' = handled \o e
      BY <1>5 DEF e
    <3>5. handled \o e \in Seq(RelayMsg)
      BY <1>2, <3>2
    <3>6. CASE Execs(q) = e
      <4>1. Sent' = Sent
        BY <1>5, <3>4, <3>6, Zenon
      <4> QED
        BY <1>4, <2>2, <3>1, <4>1
    <3>7. CASE Execs(q) = Append(e, x)
      <4> DEFINE a == handled \o e
                 b == <<x>>
      <4>1. Sent = a \o b
        <5>1. (handled \o e) \o <<x>> = handled \o Append(e, x)
          <6>1. handled \in Seq(RelayMsg) /\ e \in Seq(RelayMsg) /\ x \in RelayMsg
            BY <1>2, <3>2
          <6> QED
            BY <6>1, ConcatOne
        <5>2. Sent = handled \o Append(e, x)
          BY <1>5, <3>7, Zenon
        <5> QED
          BY <5>1, <5>2, Zenon
      <4>2. a \in Seq(RelayMsg) /\ b \in Seq(RelayMsg)
        BY <3>2, <3>5
      <4> HIDE DEF a, b
      <4>3. IsPrefix(a \o b, executed)
        BY <1>4, <4>1
      <4>4. IsPrefix(a, executed)
        BY <1>2, <4>2, <4>3, PrefixFacts
      <4> QED
        BY <2>2, <3>1, <3>4, <4>4 DEF a
    <3> QED
      BY <3>3, <3>6, <3>7
  <2> QED
    BY <1>3, <2>1, <2>2
<1>7. ServerTypes' /\ KeptTypes' /\ H' = H
  <2>1. sock'["relay"] \in Seq(RelayMsg) /\ backlog' \in Seq({"relay", "test"})
    BY <1>1, <1>2, <1>6 DEF w
  <2> QED
    BY <1>1, <1>3, <2>1, RelaySteps DEF H
<1>8. Told'
  BY <1>1, <1>6, <1>7 DEF Told, H, w
<1>9. Exact' /\ Idle' /\ RelayState'
  <2>1. IsPrefix(Sent', executed')
    BY <1>1, <1>6
  <2> QED
    BY <1>1, <2>1 DEF Exact, Idle, RelayState
<1>10. RelayTypes'
  BY <1>1, <1>2 DEF RelayTypes
<1> QED
  BY <1>7, <1>8, <1>9, <1>10 DEF RInv

\* Messages that are in order and hold the executions e.
InOrder(q, tr, H, e) == /\ q \in Seq(RelayMsg)
                        /\ MsgsOK(q, tr, H) /\ AllSent(q, tr, H)
                        /\ Execs(q) = e

\* sendCodeStartAddr, the first time and every other time.
LEMMA StartInOrder ==
  ASSUME NEW q, NEW tr, NEW H, NEW e, InOrder(q, tr, H, e),
         NEW start, start = <<>> \/ start = <<Metadata>>
  PROVE  InOrder(q \o start, tr, H, e) /\ start \in Seq(RelayMsg)
<1>1. q \in Seq(RelayMsg) /\ MsgsOK(q, tr, H) /\ AllSent(q, tr, H) /\ Execs(q) = e
  BY DEF InOrder
<1>2. CASE start = <<>>
  <2>1. q \o start = q /\ start \in Seq(RelayMsg)
    BY <1>1, <1>2
  <2> QED
    BY <2>1
<1>3. CASE start = <<Metadata>>
  <2> DEFINE x == Metadata
  <2>1. x \in RelayMsg /\ x.kind # "tb" /\ x.kind # "exec"
    BY MsgFacts
  <2> HIDE DEF x
  <2>2. start = <<x>>
    BY <1>3 DEF x
  <2>3. q \o start = Append(q, x) /\ Append(q, x) \in Seq(RelayMsg) /\ start \in Seq(RelayMsg)
    BY <1>1, <2>1, <2>2
  <2>4. MsgsOK(Append(q, x), tr, H) /\ AllSent(Append(q, x), tr, H)
    BY <1>1, <2>1, WriteOther
  <2>5. Execs(Append(q, x)) = Picked(x.kind = "exec", Execs(q), x)
    BY <1>1, <2>1, ExecsAppend
  <2>6. Execs(Append(q, x)) = e
    BY <1>1, <2>1, <2>5, Zenon DEF Picked
  <2>7. InOrder(Append(q, x), tr, H, e)
    BY <2>3, <2>4, <2>6 DEF InOrder
  <2> QED
    BY <2>3, <2>7
<1> QED
  BY <1>2, <1>3

\* A TB after that.
LEMMA TBInOrder ==
  ASSUME NEW q, NEW tr \in Seq(Reportable), NEW H, NEW e, InOrder(q, tr, H, e),
         NEW b \in Reportable
  PROVE  InOrder(Append(q, TranslatedBlock(Len(tr), b)), Append(tr, b), H, e)
<1> DEFINE x == TranslatedBlock(Len(tr), b)
<1>1. q \in Seq(RelayMsg) /\ MsgsOK(q, tr, H) /\ AllSent(q, tr, H) /\ Execs(q) = e
  BY DEF InOrder
<1>2. Len(tr) \in Nat
  OBVIOUS
<1>3. x \in RelayMsg /\ x.kind = "tb" /\ x.index = Len(tr) /\ x.block = b
  BY <1>2, MsgFacts
<1> HIDE DEF x
<1>4. MsgsOK(Append(q, x), Append(tr, b), H) /\ AllSent(Append(q, x), Append(tr, b), H)
  BY <1>1, <1>3, WriteTB
<1>5. Execs(Append(q, x)) = Picked(x.kind = "exec", Execs(q), x)
  BY <1>1, <1>3, ExecsAppend
<1>6. x.kind # "exec"
  BY <1>3
<1>7. Execs(Append(q, x)) = e
  BY <1>1, <1>5, <1>6, Zenon DEF Picked
<1>8. Append(q, x) \in Seq(RelayMsg)
  BY <1>1, <1>3
<1> QED
  BY <1>4, <1>7, <1>8 DEF InOrder, x

\* A TB is translated.
LEMMA TranslateKeeps ==
  ASSUME RInv, NEW b \in Blocks, TbTranslateCallback(b)
  PROVE  RInv'
<1> DEFINE q == sock["relay"]
           w == sock'["relay"]
           tr == translated
           H == HeldTBs
           K == HeldTBs'
           e == Execs(q)
           start == IF CodeStartAddr THEN <<>> ELSE <<Metadata>>
           i == Len(tr)
           Reported(known) == IF known THEN b ELSE [b EXCEPT !.addr = i]
           r == Reported(RegInfoRegistry')
<1>1. /\ relay = "on" /\ relay' = "on" /\ accesses = <<>> /\ Len(tr) < NumTBs
      /\ UNCHANGED <<vars, CurrentExecTB, accesses, executed, backlog, client, handled>>
  BY DEF TbTranslateCallback
<1>2. \/ Send(start) /\ translated' = tr
      \/ /\ translated' = Append(tr, r)
         /\ Send(Append(start, TranslatedBlock(i, Last(translated'))))
  BY DEF TbTranslateCallback
<1>3. ServerTypes /\ RelayTypes /\ Told /\ Exact
  BY DEF RInv
<1>4. InOrder(q, tr, H, e)
  BY <1>1, <1>3 DEF ServerTypes, Told, InOrder
<1>5. tr \in Seq(Reportable) /\ i \in Nat /\ i <= NumTBs /\ NumTBs \in Nat
  BY <1>3, BrokerAssumption DEF RelayTypes
<1>6. r \in Reportable
  <2>1. b \in Reportable
    BY DEF Reportable
  <2>2. [b EXCEPT !.addr = i] \in Reportable
    BY <1>5 DEF Reportable
  <2> QED
    BY <2>1, <2>2
<1>7. start = <<>> \/ start = <<Metadata>>
  OBVIOUS
<1> DEFINE u == q \o start
<1> HIDE DEF start, r, e
<1>8. InOrder(u, tr, H, e) /\ start \in Seq(RelayMsg) /\ q \in Seq(RelayMsg)
  <2>1. q \in Seq(RelayMsg)
    BY <1>4 DEF InOrder
  <2> HIDE DEF q, H
  <2> QED
    BY <1>4, <1>7, <2>1, StartInOrder
<1>9. /\ sock' = [c \in {"relay", "test"} |-> sock'[c]]
      /\ sock'["test"] = sock["test"]
      /\ InOrder(w, translated', H, e)
      /\ translated' = tr \/ translated' = Append(tr, r)
  <2>1. CASE Send(start) /\ translated' = tr
    <3>1. /\ sock' = [c \in {"relay", "test"} |-> sock'[c]]
          /\ sock'["relay"] = sock["relay"] \o start /\ sock'["test"] = sock["test"]
      BY <2>1, SendFacts
    <3> QED
      BY <1>8, <2>1, <3>1
  <2>2. CASE /\ translated' = Append(tr, r)
             /\ Send(Append(start, TranslatedBlock(i, Last(translated'))))
    <3>1. Last(translated') = r
      BY <1>5, <1>6, <2>2 DEF Last
    <3> DEFINE x == TranslatedBlock(i, r)
    <3>2. Send(Append(start, x))
      BY <2>2, <3>1
    <3>3. x \in RelayMsg
      BY <1>5, <1>6, MsgFacts
    <3>4. InOrder(Append(u, x), Append(tr, r), H, e)
      <4> HIDE DEF u, H
      <4> QED
        BY <1>5, <1>6, <1>8, TBInOrder
    <3> HIDE DEF x
    <3>5. /\ sock' = [c \in {"relay", "test"} |-> sock'[c]]
          /\ sock'["relay"] = sock["relay"] \o Append(start, x) /\ sock'["test"] = sock["test"]
      BY <3>2, SendFacts
    <3>6. q \o Append(start, x) = Append(q \o start, x)
      <4>1. q \in Seq(RelayMsg) /\ start \in Seq(RelayMsg) /\ x \in RelayMsg
        BY <1>8, <3>3
      <4> HIDE DEF q
      <4> QED
        BY <4>1
    <3>7. w = Append(u, x)
      BY <3>5, <3>6
    <3> QED
      BY <2>2, <3>4, <3>5, <3>7
  <2> QED
    BY <1>2, <2>1, <2>2
<1>10. w \in Seq(RelayMsg) /\ MsgsOK(w, translated', H) /\ AllSent(w, translated', H)
       /\ Execs(w) = e
  BY <1>9 DEF InOrder
<1>11. /\ translated' \in Seq(Reportable) /\ Len(translated') <= NumTBs
       /\ \A k \in 0 .. (i - 1) : k \in 0 .. (Len(translated') - 1)
                                  /\ translated'[k+1] = tr[k+1]
  <2> DEFINE s == translated'
             n == Len(tr)
  <2>1. n \in Nat /\ n < NumTBs /\ NumTBs \in Nat
    BY <1>1, <1>5
  <2>2. CASE s = tr
    <3>1. \A k \in 0 .. (n - 1) : k \in 0 .. (Len(tr) - 1)
      OBVIOUS
    <3> QED
      BY <1>5, <2>1, <2>2, <3>1
  <2>3. CASE s = Append(tr, r)
    <3>1. s \in Seq(Reportable) /\ Len(s) = n + 1 /\ \A k \in 1 .. n : s[k] = tr[k]
      BY <1>5, <1>6, <2>3
    <3> HIDE DEF s, n
    <3>2. ASSUME NEW k \in 0 .. (n - 1)
          PROVE  k \in 0 .. (Len(s) - 1) /\ s[k+1] = tr[k+1]
      <4> DEFINE j == k + 1
      <4>1. j \in 1 .. n /\ k \in 0 .. (Len(s) - 1)
        BY <2>1, <3>1
      <4> HIDE DEF j
      <4>2. s[j] = tr[j]
        BY <3>1, <4>1
      <4> QED
        BY <4>1, <4>2 DEF j
    <3>3. Len(s) <= NumTBs
      BY <2>1, <3>1
    <3> QED
      BY <3>1, <3>2, <3>3 DEF s, n
  <2> QED
    BY <1>9, <2>2, <2>3
<1>12. H \subseteq K
  <2>1. TBs' = TBs /\ client' = client
    BY <1>1 DEF vars, recvVars
  <2> SUFFICES ASSUME NEW k \in H PROVE k \in K
    OBVIOUS
  <2>2. k \in 0 .. (i - 1) /\ client = "relay" /\ TBs[k].raw = tr[k+1]
    BY DEF HeldTBs
  <2> QED
    BY <1>11, <2>1, <2>2 DEF HeldTBs
<1>13. MsgsOK(w, translated', K) /\ AllSent(w, translated', K)
  <2> HIDE DEF H, K, w
  <2> QED
    BY <1>10, <1>12, MoreHeld
<1>14. Told'
  BY <1>13 DEF Told
<1>15. ServerTypes' /\ KeptTypes'
  <2>1. backlog' \in Seq({"relay", "test"})
    BY <1>1, <1>3 DEF ServerTypes
  <2> QED
    BY <1>1, <1>9, <1>10, <2>1, RelaySteps
<1>16. CurOK(CurrentExecTB', translated')
  <2>1. CurOK(CurrentExecTB, tr)
    BY <1>3 DEF RelayTypes
  <2>2. 0 .. (Len(tr) - 1) \subseteq 0 .. (Len(translated') - 1)
    BY <1>11
  <2> DEFINE s == CurrentExecTB
  <2> HIDE DEF s
  <2>3. CurOK(s, tr)
    BY <2>1 DEF s
  <2>4. CurOK(s, translated')
    BY <2>2, <2>3 DEF CurOK
  <2> QED
    BY <1>1, <2>4 DEF s
<1>17. RelayTypes'
  BY <1>1, <1>3, <1>11, <1>16 DEF RelayTypes
<1>18. Sent' = Sent
  BY <1>1, <1>10 DEF Sent, e
<1>19. Exact' /\ Idle' /\ RelayState'
  <2>1. executed' = Sent' \o NowOf(CurrentExecTB', accesses')
    BY <1>1, <1>3, <1>18 DEF Exact
  <2> QED
    BY <1>1, <2>1 DEF Exact, Idle, RelayState
<1> QED
  BY <1>14, <1>15, <1>17, <1>19 DEF RInv

-----------------------------------------------------------------------------
\* Every step keeps the invariant.
LEMMA NextRInv == RInv /\ [SysNext]_sysVars => RInv'
<1> SUFFICES ASSUME RInv, [SysNext]_sysVars PROVE RInv'
  OBVIOUS
<1>1. CASE Guest
  BY <1>1, InstallKeeps, TranslateKeeps, ExecKeeps, MemoryKeeps, ExitKeeps, KillKeeps,
     TestKeeps DEF Guest
<1>2. CASE RecvWorker
  BY <1>2, AcceptKeeps, EOFKeeps, ReadTestKeeps, ReadRelayKeeps, InBrokerKeeps DEF RecvWorker
<1>3. CASE \/ Construct \/ Destroy \/ FetchRegion \/ InBroker(SpuriousWakeup)
           \/ UNCHANGED sysVars
  BY <1>3, InBrokerKeeps
<1> QED
  BY <1>1, <1>2, <1>3 DEF SysNext

\* The invariant says what RelayFaithful says.
LEMMA RInvFaithful == RInv => RelayFaithful
<1> SUFFICES ASSUME RInv PROVE RelayFaithful
  OBVIOUS
<1> DEFINE q == sock["relay"]
<1>1. IsPrefix(handled \o Execs(q), executed)
  BY SentPrefix DEF Sent
<1>2. relay = "on" => executed = (handled \o Execs(q)) \o NowOf(CurrentExecTB, accesses)
  BY DEF RInv, Exact, Sent
<1>3. relay = "exited" => executed = handled \o Execs(q)
  BY DEF RInv, Exact, Sent
<1>4. ASSUME NEW k \in DOMAIN q, q[k].kind = "exec"
      PROVE  \/ /\ client = "relay"
                /\ TBs[q[k].index].raw = translated[q[k].index + 1]
             \/ \E j \in 1 .. (k - 1) : /\ q[j].kind = "tb"
                                        /\ q[j].index = q[k].index
  <2>1. q \in Seq(RelayMsg) /\ MsgsOK(q, translated, HeldTBs)
    BY DEF RInv, ServerTypes, Told
  <2>2. k \in 1 .. Len(q)
    BY <2>1
  <2> HIDE DEF q
  <2>3. q[k].index \in HeldTBs \/ Before(q, k, q[k].index)
    BY <1>4, <2>1, <2>2 DEF MsgsOK
  <2> QED
    BY <2>3 DEF HeldTBs, Before
<1> QED
  BY <1>1, <1>2, <1>3, <1>4, Zenon DEF RelayFaithful, NowOf

\* Every execution the relay is told of is sent once, in order and with exactly
\* its own accesses, although it is written only when the next one starts, and
\* the broker holds its TB or is sent it first; a QEMU that is killed loses a
\* tail of them.  This holds for any program, options, manifest, socket size and
\* number of connections, and whatever the test client has sent before.
THEOREM RelayIsFaithful == SysSpec => []RelayFaithful
<1>1. SysSpec => []RInv
  BY InitRInv, NextRInv, PTL DEF SysSpec
<1> QED
  BY <1>1, RInvFaithful, PTL
=============================================================================
