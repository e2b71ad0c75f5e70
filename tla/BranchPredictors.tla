--------------------------- MODULE BranchPredictors ---------------------------
(***************************************************************************)
(* The branch predictors a pipeline can be built with: the naive one       *)
(* (CustomHWUnits/NaiveBranchPredictorUnit) and the one modelled after     *)
(* Intel Skylake (CustomHWUnits/SkylakeBranchUnit).  A predictor is a      *)
(* value; recording a branch and predicting one return it changed.         *)
(***************************************************************************)
EXTENDS Integers, Sequences, SequencesExt, FiniteSets, FiniteSetsExt, Functions

CONSTANTS
  HistoryCapacity,  \* -bht-size
  CounterModulus,   \* 2^32 in the code: nAccesses is an unsigned
  PHTRows,          \* 2048 in the code
  PHTWays           \* 4 in the code

ASSUME PredictorAssumption ==
  /\ HistoryCapacity \in Nat /\ CounterModulus \in Nat \ {0}
  /\ PHTRows \in Nat \ {0} /\ PHTWays \in Nat \ {0}

Direction == {"TAKEN", "NOT_TAKEN"}

-----------------------------------------------------------------------------
(* The naive predictor: the last direction of the branches used last.      *)

\* MDInstrAddr::operator<, the order of the keys of branchHistory.  Two
\* instructions of which one follows the other directly are equivalent.
Before(k, l) == k.addr + k.size < l.addr

\* std::map::find: the first stored key that is not before k, unless k is
\* before it.
Found(history, k) ==
  LET rest == {l \in DOMAIN history : ~Before(l, k)}
  IN  {l \in rest : /\ \A m \in rest : l.addr <= m.addr
                    /\ ~Before(k, l)}

NewNaive(n) == [history |-> <<>>, nAccesses |-> n]

\* Mutant: an entry keeps the direction it was made with.
NaiveRecordOnce(p, k, dir) ==
  LET h == p.history
  IN  IF Found(h, k) # {} THEN p
      ELSE [p EXCEPT !.history = [l \in DOMAIN h \cup {k} |->
              IF l = k THEN [lastDirection |-> dir, lastUse |-> p.nAccesses] ELSE h[l]]]

\* Mutant: the most recently used entry is evicted.
NaiveRecordEvictNewest(p, k, dir) ==
  LET h    == p.history
      key  == IF Found(h, k) = {} THEN k ELSE CHOOSE l \in Found(h, k) : TRUE
      upd  == [l \in DOMAIN h \cup {key} |->
                 IF l = key THEN [lastDirection |-> dir, lastUse |-> p.nAccesses]
                            ELSE h[l]]
      new  == {l \in DOMAIN upd : \A m \in DOMAIN upd : upd[l].lastUse >= upd[m].lastUse}
      evict == CHOOSE l \in new : \A m \in new : l.addr <= m.addr
  IN  [p EXCEPT !.history = IF Cardinality(DOMAIN upd) >= HistoryCapacity
                            THEN Restrict(upd, DOMAIN upd \ {evict}) ELSE upd]

\* recordTakenBranch: update or add the entry of the branch, then evict the
\* least recently used entry (the first in the order of addresses) if the
\* history has reached its capacity.
NaiveRecord(p, k, dir) ==
  LET h    == p.history
      key  == IF Found(h, k) = {} THEN k ELSE CHOOSE l \in Found(h, k) : TRUE
      upd  == [l \in DOMAIN h \cup {key} |->
                 IF l = key THEN [lastDirection |-> dir, lastUse |-> p.nAccesses]
                            ELSE h[l]]
      old  == {l \in DOMAIN upd : \A m \in DOMAIN upd : upd[l].lastUse <= upd[m].lastUse}
      evict == CHOOSE l \in old : \A m \in old : l.addr <= m.addr
  IN  [p EXCEPT !.history = IF Cardinality(DOMAIN upd) >= HistoryCapacity
                            THEN Restrict(upd, DOMAIN upd \ {evict}) ELSE upd]

\* predictBranch: the prediction, and the predictor with the entry used.
NaivePredict(p, k) ==
  LET n == (p.nAccesses + 1) % CounterModulus
      f == Found(p.history, k)
  IN  [dir |-> IF f = {} THEN "NOT_TAKEN"
               ELSE p.history[CHOOSE l \in f : TRUE].lastDirection,
       next |-> [nAccesses |-> n,
                 history |-> [l \in DOMAIN p.history |->
                                IF l \in f THEN [p.history[l] EXCEPT !.lastUse = n]
                                           ELSE p.history[l]]]]

-----------------------------------------------------------------------------
(* The Skylake predictor.  A bitset is the set of the bits that are one.   *)

PHRSize == 93
Bits(a) == {b \in 0 .. 18 : (a \div 2^b) % 2 = 1}

\* getFootprint with target 0: where the bits 3 .. 18 of the branch's address
\* go (branchRight, then branchLeft shifted by six).
FootprintBit ==
  <<0, 1, 6, 7, 2, 3, 8, 9, 4, 5, 10, 11, 12, 13, 14, 15>>
Footprint(a) == {FootprintBit[b - 2] : b \in {c \in Bits(a) : c >= 3}}

\* updatePHR.
UpdatePHR(phr, a) ==
  SymDiff({b \in {c + 2 : c \in phr} : b < PHRSize}, Footprint(a))

\* getPHTIndex: every second one of the lowest start + 14 bits, for both starts.
PHTIndex(phr, start1, start2) ==
  LET Low(start) == {b \in phr : b % 2 = 0 /\ b < start + 14}
  IN  SymDiff(Low(start1), Low(start2))

\* The four tables in the order predictBranch asks them, and the row of a
\* branch in each, given the history register.
Tables == <<"pht1", "pht2", "pht3", "base">>
Row(t, phr, a) == CASE t = "pht1" -> PHTIndex(phr, 1, 6)
                    [] t \in {"pht2", "pht3"} -> PHTIndex(phr, 10, 3)
                    [] t = "base" -> {a % 8192}

NewSkylake == [phr |-> {}, tables |-> [t \in Range(Tables) |-> <<>>]]

\* phtSetPush: a full row loses its least useful entry.
PushEntry(row, a) ==
  LET least == Min({i \in DOMAIN row : \A j \in DOMAIN row : row[i].useful <= row[j].useful})
      kept  == IF Len(row) >= PHTWays THEN RemoveAt(row, least) ELSE row
  IN  Append(kept, [pc |-> a, useful |-> 0])

SetPush(table, index, a) ==
  [i \in DOMAIN table \cup {index} |->
     IF i = index THEN PushEntry(IF i \in DOMAIN table THEN table[i] ELSE <<>>, a)
     ELSE table[i]]

\* Mutant: a full table takes one more row.
InsertTableLate(table, index, a) == {SetPush(table, index, a)}

\* insertTable: when a new row finds the table full, a row with the lowest
\* total is evicted; which one of several is up to the order of the hash map.
TotalUseful(row) == FoldLeft(LAMBDA sum, e : sum + e.useful, 0, row)
InsertTable(table, index, a) ==
  LET full  == index \notin DOMAIN table /\ Cardinality(DOMAIN table) >= PHTRows
      least == {i \in DOMAIN table : \A j \in DOMAIN table :
                   TotalUseful(table[i]) <= TotalUseful(table[j])}
  IN  IF full THEN {SetPush(Restrict(table, DOMAIN table \ {i}), index, a) : i \in least}
      ELSE {SetPush(table, index, a)}

\* recordTakenBranch: only taken branches are recorded, the base table has no
\* limit on its rows.  The set of the predictors that may result.
SkylakeRecord(p, a, dir) ==
  LET phr == UpdatePHR(p.phr, a)
      Insert(t) == IF t = "base" THEN {SetPush(p.tables[t], Row(t, phr, a), a)}
                   ELSE InsertTable(p.tables[t], Row(t, phr, a), a)
  IN  IF dir # "TAKEN" THEN {p}
      ELSE {[phr |-> phr,
             tables |-> [t \in Range(Tables) |->
                CASE t = "pht1" -> t1 [] t = "pht2" -> t2
                  [] t = "pht3" -> t3 [] t = "base" -> tb]] :
              t1 \in Insert("pht1"), t2 \in Insert("pht2"),
              t3 \in Insert("pht3"), tb \in Insert("base")}

\* getTable: the entries of a branch that count in one table.
Useful(table, index, a) ==
  IF index \notin DOMAIN table THEN {}
  ELSE {i \in DOMAIN table[index] : /\ table[index][i].pc = a
                                    /\ table[index][i].useful > 0}

\* predictBranch: taken if one of the tables has an entry that counts, which
\* then counts one more.
SkylakePredict(p, a) ==
  LET phr == UpdatePHR(p.phr, a)
      In(t) == Useful(p.tables[t], Row(t, phr, a), a)
      hits == {k \in DOMAIN Tables : In(Tables[k]) # {}}
      t    == Tables[Min(hits)]
  IN  IF hits = {} THEN [dir |-> "NOT_TAKEN", next |-> p]
      ELSE [dir |-> "TAKEN",
            next |-> [p EXCEPT !.tables[t][Row(t, phr, a)][Min(In(t))].useful = @ + 1]]
=============================================================================
