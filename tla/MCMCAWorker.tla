---------------------------- MODULE MCMCAWorker ----------------------------
(***************************************************************************)
(* Instances of MCAWorker for TLC.                                         *)
(***************************************************************************)
EXTENDS MCAWorker

CONSTANT MaxLines   \* bound: the files enumerated have at most so many lines

Line(kind, name, op) == [kind |-> kind, name |-> name, op |-> op]
I == Line("inst", "", "plain")
Call == Line("inst", "", "call")
BeginAt(n) == Line("begin", n, "")
EndAt(n) == Line("end", n, "")

\* Every small file, and a longer one: text before the first region, a region
\* larger than the buffer, one of which nothing is simulated, overlapping
\* regions, a directive in error and one region that is never closed.
Lines == {I, BeginAt(""), BeginAt("a"), EndAt(""), EndAt("a")}
Files == SeqOf(Lines, MaxLines)
LongFile == <<I, BeginAt("a"), I, Line("comment", "", ""), I, I, EndAt("a"),
              BeginAt(""), Call, EndAt(""), BeginAt("b"), I, BeginAt("c"),
              BeginAt("b"), I, EndAt("b"), Line("inst", "", "bad"),
              Line("inst", "", "ret")>>
AsmInputs == [kind : {"asm"}, fault : {"none"}, text : Files \cup {LongFile},
              ahead : BOOLEAN, parser : {TRUE}, caches : {{}}, outOfOrder : {TRUE}]
             \cup [kind : {"asm"}, fault : {"none"}, text : {LongFile},
                   ahead : {FALSE}, parser : BOOLEAN,
                   caches : {{"L1i", "L2"}, {"L1i", "L1d", "L2", "L3"}},
                   outOfOrder : BOOLEAN]

S(op, marks, last) == [op |-> op, marks |-> marks, last |-> last,
                       name |-> IF last THEN "r" ELSE ""]
P(marks) == S("plain", marks, FALSE)
M == S("micro", {}, FALSE)

\* Marked regions back to back, one of them a single instruction, and
\* microcoded instructions inside and outside of them; one stream without
\* regions, one cut into regions, the last one left open.
Marked == <<P({"begin"}), M, P({"end"}), S("call", {}, FALSE),
            P({"begin", "end"}), P({"begin"}), P({"end"}), M>>
Cut == <<P({"begin"}), P({"end"}), S("micro", {}, TRUE),
         S("call", {}, FALSE), S("ret", {}, TRUE),
         P({"begin"}), M, S("plain", {"end"}, TRUE), P({})>>
StreamInputs ==
  [kind : {"stream"}, fault : {"none", "pipeline"}, region : {FALSE},
   insts : {Marked}, caches : {{"L1d"}}, outOfOrder : {TRUE}]
  \cup [kind : {"stream"}, fault : {"none"}, region : {TRUE},
        insts : {Cut}, caches : {{"L1d"}}, outOfOrder : {TRUE}]
Failing == [kind : {"stream"}, fault : Faults \ {"none", "pipeline"},
            region : {FALSE}, insts : {<<>>}, caches : {{}}, outOfOrder : {TRUE}]

AllInputs == AsmInputs \cup StreamInputs \cup Failing
=============================================================================
