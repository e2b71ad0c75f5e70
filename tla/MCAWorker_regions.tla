-------------------------- MODULE MCAWorker_regions ---------------------------
(***************************************************************************)
(* The assembly file broker: each code region it has parsed holds exactly  *)
(* the instructions between its directives, in whichever order the parser  *)
(* reports them, and its fetches hand out the instructions of the regions  *)
(* one after the other.                                                    *)
(***************************************************************************)
EXTENDS MCAWorker_proofs

-----------------------------------------------------------------------------
(* The parser, one line at a time.                                         *)

\* A code region, the names that are active, and what the parser keeps of them.
Names == STRING \cup {""}
RegionType == [name : Names, start : Nat, end : Nat, insts : Seq(Nat)]
ActiveType == UNION {[N -> Nat] : N \in SUBSET Names}
ParseType == [regions : Seq(RegionType), active : ActiveType, FoundErrors : BOOLEAN]

\* It is the record of its fields.
Fields(r, a, e) == [regions |-> r, active |-> a, FoundErrors |-> e]

\* A parser state is the record of its fields.
LEMMA FieldsFacts ==
  ASSUME NEW cr \in ParseType
  PROVE  /\ cr = Fields(cr.regions, cr.active, cr.FoundErrors)
         /\ cr.regions \in Seq(RegionType) /\ cr.active \in ActiveType
         /\ cr.FoundErrors \in BOOLEAN
BY DEF ParseType, Fields

\* Such a record is a parser state.
LEMMA FieldsType ==
  ASSUME NEW r \in Seq(RegionType), NEW a \in ActiveType, NEW e \in BOOLEAN
  PROVE  Fields(r, a, e) \in ParseType
BY DEF ParseType, Fields

\* Fields are replaced, one or two at once.
SetRegions(c, x) == [c EXCEPT !.regions = x]
SetErrors(c, z) == [c EXCEPT !.FoundErrors = z]
SetActiveRegions(c, x, y) == [c EXCEPT !.active = y, !.regions = x]
SetRegionsActive(c, x, y) == [c EXCEPT !.regions = x, !.active = y]

\* Its fields.
LEMMA FieldsAre ==
  ASSUME NEW r, NEW a, NEW e
  PROVE  /\ Fields(r, a, e).regions = r /\ Fields(r, a, e).active = a
         /\ Fields(r, a, e).FoundErrors = e
BY DEF Fields

\* One or two of them are replaced.
LEMMA FieldsSet ==
  ASSUME NEW r, NEW a, NEW e, NEW c, c = Fields(r, a, e), NEW x, NEW y, NEW z
  PROVE  /\ SetRegions(c, x) = Fields(x, a, e)
         /\ SetErrors(c, z) = Fields(r, a, z)
         /\ SetActiveRegions(c, x, y) = Fields(x, y, e)
         /\ SetRegionsActive(c, x, y) = Fields(x, y, e)
<1> DEFINE v == [c EXCEPT !.active = y]
           w == [c EXCEPT !.regions = x]
           u == [c EXCEPT !.FoundErrors = z]
<1>1. v = Fields(r, y, e)
  BY SMT DEF Fields
<1>2. w = Fields(x, a, e)
  BY SMT DEF Fields
<1>3. u = Fields(r, a, z)
  BY SMT DEF Fields
<1>4. SetActiveRegions(c, x, y) = [v EXCEPT !.regions = x]
  BY SMT DEF SetActiveRegions
<1>5. SetRegionsActive(c, x, y) = [w EXCEPT !.active = y]
  BY SMT DEF SetRegionsActive
<1>6. SetRegions(c, x) = w /\ SetErrors(c, z) = u
  BY DEF SetRegions, SetErrors
<1> HIDE DEF v, w, u
<1>7. [v EXCEPT !.regions = x] = Fields(x, y, e)
  BY <1>1, SMT DEF Fields
<1>8. [w EXCEPT !.active = y] = Fields(x, y, e)
  BY <1>2, SMT DEF Fields
<1> QED
  BY <1>2, <1>3, <1>4, <1>5, <1>6, <1>7, <1>8

\* What the operations do to the fields.
AddTo(rs, loc) == [k \in DOMAIN rs |-> WithInst(rs[k], loc)]

\* An instruction is added to the regions; the rest stays.
LEMMA AddFields ==
  ASSUME NEW r, NEW a, NEW e, NEW loc
  PROVE  AddInstruction(Fields(r, a, e), loc) = Fields(AddTo(r, loc), a, e)
<1> DEFINE x == AddTo(r, loc)
           c == Fields(r, a, e)
<1>1. c.regions = r
  BY FieldsAre
<1>2. AddInstruction(c, loc) = SetRegions(c, x)
  BY <1>1, Zenon DEF AddInstruction, AddTo, SetRegions
<1>3. c = Fields(r, a, e)
  OBVIOUS
<1> HIDE DEF x, c
<1>4. AddInstruction(c, loc) = Fields(x, a, e)
  BY <1>2, <1>3, FieldsSet
<1> QED
  BY <1>4 DEF x, c

Default(r) == Len(r) = 1 /\ r[1].start = 0 /\ r[1].end = 0

Without(a, n) == [m \in DOMAIN a \ {n} |-> a[m]]

\* What BeginRegion, or EndRegion, has made of the fields.
Began(b, r, a, e, name, loc) ==
  /\ a = <<>> /\ Default(r) =>
       b = Fields(<<CodeRegion(name, loc)>>, Activate(a, name, 1), e)
  /\ ~(a = <<>> /\ Default(r)) /\ name \in DOMAIN a => b = Fields(r, a, TRUE)
  /\ ~(a = <<>> /\ Default(r)) /\ name \notin DOMAIN a =>
       b = Fields(Append(r, CodeRegion(name, loc)), Activate(a, name, Len(r) + 1), e)

EndsOnly(a, name) == name = "" /\ \E n \in DOMAIN a : DOMAIN a = {n}
EndsDefault(r, a, name) == name = "" /\ a = <<>> /\ Default(r)
WasEnded(b, r, a, e, name, loc) ==
  LET End(n) == Fields(SetEndLocation(r, a[n], loc), Without(a, n), e)
  IN  /\ EndsOnly(a, name) => \E n \in DOMAIN a : b = End(n)
      /\ ~EndsOnly(a, name) /\ EndsDefault(r, a, name) =>
           b = Fields(SetEndLocation(r, 1, loc), a, e)
      /\ ~EndsOnly(a, name) /\ ~EndsDefault(r, a, name) =>
           b = IF name \in DOMAIN a THEN End(name) ELSE Fields(r, a, TRUE)

\* What a begin directive makes of each field.
LEMMA BeginFields ==
  ASSUME NEW r, NEW a, NEW e, NEW name, NEW loc
  PROVE  Began(BeginRegion(Fields(r, a, e), name, loc), r, a, e, name, loc)
<1> DEFINE c == Fields(r, a, e)
           x1 == <<CodeRegion(name, loc)>>
           x2 == Append(r, CodeRegion(name, loc))
           y1 == Activate(a, name, 1)
           y2 == Activate(a, name, Len(r) + 1)
           z == TRUE
<1>1. c.regions = r /\ c.active = a
  BY FieldsAre
<1>2. OnlyDefault(c) <=> Default(r)
  BY <1>1 DEF OnlyDefault, Default
<1>3. BeginRegion(c, name, loc) = CASE a = <<>> /\ Default(r) ->
                                         SetActiveRegions(c, x1, y1)
                                    [] name \in DOMAIN a -> SetErrors(c, z)
                                    [] OTHER -> SetActiveRegions(c, x2, y2)
  BY <1>1, <1>2, Zenon DEF BeginRegion, SetActiveRegions, SetErrors
<1> HIDE DEF x1, x2, y1, y2, z
<1>4. /\ SetActiveRegions(c, x1, y1) = Fields(x1, y1, e)
      /\ SetErrors(c, z) = Fields(r, a, z)
      /\ SetActiveRegions(c, x2, y2) = Fields(x2, y2, e)
  BY FieldsSet
<1>5. BeginRegion(c, name, loc) = CASE a = <<>> /\ Default(r) -> Fields(x1, y1, e)
                                    [] name \in DOMAIN a -> Fields(r, a, z)
                                    [] OTHER -> Fields(x2, y2, e)
  BY <1>3, <1>4, Zenon
<1> DEFINE b == BeginRegion(c, name, loc)
<1>6. DOMAIN <<>> = {}
  OBVIOUS
<1>7. a = <<>> => name \notin DOMAIN a
  BY <1>6
<1> HIDE DEF b
<1>8. /\ a = <<>> /\ Default(r) => b = Fields(x1, y1, e)
      /\ ~(a = <<>> /\ Default(r)) /\ name \in DOMAIN a => b = Fields(r, a, z)
      /\ ~(a = <<>> /\ Default(r)) /\ name \notin DOMAIN a => b = Fields(x2, y2, e)
  BY <1>5, <1>7 DEF b
<1> QED
  BY <1>8, Zenon DEF x1, x2, y1, y2, z, b, Began

\* What an end directive makes of each field.
LEMMA EndFields ==
  ASSUME NEW r, NEW a, NEW e, NEW name, NEW loc
  PROVE  WasEnded(EndRegion(Fields(r, a, e), name, loc), r, a, e, name, loc)
<1> DEFINE c == Fields(r, a, e)
           o == CHOOSE n \in DOMAIN a : TRUE
           x1 == SetEndLocation(r, a[o], loc)
           x2 == SetEndLocation(r, 1, loc)
           x3 == SetEndLocation(r, a[name], loc)
           y1 == Without(a, o)
           y3 == Without(a, name)
           z == TRUE
<1>1. c.regions = r /\ c.active = a
  BY FieldsAre
<1>2. OnlyDefault(c) <=> Default(r)
  BY <1>1 DEF OnlyDefault, Default
<1>3. EndRegion(c, name, loc) = CASE name = "" /\ \E n \in DOMAIN a : DOMAIN a = {n} ->
                                       SetRegionsActive(c, x1, y1)
                                  [] name = "" /\ a = <<>> /\ Default(r) ->
                                       SetRegions(c, x2)
                                  [] name \in DOMAIN a ->
                                       SetRegionsActive(c, x3, y3)
                                  [] OTHER -> SetErrors(c, z)
  BY <1>1, <1>2, Zenon DEF EndRegion, Without, SetRegionsActive, SetRegions, SetErrors
<1> HIDE DEF x1, x2, x3, y1, y3, z
<1>4. /\ SetRegionsActive(c, x1, y1) = Fields(x1, y1, e)
      /\ SetRegionsActive(c, x3, y3) = Fields(x3, y3, e)
      /\ SetErrors(c, z) = Fields(r, a, z)
      /\ SetRegions(c, x2) = Fields(x2, a, e)
  BY FieldsSet
<1>5. EndRegion(c, name, loc) = CASE name = "" /\ \E n \in DOMAIN a : DOMAIN a = {n} ->
                                       Fields(x1, y1, e)
                                  [] name = "" /\ a = <<>> /\ Default(r) ->
                                       Fields(x2, a, e)
                                  [] name \in DOMAIN a -> Fields(x3, y3, e)
                                  [] OTHER -> Fields(r, a, z)
  BY <1>3, <1>4, Zenon
<1> DEFINE b == EndRegion(c, name, loc)
<1>6. DOMAIN <<>> = {}
  OBVIOUS
<1>7. EndsOnly(a, name) => o \in DOMAIN a /\ a # <<>> /\ (name \in DOMAIN a => o = name)
  BY <1>6 DEF EndsOnly
<1>8. EndsDefault(r, a, name) => name \notin DOMAIN a
  BY <1>6 DEF EndsDefault
<1>9. EndsOnly(a, name) /\ name \in DOMAIN a => x1 = x3 /\ y1 = y3
  BY <1>7 DEF x1, x3, y1, y3
<1>10. b = CASE EndsOnly(a, name) -> Fields(x1, y1, e)
             [] EndsDefault(r, a, name) -> Fields(x2, a, e)
             [] name \in DOMAIN a -> Fields(x3, y3, e)
             [] OTHER -> Fields(r, a, z)
  BY <1>5 DEF EndsOnly, EndsDefault, b
<1> HIDE DEF b, o
<1>11. /\ EndsOnly(a, name) => b = Fields(x1, y1, e)
       /\ ~EndsOnly(a, name) /\ EndsDefault(r, a, name) => b = Fields(x2, a, e)
       /\ ~EndsOnly(a, name) /\ ~EndsDefault(r, a, name) =>
            b = IF name \in DOMAIN a THEN Fields(x3, y3, e) ELSE Fields(r, a, z)
  <2>1. CASE EndsOnly(a, name)
    <3>1. ~EndsDefault(r, a, name)
      BY <1>7, <2>1 DEF EndsDefault
    <3> QED
      BY <1>9, <1>10, <2>1, <3>1
  <2>2. CASE ~EndsOnly(a, name) /\ EndsDefault(r, a, name)
    BY <1>8, <1>10, <2>2
  <2>3. CASE ~EndsOnly(a, name) /\ ~EndsDefault(r, a, name)
    BY <1>10, <2>3
  <2> QED
    BY <2>1, <2>2, <2>3
<1>12. EndsOnly(a, name) => \E n \in DOMAIN a :
                              b = Fields(SetEndLocation(r, a[n], loc), Without(a, n), e)
  BY <1>7, <1>11 DEF x1, y1
<1> QED
  BY <1>11, <1>12, Zenon DEF x1, x2, x3, y1, y3, z, b, WasEnded

\* The text of a file.
Text == Seq([kind : {"inst", "begin", "end", "comment"}, name : STRING, op : STRING])

\* The bounds of the regions are numbers.
LEMMA RegionsFacts ==
  ASSUME NEW r \in Seq(RegionType)
  PROVE  /\ Len(r) \in Nat
         /\ \A k \in 1 .. Len(r) : r[k] \in RegionType /\ r[k].start \in Nat /\ r[k].end \in Nat
<1>1. \A x \in RegionType : x.start \in Nat /\ x.end \in Nat
  BY DEF RegionType
<1>2. Len(r) \in Nat /\ \A k \in 1 .. Len(r) : r[k] \in RegionType
  OBVIOUS
<1> QED
  BY <1>1, <1>2

\* One region keeps its type, its bounds and its name when an instruction joins it.
LEMMA WithInstFacts ==
  ASSUME NEW r \in RegionType, NEW loc \in Nat
  PROVE  /\ WithInst(r, loc) \in RegionType
         /\ WithInst(r, loc).name = r.name
         /\ WithInst(r, loc).start = r.start
         /\ WithInst(r, loc).end = r.end
         /\ WithInst(r, loc).insts = IF IsLocInRange(r, loc) THEN Append(r.insts, loc)
                                     ELSE r.insts
<1>1. CASE IsLocInRange(r, loc)
  <2> DEFINE x == Append(r.insts, loc)
  <2>1. x \in Seq(Nat)
    BY DEF RegionType
  <2>2. WithInst(r, loc) = [r EXCEPT !.insts = x]
    BY <1>1 DEF WithInst
  <2> HIDE DEF x
  <2>3. [r EXCEPT !.insts = x] = [name |-> r.name, start |-> r.start, end |-> r.end,
                                  insts |-> x]
    BY DEF RegionType
  <2>4. [name |-> r.name, start |-> r.start, end |-> r.end, insts |-> x] \in RegionType
    BY <2>1 DEF RegionType
  <2>5. WithInst(r, loc) = [name |-> r.name, start |-> r.start, end |-> r.end, insts |-> x]
    BY <2>2, <2>3
  <2> QED
    BY <1>1, <2>4, <2>5 DEF x
<1>2. CASE ~IsLocInRange(r, loc)
  BY <1>2 DEF WithInst
<1> QED
  BY <1>1, <1>2

\* Elements of a sequence are replaced, all of them or one.
LEMMA AddToFacts ==
  ASSUME NEW rs \in Seq(RegionType), NEW loc \in Nat
  PROVE  /\ AddTo(rs, loc) \in Seq(RegionType)
         /\ Len(AddTo(rs, loc)) = Len(rs)
         /\ \A k \in 1 .. Len(rs) : AddTo(rs, loc)[k] = WithInst(rs[k], loc)
<1> DEFINE n == Len(rs)
           f == [k \in 1 .. n |-> WithInst(rs[k], loc)]
<1>1. n \in Nat /\ DOMAIN rs = 1 .. n /\ \A k \in 1 .. n : rs[k] \in RegionType
  OBVIOUS
<1>2. \A k \in 1 .. n : WithInst(rs[k], loc) \in RegionType
  BY <1>1, WithInstFacts
<1>3. AddTo(rs, loc) = f
  BY <1>1 DEF AddTo
<1> HIDE DEF n
<1>4. f \in Seq(RegionType) /\ Len(f) = n
  BY <1>1, <1>2
<1> QED
  BY <1>3, <1>4 DEF n

Ended(r, loc) == [r EXCEPT !.end = loc]

\* A region that is ended keeps everything but its end.
LEMMA EndedFacts ==
  ASSUME NEW r \in RegionType, NEW loc \in Nat
  PROVE  /\ Ended(r, loc) \in RegionType
         /\ Ended(r, loc).name = r.name
         /\ Ended(r, loc).start = r.start
         /\ Ended(r, loc).end = loc
         /\ Ended(r, loc).insts = r.insts
BY DEF RegionType, Ended

\* Ending one region of a sequence leaves the others alone.
LEMMA SetEndFacts ==
  ASSUME NEW rs \in Seq(RegionType), NEW j, NEW loc \in Nat
  PROVE  /\ SetEndLocation(rs, j, loc) \in Seq(RegionType)
         /\ Len(SetEndLocation(rs, j, loc)) = Len(rs)
         /\ \A k \in 1 .. Len(rs) :
              SetEndLocation(rs, j, loc)[k] = IF k = j THEN Ended(rs[k], loc) ELSE rs[k]
<1> DEFINE n == Len(rs)
           f == [k \in 1 .. n |-> IF k = j THEN Ended(rs[k], loc) ELSE rs[k]]
<1>1. n \in Nat /\ DOMAIN rs = 1 .. n /\ \A k \in 1 .. n : rs[k] \in RegionType
  OBVIOUS
<1>2. \A k \in 1 .. n : Ended(rs[k], loc) \in RegionType
  BY <1>1, EndedFacts
<1>3. SetEndLocation(rs, j, loc) = f
  BY <1>1 DEF SetEndLocation, Ended
<1> HIDE DEF n
<1>4. f \in Seq(RegionType) /\ Len(f) = n
  BY <1>1, <1>2
<1> QED
  BY <1>3, <1>4 DEF n

\* A new region is empty and has no end.
LEMMA NewRegionFacts ==
  ASSUME NEW name \in Names, NEW loc \in Nat
  PROVE  /\ CodeRegion(name, loc) \in RegionType
         /\ CodeRegion(name, loc).start = loc /\ CodeRegion(name, loc).end = 0
         /\ CodeRegion(name, loc).insts = <<>>
<1> DEFINE z == <<>>
<1>1. z \in Seq(Nat)
  OBVIOUS
<1>2. CodeRegion(name, loc) = [name |-> name, start |-> loc, end |-> 0, insts |-> z]
  BY DEF CodeRegion
<1> HIDE DEF z
<1>3. /\ CodeRegion(name, loc) \in RegionType
      /\ CodeRegion(name, loc).start = loc /\ CodeRegion(name, loc).end = 0
      /\ CodeRegion(name, loc).insts = z
  BY <1>1, <1>2 DEF RegionType
<1> QED
  BY <1>3 DEF z

\* The active names stay names of regions.
LEMMA ActiveFacts ==
  ASSUME NEW a \in ActiveType
  PROVE  /\ \A name \in Names, k \in Nat : Activate(a, name, k) \in ActiveType
         /\ \A n : Without(a, n) \in ActiveType
         /\ DOMAIN a \in SUBSET Names
         /\ \A n \in DOMAIN a : a[n] \in Nat
<1>1. PICK N \in SUBSET Names : a \in [N -> Nat]
  BY DEF ActiveType
<1>2. ASSUME NEW name \in Names, NEW k \in Nat PROVE Activate(a, name, k) \in ActiveType
  <2>1. N \cup {name} \in SUBSET Names
    BY <1>1
  <2>2. Activate(a, name, k) \in [N \cup {name} -> Nat]
    BY <1>1 DEF Activate
  <2> QED
    BY <2>1, <2>2 DEF ActiveType
<1>3. ASSUME NEW n PROVE Without(a, n) \in ActiveType
  <2>1. N \ {n} \in SUBSET Names
    BY <1>1
  <2>2. Without(a, n) \in [N \ {n} -> Nat]
    BY <1>1 DEF Without
  <2> QED
    BY <2>1, <2>2 DEF ActiveType
<1> QED
  BY <1>1, <1>2, <1>3

\* One line of the file is reported.
ReportLine(text, cr, loc) ==
  IF text[loc].kind = "inst" THEN AddInstruction(cr, loc)
  ELSE HandleComment(cr, text[loc], loc)

\* A begin directive leads to a parser state.
LEMMA BeginType ==
  ASSUME NEW r \in Seq(RegionType), NEW a \in ActiveType, NEW e \in BOOLEAN,
         NEW name \in Names, NEW loc \in Nat
  PROVE  BeginRegion(Fields(r, a, e), name, loc) \in ParseType
<1> DEFINE x1 == <<CodeRegion(name, loc)>>
           x2 == Append(r, CodeRegion(name, loc))
           y1 == Activate(a, name, 1)
           y2 == Activate(a, name, Len(r) + 1)
           z == TRUE
<1> DEFINE c == CodeRegion(name, loc)
<1>1. c \in RegionType
  BY NewRegionFacts
<1> HIDE DEF c
<1>2. x1 \in Seq(RegionType) /\ x2 \in Seq(RegionType)
  <2>1. x1 = <<c>> /\ x2 = Append(r, c)
    BY DEF c
  <2>2. <<c>> \in Seq(RegionType)
    BY <1>1
  <2>3. Append(r, c) \in Seq(RegionType)
    BY <1>1
  <2> QED
    BY <2>1, <2>2, <2>3
<1>3. y1 \in ActiveType /\ y2 \in ActiveType
  <2>1. 1 \in Nat /\ Len(r) + 1 \in Nat
    OBVIOUS
  <2> QED
    BY <2>1, ActiveFacts
<1>4. z \in BOOLEAN
  OBVIOUS
<1>5. \/ BeginRegion(Fields(r, a, e), name, loc) = Fields(x1, y1, e)
      \/ BeginRegion(Fields(r, a, e), name, loc) = Fields(r, a, z)
      \/ BeginRegion(Fields(r, a, e), name, loc) = Fields(x2, y2, e)
  <2> DEFINE b == BeginRegion(Fields(r, a, e), name, loc)
  <2>1. Began(b, r, a, e, name, loc)
    BY BeginFields
  <2>2. /\ a = <<>> /\ Default(r) => b = Fields(x1, y1, e)
        /\ ~(a = <<>> /\ Default(r)) /\ name \in DOMAIN a => b = Fields(r, a, z)
        /\ ~(a = <<>> /\ Default(r)) /\ name \notin DOMAIN a => b = Fields(x2, y2, e)
    BY <2>1, Zenon DEF Began
  <2> HIDE DEF b, x1, x2, y1, y2, z
  <2>3. b = Fields(x1, y1, e) \/ b = Fields(r, a, z) \/ b = Fields(x2, y2, e)
    BY <2>2
  <2> QED
    BY <2>3 DEF b
<1> HIDE DEF x1, x2, y1, y2, z
<1> QED
  BY <1>2, <1>3, <1>4, <1>5, FieldsType

\* So does an end directive.
LEMMA EndType ==
  ASSUME NEW r \in Seq(RegionType), NEW a \in ActiveType, NEW e \in BOOLEAN,
         NEW name \in Names, NEW loc \in Nat
  PROVE  EndRegion(Fields(r, a, e), name, loc) \in ParseType
<1> DEFINE z == TRUE
           b == EndRegion(Fields(r, a, e), name, loc)
<1>1. \A j : SetEndLocation(r, j, loc) \in Seq(RegionType)
  BY SetEndFacts
<1>2. \A n : Without(a, n) \in ActiveType
  BY ActiveFacts
<1>3. z \in BOOLEAN
  OBVIOUS
<1>4. \/ \E n : b = Fields(SetEndLocation(r, a[n], loc), Without(a, n), e)
      \/ b = Fields(SetEndLocation(r, 1, loc), a, e)
      \/ b = Fields(r, a, z)
  <2> DEFINE End(n) == Fields(SetEndLocation(r, a[n], loc), Without(a, n), e)
  <2>1. WasEnded(b, r, a, e, name, loc)
    BY EndFields
  <2>2. /\ EndsOnly(a, name) => \E n \in DOMAIN a : b = End(n)
        /\ ~EndsOnly(a, name) /\ EndsDefault(r, a, name) =>
             b = Fields(SetEndLocation(r, 1, loc), a, e)
        /\ ~EndsOnly(a, name) /\ ~EndsDefault(r, a, name) =>
             b = IF name \in DOMAIN a THEN End(name) ELSE Fields(r, a, z)
    BY <2>1, Zenon DEF WasEnded
  <2> HIDE DEF b, z, End
  <2>3. (\E n : b = End(n)) \/ b = Fields(SetEndLocation(r, 1, loc), a, e) \/ b = Fields(r, a, z)
    BY <2>2
  <2> QED
    BY <2>3, Zenon DEF End
<1> HIDE DEF b, z
<1> QED
  BY <1>1, <1>2, <1>3, <1>4, FieldsType DEF b

\* So does every line that is reported.
LEMMA ReportType ==
  ASSUME NEW text \in Text, NEW loc \in 1 .. Len(text), NEW cr \in ParseType
  PROVE  ReportLine(text, cr, loc) \in ParseType
<1> DEFINE r == cr.regions
           a == cr.active
           e == cr.FoundErrors
           name == text[loc].name
<1>1. /\ cr = Fields(r, a, e)
      /\ r \in Seq(RegionType) /\ a \in ActiveType /\ e \in BOOLEAN
  BY FieldsFacts
<1>2. name \in Names /\ loc \in Nat
  <2> DEFINE R == [kind : {"inst", "begin", "end", "comment"}, name : STRING, op : STRING]
  <2>2. text \in Seq(R)
    BY DEF Text
  <2> HIDE DEF R
  <2>1. text[loc] \in R
    BY <2>2
  <2>3. text[loc].name \in STRING
    BY <2>1 DEF R
  <2> QED
    <3>1. Len(text) \in Nat
      BY <2>2
    <3>2. name \in Names
      BY <2>3 DEF Names
    <3> QED
      BY <3>1, <3>2
<1> HIDE DEF r, a, e
<1>3. AddInstruction(cr, loc) \in ParseType
  BY <1>1, <1>2, AddFields, AddToFacts, FieldsType
<1>4. BeginRegion(cr, name, loc) \in ParseType
  BY <1>1, <1>2, BeginType
<1>5. EndRegion(cr, name, loc) \in ParseType
  BY <1>1, <1>2, EndType
<1> QED
  BY <1>3, <1>4, <1>5 DEF ReportLine, HandleComment

-----------------------------------------------------------------------------
(* The order of the reports does not matter.                               *)

\* What has been parsed after each report, when the lines are reported in order.
ParseAfter(text, order) ==
  LET after[p \in 0 .. Len(text)] ==
        IF p = 0 THEN NewRegions ELSE ReportLine(text, after[p-1], order[p])
  IN  after

\* The parser is done after the last report.
LEMMA ParseIs ==
  ASSUME NEW text, NEW ahead
  PROVE  ParseCodeRegions(text, ahead)
           = ParseAfter(text, ReportOrder(text, ahead))[Len(text)]
BY DEF ParseCodeRegions, ParseAfter, ReportLine

\* It starts with the default region and reports line after line.
LEMMA ParseSteps ==
  ASSUME NEW text \in Text, NEW order, \A p \in 1 .. Len(text) : order[p] \in 1 .. Len(text)
  PROVE  /\ \A p \in 0 .. Len(text) : ParseAfter(text, order)[p] \in ParseType
         /\ ParseAfter(text, order)[0] = NewRegions
         /\ \A p \in 1 .. Len(text) :
              ParseAfter(text, order)[p]
                = ReportLine(text, ParseAfter(text, order)[p-1], order[p])
<1> DEFINE n == Len(text)
           S == ParseType
           a == NewRegions
           G == [k \in 1 .. n |-> [b \in S |-> ReportLine(text, b, order[k])]]
           f == ParseAfter(text, order)
<1>1. n \in Nat /\ 0 \in Nat
  BY DEF Text
<1>2. a \in S
  <2> DEFINE d == CodeRegion("", 0)
             r == <<d>>
             v == [m \in {} |-> 0]
             e == FALSE
  <2>1. d \in RegionType
    <3>1. "" \in Names /\ 0 \in Nat
      BY DEF Names
    <3> QED
      BY <3>1, NewRegionFacts
  <2>2. r \in Seq(RegionType)
    <3> HIDE DEF d
    <3> QED
      BY <2>1
  <2>3. v \in ActiveType
    <3>1. v \in [{} -> Nat]
      OBVIOUS
    <3>2. {} \in SUBSET Names
      OBVIOUS
    <3> HIDE DEF v
    <3> QED
      BY <3>1, <3>2 DEF ActiveType
  <2>4. a = Fields(r, v, e)
    BY DEF NewRegions, Fields
  <2>5. e \in BOOLEAN
    OBVIOUS
  <2> HIDE DEF r, v, e
  <2> QED
    BY <2>2, <2>3, <2>4, <2>5, FieldsType
<1>3. \A k \in 1 .. n : \A b \in S : ReportLine(text, b, order[k]) \in S
  BY ReportType
<1>4. f = CHOOSE h : h = [k \in 0 .. n |->
                         IF k = 0 THEN a ELSE ReportLine(text, h[k-1], order[k])]
  BY DEF ParseAfter
<1> HIDE DEF n, a, S, f
<1>5. G \in [1 .. n -> [S -> S]]
  BY <1>3
<1>6. \A k \in 1 .. n : \A b \in S : G[k][b] = ReportLine(text, b, order[k])
  OBVIOUS
<1> HIDE DEF G
<1>7. PICK h : IsRecursion(h, 0, n, S, a, G)
  BY <1>1, <1>2, <1>5, RecursionExists
<1>8. h = [k \in 0 .. n |->
                         IF k = 0 THEN a ELSE ReportLine(text, h[k-1], order[k])]
  <2>1. ASSUME NEW k \in 0 .. n
        PROVE  h[k] = IF k = 0 THEN a ELSE ReportLine(text, h[k-1], order[k])
    <3>1. h[k] = IF k = 0 THEN a ELSE G[k][h[k-1]]
      BY <1>7 DEF IsRecursion
    <3>2. k # 0 => k \in 1 .. n /\ k - 1 \in 0 .. n
      BY <1>1
    <3>3. k # 0 => h[k-1] \in S
      BY <1>7, <3>2 DEF IsRecursion
    <3> QED
      BY <1>6, <3>1, <3>2, <3>3
  <2>2. h = [k \in 0 .. n |-> h[k]]
    BY <1>7 DEF IsRecursion
  <2> QED
    BY <2>1, <2>2, Zenon
<1>9. f = [k \in 0 .. n |-> IF k = 0 THEN a ELSE ReportLine(text, f[k-1], order[k])]
  BY <1>4, <1>8, Zenon
<1>10. f[0] = a
  BY <1>1, <1>9
<1>11. ASSUME NEW k \in 1 .. n PROVE f[k] = ReportLine(text, f[k-1], order[k])
  BY <1>1, <1>9
<1>12. ASSUME NEW k \in (0 + 1) .. n, f[k-1] \in S PROVE f[k] \in S
  <2>1. k \in 1 .. n
    BY <1>1
  <2> QED
    BY <1>3, <1>11, <1>12, <2>1
<1>13. \A k \in 0 .. n : f[k] \in S
  BY <1>1, <1>2, <1>10, <1>12, RecursionType
<1> QED
  BY <1>10, <1>11, <1>13 DEF n, f, S, a

\* The bounds of the regions after the first q lines: they lie among those
\* lines, and a name is active as long as its region has no end.
Bounded(r, a, q) ==
  /\ \A k \in 1 .. Len(r) : r[k].start <= q /\ r[k].end <= q
  /\ \A n \in DOMAIN a : a[n] \in 1 .. Len(r) /\ r[a[n]].end = 0
  /\ \A m, n \in DOMAIN a : a[m] = a[n] => m = n

\* An instruction is added before or after the directive on the next line: the
\* regions are the same.
LEMMA WithInstEnded ==
  ASSUME NEW r \in RegionType, NEW q \in Nat, r.end = 0
  PROVE  Ended(WithInst(r, q), q + 1) = WithInst(Ended(r, q + 1), q)
<1> DEFINE x == Append(r.insts, q)
<1>1. IsLocInRange(r, q) <=> IsLocInRange(Ended(r, q + 1), q)
  <2>1. Ended(r, q + 1).end = q + 1 /\ Ended(r, q + 1).start = r.start
    BY EndedFacts
  <2> QED
    BY <2>1 DEF IsLocInRange, RegionType
<1>2. CASE ~IsLocInRange(r, q)
  BY <1>1, <1>2 DEF WithInst
<1>3. CASE IsLocInRange(r, q)
  <2>1. WithInst(r, q) = [r EXCEPT !.insts = x]
    BY <1>3 DEF WithInst
  <2>2. Ended(r, q + 1).insts = r.insts
    BY EndedFacts
  <2>3. WithInst(Ended(r, q + 1), q) = [Ended(r, q + 1) EXCEPT !.insts = x]
    BY <1>1, <1>3, <2>2 DEF WithInst
  <2> HIDE DEF x
  <2>4. [r EXCEPT !.insts = x] = [name |-> r.name, start |-> r.start, end |-> r.end, insts |-> x]
    BY DEF RegionType
  <2>5. Ended(r, q + 1) = [name |-> r.name, start |-> r.start, end |-> q + 1, insts |-> r.insts]
    BY DEF RegionType, Ended
  <2>6. [Ended(r, q + 1) EXCEPT !.insts = x]
          = [name |-> r.name, start |-> r.start, end |-> q + 1, insts |-> x]
    BY <2>5
  <2>7. Ended([name |-> r.name, start |-> r.start, end |-> r.end, insts |-> x], q + 1)
          = [name |-> r.name, start |-> r.start, end |-> q + 1, insts |-> x]
    BY DEF Ended
  <2> QED
    BY <2>1, <2>3, <2>4, <2>6, <2>7
<1> QED
  BY <1>2, <1>3

\* An instruction may be added before or after another region is ended.
LEMMA AddToEnded ==
  ASSUME NEW r \in Seq(RegionType), NEW q \in Nat, NEW j,
         j \in 1 .. Len(r) => r[j].end = 0
  PROVE  SetEndLocation(AddTo(r, q), j, q + 1) = AddTo(SetEndLocation(r, j, q + 1), q)
<1> DEFINE n == Len(r)
           u == AddTo(r, q)
           v == SetEndLocation(r, j, q + 1)
           s == SetEndLocation(u, j, q + 1)
           t == AddTo(v, q)
<1>1. n \in Nat /\ q + 1 \in Nat /\ \A k \in 1 .. n : r[k] \in RegionType
  OBVIOUS
<1>2. u \in Seq(RegionType) /\ Len(u) = n /\ \A k \in 1 .. n : u[k] = WithInst(r[k], q)
  BY AddToFacts
<1>3. /\ v \in Seq(RegionType) /\ Len(v) = n
      /\ \A k \in 1 .. n : v[k] = IF k = j THEN Ended(r[k], q + 1) ELSE r[k]
  BY <1>1, SetEndFacts
<1> HIDE DEF n, u, v
<1>4. /\ s \in Seq(RegionType) /\ Len(s) = n
      /\ \A k \in 1 .. n : s[k] = IF k = j THEN Ended(u[k], q + 1) ELSE u[k]
  BY <1>1, <1>2, SetEndFacts
<1>5. t \in Seq(RegionType) /\ Len(t) = n /\ \A k \in 1 .. n : t[k] = WithInst(v[k], q)
  BY <1>3, AddToFacts
<1> HIDE DEF s, t
<1>6. ASSUME NEW k \in 1 .. n PROVE s[k] = t[k]
  <2>1. CASE k = j
    <3>1. Ended(WithInst(r[k], q), q + 1) = WithInst(Ended(r[k], q + 1), q)
      BY <1>1, <2>1, WithInstEnded DEF n
    <3> QED
      BY <1>2, <1>3, <1>4, <1>5, <2>1, <3>1
  <2>2. CASE k # j
    BY <1>2, <1>3, <1>4, <1>5, <2>2
  <2> QED
    BY <2>1, <2>2
<1>7. s = t
  BY <1>1, <1>4, <1>5, <1>6, SeqEqual
<1> QED
  BY <1>7 DEF s, t, u, v

\* An instruction before a region has begun is not added to it.
LEMMA AddToBegun ==
  ASSUME NEW r \in Seq(RegionType), NEW q \in Nat, NEW name \in Names
  PROVE  /\ AddTo(<<CodeRegion(name, q + 1)>>, q) = <<CodeRegion(name, q + 1)>>
         /\ AddTo(Append(r, CodeRegion(name, q + 1)), q)
              = Append(AddTo(r, q), CodeRegion(name, q + 1))
<1> DEFINE c == CodeRegion(name, q + 1)
<1>1. c \in RegionType /\ c.start = q + 1
  BY NewRegionFacts
<1> HIDE DEF c
<1>2. WithInst(c, q) = c
  BY <1>1 DEF WithInst, IsLocInRange
<1>3. AddTo(<<c>>, q) = <<c>>
  <2> DEFINE s == <<c>>
             t == AddTo(s, q)
  <2>1. s \in Seq(RegionType) /\ Len(s) = 1 /\ s[1] = c
    BY <1>1
  <2> HIDE DEF s
  <2>2. t \in Seq(RegionType) /\ Len(t) = 1 /\ t[1] = WithInst(s[1], q)
    BY <2>1, AddToFacts
  <2> HIDE DEF t
  <2>3. t = s
    BY <1>2, <2>1, <2>2, SeqEqual
  <2> QED
    BY <2>3 DEF s, t
<1>4. AddTo(Append(r, c), q) = Append(AddTo(r, q), c)
  <2> DEFINE s == Append(r, c)
             n == Len(r)
             u == AddTo(r, q)
             t == AddTo(s, q)
             w == Append(u, c)
  <2>1. /\ n \in Nat /\ s \in Seq(RegionType) /\ Len(s) = n + 1 /\ s[n+1] = c
        /\ \A k \in 1 .. n : s[k] = r[k]
    BY <1>1
  <2>2. u \in Seq(RegionType) /\ Len(u) = n /\ \A k \in 1 .. n : u[k] = WithInst(r[k], q)
    BY AddToFacts
  <2> HIDE DEF n, u
  <2>3. /\ w \in Seq(RegionType) /\ Len(w) = n + 1 /\ w[n+1] = c
        /\ \A k \in 1 .. n : w[k] = u[k]
    BY <1>1, <2>1, <2>2
  <2> HIDE DEF s, w
  <2>4. t \in Seq(RegionType) /\ Len(t) = n + 1
        /\ \A k \in 1 .. (n + 1) : t[k] = WithInst(s[k], q)
    BY <2>1, AddToFacts
  <2> HIDE DEF t
  <2>5. ASSUME NEW k \in 1 .. (n + 1) PROVE t[k] = w[k]
    BY <1>2, <2>1, <2>2, <2>3, <2>4
  <2>6. t = w
    BY <2>1, <2>3, <2>4, <2>5, SeqEqual
  <2> QED
    BY <2>6 DEF t, w, s, u
<1> QED
  BY <1>3, <1>4 DEF c

\* A directive leaves the regions bounded, one line further.
LEMMA BeginBounded ==
  ASSUME NEW r \in Seq(RegionType), NEW a \in ActiveType, NEW e \in BOOLEAN, NEW q \in Nat,
         Bounded(r, a, q), NEW name \in Names, NEW b, Began(b, r, a, e, name, q + 1)
  PROVE  Bounded(b.regions, b.active, q + 1)
<1> DEFINE c == CodeRegion(name, q + 1)
           n == Len(r)
<1>1. c \in RegionType /\ c.start = q + 1 /\ c.end = 0
  BY NewRegionFacts
<1>2. n \in Nat /\ \A k \in 1 .. n : r[k] \in RegionType /\ r[k].start \in Nat /\ r[k].end \in Nat
  BY RegionsFacts
<1>3. /\ \A k \in 1 .. n : r[k].start <= q /\ r[k].end <= q
      /\ \A m \in DOMAIN a : a[m] \in 1 .. n /\ r[a[m]].end = 0
      /\ \A m, l \in DOMAIN a : a[m] = a[l] => m = l
  BY DEF Bounded
<1> HIDE DEF c
<1>4. CASE a = <<>> /\ Default(r)
  <2> DEFINE x == <<c>>
             y == Activate(a, name, 1)
  <2>1. b = Fields(x, y, e)
    BY <1>4 DEF Began, c
  <2>2. Len(x) = 1 /\ x[1] = c
    OBVIOUS
  <2>3. DOMAIN a = {}
    <3>1. DOMAIN <<>> = {}
      OBVIOUS
    <3> QED
      BY <1>4, <3>1
  <2>4. DOMAIN y = {name} /\ y[name] = 1
    BY <2>3 DEF Activate
  <2> HIDE DEF x, y
  <2>5. Bounded(x, y, q + 1)
    BY <1>1, <2>2, <2>4 DEF Bounded
  <2> QED
    BY <2>1, <2>5, FieldsAre
<1>5. CASE ~(a = <<>> /\ Default(r)) /\ name \in DOMAIN a
  <2> DEFINE z == TRUE
  <2>1. b = Fields(r, a, z)
    BY <1>5 DEF Began
  <2>2. Bounded(r, a, q + 1)
    BY <1>2, <1>3 DEF Bounded
  <2> HIDE DEF z
  <2> QED
    BY <2>1, <2>2, FieldsAre
<1>6. CASE ~(a = <<>> /\ Default(r)) /\ name \notin DOMAIN a
  <2> DEFINE x == Append(r, c)
             y == Activate(a, name, n + 1)
  <2>1. b = Fields(x, y, e)
    BY <1>6 DEF Began, c
  <2>2. Len(x) = n + 1 /\ x[n+1] = c /\ \A k \in 1 .. n : x[k] = r[k]
    BY <1>1
  <2>3. /\ DOMAIN y = DOMAIN a \cup {name} /\ y[name] = n + 1
        /\ \A m \in DOMAIN a : y[m] = a[m]
    BY <1>6 DEF Activate
  <2> HIDE DEF x, y, n
  <2>4. \A k \in 1 .. Len(x) : x[k].start <= q + 1 /\ x[k].end <= q + 1
    <3> SUFFICES ASSUME NEW k \in 1 .. Len(x) PROVE x[k].start <= q + 1 /\ x[k].end <= q + 1
      OBVIOUS
    <3>1. CASE k = n + 1
      BY <1>1, <2>2, <3>1
    <3>2. CASE k # n + 1
      <4>1. k \in 1 .. n
        BY <1>2, <2>2, <3>2
      <4> QED
        BY <1>2, <1>3, <2>2, <4>1
    <3> QED
      BY <3>1, <3>2
  <2>5. \A m \in DOMAIN y : y[m] \in 1 .. Len(x) /\ x[y[m]].end = 0
    BY <1>1, <1>2, <1>3, <2>2, <2>3
  <2>6. \A m, l \in DOMAIN y : y[m] = y[l] => m = l
    BY <1>2, <1>3, <2>3
  <2>7. Bounded(x, y, q + 1)
    BY <2>4, <2>5, <2>6 DEF Bounded
  <2> QED
    BY <2>1, <2>7, FieldsAre
<1> QED
  BY <1>4, <1>5, <1>6

\* Ending a region keeps the bounds of all of them.
LEMMA SetEndBounded ==
  ASSUME NEW r \in Seq(RegionType), NEW a \in ActiveType, NEW q \in Nat, Bounded(r, a, q), NEW j
  PROVE  /\ \A n \in DOMAIN a : j = a[n] =>
              Bounded(SetEndLocation(r, j, q + 1), Without(a, n), q + 1)
         /\ DOMAIN a = {} => Bounded(SetEndLocation(r, j, q + 1), a, q + 1)
<1> DEFINE v == SetEndLocation(r, j, q + 1)
<1>1. Len(r) \in Nat /\ \A k \in 1 .. Len(r) : /\ r[k] \in RegionType
                                               /\ r[k].start \in Nat /\ r[k].end \in Nat
  BY RegionsFacts
<1>2. /\ v \in Seq(RegionType) /\ Len(v) = Len(r)
      /\ \A k \in 1 .. Len(r) : v[k] = IF k = j THEN Ended(r[k], q + 1) ELSE r[k]
  BY <1>1, SetEndFacts
<1> HIDE DEF v
<1>3. \A k \in 1 .. Len(v) : v[k].start <= q + 1 /\ v[k].end <= q + 1
  <2> SUFFICES ASSUME NEW k \in 1 .. Len(v) PROVE v[k].start <= q + 1 /\ v[k].end <= q + 1
    OBVIOUS
  <2>1. Ended(r[k], q + 1).start = r[k].start /\ Ended(r[k], q + 1).end = q + 1
    <3>1. r[k] \in RegionType /\ q + 1 \in Nat
      BY <1>1, <1>2
    <3> QED
      BY <3>1, EndedFacts
  <2> QED
    <3>1. k \in 1 .. Len(r) /\ r[k].start <= q /\ r[k].end <= q
      BY <1>1, <1>2 DEF Bounded
    <3>2. v[k] = IF k = j THEN Ended(r[k], q + 1) ELSE r[k]
      BY <1>2, <3>1
    <3>3. v[k].start = r[k].start /\ (v[k].end = r[k].end \/ v[k].end = q + 1)
      BY <2>1, <3>2
    <3> HIDE DEF v
    <3> QED
      BY <1>1, <3>1, <3>3
<1>4. ASSUME NEW n \in DOMAIN a, j = a[n] PROVE Bounded(v, Without(a, n), q + 1)
  <2> DEFINE w == Without(a, n)
  <2>1. DOMAIN w = DOMAIN a \ {n} /\ \A m \in DOMAIN w : w[m] = a[m]
    BY DEF Without
  <2> HIDE DEF w
  <2>2. ASSUME NEW m \in DOMAIN w PROVE w[m] \in 1 .. Len(v) /\ v[w[m]].end = 0
    <3>1. w[m] = a[m] /\ m # n /\ m \in DOMAIN a
      BY <2>1
    <3>2. a[m] # j /\ a[m] \in 1 .. Len(r) /\ r[a[m]].end = 0
      BY <1>4, <3>1 DEF Bounded
    <3> QED
      BY <1>2, <3>1, <3>2
  <2>3. \A m, l \in DOMAIN w : w[m] = w[l] => m = l
    BY <2>1 DEF Bounded
  <2> QED
    BY <1>3, <2>2, <2>3 DEF Bounded, w
<1>5. DOMAIN a = {} => Bounded(v, a, q + 1)
  BY <1>3 DEF Bounded
<1> QED
  BY <1>4, <1>5 DEF v

\* So does an end directive.
LEMMA EndBounded ==
  ASSUME NEW r \in Seq(RegionType), NEW a \in ActiveType, NEW e \in BOOLEAN, NEW q \in Nat,
         Bounded(r, a, q), NEW name \in Names, NEW b, WasEnded(b, r, a, e, name, q + 1)
  PROVE  Bounded(b.regions, b.active, q + 1)
<1> DEFINE End(n) == Fields(SetEndLocation(r, a[n], q + 1), Without(a, n), e)
           z == TRUE
<1>1. /\ EndsOnly(a, name) => \E n \in DOMAIN a : b = End(n)
      /\ ~EndsOnly(a, name) /\ EndsDefault(r, a, name) =>
           b = Fields(SetEndLocation(r, 1, q + 1), a, e)
      /\ ~EndsOnly(a, name) /\ ~EndsDefault(r, a, name) =>
           b = IF name \in DOMAIN a THEN End(name) ELSE Fields(r, a, z)
  BY Zenon DEF WasEnded
<1> HIDE DEF z
<1>2. ASSUME NEW n \in DOMAIN a, b = End(n) PROVE Bounded(b.regions, b.active, q + 1)
  BY <1>2, SetEndBounded, FieldsAre
<1> HIDE DEF End
<1>3. CASE EndsOnly(a, name)
  BY <1>1, <1>2, <1>3
<1>4. CASE ~EndsOnly(a, name) /\ EndsDefault(r, a, name)
  <2>1. DOMAIN a = {}
    <3>1. DOMAIN <<>> = {}
      OBVIOUS
    <3> QED
      BY <1>4, <3>1 DEF EndsDefault
  <2> QED
    BY <1>1, <1>4, <2>1, SetEndBounded, FieldsAre
<1>5. CASE ~EndsOnly(a, name) /\ ~EndsDefault(r, a, name)
  <2>1. CASE name \in DOMAIN a
    BY <1>1, <1>2, <1>5, <2>1
  <2>2. CASE name \notin DOMAIN a
    <3>1. b = Fields(r, a, z)
      BY <1>1, <1>5, <2>2
    <3>2. Len(r) \in Nat /\ \A k \in 1 .. Len(r) : /\ r[k] \in RegionType
                                                   /\ r[k].start \in Nat /\ r[k].end \in Nat
      BY RegionsFacts
    <3>3. Bounded(r, a, q + 1)
      BY <3>2 DEF Bounded
    <3> QED
      BY <3>1, <3>3, FieldsAre
  <2> QED
    BY <2>1, <2>2
<1> QED
  BY <1>3, <1>4, <1>5

\* So does an instruction.
LEMMA AddBounded ==
  ASSUME NEW r \in Seq(RegionType), NEW a \in ActiveType, NEW q \in Nat, Bounded(r, a, q),
         NEW loc \in Nat
  PROVE  Bounded(AddTo(r, loc), a, q) /\ Bounded(AddTo(r, loc), a, q + 1)
<1> DEFINE v == AddTo(r, loc)
<1>1. Len(r) \in Nat /\ \A k \in 1 .. Len(r) : /\ r[k] \in RegionType
                                               /\ r[k].start \in Nat /\ r[k].end \in Nat
  BY RegionsFacts
<1>2. /\ v \in Seq(RegionType) /\ Len(v) = Len(r)
      /\ \A k \in 1 .. Len(r) : v[k] = WithInst(r[k], loc)
  BY AddToFacts
<1> HIDE DEF v
<1>3. \A k \in 1 .. Len(r) : v[k].start = r[k].start /\ v[k].end = r[k].end
  <2> SUFFICES ASSUME NEW k \in 1 .. Len(r)
               PROVE  v[k].start = r[k].start /\ v[k].end = r[k].end
    OBVIOUS
  <2>1. r[k] \in RegionType /\ v[k] = WithInst(r[k], loc)
    BY <1>1, <1>2
  <2>2. /\ WithInst(r[k], loc).start = r[k].start
        /\ WithInst(r[k], loc).end = r[k].end
    BY <2>1, WithInstFacts, Zenon
  <2> QED
    BY <2>1, <2>2
<1>4. \A k \in 1 .. Len(v) : /\ v[k].start <= q /\ v[k].end <= q
                            /\ v[k].start <= q + 1 /\ v[k].end <= q + 1
  BY <1>1, <1>2, <1>3 DEF Bounded
<1>5. \A n \in DOMAIN a : a[n] \in 1 .. Len(v) /\ v[a[n]].end = 0
  BY <1>1, <1>2, <1>3 DEF Bounded
<1>6. \A m, n \in DOMAIN a : a[m] = a[n] => m = n
  BY DEF Bounded
<1> QED
  BY <1>4, <1>5, <1>6 DEF Bounded, v

\* So does every line.
LEMMA ReportBounded ==
  ASSUME NEW text \in Text, NEW q \in Nat, q + 1 \in 1 .. Len(text), NEW cr \in ParseType,
         Bounded(cr.regions, cr.active, q)
  PROVE  Bounded(ReportLine(text, cr, q + 1).regions, ReportLine(text, cr, q + 1).active, q + 1)
<1> DEFINE r == cr.regions
           a == cr.active
           e == cr.FoundErrors
           name == text[q+1].name
<1>1. /\ cr = Fields(r, a, e)
      /\ r \in Seq(RegionType) /\ a \in ActiveType /\ e \in BOOLEAN
  BY FieldsFacts
<1>2. name \in Names
  <2> DEFINE R == [kind : {"inst", "begin", "end", "comment"}, name : STRING, op : STRING]
  <2>2. text \in Seq(R)
    BY DEF Text
  <2> HIDE DEF R
  <2>1. text[q+1] \in R
    BY <2>2
  <2>3. text[q+1].name \in STRING
    BY <2>1 DEF R
  <2> QED
    BY <2>3 DEF Names
<1>3. Bounded(r, a, q)
  OBVIOUS
<1> HIDE DEF r, a, e, name
<1>4. Bounded(BeginRegion(cr, name, q + 1).regions, BeginRegion(cr, name, q + 1).active, q + 1)
  <2>1. Began(BeginRegion(cr, name, q + 1), r, a, e, name, q + 1)
    BY <1>1, BeginFields
  <2> QED
    BY <1>1, <1>2, <1>3, <2>1, BeginBounded
<1>5. Bounded(EndRegion(cr, name, q + 1).regions, EndRegion(cr, name, q + 1).active, q + 1)
  <2>1. WasEnded(EndRegion(cr, name, q + 1), r, a, e, name, q + 1)
    BY <1>1, EndFields
  <2> QED
    BY <1>1, <1>2, <1>3, <2>1, EndBounded
<1>6. Bounded(AddInstruction(cr, q + 1).regions, AddInstruction(cr, q + 1).active, q + 1)
  BY <1>1, <1>3, AddFields, FieldsAre, AddBounded
<1>7. Bounded(cr.regions, cr.active, q + 1)
  <2>1. Len(r) \in Nat /\ \A k \in 1 .. Len(r) : /\ r[k] \in RegionType
                                                 /\ r[k].start \in Nat /\ r[k].end \in Nat
    BY <1>1, RegionsFacts
  <2> QED
    BY <1>3, <2>1 DEF Bounded, r, a
<1> QED
  BY <1>4, <1>5, <1>6, <1>7 DEF ReportLine, HandleComment, name

\* An instruction does not make the default region another one.
LEMMA DefaultAdd ==
  ASSUME NEW r \in Seq(RegionType), NEW q \in Nat
  PROVE  Default(AddTo(r, q)) <=> Default(r)
<1> DEFINE v == AddTo(r, q)
<1>1. v \in Seq(RegionType) /\ Len(v) = Len(r) /\ \A k \in 1 .. Len(r) : v[k] = WithInst(r[k], q)
  BY AddToFacts
<1> HIDE DEF v
<1>2. Len(r) = 1 => v[1].start = r[1].start /\ v[1].end = r[1].end
  <2> SUFFICES ASSUME Len(r) = 1 PROVE v[1].start = r[1].start /\ v[1].end = r[1].end
    OBVIOUS
  <2>1. r[1] \in RegionType /\ v[1] = WithInst(r[1], q)
    BY <1>1, RegionsFacts
  <2>2. WithInst(r[1], q).start = r[1].start /\ WithInst(r[1], q).end = r[1].end
    BY <2>1, WithInstFacts, Zenon
  <2> QED
    BY <2>1, <2>2
<1>3. Default(v) <=> Default(r)
  BY <1>1, <1>2 DEF Default
<1> QED
  BY <1>3 DEF v

\* A begin directive and the instruction before it may be reported in either order.
LEMMA BeginSwap ==
  ASSUME NEW r \in Seq(RegionType), NEW a \in ActiveType, NEW e \in BOOLEAN,
         NEW q \in Nat, NEW name \in Names
  PROVE  BeginRegion(Fields(AddTo(r, q), a, e), name, q + 1)
           = AddInstruction(BeginRegion(Fields(r, a, e), name, q + 1), q)
<1> DEFINE c == CodeRegion(name, q + 1)
           v == AddTo(r, q)
           b == BeginRegion(Fields(r, a, e), name, q + 1)
           d == BeginRegion(Fields(v, a, e), name, q + 1)
           z == TRUE
<1>1. Began(b, r, a, e, name, q + 1) /\ Began(d, v, a, e, name, q + 1)
  BY BeginFields
<1>2. (Default(v) <=> Default(r)) /\ Len(v) = Len(r)
  BY DefaultAdd, AddToFacts
<1>3. /\ AddTo(<<c>>, q) = <<c>>
      /\ AddTo(Append(r, c), q) = Append(v, c)
  BY AddToBegun
<1>4. \A x, y, f : AddInstruction(Fields(x, y, f), q) = Fields(AddTo(x, q), y, f)
  BY AddFields
<1>5. /\ a = <<>> /\ Default(r) => b = Fields(<<c>>, Activate(a, name, 1), e)
      /\ ~(a = <<>> /\ Default(r)) /\ name \in DOMAIN a => b = Fields(r, a, z)
      /\ ~(a = <<>> /\ Default(r)) /\ name \notin DOMAIN a =>
           b = Fields(Append(r, c), Activate(a, name, Len(r) + 1), e)
  BY <1>1, Zenon DEF Began
<1>6. /\ a = <<>> /\ Default(v) => d = Fields(<<c>>, Activate(a, name, 1), e)
      /\ ~(a = <<>> /\ Default(v)) /\ name \in DOMAIN a => d = Fields(v, a, z)
      /\ ~(a = <<>> /\ Default(v)) /\ name \notin DOMAIN a =>
           d = Fields(Append(v, c), Activate(a, name, Len(v) + 1), e)
  BY <1>1, Zenon DEF Began
<1>7. AddTo(r, q) = v
  OBVIOUS
<1> HIDE DEF b, d, v, c, z
<1>8. CASE a = <<>> /\ Default(r)
  <2> DEFINE y == Activate(a, name, 1)
             x == <<c>>
  <2>1. b = Fields(x, y, e) /\ d = Fields(x, y, e)
    BY <1>2, <1>5, <1>6, <1>8
  <2>2. AddInstruction(Fields(x, y, e), q) = Fields(AddTo(x, q), y, e)
    BY <1>4, Zenon
  <2>3. d = AddInstruction(b, q)
    BY <2>1, <2>2, <1>3
  <2> QED
    BY <2>3 DEF b, d, v
<1>9. CASE ~(a = <<>> /\ Default(r)) /\ name \in DOMAIN a
  <2>1. b = Fields(r, a, z) /\ d = Fields(v, a, z)
    BY <1>2, <1>5, <1>6, <1>9
  <2>2. AddInstruction(Fields(r, a, z), q) = Fields(AddTo(r, q), a, z)
    BY <1>4, Zenon
  <2>3. d = AddInstruction(b, q)
    BY <2>1, <2>2, <1>7
  <2> QED
    BY <2>3 DEF b, d, v
<1>10. CASE ~(a = <<>> /\ Default(r)) /\ name \notin DOMAIN a
  <2> DEFINE y == Activate(a, name, Len(r) + 1)
             x == Append(r, c)
  <2>1. b = Fields(x, y, e) /\ d = Fields(Append(v, c), y, e)
    BY <1>2, <1>5, <1>6, <1>10
  <2>2. AddInstruction(Fields(x, y, e), q) = Fields(AddTo(x, q), y, e)
    BY <1>4, Zenon
  <2>3. d = AddInstruction(b, q)
    BY <2>1, <2>2, <1>3
  <2> QED
    BY <2>3 DEF b, d, v
<1> QED
  BY <1>8, <1>9, <1>10

\* So may an end directive and the instruction before it.
LEMMA EndSwap ==
  ASSUME NEW r \in Seq(RegionType), NEW a \in ActiveType, NEW e \in BOOLEAN,
         NEW q \in Nat, NEW name \in Names, \A n \in DOMAIN a : r[a[n]].end = 0
  PROVE  EndRegion(Fields(AddTo(r, q), a, e), name, q + 1)
           = AddInstruction(EndRegion(Fields(r, a, e), name, q + 1), q)
<1> DEFINE v == AddTo(r, q)
           b == EndRegion(Fields(r, a, e), name, q + 1)
           d == EndRegion(Fields(v, a, e), name, q + 1)
           z == TRUE
           End(n) == Fields(SetEndLocation(r, a[n], q + 1), Without(a, n), e)
           EndV(n) == Fields(SetEndLocation(v, a[n], q + 1), Without(a, n), e)
           M == Fields(SetEndLocation(r, 1, q + 1), a, e)
           MV == Fields(SetEndLocation(v, 1, q + 1), a, e)
<1>1. WasEnded(b, r, a, e, name, q + 1) /\ WasEnded(d, v, a, e, name, q + 1)
  BY EndFields
<1>2. EndsDefault(v, a, name) <=> EndsDefault(r, a, name)
  BY DefaultAdd DEF EndsDefault
<1>3. \A x, y, f : AddInstruction(Fields(x, y, f), q) = Fields(AddTo(x, q), y, f)
  BY AddFields
<1>4. /\ EndsOnly(a, name) => \E n \in DOMAIN a : b = End(n)
      /\ ~EndsOnly(a, name) /\ EndsDefault(r, a, name) => b = M
      /\ ~EndsOnly(a, name) /\ ~EndsDefault(r, a, name) =>
           b = IF name \in DOMAIN a THEN End(name) ELSE Fields(r, a, z)
  BY <1>1, Zenon DEF WasEnded
<1>5. /\ EndsOnly(a, name) => \E n \in DOMAIN a : d = EndV(n)
      /\ ~EndsOnly(a, name) /\ EndsDefault(v, a, name) => d = MV
      /\ ~EndsOnly(a, name) /\ ~EndsDefault(v, a, name) =>
           d = IF name \in DOMAIN a THEN EndV(name) ELSE Fields(v, a, z)
  BY <1>1, Zenon DEF WasEnded
<1>6. ASSUME NEW n \in DOMAIN a PROVE AddInstruction(End(n), q) = EndV(n)
  <2>1. SetEndLocation(v, a[n], q + 1) = AddTo(SetEndLocation(r, a[n], q + 1), q)
    BY AddToEnded
  <2>2. AddInstruction(End(n), q)
          = Fields(AddTo(SetEndLocation(r, a[n], q + 1), q), Without(a, n), e)
    BY <1>3, Zenon
  <2> QED
    BY <2>1, <2>2
<1>7. EndsDefault(r, a, name) => AddInstruction(M, q) = MV
  <2> SUFFICES ASSUME EndsDefault(r, a, name) PROVE AddInstruction(M, q) = MV
    OBVIOUS
  <2>1. r[1].end = 0
    BY DEF EndsDefault, Default
  <2>2. SetEndLocation(v, 1, q + 1) = AddTo(SetEndLocation(r, 1, q + 1), q)
    BY <2>1, AddToEnded
  <2>3. AddInstruction(M, q) = Fields(AddTo(SetEndLocation(r, 1, q + 1), q), a, e)
    BY <1>3, Zenon
  <2> QED
    BY <2>2, <2>3
<1>8. AddInstruction(Fields(r, a, z), q) = Fields(v, a, z)
  BY <1>3, Zenon
<1> HIDE DEF b, d, z, End, EndV, M, MV, v
<1>9. d = AddInstruction(b, q)
  <2>1. CASE EndsOnly(a, name)
    <3>1. PICK n \in DOMAIN a : b = End(n)
      BY <1>4, <2>1
    <3>2. PICK m \in DOMAIN a : d = EndV(m)
      BY <1>5, <2>1
    <3>3. m = n
      <4>1. PICK l : DOMAIN a = {l}
        BY <2>1 DEF EndsOnly
      <4> QED
        BY <4>1, <3>1, <3>2
    <3> QED
      <4>1. AddInstruction(End(n), q) = EndV(n)
        BY <1>6
      <4> QED
        BY <3>1, <3>2, <3>3, <4>1
  <2>2. CASE ~EndsOnly(a, name) /\ EndsDefault(r, a, name)
    BY <1>2, <1>4, <1>5, <1>7, <2>2
  <2>3. CASE ~EndsOnly(a, name) /\ ~EndsDefault(r, a, name)
    BY <1>2, <1>4, <1>5, <1>6, <1>8, <2>3
  <2> QED
    BY <2>1, <2>2, <2>3
<1> QED
  BY <1>9 DEF b, d, v

\* An instruction is added before or after the directive on the next line: the
\* parser makes the same of the two.
LEMMA SwapLines ==
  ASSUME NEW text \in Text, NEW q \in Nat, q \in 1 .. Len(text), q + 1 \in 1 .. Len(text),
         text[q].kind = "inst", text[q+1].kind # "inst",
         NEW cr \in ParseType, NEW w, Bounded(cr.regions, cr.active, w)
  PROVE  ReportLine(text, ReportLine(text, cr, q), q + 1)
           = ReportLine(text, ReportLine(text, cr, q + 1), q)
<1> DEFINE r == cr.regions
           a == cr.active
           e == cr.FoundErrors
           name == text[q+1].name
           line == text[q+1]
<1>1. /\ cr = Fields(r, a, e)
      /\ r \in Seq(RegionType) /\ a \in ActiveType /\ e \in BOOLEAN
  BY FieldsFacts
<1>2. name \in Names
  <2> DEFINE R == [kind : {"inst", "begin", "end", "comment"}, name : STRING, op : STRING]
  <2>2. text \in Seq(R)
    BY DEF Text
  <2> HIDE DEF R
  <2>1. text[q+1] \in R
    BY <2>2
  <2>3. text[q+1].name \in STRING
    BY <2>1 DEF R
  <2> QED
    BY <2>3 DEF Names
<1>3. \A n \in DOMAIN a : r[a[n]].end = 0
  BY DEF Bounded
<1> HIDE DEF r, a, e, name, line
<1>4. AddInstruction(cr, q) = Fields(AddTo(r, q), a, e)
  BY <1>1, AddFields
<1>5. BeginRegion(AddInstruction(cr, q), name, q + 1)
        = AddInstruction(BeginRegion(cr, name, q + 1), q)
  BY <1>1, <1>2, <1>4, BeginSwap
<1>6. EndRegion(AddInstruction(cr, q), name, q + 1)
        = AddInstruction(EndRegion(cr, name, q + 1), q)
  BY <1>1, <1>2, <1>3, <1>4, EndSwap
<1>7. HandleComment(AddInstruction(cr, q), line, q + 1)
        = AddInstruction(HandleComment(cr, line, q + 1), q)
  BY <1>5, <1>6 DEF HandleComment, line, name
<1>8. /\ ReportLine(text, cr, q) = AddInstruction(cr, q)
      /\ ReportLine(text, cr, q + 1) = HandleComment(cr, line, q + 1)
      /\ \A x : ReportLine(text, x, q + 1) = HandleComment(x, line, q + 1)
      /\ \A x : ReportLine(text, x, q) = AddInstruction(x, q)
  BY DEF ReportLine, line
<1> QED
  BY <1>7, <1>8

\* The p-th instruction is reported after the comment on the next line.
EarlyLine(text, ahead, p) == /\ ahead /\ p \in 1 .. (Len(text) - 1)
                             /\ text[p].kind = "inst" /\ text[p+1].kind # "inst"

\* With a lexer that reads ahead, a directive and the instruction before it swap places.
LEMMA OrderFacts ==
  ASSUME NEW text \in Text, NEW ahead \in BOOLEAN
  PROVE  \A p \in 1 .. Len(text) :
           /\ ReportOrder(text, ahead)[p] \in 1 .. Len(text)
           /\ EarlyLine(text, ahead, p) => ReportOrder(text, ahead)[p] = p + 1
           /\ ~EarlyLine(text, ahead, p) /\ EarlyLine(text, ahead, p - 1)
                => ReportOrder(text, ahead)[p] = p - 1
           /\ ~EarlyLine(text, ahead, p) /\ ~EarlyLine(text, ahead, p - 1)
                => ReportOrder(text, ahead)[p] = p
<1> DEFINE n == Len(text)
<1>1. n \in Nat /\ DOMAIN text = 1 .. n
  BY DEF Text
<1>2. ReportOrder(text, ahead) = [p \in DOMAIN text |->
         IF EarlyLine(text, ahead, p) THEN p + 1
         ELSE IF EarlyLine(text, ahead, p - 1) THEN p - 1 ELSE p]
  BY Zenon DEF ReportOrder, EarlyLine
<1>3. \A p : EarlyLine(text, ahead, p) => p \in 1 .. (n - 1)
  BY DEF EarlyLine
<1> HIDE DEF n
<1> SUFFICES ASSUME NEW p \in 1 .. n
             PROVE  /\ ReportOrder(text, ahead)[p] \in 1 .. n
                    /\ EarlyLine(text, ahead, p) => ReportOrder(text, ahead)[p] = p + 1
                    /\ ~EarlyLine(text, ahead, p) /\ EarlyLine(text, ahead, p - 1)
                         => ReportOrder(text, ahead)[p] = p - 1
                    /\ ~EarlyLine(text, ahead, p) /\ ~EarlyLine(text, ahead, p - 1)
                         => ReportOrder(text, ahead)[p] = p
  BY DEF n
<1>4. ReportOrder(text, ahead)[p] = IF EarlyLine(text, ahead, p) THEN p + 1
                                    ELSE IF EarlyLine(text, ahead, p - 1) THEN p - 1 ELSE p
  BY <1>1, <1>2
<1>5. EarlyLine(text, ahead, p) => p + 1 \in 1 .. n
  BY <1>1, <1>3
<1>6. EarlyLine(text, ahead, p - 1) => p - 1 \in 1 .. n
  BY <1>1, <1>3
<1> QED
  BY <1>4, <1>5, <1>6

\* The parser starts with the default region.
LEMMA NewBounded == Bounded(NewRegions.regions, NewRegions.active, 0)
<1> DEFINE d == CodeRegion("", 0)
           r == <<d>>
           v == [m \in {} |-> 0]
<1>1. d.start = 0 /\ d.end = 0
  <2>1. "" \in Names /\ 0 \in Nat
    BY DEF Names
  <2> QED
    BY <2>1, NewRegionFacts
<1> HIDE DEF d
<1>2. NewRegions.regions = r /\ NewRegions.active = v
  BY DEF NewRegions, d
<1>3. Len(r) = 1 /\ r[1] = d /\ DOMAIN v = {}
  OBVIOUS
<1> HIDE DEF r, v
<1> QED
  BY <1>1, <1>2, <1>3 DEF Bounded

\* Lines reported in order leave the regions bounded after each of them.
LEMMA PlainBounded ==
  ASSUME NEW text \in Text, NEW order, \A p \in 1 .. Len(text) : order[p] = p
  PROVE  \A p \in 0 .. Len(text) :
           Bounded(ParseAfter(text, order)[p].regions, ParseAfter(text, order)[p].active, p)
<1> DEFINE n == Len(text)
           f == ParseAfter(text, order)
           B == {p \in 0 .. n : ~Bounded(f[p].regions, f[p].active, p)}
<1>1. n \in Nat
  BY DEF Text
<1>2. /\ \A p \in 0 .. n : f[p] \in ParseType
      /\ f[0] = NewRegions
      /\ \A p \in 1 .. n : f[p] = ReportLine(text, f[p-1], p)
  BY ParseSteps
<1> HIDE DEF f
<1> SUFFICES ASSUME B # {} PROVE FALSE
  BY DEF f
<1>3. PICK m \in B : \A k \in B : m <= k
  <2>1. B \subseteq Nat
    BY <1>1
  <2> HIDE DEF B
  <2> QED
    BY <2>1, NatMin
<1>4. m \in 0 .. n /\ ~Bounded(f[m].regions, f[m].active, m)
  OBVIOUS
<1>5. m # 0
  BY <1>2, <1>4, NewBounded
<1> DEFINE q == m - 1
<1>6. q \in Nat /\ q \in 0 .. n /\ q < m /\ m = q + 1 /\ m \in 1 .. n
  BY <1>1, <1>4, <1>5
<1> HIDE DEF q
<1>7. Bounded(f[q].regions, f[q].active, q)
  BY <1>1, <1>3, <1>6
<1> HIDE DEF B
<1>8. f[q+1] = ReportLine(text, f[q], q + 1)
  <2>1. m - 1 = q
    BY <1>6
  <2> QED
    BY <1>2, <1>6, <2>1
<1>9. f[q] \in ParseType /\ q + 1 \in 1 .. Len(text)
  BY <1>2, <1>6
<1>10. Bounded(f[q+1].regions, f[q+1].active, q + 1)
  BY <1>6, <1>7, <1>8, <1>9, ReportBounded
<1> QED
  BY <1>4, <1>6, <1>10

\* A lexer that reads ahead makes no difference to the regions.
LEMMA AheadSame ==
  ASSUME NEW text \in Text, NEW ahead \in BOOLEAN, NEW order,
         \A p \in 1 .. Len(text) : order[p] = p
  PROVE  \A p \in 0 .. Len(text) : ~EarlyLine(text, ahead, p) =>
           ParseAfter(text, ReportOrder(text, ahead))[p] = ParseAfter(text, order)[p]
<1> DEFINE n == Len(text)
           E(p) == EarlyLine(text, ahead, p)
           o == ReportOrder(text, ahead)
           f == ParseAfter(text, order)
           g == ParseAfter(text, o)
           B == {p \in 0 .. n : ~E(p) /\ g[p] # f[p]}
<1>1. n \in Nat
  BY DEF Text
<1>2. /\ \A p \in 0 .. n : f[p] \in ParseType
      /\ f[0] = NewRegions
      /\ \A p \in 1 .. n : f[p] = ReportLine(text, f[p-1], p)
  BY ParseSteps
<1>3. \A p \in 1 .. n : /\ o[p] \in 1 .. n
                        /\ E(p) => o[p] = p + 1
                        /\ ~E(p) /\ E(p - 1) => o[p] = p - 1
                        /\ ~E(p) /\ ~E(p - 1) => o[p] = p
  BY OrderFacts
<1> HIDE DEF o
<1>4. /\ g[0] = NewRegions
      /\ \A p \in 1 .. n : g[p] = ReportLine(text, g[p-1], o[p])
  BY <1>3, ParseSteps
<1>5. \A p \in 0 .. n : Bounded(f[p].regions, f[p].active, p)
  BY PlainBounded
<1>6. \A p : E(p) => p \in 1 .. (n - 1) /\ text[p].kind = "inst" /\ text[p+1].kind # "inst"
  BY DEF EarlyLine
<1> HIDE DEF f, g
<1> SUFFICES ASSUME B # {} PROVE FALSE
  BY DEF f, g, o
<1> HIDE DEF E, n
<1>7. PICK m \in B : \A k \in B : m <= k
  <2>1. B \subseteq Nat
    BY <1>1
  <2> HIDE DEF B
  <2> QED
    BY <2>1, NatMin
<1>8. m \in 0 .. n /\ ~E(m) /\ g[m] # f[m] /\ m # 0
  BY <1>2, <1>4
<1>9. \A k \in 0 .. n : k < m /\ ~E(k) => g[k] = f[k]
  BY <1>1, <1>7, <1>8
<1> HIDE DEF B
<1>10. m \in 1 .. n /\ m - 1 \in 0 .. n /\ m - 1 < m
  BY <1>1, <1>8
<1>11. CASE ~E(m - 1)
  <2>1. g[m-1] = f[m-1] /\ o[m] = m
    BY <1>3, <1>8, <1>9, <1>10, <1>11
  <2>2. g[m] = ReportLine(text, g[m-1], o[m]) /\ f[m] = ReportLine(text, f[m-1], m)
    BY <1>2, <1>4, <1>10
  <2> QED
    BY <1>8, <2>1, <2>2
<1>12. CASE E(m - 1)
  <2> DEFINE q == m - 1
             k == m - 2
  <2>1. /\ q \in 1 .. (n - 1) /\ q \in 1 .. n /\ q \in Nat /\ m = q + 1 /\ q + 1 \in 1 .. n
        /\ q - 1 = k /\ k \in 0 .. n /\ k < m /\ m - 1 = q
    BY <1>1, <1>6, <1>10, <1>12
  <2>2. text[q].kind = "inst" /\ text[q+1].kind # "inst"
    BY <1>6, <1>12
  <2> HIDE DEF q, k
  <2>3. ~E(k)
    <3>1. k + 1 = q
      BY <2>1
    <3> QED
      BY <1>6, <2>2, <3>1
  <2>4. g[k] = f[k]
    BY <1>9, <2>1, <2>3
  <2>5. o[q] = q + 1 /\ o[q+1] = q
    BY <1>3, <1>8, <1>12, <2>1
  <2>6. g[q] = ReportLine(text, g[k], q + 1) /\ g[q+1] = ReportLine(text, g[q], q)
    <3>1. q + 1 - 1 = q
      BY <2>1
    <3> QED
      BY <1>4, <2>1, <2>5, <3>1
  <2>7. f[q] = ReportLine(text, f[k], q) /\ f[q+1] = ReportLine(text, f[q], q + 1)
    <3>1. q + 1 - 1 = q
      BY <2>1
    <3> QED
      BY <1>2, <2>1, <3>1
  <2>8. f[k] \in ParseType /\ Bounded(f[k].regions, f[k].active, k)
    BY <1>2, <1>5, <2>1
  <2>9. ReportLine(text, ReportLine(text, f[k], q), q + 1)
          = ReportLine(text, ReportLine(text, f[k], q + 1), q)
    BY <2>1, <2>2, <2>8, SwapLines DEF n
  <2> QED
    BY <1>8, <2>1, <2>4, <2>6, <2>7, <2>9
<1> QED
  BY <1>11, <1>12

\* The regions of a file, whether or not the lexer reads ahead.
LEMMA ParseSame ==
  ASSUME NEW text \in Text, NEW ahead \in BOOLEAN
  PROVE  ParseCodeRegions(text, ahead) = ParseAfter(text, [p \in 1 .. Len(text) |-> p])[Len(text)]
<1> DEFINE n == Len(text)
           o == [p \in 1 .. n |-> p]
<1>1. n \in Nat /\ n \in 0 .. n
  BY DEF Text
<1>2. ~EarlyLine(text, ahead, n)
  BY <1>1 DEF EarlyLine
<1>3. \A p \in 1 .. n : o[p] = p
  OBVIOUS
<1> HIDE DEF n, o
<1>4. ParseAfter(text, ReportOrder(text, ahead))[n] = ParseAfter(text, o)[n]
  BY <1>1, <1>2, <1>3, AheadSame DEF n
<1> QED
  BY <1>4, ParseIs DEF n, o

-----------------------------------------------------------------------------
(* The lines of the regions.                                               *)

\* Line p is an instruction between the directives of region r.
IsLine(text, r, p) == /\ text[p].kind = "inst"
                      /\ p > r.start
                      /\ r.end # 0 => p < r.end

\* The lines of a region, line after line.
LEMMA LinesSteps ==
  ASSUME NEW text \in Text, NEW r
  PROVE  /\ \A p \in 0 .. Len(text) : LinesUpTo(text, r)[p] \in Seq(Nat)
         /\ LinesUpTo(text, r)[0] = <<>>
         /\ \A p \in 1 .. Len(text) :
              LinesUpTo(text, r)[p] = IF IsLine(text, r, p)
                                      THEN Append(LinesUpTo(text, r)[p-1], p)
                                      ELSE LinesUpTo(text, r)[p-1]
<1> DEFINE n == Len(text)
           S == Seq(Nat)
           a == <<>>
           Step(b, k) == IF IsLine(text, r, k) THEN Append(b, k) ELSE b
           G == [k \in 1 .. n |-> [b \in S |-> Step(b, k)]]
           f == LinesUpTo(text, r)
<1>1. n \in Nat /\ 0 \in Nat
  BY DEF Text
<1>2. a \in S
  OBVIOUS
<1>3. \A k \in 1 .. n : \A b \in S : Step(b, k) \in S
  OBVIOUS
<1>4. f = CHOOSE h : h = [k \in 0 .. n |-> IF k = 0 THEN a ELSE Step(h[k-1], k)]
  BY DEF LinesUpTo, IsLine
<1> HIDE DEF n, a, S, f, Step
<1>5. G \in [1 .. n -> [S -> S]]
  BY <1>3
<1>6. \A k \in 1 .. n : \A b \in S : G[k][b] = Step(b, k)
  OBVIOUS
<1> HIDE DEF G
<1>7. PICK h : IsRecursion(h, 0, n, S, a, G)
  BY <1>1, <1>2, <1>5, RecursionExists
<1>8. h = [k \in 0 .. n |-> IF k = 0 THEN a ELSE Step(h[k-1], k)]
  <2>1. ASSUME NEW k \in 0 .. n
        PROVE  h[k] = IF k = 0 THEN a ELSE Step(h[k-1], k)
    <3>1. h[k] = IF k = 0 THEN a ELSE G[k][h[k-1]]
      BY <1>7 DEF IsRecursion
    <3>2. k # 0 => k \in 1 .. n /\ k - 1 \in 0 .. n
      BY <1>1
    <3>3. k # 0 => h[k-1] \in S
      BY <1>7, <3>2 DEF IsRecursion
    <3> QED
      BY <1>6, <3>1, <3>2, <3>3
  <2>2. h = [k \in 0 .. n |-> h[k]]
    BY <1>7 DEF IsRecursion
  <2> QED
    BY <2>1, <2>2, Zenon
<1>9. f = [k \in 0 .. n |-> IF k = 0 THEN a ELSE Step(f[k-1], k)]
  BY <1>4, <1>8, Zenon
<1>10. f[0] = a
  BY <1>1, <1>9
<1>11. ASSUME NEW k \in 1 .. n PROVE f[k] = Step(f[k-1], k)
  BY <1>1, <1>9
<1>12. ASSUME NEW k \in (0 + 1) .. n, f[k-1] \in S PROVE f[k] \in S
  <2>1. k \in 1 .. n
    BY <1>1
  <2> QED
    BY <1>3, <1>11, <1>12, <2>1
<1>13. \A k \in 0 .. n : f[k] \in S
  BY <1>1, <1>2, <1>10, <1>12, RecursionType
<1> QED
  BY <1>10, <1>11, <1>13 DEF n, f, S, a, Step

\* Regions that agree about the first m lines have the same instructions there.
LEMMA LinesSame ==
  ASSUME NEW text \in Text, NEW r, NEW s, NEW m \in 0 .. Len(text),
         \A p \in 1 .. m : IsLine(text, r, p) <=> IsLine(text, s, p)
  PROVE  LinesUpTo(text, r)[m] = LinesUpTo(text, s)[m]
<1> DEFINE f == LinesUpTo(text, r)
           g == LinesUpTo(text, s)
           G == {k \in 0 .. m : f[k] = g[k]}
<1>1. m \in Nat /\ Len(text) \in Nat
  BY DEF Text
<1>2. f[0] = g[0]
  BY LinesSteps
<1>3. ASSUME NEW k \in 1 .. m, f[k-1] = g[k-1] PROVE f[k] = g[k]
  <2>1. k \in 1 .. Len(text)
    BY <1>1
  <2>2. f[k] = IF IsLine(text, r, k) THEN Append(f[k-1], k) ELSE f[k-1]
    BY <2>1, LinesSteps
  <2>3. g[k] = IF IsLine(text, s, k) THEN Append(g[k-1], k) ELSE g[k-1]
    BY <2>1, LinesSteps
  <2> QED
    BY <1>3, <2>2, <2>3
<1> HIDE DEF f, g
<1>4. 0 \in G
  BY <1>1, <1>2
<1>5. \A k \in 1 .. m : k - 1 \in G => k \in G
  BY <1>1, <1>3
<1>6. m \in G
  <2> HIDE DEF G
  <2> QED
    BY <1>1, <1>4, <1>5, StepByStep
<1> QED
  BY <1>6 DEF f, g

\* A region that starts after line m has none of the first m lines.
LEMMA LinesNone ==
  ASSUME NEW text \in Text, NEW r, NEW m \in 0 .. Len(text), r.start \in Nat, m <= r.start
  PROVE  LinesUpTo(text, r)[m] = <<>>
<1> DEFINE f == LinesUpTo(text, r)
           G == {k \in 0 .. m : f[k] = <<>>}
<1>1. m \in Nat /\ Len(text) \in Nat
  BY DEF Text
<1>2. f[0] = <<>>
  BY LinesSteps
<1>3. ASSUME NEW k \in 1 .. m, f[k-1] = <<>> PROVE f[k] = <<>>
  <2>1. k \in 1 .. Len(text) /\ ~(k > r.start)
    BY <1>1
  <2>2. f[k] = IF IsLine(text, r, k) THEN Append(f[k-1], k) ELSE f[k-1]
    BY <2>1, LinesSteps
  <2>3. ~IsLine(text, r, k)
    BY <2>1 DEF IsLine
  <2> QED
    BY <1>3, <2>2, <2>3
<1> HIDE DEF f
<1>4. 0 \in G
  BY <1>1, <1>2
<1>5. \A k \in 1 .. m : k - 1 \in G => k \in G
  BY <1>1, <1>3
<1>6. m \in G
  <2> HIDE DEF G
  <2> QED
    BY <1>1, <1>4, <1>5, StepByStep
<1> QED
  BY <1>6 DEF f

\* Every region has its instructions among the first q lines.
HasLines(text, r, q) == \A k \in 1 .. Len(r) : r[k].insts = LinesUpTo(text, r[k])[q]

\* A line that is no instruction adds nothing to a region; nor does its end, if
\* it has none yet.
LEMMA LinesDirective ==
  ASSUME NEW text \in Text, NEW q \in Nat, q + 1 \in 1 .. Len(text), text[q+1].kind # "inst",
         NEW r \in RegionType, r.insts = LinesUpTo(text, r)[q]
  PROVE  /\ r.insts = LinesUpTo(text, r)[q+1]
         /\ r.end = 0 => Ended(r, q + 1).insts = LinesUpTo(text, Ended(r, q + 1))[q+1]
<1> DEFINE s == Ended(r, q + 1)
<1>1. q \in 0 .. Len(text) /\ q + 1 \in Nat /\ q + 1 - 1 = q /\ Len(text) \in Nat
  BY DEF Text
<1>2. ASSUME NEW x PROVE LinesUpTo(text, x)[q+1] = LinesUpTo(text, x)[q]
  <2>1. ~IsLine(text, x, q + 1)
    BY DEF IsLine
  <2>2. LinesUpTo(text, x)[q+1] = IF IsLine(text, x, q + 1)
                                  THEN Append(LinesUpTo(text, x)[q + 1 - 1], q + 1)
                                  ELSE LinesUpTo(text, x)[q + 1 - 1]
    BY LinesSteps
  <2> QED
    BY <1>1, <2>1, <2>2
<1>3. s.start = r.start /\ s.end = q + 1 /\ s.insts = r.insts
  BY <1>1, EndedFacts, Zenon
<1> HIDE DEF s
<1>4. ASSUME r.end = 0 PROVE LinesUpTo(text, r)[q] = LinesUpTo(text, s)[q]
  <2>1. \A p \in 1 .. q : IsLine(text, r, p) <=> IsLine(text, s, p)
    BY <1>1, <1>3, <1>4 DEF IsLine
  <2> QED
    BY <1>1, <2>1, LinesSame
<1> QED
  BY <1>2, <1>3, <1>4 DEF s

\* An instruction joins exactly the regions it lies in.
LEMMA LinesInst ==
  ASSUME NEW text \in Text, NEW q \in Nat, q + 1 \in 1 .. Len(text), text[q+1].kind = "inst",
         NEW r \in RegionType, r.insts = LinesUpTo(text, r)[q], r.start <= q, r.end <= q
  PROVE  WithInst(r, q + 1).insts = LinesUpTo(text, WithInst(r, q + 1))[q+1]
<1> DEFINE s == WithInst(r, q + 1)
<1>1. q \in 0 .. Len(text) /\ q + 1 \in Nat /\ q + 1 - 1 = q /\ Len(text) \in Nat
  BY DEF Text
<1>2. /\ s.start = r.start /\ s.end = r.end
      /\ s.insts = IF IsLocInRange(r, q + 1) THEN Append(r.insts, q + 1) ELSE r.insts
  BY <1>1, WithInstFacts, Zenon
<1> HIDE DEF s
<1>3. r.start \in Nat /\ r.end \in Nat
  BY DEF RegionType
<1>4. IsLocInRange(r, q + 1) <=> IsLine(text, s, q + 1)
  BY <1>1, <1>2, <1>3 DEF IsLocInRange, IsLine
<1>5. LinesUpTo(text, r)[q] = LinesUpTo(text, s)[q]
  <2>1. \A p \in 1 .. q : IsLine(text, r, p) <=> IsLine(text, s, p)
    BY <1>2 DEF IsLine
  <2> QED
    BY <1>1, <2>1, LinesSame
<1>6. LinesUpTo(text, s)[q+1] = IF IsLine(text, s, q + 1)
                                THEN Append(LinesUpTo(text, s)[q + 1 - 1], q + 1)
                                ELSE LinesUpTo(text, s)[q + 1 - 1]
  BY LinesSteps
<1>7. s.insts = LinesUpTo(text, s)[q+1]
  BY <1>1, <1>2, <1>4, <1>5, <1>6
<1> QED
  BY <1>7 DEF s

\* A directive adds no line to the regions that exist.
LEMMA SameHas ==
  ASSUME NEW text \in Text, NEW q \in Nat, q + 1 \in 1 .. Len(text), text[q+1].kind # "inst",
         NEW r \in Seq(RegionType), HasLines(text, r, q)
  PROVE  HasLines(text, r, q + 1)
<1> SUFFICES ASSUME NEW k \in 1 .. Len(r) PROVE r[k].insts = LinesUpTo(text, r[k])[q+1]
  BY DEF HasLines
<1>1. r[k] \in RegionType
  BY RegionsFacts
<1>2. r[k].insts = LinesUpTo(text, r[k])[q]
  BY DEF HasLines
<1> QED
  BY <1>1, <1>2, LinesDirective, Zenon

\* A begin directive adds a region without lines.
LEMMA BeginHas ==
  ASSUME NEW text \in Text, NEW q \in Nat, q + 1 \in 1 .. Len(text), text[q+1].kind # "inst",
         NEW r \in Seq(RegionType), NEW a \in ActiveType, NEW e \in BOOLEAN,
         HasLines(text, r, q), NEW name \in Names, NEW b, Began(b, r, a, e, name, q + 1)
  PROVE  HasLines(text, b.regions, q + 1)
<1> DEFINE c == CodeRegion(name, q + 1)
           n == Len(r)
           z == TRUE
<1>1. c \in RegionType /\ c.start = q + 1 /\ c.insts = <<>>
  BY NewRegionFacts
<1>2. c.insts = LinesUpTo(text, c)[q+1]
  <2>1. q + 1 \in 0 .. Len(text) /\ q + 1 \in Nat
    BY DEF Text
  <2> HIDE DEF c
  <2>2. c.start \in Nat /\ q + 1 <= c.start
    BY <1>1, <2>1
  <2>3. LinesUpTo(text, c)[q+1] = <<>>
    BY <2>1, <2>2, LinesNone, Zenon
  <2> QED
    BY <1>1, <2>3
<1>3. HasLines(text, r, q + 1)
  BY SameHas
<1>4. /\ a = <<>> /\ Default(r) => b = Fields(<<c>>, Activate(a, name, 1), e)
      /\ ~(a = <<>> /\ Default(r)) /\ name \in DOMAIN a => b = Fields(r, a, z)
      /\ ~(a = <<>> /\ Default(r)) /\ name \notin DOMAIN a =>
           b = Fields(Append(r, c), Activate(a, name, Len(r) + 1), e)
  BY Zenon DEF Began
<1> HIDE DEF c, z
<1>5. b.regions = <<c>> \/ b.regions = r \/ b.regions = Append(r, c)
  <2> DEFINE y1 == Activate(a, name, 1)
             y2 == Activate(a, name, Len(r) + 1)
             x1 == <<c>>
             x2 == Append(r, c)
  <2>1. b = Fields(x1, y1, e) \/ b = Fields(r, a, z) \/ b = Fields(x2, y2, e)
    BY <1>4
  <2> HIDE DEF x1, x2, y1, y2
  <2>2. b.regions = x1 \/ b.regions = r \/ b.regions = x2
    BY <2>1, FieldsAre
  <2> QED
    BY <2>2 DEF x1, x2
<1>6. HasLines(text, <<c>>, q + 1)
  <2> DEFINE x == <<c>>
  <2>1. Len(x) = 1 /\ x[1] = c
    OBVIOUS
  <2> HIDE DEF x
  <2>2. HasLines(text, x, q + 1)
    BY <1>2, <2>1 DEF HasLines
  <2> QED
    BY <2>2 DEF x
<1>7. HasLines(text, Append(r, c), q + 1)
  <2> DEFINE x == Append(r, c)
  <2>1. Len(x) = n + 1 /\ x[n+1] = c /\ (\A k \in 1 .. n : x[k] = r[k]) /\ n \in Nat
    BY <1>1
  <2> HIDE DEF x, n
  <2>2. \A k \in 1 .. n : r[k].insts = LinesUpTo(text, r[k])[q+1]
    BY <1>3 DEF HasLines, n
  <2>3. ASSUME NEW k \in 1 .. Len(x) PROVE x[k].insts = LinesUpTo(text, x[k])[q+1]
    <3>1. CASE k = n + 1
      BY <1>2, <2>1, <3>1
    <3>2. CASE k # n + 1
      <4>1. k \in 1 .. n
        BY <2>1, <3>2
      <4> QED
        BY <2>1, <2>2, <4>1
    <3> QED
      BY <3>1, <3>2
  <2>4. HasLines(text, x, q + 1)
    BY <2>3 DEF HasLines
  <2> QED
    BY <2>4 DEF x
<1> QED
  BY <1>3, <1>5, <1>6, <1>7

\* A region that ends at a line has the lines before it.
LEMMA SetEndHas ==
  ASSUME NEW text \in Text, NEW q \in Nat, q + 1 \in 1 .. Len(text), text[q+1].kind # "inst",
         NEW r \in Seq(RegionType), HasLines(text, r, q), NEW j, r[j].end = 0
  PROVE  HasLines(text, SetEndLocation(r, j, q + 1), q + 1)
<1> DEFINE v == SetEndLocation(r, j, q + 1)
<1>1. /\ v \in Seq(RegionType) /\ Len(v) = Len(r)
      /\ \A k \in 1 .. Len(r) : v[k] = IF k = j THEN Ended(r[k], q + 1) ELSE r[k]
  BY SetEndFacts
<1> HIDE DEF v
<1>2. ASSUME NEW k \in 1 .. Len(v) PROVE v[k].insts = LinesUpTo(text, v[k])[q+1]
  <2>1. k \in 1 .. Len(r) /\ r[k] \in RegionType
    BY <1>1, RegionsFacts
  <2>2. r[k].insts = LinesUpTo(text, r[k])[q]
    BY <2>1 DEF HasLines
  <2>3. /\ r[k].insts = LinesUpTo(text, r[k])[q+1]
        /\ r[k].end = 0 => Ended(r[k], q + 1).insts = LinesUpTo(text, Ended(r[k], q + 1))[q+1]
    BY <2>1, <2>2, LinesDirective, Zenon
  <2>4. CASE k = j
    BY <1>1, <2>1, <2>3, <2>4
  <2>5. CASE k # j
    BY <1>1, <2>1, <2>3, <2>5
  <2> QED
    BY <2>4, <2>5
<1> QED
  BY <1>2 DEF HasLines, v

\* So an end directive leaves the regions with their lines.
LEMMA EndHas ==
  ASSUME NEW text \in Text, NEW q \in Nat, q + 1 \in 1 .. Len(text), text[q+1].kind # "inst",
         NEW r \in Seq(RegionType), NEW a \in ActiveType, NEW e \in BOOLEAN,
         Bounded(r, a, q), HasLines(text, r, q), NEW name \in Names,
         NEW b, WasEnded(b, r, a, e, name, q + 1)
  PROVE  HasLines(text, b.regions, q + 1)
<1> DEFINE End(n) == Fields(SetEndLocation(r, a[n], q + 1), Without(a, n), e)
           z == TRUE
<1>1. /\ EndsOnly(a, name) => \E n \in DOMAIN a : b = End(n)
      /\ ~EndsOnly(a, name) /\ EndsDefault(r, a, name) =>
           b = Fields(SetEndLocation(r, 1, q + 1), a, e)
      /\ ~EndsOnly(a, name) /\ ~EndsDefault(r, a, name) =>
           b = IF name \in DOMAIN a THEN End(name) ELSE Fields(r, a, z)
  BY Zenon DEF WasEnded
<1> HIDE DEF z
<1>2. ASSUME NEW n \in DOMAIN a, b = End(n) PROVE HasLines(text, b.regions, q + 1)
  <2>1. r[a[n]].end = 0
    BY DEF Bounded
  <2>2. b.regions = SetEndLocation(r, a[n], q + 1)
    BY <1>2, FieldsAre
  <2> QED
    BY <2>1, <2>2, SetEndHas
<1> HIDE DEF End
<1>3. CASE EndsOnly(a, name)
  BY <1>1, <1>2, <1>3
<1>4. CASE ~EndsOnly(a, name) /\ EndsDefault(r, a, name)
  <2>1. r[1].end = 0
    BY <1>4 DEF EndsDefault, Default
  <2>2. b.regions = SetEndLocation(r, 1, q + 1)
    BY <1>1, <1>4, FieldsAre
  <2> QED
    BY <2>1, <2>2, SetEndHas
<1>5. CASE ~EndsOnly(a, name) /\ ~EndsDefault(r, a, name)
  <2>1. CASE name \in DOMAIN a
    BY <1>1, <1>2, <1>5, <2>1
  <2>2. CASE name \notin DOMAIN a
    <3>1. b.regions = r
      BY <1>1, <1>5, <2>2, FieldsAre
    <3> QED
      BY <3>1, SameHas
  <2> QED
    BY <2>1, <2>2
<1> QED
  BY <1>3, <1>4, <1>5

\* An instruction is a line of the regions that have begun and not ended.
LEMMA AddHas ==
  ASSUME NEW text \in Text, NEW q \in Nat, q + 1 \in 1 .. Len(text), text[q+1].kind = "inst",
         NEW r \in Seq(RegionType), NEW a, Bounded(r, a, q), HasLines(text, r, q)
  PROVE  HasLines(text, AddTo(r, q + 1), q + 1)
<1> DEFINE v == AddTo(r, q + 1)
<1>1. v \in Seq(RegionType) /\ Len(v) = Len(r)
      /\ \A k \in 1 .. Len(r) : v[k] = WithInst(r[k], q + 1)
  BY AddToFacts
<1> HIDE DEF v
<1>2. ASSUME NEW k \in 1 .. Len(v) PROVE v[k].insts = LinesUpTo(text, v[k])[q+1]
  <2>1. k \in 1 .. Len(r) /\ r[k] \in RegionType
    BY <1>1, RegionsFacts
  <2>2. r[k].insts = LinesUpTo(text, r[k])[q] /\ r[k].start <= q /\ r[k].end <= q
    BY <2>1 DEF HasLines, Bounded
  <2>3. WithInst(r[k], q + 1).insts = LinesUpTo(text, WithInst(r[k], q + 1))[q+1]
    BY <2>1, <2>2, LinesInst, Zenon
  <2> QED
    BY <1>1, <2>1, <2>3
<1> QED
  BY <1>2 DEF HasLines, v

\* Whatever the line, the regions have their lines after it.
LEMMA ReportHas ==
  ASSUME NEW text \in Text, NEW q \in Nat, q + 1 \in 1 .. Len(text), NEW cr \in ParseType,
         Bounded(cr.regions, cr.active, q), HasLines(text, cr.regions, q)
  PROVE  HasLines(text, ReportLine(text, cr, q + 1).regions, q + 1)
<1> DEFINE r == cr.regions
           a == cr.active
           e == cr.FoundErrors
           name == text[q+1].name
           line == text[q+1]
<1>1. /\ cr = Fields(r, a, e)
      /\ r \in Seq(RegionType) /\ a \in ActiveType /\ e \in BOOLEAN
  BY FieldsFacts
<1>2. name \in Names
  <2> DEFINE R == [kind : {"inst", "begin", "end", "comment"}, name : STRING, op : STRING]
  <2>2. text \in Seq(R)
    BY DEF Text
  <2> HIDE DEF R
  <2>1. text[q+1] \in R
    BY <2>2
  <2>3. text[q+1].name \in STRING
    BY <2>1 DEF R
  <2> QED
    BY <2>3 DEF Names
<1>3. Bounded(r, a, q) /\ HasLines(text, r, q)
  OBVIOUS
<1> HIDE DEF r, a, e, name, line
<1>4. CASE text[q+1].kind = "inst"
  <2>1. ReportLine(text, cr, q + 1).regions = AddTo(r, q + 1)
    BY <1>1, <1>4, AddFields, FieldsAre DEF ReportLine
  <2>2. HasLines(text, AddTo(r, q + 1), q + 1)
    BY <1>1, <1>3, <1>4, AddHas
  <2> QED
    BY <2>1, <2>2
<1>5. CASE text[q+1].kind # "inst"
  <2>1. HasLines(text, BeginRegion(cr, name, q + 1).regions, q + 1)
    <3>1. Began(BeginRegion(cr, name, q + 1), r, a, e, name, q + 1)
      BY <1>1, BeginFields
    <3> QED
      BY <1>1, <1>2, <1>3, <1>5, <3>1, BeginHas
  <2>2. HasLines(text, EndRegion(cr, name, q + 1).regions, q + 1)
    <3>1. WasEnded(EndRegion(cr, name, q + 1), r, a, e, name, q + 1)
      BY <1>1, EndFields
    <3> QED
      BY <1>1, <1>2, <1>3, <1>5, <3>1, EndHas
  <2>3. HasLines(text, cr.regions, q + 1)
    BY <1>1, <1>3, <1>5, SameHas DEF r
  <2>4. ReportLine(text, cr, q + 1) = HandleComment(cr, line, q + 1)
    BY <1>5 DEF ReportLine, line
  <2>5. \/ HandleComment(cr, line, q + 1) = EndRegion(cr, name, q + 1)
        \/ HandleComment(cr, line, q + 1) = BeginRegion(cr, name, q + 1)
        \/ HandleComment(cr, line, q + 1) = cr
    BY DEF HandleComment, line, name
  <2> QED
    BY <2>1, <2>2, <2>3, <2>4, <2>5
<1> QED
  BY <1>4, <1>5

\* Every region has its lines when the lines are reported in order.
LEMMA PlainHas ==
  ASSUME NEW text \in Text, NEW order, \A p \in 1 .. Len(text) : order[p] = p
  PROVE  HasLines(text, ParseAfter(text, order)[Len(text)].regions, Len(text))
<1> DEFINE n == Len(text)
           f == ParseAfter(text, order)
           G == {p \in 0 .. n : HasLines(text, f[p].regions, p)}
<1>1. n \in Nat
  BY DEF Text
<1>2. /\ \A p \in 0 .. n : f[p] \in ParseType
      /\ f[0] = NewRegions
      /\ \A p \in 1 .. n : f[p] = ReportLine(text, f[p-1], p)
  BY ParseSteps
<1>3. \A p \in 0 .. n : Bounded(f[p].regions, f[p].active, p)
  BY PlainBounded
<1> HIDE DEF f
<1>4. HasLines(text, f[0].regions, 0)
  <2> DEFINE d == CodeRegion("", 0)
             r == <<d>>
  <2>1. d.insts = <<>> /\ d \in RegionType
    <3>1. "" \in Names /\ 0 \in Nat
      BY DEF Names
    <3> QED
      BY <3>1, NewRegionFacts
  <2> HIDE DEF d
  <2>2. NewRegions.regions = r
    BY DEF NewRegions, d
  <2>3. Len(r) = 1 /\ r[1] = d
    OBVIOUS
  <2> HIDE DEF r
  <2>4. LinesUpTo(text, d)[0] = <<>>
    BY LinesSteps
  <2> QED
    BY <1>2, <2>1, <2>2, <2>3, <2>4 DEF HasLines
<1>5. ASSUME NEW m \in 1 .. n, m - 1 \in G PROVE m \in G
  <2> DEFINE q == m - 1
  <2>1. q \in Nat /\ q \in 0 .. n /\ m = q + 1 /\ q + 1 \in 1 .. n /\ m \in 0 .. n /\ m - 1 = q
    BY <1>1
  <2>2. HasLines(text, f[q].regions, q)
    BY <1>5
  <2> HIDE DEF q
  <2>3. f[q+1] = ReportLine(text, f[q], q + 1)
    BY <1>2, <2>1
  <2>4. HasLines(text, f[q+1].regions, q + 1)
    BY <1>2, <1>3, <2>1, <2>2, <2>3, ReportHas DEF n
  <2> QED
    BY <2>1, <2>4
<1>6. 0 \in G
  BY <1>1, <1>4
<1>7. n \in G
  <2> HIDE DEF G, n
  <2> QED
    BY <1>1, <1>5, <1>6, StepByStep
<1> QED
  BY <1>7 DEF f

\* What a parsed file is.
LEMMA ParsedFacts ==
  ASSUME NEW text \in Text, NEW ahead \in BOOLEAN
  PROVE  /\ ParseCodeRegions(text, ahead) = ParseCodeRegions(text, ~ahead)
         /\ ParseCodeRegions(text, ahead) = ParseCodeRegions(text, FALSE)
         /\ ParseCodeRegions(text, ahead).regions \in Seq(RegionType)
         /\ \A k \in 1 .. Len(ParseCodeRegions(text, ahead).regions) :
              ParseCodeRegions(text, ahead).regions[k].insts
                = RegionLines(text, ParseCodeRegions(text, ahead).regions[k])
<1> DEFINE n == Len(text)
           o == [p \in 1 .. n |-> p]
           c == ParseAfter(text, o)[n]
           y == FALSE
<1>1. n \in Nat /\ n \in 0 .. n
  BY DEF Text
<1>2. \A p \in 1 .. n : o[p] = p
  OBVIOUS
<1>3. (~ahead) \in BOOLEAN /\ y \in BOOLEAN
  OBVIOUS
<1>4. /\ ParseCodeRegions(text, ahead) = c
      /\ ParseCodeRegions(text, ~ahead) = c
      /\ ParseCodeRegions(text, y) = c
  BY <1>3, ParseSame
<1> HIDE DEF o, n
<1>5. c \in ParseType
  <2>1. \A p \in 1 .. Len(text) : o[p] \in 1 .. Len(text)
    BY <1>2 DEF n
  <2> QED
    BY <1>1, <2>1, ParseSteps DEF n
<1>6. HasLines(text, c.regions, n)
  BY <1>2, PlainHas DEF n
<1>7. c.regions \in Seq(RegionType)
  BY <1>5, FieldsFacts
<1> HIDE DEF c
<1>8. \A k \in 1 .. Len(c.regions) : c.regions[k].insts = RegionLines(text, c.regions[k])
  BY <1>6 DEF HasLines, RegionLines, n
<1> QED
  BY <1>4, <1>7, <1>8 DEF y

-----------------------------------------------------------------------------
(* The stream of a file.                                                   *)

\* The values of a sequence.
Items(s) == {s[k] : k \in 1 .. Len(s)}

\* Each region has its instructions in the text.
Exact(text, rs) ==
  /\ rs \in Seq(RegionType)
  /\ \A k \in 1 .. Len(rs) : rs[k].insts = RegionLines(text, rs[k])

\* What region r contributes to the stream.
Contributes(x, text, r) ==
  /\ Len(x) = Len(r.insts) /\ Len(r.insts) \in Nat
  /\ x \in Seq(Items(x))
  /\ \A k \in 1 .. Len(r.insts) : /\ x[k].op = text[r.insts[k]].op
                                  /\ x[k].name = r.name
                                  /\ x[k].last <=> k = Len(r.insts)

\* A region contributes its instructions to the stream, the last one marked.
LEMMA AsmInstsFacts ==
  ASSUME NEW text, NEW r \in RegionType, r.insts = RegionLines(text, r)
  PROVE  Contributes(AsmInsts(text, r), text, r)
<1> DEFINE ls == r.insts
           n == Len(ls)
           It(k) == [op |-> text[ls[k]].op, name |-> r.name, last |-> k = n]
           f == [k \in 1 .. n |-> It(k)]
<1>1. ls \in Seq(Nat)
  BY DEF RegionType
<1>2. n \in Nat /\ DOMAIN ls = 1 .. n
  BY <1>1
<1>3. AsmInsts(text, r) = f
  BY <1>2 DEF AsmInsts
<1>4. ASSUME NEW k \in 1 .. n
      PROVE  f[k].op = text[ls[k]].op /\ f[k].name = r.name /\ (f[k].last <=> k = n)
  OBVIOUS
<1> HIDE DEF n, It
<1>5. DOMAIN f = 1 .. n /\ Len(f) = n
  BY <1>2
<1>6. f \in Seq(Items(f))
  <2>1. \A k \in 1 .. n : f[k] \in Items(f)
    BY <1>5 DEF Items
  <2>2. f = [k \in 1 .. n |-> f[k]]
    OBVIOUS
  <2> HIDE DEF f
  <2> QED
    BY <1>2, <2>1, <2>2
<1> HIDE DEF f
<1> QED
  BY <1>2, <1>3, <1>4, <1>5, <1>6 DEF n, Contributes

\* So does each region of a file.
LEMMA RegionContributes ==
  ASSUME NEW text, NEW rs, Exact(text, rs), NEW k \in 1 .. Len(rs)
  PROVE  Contributes(AsmInsts(text, rs[k]), text, rs[k])
<1>1. rs[k] \in RegionType /\ rs[k].insts = RegionLines(text, rs[k])
  BY RegionsFacts DEF Exact
<1> QED
  BY <1>1, AsmInstsFacts

\* The regions one after the other, step by step.
LEMMA UpToSteps ==
  ASSUME NEW text, NEW rs, Exact(text, rs)
  PROVE  \E T :
         /\ \A k \in 0 .. Len(rs) : AsmUpTo(text, rs)[k] \in Seq(T)
         /\ \A k \in 1 .. Len(rs) : AsmInsts(text, rs[k]) \in Seq(T)
         /\ AsmUpTo(text, rs)[0] = <<>>
         /\ \A k \in 1 .. Len(rs) :
              AsmUpTo(text, rs)[k] = AsmUpTo(text, rs)[k-1] \o AsmInsts(text, rs[k])
<1> DEFINE n == Len(rs)
           T == UNION {Items(AsmInsts(text, rs[k])) : k \in 1 .. n}
           S == Seq(T)
           a == <<>>
           Step(b, k) == b \o AsmInsts(text, rs[k])
           G == [k \in 1 .. n |-> [b \in S |-> Step(b, k)]]
           f == AsmUpTo(text, rs)
<1>1. n \in Nat /\ 0 \in Nat
  BY DEF Exact
<1>2. a \in S
  OBVIOUS
<1>14. ASSUME NEW k \in 1 .. n PROVE AsmInsts(text, rs[k]) \in Seq(T)
  <2> DEFINE x == AsmInsts(text, rs[k])
  <2>1. x \in Seq(Items(x))
    BY RegionContributes DEF Contributes
  <2>2. Items(x) \subseteq T
    OBVIOUS
  <2> HIDE DEF x, T
  <2>3. x \in Seq(T)
    BY <2>1, <2>2, SeqMonotonic
  <2> QED
    BY <2>3 DEF x
<1> HIDE DEF T
<1>3. \A k \in 1 .. n : \A b \in S : Step(b, k) \in S
  BY <1>14, ConcatProperties
<1>4. f = CHOOSE h : h = [k \in 0 .. n |-> IF k = 0 THEN a ELSE Step(h[k-1], k)]
  BY DEF AsmUpTo
<1> HIDE DEF n, a, S, f, Step
<1>5. G \in [1 .. n -> [S -> S]]
  BY <1>3
<1>6. \A k \in 1 .. n : \A b \in S : G[k][b] = Step(b, k)
  OBVIOUS
<1> HIDE DEF G
<1>7. PICK h : IsRecursion(h, 0, n, S, a, G)
  BY <1>1, <1>2, <1>5, RecursionExists
<1>8. h = [k \in 0 .. n |-> IF k = 0 THEN a ELSE Step(h[k-1], k)]
  <2>1. ASSUME NEW k \in 0 .. n
        PROVE  h[k] = IF k = 0 THEN a ELSE Step(h[k-1], k)
    <3>1. h[k] = IF k = 0 THEN a ELSE G[k][h[k-1]]
      BY <1>7 DEF IsRecursion
    <3>2. k # 0 => k \in 1 .. n /\ k - 1 \in 0 .. n
      BY <1>1
    <3>3. k # 0 => h[k-1] \in S
      BY <1>7, <3>2 DEF IsRecursion
    <3> QED
      BY <1>6, <3>1, <3>2, <3>3
  <2>2. h = [k \in 0 .. n |-> h[k]]
    BY <1>7 DEF IsRecursion
  <2> QED
    BY <2>1, <2>2, Zenon
<1>9. f = [k \in 0 .. n |-> IF k = 0 THEN a ELSE Step(f[k-1], k)]
  BY <1>4, <1>8, Zenon
<1>10. f[0] = a
  BY <1>1, <1>9
<1>11. ASSUME NEW k \in 1 .. n PROVE f[k] = Step(f[k-1], k)
  BY <1>1, <1>9
<1>12. ASSUME NEW k \in (0 + 1) .. n, f[k-1] \in S PROVE f[k] \in S
  <2>1. k \in 1 .. n
    BY <1>1
  <2> QED
    BY <1>3, <1>11, <1>12, <2>1
<1>13. \A k \in 0 .. n : f[k] \in S
  BY <1>1, <1>2, <1>10, <1>12, RecursionType
<1> QED
  BY <1>10, <1>11, <1>13, <1>14 DEF n, f, S, a, Step

\* The stream of the regions rs.
Whole(text, rs) == AsmUpTo(text, rs)[Len(rs)]

\* How many instructions come before region k.
Before(text, rs, k) == Len(AsmUpTo(text, rs)[k-1])

\* The number of instructions before each region adds up to the length of the stream.
LEMMA BeforeFacts ==
  ASSUME NEW text, NEW rs, Exact(text, rs)
  PROVE  /\ Whole(text, rs) \in Seq(Items(Whole(text, rs)))
         /\ Len(rs) \in Nat
         /\ \A k \in 1 .. (Len(rs) + 1) : Before(text, rs, k) \in Nat
         /\ Before(text, rs, 1) = 0
         /\ \A k \in 1 .. Len(rs) :
              Before(text, rs, k + 1) = Before(text, rs, k) + Len(rs[k].insts)
         /\ Before(text, rs, Len(rs) + 1) = Len(Whole(text, rs))
<1> DEFINE n == Len(rs)
           f == AsmUpTo(text, rs)
           w == Whole(text, rs)
<1>1. n \in Nat
  BY DEF Exact
<1>2. PICK T : /\ \A k \in 0 .. n : f[k] \in Seq(T)
               /\ \A k \in 1 .. n : AsmInsts(text, rs[k]) \in Seq(T)
               /\ f[0] = <<>>
               /\ \A k \in 1 .. n : f[k] = f[k-1] \o AsmInsts(text, rs[k])
  BY UpToSteps
<1> HIDE DEF f
<1>3. w \in Seq(Items(w))
  <2>1. w \in Seq(T)
    BY <1>1, <1>2 DEF Whole, f
  <2> HIDE DEF w
  <2>2. Len(w) \in Nat /\ DOMAIN w = 1 .. Len(w) /\ w = [k \in 1 .. Len(w) |-> w[k]]
    BY <2>1
  <2>3. \A k \in 1 .. Len(w) : w[k] \in Items(w)
    BY DEF Items
  <2> QED
    BY <2>2, <2>3
<1>4. \A k \in 0 .. n : Len(f[k]) \in Nat
  BY <1>2
<1>5. ASSUME NEW k \in 1 .. n PROVE Len(f[k]) = Len(f[k-1]) + Len(rs[k].insts)
  <2>1. f[k-1] \in Seq(T)
    BY <1>1, <1>2
  <2>2. AsmInsts(text, rs[k]) \in Seq(T) /\ f[k] = f[k-1] \o AsmInsts(text, rs[k])
    BY <1>2
  <2>3. Len(AsmInsts(text, rs[k])) = Len(rs[k].insts)
    BY RegionContributes DEF Contributes
  <2>4. Len(f[k]) = Len(f[k-1]) + Len(AsmInsts(text, rs[k]))
    BY <2>1, <2>2, ConcatProperties
  <2> QED
    BY <2>3, <2>4
<1>6. \A k \in 1 .. (n + 1) : Before(text, rs, k) \in Nat
  BY <1>1, <1>4 DEF Before, f
<1>7. Before(text, rs, 1) = 0
  BY <1>2 DEF Before, f
<1>8. ASSUME NEW k \in 1 .. n
      PROVE  Before(text, rs, k + 1) = Before(text, rs, k) + Len(rs[k].insts)
  <2>1. k + 1 - 1 = k
    BY <1>1
  <2> QED
    <3>1. Before(text, rs, k + 1) = Len(f[k]) /\ Before(text, rs, k) = Len(f[k-1])
      BY <2>1 DEF Before, f
    <3> QED
      BY <1>5, <3>1
<1>9. Before(text, rs, n + 1) = Len(w)
  <2>1. n + 1 - 1 = n
    BY <1>1
  <2> QED
    BY <2>1 DEF Before, Whole
<1> QED
  BY <1>1, <1>3, <1>6, <1>7, <1>8, <1>9

\* The j-th instruction of region k in the stream.
LEMMA WholeFacts ==
  ASSUME NEW text, NEW rs, Exact(text, rs), NEW k \in 1 .. Len(rs),
         NEW j \in 1 .. Len(rs[k].insts)
  PROVE  /\ Before(text, rs, k) + j \in 1 .. Len(Whole(text, rs))
         /\ Whole(text, rs)[Before(text, rs, k) + j] = AsmInsts(text, rs[k])[j]
<1> DEFINE n == Len(rs)
           f == AsmUpTo(text, rs)
           p == Before(text, rs, k) + j
           x == AsmInsts(text, rs[k])
           m == n - k
           G == {d \in 0 .. m : p \in 1 .. Len(f[k+d]) /\ f[k+d][p] = x[j]}
<1>1. n \in Nat /\ k \in Nat /\ m \in Nat /\ k + m = n
  BY DEF Exact
<1>2. PICK T : /\ \A i \in 0 .. n : f[i] \in Seq(T)
               /\ \A i \in 1 .. n : AsmInsts(text, rs[i]) \in Seq(T)
               /\ f[0] = <<>>
               /\ \A i \in 1 .. n : f[i] = f[i-1] \o AsmInsts(text, rs[i])
  BY UpToSteps
<1>4. Len(x) = Len(rs[k].insts) /\ Len(x) \in Nat
  BY RegionContributes DEF Contributes
<1>5. p = Len(f[k-1]) + j
  BY DEF Before
<1> HIDE DEF f, p, x, m, n
<1>6. 0 \in G
  <2>1. f[k-1] \in Seq(T) /\ x \in Seq(T) /\ f[k] = f[k-1] \o x
    <3>1. k - 1 \in 0 .. n /\ k \in 1 .. n
      BY <1>1 DEF n
    <3> QED
      BY <1>2, <3>1 DEF x
  <2>2. /\ Len(f[k]) = Len(f[k-1]) + Len(x)
        /\ \A i \in 1 .. (Len(f[k-1]) + Len(x)) :
             f[k][i] = IF i <= Len(f[k-1]) THEN f[k-1][i] ELSE x[i - Len(f[k-1])]
    BY <2>1, ConcatProperties
  <2>3. Len(f[k-1]) \in Nat
    BY <2>1
  <2>4. p \in 1 .. Len(f[k]) /\ ~(p <= Len(f[k-1])) /\ p - Len(f[k-1]) = j
    <3> DEFINE u == Len(f[k-1])
               v == Len(x)
    <3>1. j \in 1 .. v /\ v \in Nat /\ u \in Nat /\ p = u + j /\ Len(f[k]) = u + v
      BY <1>4, <1>5, <2>2, <2>3
    <3> HIDE DEF u, v
    <3>2. p \in 1 .. (u + v) /\ ~(p <= u) /\ p - u = j
      BY <3>1
    <3> QED
      BY <3>1, <3>2 DEF u
  <2>5. f[k][p] = x[j]
    BY <2>2, <2>4
  <2>6. k + 0 = k /\ 0 \in 0 .. m
    BY <1>1
  <2> QED
    BY <2>4, <2>5, <2>6
<1>7. ASSUME NEW d \in 1 .. m, d - 1 \in G PROVE d \in G
  <2> DEFINE i == k + d
  <2>1. i \in 1 .. n /\ i - 1 \in 0 .. n /\ k + (d - 1) = i - 1 /\ d \in 0 .. m
    BY <1>1 DEF n
  <2>2. p \in 1 .. Len(f[i-1]) /\ f[i-1][p] = x[j]
    BY <1>7, <2>1
  <2> DEFINE y == AsmInsts(text, rs[i])
  <2>3. f[i-1] \in Seq(T) /\ y \in Seq(T) /\ f[i] = f[i-1] \o y
    BY <1>2, <2>1
  <2> HIDE DEF i, y
  <2>4. /\ Len(f[i]) = Len(f[i-1]) + Len(y)
        /\ \A l \in 1 .. (Len(f[i-1]) + Len(y)) :
             f[i][l] = IF l <= Len(f[i-1]) THEN f[i-1][l] ELSE y[l - Len(f[i-1])]
    BY <2>3, ConcatProperties
  <2>5. Len(f[i-1]) \in Nat /\ Len(y) \in Nat
    BY <2>3
  <2>6. p \in 1 .. Len(f[i]) /\ p <= Len(f[i-1]) /\ p \in 1 .. (Len(f[i-1]) + Len(y))
    BY <2>2, <2>4, <2>5
  <2>7. f[i][p] = x[j]
    BY <2>2, <2>4, <2>6
  <2> QED
    BY <2>1, <2>6, <2>7 DEF i
<1>8. m \in G
  <2> HIDE DEF G
  <2> QED
    BY <1>1, <1>6, <1>7, StepByStep
<1> QED
  BY <1>1, <1>8 DEF Whole, f, p, x, n

-----------------------------------------------------------------------------
(* The place of the broker in it.                                          *)

\* The assembly file broker.
Br(p, v, r, i, c) == [parsed |-> p, IsInvalid |-> v, regions |-> r, IterRegion |-> i,
                      CurInstIdx |-> c]
SetParsed(b, x, y) == [b EXCEPT !.parsed = x, !.regions = y]
SetInvalid(b, x) == [b EXCEPT !.IsInvalid = x]
SetPlace(b, i, c) == [b EXCEPT !.IterRegion = i, !.CurInstIdx = c]
SetIdx(b, c) == [b EXCEPT !.CurInstIdx = c]

\* The fields of the broker.
LEMMA BrFields ==
  ASSUME NEW p, NEW v, NEW r, NEW i, NEW c, NEW b, b = Br(p, v, r, i, c)
  PROVE  /\ b.parsed = p /\ b.IsInvalid = v /\ b.regions = r
         /\ b.IterRegion = i /\ b.CurInstIdx = c
BY DEF Br

\* One or two of them are replaced.
LEMMA BrSet ==
  ASSUME NEW p, NEW v, NEW r, NEW i, NEW c, NEW b, b = Br(p, v, r, i, c),
         NEW x, NEW y, NEW j, NEW d
  PROVE  /\ SetParsed(b, x, y) = Br(x, v, y, i, c)
         /\ SetInvalid(b, x) = Br(p, x, r, i, c)
         /\ SetPlace(b, j, d) = Br(p, v, r, j, d)
         /\ SetIdx(b, d) = Br(p, v, r, i, d)
<1> DEFINE u == [b EXCEPT !.parsed = x]
           w == [b EXCEPT !.IterRegion = j]
           s == [b EXCEPT !.IsInvalid = x]
           t == [b EXCEPT !.CurInstIdx = d]
<1>1. u = Br(x, v, r, i, c)
  BY SMT DEF Br
<1>2. w = Br(p, v, r, j, c)
  BY SMT DEF Br
<1>3. s = Br(p, x, r, i, c)
  BY SMT DEF Br
<1>4. t = Br(p, v, r, i, d)
  BY SMT DEF Br
<1>5. SetParsed(b, x, y) = [u EXCEPT !.regions = y]
  BY SMT DEF SetParsed
<1>6. SetPlace(b, j, d) = [w EXCEPT !.CurInstIdx = d]
  BY SMT DEF SetPlace
<1>7. SetInvalid(b, x) = s /\ SetIdx(b, d) = t
  BY DEF SetInvalid, SetIdx
<1> HIDE DEF u, w, s, t
<1>8. [u EXCEPT !.regions = y] = Br(x, v, y, i, c)
  BY <1>1, SMT DEF Br
<1>9. [w EXCEPT !.CurInstIdx = d] = Br(p, v, r, j, d)
  BY <1>2, SMT DEF Br
<1> QED
  BY <1>3, <1>4, <1>5, <1>6, <1>7, <1>8, <1>9

\* Its place is moved.
LEMMA BrSetPlace ==
  ASSUME NEW p, NEW v, NEW r, NEW i, NEW c, NEW b, b = Br(p, v, r, i, c), NEW j, NEW d
  PROVE  SetPlace(b, j, d) = Br(p, v, r, j, d) /\ SetIdx(b, d) = Br(p, v, r, i, d)
BY BrSet

\* Region m has instructions left when the broker is at the c-th one of region i.
Left(rs, i, c, m) == Len(rs[m].insts) > IF m = i THEN c ELSE 0
Skips(rs, i, c, k) == /\ \A m \in i .. (k - 1) : ~Left(rs, i, c, m)
                      /\ k <= Len(rs) => Left(rs, i, c, k)

\* Moving on skips regions that have been handed out or are empty.
LEMMA AdvanceFacts ==
  ASSUME NEW rs, Len(rs) \in Nat, NEW i \in 1 .. (Len(rs) + 1), NEW c, NEW p, NEW v, ~v,
         NEW b, b = Br(p, v, rs, i, c)
  PROVE  \E k \in i .. (Len(rs) + 1) :
           Skips(rs, i, c, k) /\ Advance(b) = Br(p, v, rs, k, IF k = i THEN c ELSE 0)
<1> DEFINE n == Len(rs)
           N == {k \in i .. n : Left(rs, i, c, k)}
           k == IF N = {} THEN n + 1 ELSE CHOOSE m \in N : \A l \in N : m <= l
           d == IF k = i THEN c ELSE 0
<1>1. /\ b.parsed = p /\ b.IsInvalid = v /\ b.regions = rs
      /\ b.IterRegion = i /\ b.CurInstIdx = c
  BY BrFields
<1>2. {m \in b.IterRegion .. Len(b.regions) :
         Len(b.regions[m].insts) > IF m = b.IterRegion THEN b.CurInstIdx ELSE 0} = N
  BY <1>1 DEF Left
<1>3. Advance(b) = SetPlace(b, k, d)
  <2> DEFINE M == {m \in b.IterRegion .. Len(b.regions) :
                     Len(b.regions[m].insts) > IF m = b.IterRegion THEN b.CurInstIdx ELSE 0}
             First(S, e) == IF S = {} THEN e ELSE CHOOSE m \in S : \A l \in S : m <= l
             MovedTo(i0, c0, l) == [b EXCEPT !.IterRegion = l,
                                             !.CurInstIdx = IF l = i0 THEN c0 ELSE 0]
  <2>1. ~b.IsInvalid =>
          Advance(b) = MovedTo(b.IterRegion, b.CurInstIdx, First(M, Len(b.regions) + 1))
    BY Zenon DEF Advance
  <2>2. M = N
    BY <1>2, Zenon
  <2>3. k = First(N, n + 1)
    OBVIOUS
  <2>4. MovedTo(i, c, k) = SetPlace(b, k, d)
    BY Zenon DEF SetPlace
  <2>5. ~b.IsInvalid
    BY <1>1
  <2> HIDE DEF k, d, N, M, First, MovedTo
  <2> QED
    BY <1>1, <2>1, <2>2, <2>3, <2>4, <2>5, Zenon
<1>4. k \in i .. (n + 1) /\ (\A m \in i .. (k - 1) : m \notin N) /\ (k <= n => k \in N)
  <2>1. CASE N = {}
    BY <2>1
  <2>2. CASE N # {}
    <3>1. N \subseteq Nat
      OBVIOUS
    <3>2. PICK m \in N : \A l \in N : m <= l
      <4> HIDE DEF N
      <4> QED
        BY <2>2, <3>1, NatMin
    <3>3. k \in N /\ \A l \in N : k <= l
      <4> DEFINE P(x) == \A l \in N : x <= l
      <4>1. m \in N /\ P(m)
        BY <3>2
      <4>2. k = CHOOSE x \in N : P(x)
        BY <2>2, Zenon
      <4> HIDE DEF N, P, k
      <4>3. k \in N /\ P(k)
        BY <4>1, <4>2, Zenon
      <4> QED
        BY <4>3 DEF P
    <3> HIDE DEF k
    <3>4. k \in i .. n
      BY <3>3
    <3>5. \A l \in i .. (k - 1) : l \notin N
      BY <3>1, <3>3, <3>4
    <3> QED
      BY <3>3, <3>4, <3>5
  <2> QED
    BY <2>1, <2>2
<1> HIDE DEF k
<1>5. Skips(rs, i, c, k)
  BY <1>4 DEF Skips
<1>6. Advance(b) = Br(p, v, rs, k, d)
  <2> HIDE DEF d
  <2>1. SetPlace(b, k, d) = Br(p, v, rs, k, d)
    BY BrSetPlace
  <2> QED
    BY <1>3, <2>1
<1> QED
  BY <1>4, <1>5, <1>6

\* Where the broker is, when it has given g instructions of the stream.
AsmAt(b, text, rs, g, i, c) ==
  /\ b = Br(TRUE, FALSE, rs, i, c)
  /\ i \in 1 .. (Len(rs) + 1) /\ c \in Nat
  /\ i <= Len(rs) => c <= Len(rs[i].insts)
  /\ i = Len(rs) + 1 => c = 0
  /\ g = Before(text, rs, i) + c
AsmPlace(b, text, rs, g) == \E i, c : AsmAt(b, text, rs, g, i, c)

\* The regions it skips have nothing to give.
LEMMA SkipFacts ==
  ASSUME NEW text, NEW rs, Exact(text, rs), NEW i \in 1 .. (Len(rs) + 1), NEW c \in Nat,
         i <= Len(rs) => c <= Len(rs[i].insts), NEW k \in i .. (Len(rs) + 1), Skips(rs, i, c, k)
  PROVE  Before(text, rs, k) + (IF k = i THEN c ELSE 0) = Before(text, rs, i) + c
<1> DEFINE n == Len(rs)
           B(j) == Before(text, rs, j)
           C(j) == IF j = i THEN c ELSE 0
           m == k - i
           G == {d \in 0 .. m : B(i+d) + C(i+d) = B(i) + c}
<1>1. n \in Nat /\ m \in Nat /\ i \in Nat /\ k \in Nat /\ i + m = k
  BY BeforeFacts
<1>2. /\ \A j \in 1 .. (n + 1) : B(j) \in Nat
      /\ \A j \in 1 .. n : B(j + 1) = B(j) + Len(rs[j].insts)
  BY BeforeFacts
<1>3. \A j \in 1 .. n : Len(rs[j].insts) \in Nat
  BY RegionContributes DEF Contributes
<1> HIDE DEF B, m, n
<1>4. 0 \in G
  <2>1. i + 0 = i /\ 0 \in 0 .. m
    BY <1>1
  <2> QED
    BY <2>1
<1>5. ASSUME NEW d \in 1 .. m, d - 1 \in G PROVE d \in G
  <2> DEFINE j == i + (d - 1)
  <2>1. j \in 1 .. n /\ j \in i .. (k - 1) /\ j + 1 = i + d /\ j + 1 # i
        /\ d \in 0 .. m /\ j \in Nat
    <3> DEFINE e == d - 1
    <3>1. e \in Nat /\ e < m /\ e + 1 = d /\ d \in 0 .. m
      BY <1>1
    <3>2. k <= n + 1 /\ 1 <= i
      BY DEF n
    <3> HIDE DEF e
    <3>3. /\ i + e \in 1 .. n /\ i + e \in i .. (k - 1) /\ i + e + 1 = i + d /\ i + e + 1 # i
          /\ i + e \in Nat
      BY <1>1, <3>1, <3>2
    <3> QED
      BY <3>1, <3>3 DEF e
  <2>2. B(j) + C(j) = B(i) + c
    BY <1>5
  <2>3. ~(Len(rs[j].insts) > C(j))
    <3>1. ~Left(rs, i, c, j)
      <4> HIDE DEF j
      <4> QED
        BY <2>1 DEF Skips
    <3> QED
      BY <3>1 DEF Left
  <2>4. B(j + 1) = B(j) + Len(rs[j].insts) /\ B(j) \in Nat /\ Len(rs[j].insts) \in Nat
    <3>1. j \in 1 .. n /\ j \in 1 .. (n + 1)
      BY <1>1, <2>1
    <3> HIDE DEF j
    <3> QED
      BY <1>2, <1>3, <3>1
  <2>5. Len(rs[j].insts) = C(j)
    <3>1. CASE j = i
      BY <2>1, <2>3, <2>4, <3>1 DEF n
    <3>2. CASE j # i
      BY <2>3, <2>4, <3>2
    <3> QED
      BY <3>1, <3>2
  <2>6. B(j + 1) + C(j + 1) = B(i) + c
    <3>1. C(j + 1) = 0
      BY <2>1
    <3>2. B(j + 1) \in Nat
      BY <1>1, <1>2, <2>1
    <3> HIDE DEF C, j
    <3> QED
      BY <2>2, <2>4, <2>5, <3>1, <3>2
  <2> HIDE DEF j
  <2> QED
    BY <2>1, <2>6
<1>6. m \in G
  <2> HIDE DEF G
  <2> QED
    BY <1>1, <1>4, <1>5, StepByStep
<1> QED
  BY <1>1, <1>6 DEF B

\* The instructions of a region are lines of the file.
LEMMA LinesRange ==
  ASSUME NEW text \in Text, NEW r
  PROVE  RegionLines(text, r) \in Seq(1 .. Len(text))
<1> DEFINE n == Len(text)
           R == 1 .. n
           f == LinesUpTo(text, r)
           G == {k \in 0 .. n : f[k] \in Seq(R)}
<1>1. n \in Nat
  BY DEF Text
<1>2. /\ f[0] = <<>>
      /\ \A p \in 1 .. n : f[p] = IF IsLine(text, r, p) THEN Append(f[p-1], p) ELSE f[p-1]
  BY LinesSteps
<1> HIDE DEF f
<1>3. 0 \in G
  <2>1. <<>> \in Seq(R) /\ 0 \in 0 .. n
    BY <1>1
  <2> HIDE DEF R
  <2> QED
    BY <1>2, <2>1
<1>4. ASSUME NEW k \in 1 .. n, k - 1 \in G PROVE k \in G
  <2>1. k \in R /\ k \in 0 .. n /\ f[k-1] \in Seq(R)
    BY <1>1, <1>4
  <2> HIDE DEF R
  <2>2. Append(f[k-1], k) \in Seq(R)
    BY <2>1
  <2> QED
    BY <1>2, <2>1, <2>2
<1>5. n \in G
  <2> HIDE DEF G, n
  <2> QED
    BY <1>1, <1>3, <1>4, StepByStep
<1> QED
  BY <1>5 DEF RegionLines, f

\* What the broker hands out of the stream w after its first g instructions: the next n of
\* them, none past the end of a region.
AsmBatch(r, text, w, g, size, n) ==
  /\ n \in Nat /\ 1 <= n /\ n <= size /\ g + n <= Len(w)
  /\ r.Len = n /\ r.insts \in Seq(Nat) /\ Len(r.insts) = n
  /\ \A k \in 1 .. n : r.insts[k] \in 1 .. Len(text) /\ text[r.insts[k]].op = w[g+k].op
  /\ \A k \in 1 .. (n - 1) : ~w[g+k].last
  /\ r.rd <=> w[g+n].last
  /\ r.name = w[g+n].name
\* It has nothing left.
AsmOver(r, w, g) == /\ r.Len = -1 /\ r.rd /\ r.name = "" /\ r.insts = <<>>
                    /\ g = Len(w)

\* The two replies of fetchRegion.
EndReplied(a) == [Len |-> -1, rd |-> TRUE, name |-> "", insts |-> <<>>, broker |-> a]
BatchReply(a, r, d, n) ==
  [Len |-> n, rd |-> d + n >= Len(r.insts), name |-> r.name,
   insts |-> SubSeq(r.insts, d + 1, d + n), broker |-> SetIdx(a, d + n)]

\* How much of a region goes into the buffer.
Room(q, d, size) == IF Len(q) - d <= size THEN Len(q) - d ELSE size

\* fetchRegion answers with one of them, from the place it has moved on to.
LEMMA FetchReply ==
  ASSUME NEW b, NEW size, NEW rs, NEW k, NEW d, NEW p, NEW v, ~v, NEW a,
         a = Br(p, v, rs, k, d), Advance(b) = a,
         NEW n, n = Room(rs[k].insts, d, size)
  PROVE  /\ k > Len(rs) => FetchRegion(b, size) = EndReplied(a)
         /\ ~(k > Len(rs)) => FetchRegion(b, size) = BatchReply(a, rs[k], d, n)
<1>1. /\ a.parsed = p /\ a.IsInvalid = v /\ a.regions = rs
      /\ a.IterRegion = k /\ a.CurInstIdx = d
  BY BrFields
<1>2. AtEnd(a) <=> k > Len(rs)
  BY <1>1 DEF AtEnd
<1> DEFINE Size(r, e) == IF Len(r.insts) - e <= size THEN Len(r.insts) - e ELSE size
           Batch(r, e, j) == [Len |-> j, rd |-> e + j >= Len(r.insts), name |-> r.name,
                              insts |-> SubSeq(r.insts, e + 1, e + j),
                              broker |-> [a EXCEPT !.CurInstIdx = e + j]]
<1>3. FetchRegion(b, size) =
        IF AtEnd(a) THEN EndReplied(a)
        ELSE Batch(a.regions[a.IterRegion], a.CurInstIdx,
                   Size(a.regions[a.IterRegion], a.CurInstIdx))
  BY Zenon DEF FetchRegion, EndReplied
<1>4. Batch(rs[k], d, Size(rs[k], d)) = BatchReply(a, rs[k], d, Size(rs[k], d))
  BY Zenon DEF BatchReply, SetIdx
<1>5. Size(rs[k], d) = n
  BY DEF Room
<1> HIDE DEF Size, Batch
<1>6. AtEnd(a) => FetchRegion(b, size) = EndReplied(a)
  BY <1>3, Zenon
<1>7. ~AtEnd(a) => FetchRegion(b, size) = BatchReply(a, rs[k], d, Size(rs[k], d))
  BY <1>1, <1>3, <1>4, Zenon
<1> QED
  BY <1>2, <1>5, <1>6, <1>7, Zenon

\* The batch of region k after its first d instructions.
LEMMA BatchFacts ==
  ASSUME NEW text \in Text, NEW rs, Exact(text, rs), NEW k \in 1 .. Len(rs), NEW d \in Nat,
         NEW n \in Nat, 1 <= n, d + n <= Len(rs[k].insts), NEW size, n <= size, NEW a,
         NEW g, g = Before(text, rs, k) + d
  PROVE  AsmBatch(BatchReply(a, rs[k], d, n), text, Whole(text, rs), g, size, n)
<1> DEFINE q == rs[k].insts
           L == Len(q)
           w == Whole(text, rs)
           B == Before(text, rs, k)
           x == AsmInsts(text, rs[k])
           s == SubSeq(q, d + 1, d + n)
           nm == rs[k].name
           e == (d + n >= L)
           bk == SetIdx(a, d + n)
           r == [Len |-> n, rd |-> e, name |-> nm, insts |-> s, broker |-> bk]
<1>1. BatchReply(a, rs[k], d, n) = r
  BY DEF BatchReply
<1>2. q \in Seq(Nat)
  <2>1. rs[k] \in RegionType
    BY RegionsFacts DEF Exact
  <2> QED
    BY <2>1 DEF RegionType
<1>3. Contributes(x, text, rs[k])
  BY RegionContributes
<1>4. L \in Nat /\ B \in Nat /\ Len(w) \in Nat
  <2>1. B \in Nat /\ w \in Seq(Items(w))
    <3>1. k \in 1 .. (Len(rs) + 1)
      BY BeforeFacts
    <3> HIDE DEF w
    <3> QED
      BY <3>1, BeforeFacts DEF w
  <2> HIDE DEF w
  <2> QED
    BY <1>2, <2>1
<1>5. \A j \in 1 .. L : /\ x[j].op = text[q[j]].op
                        /\ x[j].name = nm
                        /\ x[j].last <=> j = L
  BY <1>3 DEF Contributes
<1>6. \A j \in 1 .. L : B + j \in 1 .. Len(w) /\ w[B + j] = x[j]
  BY WholeFacts
<1>7. s \in Seq(Nat) /\ Len(s) = n /\ \A j \in 1 .. n : s[j] = q[d + j]
  <2>1. d + 1 \in 1 .. (L + 1) /\ d + n \in d .. L /\ d + 1 \in Nat /\ d + n \in Nat
    BY <1>4
  <2>2. (d + n) - (d + 1) + 1 = n /\ \A j \in 1 .. n : (d + 1) + j - 1 = d + j
    OBVIOUS
  <2> HIDE DEF L, q
  <2>3. Len(q) = L
    BY DEF L
  <2>4. \A i \in (d + 1) .. (d + n) : q[i] \in Nat
    BY <1>2, <1>4, <2>1, <2>3
  <2> QED
    BY <1>2, <1>4, <2>1, <2>2, <2>3, <2>4
<1> HIDE DEF q, L, w, B, x, s, nm, e, bk
<1>8. r.Len = n /\ r.rd = e /\ r.name = nm /\ r.insts = s
  OBVIOUS
<1> HIDE DEF r
<1>9. ASSUME NEW j \in 1 .. n
      PROVE  /\ g + j = B + (d + j) /\ d + j \in 1 .. L
             /\ w[g + j] = x[d + j] /\ g + j \in 1 .. Len(w)
  <2>1. g + j = B + (d + j) /\ d + j \in 1 .. L
    BY <1>4 DEF B, L, q
  <2> QED
    BY <1>6, <2>1
<1>10. n \in 1 .. n /\ g \in Nat
  BY <1>4 DEF B
<1>11. g + n <= Len(w)
  BY <1>4, <1>9, <1>10
<1>17. \A j \in 1 .. L : q[j] \in 1 .. Len(text)
  <2>1. q \in Seq(1 .. Len(text))
    BY LinesRange DEF Exact, q
  <2> DEFINE R == 1 .. Len(text)
  <2> HIDE DEF R
  <2>2. \A j \in 1 .. Len(q) : q[j] \in R
    BY <2>1 DEF R
  <2> QED
    BY <2>2 DEF R, L
<1>12. ASSUME NEW j \in 1 .. n PROVE s[j] \in 1 .. Len(text) /\ text[s[j]].op = w[g+j].op
  BY <1>5, <1>7, <1>9, <1>17
<1>13. ASSUME NEW j \in 1 .. (n - 1) PROVE ~w[g+j].last
  <2>1. j \in 1 .. n /\ d + j # L
    BY <1>4 DEF L, q
  <2> QED
    BY <1>5, <1>9, <2>1
<1>14. e <=> w[g+n].last
  <2>1. e <=> d + n = L
    BY <1>4 DEF e, L, q
  <2>2. w[g+n] = x[d+n] /\ d + n \in 1 .. L
    BY <1>9, <1>10
  <2> QED
    BY <1>5, <2>1, <2>2
<1>15. nm = w[g+n].name
  BY <1>5, <1>9, <1>10
<1>16. AsmBatch(r, text, w, g, size, n)
  BY <1>7, <1>8, <1>11, <1>12, <1>13, <1>14, <1>15, Zenon DEF AsmBatch
<1> QED
  BY <1>1, <1>16 DEF w

\* fetchRegion hands out the next instructions of the stream or finds nothing left.
LEMMA FetchRegionFacts ==
  ASSUME NEW text \in Text, NEW rs, Exact(text, rs), NEW b, NEW g, AsmPlace(b, text, rs, g),
         NEW size \in Nat, 1 <= size, NEW r, r = FetchRegion(b, size)
  PROVE  \/ AsmOver(r, Whole(text, rs), g) /\ AsmPlace(r.broker, text, rs, g)
         \/ \E n \in Nat : /\ AsmBatch(r, text, Whole(text, rs), g, size, n)
                           /\ AsmPlace(r.broker, text, rs, g + n)
<1> DEFINE t == TRUE
           y == FALSE
           N == Len(rs)
<1>1. PICK i, c : AsmAt(b, text, rs, g, i, c)
  BY DEF AsmPlace
<1>2. /\ b = Br(t, y, rs, i, c) /\ i \in 1 .. (N + 1) /\ c \in Nat /\ ~y
      /\ i <= N => c <= Len(rs[i].insts)
      /\ i = N + 1 => c = 0
      /\ g = Before(text, rs, i) + c
  BY <1>1 DEF AsmAt
<1>3. N \in Nat
  BY BeforeFacts
<1> HIDE DEF t, y
<1>4. PICK k \in i .. (N + 1) :
        Skips(rs, i, c, k) /\ Advance(b) = Br(t, y, rs, k, IF k = i THEN c ELSE 0)
  BY <1>2, <1>3, AdvanceFacts
<1> DEFINE d == IF k = i THEN c ELSE 0
           a == Br(t, y, rs, k, d)
<1>5. g = Before(text, rs, k) + d
  BY <1>2, <1>4, SkipFacts
<1>6. d \in Nat /\ k \in 1 .. (N + 1) /\ Advance(b) = a
  BY <1>2, <1>3, <1>4
<1>7. CASE k = N + 1
  <2>1. d = 0
    BY <1>2, <1>7
  <2>2. AsmAt(a, text, rs, g, k, d)
    BY <1>2, <1>3, <1>5, <1>6, <1>7, <2>1 DEF AsmAt, t, y
  <2> HIDE DEF d
  <2>3. r = EndReplied(a)
    <3>1. k > Len(rs)
      BY <1>3, <1>7
    <3> HIDE DEF a
    <3>2. a = Br(t, y, rs, k, d)
      BY DEF a
    <3> QED
      BY <1>2, <1>6, <3>1, <3>2, FetchReply
  <2> DEFINE z == <<>>
             m == -1
             h == TRUE
             o == ""
  <2> HIDE DEF a, z, m, h, o
  <2>4. r = [Len |-> m, rd |-> h, name |-> o, insts |-> z, broker |-> a]
    BY <2>3 DEF EndReplied, z, m, h, o
  <2>5. r.Len = m /\ r.rd = h /\ r.name = o /\ r.insts = z /\ r.broker = a
    BY <2>4
  <2>6. Before(text, rs, k) = Len(Whole(text, rs)) /\ Before(text, rs, k) \in Nat
    BY <1>6, <1>7, BeforeFacts
  <2>7. g = Len(Whole(text, rs))
    BY <1>5, <2>1, <2>6
  <2>8. AsmOver(r, Whole(text, rs), g)
    <3>1. r.rd
      BY <2>5, Zenon DEF h
    <3>2. r.Len = -1 /\ r.insts = <<>>
      BY <2>5 DEF m, z
    <3>3. r.name = ""
      BY <2>5 DEF o
    <3> QED
      BY <2>7, <3>1, <3>2, <3>3, Zenon DEF AsmOver
  <2> QED
    BY <2>2, <2>5, <2>8 DEF AsmPlace
<1>8. CASE k # N + 1
  <2> DEFINE L == Len(rs[k].insts)
             n == IF L - d <= size THEN L - d ELSE size
  <2>1. k \in 1 .. N
    BY <1>3, <1>6, <1>8
  <2>2. L \in Nat
    BY <2>1, RegionContributes DEF Contributes
  <2>3. L > d
    BY <1>4, <2>1 DEF Skips, Left
  <2>4. n \in Nat /\ 1 <= n /\ n <= size /\ d + n <= L
    BY <1>6, <2>2, <2>3
  <2>5. r = BatchReply(a, rs[k], d, n)
    <3>1. ~(k > Len(rs))
      BY <2>1
    <3> HIDE DEF d, a
    <3>2. a = Br(t, y, rs, k, d)
      BY DEF a
    <3>3. n = Room(rs[k].insts, d, size)
      BY DEF Room
    <3> HIDE DEF n
    <3> QED
      <4>1. ~y /\ Advance(b) = a
        BY <1>2, <1>6
      <4>2. ~(k > Len(rs)) => FetchRegion(b, size) = BatchReply(a, rs[k], d, n)
        BY <3>2, <3>3, <4>1, FetchReply
      <4> QED
        BY <3>1, <4>2
  <2> HIDE DEF d, n, L
  <2>6. AsmBatch(BatchReply(a, rs[k], d, n), text, Whole(text, rs), g, size, n)
    BY <1>5, <1>6, <2>1, <2>4, BatchFacts DEF L
  <2>7. r.broker = Br(t, y, rs, k, d + n)
    <3> HIDE DEF a
    <3>1. r.broker = SetIdx(a, d + n)
      <4> DEFINE e == (d + n >= Len(rs[k].insts))
                 nm == rs[k].name
                 s == SubSeq(rs[k].insts, d + 1, d + n)
                 bk == SetIdx(a, d + n)
      <4>1. r = [Len |-> n, rd |-> e, name |-> nm, insts |-> s, broker |-> bk]
        BY <2>5 DEF BatchReply
      <4> HIDE DEF e, nm, s, bk
      <4>2. r.broker = bk
        BY <4>1
      <4> QED
        BY <4>2 DEF bk
    <3>2. a = Br(t, y, rs, k, d)
      BY DEF a
    <3> QED
      BY <3>1, <3>2, BrSetPlace
  <2>8. AsmAt(r.broker, text, rs, g + n, k, d + n)
    <3>1. d + n \in Nat /\ k \in 1 .. (N + 1)
      BY <1>3, <1>6, <2>1, <2>4
    <3>2. g + n = Before(text, rs, k) + (d + n)
      <4>1. Before(text, rs, k) \in Nat
        BY <1>6, BeforeFacts
      <4> QED
        BY <1>5, <1>6, <2>4, <4>1
    <3>3. d + n <= Len(rs[k].insts)
      BY <2>4 DEF L
    <3> QED
      BY <1>8, <2>7, <3>1, <3>2, <3>3 DEF AsmAt, t, y
  <2> QED
    BY <2>4, <2>5, <2>6, <2>8 DEF AsmPlace
<1> QED
  BY <1>7, <1>8

\* The regions of the file of this execution.
FileRegions(in) == ParseCodeRegions(in.text, in.ahead).regions

\* A file: its regions have the instructions between their directives, the order in which
\* the parser reports its lines makes no difference, and they make up the stream.
LEMMA FileFacts ==
  ASSUME NEW in \in Inputs, in.kind = "asm"
  PROVE  /\ in.text \in Text /\ in.ahead \in BOOLEAN /\ in.parser \in BOOLEAN
         /\ Exact(in.text, FileRegions(in))
         /\ FileRegions(in) = ParseCodeRegions(in.text, ~in.ahead).regions
         /\ in.parser => StreamOf(in) = Whole(in.text, FileRegions(in))
         /\ ~in.parser => StreamOf(in) = <<>>
<1> DEFINE t == in.text
           a == in.ahead
           rs == FileRegions(in)
<1>1. InputOK(in)
  BY WorkerAssumption
<1>2. t \in Text /\ a \in BOOLEAN /\ in.parser \in BOOLEAN
  BY <1>1 DEF InputOK, Text
<1>3. rs = ParseCodeRegions(t, a).regions
  BY DEF FileRegions
<1> HIDE DEF t, a, rs
<1>4. /\ ParseCodeRegions(t, a) = ParseCodeRegions(t, ~a)
      /\ ParseCodeRegions(t, a) = ParseCodeRegions(t, FALSE)
      /\ ParseCodeRegions(t, a).regions \in Seq(RegionType)
      /\ \A k \in 1 .. Len(ParseCodeRegions(t, a).regions) :
           ParseCodeRegions(t, a).regions[k].insts
             = RegionLines(t, ParseCodeRegions(t, a).regions[k])
  BY <1>2, ParsedFacts
<1>5. Exact(t, rs)
  BY <1>3, <1>4, Zenon DEF Exact
<1>6. rs = ParseCodeRegions(t, ~a).regions
  BY <1>3, <1>4, Zenon
<1>7. AsmStream(t) = Whole(t, rs)
  <2> DEFINE f == FALSE
  <2>1. AsmStream(t)
          = AsmUpTo(t, ParseCodeRegions(t, f).regions)[Len(ParseCodeRegions(t, f).regions)]
    BY Zenon DEF AsmStream
  <2>2. ParseCodeRegions(t, f).regions = rs
    BY <1>3, <1>4, Zenon
  <2> QED
    BY <2>1, <2>2, Zenon DEF Whole
<1>8. in.parser => StreamOf(in) = AsmStream(t)
  BY DEF StreamOf, t
<1>9. ~in.parser => StreamOf(in) = <<>>
  BY DEF StreamOf
<1> QED
  BY <1>2, <1>5, <1>6, <1>7, <1>8, <1>9 DEF t, a, rs

\* The broker after its first fetch, when it has given g instructions: it found no parser, or
\* it is at its place in the regions of the file.
NoParser == Br(FALSE, TRUE, <<>>, 1, 0)
AsmHolds(b, in, g) ==
  \/ ~in.parser /\ b = NoParser /\ g = 0
  \/ in.parser /\ AsmPlace(b, in.text, FileRegions(in), g)

\* The fetch of a broker that is at its place.
AsmReplied(r, in, g) ==
  \/ AsmOver(r, StreamOf(in), g) /\ AsmHolds(r.broker, in, g)
  \/ \E n \in Nat : /\ AsmBatch(r, in.text, StreamOf(in), g, MaxNumProcessedInst, n)
                    /\ AsmHolds(r.broker, in, g + n)

\* Every fetch hands out the next instructions of the stream or finds nothing left.
LEMMA HeldReply ==
  ASSUME NEW in \in Inputs, in.kind = "asm", NEW g, NEW b, AsmHolds(b, in, g), NEW r,
         r = FetchRegion(b, MaxNumProcessedInst)
  PROVE  AsmReplied(r, in, g)
<1>1. /\ in.text \in Text /\ Exact(in.text, FileRegions(in))
      /\ in.parser => StreamOf(in) = Whole(in.text, FileRegions(in))
      /\ ~in.parser => StreamOf(in) = <<>>
  BY FileFacts
<1>2. MaxNumProcessedInst \in Nat /\ 1 <= MaxNumProcessedInst
  BY WorkerAssumption
<1>3. CASE in.parser
  <2>1. AsmPlace(b, in.text, FileRegions(in), g)
    BY <1>3 DEF AsmHolds
  <2>2. \/ /\ AsmOver(r, Whole(in.text, FileRegions(in)), g)
           /\ AsmPlace(r.broker, in.text, FileRegions(in), g)
        \/ \E n \in Nat : /\ AsmBatch(r, in.text, Whole(in.text, FileRegions(in)), g,
                                      MaxNumProcessedInst, n)
                          /\ AsmPlace(r.broker, in.text, FileRegions(in), g + n)
    BY <1>1, <1>2, <2>1, FetchRegionFacts
  <2>3. StreamOf(in) = Whole(in.text, FileRegions(in))
    BY <1>1, <1>3
  <2> QED
    BY <1>3, <2>2, <2>3, Zenon DEF AsmReplied, AsmHolds
<1>4. CASE ~in.parser
  <2>1. b = NoParser /\ g = 0
    BY <1>4 DEF AsmHolds
  <2> DEFINE f == FALSE
             t == TRUE
             z == <<>>
             m == -1
             o == ""
  <2>2. b = Br(f, t, z, 1, 0)
    BY <2>1 DEF NoParser
  <2>3. b.IsInvalid = t
    <3> HIDE DEF f, t, z
    <3> QED
      BY <2>2, BrFields
  <2>4. b.IsInvalid
    BY <2>3, Zenon
  <2>5. Advance(b) = b
    BY <2>4, Zenon DEF Advance
  <2>6. AtEnd(b)
    BY <2>4, Zenon DEF AtEnd
  <2>7. r = [Len |-> m, rd |-> t, name |-> o, insts |-> z, broker |-> b]
    BY <2>5, <2>6, Zenon DEF FetchRegion
  <2> HIDE DEF f, t, z, m, o
  <2>8. r.Len = m /\ r.rd = t /\ r.name = o /\ r.insts = z /\ r.broker = b
    BY <2>7
  <2>9. r.rd
    BY <2>8, Zenon DEF t
  <2>10. r.Len = -1 /\ r.insts = <<>> /\ r.name = ""
    BY <2>8 DEF m, z, o
  <2>11. g = Len(StreamOf(in))
    BY <1>1, <1>4, <2>1
  <2>12. AsmOver(r, StreamOf(in), g)
    BY <2>9, <2>10, <2>11, Zenon DEF AsmOver
  <2> QED
    BY <1>4, <2>1, <2>8, <2>12, Zenon DEF AsmReplied, AsmHolds
<1> QED
  BY <1>3, <1>4

\* The first fetch parses the file.
LEMMA ParseNew ==
  ASSUME NEW in \in Inputs, in.kind = "asm"
  PROVE  AsmHolds(ParseIfNeeded(NewAsmFileBroker, in.text, in.ahead, in.parser), in, 0)
<1> DEFINE f == FALSE
           t == TRUE
           z == <<>>
           b == NewAsmFileBroker
           rs == FileRegions(in)
           c == ParseIfNeeded(b, in.text, in.ahead, in.parser)
<1>1. b = Br(f, f, z, 1, 0) /\ ~f
  BY DEF NewAsmFileBroker, Br
<1> HIDE DEF b, f
<1>2. b.parsed = f /\ b.IsInvalid = f
  BY <1>1, BrFields
<1>3. ~b.parsed /\ ~b.IsInvalid
  BY <1>1, <1>2, Zenon
<1>4. CASE in.parser
  <2>1. c = SetParsed(b, t, rs)
    BY <1>3, <1>4, Zenon DEF ParseIfNeeded, SetParsed, FileRegions
  <2> HIDE DEF t, z, rs, c
  <2>2. SetParsed(b, t, rs) = Br(t, f, rs, 1, 0)
    BY <1>1, BrSet
  <2>3. Exact(in.text, rs)
    BY FileFacts DEF rs
  <2>4. Before(in.text, rs, 1) = 0 /\ Len(rs) \in Nat
    BY <2>3, BeforeFacts
  <2>5. 1 <= Len(rs) => 0 <= Len(rs[1].insts)
    <3>1. ASSUME 1 <= Len(rs) PROVE 0 <= Len(rs[1].insts)
      <4>1. 1 \in 1 .. Len(rs)
        BY <2>4, <3>1
      <4>2. Len(rs[1].insts) \in Nat
        BY <2>3, <4>1, RegionContributes DEF Contributes
      <4> QED
        BY <4>2
    <3> QED
      BY <3>1
  <2>6. AsmAt(c, in.text, rs, 0, 1, 0)
    <3>1. c = Br(TRUE, FALSE, rs, 1, 0)
      BY <2>1, <2>2 DEF t, f
    <3>2. 1 \in 1 .. (Len(rs) + 1) /\ 0 \in Nat /\ 0 = Before(in.text, rs, 1) + 0
      BY <2>4
    <3> QED
      BY <2>5, <3>1, <3>2, Zenon DEF AsmAt
  <2>7. AsmHolds(c, in, 0)
    BY <1>4, <2>6, Zenon DEF AsmHolds, AsmPlace, rs
  <2> QED
    BY <2>7 DEF c, b
<1>5. CASE ~in.parser
  <2>1. c = SetInvalid(b, t)
    BY <1>3, <1>5, Zenon DEF ParseIfNeeded, SetInvalid
  <2> HIDE DEF t, z, c
  <2>2. SetInvalid(b, t) = Br(f, t, z, 1, 0)
    BY <1>1, BrSet
  <2> QED
    <3>1. c = NoParser
      BY <2>1, <2>2 DEF NoParser, t, f, z
    <3>2. AsmHolds(c, in, 0)
      BY <1>5, <3>1, Zenon DEF AsmHolds
    <3> QED
      BY <3>2 DEF c, b
<1> QED
  BY <1>4, <1>5

\* Later fetches find it parsed, or find no parser.
LEMMA ParseHeld ==
  ASSUME NEW b, NEW in, NEW g, AsmHolds(b, in, g)
  PROVE  /\ ParseIfNeeded(b, in.text, in.ahead, in.parser) = b
         /\ b.parsed => in.parser /\ b.regions = FileRegions(in)
<1> DEFINE f == FALSE
           t == TRUE
           z == <<>>
<1>1. CASE ~in.parser
  <2>1. b = Br(f, t, z, 1, 0)
    BY <1>1 DEF AsmHolds, NoParser
  <2> HIDE DEF f, t, z
  <2>2. b.parsed = f /\ b.IsInvalid = t
    BY <2>1, BrFields
  <2>3. ~b.parsed /\ b.IsInvalid
    BY <2>2, Zenon DEF f, t
  <2> QED
    BY <2>3, Zenon DEF ParseIfNeeded
<1>2. CASE in.parser
  <2>1. PICK i, c : AsmAt(b, in.text, FileRegions(in), g, i, c)
    BY <1>2 DEF AsmHolds, AsmPlace
  <2>2. b = Br(t, f, FileRegions(in), i, c)
    BY <2>1 DEF AsmAt
  <2> HIDE DEF f, t
  <2>3. b.parsed = t /\ b.regions = FileRegions(in)
    BY <2>2, BrFields
  <2>4. b.parsed
    BY <2>3, Zenon DEF t
  <2> QED
    BY <1>2, <2>3, <2>4, Zenon DEF ParseIfNeeded
<1> QED
  BY <1>1, <1>2

-----------------------------------------------------------------------------
(* The broker of the worker.                                               *)

\* What the worker makes of a reply of the assembly file broker.
AsmInst(text, loc) == [op |-> text[loc].op, key |-> loc]
AsmReply(r) == [Len |-> r.Len, rd |-> r.rd, name |-> r.name,
                insts |-> [k \in DOMAIN r.insts |-> AsmInst(input.text, r.insts[k])],
                MDIndexMap |-> <<>>]

\* The inductive invariant behind RegionsAreExact: where the broker is, or that it has not
\* been asked yet.
BrokerInv ==
  /\ input \in Inputs /\ stream = StreamOf(input)
  /\ Asm => \/ AsmHolds(TheBroker, input, given)
            \/ TheBroker = NewAsmFileBroker /\ given = 0
  /\ ~Asm => TheBroker = NewAsmFileBroker

\* A fetch from the assembly file broker.
AsmFetch(r) ==
  /\ pc = "fetch" /\ input.kind = "asm"
  /\ AsmReplied(r, input, given)
  /\ TheBroker' = r.broker /\ given' = given + Len(r.insts)
  /\ AfterFetch(AsmReply(r))
  /\ UNCHANGED <<input, stream, empties, MDRegistry>>

\* Whichever fetch it is, it answers with the next instructions of the stream.
LEMMA FetchAsmFacts ==
  ASSUME BrokerInv, FetchAsm
  PROVE  \E r : AsmFetch(r)
<1> DEFINE b == ParseIfNeeded(TheBroker, input.text, input.ahead, input.parser)
           r == FetchRegion(b, MaxNumProcessedInst)
<1>1. pc = "fetch" /\ input.kind = "asm" /\ input \in Inputs
  BY DEF FetchAsm, Asm, BrokerInv
<1>2. AsmHolds(b, input, given)
  <2>1. CASE AsmHolds(TheBroker, input, given)
    <3>1. b = TheBroker
      BY <2>1, ParseHeld
    <3> QED
      BY <2>1, <3>1
  <2>2. CASE TheBroker = NewAsmFileBroker /\ given = 0
    BY <1>1, <2>2, ParseNew
  <2> QED
    BY <1>1, <2>1, <2>2 DEF BrokerInv, Asm
<1> HIDE DEF b
<1>3. AsmReplied(r, input, given)
  BY <1>1, <1>2, HeldReply
<1>4. /\ TheBroker' = r.broker /\ given' = given + Len(r.insts)
      /\ AfterFetch(AsmReply(r))
      /\ UNCHANGED <<empties, MDRegistry>>
  BY Zenon DEF FetchAsm, b, AsmReply, AsmInst
<1> HIDE DEF r
<1>5. UNCHANGED <<input, stream>>
  BY <1>4 DEF AfterFetch
<1> QED
  BY <1>1, <1>3, <1>4, <1>5, Zenon DEF AsmFetch

\* Nothing else moves the broker.
LEMMA BrokerSame ==
  ASSUME BrokerInv, UNCHANGED <<input, stream, TheBroker>>, Asm => given' = given
  PROVE  BrokerInv'
BY DEF BrokerInv, Asm

\* Such a fetch leaves the broker at its place.
LEMMA AsmBroker ==
  ASSUME BrokerInv, NEW r, AsmFetch(r), input.kind = "asm"
  PROVE  BrokerInv'
<1>1. UNCHANGED <<input, stream>> /\ TheBroker' = r.broker /\ given' = given + Len(r.insts)
  BY DEF AsmFetch
<1>2. AsmHolds(r.broker, input, given')
  <2>1. CASE AsmOver(r, StreamOf(input), given) /\ AsmHolds(r.broker, input, given)
    <3>1. Len(r.insts) = 0
      <4>1. r.insts = <<>>
        BY <2>1, Zenon DEF AsmOver
      <4> QED
        BY <4>1
    <3>2. given \in Nat
      <4>1. CASE input.parser
        <5>1. PICK i, c : AsmAt(r.broker, input.text, FileRegions(input), given, i, c)
          BY <2>1, <4>1 DEF AsmHolds, AsmPlace
        <5>2. /\ i \in 1 .. (Len(FileRegions(input)) + 1) /\ c \in Nat
              /\ given = Before(input.text, FileRegions(input), i) + c
          BY <5>1 DEF AsmAt
        <5>3. Exact(input.text, FileRegions(input))
          BY FileFacts DEF BrokerInv
        <5>4. Before(input.text, FileRegions(input), i) \in Nat
          BY <5>2, <5>3, BeforeFacts
        <5> QED
          BY <5>2, <5>4
      <4>2. CASE ~input.parser
        BY <2>1, <4>2 DEF AsmHolds
      <4> QED
        BY <4>1, <4>2
    <3>3. given' = given
      BY <1>1, <3>1, <3>2
    <3> QED
      BY <2>1, <3>3
  <2>2. ASSUME NEW n \in Nat,
               AsmBatch(r, input.text, StreamOf(input), given, MaxNumProcessedInst, n),
               AsmHolds(r.broker, input, given + n)
        PROVE  AsmHolds(r.broker, input, given')
    <3>1. Len(r.insts) = n
      BY <2>2 DEF AsmBatch
    <3> QED
      BY <1>1, <2>2, <3>1
  <2> QED
    BY <2>1, <2>2 DEF AsmFetch, AsmReplied
<1> QED
  BY <1>1, <1>2 DEF BrokerInv, Asm

\* The broker has not been asked at the start.
LEMMA BrokerInit == Init => BrokerInv
BY DEF Init, BrokerInv

\* Every step keeps BrokerInv.
LEMMA BrokerStep == BrokerInv /\ [Next]_vars => BrokerInv'
<1> SUFFICES ASSUME BrokerInv, [Next]_vars PROVE BrokerInv'
  OBVIOUS
<1>1. CASE Main
  BY <1>1, BrokerSame DEF Main, brokerVars
<1>2. CASE FetchAsm
  <2>1. PICK r : AsmFetch(r)
    BY <1>2, FetchAsmFacts
  <2> QED
    BY <2>1, AsmBroker DEF AsmFetch
<1>3. ASSUME NEW n \in 0 .. MaxNumProcessedInst, FetchStream(n) PROVE BrokerInv'
  <2>1. ~Asm /\ UNCHANGED <<input, stream, TheBroker>>
    BY <1>3 DEF FetchStream, AfterFetch
  <2> QED
    BY <2>1, BrokerSame
<1>4. CASE FetchStreamEnd
  BY <1>4, BrokerSame DEF FetchStreamEnd, AfterFetch, brokerVars
<1>5. CASE Convert
  BY <1>5, BrokerSame DEF Convert, brokerVars
<1>6. CASE Dispatch \/ Redispatch
  BY <1>6, BrokerSame DEF Dispatch, Redispatch, brokerVars
<1>7. CASE Retire
  BY <1>7, BrokerSame DEF Retire, brokerVars
<1>8. CASE Pause \/ Finish \/ PipelineError
  BY <1>8, BrokerSame DEF Pause, Finish, PipelineError, brokerVars
<1>9. CASE Report
  BY <1>9, BrokerSame DEF Report, brokerVars
<1>10. CASE UNCHANGED vars
  BY <1>10, BrokerSame DEF vars, brokerVars
<1> QED
  BY <1>1, <1>2, <1>3, <1>4, <1>5, <1>6, <1>7, <1>8, <1>9, <1>10 DEF Next

\* For every assembly file, of any length, with any directives, and whether or not the lexer
\* reads ahead: once parsed, each code region holds exactly the instruction lines between
\* its directives, and the regions are those of the other reading order.
THEOREM RegionsAreExact == Spec => []RegionsExact
<1>1. BrokerInv => RegionsExact
  <2> SUFFICES ASSUME BrokerInv, TheBroker.parsed
               PROVE  /\ \A k \in DOMAIN TheBroker.regions :
                           TheBroker.regions[k].insts
                             = RegionLines(input.text, TheBroker.regions[k])
                      /\ TheBroker.regions = ParseCodeRegions(input.text, ~input.ahead).regions
    BY DEF RegionsExact
  <2>1. TheBroker # NewAsmFileBroker
    <3> DEFINE f == FALSE
               z == <<>>
    <3>1. NewAsmFileBroker = Br(f, f, z, 1, 0)
      BY DEF NewAsmFileBroker, Br
    <3> HIDE DEF f, z
    <3>2. NewAsmFileBroker.parsed = f
      BY <3>1, BrFields
    <3> QED
      BY <3>2, Zenon DEF f
  <2>2. AsmHolds(TheBroker, input, given) /\ input.kind = "asm" /\ input \in Inputs
    BY <2>1 DEF BrokerInv, Asm
  <2>3. TheBroker.regions = FileRegions(input)
    BY <2>2, ParseHeld
  <2>4. /\ Exact(input.text, FileRegions(input))
        /\ FileRegions(input) = ParseCodeRegions(input.text, ~input.ahead).regions
    BY <2>2, FileFacts
  <2> DEFINE rs == FileRegions(input)
  <2>5. ASSUME NEW k \in DOMAIN rs PROVE rs[k].insts = RegionLines(input.text, rs[k])
    <3>1. rs \in Seq(RegionType)
          /\ \A j \in 1 .. Len(rs) : rs[j].insts = RegionLines(input.text, rs[j])
      BY <2>4 DEF Exact
    <3> HIDE DEF rs
    <3>2. DOMAIN rs = 1 .. Len(rs)
      BY <3>1
    <3> QED
      BY <3>1, <3>2
  <2> QED
    BY <2>3, <2>4, <2>5
<1> QED
  BY <1>1, BrokerInit, BrokerStep, PTL DEF Spec
=============================================================================
