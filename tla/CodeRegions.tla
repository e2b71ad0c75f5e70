------------------------------ MODULE CodeRegions ------------------------------
(***************************************************************************)
(* The code regions of an assembly file (Brokers/AsmUtils) and the broker  *)
(* that hands them out (Brokers/AsmFileBroker.cpp).                        *)
(*                                                                         *)
(* A file is a sequence of lines; a location is a line number.  A line is  *)
(* an instruction, a comment with an LLVM-MCA-BEGIN or LLVM-MCA-END        *)
(* directive and the name it gives (or ""), or a comment without one.      *)
(* Location 0 is the invalid SMLoc().                                      *)
(***************************************************************************)
EXTENDS Integers, Sequences, SequencesExt

CodeRegion(name, loc) == [name |-> name, start |-> loc, end |-> 0, insts |-> <<>>]

\* CodeRegions(): one default region, with no start and no end.
NewRegions == [regions |-> <<CodeRegion("", 0)>>,
               active |-> [n \in {} |-> 0],    \* ActiveRegions: name -> position
               FoundErrors |-> FALSE]

\* Mutant: only the end of a region bounds it.
IsLocBeforeEnd(r, loc) == r.end # 0 => loc <= r.end

IsLocInRange(r, loc) == /\ r.end # 0 => loc <= r.end
                        /\ r.start # 0 => loc >= r.start

\* Only the default region is there, and it has not been ended.
OnlyDefault(cr) == /\ Len(cr.regions) = 1
                   /\ cr.regions[1].start = 0 /\ cr.regions[1].end = 0

Activate(active, name, k) == [n \in DOMAIN active \cup {name} |->
                                IF n = name THEN k ELSE active[n]]

\* beginRegion: the first region replaces the default one; a name that is
\* still active is an error and changes nothing.
BeginRegion(cr, name, loc) ==
  CASE cr.active = <<>> /\ OnlyDefault(cr) ->
         [cr EXCEPT !.active = Activate(@, name, 1),
                    !.regions = <<CodeRegion(name, loc)>>]
    [] name \in DOMAIN cr.active -> [cr EXCEPT !.FoundErrors = TRUE]
    [] OTHER ->
         [cr EXCEPT !.active = Activate(@, name, Len(cr.regions) + 1),
                    !.regions = Append(@, CodeRegion(name, loc))]

SetEndLocation(regions, k, loc) ==
  [j \in DOMAIN regions |-> IF j = k THEN [regions[j] EXCEPT !.end = loc]
                            ELSE regions[j]]

\* endRegion: an END without a name ends the only active region, or the
\* default one; any other END ends the active region of its name.
EndRegion(cr, name, loc) ==
  LET End(n) == [cr EXCEPT !.regions = SetEndLocation(@, cr.active[n], loc),
                           !.active = [m \in DOMAIN @ \ {n} |-> @[m]]]
      only == CHOOSE n \in DOMAIN cr.active : TRUE
  IN  CASE name = "" /\ \E n \in DOMAIN cr.active : DOMAIN cr.active = {n} ->
             End(only)
        [] name = "" /\ cr.active = <<>> /\ OnlyDefault(cr) ->
             [cr EXCEPT !.regions = SetEndLocation(@, 1, loc)]
        [] name \in DOMAIN cr.active -> End(name)
        [] OTHER -> [cr EXCEPT !.FoundErrors = TRUE]

\* addInstruction: the instruction joins every region it is in the range of.
WithInst(r, loc) == IF IsLocInRange(r, loc) THEN [r EXCEPT !.insts = Append(@, loc)]
                    ELSE r
AddInstruction(cr, loc) ==
  [cr EXCEPT !.regions = [k \in DOMAIN cr.regions |-> WithInst(cr.regions[k], loc)]]

\* HandleComment of MCACommentConsumer.
HandleComment(cr, line, loc) ==
  CASE line.kind = "end"   -> EndRegion(cr, line.name, loc)
    [] line.kind = "begin" -> BeginRegion(cr, line.name, loc)
    [] OTHER -> cr

\* The order in which the parser reports the lines of a file.  Matching an
\* instruction may have needed the token after its line end (ahead), in which
\* case the lexer has handed a comment on the next line to the comment
\* consumer before the instruction is emitted.
ReportOrder(text, ahead) ==
  LET Early(p) == /\ ahead /\ p \in 1 .. (Len(text) - 1)
                  /\ text[p].kind = "inst" /\ text[p+1].kind # "inst"
  IN  [p \in DOMAIN text |-> IF Early(p) THEN p + 1
                             ELSE IF Early(p - 1) THEN p - 1 ELSE p]

\* parseCodeRegions: what MCStreamerWrapper and MCACommentConsumer make of the
\* lines of a file.
ParseCodeRegions(text, ahead) ==
  LET order == ReportOrder(text, ahead)
      Report(cr, loc) == IF text[loc].kind = "inst" THEN AddInstruction(cr, loc)
                         ELSE HandleComment(cr, text[loc], loc)
      after[p \in 0 .. Len(text)] ==
        IF p = 0 THEN NewRegions ELSE Report(after[p-1], order[p])
  IN  after[Len(text)]

-----------------------------------------------------------------------------
(* The broker.                                                             *)

\* AsmFileBroker(): nothing is parsed before the first fetch.  IterRegion is
\* the position of the current region, CurInstIdx the instructions of it that
\* were handed out.  A file that cannot be read is only reported: the broker is
\* made without a source buffer and what the parser does then is left out.
NewAsmFileBroker == [parsed |-> FALSE, IsInvalid |-> FALSE, regions |-> <<>>,
                     IterRegion |-> 1, CurInstIdx |-> 0]

\* parseIfNeeded; whether a target parser can be created is up to LLVM.
\* FoundErrors is not looked at.
ParseIfNeeded(b, text, ahead, parserAvailable) ==
  IF b.parsed \/ b.IsInvalid THEN b
  ELSE IF parserAvailable
       THEN [b EXCEPT !.parsed = TRUE,
                      !.regions = ParseCodeRegions(text, ahead).regions]
       ELSE [b EXCEPT !.IsInvalid = TRUE]

\* fetch() moves on to the next region that has instructions left.
Advance(b) ==
  LET left(k) == Len(b.regions[k].insts) > IF k = b.IterRegion
                                           THEN b.CurInstIdx ELSE 0
      next == {k \in b.IterRegion .. Len(b.regions) : left(k)}
      k == IF next = {} THEN Len(b.regions) + 1
           ELSE CHOOSE m \in next : \A n \in next : m <= n
  IN  IF b.IsInvalid THEN b
      ELSE [b EXCEPT !.IterRegion = k,
                     !.CurInstIdx = IF k = b.IterRegion THEN @ ELSE 0]

\* Mutant: the last region is taken for the end.
AtLast(b) == b.IsInvalid \/ b.IterRegion >= Len(b.regions)

AtEnd(b) == b.IsInvalid \/ b.IterRegion > Len(b.regions)

\* fetchRegion of a parsed broker into a buffer of size entries: what is left
\* of the current region, as far as it fits, and whether that ends the region.
\* Len = -1 is the end of the stream.
FetchRegion(b, size) ==
  LET a == Advance(b)
      r == a.regions[a.IterRegion]
      n == IF Len(r.insts) - a.CurInstIdx <= size THEN Len(r.insts) - a.CurInstIdx
           ELSE size
  IN  IF AtEnd(a)
      THEN [Len |-> -1, rd |-> TRUE, name |-> "", insts |-> <<>>, broker |-> a]
      ELSE [Len |-> n,
            rd |-> a.CurInstIdx + n >= Len(r.insts),
            name |-> r.name,
            insts |-> SubSeq(r.insts, a.CurInstIdx + 1, a.CurInstIdx + n),
            broker |-> [a EXCEPT !.CurInstIdx = @ + n]]
=============================================================================
