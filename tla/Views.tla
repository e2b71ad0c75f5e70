-------------------------------- MODULE Views --------------------------------
(***************************************************************************)
(* The two views that listen to the pipeline (MCAViews/TimelineView.cpp,   *)
(* MCAViews/SummaryView.cpp) and the region markers they look for          *)
(* (RegionMarker.h), kept in the metadata registry (MetadataRegistry.h).   *)
(*                                                                         *)
(* An event carries the source index of the instruction and the markers    *)
(* its identifier leads to, a subset of {"begin", "end"}.  Cycles are left *)
(* out: an entry of the timeline says whether its instruction has retired. *)
(***************************************************************************)
EXTENDS Integers, Sequences, SequencesExt, FiniteSets

NoIdentifier == -1

\* A marker: two bits that may both be set.
RegionMarker == SUBSET {"begin", "end"}

\* The markers of an instruction: those the registry holds for its identifier.
Markers(registry, ident) ==
  IF ident \in DOMAIN registry THEN registry[ident].marks ELSE {}

-----------------------------------------------------------------------------
(* TimelineView.                                                           *)

Open == -1   \* the Last of a region whose end was not dispatched yet

\* ok is FALSE once an assertion of the view has failed.
NewTimeline == [PairingStack |-> <<>>, ActiveRegions |-> {},
                Timeline |-> [i \in {} |-> FALSE], printed |-> <<>>, ok |-> TRUE]

InRange(r, i) == r.First <= i /\ (r.Last = Open \/ i <= r.Last)
InActive(t, i) == \E r \in t.ActiveRegions : InRange(r, i)

\* A begin marker opens a region, an end marker closes the last one opened.
BeginTimeline(t, i) ==
  [t EXCEPT !.PairingStack = Append(@, i),
            !.ActiveRegions = @ \cup {[First |-> i, Last |-> Open]}]
EndTimeline(t, i) ==
  IF t.PairingStack = <<>> THEN [t EXCEPT !.ok = FALSE]
  ELSE LET b == Last(t.PairingStack)
       IN  [t EXCEPT !.PairingStack = Front(@),
                     !.ActiveRegions = (@ \ {[First |-> b, Last |-> Open]})
                                         \cup {[First |-> b, Last |-> i]}]

\* onEvent, Dispatched: at every such event, and a microcoded instruction has
\* several; its row is made by the first one.
TimelineDispatched(t, i, marks) ==
  LET t1 == IF "begin" \in marks THEN BeginTimeline(t, i) ELSE t
      t2 == IF "end" \in marks THEN EndTimeline(t1, i) ELSE t1
  IN  IF ~InActive(t2, i) \/ i \in DOMAIN t2.Timeline THEN t2
      ELSE [t2 EXCEPT !.Timeline = [k \in DOMAIN @ \cup {i} |->
                                      IF k = i THEN FALSE ELSE @[k]]]

\* printTimeline stops at the first instruction that is not there or has not
\* retired; it returns the instructions it prints a row for.
PrintTimeline(t, r) ==
  {i \in r.First .. r.Last :
     \A k \in r.First .. i : k \in DOMAIN t.Timeline /\ t.Timeline[k]}

\* Mutant: the entries of every region that is being recorded are dropped.
TerminateAll(t, i) ==
  LET r == CHOOSE x \in t.ActiveRegions : x.Last = i
  IN  [t EXCEPT !.printed = Append(@, [region |-> r, rows |-> PrintTimeline(t, r)]),
                !.Timeline = [k \in {} |-> FALSE],
                !.ActiveRegions = @ \ {r}]

\* The region that ends at i is printed and its entries are dropped.
Terminate(t, i) ==
  LET r == CHOOSE x \in t.ActiveRegions : x.Last = i
  IN  [t EXCEPT !.printed = Append(@, [region |-> r, rows |-> PrintTimeline(t, r)]),
                !.Timeline = [k \in DOMAIN @ \ (r.First .. r.Last) |-> @[k]],
                !.ActiveRegions = @ \ {r}]

\* onEvent, Retired.  An instruction of a region must have been recorded when
\* it was dispatched.
TimelineRetired(t, i, marks) ==
  LET done == [t EXCEPT !.Timeline[i] = TRUE]
  IN  CASE ~InActive(t, i) -> [t EXCEPT !.ok = @ /\ "end" \notin marks]
        [] InActive(t, i) /\ i \notin DOMAIN t.Timeline -> [t EXCEPT !.ok = FALSE]
        [] OTHER -> IF "end" \in marks THEN Terminate(done, i) ELSE done

-----------------------------------------------------------------------------
(* SummaryView.  NumMicroOps grows by one for each instruction, instead of  *)
(* by the number in its descriptor.                                        *)

NewSummary == [LastInstructionIdx |-> 0, NumMicroOps |-> 0,
               PairingStack |-> <<>>, printed |-> <<>>]

\* collectData and printView, for a source of size instructions.
CollectData(s, size) ==
  LET iterations == s.LastInstructionIdx \div size + 1
  IN  [TotalInstructions |-> size * iterations,
       TotalUOps |-> s.NumMicroOps * iterations]

SummaryDispatched(s, i) == [s EXCEPT !.LastInstructionIdx = i]

\* onEvent, Retired: a begin marker keeps the summary of that moment until the
\* matching end marker prints both; only then the instruction is counted.
SummaryRetired(s, i, marks, size) ==
  LET view == <<[at |-> i, view |-> CollectData(s, size)]>>
      marked ==
        CASE marks = {} -> s
          [] marks = {"begin"} -> [s EXCEPT !.PairingStack = @ \o view]
          [] marks = {"end"} ->
               IF s.PairingStack = <<>> THEN [s EXCEPT !.printed = @ \o view]
               ELSE [s EXCEPT !.printed = @ \o <<Last(s.PairingStack)>> \o view,
                              !.PairingStack = Front(@)]
          [] OTHER -> [s EXCEPT !.printed = @ \o view]
  IN  IF i < size THEN [marked EXCEPT !.NumMicroOps = @ + 1] ELSE marked
=============================================================================
