----------------------------- MODULE MCQemuSystem -----------------------------
(***************************************************************************)
(* Instances of QemuSystem for TLC.                                        *)
(***************************************************************************)
EXTENDS QemuSystem

Block(a, w, p, m) == [addr |-> a, width |-> w, parts |-> p, mem |-> m]

\* Loaded at 10.  Region 2..4 opens at the last instruction of the first block
\* and closes in the middle of the second one, whose first raw instruction
\* decodes to two; region 21..22 lies inside the third block.  The fourth one
\* cannot be decoded; the last one is not part of the main executable.
SystemBlocks == {Block(10, 1, <<1, 1, 1>>, {1}),
                 Block(13, 2, <<2, 1>>, {0, 1}),
                 Block(30, 1, <<1, 1, 1, 1>>, {2}),
                 Block(17, 1, <<0>>, {}),
                 Block(5, 1, <<1>>, {})}
SystemRegions == [r \in {2, 21} |-> IF r = 2 THEN 4 ELSE 22]

\* The regions come from a manifest: one of a function f of 3 bytes whose end is
\* moved to its last instruction, one of g, one that is not known and one that
\* starts where the first one does.
Symbol(n, a, k) == [name |-> <<n>>, addr |-> <<a>>, size |-> k]
Die(n, l, h) == [subprogram |-> TRUE, name |-> <<n>>,
                 pcs |-> <<[low |-> l, high |-> h]>>]
Entry(n, o) == [symbol |-> <<n>>, offsets |-> o]
SystemManifests ==
  [regions |->
     [form |-> "symbols",
      file |-> [format |-> "elf", dwarf |-> <<Die("f", 2, 5)>>,
                symtab |-> <<Symbol("f", 0, 1), Symbol("g", 20, 3)>>],
      entries |-> <<Entry("f", << <<0>>, <<-1>> >>), Entry("h", <<>>),
                    Entry("g", << <<1>>, <<-1>> >>), Entry("f", <<>>)>>]]
SystemArgs == <<[opt |-> "-trim-binary-regions", value |-> "none"],
                [opt |-> "-max-accepted-connection", value |-> 2],
                [opt |-> "-binary-regions", value |-> "regions"]>>

\* The defaults of the test client: TB 0.
TestMsgs == {ExecTB(0, {}), TranslatedBlock(0, Block(20, 1, <<1>>, {}))}

-----------------------------------------------------------------------------
(* BinaryRegions against a reference, over small binaries and manifests.   *)

SmallDies == {Die("f", 2, 5), Die("f", 4, 6), Die("g", 2, 3),
              [Die("g", 1, 9) EXCEPT !.subprogram = FALSE],
              [Die("f", 1, 9) EXCEPT !.pcs = <<>>]}
SmallSyms == {Symbol("f", 7, 1), Symbol("g", 8, 2),
              [Symbol("g", 1, 1) EXCEPT !.addr = <<>>]}
SmallEntries == {Entry("f", <<>>), Entry("g", << <<>>, <<-1>> >>),
                 Entry("g", << <<-1>> >>), Entry("f", << <<2>>, <<-9>> >>),
                 [Entry("f", <<>>) EXCEPT !.symbol = <<>>]}

\* Where a symbol lies: the last usable DIE of that name, or else the first
\* usable entry of the symbol table; {} if there is none.
SymbolsNamed(n, dwarf, symtab) ==
  LET d == {k \in DOMAIN dwarf : /\ dwarf[k].subprogram /\ dwarf[k].pcs # <<>>
                                 /\ dwarf[k].name = <<n>>}
      t == {k \in DOMAIN symtab : symtab[k].name = <<n>> /\ symtab[k].addr # <<>>}
  IN  IF d # {} THEN {<<dwarf[MaxOf(d)].pcs[1].low, dwarf[MaxOf(d)].pcs[1].high>>}
      ELSE {<<symtab[k].addr[1], symtab[k].addr[1] + symtab[k].size>> :
              k \in {MinOf(t) : x \in t}}

\* Start and end of the region of an entry, {} if it has none.
RegionsOf(e, dwarf, symtab) ==
  {<<s[1] + (IF e.offsets # <<>> /\ e.offsets[1] # <<>> /\ e.offsets[1][1] > 0
             THEN e.offsets[1][1] ELSE 0),
     (s[2] + (IF Len(e.offsets) = 2 THEN e.offsets[2][1] ELSE 0) + AddrSpace)
       % AddrSpace>> :
     s \in UNION {SymbolsNamed(n, dwarf, symtab) : n \in ToSet(e.symbol)}}

\* A region starts where some entry says, and ends where the first of the
\* entries that start there says.
ASSUME ManifestAssumption ==
  \A dwarf \in SeqOf(SmallDies, 2), symtab \in SeqOf(SmallSyms, 2),
     entries \in SeqOf(SmallEntries, 2) :
       LET r == ParseSymbolBasedRegions(
                  [format |-> "elf", dwarf |-> dwarf, symtab |-> symtab],
                  entries).regions
           Of(k) == RegionsOf(entries[k], dwarf, symtab)
           From(a) == {k \in DOMAIN entries : \E x \in Of(k) : x[1] = a}
       IN  /\ DOMAIN r = {x[1] : x \in UNION {Of(k) : k \in DOMAIN entries}}
           /\ \A a \in DOMAIN r : <<a, r[a]>> \in Of(MinOf(From(a)))

\* Numbers may be strings; negative ones and what is not a number are skipped.
ASSUME AddressAssumption ==
  LET Values == [type : {"integer", "digits", "other"}, value : {-1, 3, 5}]
  IN  \A a, b, c \in Values :
        LET r == Create([form |-> "addresses",
                         entries |-> <<[start |-> a, end |-> b],
                                       [start |-> a, end |-> c]>>])
            Good(v) == v.type # "other" /\ v.value # -1
        IN  /\ r.ok
            /\ DOMAIN r.regions = IF Good(a) /\ (Good(b) \/ Good(c))
                                  THEN {a.value} ELSE {}
            /\ \A k \in DOMAIN r.regions :
                 r.regions[k] = IF Good(b) THEN b.value ELSE c.value
=============================================================================
