---------------------------- MODULE BinaryRegions ----------------------------
(***************************************************************************)
(* The binary regions of the QEMU broker (BinaryRegions.cpp): what a       *)
(* manifest, and the symbols of the binary it names, make of the regions   *)
(* to be traced.  JSON, ELF and DWARF are reduced to what is looked at; an *)
(* optional value is a sequence of at most one.                            *)
(***************************************************************************)
EXTENDS Integers, Sequences, SequencesExt

CONSTANT AddrSpace  \* addresses are numbers modulo AddrSpace (2^64)

ASSUME AddrSpaceAssumption == AddrSpace \in Nat \ {0}

Address(a) == a % AddrSpace   \* the conversion of an int64_t to uint64_t

-----------------------------------------------------------------------------
(* Symbols: a function from names to start address and size.               *)

BRSymbol(start, size) == [StartAddr |-> start, Size |-> size]

\* readDWARF: the subprograms with a linkage name and a pc range; a later one
\* replaces an earlier one of that name.
ReadDWARF(dies) ==
  LET usable == SelectSeq(dies, LAMBDA d : d.subprogram /\ d.name # <<>> /\ d.pcs # <<>>)
      Enter(syms, d) ==
        (d.name[1] :> BRSymbol(d.pcs[1].low, d.pcs[1].high - d.pcs[1].low)) @@ syms
  IN  FoldLeft(Enter, <<>>, usable)

\* readSymTable: adds the symbols that have a name and an address and are not
\* known yet.
ReadSymTable(table, known) ==
  LET usable == SelectSeq(table, LAMBDA s : s.name # <<>> /\ s.addr # <<>>)
      Enter(syms, s) == syms @@ (s.name[1] :> BRSymbol(s.addr[1], s.size))
  IN  FoldLeft(Enter, known, usable)

-----------------------------------------------------------------------------
(* Regions: a function from start to end addresses.                        *)

\* unordered_map::emplace: the first entry for a start address stays.
Emplace(regions, r) == regions @@ (r.start :> r.end)

\* The k-th number of "offsets"; 0 when it is not there or not an integer.
OffsetAt(offsets, k) ==
  IF k <= Len(offsets) /\ offsets[k] # <<>> THEN offsets[k][1] ELSE 0

\* The region of one entry of a symbol-based manifest.  A negative start offset
\* counts as none; the end is the address behind the symbol.
SymbolRegion(sym, offsets) ==
  LET first == OffsetAt(offsets, 1)
  IN  [start |-> Address(sym.StartAddr + (IF first >= 0 THEN first ELSE 0)),
       end   |-> Address(sym.StartAddr + sym.Size + OffsetAt(offsets, 2))]

NoRegions == <<>>
Failure == [ok |-> FALSE, regions |-> NoRegions]

\* parseSymbolBasedRegions: the entries whose symbol is known, in order.
ParseSymbolBasedRegions(file, entries) ==
  LET symbols == ReadSymTable(file.symtab, ReadDWARF(file.dwarf))
      usable == SelectSeq(entries, LAMBDA r : /\ r.symbol # <<>>
                                              /\ r.symbol[1] \in DOMAIN symbols)
      Enter(regions, r) ==
        Emplace(regions, SymbolRegion(symbols[r.symbol[1]], r.offsets))
  IN  IF file.format # "elf" THEN Failure
      ELSE [ok |-> TRUE, regions |-> FoldLeft(Enter, NoRegions, usable)]

\* parseInteger: a number, or a string that can be read as one.
ParseInteger(v) == IF v.type \in {"integer", "digits"} THEN <<v.value>> ELSE <<>>

\* parseAddressBasedRegions: the entries with two numbers that are not negative.
ParseAddressBasedRegions(entries) ==
  LET Usable(v) == ParseInteger(v) # <<>> /\ ParseInteger(v)[1] >= 0
      usable == SelectSeq(entries, LAMBDA r : Usable(r.start) /\ Usable(r.end))
      Enter(regions, r) == Emplace(regions, [start |-> ParseInteger(r.start)[1],
                                             end |-> ParseInteger(r.end)[1]])
  IN  [ok |-> TRUE, regions |-> FoldLeft(Enter, NoRegions, usable)]

\* Create: the two kinds of manifest.  A file that cannot be read, that is not
\* JSON or that has neither form is an error.
Create(manifest) ==
  CASE manifest.form = "symbols"   -> ParseSymbolBasedRegions(manifest.file,
                                                              manifest.entries)
    [] manifest.form = "addresses" -> ParseAddressBasedRegions(manifest.entries)
    [] OTHER                       -> Failure
=============================================================================
