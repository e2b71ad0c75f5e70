---------------------------- MODULE MDMemoryAccess ----------------------------
(***************************************************************************)
(* The memory accesses of one instruction (MDMemoryAccess): the first one, *)
(* and the range that stands for it and for those appended to it.  The     *)
(* comparison of ranges decides whether two instructions may alias.        *)
(* Addresses are far from the end of the address space.                    *)
(***************************************************************************)
EXTENDS Integers

\* An access, and the address and size of the range of its bundle.
MemoryAccess(addr, size) == [Addr |-> addr, Size |-> size,
                             ExtendedAddr |-> addr, ExtendedSize |-> size]
MemoryAccesses == [Addr : Nat, Size : Nat, ExtendedAddr : Nat, ExtendedSize : Nat]

GetExtendedStartAddr(m) == m.ExtendedAddr
GetExtendedEndAddr(m) == m.ExtendedAddr + m.ExtendedSize

\* append: the range is moved down to the new address, then made long enough
\* for the new end.
LowerStart(m, addr) == IF addr < m.ExtendedAddr THEN addr ELSE m.ExtendedAddr
AppendAccess(m, addr, size) ==
  LET start == LowerStart(m, addr)
      end == addr + size
  IN  [m EXCEPT !.ExtendedAddr = start,
                !.ExtendedSize = IF end > start + m.ExtendedSize
                                 THEN end - start ELSE m.ExtendedSize]

\* operator<, and the equivalence std::multiset::count makes of it.
Before(m, n) == GetExtendedEndAddr(m) <= GetExtendedStartAddr(n)
IsMemAccessAlias(m, n) == ~Before(m, n) /\ ~Before(n, m)

\* The range of m covers size bytes at addr.
Covers(m, addr, size) == /\ GetExtendedStartAddr(m) <= addr
                         /\ addr + size <= GetExtendedEndAddr(m)
=============================================================================
