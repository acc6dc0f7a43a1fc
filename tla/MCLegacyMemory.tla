--------------------------- MODULE MCLegacyMemory ---------------------------
(***************************************************************************)
(* Small instances of LegacyMemory: pages of 2 bytes, page tables of four  *)
(* entries, 1 MiB at 16 and 4 GiB at 128.                                  *)
(***************************************************************************)
EXTENDS LegacyMemory

Area(base, limit, type) == [Base |-> base, Limit |-> limit, Type |-> type]

Low == Area(0, 11, 1)
High == Area(17, 32, 1)
Highest == Area(56, 40, 1)

\* An entry anywhere, and one that may overlap it and the ones above.
Anywhere == {Area(b, l, t) : b \in {4, 15, 24, 33, 57}, l \in {1, 5, 9, 40}, t \in {1, 2}}
Another == {Area(b, l, t) : b \in {17, 30, 48}, l \in {2, 5, 24}, t \in {1, 2}}

MCReports ==
  {[entries |-> <<Low, x, High, y>>, carry |-> FALSE] : x \in Anywhere, y \in Another}
    \cup {[entries |-> <<Highest, y, Low, x>>, carry |-> FALSE] : x \in Anywhere, y \in Another}
    \cup {[entries |-> <<High, y>>, carry |-> TRUE] : y \in Another}
    \cup {[entries |-> <<>>, carry |-> TRUE],
          [entries |-> <<Low, High, Highest, Low, High, Low>>, carry |-> FALSE]}

\* What the stack held: nothing, or an entry of an earlier list.
MCGarbage == {Area(0, 0, 0), Highest}

Load(start, size, padded) ==
  [Loadable |-> TRUE, VirtAddress |-> start, Size |-> size, PaddedSize |-> padded, Alignment |-> 2]

Dynamic(start, size) == [Load(start, size, size) EXCEPT !.Loadable = FALSE]

\* Two that are linked as they should be; one whose first program is longer in the file and
\* whose last has no size in memory; one that ends in the last page, so that its area is
\* empty; and one with a program that is not aligned or ends beyond the address space.
MCKernels ==
  {[Size |-> 3, Overrun |-> 4, Programs |-> <<Load(0, 2, 3), Load(4, 1, 3)>>],
   [Size |-> 6, Overrun |-> 1, Programs |-> <<Load(0, 0, 7), Load(9, 0, 0), Dynamic(4, 2)>>],
   [Size |-> 2, Overrun |-> 0, Programs |-> <<Load(0, 3, 1), Load(2, 6, 0)>>],
   [Size |-> 1, Overrun |-> 0, Programs |-> <<Load(0, 1, 1), Load(100, 0, 27)>>],
   [Size |-> 1, Overrun |-> 1, Programs |-> <<Load(0, 3, 3), Load(3, 2, 2)>>],
   [Size |-> 2, Overrun |-> 2, Programs |-> <<Load(4, 1, 125)>>]}

MCFramebuffers == {<<>>, <<[Base |-> 102, Size |-> 15]>>, <<[Base |-> 136, Size |-> 16]>>}
=============================================================================
