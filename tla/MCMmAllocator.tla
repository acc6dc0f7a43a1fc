---------------------------- MODULE MCMmAllocator ----------------------------
(***************************************************************************)
(* Small instances of MmAllocator: a page describes 8 nodes, not 64, so    *)
(* that small entries have the shapes of real ones.                        *)
(***************************************************************************)
EXTENDS MmUniform

Entry(base, pages) == [Base |-> base * ScalingFactor, Limit |-> pages * ScalingFactor]

\* One entry, with 4 to 24 data pages.
SingleMaps ==
  {<<Entry(base, pages)>> : base \in {1, 3}, pages \in 5 .. 16}
    \cup {<<Entry(3, pages)>> : pages \in 17 .. 28}

\* Two entries, touching or with a page in between.
DoubleMaps ==
  {<<Entry(3, first), Entry(3 + first + gap, second)>> :
     first, second \in {8, 10}, gap \in {0, 1}}

Maps == SingleMaps \cup DoubleMaps

\* What the theorems about SpecUniform ask of a map holds of these.
ASSUME MapsAssumption == \A mmap \in Maps : ~Bridged(mmap)

\* With frees in any order, lists are corrupt in too many ways for the other maps
\* and sizes: these are blocks of two and four pages.
OddMaps ==
  {<<Entry(base, pages)>> : base \in {1, 3}, pages \in {5, 8, 9, 10}}
    \cup {<<Entry(3, 5), Entry(8, 5)>>}

MCBlockPages == [l \in 0 .. MaxLevel + 1 |-> 2 ^ l]

\* Half a page, and one to sixteen pages.
MCSizes == {4, 8, 16, 32, 64, 128}

OddSizes == {16, 32}
=============================================================================
