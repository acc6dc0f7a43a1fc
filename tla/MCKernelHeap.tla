---------------------------- MODULE MCKernelHeap ----------------------------
(***************************************************************************)
(* Small instances of KernelHeap.  A page is 8 units of 512 bytes, so that *)
(* sectors of 512 and 4096 bytes, and the usual partition array of 16 KiB, *)
(* have their real sizes.                                                  *)
(***************************************************************************)
EXTENDS KernelHeap, MCMmAllocator

\* From 10 to 39 data pages, in entries that start low or high, or in two entries.
KernelMaps ==
  {<<Entry(base, pages)>> :
     base \in {3, 64}, pages \in {12, 14, 15, 16, 18, 20, 21, 24, 26, 28, 32, 34, 36, 40, 45}}
    \cup {<<Entry(3, 18), Entry(40, second)>> : second \in {18, 21}}

KernelSizes == {1, 2, 3, 4, 8, 9, 16, 17, 32, 64, 128}

KernelVolumes == [sector : {1, 8}, alignment : {1}, array : {2, 16, 32}]

\* An entry with 35 data pages.
LargeMap == {<<Entry(3, 40)>>}
=============================================================================
