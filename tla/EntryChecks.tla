---------------------------- MODULE EntryChecks -----------------------------
(***************************************************************************)
(* What the kernel checks of the usable memory map that its bootloader     *)
(* hands to it, before it does anything else (Common/Kernel/Entry.c).  No  *)
(* end of an entry wraps around, nor does the sum of their sizes.          *)
(***************************************************************************)
EXTENDS Integers, Sequences
LOCAL INSTANCE Functions

CONSTANT KernelMemoryLimit  \* What the kernel wants in all, an option of the build.

ASSUME KernelMemoryLimitAssumption == KernelMemoryLimit \in Nat

LOCAL EndOf(entry) == entry.Base + entry.Limit

Overlapping(map) == \E i \in 2 .. Len(map) : map[i].Base < EndOf(map[i - 1])

NotAligned(entry, pageSize) == entry.Base % pageSize # 0 \/ EndOf(entry) % pageSize # 0

UsableMemoryAvailable(map) == SumFunction([i \in DOMAIN map |-> map[i].Limit])

\* The first entry that is wrong decides, and its alignment comes before its size.
MemoryMapStatus(map, pageSize, smallest) ==
  LET wrong == {i \in DOMAIN map : NotAligned(map[i], pageSize) \/ map[i].Limit < smallest}
  IN CASE map = <<>> -> "HasNoEntries"
       [] Overlapping(map) -> "HasOverlappingEntries"
       [] wrong # {} -> LET first == CHOOSE i \in wrong : \A j \in wrong : i <= j
                        IN IF NotAligned(map[first], pageSize) THEN "NotPageAligned" ELSE "EntryUnderMinSize"
       [] OTHER -> IF UsableMemoryAvailable(map) < KernelMemoryLimit THEN "MemoryUnderLimit" ELSE "Success"
=============================================================================
