----------------------------- MODULE MCDiskRead -----------------------------
(***************************************************************************)
(* Small instances of DiskRead: a drive of six sectors of four bytes.      *)
(***************************************************************************)
EXTENDS DiskRead

Drive(method, alignment) ==
  [Method |-> method, IsPartition |-> FALSE, PartitionOffset |-> 0,
   Alignment |-> alignment, NumSectors |-> DriveSectors]

Partition(method, alignment, first, n) ==
  [Method |-> method, IsPartition |-> TRUE, PartitionOffset |-> first,
   Alignment |-> alignment, NumSectors |-> n]

MCVolumes ==
  {Drive("Int13", 1), Drive("Efi", 2), Drive("Efi", 8), Partition("Efi", 4, 1, 5)}

\* The buffer is in the first part of the memory, the temporary one in the second.
MCAddresses == 1 .. 80
MCBuffers == {8, 10, 13, 16}
MCTempAddresses == {44, 48}
MCOffsets == {0, 1, 3, 4, 6}
MCSizes == {0, 1, 3, 4, 5, 7, 8, 9, 11, 12, 14, 16, 17, 18}
=============================================================================
