---------------------------- MODULE MCFatReader -----------------------------
(***************************************************************************)
(* Small instances of FatReader: three clusters of one to three sectors,   *)
(* every FAT for them, with the chains of the two reserved entries ended,  *)
(* some more FATs with reserved bits in their entries, and a path of a     *)
(* folder and a file.                                                      *)
(***************************************************************************)
EXTENDS FatReader

MCLimit == 5

MCNames == {"BOOT", "BOOTX32", "OLD", "ELF", "BIN", ""}

MCNullName == ""

Id(name, extension) == [Name |-> name, Extension |-> extension]

Named(name, extension, kind, cluster, size) ==
  [Id |-> Id(name, extension), Kind |-> kind, Cluster |-> cluster, Size |-> size]

MCPath ==
  <<[Id |-> Id("BOOT", ""), Kind |-> "folder"], [Id |-> Id("BOOTX32", "BIN"), Kind |-> "file"]>>

MCReserved == 6

MCTop == 12

MCFats ==
  {[c \in 0 .. MCTop - 1 |-> IF c \in 2 .. MCLimit THEN fat[c] ELSE MCLimit] :
     fat \in {f \in [2 .. MCLimit -> {0, 2, 3, 4, MCLimit}] : f[MCLimit] \in {2, MCLimit}}}

\* Entries with the reserved bit, for clusters and for ends, and what is found for cluster
\* 3 with that bit.
MCReservedFats ==
  {[c \in 0 .. MCTop - 1 |-> CASE c \in 2 .. 4 -> fat[c] [] c = 3 + MCReserved -> found [] OTHER -> MCLimit] :
     fat \in [2 .. 4 -> {0, 4, 3 + MCReserved, MCLimit + MCReserved}],
     found \in {2, MCLimit}}

\* Other entries come before those that are looked for, in the same sector or in another.
Long == Named("BOOT", "", "long", 2, 0)
Decoy == Named("BOOT", "", "file", 4, 1)
Boot == Named("BOOT", "OLD", "folder", 3, 0)
Other == Named("BOOTX32", "ELF", "file", 2, 1)
Bin(cluster, size) == Named("BOOTX32", "BIN", "file", cluster, size)

\* The sectors of clusters of n sectors each.
Folders(n, a, b) ==
  [s \in 0 .. MCTop - 1 |->
     LET c == (s \div n) + 2
     IN IF <<c, s % n>> \in DOMAIN a THEN a[<<c, s % n>>] ELSE
        IF <<c, s % n>> \in DOMAIN b THEN b[<<c, s % n>>] ELSE <<>>]

At(c, s, entries) == [p \in {<<c, s>>} |-> entries]

MCLayouts == {"short", "long", "behind", "reserved"} \X (1 .. 3)

MCEntries ==
  [l \in MCLayouts |->
     CASE l[1] = "short" -> Folders(l[2], At(2, 0, <<Long, Decoy, Boot>>), At(3, 0, <<Other, Bin(4, 1)>>))
       [] l[1] = "long" -> Folders(l[2], At(2, 1, <<Boot>>), At(3, 0, <<Bin(4, 5)>>))
       [] l[1] = "behind" -> Folders(l[2], At(4, 0, <<Boot>>), At(3, 0, <<Bin(4, 3)>>))
       [] l[1] = "reserved" -> Folders(l[2], At(2, 0, <<Boot>>), At(3, 0, <<Bin(4 + MCReserved, 3)>>))]

MCRootEntries ==
  [l \in MCLayouts |->
     CASE l[1] = "short" -> Folders(l[2], At(2, 0, <<Long>>), At(2, 1, <<Boot>>))
       [] l[1] = "long" -> Folders(l[2], At(2, 0, <<Decoy, Boot>>), At(3, 0, <<Other>>))
       [] l[1] = "behind" -> Folders(l[2], At(3, 0, <<Boot>>), At(4, 0, <<Boot>>))
       [] l[1] = "reserved" -> Folders(l[2], At(2, 0, <<Boot>>), At(4, 0, <<Boot>>))]

Geometry(fat32, n, offset, physical) ==
  [IsFat32 |-> fat32, SectorsPerCluster |-> n, DataOffset |-> offset, PerPhysical |-> physical]

MCGeometries ==
  {Geometry(TRUE, 1, 0, 1), Geometry(FALSE, 2, 0, 1), Geometry(TRUE, 3, 1, 1),
   Geometry(FALSE, 1, 1, 2), Geometry(TRUE, 2, 2, 2)}

Drive(fat, name, g) ==
  [fat |-> fat, layout |-> <<name, g.SectorsPerCluster>>, IsFat32 |-> g.IsFat32,
   SectorsPerCluster |-> g.SectorsPerCluster, DataOffset |-> g.DataOffset, PerPhysical |-> g.PerPhysical]

MCDisks ==
  {Drive(fat, name, g) : fat \in MCFats, name \in {"short", "long", "behind"}, g \in MCGeometries}
  \cup
  {Drive(fat, name, g) : fat \in MCReservedFats, name \in {"long", "behind", "reserved"},
                         g \in {h \in MCGeometries : h.IsFat32}}
=============================================================================
