----------------------------- MODULE Ext4Layout -----------------------------
(***************************************************************************)
(* The extents of an ext4 image of package/ext4-utils: what its allocator   *)
(* (Ext4Alloc) hands to the code that writes images (SparseImage).  A       *)
(* position is counted in blocks.                                           *)
(***************************************************************************)
EXTENDS Naturals, Sequences

\* Blocks to be written: from a buffer or from a file; `full' if the contents
\* reach the end of the last block.
Extent == [block : Nat, len : Nat \ {0}, file : BOOLEAN, full : BOOLEAN]
End(e) == e.block + e.len
Apart(d, e) == End(d) <= e.block \/ End(e) <= d.block

\* A file system: the block of its superblock, the blocks of its group
\* descriptors, and the extents in the order they are queued; it is ragged if
\* its length is no multiple of the block size.
Layout == [first : {0, 1}, desc : Nat \ {0}, ragged : BOOLEAN, parts : Seq(Extent)]

\* write_ext4_image: the superblock, in block 0 or in block 1, and the group
\* descriptors behind it.
Super(l) == [block |-> l.first, len |-> 1, file |-> FALSE, full |-> FALSE]
Desc(l) == [block |-> l.first + 1, len |-> l.desc, file |-> FALSE, full |-> TRUE]

\* A layout that an image of n blocks can have: extents inside the file system
\* that do not meet, none of them before the group descriptors.
Fits(l, n) ==
    /\ l \in Layout
    /\ End(Desc(l)) <= n
    /\ \A i \in 1 .. Len(l.parts) :
         /\ End(Desc(l)) <= l.parts[i].block /\ End(l.parts[i]) <= n
         /\ \A j \in 1 .. Len(l.parts) : i # j => Apart(l.parts[i], l.parts[j])
=============================================================================
