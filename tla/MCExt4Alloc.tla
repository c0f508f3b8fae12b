----------------------------- MODULE MCExt4Alloc -----------------------------
(***************************************************************************)
(* Shapes and requests for Ext4Alloc.  Groups of nine blocks: six are the   *)
(* header of a group with a copy of the superblock, three that of another.  *)
(***************************************************************************)
EXTENDS Ext4Alloc

Of(blocks, first, journal, ipg) ==
    [blocks |-> blocks, bpg |-> 9, first |-> first, desc |-> 1, reserve |-> 1, table |-> 1,
     journal |-> journal, ipg |-> ipg, ragged |-> FALSE]

\* The last group is full, cut, a header only, or dropped; there is a boot block;
\* there are enough groups for four regions; the inodes run out.
FileSystems ==
    {Of(36, 0, 8, 12), Of(34, 0, 2, 11), Of(24, 0, 0, 12), Of(21, 0, 2, 11), Of(20, 0, 0, 12),
     Of(29, 1, 1, 12), Of(45, 0, 0, 11), Of(62, 0, 2, 11),
     Of(18, 0, 0, 10), Of(29, 0, 0, 10), Of(11, 0, 0, 11)}

Wanted ==
    [kind : {"dir"}, blocks : {1}, full : {TRUE}]
    \cup [kind : {"file"}, blocks : {0, 4, 9, 16}, full : {FALSE}]
    \cup [kind : {"link"}, blocks : {5}, full : {TRUE}]

\* With blocks of 4K, where there is no boot block, every length is Sound: the
\* last group has room for its header and ends where the file system does.
ASSUME EveryLengthSound ==
    \A blocks \in 9 .. 81 : Sound(Of(blocks, 0, 0, 12))
=============================================================================
