------------------------------ MODULE Ext4Alloc ------------------------------
(***************************************************************************)
(* Which blocks of an ext4 image are whose (package/ext4-utils/src):        *)
(* make_ext4fs() lays out the block groups (ext4_create_fs_aux_info,        *)
(* init_bg, ext4_fill_in_sb), then makes the journal, the resize inode, the *)
(* root directory and the inodes of the tree one after the other.  Each one *)
(* gets its blocks from allocate.c in one or more regions, and what is to   *)
(* be written is queued as extents: the Layout that SparseImage writes.     *)
(*                                                                          *)
(* Positions and lengths are counted in blocks.  Sizes that follow from the *)
(* block size (descriptor blocks, inode tables, reserved blocks) are part   *)
(* of the shape.  error() exits: -f, which goes on after it, is left out.   *)
(* The tree is any sequence of requests; what its inodes hold is left out.  *)
(***************************************************************************)
EXTENDS Ext4Layout, Integers, FiniteSets

CONSTANTS Shapes,      \* the parameters of make_ext4fs
          Requests,    \* directories, files and symbolic links
          MaxInodes    \* inodes at most: a bound of the model

Shape == [blocks : Nat, bpg : Nat \ {0}, first : {0, 1}, desc : Nat \ {0}, reserve : Nat \ {0},
          table : Nat \ {0}, journal : Nat, ipg : Nat \ {0}, ragged : BOOLEAN]

\* A directory has at least one block; an empty file and a link that fits in
\* its inode have none, and any other link asks for block_size blocks and those
\* to index them.  full: the last block is written to its end.
Request == [kind : {"dir", "file", "link"}, blocks : Nat, full : BOOLEAN]

-----------------------------------------------------------------------------
(* The groups of a file system of shape s *)

\* ext4_bg_has_super_block, with the feature sparse_super.
HasSuper(g) == g \in {0, 1} \/ \E p \in {3, 5, 7}, k \in 1 .. g : g = p ^ k

Start(s, g) == s.first + g * s.bpg

\* What comes before the bitmaps of group g, and the whole header of it.
Ahead(s, g) == IF HasSuper(g) THEN 1 + s.desc + s.reserve ELSE 0
Header(s, g) == Ahead(s, g) + 2 + s.table

\* A last group with no room for its header is dropped.
AllGroups(s) == (s.blocks - s.first + s.bpg - 1) \div s.bpg
LastSize(s) == s.blocks % s.bpg
Dropped(s) == LastSize(s) > 0 /\ LastSize(s) < Header(s, AllGroups(s) - 1)
Groups(s) == 0 .. AllGroups(s) - (IF Dropped(s) THEN 2 ELSE 1)

\* len_blocks, and the blocks of group g.
Length(s) == s.blocks - (IF Dropped(s) THEN LastSize(s) ELSE 0)
Size(s, g) == IF Start(s, g + 1) <= Length(s) THEN s.bpg ELSE Length(s) - Start(s, g)

\* LastSize takes no account of the boot block, which 1K blocks leave before
\* group 0: sizes for which that matters are left out, and with them groups
\* too small for their headers and two blocks.
Sound(s) ==
    /\ 0 \in Groups(s)
    /\ \A g \in Groups(s) : g + 1 \notin Groups(s) => Length(s) <= Start(s, g + 1)
    /\ \A g \in Groups(s) : /\ Header(s, g) + 2 <= s.bpg
                            /\ Start(s, g) + Header(s, g) <= Length(s)

ASSUME ShapesOK == \A s \in Shapes : s \in Shape /\ Sound(s) /\ s.ipg >= 10
ASSUME RequestsOK == Requests \subseteq Request /\ \A r \in Requests : r.kind = "dir" => r.blocks > 0
ASSUME MaxInodesOK == MaxInodes \in Nat

-----------------------------------------------------------------------------
VARIABLES
    shape,
    groups,   \* allocate.c: aux_info.bgs
    inodes,   \* the inodes made so far, in the order they were made
    job,      \* the inode that is getting its blocks
    phase,    \* where make_ext4fs() is
    at,       \* group whose backups ext4_fill_in_sb queues next
    queue     \* what has been queued, in that order

vars == <<shape, groups, inodes, job, phase, at, queue>>

G == Groups(shape)

Region == [block : Nat, len : Nat \ {0}, bg : Nat]
Group == [next : Nat, free : Nat, used : BOOLEAN, nodes : Nat, table : BOOLEAN]
Kinds == {"dir", "file", "link", "journal", "resize"}
Inode == [num : Nat, kind : Kinds, blocks : Nat, entries : Nat, extents : Seq(Region), leaf : Nat]
Job == [num : Nat, kind : Kinds \cup {"none"}, blocks : Nat, full : BOOLEAN, left : Nat,
        regions : Seq(Region)]
NoJob == [num |-> 0, kind |-> "none", blocks |-> 0, full |-> FALSE, left |-> 0, regions |-> <<>>]

Buffer(b, n) == [block |-> b, len |-> n, file |-> FALSE, full |-> TRUE]
Bitmaps(s, g) == Buffer(Start(s, g) + Ahead(s, g), 2)
Table(s, g) == Buffer(Start(s, g) + Ahead(s, g) + 2, s.table)
Backup(s, g) == Buffer(Start(s, g), 1)
BackupDesc(s, g) == Buffer(Start(s, g) + 1, s.desc)
Reserved(s) == Buffer(Start(s, 0) + 1 + s.desc, s.reserve)

\* Seeded fault: the boot block is forgotten.
FreshNoBoot(s, g) ==
    LET free == s.bpg - Header(s, g)
        overrun == g * s.bpg + s.bpg - Length(s)
        cut == IF overrun \in 1 .. free THEN overrun ELSE 0
    IN  [next |-> IF cut = free THEN s.bpg ELSE Header(s, g), free |-> free - cut,
         used |-> FALSE, nodes |-> 0, table |-> FALSE]

\* init_bg: blocks past the end are taken as used.  The u32 difference is huge
\* for a group that ends before the file system, and then refused.
Fresh(s, g) ==
    LET free == s.bpg - Header(s, g)
        overrun == Start(s, g) + s.bpg - Length(s)
        cut == IF overrun \in 1 .. free THEN overrun ELSE 0
    IN  [next |-> IF cut = free THEN s.bpg ELSE Header(s, g), free |-> free - cut,
         used |-> FALSE, nodes |-> 0, table |-> FALSE]

\* ext4_create_fs_aux_info and block_allocator_init.
Init ==
    /\ shape \in Shapes
    /\ groups = [g \in G |-> Fresh(shape, g)]
    /\ queue = [i \in 1 .. Cardinality(G) |-> Bitmaps(shape, i - 1)]
    /\ inodes = <<>> /\ job = NoJob /\ phase = "sb" /\ at = 0

\* Seeded fault: group 0 gets copies as well.
BackupEverywhere ==
    /\ phase = "sb" /\ at \in G
    /\ queue' = IF HasSuper(at)
                THEN queue \o <<Backup(shape, at), BackupDesc(shape, at)>>
                ELSE queue
    /\ at' = at + 1
    /\ UNCHANGED <<shape, groups, inodes, job, phase>>

\* ext4_fill_in_sb: the superblock and the group descriptors once more.
ext4_fill_in_sb ==
    /\ phase = "sb" /\ at \in G
    /\ queue' = IF HasSuper(at) /\ at # 0
                THEN queue \o <<Backup(shape, at), BackupDesc(shape, at)>>
                ELSE queue
    /\ at' = at + 1
    /\ UNCHANGED <<shape, groups, inodes, job, phase>>

\* The first ten inodes are nobody's but those of Special.
reserve_inodes ==
    /\ phase = "sb" /\ at \notin G
    /\ groups' = [groups EXCEPT ![0].nodes = 10]
    /\ phase' = IF shape.journal > 0 THEN "journal" ELSE "resize"
    /\ UNCHANGED <<shape, inodes, job, at, queue>>

-----------------------------------------------------------------------------
(* Inodes *)

\* allocate_blocks is asked for one block more than the data have, in case an
\* extent block is needed; indirect.c asks for what it needs.
Need(r) == IF r.kind \in {"link", "resize"} THEN r.blocks ELSE r.blocks + 1

Made(num, r, entries, extents, leaf) ==
    [num |-> num, kind |-> r.kind, blocks |-> r.blocks, entries |-> entries,
     extents |-> extents, leaf |-> leaf]

\* Seeded fault: the inode table is queued when an inode is first allocated.
OpenFirst(g, num, r) ==
    /\ queue' = IF groups[g].nodes > 0 THEN queue ELSE Append(queue, Table(shape, g))
    /\ IF r.blocks = 0
       THEN inodes' = Append(inodes, Made(num, r, 0, <<>>, 0)) /\ UNCHANGED job
       ELSE /\ job' = [num |-> num, kind |-> r.kind, blocks |-> r.blocks, full |-> r.full,
                       left |-> Need(r), regions |-> <<>>]
            /\ UNCHANGED inodes

\* get_inode on number num, of group g, for request r: its inode table is queued
\* with the first inode.
Open(g, num, r) ==
    /\ queue' = IF groups[g].table THEN queue ELSE Append(queue, Table(shape, g))
    /\ IF r.blocks = 0
       THEN inodes' = Append(inodes, Made(num, r, 0, <<>>, 0)) /\ UNCHANGED job
       ELSE /\ job' = [num |-> num, kind |-> r.kind, blocks |-> r.blocks, full |-> r.full,
                       left |-> Need(r), regions |-> <<>>]
            /\ UNCHANGED inodes

\* Numbers that are not allocated: EXT4_JOURNAL_INO, EXT4_RESIZE_INO, EXT4_ROOT_INO.
Special(num) ==
    CASE num = 8 -> {[kind |-> "journal", blocks |-> shape.journal, full |-> TRUE]}
      [] num = 7 -> {[kind |-> "resize", blocks |-> 1, full |-> TRUE]}
      [] num = 2 -> {r \in Requests : r.kind = "dir"}

\* ext4_create_journal_inode, ext4_create_resize_inode, make_directory(0, ...).
OpenSpecial ==
    /\ job = NoJob
    /\ \E num \in {8, 7, 2} :
         /\ phase = CASE num = 8 -> "journal" [] num = 7 -> "resize" [] num = 2 -> "root"
         /\ \E r \in Special(num) : Open(0, num, r)
    /\ groups' = [groups EXCEPT ![0].table = TRUE]
    /\ UNCHANGED <<shape, phase, at>>

IsFirst(g, set) == g \in set /\ \A h \in set : g <= h

\* make_directory, make_file, make_link: the first free inode.
OpenNew ==
    /\ phase = "tree" /\ job = NoJob /\ Len(inodes) < MaxInodes
    /\ \E g \in G, r \in Requests :
         /\ IsFirst(g, {h \in G : groups[h].nodes < shape.ipg})
         /\ Open(g, g * shape.ipg + groups[g].nodes + 1, r)
         /\ groups' = [groups EXCEPT ![g].nodes = @ + 1, ![g].table = TRUE]
    /\ UNCHANGED <<shape, phase, at>>

\* allocate_inode finds none.
NoInode ==
    /\ phase = "tree" /\ job = NoJob /\ Len(inodes) < MaxInodes
    /\ \A g \in G : groups[g].nodes >= shape.ipg
    /\ phase' = "failed"
    /\ UNCHANGED <<shape, groups, inodes, job, at, queue>>

-----------------------------------------------------------------------------
(* Blocks *)

\* Seeded fault: a block too few will do.
RoomyButOne(n) == {g \in G : groups[g].free + 1 >= n}

Roomy(n) == {g \in G : groups[g].free >= n}
Unused == {g \in G : ~groups[g].used}

\* Seeded fault: the group does not count as used.
TakeUncounted(g, n) ==
    /\ groups' = [groups EXCEPT ![g].free = @ - n, ![g].next = @ + n]
    /\ job' = [job EXCEPT !.left = @ - n,
                          !.regions = Append(@, [block |-> Start(shape, g) + groups[g].next,
                                                 len |-> n, bg |-> g])]
    /\ UNCHANGED <<shape, inodes, phase, at, queue>>

\* ext4_allocate_blocks_from_block_group.
Take(g, n) ==
    /\ groups' = [groups EXCEPT ![g].free = @ - n, ![g].next = @ + n, ![g].used = TRUE]
    /\ job' = [job EXCEPT !.left = @ - n,
                          !.regions = Append(@, [block |-> Start(shape, g) + groups[g].next,
                                                 len |-> n, bg |-> g])]
    /\ UNCHANGED <<shape, inodes, phase, at, queue>>

\* do_allocate gets what it wants in one piece if any group has it.
AtOnce == job.regions = <<>> /\ Roomy(job.left) # {}

\* error() has not ended it.
Running == phase \notin {"failed", "spinning"}

\* Is the rest asked for in one piece?  ext4_allocate_partial does so only if the
\* first group without data has room for it.
InOnePiece == AtOnce \/ \E g \in Unused : IsFirst(g, Unused) /\ groups[g].free >= job.left

\* ext4_allocate_contiguous_blocks.
Contiguous ==
    /\ Running /\ job.left > 0 /\ InOnePiece
    /\ \E g \in G : IsFirst(g, Roomy(job.left)) /\ Take(g, job.left)

\* ext4_allocate_partial: all that the first group without data has.
Partial ==
    /\ Running /\ job.left > 0 /\ ~InOnePiece
    /\ \E g \in G : IsFirst(g, Unused) /\ groups[g].free > 0 /\ Take(g, groups[g].free)

\* A group with a header only has no data, and never will.
Spin ==
    /\ Running /\ job.left > 0 /\ ~InOnePiece
    /\ \E g \in G : IsFirst(g, Unused) /\ groups[g].free = 0
    /\ phase' = "spinning"
    /\ UNCHANGED <<shape, groups, inodes, job, at, queue>>

\* What has been taken stays taken, but error() exits.
NoRoom ==
    /\ Running /\ job.left > 0 /\ ~AtOnce /\ Unused = {}
    /\ phase' = "failed"
    /\ UNCHANGED <<shape, groups, inodes, job, at, queue>>

-----------------------------------------------------------------------------
(* Connecting blocks to inodes *)

After == [journal |-> "resize", resize |-> "root", root |-> "tree", tree |-> "tree"]

Attach(entries, extents, leaf) ==
    /\ inodes' = Append(inodes, Made(job.num, job, entries, extents, leaf))
    /\ job' = NoJob /\ phase' = After[phase]
    /\ UNCHANGED <<shape, at>>

\* extent_create_backing, extent_create_backing_file: only the contents of the
\* last region may end inside a block.
Data(regions) ==
    [i \in 1 .. Len(regions) |->
       [block |-> regions[i].block, len |-> regions[i].len, file |-> job.kind = "file",
        full |-> i < Len(regions) \/ job.full]]

\* Seeded fault: the block given back is taken off the last region.
ReducedAtEnd(regions) == [regions EXCEPT ![Len(regions)].len = @ - 1]

\* reduce_allocation(alloc, 1).  list.last is the first region; with it gone the
\* list would be empty.
Reduced(regions) ==
    IF regions[1].len > 1 THEN [regions EXCEPT ![1].len = @ - 1] ELSE <<>>

\* do_inode_allocate_extents with up to three regions: they fit in the inode, and
\* the block too many goes back.
AttachInline ==
    /\ job.kind \in {"dir", "file", "journal"} /\ job.left = 0 /\ Len(job.regions) <= 3
    /\ LET g == job.regions[1].bg
       IN  groups' = [groups EXCEPT ![g].free = @ + 1, ![g].next = @ - 1]
    /\ queue' = queue \o Data(Reduced(job.regions))
    /\ Attach(Len(job.regions), Reduced(job.regions), 0)

\* reserve_oob_blocks(alloc, 1) takes the first block, and get_oob_block is it.
\* With nothing left of the first region all others would go instead.
Leaf(regions) == IF regions[1].len > 1 THEN regions[1].block ELSE regions[2].block

\* Seeded fault: the whole region goes.
RestOnly(regions) == Tail(regions)

Rest(regions) ==
    IF regions[1].len > 1 THEN [regions EXCEPT ![1].block = @ + 1, ![1].len = @ - 1]
                          ELSE <<regions[1]>>

\* The same with more regions: the block too many becomes the extent block.
AttachLeaf ==
    /\ job.kind \in {"dir", "file", "journal"} /\ job.left = 0 /\ Len(job.regions) > 3
    /\ queue' = Append(queue, Buffer(Leaf(job.regions), 1)) \o Data(Rest(job.regions))
    /\ Attach(Len(job.regions), Rest(job.regions), Leaf(job.regions))
    /\ UNCHANGED groups

\* inode_attach_resize: the block that points to the reserved blocks, and those
\* of group 0.
AttachResize ==
    /\ job.kind = "resize" /\ job.left = 0
    /\ queue' = Append(Append(queue, Buffer(job.regions[1].block, 1)), Reserved(shape))
    /\ Attach(0, job.regions, 0)
    /\ UNCHANGED groups

\* make_link, inode_allocate_data_indirect: one block is written, and none is
\* connected to the inode.
AttachLink ==
    /\ job.kind = "link" /\ job.left = 0
    /\ queue' = Append(queue, Buffer(job.regions[1].block, 1))
    /\ Attach(0, job.regions, 0)
    /\ UNCHANGED groups

\* The tree is complete: ext4_update_free, and write_ext4_image has its layout.
Finish ==
    /\ phase = "tree" /\ job = NoJob
    /\ phase' = "done"
    /\ UNCHANGED <<shape, groups, inodes, job, at, queue>>

Next ==
    \/ ext4_fill_in_sb \/ reserve_inodes
    \/ OpenSpecial \/ OpenNew \/ NoInode
    \/ Contiguous \/ Partial \/ Spin \/ NoRoom
    \/ AttachInline \/ AttachLeaf \/ AttachResize \/ AttachLink
    \/ Finish

Spec == Init /\ [][Next]_vars /\ WF_vars(Next)

-----------------------------------------------------------------------------
(* Properties *)

\* The variables keep their types.
TypeOK ==
    /\ shape \in Shapes
    /\ groups \in [G -> Group]
    /\ inodes \in Seq(Inode)
    /\ job \in Job
    /\ phase \in {"sb", "journal", "resize", "root", "tree", "done", "failed", "spinning"}
    /\ at \in Nat
    /\ queue \in Seq(Extent)

Blocks(e) == e.block .. e.block + e.len - 1
BlocksOf(regions) == UNION {Blocks(regions[i]) : i \in 1 .. Len(regions)}
LeafOf(n) == IF n.leaf = 0 THEN {} ELSE {n.leaf}
GroupBlocks(g) == Start(shape, g) .. Start(shape, g) + shape.bpg - 1
Heads == UNION {Start(shape, g) .. Start(shape, g) + Header(shape, g) - 1 : g \in G}
HeldBy(n) == BlocksOf(n.extents) \cup LeafOf(n)
Given == (UNION {HeldBy(inodes[i]) : i \in 1 .. Len(inodes)}) \cup BlocksOf(job.regions)

\* No block is given out twice, whatever went back in between: not to two inodes,
\* not to two extents of one, not as extent block and as data, and none that is
\* part of the header of a group (reduce_allocation assumes that what it gives
\* back was the last to be allocated).
NoBlockTwice ==
    /\ Given \cap Heads = {}
    /\ \A i \in 1 .. Len(inodes) :
         LET n == inodes[i]
         IN  /\ \A j \in 1 .. i - 1 : HeldBy(n) \cap HeldBy(inodes[j]) = {}
             /\ \A k \in 1 .. Len(n.extents) : \A l \in 1 .. k - 1 :
                  Apart(Buffer(n.extents[k].block, n.extents[k].len),
                        Buffer(n.extents[l].block, n.extents[l].len))
             /\ BlocksOf(n.extents) \cap LeafOf(n) = {}

\* The counts that ext4_update_free writes are right: what is free in a group is
\* its end, down to the last block that belongs to something, and no block past
\* the end of the file system is free.
CountsRight ==
    \A g \in G :
      (Given \cup Heads) \cap GroupBlocks(g)
        = Start(shape, g) .. Start(shape, g) + Size(shape, g) - groups[g].free - 1

\* The extents of an inode cover as many blocks as its contents have, none is
\* empty, and the count in the header, taken before a block is given back, is
\* the number of extents (do_inode_allocate_extents).
WholeFiles ==
    \A i \in 1 .. Len(inodes) :
      LET n == inodes[i]
      IN  n.kind \in {"dir", "file", "journal"} =>
            /\ Cardinality(BlocksOf(n.extents)) = n.blocks
            /\ n.entries = Len(n.extents)
            /\ \A k \in 1 .. Len(n.extents) : n.extents[k].len > 0
            /\ n.leaf # 0 <=> Len(n.extents) > 3

\* An inode can be found and is written: no two have the same number, each is
\* marked in its group, and its table is among what is queued, for get_inode
\* queues a table only when it is first asked for.
InodesFindable ==
    \A i \in 1 .. Len(inodes) :
      LET num == inodes[i].num
          g == (num - 1) \div shape.ipg
      IN  /\ \A j \in 1 .. i - 1 : inodes[j].num # num
          /\ g \in G /\ (num - 1) % shape.ipg < groups[g].nodes
          /\ \E k \in 1 .. Len(queue) : queue[k] = Table(shape, g)

\* The file system that write_ext4_image is to write.
Handed == [first |-> shape.first, desc |-> shape.desc, ragged |-> shape.ragged, parts |-> queue]

\* When everything is queued it is a layout that an image of this size can have:
\* what SparseImage takes for granted.
HandsOver == phase = "done" => Fits(Handed, shape.blocks)

\* make_ext4fs() gets to the end of the tree or gives up, unless there is a group
\* with nothing but a header: then it may ask that group for blocks for ever.
Ends ==
    (\A g \in G : Header(shape, g) < Size(shape, g)) => <>(phase \in {"done", "failed"})
=============================================================================
