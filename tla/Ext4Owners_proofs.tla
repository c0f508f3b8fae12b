--------------------------- MODULE Ext4Owners_proofs ---------------------------
(***************************************************************************)
(* Proofs about Ext4Alloc: whose the blocks and the inode numbers are.      *)
(*                                                                         *)
(* What the groups have given out is what the inodes hold, each block once. *)
(* Each inode number is given once, and the table it is in is queued.  All  *)
(* of it for every shape and every tree.                                    *)
(***************************************************************************)
EXTENDS Ext4Alloc_proofs

-----------------------------------------------------------------------------
(* Sets of blocks *)

Held(ns) == UNION {HeldBy(ns[i]) : i \in 1 .. Len(ns)}

\* The part of a group between its header and its free blocks.
OutOf(s, gs, g) ==
    {p \in Int : /\ Start(s, g) + Header(s, g) <= p
                 /\ p < Start(s, g) + Size(s, g) - gs[g].free}
Out(s, gs) == UNION {OutOf(s, gs, g) : g \in Groups(s)}

LEMMA InBlocks ==
  ASSUME NEW e, e.block \in Nat, e.len \in Nat
  PROVE  \A p : p \in Blocks(e) <=> p \in Int /\ e.block <= p /\ p < e.block + e.len
BY DEF Blocks

LEMMA InRegions ==
  ASSUME NEW rs \in Seq(Region)
  PROVE  \A p : p \in BlocksOf(rs) <=>
           \E i \in 1 .. Len(rs) : p \in Int /\ rs[i].block <= p /\ p < rs[i].block + rs[i].len
<1>1. ASSUME NEW i \in 1 .. Len(rs) PROVE rs[i].block \in Nat /\ rs[i].len \in Nat
  <2>1. rs[i] \in Region
    OBVIOUS
  <2>2. QED
    BY <2>1 DEF Region
<1>2. \A p : p \in BlocksOf(rs) <=> \E i \in 1 .. Len(rs) : p \in Blocks(rs[i])
  BY DEF BlocksOf
<1>3. QED
  BY <1>1, <1>2, InBlocks

LEMMA NoBlocks == BlocksOf(<<>>) = {}
BY DEF BlocksOf

LEMMA BlocksAppend ==
  ASSUME NEW rs \in Seq(Region), NEW r \in Region
  PROVE  BlocksOf(Append(rs, r)) = BlocksOf(rs) \cup Blocks(r)
<1> DEFINE rs2 == Append(rs, r)
<1>1. /\ Len(rs2) = Len(rs) + 1 /\ Len(rs) \in Nat /\ rs2[Len(rs) + 1] = r
      /\ \A i \in 1 .. Len(rs) : rs2[i] = rs[i]
  OBVIOUS
<1> HIDE DEF rs2
<1>2. \A i : i \in 1 .. Len(rs2) <=> i \in 1 .. Len(rs) \/ i = Len(rs) + 1
  BY <1>1
<1>3. \A p : p \in BlocksOf(rs2) <=> p \in BlocksOf(rs) \/ p \in Blocks(r)
  BY <1>1, <1>2 DEF BlocksOf
<1>4. QED
  BY <1>3 DEF rs2

LEMMA GivenIs ==
  /\ Given = Held(inodes) \cup BlocksOf(job.regions)
  /\ Given' = Held(inodes') \cup BlocksOf(job'.regions)
BY DEF Given, Held

LEMMA HeldAppend ==
  ASSUME NEW ns \in Seq(Inode), NEW n \in Inode
  PROVE  /\ Held(Append(ns, n)) = Held(ns) \cup HeldBy(n)
         /\ Len(Append(ns, n)) = Len(ns) + 1 /\ Append(ns, n)[Len(ns) + 1] = n
         /\ \A i \in 1 .. Len(ns) : Append(ns, n)[i] = ns[i]
<1>1. /\ Len(Append(ns, n)) = Len(ns) + 1 /\ Append(ns, n)[Len(ns) + 1] = n
      /\ \A i \in 1 .. Len(ns) : Append(ns, n)[i] = ns[i]
  OBVIOUS
<1>2. \A p : p \in Held(Append(ns, n)) <=> p \in Held(ns) \cup HeldBy(n)
  <2> Len(ns) \in Nat
    OBVIOUS
  <2>1. \A i : i \in 1 .. Len(ns) + 1 <=> i \in 1 .. Len(ns) \/ i = Len(ns) + 1
    OBVIOUS
  <2>2. QED
    BY <1>1, <2>1 DEF Held
<1>3. QED
  BY <1>1, <1>2

-----------------------------------------------------------------------------
(* The inductive invariant *)

\* The extents of an inode do not meet, nor do they meet its extent block.
Tidy(n) ==
    /\ \A k \in 1 .. Len(n.extents) : \A l \in 1 .. k - 1 :
         Apart(Buffer(n.extents[k].block, n.extents[k].len),
               Buffer(n.extents[l].block, n.extents[l].len))
    /\ BlocksOf(n.extents) \cap LeafOf(n) = {}

Ours(ns, rs) ==
    \A i \in 1 .. Len(ns) :
      /\ Tidy(ns[i])
      /\ HeldBy(ns[i]) \cap BlocksOf(rs) = {}
      /\ \A j \in 1 .. i - 1 : HeldBy(ns[i]) \cap HeldBy(ns[j]) = {}

\* A group without data has all its blocks.
Whole(s, gs) == \A g \in Groups(s) : ~gs[g].used => gs[g].free = Size(s, g) - Header(s, g)

\* A block can go back without taking the first region with it: it is longer, or
\* the job will not get what it needs.
FirstLong(s, gs, j) ==
    j.kind \in {"dir", "file", "journal"} =>
      IF j.regions = <<>> THEN j.left > 1
      ELSE j.regions[1].len > 1 \/ (j.left > 0 /\ \A g \in Groups(s) : gs[g].used)

Ledger ==
    /\ Given = Out(shape, groups)
    /\ Ours(inodes, job.regions)
    /\ Whole(shape, groups) /\ FirstLong(shape, groups, job)

LEMMA OutSame ==
  ASSUME NEW s, NEW gs, NEW gs2, \A g \in Groups(s) : gs2[g].free = gs[g].free
  PROVE  Out(s, gs2) = Out(s, gs)
BY DEF Out, OutOf

LEMMA InitLedger == Init => Ledger
<1> SUFFICES ASSUME Init PROVE Ledger
  OBVIOUS
<1>1. /\ shape \in Shapes /\ groups = [g \in Groups(shape) |-> Fresh(shape, g)]
      /\ inodes = <<>> /\ job = NoJob /\ NoJob.regions = <<>> /\ NoJob.kind = "none"
  BY DEF Init, G, NoJob
<1>2. ASSUME NEW g \in Groups(shape)
      PROVE  groups[g].free = Size(shape, g) - Header(shape, g)
  BY <1>1, FreshFacts
<1>3. Given = {}
  BY <1>1, NoBlocks, GivenIs DEF Held
<1>4. \A g \in Groups(shape) : OutOf(shape, groups, g) = {}
  <2> TAKE g \in Groups(shape)
  <2>1. Start(shape, g) \in Nat /\ Size(shape, g) \in Nat /\ Header(shape, g) \in Nat
    BY <1>1, ShapesOK, GroupsAre, AheadFacts, SizeFacts
  <2>2. QED
    BY <1>2, <2>1 DEF OutOf
<1>5. Out(shape, groups) = {}
  BY <1>4 DEF Out
<1>6. QED
  BY <1>1, <1>2, <1>3, <1>5 DEF Ledger, Ours, Whole, FirstLong

-----------------------------------------------------------------------------
(* What a group gives out and takes back *)

LEMMA OutWhere ==
  ASSUME NEW s \in Shapes, NEW gs \in [Groups(s) -> Group], NEW p \in Int,
         NEW g \in Groups(s), Start(s, g) <= p, p < Start(s, g) + Size(s, g)
  PROVE  p \in Out(s, gs) <=> p \in OutOf(s, gs, g)
<1>1. ASSUME NEW h \in Groups(s), p \in OutOf(s, gs, h), h # g PROVE FALSE
  <2>1. /\ Start(s, g) \in Nat /\ Start(s, h) \in Nat /\ Size(s, g) \in Nat /\ Size(s, h) \in Nat
        /\ Header(s, h) \in Nat /\ gs[h].free \in Nat
    BY ShapesOK, GroupsAre, AheadFacts, SizeFacts DEF Group
  <2>2. Start(s, h) <= p /\ p < Start(s, h) + Size(s, h)
    BY <1>1, <2>1 DEF OutOf
  <2>3. QED
    BY <1>1, <2>1, <2>2, GroupsApart
<1>2. QED
  BY <1>1 DEF Out

(* Only the group that changes matters. *)
LEMMA OutChange ==
  ASSUME NEW s \in Shapes, NEW gs \in [Groups(s) -> Group], NEW gs2 \in [Groups(s) -> Group],
         NEW g \in Groups(s), \A h \in Groups(s) : h # g => gs2[h].free = gs[h].free
  PROVE  \A p : p \in Out(s, gs2) <=>
           IF p \in Int /\ Start(s, g) <= p /\ p < Start(s, g) + Size(s, g)
           THEN p \in OutOf(s, gs2, g) ELSE p \in Out(s, gs)
<1> SUFFICES ASSUME NEW p, ~(p \in Int /\ Start(s, g) <= p /\ p < Start(s, g) + Size(s, g))
             PROVE  p \in Out(s, gs2) <=> p \in Out(s, gs)
  BY OutWhere
<1>1. /\ Start(s, g) \in Nat /\ Size(s, g) \in Nat /\ Header(s, g) \in Nat
      /\ gs[g].free \in Nat /\ gs2[g].free \in Nat
  BY ShapesOK, GroupsAre, AheadFacts, SizeFacts DEF Group
<1>2. p \notin OutOf(s, gs, g) /\ p \notin OutOf(s, gs2, g)
  BY <1>1 DEF OutOf
<1>3. \A h \in Groups(s) : h # g => (p \in OutOf(s, gs, h) <=> p \in OutOf(s, gs2, h))
  BY DEF OutOf
<1>4. QED
  BY <1>2, <1>3 DEF Out

(* Steps that give nothing out. *)
LEMMA SameLedger ==
  ASSUME Ledger, UNCHANGED <<shape, inodes, job>>,
         \A g \in Groups(shape) : /\ groups'[g].free = groups[g].free
                                  /\ groups'[g].used = groups[g].used
  PROVE  Ledger'
<1>1. Given' = Given
  BY GivenIs DEF Given
<1>2. Out(shape, groups') = Out(shape, groups)
  BY OutSame
<1>3. QED
  BY <1>1, <1>2 DEF Ledger, Whole, FirstLong

LEMMA QuietLedger ==
  ASSUME IInv, Ledger,
         ext4_fill_in_sb \/ reserve_inodes \/ NoInode \/ Spin \/ NoRoom \/ Finish
           \/ UNCHANGED vars
  PROVE  Ledger'
<1>1. groups \in [Groups(shape) -> Group] /\ 0 \in Groups(shape)
  BY GroupsAre DEF IInv, TypeOK, G
<1>2. UNCHANGED <<shape, inodes, job>>
  BY DEF ext4_fill_in_sb, reserve_inodes, NoInode, Spin, NoRoom, Finish, vars
<1>3. CASE UNCHANGED groups
  BY <1>2, <1>3, SameLedger
<1>4. CASE reserve_inodes
  <2>1. groups' = [groups EXCEPT ![0].nodes = 10]
    BY <1>4 DEF reserve_inodes
  <2>2. \A g \in Groups(shape) : /\ groups'[g].free = groups[g].free
                                 /\ groups'[g].used = groups[g].used
    BY <1>1, <2>1 DEF Group
  <2>3. QED
    BY <1>2, <2>2, SameLedger
<1>5. QED
  BY <1>3, <1>4 DEF ext4_fill_in_sb, NoInode, Spin, NoRoom, Finish, vars

(* An inode that gets a number has no blocks yet. *)
LEMMA OpenLedger ==
  ASSUME IInv, Ledger, job = NoJob, NEW g \in G, NEW num \in Nat, NEW r, Open(g, num, r),
         r.kind \in Kinds, r.blocks \in Nat, UNCHANGED shape,
         \A h \in G : groups'[h].free = groups[h].free /\ groups'[h].used = groups[h].used
  PROVE  Ledger'
<1>1. NoJob.regions = <<>> /\ NoJob.kind = "none" /\ inodes \in Seq(Inode)
  BY DEF NoJob, IInv, TypeOK
<1>2. Out(shape, groups') = Out(shape, groups) /\ Whole(shape, groups')
  BY OutSame DEF Ledger, Whole, G
<1>3. CASE r.blocks = 0
  <2> DEFINE n == Made(num, r, 0, <<>>, 0)
  <2>1. inodes' = Append(inodes, n) /\ job' = NoJob
    BY <1>3 DEF Open
  <2>2. n \in Inode /\ HeldBy(n) = {} /\ Tidy(n)
    BY NoBlocks DEF Made, Inode, HeldBy, LeafOf, Tidy
  <2> HIDE DEF n
  <2>3. Given' = Given
    BY <1>1, <2>1, <2>2, GivenIs, HeldAppend
  <2>4. Ours(inodes', job'.regions)
    <3> DEFINE l == Len(inodes)
               ns == Append(inodes, n)
    <3>1. /\ l \in Nat /\ Len(ns) = l + 1 /\ ns[l + 1] = n
          /\ \A i \in 1 .. l : ns[i] = inodes[i]
      BY <1>1, <2>2, HeldAppend
    <3>2. Ours(inodes, <<>>)
      BY <1>1 DEF Ledger
    <3> HIDE DEF l, ns
    <3>3. ASSUME NEW i \in 1 .. l + 1
          PROVE  /\ Tidy(ns[i]) /\ HeldBy(ns[i]) \cap BlocksOf(<<>>) = {}
                 /\ \A j \in 1 .. i - 1 : HeldBy(ns[i]) \cap HeldBy(ns[j]) = {}
      <4>1. CASE i = l + 1
        BY <2>2, <3>1, <4>1
      <4>2. CASE i \in 1 .. l
        <5>1. Tidy(inodes[i]) /\ \A j \in 1 .. i - 1 : HeldBy(inodes[i]) \cap HeldBy(inodes[j]) = {}
          BY <3>2, <4>2 DEF Ours, l
        <5>2. ns[i] = inodes[i] /\ \A j \in 1 .. i - 1 : ns[j] = inodes[j]
          BY <3>1, <4>2
        <5>3. QED
          BY <5>1, <5>2, NoBlocks
      <4>3. QED
        BY <3>1, <4>1, <4>2
    <3>4. QED
      BY <1>1, <2>1, <3>1, <3>3 DEF Ours, ns
  <2>5. QED
    BY <1>1, <1>2, <2>1, <2>3, <2>4 DEF Ledger, FirstLong
<1>4. CASE r.blocks # 0
  <2>1. /\ job'.regions = <<>> /\ job'.kind = r.kind /\ job'.left = Need(r)
        /\ UNCHANGED inodes
    BY <1>4 DEF Open
  <2>2. Given' = Given
    BY <1>1, <2>1, GivenIs
  <2>3. FirstLong(shape, groups', job')
    BY <1>4, <2>1 DEF FirstLong, Need
  <2>4. QED
    BY <1>1, <1>2, <2>1, <2>2, <2>3 DEF Ledger
<1>5. QED
  BY <1>3, <1>4

LEMMA OpensLedger == IInv /\ Ledger /\ (OpenSpecial \/ OpenNew) => Ledger'
<1> SUFFICES ASSUME IInv, Ledger, OpenSpecial \/ OpenNew PROVE Ledger'
  OBVIOUS
<1>1. /\ shape \in Shapes /\ shape \in Shape /\ 0 \in G /\ groups \in [G -> Group]
      /\ G \subseteq Nat
  BY ShapesOK, GroupsAre DEF IInv, TypeOK, G
<1>2. job = NoJob /\ UNCHANGED shape
  BY DEF OpenSpecial, OpenNew
<1>3. CASE OpenSpecial
  <2>1. PICK num \in {8, 7, 2} : \E r \in Special(num) : Open(0, num, r)
    BY <1>3 DEF OpenSpecial
  <2>2. PICK r \in Special(num) : Open(0, num, r)
    BY <2>1
  <2>3. r.kind \in Kinds /\ r.blocks \in Nat
    <3>1. num = 8 => r = [kind |-> "journal", blocks |-> shape.journal, full |-> TRUE]
      BY <2>2 DEF Special
    <3>2. num = 7 => r = [kind |-> "resize", blocks |-> 1, full |-> TRUE]
      BY <2>2 DEF Special
    <3>3. num = 2 => r \in Requests
      BY <2>2 DEF Special
    <3>4. CASE num = 2
      BY <3>3, <3>4, RequestsOK DEF Request, Kinds
    <3>5. CASE num # 2
      BY <1>1, <3>1, <3>2, <3>5 DEF Shape, Kinds
    <3>6. QED
      BY <3>4, <3>5
  <2>4. groups' = [groups EXCEPT ![0].table = TRUE]
    BY <1>3 DEF OpenSpecial
  <2>5. \A h \in G : groups'[h].free = groups[h].free /\ groups'[h].used = groups[h].used
    BY <1>1, <2>4 DEF Group
  <2>6. num \in Nat
    OBVIOUS
  <2>7. QED
    BY <1>1, <1>2, <2>2, <2>3, <2>5, <2>6, OpenLedger
<1>4. CASE OpenNew
  <2>1. PICK g \in G, r \in Requests :
          /\ Open(g, g * shape.ipg + groups[g].nodes + 1, r)
          /\ groups' = [groups EXCEPT ![g].nodes = @ + 1, ![g].table = TRUE]
    BY <1>4 DEF OpenNew
  <2>2. g * shape.ipg + groups[g].nodes + 1 \in Nat
    <3>1. g \in Nat /\ shape.ipg \in Nat /\ groups[g].nodes \in Nat
      BY <1>1 DEF Shape, Group
    <3>2. g * shape.ipg \in Nat
      BY <3>1
    <3>3. QED
      BY <3>1, <3>2
  <2>3. r.kind \in Kinds /\ r.blocks \in Nat
    BY RequestsOK DEF Request, Kinds
  <2>4. \A h \in G : groups'[h].free = groups[h].free /\ groups'[h].used = groups[h].used
    <3>1. groups[g] \in Group /\ groups' = [groups EXCEPT ![g] = groups'[g]]
          /\ groups'[g] = [groups[g] EXCEPT !.nodes = @ + 1, !.table = TRUE]
      BY <1>1, <2>1
    <3>2. groups'[g].free = groups[g].free /\ groups'[g].used = groups[g].used
      BY <3>1 DEF Group
    <3>3. \A h \in G : h # g => groups'[h] = groups[h]
      BY <1>1, <3>1
    <3>4. QED
      BY <3>2, <3>3
  <2>5. QED
    BY <1>1, <1>2, <2>1, <2>2, <2>3, <2>4, OpenLedger
<1>5. QED
  BY <1>3, <1>4

-----------------------------------------------------------------------------
(* Blocks are taken *)

(* What a group gives is nobody's: the first of its free blocks. *)
LEMMA TakeLedger ==
  ASSUME IInv, Ledger, NEW g \in G, NEW n \in Nat, 0 < n, n <= groups[g].free, Take(g, n),
         FirstLong(shape, groups', job')
  PROVE  Ledger'
<1> DEFINE r == [block |-> Start(shape, g) + groups[g].next, len |-> n, bg |-> g]
           rs == job.regions
           rs2 == Append(rs, r)
           a == Start(shape, g)
           k == Header(shape, g)
           z == Size(shape, g)
           f == groups[g].free
<1>1. /\ shape \in Shapes /\ shape \in Shape /\ G \subseteq Nat /\ G = Groups(shape)
      /\ groups \in [G -> Group] /\ job \in Job /\ inodes \in Seq(Inode)
  BY ShapesOK, GroupsAre DEF IInv, TypeOK, G
<1>2. /\ groups' = [groups EXCEPT ![g].free = @ - n, ![g].next = @ + n, ![g].used = TRUE]
      /\ job' = [job EXCEPT !.left = @ - n, !.regions = Append(@, r)]
      /\ UNCHANGED <<shape, inodes>>
  BY DEF Take
<1>3. /\ a \in Nat /\ k \in Nat /\ z \in Nat /\ f \in Nat /\ groups[g].next \in Nat
  BY <1>1, AheadFacts, SizeFacts DEF Group, G
<1>4. groups[g].next = z - f /\ f <= z - k
  BY <1>3 DEF IInv, Bump, G
<1>5. /\ groups'[g].free = f - n /\ groups'[g].used
      /\ \A h \in G : h # g => groups'[h] = groups[h]
      /\ groups' \in [G -> Group]
  BY <1>1, <1>2, <1>3 DEF Group
<1>6. r \in Region /\ r.block = a + z - f /\ r.len = n
  BY <1>1, <1>3, <1>4 DEF Region
<1>7. rs \in Seq(Region) /\ job'.regions = rs2
  BY <1>1, <1>2 DEF Job
<1>8. \A p : p \in BlocksOf(rs2) <=> p \in BlocksOf(rs) \/ p \in Blocks(r)
  <2> HIDE DEF r, rs
  <2>1. QED
    BY <1>6, <1>7, BlocksAppend
<1>9. \A p : p \in Blocks(r) <=> p \in Int /\ a + z - f <= p /\ p < a + z - f + n
  BY <1>3, <1>6, InBlocks
<1> HIDE DEF r, rs, rs2, a, k, z, f
<1>10. ASSUME NEW p
       PROVE  /\ p \in Out(shape, groups') <=> p \in Out(shape, groups) \/ p \in Blocks(r)
              /\ ~(p \in Out(shape, groups) /\ p \in Blocks(r))
  <2>1. p \in Out(shape, groups') <=>
          IF p \in Int /\ a <= p /\ p < a + z
          THEN p \in OutOf(shape, groups', g) ELSE p \in Out(shape, groups)
    BY <1>1, <1>5, OutChange DEF a, z
  <2>2. CASE p \in Int /\ a <= p /\ p < a + z
    <3>1. p \in Out(shape, groups) <=> p \in OutOf(shape, groups, g)
      BY <1>1, <2>2, OutWhere DEF a, z
    <3>2. p \in OutOf(shape, groups, g) <=> a + k <= p /\ p < a + z - f
      BY <2>2 DEF OutOf, a, k, z, f
    <3>3. p \in OutOf(shape, groups', g) <=> a + k <= p /\ p < a + z - (f - n)
      BY <1>5, <2>2 DEF OutOf, a, k, z
    <3>4. QED
      BY <1>3, <1>4, <1>9, <2>1, <2>2, <3>1, <3>2, <3>3
  <2>3. CASE ~(p \in Int /\ a <= p /\ p < a + z)
    <3>1. n <= f
      BY DEF f
    <3>2. p \notin Blocks(r)
      BY <1>3, <1>4, <1>9, <2>3, <3>1
    <3>3. QED
      BY <2>1, <2>3, <3>2
  <2>4. QED
    BY <2>2, <2>3
<1>11. Given' = Out(shape, groups')
  <2>1. Given' = Held(inodes) \cup BlocksOf(rs2) /\ Given = Held(inodes) \cup BlocksOf(rs)
    BY <1>2, <1>7, GivenIs DEF rs
  <2>2. QED
    BY <1>8, <1>10, <2>1 DEF Ledger
<1>12. Ours(inodes, rs2)
  <2>1. \A i \in 1 .. Len(inodes) : HeldBy(inodes[i]) \subseteq Out(shape, groups)
    BY GivenIs DEF Ledger, Held
  <2>2. \A i \in 1 .. Len(inodes) : HeldBy(inodes[i]) \cap BlocksOf(rs2) = {}
    BY <1>8, <1>10, <2>1 DEF Ledger, Ours, rs
  <2>3. QED
    BY <2>2 DEF Ledger, Ours
<1>13. Whole(shape, groups')
  BY <1>1, <1>5 DEF Ledger, Whole
<1>14. QED
  BY <1>2, <1>7, <1>11, <1>12, <1>13 DEF Ledger

(* The first region of a job has a block to give back. *)
LEMMA FirstRegion ==
  ASSUME IInv, Ledger, NEW g \in G, NEW n \in Nat, Take(g, n), n <= job.left,
         job.regions = <<>> => n > 1 \/ (n < job.left /\ \A h \in G : h # g => groups[h].used),
         job.regions # <<>> => \E h \in G : ~groups[h].used
  PROVE  FirstLong(shape, groups', job')
<1> DEFINE r == [block |-> Start(shape, g) + groups[g].next, len |-> n, bg |-> g]
           rs == job.regions
           rs2 == Append(rs, r)
<1>1. job \in Job /\ groups \in [G -> Group] /\ G = Groups(shape)
  BY DEF IInv, TypeOK, G
<1>2. rs \in Seq(Region) /\ job.left \in Nat
  BY <1>1 DEF Job
<1>3. /\ job'.regions = rs2 /\ job'.kind = job.kind /\ job'.left = job.left - n
  BY <1>1, <1>2 DEF Take, Job
<1>4. groups'[g].used /\ \A h \in G : groups[h].used => groups'[h].used
  BY <1>1 DEF Take, Group
<1>5. r.len = n
  OBVIOUS
<1> HIDE DEF r
<1>6. rs2 # <<>> /\ (rs = <<>> => rs2[1] = r) /\ (rs # <<>> => rs2[1] = rs[1])
  <2> HIDE DEF rs
  <2>1. rs2 # <<>>
    BY <1>2
  <2>2. Len(rs) \in Nat /\ (rs # <<>> => Len(rs) > 0) /\ (rs = <<>> => Len(rs) = 0)
    BY <1>2
  <2>3. QED
    BY <1>2, <2>1, <2>2
<1> HIDE DEF rs, rs2
<1>7. CASE rs = <<>>
  BY <1>1, <1>2, <1>3, <1>4, <1>5, <1>6, <1>7 DEF FirstLong, rs
<1>8. CASE rs # <<>>
  BY <1>1, <1>3, <1>6, <1>8 DEF FirstLong, Ledger, rs
<1>9. QED
  BY <1>7, <1>8

LEMMA AllocateLedger == IInv /\ Ledger /\ (Contiguous \/ Partial) => Ledger'
<1> SUFFICES ASSUME IInv, Ledger, Contiguous \/ Partial PROVE Ledger'
  OBVIOUS
<1>1. /\ groups \in [G -> Group] /\ job \in Job /\ shape \in Shapes /\ G = Groups(shape)
      /\ job.left \in Nat
  BY DEF IInv, TypeOK, G, Job
<1>2. PICK m \in Nat : G = 0 .. m
  BY <1>1, GroupsAre
<1>3. job.kind \in {"dir", "file", "journal"} /\ job.regions = <<>> => job.left > 1
  BY DEF Ledger, FirstLong
<1>4. CASE Contiguous
  <2>1. PICK g \in G : IsFirst(g, Roomy(job.left)) /\ Take(g, job.left)
    BY <1>4 DEF Contiguous
  <2>2. 0 < job.left /\ job.left <= groups[g].free
    BY <1>1, <1>4, <2>1 DEF Contiguous, IsFirst, Roomy, Group
  <2>3. job.regions # <<>> => \E h \in G : ~groups[h].used
    BY <1>4 DEF Contiguous, InOnePiece, AtOnce, IsFirst, Unused
  <2>4. FirstLong(shape, groups', job')
    <3>1. CASE job.kind \in {"dir", "file", "journal"}
      BY <1>1, <1>3, <2>1, <2>3, <3>1, FirstRegion
    <3>2. CASE job.kind \notin {"dir", "file", "journal"}
      BY <1>1, <2>1, <3>2 DEF Take, FirstLong, Job
    <3>3. QED
      BY <3>1, <3>2
  <2>5. QED
    BY <1>1, <2>1, <2>2, <2>4, TakeLedger
<1>5. CASE Partial
  <2>1. PICK g \in G : IsFirst(g, Unused) /\ groups[g].free > 0 /\ Take(g, groups[g].free)
    BY <1>5 DEF Partial
  <2> DEFINE n == groups[g].free
  <2>2. n \in Nat /\ 0 < n
    BY <1>1, <2>1 DEF Group
  <2>3. n < job.left
    <3>1. g \in Unused /\ IsFirst(g, Unused)
      BY <2>1 DEF IsFirst
    <3>2. ~(n >= job.left)
      BY <1>5, <3>1 DEF Partial, InOnePiece
    <3>3. QED
      BY <1>1, <2>2, <3>2
  <2>4. ~groups[g].used /\ \A h \in G : h < g => groups[h].used
    BY <1>2, <2>1 DEF IsFirst, Unused
  <2>5. n > 1 \/ \A h \in G : h # g => groups[h].used
    <3>1. CASE g + 1 \in G
      <4>1. /\ Size(shape, g) = shape.bpg /\ Header(shape, g) + 2 <= shape.bpg
            /\ n = Size(shape, g) - Header(shape, g)
        BY <1>1, <2>4, <3>1, SizeFacts DEF Ledger, Whole
      <4>2. Header(shape, g) \in Nat /\ shape.bpg \in Nat
        BY <1>1, ShapesOK, GroupsAre, AheadFacts DEF Shape
      <4>3. QED
        BY <2>2, <4>1, <4>2
    <3>2. CASE g + 1 \notin G
      <4>1. \A h \in G : h # g => h < g
        BY <1>2, <3>2
      <4>2. QED
        BY <2>4, <4>1
    <3>3. QED
      BY <3>1, <3>2
  <2> HIDE DEF n
  <2>6. Take(g, n)
    BY <2>1 DEF n
  <2>7. FirstLong(shape, groups', job')
    BY <1>1, <2>2, <2>3, <2>4, <2>5, <2>6, FirstRegion
  <2>8. n <= groups[g].free
    BY <2>2 DEF n
  <2>9. QED
    BY <2>2, <2>6, <2>7, <2>8, TakeLedger
<1>6. QED
  BY <1>4, <1>5

-----------------------------------------------------------------------------
(* Blocks get an owner *)

(* What a job had and its inode has not went back to the groups. *)
LEMMA AttachedLedger ==
  ASSUME IInv, Ledger, job.left = 0, job.kind # "none",
         NEW entries \in Nat, NEW extents \in Seq(Region), NEW leaf \in Nat,
         Attach(entries, extents, leaf), Tidy(Made(job.num, job, entries, extents, leaf)),
         NEW back, HeldBy(Made(job.num, job, entries, extents, leaf)) \subseteq BlocksOf(job.regions),
         back = BlocksOf(job.regions) \ HeldBy(Made(job.num, job, entries, extents, leaf)),
         \A p : p \in Out(shape, groups') <=> p \in Out(shape, groups) /\ p \notin back,
         \A g \in G : /\ groups'[g].used = groups[g].used
                      /\ ~groups[g].used => groups'[g].free = groups[g].free
  PROVE  Ledger'
<1> DEFINE n == Made(job.num, job, entries, extents, leaf)
           rs == job.regions
<1>1. /\ inodes' = Append(inodes, n) /\ job' = NoJob /\ UNCHANGED shape
      /\ NoJob.regions = <<>> /\ NoJob.kind = "none"
  BY DEF Attach, NoJob
<1>2. inodes \in Seq(Inode) /\ job \in Job
  BY DEF IInv, TypeOK
<1>3. n \in Inode
  <2>1. job.num \in Nat /\ job.kind \in Kinds /\ job.blocks \in Nat
    BY <1>2 DEF Job
  <2>2. QED
    BY <2>1 DEF Made, Inode
<1>4. HeldBy(n) \subseteq BlocksOf(rs) /\ Tidy(n) /\ back = BlocksOf(rs) \ HeldBy(n)
  OBVIOUS
<1>5. \A i \in 1 .. Len(inodes) : HeldBy(inodes[i]) \cap BlocksOf(rs) = {}
  BY DEF Ledger, Ours
<1> HIDE DEF n, rs
<1>6. Given' = Out(shape, groups')
  <2>1. Given' = Held(inodes) \cup HeldBy(n)
    BY <1>1, <1>2, <1>3, GivenIs, HeldAppend, NoBlocks
  <2>2. Out(shape, groups) = Held(inodes) \cup BlocksOf(rs)
    BY GivenIs DEF Ledger, rs
  <2>3. Held(inodes) \cap BlocksOf(rs) = {}
    BY <1>5 DEF Held
  <2>4. QED
    BY <1>4, <2>1, <2>2, <2>3
<1>7. Ours(inodes', <<>>)
  <2> DEFINE l == Len(inodes)
             ns == Append(inodes, n)
  <2>1. /\ l \in Nat /\ Len(ns) = l + 1 /\ ns[l + 1] = n
        /\ \A i \in 1 .. l : ns[i] = inodes[i]
    BY <1>2, <1>3, HeldAppend
  <2>2. \A i \in 1 .. l : /\ Tidy(inodes[i])
                          /\ \A j \in 1 .. i - 1 : HeldBy(inodes[i]) \cap HeldBy(inodes[j]) = {}
                          /\ HeldBy(n) \cap HeldBy(inodes[i]) = {}
    BY <1>4, <1>5 DEF Ledger, Ours
  <2> HIDE DEF l, ns
  <2>3. ASSUME NEW i \in 1 .. l + 1
        PROVE  /\ Tidy(ns[i]) /\ HeldBy(ns[i]) \cap BlocksOf(<<>>) = {}
               /\ \A j \in 1 .. i - 1 : HeldBy(ns[i]) \cap HeldBy(ns[j]) = {}
    <3>1. CASE i = l + 1
      <4>1. ns[i] = n /\ \A j \in 1 .. i - 1 : ns[j] = inodes[j] /\ j \in 1 .. l
        BY <2>1, <3>1
      <4>2. QED
        BY <1>4, <2>2, <4>1, NoBlocks
    <3>2. CASE i \in 1 .. l
      <4>1. ns[i] = inodes[i] /\ \A j \in 1 .. i - 1 : ns[j] = inodes[j]
        BY <2>1, <3>2
      <4>2. QED
        BY <2>2, <3>2, <4>1, NoBlocks
    <3>3. QED
      BY <2>1, <3>1, <3>2
  <2>4. QED
    BY <1>1, <2>1, <2>3 DEF Ours, ns
<1>8. Whole(shape, groups')
  BY DEF Ledger, Whole, G
<1>9. QED
  BY <1>1, <1>6, <1>7, <1>8 DEF Ledger, FirstLong

\* What is left of regions rs when block x of the first one is taken out.
Without(ps, rs, x) ==
    /\ ps \in Seq(Region) /\ Len(ps) = Len(rs)
    /\ \A i \in 1 .. Len(rs) : i # 1 => ps[i] = rs[i]
    /\ x \notin Blocks(ps[1]) /\ Blocks(rs[1]) = Blocks(ps[1]) \cup {x}

LEMMA ReducedIs ==
  ASSUME NEW rs \in Seq(Region), rs # <<>>, rs[1].len > 1
  PROVE  Without(Reduced(rs), rs, rs[1].block + rs[1].len - 1)
<1> DEFINE r == [block |-> rs[1].block, len |-> rs[1].len - 1, bg |-> rs[1].bg]
           ps == [rs EXCEPT ![1] = r]
           b == rs[1].block
           l == rs[1].len
<1>1. 1 \in 1 .. Len(rs) /\ rs[1] \in Region
  OBVIOUS
<1>2. b \in Nat /\ l \in Nat /\ l > 1 /\ rs[1].bg \in Nat
  BY <1>1 DEF Region
<1>3. Reduced(rs) = ps
  <2>1. [rs[1] EXCEPT !.len = rs[1].len - 1] = r
    <3> DEFINE m == rs[1].len - 1
               r1 == rs[1]
    <3> r1 \in Region
      BY <1>1
    <3> HIDE DEF m, r1
    <3>1. [r1 EXCEPT !.len = m] = [block |-> r1.block, len |-> m, bg |-> r1.bg]
      BY SMTT(30) DEF Region
    <3>2. QED
      BY <3>1 DEF m, r1
  <2>2. Reduced(rs) = [rs EXCEPT ![1] = [rs[1] EXCEPT !.len = rs[1].len - 1]]
    BY <1>1 DEF Reduced
  <2>3. QED
    BY <2>1, <2>2
<1>4. r \in Region /\ r.block = b /\ r.len = l - 1
  BY <1>2 DEF Region
<1> HIDE DEF r
<1>5. /\ ps \in Seq(Region) /\ Len(ps) = Len(rs) /\ ps[1] = r
      /\ \A i \in 1 .. Len(rs) : i # 1 => ps[i] = rs[i]
  BY <1>1, <1>4
<1> HIDE DEF ps
<1>6. \A p : /\ p \in Blocks(rs[1]) <=> p \in Int /\ b <= p /\ p < b + l
             /\ p \in Blocks(r) <=> p \in Int /\ b <= p /\ p < b + l - 1
  <2>1. \A p : p \in Blocks(rs[1]) <=> p \in Int /\ b <= p /\ p < b + l
    BY <1>2, InBlocks
  <2>2. r.len \in Nat
    BY <1>2, <1>4
  <2>3. \A p : p \in Blocks(r) <=> p \in Int /\ r.block <= p /\ p < r.block + r.len
    BY <1>2, <1>4, <2>2, InBlocks
  <2>4. QED
    BY <1>2, <1>4, <2>1, <2>3
<1> HIDE DEF b, l
<1>7. b + l - 1 \notin Blocks(r) /\ Blocks(rs[1]) = Blocks(r) \cup {b + l - 1}
  BY <1>2, <1>6
<1>8. QED
  BY <1>3, <1>5, <1>7 DEF Without, b, l

LEMMA RestIs ==
  ASSUME NEW rs \in Seq(Region), rs # <<>>, rs[1].len > 1
  PROVE  Without(Rest(rs), rs, rs[1].block) /\ Leaf(rs) = rs[1].block
<1> DEFINE r == [block |-> rs[1].block + 1, len |-> rs[1].len - 1, bg |-> rs[1].bg]
           ps == [rs EXCEPT ![1] = r]
           b == rs[1].block
           l == rs[1].len
<1>1. 1 \in 1 .. Len(rs) /\ rs[1] \in Region
  OBVIOUS
<1>2. b \in Nat /\ l \in Nat /\ l > 1 /\ rs[1].bg \in Nat
  BY <1>1 DEF Region
<1>3. Rest(rs) = ps
  <2>1. r = [rs[1] EXCEPT !.block = rs[1].block + 1, !.len = rs[1].len - 1]
    <3> DEFINE c == rs[1].block + 1
               m == rs[1].len - 1
               r1 == rs[1]
    <3> r1 \in Region
      BY <1>1
    <3> HIDE DEF c, m, r1
    <3> DEFINE r2 == [block |-> c, len |-> r1.len, bg |-> r1.bg]
    <3>1. [r1 EXCEPT !.block = c] = r2
      BY SMTT(30) DEF Region
    <3>2. [r2 EXCEPT !.len = m] = [block |-> c, len |-> m, bg |-> r1.bg]
      OBVIOUS
    <3>3. [r1 EXCEPT !.block = c, !.len = m] = [r2 EXCEPT !.len = m]
      BY <3>1
    <3>4. [r1 EXCEPT !.block = c, !.len = m] = [block |-> c, len |-> m, bg |-> r1.bg]
      BY <3>2, <3>3
    <3>5. QED
      BY <3>4 DEF c, m, r1
  <2>2. Rest(rs) = [rs EXCEPT ![1] = [rs[1] EXCEPT !.block = rs[1].block + 1,
                                                   !.len = rs[1].len - 1]]
    BY <1>1 DEF Rest
  <2>3. QED
    BY <2>1, <2>2
<1>4. r \in Region /\ r.block = b + 1 /\ r.len = l - 1
  <2>1. b + 1 \in Nat /\ l - 1 \in Nat \ {0}
    BY <1>2
  <2>2. QED
    BY <1>2, <2>1 DEF Region
<1> HIDE DEF r
<1>5. /\ ps \in Seq(Region) /\ Len(ps) = Len(rs) /\ ps[1] = r
      /\ \A i \in 1 .. Len(rs) : i # 1 => ps[i] = rs[i]
  BY <1>1, <1>4
<1> HIDE DEF ps
<1>6. \A p : /\ p \in Blocks(rs[1]) <=> p \in Int /\ b <= p /\ p < b + l
             /\ p \in Blocks(r) <=> p \in Int /\ b + 1 <= p /\ p < b + l
  <2>1. \A p : p \in Blocks(rs[1]) <=> p \in Int /\ b <= p /\ p < b + l
    BY <1>2, InBlocks
  <2>2. r.len \in Nat /\ r.block \in Nat
    BY <1>2, <1>4
  <2>3. \A p : p \in Blocks(r) <=> p \in Int /\ r.block <= p /\ p < r.block + r.len
    BY <2>2, InBlocks
  <2>4. QED
    BY <1>2, <1>4, <2>1, <2>3
<1> HIDE DEF b, l
<1>7. b \notin Blocks(r) /\ Blocks(rs[1]) = Blocks(r) \cup {b}
  BY <1>2, <1>6
<1>8. Leaf(rs) = rs[1].block
  BY DEF Leaf
<1>9. QED
  BY <1>3, <1>5, <1>7, <1>8 DEF Without, b

(* Regions of different groups, and parts of them, do not meet. *)
LEMMA PartsApart ==
  ASSUME NEW s \in Shapes, NEW gs \in [Groups(s) -> Group], NEW rs \in Seq(Region),
         Placed(s, rs, gs), Distinct(rs), NEW ps, PartOf(ps, rs)
  PROVE  \A i, j \in 1 .. Len(ps) : i # j => Apart(ps[i], ps[j])
<1>1. ASSUME NEW i \in 1 .. Len(ps)
      PROVE  /\ Inside(ps[i], s, rs[i].bg) /\ rs[i].bg \in Groups(s)
             /\ i \in 1 .. Len(rs) /\ ps[i].block \in Nat /\ ps[i].len \in Nat
  <2>1. ps[i] \in Region /\ i \in 1 .. Len(rs)
    BY DEF PartOf
  <2>2. QED
    BY <2>1, PartWithin DEF Region
<1>2. ASSUME NEW i \in 1 .. Len(ps), NEW j \in 1 .. Len(ps), i # j PROVE Apart(ps[i], ps[j])
  <2>1. rs[i].bg # rs[j].bg
    BY <1>1, <1>2 DEF Distinct
  <2>2. QED
    BY <1>1, <2>1, Elsewhere
<1>3. QED
  BY <1>2

LEMMA ApartBlocks ==
  ASSUME NEW d, NEW e, d.block \in Nat, d.len \in Nat, e.block \in Nat, e.len \in Nat, Apart(d, e)
  PROVE  Blocks(d) \cap Blocks(e) = {}
BY InBlocks DEF Apart, End

LEMMA PartOfSelf ==
  ASSUME NEW rs \in Seq(Region)
  PROVE  PartOf(rs, rs)
<1>1. ASSUME NEW i \in 1 .. Len(rs)
      PROVE  rs[i].block <= rs[i].block /\ rs[i].block + rs[i].len <= rs[i].block + rs[i].len
  <2>1. rs[i] \in Region
    OBVIOUS
  <2>2. rs[i].block \in Nat /\ rs[i].len \in Nat
    BY <2>1 DEF Region
  <2>3. QED
    BY <2>2
<1>2. QED
  BY <1>1 DEF PartOf

LEMMA Split ==
  ASSUME NEW rs \in Seq(Region), rs # <<>>, NEW ps, NEW x, Without(ps, rs, x),
         \A i, j \in 1 .. Len(rs) : i # j => Apart(rs[i], rs[j])
  PROVE  BlocksOf(ps) = BlocksOf(rs) \ {x} /\ x \in BlocksOf(rs)
<1>1. 1 \in 1 .. Len(rs) /\ Len(ps) = Len(rs)
  BY DEF Without
<1>2. ASSUME NEW i \in 1 .. Len(rs), i # 1 PROVE ps[i] = rs[i] /\ x \notin Blocks(rs[i])
  <2>1. rs[i] \in Region /\ rs[1] \in Region /\ Apart(rs[1], rs[i])
    BY <1>1, <1>2
  <2>2. Blocks(rs[1]) \cap Blocks(rs[i]) = {}
    BY <2>1, ApartBlocks DEF Region
  <2>3. QED
    BY <1>2, <2>2 DEF Without
<1>3. \A p : p \in BlocksOf(rs) <=> \E i \in 1 .. Len(rs) : p \in Blocks(rs[i])
  BY DEF BlocksOf
<1>4. \A p : p \in BlocksOf(ps) <=> \E i \in 1 .. Len(rs) : p \in Blocks(ps[i])
  BY <1>1 DEF BlocksOf
<1>5. x \notin Blocks(ps[1]) /\ Blocks(rs[1]) = Blocks(ps[1]) \cup {x}
  BY DEF Without
<1>6. QED
  BY <1>1, <1>2, <1>3, <1>4, <1>5

LEMMA TidyParts ==
  ASSUME NEW num, NEW r, NEW entries, NEW ps, NEW leaf,
         \A i, j \in 1 .. Len(ps) : i # j => Apart(ps[i], ps[j]), Len(ps) \in Nat,
         leaf = 0 \/ leaf \notin BlocksOf(ps)
  PROVE  Tidy(Made(num, r, entries, ps, leaf))
<1> DEFINE n == Made(num, r, entries, ps, leaf)
<1>1. n.extents = ps /\ n.leaf = leaf
  BY DEF Made
<1> HIDE DEF n
<1>2. ASSUME NEW k \in 1 .. Len(ps), NEW l \in 1 .. k - 1
      PROVE  Apart(Buffer(ps[k].block, ps[k].len), Buffer(ps[l].block, ps[l].len))
  <2>1. Apart(ps[k], ps[l])
    OBVIOUS
  <2>2. QED
    BY <2>1 DEF Apart, End, Buffer
<1>3. BlocksOf(n.extents) \cap LeafOf(n) = {}
  BY <1>1 DEF LeafOf
<1>4. QED
  BY <1>1, <1>2, <1>3 DEF Tidy, n

LEMMA HeldIs ==
  ASSUME NEW num, NEW r, NEW entries, NEW ps, NEW leaf
  PROVE  HeldBy(Made(num, r, entries, ps, leaf))
           = BlocksOf(ps) \cup (IF leaf = 0 THEN {} ELSE {leaf})
BY DEF Made, HeldBy, LeafOf

LEMMA HeldPlain ==
  ASSUME NEW num, NEW r, NEW entries, NEW ps
  PROVE  HeldBy(Made(num, r, entries, ps, 0)) = BlocksOf(ps)
<1>1. HeldBy(Made(num, r, entries, ps, 0)) = BlocksOf(ps) \cup {}
  BY DEF Made, HeldBy, LeafOf
<1>2. QED
  BY <1>1

(* The job of an inode with extents has a first region of two blocks at least. *)
LEMMA LongReady ==
  ASSUME IInv, Ledger, job.left = 0, job.kind \in {"dir", "file", "journal"}
  PROVE  job.regions[1].len > 1
BY JobReady DEF Ledger, FirstLong

LEMMA AttachInlineLedger == IInv /\ Ledger /\ AttachInline => Ledger'
<1> SUFFICES ASSUME IInv, Ledger, AttachInline PROVE Ledger'
  OBVIOUS
<1> DEFINE rs == job.regions
           r == rs[1]
           ps == Reduced(rs)
           x == r.block + r.len - 1
           g == r.bg
           a == Start(shape, g)
           k == Header(shape, g)
           z == Size(shape, g)
           f == groups[g].free
<1>1. /\ job.left = 0 /\ job.kind \in {"dir", "file", "journal"}
      /\ groups' = GiveBack(groups, rs[1].bg) /\ Attach(Len(rs), ps, 0)
  BY DEF AttachInline, GiveBack
<1>2. job.kind # "none" /\ rs[1].len > 1
  BY <1>1, LongReady
<1>3. /\ rs \in Seq(Region) /\ rs # <<>> /\ Placed(shape, rs, groups) /\ Distinct(rs)
      /\ RegionsClear(queue, rs) /\ queue \in Seq(Extent)
      /\ shape \in Shapes /\ groups \in [G -> Group] /\ G = Groups(shape)
  BY <1>1, <1>2, JobReady DEF G
<1>4. Bump(shape, groups) /\ QueueOK(shape, queue, groups)
  BY DEF IInv
<1> HIDE DEF rs
<1>5. /\ groups' \in [G -> Group] /\ groups'[rs[1].bg].free = groups[rs[1].bg].free + 1
      /\ \A h \in G : h # rs[1].bg => groups'[h] = groups[h]
  BY <1>1, <1>3, <1>4, GivenBack
<1>6. groups'[g].used = groups[g].used /\ g \in G
  <2>1. g \in G /\ groups[g] \in Group
    BY <1>3 DEF Placed
  <2>2. QED
    BY <1>1, <1>3, <2>1 DEF GiveBack, Group
<1>7. PartOf(ps, rs)
  BY <1>3, ReducedFacts
<1>8. \A i, j \in 1 .. Len(rs) : i # j => Apart(rs[i], rs[j])
  BY <1>3, PartOfSelf, PartsApart
<1>9. \A i, j \in 1 .. Len(ps) : i # j => Apart(ps[i], ps[j])
  BY <1>3, <1>7, PartsApart
<1>10. Without(ps, rs, x)
  BY <1>2, <1>3, ReducedIs
<1>11. r \in Region /\ a + k <= r.block /\ r.block + r.len = a + z - f
  <2>1. 1 \in 1 .. Len(rs)
    BY <1>3
  <2>2. QED
    BY <1>3, <2>1 DEF Placed
<1>12. r.block \in Nat /\ r.len \in Nat /\ r.len > 0
  BY <1>11 DEF Region
<1> HIDE DEF ps, x
<1>13. BlocksOf(ps) = BlocksOf(rs) \ {x} /\ x \in BlocksOf(rs)
  BY <1>3, <1>8, <1>10, Split
<1>14. Tidy(Made(job.num, job, Len(rs), ps, 0)) /\ Len(rs) \in Nat /\ ps \in Seq(Region)
  BY <1>3, <1>7, <1>9, TidyParts DEF PartOf
<1>15. /\ a \in Nat /\ k \in Nat /\ z \in Nat /\ f \in Nat
  <2>1. groups[g] \in Group
    BY <1>3, <1>6
  <2>2. QED
    BY <1>3, <1>6, <2>1, ShapesOK, GroupsAre, AheadFacts, SizeFacts DEF Group
<1>16. x = a + z - f - 1 /\ x \in Int /\ a + k <= x
  <2> DEFINE b == r.block
             l == r.len
  <2>1. b \in Nat /\ l \in Nat /\ l > 0 /\ a + k <= b /\ b + l = a + z - f /\ x = b + l - 1
    BY <1>11, <1>12 DEF x
  <2> HIDE DEF b, l, a, k, z, f, x
  <2>2. QED
    BY <1>15, <2>1
<1>17. groups[g].used
  <2> SUFFICES ASSUME ~groups[g].used PROVE FALSE
    OBVIOUS
  <2>1. f = z - k
    BY <1>3, <1>6 DEF Ledger, Whole
  <2> HIDE DEF a, k, z, f
  <2>2. QED
    BY <1>15, <1>16, <2>1
<1>18. groups'[g].free = f + 1
  BY <1>5
<1> HIDE DEF a, k, z, f, g
<1>19. ASSUME NEW p
       PROVE  p \in Out(shape, groups') <=> p \in Out(shape, groups) /\ p \notin {x}
  <2>1. p \in Out(shape, groups') <=>
          IF p \in Int /\ a <= p /\ p < a + z
          THEN p \in OutOf(shape, groups', g) ELSE p \in Out(shape, groups)
    BY <1>3, <1>5, <1>6, OutChange DEF a, z, g
  <2>2. CASE p \in Int /\ a <= p /\ p < a + z
    <3>1. p \in Out(shape, groups) <=> p \in OutOf(shape, groups, g)
      BY <1>3, <1>6, <2>2, OutWhere DEF a, z
    <3>2. p \in OutOf(shape, groups, g) <=> a + k <= p /\ p < a + z - f
      BY <2>2 DEF OutOf, a, k, z, f
    <3>3. p \in OutOf(shape, groups', g) <=> a + k <= p /\ p < a + z - (f + 1)
      BY <1>18, <2>2 DEF OutOf, a, k, z
    <3>4. QED
      BY <1>15, <1>16, <2>1, <2>2, <3>1, <3>2, <3>3
  <2>3. CASE ~(p \in Int /\ a <= p /\ p < a + z)
    <3>1. p # x
      BY <1>15, <1>16, <2>3
    <3>2. QED
      BY <2>1, <2>3, <3>1
  <2>4. QED
    BY <2>2, <2>3
<1>20. ASSUME NEW h \in G
       PROVE  /\ groups'[h].used = groups[h].used
              /\ ~groups[h].used => groups'[h].free = groups[h].free
  BY <1>5, <1>6, <1>17 DEF g
<1>21. HeldBy(Made(job.num, job, Len(rs), ps, 0)) = BlocksOf(ps)
  BY HeldPlain
<1>22. /\ HeldBy(Made(job.num, job, Len(rs), ps, 0)) \subseteq BlocksOf(rs)
       /\ {x} = BlocksOf(rs) \ HeldBy(Made(job.num, job, Len(rs), ps, 0))
  BY <1>13, <1>21
<1>23. 0 \in Nat /\ Attach(Len(rs), ps, 0)
  BY <1>1
<1> HIDE DEF r
<1>24. QED
  BY <1>1, <1>2, <1>14, <1>19, <1>20, <1>22, <1>23, AttachedLedger DEF rs

LEMMA NotZero ==
  ASSUME NEW s \in Shapes, NEW gs, NEW rs \in Seq(Region), rs # <<>>, Placed(s, rs, gs)
  PROVE  rs[1].block \in Nat /\ rs[1].block # 0
<1> DEFINE x == rs[1].block
           h == rs[1].bg
<1>1. 1 \in 1 .. Len(rs) /\ rs[1] \in Region
  OBVIOUS
<1>2. h \in Groups(s) /\ Start(s, h) + Header(s, h) <= x
  BY <1>1 DEF Placed
<1>3. x \in Nat
  BY <1>1 DEF Region
<1> HIDE DEF h, x
<1>4. s \in Shape /\ h \in Nat /\ s.table \in Nat
  BY <1>2, ShapesOK, GroupsAre DEF Shape
<1>5. /\ Start(s, h) \in Nat /\ Ahead(s, h) \in Nat
      /\ Header(s, h) = Ahead(s, h) + 2 + s.table
  BY <1>4, AheadFacts
<1>6. x # 0
  BY <1>2, <1>3, <1>4, <1>5
<1>7. QED
  BY <1>3, <1>6 DEF x

LEMMA AttachLeafLedger == IInv /\ Ledger /\ AttachLeaf => Ledger'
<1> SUFFICES ASSUME IInv, Ledger, AttachLeaf PROVE Ledger'
  OBVIOUS
<1> DEFINE rs == job.regions
           ps == Rest(rs)
           x == rs[1].block
<1>1. /\ job.left = 0 /\ job.kind \in {"dir", "file", "journal"} /\ Len(rs) > 3
      /\ groups' = groups /\ Attach(Len(rs), ps, Leaf(rs))
  BY DEF AttachLeaf
<1>2. job.kind # "none" /\ rs[1].len > 1
  BY <1>1, LongReady
<1>3. /\ rs \in Seq(Region) /\ rs # <<>> /\ Placed(shape, rs, groups) /\ Distinct(rs)
      /\ shape \in Shapes /\ groups \in [G -> Group] /\ G = Groups(shape)
  BY <1>1, <1>2, JobReady DEF G
<1> HIDE DEF rs
<1>4. PartOf(ps, rs)
  BY <1>1, <1>3, RestFacts
<1>5. \A i, j \in 1 .. Len(rs) : i # j => Apart(rs[i], rs[j])
  BY <1>3, PartOfSelf, PartsApart
<1>6. \A i, j \in 1 .. Len(ps) : i # j => Apart(ps[i], ps[j])
  BY <1>3, <1>4, PartsApart
<1>7. Without(ps, rs, x) /\ Leaf(rs) = x
  BY <1>2, <1>3, RestIs
<1>8. x \in Nat /\ x # 0
  BY <1>3, NotZero
<1> HIDE DEF ps, x
<1>9. BlocksOf(ps) = BlocksOf(rs) \ {x} /\ x \in BlocksOf(rs)
  BY <1>3, <1>5, <1>7, Split
<1>10. /\ Tidy(Made(job.num, job, Len(rs), ps, x)) /\ Len(rs) \in Nat /\ ps \in Seq(Region)
  <2>1. ps \in Seq(Region) /\ Len(ps) \in Nat /\ Len(rs) \in Nat
    BY <1>3, <1>4 DEF PartOf
  <2>2. x \notin BlocksOf(ps)
    BY <1>9
  <2>3. QED
    BY <1>6, <2>1, <2>2, TidyParts
<1>11. HeldBy(Made(job.num, job, Len(rs), ps, x)) = BlocksOf(ps) \cup {x}
  BY <1>8, HeldIs
<1>12. /\ HeldBy(Made(job.num, job, Len(rs), ps, x)) \subseteq BlocksOf(rs)
       /\ {} = BlocksOf(rs) \ HeldBy(Made(job.num, job, Len(rs), ps, x))
  BY <1>9, <1>11
<1>13. /\ \A p : p \in Out(shape, groups') <=> p \in Out(shape, groups) /\ p \notin {}
       /\ \A h \in G : /\ groups'[h].used = groups[h].used
                       /\ ~groups[h].used => groups'[h].free = groups[h].free
       /\ Attach(Len(rs), ps, x)
  BY <1>1, <1>7
<1>14. QED
  BY <1>1, <1>2, <1>8, <1>10, <1>12, <1>13, AttachedLedger DEF rs

LEMMA AttachAllLedger == IInv /\ Ledger /\ (AttachResize \/ AttachLink) => Ledger'
<1> SUFFICES ASSUME IInv, Ledger, AttachResize \/ AttachLink PROVE Ledger'
  OBVIOUS
<1> DEFINE rs == job.regions
<1>1. job.left = 0 /\ job.kind # "none" /\ groups' = groups /\ Attach(0, rs, 0)
  BY DEF AttachResize, AttachLink
<1>2. /\ rs \in Seq(Region) /\ Placed(shape, rs, groups) /\ Distinct(rs)
      /\ shape \in Shapes /\ groups \in [G -> Group] /\ G = Groups(shape)
  BY <1>1, JobReady DEF G
<1> HIDE DEF rs
<1>3. \A i, j \in 1 .. Len(rs) : i # j => Apart(rs[i], rs[j])
  BY <1>2, PartOfSelf, PartsApart
<1>4. Tidy(Made(job.num, job, 0, rs, 0))
  <2>1. Len(rs) \in Nat
    BY <1>2
  <2>2. QED
    BY <1>3, <2>1, TidyParts
<1>5. HeldBy(Made(job.num, job, 0, rs, 0)) = BlocksOf(rs)
  BY HeldIs
<1>6. /\ HeldBy(Made(job.num, job, 0, rs, 0)) \subseteq BlocksOf(rs)
      /\ {} = BlocksOf(rs) \ HeldBy(Made(job.num, job, 0, rs, 0))
  BY <1>5
<1>7. /\ \A p : p \in Out(shape, groups') <=> p \in Out(shape, groups) /\ p \notin {}
      /\ \A h \in G : /\ groups'[h].used = groups[h].used
                      /\ ~groups[h].used => groups'[h].free = groups[h].free
      /\ 0 \in Nat
  BY <1>1
<1>8. QED
  BY <1>1, <1>2, <1>4, <1>6, <1>7, AttachedLedger DEF rs

-----------------------------------------------------------------------------
(* How many blocks *)

HasData == {"dir", "file", "journal"}
WholeFile(n) ==
    n.kind \in HasData =>
      /\ Cardinality(BlocksOf(n.extents)) = n.blocks
      /\ n.entries = Len(n.extents)
      /\ \A k \in 1 .. Len(n.extents) : n.extents[k].len > 0
      /\ n.leaf # 0 <=> Len(n.extents) > 3

\* What a job has and what it still needs is one block more than its data.
Filled ==
    /\ \A i \in 1 .. Len(inodes) : WholeFile(inodes[i])
    /\ job.kind \in HasData =>
         /\ IsFiniteSet(BlocksOf(job.regions))
         /\ Cardinality(BlocksOf(job.regions)) + job.left = job.blocks + 1

LEMMA Count ==
  ASSUME NEW r \in Region
  PROVE  IsFiniteSet(Blocks(r)) /\ Cardinality(Blocks(r)) = r.len
<1>1. r.block \in Nat /\ r.len \in Nat /\ r.len > 0
  BY DEF Region
<1> DEFINE a == r.block
           b == r.block + r.len - 1
<1>2. a \in Int /\ b \in Int /\ ~(a > b) /\ b - a + 1 = r.len
  BY <1>1
<1>3. IsFiniteSet(a .. b) /\ Cardinality(a .. b) = IF a > b THEN 0 ELSE b - a + 1
  <2> HIDE DEF a, b
  <2>1. QED
    BY <1>2, FS_Interval
<1>4. QED
  BY <1>2, <1>3 DEF Blocks

LEMMA InodeAppend ==
  ASSUME NEW n \in Inode, inodes \in Seq(Inode), WholeFile(n), inodes' = Append(inodes, n),
         \A i \in 1 .. Len(inodes) : WholeFile(inodes[i])
  PROVE  \A i \in 1 .. Len(inodes') : WholeFile(inodes'[i])
<1> DEFINE l == Len(inodes)
           ns == Append(inodes, n)
<1>1. /\ l \in Nat /\ Len(ns) = l + 1 /\ ns[l + 1] = n
      /\ \A i \in 1 .. l : ns[i] = inodes[i]
  BY HeldAppend
<1> HIDE DEF ns
<1>2. \A i : i \in 1 .. Len(ns) <=> i \in 1 .. l \/ i = l + 1
  BY <1>1
<1>3. \A i \in 1 .. Len(ns) : WholeFile(ns[i])
  BY <1>1, <1>2
<1>4. QED
  BY <1>3 DEF ns

LEMMA InitFilled == Init => Filled
<1> SUFFICES ASSUME Init PROVE Filled
  OBVIOUS
<1>1. Len(inodes) = 0 /\ job.kind = "none"
  BY DEF Init, NoJob
<1>2. QED
  BY <1>1 DEF Filled, HasData

LEMMA OpenFilled ==
  ASSUME IInv, Filled, job = NoJob, NEW g, NEW num \in Nat, NEW r, Open(g, num, r),
         r.kind \in Kinds, r.blocks \in Nat
  PROVE  Filled'
<1>1. inodes \in Seq(Inode) /\ NoJob.kind = "none"
  BY DEF IInv, TypeOK, NoJob
<1>2. CASE r.blocks = 0
  <2> DEFINE n == Made(num, r, 0, <<>>, 0)
  <2>1. inodes' = Append(inodes, n) /\ job' = NoJob
    BY <1>2 DEF Open
  <2>2. n \in Inode
    BY DEF Made, Inode
  <2>3. n.extents = <<>> /\ n.blocks = 0 /\ n.entries = 0 /\ n.leaf = 0
    BY <1>2 DEF Made
  <2> HIDE DEF n
  <2>4. Cardinality(BlocksOf(n.extents)) = 0 /\ Len(n.extents) = 0
    BY <2>3, NoBlocks, FS_EmptySet
  <2>5. WholeFile(n)
    BY <2>3, <2>4 DEF WholeFile
  <2>6. QED
    BY <1>1, <2>1, <2>2, <2>5, InodeAppend DEF Filled, HasData
<1>3. CASE r.blocks # 0
  <2>1. /\ UNCHANGED inodes /\ job'.kind = r.kind /\ job'.blocks = r.blocks
        /\ job'.left = Need(r) /\ job'.regions = <<>>
    BY <1>3 DEF Open
  <2>2. r.kind \in HasData => Need(r) = r.blocks + 1
    BY DEF Need, HasData
  <2>3. IsFiniteSet(BlocksOf(<<>>)) /\ Cardinality(BlocksOf(<<>>)) = 0
    BY NoBlocks, FS_EmptySet
  <2>4. QED
    BY <2>1, <2>2, <2>3 DEF Filled
<1>4. QED
  BY <1>2, <1>3

LEMMA OpensFilled == IInv /\ Filled /\ (OpenSpecial \/ OpenNew) => Filled'
<1> SUFFICES ASSUME IInv, Filled, OpenSpecial \/ OpenNew PROVE Filled'
  OBVIOUS
<1>1. shape \in Shape /\ G \subseteq Nat /\ groups \in [G -> Group]
  BY ShapesOK, GroupsAre DEF IInv, TypeOK, G
<1>2. CASE OpenSpecial
  <2>1. PICK num \in {8, 7, 2} : \E r \in Special(num) : Open(0, num, r)
    BY <1>2 DEF OpenSpecial
  <2>2. PICK r \in Special(num) : Open(0, num, r)
    BY <2>1
  <2>3. r.kind \in Kinds /\ r.blocks \in Nat
    <3>1. num = 8 => r = [kind |-> "journal", blocks |-> shape.journal, full |-> TRUE]
      BY <2>2 DEF Special
    <3>2. num = 7 => r = [kind |-> "resize", blocks |-> 1, full |-> TRUE]
      BY <2>2 DEF Special
    <3>3. num = 2 => r \in Requests
      BY <2>2 DEF Special
    <3>4. CASE num = 2
      BY <3>3, <3>4, RequestsOK DEF Request, Kinds
    <3>5. CASE num # 2
      BY <1>1, <3>1, <3>2, <3>5 DEF Shape, Kinds
    <3>6. QED
      BY <3>4, <3>5
  <2>4. job = NoJob /\ num \in Nat
    BY <1>2 DEF OpenSpecial
  <2>5. QED
    BY <2>2, <2>3, <2>4, OpenFilled
<1>3. CASE OpenNew
  <2>1. PICK g \in G, r \in Requests : Open(g, g * shape.ipg + groups[g].nodes + 1, r)
    BY <1>3 DEF OpenNew
  <2>2. g * shape.ipg + groups[g].nodes + 1 \in Nat
    <3>1. g \in Nat /\ shape.ipg \in Nat /\ groups[g].nodes \in Nat
      BY <1>1 DEF Shape, Group
    <3>2. g * shape.ipg \in Nat
      BY <3>1
    <3>3. QED
      BY <3>1, <3>2
  <2>3. r.kind \in Kinds /\ r.blocks \in Nat /\ job = NoJob
    BY <1>3, RequestsOK DEF Request, Kinds, OpenNew
  <2>4. QED
    BY <2>1, <2>2, <2>3, OpenFilled
<1>4. QED
  BY <1>2, <1>3

(* A region that is taken has none of the blocks the job has already. *)
LEMMA TakeFilled ==
  ASSUME IInv, Ledger, Filled, NEW g \in G, NEW n \in Nat, 0 < n, n <= groups[g].free,
         Take(g, n), job.left \in Nat
  PROVE  Filled'
<1> DEFINE a == Start(shape, g)
           k == Header(shape, g)
           z == Size(shape, g)
           f == groups[g].free
           r == [block |-> a + groups[g].next, len |-> n, bg |-> g]
           rs == job.regions
<1>1. /\ shape \in Shapes /\ G = Groups(shape) /\ G \subseteq Nat /\ groups \in [G -> Group]
      /\ job \in Job /\ shape \in Shape
  BY ShapesOK, GroupsAre DEF IInv, TypeOK, G
<1>2. /\ a \in Nat /\ k \in Nat /\ z \in Nat /\ f \in Nat /\ groups[g].next \in Nat
  BY <1>1, AheadFacts, SizeFacts DEF Group
<1>3. groups[g].next = z - f /\ f <= z - k
  BY <1>1, <1>2 DEF IInv, Bump
<1>4. r \in Region /\ r.block = a + z - f /\ r.len = n
  BY <1>1, <1>2, <1>3 DEF Region
<1>5. /\ rs \in Seq(Region) /\ UNCHANGED inodes
      /\ job'.regions = Append(rs, r) /\ job'.left = job.left - n
      /\ job'.kind = job.kind /\ job'.blocks = job.blocks
  BY <1>1 DEF Take, Job
<1> HIDE DEF a, k, z, f, r, rs
<1>6. BlocksOf(job'.regions) = BlocksOf(rs) \cup Blocks(r)
  BY <1>4, <1>5, BlocksAppend
<1>7. BlocksOf(rs) \cap Blocks(r) = {}
  <2> SUFFICES ASSUME NEW p, p \in BlocksOf(rs), p \in Blocks(r) PROVE FALSE
    OBVIOUS
  <2>1. p \in Int /\ a + z - f <= p /\ p < a + z - f + n
    <3>1. r.block \in Nat /\ r.len \in Nat
      BY <1>4 DEF Region
    <3>2. p \in Int /\ r.block <= p /\ p < r.block + r.len
      BY <3>1, InBlocks
    <3>3. QED
      BY <1>4, <3>2
  <2>2. a <= p /\ p < a + z
    <3>1. n <= f
      BY DEF f
    <3>2. QED
      BY <1>2, <1>3, <2>1, <3>1
  <2>3. p \in Out(shape, groups)
    BY GivenIs DEF Ledger, rs
  <2>4. p \in OutOf(shape, groups, g)
    BY <1>1, <2>1, <2>2, <2>3, OutWhere DEF a, z
  <2>5. p < a + z - f
    BY <2>4 DEF OutOf, a, z, f
  <2>6. QED
    BY <1>2, <2>1, <2>5
<1>8. CASE job.kind \in HasData
  <2>1. /\ IsFiniteSet(BlocksOf(rs)) /\ Cardinality(BlocksOf(rs)) + job.left = job.blocks + 1
    BY <1>8 DEF Filled, rs
  <2>2. IsFiniteSet(Blocks(r)) /\ Cardinality(Blocks(r)) = n
    BY <1>4, Count
  <2>3. /\ IsFiniteSet(BlocksOf(job'.regions))
        /\ Cardinality(BlocksOf(job'.regions))
             = Cardinality(BlocksOf(rs)) + Cardinality(Blocks(r)) - Cardinality({})
    BY <1>6, <1>7, <2>1, <2>2, FS_Union
  <2>4. Cardinality(BlocksOf(rs)) \in Nat /\ Cardinality({}) = 0
    BY <2>1, FS_CardinalityType, FS_EmptySet
  <2>5. Cardinality(BlocksOf(job'.regions)) + job'.left = job'.blocks + 1
    BY <1>5, <2>1, <2>2, <2>3, <2>4
  <2>6. QED
    BY <1>5, <2>3, <2>5 DEF Filled
<1>9. CASE job.kind \notin HasData
  BY <1>5, <1>9 DEF Filled
<1>10. QED
  BY <1>8, <1>9

LEMMA AllocateFilled == IInv /\ Ledger /\ Filled /\ (Contiguous \/ Partial) => Filled'
<1> SUFFICES ASSUME IInv, Ledger, Filled, Contiguous \/ Partial PROVE Filled'
  OBVIOUS
<1>1. groups \in [G -> Group] /\ job.left \in Nat
  BY DEF IInv, TypeOK, Job
<1>2. CASE Contiguous
  <2>1. PICK g \in G : IsFirst(g, Roomy(job.left)) /\ Take(g, job.left)
    BY <1>2 DEF Contiguous
  <2>2. 0 < job.left /\ job.left <= groups[g].free
    BY <1>1, <1>2, <2>1 DEF Contiguous, IsFirst, Roomy, Group
  <2>3. QED
    BY <1>1, <2>1, <2>2, TakeFilled
<1>3. CASE Partial
  <2>1. PICK g \in G : groups[g].free > 0 /\ Take(g, groups[g].free)
    BY <1>3 DEF Partial
  <2>2. groups[g].free \in Nat /\ 0 < groups[g].free /\ groups[g].free <= groups[g].free
    BY <1>1, <2>1 DEF Group
  <2>3. QED
    BY <1>1, <2>1, <2>2, TakeFilled
<1>4. QED
  BY <1>2, <1>3

LEMMA AttachFilled ==
  ASSUME IInv, Filled, job.left = 0, job.kind # "none",
         NEW entries \in Nat, NEW extents \in Seq(Region), NEW leaf \in Nat,
         Attach(entries, extents, leaf),
         job.kind \in HasData =>
           /\ \E x \in BlocksOf(job.regions) : BlocksOf(extents) = BlocksOf(job.regions) \ {x}
           /\ entries = Len(extents) /\ (leaf # 0 <=> Len(extents) > 3)
  PROVE  Filled'
<1> DEFINE n == Made(job.num, job, entries, extents, leaf)
<1>1. /\ inodes' = Append(inodes, n) /\ job' = NoJob /\ NoJob.kind = "none"
  BY DEF Attach, NoJob
<1>2. inodes \in Seq(Inode) /\ job \in Job
  BY DEF IInv, TypeOK
<1>3. job.num \in Nat /\ job.kind \in Kinds /\ job.blocks \in Nat
  BY <1>2 DEF Job
<1>4. /\ n \in Inode /\ n.kind = job.kind /\ n.blocks = job.blocks /\ n.extents = extents
      /\ n.entries = entries /\ n.leaf = leaf
  BY <1>3 DEF Made, Inode
<1> HIDE DEF n
<1>5. ASSUME job.kind \in HasData PROVE Cardinality(BlocksOf(extents)) = job.blocks
  <2>1. PICK x \in BlocksOf(job.regions) : BlocksOf(extents) = BlocksOf(job.regions) \ {x}
    BY <1>5
  <2>2. /\ IsFiniteSet(BlocksOf(job.regions))
        /\ Cardinality(BlocksOf(job.regions)) + 0 = job.blocks + 1
    BY <1>5 DEF Filled
  <2>3. Cardinality(BlocksOf(job.regions)) \in Nat
    BY <2>2, FS_CardinalityType
  <2>4. Cardinality(BlocksOf(extents)) = Cardinality(BlocksOf(job.regions)) - 1
    BY <2>1, <2>2, FS_RemoveElement
  <2>5. QED
    BY <1>3, <2>2, <2>3, <2>4
<1>6. \A k \in 1 .. Len(extents) : extents[k].len > 0
  <2>1. \A k \in 1 .. Len(extents) : extents[k] \in Region
    OBVIOUS
  <2>2. QED
    BY <2>1 DEF Region
<1>7. WholeFile(n)
  BY <1>4, <1>5, <1>6 DEF WholeFile
<1>8. QED
  BY <1>1, <1>2, <1>4, <1>7, InodeAppend DEF Filled, HasData

LEMMA AttachesFilled ==
  IInv /\ Ledger /\ Filled /\ (AttachInline \/ AttachLeaf \/ AttachResize \/ AttachLink)
    => Filled'
<1> SUFFICES ASSUME IInv, Ledger, Filled,
                    AttachInline \/ AttachLeaf \/ AttachResize \/ AttachLink
             PROVE  Filled'
  OBVIOUS
<1> DEFINE rs == job.regions
<1>1. job.left = 0 /\ job.kind # "none"
  BY DEF AttachInline, AttachLeaf, AttachResize, AttachLink
<1>2. /\ rs \in Seq(Region) /\ rs # <<>> /\ Placed(shape, rs, groups) /\ Distinct(rs)
      /\ shape \in Shapes /\ groups \in [Groups(shape) -> Group] /\ Len(rs) \in Nat
  BY <1>1, JobReady DEF G
<1>3. CASE AttachInline \/ AttachLeaf
  <2>1. rs[1].len > 1
    BY <1>1, <1>3, LongReady DEF AttachInline, AttachLeaf
  <2> HIDE DEF rs
  <2>2. \A i, j \in 1 .. Len(rs) : i # j => Apart(rs[i], rs[j])
    BY <1>2, PartOfSelf, PartsApart
  <2>3. CASE AttachInline
    <3> DEFINE ps == Reduced(rs)
    <3>1. Attach(Len(rs), ps, 0) /\ Len(rs) <= 3
      BY <2>3 DEF AttachInline, rs
    <3>2. Without(ps, rs, rs[1].block + rs[1].len - 1)
      BY <1>2, <2>1, ReducedIs
    <3> HIDE DEF ps
    <3>3. \E x \in BlocksOf(rs) : BlocksOf(ps) = BlocksOf(rs) \ {x}
      BY <1>2, <2>2, <3>2, Split
    <3>4. ps \in Seq(Region) /\ Len(ps) = Len(rs)
      BY <3>2 DEF Without
    <3>5. Len(rs) = Len(ps) /\ (0 # 0 <=> Len(ps) > 3) /\ 0 \in Nat
      BY <1>2, <3>1, <3>4
    <3>6. QED
      BY <1>1, <1>2, <3>1, <3>3, <3>4, <3>5, AttachFilled DEF rs
  <2>4. CASE AttachLeaf
    <3> DEFINE ps == Rest(rs)
               x == rs[1].block
    <3>1. Attach(Len(rs), ps, Leaf(rs)) /\ Len(rs) > 3
      BY <2>4 DEF AttachLeaf, rs
    <3>2. Without(ps, rs, x) /\ Leaf(rs) = x
      BY <1>2, <2>1, RestIs
    <3>3. x \in Nat /\ x # 0
      BY <1>2, NotZero
    <3> HIDE DEF ps, x
    <3>4. \E y \in BlocksOf(rs) : BlocksOf(ps) = BlocksOf(rs) \ {y}
      BY <1>2, <2>2, <3>2, Split
    <3>5. ps \in Seq(Region) /\ Len(ps) = Len(rs)
      BY <3>2 DEF Without
    <3>6. Len(rs) = Len(ps) /\ (x # 0 <=> Len(ps) > 3) /\ Attach(Len(rs), ps, x)
      BY <1>2, <3>1, <3>2, <3>3, <3>5
    <3>7. QED
      BY <1>1, <1>2, <3>3, <3>4, <3>5, <3>6, AttachFilled DEF rs
  <2>5. QED
    BY <1>3, <2>3, <2>4
<1>4. CASE AttachResize \/ AttachLink
  <2>1. Attach(0, rs, 0) /\ job.kind \notin HasData /\ 0 \in Nat
    BY <1>4 DEF AttachResize, AttachLink, HasData
  <2>2. QED
    BY <1>1, <1>2, <2>1, AttachFilled
<1>5. QED
  BY <1>3, <1>4

LEMMA NextFilled == IInv /\ Ledger /\ Filled /\ [Next]_vars => Filled'
<1> SUFFICES ASSUME IInv, Ledger, Filled, [Next]_vars PROVE Filled'
  OBVIOUS
<1>1. CASE UNCHANGED <<inodes, job>>
  BY <1>1 DEF Filled
<1>2. QED
  BY <1>1, OpensFilled, AllocateFilled, AttachesFilled
  DEF Next, vars, ext4_fill_in_sb, reserve_inodes, NoInode, Spin, NoRoom, Finish

-----------------------------------------------------------------------------
(* Theorems *)

LEMMA NextLedger == IInv /\ Ledger /\ [Next]_vars => Ledger'
<1> SUFFICES ASSUME IInv, Ledger, [Next]_vars PROVE Ledger'
  OBVIOUS
<1>1. CASE UNCHANGED vars
  BY <1>1, QuietLedger
<1>2. CASE Next
  BY <1>2, QuietLedger, OpensLedger, AllocateLedger, AttachInlineLedger, AttachLeafLedger,
     AttachAllLedger DEF Next
<1>3. QED
  BY <1>1, <1>2

LEMMA LedgerHolds == Spec => [](IInv /\ Ledger)
<1>1. Init => IInv /\ Ledger
  BY InitInv, InitLedger
<1>2. IInv /\ Ledger /\ [Next]_vars => IInv' /\ Ledger'
  BY NextInv, NextLedger
<1>3. QED
  BY <1>1, <1>2, PTL DEF Spec

\* What is known of a group.
LEMMA GroupFacts ==
  ASSUME IInv, NEW g \in G
  PROVE  /\ shape \in Shapes /\ G = Groups(shape) /\ groups \in [Groups(shape) -> Group]
         /\ Start(shape, g) \in Nat /\ Size(shape, g) \in Nat /\ Header(shape, g) \in Nat
         /\ groups[g].free \in Nat /\ shape.bpg \in Nat
         /\ groups[g].free <= Size(shape, g) - Header(shape, g)
         /\ Header(shape, g) <= Size(shape, g) /\ Size(shape, g) <= shape.bpg
<1>1. /\ shape \in Shapes /\ G = Groups(shape) /\ groups \in [Groups(shape) -> Group]
      /\ shape \in Shape /\ g \in Nat
  BY ShapesOK, GroupsAre DEF IInv, TypeOK, G
<1>2. groups[g].free <= Size(shape, g) - Header(shape, g) /\ groups[g].free \in Nat
  BY <1>1 DEF IInv, Bump, Group
<1>3. QED
  BY <1>1, <1>2, AheadFacts, SizeFacts DEF Shape

\* The blocks of a group that are in a header, or given out, are its own.
LEMMA Whose ==
  ASSUME IInv, NEW g \in G, NEW p \in Int,
         Start(shape, g) <= p, p < Start(shape, g) + shape.bpg
  PROVE  /\ p \in Heads <=> p < Start(shape, g) + Header(shape, g)
         /\ p \in Out(shape, groups) <=> p \in OutOf(shape, groups, g)
<1>1. \A h \in G : /\ shape \in Shapes /\ G = Groups(shape)
                   /\ Start(shape, h) \in Nat /\ Size(shape, h) \in Nat
                   /\ Header(shape, h) \in Nat /\ groups[h].free \in Nat /\ shape.bpg \in Nat
                   /\ Header(shape, h) <= Size(shape, h) /\ Size(shape, h) <= shape.bpg
  BY GroupFacts
<1>2. shape \in Shape /\ G \subseteq Nat
  BY <1>1, ShapesOK, GroupsAre
<1>3. ASSUME NEW h \in G, h # g
      PROVE  ~(Start(shape, h) <= p /\ p < Start(shape, h) + shape.bpg)
  <2>1. \/ Start(shape, g) + shape.bpg <= Start(shape, h)
        \/ Start(shape, h) + shape.bpg <= Start(shape, g)
    <3>1. g \in Nat /\ h \in Nat
      BY <1>2
    <3>2. g < h \/ h < g
      BY <1>3, <3>1
    <3>3. QED
      BY <1>2, <3>1, <3>2, StartsApart
  <2>2. QED
    BY <1>1, <2>1
<1>4. \A h \in G : p \in Start(shape, h) .. Start(shape, h) + Header(shape, h) - 1
                     => Start(shape, h) <= p /\ p < Start(shape, h) + shape.bpg
  BY <1>1
<1>5. \A h \in G : p \in OutOf(shape, groups, h)
                     => Start(shape, h) <= p /\ p < Start(shape, h) + shape.bpg
  BY <1>1 DEF OutOf
<1>6. p \in Heads <=> p \in Start(shape, g) .. Start(shape, g) + Header(shape, g) - 1
  BY <1>3, <1>4 DEF Heads
<1>7. p \in Out(shape, groups) <=> p \in OutOf(shape, groups, g)
  BY <1>1, <1>3, <1>5 DEF Out
<1>8. QED
  BY <1>1, <1>6, <1>7

(* No block is given out twice, for every shape and every tree: what is given    *)
(* back when an inode is complete was the last to be taken in its group          *)
(* (allocate.c, extent.c, indirect.c).                                           *)
THEOREM BlocksAreSingle == Spec => []NoBlockTwice
<1>1. IInv /\ Ledger => NoBlockTwice
  <2> SUFFICES ASSUME IInv, Ledger PROVE NoBlockTwice
    OBVIOUS
  <2>1. Given \cap Heads = {}
    <3> SUFFICES ASSUME NEW p, p \in Given, p \in Heads PROVE FALSE
      OBVIOUS
    <3>1. PICK g \in G : p \in Start(shape, g) .. Start(shape, g) + Header(shape, g) - 1
      BY DEF Heads
    <3>2. p \in Int /\ Start(shape, g) <= p /\ p < Start(shape, g) + Header(shape, g)
      BY <3>1, GroupFacts
    <3>3. p < Start(shape, g) + shape.bpg
      BY <3>2, GroupFacts
    <3>4. p \in OutOf(shape, groups, g)
      BY <3>2, <3>3, Whose DEF Ledger
    <3>5. QED
      BY <3>2, <3>4, GroupFacts DEF OutOf
  <2>2. QED
    BY <2>1 DEF NoBlockTwice, Ledger, Ours, Tidy
<1>2. QED
  BY LedgerHolds, <1>1, PTL

(* The counts of free blocks that ext4_update_free writes are right, for every   *)
(* shape and every tree: what is not free in a group is its header, and what     *)
(* belongs to something.                                                         *)
THEOREM FreeCountsRight == Spec => []CountsRight
<1>1. IInv /\ Ledger => CountsRight
  <2> SUFFICES ASSUME IInv, Ledger, NEW g \in G
               PROVE  (Given \cup Heads) \cap GroupBlocks(g)
                        = Start(shape, g) .. Start(shape, g) + Size(shape, g) - groups[g].free - 1
    BY DEF CountsRight
  <2> DEFINE a == Start(shape, g)
             k == Header(shape, g)
             z == Size(shape, g)
             f == groups[g].free
             w == shape.bpg
  <2>1. a \in Nat /\ k \in Nat /\ z \in Nat /\ f \in Nat /\ w \in Nat
        /\ f <= z - k /\ k <= z /\ z <= w
    BY GroupFacts
  <2>2. \A p : p \in GroupBlocks(g) <=> p \in Int /\ a <= p /\ p < a + w
    BY <2>1 DEF GroupBlocks
  <2>3. ASSUME NEW p \in Int, a <= p, p < a + w
        PROVE  /\ p \in Heads <=> p < a + k
               /\ p \in Given <=> a + k <= p /\ p < a + z - f
    <3>1. p \in Heads <=> p < a + k
      BY <2>3, Whose
    <3>2. p \in Given <=> p \in OutOf(shape, groups, g)
      BY <2>3, Whose DEF Ledger
    <3>3. p \in OutOf(shape, groups, g) <=> a + k <= p /\ p < a + z - f
      BY DEF OutOf
    <3>4. QED
      BY <3>1, <3>2, <3>3
  <2> HIDE DEF a, k, z, f, w
  <2>4. \A p : p \in (Given \cup Heads) \cap GroupBlocks(g) <=> p \in a .. a + z - f - 1
    BY <2>1, <2>2, <2>3
  <2>5. (Given \cup Heads) \cap GroupBlocks(g) = a .. a + z - f - 1
    BY <2>4
  <2>6. QED
    BY <2>5 DEF a, z, f
<1>2. QED
  BY LedgerHolds, <1>1, PTL

(* Every inode has the blocks its contents need, and an extent block just when   *)
(* its extents do not fit in it, for every shape and every tree                  *)
(* (do_inode_allocate_extents of extent.c).                                      *)
THEOREM FilesAreWhole == Spec => []WholeFiles
<1>1. Filled => WholeFiles
  BY DEF Filled, WholeFile, HasData, WholeFiles
<1>2. Init => Filled
  BY InitFilled
<1>3. IInv /\ Ledger /\ Filled /\ [Next]_vars => Filled'
  BY NextFilled
<1>4. QED
  BY LedgerHolds, <1>1, <1>2, <1>3, PTL DEF Spec

-----------------------------------------------------------------------------
(* Numbers *)

\* An inode number has its place in the table of one group.
LEMMA OnePlace ==
  ASSUME NEW k \in Nat \ {0}, NEW g \in Nat, NEW o \in Nat, o < k
  PROVE  (g * k + o) \div k = g /\ (g * k + o) % k = o
<1> DEFINE t == g * k + o
           d == t \div k
           m == t % k
<1>1. t \in Nat
  <2>1. g * k \in Nat
    OBVIOUS
  <2>2. QED
    BY <2>1
<1>2. d \in Int /\ m \in Nat /\ m < k /\ t = k * d + m
  <2> HIDE DEF t
  <2>1. QED
    BY <1>1
<1> HIDE DEF d, m
<1>3. d = g
  <2>1. CASE d < g
    <3>1. PICK j \in Nat : g = d + 1 + j
      <4>1. g - d - 1 \in Nat /\ g = d + 1 + (g - d - 1)
        BY <1>2, <2>1
      <4>2. QED
        BY <4>1
    <3>2. g * k = k * d + k + j * k /\ j * k \in Nat /\ k * d \in Int
      BY <1>2, <3>1
    <3>3. QED
      BY <1>2, <3>2
  <2>2. CASE g < d
    <3>1. PICK j \in Nat : d = g + 1 + j
      <4>1. d - g - 1 \in Nat /\ d = g + 1 + (d - g - 1)
        BY <1>2, <2>2
      <4>2. QED
        BY <4>1
    <3>2. k * d = g * k + k + j * k /\ j * k \in Nat /\ g * k \in Nat
      BY <1>2, <3>1
    <3>3. QED
      BY <1>2, <3>2
  <2>3. QED
    BY <1>2, <2>1, <2>2
<1>4. m = o
  <2>1. k * d = g * k /\ g * k \in Nat
    BY <1>3
  <2>2. QED
    BY <1>2, <2>1
<1>5. QED
  BY <1>3, <1>4 DEF d, m

-----------------------------------------------------------------------------
(* The inductive invariant *)

\* Number num is marked in its group, and the table of the group is wanted.
Marked(s, gs, num) ==
    \E g \in Groups(s) : \E o \in Nat :
      o < gs[g].nodes /\ num = g * s.ipg + o + 1 /\ gs[g].table

\* The specials come first, in this order.
Order(ns, ph) ==
    /\ ph \in {"sb", "journal"} => ns = <<>>
    /\ ph = "resize" => \A i \in 1 .. Len(ns) : ns[i].num = 8
    /\ ph = "root" => \A i \in 1 .. Len(ns) : ns[i].num \in {8, 7}

Numbered(s, gs, ns) ==
    \A i \in 1 .. Len(ns) : /\ Marked(s, gs, ns[i].num)
                            /\ \A j \in 1 .. i - 1 : ns[j].num # ns[i].num

\* The inode that is getting its blocks.
Current(s, gs, ns, j, ph) ==
    j.kind # "none" =>
      /\ Marked(s, gs, j.num) /\ \A i \in 1 .. Len(ns) : ns[i].num # j.num
      /\ ph # "sb" /\ (ph = "journal" => j.num = 8) /\ (ph = "resize" => j.num = 7)

Tables(s, gs, q) ==
    \A g \in Groups(s) :
      /\ gs[g].nodes <= s.ipg
      /\ gs[g].table => \E k \in 1 .. Len(q) : q[k] = Table(s, g)

Register ==
    /\ Tables(shape, groups, queue)
    /\ phase # "sb" => groups[0].nodes >= 10
    /\ phase = "journal" => shape.journal > 0
    /\ Order(inodes, phase) /\ Numbered(shape, groups, inodes)
    /\ Current(shape, groups, inodes, job, phase)

LEMMA InitRegister == Init => Register
<1> SUFFICES ASSUME Init PROVE Register
  OBVIOUS
<1>1. /\ shape \in Shapes /\ groups = [g \in Groups(shape) |-> Fresh(shape, g)]
      /\ inodes = <<>> /\ job.kind = "none" /\ phase = "sb" /\ Len(inodes) = 0
  BY DEF Init, G, NoJob
<1>2. shape.ipg \in Nat
  BY <1>1, ShapesOK DEF Shape
<1>3. \A g \in Groups(shape) : groups[g].nodes = 0 /\ ~groups[g].table
  BY <1>1 DEF Fresh
<1>4. QED
  BY <1>1, <1>2, <1>3 DEF Register, Tables, Order, Numbered, Current

-----------------------------------------------------------------------------
(* What keeps it *)

Grows(q, q2) == \A k \in 1 .. Len(q) : \E l \in 1 .. Len(q2) : q2[l] = q[k]

LEMMA Longer ==
  ASSUME NEW q \in Seq(Extent), NEW m \in Seq(Extent)
  PROVE  Grows(q, q \o m) /\ q \o m \in Seq(Extent)
<1>1. \A k \in 1 .. Len(q) : k \in 1 .. Len(q \o m) /\ (q \o m)[k] = q[k]
  OBVIOUS
<1>2. QED
  BY <1>1 DEF Grows

LEMMA OneLonger ==
  ASSUME NEW q \in Seq(Extent), NEW e \in Extent
  PROVE  /\ Grows(q, Append(q, e)) /\ Append(q, e) \in Seq(Extent)
         /\ \E l \in 1 .. Len(Append(q, e)) : Append(q, e)[l] = e
<1>1. \A k \in 1 .. Len(q) : k \in 1 .. Len(Append(q, e)) /\ Append(q, e)[k] = q[k]
  OBVIOUS
<1>2. Len(q) + 1 \in 1 .. Len(Append(q, e)) /\ Append(q, e)[Len(q) + 1] = e
  OBVIOUS
<1>3. QED
  BY <1>1, <1>2 DEF Grows

LEMMA GrowsOn ==
  ASSUME NEW q, NEW q2, NEW q3, Grows(q, q2), Grows(q2, q3)
  PROVE  Grows(q, q3)
BY DEF Grows

LEMMA StillMarked ==
  ASSUME NEW s, NEW gs \in [Groups(s) -> Group], NEW gs2 \in [Groups(s) -> Group], NEW num,
         \A g \in Groups(s) : /\ gs[g].nodes <= gs2[g].nodes
                              /\ gs[g].table => gs2[g].table,
         Marked(s, gs, num)
  PROVE  Marked(s, gs2, num)
<1>1. PICK g \in Groups(s), o \in Nat :
        o < gs[g].nodes /\ num = g * s.ipg + o + 1 /\ gs[g].table
  BY DEF Marked
<1>2. gs[g].nodes \in Nat /\ gs2[g].nodes \in Nat /\ gs[g].nodes <= gs2[g].nodes /\ gs2[g].table
  BY <1>1 DEF Group
<1>3. o < gs2[g].nodes
  BY <1>1, <1>2
<1>4. QED
  BY <1>1, <1>2, <1>3 DEF Marked

LEMMA SameRegister ==
  ASSUME IInv, Register, UNCHANGED <<shape, inodes>>, Grows(queue, queue'),
         job'.num = job.num /\ job'.kind = job.kind,
         groups' \in [G -> Group],
         \A g \in G : groups'[g].nodes = groups[g].nodes /\ groups'[g].table = groups[g].table,
         phase' = phase \/ (phase # "sb" /\ phase' \in {"failed", "spinning", "done"})
  PROVE  Register'
<1>1. G = Groups(shape) /\ groups \in [G -> Group] /\ 0 \in G
  BY GroupsAre DEF IInv, TypeOK, G
<1>2. Tables(shape, groups', queue')
  BY <1>1 DEF Register, Tables, Grows
<1>3. \A num : Marked(shape, groups, num) => Marked(shape, groups', num)
  BY <1>1 DEF Marked
<1>4. Numbered(shape, groups', inodes) /\ Current(shape, groups', inodes, job', phase')
  BY <1>3 DEF Register, Numbered, Current
<1>5. Order(inodes, phase') /\ (phase' = "journal" => shape.journal > 0)
      /\ (phase' # "sb" => groups'[0].nodes >= 10)
  BY <1>1 DEF Register, Order
<1>6. QED
  BY <1>2, <1>4, <1>5 DEF Register

LEMMA CopiesRegister == IInv /\ Register /\ ext4_fill_in_sb => Register'
<1> SUFFICES ASSUME IInv, Register, ext4_fill_in_sb PROVE Register'
  OBVIOUS
<1>1. /\ queue \in Seq(Extent) /\ shape \in Shapes /\ at \in Groups(shape)
      /\ UNCHANGED <<shape, groups, inodes, job, phase>> /\ groups \in [G -> Group]
  BY DEF IInv, TypeOK, ext4_fill_in_sb, G
<1> DEFINE m == <<Backup(shape, at), BackupDesc(shape, at)>>
<1>2. queue' = queue \/ (HasSuper(at) /\ queue' = queue \o m)
  BY DEF ext4_fill_in_sb
<1>3. HasSuper(at) => m \in Seq(Extent)
  BY <1>1, HeadParts DEF AtHead
<1> HIDE DEF m
<1>4. Grows(queue, queue)
  BY DEF Grows
<1>5. Grows(queue, queue')
  BY <1>1, <1>2, <1>3, <1>4, Longer
<1>6. groups' \in [G -> Group]
  BY <1>1
<1>7. QED
  BY <1>1, <1>5, <1>6, SameRegister

LEMMA ReserveRegister == IInv /\ Register /\ reserve_inodes => Register'
<1> SUFFICES ASSUME IInv, Register, reserve_inodes PROVE Register'
  OBVIOUS
<1>1. /\ G = Groups(shape) /\ groups \in [G -> Group] /\ 0 \in G /\ shape \in Shapes
      /\ job \in Job
  BY GroupsAre DEF IInv, TypeOK, G
<1>2. /\ phase = "sb" /\ groups' = [groups EXCEPT ![0].nodes = 10]
      /\ phase' = IF shape.journal > 0 THEN "journal" ELSE "resize"
      /\ UNCHANGED <<shape, inodes, job, at, queue>>
  BY DEF reserve_inodes
<1>3. inodes = <<>> /\ Len(inodes) = 0 /\ job.kind = "none"
  <2>1. inodes = <<>> /\ job.kind = "none"
    BY <1>2 DEF Register, Order, Current
  <2>2. QED
    BY <2>1
<1>4. shape.ipg >= 10
  BY <1>1, ShapesOK
<1>5. /\ groups'[0].nodes = 10 /\ groups'[0].table = groups[0].table
      /\ \A g \in G : g # 0 => groups'[g] = groups[g]
  BY <1>1, <1>2 DEF Group
<1>6. Tables(shape, groups', queue)
  <2>1. shape.ipg \in Nat
    BY <1>1, ShapesOK DEF Shape
  <2>2. QED
    BY <1>1, <1>4, <1>5, <2>1 DEF Register, Tables
<1>7. QED
  BY <1>2, <1>3, <1>5, <1>6 DEF Register, Order, Numbered, Current

(* An inode gets a number that none has. *)
LEMMA OpenRegister ==
  ASSUME IInv, Register, job = NoJob, phase # "sb", NEW g \in G, NEW num \in Nat, NEW r,
         Open(g, num, r), r.kind \in Kinds, r.blocks \in Nat, UNCHANGED <<shape, phase>>,
         groups' \in [G -> Group], groups'[g].table,
         \A h \in G : /\ groups[h].nodes <= groups'[h].nodes /\ groups'[h].nodes <= shape.ipg
                      /\ groups[h].table => groups'[h].table
                      /\ h # g => groups'[h].table = groups[h].table,
         Marked(shape, groups', num), \A i \in 1 .. Len(inodes) : inodes[i].num # num,
         phase = "journal" => num = 8, phase = "resize" => num = 7,
         phase \in {"journal", "resize", "root"} => r.blocks # 0
  PROVE  Register'
<1>1. /\ shape \in Shapes /\ G = Groups(shape) /\ 0 \in G /\ groups \in [G -> Group]
      /\ queue \in Seq(Extent) /\ inodes \in Seq(Inode)
  BY GroupsAre DEF IInv, TypeOK, G
<1>2. Table(shape, g) \in Extent
  BY <1>1, HeadParts DEF AtHead
<1>3. Grows(queue, queue') /\ \E k \in 1 .. Len(queue') : queue'[k] = Table(shape, g)
  <2>1. CASE groups[g].table
    <3>1. queue' = queue
      BY <2>1 DEF Open
    <3>2. QED
      BY <1>1, <2>1, <3>1 DEF Grows, Register, Tables
  <2>2. CASE ~groups[g].table
    <3>1. queue' = Append(queue, Table(shape, g))
      BY <2>2 DEF Open
    <3>2. QED
      BY <1>1, <1>2, <3>1, OneLonger
  <2>3. QED
    BY <2>1, <2>2
<1>4. Tables(shape, groups', queue')
  <2>1. ASSUME NEW h \in Groups(shape), groups'[h].table
        PROVE  \E k \in 1 .. Len(queue') : queue'[k] = Table(shape, h)
    <3>1. CASE h = g
      BY <1>3, <3>1
    <3>2. CASE h # g
      <4>1. \E k \in 1 .. Len(queue) : queue[k] = Table(shape, h)
        BY <1>1, <2>1, <3>2 DEF Register, Tables
      <4>2. QED
        BY <1>3, <4>1 DEF Grows
    <3>3. QED
      BY <3>1, <3>2
  <2>2. QED
    BY <1>1, <2>1 DEF Tables
<1>5. groups'[0].nodes >= 10
  BY <1>1 DEF Register, Group
<1>6. \A n : Marked(shape, groups, n) => Marked(shape, groups', n)
  BY <1>1, StillMarked
<1>7. Numbered(shape, groups', inodes)
  BY <1>6 DEF Register, Numbered
<1>8. CASE r.blocks = 0
  <2> DEFINE n == Made(num, r, 0, <<>>, 0)
             l == Len(inodes)
             ns == Append(inodes, n)
  <2>1. inodes' = ns /\ job' = NoJob
    BY <1>8 DEF Open
  <2>2. n.num = num
    BY DEF Made
  <2> HIDE DEF n
  <2>3. /\ l \in Nat /\ Len(ns) = l + 1 /\ ns[l + 1] = n
        /\ \A i \in 1 .. l : ns[i] = inodes[i]
    BY <1>1
  <2> HIDE DEF ns
  <2>4. ASSUME NEW i \in 1 .. l + 1
        PROVE  Marked(shape, groups', ns[i].num) /\ \A j \in 1 .. i - 1 : ns[j].num # ns[i].num
    <3>1. CASE i = l + 1
      <4>1. \A j \in 1 .. i - 1 : j \in 1 .. l
        BY <2>3, <3>1
      <4>2. QED
        BY <2>2, <2>3, <3>1, <4>1
    <3>2. CASE i \in 1 .. l
      <4>1. ns[i] = inodes[i] /\ \A j \in 1 .. i - 1 : ns[j] = inodes[j]
        BY <2>3, <3>2
      <4>2. QED
        BY <1>7, <3>2, <4>1 DEF Numbered
    <3>3. QED
      BY <2>3, <3>1, <3>2
  <2>5. Numbered(shape, groups', ns)
    BY <2>3, <2>4 DEF Numbered
  <2>6. Order(ns, phase)
    BY <1>8 DEF Order
  <2>7. Current(shape, groups', ns, NoJob, phase)
    BY DEF Current, NoJob
  <2>8. phase = "journal" => shape.journal > 0
    BY DEF Register
  <2>9. QED
    BY <1>4, <1>5, <2>1, <2>5, <2>6, <2>7, <2>8 DEF Register
<1>9. CASE r.blocks # 0
  <2>1. UNCHANGED inodes /\ job'.num = num
    BY <1>9 DEF Open
  <2>2. Current(shape, groups', inodes, job', phase)
    BY <2>1 DEF Current
  <2>3. QED
    BY <1>4, <1>5, <1>7, <2>1, <2>2 DEF Register
<1>10. QED
  BY <1>8, <1>9

LEMMA SpecialRegister == IInv /\ Register /\ OpenSpecial => Register'
<1> SUFFICES ASSUME IInv, Register, OpenSpecial PROVE Register'
  OBVIOUS
<1>1. /\ shape \in Shapes /\ shape \in Shape /\ G = Groups(shape) /\ 0 \in G
      /\ groups \in [G -> Group]
  BY ShapesOK, GroupsAre DEF IInv, TypeOK, G
<1>2. PICK num \in {8, 7, 2} :
        /\ phase = CASE num = 8 -> "journal" [] num = 7 -> "resize" [] num = 2 -> "root"
        /\ \E r \in Special(num) : Open(0, num, r)
  BY DEF OpenSpecial
<1>3. PICK r \in Special(num) : Open(0, num, r)
  BY <1>2
<1>4. /\ phase = "journal" <=> num = 8
      /\ phase = "resize" <=> num = 7
      /\ phase = "root" <=> num = 2
      /\ phase \in {"journal", "resize", "root"} /\ num \in Nat /\ phase # "sb"
  BY <1>2
<1>5. r.kind \in Kinds /\ r.blocks \in Nat /\ r.blocks # 0
  <2>1. CASE num = 8
    <3>1. r = [kind |-> "journal", blocks |-> shape.journal, full |-> TRUE]
      BY <1>3, <2>1 DEF Special
    <3>2. shape.journal > 0 /\ shape.journal \in Nat
      BY <1>1, <1>4, <2>1 DEF Register, Shape
    <3>3. QED
      BY <3>1, <3>2 DEF Kinds
  <2>2. CASE num = 7
    <3>1. r = [kind |-> "resize", blocks |-> 1, full |-> TRUE]
      BY <1>3, <2>2 DEF Special
    <3>2. QED
      BY <3>1 DEF Kinds
  <2>3. CASE num = 2
    <3>1. r \in Requests /\ r.kind = "dir"
      BY <1>3, <2>3 DEF Special
    <3>2. QED
      BY <3>1, RequestsOK DEF Request, Kinds
  <2>4. QED
    BY <2>1, <2>2, <2>3
<1>6. groups' = [groups EXCEPT ![0].table = TRUE] /\ UNCHANGED <<shape, phase>> /\ job = NoJob
  BY DEF OpenSpecial
<1>7. /\ groups' \in [G -> Group] /\ groups'[0].table
      /\ \A h \in G : /\ groups'[h].nodes = groups[h].nodes
                      /\ groups[h].table => groups'[h].table
                      /\ h # 0 => groups'[h].table = groups[h].table
  BY <1>1, <1>6 DEF Group
<1>8. \A h \in G : groups[h].nodes <= groups'[h].nodes /\ groups'[h].nodes <= shape.ipg
  <2>1. \A h \in G : groups[h].nodes \in Nat
    BY <1>1 DEF Group
  <2>2. QED
    BY <1>1, <1>7, <2>1 DEF Register, Tables
<1>9. Marked(shape, groups', num)
  <2>1. num - 1 \in Nat /\ num - 1 < 10 /\ shape.ipg \in Nat /\ groups'[0].nodes \in Nat
    BY <1>1, <1>7 DEF Shape, Group
  <2>2. groups'[0].nodes >= 10
    BY <1>1, <1>4, <1>7 DEF Register
  <2>3. 0 * shape.ipg = 0
    BY <2>1
  <2>4. num - 1 < groups'[0].nodes /\ num = 0 * shape.ipg + (num - 1) + 1
    BY <2>1, <2>2, <2>3
  <2>5. QED
    BY <1>1, <1>7, <2>1, <2>4 DEF Marked
<1>10. \A i \in 1 .. Len(inodes) : inodes[i].num # num
  <2>1. CASE num = 8
    <3>1. Len(inodes) = 0
      BY <1>4, <2>1 DEF Register, Order
    <3>2. QED
      BY <3>1
  <2>2. CASE num # 8
    BY <1>4, <2>2 DEF Register, Order
  <2>3. QED
    BY <2>1, <2>2
<1>11. QED
  BY <1>1, <1>3, <1>4, <1>5, <1>6, <1>7, <1>8, <1>9, <1>10, OpenRegister

LEMMA NewRegister == IInv /\ Register /\ OpenNew => Register'
<1> SUFFICES ASSUME IInv, Register, OpenNew PROVE Register'
  OBVIOUS
<1>1. /\ shape \in Shapes /\ shape \in Shape /\ G = Groups(shape) /\ G \subseteq Nat
      /\ groups \in [G -> Group]
  BY ShapesOK, GroupsAre DEF IInv, TypeOK, G
<1>2. PICK g \in G, r \in Requests :
        /\ IsFirst(g, {h \in G : groups[h].nodes < shape.ipg})
        /\ Open(g, g * shape.ipg + groups[g].nodes + 1, r)
        /\ groups' = [groups EXCEPT ![g].nodes = @ + 1, ![g].table = TRUE]
  BY DEF OpenNew
<1> DEFINE o == groups[g].nodes
           k == shape.ipg
           num == g * k + o + 1
<1>3. g \in Nat /\ o \in Nat /\ k \in Nat \ {0} /\ o < k
  BY <1>1, <1>2 DEF Shape, Group, IsFirst
<1>4. num \in Nat
  <2>1. g * k \in Nat
    BY <1>3
  <2>2. QED
    BY <1>3, <2>1
<1>5. /\ groups' \in [G -> Group] /\ groups'[g].table /\ groups'[g].nodes = o + 1
      /\ \A h \in G : h # g => groups'[h] = groups[h]
  <2>1. groups[g] \in Group /\ groups' = [groups EXCEPT ![g] = groups'[g]]
        /\ groups'[g] = [groups[g] EXCEPT !.nodes = @ + 1, !.table = TRUE]
    BY <1>1, <1>2
  <2>2. groups'[g].table = TRUE /\ groups'[g].nodes = o + 1
    BY <2>1 DEF Group
  <2>3. groups'[g] \in Group
    <3>1. /\ groups'[g].free = groups[g].free /\ groups'[g].next = groups[g].next
          /\ groups'[g].used = groups[g].used
          /\ groups'[g] = [next |-> groups'[g].next, free |-> groups'[g].free,
                           used |-> groups'[g].used, nodes |-> groups'[g].nodes,
                           table |-> groups'[g].table]
      BY <2>1 DEF Group
    <3>2. /\ groups[g].free \in Nat /\ groups[g].next \in Nat /\ groups[g].used \in BOOLEAN
          /\ groups[g].nodes + 1 \in Nat
      BY <2>1 DEF Group
    <3>3. QED
      BY <2>2, <3>1, <3>2 DEF Group
  <2>4. QED
    BY <1>1, <2>1, <2>2, <2>3
<1>6. ASSUME NEW h \in G
      PROVE  /\ groups[h].nodes <= groups'[h].nodes /\ groups'[h].nodes <= k
             /\ groups[h].table => groups'[h].table
             /\ h # g => groups'[h].table = groups[h].table
  <2>1. groups[h].nodes \in Nat /\ groups[h].nodes <= k
    BY <1>1 DEF Group, Register, Tables
  <2>2. CASE h = g
    BY <1>3, <1>5, <2>2
  <2>3. CASE h # g
    BY <1>5, <2>1, <2>3
  <2>4. QED
    BY <2>2, <2>3
<1>7. phase = "tree" /\ UNCHANGED <<shape, phase>> /\ job = NoJob
  BY DEF OpenNew
<1>8. r.kind \in Kinds /\ r.blocks \in Nat
  BY RequestsOK DEF Request, Kinds
<1>9. Marked(shape, groups', num)
  <2>1. o < groups'[g].nodes
    BY <1>3, <1>5
  <2>2. QED
    BY <1>1, <1>3, <1>5, <2>1 DEF Marked
<1>10. ASSUME NEW i \in 1 .. Len(inodes) PROVE inodes[i].num # num
  <2>1. Marked(shape, groups, inodes[i].num)
    BY DEF Register, Numbered
  <2>2. PICK h \in G, p \in Nat : p < groups[h].nodes /\ inodes[i].num = h * k + p + 1
    BY <1>1, <2>1 DEF Marked
  <2>3. h \in Nat /\ p < k
    <3>1. groups[h].nodes \in Nat /\ groups[h].nodes <= k
      BY <1>1 DEF Group, Register, Tables
    <3>2. QED
      BY <1>1, <1>3, <2>2, <3>1
  <2>4. CASE h = g
    <3>1. p # o
      BY <1>3, <2>2, <2>4
    <3>2. g * k \in Nat
      BY <1>3
    <3> DEFINE c == g * k
    <3>3. inodes[i].num = c + p + 1 /\ num = c + o + 1 /\ c \in Nat
      BY <2>2, <2>4, <3>2
    <3> HIDE DEF c, num
    <3>4. QED
      BY <1>3, <3>1, <3>3
  <2>5. CASE h # g
    <3>1. (h * k + p) \div k = h /\ (g * k + o) \div k = g
      BY <1>3, <2>3, OnePlace
    <3> DEFINE c == h * k + p
               d == g * k + o
    <3>2. c \in Nat /\ d \in Nat
      <4> DEFINE x == h * k
                 y == g * k
      <4>1. x \in Nat /\ y \in Nat
        BY <1>3, <2>3
      <4> HIDE DEF x, y
      <4>2. x + p \in Nat /\ y + o \in Nat
        BY <1>3, <4>1
      <4>3. QED
        BY <4>2 DEF x, y
    <3>3. c # d
      BY <2>5, <3>1
    <3>4. inodes[i].num = c + 1 /\ num = d + 1
      BY <2>2
    <3> HIDE DEF c, d, num
    <3>5. QED
      BY <3>2, <3>3, <3>4
  <2>6. QED
    BY <2>4, <2>5
<1> HIDE DEF num
<1>11. Open(g, num, r)
  BY <1>2 DEF num
<1>12. QED
  BY <1>4, <1>5, <1>6, <1>7, <1>8, <1>9, <1>10, <1>11, OpenRegister

LEMMA TakeRegister == IInv /\ Register /\ (Contiguous \/ Partial) => Register'
<1> SUFFICES ASSUME IInv, Register, Contiguous \/ Partial PROVE Register'
  OBVIOUS
<1>1. groups \in [G -> Group] /\ job \in Job
  BY DEF IInv, TypeOK
<1>2. PICK g \in G : \E n \in {job.left, groups[g].free} : Take(g, n)
  BY DEF Contiguous, Partial
<1> PICK n \in {job.left, groups[g].free} : Take(g, n)
  BY <1>2
<1>3. groups' \in [G -> Group] /\ UNCHANGED shape
  <2>1. IInv'
    BY AllocateInv
  <2>2. UNCHANGED shape
    BY <1>2 DEF Take
  <2>3. QED
    BY <2>1, <2>2 DEF IInv, TypeOK, G
<1>4. /\ UNCHANGED <<inodes, phase, queue>> /\ job'.num = job.num /\ job'.kind = job.kind
      /\ \A h \in G : groups'[h].nodes = groups[h].nodes /\ groups'[h].table = groups[h].table
  <2>1. job'.num = job.num /\ job'.kind = job.kind
    BY <1>1, <1>2 DEF Take, Job
  <2>2. groups'[g].nodes = groups[g].nodes /\ groups'[g].table = groups[g].table
    <3>1. groups[g] \in Group
          /\ groups'[g] = [groups[g] EXCEPT !.free = @ - n, !.next = @ + n, !.used = TRUE]
      BY <1>1, <1>2 DEF Take
    <3>2. QED
      BY <3>1 DEF Group
  <2>3. \A h \in G : h # g => groups'[h] = groups[h]
    BY <1>1, <1>2 DEF Take
  <2>4. QED
    BY <1>2, <2>1, <2>2, <2>3 DEF Take
<1>5. Grows(queue, queue')
  BY <1>4 DEF Grows
<1>6. QED
  BY <1>3, <1>4, <1>5, SameRegister

LEMMA StopRegister ==
  ASSUME IInv, Register, NoInode \/ Spin \/ NoRoom \/ Finish \/ UNCHANGED vars
  PROVE  Register'
<1>1. /\ UNCHANGED <<shape, groups, inodes, job, queue>>
      /\ phase' = phase \/ (phase # "sb" /\ phase' \in {"failed", "spinning", "done"})
  <2>1. CASE NoInode \/ Finish \/ UNCHANGED vars
    BY <2>1 DEF NoInode, Finish, vars
  <2>2. CASE Spin \/ NoRoom
    <3>1. job.left > 0 /\ UNCHANGED <<shape, groups, inodes, job, queue>>
          /\ phase' \in {"failed", "spinning"}
      BY <2>2 DEF Spin, NoRoom
    <3>2. job.kind # "none"
      BY <3>1 DEF IInv, JobOK, Control, NoJob
    <3>3. phase # "sb"
      BY <3>2 DEF Register, Current
    <3>4. QED
      BY <3>1, <3>3
  <2>3. QED
    BY <2>1, <2>2
<1>2. Grows(queue, queue') /\ groups' \in [G -> Group]
  BY <1>1 DEF Grows, IInv, TypeOK
<1>3. QED
  BY <1>1, <1>2, SameRegister

(* An inode is complete: the next special has its turn. *)
LEMMA AttachedRegister ==
  ASSUME IInv, Register, job.left = 0, job.kind # "none",
         NEW entries, NEW extents, NEW leaf, Attach(entries, extents, leaf),
         Grows(queue, queue'),
         \A g \in G : groups'[g].nodes = groups[g].nodes /\ groups'[g].table = groups[g].table
  PROVE  Register'
<1> DEFINE n == Made(job.num, job, entries, extents, leaf)
           l == Len(inodes)
           ns == Append(inodes, n)
<1>1. /\ inodes' = ns /\ job' = NoJob /\ phase' = After[phase] /\ UNCHANGED shape
  BY DEF Attach
<1>2. /\ phase \in {"journal", "resize", "root", "tree"} /\ inodes \in Seq(Inode)
      /\ G = Groups(shape) /\ groups \in [G -> Group] /\ 0 \in G
  BY JobReady, GroupsAre DEF G
<1>3. n.num = job.num
  BY DEF Made
<1> HIDE DEF n
<1>4. /\ l \in Nat /\ Len(ns) = l + 1 /\ ns[l + 1] = n
      /\ \A i \in 1 .. l : ns[i] = inodes[i]
  BY <1>2
<1> HIDE DEF ns
<1>5. Tables(shape, groups', queue')
  BY <1>2 DEF Register, Tables, Grows
<1>6. \A num : Marked(shape, groups, num) => Marked(shape, groups', num)
  BY <1>2 DEF Marked
<1>7. Marked(shape, groups', job.num) /\ \A i \in 1 .. l : inodes[i].num # job.num
  BY <1>6 DEF Register, Current
<1>8. Numbered(shape, groups', ns)
  <2>1. ASSUME NEW i \in 1 .. l + 1
        PROVE  Marked(shape, groups', ns[i].num) /\ \A j \in 1 .. i - 1 : ns[j].num # ns[i].num
    <3>1. CASE i = l + 1
      <4>1. \A j \in 1 .. i - 1 : j \in 1 .. l
        BY <1>4, <3>1
      <4>2. QED
        BY <1>3, <1>4, <1>7, <3>1, <4>1
    <3>2. CASE i \in 1 .. l
      <4>1. ns[i] = inodes[i] /\ \A j \in 1 .. i - 1 : ns[j] = inodes[j]
        BY <1>4, <3>2
      <4>2. Marked(shape, groups', inodes[i].num)
            /\ \A j \in 1 .. i - 1 : inodes[j].num # inodes[i].num
        BY <1>6, <3>2 DEF Register, Numbered
      <4>3. QED
        BY <4>1, <4>2
    <3>3. QED
      BY <1>4, <3>1, <3>2
  <2>2. QED
    BY <1>4, <2>1 DEF Numbered
<1>9. Order(ns, phase') /\ phase' \notin {"sb", "journal"}
  <2>1. CASE phase = "journal"
    <3>1. phase' = "resize" /\ l = 0 /\ job.num = 8
      BY <1>1, <2>1 DEF After, Register, Order, Current
    <3>2. \A i \in 1 .. Len(ns) : ns[i].num = 8
      BY <1>3, <1>4, <3>1
    <3>3. QED
      BY <3>1, <3>2 DEF Order
  <2>2. CASE phase = "resize"
    <3>1. phase' = "root" /\ job.num = 7 /\ \A i \in 1 .. l : inodes[i].num = 8
      BY <1>1, <2>2 DEF After, Register, Order, Current
    <3>2. \A i \in 1 .. Len(ns) : i \in 1 .. l \/ i = l + 1
      BY <1>4
    <3>3. \A i \in 1 .. Len(ns) : ns[i].num \in {8, 7}
      BY <1>3, <1>4, <3>1, <3>2
    <3>4. QED
      BY <3>1, <3>3 DEF Order
  <2>3. CASE phase \in {"root", "tree"}
    <3>1. phase' = "tree"
      BY <1>1, <2>3 DEF After
    <3>2. QED
      BY <3>1 DEF Order
  <2>4. QED
    BY <1>2, <2>1, <2>2, <2>3
<1>10. Current(shape, groups', ns, NoJob, phase')
  BY DEF Current, NoJob
<1>11. groups'[0].nodes >= 10
  BY <1>2 DEF Register
<1>12. QED
  BY <1>1, <1>5, <1>8, <1>9, <1>10, <1>11 DEF Register

LEMMA AttachesRegister ==
  IInv /\ Register /\ (AttachInline \/ AttachLeaf \/ AttachResize \/ AttachLink) => Register'
<1> SUFFICES ASSUME IInv, Register,
                    AttachInline \/ AttachLeaf \/ AttachResize \/ AttachLink
             PROVE  Register'
  OBVIOUS
<1> DEFINE rs == job.regions
<1>1. job.left = 0 /\ job.kind # "none"
  BY DEF AttachInline, AttachLeaf, AttachResize, AttachLink
<1>2. /\ job \in Job /\ rs \in Seq(Region) /\ rs # <<>> /\ Placed(shape, rs, groups)
      /\ shape \in Shapes /\ groups \in [G -> Group] /\ queue \in Seq(Extent)
      /\ G = Groups(shape)
  BY <1>1, JobReady DEF G
<1> HIDE DEF rs
<1>3. \A i \in 1 .. Len(rs) : Buffer(rs[i].block, 1) \in Extent
  <2>1. \A i \in 1 .. Len(rs) : rs[i] \in Region
    BY <1>2
  <2>2. QED
    BY <2>1 DEF Region, Buffer, Extent
<1>4. 1 \in 1 .. Len(rs)
  BY <1>2
<1>5. CASE AttachInline
  <2> DEFINE m == Data(Reduced(rs))
             g == rs[1].bg
  <2>1. queue' = queue \o m /\ Attach(Len(rs), Reduced(rs), 0)
        /\ groups' = [groups EXCEPT ![g].free = @ + 1, ![g].next = @ - 1]
    BY <1>5 DEF AttachInline, rs
  <2>2. m \in Seq(Extent)
    BY <1>2, ReducedFacts, Mirrored DEF PartOf, Mirrors
  <2> HIDE DEF m
  <2>3. Grows(queue, queue')
    BY <1>2, <2>1, <2>2, Longer
  <2>4. \A h \in G : groups'[h].nodes = groups[h].nodes /\ groups'[h].table = groups[h].table
    <3>1. g \in G /\ groups[g] \in Group
      BY <1>2, <1>4 DEF Placed
    <3> HIDE DEF g
    <3>2. /\ groups'[g] = [groups[g] EXCEPT !.free = @ + 1, !.next = @ - 1]
          /\ \A h \in G : h # g => groups'[h] = groups[h]
      BY <1>2, <2>1, <3>1
    <3>3. groups'[g].nodes = groups[g].nodes /\ groups'[g].table = groups[g].table
      BY <3>1, <3>2 DEF Group
    <3>4. QED
      BY <3>2, <3>3
  <2>5. QED
    BY <1>1, <2>1, <2>3, <2>4, AttachedRegister
<1>6. CASE AttachLeaf
  <2> DEFINE m == Data(Rest(rs))
             e == Buffer(Leaf(rs), 1)
  <2>1. queue' = Append(queue, e) \o m /\ Attach(Len(rs), Rest(rs), Leaf(rs))
        /\ groups' = groups /\ Len(rs) > 3
    BY <1>6 DEF AttachLeaf, rs
  <2>2. m \in Seq(Extent)
    BY <1>2, <2>1, RestFacts, Mirrored DEF PartOf, Mirrors
  <2>3. e \in Extent
    BY <1>2, <1>3, <2>1, RestFacts
  <2> HIDE DEF m, e
  <2>4. Grows(queue, Append(queue, e)) /\ Append(queue, e) \in Seq(Extent)
    BY <1>2, <2>3, OneLonger
  <2>5. Grows(Append(queue, e), queue')
    BY <2>1, <2>2, <2>4, Longer
  <2>6. Grows(queue, queue')
    BY <2>4, <2>5, GrowsOn
  <2>7. QED
    BY <1>1, <2>1, <2>6, AttachedRegister
<1>7. CASE AttachResize
  <2> DEFINE e == Buffer(rs[1].block, 1)
  <2>1. queue' = Append(Append(queue, e), Reserved(shape)) /\ Attach(0, rs, 0) /\ groups' = groups
    BY <1>7 DEF AttachResize, rs
  <2>2. e \in Extent /\ Reserved(shape) \in Extent
    BY <1>2, <1>3, <1>4, ReservedPart DEF AtHead
  <2> HIDE DEF e
  <2>3. Grows(queue, Append(queue, e)) /\ Append(queue, e) \in Seq(Extent)
    BY <1>2, <2>2, OneLonger
  <2>4. Grows(Append(queue, e), queue')
    BY <2>1, <2>2, <2>3, OneLonger
  <2>5. Grows(queue, queue')
    BY <2>3, <2>4, GrowsOn
  <2>6. QED
    BY <1>1, <2>1, <2>5, AttachedRegister
<1>8. CASE AttachLink
  <2> DEFINE e == Buffer(rs[1].block, 1)
  <2>1. queue' = Append(queue, e) /\ Attach(0, rs, 0) /\ groups' = groups
    BY <1>8 DEF AttachLink, rs
  <2>2. e \in Extent
    BY <1>3, <1>4
  <2> HIDE DEF e
  <2>3. Grows(queue, queue')
    BY <1>2, <2>1, <2>2, OneLonger
  <2>4. QED
    BY <1>1, <2>1, <2>3, AttachedRegister
<1>9. QED
  BY <1>5, <1>6, <1>7, <1>8

-----------------------------------------------------------------------------
(* Theorems *)

LEMMA NextRegister == IInv /\ Register /\ [Next]_vars => Register'
<1> SUFFICES ASSUME IInv, Register, [Next]_vars PROVE Register'
  OBVIOUS
<1>1. CASE UNCHANGED vars
  BY <1>1, StopRegister
<1>2. CASE Next
  BY <1>2, CopiesRegister, ReserveRegister, SpecialRegister, NewRegister, TakeRegister,
     StopRegister, AttachesRegister DEF Next
<1>3. QED
  BY <1>1, <1>2

LEMMA Found ==
  ASSUME NEW s \in Shapes, NEW gs \in [Groups(s) -> Group], NEW q, Tables(s, gs, q),
         NEW num \in Nat, Marked(s, gs, num)
  PROVE  /\ (num - 1) \div s.ipg \in Groups(s)
         /\ (num - 1) % s.ipg < gs[(num - 1) \div s.ipg].nodes
         /\ \E k \in 1 .. Len(q) : q[k] = Table(s, (num - 1) \div s.ipg)
<1>1. PICK g \in Groups(s), o \in Nat :
        o < gs[g].nodes /\ num = g * s.ipg + o + 1 /\ gs[g].table
  BY DEF Marked
<1>2. /\ g \in Nat /\ s.ipg \in Nat \ {0} /\ gs[g].nodes \in Nat /\ gs[g].nodes <= s.ipg
  BY ShapesOK, GroupsAre DEF Shape, Group, Tables
<1>3. o < s.ipg
  BY <1>1, <1>2
<1>4. num - 1 = g * s.ipg + o
  <2>1. g * s.ipg \in Nat
    BY <1>2
  <2>2. QED
    BY <1>1, <2>1
<1>5. (num - 1) \div s.ipg = g /\ (num - 1) % s.ipg = o
  BY <1>2, <1>3, <1>4, OnePlace
<1>6. QED
  BY <1>1, <1>5 DEF Tables

(* No two inodes have the same number, each is marked in its group, and the      *)
(* table it is in is queued, for every shape and every tree (get_inode and       *)
(* inode_allocate of allocate.c).                                                *)
THEOREM InodesAreFindable == Spec => []InodesFindable
<1>1. IInv /\ Register => InodesFindable
  <2> SUFFICES ASSUME IInv, Register, NEW i \in 1 .. Len(inodes)
               PROVE  LET num == inodes[i].num
                          g == (num - 1) \div shape.ipg
                      IN  /\ \A j \in 1 .. i - 1 : inodes[j].num # num
                          /\ g \in G /\ (num - 1) % shape.ipg < groups[g].nodes
                          /\ \E k \in 1 .. Len(queue) : queue[k] = Table(shape, g)
    BY DEF InodesFindable
  <2>1. /\ shape \in Shapes /\ G = Groups(shape) /\ groups \in [G -> Group]
        /\ inodes \in Seq(Inode) /\ Tables(shape, groups, queue)
    BY DEF IInv, TypeOK, G, Register
  <2>2. /\ Marked(shape, groups, inodes[i].num)
        /\ \A j \in 1 .. i - 1 : inodes[j].num # inodes[i].num
    BY DEF Register, Numbered
  <2>3. inodes[i] \in Inode
    BY <2>1
  <2>4. inodes[i].num \in Nat
    BY <2>3 DEF Inode
  <2>5. QED
    BY <2>1, <2>2, <2>4, Found
<1>2. Init => IInv /\ Register
  BY InitInv, InitRegister
<1>3. IInv /\ Register /\ [Next]_vars => IInv' /\ Register'
  BY NextInv, NextRegister
<1>4. QED
  BY <1>1, <1>2, <1>3, PTL DEF Spec

================================================================================
