--------------------------- MODULE Ext4Alloc_proofs ---------------------------
(***************************************************************************)
(* Proofs about Ext4Alloc: what is queued fits in the image and no part of  *)
(* it meets another, for every shape and every tree.                        *)
(***************************************************************************)
EXTENDS Ext4Alloc, FiniteSetTheorems, TLAPS

-----------------------------------------------------------------------------
(* Where the groups are *)

LEMMA GroupsAre ==
  ASSUME NEW s \in Shapes
  PROVE  /\ \E n \in Nat : Groups(s) = 0 .. n
         /\ Groups(s) \subseteq Nat /\ 0 \in Groups(s)
         /\ Length(s) \in Int /\ Length(s) <= s.blocks
<1>1. s \in Shape /\ 0 \in Groups(s)
  BY ShapesOK DEF Sound
<1>2. AllGroups(s) \in Int /\ LastSize(s) \in Nat
  BY <1>1 DEF AllGroups, LastSize, Shape
<1>3. PICK n \in Int : Groups(s) = 0 .. n
  BY <1>2 DEF Groups
<1>4. n \in Nat
  BY <1>1, <1>3
<1>5. Length(s) \in Int /\ Length(s) <= s.blocks
  BY <1>1, <1>2 DEF Length, Shape
<1>6. QED
  BY <1>1, <1>3, <1>4, <1>5

(* A group ends before the next ones start. *)
LEMMA StartsApart ==
  ASSUME NEW s \in Shape, NEW g \in Nat, NEW h \in Nat, g < h
  PROVE  Start(s, g) + s.bpg <= Start(s, h)
<1>1. s.bpg \in Nat /\ s.first \in Nat
  BY DEF Shape
<1>2. PICK k \in Nat : h = g + 1 + k
  <2>1. h - g - 1 \in Nat /\ h = g + 1 + (h - g - 1)
    OBVIOUS
  <2>2. QED
    BY <2>1
<1>3. h * s.bpg = g * s.bpg + s.bpg + k * s.bpg
  BY <1>1, <1>2
<1>4. k * s.bpg \in Nat /\ g * s.bpg \in Nat
  BY <1>1
<1>5. QED
  BY <1>1, <1>3, <1>4 DEF Start

LEMMA AheadFacts ==
  ASSUME NEW s \in Shape, NEW g \in Nat
  PROVE  /\ Ahead(s, g) \in Nat /\ Start(s, g) \in Nat
         /\ HasSuper(g) => Ahead(s, g) = 1 + s.desc + s.reserve
         /\ Header(s, g) = Ahead(s, g) + 2 + s.table
         /\ Header(s, g) \in Nat
<1>1. s.bpg \in Nat /\ s.first \in Nat /\ s.desc \in Nat /\ s.reserve \in Nat /\ s.table \in Nat
  BY DEF Shape
<1>2. g * s.bpg \in Nat
  BY <1>1
<1>3. QED
  BY <1>1, <1>2 DEF Ahead, Header, Start

(* A group has room for its header, and lies inside the file system. *)
LEMMA SizeFacts ==
  ASSUME NEW s \in Shapes, NEW g \in Groups(s)
  PROVE  /\ Size(s, g) \in Nat
         /\ Header(s, g) <= Size(s, g) /\ Size(s, g) <= s.bpg
         /\ Start(s, g) + Size(s, g) <= s.blocks
         /\ g + 1 \in Groups(s) => Size(s, g) = s.bpg
         /\ Header(s, g) + 2 <= s.bpg
<1>1. s \in Shape /\ Sound(s)
  BY ShapesOK
<1>2. g \in Nat /\ Length(s) \in Int /\ Length(s) <= s.blocks
  BY GroupsAre
<1>3. s.bpg \in Nat /\ s.blocks \in Nat /\ s.desc \in Nat /\ s.table \in Nat /\ s.reserve \in Nat
  BY <1>1 DEF Shape
<1>4. /\ Start(s, g) \in Nat /\ Start(s, g + 1) \in Nat /\ Header(s, g) \in Nat
      /\ Start(s, g + 1) = Start(s, g) + s.bpg
  <2>1. (g + 1) * s.bpg = g * s.bpg + s.bpg
    BY <1>2, <1>3
  <2>2. Start(s, g) \in Nat /\ Header(s, g) \in Nat
    BY <1>1, <1>2, AheadFacts
  <2>3. s.first \in Nat /\ g * s.bpg \in Nat
    BY <1>1, <1>2, <1>3 DEF Shape
  <2>4. QED
    BY <1>3, <2>1, <2>2, <2>3 DEF Start
<1>5. /\ Header(s, g) + 2 <= s.bpg /\ Start(s, g) + Header(s, g) <= Length(s)
      /\ g + 1 \notin Groups(s) => Length(s) <= Start(s, g + 1)
  BY <1>1 DEF Sound
<1>6. ASSUME g + 1 \in Groups(s) PROVE Start(s, g + 1) <= Length(s)
  <2>1. Start(s, g + 1) + Header(s, g + 1) <= Length(s)
    BY <1>1, <1>6 DEF Sound
  <2>2. Header(s, g + 1) \in Nat
    BY <1>1, <1>2, AheadFacts
  <2>3. QED
    BY <1>2, <1>4, <2>1, <2>2
<1>7. QED
  BY <1>2, <1>3, <1>4, <1>5, <1>6 DEF Size

(* Groups do not meet. *)
LEMMA GroupsApart ==
  ASSUME NEW s \in Shapes, NEW g \in Groups(s), NEW h \in Groups(s), g # h
  PROVE  \/ Start(s, g) + Size(s, g) <= Start(s, h)
         \/ Start(s, h) + Size(s, h) <= Start(s, g)
<1>1. s \in Shape /\ g \in Nat /\ h \in Nat /\ s.bpg \in Nat
  BY ShapesOK, GroupsAre DEF Shape
<1>2. /\ Size(s, g) <= s.bpg /\ Size(s, h) <= s.bpg /\ Size(s, g) \in Nat /\ Size(s, h) \in Nat
  BY SizeFacts
<1>3. Start(s, g) \in Nat /\ Start(s, h) \in Nat
  BY <1>1, AheadFacts
<1>4. \/ Start(s, g) + s.bpg <= Start(s, h)
      \/ Start(s, h) + s.bpg <= Start(s, g)
  BY <1>1, StartsApart
<1>5. QED
  BY <1>1, <1>2, <1>3, <1>4

-----------------------------------------------------------------------------
(* What a header is made of *)

AtHead(p, s, g) ==
    p \in Extent /\ Start(s, g) <= p.block /\ End(p) <= Start(s, g) + Header(s, g)
Inside(p, s, g) == Start(s, g) <= p.block /\ p.block + p.len <= Start(s, g) + Size(s, g)

LEMMA HeadParts ==
  ASSUME NEW s \in Shapes, NEW g \in Groups(s)
  PROVE  /\ AtHead(Bitmaps(s, g), s, g) /\ AtHead(Table(s, g), s, g)
         /\ Apart(Bitmaps(s, g), Table(s, g))
         /\ HasSuper(g) =>
              /\ AtHead(Backup(s, g), s, g) /\ AtHead(BackupDesc(s, g), s, g)
              /\ \A p \in {Backup(s, g), BackupDesc(s, g)} :
                   \A r \in {Bitmaps(s, g), Table(s, g)} : Apart(p, r)
              /\ Apart(Backup(s, g), BackupDesc(s, g))
<1>1. s \in Shape /\ g \in Nat
  BY ShapesOK, GroupsAre
<1>2. /\ s.desc \in Nat \ {0} /\ s.reserve \in Nat \ {0} /\ s.table \in Nat \ {0}
      /\ Ahead(s, g) \in Nat /\ Start(s, g) \in Nat /\ Header(s, g) = Ahead(s, g) + 2 + s.table
      /\ HasSuper(g) => Ahead(s, g) = 1 + s.desc + s.reserve
  BY <1>1, AheadFacts DEF Shape
<1>3. QED
  BY <1>2 DEF AtHead, Bitmaps, Table, Backup, BackupDesc, Buffer, Extent, End, Apart

LEMMA ReservedPart ==
  ASSUME NEW s \in Shapes
  PROVE  /\ AtHead(Reserved(s), s, 0)
         /\ Apart(Reserved(s), Bitmaps(s, 0)) /\ Apart(Reserved(s), Table(s, 0))
         /\ \A p \in {Reserved(s), Bitmaps(s, 0), Table(s, 0)} : s.first + 1 + s.desc <= p.block
         /\ Start(s, 0) = s.first
<1>1. s \in Shape /\ 0 \in Nat /\ HasSuper(0)
  BY ShapesOK DEF HasSuper
<1>2. /\ s.desc \in Nat \ {0} /\ s.reserve \in Nat \ {0} /\ s.table \in Nat \ {0}
      /\ s.first \in Nat /\ s.bpg \in Nat
      /\ Ahead(s, 0) \in Nat /\ Start(s, 0) \in Nat /\ Header(s, 0) = Ahead(s, 0) + 2 + s.table
      /\ Ahead(s, 0) = 1 + s.desc + s.reserve
  BY <1>1, AheadFacts DEF Shape
<1>3. Start(s, 0) = s.first
  BY <1>2 DEF Start
<1>4. QED
  BY <1>2, <1>3 DEF AtHead, Bitmaps, Table, Reserved, Buffer, Extent, End, Apart

(* What lies behind group 0, or behind the header of it, is behind the group *)
(* descriptors.                                                              *)
LEMMA BehindDesc ==
  ASSUME NEW s \in Shapes, NEW g \in Groups(s), NEW b \in Nat, Start(s, g) <= b,
         g = 0 => Start(s, 0) + Header(s, 0) <= b
  PROVE  s.first + 1 + s.desc <= b
<1>1. s \in Shape /\ g \in Nat /\ 0 \in Groups(s) /\ HasSuper(0)
  BY ShapesOK, GroupsAre DEF HasSuper
<1>2. /\ s.desc \in Nat /\ s.reserve \in Nat /\ s.table \in Nat /\ s.first \in Nat
      /\ s.bpg \in Nat
      /\ Header(s, 0) = Ahead(s, 0) + 2 + s.table
      /\ Ahead(s, 0) = 1 + s.desc + s.reserve
  BY <1>1, AheadFacts DEF Shape
<1>3. Start(s, 0) = s.first
  BY ReservedPart
<1>4. CASE g = 0
  BY <1>2, <1>3, <1>4
<1>5. CASE g # 0
  <2>1. Start(s, 0) + s.bpg <= Start(s, g) /\ Start(s, g) \in Nat
    BY <1>1, <1>5, StartsApart, AheadFacts
  <2>2. Header(s, 0) + 2 <= s.bpg
    BY <1>1, SizeFacts
  <2>3. QED
    BY <1>2, <1>3, <2>1, <2>2
<1>6. QED
  BY <1>4, <1>5

LEMMA Elsewhere ==
  ASSUME NEW s \in Shapes, NEW g \in Groups(s), NEW h \in Groups(s), g # h,
         NEW d, NEW e, d.block \in Nat, d.len \in Nat, e.block \in Nat, e.len \in Nat,
         Inside(d, s, g), Inside(e, s, h)
  PROVE  Apart(d, e) /\ Apart(e, d)
<1>1. /\ Start(s, g) \in Nat /\ Start(s, h) \in Nat /\ Size(s, g) \in Nat /\ Size(s, h) \in Nat
  BY ShapesOK, GroupsAre, AheadFacts, SizeFacts
<1>2. QED
  BY <1>1, GroupsApart DEF Inside, Apart, End

LEMMA HeadInside ==
  ASSUME NEW s \in Shapes, NEW g \in Groups(s), NEW p, AtHead(p, s, g)
  PROVE  Inside(p, s, g) /\ p.block \in Nat /\ p.len \in Nat \ {0}
<1>1. /\ Start(s, g) \in Nat /\ Header(s, g) \in Nat /\ Size(s, g) \in Nat
      /\ Header(s, g) <= Size(s, g)
  BY ShapesOK, GroupsAre, AheadFacts, SizeFacts
<1>2. QED
  BY <1>1 DEF AtHead, Inside, Extent, End

(* Data do not meet a header. *)
LEMMA DataOffHeads ==
  ASSUME NEW s \in Shapes, NEW g \in Groups(s), NEW d, d.block \in Nat, d.len \in Nat,
         Inside(d, s, g), Start(s, g) + Header(s, g) <= d.block,
         NEW h \in Groups(s), NEW p, AtHead(p, s, h)
  PROVE  Apart(d, p) /\ Apart(p, d)
<1>1. Inside(p, s, h) /\ p.block \in Nat /\ p.len \in Nat
  BY HeadInside
<1>2. CASE g # h
  BY <1>1, <1>2, Elsewhere
<1>3. CASE g = h
  <2>1. Start(s, g) \in Nat /\ Header(s, g) \in Nat
    BY ShapesOK, GroupsAre, AheadFacts
  <2>2. QED
    BY <1>1, <1>3, <2>1 DEF AtHead, Apart, End
<1>4. QED
  BY <1>2, <1>3

(* Headers of two groups do not meet. *)
LEMMA HeadsApart ==
  ASSUME NEW s \in Shapes, NEW g \in Groups(s), NEW h \in Groups(s), g # h,
         NEW p, NEW r, AtHead(p, s, g), AtHead(r, s, h)
  PROVE  Apart(p, r) /\ Apart(r, p)
BY HeadInside, Elsewhere

-----------------------------------------------------------------------------
(* The queue *)

\* Every extent lies in the part of a group that has been given out.
Located(s, q, gs) ==
    \A i \in 1 .. Len(q) : \E g \in Groups(s) :
      Start(s, g) <= q[i].block /\ End(q[i]) <= Start(s, g) + Size(s, g) - gs[g].free
Spread(q) == \A i, j \in 1 .. Len(q) : i # j => Apart(q[i], q[j])
PastDesc(s, q) == \A i \in 1 .. Len(q) : s.first + 1 + s.desc <= q[i].block
Clear(q, p) == \A i \in 1 .. Len(q) : Apart(q[i], p)

LEMMA ApartSym == \A d, e : Apart(d, e) <=> Apart(e, d)
BY DEF Apart

LEMMA Concat ==
  ASSUME NEW q \in Seq(Extent), NEW m \in Seq(Extent)
  PROVE  /\ q \o m \in Seq(Extent) /\ Len(q \o m) = Len(q) + Len(m)
         /\ \A i \in 1 .. Len(q \o m) :
              \/ i \in 1 .. Len(q) /\ (q \o m)[i] = q[i]
              \/ i - Len(q) \in 1 .. Len(m) /\ (q \o m)[i] = m[i - Len(q)]
OBVIOUS

LEMMA More ==
  ASSUME NEW s, NEW gs, NEW q \in Seq(Extent), NEW m \in Seq(Extent),
         Located(s, q, gs), Spread(q), PastDesc(s, q),
         Located(s, m, gs), Spread(m), PastDesc(s, m),
         \A i \in 1 .. Len(m) : Clear(q, m[i])
  PROVE  /\ q \o m \in Seq(Extent)
         /\ Located(s, q \o m, gs) /\ Spread(q \o m) /\ PastDesc(s, q \o m)
<1>1. q \o m \in Seq(Extent) /\ Located(s, q \o m, gs)
  BY Concat DEF Located
<1>2. PastDesc(s, q \o m)
  BY Concat DEF PastDesc
<1>3. ASSUME NEW i \in 1 .. Len(q \o m), NEW j \in 1 .. Len(q \o m), i # j
      PROVE  Apart((q \o m)[i], (q \o m)[j])
  <2>1. CASE i \in 1 .. Len(q) /\ (q \o m)[i] = q[i]
    <3>1. CASE j \in 1 .. Len(q) /\ (q \o m)[j] = q[j]
      BY <1>3, <2>1, <3>1 DEF Spread
    <3>2. CASE j - Len(q) \in 1 .. Len(m) /\ (q \o m)[j] = m[j - Len(q)]
      BY <2>1, <3>2 DEF Clear
    <3>3. QED
      BY <3>1, <3>2, Concat
  <2>2. CASE i - Len(q) \in 1 .. Len(m) /\ (q \o m)[i] = m[i - Len(q)]
    <3>1. CASE j \in 1 .. Len(q) /\ (q \o m)[j] = q[j]
      BY <2>2, <3>1, ApartSym DEF Clear
    <3>2. CASE j - Len(q) \in 1 .. Len(m) /\ (q \o m)[j] = m[j - Len(q)]
      <4>1. i - Len(q) # j - Len(q)
        BY <1>3
      <4>2. QED
        BY <2>2, <3>2, <4>1 DEF Spread
    <3>3. QED
      BY <3>1, <3>2, Concat
  <2>3. QED
    BY <2>1, <2>2, Concat
<1>4. QED
  BY <1>1, <1>2, <1>3 DEF Spread

LEMMA ClearMore ==
  ASSUME NEW q \in Seq(Extent), NEW m \in Seq(Extent), NEW p, Clear(q, p), Clear(m, p)
  PROVE  Clear(q \o m, p)
BY Concat DEF Clear

-----------------------------------------------------------------------------
(* The inductive invariant *)

\* What a group has given out is what lies between its header and its free
\* blocks, which are its last ones.
Bump(s, gs) ==
    \A g \in Groups(s) :
      /\ gs[g].free <= Size(s, g) - Header(s, g)
      /\ Size(s, g) > Header(s, g) => gs[g].next = Size(s, g) - gs[g].free

\* Each region of the job is the last one given out in its group.
Placed(s, rs, gs) ==
    \A i \in 1 .. Len(rs) :
      /\ rs[i].bg \in Groups(s) /\ Start(s, rs[i].bg) + Header(s, rs[i].bg) <= rs[i].block
      /\ rs[i].block + rs[i].len = Start(s, rs[i].bg) + Size(s, rs[i].bg) - gs[rs[i].bg].free
Distinct(rs) == \A i, j \in 1 .. Len(rs) : i # j => rs[i].bg # rs[j].bg
Exhausted(gs, rs) == \A i \in 1 .. Len(rs) : gs[rs[i].bg].free = 0

\* What is queued does not meet the blocks of the job, nor what is to be queued.
RegionsClear(q, rs) == \A i \in 1 .. Len(rs) : Clear(q, rs[i])
CopiesClear(s, q, a, ph) ==
    ph = "sb" => \A g \in Groups(s) : a <= g /\ g # 0 /\ HasSuper(g) =>
                   Clear(q, Backup(s, g)) /\ Clear(q, BackupDesc(s, g))
TablesClear(s, q, gs) == \A g \in Groups(s) : ~gs[g].table => Clear(q, Table(s, g))
ReservedClear(s, q, ph) == ph \in {"sb", "journal", "resize"} => Clear(q, Reserved(s))

\* How far the job is, and in which phase.
Control(j, ph) ==
    IF j.kind = "none" THEN j = NoJob
    ELSE /\ j.left > 0 \/ j.regions # <<>>
         /\ \/ ph \in {"journal", "resize", "root", "tree"}
            \/ j.left > 0 /\ ph \in {"failed", "spinning"}
         /\ j.kind = "resize" => ph \in {"resize", "failed", "spinning"}

QueueOK(s, q, gs) == Located(s, q, gs) /\ Spread(q) /\ PastDesc(s, q)
JobOK(s, q, gs, j, ph) ==
    /\ Placed(s, j.regions, gs) /\ Distinct(j.regions) /\ RegionsClear(q, j.regions)
    /\ j.left > 0 => Exhausted(gs, j.regions)
    /\ Control(j, ph)
Pending(s, q, gs, a, ph) ==
    CopiesClear(s, q, a, ph) /\ TablesClear(s, q, gs) /\ ReservedClear(s, q, ph)

IInv ==
    /\ TypeOK
    /\ Bump(shape, groups)
    /\ QueueOK(shape, queue, groups)
    /\ JobOK(shape, queue, groups, job, phase)
    /\ Pending(shape, queue, groups, at, phase)

LEMMA NoRegions ==
  ASSUME NEW s, NEW q, NEW gs, NEW rs, rs = <<>>
  PROVE  Placed(s, rs, gs) /\ Distinct(rs) /\ RegionsClear(q, rs) /\ Exhausted(gs, rs)
<1>1. Len(rs) = 0
  OBVIOUS
<1>2. QED
  BY <1>1 DEF Placed, Distinct, RegionsClear, Exhausted

LEMMA NoJobOK ==
  ASSUME NEW s, NEW q, NEW gs, NEW ph
  PROVE  JobOK(s, q, gs, NoJob, ph) /\ NoJob \in Job
<1>1. NoJob.regions = <<>> /\ NoJob.left = 0 /\ NoJob.kind = "none"
  BY DEF NoJob
<1>2. NoJob \in Job
  BY DEF NoJob, Job, Kinds
<1>3. QED
  BY <1>1, <1>2, NoRegions DEF JobOK, Control

-----------------------------------------------------------------------------
(* The initial states *)

LEMMA FreshFacts ==
  ASSUME NEW s \in Shapes, NEW g \in Groups(s)
  PROVE  /\ Fresh(s, g) \in Group
         /\ Fresh(s, g).free = Size(s, g) - Header(s, g)
         /\ Size(s, g) > Header(s, g) => Fresh(s, g).next = Header(s, g)
<1>1. s \in Shape /\ g \in Nat /\ Sound(s)
  BY ShapesOK, GroupsAre
<1>2. /\ Start(s, g) \in Nat /\ Header(s, g) \in Nat /\ Size(s, g) \in Nat /\ s.bpg \in Nat
      /\ Length(s) \in Int
      /\ Header(s, g) <= Size(s, g) /\ Size(s, g) <= s.bpg /\ Header(s, g) + 2 <= s.bpg
  BY <1>1, AheadFacts, SizeFacts, GroupsAre DEF Shape
<1>3. Start(s, g + 1) = Start(s, g) + s.bpg
  <2>1. s.first \in Nat /\ (g + 1) * s.bpg = g * s.bpg + s.bpg /\ g * s.bpg \in Nat
    BY <1>1, <1>2 DEF Shape
  <2>2. QED
    BY <1>2, <2>1 DEF Start
<1>4. Size(s, g) = s.bpg - (IF Start(s, g) + s.bpg - Length(s) \in 1 .. s.bpg - Header(s, g)
                            THEN Start(s, g) + s.bpg - Length(s) ELSE 0)
  BY <1>2, <1>3 DEF Size
<1>5. QED
  BY <1>2, <1>4 DEF Fresh, Group

LEMMA InitInv == Init => IInv
<1> SUFFICES ASSUME Init PROVE IInv
  OBVIOUS
<1>1. shape \in Shapes /\ shape \in Shape /\ 0 \in G /\ G \subseteq Nat
  BY ShapesOK, GroupsAre DEF Init, G
<1>2. PICK n \in Nat : G = 0 .. n
  BY <1>1, GroupsAre DEF G
<1>3. Cardinality(G) = n + 1
  BY <1>2, FS_Interval
<1>4. /\ Len(queue) = n + 1 /\ queue \in Seq(Extent)
      /\ \A i \in 1 .. Len(queue) : i - 1 \in G /\ queue[i] = Bitmaps(shape, i - 1)
  <2>1. queue = [i \in 1 .. n + 1 |-> Bitmaps(shape, i - 1)]
    BY <1>3 DEF Init
  <2>2. \A i \in 1 .. n + 1 : i - 1 \in G
    BY <1>2
  <2>3. \A i \in 1 .. n + 1 : Bitmaps(shape, i - 1) \in Extent
    BY <1>1, <2>2, HeadParts DEF AtHead, G
  <2>4. QED
    BY <2>1, <2>2, <2>3
<1>5. groups = [g \in G |-> Fresh(shape, g)]
  BY DEF Init
<1>6. TypeOK
  BY <1>1, <1>4, <1>5, FreshFacts, NoJobOK DEF Init, TypeOK, G
<1>7. Bump(shape, groups)
  <2>1. ASSUME NEW g \in Groups(shape)
        PROVE  /\ groups[g].free = Size(shape, g) - Header(shape, g)
               /\ Size(shape, g) > Header(shape, g) => groups[g].next = Header(shape, g)
               /\ Size(shape, g) \in Nat /\ Header(shape, g) \in Nat
    BY <1>1, <1>5, FreshFacts, SizeFacts, AheadFacts DEF G
  <2>2. QED
    BY <2>1 DEF Bump
<1>8. QueueOK(shape, queue, groups)
  <2>1. Located(shape, queue, groups)
    <3>1. ASSUME NEW i \in 1 .. Len(queue)
          PROVE  /\ Start(shape, i - 1) <= queue[i].block
                 /\ End(queue[i]) <= Start(shape, i - 1) + Size(shape, i - 1)
                                       - groups[i - 1].free
      <4>1. i - 1 \in G /\ queue[i] = Bitmaps(shape, i - 1)
        BY <1>4
      <4>2. groups[i - 1].free = Size(shape, i - 1) - Header(shape, i - 1)
        BY <1>1, <1>5, <4>1, FreshFacts DEF G
      <4>3. AtHead(queue[i], shape, i - 1)
        BY <1>1, <4>1, HeadParts DEF G
      <4>4. /\ Size(shape, i - 1) \in Nat /\ Header(shape, i - 1) \in Nat
            /\ Start(shape, i - 1) \in Nat
        BY <1>1, <4>1, SizeFacts, AheadFacts DEF G
      <4>5. QED
        BY <4>2, <4>3, <4>4 DEF AtHead
    <3>2. QED
      BY <1>4, <3>1 DEF Located, G
  <2>2. Spread(queue)
    <3>1. ASSUME NEW i \in 1 .. Len(queue), NEW j \in 1 .. Len(queue), i # j
          PROVE  Apart(queue[i], queue[j])
      <4> n + 1 \in Nat /\ i \in 1 .. n + 1 /\ j \in 1 .. n + 1
        BY <1>4
      <4>1. i - 1 # j - 1 /\ i - 1 \in G /\ j - 1 \in G
        BY <1>2, <3>1
      <4>2. AtHead(queue[i], shape, i - 1) /\ AtHead(queue[j], shape, j - 1)
        BY <1>1, <1>4, <4>1, HeadParts DEF G
      <4>3. QED
        BY <1>1, <4>1, <4>2, HeadsApart DEF G
    <3>2. QED
      BY <3>1 DEF Spread
  <2>3. PastDesc(shape, queue)
    <3>1. ASSUME NEW i \in 1 .. Len(queue) PROVE shape.first + 1 + shape.desc <= queue[i].block
      <4>1. i - 1 \in G /\ queue[i] = Bitmaps(shape, i - 1)
        BY <1>4
      <4>2. CASE i - 1 = 0
        BY <1>1, <4>1, <4>2, ReservedPart
      <4>3. CASE i - 1 # 0
        <5>1. AtHead(queue[i], shape, i - 1)
          BY <1>1, <4>1, HeadParts DEF G
        <5>2. queue[i].block \in Nat /\ Start(shape, i - 1) <= queue[i].block
          BY <5>1 DEF AtHead, Extent
        <5>3. QED
          BY <1>1, <4>1, <4>3, <5>2, BehindDesc DEF G
      <4>4. QED
        BY <4>2, <4>3
    <3>2. QED
      BY <3>1 DEF PastDesc
  <2>4. QED
    BY <2>1, <2>2, <2>3 DEF QueueOK
<1>9. Pending(shape, queue, groups, at, phase)
  <2>1. ASSUME NEW g \in G, NEW p, AtHead(p, shape, g), Apart(Bitmaps(shape, g), p)
        PROVE  Clear(queue, p)
    <3>1. ASSUME NEW i \in 1 .. Len(queue) PROVE Apart(queue[i], p)
      <4>1. i - 1 \in G /\ queue[i] = Bitmaps(shape, i - 1)
        BY <1>4
      <4>2. CASE i - 1 = g
        BY <2>1, <4>1, <4>2
      <4>3. CASE i - 1 # g
        <5>1. AtHead(queue[i], shape, i - 1)
          BY <1>1, <4>1, HeadParts DEF G
        <5>2. QED
          BY <1>1, <2>1, <4>1, <4>3, <5>1, HeadsApart DEF G
      <4>4. QED
        BY <4>2, <4>3
    <3>2. QED
      BY <3>1 DEF Clear
  <2>2. CopiesClear(shape, queue, at, phase)
    BY <1>1, <2>1, HeadParts, ApartSym DEF CopiesClear, G
  <2>3. TablesClear(shape, queue, groups)
    BY <1>1, <2>1, HeadParts DEF TablesClear, G
  <2>4. ReservedClear(shape, queue, phase)
    BY <1>1, <2>1, ReservedPart, ApartSym DEF ReservedClear, G
  <2>5. QED
    BY <2>2, <2>3, <2>4 DEF Pending
<1>10. JobOK(shape, queue, groups, job, phase)
  BY NoJobOK DEF Init
<1>11. QED
  BY <1>6, <1>7, <1>8, <1>9, <1>10 DEF IInv

-----------------------------------------------------------------------------
(* Headers and inode tables are queued *)

LEMMA HeadQueue ==
  ASSUME NEW s \in Shapes, NEW g \in Groups(s), NEW gs, gs[g].free \in Nat,
         gs[g].free <= Size(s, g) - Header(s, g),
         NEW p, AtHead(p, s, g), s.first + 1 + s.desc <= p.block
  PROVE  <<p>> \in Seq(Extent) /\ QueueOK(s, <<p>>, gs)
<1>1. /\ Start(s, g) \in Nat /\ Header(s, g) \in Nat /\ Size(s, g) \in Nat
  BY ShapesOK, GroupsAre, AheadFacts, SizeFacts
<1>2. p \in Extent /\ p.block \in Nat /\ p.len \in Nat
  BY DEF AtHead, Extent
<1>3. Located(s, <<p>>, gs)
  <2>1. End(p) <= Start(s, g) + Size(s, g) - gs[g].free
    BY <1>1, <1>2 DEF AtHead, End
  <2>2. QED
    BY <2>1 DEF Located, AtHead
<1>4. QED
  BY <1>2, <1>3 DEF QueueOK, Spread, PastDesc

LEMMA One == \A p, r : Clear(<<p>>, r) <=> Apart(p, r)
BY DEF Clear

LEMMA BackupsInv == IInv /\ ext4_fill_in_sb => IInv'
<1> SUFFICES ASSUME IInv, ext4_fill_in_sb PROVE IInv'
  OBVIOUS
<1>1. /\ shape \in Shapes /\ shape \in Shape /\ 0 \in G /\ G \subseteq Nat /\ at \in G
      /\ queue \in Seq(Extent) /\ groups \in [G -> Group]
      /\ phase = "sb" /\ job = NoJob
  BY ShapesOK, GroupsAre DEF IInv, TypeOK, JobOK, Control, ext4_fill_in_sb, G
<1>2. UNCHANGED <<shape, groups, inodes, job, phase>> /\ at' = at + 1
  BY DEF ext4_fill_in_sb
<1>3. CASE ~(HasSuper(at) /\ at # 0)
  <2>1. queue' = queue
    BY <1>3 DEF ext4_fill_in_sb
  <2>2. Pending(shape, queue, groups, at + 1, phase)
    BY <1>1 DEF IInv, Pending, CopiesClear, G
  <2>3. TypeOK'
    BY <1>1, <1>2, <2>1 DEF IInv, TypeOK, G
  <2>4. QED
    BY <1>2, <2>1, <2>2, <2>3 DEF IInv
<1>4. CASE HasSuper(at) /\ at # 0
  <2> DEFINE a == Backup(shape, at)
             b == BackupDesc(shape, at)
             m == <<a, b>>
  <2>1. queue' = queue \o m
    BY <1>4 DEF ext4_fill_in_sb
  <2>2. AtHead(a, shape, at) /\ AtHead(b, shape, at) /\ Apart(a, b)
    BY <1>1, <1>4, HeadParts DEF G
  <2>3. Clear(queue, a) /\ Clear(queue, b)
    BY <1>1, <1>4 DEF IInv, Pending, CopiesClear, G
  <2>4. shape.first + 1 + shape.desc <= a.block /\ shape.first + 1 + shape.desc <= b.block
    BY <1>1, <1>4, <2>2, BehindDesc DEF AtHead, Extent, G
  <2> HIDE DEF a, b
  <2>5. m \in Seq(Extent) /\ Len(m) = 2 /\ m[1] = a /\ m[2] = b
    BY <2>2 DEF AtHead
  <2>6. QueueOK(shape, m, groups)
    <3>1. /\ QueueOK(shape, <<a>>, groups) /\ QueueOK(shape, <<b>>, groups)
          /\ <<a>> \in Seq(Extent) /\ <<b>> \in Seq(Extent)
      BY <1>1, <2>2, <2>4, HeadQueue DEF IInv, Bump, Group, G
    <3>2. <<a>>[1] = a /\ <<b>>[1] = b /\ Len(<<a>>) = 1 /\ Len(<<b>>) = 1
      OBVIOUS
    <3>3. Located(shape, m, groups)
      BY <2>5, <3>1, <3>2 DEF QueueOK, Located
    <3>4. Spread(m) /\ PastDesc(shape, m)
      BY <2>2, <2>4, <2>5, ApartSym DEF Spread, PastDesc
    <3>5. QED
      BY <3>3, <3>4 DEF QueueOK
  <2> HIDE DEF m
  <2>7. queue' \in Seq(Extent) /\ QueueOK(shape, queue', groups)
    BY <1>1, <2>1, <2>3, <2>5, <2>6, More DEF IInv, QueueOK
  <2>8. ASSUME NEW p, Clear(queue, p), Apart(a, p), Apart(b, p) PROVE Clear(queue', p)
    <3>1. Clear(m, p)
      BY <2>5, <2>8 DEF Clear
    <3>2. QED
      BY <1>1, <2>1, <2>5, <2>8, <3>1, ClearMore
  <2>9. ASSUME NEW g \in G, g # at, NEW p, AtHead(p, shape, g), Clear(queue, p)
        PROVE  Clear(queue', p)
    BY <1>1, <2>2, <2>8, <2>9, HeadsApart DEF G
  <2>10. CopiesClear(shape, queue', at + 1, phase)
    <3>1. ASSUME NEW g \in Groups(shape), at + 1 <= g, g # 0, HasSuper(g)
          PROVE  Clear(queue', Backup(shape, g)) /\ Clear(queue', BackupDesc(shape, g))
      <4>1. g \in G /\ g # at /\ at <= g
        BY <1>1, <3>1 DEF G
      <4>2. Clear(queue, Backup(shape, g)) /\ Clear(queue, BackupDesc(shape, g))
        BY <1>1, <3>1, <4>1 DEF IInv, Pending, CopiesClear
      <4>3. QED
        BY <1>1, <2>9, <3>1, <4>1, <4>2, HeadParts
    <3>2. QED
      BY <3>1 DEF CopiesClear
  <2>11. TablesClear(shape, queue', groups)
    <3>1. ASSUME NEW g \in Groups(shape), ~groups[g].table
          PROVE  Clear(queue', Table(shape, g))
      <4>1. Clear(queue, Table(shape, g)) /\ AtHead(Table(shape, g), shape, g) /\ g \in G
        BY <1>1, <3>1, HeadParts DEF IInv, Pending, TablesClear, G
      <4>2. CASE g # at
        BY <2>9, <4>1, <4>2
      <4>3. CASE g = at
        <5>1. Apart(a, Table(shape, g)) /\ Apart(b, Table(shape, g))
          BY <1>1, <1>4, <4>3, HeadParts DEF a, b, G
        <5>2. QED
          BY <2>8, <4>1, <5>1
      <4>4. QED
        BY <4>2, <4>3
    <3>2. QED
      BY <3>1 DEF TablesClear
  <2>12. ReservedClear(shape, queue', phase)
    BY <1>1, <1>4, <2>9, ReservedPart DEF IInv, Pending, ReservedClear
  <2>13. TypeOK'
    BY <1>1, <1>2, <2>7 DEF IInv, TypeOK, G
  <2>14. JobOK(shape, queue', groups, job, phase)
    BY <1>1, NoJobOK
  <2>15. QED
    BY <1>2, <2>7, <2>10, <2>11, <2>12, <2>13, <2>14 DEF IInv, Pending
<1>5. QED
  BY <1>3, <1>4

(* What depends on the groups depends on their blocks only. *)
LEMMA SameBlocks ==
  ASSUME NEW s \in Shapes, NEW q, NEW gs, NEW gs2, NEW rs, Placed(s, rs, gs),
         \A g \in Groups(s) : gs2[g].free = gs[g].free /\ gs2[g].next = gs[g].next
  PROVE  /\ Bump(s, gs) => Bump(s, gs2)
         /\ QueueOK(s, q, gs) => QueueOK(s, q, gs2)
         /\ Placed(s, rs, gs2)
         /\ Exhausted(gs, rs) => Exhausted(gs2, rs)
<1>1. Bump(s, gs) => Bump(s, gs2)
  BY DEF Bump
<1>2. QueueOK(s, q, gs) => QueueOK(s, q, gs2)
  BY DEF QueueOK, Located
<1>3. Placed(s, rs, gs2)
  BY DEF Placed
<1>4. Exhausted(gs, rs) => Exhausted(gs2, rs)
  BY DEF Exhausted, Placed
<1>5. QED
  BY <1>1, <1>2, <1>3, <1>4

(* get_inode queues the table of a group, or nothing. *)
LEMMA OpenInv ==
  ASSUME IInv, NEW g \in G, NEW num \in Nat, NEW r, Open(g, num, r),
         r.kind \in Kinds, r.blocks \in Nat, r.full \in BOOLEAN,
         groups' \in [G -> Group], groups'[g].table,
         \A h \in G : /\ groups'[h].free = groups[h].free /\ groups'[h].next = groups[h].next
                      /\ h # g => groups'[h].table = groups[h].table,
         UNCHANGED <<shape, phase, at>>, job = NoJob,
         phase \in {"journal", "resize", "root", "tree"}, r.kind = "resize" => phase = "resize"
  PROVE  IInv'
<1>1. /\ shape \in Shapes /\ shape \in Shape /\ 0 \in G /\ G \subseteq Nat
      /\ queue \in Seq(Extent) /\ groups \in [G -> Group] /\ inodes \in Seq(Inode)
  BY ShapesOK, GroupsAre DEF IInv, TypeOK, G
<1> DEFINE t == Table(shape, g)
<1>2. AtHead(t, shape, g) /\ t \in Extent
  BY <1>1, HeadParts DEF G, AtHead
<1>3. shape.first + 1 + shape.desc <= t.block
  <2>1. t.block \in Nat /\ Start(shape, g) <= t.block
    BY <1>2 DEF AtHead, Extent
  <2>2. CASE g = 0
    BY <1>1, <2>2, ReservedPart
  <2>3. CASE g # 0
    BY <1>1, <2>1, <2>3, BehindDesc DEF G
  <2>4. QED
    BY <2>2, <2>3
<1>4. queue' = queue \/ (~groups[g].table /\ queue' = queue \o <<t>>)
  BY <1>1, <1>2 DEF Open
<1>5. <<t>> \in Seq(Extent) /\ QueueOK(shape, <<t>>, groups)
  BY <1>1, <1>2, <1>3, HeadQueue DEF IInv, Bump, Group, G
<1> HIDE DEF t
<1>6. queue' \in Seq(Extent) /\ QueueOK(shape, queue', groups)
  <2>1. CASE queue' = queue
    BY <1>1, <2>1 DEF IInv
  <2>2. CASE ~groups[g].table /\ queue' = queue \o <<t>>
    <3>1. Clear(queue, t)
      BY <2>2 DEF IInv, Pending, TablesClear, G, t
    <3>2. \A i \in 1 .. Len(<<t>>) : Clear(queue, <<t>>[i])
      BY <3>1
    <3>3. QED
      BY <1>1, <1>5, <2>2, <3>2, More DEF IInv, QueueOK
  <2>3. QED
    BY <1>4, <2>1, <2>2
<1>7. ASSUME NEW p, Clear(queue, p), Apart(t, p) PROVE Clear(queue', p)
  <2>1. Clear(<<t>>, p)
    BY <1>7, One
  <2>2. QED
    BY <1>1, <1>4, <1>5, <1>7, <2>1, ClearMore
<1>8. ASSUME NEW h \in G, h # g, NEW p, AtHead(p, shape, h), Clear(queue, p)
      PROVE  Clear(queue', p)
  BY <1>1, <1>2, <1>7, <1>8, HeadsApart DEF G
<1>9. TablesClear(shape, queue', groups')
  <2>1. ASSUME NEW h \in Groups(shape), ~groups'[h].table PROVE Clear(queue', Table(shape, h))
    <3>1. h \in G /\ h # g /\ ~groups[h].table
      BY <2>1 DEF G
    <3>2. Clear(queue, Table(shape, h))
      BY <3>1 DEF IInv, Pending, TablesClear, G
    <3>3. QED
      BY <1>1, <1>8, <3>1, <3>2, HeadParts DEF G
  <2>2. QED
    BY <2>1 DEF TablesClear
<1>10. ReservedClear(shape, queue', phase)
  <2>1. SUFFICES ASSUME phase \in {"sb", "journal", "resize"}
                 PROVE  Clear(queue', Reserved(shape))
    BY DEF ReservedClear
  <2>2. Clear(queue, Reserved(shape))
    BY <2>1 DEF IInv, Pending, ReservedClear
  <2>3. CASE g # 0
    BY <1>1, <1>8, <2>2, <2>3, ReservedPart
  <2>4. CASE g = 0
    BY <1>1, <1>7, <2>2, <2>4, ReservedPart, ApartSym DEF t
  <2>5. QED
    BY <2>3, <2>4
<1>11. CopiesClear(shape, queue', at, phase)
  BY DEF CopiesClear
<1>12. Bump(shape, groups') /\ QueueOK(shape, queue', groups')
  <2>1. Placed(shape, job.regions, groups)
    BY DEF IInv, JobOK
  <2>2. QED
    BY <1>1, <1>6, <2>1, SameBlocks DEF IInv, G
<1>13. JobOK(shape, queue', groups', job', phase) /\ job' \in Job /\ inodes' \in Seq(Inode)
  <2>1. CASE r.blocks = 0
    <3>1. job' = job /\ inodes' = Append(inodes, Made(num, r, 0, <<>>, 0))
      BY <2>1 DEF Open
    <3>2. Made(num, r, 0, <<>>, 0) \in Inode
      BY DEF Made, Inode
    <3>3. QED
      BY <1>1, <3>1, <3>2, NoJobOK
  <2>2. CASE r.blocks # 0
    <3>1. /\ job' = [num |-> num, kind |-> r.kind, blocks |-> r.blocks, full |-> r.full,
                     left |-> Need(r), regions |-> <<>>]
          /\ UNCHANGED inodes
      BY <2>2 DEF Open
    <3>2. Need(r) \in Nat /\ Need(r) > 0
      BY <2>2 DEF Need
    <3>3. job' \in Job
      BY <3>1, <3>2 DEF Job
    <3>4. Control(job', phase)
      BY <3>1, <3>2 DEF Control, Kinds
    <3>5. QED
      BY <1>1, <3>1, <3>3, <3>4, NoRegions DEF JobOK
  <2>3. QED
    BY <2>1, <2>2
<1>14. TypeOK'
  BY <1>1, <1>6, <1>13 DEF IInv, TypeOK, G
<1>15. QED
  BY <1>9, <1>10, <1>11, <1>12, <1>13, <1>14 DEF IInv, Pending

LEMMA OpenSpecialInv == IInv /\ OpenSpecial => IInv'
<1> SUFFICES ASSUME IInv, OpenSpecial PROVE IInv'
  OBVIOUS
<1>1. /\ shape \in Shapes /\ shape \in Shape /\ 0 \in G /\ groups \in [G -> Group]
  BY ShapesOK, GroupsAre DEF IInv, TypeOK, G
<1>2. PICK num \in {8, 7, 2} :
        /\ phase = CASE num = 8 -> "journal" [] num = 7 -> "resize" [] num = 2 -> "root"
        /\ \E r \in Special(num) : Open(0, num, r)
  BY DEF OpenSpecial
<1>3. PICK r \in Special(num) : Open(0, num, r)
  BY <1>2
<1>4. /\ phase \in {"journal", "resize", "root", "tree"} /\ num \in Nat
      /\ phase = "resize" <=> num = 7
  BY <1>2
<1>5. /\ r.kind \in Kinds /\ r.blocks \in Nat /\ r.full \in BOOLEAN
      /\ r.kind = "resize" => num = 7
  <2>1. CASE num = 8
    <3>1. r = [kind |-> "journal", blocks |-> shape.journal, full |-> TRUE]
      BY <1>3, <2>1 DEF Special
    <3>2. QED
      BY <1>1, <2>1, <3>1 DEF Shape, Kinds
  <2>2. CASE num = 7
    <3>1. r = [kind |-> "resize", blocks |-> 1, full |-> TRUE]
      BY <1>3, <2>2 DEF Special
    <3>2. QED
      BY <2>2, <3>1 DEF Kinds
  <2>3. CASE num = 2
    <3>1. r \in Requests /\ r.kind = "dir"
      BY <1>3, <2>3 DEF Special
    <3>2. QED
      BY <3>1, RequestsOK DEF Request, Kinds
  <2>4. QED
    BY <1>2, <2>1, <2>2, <2>3
<1>6. groups' = [groups EXCEPT ![0].table = TRUE] /\ UNCHANGED <<shape, phase, at>> /\ job = NoJob
  BY DEF OpenSpecial
<1>7. /\ groups' \in [G -> Group] /\ groups'[0].table
      /\ \A h \in G : /\ groups'[h].free = groups[h].free /\ groups'[h].next = groups[h].next
                      /\ h # 0 => groups'[h].table = groups[h].table
  BY <1>1, <1>6 DEF Group
<1>8. QED
  BY <1>1, <1>3, <1>4, <1>5, <1>6, <1>7, OpenInv

LEMMA OpenNewInv == IInv /\ OpenNew => IInv'
<1> SUFFICES ASSUME IInv, OpenNew PROVE IInv'
  OBVIOUS
<1>1. /\ shape \in Shapes /\ shape \in Shape /\ G \subseteq Nat /\ groups \in [G -> Group]
  BY ShapesOK, GroupsAre DEF IInv, TypeOK, G
<1>2. PICK g \in G, r \in Requests :
        /\ Open(g, g * shape.ipg + groups[g].nodes + 1, r)
        /\ groups' = [groups EXCEPT ![g].nodes = @ + 1, ![g].table = TRUE]
  BY DEF OpenNew
<1>3. g * shape.ipg + groups[g].nodes + 1 \in Nat
  <2>1. g \in Nat /\ shape.ipg \in Nat /\ groups[g].nodes \in Nat
    BY <1>1 DEF Shape, Group
  <2>2. g * shape.ipg \in Nat
    BY <2>1
  <2>3. QED
    BY <2>1, <2>2
<1>4. r.kind \in Kinds /\ r.kind # "resize" /\ r.blocks \in Nat /\ r.full \in BOOLEAN
  BY RequestsOK DEF Request, Kinds
<1>5. UNCHANGED <<shape, phase, at>> /\ job = NoJob /\ phase = "tree"
  BY DEF OpenNew
<1>6. /\ groups' \in [G -> Group] /\ groups'[g].table
      /\ \A h \in G : /\ groups'[h].free = groups[h].free /\ groups'[h].next = groups[h].next
                      /\ h # g => groups'[h].table = groups[h].table
  <2>1. groups[g] \in Group /\ groups' = [groups EXCEPT ![g] = groups'[g]]
        /\ groups'[g] = [groups[g] EXCEPT !.nodes = @ + 1, !.table = TRUE]
    BY <1>1, <1>2
  <2>2. /\ groups'[g] \in Group /\ groups'[g].table
        /\ groups'[g].free = groups[g].free /\ groups'[g].next = groups[g].next
    <3>1. /\ groups'[g].table = TRUE /\ groups'[g].nodes = groups[g].nodes + 1
          /\ groups'[g].free = groups[g].free /\ groups'[g].next = groups[g].next
          /\ groups'[g].used = groups[g].used
      BY <2>1 DEF Group
    <3>2. groups'[g] = [next |-> groups[g].next, free |-> groups[g].free, used |-> groups[g].used,
                        nodes |-> groups[g].nodes + 1, table |-> TRUE]
      BY <2>1 DEF Group
    <3>3. groups[g].nodes + 1 \in Nat
      BY <2>1 DEF Group
    <3>4. QED
      BY <2>1, <3>1, <3>2, <3>3 DEF Group
  <2>3. \A h \in G : h # g => groups'[h] = groups[h]
    BY <1>1, <2>1
  <2>4. groups' \in [G -> Group]
    BY <1>1, <2>1, <2>2
  <2>5. \A h \in G : groups'[h].free = groups[h].free /\ groups'[h].next = groups[h].next
    BY <2>2, <2>3
  <2>6. QED
    BY <2>2, <2>3, <2>4, <2>5
<1>7. QED
  BY <1>2, <1>3, <1>4, <1>5, <1>6, OpenInv

LEMMA ReserveInodesInv == IInv /\ reserve_inodes => IInv'
<1> SUFFICES ASSUME IInv, reserve_inodes PROVE IInv'
  OBVIOUS
<1>1. /\ shape \in Shapes /\ 0 \in G /\ groups \in [G -> Group] /\ phase = "sb" /\ job = NoJob
      /\ groups' = [groups EXCEPT ![0].nodes = 10] /\ phase' \in {"journal", "resize"}
      /\ UNCHANGED <<shape, inodes, job, at, queue>>
  BY GroupsAre DEF IInv, TypeOK, JobOK, Control, reserve_inodes, G
<1>2. /\ groups' \in [G -> Group]
      /\ \A h \in G : /\ groups'[h].free = groups[h].free /\ groups'[h].next = groups[h].next
                      /\ groups'[h].table = groups[h].table
  BY <1>1 DEF Group
<1>3. TypeOK'
  BY <1>1, <1>2 DEF IInv, TypeOK, G
<1>4. Bump(shape, groups') /\ QueueOK(shape, queue, groups')
  <2>1. Placed(shape, job.regions, groups) /\ Bump(shape, groups) /\ QueueOK(shape, queue, groups)
    BY DEF IInv, JobOK
  <2>2. QED
    <3>1. \A g \in Groups(shape) : groups'[g].free = groups[g].free /\ groups'[g].next = groups[g].next
      BY <1>2 DEF G
    <3>2. shape \in Shapes
      BY <1>1
    <3>3. QED
      BY <2>1, <3>1, <3>2, SameBlocks
<1>5. JobOK(shape, queue, groups', job, phase')
  BY <1>1, NoJobOK
<1>6. Pending(shape, queue, groups', at, phase')
  BY <1>1, <1>2 DEF IInv, Pending, CopiesClear, TablesClear, ReservedClear, G
<1>7. QED
  BY <1>1, <1>3, <1>4, <1>5, <1>6 DEF IInv

LEMMA StopInv == IInv /\ (NoInode \/ Spin \/ NoRoom \/ Finish) => IInv'
<1> SUFFICES ASSUME IInv, NoInode \/ Spin \/ NoRoom \/ Finish PROVE IInv'
  OBVIOUS
<1>1. /\ UNCHANGED <<shape, groups, inodes, job, at, queue>>
      /\ phase' \in {"done", "failed", "spinning"}
      /\ job = NoJob \/ (job.left > 0 /\ phase' \in {"failed", "spinning"})
  BY DEF NoInode, Spin, NoRoom, Finish
<1>2. Control(job, phase')
  BY <1>1 DEF IInv, JobOK, Control, NoJob
<1>3. TypeOK'
  BY <1>1 DEF IInv, TypeOK, G
<1>4. Pending(shape, queue, groups, at, phase')
  BY <1>1 DEF IInv, Pending, CopiesClear, ReservedClear
<1>5. QED
  BY <1>1, <1>2, <1>3, <1>4 DEF IInv, JobOK

-----------------------------------------------------------------------------
(* Blocks are taken *)

LEMMA TakeInv ==
  ASSUME IInv, Running, NEW g \in G, NEW n \in Nat, 0 < n, n <= groups[g].free,
         n <= job.left, n = job.left \/ n = groups[g].free, Take(g, n)
  PROVE  IInv'
<1> DEFINE r == [block |-> Start(shape, g) + groups[g].next, len |-> n, bg |-> g]
<1>1. /\ shape \in Shapes /\ shape \in Shape /\ G \subseteq Nat /\ G = Groups(shape)
      /\ queue \in Seq(Extent) /\ groups \in [G -> Group] /\ job \in Job
  BY ShapesOK, GroupsAre DEF IInv, TypeOK, G
<1>2. /\ groups' = [groups EXCEPT ![g].free = @ - n, ![g].next = @ + n, ![g].used = TRUE]
      /\ job' = [job EXCEPT !.left = @ - n, !.regions = Append(@, r)]
      /\ UNCHANGED <<shape, inodes, phase, at, queue>>
  BY DEF Take
<1>3. /\ Start(shape, g) \in Nat /\ Header(shape, g) \in Nat /\ Size(shape, g) \in Nat
      /\ groups[g].free \in Nat /\ groups[g].next \in Nat
  BY <1>1, AheadFacts, SizeFacts DEF Group, G
<1>4. groups[g].next = Size(shape, g) - groups[g].free
      /\ groups[g].free <= Size(shape, g) - Header(shape, g)
  BY <1>3 DEF IInv, Bump, G
<1>5. /\ groups' \in [G -> Group]
      /\ groups'[g].free = groups[g].free - n /\ groups'[g].next = groups[g].next + n
      /\ \A h \in G : h # g => groups'[h] = groups[h]
      /\ \A h \in G : groups'[h].table = groups[h].table
  BY <1>1, <1>2, <1>3 DEF Group
<1>6. /\ r \in Region /\ r.block = Start(shape, g) + Size(shape, g) - groups[g].free
      /\ r.len = n /\ r.bg = g
  BY <1>1, <1>3, <1>4 DEF Region
<1> HIDE DEF r
<1> DEFINE rs == job.regions
           rs2 == Append(rs, r)
<1>7. rs \in Seq(Region) /\ rs2 \in Seq(Region) /\ Len(rs2) = Len(rs) + 1 /\ rs2 # <<>>
      /\ rs2[Len(rs) + 1] = r /\ \A i \in 1 .. Len(rs) : rs2[i] = rs[i]
  <2>1. rs \in Seq(Region)
    BY <1>1 DEF Job
  <2> HIDE DEF rs
  <2>2. QED
    BY <1>6, <2>1
<1>8. /\ job' \in Job /\ job'.regions = rs2 /\ job'.left = job.left - n /\ job'.kind = job.kind
      /\ job.left \in Nat
  <2>1. job.left \in Nat /\ job.left - n \in Nat
    BY <1>1 DEF Job
  <2>2. job' = [job EXCEPT !.left = job.left - n, !.regions = rs2]
    BY <1>2
  <2> HIDE DEF rs2
  <2>3. QED
    BY <1>1, <1>7, <2>1, <2>2 DEF Job
<1>9. \A i \in 1 .. Len(rs) : rs[i].bg \in G /\ rs[i].bg # g
  <2>1. job.left > 0 /\ groups[g].free # 0
    BY <1>3, <1>8
  <2>2. Exhausted(groups, rs) /\ Placed(shape, rs, groups)
    BY <2>1 DEF IInv, JobOK
  <2>3. QED
    BY <1>1, <2>1, <2>2 DEF Exhausted, Placed
<1>10. Bump(shape, groups')
  <2>1. ASSUME NEW h \in Groups(shape)
        PROVE  /\ groups'[h].free <= Size(shape, h) - Header(shape, h)
               /\ Size(shape, h) > Header(shape, h)
                    => groups'[h].next = Size(shape, h) - groups'[h].free
    <3>1. CASE h = g
      BY <1>3, <1>4, <1>5, <3>1
    <3>2. CASE h # g
      BY <1>1, <1>5, <3>2 DEF IInv, Bump
    <3>3. QED
      BY <3>1, <3>2
  <2>2. QED
    BY <2>1 DEF Bump
<1>11. QueueOK(shape, queue, groups')
  <2>1. ASSUME NEW i \in 1 .. Len(queue)
        PROVE  \E h \in Groups(shape) :
                 /\ Start(shape, h) <= queue[i].block
                 /\ End(queue[i]) <= Start(shape, h) + Size(shape, h) - groups'[h].free
    <3>1. PICK h \in Groups(shape) :
            /\ Start(shape, h) <= queue[i].block
            /\ End(queue[i]) <= Start(shape, h) + Size(shape, h) - groups[h].free
      BY DEF IInv, QueueOK, Located
    <3>2. queue[i] \in Extent
      BY <1>1
    <3>3. End(queue[i]) \in Nat
      BY <3>2 DEF Extent, End
    <3>4. CASE h = g
      <4>1. groups'[g].free <= groups[g].free /\ groups'[g].free \in Nat
        BY <1>3, <1>5
      <4>2. End(queue[i]) <= Start(shape, g) + Size(shape, g) - groups'[g].free
        <5>1. End(queue[i]) <= Start(shape, g) + Size(shape, g) - groups[g].free
          BY <3>1, <3>4
        <5>2. /\ Start(shape, g) \in Nat /\ Size(shape, g) \in Nat /\ groups[g].free \in Nat
          BY <1>3
        <5>3. QED
          BY <3>3, <4>1, <5>1, <5>2, SMTT(30)
      <4>3. QED
        BY <1>1, <3>1, <3>4, <4>2
    <3>5. CASE h # g
      BY <1>1, <1>5, <3>1, <3>5
    <3>6. QED
      BY <3>4, <3>5
  <2>2. QED
    BY <2>1 DEF IInv, QueueOK, Located
<1>12. Placed(shape, rs2, groups')
  <2>1. ASSUME NEW i \in 1 .. Len(rs2)
        PROVE  /\ rs2[i].bg \in Groups(shape)
               /\ Start(shape, rs2[i].bg) + Header(shape, rs2[i].bg) <= rs2[i].block
               /\ rs2[i].block + rs2[i].len
                    = Start(shape, rs2[i].bg) + Size(shape, rs2[i].bg) - groups'[rs2[i].bg].free
    <3>1. CASE i = Len(rs) + 1
      <4>1. rs2[i] = r /\ groups'[g].free = groups[g].free - n
        BY <1>5, <1>7, <3>1
      <4>2. Start(shape, g) + Header(shape, g) <= r.block
        BY <1>3, <1>4, <1>6
      <4>3. r.block + r.len = Start(shape, g) + Size(shape, g) - groups'[g].free
        BY <1>3, <1>6, <4>1
      <4>4. QED
        BY <1>1, <1>6, <4>1, <4>2, <4>3
    <3>2. CASE i \in 1 .. Len(rs)
      BY <1>5, <1>7, <1>9, <3>2 DEF IInv, JobOK, Placed
    <3>3. QED
      BY <1>7, <3>1, <3>2
  <2>2. QED
    BY <2>1 DEF Placed
<1>13. Distinct(rs2)
  <2>1. ASSUME NEW i \in 1 .. Len(rs2), NEW j \in 1 .. Len(rs2), i # j
        PROVE  rs2[i].bg # rs2[j].bg
    <3>1. CASE i \in 1 .. Len(rs) /\ j \in 1 .. Len(rs)
      BY <1>7, <2>1, <3>1 DEF IInv, JobOK, Distinct
    <3>2. CASE i = Len(rs) + 1 \/ j = Len(rs) + 1
      BY <1>6, <1>7, <1>9, <2>1, <3>2
    <3>3. QED
      BY <1>7, <3>1, <3>2
  <2>2. QED
    BY <2>1 DEF Distinct
<1>14. RegionsClear(queue, rs2)
  <2>1. ASSUME NEW i \in 1 .. Len(queue) PROVE Apart(queue[i], r)
    <3>1. PICK h \in Groups(shape) :
            /\ Start(shape, h) <= queue[i].block
            /\ End(queue[i]) <= Start(shape, h) + Size(shape, h) - groups[h].free
      BY DEF IInv, QueueOK, Located
    <3>2. queue[i] \in Extent
      BY <1>1
    <3>3. queue[i].block \in Nat /\ queue[i].len \in Nat
      BY <3>2 DEF Extent
    <3>4. /\ Start(shape, h) \in Nat /\ Size(shape, h) \in Nat /\ groups[h].free \in Nat
      BY <1>1, AheadFacts, SizeFacts DEF Group, G
    <3>5. CASE h = g
      BY <1>6, <3>1, <3>5 DEF Apart
    <3>6. CASE h # g
      <4>1. Inside(queue[i], shape, h)
        <5>1. queue[i].block + queue[i].len <= Start(shape, h) + Size(shape, h)
          BY <3>1, <3>3, <3>4, SMTT(30) DEF End
        <5>2. QED
          BY <3>1, <5>1 DEF Inside
      <4>2. Inside(r, shape, g) /\ r.block \in Nat /\ r.len \in Nat
        <5>1. /\ r.block \in Nat /\ r.len \in Nat /\ Start(shape, g) <= r.block
              /\ r.block + r.len <= Start(shape, g) + Size(shape, g)
          <6>1. /\ Start(shape, g) \in Nat /\ Size(shape, g) \in Nat /\ Header(shape, g) \in Nat
                /\ groups[g].free \in Nat /\ groups[g].free <= Size(shape, g) - Header(shape, g)
            BY <1>3, <1>4
          <6>2. r.block = Start(shape, g) + Size(shape, g) - groups[g].free /\ r.len = n
            BY <1>6
          <6>3. n \in Nat /\ n <= groups[g].free
            OBVIOUS
          <6>4. r.block \in Nat /\ Start(shape, g) <= r.block
            BY <6>1, <6>2
          <6>5. r.block + r.len <= Start(shape, g) + Size(shape, g)
            BY <6>1, <6>2, <6>3
          <6>6. QED
            BY <6>2, <6>4, <6>5
        <5>2. QED
          BY <5>1 DEF Inside
      <4>3. QED
        BY <1>1, <3>3, <3>6, <4>1, <4>2, Elsewhere
    <3>7. QED
      BY <3>5, <3>6
  <2>2. Clear(queue, r)
    BY <2>1 DEF Clear
  <2>3. QED
    BY <1>7, <2>2 DEF IInv, JobOK, RegionsClear
<1>15. job'.left > 0 => Exhausted(groups', rs2)
  <2>1. ASSUME job'.left > 0, NEW i \in 1 .. Len(rs2) PROVE groups'[rs2[i].bg].free = 0
    <3>1. n = groups[g].free /\ job.left > 0
      BY <1>8, <2>1
    <3>2. CASE i = Len(rs) + 1
      <4>1. rs2[i].bg = g
        BY <1>6, <1>7, <3>2
      <4>2. groups'[g].free = n - n
        BY <1>5, <3>1
      <4>3. QED
        BY <4>1, <4>2
    <3>3. CASE i \in 1 .. Len(rs)
      BY <1>5, <1>7, <1>9, <3>1, <3>3 DEF IInv, JobOK, Exhausted
    <3>4. QED
      BY <1>7, <3>2, <3>3
  <2>2. QED
    BY <2>1 DEF Exhausted
<1>16. Control(job', phase)
  <2>1. job.kind # "none"
    BY <1>8 DEF IInv, JobOK, Control, NoJob
  <2>2. QED
    BY <1>7, <1>8, <2>1 DEF IInv, JobOK, Control, Running
<1>17. Pending(shape, queue, groups', at, phase)
  BY <1>1, <1>5 DEF IInv, Pending, TablesClear
<1>18. TypeOK'
  BY <1>1, <1>2, <1>5, <1>8 DEF IInv, TypeOK, G
<1>19. QED
  BY <1>2, <1>8, <1>10, <1>11, <1>12, <1>13, <1>14, <1>15, <1>16, <1>17, <1>18 DEF IInv, JobOK

LEMMA AllocateInv == IInv /\ (Contiguous \/ Partial) => IInv'
<1> SUFFICES ASSUME IInv, Contiguous \/ Partial PROVE IInv'
  OBVIOUS
<1>1. groups \in [G -> Group] /\ job \in Job
  BY DEF IInv, TypeOK
<1>2. CASE Contiguous
  <2>1. PICK g \in G : IsFirst(g, Roomy(job.left)) /\ Take(g, job.left)
    BY <1>2 DEF Contiguous
  <2>2. job.left \in Nat /\ 0 < job.left /\ job.left <= groups[g].free /\ Running
    BY <1>1, <1>2, <2>1 DEF Contiguous, IsFirst, Roomy, Job, Group
  <2>3. QED
    BY <2>1, <2>2, TakeInv
<1>3. CASE Partial
  <2>1. PICK g \in G : IsFirst(g, Unused) /\ groups[g].free > 0 /\ Take(g, groups[g].free)
    BY <1>3 DEF Partial
  <2>2. groups[g].free \in Nat /\ job.left \in Nat /\ Running
    BY <1>1, <1>3 DEF Partial, Job, Group
  <2>3. groups[g].free <= job.left
    BY <1>3, <2>1, <2>2 DEF Partial, InOnePiece, IsFirst
  <2>4. QED
    BY <2>1, <2>2, <2>3, TakeInv
<1>4. QED
  BY <1>2, <1>3

-----------------------------------------------------------------------------
(* The blocks of a job are queued *)

\* Regions in the part of a group that has been given out.
Within(s, rs, gs) ==
    \A i \in 1 .. Len(rs) :
      /\ rs[i].bg \in Groups(s) /\ Start(s, rs[i].bg) + Header(s, rs[i].bg) <= rs[i].block
      /\ rs[i].block + rs[i].len <= Start(s, rs[i].bg) + Size(s, rs[i].bg) - gs[rs[i].bg].free

Mirrors(m, rs) ==
    /\ m \in Seq(Extent) /\ Len(m) = Len(rs)
    /\ \A i \in 1 .. Len(rs) : m[i].block = rs[i].block /\ m[i].len = rs[i].len

LEMMA SubClear ==
  ASSUME NEW q \in Seq(Extent), NEW r, NEW p, r.block \in Nat, r.len \in Nat,
         p.block \in Nat, p.len \in Nat,
         Clear(q, r), r.block <= p.block, p.block + p.len <= r.block + r.len
  PROVE  Clear(q, p)
<1>1. ASSUME NEW i \in 1 .. Len(q) PROVE Apart(q[i], p)
  <2>1. q[i] \in Extent /\ Apart(q[i], r)
    BY DEF Clear
  <2>2. q[i].block \in Nat /\ q[i].len \in Nat
    BY <2>1 DEF Extent
  <2> DEFINE b == q[i].block
             l == q[i].len
             x == r.block
             y == r.block + r.len
             v == p.block
             w == p.block + p.len
  <2>3. b \in Nat /\ l \in Nat /\ x \in Nat /\ y \in Nat /\ v \in Nat /\ w \in Nat
    BY <2>2, SMTT(30)
  <2>4. x <= v /\ w <= y /\ (b + l <= x \/ y <= b)
    BY <2>1 DEF Apart, End
  <2> HIDE DEF b, l, x, y, v, w
  <2>5. b + l <= v \/ w <= b
    BY <2>3, <2>4
  <2>6. QED
    BY <2>5 DEF Apart, End, b, l, v, w
<1>2. QED
  BY <1>1 DEF Clear

LEMMA MirrorClear ==
  ASSUME NEW q, NEW m, NEW rs, Mirrors(m, rs), RegionsClear(q, rs)
  PROVE  \A i \in 1 .. Len(m) : Clear(q, m[i])
<1>1. ASSUME NEW i \in 1 .. Len(m) PROVE Clear(q, m[i])
  <2>1. m[i].block = rs[i].block /\ m[i].len = rs[i].len /\ Clear(q, rs[i])
    BY DEF Mirrors, RegionsClear
  <2>2. QED
    BY <2>1 DEF Clear, Apart, End
<1>2. QED
  BY <1>1

LEMMA DataQueue ==
  ASSUME NEW s \in Shapes, NEW gs \in [Groups(s) -> Group], Bump(s, gs),
         NEW q \in Seq(Extent), QueueOK(s, q, gs),
         NEW rs \in Seq(Region), Within(s, rs, gs), Distinct(rs), RegionsClear(q, rs),
         NEW m, Mirrors(m, rs)
  PROVE  /\ q \o m \in Seq(Extent) /\ QueueOK(s, q \o m, gs)
         /\ \A g \in Groups(s) : \A p : AtHead(p, s, g) /\ Clear(q, p) => Clear(q \o m, p)
<1>1. ASSUME NEW i \in 1 .. Len(m)
      PROVE  /\ m[i] \in Extent /\ m[i].block \in Nat /\ m[i].len \in Nat
             /\ rs[i].bg \in Groups(s) /\ Inside(m[i], s, rs[i].bg)
             /\ Start(s, rs[i].bg) <= m[i].block
             /\ Start(s, rs[i].bg) + Header(s, rs[i].bg) <= m[i].block
             /\ End(m[i]) <= Start(s, rs[i].bg) + Size(s, rs[i].bg) - gs[rs[i].bg].free
  <2>1. m[i] \in Extent /\ i \in 1 .. Len(rs) /\ m[i].block = rs[i].block /\ m[i].len = rs[i].len
    BY DEF Mirrors
  <2> DEFINE g == rs[i].bg
  <2>2. /\ g \in Groups(s) /\ Start(s, g) + Header(s, g) <= m[i].block
        /\ m[i].block + m[i].len <= Start(s, g) + Size(s, g) - gs[g].free
    BY <2>1 DEF Within
  <2> HIDE DEF g
  <2>3. m[i].block \in Nat /\ m[i].len \in Nat
    BY <2>1 DEF Extent
  <2>4. gs[g] \in Group
    BY <2>2
  <2>5. /\ Start(s, g) \in Nat /\ Header(s, g) \in Nat /\ Size(s, g) \in Nat /\ gs[g].free \in Nat
    BY <2>2, <2>4, ShapesOK, GroupsAre, AheadFacts, SizeFacts DEF Group
  <2>6. Start(s, g) <= m[i].block
    <3> DEFINE a == Start(s, g)
               k == Header(s, g)
               b == m[i].block
    <3>1. a \in Nat /\ k \in Nat /\ b \in Nat /\ a + k <= b
      BY <2>2, <2>3, <2>5
    <3> HIDE DEF a, k, b
    <3>2. a <= b
      BY <3>1
    <3>3. QED
      BY <3>2 DEF a, b
  <2>7. m[i].block + m[i].len <= Start(s, g) + Size(s, g)
    <3> DEFINE f == gs[g].free
               a == Start(s, g)
               z == Size(s, g)
               x == m[i].block + m[i].len
    <3>1. x \in Nat /\ a \in Nat /\ z \in Nat /\ f \in Nat
      <4>1. m[i].block + m[i].len \in Nat
        BY <2>3
      <4>2. QED
        BY <2>5, <4>1
    <3>2. x <= a + z - f
      BY <2>2
    <3> HIDE DEF f, a, z, x
    <3>3. x <= a + z
      BY <3>1, <3>2
    <3>4. QED
      BY <3>3 DEF a, z, x
  <2>8. QED
    BY <2>1, <2>2, <2>3, <2>6, <2>7 DEF Inside, End, g
<1>2. Located(s, m, gs)
  BY <1>1 DEF Located
<1>3. Spread(m)
  <2>1. ASSUME NEW i \in 1 .. Len(m), NEW j \in 1 .. Len(m), i # j PROVE Apart(m[i], m[j])
    <3>1. rs[i].bg # rs[j].bg
      BY <2>1 DEF Mirrors, Distinct
    <3>2. QED
      BY <1>1, <3>1, Elsewhere
  <2>2. QED
    BY <2>1 DEF Spread
<1>4. PastDesc(s, m)
  <2>1. ASSUME NEW i \in 1 .. Len(m) PROVE s.first + 1 + s.desc <= m[i].block
    BY <1>1, BehindDesc
  <2>2. QED
    BY <2>1 DEF PastDesc
<1>5. m \in Seq(Extent) /\ \A i \in 1 .. Len(m) : Clear(q, m[i])
  BY MirrorClear DEF Mirrors
<1>6. q \o m \in Seq(Extent) /\ QueueOK(s, q \o m, gs)
  BY <1>2, <1>3, <1>4, <1>5, More DEF QueueOK
<1>7. ASSUME NEW g \in Groups(s), NEW p, AtHead(p, s, g), Clear(q, p)
      PROVE  Clear(q \o m, p)
  <2>1. \A i \in 1 .. Len(m) : Apart(m[i], p)
    BY <1>1, <1>7, DataOffHeads
  <2>2. Clear(m, p)
    BY <2>1 DEF Clear
  <2>3. QED
    BY <1>5, <1>7, <2>2, ClearMore
<1>8. QED
  BY <1>6, <1>7

GiveBack(gs, g) == [gs EXCEPT ![g].free = @ + 1, ![g].next = @ - 1]

(* The first region gives a block back: it was the last one of its group. *)
LEMMA GivenBack ==
  ASSUME NEW s \in Shapes, NEW gs \in [Groups(s) -> Group], Bump(s, gs),
         NEW q \in Seq(Extent), QueueOK(s, q, gs),
         NEW rs \in Seq(Region), Placed(s, rs, gs), Distinct(rs), RegionsClear(q, rs), rs # <<>>,
         NEW gs2, gs2 = GiveBack(gs, rs[1].bg)
  PROVE  /\ gs2 \in [Groups(s) -> Group] /\ Bump(s, gs2) /\ QueueOK(s, q, gs2)
         /\ \A h \in Groups(s) : gs2[h].table = gs[h].table
         /\ gs2[rs[1].bg].free = gs[rs[1].bg].free + 1
         /\ \A h \in Groups(s) : h # rs[1].bg => gs2[h] = gs[h]
<1> DEFINE r == rs[1]
           g == r.bg
           f == gs[g].free
           a == Start(s, g)
           z == Size(s, g)
           k == Header(s, g)
<1>1. 1 \in 1 .. Len(rs) /\ r \in Region
  OBVIOUS
<1>2. /\ g \in Groups(s) /\ a + k <= r.block /\ r.block + r.len = a + z - f
  BY <1>1 DEF Placed
<1>3. gs[g] \in Group
  BY <1>2
<1>4. f \in Nat /\ gs[g].next \in Nat
  BY <1>3 DEF Group
<1>5. a \in Nat /\ z \in Nat /\ k \in Nat
  BY <1>2, ShapesOK, GroupsAre, AheadFacts, SizeFacts
<1>6. /\ f <= z - k /\ (z > k => gs[g].next = z - f)
  BY <1>2 DEF Bump
<1>7. r.block \in Nat /\ r.len \in Nat /\ r.len > 0
  BY <1>1 DEF Region
<1>8. Clear(q, r)
  BY <1>1 DEF RegionsClear
<1>9. /\ \A h \in Groups(s) : h # g => gs2[h] = gs[h]
      /\ DOMAIN gs2 = Groups(s) /\ gs2 = [h \in Groups(s) |-> gs2[h]]
  BY <1>2 DEF GiveBack
<1>10. /\ gs2[g].free = f + 1 /\ gs2[g].next = gs[g].next - 1 /\ gs2[g].table = gs[g].table
       /\ gs2[g].used = gs[g].used /\ gs2[g].nodes = gs[g].nodes
       /\ gs2[g] = [next |-> gs2[g].next, free |-> gs2[g].free, used |-> gs2[g].used,
                    nodes |-> gs2[g].nodes, table |-> gs2[g].table]
  BY <1>2, <1>3 DEF Group, GiveBack
<1> HIDE DEF r, g, f, a, z, k
<1>11. f + 1 <= z - k /\ z > k
  BY <1>2, <1>4, <1>5, <1>7
<1>12. gs2[g].next = z - (f + 1) /\ gs2[g].next \in Nat /\ gs2[g].free \in Nat
  BY <1>4, <1>5, <1>6, <1>10, <1>11
<1>13. gs2[g] \in Group
  <2>1. gs[g].used \in BOOLEAN /\ gs[g].nodes \in Nat /\ gs[g].table \in BOOLEAN
    BY <1>3 DEF Group
  <2>2. QED
    BY <1>10, <1>12, <2>1 DEF Group
<1>14. gs2 \in [Groups(s) -> Group]
  BY <1>9, <1>13
<1>15. Bump(s, gs2)
  <2>1. ASSUME NEW h \in Groups(s)
        PROVE  /\ gs2[h].free <= Size(s, h) - Header(s, h)
               /\ Size(s, h) > Header(s, h) => gs2[h].next = Size(s, h) - gs2[h].free
    <3>1. CASE h = g
      BY <1>10, <1>11, <1>12, <3>1 DEF z, k
    <3>2. CASE h # g
      BY <1>9, <3>2 DEF Bump
    <3>3. QED
      BY <3>1, <3>2
  <2>2. QED
    BY <2>1 DEF Bump
<1>16. QueueOK(s, q, gs2)
  <2>1. ASSUME NEW i \in 1 .. Len(q)
        PROVE  \E h \in Groups(s) :
                 /\ Start(s, h) <= q[i].block
                 /\ End(q[i]) <= Start(s, h) + Size(s, h) - gs2[h].free
    <3>1. PICK h \in Groups(s) :
            /\ Start(s, h) <= q[i].block
            /\ End(q[i]) <= Start(s, h) + Size(s, h) - gs[h].free
      BY DEF QueueOK, Located
    <3>2. q[i] \in Extent /\ Apart(q[i], r)
      BY <1>8 DEF Clear
    <3> DEFINE b == q[i].block
               l == q[i].len
    <3>3. b \in Nat /\ l \in Nat /\ l > 0 /\ End(q[i]) = b + l
      BY <3>2 DEF Extent, End
    <3>4. b + l <= r.block \/ r.block + r.len <= b
      BY <3>2, <3>3 DEF Apart, End
    <3>5. CASE h = g
      <4>1. b + l <= a + z - f
        BY <3>1, <3>3, <3>5 DEF a, z, f
      <4> HIDE DEF b, l
      <4>2. b + l <= a + z - (f + 1)
        BY <1>2, <1>4, <1>5, <1>7, <3>3, <3>4, <4>1
      <4>3. End(q[i]) <= Start(s, g) + Size(s, g) - gs2[g].free
        BY <1>10, <3>3, <4>2 DEF a, z
      <4>4. QED
        BY <1>2, <3>1, <3>5, <4>3
    <3>6. CASE h # g
      BY <1>9, <3>1, <3>6
    <3>7. QED
      BY <3>5, <3>6
  <2>2. QED
    BY <2>1 DEF QueueOK, Located
<1>17. \A h \in Groups(s) : gs2[h].table = gs[h].table
  BY <1>9, <1>10
<1>18. QED
  BY <1>9, <1>10, <1>14, <1>15, <1>16, <1>17 DEF f, g, r

(* A job that has all its blocks. *)
LEMMA JobReady ==
  ASSUME IInv, job.left = 0, job.kind # "none"
  PROVE  /\ job \in Job /\ job.regions \in Seq(Region) /\ job.regions # <<>>
         /\ Placed(shape, job.regions, groups) /\ Distinct(job.regions)
         /\ RegionsClear(queue, job.regions)
         /\ phase \in {"journal", "resize", "root", "tree"}
         /\ job.kind = "resize" => phase = "resize"
         /\ shape \in Shapes /\ groups \in [G -> Group] /\ queue \in Seq(Extent) /\ at \in Nat
         /\ inodes \in Seq(Inode)
<1>1. TypeOK /\ JobOK(shape, queue, groups, job, phase)
  BY DEF IInv
<1>2. job \in Job /\ job.regions \in Seq(Region)
  BY <1>1 DEF TypeOK, Job
<1>3. Control(job, phase)
  BY <1>1 DEF JobOK
<1>4. /\ job.regions # <<>> /\ phase \in {"journal", "resize", "root", "tree"}
      /\ job.kind = "resize" => phase = "resize"
  BY <1>3 DEF Control
<1>5. QED
  BY <1>1, <1>2, <1>4 DEF TypeOK, JobOK

LEMMA Attached ==
  ASSUME IInv, job.left = 0, job.kind # "none",
         NEW entries \in Nat, NEW extents \in Seq(Region), NEW leaf \in Nat,
         Attach(entries, extents, leaf),
         groups' \in [G -> Group], Bump(shape, groups'),
         \A g \in G : groups'[g].table = groups[g].table,
         queue' \in Seq(Extent), QueueOK(shape, queue', groups'),
         \A g \in G : Clear(queue, Table(shape, g)) => Clear(queue', Table(shape, g)),
         phase = "journal" /\ Clear(queue, Reserved(shape)) => Clear(queue', Reserved(shape))
  PROVE  IInv'
<1>1. /\ UNCHANGED <<shape, at>> /\ job' = NoJob /\ phase' = After[phase]
      /\ inodes' = Append(inodes, Made(job.num, job, entries, extents, leaf))
  BY DEF Attach
<1>2. /\ phase \in {"journal", "resize", "root", "tree"} /\ job \in Job
      /\ inodes \in Seq(Inode) /\ shape \in Shapes /\ at \in Nat
  BY JobReady
<1>3. phase' \in {"resize", "root", "tree"} /\ (phase' = "resize" => phase = "journal")
  BY <1>1, <1>2 DEF After
<1>4. Made(job.num, job, entries, extents, leaf) \in Inode
  <2>1. job.num \in Nat /\ job.kind \in Kinds /\ job.blocks \in Nat
    BY <1>2 DEF Job
  <2>2. QED
    BY <2>1 DEF Made, Inode
<1>5. TypeOK'
  <2>1. inodes' \in Seq(Inode)
    BY <1>1, <1>2, <1>4
  <2>2. job' \in Job
    BY <1>1, NoJobOK
  <2>3. QED
    BY <1>1, <1>2, <1>3, <2>1, <2>2 DEF TypeOK, G
<1>6. JobOK(shape, queue', groups', job', phase')
  BY <1>1, NoJobOK
<1>7. Pending(shape, queue', groups', at, phase')
  <2>1. CopiesClear(shape, queue', at, phase')
    BY <1>3 DEF CopiesClear
  <2>2. TablesClear(shape, queue', groups')
    BY DEF IInv, Pending, TablesClear, G
  <2>3. ReservedClear(shape, queue', phase')
    BY <1>3 DEF IInv, Pending, ReservedClear
  <2>4. QED
    BY <2>1, <2>2, <2>3 DEF Pending
<1>8. QED
  BY <1>1, <1>5, <1>6, <1>7 DEF IInv

\* Each region of ps is part of the same one of rs.
PartOf(ps, rs) ==
    /\ ps \in Seq(Region) /\ Len(ps) <= Len(rs)
    /\ \A i \in 1 .. Len(ps) :
         /\ ps[i].bg = rs[i].bg /\ rs[i].block <= ps[i].block
         /\ ps[i].block + ps[i].len <= rs[i].block + rs[i].len

LEMMA PartFacts ==
  ASSUME NEW rs \in Seq(Region), NEW ps, PartOf(ps, rs), NEW q \in Seq(Extent),
         Distinct(rs), RegionsClear(q, rs)
  PROVE  Distinct(ps) /\ RegionsClear(q, ps)
<1>1. ASSUME NEW i \in 1 .. Len(ps) PROVE i \in 1 .. Len(rs) /\ ps[i].bg = rs[i].bg
  BY DEF PartOf
<1>2. Distinct(ps)
  BY <1>1 DEF Distinct
<1>3. ASSUME NEW i \in 1 .. Len(ps) PROVE Clear(q, ps[i])
  <2>1. i \in 1 .. Len(rs) /\ ps[i] \in Region /\ rs[i] \in Region
    BY <1>1 DEF PartOf
  <2>2. rs[i].block <= ps[i].block /\ ps[i].block + ps[i].len <= rs[i].block + rs[i].len
    BY DEF PartOf
  <2>3. /\ ps[i].block \in Nat /\ ps[i].len \in Nat /\ rs[i].block \in Nat /\ rs[i].len \in Nat
    BY <2>1 DEF Region
  <2>4. Clear(q, rs[i])
    BY <2>1 DEF RegionsClear
  <2>5. QED
    BY <2>2, <2>3, <2>4, SubClear
<1>4. QED
  BY <1>2, <1>3 DEF RegionsClear

LEMMA ReducedFacts ==
  ASSUME NEW rs \in Seq(Region), rs # <<>>
  PROVE  /\ PartOf(Reduced(rs), rs)
         /\ Reduced(rs) # <<>> => Reduced(rs)[1].block + Reduced(rs)[1].len
                                    = rs[1].block + rs[1].len - 1
<1>1. 1 \in 1 .. Len(rs) /\ rs[1] \in Region
  OBVIOUS
<1>2. CASE rs[1].len > 1
  <2> DEFINE r == [block |-> rs[1].block, len |-> rs[1].len - 1, bg |-> rs[1].bg]
             ps == [rs EXCEPT ![1] = r]
  <2>1. Reduced(rs) = ps
    <3>1. [rs[1] EXCEPT !.len = rs[1].len - 1] = r
      BY <1>1 DEF Region
    <3>2. Reduced(rs) = [rs EXCEPT ![1] = [rs[1] EXCEPT !.len = rs[1].len - 1]]
      BY <1>1, <1>2 DEF Reduced
    <3>3. QED
      BY <3>1, <3>2
  <2>2. /\ r \in Region /\ r.bg = rs[1].bg /\ r.block = rs[1].block
        /\ r.block + r.len = rs[1].block + rs[1].len - 1
        /\ r.block + r.len <= rs[1].block + rs[1].len
    BY <1>1, <1>2 DEF Region
  <2> HIDE DEF r
  <2>3. /\ ps \in Seq(Region) /\ Len(ps) = Len(rs) /\ ps[1] = r
        /\ \A i \in 1 .. Len(rs) : i # 1 => ps[i] = rs[i]
    BY <1>1, <2>2
  <2> HIDE DEF ps
  <2>4. ASSUME NEW i \in 1 .. Len(ps)
        PROVE  /\ ps[i].bg = rs[i].bg /\ rs[i].block <= ps[i].block
               /\ ps[i].block + ps[i].len <= rs[i].block + rs[i].len
    <3>1. i \in 1 .. Len(rs)
      BY <2>3
    <3>2. rs[i] \in Region
      BY <3>1
    <3>3. rs[i].block \in Nat /\ rs[i].len \in Nat
      BY <3>2 DEF Region
    <3>4. QED
      BY <2>2, <2>3, <3>3
  <2>5. QED
    BY <2>1, <2>2, <2>3, <2>4 DEF PartOf
<1>3. CASE ~(rs[1].len > 1)
  <2>1. Reduced(rs) = <<>> /\ Len(<<>>) = 0 /\ Len(rs) \in Nat
    BY <1>3 DEF Reduced
  <2>2. QED
    BY <2>1 DEF PartOf
<1>4. QED
  BY <1>2, <1>3

LEMMA Mirrored ==
  ASSUME job \in Job, NEW ps \in Seq(Region)
  PROVE  Mirrors(Data(ps), ps)
<1>1. job.full \in BOOLEAN
  BY DEF Job
<1> DEFINE E(i) == [block |-> ps[i].block, len |-> ps[i].len, file |-> job.kind = "file",
                    full |-> i < Len(ps) \/ job.full]
           n == Len(ps)
<1>2. ASSUME NEW i \in 1 .. n
      PROVE  E(i) \in Extent /\ E(i).block = ps[i].block /\ E(i).len = ps[i].len
  <2>1. ps[i] \in Region
    OBVIOUS
  <2>2. ps[i].block \in Nat /\ ps[i].len \in Nat \ {0}
    BY <2>1 DEF Region
  <2>3. (job.kind = "file") \in BOOLEAN /\ (i < Len(ps) \/ job.full) \in BOOLEAN
    BY <1>1
  <2>4. QED
    BY <2>2, <2>3 DEF Extent
<1>3. Data(ps) = [i \in 1 .. n |-> E(i)] /\ n \in Nat
  BY DEF Data
<1> HIDE DEF E
<1>4. Data(ps) \in Seq(Extent) /\ Len(Data(ps)) = n /\ \A i \in 1 .. n : Data(ps)[i] = E(i)
  BY <1>2, <1>3
<1>5. QED
  BY <1>2, <1>4 DEF Mirrors

LEMMA AttachInlineInv == IInv /\ AttachInline => IInv'
<1> SUFFICES ASSUME IInv, AttachInline PROVE IInv'
  OBVIOUS
<1> DEFINE rs == job.regions
           ps == Reduced(rs)
<1>1. job.left = 0 /\ job.kind # "none"
  BY DEF AttachInline
<1>2. /\ groups' = GiveBack(groups, rs[1].bg) /\ queue' = queue \o Data(ps)
      /\ Attach(Len(rs), ps, 0) /\ shape' = shape
  BY DEF AttachInline, GiveBack, Attach
<1>3. /\ job \in Job /\ rs \in Seq(Region) /\ rs # <<>> /\ Placed(shape, rs, groups)
      /\ Distinct(rs) /\ RegionsClear(queue, rs) /\ shape \in Shapes
      /\ groups \in [G -> Group] /\ queue \in Seq(Extent) /\ G = Groups(shape)
  BY <1>1, JobReady DEF G
<1>4. Bump(shape, groups) /\ QueueOK(shape, queue, groups)
  BY DEF IInv
<1> HIDE DEF rs
<1>5. /\ groups' \in [G -> Group] /\ Bump(shape, groups') /\ QueueOK(shape, queue, groups')
      /\ \A h \in G : groups'[h].table = groups[h].table
      /\ groups'[rs[1].bg].free = groups[rs[1].bg].free + 1
      /\ \A h \in G : h # rs[1].bg => groups'[h] = groups[h]
  BY <1>2, <1>3, <1>4, GivenBack
<1>6. PartOf(ps, rs) /\ ps \in Seq(Region)
      /\ (ps # <<>> => ps[1].block + ps[1].len = rs[1].block + rs[1].len - 1)
  BY <1>3, ReducedFacts DEF PartOf
<1> HIDE DEF ps
<1>7. Distinct(ps) /\ RegionsClear(queue, ps)
  BY <1>3, <1>6, PartFacts
<1>8. Within(shape, ps, groups')
  <2>1. ASSUME NEW i \in 1 .. Len(ps)
        PROVE  /\ ps[i].bg \in Groups(shape)
               /\ Start(shape, ps[i].bg) + Header(shape, ps[i].bg) <= ps[i].block
               /\ ps[i].block + ps[i].len
                    <= Start(shape, ps[i].bg) + Size(shape, ps[i].bg) - groups'[ps[i].bg].free
    <3> DEFINE g == ps[i].bg
               b == ps[i].block
               l == ps[i].len
               top == rs[i].block + rs[i].len
               a == Start(shape, g)
               k == Header(shape, g)
               z == Size(shape, g)
               f == groups[g].free
               f2 == groups'[g].free
    <3>1. i \in 1 .. Len(rs) /\ g = rs[i].bg /\ rs[i].block <= b /\ b + l <= top
      BY <1>6 DEF PartOf
    <3>2. g \in Groups(shape) /\ a + k <= rs[i].block /\ top = a + z - f
      BY <1>3, <3>1 DEF Placed
    <3>3. groups[g] \in Group /\ groups'[g] \in Group
      BY <1>3, <1>5, <3>2
    <3>4. f \in Nat /\ f2 \in Nat
      BY <3>3 DEF Group
    <3>5. a \in Nat /\ k \in Nat /\ z \in Nat
      BY <1>3, <3>2, ShapesOK, GroupsAre, AheadFacts, SizeFacts
    <3>6. rs[i] \in Region /\ ps[i] \in Region
      BY <1>3, <1>6, <3>1
    <3>7. rs[i].block \in Nat /\ rs[i].len \in Nat /\ b \in Nat /\ l \in Nat
      BY <3>6 DEF Region
    <3>8. i = 1 \/ g # rs[1].bg
      BY <3>1, <1>3 DEF Distinct
    <3>9. \/ f2 = f + 1 /\ b + l = top - 1
          \/ f2 = f
      <4>1. CASE i = 1
        <5>1. ps # <<>>
          BY <4>1
        <5>2. QED
          <6>1. ps[1].block + ps[1].len = rs[1].block + rs[1].len - 1
            BY <1>6, <5>1
          <6>2. g = rs[1].bg
            BY <3>1, <4>1
          <6>3. f2 = f + 1
            BY <1>5, <6>2
          <6>4. b + l = top - 1
            <7>1. ps[i] = ps[1] /\ rs[i] = rs[1]
              BY <4>1
            <7>2. QED
              BY <3>7, <6>1, <7>1, SMTT(30)
          <6>5. QED
            BY <6>3, <6>4
      <4>2. CASE g # rs[1].bg
        BY <1>3, <1>5, <3>2, <4>2
      <4>3. QED
        BY <3>8, <4>1, <4>2
    <3> HIDE DEF g, b, l, a, k, z, f, f2
    <3>10. a + k <= b
      BY <3>1, <3>2, <3>5, <3>7
    <3> HIDE DEF top
    <3>11. b + l <= a + z - f2
      BY <3>1, <3>2, <3>4, <3>5, <3>7, <3>9
    <3>12. QED
      BY <3>2, <3>10, <3>11 DEF g, b, l, a, k, z, f2
  <2>2. QED
    BY <2>1 DEF Within
<1>9. Mirrors(Data(ps), ps)
  BY <1>3, <1>6, Mirrored
<1>10. /\ queue' \in Seq(Extent) /\ QueueOK(shape, queue', groups')
       /\ \A g \in G : \A p : AtHead(p, shape, g) /\ Clear(queue, p) => Clear(queue', p)
  BY <1>2, <1>3, <1>5, <1>6, <1>7, <1>8, <1>9, DataQueue
<1>11. /\ \A g \in G : AtHead(Table(shape, g), shape, g)
       /\ 0 \in G /\ AtHead(Reserved(shape), shape, 0)
  BY <1>3, HeadParts, ReservedPart, GroupsAre
<1>12. QED
  <2>1. Len(rs) \in Nat /\ 0 \in Nat
    BY <1>3
  <2>2. /\ \A g \in G : Clear(queue, Table(shape, g)) => Clear(queue', Table(shape, g))
        /\ Clear(queue, Reserved(shape)) => Clear(queue', Reserved(shape))
    BY <1>10, <1>11
  <2>3. Attach(Len(rs), ps, 0)
    BY <1>2
  <2>4. /\ groups' \in [G -> Group] /\ Bump(shape, groups')
        /\ \A h \in G : groups'[h].table = groups[h].table
    BY <1>5
  <2>5. QED
    BY <1>1, <1>6, <1>10, <2>1, <2>2, <2>3, <2>4, Attached

LEMMA PartWithin ==
  ASSUME NEW s \in Shapes, NEW gs \in [Groups(s) -> Group], NEW rs \in Seq(Region),
         Placed(s, rs, gs), NEW ps, PartOf(ps, rs)
  PROVE  /\ Within(s, ps, gs)
         /\ \A i \in 1 .. Len(ps) : Inside(ps[i], s, rs[i].bg) /\ rs[i].bg \in Groups(s)
<1>1. ASSUME NEW i \in 1 .. Len(ps)
      PROVE  /\ rs[i].bg \in Groups(s) /\ ps[i].bg = rs[i].bg
             /\ Start(s, rs[i].bg) + Header(s, rs[i].bg) <= ps[i].block
             /\ ps[i].block + ps[i].len
                  <= Start(s, rs[i].bg) + Size(s, rs[i].bg) - gs[rs[i].bg].free
             /\ Inside(ps[i], s, rs[i].bg)
  <2> DEFINE g == rs[i].bg
             c == rs[i].block
             b == ps[i].block
             x == b + ps[i].len
             y == c + rs[i].len
             a == Start(s, g)
             k == Header(s, g)
             z == Size(s, g)
             f == gs[g].free
  <2>1. i \in 1 .. Len(rs) /\ ps[i] \in Region /\ ps[i].bg = g /\ c <= b /\ x <= y
    BY DEF PartOf
  <2>2. g \in Groups(s) /\ a + k <= c /\ y = a + z - f
    BY <2>1 DEF Placed
  <2>3. gs[g] \in Group /\ rs[i] \in Region
    BY <2>1, <2>2
  <2>4. b \in Nat /\ c \in Nat /\ x \in Nat /\ y \in Nat /\ f \in Nat
    <3>1. b \in Nat /\ c \in Nat /\ ps[i].len \in Nat /\ rs[i].len \in Nat
      BY <2>1, <2>3 DEF Region
    <3>2. f \in Nat
      BY <2>3 DEF Group
    <3>3. x \in Nat /\ y \in Nat
      <4> DEFINE l == ps[i].len
                 m == rs[i].len
      <4>1. b \in Nat /\ c \in Nat /\ l \in Nat /\ m \in Nat /\ x = b + l /\ y = c + m
        BY <3>1
      <4> HIDE DEF b, c, l, m, x, y
      <4>2. QED
        BY <4>1
    <3>4. QED
      BY <3>1, <3>2, <3>3
  <2>5. a \in Nat /\ k \in Nat /\ z \in Nat
    BY <2>2, ShapesOK, GroupsAre, AheadFacts, SizeFacts
  <2> HIDE DEF g, c, b, x, y, a, k, z, f
  <2>6. a + k <= b /\ x <= a + z - f /\ a <= b /\ x <= a + z
    BY <2>1, <2>2, <2>4, <2>5
  <2>7. Inside(ps[i], s, g)
    BY <2>6 DEF Inside, b, x, a, z
  <2>8. QED
    BY <2>1, <2>2, <2>6, <2>7 DEF g, b, x, a, k, z, f
<1>2. Within(s, ps, gs)
  BY <1>1 DEF Within
<1>3. QED
  BY <1>1, <1>2

(* One block of a region is queued, to be the block that indexes others. *)
LEMMA OneBlock ==
  ASSUME NEW s \in Shapes, NEW gs \in [Groups(s) -> Group], Bump(s, gs),
         NEW q \in Seq(Extent), QueueOK(s, q, gs),
         NEW rs \in Seq(Region), Placed(s, rs, gs), RegionsClear(q, rs),
         NEW k \in 1 .. Len(rs), NEW e, e = Buffer(rs[k].block, 1)
  PROVE  /\ Append(q, e) \in Seq(Extent) /\ QueueOK(s, Append(q, e), gs)
         /\ \A g \in Groups(s) : \A p : AtHead(p, s, g) /\ Clear(q, p) => Clear(Append(q, e), p)
         /\ \A p : Clear(q, p) /\ Apart(e, p) => Clear(Append(q, e), p)
         /\ Inside(e, s, rs[k].bg) /\ rs[k].bg \in Groups(s)
         /\ e.block = rs[k].block /\ e.len = 1
<1> DEFINE one == [block |-> rs[k].block, len |-> 1, bg |-> rs[k].bg]
           rs0 == <<rs[k]>>
           ps == <<one>>
           m == <<e>>
<1>1. rs[k] \in Region
  OBVIOUS
<1>2. /\ rs[k].block \in Nat /\ rs[k].len \in Nat /\ rs[k].len >= 1 /\ rs[k].bg \in Nat
  BY <1>1 DEF Region
<1>3. /\ e.block = rs[k].block /\ e.len = 1 /\ e \in Extent
  BY <1>2 DEF Buffer, Extent
<1>4. /\ one \in Region /\ one.bg = rs[k].bg /\ one.block = rs[k].block /\ one.len = 1
  BY <1>2 DEF Region
<1> HIDE DEF one
<1>5. /\ rs0 \in Seq(Region) /\ Len(rs0) = 1 /\ rs0[1] = rs[k]
      /\ ps \in Seq(Region) /\ Len(ps) = 1 /\ ps[1] = one
      /\ m \in Seq(Extent) /\ Len(m) = 1 /\ m[1] = e
  BY <1>1, <1>3, <1>4
<1> HIDE DEF rs0, ps, m
<1>6. PartOf(ps, rs0) /\ Distinct(rs0) /\ Mirrors(m, ps)
  <2>1. one.block + one.len <= rs[k].block + rs[k].len
    BY <1>2, <1>4
  <2>2. \A i \in 1 .. 1 : i = 1
    OBVIOUS
  <2>3. PartOf(ps, rs0)
    BY <1>2, <1>4, <1>5, <2>1, <2>2 DEF PartOf
  <2>4. Distinct(rs0)
    BY <1>5, <2>2 DEF Distinct
  <2>5. QED
    BY <1>3, <1>4, <1>5, <2>2, <2>3, <2>4 DEF Mirrors
<1>7. Placed(s, rs0, gs) /\ RegionsClear(q, rs0)
  <2>1. \A i \in 1 .. Len(rs0) : rs0[i] = rs[k]
    BY <1>5
  <2>2. Placed(s, rs0, gs)
    BY <2>1 DEF Placed
  <2>3. RegionsClear(q, rs0)
    BY <2>1 DEF RegionsClear
  <2>4. QED
    BY <2>2, <2>3
<1>8. Within(s, ps, gs) /\ Inside(ps[1], s, rs[k].bg) /\ rs[k].bg \in Groups(s)
  <2>1. /\ Within(s, ps, gs)
        /\ \A i \in 1 .. Len(ps) : Inside(ps[i], s, rs0[i].bg) /\ rs0[i].bg \in Groups(s)
    BY <1>5, <1>6, <1>7, PartWithin
  <2>2. 1 \in 1 .. Len(ps) /\ rs0[1] = rs[k]
    BY <1>5
  <2>3. QED
    BY <2>1, <2>2
<1>9. Distinct(ps) /\ RegionsClear(q, ps)
  BY <1>5, <1>6, <1>7, PartFacts
<1>10. Append(q, e) = q \o m
  BY <1>3 DEF m
<1>11. /\ q \o m \in Seq(Extent) /\ QueueOK(s, q \o m, gs)
       /\ \A g \in Groups(s) : \A p : AtHead(p, s, g) /\ Clear(q, p) => Clear(q \o m, p)
  BY <1>5, <1>6, <1>8, <1>9, DataQueue
<1>12. ASSUME NEW p, Clear(q, p), Apart(e, p) PROVE Clear(q \o m, p)
  <2>1. Clear(m, p)
    BY <1>12, One DEF m
  <2>2. QED
    BY <1>5, <1>12, <2>1, ClearMore
<1>13. Inside(e, s, rs[k].bg)
  BY <1>3, <1>4, <1>5, <1>8 DEF Inside
<1>14. QED
  BY <1>3, <1>8, <1>10, <1>11, <1>12, <1>13

LEMMA AttachLinkInv == IInv /\ AttachLink => IInv'
<1> SUFFICES ASSUME IInv, AttachLink PROVE IInv'
  OBVIOUS
<1> DEFINE rs == job.regions
           e == Buffer(rs[1].block, 1)
<1>1. job.left = 0 /\ job.kind # "none" /\ Attach(0, rs, 0) /\ groups' = groups /\ shape' = shape
      /\ queue' = Append(queue, e)
  BY DEF AttachLink, Attach
<1>2. /\ rs \in Seq(Region) /\ rs # <<>> /\ Placed(shape, rs, groups) /\ RegionsClear(queue, rs)
      /\ shape \in Shapes /\ groups \in [G -> Group] /\ queue \in Seq(Extent)
      /\ G = Groups(shape)
  BY <1>1, JobReady DEF G
<1>3. Bump(shape, groups) /\ QueueOK(shape, queue, groups)
  BY DEF IInv
<1> HIDE DEF rs
<1>4. 1 \in 1 .. Len(rs)
  BY <1>2
<1> HIDE DEF e
<1>5. e = Buffer(rs[1].block, 1)
  BY DEF e
<1>6. /\ queue' \in Seq(Extent) /\ QueueOK(shape, queue', groups)
      /\ \A g \in G : \A p : AtHead(p, shape, g) /\ Clear(queue, p) => Clear(queue', p)
  BY <1>1, <1>2, <1>3, <1>4, <1>5, OneBlock
<1>7. /\ \A g \in G : AtHead(Table(shape, g), shape, g)
      /\ 0 \in G /\ AtHead(Reserved(shape), shape, 0)
  BY <1>2, HeadParts, ReservedPart, GroupsAre
<1>8. /\ \A g \in G : Clear(queue, Table(shape, g)) => Clear(queue', Table(shape, g))
      /\ Clear(queue, Reserved(shape)) => Clear(queue', Reserved(shape))
  BY <1>6, <1>7
<1>9. /\ groups' \in [G -> Group] /\ Bump(shape, groups') /\ QueueOK(shape, queue', groups')
      /\ \A h \in G : groups'[h].table = groups[h].table
      /\ 0 \in Nat
  BY <1>1, <1>2, <1>3, <1>6
<1>10. QED
  BY <1>1, <1>2, <1>6, <1>8, <1>9, Attached

LEMMA AttachResizeInv == IInv /\ AttachResize => IInv'
<1> SUFFICES ASSUME IInv, AttachResize PROVE IInv'
  OBVIOUS
<1> DEFINE rs == job.regions
           e == Buffer(rs[1].block, 1)
           d == Reserved(shape)
           q == Append(queue, e)
<1>1. /\ job.left = 0 /\ job.kind = "resize" /\ Attach(0, rs, 0) /\ groups' = groups
      /\ shape' = shape /\ queue' = Append(q, d)
  BY DEF AttachResize, Attach
<1>2. /\ rs \in Seq(Region) /\ rs # <<>> /\ Placed(shape, rs, groups) /\ RegionsClear(queue, rs)
      /\ shape \in Shapes /\ groups \in [G -> Group] /\ queue \in Seq(Extent)
      /\ G = Groups(shape) /\ phase = "resize"
  BY <1>1, JobReady DEF G
<1>3. Bump(shape, groups) /\ QueueOK(shape, queue, groups) /\ Clear(queue, d)
  BY <1>2 DEF IInv, Pending, ReservedClear
<1> HIDE DEF rs
<1>4. 1 \in 1 .. Len(rs)
  BY <1>2
<1> HIDE DEF e, d
<1>5. e = Buffer(rs[1].block, 1)
  BY DEF e
<1>6. /\ q \in Seq(Extent) /\ QueueOK(shape, q, groups)
      /\ \A g \in G : \A p : AtHead(p, shape, g) /\ Clear(queue, p) => Clear(q, p)
  BY <1>2, <1>3, <1>4, <1>5, OneBlock
<1> HIDE DEF q
<1>7. /\ \A g \in G : AtHead(Table(shape, g), shape, g)
      /\ 0 \in G /\ AtHead(d, shape, 0) /\ Apart(d, Table(shape, 0))
      /\ shape.first + 1 + shape.desc <= d.block
  BY <1>2, HeadParts, ReservedPart, GroupsAre DEF d
<1>8. Clear(q, d)
  BY <1>3, <1>6, <1>7
<1>9. /\ <<d>> \in Seq(Extent) /\ QueueOK(shape, <<d>>, groups) /\ Append(q, d) = q \o <<d>>
  <2>1. groups[0] \in Group
    BY <1>2, <1>7
  <2>2. groups[0].free \in Nat /\ groups[0].free <= Size(shape, 0) - Header(shape, 0)
    BY <1>2, <1>3, <1>7, <2>1 DEF Bump, Group
  <2>3. <<d>> \in Seq(Extent) /\ QueueOK(shape, <<d>>, groups)
    BY <1>2, <1>7, <2>2, HeadQueue
  <2>4. QED
    BY <1>6, <1>7, <2>3 DEF AtHead
<1>10. queue' \in Seq(Extent) /\ QueueOK(shape, queue', groups)
  <2>1. \A i \in 1 .. Len(<<d>>) : Clear(q, <<d>>[i])
    BY <1>8
  <2> DEFINE m == <<d>>
  <2>2. /\ m \in Seq(Extent) /\ QueueOK(shape, m, groups) /\ queue' = q \o m
        /\ \A i \in 1 .. Len(m) : Clear(q, m[i])
    BY <1>1, <1>9, <2>1
  <2> HIDE DEF m
  <2>3. QED
    BY <1>6, <2>2, More DEF QueueOK
<1>11. ASSUME NEW g \in G, Clear(queue, Table(shape, g)) PROVE Clear(queue', Table(shape, g))
  <2>1. Clear(q, Table(shape, g))
    BY <1>6, <1>7, <1>11
  <2>2. Apart(d, Table(shape, g))
    BY <1>2, <1>7, HeadsApart
  <2>3. Clear(<<d>>, Table(shape, g))
    BY <2>2, One
  <2>4. QED
    BY <1>1, <1>6, <1>9, <2>1, <2>3, ClearMore
<1>12. /\ groups' \in [G -> Group] /\ Bump(shape, groups') /\ QueueOK(shape, queue', groups')
       /\ \A h \in G : groups'[h].table = groups[h].table
       /\ 0 \in Nat /\ phase # "journal" /\ job.kind # "none"
  BY <1>1, <1>2, <1>3, <1>10
<1>13. QED
  BY <1>1, <1>2, <1>10, <1>11, <1>12, Attached

LEMMA RestFacts ==
  ASSUME NEW rs \in Seq(Region), Len(rs) > 3
  PROVE  /\ PartOf(Rest(rs), rs)
         /\ \E k \in 1 .. Len(rs) :
              /\ Leaf(rs) = rs[k].block
              /\ \A i \in 1 .. Len(Rest(rs)) : i # k \/ rs[k].block + 1 <= Rest(rs)[i].block
<1>1. 1 \in 1 .. Len(rs) /\ 2 \in 1 .. Len(rs) /\ rs[1] \in Region
  OBVIOUS
<1>2. CASE rs[1].len > 1
  <2> DEFINE r == [block |-> rs[1].block + 1, len |-> rs[1].len - 1, bg |-> rs[1].bg]
             ps == [rs EXCEPT ![1] = r]
  <2>1. Rest(rs) = ps
    <3>1. r = [rs[1] EXCEPT !.block = rs[1].block + 1, !.len = rs[1].len - 1]
      <4> DEFINE b == rs[1].block + 1
                 l == rs[1].len - 1
                 r1 == rs[1]
      <4> r1 \in Region
        BY <1>1
      <4> HIDE DEF b, l, r1
      <4> DEFINE r2 == [block |-> b, len |-> r1.len, bg |-> r1.bg]
      <4>1. [r1 EXCEPT !.block = b] = r2
        BY SMTT(30) DEF Region
      <4>2. [r2 EXCEPT !.len = l] = [block |-> b, len |-> l, bg |-> r1.bg]
        OBVIOUS
      <4>3. [r1 EXCEPT !.block = b, !.len = l] = [r2 EXCEPT !.len = l]
        BY <4>1
      <4>4. [r1 EXCEPT !.block = b, !.len = l] = [block |-> b, len |-> l, bg |-> r1.bg]
        BY <4>2, <4>3
      <4>5. QED
        BY <4>4 DEF b, l, r1
    <3>2. Rest(rs) = [rs EXCEPT ![1] = [rs[1] EXCEPT !.block = rs[1].block + 1,
                                                     !.len = rs[1].len - 1]]
      BY <1>1, <1>2 DEF Rest
    <3>3. QED
      BY <3>1, <3>2
  <2>2. /\ r \in Region /\ r.bg = rs[1].bg /\ r.block = rs[1].block + 1
        /\ rs[1].block <= r.block /\ r.block + r.len <= rs[1].block + rs[1].len
    <3>1. rs[1].block \in Nat /\ rs[1].len \in Nat /\ rs[1].bg \in Nat
      BY <1>1 DEF Region
    <3>2. r.block = rs[1].block + 1 /\ r.len = rs[1].len - 1 /\ r.bg = rs[1].bg
      OBVIOUS
    <3>3. rs[1].block + 1 \in Nat /\ rs[1].len - 1 \in Nat \ {0}
      BY <1>2, <3>1
    <3>4. r \in Region
      BY <3>1, <3>3 DEF Region
    <3>5. QED
      BY <3>1, <3>2, <3>4
  <2> HIDE DEF r
  <2>3. /\ ps \in Seq(Region) /\ Len(ps) = Len(rs) /\ ps[1] = r
        /\ \A i \in 1 .. Len(rs) : i # 1 => ps[i] = rs[i]
    BY <1>1, <2>2
  <2> HIDE DEF ps
  <2>4. ASSUME NEW i \in 1 .. Len(ps)
        PROVE  /\ ps[i].bg = rs[i].bg /\ rs[i].block <= ps[i].block
               /\ ps[i].block + ps[i].len <= rs[i].block + rs[i].len
    <3>1. i \in 1 .. Len(rs)
      BY <2>3
    <3>2. rs[i] \in Region
      BY <3>1
    <3>3. rs[i].block \in Nat /\ rs[i].len \in Nat
      BY <3>2 DEF Region
    <3>4. QED
      BY <2>2, <2>3, <3>3
  <2>5. PartOf(ps, rs)
    BY <2>3, <2>4 DEF PartOf
  <2>6. rs[1].block + 1 <= ps[1].block
    <3>1. rs[1].block \in Nat
      BY <1>1 DEF Region
    <3>2. QED
      BY <2>2, <2>3, <3>1
  <2>7. \A i \in 1 .. Len(ps) : i # 1 \/ rs[1].block + 1 <= ps[i].block
    BY <2>6
  <2>8. Leaf(rs) = rs[1].block
    BY <1>2 DEF Leaf
  <2>9. QED
    BY <1>1, <2>1, <2>5, <2>7, <2>8
<1>3. CASE ~(rs[1].len > 1)
  <2>1. Rest(rs) = <<rs[1]>> /\ Leaf(rs) = rs[2].block
    BY <1>3 DEF Rest, Leaf
  <2>2. rs[1].block \in Nat /\ rs[1].len \in Nat
    BY <1>1 DEF Region
  <2>3. /\ Rest(rs) \in Seq(Region) /\ Len(Rest(rs)) = 1 /\ Rest(rs)[1] = rs[1]
        /\ \A i \in 1 .. 1 : i = 1
    BY <1>1, <2>1
  <2>4. PartOf(Rest(rs), rs)
    BY <2>2, <2>3 DEF PartOf
  <2>5. \A i \in 1 .. Len(Rest(rs)) : i # 2
    BY <2>3
  <2>6. QED
    BY <1>1, <2>1, <2>4, <2>5
<1>4. QED
  BY <1>2, <1>3

LEMMA AttachLeafInv == IInv /\ AttachLeaf => IInv'
<1> SUFFICES ASSUME IInv, AttachLeaf PROVE IInv'
  OBVIOUS
<1> DEFINE rs == job.regions
           ps == Rest(rs)
           e == Buffer(Leaf(rs), 1)
           q == Append(queue, e)
<1>1. /\ job.left = 0 /\ job.kind # "none" /\ Len(rs) > 3
      /\ Attach(Len(rs), ps, Leaf(rs)) /\ groups' = groups
      /\ shape' = shape /\ queue' = q \o Data(ps)
  BY DEF AttachLeaf, Attach
<1>2. /\ job \in Job /\ rs \in Seq(Region) /\ Placed(shape, rs, groups)
      /\ Distinct(rs) /\ RegionsClear(queue, rs)
      /\ shape \in Shapes /\ groups \in [G -> Group] /\ queue \in Seq(Extent)
      /\ G = Groups(shape)
  BY <1>1, JobReady DEF G
<1>3. Bump(shape, groups) /\ QueueOK(shape, queue, groups)
  BY DEF IInv
<1> HIDE DEF rs
<1>4. PartOf(ps, rs) /\ ps \in Seq(Region)
  BY <1>1, <1>2, RestFacts DEF PartOf
<1>5. PICK k \in 1 .. Len(rs) :
        /\ Leaf(rs) = rs[k].block
        /\ \A i \in 1 .. Len(ps) : i # k \/ rs[k].block + 1 <= ps[i].block
  BY <1>1, <1>2, RestFacts
<1> HIDE DEF ps
<1>6. Leaf(rs) \in Nat
  <2>1. rs[k] \in Region
    BY <1>2
  <2>2. QED
    BY <1>5, <2>1 DEF Region
<1>7. e = Buffer(rs[k].block, 1)
  BY <1>5
<1> HIDE DEF e
<1>8. /\ q \in Seq(Extent) /\ QueueOK(shape, q, groups)
      /\ \A g \in G : \A p : AtHead(p, shape, g) /\ Clear(queue, p) => Clear(q, p)
      /\ \A p : Clear(queue, p) /\ Apart(e, p) => Clear(q, p)
      /\ Inside(e, shape, rs[k].bg) /\ rs[k].bg \in Groups(shape)
      /\ e.block = rs[k].block /\ e.len = 1
  BY <1>2, <1>3, <1>7, OneBlock
<1> HIDE DEF q
<1>9. Distinct(ps) /\ RegionsClear(queue, ps)
  BY <1>2, <1>4, PartFacts
<1>10. /\ Within(shape, ps, groups)
       /\ \A i \in 1 .. Len(ps) : Inside(ps[i], shape, rs[i].bg) /\ rs[i].bg \in Groups(shape)
  BY <1>2, <1>4, PartWithin
<1>11. RegionsClear(q, ps)
  <2>1. ASSUME NEW i \in 1 .. Len(ps) PROVE Apart(e, ps[i])
    <3>1. ps[i] \in Region /\ i \in 1 .. Len(rs)
      BY <1>4 DEF PartOf
    <3>2. ps[i].block \in Nat /\ ps[i].len \in Nat /\ e.block \in Nat /\ e.len \in Nat
      BY <1>5, <1>6, <1>8, <3>1 DEF Region
    <3>3. CASE i # k
      <4>1. rs[i].bg # rs[k].bg
        BY <1>2, <3>1, <3>3 DEF Distinct
      <4>2. QED
        BY <1>2, <1>8, <1>10, <3>2, <4>1, Elsewhere
    <3>4. CASE i = k
      <4>1. e.block + 1 <= ps[i].block
        BY <1>5, <1>8, <3>4
      <4>2. QED
        BY <1>8, <4>1 DEF Apart, End
    <3>5. QED
      BY <3>3, <3>4
  <2>2. ASSUME NEW i \in 1 .. Len(ps) PROVE Clear(q, ps[i])
    BY <1>8, <1>9, <2>1 DEF RegionsClear
  <2>3. QED
    BY <2>2 DEF RegionsClear
<1>12. Mirrors(Data(ps), ps)
  BY <1>2, <1>4, Mirrored
<1>13. /\ queue' \in Seq(Extent) /\ QueueOK(shape, queue', groups)
       /\ \A g \in G : \A p : AtHead(p, shape, g) /\ Clear(q, p) => Clear(queue', p)
  BY <1>1, <1>2, <1>3, <1>4, <1>8, <1>9, <1>10, <1>11, <1>12, DataQueue
<1>14. /\ \A g \in G : AtHead(Table(shape, g), shape, g)
       /\ 0 \in G /\ AtHead(Reserved(shape), shape, 0)
  BY <1>2, HeadParts, ReservedPart, GroupsAre
<1>15. /\ \A g \in G : Clear(queue, Table(shape, g)) => Clear(queue', Table(shape, g))
       /\ Clear(queue, Reserved(shape)) => Clear(queue', Reserved(shape))
  BY <1>8, <1>13, <1>14
<1>16. /\ groups' \in [G -> Group] /\ Bump(shape, groups') /\ QueueOK(shape, queue', groups')
       /\ \A h \in G : groups'[h].table = groups[h].table
       /\ Len(rs) \in Nat
  BY <1>1, <1>2, <1>3, <1>13
<1>17. QED
  BY <1>1, <1>4, <1>6, <1>13, <1>15, <1>16, Attached

-----------------------------------------------------------------------------
(* Theorems *)

LEMMA NextInv == IInv /\ [Next]_vars => IInv'
<1> SUFFICES ASSUME IInv, [Next]_vars PROVE IInv'
  OBVIOUS
<1>1. CASE UNCHANGED vars
  BY <1>1 DEF vars, IInv, TypeOK, G
<1>2. CASE Next
  BY <1>2, BackupsInv, ReserveInodesInv, OpenSpecialInv, OpenNewInv, StopInv, AllocateInv,
     AttachInlineInv, AttachLeafInv, AttachResizeInv, AttachLinkInv DEF Next
<1>3. QED
  BY <1>1, <1>2

(* The variables keep their types: no count of free blocks goes below zero, and *)
(* every extent that is queued has blocks (allocate.c, extent.c).               *)
THEOREM TypesHold == Spec => []TypeOK
<1>1. IInv => TypeOK
  BY DEF IInv
<1>2. QED
  BY InitInv, NextInv, <1>1, PTL DEF Spec

(* Whatever the tree and however full the image, the parts that write_ext4_image *)
(* is given lie inside the image, behind the group descriptors, and apart from   *)
(* each other (allocate.c, extent.c, indirect.c, ext4_utils.c).                  *)
THEOREM HandsOverHolds == Spec => []HandsOver
<1>1. IInv => HandsOver
  <2> SUFFICES ASSUME IInv PROVE Fits(Handed, shape.blocks)
    BY DEF HandsOver
  <2>1. /\ shape \in Shapes /\ shape \in Shape /\ queue \in Seq(Extent) /\ 0 \in Groups(shape)
        /\ groups \in [Groups(shape) -> Group] /\ HasSuper(0)
    BY ShapesOK, GroupsAre DEF IInv, TypeOK, G, HasSuper
  <2>2. /\ shape.first \in {0, 1} /\ shape.desc \in Nat \ {0} /\ shape.ragged \in BOOLEAN
        /\ shape.reserve \in Nat /\ shape.table \in Nat /\ shape.blocks \in Nat
    BY <2>1 DEF Shape
  <2>3. /\ Handed \in Layout /\ Handed.parts = queue
        /\ End(Desc(Handed)) = shape.first + 1 + shape.desc
    BY <2>1, <2>2 DEF Handed, Layout, Desc, End
  <2>4. shape.first + 1 + shape.desc <= shape.blocks
    <3>1. /\ Start(shape, 0) = shape.first /\ Header(shape, 0) <= Size(shape, 0)
          /\ Start(shape, 0) + Size(shape, 0) <= shape.blocks /\ Size(shape, 0) \in Nat
      BY <2>1, ReservedPart, SizeFacts
    <3>2. /\ Header(shape, 0) = Ahead(shape, 0) + 2 + shape.table
          /\ Ahead(shape, 0) = 1 + shape.desc + shape.reserve
      BY <2>1, AheadFacts
    <3>3. QED
      BY <2>2, <3>1, <3>2
  <2>5. ASSUME NEW i \in 1 .. Len(queue)
        PROVE  shape.first + 1 + shape.desc <= queue[i].block /\ End(queue[i]) <= shape.blocks
    <3>1. PICK g \in Groups(shape) :
            End(queue[i]) <= Start(shape, g) + Size(shape, g) - groups[g].free
      BY DEF IInv, QueueOK, Located
    <3>2. queue[i] \in Extent /\ groups[g] \in Group
      BY <2>1
    <3>3. queue[i].block \in Nat /\ queue[i].len \in Nat /\ groups[g].free \in Nat
      BY <3>2 DEF Extent, Group
    <3>4. /\ Start(shape, g) \in Nat /\ Size(shape, g) \in Nat
          /\ Start(shape, g) + Size(shape, g) <= shape.blocks
      BY <2>1, GroupsAre, AheadFacts, SizeFacts
    <3> DEFINE x == End(queue[i])
    <3>5. x \in Nat
      BY <3>3 DEF End
    <3> DEFINE y == Start(shape, g) + Size(shape, g)
               f == groups[g].free
               n == shape.blocks
    <3>6. y \in Nat /\ f \in Nat /\ n \in Nat /\ x <= y - f /\ y <= n
      BY <2>2, <3>1, <3>3, <3>4, SMTT(30)
    <3> HIDE DEF x, y, f, n
    <3>7. x <= n
      BY <3>5, <3>6
    <3>8. shape.first + 1 + shape.desc <= queue[i].block
      BY DEF IInv, QueueOK, PastDesc
    <3>9. QED
      BY <3>7, <3>8 DEF x, n
  <2>6. \A i, j \in 1 .. Len(queue) : i # j => Apart(queue[i], queue[j])
    BY DEF IInv, QueueOK, Spread
  <2>7. QED
    BY <2>3, <2>4, <2>5, <2>6 DEF Fits
<1>2. QED
  BY InitInv, NextInv, <1>1, PTL DEF Spec
=============================================================================
