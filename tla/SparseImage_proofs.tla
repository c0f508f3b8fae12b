------------------------- MODULE SparseImage_proofs -------------------------
(***************************************************************************)
(* Theorems of SparseImage, for file systems of any size, queued in any     *)
(* order, and any number of deaths and damages.                             *)
(***************************************************************************)
EXTENDS SparseImage, TLAPS, WellFoundedInduction

-----------------------------------------------------------------------------
(* The inductive invariant. *)

Laid == layout \in Layouts

Busy == {"queue", "super", "desc", "data"}

\* Parts queued so far.
Given == IF phase = "queue" THEN at - 1 ELSE Len(layout.parts)

\* The queue holds just these, in block order.
Holds(q, n) ==
    /\ \A i \in 1 .. Len(q) : \E k \in 1 .. n : q[i] = layout.parts[k]
    /\ \A k \in 1 .. n : \E i \in 1 .. Len(q) : q[i] = layout.parts[k]

Sorted(q) == \A i, j \in 1 .. Len(q) : i < j => End(q[i]) <= q[j].block

Queued == phase \in Busy => Given <= Len(layout.parts) /\ Holds(queue, Given) /\ Sorted(queue)

\* How far the file is written.
Frontier == CASE phase = "desc" -> End(Super(layout))
              [] phase = "data" /\ at = 1 -> End(Desc(layout))
              [] phase = "data" /\ at > 1 -> End(queue[at - 1])
              [] OTHER -> 0

Reached ==
    /\ phase \in Busy => ptr = Frontier
    /\ phase \in {"super", "desc"} => at = 1
    /\ phase = "data" => at <= Len(queue) + 1
    /\ phase = "data" => \A i \in 1 .. at - 1 : Writable(queue[i])

\* What is written are the contents up to there.
Upto(n) == [b \in 0 .. n - 1 |-> Want[b]]

Streamed ==
    /\ format = "sparse" /\ phase \in Busy => sum = Upto(ptr)
    /\ format # "sparse" /\ phase \in {"super", "desc", "data"} =>
           flat = [b \in Places |-> IF b < ptr THEN Want[b] ELSE Zero]
    /\ format = "sparse" /\ phase = "close" => ptr = NumBlocks /\ sum = Want
    /\ phase = "close" => Possible
    /\ format # "sparse" /\ phase = "close" => flat = Wanted

\* A header with a checksum vouches for the whole image, and so does the end of
\* make_ext4fs unless a write was lost.
Vouched ==
    /\ head = NoHead \/ head.blks = NumBlocks
    /\ format = "sparse" /\ phase \in {"super", "desc", "data", "close"} => head.blks = NumBlocks
    /\ head.sum # None => head.sum = Want /\ Possible
    /\ reader \in {"idle", "chunks"} /\ phase # "done" => head.sum = None
    /\ reader = "chunks" => phase \in {"failed", "done"} /\ head.blks = NumBlocks
    /\ format # "sparse" => reader = "idle"
    /\ format # "sparse" /\ phase = "done" => Possible /\ (lost \/ flat = Wanted)

\* The output is what checksum s covers, but for gaps of zeros that were taken
\* for something else.
Covers(s, n) ==
    \A b \in Places : IF b < n THEN out[b] = s[b] \/ (out[b] = Zero /\ s[b] = Dirt)
                      ELSE out[b] = Zero

\* simg2img has written what its checksum covers, unless a write was lost.
Reread ==
    /\ reader = "chunks" => lost \/ (pos = total /\ Covers(rsum, total))
    /\ reader = "accepted" => phase = "done" /\ Possible /\ (lost \/ out = Want)

Making == TypeOK /\ Laid /\ Queued /\ Reached /\ Streamed /\ InOrder
-----------------------------------------------------------------------------
(* Types. *)

LEMMA SuperType ==
    ASSUME NEW l \in Layout
    PROVE  Super(l) \in Extent
BY DEF Layout, Super, Extent

LEMMA DescType ==
    ASSUME NEW l \in Layout
    PROVE  Desc(l) \in Extent
BY DEF Layout, Desc, Extent

LEMMA EndType ==
    ASSUME NEW e \in Extent
    PROVE  End(e) \in Nat /\ End(e) > e.block
BY DEF Extent, End

\* The contents of a block are contents.
LEMMA CellType ==
    ASSUME NEW e \in Extent, NEW b \in Places
    PROVE  Cell(e, b) \in Content
BY BlocksOK DEF Cell, Content, Extent, Places

LEMMA ZeroType == Zero \in Content
BY BlocksOK DEF Content, Zero

LEMMA DirtType == Dirt \in Content
BY BlocksOK DEF Content, Dirt

LEMMA EmptyType == Empty \in [Places -> Content]
BY ZeroType DEF Empty

LEMMA NoneType == None \in [0 .. 0 - 1 -> Content]
BY DEF None

\* The checksum of the first k blocks.
LEMMA FedType ==
    ASSUME NEW n \in Nat, NEW k \in Nat, NEW s \in [0 .. n - 1 -> Content],
           NEW c, \A b \in 0 .. k - 1 : b >= n => c[b] \in Content
    PROVE  Fed(s, n, c, k) \in [0 .. k - 1 -> Content]
BY DEF Fed

\* What queue_db works on.
LEMMA QueueNow ==
    ASSUME TypeOK
    PROVE  /\ layout.parts \in Seq(Extent) /\ Len(layout.parts) \in Nat
           /\ \A i \in 1 .. Len(layout.parts) : layout.parts[i] \in Extent
           /\ at \in Nat \ {0} /\ Len(queue) \in Nat /\ last \in 0 .. Len(queue)
           /\ queue \in Seq(Extent) /\ \A i \in 1 .. Len(queue) : queue[i] \in Extent
<1>1. layout.parts \in Seq(Extent) /\ queue \in Seq(Extent)
  BY DEF TypeOK, Layout
<1>2. at \in Nat \ {0} /\ last \in 0 .. Len(queue)
  BY DEF TypeOK
<1>3. QED
  BY <1>1, <1>2

\* queue_db finds a place for every extent.
LEMMA PlaceFound ==
    ASSUME TypeOK, queue # <<>>, NEW e \in Extent
    PROVE  /\ StartAt(e) \in 1 .. Len(queue)
           /\ Behind(e) \in StartAt(e) .. Len(queue)
           /\ Behind(e) < Len(queue) => queue[Behind(e) + 1].block >= e.block
           /\ \A j \in StartAt(e) .. Behind(e) - 1 : queue[j + 1].block < e.block
<1> DEFINE n == Len(queue)
<1> DEFINE S == {i \in StartAt(e) .. n : i < n => queue[i + 1].block >= e.block}
<1>1. n \in Nat /\ n > 0 /\ \A i \in 1 .. n : queue[i] \in Extent
  BY DEF TypeOK
<1>2. StartAt(e) \in 1 .. n
  BY <1>1 DEF TypeOK, StartAt
<1>3. S \subseteq Nat /\ n \in S
  BY <1>1, <1>2
<1>4. PICK i \in S : \A m \in S : <<m, i>> \notin OpToRel(<, Nat)
  BY <1>3, NatLessThanWellFounded, WFMin
<1>5. \A j \in StartAt(e) .. i - 1 : queue[j + 1].block < e.block
  <2> SUFFICES ASSUME NEW j \in StartAt(e) .. i - 1
               PROVE  queue[j + 1].block < e.block
    OBVIOUS
  <2>1. j \in StartAt(e) .. n /\ j < n /\ j < i /\ j \in Nat /\ i \in Nat
    BY <1>2, <1>1, <1>3
  <2>2. j \notin S
    BY <2>1, <1>4 DEF OpToRel
  <2>3. ~(queue[j + 1].block >= e.block)
    BY <2>1, <2>2
  <2>4. queue[j + 1].block \in Nat /\ e.block \in Nat
    BY <2>1, <1>1, <1>2 DEF Extent
  <2>5. QED
    BY <2>3, <2>4
<1>6. Behind(e) \in StartAt(e) .. Len(queue)
      /\ (Behind(e) < Len(queue) => queue[Behind(e) + 1].block >= e.block)
      /\ \A j \in StartAt(e) .. Behind(e) - 1 : queue[j + 1].block < e.block
  BY <1>4, <1>5 DEF Behind
<1>7. QED
  BY <1>2, <1>6

\* The queue with one more extent is a queue.
LEMMA InsertedType ==
    ASSUME TypeOK, NEW e \in Extent, NEW i \in 0 .. Len(queue)
    PROVE  /\ Inserted(e, i) \in Seq(Extent)
           /\ Len(Inserted(e, i)) = Len(queue) + 1
           /\ \A j \in 1 .. Len(queue) + 1 :
                Inserted(e, i)[j] = IF j <= i THEN queue[j] ELSE IF j = i + 1 THEN e ELSE queue[j - 1]
<1> DEFINE n == Len(queue)
<1>1. n \in Nat /\ \A j \in 1 .. n : queue[j] \in Extent
  BY DEF TypeOK
<1>2. \A j \in 1 .. n + 1 :
         (IF j <= i THEN queue[j] ELSE IF j = i + 1 THEN e ELSE queue[j - 1]) \in Extent
  BY <1>1
<1>3. Inserted(e, i) \in [1 .. n + 1 -> Extent]
  BY <1>2 DEF Inserted
<1>4. Inserted(e, i) \in Seq(Extent)
  BY <1>1, <1>3
<1>5. Len(Inserted(e, i)) = n + 1
  BY <1>1, <1>3, <1>4
<1>6. QED
  BY <1>4, <1>5 DEF Inserted

LEMMA FunctionSeq ==
    ASSUME NEW S, NEW n \in Nat, NEW f \in [1 .. n -> S]
    PROVE  f \in Seq(S) /\ Len(f) = n
OBVIOUS

LEMMA RawType ==
    ASSUME NEW e \in Extent, End(e) <= NumBlocks
    PROVE  Raw(e) \in Chunk /\ Whole(Raw(e))
<1>1. e.block \in Nat /\ e.len \in Nat /\ e.block + e.len <= NumBlocks
  BY DEF Extent, End
<1> DEFINE d == [k \in 1 .. e.len |-> Cell(e, e.block + k - 1)]
<1>2. \A k \in 1 .. e.len : Cell(e, e.block + k - 1) \in Content
  <2> SUFFICES ASSUME NEW k \in 1 .. e.len
               PROVE  Cell(e, e.block + k - 1) \in Content
    OBVIOUS
  <2>1. e.block + k - 1 \in Places
    BY <1>1, BlocksOK DEF Places
  <2>2. QED
    BY <2>1, CellType
<1>3. d \in [1 .. e.len -> Content]
  BY <1>2
<1>4. d \in Seq(Content) /\ Len(d) = e.len
  BY <1>1, <1>3, FunctionSeq
<1>5. e.len \in 0 .. NumBlocks
  BY <1>1, BlocksOK
<1>6. Raw(e) = [kind |-> "raw", len |-> e.len, data |-> d]
  BY DEF Raw
<1>7. QED
  BY <1>4, <1>5, <1>6 DEF Chunk, Whole

LEMMA GapType ==
    ASSUME TypeOK, NEW to \in 0 .. NumBlocks
    PROVE  Chunks(Gap(to))
<1>1. ptr \in 0 .. NumBlocks
  BY DEF TypeOK
<1>2. CASE to > ptr
  <2>1. to - ptr \in 0 .. NumBlocks
    BY <1>1, <1>2, BlocksOK
  <2>2. Skip(to - ptr) \in Chunk /\ Whole(Skip(to - ptr))
    BY <2>1 DEF Skip, Chunk, Whole
  <2>3. QED
    BY <1>2, <2>2 DEF Gap, Chunks
<1>3. CASE ~(to > ptr)
  BY <1>3 DEF Gap, Chunks
<1>4. QED
  BY <1>2, <1>3

LEMMA ChunksJoin ==
    ASSUME NEW s, NEW t, Chunks(s), Chunks(t)
    PROVE  Chunks(s \o t)
<1>1. s \o t \in Seq(Chunk) /\ Len(s \o t) = Len(s) + Len(t)
  BY DEF Chunks
<1>2. \A i \in 1 .. Len(s \o t) : Whole((s \o t)[i])
  <2> SUFFICES ASSUME NEW i \in 1 .. Len(s) + Len(t)
               PROVE  Whole((s \o t)[i])
    BY <1>1
  <2>1. CASE i <= Len(s)
    BY <2>1 DEF Chunks
  <2>2. CASE i > Len(s)
    <3>1. (s \o t)[i] = t[i - Len(s)] /\ i - Len(s) \in 1 .. Len(t)
      BY <2>2 DEF Chunks
    <3>2. QED
      BY <3>1 DEF Chunks
  <2>3. QED
    BY <2>1, <2>2 DEF Chunks
<1>3. QED
  BY <1>1, <1>2 DEF Chunks

LEMMA OneChunk ==
    ASSUME NEW c \in Chunk, Whole(c)
    PROVE  Chunks(<<c>>)
BY DEF Chunks

\* Writing an extent keeps the types.
LEMMA WrittenType ==
    ASSUME TypeOK, NEW e \in Extent, ~PastEnd(e), Written(e)
    PROVE  /\ ptr' \in 0 .. NumBlocks
           /\ format = "sparse" => sum' \in [0 .. ptr' - 1 -> Content]
           /\ flat' \in [Places -> Content]
           /\ Chunks(chunks')
           /\ UNCHANGED <<head, why>>
<1> DEFINE in == [b \in Places |-> IF b \in Blocks(e) THEN Cell(e, b) ELSE Zero]
<1>1. End(e) \in 0 .. NumBlocks /\ e.block \in 0 .. NumBlocks /\ End(e) \in Nat
  <2>1. e.block \in Nat /\ e.len \in Nat
    BY DEF Extent
  <2>2. ~(End(e) > NumBlocks)
    BY DEF PastEnd
  <2>3. QED
    BY <2>1, <2>2, BlocksOK DEF End
<1>2. \A b \in Places : in[b] \in Content
  BY CellType, ZeroType
<1>3. ptr' = End(e) /\ UNCHANGED <<head, why>>
  BY DEF Written
<1>4. ptr \in Nat /\ (format = "sparse" => sum \in [0 .. ptr - 1 -> Content])
      /\ flat \in [Places -> Content]
  BY BlocksOK DEF TypeOK
<1>5. \A b \in 0 .. End(e) - 1 : in[b] \in Content
  BY <1>1, <1>2, BlocksOK DEF Places
<1>6. CASE format = "sparse"
  <2>1. /\ chunks' = chunks \o Gap(e.block) \o <<Raw(e)>>
        /\ sum' = Fed(sum, ptr, in, End(e))
        /\ UNCHANGED flat
    BY <1>6 DEF Written
  <2>2. sum' \in [0 .. End(e) - 1 -> Content]
    BY <2>1, <1>1, <1>4, <1>5, <1>6, FedType
  <2>3. Chunks(Gap(e.block)) /\ Chunks(<<Raw(e)>>)
    <3>1. End(e) <= NumBlocks
      BY <1>1
    <3>2. QED
      BY <1>1, <3>1, GapType, RawType, OneChunk
  <2>4. Chunks(chunks')
    BY <2>1, <2>3, ChunksJoin DEF TypeOK
  <2>5. QED
    BY <2>1, <2>2, <2>4, <1>1, <1>3, <1>4
<1>7. CASE format # "sparse"
  <2>1. /\ flat' = [b \in Places |-> IF b \in Blocks(e) THEN in[b] ELSE flat[b]]
        /\ UNCHANGED <<chunks, sum>>
    BY <1>7 DEF Written
  <2>2. flat' \in [Places -> Content]
    BY <2>1, <1>2, <1>4
  <2>3. QED
    BY <2>1, <2>2, <1>1, <1>3, <1>7 DEF TypeOK
<1>8. QED
  BY <1>6, <1>7

-----------------------------------------------------------------------------
(* Type correctness. *)

LEMMA NoHeadType == Header(NoHead) /\ Header([blks |-> NumBlocks, chunks |-> 0, sum |-> None])
<1>1. 0 \in 0 .. NumBlocks
  BY BlocksOK
<1>2. QED
  BY <1>1, NoneType DEF Header, NoHead

LEMMA TypeInit == Init => TypeOK
<1> SUFFICES ASSUME Init PROVE TypeOK
  OBVIOUS
<1>1. layout \in Layout /\ format \in Formats
  BY LayoutsOK DEF Init, Fits
<1>2. Chunks(chunks) /\ queue \in Seq(Extent) /\ last \in 0 .. Len(queue)
  BY DEF Init, Chunks
<1>3. sum \in [0 .. ptr - 1 -> Content] /\ rsum \in [0 .. total - 1 -> Content]
  BY NoneType DEF Init
<1>4. Header(head)
  BY NoHeadType DEF Init
<1>5. 0 \in 0 .. NumBlocks /\ mishaps \in 0 .. MaxMishaps /\ ptr \in 0 .. NumBlocks
  BY BlocksOK, BoundOK DEF Init
<1>6. unmapped \subseteq Parts(layout)
  BY DEF Init, Inner, Parts
<1>7. flat \in [Places -> Content] /\ out \in [Places -> Content]
  BY EmptyType DEF Init
<1>8. zerobuf \in {Zero, Dirt} /\ lost \in BOOLEAN /\ heap \in {"zeros", "any"}
  BY DEF Init
<1>9. QED
  BY <1>1, <1>2, <1>3, <1>4, <1>5, <1>6, <1>7, <1>8 DEF Init, TypeOK

LEMMA TypeBegin == TypeOK /\ Begin => TypeOK'
<1> SUFFICES ASSUME TypeOK, Begin PROVE TypeOK'
  OBVIOUS
<1>1. queue' \in Seq(Extent) /\ last' \in 0 .. Len(queue') /\ ptr' \in 0 .. NumBlocks
  BY BlocksOK DEF Begin
<1>2. sum' \in [0 .. ptr' - 1 -> Content]
  BY NoneType DEF Begin
<1>3. QED
  BY <1>1, <1>2 DEF Begin, TypeOK, file, simg2img, given

LEMMA TypeQueue == TypeOK /\ queue_db => TypeOK'
<1> SUFFICES ASSUME TypeOK, queue_db PROVE TypeOK'
  OBVIOUS
<1> DEFINE e == layout.parts[at]
<1>1. e \in Extent /\ e.block \in Nat /\ at' \in Nat \ {0}
  <2>1. e \in Extent /\ at' \in Nat \ {0}
    BY QueueNow DEF queue_db
  <2>2. QED
    BY <2>1 DEF Extent
<1>0. queue # <<>> => queue[1].block \in Nat
  <2>1. queue # <<>> => queue[1] \in Extent
    BY QueueNow
  <2>2. QED
    BY <2>1 DEF Extent
<1>2. queue' \in Seq(Extent) /\ last' \in 0 .. Len(queue')
  <2>1. CASE queue = <<>>
    <3>1. queue' = <<e>> /\ UNCHANGED last
      BY <2>1 DEF queue_db
    <3> HIDE DEF e
    <3>2. last = 0
      BY <2>1, QueueNow
    <3>3. QED
      BY <3>1, <3>2, <1>1
  <2>2. CASE queue # <<>> /\ queue[1].block > e.block
    <3>1. queue' = Inserted(e, 0) /\ last' = IF last = 0 THEN 0 ELSE last + 1
      BY <2>2, <1>1, <1>0 DEF queue_db
    <3> HIDE DEF e
    <3>2. 0 \in 0 .. Len(queue) /\ Len(queue) \in Nat /\ last \in 0 .. Len(queue)
      BY QueueNow
    <3>3. queue' \in Seq(Extent) /\ Len(queue') = Len(queue) + 1
      BY <3>1, <3>2, <1>1, InsertedType
    <3>4. QED
      BY <3>1, <3>2, <3>3
  <2>3. CASE queue # <<>> /\ ~(queue[1].block > e.block)
    <3>1. queue' = Inserted(e, Behind(e)) /\ last' = Behind(e) + 1
      BY <2>3, <1>1, <1>0 DEF queue_db
    <3> HIDE DEF e
    <3>2. Behind(e) \in 0 .. Len(queue)
      BY <2>3, <1>1, PlaceFound, QueueNow
    <3>3. queue' \in Seq(Extent) /\ Len(queue') = Len(queue) + 1
      BY <3>1, <3>2, <1>1, InsertedType
    <3>4. Len(queue) \in Nat
      BY QueueNow
    <3>5. QED
      BY <3>1, <3>2, <3>3, <3>4
  <2>4. QED
    BY <2>1, <2>2, <2>3
<1>3. QED
  BY <1>1, <1>2 DEF queue_db, TypeOK, file, simg2img, given

LEMMA TypeOpen == TypeOK /\ open_output_file => TypeOK'
<1> SUFFICES ASSUME TypeOK, open_output_file PROVE TypeOK'
  OBVIOUS
<1>1. Header(head')
  BY NoHeadType DEF open_output_file
<1>3. Chunks(chunks')
  BY DEF open_output_file, Chunks
<1>4. flat' \in [Places -> Content]
  BY EmptyType DEF open_output_file
<1>5. QED
  BY <1>1, <1>3, <1>4 DEF open_output_file, TypeOK, given

LEMMA TypeFails ==
    ASSUME TypeOK, NEW r \in {"none", "end", "map", "order", "pad", "died"}, Fails(r)
    PROVE  /\ why' = r /\ UNCHANGED <<ptr, sum, head, chunks, flat>>
BY DEF Fails, file

LEMMA TypeWrite ==
    ASSUME TypeOK, NEW e \in Extent, NEW n \in {"desc", "data"}, Write(e, n), at' \in Nat \ {0}
    PROVE  TypeOK'
<1>1. /\ phase' \in {n, "failed"}
      /\ UNCHANGED <<given, queue, last, simg2img, lost, mishaps>>
  BY DEF Write
<1>2. CASE \E r \in {"end", "map", "order"} : Fails(r)
  BY <1>1, <1>2 DEF TypeOK, Fails, file, simg2img, given
<1>3. CASE Writable(e) /\ Written(e)
  BY <1>1, <1>3, WrittenType DEF TypeOK, simg2img, given, Writable
<1>4. QED
  BY <1>2, <1>3 DEF Write

LEMMA TypeWriteData == TypeOK /\ WriteData => TypeOK'
<1> SUFFICES ASSUME TypeOK, WriteData PROVE TypeOK'
  OBVIOUS
<1>1. queue[at] \in Extent /\ at' \in Nat \ {0}
  BY QueueNow DEF WriteData
<1>2. CASE OutOfOrder
  BY <1>1, <1>2 DEF WriteData, TypeOK, Fails, file, simg2img, given
<1>3. CASE ~OutOfOrder
  <2>1. Write(queue[at], "data")
    BY <1>3 DEF WriteData
  <2>2. QED
    BY <1>1, <2>1, TypeWrite
<1>4. QED
  BY <1>2, <1>3

LEMMA TypePad == TypeOK /\ pad_output_file => TypeOK'
<1> SUFFICES ASSUME TypeOK, pad_output_file PROVE TypeOK'
  OBVIOUS
<1>1. /\ phase' \in {"close", "failed"}
      /\ UNCHANGED <<given, queue, last, at, simg2img, lost, mishaps>>
  BY DEF pad_output_file
<1>2. CASE Fails("pad")
  BY <1>1, <1>2 DEF TypeOK, Fails, file, simg2img, given
<1>3. CASE /\ format = "sparse"
           /\ chunks' = chunks \o Gap(NumBlocks)
           /\ sum' = Fed(sum, ptr, Empty, NumBlocks)
           /\ ptr' = NumBlocks
           /\ UNCHANGED <<head, flat, why>>
  <2>1. NumBlocks \in 0 .. NumBlocks /\ NumBlocks \in Nat /\ ptr \in Nat
    BY BlocksOK DEF TypeOK
  <2>2. \A b \in 0 .. NumBlocks - 1 : Empty[b] \in Content
    BY EmptyType DEF Places
  <2>3. sum \in [0 .. ptr - 1 -> Content]
    BY <1>3 DEF TypeOK
  <2>4. sum' \in [0 .. ptr' - 1 -> Content]
    BY <1>3, <2>1, <2>2, <2>3, FedType
  <2>5. Chunks(chunks')
    BY <1>3, <2>1, GapType, ChunksJoin DEF TypeOK
  <2>6. QED
    BY <1>1, <1>3, <2>1, <2>4, <2>5 DEF TypeOK, simg2img, given
<1>4. CASE /\ format # "sparse"
           /\ flat' = IF layout.ragged THEN flat ELSE Dented(flat)
           /\ UNCHANGED <<ptr, sum, head, chunks, why>>
  <2>1. flat' \in [Places -> Content]
    <3>1. \A c \in Content : [c EXCEPT !.full = FALSE] \in Content
      BY DEF Content
    <3>2. flat \in [Places -> Content]
      BY DEF TypeOK
    <3>3. Dented(flat) \in [Places -> Content]
      BY <3>1, <3>2 DEF Dented
    <3>4. QED
      BY <1>4, <3>2, <3>3
  <2>2. QED
    BY <1>1, <1>4, <2>1 DEF TypeOK, simg2img, given
<1>5. QED
  BY <1>2, <1>3, <1>4 DEF pad_output_file

LEMMA CompleteType ==
    ASSUME TypeOK
    PROVE  Header(Complete)
<1>1. PICK m \in 0 .. NumBlocks :
        head \in [blks : {0, NumBlocks}, chunks : Nat, sum : [0 .. m - 1 -> Content]]
  BY DEF TypeOK, Header
<1>2. CASE format = "sparse"
  <2>1. sum \in [0 .. ptr - 1 -> Content] /\ Len(chunks) \in Nat /\ ptr \in 0 .. NumBlocks
    BY <1>2 DEF TypeOK, Chunks
  <2>2. Complete = [head EXCEPT !.chunks = Len(chunks), !.sum = sum]
    BY <1>2 DEF Complete
  <2>3. Complete \in [blks : {0, NumBlocks}, chunks : Nat, sum : [0 .. ptr - 1 -> Content]]
    BY <1>1, <2>1, <2>2
  <2>4. QED
    BY <2>1, <2>3 DEF Header
<1>3. CASE format # "sparse"
  BY <1>3 DEF Complete, TypeOK
<1>4. QED
  BY <1>2, <1>3

LEMMA TypeClose == TypeOK /\ close_output_file => TypeOK'
<1> SUFFICES ASSUME TypeOK, close_output_file PROVE TypeOK'
  OBVIOUS
<1>1. Header(head')
  BY CompleteType DEF close_output_file
<1>2. QED
  BY <1>1 DEF close_output_file, TypeOK, simg2img, given

LEMMA TypeWriterDies == TypeOK /\ WriterDies => TypeOK'
<1> SUFFICES ASSUME TypeOK, WriterDies PROVE TypeOK'
  OBVIOUS
<1>1. Chunks(chunks')
  <2>1. Torn \in Chunk /\ Whole(Torn)
    BY BlocksOK DEF Torn, Chunk, Whole
  <2>2. CASE chunks' = <<>>
    BY <2>2 DEF Chunks
  <2>3. CASE chunks' = Append(chunks, Torn)
    <3>1. Append(chunks, Torn) = chunks \o <<Torn>>
      BY DEF TypeOK, Chunks
    <3>2. QED
      BY <2>1, <2>3, <3>1, OneChunk, ChunksJoin DEF TypeOK
  <2>4. CASE UNCHANGED chunks
    BY <2>4 DEF TypeOK
  <2>5. QED
    BY <2>2, <2>3, <2>4 DEF WriterDies
<1>2. Header(head')
  BY NoHeadType DEF WriterDies, TypeOK
<1>3. mishaps' \in 0 .. MaxMishaps
  BY BoundOK DEF WriterDies, TypeOK, given, Mishap
<1>4. QED
  BY <1>1, <1>2, <1>3 DEF WriterDies, TypeOK, simg2img, given, Mishap

\* What is left of chunks whose end is lost.
LEMMA ChunksCut ==
    ASSUME NEW s, Chunks(s), NEW i \in 0 .. Len(s)
    PROVE  Chunks(SubSeq(s, 1, i))
<1>1. s \in Seq(Chunk) /\ Len(s) \in Nat /\ \A j \in 1 .. Len(s) : Whole(s[j])
  BY DEF Chunks
<1> DEFINE t == SubSeq(s, 1, i)
<1>2. /\ t \in Seq(Chunk) /\ Len(t) = i
      /\ \A j \in 1 .. i : t[j] = s[j]
  BY <1>1
<1>3. \A j \in 1 .. i : j \in 1 .. Len(s)
  BY <1>1
<1> HIDE DEF t
<1>4. Chunks(t)
  BY <1>1, <1>2, <1>3 DEF Chunks
<1>5. QED
  BY <1>4 DEF t

LEMMA TypeDamage == TypeOK /\ Damage => TypeOK'
<1> SUFFICES ASSUME TypeOK, Damage PROVE TypeOK'
  OBVIOUS
<1>1. Chunks(chunks')
  <2>1. PICK i \in 1 .. Len(chunks) :
          \/ chunks' = [chunks EXCEPT ![i].data = [k \in DOMAIN @ |-> Zero]]
          \/ chunks' = SubSeq(chunks, 1, i - 1)
    BY DEF Damage
  <2>2. chunks \in Seq(Chunk) /\ Len(chunks) \in Nat
        /\ \A j \in 1 .. Len(chunks) : chunks[j] \in Chunk /\ Whole(chunks[j])
    BY DEF TypeOK, Chunks
  <2>3. CASE chunks' = [chunks EXCEPT ![i].data = [k \in DOMAIN @ |-> Zero]]
    <3> DEFINE d == chunks[i].data
               z == [k \in DOMAIN d |-> Zero]
               c == [chunks[i] EXCEPT !.data = z]
    <3>1. d \in Seq(Content)
      BY <2>2 DEF Chunk
    <3>2. z \in Seq(Content) /\ Len(z) = Len(d)
      <4>1. Len(d) \in Nat /\ DOMAIN d = 1 .. Len(d)
        BY <3>1
      <4>2. z \in [1 .. Len(d) -> Content]
        BY <4>1, ZeroType
      <4> HIDE DEF z
      <4>3. QED
        BY <4>1, <4>2, FunctionSeq
    <3>3. c \in Chunk /\ Whole(c)
      <4> HIDE DEF z
      <4>1. chunks[i] \in Chunk /\ Whole(chunks[i])
        BY <2>2
      <4>2. QED
        BY <3>2, <4>1 DEF Chunk, Whole
    <3>4. chunks' = [chunks EXCEPT ![i] = c]
      BY <2>3
    <3> HIDE DEF c
    <3>5. QED
      BY <2>2, <3>3, <3>4 DEF Chunks
  <2>4. CASE chunks' = SubSeq(chunks, 1, i - 1)
    <3>1. i - 1 \in 0 .. Len(chunks) /\ Chunks(chunks)
      BY <2>2 DEF TypeOK
    <3>2. QED
      BY <2>4, <3>1, ChunksCut
  <2>5. QED
    BY <2>1, <2>3, <2>4
<1>2. mishaps' \in 0 .. MaxMishaps
  <2>1. mishaps \in 0 .. MaxMishaps /\ mishaps < MaxMishaps /\ mishaps' = mishaps + 1
    BY DEF Damage, TypeOK, Mishap
  <2>2. QED
    BY <2>1, BoundOK
<1>3. QED
  BY <1>1, <1>2 DEF Damage, TypeOK, writer, simg2img, given, Mishap

\* A file whose end is lost.
LEMMA CutType ==
    ASSUME NEW f \in [Places -> Content], NEW n
    PROVE  Cut(f, n) \in [Places -> Content]
BY ZeroType DEF Cut

LEMMA TypeMishap ==
    ASSUME TypeOK, Mishap
    PROVE  mishaps' \in 0 .. MaxMishaps
BY BoundOK DEF Mishap, TypeOK

LEMMA TypeCloseLoses == TypeOK /\ CloseLoses => TypeOK'
<1> SUFFICES ASSUME TypeOK, CloseLoses PROVE TypeOK'
  OBVIOUS
<1>1. Header(head')
  BY CompleteType DEF CloseLoses, TypeOK
<1>2. Chunks(chunks')
  <2>1. CASE UNCHANGED chunks
    BY <2>1 DEF TypeOK
  <2>2. CASE \E i \in 0 .. Len(chunks) : chunks' = SubSeq(chunks, 1, i)
    BY <2>2, ChunksCut DEF TypeOK
  <2>3. QED
    BY <2>1, <2>2 DEF CloseLoses
<1>3. flat' \in [Places -> Content]
  BY CutType DEF CloseLoses, TypeOK
<1>4. mishaps' \in 0 .. MaxMishaps
  BY TypeMishap DEF CloseLoses
<1>5. QED
  BY <1>1, <1>2, <1>3, <1>4 DEF CloseLoses, TypeOK, simg2img, given

LEMMA TypeStartReader == TypeOK /\ StartReader => TypeOK'
<1> SUFFICES ASSUME TypeOK, StartReader PROVE TypeOK'
  OBVIOUS
<1>1. rsum' \in [0 .. total' - 1 -> Content] /\ out' \in [Places -> Content]
  BY NoneType, EmptyType DEF StartReader
<1>2. zerobuf' \in {Zero, Dirt} /\ lost' \in BOOLEAN
  BY DEF StartReader
<1>3. reader' \in {"idle", "chunks", "accepted", "refused"} /\ chunk' \in Nat \ {0}
      /\ pos' \in Int /\ total' \in Nat
  BY DEF StartReader
<1>4. UNCHANGED <<given, writer, file, mishaps>>
  BY DEF StartReader
<1>5. QED
  BY <1>1, <1>2, <1>3, <1>4 DEF TypeOK, writer, file, given

LEMMA SoughtType ==
    ASSUME NEW p \in Int, NEW n \in Nat
    PROVE  Sought(p, n) \in Int
<1>1. HalfBlocks \in Nat \ {0}
  BY SeekOK
<1>2. n \div HalfBlocks \in Int /\ p \div HalfBlocks \in Int /\ n % HalfBlocks \in Int
  BY <1>1
<1>3. \A t \in Int : t * HalfBlocks \in Int
  BY <1>1
<1>4. QED
  BY <1>1, <1>2, <1>3 DEF Sought

\* The chunk that is read.
LEMMA ChunkNow ==
    ASSUME TypeOK, Readable
    PROVE  /\ chunks[chunk] \in Chunk
           /\ chunks[chunk].len \in 0 .. NumBlocks /\ chunks[chunk].len \in Nat
           /\ chunks[chunk].kind = "raw" =>
                \A i \in 1 .. chunks[chunk].len : chunks[chunk].data[i] \in Content
<1> DEFINE c == chunks[chunk]
<1>1. c \in Chunk /\ Whole(c)
  BY DEF TypeOK, Chunks, Readable
<1> HIDE DEF c
<1>2. c.len \in 0 .. NumBlocks /\ c.data \in Seq(Content)
  BY <1>1 DEF Chunk
<1>3. c.kind = "raw" => \A i \in 1 .. c.len : c.data[i] \in Content
  BY <1>1, <1>2 DEF Whole
<1>4. c.len \in Nat
  BY <1>2, BlocksOK
<1>5. QED
  BY <1>1, <1>2, <1>3, <1>4 DEF c

\* What the checksum is taken over.
LEMMA CountedFed ==
    ASSUME TypeOK, Readable, Counted(chunks[chunk])
    PROVE  /\ total \in Nat /\ total' = total + chunks[chunk].len /\ total' \in Nat
           /\ rsum' = [b \in 0 .. total' - 1 |->
                         IF b < total THEN rsum[b]
                         ELSE IF chunks[chunk].kind = "raw"
                              THEN chunks[chunk].data[b - total + 1] ELSE zerobuf]
           /\ chunk' = chunk + 1 /\ UNCHANGED <<given, writer, file, reader, zerobuf>>
<1> DEFINE c == chunks[chunk]
           to == total + c.len
<1>1. total \in Nat /\ c.len \in Nat
  BY ChunkNow DEF TypeOK
<1> HIDE DEF c
<1>2. /\ total' = to /\ chunk' = chunk + 1 /\ UNCHANGED <<given, writer, file, reader, zerobuf>>
      /\ rsum' = Fed(rsum, total, [b \in 0 .. to - 1 |->
                                     IF c.kind = "raw" THEN c.data[b - total + 1] ELSE zerobuf], to)
  BY DEF Counted, c
<1> HIDE DEF to
<1>3. rsum' = [b \in 0 .. to - 1 |-> IF b < total THEN rsum[b]
                 ELSE IF c.kind = "raw" THEN c.data[b - total + 1] ELSE zerobuf]
  BY <1>2 DEF Fed
<1>4. to \in Nat
  BY <1>1 DEF to
<1>5. total' = total + c.len
  BY <1>2 DEF to
<1>6. QED
  BY <1>1, <1>2, <1>3, <1>4, <1>5 DEF c

LEMMA CountedType ==
    ASSUME TypeOK, Readable, Counted(chunks[chunk])
    PROVE  /\ rsum' \in [0 .. total' - 1 -> Content] /\ total' \in Nat
           /\ chunk' \in Nat \ {0}
<1> DEFINE c == chunks[chunk]
<1>1. /\ total \in Nat /\ total' = total + c.len /\ total' \in Nat /\ chunk' = chunk + 1
      /\ rsum' = [b \in 0 .. total' - 1 |-> IF b < total THEN rsum[b]
                    ELSE IF c.kind = "raw" THEN c.data[b - total + 1] ELSE zerobuf]
  BY CountedFed
<1>2. c.len \in Nat /\ (c.kind = "raw" => \A i \in 1 .. c.len : c.data[i] \in Content)
  BY ChunkNow
<1> HIDE DEF c
<1>3. rsum \in [0 .. total - 1 -> Content] /\ zerobuf \in Content /\ chunk \in Nat \ {0}
  BY ZeroType, DirtType DEF TypeOK
<1>4. \A b \in 0 .. total' - 1 : c.kind = "raw" /\ ~(b < total) => c.data[b - total + 1] \in Content
  BY <1>1, <1>2
<1>5. \A b \in 0 .. total' - 1 : b < total => rsum[b] \in Content
  BY <1>1, <1>3
<1>6. \A b \in 0 .. total' - 1 :
         (IF b < total THEN rsum[b] ELSE IF c.kind = "raw" THEN c.data[b - total + 1] ELSE zerobuf)
           \in Content
  BY <1>3, <1>4, <1>5
<1>7. QED
  BY <1>1, <1>3, <1>6

LEMMA TypeReadChunk == TypeOK /\ ReadChunk => TypeOK'
<1> SUFFICES ASSUME TypeOK, ReadChunk PROVE TypeOK'
  OBVIOUS
<1>1. CASE ~Readable
  BY <1>1 DEF ReadChunk, TypeOK, writer, file, given
<1>2. CASE Readable
  <2> DEFINE c == chunks[chunk]
  <2>1. Counted(c) /\ UNCHANGED <<lost, mishaps>>
    BY <1>2 DEF ReadChunk
  <2>2. pos \in Int /\ out \in [Places -> Content] /\ Places \subseteq Int
    BY DEF TypeOK, Places
  <2>3. c.len \in Nat /\ (c.kind = "raw" => \A i \in 1 .. c.len : c.data[i] \in Content)
    BY <1>2, ChunkNow
  <2>4. \/ /\ c.kind = "raw"
           /\ pos' = pos + c.len
           /\ out' = [b \in Places |-> IF b \in pos .. pos + c.len - 1
                                       THEN c.data[b - pos + 1] ELSE out[b]]
        \/ pos' = Sought(pos, c.len) /\ UNCHANGED out
    BY <1>2 DEF ReadChunk
  <2>5. UNCHANGED <<given, writer, file, reader, zerobuf>>
    BY <1>2, <2>1, CountedFed
  <2>6. rsum' \in [0 .. total' - 1 -> Content] /\ total' \in Nat /\ chunk' \in Nat \ {0}
    BY <1>2, <2>1, CountedType
  <2> HIDE DEF c
  <2>7. pos' \in Int /\ out' \in [Places -> Content]
    <3>1. CASE /\ c.kind = "raw"
               /\ pos' = pos + c.len
               /\ out' = [b \in Places |-> IF b \in pos .. pos + c.len - 1
                                           THEN c.data[b - pos + 1] ELSE out[b]]
      <4>1. \A b \in Places : b \in pos .. pos + c.len - 1 => c.data[b - pos + 1] \in Content
        BY <2>2, <2>3, <3>1
      <4>2. QED
        BY <2>2, <2>3, <3>1, <4>1
    <3>2. CASE pos' = Sought(pos, c.len) /\ UNCHANGED out
      BY <2>2, <2>3, <3>2, SoughtType
    <3>3. QED
      BY <2>4, <3>1, <3>2
  <2>8. lost' \in BOOLEAN /\ UNCHANGED mishaps
    BY <2>1 DEF TypeOK
  <2>9. UNCHANGED <<layout, format, heap, unmapped, queue, last, phase, at, ptr, sum, why,
                    head, chunks, flat, reader, zerobuf>>
    BY <2>5 DEF writer, file, given
  <2>10. QED
    BY <2>6, <2>7, <2>8, <2>9 DEF TypeOK
<1>3. QED
  BY <1>1, <1>2

LEMMA TypeSeekLoses == TypeOK /\ SeekLoses => TypeOK'
<1> SUFFICES ASSUME TypeOK, SeekLoses PROVE TypeOK'
  OBVIOUS
<1>1. UNCHANGED <<given, writer, file, reader, zerobuf, pos>> /\ lost' = TRUE
  BY CountedFed DEF SeekLoses
<1>2. rsum' \in [0 .. total' - 1 -> Content] /\ total' \in Nat /\ chunk' \in Nat \ {0}
  BY CountedType DEF SeekLoses
<1>3. out' \in [Places -> Content]
  BY CutType DEF SeekLoses, TypeOK
<1>4. mishaps' \in 0 .. MaxMishaps
  BY TypeMishap DEF SeekLoses
<1>5. QED
  BY <1>1, <1>2, <1>3, <1>4 DEF TypeOK, writer, file, given

LEMMA TypeEndLoses == TypeOK /\ EndLoses => TypeOK'
<1> SUFFICES ASSUME TypeOK, EndLoses PROVE TypeOK'
  OBVIOUS
<1>1. out' \in [Places -> Content]
  BY CutType DEF EndLoses, TypeOK
<1>2. mishaps' \in 0 .. MaxMishaps
  BY TypeMishap DEF EndLoses
<1>3. QED
  BY <1>1, <1>2 DEF EndLoses, TypeOK, writer, file, given

LEMMA TypeStep == TypeOK /\ [Next]_vars => TypeOK'
<1> SUFFICES ASSUME TypeOK, [Next]_vars PROVE TypeOK'
  OBVIOUS
<1>1. CASE WriteSuper
  <2>1. Super(layout) \in Extent /\ at' \in Nat \ {0}
    BY <1>1, SuperType DEF TypeOK, Layout, WriteSuper
  <2>2. QED
    BY <1>1, <2>1, TypeWrite DEF WriteSuper
<1>2. CASE WriteDesc
  <2>1. Desc(layout) \in Extent /\ at' \in Nat \ {0}
    BY <1>2, DescType DEF TypeOK, Layout, WriteDesc
  <2>2. QED
    BY <1>2, <2>1, TypeWrite DEF WriteDesc
<1>3. CASE EndReader
  BY <1>3 DEF EndReader, TypeOK, writer, file, given
<1>4. CASE ReaderDies
  BY <1>4, BoundOK DEF ReaderDies, TypeOK, writer, file, given, Mishap
<1>5. CASE UNCHANGED vars
  BY <1>5 DEF TypeOK, vars, writer, file, simg2img, given
<1>6. QED
  BY <1>1, <1>2, <1>3, <1>4, <1>5, TypeBegin, TypeQueue, TypeOpen, TypeWriteData, TypePad,
     TypeClose, TypeWriterDies, TypeCloseLoses, TypeDamage, TypeStartReader, TypeReadChunk,
     TypeSeekLoses, TypeEndLoses DEF Next, Work

\* Every state of both tools has its types, whatever the layout.
THEOREM TypesHold == Spec => []TypeOK
<1>1. QED
  BY TypeInit, TypeStep, PTL DEF Spec

-----------------------------------------------------------------------------
(* The contents of the file system. *)

LEMMA LaidOut ==
    ASSUME Laid
    PROVE  /\ layout \in Layout /\ layout.parts \in Seq(Extent)
           /\ Super(layout) \in Extent /\ Desc(layout) \in Extent
           /\ End(Super(layout)) = Desc(layout).block /\ End(Desc(layout)) <= NumBlocks
           /\ \A p \in Parts(layout) :
                p \in Extent /\ End(Desc(layout)) <= p.block /\ End(p) <= NumBlocks
           /\ \A p, q \in Parts(layout) : p # q => Apart(p, q)
<1>1. layout \in Layout /\ End(Desc(layout)) <= NumBlocks
  BY LayoutsOK DEF Laid, Fits
<1>2. \A i \in 1 .. Len(layout.parts) :
        /\ End(Desc(layout)) <= layout.parts[i].block /\ End(layout.parts[i]) <= NumBlocks
        /\ \A j \in 1 .. Len(layout.parts) : i # j => Apart(layout.parts[i], layout.parts[j])
  BY LayoutsOK DEF Laid, Fits
<1>3. layout.parts \in Seq(Extent) /\ layout.first \in {0, 1}
  BY <1>1 DEF Layout
<1>4. \A i \in 1 .. Len(layout.parts) : layout.parts[i] \in Extent
  BY <1>3
<1>5. End(Super(layout)) = Desc(layout).block
  BY <1>3 DEF Super, Desc, End
<1>6. \A p \in Parts(layout) :
        p \in Extent /\ End(Desc(layout)) <= p.block /\ End(p) <= NumBlocks
  BY <1>2, <1>4 DEF Parts
<1>7. \A p, q \in Parts(layout) : p # q => Apart(p, q)
  BY <1>2 DEF Parts
<1>8. QED
  BY <1>1, <1>3, <1>5, <1>6, <1>7, SuperType, DescType

LEMMA ExtentsInside ==
    ASSUME Laid, NEW e \in Extents(layout)
    PROVE  /\ e \in Extent /\ e.block \in Nat /\ End(e) \in Nat
           /\ e.block < End(e) /\ End(e) <= NumBlocks /\ Blocks(e) \subseteq Places
<1>1. e \in Extent /\ End(e) <= NumBlocks
  <2>1. CASE e = Super(layout)
    <3>1. Desc(layout) \in Extent /\ End(e) = Desc(layout).block /\ End(Desc(layout)) <= NumBlocks
          /\ e \in Extent
      BY <2>1, LaidOut
    <3>2. End(Desc(layout)) > Desc(layout).block /\ End(Desc(layout)) \in Nat /\ End(e) \in Nat
      BY <3>1, EndType
    <3>3. QED
      BY <3>1, <3>2, BlocksOK
  <2>2. CASE e = Desc(layout)
    BY <2>2, LaidOut
  <2>3. CASE e \in Parts(layout)
    BY <2>3, LaidOut
  <2>4. QED
    BY <2>1, <2>2, <2>3 DEF Extents
<1>2. e.block \in Nat /\ End(e) \in Nat /\ e.block < End(e)
  BY <1>1, EndType DEF Extent
<1>3. Blocks(e) \subseteq Places
  BY <1>1, <1>2, BlocksOK DEF Blocks, Places
<1>4. QED
  BY <1>1, <1>2, <1>3

\* The superblock and the descriptors come before all parts.
LEMMA HeadFirst ==
    ASSUME Laid, NEW e \in Extents(layout)
    PROVE  /\ e \in Parts(layout) \/ End(e) <= End(Desc(layout))
           /\ e \in Parts(layout) => End(Desc(layout)) <= e.block
           /\ e = Desc(layout) => e.block = End(Super(layout))
<1>1. Super(layout) \in Extents(layout) /\ Desc(layout) \in Extents(layout)
  BY DEF Extents
<1>2. End(Super(layout)) <= End(Desc(layout))
  <2>1. End(Super(layout)) = Desc(layout).block
    BY LaidOut
  <2>2. Desc(layout).block \in Nat /\ End(Desc(layout)) \in Nat /\ Desc(layout).block < End(Desc(layout))
    BY <1>1, ExtentsInside
  <2>3. QED
    BY <2>1, <2>2
<1>3. End(Desc(layout)) \in Nat
  BY <1>1, ExtentsInside
<1>4. QED
  BY <1>2, <1>3, LaidOut DEF Extents

LEMMA OneExtent ==
    ASSUME Laid, NEW d \in Extents(layout), NEW e \in Extents(layout), NEW b,
           b \in Blocks(d), b \in Blocks(e)
    PROVE  d = e
<1>1. /\ d.block \in Nat /\ End(d) \in Nat /\ e.block \in Nat /\ End(e) \in Nat
      /\ b \in Int /\ d.block <= b /\ b < End(d) /\ e.block <= b /\ b < End(e)
  BY ExtentsInside DEF Blocks
<1>2. CASE d \in Parts(layout) /\ e \in Parts(layout)
  <2>1. d # e => Apart(d, e)
    BY <1>2, LaidOut
  <2>2. QED
    BY <1>1, <2>1 DEF Apart
<1>3. CASE d \in Parts(layout) /\ e \notin Parts(layout)
  BY <1>1, <1>3, HeadFirst, LaidOut, EndType
<1>4. CASE d \notin Parts(layout) /\ e \in Parts(layout)
  BY <1>1, <1>4, HeadFirst, LaidOut, EndType
<1>5. CASE d \notin Parts(layout) /\ e \notin Parts(layout)
  <2>1. d \in {Super(layout), Desc(layout)} /\ e \in {Super(layout), Desc(layout)}
    BY <1>5 DEF Extents
  <2>2. End(Super(layout)) = Desc(layout).block
    BY LaidOut
  <2>3. QED
    BY <1>1, <2>1, <2>2
<1>6. QED
  BY <1>2, <1>3, <1>4, <1>5

LEMMA WantIn ==
    ASSUME Laid, NEW e \in Extents(layout), NEW b \in Blocks(e)
    PROVE  Want[b] = Cell(e, b)
<1>1. b \in Places
  BY ExtentsInside
<1>2. (CHOOSE d \in Extents(layout) : b \in Blocks(d)) = e
  <2>1. \A d \in Extents(layout) : b \in Blocks(d) => d = e
    BY OneExtent
  <2>2. QED
    BY <2>1
<1>3. QED
  BY <1>1, <1>2 DEF Want

LEMMA WantOut ==
    ASSUME NEW b \in Places, \A e \in Extents(layout) : b \notin Blocks(e)
    PROVE  Want[b] = Zero
BY DEF Want

\* The blocks m .. n - 1 belong to no extent.
Clear(m, n) == \A e \in Extents(layout) : \A b \in m .. n - 1 : b \notin Blocks(e)

\* Writing the next extent, the gap before it included.
LEMMA WrittenStream ==
    ASSUME Laid, TypeOK, NEW e \in Extents(layout), ptr <= e.block, Clear(ptr, e.block),
           Written(e),
           format = "sparse" => sum = Upto(ptr),
           format # "sparse" => flat = [b \in Places |-> IF b < ptr THEN Want[b] ELSE Zero]
    PROVE  /\ ptr' = End(e)
           /\ format = "sparse" => sum' = Upto(End(e))
           /\ format # "sparse" =>
                flat' = [b \in Places |-> IF b < End(e) THEN Want[b] ELSE Zero]
<1> DEFINE in == [b \in Places |-> IF b \in Blocks(e) THEN Cell(e, b) ELSE Zero]
<1>1. ptr' = End(e)
  BY DEF Written
<1>2. /\ e.block \in Nat /\ End(e) \in Nat /\ e.block < End(e) /\ End(e) <= NumBlocks
      /\ ptr \in Nat /\ Blocks(e) \subseteq Places /\ NumBlocks \in Nat
      /\ Blocks(e) = e.block .. End(e) - 1 /\ Places = 0 .. NumBlocks - 1
  BY ExtentsInside, BlocksOK DEF TypeOK, Blocks, Places
<1>3. \A b \in ptr .. e.block - 1 : in[b] = Want[b]
  <2> SUFFICES ASSUME NEW b \in ptr .. e.block - 1
               PROVE  in[b] = Want[b]
    OBVIOUS
  <2>1. b \in Places /\ b \notin Blocks(e) /\ \A d \in Extents(layout) : b \notin Blocks(d)
    BY <1>2 DEF Clear
  <2>2. QED
    BY <2>1, WantOut
<1>4. \A b \in Blocks(e) : in[b] = Want[b]
  BY <1>2, WantIn
<1> HIDE DEF in
<1>5. ASSUME format = "sparse" PROVE sum' = Upto(End(e))
  <2>1. sum' = Fed(sum, ptr, in, End(e)) /\ sum = Upto(ptr)
    BY <1>5 DEF Written, in
  <2>2. \A b \in 0 .. End(e) - 1 : (IF b < ptr THEN sum[b] ELSE in[b]) = Want[b]
    BY <1>2, <1>3, <1>4, <2>1 DEF Upto
  <2>3. QED
    BY <2>1, <2>2 DEF Fed, Upto
<1>6. ASSUME format # "sparse"
      PROVE  flat' = [b \in Places |-> IF b < End(e) THEN Want[b] ELSE Zero]
  <2>1. flat' = [b \in Places |-> IF b \in Blocks(e) THEN in[b] ELSE flat[b]]
    BY <1>6 DEF Written, in
  <2>2. \A b \in Places : b \in ptr .. e.block - 1 => Want[b] = Zero
    <3>1. \A b \in Places : b \in ptr .. e.block - 1 =>
             \A d \in Extents(layout) : b \notin Blocks(d)
      BY DEF Clear
    <3>2. QED
      BY <3>1, WantOut
  <2>3. \A b \in Places : (IF b \in Blocks(e) THEN in[b] ELSE flat[b])
                          = (IF b < End(e) THEN Want[b] ELSE Zero)
    <3> SUFFICES ASSUME NEW b \in Places
                 PROVE  (IF b \in Blocks(e) THEN in[b] ELSE flat[b])
                          = (IF b < End(e) THEN Want[b] ELSE Zero)
      OBVIOUS
    <3>1. b \in Int /\ b >= 0
      BY <1>2
    <3>2. flat[b] = IF b < ptr THEN Want[b] ELSE Zero
      BY <1>6
    <3>3. CASE b \in Blocks(e)
      BY <1>2, <1>4, <3>1, <3>3
    <3>4. CASE b < e.block
      BY <1>2, <2>2, <3>1, <3>2, <3>4
    <3>5. CASE b >= End(e)
      BY <1>2, <3>1, <3>2, <3>5
    <3>6. QED
      BY <1>2, <3>1, <3>3, <3>4, <3>5
  <2>4. QED
    BY <2>1, <2>3
<1>7. QED
  BY <1>1, <1>5, <1>6

-----------------------------------------------------------------------------
(* What is next to be written. *)

LEMMA FirstExtent ==
    ASSUME Making, phase = "super"
    PROVE  ptr = 0 /\ Super(layout) \in Extents(layout) /\ Clear(0, Super(layout).block)
<1>1. ptr = 0
  BY DEF Making, Reached, Frontier, Busy
<1>2. Laid /\ Super(layout) \in Extents(layout) /\ Desc(layout) \in Extents(layout)
  BY DEF Making, Extents
<1>3. ASSUME NEW e \in Extents(layout), NEW b \in 0 .. Super(layout).block - 1
      PROVE  b \notin Blocks(e)
  <2>1. /\ Super(layout).block \in Nat /\ Super(layout).block < End(Super(layout))
        /\ End(Super(layout)) = Desc(layout).block /\ Desc(layout).block < End(Desc(layout))
        /\ End(Super(layout)) \in Nat /\ End(Desc(layout)) \in Nat
        /\ e.block \in Nat
    BY <1>2, ExtentsInside, LaidOut
  <2>2. e.block >= Super(layout).block
    <3>1. CASE e \in Parts(layout)
      BY <2>1, <3>1, <1>2, HeadFirst
    <3>2. CASE e \in {Super(layout), Desc(layout)}
      BY <2>1, <3>2
    <3>3. QED
      BY <3>1, <3>2 DEF Extents
  <2>3. QED
    BY <2>1, <2>2 DEF Blocks
<1>4. QED
  BY <1>1, <1>2, <1>3 DEF Clear

LEMMA SecondExtent ==
    ASSUME Making, phase = "desc"
    PROVE  ptr = Desc(layout).block /\ Desc(layout) \in Extents(layout)
           /\ Clear(ptr, Desc(layout).block)
<1>1. ptr = Desc(layout).block
  BY LaidOut DEF Making, Reached, Frontier, Busy
<1>2. Desc(layout) \in Extents(layout) /\ Laid
  BY DEF Extents, Making
<1>3. Desc(layout).block \in Nat
  BY <1>2, ExtentsInside
<1>4. Clear(ptr, Desc(layout).block)
  BY <1>1, <1>3 DEF Clear
<1>5. QED
  BY <1>1, <1>2, <1>4

\* What for_each_data_block finds in the queue.
LEMMA DataPhase ==
    ASSUME Making, phase = "data"
    PROVE  /\ at \in Nat \ {0} /\ at <= Len(queue) + 1 /\ Len(queue) \in Nat
           /\ Sorted(queue)
           /\ \A i \in 1 .. Len(queue) : queue[i] \in Parts(layout)
           /\ \A p \in Parts(layout) : \E i \in 1 .. Len(queue) : queue[i] = p
           /\ at = 1 => ptr = End(Desc(layout))
           /\ at > 1 => ptr = End(queue[at - 1])
           /\ \A i \in 1 .. at - 1 : Writable(queue[i])
<1>1. TypeOK /\ Sorted(queue) /\ Holds(queue, Len(layout.parts))
  BY DEF Making, Queued, Given, Busy
<1>2. \A i \in 1 .. Len(queue) : queue[i] \in Parts(layout)
  BY <1>1 DEF Holds, Parts
<1>3. \A p \in Parts(layout) : \E i \in 1 .. Len(queue) : queue[i] = p
  BY <1>1 DEF Holds, Parts
<1>4. at = 1 => ptr = End(Desc(layout))
  BY DEF Making, Reached, Frontier, Busy
<1>5. at \in Nat \ {0} /\ Len(queue) \in Nat
  BY <1>1, QueueNow
<1>6. at > 1 => ptr = End(queue[at - 1])
  BY <1>5 DEF Making, Reached, Frontier, Busy
<1>7. at <= Len(queue) + 1 /\ \A i \in 1 .. at - 1 : Writable(queue[i])
  BY DEF Making, Reached
<1>8. QED
  BY <1>1, <1>2, <1>3, <1>4, <1>5, <1>6, <1>7

\* Of the extents, those before place `at' of the queue end before ptr.
LEMMA Behindhand ==
    ASSUME Making, phase = "data", NEW e \in Extents(layout)
    PROVE  \/ End(e) <= ptr
           \/ \E i \in at .. Len(queue) : e = queue[i]
<1>1. /\ at \in Nat \ {0} /\ at <= Len(queue) + 1 /\ Len(queue) \in Nat /\ Sorted(queue)
      /\ at = 1 => ptr = End(Desc(layout))
      /\ at > 1 => ptr = End(queue[at - 1])
      /\ \A i \in 1 .. Len(queue) : queue[i] \in Parts(layout)
      /\ \A p \in Parts(layout) : \E i \in 1 .. Len(queue) : queue[i] = p
  BY DataPhase
<1>2. Laid
  BY DEF Making
<1>3. \A i \in 1 .. Len(queue) :
         /\ queue[i].block \in Nat /\ End(queue[i]) \in Nat /\ queue[i].block < End(queue[i])
         /\ End(Desc(layout)) <= queue[i].block
  BY <1>1, <1>2, ExtentsInside, LaidOut DEF Extents
<1>4. End(Desc(layout)) \in Nat /\ End(e) \in Nat
  BY <1>2, ExtentsInside DEF Extents
<1>5. CASE e \notin Parts(layout)
  <2>1. End(e) <= End(Desc(layout))
    BY <1>2, <1>5, HeadFirst
  <2>2. CASE at = 1
    BY <1>1, <2>1, <2>2
  <2>3. CASE at > 1
    <3>1. at - 1 \in 1 .. Len(queue)
      BY <1>1, <2>3
    <3>2. QED
      BY <1>1, <1>3, <1>4, <2>1, <2>3, <3>1
  <2>4. QED
    BY <1>1, <2>2, <2>3
<1>6. CASE e \in Parts(layout)
  <2>1. PICK i \in 1 .. Len(queue) : queue[i] = e
    BY <1>1, <1>6
  <2>2. CASE i >= at
    BY <1>1, <2>1, <2>2
  <2>3. CASE i = at - 1
    <3>1. at > 1
      BY <1>1, <2>3
    <3>2. ptr = End(e)
      BY <1>1, <2>1, <2>3, <3>1
    <3>3. QED
      BY <1>4, <3>2
  <2>4. CASE i < at - 1
    <3>1. at > 1 /\ at - 1 \in 1 .. Len(queue) /\ i \in 1 .. Len(queue)
      BY <1>1, <2>4
    <3>2. End(queue[i]) <= queue[at - 1].block
      BY <3>1, <2>4, <1>1 DEF Sorted
    <3>3. ptr = End(queue[at - 1])
      BY <1>1, <3>1
    <3>4. /\ End(queue[i]) \in Nat /\ End(queue[at - 1]) \in Nat
          /\ queue[at - 1].block \in Nat /\ queue[at - 1].block < End(queue[at - 1])
      BY <1>3, <3>1
    <3>5. QED
      BY <2>1, <3>2, <3>3, <3>4
  <2>5. i < at - 1 \/ i = at - 1 \/ i >= at
    BY <1>1
  <2>6. QED
    BY <2>2, <2>3, <2>4, <2>5
<1>7. QED
  BY <1>5, <1>6

\* The next entry of the queue is behind ptr, and nothing lies before it.
LEMMA NextExtent ==
    ASSUME Making, phase = "data", at <= Len(queue)
    PROVE  /\ queue[at] \in Extents(layout)
           /\ ~OutOfOrder
           /\ ptr <= queue[at].block
           /\ Clear(ptr, queue[at].block)
<1>1. /\ at \in Nat \ {0} /\ at <= Len(queue) + 1 /\ Len(queue) \in Nat /\ Sorted(queue)
      /\ at = 1 => ptr = End(Desc(layout))
      /\ at > 1 => ptr = End(queue[at - 1])
      /\ \A i \in 1 .. Len(queue) : queue[i] \in Parts(layout)
  BY DataPhase
<1>2. Laid
  BY DEF Making
<1>3. \A i \in 1 .. Len(queue) :
         /\ queue[i] \in Extents(layout)
         /\ queue[i].block \in Nat /\ End(queue[i]) \in Nat /\ queue[i].block < End(queue[i])
         /\ End(Desc(layout)) <= queue[i].block
  BY <1>1, <1>2, ExtentsInside, LaidOut DEF Extents
<1>4. at \in 1 .. Len(queue)
  BY <1>1
<1>5. at > 1 => End(queue[at - 1]) <= queue[at].block
  BY <1>1, <1>4 DEF Sorted
<1>6. at > 1 => at - 1 \in 1 .. Len(queue)
  BY <1>1
<1>7. ~OutOfOrder
  BY <1>3, <1>4, <1>5, <1>6 DEF OutOfOrder
<1>8. ptr <= queue[at].block /\ ptr \in Nat
  BY <1>1, <1>3, <1>4, <1>5, <1>6, <1>2, ExtentsInside DEF Extents
<1>9. ASSUME NEW e \in Extents(layout), NEW b \in ptr .. queue[at].block - 1
      PROVE  b \notin Blocks(e)
  <2>1. e.block \in Nat /\ End(e) \in Nat
    BY <1>2, ExtentsInside
  <2>2. CASE End(e) <= ptr
    BY <1>8, <2>1, <2>2 DEF Blocks
  <2>3. CASE \E i \in at .. Len(queue) : e = queue[i]
    <3>1. PICK i \in at .. Len(queue) : e = queue[i]
      BY <2>3
    <3>2. i \in 1 .. Len(queue)
      BY <1>1
    <3>3. queue[at].block <= queue[i].block
      <4>1. CASE i = at
        BY <1>3, <3>2, <4>1
      <4>2. CASE i > at
        <5>1. End(queue[at]) <= queue[i].block
          BY <1>1, <1>4, <3>2, <4>2 DEF Sorted
        <5>2. QED
          BY <1>3, <1>4, <3>2, <5>1
      <4>3. QED
        BY <1>1, <4>1, <4>2
    <3>4. queue[at].block \in Nat /\ e.block >= queue[at].block
      BY <1>3, <1>4, <3>1, <3>3
    <3>5. QED
      BY <1>8, <2>1, <3>4 DEF Blocks
  <2>4. QED
    BY <2>2, <2>3, Behindhand
<1>10. QED
  BY <1>3, <1>4, <1>7, <1>8, <1>9 DEF Clear

\* Behind the last one there is nothing, and all of them could be written.
LEMMA NoExtent ==
    ASSUME Making, phase = "data", at > Len(queue)
    PROVE  Clear(ptr, NumBlocks) /\ \A p \in Parts(layout) : Writable(p)
<1>1. /\ at \in Nat \ {0} /\ at = Len(queue) + 1 /\ Len(queue) \in Nat
      /\ \A p \in Parts(layout) : \E i \in 1 .. Len(queue) : queue[i] = p
      /\ \A i \in 1 .. at - 1 : Writable(queue[i])
  <2>1. /\ at \in Nat \ {0} /\ at <= Len(queue) + 1 /\ Len(queue) \in Nat
        /\ \A p \in Parts(layout) : \E i \in 1 .. Len(queue) : queue[i] = p
        /\ \A i \in 1 .. at - 1 : Writable(queue[i])
    BY DataPhase
  <2>2. QED
    BY <2>1
<1>2. \A p \in Parts(layout) : Writable(p)
  <2>1. 1 .. at - 1 = 1 .. Len(queue)
    BY <1>1
  <2>2. QED
    BY <1>1, <2>1
<1>3. ptr \in Nat /\ Laid
  BY BlocksOK DEF Making, TypeOK
<1>4. ASSUME NEW e \in Extents(layout), NEW b \in ptr .. NumBlocks - 1
      PROVE  b \notin Blocks(e)
  <2>1. End(e) <= ptr
    BY <1>1, Behindhand
  <2>2. e.block \in Nat /\ End(e) \in Nat
    BY <1>3, ExtentsInside
  <2>3. QED
    BY <1>3, <2>1, <2>2 DEF Blocks
<1>5. QED
  BY <1>2, <1>4 DEF Clear

\* An extent that is next is written, or refused as past the end.
LEMMA WriteNext ==
    ASSUME Making, phase \in {"super", "desc", "data"}, NEW e \in Extents(layout), NEW n,
           ptr <= e.block, Clear(ptr, e.block), Write(e, n)
    PROVE  /\ UNCHANGED <<layout, format, queue, head>>
           /\ \/ phase' = "failed" /\ why' \in {why, "end", "map"}
              \/ /\ Writable(e) /\ why' = why
                 /\ phase' = n
                 /\ ptr' = End(e)
                 /\ format = "sparse" => sum' = Upto(End(e))
                 /\ format # "sparse" =>
                      flat' = [b \in Places |-> IF b < End(e) THEN Want[b] ELSE Zero]
<1>1. /\ UNCHANGED <<layout, format, queue>>
      /\ phase' = IF why' = "none" THEN n ELSE "failed"
  BY DEF Write, given
<1>2. TypeOK /\ Laid /\ ptr \in Nat /\ e.block \in Nat
  BY BlocksOK, ExtentsInside DEF Making, TypeOK
<1>3. CASE Fails("end") \/ Fails("map")
  BY <1>1, <1>3 DEF Fails, file
<1>4. CASE Writable(e) /\ Written(e)
  <2>1. format = "sparse" => sum = Upto(ptr)
    BY DEF Making, Streamed, Busy
  <2>2. format # "sparse" => flat = [b \in Places |-> IF b < ptr THEN Want[b] ELSE Zero]
    BY DEF Making, Streamed
  <2>3. /\ ptr' = End(e)
        /\ format = "sparse" => sum' = Upto(End(e))
        /\ format # "sparse" =>
             flat' = [b \in Places |-> IF b < End(e) THEN Want[b] ELSE Zero]
    BY <1>2, <1>4, <2>1, <2>2, WrittenStream
  <2>4. UNCHANGED <<head, why>>
    BY <1>4 DEF Written
  <2>5. QED
    BY <1>1, <1>4, <2>3, <2>4
<1>5. ~(e.block < ptr)
  BY <1>2
<1>6. QED
  BY <1>3, <1>4, <1>5 DEF Write

-----------------------------------------------------------------------------
(* queue_db. *)

\* An extent put where it belongs keeps the order.
LEMMA InsertSorted ==
    ASSUME TypeOK, Sorted(queue), NEW e \in Extent, NEW p \in 0 .. Len(queue),
           \A i \in 1 .. p : End(queue[i]) <= e.block,
           \A i \in p + 1 .. Len(queue) : End(e) <= queue[i].block
    PROVE  Sorted(Inserted(e, p))
<1> DEFINE n == Len(queue)
           q == Inserted(e, p)
<1>0. n \in Nat
  BY QueueNow
<1>1. /\ n \in Nat /\ Len(q) = n + 1
      /\ \A j \in 1 .. n + 1 :
           q[j] = IF j <= p THEN queue[j] ELSE IF j = p + 1 THEN e ELSE queue[j - 1]
  BY <1>0, InsertedType
<1> HIDE DEF q
<1>2. SUFFICES ASSUME NEW i \in 1 .. n + 1, NEW j \in 1 .. n + 1, i < j
               PROVE  End(q[i]) <= q[j].block
  BY <1>1 DEF Sorted, q
<1>3. CASE j <= p
  <2>1. q[i] = queue[i] /\ q[j] = queue[j] /\ i \in 1 .. n /\ j \in 1 .. n
    BY <1>1, <1>2, <1>3
  <2>2. QED
    BY <2>1, <1>2 DEF Sorted
<1>4. CASE j = p + 1
  <2>1. q[i] = queue[i] /\ q[j] = e /\ i \in 1 .. p
    BY <1>1, <1>2, <1>4
  <2>2. QED
    BY <2>1
<1>5. CASE j > p + 1
  <2>1. q[j] = queue[j - 1] /\ j - 1 \in p + 1 .. n /\ j - 1 \in 1 .. n
    BY <1>1, <1>2, <1>5
  <2>2. CASE i = p + 1
    <3>1. q[i] = e
      BY <1>1, <1>2, <2>2
    <3>2. QED
      BY <2>1, <3>1
  <2>3. CASE i <= p
    <3>1. q[i] = queue[i] /\ i \in 1 .. n /\ i < j - 1
      BY <1>1, <1>2, <1>5, <2>3
    <3>2. QED
      BY <2>1, <3>1 DEF Sorted
  <2>4. CASE i > p + 1
    <3>1. q[i] = queue[i - 1] /\ i - 1 \in 1 .. n /\ i - 1 < j - 1
      BY <1>1, <1>2, <2>4
    <3>2. QED
      BY <2>1, <3>1 DEF Sorted
  <2>5. QED
    BY <1>1, <1>2, <2>2, <2>3, <2>4
<1>6. QED
  BY <1>1, <1>2, <1>3, <1>4, <1>5

\* An extent put anywhere keeps the others.
LEMMA InsertHolds ==
    ASSUME TypeOK, NEW p \in 0 .. Len(queue), at <= Len(layout.parts), Holds(queue, at - 1)
    PROVE  Holds(Inserted(layout.parts[at], p), at)
<1> DEFINE n == Len(queue)
           e == layout.parts[at]
           q == Inserted(e, p)
<1>0. e \in Extent /\ at \in Nat \ {0}
  BY QueueNow
<1>1. /\ n \in Nat /\ Len(q) = n + 1
      /\ \A j \in 1 .. n + 1 :
           q[j] = IF j <= p THEN queue[j] ELSE IF j = p + 1 THEN e ELSE queue[j - 1]
  BY <1>0, QueueNow, InsertedType
<1> HIDE DEF q
<1>2. \A i \in 1 .. n : \E k \in 1 .. at - 1 : queue[i] = layout.parts[k]
  BY DEF Holds
<1>3. \A k \in 1 .. at - 1 : \E i \in 1 .. n : queue[i] = layout.parts[k]
  BY DEF Holds
<1>4. ASSUME NEW j \in 1 .. n + 1 PROVE \E k \in 1 .. at : q[j] = layout.parts[k]
  <2>1. CASE j = p + 1
    <3>1. q[j] = layout.parts[at] /\ at \in 1 .. at
      BY <1>0, <1>1, <2>1
    <3>2. QED
      BY <3>1
  <2>2. CASE j # p + 1
    <3>1. PICK i \in 1 .. n : q[j] = queue[i]
      <4>1. CASE j <= p
        <5>1. j \in 1 .. n /\ q[j] = queue[j]
          BY <1>1, <4>1
        <5>2. QED
          BY <5>1
      <4>2. CASE j > p + 1
        <5>1. j - 1 \in 1 .. n /\ q[j] = queue[j - 1]
          BY <1>1, <4>2
        <5>2. QED
          BY <5>1
      <4>3. QED
        BY <1>1, <2>2, <4>1, <4>2
    <3>2. PICK k \in 1 .. at - 1 : queue[i] = layout.parts[k]
      BY <1>2
    <3>3. k \in 1 .. at
      BY <1>0
    <3>4. QED
      BY <3>1, <3>2, <3>3
  <2>3. QED
    BY <2>1, <2>2
<1>5. ASSUME NEW k \in 1 .. at PROVE \E j \in 1 .. n + 1 : q[j] = layout.parts[k]
  <2>1. CASE k = at
    <3>1. p + 1 \in 1 .. n + 1 /\ q[p + 1] = e
      BY <1>1
    <3>2. QED
      BY <2>1, <3>1
  <2>2. CASE k # at
    <3>1. k \in 1 .. at - 1
      BY <1>0, <2>2
    <3>2. PICK i \in 1 .. n : queue[i] = layout.parts[k]
      BY <1>3, <3>1
    <3>3. CASE i <= p
      <4>1. i \in 1 .. n + 1 /\ q[i] = queue[i]
        BY <1>1, <3>3
      <4>2. QED
        BY <3>2, <4>1
    <3>4. CASE i > p
      <4>1. i + 1 \in 1 .. n + 1 /\ q[i + 1] = queue[i]
        BY <1>1, <3>4
      <4>2. QED
        BY <3>2, <4>1
    <3>5. QED
      BY <1>1, <3>3, <3>4
  <2>3. QED
    BY <2>1, <2>2
<1>6. QED
  BY <1>1, <1>4, <1>5 DEF Holds, q

\* queue_db puts the extent where it belongs.
LEMMA QueueStep ==
    ASSUME Making, queue_db
    PROVE  Queued'
<1> DEFINE e == layout.parts[at]
           n == Len(queue)
<1>1. /\ phase = "queue" /\ at <= Len(layout.parts) /\ at' = at + 1
      /\ UNCHANGED <<layout, phase>>
  BY DEF queue_db, given
<1>2. TypeOK /\ Laid /\ Sorted(queue) /\ Holds(queue, at - 1)
  BY <1>1 DEF Making, Queued, Given, Busy
<1>3. n \in Nat /\ at \in Nat \ {0} /\ Len(layout.parts) \in Nat
      /\ layout.parts[at] \in Extent
      /\ \A i \in 1 .. n : queue[i] \in Extent
  BY <1>1, <1>2, QueueNow
<1>4. e \in Extent /\ e.block \in Nat /\ End(e) \in Nat /\ e.block < End(e)
      /\ \A i \in 1 .. n : queue[i].block \in Nat /\ End(queue[i]) \in Nat
                           /\ queue[i].block < End(queue[i])
  BY <1>3, EndType DEF Extent
<1>5. \A i \in 1 .. n : Apart(queue[i], e)
  <2>1. SUFFICES ASSUME NEW i \in 1 .. n PROVE Apart(queue[i], e)
    OBVIOUS
  <2>2. PICK k \in 1 .. at - 1 : queue[i] = layout.parts[k]
    BY <1>2 DEF Holds
  <2>3. k \in 1 .. Len(layout.parts) /\ at \in 1 .. Len(layout.parts) /\ k # at
    BY <1>1, <1>3
  <2>4. QED
    BY <1>2, <2>2, <2>3, LayoutsOK DEF Laid, Fits
<1> HIDE DEF e
<1>6. PICK p \in 0 .. n :
        /\ queue' = Inserted(e, p)
        /\ \A i \in 1 .. p : queue[i].block <= e.block
        /\ p < n => queue[p + 1].block >= e.block
  <2>1. CASE queue = <<>>
    <3>1. queue' = <<e>> /\ n = 0
      BY <2>1, <1>3 DEF queue_db, e
    <3>2. Inserted(e, 0) = <<e>>
      <4>1. Inserted(e, 0) = [j \in 1 .. 1 |-> e]
        BY <3>1 DEF Inserted
      <4>2. QED
        BY <4>1
    <3>3. 0 \in 0 .. n /\ ~(0 < n)
      BY <3>1
    <3>4. QED
      BY <3>1, <3>2, <3>3
  <2>2. CASE queue # <<>> /\ queue[1].block > e.block
    <3>1. 1 \in 1 .. n /\ 0 \in 0 .. n
      BY <2>2, <1>2, QueueNow
    <3>2. queue' = Inserted(e, 0)
      BY <2>2, <3>1, <1>4 DEF queue_db, e
    <3>3. queue[0 + 1].block >= e.block
      BY <2>2, <3>1, <1>4
    <3>4. QED
      BY <3>1, <3>2, <3>3
  <2>3. CASE queue # <<>> /\ ~(queue[1].block > e.block)
    <3>1. 1 \in 1 .. n
      BY <2>3, <1>2, QueueNow
    <3>2. queue' = Inserted(e, Behind(e))
      BY <2>3, <3>1, <1>4 DEF queue_db, e
    <3>3. /\ StartAt(e) \in 1 .. n /\ Behind(e) \in StartAt(e) .. n
          /\ Behind(e) < n => queue[Behind(e) + 1].block >= e.block
          /\ \A j \in StartAt(e) .. Behind(e) - 1 : queue[j + 1].block < e.block
      BY <2>3, <1>2, <1>4, PlaceFound
    <3>4. queue[StartAt(e)].block <= e.block
      BY <2>3, <3>1, <3>3, <1>4 DEF StartAt
    <3>5. ASSUME NEW i \in 1 .. Behind(e) PROVE queue[i].block <= e.block
      <4>1. i \in 1 .. n
        BY <3>3
      <4>2. CASE i < StartAt(e)
        <5>1. End(queue[i]) <= queue[StartAt(e)].block
          BY <4>1, <4>2, <3>3, <1>2 DEF Sorted
        <5>2. StartAt(e) \in 1 .. n
          BY <3>3
        <5>3. queue[i].block < End(queue[i]) /\ queue[i].block \in Nat
              /\ queue[StartAt(e)].block \in Nat /\ e.block \in Nat /\ End(queue[i]) \in Nat
          BY <4>1, <5>2, <1>4
        <5>4. QED
          BY <5>1, <5>3, <3>4
      <4>3. CASE i = StartAt(e)
        BY <4>3, <3>4
      <4>4. CASE i > StartAt(e)
        <5>1. i - 1 \in StartAt(e) .. Behind(e) - 1 /\ (i - 1) + 1 = i
          BY <4>4, <3>3
        <5>2. queue[i].block < e.block
          BY <5>1, <3>3
        <5>3. QED
          BY <5>2, <4>1, <1>4
      <4>5. QED
        BY <3>3, <4>2, <4>3, <4>4
    <3>6. Behind(e) \in 0 .. n
      BY <3>3
    <3>7. QED
      BY <3>2, <3>3, <3>5, <3>6
  <2>4. QED
    BY <2>1, <2>2, <2>3
<1>7. \A i \in 1 .. p : End(queue[i]) <= e.block
  <2>1. SUFFICES ASSUME NEW i \in 1 .. p PROVE End(queue[i]) <= e.block
    OBVIOUS
  <2>2. i \in 1 .. n /\ queue[i].block <= e.block
    BY <1>3, <1>6
  <2>3. QED
    BY <2>2, <1>4, <1>5 DEF Apart
<1>8. \A i \in p + 1 .. n : End(e) <= queue[i].block
  <2>1. SUFFICES ASSUME NEW i \in p + 1 .. n PROVE End(e) <= queue[i].block
    OBVIOUS
  <2>2. i \in 1 .. n /\ p + 1 \in 1 .. n /\ p < n
    BY <1>3
  <2>3. queue[p + 1].block >= e.block
    BY <2>2, <1>6
  <2>4. i = p + 1 \/ End(queue[p + 1]) <= queue[i].block
    BY <2>2, <1>2 DEF Sorted
  <2>5. queue[i].block >= e.block
    BY <2>2, <2>3, <2>4, <1>4
  <2>6. QED
    BY <2>2, <2>5, <1>4, <1>5 DEF Apart
<1>9. Sorted(queue')
  BY <1>2, <1>4, <1>6, <1>7, <1>8, InsertSorted
<1>10. Holds(queue', at)
  BY <1>1, <1>2, <1>6, InsertHolds DEF e
<1>11. Given' = at /\ Holds(queue, Given)' /\ Sorted(queue)'
  <2>1. Given' = at
    BY <1>1, <1>3 DEF Given
  <2>2. QED
    BY <2>1, <1>1, <1>9, <1>10 DEF Holds, Sorted
<1>12. QED
  BY <1>1, <1>11 DEF Queued

-----------------------------------------------------------------------------
(* The inductive invariant is kept, part by part. *)

\* What simg2img and damage leave alone.
Aside == \/ StartReader \/ ReadChunk \/ SeekLoses \/ EndReader \/ EndLoses \/ ReaderDies
         \/ Damage \/ UNCHANGED vars

LEMMA AsideKeeps ==
    ASSUME TypeOK, Aside
    PROVE  /\ UNCHANGED <<layout, format, heap, unmapped>>
           /\ UNCHANGED <<queue, last, phase, at, ptr, sum, why, head, flat>>
<1>1. CASE UNCHANGED vars
  BY <1>1 DEF vars, writer, file, given
<1>2. CASE StartReader \/ EndReader \/ EndLoses \/ ReaderDies
  BY <1>2 DEF StartReader, EndReader, EndLoses, ReaderDies, writer, file, given
<1>3. CASE ReadChunk
  <2>1. UNCHANGED <<given, writer, file>>
    BY <1>3, CountedFed DEF ReadChunk
  <2>2. QED
    BY <2>1 DEF writer, file, given
<1>4. CASE SeekLoses
  <2>1. UNCHANGED <<given, writer, file>>
    BY <1>4, CountedFed DEF SeekLoses
  <2>2. QED
    BY <2>1 DEF writer, file, given
<1>5. CASE Damage
  BY <1>5 DEF Damage, writer, given
<1>6. QED
  BY <1>1, <1>2, <1>3, <1>4, <1>5 DEF Aside

\* What is to be made never changes.
LEMMA Fixed ==
    ASSUME TypeOK, [Next]_vars
    PROVE  /\ layout' = layout /\ format' = format /\ unmapped' = unmapped
           /\ Want' = Want /\ Wanted' = Wanted /\ Possible' = Possible
<1>1. layout' = layout /\ format' = format /\ unmapped' = unmapped
  <2>1. CASE Aside
    BY <2>1, AsideKeeps
  <2>2. CASE WriteSuper \/ WriteDesc
    BY <2>2 DEF WriteSuper, WriteDesc, Write, given
  <2>3. CASE WriteData
    BY <2>3 DEF WriteData, Write, given
  <2>4. CASE Begin \/ queue_db \/ open_output_file
    BY <2>4 DEF Begin, queue_db, open_output_file, given
  <2>5. CASE pad_output_file \/ close_output_file \/ WriterDies \/ CloseLoses
    BY <2>5 DEF pad_output_file, close_output_file, WriterDies, CloseLoses, given
  <2>6. QED
    BY <2>1, <2>2, <2>3, <2>4, <2>5 DEF Next, Work, Aside
<1>2. Want' = Want
  BY <1>1 DEF Want
<1>3. \A e : PastEnd(e)' = PastEnd(e)
  BY <1>1 DEF PastEnd
<1>4. Wanted' = Wanted
  BY <1>1, <1>2 DEF Wanted
<1>5. Possible' = Possible
  BY <1>1, <1>2 DEF Possible, Writable, PastEnd
<1>6. QED
  BY <1>1, <1>2, <1>4, <1>5

\* Steps of make_ext4fs between opening and closing its file.
LEMMA SuperStep ==
    ASSUME Making, WriteSuper
    PROVE  /\ phase = "super" /\ at' = at /\ at = 1
           /\ UNCHANGED <<layout, format, queue, head>>
           /\ \/ phase' = "failed" /\ why' \in {why, "end", "map"}
              \/ /\ why' = why /\ phase' = "desc"
                 /\ ptr' = End(Super(layout))
                 /\ format = "sparse" => sum' = Upto(ptr')
                 /\ format # "sparse" =>
                      flat' = [b \in Places |-> IF b < ptr' THEN Want[b] ELSE Zero]
<1>1. phase = "super" /\ at' = at /\ at = 1 /\ Write(Super(layout), "desc")
  BY DEF WriteSuper, Making, Reached
<1>2. ptr = 0 /\ Super(layout) \in Extents(layout) /\ Clear(ptr, Super(layout).block)
  BY <1>1, FirstExtent
<1>3. ptr <= Super(layout).block
  BY <1>2, ExtentsInside DEF Making
<1>4. QED
  BY <1>1, <1>2, <1>3, WriteNext

LEMMA DescStep ==
    ASSUME Making, WriteDesc
    PROVE  /\ phase = "desc" /\ at' = at /\ at = 1
           /\ UNCHANGED <<layout, format, queue, head>>
           /\ \/ phase' = "failed" /\ why' \in {why, "end", "map"}
              \/ /\ why' = why /\ phase' = "data"
                 /\ ptr' = End(Desc(layout))
                 /\ format = "sparse" => sum' = Upto(ptr')
                 /\ format # "sparse" =>
                      flat' = [b \in Places |-> IF b < ptr' THEN Want[b] ELSE Zero]
<1>1. phase = "desc" /\ at' = at /\ at = 1 /\ Write(Desc(layout), "data")
  BY DEF WriteDesc, Making, Reached
<1>2. ptr = Desc(layout).block /\ Desc(layout) \in Extents(layout)
      /\ Clear(ptr, Desc(layout).block)
  BY <1>1, SecondExtent
<1>3. ptr <= Desc(layout).block
  BY <1>2, ExtentsInside DEF Making
<1>4. QED
  BY <1>1, <1>2, <1>3, WriteNext

LEMMA DataStep ==
    ASSUME Making, WriteData
    PROVE  /\ phase = "data" /\ at' = at + 1 /\ at <= Len(queue)
           /\ UNCHANGED <<layout, format, queue, head>>
           /\ \/ phase' = "failed" /\ why' \in {why, "end", "map"}
              \/ /\ Writable(queue[at])
                 /\ why' = why /\ phase' = "data"
                 /\ ptr' = End(queue[at])
                 /\ format = "sparse" => sum' = Upto(ptr')
                 /\ format # "sparse" =>
                      flat' = [b \in Places |-> IF b < ptr' THEN Want[b] ELSE Zero]
<1>1. phase = "data" /\ at' = at + 1 /\ at <= Len(queue)
  BY DEF WriteData
<1>2. /\ queue[at] \in Extents(layout) /\ ~OutOfOrder
      /\ ptr <= queue[at].block /\ Clear(ptr, queue[at].block)
  BY <1>1, NextExtent
<1>3. Write(queue[at], "data")
  BY <1>2 DEF WriteData
<1>4. QED
  BY <1>1, <1>2, <1>3, WriteNext

LEMMA PadStep ==
    ASSUME Making, pad_output_file
    PROVE  /\ phase = "data" /\ UNCHANGED <<layout, format, queue, at, head>>
           /\ \/ phase' = "failed" /\ why' \in {why, "pad"}
              \/ /\ phase' = "close" /\ why' = why /\ Possible
                 /\ format = "sparse" => ptr' = NumBlocks /\ sum' = Want
                 /\ format # "sparse" => flat' = Wanted
<1>1. /\ phase = "data" /\ at > Len(queue)
      /\ UNCHANGED <<layout, format, queue, at>>
      /\ phase' = IF why' = "none" THEN "close" ELSE "failed"
  BY DEF pad_output_file, given
<1>2. Clear(ptr, NumBlocks) /\ \A p \in Parts(layout) : Writable(p)
  BY <1>1, NoExtent
<1>3. ptr \in Nat /\ ptr <= NumBlocks /\ NumBlocks \in Nat \ {0} /\ Places = 0 .. NumBlocks - 1
  BY BlocksOK DEF Making, TypeOK, Places
<1>4. \A b \in Places : b >= ptr => Want[b] = Zero
  <2>1. SUFFICES ASSUME NEW b \in Places, b >= ptr PROVE Want[b] = Zero
    OBVIOUS
  <2>2. \A e \in Extents(layout) : b \notin Blocks(e)
    BY <1>2, <1>3, <2>1 DEF Clear
  <2>3. QED
    BY <2>2, WantOut
<1>5. CASE Fails("pad")
  BY <1>1, <1>5 DEF Fails, file
<1>6. CASE /\ format = "sparse" /\ ~layout.ragged
           /\ sum' = Fed(sum, ptr, Empty, NumBlocks)
           /\ ptr' = NumBlocks
           /\ UNCHANGED <<head, flat, why>>
  <2>1. sum = Upto(ptr)
    BY <1>1, <1>6 DEF Making, Streamed, Busy
  <2>2. \A b \in 0 .. NumBlocks - 1 : (IF b < ptr THEN sum[b] ELSE Empty[b]) = Want[b]
    BY <1>3, <1>4, <2>1 DEF Upto, Empty
  <2>3. Want = [b \in 0 .. NumBlocks - 1 |-> Want[b]]
    BY <1>3 DEF Want
  <2>4. sum' = Want
    BY <1>6, <2>2, <2>3 DEF Fed
  <2>5. Possible
    BY <1>2, <1>6 DEF Possible
  <2>6. QED
    BY <1>1, <1>6, <2>4, <2>5
<1>7. CASE /\ format # "sparse"
           /\ format = "gz" /\ flat[LastBlock].full => layout.ragged
           /\ flat' = IF layout.ragged THEN flat ELSE Dented(flat)
           /\ UNCHANGED <<ptr, sum, head, chunks, why>>
  <2>1. flat = [b \in Places |-> IF b < ptr THEN Want[b] ELSE Zero]
    BY <1>1, <1>7 DEF Making, Streamed
  <2>2. \A b \in Places : (IF b < ptr THEN Want[b] ELSE Zero) = Want[b]
    BY <1>3, <1>4
  <2>3. Want = [b \in Places |-> Want[b]]
    BY DEF Want
  <2>4. flat = Want
    BY <2>1, <2>2, <2>3
  <2>5. flat' = Wanted
    BY <1>7, <2>4 DEF Wanted
  <2>6. Possible
    BY <1>2, <1>7, <2>4 DEF Possible
  <2>7. QED
    BY <1>1, <1>7, <2>5, <2>6
<1>8. QED
  BY <1>5, <1>6, <1>7 DEF pad_output_file

LEMMA QueuedStep ==
    ASSUME Making, [Next]_vars
    PROVE  Queued'
<1>1. CASE Aside
  BY <1>1, AsideKeeps DEF Making, Queued, Given, Holds, Sorted, Busy
<1>2. CASE Begin
  <2>1. phase' = "queue" /\ at' = 1 /\ queue' = <<>> /\ layout' = layout
    BY <1>2 DEF Begin, given
  <2>2. Given' = 0 /\ Len(layout.parts) \in Nat /\ Len(queue') = 0
    BY <2>1, QueueNow DEF Given, Making
  <2>3. QED
    BY <2>1, <2>2 DEF Queued, Holds, Sorted
<1>3. CASE queue_db
  BY <1>3, QueueStep
<1>4. CASE open_output_file
  <2>1. /\ phase = "queue" /\ at > Len(layout.parts) /\ phase' = "super"
        /\ UNCHANGED <<layout, queue>>
    BY <1>4 DEF open_output_file, given
  <2>2. Given = at - 1 /\ Given <= Len(layout.parts) /\ Holds(queue, Given) /\ Sorted(queue)
    BY <2>1 DEF Making, Queued, Given, Busy
  <2>3. at \in Nat /\ Len(layout.parts) \in Nat
    BY QueueNow DEF Making
  <2>4. Given' = Len(layout.parts) /\ Given = Len(layout.parts)
    BY <2>1, <2>2, <2>3 DEF Given
  <2>5. QED
    BY <2>1, <2>2, <2>3, <2>4 DEF Queued, Holds, Sorted
<1>5. CASE /\ UNCHANGED <<layout, queue>>
           /\ phase \in {"super", "desc", "data"} /\ phase' # "queue"
  <2>1. Given = Len(layout.parts) /\ Holds(queue, Given) /\ Sorted(queue)
    BY <1>5 DEF Making, Queued, Given, Busy
  <2>2. Given' = Len(layout.parts) /\ Len(layout.parts) \in Nat
    BY <1>5, QueueNow DEF Given, Making
  <2>3. Holds(queue, Given)' /\ Sorted(queue)'
    BY <1>5, <2>1, <2>2 DEF Holds, Sorted
  <2>4. QED
    BY <1>5, <2>2, <2>3 DEF Queued
<1>6. CASE WriteSuper
  BY <1>5, <1>6, SuperStep
<1>7. CASE WriteDesc
  BY <1>5, <1>7, DescStep
<1>8. CASE WriteData
  BY <1>5, <1>8, DataStep
<1>9. CASE pad_output_file
  BY <1>5, <1>9, PadStep
<1>10. CASE close_output_file \/ WriterDies \/ CloseLoses
  BY <1>10 DEF close_output_file, WriterDies, CloseLoses, Queued, Busy
<1>11. QED
  BY <1>1, <1>2, <1>3, <1>4, <1>6, <1>7, <1>8, <1>9, <1>10 DEF Next, Work, Aside

LEMMA ReachedStep ==
    ASSUME Making, [Next]_vars
    PROVE  Reached'
<1>0. at \in Nat \ {0} /\ Len(queue) \in Nat
  BY QueueNow DEF Making
<1>1. CASE Aside
  BY <1>1, AsideKeeps DEF Making, Reached, Frontier, Busy, Writable, PastEnd
<1>2. CASE Begin
  BY <1>2 DEF Begin, Reached, Frontier
<1>3. CASE queue_db
  <2>1. phase = "queue" /\ phase' = "queue" /\ ptr' = ptr
    BY <1>3 DEF queue_db
  <2>2. ptr = 0
    BY <2>1 DEF Making, Reached, Frontier, Busy
  <2>3. QED
    BY <2>1, <2>2 DEF Reached, Frontier
<1>4. CASE open_output_file
  <2>1. phase = "queue" /\ phase' = "super" /\ ptr' = ptr /\ at' = 1
    BY <1>4 DEF open_output_file
  <2>2. ptr = 0
    BY <2>1 DEF Making, Reached, Frontier, Busy
  <2>3. QED
    BY <2>1, <2>2 DEF Reached, Frontier
<1>5. CASE WriteSuper
  <2>9. layout' = layout /\ at' = at /\ at = 1
    BY <1>5, SuperStep
  <2>1. phase' = "failed" \/ (phase' = "desc" /\ ptr' = End(Super(layout)))
    BY <1>5, SuperStep
  <2>0. at' = 1
    BY <1>0, <2>9
  <2>2. CASE phase' = "failed"
    BY <2>2 DEF Reached, Busy
  <2>3. CASE phase' = "desc" /\ ptr' = End(Super(layout))
    <3>1. Frontier' = End(Super(layout))
      BY <2>0, <2>9, <2>3 DEF Frontier
    <3>2. QED
      BY <2>0, <2>1, <2>3, <3>1 DEF Reached
  <2>4. QED
    BY <2>1, <2>2, <2>3
<1>6. CASE WriteDesc
  <2>9. layout' = layout /\ queue' = queue /\ at' = at /\ at = 1
    BY <1>6, DescStep
  <2>1. phase' = "failed" \/ (phase' = "data" /\ ptr' = End(Desc(layout)))
    BY <1>6, DescStep
  <2>0. at' = 1
    BY <1>0, <2>9
  <2>2. CASE phase' = "failed"
    BY <2>2 DEF Reached, Busy
  <2>3. CASE phase' = "data" /\ ptr' = End(Desc(layout))
    <3>1. Frontier' = End(Desc(layout))
      BY <2>0, <2>9, <2>3 DEF Frontier
    <3>2. 1 .. at' - 1 = {}
      BY <2>0
    <3>3. QED
      BY <1>0, <2>0, <2>1, <2>3, <3>1, <3>2 DEF Reached
  <2>4. QED
    BY <2>1, <2>2, <2>3
<1>7. CASE WriteData
  <2>1. /\ at' = at + 1 /\ at <= Len(queue) /\ layout' = layout /\ queue' = queue
        /\ phase = "data"
        /\ \/ phase' = "failed"
           \/ phase' = "data" /\ ptr' = End(queue[at]) /\ Writable(queue[at])
    BY <1>7, DataStep
  <2>2. CASE phase' = "failed"
    BY <2>2 DEF Reached, Busy
  <2>3. CASE phase' = "data" /\ ptr' = End(queue[at]) /\ Writable(queue[at])
    <3>1. Frontier' = End(queue[at])
      BY <1>0, <2>1, <2>3 DEF Frontier
    <3>2. \A i \in 1 .. at - 1 : Writable(queue[i])
      BY <2>1 DEF Making, Reached
    <3>3. \A i \in 1 .. at' - 1 : Writable(queue[i])
      BY <1>0, <2>1, <2>3, <3>2
    <3>4. \A i \in 1 .. at' - 1 : Writable(queue[i])'
      BY <2>1, <3>3, Fixed DEF Making, Writable, PastEnd
    <3>5. at' <= Len(queue') + 1
      BY <1>0, <2>1
    <3>6. QED
      BY <2>1, <2>3, <3>1, <3>4, <3>5 DEF Reached
  <2>4. QED
    BY <2>1, <2>2, <2>3
<1>8. CASE pad_output_file \/ close_output_file \/ WriterDies \/ CloseLoses
  <2>1. phase' \in {"close", "done", "failed"}
    BY <1>8 DEF pad_output_file, close_output_file, WriterDies, CloseLoses
  <2>2. QED
    BY <2>1 DEF Reached, Busy
<1>9. QED
  BY <1>1, <1>2, <1>3, <1>4, <1>5, <1>6, <1>7, <1>8 DEF Next, Work, Aside

LEMMA StreamedStep ==
    ASSUME Making, [Next]_vars
    PROVE  Streamed'
<1>0. /\ layout' = layout /\ format' = format
      /\ Want' = Want /\ Wanted' = Wanted /\ Possible' = Possible
      /\ \A n : Upto(n)' = Upto(n)
  <2>1. layout' = layout /\ format' = format
        /\ Want' = Want /\ Wanted' = Wanted /\ Possible' = Possible
    BY Fixed DEF Making
  <2>2. QED
    BY <2>1 DEF Upto
<1>1. CASE Aside
  <2>1. UNCHANGED <<phase, ptr, sum, flat>>
    BY <1>1, AsideKeeps DEF Making
  <2>2. Upto(ptr)' = Upto(ptr)
    BY <2>1, <1>0 DEF Upto
  <2>3. QED
    BY <1>0, <2>1, <2>2 DEF Making, Streamed
<1>2. CASE Begin
  <2>1. phase' = "queue" /\ ptr' = 0 /\ sum' = None
    BY <1>2 DEF Begin
  <2>2. Upto(ptr)' = None
    <3>1. Upto(ptr)' = [b \in 0 .. 0 - 1 |-> Want[b]]
      BY <1>0, <2>1 DEF Upto
    <3>2. 0 .. 0 - 1 = {} /\ 0 .. -1 = {}
      OBVIOUS
    <3>3. QED
      BY <3>1, <3>2 DEF None
  <2>3. QED
    BY <2>1, <2>2 DEF Streamed
<1>3. CASE queue_db
  <2>1. phase = "queue" /\ phase' = "queue" /\ UNCHANGED <<ptr, sum>>
    BY <1>3 DEF queue_db
  <2>2. Upto(ptr)' = Upto(ptr)
    BY <2>1, <1>0 DEF Upto
  <2>3. QED
    BY <1>0, <2>1, <2>2 DEF Making, Streamed, Busy
<1>4. CASE open_output_file
  <2>1. phase = "queue" /\ phase' = "super" /\ UNCHANGED <<ptr, sum>> /\ flat' = Empty
    BY <1>4 DEF open_output_file
  <2>2. ptr = 0
    BY <2>1 DEF Making, Reached, Frontier, Busy
  <2>3. Upto(ptr)' = Upto(ptr)
    BY <2>1, <1>0 DEF Upto
  <2>4. Empty = [b \in Places |-> IF b < 0 THEN Want[b] ELSE Zero]
    BY BlocksOK DEF Empty, Places
  <2>5. flat' = [b \in Places |-> IF b < ptr' THEN Want'[b] ELSE Zero]
    BY <1>0, <2>1, <2>2, <2>4
  <2>6. QED
    BY <1>0, <2>1, <2>3, <2>5 DEF Making, Streamed, Busy
<1>5. CASE /\ phase' \in {"desc", "data"}
           /\ format = "sparse" => sum' = Upto(ptr')
           /\ format # "sparse" =>
                flat' = [b \in Places |-> IF b < ptr' THEN Want[b] ELSE Zero]
  <2>1. Upto(ptr)' = Upto(ptr')
    BY <1>0 DEF Upto
  <2>2. QED
    BY <1>0, <1>5, <2>1 DEF Streamed
<1>6. CASE phase' = "failed"
  BY <1>6 DEF Streamed, Busy
<1>7. CASE WriteSuper
  BY <1>5, <1>6, <1>7, SuperStep
<1>8. CASE WriteDesc
  BY <1>5, <1>6, <1>8, DescStep
<1>9. CASE WriteData
  BY <1>5, <1>6, <1>9, DataStep
<1>10. CASE pad_output_file
  <2>1. \/ phase' = "failed"
        \/ /\ phase' = "close" /\ Possible
           /\ format = "sparse" => ptr' = NumBlocks /\ sum' = Want
           /\ format # "sparse" => flat' = Wanted
    BY <1>10, PadStep
  <2>2. QED
    BY <1>0, <1>6, <2>1 DEF Streamed, Busy
<1>11. CASE close_output_file
  <2>1. phase' = "done"
    BY <1>11 DEF close_output_file
  <2>2. QED
    BY <2>1 DEF Streamed, Busy
<1>12. CASE WriterDies
  BY <1>6, <1>12 DEF WriterDies
<1>14. CASE CloseLoses
  <2>1. phase' = "done"
    BY <1>14 DEF CloseLoses
  <2>2. QED
    BY <2>1 DEF Streamed, Busy
<1>13. QED
  BY <1>14, <1>1, <1>2, <1>3, <1>4, <1>7, <1>8, <1>9, <1>10, <1>11, <1>12 DEF Next, Work, Aside

LEMMA InOrderStep ==
    ASSUME Making, [Next]_vars
    PROVE  InOrder'
<1>0. InOrder
  BY DEF Making
<1>1. CASE Aside
  BY <1>0, <1>1, AsideKeeps DEF InOrder, Making
<1>2. CASE WriteSuper
  BY <1>0, <1>2, SuperStep DEF InOrder
<1>3. CASE WriteDesc
  BY <1>0, <1>3, DescStep DEF InOrder
<1>4. CASE WriteData
  BY <1>0, <1>4, DataStep DEF InOrder
<1>5. CASE pad_output_file
  BY <1>0, <1>5, PadStep DEF InOrder
<1>6. CASE Begin \/ queue_db \/ open_output_file \/ close_output_file \/ WriterDies \/ CloseLoses
  BY <1>0, <1>6 DEF InOrder, Begin, queue_db, open_output_file, close_output_file, WriterDies, CloseLoses
<1>7. QED
  BY <1>1, <1>2, <1>3, <1>4, <1>5, <1>6 DEF Next, Work, Aside

LEMMA MakingInit == Init => Making
<1> SUFFICES ASSUME Init PROVE Making
  OBVIOUS
<1>1. TypeOK
  BY TypeInit
<1>2. phase = "idle" /\ why = "none" /\ layout \in Layouts
  BY DEF Init
<1>3. QED
  BY <1>1, <1>2 DEF Making, Laid, Queued, Reached, Streamed, InOrder, Busy

LEMMA MakingStep == Making /\ [Next]_vars => Making'
<1> SUFFICES ASSUME Making, [Next]_vars PROVE Making'
  OBVIOUS
<1>1. TypeOK'
  BY TypeStep DEF Making
<1>2. Laid'
  BY Fixed DEF Making, Laid
<1>3. QED
  BY <1>1, <1>2, QueuedStep, ReachedStep, StreamedStep, InOrderStep DEF Making

\* Queued in any order, the extents are written in block order: no write is
\* refused as out of order.
THEOREM WrittenInOrder == Spec => []InOrder
<1>1. Making => InOrder
  BY DEF Making
<1>2. QED
  BY <1>1, MakingInit, MakingStep, PTL DEF Spec

-----------------------------------------------------------------------------
(* simg2img. *)

\* Only close_output_file writes a checksum, and only for the whole image.
LEMMA VouchedStep ==
    ASSUME Making, Vouched, Reread, [Next]_vars
    PROVE  Vouched'
<1>0. /\ layout' = layout /\ format' = format
      /\ Want' = Want /\ Wanted' = Wanted /\ Possible' = Possible
  BY Fixed DEF Making
<1>1. CASE WriteSuper
  <2>1. UNCHANGED head /\ phase = "super" /\ phase' \in {"desc", "failed"}
    BY <1>1, SuperStep
  <2>2. UNCHANGED reader
    BY <1>1 DEF WriteSuper, Write, simg2img
  <2>3. QED
    BY <1>0, <2>1, <2>2 DEF Vouched
<1>2. CASE WriteDesc
  <2>1. UNCHANGED head /\ phase = "desc" /\ phase' \in {"data", "failed"}
    BY <1>2, DescStep
  <2>2. UNCHANGED reader
    BY <1>2 DEF WriteDesc, Write, simg2img
  <2>3. QED
    BY <1>0, <2>1, <2>2 DEF Vouched
<1>3. CASE WriteData
  <2>1. UNCHANGED head /\ phase = "data" /\ phase' \in {"data", "failed"}
    BY <1>3, DataStep
  <2>2. UNCHANGED reader
    BY <1>3 DEF WriteData, Write, simg2img
  <2>3. QED
    BY <1>0, <2>1, <2>2 DEF Vouched
<1>4. CASE pad_output_file
  <2>1. UNCHANGED head /\ phase = "data" /\ phase' \in {"close", "failed"}
    BY <1>4, PadStep
  <2>2. UNCHANGED reader
    BY <1>4 DEF pad_output_file, simg2img
  <2>3. QED
    BY <1>0, <2>1, <2>2 DEF Vouched
<1>5. CASE close_output_file \/ CloseLoses
  <2>1. /\ phase = "close" /\ phase' = "done" /\ UNCHANGED reader
        /\ head' \in {head, Complete} /\ (format # "sparse" => UNCHANGED head)
        /\ format # "sparse" => lost' \/ UNCHANGED flat
    BY <1>5 DEF close_output_file, CloseLoses, simg2img, Complete
  <2>2. CASE format = "sparse"
    <3>1. sum = Want /\ Possible /\ head.blks = NumBlocks
      BY <2>1, <2>2 DEF Making, Streamed, Vouched
    <3>2. Complete = [head EXCEPT !.chunks = Len(chunks), !.sum = sum]
      BY <2>2 DEF Complete
    <3>3. Complete.blks = NumBlocks /\ Complete.sum = Want
      <4>1. PICK k \in 0 .. NumBlocks :
              head \in [blks : {0, NumBlocks}, chunks : Nat, sum : [0 .. k - 1 -> Content]]
        BY DEF Making, TypeOK, Header
      <4>2. QED
        BY <3>1, <3>2, <4>1
    <3>4. head'.blks = NumBlocks /\ (head'.sum # None => head'.sum = Want)
      BY <2>1, <3>1, <3>3 DEF Vouched
    <3>5. QED
      BY <1>0, <2>1, <2>2, <3>1, <3>4 DEF Vouched
  <2>3. CASE format # "sparse"
    <3>1. UNCHANGED head /\ Possible /\ (lost' \/ flat' = Wanted)
      BY <2>1, <2>3 DEF Making, Streamed
    <3>2. QED
      BY <1>0, <2>1, <2>3, <3>1 DEF Vouched
  <2>4. QED
    BY <2>2, <2>3
<1>6. CASE Begin
  <2>1. /\ phase' = "queue" /\ UNCHANGED <<head, reader>> /\ reader # "chunks"
        /\ phase \in {"idle", "failed"} \/ reader = "refused"
    BY <1>6 DEF Begin, file, simg2img
  <2>2. QED
    BY <1>0, <2>1 DEF Vouched
<1>7. CASE queue_db
  <2>1. phase = "queue" /\ phase' = "queue" /\ UNCHANGED <<head, reader>>
    BY <1>7 DEF queue_db, file, simg2img
  <2>2. QED
    BY <1>0, <2>1 DEF Vouched
<1>8. CASE open_output_file
  <2>1. /\ phase' = "super" /\ reader' = "idle"
        /\ head' = IF format = "sparse" THEN [blks |-> NumBlocks, chunks |-> 0, sum |-> None]
                   ELSE NoHead
    BY <1>8 DEF open_output_file
  <2>2. head'.sum = None
    BY <2>1 DEF NoHead
  <2>3. format = "sparse" => head'.blks = NumBlocks
    BY <2>1
  <2>4. format # "sparse" => head' = NoHead
    BY <2>1
  <2>5. QED
    BY <1>0, <2>1, <2>2, <2>3, <2>4 DEF Vouched
<1>9. CASE WriterDies
  <2>1. /\ phase' = "failed" /\ phase \notin {"idle", "failed", "done"}
        /\ UNCHANGED reader /\ (UNCHANGED head \/ head' = NoHead)
    BY <1>9 DEF WriterDies, simg2img
  <2>2. NoHead.sum = None
    BY DEF NoHead
  <2>3. QED
    BY <1>0, <2>1, <2>2 DEF Vouched
<1>10. CASE Damage \/ UNCHANGED vars
  <2>1. UNCHANGED <<phase, head, reader, flat, lost>>
    BY <1>10, AsideKeeps DEF Aside, Making, Damage, simg2img, vars
  <2>2. QED
    BY <1>0, <2>1 DEF Vouched
<1>11. CASE StartReader
  <2>1. /\ phase \in {"failed", "done"} /\ format = "sparse" /\ reader = "idle"
        /\ reader' = IF head = NoHead THEN "refused" ELSE "chunks"
        /\ UNCHANGED <<phase, head>>
    BY <1>11 DEF StartReader, writer, file
  <2>2. QED
    BY <1>0, <2>1 DEF Vouched
<1>12. CASE ReadChunk \/ SeekLoses \/ EndReader \/ EndLoses \/ ReaderDies
  <2>1. reader = "chunks" /\ UNCHANGED <<phase, head>>
        /\ reader' \in {"chunks", "accepted", "refused", "idle"}
    <3>1. UNCHANGED <<phase, head>>
      BY <1>12, AsideKeeps DEF Aside, Making
    <3>2. reader = "chunks" /\ reader' \in {"chunks", "accepted", "refused", "idle"}
      BY <1>12 DEF ReadChunk, SeekLoses, Counted, EndReader, EndLoses, ReaderDies
    <3>3. QED
      BY <3>1, <3>2
  <2>2. format = "sparse"
    BY <2>1 DEF Vouched
  <2>3. QED
    BY <1>0, <2>1, <2>2 DEF Vouched
<1>13. QED
  BY <1>1, <1>2, <1>3, <1>4, <1>5, <1>6, <1>7, <1>8, <1>9, <1>10, <1>11, <1>12 DEF Next, Work

\* A file system that a long can span in one step of simg2img's.
Near == WideLong \/ NumBlocks < HalfBlocks

\* simg2img goes where its chunks say.
LEMMA SoughtRight ==
    ASSUME Near, NEW p \in Int, NEW n \in 0 .. NumBlocks
    PROVE  Sought(p, n) = p + n
BY BlocksOK, SeekOK DEF Near, Sought

\* No block of the file system looks like what malloc may hand out.
LEMMA WantClean ==
    ASSUME NEW b \in Places
    PROVE  Want[b] # Dirt
<1>1. b # NumBlocks
  BY BlocksOK DEF Places
<1>2. Zero # Dirt
  BY DEF Zero, Dirt
<1>3. \A e : Cell(e, b) # Dirt
  BY <1>1 DEF Cell, Dirt
<1>4. QED
  BY <1>2, <1>3 DEF Want

\* A chunk is written where the checksum says, a gap left as zeros.
LEMMA ReadCovers ==
    ASSUME Near, TypeOK, ReadChunk, Readable, pos = total, Covers(rsum, total)
    PROVE  pos' = total' /\ Covers(rsum, total)'
<1> DEFINE c == chunks[chunk]
<1>1. /\ total \in Nat /\ total' = total + c.len /\ total' \in Nat
      /\ rsum' = [b \in 0 .. total' - 1 |-> IF b < total THEN rsum[b]
                    ELSE IF c.kind = "raw" THEN c.data[b - total + 1] ELSE zerobuf]
  BY CountedFed DEF ReadChunk
<1>2. c.len \in 0 .. NumBlocks /\ c.len \in Nat
  BY ChunkNow
<1>3. Places = 0 .. NumBlocks - 1 /\ NumBlocks \in Nat /\ zerobuf \in {Zero, Dirt}
  BY BlocksOK DEF Places, TypeOK
<1>4. \/ /\ c.kind = "raw"
         /\ pos' = pos + c.len
         /\ out' = [b \in Places |-> IF b \in pos .. pos + c.len - 1
                                     THEN c.data[b - pos + 1] ELSE out[b]]
      \/ /\ c.kind = "skip"
         /\ pos' = Sought(pos, c.len)
         /\ UNCHANGED out
  BY DEF ReadChunk
<1> HIDE DEF c
<1>5. pos' = total'
  <2>1. total \in Int /\ Sought(total, c.len) = total + c.len
    BY <1>1, <1>2, SoughtRight
  <2>2. QED
    BY <1>1, <1>4, <2>1
<1>6. ASSUME NEW b \in Places
      PROVE  IF b < total' THEN out'[b] = rsum'[b] \/ (out'[b] = Zero /\ rsum'[b] = Dirt)
             ELSE out'[b] = Zero
  <2>1. b \in Int /\ b >= 0
    BY <1>3
  <2>2. IF b < total THEN out[b] = rsum[b] \/ (out[b] = Zero /\ rsum[b] = Dirt)
        ELSE out[b] = Zero
    BY DEF Covers
  <2>3. CASE b < total
    <3>1. b < total' /\ b \in 0 .. total' - 1 /\ b \notin pos .. pos + c.len - 1
      BY <1>1, <1>2, <2>1, <2>3
    <3>2. rsum'[b] = rsum[b]
      BY <1>1, <2>3, <3>1
    <3>3. out'[b] = out[b]
      BY <1>4, <3>1
    <3>4. QED
      BY <2>2, <2>3, <3>1, <3>2, <3>3
  <2>4. CASE b >= total /\ b < total'
    <3>1. b \in pos .. pos + c.len - 1 /\ b \in 0 .. total' - 1 /\ ~(b < total)
      BY <1>1, <1>2, <2>1, <2>4
    <3>2. rsum'[b] = IF c.kind = "raw" THEN c.data[b - total + 1] ELSE zerobuf
      BY <1>1, <3>1
    <3>3. out[b] = Zero
      BY <2>2, <3>1
    <3>4. CASE c.kind = "raw"
      <4>1. out'[b] = c.data[b - total + 1]
        BY <1>4, <3>1, <3>4
      <4>2. QED
        BY <2>4, <3>2, <3>4, <4>1
    <3>5. CASE c.kind # "raw"
      <4>1. out'[b] = Zero /\ rsum'[b] = zerobuf
        BY <1>4, <3>2, <3>3, <3>5
      <4>2. QED
        BY <1>3, <2>4, <4>1
    <3>6. QED
      BY <3>4, <3>5
  <2>5. CASE b >= total'
    <3>1. ~(b < total) /\ ~(b < total') /\ b \notin pos .. pos + c.len - 1
      BY <1>1, <1>2, <2>1, <2>5
    <3>2. out'[b] = Zero
      BY <1>4, <2>2, <3>1
    <3>3. QED
      BY <3>1, <3>2
  <2>6. QED
    BY <1>1, <2>1, <2>3, <2>4, <2>5
<1>7. Covers(rsum, total)'
  BY <1>6 DEF Covers
<1>8. QED
  BY <1>5, <1>7

\* A checksum that agrees is that of the image.
LEMMA AgreesWith ==
    ASSUME TypeOK, Vouched, reader = "chunks", Agrees
    PROVE  /\ phase = "done" /\ Possible
           /\ Covers(rsum, total) => out = Want
<1>t. /\ total \in Nat /\ rsum \in [0 .. total - 1 -> Content]
      /\ NumBlocks \in Nat \ {0} /\ Places = 0 .. NumBlocks - 1
      /\ out \in [Places -> Content]
  BY BlocksOK DEF TypeOK, Places
<1>1. total = NumBlocks /\ head.sum = rsum
  BY DEF Agrees, Vouched
<1>2. rsum # None
  <2>1. DOMAIN rsum = 0 .. NumBlocks - 1 /\ 0 \in DOMAIN rsum
    BY <1>t, <1>1
  <2>2. DOMAIN None = 0 .. -1 /\ 0 \notin DOMAIN None
    BY DEF None
  <2>3. QED
    BY <2>1, <2>2
<1>3. rsum = Want /\ Possible /\ phase = "done"
  BY <1>1, <1>2 DEF Vouched
<1>4. ASSUME Covers(rsum, total), NEW b \in Places
      PROVE  out[b] = Want[b]
  <2>1. b < total
    BY <1>t, <1>1
  <2>2. out[b] = rsum[b] \/ rsum[b] = Dirt
    BY <1>4, <2>1 DEF Covers
  <2>3. QED
    BY <1>3, <2>2, WantClean
<1>5. Want = [b \in Places |-> Want[b]]
  BY DEF Want
<1>6. Covers(rsum, total) => out = Want
  BY <1>t, <1>4, <1>5
<1>7. QED
  BY <1>3, <1>6

LEMMA RereadStep ==
    ASSUME Near, Making, Vouched, Reread, [Next]_vars
    PROVE  Reread'
<1>0. Want' = Want /\ Possible' = Possible /\ TypeOK
  BY Fixed DEF Making
<1>1. CASE /\ UNCHANGED <<simg2img, lost>>
           /\ phase' = phase \/ (reader # "accepted" /\ reader # "chunks")
  <2>1. UNCHANGED <<reader, pos, total, rsum, out, lost>>
    BY <1>1 DEF simg2img
  <2>2. Covers(rsum, total)' <=> Covers(rsum, total)
    BY <2>1 DEF Covers
  <2>3. QED
    BY <1>0, <1>1, <2>1, <2>2 DEF Reread
<1>2. CASE WriteSuper \/ WriteDesc \/ WriteData \/ pad_output_file \/ close_output_file
           \/ WriterDies \/ CloseLoses \/ queue_db
  <2>1. phase \notin {"failed", "done"} /\ UNCHANGED reader
    BY <1>2 DEF WriteSuper, WriteDesc, WriteData, Write, pad_output_file, close_output_file,
                WriterDies, CloseLoses, queue_db, simg2img
  <2>2. reader # "accepted" /\ reader # "chunks"
    BY <2>1 DEF Reread, Vouched
  <2>3. QED
    BY <2>1, <2>2 DEF Reread
<1>3. CASE Begin
  <2>1. UNCHANGED <<simg2img, lost>> /\ reader # "chunks"
        /\ (phase \in {"idle", "failed"} \/ reader = "refused")
    BY <1>3 DEF Begin
  <2>2. QED
    BY <1>1, <2>1 DEF Reread
<1>4. CASE open_output_file
  BY <1>4 DEF open_output_file, Reread
<1>5. CASE Damage \/ UNCHANGED vars
  <2>1. UNCHANGED <<simg2img, lost>> /\ phase' = phase
    BY <1>5 DEF Damage, writer, vars
  <2>2. QED
    BY <1>1, <2>1
<1>6. CASE StartReader
  <2>1. reader' \in {"chunks", "refused"} /\ pos' = 0 /\ total' = 0 /\ out' = Empty
    BY <1>6 DEF StartReader
  <2>2. \A b \in Places : ~(b < 0) /\ out'[b] = Zero
    BY <2>1, BlocksOK DEF Empty, Places
  <2>3. Covers(rsum, total)'
    BY <2>1, <2>2 DEF Covers
  <2>4. QED
    BY <2>1, <2>3 DEF Reread
<1>7. CASE ReadChunk
  <2>1. reader = "chunks" /\ (lost' <=> lost) /\ reader' \in {"chunks", "refused"}
    BY <1>7 DEF ReadChunk, Counted
  <2>2. lost \/ (pos = total /\ Covers(rsum, total))
    BY <2>1 DEF Reread
  <2>3. CASE ~Readable
    BY <1>7, <2>3 DEF ReadChunk, Reread
  <2>4. CASE Readable
    <3>1. lost' \/ (pos' = total' /\ Covers(rsum, total)')
      BY <1>0, <1>7, <2>1, <2>2, <2>4, ReadCovers
    <3>2. QED
      BY <2>1, <3>1 DEF Reread
  <2>5. QED
    BY <2>3, <2>4
<1>8. CASE SeekLoses
  <2>1. lost' /\ reader' = "chunks"
    BY <1>8 DEF SeekLoses, Counted
  <2>2. QED
    BY <2>1 DEF Reread
<1>9. CASE EndReader
  <2>1. /\ reader = "chunks" /\ phase' = phase /\ UNCHANGED <<out, lost>>
        /\ reader' = IF Agrees THEN "accepted" ELSE "refused"
    BY <1>9 DEF EndReader, writer
  <2>2. CASE ~Agrees
    BY <2>1, <2>2 DEF Reread
  <2>3. CASE Agrees
    <3>1. phase = "done" /\ Possible /\ (Covers(rsum, total) => out = Want)
      BY <1>0, <2>1, <2>3, AgreesWith
    <3>2. lost \/ out = Want
      BY <2>1, <3>1 DEF Reread
    <3>3. QED
      BY <1>0, <2>1, <2>3, <3>1, <3>2 DEF Reread
  <2>4. QED
    BY <2>2, <2>3
<1>10. CASE EndLoses
  <2>1. /\ reader = "chunks" /\ phase' = phase /\ lost'
        /\ reader' = IF Agrees THEN "accepted" ELSE "refused"
    BY <1>10 DEF EndLoses, writer
  <2>2. Agrees => phase = "done" /\ Possible
    BY <1>0, <2>1, AgreesWith
  <2>3. QED
    BY <1>0, <2>1, <2>2 DEF Reread
<1>11. CASE ReaderDies
  BY <1>11 DEF ReaderDies, Reread
<1>12. QED
  BY <1>2, <1>3, <1>4, <1>5, <1>6, <1>7, <1>8, <1>9, <1>10, <1>11 DEF Next, Work

IInv == Making /\ Vouched /\ Reread

LEMMA IInvInit == Init => IInv
<1> SUFFICES ASSUME Init PROVE IInv
  OBVIOUS
<1>1. Making
  BY MakingInit
<1>2. head = NoHead /\ reader = "idle" /\ phase = "idle"
  BY DEF Init
<1>3. head.sum = None
  BY <1>2 DEF NoHead
<1>4. QED
  BY <1>1, <1>2, <1>3 DEF IInv, Vouched, Reread

LEMMA IInvStep == Near /\ IInv /\ [Next]_vars => IInv'
BY MakingStep, VouchedStep, RereadStep DEF IInv
-----------------------------------------------------------------------------
(* The image is handed over whole. *)

\* What has been handed over stays.
LEMMA Stays ==
    ASSUME IInv, [Next]_vars, HandedOver
    PROVE  HandedOver' /\ Image' = Image
<1>0. format' = format /\ TypeOK
  BY Fixed DEF IInv, Making
<1>1. phase = "done" /\ (format = "sparse" => reader = "accepted")
      /\ (format # "sparse" => reader = "idle")
  BY DEF HandedOver, IInv, Reread, Vouched
<1>2. CASE Aside
  <2>1. UNCHANGED <<phase, flat>>
    BY <1>0, <1>2, AsideKeeps
  <2>2. format = "sparse" => UNCHANGED <<reader, out>>
    BY <1>1, <1>2 DEF Aside, StartReader, ReadChunk, SeekLoses, EndReader, EndLoses, ReaderDies,
                      Damage, simg2img, vars
  <2>3. QED
    BY <1>0, <2>1, <2>2 DEF HandedOver, Image
<1>3. CASE Begin
  BY <1>1, <1>3 DEF Begin
<1>4. CASE queue_db \/ open_output_file \/ pad_output_file \/ close_output_file \/ WriterDies
           \/ CloseLoses
  BY <1>1, <1>4 DEF queue_db, open_output_file, pad_output_file, close_output_file, WriterDies,
                    CloseLoses
<1>5. CASE WriteSuper \/ WriteDesc \/ WriteData
  BY <1>1, <1>5 DEF WriteSuper, WriteDesc, WriteData
<1>6. QED
  BY <1>2, <1>3, <1>4, <1>5 DEF Next, Work, Aside

\* What is handed over is a file.
LEMMA ImageThere ==
    ASSUME TypeOK', HandedOver'
    PROVE  Image' # Nothing
<1>1. out' \in [Places -> Content] /\ flat' \in [Places -> Content] /\ 0 \in Places
  BY BlocksOK DEF TypeOK, Places
<1>2. Image' = out' \/ Image' = flat'
  BY DEF Image
<1>3. 0 \in DOMAIN Image'
  BY <1>1, <1>2
<1>4. 0 \notin DOMAIN Nothing
  BY DEF Nothing
<1>5. QED
  BY <1>3, <1>4

\* Every step of the two tools is a step of AtomicImage, or none.
LEMMA Refines ==
    ASSUME IInv, IInv', [Next]_vars
    PROVE  [Store!Publish]_(Store!vars)
<1>0. Wanted' = Wanted /\ Possible' = Possible
  BY Fixed DEF IInv, Making
<1>1. CASE HandedOver
  BY <1>0, <1>1, Stays DEF Store!vars
<1>2. CASE ~HandedOver /\ ~HandedOver'
  BY <1>0, <1>2 DEF Image, Nothing, Store!vars
<1>3. CASE ~HandedOver /\ HandedOver'
  <2>1. Image = Nothing
    BY <1>3 DEF Image
  <2>2. Possible' /\ (Image' = Wanted' \/ lost')
    <3>1. IInv'
      OBVIOUS
    <3>2. CASE format' = "sparse"
      BY <1>3, <3>1, <3>2 DEF HandedOver, Image, Wanted, IInv, Reread
    <3>3. CASE format' # "sparse"
      BY <1>3, <3>1, <3>3 DEF HandedOver, Image, IInv, Vouched
    <3>4. QED
      BY <3>2, <3>3
  <2>3. Image' # Nothing
    <3>1. TypeOK' /\ HandedOver'
      BY <1>3 DEF IInv, Making
    <3>2. QED
      BY <3>1, ImageThere
  <2>4. QED
    BY <1>0, <2>1, <2>2, <2>3 DEF Store!Publish
<1>4. QED
  BY <1>1, <1>2, <1>3

\* Whatever the file system, however often a tool died or the file was
\* damaged: what is handed over is exactly the image, and stays it, if a long
\* can span the file system, unless a write of it was lost at a close or a seek
\* that the tools do not look at.
THEOREM HandsOverWhole == Near => (Spec => Atomic)
<1> SUFFICES ASSUME Near PROVE Spec => Atomic
  OBVIOUS
<1>1. Init => Store!Init
  BY DEF Init, Store!Init, Image, HandedOver
<1>2. IInv /\ IInv' /\ [Next]_vars => [Store!Publish]_(Store!vars)
  BY Refines
<1>3. IInv /\ [Next]_vars => IInv'
  BY IInvStep
<1>4. QED
  BY <1>1, <1>2, <1>3, IInvInit, PTL DEF Spec, Atomic, Store!Safety
=============================================================================
