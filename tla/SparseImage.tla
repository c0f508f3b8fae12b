----------------------------- MODULE SparseImage -----------------------------
(***************************************************************************)
(* How an ext4 image leaves make_ext4fs (package/ext4-utils/src) and comes  *)
(* back: backed_block.c queues the extents of the file system in block      *)
(* order, write_ext4_image writes them through output_file.c, either in     *)
(* place or as the chunks of a sparse file, and simg2img turns a sparse     *)
(* file into the image again.  Either tool may be killed or fail to write   *)
(* (error() exits), a sparse file may be damaged on its way, and both tools *)
(* are run again until there is an image.  A write that fails only when a   *)
(* file is closed, or when simg2img seeks, is not noticed by either.        *)
(*                                                                          *)
(* A position is counted in blocks.  A block of contents is named by the    *)
(* place it is meant for and by whether it is full: the contents of the     *)
(* last block of an extent may end before the block does.  The checksum of  *)
(* a sequence of blocks is that sequence: crc32 is taken to have no         *)
(* collisions.  What is written under -f after an error is left out.        *)
(***************************************************************************)
EXTENDS Ext4Layout, Integers

CONSTANTS NumBlocks,    \* info.len / info.block_size
          Layouts,      \* file systems to write, in the order they are queued
          Formats,      \* kinds of output: -s, -z or neither
          WideLong,     \* long has more than 32 bits where simg2img runs
          HalfBlocks,   \* blocks in 2^31 bytes
          MaxMishaps    \* deaths, failed and lost writes and damages at most

ASSUME BlocksOK == NumBlocks \in Nat \ {0}
ASSUME FormatsOK == Formats \subseteq {"sparse", "gz", "flat"}
ASSUME SeekOK == WideLong \in BOOLEAN /\ HalfBlocks \in Nat \ {0}
ASSUME BoundOK == MaxMishaps \in Nat
\* What the allocator hands out.
ASSUME LayoutsOK == \A l \in Layouts : Fits(l, NumBlocks)

VARIABLES
    layout,   \* the file system to write; ragged: info.len ends inside a block
    format,   \* the kind of output
    heap,     \* what malloc hands out to simg2img: zeros, or anything
    unmapped, \* extents at a place in their file that mmap refuses
    queue,    \* backed_block.c: data_blocks
    last,     \* place of last_used in the queue, 0 if it is NULL
    phase,    \* where make_ext4fs is
    at,       \* part to queue, or place in the queue to write
    ptr,      \* blocks written so far (cur_out_ptr)
    sum,      \* crc32 so far
    head,     \* sparse file: its header
    chunks,   \* sparse file: its chunks
    flat,     \* the other formats: blocks of the file
    why,      \* what make_ext4fs gave as its last error
    reader,   \* where simg2img is
    chunk,    \* chunk it reads next
    pos,      \* position in its output
    total,    \* total_blocks
    rsum,     \* crc32 so far
    out,      \* its output
    zerobuf,  \* the block it takes for one of zeros
    lost,     \* a write of the last output failed unnoticed
    mishaps

given == <<layout, format, heap, unmapped>>
writer == <<queue, last, phase, at, ptr, sum, why>>
file == <<head, chunks, flat>>
simg2img == <<reader, chunk, pos, total, rsum, out, zerobuf>>
vars == <<given, writer, file, simg2img, lost, mishaps>>

-----------------------------------------------------------------------------
Places == 0 .. NumBlocks - 1
Zero == [at |-> NumBlocks, full |-> FALSE]
Dirt == [at |-> NumBlocks, full |-> TRUE]   \* what malloc hands out uncleared
Content == [at : 0 .. NumBlocks, full : BOOLEAN]
Empty == [b \in Places |-> Zero]   \* a file without contents, or with a hole
None == [b \in 0 .. -1 |-> Zero]     \* the checksum of nothing
NoHead == [blks |-> 0, chunks |-> 0, sum |-> None]

Chunk == [kind : {"raw", "skip", "torn"}, len : 0 .. NumBlocks, data : Seq(Content)]
Whole(c) == c.kind = "raw" => Len(c.data) = c.len
Chunks(s) == s \in Seq(Chunk) /\ \A i \in 1 .. Len(s) : Whole(s[i])
Header(h) == \E k \in 0 .. NumBlocks :
                h \in [blks : {0, NumBlocks}, chunks : Nat, sum : [0 .. k - 1 -> Content]]

\* The contents of extent e for block b.
Cell(e, b) == [at |-> b, full |-> b + 1 < End(e) \/ e.full]
Blocks(e) == e.block .. End(e) - 1

\* Seeded fault: the last block is left out of the checksum.
FedShort(s, n, c, k) == [b \in 0 .. k - 2 |-> IF b < n THEN s[b] ELSE c[b]]

\* The checksum over k blocks: the first ones as in s, then those of c.
Fed(s, n, c, k) == [b \in 0 .. k - 1 |-> IF b < n THEN s[b] ELSE c[b]]

Parts(l) == {l.parts[i] : i \in 1 .. Len(l.parts)}

\* Extents that may start inside a page of their file: a file's extents are
\* queued one after the other, so the first of all starts at its file's start.
\* A block may be smaller than a page.
Inner(l) == {l.parts[i] : i \in {k \in 1 .. Len(l.parts) :
               l.parts[k].file /\ \E j \in 1 .. k - 1 : l.parts[j].file}}

Init ==
    /\ layout \in Layouts /\ format \in Formats
    /\ heap \in {"zeros", "any"} /\ unmapped \in SUBSET Inner(layout)
    /\ queue = <<>> /\ last = 0 /\ phase = "idle" /\ at = 1 /\ ptr = 0 /\ sum = None
    /\ head = NoHead /\ chunks = <<>> /\ flat = Empty /\ why = "none"
    /\ reader = "idle" /\ chunk = 1 /\ pos = 0 /\ total = 0 /\ rsum = None /\ out = Empty
    /\ zerobuf = Zero /\ lost = FALSE /\ mishaps = 0

-----------------------------------------------------------------------------
\* make_ext4fs is started, again if it failed or if simg2img refused the file.
Begin ==
    /\ phase \in {"idle", "failed"} \/ (phase = "done" /\ reader = "refused")
    /\ reader # "chunks"
    /\ phase' = "queue" /\ at' = 1 /\ queue' = <<>> /\ last' = 0
    /\ ptr' = 0 /\ sum' = None /\ why' = "none"
    /\ UNCHANGED <<given, file, simg2img, lost, mishaps>>

\* Seeded fault: the search starts at the last entry added, wherever it is.
StartAtLast(e) == IF last # 0 THEN last ELSE 1

\* queue_db: where the search for the place of e starts.
StartAt(e) == IF last # 0 /\ e.block > queue[last].block THEN last ELSE 1

\* The entry behind which e goes.
Behind(e) == CHOOSE i \in StartAt(e) .. Len(queue) :
                /\ i < Len(queue) => queue[i + 1].block >= e.block
                /\ \A j \in StartAt(e) .. i - 1 : queue[j + 1].block < e.block

Inserted(e, i) == [j \in 1 .. Len(queue) + 1 |->
                     IF j <= i THEN queue[j] ELSE IF j = i + 1 THEN e ELSE queue[j - 1]]

\* queue_db; an entry put first does not become last_used.
queue_db ==
    /\ phase = "queue" /\ at <= Len(layout.parts)
    /\ LET e == layout.parts[at]
       IN  \/ /\ queue = <<>>
              /\ queue' = <<e>> /\ UNCHANGED last
           \/ /\ queue # <<>> /\ queue[1].block > e.block
              /\ queue' = Inserted(e, 0)
              /\ last' = IF last = 0 THEN 0 ELSE last + 1
           \/ /\ queue # <<>> /\ queue[1].block <= e.block
              /\ queue' = Inserted(e, Behind(e))
              /\ last' = Behind(e) + 1
    /\ at' = at + 1
    /\ UNCHANGED <<given, phase, ptr, sum, why, file, simg2img, lost, mishaps>>

\* open_output_file: the file is empty but for a header without a count of
\* chunks and without a checksum.
open_output_file ==
    /\ phase = "queue" /\ at > Len(layout.parts)
    /\ phase' = "super" /\ at' = 1
    /\ head' = IF format = "sparse" THEN [blks |-> NumBlocks, chunks |-> 0, sum |-> None]
               ELSE NoHead
    /\ chunks' = <<>> /\ flat' = Empty
    /\ reader' = "idle"
    /\ UNCHANGED <<given, queue, last, ptr, sum, why, chunk, pos, total, rsum, out, zerobuf>>
    /\ UNCHANGED <<lost, mishaps>>

Skip(n) == [kind |-> "skip", len |-> n, data |-> <<>>]
Raw(e) == [kind |-> "raw", len |-> e.len,
           data |-> [k \in 1 .. e.len |-> Cell(e, e.block + k - 1)]]

\* Seeded fault: no chunk for the gap before an extent.
NoGap(to) == <<>>

\* emit_skip_chunk: the "don't care" chunk up to block `to'.
Gap(to) == IF to > ptr THEN <<Skip(to - ptr)>> ELSE <<>>

\* error() ends make_ext4fs.
Fails(reason) == why' = reason /\ UNCHANGED <<ptr, sum, file>>

\* write_chunk_raw, or a write in place.
Written(e) ==
    LET in == [b \in Places |-> IF b \in Blocks(e) THEN Cell(e, b) ELSE Zero]
    IN  /\ ptr' = End(e)
        /\ \/ /\ format = "sparse"
              /\ chunks' = chunks \o Gap(e.block) \o <<Raw(e)>>
              /\ sum' = Fed(sum, ptr, in, End(e))
              /\ UNCHANGED flat
           \/ /\ format # "sparse"
              /\ flat' = [b \in Places |-> IF b \in Blocks(e) THEN in[b] ELSE flat[b]]
              /\ UNCHANGED <<chunks, sum>>
        /\ UNCHANGED <<head, why>>

\* write_data_block takes what ends with the file system; write_data_file
\* refuses it.
PastEnd(e) == \/ End(e) > NumBlocks
              \/ e.file /\ e.full /\ End(e) = NumBlocks /\ ~layout.ragged

\* mmap refuses a place in a file that is not the start of a page.
Writable(e) == ~PastEnd(e) /\ e \notin unmapped

\* A sparse or compressed file cannot be written backwards.
Write(e, next) ==
    /\ \/ PastEnd(e) /\ Fails("end")
       \/ ~PastEnd(e) /\ e \in unmapped /\ Fails("map")
       \/ Writable(e) /\ format # "flat" /\ e.block < ptr /\ Fails("order")
       \/ Writable(e) /\ (format # "flat" => e.block >= ptr) /\ Written(e)
    /\ phase' = IF why' = "none" THEN next ELSE "failed"
    /\ UNCHANGED <<given, queue, last, simg2img, lost, mishaps>>

WriteSuper == phase = "super" /\ Write(Super(layout), "desc") /\ UNCHANGED at

WriteDesc == phase = "desc" /\ Write(Desc(layout), "data") /\ UNCHANGED at

OutOfOrder == at > 1 /\ queue[at].block + 1 < End(queue[at - 1])

\* for_each_data_block.
WriteData ==
    /\ phase = "data" /\ at <= Len(queue)
    /\ \/ /\ OutOfOrder /\ Fails("order") /\ phase' = "failed"
          /\ UNCHANGED <<given, queue, last, simg2img, lost, mishaps>>
       \/ ~OutOfOrder /\ Write(queue[at], "data")
    /\ at' = at + 1

LastBlock == NumBlocks - 1
Dented(c) == [c EXCEPT ![LastBlock].full = FALSE]

\* pad_output_file.  In place it writes a zero over the last byte of the file,
\* to which a compressed one cannot go back.
pad_output_file ==
    /\ phase = "data" /\ at > Len(queue)
    /\ \/ /\ format = "sparse" /\ layout.ragged /\ Fails("pad")
       \/ /\ format = "sparse" /\ ~layout.ragged
          /\ chunks' = chunks \o Gap(NumBlocks)
          /\ sum' = Fed(sum, ptr, Empty, NumBlocks)
          /\ ptr' = NumBlocks
          /\ UNCHANGED <<head, flat, why>>
       \/ /\ format = "gz" /\ flat[LastBlock].full /\ ~layout.ragged /\ Fails("pad")
       \/ /\ format # "sparse"
          /\ format = "gz" /\ flat[LastBlock].full => layout.ragged
          /\ flat' = IF layout.ragged THEN flat ELSE Dented(flat)
          /\ UNCHANGED <<ptr, sum, head, chunks, why>>
    /\ phase' = IF why' = "none" THEN "close" ELSE "failed"
    /\ UNCHANGED <<given, queue, last, at, simg2img, lost, mishaps>>

\* The header once the number of chunks and the checksum are known.
Complete == IF format = "sparse"
            THEN [head EXCEPT !.chunks = Len(chunks), !.sum = sum] ELSE head

\* close_output_file: the header is written again, complete now.
close_output_file ==
    /\ phase = "close"
    /\ phase' = "done"
    /\ head' = Complete
    /\ UNCHANGED <<given, queue, last, at, ptr, sum, why, chunks, flat, simg2img, lost, mishaps>>

\* A mishap: a tool dies, a write fails or is lost, a file is damaged.
Mishap == mishaps < MaxMishaps /\ mishaps' = mishaps + 1

\* A file that lost what was written from block n on.
Cut(f, n) == [b \in Places |-> IF b < n THEN f[b] ELSE Zero]

\* gzwrite has kept the last data back, or the file system has: make_ext4fs
\* ends well all the same, for close and gzclose are not asked whether they
\* could write it.
CloseLoses ==
    /\ phase = "close" /\ Mishap
    /\ phase' = "done"
    /\ \/ /\ format = "sparse"
          /\ \E i \in 0 .. Len(chunks) : chunks' = SubSeq(chunks, 1, i)
          /\ head' \in {head, Complete}
          /\ UNCHANGED flat
       \/ /\ format # "sparse"
          /\ \E n \in Places : flat' = Cut(flat, n)
          /\ UNCHANGED <<head, chunks>>
    /\ lost' = TRUE
    /\ UNCHANGED <<given, queue, last, at, ptr, sum, why, simg2img>>

\* make_ext4fs is killed, or notices that a write failed: the file may be
\* without a header, or its last chunk incomplete.
Torn == [kind |-> "torn", len |-> 0, data |-> <<>>]
WriterDies ==
    /\ phase \notin {"idle", "failed", "done"}
    /\ Mishap
    /\ phase' = "failed" /\ why' = "died"
    /\ \/ UNCHANGED <<head, chunks>>
       \/ /\ phase = "queue" /\ at > Len(layout.parts)
          /\ head' = NoHead /\ chunks' = <<>>
       \/ /\ phase \in {"super", "desc", "data"} /\ format = "sparse"
          /\ chunks' = Append(chunks, Torn) /\ UNCHANGED head
    /\ UNCHANGED <<given, queue, last, at, ptr, sum, flat, simg2img, lost>>

-----------------------------------------------------------------------------
\* The file is damaged: a chunk loses its contents, or the file its end.
Damage ==
    /\ phase = "done" /\ reader = "idle" /\ format = "sparse"
    /\ Mishap
    /\ \E i \in 1 .. Len(chunks) :
         \/ /\ chunks[i].kind = "raw"
            /\ chunks' = [chunks EXCEPT ![i].data = [k \in DOMAIN @ |-> Zero]]
         \/ chunks' = SubSeq(chunks, 1, i - 1)
    /\ UNCHANGED <<given, writer, head, flat, simg2img, lost>>

-----------------------------------------------------------------------------
\* simg2img is started on whatever make_ext4fs left; its output is emptied.
\* It does not clear the zerobuf that malloc hands it.
StartReader ==
    /\ phase \in {"failed", "done"} /\ format = "sparse" /\ reader = "idle"
    /\ reader' = IF head = NoHead THEN "refused" ELSE "chunks"
    /\ chunk' = 1 /\ pos' = 0 /\ total' = 0 /\ rsum' = None /\ out' = Empty
    /\ zerobuf' \in IF heap = "zeros" THEN {Zero} ELSE {Zero, Dirt}
    /\ lost' = FALSE
    /\ UNCHANGED <<given, writer, file, mishaps>>

\* process_skip_chunk: 2^31 bytes at a time, which a long of 32 bits takes for
\* a step back; one that leads before the start of the file is refused.
Sought(p, n) ==
    LET steps == n \div HalfBlocks
        taken == IF steps <= p \div HalfBlocks THEN steps ELSE p \div HalfBlocks
    IN  IF WideLong \/ n < HalfBlocks THEN p + n
        ELSE p - taken * HalfBlocks + (n % HalfBlocks)

\* The next chunk is there.
Readable == chunk <= Len(chunks) /\ chunks[chunk].kind # "torn"

\* Chunk c is counted: its contents go into the checksum, or zerobuf for each
\* block it skips.
Counted(c) ==
    LET to == total + c.len
        in == [b \in 0 .. to - 1 |-> IF c.kind = "raw" THEN c.data[b - total + 1] ELSE zerobuf]
    IN  /\ total' = to
        /\ rsum' = Fed(rsum, total, in, to)
        /\ chunk' = chunk + 1
        /\ UNCHANGED <<given, writer, file, reader, zerobuf>>

\* process_raw_chunk and process_skip_chunk.
ReadChunk ==
    /\ reader = "chunks" /\ chunk <= head.chunks
    /\ \/ /\ ~Readable
          /\ reader' = "refused"
          /\ UNCHANGED <<given, writer, file, chunk, pos, total, rsum, out, zerobuf>>
       \/ /\ Readable
          /\ LET c == chunks[chunk]
             IN  /\ Counted(c)
                 /\ \/ /\ c.kind = "raw"
                       /\ pos' = pos + c.len
                       /\ out' = [b \in Places |-> IF b \in pos .. pos + c.len - 1
                                                   THEN c.data[b - pos + 1] ELSE out[b]]
                    \/ /\ c.kind = "skip"
                       /\ pos' = Sought(pos, c.len)
                       /\ UNCHANGED out
    /\ UNCHANGED <<lost, mishaps>>

\* fseek must write what is still buffered before it moves.  When that fails it
\* stays where it is, and process_skip_chunk goes on.
SeekLoses ==
    /\ reader = "chunks" /\ chunk <= head.chunks /\ Mishap
    /\ Readable /\ chunks[chunk].kind = "skip" /\ Counted(chunks[chunk])
    /\ \E n \in 0 .. NumBlocks : out' = Cut(out, n)
    /\ lost' = TRUE
    /\ UNCHANGED pos

\* Seeded fault: the checksum is not compared.
CountsAgree == head.blks = total

\* The end of main: the number of blocks and the checksum must be the header's.
Agrees == head.blks = total /\ head.sum = rsum

EndReader ==
    /\ reader = "chunks" /\ chunk > head.chunks
    /\ reader' = IF Agrees THEN "accepted" ELSE "refused"
    /\ UNCHANGED <<given, writer, file, chunk, pos, total, rsum, out, zerobuf, lost, mishaps>>

\* What fclose returns is not looked at either, and the checksum is over what
\* was read.
EndLoses ==
    /\ reader = "chunks" /\ chunk > head.chunks /\ Mishap
    /\ reader' = IF Agrees THEN "accepted" ELSE "refused"
    /\ \E n \in Places : out' = Cut(out, n)
    /\ lost' = TRUE
    /\ UNCHANGED <<given, writer, file, chunk, pos, total, rsum, zerobuf>>

\* simg2img is killed, or notices that a write failed, and is started again.
ReaderDies ==
    /\ reader = "chunks" /\ Mishap
    /\ reader' = "idle"
    /\ UNCHANGED <<given, writer, file, chunk, pos, total, rsum, out, zerobuf, lost>>

Work == \/ Begin \/ queue_db \/ open_output_file \/ WriteSuper \/ WriteDesc \/ WriteData
        \/ pad_output_file \/ close_output_file \/ StartReader \/ ReadChunk \/ EndReader

Next == \/ Work
        \/ WriterDies \/ CloseLoses \/ Damage \/ ReaderDies \/ SeekLoses \/ EndLoses

\* Whoever wants the image runs the tools until there is one.
Spec == Init /\ [][Next]_vars /\ WF_vars(Work)
-----------------------------------------------------------------------------
\* The variables keep their types.
TypeOK ==
    /\ layout \in Layout
    /\ format \in Formats
    /\ heap \in {"zeros", "any"} /\ unmapped \subseteq Parts(layout)
    /\ queue \in Seq(Extent) /\ last \in 0 .. Len(queue)
    /\ phase \in {"idle", "queue", "super", "desc", "data", "close", "done", "failed"}
    /\ at \in Nat \ {0} /\ ptr \in 0 .. NumBlocks
    /\ format = "sparse" => sum \in [0 .. ptr - 1 -> Content]
    /\ Header(head)
    /\ Chunks(chunks)
    /\ flat \in [Places -> Content]
    /\ why \in {"none", "end", "map", "order", "pad", "died"}
    /\ reader \in {"idle", "chunks", "accepted", "refused"}
    /\ chunk \in Nat \ {0} /\ pos \in Int /\ total \in Nat
    /\ rsum \in [0 .. total - 1 -> Content]
    /\ out \in [Places -> Content]
    /\ zerobuf \in {Zero, Dirt} /\ lost \in BOOLEAN
    /\ mishaps \in 0 .. MaxMishaps

Extents(l) == {Super(l), Desc(l)} \cup Parts(l)

\* The contents of the file system, said without the queue and the chunks.
Want == [b \in Places |->
           IF \E e \in Extents(layout) : b \in Blocks(e)
           THEN Cell(CHOOSE e \in Extents(layout) : b \in Blocks(e), b)
           ELSE Zero]

\* Written in place, the last byte of the image is always zero.
Wanted == IF format = "sparse" \/ layout.ragged THEN Want ELSE Dented(Want)

\* Images that can be made: a sparse one must end with a block, a compressed
\* one must not need the step back to its last byte, no file may end with the
\* file system, and every part of a file must start with a page.
Possible ==
    /\ format = "sparse" => ~layout.ragged
    /\ format = "gz" => layout.ragged \/ ~Want[LastBlock].full
    /\ \A e \in Parts(layout) : Writable(e)

\* Images that are made in the end: simg2img refuses a sparse file with a gap
\* as long as malloc hands it a block that is not of zeros.
NoHoles == \A b \in Places : \E e \in Extents(layout) : b \in Blocks(e)
Sure == Possible /\ (format = "sparse" => heap = "zeros" \/ NoHoles)

HandedOver == IF format = "sparse" THEN reader = "accepted" ELSE phase = "done"
Nothing == <<>>
Image == IF HandedOver THEN IF format = "sparse" THEN out ELSE flat
         ELSE Nothing

Store == INSTANCE AtomicImage
         WITH want <- Wanted, image <- Image, possible <- Possible, sure <- Sure

\* Whatever the order in which extents were queued, whenever a tool died and
\* whatever happened to the sparse file: what simg2img accepts, or make_ext4fs
\* ends well with, is exactly the image, and stays it.  The one exception is
\* what neither program looks at: a write of the tool that hands the image over
\* failed when its output was closed (output_file.c:85, 124; simg2img.c:210) or
\* when simg2img sought over a gap (:91).  What make_ext4fs lost of a sparse
\* file in this way simg2img does notice.
Atomic == Store!Safety

\* An image that can be made is made in the end, although a tool died or the
\* file was damaged, by running make_ext4fs again after it failed and after
\* simg2img refused its file.  A sparse file with a gap must rely on a malloc
\* that hands out zeros.
Delivers == Store!Delivery

\* The queue hands its extents over in block order, however its search was
\* shortened: no write is refused as out of order, and no gap is missed.
InOrder == why # "order"
=============================================================================
