------------------------------ MODULE FatCheck ------------------------------
(***************************************************************************)
(* fsck_msdos (package/fsck_msdos/fsck), the checker of the FAT partition   *)
(* of the board's cards.  A check reads the copies of the FAT, marks the    *)
(* cluster chains in memory, walks the directories (and writes each one it  *)
(* repairs at once), looks for lost chains, and only then writes the FATs.  *)
(* Every repair is a question; -y and -p answer yes, -n no, and otherwise   *)
(* the user answers.  The checker may be killed at any point, a write may   *)
(* fail, and the check is simply started again.                             *)
(*                                                                          *)
(* A size is counted in clusters.  One value stands for every number that   *)
(* is out of range, one for the reserved marks and one for the end marks.   *)
(* Long names, entries behind the end of a directory, the FSInfo block and  *)
(* the boot sector are left out; a cluster of file data reads as an empty   *)
(* directory cluster.                                                       *)
(***************************************************************************)
EXTENDS Naturals, Sequences, FiniteSets

CONSTANTS NumClusters,  \* clusters are CLUST_FIRST (2) .. NumClusters-1
          Copies,       \* number of FAT copies
          Slots,        \* number of entries of a directory cluster
          Cases,        \* what the card may hold and how questions are answered
          MaxMishaps    \* the checker dies or fails to write at most so often

Clusters == 2 .. NumClusters - 1
FREE  == 0
OUT   == NumClusters
RSRVD == NumClusters + 1
BAD   == NumClusters + 2
EOF   == NumClusters + 3
FatValue == {FREE, OUT, RSRVD, BAD, EOF} \cup Clusters

\* Directory clusters; 0 is the fixed root directory of FAT12 and FAT16.
Places == {FREE} \cup Clusters
\* -y, -p, -n, and otherwise the user answers.
Modes == {"yes", "preen", "no", "ask"}

Entry == [kind : {"none", "file", "dir", "lost", "dot", "dotdot"},
          start : Places \cup {OUT}, size : Nat]
NoEntry == [kind |-> "none", start |-> FREE, size |-> 0]

ASSUME SizesOK == /\ NumClusters \in Nat /\ NumClusters > 2
                  /\ Copies \in Nat \ {0}
                  /\ Slots \in Nat /\ Slots > 1
ASSUME BoundOK == MaxMishaps \in Nat
ASSUME CasesOK ==
    Cases \subseteq
        [root : Places, compare : BOOLEAN, mode : Modes,
         fats : [1 .. Copies -> [sig : {"clean", "dirty", "odd"},
                                 next : [Clusters -> FatValue]]],
         dirs : [Places -> [1 .. Slots -> Entry]]]

VARIABLES
    root,     \* boot sector: first cluster of the FAT32 root, 0 if it is fixed
    compare,  \* the FAT is small enough for its copies to be compared
    fats,     \* on the card: the copies of the FAT
    dirs,     \* on the card: the entries of every cluster
    mode,     \* how the questions are answered
    looked,   \* history: the last check did not stop at the mark of a clean card
    phase,    \* where checkfilesys is
    at,       \* copy, chain or entry that it looks at next
    fat,      \* the FAT in memory: next, head, length and FAT_USED
    mod,      \* the FS... flags gathered so far
    dir,      \* directory being read: its head, what its '..' must hold, the
              \*   cluster in the buffer
    buf,      \* the buffer with that cluster
    tree,     \* the flags of handleDirTree; "THIS": the buffer has changed
    todo,     \* directories still to be read
    lost,     \* first cluster of LOST.DIR, 0 if there is none
    lf,       \* cluster of LOST.DIR last read, and its buffer
    sig,      \* the signature writefat writes
    exit,     \* result of the last check
    mishaps,  \* deaths and failed writes so far
    kept      \* history: the files no damage touches, when the check began

card == <<fats, dirs>>
boot == <<root, compare, mode, looked>>
memory == <<fat, dir, buf, tree, todo, lost, lf, sig>>
vars == <<card, boot, memory, phase, at, mod, exit, mishaps, kept>>

-----------------------------------------------------------------------------
\* Questions.

\* Seeded fault: rdonly is not asked for.
AnswersWriting == IF mode = "ask" THEN BOOLEAN ELSE {TRUE}

Answers == CASE mode \in {"yes", "preen"} -> {TRUE}
             [] mode = "no" -> {FALSE}
             [] OTHER -> BOOLEAN

If(flag, answer) == IF answer THEN flag ELSE {"ERROR"}

-----------------------------------------------------------------------------
\* Chains.

\* The clusters met on the way from p.
Reach(next, p) ==
    LET r[k \in 0 .. NumClusters] ==
            IF k = 0 THEN {p}
            ELSE UNION {{c, next[c]} : c \in Clusters \cap r[k - 1]}
    IN  Clusters \cap r[NumClusters]

Endless(next, p) == \A c \in Reach(next, p) : next[c] \in Clusters

\* One step along the clusters marked h; at their end the walk waits.
Along(f, h) == [c \in Clusters |-> LET n == f.next[c]
                                   IN  IF n \in Clusters /\ f.head[n] = h THEN n ELSE c]

\* From p along the clusters marked h: those met, and the last one.
Stretch(f, p, h) == Reach(Along(f, h), p)

LastOf(f, p, h) ==
    LET step == Along(f, h)
        w[i \in 0 .. NumClusters] == IF i = 0 THEN p ELSE step[w[i - 1]]
    IN  w[NumClusters]

clearchain(f, h) ==
    IF h \in Clusters /\ f.head[h] = h
    THEN LET own == Stretch(f, h, h)
             Zero(g) == [c \in Clusters |-> IF c \in own THEN 0 ELSE g[c]]
         IN  [f EXCEPT !.next = Zero(@), !.head = Zero(@), !.length = Zero(@)]
    ELSE f

\* Seeded fault: the flag of a cleared chain is lost.
SilentClear(f, h, p, clear, trunc) ==
    IF clear THEN [fat |-> clearchain(f, h), mod |-> {}] ELSE [fat |-> f, mod |-> {"ERROR"}]

\* The last question of tryclear cuts the chain behind p.
tryclear(f, h, p, clear, trunc) ==
    CASE clear -> [fat |-> clearchain(f, h), mod |-> {"FATMOD"}]
      [] trunc /\ ~clear -> [fat |-> [f EXCEPT !.next[p] = EOF], mod |-> {"FATMOD"}]
      [] OTHER -> [fat |-> f, mod |-> {"ERROR"}]

-----------------------------------------------------------------------------
\* Start of a check.

\* Files in the root directory that nothing disputes: every copy of the FAT
\* holds their chain, as long as their size says, and neither another cluster
\* nor another entry leads into it.
Innocent(s) ==
    LET e == dirs[root][s]
        chain == Reach(fats[1].next, e.start)
    IN  /\ e.kind = "file" /\ e.start \in Clusters /\ e.size > 0
        /\ root \notin chain
        /\ Cardinality(chain) = e.size
        /\ \E c \in chain : fats[1].next[c] = EOF
        /\ \A i \in 1 .. Copies :
             /\ \A c \in chain : fats[i].next[c] = fats[1].next[c]
             /\ \A c \in Clusters : fats[i].next[c] \in chain =>
                    c \in chain /\ fats[i].next[c] # e.start
        /\ \A p \in Places, t \in 1 .. Slots :
             dirs[p][t].start \in chain => p = root /\ t = s

Blank == [next |-> [c \in Clusters |-> FREE], head |-> [c \in Clusters |-> 0],
          length |-> [c \in Clusters |-> 0], used |-> {}]
NoDir == [root |-> TRUE, head |-> FREE, up |-> FREE, cl |-> FREE]
NoBuf == [t \in 1 .. Slots |-> NoEntry]
NoLf == [cl |-> FREE, buf |-> NoBuf]

\* checkfilesys up to readfat: -p leaves a file system marked clean alone, with
\* the exit status of a check that found nothing.  The first check is run the
\* way the case says, the ones after it with -y.
Start ==
    /\ phase = "idle"
    /\ mode' = IF exit = "none" THEN mode ELSE "yes"
    /\ looked' = ~(mode' = "preen" /\ fats[1].sig = "clean")
    /\ kept' = {s \in 1 .. Slots : Innocent(s)}
    /\ mod' = {}
    /\ \/ ~looked' /\ exit' = "ok" /\ UNCHANGED <<phase, at>>
       \/ looked' /\ exit' = "none" /\ phase' = "load" /\ at' = 1
    /\ UNCHANGED <<card, root, compare, memory, mishaps>>

\* The process ends; what it had in memory is gone.
Ends(verdict) ==
    /\ phase' = "idle"
    /\ at' = 0
    /\ exit' = verdict
    /\ fat' = Blank /\ dir' = NoDir /\ buf' = NoBuf /\ tree' = {}
    /\ todo' = <<>> /\ lost' = FREE /\ lf' = NoLf /\ sig' = "clean"

GoOn(p, i) ==
    /\ phase' = p /\ at' = i
    /\ UNCHANGED <<dir, buf, tree, todo, lost, lf, sig, exit>>

-----------------------------------------------------------------------------
\* Phase 1: read the copies of the FAT and compare them.

IsMark(v) == v = FREE \/ v >= RSRVD

\* What is left in FAT 0 where copy value w differs from its value v:
\* "first" and "second" answer yes to the first or to the second question.
Settled(v, w, pick) ==
    LET takes == IF IsMark(v) /\ ~IsMark(w) THEN "first" ELSE "second"
    IN  IF pick = takes THEN w ELSE v

Refusal(v) == IF IsMark(v) THEN "FATAL" ELSE "ERROR"

\* Seeded fault: the end mark does not fit the mask of the FAT.
readfatUnmasked(i, cut) == [c \in Clusters |-> IF c \in cut THEN EOF + 1 ELSE fats[i].next[c]]

\* The answers to checkclnum are `cut', the entries truncated.
readfat(i, cut) == [c \in Clusters |-> IF c \in cut THEN EOF ELSE fats[i].next[c]]

\* Entries of copy `at' that checkclnum asks about.
Odd == {c \in Clusters : fats[at].next[c] \in {OUT, RSRVD}}

\* comparefat: entries of the copy read, v, that differ from the FAT in memory,
\* and what can be answered to clustdiffer about each of them.
Differing(v) == IF at = 1 THEN {} ELSE {c \in Clusters : v[c] # fat.next[c]}
Picks == (IF TRUE \in Answers THEN {"first"} ELSE {})
           \cup (IF FALSE \in Answers THEN {"none"} ELSE {})
           \cup (IF Answers = BOOLEAN THEN {"second"} ELSE {})

Compared(v, pick) ==
    IF at = 1 THEN v
    ELSE [c \in Clusters |-> IF c \in Differing(v) THEN Settled(fat.next[c], v[c], pick[c])
                             ELSE fat.next[c]]

LoadFlags(cut, diff, pick, fix) ==
    (IF cut # {} \/ \E c \in diff : pick[c] # "none" THEN {"FATMOD"} ELSE {})
      \cup (IF cut # Odd THEN {"ERROR"} ELSE {})
      \cup {Refusal(fat.next[c]) : c \in {d \in diff : pick[d] = "none"}}
      \cup (IF fats[at].sig = "dirty" THEN {"DIRTY"} ELSE {})
      \cup (IF fats[at].sig = "odd" /\ fix THEN {"FIXFAT"} ELSE {})

\* readfat and comparefat on copy `at'.
Load ==
    /\ phase = "load"
    /\ \E cut \in SUBSET Odd, fix \in Answers :
         LET v == readfat(at, cut)
         IN  \E pick \in [Differing(v) -> Picks] :
               /\ TRUE \notin Answers => cut = {}
               /\ FALSE \notin Answers => cut = Odd
               /\ fat' = [fat EXCEPT !.next = Compared(v, pick)]
               /\ mod' = mod \cup LoadFlags(cut, Differing(v), pick, fix)
    /\ IF "FATAL" \in mod' THEN phase' = "out" /\ at' = 0
       ELSE IF compare /\ at < Copies THEN phase' = "load" /\ at' = at + 1
       ELSE phase' = "mark" /\ at' = 0
    /\ UNCHANGED <<card, boot, dir, buf, tree, todo, lost, lf, sig, exit, mishaps, kept>>

-----------------------------------------------------------------------------
\* Phase 2: checkfat.

\* Pass 1 starts a chain at every cluster in use that no chain has reached
\* so far; a later chain takes over what it reaches.
Starts(next) ==
    LET inuse == {c \in Clusters : next[c] \notin {FREE, BAD}}
    IN  {h \in inuse : \A g \in inuse : g < h => h \notin Reach(next, g)}

MarkChains ==
    /\ phase = "mark"
    /\ LET next == fat.next
           over(c) == {h \in Starts(next) : c \in Reach(next, h)}
       IN  fat' = [fat EXCEPT
             !.head = [c \in Clusters |->
                         IF over(c) = {} THEN 0
                         ELSE CHOOSE h \in over(c) : \A g \in over(c) : g <= h],
             !.length = [c \in Clusters |->
                           IF c \notin Starts(next) THEN 0
                           ELSE IF Endless(next, c) THEN NumClusters + 1
                           ELSE Cardinality(Reach(next, c))]]
    /\ GoOn("chains", 2)
    /\ UNCHANGED <<card, boot, mod, mishaps, kept>>

\* The next chain, in the order of the loop, that pass 2 has a question about.
Suspects == {h \in Clusters : /\ h >= at /\ fat.head[h] = h
                              /\ fat.next[LastOf(fat, h, h)] # EOF}

\* Pass 2 for a chain that runs into nothing.
BrokenChain ==
    /\ phase = "chains"
    /\ \E h \in Suspects, clear \in Answers, trunc \in Answers :
         LET p == LastOf(fat, h, h)
             r == tryclear(fat, h, p, clear, trunc)
         IN  /\ \A g \in Suspects : h <= g
             /\ fat.next[p] \notin Clusters
             /\ fat' = r.fat
             /\ mod' = mod \cup r.mod
             /\ GoOn("chains", h + 1)
    /\ UNCHANGED <<card, boot, mishaps, kept>>

\* Pass 2 for a chain that runs into another one, or into itself.  If only the
\* other one is cleared, the common part becomes this chain's; it is examined
\* again if that part leads into a third chain.
CrossLink ==
    /\ phase = "chains"
    /\ \E h \in Suspects, clear \in Answers, trunc \in Answers, other \in Answers :
         LET p == LastOf(fat, h, h)
             n == fat.next[p]
             r == tryclear(fat, h, p, clear, trunc)
             g == r.fat.head[n]
             part == Stretch(r.fat, n, g)
             moves == other /\ r.mod = {"ERROR"}
             taken == [r.fat EXCEPT !.head =
                         [c \in Clusters |-> IF c \in part THEN h ELSE @[c]]]
         IN  /\ \A f \in Suspects : h <= f
             /\ n \in Clusters
             /\ mod' = mod \cup r.mod \cup (IF other THEN {"FATMOD"} ELSE {})
             /\ fat' = CASE moves -> clearchain(taken, g)
                         [] other /\ ~moves -> clearchain(r.fat, g)
                         [] OTHER -> r.fat
             /\ IF moves /\ g = h THEN GoOn("spinning", 0)
                ELSE IF moves /\ r.fat.next[LastOf(r.fat, n, g)] \in Clusters
                THEN GoOn("chains", h)
                ELSE GoOn("chains", h + 1)
    /\ UNCHANGED <<card, boot, mishaps, kept>>

\* resetDosDirSection: the root directory of FAT32 must start a chain.
OpenRoot ==
    /\ phase = "chains" /\ Suspects = {}
    /\ \E fix \in Answers :
         LET wrong == /\ root # FREE
                      /\ \/ fat.next[root] \in {FREE, RSRVD, BAD}
                         \/ fat.head[root] # root
             fatal == wrong /\ (fat.next[root] \notin {FREE, RSRVD, BAD} \/ ~fix)
         IN  /\ fat' = [fat EXCEPT
                  !.next = [c \in Clusters |-> IF wrong /\ ~fatal /\ c = root THEN FREE ELSE @[c]],
                  !.used = @ \cup ({root} \ {FREE})]
             /\ mod' = mod \cup (IF fatal THEN {"FATAL"} ELSE IF wrong THEN {"FATMOD"} ELSE {})
             /\ phase' = IF fatal THEN "out" ELSE "dirs"
    /\ at' = 1
    /\ dir' = [root |-> TRUE, head |-> root, up |-> FREE, cl |-> root]
    /\ buf' = dirs[root]
    /\ UNCHANGED <<card, boot, tree, todo, lost, lf, sig, exit, mishaps, kept>>

-----------------------------------------------------------------------------
\* Phase 3: handleDirTree.

\* Entries of the buffer still to be looked at.
Later == {t \in at .. Slots : buf[t].kind # "none"}
IsNext(t) == t \in Later /\ \A u \in Later : t <= u

\* Seeded fault: the head of the chain is not compared.
InUse(h) == h \in Clusters => fat.next[h] \in {FREE, RSRVD, BAD}

BadStart(h) == h \in Clusters => \/ fat.next[h] \in {FREE, RSRVD, BAD}
                                 \/ fat.head[h] # h

\* Seeded fault: one cluster too far.
CutLate(next, h, size) ==
    LET step == [p \in FatValue |-> IF p \in Clusters THEN next[p] ELSE p]
        c[k \in 0 .. size] == IF k = 0 THEN h ELSE step[c[k - 1]]
    IN  c[size]

\* The cluster behind which a file of that size ends.
CutAt(next, h, size) ==
    LET step == [p \in FatValue |-> IF p \in Clusters THEN next[p] ELSE p]
        c[k \in 0 .. size] == IF k <= 1 THEN h ELSE step[c[k - 1]]
    IN  c[size]

\* checksize: what it leaves of the FAT and of the size, and its flags.
\* "Drop superfluous" calls clearchain on a cluster in the middle of a chain.
checksize(f, h, size, yes) ==
    LET physical == IF h = FREE THEN 0 ELSE f.length[h]
        cl == CutAt(f.next, h, size)
    IN  CASE h = OUT -> [fat |-> f, size |-> size, mod |-> {"ERROR"}]
          [] h # OUT /\ physical < size ->
               [fat |-> f, size |-> IF yes THEN physical ELSE size,
                mod |-> If({"DIRMOD", "THIS"}, yes)]
          [] h # OUT /\ physical > size ->
               [fat |-> IF yes /\ cl \in Clusters
                        THEN [clearchain(f, f.next[cl]) EXCEPT !.next[cl] = EOF] ELSE f,
                size |-> size, mod |-> If({"FATMOD"}, yes)]
          [] OTHER -> [fat |-> f, size |-> size, mod |-> {}]

\* A length that a truncated chain has kept leads the walk over its end, to an
\* index outside the FAT; the read is taken to kill the process.
Overruns(f, h, size, yes) ==
    /\ yes /\ h \in Clusters /\ f.length[h] > size
    /\ CutAt(f.next, h, size) \notin Places

\* What the questions about the start of a file leave: the chain of an empty
\* file is cleared, and a file whose chain is not its own loses it.
StartOfFile(e, yes) ==
    LET empty == e.size = 0 /\ e.start # FREE
        bad == e.size # 0 /\ BadStart(e.start)
        h == IF empty /\ yes THEN FREE ELSE e.start
    IN  [fat |-> [(IF empty /\ yes THEN clearchain(fat, e.start) ELSE fat)
                    EXCEPT !.used = @ \cup ({h} \cap Clusters)],
         chain |-> h,
         start |-> IF bad /\ yes THEN FREE ELSE h,
         size |-> IF bad /\ yes THEN 0 ELSE e.size,
         mod |-> (IF empty \/ bad THEN If({"DIRMOD", "THIS"}, yes) ELSE {})
                   \cup (IF empty /\ yes THEN {"FATMOD"} ELSE {})]

\* readDosDirSection on the entry of a file.
ReadFile ==
    /\ phase = "dirs"
    /\ \E t \in Later, first \in Answers, second \in Answers :
         LET q == StartOfFile(buf[t], first)
             r == checksize(q.fat, q.chain, q.size, second)
         IN  /\ IsNext(t) /\ buf[t].kind = "file"
             /\ IF Overruns(q.fat, q.chain, q.size, second)
                THEN Ends("killed") /\ mod' = {}
                ELSE /\ fat' = r.fat
                     /\ buf' = [buf EXCEPT ![t].size = r.size, ![t].start = q.start]
                     /\ tree' = tree \cup q.mod \cup r.mod
                     /\ at' = t + 1
                     /\ UNCHANGED <<mod, phase, dir, todo, lost, lf, sig, exit>>
    /\ UNCHANGED <<card, boot, mishaps, kept>>

\* check_dot_dot: some cluster of the directory begins with '.' and some with
\* '..' behind its first entry.
check_dot_dot(h) ==
    /\ \E c \in Reach(fat.next, h) : dirs[c][1].kind = "dot"
    /\ \E c \in Reach(fat.next, h) : dirs[c][2].kind = "dotdot"

\* readDosDirSection on the entry of a directory that starts no chain.
BadSubdir ==
    /\ phase = "dirs"
    /\ \E t \in Later, remove \in Answers :
         LET e == buf[t]
         IN  /\ IsNext(t) /\ e.kind # "file"
             /\ BadStart(e.start)
             /\ ~(e.kind = "dotdot" /\ e.start = FREE /\ ~dir.root /\ dir.up = FREE)
             /\ buf' = [buf EXCEPT ![t] = IF remove THEN NoEntry ELSE e]
             /\ tree' = tree \cup If({"DIRMOD", "THIS"}, remove)
             /\ at' = t + 1
    /\ UNCHANGED <<card, boot, mod, phase, fat, dir, todo, lost, lf, sig, exit, mishaps, kept>>

\* readDosDirSection on '.' and '..'.
ReadDots ==
    /\ phase = "dirs"
    /\ \E t \in Later, first \in Answers, second \in Answers :
         LET e == buf[t]
             want == CASE e.kind = "dot" -> dir.head
                       [] e.kind = "dotdot" /\ ~dir.root -> dir.up
                       [] OTHER -> e.start
         IN  /\ IsNext(t) /\ e.kind \in {"dot", "dotdot"}
             /\ \/ ~BadStart(e.start)
                \/ e.kind = "dotdot" /\ e.start = FREE /\ ~dir.root /\ dir.up = FREE
             /\ fat' = [fat EXCEPT !.used = @ \cup ({e.start} \cap Clusters)]
             /\ buf' = [buf EXCEPT ![t].size = IF first THEN 0 ELSE e.size,
                                   ![t].start = IF second THEN want ELSE e.start]
             /\ tree' = tree
                  \cup (IF e.size # 0 THEN If({"DIRMOD", "THIS"}, first) ELSE {})
                  \cup (IF e.start # want THEN If({"DIRMOD", "THIS"}, second) ELSE {})
             /\ at' = t + 1
    /\ UNCHANGED <<card, boot, mod, phase, dir, todo, lost, lf, sig, exit, mishaps, kept>>

\* readDosDirSection on the entry of a subdirectory: it is removed if it is
\* the directory itself or has no '.' or '..', and read later otherwise.
ReadSubdir ==
    /\ phase = "dirs"
    /\ \E t \in Later, first \in Answers, remove \in Answers :
         LET e == buf[t]
             bad == e.start = dir.head \/ ~check_dot_dot(e.start)
         IN  /\ IsNext(t) /\ e.kind \in {"dir", "lost"} /\ ~BadStart(e.start)
             /\ fat' = [fat EXCEPT !.used = @ \cup {e.start}]
             /\ buf' = [buf EXCEPT ![t] = IF bad /\ remove THEN NoEntry
                                          ELSE [e EXCEPT !.size = IF first THEN 0 ELSE @]]
             /\ tree' = tree
                  \cup (IF e.size # 0 THEN If({"DIRMOD", "THIS"}, first) ELSE {})
                  \cup (IF bad THEN If({"DIRMOD", "THIS"}, remove) ELSE {})
             /\ todo' = IF bad THEN todo
                        ELSE <<[root |-> FALSE, head |-> e.start, cl |-> e.start,
                                up |-> IF dir.root THEN FREE ELSE dir.head]>> \o todo
             /\ lost' = IF ~bad /\ e.kind = "lost" /\ dir.root THEN e.start ELSE lost
             /\ phase' = IF e.start # dir.head /\ Endless(fat.next, e.start)
                         THEN "spinning" ELSE phase
             /\ at' = t + 1
    /\ UNCHANGED <<card, boot, mod, dir, lf, sig, exit, mishaps, kept>>

\* The end of a directory cluster: write it if it has changed and go on with
\* the next one, the next directory, or the lost chains.  An endless root
\* directory is read round and round.
EndCluster ==
    /\ phase = "dirs" /\ Later = {}
    /\ dirs' = IF "THIS" \in tree THEN [dirs EXCEPT ![dir.cl] = buf] ELSE dirs
    /\ LET next == IF dir.cl = FREE THEN FREE ELSE fat.next[dir.cl]
           there == IF next \in Clusters THEN [dir EXCEPT !.cl = next]
                    ELSE IF todo # <<>> THEN Head(todo) ELSE NoDir
           over == next \notin Clusters /\ todo = <<>>
       IN  /\ dir' = there
           /\ buf' = IF over THEN NoBuf ELSE dirs'[there.cl]
           /\ todo' = IF next \in Clusters \/ over THEN todo ELSE Tail(todo)
           /\ mod' = IF over THEN mod \cup (tree \ {"THIS"}) ELSE mod
           /\ tree' = IF over THEN {} ELSE tree \ {"THIS"}
           /\ phase' = CASE over -> "lost"
                         [] ~over /\ next \in Clusters /\ Endless(fat.next, next) -> "spinning"
                         [] OTHER -> "dirs"
           /\ at' = IF over THEN 2 ELSE 1
    /\ UNCHANGED <<fats, boot, fat, lost, lf, sig, exit, mishaps, kept>>

\* The write fails: handleDirTree forgets its other flags.
DirWriteFails ==
    /\ phase = "dirs" /\ Later = {} /\ "THIS" \in tree
    /\ mishaps < MaxMishaps /\ mishaps' = mishaps + 1
    /\ mod' = mod \cup {"FATAL"}
    /\ GoOn("out", 0)
    /\ UNCHANGED <<card, boot, fat, kept>>

-----------------------------------------------------------------------------
\* Phase 4: checklost.

\* Seeded fault: FAT_USED is not looked at.
AllChains == {h \in Clusters : /\ h >= at /\ fat.head[h] = h
                               /\ fat.next[h] \notin {FREE, RSRVD, BAD}}

LostChains == {h \in Clusters : /\ h >= at /\ fat.head[h] = h /\ h \notin fat.used
                                /\ fat.next[h] \notin {FREE, RSRVD, BAD}}

HasRoom(b) == \E t \in 1 .. Slots : b[t].kind = "none"

\* Clusters of LOST.DIR that reconnect has still to read.
Ahead == Reach(fat.next, IF lf.cl = FREE THEN lost ELSE fat.next[lf.cl])

\* Clusters of LOST.DIR that reconnect finds room in: the buffer, or the first
\* one behind it.  There is one or none.
Rooms ==
    IF lf.cl # FREE /\ HasRoom(lf.buf) THEN {lf}
    ELSE {[cl |-> c, buf |-> dirs[c]] :
            c \in {d \in Ahead : /\ HasRoom(dirs[d])
                                 /\ \A e \in Ahead \ {d} :
                                      HasRoom(dirs[e]) => d \notin Reach(fat.next, e)}}

\* What the buffer holds when there is no room: the last cluster read.
LastRead == IF Ahead = {} THEN {lf.buf}
            ELSE {dirs[c] : c \in {d \in Ahead : fat.next[d] \notin Clusters}}

WithFile(b, h) ==
    LET t == CHOOSE t \in 1 .. Slots : b[t].kind = "none" /\ \A u \in 1 .. t - 1 : b[u].kind # "none"
    IN  [b EXCEPT ![t] = [kind |-> "file", start |-> h, size |-> fat.length[h]]]

\* The chain is entered into LOST.DIR, which is written at once.  If the write
\* fails the chain is cleared, but the entry stays in the buffer.
Reconnect ==
    /\ phase = "lost" /\ TRUE \in Answers /\ lost # FREE
    /\ \E h \in LostChains, room \in Rooms :
         LET b == WithFile(room.buf, h)
             f == [fat EXCEPT !.used = @ \cup {h}]
         IN  /\ \A g \in LostChains : h <= g
             /\ lf' = [cl |-> room.cl, buf |-> b]
             /\ at' = h + 1
             /\ \/ /\ dirs' = [dirs EXCEPT ![room.cl] = b]
                   /\ fat' = f
                   /\ mod' = mod \cup {"DIRMOD"}
                   /\ UNCHANGED mishaps
                \/ /\ mishaps < MaxMishaps /\ mishaps' = mishaps + 1
                   /\ fat' = clearchain(f, h)
                   /\ mod' = mod \cup {"FATMOD"}
                   /\ UNCHANGED dirs
    /\ UNCHANGED <<fats, boot, phase, dir, buf, tree, todo, lost, sig, exit, kept>>

\* Reconnecting is refused, or there is no LOST.DIR or no room in it.
NotReconnected ==
    /\ phase = "lost"
    /\ \E h \in LostChains, clear \in Answers :
         /\ \A g \in LostChains : h <= g
         /\ \/ FALSE \in Answers /\ UNCHANGED lf
            \/ /\ TRUE \in Answers /\ lost = FREE
               /\ UNCHANGED lf
            \/ /\ TRUE \in Answers /\ lost # FREE /\ Rooms = {}
               /\ \E b \in LastRead : lf' = [cl |-> lost, buf |-> b]
         /\ fat' = IF clear THEN clearchain(fat, h) ELSE fat
         /\ mod' = mod \cup {"ERROR"} \cup (IF clear THEN {"FATMOD"} ELSE {})
         /\ at' = h + 1
    /\ UNCHANGED <<card, boot, phase, dir, buf, tree, todo, lost, sig, exit, mishaps, kept>>

-----------------------------------------------------------------------------
\* The end of checkfilesys.

UpdateFats ==
    /\ phase = "lost" /\ LostChains = {}
    /\ \E update \in Answers :
         /\ phase' = IF "FATMOD" \in mod /\ update THEN "write" ELSE "dirty"
         /\ mod' = mod \cup (IF "FATMOD" \in mod /\ ~update THEN {"ERROR"} ELSE {})
    /\ at' = 1
    /\ sig' = IF "FIXFAT" \in mod THEN "clean" ELSE fats[1].sig
    /\ UNCHANGED <<card, boot, fat, dir, buf, tree, todo, lost, lf, exit, mishaps, kept>>

\* A write of copy `at' that breaks off: up to some cluster it is the new one.
Torn == {fats} \cup {[fats EXCEPT ![at] = [sig |-> sig, next |-> [c \in Clusters |->
                         IF c <= end THEN fat.next[c] ELSE @.next[c]]]] : end \in Clusters}

\* writefat goes on with the next copy when one cannot be written, or not to
\* its end.
writefat ==
    /\ phase \in {"write", "clean"}
    /\ \/ /\ fats' = [fats EXCEPT ![at] = [sig |-> sig, next |-> fat.next]]
          /\ UNCHANGED <<mod, mishaps>>
       \/ /\ mishaps < MaxMishaps /\ mishaps' = mishaps + 1
          /\ mod' = mod \cup {"FATAL"}
          /\ fats' \in Torn
    /\ IF at < Copies THEN GoOn(phase, at + 1)
       ELSE IF phase = "clean" \/ "FATAL" \in mod' THEN GoOn("out", 0)
       ELSE GoOn("dirty", 1)
    /\ UNCHANGED <<dirs, boot, fat, kept>>

MarkClean ==
    /\ phase = "dirty"
    /\ LET asked == "DIRTY" \in mod /\ "ERROR" \notin mod
       IN  \E clean \in Answers :
             /\ phase' = IF asked /\ clean THEN "clean" ELSE "out"
             /\ mod' = mod \cup (IF asked /\ ~clean THEN {"ERROR"} ELSE {})
    /\ at' = 1 /\ sig' = "clean"
    /\ UNCHANGED <<card, boot, fat, dir, buf, tree, todo, lost, lf, exit, mishaps, kept>>

\* "modified" is exit status 4, "failed" 8 and "ok" 0.
Exit ==
    /\ phase = "out"
    /\ Ends(IF mod \cap {"FATMOD", "DIRMOD"} # {} THEN "modified"
            ELSE IF mod \cap {"FATAL", "ERROR"} # {} THEN "failed" ELSE "ok")
    /\ UNCHANGED <<card, boot, mod, mishaps, kept>>

-----------------------------------------------------------------------------
\* The checker dies or power goes.  A copy of the FAT may be written in part.
Kill ==
    /\ phase # "idle"
    /\ mishaps < MaxMishaps /\ mishaps' = mishaps + 1
    /\ fats' \in IF phase \in {"write", "clean"} THEN Torn ELSE {fats}
    /\ Ends("killed") /\ mod' = {}
    /\ UNCHANGED <<dirs, boot, kept>>

\* A loop over an endless chain goes on.
Spin == phase = "spinning" /\ UNCHANGED vars

Init ==
    /\ \E v \in Cases : /\ root = v.root /\ compare = v.compare /\ mode = v.mode
                        /\ fats = v.fats /\ dirs = v.dirs
    /\ phase = "idle" /\ at = 0 /\ mod = {} /\ exit = "none"
    /\ fat = Blank /\ dir = NoDir /\ buf = NoBuf /\ tree = {} /\ todo = <<>>
    /\ lost = FREE /\ lf = NoLf /\ sig = "clean"
    /\ mishaps = 0 /\ kept = {} /\ looked = FALSE

Check ==
    \/ Start \/ Load \/ MarkChains \/ BrokenChain \/ CrossLink \/ OpenRoot
    \/ ReadFile \/ BadSubdir \/ ReadDots \/ ReadSubdir \/ EndCluster \/ DirWriteFails
    \/ Reconnect \/ NotReconnected \/ UpdateFats \/ writefat \/ MarkClean \/ Exit \/ Spin

Next == Check \/ Kill

\* Somebody runs the check again and again, and it makes progress.
Spec == Init /\ [][Next]_vars /\ WF_vars(Check)
-----------------------------------------------------------------------------
\* The variables keep their types; the buffer, the todo list and the FAT in
\* memory are what fat.c and dir.c may index without a further check.
TypeOK ==
    /\ root \in Places /\ compare \in BOOLEAN /\ mode \in Modes /\ looked \in BOOLEAN
    /\ fats \in [1 .. Copies -> [sig : {"clean", "dirty", "odd"}, next : [Clusters -> FatValue]]]
    /\ dirs \in [Places -> [1 .. Slots -> Entry]]
    /\ phase \in {"idle", "load", "mark", "chains", "dirs", "lost", "write", "dirty",
                  "clean", "out", "spinning"}
    /\ at \in Nat
    /\ fat \in [next : [Clusters -> FatValue], head : [Clusters -> {0} \cup Clusters],
                length : [Clusters -> Nat], used : SUBSET Clusters]
    /\ mod \subseteq {"DIRMOD", "FATMOD", "ERROR", "FATAL", "DIRTY", "FIXFAT"}
    /\ dir \in [root : BOOLEAN, head : Places, up : Places, cl : Places]
    /\ buf \in [1 .. Slots -> Entry]
    /\ tree \subseteq {"DIRMOD", "FATMOD", "ERROR", "THIS"}
    /\ todo \in Seq([root : BOOLEAN, head : Places, up : Places, cl : Places])
    /\ lost \in Places
    /\ lf \in [cl : Places, buf : [1 .. Slots -> Entry]]
    /\ sig \in {"clean", "dirty", "odd"}
    /\ exit \in {"none", "ok", "modified", "failed", "killed"}
    /\ mishaps \in 0 .. MaxMishaps
    /\ kept \subseteq 1 .. Slots

\* A consistent card, said without the steps of the checker: chains that do not
\* meet and that end, none of them lost, and entries that fit them.  Two entries
\* may start at the same chain: FAT_USED is set and never asked for then.
IsHead(next, h) == /\ h \in Clusters /\ next[h] \notin {FREE, BAD}
                   /\ \A c \in Clusters : next[c] # h

ChainsSound(next) ==
    \A c \in Clusters :
        /\ next[c] \notin {OUT, RSRVD}
        /\ next[c] \in Clusters =>
             /\ next[next[c]] \notin {FREE, BAD}
             /\ \A d \in Clusters : next[d] = next[c] => d = c
             /\ ~Endless(next, c)

EntriesOf(next, d) == {dirs[p][t] : p \in IF d.head = FREE THEN {FREE} ELSE Reach(next, d.head),
                                    t \in 1 .. Slots}

\* The directories that can be reached from the root.
Tree(next) ==
    LET level[k \in 0 .. NumClusters * NumClusters] ==
            IF k = 0 THEN {[root |-> TRUE, head |-> root, up |-> FREE]}
            ELSE LET l == level[k - 1]
                 IN  l \cup UNION {{[root |-> FALSE, head |-> e.start,
                                     up |-> IF d.root THEN FREE ELSE d.head] :
                                      e \in {x \in EntriesOf(next, d) : x.kind \in {"dir", "lost"}
                                                                        /\ x.start \in Clusters}} : d \in l}
    IN  level[NumClusters * NumClusters]

EntrySound(next, d, e) ==
    /\ e.kind = "file" => IF e.size = 0 THEN e.start = FREE
                          ELSE IsHead(next, e.start) /\ Cardinality(Reach(next, e.start)) = e.size
    /\ e.kind \in {"dir", "lost"} =>
         /\ e.size = 0 /\ IsHead(next, e.start)
         /\ {"dot", "dotdot"} \subseteq {x.kind : x \in EntriesOf(next, [head |-> e.start])}
    /\ e.kind = "dot" /\ ~d.root => e.size = 0 /\ e.start = d.head
    /\ e.kind = "dotdot" /\ ~d.root => e.size = 0 /\ e.start = d.up

Sound ==
    LET next == fats[1].next
        all == Tree(next)
    IN  /\ compare => \A i \in 1 .. Copies : fats[i].next = next
        /\ ChainsSound(next)
        /\ root = FREE \/ IsHead(next, root)
        /\ \A d \in all : \A e \in EntriesOf(next, d) : EntrySound(next, d, e)
        /\ \A h \in Clusters : IsHead(next, h) =>
             h = root \/ \E d \in all : \E e \in EntriesOf(next, d) : e.start = h

\* Exit status 0 of a check that looked at the FAT is only given to a card that
\* is consistent, whatever damage it had before, whoever answered, and whatever
\* a check before it that was killed or could not write has left.  The same
\* status without a look comes from -p alone, and vouches for the mark in the
\* first copy, not for the card.
OkMeansSound == exit = "ok" => IF looked THEN Sound
                               ELSE mode = "preen" /\ fats[1].sig = "clean"

\* When a check ends without FSERROR and FSFATAL, what it decided about the FAT
\* is on the card, in every copy: the checks below a fault or a refusal never
\* lose a change without saying so.
NothingPending ==
    phase = "out" /\ mod \cap {"ERROR", "FATAL"} = {} =>
        \A i \in 1 .. Copies : compare \/ i = 1 \/ "FATMOD" \in mod => fats[i].next = fat.next

\* A file that the damage has not reached keeps its entry and its chain, in
\* every copy of the FAT, at every moment: whatever the answers are, and
\* whenever the checker dies or a write fails.
InnocentKept ==
    [][\A s \in kept :
          /\ dirs'[root][s] = dirs[root][s]
          /\ \A i \in 1 .. Copies, c \in Reach(fats[1].next, dirs[root][s].start) :
                fats'[i].next[c] = fats[i].next[c]]_card

\* With -n the card is never written.
ReadOnly == [][mode # "no"]_card

\* Checks come to an end, and repeated often enough with -y one of them finds
\* nothing left to do, whatever the answers to the first one were, and although
\* one was killed or could not write.
Settles == root = FREE ~> (exit = "ok" /\ looked) \/ phase = "spinning"
=============================================================================
