---------------------------- MODULE FatCheck_proofs ----------------------------
(***************************************************************************)
(* Proofs about FatCheck, for any number of clusters, copies and entries,  *)
(* any damage and any answers.                                             *)
(*                                                                         *)
(* The types come first, then what -n never does, then what a check owes   *)
(* to the card (Announced).  The second half is about exit status 0: what  *)
(* Reach, LastOf and Tree compute, why marks that nothing disputes are the *)
(* chains (ChainsOk), why a walk that has read all it was led to has read  *)
(* the tree (WalkOver), and the invariant Sure of a check that is quiet.   *)
(* The last part guards a file that nothing disputes: every repair of a    *)
(* chain spares it (Spares), no question is about its chain (OtherChain,   *)
(* LostOther), and so its entry and its chain stay (Guarded).              *)
(***************************************************************************)
EXTENDS FatCheck, TLAPS, FiniteSetTheorems, WellFoundedInduction

-----------------------------------------------------------------------------
(* The types of the larger values. *)

Table == [Clusters -> FatValue]
Copy == [sig : {"clean", "dirty", "odd"}, next : Table]
Chains == [next : Table, head : [Clusters -> {0} \cup Clusters],
           length : [Clusters -> Nat], used : SUBSET Clusters]
Buffer == [1 .. Slots -> Entry]
Directory == [root : BOOLEAN, head : Places, up : Places, cl : Places]
Flags == {"DIRMOD", "FATMOD", "ERROR", "FATAL", "DIRTY", "FIXFAT"}
TreeFlags == {"DIRMOD", "FATMOD", "ERROR", "THIS"}

(* The copy that is read or written exists, and so does the entry. *)
InCopies == /\ phase \in {"load", "write", "clean"} => at \in 1 .. Copies
            /\ phase = "dirs" => 1 <= at

Typed == TypeOK /\ InCopies

(* TypeOK in these names. *)
Pieces ==
  /\ root \in Places /\ compare \in BOOLEAN /\ mode \in Modes /\ looked \in BOOLEAN
  /\ fats \in [1 .. Copies -> Copy] /\ dirs \in [Places -> Buffer]
  /\ phase \in {"idle", "load", "mark", "chains", "dirs", "lost", "write", "dirty",
                "clean", "out", "spinning"}
  /\ at \in Nat /\ fat \in Chains /\ mod \subseteq Flags
  /\ dir \in Directory /\ buf \in Buffer /\ tree \subseteq TreeFlags
  /\ todo \in Seq(Directory) /\ lost \in Places /\ lf \in [cl : Places, buf : Buffer]
  /\ sig \in {"clean", "dirty", "odd"}
  /\ exit \in {"none", "ok", "modified", "failed", "killed"}
  /\ mishaps \in 0 .. MaxMishaps /\ kept \subseteq 1 .. Slots

LEMMA TypedPieces == (Typed <=> Pieces /\ InCopies) /\ (Typed' <=> Pieces' /\ InCopies')
BY DEF Typed, TypeOK, Pieces, Table, Copy, Chains, Buffer, Directory, Flags, TreeFlags

LEMMA NumberFacts ==
  /\ NumClusters \in Nat /\ NumClusters > 2
  /\ Copies \in Nat /\ 1 <= Copies /\ Slots \in Nat /\ 2 <= Slots /\ MaxMishaps \in Nat
BY SizesOK, BoundOK

LEMMA ValueFacts ==
  /\ Clusters \subseteq Nat /\ 0 \notin Clusters /\ OUT \notin Clusters
  /\ RSRVD \notin Clusters /\ BAD \notin Clusters /\ EOF \notin Clusters
  /\ Clusters \subseteq FatValue /\ Clusters \subseteq Places
  /\ FREE \in FatValue /\ EOF \in FatValue /\ FREE \in Places /\ FREE = 0
  /\ FatValue \subseteq Nat
BY SizesOK DEF Clusters, FatValue, Places, FREE, OUT, RSRVD, BAD, EOF

LEMMA ClustersFinite == IsFiniteSet(Clusters) /\ Cardinality(Clusters) \in Nat
<1>1. IsFiniteSet(2 .. NumClusters - 1)
  BY SizesOK, FS_Interval
<1>2. QED
  BY <1>1, FS_CardinalityType DEF Clusters

(* Every set of clusters that is not empty has a greatest element. *)
LEMMA Greatest ==
  ASSUME NEW S, S \subseteq Clusters, S # {}
  PROVE  \E h \in S : \A g \in S : g <= h
<1> DEFINE T == {n \in Nat : \E c \in S : n = NumClusters - c}
<1>1. \A c \in S : c \in Nat /\ c < NumClusters
  BY SizesOK DEF Clusters
<1>2. T \subseteq Nat /\ T # {}
  BY <1>1, SizesOK
<1>3. PICK n \in T : \A m \in T : <<m, n>> \notin OpToRel(<, Nat)
  BY <1>2, NatLessThanWellFounded, WFMin
<1>4. PICK h \in S : n = NumClusters - h
  OBVIOUS
<1>5. ASSUME NEW g \in S
      PROVE  g <= h
  <2>1. NumClusters - g \in T
    BY <1>1, SizesOK
  <2>2. ~(NumClusters - g < n)
    BY <2>1, <1>2, <1>3 DEF OpToRel
  <2>3. QED
    BY <2>2, <1>1, <1>4, SizesOK
<1>6. QED
  BY <1>4, <1>5
-----------------------------------------------------------------------------
(* The operators on the FAT in memory keep its type. *)

(* The clusters of a walk. *)
LEMMA ReachType ==
  ASSUME NEW next, NEW p
  PROVE  /\ Reach(next, p) \subseteq Clusters
         /\ Cardinality(Reach(next, p)) \in Nat
<1>1. Reach(next, p) \subseteq Clusters
  BY DEF Reach
<1>2. QED
  BY <1>1, ClustersFinite, FS_Subset, FS_CardinalityType

(* clearchain frees clusters or does nothing. *)
LEMMA ClearchainType ==
  ASSUME NEW f \in Chains, NEW h
  PROVE  clearchain(f, h) \in Chains
<1>1. FREE \in FatValue /\ 0 \in FatValue /\ 0 \in Nat
  BY ValueFacts
<1>2. QED
  BY <1>1 DEF clearchain, Chains, Table

LEMMA TryclearType ==
  ASSUME NEW f \in Chains, NEW h, NEW p, NEW clear \in BOOLEAN, NEW trunc \in BOOLEAN
  PROVE  /\ tryclear(f, h, p, clear, trunc).fat \in Chains
         /\ tryclear(f, h, p, clear, trunc).mod \in {{"FATMOD"}, {"ERROR"}}
<1>1. clearchain(f, h) \in Chains
  BY ClearchainType
<1>2. [f EXCEPT !.next[p] = EOF] \in Chains
  BY ValueFacts DEF Chains, Table
<1>3. QED
  BY <1>1, <1>2 DEF tryclear

LEMMA ChecksizeType ==
  ASSUME NEW f \in Chains, NEW h \in Places \cup {OUT}, NEW size \in Nat, NEW yes \in BOOLEAN
  PROVE  /\ checksize(f, h, size, yes).fat \in Chains
         /\ checksize(f, h, size, yes).size \in Nat
         /\ checksize(f, h, size, yes).mod \subseteq TreeFlags
<1> DEFINE cl == CutAt(f.next, h, size)
           physical == IF h = FREE THEN 0 ELSE f.length[h]
<1>1. clearchain(f, f.next[cl]) \in Chains
  BY ClearchainType
<1>2. [clearchain(f, f.next[cl]) EXCEPT !.next[cl] = EOF] \in Chains
  BY <1>1, ValueFacts DEF Chains, Table
<1>3. h # OUT => physical \in Nat
  BY DEF Chains, Places
<1>4. If({"DIRMOD", "THIS"}, yes) \subseteq TreeFlags /\ If({"FATMOD"}, yes) \subseteq TreeFlags
  BY DEF If, TreeFlags
<1> HIDE DEF cl
<1>5. CASE h = OUT
  BY <1>5 DEF checksize, TreeFlags
<1>6. CASE h # OUT /\ physical < size
  BY <1>3, <1>4, <1>6 DEF checksize
<1>7. CASE h # OUT /\ physical > size
  <2>1. /\ checksize(f, h, size, yes).fat \in {f, [clearchain(f, f.next[cl]) EXCEPT !.next[cl] = EOF]}
        /\ checksize(f, h, size, yes).size = size
        /\ checksize(f, h, size, yes).mod = If({"FATMOD"}, yes)
    BY <1>3, <1>7 DEF checksize, cl
  <2>2. QED
    BY <2>1, <1>2, <1>4
<1>8. CASE h # OUT /\ ~(physical < size) /\ ~(physical > size)
  BY <1>8 DEF checksize
<1>9. QED
  BY <1>5, <1>6, <1>7, <1>8
-----------------------------------------------------------------------------
(* Every step keeps the types. *)

LEMMA EntryFacts ==
  /\ NoEntry \in Entry /\ NoBuf \in Buffer /\ NoDir \in Directory
  /\ NoLf \in [cl : Places, buf : Buffer] /\ Blank \in Chains
<1>1. NoEntry \in Entry
  BY ValueFacts DEF NoEntry, Entry, FREE
<1>2. NoBuf \in Buffer
  BY <1>1 DEF NoBuf, Buffer
<1>3. QED
  BY <1>1, <1>2, ValueFacts DEF NoDir, NoLf, Blank, Directory, Chains, Table

LEMMA AnswersType == Answers \subseteq BOOLEAN
BY DEF Answers

(* The end of the process, from any of its steps. *)
LEMMA EndsType ==
  ASSUME Typed, NEW verdict \in {"ok", "modified", "failed", "killed"}, Ends(verdict),
         mod' \subseteq Flags, root' = root, compare' = compare, mode' = mode,
         looked' \in BOOLEAN,
         fats' \in [1 .. Copies -> Copy], dirs' = dirs, mishaps' \in 0 .. MaxMishaps, kept' = kept
  PROVE  Typed'
BY EntryFacts, ValueFacts
   DEF Ends, Typed, TypeOK, InCopies, Flags, Copy, Table, Buffer, Directory, Chains

LEMMA StartType == ASSUME Typed, Start PROVE Typed'
<1>1. kept' \subseteq 1 .. Slots
  BY DEF Start
<1>2. mode' \in Modes
  BY DEF Start, Typed, TypeOK, Modes
<1>3. looked' \in BOOLEAN /\ mod' \subseteq Flags
  BY DEF Start, Flags
<1>4. /\ phase' \in {"idle", "load"} /\ at' \in Nat
      /\ phase' = "load" => at' = 1
      /\ exit' \in {"ok", "none"}
  BY DEF Start, Typed, TypeOK
<1>5. UNCHANGED <<card, root, compare, memory, mishaps>>
  BY DEF Start
<1>6. QED
  BY <1>1, <1>2, <1>3, <1>4, <1>5, NumberFacts, TypedPieces DEF Pieces, InCopies, card, memory

(* What Load chooses. *)
LEMMA LoadStep ==
  ASSUME Load
  PROVE  \E cut \in SUBSET Odd, fix \in Answers :
           \E pick \in [Differing(readfat(at, cut)) -> Picks] :
             /\ TRUE \notin Answers => cut = {}
             /\ fat' = [fat EXCEPT !.next = Compared(readfat(at, cut), pick)]
             /\ mod' = mod \cup LoadFlags(cut, Differing(readfat(at, cut)), pick, fix)
BY DEF Load

LEMMA RefusalType == \A v : Refusal(v) \in {"FATAL", "ERROR"}
BY DEF Refusal

LEMMA LoadType == ASSUME Typed, Load PROVE Typed'
<1>1. /\ at \in 1 .. Copies /\ fats[at].next \in Table /\ fat \in Chains /\ Pieces
  BY TypedPieces DEF Load, Pieces, InCopies, Copy
<1>2. PICK cut \in SUBSET Odd, fix \in Answers :
        \E pick \in [Differing(readfat(at, cut)) -> Picks] :
             /\ fat' = [fat EXCEPT !.next = Compared(readfat(at, cut), pick)]
             /\ mod' = mod \cup LoadFlags(cut, Differing(readfat(at, cut)), pick, fix)
  BY LoadStep
<1>3. PICK pick \in [Differing(readfat(at, cut)) -> Picks] :
             /\ fat' = [fat EXCEPT !.next = Compared(readfat(at, cut), pick)]
             /\ mod' = mod \cup LoadFlags(cut, Differing(readfat(at, cut)), pick, fix)
  BY <1>2
<1>4. fat' \in Chains
  <2>1. readfat(at, cut) \in Table
    BY <1>1, ValueFacts DEF readfat, Table
  <2>2. Compared(readfat(at, cut), pick) \in Table
    BY <1>1, <2>1 DEF Compared, Settled, Table, Chains
  <2>3. QED
    BY <1>1, <1>3, <2>2 DEF Chains
<1>5. mod' \subseteq Flags
  BY <1>1, <1>3, RefusalType DEF LoadFlags, Flags, Pieces
<1>6. /\ phase' \in {"out", "load", "mark"} /\ at' \in Nat
      /\ phase' = "load" => at' \in 1 .. Copies
  BY <1>1, NumberFacts DEF Load
<1>7. UNCHANGED <<card, boot, dir, buf, tree, todo, lost, lf, sig, exit, mishaps, kept>>
  BY DEF Load
<1>8. QED
  BY <1>1, <1>4, <1>5, <1>6, <1>7, TypedPieces DEF Pieces, InCopies, card, boot

LEMMA MarkChainsType == ASSUME Typed, MarkChains PROVE Typed'
<1> DEFINE over(c) == {h \in Starts(fat.next) : c \in Reach(fat.next, h)}
           top(c) == CHOOSE h \in over(c) : \A g \in over(c) : g <= h
<1>1. ASSUME NEW c \in Clusters, over(c) # {}
      PROVE  top(c) \in Clusters
  <2>1. over(c) \subseteq Clusters
    BY DEF Starts
  <2>2. \E h \in over(c) : \A g \in over(c) : g <= h
    BY <1>1, <2>1, Greatest
  <2>3. QED
    BY <2>1, <2>2
<1>2. [c \in Clusters |-> IF over(c) = {} THEN 0 ELSE top(c)] \in [Clusters -> {0} \cup Clusters]
  BY <1>1
<1>3. [c \in Clusters |-> IF c \notin Starts(fat.next) THEN 0
                          ELSE IF Endless(fat.next, c) THEN NumClusters + 1
                          ELSE Cardinality(Reach(fat.next, c))] \in [Clusters -> Nat]
  BY ReachType, NumberFacts
<1>4. fat' \in Chains
  <2>1. fat \in Chains
    BY TypedPieces DEF Pieces
  <2>2. fat' = [fat EXCEPT
          !.head = [c \in Clusters |-> IF over(c) = {} THEN 0 ELSE top(c)],
          !.length = [c \in Clusters |-> IF c \notin Starts(fat.next) THEN 0
                          ELSE IF Endless(fat.next, c) THEN NumClusters + 1
                          ELSE Cardinality(Reach(fat.next, c))]]
    BY DEF MarkChains
  <2>3. QED
    BY <1>2, <1>3, <2>1, <2>2 DEF Chains
<1>5. QED
  BY <1>4, TypedPieces DEF MarkChains, GoOn, Pieces, InCopies, card, boot

LEMMA BrokenChainType == ASSUME Typed, BrokenChain PROVE Typed'
<1>1. PICK h \in Suspects, clear \in Answers, trunc \in Answers :
        /\ fat' = tryclear(fat, h, LastOf(fat, h, h), clear, trunc).fat
        /\ mod' = mod \cup tryclear(fat, h, LastOf(fat, h, h), clear, trunc).mod
        /\ GoOn("chains", h + 1)
  BY DEF BrokenChain
<1>2. fat \in Chains
  BY TypedPieces DEF Pieces
<1>3. fat' \in Chains /\ mod' \subseteq Flags
  <2>1. /\ tryclear(fat, h, LastOf(fat, h, h), clear, trunc).fat \in Chains
        /\ tryclear(fat, h, LastOf(fat, h, h), clear, trunc).mod \in {{"FATMOD"}, {"ERROR"}}
    BY <1>2, AnswersType, TryclearType
  <2>2. mod \subseteq Flags
    BY TypedPieces DEF Pieces
  <2>3. QED
    BY <1>1, <2>1, <2>2 DEF Flags
<1>4. h + 1 \in Nat
  BY ValueFacts DEF Suspects
<1>5. QED
  BY <1>1, <1>3, <1>4, TypedPieces DEF BrokenChain, GoOn, Pieces, InCopies, card, boot

(* The choices of CrossLink, for the next chain in question. *)
LEMMA CrossLinkStep ==
  ASSUME CrossLink
  PROVE  \E h \in Suspects, clear \in Answers, trunc \in Answers, other \in Answers :
        LET p == LastOf(fat, h, h)
            n == fat.next[p]
            r == tryclear(fat, h, p, clear, trunc)
            g == r.fat.head[n]
            part == Stretch(r.fat, n, g)
            moves == other /\ r.mod = {"ERROR"}
            taken == [r.fat EXCEPT !.head = [c \in Clusters |-> IF c \in part THEN h ELSE @[c]]]
        IN  /\ \A f \in Suspects : h <= f
            /\ n \in Clusters
            /\ mod' = mod \cup r.mod \cup (IF other THEN {"FATMOD"} ELSE {})
            /\ fat' = CASE moves -> clearchain(taken, g)
                        [] other /\ ~moves -> clearchain(r.fat, g)
                        [] OTHER -> r.fat
            /\ IF moves /\ g = h THEN GoOn("spinning", 0)
               ELSE IF moves /\ r.fat.next[LastOf(r.fat, n, g)] \in Clusters
               THEN GoOn("chains", h)
               ELSE GoOn("chains", h + 1)
BY Zenon DEF CrossLink

LEMMA CrossLinkType == ASSUME Typed, CrossLink PROVE Typed'
<1>1. PICK h \in Suspects, clear \in Answers, trunc \in Answers, other \in Answers :
        LET p == LastOf(fat, h, h)
            n == fat.next[p]
            r == tryclear(fat, h, p, clear, trunc)
            g == r.fat.head[n]
            part == Stretch(r.fat, n, g)
            moves == other /\ r.mod = {"ERROR"}
            taken == [r.fat EXCEPT !.head = [c \in Clusters |-> IF c \in part THEN h ELSE @[c]]]
        IN  /\ \A f \in Suspects : h <= f
            /\ n \in Clusters
            /\ mod' = mod \cup r.mod \cup (IF other THEN {"FATMOD"} ELSE {})
            /\ fat' = CASE moves -> clearchain(taken, g)
                        [] other /\ ~moves -> clearchain(r.fat, g)
                        [] OTHER -> r.fat
            /\ IF moves /\ g = h THEN GoOn("spinning", 0)
               ELSE IF moves /\ r.fat.next[LastOf(r.fat, n, g)] \in Clusters
               THEN GoOn("chains", h)
               ELSE GoOn("chains", h + 1)
  BY CrossLinkStep
<1> DEFINE r == tryclear(fat, h, LastOf(fat, h, h), clear, trunc)
           g == r.fat.head[fat.next[LastOf(fat, h, h)]]
           part == Stretch(r.fat, fat.next[LastOf(fat, h, h)], g)
           taken == [r.fat EXCEPT !.head = [c \in Clusters |-> IF c \in part THEN h ELSE @[c]]]
<1>2. fat \in Chains /\ h \in Clusters
  BY TypedPieces DEF Pieces, Suspects
<1>3. r.fat \in Chains /\ r.mod \in {{"FATMOD"}, {"ERROR"}}
  BY <1>2, AnswersType, TryclearType
<1>4. taken \in Chains
  BY <1>2, <1>3 DEF Chains
<1>5. clearchain(taken, g) \in Chains /\ clearchain(r.fat, g) \in Chains
  BY <1>3, <1>4, ClearchainType
<1>6. fat' \in {clearchain(taken, g), clearchain(r.fat, g), r.fat}
  BY <1>1
<1>7. mod' \subseteq Flags
  BY <1>1, <1>3, TypedPieces DEF Pieces, Flags
<1>8. /\ phase' \in {"spinning", "chains"} /\ at' \in Nat
      /\ UNCHANGED <<dir, buf, tree, todo, lost, lf, sig, exit>>
  BY <1>1, <1>2, ValueFacts DEF GoOn
<1>9. QED
  <2>1. fat' \in Chains
    BY <1>3, <1>5, <1>6
  <2>2. UNCHANGED <<card, boot, mishaps, kept>>
    BY DEF CrossLink
  <2>3. QED
    BY <2>1, <2>2, <1>7, <1>8, TypedPieces DEF Pieces, InCopies, card, boot

LEMMA OpenRootType == ASSUME Typed, OpenRoot PROVE Typed'
<1>1. fat \in Chains /\ root \in Places
  BY TypedPieces DEF Pieces
<1>2. fat' \in Chains
  <2> DEFINE wrong == /\ root # FREE
                      /\ \/ fat.next[root] \in {FREE, RSRVD, BAD}
                         \/ fat.head[root] # root
             fatal(fix) == wrong /\ (fat.next[root] \notin {FREE, RSRVD, BAD} \/ ~fix)
  <2>1. PICK fix \in Answers :
          fat' = [fat EXCEPT
                    !.next = [c \in Clusters |-> IF wrong /\ ~fatal(fix) /\ c = root THEN FREE ELSE @[c]],
                    !.used = @ \cup ({root} \ {FREE})]
    BY DEF OpenRoot
  <2> HIDE DEF wrong, fatal
  <2>2. [c \in Clusters |-> IF wrong /\ ~fatal(fix) /\ c = root THEN FREE ELSE fat.next[c]] \in Table
    BY <1>1, ValueFacts DEF Chains, Table
  <2>3. {root} \ {FREE} \subseteq Clusters
    BY <1>1 DEF Places
  <2>4. QED
    BY <1>1, <2>1, <2>2, <2>3 DEF Chains
<1>3. mod' \subseteq Flags /\ phase' \in {"out", "dirs"}
  BY TypedPieces DEF OpenRoot, Flags, Pieces
<1>4. dir' \in Directory /\ buf' \in Buffer
  BY <1>1, ValueFacts, TypedPieces DEF OpenRoot, Directory, Pieces
<1>5. QED
  BY <1>2, <1>3, <1>4, TypedPieces DEF OpenRoot, Pieces, InCopies, card, boot

(* The questions about the start of a file. *)
LEMMA StartOfFileType ==
  ASSUME NEW e \in Entry, fat \in Chains, NEW yes \in BOOLEAN
  PROVE  /\ StartOfFile(e, yes).fat \in Chains
         /\ StartOfFile(e, yes).chain \in Places \cup {OUT}
         /\ StartOfFile(e, yes).start \in Places \cup {OUT}
         /\ StartOfFile(e, yes).size \in Nat
         /\ StartOfFile(e, yes).mod \subseteq TreeFlags
<1> DEFINE empty == e.size = 0 /\ e.start # FREE
           bad == e.size # 0 /\ BadStart(e.start)
           h == IF empty /\ yes THEN FREE ELSE e.start
           cleared == IF empty /\ yes THEN clearchain(fat, e.start) ELSE fat
<1>1. cleared \in Chains
  BY ClearchainType
<1> HIDE DEF cleared
<1>2. [cleared EXCEPT !.used = @ \cup ({h} \cap Clusters)] \in Chains
  BY <1>1 DEF Chains
<1>3. /\ h \in Places \cup {OUT}
      /\ (IF bad /\ yes THEN FREE ELSE h) \in Places \cup {OUT}
      /\ (IF bad /\ yes THEN 0 ELSE e.size) \in Nat
  BY ValueFacts DEF Entry
<1>4. (IF empty \/ bad THEN If({"DIRMOD", "THIS"}, yes) ELSE {})
        \cup (IF empty /\ yes THEN {"FATMOD"} ELSE {}) \subseteq TreeFlags
  BY DEF If, TreeFlags
<1>5. QED
  BY <1>2, <1>3, <1>4 DEF StartOfFile, cleared

(* What readDosDirSection does with the entry of a file. *)
LEMMA ReadFileStep ==
  ASSUME ReadFile
  PROVE  \E t \in Later, first \in Answers, second \in Answers :
           \/ Ends("killed") /\ mod' = {}
           \/ /\ fat' = checksize(StartOfFile(buf[t], first).fat, StartOfFile(buf[t], first).chain,
                                 StartOfFile(buf[t], first).size, second).fat
              /\ tree' = tree \cup StartOfFile(buf[t], first).mod
                          \cup checksize(StartOfFile(buf[t], first).fat,
                                        StartOfFile(buf[t], first).chain,
                                        StartOfFile(buf[t], first).size, second).mod
              /\ UNCHANGED <<mod, phase>>
<1>1. PICK t \in Later, first \in Answers, second \in Answers :
        LET q1 == StartOfFile(buf[t], first)
            r1 == checksize(q1.fat, q1.chain, q1.size, second)
        IN  /\ IsNext(t) /\ buf[t].kind = "file"
            /\ IF Overruns(q1.fat, q1.chain, q1.size, second)
               THEN Ends("killed") /\ mod' = {}
               ELSE /\ fat' = r1.fat
                    /\ buf' = [buf EXCEPT ![t].size = r1.size, ![t].start = q1.start]
                    /\ tree' = tree \cup q1.mod \cup r1.mod
                    /\ at' = t + 1
                    /\ UNCHANGED <<mod, phase, dir, todo, lost, lf, sig, exit>>
  BY DEF ReadFile
<1> DEFINE q == StartOfFile(buf[t], first)
           r == checksize(q.fat, q.chain, q.size, second)
<1>2. \/ Ends("killed") /\ mod' = {}
      \/ /\ fat' = r.fat /\ tree' = tree \cup q.mod \cup r.mod
         /\ UNCHANGED <<mod, phase>>
  BY <1>1
<1>3. QED
  BY <1>2, ZenonT(40)

LEMMA ReadFileType == ASSUME Typed, ReadFile PROVE Typed'
<1> DEFINE q(t, first) == StartOfFile(buf[t], first)
           r(t, first, second) == checksize(q(t, first).fat, q(t, first).chain,
                                            q(t, first).size, second)
<1>1. PICK t \in Later, first \in Answers, second \in Answers :
        \/ Ends("killed") /\ mod' = {}
        \/ /\ fat' = r(t, first, second).fat
           /\ buf' = [buf EXCEPT ![t].size = r(t, first, second).size,
                                 ![t].start = q(t, first).start]
           /\ tree' = tree \cup q(t, first).mod \cup r(t, first, second).mod
           /\ at' = t + 1
           /\ UNCHANGED <<mod, phase, dir, todo, lost, lf, sig, exit>>
  BY DEF ReadFile
<1>2. /\ UNCHANGED <<card, boot, mishaps, kept>> /\ phase = "dirs"
      /\ Pieces /\ t \in 1 .. Slots /\ first \in BOOLEAN /\ second \in BOOLEAN
  <2>1. phase = "dirs" /\ UNCHANGED <<card, boot, mishaps, kept>>
    BY DEF ReadFile
  <2>2. QED
    BY <2>1, AnswersType, TypedPieces DEF Later, Pieces, InCopies
<1>3. CASE Ends("killed") /\ mod' = {}
  BY <1>2, <1>3, EndsType, TypedPieces DEF Pieces, card, boot, Copy, Table
<1>4. CASE ~(Ends("killed") /\ mod' = {})
  <2>1. buf[t] \in Entry /\ fat \in Chains
    BY <1>2 DEF Pieces, Buffer
  <2>2. /\ q(t, first).fat \in Chains /\ q(t, first).chain \in Places \cup {OUT}
        /\ q(t, first).start \in Places \cup {OUT} /\ q(t, first).size \in Nat
        /\ q(t, first).mod \subseteq TreeFlags
    BY <1>2, <2>1, StartOfFileType
  <2> HIDE DEF q
  <2>3. /\ r(t, first, second).fat \in Chains /\ r(t, first, second).size \in Nat
        /\ r(t, first, second).mod \subseteq TreeFlags
    BY <1>2, <2>2, ChecksizeType
  <2> HIDE DEF r
  <2>4. buf' \in Buffer
    <3>1. PICK s \in Nat, h \in Places \cup {OUT} :
            buf' = [buf EXCEPT ![t].size = s, ![t].start = h]
      BY <1>1, <1>4, <2>2, <2>3
    <3>2. [[buf[t] EXCEPT !.size = s] EXCEPT !.start = h] \in Entry
      BY <2>1 DEF Entry
    <3>3. QED
      BY <1>2, <3>1, <3>2 DEF Pieces, Buffer
  <2>5. tree' \subseteq TreeFlags
    BY <1>1, <1>2, <1>4, <2>2, <2>3 DEF Pieces
  <2>6. /\ fat' \in Chains /\ at' \in Nat /\ 1 <= at'
        /\ UNCHANGED <<mod, phase, dir, todo, lost, lf, sig, exit>>
    BY <1>1, <1>2, <1>4, <2>3
  <2>7. QED
    BY <1>2, <2>4, <2>5, <2>6, TypedPieces DEF Pieces, InCopies, card, boot
<1>5. QED
  BY <1>3, <1>4

LEMMA BadSubdirType == ASSUME Typed, BadSubdir PROVE Typed'
<1>1. PICK t \in Later, remove \in Answers :
        /\ buf' = [buf EXCEPT ![t] = IF remove THEN NoEntry ELSE buf[t]]
        /\ tree' = tree \cup If({"DIRMOD", "THIS"}, remove)
        /\ at' = t + 1
  BY Zenon DEF BadSubdir
<1>2. Pieces /\ t \in 1 .. Slots
  BY TypedPieces DEF Later, Pieces, InCopies, BadSubdir
<1>3. buf' \in Buffer
  BY <1>1, <1>2, EntryFacts DEF Pieces, Buffer
<1>4. tree' \subseteq TreeFlags /\ at' \in Nat /\ 1 <= at'
  BY <1>1, <1>2 DEF Pieces, If, TreeFlags
<1>5. /\ UNCHANGED <<card, boot, mod, phase, fat, dir, todo, lost, lf, sig, exit, mishaps, kept>>
      /\ phase = "dirs"
  BY DEF BadSubdir
<1>6. QED
  BY <1>2, <1>3, <1>4, <1>5, TypedPieces DEF Pieces, InCopies, card, boot

LEMMA ReadDotsType == ASSUME Typed, ReadDots PROVE Typed'
<1> DEFINE want(e) == CASE e.kind = "dot" -> dir.head
                        [] e.kind = "dotdot" /\ ~dir.root -> dir.up
                        [] OTHER -> e.start
<1>1. PICK t \in Later, first \in Answers, second \in Answers :
        /\ fat' = [fat EXCEPT !.used = @ \cup ({buf[t].start} \cap Clusters)]
        /\ buf' = [buf EXCEPT ![t].size = IF first THEN 0 ELSE buf[t].size,
                              ![t].start = IF second THEN want(buf[t]) ELSE buf[t].start]
        /\ tree' = tree
             \cup (IF buf[t].size # 0 THEN If({"DIRMOD", "THIS"}, first) ELSE {})
             \cup (IF buf[t].start # want(buf[t]) THEN If({"DIRMOD", "THIS"}, second) ELSE {})
        /\ at' = t + 1
  BY ZenonT(40) DEF ReadDots
<1>2. Pieces /\ t \in 1 .. Slots
  BY TypedPieces DEF Later, Pieces, InCopies, ReadDots
<1>3. buf[t] \in Entry
  BY <1>2 DEF Pieces, Buffer
<1>4. want(buf[t]) \in Places \cup {OUT}
  BY <1>2, <1>3 DEF Pieces, Entry, Directory
<1> HIDE DEF want
<1>5. buf' \in Buffer
  BY <1>1, <1>2, <1>3, <1>4 DEF Pieces, Buffer, Entry
<1>6. fat' \in Chains
  BY <1>1, <1>2 DEF Pieces, Chains
<1>7. tree' \subseteq TreeFlags /\ at' \in Nat /\ 1 <= at'
  BY <1>1, <1>2 DEF Pieces, If, TreeFlags
<1>8. /\ UNCHANGED <<card, boot, mod, phase, dir, todo, lost, lf, sig, exit, mishaps, kept>>
      /\ phase = "dirs"
  BY DEF ReadDots
<1>9. QED
  BY <1>2, <1>5, <1>6, <1>7, <1>8, TypedPieces DEF Pieces, InCopies, card, boot

LEMMA ReadSubdirType == ASSUME Typed, ReadSubdir PROVE Typed'
<1> DEFINE bad(e) == e.start = dir.head \/ ~check_dot_dot(e.start)
           new(e) == [root |-> FALSE, head |-> e.start, cl |-> e.start,
                      up |-> IF dir.root THEN FREE ELSE dir.head]
<1>1. PICK t \in Later, first \in Answers, remove \in Answers :
        /\ ~BadStart(buf[t].start)
        /\ fat' = [fat EXCEPT !.used = @ \cup {buf[t].start}]
        /\ buf' = [buf EXCEPT ![t] = IF bad(buf[t]) /\ remove THEN NoEntry
                        ELSE [buf[t] EXCEPT !.size = IF first THEN 0 ELSE @]]
        /\ tree' = tree
             \cup (IF buf[t].size # 0 THEN If({"DIRMOD", "THIS"}, first) ELSE {})
             \cup (IF bad(buf[t]) THEN If({"DIRMOD", "THIS"}, remove) ELSE {})
        /\ todo' = IF bad(buf[t]) THEN todo ELSE <<new(buf[t])>> \o todo
        /\ lost' = IF ~bad(buf[t]) /\ buf[t].kind = "lost" /\ dir.root THEN buf[t].start ELSE lost
        /\ phase' \in {"spinning", phase}
        /\ at' = t + 1
  BY ZenonT(40) DEF ReadSubdir
<1>2. Pieces /\ t \in 1 .. Slots
  BY TypedPieces DEF Later, Pieces, InCopies, ReadSubdir
<1>3. buf[t] \in Entry
  BY <1>2 DEF Pieces, Buffer
<1>4. buf[t].start \in Clusters /\ buf[t].start \in Places
  BY <1>1, <1>3, ValueFacts DEF BadStart, Entry
<1>5. new(buf[t]) \in Directory
  BY <1>2, <1>4, ValueFacts DEF Pieces, Directory
<1> HIDE DEF new, bad
<1>6. buf' \in Buffer
  BY <1>1, <1>2, <1>3, EntryFacts DEF Pieces, Buffer, Entry
<1>7. fat' \in Chains
  BY <1>1, <1>2, <1>4 DEF Pieces, Chains
<1>8. tree' \subseteq TreeFlags /\ at' \in Nat /\ 1 <= at' /\ lost' \in Places
  BY <1>1, <1>2, <1>4 DEF Pieces, If, TreeFlags
<1>9. todo' \in Seq(Directory)
  BY <1>1, <1>2, <1>5 DEF Pieces
<1>10. /\ UNCHANGED <<card, boot, mod, dir, lf, sig, exit, mishaps, kept>>
       /\ phase' \in {"spinning", "dirs"}
  BY <1>1 DEF ReadSubdir
<1>11. QED
  BY <1>2, <1>6, <1>7, <1>8, <1>9, <1>10, TypedPieces DEF Pieces, InCopies, card, boot

LEMMA EndClusterType == ASSUME Typed, EndCluster PROVE Typed'
<1> DEFINE next == IF dir.cl = FREE THEN FREE ELSE fat.next[dir.cl]
           there == IF next \in Clusters THEN [dir EXCEPT !.cl = next]
                    ELSE IF todo # <<>> THEN Head(todo) ELSE NoDir
           over == next \notin Clusters /\ todo = <<>>
<1>1. /\ phase = "dirs" /\ UNCHANGED <<fats, boot, fat, lost, lf, sig, exit, mishaps, kept>>
      /\ dirs' = IF "THIS" \in tree THEN [dirs EXCEPT ![dir.cl] = buf] ELSE dirs
      /\ dir' = there
      /\ buf' = IF over THEN NoBuf ELSE dirs'[there.cl]
      /\ todo' = IF next \in Clusters \/ over THEN todo ELSE Tail(todo)
      /\ mod' = IF over THEN mod \cup (tree \ {"THIS"}) ELSE mod
      /\ tree' = IF over THEN {} ELSE tree \ {"THIS"}
      /\ phase' \in {"lost", "spinning", "dirs"}
      /\ at' = IF over THEN 2 ELSE 1
  BY DEF EndCluster
<1>2. Pieces
  BY TypedPieces
<1>3. dirs' \in [Places -> Buffer]
  BY <1>1, <1>2 DEF Pieces
<1>4. there \in Directory
  <2>1. CASE next \in Clusters
    BY <1>2, <2>1, ValueFacts DEF Pieces, Directory
  <2>2. CASE next \notin Clusters /\ todo # <<>>
    BY <1>2, <2>2 DEF Pieces
  <2>3. CASE next \notin Clusters /\ todo = <<>>
    BY <2>3, EntryFacts
  <2>4. QED
    BY <2>1, <2>2, <2>3
<1>5. todo' \in Seq(Directory)
  <2>1. todo # <<>> => Tail(todo) \in Seq(Directory)
    BY <1>2 DEF Pieces
  <2>2. QED
    BY <1>1, <1>2, <2>1 DEF Pieces
<1> HIDE DEF there, over, next
<1>6. buf' \in Buffer
  BY <1>1, <1>3, <1>4, EntryFacts DEF Directory
<1>7. mod' \subseteq Flags /\ tree' \subseteq TreeFlags
  BY <1>1, <1>2 DEF Pieces, Flags, TreeFlags
<1>8. QED
  BY <1>1, <1>2, <1>3, <1>4, <1>5, <1>6, <1>7, TypedPieces DEF Pieces, InCopies, boot

LEMMA DirWriteFailsType == ASSUME Typed, DirWriteFails PROVE Typed'
<1>1. mishaps' \in 0 .. MaxMishaps
  BY NumberFacts, TypedPieces DEF DirWriteFails, Pieces
<1>2. QED
  BY <1>1, TypedPieces DEF DirWriteFails, GoOn, Pieces, InCopies, card, boot, Flags

LEMMA ReconnectType == ASSUME Typed, Reconnect PROVE Typed'
<1>1. PICK h \in LostChains, room \in Rooms :
        /\ lf' = [cl |-> room.cl, buf |-> WithFile(room.buf, h)]
        /\ at' = h + 1
        /\ \/ /\ dirs' = [dirs EXCEPT ![room.cl] = WithFile(room.buf, h)]
              /\ fat' = [fat EXCEPT !.used = @ \cup {h}]
              /\ mod' = mod \cup {"DIRMOD"}
              /\ UNCHANGED mishaps
           \/ /\ mishaps < MaxMishaps /\ mishaps' = mishaps + 1
              /\ fat' = clearchain([fat EXCEPT !.used = @ \cup {h}], h)
              /\ mod' = mod \cup {"FATMOD"}
              /\ UNCHANGED dirs
  BY Zenon DEF Reconnect
<1>2. Pieces /\ h \in Clusters /\ h \in Places /\ h \in Nat
  BY TypedPieces, ValueFacts DEF LostChains
<1>3. room \in [cl : Places, buf : Buffer]
  <2>1. \A p : Reach(fat.next, p) \subseteq Clusters
    BY ReachType
  <2>2. room = lf \/ \E c \in Clusters : room = [cl |-> c, buf |-> dirs[c]]
    BY <2>1 DEF Rooms, Ahead
  <2>3. QED
    BY <1>2, <2>2, ValueFacts DEF Pieces
<1>4. WithFile(room.buf, h) \in Buffer
  <2>1. [kind |-> "file", start |-> h, size |-> fat.length[h]] \in Entry
    BY <1>2 DEF Pieces, Chains, Entry
  <2>2. QED
    BY <1>3, <2>1 DEF WithFile, Buffer
<1>5. dirs' \in [Places -> Buffer] /\ lf' \in [cl : Places, buf : Buffer]
  BY <1>1, <1>2, <1>3, <1>4 DEF Pieces
<1>6. fat' \in Chains
  <2>1. [fat EXCEPT !.used = @ \cup {h}] \in Chains
    BY <1>2 DEF Pieces, Chains
  <2>2. clearchain([fat EXCEPT !.used = @ \cup {h}], h) \in Chains
    BY <2>1, ClearchainType
  <2>3. QED
    BY <1>1, <2>1, <2>2
<1>7. mod' \subseteq Flags /\ at' \in Nat /\ mishaps' \in 0 .. MaxMishaps
  BY <1>1, <1>2, NumberFacts DEF Pieces, Flags
<1>8. UNCHANGED <<fats, boot, phase, dir, buf, tree, todo, lost, sig, exit, kept>> /\ phase = "lost"
  BY DEF Reconnect
<1>9. QED
  BY <1>2, <1>5, <1>6, <1>7, <1>8, TypedPieces DEF Pieces, InCopies, boot

LEMMA NotReconnectedType == ASSUME Typed, NotReconnected PROVE Typed'
<1>1. PICK h \in LostChains, clear \in Answers :
        /\ lf' = lf \/ \E b \in LastRead : lf' = [cl |-> lost, buf |-> b]
        /\ fat' = IF clear THEN clearchain(fat, h) ELSE fat
        /\ mod' = mod \cup {"ERROR"} \cup (IF clear THEN {"FATMOD"} ELSE {})
        /\ at' = h + 1
  BY DEF NotReconnected
<1>2. Pieces /\ h \in Nat
  BY TypedPieces, ValueFacts DEF LostChains
<1>3. fat' \in Chains
  BY <1>1, <1>2, ClearchainType DEF Pieces
<1>4. lf' \in [cl : Places, buf : Buffer]
  <2>1. Ahead \subseteq Clusters
    BY ReachType DEF Ahead
  <2>2. LastRead \subseteq Buffer
    BY <2>1, <1>2, ValueFacts DEF LastRead, Pieces
  <2>3. QED
    BY <1>1, <1>2, <2>2 DEF Pieces
<1>5. mod' \subseteq Flags /\ at' \in Nat
  BY <1>1, <1>2 DEF Pieces, Flags
<1>6. /\ UNCHANGED <<card, boot, phase, dir, buf, tree, todo, lost, sig, exit, mishaps, kept>>
      /\ phase = "lost"
  BY DEF NotReconnected
<1>7. QED
  BY <1>2, <1>3, <1>4, <1>5, <1>6, TypedPieces DEF Pieces, InCopies, card, boot

LEMMA UpdateFatsType == ASSUME Typed, UpdateFats PROVE Typed'
<1>1. Pieces /\ 1 \in 1 .. Copies
  BY TypedPieces, NumberFacts
<1>2. sig' \in {"clean", "dirty", "odd"}
  BY <1>1 DEF UpdateFats, Pieces, Copy
<1>3. mod' \subseteq Flags /\ phase' \in {"write", "dirty"} /\ at' = 1
  BY <1>1 DEF UpdateFats, Pieces, Flags
<1>4. UNCHANGED <<card, boot, fat, dir, buf, tree, todo, lost, lf, exit, mishaps, kept>>
  BY DEF UpdateFats
<1>5. QED
  BY <1>1, <1>2, <1>3, <1>4, TypedPieces DEF Pieces, InCopies, card, boot

(* A copy that is written in part is still a copy. *)
LEMMA TornType ==
  ASSUME Pieces, at \in 1 .. Copies, fats' \in Torn
  PROVE  fats' \in [1 .. Copies -> Copy]
<1>1. CASE fats' = fats
  BY <1>1 DEF Pieces
<1>2. ASSUME NEW end \in Clusters,
             fats' = [fats EXCEPT ![at] = [sig |-> sig, next |-> [c \in Clusters |->
                        IF c <= end THEN fat.next[c] ELSE @.next[c]]]]
      PROVE  fats' \in [1 .. Copies -> Copy]
  <2>1. fats[at].next \in Table /\ fat.next \in Table /\ sig \in {"clean", "dirty", "odd"}
    BY DEF Pieces, Copy, Chains
  <2>2. [c \in Clusters |-> IF c <= end THEN fat.next[c] ELSE fats[at].next[c]] \in Table
    BY <2>1 DEF Table
  <2>3. [sig |-> sig, next |-> [c \in Clusters |->
           IF c <= end THEN fat.next[c] ELSE fats[at].next[c]]] \in Copy
    BY <2>1, <2>2 DEF Copy
  <2>4. QED
    BY <1>2, <2>3 DEF Pieces
<1>3. QED
  BY <1>1, <1>2 DEF Torn

LEMMA WritefatType == ASSUME Typed, writefat PROVE Typed'
<1>1. Pieces /\ at \in 1 .. Copies /\ phase \in {"write", "clean"}
  BY TypedPieces DEF writefat, InCopies
<1>2. fats' \in [1 .. Copies -> Copy]
  <2>1. [sig |-> sig, next |-> fat.next] \in Copy
    BY <1>1 DEF Pieces, Copy, Chains
  <2>2. fats' = [fats EXCEPT ![at] = [sig |-> sig, next |-> fat.next]] \/ fats' \in Torn
    BY DEF writefat
  <2>3. QED
    BY <1>1, <2>1, <2>2, TornType DEF Pieces
<1>3. mod' \subseteq Flags /\ mishaps' \in 0 .. MaxMishaps
  <2>1. \/ mod' = mod /\ mishaps' = mishaps
        \/ mishaps < MaxMishaps /\ mishaps' = mishaps + 1 /\ mod' = mod \cup {"FATAL"}
    BY DEF writefat
  <2>2. mod' \subseteq Flags
    BY <1>1, <2>1 DEF Pieces, Flags
  <2>3. mishaps' \in 0 .. MaxMishaps
    BY <1>1, <2>1, NumberFacts DEF Pieces
  <2>4. QED
    BY <2>2, <2>3
<1>4. /\ phase' \in {"write", "clean", "out", "dirty"} /\ at' \in Nat
      /\ phase' \in {"write", "clean"} => at' \in 1 .. Copies
      /\ UNCHANGED <<dir, buf, tree, todo, lost, lf, sig, exit>>
  BY <1>1, NumberFacts DEF writefat, GoOn
<1>5. UNCHANGED <<dirs, boot, fat, kept>>
  BY DEF writefat
<1>6. QED
  BY <1>1, <1>2, <1>3, <1>4, <1>5, TypedPieces DEF Pieces, InCopies, boot

LEMMA MarkCleanType == ASSUME Typed, MarkClean PROVE Typed'
<1>1. Pieces /\ 1 \in 1 .. Copies
  BY TypedPieces, NumberFacts
<1>2. mod' \subseteq Flags /\ phase' \in {"clean", "out"} /\ at' = 1 /\ sig' = "clean"
  BY <1>1 DEF MarkClean, Pieces, Flags
<1>3. UNCHANGED <<card, boot, fat, dir, buf, tree, todo, lost, lf, exit, mishaps, kept>>
  BY DEF MarkClean
<1>4. QED
  BY <1>1, <1>2, <1>3, TypedPieces DEF Pieces, InCopies, card, boot

LEMMA ExitType == ASSUME Typed, Exit PROVE Typed'
<1>1. \E verdict \in {"ok", "modified", "failed", "killed"} : Ends(verdict)
  BY DEF Exit
<1>2. UNCHANGED <<card, boot, mod, mishaps, kept>>
  BY DEF Exit
<1>3. QED
  BY <1>1, <1>2, EndsType, TypedPieces DEF Pieces, card, boot

LEMMA KillType == ASSUME Typed, Kill PROVE Typed'
<1>1. Pieces
  BY TypedPieces
<1>2. fats' \in [1 .. Copies -> Copy]
  <2>1. fats' = fats \/ (fats' \in Torn /\ at \in 1 .. Copies)
    BY TypedPieces DEF Kill, InCopies
  <2>2. QED
    BY <1>1, <2>1, TornType DEF Pieces
<1>3. mishaps' \in 0 .. MaxMishaps
  BY <1>1, NumberFacts DEF Kill, Pieces
<1>4. Ends("killed") /\ mod' = {} /\ UNCHANGED <<dirs, boot, kept>>
  BY DEF Kill
<1>5. looked' \in BOOLEAN
  BY <1>1, <1>4 DEF Pieces, boot
<1>6. QED
  BY <1>2, <1>3, <1>4, <1>5, EndsType DEF boot

LEMMA InitType == Init => Typed
<1>1. ASSUME Init PROVE Pieces
  <2>1. PICK v \in Cases : /\ root = v.root /\ compare = v.compare /\ mode = v.mode
                           /\ fats = v.fats /\ dirs = v.dirs
    BY <1>1 DEF Init
  <2>2. /\ root \in Places /\ compare \in BOOLEAN /\ mode \in Modes
        /\ fats \in [1 .. Copies -> Copy] /\ dirs \in [Places -> Buffer]
    BY <2>1, CasesOK DEF Copy, Table, Buffer
  <2>3. looked \in BOOLEAN
    BY <1>1 DEF Init
  <2>4. QED
    BY <1>1, <2>2, <2>3, EntryFacts, ValueFacts, NumberFacts
       DEF Init, Pieces, Chains, Directory, Buffer
<1>2. QED
  BY <1>1, TypedPieces DEF Init, InCopies

LEMMA NextType == Typed /\ [Next]_vars => Typed'
<1> SUFFICES ASSUME Typed, [Next]_vars
             PROVE  Typed'
  OBVIOUS
<1>1. CASE Check
  <2>1. CASE Start \/ Load \/ MarkChains \/ BrokenChain \/ CrossLink \/ OpenRoot
    BY <2>1, StartType, LoadType, MarkChainsType, BrokenChainType, CrossLinkType, OpenRootType
  <2>2. CASE ReadFile \/ BadSubdir \/ ReadDots \/ ReadSubdir \/ EndCluster \/ DirWriteFails
    BY <2>2, ReadFileType, BadSubdirType, ReadDotsType, ReadSubdirType, EndClusterType,
       DirWriteFailsType
  <2>3. CASE Reconnect \/ NotReconnected \/ UpdateFats \/ writefat \/ MarkClean \/ Exit
    BY <2>3, ReconnectType, NotReconnectedType, UpdateFatsType, WritefatType, MarkCleanType,
       ExitType
  <2>4. CASE Spin
    BY <2>4 DEF Spin, Typed, TypeOK, InCopies, vars, card, boot, memory
  <2>5. QED
    BY <1>1, <2>1, <2>2, <2>3, <2>4 DEF Check
<1>2. CASE Kill
  BY <1>2, KillType
<1>3. CASE UNCHANGED vars
  BY <1>3 DEF Typed, TypeOK, InCopies, vars, card, boot, memory
<1>4. QED
  BY <1>1, <1>2, <1>3 DEF Next

(* The checker never keeps a value that its own code does not expect: every *)
(* cluster number in the FAT in memory, in a directory buffer and in the    *)
(* list of directories to be read is in range or one of the marks.          *)
THEOREM TypesHold == Spec => []TypeOK
<1>1. Init => Typed
  BY InitType
<1>2. Typed /\ [Next]_vars => Typed'
  BY NextType
<1>3. Typed => TypeOK
  BY DEF Typed
<1>4. QED
  BY <1>1, <1>2, <1>3, PTL DEF Spec
-----------------------------------------------------------------------------
(* -n.  A refusal leaves FSERROR at most: no flag that makes the checker    *)
(* write, and no step that writes.                                          *)

HandsOff ==
  mode = "no" => /\ phase \notin {"write", "clean"}
                 /\ "FATMOD" \notin mod
                 /\ tree \cap {"THIS", "FATMOD"} = {}

LEMMA NoAnswers == mode = "no" => Answers = {FALSE}
BY DEF Answers

LEMMA HandsOffStart == ASSUME Typed, HandsOff, Start PROVE HandsOff'
BY DEF Start, HandsOff, memory

LEMMA HandsOffLoad == ASSUME Typed, HandsOff, Load PROVE HandsOff'
<1> SUFFICES ASSUME mode = "no"
             PROVE  "FATMOD" \notin mod' /\ phase' \notin {"write", "clean"} /\ UNCHANGED tree
  BY DEF Load, HandsOff, boot
<1>1. Answers = {FALSE}
  BY NoAnswers
<1>2. phase' \in {"out", "load", "mark"} /\ UNCHANGED tree
  BY DEF Load
<1>3. \A v : Refusal(v) # "FATMOD"
  BY DEF Refusal
<1>4. "FATMOD" \notin mod'
  <2>1. PICK cut \in SUBSET Odd, fix \in Answers :
          /\ TRUE \notin Answers => cut = {}
          /\ \E pick \in [Differing(readfat(at, cut)) -> Picks] :
               mod' = mod \cup LoadFlags(cut, Differing(readfat(at, cut)), pick, fix)
    BY LoadStep
  <2>2. PICK pick \in [Differing(readfat(at, cut)) -> Picks] :
          mod' = mod \cup LoadFlags(cut, Differing(readfat(at, cut)), pick, fix)
    BY <2>1
  <2>3. cut = {} /\ \A c \in Differing(readfat(at, cut)) : pick[c] = "none"
    BY <1>1, <2>1, <2>2 DEF Picks
  <2>4. "FATMOD" \notin mod
    BY DEF HandsOff
  <2>5. QED
    BY <1>3, <2>2, <2>3, <2>4 DEF LoadFlags
<1>5. QED
  BY <1>2, <1>4

LEMMA HandsOffChains ==
  ASSUME Typed, HandsOff, MarkChains \/ BrokenChain \/ CrossLink \/ OpenRoot
  PROVE  HandsOff'
<1> SUFFICES ASSUME mode = "no"
             PROVE  "FATMOD" \notin mod' /\ phase' \notin {"write", "clean"} /\ UNCHANGED tree
  BY DEF MarkChains, BrokenChain, CrossLink, OpenRoot, HandsOff, boot
<1>1. Answers = {FALSE} /\ "FATMOD" \notin mod
  BY NoAnswers DEF HandsOff
<1>2. \A f, h, p : tryclear(f, h, p, FALSE, FALSE).mod = {"ERROR"}
  BY DEF tryclear
<1>3. CASE MarkChains
  BY <1>1, <1>3 DEF MarkChains, GoOn
<1>4. CASE BrokenChain
  <2>1. PICK h \in Suspects, clear \in Answers, trunc \in Answers :
          mod' = mod \cup tryclear(fat, h, LastOf(fat, h, h), clear, trunc).mod
    BY <1>4 DEF BrokenChain
  <2>2. clear = FALSE /\ trunc = FALSE
    BY <1>1, <2>1
  <2>3. mod' = mod \cup {"ERROR"}
    BY <1>2, <2>1, <2>2
  <2>4. QED
    BY <1>1, <1>4, <2>3 DEF BrokenChain, GoOn
<1>5. CASE CrossLink
  <2>1. PICK h \in Suspects, clear \in Answers, trunc \in Answers, other \in Answers :
        LET p == LastOf(fat, h, h)
            n == fat.next[p]
            r == tryclear(fat, h, p, clear, trunc)
            g == r.fat.head[n]
            part == Stretch(r.fat, n, g)
            moves == other /\ r.mod = {"ERROR"}
            taken == [r.fat EXCEPT !.head = [c \in Clusters |-> IF c \in part THEN h ELSE @[c]]]
        IN  /\ \A f \in Suspects : h <= f
            /\ n \in Clusters
            /\ mod' = mod \cup r.mod \cup (IF other THEN {"FATMOD"} ELSE {})
            /\ fat' = CASE moves -> clearchain(taken, g)
                        [] other /\ ~moves -> clearchain(r.fat, g)
                        [] OTHER -> r.fat
            /\ IF moves /\ g = h THEN GoOn("spinning", 0)
               ELSE IF moves /\ r.fat.next[LastOf(r.fat, n, g)] \in Clusters
               THEN GoOn("chains", h)
               ELSE GoOn("chains", h + 1)
    BY <1>5, CrossLinkStep
  <2>2. clear = FALSE /\ trunc = FALSE /\ other = FALSE
    BY <1>1, <2>1
  <2>3. mod' = mod \cup {"ERROR"}
    BY <1>2, <2>1, <2>2
  <2>4. phase' \in {"spinning", "chains"} /\ UNCHANGED tree
    BY <2>1 DEF GoOn
  <2>5. QED
    BY <1>1, <2>3, <2>4
<1>6. CASE OpenRoot
  BY <1>1, <1>6 DEF OpenRoot
<1>7. QED
  BY <1>3, <1>4, <1>5, <1>6

LEMMA ChecksizeRefused ==
  ASSUME NEW f, NEW h, NEW n
  PROVE  checksize(f, h, n, FALSE).mod \subseteq {"ERROR"}
<1> DEFINE physical == IF h = FREE THEN 0 ELSE f.length[h]
<1>1. \A flag : If(flag, FALSE) = {"ERROR"}
  BY DEF If
<1> HIDE DEF physical
<1>2. checksize(f, h, n, FALSE).mod
        = CASE h = OUT -> {"ERROR"}
            [] h # OUT /\ physical < n -> If({"DIRMOD", "THIS"}, FALSE)
            [] h # OUT /\ physical > n -> If({"FATMOD"}, FALSE)
            [] OTHER -> {}
  BY DEF checksize, physical
<1>3. QED
  BY <1>1, <1>2

LEMMA HandsOffDirs ==
  ASSUME Typed, HandsOff, ReadFile \/ BadSubdir \/ ReadDots \/ ReadSubdir
  PROVE  HandsOff'
<1> SUFFICES ASSUME mode = "no"
             PROVE  /\ "FATMOD" \notin mod' /\ phase' \notin {"write", "clean"}
                    /\ tree' \cap {"THIS", "FATMOD"} = {}
  BY DEF ReadFile, BadSubdir, ReadDots, ReadSubdir, HandsOff, boot
<1>1. /\ Answers = {FALSE} /\ "FATMOD" \notin mod /\ tree \cap {"THIS", "FATMOD"} = {}
  BY NoAnswers DEF HandsOff
<1>2. \A flag : If(flag, FALSE) = {"ERROR"}
  BY DEF If
<1>3. CASE ReadFile
  <2> DEFINE q(t, first) == StartOfFile(buf[t], first)
             r(t, first, second) == checksize(q(t, first).fat, q(t, first).chain,
                                              q(t, first).size, second)
  <2>1. PICK t \in Later, first \in Answers, second \in Answers :
          \/ Ends("killed") /\ mod' = {}
          \/ tree' = tree \cup q(t, first).mod \cup r(t, first, second).mod
             /\ UNCHANGED <<mod, phase>>
    BY <1>3, ReadFileStep, ZenonT(40)
  <2>2. StartOfFile(buf[t], FALSE).mod \subseteq {"ERROR"}
    BY <1>2 DEF StartOfFile
  <2>3. r(t, first, FALSE).mod \subseteq {"ERROR"}
    BY ChecksizeRefused
  <2>4. first = FALSE /\ second = FALSE
    BY <1>1, <2>1
  <2> HIDE DEF r
  <2>5. CASE Ends("killed") /\ mod' = {}
    BY <2>5 DEF Ends
  <2>6. CASE tree' = tree \cup q(t, first).mod \cup r(t, first, second).mod
             /\ UNCHANGED <<mod, phase>>
    <3>1. phase = "dirs"
      BY <1>3 DEF ReadFile
    <3>2. QED
      BY <1>1, <2>2, <2>3, <2>4, <2>6, <3>1
  <2>7. QED
    BY <2>1, <2>5, <2>6
<1>4. CASE BadSubdir
  <2>1. PICK remove \in Answers : tree' = tree \cup If({"DIRMOD", "THIS"}, remove)
    BY <1>4 DEF BadSubdir
  <2>2. tree' = tree \cup {"ERROR"}
    BY <1>1, <1>2, <2>1
  <2>3. QED
    BY <1>1, <1>4, <2>2 DEF BadSubdir
<1>5. CASE ReadDots
  <2>1. PICK first \in Answers, second \in Answers :
          \E x, y \in BOOLEAN :
             tree' = tree \cup (IF x THEN If({"DIRMOD", "THIS"}, first) ELSE {})
                          \cup (IF y THEN If({"DIRMOD", "THIS"}, second) ELSE {})
    BY <1>5, ZenonT(40) DEF ReadDots
  <2>2. tree' \subseteq tree \cup {"ERROR"}
    BY <1>1, <1>2, <2>1
  <2>3. UNCHANGED mod /\ phase' \in {"dirs", "spinning"}
    BY <1>5 DEF ReadDots
  <2>4. QED
    BY <1>1, <2>2, <2>3
<1>6. CASE ReadSubdir
  <2>1. PICK first \in Answers, second \in Answers :
          \E x, y \in BOOLEAN :
             tree' = tree \cup (IF x THEN If({"DIRMOD", "THIS"}, first) ELSE {})
                          \cup (IF y THEN If({"DIRMOD", "THIS"}, second) ELSE {})
    BY <1>6, ZenonT(40) DEF ReadSubdir
  <2>2. tree' \subseteq tree \cup {"ERROR"}
    BY <1>1, <1>2, <2>1
  <2>3. UNCHANGED mod /\ phase' \in {"dirs", "spinning"}
    BY <1>6 DEF ReadSubdir
  <2>4. QED
    BY <1>1, <2>2, <2>3
<1>7. QED
  BY <1>3, <1>4, <1>5, <1>6

LEMMA HandsOffEnd ==
  ASSUME Typed, HandsOff,
         \/ EndCluster \/ DirWriteFails \/ Reconnect \/ NotReconnected \/ UpdateFats
         \/ writefat \/ MarkClean \/ Exit \/ Kill
  PROVE  HandsOff'
<1> SUFFICES ASSUME mode = "no"
             PROVE  /\ "FATMOD" \notin mod' /\ phase' \notin {"write", "clean"}
                    /\ tree' \cap {"THIS", "FATMOD"} = {}
  BY DEF EndCluster, DirWriteFails, Reconnect, NotReconnected, UpdateFats, writefat, MarkClean,
         Exit, Kill, HandsOff, boot
<1>1. /\ Answers = {FALSE} /\ phase \notin {"write", "clean"} /\ "FATMOD" \notin mod
      /\ tree \cap {"THIS", "FATMOD"} = {}
  BY NoAnswers DEF HandsOff
<1>2. CASE EndCluster
  BY <1>1, <1>2 DEF EndCluster
<1>3. CASE DirWriteFails
  BY <1>1, <1>3 DEF DirWriteFails
<1>4. CASE Reconnect
  BY <1>1, <1>4 DEF Reconnect
<1>5. CASE NotReconnected
  BY <1>1, <1>5 DEF NotReconnected
<1>6. CASE UpdateFats
  BY <1>1, <1>6 DEF UpdateFats
<1>7. CASE writefat
  BY <1>1, <1>7 DEF writefat
<1>8. CASE MarkClean
  BY <1>1, <1>8 DEF MarkClean
<1>9. CASE Exit
  BY <1>1, <1>9 DEF Exit, Ends
<1>10. CASE Kill
  BY <1>1, <1>10 DEF Kill, Ends
<1>11. QED
  BY <1>2, <1>3, <1>4, <1>5, <1>6, <1>7, <1>8, <1>9, <1>10

LEMMA HandsOffKept == Typed /\ HandsOff /\ [Next]_vars => HandsOff'
<1> SUFFICES ASSUME Typed, HandsOff, [Next]_vars
             PROVE  HandsOff'
  OBVIOUS
<1>1. CASE Check
  BY <1>1, HandsOffStart, HandsOffLoad, HandsOffChains, HandsOffDirs, HandsOffEnd
     DEF Check, Spin, HandsOff, vars, boot, memory
<1>2. CASE Kill
  BY <1>2, HandsOffEnd
<1>3. CASE UNCHANGED vars
  BY <1>3 DEF HandsOff, vars, boot, memory
<1>4. QED
  BY <1>1, <1>2, <1>3 DEF Next

(* The steps that write are the ones that HandsOff rules out. *)
LEMMA WritersAsk == HandsOff /\ [Next]_vars => [mode # "no"]_card
<1> SUFFICES ASSUME HandsOff, [Next]_vars, mode = "no"
             PROVE  UNCHANGED card
  BY DEF card
<1>1. Answers = {FALSE} /\ "THIS" \notin tree /\ phase \notin {"write", "clean"}
  BY NoAnswers DEF HandsOff
<1>2. CASE Start \/ Load \/ MarkChains \/ BrokenChain \/ CrossLink \/ OpenRoot \/ ReadFile
  BY <1>2 DEF Start, Load, MarkChains, BrokenChain, CrossLink, OpenRoot, ReadFile
<1>3. CASE \/ BadSubdir \/ ReadDots \/ ReadSubdir \/ DirWriteFails \/ NotReconnected
           \/ UpdateFats \/ MarkClean \/ Exit
  BY <1>3 DEF BadSubdir, ReadDots, ReadSubdir, DirWriteFails, NotReconnected, UpdateFats,
              MarkClean, Exit
<1>4. CASE EndCluster \/ Reconnect \/ writefat \/ Kill
  BY <1>1, <1>4 DEF EndCluster, Reconnect, writefat, Kill, card
<1>5. CASE Spin \/ UNCHANGED vars
  BY <1>5 DEF Spin, vars
<1>6. QED
  BY <1>2, <1>3, <1>4, <1>5 DEF Next, Check

(* -n never writes: not the FATs, not a directory, and not the mark, for    *)
(* every card, and even if earlier flags are left over.                     *)
THEOREM NeverWritesUnasked == Spec => ReadOnly
<1>1. Init => HandsOff
  BY DEF Init, HandsOff
<1>2. Init => Typed
  BY InitType
<1>3. Typed /\ [Next]_vars => Typed'
  BY NextType
<1>4. Typed /\ HandsOff /\ [Next]_vars => HandsOff'
  BY HandsOffKept
<1>5. HandsOff /\ [Next]_vars => [mode # "no"]_card
  BY WritersAsk
<1>6. QED
  BY <1>1, <1>2, <1>3, <1>4, <1>5, PTL DEF Spec, ReadOnly
-----------------------------------------------------------------------------
(* Nothing is left behind: while the check runs, the FAT in memory differs  *)
(* from a copy on the card only if a flag says so, and every way to the end *)
(* either writes it or ends with FSERROR or FSFATAL.                        *)

Watched == {i \in 1 .. Copies : compare \/ i = 1}
Same(i) == fats[i].next = fat.next
Told == {"FATMOD", "ERROR", "FATAL"}
Failed == mod \cap {"ERROR", "FATAL"} # {}

Loaded == phase = "load" =>
            mod \cap Told # {} \/ \A i \in Watched : i < at => Same(i)
Walked == phase \in {"mark", "chains", "dirs", "lost", "spinning"} =>
            (mod \cup tree) \cap Told # {} \/ \A i \in Watched : Same(i)
Emptied == phase = "lost" => tree = {}
Written == phase = "write" => /\ "FATMOD" \in mod
                              /\ "FATAL" \in mod \/ \A i \in 1 .. at - 1 : Same(i)
Finished == phase \in {"dirty", "clean", "out"} =>
              Failed \/ \A i \in 1 .. Copies :
                          compare \/ i = 1 \/ "FATMOD" \in mod => Same(i)

Announced == Loaded /\ Walked /\ Emptied /\ Written /\ Finished

LEMMA AnnouncedLoad == ASSUME Typed, Announced, Load PROVE Announced'
<1>1. /\ phase = "load" /\ at \in 1 .. Copies /\ fats[at].next \in Table /\ fat \in Chains
      /\ UNCHANGED <<card, boot, tree>> /\ Pieces
  BY TypedPieces DEF Load, Pieces, InCopies, Copy
<1>2. PICK cut \in SUBSET Odd, fix \in Answers :
        \E pick \in [Differing(readfat(at, cut)) -> Picks] :
             /\ fat' = [fat EXCEPT !.next = Compared(readfat(at, cut), pick)]
             /\ mod' = mod \cup LoadFlags(cut, Differing(readfat(at, cut)), pick, fix)
  BY LoadStep
<1>3. PICK pick \in [Differing(readfat(at, cut)) -> Picks] :
             /\ fat' = [fat EXCEPT !.next = Compared(readfat(at, cut), pick)]
             /\ mod' = mod \cup LoadFlags(cut, Differing(readfat(at, cut)), pick, fix)
  BY <1>2
<1> DEFINE v == readfat(at, cut)
           diff == Differing(v)
<1>4. mod \subseteq mod' /\ LoadFlags(cut, diff, pick, fix) \subseteq mod'
  BY <1>3
<1>5. ASSUME mod' \cap Told = {}
      PROVE  fat'.next = fats[at].next /\ (at # 1 => fat'.next = fat.next)
  <2>1. cut = {}
    BY <1>4, <1>5 DEF LoadFlags, Told
  <2>2. v = fats[at].next
    BY <1>1, <2>1 DEF readfat, Table
  <2>3. \A c \in diff : pick[c] = "none"
    BY <1>4, <1>5 DEF LoadFlags, Told
  <2>4. diff = {}
    <3>1. \A c \in diff : Refusal(fat.next[c]) \in mod'
      BY <1>4, <2>3 DEF LoadFlags
    <3>2. QED
      BY <1>5, <3>1, RefusalType DEF Told
  <2>5. CASE at = 1
    BY <1>1, <1>3, <2>2, <2>5 DEF Compared, Chains
  <2>6. CASE at # 1
    <3>1. \A c \in Clusters : v[c] = fat.next[c]
      BY <2>4, <2>6 DEF Differing
    <3>2. v = fat.next
      BY <1>1, <2>2, <3>1 DEF Chains, Table
    <3>3. Compared(v, pick) = fat.next
      BY <1>1, <2>4, <2>6 DEF Compared, Chains, Table
    <3>4. QED
      BY <1>1, <1>3, <2>2, <3>2, <3>3 DEF Chains
  <2>7. QED
    BY <2>5, <2>6
<1>6. ASSUME mod' \cap Told = {}
      PROVE  \A i \in Watched : i <= at => fats[i].next = fat'.next
  <2>1. mod \cap Told = {}
    BY <1>4, <1>6
  <2>2. \A i \in Watched : i < at => Same(i)
    BY <1>1, <2>1 DEF Announced, Loaded
  <2>3. \A i \in Watched : i \in Nat /\ (i = at \/ i < at \/ at < i) /\ (at = 1 => ~(i < at))
    BY <1>1, NumberFacts DEF Watched
  <2>4. QED
    BY <1>1, <1>5, <1>6, <2>2, <2>3 DEF Same
<1>7. \/ phase' = "out" /\ "FATAL" \in mod'
      \/ phase' = "load" /\ at' = at + 1
      \/ phase' = "mark" /\ (~compare \/ at = Copies)
  BY <1>1, NumberFacts DEF Load
<1>8. CASE phase' = "out" /\ "FATAL" \in mod'
  BY <1>8 DEF Announced, Loaded, Walked, Emptied, Written, Finished, Failed
<1>9. Watched' = Watched /\ fats' = fats
  BY <1>1 DEF Watched, card, boot
<1>10. CASE phase' = "load" /\ at' = at + 1
  <2>1. mod' \cap Told # {} \/ \A i \in Watched : i < at + 1 => fats[i].next = fat'.next
    BY <1>1, <1>6, NumberFacts DEF Watched
  <2>2. QED
    BY <1>9, <1>10, <2>1 DEF Announced, Loaded, Walked, Emptied, Written, Finished, Same
<1>11. CASE phase' = "mark" /\ (~compare \/ at = Copies)
  <2>1. \A i \in Watched : i <= at
    BY <1>1, <1>11, NumberFacts DEF Watched
  <2>2. QED
    BY <1>6, <1>9, <1>11, <2>1 DEF Announced, Loaded, Walked, Emptied, Written, Finished, Same
<1>12. QED
  BY <1>7, <1>8, <1>10, <1>11

(* The steps of phases 2 to 4: whoever changes the FAT in memory says so. *)
LEMMA AnnouncedWalk ==
  ASSUME Announced, phase \in {"mark", "chains", "dirs", "lost"},
         phase' \in {"chains", "dirs", "lost", "spinning"}, UNCHANGED <<fats, compare>>,
         mod \cup tree \subseteq mod' \cup tree' \cup {"THIS"},
         (mod' \cup tree') \cap Told # {} \/ fat'.next = fat.next,
         phase' = "lost" => tree' = {}
  PROVE  Announced'
<1>1. ASSUME (mod' \cup tree') \cap Told = {}
      PROVE  \A i \in Watched' : Same(i)'
  <2>1. (mod \cup tree) \cap Told = {}
    BY <1>1 DEF Told
  <2>2. \A i \in Watched : Same(i)
    BY <2>1 DEF Announced, Walked
  <2>3. fat'.next = fat.next
    BY <1>1
  <2>4. QED
    BY <2>2, <2>3 DEF Watched, Same
<1>2. QED
  BY <1>1 DEF Announced, Loaded, Walked, Emptied, Written, Finished

(* A step that ends the process, or the check with FSFATAL, owes nothing. *)
LEMMA AnnouncedOut ==
  ASSUME phase' = "idle" \/ (phase' = "out" /\ "FATAL" \in mod')
  PROVE  Announced'
BY DEF Announced, Loaded, Walked, Emptied, Written, Finished, Failed

LEMMA AnnouncedStart == ASSUME Announced, Start PROVE Announced'
<1>1. phase' = "idle" \/ (phase' = "load" /\ at' = 1)
  BY DEF Start
<1>2. CASE phase' = "idle"
  BY <1>2, AnnouncedOut
<1>3. CASE phase' = "load" /\ at' = 1
  <2>1. \A i \in Watched' : ~(i < 1)
    BY NumberFacts DEF Watched
  <2>2. QED
    BY <1>3, <2>1 DEF Announced, Loaded, Walked, Emptied, Written, Finished
<1>4. QED
  BY <1>1, <1>2, <1>3

LEMMA TryclearTells ==
  ASSUME NEW f \in Chains, NEW h, NEW p, NEW clear \in BOOLEAN, NEW trunc \in BOOLEAN
  PROVE  tryclear(f, h, p, clear, trunc).mod \cap Told # {}
<1>1. tryclear(f, h, p, clear, trunc).mod \in {{"FATMOD"}, {"ERROR"}}
  BY TryclearType
<1>2. QED
  BY <1>1 DEF Told

LEMMA AnnouncedChains ==
  ASSUME Typed, Announced, MarkChains \/ BrokenChain \/ CrossLink \/ OpenRoot
  PROVE  Announced'
<1>1. fat \in Chains
  BY TypedPieces DEF Pieces
<1>2. CASE MarkChains
  <2>1. phase = "mark" /\ phase' = "chains" /\ UNCHANGED <<fats, compare, mod, tree>>
    BY <1>2 DEF MarkChains, GoOn, card, boot
  <2>2. fat'.next = fat.next
    BY <1>1, <1>2 DEF MarkChains, Chains
  <2>3. QED
    BY <2>1, <2>2, AnnouncedWalk
<1>3. CASE BrokenChain
  <2>1. PICK h \in Suspects, clear \in Answers, trunc \in Answers :
          mod' = mod \cup tryclear(fat, h, LastOf(fat, h, h), clear, trunc).mod
    BY <1>3 DEF BrokenChain
  <2>2. mod' \cap Told # {}
    BY <1>1, <2>1, TryclearTells, AnswersType
  <2>3. phase = "chains" /\ phase' = "chains" /\ UNCHANGED <<fats, compare, tree>>
    BY <1>3 DEF BrokenChain, GoOn, card, boot
  <2>4. QED
    BY <2>1, <2>2, <2>3, AnnouncedWalk
<1>4. CASE CrossLink
  <2>1. PICK h \in Suspects, clear \in Answers, trunc \in Answers, other \in Answers :
        LET p == LastOf(fat, h, h)
            n == fat.next[p]
            r == tryclear(fat, h, p, clear, trunc)
            g == r.fat.head[n]
            part == Stretch(r.fat, n, g)
            moves == other /\ r.mod = {"ERROR"}
            taken == [r.fat EXCEPT !.head = [c \in Clusters |-> IF c \in part THEN h ELSE @[c]]]
        IN  /\ \A f \in Suspects : h <= f
            /\ n \in Clusters
            /\ mod' = mod \cup r.mod \cup (IF other THEN {"FATMOD"} ELSE {})
            /\ fat' = CASE moves -> clearchain(taken, g)
                        [] other /\ ~moves -> clearchain(r.fat, g)
                        [] OTHER -> r.fat
            /\ IF moves /\ g = h THEN GoOn("spinning", 0)
               ELSE IF moves /\ r.fat.next[LastOf(r.fat, n, g)] \in Clusters
               THEN GoOn("chains", h)
               ELSE GoOn("chains", h + 1)
    BY <1>4, CrossLinkStep
  <2>2. mod \subseteq mod' /\ tryclear(fat, h, LastOf(fat, h, h), clear, trunc).mod \subseteq mod'
    BY <2>1
  <2>3. mod' \cap Told # {}
    BY <1>1, <2>2, TryclearTells, AnswersType
  <2>4. phase' \in {"spinning", "chains"} /\ UNCHANGED tree
    BY <2>1 DEF GoOn
  <2>5. phase = "chains" /\ UNCHANGED <<fats, compare>>
    BY <1>4 DEF CrossLink, card, boot
  <2>6. QED
    BY <2>2, <2>3, <2>4, <2>5, AnnouncedWalk
<1>5. CASE OpenRoot
  <2>1. phase = "chains" /\ UNCHANGED <<fats, compare, tree>> /\ mod \subseteq mod'
    BY <1>5 DEF OpenRoot, card, boot
  <2>2. \/ phase' = "out" /\ "FATAL" \in mod'
        \/ phase' = "dirs" /\ "FATMOD" \in mod'
        \/ /\ phase' = "dirs"
           /\ fat' = [fat EXCEPT !.next = [c \in Clusters |-> IF FALSE THEN FREE ELSE @[c]],
                                 !.used = @ \cup ({root} \ {FREE})]
    BY <1>5 DEF OpenRoot
  <2>3. CASE phase' = "out" /\ "FATAL" \in mod'
    BY <2>3, AnnouncedOut
  <2>4. CASE phase' = "dirs" /\ "FATMOD" \in mod'
    <3>1. mod' \cap Told # {}
      BY <2>4 DEF Told
    <3>2. QED
      BY <2>1, <2>4, <3>1, AnnouncedWalk
  <2>5. CASE /\ phase' = "dirs"
             /\ fat' = [fat EXCEPT !.next = [c \in Clusters |-> IF FALSE THEN FREE ELSE @[c]],
                                   !.used = @ \cup ({root} \ {FREE})]
    <3>1. fat'.next = fat.next
      BY <1>1, <2>5 DEF Chains, Table
    <3>2. QED
      BY <2>1, <2>5, <3>1, AnnouncedWalk
  <2>6. QED
    BY <2>2, <2>3, <2>4, <2>5
<1>6. QED
  BY <1>2, <1>3, <1>4, <1>5

LEMMA ChecksizeTells ==
  ASSUME NEW f \in Chains, NEW h \in Places \cup {OUT}, NEW n \in Nat, NEW yes \in BOOLEAN
  PROVE  checksize(f, h, n, yes).fat = f \/ checksize(f, h, n, yes).mod \cap Told # {}
<1> DEFINE physical == IF h = FREE THEN 0 ELSE f.length[h]
           cut == IF yes /\ CutAt(f.next, h, n) \in Clusters
                  THEN [clearchain(f, f.next[CutAt(f.next, h, n)])
                          EXCEPT !.next[CutAt(f.next, h, n)] = EOF]
                  ELSE f
<1>1. If({"FATMOD"}, yes) \cap Told # {}
  BY DEF If, Told
<1>2. checksize(f, h, n, yes).fat
        = CASE h = OUT -> f
            [] h # OUT /\ physical < n -> f
            [] h # OUT /\ physical > n -> cut
            [] OTHER -> f
  BY DEF checksize
<1>3. checksize(f, h, n, yes).mod
        = CASE h = OUT -> {"ERROR"}
            [] h # OUT /\ physical < n -> If({"DIRMOD", "THIS"}, yes)
            [] h # OUT /\ physical > n -> If({"FATMOD"}, yes)
            [] OTHER -> {}
  BY DEF checksize
<1>4. h # OUT => physical \in Nat
  BY DEF Chains, Places
<1> HIDE DEF physical, cut
<1>5. CASE h # OUT /\ physical > n /\ ~(physical < n)
  <2>1. checksize(f, h, n, yes).mod = If({"FATMOD"}, yes)
    BY <1>3, <1>5
  <2>2. QED
    BY <1>1, <2>1
<1>6. CASE ~(h # OUT /\ physical > n /\ ~(physical < n))
  BY <1>2, <1>4, <1>6
<1>7. QED
  BY <1>5, <1>6

LEMMA StartOfFileTells ==
  ASSUME NEW e \in Entry, NEW yes \in BOOLEAN, fat \in Chains
  PROVE  StartOfFile(e, yes).fat.next = fat.next \/ StartOfFile(e, yes).mod \cap Told # {}
<1>1. CASE e.size = 0 /\ e.start # FREE /\ yes
  <2>1. "FATMOD" \in StartOfFile(e, yes).mod
    BY <1>1 DEF StartOfFile
  <2>2. QED
    BY <2>1 DEF Told
<1>2. CASE ~(e.size = 0 /\ e.start # FREE /\ yes)
  <2>1. PICK used : StartOfFile(e, yes).fat = [fat EXCEPT !.used = used]
    BY <1>2 DEF StartOfFile
  <2>2. QED
    BY <2>1 DEF Chains
<1>3. QED
  BY <1>1, <1>2

LEMMA AnnouncedDirs ==
  ASSUME Typed, Announced, ReadFile \/ BadSubdir \/ ReadDots \/ ReadSubdir
  PROVE  Announced'
<1>1. Pieces /\ fat \in Chains
  BY TypedPieces DEF Pieces
<1>2. CASE ReadFile
  <2> DEFINE q(t, first) == StartOfFile(buf[t], first)
             r(t, first, second) == checksize(q(t, first).fat, q(t, first).chain,
                                              q(t, first).size, second)
  <2>1. PICK t \in Later, first \in Answers, second \in Answers :
          \/ Ends("killed")
          \/ /\ fat' = r(t, first, second).fat
             /\ tree' = tree \cup q(t, first).mod \cup r(t, first, second).mod
             /\ UNCHANGED <<mod, phase>>
    BY <1>2, ReadFileStep, ZenonT(40)
  <2>2. phase = "dirs" /\ UNCHANGED <<fats, compare>>
    BY <1>2 DEF ReadFile, card, boot
  <2>3. t \in 1 .. Slots /\ first \in BOOLEAN /\ second \in BOOLEAN
    BY <1>1, <2>2, AnswersType, TypedPieces DEF Later, Pieces, InCopies
  <2>4. CASE Ends("killed")
    BY <2>4, AnnouncedOut DEF Ends
  <2>5. CASE /\ fat' = r(t, first, second).fat
             /\ tree' = tree \cup q(t, first).mod \cup r(t, first, second).mod
             /\ UNCHANGED <<mod, phase>>
    <3>1. buf[t] \in Entry
      BY <1>1, <2>3 DEF Pieces, Buffer
    <3>2. /\ q(t, first).fat \in Chains /\ q(t, first).chain \in Places \cup {OUT}
          /\ q(t, first).size \in Nat
      BY <1>1, <2>3, <3>1, StartOfFileType
    <3>3. q(t, first).fat.next = fat.next \/ q(t, first).mod \cap Told # {}
      BY <1>1, <2>3, <3>1, StartOfFileTells
    <3> HIDE DEF q
    <3>4. r(t, first, second).fat = q(t, first).fat \/ r(t, first, second).mod \cap Told # {}
      BY <2>3, <3>2, ChecksizeTells
    <3> HIDE DEF r
    <3>5. fat'.next = fat.next \/ (mod' \cup tree') \cap Told # {}
      BY <2>5, <3>3, <3>4
    <3>6. QED
      BY <2>2, <2>5, <3>5, AnnouncedWalk
  <2>6. QED
    BY <2>1, <2>4, <2>5
<1>3. CASE BadSubdir
  <2>1. phase = "dirs" /\ UNCHANGED <<fats, compare, mod, phase, fat>> /\ tree \subseteq tree'
    BY <1>3 DEF BadSubdir, card, boot
  <2>2. QED
    BY <2>1, AnnouncedWalk
<1>4. CASE ReadDots
  <2>1. phase = "dirs" /\ UNCHANGED <<fats, compare, mod, phase>> /\ tree \subseteq tree'
    BY <1>4 DEF ReadDots, card, boot
  <2>2. fat'.next = fat.next
    BY <1>1, <1>4 DEF ReadDots, Chains
  <2>3. QED
    BY <2>1, <2>2, AnnouncedWalk
<1>5. CASE ReadSubdir
  <2>1. /\ phase = "dirs" /\ phase' \in {"dirs", "spinning"}
        /\ UNCHANGED <<fats, compare, mod>> /\ tree \subseteq tree'
    BY <1>5 DEF ReadSubdir, card, boot
  <2>2. fat'.next = fat.next
    BY <1>1, <1>5 DEF ReadSubdir, Chains
  <2>3. QED
    BY <2>1, <2>2, AnnouncedWalk
<1>6. QED
  BY <1>2, <1>3, <1>4, <1>5

LEMMA AnnouncedLost ==
  ASSUME Typed, Announced, EndCluster \/ DirWriteFails \/ Reconnect \/ NotReconnected
  PROVE  Announced'
<1>1. fat \in Chains
  BY TypedPieces DEF Pieces
<1>2. CASE EndCluster
  <2>1. /\ phase = "dirs" /\ phase' \in {"lost", "spinning", "dirs"}
        /\ UNCHANGED <<fats, compare, fat>>
        /\ mod \cup tree \subseteq mod' \cup tree' \cup {"THIS"}
        /\ phase' = "lost" => tree' = {}
    BY <1>2 DEF EndCluster, boot
  <2>2. QED
    BY <2>1, AnnouncedWalk
<1>3. CASE DirWriteFails
  BY <1>3, AnnouncedOut DEF DirWriteFails, GoOn
<1>4. CASE Reconnect
  <2>1. /\ phase = "lost" /\ UNCHANGED <<fats, compare, phase, tree>>
    BY <1>4 DEF Reconnect, boot
  <2>2. tree = {}
    BY <2>1 DEF Announced, Emptied
  <2>3. PICK h : \/ fat' = [fat EXCEPT !.used = @ \cup {h}] /\ mod' = mod \cup {"DIRMOD"}
                 \/ mod' = mod \cup {"FATMOD"}
    BY <1>4 DEF Reconnect
  <2>4. fat'.next = fat.next \/ mod' \cap Told # {}
    BY <1>1, <2>3 DEF Chains, Told
  <2>5. mod \subseteq mod'
    BY <2>3
  <2>6. QED
    BY <2>1, <2>2, <2>4, <2>5, AnnouncedWalk
<1>5. CASE NotReconnected
  <2>1. phase = "lost" /\ UNCHANGED <<fats, compare, phase, tree>> /\ mod \cup {"ERROR"} \subseteq mod'
    BY <1>5 DEF NotReconnected, card, boot
  <2>2. tree = {} /\ mod' \cap Told # {}
    BY <2>1 DEF Announced, Emptied, Told
  <2>3. QED
    BY <2>1, <2>2, AnnouncedWalk
<1>6. QED
  BY <1>2, <1>3, <1>4, <1>5

LEMMA AnnouncedUpdate == ASSUME Typed, Announced, UpdateFats PROVE Announced'
<1>1. /\ phase = "lost" /\ at' = 1 /\ UNCHANGED <<fats, compare, fat, tree>>
      /\ \/ phase' = "write" /\ "FATMOD" \in mod /\ mod' = mod
         \/ phase' = "dirty" /\ "ERROR" \in mod'
         \/ phase' = "dirty" /\ "FATMOD" \notin mod /\ mod' = mod
  BY DEF UpdateFats, card, boot
<1>2. CASE phase' = "write" /\ "FATMOD" \in mod /\ mod' = mod
  BY <1>1, <1>2 DEF Announced, Loaded, Walked, Emptied, Written, Finished
<1>3. CASE phase' = "dirty" /\ "ERROR" \in mod'
  BY <1>3 DEF Announced, Loaded, Walked, Emptied, Written, Finished, Failed
<1>4. CASE phase' = "dirty" /\ "FATMOD" \notin mod /\ mod' = mod
  <2>1. tree = {} /\ ((mod \cup tree) \cap Told # {} \/ \A i \in Watched : Same(i))
    BY <1>1 DEF Announced, Emptied, Walked
  <2>2. Failed \/ \A i \in Watched : Same(i)
    BY <1>4, <2>1 DEF Failed, Told
  <2>3. Failed' \/ \A i \in 1 .. Copies : compare' \/ i = 1 \/ "FATMOD" \in mod' => Same(i)'
    BY <1>1, <1>4, <2>2 DEF Failed, Same, Watched
  <2>4. QED
    BY <1>4, <2>3 DEF Announced, Loaded, Walked, Emptied, Written, Finished
<1>5. QED
  BY <1>1, <1>2, <1>3, <1>4

LEMMA AnnouncedWrite == ASSUME Typed, Announced, writefat PROVE Announced'
<1>1. /\ at \in 1 .. Copies /\ phase \in {"write", "clean"} /\ UNCHANGED <<fat, compare, tree>>
      /\ fats \in [1 .. Copies -> Copy]
  BY TypedPieces DEF writefat, InCopies, boot, Pieces, GoOn
<1>2. /\ \/ mod' = mod /\ fats' = [fats EXCEPT ![at] = [sig |-> sig, next |-> fat.next]]
         \/ mod' = mod \cup {"FATAL"}
      /\ \/ phase' = phase /\ at' = at + 1 /\ at < Copies
         \/ phase' = "out" /\ (phase = "clean" \/ "FATAL" \in mod')
         \/ phase' = "dirty" /\ at = Copies /\ phase = "write"
  BY <1>1, NumberFacts DEF writefat, GoOn
<1>3. CASE mod' = mod \cup {"FATAL"}
  BY <1>1, <1>2, <1>3 DEF Announced, Loaded, Walked, Emptied, Written, Finished, Failed
<1>4. CASE mod' = mod /\ fats' = [fats EXCEPT ![at] = [sig |-> sig, next |-> fat.next]]
  <2>1. \A i \in 1 .. Copies : (i = at \/ Same(i)) => Same(i)'
    BY <1>1, <1>4 DEF Same
  <2>2. CASE phase = "clean"
    <3>1. Failed' \/ \A i \in 1 .. Copies : compare' \/ i = 1 \/ "FATMOD" \in mod' => Same(i)'
      BY <1>1, <1>4, <2>1, <2>2 DEF Announced, Finished, Failed
    <3>2. phase' \in {"clean", "out"}
      BY <1>2, <2>2
    <3>3. QED
      BY <3>1, <3>2 DEF Announced, Loaded, Walked, Emptied, Written, Finished
  <2>3. CASE phase = "write"
    <3>1. "FATMOD" \in mod' /\ ("FATAL" \in mod' \/ \A i \in 1 .. at : Same(i)')
      <4>1. "FATMOD" \in mod /\ ("FATAL" \in mod \/ \A i \in 1 .. at - 1 : Same(i))
        BY <2>3 DEF Announced, Written
      <4>2. \A i \in 1 .. at : i \in 1 .. Copies /\ (i = at \/ i \in 1 .. at - 1)
        BY <1>1, NumberFacts
      <4>3. QED
        BY <1>4, <2>1, <4>1, <4>2
    <3>2. CASE phase' = "write" /\ at' = at + 1
      <4>1. 1 .. at' - 1 = 1 .. at
        BY <1>1, <3>2, NumberFacts
      <4>2. QED
        BY <3>1, <3>2, <4>1 DEF Announced, Loaded, Walked, Emptied, Written, Finished
    <3>3. CASE phase' = "out" /\ "FATAL" \in mod'
      BY <3>3, AnnouncedOut
    <3>4. CASE phase' = "dirty" /\ at = Copies
      BY <3>1, <3>4 DEF Announced, Loaded, Walked, Emptied, Written, Finished, Failed
    <3>5. QED
      BY <1>2, <2>3, <3>2, <3>3, <3>4
  <2>4. QED
    BY <1>1, <2>2, <2>3
<1>5. QED
  BY <1>2, <1>3, <1>4

LEMMA AnnouncedMark == ASSUME Typed, Announced, MarkClean PROVE Announced'
<1>1. /\ phase = "dirty" /\ phase' \in {"clean", "out"} /\ UNCHANGED <<fats, fat, compare>>
      /\ mod' = mod \/ mod' = mod \cup {"ERROR"}
  BY DEF MarkClean, card, boot
<1>2. Failed' \/ \A i \in 1 .. Copies : compare' \/ i = 1 \/ "FATMOD" \in mod' => Same(i)'
  BY <1>1 DEF Announced, Finished, Failed, Same
<1>3. QED
  BY <1>1, <1>2 DEF Announced, Loaded, Walked, Emptied, Written, Finished

LEMMA AnnouncedKept == Typed /\ Announced /\ [Next]_vars => Announced'
<1> SUFFICES ASSUME Typed, Announced, [Next]_vars
             PROVE  Announced'
  OBVIOUS
<1>1. CASE Exit \/ Kill
  BY <1>1, AnnouncedOut DEF Exit, Kill, Ends
<1>2. CASE Spin \/ UNCHANGED vars
  BY <1>2 DEF Spin, Announced, Loaded, Walked, Emptied, Written, Finished, Watched, Same,
              Failed, vars, card, boot, memory
<1>3. CASE Check /\ ~Exit /\ ~Spin
  BY <1>3, AnnouncedStart, AnnouncedLoad, AnnouncedChains, AnnouncedDirs, AnnouncedLost,
     AnnouncedUpdate, AnnouncedWrite, AnnouncedMark DEF Check
<1>4. QED
  BY <1>1, <1>2, <1>3 DEF Next

(* A check that reports neither FSERROR nor FSFATAL has the FAT it decided  *)
(* on in every copy it answers for: no repair of any phase is lost between  *)
(* the memory and the card, whatever was answered and whatever write failed.*)
THEOREM NothingIsLost == Spec => []NothingPending
<1>1. Init => Announced
  BY DEF Init, Announced, Loaded, Walked, Emptied, Written, Finished
<1>2. Init => Typed
  BY InitType
<1>3. Typed /\ [Next]_vars => Typed'
  BY NextType
<1>4. Typed /\ Announced /\ [Next]_vars => Announced'
  BY AnnouncedKept
<1>5. Announced => NothingPending
  BY DEF Announced, Finished, Failed, Same, NothingPending
<1>6. QED
  BY <1>1, <1>2, <1>3, <1>4, <1>5, PTL DEF Spec
-----------------------------------------------------------------------------
(* Walks.  A walk is a function on 0 .. n whose values follow one another;  *)
(* it exists because it does for every shorter one.                         *)
Walks(U, a, step, n) ==
  {f \in [0 .. n -> U] : f[0] = a /\ \A k \in 1 .. n : f[k] = step[f[k - 1]]}

LEMMA Iterate ==
  ASSUME NEW U, NEW a, a \in U, NEW step, step \in [U -> U], NEW n \in Nat
  PROVE  Walks(U, a, step, n) # {}
<1> DEFINE Wrong == {m \in 0 .. n : Walks(U, a, step, m) = {}}
<1>1. ASSUME Wrong # {} PROVE FALSE
  <2>1. Wrong \subseteq Nat /\ \A m \in Wrong : m \in Nat /\ m <= n /\ Walks(U, a, step, m) = {}
    OBVIOUS
  <2>2. \A m \in Nat : m <= n /\ m \notin Wrong => Walks(U, a, step, m) # {}
    OBVIOUS
  <2>3. Walks(U, a, step, 0) # {}
    <3>1. [k \in 0 .. 0 |-> a] \in Walks(U, a, step, 0)
      BY DEF Walks
    <3>2. QED
      BY <3>1
  <2> HIDE DEF Wrong
  <2>4. PICK m \in Wrong : \A k \in Wrong : <<k, m>> \notin OpToRel(<, Nat)
    BY <1>1, <2>1, NatLessThanWellFounded, WFMin
  <2>5. m \in Nat /\ m <= n /\ Walks(U, a, step, m) = {} /\ m # 0
    BY <2>1, <2>3
  <2>6. m - 1 \in Nat /\ m - 1 < m /\ m - 1 <= n
    BY <2>5
  <2>7. m - 1 \notin Wrong
    <3>1. \A k \in Wrong : ~(k < m)
      BY <2>1, <2>4, <2>5 DEF OpToRel
    <3>2. QED
      BY <2>6, <3>1
  <2>8. PICK g \in Walks(U, a, step, m - 1) : TRUE
    BY <2>2, <2>6, <2>7
  <2>9. g \in [0 .. m - 1 -> U] /\ g[0] = a /\ \A k \in 1 .. m - 1 : g[k] = step[g[k - 1]]
    BY DEF Walks
  <2> DEFINE f == [k \in 0 .. m |-> IF k = m THEN step[g[m - 1]] ELSE g[k]]
  <2>10. f \in [0 .. m -> U] /\ f[0] = a
    BY <2>5, <2>6, <2>9
  <2>11. ASSUME NEW k \in 1 .. m PROVE f[k] = step[f[k - 1]]
    <3>1. k - 1 \in 0 .. m - 1 /\ f[k - 1] = g[k - 1]
      BY <2>5
    <3>2. CASE k = m
      BY <3>1, <3>2, <2>5
    <3>3. CASE k # m
      BY <3>1, <3>3, <2>5, <2>9
    <3>4. QED
      BY <3>2, <3>3
  <2>12. f \in Walks(U, a, step, m)
    BY <2>10, <2>11 DEF Walks
  <2>13. QED
    BY <2>5, <2>12
<1>2. n \in 0 .. n
  OBVIOUS
<1>3. QED
  BY <1>1, <1>2

(* What holds at the start of a walk and at each next step holds all along. *)
LEMMA Along0 ==
  ASSUME NEW n \in Nat, NEW S, 0 \in S, \A k \in 0 .. n - 1 : k \in S => k + 1 \in S
  PROVE  0 .. n \subseteq S
<1> DEFINE Wrong == (0 .. n) \ S
<1>1. ASSUME Wrong # {} PROVE FALSE
  <2>1. Wrong \subseteq Nat /\ \A m \in Wrong : m \in Nat /\ m <= n /\ m \notin S
    OBVIOUS
  <2>2. \A m \in Nat : m <= n /\ m \notin Wrong => m \in S
    OBVIOUS
  <2> HIDE DEF Wrong
  <2>4. PICK m \in Wrong : \A k \in Wrong : <<k, m>> \notin OpToRel(<, Nat)
    BY <1>1, <2>1, NatLessThanWellFounded, WFMin
  <2>5. m \in Nat /\ m <= n /\ m \notin S /\ m # 0
    BY <2>1
  <2>6. \A k \in Wrong : ~(k < m)
    BY <2>1, <2>4, <2>5 DEF OpToRel
  <2>7. m - 1 \in Nat /\ m - 1 \in 0 .. n - 1 /\ m - 1 \in S
    BY <2>2, <2>5, <2>6
  <2>8. (m - 1) + 1 \in S /\ (m - 1) + 1 = m
    BY <2>5, <2>7
  <2>9. QED
    BY <2>5, <2>8
<1>2. QED
  BY <1>1

LEMMA ReachSteps ==
  ASSUME NEW next, NEW p
  PROVE  \E r :
           /\ r[0] = {p}
           /\ \A k \in 1 .. NumClusters : r[k] = UNION {{c, next[c]} : c \in Clusters \cap r[k - 1]}
           /\ Reach(next, p) = Clusters \cap r[NumClusters]
<1> DEFINE U == SUBSET ({p} \cup Clusters \cup {next[c] : c \in Clusters})
           step == [X \in U |-> UNION {{c, next[c]} : c \in Clusters \cap X}]
           r[k \in 0 .. NumClusters] ==
             IF k = 0 THEN {p} ELSE UNION {{c, next[c]} : c \in Clusters \cap r[k - 1]}
<1>1. {p} \in U /\ step \in [U -> U] /\ NumClusters \in Nat
  BY NumberFacts
<1>2. PICK f \in [0 .. NumClusters -> U] :
        f[0] = {p} /\ \A k \in 1 .. NumClusters : f[k] = step[f[k - 1]]
  <2> HIDE DEF U, step
  <2>1. Walks(U, {p}, step, NumClusters) # {}
    BY <1>1, Iterate
  <2>2. QED
    BY <2>1 DEF Walks
<1>3. f = [k \in 0 .. NumClusters |->
             IF k = 0 THEN {p} ELSE UNION {{c, next[c]} : c \in Clusters \cap f[k - 1]}]
  <2>1. \A k \in 0 .. NumClusters : k # 0 => k \in 1 .. NumClusters /\ f[k - 1] \in U
    BY <1>1, <1>2
  <2>2. QED
    BY <1>2, <2>1
<1>4. r = [k \in 0 .. NumClusters |->
             IF k = 0 THEN {p} ELSE UNION {{c, next[c]} : c \in Clusters \cap r[k - 1]}]
  BY <1>3
<1>5. Reach(next, p) = Clusters \cap r[NumClusters]
  BY DEF Reach
<1>6. r[0] = {p} /\ \A k \in 1 .. NumClusters : r[k] = UNION {{c, next[c]} : c \in Clusters \cap r[k - 1]}
  <2> HIDE DEF r
  <2>1. QED
    BY <1>1, <1>4
<1>7. QED
  BY <1>5, <1>6

(* A growing sequence of subsets of S that stands still from where it does  *)
(* so once has come to a stop after as many steps as S has elements.        *)
LEMMA Stops ==
  ASSUME NEW S, IsFiniteSet(S), NEW m \in Nat, Cardinality(S) < m, NEW L,
         \A k \in 0 .. m : L[k] \subseteq S,
         \A k \in 0 .. m - 1 : L[k] \subseteq L[k + 1],
         \A k \in 0 .. m - 2 : L[k] = L[k + 1] => L[k + 1] = L[k + 2]
  PROVE  L[m - 1] = L[m]
<1> SUFFICES ASSUME L[m - 1] # L[m]
             PROVE  FALSE
  OBVIOUS
<1>1. Cardinality(S) \in Nat /\ m > 0
  BY FS_CardinalityType
<1>2. \A k \in 0 .. m - 1 : L[k] # L[k + 1]
  <2> DEFINE W == {j \in 0 .. m - 1 : L[(m - 1) - j] # L[(m - 1) - j + 1]}
  <2>1. 0 \in W
    BY <1>1
  <2>2. ASSUME NEW j \in 0 .. (m - 1) - 1, j \in W
        PROVE  j + 1 \in W
    <3>1. (m - 1) - (j + 1) \in 0 .. m - 2 /\ j + 1 \in 0 .. m - 1
      BY <1>1
    <3>2. /\ (m - 1) - (j + 1) + 1 = (m - 1) - j
          /\ (m - 1) - (j + 1) + 2 = (m - 1) - j + 1
      BY <1>1
    <3>3. L[(m - 1) - j] # L[(m - 1) - j + 1]
      BY <2>2
    <3>4. L[(m - 1) - (j + 1)] # L[(m - 1) - (j + 1) + 1]
      BY <3>1, <3>2, <3>3
    <3>5. QED
      BY <3>1, <3>4
  <2>3. 0 .. m - 1 \subseteq W
    <3> HIDE DEF W
    <3>1. m - 1 \in Nat
      BY <1>1
    <3>2. QED
      BY <2>1, <2>2, <3>1, Along0
  <2>4. ASSUME NEW k \in 0 .. m - 1
        PROVE  L[k] # L[k + 1]
    <3>1. (m - 1) - k \in 0 .. m - 1 /\ (m - 1) - ((m - 1) - k) = k
      BY <1>1
    <3>2. (m - 1) - k \in W
      BY <2>3, <3>1
    <3>3. QED
      BY <3>1, <3>2
  <2>5. QED
    BY <2>4
<1>3. \A k \in 0 .. m : IsFiniteSet(L[k]) /\ Cardinality(L[k]) \in Nat
  BY FS_Subset, FS_CardinalityType
<1> DEFINE G == {k \in 0 .. m : k <= Cardinality(L[k])}
<1>4. 0 \in G
  BY <1>3
<1>5. ASSUME NEW k \in 0 .. m - 1, k \in G
      PROVE  k + 1 \in G
  <2>1. k + 1 \in 0 .. m /\ k \in 0 .. m
    BY <1>1
  <2>2. L[k] \subseteq L[k + 1] /\ L[k] # L[k + 1]
    BY <1>2
  <2>3. Cardinality(L[k]) <= Cardinality(L[k + 1]) /\ Cardinality(L[k]) # Cardinality(L[k + 1])
    BY <1>3, <2>1, <2>2, FS_Subset
  <2>4. k + 1 <= Cardinality(L[k + 1])
    BY <1>3, <1>5, <2>1, <2>3
  <2>5. QED
    BY <2>1, <2>4
<1>6. 0 .. m \subseteq G
  <2> HIDE DEF G
  <2>1. QED
    BY <1>4, <1>5, Along0
<1>7. m <= Cardinality(L[m]) /\ Cardinality(L[m]) <= Cardinality(S)
  <2>1. m \in G /\ L[m] \subseteq S
    BY <1>6
  <2>2. QED
    BY <2>1, FS_Subset
<1>8. QED
  BY <1>1, <1>3, <1>7

(* Reach is the smallest set of clusters that holds p and is closed.        *)
LEMMA ReachClosed ==
  ASSUME NEW next, NEW p
  PROVE  /\ p \in Clusters => p \in Reach(next, p)
         /\ \A c \in Reach(next, p) : next[c] \in Clusters => next[c] \in Reach(next, p)
<1>1. PICK r : /\ r[0] = {p}
               /\ \A k \in 1 .. NumClusters :
                    r[k] = UNION {{c, next[c]} : c \in Clusters \cap r[k - 1]}
               /\ Reach(next, p) = Clusters \cap r[NumClusters]
  BY ReachSteps
<1> DEFINE L == [k \in 0 .. NumClusters |-> Clusters \cap r[k]]
<1>2. ASSUME NEW k \in 0 .. NumClusters - 1
      PROVE  /\ L[k] = Clusters \cap r[k] /\ L[k + 1] = Clusters \cap r[k + 1]
             /\ r[k + 1] = UNION {{c, next[c]} : c \in L[k]}
  <2>1. k + 1 \in 1 .. NumClusters /\ k \in 0 .. NumClusters /\ k + 1 \in 0 .. NumClusters
        /\ (k + 1) - 1 = k
    BY NumberFacts
  <2>2. QED
    BY <1>1, <2>1
<1>3. \A k \in 0 .. NumClusters - 1 : L[k] \subseteq L[k + 1]
  BY <1>2
<1>4. ASSUME NEW k \in 0 .. NumClusters - 2, L[k] = L[k + 1]
      PROVE  L[k + 1] = L[k + 2]
  <2>1. /\ k \in 0 .. NumClusters - 1 /\ k + 1 \in 0 .. NumClusters - 1
        /\ (k + 1) + 1 = k + 2
    BY NumberFacts
  <2>2. r[k + 1] = r[k + 2]
    BY <1>2, <1>4, <2>1
  <2>3. QED
    BY <1>2, <2>1, <2>2
<1>5. Cardinality(Clusters) < NumClusters
  BY FS_Interval, NumberFacts DEF Clusters
<1>6. L[NumClusters - 1] = L[NumClusters]
  <2>1. \A k \in 0 .. NumClusters : L[k] \subseteq Clusters
    OBVIOUS
  <2> HIDE DEF L
  <2>2. QED
    BY <1>3, <1>4, <1>5, <2>1, ClustersFinite, NumberFacts, Stops
<1>7. Reach(next, p) = L[NumClusters]
  BY <1>1, NumberFacts
<1>8. NumClusters - 1 \in 0 .. NumClusters - 1 /\ (NumClusters - 1) + 1 = NumClusters
  BY NumberFacts
<1>9. ASSUME NEW c \in Reach(next, p), next[c] \in Clusters
      PROVE  next[c] \in Reach(next, p)
  <2> HIDE DEF L
  <2>1. c \in L[NumClusters - 1]
    BY <1>6, <1>7
  <2>2. /\ L[NumClusters] = Clusters \cap r[NumClusters]
        /\ r[NumClusters] = UNION {{d, next[d]} : d \in L[NumClusters - 1]}
    BY <1>2, <1>8
  <2>3. QED
    BY <1>7, <1>9, <2>1, <2>2
<1>10. ASSUME p \in Clusters PROVE p \in Reach(next, p)
  <2> DEFINE P == {k \in 0 .. NumClusters : p \in L[k]}
  <2>1. 0 \in P
    BY <1>1, <1>10, NumberFacts
  <2>2. \A k \in 0 .. NumClusters - 1 : k \in P => k + 1 \in P
    BY <1>3, NumberFacts
  <2>3. 0 .. NumClusters \subseteq P
    <3> HIDE DEF P
    <3>1. QED
      BY <2>1, <2>2, NumberFacts, Along0
  <2>4. QED
    BY <1>7, <2>3, NumberFacts
<1>11. QED
  BY <1>9, <1>10

LEMMA ReachLeast ==
  ASSUME NEW next, NEW p, NEW S, p \in Clusters => p \in S,
         \A c \in S \cap Clusters : next[c] \in Clusters => next[c] \in S
  PROVE  Reach(next, p) \subseteq S
<1>1. PICK r : /\ r[0] = {p}
               /\ \A k \in 1 .. NumClusters :
                    r[k] = UNION {{c, next[c]} : c \in Clusters \cap r[k - 1]}
               /\ Reach(next, p) = Clusters \cap r[NumClusters]
  BY ReachSteps
<1> DEFINE P == {k \in 0 .. NumClusters : Clusters \cap r[k] \subseteq S}
<1>2. 0 \in P
  BY <1>1, NumberFacts
<1>3. ASSUME NEW k \in 0 .. NumClusters - 1, k \in P PROVE k + 1 \in P
  <2>1. k + 1 \in 1 .. NumClusters /\ k + 1 \in 0 .. NumClusters /\ (k + 1) - 1 = k
    BY NumberFacts
  <2>2. r[k + 1] = UNION {{c, next[c]} : c \in Clusters \cap r[k]}
    BY <1>1, <2>1
  <2>3. QED
    BY <1>3, <2>1, <2>2
<1>4. 0 .. NumClusters \subseteq P
  <2> HIDE DEF P
  <2>1. QED
    BY <1>2, <1>3, NumberFacts, Along0
<1>5. QED
  BY <1>1, <1>4, NumberFacts

LEMMA ReachTrans ==
  ASSUME NEW next, NEW p, NEW q \in Reach(next, p)
  PROVE  Reach(next, q) \subseteq Reach(next, p)
BY ReachClosed, ReachLeast

(* A walk is its first cluster and the walk from the next one.              *)
LEMMA ReachUnfold ==
  ASSUME NEW next, NEW p \in Clusters
  PROVE  /\ next[p] \in Clusters => Reach(next, p) = {p} \cup Reach(next, next[p])
         /\ next[p] \notin Clusters => Reach(next, p) = {p}
<1>1. p \in Reach(next, p)
  BY ReachClosed
<1>2. ASSUME next[p] \in Clusters PROVE Reach(next, p) = {p} \cup Reach(next, next[p])
  <2>1. next[p] \in Reach(next, p)
    BY <1>1, <1>2, ReachClosed
  <2>2. Reach(next, next[p]) \subseteq Reach(next, p)
    BY <2>1, ReachTrans
  <2>3. next[p] \in Reach(next, next[p])
    BY <1>2, ReachClosed
  <2>4. Reach(next, p) \subseteq {p} \cup Reach(next, next[p])
    <3> DEFINE S == {p} \cup Reach(next, next[p])
    <3>1. \A c \in S \cap Clusters : next[c] \in Clusters => next[c] \in S
      BY <2>3, ReachClosed
    <3>2. p \in S
      OBVIOUS
    <3> HIDE DEF S
    <3>3. Reach(next, p) \subseteq S
      BY <3>1, <3>2, ReachLeast
    <3>4. QED
      BY <3>3 DEF S
  <2>5. QED
    BY <1>1, <2>2, <2>4
<1>3. ASSUME next[p] \notin Clusters PROVE Reach(next, p) = {p}
  BY <1>1, <1>3, ReachLeast
<1>4. QED
  BY <1>2, <1>3

LEMMA ReachPred ==
  ASSUME NEW next, NEW p, NEW c \in Reach(next, p), c # p
  PROVE  \E d \in Reach(next, p) : next[d] = c
<1> DEFINE S == {x \in Reach(next, p) : x = p \/ \E d \in Reach(next, p) : next[d] = x}
<1>1. Reach(next, p) \subseteq S
  BY ReachClosed, ReachLeast
<1>2. QED
  BY <1>1

(* A walk that comes back does not end.                                     *)
LEMMA Cycle ==
  ASSUME NEW next, NEW n \in Clusters, NEW d \in Reach(next, n), next[d] = n
  PROVE  Endless(next, n)
<1> DEFINE S == {x \in Reach(next, n) : d \in Reach(next, x)}
<1>1. Reach(next, n) \subseteq Clusters
  BY ReachType
<1>2. ASSUME NEW x \in S
      PROVE  next[x] \in Clusters /\ next[x] \in S
  <2>1. CASE x = d
    BY <2>1, ReachClosed
  <2>2. CASE x # d
    BY <1>1, <2>2, ReachUnfold, ReachClosed
  <2>3. QED
    BY <2>1, <2>2
<1>3. Reach(next, n) \subseteq S
  <2>1. n \in S
    BY ReachClosed
  <2> HIDE DEF S
  <2>2. QED
    BY <1>2, <2>1, ReachLeast
<1>4. QED
  BY <1>2, <1>3 DEF Endless

LEMMA Least ==
  ASSUME NEW S, S \subseteq Clusters, S # {}
  PROVE  \E h \in S : \A g \in S : ~(g < h)
<1>1. S \subseteq Nat
  BY ValueFacts
<1>2. PICK h \in S : \A g \in S : <<g, h>> \notin OpToRel(<, Nat)
  BY <1>1, NatLessThanWellFounded, WFMin
<1>3. QED
  BY <1>1, <1>2 DEF OpToRel

(* LastOf is the end of a walk of NumClusters steps.                        *)
LEMMA LastSteps ==
  ASSUME NEW f, NEW h, NEW p \in Clusters
  PROVE  \E w \in [0 .. NumClusters -> Clusters] :
           /\ w[0] = p /\ w[NumClusters] = LastOf(f, p, h)
           /\ \A k \in 1 .. NumClusters : w[k] = Along(f, h)[w[k - 1]]
<1> DEFINE step == Along(f, h)
           w[i \in 0 .. NumClusters] == IF i = 0 THEN p ELSE step[w[i - 1]]
<1>1. step \in [Clusters -> Clusters] /\ NumClusters \in Nat
  BY NumberFacts DEF Along
<1>2. PICK v \in [0 .. NumClusters -> Clusters] :
        v[0] = p /\ \A k \in 1 .. NumClusters : v[k] = step[v[k - 1]]
  <2> HIDE DEF step
  <2>1. Walks(Clusters, p, step, NumClusters) # {}
    BY <1>1, Iterate
  <2>2. QED
    BY <2>1 DEF Walks
<1>3. v = [i \in 0 .. NumClusters |-> IF i = 0 THEN p ELSE step[v[i - 1]]]
  <2> HIDE DEF step
  <2>1. QED
    BY <1>1, <1>2
<1>4. w = [i \in 0 .. NumClusters |-> IF i = 0 THEN p ELSE step[w[i - 1]]]
  BY <1>3
<1>5. LastOf(f, p, h) = w[NumClusters]
  BY DEF LastOf
<1> HIDE DEF step, w
<1>6. w[0] = p /\ \A k \in 1 .. NumClusters : w[k] = step[w[k - 1]]
  BY <1>1, <1>4
<1>7. w \in [0 .. NumClusters -> Clusters]
  <2> DEFINE P == {k \in 0 .. NumClusters : w[k] \in Clusters}
  <2>1. 0 \in P
    BY <1>6, NumberFacts
  <2>2. ASSUME NEW k \in 0 .. NumClusters - 1, k \in P PROVE k + 1 \in P
    <3>1. k + 1 \in 1 .. NumClusters /\ k + 1 \in 0 .. NumClusters /\ (k + 1) - 1 = k
      BY NumberFacts
    <3>2. QED
      BY <1>1, <1>6, <2>2, <3>1
  <2>3. 0 .. NumClusters \subseteq P
    <3> HIDE DEF P
    <3>1. QED
      BY <2>1, <2>2, NumberFacts, Along0
  <2>4. QED
    BY <1>4, <2>3
<1>8. QED
  BY <1>5, <1>6, <1>7 DEF step

-----------------------------------------------------------------------------
(* A chain whose last cluster holds an end mark: all of it is marked by its *)
(* head, and its clusters follow one another up to the last one.            *)
LEMMA HeadLine ==
  ASSUME NEW f \in Chains, NEW h \in Clusters, f.head[h] = h,
         f.next[LastOf(f, h, h)] = EOF
  PROVE  \A c \in Reach(f.next, h) :
           /\ f.head[c] = h
           /\ f.next[c] \in Clusters \cup {EOF}
           /\ ~Endless(f.next, c)
           /\ \A d \in Reach(f.next, h) : c \in Reach(f.next, d) \/ d \in Reach(f.next, c)
<1>1. PICK w \in [0 .. NumClusters -> Clusters] :
        /\ w[0] = h /\ w[NumClusters] = LastOf(f, h, h)
        /\ \A k \in 1 .. NumClusters : w[k] = Along(f, h)[w[k - 1]]
  BY LastSteps
<1>2. \A c \in Clusters :
        Along(f, h)[c] = IF f.next[c] \in Clusters /\ f.head[f.next[c]] = h THEN f.next[c] ELSE c
  BY DEF Along
<1>3. \A k \in 0 .. NumClusters - 1 :
        /\ k \in 0 .. NumClusters /\ k + 1 \in 0 .. NumClusters
        /\ w[k + 1] = Along(f, h)[w[k]]
  <2>1. \A k \in 0 .. NumClusters - 1 :
          k \in 0 .. NumClusters /\ k + 1 \in 1 .. NumClusters /\ (k + 1) - 1 = k
    BY NumberFacts
  <2>2. QED
    BY <1>1, <2>1
<1>4. \A k \in 0 .. NumClusters : w[k] \in Clusters /\ f.head[w[k]] = h
  <2> DEFINE P == {k \in 0 .. NumClusters : f.head[w[k]] = h}
  <2>1. 0 \in P
    BY <1>1, NumberFacts
  <2>2. \A k \in 0 .. NumClusters - 1 : k \in P => k + 1 \in P
    BY <1>1, <1>2, <1>3
  <2>3. 0 .. NumClusters \subseteq P
    <3> HIDE DEF P
    <3>1. QED
      BY <2>1, <2>2, NumberFacts, Along0
  <2>4. QED
    BY <1>1, <2>3
(* What stands still has reached the end. *)
<1>5. ASSUME NEW i \in 0 .. NumClusters, Along(f, h)[w[i]] = w[i]
      PROVE  w[i] = w[NumClusters]
  <2> DEFINE P == {k \in 0 .. NumClusters - i : w[i + k] = w[i]}
  <2>1. 0 \in P /\ NumClusters - i \in Nat
    BY NumberFacts
  <2>2. ASSUME NEW k \in 0 .. (NumClusters - i) - 1, k \in P PROVE k + 1 \in P
    <3>1. i + k \in 0 .. NumClusters - 1 /\ i + (k + 1) = (i + k) + 1 /\ k + 1 \in 0 .. NumClusters - i
      BY NumberFacts
    <3>2. w[i + k] = w[i]
      BY <2>2
    <3>3. w[(i + k) + 1] = w[i]
      BY <1>3, <1>5, <3>1, <3>2
    <3>4. QED
      BY <3>1, <3>3
  <2>3. 0 .. NumClusters - i \subseteq P
    <3> HIDE DEF P
    <3>1. QED
      BY <2>1, <2>2, Along0
  <2>4. NumClusters - i \in P /\ i + (NumClusters - i) = NumClusters
    BY <2>1, <2>3, NumberFacts
  <2>5. QED
    BY <2>4
<1>6. ASSUME NEW i \in 0 .. NumClusters
      PROVE  /\ f.next[w[i]] \in Clusters \cup {EOF}
             /\ f.next[w[i]] \in Clusters => i + 1 \in 0 .. NumClusters /\ w[i + 1] = f.next[w[i]]
  <2>1. CASE Along(f, h)[w[i]] = w[i]
    <3>1. f.next[w[i]] = EOF
      BY <1>1, <1>5, <2>1
    <3>2. QED
      BY <3>1, ValueFacts
  <2>2. CASE Along(f, h)[w[i]] # w[i]
    <3>1. f.next[w[i]] \in Clusters /\ Along(f, h)[w[i]] = f.next[w[i]]
      BY <1>2, <1>4, <2>2
    <3>2. i # NumClusters
      BY <1>1, <3>1, ValueFacts
    <3>3. i \in 0 .. NumClusters - 1
      BY <3>2, NumberFacts
    <3>4. QED
      BY <1>3, <3>1, <3>3
  <2>3. QED
    BY <2>1, <2>2
<1> DEFINE K == {w[i] : i \in 0 .. NumClusters}
<1>7. \A c \in Reach(f.next, h) : \E i \in 0 .. NumClusters : c = w[i]
  <2>1. h \in K
    BY <1>1, NumberFacts
  <2>2. \A c \in K \cap Clusters : f.next[c] \in Clusters => f.next[c] \in K
    BY <1>6
  <2>3. Reach(f.next, h) \subseteq K
    <3> HIDE DEF K
    <3>1. QED
      BY <2>1, <2>2, ReachLeast
  <2>4. QED
    BY <2>3
<1>8. ASSUME NEW i \in 0 .. NumClusters, NEW j \in 0 .. NumClusters, i <= j
      PROVE  w[j] \in Reach(f.next, w[i])
  <2> DEFINE P == {k \in 0 .. j - i : w[i + k] \in Reach(f.next, w[i])}
  <2>1. j - i \in Nat /\ j - i \in 0 .. j - i /\ i + (j - i) = j
    BY <1>8, NumberFacts
  <2>2. 0 \in P
    BY <1>4, <2>1, ReachClosed
  <2>3. ASSUME NEW k \in 0 .. (j - i) - 1, k \in P PROVE k + 1 \in P
    <3>1. /\ i + k \in 0 .. NumClusters - 1 /\ i + k \in 0 .. NumClusters
          /\ i + (k + 1) = (i + k) + 1 /\ k + 1 \in 0 .. j - i
      BY <2>1, NumberFacts
    <3>2. w[(i + k) + 1] = Along(f, h)[w[i + k]] /\ w[i + k] \in Clusters
      BY <1>3, <1>4, <3>1
    <3>3. w[i + k] \in Reach(f.next, w[i])
      BY <2>3
    <3>4. w[(i + k) + 1] = w[i + k] \/ (f.next[w[i + k]] \in Clusters /\ w[(i + k) + 1] = f.next[w[i + k]])
      BY <1>2, <3>2
    <3>5. w[(i + k) + 1] \in Reach(f.next, w[i])
      BY <3>3, <3>4, ReachClosed
    <3>6. QED
      BY <3>1, <3>5
  <2>4. 0 .. j - i \subseteq P
    <3> HIDE DEF P
    <3>1. QED
      BY <2>1, <2>2, <2>3, Along0
  <2>5. QED
    BY <2>1, <2>4
<1>9. ASSUME NEW c \in Reach(f.next, h)
      PROVE  /\ f.head[c] = h
             /\ f.next[c] \in Clusters \cup {EOF}
             /\ ~Endless(f.next, c)
             /\ \A d \in Reach(f.next, h) : c \in Reach(f.next, d) \/ d \in Reach(f.next, c)
  <2>1. PICK i \in 0 .. NumClusters : c = w[i]
    BY <1>7
  <2>2. w[NumClusters] \in Reach(f.next, c)
    BY <1>8, <2>1, NumberFacts
  <2>3. ~Endless(f.next, c)
    BY <1>1, <2>2, ValueFacts DEF Endless
  <2>4. ASSUME NEW d \in Reach(f.next, h)
        PROVE  c \in Reach(f.next, d) \/ d \in Reach(f.next, c)
    <3>1. PICK j \in 0 .. NumClusters : d = w[j]
      BY <1>7
    <3>2. i <= j \/ j <= i
      BY NumberFacts
    <3>3. QED
      BY <1>8, <2>1, <3>1, <3>2
  <2>5. QED
    BY <1>4, <1>6, <2>1, <2>3, <2>4
<1>10. QED
  BY <1>9

(* What pass 1 of checkfat leaves: every cluster in use is marked by the    *)
(* last chain that reaches it.                                              *)
Over(next, c) == {h \in Starts(next) : c \in Reach(next, h)}

Marked(f) ==
  /\ \A c \in Clusters : IF Over(f.next, c) = {} THEN f.head[c] = 0
                         ELSE f.head[c] \in Over(f.next, c)
                              /\ \A g \in Over(f.next, c) : g <= f.head[c]
  /\ \A h \in Starts(f.next) : ~Endless(f.next, h) => f.length[h] = Cardinality(Reach(f.next, h))

(* Every cluster in use lies on a chain that marks its own head.            *)
LEMMA MarkedHead ==
  ASSUME NEW f, Marked(f), NEW c \in Clusters, f.next[c] \notin {FREE, BAD}
  PROVE  \E h \in Starts(f.next) : c \in Reach(f.next, h) /\ f.head[h] = h
<1> DEFINE inuse == {x \in Clusters : f.next[x] \notin {FREE, BAD}}
           P == {g \in inuse : c \in Reach(f.next, g)}
<1>1. Starts(f.next) = {h \in inuse : \A g \in inuse : g < h => h \notin Reach(f.next, g)}
  BY DEF Starts
<1>2. c \in P
  BY ReachClosed
<1>3. PICK g \in P : \A x \in P : ~(x < g)
  BY <1>2, Least
<1>4. g \in Starts(f.next)
  <2>1. ASSUME NEW x \in inuse, x < g, g \in Reach(f.next, x) PROVE FALSE
    <3>1. c \in Reach(f.next, x)
      BY <1>3, <2>1, ReachTrans
    <3>2. QED
      BY <1>3, <2>1, <3>1
  <2>2. QED
    BY <1>1, <1>3, <2>1
<1>5. Over(f.next, c) # {}
  BY <1>3, <1>4 DEF Over
<1> DEFINE h == f.head[c]
<1>6. h \in Over(f.next, c) /\ \A x \in Over(f.next, c) : x <= h
  BY <1>5 DEF Marked
<1>7. h \in Starts(f.next) /\ c \in Reach(f.next, h) /\ h \in Clusters
  BY <1>1, <1>6 DEF Over
<1> HIDE DEF h
<1>8. h \in Over(f.next, h)
  BY <1>7, ReachClosed DEF Over
<1>9. f.head[h] \in Over(f.next, h) /\ h <= f.head[h]
  BY <1>7, <1>8 DEF Marked
<1>10. f.head[h] \in Over(f.next, c)
  <2>1. f.head[h] \in Starts(f.next) /\ h \in Reach(f.next, f.head[h])
    BY <1>9 DEF Over
  <2>2. c \in Reach(f.next, f.head[h])
    BY <1>7, <2>1, ReachTrans
  <2>3. QED
    BY <2>1, <2>2 DEF Over
<1>11. f.head[h] \in Clusters
  BY <1>1, <1>9 DEF Over
<1>12. f.head[h] = h
  <2>1. f.head[h] <= h /\ h \in Nat /\ f.head[h] \in Nat
    BY <1>6, <1>7, <1>10, <1>11, ValueFacts
  <2>2. QED
    BY <1>9, <2>1
<1>13. QED
  BY <1>7, <1>12

(* No cluster of the FAT leads out of it, or is reserved.                   *)
NoneOdd(next) == \A c \in Clusters : next[c] \notin {OUT, RSRVD}

(* The marks are the chains.                                                *)
Chained(f) ==
  /\ ChainsSound(f.next)
  /\ \A h \in Clusters : IsHead(f.next, h) <=> f.head[h] = h
  /\ \A h \in Clusters : f.head[h] = h => f.length[h] = Cardinality(Reach(f.next, h))
                                          /\ f.next[h] \notin {FREE, RSRVD, BAD}

LEMMA EndMark == \A v \in Clusters \cup {EOF} : v \notin {FREE, OUT, RSRVD, BAD}
BY SizesOK DEF Clusters, EOF, FREE, OUT, RSRVD, BAD

(* When pass 2 of checkfat has nothing to ask, the chains are sound.        *)
LEMMA ChainsOk ==
  ASSUME NEW f \in Chains, Marked(f), NoneOdd(f.next),
         \A h \in Clusters : f.head[h] = h => f.next[LastOf(f, h, h)] = EOF
  PROVE  Chained(f)
<1> DEFINE next == f.next
<1>0. \A c \in Clusters : next[c] \in FatValue
  BY DEF Chains, Table
<1>1. Starts(next) \subseteq Clusters
  BY DEF Starts
<1>2. ASSUME NEW h \in Clusters, f.head[h] = h, NEW c \in Reach(next, h)
      PROVE  /\ f.head[c] = h /\ c \in Clusters
             /\ next[c] \in Clusters \cup {EOF}
             /\ ~Endless(next, c)
             /\ \A d \in Reach(next, h) : c \in Reach(next, d) \/ d \in Reach(next, c)
  BY <1>2, HeadLine, ReachType
<1>3. ASSUME NEW c \in Clusters, next[c] \notin {FREE, BAD}
      PROVE  /\ f.head[c] \in Clusters /\ f.head[f.head[c]] = f.head[c]
             /\ c \in Reach(next, f.head[c])
  <2>1. PICK h \in Starts(next) : c \in Reach(next, h) /\ f.head[h] = h
    BY <1>3, MarkedHead
  <2>2. QED
    BY <1>1, <1>2, <2>1
<1> HIDE DEF next
<1>4. ASSUME NEW c \in Clusters, next[c] \in Clusters
      PROVE  /\ c \in Reach(next, f.head[next[c]]) /\ next[c] \in Reach(next, f.head[next[c]])
             /\ f.head[next[c]] \in Clusters /\ f.head[f.head[next[c]]] = f.head[next[c]]
             /\ f.head[c] = f.head[next[c]]
  <2>1. next[c] \notin {FREE, BAD}
    BY <1>4, ValueFacts
  <2>2. /\ f.head[c] \in Clusters /\ f.head[f.head[c]] = f.head[c]
        /\ c \in Reach(next, f.head[c])
    BY <1>3, <2>1
  <2>3. next[c] \in Reach(next, f.head[c])
    BY <1>4, <2>2, ReachClosed
  <2>4. QED
    BY <1>2, <2>2, <2>3
<1>5. ASSUME NEW c \in Clusters, NEW d \in Reach(next, c), c # d, next[c] \in Clusters, next[d] = next[c]
      PROVE  FALSE
  <2>1. d \in Reach(next, next[c])
    BY <1>5, ReachUnfold
  <2>2. Endless(next, next[c])
    BY <1>5, <2>1, Cycle
  <2>3. QED
    BY <1>2, <1>4, <1>5, <2>2
<1>6. ASSUME NEW c \in Clusters, NEW d \in Clusters, next[c] \in Clusters, next[d] = next[c]
      PROVE  d = c
  <2>1. c \in Reach(next, d) \/ d \in Reach(next, c)
    <3>1. c \in Reach(next, f.head[next[c]]) /\ d \in Reach(next, f.head[next[c]])
          /\ f.head[next[c]] \in Clusters /\ f.head[f.head[next[c]]] = f.head[next[c]]
      BY <1>4, <1>6
    <3>2. QED
      BY <1>2, <3>1
  <2>2. QED
    BY <1>5, <1>6, <2>1
<1>7. ChainsSound(next)
  <2>1. ASSUME NEW c \in Clusters, next[c] \in Clusters
        PROVE  next[next[c]] \notin {FREE, BAD} /\ ~Endless(next, c)
    <3>1. next[next[c]] \in Clusters \cup {EOF}
      BY <1>2, <1>4, <2>1
    <3>2. ~Endless(next, c)
      BY <1>2, <1>4, <2>1
    <3>3. QED
      BY <3>1, <3>2, EndMark
  <2>2. \A c \in Clusters : next[c] \notin {OUT, RSRVD}
    BY DEF NoneOdd, next
  <2>3. QED
    BY <1>6, <2>1, <2>2 DEF ChainsSound
<1>8. ASSUME NEW h \in Clusters, f.head[h] = h
      PROVE  /\ IsHead(next, h)
             /\ f.length[h] = Cardinality(Reach(next, h))
             /\ next[h] \notin {FREE, RSRVD, BAD}
  <2>1. h \in Reach(next, h)
    BY ReachClosed
  <2>2. next[h] \in Clusters \cup {EOF} /\ ~Endless(next, h)
    BY <1>2, <1>8, <2>1
  <2>3. next[h] \notin {FREE, RSRVD, BAD}
    BY <2>2, EndMark
  <2>4. ASSUME NEW c \in Clusters, next[c] = h PROVE FALSE
    <3>1. c \in Reach(next, h)
      BY <1>4, <1>8, <2>4
    <3>2. QED
      BY <2>2, <2>4, <3>1, Cycle
  <2>5. h \in Starts(next)
    <3>1. Over(next, h) # {}
      BY <1>8, ValueFacts DEF Marked, next
    <3>2. QED
      BY <1>8, <3>1 DEF Marked, Over, next
  <2>6. f.length[h] = Cardinality(Reach(next, h))
    BY <2>2, <2>5 DEF Marked, next
  <2>7. QED
    BY <2>3, <2>4, <2>6 DEF IsHead
<1>9. ASSUME NEW h \in Clusters, IsHead(next, h)
      PROVE  f.head[h] = h
  <2>1. h \in Reach(next, f.head[h]) /\ f.head[f.head[h]] = f.head[h]
    BY <1>3, <1>9 DEF IsHead
  <2>2. \A d \in Clusters : next[d] # h
    BY <1>9 DEF IsHead
  <2>3. QED
    BY <2>1, <2>2, ReachPred, ReachType
<1>10. QED
  BY <1>7, <1>8, <1>9 DEF Chained, next

-----------------------------------------------------------------------------
(* The directory tree, as an operator of the root, of what the clusters     *)
(* hold (D) and of the FAT.                                                 *)
PlacesOf(next, d) == IF d.head = FREE THEN {FREE} ELSE Reach(next, d.head)
EntriesIn(D, next, d) == {D[p][t] : p \in PlacesOf(next, d), t \in 1 .. Slots}
Leads(e) == e.kind \in {"dir", "lost"} /\ e.start \in Clusters
Child(d, e) == [root |-> FALSE, head |-> e.start, up |-> IF d.root THEN FREE ELSE d.head]
Below(D, next, d) == {Child(d, e) : e \in {x \in EntriesIn(D, next, d) : Leads(x)}}
Top(rt) == [root |-> TRUE, head |-> rt, up |-> FREE]
Names == [root : BOOLEAN, head : Places, up : Places]

TreeOf(rt, D, next) ==
    LET level[k \in 0 .. NumClusters * NumClusters] ==
          IF k = 0 THEN {Top(rt)}
          ELSE level[k - 1] \cup UNION {Below(D, next, d) : d \in level[k - 1]}
    IN  level[NumClusters * NumClusters]

LEMMA TreeIs == \A next : Tree(next) = TreeOf(root, dirs, next)
BY DEF Tree, TreeOf, EntriesOf, EntriesIn, PlacesOf, Leads, Child, Below, Top

Levels(rt, D, next, L) ==
  /\ L[0] = {Top(rt)}
  /\ \A k \in 1 .. NumClusters * NumClusters :
       L[k] = L[k - 1] \cup UNION {Below(D, next, d) : d \in L[k - 1]}
  /\ \A k \in 0 .. NumClusters * NumClusters : L[k] \subseteq {Top(rt)} \cup
       {d \in Names : d.root = FALSE /\ d.head \in Clusters}
  /\ TreeOf(rt, D, next) = L[NumClusters * NumClusters]

LEMMA TreeLevels ==
  ASSUME NEW rt \in Places, NEW D, NEW next
  PROVE  \E L : Levels(rt, D, next, L)
<1> DEFINE N == NumClusters * NumClusters
           V == {Top(rt)} \cup {d \in Names : d.root = FALSE /\ d.head \in Clusters}
           U == SUBSET V
           step == [X \in U |-> X \cup UNION {Below(D, next, d) : d \in X}]
           level[k \in 0 .. NumClusters * NumClusters] ==
             IF k = 0 THEN {Top(rt)}
             ELSE level[k - 1] \cup UNION {Below(D, next, d) : d \in level[k - 1]}
<1>1. ASSUME NEW d \in V, NEW e, Leads(e)
      PROVE  Child(d, e) \in V
  <2>1. d.head \in Places
    BY ValueFacts DEF Names, Top
  <2>2. e.start \in Clusters
    BY <1>1 DEF Leads
  <2>3. QED
    BY <2>1, <2>2, ValueFacts DEF Child, Names
<1> HIDE DEF V
<1>2. \A d \in V : Below(D, next, d) \subseteq V
  BY <1>1 DEF Below
<1>3. {Top(rt)} \in U /\ step \in [U -> U] /\ N \in Nat
  <2>1. Top(rt) \in V
    BY DEF V
  <2>2. \A X \in U : X \cup UNION {Below(D, next, d) : d \in X} \in U
    BY <1>2
  <2>3. QED
    BY <2>1, <2>2, NumberFacts
<1>4. PICK g \in [0 .. N -> U] : g[0] = {Top(rt)} /\ \A k \in 1 .. N : g[k] = step[g[k - 1]]
  <2> HIDE DEF U, step, N
  <2>1. Walks(U, {Top(rt)}, step, N) # {}
    BY <1>3, Iterate
  <2>2. QED
    BY <2>1 DEF Walks
<1> HIDE DEF N
<1>5. \A k \in 1 .. N : g[k] = g[k - 1] \cup UNION {Below(D, next, d) : d \in g[k - 1]}
  <2>1. \A k \in 1 .. N : k - 1 \in 0 .. N
    BY <1>3
  <2>2. QED
    BY <1>4, <2>1
<1>6. g = [k \in 0 .. NumClusters * NumClusters |->
             IF k = 0 THEN {Top(rt)}
             ELSE g[k - 1] \cup UNION {Below(D, next, d) : d \in g[k - 1]}]
  <2>1. \A k \in 0 .. N : k # 0 => k \in 1 .. N
    BY <1>3
  <2>2. g = [k \in 0 .. N |->
             IF k = 0 THEN {Top(rt)}
             ELSE g[k - 1] \cup UNION {Below(D, next, d) : d \in g[k - 1]}]
    BY <1>4, <1>5, <2>1
  <2>3. QED
    BY <2>2 DEF N
<1>7. level = [k \in 0 .. NumClusters * NumClusters |->
             IF k = 0 THEN {Top(rt)}
             ELSE level[k - 1] \cup UNION {Below(D, next, d) : d \in level[k - 1]}]
  BY <1>6
<1>8. TreeOf(rt, D, next) = level[N]
  BY DEF TreeOf, N
<1> HIDE DEF level
<1>9. level[0] = {Top(rt)} /\ \A k \in 1 .. N :
        level[k] = level[k - 1] \cup UNION {Below(D, next, d) : d \in level[k - 1]}
  <2>1. level = [k \in 0 .. N |->
             IF k = 0 THEN {Top(rt)}
             ELSE level[k - 1] \cup UNION {Below(D, next, d) : d \in level[k - 1]}]
    BY <1>7 DEF N
  <2>2. 0 \in 0 .. N /\ \A k \in 1 .. N : k \in 0 .. N /\ k # 0
    BY <1>3
  <2>3. QED
    BY <2>1, <2>2
<1>10. \A k \in 0 .. N : level[k] \subseteq V
  <2> DEFINE P == {k \in 0 .. N : level[k] \subseteq V}
  <2>1. 0 \in P
    BY <1>3, <1>9
  <2>2. ASSUME NEW k \in 0 .. N - 1, k \in P PROVE k + 1 \in P
    <3>1. k + 1 \in 1 .. N /\ k + 1 \in 0 .. N /\ (k + 1) - 1 = k
      BY <1>3
    <3>2. level[k + 1] = level[k] \cup UNION {Below(D, next, d) : d \in level[k]}
      BY <1>9, <3>1
    <3>3. QED
      BY <1>2, <2>2, <3>1, <3>2
  <2>3. 0 .. N \subseteq P
    <3> HIDE DEF P
    <3>1. QED
      BY <1>3, <2>1, <2>2, Along0
  <2>4. QED
    BY <2>3
<1>11. Levels(rt, D, next, level)
  BY <1>8, <1>9, <1>10 DEF N, V, Levels
<1>12. QED
  BY <1>11

LEMMA TreeLeast ==
  ASSUME NEW rt \in Places, NEW D, NEW next, NEW W, Top(rt) \in W,
         \A d \in W : Below(D, next, d) \subseteq W
  PROVE  TreeOf(rt, D, next) \subseteq W
<1> DEFINE N == NumClusters * NumClusters
<1>1. PICK L : Levels(rt, D, next, L)
  BY TreeLevels
<1>2. N \in Nat
  BY NumberFacts
<1>0. /\ L[0] = {Top(rt)}
      /\ \A k \in 1 .. N : L[k] = L[k - 1] \cup UNION {Below(D, next, d) : d \in L[k - 1]}
      /\ TreeOf(rt, D, next) = L[N]
  BY <1>1 DEF Levels
<1> HIDE DEF N
<1> DEFINE P == {k \in 0 .. N : L[k] \subseteq W}
<1>3. 0 \in P
  BY <1>0, <1>2
<1>4. ASSUME NEW k \in 0 .. N - 1, k \in P PROVE k + 1 \in P
  <2>1. k + 1 \in 1 .. N /\ k + 1 \in 0 .. N /\ (k + 1) - 1 = k
    BY <1>2
  <2>2. L[k + 1] = L[k] \cup UNION {Below(D, next, d) : d \in L[k]}
    BY <1>0, <2>1
  <2>3. QED
    BY <1>4, <2>1, <2>2
<1>5. 0 .. N \subseteq P
  <2> HIDE DEF P
  <2>1. QED
    BY <1>2, <1>3, <1>4, Along0
<1>6. QED
  BY <1>0, <1>2, <1>5

LEMMA NamesFew ==
  ASSUME NEW rt
  PROVE  LET V == {Top(rt)} \cup {d \in Names : d.root = FALSE /\ d.head \in Clusters}
         IN  IsFiniteSet(V) /\ Cardinality(V) < NumClusters * NumClusters
<1> DEFINE B == {d \in Names : d.root = FALSE /\ d.head \in Clusters}
           F == [d \in B |-> <<d.head, d.up>>]
<1>1. IsFiniteSet(Clusters) /\ Cardinality(Clusters) = NumClusters - 2
  BY NumberFacts, FS_Interval DEF Clusters
<1>2. IsFiniteSet(Places) /\ Cardinality(Places) = NumClusters - 1
  <2>1. IsFiniteSet({FREE}) /\ Cardinality({FREE}) = 1
    BY FS_Singleton
  <2>2. Places = Clusters \cup {FREE} /\ FREE \notin Clusters
    BY ValueFacts DEF Places
  <2>3. QED
    BY <1>1, <2>2, NumberFacts, FS_AddElement
<1>3. /\ IsFiniteSet(Clusters \X Places)
      /\ Cardinality(Clusters \X Places) = (NumClusters - 2) * (NumClusters - 1)
  BY <1>1, <1>2, FS_Product
<1>4. F \in Injection(B, Clusters \X Places)
  <2>1. \A d \in B : <<d.head, d.up>> \in Clusters \X Places
    BY DEF Names
  <2>2. ASSUME NEW d \in B, NEW e \in B, F[d] = F[e]
        PROVE  d = e
    <3>1. d.head = e.head /\ d.up = e.up
      BY <2>2
    <3>2. /\ d = [root |-> FALSE, head |-> d.head, up |-> d.up]
          /\ e = [root |-> FALSE, head |-> e.head, up |-> e.up]
      BY DEF Names
    <3>3. QED
      BY <3>1, <3>2
  <2>3. F \in [B -> Clusters \X Places]
    BY <2>1
  <2> HIDE DEF F, B
  <2>4. QED
    BY <2>2, <2>3 DEF Injection, IsInjective
<1>6. IsFiniteSet(B) /\ Cardinality(B) \in Nat /\ Cardinality(B) <= (NumClusters - 2) * (NumClusters - 1)
  <2> HIDE DEF F, B
  <2>1. IsFiniteSet(B) /\ Cardinality(B) <= Cardinality(Clusters \X Places)
    BY <1>3, <1>4, FS_Injection
  <2>2. QED
    BY <1>3, <2>1, FS_CardinalityType
<1>7. IsFiniteSet(B \cup {Top(rt)}) /\ Cardinality(B \cup {Top(rt)}) <= Cardinality(B) + 1
  <2> HIDE DEF B
  <2>1. QED
    BY <1>6, FS_AddElement
<1>8. (NumClusters - 2) * (NumClusters - 1) + 1 < NumClusters * NumClusters
  BY NumberFacts
<1>9. {Top(rt)} \cup B = B \cup {Top(rt)}
  OBVIOUS
<1>10. Cardinality(B \cup {Top(rt)}) \in Nat
  BY <1>7, FS_CardinalityType
<1> HIDE DEF B
<1>11. Cardinality(B \cup {Top(rt)}) < NumClusters * NumClusters
  BY <1>6, <1>7, <1>8, <1>10, NumberFacts
<1>12. QED
  BY <1>7, <1>9, <1>11 DEF B

LEMMA TreeClosed ==
  ASSUME NEW rt \in Places, NEW D, NEW next
  PROVE  /\ Top(rt) \in TreeOf(rt, D, next)
         /\ \A d \in TreeOf(rt, D, next) : Below(D, next, d) \subseteq TreeOf(rt, D, next)
<1> DEFINE N == NumClusters * NumClusters
           V == {Top(rt)} \cup {d \in Names : d.root = FALSE /\ d.head \in Clusters}
<1>1. PICK L : Levels(rt, D, next, L)
  BY TreeLevels
<1>2. N \in Nat /\ N > 1
  BY NumberFacts
<1>3. IsFiniteSet(V) /\ Cardinality(V) < N
  BY NamesFew
<1>0. /\ L[0] = {Top(rt)}
      /\ \A k \in 1 .. N : L[k] = L[k - 1] \cup UNION {Below(D, next, d) : d \in L[k - 1]}
      /\ \A k \in 0 .. N : L[k] \subseteq V
      /\ TreeOf(rt, D, next) = L[N]
  BY <1>1 DEF Levels
<1> HIDE DEF N, V
<1>4. \A k \in 0 .. N - 1 : L[k + 1] = L[k] \cup UNION {Below(D, next, d) : d \in L[k]}
  <2>1. \A k \in 0 .. N - 1 : k + 1 \in 1 .. N /\ (k + 1) - 1 = k
    BY <1>2
  <2>2. QED
    BY <1>0, <2>1
<1>5. ASSUME NEW k \in 0 .. N - 2, L[k] = L[k + 1] PROVE L[k + 1] = L[k + 2]
  <2>1. k \in 0 .. N - 1 /\ k + 1 \in 0 .. N - 1 /\ (k + 1) + 1 = k + 2
    BY <1>2
  <2>2. QED
    BY <1>4, <1>5, <2>1
<1>6. L[N - 1] = L[N]
  <2>1. \A k \in 0 .. N - 1 : L[k] \subseteq L[k + 1]
    BY <1>4
  <2>2. \A k \in 0 .. N : L[k] \subseteq V
    BY <1>0
  <2>3. QED
    BY <1>2, <1>3, <1>5, <2>1, <2>2, Stops
<1>7. N - 1 \in 0 .. N - 1 /\ (N - 1) + 1 = N
  BY <1>2
<1>8. \A d \in L[N] : Below(D, next, d) \subseteq L[N]
  BY <1>4, <1>6, <1>7
<1> DEFINE P == {k \in 0 .. N : Top(rt) \in L[k]}
<1>9. 0 \in P
  BY <1>0, <1>2
<1>10. \A k \in 0 .. N - 1 : k \in P => k + 1 \in P
  BY <1>2, <1>4
<1>11. 0 .. N \subseteq P
  <2> HIDE DEF P
  <2>1. QED
    BY <1>2, <1>9, <1>10, Along0
<1>12. QED
  BY <1>0, <1>2, <1>8, <1>11

-----------------------------------------------------------------------------
(* A consistent card in these terms.                                        *)
EntryOk(D, next, d, e) ==
  /\ e.kind = "file" => IF e.size = 0 THEN e.start = FREE
                        ELSE IsHead(next, e.start) /\ Cardinality(Reach(next, e.start)) = e.size
  /\ e.kind \in {"dir", "lost"} =>
       /\ e.size = 0 /\ IsHead(next, e.start)
       /\ {"dot", "dotdot"} \subseteq {x.kind : x \in EntriesIn(D, next, [head |-> e.start])}
  /\ e.kind = "dot" /\ ~d.root => e.size = 0 /\ e.start = d.head
  /\ e.kind = "dotdot" /\ ~d.root => e.size = 0 /\ e.start = d.up

AllSound(rt, D, next) ==
  \A d \in TreeOf(rt, D, next) : \A e \in EntriesIn(D, next, d) : EntryOk(D, next, d, e)

InUseBy(rt, D, next, h) ==
  h = rt \/ \E d \in TreeOf(rt, D, next) : \E e \in EntriesIn(D, next, d) : e.start = h

Tidy(rt, D, next) ==
  /\ ChainsSound(next)
  /\ rt = FREE \/ IsHead(next, rt)
  /\ AllSound(rt, D, next)
  /\ \A h \in Clusters : IsHead(next, h) => InUseBy(rt, D, next, h)

Agree(cmp, copies) == cmp => \A i \in 1 .. Copies : copies[i].next = copies[1].next

LEMMA SoundIs == Sound <=> Agree(compare, fats) /\ Tidy(root, dirs, fats[1].next)
<1> DEFINE next == fats[1].next
<1>1. Tree(next) = TreeOf(root, dirs, next)
  BY TreeIs
<1>2. \A d : EntriesOf(next, d) = EntriesIn(dirs, next, d)
  BY DEF EntriesOf, EntriesIn, PlacesOf
<1>3. \A d, e : EntrySound(next, d, e) <=> EntryOk(dirs, next, d, e)
  <2>1. ASSUME NEW d, NEW e PROVE EntrySound(next, d, e) <=> EntryOk(dirs, next, d, e)
    <3>1. EntriesOf(next, [head |-> e.start]) = EntriesIn(dirs, next, [head |-> e.start])
      BY <1>2
    <3> HIDE DEF next
    <3>2. QED
      BY <3>1 DEF EntrySound, EntryOk
  <2>2. QED
    BY <2>1
<1>4. Sound <=> /\ compare => \A i \in 1 .. Copies : fats[i].next = next
                /\ ChainsSound(next)
                /\ root = FREE \/ IsHead(next, root)
                /\ \A d \in Tree(next) : \A e \in EntriesOf(next, d) : EntrySound(next, d, e)
                /\ \A h \in Clusters : IsHead(next, h) =>
                     h = root \/ \E d \in Tree(next) : \E e \in EntriesOf(next, d) : e.start = h
  BY Zenon DEF Sound
<1> HIDE DEF next
<1>5. (\A d \in Tree(next) : \A e \in EntriesOf(next, d) : EntrySound(next, d, e))
        <=> AllSound(root, dirs, next)
  BY <1>1, <1>2, <1>3 DEF AllSound
<1>6. \A h \in Clusters :
        (h = root \/ \E d \in Tree(next) : \E e \in EntriesOf(next, d) : e.start = h)
          <=> InUseBy(root, dirs, next, h)
  BY <1>1, <1>2 DEF InUseBy
<1>7. (compare => \A i \in 1 .. Copies : fats[i].next = next) <=> Agree(compare, fats)
  BY DEF Agree, next
<1>8. Sound <=> Agree(compare, fats) /\ Tidy(root, dirs, next)
  BY <1>4, <1>5, <1>6, <1>7 DEF Tidy
<1>9. QED
  BY <1>8 DEF next

-----------------------------------------------------------------------------
(* The walk through the directories.  R holds the clusters read so far, each*)
(* with the directory it was read for.  What their entries lead to is due:  *)
(* it is being read, it is still to be read, or all of it has been read.    *)
Name(d) == [root |-> d.root, head |-> d.head, up |-> d.up]
RestOf(next, cl) == IF cl = FREE THEN {FREE} ELSE Reach(next, cl)
Complete(R, next, x) == \A p \in PlacesOf(next, x) : <<x, p>> \in R

Due(R, next, cur, ahead, x) ==
  x = Name(cur) \/ (\E k \in 1 .. Len(ahead) : x = Name(ahead[k])) \/ Complete(R, next, x)

Checked(R, D, next, cur, ahead, d, e) ==
  EntryOk(D, next, d, e) /\ (Leads(e) => Due(R, next, cur, ahead, Child(d, e)))

WalkDone(R, rt, D, next, cur, ahead) ==
  /\ \A x \in Names, p \in Places : <<x, p>> \in R =>
       \A t \in 1 .. Slots : Checked(R, D, next, cur, ahead, x, D[p][t])
  /\ Due(R, next, cur, ahead, Top(rt))

WalkHere(R, D, next, cur, ahead, b, i) ==
  /\ \A t \in 1 .. Slots : t < i => Checked(R, D, next, cur, ahead, Name(cur), b[t])
  /\ \A p \in PlacesOf(next, cur) : <<Name(cur), p>> \in R \/ p \in RestOf(next, cur.cl)

LEMMA NoneOk ==
  ASSUME NEW R, NEW D, NEW next, NEW cur, NEW ahead, NEW d, NEW e, e.kind = "none"
  PROVE  Checked(R, D, next, cur, ahead, d, e)
BY DEF Checked, EntryOk, Leads

(* Another entry has been looked at.                                        *)
LEMMA WalkMore ==
  ASSUME NEW R, NEW rt, NEW D, NEW next, NEW cur, NEW ahead, NEW more, NEW b, NEW i \in Nat,
         WalkDone(R, rt, D, next, cur, ahead), WalkHere(R, D, next, cur, ahead, b, i),
         \A x : Due(R, next, cur, ahead, x) => Due(R, next, cur, more, x),
         NEW t \in 1 .. Slots, \A u \in i .. Slots : b[u].kind # "none" => t <= u,
         Checked(R, D, next, cur, more, Name(cur), b[t])
  PROVE  WalkDone(R, rt, D, next, cur, more) /\ WalkHere(R, D, next, cur, more, b, t + 1)
<1>1. \A d, e : Checked(R, D, next, cur, ahead, d, e) => Checked(R, D, next, cur, more, d, e)
  BY DEF Checked
<1>2. WalkDone(R, rt, D, next, cur, more)
  BY <1>1 DEF WalkDone
<1>3. ASSUME NEW u \in 1 .. Slots, u < t + 1
      PROVE  Checked(R, D, next, cur, more, Name(cur), b[u])
  <2>1. CASE u = t
    BY <2>1
  <2>2. CASE u < i
    BY <1>1, <2>2 DEF WalkHere
  <2>3. CASE u # t /\ ~(u < i)
    <3>1. u \in i .. Slots /\ ~(t <= u)
      BY <1>3, <2>3, NumberFacts
    <3>2. b[u].kind = "none"
      BY <3>1
    <3>3. QED
      BY <3>2, NoneOk
  <2>4. QED
    BY <2>1, <2>2, <2>3
<1>4. QED
  BY <1>2, <1>3 DEF WalkHere

(* The cluster in the buffer has been read to its end.                      *)
LEMMA WalkAll ==
  ASSUME NEW R, NEW D, NEW next, NEW cur, NEW ahead, NEW i \in Nat,
         WalkHere(R, D, next, cur, ahead, D[cur.cl], i),
         \A u \in i .. Slots : D[cur.cl][u].kind = "none"
  PROVE  \A t \in 1 .. Slots : Checked(R, D, next, cur, ahead, Name(cur), D[cur.cl][t])
<1>1. ASSUME NEW t \in 1 .. Slots
      PROVE  Checked(R, D, next, cur, ahead, Name(cur), D[cur.cl][t])
  <2>1. CASE t < i
    BY <2>1 DEF WalkHere
  <2>2. CASE ~(t < i)
    <3>1. t \in i .. Slots
      BY <2>2, NumberFacts
    <3>2. QED
      BY <3>1, NoneOk
  <2>3. QED
    BY <2>1, <2>2
<1>2. QED
  BY <1>1

(* It goes on with the next cluster of the directory.                       *)
LEMMA WalkCluster ==
  ASSUME NEW R, NEW rt, NEW D, NEW next, NEW cur \in Directory, NEW ahead, NEW i \in Nat,
         WalkDone(R, rt, D, next, cur, ahead), WalkHere(R, D, next, cur, ahead, D[cur.cl], i),
         \A u \in i .. Slots : D[cur.cl][u].kind = "none",
         cur.cl \in Clusters, next[cur.cl] \in Clusters
  PROVE  LET S == R \cup {<<Name(cur), cur.cl>>}
             there == [cur EXCEPT !.cl = next[cur.cl]]
         IN  /\ WalkDone(S, rt, D, next, there, ahead)
             /\ WalkHere(S, D, next, there, ahead, D[there.cl], 1)
<1> DEFINE S == R \cup {<<Name(cur), cur.cl>>}
           there == [cur EXCEPT !.cl = next[cur.cl]]
<1>1. /\ there.head = cur.head /\ there.cl = next[cur.cl] /\ Name(there) = Name(cur)
      /\ PlacesOf(next, there) = PlacesOf(next, cur)
  BY DEF Name, PlacesOf, Directory
<1> HIDE DEF there
<1>2. \A t \in 1 .. Slots : Checked(R, D, next, cur, ahead, Name(cur), D[cur.cl][t])
  BY WalkAll
<1>3. \A x : Due(R, next, cur, ahead, x) => Due(S, next, there, ahead, x)
  BY <1>1 DEF Due, Complete
<1>4. \A d, e : Checked(R, D, next, cur, ahead, d, e) => Checked(S, D, next, there, ahead, d, e)
  BY <1>3 DEF Checked
<1>5. WalkDone(S, rt, D, next, there, ahead)
  <2>1. ASSUME NEW x \in Names, NEW p \in Places, <<x, p>> \in S, NEW t \in 1 .. Slots
        PROVE  Checked(S, D, next, there, ahead, x, D[p][t])
    <3>1. CASE <<x, p>> \in R
      BY <1>4, <3>1 DEF WalkDone
    <3>2. CASE x = Name(cur) /\ p = cur.cl
      BY <1>2, <1>4, <3>2
    <3>3. QED
      BY <2>1, <3>1, <3>2
  <2>2. Due(S, next, there, ahead, Top(rt))
    BY <1>3 DEF WalkDone
  <2>3. QED
    BY <2>1, <2>2 DEF WalkDone
<1>6. ASSUME NEW p \in PlacesOf(next, there)
      PROVE  <<Name(there), p>> \in S \/ p \in RestOf(next, there.cl)
  <2>1. <<Name(cur), p>> \in R \/ p \in RestOf(next, cur.cl)
    BY <1>1 DEF WalkHere
  <2>2. RestOf(next, cur.cl) = {cur.cl} \cup Reach(next, next[cur.cl])
    BY ReachUnfold, ValueFacts DEF RestOf
  <2>3. RestOf(next, there.cl) = Reach(next, next[cur.cl])
    BY <1>1, ValueFacts DEF RestOf
  <2>4. QED
    BY <1>1, <2>1, <2>2, <2>3
<1>7. \A t \in 1 .. Slots : ~(t < 1)
  BY NumberFacts
<1>8. QED
  BY <1>5, <1>6, <1>7 DEF WalkHere, there

(* When the last cluster of a directory has been read, all of it has.       *)
LEMMA WalkWhole ==
  ASSUME NEW R, NEW rt, NEW D, NEW next, NEW cur \in Directory, NEW ahead, NEW i \in Nat,
         WalkDone(R, rt, D, next, cur, ahead), WalkHere(R, D, next, cur, ahead, D[cur.cl], i),
         \A u \in i .. Slots : D[cur.cl][u].kind = "none",
         cur.cl \in Places, cur.cl = FREE \/ next[cur.cl] \notin Clusters
  PROVE  LET S == R \cup {<<Name(cur), cur.cl>>}
         IN  /\ Complete(S, next, Name(cur))
             /\ \A x : Due(R, next, cur, ahead, x) =>
                  (\E k \in 1 .. Len(ahead) : x = Name(ahead[k])) \/ Complete(S, next, x)
             /\ \A x \in Names, p \in Places : <<x, p>> \in S =>
                  \A t \in 1 .. Slots : Checked(R, D, next, cur, ahead, x, D[p][t])
<1> DEFINE S == R \cup {<<Name(cur), cur.cl>>}
<1>1. Complete(S, next, Name(cur))
  <2>1. PlacesOf(next, Name(cur)) = PlacesOf(next, cur)
    BY DEF PlacesOf, Name
  <2>2. RestOf(next, cur.cl) = {cur.cl}
    <3>1. CASE cur.cl = FREE
      BY <3>1 DEF RestOf
    <3>2. CASE cur.cl \in Clusters /\ next[cur.cl] \notin Clusters
      BY <3>2, ReachUnfold, ValueFacts DEF RestOf
    <3>3. QED
      BY <3>1, <3>2 DEF Places
  <2>3. ASSUME NEW p \in PlacesOf(next, Name(cur)) PROVE <<Name(cur), p>> \in S
    BY <2>1, <2>2 DEF WalkHere
  <2>4. QED
    BY <2>3 DEF Complete
<1>2. \A x : Complete(R, next, x) => Complete(S, next, x)
  BY DEF Complete
<1>3. \A t \in 1 .. Slots : Checked(R, D, next, cur, ahead, Name(cur), D[cur.cl][t])
  BY WalkAll
<1>4. ASSUME NEW x \in Names, NEW p \in Places, <<x, p>> \in S, NEW t \in 1 .. Slots
      PROVE  Checked(R, D, next, cur, ahead, x, D[p][t])
  <2>1. CASE <<x, p>> \in R
    BY <2>1 DEF WalkDone
  <2>2. CASE x = Name(cur) /\ p = cur.cl
    BY <1>3, <2>2
  <2>3. QED
    BY <1>4, <2>1, <2>2
<1>5. \A x : Due(R, next, cur, ahead, x) =>
                  (\E k \in 1 .. Len(ahead) : x = Name(ahead[k])) \/ Complete(S, next, x)
  BY <1>1, <1>2 DEF Due
<1>6. QED
  BY <1>1, <1>4, <1>5

(* It goes on with the next directory.                                      *)
LEMMA WalkOther ==
  ASSUME NEW R, NEW rt, NEW D, NEW next, NEW cur \in Directory, NEW ahead \in Seq(Directory),
         NEW i \in Nat, ahead # <<>>, Head(ahead).cl = Head(ahead).head,
         WalkDone(R, rt, D, next, cur, ahead), WalkHere(R, D, next, cur, ahead, D[cur.cl], i),
         \A u \in i .. Slots : D[cur.cl][u].kind = "none",
         cur.cl \in Places, cur.cl = FREE \/ next[cur.cl] \notin Clusters
  PROVE  LET S == R \cup {<<Name(cur), cur.cl>>}
         IN  /\ WalkDone(S, rt, D, next, Head(ahead), Tail(ahead))
             /\ WalkHere(S, D, next, Head(ahead), Tail(ahead), D[Head(ahead).cl], 1)
<1> DEFINE S == R \cup {<<Name(cur), cur.cl>>}
<1>1. /\ \A x : Due(R, next, cur, ahead, x) =>
             (\E k \in 1 .. Len(ahead) : x = Name(ahead[k])) \/ Complete(S, next, x)
      /\ \A x \in Names, p \in Places : <<x, p>> \in S =>
             \A t \in 1 .. Slots : Checked(R, D, next, cur, ahead, x, D[p][t])
  BY WalkWhole
<1> HIDE DEF S
<1>2. ASSUME NEW k \in 1 .. Len(ahead)
      PROVE  ahead[k] = Head(ahead) \/ \E j \in 1 .. Len(Tail(ahead)) : ahead[k] = Tail(ahead)[j]
  <2>1. CASE k = 1
    BY <2>1
  <2>2. CASE k # 1
    <3>1. k - 1 \in 1 .. Len(Tail(ahead)) /\ Tail(ahead)[k - 1] = ahead[k]
      BY <2>2
    <3>2. QED
      BY <3>1
  <2>3. QED
    BY <2>1, <2>2
<1>3. \A x : Due(R, next, cur, ahead, x) => Due(S, next, Head(ahead), Tail(ahead), x)
  BY <1>1, <1>2 DEF Due
<1>4. \A d, e : Checked(R, D, next, cur, ahead, d, e) =>
                Checked(S, D, next, Head(ahead), Tail(ahead), d, e)
  BY <1>3 DEF Checked
<1>5. WalkDone(S, rt, D, next, Head(ahead), Tail(ahead))
  <2>1. Due(R, next, cur, ahead, Top(rt))
    BY DEF WalkDone
  <2>2. QED
    BY <1>1, <1>3, <1>4, <2>1 DEF WalkDone
<1>6. WalkHere(S, D, next, Head(ahead), Tail(ahead), D[Head(ahead).cl], 1)
  <2>1. \A t \in 1 .. Slots : ~(t < 1)
    BY NumberFacts
  <2>2. PlacesOf(next, Head(ahead)) = RestOf(next, Head(ahead).cl)
    BY DEF PlacesOf, RestOf
  <2>3. QED
    BY <2>1, <2>2 DEF WalkHere
<1>7. QED
  BY <1>5, <1>6 DEF S

(* The walk is over: whatever can be reached from the root has been read.   *)
LEMMA WalkOver ==
  ASSUME NEW R, NEW rt \in Places, NEW D, NEW next, NEW cur \in Directory, NEW ahead, NEW i \in Nat,
         ahead = <<>>,
         WalkDone(R, rt, D, next, cur, ahead), WalkHere(R, D, next, cur, ahead, D[cur.cl], i),
         \A u \in i .. Slots : D[cur.cl][u].kind = "none",
         cur.cl \in Places, cur.cl = FREE \/ next[cur.cl] \notin Clusters
  PROVE  AllSound(rt, D, next)
<1> DEFINE S == R \cup {<<Name(cur), cur.cl>>}
<1>1. /\ \A x : Due(R, next, cur, ahead, x) =>
             (\E k \in 1 .. Len(ahead) : x = Name(ahead[k])) \/ Complete(S, next, x)
      /\ \A x \in Names, p \in Places : <<x, p>> \in S =>
             \A t \in 1 .. Slots : Checked(R, D, next, cur, ahead, x, D[p][t])
  BY WalkWhole
<1> HIDE DEF S
<1>2. \A x : Due(R, next, cur, ahead, x) => Complete(S, next, x)
  BY <1>1
<1> DEFINE W == {x \in Names : Complete(S, next, x)}
<1>3. \A d \in Names : PlacesOf(next, d) \subseteq Places
  BY ReachType, ValueFacts DEF PlacesOf
<1>4. ASSUME NEW d \in W, NEW e \in EntriesIn(D, next, d)
      PROVE  EntryOk(D, next, d, e) /\ (Leads(e) => Child(d, e) \in W)
  <2>1. PICK p \in PlacesOf(next, d), t \in 1 .. Slots : e = D[p][t]
    BY DEF EntriesIn
  <2>2. <<d, p>> \in S /\ d \in Names /\ p \in Places
    BY <1>3 DEF Complete
  <2>3. Checked(R, D, next, cur, ahead, d, e)
    BY <1>1, <2>1, <2>2
  <2>4. Leads(e) => Child(d, e) \in Names
    BY <2>2, ValueFacts DEF Names, Child, Leads
  <2>5. QED
    BY <1>2, <2>3, <2>4 DEF Checked
<1>5. Top(rt) \in W
  BY <1>2, ValueFacts DEF WalkDone, Top, Names
<1> HIDE DEF W
<1>6. \A d \in W : Below(D, next, d) \subseteq W
  BY <1>4 DEF Below
<1>7. TreeOf(rt, D, next) \subseteq W
  BY <1>5, <1>6, TreeLeast
<1>8. QED
  BY <1>4, <1>7 DEF AllSound

-----------------------------------------------------------------------------
(* A check that has found nothing so far, and what it has made sure of.     *)
Noticed == {"FATMOD", "DIRMOD", "ERROR", "FATAL"}
Quiet == (mod \cup tree) \cap Noticed = {}

Heads(f, rt, D) ==
  /\ Chained(f)
  /\ rt = FREE \/ IsHead(f.next, rt)
  /\ \A h \in f.used : InUseBy(rt, D, f.next, h)

Reading(rt, D, next, cur, ahead, b) ==
  /\ b = D[cur.cl]
  /\ Name(cur) \in TreeOf(rt, D, next) /\ cur.cl \in PlacesOf(next, cur)
  /\ \A k \in 1 .. Len(ahead) : /\ Name(ahead[k]) \in TreeOf(rt, D, next)
                                /\ ahead[k].cl = ahead[k].head /\ ahead[k].head \in Clusters

Walk(rt, D, next, cur, ahead, b, i) ==
  \E R : WalkDone(R, rt, D, next, cur, ahead) /\ WalkHere(R, D, next, cur, ahead, b, i)

Unread == phase = "idle" \/ (phase \in {"load", "mark", "chains"} /\ Quiet) =>
              tree = {} /\ fat.used = {} /\ todo = <<>>
ChangeTold == "THIS" \in tree => "DIRMOD" \in tree
InRange == phase \in {"mark", "chains"} /\ Quiet => NoneOdd(fat.next)
MarkedUp == phase = "chains" /\ Quiet => at = 2 /\ Marked(fat)
Walking == phase = "dirs" /\ Quiet =>
              /\ Heads(fat, root, dirs)
              /\ Reading(root, dirs, fat.next, dir, todo, buf)
              /\ Walk(root, dirs, fat.next, dir, todo, buf, at)
Searched == phase = "lost" /\ Quiet =>
              at = 2 /\ Heads(fat, root, dirs) /\ AllSound(root, dirs, fat.next)
Decided == phase \in {"dirty", "clean", "out"} /\ mod \cap Noticed = {} =>
              Tidy(root, dirs, fat.next)
Approved == exit = "ok" =>
              /\ phase = "idle"
              /\ IF looked THEN Agree(compare, fats) /\ Tidy(root, dirs, fats[1].next)
                 ELSE mode = "preen" /\ fats[1].sig = "clean"

Sure == /\ Unread /\ ChangeTold /\ InRange /\ MarkedUp /\ Walking /\ Searched
        /\ Decided /\ Approved

(* A step that says something owes nothing.                                 *)
LEMMA SureLoud ==
  ASSUME phase' # "idle", ~Quiet', ChangeTold', exit' # "ok",
         phase' \in {"dirty", "clean", "out"} => mod' \cap Noticed # {}
  PROVE  Sure'
BY DEF Sure, Unread, InRange, MarkedUp, Walking, Searched, Decided, Approved

(* While a check runs, its result is not there yet.                         *)
LEMMA NotYet == ASSUME Sure, phase # "idle" PROVE exit # "ok"
BY DEF Sure, Approved

LEMMA SureEnds ==
  ASSUME NEW verdict \in {"ok", "modified", "failed", "killed"}, Ends(verdict),
         verdict = "ok" => looked' /\ Agree(compare', fats') /\ Tidy(root', dirs', fats'[1].next)
  PROVE  Sure'
<1>1. /\ phase' = "idle" /\ tree' = {} /\ fat'.used = {} /\ todo' = <<>> /\ exit' = verdict
  BY DEF Ends, Blank
<1>2. QED
  BY <1>1 DEF Sure, Unread, ChangeTold, InRange, MarkedUp, Walking, Searched, Decided, Approved

LEMMA SureStart == ASSUME Sure, Start PROVE Sure'
<1>1. phase = "idle" /\ tree = {} /\ fat.used = {} /\ todo = <<>>
  BY DEF Start, Sure, Unread
<1>2. /\ tree' = {} /\ fat'.used = {} /\ todo' = <<>>
      /\ \/ phase' = "idle" /\ ~looked' /\ mode' = "preen" /\ fats'[1].sig = "clean"
         \/ phase' = "load" /\ exit' = "none"
  BY <1>1 DEF Start, memory, card
<1>3. QED
  BY <1>2 DEF Sure, Unread, ChangeTold, InRange, MarkedUp, Walking, Searched, Decided, Approved

LEMMA SureLoad == ASSUME Typed, Announced, Sure, Load PROVE Sure'
<1>1. /\ fat \in Chains /\ phase = "load" /\ exit # "ok" /\ at \in 1 .. Copies
      /\ fats[at].next \in Table
      /\ UNCHANGED <<card, boot, dir, buf, tree, todo, lost, lf, sig, exit, mishaps, kept>>
  BY TypedPieces, NotYet DEF Load, Pieces, InCopies, Copy
<1>2. PICK cut \in SUBSET Odd, fix \in Answers :
        \E pick \in [Differing(readfat(at, cut)) -> Picks] :
             /\ TRUE \notin Answers => cut = {}
             /\ fat' = [fat EXCEPT !.next = Compared(readfat(at, cut), pick)]
             /\ mod' = mod \cup LoadFlags(cut, Differing(readfat(at, cut)), pick, fix)
  BY LoadStep
<1>3. PICK pick \in [Differing(readfat(at, cut)) -> Picks] :
             /\ fat' = [fat EXCEPT !.next = Compared(readfat(at, cut), pick)]
             /\ mod' = mod \cup LoadFlags(cut, Differing(readfat(at, cut)), pick, fix)
  BY <1>2
<1>4. fat'.used = fat.used /\ mod \subseteq mod'
  BY <1>1, <1>3 DEF Chains
<1>5. ASSUME Quiet' PROVE NoneOdd(fat'.next)
  <2>1. LoadFlags(cut, Differing(readfat(at, cut)), pick, fix) \cap Noticed = {}
    BY <1>3, <1>5 DEF Quiet
  <2>2. cut = {} /\ cut = Odd
    BY <2>1 DEF LoadFlags, Noticed
  <2>3. \A c \in Clusters : fats[at].next[c] \notin {OUT, RSRVD}
    BY <2>2 DEF Odd
  <2>4. readfat(at, cut) = fats[at].next
    BY <1>1, <2>2 DEF readfat, Table
  <2>5. Differing(readfat(at, cut)) = {}
    <3> DEFINE diff == Differing(readfat(at, cut))
    <3>1. \A c \in diff : pick[c] = "none"
      BY <2>1 DEF LoadFlags, Noticed
    <3>2. \A c \in diff : Refusal(fat.next[c]) \notin Noticed
      BY <2>1, <3>1 DEF LoadFlags
    <3>3. QED
      BY <3>2, RefusalType DEF Noticed
  <2>6. Compared(readfat(at, cut), pick) = fats[at].next
    <3>1. CASE at = 1
      BY <2>4, <3>1 DEF Compared
    <3>2. CASE at # 1
      <4>1. \A c \in Clusters : fats[at].next[c] = fat.next[c]
        BY <2>4, <2>5, <3>2 DEF Differing
      <4>2. fats[at].next = fat.next
        BY <1>1, <4>1 DEF Chains, Table
      <4>3. QED
        BY <1>1, <2>4, <2>5, <3>2, <4>2 DEF Compared, Chains, Table
    <3>3. QED
      BY <3>1, <3>2
  <2>7. fat'.next = fats[at].next
    BY <1>1, <1>3, <2>6 DEF Chains
  <2>8. QED
    BY <2>3, <2>7 DEF NoneOdd
<1>6. phase' \in {"load", "mark"} \/ (phase' = "out" /\ "FATAL" \in mod')
  BY DEF Load
<1>7. ASSUME Quiet' PROVE tree' = {} /\ fat'.used = {} /\ todo' = <<>>
  BY <1>1, <1>4, <1>7 DEF Sure, Unread, Quiet
<1>8. mod' \cap Noticed = {} => "FATAL" \notin mod'
  BY DEF Noticed
<1>9. ChangeTold' /\ exit' # "ok"
  BY <1>1 DEF Sure, ChangeTold
<1>10. QED
  BY <1>5, <1>6, <1>7, <1>8, <1>9
     DEF Sure, Unread, InRange, MarkedUp, Walking, Searched, Decided, Approved

(* What MarkChains leaves are the marks of every chain.                     *)
LEMMA MarksLeft ==
  ASSUME Typed, MarkChains
  PROVE  Marked(fat') /\ fat'.next = fat.next /\ fat'.used = fat.used
<1> DEFINE next == fat.next
           over(c) == {h \in Starts(next) : c \in Reach(next, h)}
           top(c) == CHOOSE h \in over(c) : \A g \in over(c) : g <= h
<1>1. /\ fat \in Chains
      /\ fat' = [fat EXCEPT
           !.head = [c \in Clusters |-> IF over(c) = {} THEN 0 ELSE top(c)],
           !.length = [c \in Clusters |-> IF c \notin Starts(next) THEN 0
                                          ELSE IF Endless(next, c) THEN NumClusters + 1
                                          ELSE Cardinality(Reach(next, c))]]
  BY TypedPieces DEF MarkChains, Pieces
<1>2. /\ fat'.next = next /\ fat'.used = fat.used
      /\ fat'.head = [c \in Clusters |-> IF over(c) = {} THEN 0 ELSE top(c)]
      /\ fat'.length = [c \in Clusters |-> IF c \notin Starts(next) THEN 0
                                          ELSE IF Endless(next, c) THEN NumClusters + 1
                                          ELSE Cardinality(Reach(next, c))]
  BY <1>1 DEF Chains
<1>3. \A c : over(c) = Over(next, c)
  BY DEF Over
<1> HIDE DEF over
<1>4. ASSUME NEW c \in Clusters, Over(next, c) # {}
      PROVE  top(c) \in Over(next, c) /\ \A g \in Over(next, c) : g <= top(c)
  <2>1. Over(next, c) \subseteq Clusters
    BY DEF Over, Starts
  <2>2. \E h \in over(c) : \A g \in over(c) : g <= h
    BY <1>3, <1>4, <2>1, Greatest
  <2>3. top(c) \in over(c) /\ \A g \in over(c) : g <= top(c)
    BY <2>2
  <2>4. QED
    BY <1>3, <2>3
<1> HIDE DEF top
<1>5. \A c \in Clusters : IF Over(next, c) = {} THEN fat'.head[c] = 0
                          ELSE fat'.head[c] \in Over(next, c)
                               /\ \A g \in Over(next, c) : g <= fat'.head[c]
  BY <1>2, <1>3, <1>4
<1>6. \A h \in Starts(next) : ~Endless(next, h) => fat'.length[h] = Cardinality(Reach(next, h))
  BY <1>2 DEF Starts
<1>7. QED
  BY <1>2, <1>5, <1>6 DEF Marked

LEMMA SureMark == ASSUME Typed, Sure, MarkChains PROVE Sure'
<1>1. phase = "mark" /\ exit # "ok"
  BY NotYet DEF MarkChains
<1>2. /\ phase' = "chains" /\ at' = 2 /\ UNCHANGED <<mod, tree, todo, exit>>
  BY DEF MarkChains, GoOn
<1>3. Marked(fat') /\ fat'.next = fat.next /\ fat'.used = fat.used
  BY MarksLeft
<1>4. Quiet' <=> Quiet
  BY <1>2 DEF Quiet
<1>5. QED
  BY <1>1, <1>2, <1>3, <1>4
     DEF Sure, Unread, ChangeTold, InRange, MarkedUp, Walking, Searched, Decided, Approved

LEMMA SureBroken == ASSUME Typed, Sure, BrokenChain \/ CrossLink PROVE Sure'
<1>1. fat \in Chains
  BY TypedPieces DEF Pieces
<1>2. Told \subseteq Noticed
  BY DEF Told, Noticed
<1>3. /\ phase = "chains" /\ phase' \in {"chains", "spinning"} /\ UNCHANGED <<tree, exit>>
      /\ mod' \cap Told # {}
  <2>1. CASE BrokenChain
    <3>1. PICK h \in Suspects, clear \in Answers, trunc \in Answers :
            mod' = mod \cup tryclear(fat, h, LastOf(fat, h, h), clear, trunc).mod
      BY <2>1 DEF BrokenChain
    <3>2. mod' \cap Told # {}
      BY <1>1, <3>1, TryclearTells, AnswersType
    <3>3. QED
      BY <2>1, <3>2 DEF BrokenChain, GoOn
  <2>2. CASE CrossLink
    <3>1. PICK h \in Suspects, clear \in Answers, trunc \in Answers, other \in Answers :
        LET p == LastOf(fat, h, h)
            n == fat.next[p]
            r == tryclear(fat, h, p, clear, trunc)
            g == r.fat.head[n]
            part == Stretch(r.fat, n, g)
            moves == other /\ r.mod = {"ERROR"}
            taken == [r.fat EXCEPT !.head = [c \in Clusters |-> IF c \in part THEN h ELSE @[c]]]
        IN  /\ \A f \in Suspects : h <= f
            /\ n \in Clusters
            /\ mod' = mod \cup r.mod \cup (IF other THEN {"FATMOD"} ELSE {})
            /\ fat' = CASE moves -> clearchain(taken, g)
                        [] other /\ ~moves -> clearchain(r.fat, g)
                        [] OTHER -> r.fat
            /\ IF moves /\ g = h THEN GoOn("spinning", 0)
               ELSE IF moves /\ r.fat.next[LastOf(r.fat, n, g)] \in Clusters
               THEN GoOn("chains", h)
               ELSE GoOn("chains", h + 1)
      BY <2>2, CrossLinkStep
    <3>2. tryclear(fat, h, LastOf(fat, h, h), clear, trunc).mod \subseteq mod'
      BY <3>1
    <3>3. mod' \cap Told # {}
      BY <1>1, <3>2, TryclearTells, AnswersType
    <3>4. phase' \in {"spinning", "chains"} /\ UNCHANGED <<tree, exit>>
      BY <3>1 DEF GoOn
    <3>5. phase = "chains"
      BY <2>2 DEF CrossLink
    <3>6. QED
      BY <3>3, <3>4, <3>5
  <2>3. QED
    BY <2>1, <2>2
<1>4. ~Quiet' /\ ChangeTold' /\ exit' # "ok" /\ phase' # "idle"
  BY <1>2, <1>3, NotYet DEF Quiet, Sure, ChangeTold
<1>5. QED
  BY <1>3, <1>4, SureLoud

LEMMA ChainedSame ==
  ASSUME NEW f, NEW g, f.next = g.next, f.head = g.head, f.length = g.length, Chained(f)
  PROVE  Chained(g)
BY DEF Chained

LEMMA SureOpen == ASSUME Typed, Sure, OpenRoot PROVE Sure'
<1> DEFINE wrong == /\ root # FREE
                    /\ \/ fat.next[root] \in {FREE, RSRVD, BAD}
                       \/ fat.head[root] # root
           fatal(fix) == wrong /\ (fat.next[root] \notin {FREE, RSRVD, BAD} \/ ~fix)
<1>1. /\ fat \in Chains /\ root \in Places /\ phase = "chains" /\ exit # "ok" /\ Suspects = {}
      /\ at' = 1 /\ dir' = [root |-> TRUE, head |-> root, up |-> FREE, cl |-> root]
      /\ buf' = dirs[root] /\ UNCHANGED <<card, boot, tree, todo, exit>>
  BY TypedPieces, NotYet DEF OpenRoot, Pieces
<1>2. PICK fix \in Answers :
        /\ fat' = [fat EXCEPT
             !.next = [c \in Clusters |-> IF wrong /\ ~fatal(fix) /\ c = root THEN FREE ELSE @[c]],
             !.used = @ \cup ({root} \ {FREE})]
        /\ mod' = mod \cup (IF fatal(fix) THEN {"FATAL"} ELSE IF wrong THEN {"FATMOD"} ELSE {})
        /\ phase' = IF fatal(fix) THEN "out" ELSE "dirs"
  BY DEF OpenRoot
<1> HIDE DEF wrong, fatal
<1>3. ChangeTold' /\ exit' # "ok" /\ phase' # "idle"
  BY <1>1, <1>2 DEF Sure, ChangeTold
<1>4. CASE wrong \/ fatal(fix)
  <2>1. mod' \cap Noticed # {}
    BY <1>2, <1>4 DEF Noticed
  <2>2. ~Quiet'
    BY <2>1 DEF Quiet
  <2>3. QED
    BY <1>3, <2>1, <2>2, SureLoud
<1>5. CASE ~wrong /\ ~fatal(fix)
  <2>1. mod' = mod /\ phase' = "dirs" /\ (Quiet' <=> Quiet)
    BY <1>1, <1>2, <1>5 DEF Quiet
  <2>2. /\ fat'.next = fat.next /\ fat'.head = fat.head /\ fat'.length = fat.length
        /\ fat'.used = fat.used \cup ({root} \ {FREE})
    BY <1>1, <1>2, <1>5 DEF Chains, Table
  <2>3. root = FREE \/ (root \in Clusters /\ fat.head[root] = root)
    BY <1>1, <1>5 DEF wrong, Places
  <2>4. ASSUME Quiet
        PROVE  /\ Heads(fat', root, dirs)
               /\ Reading(root, dirs, fat.next, dir', todo, buf')
               /\ Walk(root, dirs, fat.next, dir', todo, buf', 1)
    <3>1. at = 2 /\ Marked(fat) /\ NoneOdd(fat.next) /\ fat.used = {} /\ todo = <<>>
      BY <1>1, <2>4 DEF Sure, Unread, MarkedUp, InRange
    <3>2. \A h \in Clusters : fat.head[h] = h => fat.next[LastOf(fat, h, h)] = EOF
      <4>1. \A h \in Clusters : h >= 2
        BY NumberFacts DEF Clusters
      <4>2. QED
        BY <1>1, <3>1, <4>1 DEF Suspects
    <3>3. Chained(fat) /\ Chained(fat')
      <4>1. Chained(fat)
        BY <1>1, <3>1, <3>2, ChainsOk
      <4>2. QED
        BY <2>2, <4>1, ChainedSame
    <3>4. root = FREE \/ IsHead(fat.next, root)
      BY <2>3, <3>3 DEF Chained
    <3>5. Heads(fat', root, dirs)
      BY <2>2, <3>1, <3>3, <3>4 DEF Heads, InUseBy
    <3>6. Name(dir') = Top(root) /\ PlacesOf(fat.next, dir') = RestOf(fat.next, dir'.cl)
      BY <1>1 DEF Name, Top, PlacesOf, RestOf
    <3>7. Reading(root, dirs, fat.next, dir', todo, buf')
      <4>1. Top(root) \in TreeOf(root, dirs, fat.next)
        BY <1>1, TreeClosed
      <4>2. dir'.cl \in PlacesOf(fat.next, dir')
        BY <1>1, ReachClosed DEF PlacesOf, Places
      <4>3. buf' = dirs[dir'.cl]
        BY <1>1
      <4>4. \A k \in 1 .. Len(todo) : FALSE
        BY <3>1
      <4>5. QED
        BY <3>6, <4>1, <4>2, <4>3, <4>4 DEF Reading
    <3>8. WalkDone({}, root, dirs, fat.next, dir', todo) /\ WalkHere({}, dirs, fat.next, dir', todo, buf', 1)
      <4>1. \A t \in 1 .. Slots : ~(t < 1)
        BY NumberFacts
      <4>2. QED
        BY <3>6, <4>1 DEF WalkDone, WalkHere, Due
    <3>9. QED
      BY <3>5, <3>7, <3>8 DEF Walk
  <2>5. root' = root /\ dirs' = dirs /\ todo' = todo
    BY <1>1 DEF boot, card
  <2>6. Walking'
    BY <1>1, <2>1, <2>2, <2>4, <2>5 DEF Walking
  <2>7. QED
    BY <1>3, <2>1, <2>6 DEF Sure, Unread, InRange, MarkedUp, Searched, Decided, Approved
<1>6. QED
  BY <1>4, <1>5

LEMMA IfTells ==
  ASSUME NEW yes
  PROVE  /\ If({"DIRMOD", "THIS"}, yes) \cap Noticed # {} /\ If({"FATMOD"}, yes) \cap Noticed # {}
         /\ "THIS" \in If({"DIRMOD", "THIS"}, yes) => "DIRMOD" \in If({"DIRMOD", "THIS"}, yes)
         /\ "THIS" \notin If({"FATMOD"}, yes)
BY DEF If, Noticed

(* An entry that nothing is said about: what it has to be, and what it      *)
(* leads to is on the list.                                                 *)
LEMMA EntryStep ==
  ASSUME Typed, Sure, phase = "dirs", Quiet,
         UNCHANGED <<root, dirs, dir, buf>>,
         fat'.next = fat.next, fat'.head = fat.head, fat'.length = fat.length,
         NEW t \in Later, IsNext(t), at' = t + 1,
         \A h \in fat'.used : h \in fat.used \/ h = buf[t].start,
         EntryOk(dirs, fat.next, Name(dir), buf[t]),
         NEW new, new.cl = new.head,
         \/ todo' = todo /\ ~Leads(buf[t])
         \/ todo' = <<new>> \o todo /\ Leads(buf[t]) /\ Name(new) = Child(dir, buf[t])
                                    /\ new.head = buf[t].start /\ new \in Directory
  PROVE  Walking'
<1>1. /\ Pieces /\ t \in 1 .. Slots /\ at \in Nat /\ dir.cl \in Places /\ root \in Places
      /\ todo \in Seq(Directory)
  BY TypedPieces DEF Later, Pieces, InCopies, Directory
<1>2. /\ Heads(fat, root, dirs)
      /\ Reading(root, dirs, fat.next, dir, todo, buf)
      /\ Walk(root, dirs, fat.next, dir, todo, buf, at)
  BY DEF Sure, Walking
<1>3. buf[t] \in EntriesIn(dirs, fat.next, Name(dir))
  <2>1. PlacesOf(fat.next, Name(dir)) = PlacesOf(fat.next, dir)
    BY DEF PlacesOf, Name
  <2>2. QED
    BY <1>1, <1>2, <2>1 DEF EntriesIn, Reading
<1>4. Heads(fat', root, dirs)
  <2>1. Chained(fat')
    BY <1>2, ChainedSame DEF Heads
  <2>2. InUseBy(root, dirs, fat.next, buf[t].start)
    BY <1>2, <1>3 DEF InUseBy, Reading
  <2>3. QED
    BY <1>2, <2>1, <2>2 DEF Heads
<1>6. Child(Name(dir), buf[t]) = Child(dir, buf[t])
  BY DEF Child, Name
<1>7. CASE todo' = todo /\ ~Leads(buf[t])
  <2>1. PICK R : WalkDone(R, root, dirs, fat.next, dir, todo)
                 /\ WalkHere(R, dirs, fat.next, dir, todo, buf, at)
    BY <1>2 DEF Walk
  <2>2. Checked(R, dirs, fat.next, dir, todo, Name(dir), buf[t])
    BY <1>7 DEF Checked
  <2>3. \A u \in at .. Slots : buf[u].kind # "none" => t <= u
    BY DEF IsNext, Later
  <2>4. WalkDone(R, root, dirs, fat.next, dir, todo) /\ WalkHere(R, dirs, fat.next, dir, todo, buf, t + 1)
    BY <1>1, <2>1, <2>2, <2>3, WalkMore
  <2>5. Walk(root, dirs, fat.next, dir, todo, buf, t + 1)
    BY <2>4 DEF Walk
  <2>6. QED
    BY <1>2, <1>4, <1>7, <2>5 DEF Walking
<1>8. CASE todo' = <<new>> \o todo /\ Leads(buf[t]) /\ Name(new) = Child(dir, buf[t])
           /\ new.head = buf[t].start /\ new \in Directory
  <2> DEFINE more == <<new>> \o todo
  <2>1. /\ Len(more) = Len(todo) + 1 /\ more[1] = new /\ Len(todo) \in Nat
        /\ \A k \in 1 .. Len(todo) : k + 1 \in 1 .. Len(more) /\ more[k + 1] = todo[k]
        /\ \A k \in 1 .. Len(more) : k = 1 \/ (k - 1 \in 1 .. Len(todo) /\ more[k] = todo[k - 1])
    BY <1>1, <1>8
  <2> HIDE DEF more
  <2>2. PICK R : WalkDone(R, root, dirs, fat.next, dir, todo)
                 /\ WalkHere(R, dirs, fat.next, dir, todo, buf, at)
    BY <1>2 DEF Walk
  <2>3. \A x : Due(R, fat.next, dir, todo, x) => Due(R, fat.next, dir, more, x)
    BY <2>1 DEF Due
  <2>4. Due(R, fat.next, dir, more, Child(dir, buf[t]))
    BY <1>8, <2>1 DEF Due
  <2>5. Checked(R, dirs, fat.next, dir, more, Name(dir), buf[t])
    BY <1>6, <2>4 DEF Checked
  <2>6. \A u \in at .. Slots : buf[u].kind # "none" => t <= u
    BY DEF IsNext, Later
  <2>7. WalkDone(R, root, dirs, fat.next, dir, more) /\ WalkHere(R, dirs, fat.next, dir, more, buf, t + 1)
    BY <1>1, <2>2, <2>3, <2>5, <2>6, WalkMore
  <2>8. Walk(root, dirs, fat.next, dir, more, buf, t + 1)
    BY <2>7 DEF Walk
  <2>9. Name(new) \in TreeOf(root, dirs, fat.next)
    <3>1. Child(Name(dir), buf[t]) \in Below(dirs, fat.next, Name(dir))
      BY <1>3, <1>8 DEF Below
    <3>2. QED
      BY <1>1, <1>2, <1>6, <1>8, <3>1, TreeClosed DEF Reading
  <2>10. Reading(root, dirs, fat.next, dir, more, buf)
    BY <1>2, <1>8, <2>1, <2>9 DEF Reading, Leads
  <2>11. QED
    BY <1>4, <1>8, <2>8, <2>10 DEF Walking, more
<1>9. QED
  BY <1>7, <1>8

(* The start of a chain that passes for one is its head.                    *)
LEMMA GoodStart ==
  ASSUME Heads(fat, root, dirs), NEW h \in Places \cup {OUT}, ~BadStart(h)
  PROVE  /\ h \in Clusters /\ IsHead(fat.next, h) /\ fat.length[h] = Cardinality(Reach(fat.next, h))
<1>1. h \in Clusters /\ fat.head[h] = h
  BY DEF BadStart
<1>2. QED
  BY <1>1 DEF Heads, Chained

LEMMA SureFile == ASSUME Typed, Sure, ReadFile PROVE Sure'
<1> DEFINE q(t, first) == StartOfFile(buf[t], first)
           r(t, first, second) == checksize(q(t, first).fat, q(t, first).chain,
                                            q(t, first).size, second)
<1>1. PICK t \in Later, first \in Answers, second \in Answers :
        /\ IsNext(t) /\ buf[t].kind = "file"
        /\ \/ Ends("killed")
           \/ /\ fat' = r(t, first, second).fat
              /\ buf' = [buf EXCEPT ![t].size = r(t, first, second).size,
                                    ![t].start = q(t, first).start]
              /\ tree' = tree \cup q(t, first).mod \cup r(t, first, second).mod
              /\ at' = t + 1
              /\ UNCHANGED <<mod, phase, dir, todo, lost, lf, sig, exit>>
  BY DEF ReadFile
<1>2. /\ UNCHANGED <<card, boot, mishaps, kept>> /\ phase = "dirs" /\ exit # "ok"
      /\ Pieces /\ t \in 1 .. Slots
  BY TypedPieces, NotYet DEF ReadFile, Later, Pieces, InCopies
<1>3. CASE Ends("killed")
  BY <1>3, SureEnds
<1>4. CASE /\ fat' = r(t, first, second).fat
           /\ buf' = [buf EXCEPT ![t].size = r(t, first, second).size,
                                 ![t].start = q(t, first).start]
           /\ tree' = tree \cup q(t, first).mod \cup r(t, first, second).mod
           /\ at' = t + 1
           /\ UNCHANGED <<mod, phase, dir, todo, lost, lf, sig, exit>>
  <2> DEFINE e == buf[t]
  <2>1. e \in Entry /\ fat \in Chains /\ e.kind = "file"
    BY <1>1, <1>2 DEF Pieces, Buffer
  <2>2. q(t, first).mod = (IF (e.size = 0 /\ e.start # FREE) \/ (e.size # 0 /\ BadStart(e.start))
                           THEN If({"DIRMOD", "THIS"}, first) ELSE {})
                          \cup (IF e.size = 0 /\ e.start # FREE /\ first THEN {"FATMOD"} ELSE {})
    BY DEF StartOfFile
  <2>3. r(t, first, second).mod \in {{}, {"ERROR"}, If({"DIRMOD", "THIS"}, second), If({"FATMOD"}, second)}
    <3> HIDE DEF q
    <3>1. \A f, h, n, yes : checksize(f, h, n, yes).mod
                              \in {{}, {"ERROR"}, If({"DIRMOD", "THIS"}, yes), If({"FATMOD"}, yes)}
      BY DEF checksize
    <3>2. QED
      BY <3>1
  <2>4. ChangeTold'
    <3>1. "THIS" \in q(t, first).mod => "DIRMOD" \in q(t, first).mod
      BY <2>2, IfTells
    <3>2. "THIS" \in r(t, first, second).mod => "DIRMOD" \in r(t, first, second).mod
      BY <2>3, IfTells
    <3> HIDE DEF q, r
    <3>3. QED
      BY <1>4, <3>1, <3>2 DEF Sure, ChangeTold
  <2>5. CASE q(t, first).mod \cap Noticed # {} \/ r(t, first, second).mod \cap Noticed # {}
    <3>1. ~Quiet' /\ phase' = "dirs" /\ exit' # "ok"
      BY <1>2, <1>4, <2>5 DEF Quiet
    <3>2. QED
      BY <2>4, <3>1, SureLoud
  <2>6. CASE q(t, first).mod \cap Noticed = {} /\ r(t, first, second).mod \cap Noticed = {}
    <3>1. ~(e.size = 0 /\ e.start # FREE) /\ ~(e.size # 0 /\ BadStart(e.start))
      BY <2>2, <2>6, IfTells
    <3>2. /\ q(t, first).fat = [fat EXCEPT !.used = @ \cup ({e.start} \cap Clusters)]
          /\ q(t, first).chain = e.start /\ q(t, first).start = e.start /\ q(t, first).size = e.size
      BY <3>1 DEF StartOfFile
    <3> DEFINE f == q(t, first).fat
    <3>3. f \in Chains /\ f.next = fat.next /\ f.head = fat.head /\ f.length = fat.length
          /\ f.used = fat.used \cup ({e.start} \cap Clusters)
      BY <2>1, <3>2 DEF Chains
    <3>4. r(t, first, second) = checksize(f, e.start, e.size, second)
      BY <3>2
    <3> HIDE DEF f, q, r
    <3> DEFINE physical == IF e.start = FREE THEN 0 ELSE f.length[e.start]
    <3>5. checksize(f, e.start, e.size, second).mod =
            CASE e.start = OUT -> {"ERROR"}
              [] e.start # OUT /\ physical < e.size -> If({"DIRMOD", "THIS"}, second)
              [] e.start # OUT /\ physical > e.size -> If({"FATMOD"}, second)
              [] OTHER -> {}
      BY DEF checksize
    <3>6. e.start # OUT /\ ~(physical < e.size) /\ ~(physical > e.size)
      <4>1. checksize(f, e.start, e.size, second).mod \cap Noticed = {}
        BY <2>6, <3>4
      <4>2. {"ERROR"} \cap Noticed # {}
        BY DEF Noticed
      <4> HIDE DEF physical
      <4>3. CASE e.start = OUT
        BY <3>5, <4>1, <4>2, <4>3
      <4>4. CASE e.start # OUT /\ physical < e.size
        BY <3>5, <4>1, <4>4, IfTells
      <4>5. CASE e.start # OUT /\ physical > e.size /\ ~(physical < e.size)
        BY <3>5, <4>1, <4>5, IfTells
      <4>6. QED
        BY <4>3, <4>4, <4>5
    <3>7. checksize(f, e.start, e.size, second).fat = f
          /\ checksize(f, e.start, e.size, second).size = e.size
      BY <3>6 DEF checksize
    <3>8. buf' = buf /\ fat' = f /\ (Quiet' => Quiet) /\ todo' = todo /\ phase' = "dirs"
      <4>1. [[e EXCEPT !.size = e.size] EXCEPT !.start = e.start] = e
        BY <2>1 DEF Entry
      <4>2. buf' = buf
        BY <1>2, <1>4, <3>2, <3>4, <3>7, <4>1 DEF Pieces, Buffer
      <4>3. QED
        BY <1>2, <1>4, <3>4, <3>7, <4>2 DEF Quiet
    <3>9. ASSUME Quiet PROVE Walking'
      <4>1. Heads(fat, root, dirs)
        BY <1>2, <3>9 DEF Sure, Walking
      <4>2. e.size # 0 => IsHead(fat.next, e.start) /\ Cardinality(Reach(fat.next, e.start)) = e.size
        <5>1. ASSUME e.size # 0
              PROVE  IsHead(fat.next, e.start) /\ Cardinality(Reach(fat.next, e.start)) = e.size
          <6>1. e.start \in Places \cup {OUT} /\ ~BadStart(e.start)
            BY <2>1, <3>1, <5>1 DEF Entry
          <6>2. e.start \in Clusters /\ IsHead(fat.next, e.start)
                /\ fat.length[e.start] = Cardinality(Reach(fat.next, e.start))
            BY <4>1, <6>1, GoodStart
          <6>3. physical = Cardinality(Reach(fat.next, e.start)) /\ physical \in Nat /\ e.size \in Nat
            BY <2>1, <3>3, <6>2, ValueFacts, ReachType DEF Entry
          <6>4. QED
            BY <3>6, <6>2, <6>3
        <5>2. QED
          BY <5>1
      <4>3. EntryOk(dirs, fat.next, Name(dir), e)
        BY <2>1, <3>1, <4>2 DEF EntryOk
      <4>4. ~Leads(e)
        BY <2>1 DEF Leads
      <4>5. \A h \in fat'.used : h \in fat.used \/ h = e.start
        BY <3>3, <3>8
      <4>6. UNCHANGED <<root, dirs, dir, buf>> /\ at' = t + 1
        BY <1>2, <1>4, <3>8 DEF card, boot
      <4>7. fat'.next = fat.next /\ fat'.head = fat.head /\ fat'.length = fat.length
        BY <3>3, <3>8
      <4>8. QED
        <5>1. NoDir.cl = NoDir.head
          BY DEF NoDir
        <5>2. todo' = todo /\ IsNext(t)
          BY <1>1, <3>8
        <5> HIDE DEF e, NoDir
        <5>3. QED
          BY <1>2, <3>9, <4>3, <4>4, <4>5, <4>6, <4>7, <5>1, <5>2, EntryStep DEF e
    <3>10. QED
      BY <1>2, <1>4, <2>4, <3>8, <3>9 DEF Sure, Unread, InRange, MarkedUp, Walking, Searched, Decided, Approved
  <2>7. QED
    BY <2>5, <2>6
<1>5. QED
  BY <1>1, <1>3, <1>4

LEMMA SureBad == ASSUME Typed, Sure, BadSubdir PROVE Sure'
<1>1. PICK t \in Later, remove \in Answers :
        tree' = tree \cup If({"DIRMOD", "THIS"}, remove)
  BY Zenon DEF BadSubdir
<1>2. phase = "dirs" /\ exit # "ok" /\ UNCHANGED <<phase, exit>>
  BY NotYet DEF BadSubdir
<1>3. ~Quiet' /\ ChangeTold'
  BY <1>1, IfTells DEF Quiet, Sure, ChangeTold
<1>4. QED
  BY <1>2, <1>3, SureLoud

LEMMA SureDots == ASSUME Typed, Sure, ReadDots PROVE Sure'
<1> DEFINE want(e) == CASE e.kind = "dot" -> dir.head
                        [] e.kind = "dotdot" /\ ~dir.root -> dir.up
                        [] OTHER -> e.start
           sized(e, first) == IF e.size # 0 THEN If({"DIRMOD", "THIS"}, first) ELSE {}
           placed(e, second) == IF e.start # want(e) THEN If({"DIRMOD", "THIS"}, second) ELSE {}
<1>1. PICK t \in Later, first \in Answers, second \in Answers :
        /\ IsNext(t) /\ buf[t].kind \in {"dot", "dotdot"}
        /\ fat' = [fat EXCEPT !.used = @ \cup ({buf[t].start} \cap Clusters)]
        /\ buf' = [buf EXCEPT ![t].size = IF first THEN 0 ELSE buf[t].size,
                              ![t].start = IF second THEN want(buf[t]) ELSE buf[t].start]
        /\ tree' = tree \cup sized(buf[t], first) \cup placed(buf[t], second)
        /\ at' = t + 1
  BY ZenonT(60) DEF ReadDots
<1>2. /\ Pieces /\ t \in 1 .. Slots /\ phase = "dirs" /\ exit # "ok"
      /\ UNCHANGED <<card, boot, mod, phase, dir, todo, lost, lf, sig, exit, mishaps, kept>>
  BY TypedPieces, NotYet DEF Later, Pieces, InCopies, ReadDots
<1> DEFINE e == buf[t]
<1>3. e \in Entry /\ fat \in Chains
  BY <1>2 DEF Pieces, Buffer
<1>4. ChangeTold'
  BY <1>1, IfTells DEF Sure, ChangeTold
<1>5. ASSUME Quiet' PROVE Quiet /\ e.size = 0 /\ e.start = want(e)
  <2>1. Quiet /\ sized(e, first) \cap Noticed = {} /\ placed(e, second) \cap Noticed = {}
    BY <1>1, <1>2, <1>5 DEF Quiet
  <2>2. QED
    BY <2>1, IfTells
<1>6. ASSUME Quiet' PROVE Walking'
  <2>1. Quiet /\ e.size = 0 /\ e.start = want(e)
    BY <1>5, <1>6
  <2>2. buf' = buf
    <3>1. [[e EXCEPT !.size = e.size] EXCEPT !.start = e.start] = e
      BY <1>3 DEF Entry
    <3>2. buf' = [buf EXCEPT ![t] = e]
      <4>1. buf' = [buf EXCEPT ![t].size = e.size, ![t].start = e.start]
        BY <1>1, <2>1
      <4>2. QED
        BY <1>2, <3>1, <4>1 DEF Pieces, Buffer
    <3>3. QED
      BY <1>2, <3>2 DEF Pieces, Buffer
  <2>3. /\ fat'.next = fat.next /\ fat'.head = fat.head /\ fat'.length = fat.length
        /\ \A h \in fat'.used : h \in fat.used \/ h = e.start
    BY <1>1, <1>3 DEF Chains
  <2>4. EntryOk(dirs, fat.next, Name(dir), e)
    BY <1>1, <2>1 DEF EntryOk, Name
  <2>5. ~Leads(e)
    BY <1>1 DEF Leads
  <2>6. UNCHANGED <<root, dirs, dir>> /\ todo' = todo /\ at' = t + 1 /\ IsNext(t)
    BY <1>1, <1>2 DEF card, boot
  <2>7. NoDir.cl = NoDir.head
    BY DEF NoDir
  <2> HIDE DEF e, NoDir, want
  <2>8. QED
    BY <1>2, <2>1, <2>2, <2>3, <2>4, <2>5, <2>6, <2>7, EntryStep DEF e
<1>7. QED
  BY <1>2, <1>4, <1>6 DEF Sure, Unread, InRange, MarkedUp, Walking, Searched, Decided, Approved

LEMMA SureSubdir == ASSUME Typed, Sure, ReadSubdir PROVE Sure'
<1> DEFINE bad(e) == e.start = dir.head \/ ~check_dot_dot(e.start)
           new(e) == [root |-> FALSE, head |-> e.start, cl |-> e.start,
                      up |-> IF dir.root THEN FREE ELSE dir.head]
           sized(e, first) == IF e.size # 0 THEN If({"DIRMOD", "THIS"}, first) ELSE {}
           fitting(e, remove) == IF bad(e) THEN If({"DIRMOD", "THIS"}, remove) ELSE {}
<1>1. PICK t \in Later, first \in Answers, remove \in Answers :
        /\ IsNext(t) /\ buf[t].kind \in {"dir", "lost"} /\ ~BadStart(buf[t].start)
        /\ fat' = [fat EXCEPT !.used = @ \cup {buf[t].start}]
        /\ buf' = [buf EXCEPT ![t] = IF bad(buf[t]) /\ remove THEN NoEntry
                        ELSE [buf[t] EXCEPT !.size = IF first THEN 0 ELSE @]]
        /\ tree' = tree \cup sized(buf[t], first) \cup fitting(buf[t], remove)
        /\ todo' = IF bad(buf[t]) THEN todo ELSE <<new(buf[t])>> \o todo
        /\ phase' \in {"spinning", phase}
        /\ at' = t + 1
  BY ZenonT(60) DEF ReadSubdir
<1>2. /\ Pieces /\ t \in 1 .. Slots /\ phase = "dirs" /\ exit # "ok"
      /\ UNCHANGED <<card, boot, mod, dir, lf, sig, exit, mishaps, kept>>
  BY TypedPieces, NotYet DEF Later, Pieces, InCopies, ReadSubdir
<1> DEFINE e == buf[t]
<1>3. e \in Entry /\ fat \in Chains
  BY <1>2 DEF Pieces, Buffer
<1>4. ChangeTold'
  <2> HIDE DEF bad
  <2>1. QED
    BY <1>1, IfTells DEF Sure, ChangeTold
<1>5. ASSUME Quiet' PROVE Quiet /\ e.size = 0 /\ ~bad(e)
  <2>1. Quiet /\ sized(e, first) \cap Noticed = {} /\ fitting(e, remove) \cap Noticed = {}
    BY <1>1, <1>2, <1>5 DEF Quiet
  <2> HIDE DEF bad
  <2>2. QED
    BY <2>1, IfTells
<1>6. ASSUME Quiet' PROVE Walking'
  <2>1. Quiet /\ e.size = 0 /\ ~bad(e)
    BY <1>5, <1>6
  <2>2. buf' = buf
    <3>1. [e EXCEPT !.size = IF first THEN 0 ELSE @] = e
      BY <1>3, <2>1 DEF Entry
    <3> HIDE DEF bad
    <3>2. buf' = [buf EXCEPT ![t] = e]
      BY <1>1, <2>1, <3>1
    <3>3. QED
      BY <1>2, <3>2 DEF Pieces, Buffer
  <2>3. /\ fat'.next = fat.next /\ fat'.head = fat.head /\ fat'.length = fat.length
        /\ \A h \in fat'.used : h \in fat.used \/ h = e.start
    BY <1>1, <1>3 DEF Chains
  <2>4. Heads(fat, root, dirs)
    BY <1>2, <2>1 DEF Sure, Walking
  <2>5. e.start \in Clusters /\ IsHead(fat.next, e.start)
    BY <1>1, <1>3, <2>4, GoodStart DEF Entry
  <2>6. {"dot", "dotdot"} \subseteq {x.kind : x \in EntriesIn(dirs, fat.next, [head |-> e.start])}
    <3>1. PICK c \in Reach(fat.next, e.start), d \in Reach(fat.next, e.start) :
            dirs[c][1].kind = "dot" /\ dirs[d][2].kind = "dotdot"
      BY <2>1 DEF check_dot_dot
    <3>2. PlacesOf(fat.next, [head |-> e.start]) = Reach(fat.next, e.start)
      BY <2>5, ValueFacts DEF PlacesOf
    <3>3. 1 \in 1 .. Slots /\ 2 \in 1 .. Slots
      BY NumberFacts
    <3>4. /\ dirs[c][1] \in EntriesIn(dirs, fat.next, [head |-> e.start])
          /\ dirs[d][2] \in EntriesIn(dirs, fat.next, [head |-> e.start])
      BY <3>2, <3>3 DEF EntriesIn
    <3>5. QED
      BY <3>1, <3>4
  <2>7. EntryOk(dirs, fat.next, Name(dir), e)
    BY <1>1, <2>1, <2>5, <2>6 DEF EntryOk
  <2>8. Leads(e)
    BY <1>1, <2>5 DEF Leads
  <2>9. todo' = <<new(e)>> \o todo
    <3> HIDE DEF bad, new
    <3>1. QED
      BY <1>1, <2>1
  <2>10. /\ new(e).cl = new(e).head /\ new(e).head = e.start
         /\ Name(new(e)) = Child(dir, e)
    BY DEF Name, Child
  <2>11. new(e) \in Directory
    BY <1>2, <2>5, ValueFacts DEF Pieces, Directory
  <2>12. UNCHANGED <<root, dirs, dir>> /\ at' = t + 1 /\ IsNext(t)
    BY <1>1, <1>2 DEF card, boot
  <2> HIDE DEF e, new, bad
  <2>13. QED
    BY <1>2, <2>1, <2>2, <2>3, <2>7, <2>8, <2>9, <2>10, <2>11, <2>12, EntryStep DEF e
<1>7. phase' \in {"dirs", "spinning"}
  BY <1>1, <1>2
<1>8. QED
  BY <1>2, <1>4, <1>6, <1>7 DEF Sure, Unread, InRange, MarkedUp, Walking, Searched, Decided, Approved

LEMMA SureEnd == ASSUME Typed, Sure, EndCluster PROVE Sure'
<1> DEFINE next == IF dir.cl = FREE THEN FREE ELSE fat.next[dir.cl]
           there == IF next \in Clusters THEN [dir EXCEPT !.cl = next]
                    ELSE IF todo # <<>> THEN Head(todo) ELSE NoDir
           over == next \notin Clusters /\ todo = <<>>
<1>1. /\ phase = "dirs" /\ Later = {} /\ UNCHANGED <<fats, boot, fat, lost, lf, sig, exit, mishaps, kept>>
      /\ dirs' = IF "THIS" \in tree THEN [dirs EXCEPT ![dir.cl] = buf] ELSE dirs
      /\ dir' = there
      /\ buf' = IF over THEN NoBuf ELSE dirs'[there.cl]
      /\ todo' = IF next \in Clusters \/ over THEN todo ELSE Tail(todo)
      /\ mod' = IF over THEN mod \cup (tree \ {"THIS"}) ELSE mod
      /\ tree' = IF over THEN {} ELSE tree \ {"THIS"}
      /\ phase' \in {IF over THEN "lost" ELSE "dirs", "spinning"}
      /\ at' = IF over THEN 2 ELSE 1
  BY DEF EndCluster
<1>2. /\ Pieces /\ exit # "ok" /\ dir \in Directory /\ dir.cl \in Places /\ root \in Places
      /\ todo \in Seq(Directory) /\ at \in Nat
  BY <1>1, TypedPieces, NotYet DEF Pieces, Directory
<1>3. ASSUME Quiet' PROVE Quiet /\ dirs' = dirs
  <2>1. Quiet
    BY <1>1, <1>3 DEF Quiet, Noticed
  <2>2. "THIS" \notin tree
    BY <2>1 DEF Sure, ChangeTold, Quiet, Noticed
  <2>3. QED
    BY <1>1, <2>1, <2>2
<1>4. ChangeTold'
  BY <1>1 DEF ChangeTold
<1>5. ASSUME Quiet
      PROVE  /\ Heads(fat, root, dirs)
             /\ Reading(root, dirs, fat.next, dir, todo, buf)
             /\ buf = dirs[dir.cl]
             /\ \A u \in at .. Slots : dirs[dir.cl][u].kind = "none"
             /\ Walk(root, dirs, fat.next, dir, todo, dirs[dir.cl], at)
  BY <1>1, <1>5 DEF Sure, Walking, Reading, Later
<1>6. CASE next \in Clusters
  <2>1. dir.cl \in Clusters /\ next = fat.next[dir.cl]
    BY <1>2, <1>6, ValueFacts DEF Places
  <2>2. /\ phase' \in {"dirs", "spinning"} /\ todo' = todo /\ at' = 1
        /\ dir' = [dir EXCEPT !.cl = fat.next[dir.cl]] /\ buf' = dirs'[dir'.cl]
    BY <1>1, <1>6, <2>1
  <2>3. ASSUME Quiet' PROVE Walking'
    <3>1. Quiet /\ dirs' = dirs /\ root' = root /\ fat' = fat
      BY <1>1, <1>3, <2>3 DEF boot
    <3>2. PICK R : /\ WalkDone(R, root, dirs, fat.next, dir, todo)
                   /\ WalkHere(R, dirs, fat.next, dir, todo, dirs[dir.cl], at)
      BY <1>5, <3>1 DEF Walk
    <3>3. LET S == R \cup {<<Name(dir), dir.cl>>}
          IN  /\ WalkDone(S, root, dirs, fat.next, dir', todo)
              /\ WalkHere(S, dirs, fat.next, dir', todo, dirs[dir'.cl], 1)
      BY <1>2, <1>5, <1>6, <2>1, <2>2, <3>1, <3>2, WalkCluster
    <3>4. Walk(root, dirs, fat.next, dir', todo, buf', 1)
      BY <2>2, <3>1, <3>3 DEF Walk
    <3>5. Reading(root, dirs, fat.next, dir', todo, buf')
      <4>1. Name(dir') = Name(dir) /\ PlacesOf(fat.next, dir') = PlacesOf(fat.next, dir)
            /\ dir'.cl = fat.next[dir.cl]
        BY <1>2, <2>2 DEF Name, PlacesOf, Directory
      <4>2. dir'.cl \in PlacesOf(fat.next, dir)
        <5>1. dir.cl \in PlacesOf(fat.next, dir)
          BY <1>5, <3>1 DEF Reading
        <5>2. dir.head # FREE
          BY <2>1, <5>1, ValueFacts DEF PlacesOf
        <5>3. QED
          BY <1>6, <2>1, <4>1, <5>1, <5>2, ReachClosed DEF PlacesOf
      <4>3. QED
        BY <1>5, <2>2, <3>1, <4>1, <4>2 DEF Reading
    <3>6. QED
      BY <1>5, <2>2, <3>1, <3>4, <3>5 DEF Walking
  <2>4. QED
    BY <1>1, <1>2, <1>4, <2>2, <2>3 DEF Sure, Unread, InRange, MarkedUp, Walking, Searched, Decided, Approved
<1>7. CASE next \notin Clusters /\ todo # <<>>
  <2>1. dir.cl = FREE \/ fat.next[dir.cl] \notin Clusters
    BY <1>7
  <2>2. /\ phase' \in {"dirs", "spinning"} /\ todo' = Tail(todo) /\ at' = 1
        /\ dir' = Head(todo) /\ buf' = dirs'[dir'.cl]
    BY <1>1, <1>7
  <2>3. ASSUME Quiet' PROVE Walking'
    <3>1. Quiet /\ dirs' = dirs /\ root' = root /\ fat' = fat
      BY <1>1, <1>3, <2>3 DEF boot
    <3>2. PICK R : /\ WalkDone(R, root, dirs, fat.next, dir, todo)
                   /\ WalkHere(R, dirs, fat.next, dir, todo, dirs[dir.cl], at)
      BY <1>5, <3>1 DEF Walk
    <3>3. \A k \in 1 .. Len(todo) :
             /\ Name(todo[k]) \in TreeOf(root, dirs, fat.next)
             /\ todo[k].cl = todo[k].head /\ todo[k].head \in Clusters
      BY <1>5, <3>1 DEF Reading
    <3>4. Head(todo) = todo[1] /\ 1 \in 1 .. Len(todo)
          /\ \A k \in 1 .. Len(Tail(todo)) : k + 1 \in 1 .. Len(todo) /\ Tail(todo)[k] = todo[k + 1]
      BY <1>2, <1>7
    <3>5. Head(todo).cl = Head(todo).head /\ Head(todo).head \in Clusters
      BY <3>3, <3>4
    <3>6. LET S == R \cup {<<Name(dir), dir.cl>>}
          IN  /\ WalkDone(S, root, dirs, fat.next, Head(todo), Tail(todo))
              /\ WalkHere(S, dirs, fat.next, Head(todo), Tail(todo), dirs[Head(todo).cl], 1)
      BY <1>2, <1>5, <1>7, <2>1, <3>1, <3>2, <3>5, WalkOther
    <3>7. Walk(root, dirs, fat.next, dir', todo', buf', 1)
      BY <2>2, <3>1, <3>6 DEF Walk
    <3>8. Reading(root, dirs, fat.next, dir', todo', buf')
      <4>1. dir'.cl \in PlacesOf(fat.next, dir')
        BY <2>2, <3>5, ReachClosed, ValueFacts DEF PlacesOf
      <4>2. QED
        BY <2>2, <3>1, <3>3, <3>4, <4>1 DEF Reading
    <3>9. QED
      BY <1>5, <2>2, <3>1, <3>7, <3>8 DEF Walking
  <2>4. QED
    BY <1>1, <1>2, <1>4, <2>2, <2>3 DEF Sure, Unread, InRange, MarkedUp, Walking, Searched, Decided, Approved
<1>8. CASE next \notin Clusters /\ todo = <<>>
  <2>1. dir.cl = FREE \/ fat.next[dir.cl] \notin Clusters
    BY <1>8
  <2>2. phase' \in {"lost", "spinning"} /\ at' = 2
    BY <1>1, <1>8
  <2>3. ASSUME Quiet' PROVE Searched'
    <3>1. Quiet /\ dirs' = dirs /\ root' = root /\ fat' = fat
      BY <1>1, <1>3, <2>3 DEF boot
    <3>2. PICK R : /\ WalkDone(R, root, dirs, fat.next, dir, todo)
                   /\ WalkHere(R, dirs, fat.next, dir, todo, dirs[dir.cl], at)
      BY <1>5, <3>1 DEF Walk
    <3>3. AllSound(root, dirs, fat.next)
      BY <1>2, <1>5, <1>8, <2>1, <3>1, <3>2, WalkOver
    <3>4. QED
      BY <1>5, <2>2, <3>1, <3>3 DEF Searched
  <2>4. QED
    BY <1>1, <1>2, <1>4, <2>2, <2>3 DEF Sure, Unread, InRange, MarkedUp, Walking, Searched, Decided, Approved
<1>9. QED
  BY <1>6, <1>7, <1>8

LEMMA SureLost ==
  ASSUME Typed, Sure, DirWriteFails \/ Reconnect \/ NotReconnected
  PROVE  Sure'
<1>1. /\ phase # "idle" /\ phase' \in {"lost", "out"} /\ UNCHANGED <<tree, exit>>
      /\ mod' \cap Noticed # {}
  <2>1. CASE DirWriteFails
    BY <2>1 DEF DirWriteFails, GoOn, Noticed
  <2>2. CASE Reconnect
    <3>1. mod' = mod \cup {"DIRMOD"} \/ mod' = mod \cup {"FATMOD"}
      BY <2>2 DEF Reconnect
    <3>2. QED
      BY <2>2, <3>1 DEF Reconnect, Noticed
  <2>3. CASE NotReconnected
    <3>1. "ERROR" \in mod'
      BY <2>3 DEF NotReconnected
    <3>2. QED
      BY <2>3, <3>1 DEF NotReconnected, Noticed
  <2>4. QED
    BY <2>1, <2>2, <2>3
<1>2. ~Quiet' /\ ChangeTold' /\ exit' # "ok" /\ phase' # "idle"
  BY <1>1, NotYet DEF Quiet, Sure, ChangeTold
<1>3. QED
  BY <1>1, <1>2, SureLoud

LEMMA SureUpdate == ASSUME Typed, Announced, Sure, UpdateFats PROVE Sure'
<1>1. /\ phase = "lost" /\ LostChains = {} /\ exit # "ok"
      /\ UNCHANGED <<card, boot, fat, tree, exit>>
      /\ \/ phase' = "write" 
         \/ phase' = "dirty" /\ mod \subseteq mod'
  BY NotYet DEF UpdateFats
<1>2. ChangeTold'
  BY <1>1 DEF Sure, ChangeTold
<1>3. ASSUME phase' = "dirty", mod' \cap Noticed = {}
      PROVE  Tidy(root, dirs, fat.next)
  <2>1. Quiet
    BY <1>1, <1>3 DEF Announced, Emptied, Quiet
  <2>2. at = 2 /\ Heads(fat, root, dirs) /\ AllSound(root, dirs, fat.next)
    BY <1>1, <2>1 DEF Sure, Searched
  <2>3. ASSUME NEW h \in Clusters, IsHead(fat.next, h)
        PROVE  InUseBy(root, dirs, fat.next, h)
    <3>1. fat.head[h] = h /\ fat.next[h] \notin {FREE, RSRVD, BAD} /\ h >= 2
      BY <2>2, <2>3, NumberFacts DEF Heads, Chained, Clusters
    <3>2. h \in fat.used
      BY <1>1, <2>2, <3>1 DEF LostChains
    <3>3. QED
      BY <2>2, <3>2 DEF Heads
  <2>4. QED
    BY <2>2, <2>3 DEF Tidy, Heads, Chained
<1>4. root' = root /\ dirs' = dirs
  BY <1>1 DEF card, boot
<1>5. QED
  BY <1>1, <1>2, <1>3, <1>4
     DEF Sure, Unread, InRange, MarkedUp, Walking, Searched, Decided, Approved

LEMMA SureWrite == ASSUME Typed, Announced, Sure, writefat \/ MarkClean PROVE Sure'
<1>1. /\ phase \in {"write", "dirty", "clean"} /\ exit # "ok"
      /\ UNCHANGED <<root, dirs, fat, tree, exit>> /\ mod \subseteq mod'
      /\ phase' \in {"write", "dirty", "clean", "out"}
  <2>1. CASE writefat
    BY <2>1, NotYet DEF writefat, boot, GoOn
  <2>2. CASE MarkClean
    BY <2>2, NotYet DEF MarkClean, boot, card
  <2>3. QED
    BY <2>1, <2>2
<1>2. ChangeTold'
  BY <1>1 DEF Sure, ChangeTold
<1>3. ASSUME mod' \cap Noticed = {} PROVE Tidy(root', dirs', fat'.next)
  <2>1. phase # "write"
    BY <1>1, <1>3 DEF Announced, Written, Noticed
  <2>2. QED
    BY <1>1, <1>3, <2>1 DEF Sure, Decided
<1>4. QED
  BY <1>1, <1>2, <1>3
     DEF Sure, Unread, InRange, MarkedUp, Walking, Searched, Decided, Approved

(* A check that has not stopped at the mark looks, to its end. *)
Looking == phase # "idle" => looked

LEMMA LookingKept == Looking /\ [Next]_vars => Looking'
<1> SUFFICES ASSUME Looking, [Next]_vars, phase' # "idle"
             PROVE  looked'
  BY DEF Looking
<1>1. CASE Start
  BY <1>1 DEF Start
<1>2. CASE Spin \/ UNCHANGED vars
  BY <1>2 DEF Spin, Looking, vars, boot
<1>3. CASE Kill
  BY <1>3 DEF Kill, Ends
<1>4. CASE Check /\ ~Start /\ ~Spin
  <2>1. phase # "idle" /\ looked' = looked
    BY <1>4 DEF Check, Load, MarkChains, BrokenChain, CrossLink, OpenRoot, ReadFile, BadSubdir,
                ReadDots, ReadSubdir, EndCluster, DirWriteFails, Reconnect, NotReconnected,
                UpdateFats, writefat, MarkClean, Exit, boot
  <2>2. QED
    BY <2>1 DEF Looking
<1>5. QED
  BY <1>1, <1>2, <1>3, <1>4 DEF Next

LEMMA SureExit == ASSUME Typed, Announced, Looking, Sure, Exit PROVE Sure'
<1> DEFINE verdict == IF mod \cap {"FATMOD", "DIRMOD"} # {} THEN "modified"
                      ELSE IF mod \cap {"FATAL", "ERROR"} # {} THEN "failed" ELSE "ok"
<1>1. phase = "out" /\ Ends(verdict) /\ UNCHANGED <<card, boot, mod>>
  BY DEF Exit
<1>2. ASSUME verdict = "ok"
      PROVE  looked' /\ Agree(compare', fats') /\ Tidy(root', dirs', fats'[1].next)
  <2>1. mod \cap Noticed = {} /\ ~Failed
    BY <1>2 DEF Noticed, Failed
  <2>2. Tidy(root, dirs, fat.next)
    BY <1>1, <2>1 DEF Sure, Decided
  <2>3. \A i \in 1 .. Copies : compare \/ i = 1 => fats[i].next = fat.next
    BY <1>1, <2>1 DEF Announced, Finished, Same
  <2>4. fats[1].next = fat.next
    BY <2>3, NumberFacts
  <2>5. Agree(compare, fats)
    BY <2>3, <2>4 DEF Agree
  <2>6. looked
    BY <1>1 DEF Looking
  <2>7. QED
    BY <1>1, <2>2, <2>4, <2>5, <2>6 DEF card, boot
<1>3. verdict \in {"ok", "modified", "failed", "killed"}
  OBVIOUS
<1> HIDE DEF verdict
<1>4. QED
  BY <1>1, <1>2, <1>3, SureEnds

LEMMA SureKept == Typed /\ Announced /\ Looking /\ Sure /\ [Next]_vars => Sure'
<1> SUFFICES ASSUME Typed, Announced, Looking, Sure, [Next]_vars
             PROVE  Sure'
  OBVIOUS
<1>1. CASE Spin \/ UNCHANGED vars
  BY <1>1 DEF Spin, Sure, Unread, ChangeTold, InRange, MarkedUp, Walking, Searched, Decided,
              Approved, Quiet, vars, card, boot, memory
<1>2. CASE Kill
  BY <1>2, SureEnds DEF Kill
<1>3. CASE Check /\ ~Spin
  BY <1>3, SureStart, SureLoad, SureMark, SureBroken, SureOpen, SureFile, SureBad, SureDots,
     SureSubdir, SureEnd, SureLost, SureUpdate, SureWrite, SureExit DEF Check
<1>4. QED
  BY <1>1, <1>2, <1>3 DEF Next

(* Exit status 0 of a check that looked means a consistent card: chains     *)
(* that do not meet and end, copies that agree, entries that fit their      *)
(* chains in every directory that can be reached, and no chain without an   *)
(* owner.  Without a look it means that -p found the mark of a clean card   *)
(* in the first copy, and nothing about the card.                           *)
THEOREM OkIsSound == Spec => []OkMeansSound
<1>1. Init => Sure
  BY DEF Init, Blank, Sure, Unread, ChangeTold, InRange, MarkedUp, Walking, Searched, Decided, Approved
<1>2. Init => Announced
  BY DEF Init, Announced, Loaded, Walked, Emptied, Written, Finished
<1>3. Init => Typed /\ Looking
  BY InitType DEF Init, Looking
<1>4. Typed /\ [Next]_vars => Typed'
  BY NextType
<1>5. Typed /\ Announced /\ [Next]_vars => Announced'
  BY AnnouncedKept
<1>6. Looking /\ [Next]_vars => Looking'
  BY LookingKept
<1>7. Typed /\ Announced /\ Looking /\ Sure /\ [Next]_vars => Sure'
  BY SureKept
<1>8. Sure => OkMeansSound
  BY SoundIs DEF Sure, Approved, OkMeansSound
<1>9. QED
  BY <1>1, <1>2, <1>3, <1>4, <1>5, <1>6, <1>7, <1>8, PTL DEF Spec

-----------------------------------------------------------------------------
(* A chain that nothing disputes: C is what can be reached from its head h, *)
(* and it ends; nothing else leads into it; it alone is marked h.           *)
Line(next, C, h) == h \in Clusters /\ C = Reach(next, h) /\ \E c \in C : next[c] = EOF
Apart(next, C, h) == \A c \in Clusters : (c \notin C => next[c] \notin C) /\ next[c] # h
Branded(f, C, h, n) == (\A c \in Clusters : f.head[c] = h <=> c \in C) /\ f.length[h] = n
Alike(next, old, C) == \A c \in C : next[c] = old[c]

(* A repair elsewhere: it cuts or frees other clusters and marks them for   *)
(* other chains.                                                            *)
Spares(f, g, C, h) ==
  /\ \A c \in C : g.next[c] = f.next[c] /\ g.head[c] = f.head[c]
  /\ \A c \in Clusters \ C : g.next[c] \in {f.next[c], FREE, EOF} /\ g.head[c] # h
  /\ g.length[h] = f.length[h]

LEMMA LineFacts ==
  ASSUME NEW next, NEW C, NEW h, Line(next, C, h)
  PROVE  /\ C \subseteq Clusters /\ h \in C /\ FREE \notin C /\ OUT \notin C
         /\ \A c \in C : next[c] \in Clusters => next[c] \in C
         /\ \A c \in C : next[c] \in Clusters \cup {EOF}
         /\ \A c \in C : ~Endless(next, c)
<1>1. C \subseteq Clusters /\ h \in C /\ \A c \in C : next[c] \in Clusters => next[c] \in C
  BY ReachType, ReachClosed DEF Line
<1>2. PICK z \in C : next[z] = EOF
  BY DEF Line
<1> DEFINE S == {c \in C : z \in Reach(next, c)}
<1>3. h \in S
  BY <1>1, <1>2 DEF Line
<1>4. ASSUME NEW c \in S \cap Clusters, next[c] \in Clusters PROVE next[c] \in S
  <2>1. c # z
    BY <1>2, <1>4, ValueFacts
  <2>2. z \in Reach(next, next[c])
    BY <1>4, <2>1, ReachUnfold
  <2>3. QED
    BY <1>1, <1>4, <2>2
<1>5. C \subseteq S
  <2> HIDE DEF S
  <2>1. QED
    BY <1>3, <1>4, ReachLeast DEF Line
<1>6. ASSUME NEW c \in C PROVE next[c] \in Clusters \cup {EOF} /\ ~Endless(next, c)
  <2>1. z \in Reach(next, c) /\ c \in Clusters
    BY <1>1, <1>5
  <2>2. next[c] \notin Clusters => z = c
    BY <2>1, ReachUnfold
  <2>3. QED
    BY <1>2, <2>1, <2>2, ValueFacts DEF Endless
<1>7. QED
  BY <1>1, <1>6, ValueFacts

LEMMA LineSame ==
  ASSUME NEW next, NEW other, NEW C, NEW h, Line(next, C, h), Alike(other, next, C)
  PROVE  Line(other, C, h)
<1>1. /\ C \subseteq Clusters /\ h \in C /\ h \in Clusters
      /\ \A c \in C : next[c] \in Clusters => next[c] \in C
  BY LineFacts DEF Line
<1>2. Reach(other, h) \subseteq C
  BY <1>1, ReachLeast DEF Alike
<1>3. C \subseteq Reach(other, h)
  <2> DEFINE S == Reach(other, h)
  <2>1. h \in S
    BY <1>1, ReachClosed
  <2>2. \A c \in S \cap Clusters : next[c] \in Clusters => next[c] \in S
    BY <1>2, ReachClosed DEF Alike
  <2> HIDE DEF S
  <2>3. QED
    BY <2>1, <2>2, ReachLeast DEF Line, S
<1>4. \E c \in C : other[c] = EOF
  BY DEF Line, Alike
<1>5. QED
  BY <1>1, <1>2, <1>3, <1>4 DEF Line

LEMMA SparesKeep ==
  ASSUME NEW f, NEW g, NEW C, NEW h, NEW n, Line(f.next, C, h), Apart(f.next, C, h),
         Branded(f, C, h, n), Spares(f, g, C, h)
  PROVE  /\ Line(g.next, C, h) /\ Apart(g.next, C, h) /\ Branded(g, C, h, n)
         /\ Alike(g.next, f.next, C)
<1>1. C \subseteq Clusters /\ h \in C
  BY LineFacts
<1>2. Alike(g.next, f.next, C)
  BY DEF Alike, Spares
<1>3. Line(g.next, C, h)
  BY <1>2, LineSame
<1>4. Apart(g.next, C, h)
  <2>1. ASSUME NEW c \in Clusters PROVE (c \notin C => g.next[c] \notin C) /\ g.next[c] # h
    <3>1. CASE c \in C
      BY <3>1 DEF Apart, Spares
    <3>2. CASE c \notin C
      <4>1. g.next[c] \in {f.next[c], FREE, EOF} /\ f.next[c] \notin C /\ f.next[c] # h
        BY <3>2 DEF Spares, Apart
      <4>2. FREE \notin C /\ EOF \notin C /\ FREE # h /\ EOF # h
        BY <1>1, ValueFacts
      <4>3. QED
        BY <4>1, <4>2
    <3>3. QED
      BY <3>1, <3>2
  <2>2. QED
    BY <2>1 DEF Apart
<1>5. Branded(g, C, h, n)
  BY <1>1 DEF Branded, Spares
<1>6. QED
  BY <1>2, <1>3, <1>4, <1>5

LEMMA SparesTwice ==
  ASSUME NEW f, NEW g, NEW k, NEW C, NEW h, Spares(f, g, C, h), Spares(g, k, C, h)
  PROVE  Spares(f, k, C, h)
<1>1. ASSUME NEW c \in Clusters \ C PROVE k.next[c] \in {f.next[c], FREE, EOF}
  <2>1. g.next[c] \in {f.next[c], FREE, EOF} /\ k.next[c] \in {g.next[c], FREE, EOF}
    BY DEF Spares
  <2>2. QED
    BY <2>1
<1>2. QED
  BY <1>1 DEF Spares

LEMMA SparesSame ==
  ASSUME NEW f, NEW g, NEW C, NEW h, NEW n, C \subseteq Clusters, Branded(f, C, h, n),
         g.next = f.next, g.head = f.head, g.length = f.length
  PROVE  Spares(f, g, C, h)
BY DEF Spares, Branded

(* What starts outside of the chain stays outside.                          *)
LEMMA ReachAway ==
  ASSUME NEW next, NEW C, NEW h, Apart(next, C, h), NEW p, p \notin C
  PROVE  Reach(next, p) \cap C = {}
<1> DEFINE S == Clusters \ C
<1>1. p \in Clusters => p \in S
  OBVIOUS
<1>2. \A c \in S \cap Clusters : next[c] \in Clusters => next[c] \in S
  BY DEF Apart
<1>3. Reach(next, p) \subseteq S
  <2> HIDE DEF S
  <2>1. QED
    BY <1>1, <1>2, ReachLeast
<1>4. QED
  BY <1>3

LEMMA AlongAway ==
  ASSUME NEW f, NEW C, NEW h, NEW n, Branded(f, C, h, n), NEW g, g # h
  PROVE  \A c \in Clusters \ C : Along(f, g)[c] \in Clusters \ C
BY DEF Along, Branded

LEMMA StretchAway ==
  ASSUME NEW f, NEW C, NEW h, NEW n, Branded(f, C, h, n), NEW g, g # h, NEW p, p \notin C
  PROVE  Stretch(f, p, g) \cap C = {}
<1> DEFINE S == Clusters \ C
<1>1. p \in Clusters => p \in S
  OBVIOUS
<1>2. \A c \in S \cap Clusters : Along(f, g)[c] \in Clusters => Along(f, g)[c] \in S
  BY AlongAway
<1>3. Stretch(f, p, g) \subseteq S
  <2> HIDE DEF S
  <2>1. QED
    BY <1>1, <1>2, ReachLeast DEF Stretch
<1>4. QED
  BY <1>3

LEMMA LastAway ==
  ASSUME NEW f, NEW C, NEW h, NEW n, Branded(f, C, h, n), NEW g, g # h,
         NEW p \in Clusters, p \notin C
  PROVE  LastOf(f, p, g) \in Clusters \ C
<1>1. PICK w \in [0 .. NumClusters -> Clusters] :
        /\ w[0] = p /\ w[NumClusters] = LastOf(f, p, g)
        /\ \A k \in 1 .. NumClusters : w[k] = Along(f, g)[w[k - 1]]
  BY LastSteps
<1> DEFINE P == {k \in 0 .. NumClusters : w[k] \in Clusters \ C}
<1>2. 0 \in P
  BY <1>1, NumberFacts
<1>3. ASSUME NEW k \in 0 .. NumClusters - 1, k \in P PROVE k + 1 \in P
  <2>1. k + 1 \in 1 .. NumClusters /\ k + 1 \in 0 .. NumClusters /\ (k + 1) - 1 = k
    BY NumberFacts
  <2>2. w[k + 1] = Along(f, g)[w[k]] /\ w[k] \in Clusters \ C
    BY <1>1, <1>3, <2>1
  <2>3. QED
    BY <2>1, <2>2, AlongAway
<1>4. 0 .. NumClusters \subseteq P
  <2> HIDE DEF P
  <2>1. QED
    BY <1>2, <1>3, NumberFacts, Along0
<1>5. NumClusters \in P
  BY <1>4, NumberFacts
<1>6. QED
  BY <1>1, <1>5

LEMMA ClearSpares ==
  ASSUME NEW f \in Chains, NEW C, NEW h \in Clusters, NEW n, C \subseteq Clusters,
         Branded(f, C, h, n), h \in C, NEW x, x # h
  PROVE  Spares(f, clearchain(f, x), C, h)
<1>1. CASE ~(x \in Clusters /\ f.head[x] = x)
  <2>1. clearchain(f, x) = f
    BY <1>1 DEF clearchain
  <2>2. QED
    BY <2>1, SparesSame
<1>2. CASE x \in Clusters /\ f.head[x] = x
  <2> DEFINE own == Stretch(f, x, x)
             Zero(g) == [c \in Clusters |-> IF c \in own THEN 0 ELSE g[c]]
             k == clearchain(f, x)
  <2>1. x \notin C
    BY <1>2 DEF Branded
  <2>2. own \cap C = {}
    BY <2>1, StretchAway
  <2>3. k = [f EXCEPT !.next = Zero(@), !.head = Zero(@), !.length = Zero(@)]
    BY <1>2 DEF clearchain
  <2> HIDE DEF own
  <2>4. k.next = Zero(f.next) /\ k.head = Zero(f.head) /\ k.length = Zero(f.length)
    BY <2>3 DEF Chains
  <2> HIDE DEF k
  <2>5. h # 0 /\ FREE = 0
    BY ValueFacts
  <2>6. QED
    BY <2>2, <2>4, <2>5 DEF Spares, Branded, k
<1>3. QED
  BY <1>1, <1>2

(* The walk along such a chain comes to its end mark.                       *)
LEMMA WalkHome ==
  ASSUME NEW f \in Chains, NEW C, NEW h, NEW n, Line(f.next, C, h), Branded(f, C, h, n)
  PROVE  f.next[LastOf(f, h, h)] = EOF
<1> DEFINE next == f.next
           Left(c) == Cardinality(Reach(next, c))
<1>1. /\ C \subseteq Clusters /\ h \in C /\ h \in Clusters
      /\ \A c \in C : next[c] \in Clusters => next[c] \in C
      /\ \A c \in C : next[c] \in Clusters \cup {EOF}
      /\ \A c \in C : ~Endless(next, c)
  BY LineFacts
<1>2. PICK w \in [0 .. NumClusters -> Clusters] :
        /\ w[0] = h /\ w[NumClusters] = LastOf(f, h, h)
        /\ \A k \in 1 .. NumClusters : w[k] = Along(f, h)[w[k - 1]]
  <2>1. h \in Clusters
    BY <1>1
  <2> HIDE DEF next, Left
  <2>2. QED
    BY <2>1, LastSteps
<1>3. \A c \in C : Along(f, h)[c] = IF next[c] \in Clusters THEN next[c] ELSE c
  BY <1>1 DEF Along, Branded
<1>4. \A c : Left(c) \in Nat
  BY ReachType
<1>5. ASSUME NEW c \in C, next[c] \in Clusters PROVE Left(c) = Left(next[c]) + 1
  <2>1. c \notin Reach(next, next[c])
    BY <1>1, <1>5, Cycle
  <2>2. Reach(next, c) = Reach(next, next[c]) \cup {c}
    BY <1>1, <1>5, ReachUnfold
  <2>3. IsFiniteSet(Reach(next, next[c]))
    BY ReachType, ClustersFinite, FS_Subset
  <2>4. QED
    BY <2>1, <2>2, <2>3, FS_AddElement
<1> HIDE DEF Left
<1> DEFINE P == {k \in 0 .. NumClusters :
                   w[k] \in C /\ (next[w[k]] \in Clusters => Left(w[k]) + k <= NumClusters)}
<1>6. 0 \in P
  <2>1. Left(h) <= NumClusters
    <3>1. Cardinality(Clusters) < NumClusters
      BY FS_Interval, NumberFacts DEF Clusters
    <3>2. Left(h) <= Cardinality(Clusters)
      BY ReachType, ClustersFinite, FS_Subset DEF Left
    <3>3. QED
      BY <1>4, <3>1, <3>2, ClustersFinite, NumberFacts
  <2>2. QED
    BY <1>1, <1>2, <1>4, <2>1, NumberFacts
<1>7. ASSUME NEW k \in 0 .. NumClusters - 1, k \in P PROVE k + 1 \in P
  <2>1. k + 1 \in 1 .. NumClusters /\ k + 1 \in 0 .. NumClusters /\ (k + 1) - 1 = k
    BY NumberFacts
  <2>2. /\ w[k] \in C /\ w[k + 1] = Along(f, h)[w[k]]
        /\ next[w[k]] \in Clusters => Left(w[k]) + k <= NumClusters
    BY <1>2, <1>7, <2>1
  <2>3. CASE next[w[k]] \in Clusters
    <3>1. w[k + 1] = next[w[k]] /\ w[k + 1] \in C /\ Left(w[k]) = Left(w[k + 1]) + 1
      BY <1>1, <1>3, <1>5, <2>2, <2>3
    <3>2. Left(w[k + 1]) + (k + 1) <= NumClusters
      BY <1>4, <2>2, <2>3, <3>1, NumberFacts
    <3>3. QED
      BY <2>1, <3>1, <3>2
  <2>4. CASE next[w[k]] \notin Clusters
    <3>1. w[k + 1] = w[k]
      BY <1>3, <2>2, <2>4
    <3>2. QED
      BY <2>1, <2>2, <2>4, <3>1
  <2>5. QED
    BY <2>3, <2>4
<1>8. NumClusters \in P
  <2> HIDE DEF P
  <2>1. 0 .. NumClusters \subseteq P
    BY <1>6, <1>7, NumberFacts, Along0
  <2>2. QED
    BY <2>1, NumberFacts
<1>9. next[w[NumClusters]] \notin Clusters
  <2> DEFINE z == w[NumClusters]
  <2>1. z \in C /\ (next[z] \in Clusters => Left(z) + NumClusters <= NumClusters)
    BY <1>8
  <2> HIDE DEF z
  <2>2. ASSUME next[z] \in Clusters PROVE FALSE
    <3>1. Left(z) = Left(next[z]) + 1
      BY <1>5, <2>1, <2>2
    <3>2. QED
      BY <1>4, <2>1, <2>2, <3>1, NumberFacts
  <2>3. QED
    BY <2>2 DEF z
<1>10. QED
  BY <1>1, <1>2, <1>8, <1>9

(* The cluster behind which another file is cut is not on the chain.        *)
LEMMA CutAway ==
  ASSUME NEW next \in Table, NEW C, NEW h, C \subseteq Clusters, Apart(next, C, h),
         NEW p \in FatValue, p \notin C, NEW size \in Nat
  PROVE  CutAt(next, p, size) \notin C
<1> DEFINE step == [q \in FatValue |-> IF q \in Clusters THEN next[q] ELSE q]
           c[k \in 0 .. size] == IF k <= 1 THEN p ELSE step[c[k - 1]]
<1>1. step \in [FatValue -> FatValue] /\ \A q \in FatValue \ C : step[q] \notin C
  BY DEF Table, Apart
<1>2. CutAt(next, p, size) = c[size]
  BY DEF CutAt
<1> HIDE DEF step
<1>3. PICK v \in [0 .. size -> FatValue] : v[0] = p /\ \A k \in 1 .. size : v[k] = step[v[k - 1]]
  <2>1. Walks(FatValue, p, step, size) # {}
    BY <1>1, Iterate
  <2>2. QED
    BY <2>1 DEF Walks
<1> DEFINE g == [k \in 0 .. size |-> IF k = 0 THEN p ELSE v[k - 1]]
<1>4. g = [k \in 0 .. size |-> IF k <= 1 THEN p ELSE step[g[k - 1]]]
  <2>1. ASSUME NEW k \in 0 .. size PROVE g[k] = IF k <= 1 THEN p ELSE step[g[k - 1]]
    <3>1. CASE k <= 1
      <4>1. k = 0 \/ (k = 1 /\ k - 1 = 0)
        BY <3>1
      <4>2. QED
        BY <1>3, <3>1, <4>1
    <3>2. CASE ~(k <= 1)
      <4>1. k - 1 \in 1 .. size /\ k - 1 \in 0 .. size /\ k - 1 # 0 /\ (k - 1) - 1 \in 0 .. size
        BY <3>2
      <4>2. g[k] = v[k - 1] /\ g[k - 1] = v[(k - 1) - 1]
        BY <3>2, <4>1
      <4>3. v[k - 1] = step[v[(k - 1) - 1]]
        BY <1>3, <4>1
      <4>4. QED
        BY <3>2, <4>2, <4>3
    <3>3. QED
      BY <3>1, <3>2
  <2> HIDE DEF g
  <2>2. g = [k \in 0 .. size |-> g[k]]
    BY DEF g
  <2>3. QED
    BY <2>1, <2>2
<1>5. c = [k \in 0 .. size |-> IF k <= 1 THEN p ELSE step[c[k - 1]]]
  <2> HIDE DEF g
  <2>1. QED
    BY <1>4
<1> HIDE DEF c, g
<1> DEFINE S == {k \in 0 .. size : c[k] \in FatValue \ C}
<1>6. 0 \in S
  BY <1>5
<1>7. ASSUME NEW k \in 0 .. size - 1, k \in S PROVE k + 1 \in S
  <2>1. k + 1 \in 0 .. size /\ (k + 1) - 1 = k
    OBVIOUS
  <2>2. c[k + 1] = IF k + 1 <= 1 THEN p ELSE step[c[k]]
    BY <1>5, <2>1
  <2>3. QED
    BY <1>1, <1>7, <2>1, <2>2
<1>8. size \in S
  <2> HIDE DEF S
  <2>1. 0 .. size \subseteq S
    BY <1>6, <1>7, Along0
  <2>2. QED
    BY <2>1
<1>9. QED
  BY <1>2, <1>8

(* Cutting a chain behind a cluster outside.                                *)
LEMMA CutSpares ==
  ASSUME NEW f \in Chains, NEW C, NEW h \in Clusters, NEW n, C \subseteq Clusters,
         Branded(f, C, h, n), NEW p \in Clusters, p \notin C
  PROVE  Spares(f, [f EXCEPT !.next[p] = EOF], C, h)
BY DEF Spares, Branded, Chains, Table

(* The repairs of the FAT keep its type and spare what they do not own.     *)
LEMMA TryclearSpares ==
  ASSUME NEW f \in Chains, NEW C, NEW h \in Clusters, NEW n, C \subseteq Clusters, h \in C,
         Branded(f, C, h, n), NEW x, x # h, NEW p \in Clusters, p \notin C,
         NEW clear \in BOOLEAN, NEW trunc \in BOOLEAN
  PROVE  Spares(f, tryclear(f, x, p, clear, trunc).fat, C, h)
<1>1. Spares(f, clearchain(f, x), C, h)
  BY ClearSpares
<1>2. Spares(f, [f EXCEPT !.next[p] = EOF], C, h)
  BY CutSpares
<1>3. Spares(f, f, C, h)
  BY SparesSame
<1>4. QED
  BY <1>1, <1>2, <1>3 DEF tryclear

LEMMA ChecksizeSpares ==
  ASSUME NEW f \in Chains, NEW C, NEW h, NEW n, Line(f.next, C, h), Apart(f.next, C, h),
         Branded(f, C, h, n), NEW p \in Places \cup {OUT}, p \notin C, NEW size \in Nat,
         NEW yes \in BOOLEAN
  PROVE  Spares(f, checksize(f, p, size, yes).fat, C, h)
<1> DEFINE cl == CutAt(f.next, p, size)
           cleared == clearchain(f, f.next[cl])
           cut == [cleared EXCEPT !.next[cl] = EOF]
<1>1. C \subseteq Clusters /\ h \in C /\ h \in Clusters /\ f.next \in Table
  BY LineFacts DEF Chains
<1>2. Spares(f, f, C, h)
  BY <1>1, SparesSame
<1>3. ASSUME cl \in Clusters PROVE Spares(f, cut, C, h)
  <2>1. p \in FatValue
    BY ValueFacts DEF Places, FatValue
  <2>2. cl \notin C
    BY <1>1, <2>1, CutAway
  <2> HIDE DEF cl
  <2>3. f.next[cl] # h
    BY <1>3 DEF Apart
  <2>4. Spares(f, cleared, C, h) /\ cleared \in Chains
    BY <1>1, <2>3, ClearSpares, ClearchainType
  <2> HIDE DEF cleared
  <2>5. Branded(cleared, C, h, n)
    BY <2>4, SparesKeep
  <2>6. Spares(cleared, cut, C, h)
    BY <1>1, <1>3, <2>2, <2>4, <2>5, CutSpares
  <2> HIDE DEF cut
  <2>7. QED
    BY <2>4, <2>6, SparesTwice
<1> DEFINE physical == IF p = FREE THEN 0 ELSE f.length[p]
<1>4. p # OUT => physical \in Nat
  BY DEF Chains, Places
<1>5. ASSUME p = OUT \/ ~(physical > size) PROVE checksize(f, p, size, yes).fat = f
  <2> HIDE DEF cl, cut, cleared
  <2>1. CASE p = OUT
    BY <2>1 DEF checksize
  <2>2. CASE p # OUT /\ physical < size
    BY <1>4, <2>2 DEF checksize
  <2>3. CASE p # OUT /\ ~(physical < size) /\ ~(physical > size)
    BY <2>3 DEF checksize
  <2>4. QED
    BY <1>5, <2>1, <2>2, <2>3
<1>6. ASSUME p # OUT, physical > size
      PROVE  checksize(f, p, size, yes).fat = IF yes /\ cl \in Clusters THEN cut ELSE f
  BY <1>4, <1>6 DEF checksize
<1> HIDE DEF cl, cut, cleared, physical
<1>7. QED
  BY <1>2, <1>3, <1>5, <1>6

(* What the questions about the start of another file leave.                *)
LEMMA StartSpares ==
  ASSUME fat \in Chains, NEW C, NEW h, NEW n, Line(fat.next, C, h), Apart(fat.next, C, h),
         Branded(fat, C, h, n), NEW e \in Entry, e.start \notin C, NEW yes \in BOOLEAN
  PROVE  /\ Spares(fat, StartOfFile(e, yes).fat, C, h)
         /\ StartOfFile(e, yes).chain \notin C /\ StartOfFile(e, yes).start \notin C
         /\ fat.used \subseteq StartOfFile(e, yes).fat.used
<1> DEFINE empty == e.size = 0 /\ e.start # FREE
           bad == e.size # 0 /\ BadStart(e.start)
           first == IF empty /\ yes THEN FREE ELSE e.start
           cleared == IF empty /\ yes THEN clearchain(fat, e.start) ELSE fat
           after == [cleared EXCEPT !.used = @ \cup ({first} \cap Clusters)]
<1>1. C \subseteq Clusters /\ h \in C /\ h \in Clusters /\ FREE \notin C
  BY LineFacts DEF Line
<1>2. Spares(fat, cleared, C, h) /\ cleared \in Chains /\ cleared.used = fat.used
  <2>1. Spares(fat, clearchain(fat, e.start), C, h) /\ clearchain(fat, e.start) \in Chains
    BY <1>1, ClearSpares, ClearchainType
  <2>2. clearchain(fat, e.start).used = fat.used
    BY DEF clearchain, Chains
  <2>3. Spares(fat, fat, C, h)
    BY <1>1, SparesSame
  <2>4. QED
    BY <2>1, <2>2, <2>3
<1> HIDE DEF cleared
<1>3. /\ after.next = cleared.next /\ after.head = cleared.head /\ after.length = cleared.length
      /\ after.used = cleared.used \cup ({first} \cap Clusters)
  BY <1>2 DEF Chains
<1>4. first \notin C /\ (IF bad /\ yes THEN FREE ELSE first) \notin C
  BY <1>1
<1>5. /\ StartOfFile(e, yes).fat = after /\ StartOfFile(e, yes).chain = first
      /\ StartOfFile(e, yes).start = IF bad /\ yes THEN FREE ELSE first
  BY DEF StartOfFile, cleared
<1> HIDE DEF after, first, bad
<1>6. Spares(fat, after, C, h)
  <2>1. Branded(cleared, C, h, n)
    BY <1>2, SparesKeep
  <2>2. Spares(cleared, after, C, h)
    BY <1>1, <1>3, <2>1, SparesSame
  <2>3. QED
    BY <1>2, <2>2, SparesTwice
<1>7. QED
  BY <1>2, <1>3, <1>4, <1>5, <1>6

-----------------------------------------------------------------------------
(* File s of the root directory, with entry e and chain C, is guarded: its  *)
(* entry and its chain are on the card, ...                                 *)
GCard(s, e, C) ==
  /\ dirs[root][s] = e /\ e.kind = "file" /\ e.size > 0 /\ root \notin C
  /\ Line(fats[1].next, C, e.start) /\ Cardinality(C) = e.size
  /\ \A i \in 1 .. Copies : Alike(fats[i].next, fats[1].next, C)
(* ... no copy of the FAT leads into the chain, as long as they are read,   *)
GLoad(e, C) == phase = "load" => \A i \in 1 .. Copies : Apart(fats[i].next, C, e.start)
(* the FAT in memory holds it, until the last copy has been written,        *)
GFat(C) == (phase = "load" /\ at # 1)
             \/ phase \in {"mark", "chains", "dirs", "lost", "write", "dirty", "clean"}
           => Alike(fat.next, fats[1].next, C)
(* and leads into it from nowhere,                                          *)
GApart(e, C) == (phase = "load" /\ at # 1) \/ phase \in {"mark", "chains", "dirs", "lost"}
                => Apart(fat.next, C, e.start)
(* the chain is marked by its own head, with its length,                    *)
GMarks(e, C) == phase \in {"chains", "dirs", "lost"} => Branded(fat, C, e.start, e.size)
(* no other entry leads to it until lost chains are reconnected,            *)
GDirs(s, C) == phase \in {"load", "mark", "chains", "dirs"} =>
  \A p \in Places, t \in 1 .. Slots : dirs[p][t].start \in C => p = root /\ t = s
(* and neither does one in the buffer; the file is found in use before the  *)
(* root directory has been read,                                            *)
GWalk(s, e, C) == phase = "dirs" =>
  /\ \A t \in 1 .. Slots : buf[t].start \in C => dir.cl = root /\ t = s
  /\ dir.cl = root => buf[s] = e
  /\ dir.head \notin C /\ dir.up \notin C /\ dir.cl \notin C
  /\ dir.root => dir.head = root
  /\ e.start \in fat.used \/ (dir.cl = root /\ at <= s)
GTodo(C) == \A k \in 1 .. Len(todo) :
  todo[k].head \notin C /\ todo[k].up \notin C /\ todo[k].cl \notin C /\ ~todo[k].root
(* so that it is no lost chain, and LOST.DIR is another directory.          *)
GLost(s, e) ==
  /\ lost = FREE \/ lost # root
  /\ phase = "lost" => e.start \in fat.used
  /\ lf.cl = root /\ root # FREE => lf.buf[s] = e

Guarded(s, e, C) ==
  /\ GCard(s, e, C) /\ GLoad(e, C) /\ GFat(C) /\ GApart(e, C) /\ GMarks(e, C)
  /\ GDirs(s, C) /\ GWalk(s, e, C) /\ GTodo(C) /\ GLost(s, e)

Fresh == phase = "idle" => lost = FREE /\ lf = NoLf /\ todo = <<>>
Kept == phase # "idle" => \A s \in kept : \E e, C : Guarded(s, e, C)

(* The chain is sound in every copy, and in memory where it is there.       *)
LEMMA GuardedFacts ==
  ASSUME NEW s, NEW e, NEW C, Guarded(s, e, C)
  PROVE  /\ C \subseteq Clusters /\ e.start \in C /\ e.start \in Clusters
         /\ FREE \notin C /\ OUT \notin C
         /\ \A i \in 1 .. Copies : Line(fats[i].next, C, e.start)
         /\ Alike(fat.next, fats[1].next, C) => Line(fat.next, C, e.start)
<1>1. Line(fats[1].next, C, e.start) /\ \A i \in 1 .. Copies : Alike(fats[i].next, fats[1].next, C)
  BY DEF Guarded, GCard
<1>2. \A i \in 1 .. Copies : Line(fats[i].next, C, e.start)
  BY <1>1, LineSame
<1>3. Alike(fat.next, fats[1].next, C) => Line(fat.next, C, e.start)
  BY <1>1, LineSame
<1>4. QED
  BY <1>1, <1>2, <1>3, LineFacts DEF Line

LEMMA GuardStart ==
  ASSUME Typed, Fresh, Start, NEW s, Innocent(s), phase' # "idle"
  PROVE  \E e, C : Guarded(s, e, C)'
<1> DEFINE e == dirs[root][s]
           C == Reach(fats[1].next, e.start)
<1>1. /\ phase = "idle" /\ phase' = "load" /\ at' = 1
      /\ UNCHANGED <<card, root, compare, memory, mishaps>>
  BY DEF Start
<1>2. /\ e.kind = "file" /\ e.start \in Clusters /\ e.size > 0
      /\ root \notin C
      /\ Cardinality(C) = e.size
      /\ \E c \in C : fats[1].next[c] = EOF
      /\ \A i \in 1 .. Copies :
           /\ \A c \in C : fats[i].next[c] = fats[1].next[c]
           /\ \A c \in Clusters : fats[i].next[c] \in C => c \in C /\ fats[i].next[c] # e.start
      /\ \A p \in Places, t \in 1 .. Slots : dirs[p][t].start \in C => p = root /\ t = s
  BY DEF Innocent
<1>3. Line(fats[1].next, C, e.start) /\ e.start \in C
  BY <1>2, LineFacts DEF Line
<1>4. \A i \in 1 .. Copies : Alike(fats[i].next, fats[1].next, C) /\ Apart(fats[i].next, C, e.start)
  BY <1>2, <1>3 DEF Alike, Apart
<1>5. lost = FREE /\ lf = NoLf /\ todo = <<>>
  BY <1>1 DEF Fresh
<1>6. \E x, D : x = e /\ D = C
  OBVIOUS
<1> HIDE DEF e, C
<1>7. PICK x, D : x = e /\ D = C
  BY <1>6
<1>8. /\ GCard(s, x, D)' /\ GLoad(x, D)' /\ GFat(D)' /\ GApart(x, D)' /\ GMarks(x, D)'
      /\ GDirs(s, D)' /\ GWalk(s, x, D)'
  BY <1>1, <1>2, <1>3, <1>4, <1>7 DEF GCard, GLoad, GFat, GApart, GMarks, GDirs, GWalk, card, e
<1>9. GTodo(D)' /\ GLost(s, x)'
  BY <1>1, <1>5 DEF GTodo, GLost, memory, NoLf
<1>10. QED
  BY <1>8, <1>9 DEF Guarded

LEMMA GuardLoad ==
  ASSUME Typed, Load, NEW s, NEW e, NEW C, Guarded(s, e, C)
  PROVE  Guarded(s, e, C)'
<1>1. /\ at \in 1 .. Copies /\ fat \in Chains /\ phase = "load"
      /\ \A c \in Clusters : fat.next[c] \in FatValue /\ fats[at].next[c] \in FatValue
  BY TypedPieces DEF Load, InCopies, Pieces, Chains, Copy, Table
<1>2. PICK cut \in SUBSET Odd, fix \in Answers :
        \E pick \in [Differing(readfat(at, cut)) -> Picks] :
             /\ fat' = [fat EXCEPT !.next = Compared(readfat(at, cut), pick)]
  BY LoadStep
<1>3. PICK pick \in [Differing(readfat(at, cut)) -> Picks] :
             /\ fat' = [fat EXCEPT !.next = Compared(readfat(at, cut), pick)]
  BY <1>2
<1>4. /\ UNCHANGED <<card, boot, dir, buf, tree, todo, lost, lf, sig, exit, mishaps, kept>>
      /\ phase' \in {"out", "load", "mark"}
  BY DEF Load
<1>5. /\ C \subseteq Clusters /\ FREE \notin C /\ OUT \notin C /\ e.start \in Clusters
      /\ Line(fats[at].next, C, e.start) /\ Apart(fats[at].next, C, e.start)
      /\ Alike(fats[at].next, fats[1].next, C)
      /\ at # 1 => Alike(fat.next, fats[1].next, C) /\ Apart(fat.next, C, e.start)
  BY <1>1, GuardedFacts DEF Guarded, GCard, GLoad, GFat, GApart
<1> DEFINE v == readfat(at, cut)
<1>6. \A c \in C : v[c] = fats[1].next[c]
  <2>1. \A c \in C : fats[at].next[c] \notin {OUT, RSRVD}
    BY <1>5, LineFacts, EndMark
  <2>2. QED
    BY <1>5, <2>1 DEF readfat, Odd, Alike
<1>7. Apart(v, C, e.start)
  <2>1. EOF \notin C /\ EOF # e.start
    BY <1>5, ValueFacts
  <2>2. \A c \in Clusters : v[c] \in {EOF, fats[at].next[c]} /\ (c \in C => v[c] = fats[at].next[c])
    BY <1>5, <1>6 DEF readfat, Alike
  <2>3. QED
    BY <1>5, <2>1, <2>2 DEF Apart
<1> HIDE DEF v
<1>8. fat'.next = Compared(v, pick)
  BY <1>1, <1>3 DEF Chains, v
<1>9. \A c \in Clusters : /\ fat'.next[c] \in IF at = 1 THEN {v[c]} ELSE {fat.next[c], v[c]}
                          /\ at # 1 /\ v[c] = fat.next[c] => fat'.next[c] = v[c]
  BY <1>8 DEF Compared, Differing, Settled
<1>10. Alike(fat'.next, fats[1].next, C)
  BY <1>5, <1>6, <1>9 DEF Alike
<1>11. Apart(fat'.next, C, e.start)
  <2>1. ASSUME NEW c \in Clusters PROVE (c \notin C => fat'.next[c] \notin C) /\ fat'.next[c] # e.start
    BY <1>5, <1>7, <1>9 DEF Apart
  <2>2. QED
    BY <2>1 DEF Apart
<1>12. GCard(s, e, C)' /\ GLoad(e, C)' /\ GFat(C)' /\ GApart(e, C)' /\ GMarks(e, C)'
  <2>1. UNCHANGED <<fats, dirs, root>>
    BY <1>4 DEF card, boot
  <2>2. GCard(s, e, C) /\ GLoad(e, C)
    BY DEF Guarded
  <2>3. QED
    BY <1>1, <1>4, <1>10, <1>11, <2>1, <2>2 DEF GCard, GLoad, GFat, GApart, GMarks
<1>13. GDirs(s, C)' /\ GWalk(s, e, C)' /\ GTodo(C)' /\ GLost(s, e)'
  <2>1. GDirs(s, C) /\ GTodo(C) /\ GLost(s, e)
    BY DEF Guarded
  <2>2. QED
    BY <1>1, <1>4, <2>1 DEF GDirs, GWalk, GTodo, GLost, card, boot
<1>14. QED
  BY <1>12, <1>13 DEF Guarded

(* They give a chain that nothing else leads into to its own head.          *)
LEMMA MarkedLine ==
  ASSUME NEW f, Marked(f), NEW C, NEW h, Line(f.next, C, h), Apart(f.next, C, h)
  PROVE  Branded(f, C, h, Cardinality(C))
<1> DEFINE next == f.next
           inuse == {c \in Clusters : next[c] \notin {FREE, BAD}}
<1>1. /\ C \subseteq Clusters /\ h \in C /\ h \in Clusters /\ C = Reach(next, h)
      /\ \A c \in C : next[c] \in Clusters \cup {EOF}
      /\ ~Endless(next, h)
  BY LineFacts DEF Line
<1>2. Starts(next) = {x \in inuse : \A g \in inuse : g < x => x \notin Reach(next, g)}
  BY DEF Starts
<1>3. C \subseteq inuse
  BY <1>1, EndMark
<1>4. h \in Starts(next)
  <2>1. ASSUME NEW g \in inuse, g < h, h \in Reach(next, g) PROVE FALSE
    <3>1. h # g
      BY <1>1, <2>1, ValueFacts
    <3>2. \E d \in Reach(next, g) : next[d] = h
      BY <2>1, <3>1, ReachPred
    <3>3. QED
      BY <3>2, ReachType DEF Apart
  <2>2. QED
    BY <1>1, <1>2, <1>3, <2>1
<1>5. ASSUME NEW c \in C, NEW g \in Over(next, c) PROVE g <= h /\ g \in Clusters
  <2>1. g \in Starts(next) /\ c \in Reach(next, g)
    BY DEF Over
  <2>2. g \in C
    BY <2>1, ReachAway
  <2>3. ~(h < g)
    BY <1>1, <1>2, <1>3, <2>1, <2>2
  <2>4. g \in Nat /\ h \in Nat
    BY <1>1, <2>2, ValueFacts
  <2>5. QED
    BY <1>1, <2>2, <2>3, <2>4
<1>6. ASSUME NEW c \in C PROVE f.head[c] = h
  <2>1. h \in Over(next, c)
    BY <1>1, <1>4 DEF Over
  <2>2. f.head[c] \in Over(next, c) /\ h <= f.head[c]
    BY <1>1, <2>1 DEF Marked
  <2>3. f.head[c] <= h /\ f.head[c] \in Nat /\ h \in Nat
    BY <1>1, <1>5, <2>2, ValueFacts
  <2>4. QED
    BY <2>2, <2>3
<1>7. ASSUME NEW c \in Clusters, c \notin C PROVE f.head[c] # h
  <2>1. h \notin Over(next, c)
    BY <1>1, <1>7 DEF Over
  <2>2. h # 0
    BY <1>1, ValueFacts
  <2>3. QED
    BY <1>7, <2>1, <2>2 DEF Marked
<1>8. f.length[h] = Cardinality(C)
  BY <1>1, <1>4 DEF Marked
<1>9. QED
  BY <1>6, <1>7, <1>8 DEF Branded

LEMMA GuardMark ==
  ASSUME Typed, MarkChains, NEW s, NEW e, NEW C, Guarded(s, e, C)
  PROVE  Guarded(s, e, C)'
<1>1. /\ phase = "mark" /\ phase' = "chains" /\ at' = 2
      /\ UNCHANGED <<card, boot, dir, buf, tree, todo, lost, lf, kept>>
  BY DEF MarkChains, GoOn
<1>2. /\ Alike(fat.next, fats[1].next, C) /\ Apart(fat.next, C, e.start)
      /\ Cardinality(C) = e.size
  BY <1>1 DEF Guarded, GFat, GApart, GCard
<1>3. Line(fat.next, C, e.start)
  BY <1>2, GuardedFacts
<1>4. Marked(fat') /\ fat'.next = fat.next
  BY MarksLeft
<1>5. Branded(fat', C, e.start, e.size)
  BY <1>2, <1>3, <1>4, MarkedLine
<1>6. GCard(s, e, C) /\ GDirs(s, C) /\ GTodo(C) /\ GLost(s, e)
  BY DEF Guarded
<1>7. UNCHANGED <<fats, dirs, root, todo, lost, lf>>
  BY <1>1 DEF card, boot
<1>8. GCard(s, e, C)' /\ GLoad(e, C)' /\ GFat(C)' /\ GApart(e, C)' /\ GMarks(e, C)'
  BY <1>1, <1>2, <1>4, <1>5, <1>6, <1>7 DEF GCard, GLoad, GFat, GApart, GMarks
<1>9. GDirs(s, C)' /\ GWalk(s, e, C)' /\ GTodo(C)' /\ GLost(s, e)'
  BY <1>1, <1>6, <1>7 DEF GDirs, GWalk, GTodo, GLost
<1>10. QED
  BY <1>8, <1>9 DEF Guarded

(* A step that leaves the card alone and repairs chains elsewhere.          *)
LEMMA ChainsSpared ==
  ASSUME NEW s, NEW e, NEW C, Guarded(s, e, C), phase \in {"chains", "dirs", "lost"},
         phase' \in {"chains", "dirs", "lost", "spinning", "out"},
         UNCHANGED <<fats, root>>, Spares(fat, fat', C, e.start)
  PROVE  GLoad(e, C)' /\ GFat(C)' /\ GApart(e, C)' /\ GMarks(e, C)'
<1>1. /\ Alike(fat.next, fats[1].next, C) /\ Apart(fat.next, C, e.start)
      /\ Branded(fat, C, e.start, e.size)
  BY DEF Guarded, GFat, GApart, GMarks
<1>2. Line(fat.next, C, e.start)
  BY <1>1, GuardedFacts
<1>3. /\ Apart(fat'.next, C, e.start) /\ Branded(fat', C, e.start, e.size)
      /\ Alike(fat'.next, fat.next, C)
  BY <1>1, <1>2, SparesKeep
<1>4. Alike(fat'.next, fats'[1].next, C)
  BY <1>1, <1>3 DEF Alike
<1>5. QED
  BY <1>3, <1>4 DEF GLoad, GFat, GApart, GMarks

(* No question of pass 2 is about the chain itself.                         *)
LEMMA OtherChain ==
  ASSUME Typed, phase = "chains", NEW s, NEW e, NEW C, Guarded(s, e, C), NEW h \in Suspects
  PROVE  /\ fat \in Chains /\ h \in Clusters /\ h # e.start /\ h \notin C
         /\ LastOf(fat, h, h) \in Clusters /\ LastOf(fat, h, h) \notin C
         /\ Branded(fat, C, e.start, e.size) /\ Apart(fat.next, C, e.start)
         /\ e.start \in Clusters /\ C \subseteq Clusters /\ e.start \in C
<1>1. fat \in Chains
  BY TypedPieces DEF Pieces
<1>2. /\ h \in Clusters /\ fat.head[h] = h /\ fat.next[LastOf(fat, h, h)] # EOF
  BY DEF Suspects
<1>3. /\ Alike(fat.next, fats[1].next, C) /\ Apart(fat.next, C, e.start)
      /\ Branded(fat, C, e.start, e.size)
  BY DEF Guarded, GFat, GApart, GMarks
<1>4. h # e.start
  BY <1>1, <1>2, <1>3, GuardedFacts, WalkHome
<1>5. h \notin C
  BY <1>2, <1>3, <1>4 DEF Branded
<1>6. LastOf(fat, h, h) \in Clusters \ C
  BY <1>2, <1>3, <1>4, <1>5, LastAway
<1>7. QED
  BY <1>1, <1>2, <1>3, <1>4, <1>5, <1>6, GuardedFacts

LEMMA GuardBroken ==
  ASSUME Typed, BrokenChain, NEW s, NEW e, NEW C, Guarded(s, e, C)
  PROVE  Guarded(s, e, C)'
<1>1. PICK h \in Suspects, clear \in Answers, trunc \in Answers :
        /\ fat' = tryclear(fat, h, LastOf(fat, h, h), clear, trunc).fat
        /\ GoOn("chains", h + 1)
  BY DEF BrokenChain
<1>2. phase = "chains" /\ UNCHANGED <<card, boot, mishaps, kept>>
  BY DEF BrokenChain
<1>3. /\ fat \in Chains /\ h \in Clusters /\ h # e.start /\ h \notin C
      /\ LastOf(fat, h, h) \in Clusters /\ LastOf(fat, h, h) \notin C
      /\ Branded(fat, C, e.start, e.size)
      /\ e.start \in Clusters /\ C \subseteq Clusters /\ e.start \in C
  BY <1>2, OtherChain
<1>4. Spares(fat, fat', C, e.start)
  <2> DEFINE p == LastOf(fat, h, h)
  <2>1. p \in Clusters /\ p \notin C
    BY <1>3
  <2> HIDE DEF p
  <2>2. Spares(fat, tryclear(fat, h, p, clear, trunc).fat, C, e.start)
    BY <1>3, <2>1, AnswersType, TryclearSpares
  <2>3. QED
    BY <1>1, <2>2 DEF p
<1>5. UNCHANGED <<fats, dirs, root, dir, buf, todo, lost, lf>> /\ phase' = "chains"
  BY <1>1, <1>2 DEF GoOn, card, boot
<1>6. GLoad(e, C)' /\ GFat(C)' /\ GApart(e, C)' /\ GMarks(e, C)'
  BY <1>2, <1>4, <1>5, ChainsSpared
<1>7. GCard(s, e, C) /\ GDirs(s, C) /\ GTodo(C) /\ GLost(s, e)
  BY DEF Guarded
<1>8. GCard(s, e, C)' /\ GDirs(s, C)' /\ GWalk(s, e, C)' /\ GTodo(C)' /\ GLost(s, e)'
  BY <1>2, <1>5, <1>7 DEF GCard, GDirs, GWalk, GTodo, GLost
<1>9. QED
  BY <1>6, <1>8 DEF Guarded

LEMMA GuardCross ==
  ASSUME Typed, CrossLink, NEW s, NEW e, NEW C, Guarded(s, e, C)
  PROVE  Guarded(s, e, C)'
<1>1. PICK h \in Suspects, clear \in Answers, trunc \in Answers, other \in Answers :
        LET p == LastOf(fat, h, h)
            n == fat.next[p]
            r == tryclear(fat, h, p, clear, trunc)
            g == r.fat.head[n]
            part == Stretch(r.fat, n, g)
            moves == other /\ r.mod = {"ERROR"}
            taken == [r.fat EXCEPT !.head = [c \in Clusters |-> IF c \in part THEN h ELSE @[c]]]
        IN  /\ \A f \in Suspects : h <= f
            /\ n \in Clusters
            /\ mod' = mod \cup r.mod \cup (IF other THEN {"FATMOD"} ELSE {})
            /\ fat' = CASE moves -> clearchain(taken, g)
                        [] other /\ ~moves -> clearchain(r.fat, g)
                        [] OTHER -> r.fat
            /\ IF moves /\ g = h THEN GoOn("spinning", 0)
               ELSE IF moves /\ r.fat.next[LastOf(r.fat, n, g)] \in Clusters
               THEN GoOn("chains", h)
               ELSE GoOn("chains", h + 1)
  BY CrossLinkStep
<1> DEFINE p == LastOf(fat, h, h)
           n == fat.next[p]
           r == tryclear(fat, h, p, clear, trunc)
           g == r.fat.head[n]
           part == Stretch(r.fat, n, g)
           taken == [r.fat EXCEPT !.head = [c \in Clusters |-> IF c \in part THEN h ELSE @[c]]]
<1>2. n \in Clusters
  BY <1>1
<1>3. fat' \in {clearchain(taken, g), clearchain(r.fat, g), r.fat}
  BY <1>1
<1>4. phase' \in {"spinning", "chains"} /\ UNCHANGED <<dir, buf, tree, todo, lost, lf, sig, exit>>
  BY <1>1 DEF GoOn
<1>5. phase = "chains" /\ UNCHANGED <<card, boot, mishaps, kept>>
  BY DEF CrossLink
<1>6. /\ fat \in Chains /\ h \in Clusters /\ h # e.start /\ h \notin C
      /\ p \in Clusters /\ p \notin C
      /\ Branded(fat, C, e.start, e.size) /\ Apart(fat.next, C, e.start)
      /\ e.start \in Clusters /\ C \subseteq Clusters /\ e.start \in C
      /\ Line(fat.next, C, e.start)
  <2>1. Alike(fat.next, fats[1].next, C)
    BY <1>5 DEF Guarded, GFat
  <2>2. QED
    BY <1>5, <2>1, OtherChain, GuardedFacts
<1>7. n \notin C
  BY <1>6 DEF Apart
<1> HIDE DEF p
<1>8. Spares(fat, r.fat, C, e.start) /\ r.fat \in Chains
  BY <1>6, AnswersType, TryclearSpares, TryclearType
<1> HIDE DEF r, n
<1>9. Branded(r.fat, C, e.start, e.size)
  BY <1>6, <1>8, SparesKeep
<1>10. g # e.start
  BY <1>2, <1>7, <1>9 DEF Branded
<1> HIDE DEF g
<1>11. part \cap C = {}
  BY <1>7, <1>9, <1>10, StretchAway
<1> HIDE DEF part
<1>12. taken \in Chains /\ Spares(r.fat, taken, C, e.start)
  BY <1>6, <1>8, <1>9, <1>11 DEF Chains, Spares, Branded
<1> HIDE DEF taken
<1>13. Spares(fat, taken, C, e.start)
  BY <1>8, <1>12, SparesTwice
<1>14. Branded(taken, C, e.start, e.size)
  BY <1>6, <1>13, SparesKeep
<1>15. Spares(taken, clearchain(taken, g), C, e.start)
  BY <1>6, <1>10, <1>12, <1>14, ClearSpares
<1>16. Spares(r.fat, clearchain(r.fat, g), C, e.start)
  BY <1>6, <1>8, <1>9, <1>10, ClearSpares
<1>17. Spares(fat, clearchain(taken, g), C, e.start)
  BY <1>13, <1>15, SparesTwice
<1>18. Spares(fat, clearchain(r.fat, g), C, e.start)
  BY <1>8, <1>16, SparesTwice
<1>19. Spares(fat, fat', C, e.start)
  BY <1>3, <1>8, <1>17, <1>18
<1>20. UNCHANGED <<fats, dirs, root>>
  BY <1>5 DEF card, boot
<1>21. GLoad(e, C)' /\ GFat(C)' /\ GApart(e, C)' /\ GMarks(e, C)'
  BY <1>4, <1>5, <1>19, <1>20, ChainsSpared
<1>22. GCard(s, e, C) /\ GDirs(s, C) /\ GTodo(C) /\ GLost(s, e)
  BY DEF Guarded
<1>23. GCard(s, e, C)' /\ GDirs(s, C)' /\ GWalk(s, e, C)' /\ GTodo(C)' /\ GLost(s, e)'
  BY <1>4, <1>5, <1>20, <1>22 DEF GCard, GDirs, GWalk, GTodo, GLost
<1>24. QED
  BY <1>21, <1>23 DEF Guarded

LEMMA GuardRoot ==
  ASSUME Typed, OpenRoot, NEW s \in 1 .. Slots, NEW e, NEW C, Guarded(s, e, C)
  PROVE  Guarded(s, e, C)'
<1> DEFINE wrong == /\ root # FREE
                    /\ \/ fat.next[root] \in {FREE, RSRVD, BAD}
                       \/ fat.head[root] # root
           fatal(fix) == wrong /\ (fat.next[root] \notin {FREE, RSRVD, BAD} \/ ~fix)
<1>1. PICK fix \in Answers :
        fat' = [fat EXCEPT
                  !.next = [c \in Clusters |-> IF wrong /\ ~fatal(fix) /\ c = root THEN FREE ELSE @[c]],
                  !.used = @ \cup ({root} \ {FREE})]
  BY DEF OpenRoot
<1> HIDE DEF wrong, fatal
<1>2. /\ phase = "chains" /\ phase' \in {"out", "dirs"} /\ at' = 1
      /\ dir' = [root |-> TRUE, head |-> root, up |-> FREE, cl |-> root]
      /\ buf' = dirs[root]
      /\ UNCHANGED <<card, boot, tree, todo, lost, lf, sig, exit, mishaps, kept>>
  BY DEF OpenRoot
<1>3. fat \in Chains /\ root \in Places
  BY TypedPieces DEF Pieces
<1>4. /\ fat'.next = [c \in Clusters |-> IF wrong /\ ~fatal(fix) /\ c = root THEN FREE ELSE fat.next[c]]
      /\ fat'.head = fat.head /\ fat'.length = fat.length
  BY <1>1, <1>3 DEF Chains
<1>5. GCard(s, e, C) /\ GDirs(s, C) /\ GTodo(C) /\ GLost(s, e) /\ GMarks(e, C)
  BY DEF Guarded
<1>6. root \notin C /\ FREE \notin C /\ Branded(fat, C, e.start, e.size) /\ C \subseteq Clusters
  BY <1>2, <1>5, GuardedFacts DEF GCard, GMarks
<1>7. Spares(fat, fat', C, e.start)
  BY <1>4, <1>6 DEF Spares, Branded
<1>8. UNCHANGED <<fats, dirs, root>>
  BY <1>2 DEF card, boot
<1>9. GLoad(e, C)' /\ GFat(C)' /\ GApart(e, C)' /\ GMarks(e, C)'
  BY <1>2, <1>7, <1>8, ChainsSpared
<1>10. GCard(s, e, C)' /\ GDirs(s, C)' /\ GTodo(C)' /\ GLost(s, e)'
  BY <1>2, <1>5, <1>8 DEF GCard, GDirs, GTodo, GLost
<1>11. GWalk(s, e, C)'
  BY <1>2, <1>3, <1>5, <1>6, <1>8 DEF GWalk, GCard, GDirs
<1>12. QED
  BY <1>9, <1>10, <1>11 DEF Guarded

-----------------------------------------------------------------------------
(* One entry of a directory: another one keeps away from the chain, and the *)
(* entry of the file itself is found in order.                              *)
LEMMA GuardEntry ==
  ASSUME Typed, phase = "dirs", NEW s \in 1 .. Slots, NEW e, NEW C, Guarded(s, e, C),
         NEW t \in Later, IsNext(t),
         phase' \in {"dirs", "spinning"}, at' = t + 1,
         fats' = fats, dirs' = dirs, root' = root, dir' = dir, lf' = lf,
         \A u \in (1 .. Slots) \ {t} : buf'[u] = buf[u],
         Spares(fat, fat', C, e.start), fat.used \subseteq fat'.used,
         (dir.cl = root /\ t = s) => buf'[t] = e /\ e.start \in fat'.used,
         ~(dir.cl = root /\ t = s) => buf'[t].start \notin C,
         GTodo(C)', lost' = FREE \/ lost' # root
  PROVE  Guarded(s, e, C)'
<1>1. buf \in Buffer /\ t \in 1 .. Slots /\ at \in Nat /\ 1 <= at
  BY TypedPieces DEF Pieces, Later, InCopies
<1>2. UNCHANGED <<fats, dirs, root>>
  OBVIOUS
<1>3. GLoad(e, C)' /\ GFat(C)' /\ GApart(e, C)' /\ GMarks(e, C)'
  BY <1>2, ChainsSpared
<1>4. GCard(s, e, C) /\ GDirs(s, C) /\ GWalk(s, e, C) /\ GLost(s, e)
  BY DEF Guarded
<1>5. GCard(s, e, C)' /\ GDirs(s, C)' /\ GLost(s, e)'
  BY <1>2, <1>4 DEF GCard, GDirs, GLost
<1>6. \A u \in 1 .. Slots : u = t \/ buf'[u] = buf[u]
  OBVIOUS
<1>7. ASSUME dir.cl = root, at <= s PROVE t = s \/ t + 1 <= s
  <2>1. s \in Later
    BY <1>1, <1>4, <1>7 DEF GWalk, GCard, Later
  <2>2. QED
    BY <1>1, <2>1 DEF IsNext
<1>8. GWalk(s, e, C)'
  BY <1>2, <1>4, <1>6, <1>7 DEF GWalk
<1>9. QED
  BY <1>3, <1>5, <1>8 DEF Guarded

(* What is known of the next entry.                                         *)
LEMMA EntryKnown ==
  ASSUME Typed, phase = "dirs", NEW s, NEW e, NEW C, Guarded(s, e, C), NEW t \in Later
  PROVE  /\ buf[t] \in Entry /\ buf \in Buffer /\ t \in 1 .. Slots /\ fat \in Chains
         /\ IF dir.cl = root /\ t = s THEN buf[t] = e ELSE buf[t].start \notin C
         /\ e.kind = "file" /\ e.size > 0
         /\ Line(fat.next, C, e.start) /\ Apart(fat.next, C, e.start)
         /\ Branded(fat, C, e.start, e.size)
<1>1. buf[t] \in Entry /\ buf \in Buffer /\ t \in 1 .. Slots /\ fat \in Chains
  BY TypedPieces DEF Pieces, Later, InCopies, Buffer
<1>2. GCard(s, e, C) /\ GWalk(s, e, C) /\ GFat(C) /\ GApart(e, C) /\ GMarks(e, C)
  BY DEF Guarded
<1>3. Line(fat.next, C, e.start)
  BY <1>2, GuardedFacts DEF GFat
<1>4. QED
  BY <1>1, <1>2, <1>3 DEF GCard, GWalk, GApart, GMarks

LEMMA ClearchainUsed == ASSUME NEW f \in Chains, NEW x PROVE clearchain(f, x).used = f.used
BY DEF clearchain, Chains

LEMMA ChecksizeUsed ==
  ASSUME NEW f \in Chains, NEW p \in Places \cup {OUT}, NEW size \in Nat, NEW yes \in BOOLEAN
  PROVE  checksize(f, p, size, yes).fat.used = f.used
<1> DEFINE cl == CutAt(f.next, p, size)
           cleared == clearchain(f, f.next[cl])
           cut == [cleared EXCEPT !.next[cl] = EOF]
           physical == IF p = FREE THEN 0 ELSE f.length[p]
<1>1. p # OUT => physical \in Nat
  BY DEF Chains, Places
<1>2. cut.used = f.used
  <2>1. cleared \in Chains /\ cleared.used = f.used
    BY ClearchainType, ClearchainUsed
  <2> HIDE DEF cleared, cl
  <2>2. QED
    BY <2>1 DEF Chains
<1>3. CASE p = OUT
  BY <1>3 DEF checksize
<1>4. CASE p # OUT /\ physical < size
  BY <1>1, <1>4 DEF checksize
<1>5. CASE p # OUT /\ physical > size
  <2>1. checksize(f, p, size, yes).fat = IF yes /\ cl \in Clusters THEN cut ELSE f
    BY <1>1, <1>5 DEF checksize
  <2> HIDE DEF cut, cl
  <2>2. QED
    BY <1>2, <2>1
<1>6. CASE p # OUT /\ ~(physical < size) /\ ~(physical > size)
  BY <1>6 DEF checksize
<1>7. QED
  BY <1>3, <1>4, <1>5, <1>6

(* An entry with another size and start.                                    *)
LEMMA EntrySet ==
  ASSUME NEW y \in Entry, NEW a \in Nat, NEW b \in Places \cup {OUT}
  PROVE  [[y EXCEPT !.size = a] EXCEPT !.start = b] = [kind |-> y.kind, start |-> b, size |-> a]
<1> DEFINE z == [y EXCEPT !.size = a]
<1>1. z = [kind |-> y.kind, start |-> y.start, size |-> a]
  BY DEF Entry
<1> HIDE DEF z
<1>2. [z EXCEPT !.start = b] = [kind |-> y.kind, start |-> b, size |-> a]
  BY <1>1
<1>3. QED
  BY <1>2 DEF z

LEMMA GuardFile ==
  ASSUME Typed, ReadFile, phase' # "idle", NEW s \in 1 .. Slots, NEW e, NEW C, Guarded(s, e, C)
  PROVE  Guarded(s, e, C)'
<1> DEFINE q(t, first) == StartOfFile(buf[t], first)
           r(t, first, second) == checksize(q(t, first).fat, q(t, first).chain,
                                            q(t, first).size, second)
<1>1. PICK t \in Later, first \in Answers, second \in Answers :
        /\ IsNext(t)
        /\ \/ Ends("killed") /\ mod' = {}
           \/ /\ fat' = r(t, first, second).fat
              /\ buf' = [buf EXCEPT ![t].size = r(t, first, second).size,
                                    ![t].start = q(t, first).start]
              /\ tree' = tree \cup q(t, first).mod \cup r(t, first, second).mod
              /\ at' = t + 1
              /\ UNCHANGED <<mod, phase, dir, todo, lost, lf, sig, exit>>
  BY DEF ReadFile
<1>2. ~Ends("killed")
  BY DEF Ends
<1>3. phase = "dirs" /\ UNCHANGED <<card, boot, mishaps, kept>>
  BY DEF ReadFile
<1>4. first \in BOOLEAN /\ second \in BOOLEAN
  BY AnswersType
<1>5. /\ buf[t] \in Entry /\ buf \in Buffer /\ t \in 1 .. Slots /\ fat \in Chains
      /\ IF dir.cl = root /\ t = s THEN buf[t] = e ELSE buf[t].start \notin C
      /\ e.kind = "file" /\ e.size > 0
      /\ Line(fat.next, C, e.start) /\ Apart(fat.next, C, e.start)
      /\ Branded(fat, C, e.start, e.size)
  BY <1>3, EntryKnown
<1>6. /\ q(t, first).fat \in Chains /\ q(t, first).chain \in Places \cup {OUT}
      /\ q(t, first).start \in Places \cup {OUT} /\ q(t, first).size \in Nat
  BY <1>4, <1>5, StartOfFileType
<1> DEFINE x == [kind |-> buf[t].kind, start |-> q(t, first).start,
                 size |-> r(t, first, second).size]
<1>7. /\ \A u \in (1 .. Slots) \ {t} : buf'[u] = buf[u]
      /\ buf'[t] = x /\ x.start = q(t, first).start
  <2> HIDE DEF q
  <2>0. r(t, first, second).size \in Nat
    BY <1>4, <1>6, ChecksizeType
  <2> HIDE DEF r
  <2>1. [[buf[t] EXCEPT !.size = r(t, first, second).size] EXCEPT !.start = q(t, first).start] = x
    BY <1>5, <1>6, <2>0, EntrySet
  <2>2. QED
    BY <1>1, <1>2, <1>5, <2>1 DEF Buffer
<1>8. GTodo(C)' /\ (lost' = FREE \/ lost' # root)
  <2>1. GTodo(C) /\ GLost(s, e)
    BY DEF Guarded
  <2>2. QED
    BY <1>1, <1>2, <2>1 DEF GTodo, GLost
<1>9. /\ fats' = fats /\ dirs' = dirs /\ root' = root /\ dir' = dir /\ lf' = lf
      /\ phase' \in {"dirs", "spinning"} /\ at' = t + 1 /\ fat' = r(t, first, second).fat
  BY <1>1, <1>2, <1>3 DEF boot, card
<1>10. fat'.used = q(t, first).fat.used
  <2> HIDE DEF q
  <2>1. QED
    BY <1>4, <1>6, <1>9, ChecksizeUsed
<1>11. CASE dir.cl = root /\ t = s
  <2>1. /\ buf[t] = e /\ e.size # 0 /\ e.start \in Clusters /\ e.size \in Nat
        /\ fat.next[e.start] \in Clusters \cup {EOF} /\ fat.head[e.start] = e.start
    BY <1>5, <1>11, LineFacts DEF Branded, Entry
  <2>2. ~BadStart(e.start)
    BY <2>1, EndMark DEF BadStart
  <2> DEFINE f == [fat EXCEPT !.used = @ \cup ({e.start} \cap Clusters)]
  <2>3. q(t, first).fat = f /\ q(t, first).chain = e.start
        /\ q(t, first).start = e.start /\ q(t, first).size = e.size
    BY <2>1, <2>2 DEF StartOfFile
  <2>4. /\ f.next = fat.next /\ f.head = fat.head /\ f.length = fat.length
        /\ f.used = fat.used \cup {e.start}
    BY <1>5, <2>1 DEF Chains
  <2> HIDE DEF q, f
  <2>5. checksize(f, e.start, e.size, second).fat = f
        /\ checksize(f, e.start, e.size, second).size = e.size
    <3>1. e.start # OUT /\ e.start # FREE /\ f.length[e.start] = e.size
      BY <1>5, <2>1, <2>4, ValueFacts DEF Branded
    <3>2. ~(e.size < e.size) /\ ~(e.size > e.size)
      BY <2>1
    <3>3. QED
      BY <3>1, <3>2 DEF checksize
  <2>6. fat' = f /\ r(t, first, second).size = e.size
    BY <1>9, <2>3, <2>5
  <2>7. buf'[t] = e
    BY <1>7, <1>5, <2>1, <2>3, <2>6 DEF Entry
  <2>8. Spares(fat, fat', C, e.start)
    BY <1>5, <2>4, <2>6, GuardedFacts, SparesSame
  <2> HIDE DEF x
  <2>9. QED
    BY <1>1, <1>3, <1>7, <1>8, <1>9, <1>11, <2>4, <2>6, <2>7, <2>8, GuardEntry
<1>12. CASE ~(dir.cl = root /\ t = s)
  <2>1. buf[t].start \notin C
    BY <1>5, <1>12
  <2>2. /\ Spares(fat, q(t, first).fat, C, e.start)
        /\ q(t, first).chain \notin C /\ q(t, first).start \notin C
        /\ fat.used \subseteq q(t, first).fat.used
    BY <1>4, <1>5, <2>1, StartSpares
  <2> HIDE DEF q
  <2>3. /\ Line(q(t, first).fat.next, C, e.start) /\ Apart(q(t, first).fat.next, C, e.start)
        /\ Branded(q(t, first).fat, C, e.start, e.size)
    BY <1>5, <2>2, SparesKeep
  <2>4. Spares(q(t, first).fat, fat', C, e.start)
    BY <1>4, <1>6, <1>9, <2>2, <2>3, ChecksizeSpares
  <2>5. Spares(fat, fat', C, e.start)
    BY <2>2, <2>4, SparesTwice
  <2>6. buf'[t].start \notin C
    BY <1>7, <2>2
  <2> HIDE DEF x
  <2>7. QED
    BY <1>1, <1>3, <1>7, <1>8, <1>9, <1>10, <1>12, <2>2, <2>5, <2>6, GuardEntry
<1>13. QED
  BY <1>11, <1>12

LEMMA GuardBad ==
  ASSUME Typed, BadSubdir, NEW s \in 1 .. Slots, NEW e, NEW C, Guarded(s, e, C)
  PROVE  Guarded(s, e, C)'
<1>1. PICK t \in Later, remove \in Answers :
        /\ IsNext(t) /\ buf[t].kind # "file"
        /\ buf' = [buf EXCEPT ![t] = IF remove THEN NoEntry ELSE buf[t]]
        /\ at' = t + 1
  BY Zenon DEF BadSubdir
<1>2. /\ phase = "dirs"
      /\ UNCHANGED <<card, boot, mod, phase, fat, dir, todo, lost, lf, sig, exit, mishaps, kept>>
  BY DEF BadSubdir
<1>3. /\ fat \in Chains /\ Branded(fat, C, e.start, e.size) /\ buf \in Buffer /\ t \in 1 .. Slots
      /\ IF dir.cl = root /\ t = s THEN buf[t] = e ELSE buf[t].start \notin C
      /\ e.kind = "file"
  BY <1>2, EntryKnown
<1>4. ~(dir.cl = root /\ t = s) /\ buf[t].start \notin C
  BY <1>1, <1>3
<1>5. /\ \A u \in (1 .. Slots) \ {t} : buf'[u] = buf[u]
      /\ buf'[t].start \notin C
  <2>1. buf'[t] = IF remove THEN NoEntry ELSE buf[t]
    BY <1>1, <1>3 DEF Buffer
  <2>2. NoEntry.start \notin C
    BY GuardedFacts DEF NoEntry
  <2>3. QED
    BY <1>1, <1>3, <1>4, <2>1, <2>2 DEF Buffer
<1>6. Spares(fat, fat', C, e.start) /\ fat.used \subseteq fat'.used
  BY <1>2, <1>3, GuardedFacts, SparesSame
<1>7. GTodo(C)' /\ (lost' = FREE \/ lost' # root)
  <2>1. GTodo(C) /\ GLost(s, e)
    BY DEF Guarded
  <2>2. QED
    BY <1>2, <2>1 DEF GTodo, GLost
<1>8. /\ fats' = fats /\ dirs' = dirs /\ root' = root /\ dir' = dir /\ lf' = lf
      /\ phase' \in {"dirs", "spinning"}
  BY <1>2 DEF boot, card
<1>9. QED
  BY <1>1, <1>2, <1>4, <1>5, <1>6, <1>7, <1>8, GuardEntry

LEMMA GuardDots ==
  ASSUME Typed, ReadDots, NEW s \in 1 .. Slots, NEW e, NEW C, Guarded(s, e, C)
  PROVE  Guarded(s, e, C)'
<1> DEFINE want(y) == CASE y.kind = "dot" -> dir.head
                        [] y.kind = "dotdot" /\ ~dir.root -> dir.up
                        [] OTHER -> y.start
<1>1. PICK t \in Later, first \in Answers, second \in Answers :
        /\ IsNext(t) /\ buf[t].kind \in {"dot", "dotdot"}
        /\ fat' = [fat EXCEPT !.used = @ \cup ({buf[t].start} \cap Clusters)]
        /\ buf' = [buf EXCEPT ![t].size = IF first THEN 0 ELSE buf[t].size,
                              ![t].start = IF second THEN want(buf[t]) ELSE buf[t].start]
        /\ at' = t + 1
  BY ZenonT(40) DEF ReadDots
<1>2. /\ phase = "dirs"
      /\ UNCHANGED <<card, boot, mod, phase, dir, todo, lost, lf, sig, exit, mishaps, kept>>
  BY DEF ReadDots
<1>3. /\ fat \in Chains /\ Branded(fat, C, e.start, e.size) /\ buf \in Buffer /\ buf[t] \in Entry
      /\ t \in 1 .. Slots
      /\ IF dir.cl = root /\ t = s THEN buf[t] = e ELSE buf[t].start \notin C
      /\ e.kind = "file"
  BY <1>2, EntryKnown
<1>4. ~(dir.cl = root /\ t = s) /\ buf[t].start \notin C
  BY <1>1, <1>3
<1>5. want(buf[t]) \notin C
  <2>1. dir.head \notin C /\ dir.up \notin C
    BY <1>2 DEF Guarded, GWalk
  <2>2. QED
    BY <1>4, <2>1
<1>11. want(buf[t]) \in Places \cup {OUT}
  <2>1. dir \in Directory
    BY TypedPieces DEF Pieces
  <2>2. QED
    BY <1>3, <2>1 DEF Entry, Directory
<1> HIDE DEF want
<1> DEFINE a == IF first THEN 0 ELSE buf[t].size
           b == IF second THEN want(buf[t]) ELSE buf[t].start
           x == [kind |-> buf[t].kind, start |-> b, size |-> a]
<1>6. (\A u \in (1 .. Slots) \ {t} : buf'[u] = buf[u]) /\ buf'[t].start \notin C
  <2>1. a \in Nat /\ b \in Places \cup {OUT} /\ b \notin C
    BY <1>3, <1>4, <1>5, <1>11 DEF Entry
  <2>2. buf' = [buf EXCEPT ![t].size = a, ![t].start = b]
    BY <1>1
  <2> HIDE DEF a, b
  <2>3. [[buf[t] EXCEPT !.size = a] EXCEPT !.start = b] = x
    BY <1>3, <2>1, EntrySet
  <2>4. buf' = [buf EXCEPT ![t] = x]
    BY <1>3, <2>2, <2>3 DEF Buffer
  <2>5. QED
    BY <1>3, <2>1, <2>4 DEF Buffer
<1>7. Spares(fat, fat', C, e.start) /\ fat.used \subseteq fat'.used
  <2>1. /\ fat'.next = fat.next /\ fat'.head = fat.head /\ fat'.length = fat.length
        /\ fat.used \subseteq fat'.used
    BY <1>1, <1>3 DEF Chains
  <2>2. QED
    BY <1>3, <2>1, GuardedFacts, SparesSame
<1>8. GTodo(C)' /\ (lost' = FREE \/ lost' # root)
  <2>1. GTodo(C) /\ GLost(s, e)
    BY DEF Guarded
  <2>2. QED
    BY <1>2, <2>1 DEF GTodo, GLost
<1>9. /\ fats' = fats /\ dirs' = dirs /\ root' = root /\ dir' = dir /\ lf' = lf
      /\ phase' \in {"dirs", "spinning"}
  BY <1>2 DEF boot, card
<1> HIDE DEF x
<1>10. QED
  BY <1>1, <1>2, <1>4, <1>6, <1>7, <1>8, <1>9, GuardEntry

LEMMA GuardSubdir ==
  ASSUME Typed, ReadSubdir, NEW s \in 1 .. Slots, NEW e, NEW C, Guarded(s, e, C)
  PROVE  Guarded(s, e, C)'
<1> DEFINE bad(y) == y.start = dir.head \/ ~check_dot_dot(y.start)
           new(y) == [root |-> FALSE, head |-> y.start, cl |-> y.start,
                      up |-> IF dir.root THEN FREE ELSE dir.head]
<1>1. PICK t \in Later, first \in Answers, remove \in Answers :
        /\ IsNext(t) /\ buf[t].kind \in {"dir", "lost"}
        /\ fat' = [fat EXCEPT !.used = @ \cup {buf[t].start}]
        /\ buf' = [buf EXCEPT ![t] = IF bad(buf[t]) /\ remove THEN NoEntry
                        ELSE [buf[t] EXCEPT !.size = IF first THEN 0 ELSE @]]
        /\ todo' = IF bad(buf[t]) THEN todo ELSE <<new(buf[t])>> \o todo
        /\ lost' = IF ~bad(buf[t]) /\ buf[t].kind = "lost" /\ dir.root THEN buf[t].start ELSE lost
        /\ phase' \in {"spinning", phase}
        /\ at' = t + 1
  BY ZenonT(40) DEF ReadSubdir
<1>2. phase = "dirs" /\ UNCHANGED <<card, boot, mod, dir, lf, sig, exit, mishaps, kept>>
  BY DEF ReadSubdir
<1>3. /\ fat \in Chains /\ Branded(fat, C, e.start, e.size) /\ buf \in Buffer /\ buf[t] \in Entry
      /\ t \in 1 .. Slots
      /\ IF dir.cl = root /\ t = s THEN buf[t] = e ELSE buf[t].start \notin C
      /\ e.kind = "file"
  BY <1>2, EntryKnown
<1>4. ~(dir.cl = root /\ t = s) /\ buf[t].start \notin C
  BY <1>1, <1>3
<1>5. GWalk(s, e, C) /\ GTodo(C) /\ GLost(s, e) /\ FREE \notin C
  BY GuardedFacts DEF Guarded
<1>6. lost' = FREE \/ lost' # root
  <2>1. ~bad(buf[t]) => buf[t].start # dir.head
    OBVIOUS
  <2>2. dir.root => dir.head = root
    BY <1>2, <1>5 DEF GWalk
  <2> HIDE DEF bad
  <2>3. QED
    BY <1>1, <1>5, <2>1, <2>2 DEF GLost
<1>7. GTodo(C)'
  <2>1. /\ new(buf[t]).head \notin C /\ new(buf[t]).up \notin C /\ new(buf[t]).cl \notin C
        /\ ~new(buf[t]).root
    BY <1>2, <1>4, <1>5 DEF GWalk
  <2>2. todo \in Seq(Directory)
    BY TypedPieces DEF Pieces
  <2> HIDE DEF new, bad
  <2>3. CASE bad(buf[t])
    BY <1>1, <1>5, <2>3 DEF GTodo
  <2>4. CASE ~bad(buf[t])
    <3>1. todo' = <<new(buf[t])>> \o todo
      BY <1>1, <2>4
    <3>2. ASSUME NEW k \in 1 .. Len(todo') PROVE todo'[k] = new(buf[t]) \/ \E j \in 1 .. Len(todo) : todo'[k] = todo[j]
      <4>1. Len(todo') = Len(todo) + 1
        BY <2>2, <3>1
      <4>2. CASE k = 1
        BY <2>2, <3>1, <4>2
      <4>3. CASE k # 1
        <5>1. k - 1 \in 1 .. Len(todo) /\ todo'[k] = todo[k - 1]
          BY <2>2, <3>1, <4>1, <4>3
        <5>2. QED
          BY <5>1
      <4>4. QED
        BY <4>2, <4>3
    <3>3. QED
      BY <1>5, <2>1, <3>2 DEF GTodo
  <2>5. QED
    BY <2>3, <2>4
<1>8. (\A u \in (1 .. Slots) \ {t} : buf'[u] = buf[u]) /\ buf'[t].start \notin C
  <2> DEFINE x == IF bad(buf[t]) /\ remove THEN NoEntry
                  ELSE [buf[t] EXCEPT !.size = IF first THEN 0 ELSE @]
  <2>1. x.start \in {FREE, buf[t].start}
    BY <1>3 DEF NoEntry, Entry
  <2>2. buf' = [buf EXCEPT ![t] = x]
    BY <1>1
  <2> HIDE DEF x
  <2>3. QED
    BY <1>3, <1>4, <1>5, <2>1, <2>2 DEF Buffer
<1>9. Spares(fat, fat', C, e.start) /\ fat.used \subseteq fat'.used
  <2>1. /\ fat'.next = fat.next /\ fat'.head = fat.head /\ fat'.length = fat.length
        /\ fat.used \subseteq fat'.used
    BY <1>1, <1>3 DEF Chains
  <2>2. QED
    BY <1>3, <2>1, GuardedFacts, SparesSame
<1>10. /\ fats' = fats /\ dirs' = dirs /\ root' = root /\ dir' = dir /\ lf' = lf
       /\ phase' \in {"dirs", "spinning"} /\ at' = t + 1
  BY <1>1, <1>2 DEF boot, card
<1> HIDE DEF bad, new
<1>11. QED
  BY <1>1, <1>2, <1>4, <1>6, <1>7, <1>8, <1>9, <1>10, GuardEntry

(* The directory cluster that is written keeps the entry, if it holds it.   *)
LEMMA GuardEnd ==
  ASSUME Typed, EndCluster, NEW s \in 1 .. Slots, NEW e, NEW C, Guarded(s, e, C)
  PROVE  Guarded(s, e, C)'
<1> DEFINE next == IF dir.cl = FREE THEN FREE ELSE fat.next[dir.cl]
           there == IF next \in Clusters THEN [dir EXCEPT !.cl = next]
                    ELSE IF todo # <<>> THEN Head(todo) ELSE NoDir
           over == next \notin Clusters /\ todo = <<>>
<1>1. /\ phase = "dirs" /\ Later = {} /\ UNCHANGED <<fats, boot, fat, lost, lf, sig, exit, mishaps, kept>>
      /\ dirs' = IF "THIS" \in tree THEN [dirs EXCEPT ![dir.cl] = buf] ELSE dirs
      /\ dir' = there
      /\ buf' = IF over THEN NoBuf ELSE dirs'[there.cl]
      /\ todo' = IF next \in Clusters \/ over THEN todo ELSE Tail(todo)
      /\ phase' \in {IF over THEN "lost" ELSE "dirs", "spinning"}
      /\ at' = IF over THEN 2 ELSE 1
  BY DEF EndCluster
<1>2. /\ dir \in Directory /\ dir.cl \in Places /\ root \in Places /\ todo \in Seq(Directory)
      /\ at \in Nat /\ 1 <= at /\ dirs \in [Places -> Buffer] /\ fat \in Chains
  BY <1>1, TypedPieces DEF Pieces, Directory, InCopies
<1>3. /\ GCard(s, e, C) /\ GFat(C) /\ GApart(e, C) /\ GMarks(e, C) /\ GDirs(s, C)
      /\ GWalk(s, e, C) /\ GTodo(C) /\ GLost(s, e)
  BY DEF Guarded
<1>4. e.start \in fat.used
  <2>1. ASSUME dir.cl = root, at <= s PROVE FALSE
    <3>1. buf[s].kind = "file" /\ s \in at .. Slots
      BY <1>1, <1>2, <1>3, <2>1 DEF GWalk, GCard
    <3>2. s \in Later
      BY <3>1 DEF Later
    <3>3. QED
      BY <1>1, <3>2
  <2>2. QED
    BY <1>1, <1>3, <2>1 DEF GWalk
<1>5. \A p \in Places : dirs'[p] = dirs[p] \/ (p = dir.cl /\ dirs'[p] = buf)
  BY <1>1, <1>2
<1>6. dirs'[root][s] = e
  BY <1>1, <1>2, <1>3, <1>5 DEF GCard, GWalk
<1>7. \A p \in Places, t \in 1 .. Slots : dirs'[p][t].start \in C => p = root /\ t = s
  BY <1>1, <1>2, <1>3, <1>5 DEF GDirs, GWalk
<1>8. UNCHANGED <<fats, root, fat, lost, lf>>
  BY <1>1 DEF boot
<1>9. GCard(s, e, C)' /\ GDirs(s, C)' /\ GLost(s, e)'
  BY <1>3, <1>4, <1>6, <1>7, <1>8 DEF GCard, GDirs, GLost
<1>10. GLoad(e, C)' /\ GFat(C)' /\ GApart(e, C)' /\ GMarks(e, C)'
  BY <1>1, <1>3, <1>8 DEF GLoad, GFat, GApart, GMarks
<1>11. /\ dir.head \notin C /\ dir.up \notin C /\ dir.cl \notin C /\ FREE \notin C
       /\ dir.root => dir.head = root
  BY <1>1, <1>3, GuardedFacts DEF GWalk
<1>12. CASE next \in Clusters
  <2>1. dir.cl \in Clusters /\ next = fat.next[dir.cl]
    BY <1>2, <1>12, ValueFacts DEF Places
  <2>2. next \notin C /\ next \in Places
    BY <1>1, <1>3, <1>11, <1>12, <2>1, ValueFacts DEF GApart, Apart
  <2>3. /\ dir'.head = dir.head /\ dir'.up = dir.up /\ dir'.root = dir.root /\ dir'.cl = next
        /\ buf' = dirs'[next] /\ todo' = todo
    BY <1>1, <1>2, <1>12 DEF Directory
  <2> HIDE DEF next, there, over
  <2>4. GTodo(C)'
    BY <1>3, <2>3 DEF GTodo
  <2>5. GWalk(s, e, C)'
    BY <1>4, <1>6, <1>7, <1>8, <1>11, <2>2, <2>3 DEF GWalk
  <2>6. QED
    BY <1>9, <1>10, <2>4, <2>5 DEF Guarded
<1>13. CASE next \notin Clusters /\ todo # <<>>
  <2>1. /\ dir' = Head(todo) /\ buf' = dirs'[Head(todo).cl] /\ todo' = Tail(todo)
    BY <1>1, <1>13
  <2>2. /\ Head(todo) = todo[1] /\ 1 \in 1 .. Len(todo) /\ todo[1] \in Directory
        /\ \A k \in 1 .. Len(Tail(todo)) : k + 1 \in 1 .. Len(todo) /\ Tail(todo)[k] = todo[k + 1]
    BY <1>2, <1>13
  <2>3. /\ dir'.head \notin C /\ dir'.up \notin C /\ dir'.cl \notin C /\ ~dir'.root
        /\ dir'.cl \in Places
    BY <1>3, <2>1, <2>2 DEF GTodo, Directory
  <2>4. GTodo(C)'
    BY <1>3, <2>1, <2>2 DEF GTodo
  <2> HIDE DEF next, there, over
  <2>5. GWalk(s, e, C)'
    BY <1>4, <1>6, <1>7, <1>8, <2>1, <2>3 DEF GWalk
  <2>6. QED
    BY <1>9, <1>10, <2>4, <2>5 DEF Guarded
<1>14. CASE next \notin Clusters /\ todo = <<>>
  <2>1. phase' \in {"lost", "spinning"} /\ todo' = todo
    BY <1>1, <1>14
  <2>2. GTodo(C)' /\ GWalk(s, e, C)'
    BY <1>3, <2>1 DEF GTodo, GWalk
  <2>3. QED
    BY <1>9, <1>10, <2>2 DEF Guarded
<1>15. QED
  BY <1>12, <1>13, <1>14

LEMMA GuardDirFails ==
  ASSUME Typed, DirWriteFails, NEW s, NEW e, NEW C, Guarded(s, e, C)
  PROVE  Guarded(s, e, C)'
<1>1. /\ phase' = "out" /\ UNCHANGED <<fats, dirs, root, todo, lost, lf>>
  BY DEF DirWriteFails, GoOn, card, boot
<1>2. GCard(s, e, C) /\ GTodo(C) /\ GLost(s, e)
  BY DEF Guarded
<1>3. GCard(s, e, C)' /\ GTodo(C)' /\ GLost(s, e)'
  BY <1>1, <1>2 DEF GCard, GTodo, GLost
<1>4. QED
  BY <1>1, <1>3 DEF Guarded, GLoad, GFat, GApart, GMarks, GDirs, GWalk

(* No chain that is taken for lost is the one that is guarded.              *)
LEMMA LostOther ==
  ASSUME Typed, phase = "lost", NEW s, NEW e, NEW C, Guarded(s, e, C), NEW h \in LostChains
  PROVE  /\ h # e.start /\ fat \in Chains
         /\ Spares(fat, fat, C, e.start) /\ Spares(fat, clearchain(fat, h), C, e.start)
         /\ clearchain(fat, h).used = fat.used /\ e.start \in fat.used
         /\ C \subseteq Clusters /\ e.start \in Clusters /\ e.start \in C
         /\ Branded(fat, C, e.start, e.size)
<1>1. fat \in Chains
  BY TypedPieces DEF Pieces
<1>2. e.start \in fat.used /\ Branded(fat, C, e.start, e.size)
  BY DEF Guarded, GLost, GMarks
<1>3. h # e.start
  BY <1>2 DEF LostChains
<1>4. Spares(fat, clearchain(fat, h), C, e.start)
  BY <1>1, <1>2, <1>3, GuardedFacts, ClearSpares
<1>5. Spares(fat, fat, C, e.start)
  BY <1>2, GuardedFacts, SparesSame
<1>6. QED
  BY <1>1, <1>2, <1>3, <1>4, <1>5, ClearchainUsed, GuardedFacts

(* The file a lost chain becomes takes an entry that was none.              *)
LEMMA RoomTaken ==
  ASSUME NEW b \in Buffer, HasRoom(b), NEW h, NEW s \in 1 .. Slots, b[s].kind # "none"
  PROVE  WithFile(b, h)[s] = b[s]
<1> DEFINE P(t) == b[t].kind = "none" /\ \A u \in 1 .. t - 1 : b[u].kind # "none"
           free == {t \in 1 .. Slots : b[t].kind = "none"}
<1>1. free \subseteq Nat /\ free # {} /\ \A t \in free : t \in 1 .. Slots /\ t \in Nat /\ b[t].kind = "none"
  BY DEF HasRoom
<1>2. \A u \in 1 .. Slots : u \notin free => b[u].kind # "none"
  OBVIOUS
<1> HIDE DEF free
<1>3. PICK t \in free : \A u \in free : <<u, t>> \notin OpToRel(<, Nat)
  BY <1>1, NatLessThanWellFounded, WFMin
<1>4. \A u \in free : ~(u < t)
  BY <1>1, <1>3 DEF OpToRel
<1>5. t \in 1 .. Slots /\ P(t)
  <2>1. \A u \in 1 .. t - 1 : u \in 1 .. Slots /\ u < t
    BY <1>1, NumberFacts
  <2>2. QED
    BY <1>1, <1>2, <1>4, <2>1
<1> DEFINE z == CHOOSE x \in 1 .. Slots : P(x)
<1>6. z \in 1 .. Slots /\ P(z)
  BY <1>5
<1>7. WithFile(b, h) = [b EXCEPT ![z] = [kind |-> "file", start |-> h, size |-> fat.length[h]]]
  BY DEF WithFile
<1> HIDE DEF z
<1>8. z # s
  BY <1>6
<1>9. QED
  BY <1>7, <1>8 DEF Buffer

LEMMA GuardReconnect ==
  ASSUME Typed, Reconnect, NEW s \in 1 .. Slots, NEW e, NEW C, Guarded(s, e, C)
  PROVE  Guarded(s, e, C)'
<1>1. PICK h \in LostChains, room \in Rooms :
        /\ lf' = [cl |-> room.cl, buf |-> WithFile(room.buf, h)]
        /\ at' = h + 1
        /\ \/ /\ dirs' = [dirs EXCEPT ![room.cl] = WithFile(room.buf, h)]
              /\ fat' = [fat EXCEPT !.used = @ \cup {h}]
           \/ /\ fat' = clearchain([fat EXCEPT !.used = @ \cup {h}], h)
              /\ UNCHANGED dirs
  BY Zenon DEF Reconnect
<1>2. phase = "lost" /\ UNCHANGED <<fats, boot, phase, dir, buf, tree, todo, lost, sig, exit, kept>>
  BY DEF Reconnect
<1>3. /\ h # e.start /\ fat \in Chains /\ e.start \in fat.used /\ h \in Clusters
      /\ C \subseteq Clusters /\ e.start \in Clusters /\ e.start \in C
      /\ Branded(fat, C, e.start, e.size)
  BY <1>2, LostOther DEF LostChains
<1>4. /\ dirs \in [Places -> Buffer] /\ root \in Places
      /\ lf \in [cl : Places, buf : Buffer]
  BY TypedPieces DEF Pieces
<1>5. GCard(s, e, C) /\ GTodo(C) /\ GLost(s, e)
  BY DEF Guarded
<1>6. \/ room = lf /\ lf.cl # FREE /\ HasRoom(lf.buf)
      \/ \E c \in Clusters : room = [cl |-> c, buf |-> dirs[c]] /\ HasRoom(dirs[c])
  BY ReachType DEF Rooms, Ahead
<1>7. HasRoom(room.buf) /\ room.buf \in Buffer /\ room.cl \in Places
  BY <1>4, <1>6, ValueFacts
<1>8. room.cl = root => room.buf[s] = e /\ e.kind = "file"
  BY <1>5, <1>6 DEF GCard, GLost
<1>9. room.cl = root => WithFile(room.buf, h)[s] = e
  BY <1>7, <1>8, RoomTaken
<1>10. dirs'[root][s] = e
  <2>1. dirs[root][s] = e
    BY <1>5 DEF GCard
  <2> DEFINE b == WithFile(room.buf, h)
  <2>2. dirs' = [dirs EXCEPT ![room.cl] = b] \/ dirs' = dirs
    BY <1>1
  <2>3. room.cl = root => b[s] = e
    BY <1>9
  <2> HIDE DEF b
  <2>4. QED
    BY <1>4, <1>7, <2>1, <2>2, <2>3
<1> DEFINE f == [fat EXCEPT !.used = @ \cup {h}]
<1>11. /\ f \in Chains /\ f.next = fat.next /\ f.head = fat.head /\ f.length = fat.length
       /\ f.used = fat.used \cup {h}
  BY <1>3 DEF Chains
<1>12. fat' \in {f, clearchain(f, h)}
  BY <1>1
<1> HIDE DEF f
<1>13. Spares(fat, f, C, e.start) /\ Branded(f, C, e.start, e.size)
  BY <1>3, <1>11, SparesSame DEF Branded
<1>14. Spares(f, clearchain(f, h), C, e.start) /\ clearchain(f, h).used = f.used
  BY <1>3, <1>11, <1>13, ClearSpares, ClearchainUsed
<1>15. Spares(fat, clearchain(f, h), C, e.start)
  BY <1>13, <1>14, SparesTwice
<1>16. Spares(fat, fat', C, e.start) /\ e.start \in fat'.used
  BY <1>3, <1>11, <1>12, <1>13, <1>14, <1>15
<1>17. UNCHANGED <<fats, root, todo, lost, phase>>
  BY <1>2 DEF boot
<1>18. GLoad(e, C)' /\ GFat(C)' /\ GApart(e, C)' /\ GMarks(e, C)'
  BY <1>2, <1>16, <1>17, ChainsSpared
<1>19. GCard(s, e, C)' /\ GTodo(C)' /\ GDirs(s, C)' /\ GWalk(s, e, C)'
  BY <1>2, <1>5, <1>10, <1>17 DEF GCard, GTodo, GDirs, GWalk
<1>20. GLost(s, e)'
  <2>1. lf'.cl = room.cl /\ lf'.buf = WithFile(room.buf, h)
    BY <1>1
  <2>2. QED
    BY <1>5, <1>9, <1>16, <1>17, <2>1 DEF GLost
<1>21. QED
  BY <1>18, <1>19, <1>20 DEF Guarded

LEMMA GuardLost ==
  ASSUME Typed, NotReconnected, NEW s, NEW e, NEW C, Guarded(s, e, C)
  PROVE  Guarded(s, e, C)'
<1>1. PICK h \in LostChains, clear \in Answers :
        /\ lf' = lf \/ (lost # FREE /\ \E b \in LastRead : lf' = [cl |-> lost, buf |-> b])
        /\ fat' = IF clear THEN clearchain(fat, h) ELSE fat
  BY DEF NotReconnected
<1>2. /\ phase = "lost"
      /\ UNCHANGED <<card, boot, phase, dir, buf, tree, todo, lost, sig, exit, mishaps, kept>>
  BY DEF NotReconnected
<1>3. Spares(fat, fat', C, e.start) /\ e.start \in fat'.used
  BY <1>1, <1>2, LostOther
<1>4. UNCHANGED <<fats, dirs, root, todo, lost, phase>>
  BY <1>2 DEF boot, card
<1>5. GLoad(e, C)' /\ GFat(C)' /\ GApart(e, C)' /\ GMarks(e, C)'
  BY <1>2, <1>3, <1>4, ChainsSpared
<1>6. GCard(s, e, C) /\ GTodo(C) /\ GLost(s, e)
  BY DEF Guarded
<1>7. GCard(s, e, C)' /\ GTodo(C)' /\ GDirs(s, C)' /\ GWalk(s, e, C)'
  BY <1>2, <1>4, <1>6 DEF GCard, GTodo, GDirs, GWalk
<1>8. GLost(s, e)'
  BY <1>1, <1>3, <1>4, <1>6 DEF GLost
<1>9. QED
  BY <1>5, <1>7, <1>8 DEF Guarded

-----------------------------------------------------------------------------
(* A copy written in part holds in every cluster what it held or what the   *)
(* FAT in memory holds, so a chain that both hold stays.                    *)
LEMMA TornAlike ==
  ASSUME fats \in [1 .. Copies -> Copy], at \in 1 .. Copies, fats' \in Torn,
         NEW C, C \subseteq Clusters, Alike(fat.next, fats[1].next, C),
         \A i \in 1 .. Copies : Alike(fats[i].next, fats[1].next, C)
  PROVE  \A i \in 1 .. Copies : Alike(fats'[i].next, fats[i].next, C)
<1>1. CASE fats' = fats
  BY <1>1 DEF Alike
<1>2. ASSUME NEW end \in Clusters,
             fats' = [fats EXCEPT ![at] = [sig |-> sig, next |-> [c \in Clusters |->
                        IF c <= end THEN fat.next[c] ELSE @.next[c]]]],
             NEW i \in 1 .. Copies, NEW c \in C
      PROVE  fats'[i].next[c] = fats[i].next[c]
  <2>1. CASE i = at
    <3>1. fats'[at].next = [x \in Clusters |-> IF x <= end THEN fat.next[x] ELSE fats[at].next[x]]
      BY <1>2
    <3>2. QED
      BY <2>1, <3>1 DEF Alike
  <2>2. CASE i # at
    BY <1>2, <2>2
  <2>3. QED
    BY <2>1, <2>2
<1>3. QED
  BY <1>1, <1>2 DEF Alike, Torn

(* What is written is the FAT in memory, which holds the chain.             *)
LEMMA GuardAfter ==
  ASSUME Typed, UpdateFats \/ MarkClean, NEW s, NEW e, NEW C, Guarded(s, e, C)
  PROVE  Guarded(s, e, C)'
<1>1. /\ phase \in {"lost", "dirty"} /\ phase' \in {"write", "dirty", "clean", "out"}
      /\ UNCHANGED <<fats, dirs, root, fat, todo, lost, lf>>
  BY DEF UpdateFats, MarkClean, card, boot
<1>2. GCard(s, e, C) /\ GFat(C) /\ GTodo(C) /\ GLost(s, e)
  BY DEF Guarded
<1>3. GCard(s, e, C)' /\ GFat(C)' /\ GTodo(C)' /\ GLost(s, e)'
  BY <1>1, <1>2 DEF GCard, GFat, GTodo, GLost
<1>4. QED
  BY <1>1, <1>3 DEF Guarded, GLoad, GApart, GMarks, GDirs, GWalk

LEMMA GuardWrite ==
  ASSUME Typed, writefat, NEW s, NEW e, NEW C, Guarded(s, e, C)
  PROVE  /\ Guarded(s, e, C)'
         /\ \A i \in 1 .. Copies : Alike(fats'[i].next, fats[i].next, C)
<1>1. /\ phase \in {"write", "clean"} /\ phase' \in {"write", "clean", "out", "dirty"}
      /\ UNCHANGED <<dirs, root, fat, todo, lost, lf>>
  BY DEF writefat, GoOn, boot
<1>2. GCard(s, e, C) /\ GFat(C) /\ GTodo(C) /\ GLost(s, e)
  BY DEF Guarded
<1>3. Alike(fat.next, fats[1].next, C)
  BY <1>1, <1>2 DEF GFat
<1>4. /\ fats \in [1 .. Copies -> Copy] /\ at \in 1 .. Copies /\ 1 \in 1 .. Copies
  BY <1>1, TypedPieces, NumberFacts DEF Pieces, InCopies
<1>5. ASSUME fats' \in Torn
      PROVE  \A i \in 1 .. Copies : Alike(fats'[i].next, fats[i].next, C)
  BY <1>2, <1>3, <1>4, <1>5, GuardedFacts, TornAlike DEF GCard
<1>6. \A i \in 1 .. Copies : Alike(fats'[i].next, fats[i].next, C)
  <2> DEFINE copy == [sig |-> sig, next |-> fat.next]
  <2>1. copy.next = fat.next /\ (fats' \in Torn \/ fats' = [fats EXCEPT ![at] = copy])
    BY DEF writefat
  <2> HIDE DEF copy
  <2>2. ASSUME NEW i \in 1 .. Copies, fats' = [fats EXCEPT ![at] = copy]
        PROVE  fats'[i] = fats[i] \/ fats'[i] = copy
    BY <1>4, <2>2
  <2>3. CASE fats' = [fats EXCEPT ![at] = copy]
    BY <1>2, <1>3, <2>1, <2>2, <2>3 DEF Alike, GCard
  <2>4. QED
    BY <1>5, <2>1, <2>3
<1>7. Line(fats'[1].next, C, e.start)
  BY <1>2, <1>4, <1>6, LineSame DEF GCard
<1>8. \A i \in 1 .. Copies : Alike(fats'[i].next, fats'[1].next, C)
  BY <1>2, <1>4, <1>6 DEF Alike, GCard
<1>9. GCard(s, e, C)' /\ GFat(C)'
  BY <1>1, <1>2, <1>3, <1>4, <1>6, <1>7, <1>8 DEF GCard, GFat, Alike
<1>10. GTodo(C)' /\ GLost(s, e)'
  BY <1>1, <1>2 DEF GTodo, GLost
<1>11. QED
  BY <1>1, <1>6, <1>9, <1>10 DEF Guarded, GLoad, GApart, GMarks, GDirs, GWalk

LEMMA GuardKept == Typed /\ Fresh /\ Kept /\ [Next]_vars => Kept'
<1> SUFFICES ASSUME Typed, Fresh, Kept, [Next]_vars, phase' # "idle"
             PROVE  \A s \in kept' : \E e, C : Guarded(s, e, C)'
  BY DEF Kept
<1>1. CASE Start
  BY <1>1, GuardStart DEF Start
<1>2. CASE Spin \/ UNCHANGED vars
  BY <1>2 DEF Spin, Kept, Guarded, GCard, GLoad, GFat, GApart, GMarks, GDirs, GWalk, GTodo, GLost,
              vars, card, boot, memory
<1>3. CASE Exit \/ Kill
  BY <1>3 DEF Exit, Kill, Ends
<1>4. CASE Check /\ ~Start /\ ~Spin /\ ~Exit
  <2>1. kept' = kept /\ phase # "idle"
    BY <1>4 DEF Check, Load, MarkChains, BrokenChain, CrossLink, OpenRoot, ReadFile, BadSubdir,
                ReadDots, ReadSubdir, EndCluster, DirWriteFails, Reconnect, NotReconnected,
                UpdateFats, writefat, MarkClean
  <2>2. ASSUME NEW s \in kept PROVE \E e, C : Guarded(s, e, C)'
    <3>1. PICK e, C : Guarded(s, e, C)
      BY <2>1 DEF Kept
    <3>2. s \in 1 .. Slots
      BY TypedPieces DEF Pieces
    <3>3. Guarded(s, e, C)'
      BY <1>4, <3>1, <3>2, GuardLoad, GuardMark, GuardBroken, GuardCross, GuardRoot, GuardFile,
         GuardBad, GuardDots, GuardSubdir, GuardEnd, GuardDirFails, GuardReconnect, GuardLost,
         GuardAfter, GuardWrite DEF Check
    <3>4. QED
      BY <3>3
  <2>3. QED
    BY <2>1, <2>2
<1>5. QED
  BY <1>1, <1>2, <1>3, <1>4 DEF Next

LEMMA FreshKept == Typed /\ Fresh /\ [Next]_vars => Fresh'
<1> SUFFICES ASSUME Fresh, [Next]_vars, phase' = "idle"
             PROVE  lost' = FREE /\ lf' = NoLf /\ todo' = <<>>
  BY DEF Fresh
<1>1. CASE Start \/ UNCHANGED vars
  BY <1>1 DEF Start, Fresh, vars, memory
<1>2. CASE Exit \/ Kill
  BY <1>2 DEF Exit, Kill, Ends
<1>3. CASE ReadFile
  BY <1>3 DEF ReadFile, Ends
<1>4. CASE Load \/ MarkChains \/ OpenRoot \/ DirWriteFails \/ UpdateFats \/ MarkClean \/ Spin
  BY <1>4 DEF Load, MarkChains, OpenRoot, DirWriteFails, UpdateFats, MarkClean, Spin, GoOn, vars
<1>5. CASE BadSubdir \/ ReadDots \/ ReadSubdir \/ EndCluster
  BY <1>5 DEF BadSubdir, ReadDots, ReadSubdir, EndCluster
<1>6. CASE Reconnect \/ NotReconnected \/ writefat
  BY <1>6 DEF Reconnect, NotReconnected, writefat, GoOn
<1>7. CASE BrokenChain
  BY <1>7 DEF BrokenChain, GoOn
<1>8. CASE CrossLink
  <2>1. phase' \in {"spinning", "chains"}
    BY <1>8, CrossLinkStep DEF GoOn
  <2>2. QED
    BY <2>1
<1>9. QED
  BY <1>1, <1>2, <1>3, <1>4, <1>5, <1>6, <1>7, <1>8 DEF Next, Check

(* A step that changes the card leaves the file alone.                      *)
LEMMA InnocentStep ==
  ASSUME Typed, Kept, [Next]_vars, card' # card, NEW s \in kept
  PROVE  /\ dirs'[root][s] = dirs[root][s]
         /\ \A i \in 1 .. Copies, c \in Reach(fats[1].next, dirs[root][s].start) :
               fats'[i].next[c] = fats[i].next[c]
<1>1. EndCluster \/ Reconnect \/ writefat \/ Kill
  BY DEF Next, Check, Start, Load, MarkChains, BrokenChain, CrossLink, OpenRoot, ReadFile, BadSubdir,
         ReadDots, ReadSubdir, DirWriteFails, NotReconnected, UpdateFats, MarkClean, Exit, Spin,
         vars
<1>2. phase # "idle"
  BY <1>1 DEF EndCluster, Reconnect, writefat, Kill
<1>3. PICK e, C : Guarded(s, e, C)
  BY <1>2 DEF Kept
<1>4. /\ dirs[root][s] = e /\ C = Reach(fats[1].next, dirs[root][s].start)
      /\ s \in 1 .. Slots
  BY <1>3, TypedPieces DEF Guarded, GCard, Line, Pieces
<1>5. root' = root
  BY <1>1 DEF EndCluster, Reconnect, writefat, Kill, boot
<1>6. CASE EndCluster \/ Reconnect
  <2>1. Guarded(s, e, C)'
    BY <1>3, <1>4, <1>6, GuardEnd, GuardReconnect
  <2>2. fats' = fats
    BY <1>6 DEF EndCluster, Reconnect
  <2>3. QED
    BY <1>4, <1>5, <2>1, <2>2 DEF Guarded, GCard
<1>7. CASE writefat
  BY <1>3, <1>4, <1>7, GuardWrite DEF writefat, Alike
<1>8. CASE Kill
  <2>1. dirs' = dirs
    BY <1>8 DEF Kill
  <2>2. CASE fats' = fats
    BY <2>1, <2>2
  <2>3. CASE fats' # fats
    <3>1. phase \in {"write", "clean"} /\ fats' \in Torn
      BY <1>8, <2>3 DEF Kill
    <3>2. /\ fats \in [1 .. Copies -> Copy] /\ at \in 1 .. Copies
      BY <3>1, TypedPieces DEF Pieces, InCopies
    <3>3. \A i \in 1 .. Copies : Alike(fats'[i].next, fats[i].next, C)
      BY <1>3, <3>1, <3>2, GuardedFacts, TornAlike DEF Guarded, GFat, GCard
    <3>4. QED
      BY <1>4, <2>1, <3>3 DEF Alike
  <2>4. QED
    BY <2>2, <2>3
<1>9. QED
  BY <1>1, <1>6, <1>7, <1>8

(* A file that no damage disputes keeps its entry and its chain, in every   *)
(* copy of the FAT, at every step of every check, whatever is answered,     *)
(* wherever the checker dies or fails to write.                             *)
THEOREM InnocentStays == Spec => InnocentKept
<1> DEFINE Stays == \A s \in kept :
          /\ dirs'[root][s] = dirs[root][s]
          /\ \A i \in 1 .. Copies, c \in Reach(fats[1].next, dirs[root][s].start) :
                fats'[i].next[c] = fats[i].next[c]
<1>1. Init => Typed
  BY InitType
<1>2. Init => Fresh /\ Kept
  BY DEF Init, Fresh, Kept
<1>3. Typed /\ [Next]_vars => Typed'
  BY NextType
<1>4. Typed /\ Fresh /\ [Next]_vars => Fresh'
  BY FreshKept
<1>5. Typed /\ Fresh /\ Kept /\ [Next]_vars => Kept'
  BY GuardKept
<1>6. Typed /\ Kept /\ [Next]_vars => [Stays]_card
  <2> SUFFICES ASSUME Typed, Kept, [Next]_vars, card' # card
               PROVE  Stays
    OBVIOUS
  <2>1. QED
    BY InnocentStep
<1> HIDE DEF Stays
<1>7. Spec => [][Stays]_card
  BY <1>1, <1>2, <1>3, <1>4, <1>5, <1>6, PTL DEF Spec
<1>8. QED
  BY <1>7 DEF Stays, InnocentKept
=============================================================================
