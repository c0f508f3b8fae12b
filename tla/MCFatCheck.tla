----------------------------- MODULE MCFatCheck -----------------------------
(***************************************************************************)
(* Cards for FatCheck: a sound one, damaged in one or two places.          *)
(***************************************************************************)
EXTENDS FatCheck, TLC

N == 6
Cl == 2 .. N - 1
Two == 2

E(k, h, n) == [kind |-> k, start |-> h, size |-> n]
None == E("none", 0, 0)
NoEntries == [t \in 1 .. 3 |-> None]
Subdir(h, up, e) == <<E("dot", h, 0), E("dotdot", up, 0), e>>
Fat(a, b, c, d) == (2 :> a) @@ (3 :> b) @@ (4 :> c) @@ (5 :> d)
End == N + 3

Card(r, next, contents) ==
    [root |-> r, compare |-> TRUE, mode |-> "yes",
     fats |-> [i \in 1 .. 2 |-> [sig |-> "dirty", next |-> next]],
     dirs |-> [p \in {0} \cup Cl |-> IF p \in DOMAIN contents THEN contents[p] ELSE NoEntries]]

\* A file of two clusters, and a subdirectory with a file.
Nested == Card(0, Fat(3, End, End, End),
               (0 :> <<E("file", 2, 2), E("dir", 4, 0), None>>)
               @@ (4 :> Subdir(4, 0, E("file", 5, 1))))
\* Two files and LOST.DIR.
Rescue == Card(0, Fat(3, End, End, End),
               (0 :> <<E("file", 2, 2), E("file", 4, 1), E("lost", 5, 0)>>)
               @@ (5 :> Subdir(5, 0, None)))
\* FAT32: the root directory, with a file, in cluster 2.
Big == Card(2, Fat(End, 4, End, End),
            (2 :> <<E("file", 3, 2), E("lost", 5, 0), None>>)
            @@ (5 :> Subdir(5, 0, None)))

\* Two lost chains, and no room in LOST.DIR.
Full == Card(0, Fat(End, End, End, End),
             (0 :> <<E("lost", 5, 0), None, None>>) @@ (5 :> Subdir(5, 0, E("file", 4, 1))))

\* Damage to one cell of one copy or of both, or to one entry.
Values == {0, N, N + 2, End} \cup Cl
HitFat(v) == {[v EXCEPT !.fats = [i \in 1 .. 2 |->
                 IF i \in which THEN [@[i] EXCEPT !.next[c] = x] ELSE @[i]]] :
                which \in {{1}, {2}, {1, 2}}, c \in Cl \ {v.root}, x \in Values}
HitCell(v) == {[v EXCEPT !.fats = [i \in 1 .. 2 |-> [@[i] EXCEPT !.next[c] = x]]] :
                c \in Cl \ {v.root}, x \in {0} \cup Cl}
Entries(v) == {q \in ({0} \cup Cl) \X (1 .. 3) : v.dirs[q[1]][q[2]].kind # "none"}
HitStart(v) == {[v EXCEPT !.dirs[q[1]][q[2]].start = x] : q \in Entries(v), x \in {0, N} \cup Cl}
HitSize(v) == {[v EXCEPT !.dirs[q[1]][q[2]].size = x] : q \in Entries(v), x \in 0 .. 3}
HitEntry(v) == HitStart(v) \cup HitSize(v)
HitSig(v) == {[v EXCEPT !.fats[i].sig = x] : i \in 1 .. 2, x \in {"clean", "odd"}}

Bases == {Nested, Rescue, Big}
Once == UNION {HitFat(v) \cup HitEntry(v) \cup HitSig(v) : v \in Bases}
Twice == UNION {HitCell(v) \cup {w \in HitStart(v) : w.dirs[5] = v.dirs[5]} : v \in HitCell(Rescue)}
\* Damage on a card that is marked clean.
Quiet == {[v EXCEPT !.fats = [i \in 1 .. 2 |-> [@[i] EXCEPT !.sig = "clean"]]] : v \in HitCell(Nested)}
Uncompared == {[v EXCEPT !.compare = FALSE] : v \in HitFat(Nested)}
Asked == UNION {HitCell(v) \cup HitEntry(v) \cup HitSig(v) : v \in Bases}
         \cup {v \in HitFat(Nested) : v.fats[1].next # v.fats[2].next /\ v.fats[1].next[3] \in {0, 5}}
Answered(cards, m) == {[v EXCEPT !.mode = m] : v \in cards}

Cards == Answered(Once \cup Twice \cup Quiet \cup Uncompared \cup {Full}, "yes")
         \cup Answered(Asked \cup Quiet \cup {Full}, "ask") \cup Answered(Asked, "no")
         \cup Answered(UNION {HitEntry(v) \cup HitSig(v) : v \in Bases} \cup Quiet, "preen")
=============================================================================
