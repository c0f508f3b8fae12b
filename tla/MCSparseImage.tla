---------------------------- MODULE MCSparseImage ----------------------------
(***************************************************************************)
(* File systems for SparseImage: every order in which up to three extents   *)
(* can be queued.                                                           *)
(***************************************************************************)
EXTENDS SparseImage

N == 6

\* Extents of one or two blocks.  What the last block of the file system holds
\* matters, and whether it is a file's.
Mid == [block : 2 .. N - 2, len : 1 .. 2, file : {FALSE}, full : {TRUE}]
Ends == [block : {N - 1}, len : {1}, file : BOOLEAN, full : BOOLEAN]
Candidates == Mid \cup Ends

\* Regions of files: the second to be queued may start inside a page.
Regions == [block : {2, 4}, len : {1}, file : {TRUE}, full : {TRUE}]
           \cup [block : {N - 1}, len : {1}, file : {TRUE}, full : {FALSE}]

Orders(set, most) ==
    {<<>>} \cup UNION {{p \in [1 .. n -> set] :
                          \A i, j \in 1 .. n : i # j => Apart(p[i], p[j])} : n \in 1 .. most}

FileSystems ==
    [first : {0}, desc : {1}, ragged : {FALSE}, parts : Orders(Candidates, 3)]
    \cup [first : {0}, desc : {1}, ragged : {TRUE}, parts : Orders(Ends, 1)]
    \cup [first : {0}, desc : {1}, ragged : {FALSE}, parts : Orders(Regions, 2)]
    \cup [first : {0}, desc : {2}, ragged : {FALSE}, parts : Orders({e \in Mid : e.block = 4}, 1)]
    \cup [first : {1}, desc : {1}, ragged : BOOLEAN, parts : Orders({e \in Candidates : e.block > 3}, 1)]
=============================================================================
