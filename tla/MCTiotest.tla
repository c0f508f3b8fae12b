------------------------------ MODULE MCTiotest ------------------------------
(* Two threads, on one device or with a file each: with the consistency    *)
(* check every selection of tests, with and without -R, -O and -W; without *)
(* it all tests.                                                           *)
EXTENDS Tiotest

MCOptions ==
  [raw : BOOLEAN, first : BOOLEAN, sequential : BOOLEAN, check : {TRUE}, tests : SUBSET Tests]
  \cup [raw : BOOLEAN, first : {FALSE}, sequential : BOOLEAN, check : {FALSE}, tests : {Tests}]
=============================================================================
