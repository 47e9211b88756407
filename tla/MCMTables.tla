------------------------------- MODULE MCMTables -------------------------------
(***************************************************************************)
(* Every argument around the tables of m.c: the channel numbers of both    *)
(* bands and past them, the frequencies around the channels of both bands, *)
(* every index.                                                            *)
(***************************************************************************)
EXTENDS MTables

AllNums    == 0 .. 140
NoNums     == {}
AllFreqs   == (2400 .. 2490) \cup (4990 .. 5670) \cup {0}
AllIndexes == 0 .. 255
===============================================================================
