---------------------------- MODULE MCAlgorithms ----------------------------
(* Bounds for TLC.  The days begin before 1900 and end after 2100, the two   *)
(* years that the four-year rule gets wrong, with 2000 between them.         *)
EXTENDS Algorithms

FirstOf1896 == [year |-> 1896, month |-> 1, day |-> 1]
DaysTo1896 == -27028
=============================================================================
