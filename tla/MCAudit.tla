------------------------------- MODULE MCAudit -------------------------------
(* Three bids and two asks.  With a guard of a tenth the best level of each  *)
(* side is inside the guard.  The deep opening makes the windows shorter     *)
(* than the book; from the shallow one, the loss of its best bid leaves no   *)
(* bid to compare.                                                           *)
EXTENDS DepthAudit

MCBids == 1..3
MCAsks == 4..5
Deep == [p \in 1..5 |-> 1]
Shallow == [p \in 1..5 |-> IF p \in {2, 3} THEN 1 ELSE 0]
MCOpenings == {Deep, Shallow}
=============================================================================
