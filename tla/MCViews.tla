------------------------------- MODULE MCViews -------------------------------
(* Instances of Views for TLC: buckets of two ticks, a window of one bucket  *)
(* and one of two that is asked for as three ticks.                          *)
EXTENDS Views

TwoSpans == <<2, 3>>

Some(kind) == [kind |-> kind, mid |-> NoPrice]
Priced(kind, mid) == [kind |-> kind, mid |-> mid]

\* The mid of a live book may rise, and one of its sides may empty.
AllKinds == {Priced("snapshot", 1), Priced("delta", 2), Some("delta"), Some("gap"),
             Some("trade"), Some("ended")}
==============================================================================
