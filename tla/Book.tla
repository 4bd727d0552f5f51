-------------------------------- MODULE Book --------------------------------
(* ma_core::Book, one venue's order book for one symbol, and the trust level *)
(* attached to it.  A venue's book goes through versions 0, 1, 2, ...; its   *)
(* update k turns version k-1 into version k.  What the code keeps as price  *)
(* levels is kept here as the version the levels should be at and whether an *)
(* update on the way there is missing:                                       *)
(*     ~hole  <=>  the levels are the venue's own book at version `at`.      *)
(* A book never crosses unless an update is missing from it; whether a given *)
(* hole crosses the book depends on the prices, so it is an argument.        *)
EXTENDS Naturals

EmptyBook == [state |-> "uninitialized", reason |-> "none", at |-> 0, hole |-> FALSE]

IsLive(book) == book.state = "live"

IsDesynced(book) == book.state = "desynced"

\* The levels are kept, and are not served as live.
MarkDesynced(book, why) == [book EXCEPT !.state = "desynced", !.reason = why]

GuardCrossed(book, crosses) ==
    IF book.hole /\ crosses THEN MarkDesynced(book, "crossed") ELSE book

\* Whatever was held is discarded, and the book is live.
ApplySnapshot(at) == [state |-> "live", reason |-> "none", at |-> at, hole |-> FALSE]

\* Refused by a book that is not live.
ApplyDelta(book, at, crosses) ==
    IF ~IsLive(book) THEN book
    ELSE GuardCrossed([book EXCEPT !.at = at, !.hole = @ \/ at # book.at + 1], crosses)

\* "Is anyone already fixing this?": the connection that replaces a lost one
\* brings a snapshot, and a book that awaits a snapshot has one on its way.
NeedsFreshStream(why) == why \notin {"awaiting_snapshot", "connection_lost"}

DesyncReasons == {"gap", "checksum", "regression", "crossed",
                  "awaiting_snapshot", "connection_lost"}

Books == [state : {"uninitialized", "live", "desynced"},
          reason : DesyncReasons \union {"none"}, at : Nat, hole : BOOLEAN]
=============================================================================
