----------------------------- MODULE BookLevels -----------------------------
(* The price levels of ma_core::Book, which Book.tla abstracts to a version: *)
(* a side is a function from the prices held to their quantities, an update  *)
(* is a sequence of [price, qty] for each side, and a zero quantity deletes. *)
EXTENDS Integers, Sequences, FiniteSets, FiniteSetsExt, SequencesExt, Functions

NoLevels == [price \in {} |-> 0]

ApplyLevel(side, level) ==
    IF level.qty = 0 THEN Restrict(side, DOMAIN side \ {level.price})
    ELSE [price \in DOMAIN side \union {level.price} |->
            IF price = level.price THEN level.qty ELSE side[price]]

ApplyLevels(side, updates) == FoldLeft(ApplyLevel, side, updates)

\* How many of a side's prices are better than this one.
Rank(side, which, price) ==
    Cardinality({p \in DOMAIN side : IF which = "bid" THEN p > price ELSE p < price})

\* Bids and asks are both kept in ascending order of price.
\* Mutant: the last entry is the worst on either side.
PruneLast(side, which, depth) ==
    Restrict(side, {p \in DOMAIN side : Rank(side, "ask", p) < depth})

\* The worst prices go until the side fits.
PruneSide(side, which, depth) ==
    Restrict(side, {p \in DOMAIN side : Rank(side, which, p) < depth})

\* The best n levels, best first.
TopLevels(side, which, n) ==
    LET kept == {p \in DOMAIN side : Rank(side, which, p) < n}
    IN  [i \in 1..Cardinality(kept) |->
            LET p == CHOOSE p \in kept : Rank(side, which, p) = i - 1
            IN  [price |-> p, qty |-> side[p]]]

Pruned(book, depth) ==
    [bids |-> PruneSide(book.bids, "bid", depth), asks |-> PruneSide(book.asks, "ask", depth)]

IsCrossed(book) ==
    /\ DOMAIN book.bids # {} /\ DOMAIN book.asks # {}
    /\ Max(DOMAIN book.bids) >= Min(DOMAIN book.asks)

\* apply_snapshot and apply_delta of a live book: all of the message, then the
\* prune.  The crossed guard that follows is IsCrossed.
SnapshotLevels(message, depth) ==
    Pruned([bids |-> ApplyLevels(NoLevels, message.bids),
            asks |-> ApplyLevels(NoLevels, message.asks)], depth)

DeltaLevels(book, message, depth) ==
    Pruned([bids |-> ApplyLevels(book.bids, message.bids),
            asks |-> ApplyLevels(book.asks, message.asks)], depth)
=============================================================================
