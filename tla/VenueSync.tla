------------------------------ MODULE VenueSync ------------------------------
(* What each venue's VenueSync makes of a frame, and what VenueBook does     *)
(* with it (ma-venues).  A frame carries its place in the connection (seq),  *)
(* the version of the venue's book it brings (at) and how it parses (form):  *)
(* "good", "bad_envelope" when the frame itself is not understood, and       *)
(* "bad_events" when the envelope is and what it carries is not.             *)
EXTENDS Integers, Book, FiniteSetsExt

Coinbase == "coinbase"
Kraken == "kraken"
Bitstamp == "bitstamp"

\* Coinbase's expected_seq before the first frame of a connection.
Unset == -1

\* The state of a VenueSync as constructed, and after reset.  Coinbase uses
\* expected; Bitstamp uses mode, pending (the buffered diffs), last and
\* spliced; Kraken keeps nothing.
FreshSync == [expected |-> Unset, mode |-> "awaiting", pending |-> {},
              last |-> 0, spliced |-> 0]

\* A snapshot or an update; trades, heartbeats and acks leave the book alone.
ApplyBookFrame(book, frame, crosses) ==
    CASE frame.kind = "snapshot" -> ApplySnapshot(frame.at)
      [] frame.kind = "update" -> ApplyDelta(book, frame.at, crosses)
      [] OTHER -> book

\* The checksum Kraken sent is that of its own book at the version of the
\* frame; a book that is not live is not compared.
Verify(book) == IF IsLive(book) /\ book.hole THEN MarkDesynced(book, "checksum") ELSE book

\* Mutant: only a jump backwards counts as a gap.
GapBackwards(sync, frame) == sync.expected # Unset /\ frame.seq < sync.expected

GapBefore(sync, frame) == sync.expected # Unset /\ frame.seq # sync.expected

\* Every frame of the connection counts.
NextExpected(sync, frame) == frame.seq + 1

\* The sequence is checked, and moved on, before the events are looked at; a
\* gap discards the frame it is seen in.
CoinbaseFeed(sync, book, frame, crosses) ==
    IF frame.form = "bad_envelope" THEN [sync |-> sync, book |-> book]
    ELSE [sync |-> [sync EXCEPT !.expected = NextExpected(sync, frame)],
          book |-> IF GapBefore(sync, frame) THEN MarkDesynced(book, "gap")
                   ELSE IF frame.form = "bad_events" THEN book
                   ELSE ApplyBookFrame(book, frame, crosses)]

\* Every snapshot and update carries a checksum.
KrakenFeed(sync, book, frame, crosses) ==
    [sync |-> sync,
     book |-> IF frame.form # "good" \/ frame.kind = "other" THEN book
              ELSE Verify(ApplyBookFrame(book, frame, crosses))]

\* Mutant: a diff older than the snapshot is judged by its order alone.
NeverRedundant(sync, frame) == FALSE

\* A diff the snapshot already contains.
Redundant(sync, frame) == frame.at <= sync.spliced

\* Diffs are buffered until the REST snapshot is there, and are then held to
\* strictly increasing timestamps.
BitstampFeed(sync, book, frame, crosses) ==
    IF frame.form # "good" \/ frame.kind = "other" THEN [sync |-> sync, book |-> book]
    ELSE CASE sync.mode = "awaiting" ->
                [sync |-> [sync EXCEPT !.pending = @ \union {frame.at}],
                 book |-> IF sync.pending = {} THEN MarkDesynced(book, "awaiting_snapshot")
                          ELSE book]
           [] sync.mode = "live" /\ Redundant(sync, frame) -> [sync |-> sync, book |-> book]
           [] sync.mode = "live" /\ ~Redundant(sync, frame) /\ frame.at <= sync.last ->
                [sync |-> sync, book |-> MarkDesynced(book, "regression")]
           [] OTHER -> [sync |-> [sync EXCEPT !.last = frame.at],
                        book |-> ApplyDelta(book, frame.at, crosses)]

\* The diffs that survive the splice of a snapshot, which are then applied in
\* order: an update is missing exactly when they are not an unbroken run.
Surviving(pending, asOf) == {d \in pending : d > asOf}

BitstampSplice(sync, asOf, crosses) ==
    LET surviving == Surviving(sync.pending, asOf)
        last == Max(surviving \union {asOf})
        spliced == [ApplySnapshot(last) EXCEPT !.hole = surviving # (asOf + 1)..last]
    IN  [sync |-> [sync EXCEPT !.mode = "live", !.pending = {}, !.last = last, !.spliced = asOf],
         book |-> GuardCrossed(spliced, crosses)]

\* VenueBook::feed on the frame of a venue.
Feed(venue, sync, book, frame, crosses) ==
    CASE frame.kind = "rest" -> BitstampSplice(sync, frame.at, crosses)
      [] frame.kind # "rest" /\ venue = Coinbase -> CoinbaseFeed(sync, book, frame, crosses)
      [] frame.kind # "rest" /\ venue = Kraken -> KrakenFeed(sync, book, frame, crosses)
      [] frame.kind # "rest" /\ venue = Bitstamp -> BitstampFeed(sync, book, frame, crosses)

\* VenueBook::reset.
Reset(book) == [sync |-> FreshSync, book |-> MarkDesynced(book, "connection_lost")]

\* OrderOnly says that frames came in order, not that they all came.
DetectsLoss(venue) == venue # Bitstamp

Syncs == [expected : Nat \union {Unset}, mode : {"awaiting", "live"}, pending : SUBSET Nat,
          last : Nat, spliced : Nat]
==============================================================================
