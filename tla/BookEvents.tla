----------------------------- MODULE BookEvents -----------------------------
(* How a frame becomes events, and events become a book again                *)
(* (ma-venues/src/sync.rs): VenueBook::apply_ingested applies the actions a  *)
(* venue's sync layer makes of a frame and says which of them are history;   *)
(* VenueBook::apply_event replays that history.  The book here is its price  *)
(* levels and whether they are trusted; a checksum is the levels it hashes.  *)
EXTENDS BookLevels

UninitializedBook == [state |-> "uninitialized",
                      levels |-> [bids |-> NoLevels, asks |-> NoLevels]]

Desynced(book) == [book EXCEPT !.state = "desynced"]

\* Book::guard_crossed after an update has made the book live, or found it so.
Guarded(levels) ==
    [state |-> IF IsCrossed(levels) THEN "desynced" ELSE "live", levels |-> levels]

\* A checksum says nothing of a book that is not live.
VerifyLevels(book, value) ==
    IF book.state = "live" /\ book.levels # value THEN Desynced(book) ELSE book

\* A delta that the book refuses is not history.
Emits(book, action) ==
    \/ action.kind \in {"checksum", "snapshot", "forward"}
    \/ action.kind = "delta" /\ book.state = "live"

After(book, action, depth) ==
    CASE action.kind = "desync" -> Desynced(book)
      [] action.kind = "checksum" -> VerifyLevels(book, action.value)
      [] action.kind = "snapshot" -> Guarded(SnapshotLevels(action, depth))
      [] action.kind = "delta" /\ book.state = "live" ->
           Guarded(DeltaLevels(book.levels, action, depth))
      [] OTHER -> book

\* Mutant: the event is recorded before anyone has asked the book.
ApplyAndRecord(book, actions, depth) ==
    FoldLeft(LAMBDA s, action :
                 [book |-> After(s.book, action, depth),
                  events |-> IF action.kind \in {"ignore", "desync"} THEN s.events
                             ELSE Append(s.events, action)],
             [book |-> book, events |-> <<>>], actions)

ApplyIngested(book, actions, depth) ==
    FoldLeft(LAMBDA s, action :
                 [book |-> After(s.book, action, depth),
                  events |-> IF Emits(s.book, action) THEN Append(s.events, action)
                             ELSE s.events],
             [book |-> book, events |-> <<>>], actions)

\* An event is its action again.
ApplyEvent(book, event, depth) == ApplyIngested(book, <<event>>, depth).book

ReplayEvents(book, events, depth) ==
    FoldLeft(LAMBDA b, event : ApplyEvent(b, event, depth), book, events)

\* The end of a session keeps the levels, and is not an event.
SessionEnds(book) == Desynced(book)
=============================================================================
