----------------------------- MODULE EventRows ------------------------------
(* The archive's row format (ma-persist/src/schema.rs): flatten of writer.rs *)
(* turns an event into rows, decode of reader.rs turns the batches of a file *)
(* back into events.                                                         *)
(*                                                                           *)
(* An event is [kind, bids, asks, trade, checksum, counter, at]; a field     *)
(* that its kind does not have, or that the venue did not send, is Null, and *)
(* one that is there is Some.  Levels and trades stand for exact decimal     *)
(* digits, written as text and parsed back digit for digit.  The stream, the *)
(* wall clock and the venue's clock are copied to every row of an event and  *)
(* read from its first; they are left out.                                   *)
EXTENDS Integers, Sequences, FiniteSets, FiniteSetsExt, SequencesExt

CONSTANT MaxInt   \* of the signed columns

Null == <<>>
Some(x) == <<x>>

\* i64::try_from(_).unwrap_or(i64::MAX)
Saturated(n) == IF n > MaxInt THEN MaxInt ELSE n

\* IngestTime::since, which a reading before the base does not take below zero.
Since(at, base) == IF at < base THEN 0 ELSE at - base

\* What every row of an event repeats.
Template(event, seq, base) ==
    [seq |-> seq, kind |-> event.kind, elapsed |-> Saturated(Since(event.at, base)),
     side |-> Null, level |-> Null, index |-> Null, trade |-> Null, checksum |-> Null,
     counter |-> Null]

SideRows(template, side, levels) ==
    [i \in DOMAIN levels |-> [template EXCEPT !.side = Some(side), !.level = Some(levels[i]),
                                              !.index = Some(i - 1)]]

\* Mutant: levels only, so that an event without any leaves no row.
LevelRowsOnly(template, event) ==
    SideRows(template, "bid", event.bids) \o SideRows(template, "ask", event.asks)

\* The bids then the asks, in the venue's order; one bare row if there is none.
LevelRows(template, event) ==
    LET rows == SideRows(template, "bid", event.bids) \o SideRows(template, "ask", event.asks)
    IN  IF rows = <<>> THEN <<template>> ELSE rows

Flatten(event, seq, base) ==
    LET template == Template(event, seq, base)
    IN  CASE event.kind \in {"snapshot", "delta"} -> LevelRows(template, event)
          [] event.kind = "trade"     -> <<[template EXCEPT !.trade = event.trade]>>
          [] event.kind = "checksum"  -> <<[template EXCEPT !.checksum = event.checksum]>>
          [] event.kind = "heartbeat" ->
                <<[template EXCEPT !.counter = IF event.counter = Null THEN Null
                                               ELSE Some(Saturated(event.counter[1]))]>>

-----------------------------------------------------------------------------
\* A row that lacks what its kind must have ends the decoding of the file.
Incomplete(row) ==
    \/ row.kind = "trade" /\ row.trade = Null
    \/ row.kind = "checksum" /\ row.checksum = Null

\* empty_kind, and the trade or level lists that the rows then fill in.
Opened(row) ==
    [kind |-> row.kind, bids |-> <<>>, asks |-> <<>>, trade |-> Null,
     checksum |-> row.checksum, counter |-> row.counter, elapsed |-> row.elapsed]

NothingOpen == [seq |-> Null, event |-> Null]
StartDecoding == [open |-> NothingOpen, out |-> <<>>, failed |-> FALSE]

\* Push the open event, if there is one.
Close(state) ==
    IF state.open.seq = Null THEN state
    ELSE [state EXCEPT !.out = Append(@, state.open.event), !.open = NothingOpen]

Filled(event, row) ==
    IF row.kind = "trade" THEN [event EXCEPT !.trade = row.trade]
    ELSE IF row.side = Null THEN event
    ELSE IF row.side[1] = "bid" THEN [event EXCEPT !.bids = Append(@, row.level[1])]
    ELSE [event EXCEPT !.asks = Append(@, row.level[1])]

\* One row: a new event_seq closes the event before, the first row opens it.
DecodeRow(state, row) ==
    LET closed == IF state.open.seq = Some(row.seq) THEN state ELSE Close(state)
        event == IF closed.open.seq = Null THEN Opened(row) ELSE closed.open.event
    IN  IF state.failed \/ Incomplete(row) THEN [state EXCEPT !.failed = TRUE]
        ELSE [closed EXCEPT !.open = [seq |-> Some(row.seq), event |-> Filled(event, row)]]

\* Mutant: an event ends with its batch.
DecodeBatchAndClose(state, batch) == Close(FoldLeft(DecodeRow, state, batch))

\* The open event is carried into the next batch.
DecodeBatch(state, batch) == FoldLeft(DecodeRow, state, batch)

Decode(batches) ==
    LET last == FoldLeft(DecodeBatch, StartDecoding, batches)
    IN  IF last.failed THEN [failed |-> TRUE, out |-> <<>>]
        ELSE [failed |-> FALSE, out |-> Close(last).out]
=============================================================================
