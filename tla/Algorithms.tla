----------------------------- MODULE Algorithms -----------------------------
(* The pure functions of the program against what they are meant to compute. *)
(* A behaviour picks a topic and builds an input to it step by step; each    *)
(* property compares the code's answer to the input reached with a reference *)
(* definition, or with the history that built the input.                     *)
EXTENDS CrossWindows, EventRows, Calendar, BookEvents, Replay, FileStore, KrakenChecksum

CONSTANTS
    MaxAge,      \* of a quote that may be used
    MaxQuotes,   \* venues in a touch
    MaxItems,    \* samples and prints in the windows of a symbol
    MaxEvents,   \* events in a file, and in a replayed archive
    Depth,       \* levels per side that the venue publishes
    TopPrice,    \* of the prices 1..TopPrice of a book
    FirstDay,    \* the days walked through, counted from 1970-01-01;
    LastDay,     \* the first is FirstDate
    FirstDate,
    Back         \* how far a node's wall clock is set back, if it is

VARIABLES topic, input

vars == <<topic, input, files>>

-----------------------------------------------------------------------------
\* A touch: the quotes of one venue after the other.
VenueName == <<"bitstamp", "coinbase", "kraken">>

QuotesOf(i) ==
    [venue : {VenueName[i]}, status : {"live", "desynced"}, age : {NoAge, MaxAge, MaxAge + 1},
     bid : {NoPrice, 1, 2}, ask : {NoPrice, 2, 3}, integrity : {1 + (i % 2)}]

AddQuote ==
    /\ topic = "touch" /\ UNCHANGED topic /\ Len(input) < MaxQuotes
    /\ \E quote \in QuotesOf(Len(input) + 1) : input' = Append(input, quote)

Eligible(i) ==
    input[i].status = "live" /\ input[i].age \in 0..MaxAge
    /\ (input[i].bid # NoPrice \/ input[i].ask # NoPrice)

\* The first of the eligible quotes with the best price of a side.
BestOf(S, Price(_), Better(_, _)) ==
    CHOOSE i \in S : \A j \in S : Better(Price(i), Price(j))
                                  \/ (Price(i) = Price(j) /\ i <= j)

\* The touch is the best bid and the best ask of the venues that are live, fresh
\* and quoting, a tie going to the venue listed first; what it says of trust and
\* age is the worst of the two legs; every venue is used or excluded, once
\* (cross.rs).
TouchIsTheBest ==
    topic = "touch" =>
        LET touch == Consolidate(input, Len(input), MaxAge)
            eligible == {i \in DOMAIN input : Eligible(i)}
            bidders == {i \in eligible : input[i].bid # NoPrice}
            askers == {i \in eligible : input[i].ask # NoPrice}
            bid == BestOf(bidders, LAMBDA i : input[i].bid, LAMBDA p, q : p > q)
            ask == BestOf(askers, LAMBDA i : input[i].ask, LAMBDA p, q : p < q)
            legs == (IF bidders = {} THEN {} ELSE {bid}) \union (IF askers = {} THEN {} ELSE {ask})
        IN  /\ touch.bid = IF bidders = {} THEN NoLeg ELSE Leg(input[bid], input[bid].bid)
            /\ touch.ask = IF askers = {} THEN NoLeg ELSE Leg(input[ask], input[ask].ask)
            /\ legs # {} => /\ touch.floor = Min({input[i].integrity : i \in legs})
                            /\ touch.oldest = Max({input[i].age : i \in legs})
            /\ touch.used = Cardinality(eligible)
            /\ {touch.excluded[k].venue : k \in DOMAIN touch.excluded}
                 = {input[i].venue : i \in DOMAIN input \ eligible}
            /\ touch.used + Len(touch.excluded) = Len(input)

-----------------------------------------------------------------------------
\* Windows: three venues, whose books are sampled and whose trades are printed;
\* the third publishes one span only.
Spans(i) == IF i = 3 THEN <<60>> ELSE <<60, 300>>
TrustedOf(i) == 20 * i

WindowLegs ==
    [i \in 1..3 |->
        [venue |-> i, lag |-> 3 - i,
         windows |-> [k \in DOMAIN Spans(i) |->
            ReadingOf(Spans(i)[k], TrustedOf(i), 1 + (i % 2), input[i].mids, input[i].prints)]]]

Items == MapThenSumSet(LAMBDA i : Len(input[i].mids) + Len(input[i].prints), 1..3)

AddSample ==
    /\ topic = "windows" /\ UNCHANGED topic /\ Items < MaxItems
    /\ \E i \in 1..3, mid \in {2, 3, 8} :
         input' = [input EXCEPT ![i].mids = Append(@, mid)]

AddPrint ==
    /\ topic = "windows" /\ UNCHANGED topic /\ Items < MaxItems
    /\ \E i \in 1..3, price \in {2, 5}, qty \in 0..2 :
         input' = [input EXCEPT ![i].prints = Append(@, [price |-> price, qty |-> qty])]

WithinOne(x, y) == x - y \in -1..1

\* The merge of the venues' readings is the reading of all their samples and
\* prints: the counts, the extremes and the volume exactly, the two averages to
\* a unit of the last place, because each venue has rounded its own before.
\* What is merged is qualified by its least-watched and least-trusted
\* contributor, and a venue that does not contribute is named
\* (cross_windows.rs).
MergedIsTheWhole ==
    topic = "windows" =>
        \A n \in DOMAIN ConsolidateWindows(WindowLegs) :
            LET merged == ConsolidateWindows(WindowLegs)[n]
                asked == {i \in 1..3 : merged.span \in {Spans(i)[k] : k \in DOMAIN Spans(i)}}
                used == {i \in asked : input[i].mids # <<>> \/ input[i].prints # <<>>}
                sampled == {i \in used : input[i].mids # <<>>}
                All(F(_)) == FoldLeft(LAMBDA s, i : IF i \in asked THEN s \o F(i) ELSE s,
                                      <<>>, <<1, 2, 3>>)
                whole == ReadingOf(merged.span, 0, 0, All(LAMBDA i : input[i].mids),
                                   All(LAMBDA i : input[i].prints))
            IN  /\ merged.samples = whole.samples /\ merged.trades = whole.trades
                /\ merged.high = whole.high /\ merged.low = whole.low
                /\ merged.volume = whole.volume
                /\ WithinOne(merged.mean, whole.mean) /\ WithinOne(merged.vwap, whole.vwap)
                /\ \A i \in used : merged.trustedFloor <= TrustedOf(i) /\ merged.maxLag >= 3 - i
                /\ \A i \in sampled : merged.integrity <= 1 + (i % 2)
                /\ {e.venue : e \in merged.excluded} = (1..3) \ used
                /\ merged.venuesUsed = Cardinality(used)

-----------------------------------------------------------------------------
\* A file: events appended by the writer, read back in batches of any size.
Base == 1

Blank == [kind |-> "delta", bids |-> <<>>, asks |-> <<>>, trade |-> Null, checksum |-> Null,
          counter |-> Null, at |-> Base]

EventKinds ==
    {[Blank EXCEPT !.kind = "snapshot", !.bids = <<"l1", "l2">>, !.asks = <<"l3">>],
     [Blank EXCEPT !.bids = <<"l2", "l1">>],
     [Blank EXCEPT !.asks = <<"l1">>],
     Blank,
     [Blank EXCEPT !.kind = "trade", !.trade = Some("t1")],
     [Blank EXCEPT !.kind = "checksum", !.checksum = Some("c1")],
     [Blank EXCEPT !.kind = "heartbeat"],
     [Blank EXCEPT !.kind = "heartbeat", !.counter = Some(MaxInt + 1)]}

AddEvent ==
    /\ topic = "rows" /\ UNCHANGED topic /\ Len(input) < MaxEvents
    /\ \E event \in EventKinds, at \in {Base - 1, Base + 2} :
         input' = Append(input, [event EXCEPT !.at = at])

FileRows == FoldLeft(LAMBDA rows, i : rows \o Flatten(input[i], i, Base), <<>>,
                     [i \in DOMAIN input |-> i])

InBatchesOf(n, rows) ==
    [k \in 1..((Len(rows) + n - 1) \div n) |->
        SubSeq(rows, (k - 1) * n + 1, IF k * n > Len(rows) THEN Len(rows) ELSE k * n)]

\* What an event is when it comes back: its instant has become an offset, and
\* the signed columns have their limit.
Stored(event) ==
    [kind |-> event.kind, bids |-> event.bids, asks |-> event.asks,
     trade |-> event.trade, checksum |-> event.checksum,
     counter |-> IF event.counter = Null THEN Null ELSE Some(Saturated(event.counter[1])),
     elapsed |-> Saturated(Since(event.at, Base))]

\* Wherever the batches of a file are cut, its events come back one for one, in
\* order, with their levels in the venue's order, the events without any level
\* included (reader.rs:289-291, schema.rs:53-56).
RowsComeBack ==
    topic = "rows" =>
        \A n \in 1..(Len(FileRows) + 1) :
            Decode(InBatchesOf(n, FileRows))
              = [failed |-> FALSE, out |-> [i \in DOMAIN input |-> Stored(input[i])]]

-----------------------------------------------------------------------------
\* The calendar, one day after the other.
IsLeap(year) == year % 4 = 0 /\ (year % 100 # 0 \/ year % 400 = 0)

LengthOf(month, year) ==
    IF month = 2 THEN 28 + Bit(IsLeap(year))
    ELSE IF month \in {4, 6, 9, 11} THEN 30 ELSE 31

Tomorrow(date) ==
    IF date.day < LengthOf(date.month, date.year) THEN [date EXCEPT !.day = @ + 1]
    ELSE IF date.month < 12 THEN [date EXCEPT !.day = 1, !.month = @ + 1]
    ELSE [year |-> date.year + 1, month |-> 1, day |-> 1]

NextDay ==
    /\ topic = "calendar" /\ UNCHANGED topic /\ input.day < LastDay
    /\ input' = [day |-> input.day + 1, date |-> Tomorrow(input.date)]

\* The two conversions are the Gregorian calendar and each other's inverse, so
\* the hour's directory of an event and the timestamp a venue gives for that
\* hour, in any time zone, are the same hour, and a tape of that hour has its
\* date (writer.rs:510-515, common.rs:145-150, record.rs:257-272).
DatesAreTheCalendar ==
    topic = "calendar" =>
        LET date == input.date
            Stamp(hour, offset) == [year |-> date.year, month |-> date.month, day |-> date.day,
                                    hour |-> hour, minute |-> 59, second |-> 60,
                                    offset |-> offset]
        IN  /\ CivilFromDays(input.day) = date
            /\ DaysFromCivil(date.year, date.month, date.day) = input.day
            /\ input.day > 0 => \A hour \in {0, 23}, zone \in {-60, 0, 60} :
                 LET read == ParseRfc3339(Stamp(hour, zone))
                 IN  /\ read.second = 59
                     /\ DateHour(read.minutes + zone) = [date |-> date, hour |-> hour]
                     /\ DateStamp(read.minutes + zone) = date

-----------------------------------------------------------------------------
\* A book's levels.  The venue publishes the best Depth levels of a side: the
\* levels that are new among them or have a new quantity, and those that it has
\* deleted, but not those that a better price has pushed out.
LevelsIn(side, prices) ==
    SetToSeq({[price |-> p, qty |-> IF p \in DOMAIN side THEN side[p] ELSE 0] : p \in prices})

Scope(side, which) ==
    Restrict(side, {p \in DOMAIN side :
        Cardinality({q \in DOMAIN side : IF which = "bid" THEN q > p ELSE q < p}) < Depth})

Changes(old, new, which) ==
    LET before == Scope(old, which)
        after == Scope(new, which)
    IN  LevelsIn(new, {p \in DOMAIN before : p \notin DOMAIN new}
                      \union {p \in DOMAIN after : p \notin DOMAIN before \/ after[p] # before[p]})

WithQty(side, price, qty) == ApplyLevel(side, [price |-> price, qty |-> qty])

\* One message may carry two changes, and lists its levels in any order.
VenueUpdates ==
    /\ topic = "levels" /\ UNCHANGED topic
    /\ \E p1, p2 \in 1..TopPrice, q1, q2 \in 0..2, s1, s2 \in {"bids", "asks"} :
         LET once == [input.venue EXCEPT ![s1] = WithQty(@, p1, q1)]
             book == [once EXCEPT ![s2] = WithQty(@, p2, q2)]
             message == [bids |-> Changes(input.venue.bids, book.bids, "bid"),
                         asks |-> Changes(input.venue.asks, book.asks, "ask")]
         IN  /\ ~IsCrossed(book)
             /\ \E told \in {message, [bids |-> Reverse(message.bids),
                                       asks |-> Reverse(message.asks)]} :
                  input' = [venue |-> book, held |-> DeltaLevels(input.held, told, Depth)]

Resubscribe ==
    /\ topic = "levels" /\ UNCHANGED topic
    /\ input' = [input EXCEPT !.held =
         SnapshotLevels([bids |-> Changes(NoLevels, input.venue.bids, "bid"),
                         asks |-> Changes(NoLevels, input.venue.asks, "ask")], Depth)]

\* The book held is the one the venue publishes and hashes, level for level: a
\* level that was pushed out is not kept, and none is pruned that the rest of
\* the message makes room for (book.rs:454-472, endpoint.rs:130-140).
HeldIsWhatIsPublished ==
    topic = "levels" =>
        /\ input.held = [bids |-> Scope(input.venue.bids, "bid"),
                         asks |-> Scope(input.venue.asks, "ask")]
        /\ TopLevels(input.held.bids, "bid", Depth) = TopLevels(input.venue.bids, "bid", Depth)
        /\ TopLevels(input.held.asks, "ask", Depth) = TopLevels(input.venue.asks, "ask", Depth)
        /\ ~IsCrossed(input.held)

-----------------------------------------------------------------------------
\* The archives of two nodes, in the order in which their events were recorded:
\* the first writes two symbols, each a partition of its own, the other one.
\* Once, at most, one of the nodes restarts, or has its wall clock set back.
NodeOf(partition) == IF partition = 3 THEN 2 ELSE 1

AddStored ==
    /\ topic = "timeline" /\ UNCHANGED topic /\ Len(input) < MaxEvents + 1
    /\ \E partition \in 1..3, gap \in {0, 4}, work \in {0, 1},
          mishap \in {"none", "restart", "back"} :
         LET at == gap + (IF input = <<>> THEN 0 ELSE Last(input).at)
             mine == {i \in DOMAIN input : NodeOf(input[i].partition) = NodeOf(partition)}
             before == IF mine = {} THEN [began |-> at, behind |-> 0] ELSE input[Max(mine)]
             began == IF mishap = "restart" THEN at ELSE before.began
             behind == before.behind + (IF mishap = "back" THEN Back ELSE 0)
         IN  /\ mishap = "restart" => \A i \in mine : input[i].at < at
             /\ mishap # "none" =>
                    mine # {} /\ \A i \in DOMAIN input : input[i].mishap = "none"
             /\ input' = Append(input,
                    [partition |-> partition, mishap |-> mishap, at |-> at, began |-> began,
                     behind |-> behind, wall |-> at - behind, elapsed |-> at - began,
                     work |-> work])

\* What a replay of the first node, or of both, reads.
ReadFrom(prefixes) ==
    LET kept == SelectSeq(input, LAMBDA e : NodeOf(e.partition) <= prefixes)
    IN  Merged([p \in 1..(prefixes + 1) |-> SelectSeq(kept, LAMBDA e : e.partition = p)],
               Len(kept))

Happened(events, mishap) == \E i \in DOMAIN events : events[i].mishap = mishap

WorkBefore(events, i) == MapThenSumSet(LAMBDA j : events[j].work, 1..(i - 1))

\* How long a replay of one node leaves out: from the last event of a run to the
\* first of the next.
Downtime(events, i) ==
    MapThenSumSet(LAMBDA j : IF events[j + 1].began # events[j].began
                             THEN events[j + 1].at - events[j].at ELSE 0, 1..(i - 1))

\* Whatever partitions they are in, the events of a replay are sent in the order
\* they were recorded in and as far apart, plus the work of sending them, if no
\* clock was set back: alone by their own offsets, within a run of the writer,
\* or with another node's by the wall clock, across its restarts.  A clock that
\* was set back makes nothing early, and costs each partition at most one more
\* sleep of as much (archive.rs:69-91).  That the work is added to the pauses is
\* not what archive.rs:49-50 says ("the tape's rules exactly"), and that a stamp
\* may go back is not what archive.rs:86-87 says ("clamped monotonic").
ArchiveKeepsItsSpacing ==
    topic = "timeline" =>
        \A prefixes \in {1, 2}, speed \in {1, 2} :
            LET events == ReadFrom(prefixes)
                sent == ReplayArchiveMany(events, Base, prefixes, speed)
                Slept(i) == speed * (sent[i].when - WorkBefore(events, i))
                Apart(i) == events[i].at - events[1].at
            IN  \A i \in DOMAIN events :
                  /\ Slept(i) >= sent[i].at - Base
                  /\ Slept(i) <= Max({Apart(j) : j \in 1..i})
                                  + (IF Happened(events, "back") THEN 2 * Back ELSE 0)
                  /\ ~Happened(events, "back") /\ prefixes = 1 =>
                        /\ Slept(i) = Apart(i) - Downtime(events, i)
                        /\ sent[i].at = Base + events[i].at - events[i].began
                  /\ ~Happened(events, "back") /\ prefixes = 2 =>
                        /\ Slept(i) = Apart(i)
                        /\ sent[i].at = Base + Apart(i)

-----------------------------------------------------------------------------
\* A tape: messages in the order they came in, the first of them perhaps before
\* the writer read its start, with the work each costs the replay.
AddTaped ==
    /\ topic = "tape" /\ UNCHANGED topic /\ Len(input) < MaxEvents + 1
    /\ \E gap \in {0, 2, 4}, work \in 0..3 :
         input' = Append(input, [at |-> gap + IF input = <<>> THEN -2 ELSE Last(input).at,
                                 work |-> work])

\* A replay at any speed gives its messages the spacing they were recorded with,
\* those from before the start counted as at the start; and a replay that fell
\* behind catches up: a message is late only by the work of the messages before
\* it that could not be done by its deadline, never by what an earlier gap has
\* already absorbed (tape.rs:423-441).
RealtimeCatchesUp ==
    topic = "tape" =>
        \A speed \in {1, 2} :
            LET lines == [i \in DOMAIN input |->
                             [elapsed |-> Elapsed(input[i].at, 0), work |-> input[i].work]]
                sent == ReplayTape(lines, Base, speed)
                Deadline(i) == lines[i].elapsed \div speed
                WorkOf(j, i) == MapThenSumSet(LAMBDA k : lines[k].work, j..(i - 1))
            IN  \A i \in DOMAIN input :
                  /\ sent[i].at = Base + (IF input[i].at < 0 THEN 0 ELSE input[i].at)
                  /\ sent[i].when = Max({Deadline(j) + WorkOf(j, i) : j \in 1..i})

\* A replay runs on a clock that is made a moment before it begins and goes as
\* fast as the tape: what is sent is never from the future, and only as old as
\* the replay is late, so ages are ages of the market (time.rs:116-130: "zero
\* ages, and no window data at all").
ReplayClockKeepsUp ==
    topic = "tape" =>
        \A speed \in {1, 2}, startup \in {0, 1} :
            LET lines == [i \in DOMAIN input |->
                             [elapsed |-> Elapsed(input[i].at, 0), work |-> input[i].work]]
                sent == ReplayTape(lines, ScaledNow(Base, startup, speed), speed)
            IN  \A i \in DOMAIN input :
                  ScaledNow(Base, startup + sent[i].when, speed) - sent[i].at
                    = speed * (sent[i].when - lines[i].elapsed \div speed)

-----------------------------------------------------------------------------
\* History: the frames of a live book, and the book that a replay makes of the
\* events recorded from them, beginning wherever it likes.
Sides == {[bids |-> bids, asks |-> asks] :
            bids \in {<<>>, <<[price |-> 1, qty |-> 1]>>, <<[price |-> 3, qty |-> 1]>>,
                      <<[price |-> 1, qty |-> 0], [price |-> 2, qty |-> 1]>>},
            asks \in {<<>>, <<[price |-> 3, qty |-> 1]>>, <<[price |-> 3, qty |-> 0]>>}}

LevelAction(kind, sides) == [kind |-> kind, bids |-> sides.bids, asks |-> sides.asks]

\* What a sync layer makes of a frame: a snapshot, which may bring the deltas
\* buffered until then; a delta, with the venue's claim about its outcome; or
\* that the stream is broken.
FramesOf(book) ==
    {<<LevelAction("snapshot", s), LevelAction("delta", d)>> : s, d \in Sides}
    \union {<<LevelAction("delta", d), [kind |-> "checksum", value |-> claim]>> :
              d \in Sides, claim \in {DeltaLevels(book.levels, d, Depth) : d \in Sides}}
    \union {<<[kind |-> "desync"]>>, <<[kind |-> "ignore"], [kind |-> "forward"]>>}

FrameArrives ==
    /\ topic = "history" /\ UNCHANGED topic
    /\ \E frame \in FramesOf(input.live) :
         LET applied == ApplyIngested(input.live, frame, Depth)
         IN  input' = [live |-> applied.book,
                       replayed |-> ReplayEvents(input.replayed, applied.events, Depth)]

SessionIsLost ==
    /\ topic = "history" /\ UNCHANGED topic
    /\ input' = [input EXCEPT !.live = SessionEnds(@)]

ReplayBeginsHere ==
    /\ topic = "history" /\ UNCHANGED topic
    /\ input' = [input EXCEPT !.replayed = UninitializedBook]

\* A replay of the recorded events holds the levels the live book held, whatever
\* was lost, refused or found wrong in between and wherever in the record the
\* replay began, once it has met a snapshot; and it trusts them whenever the
\* live run did (sync.rs:590-597: "a recorded delta that was never applied would
\* replay into a book the live run never had").
ReplayedBookIsTheLiveOne ==
    topic = "history" /\ input.replayed.state # "uninitialized" =>
        /\ input.replayed.levels = input.live.levels
        /\ input.live.state = "live" => input.replayed.state = "live"

-----------------------------------------------------------------------------
\* Files: nodes that announce, crash, restart and withdraw under one reader.
FilesChange == topic = "files" /\ FilesNext /\ UNCHANGED <<topic, input>>

-----------------------------------------------------------------------------
\* Checksum: levels of a side each, in the order in which a snapshot lists them.
\* A price has one spelling, the venue's, and no price is listed twice.
Text(whole, fraction) == IF fraction = <<>> THEN whole ELSE whole \o <<".">> \o fraction

PriceTexts == {Text(<<"0">>, <<"0", "9">>), Text(<<"1">>, <<"0", "0">>),
               Text(<<"1">>, <<"2", "0">>), Text(<<"1", "0">>, <<"0", "0">>)}
QtyTexts == {Text(<<"0">>, <<"0", "1", "0", "0">>), Text(<<"2">>, <<"0", "0", "3", "0">>),
             Text(<<"3", "0">>, <<>>)}

Listed(side) == {input[side][i].price : i \in DOMAIN input[side]}

AddLevel ==
    /\ topic = "checksum" /\ UNCHANGED topic
    /\ Len(input.asks) + Len(input.bids) < Depth + 1
    /\ \E side \in {"asks", "bids"}, qty \in QtyTexts :
         \E price \in PriceTexts \ Listed(side) :
            input' = [input EXCEPT ![side] = Append(@, [price |-> price, qty |-> qty])]

\* What Kraken hashes of a text: it without its point and its leading zeros.
Significant(text) ==
    LET digits == SelectSeq(text, LAMBDA char : char # ".")
    IN  SubSeq(digits, Min({i \in DOMAIN digits : digits[i] # "0"}), Len(digits))

\* The digits that are hashed are those the venue sent for the best levels it
\* listed, with every trailing zero and in the venue's order, so that a book
\* that is right is never found wrong (kraken.rs:27-35: "a completely different
\* checksum for a numerically identical value").
DigitsAreThoseSent ==
    topic = "checksum" =>
        LET Cheaper(a, b) == Value(ExactDecimal(a.price), 4) < Value(ExactDecimal(b.price), 4)
            asks == SortSeq(input.asks, Cheaper)
            bids == SortSeq(input.bids, LAMBDA a, b : Cheaper(b, a))
            Best(levels) == SubSeq(levels, 1, Min({Depth, Len(levels)}))
            Sent(levels) == FoldLeft(LAMBDA all, level :
                                all \o Significant(level.price) \o Significant(level.qty),
                                <<>>, levels)
        IN  Hashed(input.asks, input.bids, Depth, 4) = Sent(Best(asks) \o Best(bids))

------------------------------------------------------------------------------
(* The promises, by what they are about.                                     *)

\* What is shown of several venues is what one would compute of them together:
\* the touch and the windows (cross.rs, cross_windows.rs).
VenuesMakeOneView == TouchIsTheBest /\ MergedIsTheWhole

\* What is recorded comes back: an event from its rows, an hour from its name,
\* and a book from its events (reader.rs, writer.rs, sync.rs).
RecordIsFaithful == RowsComeBack /\ DatesAreTheCalendar /\ ReplayedBookIsTheLiveOne

\* A replay has the spacing of what it replays, in real time and on the clock
\* that its ages are measured by (tape.rs, archive.rs, time.rs).
ReplayKeepsTime == ArchiveKeepsItsSpacing /\ RealtimeCatchesUp /\ ReplayClockKeepsUp

\* The checksum of a right book is the venue's: it is taken over the levels
\* the venue takes it over, in the digits it sent (book.rs, kraken.rs).
HashedAsByTheVenue == HeldIsWhatIsPublished /\ DigitsAreThoseSent

-----------------------------------------------------------------------------
EmptyBookSides == [bids |-> NoLevels, asks |-> NoLevels]

Init ==
    /\ FilesInit
    /\ \/ topic \in {"touch", "rows", "timeline", "tape", "files"} /\ input = <<>>
       \/ topic = "windows" /\ input = [i \in 1..3 |-> [mids |-> <<>>, prints |-> <<>>]]
       \/ topic = "calendar" /\ input = [day |-> FirstDay, date |-> FirstDate]
       \/ topic = "levels" /\ input = [venue |-> EmptyBookSides, held |-> EmptyBookSides]
       \/ topic = "checksum" /\ input = [asks |-> <<>>, bids |-> <<>>]
       \/ topic = "history" /\ input = [live |-> UninitializedBook, replayed |-> UninitializedBook]

InputGrows ==
    \/ AddQuote \/ AddSample \/ AddPrint \/ AddEvent \/ NextDay
    \/ VenueUpdates \/ Resubscribe \/ AddStored \/ AddTaped
    \/ FrameArrives \/ SessionIsLost \/ ReplayBeginsHere \/ AddLevel

Next == (InputGrows /\ UNCHANGED files) \/ FilesChange

Spec == Init /\ [][Next]_vars
=============================================================================
