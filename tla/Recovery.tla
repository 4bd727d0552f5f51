------------------------------- MODULE Recovery -------------------------------
(* How a book that stopped being trustworthy becomes trustworthy again: the  *)
(* ingest task of one stream (ma-pipeline/src/ingest.rs) and its connection  *)
(* to the venue, the bounded drop-oldest channel to the aggregator           *)
(* (channel.rs), the aggregator applying messages to the VenueBook           *)
(* (aggregator.rs), and the resync request back to the ingest task           *)
(* (resync.rs).                                                              *)
(*                                                                           *)
(* The channel is shared by all streams.  `queue` is its projection to this  *)
(* stream: the others may fill the channel at any moment, so the oldest      *)
(* message of this stream may be evicted at any moment.                      *)
(*                                                                           *)
(* Everything that can go wrong is bounded by Budget.                        *)
EXTENDS VenueSync, Sequences

CONSTANTS
    Venues,         \* the venues to consider, one of which the stream is at
    Capacity,       \* of the channel
    MaxWire,        \* frames on the connection at once
    MaxVersion,     \* versions the venue's book goes through
    Budget          \* how often each kind of mishap may happen

Mishaps == {"disconnect",    \* a connection that fails, closes or falls silent
            "lag",           \* a subscription that takes effect some time after it is sent
            "skip",          \* an update that never reaches the connection
            "garble",        \* a frame that cannot be parsed
            "evict",         \* a message dropped from the full channel
            "chatter"}       \* a frame that is not about the book (no mishap, but bounded)

ASSUME RecoveryAssumption ==
    /\ Venues \subseteq {Coinbase, Kraken, Bitstamp}
    /\ {Capacity, MaxWire} \subseteq Nat \ {0}
    /\ MaxVersion \in Nat
    /\ Budget \in [Mishaps -> Nat]

VARIABLES
    venue,       \* the venue of the stream, chosen once
    version,     \* the version the venue's book is at
    pc,          \* of the ingest task: "connecting", "open" or "backoff"
    subscribed,  \* whether the venue sends its updates down the connection
    sent,        \* frames the venue counted on this connection
    wire,        \* frames on their way to the ingest task
    rest,        \* the REST fetch: "idle", "asked" or "answered"
    restAt,      \* the version of the answer
    queue,       \* the channel
    sync, book,  \* the VenueBook, owned by the aggregator
    wanted,      \* a resync was requested and not yet heard (the watch counter)
    spent        \* what is used of Budget

vars == <<venue, version, pc, subscribed, sent, wire, rest, restAt, queue, sync, book,
          wanted, spent>>
connection == <<pc, subscribed, sent, wire, rest, restAt>>
aggregator == <<sync, book>>

Frame(kind, seq, at, form) == [kind |-> kind, seq |-> seq, at |-> at, form |-> form]

Frames == [kind : {"snapshot", "update", "other", "rest"}, seq : Nat, at : Nat,
           form : {"good", "bad_envelope", "bad_events"}]

SessionEnded == [kind |-> "ended"]

HasAny(messages, kinds) == \E i \in DOMAIN messages : messages[i].kind \in kinds

CanSpend(mishap) == spent[mishap] < Budget[mishap]

Spending(mishaps) == [m \in Mishaps |-> IF m \in mishaps THEN spent[m] + 1 ELSE spent[m]]

TypeOK ==
    /\ venue \in Venues
    /\ version \in 0..MaxVersion
    /\ pc \in {"connecting", "open", "backoff"}
    /\ subscribed \in BOOLEAN
    /\ sent \in Nat
    /\ wire \in Seq(Frames) /\ Len(wire) <= MaxWire
    /\ rest \in {"idle", "asked", "answered"}
    /\ restAt \in 0..MaxVersion
    /\ queue \in Seq(Frames \union {SessionEnded}) /\ Len(queue) <= Capacity
    /\ sync \in Syncs
    /\ book \in Books
    /\ wanted \in BOOLEAN
    /\ \A m \in Mishaps : spent[m] \in 0..Budget[m]

Init ==
    /\ venue \in Venues
    /\ version = 0
    /\ pc = "connecting"
    /\ subscribed = FALSE /\ sent = 0 /\ wire = <<>>
    /\ rest = "idle" /\ restAt = 0
    /\ queue = <<>>
    /\ sync = FreshSync /\ book = EmptyBook
    /\ wanted = FALSE
    /\ spent = [m \in Mishaps |-> 0]

-------------------------------------------------------------------------------
(* The channel: a full one makes room by evicting its oldest message.        *)

Full == Len(queue) = Capacity

Pushed(message) == Append(IF Full THEN Tail(queue) ELSE queue, message)

\* An action that publishes, and for which `mishaps` happen as well.
Publish(message, mishaps) ==
    /\ Full => CanSpend("evict")
    /\ queue' = Pushed(message)
    /\ spent' = Spending(mishaps \union (IF Full THEN {"evict"} ELSE {}))

\* Another stream publishes into a full channel.
EvictedByOthers ==
    /\ queue # <<>> /\ CanSpend("evict")
    /\ queue' = Tail(queue)
    /\ spent' = Spending({"evict"})
    /\ UNCHANGED <<venue, version, connection, aggregator, wanted>>

-------------------------------------------------------------------------------
(* The venue.                                                                *)

\* The venue's book moves on.  On a subscribed connection the update is sent,
\* or counted and lost, or sent in a form that will not be understood.
VenueUpdates ==
    /\ version < MaxVersion
    /\ version' = version + 1
    /\ IF pc = "open" /\ subscribed
       THEN /\ sent' = sent + 1
            /\ \/ /\ Len(wire) < MaxWire
                  /\ wire' = Append(wire, Frame("update", sent, version + 1, "good"))
                  /\ UNCHANGED spent
               \/ /\ CanSpend("skip")
                  /\ spent' = Spending({"skip"})
                  /\ UNCHANGED wire
               \/ /\ Len(wire) < MaxWire /\ CanSpend("garble")
                  /\ \E form \in {"bad_envelope", "bad_events"} :
                        wire' = Append(wire, Frame("update", sent, version + 1, form))
                  /\ spent' = Spending({"garble"})
       ELSE UNCHANGED <<sent, wire, spent>>
    /\ UNCHANGED <<venue, pc, subscribed, rest, restAt, queue, aggregator, wanted>>

\* A heartbeat, a trade or an ack: counted like everything else.  It brings no
\* version but the one the venue's book is at.
VenueChatters ==
    /\ pc = "open" /\ Len(wire) < MaxWire /\ CanSpend("chatter")
    /\ wire' = Append(wire, Frame("other", sent, version, "good"))
    /\ sent' = sent + 1
    /\ spent' = Spending({"chatter"})
    /\ UNCHANGED <<venue, version, pc, subscribed, rest, restAt, queue, aggregator, wanted>>

SubscriptionTakesEffect ==
    /\ pc = "open" /\ ~subscribed
    /\ subscribed' = TRUE
    /\ UNCHANGED <<venue, version, pc, sent, wire, rest, restAt, queue, aggregator, wanted, spent>>

RestAnswered ==
    /\ rest = "asked"
    /\ rest' = "answered" /\ restAt' = version
    /\ UNCHANGED <<venue, version, pc, subscribed, sent, wire, queue, aggregator, wanted, spent>>

-------------------------------------------------------------------------------
(* The ingest task.                                                          *)

\* Mutant: an endpoint without the URL of its snapshot.
ConnectWithoutRest ==
    /\ pc = "connecting"
    /\ pc' = "open"
    /\ subscribed' = TRUE
    /\ IF venue = Bitstamp
       THEN UNCHANGED <<sent, wire>>
       ELSE /\ wire' = <<Frame("snapshot", 0, version, "good")>>
            /\ sent' = 1
    /\ UNCHANGED <<venue, version, rest, restAt, queue, aggregator, wanted, spent>>

\* Connected and subscribed: Coinbase and Kraken open with a snapshot, and for
\* Bitstamp the REST fetch begins.
Connect ==
    /\ pc = "connecting"
    /\ pc' = "open"
    /\ IF venue = Bitstamp
       THEN /\ \/ subscribed' = TRUE /\ UNCHANGED spent
               \/ subscribed' = FALSE /\ CanSpend("lag") /\ spent' = Spending({"lag"})
            /\ rest' = "asked"
            /\ UNCHANGED <<sent, wire>>
       ELSE /\ subscribed' = TRUE
            /\ wire' = <<Frame("snapshot", 0, version, "good")>>
            /\ sent' = 1
            /\ UNCHANGED <<rest, spent>>
    /\ UNCHANGED <<venue, version, restAt, queue, aggregator, wanted>>

\* Mutant: the aggregator is not told.
EndSessionSilently(mishaps) ==
    /\ pc' = "backoff"
    /\ subscribed' = FALSE /\ sent' = 0 /\ wire' = <<>>
    /\ rest' = "idle" /\ restAt' = 0
    /\ spent' = Spending(mishaps)
    /\ UNCHANGED <<venue, version, aggregator, queue>>

\* The end of a session, whatever ended it, is published before the pause.
EndSession(mishaps) ==
    /\ pc' = "backoff"
    /\ subscribed' = FALSE /\ sent' = 0 /\ wire' = <<>>
    /\ rest' = "idle" /\ restAt' = 0
    /\ Publish(SessionEnded, mishaps)
    /\ UNCHANGED <<venue, version, aggregator>>

\* The connection fails, or is closed, or breaks, or is idle for too long.
SessionBreaks ==
    /\ \/ pc = "connecting"
       \/ pc = "open" /\ ~wanted
    /\ CanSpend("disconnect")
    /\ EndSession({"disconnect"})
    /\ UNCHANGED wanted

\* The first thing an open session looks at; a request made while there was
\* none is heard by the next.
HearResync ==
    /\ pc = "open" /\ wanted
    /\ wanted' = FALSE
    /\ EndSession({})

RestLands ==
    /\ pc = "open" /\ ~wanted /\ rest = "answered"
    /\ rest' = "idle"
    /\ Publish(Frame("rest", 0, restAt, "good"), {})
    /\ UNCHANGED <<venue, version, pc, subscribed, sent, wire, restAt, aggregator, wanted>>

Receive ==
    /\ pc = "open" /\ ~wanted /\ wire # <<>>
    /\ wire' = Tail(wire)
    /\ Publish(Head(wire), {})
    /\ UNCHANGED <<venue, version, pc, subscribed, sent, rest, restAt, aggregator, wanted>>

BackoffEnds ==
    /\ pc = "backoff"
    /\ pc' = "connecting"
    /\ UNCHANGED <<venue, version, subscribed, sent, wire, rest, restAt, queue, aggregator,
                   wanted, spent>>

-------------------------------------------------------------------------------
(* The aggregator.                                                           *)

\* Mutant: a gap is taken for something a reconnect is already repairing.
RequestsResyncButForGaps(before, after) ==
    ~IsDesynced(before) /\ IsDesynced(after) /\ NeedsFreshStream(after.reason) /\ after.reason # "gap"

\* A book that has just become desynced by what it was fed.
RequestsResync(before, after) ==
    ~IsDesynced(before) /\ IsDesynced(after) /\ NeedsFreshStream(after.reason)

Outcome(message, crosses) ==
    IF message.kind = "ended" THEN Reset(book) ELSE Feed(venue, sync, book, message, crosses)

Apply ==
    /\ queue # <<>>
    /\ queue' = Tail(queue)
    /\ \E crosses \in BOOLEAN :
          LET outcome == Outcome(Head(queue), crosses)
          IN  /\ sync' = outcome.sync
              /\ book' = outcome.book
              /\ wanted' = (wanted \/ RequestsResync(book, outcome.book))
    /\ UNCHANGED <<venue, version, connection, spent>>

-------------------------------------------------------------------------------
Next ==
    \/ EvictedByOthers
    \/ VenueUpdates \/ VenueChatters \/ SubscriptionTakesEffect \/ RestAnswered
    \/ Connect \/ SessionBreaks \/ HearResync \/ RestLands \/ Receive \/ BackoffEnds
    \/ Apply

Spec == Init /\ [][Next]_vars

\* The tasks run, a connection attempt and a REST fetch that keep being made
\* succeed in the end (mishaps are bounded), and subscriptions take effect.
Fairness ==
    /\ WF_vars(Connect) /\ WF_vars(HearResync) /\ WF_vars(RestLands) /\ WF_vars(Receive)
    /\ WF_vars(BackoffEnds) /\ WF_vars(Apply)
    /\ WF_vars(RestAnswered) /\ WF_vars(SubscriptionTakesEffect)

FairSpec == Spec /\ Fairness

-------------------------------------------------------------------------------
(* What the code promises, and what has to have gone wrong when it does not  *)
(* hold.                                                                     *)

NoneOf(mishaps) == \A m \in mishaps : spent[m] = 0

NothingLost == NoneOf({"lag", "skip", "garble", "evict"})

\* A live book is the venue's own book at some version, with no update missing
\* (book.rs, Integrity).  At Kraken that holds whatever is lost on the way.  At
\* Coinbase it fails only when a frame could not be parsed, or when both the
\* end of a connection and the next connection's snapshot were evicted.  At
\* Bitstamp, whose integrity is OrderOnly, only if nothing was lost and the
\* subscription was not slower than the REST answer: the splice itself and the
\* race between the two never open a hole.
TrustMatchesIntegrity ==
    IsLive(book) /\ book.hole =>
        /\ venue # Kraken
        /\ venue = Coinbase => spent["garble"] > 0 \/ spent["evict"] > 1
        /\ venue = Bitstamp => ~NothingLost

\* A book is blamed on the data only if data was lost: an ordinary reconnect,
\* a REST answer that overtakes diffs or is overtaken by them, and a resync
\* never look like a gap, a bad checksum, a reordering or a crossed book.
NoFalseAlarm ==
    IsDesynced(book) /\ book.reason \in {"gap", "checksum", "regression", "crossed"} =>
        ~NothingLost

\* No live prices are served through an outage: while the stream has no
\* connection, a book that is still live is about to be told
\* (ingest.rs run: "for the whole reconnect window").
NotLiveWhileDisconnected ==
    pc # "open" /\ IsLive(book) => HasAny(queue, {"ended"})

\* That holds as long as the channel evicts nothing.
OutageIsTold == NoneOf({"evict"}) => NotLiveWhileDisconnected

\* The state is well typed, and while nothing is evicted no book stays live
\* through an outage (ingest.rs run: every session ends in a SessionEnded).
Inv == TypeOK /\ OutageIsTold

\* "Is anyone already fixing this?" (book.rs, needs_fresh_stream): whenever the
\* book is not live, something on its way will make it live.
SomeoneIsFixingIt ==
    \/ IsLive(book)
    \/ pc # "open" \/ wanted \/ rest # "idle"
    \/ HasAny(wire, {"snapshot"})
    \/ HasAny(queue, {"snapshot", "rest", "ended"})

\* What the code recovers from by itself: anything but an eviction, except
\* that a Bitstamp book may cross while the snapshot is spliced into diffs with
\* one missing.
Recoverable ==
    /\ NoneOf({"evict"})
    /\ venue = Bitstamp => NothingLost

FixUnderWay == Recoverable => SomeoneIsFixingIt

\* Once no more goes wrong, the book becomes live and stays so
\* (resync.rs, "The gap this closes").
Recovers == <>[](Recoverable => IsLive(book))
===============================================================================
