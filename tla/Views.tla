-------------------------------- MODULE Views --------------------------------
(* What the aggregator publishes about one stream (ma-pipeline/src/          *)
(* aggregator.rs): the status of the book and how long it has held it, the   *)
(* time spent desynced and the rolling windows.                              *)
(*                                                                           *)
(* A message carries the time at which it was received, and is applied       *)
(* later: between the two, a snapshot may account for a time the message is  *)
(* about.  What a message does to the book is the business of VenueSync;     *)
(* here it is one of the effects the account has to follow.                  *)
EXTENDS Windows

Kinds == {"snapshot",   \* the book is live again; with mid NoPrice, it has one side
          "delta",      \* its mid is another; of no effect on a book that is not live, like
                        \* a frame that cannot be parsed
          "gap",        \* it cannot be trusted any more
          "trade",      \* a print
          "ended"}      \* the session is over

CONSTANTS
    Contents,      \* what messages may be: a kind, and the mid of a book after it
    MaxTime,       \* the clock stops there
    MaxMessages,   \* messages received in all
    MaxQueue,      \* messages waiting for the aggregator
    MaxDelay,      \* ticks a message waits at most
    Skew,          \* ticks between stamping and queueing the supervisor's messages
    Stall          \* ticks of the one suspension of the process

ASSUME ViewsAssumption ==
    /\ \A c \in Contents : c.kind \in Kinds /\ c.mid \in Nat
    /\ {MaxTime, MaxMessages, MaxQueue, MaxDelay, Skew, Stall} \subseteq Nat

\* A message waits shorter than the longest window lasts, the time between its
\* stamp and the queue included: a later one would clear a bucket that can
\* still be read.  The code counts on it and does not enforce it.
ASSUME DelayAssumption ==
    /\ Skew < MaxDelay
    /\ MaxDelay <= Longest * Resolution

VARIABLES
    now,        \* the ingest clock
    stalled,    \* the process has been suspended
    received,   \* messages so far
    queue,      \* the channel
    state,       \* of the stream: its status, since when and why, and its mid
    account,    \* desynced_total, desynced_since, status_since and the count of desyncs
    windows,
    view,       \* the stream in the last snapshot that has it
    samples, prints,  \* history: what the windows were told
    belief            \* history: the status every accounted tick was charged at

vars == <<now, stalled, received, queue, state, account, windows, view,
          samples, prints, belief>>
history == <<samples, prints, belief>>

Statuses == {"uninitialized", "live", "desynced"}
Never == -1
\* Before the first snapshot.
NoView == [status |-> "uninitialized", statusFor |-> 0,
           desynced |-> 0, windows |-> <<>>]

TypeOK ==
    /\ now \in 0..MaxTime
    /\ received \in 0..MaxMessages
    /\ Len(queue) <= MaxQueue
    /\ \A i \in DOMAIN queue : queue[i].kind \in Kinds /\ queue[i].at \in 0..now
    /\ state.status \in Statuses
    /\ account.total \in Nat /\ account.since \in {Never} \union 0..now
    /\ account.since # Never <=> state.status = "desynced"
    /\ windows.charged \in 0..now /\ Len(belief) = windows.charged
    /\ windows.trusted = (state.status = "live")
    /\ \A slot \in DOMAIN windows.buckets :
          /\ windows.buckets[slot].untrusted \in 0..Resolution
          /\ windows.buckets[slot].index \in {NoIndex} \union {i \in Nat : i % Ring = slot}

\* VenueState, as it is kept beside the book.
NewBook == [status |-> "uninitialized", since |-> 0, reason |-> "none", mid |-> NoPrice]
NewAccount == [total |-> 0, since |-> Never, statusSince |-> 0, desyncs |-> 0]

Init ==
    /\ now = 0 /\ stalled = FALSE
    /\ received = 0 /\ queue = <<>>
    /\ state = NewBook
    /\ account = NewAccount
    /\ windows = NewWindows
    /\ view = NoView
    /\ samples = <<>> /\ prints = <<>> /\ belief = <<>>

------------------------------------------------------------------------------
(* Time and messages.                                                        *)

\* The aggregator keeps up: no message waits longer than MaxDelay.
Tick ==
    \E d \in {1} \union (IF stalled THEN {} ELSE {Stall}) :
        /\ now + d <= MaxTime
        /\ \A i \in DOMAIN queue : now + d <= queue[i].at + MaxDelay
        /\ now' = now + d
        /\ stalled' = (stalled \/ d # 1)
        /\ UNCHANGED <<received, queue, state, account, windows, view, history>>

\* A message is stamped and queued; the session's end is stamped by the
\* ingest task or by the supervisor, a moment before it is queued.
Receive(content, at) ==
    /\ received < MaxMessages /\ Len(queue) < MaxQueue
    /\ at \in (IF content.kind = "ended" THEN MaxOf(now - Skew, 0) ELSE now)..now
    /\ queue' = Append(queue, [kind |-> content.kind, mid |-> content.mid, at |-> at])
    /\ received' = received + 1
    /\ UNCHANGED <<now, stalled, state, account, windows, view, history>>

------------------------------------------------------------------------------
(* Applying a message.                                                       *)

\* A snapshot makes the book live, a delta changes a live one, a gap or the
\* end of the session leaves it desynced, and the rest is not about the book.
BookAfter(message) ==
    CASE message.kind = "snapshot" ->
            [status |-> "live", since |-> message.at, reason |-> "none", mid |-> message.mid]
      [] message.kind = "delta" /\ state.status = "live" -> [state EXCEPT !.mid = message.mid]
      [] message.kind = "gap" ->
            [state EXCEPT !.status = "desynced", !.since = message.at, !.reason = "gap"]
      [] message.kind = "ended" ->
            [state EXCEPT !.status = "desynced", !.since = message.at, !.reason = "lost"]
      [] OTHER -> state

SameStatus(before, after) ==
    /\ before.status = after.status
    /\ before.status # "uninitialized" =>
          before.since = after.since /\ before.reason = after.reason

\* Durations saturate at zero when the time stamps are out of order.
Since(later, earlier) == MaxOf(later - earlier, 0)

\* Mutant: a second reason for the desync restarts its clock.
NoteTransitionAfresh(before, after, at) ==
    [total |-> IF before.status = "desynced" /\ after.status # "desynced"
               THEN account.total + Since(at, account.since)
               ELSE account.total,
     since |-> IF after.status = "desynced" THEN at ELSE Never,
     statusSince |-> at,
     desyncs |-> account.desyncs + IF before.status # "desynced" /\ after.status = "desynced"
                                   THEN 1 ELSE 0]

NoteTransition(before, after, at) ==
    LET was == before.status = "desynced"
        is == after.status = "desynced"
    IN [total |-> IF was /\ ~is THEN account.total + Since(at, account.since) ELSE account.total,
        since |-> IF is THEN (IF was THEN account.since ELSE at) ELSE Never,
        statusSince |-> at,
        desyncs |-> account.desyncs + IF is /\ ~was THEN 1 ELSE 0]

DesyncedTotal(t) == account.total + IF account.since = Never THEN 0 ELSE Since(t, account.since)

BeliefUpTo(t) == belief \o [i \in 1..(t - Len(belief)) |-> state.status]

\* Every message is a sample, the ones that change nothing too.
SampleWindows(w, after, at) == Observe(w, after.status = "live", after.mid, at)

\* The message changes the book; a change of status is accounted for; a print
\* and then the new top of the book, changed or not, go to the windows.
Apply ==
    /\ queue # <<>>
    /\ LET message == Head(queue)
           after == BookAfter(message)
           live == after.status = "live"
           traded == IF message.kind = "trade" THEN ObserveTrade(windows, message.at) ELSE windows
       IN /\ state' = after
          /\ account' = IF SameStatus(state, after)
                        THEN account
                        ELSE NoteTransition(state, after, message.at)
          /\ windows' = SampleWindows(traded, after, message.at)
          /\ belief' = BeliefUpTo(message.at)
          /\ samples' = IF live /\ after.mid # NoPrice
                        THEN Append(samples, [at |-> message.at, mid |-> after.mid])
                        ELSE samples
          /\ prints' = IF message.kind = "trade" THEN Append(prints, message.at) ELSE prints
    /\ queue' = Tail(queue)
    /\ UNCHANGED <<now, stalled, received, view>>

------------------------------------------------------------------------------
(* The snapshot of a tick.                                                   *)

VenueView(read) ==
    [status |-> state.status,
     statusFor |-> Since(now, account.statusSince),
     desynced |-> DesyncedTotal(now),
     windows |-> Readings(read, now)]

\* The stream is read and published.  A snapshot taken while the stream is
\* another node's leaves it out, and leaves all of this state alone.
Snapshot ==
    /\ windows' = Charge(windows, now)
    /\ view' = VenueView(windows')
    /\ belief' = BeliefUpTo(now)
    /\ UNCHANGED <<now, stalled, received, queue, state, account, samples, prints>>

Next ==
    \/ Tick
    \/ \E content \in Contents, at \in 0..MaxTime : Receive(content, at)
    \/ Apply
    \/ Snapshot

Spec == Init /\ [][Next]_vars

------------------------------------------------------------------------------
(* Properties.                                                               *)

\* The ring forgets nothing a window still covers and remembers nothing else:
\* every reading published is the one computed from the whole history, whatever
\* the order of time stamps, and after a suspension longer than the ring.
History == INSTANCE WindowHistory WITH
    believed <- [t \in DOMAIN belief |-> belief[t] = "live"],
    trusted <- windows.trusted,
    readings <- view.windows,
    Prices <- {content.mid : content \in Contents}

RingKeepsTheHistory == History!Spec

\* A book that has held its status for longer than a window, and for as long as
\* a message may take, has a window that says so: covered in full while live,
\* without a tick or a sample while not.
CoverageFollowsStatus ==
    \A i \in DOMAIN view.windows :
        LET reading == view.windows[i]
        IN view.statusFor >= reading.span + Resolution - 1 + MaxDelay =>
              IF view.status = "live"
              THEN reading.trusted = reading.span
              ELSE reading.trusted = 0 /\ reading.samples = 0

\* The ring is well formed, and the coverage it gives follows the status
\* (window.rs charge and read_span, aggregator.rs snapshot).
Inv == TypeOK /\ CoverageFollowsStatus

\* Two accounts are kept of the time a book was desynced, one by the stamps of
\* the transitions and one by the windows: they differ by the time the messages
\* waited, once for every time the book lost or regained trust.
AccountsAgree ==
    Len(belief) = now =>
        LET charged == Cardinality({t \in DOMAIN belief : belief[t] = "desynced"})
            ends == 2 * account.desyncs - (IF state.status = "desynced" THEN 1 ELSE 0)
        IN /\ DesyncedTotal(now) <= charged + MaxDelay * ends
           /\ charged <= DesyncedTotal(now) + MaxDelay * ends
==============================================================================
