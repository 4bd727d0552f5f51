------------------------------ MODULE DepthAudit ------------------------------
(* The depth audit: a book is compared now and then with a depth snapshot    *)
(* fetched over REST, and distrusted when a price is wrong time and again    *)
(* (ma-core/src/audit.rs, VenueBook::audit in sync.rs, Ingest::audit_loop).  *)
(*                                                                           *)
(* The fetch races the stream: its answer shows the venue's book at one      *)
(* moment and meets ours at another, so `wire` holds the updates the venue   *)
(* made and we have not applied.  Losing one of them is the damage the audit *)
(* is there to find.                                                         *)
EXTENDS Integers, Sequences, FiniteSets, FiniteSetsExt, SequencesExt

CONSTANTS
    BidPrices, AskPrices,       \* at which levels come and go
    MaxQty,
    Openings,                   \* depths the venue may open with
    GuardBps, BpsUnit,          \* AuditPolicy::guard_bps, of 10000 in the code
    MaxLevels,                  \* AuditPolicy::max_levels
    MaxFindings,                \* MAX_FINDINGS
    Consecutive,                \* AuditPolicy::consecutive_before_desync
    MaxUpdates, MaxLosses, MaxBreaks, MaxWire

Prices == BidPrices \union AskPrices
Sides == {"bid", "ask"}

ASSUME AuditAssumption ==
    /\ Prices \subseteq Nat \ {0} /\ IsFiniteSet(Prices)
    /\ \A b \in BidPrices, a \in AskPrices : b < a
    /\ {MaxQty, MaxLevels, MaxFindings, Consecutive, MaxWire} \subseteq Nat \ {0}
    /\ GuardBps \in 0..BpsUnit
    /\ Openings \subseteq [Prices -> 0..MaxQty]
    /\ {MaxUpdates, MaxLosses, MaxBreaks} \subseteq Nat

\* The quantity at each price, 0 where there is no level.
Depths == [Prices -> 0..MaxQty]

-------------------------------------------------------------------------------
(* The comparison.                                                           *)

PricesOf(side) == IF side = "bid" THEN BidPrices ELSE AskPrices
Levels(depth, side) == {p \in PricesOf(side) : depth[p] > 0}

Better(side, p, q) == IF side = "bid" THEN p > q ELSE p < q
Best(depth, side) == IF side = "bid" THEN Max(Levels(depth, side)) ELSE Min(Levels(depth, side))

\* Whether a price is past the guard band, which is anchored at our own best.
Beyond(side, best, p) ==
    IF side = "bid" THEN p * BpsUnit <= best * (BpsUnit - GuardBps)
                    ELSE p * BpsUnit >= best * (BpsUnit + GuardBps)

\* The first MaxLevels levels past the guard.
Window(depth, side, best) ==
    LET past == {p \in Levels(depth, side) : Beyond(side, best, p)}
    IN  {p \in past : Cardinality({q \in past : Better(side, q, p)}) < MaxLevels}

\* Mutant: all that either window holds is compared.
UnionOfWindows(ours, theirs) == ours \union theirs

\* What both windows reach, which is nothing when one of them is empty.
Overlap(ours, theirs) ==
    {p \in ours \union theirs :
        \A window \in {ours, theirs} : \E lo, hi \in window : lo <= p /\ p <= hi}

FirstOf(prices, n) == {p \in prices : Cardinality({q \in prices : q < p}) < n}

AuditSide(book, snapshot, side) ==
    IF Levels(book, side) = {}
    THEN [compared |-> {}, wrong |-> {}]
    ELSE LET best == Best(book, side)
             ours == Window(book, side, best)
             theirs == Window(snapshot, side, best)
             compared == Overlap(ours, theirs)
             Held(depth, window, p) == IF p \in window THEN depth[p] ELSE 0
             wrong == {p \in compared : Held(book, ours, p) # Held(snapshot, theirs, p)}
         IN  [compared |-> compared, wrong |-> FirstOf(wrong, MaxFindings)]

\* The findings are truncated, bids before asks.
AuditOutcome(book, snapshot) ==
    LET bids == AuditSide(book, snapshot, "bid")
        asks == AuditSide(book, snapshot, "ask")
        wrong == bids.wrong \union FirstOf(asks.wrong, MaxFindings - Cardinality(bids.wrong))
    IN  [kind |-> IF wrong # {} THEN "mismatch"
                  ELSE IF bids.compared \union asks.compared = {} THEN "inconclusive"
                  ELSE "match",
         wrong |-> wrong]

\* As a function, which TLC tabulates.
Audit == [both \in Depths \X Depths |-> AuditOutcome(both[1], both[2])]

-------------------------------------------------------------------------------
(* AuditTrail.                                                               *)

NewTrail == [consecutive |-> 0, suspect |-> {}]

\* Mutant: an audit that compared nothing clears the case.
ObserveInconclusiveAsMatch(case, outcome) ==
    LET kept == case.suspect \intersect outcome.wrong
    IN  IF outcome.kind # "mismatch" THEN NewTrail
        ELSE IF kept = {} THEN [consecutive |-> 1, suspect |-> outcome.wrong]
        ELSE [consecutive |-> case.consecutive + 1, suspect |-> kept]

\* Mutant: a mismatch begins a new case.
ObserveAfresh(case, outcome) ==
    CASE outcome.kind = "inconclusive" -> case
      [] outcome.kind = "match" -> NewTrail
      [] outcome.kind = "mismatch" -> [consecutive |-> 1, suspect |-> outcome.wrong]

\* Only the prices wrong in every audit of the streak stay suspect.
ObserveOutcome(case, outcome) ==
    LET kept == case.suspect \intersect outcome.wrong
    IN  CASE outcome.kind = "inconclusive" -> case
          [] outcome.kind = "match" -> NewTrail
          [] outcome.kind = "mismatch" ->
                IF case.consecutive = 0 \/ kept = {}
                THEN [consecutive |-> 1, suspect |-> outcome.wrong]
                ELSE [consecutive |-> case.consecutive + 1, suspect |-> kept]

\* How many mismatches are enough.  A first one never is, not even under a policy
\* of one.
Enough == IF Consecutive < 2 THEN 2 ELSE Consecutive

Convicts(after) == after.consecutive >= Enough

-------------------------------------------------------------------------------
VARIABLES
    venue,      \* the venue's book
    book,       \* ours
    live,       \* whether ours is trusted
    wire,       \* on the way to ours: updates, and the snapshot a session opens with
    rest,       \* the answer of the audit fetch under way
    trail,
    moved,      \* prices with an update on the wire when rest was made, or made since
    verdicts,   \* the prices found wrong by the last conclusive audits of this session
    baseless,   \* prices ever found wrong that nothing had made wrong
    convicted,  \* whether the latest audit marked the book desynced
    spent       \* updates, losses and breaks so far

auditVars == <<venue, book, live, wire, rest, trail, moved, verdicts, baseless, convicted, spent>>

NoAnswer == [asked |-> FALSE, depth |-> [p \in Prices |-> 0]]

AuditTypeOK ==
    /\ {venue, book} \subseteq Depths
    /\ {live, convicted} \subseteq BOOLEAN
    /\ wire \in Seq([price : Prices, qty : 0..MaxQty] \union [depth : Depths])
    /\ rest \in [asked : BOOLEAN, depth : Depths]
    /\ trail \in [consecutive : Nat, suspect : SUBSET Prices]
    /\ (trail.consecutive = 0 <=> trail.suspect = {}) /\ (live => trail.consecutive < Enough)
    /\ {moved, baseless} \subseteq SUBSET Prices
    /\ spent \in [updates : 0..MaxUpdates, losses : 0..MaxLosses, breaks : 0..MaxBreaks]

\* Live and in agreement, after a first snapshot.
AuditInit ==
    /\ venue \in Openings /\ book = venue /\ live = TRUE
    /\ wire = <<>> /\ rest = NoAnswer
    /\ trail = NewTrail
    /\ moved = {} /\ verdicts = <<>> /\ baseless = {} /\ convicted = FALSE
    /\ spent = [updates |-> 0, losses |-> 0, breaks |-> 0]

\* The venue's book changes at a price.
VenueUpdates ==
    /\ spent.updates < MaxUpdates /\ Len(wire) < MaxWire
    /\ \E p \in Prices, q \in 0..MaxQty :
        /\ q # venue[p]
        /\ venue' = [venue EXCEPT ![p] = q]
        /\ wire' = Append(wire, [price |-> p, qty |-> q])
        /\ moved' = moved \union {p}
    /\ spent' = [spent EXCEPT !.updates = @ + 1]
    /\ UNCHANGED <<book, live, rest, trail, verdicts, baseless, convicted>>

IsSnapshot(message) == "depth" \in DOMAIN message

\* A snapshot makes the book live; an update is applied to a live book only.
Deliver ==
    /\ wire # <<>>
    /\ LET m == Head(wire) IN
       \/ /\ IsSnapshot(m)
          /\ book' = m.depth /\ live' = TRUE
       \/ /\ ~IsSnapshot(m)
          /\ book' = IF live THEN [book EXCEPT ![m.price] = m.qty] ELSE book
          /\ UNCHANGED live
    /\ wire' = Tail(wire)
    /\ UNCHANGED <<venue, rest, trail, moved, verdicts, baseless, convicted, spent>>

\* An update is lost where nobody notices: evicted from the channel, or never
\* sent, at a venue without sequence numbers.
Lose ==
    /\ wire # <<>> /\ ~IsSnapshot(Head(wire)) /\ spent.losses < MaxLosses
    /\ wire' = Tail(wire)
    /\ spent' = [spent EXCEPT !.losses = @ + 1]
    /\ UNCHANGED <<venue, book, live, rest, trail, moved, verdicts, baseless, convicted>>

\* The venue makes its answer.  A fetch that fails is counted, and that is all.
Fetch ==
    /\ ~rest.asked
    /\ rest' = [asked |-> TRUE, depth |-> venue]
    /\ moved' = {m.price : m \in {w \in ToSet(wire) : ~IsSnapshot(w)}}
    /\ UNCHANGED <<venue, book, live, wire, trail, verdicts, baseless, convicted, spent>>

\* Whether our book differs from the venue's at p once all that is on the wire
\* is applied.
IsDamaged(p) ==
    LET about == {i \in DOMAIN wire : IsSnapshot(wire[i]) \/ wire[i].price = p}
        last == wire[Max(about)]
        settled == IF about = {} THEN book[p]
                   ELSE IF IsSnapshot(last) THEN last.depth[p] ELSE last.qty
    IN  settled # venue[p]

Damaged == {p \in Prices : IsDamaged(p)}

\* The answer reaches the book; one that is not live is not compared.
AuditLands ==
    /\ rest.asked
    /\ rest' = NoAnswer /\ moved' = {}
    /\ IF live
       THEN LET outcome == Audit[<<book, rest.depth>>] IN
            /\ trail' = ObserveOutcome(trail, outcome)
            /\ convicted' = (outcome.kind = "mismatch" /\ Convicts(trail'))
            /\ live' = ~convicted'
            /\ verdicts' = IF outcome.kind = "inconclusive" THEN verdicts
                           ELSE Append(IF Len(verdicts) = Enough THEN Tail(verdicts) ELSE verdicts,
                                       outcome.wrong)
            /\ baseless' = baseless \union (outcome.wrong \ (Damaged \union moved))
       ELSE UNCHANGED <<trail, convicted, live, verdicts, baseless>>
    /\ UNCHANGED <<venue, book, wire, spent>>

Reset == NewTrail

\* A session ends, because the audit asked for a fresh one or by itself: the
\* fetch is abandoned, the book and its trail reset, and the next session opens
\* with a snapshot.
Reconnect ==
    /\ \/ convicted /\ UNCHANGED spent
       \/ ~convicted /\ spent.breaks < MaxBreaks /\ spent' = [spent EXCEPT !.breaks = @ + 1]
    /\ live' = FALSE /\ convicted' = FALSE
    /\ wire' = <<[depth |-> venue]>>
    /\ rest' = NoAnswer /\ moved' = {}
    /\ trail' = Reset /\ verdicts' = <<>>
    /\ UNCHANGED <<venue, book, baseless>>

AuditNext == VenueUpdates \/ Deliver \/ Lose \/ Fetch \/ AuditLands \/ Reconnect

\* The interval of the audit loop elapses, a request is answered, what is on the
\* wire arrives, and a requested resync is carried out.
Answered == rest.asked /\ rest' = NoAnswer

Fairness ==
    WF_auditVars(Deliver) /\ WF_auditVars(Fetch) /\ WF_rest(Answered) /\ WF_auditVars(convicted /\ Reconnect)

AuditSpec == AuditInit /\ [][AuditNext]_auditVars /\ Fairness

-------------------------------------------------------------------------------
(* Properties.                                                               *)

\* audit.rs:229-247: no price is reported because the two books were cut at
\* different places or because one reaches further: where a level is reported
\* wrong, an update was lost, or one raced the fetch.
FindingsHaveCauses == baseless = {}

\* The state is well typed, and no finding is without a cause
\* (audit.rs:229-247).
AuditInv == AuditTypeOK /\ FindingsHaveCauses

\* Some price was wrong in each of the last audits of this session that compared
\* anything, as many as are enough.
SamePriceWrong ==
    /\ Len(verdicts) = Enough
    /\ \E p \in Prices : \A i \in DOMAIN verdicts : p \in verdicts[i]

\* audit.rs:340-355: a book is distrusted only when the same price was wrong time
\* and again; not when different prices take turns, when a match came between, or
\* on the evidence against the book of an earlier session.  When two mismatches
\* are enough it always is then; a longer streak that ends for want of a common
\* price begins again at one, and forgets what two of its audits had in common.
ConvictedByTheSamePrice ==
    /\ convicted => SamePriceWrong
    /\ Enough = 2 /\ SamePriceWrong => convicted

\* audit.rs:23-40: damage the audit can see does not stay: again and again the
\* book is free of disagreement with the venue inside the compared region.
DamageDoesNotLast == []<>(Audit[<<book, venue>>].wrong = {})
===============================================================================
