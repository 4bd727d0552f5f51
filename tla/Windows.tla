------------------------------- MODULE Windows -------------------------------
(* The rolling windows of one stream (ma-core/src/window.rs): a ring of      *)
(* buckets, one per Resolution ticks, cleared lazily when a slot is reused,  *)
(* and the account of the time during which the book was not trusted.        *)
(*                                                                           *)
(* Time is in ticks since the windows were created.  A price is a positive   *)
(* number.  The integrity floor of a bucket is folded the way `low` is, and  *)
(* the sums of spreads and of quantities the way `sum` is: they are left     *)
(* out, as are the ratios of these figures that a reading derives.           *)
EXTENDS Integers, Sequences, FiniteSets

CONSTANTS
    Resolution,   \* ticks per bucket
    Spans         \* the spans to publish, in ticks

ASSUME WindowsAssumption ==
    /\ Resolution \in Nat \ {0}
    /\ Spans \in Seq(Nat \ {0}) /\ Spans # <<>>

NoIndex == -1     \* of a slot never used
NoPrice == 0      \* of a bucket or a reading without a sample

MaxOf(a, b) == IF a >= b THEN a ELSE b
MinOf(a, b) == IF a <= b THEN a ELSE b

\* The buckets that cover a span, rounding up.
BucketsFor(span) == (span + Resolution - 1) \div Resolution

\* The completed buckets of the longest window.
Longest == CHOOSE k \in {BucketsFor(Spans[i]) : i \in DOMAIN Spans} :
               \A i \in DOMAIN Spans : k >= BucketsFor(Spans[i])

\* Mutant: no slot for the bucket in progress.
RingOfCompleted == Longest

\* A slot for each of them, and one for the bucket in progress.
Ring == Longest + 1

IndexAt(t) == t \div Resolution

BucketStart(index) == index * Resolution

EmptyBucket ==
    [index |-> NoIndex, samples |-> 0, sum |-> 0, first |-> NoPrice, last |-> NoPrice,
     high |-> NoPrice, low |-> NoPrice, trades |-> 0, untrusted |-> 0]

NewWindows == [buckets |-> [slot \in 0..(Ring - 1) |-> EmptyBucket],
               charged |-> 0, trusted |-> FALSE]

\* The bucket of an index, cleared if its slot still holds another one.
SlotMut(buckets, index) ==
    IF buckets[index % Ring].index = index
    THEN buckets[index % Ring]
    ELSE [EmptyBucket EXCEPT !.index = index]

Record(bucket, mid) ==
    [bucket EXCEPT
        !.samples = @ + 1,
        !.sum = @ + mid,
        !.first = IF @ = NoPrice THEN mid ELSE @,
        !.last = mid,
        !.high = MaxOf(@, mid),
        !.low = IF @ = NoPrice THEN mid ELSE MinOf(@, mid)]

RecordTrade(bucket) == [bucket EXCEPT !.trades = @ + 1]

\* Mutant: after a long stall, only the time since the bucket in progress began.
ChargeFromSkippingTheRing(w, now) ==
    IF IndexAt(now) - IndexAt(w.charged) >= Ring
    THEN BucketStart(IndexAt(now))
    ELSE w.charged

\* Where charging begins: after a stall longer than the ring, at the oldest
\* bucket that can still be read.
ChargeFrom(w, now) ==
    IF IndexAt(now) - IndexAt(w.charged) >= Ring
    THEN BucketStart(IndexAt(now) - Ring + 1)
    ELSE w.charged

\* The time since the last charge goes to the buckets it fell into, at the
\* trust in force meanwhile; a bucket of trusted time is created all the same.
Charge(w, now) ==
    IF now <= w.charged
    THEN w
    ELSE LET from == ChargeFrom(w, now)
             indices == {i \in IndexAt(from)..IndexAt(now) : BucketStart(i) < now}
             Elapsed(i) == MinOf(now, BucketStart(i + 1)) - MaxOf(from, BucketStart(i))
             Charged(i) == [SlotMut(w.buckets, i) EXCEPT
                               !.untrusted = @ + IF w.trusted THEN 0 ELSE Elapsed(i)]
         IN [w EXCEPT
                !.buckets = [slot \in DOMAIN @ |->
                    IF \E i \in indices : i % Ring = slot
                    THEN Charged(CHOOSE i \in indices : i % Ring = slot)
                    ELSE @[slot]],
                !.charged = now]

\* The top of the book after a message.  A one-sided book has no mid.
Observe(w, live, mid, at) ==
    LET charged == [Charge(w, at) EXCEPT !.trusted = live]
    IN IF live /\ mid # NoPrice
       THEN [charged EXCEPT !.buckets[IndexAt(at) % Ring] =
                                Record(SlotMut(charged.buckets, IndexAt(at)), mid)]
       ELSE charged

\* A print counts whatever the state of the book.
ObserveTrade(w, at) ==
    LET charged == Charge(w, at)
    IN [charged EXCEPT !.buckets[IndexAt(at) % Ring] =
                           RecordTrade(SlotMut(charged.buckets, IndexAt(at)))]

EmptyReading(k) ==
    [span |-> k * Resolution, trusted |-> 0, samples |-> 0, sum |-> 0, first |-> NoPrice,
     last |-> NoPrice, high |-> NoPrice, low |-> NoPrice, trades |-> 0]

SmallestIn(S) == CHOOSE x \in S : \A y \in S : x <= y
LargestIn(S) == CHOOSE x \in S : \A y \in S : x >= y

\* f[0] + ... + f[n - 1], added up one after the other.
SumBelow(f, n) ==
    LET sum[i \in 0..n] == IF i = 0 THEN 0 ELSE sum[i - 1] + f[i - 1]
    IN sum[n]

\* The completed buckets of a window that ends before the bucket in progress.
\* A slot that holds another bucket contributes neither samples nor time.
ReadSpan(w, span, end) ==
    LET k == BucketsFor(span)
        Slot(i) == w.buckets[i % Ring]
        held == {i \in MaxOf(end - k, 0)..(end - 1) : Slot(i).index = i}
        sampled == {i \in held : Slot(i).samples > 0}
        Total(f) == SumBelow([i \in 0..(end - 1) |-> IF i \in held THEN f[i] ELSE 0], end)
        base == [EmptyReading(k) EXCEPT
                    !.trusted = Total([i \in held |-> Resolution - Slot(i).untrusted]),
                    !.trades = Total([i \in held |-> Slot(i).trades])]
    IN IF sampled = {}
       THEN base
       ELSE [base EXCEPT
                !.samples = Total([i \in held |-> Slot(i).samples]),
                !.sum = Total([i \in held |-> Slot(i).sum]),
                !.first = Slot(SmallestIn(sampled)).first,
                !.last = Slot(LargestIn(sampled)).last,
                !.high = LargestIn({Slot(i).high : i \in sampled}),
                !.low = SmallestIn({Slot(i).low : i \in sampled})]

\* Every window, once the time up to now is charged.
Readings(w, now) == [i \in DOMAIN Spans |-> ReadSpan(w, Spans[i], IndexAt(now))]
==============================================================================
