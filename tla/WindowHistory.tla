---------------------------- MODULE WindowHistory ----------------------------
(* What the windows of ma-core/src/window.rs promise, without the ring: the  *)
(* whole history is kept, and a reading is computed from the part of it the  *)
(* window covers.                                                            *)
EXTENDS Integers, Sequences, FiniteSets

CONSTANTS Resolution, Spans, Prices, MaxTime

VARIABLES
    samples,    \* the mids observed, with their time stamps, in the order they came
    prints,     \* the time stamps of the trades
    believed,   \* for every tick accounted so far, whether the book was trusted
    trusted,    \* whether it is trusted now
    readings    \* what was read last

vars == <<samples, prints, believed, trusted, readings>>

UpTo(t) == believed \o [i \in 1..(t - Len(believed)) |-> trusted]

Init ==
    /\ samples = <<>> /\ prints = <<>> /\ believed = <<>>
    /\ trusted = FALSE
    /\ readings = <<>>

\* A message leaves the book trusted or not, with or without a mid, and may
\* hold a print.
Message(at, live, mid, print) ==
    /\ believed' = UpTo(at)
    /\ trusted' = live
    /\ samples' = IF live /\ mid # 0 THEN Append(samples, [at |-> at, mid |-> mid]) ELSE samples
    /\ prints' = IF print THEN Append(prints, at) ELSE prints
    /\ UNCHANGED readings

\* The whole buckets of the span before the one in progress.
Window(span, now) ==
    LET end == now \div Resolution
        k == (span + Resolution - 1) \div Resolution
    IN (IF end > k THEN end - k ELSE 0)..(end - 1)

\* The sum of f[1], ... f[n].
SumTo(f, n) ==
    LET sum[i \in 0..n] == IF i = 0 THEN 0 ELSE sum[i - 1] + f[i]
    IN sum[n]

\* The samples of a window are ordered by bucket, and as they came within one.
Reading(span, now) ==
    LET window == Window(span, now)
        Bucket(j) == samples[j].at \div Resolution
        inside == {j \in DOMAIN samples : Bucket(j) \in window}
        Before(i, j) == Bucket(i) < Bucket(j) \/ (Bucket(i) = Bucket(j) /\ i <= j)
        values == {samples[j].mid : j \in inside}
        none == inside = {}
    IN [span |-> ((span + Resolution - 1) \div Resolution) * Resolution,
        trusted |-> Cardinality({t \in DOMAIN believed' :
                                    believed'[t] /\ (t - 1) \div Resolution \in window}),
        samples |-> Cardinality(inside),
        sum |-> SumTo([j \in DOMAIN samples |-> IF j \in inside THEN samples[j].mid ELSE 0],
                      Len(samples)),
        first |-> IF none THEN 0
                  ELSE samples[CHOOSE j \in inside : \A i \in inside : Before(j, i)].mid,
        last |-> IF none THEN 0
                 ELSE samples[CHOOSE j \in inside : \A i \in inside : Before(i, j)].mid,
        high |-> IF none THEN 0 ELSE CHOOSE v \in values : \A u \in values : v >= u,
        low |-> IF none THEN 0 ELSE CHOOSE v \in values : \A u \in values : v <= u,
        trades |-> Cardinality({n \in DOMAIN prints : prints[n] \div Resolution \in window})]

Read(now) ==
    /\ believed' = UpTo(now)
    /\ readings' = [i \in DOMAIN Spans |-> Reading(Spans[i], now)]
    /\ UNCHANGED <<samples, prints, trusted>>

Next ==
    \/ \E at \in 0..MaxTime, live \in BOOLEAN, mid \in Prices, print \in BOOLEAN :
          Message(at, live, mid, print)
    \/ \E now \in 0..MaxTime : Read(now)

Spec == Init /\ [][Next]_vars
==============================================================================
