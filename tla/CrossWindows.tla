---------------------------- MODULE CrossWindows ----------------------------
(* Windows over the venues of one symbol (ma-core/src/cross_windows.rs).     *)
(*                                                                           *)
(* A reading is what one venue publishes of one span: [span, trusted,        *)
(* integrity, samples, high, low, mean, trades, volume, vwap].  Prices are   *)
(* counted in units of the last place that the code rounds to; a field that  *)
(* is None is NoPrice, and volume is None exactly when there is no trade.    *)
(* The figures derived from the merged fields (range_bps) are left out.      *)
EXTENDS Cross, FiniteSetsExt

NoIntegrity == 0

\* round_dp of a quotient: to the nearest unit, a half to the even one.
Rounded(n, d) ==
    LET q == n \div d
        r == 2 * (n % d)
    IN  IF r > d \/ (r = d /\ q % 2 = 1) THEN q + 1 ELSE q

Total(F(_), S) == MapThenSumSet(F, S)

LargestOf(S) == IF S = {} THEN NoPrice ELSE Max(S)
SmallestOf(S) == IF S = {} THEN NoPrice ELSE Min(S)

\* The end of read_span: what the sums of a span's buckets come to.
ReadingOf(span, trusted, integrity, mids, prints) ==
    LET quantity == Total(LAMBDA i : prints[i].qty, DOMAIN prints)
        sampled == mids # <<>>
    IN  [span |-> span, trusted |-> trusted,
         integrity |-> IF sampled THEN integrity ELSE NoIntegrity,
         samples |-> Len(mids),
         high |-> LargestOf({mids[i] : i \in DOMAIN mids}),
         low |-> SmallestOf({mids[i] : i \in DOMAIN mids}),
         mean |-> IF sampled THEN Rounded(Total(LAMBDA i : mids[i], DOMAIN mids), Len(mids))
                  ELSE NoPrice,
         trades |-> Len(prints),
         volume |-> quantity,
         vwap |-> IF quantity = 0 THEN NoPrice
                  ELSE Rounded(Total(LAMBDA i : prints[i].price * prints[i].qty,
                                     DOMAIN prints), quantity)]

\* The reading of the span that a leg publishes, if it does: the first found.
Published(leg, span) == {i \in DOMAIN leg.windows : leg.windows[i].span = span}
WindowOf(leg, span) == leg.windows[Min(Published(leg, span))]

\* Why a venue is left out of a span, or "used".
WindowStanding(leg, span) ==
    IF Published(leg, span) = {} THEN "span not published"
    ELSE IF WindowOf(leg, span).samples = 0 /\ WindowOf(leg, span).trades = 0 THEN "no data"
    ELSE "used"

ExcludedFrom(span, legs) ==
    {[venue |-> legs[i].venue, reason |-> WindowStanding(legs[i], span)] :
        i \in {j \in DOMAIN legs : WindowStanding(legs[j], span) # "used"}}

\* Mutant: the mean of the legs' means, as if every leg had sampled as often.
MeanOfMeans(windows) ==
    IF windows = <<>> THEN NoPrice
    ELSE Rounded(Total(LAMBDA i : windows[i].mean, DOMAIN windows), Cardinality(DOMAIN windows))

\* Over the legs that sampled, weighted by their samples, as each leg's mean is.
MergedMean(windows) ==
    IF windows = <<>> THEN NoPrice
    ELSE Rounded(Total(LAMBDA i : windows[i].mean * windows[i].samples, DOMAIN windows),
                 Total(LAMBDA i : windows[i].samples, DOMAIN windows))

\* One span over every leg; the floor and the integrity are the weakest of the
\* legs that contribute to what they qualify, the lag is the longest.
ConsolidateSpan(span, legs) ==
    LET used == {i \in DOMAIN legs : WindowStanding(legs[i], span) = "used"}
        W(i) == WindowOf(legs[i], span)
        sampled == {i \in used : W(i).samples > 0}
        priced == {i \in used : W(i).trades > 0 /\ W(i).vwap # NoPrice}
        volume == Total(LAMBDA i : W(i).volume, priced)
    IN  [span |-> span,
         trustedFloor |-> IF used = {} THEN 0 ELSE Min({W(i).trusted : i \in used}),
         integrity |-> IF sampled = {} THEN NoIntegrity
                       ELSE Min({W(i).integrity : i \in sampled}),
         maxLag |-> Max({0} \union {legs[i].lag : i \in used}),
         venuesUsed |-> Cardinality(used),
         samples |-> Total(LAMBDA i : W(i).samples, used),
         high |-> LargestOf({W(i).high : i \in sampled}),
         low |-> SmallestOf({W(i).low : i \in sampled}),
         mean |-> MergedMean([i \in sampled |-> W(i)]),
         trades |-> Total(LAMBDA i : W(i).trades, used),
         volume |-> volume,
         vwap |-> IF volume = 0 THEN NoPrice
                  ELSE Rounded(Total(LAMBDA i : W(i).vwap * W(i).volume, priced), volume),
         excluded |-> ExcludedFrom(span, legs)]

\* Every span that some leg publishes, in ascending order.
ConsolidateWindows(legs) ==
    LET spans == UNION {{w.span : w \in {legs[i].windows[k] : k \in DOMAIN legs[i].windows}} :
                            i \in DOMAIN legs}
        Rank(s) == Cardinality({t \in spans : t <= s})
    IN  [n \in 1..Cardinality(spans) |->
            ConsolidateSpan(CHOOSE s \in spans : Rank(s) = n, legs)]
=============================================================================
