-------------------------------- MODULE Cross --------------------------------
(* The touch across the venues of one symbol (ma-core/src/cross.rs).         *)
(*                                                                           *)
(* A quote is a venue's top of book: [venue, status, age, bid, ask,          *)
(* integrity].  A side without levels has NoPrice, a book to which nothing   *)
(* was ever applied has NoAge.  Quantities, and the figures computed from    *)
(* the prices of the two legs, are left out.                                 *)
EXTENDS Integers, Sequences, FiniteSets

NoPrice == 0
NoAge == -1
NoLeg == [venue |-> "none", price |-> NoPrice, age |-> NoAge, integrity |-> 0]

\* Why a venue is left out, or "used".
Standing(quote, maxAge) ==
    IF quote.status # "live" THEN "untrusted"
    ELSE IF quote.age = NoAge \/ quote.age > maxAge THEN "stale"
    ELSE IF quote.bid = NoPrice /\ quote.ask = NoPrice THEN "no quote"
    ELSE "used"

Leg(quote, price) ==
    [venue |-> quote.venue, price |-> price, age |-> quote.age, integrity |-> quote.integrity]

\* Mutant: trust is not looked at, as an unguarded maximum would do.
ConsiderUntrusted(touch, quote, maxAge) ==
    [bid |-> IF quote.bid > touch.bid.price THEN Leg(quote, quote.bid) ELSE touch.bid,
     ask |-> IF quote.ask # NoPrice /\ (touch.ask = NoLeg \/ quote.ask < touch.ask.price)
             THEN Leg(quote, quote.ask) ELSE touch.ask,
     used |-> touch.used + 1,
     excluded |-> touch.excluded]

\* One venue: a price that betters strictly takes the leg, so that a tie keeps
\* the venue seen first.
Consider(touch, quote, maxAge) ==
    LET standing == Standing(quote, maxAge)
    IN  IF standing # "used"
        THEN [touch EXCEPT !.excluded = Append(@, [venue |-> quote.venue, reason |-> standing])]
        ELSE [bid |-> IF quote.bid > touch.bid.price THEN Leg(quote, quote.bid) ELSE touch.bid,
              ask |-> IF quote.ask # NoPrice /\ (touch.ask = NoLeg \/ quote.ask < touch.ask.price)
                      THEN Leg(quote, quote.ask) ELSE touch.ask,
              used |-> touch.used + 1,
              excluded |-> touch.excluded]

NoTouch == [bid |-> NoLeg, ask |-> NoLeg, used |-> 0, excluded |-> <<>>]

\* The touches of ever more venues, in their order: the k-th is that of the first
\* k places, of which some have a quote.
Touches(quotes, last, maxAge) ==
    LET touch[k \in 0..last] ==
            IF k = 0 THEN NoTouch
            ELSE IF k \in DOMAIN quotes THEN Consider(touch[k - 1], quotes[k], maxAge)
            ELSE touch[k - 1]
    IN  touch

\* The touch of quotes in some of the places up to the last, and what it claims.
Consolidate(quotes, last, maxAge) ==
    LET touch == Touches(quotes, last, maxAge)[last]
        bid == touch.bid
        ask == touch.ask
        both == bid # NoLeg /\ ask # NoLeg
    IN  [bid |-> bid, ask |-> ask, used |-> touch.used, excluded |-> touch.excluded,
         floor |-> IF bid = NoLeg \/ (both /\ ask.integrity < bid.integrity)
                   THEN ask.integrity ELSE bid.integrity,
         oldest |-> IF bid = NoLeg \/ (both /\ ask.age > bid.age) THEN ask.age ELSE bid.age,
         crossed |-> both /\ ask.price <= bid.price,
         singleVenue |-> both /\ bid.venue = ask.venue]
==============================================================================
