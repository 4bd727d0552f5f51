--------------------------- MODULE KrakenChecksum ---------------------------
(* What Kraken's checksum is taken over (ma-venues/src/venues/kraken.rs):    *)
(* the digits of the best levels, as the venue spelled them.  A decimal      *)
(* keeps the scale it was written with, so 0.10 and 0.1 are one price and    *)
(* two spellings.  The hash itself is taken to tell all inputs apart.        *)
EXTENDS BookLevels

DigitNames == <<"0", "1", "2", "3", "4", "5", "6", "7", "8", "9">>
DigitOf(char) == (CHOOSE i \in DOMAIN DigitNames : DigitNames[i] = char) - 1

IsPoint(char) == char = "."
Digits(text) == SelectSeq(text, LAMBDA char : ~IsPoint(char))

\* Mutant: the number goes through a float, which keeps its value only.
ParseFloat(text) ==
    LET point == IF \E i \in DOMAIN text : IsPoint(text[i])
                 THEN CHOOSE i \in DOMAIN text : IsPoint(text[i]) ELSE Len(text)
        kept == {i \in point..Len(text) : i > point /\ text[i] # "0"}
        last == IF kept = {} THEN point ELSE Max(kept)
        digits == Digits(SubSeq(text, 1, last))
    IN  [mantissa |-> FoldLeft(LAMBDA n, char : 10 * n + DigitOf(char), 0, digits),
         scale |-> last - point]

\* exact_decimal: the digits of the text, and how many are behind the point.
ExactDecimal(text) ==
    LET point == IF \E i \in DOMAIN text : IsPoint(text[i])
                 THEN CHOOSE i \in DOMAIN text : IsPoint(text[i]) ELSE Len(text)
    IN  [mantissa |-> FoldLeft(LAMBDA n, char : 10 * n + DigitOf(char), 0, Digits(text)),
         scale |-> Len(text) - point]

\* A price in the smallest unit that is used; the order of a book is by value.
Value(decimal, scale) == decimal.mantissa * 10^(scale - decimal.scale)

\* How the library shows a decimal: one digit at least before the point, all of
\* its scale behind it.
Width(decimal) ==
    LET shown == {n \in 1..8 : decimal.mantissa < 10^n /\ n > decimal.scale}
    IN  Min(shown)

Rendered(decimal) ==
    LET width == Width(decimal)
        whole == width - decimal.scale
        digits == [i \in 1..width |-> DigitNames[((decimal.mantissa \div 10^(width - i)) % 10) + 1]]
    IN  IF decimal.scale = 0 THEN digits
        ELSE SubSeq(digits, 1, whole) \o <<".">> \o SubSeq(digits, whole + 1, width)

\* push_digits: no point, no leading zero, and never nothing.
PushDigits(buffer, rendered) ==
    LET digits == Digits(rendered)
        first == {i \in DOMAIN digits : digits[i] # "0"}
    IN  buffer \o IF first = {} THEN <<"0">> ELSE SubSeq(digits, Min(first), Len(digits))

\* to_levels, and the side they make: by value, each with what was written.
WireSide(levels, scale) ==
    LET PriceOf(i) == Value(ExactDecimal(levels[i].price), scale)
    IN  [price \in {PriceOf(i) : i \in DOMAIN levels} |->
            LET i == CHOOSE i \in DOMAIN levels : PriceOf(i) = price
            IN  [price |-> ExactDecimal(levels[i].price), qty |-> ExactDecimal(levels[i].qty)]]

\* checksum: the best asks, then the best bids, each from the best on.
Hashed(asks, bids, depth, scale) ==
    LET PushLevel(buffer, level) ==
            PushDigits(PushDigits(buffer, Rendered(level.qty.price)), Rendered(level.qty.qty))
    IN  FoldLeft(PushLevel, <<>>,
                 TopLevels(WireSide(asks, scale), "ask", depth)
                   \o TopLevels(WireSide(bids, scale), "bid", depth))
=============================================================================
