------------------------------ MODULE MCArchive ------------------------------
(* Two nodes, and two venues' streams of one symbol.                         *)
EXTENDS ArchiveReader, TLC

CONSTANTS a, b, s1, s2, btc

MCNodes == {a, b}
MCStreams == {s1, s2}
MCSymbols == {btc}
MCSymbol == [s \in MCStreams |-> btc]
AOwnsAll == [s \in MCStreams |-> a]
MCRank == a :> 2 @@ b :> 1
NoSkew == [n \in MCNodes |-> 0]
AIsAhead == a :> 2 @@ b :> 0

NoMishaps == [m \in Mishaps |-> 0]
EachOnce == [m \in Mishaps |-> 1]
OneMove == ("move" :> 1) @@ ("down" :> 2) @@ NoMishaps
==============================================================================
