------------------------------ MODULE MCGateway ------------------------------
(* Instances of Gateway for TLC.                                             *)
EXTENDS Gateway, TLC

TwoNodes == <<"a", "b">>
OneVenue == <<"kraken">>

AtA == [v \in {"kraken"} |-> "a"]

Quotes == "kraken" :> [bid |-> 11, ask |-> 13, integrity |-> 3]
==============================================================================
