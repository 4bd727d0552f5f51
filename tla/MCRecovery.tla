----------------------------- MODULE MCRecovery -----------------------------
(* Instances of Recovery for TLC.                                            *)
EXTENDS Recovery, TLC

NoMishaps == [m \in Mishaps |-> 0]

\* One of everything, and the two evictions it takes to mislead Coinbase.
OneOfEach == ("evict" :> 2) @@ [m \in Mishaps |-> 1]

\* One message is evicted from the full channel.
OneEviction == ("disconnect" :> 1) @@ ("evict" :> 1) @@ NoMishaps
=============================================================================
