------------------------------ MODULE MCLease ------------------------------
(***************************************************************************)
(* Two nodes and a stream that prefers each of them.  Every guard of Lease *)
(* compares differences of times only, so TLC explores the relative state  *)
(* (RelativeView): runs of any length fold onto finitely many views, and   *)
(* Horizon only stops the search where a view would never fold.            *)
(***************************************************************************)
EXTENDS Failover, TLC

CONSTANTS a, b, s1, s2

MCNode == {a, b}
MCStream == {s1, s2}
MCWeight == (s1 :> (a :> 1 @@ b :> 0)) @@ (s2 :> (a :> 0 @@ b :> 0))
MCId == a :> 2 @@ b :> 1

NoSkew == a :> 0 @@ b :> 0
BIsAhead == a :> 0 @@ b :> 1

Ttl4 == [n \in MCNode |-> 4]
Ttl5 == [n \in MCNode |-> 5]

\* The largest age a guard can still tell from an older one.
OldAge(n) == Ttl[n] + Guard + StepMax

Age(n, t) == IF now - t > OldAge(n) THEN OldAge(n) + 1 ELSE now - t

\* A record no clock reading still in use can find unexpired counts as dead.
Remaining(n) ==
  IF registry[n] = NoTime \/ registry[n] + StepMax < now
  THEN -StepMax - 1
  ELSE registry[n] - now

\* What the future depends on: without a contact, members and settledAt are
\* overwritten before they are next read.
RelativeView ==
  [n \in Node |->
    <<pc[n], seen[n], stoodDown[n], settling[n], owned[n], Remaining(n),
      IF Active(n) THEN now - stepAt[n] ELSE 0,
      IF lastContact[n] = NoTime
      THEN <<>>
      ELSE <<members[n], Age(n, lastContact[n]), Age(n, settledAt[n])>> >>]

\* The longest the properties wait; the two nodes have one ttl.
Longest == RecoverFor(a)

\* RelativeView with the ages of the calm, of the last slip and of a notice.
CalmView ==
  <<RelativeView, IF CalmFor > Longest THEN Longest ELSE CalmFor,
    IF slipAt = NoTime \/ now - slipAt > Longest THEN Longest ELSE now - slipAt,
    [n \in Node |-> IF Contact(n) /\ now - settledAt[n] < Longest
                     THEN now - settledAt[n] ELSE Longest]>>
=============================================================================
