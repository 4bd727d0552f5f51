------------------------------ MODULE StreamProofs ------------------------------
(* Theorems about one stream: about DepthAudit, what its book is compared    *)
(* with, and about Views, what is published of it.                           *)
(*                                                                           *)
(* An audit reports no price that is right, although it compares two books   *)
(* cut at different places and at different moments, and a book is           *)
(* distrusted only for a price that was wrong in every audit of a streak.    *)
(* This holds for any finite set of prices, any guard, any length of the     *)
(* windows and any policy.                                                   *)
(*                                                                           *)
(* The windows that are published are those of the whole history, although   *)
(* only a ring of buckets is kept, messages come late and out of the order   *)
(* of their time stamps, and the process may have been suspended for longer  *)
(* than the ring lasts.  This holds for any resolution and any spans, and    *)
(* any messages that wait shorter than the longest window lasts.             *)
EXTENDS DepthAudit, Views, FiniteSetTheorems, WellFoundedInduction, TLAPS

-------------------------------------------------------------------------------
(* The depth audit: its inductive invariant.                                 *)

\* Only a book that waits for the snapshot of a new session has one on the wire,
\* before everything else.
SnapshotsOpen ==
    \A i \in DOMAIN wire : IsSnapshot(wire[i]) => i = 1 /\ ~live /\ ~convicted

\* The answer shows the venue as it is at every price that did not move since it
\* was made, and no update of such a price was on its way then or is now.
RestIsTrue ==
    rest.asked =>
        \A p \in Prices \ moved :
            /\ rest.depth[p] = venue[p]
            /\ \A i \in DOMAIN wire : ~IsSnapshot(wire[i]) => wire[i].price # p

\* The streak is what the verdicts say: what it suspects was wrong in each of the
\* last audits, as many as it counts, and it is long enough for a book that was
\* convicted and for no other.
TrailIsEvidence ==
    /\ trail.consecutive <= Len(verdicts) /\ Len(verdicts) <= Enough
    /\ \A i \in DOMAIN verdicts :
          i > Len(verdicts) - trail.consecutive => trail.suspect \subseteq verdicts[i]
    /\ convicted => ~live
    /\ convicted <=> trail.consecutive = Enough
    /\ trail.consecutive <= Enough

\* Where a streak of two is enough, one that has just begun has nothing in common
\* with the audit before.
StreaksAreWhole ==
    Enough = 2 =>
        /\ trail.consecutive = 0 /\ Len(verdicts) > 0 => verdicts[Len(verdicts)] = {}
        /\ trail.consecutive = 1 =>
              /\ verdicts[Len(verdicts)] = trail.suspect
              /\ Len(verdicts) = 2 => verdicts[1] \intersect trail.suspect = {}

VerdictsType == verdicts \in Seq(SUBSET Prices)

AuditIInv ==
    /\ AuditTypeOK /\ VerdictsType
    /\ SnapshotsOpen /\ RestIsTrue
    /\ TrailIsEvidence /\ StreaksAreWhole
    /\ FindingsHaveCauses

-------------------------------------------------------------------------------
(* The depth audit: the comparison.                                          *)

LEMMA EnoughType == Enough \in Nat /\ Enough >= 2
BY AuditAssumption DEF Enough

LEMMA BudgetType == MaxUpdates \in Nat /\ MaxLosses \in Nat /\ MaxBreaks \in Nat
BY AuditAssumption

\* The prices of a side are some, and only some are past the guard.
LEMMA PricesType ==
  /\ Prices \subseteq Nat /\ IsFiniteSet(Prices)
  /\ \A side \in Sides : PricesOf(side) \subseteq Prices
BY AuditAssumption DEF Prices, PricesOf, Sides

\* A window has all the levels past the guard between any two that it has.
LEMMA WindowsAreWhole ==
  ASSUME NEW depth \in Depths, NEW side \in Sides, NEW best,
         NEW lo \in Window(depth, side, best), NEW hi \in Window(depth, side, best),
         NEW p \in Levels(depth, side), Beyond(side, best, p), lo <= p, p <= hi
  PROVE  p \in Window(depth, side, best)
<1> DEFINE past == {q \in Levels(depth, side) : Beyond(side, best, q)}
           Ahead(x) == {q \in past : Better(side, q, x)}
<1>1. past \subseteq Prices /\ past \subseteq Nat /\ IsFiniteSet(past)
  <2>1. past \subseteq Prices
    BY PricesType DEF Levels
  <2> HIDE DEF past
  <2> QED BY <2>1, PricesType, FS_Subset
<1>2. lo \in past /\ hi \in past /\ p \in past
  BY DEF Window
<1>3. Cardinality(Ahead(lo)) < MaxLevels /\ Cardinality(Ahead(hi)) < MaxLevels
  BY DEF Window
<1>4. Ahead(p) \subseteq Ahead(lo) \/ Ahead(p) \subseteq Ahead(hi)
  <2> HIDE DEF past
  <2>1. lo \in Nat /\ hi \in Nat /\ p \in Nat
    BY <1>1, <1>2
  <2>2. CASE side = "bid"
    <3>1. \A q \in past : q > p => q > lo
      BY <1>1, <2>1
    <3> QED BY <2>2, <3>1 DEF Better
  <2>3. CASE side # "bid"
    <3>1. \A q \in past : q < p => q < hi
      BY <1>1, <2>1
    <3> QED BY <2>3, <3>1 DEF Better
  <2> QED BY <2>2, <2>3
<1>5. \A x \in {lo, hi, p} : IsFiniteSet(Ahead(x)) /\ Cardinality(Ahead(x)) \in Nat
  <2>1. \A x \in {lo, hi, p} : Ahead(x) \subseteq past
    OBVIOUS
  <2> HIDE DEF past, Ahead
  <2> QED BY <1>1, <2>1, FS_Subset, FS_CardinalityType
<1>6. Cardinality(Ahead(p)) < MaxLevels
  <2>1. MaxLevels \in Nat
    BY AuditAssumption
  <2> HIDE DEF Ahead
  <2>2. Cardinality(Ahead(p)) <= Cardinality(Ahead(lo)) \/ Cardinality(Ahead(p)) <= Cardinality(Ahead(hi))
    BY <1>4, <1>5, FS_Subset
  <2> QED BY <1>3, <1>5, <2>1, <2>2
<1> QED BY <1>2, <1>6 DEF Window

\* A price that is reported wrong is wrong in the books, not in how they were cut.
LEMMA SideFindsDifferences ==
  ASSUME NEW ours \in Depths, NEW theirs \in Depths, NEW side \in Sides,
         NEW p \in AuditSide(ours, theirs, side).wrong
  PROVE  p \in Prices /\ ours[p] # theirs[p]
<1> DEFINE best == Best(ours, side)
           mine == Window(ours, side, best)
           others == Window(theirs, side, best)
           Held(depth, window, q) == IF q \in window THEN depth[q] ELSE 0
<1>1. p \in Overlap(mine, others) /\ Held(ours, mine, p) # Held(theirs, others, p)
  BY DEF AuditSide, FirstOf
<1>2. /\ p \in mine \/ p \in others
      /\ \E lo, hi \in mine : lo <= p /\ p <= hi
      /\ \E lo, hi \in others : lo <= p /\ p <= hi
  <2> HIDE DEF mine, others
  <2> QED BY <1>1 DEF Overlap
<1>3. \A depth \in Depths : \A q \in Window(depth, side, best) :
         q \in PricesOf(side) /\ Beyond(side, best, q)
  BY DEF Window, Levels
<1>4. p \in Prices /\ p \in PricesOf(side) /\ Beyond(side, best, p)
  BY <1>2, <1>3, PricesType
<1>5. ASSUME NEW depth \in Depths, \E lo, hi \in Window(depth, side, best) : lo <= p /\ p <= hi
      PROVE  Held(depth, Window(depth, side, best), p) = depth[p]
  <2>1. depth[p] \in Nat
    BY <1>4, AuditAssumption DEF Depths
  <2>2. CASE depth[p] > 0
    <3>1. p \in Levels(depth, side)
      BY <1>4, <2>2 DEF Levels
    <3>2. p \in Window(depth, side, best)
      <4> HIDE DEF best
      <4> QED BY <1>4, <1>5, <3>1, WindowsAreWhole
    <3> QED BY <3>2
  <2>3. CASE depth[p] = 0
    BY <2>3
  <2> QED BY <2>1, <2>2, <2>3
<1>6. Held(ours, mine, p) = ours[p] /\ Held(theirs, others, p) = theirs[p]
  BY <1>2, <1>5
<1> QED BY <1>1, <1>4, <1>6

\* Nor does the truncation add any, and the kind says whether there is one.
LEMMA AuditFindsDifferences ==
  ASSUME NEW ours \in Depths, NEW theirs \in Depths
  PROVE  LET outcome == Audit[<<ours, theirs>>]
         IN  /\ outcome.wrong \subseteq Prices
             /\ \A p \in outcome.wrong : ours[p] # theirs[p]
             /\ outcome.kind \in {"mismatch", "inconclusive", "match"}
             /\ outcome.kind = "mismatch" <=> outcome.wrong # {}
<1> DEFINE outcome == AuditOutcome(ours, theirs)
<1>1. Audit[<<ours, theirs>>] = outcome
  BY DEF Audit
<1>2. \A p \in outcome.wrong :
         p \in AuditSide(ours, theirs, "bid").wrong \/ p \in AuditSide(ours, theirs, "ask").wrong
  BY DEF AuditOutcome, FirstOf
<1>3. \A p \in outcome.wrong : p \in Prices /\ ours[p] # theirs[p]
  <2> HIDE DEF outcome
  <2> QED BY <1>2, SideFindsDifferences DEF Sides
<1>4. /\ outcome.kind \in {"mismatch", "inconclusive", "match"}
      /\ outcome.kind = "mismatch" <=> outcome.wrong # {}
  BY DEF AuditOutcome
<1> QED BY <1>1, <1>3, <1>4

-------------------------------------------------------------------------------
(* The depth audit: the steps.                                               *)

Updates == [price : Prices, qty : 0..MaxQty]
Snapshots == [depth : Depths]

\* What is on the wire is the one or the other.
LEMMA MessageKinds ==
  /\ \A m \in Updates : ~IsSnapshot(m) /\ m.price \in Prices /\ m.qty \in 0..MaxQty
  /\ \A m \in Snapshots : IsSnapshot(m) /\ m.depth \in Depths
BY DEF Updates, Snapshots, IsSnapshot

\* The types of everything but the streak.
RestTypeOK ==
    /\ venue \in Depths /\ book \in Depths
    /\ live \in BOOLEAN /\ convicted \in BOOLEAN
    /\ wire \in Seq(Updates \union Snapshots)
    /\ rest \in [asked : BOOLEAN, depth : Depths]
    /\ moved \subseteq Prices /\ baseless \subseteq Prices
    /\ spent \in [updates : 0..MaxUpdates, losses : 0..MaxLosses, breaks : 0..MaxBreaks]

TrailType ==
    /\ trail \in [consecutive : Nat, suspect : SUBSET Prices]
    /\ (trail.consecutive = 0 <=> trail.suspect = {}) /\ (live => trail.consecutive < Enough)

LEMMA TypeParts == AuditTypeOK <=> RestTypeOK /\ TrailType
BY DEF AuditTypeOK, RestTypeOK, TrailType, Updates, Snapshots

LEMMA TypeNext == ASSUME RestTypeOK', TrailType' PROVE AuditTypeOK'
BY DEF AuditTypeOK, RestTypeOK, TrailType, Updates, Snapshots

\* What the first message leaves behind.
LEMMA TailIs ==
  ASSUME NEW S, NEW s \in Seq(S), s # <<>>
  PROVE  /\ Tail(s) \in Seq(S) /\ Head(s) = s[1] /\ s[1] \in S /\ 1 \in DOMAIN s
         /\ Len(Tail(s)) = Len(s) - 1 /\ Len(s) \in Nat /\ Len(s) >= 1
         /\ \A i \in DOMAIN Tail(s) : i + 1 \in DOMAIN s /\ i + 1 # 1 /\ Tail(s)[i] = s[i + 1]
OBVIOUS

LEMMA AppendIs ==
  ASSUME NEW S, NEW s \in Seq(S), NEW e \in S
  PROVE  /\ Append(s, e) \in Seq(S) /\ Len(Append(s, e)) = Len(s) + 1 /\ Len(s) \in Nat
         /\ DOMAIN s = 1..Len(s) /\ DOMAIN Append(s, e) = 1..Len(s) + 1
         /\ \A i \in DOMAIN s : Append(s, e)[i] = s[i]
         /\ Append(s, e)[Len(s) + 1] = e
OBVIOUS

\* The streak and the verdicts, where neither changes nor what they are held against.
StreakVars == <<trail, verdicts, convicted, live>>

LEMMA StreakUnchanged ==
  ASSUME TrailType, VerdictsType, TrailIsEvidence, StreaksAreWhole, UNCHANGED StreakVars
  PROVE  TrailType' /\ VerdictsType' /\ TrailIsEvidence' /\ StreaksAreWhole'
BY DEF TrailType, VerdictsType, TrailIsEvidence, StreaksAreWhole, StreakVars

LEMMA InitInvariant == AuditInit => AuditIInv
<1> SUFFICES ASSUME AuditInit PROVE AuditIInv
  OBVIOUS
<1> USE DEF AuditInit
<1>1. venue \in Depths
  BY AuditAssumption DEF Depths
<1>2. [p \in Prices |-> 0] \in Depths
  BY AuditAssumption DEF Depths
<1>3. RestTypeOK
  <2>1. rest \in [asked : BOOLEAN, depth : Depths]
    BY <1>2 DEF NoAnswer
  <2>2. spent \in [updates : 0..MaxUpdates, losses : 0..MaxLosses, breaks : 0..MaxBreaks]
    <3>1. 0 \in 0..MaxUpdates /\ 0 \in 0..MaxLosses /\ 0 \in 0..MaxBreaks
      BY BudgetType
    <3>2. spent = [updates |-> 0, losses |-> 0, breaks |-> 0]
      OBVIOUS
    <3> QED BY ONLY <3>1, <3>2
  <2>3. wire \in Seq(Updates \union Snapshots)
    OBVIOUS
  <2> QED BY <1>1, <2>1, <2>2, <2>3 DEF RestTypeOK
<1>4. TrailType /\ VerdictsType /\ TrailIsEvidence /\ StreaksAreWhole
  BY EnoughType DEF TrailType, VerdictsType, TrailIsEvidence, StreaksAreWhole, NewTrail
<1>5. SnapshotsOpen /\ RestIsTrue /\ FindingsHaveCauses
  BY DEF SnapshotsOpen, RestIsTrue, FindingsHaveCauses, NoAnswer
<1> QED BY <1>3, <1>4, <1>5, TypeParts DEF AuditIInv

LEMMA VenueUpdatesKeeps == ASSUME AuditIInv, VenueUpdates PROVE AuditIInv'
<1> USE DEF AuditIInv
<1>1. RestTypeOK /\ TrailType
  BY TypeParts
<1>2. PICK p \in Prices, q \in 0..MaxQty :
        /\ venue' = [venue EXCEPT ![p] = q]
        /\ wire' = Append(wire, [price |-> p, qty |-> q])
        /\ moved' = moved \union {p}
  BY DEF VenueUpdates
<1> DEFINE m == [price |-> p, qty |-> q]
<1>3. m \in Updates /\ ~IsSnapshot(m) /\ m.price = p
  BY MessageKinds DEF Updates
<1> HIDE DEF m
<1>4. /\ wire' \in Seq(Updates \union Snapshots)
      /\ \A i \in DOMAIN wire' : (i \in DOMAIN wire /\ wire'[i] = wire[i]) \/ wire'[i] = m
  <2>1. wire \in Seq(Updates \union Snapshots) /\ m \in Updates \union Snapshots /\ wire' = Append(wire, m)
    BY <1>1, <1>2, <1>3 DEF RestTypeOK, m
  <2> QED BY <2>1, AppendIs
<1>5. venue' \in Depths /\ moved' \subseteq Prices
  BY <1>1, <1>2 DEF RestTypeOK, Depths
<1>6. spent' \in [updates : 0..MaxUpdates, losses : 0..MaxLosses, breaks : 0..MaxBreaks]
  BY <1>1, BudgetType DEF RestTypeOK, VenueUpdates
<1>7. RestTypeOK'
  BY <1>1, <1>4, <1>5, <1>6 DEF RestTypeOK, VenueUpdates
<1>8. TrailType' /\ VerdictsType' /\ TrailIsEvidence' /\ StreaksAreWhole'
  BY <1>1, StreakUnchanged DEF VenueUpdates, StreakVars
<1>9. SnapshotsOpen'
  BY <1>3, <1>4 DEF SnapshotsOpen, VenueUpdates
<1>10. RestIsTrue'
  <2>1. rest' = rest
    BY DEF VenueUpdates
  <2>2. \A r \in Prices \ {p} : venue'[r] = venue[r]
    BY <1>1, <1>2 DEF RestTypeOK, Depths
  <2> QED BY <1>2, <1>3, <1>4, <2>1, <2>2 DEF RestIsTrue
<1>11. FindingsHaveCauses'
  BY DEF FindingsHaveCauses, VenueUpdates
<1> QED BY <1>7, <1>8, <1>9, <1>10, <1>11, TypeNext

\* A message leaves the wire.
LEMMA WireShrinks ==
  ASSUME RestTypeOK, wire # <<>>, wire' = Tail(wire)
  PROVE  /\ wire' \in Seq(Updates \union Snapshots)
         /\ wire[1] \in Updates \union Snapshots /\ Head(wire) = wire[1] /\ 1 \in DOMAIN wire
         /\ \A i \in DOMAIN wire' : i + 1 \in DOMAIN wire /\ i + 1 # 1 /\ wire'[i] = wire[i + 1]
BY TailIs DEF RestTypeOK

LEMMA DeliverKeeps == ASSUME AuditIInv, Deliver PROVE AuditIInv'
<1> USE DEF AuditIInv
<1>1. RestTypeOK /\ TrailType
  BY TypeParts
<1>2. wire # <<>> /\ wire' = Tail(wire)
      /\ UNCHANGED <<venue, rest, trail, moved, verdicts, baseless, convicted, spent>>
  BY DEF Deliver
<1>3. /\ wire' \in Seq(Updates \union Snapshots)
      /\ wire[1] \in Updates \union Snapshots /\ Head(wire) = wire[1] /\ 1 \in DOMAIN wire
      /\ \A i \in DOMAIN wire' : i + 1 \in DOMAIN wire /\ i + 1 # 1 /\ wire'[i] = wire[i + 1]
  BY <1>1, <1>2, WireShrinks
<1>4. RestIsTrue'
  BY <1>2, <1>3 DEF RestIsTrue
<1>5. FindingsHaveCauses'
  BY <1>2 DEF FindingsHaveCauses
<1>6. CASE IsSnapshot(wire[1])
  <2>1. wire[1].depth \in Depths /\ book' = wire[1].depth /\ live' = TRUE
    BY <1>3, <1>6, MessageKinds DEF Deliver
  <2>2. ~live /\ ~convicted
    BY <1>3, <1>6 DEF SnapshotsOpen
  <2>3. trail.consecutive < Enough
    BY <1>1, <2>2, EnoughType DEF TrailIsEvidence, TrailType
  <2>4. RestTypeOK'
    BY <1>1, <1>2, <1>3, <2>1 DEF RestTypeOK
  <2>5. TrailType' /\ VerdictsType' /\ TrailIsEvidence' /\ StreaksAreWhole'
    BY <1>1, <1>2, <2>1, <2>2, <2>3 DEF TrailType, VerdictsType, TrailIsEvidence, StreaksAreWhole
  <2>6. SnapshotsOpen'
    BY <1>2, <1>3 DEF SnapshotsOpen
  <2> QED BY <1>4, <1>5, <2>4, <2>5, <2>6, TypeNext
<1>7. CASE ~IsSnapshot(wire[1])
  <2>1. /\ book' = (IF live THEN [book EXCEPT ![wire[1].price] = wire[1].qty] ELSE book)
        /\ live' = live
    BY <1>3, <1>7 DEF Deliver
  <2>2. wire[1].price \in Prices /\ wire[1].qty \in 0..MaxQty
    BY <1>3, <1>7, MessageKinds
  <2>3. book' \in Depths
    BY <1>1, <2>1, <2>2 DEF RestTypeOK, Depths
  <2>4. RestTypeOK'
    BY <1>1, <1>2, <1>3, <2>1, <2>3 DEF RestTypeOK
  <2>5. TrailType' /\ VerdictsType' /\ TrailIsEvidence' /\ StreaksAreWhole'
    BY <1>1, <1>2, <2>1, StreakUnchanged DEF StreakVars
  <2>6. SnapshotsOpen'
    BY <1>2, <1>3, <2>1 DEF SnapshotsOpen
  <2> QED BY <1>4, <1>5, <2>4, <2>5, <2>6, TypeNext
<1> QED BY <1>6, <1>7

LEMMA LoseKeeps == ASSUME AuditIInv, Lose PROVE AuditIInv'
<1> USE DEF AuditIInv
<1>1. RestTypeOK /\ TrailType
  BY TypeParts
<1>2. wire # <<>> /\ wire' = Tail(wire)
      /\ UNCHANGED <<venue, book, live, rest, trail, moved, verdicts, baseless, convicted>>
  BY DEF Lose
<1>3. /\ wire' \in Seq(Updates \union Snapshots)
      /\ \A i \in DOMAIN wire' : i + 1 \in DOMAIN wire /\ i + 1 # 1 /\ wire'[i] = wire[i + 1]
  BY <1>1, <1>2, WireShrinks
<1>4. spent' \in [updates : 0..MaxUpdates, losses : 0..MaxLosses, breaks : 0..MaxBreaks]
  BY <1>1, BudgetType DEF RestTypeOK, Lose
<1>5. RestTypeOK'
  BY <1>1, <1>2, <1>3, <1>4 DEF RestTypeOK
<1>6. TrailType' /\ VerdictsType' /\ TrailIsEvidence' /\ StreaksAreWhole'
  BY <1>1, <1>2, StreakUnchanged DEF StreakVars
<1>7. SnapshotsOpen' /\ RestIsTrue' /\ FindingsHaveCauses'
  BY <1>2, <1>3 DEF SnapshotsOpen, RestIsTrue, FindingsHaveCauses
<1> QED BY <1>5, <1>6, <1>7, TypeNext

LEMMA FetchKeeps == ASSUME AuditIInv, Fetch PROVE AuditIInv'
<1> USE DEF AuditIInv
<1>1. RestTypeOK /\ TrailType
  BY TypeParts
<1>2. /\ rest' = [asked |-> TRUE, depth |-> venue]
      /\ moved' = {m.price : m \in {w \in ToSet(wire) : ~IsSnapshot(w)}}
      /\ UNCHANGED <<venue, book, live, wire, trail, verdicts, baseless, convicted, spent>>
  BY DEF Fetch
<1>3. \A m \in ToSet(wire) : m \in Updates \union Snapshots
  BY <1>1 DEF RestTypeOK, ToSet
<1>4. moved' \subseteq Prices
  BY <1>2, <1>3, MessageKinds
<1>5. \A i \in DOMAIN wire : ~IsSnapshot(wire[i]) => wire[i].price \in moved'
  <2>1. \A i \in DOMAIN wire : wire[i] \in ToSet(wire)
    BY <1>1 DEF RestTypeOK, ToSet
  <2> QED BY <1>2, <2>1
<1>6. RestTypeOK'
  BY <1>1, <1>2, <1>4 DEF RestTypeOK
<1>7. TrailType' /\ VerdictsType' /\ TrailIsEvidence' /\ StreaksAreWhole'
  BY <1>1, <1>2, StreakUnchanged DEF StreakVars
<1>8. SnapshotsOpen' /\ RestIsTrue' /\ FindingsHaveCauses'
  BY <1>2, <1>5 DEF SnapshotsOpen, RestIsTrue, FindingsHaveCauses
<1> QED BY <1>6, <1>7, <1>8, TypeNext

\* The verdicts after one more audit, of which only the last ones are kept.
Recorded(wrong) == Append(IF Len(verdicts) = Enough THEN Tail(verdicts) ELSE verdicts, wrong)

Grows(after) ==
    /\ Len(verdicts) < Enough /\ Len(after) = Len(verdicts) + 1
    /\ \A i \in DOMAIN verdicts : after[i] = verdicts[i]

Slides(after) ==
    /\ Len(verdicts) = Enough /\ Len(after) = Enough
    /\ \A i \in 1..(Enough - 1) : after[i] = verdicts[i + 1]

LEMMA RecordedIs ==
  ASSUME VerdictsType, Len(verdicts) <= Enough, NEW wrong \in SUBSET Prices
  PROVE  LET after == Recorded(wrong)
         IN  /\ after \in Seq(SUBSET Prices) /\ Len(after) \in Nat /\ Len(verdicts) \in Nat
             /\ DOMAIN after = 1..Len(after) /\ DOMAIN verdicts = 1..Len(verdicts)
             /\ Len(after) <= Enough /\ Len(after) >= 1 /\ after[Len(after)] = wrong
             /\ Grows(after) \/ Slides(after)
<1>1. verdicts \in Seq(SUBSET Prices) /\ Len(verdicts) \in Nat /\ DOMAIN verdicts = 1..Len(verdicts)
  BY DEF VerdictsType
<1>2. Enough \in Nat /\ Enough >= 2
  BY EnoughType
<1>3. CASE Len(verdicts) = Enough
  <2>1. verdicts # <<>>
    BY <1>1, <1>2, <1>3
  <2>2. /\ Tail(verdicts) \in Seq(SUBSET Prices) /\ Len(Tail(verdicts)) = Enough - 1
        /\ \A i \in DOMAIN Tail(verdicts) : Tail(verdicts)[i] = verdicts[i + 1]
    BY <1>1, <1>3, <2>1, TailIs
  <2> DEFINE rear == Tail(verdicts)
  <2>3. Recorded(wrong) = Append(rear, wrong)
    BY <1>3 DEF Recorded
  <2>4. /\ Append(rear, wrong) \in Seq(SUBSET Prices) /\ Len(Append(rear, wrong)) = Len(rear) + 1
        /\ DOMAIN rear = 1..Len(rear) /\ DOMAIN Append(rear, wrong) = 1..Len(rear) + 1
        /\ \A i \in DOMAIN rear : Append(rear, wrong)[i] = rear[i]
        /\ Append(rear, wrong)[Len(rear) + 1] = wrong
    <3> HIDE DEF rear
    <3> QED BY <2>2, AppendIs DEF rear
  <2> HIDE DEF rear
  <2>5. Len(rear) = Enough - 1 /\ \A i \in DOMAIN rear : rear[i] = verdicts[i + 1]
    BY <2>2 DEF rear
  <2>6. /\ Len(Append(rear, wrong)) = Enough
        /\ \A i \in 1..(Enough - 1) : Append(rear, wrong)[i] = verdicts[i + 1]
    BY <1>2, <2>4, <2>5
  <2>7. Slides(Append(rear, wrong))
    BY <1>3, <2>6 DEF Slides
  <2> QED BY <1>1, <1>2, <2>3, <2>4, <2>5, <2>6, <2>7
<1>4. CASE Len(verdicts) # Enough
  <2>1. Recorded(wrong) = Append(verdicts, wrong)
    BY <1>4 DEF Recorded
  <2>3. Len(verdicts) < Enough
    BY ONLY <1>2, <1>4, Len(verdicts) \in Nat, Len(verdicts) <= Enough
  <2>2. /\ Append(verdicts, wrong) \in Seq(SUBSET Prices)
        /\ Len(Append(verdicts, wrong)) = Len(verdicts) + 1
        /\ DOMAIN Append(verdicts, wrong) = 1..Len(verdicts) + 1
        /\ \A i \in DOMAIN verdicts : Append(verdicts, wrong)[i] = verdicts[i]
        /\ Append(verdicts, wrong)[Len(verdicts) + 1] = wrong
    BY <1>1, AppendIs
  <2>4. Grows(Append(verdicts, wrong))
    BY <2>2, <2>3 DEF Grows
  <2>5. Len(verdicts) + 1 <= Enough /\ Len(verdicts) + 1 >= 1 /\ Len(verdicts) + 1 \in Nat
    BY ONLY <1>2, <2>3, Len(verdicts) \in Nat
  <2> QED BY <1>1, <2>1, <2>2, <2>4, <2>5
<1> QED BY <1>3, <1>4

\* The streak after a conclusive audit of a live book.
LEMMA StreakStep ==
  ASSUME TrailType, VerdictsType, TrailIsEvidence, StreaksAreWhole, live = TRUE,
         NEW outcome, outcome.wrong \subseteq Prices, outcome.kind \in {"mismatch", "match"},
         outcome.kind = "mismatch" <=> outcome.wrong # {},
         trail' = ObserveOutcome(trail, outcome),
         convicted' \in BOOLEAN, live' \in BOOLEAN, live' <=> ~convicted',
         convicted' <=> outcome.kind = "mismatch" /\ trail'.consecutive >= Enough,
         verdicts' = Recorded(outcome.wrong)
  PROVE  TrailType' /\ VerdictsType' /\ TrailIsEvidence' /\ StreaksAreWhole'
<1> DEFINE k == trail.consecutive
           n == Len(verdicts)
           kept == trail.suspect \intersect outcome.wrong
<1>1. /\ k \in Nat /\ k < Enough /\ k <= n /\ n <= Enough /\ (k = 0 <=> trail.suspect = {})
      /\ trail.suspect \subseteq Prices
      /\ \A i \in DOMAIN verdicts : i > n - k => trail.suspect \subseteq verdicts[i]
  BY DEF TrailType, TrailIsEvidence
<1>2. /\ verdicts' \in Seq(SUBSET Prices) /\ Len(verdicts') \in Nat /\ n \in Nat
      /\ DOMAIN verdicts' = 1..Len(verdicts') /\ DOMAIN verdicts = 1..n
      /\ Len(verdicts') <= Enough /\ Len(verdicts') >= 1 /\ verdicts'[Len(verdicts')] = outcome.wrong
      /\ Grows(verdicts') \/ Slides(verdicts')
  BY <1>1, RecordedIs
<1>3. Enough \in Nat /\ Enough >= 2
  BY EnoughType
<1>4. VerdictsType'
  BY <1>2 DEF VerdictsType
<1>5. CASE outcome.kind = "match"
  <2>1. trail'.consecutive = 0 /\ trail'.suspect = {} /\ trail' = NewTrail /\ ~convicted' /\ outcome.wrong = {}
    BY <1>5 DEF ObserveOutcome, NewTrail
  <2>2. TrailType'
    BY <1>3, <2>1 DEF TrailType, NewTrail
  <2>3. TrailIsEvidence'
    <3>1. Len(verdicts') \in Nat /\ Len(verdicts') <= Enough /\ 0 < Enough
      BY <1>2, <1>3
    <3>2. \A i \in DOMAIN verdicts' : trail'.suspect \subseteq verdicts'[i]
      BY <2>1
    <3>3. convicted' = FALSE /\ trail'.consecutive = 0 /\ trail'.consecutive # Enough
      BY <2>1, <3>1
    <3>4. trail'.consecutive <= Len(verdicts') /\ trail'.consecutive <= Enough
      BY ONLY <1>3, <3>1, <3>3
    <3> QED BY <3>1, <3>2, <3>3, <3>4 DEF TrailIsEvidence
  <2>4. StreaksAreWhole'
    BY <1>2, <2>1 DEF StreaksAreWhole
  <2> QED BY <1>4, <2>2, <2>3, <2>4
<1>6. CASE outcome.kind = "mismatch" /\ (k = 0 \/ kept = {})
  <2>1. trail' = [consecutive |-> 1, suspect |-> outcome.wrong] /\ outcome.wrong # {}
    BY <1>6 DEF ObserveOutcome
  <2>2. ~convicted' /\ live'
    BY <1>3, <2>1
  <2>3. TrailType'
    BY <1>3, <2>1 DEF TrailType
  <2>4. TrailIsEvidence'
    <3>1. \A i \in DOMAIN verdicts' : i > Len(verdicts') - 1 => i = Len(verdicts')
      BY <1>2
    <3> QED BY <1>2, <1>3, <2>1, <2>2, <3>1 DEF TrailIsEvidence
  <2>5. StreaksAreWhole'
    <3>1. SUFFICES ASSUME Enough = 2, Len(verdicts') = 2
                   PROVE  verdicts'[1] \intersect outcome.wrong = {}
      BY <1>2, <2>1 DEF StreaksAreWhole
    <3>2. verdicts'[1] = verdicts[n] /\ n > 0
      BY <1>2, <1>3, <3>1 DEF Grows, Slides
    <3>3. CASE k = 0
      BY <3>1, <3>2, <3>3 DEF StreaksAreWhole
    <3>4. CASE k = 1
      BY <1>6, <3>1, <3>2, <3>4 DEF StreaksAreWhole
    <3> QED BY <1>1, <3>1, <3>3, <3>4
  <2> QED BY <1>4, <2>3, <2>4, <2>5
<1>7. CASE outcome.kind = "mismatch" /\ k # 0 /\ kept # {}
  <2>1. trail' = [consecutive |-> k + 1, suspect |-> kept]
    BY <1>7 DEF ObserveOutcome
  <2>2. convicted' <=> k + 1 >= Enough
    BY <1>7, <2>1
  <2>3. convicted' <=> k + 1 = Enough
    BY <1>1, <1>3, <2>2
  <2>4. TrailType'
    BY <1>1, <1>3, <1>7, <2>1, <2>2 DEF TrailType
  <2>5. \A i \in DOMAIN verdicts' : i > Len(verdicts') - (k + 1) => kept \subseteq verdicts'[i]
    <3> SUFFICES ASSUME NEW i \in DOMAIN verdicts', i > Len(verdicts') - (k + 1)
                 PROVE  kept \subseteq verdicts'[i]
      OBVIOUS
    <3>1. CASE i = Len(verdicts')
      BY <1>2, <3>1
    <3>2. CASE i # Len(verdicts') /\ Grows(verdicts')
      <4>1. i \in 1..n /\ verdicts'[i] = verdicts[i] /\ i > n - k
        BY <1>1, <1>2, <3>2 DEF Grows
      <4> QED BY <1>1, <1>2, <4>1
    <3>3. CASE i # Len(verdicts') /\ Slides(verdicts')
      <4>1. i \in 1..(Enough - 1) /\ verdicts'[i] = verdicts[i + 1] /\ i + 1 > n - k /\ i + 1 \in 1..n
        BY <1>1, <1>2, <1>3, <3>3 DEF Slides
      <4> QED BY <1>1, <1>2, <4>1
    <3> QED BY <1>1, <1>2, <3>1, <3>2, <3>3
  <2>6. k + 1 <= Len(verdicts') /\ k + 1 <= Enough
    BY <1>1, <1>2, <1>3 DEF Grows, Slides
  <2>7. TrailIsEvidence'
    BY <1>2, <2>1, <2>3, <2>5, <2>6 DEF TrailIsEvidence
  <2>8. StreaksAreWhole'
    BY <1>1, <1>7, <2>1 DEF StreaksAreWhole
  <2> QED BY <1>4, <2>4, <2>7, <2>8
<1> QED BY <1>5, <1>6, <1>7

\* A live book is compared with an answer that is true where nothing moved.
LEMMA NothingIsBlamedInVain ==
  ASSUME AuditIInv, rest.asked, live, NEW p \in Audit[<<book, rest.depth>>].wrong
  PROVE  p \in Damaged \union moved
<1>1. RestTypeOK
  BY TypeParts DEF AuditIInv
<1>2. p \in Prices /\ book[p] # rest.depth[p]
  BY <1>1, AuditFindsDifferences DEF RestTypeOK
<1>3. SUFFICES ASSUME p \notin moved PROVE IsDamaged(p)
  BY <1>2 DEF Damaged
<1>4. rest.depth[p] = venue[p] /\ \A i \in DOMAIN wire : ~IsSnapshot(wire[i]) => wire[i].price # p
  BY <1>2, <1>3 DEF AuditIInv, RestIsTrue
<1>5. \A i \in DOMAIN wire : ~IsSnapshot(wire[i])
  BY DEF AuditIInv, SnapshotsOpen
<1>6. {i \in DOMAIN wire : IsSnapshot(wire[i]) \/ wire[i].price = p} = {}
  BY <1>4, <1>5
<1> QED BY <1>2, <1>4, <1>6 DEF IsDamaged

\* When the answer was taken, nothing is held against the venue any more.
LEMMA AfterAnswer ==
  ASSUME RestTypeOK, FindingsHaveCauses,
         TrailType', VerdictsType', TrailIsEvidence', StreaksAreWhole', SnapshotsOpen',
         live' \in BOOLEAN, convicted' \in BOOLEAN, baseless' = baseless,
         rest' = NoAnswer, moved' = {}, UNCHANGED <<venue, book, wire, spent>>
  PROVE  AuditIInv'
<1>1. NoAnswer \in [asked : BOOLEAN, depth : Depths]
  BY AuditAssumption DEF NoAnswer, Depths
<1>2. RestTypeOK'
  BY <1>1 DEF RestTypeOK
<1>3. RestIsTrue' /\ FindingsHaveCauses'
  BY DEF RestIsTrue, FindingsHaveCauses, NoAnswer
<1> QED BY <1>2, <1>3, TypeNext DEF AuditIInv

LEMMA AuditLandsKeeps == ASSUME AuditIInv, AuditLands PROVE AuditIInv'
<1> DEFINE outcome == Audit[<<book, rest.depth>>]
<1>1. /\ RestTypeOK /\ TrailType /\ VerdictsType /\ TrailIsEvidence /\ StreaksAreWhole
      /\ SnapshotsOpen /\ FindingsHaveCauses
  BY TypeParts DEF AuditIInv
<1>2. /\ rest.asked /\ rest' = NoAnswer /\ moved' = {}
      /\ UNCHANGED <<venue, book, wire, spent>>
  BY DEF AuditLands
<1>3. /\ outcome.wrong \subseteq Prices /\ outcome.kind \in {"mismatch", "inconclusive", "match"}
      /\ outcome.kind = "mismatch" <=> outcome.wrong # {}
  BY <1>1, AuditFindsDifferences DEF RestTypeOK
<1> HIDE DEF outcome
<1>4. CASE ~live
  <2>1. UNCHANGED <<trail, convicted, live, verdicts, baseless>>
    BY <1>4 DEF AuditLands
  <2>2. TrailType' /\ VerdictsType' /\ TrailIsEvidence' /\ StreaksAreWhole'
    BY <1>1, <2>1, StreakUnchanged DEF StreakVars
  <2>3. live' \in BOOLEAN /\ convicted' \in BOOLEAN /\ baseless' = baseless /\ SnapshotsOpen'
    BY <1>1, <1>2, <2>1 DEF RestTypeOK, SnapshotsOpen
  <2> QED BY <1>1, <1>2, <2>2, <2>3, AfterAnswer
<1>5. CASE live
  <2>1. /\ trail' = ObserveOutcome(trail, outcome)
        /\ convicted' = (outcome.kind = "mismatch" /\ Convicts(trail'))
        /\ live' = ~convicted'
        /\ verdicts' = IF outcome.kind = "inconclusive" THEN verdicts ELSE Recorded(outcome.wrong)
        /\ baseless' = baseless \union (outcome.wrong \ (Damaged \union moved))
    BY <1>5 DEF AuditLands, outcome, Recorded
  <2>2. baseless' = baseless
    <3>1. outcome.wrong \subseteq Damaged \union moved
      BY <1>2, <1>5, NothingIsBlamedInVain DEF outcome
    <3> QED BY <2>1, <3>1
  <2>5. live' \in BOOLEAN /\ convicted' \in BOOLEAN
    BY <2>1
  <2>3. TrailType' /\ VerdictsType' /\ TrailIsEvidence' /\ StreaksAreWhole'
    <3>1. CASE outcome.kind = "inconclusive"
      <4>1. trail' = trail /\ verdicts' = verdicts /\ convicted' = FALSE /\ live' = TRUE
        BY <2>1, <3>1 DEF ObserveOutcome
      <4>2. live = TRUE /\ convicted = FALSE
        BY <1>1, <1>5 DEF RestTypeOK, TrailIsEvidence
      <4> QED BY <1>1, <4>1, <4>2, StreakUnchanged DEF StreakVars
    <3>2. CASE outcome.kind # "inconclusive"
      <4>1. live = TRUE
        BY <1>1, <1>5 DEF RestTypeOK
      <4>2. /\ convicted' <=> outcome.kind = "mismatch" /\ trail'.consecutive >= Enough
            /\ live' <=> ~convicted'
        BY <2>1 DEF Convicts
      <4>3. verdicts' = Recorded(outcome.wrong) /\ outcome.kind \in {"mismatch", "match"}
        BY <1>3, <2>1, <3>2
      <4> QED BY <1>1, <1>3, <2>1, <2>5, <4>1, <4>2, <4>3, StreakStep
    <3> QED BY <3>1, <3>2
  <2>4. SnapshotsOpen'
    BY <1>1, <1>2, <1>5 DEF SnapshotsOpen
  <2> QED BY <1>1, <1>2, <2>2, <2>3, <2>4, <2>5, AfterAnswer
<1> QED BY <1>4, <1>5

LEMMA ReconnectKeeps == ASSUME AuditIInv, Reconnect PROVE AuditIInv'
<1>1. RestTypeOK /\ FindingsHaveCauses
  BY TypeParts DEF AuditIInv
<1>2. /\ live' = FALSE /\ convicted' = FALSE
      /\ wire' = <<[depth |-> venue]>>
      /\ rest' = NoAnswer /\ moved' = {}
      /\ trail' = NewTrail /\ verdicts' = <<>>
      /\ UNCHANGED <<venue, book, baseless>>
  BY DEF Reconnect, Reset
<1>3. spent' \in [updates : 0..MaxUpdates, losses : 0..MaxLosses, breaks : 0..MaxBreaks]
  BY <1>1, BudgetType DEF RestTypeOK, Reconnect
<1>4. /\ [depth |-> venue] \in Snapshots /\ [depth |-> venue] \in Updates \union Snapshots
  BY <1>1 DEF RestTypeOK, Snapshots
<1>5. wire' \in Seq(Updates \union Snapshots) /\ DOMAIN wire' = {1}
  <2> DEFINE m == [depth |-> venue]
  <2> HIDE DEF m
  <2>1. m \in Updates \union Snapshots /\ wire' = <<m>>
    BY <1>2, <1>4 DEF m
  <2> QED BY <2>1
<1>6. NoAnswer \in [asked : BOOLEAN, depth : Depths]
  BY AuditAssumption DEF NoAnswer, Depths
<1>7. RestTypeOK'
  BY <1>1, <1>2, <1>3, <1>5, <1>6 DEF RestTypeOK
<1>8. TrailType' /\ VerdictsType' /\ TrailIsEvidence' /\ StreaksAreWhole'
  BY <1>2, EnoughType DEF TrailType, VerdictsType, TrailIsEvidence, StreaksAreWhole, NewTrail
<1>9. SnapshotsOpen' /\ RestIsTrue' /\ FindingsHaveCauses'
  BY <1>1, <1>2, <1>5 DEF SnapshotsOpen, RestIsTrue, FindingsHaveCauses, NoAnswer
<1> QED BY <1>7, <1>8, <1>9, TypeNext DEF AuditIInv

LEMMA StepInvariant == AuditIInv /\ [AuditNext]_auditVars => AuditIInv'
<1> SUFFICES ASSUME AuditIInv, [AuditNext]_auditVars PROVE AuditIInv'
  OBVIOUS
<1>1. CASE UNCHANGED auditVars
  BY <1>1 DEF auditVars, AuditIInv, AuditTypeOK, VerdictsType, SnapshotsOpen, RestIsTrue, TrailIsEvidence,
              StreaksAreWhole, FindingsHaveCauses
<1> QED BY <1>1, VenueUpdatesKeeps, DeliverKeeps, LoseKeeps, FetchKeeps, AuditLandsKeeps,
           ReconnectKeeps DEF AuditNext

-------------------------------------------------------------------------------
(* The depth audit: the theorems.                                            *)

\* The inductive invariant holds of every reachable state.
THEOREM Invariance == AuditSpec => []AuditIInv
BY InitInvariant, StepInvariant, PTL DEF AuditSpec

\* An audit reports no price but one at which an update was lost or raced the
\* fetch: none because the guard cut the two books at different places, or one
\* reached further than the other (audit.rs:229-247).
THEOREM NoFindingInVain == AuditSpec => []AuditInv
<1>1. AuditIInv => AuditInv
  BY DEF AuditIInv, AuditInv
<1> QED BY <1>1, Invariance, PTL

\* A conviction rests on one price that was wrong in every audit of the streak,
\* and with a policy of two none is withheld (AuditTrail::observe).
THEOREM ConvictionsHaveEvidence == AuditSpec => []ConvictedByTheSamePrice
<1>1. AuditIInv => ConvictedByTheSamePrice
  <2> SUFFICES ASSUME AuditIInv PROVE ConvictedByTheSamePrice
    OBVIOUS
  <2>1. /\ Enough \in Nat /\ Enough >= 2 /\ DOMAIN verdicts = 1..Len(verdicts) /\ Len(verdicts) \in Nat
        /\ TrailType /\ \A i \in DOMAIN verdicts : verdicts[i] \subseteq Prices
    BY EnoughType, TypeParts DEF AuditIInv, VerdictsType
  <2>2. ASSUME convicted PROVE SamePriceWrong
    <3>1. trail.consecutive = Enough
      BY <2>2 DEF AuditIInv, TrailIsEvidence
    <3>4. Enough <= Len(verdicts) /\ Len(verdicts) <= Enough
      BY <3>1 DEF AuditIInv, TrailIsEvidence
    <3>6. Enough \in Nat /\ Len(verdicts) \in Nat
      BY <2>1
    <3>5. Len(verdicts) = Enough
      BY ONLY <3>4, <3>6
    <3>2. PICK p \in Prices : p \in trail.suspect
      BY <2>1, <3>1 DEF TrailType
    <3>3. \A i \in DOMAIN verdicts : p \in verdicts[i]
      BY <2>1, <3>1, <3>2, <3>5 DEF AuditIInv, TrailIsEvidence
    <3> QED BY <3>3, <3>5 DEF SamePriceWrong
  <2> USE DEF AuditIInv
  <2>3. ASSUME Enough = 2, SamePriceWrong, ~convicted PROVE FALSE
    <3>1. Len(verdicts) = 2 /\ \E p \in Prices : p \in verdicts[1] /\ p \in verdicts[2]
      BY <2>1, <2>3 DEF SamePriceWrong
    <3>2. trail.consecutive \in Nat /\ trail.consecutive # 2 /\ trail.consecutive <= 2
      BY <2>1, <2>3 DEF TrailIsEvidence, TrailType
    <3>3. CASE trail.consecutive = 0
      BY <2>3, <3>1, <3>3 DEF StreaksAreWhole
    <3>4. CASE trail.consecutive = 1
      BY <2>3, <3>1, <3>4 DEF StreaksAreWhole
    <3> QED BY <3>2, <3>3, <3>4
  <2> QED BY <2>2, <2>3 DEF ConvictedByTheSamePrice
<1> QED BY <1>1, Invariance, PTL

-------------------------------------------------------------------------------
(* What is published of a stream.  The invariant has three parts.  StreamInv *)
(* is about the messages, the status and its account.  RingInv says that the *)
(* ring is true: the slot of every bucket that can still be read holds what  *)
(* the history has of the bucket's time.  The third part is the coverage a   *)
(* snapshot published.                                                       *)

Mids == {content.mid : content \in Contents}
Messages == [kind : Kinds, mid : Mids, at : Nat]
States == [status : Statuses, since : Nat, reason : {"none", "gap", "lost"}, mid : Nat]
Accounts == [total : Nat, since : {Never} \union Nat, statusSince : Nat, desyncs : Nat]
Samples == [at : Nat, mid : Nat \ {NoPrice}]

StreamType ==
    /\ now \in 0..MaxTime /\ received \in 0..MaxMessages
    /\ queue \in Seq(Messages) /\ Len(queue) <= MaxQueue
    /\ state \in States /\ account \in Accounts
    /\ account.since # Never <=> state.status = "desynced"
    /\ state.status = "live" => state.mid \in Mids
    /\ belief \in Seq(Statuses) /\ samples \in Seq(Samples) /\ prints \in Seq(Nat)

\* No message waits too long, or is stamped much before the one it follows.
QueueIsRecent ==
    /\ \A i \in DOMAIN queue : queue[i].at <= now /\ now <= queue[i].at + MaxDelay
    /\ \A i, j \in DOMAIN queue : i <= j => queue[i].at <= queue[j].at + Skew
    /\ \A j \in DOMAIN queue, n \in DOMAIN samples : samples[n].at <= queue[j].at + Skew

\* What was applied is accounted for.
AppliedIsCharged ==
    /\ Len(belief) <= now
    /\ account.since <= Len(belief) /\ account.statusSince <= Len(belief)
    /\ \A n \in DOMAIN samples : samples[n].at <= Len(belief)
    /\ \A n \in DOMAIN prints : prints[n] <= Len(belief)

\* What is older than the status is so by no more than a message waits.
StatusIsOld ==
    /\ \A t \in DOMAIN belief : t > account.statusSince + MaxDelay => belief[t] = state.status
    /\ state.status # "live" =>
          \A n \in DOMAIN samples : samples[n].at <= account.statusSince + Skew
    /\ state.status = "uninitialized" => samples = <<>>

DesyncedTicks(b) == Cardinality({i \in DOMAIN b : b[i] = "desynced"})

Ends(status, desyncs) == 2 * desyncs - (IF status = "desynced" THEN 1 ELSE 0)

\* The two accounts up to the tick that is charged.
ErrorIsBounded ==
    LET byStamp == account.total + (IF account.since = Never THEN 0 ELSE Len(belief) - account.since)
    IN /\ byStamp <= DesyncedTicks(belief) + MaxDelay * Ends(state.status, account.desyncs)
       /\ DesyncedTicks(belief) <= byStamp + MaxDelay * Ends(state.status, account.desyncs)

StreamInv == StreamType /\ QueueIsRecent /\ AppliedIsCharged /\ StatusIsOld /\ ErrorIsBounded

-------------------------------------------------------------------------------
(* Sequences that grow.                                                      *)

LEMMA BoundsType ==
  /\ MaxTime \in Nat /\ MaxMessages \in Nat /\ MaxQueue \in Nat
  /\ MaxDelay \in Nat /\ Skew \in Nat /\ Stall \in Nat /\ Skew < MaxDelay
  /\ Mids \subseteq Nat
BY ViewsAssumption, DelayAssumption DEF Mids

\* What charging up to a tick adds.
Extended(b, x, t) == b \o [i \in 1..(t - Len(b)) |-> x]

LEMMA UpToIs ==
  ASSUME NEW S, NEW b \in Seq(S), NEW x \in S, NEW t \in Nat
  PROVE  /\ Extended(b, x, t) \in Seq(S)
         /\ Len(Extended(b, x, t)) = MaxOf(Len(b), t)
         /\ \A i \in 1..Len(b) : Extended(b, x, t)[i] = b[i]
         /\ \A i \in 1..Len(Extended(b, x, t)) : i > Len(b) => Extended(b, x, t)[i] = x
<1> DEFINE more == [i \in 1..(t - Len(b)) |-> x]
           n == IF t > Len(b) THEN t - Len(b) ELSE 0
<1>1. n \in Nat /\ Len(b) \in Nat /\ 1..(t - Len(b)) = 1..n
  OBVIOUS
<1>2. more \in Seq(S) /\ Len(more) = n
  <2>1. more \in [1..n -> S]
    BY <1>1
  <2> HIDE DEF more
  <2> QED BY <2>1, <1>1
<1>3. \A i \in 1..n : more[i] = x
  BY <1>1
<1> HIDE DEF more
<1>4. b \o more \in Seq(S) /\ Len(b \o more) = Len(b) + n
  BY <1>2
<1>5. \A i \in 1..Len(b) : (b \o more)[i] = b[i]
  BY <1>1, <1>2
<1>6. \A i \in 1..(Len(b) + n) : i > Len(b) => (b \o more)[i] = x
  <2> SUFFICES ASSUME NEW i \in 1..(Len(b) + n), i > Len(b) PROVE (b \o more)[i] = x
    OBVIOUS
  <2>1. i - Len(b) \in 1..n /\ (b \o more)[i] = more[i - Len(b)]
    BY <1>1, <1>2
  <2> QED BY <2>1, <1>3
<1>7. Len(b) + n = MaxOf(Len(b), t)
  BY <1>1 DEF MaxOf
<1> HIDE DEF n
<1>8. /\ b \o more \in Seq(S) /\ Len(b \o more) = MaxOf(Len(b), t)
      /\ \A i \in 1..Len(b) : (b \o more)[i] = b[i]
      /\ \A i \in 1..Len(b \o more) : i > Len(b) => (b \o more)[i] = x
  BY <1>4, <1>5, <1>6, <1>7
<1> USE DEF more
<1> QED BY <1>8 DEF Extended

\* How many of the ticks it adds have a value.
CountOf(s, v) == Cardinality({i \in DOMAIN s : s[i] = v})

Grown(b, longer, x) ==
    /\ Len(longer) >= Len(b)
    /\ \A i \in 1..Len(b) : longer[i] = b[i]
    /\ \A i \in 1..Len(longer) : i > Len(b) => longer[i] = x

LEMMA CountGrows ==
  ASSUME NEW S, NEW b \in Seq(S), NEW longer \in Seq(S),
         NEW x, NEW v, Grown(b, longer, x)
  PROVE  /\ CountOf(b, v) \in Nat
         /\ CountOf(longer, v) = CountOf(b, v) + (IF x = v THEN Len(longer) - Len(b) ELSE 0)
<1> DEFINE old == {i \in DOMAIN b : b[i] = v}
           new == {i \in DOMAIN longer : longer[i] = v}
           added == (Len(b) + 1)..Len(longer)
<1>1. /\ Len(b) \in Nat /\ Len(longer) \in Nat /\ Len(b) <= Len(longer)
      /\ DOMAIN b = 1..Len(b) /\ DOMAIN longer = 1..Len(longer)
  BY DEF Grown
<1>2. IsFiniteSet(1..Len(b)) /\ old \subseteq 1..Len(b)
  BY <1>1, FS_Interval
<1>3. IsFiniteSet(old) /\ Cardinality(old) \in Nat
  <2> HIDE DEF old
  <2> QED BY <1>2, FS_Subset, FS_CardinalityType
<1>4. CASE x = v
  <2>1. new = old \union added /\ old \intersect added = {}
    BY <1>1, <1>4 DEF Grown
  <2>2. IsFiniteSet(added) /\ Cardinality(added) = Len(longer) - Len(b)
    <3>1. CASE Len(b) + 1 <= Len(longer)
      BY <1>1, <3>1, FS_Interval
    <3>2. CASE Len(longer) = Len(b)
      <4>1. added = {}
        BY <1>1, <3>2
      <4>2. Cardinality(added) = 0 /\ IsFiniteSet(added)
        BY <4>1, FS_EmptySet
      <4> HIDE DEF added
      <4> QED BY <4>2, <1>1, <3>2
    <3>3. Len(b) + 1 <= Len(longer) \/ Len(longer) = Len(b)
      <4> DEFINE m == Len(b)
                 n == Len(longer)
      <4>1. m \in Nat /\ n \in Nat /\ m <= n
        BY <1>1
      <4> HIDE DEF m, n
      <4>2. m + 1 <= n \/ n = m
        BY <4>1
      <4> QED BY <4>2 DEF m, n
    <3> HIDE DEF added
    <3> QED BY <3>1, <3>2, <3>3
  <2> HIDE DEF old, new, added
  <2>3. Cardinality(new) = Cardinality(old) + Cardinality(added) - Cardinality({})
    BY <2>1, <2>2, <1>3, FS_Union
  <2> USE DEF old, new
  <2> QED BY <2>2, <2>3, <1>1, <1>3, <1>4, FS_EmptySet DEF CountOf
<1>5. CASE x # v
  <2>1. \A i \in 1..Len(longer) : longer[i] = v => i \in 1..Len(b)
    BY <1>1, <1>5 DEF Grown
  <2>2. 1..Len(b) \subseteq 1..Len(longer)
    BY <1>1
  <2>3. \A i : i \in new <=> i \in old
    BY <1>1, <2>1, <2>2 DEF Grown
  <2> HIDE DEF new, old
  <2>4. new = old
    BY <2>3
  <2>5. Cardinality(old) \in Nat /\ Cardinality(new) = Cardinality(old) + 0
    BY <2>4, <1>3
  <2> USE DEF new, old
  <2> QED BY <2>5, <1>5 DEF CountOf
<1> QED BY <1>4, <1>5

-------------------------------------------------------------------------------
(* The account of the stream.                                                *)

LEMMA StreamInit == Init => StreamInv
<1> SUFFICES ASSUME Init PROVE StreamInv
  OBVIOUS
<1> USE DEF Init, NewBook, NewAccount, Never, NoPrice
<1>1. StreamType
  BY BoundsType DEF StreamType, States, Accounts, Statuses
<1>2. QueueIsRecent /\ AppliedIsCharged /\ StatusIsOld
  BY BoundsType DEF QueueIsRecent, AppliedIsCharged, StatusIsOld
<1>3. ErrorIsBounded
  <2>1. DesyncedTicks(belief) = 0
    <3>1. {t \in DOMAIN belief : belief[t] = "desynced"} = {}
      OBVIOUS
    <3> QED BY <3>1, FS_EmptySet DEF DesyncedTicks
  <2>2. MaxDelay * 0 = 0
    BY BoundsType
  <2> QED BY <2>1, <2>2 DEF ErrorIsBounded, Ends
<1> QED BY <1>1, <1>2, <1>3 DEF StreamInv

\* The parts that are not about the clock and the queue.
Applied == <<state, account, samples, prints, belief>>

LEMMA AppliedUnchanged ==
  ASSUME StreamInv, UNCHANGED Applied
  PROVE  StatusIsOld' /\ ErrorIsBounded'
BY DEF StreamInv, Applied, StatusIsOld, ErrorIsBounded

LEMMA ElementsType ==
  ASSUME StreamType
  PROVE  /\ \A i \in DOMAIN queue : queue[i] \in Messages /\ queue[i].at \in Nat
         /\ \A n \in DOMAIN samples : samples[n].at \in Nat /\ samples[n].mid \in Nat \ {0}
         /\ \A n \in DOMAIN prints : prints[n] \in Nat
         /\ \A t \in DOMAIN belief : belief[t] \in Statuses
<1>1. \A i \in DOMAIN queue : queue[i] \in Messages
  BY DEF StreamType
<1>2. \A m \in Messages : m.at \in Nat
  BY DEF Messages
<1>3. \A n \in DOMAIN samples : samples[n] \in Samples
  BY DEF StreamType
<1>4. \A m \in Samples : m.at \in Nat /\ m.mid \in Nat \ {0}
  BY DEF Samples, NoPrice
<1> QED BY <1>1, <1>2, <1>3, <1>4 DEF StreamType

LEMMA TickKeepsStream == ASSUME StreamInv, Tick PROVE StreamInv'
<1> PICK d \in {1} \union (IF stalled THEN {} ELSE {Stall}) :
        /\ now + d <= MaxTime
        /\ \A i \in DOMAIN queue : now + d <= queue[i].at + MaxDelay
        /\ now' = now + d
  BY DEF Tick
<1>1. d \in Nat
  BY BoundsType
<1>2. UNCHANGED <<received, queue>> /\ UNCHANGED Applied
  BY DEF Tick, history, Applied
<1>3. now \in Nat /\ now' \in 0..MaxTime /\ now <= now'
  BY <1>1, BoundsType DEF StreamInv, StreamType
<1>4. StreamType'
  BY <1>2, <1>3 DEF StreamInv, StreamType, Applied
<1>5. QueueIsRecent'
  <2>1. \A i \in DOMAIN queue : queue[i].at <= now' /\ now' <= queue[i].at + MaxDelay
    <3> TAKE i \in DOMAIN queue
    <3>1. queue[i].at \in Nat /\ queue[i].at <= now
      BY ElementsType DEF StreamInv, QueueIsRecent
    <3> QED BY <3>1, <1>3
  <2> QED BY <2>1, <1>2 DEF StreamInv, QueueIsRecent, Applied
<1>6. AppliedIsCharged'
  BY <1>2, <1>3 DEF StreamInv, StreamType, AppliedIsCharged, Applied
<1> QED BY <1>2, <1>4, <1>5, <1>6, AppliedUnchanged DEF StreamInv

LEMMA ReceiveKeepsStream ==
  ASSUME StreamInv, NEW content \in Contents, NEW at \in 0..MaxTime, Receive(content, at)
  PROVE  StreamInv'
<1> DEFINE message == [kind |-> content.kind, mid |-> content.mid, at |-> at]
<1>1. /\ queue' = Append(queue, message) /\ received' = received + 1 /\ received < MaxMessages
      /\ Len(queue) < MaxQueue /\ now' = now
      /\ UNCHANGED Applied
  BY DEF Receive, history, Applied
<1>2. now \in Nat /\ at \in Nat /\ at <= now /\ now <= at + Skew
  BY BoundsType DEF Receive, MaxOf, StreamInv, StreamType
<1>3. message \in Messages /\ message.at = at
  BY <1>2, ViewsAssumption DEF Messages, Mids
<1> HIDE DEF message
<1>4. /\ queue \in Seq(Messages) /\ queue' \in Seq(Messages)
      /\ Len(queue') = Len(queue) + 1 /\ DOMAIN queue' = 1..(Len(queue) + 1)
      /\ queue'[Len(queue) + 1] = message
      /\ \A i \in DOMAIN queue : queue'[i] = queue[i] /\ i \in DOMAIN queue'
      /\ \A i \in DOMAIN queue' : i \in DOMAIN queue \/ i = Len(queue) + 1
  BY <1>1, <1>3 DEF StreamInv, StreamType
<1>5. StreamType'
  BY <1>1, <1>4, BoundsType DEF StreamInv, StreamType, Applied
<1>6. QueueIsRecent'
  <2>1. \A i \in DOMAIN queue' : queue'[i].at \in Nat /\ queue'[i].at <= now /\ now <= queue'[i].at + MaxDelay
    <3>1. \A i \in DOMAIN queue : queue[i].at \in Nat /\ queue[i].at <= now /\ now <= queue[i].at + MaxDelay
      BY ElementsType DEF StreamInv, QueueIsRecent
    <3> QED BY <3>1, <1>2, <1>3, <1>4, BoundsType
  <2>2. \A i, j \in DOMAIN queue' : i <= j => queue'[i].at <= queue'[j].at + Skew
    <3> SUFFICES ASSUME NEW i \in DOMAIN queue', NEW j \in DOMAIN queue', i <= j
                 PROVE  queue'[i].at <= queue'[j].at + Skew
      OBVIOUS
    <3>1. CASE j = Len(queue) + 1
      BY <3>1, <2>1, <1>2, <1>3, <1>4, BoundsType
    <3>2. CASE j \in DOMAIN queue
      <4>1. i \in DOMAIN queue
        BY <3>2, <1>4
      <4> QED BY <3>2, <4>1, <1>4 DEF StreamInv, QueueIsRecent
    <3> QED BY <3>1, <3>2, <1>4
  <2>3. \A n \in DOMAIN samples : samples[n].at \in Nat /\ samples[n].at <= now
    <3>1. Len(belief) \in Nat /\ Len(belief) <= now
      BY DEF StreamInv, StreamType, AppliedIsCharged
    <3> QED BY <3>1, <1>2, ElementsType DEF StreamInv, AppliedIsCharged
  <2>4. \A j \in DOMAIN queue', n \in DOMAIN samples : samples[n].at <= queue'[j].at + Skew
    <3> SUFFICES ASSUME NEW j \in DOMAIN queue', NEW n \in DOMAIN samples
                 PROVE  samples[n].at <= queue'[j].at + Skew
      OBVIOUS
    <3>1. CASE j = Len(queue) + 1
      BY <3>1, <2>3, <1>2, <1>3, <1>4, BoundsType
    <3>2. CASE j \in DOMAIN queue
      BY <3>2, <1>4 DEF StreamInv, QueueIsRecent
    <3> QED BY <3>1, <3>2, <1>4
  <2> QED BY <2>1, <2>2, <2>4, <1>1 DEF QueueIsRecent, Applied
<1>7. AppliedIsCharged'
  BY <1>1 DEF StreamInv, AppliedIsCharged, Applied
<1> QED BY <1>1, <1>5, <1>6, <1>7, AppliedUnchanged DEF StreamInv

\* What charging up to a tick does to the history of the status.
LEMMA BeliefGrows ==
  ASSUME StreamType, NEW t \in Nat, NEW b, b = BeliefUpTo(t)
  PROVE  /\ b \in Seq(Statuses) /\ Len(b) \in Nat /\ Len(belief) \in Nat
         /\ Len(b) = MaxOf(Len(belief), t)
         /\ DOMAIN b = 1..Len(b) /\ DOMAIN belief = 1..Len(belief)
         /\ \A i \in DOMAIN belief : b[i] = belief[i]
         /\ \A i \in DOMAIN b : i > Len(belief) => b[i] = state.status
         /\ DesyncedTicks(belief) \in Nat
         /\ DesyncedTicks(b) = DesyncedTicks(belief)
               + (IF state.status = "desynced" THEN Len(b) - Len(belief) ELSE 0)
<1>1. belief \in Seq(Statuses) /\ state.status \in Statuses /\ Len(belief) \in Nat
  BY DEF StreamType, States
<1>2. /\ b \in Seq(Statuses) /\ Len(b) = MaxOf(Len(belief), t)
      /\ \A i \in 1..Len(belief) : b[i] = belief[i]
      /\ \A i \in 1..Len(b) : i > Len(belief) => b[i] = state.status
  <2>1. b = Extended(belief, state.status, t)
    BY DEF BeliefUpTo, Extended
  <2>2. /\ Extended(belief, state.status, t) \in Seq(Statuses)
        /\ Len(Extended(belief, state.status, t)) = MaxOf(Len(belief), t)
        /\ \A i \in 1..Len(belief) : Extended(belief, state.status, t)[i] = belief[i]
        /\ \A i \in 1..Len(Extended(belief, state.status, t)) :
              i > Len(belief) => Extended(belief, state.status, t)[i] = state.status
    BY <1>1, UpToIs
  <2> QED BY <2>1, <2>2
<1>3. Len(b) >= Len(belief) /\ Len(b) \in Nat
  BY <1>1, <1>2 DEF MaxOf
<1>4. /\ DesyncedTicks(belief) \in Nat
      /\ DesyncedTicks(b) = DesyncedTicks(belief)
            + (IF state.status = "desynced" THEN Len(b) - Len(belief) ELSE 0)
  <2>1. /\ CountOf(belief, "desynced") \in Nat
        /\ CountOf(b, "desynced") = CountOf(belief, "desynced")
              + (IF state.status = "desynced" THEN Len(b) - Len(belief) ELSE 0)
    <3>1. Grown(belief, b, state.status)
      BY <1>2, <1>3 DEF Grown
    <3> QED BY <3>1, <1>1, <1>2, CountGrows
  <2> QED BY <2>1 DEF DesyncedTicks, CountOf
<1>5. DOMAIN b = 1..Len(b) /\ DOMAIN belief = 1..Len(belief)
  BY <1>1, <1>2
<1>6. /\ b \in Seq(Statuses) /\ Len(b) \in Nat /\ Len(belief) \in Nat
      /\ Len(b) = MaxOf(Len(belief), t)
      /\ DOMAIN b = 1..Len(b) /\ DOMAIN belief = 1..Len(belief)
      /\ \A i \in DOMAIN belief : b[i] = belief[i]
      /\ \A i \in DOMAIN b : i > Len(belief) => b[i] = state.status
  BY <1>1, <1>2, <1>3, <1>5
<1> QED BY <1>4, <1>6

LEMMA SnapshotKeepsStream == ASSUME StreamInv, Snapshot PROVE StreamInv'
<1>1. belief' = BeliefUpTo(now) /\ UNCHANGED <<now, received, queue, state, account, samples, prints>>
  BY DEF Snapshot
<1>2. now \in Nat
  BY BoundsType DEF StreamInv, StreamType
<1>3. /\ belief' \in Seq(Statuses) /\ Len(belief') = now /\ Len(belief) \in Nat /\ Len(belief) <= now
      /\ DOMAIN belief' = 1..Len(belief') /\ DOMAIN belief = 1..Len(belief)
      /\ \A i \in DOMAIN belief : belief'[i] = belief[i]
      /\ \A i \in DOMAIN belief' : i > Len(belief) => belief'[i] = state.status
      /\ DesyncedTicks(belief) \in Nat
      /\ DesyncedTicks(belief') = DesyncedTicks(belief)
            + (IF state.status = "desynced" THEN Len(belief') - Len(belief) ELSE 0)
  <2> PICK b : b = belief'
    OBVIOUS
  <2>1. /\ b \in Seq(Statuses) /\ Len(b) \in Nat /\ Len(belief) \in Nat
        /\ Len(b) = MaxOf(Len(belief), now)
        /\ DOMAIN b = 1..Len(b) /\ DOMAIN belief = 1..Len(belief)
        /\ \A i \in DOMAIN belief : b[i] = belief[i]
        /\ \A i \in DOMAIN b : i > Len(belief) => b[i] = state.status
        /\ DesyncedTicks(belief) \in Nat
        /\ DesyncedTicks(b) = DesyncedTicks(belief)
              + (IF state.status = "desynced" THEN Len(b) - Len(belief) ELSE 0)
    BY <1>1, <1>2, BeliefGrows DEF StreamInv
  <2>2. Len(belief) <= now
    BY DEF StreamInv, AppliedIsCharged
  <2>3. Len(b) = now
    <3>1. Len(b) = MaxOf(Len(belief), now) /\ Len(belief) \in Nat
      BY <2>1
    <3> QED BY <3>1, <2>2, <1>2 DEF MaxOf
  <2> QED BY <2>1, <2>2, <2>3
<1>4. StreamType'
  BY <1>1, <1>3 DEF StreamInv, StreamType
<1>5. QueueIsRecent'
  BY <1>1 DEF StreamInv, QueueIsRecent
<1>6. AppliedIsCharged'
  <2>1. /\ account.since \in Int /\ account.statusSince \in Nat
        /\ \A n \in DOMAIN samples : samples[n].at \in Nat
        /\ \A n \in DOMAIN prints : prints[n] \in Nat
    BY ElementsType DEF StreamInv, StreamType, Accounts, Never
  <2> QED BY <1>1, <1>2, <1>3, <2>1 DEF StreamInv, AppliedIsCharged
<1>7. StatusIsOld'
  <2>1. \A t \in DOMAIN belief' : t > account.statusSince + MaxDelay => belief'[t] = state.status
    BY <1>3 DEF StreamInv, StatusIsOld
  <2> QED BY <1>1, <2>1 DEF StreamInv, StatusIsOld
<1>8. ErrorIsBounded'
  <2> DEFINE e == MaxDelay * Ends(state.status, account.desyncs)
  <2>1. e \in Int
    BY BoundsType DEF StreamInv, StreamType, Accounts, Ends
  <2>2. /\ account.total \in Nat /\ account.since \in Int
        /\ (account.since # Never <=> state.status = "desynced")
    BY DEF StreamInv, StreamType, Accounts, Never
  <2>3. LET byStamp == account.total + (IF account.since = Never THEN 0 ELSE Len(belief) - account.since)
        IN byStamp <= DesyncedTicks(belief) + e /\ DesyncedTicks(belief) <= byStamp + e
    BY DEF StreamInv, ErrorIsBounded
  <2> HIDE DEF e
  <2>4. LET byStamp == account.total + (IF account.since = Never THEN 0 ELSE Len(belief') - account.since)
        IN byStamp <= DesyncedTicks(belief') + e /\ DesyncedTicks(belief') <= byStamp + e
    BY <2>1, <2>2, <2>3, <1>2, <1>3, SMTT(90)
  <2> QED BY <2>4, <1>1 DEF ErrorIsBounded, e
<1> QED BY <1>4, <1>5, <1>6, <1>7, <1>8 DEF StreamInv

-------------------------------------------------------------------------------
(* A message is applied.                                                     *)

LEMMA AfterType ==
  ASSUME StreamType, NEW m \in Messages
  PROVE  /\ BookAfter(m) \in States
         /\ BookAfter(m).status = "live" => BookAfter(m).mid \in Mids
         /\ BookAfter(m).status = "uninitialized" => state.status = "uninitialized"
         /\ SameStatus(state, BookAfter(m)) => BookAfter(m).status = state.status
<1>1. /\ m.kind \in Kinds /\ m.mid \in Mids /\ m.mid \in Nat /\ m.at \in Nat
      /\ state \in States /\ (state.status = "live" => state.mid \in Mids)
  BY BoundsType DEF Messages, StreamType
<1>2. /\ state = [status |-> state.status, since |-> state.since, reason |-> state.reason, mid |-> state.mid]
      /\ state.status \in Statuses /\ state.since \in Nat /\ state.mid \in Nat
      /\ state.reason \in {"none", "gap", "lost"}
  BY <1>1 DEF States
<1>3. CASE m.kind = "snapshot"
  <2>1. BookAfter(m) = [status |-> "live", since |-> m.at, reason |-> "none", mid |-> m.mid]
    BY <1>3 DEF BookAfter
  <2> QED BY <2>1, <1>1 DEF States, Statuses, SameStatus
<1>4. CASE m.kind = "delta" /\ state.status = "live"
  <2>1. BookAfter(m) = [status |-> state.status, since |-> state.since, reason |-> state.reason, mid |-> m.mid]
    BY <1>2, <1>4 DEF BookAfter
  <2> QED BY <2>1, <1>1, <1>2, <1>4 DEF States, Statuses, SameStatus
<1>5. CASE m.kind = "gap"
  <2>1. BookAfter(m) = [status |-> "desynced", since |-> m.at, reason |-> "gap", mid |-> state.mid]
    BY <1>2, <1>5 DEF BookAfter
  <2> QED BY <2>1, <1>1, <1>2 DEF States, Statuses, SameStatus
<1>6. CASE m.kind = "ended"
  <2>1. BookAfter(m) = [status |-> "desynced", since |-> m.at, reason |-> "lost", mid |-> state.mid]
    BY <1>2, <1>6 DEF BookAfter
  <2> QED BY <2>1, <1>1, <1>2 DEF States, Statuses, SameStatus
<1>7. CASE m.kind \notin {"snapshot", "gap", "ended"} /\ ~(m.kind = "delta" /\ state.status = "live")
  <2>1. BookAfter(m) = state
    BY <1>7 DEF BookAfter
  <2> QED BY <2>1, <1>1 DEF SameStatus
<1> QED BY <1>3, <1>4, <1>5, <1>6, <1>7

\* What applying the first message of the queue does to the account.
Transition(m) ==
    /\ state' = BookAfter(m)
    /\ account' = IF SameStatus(state, state') THEN account ELSE NoteTransition(state, state', m.at)
    /\ belief' = BeliefUpTo(m.at)
    /\ samples' = IF state'.status = "live" /\ state'.mid # NoPrice
                  THEN Append(samples, [at |-> m.at, mid |-> state'.mid])
                  ELSE samples
    /\ prints' = IF m.kind = "trade" THEN Append(prints, m.at) ELSE prints

LEMMA ApplyIs ==
  ASSUME StreamInv, Apply
  PROVE  /\ queue # <<>> /\ queue' = Tail(queue) /\ UNCHANGED <<now, received>>
         /\ Head(queue) \in Messages /\ Head(queue).at \in Nat
         /\ Head(queue).at <= now /\ now <= Head(queue).at + MaxDelay
         /\ Transition(Head(queue))
<1>1. queue # <<>> /\ queue' = Tail(queue) /\ UNCHANGED <<now, received>> /\ Transition(Head(queue))
  BY DEF Apply, Transition
<1>2. queue \in Seq(Messages)
  BY DEF StreamInv, StreamType
<1>3. 1 \in DOMAIN queue /\ Head(queue) = queue[1]
  BY <1>1, <1>2
<1>4. queue[1] \in Messages /\ queue[1].at \in Nat /\ queue[1].at <= now /\ now <= queue[1].at + MaxDelay
  BY <1>3, ElementsType DEF StreamInv, QueueIsRecent
<1> QED BY <1>1, <1>3, <1>4

\* The ticks charged before and after, and what the two accounts make of them.
LEMMA TransitionBelief ==
  ASSUME StreamInv, NEW m \in Messages, m.at \in Nat, m.at <= now, now <= m.at + MaxDelay,
         Transition(m)
  PROVE  /\ belief' \in Seq(Statuses) /\ Len(belief') \in Nat /\ Len(belief) \in Nat
         /\ Len(belief) <= Len(belief') /\ m.at <= Len(belief') /\ Len(belief') <= now
         /\ Len(belief') <= m.at + MaxDelay
         /\ DOMAIN belief' = 1..Len(belief') /\ DOMAIN belief = 1..Len(belief)
         /\ \A i \in DOMAIN belief : belief'[i] = belief[i]
         /\ \A i \in DOMAIN belief' : i > Len(belief) => belief'[i] = state.status
         /\ DesyncedTicks(belief) \in Nat
         /\ DesyncedTicks(belief') = DesyncedTicks(belief)
               + (IF state.status = "desynced" THEN Len(belief') - Len(belief) ELSE 0)
<1> PICK b : b = belief'
  OBVIOUS
<1>1. b = BeliefUpTo(m.at)
  BY DEF Transition
<1>2. /\ b \in Seq(Statuses) /\ Len(b) \in Nat /\ Len(belief) \in Nat
      /\ Len(b) = MaxOf(Len(belief), m.at)
      /\ DOMAIN b = 1..Len(b) /\ DOMAIN belief = 1..Len(belief)
      /\ \A i \in DOMAIN belief : b[i] = belief[i]
      /\ \A i \in DOMAIN b : i > Len(belief) => b[i] = state.status
      /\ DesyncedTicks(belief) \in Nat
      /\ DesyncedTicks(b) = DesyncedTicks(belief)
            + (IF state.status = "desynced" THEN Len(b) - Len(belief) ELSE 0)
  BY <1>1, BeliefGrows DEF StreamInv
<1>3. Len(belief) <= now /\ now \in Nat
  BY BoundsType DEF StreamInv, AppliedIsCharged, StreamType
<1>4. Len(belief) <= Len(b) /\ m.at <= Len(b) /\ Len(b) <= now
  <2>1. Len(b) = MaxOf(Len(belief), m.at) /\ Len(belief) \in Nat
    BY <1>2
  <2> QED BY <2>1, <1>3 DEF MaxOf
<1>5. Len(b) <= m.at + MaxDelay
  <2>1. Len(b) \in Nat
    BY <1>2
  <2> QED BY <2>1, <1>3, <1>4, BoundsType
<1> QED BY <1>2, <1>4, <1>5

LEMMA TransitionType ==
  ASSUME StreamInv, NEW m \in Messages, m.at \in Nat, m.at <= now, now <= m.at + MaxDelay,
         Transition(m)
  PROVE  /\ state' \in States /\ account' \in Accounts
         /\ account'.since # Never <=> state'.status = "desynced"
         /\ state'.status = "live" => state'.mid \in Mids
         /\ samples' \in Seq(Samples) /\ prints' \in Seq(Nat)
         /\ account'.statusSince \in {account.statusSince, m.at}
         /\ account'.since \in {Never, account.since, m.at}
<1>1. /\ state' \in States
      /\ (state'.status = "live" => state'.mid \in Mids)
      /\ SameStatus(state, state') => state'.status = state.status
  BY AfterType DEF StreamInv, Transition
<1>2. /\ account \in Accounts /\ (account.since # Never <=> state.status = "desynced")
      /\ samples \in Seq(Samples) /\ prints \in Seq(Nat)
  BY DEF StreamInv, StreamType
<1>3. /\ account' \in Accounts
      /\ account'.since # Never <=> state'.status = "desynced"
      /\ account'.statusSince \in {account.statusSince, m.at}
      /\ account'.since \in {Never, account.since, m.at}
  <2>1. CASE SameStatus(state, state')
    <3>1. account' = account
      BY <2>1 DEF Transition
    <3> QED BY <3>1, <1>1, <1>2, <2>1
  <2>2. CASE ~SameStatus(state, state')
    <3>1. account' = NoteTransition(state, state', m.at)
      BY <2>2 DEF Transition
    <3>2. /\ account.total \in Nat /\ account.desyncs \in Nat /\ account.since \in {Never} \union Nat
          /\ Since(m.at, account.since) \in Nat /\ m.at # Never
      BY <1>2 DEF Accounts, Since, MaxOf, Never
    <3> QED BY <3>1, <3>2, <1>1, <1>2 DEF NoteTransition, Accounts, Never
  <2> QED BY <2>1, <2>2
<1>5. samples' \in Seq(Samples)
  <2>1. CASE state'.status = "live" /\ state'.mid # NoPrice
    <3>1. [at |-> m.at, mid |-> state'.mid] \in Samples
      BY <2>1, <1>1, BoundsType DEF Samples
    <3> QED BY <3>1, <2>1, <1>2 DEF Transition
  <2>2. CASE ~(state'.status = "live" /\ state'.mid # NoPrice)
    BY <2>2, <1>2 DEF Transition
  <2> QED BY <2>1, <2>2
<1>6. prints' \in Seq(Nat)
  BY <1>2 DEF Transition
<1> QED BY <1>1, <1>3, <1>5, <1>6

\* A change of status, and nothing else, may take the two accounts apart.
LEMMA TransitionError ==
  ASSUME StreamInv, NEW m \in Messages, m.at \in Nat, m.at <= now, now <= m.at + MaxDelay,
         Transition(m)
  PROVE  ErrorIsBounded'
<1> DEFINE c == Len(belief)
           c2 == Len(belief')
           n == DesyncedTicks(belief)
           n2 == DesyncedTicks(belief')
           was == state.status = "desynced"
           is == state'.status = "desynced"
           at == m.at
           since == account.since
           total == account.total
           e == Ends(state.status, account.desyncs)
           e2 == Ends(state'.status, account'.desyncs)
           bound == MaxDelay * e
           bound2 == MaxDelay * e2
           byStamp == total + (IF since = Never THEN 0 ELSE c - since)
           byStamp2 == account'.total + (IF account'.since = Never THEN 0 ELSE c2 - account'.since)
<1>1. /\ c \in Nat /\ c2 \in Nat /\ n \in Nat /\ c <= c2 /\ at <= c2 /\ c2 <= at + MaxDelay
      /\ n2 = n + (IF was THEN c2 - c ELSE 0)
  BY TransitionBelief
<1>2. /\ total \in Nat /\ since \in {Never} \union Nat /\ account.desyncs \in Nat
      /\ (since # Never <=> was) /\ since <= c
  BY DEF StreamInv, StreamType, Accounts, AppliedIsCharged
<1>3. /\ account' \in Accounts /\ (account'.since # Never <=> is)
      /\ SameStatus(state, state') => state'.status = state.status
  BY TransitionType, AfterType DEF StreamInv, Transition
<1>4. byStamp <= n + bound /\ n <= byStamp + bound
  BY DEF StreamInv, ErrorIsBounded
<1>5. e \in Int /\ bound \in Int /\ MaxDelay \in Nat /\ MaxDelay * (e + 1) = bound + MaxDelay
  <2>1. e \in Int /\ MaxDelay \in Nat
    BY <1>2, BoundsType DEF Ends
  <2> HIDE DEF e
  <2> QED BY <2>1
<1>6. byStamp2 <= n2 + bound2 /\ n2 <= byStamp2 + bound2
  <2>1. CASE SameStatus(state, state')
    <3>1. account' = account /\ (is <=> was) /\ e2 = e
      BY <2>1, <1>3 DEF Transition, Ends
    <3>2. bound2 = bound
      BY <3>1
    <3>3. byStamp2 = total + (IF since = Never THEN 0 ELSE c2 - since)
      BY <3>1
    <3> HIDE DEF c, c2, n, n2, was, is, at, since, total, e, e2, bound, bound2, byStamp2
    <3> QED BY <3>2, <3>3, <1>1, <1>2, <1>4, <1>5 DEF Never
  <2>2. CASE ~SameStatus(state, state')
    <3>1. account' = NoteTransition(state, state', m.at)
      BY <2>2 DEF Transition
    <3>2. /\ account'.total = IF was /\ ~is THEN total + Since(at, since) ELSE total
          /\ account'.since = IF is THEN (IF was THEN since ELSE at) ELSE Never
          /\ account'.desyncs = account.desyncs + IF is /\ ~was THEN 1 ELSE 0
      BY <3>1 DEF NoteTransition
    <3>3. e2 = e + (IF is <=> was THEN 0 ELSE 1)
      BY <3>2, <1>2 DEF Ends
    <3>4. bound2 = bound + (IF is <=> was THEN 0 ELSE MaxDelay)
      <4> HIDE DEF e, e2
      <4>1. CASE is <=> was
        BY <4>1, <3>3, <1>5
      <4>2. CASE ~(is <=> was)
        BY <4>2, <3>3, <1>5
      <4> QED BY <4>1, <4>2
    <3>5. byStamp2 = (IF was /\ ~is THEN total + Since(at, since) ELSE total)
                     + (IF is THEN c2 - (IF was THEN since ELSE at) ELSE 0)
      BY <3>2, <1>2, <1>3 DEF Never
    <3> HIDE DEF c, c2, n, n2, was, is, at, since, total, e, e2, bound, bound2, byStamp2
    <3>6. at \in Nat
      BY DEF at
    <3>7. CASE was /\ is
      BY <3>7, <3>4, <3>5, <1>1, <1>2, <1>4, <1>5 DEF Never
    <3>8. CASE ~was /\ ~is
      BY <3>8, <3>4, <3>5, <1>1, <1>2, <1>4, <1>5 DEF Never
    <3>9. CASE ~was /\ is
      BY <3>9, <3>4, <3>5, <3>6, <1>1, <1>2, <1>4, <1>5 DEF Never
    <3>10. CASE was /\ ~is
      <4>1. since \in Nat /\ Since(at, since) \in Nat
            /\ Since(at, since) <= c2 - since /\ c2 - since <= Since(at, since) + MaxDelay
        BY <3>10, <3>6, <1>1, <1>2, BoundsType DEF Since, MaxOf, Never
      <4> QED BY <3>10, <4>1, <3>4, <3>5, <1>1, <1>2, <1>4, <1>5 DEF Never
    <3> QED BY <3>7, <3>8, <3>9, <3>10
  <2> QED BY <2>1, <2>2
<1> QED BY <1>6 DEF ErrorIsBounded

LEMMA ApplyKeepsStream == ASSUME StreamInv, Apply PROVE StreamInv'
<1> PICK m \in Messages : m = Head(queue)
  BY ApplyIs
<1>1. /\ queue # <<>> /\ queue' = Tail(queue) /\ UNCHANGED <<now, received>>
      /\ m.at \in Nat /\ m.at <= now /\ now <= m.at + MaxDelay
      /\ Transition(m)
  BY ApplyIs
<1>2. /\ belief' \in Seq(Statuses) /\ Len(belief') \in Nat /\ Len(belief) \in Nat
      /\ Len(belief) <= Len(belief') /\ m.at <= Len(belief') /\ Len(belief') <= now
      /\ Len(belief') <= m.at + MaxDelay
      /\ DOMAIN belief' = 1..Len(belief') /\ DOMAIN belief = 1..Len(belief)
      /\ \A i \in DOMAIN belief : belief'[i] = belief[i]
      /\ \A i \in DOMAIN belief' : i > Len(belief) => belief'[i] = state.status
  BY <1>1, TransitionBelief
<1>3. /\ state' \in States /\ account' \in Accounts
      /\ account'.since # Never <=> state'.status = "desynced"
      /\ state'.status = "live" => state'.mid \in Mids
      /\ samples' \in Seq(Samples) /\ prints' \in Seq(Nat)
      /\ account'.statusSince \in {account.statusSince, m.at}
      /\ account'.since \in {Never, account.since, m.at}
  BY <1>1, TransitionType
<1>4. /\ queue \in Seq(Messages) /\ queue' \in Seq(Messages) /\ Len(queue) \in Nat
      /\ Len(queue') = Len(queue) - 1 /\ DOMAIN queue = 1..Len(queue) /\ DOMAIN queue' = 1..(Len(queue) - 1)
      /\ \A i \in DOMAIN queue' : queue'[i] = queue[i + 1] /\ i + 1 \in DOMAIN queue /\ i \in Nat
      /\ m = queue[1] /\ 1 \in DOMAIN queue
  BY <1>1 DEF StreamInv, StreamType
<1>5. /\ account.statusSince \in Nat /\ account.since \in {Never} \union Nat
      /\ account.statusSince <= Len(belief) /\ account.since <= Len(belief)
  BY DEF StreamInv, StreamType, Accounts, AppliedIsCharged
<1>6. /\ samples \in Seq(Samples) /\ Len(samples) \in Nat /\ DOMAIN samples = 1..Len(samples)
      /\ \A i \in DOMAIN samples : samples[i].at \in Nat
  BY ElementsType DEF StreamInv, StreamType
<1>7. \A i \in DOMAIN samples' : \/ i \in DOMAIN samples /\ samples'[i] = samples[i]
                                 \/ samples'[i].at = m.at /\ state'.status = "live"
  <2>1. CASE state'.status = "live" /\ state'.mid # NoPrice
    <3>1. samples' = Append(samples, [at |-> m.at, mid |-> state'.mid])
      BY <2>1, <1>1 DEF Transition
    <3> QED BY <3>1, <2>1, <1>6
  <2>2. CASE ~(state'.status = "live" /\ state'.mid # NoPrice)
    BY <2>2, <1>1 DEF Transition
  <2> QED BY <2>1, <2>2
<1>8. StreamType'
  <2>1. /\ now' \in 0..MaxTime /\ received' \in 0..MaxMessages
        /\ Len(queue) <= MaxQueue /\ MaxQueue \in Nat
    BY <1>1, BoundsType DEF StreamInv, StreamType
  <2>2. Len(queue') <= MaxQueue
    BY <2>1, <1>4
  <2> QED BY <2>1, <2>2, <1>2, <1>3, <1>4 DEF StreamType
<1>9. QueueIsRecent'
  <2>1. \A i \in DOMAIN queue' : queue'[i].at <= now' /\ now' <= queue'[i].at + MaxDelay
    BY <1>1, <1>4 DEF StreamInv, QueueIsRecent
  <2>2. \A i, j \in DOMAIN queue' : i <= j => queue'[i].at <= queue'[j].at + Skew
    BY <1>4 DEF StreamInv, QueueIsRecent
  <2>3. \A j \in DOMAIN queue', i \in DOMAIN samples' : samples'[i].at <= queue'[j].at + Skew
    <3> SUFFICES ASSUME NEW j \in DOMAIN queue', NEW i \in DOMAIN samples'
                 PROVE  samples'[i].at <= queue'[j].at + Skew
      OBVIOUS
    <3>1. queue'[j] = queue[j + 1] /\ j + 1 \in DOMAIN queue /\ 1 <= j + 1
      BY <1>4
    <3>2. m.at <= queue[j + 1].at + Skew
      BY <3>1, <1>4 DEF StreamInv, QueueIsRecent
    <3>3. \A k \in DOMAIN samples : samples[k].at <= queue[j + 1].at + Skew
      BY <3>1 DEF StreamInv, QueueIsRecent
    <3> QED BY <3>1, <3>2, <3>3, <1>7
  <2> QED BY <2>1, <2>2, <2>3 DEF QueueIsRecent
<1>10. AppliedIsCharged'
  <2>1. account'.since <= Len(belief') /\ account'.statusSince <= Len(belief')
    BY <1>2, <1>3, <1>5 DEF Never
  <2>2. \A i \in DOMAIN samples' : samples'[i].at <= Len(belief')
    <3>1. \A i \in DOMAIN samples : samples[i].at \in Nat /\ samples[i].at <= Len(belief)
      BY <1>6 DEF StreamInv, AppliedIsCharged
    <3> QED BY <3>1, <1>1, <1>2, <1>7
  <2>3. \A i \in DOMAIN prints' : prints'[i] <= Len(belief')
    <3>1. \A i \in DOMAIN prints : prints[i] \in Nat /\ prints[i] <= Len(belief)
      BY ElementsType DEF StreamInv, AppliedIsCharged
    <3>2. \A i \in DOMAIN prints' : (i \in DOMAIN prints /\ prints'[i] = prints[i]) \/ prints'[i] = m.at
      BY <1>1 DEF Transition, StreamInv, StreamType
    <3> QED BY <3>1, <3>2, <1>1, <1>2
  <2> QED BY <2>1, <2>2, <2>3, <1>1, <1>2 DEF AppliedIsCharged
<1>11. StatusIsOld'
  <2>1. \A t \in DOMAIN belief' : t > account'.statusSince + MaxDelay => belief'[t] = state'.status
    <3>1. CASE SameStatus(state, state')
      <4>1. account' = account /\ state'.status = state.status
        BY <3>1, <1>1, AfterType DEF Transition, StreamInv
      <4> QED BY <4>1, <1>2 DEF StreamInv, StatusIsOld
    <3>2. CASE ~SameStatus(state, state')
      <4>1. account'.statusSince = m.at
        BY <3>2, <1>1 DEF Transition, NoteTransition
      <4> QED BY <4>1, <1>1, <1>2, BoundsType
    <3> QED BY <3>1, <3>2
  <2>2. state'.status # "live" => \A i \in DOMAIN samples' : samples'[i].at <= account'.statusSince + Skew
    <3> SUFFICES ASSUME state'.status # "live", NEW i \in DOMAIN samples'
                 PROVE  samples'[i].at <= account'.statusSince + Skew
      OBVIOUS
    <3>1. i \in DOMAIN samples /\ samples'[i] = samples[i]
      BY <1>7
    <3>2. CASE SameStatus(state, state')
      <4>1. account' = account /\ state'.status = state.status
        BY <3>2, <1>1, AfterType DEF Transition, StreamInv
      <4> QED BY <4>1, <3>1 DEF StreamInv, StatusIsOld
    <3>3. CASE ~SameStatus(state, state')
      <4>1. account'.statusSince = m.at
        BY <3>3, <1>1 DEF Transition, NoteTransition
      <4>2. samples[i].at <= queue[1].at + Skew
        BY <3>1, <1>4 DEF StreamInv, QueueIsRecent
      <4> QED BY <4>1, <4>2, <3>1, <1>4
    <3> QED BY <3>2, <3>3
  <2>3. state'.status = "uninitialized" => samples' = <<>>
    <3>1. state'.status = "uninitialized" => state.status = "uninitialized"
      BY <1>1, AfterType DEF Transition, StreamInv
    <3> QED BY <3>1, <1>1 DEF Transition, StreamInv, StatusIsOld
  <2> QED BY <2>1, <2>2, <2>3 DEF StatusIsOld
<1> QED BY <1>8, <1>9, <1>10, <1>11, <1>1, TransitionError DEF StreamInv

LEMMA StreamStep == StreamInv /\ [Next]_vars => StreamInv'
<1> SUFFICES ASSUME StreamInv, [Next]_vars PROVE StreamInv'
  OBVIOUS
<1>1. CASE UNCHANGED vars
  BY <1>1 DEF vars, StreamInv, StreamType, QueueIsRecent, AppliedIsCharged, StatusIsOld, ErrorIsBounded
<1> QED BY <1>1, TickKeepsStream, ReceiveKeepsStream, ApplyKeepsStream, SnapshotKeepsStream DEF Next

LEMMA ErrorBoundsAccounts == StreamInv => AccountsAgree
<1> SUFFICES ASSUME StreamInv, Len(belief) = now
             PROVE  LET charged == Cardinality({t \in DOMAIN belief : belief[t] = "desynced"})
                        ends == 2 * account.desyncs - (IF state.status = "desynced" THEN 1 ELSE 0)
                    IN /\ DesyncedTotal(now) <= charged + MaxDelay * ends
                       /\ charged <= DesyncedTotal(now) + MaxDelay * ends
  BY DEF AccountsAgree
<1>1. /\ account.since \in {Never} \union Nat /\ account.since <= now /\ now \in Nat
  BY BoundsType DEF StreamInv, StreamType, Accounts, AppliedIsCharged
<1>2. DesyncedTotal(now) = account.total + (IF account.since = Never THEN 0 ELSE Len(belief) - account.since)
  BY <1>1 DEF DesyncedTotal, Since, MaxOf, Never
<1> QED BY <1>2 DEF StreamInv, ErrorIsBounded, DesyncedTicks, Ends

\* The desynced time by the stamps of the transitions and the one by the windows
\* stay within MaxDelay of each other for each time trust was lost or regained,
\* however late messages are applied (VenueState::note_transition, desynced_total).
THEOREM AccountsNeverDisagree == Spec => []AccountsAgree
<1>1. Spec => []StreamInv
  BY StreamInit, StreamStep, PTL DEF Spec
<1> QED BY <1>1, ErrorBoundsAccounts, PTL

-------------------------------------------------------------------------------
(* Sums.                                                                     *)

\* What is to be shown of every number is shown of the least exception.
LEMMA LeastOf ==
  ASSUME NEW T \in SUBSET Nat, T # {}
  PROVE  \E m \in T : \A k \in T : m <= k
<1> DEFINE Less == OpToRel(<, Nat)
<1>1. \A u, v \in Nat : u < v => <<u, v>> \in Less
  BY DEF OpToRel
<1>2. IsWellFoundedOn(Less, Nat)
  BY NatLessThanWellFounded
<1> HIDE DEF Less
<1>3. PICK m \in T : \A k \in T : ~ (<<k, m>> \in Less)
  BY <1>2, WFMin
<1>4. ASSUME NEW k \in T PROVE m <= k
  <2>1. m \in Nat /\ k \in Nat /\ ~(k < m)
    BY <1>1, <1>3
  <2> QED BY <2>1
<1> QED BY <1>3, <1>4

\* g is the running sum of f.
Sums(g, f, n) ==
    /\ g \in [0..n -> Nat] /\ g[0] = 0
    /\ \A i \in 1..n : g[i] = g[i - 1] + f[i]

LEMMA SumsExist ==
  ASSUME NEW n \in Nat, NEW f \in [1..n -> Nat]
  PROVE  \E g : Sums(g, f, n)
<1> DEFINE T == {m \in 0..n : ~ \E g : Sums(g, f, m)}
<1> SUFFICES ASSUME T # {} PROVE FALSE
  <2>1. T = {} => n \notin T
    OBVIOUS
  <2> QED BY <2>1
<1> HIDE DEF T
<1>1. PICK m \in T : \A k \in T : m <= k
  <2>1. T \in SUBSET Nat
    BY DEF T
  <2> QED BY <2>1, LeastOf
<1>2. m \in 0..n /\ ~ \E g : Sums(g, f, m)
  BY DEF T
<1>3. CASE m = 0
  <2> DEFINE g == [i \in 0..0 |-> 0]
  <2>1. Sums(g, f, 0)
    BY DEF Sums
  <2> QED BY <1>2, <1>3, <2>1
<1>4. CASE m # 0
  <2>1. m - 1 \in 0..n /\ m - 1 \notin T
    BY <1>1, <1>2, <1>4
  <2>2. PICK h : Sums(h, f, m - 1)
    BY <2>1 DEF T
  <2> DEFINE g == [i \in 0..m |-> IF i = m THEN h[m - 1] + f[m] ELSE h[i]]
  <2>3. h \in [0..(m - 1) -> Nat] /\ h[m - 1] \in Nat /\ f[m] \in Nat
    BY <1>2, <1>4, <2>2 DEF Sums
  <2>4. g \in [0..m -> Nat]
    BY <1>2, <2>3
  <2>5. g[0] = 0 /\ g[m] = g[m - 1] + f[m]
    BY <1>2, <1>4, <2>2, <2>3 DEF Sums
  <2>6. \A i \in 1..(m - 1) : g[i] = h[i] /\ g[i - 1] = h[i - 1]
    BY <1>2
  <2> HIDE DEF g
  <2>7. \A i \in 1..m : g[i] = g[i - 1] + f[i]
    <3> TAKE i \in 1..m
    <3>1. i = m \/ i \in 1..(m - 1)
      BY <1>2
    <3>2. ASSUME i \in 1..(m - 1) PROVE h[i] = h[i - 1] + f[i]
      BY <3>2, <2>2 DEF Sums
    <3> QED BY <3>1, <3>2, <2>5, <2>6
  <2>8. Sums(g, f, m)
    BY <2>4, <2>5, <2>7 DEF Sums
  <2> QED BY <1>2, <2>8
<1> QED BY <1>3, <1>4

\* There is one running sum.
LEMMA SumsUnique ==
  ASSUME NEW n \in Nat, NEW f, NEW f2, NEW g, NEW g2, Sums(g, f, n), Sums(g2, f2, n),
         \A i \in 1..n : f[i] = f2[i]
  PROVE  \A i \in 0..n : g[i] = g2[i]
<1> DEFINE T == {m \in 0..n : g[m] # g2[m]}
<1> SUFFICES ASSUME T # {} PROVE FALSE
  OBVIOUS
<1> HIDE DEF T
<1>1. PICK m \in T : \A k \in T : m <= k
  <2>1. T \in SUBSET Nat
    BY DEF T
  <2> QED BY <2>1, LeastOf
<1>2. m \in 0..n /\ g[m] # g2[m]
  BY DEF T
<1>3. m # 0
  BY <1>2 DEF Sums
<1>4. m - 1 \in 0..n /\ g[m - 1] = g2[m - 1] /\ m \in 1..n
  BY <1>1, <1>2, <1>3 DEF T
<1> QED BY <1>2, <1>4 DEF Sums

LEMMA SumToIs ==
  ASSUME NEW n \in Nat, NEW f, \A i \in 1..n : f[i] \in Nat
  PROVE  \E g : Sums(g, f, n) /\ History!SumTo(f, n) = g[n]
<1> DEFINE Def(g) == g = [i \in 0..n |-> IF i = 0 THEN 0 ELSE g[i - 1] + f[i]]
<1>1. PICK h : Sums(h, f, n)
  <2> DEFINE k == [i \in 1..n |-> f[i]]
  <2>1. k \in [1..n -> Nat] /\ \A i \in 1..n : k[i] = f[i]
    OBVIOUS
  <2> HIDE DEF k
  <2>2. PICK h : Sums(h, k, n)
    BY <2>1, SumsExist
  <2>3. Sums(h, f, n)
    BY <2>1, <2>2 DEF Sums
  <2> QED BY <2>3
<1>2. Def(h)
  <2>1. h = [i \in 0..n |-> h[i]]
    BY <1>1 DEF Sums
  <2>2. \A i \in 0..n : h[i] = IF i = 0 THEN 0 ELSE h[i - 1] + f[i]
    BY <1>1 DEF Sums
  <2> QED BY <2>1, <2>2
<1> DEFINE c == CHOOSE g : Def(g)
<1>3. Def(c)
  BY <1>2
<1>4. History!SumTo(f, n) = c[n]
  BY DEF History!SumTo
<1> HIDE DEF c
<1>5. \A i \in 0..n : c[i] = IF i = 0 THEN 0 ELSE c[i - 1] + f[i]
  BY <1>3
<1>6. \A i \in 0..n : c[i] = h[i]
  <2> DEFINE T == {m \in 0..n : c[m] # h[m]}
  <2> SUFFICES ASSUME T # {} PROVE FALSE
    OBVIOUS
  <2> HIDE DEF T
  <2>1. PICK m \in T : \A k \in T : m <= k
    <3>1. T \in SUBSET Nat
      BY DEF T
    <3> QED BY <3>1, LeastOf
  <2>2. m \in 0..n /\ c[m] # h[m]
    BY DEF T
  <2>3. m # 0
    BY <2>2, <1>1, <1>5 DEF Sums
  <2>4. m - 1 \in 0..n /\ c[m - 1] = h[m - 1] /\ m \in 1..n
    BY <2>1, <2>2, <2>3 DEF T
  <2> QED BY <2>2, <2>3, <2>4, <1>1, <1>5 DEF Sums
<1> QED BY <1>1, <1>4, <1>6

LEMMA SumToStep ==
  ASSUME NEW n \in Nat, NEW f, \A i \in 1..(n + 1) : f[i] \in Nat
  PROVE  /\ History!SumTo(f, 0) = 0 /\ History!SumTo(f, n) \in Nat
         /\ History!SumTo(f, n + 1) = History!SumTo(f, n) + f[n + 1]
<1>1. PICK g : Sums(g, f, n) /\ History!SumTo(f, n) = g[n]
  <2>1. \A i \in 1..n : f[i] \in Nat
    OBVIOUS
  <2> QED BY <2>1, SumToIs
<1>2. PICK h : Sums(h, f, n + 1) /\ History!SumTo(f, n + 1) = h[n + 1]
  BY SumToIs
<1>3. PICK z : Sums(z, f, 0) /\ History!SumTo(f, 0) = z[0]
  BY SumToIs
<1>4. Sums([i \in 0..n |-> h[i]], f, n)
  BY <1>2 DEF Sums
<1>5. [i \in 0..n |-> h[i]][n] = g[n]
  BY <1>1, <1>4, SumsUnique
<1>6. h[n] = g[n] /\ h[n + 1] = h[n] + f[n + 1]
  BY <1>2, <1>5 DEF Sums
<1>7. g[n] \in Nat /\ z[0] = 0
  BY <1>1, <1>3 DEF Sums
<1> QED BY <1>1, <1>2, <1>3, <1>6, <1>7

LEMMA SumToType ==
  ASSUME NEW n \in Nat, NEW f, \A i \in 1..n : f[i] \in Nat
  PROVE  History!SumTo(f, n) \in Nat
<1>1. PICK g : Sums(g, f, n) /\ History!SumTo(f, n) = g[n]
  BY SumToIs
<1> QED BY <1>1 DEF Sums

LEMMA SumToSame ==
  ASSUME NEW n \in Nat, NEW f, NEW f2, \A i \in 1..n : f[i] \in Nat /\ f2[i] = f[i]
  PROVE  History!SumTo(f2, n) = History!SumTo(f, n)
<1>1. PICK g : Sums(g, f, n) /\ History!SumTo(f, n) = g[n]
  BY SumToIs
<1>2. PICK h : Sums(h, f2, n) /\ History!SumTo(f2, n) = h[n]
  <2>1. \A i \in 1..n : f2[i] \in Nat
    OBVIOUS
  <2> QED BY <2>1, SumToIs
<1>3. h[n] = g[n]
  BY <1>1, <1>2, SumsUnique
<1> QED BY <1>1, <1>2, <1>3

LEMMA SumOfNothing ==
  ASSUME NEW n \in Nat, NEW f, \A i \in 1..n : f[i] = 0
  PROVE  History!SumTo(f, n) = 0
<1>1. PICK g : Sums(g, f, n) /\ History!SumTo(f, n) = g[n]
  BY SumToIs
<1>2. Sums([i \in 0..n |-> 0], f, n)
  BY DEF Sums
<1>3. [i \in 0..n |-> 0][n] = g[n]
  BY <1>1, <1>2, SumsUnique
<1> QED BY <1>1, <1>3

\* The two ways to number what is added up.
LEMMA SumBelowIs ==
  ASSUME NEW n \in Nat, NEW f, NEW k, \A i \in 1..n : k[i] = f[i - 1] /\ k[i] \in Nat
  PROVE  SumBelow(f, n) = History!SumTo(k, n)
<1> DEFINE Def(g) == g = [i \in 0..n |-> IF i = 0 THEN 0 ELSE g[i - 1] + f[i - 1]]
<1>1. PICK h : Sums(h, k, n) /\ History!SumTo(k, n) = h[n]
  BY SumToIs
<1>2. Def(h)
  <2>1. h = [i \in 0..n |-> h[i]]
    BY <1>1 DEF Sums
  <2>2. \A i \in 0..n : h[i] = IF i = 0 THEN 0 ELSE h[i - 1] + f[i - 1]
    BY <1>1 DEF Sums
  <2> QED BY <2>1, <2>2
<1> DEFINE c == CHOOSE g : Def(g)
<1>3. Def(c)
  BY <1>2
<1>4. SumBelow(f, n) = c[n]
  BY DEF SumBelow
<1> HIDE DEF c
<1>5. \A i \in 0..n : c[i] = IF i = 0 THEN 0 ELSE c[i - 1] + f[i - 1]
  BY <1>3
<1>6. \A i \in 0..n : c[i] = h[i]
  <2> DEFINE T == {m \in 0..n : c[m] # h[m]}
  <2> SUFFICES ASSUME T # {} PROVE FALSE
    OBVIOUS
  <2> HIDE DEF T
  <2>1. PICK m \in T : \A j \in T : m <= j
    <3>1. T \in SUBSET Nat
      BY DEF T
    <3> QED BY <3>1, LeastOf
  <2>2. m \in 0..n /\ c[m] # h[m]
    BY DEF T
  <2>3. m # 0
    BY <2>2, <1>1, <1>5 DEF Sums
  <2>4. m - 1 \in 0..n /\ c[m - 1] = h[m - 1] /\ m \in 1..n
    BY <2>1, <2>2, <2>3 DEF T
  <2> QED BY <2>2, <2>3, <2>4, <1>1, <1>5 DEF Sums
<1> QED BY <1>1, <1>4, <1>6

\* One addend more.
Bumped(f, f2, n, k, x) ==
    \A i \in 1..n : f[i] \in Nat /\ f2[i] = f[i] + (IF i = k THEN x ELSE 0)

LEMMA SumBumps ==
  ASSUME NEW n \in Nat, NEW f, NEW f2, NEW k \in 1..n, NEW x \in Nat, Bumped(f, f2, n, k, x)
  PROVE  History!SumTo(f2, n) = History!SumTo(f, n) + x
<1>0. \A i \in 1..n : f[i] \in Nat /\ f2[i] = f[i] + (IF i = k THEN x ELSE 0)
  BY DEF Bumped
<1>1. PICK g : Sums(g, f, n) /\ History!SumTo(f, n) = g[n]
  BY <1>0, SumToIs
<1> DEFINE g2 == [i \in 0..n |-> IF i < k THEN g[i] ELSE g[i] + x]
<1>2. Sums(g2, f2, n)
  <2>1. g \in [0..n -> Nat] /\ g[0] = 0 /\ \A i \in 1..n : g[i] = g[i - 1] + f[i]
    BY <1>1 DEF Sums
  <2>2. g2 \in [0..n -> Nat] /\ g2[0] = 0
    BY <2>1
  <2>3. \A i \in 1..n : g2[i] = g2[i - 1] + f2[i]
    <3> TAKE i \in 1..n
    <3>1. g[i] = g[i - 1] + f[i] /\ g[i] \in Nat /\ g[i - 1] \in Nat /\ f[i] \in Nat
      BY <2>1, <1>0
    <3> QED BY <3>1, <1>0
  <2> HIDE DEF g2
  <2> QED BY <2>2, <2>3 DEF Sums
<1>3. PICK h : Sums(h, f2, n) /\ History!SumTo(f2, n) = h[n]
  <2>1. \A i \in 1..n : f2[i] \in Nat
    BY <1>0
  <2> QED BY <2>1, SumToIs
<1>4. h[n] = g2[n] /\ g2[n] = g[n] + x
  BY <1>2, <1>3, SumsUnique
<1> QED BY <1>1, <1>3, <1>4

\* Things counted key by key are counted.
Keyed(T, key, S) == {t \in T : key[t] \in S}

CountsByKey(f, n, T, key, W) ==
    \A i \in 1..n : f[i] = IF i - 1 \in W THEN Cardinality(Keyed(T, key, {i - 1})) ELSE 0

LEMMA CountsAdd ==
  ASSUME NEW T, IsFiniteSet(T), NEW key \in [T -> Nat], NEW n \in Nat, NEW W \in SUBSET (0..(n - 1)),
         NEW f, CountsByKey(f, n, T, key, W)
  PROVE  History!SumTo(f, n) = Cardinality(Keyed(T, key, W))
<1> DEFINE Of(i) == Keyed(T, key, {i})
           Below(m) == {t \in T : key[t] \in W /\ key[t] < m}
           Bad == {m \in 0..n : History!SumTo(f, m) # Cardinality(Below(m))}
<1>0. \A i \in 1..n : f[i] = IF i - 1 \in W THEN Cardinality(Of(i - 1)) ELSE 0
  BY DEF CountsByKey
<1>1. \A i : IsFiniteSet(Of(i)) /\ Cardinality(Of(i)) \in Nat
  <2> TAKE i
  <2>1. Of(i) \subseteq T
    BY DEF Keyed
  <2> HIDE DEF Of
  <2> QED BY <2>1, FS_Subset, FS_CardinalityType
<1>2. \A i \in 1..n : f[i] \in Nat
  <2> TAKE i \in 1..n
  <2>1. Cardinality(Of(i - 1)) \in Nat
    BY <1>1
  <2> HIDE DEF Of
  <2> QED BY <2>1, <1>0
<1>3. \A m : IsFiniteSet(Below(m)) /\ Cardinality(Below(m)) \in Nat
  <2> TAKE m
  <2>1. Below(m) \subseteq T
    OBVIOUS
  <2> HIDE DEF Below
  <2> QED BY <2>1, FS_Subset, FS_CardinalityType
<1> SUFFICES ASSUME Bad # {} PROVE FALSE
  <2>1. n \notin Bad => History!SumTo(f, n) = Cardinality(Below(n))
    OBVIOUS
  <2>2. Below(n) = Keyed(T, key, W)
    <3>1. \A i \in W : i < n
      OBVIOUS
    <3> QED BY <3>1 DEF Keyed
  <2> HIDE DEF Bad, Below
  <2>3. Bad = {} => History!SumTo(f, n) = Cardinality(Below(n))
    BY <2>1
  <2> QED BY <2>2, <2>3
<1>4. PICK m \in Bad : \A k \in Bad : m <= k
  <2>1. Bad \in SUBSET Nat
    OBVIOUS
  <2> HIDE DEF Bad
  <2> QED BY <2>1, LeastOf
<1>5. m \in 0..n /\ History!SumTo(f, m) # Cardinality(Below(m))
  OBVIOUS
<1>6. CASE m = 0
  <2>1. History!SumTo(f, 0) = 0
    <3>1. \A i \in 1..0 : f[i] = 0
      OBVIOUS
    <3> QED BY <3>1, SumOfNothing
  <2>2. Below(0) = {}
    OBVIOUS
  <2>3. Cardinality(Below(0)) = 0
    BY <2>2, FS_EmptySet
  <2> QED BY <1>5, <1>6, <2>1, <2>3
<1>7. CASE m # 0
  <2>0. m - 1 \in 0..n /\ m \in 1..n /\ m - 1 \in Nat
    BY <1>5, <1>7
  <2>1. History!SumTo(f, m - 1) = Cardinality(Below(m - 1))
    BY <1>4, <2>0
  <2>2. History!SumTo(f, m) = History!SumTo(f, m - 1) + f[m]
    <3>1. \A i \in 1..((m - 1) + 1) : f[i] \in Nat
      BY <1>2, <2>0
    <3>2. History!SumTo(f, (m - 1) + 1) = History!SumTo(f, m - 1) + f[(m - 1) + 1]
      BY <3>1, <2>0, SumToStep
    <3>3. (m - 1) + 1 = m
      BY <2>0
    <3> QED BY <3>2, <3>3
  <2>3. CASE m - 1 \in W
    <3>1. Below(m) = Below(m - 1) \union Of(m - 1) /\ Below(m - 1) \intersect Of(m - 1) = {}
      BY <2>0, <2>3 DEF Keyed
    <3>2. f[m] = Cardinality(Of(m - 1))
      <4> HIDE DEF Of
      <4> QED BY <1>0, <2>0, <2>3
    <3> HIDE DEF Below, Of
    <3>3. Cardinality(Below(m)) = Cardinality(Below(m - 1)) + Cardinality(Of(m - 1)) - Cardinality({})
      BY <3>1, <1>1, <1>3, FS_Union
    <3>4. Cardinality({}) = 0
      BY FS_EmptySet
    <3>5. Cardinality(Below(m - 1)) \in Nat /\ Cardinality(Of(m - 1)) \in Nat
      BY <1>1, <1>3
    <3> QED BY <3>2, <3>3, <3>4, <3>5, <2>1, <2>2, <1>5
  <2>4. CASE m - 1 \notin W
    <3>1. Below(m) = Below(m - 1)
      BY <2>0, <2>4
    <3>2. f[m] = 0
      BY <1>0, <2>0, <2>4
    <3>3. Cardinality(Below(m - 1)) \in Nat
      BY <1>3
    <3> HIDE DEF Below
    <3> QED BY <3>1, <3>2, <3>3, <2>1, <2>2, <1>5
  <2> QED BY <2>3, <2>4
<1> QED BY <1>6, <1>7

\* Values added up key by key are added up.
Picked(l, mid, key, S) == [j \in 1..l |-> IF key[j] \in S THEN mid[j] ELSE 0]

\* The values have their keys, and the window is of the keys below n.
Stamped(l, mid, key, n, W) ==
    /\ l \in Nat /\ mid \in [1..l -> Nat] /\ key \in [1..l -> Nat]
    /\ n \in Nat /\ W \in SUBSET (0..(n - 1))

SumsByKey(f, n, l, mid, key, W) ==
    \A i \in 1..n : f[i] = IF i - 1 \in W THEN History!SumTo(Picked(l, mid, key, {i - 1}), l) ELSE 0

LEMMA SumsAdd ==
  ASSUME NEW l, NEW mid, NEW key, NEW n, NEW W, NEW f,
         Stamped(l, mid, key, n, W), SumsByKey(f, n, l, mid, key, W)
  PROVE  History!SumTo(f, n) = History!SumTo(Picked(l, mid, key, W), l)
<1>11. /\ l \in Nat /\ mid \in [1..l -> Nat] /\ key \in [1..l -> Nat]
       /\ n \in Nat /\ W \in SUBSET (0..(n - 1))
  BY DEF Stamped
<1> USE <1>11
<1> DEFINE Some(i) == Picked(l, mid, key, {i})
           All == Picked(l, mid, key, W)
           Part(m) == [i \in 1..n |-> IF i - 1 \in W THEN History!SumTo(Some(i - 1), m) ELSE 0]
           Bad == {m \in 0..l : History!SumTo(Part(m), n) # History!SumTo(All, m)}
<1>0. \A i \in 1..n : f[i] = IF i - 1 \in W THEN History!SumTo(Some(i - 1), l) ELSE 0
  BY DEF SumsByKey
<1>1. \A i : \A j \in 1..l : Some(i)[j] = (IF key[j] = i THEN mid[j] ELSE 0) /\ Some(i)[j] \in Nat
  BY DEF Picked
<1>2. \A j \in 1..l : All[j] = (IF key[j] \in W THEN mid[j] ELSE 0) /\ All[j] \in Nat
  BY DEF Picked
<1>3. \A m \in 0..l : \A i : History!SumTo(Some(i), m) \in Nat
  <2> TAKE m \in 0..l
  <2> TAKE i
  <2> HIDE DEF Some
  <2>1. \A j \in 1..m : Some(i)[j] \in Nat
    <3>1. \A j \in 1..m : j \in 1..l
      OBVIOUS
    <3> QED BY <3>1, <1>1
  <2> QED BY <2>1, SumToType
<1>4. \A m \in 0..l : \A i \in 1..n : Part(m)[i] \in Nat
  <2> HIDE DEF Some
  <2> QED BY <1>3
<1>5. \A m \in 1..l :
        /\ \A i : History!SumTo(Some(i), m) = History!SumTo(Some(i), m - 1) + Some(i)[m]
        /\ History!SumTo(All, m) = History!SumTo(All, m - 1) + All[m]
        /\ History!SumTo(All, m - 1) \in Nat
  <2> SUFFICES ASSUME NEW m \in 1..l
               PROVE  /\ \A i : History!SumTo(Some(i), m) = History!SumTo(Some(i), m - 1) + Some(i)[m]
                      /\ History!SumTo(All, m) = History!SumTo(All, m - 1) + All[m]
                      /\ History!SumTo(All, m - 1) \in Nat
    OBVIOUS
  <2>1. m - 1 \in Nat /\ (m - 1) + 1 = m /\ 1..((m - 1) + 1) \subseteq 1..l
    OBVIOUS
  <2>2. ASSUME NEW g, \A j \in 1..l : g[j] \in Nat
        PROVE  History!SumTo(g, m) = History!SumTo(g, m - 1) + g[m] /\ History!SumTo(g, m - 1) \in Nat
    <3>1. \A j \in 1..((m - 1) + 1) : g[j] \in Nat
      BY <2>1, <2>2
    <3>2. History!SumTo(g, (m - 1) + 1) = History!SumTo(g, m - 1) + g[(m - 1) + 1]
          /\ History!SumTo(g, m - 1) \in Nat
      BY <2>1, <3>1, SumToStep
    <3> QED BY <2>1, <3>2
  <2>3. \A i : History!SumTo(Some(i), m) = History!SumTo(Some(i), m - 1) + Some(i)[m]
    <3> TAKE i
    <3> HIDE DEF Some
    <3> QED BY <1>1, <2>2
  <2>4. History!SumTo(All, m) = History!SumTo(All, m - 1) + All[m] /\ History!SumTo(All, m - 1) \in Nat
    <3> HIDE DEF All
    <3> QED BY <1>2, <2>2
  <2> QED BY <2>3, <2>4
<1>6. Bad = {} => History!SumTo(f, n) = History!SumTo(All, l)
  <2>1. History!SumTo(Part(l), n) = History!SumTo(f, n)
    <3>1. \A i \in 1..n : Part(l)[i] \in Nat /\ f[i] = Part(l)[i]
      <4> HIDE DEF Some
      <4> QED BY <1>0, <1>4
    <3> HIDE DEF Part
    <3> QED BY <3>1, SumToSame
  <2>2. l \notin Bad => History!SumTo(Part(l), n) = History!SumTo(All, l)
    OBVIOUS
  <2> HIDE DEF Bad, Part, All
  <2> QED BY <2>1, <2>2
<1> SUFFICES ASSUME Bad # {} PROVE FALSE
  <2> HIDE DEF Bad
  <2> QED BY <1>6
<1>7. PICK m \in Bad : \A k \in Bad : m <= k
  <2>1. Bad \in SUBSET Nat
    OBVIOUS
  <2> HIDE DEF Bad
  <2> QED BY <2>1, LeastOf
<1>8. m \in 0..l /\ History!SumTo(Part(m), n) # History!SumTo(All, m)
  OBVIOUS
<1>9. CASE m = 0
  <2>1. History!SumTo(All, 0) = 0
    <3>1. \A i \in 1..0 : All[i] = 0
      OBVIOUS
    <3> HIDE DEF All
    <3> QED BY <3>1, SumOfNothing
  <2>2. \A i : History!SumTo(Some(i), 0) = 0
    <3> TAKE i
    <3>1. \A j \in 1..0 : Some(i)[j] = 0
      OBVIOUS
    <3> HIDE DEF Some
    <3> QED BY <3>1, SumOfNothing
  <2>3. \A i \in 1..n : Part(0)[i] = 0
    <3> HIDE DEF Some
    <3> QED BY <2>2
  <2>4. History!SumTo(Part(0), n) = 0
    <3> HIDE DEF Part
    <3> QED BY <2>3, SumOfNothing
  <2> HIDE DEF Part, All
  <2> QED BY <1>8, <1>9, <2>1, <2>4
<1>10. CASE m # 0
  <2>0. m - 1 \in 0..l /\ m \in 1..l
    BY <1>8, <1>10
  <2>1. History!SumTo(Part(m - 1), n) = History!SumTo(All, m - 1)
    <3>1. m - 1 \notin Bad
      <4> HIDE DEF Bad
      <4> QED BY <1>7, <2>0
    <3> HIDE DEF Part, All
    <3> QED BY <3>1, <2>0
  <2>2. \A i \in 1..n : /\ Part(m - 1)[i] \in Nat
                        /\ Part(m)[i] = Part(m - 1)[i] + (IF i - 1 \in W /\ key[m] = i - 1 THEN mid[m] ELSE 0)
    <3> TAKE i \in 1..n
    <3>1. Part(m - 1)[i] \in Nat
      BY <1>4, <2>0
    <3>2. CASE i - 1 \in W
      <4>1. History!SumTo(Some(i - 1), m) = History!SumTo(Some(i - 1), m - 1) + Some(i - 1)[m]
        <5> HIDE DEF Some, All
        <5> QED BY <1>5, <2>0
      <4>2. Some(i - 1)[m] = IF key[m] = i - 1 THEN mid[m] ELSE 0
        BY <1>1, <2>0
      <4> HIDE DEF Some
      <4>3. /\ Part(m)[i] = History!SumTo(Some(i - 1), m)
            /\ Part(m - 1)[i] = History!SumTo(Some(i - 1), m - 1)
        BY <3>2
      <4> HIDE DEF Part
      <4> QED BY <3>1, <3>2, <4>1, <4>2, <4>3
    <3>3. CASE i - 1 \notin W
      <4> HIDE DEF Some
      <4>1. Part(m)[i] = 0 /\ Part(m - 1)[i] = 0
        BY <3>3
      <4> HIDE DEF Part
      <4> QED BY <3>1, <3>3, <4>1
    <3> QED BY <3>2, <3>3
  <2>3. key[m] \in Nat /\ mid[m] \in Nat /\ (key[m] \in W => key[m] < n)
    BY <2>0
  <2>4. History!SumTo(All, m) = History!SumTo(All, m - 1) + (IF key[m] \in W THEN mid[m] ELSE 0)
        /\ History!SumTo(All, m - 1) \in Nat
    <3>1. All[m] = IF key[m] \in W THEN mid[m] ELSE 0
      BY <1>2, <2>0
    <3> HIDE DEF All
    <3> QED BY <3>1, <1>5, <2>0
  <2> HIDE DEF Part, All
  <2>5. CASE key[m] \in W
    <3> DEFINE k == key[m] + 1
               x == mid[m]
    <3>1. k \in 1..n
      BY <2>3, <2>5
    <3>2. \A i \in 1..n : Part(m - 1)[i] \in Nat /\ Part(m)[i] = Part(m - 1)[i] + (IF i = k THEN x ELSE 0)
      <4> TAKE i \in 1..n
      <4>1. i = k <=> (i - 1 \in W /\ key[m] = i - 1)
        <5>1. i = k <=> key[m] = i - 1
          BY <2>3, SMTT(90)
        <5>2. key[m] = i - 1 => i - 1 \in W
          BY <2>5
        <5> QED BY <5>1, <5>2
      <4> HIDE DEF k
      <4> QED BY <4>1, <2>2
    <3>3. x \in Nat
      BY <2>3
    <3> HIDE DEF k, x
    <3>4. History!SumTo(Part(m), n) = History!SumTo(Part(m - 1), n) + x
      <4> DEFINE g == Part(m - 1)
                 g2 == Part(m)
      <4>1. Bumped(g, g2, n, k, x)
        BY <3>2 DEF Bumped
      <4> HIDE DEF g, g2
      <4>2. History!SumTo(g2, n) = History!SumTo(g, n) + x
        BY <3>1, <3>3, <4>1, SumBumps
      <4> QED BY <4>2 DEF g, g2
    <3> QED BY <3>4, <2>1, <2>4, <2>5, <1>8 DEF x
  <2>6. CASE key[m] \notin W
    <3>1. \A i \in 1..n : Part(m - 1)[i] \in Nat /\ Part(m)[i] = Part(m - 1)[i]
      BY <2>2, <2>6, SMTT(90)
    <3>2. History!SumTo(Part(m), n) = History!SumTo(Part(m - 1), n)
      BY <3>1, SumToSame
    <3> QED BY <3>2, <2>1, <2>4, <2>6, <1>8
  <2> QED BY <2>5, <2>6
<1> QED BY <1>9, <1>10

-------------------------------------------------------------------------------
(* Buckets and slots.                                                        *)

\* The ticks of a bucket.
LEMMA IndexIs ==
  ASSUME NEW t \in Nat
  PROVE  /\ IndexAt(t) \in Nat
         /\ BucketStart(IndexAt(t)) <= t /\ t < BucketStart(IndexAt(t)) + Resolution
<1>1. Resolution \in Nat \ {0}
  BY WindowsAssumption
<1> QED BY <1>1 DEF IndexAt, BucketStart

LEMMA StartIs ==
  ASSUME NEW i \in Int
  PROVE  /\ BucketStart(i) \in Int /\ (i \in Nat => BucketStart(i) \in Nat)
         /\ BucketStart(i + 1) = BucketStart(i) + Resolution
         /\ Resolution \in Nat /\ Resolution > 0
<1>1. Resolution \in Nat \ {0}
  BY WindowsAssumption
<1> QED BY <1>1 DEF BucketStart

LEMMA StartsInOrder ==
  ASSUME NEW i \in Int, NEW j \in Int, i < j
  PROVE  BucketStart(i) + Resolution <= BucketStart(j)
<1>1. Resolution \in Nat \ {0}
  BY WindowsAssumption
<1> QED BY <1>1 DEF BucketStart

LEMMA InBucket ==
  ASSUME NEW t \in Nat, NEW i \in Int
  PROVE  /\ IndexAt(t) = i <=> BucketStart(i) <= t /\ t < BucketStart(i) + Resolution
         /\ IndexAt(t) < i <=> t < BucketStart(i)
<1>1. IndexAt(t) \in Nat /\ BucketStart(IndexAt(t)) <= t /\ t < BucketStart(IndexAt(t)) + Resolution
  BY IndexIs
<1>2. BucketStart(i) \in Int /\ BucketStart(IndexAt(t)) \in Int /\ Resolution \in Nat
  BY <1>1, StartIs
<1>3. IndexAt(t) < i => BucketStart(IndexAt(t)) + Resolution <= BucketStart(i)
  BY <1>1, StartsInOrder
<1>4. i < IndexAt(t) => BucketStart(i) + Resolution <= BucketStart(IndexAt(t))
  BY <1>1, StartsInOrder
<1> QED BY <1>1, <1>2, <1>3, <1>4

LEMMA IndexGrows ==
  ASSUME NEW t \in Nat, NEW u \in Nat, t <= u
  PROVE  IndexAt(t) <= IndexAt(u)
<1>1. IndexAt(t) \in Nat /\ IndexAt(u) \in Nat /\ BucketStart(IndexAt(u)) \in Nat
  BY IndexIs, StartIs
<1>2. ~ (u < BucketStart(IndexAt(u)))
  BY <1>1, InBucket
<1>3. IndexAt(u) < IndexAt(t) => BucketStart(IndexAt(u)) + Resolution <= BucketStart(IndexAt(t))
  BY <1>1, StartsInOrder
<1>4. u < BucketStart(IndexAt(u)) + Resolution /\ BucketStart(IndexAt(t)) <= t
  BY IndexIs
<1>5. BucketStart(IndexAt(t)) \in Nat /\ Resolution \in Nat
  BY <1>1, StartIs
<1> QED BY <1>1, <1>3, <1>4, <1>5

\* There is a longest window, and it has at least one bucket.
LEMMA SpansType ==
  /\ Spans \in Seq(Nat \ {0}) /\ Len(Spans) \in Nat \ {0} /\ DOMAIN Spans = 1..Len(Spans)
  /\ \A i \in DOMAIN Spans : BucketsFor(Spans[i]) \in Nat \ {0}
<1>1. Spans \in Seq(Nat \ {0}) /\ Len(Spans) \in Nat \ {0} /\ DOMAIN Spans = 1..Len(Spans)
  BY WindowsAssumption
<1>2. ASSUME NEW i \in DOMAIN Spans PROVE BucketsFor(Spans[i]) \in Nat \ {0}
  <2>1. Spans[i] \in Nat \ {0} /\ Resolution \in Nat \ {0}
    BY <1>1, <1>2, WindowsAssumption
  <2> DEFINE t == Spans[i] + Resolution - 1
             q == t \div Resolution
  <2>2. t \in Nat /\ Resolution <= t
    BY <2>1
  <2> HIDE DEF t
  <2>3. q \in Nat /\ t < q * Resolution + Resolution
    BY <2>1, <2>2
  <2>4. q # 0
    BY <2>1, <2>2, <2>3
  <2> QED BY <2>3, <2>4 DEF BucketsFor, t
<1> QED BY <1>1, <1>2

LEMMA GreatestOf ==
  ASSUME NEW l \in Nat \ {0}, NEW f \in [1..l -> Nat]
  PROVE  \E i \in 1..l : \A j \in 1..l : f[i] >= f[j]
<1> DEFINE Tops(n) == \E i \in 1..n : \A j \in 1..n : f[i] >= f[j]
           Bad == {n \in 1..l : ~ Tops(n)}
<1>1. ASSUME Bad # {} PROVE FALSE
  <2>1. PICK n \in Bad : \A k \in Bad : n <= k
    <3>1. Bad \in SUBSET Nat
      OBVIOUS
    <3> HIDE DEF Bad
    <3> QED BY <1>1, <3>1, LeastOf
  <2>2. n \in 1..l /\ ~ Tops(n)
    OBVIOUS
  <2>3. n # 1
    <3>1. 1..1 = {1} /\ f[1] \in Nat
      OBVIOUS
    <3>2. Tops(1)
      BY <3>1
    <3> HIDE DEF Tops
    <3> QED BY <2>2, <3>2
  <2>4. n - 1 \in 1..l /\ ~(n <= n - 1)
    BY <2>2, <2>3
  <2>5. Tops(n - 1)
    <3>1. n - 1 \notin Bad
      <4> HIDE DEF Bad
      <4> QED BY <2>1, <2>4
    <3> HIDE DEF Tops
    <3> QED BY <2>4, <3>1
  <2>6. PICK i \in 1..(n - 1) : \A j \in 1..(n - 1) : f[i] >= f[j]
    BY <2>5
  <2>7. f[i] \in Nat /\ f[n] \in Nat /\ i \in 1..n /\ n \in 1..n
    BY <2>2, <2>4
  <2>8. \A j \in 1..n : f[j] \in Nat /\ (j = n \/ j \in 1..(n - 1))
    BY <2>2, <2>4
  <2>9. \A j \in 1..n : f[i] >= f[j] \/ f[n] >= f[i]
    BY <2>6, <2>7, <2>8
  <2>10. CASE f[i] >= f[n]
    <3>1. \A j \in 1..n : f[i] >= f[j]
      BY <2>6, <2>8, <2>10
    <3> QED BY <3>1, <2>7, <2>2
  <2>11. CASE f[n] > f[i]
    <3>1. \A j \in 1..n : f[n] >= f[j]
      <4> TAKE j \in 1..n
      <4>1. f[j] \in Nat
        BY <2>8
      <4>2. CASE j = n
        BY <4>2, <4>1
      <4>3. CASE j \in 1..(n - 1)
        <5>1. f[i] >= f[j]
          BY <4>3, <2>6
        <5> QED BY <5>1, <4>1, <2>7, <2>11
      <4> QED BY <4>2, <4>3, <2>8
    <3> QED BY <3>1, <2>7, <2>2
  <2> QED BY <2>7, <2>10, <2>11
<1>2. l \in 1..l
  OBVIOUS
<1>3. Tops(l)
  <2>1. l \notin Bad
    <3> HIDE DEF Bad
    <3> QED BY <1>1
  <2> HIDE DEF Tops
  <2> QED BY <1>2, <2>1
<1> QED BY <1>3

LEMMA LongestIs ==
  /\ Longest \in Nat \ {0} /\ Ring = Longest + 1 /\ Ring \in Nat \ {0}
  /\ \A i \in DOMAIN Spans : BucketsFor(Spans[i]) <= Longest
<1> DEFINE l == Len(Spans)
           f == [i \in 1..l |-> BucketsFor(Spans[i])]
           values == {BucketsFor(Spans[i]) : i \in DOMAIN Spans}
<1>1. l \in Nat \ {0} /\ DOMAIN Spans = 1..l /\ \A i \in 1..l : BucketsFor(Spans[i]) \in Nat \ {0}
  BY SpansType
<1> HIDE DEF l
<1>2. f \in [1..l -> Nat] /\ \A i \in 1..l : f[i] = BucketsFor(Spans[i])
  BY <1>1
<1> HIDE DEF f
<1>3. PICK i \in 1..l : \A j \in 1..l : f[i] >= f[j]
  BY <1>1, <1>2, GreatestOf
<1>4. f[i] \in values /\ \A j \in DOMAIN Spans : f[i] >= BucketsFor(Spans[j])
  BY <1>1, <1>2, <1>3
<1>5. Longest \in values /\ \A j \in DOMAIN Spans : Longest >= BucketsFor(Spans[j])
  <2>1. Longest = CHOOSE k \in values : \A j \in DOMAIN Spans : k >= BucketsFor(Spans[j])
    BY DEF Longest
  <2> HIDE DEF values
  <2> QED BY <1>4, <2>1
<1>6. Longest \in Nat \ {0}
  BY <1>1, <1>5
<1>7. \A j \in DOMAIN Spans : BucketsFor(Spans[j]) <= Longest
  BY <1>1, <1>5, <1>6
<1> QED BY <1>6, <1>7 DEF Ring

LEMMA SlotsDiffer ==
  ASSUME NEW a \in Nat, NEW b \in Nat, a % Ring = b % Ring, a - b < Ring, b - a < Ring
  PROVE  a = b
<1>0. Ring \in Nat \ {0}
  BY LongestIs
<1> DEFINE p == a \div Ring
           q == b \div Ring
           m == a % Ring
           n == b % Ring
<1>1. p \in Nat /\ m \in Nat /\ a = Ring * p + m
  BY <1>0
<1>2. q \in Nat /\ n \in Nat /\ b = Ring * q + n
  BY <1>0
<1>3. m = n
  OBVIOUS
<1> HIDE DEF p, q, m, n
<1>4. p < q => Ring * p + Ring <= Ring * q
  BY <1>0, <1>1, <1>2
<1>5. q < p => Ring * q + Ring <= Ring * p
  BY <1>0, <1>1, <1>2
<1>6. Ring * p \in Int /\ Ring * q \in Int
  BY <1>0, <1>1, <1>2
<1> QED BY <1>0, <1>1, <1>2, <1>3, <1>4, <1>5, <1>6

LEMMA SlotIs == ASSUME NEW i \in Nat PROVE i % Ring \in 0..(Ring - 1)
<1>0. Ring \in Nat \ {0}
  BY LongestIs
<1> QED BY <1>0

-------------------------------------------------------------------------------
(* The ring and the history.                                                 *)

Buckets == [index : {NoIndex} \union Nat, samples : Nat, sum : Nat, first : Nat, last : Nat,
            high : Nat, low : Nat, trades : Nat, untrusted : Nat]

WindowsType == [buckets : [0..(Ring - 1) -> Buckets], charged : Nat, trusted : BOOLEAN]

\* What the history b of the status, s of the samples and p of the prints has
\* of bucket i.
Missing(b, i) == {t \in DOMAIN b : IndexAt(t - 1) = i /\ b[t] # "live"}
SamplesIn(s, i) == {j \in DOMAIN s : IndexAt(s[j].at) = i}
PrintsIn(p, i) == {n \in DOMAIN p : IndexAt(p[n]) = i}
MidsIn(s, i) == [j \in 1..Len(s) |-> IF IndexAt(s[j].at) = i THEN s[j].mid ELSE 0]

SamplesAre(k, s, i) ==
    /\ k.samples = Cardinality(SamplesIn(s, i))
    /\ k.sum = History!SumTo(MidsIn(s, i), Len(s))
    /\ SamplesIn(s, i) = {} => {k.first, k.last, k.high, k.low} = {NoPrice}
    /\ SamplesIn(s, i) # {} =>
          /\ \E j \in SamplesIn(s, i) : k.first = s[j].mid /\ \A n \in SamplesIn(s, i) : j <= n
          /\ \E j \in SamplesIn(s, i) : k.last = s[j].mid /\ \A n \in SamplesIn(s, i) : n <= j
          /\ \E j \in SamplesIn(s, i) : k.high = s[j].mid
          /\ \E j \in SamplesIn(s, i) : k.low = s[j].mid
          /\ \A n \in SamplesIn(s, i) : k.low <= s[n].mid /\ s[n].mid <= k.high

BucketIs(k, b, s, p, i) ==
    /\ k.index = i
    /\ k.untrusted = Cardinality(Missing(b, i))
    /\ SamplesAre(k, s, i)
    /\ k.trades = Cardinality(PrintsIn(p, i))

\* The slot of a bucket that can still be read holds what the history has of it;
\* one that holds another bucket is of a bucket nothing is known of.
SlotIsTrue(w, b, s, p, i) ==
    IF w.buckets[i % Ring].index = i
    THEN BucketIs(w.buckets[i % Ring], b, s, p, i)
    ELSE w.charged <= BucketStart(i) /\ SamplesIn(s, i) = {} /\ PrintsIn(p, i) = {}

RingIs(w, b, s, p) ==
    /\ w \in WindowsType
    /\ b \in Seq(Statuses) /\ s \in Seq(Samples) /\ p \in Seq(Nat)
    /\ Len(b) = w.charged
    /\ \A j \in DOMAIN s : s[j].at <= w.charged
    /\ \A n \in DOMAIN p : p[n] <= w.charged
    /\ \A slot \in 0..(Ring - 1) :
          LET k == w.buckets[slot]
          IN  /\ k.untrusted <= Resolution
              /\ k.index # NoIndex => k.index <= IndexAt(w.charged) /\ k.index % Ring = slot
    /\ \A i \in 0..IndexAt(w.charged) : IndexAt(w.charged) - Ring < i => SlotIsTrue(w, b, s, p, i)

Fresh(i) == [EmptyBucket EXCEPT !.index = i]

LEMMA FreshIs ==
  ASSUME NEW i \in Nat, NEW b, NEW s \in Seq(Samples), NEW p,
         Missing(b, i) = {}, SamplesIn(s, i) = {}, PrintsIn(p, i) = {}
  PROVE  Fresh(i) \in Buckets /\ BucketIs(Fresh(i), b, s, p, i)
<1>1. Fresh(i) = [index |-> i, samples |-> 0, sum |-> 0, first |-> NoPrice, last |-> NoPrice,
                  high |-> NoPrice, low |-> NoPrice, trades |-> 0, untrusted |-> 0]
  BY DEF Fresh, EmptyBucket
<1>2. Fresh(i) \in Buckets
  BY <1>1 DEF Buckets, NoPrice
<1>3. Cardinality({}) = 0
  BY FS_EmptySet
<1>4. History!SumTo(MidsIn(s, i), Len(s)) = 0
  <2>1. \A j \in 1..Len(s) : MidsIn(s, i)[j] = 0
    BY DEF MidsIn, SamplesIn
  <2>2. Len(s) \in Nat
    OBVIOUS
  <2> QED BY <2>1, <2>2, SumOfNothing
<1>5. SamplesAre(Fresh(i), s, i)
  BY <1>1, <1>3, <1>4 DEF SamplesAre
<1> QED BY <1>1, <1>2, <1>3, <1>5 DEF BucketIs

LEMMA StampsAre ==
  ASSUME NEW w, NEW b, NEW s, NEW p, RingIs(w, b, s, p)
  PROVE  /\ \A j \in DOMAIN s : s[j] \in Samples /\ s[j].at \in Nat /\ s[j].mid \in Nat /\ s[j].mid # NoPrice
         /\ \A n \in DOMAIN p : p[n] \in Nat
<1>1. s \in Seq(Samples) /\ p \in Seq(Nat)
  BY DEF RingIs
<1>2. \A k \in Samples : k.at \in Nat /\ k.mid \in Nat /\ k.mid # NoPrice
  BY DEF Samples
<1>3. \A j \in DOMAIN s : s[j] \in Samples
  BY <1>1
<1> QED BY <1>1, <1>2, <1>3

\* The stamps before a tick are in no later bucket.
LEMMA NothingLater ==
  ASSUME NEW w, NEW b, NEW s, NEW p, RingIs(w, b, s, p), NEW i \in Nat, IndexAt(w.charged) < i
  PROVE  Missing(b, i) = {} /\ SamplesIn(s, i) = {} /\ PrintsIn(p, i) = {}
<1>1. /\ w.charged \in Nat /\ b \in Seq(Statuses) /\ Len(b) = w.charged
      /\ \A j \in DOMAIN s : s[j].at <= w.charged
      /\ \A n \in DOMAIN p : p[n] <= w.charged
  BY DEF RingIs, WindowsType
<1>2. /\ \A j \in DOMAIN s : s[j].at \in Nat
      /\ \A n \in DOMAIN p : p[n] \in Nat
  BY StampsAre
<1>3. \A t \in Nat : t <= w.charged => IndexAt(t) # i
  <2> TAKE t \in Nat
  <2>1. IndexAt(t) \in Nat /\ IndexAt(w.charged) \in Nat
    BY <1>1, IndexIs
  <2>2. t <= w.charged => IndexAt(t) <= IndexAt(w.charged)
    BY <1>1, IndexGrows
  <2> QED BY <2>1, <2>2
<1>4. Missing(b, i) = {}
  <2>1. \A t \in DOMAIN b : t - 1 \in Nat /\ t - 1 <= w.charged
    BY <1>1
  <2> QED BY <2>1, <1>3 DEF Missing
<1>5. SamplesIn(s, i) = {}
  BY <1>1, <1>2, <1>3 DEF SamplesIn
<1>6. PrintsIn(p, i) = {}
  BY <1>1, <1>2, <1>3 DEF PrintsIn
<1> QED BY <1>4, <1>5, <1>6

\* A bucket that begins no earlier than what is charged has missed nothing.
LEMMA NothingMissing ==
  ASSUME NEW b \in Seq(Statuses), NEW i \in Nat, Len(b) <= BucketStart(i)
  PROVE  Missing(b, i) = {}
<1>1. \A t \in DOMAIN b : t - 1 \in Nat /\ t - 1 < BucketStart(i)
  <2> TAKE t \in DOMAIN b
  <2>1. t \in 1..Len(b) /\ Len(b) \in Nat /\ BucketStart(i) \in Nat
    <3>1. BucketStart(i) \in Nat
      BY StartIs
    <3>2. DOMAIN b = 1..Len(b) /\ Len(b) \in Nat
      OBVIOUS
    <3> QED BY <3>1, <3>2
  <2> QED BY <2>1
<1>2. \A t \in Nat : t < BucketStart(i) => IndexAt(t) # i
  <2> TAKE t \in Nat
  <2>1. IndexAt(t) = i => BucketStart(i) <= t
    BY InBucket
  <2>2. BucketStart(i) \in Nat
    BY StartIs
  <2> QED BY <2>1, <2>2
<1> QED BY <1>1, <1>2 DEF Missing

\* A slot as it is written to.
LEMMA SlotMutIs ==
  ASSUME NEW w, NEW b, NEW s, NEW p, RingIs(w, b, s, p),
         NEW i \in Nat, IndexAt(w.charged) - Ring < i
  PROVE  /\ SlotMut(w.buckets, i) \in Buckets
         /\ BucketIs(SlotMut(w.buckets, i), b, s, p, i)
<1>1. /\ i % Ring \in 0..(Ring - 1) /\ w.buckets[i % Ring] \in Buckets
      /\ IndexAt(w.charged) \in Nat /\ s \in Seq(Samples) /\ b \in Seq(Statuses)
  BY SlotIs, IndexIs DEF RingIs, WindowsType
<1>2. SlotMut(w.buckets, i) = IF w.buckets[i % Ring].index = i THEN w.buckets[i % Ring] ELSE Fresh(i)
  BY DEF SlotMut, Fresh
<1>3. CASE i <= IndexAt(w.charged)
  <2>1. SlotIsTrue(w, b, s, p, i)
    BY <1>3 DEF RingIs
  <2>2. CASE w.buckets[i % Ring].index = i
    BY <2>1, <2>2, <1>1, <1>2 DEF SlotIsTrue
  <2>3. CASE w.buckets[i % Ring].index # i
    <3>1. Len(b) <= BucketStart(i) /\ SamplesIn(s, i) = {} /\ PrintsIn(p, i) = {}
      BY <2>1, <2>3 DEF SlotIsTrue, RingIs
    <3>2. Missing(b, i) = {}
      BY <3>1, <1>1, NothingMissing
    <3> QED BY <3>1, <3>2, <2>3, <1>1, <1>2, FreshIs
  <2> QED BY <2>2, <2>3
<1>4. CASE IndexAt(w.charged) < i
  <2>1. Missing(b, i) = {} /\ SamplesIn(s, i) = {} /\ PrintsIn(p, i) = {}
    BY <1>4, NothingLater
  <2>2. w.buckets[i % Ring].index # i
    <3>1. w.buckets[i % Ring].index # NoIndex => w.buckets[i % Ring].index <= IndexAt(w.charged)
      BY <1>1 DEF RingIs
    <3>2. i # NoIndex
      BY DEF NoIndex
    <3> QED BY <3>1, <3>2, <1>1, <1>4
  <2> QED BY <2>1, <2>2, <1>1, <1>2, FreshIs
<1> QED BY <1>1, <1>3, <1>4

-------------------------------------------------------------------------------
(* Charging.                                                                 *)

LEMMA MissingGrows ==
  ASSUME NEW b \in Seq(Statuses), NEW longer \in Seq(Statuses), NEW x, Grown(b, longer, x), NEW i \in Nat
  PROVE  LET lo == MaxOf(Len(b), BucketStart(i))
             hi == MinOf(Len(longer), BucketStart(i + 1))
         IN  /\ Cardinality(Missing(b, i)) \in Nat
             /\ Cardinality(Missing(longer, i)) \in Nat /\ Cardinality(Missing(longer, i)) <= Resolution
             /\ Cardinality(Missing(longer, i)) =
                   Cardinality(Missing(b, i)) + (IF x # "live" /\ lo < hi THEN hi - lo ELSE 0)
<1> DEFINE lo == MaxOf(Len(b), BucketStart(i))
           hi == MinOf(Len(longer), BucketStart(i + 1))
           start == BucketStart(i)
           added == (lo + 1)..hi
           old == Missing(b, i)
           new == Missing(longer, i)
           n == Len(b)
           n2 == Len(longer)
<1>1. /\ start \in Nat /\ BucketStart(i + 1) = start + Resolution /\ Resolution \in Nat
  <2>1. i \in Int
    OBVIOUS
  <2>2. start \in Nat
    BY <2>1, StartIs
  <2>3. BucketStart(i + 1) = start + Resolution
    BY <2>1, StartIs
  <2>4. Resolution \in Nat
    BY <2>1, StartIs
  <2> QED BY <2>2, <2>3, <2>4
<1>2. n \in Nat /\ n2 \in Nat /\ n <= n2 /\ DOMAIN b = 1..n /\ DOMAIN longer = 1..n2
  BY DEF Grown
<1>3. \A t \in Nat : t # 0 => (IndexAt(t - 1) = i <=> start < t /\ t <= start + Resolution)
  <2> SUFFICES ASSUME NEW t \in Nat, t # 0
               PROVE  IndexAt(t - 1) = i <=> start < t /\ t <= start + Resolution
    OBVIOUS
  <2>1. t - 1 \in Nat
    OBVIOUS
  <2>2. IndexAt(t - 1) = i <=> start <= t - 1 /\ t - 1 < start + Resolution
    BY <2>1, InBucket
  <2> HIDE DEF start
  <2> QED BY <2>2, <1>1
<1>4. lo \in Nat /\ hi \in Nat /\ lo = (IF n >= start THEN n ELSE start)
      /\ hi = (IF n2 <= start + Resolution THEN n2 ELSE start + Resolution)
  BY <1>1, <1>2 DEF MaxOf, MinOf
<1>5. \A t : t \in old <=> t \in 1..n /\ start < t /\ t <= start + Resolution /\ b[t] # "live"
  <2> HIDE DEF start, n
  <2> QED BY <1>2, <1>3 DEF Missing
<1>6. \A t : t \in new <=> t \in 1..n2 /\ start < t /\ t <= start + Resolution /\ longer[t] # "live"
  <2> HIDE DEF start, n2
  <2> QED BY <1>2, <1>3 DEF Missing
<1>7. (\A t \in 1..n : longer[t] = b[t]) /\ (\A t \in 1..n2 : t > n => longer[t] = x)
  BY DEF Grown
<1> HIDE DEF lo, hi, start, n, n2
<1>8. /\ IsFiniteSet(1..n) /\ IsFiniteSet((start + 1)..(start + Resolution))
      /\ Cardinality((start + 1)..(start + Resolution)) = Resolution
  <2>1. /\ start + 1 \in Int /\ start + Resolution \in Int /\ start + 1 <= start + Resolution
        /\ (start + Resolution) - (start + 1) + 1 = Resolution
    BY <1>1, StartIs
  <2> QED BY <2>1, <1>2, FS_Interval
<1>9. old \subseteq 1..n /\ new \subseteq (start + 1)..(start + Resolution)
  BY <1>1, <1>2, <1>5, <1>6
<1>10. /\ IsFiniteSet(old) /\ Cardinality(old) \in Nat
       /\ IsFiniteSet(new) /\ Cardinality(new) \in Nat /\ Cardinality(new) <= Resolution
  <2> HIDE DEF old, new
  <2> QED BY <1>8, <1>9, FS_Subset, FS_CardinalityType, ZenonT(60)
<1>11. CASE x # "live" /\ lo < hi
  <2>1. new = old \union added /\ old \intersect added = {}
    <3>1. \A t : t \in added <=> t \in 1..n2 /\ t > n /\ start < t /\ t <= start + Resolution
      BY <1>1, <1>2, <1>4
    <3>2. \A t : t \in new <=> t \in old \/ t \in added
      <4> TAKE t
      <4> HIDE DEF old, new, added
      <4>1. t \in 1..n2 <=> t \in 1..n \/ (t \in 1..n2 /\ t > n)
        BY <1>2
      <4> QED BY <4>1, <1>5, <1>6, <1>7, <1>11, <3>1
    <3>3. \A t : ~(t \in old /\ t \in added)
      <4> HIDE DEF old, new, added
      <4> QED BY <1>2, <1>5, <3>1
    <3> HIDE DEF old, new, added
    <3> QED BY <3>2, <3>3
  <2>2. IsFiniteSet(added) /\ Cardinality(added) = hi - lo
    <3>1. lo + 1 <= hi /\ lo + 1 \in Int /\ hi \in Int /\ hi - (lo + 1) + 1 = hi - lo
      BY <1>4, <1>11
    <3> QED BY <3>1, FS_Interval
  <2> HIDE DEF old, new, added
  <2>3. Cardinality(new) = Cardinality(old) + Cardinality(added) - Cardinality({})
    BY <2>1, <2>2, <1>10, FS_Union
  <2>4. Cardinality({}) = 0 /\ hi - lo \in Int
    BY <1>4, FS_EmptySet
  <2>5. Cardinality(new) = Cardinality(old) + (hi - lo)
    BY <2>2, <2>3, <2>4, <1>10
  <2> QED BY <2>5, <1>10, <1>11 DEF old, new, lo, hi
<1>12. CASE ~(x # "live" /\ lo < hi)
  <2>1. \A t \in 1..n2 : start < t /\ t <= start + Resolution /\ t > n => longer[t] = "live"
    <3>1. CASE x = "live"
      BY <3>1, <1>7
    <3>2. CASE ~(lo < hi)
      <4>1. \A t \in 1..n2 : ~(start < t /\ t <= start + Resolution /\ t > n)
        BY <3>2, <1>1, <1>2, <1>4
      <4> QED BY <4>1
    <3> QED BY <3>1, <3>2, <1>12
  <2>2. \A t : t \in new <=> t \in old
    <3> TAKE t
    <3> HIDE DEF old, new
    <3>1. t \in 1..n2 <=> t \in 1..n \/ (t \in 1..n2 /\ t > n)
      BY <1>2
    <3> QED BY <2>1, <3>1, <1>5, <1>6, <1>7
  <2>3. new = old
    <3> HIDE DEF old, new
    <3> QED BY <2>2
  <2> HIDE DEF old, new
  <2>4. Cardinality(new) = Cardinality(old) + 0
    BY <2>3, <1>10
  <2> QED BY <2>4, <1>10, <1>12 DEF old, new, lo, hi
<1> QED BY <1>11, <1>12

\* The buckets that time is charged to, and how much.
Touched(w, t) == {i \in IndexAt(ChargeFrom(w, t))..IndexAt(t) : BucketStart(i) < t}

Elapsed(w, t, i) == MinOf(t, BucketStart(i + 1)) - MaxOf(ChargeFrom(w, t), BucketStart(i))

ChargedBucket(w, t, i) ==
    [SlotMut(w.buckets, i) EXCEPT !.untrusted = @ + IF w.trusted THEN 0 ELSE Elapsed(w, t, i)]

LEMMA ChargeFromIs ==
  ASSUME NEW w \in WindowsType, NEW t \in Nat, w.charged < t
  PROVE  /\ ChargeFrom(w, t) \in Nat /\ w.charged <= ChargeFrom(w, t) /\ ChargeFrom(w, t) < t + 1
         /\ IndexAt(w.charged) <= IndexAt(ChargeFrom(w, t))
         /\ IndexAt(t) - Ring < IndexAt(ChargeFrom(w, t))
         /\ ChargeFrom(w, t) = w.charged
            \/ ChargeFrom(w, t) = BucketStart(IndexAt(ChargeFrom(w, t)))
         /\ ChargeFrom(w, t) = w.charged \/ IndexAt(ChargeFrom(w, t)) = IndexAt(t) - Ring + 1
<1>1. w.charged \in Nat /\ IndexAt(w.charged) \in Nat /\ IndexAt(t) \in Nat /\ Ring \in Nat \ {0}
  BY IndexIs, LongestIs DEF WindowsType
<1>2. CASE IndexAt(t) - IndexAt(w.charged) >= Ring
  <2> DEFINE i == IndexAt(t) - Ring + 1
  <2>1. i \in Nat /\ IndexAt(w.charged) < i /\ i <= IndexAt(t)
    BY <1>1, <1>2
  <2>2. ChargeFrom(w, t) = BucketStart(i)
    BY <1>2 DEF ChargeFrom
  <2> HIDE DEF i
  <2>3. BucketStart(i) \in Nat /\ Resolution \in Nat /\ Resolution > 0
    BY <2>1, StartIs
  <2>4. IndexAt(BucketStart(i)) = i
    BY <2>1, <2>3, InBucket
  <2>5. w.charged < BucketStart(i)
    BY <1>1, <2>1, InBucket
  <2>6. ~(t < BucketStart(i))
    <3>1. ~(IndexAt(t) < i)
      BY <1>1, <2>1
    <3> QED BY <3>1, <2>1, InBucket
  <2>7. IndexAt(t) - Ring < i /\ i = IndexAt(t) - Ring + 1
    BY <1>1 DEF i
  <2> QED BY <1>1, <2>1, <2>2, <2>3, <2>4, <2>5, <2>6, <2>7
<1>3. CASE ~(IndexAt(t) - IndexAt(w.charged) >= Ring)
  <2>1. ChargeFrom(w, t) = w.charged
    BY <1>3 DEF ChargeFrom
  <2> QED BY <2>1, <1>1, <1>3
<1> QED BY <1>2, <1>3

LEMMA ChargeIs ==
  ASSUME NEW w \in WindowsType, NEW t \in Nat, w.charged < t
  PROVE  /\ Charge(w, t).charged = t /\ Charge(w, t).trusted = w.trusted
         /\ Charge(w, t) = [buckets |-> Charge(w, t).buckets, charged |-> t, trusted |-> w.trusted]
         /\ Charge(w, t).buckets = [slot \in 0..(Ring - 1) |-> Charge(w, t).buckets[slot]]
         /\ \A i \in Touched(w, t) :
               i \in Nat /\ Charge(w, t).buckets[i % Ring] = ChargedBucket(w, t, i)
         /\ \A slot \in 0..(Ring - 1) :
               (\A i \in Touched(w, t) : i % Ring # slot) => Charge(w, t).buckets[slot] = w.buckets[slot]
<1> DEFINE buckets == [slot \in 0..(Ring - 1) |->
                          IF \E i \in Touched(w, t) : i % Ring = slot
                          THEN ChargedBucket(w, t, CHOOSE i \in Touched(w, t) : i % Ring = slot)
                          ELSE w.buckets[slot]]
<1>1. /\ w = [buckets |-> w.buckets, charged |-> w.charged, trusted |-> w.trusted]
      /\ DOMAIN w.buckets = 0..(Ring - 1) /\ w.charged \in Nat
  BY DEF WindowsType
<1>2. Charge(w, t) = [buckets |-> buckets, charged |-> t, trusted |-> w.trusted]
  <2>1. ~(t <= w.charged)
    BY <1>1
  <2>2. Charge(w, t) = [w EXCEPT !.buckets = buckets, !.charged = t]
    BY <1>1, <2>1 DEF Charge, Touched, ChargedBucket, Elapsed
  <2> HIDE DEF buckets
  <2> QED BY <1>1, <2>2
<1>3. IndexAt(ChargeFrom(w, t)) \in Nat /\ IndexAt(t) \in Nat /\ IndexAt(t) - Ring < IndexAt(ChargeFrom(w, t))
      /\ Ring \in Nat
  BY ChargeFromIs, IndexIs, LongestIs
<1>4. ASSUME NEW i \in Touched(w, t)
      PROVE  i \in Nat /\ i % Ring \in 0..(Ring - 1) /\ buckets[i % Ring] = ChargedBucket(w, t, i)
  <2>1. i \in Nat /\ i <= IndexAt(t) /\ IndexAt(t) - Ring < i
    BY <1>3, <1>4 DEF Touched
  <2>2. i % Ring \in 0..(Ring - 1)
    BY <2>1, SlotIs
  <2>3. \A j \in Touched(w, t) : j % Ring = i % Ring => j = i
    <3> SUFFICES ASSUME NEW j \in Touched(w, t), j % Ring = i % Ring PROVE j = i
      OBVIOUS
    <3>1. j \in Nat /\ j <= IndexAt(t) /\ IndexAt(t) - Ring < j
      BY <1>3 DEF Touched
    <3>2. i - j < Ring /\ j - i < Ring
      BY <2>1, <3>1, <1>3
    <3> QED BY <2>1, <3>1, <3>2, SlotsDiffer
  <2>4. (CHOOSE j \in Touched(w, t) : j % Ring = i % Ring) = i
    BY <2>3, <1>4
  <2> QED BY <2>1, <2>2, <2>4, <1>4
<1>5. \A slot \in 0..(Ring - 1) : (\A i \in Touched(w, t) : i % Ring # slot) => buckets[slot] = w.buckets[slot]
  OBVIOUS
<1>6. buckets = [slot \in 0..(Ring - 1) |-> buckets[slot]]
  OBVIOUS
<1> HIDE DEF buckets
<1>7. Charge(w, t).buckets = buckets
  BY <1>2
<1>8. Charge(w, t).buckets = [slot \in 0..(Ring - 1) |-> Charge(w, t).buckets[slot]]
  BY <1>6, <1>7
<1> QED BY <1>2, <1>4, <1>5, <1>7, <1>8

\* Time that was not trusted is missing from the buckets it fell into.
LEMMA ChargedBucketIs ==
  ASSUME NEW w, NEW b, NEW s, NEW p, RingIs(w, b, s, p), NEW t \in Nat, w.charged < t,
         NEW longer \in Seq(Statuses), NEW x, Grown(b, longer, x), Len(longer) = t,
         w.trusted <=> x = "live", NEW i \in Touched(w, t)
  PROVE  /\ i \in Nat /\ i <= IndexAt(t) /\ IndexAt(t) - Ring < i
         /\ ChargedBucket(w, t, i) \in Buckets
         /\ BucketIs(ChargedBucket(w, t, i), longer, s, p, i)
<1> DEFINE from == ChargeFrom(w, t)
           k == SlotMut(w.buckets, i)
           start == BucketStart(i)
           lo == MaxOf(Len(b), start)
           hi == MinOf(Len(longer), BucketStart(i + 1))
           e == Elapsed(w, t, i)
<1>1. /\ w \in WindowsType /\ w.charged \in Nat /\ b \in Seq(Statuses) /\ Len(b) = w.charged
      /\ Ring \in Nat \ {0} /\ IndexAt(t) \in Nat /\ IndexAt(w.charged) \in Nat
  BY IndexIs, LongestIs DEF RingIs, WindowsType
<1>2. /\ from \in Nat /\ w.charged <= from /\ IndexAt(from) \in Nat
      /\ IndexAt(w.charged) <= IndexAt(from) /\ IndexAt(t) - Ring < IndexAt(from)
      /\ from = w.charged \/ from = BucketStart(IndexAt(from))
  BY <1>1, ChargeFromIs, IndexIs
<1>3. /\ i \in Nat /\ i <= IndexAt(t) /\ IndexAt(from) <= i /\ start < t
  BY <1>1, <1>2 DEF Touched
<1>4. i \in Int
  BY <1>3
<1>5. start \in Nat
  BY <1>3, <1>4, StartIs
<1>6. BucketStart(i + 1) = start + Resolution /\ Resolution \in Nat /\ Resolution > 0
  BY <1>4, StartIs
<1>7. k \in Buckets /\ BucketIs(k, b, s, p, i)
  BY <1>1, <1>2, <1>3, SlotMutIs
<1>8. from < start + Resolution
  <2>1. i + 1 \in Int /\ IndexAt(from) < i + 1
    BY <1>2, <1>3
  <2>2. from < BucketStart(i + 1)
    BY <2>1, <1>2, InBucket
  <2> QED BY <2>2, <1>6
<1>9. MaxOf(from, start) = lo
  <2>1. CASE from = w.charged
    BY <2>1, <1>1
  <2>2. CASE from = BucketStart(IndexAt(from))
    <3>1. from <= start
      <4>1. IndexAt(from) = i \/ IndexAt(from) < i
        BY <1>2, <1>3
      <4>2. CASE IndexAt(from) = i
        BY <4>2, <2>2, <1>5
      <4>3. CASE IndexAt(from) < i
        <5>1. BucketStart(IndexAt(from)) + Resolution <= BucketStart(i)
          BY <4>3, <1>2, <1>4, StartsInOrder
        <5> HIDE DEF from
        <5> QED BY <5>1, <2>2, <1>2, <1>5, <1>6
      <4> QED BY <4>1, <4>2, <4>3
    <3> HIDE DEF from, start
    <3> QED BY <3>1, <1>1, <1>2, <1>5 DEF MaxOf
  <2> QED BY <2>1, <2>2, <1>2
<1>10. lo < hi /\ lo \in Nat /\ hi \in Nat
  <2> HIDE DEF from, start
  <2> QED BY <1>1, <1>2, <1>3, <1>5, <1>6, <1>8, <1>9 DEF MaxOf, MinOf
<1>11. e = hi - lo
  BY <1>9 DEF Elapsed
<1>12. /\ Cardinality(Missing(b, i)) \in Nat
       /\ Cardinality(Missing(longer, i)) \in Nat
       /\ Cardinality(Missing(longer, i)) =
             Cardinality(Missing(b, i)) + (IF x # "live" /\ lo < hi THEN hi - lo ELSE 0)
  <2>1. i \in Nat /\ b \in Seq(Statuses)
    BY <1>1, <1>3
  <2> QED BY ONLY <2>1, longer \in Seq(Statuses), Grown(b, longer, x), MissingGrows
<1>13. ChargedBucket(w, t, i) = [k EXCEPT !.untrusted = @ + IF w.trusted THEN 0 ELSE e]
  BY DEF ChargedBucket
<1> HIDE DEF k, e, lo, hi, from, start
<1>14. k.untrusted + (IF w.trusted THEN 0 ELSE e) = Cardinality(Missing(longer, i))
  BY <1>7, <1>10, <1>11, <1>12 DEF BucketIs
<1> DEFINE c == ChargedBucket(w, t, i)
<1>15. /\ c \in Buckets /\ c.untrusted = Cardinality(Missing(longer, i))
       /\ c.index = k.index /\ c.samples = k.samples /\ c.sum = k.sum /\ c.first = k.first
       /\ c.last = k.last /\ c.high = k.high /\ c.low = k.low /\ c.trades = k.trades
  <2>1. k = [index |-> k.index, samples |-> k.samples, sum |-> k.sum, first |-> k.first,
             last |-> k.last, high |-> k.high, low |-> k.low, trades |-> k.trades,
             untrusted |-> k.untrusted]
    BY <1>7 DEF Buckets
  <2>2. c = [index |-> k.index, samples |-> k.samples, sum |-> k.sum, first |-> k.first,
             last |-> k.last, high |-> k.high, low |-> k.low, trades |-> k.trades,
             untrusted |-> Cardinality(Missing(longer, i))]
    BY <2>1, <1>13, <1>14
  <2> HIDE DEF c
  <2> QED BY <2>2, <1>7, <1>12 DEF Buckets
<1> HIDE DEF c
<1>16. BucketIs(c, longer, s, p, i)
  BY <1>7, <1>15 DEF BucketIs, SamplesAre
<1>17. IndexAt(t) - Ring < i
  BY <1>1, <1>2, <1>3
<1> QED BY <1>3, <1>15, <1>16, <1>17 DEF c

\* What no charge is made to is as it was.
LEMMA UnchargedIs ==
  ASSUME NEW w, NEW b, NEW s, NEW p, RingIs(w, b, s, p), NEW t \in Nat, w.charged < t,
         NEW longer \in Seq(Statuses), NEW x, Grown(b, longer, x), Len(longer) = t,
         NEW i \in 0..IndexAt(t), IndexAt(t) - Ring < i, i \notin Touched(w, t)
  PROVE  SlotIsTrue(Charge(w, t), longer, s, p, i)
<1> DEFINE from == ChargeFrom(w, t)
           slot == i % Ring
           charged == w.charged
<1>1. /\ w \in WindowsType /\ charged \in Nat /\ b \in Seq(Statuses) /\ Len(b) = charged
      /\ Ring \in Nat \ {0} /\ IndexAt(t) \in Nat /\ IndexAt(charged) \in Nat
  BY IndexIs, LongestIs DEF RingIs, WindowsType
<1>2. /\ from \in Nat /\ IndexAt(from) \in Nat
      /\ IndexAt(charged) <= IndexAt(from) /\ IndexAt(t) - Ring < IndexAt(from)
      /\ from = charged \/ IndexAt(from) = IndexAt(t) - Ring + 1
  BY <1>1, ChargeFromIs, IndexIs
<1>3. i \in Nat /\ slot \in 0..(Ring - 1) /\ i \in Int
  BY <1>1, SlotIs
<1>4. BucketStart(i) \in Nat /\ BucketStart(i + 1) = BucketStart(i) + Resolution /\ Resolution \in Nat
  BY <1>3, StartIs
<1>5. \A j \in Touched(w, t) : j % Ring # slot
  <2> SUFFICES ASSUME NEW j \in Touched(w, t), j % Ring = slot PROVE FALSE
    OBVIOUS
  <2>1. j \in Nat /\ j <= IndexAt(t) /\ IndexAt(from) <= j
    BY <1>1, <1>2 DEF Touched
  <2>2. i - j < Ring /\ j - i < Ring
    BY <2>1, <1>1, <1>2, <1>3
  <2>3. i = j
    BY <2>1, <2>2, <1>3, SlotsDiffer
  <2> QED BY <2>3
<1>6. Charge(w, t).buckets[slot] = w.buckets[slot] /\ Charge(w, t).charged = t
  BY <1>1, <1>3, <1>5, ChargeIs, ZenonT(60)
<1> DEFINE k == w.buckets[slot]
<1>7. i < IndexAt(from) \/ t <= BucketStart(i)
  BY <1>1, <1>2, <1>3, <1>4 DEF Touched
<1>8. k.index # NoIndex => k.index <= IndexAt(charged)
  BY <1>3 DEF RingIs
<1> HIDE DEF from, slot, charged
<1>9. CASE i < IndexAt(from)
  <2>1. i < IndexAt(charged) /\ from = charged
    BY <1>1, <1>2, <1>3, <1>9
  <2>2. SlotIsTrue(w, b, s, p, i)
    <3>1. IndexAt(charged) - Ring < i /\ i \in 0..IndexAt(charged)
      <4>1. IndexAt(charged) <= IndexAt(t)
        BY <1>1, IndexGrows DEF charged
      <4> QED BY <4>1, <2>1, <1>1, <1>3
    <3> QED BY <3>1 DEF RingIs, charged
  <2>3. BucketStart(i) + Resolution <= charged
    <3>1. BucketStart(i) + Resolution <= BucketStart(IndexAt(charged))
      BY <2>1, <1>1, <1>3, StartsInOrder
    <3>2. BucketStart(IndexAt(charged)) <= charged /\ BucketStart(IndexAt(charged)) \in Nat
      BY <1>1, IndexIs, StartIs
    <3> QED BY <3>1, <3>2, <1>1, <1>4
  <2>4. k.index = i
    <3>1. ~(charged <= BucketStart(i))
      <4>1. Resolution > 0
        BY <1>3, StartIs
      <4> QED BY <4>1, <2>3, <1>1, <1>4
    <3> QED BY <3>1, <2>2 DEF SlotIsTrue, slot, charged
  <2>5. BucketIs(k, b, s, p, i)
    BY <2>2, <2>4 DEF SlotIsTrue, slot
  <2> DEFINE lo == MaxOf(Len(b), BucketStart(i))
             hi == MinOf(Len(longer), BucketStart(i + 1))
  <2>6. ~(lo < hi)
    BY <1>1, <1>4, <2>3 DEF MaxOf, MinOf
  <2>7. Cardinality(Missing(longer, i)) = Cardinality(Missing(b, i))
    <3>1. i \in Nat /\ b \in Seq(Statuses)
      BY <1>1, <1>3
    <3>2. /\ Cardinality(Missing(b, i)) \in Nat
          /\ Cardinality(Missing(longer, i)) =
                Cardinality(Missing(b, i)) + (IF x # "live" /\ lo < hi THEN hi - lo ELSE 0)
      BY ONLY <3>1, longer \in Seq(Statuses), Grown(b, longer, x), MissingGrows
    <3> HIDE DEF lo, hi
    <3> QED BY <3>2, <2>6
  <2>8. BucketIs(k, longer, s, p, i)
    BY <2>5, <2>7 DEF BucketIs
  <2> QED BY <2>4, <2>8, <1>6 DEF SlotIsTrue, slot
<1>10. CASE t <= BucketStart(i)
  <2>1. IndexAt(charged) < i
    <3>1. charged < BucketStart(i)
      BY <1>1, <1>4, <1>10 DEF charged
    <3> QED BY <3>1, <1>1, <1>3, InBucket
  <2>2. k.index # i
    BY <2>1, <1>1, <1>3, <1>8 DEF NoIndex
  <2>3. SamplesIn(s, i) = {} /\ PrintsIn(p, i) = {}
    BY <2>1, <1>3, NothingLater DEF charged
  <2> QED BY <2>2, <2>3, <1>6, <1>10 DEF SlotIsTrue, slot
<1> QED BY <1>7, <1>9, <1>10

LEMMA ChargeKeeps ==
  ASSUME NEW w, NEW b, NEW s, NEW p, RingIs(w, b, s, p), NEW t \in Nat,
         NEW longer \in Seq(Statuses), NEW x, Grown(b, longer, x), Len(longer) = MaxOf(Len(b), t),
         w.trusted <=> x = "live"
  PROVE  /\ RingIs(Charge(w, t), longer, s, p)
         /\ Charge(w, t).charged = MaxOf(w.charged, t) /\ Charge(w, t).trusted = w.trusted
<1>1. /\ w \in WindowsType /\ w.charged \in Nat /\ w.trusted \in BOOLEAN
      /\ b \in Seq(Statuses) /\ Len(b) = w.charged
      /\ s \in Seq(Samples) /\ p \in Seq(Nat)
      /\ w.buckets \in [0..(Ring - 1) -> Buckets]
  BY DEF RingIs, WindowsType
<1>2. CASE t <= w.charged
  <2>1. Len(longer) = Len(b)
    BY <1>1, <1>2 DEF MaxOf
  <2>2. longer = b
    <3>1. DOMAIN longer = 1..Len(b) /\ DOMAIN b = 1..Len(b)
      BY <1>1, <2>1
    <3>2. \A i \in 1..Len(b) : longer[i] = b[i]
      BY DEF Grown
    <3>3. longer = [i \in 1..Len(b) |-> longer[i]] /\ b = [i \in 1..Len(b) |-> b[i]]
      BY <1>1, <3>1
    <3> QED BY <3>2, <3>3
  <2>3. Charge(w, t) = w
    BY <1>2 DEF Charge
  <2>4. MaxOf(w.charged, t) = w.charged
    BY <1>1, <1>2 DEF MaxOf
  <2> QED BY <2>2, <2>3, <2>4
<1>3. CASE w.charged < t
  <2> DEFINE c == Charge(w, t)
  <2>1. Len(longer) = t /\ MaxOf(w.charged, t) = t
    BY <1>1, <1>3 DEF MaxOf
  <2>2. /\ c.charged = t /\ c.trusted = w.trusted
        /\ c = [buckets |-> c.buckets, charged |-> t, trusted |-> w.trusted]
        /\ c.buckets = [slot \in 0..(Ring - 1) |-> c.buckets[slot]]
        /\ \A i \in Touched(w, t) : i \in Nat /\ c.buckets[i % Ring] = ChargedBucket(w, t, i)
        /\ \A slot \in 0..(Ring - 1) :
              (\A i \in Touched(w, t) : i % Ring # slot) => c.buckets[slot] = w.buckets[slot]
    BY <1>1, <1>3, ChargeIs
  <2>3. \A i \in Touched(w, t) :
           /\ i \in Nat /\ i <= IndexAt(t) /\ IndexAt(t) - Ring < i
           /\ ChargedBucket(w, t, i) \in Buckets
           /\ BucketIs(ChargedBucket(w, t, i), longer, s, p, i)
    BY <1>3, <2>1, ChargedBucketIs
  <2>4. \A i \in Nat : Cardinality(Missing(longer, i)) <= Resolution
    <3> SUFFICES ASSUME NEW i \in Nat PROVE Cardinality(Missing(longer, i)) <= Resolution
      OBVIOUS
    <3>1. i \in Nat /\ b \in Seq(Statuses)
      BY <1>1
    <3> QED BY ONLY <3>1, longer \in Seq(Statuses), Grown(b, longer, x), MissingGrows
  <2>5. IndexAt(w.charged) <= IndexAt(t) /\ IndexAt(w.charged) \in Nat /\ IndexAt(t) \in Nat
    <3>1. w.charged <= t /\ w.charged \in Nat
      BY <1>1, <1>3
    <3> QED BY <3>1, IndexGrows, IndexIs
  <2> HIDE DEF c
  <2>6. \A slot \in 0..(Ring - 1) :
           /\ c.buckets[slot] \in Buckets
           /\ c.buckets[slot].untrusted <= Resolution
           /\ c.buckets[slot].index # NoIndex =>
                 c.buckets[slot].index <= IndexAt(t) /\ c.buckets[slot].index % Ring = slot
    <3> TAKE slot \in 0..(Ring - 1)
    <3>1. CASE \E i \in Touched(w, t) : i % Ring = slot
      <4>1. PICK i \in Touched(w, t) : i % Ring = slot
        BY <3>1
      <4>2. c.buckets[slot] = ChargedBucket(w, t, i)
        BY <2>2, <4>1
      <4>3. /\ i \in Nat /\ i <= IndexAt(t)
            /\ ChargedBucket(w, t, i) \in Buckets
            /\ BucketIs(ChargedBucket(w, t, i), longer, s, p, i)
        BY <2>3
      <4>4. ChargedBucket(w, t, i).index = i /\ ChargedBucket(w, t, i).untrusted <= Resolution
        BY <4>3, <2>4 DEF BucketIs
      <4> QED BY <4>1, <4>2, <4>3, <4>4
    <3>2. CASE \A i \in Touched(w, t) : i % Ring # slot
      <4>1. c.buckets[slot] = w.buckets[slot] /\ w.buckets[slot] \in Buckets
        BY <2>2, <3>2, <1>1
      <4>2. /\ w.buckets[slot].untrusted <= Resolution
            /\ w.buckets[slot].index # NoIndex =>
                  w.buckets[slot].index <= IndexAt(w.charged) /\ w.buckets[slot].index % Ring = slot
        BY DEF RingIs
      <4>3. w.buckets[slot].index \in {NoIndex} \union Nat
        BY <4>1 DEF Buckets
      <4> QED BY <4>1, <4>2, <4>3, <2>5
    <3> QED BY <3>1, <3>2
  <2>7. \A i \in 0..IndexAt(t) : IndexAt(t) - Ring < i => SlotIsTrue(c, longer, s, p, i)
    <3> SUFFICES ASSUME NEW i \in 0..IndexAt(t), IndexAt(t) - Ring < i
                 PROVE  SlotIsTrue(c, longer, s, p, i)
      OBVIOUS
    <3>1. CASE i \in Touched(w, t)
      <4>1. c.buckets[i % Ring] = ChargedBucket(w, t, i)
        BY <2>2, <3>1
      <4>2. BucketIs(ChargedBucket(w, t, i), longer, s, p, i)
        BY <2>3, <3>1
      <4> QED BY <4>1, <4>2 DEF SlotIsTrue, BucketIs
    <3>2. CASE i \notin Touched(w, t)
      BY <1>3, <2>1, <3>2, UnchargedIs DEF c
    <3> QED BY <3>1, <3>2
  <2>8. c \in WindowsType
    <3>1. c.buckets \in [0..(Ring - 1) -> Buckets]
      BY <2>2, <2>6
    <3> QED BY <3>1, <2>2, <1>1 DEF WindowsType
  <2>9. /\ \A j \in DOMAIN s : s[j].at <= t
        /\ \A n \in DOMAIN p : p[n] <= t
    <3>1. \A j \in DOMAIN s : s[j].at \in Nat /\ s[j].at <= w.charged
      BY StampsAre DEF RingIs
    <3>2. \A n \in DOMAIN p : p[n] \in Nat /\ p[n] <= w.charged
      BY StampsAre DEF RingIs
    <3> QED BY <3>1, <3>2, <1>1, <1>3
  <2>10. RingIs(c, longer, s, p)
    BY <1>1, <2>1, <2>2, <2>6, <2>7, <2>8, <2>9 DEF RingIs
  <2> QED BY <2>1, <2>2, <2>10 DEF c
<1> QED BY <1>1, <1>2, <1>3

-------------------------------------------------------------------------------
(* Recording.                                                                *)

LEMMA MissingIs ==
  ASSUME NEW b \in Seq(Statuses), NEW i \in Nat
  PROVE  Cardinality(Missing(b, i)) \in Nat /\ Cardinality(Missing(b, i)) <= Resolution
<1>1. Grown(b, b, "live")
  <2>1. Len(b) \in Nat
    OBVIOUS
  <2> QED BY <2>1 DEF Grown
<1>2. i \in Nat /\ b \in Seq(Statuses)
  OBVIOUS
<1> QED BY ONLY <1>1, <1>2, MissingGrows

\* What is stamped in another bucket is none of this one's.
LEMMA SampledElsewhere ==
  ASSUME NEW s \in Seq(Samples), NEW x \in Samples, NEW i \in Nat, IndexAt(x.at) # i
  PROVE  /\ SamplesIn(Append(s, x), i) = SamplesIn(s, i)
         /\ \A k : SamplesAre(k, s, i) => SamplesAre(k, Append(s, x), i)
<1> DEFINE l == Len(s)
           s2 == Append(s, x)
<1>1. /\ l \in Nat /\ s2 \in Seq(Samples) /\ DOMAIN s = 1..l /\ DOMAIN s2 = 1..(l + 1) /\ Len(s2) = l + 1
      /\ s2[l + 1] = x /\ \A j \in 1..l : s2[j] = s[j]
  OBVIOUS
<1> HIDE DEF l, s2
<1>2. SamplesIn(s2, i) = SamplesIn(s, i)
  <2>1. \A j \in 1..(l + 1) : j = l + 1 \/ j \in 1..l
    BY <1>1
  <2>2. \A j \in 1..l : j \in 1..(l + 1)
    BY <1>1
  <2> QED BY <2>1, <2>2, <1>1 DEF SamplesIn
<1>3. \A j \in SamplesIn(s, i) : s2[j] = s[j]
  BY <1>1 DEF SamplesIn
<1>4. History!SumTo(MidsIn(s2, i), Len(s2)) = History!SumTo(MidsIn(s, i), Len(s))
  <2> DEFINE f == MidsIn(s, i)
             f2 == MidsIn(s2, i)
  <2>1. \A j \in 1..l : f[j] \in Nat /\ f2[j] = f[j]
    <3> TAKE j \in 1..l
    <3>1. s[j] \in Samples /\ j \in 1..(l + 1)
      BY <1>1
    <3> QED BY <3>1, <1>1 DEF MidsIn, Samples, l
  <2>2. f2[l + 1] = 0
    <3>1. l + 1 \in 1..Len(s2)
      BY <1>1
    <3> QED BY <3>1, <1>1 DEF MidsIn
  <2> HIDE DEF f, f2
  <2>3. \A j \in 1..(l + 1) : f2[j] \in Nat
    BY <2>1, <2>2, <1>1
  <2>4. History!SumTo(f2, l) = History!SumTo(f, l)
    BY <2>1, <1>1, SumToSame
  <2>5. History!SumTo(f2, l + 1) = History!SumTo(f2, l) + f2[l + 1] /\ History!SumTo(f2, l) \in Nat
    BY <2>3, <1>1, SumToStep
  <2>6. History!SumTo(f2, l + 1) = History!SumTo(f, l)
    BY <2>2, <2>4, <2>5
  <2> QED BY <2>6, <1>1 DEF f, f2, l
<1>5. ASSUME NEW k, SamplesAre(k, s, i) PROVE SamplesAre(k, s2, i)
  BY <1>2, <1>3, <1>4, <1>5 DEF SamplesAre
<1> QED BY <1>2, <1>5 DEF s2

LEMMA PrintedElsewhere ==
  ASSUME NEW p \in Seq(Nat), NEW t \in Nat, NEW i \in Nat, IndexAt(t) # i
  PROVE  PrintsIn(Append(p, t), i) = PrintsIn(p, i)
<1> DEFINE l == Len(p)
           p2 == Append(p, t)
<1>1. /\ l \in Nat /\ DOMAIN p = 1..l /\ DOMAIN p2 = 1..(l + 1)
      /\ p2[l + 1] = t /\ \A j \in 1..l : p2[j] = p[j]
  OBVIOUS
<1> HIDE DEF l, p2
<1>2. \A j \in 1..(l + 1) : j = l + 1 \/ j \in 1..l
  BY <1>1
<1>3. \A j \in 1..l : j \in 1..(l + 1)
  BY <1>1
<1>4. PrintsIn(p2, i) = PrintsIn(p, i)
  BY <1>1, <1>2, <1>3 DEF PrintsIn
<1> QED BY <1>4 DEF p2

LEMMA PrintedHere ==
  ASSUME NEW p \in Seq(Nat), NEW t \in Nat
  PROVE  Cardinality(PrintsIn(Append(p, t), IndexAt(t))) = Cardinality(PrintsIn(p, IndexAt(t))) + 1
<1> DEFINE l == Len(p)
           p2 == Append(p, t)
           i == IndexAt(t)
           old == PrintsIn(p, i)
           new == PrintsIn(p2, i)
<1>1. /\ l \in Nat /\ DOMAIN p = 1..l /\ DOMAIN p2 = 1..(l + 1)
      /\ p2[l + 1] = t /\ \A j \in 1..l : p2[j] = p[j]
  OBVIOUS
<1> HIDE DEF l, p2
<1>2. \A j \in 1..(l + 1) : j = l + 1 \/ j \in 1..l
  BY <1>1
<1>3. \A j \in 1..l : j \in 1..(l + 1) /\ j # l + 1
  BY <1>1
<1>4. l + 1 \in 1..(l + 1)
  BY <1>1
<1>5. new = old \union {l + 1} /\ l + 1 \notin old
  BY <1>1, <1>2, <1>3, <1>4 DEF PrintsIn
<1>6. IsFiniteSet(old)
  <2>1. old \subseteq 1..l /\ IsFiniteSet(1..l)
    BY <1>1, FS_Interval DEF PrintsIn
  <2> HIDE DEF old
  <2> QED BY <2>1, FS_Subset
<1> HIDE DEF old, new
<1>7. Cardinality(new) = Cardinality(old) + 1
  BY <1>5, <1>6, FS_AddElement
<1> QED BY <1>7 DEF old, new, p2, i

LEMMA SamplesInIs ==
  ASSUME NEW s \in Seq(Samples), NEW i
  PROVE  IsFiniteSet(SamplesIn(s, i)) /\ Cardinality(SamplesIn(s, i)) \in Nat
<1>1. SamplesIn(s, i) \subseteq 1..Len(s) /\ Len(s) \in Nat
  BY DEF SamplesIn
<1>2. IsFiniteSet(1..Len(s))
  BY <1>1, FS_Interval
<1>3. IsFiniteSet(SamplesIn(s, i))
  BY <1>1, <1>2, FS_Subset
<1> QED BY <1>3, FS_CardinalityType

LEMMA RecordTradeIs ==
  ASSUME NEW k \in Buckets
  PROVE  RecordTrade(k) =
            [index |-> k.index, samples |-> k.samples, sum |-> k.sum, first |-> k.first,
             last |-> k.last, high |-> k.high, low |-> k.low, trades |-> k.trades + 1,
             untrusted |-> k.untrusted]
BY DEF RecordTrade, Buckets

LEMMA RecordIs ==
  ASSUME NEW k \in Buckets, NEW mid \in Nat \ {NoPrice}
  PROVE  LET r == Record(k, mid) IN
         /\ r \in Buckets
         /\ r.index = k.index /\ r.trades = k.trades /\ r.untrusted = k.untrusted
         /\ r.samples = k.samples + 1 /\ r.sum = k.sum + mid
         /\ r.first = (IF k.first = NoPrice THEN mid ELSE k.first)
         /\ r.last = mid
         /\ r.high = MaxOf(k.high, mid)
         /\ r.low = (IF k.low = NoPrice THEN mid ELSE MinOf(k.low, mid))
<1> DEFINE r == Record(k, mid)
           first == IF k.first = NoPrice THEN mid ELSE k.first
           high == MaxOf(k.high, mid)
           low == IF k.low = NoPrice THEN mid ELSE MinOf(k.low, mid)
<1>1. /\ k = [index |-> k.index, samples |-> k.samples, sum |-> k.sum, first |-> k.first,
              last |-> k.last, high |-> k.high, low |-> k.low, trades |-> k.trades,
              untrusted |-> k.untrusted]
      /\ k.index \in {NoIndex} \union Nat /\ k.samples \in Nat /\ k.sum \in Nat /\ k.first \in Nat
      /\ k.last \in Nat /\ k.high \in Nat /\ k.low \in Nat /\ k.trades \in Nat /\ k.untrusted \in Nat
  BY DEF Buckets
<1>2. first \in Nat /\ high \in Nat /\ low \in Nat /\ mid \in Nat
  BY <1>1 DEF MaxOf, MinOf
<1>3. r = [k EXCEPT !.samples = k.samples + 1, !.sum = k.sum + mid, !.first = first, !.last = mid,
                    !.high = high, !.low = low]
  BY <1>1 DEF Record
<1> HIDE DEF r, first, high, low
<1>4. r = [index |-> k.index, samples |-> k.samples + 1, sum |-> k.sum + mid, first |-> first,
           last |-> mid, high |-> high, low |-> low, trades |-> k.trades, untrusted |-> k.untrusted]
  BY <1>1, <1>3
<1>5. r \in Buckets
  BY <1>1, <1>2, <1>4 DEF Buckets
<1> QED BY <1>4, <1>5 DEF r, first, high, low

LEMMA SampledHere ==
  ASSUME NEW s \in Seq(Samples), NEW x \in Samples, NEW k \in Buckets, SamplesAre(k, s, IndexAt(x.at))
  PROVE  SamplesAre(Record(k, x.mid), Append(s, x), IndexAt(x.at))
<1> DEFINE l == Len(s)
           s2 == Append(s, x)
           i == IndexAt(x.at)
           old == SamplesIn(s, i)
           new == SamplesIn(s2, i)
           r == Record(k, x.mid)
           mid == x.mid
<1>1. /\ l \in Nat /\ s2 \in Seq(Samples) /\ DOMAIN s = 1..l /\ DOMAIN s2 = 1..(l + 1) /\ Len(s2) = l + 1
      /\ s2[l + 1] = x /\ \A j \in 1..l : s2[j] = s[j]
  OBVIOUS
<1>2. /\ x.at \in Nat /\ mid \in Nat \ {NoPrice} /\ i \in Nat
      /\ \A j \in 1..l : s[j] \in Samples /\ s[j].mid \in Nat \ {NoPrice} /\ s[j].at \in Nat
  <2>1. \A y \in Samples : y.at \in Nat /\ y.mid \in Nat \ {NoPrice}
    BY DEF Samples
  <2>2. \A j \in 1..l : s[j] \in Samples
    BY <1>1
  <2>3. i \in Nat
    BY <2>1, IndexIs
  <2> QED BY <2>1, <2>2, <2>3
<1>3. /\ r.samples = k.samples + 1 /\ r.sum = k.sum + mid
      /\ r.first = (IF k.first = NoPrice THEN mid ELSE k.first) /\ r.last = mid
      /\ r.high = MaxOf(k.high, mid)
      /\ r.low = (IF k.low = NoPrice THEN mid ELSE MinOf(k.low, mid))
  BY <1>2, RecordIs
<1> HIDE DEF l, s2, r, mid
<1>4. \A j \in 1..(l + 1) : j = l + 1 \/ j \in 1..l
  BY <1>1
<1>5. \A j \in 1..l : j \in 1..(l + 1) /\ j # l + 1 /\ j <= l + 1
  BY <1>1
<1>6. l + 1 \in 1..(l + 1)
  BY <1>1
<1>7. new = old \union {l + 1} /\ l + 1 \notin old /\ old \subseteq 1..l
  BY <1>1, <1>4, <1>5, <1>6 DEF SamplesIn
<1>8. Cardinality(new) = Cardinality(old) + 1
  <2>1. IsFiniteSet(old)
    BY SamplesInIs
  <2> HIDE DEF old, new
  <2> QED BY <2>1, <1>7, FS_AddElement
<1>9. History!SumTo(MidsIn(s2, i), Len(s2)) = History!SumTo(MidsIn(s, i), Len(s)) + mid
  <2> DEFINE f == MidsIn(s, i)
             f2 == MidsIn(s2, i)
  <2>1. \A j \in 1..l : f[j] \in Nat /\ f2[j] = f[j]
    <3> TAKE j \in 1..l
    <3> QED BY <1>1, <1>2, <1>5 DEF MidsIn, l
  <2>2. f2[l + 1] = mid
    <3>1. l + 1 \in 1..Len(s2)
      BY <1>1
    <3> QED BY <3>1, <1>1 DEF MidsIn, mid
  <2> HIDE DEF f, f2
  <2>3. \A j \in 1..(l + 1) : f2[j] \in Nat
    BY <2>1, <2>2, <1>2, <1>4
  <2>4. History!SumTo(f2, l) = History!SumTo(f, l)
    BY <2>1, <1>1, SumToSame
  <2>5. History!SumTo(f2, l + 1) = History!SumTo(f2, l) + f2[l + 1] /\ History!SumTo(f2, l) \in Nat
    BY <2>3, <1>1, SumToStep
  <2>6. History!SumTo(f2, l + 1) = History!SumTo(f, l) + mid
    BY <2>2, <2>4, <2>5
  <2> QED BY <2>6, <1>1 DEF f, f2, l
<1>10. \A j \in old : j \in 1..l /\ j \in Nat /\ j <= l + 1 /\ s2[j] = s[j] /\ s[j].mid \in Nat \ {NoPrice}
  BY <1>1, <1>2, <1>7
<1>11. /\ k.samples = Cardinality(old) /\ k.sum = History!SumTo(MidsIn(s, i), Len(s))
       /\ old = {} => k.first = NoPrice /\ k.last = NoPrice /\ k.high = NoPrice /\ k.low = NoPrice
       /\ old # {} =>
             /\ \E j \in old : k.first = s[j].mid /\ \A n \in old : j <= n
             /\ \E j \in old : k.last = s[j].mid /\ \A n \in old : n <= j
             /\ \E j \in old : k.high = s[j].mid
             /\ \E j \in old : k.low = s[j].mid
             /\ \A n \in old : k.low <= s[n].mid /\ s[n].mid <= k.high
  BY DEF SamplesAre
<1>12. \A n \in new : n = l + 1 \/ n \in old
  BY <1>7
<1>13. l + 1 \in new /\ \A n \in old : n \in new
  BY <1>7
<1>14. \A n \in new : n \in Nat /\ n <= l + 1
  BY <1>1, <1>10, <1>12
<1>15. new # {}
  BY <1>13
<1>16. s2[l + 1].mid = mid
  BY <1>1 DEF mid
<1> HIDE DEF old, new, i
<1>17. \E j \in new : r.first = s2[j].mid /\ \A n \in new : j <= n
  <2>1. CASE old = {}
    <3>1. \A n \in new : n = l + 1
      BY <1>12, <2>1
    <3>2. r.first = s2[l + 1].mid
      BY <1>3, <1>11, <1>16, <2>1
    <3> QED BY <3>1, <3>2, <1>1, <1>13
  <2>2. CASE old # {}
    <3>1. PICK j \in old : k.first = s[j].mid /\ \A n \in old : j <= n
      BY <1>11, <2>2
    <3>2. r.first = s2[j].mid
      BY <3>1, <1>3, <1>10
    <3>3. \A n \in new : j <= n
      BY <3>1, <1>10, <1>12
    <3> QED BY <3>2, <3>3, <1>13
  <2> QED BY <2>1, <2>2
<1>18. \E j \in new : r.last = s2[j].mid /\ \A n \in new : n <= j
  BY <1>3, <1>13, <1>14, <1>16
<1>19. \E j \in new : r.high = s2[j].mid
  <2>1. CASE r.high = mid
    BY <2>1, <1>13, <1>16
  <2>2. CASE r.high # mid
    <3>1. r.high = k.high /\ k.high # NoPrice
      BY <2>2, <1>2, <1>3 DEF MaxOf, NoPrice
    <3>2. PICK j \in old : k.high = s[j].mid
      BY <3>1, <1>11
    <3> QED BY <3>1, <3>2, <1>10, <1>13
  <2> QED BY <2>1, <2>2
<1>20. \E j \in new : r.low = s2[j].mid
  <2>1. CASE r.low = mid
    BY <2>1, <1>13, <1>16
  <2>2. CASE r.low # mid
    <3>1. r.low = k.low /\ k.low # NoPrice
      BY <2>2, <1>2, <1>3 DEF MinOf, NoPrice
    <3>2. PICK j \in old : k.low = s[j].mid
      BY <3>1, <1>11
    <3> QED BY <3>1, <3>2, <1>10, <1>13
  <2> QED BY <2>1, <2>2
<1>21. \A n \in new : r.low <= s2[n].mid /\ s2[n].mid <= r.high
  <2>0. k.high \in Nat /\ k.low \in Nat
    BY DEF Buckets
  <2>1. r.low <= mid /\ mid <= r.high
    BY <2>0, <1>2, <1>3 DEF MaxOf, MinOf
  <2>2. ASSUME NEW n \in old PROVE r.low <= s2[n].mid /\ s2[n].mid <= r.high
    <3>1. k.low <= s[n].mid /\ s[n].mid <= k.high /\ s2[n] = s[n] /\ s[n].mid \in Nat
      BY <1>10, <1>11
    <3>2. k.low # NoPrice
      <4>1. PICK j \in old : k.low = s[j].mid
        BY <1>11
      <4> QED BY <4>1, <1>10
    <3> QED BY <3>1, <3>2, <2>0, <1>2, <1>3 DEF MaxOf, MinOf
  <2> QED BY <2>1, <2>2, <1>12, <1>16
<1>22. r.samples = Cardinality(new) /\ r.sum = History!SumTo(MidsIn(s2, i), Len(s2))
  BY <1>3, <1>8, <1>9, <1>11
<1>23. SamplesAre(r, s2, i)
  BY <1>15, <1>17, <1>18, <1>19, <1>20, <1>21, <1>22 DEF SamplesAre, new
<1> QED BY <1>23 DEF r, s2, i, mid

\* A bucket written to.
Written(w, i, k) == [w EXCEPT !.buckets[i % Ring] = k]

LEMMA WriteKeeps ==
  ASSUME NEW w, NEW b, NEW s, NEW p, RingIs(w, b, s, p), NEW at \in Nat, at <= w.charged,
         IndexAt(w.charged) - IndexAt(at) < Ring,
         NEW k \in Buckets, NEW s2 \in Seq(Samples), NEW p2 \in Seq(Nat),
         BucketIs(k, b, s2, p2, IndexAt(at)),
         \A j \in DOMAIN s2 : s2[j].at <= w.charged, \A n \in DOMAIN p2 : p2[n] <= w.charged,
         \A i \in Nat : i # IndexAt(at) =>
            /\ SamplesIn(s2, i) = SamplesIn(s, i) /\ PrintsIn(p2, i) = PrintsIn(p, i)
            /\ \A q : SamplesAre(q, s, i) => SamplesAre(q, s2, i)
  PROVE  /\ RingIs(Written(w, IndexAt(at), k), b, s2, p2)
         /\ Written(w, IndexAt(at), k) =
               [buckets |-> [w.buckets EXCEPT ![IndexAt(at) % Ring] = k],
                charged |-> w.charged, trusted |-> w.trusted]
<1> DEFINE i0 == IndexAt(at)
           slot0 == i0 % Ring
           c == Written(w, i0, k)
           top == IndexAt(w.charged)
<1>1. /\ w = [buckets |-> w.buckets, charged |-> w.charged, trusted |-> w.trusted]
      /\ w.buckets \in [0..(Ring - 1) -> Buckets] /\ w.charged \in Nat /\ w.trusted \in BOOLEAN
      /\ b \in Seq(Statuses) /\ Len(b) = w.charged
  BY DEF RingIs, WindowsType
<1>2. i0 \in Nat /\ slot0 \in 0..(Ring - 1) /\ top \in Nat /\ Ring \in Nat \ {0}
  BY <1>1, IndexIs, SlotIs, LongestIs
<1>3. i0 <= top
  BY <1>1, IndexGrows
<1>4. c = [buckets |-> [w.buckets EXCEPT ![slot0] = k], charged |-> w.charged, trusted |-> w.trusted]
  <2>1. c = [w EXCEPT !.buckets = [w.buckets EXCEPT ![slot0] = k]]
    <3> HIDE DEF slot0
    <3> QED BY <1>1 DEF Written, slot0
  <2> HIDE DEF c, slot0
  <2> QED BY <1>1, <2>1
<1> HIDE DEF i0, slot0, c, top
<1>5. c.buckets = [w.buckets EXCEPT ![slot0] = k] /\ c.charged = w.charged /\ c \in WindowsType
  BY <1>1, <1>2, <1>4 DEF WindowsType
<1>6. c.buckets[slot0] = k /\ \A slot \in 0..(Ring - 1) : slot # slot0 => c.buckets[slot] = w.buckets[slot]
  BY <1>1, <1>2, <1>5
<1>7. k.untrusted <= Resolution /\ k.index = i0
  <2>1. k.untrusted = Cardinality(Missing(b, i0)) /\ k.index = i0
    BY DEF BucketIs, i0
  <2> QED BY <2>1, <1>1, <1>2, MissingIs
<1>8. \A slot \in 0..(Ring - 1) :
         /\ c.buckets[slot].untrusted <= Resolution
         /\ c.buckets[slot].index # NoIndex =>
               c.buckets[slot].index <= top /\ c.buckets[slot].index % Ring = slot
  <2> TAKE slot \in 0..(Ring - 1)
  <2>1. CASE slot = slot0
    BY <2>1, <1>3, <1>6, <1>7 DEF slot0
  <2>2. CASE slot # slot0
    BY <2>2, <1>6 DEF RingIs, top
  <2> QED BY <2>1, <2>2
<1>9. \A i \in 0..top : top - Ring < i => SlotIsTrue(c, b, s2, p2, i)
  <2> SUFFICES ASSUME NEW i \in 0..top, top - Ring < i PROVE SlotIsTrue(c, b, s2, p2, i)
    OBVIOUS
  <2>1. CASE i = i0
    BY <2>1, <1>6, <1>7 DEF SlotIsTrue, slot0, i0
  <2>2. CASE i # i0
    <3>1. i \in Nat /\ i % Ring \in 0..(Ring - 1)
      <4>1. i \in Nat
        BY <1>2
      <4> QED BY <4>1, SlotIs
    <3>2. i % Ring # slot0
      <4>1. i - i0 < Ring /\ i0 - i < Ring
        BY <1>2, <1>3, <3>1 DEF top, i0
      <4>2. i % Ring = i0 % Ring => i = i0
        BY <4>1, <3>1, <1>2, SlotsDiffer
      <4> QED BY <4>2, <2>2 DEF slot0
    <3>3. c.buckets[i % Ring] = w.buckets[i % Ring]
      BY <1>6, <3>1, <3>2
    <3>4. SlotIsTrue(w, b, s, p, i)
      BY DEF RingIs, top
    <3>5. /\ SamplesIn(s2, i) = SamplesIn(s, i) /\ PrintsIn(p2, i) = PrintsIn(p, i)
          /\ \A q : SamplesAre(q, s, i) => SamplesAre(q, s2, i)
      BY <2>2, <3>1 DEF i0
    <3>6. CASE w.buckets[i % Ring].index = i
      <4>1. BucketIs(w.buckets[i % Ring], b, s, p, i)
        BY <3>4, <3>6 DEF SlotIsTrue
      <4>2. BucketIs(w.buckets[i % Ring], b, s2, p2, i)
        BY <4>1, <3>5 DEF BucketIs
      <4> QED BY <4>2, <3>3, <3>6 DEF SlotIsTrue
    <3>7. CASE w.buckets[i % Ring].index # i
      BY <3>3, <3>4, <3>5, <3>7, <1>5 DEF SlotIsTrue
    <3> QED BY <3>6, <3>7
  <2> QED BY <2>1, <2>2
<1>10. RingIs(c, b, s2, p2)
  BY <1>1, <1>5, <1>8, <1>9 DEF RingIs, top
<1> QED BY <1>4, <1>10 DEF c, i0, slot0

LEMMA TrustKeeps ==
  ASSUME NEW w, NEW b, NEW s, NEW p, RingIs(w, b, s, p), NEW holds \in BOOLEAN
  PROVE  /\ RingIs([w EXCEPT !.trusted = holds], b, s, p)
         /\ [w EXCEPT !.trusted = holds] = [buckets |-> w.buckets, charged |-> w.charged, trusted |-> holds]
<1> DEFINE c == [w EXCEPT !.trusted = holds]
<1>1. /\ w = [buckets |-> w.buckets, charged |-> w.charged, trusted |-> w.trusted]
      /\ w.buckets \in [0..(Ring - 1) -> Buckets] /\ w.charged \in Nat
  BY DEF RingIs, WindowsType
<1>2. c = [buckets |-> w.buckets, charged |-> w.charged, trusted |-> holds]
  BY <1>1
<1>3. c \in WindowsType /\ c.buckets = w.buckets /\ c.charged = w.charged
  BY <1>1, <1>2 DEF WindowsType
<1> HIDE DEF c
<1>4. RingIs(c, b, s, p)
  BY <1>3 DEF RingIs, SlotIsTrue
<1> QED BY <1>2, <1>4 DEF c

\* A print is counted in the bucket of its stamp.
LEMMA TradeKeeps ==
  ASSUME NEW w, NEW b, NEW s, NEW p, RingIs(w, b, s, p), NEW at \in Nat,
         NEW longer \in Seq(Statuses), NEW x, Grown(b, longer, x), Len(longer) = MaxOf(Len(b), at),
         w.trusted <=> x = "live", IndexAt(Len(longer)) - IndexAt(at) < Ring
  PROVE  /\ RingIs(ObserveTrade(w, at), longer, s, Append(p, at))
         /\ ObserveTrade(w, at).trusted = w.trusted
<1> DEFINE c == Charge(w, at)
           i == IndexAt(at)
           k == SlotMut(c.buckets, i)
           r == RecordTrade(k)
           p2 == Append(p, at)
<1>1. RingIs(c, longer, s, p) /\ c.trusted = w.trusted
  BY ChargeKeeps
<1> HIDE DEF c
<1>2. c \in WindowsType /\ c.charged \in Nat /\ Len(longer) = c.charged /\ p \in Seq(Nat) /\ s \in Seq(Samples)
  BY <1>1 DEF RingIs, WindowsType
<1>3. at <= c.charged
  <2>1. Len(b) \in Nat
    BY DEF RingIs
  <2> QED BY <1>2, <2>1 DEF MaxOf
<1>4. i \in Nat /\ Ring \in Nat \ {0} /\ IndexAt(c.charged) \in Nat
  BY <1>2, IndexIs, LongestIs
<1>5. IndexAt(c.charged) - Ring < i
  BY <1>2, <1>4
<1> HIDE DEF i
<1>6. k \in Buckets /\ BucketIs(k, longer, s, p, i)
  BY <1>1, <1>4, <1>5, SlotMutIs
<1> HIDE DEF k
<1>7. r = [index |-> k.index, samples |-> k.samples, sum |-> k.sum, first |-> k.first,
           last |-> k.last, high |-> k.high, low |-> k.low, trades |-> k.trades + 1,
           untrusted |-> k.untrusted]
  BY <1>6, RecordTradeIs
<1>8. r \in Buckets
  BY <1>6, <1>7 DEF Buckets
<1>9. /\ r.index = k.index /\ r.samples = k.samples /\ r.sum = k.sum /\ r.first = k.first
      /\ r.last = k.last /\ r.high = k.high /\ r.low = k.low /\ r.trades = k.trades + 1
      /\ r.untrusted = k.untrusted
  BY <1>7
<1> HIDE DEF r
<1>10. Cardinality(PrintsIn(p2, i)) = Cardinality(PrintsIn(p, i)) + 1
  BY <1>2, PrintedHere DEF i
<1>11. BucketIs(r, longer, s, p2, i)
  BY <1>6, <1>9, <1>10 DEF BucketIs, SamplesAre
<1>12. \A n \in Nat : n # i =>
          /\ SamplesIn(s, n) = SamplesIn(s, n) /\ PrintsIn(p2, n) = PrintsIn(p, n)
          /\ \A q : SamplesAre(q, s, n) => SamplesAre(q, s, n)
  BY <1>2, PrintedElsewhere DEF i
<1>13. p2 \in Seq(Nat) /\ \A n \in DOMAIN p2 : p2[n] <= c.charged
  <2>1. \A n \in DOMAIN p : p[n] <= c.charged
    BY <1>1 DEF RingIs
  <2>2. \A n \in DOMAIN p2 : (n \in DOMAIN p /\ p2[n] = p[n]) \/ p2[n] = at
    BY <1>2
  <2>3. p2 \in Seq(Nat)
    BY <1>2
  <2> HIDE DEF p2
  <2> QED BY <2>1, <2>2, <2>3, <1>3
<1>14. \A j \in DOMAIN s : s[j].at <= c.charged
  BY <1>1 DEF RingIs
<1>15. /\ RingIs(Written(c, i, r), longer, s, p2)
       /\ Written(c, i, r) = [buckets |-> [c.buckets EXCEPT ![i % Ring] = r],
                              charged |-> c.charged, trusted |-> c.trusted]
  <2>1. IndexAt(c.charged) - i < Ring
    BY <1>4, <1>5
  <2> HIDE DEF p2
  <2> QED BY <2>1, <1>1, <1>2, <1>3, <1>8, <1>11, <1>12, <1>13, <1>14, WriteKeeps, SMTT(90)
         DEF i
<1>16. ObserveTrade(w, at) = Written(c, i, r)
  BY DEF ObserveTrade, Written, c, r, i, k
<1> QED BY <1>1, <1>15, <1>16

\* A sample is counted in the bucket of its stamp.
LEMMA ObserveKeeps ==
  ASSUME NEW w, NEW b, NEW s, NEW p, RingIs(w, b, s, p), NEW at \in Nat,
         NEW longer \in Seq(Statuses), NEW x, Grown(b, longer, x), Len(longer) = MaxOf(Len(b), at),
         w.trusted <=> x = "live", IndexAt(Len(longer)) - IndexAt(at) < Ring,
         NEW holds \in BOOLEAN, NEW mid \in Nat
  PROVE  /\ RingIs(Observe(w, holds, mid, at), longer,
                   IF holds /\ mid # NoPrice THEN Append(s, [at |-> at, mid |-> mid]) ELSE s, p)
         /\ Observe(w, holds, mid, at).trusted = holds
<1> DEFINE c == [Charge(w, at) EXCEPT !.trusted = holds]
           i == IndexAt(at)
           k == SlotMut(c.buckets, i)
           r == Record(k, mid)
           y == [at |-> at, mid |-> mid]
           s2 == Append(s, y)
<1>1. RingIs(c, longer, s, p) /\ c.trusted = holds
  <2> DEFINE d == Charge(w, at)
  <2>1. RingIs(d, longer, s, p)
    BY ChargeKeeps
  <2> HIDE DEF d
  <2>2. /\ RingIs([d EXCEPT !.trusted = holds], longer, s, p)
        /\ [d EXCEPT !.trusted = holds] = [buckets |-> d.buckets, charged |-> d.charged, trusted |-> holds]
    BY <2>1, TrustKeeps
  <2> QED BY <2>2 DEF d
<1> HIDE DEF c
<1>2. c \in WindowsType /\ c.charged \in Nat /\ Len(longer) = c.charged /\ p \in Seq(Nat) /\ s \in Seq(Samples)
  BY <1>1 DEF RingIs, WindowsType
<1>3. CASE ~(holds /\ mid # NoPrice)
  <2>1. Observe(w, holds, mid, at) = c
    BY <1>3 DEF Observe, c
  <2> QED BY <1>1, <1>3, <2>1
<1>4. CASE holds /\ mid # NoPrice
  <2>1. at <= c.charged
    <3>1. Len(b) \in Nat
      BY DEF RingIs
    <3> QED BY <1>2, <3>1 DEF MaxOf
  <2>2. i \in Nat /\ Ring \in Nat \ {0} /\ IndexAt(c.charged) \in Nat
    BY <1>2, IndexIs, LongestIs
  <2>3. IndexAt(c.charged) - Ring < i /\ IndexAt(c.charged) - i < Ring
    BY <1>2, <2>2
  <2> HIDE DEF i
  <2>4. k \in Buckets /\ BucketIs(k, longer, s, p, i)
    BY <1>1, <2>2, <2>3, SlotMutIs
  <2>5. y \in Samples /\ y.at = at /\ y.mid = mid /\ mid \in Nat \ {NoPrice}
    BY <1>4 DEF Samples
  <2> HIDE DEF k, y
  <2>6. /\ r \in Buckets
        /\ r.index = k.index /\ r.trades = k.trades /\ r.untrusted = k.untrusted
    BY <2>4, <2>5, RecordIs
  <2>7. SamplesAre(r, s2, i)
    <3>1. SamplesAre(k, s, IndexAt(y.at))
      BY <2>4, <2>5 DEF BucketIs, i
    <3>2. SamplesAre(Record(k, y.mid), Append(s, y), IndexAt(y.at))
      BY <3>1, <1>2, <2>4, <2>5, SampledHere
    <3> QED BY <3>2, <2>5 DEF i
  <2> HIDE DEF r
  <2>8. BucketIs(r, longer, s2, p, i)
    BY <2>4, <2>6, <2>7 DEF BucketIs
  <2>9. \A n \in Nat : n # i =>
          /\ SamplesIn(s2, n) = SamplesIn(s, n) /\ PrintsIn(p, n) = PrintsIn(p, n)
          /\ \A q : SamplesAre(q, s, n) => SamplesAre(q, s2, n)
    BY <1>2, <2>5, SampledElsewhere DEF i
  <2>10. s2 \in Seq(Samples) /\ \A n \in DOMAIN s2 : s2[n].at <= c.charged
    <3>1. \A n \in DOMAIN s : s[n].at <= c.charged
      BY <1>1 DEF RingIs
    <3>2. \A n \in DOMAIN s2 : (n \in DOMAIN s /\ s2[n] = s[n]) \/ s2[n] = y
      BY <1>2, <2>5
    <3>3. s2 \in Seq(Samples)
      BY <1>2, <2>5
    <3> HIDE DEF s2
    <3> QED BY <3>1, <3>2, <3>3, <2>1, <2>5
  <2>11. \A n \in DOMAIN p : p[n] <= c.charged
    BY <1>1 DEF RingIs
  <2>12. /\ RingIs(Written(c, i, r), longer, s2, p)
         /\ Written(c, i, r) = [buckets |-> [c.buckets EXCEPT ![i % Ring] = r],
                                charged |-> c.charged, trusted |-> c.trusted]
    <3> HIDE DEF s2
    <3>1. /\ RingIs(c, longer, s, p) /\ at \in Nat /\ at <= c.charged /\ r \in Buckets
          /\ IndexAt(c.charged) - IndexAt(at) < Ring
      BY <1>1, <2>1, <2>3, <2>6 DEF i
    <3>2. s2 \in Seq(Samples) /\ p \in Seq(Nat) /\ BucketIs(r, longer, s2, p, IndexAt(at))
      BY <1>2, <2>8, <2>10 DEF i
    <3>3. /\ \A j \in DOMAIN s2 : s2[j].at <= c.charged
          /\ \A n \in DOMAIN p : p[n] <= c.charged
      BY <2>10, <2>11
    <3>4. \A n \in Nat : n # IndexAt(at) =>
            /\ SamplesIn(s2, n) = SamplesIn(s, n) /\ PrintsIn(p, n) = PrintsIn(p, n)
            /\ \A q : SamplesAre(q, s, n) => SamplesAre(q, s2, n)
      BY <2>9 DEF i
    <3> HIDE DEF c, r
    <3> QED BY ONLY <3>1, <3>2, <3>3, <3>4, WriteKeeps DEF i
  <2>13. Observe(w, holds, mid, at) = Written(c, i, r)
    BY <1>4 DEF Observe, Written, c, r, i, k
  <2>14. Written(c, i, r).trusted = holds
    <3> HIDE DEF s2
    <3> QED BY <1>1, <2>12
  <2>15. s2 = Append(s, [at |-> at, mid |-> mid])
    BY DEF y
  <2> HIDE DEF s2
  <2> QED BY <1>4, <2>12, <2>13, <2>14, <2>15
<1> QED BY <1>3, <1>4

-------------------------------------------------------------------------------
(* The ring of the stream.                                                   *)

\* What a message does to the ring, of both kinds.
LEMMA MessageKeeps ==
  ASSUME NEW w, NEW b, NEW s, NEW p, RingIs(w, b, s, p), NEW at \in Nat,
         NEW longer \in Seq(Statuses), NEW x, Grown(b, longer, x), Len(longer) = MaxOf(Len(b), at),
         w.trusted <=> x = "live", IndexAt(Len(longer)) - IndexAt(at) < Ring,
         NEW trade \in BOOLEAN, NEW holds \in BOOLEAN, NEW mid \in Nat
  PROVE  /\ RingIs(Observe(IF trade THEN ObserveTrade(w, at) ELSE w, holds, mid, at), longer,
                   IF holds /\ mid # NoPrice THEN Append(s, [at |-> at, mid |-> mid]) ELSE s,
                   IF trade THEN Append(p, at) ELSE p)
         /\ Observe(IF trade THEN ObserveTrade(w, at) ELSE w, holds, mid, at).trusted = holds
<1>1. CASE ~trade
  BY <1>1, ObserveKeeps
<1>2. CASE trade
  <2> DEFINE c == ObserveTrade(w, at)
             p2 == Append(p, at)
  <2>1. RingIs(c, longer, s, p2) /\ (c.trusted <=> x = "live")
    BY TradeKeeps
  <2> HIDE DEF c, p2
  <2>2. Grown(longer, longer, x) /\ Len(longer) = MaxOf(Len(longer), at)
    <3>1. Len(longer) \in Nat /\ Len(b) \in Nat
      BY DEF RingIs
    <3> QED BY <3>1 DEF Grown, MaxOf
  <2>3. /\ RingIs(Observe(c, holds, mid, at), longer,
                  IF holds /\ mid # NoPrice THEN Append(s, [at |-> at, mid |-> mid]) ELSE s, p2)
        /\ Observe(c, holds, mid, at).trusted = holds
    BY <2>1, <2>2, ObserveKeeps
  <2> QED BY <1>2, <2>3 DEF c, p2
<1> QED BY <1>1, <1>2

\* No message waits longer than the longest window lasts.
LEMMA StillInTheRing ==
  ASSUME NEW t \in Nat, NEW u \in Nat, u <= t + MaxDelay
  PROVE  IndexAt(u) - IndexAt(t) < Ring
<1> DEFINE i == IndexAt(t)
           j == i + Ring
           e == i + 1
<1>1. /\ Longest \in Nat /\ Ring = Longest + 1 /\ i \in Nat /\ IndexAt(u) \in Nat
      /\ Resolution \in Nat /\ MaxDelay \in Nat /\ MaxDelay <= Longest * Resolution
  <2>1. Resolution \in Nat /\ MaxDelay \in Nat /\ MaxDelay <= Longest * Resolution
    BY BoundsType, WindowsAssumption, DelayAssumption
  <2>2. i \in Nat /\ IndexAt(u) \in Nat
    BY IndexIs
  <2> QED BY <2>1, <2>2, LongestIs
<1>2. t < BucketStart(i) + Resolution
  BY IndexIs
<1> HIDE DEF i
<1>3. j \in Int /\ e \in Int /\ j = e + Longest
  BY <1>1
<1>4. BucketStart(e) = BucketStart(i) + Resolution /\ BucketStart(i) \in Nat
  BY <1>1, StartIs
<1>5. BucketStart(j) = BucketStart(e) + Longest * Resolution
  <2> HIDE DEF j, e
  <2>1. (e + Longest) * Resolution = e * Resolution + Longest * Resolution
    BY <1>1, <1>3
  <2> QED BY <2>1, <1>3 DEF BucketStart
<1>6. Longest * Resolution \in Nat
  BY <1>1
<1> HIDE DEF j, e
<1>7. u < BucketStart(j)
  <2> DEFINE q == Longest * Resolution
  <2>1. q \in Nat /\ MaxDelay <= q /\ BucketStart(j) = BucketStart(e) + q
    BY <1>1, <1>5, <1>6
  <2> HIDE DEF q
  <2> QED BY <2>1, <1>1, <1>2, <1>4
<1>8. IndexAt(u) < j
  BY <1>3, <1>7, InBucket
<1> QED BY <1>1, <1>8 DEF i, j

RingInv ==
    /\ RingIs(windows, belief, samples, prints)
    /\ windows.trusted = (state.status = "live")

LEMMA RingInit == Init => RingInv
<1> SUFFICES ASSUME Init PROVE RingInv
  OBVIOUS
<1>1. /\ belief = <<>> /\ samples = <<>> /\ prints = <<>> /\ windows = NewWindows
      /\ state.status = "uninitialized"
  BY DEF Init, NewBook
<1>2. /\ windows.buckets = [slot \in 0..(Ring - 1) |-> EmptyBucket]
      /\ windows.charged = 0 /\ windows.trusted = FALSE
  BY <1>1 DEF NewWindows
<1>3. EmptyBucket \in Buckets /\ EmptyBucket.index = NoIndex /\ EmptyBucket.untrusted = 0
  BY DEF EmptyBucket, Buckets, NoPrice
<1>4. windows \in WindowsType
  <2> HIDE DEF EmptyBucket
  <2> QED BY <1>1, <1>3 DEF NewWindows, WindowsType
<1>5. Resolution \in Nat /\ Resolution > 0 /\ Ring \in Nat \ {0} /\ BucketStart(0) = 0
  <2>1. Resolution \in Nat \ {0}
    BY WindowsAssumption
  <2> QED BY <2>1, LongestIs DEF BucketStart
<1>6. IndexAt(0) = 0
  BY <1>5, InBucket
<1>7. \A slot \in 0..(Ring - 1) : windows.buckets[slot] = EmptyBucket
  BY <1>2
<1>8. SlotIsTrue(windows, belief, samples, prints, 0)
  <2>1. 0 % Ring \in 0..(Ring - 1)
    BY SlotIs
  <2>2. windows.buckets[0 % Ring].index # 0
    BY <2>1, <1>3, <1>7 DEF NoIndex
  <2>3. SamplesIn(samples, 0) = {} /\ PrintsIn(prints, 0) = {}
    BY <1>1 DEF SamplesIn, PrintsIn
  <2> QED BY <2>2, <2>3, <1>2, <1>5 DEF SlotIsTrue
<1>9. RingIs(windows, belief, samples, prints)
  <2>1. \A i \in 0..IndexAt(windows.charged) : i = 0
    BY <1>2, <1>6
  <2>2. \A slot \in 0..(Ring - 1) :
          LET k == windows.buckets[slot]
          IN  /\ k.untrusted <= Resolution
              /\ k.index # NoIndex => k.index <= IndexAt(windows.charged) /\ k.index % Ring = slot
    BY <1>3, <1>5, <1>7
  <2>3. belief \in Seq(Statuses) /\ samples \in Seq(Samples) /\ prints \in Seq(Nat) /\ Len(belief) = 0
    BY <1>1
  <2>4. DOMAIN samples = {} /\ DOMAIN prints = {}
    BY <1>1
  <2> QED BY <2>1, <2>2, <2>3, <2>4, <1>2, <1>4, <1>8 DEF RingIs
<1> QED BY <1>1, <1>2, <1>9 DEF RingInv

LEMMA BeliefIsGrown ==
  ASSUME StreamType, NEW t \in Nat, NEW b, b = BeliefUpTo(t)
  PROVE  b \in Seq(Statuses) /\ Grown(belief, b, state.status) /\ Len(b) = MaxOf(Len(belief), t)
<1>1. /\ b \in Seq(Statuses) /\ Len(b) \in Nat /\ Len(belief) \in Nat
      /\ Len(b) = MaxOf(Len(belief), t)
      /\ DOMAIN b = 1..Len(b) /\ DOMAIN belief = 1..Len(belief)
      /\ \A i \in DOMAIN belief : b[i] = belief[i]
      /\ \A i \in DOMAIN b : i > Len(belief) => b[i] = state.status
  BY BeliefGrows
<1>2. Len(b) >= Len(belief)
  BY <1>1 DEF MaxOf
<1> QED BY <1>1, <1>2 DEF Grown

LEMMA SnapshotKeepsRing == ASSUME StreamInv, RingInv, Snapshot PROVE RingInv'
<1>1. /\ windows' = Charge(windows, now) /\ belief' = BeliefUpTo(now)
      /\ UNCHANGED <<state, samples, prints>>
  BY DEF Snapshot
<1>2. now \in Nat
  BY BoundsType DEF StreamInv, StreamType
<1> PICK b : b = belief'
  OBVIOUS
<1>3. b \in Seq(Statuses) /\ Grown(belief, b, state.status) /\ Len(b) = MaxOf(Len(belief), now)
  BY <1>1, <1>2, BeliefIsGrown DEF StreamInv
<1>4. RingIs(windows, belief, samples, prints) /\ (windows.trusted <=> state.status = "live")
  BY DEF RingInv
<1>5. windows.trusted = (state.status = "live")
  BY DEF RingInv
<1>6. /\ RingIs(Charge(windows, now), b, samples, prints)
      /\ Charge(windows, now).trusted = windows.trusted
  BY ONLY <1>2, <1>3, <1>4, ChargeKeeps
<1> QED BY <1>1, <1>5, <1>6 DEF RingInv

LEMMA ApplyKeepsRing == ASSUME StreamInv, RingInv, Apply PROVE RingInv'
<1> DEFINE m == Head(queue)
           at == m.at
           trade == m.kind = "trade"
           holds == state'.status = "live"
<1>1. /\ m \in Messages /\ at \in Nat /\ at <= now /\ now <= at + MaxDelay /\ Transition(m)
  BY ApplyIs
<1>2. windows' = Observe(IF trade THEN ObserveTrade(windows, at) ELSE windows, holds, state'.mid, at)
  BY DEF Apply, SampleWindows
<1>3. /\ belief' = BeliefUpTo(at)
      /\ samples' = (IF holds /\ state'.mid # NoPrice
                     THEN Append(samples, [at |-> at, mid |-> state'.mid])
                     ELSE samples)
      /\ prints' = (IF trade THEN Append(prints, at) ELSE prints)
  BY <1>1 DEF Transition
<1> HIDE DEF m
<1> PICK b : b = belief'
  OBVIOUS
<1>4. b \in Seq(Statuses) /\ Grown(belief, b, state.status) /\ Len(b) = MaxOf(Len(belief), at)
  BY <1>1, <1>3, BeliefIsGrown DEF StreamInv
<1>5. RingIs(windows, belief, samples, prints) /\ (windows.trusted <=> state.status = "live")
  BY DEF RingInv
<1>6. IndexAt(Len(b)) - IndexAt(at) < Ring
  <2>1. Len(b) \in Nat /\ Len(b) <= at + MaxDelay
    <3>1. Len(belief) \in Nat /\ Len(belief) <= now /\ now \in Nat
      BY BoundsType DEF StreamInv, StreamType, AppliedIsCharged
    <3> QED BY <3>1, <1>1, <1>4, BoundsType DEF MaxOf
  <2> QED BY <2>1, <1>1, StillInTheRing
<1> PICK mid : mid = state'.mid
  OBVIOUS
<1> PICK on : on = holds
  OBVIOUS
<1>7. mid \in Nat /\ on \in BOOLEAN /\ trade \in BOOLEAN
  <2>1. state' \in States
    BY <1>1, TransitionType
  <2> QED BY <2>1 DEF States
<1> PICK trade2 : trade2 = trade
  OBVIOUS
<1>8. trade2 \in BOOLEAN
  OBVIOUS
<1> HIDE DEF at, trade, holds
<1>9. /\ RingIs(Observe(IF trade2 THEN ObserveTrade(windows, at) ELSE windows, on, mid, at), b,
                IF on /\ mid # NoPrice THEN Append(samples, [at |-> at, mid |-> mid]) ELSE samples,
                IF trade2 THEN Append(prints, at) ELSE prints)
      /\ Observe(IF trade2 THEN ObserveTrade(windows, at) ELSE windows, on, mid, at).trusted = on
  BY ONLY <1>1, <1>4, <1>5, <1>6, <1>7, <1>8, MessageKeeps
<1>10. /\ windows' = Observe(IF trade2 THEN ObserveTrade(windows, at) ELSE windows, on, mid, at)
       /\ samples' = (IF on /\ mid # NoPrice THEN Append(samples, [at |-> at, mid |-> mid]) ELSE samples)
       /\ prints' = (IF trade2 THEN Append(prints, at) ELSE prints)
  BY <1>2, <1>3
<1>11. RingIs(windows', belief', samples', prints') /\ windows'.trusted = on
  BY <1>9, <1>10
<1> QED BY <1>11 DEF RingInv, holds

LEMMA RingStep == ASSUME StreamInv, RingInv, [Next]_vars PROVE RingInv'
<1>1. ASSUME UNCHANGED <<state, windows, samples, prints, belief>> PROVE RingInv'
  BY <1>1 DEF RingInv
<1>2. CASE UNCHANGED vars
  BY <1>1, <1>2 DEF vars
<1>3. CASE Tick
  BY <1>1, <1>3 DEF Tick, history
<1>4. ASSUME NEW content \in Contents, NEW at \in 0..MaxTime, Receive(content, at) PROVE RingInv'
  BY <1>1, <1>4 DEF Receive, history
<1> QED BY <1>2, <1>3, <1>4, ApplyKeepsRing, SnapshotKeepsRing DEF Next

-------------------------------------------------------------------------------
(* The readings.                                                             *)

\* The buckets of a window that ends before bucket e.
WindowOf(span, e) == MaxOf(e - BucketsFor(span), 0)..(e - 1)

\* A span that fits in the ring.
IsSpan(span) == BucketsFor(span) \in Nat \ {0} /\ BucketsFor(span) <= Longest

LEMMA SpansFit == \A i \in DOMAIN Spans : IsSpan(Spans[i])
BY SpansType, LongestIs DEF IsSpan

\* The ring still has every bucket of a window.
LEMMA AllHeld ==
  ASSUME NEW w, NEW b, NEW s, NEW p, RingIs(w, b, s, p), NEW span, IsSpan(span),
         NEW i \in WindowOf(span, IndexAt(w.charged))
  PROVE  /\ i \in Nat /\ i < IndexAt(w.charged)
         /\ BucketStart(i) + Resolution <= w.charged
         /\ w.buckets[i % Ring] \in Buckets
         /\ w.buckets[i % Ring].index = i
         /\ BucketIs(w.buckets[i % Ring], b, s, p, i)
<1> DEFINE e == IndexAt(w.charged)
           k == BucketsFor(span)
<1>1. /\ w.charged \in Nat /\ e \in Nat /\ Ring = Longest + 1 /\ Longest \in Nat /\ k \in Nat /\ k <= Longest
      /\ w.buckets \in [0..(Ring - 1) -> Buckets]
  BY IndexIs, LongestIs DEF RingIs, WindowsType, IsSpan
<1>2. BucketStart(e) <= w.charged
  BY <1>1, IndexIs
<1> HIDE DEF e, k
<1>3. i \in Nat /\ i < e /\ e - Ring < i
  BY <1>1 DEF WindowOf, MaxOf, e, k
<1>4. i % Ring \in 0..(Ring - 1)
  BY <1>3, SlotIs
<1>5. BucketStart(i) \in Nat /\ BucketStart(e) \in Nat /\ Resolution \in Nat /\ Resolution > 0
      /\ BucketStart(i) + Resolution <= BucketStart(e)
  <2>1. i \in Int /\ e \in Int /\ i < e
    BY <1>1, <1>3
  <2>2. BucketStart(i) \in Nat /\ Resolution \in Nat /\ Resolution > 0
    BY <1>3, <2>1, StartIs
  <2>3. BucketStart(e) \in Nat
    BY <1>1, <2>1, StartIs
  <2> QED BY <2>1, <2>2, <2>3, StartsInOrder
<1>6. SlotIsTrue(w, b, s, p, i)
  <2>1. i \in 0..e
    BY <1>1, <1>3
  <2> QED BY <2>1, <1>3 DEF RingIs, e
<1>7. ~(w.charged <= BucketStart(i)) /\ BucketStart(i) + Resolution <= w.charged
  BY <1>1, <1>2, <1>5
<1> QED BY <1>1, <1>3, <1>4, <1>6, <1>7 DEF SlotIsTrue, e

\* The ticks of a bucket that is over are trusted or missing.
LiveIn(b, i) == {t \in DOMAIN b : IndexAt(t - 1) = i /\ b[t] = "live"}

LEMMA LiveOrMissing ==
  ASSUME NEW b \in Seq(Statuses), NEW i \in Nat, BucketStart(i) + Resolution <= Len(b)
  PROVE  /\ Cardinality(LiveIn(b, i)) \in Nat
         /\ Resolution - Cardinality(Missing(b, i)) = Cardinality(LiveIn(b, i))
<1> DEFINE start == BucketStart(i)
           all == (start + 1)..(start + Resolution)
           holds == LiveIn(b, i)
           missing == Missing(b, i)
<1>1. i \in Int
  OBVIOUS
<1>2. start \in Nat /\ Resolution \in Nat /\ Resolution > 0
  BY <1>1, StartIs
<1> HIDE DEF start
<1>3. DOMAIN b = 1..Len(b) /\ Len(b) \in Nat
  OBVIOUS
<1>4. \A t \in Nat : t # 0 => (IndexAt(t - 1) = i <=> t \in all)
  <2> SUFFICES ASSUME NEW t \in Nat, t # 0 PROVE IndexAt(t - 1) = i <=> t \in all
    OBVIOUS
  <2>1. t - 1 \in Nat
    OBVIOUS
  <2>2. IndexAt(t - 1) = i <=> start <= t - 1 /\ t - 1 < start + Resolution
    BY <2>1, <1>1, InBucket DEF start
  <2> QED BY <2>2, <1>2
<1>5. \A t \in all : t \in DOMAIN b /\ t \in Nat /\ t # 0
  BY <1>2, <1>3 DEF start
<1>6. \A t \in DOMAIN b : t \in Nat /\ t # 0
  BY <1>3
<1>7. IsFiniteSet(all) /\ Cardinality(all) = Resolution
  <2>1. start + 1 \in Int /\ start + Resolution \in Int /\ start + 1 <= start + Resolution
        /\ (start + Resolution) - (start + 1) + 1 = Resolution
    BY <1>2
  <2> QED BY <2>1, FS_Interval
<1> HIDE DEF all
<1>8. holds \subseteq all /\ missing \subseteq all
  BY <1>4, <1>6 DEF LiveIn, Missing
<1>9. all = holds \union missing /\ holds \intersect missing = {}
  BY <1>4, <1>5, <1>6 DEF LiveIn, Missing
<1> HIDE DEF holds, missing
<1>10. IsFiniteSet(holds) /\ IsFiniteSet(missing)
  BY <1>7, <1>8, FS_Subset
<1>11. Cardinality(holds) \in Nat /\ Cardinality(missing) \in Nat
  BY <1>10, FS_CardinalityType
<1>12. Cardinality(all) = Cardinality(holds) + Cardinality(missing) - Cardinality({})
  BY <1>9, <1>10, FS_Union
<1>13. Cardinality({}) = 0
  BY FS_EmptySet
<1>14. Resolution - Cardinality(missing) = Cardinality(holds)
  BY <1>2, <1>7, <1>11, <1>12, <1>13
<1> QED BY <1>11, <1>14 DEF holds, missing

\* Adding up what a window's buckets hold.
Filled(g, W, e) == [i \in 0..(e - 1) |-> IF i \in W THEN g[i] ELSE 0]

\* Each bucket of a window holds the count, or the sum, of what is stamped in it.
CountedByBucket(g, W, T, key) == \A i \in W : g[i] = Cardinality(Keyed(T, key, {i}))

AddedByBucket(g, W, l, mid, key) ==
    \A i \in W : g[i] = History!SumTo(Picked(l, mid, key, {i}), l)

LEMMA CountsOfWindow ==
  ASSUME NEW T, IsFiniteSet(T), NEW key \in [T -> Nat], NEW e \in Nat,
         NEW W \in SUBSET (0..(e - 1)), NEW g, CountedByBucket(g, W, T, key)
  PROVE  SumBelow(Filled(g, W, e), e) = Cardinality(Keyed(T, key, W))
<1> DEFINE f == Filled(g, W, e)
           c == [i \in 1..e |-> IF i - 1 \in W THEN Cardinality(Keyed(T, key, {i - 1})) ELSE 0]
<1>1. \A i : Cardinality(Keyed(T, key, {i})) \in Nat
  <2> TAKE i
  <2>1. Keyed(T, key, {i}) \subseteq T
    BY DEF Keyed
  <2> QED BY <2>1, FS_Subset, FS_CardinalityType
<1>2. \A i \in 1..e : c[i] = f[i - 1] /\ c[i] \in Nat
  <2> TAKE i \in 1..e
  <2>1. i - 1 \in 0..(e - 1)
    OBVIOUS
  <2> QED BY <2>1, <1>1 DEF Filled, CountedByBucket
<1>3. CountsByKey(c, e, T, key, W)
  BY DEF CountsByKey
<1> HIDE DEF f, c
<1>4. SumBelow(f, e) = History!SumTo(c, e)
  BY <1>2, SumBelowIs
<1>5. History!SumTo(c, e) = Cardinality(Keyed(T, key, W))
  BY <1>3, CountsAdd
<1> QED BY <1>4, <1>5 DEF f

LEMMA SumsOfWindow ==
  ASSUME NEW l, NEW mid, NEW key, NEW e, NEW W, NEW g,
         Stamped(l, mid, key, e, W), AddedByBucket(g, W, l, mid, key)
  PROVE  SumBelow(Filled(g, W, e), e) = History!SumTo(Picked(l, mid, key, W), l)
<1> DEFINE f == Filled(g, W, e)
           c == [i \in 1..e |-> IF i - 1 \in W THEN History!SumTo(Picked(l, mid, key, {i - 1}), l) ELSE 0]
<1>0. /\ l \in Nat /\ mid \in [1..l -> Nat] /\ key \in [1..l -> Nat]
      /\ e \in Nat /\ W \in SUBSET (0..(e - 1))
  BY DEF Stamped
<1>1. \A i : History!SumTo(Picked(l, mid, key, {i}), l) \in Nat
  <2> TAKE i
  <2>1. \A j \in 1..l : Picked(l, mid, key, {i})[j] \in Nat
    BY <1>0 DEF Picked
  <2> QED BY <2>1, <1>0, SumToType
<1>2. \A i \in 1..e : c[i] = f[i - 1] /\ c[i] \in Nat
  <2> TAKE i \in 1..e
  <2>1. i - 1 \in 0..(e - 1)
    BY <1>0
  <2> QED BY <2>1, <1>0, <1>1 DEF Filled, AddedByBucket
<1>3. SumsByKey(c, e, l, mid, key, W)
  BY DEF SumsByKey
<1> HIDE DEF f, c
<1>4. SumBelow(f, e) = History!SumTo(c, e)
  BY <1>0, <1>2, SumBelowIs
<1>5. History!SumTo(c, e) = History!SumTo(Picked(l, mid, key, W), l)
  BY <1>3, SumsAdd
<1> QED BY <1>4, <1>5 DEF f

\* The greatest and the least of a set.
LEMMA LargestIs ==
  ASSUME NEW S \in SUBSET Nat, NEW v \in S, \A u \in S : v >= u
  PROVE  (CHOOSE x \in S : \A y \in S : x >= y) = v
<1> DEFINE c == CHOOSE x \in S : \A y \in S : x >= y
<1>1. c \in S /\ \A y \in S : c >= y
  OBVIOUS
<1> HIDE DEF c
<1>2. c \in Nat /\ v \in Nat /\ c >= v /\ v >= c
  BY <1>1
<1>3. c = v
  BY <1>2
<1> QED BY <1>3 DEF c

LEMMA SmallestIs ==
  ASSUME NEW S \in SUBSET Nat, NEW v \in S, \A u \in S : v <= u
  PROVE  (CHOOSE x \in S : \A y \in S : x <= y) = v
<1> DEFINE c == CHOOSE x \in S : \A y \in S : x <= y
<1>1. c \in S /\ \A y \in S : c <= y
  OBVIOUS
<1> HIDE DEF c
<1>2. c \in Nat /\ v \in Nat /\ c <= v /\ v <= c
  BY <1>1
<1>3. c = v
  BY <1>2
<1> QED BY <1>3 DEF c

LEMMA LargestBelow ==
  ASSUME NEW e \in Nat, NEW S \in SUBSET (0..(e - 1)), S # {}
  PROVE  \E v \in S : \A u \in S : v >= u
<1> DEFINE T == {n \in Nat : n <= e /\ e - n \in S}
<1>1. \A i \in S : i \in Nat /\ i < e /\ e - i \in Nat /\ e - (e - i) = i
  OBVIOUS
<1>2. PICK i \in S : TRUE
  OBVIOUS
<1>3. e - i \in T /\ T \in SUBSET Nat
  BY <1>1
<1>4. PICK m \in T : \A k \in T : m <= k
  <2> HIDE DEF T
  <2> QED BY <1>3, LeastOf
<1>5. e - m \in S /\ m \in Nat
  BY <1>4
<1>6. ASSUME NEW u \in S PROVE e - m >= u
  <2>1. e - u \in T /\ u \in Nat
    BY <1>1
  <2>2. m <= e - u
    BY <2>1, <1>4
  <2> QED BY <2>1, <2>2, <1>5
<1> QED BY <1>5, <1>6

Slot(w, i) == w.buckets[i % Ring]

\* The ring holds the buckets W, which are over.
Holds(w, b, s, p, W, e) ==
    /\ e \in Nat /\ W \in SUBSET (0..(e - 1))
    /\ b \in Seq(Statuses) /\ s \in Seq(Samples) /\ p \in Seq(Nat)
    /\ \A i \in W : /\ i \in Nat /\ BucketStart(i) + Resolution <= Len(b)
                    /\ Slot(w, i) \in Buckets /\ BucketIs(Slot(w, i), b, s, p, i)

\* What the history has of them.
TrustedIn(b, W) == {t \in DOMAIN b : b[t] = "live" /\ IndexAt(t - 1) \in W}
Inside(s, W) == {j \in DOMAIN s : IndexAt(s[j].at) \in W}
Printed(p, W) == {n \in DOMAIN p : IndexAt(p[n]) \in W}
MidsInside(s, W) == [j \in DOMAIN s |-> IF j \in Inside(s, W) THEN s[j].mid ELSE 0]

LEMMA TrustedOfWindow ==
  ASSUME NEW w, NEW b, NEW s, NEW p, NEW W, NEW e, Holds(w, b, s, p, W, e)
  PROVE  SumBelow(Filled([i \in W |-> Resolution - Slot(w, i).untrusted], W, e), e)
            = Cardinality(TrustedIn(b, W))
<1> DEFINE T == {t \in DOMAIN b : b[t] = "live"}
           key == [t \in T |-> IndexAt(t - 1)]
           g == [i \in W |-> Resolution - Slot(w, i).untrusted]
<1>1. e \in Nat /\ W \in SUBSET (0..(e - 1)) /\ b \in Seq(Statuses)
  BY DEF Holds
<1>2. DOMAIN b = 1..Len(b) /\ Len(b) \in Nat
  BY <1>1
<1>3. IsFiniteSet(T)
  <2>1. T \subseteq 1..Len(b) /\ IsFiniteSet(1..Len(b))
    BY <1>2, FS_Interval
  <2> HIDE DEF T
  <2> QED BY <2>1, FS_Subset
<1>4. key \in [T -> Nat]
  <2>1. \A t \in T : IndexAt(t - 1) \in Nat
    <3> TAKE t \in T
    <3>1. t - 1 \in Nat
      BY <1>2
    <3> QED BY <3>1, IndexIs
  <2> HIDE DEF T
  <2> QED BY <2>1
<1>5. \A i \in W : g[i] = Cardinality(Keyed(T, key, {i}))
  <2> SUFFICES ASSUME NEW i \in W PROVE g[i] = Cardinality(Keyed(T, key, {i}))
    OBVIOUS
  <2>1. Keyed(T, key, {i}) = LiveIn(b, i)
    BY DEF Keyed, LiveIn
  <2>2. /\ i \in Nat /\ BucketStart(i) + Resolution <= Len(b)
        /\ Slot(w, i).untrusted = Cardinality(Missing(b, i))
    BY DEF Holds, BucketIs
  <2>3. Resolution - Cardinality(Missing(b, i)) = Cardinality(LiveIn(b, i))
    BY <1>1, <2>2, LiveOrMissing
  <2> QED BY <2>1, <2>2, <2>3
<1> HIDE DEF g
<1>6. SumBelow(Filled(g, W, e), e) = Cardinality(Keyed(T, key, W))
  <2> HIDE DEF T, key
  <2>1. CountedByBucket(g, W, T, key)
    BY <1>5 DEF CountedByBucket
  <2> QED BY <1>1, <1>3, <1>4, <2>1, CountsOfWindow
<1>7. Keyed(T, key, W) = TrustedIn(b, W)
  BY DEF Keyed, TrustedIn
<1> QED BY <1>6, <1>7 DEF g

LEMMA TradesOfWindow ==
  ASSUME NEW w, NEW b, NEW s, NEW p, NEW W, NEW e, Holds(w, b, s, p, W, e)
  PROVE  SumBelow(Filled([i \in W |-> Slot(w, i).trades], W, e), e) = Cardinality(Printed(p, W))
<1> DEFINE T == DOMAIN p
           key == [n \in T |-> IndexAt(p[n])]
           g == [i \in W |-> Slot(w, i).trades]
<1>1. e \in Nat /\ W \in SUBSET (0..(e - 1)) /\ p \in Seq(Nat)
  BY DEF Holds
<1>2. IsFiniteSet(T)
  <2>1. T = 1..Len(p) /\ Len(p) \in Nat
    BY <1>1
  <2> QED BY <2>1, FS_Interval
<1>3. key \in [T -> Nat]
  <2>1. \A n \in T : IndexAt(p[n]) \in Nat
    <3> TAKE n \in T
    <3>1. p[n] \in Nat
      BY <1>1
    <3> QED BY <3>1, IndexIs
  <2> HIDE DEF T
  <2> QED BY <2>1
<1>4. \A i \in W : g[i] = Cardinality(Keyed(T, key, {i}))
  <2> SUFFICES ASSUME NEW i \in W PROVE g[i] = Cardinality(Keyed(T, key, {i}))
    OBVIOUS
  <2>1. Keyed(T, key, {i}) = PrintsIn(p, i)
    BY DEF Keyed, PrintsIn
  <2>2. Slot(w, i).trades = Cardinality(PrintsIn(p, i))
    BY DEF Holds, BucketIs
  <2> QED BY <2>1, <2>2
<1> HIDE DEF g
<1>5. SumBelow(Filled(g, W, e), e) = Cardinality(Keyed(T, key, W))
  <2> HIDE DEF T, key
  <2>1. CountedByBucket(g, W, T, key)
    BY <1>4 DEF CountedByBucket
  <2> QED BY <1>1, <1>2, <1>3, <2>1, CountsOfWindow
<1>6. Keyed(T, key, W) = Printed(p, W)
  BY DEF Keyed, Printed
<1> QED BY <1>5, <1>6 DEF g

LEMMA SamplesOfWindow ==
  ASSUME NEW w, NEW b, NEW s, NEW p, NEW W, NEW e, Holds(w, b, s, p, W, e)
  PROVE  SumBelow(Filled([i \in W |-> Slot(w, i).samples], W, e), e) = Cardinality(Inside(s, W))
<1> DEFINE T == DOMAIN s
           key == [n \in T |-> IndexAt(s[n].at)]
           g == [i \in W |-> Slot(w, i).samples]
<1>1. e \in Nat /\ W \in SUBSET (0..(e - 1)) /\ s \in Seq(Samples)
  BY DEF Holds
<1>2. IsFiniteSet(T)
  <2>1. T = 1..Len(s) /\ Len(s) \in Nat
    BY <1>1
  <2> QED BY <2>1, FS_Interval
<1>3. key \in [T -> Nat]
  <2>1. \A n \in T : IndexAt(s[n].at) \in Nat
    <3> TAKE n \in T
    <3>1. s[n].at \in Nat
      <4>1. s[n] \in Samples
        BY <1>1
      <4> QED BY <4>1 DEF Samples
    <3> QED BY <3>1, IndexIs
  <2> HIDE DEF T
  <2> QED BY <2>1
<1>4. \A i \in W : g[i] = Cardinality(Keyed(T, key, {i}))
  <2> SUFFICES ASSUME NEW i \in W PROVE g[i] = Cardinality(Keyed(T, key, {i}))
    OBVIOUS
  <2>1. Keyed(T, key, {i}) = SamplesIn(s, i)
    BY DEF Keyed, SamplesIn
  <2>2. Slot(w, i).samples = Cardinality(SamplesIn(s, i))
    BY DEF Holds, BucketIs, SamplesAre
  <2> QED BY <2>1, <2>2
<1> HIDE DEF g
<1>5. SumBelow(Filled(g, W, e), e) = Cardinality(Keyed(T, key, W))
  <2> HIDE DEF T, key
  <2>1. CountedByBucket(g, W, T, key)
    BY <1>4 DEF CountedByBucket
  <2> QED BY <1>1, <1>2, <1>3, <2>1, CountsOfWindow
<1>6. Keyed(T, key, W) = Inside(s, W)
  BY DEF Keyed, Inside
<1> QED BY <1>5, <1>6 DEF g

LEMMA SumOfWindow ==
  ASSUME NEW w, NEW b, NEW s, NEW p, NEW W, NEW e, Holds(w, b, s, p, W, e)
  PROVE  SumBelow(Filled([i \in W |-> Slot(w, i).sum], W, e), e) = History!SumTo(MidsInside(s, W), Len(s))
<1> DEFINE l == Len(s)
           mid == [j \in 1..l |-> s[j].mid]
           key == [j \in 1..l |-> IndexAt(s[j].at)]
           g == [i \in W |-> Slot(w, i).sum]
<1>1. e \in Nat /\ W \in SUBSET (0..(e - 1)) /\ s \in Seq(Samples)
  BY DEF Holds
<1>2. l \in Nat /\ DOMAIN s = 1..l
  BY <1>1
<1>3. \A j \in 1..l : s[j].mid \in Nat /\ IndexAt(s[j].at) \in Nat
  <2> TAKE j \in 1..l
  <2>1. s[j] \in Samples
    BY <1>1
  <2>2. s[j].at \in Nat /\ s[j].mid \in Nat
    BY <2>1 DEF Samples
  <2> QED BY <2>2, IndexIs
<1>4. \A i \in W : g[i] = History!SumTo(Picked(l, mid, key, {i}), l)
  <2> SUFFICES ASSUME NEW i \in W PROVE g[i] = History!SumTo(Picked(l, mid, key, {i}), l)
    OBVIOUS
  <2>1. Picked(l, mid, key, {i}) = MidsIn(s, i)
    BY DEF Picked, MidsIn
  <2>2. Slot(w, i).sum = History!SumTo(MidsIn(s, i), l)
    BY DEF Holds, BucketIs, SamplesAre
  <2> QED BY <2>1, <2>2
<1>5. Picked(l, mid, key, W) = MidsInside(s, W)
  BY <1>2 DEF Picked, MidsInside, Inside
<1>6. mid \in [1..l -> Nat] /\ key \in [1..l -> Nat]
  <2> HIDE DEF l
  <2> QED BY <1>3
<1> HIDE DEF g, mid, key, l
<1>7. SumBelow(Filled(g, W, e), e) = History!SumTo(Picked(l, mid, key, W), l)
  <2>1. AddedByBucket(g, W, l, mid, key)
    BY <1>4 DEF AddedByBucket
  <2>2. Stamped(l, mid, key, e, W)
    BY <1>1, <1>2, <1>6 DEF Stamped
  <2> QED BY <2>1, <2>2, SumsOfWindow
<1> QED BY <1>5, <1>7 DEF g, l

\* The samples of a window in the order of their buckets, and as they came
\* within one.
Earlier(s, i, j) ==
    IndexAt(s[i].at) < IndexAt(s[j].at) \/ (IndexAt(s[i].at) = IndexAt(s[j].at) /\ i <= j)

\* The ends and the extremes of a window's samples.
Opening(s, W) == s[CHOOSE j \in Inside(s, W) : \A i \in Inside(s, W) : Earlier(s, j, i)].mid
Closing(s, W) == s[CHOOSE j \in Inside(s, W) : \A i \in Inside(s, W) : Earlier(s, i, j)].mid
ValuesIn(s, W) == {s[j].mid : j \in Inside(s, W)}
HighOf(s, W) == CHOOSE v \in ValuesIn(s, W) : \A u \in ValuesIn(s, W) : v >= u
LowOf(s, W) == CHOOSE v \in ValuesIn(s, W) : \A u \in ValuesIn(s, W) : v <= u

Sampled(w, W) == {i \in W : Slot(w, i).samples > 0}

HighsIn(w, W) == {Slot(w, i).high : i \in Sampled(w, W)}
LowsIn(w, W) == {Slot(w, i).low : i \in Sampled(w, W)}

\* A bucket has samples when one of the history is stamped in it.
LEMMA SampledIs ==
  ASSUME NEW w, NEW b, NEW s, NEW p, NEW W, NEW e, Holds(w, b, s, p, W, e)
  PROVE  /\ e \in Nat /\ W \in SUBSET (0..(e - 1)) /\ Sampled(w, W) \in SUBSET (0..(e - 1))
         /\ \A j \in Inside(s, W) : /\ j \in Nat /\ s[j].mid \in Nat /\ s[j].mid # NoPrice
                                    /\ IndexAt(s[j].at) \in Sampled(w, W)
                                    /\ j \in SamplesIn(s, IndexAt(s[j].at))
         /\ \A i \in Sampled(w, W) :
               /\ i \in Nat /\ SamplesIn(s, i) # {} /\ SamplesIn(s, i) \subseteq Inside(s, W)
               /\ \A j \in SamplesIn(s, i) : IndexAt(s[j].at) = i
               /\ SamplesAre(Slot(w, i), s, i)
         /\ Sampled(w, W) = {} <=> Inside(s, W) = {}
<1>1. e \in Nat /\ W \in SUBSET (0..(e - 1)) /\ s \in Seq(Samples)
  BY DEF Holds
<1>2. \A i \in W : i \in Nat /\ SamplesAre(Slot(w, i), s, i) /\ Slot(w, i).samples \in Nat
  BY DEF Holds, BucketIs, Buckets
<1>3. \A j \in DOMAIN s : j \in Nat /\ s[j].mid \in Nat /\ s[j].mid # NoPrice
  <2> TAKE j \in DOMAIN s
  <2>1. s[j] \in Samples /\ j \in Nat
    BY <1>1
  <2> QED BY <2>1 DEF Samples
<1>4. Sampled(w, W) \in SUBSET (0..(e - 1))
  BY <1>1 DEF Sampled
<1>5. \A i \in W : Slot(w, i).samples > 0 <=> SamplesIn(s, i) # {}
  <2> SUFFICES ASSUME NEW i \in W PROVE Slot(w, i).samples > 0 <=> SamplesIn(s, i) # {}
    OBVIOUS
  <2>1. Slot(w, i).samples = Cardinality(SamplesIn(s, i)) /\ Slot(w, i).samples \in Nat
    BY <1>2 DEF SamplesAre
  <2>2. IsFiniteSet(SamplesIn(s, i))
    BY <1>1, SamplesInIs
  <2>3. Cardinality(SamplesIn(s, i)) = 0 <=> SamplesIn(s, i) = {}
    BY <2>2, FS_EmptySet
  <2> QED BY <2>1, <2>3
<1>6. ASSUME NEW j \in Inside(s, W)
      PROVE  /\ j \in Nat /\ s[j].mid \in Nat /\ s[j].mid # NoPrice
             /\ IndexAt(s[j].at) \in Sampled(w, W)
             /\ j \in SamplesIn(s, IndexAt(s[j].at))
  <2>1. j \in DOMAIN s /\ IndexAt(s[j].at) \in W
    BY DEF Inside
  <2>2. j \in SamplesIn(s, IndexAt(s[j].at))
    BY <2>1 DEF SamplesIn
  <2>3. IndexAt(s[j].at) \in Sampled(w, W)
    BY <2>1, <2>2, <1>5 DEF Sampled
  <2> QED BY <2>1, <2>2, <2>3, <1>3
<1>7. ASSUME NEW i \in Sampled(w, W)
      PROVE  /\ i \in Nat /\ SamplesIn(s, i) # {} /\ SamplesIn(s, i) \subseteq Inside(s, W)
             /\ \A j \in SamplesIn(s, i) : IndexAt(s[j].at) = i
             /\ SamplesAre(Slot(w, i), s, i)
  <2>1. i \in W /\ Slot(w, i).samples > 0
    BY DEF Sampled
  <2>2. \A j \in SamplesIn(s, i) : j \in DOMAIN s /\ IndexAt(s[j].at) = i
    BY DEF SamplesIn
  <2>3. SamplesIn(s, i) \subseteq Inside(s, W)
    BY <2>1, <2>2 DEF Inside
  <2> QED BY <2>1, <2>2, <2>3, <1>2, <1>5
<1>8. Sampled(w, W) = {} <=> Inside(s, W) = {}
  BY <1>6, <1>7
<1> QED BY <1>1, <1>4, <1>6, <1>7, <1>8

LEMMA FirstOfWindow ==
  ASSUME NEW w, NEW b, NEW s, NEW p, NEW W, NEW e, Holds(w, b, s, p, W, e), Inside(s, W) # {}
  PROVE  Slot(w, SmallestIn(Sampled(w, W))).first = Opening(s, W)
<1> DEFINE S == Sampled(w, W)
           I == Inside(s, W)
           m == SmallestIn(S)
           c == CHOOSE j \in I : \A i \in I : Earlier(s, j, i)
<1>1. S \in SUBSET Nat /\ S # {}
  BY SampledIs
<1>2. m \in S /\ \A i \in S : m <= i
  <2>1. \E x \in S : \A y \in S : x <= y
    BY <1>1, LeastOf
  <2> HIDE DEF S
  <2> QED BY <2>1 DEF SmallestIn
<1> HIDE DEF m, S
<1>3. /\ m \in Nat /\ SamplesIn(s, m) # {} /\ SamplesIn(s, m) \subseteq I
      /\ \A j \in SamplesIn(s, m) : IndexAt(s[j].at) = m
      /\ SamplesAre(Slot(w, m), s, m)
  BY <1>2, SampledIs DEF S
<1>4. \A j \in I : j \in Nat /\ IndexAt(s[j].at) \in S /\ j \in SamplesIn(s, IndexAt(s[j].at))
  BY SampledIs DEF S
<1>5. PICK j \in SamplesIn(s, m) : Slot(w, m).first = s[j].mid /\ \A n \in SamplesIn(s, m) : j <= n
  BY <1>3 DEF SamplesAre
<1>6. j \in I /\ IndexAt(s[j].at) = m
  BY <1>3
<1>7. \A i \in I : Earlier(s, j, i)
  <2> SUFFICES ASSUME NEW i \in I PROVE Earlier(s, j, i)
    OBVIOUS
  <2>1. m <= IndexAt(s[i].at) /\ IndexAt(s[i].at) \in Nat
    BY <1>1, <1>2, <1>4 DEF S
  <2>2. IndexAt(s[i].at) = m => j <= i
    BY <1>4, <1>5
  <2> QED BY <2>1, <2>2, <1>3, <1>6 DEF Earlier
<1>8. c \in I /\ \A i \in I : Earlier(s, c, i)
  <2> HIDE DEF I
  <2> QED BY <1>6, <1>7
<1> HIDE DEF c
<1>9. c = j
  <2>1. Earlier(s, c, j) /\ Earlier(s, j, c)
    BY <1>6, <1>7, <1>8
  <2>2. c \in Nat /\ j \in Nat /\ IndexAt(s[c].at) \in Nat /\ IndexAt(s[j].at) \in Nat
    BY <1>1, <1>4, <1>6, <1>8 DEF S
  <2> QED BY <2>1, <2>2 DEF Earlier
<1> QED BY <1>5, <1>9 DEF c, m, S, Opening

LEMMA LastOfWindow ==
  ASSUME NEW w, NEW b, NEW s, NEW p, NEW W, NEW e, Holds(w, b, s, p, W, e), Inside(s, W) # {}
  PROVE  Slot(w, LargestIn(Sampled(w, W))).last = Closing(s, W)
<1> DEFINE S == Sampled(w, W)
           I == Inside(s, W)
           m == LargestIn(S)
           c == CHOOSE j \in I : \A i \in I : Earlier(s, i, j)
<1>1. e \in Nat /\ S \in SUBSET (0..(e - 1)) /\ S \in SUBSET Nat /\ S # {}
  BY SampledIs
<1>2. m \in S /\ \A i \in S : m >= i
  <2>1. \E x \in S : \A y \in S : x >= y
    BY <1>1, LargestBelow
  <2> HIDE DEF S
  <2> QED BY <2>1 DEF LargestIn
<1> HIDE DEF m, S
<1>3. /\ m \in Nat /\ SamplesIn(s, m) # {} /\ SamplesIn(s, m) \subseteq I
      /\ \A j \in SamplesIn(s, m) : IndexAt(s[j].at) = m
      /\ SamplesAre(Slot(w, m), s, m)
  BY <1>2, SampledIs DEF S
<1>4. \A j \in I : j \in Nat /\ IndexAt(s[j].at) \in S /\ j \in SamplesIn(s, IndexAt(s[j].at))
  BY SampledIs DEF S
<1>5. PICK j \in SamplesIn(s, m) : Slot(w, m).last = s[j].mid /\ \A n \in SamplesIn(s, m) : n <= j
  BY <1>3 DEF SamplesAre
<1>6. j \in I /\ IndexAt(s[j].at) = m
  BY <1>3
<1>7. \A i \in I : Earlier(s, i, j)
  <2> SUFFICES ASSUME NEW i \in I PROVE Earlier(s, i, j)
    OBVIOUS
  <2>1. m >= IndexAt(s[i].at) /\ IndexAt(s[i].at) \in Nat
    BY <1>1, <1>2, <1>4 DEF S
  <2>2. IndexAt(s[i].at) = m => i <= j
    BY <1>4, <1>5
  <2> QED BY <2>1, <2>2, <1>3, <1>6 DEF Earlier
<1>8. c \in I /\ \A i \in I : Earlier(s, i, c)
  <2> HIDE DEF I
  <2> QED BY <1>6, <1>7
<1> HIDE DEF c
<1>9. c = j
  <2>1. Earlier(s, c, j) /\ Earlier(s, j, c)
    BY <1>6, <1>7, <1>8
  <2>2. c \in Nat /\ j \in Nat /\ IndexAt(s[c].at) \in Nat /\ IndexAt(s[j].at) \in Nat
    BY <1>1, <1>4, <1>6, <1>8 DEF S
  <2> QED BY <2>1, <2>2 DEF Earlier
<1> QED BY <1>5, <1>9 DEF c, m, S, Closing

LEMMA HighOfWindow ==
  ASSUME NEW w, NEW b, NEW s, NEW p, NEW W, NEW e, Holds(w, b, s, p, W, e), Inside(s, W) # {}
  PROVE  LargestIn(HighsIn(w, W)) = HighOf(s, W)
<1> DEFINE S == Sampled(w, W)
           I == Inside(s, W)
           highs == HighsIn(w, W)
           values == {s[j].mid : j \in I}
           l == Len(s)
           f == [j \in 1..l |-> IF j \in I THEN s[j].mid ELSE 0]
<1>1. /\ \A j \in I : /\ j \in Nat /\ s[j].mid \in Nat /\ s[j].mid # NoPrice
                      /\ IndexAt(s[j].at) \in S /\ j \in SamplesIn(s, IndexAt(s[j].at))
      /\ \A i \in S : SamplesIn(s, i) # {} /\ SamplesIn(s, i) \subseteq I /\ SamplesAre(Slot(w, i), s, i)
  BY SampledIs
<1>2. I \subseteq 1..l /\ l \in Nat
  BY DEF Inside, Holds
<1>0. highs = {Slot(w, i).high : i \in S}
  BY DEF HighsIn
<1> HIDE DEF S, I, l, highs
<1>3. f \in [1..l -> Nat] /\ \A j \in 1..l : f[j] = IF j \in I THEN s[j].mid ELSE 0
  BY <1>1
<1>4. l \in Nat \ {0}
  BY <1>2 DEF I
<1> HIDE DEF f
<1>5. PICK n \in 1..l : \A j \in 1..l : f[n] >= f[j]
  BY <1>3, <1>4, GreatestOf
<1>6. n \in I
  <2>1. PICK j \in I : TRUE
    BY DEF I
  <2>2. j \in 1..l /\ f[j] \in Nat /\ f[j] # 0
    BY <1>1, <1>2, <1>3 DEF NoPrice
  <2>3. f[n] >= f[j] /\ f[n] \in Nat
    BY <2>2, <1>3, <1>5
  <2>4. f[n] # 0
    BY <2>2, <2>3
  <2> QED BY <2>4, <1>3
<1> DEFINE v == s[n].mid
<1>7. v \in Nat /\ \A j \in I : v >= s[j].mid
  BY <1>1, <1>2, <1>3, <1>5, <1>6
<1>8. v \in values /\ values \in SUBSET Nat /\ \A u \in values : v >= u
  BY <1>1, <1>6, <1>7
<1>9. \A i \in S : Slot(w, i).high \in values
  <2> TAKE i \in S
  <2>1. PICK j \in SamplesIn(s, i) : Slot(w, i).high = s[j].mid
    BY <1>1 DEF SamplesAre
  <2> QED BY <2>1, <1>1
<1>10. v \in highs
  <2> DEFINE i == IndexAt(s[n].at)
  <2>1. i \in S /\ n \in SamplesIn(s, i)
    BY <1>1, <1>6
  <2>2. s[n].mid <= Slot(w, i).high
    BY <1>1, <2>1 DEF SamplesAre
  <2>3. Slot(w, i).high \in values
    BY <1>9, <2>1
  <2> HIDE DEF i, values
  <2>4. Slot(w, i).high = v
    <3> PICK h : h = Slot(w, i).high
      OBVIOUS
    <3>1. v <= h /\ h \in values
      BY <2>2, <2>3
    <3>2. v \in Nat /\ h \in Nat /\ v >= h
      BY <3>1, <1>8
    <3>3. h = v
      BY <3>1, <3>2
    <3> QED BY <3>3
  <2> QED BY <1>0, <2>1, <2>4
<1>11. highs \in SUBSET Nat /\ \A u \in highs : v >= u
  <2> HIDE DEF values
  <2> QED BY <1>0, <1>8, <1>9
<1> HIDE DEF values, v
<1>12. LargestIn(highs) = v
  BY <1>10, <1>11, LargestIs DEF LargestIn
<1>13. (CHOOSE x \in values : \A y \in values : x >= y) = v
  BY <1>8, LargestIs
<1> QED BY <1>12, <1>13 DEF highs, values, S, I, HighOf, ValuesIn

LEMMA LowOfWindow ==
  ASSUME NEW w, NEW b, NEW s, NEW p, NEW W, NEW e, Holds(w, b, s, p, W, e), Inside(s, W) # {}
  PROVE  SmallestIn(LowsIn(w, W)) = LowOf(s, W)
<1> DEFINE S == Sampled(w, W)
           I == Inside(s, W)
           lows == LowsIn(w, W)
           values == {s[j].mid : j \in I}
<1>1. /\ \A j \in I : /\ j \in Nat /\ s[j].mid \in Nat /\ s[j].mid # NoPrice
                      /\ IndexAt(s[j].at) \in S /\ j \in SamplesIn(s, IndexAt(s[j].at))
      /\ \A i \in S : SamplesIn(s, i) # {} /\ SamplesIn(s, i) \subseteq I /\ SamplesAre(Slot(w, i), s, i)
  BY SampledIs
<1>2. I # {}
  OBVIOUS
<1>0. lows = {Slot(w, i).low : i \in S}
  BY DEF LowsIn
<1> HIDE DEF S, I, lows
<1>3. values \in SUBSET Nat /\ values # {}
  BY <1>1, <1>2
<1>4. PICK v \in values : \A u \in values : v <= u
  <2> HIDE DEF values
  <2> QED BY <1>3, LeastOf
<1>5. PICK n \in I : v = s[n].mid
  OBVIOUS
<1>6. \A i \in S : Slot(w, i).low \in values
  <2> TAKE i \in S
  <2>1. PICK j \in SamplesIn(s, i) : Slot(w, i).low = s[j].mid
    BY <1>1 DEF SamplesAre
  <2> QED BY <2>1, <1>1
<1>7. v \in lows
  <2> DEFINE i == IndexAt(s[n].at)
  <2>1. i \in S /\ n \in SamplesIn(s, i)
    BY <1>1, <1>5
  <2>2. Slot(w, i).low <= s[n].mid
    BY <1>1, <2>1 DEF SamplesAre
  <2>3. Slot(w, i).low \in values
    BY <1>6, <2>1
  <2> HIDE DEF i, values
  <2>4. Slot(w, i).low = v
    <3> PICK h : h = Slot(w, i).low
      OBVIOUS
    <3>1. h <= v /\ h \in values
      BY <2>2, <2>3, <1>5
    <3>2. v \in Nat /\ h \in Nat /\ v <= h
      BY <3>1, <1>3, <1>4
    <3>3. h = v
      BY <3>1, <3>2
    <3> QED BY <3>3
  <2> QED BY <1>0, <2>1, <2>4
<1>8. lows \in SUBSET Nat /\ \A u \in lows : v <= u
  <2> HIDE DEF values
  <2> QED BY <1>0, <1>3, <1>4, <1>6
<1> HIDE DEF values
<1>9. SmallestIn(lows) = v
  BY <1>7, <1>8, SmallestIs DEF SmallestIn
<1>10. (CHOOSE x \in values : \A y \in values : x <= y) = v
  BY <1>3, <1>4, SmallestIs
<1> QED BY <1>9, <1>10 DEF lows, values, S, I, LowOf, ValuesIn

\* The reading of a window from the whole history.
ReadingOf(span, e, b, s, p) ==
    LET W == WindowOf(span, e)
        none == Inside(s, W) = {}
    IN [span |-> BucketsFor(span) * Resolution,
        trusted |-> Cardinality(TrustedIn(b, W)),
        samples |-> Cardinality(Inside(s, W)),
        sum |-> History!SumTo(MidsInside(s, W), Len(s)),
        first |-> IF none THEN NoPrice ELSE Opening(s, W),
        last |-> IF none THEN NoPrice ELSE Closing(s, W),
        high |-> IF none THEN NoPrice ELSE HighOf(s, W),
        low |-> IF none THEN NoPrice ELSE LowOf(s, W),
        trades |-> Cardinality(Printed(p, W))]

LEMMA RingHolds ==
  ASSUME NEW w, NEW b, NEW s, NEW p, RingIs(w, b, s, p), NEW span, IsSpan(span)
  PROVE  /\ Holds(w, b, s, p, WindowOf(span, IndexAt(w.charged)), IndexAt(w.charged))
         /\ {i \in WindowOf(span, IndexAt(w.charged)) : w.buckets[i % Ring].index = i}
               = WindowOf(span, IndexAt(w.charged))
<1> DEFINE e == IndexAt(w.charged)
           W == WindowOf(span, e)
           k == BucketsFor(span)
<1>1. /\ e \in Nat /\ k \in Nat /\ w.charged \in Nat
      /\ b \in Seq(Statuses) /\ s \in Seq(Samples) /\ p \in Seq(Nat) /\ Len(b) = w.charged
  BY IndexIs DEF RingIs, WindowsType, IsSpan
<1>2. W \in SUBSET (0..(e - 1))
  <2> HIDE DEF e, k
  <2> QED BY <1>1 DEF WindowOf, MaxOf, k
<1>3. \A i \in W : /\ i \in Nat /\ BucketStart(i) + Resolution <= w.charged
                   /\ w.buckets[i % Ring] \in Buckets /\ w.buckets[i % Ring].index = i
                   /\ BucketIs(w.buckets[i % Ring], b, s, p, i)
  BY AllHeld
<1> HIDE DEF W
<1>4. Holds(w, b, s, p, W, e)
  BY <1>1, <1>2, <1>3 DEF Holds, Slot
<1>5. {i \in W : w.buckets[i % Ring].index = i} = W
  BY <1>3
<1> QED BY <1>4, <1>5 DEF W, e

\* A reading of the ring is the one from the whole history.
LEMMA ReadSpanIs ==
  ASSUME NEW w, NEW b, NEW s, NEW p, RingIs(w, b, s, p), NEW span, IsSpan(span)
  PROVE  ReadSpan(w, span, IndexAt(w.charged)) = ReadingOf(span, IndexAt(w.charged), b, s, p)
<1> DEFINE e == IndexAt(w.charged)
           k == BucketsFor(span)
           W == WindowOf(span, e)
           I == Inside(s, W)
           S == Sampled(w, W)
           trusted == SumBelow(Filled([i \in W |-> Resolution - Slot(w, i).untrusted], W, e), e)
           trades == SumBelow(Filled([i \in W |-> Slot(w, i).trades], W, e), e)
           count == SumBelow(Filled([i \in W |-> Slot(w, i).samples], W, e), e)
           sum == SumBelow(Filled([i \in W |-> Slot(w, i).sum], W, e), e)
           base == [EmptyReading(k) EXCEPT !.trusted = trusted, !.trades = trades]
<1>1. Holds(w, b, s, p, W, e) /\ {i \in W : w.buckets[i % Ring].index = i} = W
  BY RingHolds
<1>2. ReadSpan(w, span, e) =
         IF S = {} THEN base
         ELSE [base EXCEPT !.samples = count, !.sum = sum,
                           !.first = Slot(w, SmallestIn(S)).first,
                           !.last = Slot(w, LargestIn(S)).last,
                           !.high = LargestIn(HighsIn(w, W)),
                           !.low = SmallestIn(LowsIn(w, W))]
  BY <1>1, ZenonT(60) DEF ReadSpan, Slot, Sampled, WindowOf, Filled, HighsIn, LowsIn
<1>3. base = [span |-> k * Resolution, trusted |-> trusted, samples |-> 0, sum |-> 0,
              first |-> NoPrice, last |-> NoPrice, high |-> NoPrice, low |-> NoPrice, trades |-> trades]
  <2> HIDE DEF k, trusted, trades
  <2>1. EmptyReading(k) = [span |-> k * Resolution, trusted |-> 0, samples |-> 0, sum |-> 0,
              first |-> NoPrice, last |-> NoPrice, high |-> NoPrice, low |-> NoPrice, trades |-> 0]
    BY DEF EmptyReading
  <2> PICK r : r = EmptyReading(k)
    OBVIOUS
  <2> PICK r1 : r1 = [r EXCEPT !.trusted = trusted]
    OBVIOUS
  <2>2. r1 = [span |-> k * Resolution, trusted |-> trusted, samples |-> 0, sum |-> 0,
              first |-> NoPrice, last |-> NoPrice, high |-> NoPrice, low |-> NoPrice, trades |-> 0]
    <3> HIDE DEF W, e, S, I
    <3> QED BY <2>1
  <2>3. base = [[r EXCEPT !.trusted = trusted] EXCEPT !.trades = trades]
    OBVIOUS
  <2>4. base = [r1 EXCEPT !.trades = trades]
    <3> HIDE DEF base
    <3> QED BY <2>3
  <2> HIDE DEF base, W, e, S, I
  <2> QED BY <2>2, <2>4
<1>4. /\ trusted = Cardinality(TrustedIn(b, W)) /\ trades = Cardinality(Printed(p, W))
      /\ count = Cardinality(I) /\ sum = History!SumTo(MidsInside(s, W), Len(s))
  BY <1>1, TrustedOfWindow, TradesOfWindow, SamplesOfWindow, SumOfWindow
<1>5. S = {} <=> I = {}
  BY <1>1, SampledIs
<1> HIDE DEF e, k, W, trusted, trades, count, sum, base, S, I
<1>6. CASE S = {}
  <2>1. ReadSpan(w, span, e) =
           [span |-> k * Resolution, trusted |-> trusted, samples |-> 0, sum |-> 0, first |-> NoPrice,
            last |-> NoPrice, high |-> NoPrice, low |-> NoPrice, trades |-> trades]
    BY <1>2, <1>3, <1>6
  <2>2. I = {}
    BY <1>5, <1>6
  <2>3. Cardinality(I) = 0
    BY <2>2, FS_EmptySet
  <2>4. History!SumTo(MidsInside(s, W), Len(s)) = 0
    <3>1. s \in Seq(Samples) /\ Len(s) \in Nat /\ DOMAIN s = 1..Len(s)
      BY <1>1 DEF Holds
    <3>2. \A j \in 1..Len(s) : MidsInside(s, W)[j] = 0
      BY <2>2, <3>1 DEF MidsInside, I
    <3> QED BY <3>1, <3>2, SumOfNothing
  <2>5. ReadingOf(span, e, b, s, p) =
           [span |-> k * Resolution, trusted |-> trusted, samples |-> 0, sum |-> 0, first |-> NoPrice,
            last |-> NoPrice, high |-> NoPrice, low |-> NoPrice, trades |-> trades]
    BY <1>4, <2>2, <2>3, <2>4 DEF ReadingOf, W, I, k
  <2> QED BY <2>1, <2>5 DEF e
<1>7. CASE S # {}
  <2> DEFINE first == Slot(w, SmallestIn(S)).first
             last == Slot(w, LargestIn(S)).last
             high == LargestIn(HighsIn(w, W))
             low == SmallestIn(LowsIn(w, W))
  <2>1. I # {}
    BY <1>5, <1>7
  <2>2. /\ first = Opening(s, W) /\ last = Closing(s, W)
        /\ high = HighOf(s, W) /\ low = LowOf(s, W)
    BY <1>1, <2>1, FirstOfWindow, LastOfWindow, HighOfWindow, LowOfWindow DEF S, I
  <2>4. ReadingOf(span, e, b, s, p) =
           [span |-> k * Resolution, trusted |-> trusted, samples |-> count, sum |-> sum, first |-> first,
            last |-> last, high |-> high, low |-> low, trades |-> trades]
    <3> HIDE DEF first, last, high, low
    <3> QED BY <1>4, <2>1, <2>2 DEF ReadingOf, W, I, k
  <2> HIDE DEF first, last, high, low
  <2>5. ReadSpan(w, span, e) =
           [base EXCEPT !.samples = count, !.sum = sum, !.first = first, !.last = last, !.high = high, !.low = low]
    BY <1>2, <1>7 DEF first, last, high, low
  <2>6. ReadSpan(w, span, e) =
           [span |-> k * Resolution, trusted |-> trusted, samples |-> count, sum |-> sum, first |-> first,
            last |-> last, high |-> high, low |-> low, trades |-> trades]
    BY <2>5, <1>3
  <2> QED BY <2>4, <2>6 DEF e
<1> QED BY <1>6, <1>7

-------------------------------------------------------------------------------
(* What a reading says of the status.                                        *)

\* Where a window lies whose stream has held its status for so long.
LEMMA WindowIsRecent ==
  ASSUME NEW t \in Nat, NEW span, IsSpan(span), NEW since \in Nat,
         since + BucketsFor(span) * Resolution + Resolution - 1 + MaxDelay <= t
  PROVE  LET W == WindowOf(span, IndexAt(t)) IN
         /\ \A u \in Nat : IndexAt(u) \in W => since + MaxDelay <= u
         /\ Cardinality({u \in 1..t : IndexAt(u - 1) \in W}) = BucketsFor(span) * Resolution
<1> DEFINE e == IndexAt(t)
           k == BucketsFor(span)
           W == WindowOf(span, e)
           from == e - k
           start == BucketStart(from)
           end == BucketStart(e)
           length == k * Resolution
           ticks == {u \in 1..t : IndexAt(u - 1) \in W}
<1>1. /\ e \in Nat /\ k \in Nat \ {0} /\ Resolution \in Nat /\ Resolution > 0 /\ MaxDelay \in Nat
      /\ end <= t /\ t < end + Resolution
  <2>1. Resolution \in Nat \ {0} /\ MaxDelay \in Nat
    BY WindowsAssumption, BoundsType
  <2>2. k \in Nat \ {0}
    BY DEF IsSpan
  <2> QED BY <2>1, <2>2, IndexIs
<1> HIDE DEF k, e
<1>2. length \in Nat
  BY <1>1
<1>3. BucketStart(k) = length
  BY DEF BucketStart
<1>4. from \in Nat /\ from = e - k
  <2>1. ~(t < BucketStart(k))
    <3> HIDE DEF length
    <3> QED BY <1>1, <1>2, <1>3 DEF length, k
  <2>2. ~(e < k)
    BY <2>1, <1>1, InBucket DEF e
  <2> QED BY <2>2, <1>1
<1>5. end = start + length /\ start \in Nat /\ end \in Nat
  <2>1. (e - k) * Resolution = e * Resolution - k * Resolution
    BY <1>1
  <2>2. e * Resolution \in Nat /\ k * Resolution \in Nat
    BY <1>1
  <2>3. from \in Int
    BY <1>4
  <2>4. start \in Nat
    BY <1>4, <2>3, StartIs
  <2> QED BY <2>1, <2>2, <2>4 DEF BucketStart
<1>6. W = from..(e - 1)
  <2>1. MaxOf(e - k, 0) = e - k
    BY <1>1, <1>4 DEF MaxOf
  <2> QED BY <2>1 DEF WindowOf, k
<1> HIDE DEF from, start, end, W
<1>7. \A u \in Nat : IndexAt(u) \in W <=> start <= u /\ u < end
  <2> SUFFICES ASSUME NEW u \in Nat PROVE IndexAt(u) \in W <=> start <= u /\ u < end
    OBVIOUS
  <2>1. IndexAt(u) \in Nat
    BY IndexIs
  <2>2. from \in Int /\ e \in Int
    BY <1>1, <1>4
  <2>3. IndexAt(u) < from <=> u < start
    BY <2>2, InBucket DEF start
  <2>4. IndexAt(u) < e <=> u < end
    BY <2>2, InBucket DEF end
  <2> QED BY <2>1, <2>3, <2>4, <1>1, <1>4, <1>5, <1>6
<1>8. since + MaxDelay <= start
  <2>1. since + length + Resolution - 1 + MaxDelay <= t
    BY DEF length, k
  <2> HIDE DEF length
  <2> QED BY <2>1, <1>1, <1>2, <1>5
<1>9. \A u \in Nat : IndexAt(u) \in W => since + MaxDelay <= u
  <2> TAKE u \in Nat
  <2> QED BY <1>1, <1>5, <1>7, <1>8
<1> HIDE DEF length
<1>10. ticks = (start + 1)..end
  <2>1. \A u \in 1..t : u \in Nat /\ u - 1 \in Nat
    OBVIOUS
  <2>2. \A u \in (start + 1)..end : u \in 1..t
    BY <1>1, <1>5
  <2>3. \A u \in 1..t : IndexAt(u - 1) \in W <=> u \in (start + 1)..end
    <3> SUFFICES ASSUME NEW u \in 1..t PROVE IndexAt(u - 1) \in W <=> u \in (start + 1)..end
      OBVIOUS
    <3>1. IndexAt(u - 1) \in W <=> start <= u - 1 /\ u - 1 < end
      BY <1>7, <2>1
    <3> QED BY <3>1, <1>5
  <2> QED BY <2>2, <2>3
<1>11. Cardinality(ticks) = length
  <2>1. length > 0
    BY <1>1 DEF length
  <2>2. start + 1 \in Int /\ end \in Int /\ start + 1 <= end /\ end - (start + 1) + 1 = length
    BY <2>1, <1>2, <1>5
  <2> HIDE DEF ticks
  <2> QED BY <2>2, <1>10, FS_Interval
<1> QED BY <1>9, <1>11 DEF length, W, k, e

\* The snapshot's readings.
LEMMA SnapshotReads ==
  ASSUME StreamInv, RingInv, Snapshot
  PROVE  /\ now \in Nat /\ Len(belief') = now /\ belief' \in Seq(Statuses)
         /\ view'.status = state.status /\ view'.statusFor = Since(now, account.statusSince)
         /\ view'.windows =
               [i \in DOMAIN Spans |-> ReadingOf(Spans[i], IndexAt(now), belief', samples, prints)]
<1>1. /\ windows' = Charge(windows, now) /\ belief' = BeliefUpTo(now) /\ view' = VenueView(windows')
      /\ UNCHANGED <<samples, prints>>
  BY DEF Snapshot
<1>2. RingInv'
  BY SnapshotKeepsRing
<1>3. now \in Nat /\ Len(belief) \in Nat /\ Len(belief) <= now
  BY BoundsType DEF StreamInv, StreamType, AppliedIsCharged
<1> PICK w : w = windows'
  OBVIOUS
<1> PICK b : b = belief'
  OBVIOUS
<1>4. RingIs(w, b, samples, prints)
  BY <1>1, <1>2 DEF RingInv
<1>5. b \in Seq(Statuses) /\ Len(b) = MaxOf(Len(belief), now)
  BY <1>1, <1>3, BeliefIsGrown DEF StreamInv
<1>6. Len(b) = now /\ w.charged = now
  BY <1>3, <1>4, <1>5 DEF MaxOf, RingIs
<1>7. \A i \in DOMAIN Spans :
         ReadSpan(w, Spans[i], IndexAt(now)) = ReadingOf(Spans[i], IndexAt(now), b, samples, prints)
  <2> SUFFICES ASSUME NEW i \in DOMAIN Spans
               PROVE  ReadSpan(w, Spans[i], IndexAt(now)) = ReadingOf(Spans[i], IndexAt(now), b, samples, prints)
    OBVIOUS
  <2>1. IsSpan(Spans[i])
    BY SpansFit
  <2>2. ReadSpan(w, Spans[i], IndexAt(w.charged)) = ReadingOf(Spans[i], IndexAt(w.charged), b, samples, prints)
    BY <1>4, <2>1, ReadSpanIs
  <2> QED BY <2>2, <1>6
<1>8. view'.windows = Readings(w, now) /\ view'.status = state.status
      /\ view'.statusFor = Since(now, account.statusSince)
  BY <1>1 DEF VenueView
<1>9. view'.windows = [i \in DOMAIN Spans |-> ReadingOf(Spans[i], IndexAt(now), b, samples, prints)]
  BY <1>7, <1>8 DEF Readings
<1> QED BY <1>3, <1>5, <1>6, <1>8, <1>9

LEMMA SnapshotCovers == ASSUME StreamInv, RingInv, Snapshot PROVE CoverageFollowsStatus'
<1>1. /\ now \in Nat /\ Len(belief') = now /\ belief' \in Seq(Statuses)
      /\ view'.status = state.status /\ view'.statusFor = Since(now, account.statusSince)
      /\ view'.windows =
            [i \in DOMAIN Spans |-> ReadingOf(Spans[i], IndexAt(now), belief', samples, prints)]
  BY SnapshotReads
<1>2. belief' = BeliefUpTo(now)
  BY DEF Snapshot
<1> PICK b : b = belief'
  OBVIOUS
<1>3. b \in Seq(Statuses) /\ Len(b) = now /\ DOMAIN b = 1..now /\ Grown(belief, b, state.status)
  BY <1>1, <1>2, BeliefIsGrown DEF StreamInv
<1>4. /\ account.statusSince \in Nat /\ Len(belief) \in Nat /\ Skew \in Nat /\ MaxDelay \in Nat /\ Skew < MaxDelay
      /\ state.status \in Statuses /\ DOMAIN belief = 1..Len(belief) /\ Resolution \in Nat /\ Resolution > 0
  <2>1. Resolution \in Nat \ {0}
    BY WindowsAssumption
  <2> QED BY <2>1, BoundsType DEF StreamInv, StreamType, Accounts, States
<1>5. \A t \in 1..now : t > account.statusSince + MaxDelay => b[t] = state.status
  <2> SUFFICES ASSUME NEW t \in 1..now, t > account.statusSince + MaxDelay PROVE b[t] = state.status
    OBVIOUS
  <2>1. CASE t \in 1..Len(belief)
    BY <2>1, <1>3, <1>4 DEF StreamInv, StatusIsOld, Grown
  <2>2. CASE t > Len(belief)
    BY <2>2, <1>3 DEF Grown
  <2> QED BY <2>1, <2>2, <1>4
<1>6. state.status # "live" => \A n \in DOMAIN samples : samples[n].at <= account.statusSince + Skew
  BY DEF StreamInv, StatusIsOld
<1> SUFFICES ASSUME NEW i \in DOMAIN Spans,
                    view'.statusFor >= view'.windows[i].span + Resolution - 1 + MaxDelay
             PROVE  IF view'.status = "live"
                    THEN view'.windows[i].trusted = view'.windows[i].span
                    ELSE view'.windows[i].trusted = 0 /\ view'.windows[i].samples = 0
  BY <1>1 DEF CoverageFollowsStatus
<1> DEFINE span == Spans[i]
           since == account.statusSince
           length == BucketsFor(span) * Resolution
           W == WindowOf(span, IndexAt(now))
           reading == view'.windows[i]
<1>7. /\ reading.span = length /\ reading.trusted = Cardinality(TrustedIn(b, W))
      /\ reading.samples = Cardinality(Inside(samples, W))
  BY <1>1 DEF ReadingOf
<1>8. IsSpan(span)
  BY SpansFit
<1>9. length \in Nat
  BY <1>4, <1>8 DEF IsSpan
<1>10. since + length + Resolution - 1 + MaxDelay <= now
  <2>1. MaxOf(now - since, 0) >= length + Resolution - 1 + MaxDelay
    BY <1>1, <1>7 DEF Since
  <2>2. length > 0
    BY <1>4, <1>8 DEF IsSpan
  <2> HIDE DEF length
  <2> QED BY <2>1, <2>2, <1>1, <1>4, <1>9 DEF MaxOf
<1>11. /\ \A u \in Nat : IndexAt(u) \in W => since + MaxDelay <= u
       /\ Cardinality({u \in 1..now : IndexAt(u - 1) \in W}) = length
  BY <1>1, <1>4, <1>8, <1>10, WindowIsRecent
<1>12. \A t \in 1..now : IndexAt(t - 1) \in W => b[t] = state.status
  <2> SUFFICES ASSUME NEW t \in 1..now, IndexAt(t - 1) \in W PROVE b[t] = state.status
    OBVIOUS
  <2>1. t - 1 \in Nat
    OBVIOUS
  <2>2. since + MaxDelay <= t - 1
    BY <2>1, <1>11
  <2> QED BY <2>1, <2>2, <1>4, <1>5
<1>13. CASE state.status = "live"
  <2>1. TrustedIn(b, W) = {u \in 1..now : IndexAt(u - 1) \in W}
    BY <1>3, <1>12, <1>13 DEF TrustedIn
  <2> QED BY <2>1, <1>1, <1>7, <1>11, <1>13
<1>14. CASE state.status # "live"
  <2>1. TrustedIn(b, W) = {}
    BY <1>3, <1>12, <1>14 DEF TrustedIn
  <2>2. Inside(samples, W) = {}
    <3> SUFFICES ASSUME NEW n \in DOMAIN samples, IndexAt(samples[n].at) \in W PROVE FALSE
      BY DEF Inside
    <3>1. samples[n].at \in Nat /\ samples[n].at <= since + Skew
      BY <1>6, <1>14, ElementsType DEF StreamInv
    <3>2. since + MaxDelay <= samples[n].at
      BY <3>1, <1>11
    <3> QED BY <3>1, <3>2, <1>4
  <2> QED BY <2>1, <2>2, <1>1, <1>7, <1>14, FS_EmptySet
<1> QED BY <1>13, <1>14

\* What the theorems rest on.
ViewsIInv == StreamInv /\ RingInv /\ CoverageFollowsStatus

LEMMA ViewsInit == Init => ViewsIInv
<1> SUFFICES ASSUME Init PROVE CoverageFollowsStatus
  BY StreamInit, RingInit DEF ViewsIInv
<1>1. view.windows = <<>>
  BY DEF Init, NoView
<1> QED BY <1>1 DEF CoverageFollowsStatus

LEMMA ViewsStep == ViewsIInv /\ [Next]_vars => ViewsIInv'
<1> SUFFICES ASSUME ViewsIInv, [Next]_vars PROVE CoverageFollowsStatus'
  BY StreamStep, RingStep DEF ViewsIInv
<1>1. ASSUME view' = view PROVE CoverageFollowsStatus'
  BY <1>1 DEF ViewsIInv, CoverageFollowsStatus
<1>2. CASE UNCHANGED vars
  BY <1>1, <1>2 DEF vars
<1>3. CASE Tick
  BY <1>1, <1>3 DEF Tick
<1>4. ASSUME NEW content \in Contents, NEW at \in 0..MaxTime, Receive(content, at)
      PROVE  CoverageFollowsStatus'
  BY <1>1, <1>4 DEF Receive
<1>5. CASE Apply
  BY <1>1, <1>5 DEF Apply
<1> QED BY <1>2, <1>3, <1>4, <1>5, SnapshotCovers DEF Next, ViewsIInv

LEMMA ViewsTyped == ViewsIInv => TypeOK
<1> SUFFICES ASSUME ViewsIInv PROVE TypeOK
  OBVIOUS
<1>1. /\ now \in 0..MaxTime /\ received \in 0..MaxMessages /\ now \in Nat
      /\ queue \in Seq(Messages) /\ Len(queue) <= MaxQueue
      /\ state \in States /\ account \in Accounts
      /\ (account.since # Never <=> state.status = "desynced")
      /\ Len(belief) \in Nat /\ Len(belief) <= now
      /\ account.since <= Len(belief)
  BY BoundsType DEF ViewsIInv, StreamInv, StreamType, AppliedIsCharged
<1>2. \A i \in DOMAIN queue : queue[i].kind \in Kinds /\ queue[i].at \in 0..now
  <2> TAKE i \in DOMAIN queue
  <2>1. queue[i] \in Messages /\ queue[i].at \in Nat
    BY ElementsType DEF ViewsIInv, StreamInv
  <2>2. queue[i].at <= now
    BY DEF ViewsIInv, StreamInv, QueueIsRecent
  <2> QED BY <2>1, <2>2, <1>1 DEF Messages
<1>3. state.status \in Statuses /\ account.total \in Nat /\ account.since \in {Never} \union 0..now
  <2>1. account.since \in {Never} \union Nat /\ account.total \in Nat /\ state.status \in Statuses
    BY <1>1 DEF States, Accounts
  <2> QED BY <2>1, <1>1 DEF Never
<1>4. windows.charged \in 0..now /\ Len(belief) = windows.charged /\ windows.trusted = (state.status = "live")
  BY <1>1 DEF ViewsIInv, RingInv, RingIs
<1>5. \A slot \in DOMAIN windows.buckets :
         /\ windows.buckets[slot].untrusted \in 0..Resolution
         /\ windows.buckets[slot].index \in {NoIndex} \union {i \in Nat : i % Ring = slot}
  <2>1. windows.buckets \in [0..(Ring - 1) -> Buckets] /\ Resolution \in Nat
    BY WindowsAssumption DEF ViewsIInv, RingInv, RingIs, WindowsType
  <2> TAKE slot \in DOMAIN windows.buckets
  <2>2. slot \in 0..(Ring - 1) /\ windows.buckets[slot] \in Buckets
    BY <2>1
  <2>3. /\ windows.buckets[slot].untrusted <= Resolution
        /\ windows.buckets[slot].index # NoIndex => windows.buckets[slot].index % Ring = slot
    BY <2>2 DEF ViewsIInv, RingInv, RingIs
  <2>4. windows.buckets[slot].untrusted \in Nat /\ windows.buckets[slot].index \in {NoIndex} \union Nat
    BY <2>2 DEF Buckets
  <2> QED BY <2>1, <2>3, <2>4
<1> QED BY <1>1, <1>2, <1>3, <1>4, <1>5 DEF TypeOK

\* Every step keeps the ring and the account well formed, and a book that has held
\* its status for longer than a window is reported covered in full, or not at all
\* (RollingWindows::charge and read_span, Aggregator::snapshot).
THEOREM ViewsAreInvariant == Spec => []Inv
<1>1. Spec => []ViewsIInv
  BY ViewsInit, ViewsStep, PTL DEF Spec
<1>2. ViewsIInv => Inv
  BY ViewsTyped DEF ViewsIInv, Inv
<1> QED BY <1>1, <1>2, PTL

-------------------------------------------------------------------------------
(* The ring and the whole history.                                           *)

\* When the book was trusted, as the history has it.
Believed(b) == [t \in DOMAIN b |-> b[t] = "live"]

\* A sequence that grows is mapped to one that grows.
Mapped(F, b) == [i \in DOMAIN b |-> F[b[i]]]

LEMMA MappedGrows ==
  ASSUME NEW S, NEW F, NEW b \in Seq(S), NEW longer \in Seq(S), NEW x \in S,
         NEW t \in Nat, Grown(b, longer, x), Len(longer) = MaxOf(Len(b), t)
  PROVE  Mapped(F, longer) = Extended(Mapped(F, b), F[x], t)
<1> DEFINE u == Mapped(F, b)
           v == Mapped(F, longer)
           y == Extended(u, F[x], t)
           R == {F[s] : s \in S}
<1>1. Len(b) \in Nat /\ Len(longer) \in Nat /\ DOMAIN b = 1..Len(b) /\ DOMAIN longer = 1..Len(longer)
      /\ Len(b) <= Len(longer) /\ F[x] \in R
  BY DEF Grown
<1>2. u \in Seq(R) /\ Len(u) = Len(b) /\ \A i \in 1..Len(b) : u[i] = F[b[i]]
  <2>1. u \in [1..Len(b) -> R] /\ \A i \in 1..Len(b) : u[i] = F[b[i]]
    BY <1>1 DEF Mapped
  <2> HIDE DEF u
  <2> QED BY <2>1, <1>1
<1>3. v = [i \in 1..Len(longer) |-> F[longer[i]]]
  BY <1>1 DEF Mapped
<1> HIDE DEF u, v, R
<1>4. /\ y \in Seq(R) /\ Len(y) = MaxOf(Len(u), t)
      /\ \A i \in 1..Len(u) : y[i] = u[i]
      /\ \A i \in 1..Len(y) : i > Len(u) => y[i] = F[x]
  BY <1>1, <1>2, UpToIs
<1> HIDE DEF y
<1>5. y = [i \in 1..Len(longer) |-> y[i]]
  BY <1>2, <1>4
<1>6. ASSUME NEW i \in 1..Len(longer) PROVE y[i] = F[longer[i]]
  <2>1. CASE i \in 1..Len(b)
    BY <2>1, <1>2, <1>4 DEF Grown
  <2>2. CASE i > Len(b)
    BY <2>2, <1>2, <1>4 DEF Grown
  <2> QED BY <2>1, <2>2, <1>1
<1>7. y = v
  BY <1>3, <1>5, <1>6
<1> QED BY <1>7 DEF y, u, v

LEMMA BelievedGrows ==
  ASSUME NEW b \in Seq(Statuses), NEW longer \in Seq(Statuses), NEW x \in Statuses, NEW t \in Nat,
         Grown(b, longer, x), Len(longer) = MaxOf(Len(b), t)
  PROVE  Believed(longer) = Extended(Believed(b), x = "live", t)
<1> DEFINE F == [s \in Statuses |-> s = "live"]
<1>2. F[x] = (x = "live")
  OBVIOUS
<1>3. ASSUME NEW c \in Seq(Statuses) PROVE Believed(c) = Mapped(F, c)
  <2>1. \A i \in DOMAIN c : c[i] \in Statuses
    OBVIOUS
  <2> QED BY <2>1 DEF Believed, Mapped
<1> HIDE DEF F
<1>4. Mapped(F, longer) = Extended(Mapped(F, b), F[x], t)
  BY ONLY MappedGrows, b \in Seq(Statuses), longer \in Seq(Statuses), x \in Statuses,
          t \in Nat, Grown(b, longer, x), Len(longer) = MaxOf(Len(b), t)
<1>5. Believed(longer) = Extended(Believed(b), F[x], t)
  BY ONLY <1>4, <1>3, longer \in Seq(Statuses), b \in Seq(Statuses)
<1> QED BY <1>5, <1>2

LEMMA BelievedUpTo ==
  ASSUME StreamInv, RingInv, NEW t \in Nat, belief' = BeliefUpTo(t)
  PROVE  Believed(belief') = History!UpTo(t)
<1> PICK b : b = belief'
  OBVIOUS
<1>1. b \in Seq(Statuses) /\ Grown(belief, b, state.status) /\ Len(b) = MaxOf(Len(belief), t)
  BY BeliefIsGrown DEF StreamInv
<1>2. belief \in Seq(Statuses) /\ state.status \in Statuses /\ windows.trusted = (state.status = "live")
  BY DEF StreamInv, StreamType, States, RingInv
<1>3. Believed(b) = Extended(Believed(belief), state.status = "live", t)
  BY ONLY <1>1, <1>2, t \in Nat, BelievedGrows
<1>4. Believed(b) = Extended(Believed(belief), windows.trusted, t)
  BY ONLY <1>3, <1>2
<1>5. History!UpTo(t) = Extended(Believed(belief), windows.trusted, t)
  BY DEF History!UpTo, Believed, Extended
<1> QED BY <1>4, <1>5

\* The abstract specification counts with an operator of its own instance.
LEMMA SameCardinality == \A S : History!Cardinality(S) = Cardinality(S)
  BY DEF History!Cardinality, Cardinality, History!IsFiniteSet, IsFiniteSet

\* What the abstract specification reads.
LEMMA HistoryReads ==
  ASSUME belief' \in Seq(Statuses), NEW span, IsSpan(span), NEW t \in Nat
  PROVE  History!Reading(span, t) = ReadingOf(span, IndexAt(t), belief', samples, prints)
<1> DEFINE W == WindowOf(span, IndexAt(t))
           k == BucketsFor(span)
           e == IndexAt(t)
<1>1. History!Window(span, t) = W
  <2>1. History!Window(span, t) = (IF e > k THEN e - k ELSE 0)..(e - 1)
    BY DEF History!Window, IndexAt, BucketsFor
  <2>2. e \in Nat /\ k \in Nat
    BY IndexIs DEF IsSpan
  <2>3. MaxOf(e - k, 0) = IF e > k THEN e - k ELSE 0
    <3> HIDE DEF e, k
    <3> QED BY <2>2 DEF MaxOf
  <2> QED BY <2>1, <2>3 DEF WindowOf
<1> HIDE DEF W, e
<1> DEFINE inside == {j \in DOMAIN samples : samples[j].at \div Resolution \in W}
           none == inside = {}
           values == {samples[j].mid : j \in inside}
           Bucket(j) == samples[j].at \div Resolution
           Before(i, j) == Bucket(i) < Bucket(j) \/ (Bucket(i) = Bucket(j) /\ i <= j)
<1>2. inside = Inside(samples, W)
  BY DEF Inside, IndexAt
<1>3. Cardinality({u \in DOMAIN Believed(belief') :
                      Believed(belief')[u] /\ (u - 1) \div Resolution \in W}) = Cardinality(TrustedIn(belief', W))
  <2>1. {u \in DOMAIN Believed(belief') : Believed(belief')[u] /\ (u - 1) \div Resolution \in W}
           = TrustedIn(belief', W)
    BY DEF Believed, TrustedIn, IndexAt
  <2> QED BY <2>1
<1>4. [j \in DOMAIN samples |-> IF j \in inside THEN samples[j].mid ELSE 0] = MidsInside(samples, W)
  BY <1>2 DEF MidsInside
<1>5. samples[CHOOSE j \in inside : \A i \in inside : Before(j, i)].mid = Opening(samples, W)
  BY DEF Opening, Inside, Earlier, IndexAt
<1>6. samples[CHOOSE j \in inside : \A i \in inside : Before(i, j)].mid = Closing(samples, W)
  BY DEF Closing, Inside, Earlier, IndexAt
<1>7. (CHOOSE v \in values : \A u \in values : v >= u) = HighOf(samples, W)
  BY DEF HighOf, ValuesIn, Inside, IndexAt
<1>8. (CHOOSE v \in values : \A u \in values : v <= u) = LowOf(samples, W)
  BY DEF LowOf, ValuesIn, Inside, IndexAt
<1>9. {n \in DOMAIN prints : prints[n] \div Resolution \in W} = Printed(prints, W)
  BY DEF Printed, IndexAt
<1>10. History!Reading(span, t) =
        [span |-> k * Resolution,
         trusted |-> Cardinality({u \in DOMAIN Believed(belief') :
                      Believed(belief')[u] /\ (u - 1) \div Resolution \in W}),
         samples |-> Cardinality(inside),
         sum |-> History!SumTo([j \in DOMAIN samples |-> IF j \in inside THEN samples[j].mid ELSE 0],
                               Len(samples)),
         first |-> IF none THEN 0 ELSE samples[CHOOSE j \in inside : \A i \in inside : Before(j, i)].mid,
         last |-> IF none THEN 0 ELSE samples[CHOOSE j \in inside : \A i \in inside : Before(i, j)].mid,
         high |-> IF none THEN 0 ELSE CHOOSE v \in values : \A u \in values : v >= u,
         low |-> IF none THEN 0 ELSE CHOOSE v \in values : \A u \in values : v <= u,
         trades |-> Cardinality({n \in DOMAIN prints : prints[n] \div Resolution \in W})]
  <2> DEFINE H == History!Window(span, t)
             in == {j \in DOMAIN samples : Bucket(j) \in H}
             vs == {samples[j].mid : j \in in}
  <2>1. History!Reading(span, t) =
        [span |-> ((span + Resolution - 1) \div Resolution) * Resolution,
         trusted |-> History!Cardinality({u \in DOMAIN Believed(belief') :
                      Believed(belief')[u] /\ (u - 1) \div Resolution \in H}),
         samples |-> History!Cardinality(in),
         sum |-> History!SumTo([j \in DOMAIN samples |-> IF j \in in THEN samples[j].mid ELSE 0],
                               Len(samples)),
         first |-> IF in = {} THEN 0 ELSE samples[CHOOSE j \in in : \A i \in in : Before(j, i)].mid,
         last |-> IF in = {} THEN 0 ELSE samples[CHOOSE j \in in : \A i \in in : Before(i, j)].mid,
         high |-> IF in = {} THEN 0 ELSE CHOOSE v \in vs : \A u \in vs : v >= u,
         low |-> IF in = {} THEN 0 ELSE CHOOSE v \in vs : \A u \in vs : v <= u,
         trades |-> History!Cardinality({n \in DOMAIN prints : prints[n] \div Resolution \in H})]
    BY DEF History!Reading, Believed
  <2>2. H = W
    BY <1>1
  <2> HIDE DEF H
  <2>3. in = inside
    BY <2>2
  <2>4. vs = values
    BY <2>3
  <2>5. {u \in DOMAIN Believed(belief') : Believed(belief')[u] /\ (u - 1) \div Resolution \in H}
          = {u \in DOMAIN Believed(belief') : Believed(belief')[u] /\ (u - 1) \div Resolution \in W}
    BY ONLY <2>2
  <2>6. {n \in DOMAIN prints : prints[n] \div Resolution \in H}
          = {n \in DOMAIN prints : prints[n] \div Resolution \in W}
    BY ONLY <2>2
  <2> HIDE DEF in, vs, inside, values, Before, Bucket
  <2>7. [j \in DOMAIN samples |-> IF j \in in THEN samples[j].mid ELSE 0]
          = [j \in DOMAIN samples |-> IF j \in inside THEN samples[j].mid ELSE 0]
    BY ONLY <2>3
  <2>8. /\ (CHOOSE j \in in : \A i \in in : Before(j, i))
              = (CHOOSE j \in inside : \A i \in inside : Before(j, i))
        /\ (CHOOSE j \in in : \A i \in in : Before(i, j))
              = (CHOOSE j \in inside : \A i \in inside : Before(i, j))
    BY ONLY <2>3
  <2>9. /\ (CHOOSE v \in vs : \A u \in vs : v >= u) = (CHOOSE v \in values : \A u \in values : v >= u)
        /\ (CHOOSE v \in vs : \A u \in vs : v <= u) = (CHOOSE v \in values : \A u \in values : v <= u)
    BY ONLY <2>4
  <2>10. (in = {}) = none
    BY ONLY <2>3 DEF none
  <2> DEFINE f1 == samples[CHOOSE j \in inside : \A i \in inside : Before(j, i)].mid
             f2 == samples[CHOOSE j \in inside : \A i \in inside : Before(i, j)].mid
             f3 == CHOOSE v \in values : \A u \in values : v >= u
             f4 == CHOOSE v \in values : \A u \in values : v <= u
             g1 == samples[CHOOSE j \in in : \A i \in in : Before(j, i)].mid
             g2 == samples[CHOOSE j \in in : \A i \in in : Before(i, j)].mid
             g3 == CHOOSE v \in vs : \A u \in vs : v >= u
             g4 == CHOOSE v \in vs : \A u \in vs : v <= u
  <2>11. /\ (IF in = {} THEN 0 ELSE g1) = (IF none THEN 0 ELSE f1)
         /\ (IF in = {} THEN 0 ELSE g2) = (IF none THEN 0 ELSE f2)
         /\ (IF in = {} THEN 0 ELSE g3) = (IF none THEN 0 ELSE f3)
         /\ (IF in = {} THEN 0 ELSE g4) = (IF none THEN 0 ELSE f4)
    <3>1. g1 = f1 /\ g2 = f2 /\ g3 = f3 /\ g4 = f4
      BY ONLY <2>8, <2>9
    <3> HIDE DEF f1, f2, f3, f4, g1, g2, g3, g4, none
    <3> QED BY ONLY <3>1, <2>10
  <2>12. k = (span + Resolution - 1) \div Resolution
    BY ONLY DEF k, BucketsFor
  <2> HIDE DEF k, none
  <2> QED BY ONLY <2>1, <2>3, <2>5, <2>6, <2>7, <2>11, <2>12, SameCardinality
<1> HIDE DEF inside, values, Before
<1>11. ReadingOf(span, e, belief', samples, prints) =
        [span |-> k * Resolution,
         trusted |-> Cardinality(TrustedIn(belief', W)),
         samples |-> Cardinality(inside),
         sum |-> History!SumTo(MidsInside(samples, W), Len(samples)),
         first |-> IF none THEN 0 ELSE Opening(samples, W),
         last |-> IF none THEN 0 ELSE Closing(samples, W),
         high |-> IF none THEN 0 ELSE HighOf(samples, W),
         low |-> IF none THEN 0 ELSE LowOf(samples, W),
         trades |-> Cardinality(Printed(prints, W))]
  BY <1>2 DEF ReadingOf, W, e, NoPrice
<1> QED BY <1>3, <1>4, <1>5, <1>6, <1>7, <1>8, <1>9, <1>10, <1>11 DEF e

LEMMA HistoryStarts == Init => History!Init
<1> SUFFICES ASSUME Init PROVE History!Init
  OBVIOUS
<1>1. samples = <<>> /\ prints = <<>> /\ belief = <<>> /\ windows.trusted = FALSE /\ view.windows = <<>>
  BY DEF Init, NewWindows, NoView
<1>2. [t \in DOMAIN belief |-> belief[t] = "live"] = <<>>
  BY <1>1
<1> QED BY <1>1, <1>2 DEF History!Init

LEMMA SnapshotIsRead == ASSUME StreamInv, RingInv, Snapshot PROVE \E t \in 0..MaxTime : History!Read(t)
<1> PICK t : t = now
  OBVIOUS
<1>1. /\ t \in Nat /\ belief' \in Seq(Statuses)
      /\ view'.windows =
            [i \in DOMAIN Spans |-> ReadingOf(Spans[i], IndexAt(t), belief', samples, prints)]
  BY SnapshotReads
<1>2. belief' = BeliefUpTo(t) /\ UNCHANGED <<state, samples, prints>>
  BY DEF Snapshot
<1>3. Believed(belief') = History!UpTo(t)
  BY ONLY <1>1, <1>2, BelievedUpTo, StreamInv, RingInv
<1>4. view'.windows = [i \in DOMAIN Spans |-> History!Reading(Spans[i], t)]
  <2>1. ASSUME NEW i \in DOMAIN Spans
        PROVE  History!Reading(Spans[i], t) = ReadingOf(Spans[i], IndexAt(t), belief', samples, prints)
    <3>1. IsSpan(Spans[i])
      BY SpansFit
    <3> QED BY ONLY <1>1, <3>1, HistoryReads
  <2> QED BY <1>1, <2>1
<1>5. windows'.trusted = windows.trusted
  <2>1. RingInv'
    BY SnapshotKeepsRing
  <2>2. RingInv => windows.trusted = (state.status = "live")
    BY DEF RingInv
  <2>3. windows'.trusted = (state'.status = "live")
    BY <2>1 DEF RingInv
  <2> QED BY <2>2, <2>3, <1>2
<1>6. t \in 0..MaxTime
  BY DEF StreamInv, StreamType
<1>7. History!Read(t)
  BY <1>2, <1>3, <1>4, <1>5 DEF History!Read, Believed
<1> QED BY <1>6, <1>7

LEMMA ApplyIsMessage ==
  ASSUME StreamInv, RingInv, Apply
  PROVE  \E at \in 0..MaxTime, holds \in BOOLEAN, mid \in Mids, print \in BOOLEAN :
            History!Message(at, holds, mid, print)
<1> DEFINE m == Head(queue)
           holds == state'.status = "live"
           print == m.kind = "trade"
           mid == IF holds THEN state'.mid ELSE m.mid
<1>1. /\ m \in Messages /\ m.at \in Nat /\ m.at <= now /\ now <= m.at + MaxDelay /\ Transition(m)
  BY ApplyIs
<1>2. state'.status = "live" => state'.mid \in Mids
  BY <1>1, TransitionType
<1>3. /\ belief' = BeliefUpTo(m.at) /\ view' = view
      /\ samples' = (IF holds /\ state'.mid # NoPrice
                     THEN Append(samples, [at |-> m.at, mid |-> state'.mid])
                     ELSE samples)
      /\ prints' = (IF print THEN Append(prints, m.at) ELSE prints)
  BY <1>1 DEF Transition, Apply
<1>4. m.at \in 0..MaxTime
  BY <1>1, BoundsType DEF StreamInv, StreamType
<1>5. m.mid \in Mids
  BY <1>1 DEF Messages
<1> HIDE DEF m
<1>6. mid \in Mids /\ holds \in BOOLEAN /\ print \in BOOLEAN
  BY <1>2, <1>5
<1>7. Believed(belief') = History!UpTo(m.at)
  BY <1>1, <1>3, BelievedUpTo
<1>8. windows'.trusted = holds
  <2>1. RingInv'
    BY ApplyKeepsRing
  <2> QED BY <2>1 DEF RingInv
<1>9. samples' = IF holds /\ mid # 0 THEN Append(samples, [at |-> m.at, mid |-> mid]) ELSE samples
  BY <1>3 DEF NoPrice
<1> PICK at, l, x, p : at = m.at /\ l = holds /\ x = mid /\ p = print
  OBVIOUS
<1> HIDE DEF mid, holds, print
<1>10. History!Message(at, l, x, p)
  BY <1>3, <1>7, <1>8, <1>9 DEF History!Message, Believed
<1> QED BY <1>4, <1>6, <1>10

LEMMA StepIsOfTheHistory == ViewsIInv /\ [Next]_vars => [History!Next]_(History!vars)
<1> SUFFICES ASSUME ViewsIInv, [Next]_vars PROVE [History!Next]_(History!vars)
  OBVIOUS
<1>0. StreamInv /\ RingInv
  BY DEF ViewsIInv
<1>1. ASSUME UNCHANGED <<windows, view, samples, prints, belief>> PROVE UNCHANGED History!vars
  BY <1>1 DEF History!vars
<1>2. CASE UNCHANGED vars
  BY <1>1, <1>2 DEF vars
<1>3. CASE Tick
  BY <1>1, <1>3 DEF Tick, history
<1>4. ASSUME NEW content \in Contents, NEW at \in 0..MaxTime, Receive(content, at)
      PROVE  UNCHANGED History!vars
  BY <1>1, <1>4 DEF Receive, history
<1>5. CASE Apply
  <2>1. \E at \in 0..MaxTime, holds \in BOOLEAN, mid \in Mids, print \in BOOLEAN :
           History!Message(at, holds, mid, print)
    BY <1>0, <1>5, ApplyIsMessage
  <2> QED BY <2>1 DEF History!Next, Mids
<1>6. CASE Snapshot
  <2>1. \E t \in 0..MaxTime : History!Read(t)
    BY <1>0, <1>6, SnapshotIsRead
  <2> QED BY <2>1 DEF History!Next
<1> QED BY <1>2, <1>3, <1>4, <1>5, <1>6 DEF Next

\* The ring forgets nothing a window still covers and remembers nothing else: every
\* step of the stream is one of the specification that keeps the whole history, or
\* leaves its state alone (RollingWindows).
THEOREM RingImplementsHistory == Spec => RingKeepsTheHistory
<1>1. Spec => []ViewsIInv
  BY ViewsInit, ViewsStep, PTL DEF Spec
<1>2. Init => History!Init
  BY HistoryStarts
<1>3. ViewsIInv /\ [Next]_vars => [History!Next]_(History!vars)
  BY StepIsOfTheHistory
<1> QED BY <1>1, <1>2, <1>3, PTL DEF Spec, History!Spec, RingKeepsTheHistory
===============================================================================
