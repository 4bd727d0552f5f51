----------------------------- MODULE GatewayProofs -----------------------------
(* Theorems about Gateway, for any nodes, venues, limits and capacity: how   *)
(* long the snapshots on their way, the report that was kept and the rule    *)
(* for stale nodes can together keep a former owner in the merge, and how    *)
(* old a leg of the merged touch can be.                                     *)
EXTENDS Gateway, WellFoundedInduction, TLAPS

-------------------------------------------------------------------------------
(* The inductive invariant.                                                  *)

\* Whoever does not own a stream published it last before the stream was last
\* released: each of its snapshots that shows the stream is at least as many
\* places from the end of the ring as there were ticks since then, and its report
\* is at least as old.
FormerOwnersFade ==
    \A n \in Nodes, v \in Venues :
        owner[v] # n =>
            /\ \A i \in DOMAIN ring[n] :
                  v \in DOMAIN ring[n][i] => moved[v] <= Len(ring[n]) - i
            /\ report[n].heard /\ report[n].lag <= MaxNodeAge /\ v \in DOMAIN report[n].views
                  => moved[v] <= report[n].transit + report[n].lag

IInv == TypeOK /\ FormerOwnersFade

-------------------------------------------------------------------------------
(* Types.                                                                    *)

LEMMA LimitsType ==
  /\ Capacity \in Nat /\ Capacity >= 1
  /\ MaxAge \in Nat /\ MaxNodeAge \in Nat /\ Disturbances \in Nat
  /\ Old = MaxAge + 1 /\ LongAgo = MaxNodeAge + Capacity + 1
BY GatewayAssumption DEF Old, LongAgo

LEMMA AgesGrow == \A age \in Ages : Older(age) \in Ages
BY LimitsType DEF Ages, Older, NoAge

LEMMA BlankType == Blank \in BookViews
BY LimitsType DEF Blank, BookViews, Ages, NoAge

LEMMA AgedType ==
  ASSUME TypeOK, NEW n \in Nodes, NEW fresh \in SUBSET Venues
  PROVE  Aged(n, fresh) \in [Venues -> BookViews]
<1>1. SUFFICES ASSUME NEW v \in Venues
               PROVE  (IF v \in fresh /\ owner[v] = n
                       THEN [status |-> "live", age |-> 0]
                       ELSE [books[n][v] EXCEPT !.age = Older(@)]) \in BookViews
  BY DEF Aged
<1>2. [status |-> "live", age |-> 0] \in BookViews
  BY LimitsType DEF BookViews, Ages
<1>3. books[n][v] \in BookViews
  BY DEF TypeOK
<1>4. [books[n][v] EXCEPT !.age = Older(@)] \in BookViews
  BY <1>3, AgesGrow DEF BookViews
<1> QED BY <1>2, <1>4

\* The snapshot a node publishes shows its own streams and no other.
LEMMA PublishedType ==
  ASSUME TypeOK, NEW n \in Nodes, NEW fresh \in SUBSET Venues
  PROVE  /\ [v \in Owned(n) |-> Aged(n, fresh)[v]] \in Snapshots
         /\ DOMAIN [v \in Owned(n) |-> Aged(n, fresh)[v]] = Owned(n)
<1>1. Owned(n) \in SUBSET Venues
  BY DEF Owned
<1>2. [v \in Owned(n) |-> Aged(n, fresh)[v]] \in [Owned(n) -> BookViews]
  BY <1>1, AgedType
<1> QED BY <1>1, <1>2 DEF Snapshots

\* A sent snapshot is the last of the ring, and the others keep their distance
\* from the end, or are one place further from it when nothing was dropped.
LEMMA SendIs ==
  ASSUME NEW S, NEW s \in Seq(S), NEW e \in S, Len(s) <= Capacity
  PROVE  /\ Send(s, e) \in Seq(S)
         /\ Len(Send(s, e)) <= Capacity
         /\ \A i \in DOMAIN Send(s, e) :
               \/ i = Len(Send(s, e)) /\ Send(s, e)[i] = e
               \/ \E j \in DOMAIN s : /\ Send(s, e)[i] = s[j]
                                      /\ Len(Send(s, e)) - i = Len(s) - j + 1
<1>1. Capacity \in Nat /\ Capacity >= 1
  BY LimitsType
<1>2. CASE Len(s) = Capacity
  <2>1. /\ Tail(s) \in Seq(S) /\ Len(Tail(s)) = Len(s) - 1
        /\ \A i \in DOMAIN Tail(s) : i + 1 \in DOMAIN s /\ Tail(s)[i] = s[i + 1]
    BY <1>1, <1>2
  <2> DEFINE t == Tail(s)
  <2> HIDE DEF t
  <2>2. /\ Append(t, e) \in Seq(S) /\ Len(Append(t, e)) = Len(t) + 1
        /\ DOMAIN Append(t, e) = 1..Len(t) + 1 /\ DOMAIN t = 1..Len(t)
        /\ Append(t, e)[Len(t) + 1] = e
        /\ \A i \in DOMAIN t : Append(t, e)[i] = t[i]
    BY <2>1 DEF t
  <2>3. Send(s, e) = Append(t, e) /\ Len(s) \in Nat
    BY <1>2 DEF Send, t
  <2>4. ASSUME NEW i \in DOMAIN t
        PROVE  \E j \in DOMAIN s : Send(s, e)[i] = s[j] /\ Len(Send(s, e)) - i = Len(s) - j + 1
    <3>1. /\ i + 1 \in DOMAIN s /\ Send(s, e)[i] = s[i + 1]
      BY <2>1, <2>2, <2>3 DEF t
    <3>2. i \in Int /\ Len(Send(s, e)) = Len(s) /\ Len(s) \in Int
      BY <2>1, <2>2, <2>3 DEF t
    <3>3. Len(Send(s, e)) - i = Len(s) - (i + 1) + 1
      BY <3>2
    <3> QED BY <3>1, <3>3
  <2>5. Len(Send(s, e)) <= Capacity
    BY <1>2, <2>1, <2>2, <2>3 DEF t
  <2>6. \A i \in DOMAIN Send(s, e) : i \in DOMAIN t \/ i = Len(Send(s, e))
    BY <2>1, <2>2, <2>3 DEF t
  <2> QED BY <2>2, <2>3, <2>4, <2>5, <2>6
<1>3. CASE Len(s) # Capacity
  <2>1. Send(s, e) = Append(s, e)
    BY <1>3 DEF Send
  <2> QED BY <1>1, <1>3, <2>1
<1> QED BY <1>2, <1>3

LEMMA TailIs ==
  ASSUME NEW S, NEW s \in Seq(S), s # <<>>
  PROVE  /\ Tail(s) \in Seq(S) /\ Head(s) = s[1] /\ s[1] \in S /\ 1 \in DOMAIN s
         /\ Len(Tail(s)) = Len(s) - 1 /\ Len(s) \in Nat /\ Len(s) >= 1
         /\ \A i \in DOMAIN Tail(s) : i \in Int /\ i + 1 \in DOMAIN s /\ Tail(s)[i] = s[i + 1]
OBVIOUS

LEMMA InitInvariant == Init => IInv
<1> SUFFICES ASSUME Init PROVE IInv
  OBVIOUS
<1> USE DEF Init
<1>1. owner \in [Venues -> Nodes \union {NoNode}] /\ \A v \in Venues : owner[v] \in Nodes
  BY GatewayAssumption
<1>2. moved \in [Venues -> 0..LongAgo] /\ disturbed \in 0..Disturbances
  BY LimitsType
<1>3. books \in [Nodes -> [Venues -> BookViews]]
  BY BlankType
<1>4. ring \in [Nodes -> Seq(Snapshots)] /\ conn \in [Nodes -> BOOLEAN]
  OBVIOUS
<1>5. NotHeard \in Reports
  <2>1. <<>> \in [{} -> BookViews]
    OBVIOUS
  <2>2. <<>> \in Snapshots
    BY <2>1 DEF Snapshots
  <2> QED BY <2>2, LimitsType DEF NotHeard, Reports
<1>6. TypeOK
  BY <1>1, <1>2, <1>3, <1>4, <1>5, LimitsType DEF TypeOK
<1>7. FormerOwnersFade
  BY DEF FormerOwnersFade, NotHeard
<1> QED BY <1>6, <1>7 DEF IInv

-------------------------------------------------------------------------------
(* The nodes.                                                                *)

\* What a tick does to the ring of a connected node.
LEMMA PublishedFades ==
  ASSUME IInv, NEW n \in Nodes, NEW fresh \in SUBSET Venues,
         NEW sent, sent = Send(ring[n], [v \in Owned(n) |-> Aged(n, fresh)[v]])
  PROVE  /\ sent \in Seq(Snapshots) /\ Len(sent) <= Capacity
         /\ \A v \in Venues : owner[v] # n =>
               \A i \in DOMAIN sent : v \in DOMAIN sent[i] => moved[v] + 1 <= Len(sent) - i
<1> USE DEF IInv
<1> DEFINE e == [v \in Owned(n) |-> Aged(n, fresh)[v]]
<1>1. e \in Snapshots /\ DOMAIN e = Owned(n)
  BY PublishedType
<1>2. sent = Send(ring[n], e)
  OBVIOUS
<1> HIDE DEF e
<1>3. ring[n] \in Seq(Snapshots) /\ Len(ring[n]) <= Capacity
  BY DEF TypeOK
<1>4. /\ sent \in Seq(Snapshots) /\ Len(sent) <= Capacity
      /\ \A i \in DOMAIN sent :
            \/ sent[i] = e
            \/ \E j \in DOMAIN ring[n] : /\ sent[i] = ring[n][j]
                                         /\ Len(sent) - i = Len(ring[n]) - j + 1
  <2> DEFINE s == ring[n]
  <2> HIDE DEF s
  <2>1. s \in Seq(Snapshots) /\ Len(s) <= Capacity
    BY <1>3 DEF s
  <2>2. /\ Send(s, e) \in Seq(Snapshots) /\ Len(Send(s, e)) <= Capacity
        /\ \A i \in DOMAIN Send(s, e) :
              \/ Send(s, e)[i] = e
              \/ \E j \in DOMAIN s : /\ Send(s, e)[i] = s[j]
                                     /\ Len(Send(s, e)) - i = Len(s) - j + 1
    BY <1>1, <2>1, SendIs
  <2> QED BY <1>2, <2>2 DEF s
<1>5. ASSUME NEW v \in Venues, owner[v] # n, NEW i \in DOMAIN sent, v \in DOMAIN sent[i]
      PROVE  moved[v] + 1 <= Len(sent) - i
  <2>1. PICK j \in DOMAIN ring[n] : /\ sent[i] = ring[n][j]
                                    /\ Len(sent) - i = Len(ring[n]) - j + 1
    BY <1>1, <1>4, <1>5 DEF Owned
  <2>2. moved[v] <= Len(ring[n]) - j
    BY <1>5, <2>1 DEF FormerOwnersFade
  <2>3. moved[v] \in Int /\ Len(ring[n]) - j \in Int
    BY <1>3 DEF TypeOK
  <2> QED BY <2>1, <2>2, <2>3
<1> QED BY <1>4, <1>5

LEMMA TickKeeps ==
  ASSUME IInv, NEW fresh \in SUBSET Venues, Tick(fresh)
  PROVE  IInv'
<1> USE DEF IInv
<1>1. /\ books' = [n \in Nodes |-> Aged(n, fresh)]
      /\ moved' = [v \in Venues |-> IF moved[v] < LongAgo THEN moved[v] + 1 ELSE LongAgo]
      /\ UNCHANGED <<owner, alive, conn, disturbed>>
  BY DEF Tick
<1>2. \A n \in Nodes :
        ring'[n] = IF conn[n] THEN Send(ring[n], [v \in Owned(n) |-> Aged(n, fresh)[v]]) ELSE <<>>
  BY DEF Tick
<1>3. \A n \in Nodes :
        report'[n] = [report[n] EXCEPT !.lag = IF report[n].heard /\ @ <= MaxNodeAge THEN @ + 1 ELSE @]
  BY DEF Tick
<1>4. \A v \in Venues : moved[v] \in 0..LongAgo /\ moved'[v] \in 0..LongAgo /\ moved'[v] <= moved[v] + 1
  <2>1. \A v \in Venues : moved[v] \in 0..LongAgo
    BY DEF TypeOK
  <2> QED BY <1>1, <2>1, LimitsType
<1>5. books' \in [Nodes -> [Venues -> BookViews]]
  BY <1>1, AgedType
<1>6. ASSUME NEW n \in Nodes
      PROVE  /\ ring'[n] \in Seq(Snapshots) /\ Len(ring'[n]) <= Capacity
             /\ ring'[n] # <<>> => conn[n]
             /\ \A v \in Venues : owner[v] # n =>
                   \A i \in DOMAIN ring'[n] :
                      v \in DOMAIN ring'[n][i] => moved[v] + 1 <= Len(ring'[n]) - i
  <2>1. CASE conn[n]
    BY <1>2, <2>1, PublishedFades
  <2>2. CASE ~conn[n]
    <3>1. ring'[n] = <<>>
      BY <1>2, <2>2
    <3>2. <<>> \in Seq(Snapshots) /\ Len(<<>>) <= Capacity /\ DOMAIN <<>> = {}
      BY LimitsType
    <3> QED BY <3>1, <3>2
  <2> QED BY <2>1, <2>2 DEF TypeOK
<1>7. ASSUME NEW n \in Nodes
      PROVE  /\ report'[n] \in Reports
             /\ report'[n].heard = report[n].heard /\ report'[n].views = report[n].views
             /\ report'[n].transit = report[n].transit
             /\ report[n].heard /\ report'[n].lag <= MaxNodeAge
                  => report[n].lag <= MaxNodeAge /\ report'[n].lag = report[n].lag + 1
  <2> DEFINE r == report[n]
             s == [r EXCEPT !.lag = IF r.heard /\ @ <= MaxNodeAge THEN @ + 1 ELSE @]
  <2>1. r \in Reports
    BY DEF TypeOK
  <2>2. report'[n] = s
    BY <1>3
  <2> HIDE DEF r
  <2>3. /\ r.heard \in BOOLEAN /\ r.views \in Snapshots
        /\ r.lag \in 0..(MaxNodeAge + 1) /\ r.transit \in 0..(Capacity - 1)
    BY <2>1 DEF Reports
  <2>4. /\ s.heard = r.heard /\ s.views = r.views /\ s.transit = r.transit
        /\ s.lag = IF r.heard /\ r.lag <= MaxNodeAge THEN r.lag + 1 ELSE r.lag
        /\ DOMAIN s = DOMAIN r
    BY <2>1 DEF Reports
  <2>5. s.lag \in 0..(MaxNodeAge + 1)
    BY ONLY <2>3, <2>4, LimitsType
  <2>6. s \in Reports
    BY <2>1, <2>5 DEF Reports
  <2>7. r.heard /\ s.lag <= MaxNodeAge => r.lag <= MaxNodeAge /\ s.lag = r.lag + 1
    BY <2>3, <2>4, LimitsType
  <2> HIDE DEF s
  <2> QED BY <2>2, <2>4, <2>6, <2>7 DEF r
<1>8. ring' \in [Nodes -> Seq(Snapshots)] /\ report' \in [Nodes -> Reports]
  <2>1. DOMAIN ring' = Nodes /\ DOMAIN report' = Nodes
    BY DEF Tick
  <2>2. ring' = [n \in Nodes |-> ring'[n]] /\ report' = [n \in Nodes |-> report'[n]]
    BY <2>1 DEF Tick
  <2> QED BY <1>6, <1>7, <2>2
<1>9. moved' \in [Venues -> 0..LongAgo]
  BY <1>1, <1>4
<1>10. TypeOK'
  BY <1>1, <1>5, <1>6, <1>8, <1>9 DEF TypeOK
<1>11. ASSUME NEW n \in Nodes, NEW v \in Venues, owner'[v] # n
       PROVE  /\ \A i \in DOMAIN ring'[n] :
                    v \in DOMAIN ring'[n][i] => moved'[v] <= Len(ring'[n]) - i
              /\ report'[n].heard /\ report'[n].lag <= MaxNodeAge /\ v \in DOMAIN report'[n].views
                    => moved'[v] <= report'[n].transit + report'[n].lag
  <2>1. owner[v] # n
    BY <1>1, <1>11
  <2>2. ASSUME NEW i \in DOMAIN ring'[n], v \in DOMAIN ring'[n][i]
        PROVE  moved'[v] <= Len(ring'[n]) - i
    <3>1. moved[v] + 1 <= Len(ring'[n]) - i
      BY <1>6, <2>1, <2>2
    <3>2. Len(ring'[n]) - i \in Int
      BY <1>6
    <3> QED BY <1>4, <3>1, <3>2, LimitsType
  <2>3. ASSUME report'[n].heard, report'[n].lag <= MaxNodeAge, v \in DOMAIN report'[n].views
        PROVE  moved'[v] <= report'[n].transit + report'[n].lag
    <3>1. moved[v] <= report[n].transit + report[n].lag
      BY <1>7, <2>1, <2>3 DEF FormerOwnersFade
    <3>2. report[n].transit \in Int /\ report[n].lag \in Int
      BY LimitsType DEF TypeOK, Reports
    <3> QED BY <1>4, <1>7, <2>3, <3>1, <3>2, LimitsType
  <2> QED BY <2>2, <2>3
<1>12. FormerOwnersFade'
  BY <1>11 DEF FormerOwnersFade
<1> QED BY <1>10, <1>12

\* Nothing is published or heard: a stream that is released starts to count
\* again, and one that is taken is out of its new owner's account.
LEMMA FadeKept ==
  ASSUME IInv, UNCHANGED report,
         \A n \in Nodes : ring'[n] = ring[n] \/ ring'[n] = <<>>,
         \A v \in Venues : \/ owner'[v] = owner[v] /\ moved'[v] = moved[v]
                           \/ owner[v] = NoNode /\ moved'[v] = moved[v]
                           \/ moved'[v] = 0
  PROVE  FormerOwnersFade'
<1> USE DEF IInv
<1> SUFFICES ASSUME NEW n \in Nodes, NEW v \in Venues, owner'[v] # n
             PROVE  /\ \A i \in DOMAIN ring'[n] :
                          v \in DOMAIN ring'[n][i] => moved'[v] <= Len(ring'[n]) - i
                    /\ report[n].heard /\ report[n].lag <= MaxNodeAge /\ v \in DOMAIN report[n].views
                          => moved'[v] <= report[n].transit + report[n].lag
  BY DEF FormerOwnersFade
<1>1. \A i \in DOMAIN ring[n] : 0 <= Len(ring[n]) - i
  BY DEF TypeOK
<1>2. 0 <= report[n].transit + report[n].lag
  BY LimitsType DEF TypeOK, Reports
<1>3. CASE moved'[v] = 0
  BY <1>1, <1>2, <1>3
<1>4. CASE owner[v] # n /\ moved'[v] = moved[v]
  BY <1>4 DEF FormerOwnersFade
<1>5. NoNode # n
  BY GatewayAssumption
<1> QED BY <1>3, <1>4, <1>5

LEMMA DesyncKeeps ==
  ASSUME IInv, NEW n \in Nodes, NEW v \in Venues, Desync(n, v)
  PROVE  IInv'
<1> USE DEF IInv
<1>1. books' \in [Nodes -> [Venues -> BookViews]]
  <2>1. books[n][v] \in BookViews
    BY DEF TypeOK
  <2>2. [books[n][v] EXCEPT !.status = "desynced"] \in BookViews
    BY <2>1 DEF BookViews
  <2> QED BY <2>2 DEF Desync, TypeOK
<1>2. disturbed' \in 0..Disturbances
  BY LimitsType DEF Desync, Disturb, TypeOK
<1>3. TypeOK'
  BY <1>1, <1>2 DEF TypeOK, Desync
<1>4. FormerOwnersFade'
  BY FadeKept DEF Desync
<1> QED BY <1>3, <1>4

LEMMA ReleaseKeeps ==
  ASSUME IInv, NEW v \in Venues, Release(v)
  PROVE  IInv'
<1> USE DEF IInv
<1> DEFINE n == owner[v]
<1>1. n \in Nodes
  BY DEF Release, TypeOK
<1>2. books' \in [Nodes -> [Venues -> BookViews]]
  <2>1. books[n][v] \in BookViews
    BY <1>1 DEF TypeOK
  <2>2. [books[n][v] EXCEPT !.status = "desynced"] \in BookViews
    BY <2>1 DEF BookViews
  <2> QED BY <1>1, <2>2 DEF Release, TypeOK
<1>3. disturbed' \in 0..Disturbances
  BY LimitsType DEF Release, Disturb, TypeOK
<1>4. /\ owner' \in [Venues -> Nodes \union {NoNode}] /\ moved' \in [Venues -> 0..LongAgo]
      /\ \A u \in Venues : owner'[u] \in alive \union {NoNode}
  BY LimitsType DEF Release, TypeOK
<1>5. TypeOK'
  BY <1>2, <1>3, <1>4 DEF TypeOK, Release
<1>6. \A u \in Venues : moved'[u] = 0 \/ (owner'[u] = owner[u] /\ moved'[u] = moved[u])
  BY DEF Release, TypeOK
<1>7. FormerOwnersFade'
  BY <1>6, FadeKept DEF Release
<1> QED BY <1>5, <1>7

LEMMA AcquireKeeps ==
  ASSUME IInv, NEW n \in Nodes, NEW v \in Venues, Acquire(n, v)
  PROVE  IInv'
<1> USE DEF IInv
<1>1. TypeOK'
  BY DEF TypeOK, Acquire
<1>2. \A u \in Venues : /\ moved'[u] = moved[u]
                        /\ owner'[u] = owner[u] \/ owner[u] = NoNode
  BY DEF Acquire, TypeOK
<1>3. FormerOwnersFade'
  BY <1>2, FadeKept DEF Acquire
<1> QED BY <1>1, <1>3

LEMMA CrashKeeps ==
  ASSUME IInv, NEW n \in Nodes, Crash(n)
  PROVE  IInv'
<1> USE DEF IInv
<1>1. books' \in [Nodes -> [Venues -> BookViews]]
  BY BlankType DEF Crash, TypeOK
<1>2. disturbed' \in 0..Disturbances
  BY LimitsType DEF Crash, Disturb, TypeOK
<1>3. /\ owner' \in [Venues -> Nodes \union {NoNode}] /\ moved' \in [Venues -> 0..LongAgo]
      /\ \A v \in Venues : owner'[v] \in alive' \union {NoNode}
  BY LimitsType DEF Crash, TypeOK
<1>4. /\ ring' \in [Nodes -> Seq(Snapshots)] /\ conn' \in [Nodes -> BOOLEAN] /\ alive' \in SUBSET Nodes
      /\ \A m \in Nodes : \/ m = n /\ ring'[m] = <<>> /\ ~conn'[m]
                          \/ m # n /\ ring'[m] = ring[m] /\ conn'[m] = conn[m]
  <2>1. <<>> \in Seq(Snapshots)
    OBVIOUS
  <2> QED BY <2>1 DEF Crash, TypeOK
<1>5. \A m \in Nodes : /\ Len(ring'[m]) <= Capacity
                       /\ conn'[m] => m \in alive'
                       /\ ring'[m] # <<>> => conn'[m]
  <2>1. Len(<<>>) <= Capacity
    BY LimitsType
  <2> QED BY <1>4, <2>1 DEF Crash, TypeOK
<1>6. TypeOK'
  BY <1>1, <1>2, <1>3, <1>4, <1>5 DEF TypeOK, Crash
<1>7. \A v \in Venues : moved'[v] = 0 \/ (owner'[v] = owner[v] /\ moved'[v] = moved[v])
  BY DEF Crash, TypeOK
<1>8. FormerOwnersFade'
  BY <1>4, <1>7, FadeKept DEF Crash
<1> QED BY <1>6, <1>8

LEMMA RestartKeeps ==
  ASSUME IInv, NEW n \in Nodes, Restart(n)
  PROVE  IInv'
<1> USE DEF IInv
<1>1. TypeOK'
  BY DEF TypeOK, Restart
<1>2. FormerOwnersFade'
  BY FadeKept DEF Restart
<1> QED BY <1>1, <1>2

-------------------------------------------------------------------------------
(* The followers.                                                            *)

LEMMA ConnectKeeps ==
  ASSUME IInv, NEW n \in Nodes, Connect(n)
  PROVE  IInv'
<1> USE DEF IInv
<1>1. TypeOK'
  BY DEF TypeOK, Connect, cluster
<1>2. FormerOwnersFade'
  BY FadeKept DEF Connect, cluster
<1> QED BY <1>1, <1>2

LEMMA BreakKeeps ==
  ASSUME IInv, NEW n \in Nodes, Break(n)
  PROVE  IInv'
<1> USE DEF IInv
<1>1. /\ ring' \in [Nodes -> Seq(Snapshots)] /\ conn' \in [Nodes -> BOOLEAN]
      /\ \A m \in Nodes : \/ m = n /\ ring'[m] = <<>> /\ ~conn'[m]
                          \/ m # n /\ ring'[m] = ring[m] /\ conn'[m] = conn[m]
  <2>1. <<>> \in Seq(Snapshots)
    OBVIOUS
  <2> QED BY <2>1 DEF Break, TypeOK
<1>2. \A m \in Nodes : /\ Len(ring'[m]) <= Capacity
                       /\ conn'[m] => m \in alive
                       /\ ring'[m] # <<>> => conn'[m]
  <2>1. Len(<<>>) <= Capacity
    BY LimitsType
  <2> QED BY <1>1, <2>1 DEF TypeOK
<1>3. disturbed' \in 0..Disturbances
  BY LimitsType DEF Break, Disturb, TypeOK
<1>4. TypeOK'
  BY <1>1, <1>2, <1>3 DEF TypeOK, Break, cluster
<1>5. FormerOwnersFade'
  BY <1>1, FadeKept DEF Break, cluster
<1> QED BY <1>4, <1>5

\* What was first in the ring is first to arrive, as old as the rest is long.
LEMMA SessionKeeps ==
  ASSUME IInv, NEW n \in Nodes, Session(n)
  PROVE  IInv'
<1> USE DEF IInv
<1> DEFINE s == ring[n]
           heard == [heard |-> TRUE, views |-> s[1], lag |-> 0, transit |-> Len(s) - 1]
<1>1. s \in Seq(Snapshots) /\ Len(s) <= Capacity /\ s # <<>>
  BY DEF Session, TypeOK
<1>2. /\ conn[n] /\ ring' = [ring EXCEPT ![n] = Tail(s)]
      /\ UNCHANGED <<owner, moved, alive, books, conn>>
  BY DEF Session, cluster
<1> HIDE DEF s
<1>3. /\ Tail(s) \in Seq(Snapshots) /\ Head(s) = s[1] /\ s[1] \in Snapshots /\ 1 \in DOMAIN s
      /\ Len(Tail(s)) = Len(s) - 1 /\ Len(s) \in Nat /\ Len(s) >= 1
      /\ \A i \in DOMAIN Tail(s) : i \in Int /\ i + 1 \in DOMAIN s /\ Tail(s)[i] = s[i + 1]
  BY <1>1, TailIs
<1>4. \/ report' = [report EXCEPT ![n] = heard] /\ UNCHANGED disturbed
      \/ UNCHANGED report /\ Disturb
  BY <1>3 DEF Session, Oldest, s
<1>5. heard \in Reports
  <2>1. Len(s) - 1 \in 0..(Capacity - 1) /\ 0 \in 0..(MaxNodeAge + 1)
    BY <1>1, <1>3, LimitsType
  <2> QED BY <1>3, <2>1 DEF Reports
<1>6. heard.heard /\ heard.views = s[1] /\ heard.lag = 0 /\ heard.transit = Len(s) - 1
  OBVIOUS
<1> HIDE DEF heard
<1>7. report' \in [Nodes -> Reports]
  BY <1>4, <1>5 DEF TypeOK
<1>8. /\ ring' \in [Nodes -> Seq(Snapshots)]
      /\ \A m \in Nodes : \/ m = n /\ ring'[m] = Tail(s)
                          \/ m # n /\ ring'[m] = ring[m]
  BY <1>2, <1>3 DEF TypeOK
<1>9. \A m \in Nodes : /\ Len(ring'[m]) <= Capacity
                       /\ ring'[m] # <<>> => conn[m]
  <2>1. Len(Tail(s)) <= Capacity
    BY <1>1, <1>3, LimitsType
  <2> QED BY <1>2, <1>8, <2>1 DEF TypeOK
<1>10. disturbed' \in 0..Disturbances
  BY <1>4, LimitsType DEF Disturb, TypeOK
<1>11. TypeOK'
  BY <1>2, <1>7, <1>8, <1>9, <1>10 DEF TypeOK
<1>12. ASSUME NEW m \in Nodes, NEW v \in Venues, owner'[v] # m
       PROVE  /\ \A i \in DOMAIN ring'[m] :
                    v \in DOMAIN ring'[m][i] => moved'[v] <= Len(ring'[m]) - i
              /\ report'[m].heard /\ report'[m].lag <= MaxNodeAge /\ v \in DOMAIN report'[m].views
                    => moved'[v] <= report'[m].transit + report'[m].lag
  <2>1. owner[v] # m /\ moved'[v] = moved[v] /\ moved[v] \in Int
    BY <1>2, <1>12 DEF TypeOK
  <2>2. CASE m # n
    <3>1. ring'[m] = ring[m] /\ report'[m] = report[m]
      BY <1>4, <1>8, <2>2 DEF TypeOK
    <3> QED BY <2>1, <3>1 DEF FormerOwnersFade
  <2>3. CASE m = n
    <3>1. \A i \in DOMAIN s : v \in DOMAIN s[i] => moved[v] <= Len(s) - i
      BY <2>1, <2>3 DEF FormerOwnersFade, s
    <3>2. ring'[m] = Tail(s)
      BY <1>8, <2>3
    <3>3. ASSUME NEW i \in DOMAIN Tail(s), v \in DOMAIN Tail(s)[i]
          PROVE  moved[v] <= Len(Tail(s)) - i
      <4>1. i \in Int /\ i + 1 \in DOMAIN s /\ v \in DOMAIN s[i + 1]
        BY <1>3, <3>3
      <4>2. moved[v] <= Len(s) - (i + 1)
        BY <3>1, <4>1
      <4> QED BY <1>3, <2>1, <4>1, <4>2
    <3>4. CASE report'[m] = heard
      BY <1>3, <1>6, <2>1, <3>1, <3>2, <3>3, <3>4
    <3>5. CASE report'[m] = report[m]
      BY <2>1, <3>2, <3>3, <3>5 DEF FormerOwnersFade
    <3>6. report'[m] = heard \/ report'[m] = report[m]
      BY <1>4, <2>3 DEF TypeOK
    <3> QED BY <3>4, <3>5, <3>6
  <2> QED BY <2>2, <2>3
<1>13. FormerOwnersFade'
  BY <1>12 DEF FormerOwnersFade
<1> QED BY <1>11, <1>13

LEMMA StepInvariant == IInv /\ [Next]_vars => IInv'
<1> SUFFICES ASSUME IInv, [Next]_vars PROVE IInv'
  OBVIOUS
<1>1. CASE UNCHANGED vars
  BY <1>1 DEF vars, IInv, TypeOK, FormerOwnersFade
<1>2. ASSUME NEW fresh \in SUBSET {v \in Venues : owner[v] # NoNode}, Tick(fresh) PROVE IInv'
  BY <1>2, TickKeeps
<1>3. ASSUME NEW n \in Nodes, NEW v \in Venues, Desync(n, v) \/ Acquire(n, v) PROVE IInv'
  BY <1>3, DesyncKeeps, AcquireKeeps
<1>4. ASSUME NEW v \in Venues, Release(v) PROVE IInv'
  BY <1>4, ReleaseKeeps
<1>5. ASSUME NEW n \in Nodes, Crash(n) \/ Restart(n) \/ Connect(n) \/ Break(n) \/ Session(n)
      PROVE  IInv'
  BY <1>5, CrashKeeps, RestartKeeps, ConnectKeeps, BreakKeeps, SessionKeeps
<1> QED BY <1>1, <1>2, <1>3, <1>4, <1>5 DEF Next

-------------------------------------------------------------------------------
(* The theorems.                                                             *)

\* The inductive invariant holds of every reachable state.
THEOREM Invariance == Spec => []IInv
BY InitInvariant, StepInvariant, PTL DEF Spec

\* A former owner is out of the merge before a report can be kept as long as the
\* rule for stale nodes and a full ring allow (merge and its max_node_age).
LEMMA ClaimsExpire == IInv => OnlyOwnersClaim
<1> SUFFICES ASSUME IInv, NEW v \in Venues, NEW n \in Claims(v), owner[v] # n
             PROVE  moved[v] < MaxNodeAge + Capacity
  BY DEF OnlyOwnersClaim
<1>1. n \in Nodes /\ report[n].heard /\ report[n].lag <= MaxNodeAge /\ v \in DOMAIN report[n].views
  BY DEF Claims, Included
<1>2. moved[v] <= report[n].transit + report[n].lag
  BY <1>1 DEF IInv, FormerOwnersFade
<1>3. report[n].transit \in 0..(Capacity - 1) /\ report[n].lag \in Nat /\ moved[v] \in Nat
  BY <1>1, LimitsType DEF IInv, TypeOK, Reports
<1> QED BY <1>1, <1>2, <1>3, LimitsType

\* Rings are bounded, and only the owner of a stream, or one that held it not
\* long ago, has a claim to it in the merge, whatever nodes, streams, connections
\* and snapshots were lost in between (gateway/mod.rs merge).
THEOREM OnlyOwnersAreMerged == Spec => []Inv
<1>1. IInv => Inv
  BY ClaimsExpire DEF IInv, Inv
<1> QED BY <1>1, Invariance, PTL

-------------------------------------------------------------------------------
(* The legs of the touch.                                                    *)

\* A set of natural numbers has a least member.
LEMMA LeastOf ==
  ASSUME NEW T \in SUBSET Nat, T # {}
  PROVE  \E m \in T : \A k \in T : m <= k
<1> DEFINE Less == OpToRel(<, Nat)
<1>1. \A u, v \in Nat : u < v => <<u, v>> \in Less
  BY DEF OpToRel
<1>2. IsWellFoundedOn(Less, Nat)
  BY NatLessThanWellFounded
<1> HIDE DEF Less
<1>3. PICK m \in T : \A k \in T : ~ (<<k, m>> \in Less)
  BY <1>2, WFMin
<1>4. ASSUME NEW k \in T PROVE m <= k
  <2>1. m \in Nat /\ k \in Nat /\ ~(k < m)
    BY <1>1, <1>3
  <2> QED BY <2>1
<1> QED BY <1>3, <1>4

\* The touch of one place more.
Extended(touch, quotes, k, maxAge) ==
    IF k \in DOMAIN quotes THEN Consider(touch, quotes[k], maxAge) ELSE touch

\* f has the touches of the first `last` places.
AreTouches(f, quotes, last, maxAge) ==
    /\ f = [k \in 0..last |-> f[k]]
    /\ f[0] = NoTouch
    /\ \A k \in 1..last : f[k] = Extended(f[k - 1], quotes, k, maxAge)

\* They exist: those of fewer places continue.
LEMMA TouchesExist ==
  ASSUME NEW quotes, NEW maxAge
  PROVE  \A last \in Nat : \E f : AreTouches(f, quotes, last, maxAge)
<1> DEFINE T == {n \in Nat : ~ \E f : AreTouches(f, quotes, n, maxAge)}
<1> SUFFICES ASSUME T # {} PROVE FALSE
  OBVIOUS
<1> HIDE DEF T
<1>1. PICK n \in T : \A k \in T : n <= k
  <2>1. T \in SUBSET Nat
    BY DEF T
  <2> QED BY <2>1, LeastOf
<1>2. n \in Nat /\ ~ \E f : AreTouches(f, quotes, n, maxAge)
  BY DEF T
<1>3. CASE n = 0
  <2> DEFINE f == [k \in 0..0 |-> NoTouch]
  <2>1. AreTouches(f, quotes, 0, maxAge)
    BY DEF AreTouches
  <2> QED BY <1>2, <1>3, <2>1
<1>4. CASE n # 0
  <2>1. n - 1 \in Nat /\ n - 1 \notin T
    BY <1>1, <1>2, <1>4
  <2>2. PICK g : AreTouches(g, quotes, n - 1, maxAge)
    BY <2>1 DEF T
  <2> DEFINE more == Extended(g[n - 1], quotes, n, maxAge)
             f == [k \in 0..n |-> IF k = n THEN more ELSE g[k]]
  <2> HIDE DEF more
  <2>3. f = [k \in 0..n |-> f[k]]
    OBVIOUS
  <2>4. f[0] = NoTouch
    BY <1>2, <1>4, <2>2 DEF AreTouches
  <2>5. \A k \in 1..n : f[k] = Extended(f[k - 1], quotes, k, maxAge)
    <3> SUFFICES ASSUME NEW k \in 1..n PROVE f[k] = Extended(f[k - 1], quotes, k, maxAge)
      OBVIOUS
    <3>1. f[k - 1] = g[k - 1]
      BY <1>2
    <3>2. CASE k = n
      BY <1>2, <3>1, <3>2 DEF more
    <3>3. CASE k # n
      <4>1. k \in 1..(n - 1) /\ f[k] = g[k]
        BY <1>2, <3>3
      <4> QED BY <2>2, <3>1, <4>1 DEF AreTouches
    <3> QED BY <3>2, <3>3
  <2> HIDE DEF f
  <2>6. AreTouches(f, quotes, n, maxAge)
    BY <2>3, <2>4, <2>5 DEF AreTouches
  <2> QED BY <1>2, <2>6
<1> QED BY <1>3, <1>4

\* The recursive function of consolidate (cross.rs) is what it says it is.
LEMMA TouchesAre ==
  ASSUME NEW quotes, NEW maxAge, NEW last \in Nat
  PROVE  LET f == Touches(quotes, last, maxAge)
         IN  /\ f[0] = NoTouch
             /\ \A k \in 1..last : f[k] = Extended(f[k - 1], quotes, k, maxAge)
<1> DEFINE Fold(f) ==
      [k \in 0..last |->
          IF k = 0 THEN NoTouch
          ELSE IF k \in DOMAIN quotes THEN Consider(f[k - 1], quotes[k], maxAge)
          ELSE f[k - 1]]
<1>1. PICK g : AreTouches(g, quotes, last, maxAge)
  BY TouchesExist
<1>2. g = Fold(g)
  <2>1. g = [k \in 0..last |-> g[k]]
    BY <1>1 DEF AreTouches
  <2>2. \A k \in 0..last : g[k] = IF k = 0 THEN NoTouch ELSE Extended(g[k - 1], quotes, k, maxAge)
    BY <1>1 DEF AreTouches
  <2> QED BY <2>1, <2>2 DEF Extended
<1> DEFINE c == Touches(quotes, last, maxAge)
<1>3. c = Fold(c)
  BY <1>2 DEF Touches
<1> HIDE DEF c
<1>4. \A k \in 0..last : c[k] = Fold(c)[k]
  BY <1>3
<1>5. \A k \in 0..last :
         Fold(c)[k] = IF k = 0 THEN NoTouch ELSE Extended(c[k - 1], quotes, k, maxAge)
  BY DEF Extended
<1> HIDE DEF Fold
<1>6. \A k \in 0..last : c[k] = IF k = 0 THEN NoTouch ELSE Extended(c[k - 1], quotes, k, maxAge)
  BY <1>4, <1>5
<1>7. 0 \in 0..last /\ \A k \in 1..last : k \in 0..last /\ k # 0
  OBVIOUS
<1>8. c[0] = NoTouch /\ \A k \in 1..last : c[k] = Extended(c[k - 1], quotes, k, maxAge)
  BY <1>6, <1>7
<1> QED BY <1>8 DEF c

\* A leg is none, or that of a quote which stands.
Stands(leg, quotes, maxAge) ==
    \/ leg = NoLeg
    \/ \E k \in DOMAIN quotes : \E price :
          leg = Leg(quotes[k], price) /\ Standing(quotes[k], maxAge) = "used"

LEMMA ConsiderStands ==
  ASSUME NEW quotes, NEW maxAge, NEW k \in DOMAIN quotes, NEW touch,
         Stands(touch.bid, quotes, maxAge), Stands(touch.ask, quotes, maxAge)
  PROVE  /\ Stands(Consider(touch, quotes[k], maxAge).bid, quotes, maxAge)
         /\ Stands(Consider(touch, quotes[k], maxAge).ask, quotes, maxAge)
<1> DEFINE after == Consider(touch, quotes[k], maxAge)
<1>1. CASE Standing(quotes[k], maxAge) # "used"
  <2>1. after.bid = touch.bid /\ after.ask = touch.ask
    BY <1>1 DEF Consider
  <2> QED BY <2>1
<1>2. CASE Standing(quotes[k], maxAge) = "used"
  <2>1. /\ after.bid = touch.bid \/ after.bid = Leg(quotes[k], quotes[k].bid)
        /\ after.ask = touch.ask \/ after.ask = Leg(quotes[k], quotes[k].ask)
    BY <1>2 DEF Consider
  <2> QED BY <1>2, <2>1 DEF Stands
<1> QED BY <1>1, <1>2

\* Trust and age are looked at before a quote can be a leg (cross.rs consolidate).
LEMMA LegsStand ==
  ASSUME NEW quotes, NEW maxAge, NEW last \in Nat
  PROVE  /\ Stands(Consolidate(quotes, last, maxAge).bid, quotes, maxAge)
         /\ Stands(Consolidate(quotes, last, maxAge).ask, quotes, maxAge)
<1> DEFINE c == Touches(quotes, last, maxAge)
           Good(k) == Stands(c[k].bid, quotes, maxAge) /\ Stands(c[k].ask, quotes, maxAge)
           T == {k \in 0..last : ~Good(k)}
<1>1. /\ c[0] = NoTouch
      /\ \A k \in 1..last : c[k] = Extended(c[k - 1], quotes, k, maxAge)
  BY TouchesAre
<1> HIDE DEF c
<1>2. ASSUME T # {} PROVE FALSE
  <2> HIDE DEF T
  <2>1. T \in SUBSET Nat
    BY DEF T
  <2>2. PICK n \in T : \A k \in T : n <= k
    BY <1>2, <2>1, LeastOf
  <2>3. n \in 0..last /\ ~Good(n)
    BY DEF T
  <2>4. n # 0
    <3>1. c[0].bid = NoLeg /\ c[0].ask = NoLeg
      BY <1>1 DEF NoTouch
    <3> QED BY <2>3, <3>1 DEF Stands
  <2>5. Good(n - 1)
    BY <2>2, <2>3, <2>4 DEF T
  <2>6. c[n] = Extended(c[n - 1], quotes, n, maxAge)
    BY <1>1, <2>3, <2>4
  <2>7. CASE n \in DOMAIN quotes
    BY <2>3, <2>5, <2>6, <2>7, ConsiderStands DEF Extended
  <2>8. CASE n \notin DOMAIN quotes
    BY <2>3, <2>5, <2>6, <2>8 DEF Extended
  <2> QED BY <2>7, <2>8
<1>3. Good(last)
  BY <1>2
<1>4. /\ Consolidate(quotes, last, maxAge).bid = c[last].bid
      /\ Consolidate(quotes, last, maxAge).ask = c[last].ask
  BY DEF Consolidate, c
<1> QED BY <1>3, <1>4

\* A stream that is reported has a freshest claim, the first by name among equals.
LEMMA WinnerClaims ==
  ASSUME TypeOK, NEW v \in Reported
  PROVE  Winner(v) \in Claims(v)
<1>1. Claims(v) # {} /\ \A n \in Claims(v) : n \in Nodes /\ v \in DOMAIN report[n].views
  BY DEF Reported, Claims, Included
<1>2. \A n \in Claims(v) : Shown(n, v).age \in Nat /\ Place(n) \in Nat
  <2> SUFFICES ASSUME NEW n \in Claims(v) PROVE Shown(n, v).age \in Nat /\ Place(n) \in Nat
    OBVIOUS
  <2>1. report[n].views[v] \in BookViews /\ report[n].lag \in Nat
    BY <1>1, LimitsType DEF TypeOK, Reports, Snapshots
  <2>2. Shown(n, v).age \in Nat
    BY <2>1, LimitsType DEF Shown, AgedBy, OlderBy, BookViews, Ages, NoAge
  <2>3. \E i \in DOMAIN Names : Names[i] = n
    BY <1>1 DEF Nodes
  <2>4. Place(n) \in DOMAIN Names
    BY <2>3 DEF Place
  <2> QED BY <2>2, <2>4, GatewayAssumption
<1> DEFINE ages == {Shown(n, v).age : n \in Claims(v)}
<1>3. PICK a \in ages : \A b \in ages : a <= b
  <2>1. ages \in SUBSET Nat /\ ages # {}
    BY <1>1, <1>2
  <2> HIDE DEF ages
  <2> QED BY <2>1, LeastOf
<1> DEFINE places == {Place(n) : n \in {m \in Claims(v) : Shown(m, v).age = a}}
<1>4. PICK p \in places : \A q \in places : p <= q
  <2>1. places \in SUBSET Nat /\ places # {}
    BY <1>2
  <2> HIDE DEF places
  <2> QED BY <2>1, LeastOf
<1>5. PICK n \in Claims(v) : Shown(n, v).age = a /\ Place(n) = p
  OBVIOUS
<1>6. ASSUME NEW m \in Claims(v)
      PROVE  \/ Shown(n, v).age < Shown(m, v).age
             \/ Shown(n, v).age = Shown(m, v).age /\ Place(n) <= Place(m)
  <2>1. a <= Shown(m, v).age
    BY <1>3
  <2>2. CASE Shown(m, v).age = a
    <3>1. p <= Place(m)
      BY <1>4, <2>2
    <3> QED BY <1>5, <2>2, <3>1
  <2>3. CASE Shown(m, v).age # a
    <3>1. Shown(n, v).age < Shown(m, v).age
      BY <1>2, <1>5, <2>1, <2>3
    <3> QED BY <3>1
  <2> QED BY <2>2, <2>3
<1> QED BY <1>6 DEF Winner

\* Both legs come from places that have a report, and the age that their node stated
\* grew by what the merge added to it and by what the ring held it back.
LEMMA LegsHaveAges == TypeOK => LegsAreRecent
<1> SUFFICES ASSUME TypeOK, NEW leg \in {Touch.bid, Touch.ask} \ {NoLeg}
             PROVE  LET v == leg.venue
                        n == Winner(v)
                    IN /\ report[n].views[v].status = "live"
                       /\ TrueAge(n, v) <= MaxAge + Capacity - 1
  BY DEF LegsAreRecent
<1> DEFINE places == {j \in DOMAIN VenueOrder : VenueOrder[j] \in Reported}
           quotes == [i \in places |-> TopOfBook(VenueOrder[i])]
<1>1. Touch = Consolidate(quotes, Len(VenueOrder), MaxAge)
  BY DEF Touch, CrossView
<1> HIDE DEF quotes
<1>2. Stands(leg, quotes, MaxAge)
  <2>1. Len(VenueOrder) \in Nat
    BY GatewayAssumption
  <2> QED BY <1>1, <2>1, LegsStand
<1>3. PICK k \in DOMAIN quotes : \E price :
         leg = Leg(quotes[k], price) /\ Standing(quotes[k], MaxAge) = "used"
  BY <1>2 DEF Stands
<1> DEFINE v == VenueOrder[k]
           n == Winner(v)
<1>4. v \in Reported /\ quotes[k] = TopOfBook(v)
  BY <1>3 DEF quotes
<1>5. leg.venue = v
  <2>1. leg.venue = quotes[k].venue
    BY <1>3 DEF Leg
  <2>2. quotes[k].venue = v
    BY <1>4 DEF TopOfBook
  <2> QED BY <2>1, <2>2
<1>6. n \in Nodes /\ report[n] \in Reports /\ v \in DOMAIN report[n].views
  <2>1. n \in Claims(v)
    BY <1>4, WinnerClaims
  <2> QED BY <2>1 DEF Claims, Included, TypeOK
<1>7. Shown(n, v).status = "live" /\ Shown(n, v).age <= MaxAge
  <2>1. quotes[k].status = Shown(n, v).status /\ quotes[k].age = Shown(n, v).age
    BY <1>4 DEF TopOfBook
  <2>2. quotes[k].status = "live" /\ quotes[k].age # NoAge /\ ~(quotes[k].age > MaxAge)
    BY <1>3 DEF Standing
  <2>3. Shown(n, v).age \in Int
    <3>1. report[n].views[v] \in BookViews /\ report[n].lag \in Nat
      BY <1>6, LimitsType DEF Reports, Snapshots
    <3> QED BY <3>1, LimitsType DEF Shown, AgedBy, OlderBy, BookViews, Ages, NoAge
  <2> QED BY <2>1, <2>2, <2>3, LimitsType
<1> DEFINE view == report[n].views[v]
           lag == report[n].lag
           transit == report[n].transit
<1>8. view \in BookViews /\ lag \in Nat /\ transit \in 0..(Capacity - 1)
  BY <1>6, LimitsType DEF Reports, Snapshots
<1>9. Shown(n, v) = AgedBy(view, lag)
  BY DEF Shown
<1>10. TrueAge(n, v) = view.age + transit + lag
  BY DEF TrueAge
<1> HIDE DEF view, lag, transit
<1>11. view.status = "live" /\ view.age + lag <= MaxAge
  BY <1>7, <1>8, <1>9, LimitsType DEF AgedBy, OlderBy, BookViews, Ages, NoAge
<1>12. TrueAge(n, v) <= MaxAge + Capacity - 1
  <2>1. view.age \in Int
    BY <1>8, LimitsType DEF BookViews, Ages, NoAge
  <2> QED BY <1>8, <1>10, <1>11, <2>1, LimitsType
<1> QED BY <1>5, <1>11, <1>12 DEF view

\* gateway/mod.rs merge, cross.rs consolidate: a leg of the merged touch was live when
\* its node last spoke, and is no older than the age limit and a full ring.
THEOREM MergedLegsAreRecent == Spec => []LegsAreRecent
<1>1. IInv => LegsAreRecent
  BY LegsHaveAges DEF IInv
<1> QED BY <1>1, Invariance, PTL
===============================================================================
