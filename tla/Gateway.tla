------------------------------- MODULE Gateway -------------------------------
(* The gateway (ma-server/src/gateway) and the nodes it follows: every node  *)
(* publishes a snapshot of the streams it owns on each tick, into a ring of  *)
(* snapshots that its SSE handler reads for each client (http.rs); the       *)
(* gateway follows each node over one such connection (feed.rs), keeps what  *)
(* it heard last, and merges the reports (mod.rs).                           *)
(*                                                                           *)
(* There is one symbol, and one stream of it per venue.  Time passes in      *)
(* ticks and without end: what is recorded is how long ago a thing was,      *)
(* up to a limit beyond which no rule tells the difference.  Merging is      *)
(* without side effects, so what it would publish is a function of the state *)
(* and the properties hold at whatever moment the gateway's ticker fires.    *)
EXTENDS Cross

CONSTANTS
    Names,        \* the nodes, in the order of their names
    VenueOrder,   \* the venues, in the order of the map
    Home,         \* which node owns the stream of a venue at first
    Quote,        \* per venue: bid, ask, integrity
    Capacity,     \* snapshots a node's ring, and the connection, hold back
    MaxAge,       \* CrossPolicy::max_age
    MaxNodeAge,   \* GatewayPolicy::max_node_age
    Disturbances  \* how many books, streams, nodes and connections are disturbed

Nodes == {Names[i] : i \in DOMAIN Names}
Venues == {VenueOrder[i] : i \in DOMAIN VenueOrder}
NoNode == "no node"

ASSUME GatewayAssumption ==
    /\ Names \in Seq(Nodes) /\ VenueOrder \in Seq(Venues)
    /\ NoNode \notin Nodes
    /\ Home \in [Venues -> Nodes]
    /\ Capacity \in Nat \ {0}
    /\ {MaxAge, MaxNodeAge} \subseteq Nat
    /\ Disturbances \in Nat

VARIABLES
    owner,     \* of each stream, or NoNode
    moved,     \* ticks since a stream was last released
    alive,     \* the nodes that run
    books,     \* the books of each node, owned or not
    conn,      \* the follower's connection is up
    ring,      \* the snapshots its handler has yet to read, oldest first
    report,    \* what the follower heard last
    disturbed  \* how often something went wrong

vars == <<owner, moved, alive, books, conn, ring, report, disturbed>>
cluster == <<owner, moved, alive, books>>

\* A book this old is in no touch, whatever is added to its age.
Old == MaxAge + 1
\* A change of hands this long ago shows nowhere any more.
LongAgo == MaxNodeAge + Capacity + 1
Older(age) == IF age = NoAge \/ age >= Old THEN age ELSE age + 1
OlderBy(age, lag) == IF age + lag >= Old THEN Old ELSE age + lag

Blank == [status |-> "uninitialized", age |-> NoAge]
NotHeard == [heard |-> FALSE, views |-> <<>>, lag |-> 0, transit |-> 0]

Disturb == disturbed < Disturbances /\ disturbed' = disturbed + 1

Ages == {NoAge} \union 0..Old
BookViews == [status : {"uninitialized", "live", "desynced"}, age : Ages]
\* A node publishes the streams it owns, and none of the others.
Snapshots == UNION {[owned -> BookViews] : owned \in SUBSET Venues}
Reports == [heard : BOOLEAN, views : Snapshots, lag : 0..(MaxNodeAge + 1), transit : 0..(Capacity - 1)]

TypeOK ==
    /\ owner \in [Venues -> Nodes \union {NoNode}]
    /\ moved \in [Venues -> 0..LongAgo]
    /\ alive \in SUBSET Nodes
    /\ books \in [Nodes -> [Venues -> BookViews]]
    /\ conn \in [Nodes -> BOOLEAN]
    /\ ring \in [Nodes -> Seq(Snapshots)]
    /\ report \in [Nodes -> Reports]
    /\ \A n \in Nodes :
          /\ Len(ring[n]) <= Capacity
          /\ conn[n] => n \in alive
          /\ ring[n] # <<>> => conn[n]
    /\ \A v \in Venues : owner[v] \in alive \union {NoNode}
    /\ disturbed \in 0..Disturbances

Init ==
    /\ owner = Home /\ moved = [v \in Venues |-> LongAgo]
    /\ alive = Nodes
    /\ books = [n \in Nodes |-> [v \in Venues |-> Blank]]
    /\ ring = [n \in Nodes |-> <<>>]
    /\ conn = [n \in Nodes |-> FALSE]
    /\ report = [n \in Nodes |-> NotHeard]
    /\ disturbed = 0

------------------------------------------------------------------------------
(* The nodes.                                                                *)

Owned(n) == {v \in Venues : owner[v] = n}

\* The books of a node one tick later, when it applied updates to some.
Aged(n, fresh) ==
    [v \in Venues |->
        IF v \in fresh /\ owner[v] = n
        THEN [status |-> "live", age |-> 0]
        ELSE [books[n][v] EXCEPT !.age = Older(@)]]

\* The broadcast channel drops its oldest snapshot for a new one.
Send(sent, snapshot) ==
    Append(IF Len(sent) = Capacity THEN Tail(sent) ELSE sent, snapshot)

\* A tick: every running node publishes the streams it owns, some of which had
\* updates, and everything that was, was longer ago.
Tick(fresh) ==
    /\ books' = [n \in Nodes |-> Aged(n, fresh)]
    /\ moved' = [v \in Venues |-> IF moved[v] < LongAgo THEN moved[v] + 1 ELSE LongAgo]
    /\ ring' = [n \in Nodes |->
                   IF conn[n]
                   THEN Send(ring[n], [v \in Owned(n) |-> Aged(n, fresh)[v]])
                   ELSE <<>>]
    /\ report' = [n \in Nodes |->
                     [report[n] EXCEPT !.lag = IF report[n].heard /\ @ <= MaxNodeAge THEN @ + 1 ELSE @]]
    /\ UNCHANGED <<owner, alive, conn, disturbed>>

\* A book loses trust.
Desync(n, v) ==
    /\ owner[v] = n /\ books[n][v].status = "live"
    /\ Disturb
    /\ books' = [books EXCEPT ![n][v].status = "desynced"]
    /\ UNCHANGED <<owner, moved, alive, conn, ring, report>>

\* A node lets go of a stream, which marks its book; later another takes it.
Release(v) ==
    /\ owner[v] # NoNode
    /\ Disturb
    /\ books' = [books EXCEPT ![owner[v]][v].status = "desynced"]
    /\ owner' = [owner EXCEPT ![v] = NoNode]
    /\ moved' = [moved EXCEPT ![v] = 0]
    /\ UNCHANGED <<alive, conn, ring, report>>

Acquire(n, v) ==
    /\ owner[v] = NoNode /\ n \in alive
    /\ owner' = [owner EXCEPT ![v] = n]
    /\ UNCHANGED <<moved, alive, books, conn, ring, report, disturbed>>

\* A node dies, and its connections end.
Crash(n) ==
    /\ n \in alive
    /\ Disturb
    /\ alive' = alive \ {n}
    /\ owner' = [v \in Venues |-> IF owner[v] = n THEN NoNode ELSE owner[v]]
    /\ moved' = [v \in Venues |-> IF owner[v] = n THEN 0 ELSE moved[v]]
    /\ books' = [books EXCEPT ![n] = [v \in Venues |-> Blank]]
    /\ ring' = [ring EXCEPT ![n] = <<>>]
    /\ conn' = [conn EXCEPT ![n] = FALSE]
    /\ UNCHANGED report

Restart(n) ==
    /\ n \notin alive
    /\ alive' = alive \union {n}
    /\ UNCHANGED <<owner, moved, books, conn, ring, report, disturbed>>

------------------------------------------------------------------------------
(* Following a node.                                                         *)

\* Mutant: a follower that lost its node gives up.
ConnectOnce(n) ==
    /\ ~conn[n] /\ n \in alive /\ ~report[n].heard
    /\ conn' = [conn EXCEPT ![n] = TRUE]
    /\ UNCHANGED <<cluster, ring, report, disturbed>>

\* The follower connects: the node's handler subscribes to what comes next.
Connect(n) ==
    /\ ~conn[n] /\ n \in alive
    /\ conn' = [conn EXCEPT ![n] = TRUE]
    /\ UNCHANGED <<cluster, ring, report, disturbed>>

\* The connection ends, and the last report is kept.
Break(n) ==
    /\ conn[n]
    /\ Disturb
    /\ conn' = [conn EXCEPT ![n] = FALSE]
    /\ ring' = [ring EXCEPT ![n] = <<>>]
    /\ UNCHANGED <<cluster, report>>

\* What the handler sends next: one that fell behind skips to the oldest snapshot
\* the ring still has.
Oldest(n) == Head(ring[n])

\* A snapshot arrives, and replaces the last report; or it cannot be parsed.
Session(n) ==
    /\ conn[n] /\ ring[n] # <<>>
    /\ ring' = [ring EXCEPT ![n] = Tail(@)]
    /\ \/ /\ report' = [report EXCEPT ![n] = [heard |-> TRUE, views |-> Oldest(n),
                                              lag |-> 0, transit |-> Len(ring[n]) - 1]]
          /\ UNCHANGED disturbed
       \/ Disturb /\ UNCHANGED report
    /\ UNCHANGED <<cluster, conn>>

Next ==
    \/ \E fresh \in SUBSET {v \in Venues : owner[v] # NoNode} : Tick(fresh)
    \/ \E n \in Nodes, v \in Venues : Desync(n, v) \/ Acquire(n, v)
    \/ \E v \in Venues : Release(v)
    \/ \E n \in Nodes : Crash(n) \/ Restart(n) \/ Connect(n) \/ Break(n) \/ Session(n)

\* Time passes; a node is restarted, and its follower connects and reads.  No
\* two of these three can be enabled at once, so each is taken in the end.
Fairness ==
    /\ WF_vars(\E fresh \in SUBSET Venues : Tick(fresh))
    /\ \A n \in Nodes : WF_vars(Restart(n) \/ Connect(n) \/ Session(n))

Spec == Init /\ [][Next]_vars /\ Fairness

------------------------------------------------------------------------------
(* Merging the reports.                                                      *)

\* Mutant: a node is believed as long as its connection is up.
IncludedWhileConnected == {n \in Nodes : report[n].heard /\ conn[n]}

Included == {n \in Nodes : report[n].heard /\ report[n].lag <= MaxNodeAge}

\* Mutant: the age the node reported, as it is.
AgedByNothing(view, lag) == IF view.age = NoAge THEN [view EXCEPT !.age = lag] ELSE view

\* A view as old as the book was, and the report is.
AgedBy(view, lag) ==
    [view EXCEPT !.age = IF @ = NoAge THEN lag ELSE OlderBy(@, lag)]

Shown(n, v) == AgedBy(report[n].views[v], report[n].lag)

Claims(v) == {n \in Included : v \in DOMAIN report[n].views}

\* The streams reported as doubly owned.
Duplicated == {v \in Venues : Cardinality(Claims(v)) > 1}

\* The freshest claim, and the first by name among equals.
Place(n) == CHOOSE i \in DOMAIN Names : Names[i] = n

Winner(v) ==
    CHOOSE n \in Claims(v) :
        \A m \in Claims(v) :
            \/ Shown(n, v).age < Shown(m, v).age
            \/ Shown(n, v).age = Shown(m, v).age /\ Place(n) <= Place(m)

Reported == {v \in Venues : Claims(v) # {}}

\* The tops of book the touch is made of, in the order of the venues.
TopOfBook(v) ==
    LET view == Shown(Winner(v), v)
    IN [venue |-> v, status |-> view.status, age |-> view.age,
        bid |-> Quote[v].bid, ask |-> Quote[v].ask, integrity |-> Quote[v].integrity]

CrossView(quotes) == Consolidate(quotes, Len(VenueOrder), MaxAge)

Touch ==
    CrossView([i \in {j \in DOMAIN VenueOrder : VenueOrder[j] \in Reported} |->
                  TopOfBook(VenueOrder[i])])

------------------------------------------------------------------------------
(* Properties.                                                               *)

\* How long ago the book behind a view was really updated: its age when the
\* node published it, the time the snapshot waited, and the time since.
TrueAge(n, v) == report[n].views[v].age + report[n].transit + report[n].lag

\* A leg of the merged touch is a book that was live when its node last spoke,
\* and was updated no longer ago than the limit and what a ring may hold back,
\* whatever became of the node since.
LegsAreRecent ==
    \A leg \in {Touch.bid, Touch.ask} \ {NoLeg} :
        LET v == leg.venue
            n == Winner(v)
        IN /\ report[n].views[v].status = "live"
           /\ TrueAge(n, v) <= MaxAge + Capacity - 1

\* Only the owner of a stream, or one that held it not long ago, has a claim to
\* it in the merge: by the time the last report of a former owner is too old,
\* its book is gone from the view, and the alarm of a stream with two owners
\* with it.
OnlyOwnersClaim ==
    \A v \in Venues : \A n \in Claims(v) :
        owner[v] = n \/ moved[v] < MaxNodeAge + Capacity

\* Rings are bounded, and a former owner is soon out of the merge (http.rs
\* events, gateway/mod.rs merge).
Inv == TypeOK /\ OnlyOwnersClaim

\* A node that keeps running is in the merge again and again, whatever
\* connections and snapshots were lost before.
NodesComeBack ==
    \A n \in Nodes : <>[](n \in alive) => []<>(n \in Included)
==============================================================================
