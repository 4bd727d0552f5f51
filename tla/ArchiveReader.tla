---------------------------- MODULE ArchiveReader ----------------------------
(* The reader of what the writers stored (ma-persist/src/reader.rs): one     *)
(* cursor for each partition, here each node's files of one symbol, in key   *)
(* order; the cursors are merged by the wall clock of their heads.           *)
(*                                                                           *)
(* A place is a file and a row of it; what is left of a cursor is the places *)
(* of its partition that were not read yet.                                  *)
EXTENDS Archive

CONSTANT Rank   \* of the nodes' prefixes in the listing

ASSUME ReaderAssumption ==
    /\ Rank \in [Nodes -> Nat]
    /\ \A m, n \in Nodes : Rank[m] = Rank[n] => m = n

ArchivedPlaces(y) == UNION {{k} \X DOMAIN store[k] : k \in {k \in DOMAIN store : k.symbol = y}}

Partition(place) == place[1].node
EventAt(place) == store[place[1]][place[2]]

\* Mutant: parts of different hours are read by their numbers.
KeyBeforeByPart(j, k) == j.part < k.part \/ (j.part = k.part /\ j.hour < k.hour)

\* The layout is zero-padded and big-endian.
KeyBefore(j, k) == j.hour < k.hour \/ (j.hour = k.hour /\ j.part < k.part)

\* Key order, then row order.
Precedes(p, q) == KeyBefore(p[1], q[1]) \/ (p[1] = q[1] /\ p[2] < q[2])

\* The head of each cursor that has something left.
Heads(left) == {p \in left : \A q \in left : Partition(q) = Partition(p) => ~Precedes(q, p)}

\* The earliest wall clock wins, and the first cursor wins a tie.
Wins(p, q) ==
    LET WallAt(place) == log[EventAt(place)].wall
    IN  \/ WallAt(p) < WallAt(q)
        \/ WallAt(p) = WallAt(q) /\ Rank[Partition(p)] < Rank[Partition(q)]

NextPlace(left) == CHOOSE p \in Heads(left) : \A q \in Heads(left) \ {p} : Wins(p, q)

\* What is left of one symbol after k calls of EventReader::next_event.
Reading(y) ==
    LET left[k \in 0..Cardinality(ArchivedPlaces(y))] ==
            IF k = 0 THEN ArchivedPlaces(y) ELSE left[k - 1] \ {NextPlace(left[k - 1])}
    IN  left

\* A book is fed its stream's events in the order they were sent
\* (reader.rs: a clock step "cannot reorder a book's own input", and of several
\* nodes "no book's own input is touched by it").
BookInputInOrder ==
    \A y \in Symbols : \A k \in DOMAIN Reading(y) :
        LET left == Reading(y)[k]
            p == NextPlace(left)
        IN  \A q \in left :
               q # p /\ log[EventAt(q)].stream = log[EventAt(p)].stream => EventAt(p) < EventAt(q)

\* That holds as long as no wall clock is set back and the nodes whose
\* prefixes are read together agree on the time.
ClocksAgree == spent["step"] = 0 /\ \A m, n \in Nodes : wall[m] = wall[n]

ReadsInOrder == ClocksAgree => BookInputInOrder
==============================================================================
