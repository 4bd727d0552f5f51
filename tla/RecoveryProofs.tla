---------------------------- MODULE RecoveryProofs ----------------------------
(* Theorems about Recovery, for every capacity of the channel, number of     *)
(* frames, versions and budget of mishaps: a live book has the integrity its *)
(* venue promises, no book is blamed on data that was not lost, an outage is *)
(* told unless the channel evicts, and a book that is not live is about to   *)
(* become so.                                                                *)
(*                                                                           *)
(* They are about one sequence: what the channel holds, then what is on its  *)
(* way to the ingest task, then the update the venue would send next.  It is *)
(* cut into sessions by their ends, and within a session the frames are      *)
(* numbered and carry the levels of one book.                                *)
EXTENDS Recovery, FiniteSetTheorems, WellFoundedInduction, TLAPS

-------------------------------------------------------------------------------
(* Sequences of messages.                                                    *)

IsEnd(m) == m.kind = "ended"
IsRest(m) == m.kind = "rest"
IsStream(m) == m.kind \in {"snapshot", "update", "other"}

\* The version of the book a frame of the stream applies to; it brings m.at.
Before(m) == IF m.kind = "update" THEN m.at - 1 ELSE m.at

\* Frames i and j of the stream follow each other in one session.
Adjacent(s, i, j) ==
    /\ i < j /\ IsStream(s[i]) /\ IsStream(s[j])
    /\ \A k \in DOMAIN s : i < k /\ k < j => IsRest(s[k])

\* The frames of a session are numbered upwards, and a snapshot is the first.
Increasing(s) ==
    \A i, j \in DOMAIN s : Adjacent(s, i, j) => s[i].seq < s[j].seq /\ s[j].kind # "snapshot"

\* None is missing.
Dense(s) == \A i, j \in DOMAIN s : Adjacent(s, i, j) => s[j].seq = s[i].seq + 1

\* A frame that directly follows another applies to the version that one brought.
Levelled(s) ==
    \A i, j \in DOMAIN s :
        Adjacent(s, i, j) /\ s[j].seq = s[i].seq + 1 => Before(s[j]) = s[i].at

\* j is the first frame of the stream in its session.
IsFirst(s, j) ==
    /\ IsStream(s[j])
    /\ \A k \in DOMAIN s :
          k < j /\ IsStream(s[k]) => \E e \in DOMAIN s : k < e /\ e < j /\ IsEnd(s[e])

\* No session ends between i and j.
SameSession(s, i, j) == \A e \in DOMAIN s : i < e /\ e < j => ~IsEnd(s[e])

\* i belongs to the session the book is in.
InHeadSession(s, i) == \A e \in DOMAIN s : e < i => ~IsEnd(s[e])

\* i belongs to the session the ingest task is in.
InLastSession(s, i) == \A e \in DOMAIN s : i < e => ~IsEnd(s[e])

-------------------------------------------------------------------------------
(* What is under way.                                                        *)

\* The update the venue would send next on an open connection.
Coming == IF pc = "open" THEN <<Frame("update", sent, version + 1, "good")>> ELSE <<>>

Flight == queue \o wire \o Coming

\* A connection that is not open has nothing on its way, and its end comes last.
ConnectionIsKnown ==
    /\ pc # "open" =>
          /\ ~subscribed /\ wire = <<>> /\ rest = "idle"
          /\ queue # <<>> => IsEnd(queue[Len(queue)])
          /\ NoneOf({"evict"}) /\ queue = <<>> => sync = FreshSync /\ ~IsLive(book)
    /\ venue # Bitstamp =>
          /\ rest = "idle" /\ spent["lag"] = 0
          /\ pc = "open" => sent >= 1
    /\ pc = "open" /\ NoneOf({"lag"}) => subscribed

\* What a message can be when its venue v is at version top and g frames were garbled.
Known(m, v, top, g) ==
    IsEnd(m) \/
        /\ m \in Frames
        /\ m.at <= top /\ Before(m) \in 0..top
        /\ m.kind = "snapshot" => v # Bitstamp /\ m.seq = 0
        /\ IsRest(m) => v = Bitstamp
        /\ m.kind \in {"update", "other"} /\ v # Bitstamp => m.seq >= 1
        /\ m.form # "good" => m.kind = "update" /\ g > 0

\* The messages that can be in the channel, on the wire, in a REST
\* answer and in Bitstamp's buffer.
MessagesAreKnown ==
    /\ \A i \in DOMAIN queue : Known(queue[i], venue, version, spent["garble"])
    /\ \A i \in DOMAIN wire :
          IsStream(wire[i]) /\ Known(wire[i], venue, version, spent["garble"])
    /\ restAt <= version /\ sync.pending \subseteq 0..version

\* Sessions of Coinbase and Kraken start with their snapshot.
SessionsStartWhole ==
    venue # Bitstamp =>
        \A i \in DOMAIN Flight : i + 1 \in DOMAIN Flight /\ IsEnd(Flight[i]) =>
            Flight[i + 1].kind \in {"snapshot", "ended"}

ChainsHold ==
    /\ Increasing(Flight)
    /\ NoneOf({"skip"}) => Dense(Flight)
    /\ NoneOf({"lag"}) => Levelled(Flight)

-------------------------------------------------------------------------------
(* The book and what it is fed next.                                         *)

\* Kraken's checksum leaves no hole in a live book (kraken.rs).
KrakenIsVerified == venue = Kraken /\ IsLive(book) => ~book.hole

\* A frame that Coinbase's sequence check lets pass applies to the book as it is.
CoinbaseIsChecked ==
    venue = Coinbase /\ NoneOf({"garble"}) /\ spent["evict"] <= 1 /\ IsLive(book) =>
        /\ ~book.hole /\ sync.expected >= 1
        /\ Flight # <<>> /\ ~IsEnd(Flight[1]) =>
              IF Flight[1].kind = "snapshot" THEN spent["evict"] = 1
              ELSE /\ Flight[1].seq >= sync.expected
                   /\ Flight[1].seq = sync.expected => Before(Flight[1]) = book.at

\* While nothing is evicted a snapshot finds a VenueSync that was reset.
SnapshotsAreExpected ==
    NoneOf({"evict"}) /\ venue # Bitstamp /\ Flight # <<>> /\ Flight[1].kind = "snapshot" =>
        sync = FreshSync

\* While nothing is lost each frame continues where the book is.
StreamContinues ==
    NothingLost /\ venue # Bitstamp =>
        /\ IsLive(book) => ~book.hole
        /\ Flight # <<>> /\ ~IsEnd(Flight[1]) /\ Flight[1].kind # "snapshot" =>
              /\ venue = Coinbase => sync.expected \in {Unset, Flight[1].seq}
              /\ IsLive(book) => Before(Flight[1]) = book.at

\* A session of Coinbase or Kraken that the book is not live in ends.
StreamIsFixed == NoneOf({"evict"}) /\ venue # Bitstamp => SomeoneIsFixingIt

\* In the flight F, the diffs P that Bitstamp has buffered are a run, and the next one
\* extends it.
PendingIsARun(F, P) ==
    /\ \A d, e \in P : d..e \subseteq P
    /\ \A j \in DOMAIN F : IsFirst(F, j) /\ InHeadSession(F, j) =>
          \A d \in P : Before(F[j]) \in P /\ d <= Before(F[j])

\* Once it is spliced the book b is where the next diff applies, or beyond it because
\* the REST snapshot was.
SpliceIsSound(F, s, b) ==
    /\ s.mode = "awaiting" => ~IsLive(b)
    /\ s.mode = "live" =>
          /\ IsLive(b) /\ ~b.hole /\ s.pending = {}
          /\ b.at = s.last /\ s.spliced <= s.last
          /\ \A j \in DOMAIN F : IsFirst(F, j) /\ InHeadSession(F, j) =>
                \/ Before(F[j]) = s.last
                \/ Before(F[j]) < s.spliced /\ s.last = s.spliced

\* One fetch a session, and nothing is spliced before it.
RestComesOnce(F, fetch, mode) ==
    /\ \A r, q \in DOMAIN F :
          r < q /\ IsRest(F[r]) /\ IsRest(F[q]) => ~SameSession(F, r, q)
    /\ \A r \in DOMAIN F : IsRest(F[r]) =>
          /\ fetch # "idle" => ~InLastSession(F, r)
          /\ InHeadSession(F, r) => mode = "awaiting"
    /\ fetch # "idle" /\ ~HasAny(F, {"ended"}) => mode = "awaiting"

\* What a REST answer of version `at` leaves to its session to bring is what its diffs
\* do bring: j is its first frame, unless that is in P already.
Reaches(F, P, at, j) == ~InHeadSession(F, j) \/ P = {} => Before(F[j]) <= at

BufferReaches(P, at) == P # {} => \E d \in P : d <= at + 1

RestIsReached(F, P, fetch, answer) ==
    /\ \A r \in DOMAIN F : IsRest(F[r]) =>
          /\ \A j \in DOMAIN F :
                IsFirst(F, j) /\ SameSession(F, r, j) /\ SameSession(F, j, r) =>
                    Reaches(F, P, F[r].at, j)
          /\ InHeadSession(F, r) => BufferReaches(P, F[r].at)
    /\ fetch = "answered" =>
          /\ \A j \in DOMAIN F : IsFirst(F, j) /\ InLastSession(F, j) => Reaches(F, P, answer, j)
          /\ ~HasAny(F, {"ended"}) => BufferReaches(P, answer)

\* A session that nobody fetches for has its answer under way, or has had it.
RestIsUnderWay(F, isOpen, fetch, mode) ==
    isOpen /\ fetch = "idle" =>
        /\ \A e \in DOMAIN F : IsEnd(F[e]) => \E r \in DOMAIN F : e < r /\ IsRest(F[r])
        /\ ~HasAny(F, {"ended", "rest"}) => mode = "live"

Sound(F, s, b, isOpen, fetch, answer) ==
    /\ PendingIsARun(F, s.pending) /\ SpliceIsSound(F, s, b) /\ RestComesOnce(F, fetch, s.mode)
    /\ RestIsReached(F, s.pending, fetch, answer) /\ RestIsUnderWay(F, isOpen, fetch, s.mode)

BitstampIsSpliced ==
    NothingLost /\ venue = Bitstamp => Sound(Flight, sync, book, pc = "open", rest, restAt)

IInv ==
    /\ TypeOK /\ ConnectionIsKnown /\ MessagesAreKnown /\ SessionsStartWhole /\ ChainsHold
    /\ KrakenIsVerified /\ CoinbaseIsChecked /\ SnapshotsAreExpected /\ StreamContinues
    /\ StreamIsFixed /\ BitstampIsSpliced /\ NoFalseAlarm

-------------------------------------------------------------------------------
(* Lemmas about such sequences, one for each thing a step does to one.       *)

\* What is said of sessions up to some message depends on kinds up to there only.
LEMMA SamePrefix ==
  ASSUME NEW S, NEW s \in Seq(S), NEW t \in Seq(S), NEW n \in Nat, n <= Len(s), n <= Len(t),
         \A k \in 1..n : /\ IsStream(s[k]) <=> IsStream(t[k])
                         /\ IsEnd(s[k]) <=> IsEnd(t[k])
                         /\ IsRest(s[k]) <=> IsRest(t[k]),
         NEW i \in 1..n, NEW j \in 1..n
  PROVE  /\ Adjacent(s, i, j) <=> Adjacent(t, i, j)
         /\ IsFirst(s, j) <=> IsFirst(t, j)
         /\ SameSession(s, i, j) <=> SameSession(t, i, j)
         /\ InHeadSession(s, j) <=> InHeadSession(t, j)
<1>1. DOMAIN s = 1..Len(s) /\ DOMAIN t = 1..Len(t)
  OBVIOUS
<1>3. \A k \in DOMAIN s : k < j => k \in 1..n /\ k \in DOMAIN t
  BY <1>1
<1>4. \A k \in DOMAIN t : k < j => k \in 1..n /\ k \in DOMAIN s
  BY <1>1
<1>5. Adjacent(s, i, j) <=> Adjacent(t, i, j)
  BY <1>3, <1>4 DEF Adjacent
<1>6. IsFirst(s, j) <=> IsFirst(t, j)
  BY <1>3, <1>4 DEF IsFirst
<1>7. SameSession(s, i, j) <=> SameSession(t, i, j)
  BY <1>3, <1>4 DEF SameSession
<1>8. InHeadSession(s, j) <=> InHeadSession(t, j)
  BY <1>3, <1>4 DEF InHeadSession
<1> QED BY <1>5, <1>6, <1>7, <1>8

\* When the oldest message goes, the others keep their order.
LEMMA TailIndices ==
  ASSUME NEW S, NEW s \in Seq(S), s # <<>>
  PROVE  /\ Tail(s) \in Seq(S) /\ Len(Tail(s)) = Len(s) - 1
         /\ DOMAIN s = 1..Len(s) /\ DOMAIN Tail(s) = 1 .. Len(s) - 1
         /\ Len(s) \in Nat /\ Len(s) >= 1 /\ Head(s) = s[1]
         /\ \A k \in DOMAIN Tail(s) : k \in Nat /\ k + 1 \in DOMAIN s /\ Tail(s)[k] = s[k + 1]
         /\ \A k \in DOMAIN s \ {1} :
               k - 1 \in DOMAIN Tail(s) /\ (k - 1) + 1 = k /\ Tail(s)[k - 1] = s[k]
  OBVIOUS

\* The sessions of what is left are those of the messages after the oldest one.
LEMMA TailSessions ==
  ASSUME NEW S, NEW s \in Seq(S), s # <<>>, NEW i \in DOMAIN Tail(s), NEW j \in DOMAIN Tail(s)
  PROVE  /\ Adjacent(Tail(s), i, j) <=> Adjacent(s, i + 1, j + 1)
         /\ SameSession(Tail(s), i, j) <=> SameSession(s, i + 1, j + 1)
         /\ InLastSession(Tail(s), j) <=> InLastSession(s, j + 1)
         /\ InHeadSession(s, j + 1) <=> InHeadSession(Tail(s), j) /\ ~IsEnd(s[1])
         /\ IsFirst(s, j + 1) => IsFirst(Tail(s), j)
         /\ IsFirst(Tail(s), j) =>
               IsFirst(s, j + 1) \/ (InHeadSession(Tail(s), j) /\ IsStream(s[1]))
<1> DEFINE t == Tail(s)
<1>1. \A k \in DOMAIN t : k \in Nat /\ k + 1 \in DOMAIN s /\ t[k] = s[k + 1]
  BY TailIndices
<1>2. \A k \in DOMAIN s \ {1} : k - 1 \in DOMAIN t /\ (k - 1) + 1 = k /\ t[k - 1] = s[k]
  BY TailIndices
<1>3. \A k \in DOMAIN s : k \in Nat /\ k >= 1
  OBVIOUS
<1>4. 1 \in DOMAIN s
  BY TailIndices
<1>0. i \in DOMAIN t /\ j \in DOMAIN t
  OBVIOUS
<1> HIDE DEF t
<1>11. /\ t[i] = s[i + 1] /\ t[j] = s[j + 1] /\ (i < j <=> i + 1 < j + 1)
      /\ \A k \in DOMAIN t : (i < k <=> i + 1 < k + 1) /\ (k < j <=> k + 1 < j + 1)
  BY <1>0, <1>1
<1>5. Adjacent(t, i, j) <=> Adjacent(s, i + 1, j + 1)
  <2>1. ASSUME Adjacent(t, i, j), NEW k \in DOMAIN s, i + 1 < k, k < j + 1 PROVE IsRest(s[k])
    <3>1. k # 1 /\ i < k - 1 /\ k - 1 < j
      BY <1>1, <1>3, <2>1
    <3> QED BY <1>2, <2>1, <3>1 DEF Adjacent
  <2>2. ASSUME Adjacent(s, i + 1, j + 1), NEW k \in DOMAIN t, i < k, k < j PROVE IsRest(t[k])
    BY <1>11, <1>1, <2>2 DEF Adjacent
  <2> QED BY <1>11, <2>1, <2>2 DEF Adjacent
<1>6. SameSession(t, i, j) <=> SameSession(s, i + 1, j + 1)
  <2>1. ASSUME SameSession(t, i, j), NEW k \in DOMAIN s, i + 1 < k, k < j + 1 PROVE ~IsEnd(s[k])
    <3>1. k # 1 /\ i < k - 1 /\ k - 1 < j
      BY <1>1, <1>3, <2>1
    <3> QED BY <1>2, <2>1, <3>1 DEF SameSession
  <2>2. ASSUME SameSession(s, i + 1, j + 1), NEW k \in DOMAIN t, i < k, k < j PROVE ~IsEnd(t[k])
    BY <1>1, <2>2 DEF SameSession
  <2> QED BY <2>1, <2>2 DEF SameSession
<1>7. InLastSession(t, j) <=> InLastSession(s, j + 1)
  <2>1. ASSUME InLastSession(t, j), NEW k \in DOMAIN s, j + 1 < k PROVE ~IsEnd(s[k])
    <3>1. k # 1 /\ j < k - 1
      BY <1>1, <1>3, <2>1
    <3> QED BY <1>2, <2>1, <3>1 DEF InLastSession
  <2>2. ASSUME InLastSession(s, j + 1), NEW k \in DOMAIN t, j < k PROVE ~IsEnd(t[k])
    BY <1>1, <2>2 DEF InLastSession
  <2> QED BY <2>1, <2>2 DEF InLastSession
<1>8. InHeadSession(s, j + 1) <=> InHeadSession(t, j) /\ ~IsEnd(s[1])
  <2>1. ASSUME InHeadSession(t, j), ~IsEnd(s[1]), NEW k \in DOMAIN s, k < j + 1 PROVE ~IsEnd(s[k])
    <3>1. CASE k = 1
      BY <2>1, <3>1
    <3>2. CASE k # 1
      BY <1>1, <1>2, <1>3, <2>1, <3>2 DEF InHeadSession
    <3> QED BY <3>1, <3>2
  <2>2. ASSUME InHeadSession(s, j + 1)
        PROVE  ~IsEnd(s[1]) /\ \A k \in DOMAIN t : k < j => ~IsEnd(t[k])
    <3>1. 1 < j + 1
      BY <1>1, <1>3
    <3> QED BY <1>1, <1>4, <2>2, <3>1 DEF InHeadSession
  <2> QED BY <2>1, <2>2 DEF InHeadSession
<1>9. ASSUME IsFirst(s, j + 1) PROVE IsFirst(t, j)
  <2>1. ASSUME NEW k \in DOMAIN t, k < j, IsStream(t[k])
        PROVE  \E e \in DOMAIN t : k < e /\ e < j /\ IsEnd(t[e])
    <3>1. PICK e \in DOMAIN s : k + 1 < e /\ e < j + 1 /\ IsEnd(s[e])
      BY <1>1, <1>9, <2>1 DEF IsFirst
    <3>2. e # 1 /\ k < e - 1 /\ e - 1 < j
      BY <1>1, <1>3, <3>1
    <3> QED BY <1>2, <3>1, <3>2
  <2> QED BY <1>11, <1>9, <2>1 DEF IsFirst
<1>10. ASSUME IsFirst(t, j), ~(InHeadSession(t, j) /\ IsStream(s[1]))
       PROVE  IsFirst(s, j + 1)
  <2>1. ASSUME NEW k \in DOMAIN s, k < j + 1, IsStream(s[k])
        PROVE  \E e \in DOMAIN s : k < e /\ e < j + 1 /\ IsEnd(s[e])
    <3>1. CASE k = 1
      <4>1. PICK e \in DOMAIN t : e < j /\ IsEnd(t[e])
        BY <1>10, <2>1, <3>1 DEF InHeadSession
      <4>2. e + 1 \in DOMAIN s /\ k < e + 1 /\ e + 1 < j + 1 /\ t[e] = s[e + 1]
        BY <1>1, <1>3, <3>1, <4>1, TailIndices, SMTT(90) DEF t
      <4> QED BY <4>1, <4>2
    <3>2. CASE k # 1
      <4>1. k - 1 \in DOMAIN t /\ k - 1 < j /\ t[k - 1] = s[k] /\ (k - 1) + 1 = k
        BY <1>1, <1>2, <1>3, <2>1, <3>2
      <4>2. PICK e \in DOMAIN t : k - 1 < e /\ e < j /\ IsEnd(t[e])
        BY <1>10, <2>1, <4>1 DEF IsFirst
      <4>3. e + 1 \in DOMAIN s /\ k < e + 1 /\ e + 1 < j + 1 /\ t[e] = s[e + 1]
        BY <1>1, <1>3, <4>2
      <4> QED BY <4>2, <4>3
    <3> QED BY <3>1, <3>2
  <2> QED BY <1>11, <1>10, <2>1 DEF IsFirst
<1> QED BY <1>5, <1>6, <1>7, <1>8, <1>9, <1>10 DEF t

\* A REST answer that takes its place between two messages leaves the order of the
\* others as it was.
LEMMA InsertSessions ==
  ASSUME NEW S, NEW s \in Seq(S), NEW t \in Seq(S), NEW f \in [DOMAIN s -> DOMAIN t],
         \A i, j \in DOMAIN s : i < j <=> f[i] < f[j],
         \A k \in DOMAIN s : t[f[k]] = s[k],
         \A k \in DOMAIN t : (\E i \in DOMAIN s : k = f[i]) \/ IsRest(t[k]),
         NEW i \in DOMAIN s, NEW j \in DOMAIN s
  PROVE  /\ Adjacent(s, i, j) <=> Adjacent(t, f[i], f[j])
         /\ SameSession(s, i, j) <=> SameSession(t, f[i], f[j])
         /\ InLastSession(s, j) <=> InLastSession(t, f[j])
         /\ InHeadSession(s, j) <=> InHeadSession(t, f[j])
         /\ IsFirst(s, j) <=> IsFirst(t, f[j])
<1>1. \A k \in DOMAIN t : IsEnd(t[k]) \/ IsStream(t[k]) => \E n \in DOMAIN s : k = f[n]
  BY DEF IsEnd, IsStream, IsRest
<1>2. Adjacent(s, i, j) <=> Adjacent(t, f[i], f[j])
  <2>1. ASSUME Adjacent(s, i, j), NEW k \in DOMAIN t, f[i] < k, k < f[j] PROVE IsRest(t[k])
    BY <2>1 DEF Adjacent
  <2> QED BY <2>1 DEF Adjacent
<1>3. SameSession(s, i, j) <=> SameSession(t, f[i], f[j])
  BY <1>1 DEF SameSession
<1>4. InLastSession(s, j) <=> InLastSession(t, f[j])
  BY <1>1 DEF InLastSession
<1>5. InHeadSession(s, j) <=> InHeadSession(t, f[j])
  BY <1>1 DEF InHeadSession
<1>6. IsFirst(s, j) => IsFirst(t, f[j])
  <2>1. ASSUME IsFirst(s, j), NEW k \in DOMAIN t, k < f[j], IsStream(t[k])
        PROVE  \E e \in DOMAIN t : k < e /\ e < f[j] /\ IsEnd(t[e])
    <3>1. PICK n \in DOMAIN s : k = f[n]
      BY <1>1, <2>1
    <3>2. PICK e \in DOMAIN s : n < e /\ e < j /\ IsEnd(s[e])
      BY <2>1, <3>1 DEF IsFirst
    <3> QED BY <3>1, <3>2
  <2> QED BY <2>1 DEF IsFirst
<1>7. IsFirst(t, f[j]) => IsFirst(s, j)
  <2>1. ASSUME IsFirst(t, f[j]), NEW k \in DOMAIN s, k < j, IsStream(s[k])
        PROVE  \E e \in DOMAIN s : k < e /\ e < j /\ IsEnd(s[e])
    <3>1. PICK e \in DOMAIN t : f[k] < e /\ e < f[j] /\ IsEnd(t[e])
      BY <2>1 DEF IsFirst
    <3>2. PICK n \in DOMAIN s : e = f[n]
      BY <1>1, <3>1
    <3> QED BY <3>1, <3>2
  <2> QED BY <2>1 DEF IsFirst
<1> QED BY <1>2, <1>3, <1>4, <1>5, <1>6, <1>7

\* The chains of a sequence are those of its beginning.
LEMMA ChainsOfPrefix ==
  ASSUME NEW S, NEW s \in Seq(S), NEW t \in Seq(S), Len(t) <= Len(s),
         \A k \in 1..Len(t) : t[k] = s[k]
  PROVE  /\ Increasing(s) => Increasing(t)
         /\ Dense(s) => Dense(t)
         /\ Levelled(s) => Levelled(t)
<1>1. DOMAIN t = 1..Len(t) /\ DOMAIN t \subseteq DOMAIN s /\ Len(t) \in Nat
  OBVIOUS
<1>2. \A k \in 1..Len(t) : /\ IsStream(s[k]) <=> IsStream(t[k])
                           /\ IsEnd(s[k]) <=> IsEnd(t[k])
                           /\ IsRest(s[k]) <=> IsRest(t[k])
  OBVIOUS
<1>3. \A i, j \in DOMAIN t : Adjacent(t, i, j) => Adjacent(s, i, j)
  BY <1>1, <1>2, SamePrefix, SMTT(90)
<1> QED BY <1>1, <1>3 DEF Increasing, Dense, Levelled

\* They are those of what is left when the oldest message goes.
LEMMA ChainsOfTail ==
  ASSUME NEW S, NEW s \in Seq(S), s # <<>>
  PROVE  /\ Increasing(s) => Increasing(Tail(s))
         /\ Dense(s) => Dense(Tail(s))
         /\ Levelled(s) => Levelled(Tail(s))
<1>1. \A i, j \in DOMAIN Tail(s) : Adjacent(Tail(s), i, j) => Adjacent(s, i + 1, j + 1)
  BY TailSessions
<1>2. \A k \in DOMAIN Tail(s) : k + 1 \in DOMAIN s /\ Tail(s)[k] = s[k + 1]
  BY TailIndices
<1> HIDE DEF Adjacent
<1> QED BY <1>1, <1>2 DEF Increasing, Dense, Levelled

\* They survive a REST answer in their midst.
LEMMA ChainsOfInsert ==
  ASSUME NEW S, NEW s \in Seq(S), NEW t \in Seq(S), NEW f \in [DOMAIN s -> DOMAIN t],
         \A i, j \in DOMAIN s : i < j <=> f[i] < f[j],
         \A k \in DOMAIN s : t[f[k]] = s[k],
         \A k \in DOMAIN t : (\E i \in DOMAIN s : k = f[i]) \/ IsRest(t[k])
  PROVE  /\ Increasing(s) => Increasing(t)
         /\ Dense(s) => Dense(t)
         /\ Levelled(s) => Levelled(t)
<1>1. \A i, j \in DOMAIN s : Adjacent(t, f[i], f[j]) => Adjacent(s, i, j)
  BY InsertSessions
<1>2. \A i, j \in DOMAIN t : Adjacent(t, i, j) =>
         \E k, n \in DOMAIN s : i = f[k] /\ j = f[n]
  BY DEF Adjacent, IsStream, IsRest
<1> QED BY <1>1, <1>2 DEF Increasing, Dense, Levelled

\* A message after an end, or an end, or the first message of all, follows nothing.
LEMMA ChainsOfStart ==
  ASSUME NEW S, NEW s \in Seq(S), NEW m \in S,
         s = <<>> \/ IsEnd(s[Len(s)]) \/ IsEnd(m)
  PROVE  /\ Increasing(s) => Increasing(Append(s, m))
         /\ Dense(s) => Dense(Append(s, m))
         /\ Levelled(s) => Levelled(Append(s, m))
<1> DEFINE t == Append(s, m)
<1>1. /\ t \in Seq(S) /\ DOMAIN s = 1..Len(s) /\ DOMAIN t = 1 .. Len(s) + 1
      /\ Len(s) \in Nat /\ Len(t) = Len(s) + 1
      /\ \A k \in 1..Len(s) : t[k] = s[k]
      /\ t[Len(s) + 1] = m
  OBVIOUS
<1> HIDE DEF t
<1>2. ASSUME NEW i \in DOMAIN t, NEW j \in DOMAIN t, Adjacent(t, i, j)
      PROVE  i \in DOMAIN s /\ j \in DOMAIN s /\ Adjacent(s, i, j)
  <2>1. i < j /\ i \in 1..Len(s)
    BY <1>1, <1>2 DEF Adjacent
  <2>2. ASSUME j = Len(s) + 1 PROVE FALSE
    <3>1. IsEnd(s[Len(s)])
      BY <1>1, <1>2, <2>1, <2>2 DEF Adjacent, IsStream, IsEnd
    <3>2. Len(s) \in DOMAIN t /\ Len(s) < j /\ ~IsRest(t[Len(s)]) /\ ~IsStream(t[Len(s)])
      BY <1>1, <2>1, <2>2, <3>1 DEF IsEnd, IsRest, IsStream
    <3>3. i = Len(s) \/ i < Len(s)
      BY <1>1, <2>1
    <3> QED BY <1>2, <3>2, <3>3 DEF Adjacent
  <2>3. j \in 1..Len(s)
    BY <1>1, <2>2
  <2> QED BY <1>1, <1>2, <2>1, <2>3, SamePrefix, SMTT(90)
<1> QED BY <1>1, <1>2 DEF Increasing, Dense, Levelled, t

\* The frame after the last one is adjacent to it.
LEMMA ChainsOfNext ==
  ASSUME NEW S, NEW s \in Seq(S), NEW m \in S, s # <<>>,
         IsStream(s[Len(s)]), IsStream(m), m.kind # "snapshot",
         s[Len(s)].seq \in Nat, m.seq = s[Len(s)].seq + 1, Before(m) = s[Len(s)].at
  PROVE  /\ Increasing(s) => Increasing(Append(s, m))
         /\ Dense(s) => Dense(Append(s, m))
         /\ Levelled(s) => Levelled(Append(s, m))
<1> DEFINE t == Append(s, m)
<1>1. /\ t \in Seq(S) /\ DOMAIN s = 1..Len(s) /\ DOMAIN t = 1 .. Len(s) + 1
      /\ Len(s) \in Nat /\ Len(t) = Len(s) + 1
      /\ \A k \in 1..Len(s) : t[k] = s[k]
      /\ t[Len(s) + 1] = m /\ Len(s) >= 1
  OBVIOUS
<1> HIDE DEF t
<1>2. ASSUME NEW i \in DOMAIN t, NEW j \in DOMAIN t, Adjacent(t, i, j)
      PROVE  \/ i \in DOMAIN s /\ j \in DOMAIN s /\ Adjacent(s, i, j)
             \/ i = Len(s) /\ j = Len(s) + 1
  <2>1. i < j /\ i \in 1..Len(s)
    BY <1>1, <1>2 DEF Adjacent
  <2>2. CASE j = Len(s) + 1
    <3>1. Len(s) \in DOMAIN t /\ Len(s) < j /\ ~IsRest(t[Len(s)])
      BY <1>1, <2>2 DEF IsRest, IsStream
    <3>2. i = Len(s) \/ i < Len(s)
      BY <1>1, <2>1
    <3> QED BY <1>2, <2>2, <3>1, <3>2 DEF Adjacent
  <2>3. CASE j # Len(s) + 1
    <3>1. j \in 1..Len(s)
      BY <1>1, <2>3
    <3>2. \A k \in 1..Len(s) : /\ IsStream(s[k]) <=> IsStream(t[k])
                               /\ IsEnd(s[k]) <=> IsEnd(t[k])
                               /\ IsRest(s[k]) <=> IsRest(t[k])
      BY <1>1
    <3> QED BY <1>1, <1>2, <2>1, <3>1, <3>2, SamePrefix, SMTT(90)
  <2> QED BY <2>2, <2>3
<1>3. s[Len(s)].seq < m.seq
  OBVIOUS
<1> QED BY <1>1, <1>2, <1>3 DEF Increasing, Dense, Levelled, t

\* The last frame may be replaced by one with its number and its level.
LEMMA ChainsOfLast ==
  ASSUME NEW S, NEW s \in Seq(S), NEW m \in S, NEW n \in S,
         IsStream(m), IsStream(n), n.kind # "snapshot", n.seq = m.seq
  PROVE  /\ Increasing(Append(s, m)) => Increasing(Append(s, n))
         /\ Dense(Append(s, m)) => Dense(Append(s, n))
         /\ Levelled(Append(s, m)) /\ Before(n) = Before(m) => Levelled(Append(s, n))
<1> DEFINE t == Append(s, m)
           u == Append(s, n)
<1>1. /\ t \in Seq(S) /\ u \in Seq(S) /\ DOMAIN t = 1 .. Len(s) + 1 /\ DOMAIN u = DOMAIN t
      /\ Len(s) \in Nat /\ Len(t) = Len(s) + 1 /\ Len(u) = Len(s) + 1
      /\ \A k \in 1..Len(s) : t[k] = s[k] /\ u[k] = s[k]
      /\ t[Len(s) + 1] = m /\ u[Len(s) + 1] = n
  OBVIOUS
<1> HIDE DEF t, u
<1>2. ASSUME NEW i \in DOMAIN t, NEW j \in DOMAIN t, Adjacent(u, i, j)
      PROVE  /\ Adjacent(t, i, j) /\ i \in 1..Len(s)
             /\ j \in 1..Len(s) \/ j = Len(s) + 1
  <2>1. i < j /\ i \in 1..Len(s) /\ (j \in 1..Len(s) \/ j = Len(s) + 1)
    BY <1>1, <1>2 DEF Adjacent
  <2>2. (IsStream(u[i]) <=> IsStream(t[i])) /\ (IsStream(u[j]) <=> IsStream(t[j]))
    BY <1>1, <2>1
  <2>3. \A k \in DOMAIN t : k < j => t[k] = u[k]
    BY <1>1, <2>1
  <2> QED BY <1>1, <1>2, <2>1, <2>2, <2>3 DEF Adjacent
<1> QED BY <1>1, <1>2 DEF Increasing, Dense, Levelled, t, u

\* If the number of the last frame moves up, its level no longer matters.
LEMMA ChainsOfLater ==
  ASSUME NEW S, NEW s \in Seq(S), NEW m \in S, NEW n \in S,
         \A k \in DOMAIN s : IsStream(s[k]) => s[k].seq \in Nat,
         IsStream(m), IsStream(n), n.kind # "snapshot",
         m.seq \in Nat, n.seq = m.seq + 1, Increasing(Append(s, m))
  PROVE  /\ Increasing(Append(s, n))
         /\ Levelled(Append(s, m)) => Levelled(Append(s, n))
<1> DEFINE t == Append(s, m)
           u == Append(s, n)
<1>1. /\ t \in Seq(S) /\ u \in Seq(S) /\ DOMAIN t = 1 .. Len(s) + 1 /\ DOMAIN u = DOMAIN t
      /\ Len(s) \in Nat /\ Len(t) = Len(s) + 1 /\ Len(u) = Len(s) + 1
      /\ \A k \in 1..Len(s) : t[k] = s[k] /\ u[k] = s[k] /\ k \in DOMAIN s
      /\ t[Len(s) + 1] = m /\ u[Len(s) + 1] = n
  OBVIOUS
<1>0. Increasing(t)
  OBVIOUS
<1> HIDE DEF t, u
<1>2. ASSUME NEW i \in DOMAIN t, NEW j \in DOMAIN t, Adjacent(u, i, j)
      PROVE  /\ Adjacent(t, i, j) /\ i \in 1..Len(s) /\ s[i].seq \in Nat
             /\ j \in 1..Len(s) \/ j = Len(s) + 1
  <2>1. i < j /\ i \in 1..Len(s) /\ (j \in 1..Len(s) \/ j = Len(s) + 1)
    BY <1>1, <1>2 DEF Adjacent
  <2>2. (IsStream(u[i]) <=> IsStream(t[i])) /\ (IsStream(u[j]) <=> IsStream(t[j]))
    BY <1>1, <2>1
  <2>3. \A k \in DOMAIN t : k < j => t[k] = u[k]
    BY <1>1, <2>1
  <2>4. s[i].seq \in Nat
    BY <1>1, <1>2, <2>1 DEF Adjacent
  <2> QED BY <1>1, <1>2, <2>1, <2>2, <2>3, <2>4 DEF Adjacent
<1>3. \A i \in 1..Len(s) : \A j \in DOMAIN t :
        Adjacent(u, i, j) => t[i].seq < t[j].seq /\ t[j].kind # "snapshot"
  BY <1>0, <1>1, <1>2 DEF Increasing
<1>4. Increasing(u)
  BY <1>1, <1>2, <1>3 DEF Increasing
<1>5. ASSUME Levelled(t), NEW i \in DOMAIN u, NEW j \in DOMAIN u, Adjacent(u, i, j),
             u[j].seq = u[i].seq + 1
      PROVE  Before(u[j]) = u[i].at
  <2>1. j # Len(s) + 1
    <3> SUFFICES ASSUME j = Len(s) + 1 PROVE FALSE
      OBVIOUS
    <3>1. s[i].seq < m.seq /\ m.seq + 1 = s[i].seq + 1
      BY <1>1, <1>2, <1>3, <1>5
    <3> QED BY <1>1, <1>2, <1>5, <3>1
  <2>2. t[j] = u[j] /\ t[i] = u[i] /\ Adjacent(t, i, j)
    BY <1>1, <1>2, <1>5, <2>1
  <2> QED BY <1>1, <1>5, <2>2 DEF Levelled
<1> QED BY <1>4, <1>5 DEF Levelled, t, u

-------------------------------------------------------------------------------
(* Type correctness.                                                         *)

\* A bounded set of versions has a greatest one.
LEMMA MaxOfVersions ==
  ASSUME NEW n \in Nat, NEW S \in SUBSET (0..n), S # {}
  PROVE  Max(S) \in S /\ \A d \in S : d <= Max(S)
<1> DEFINE U == {u \in Nat : \A d \in S : d <= u}
           Less == OpToRel(<, Nat)
<1>0. \A u, v \in Nat : u < v => <<u, v>> \in Less
  BY DEF OpToRel
<1>1. PICK m \in U : \A u \in U : ~ (<<u, m>> \in Less)
  <2>1. n \in U /\ U \subseteq Nat
    OBVIOUS
  <2>2. IsWellFoundedOn(Less, Nat)
    BY NatLessThanWellFounded
  <2> HIDE DEF U, Less
  <2> QED BY <2>1, <2>2, WFMin
<1>2. \A u \in U : ~(u < m)
  BY <1>0, <1>1
<1>3. m \in S
  <2> SUFFICES ASSUME m \notin S PROVE FALSE
    OBVIOUS
  <2>1. m # 0
    <3>1. PICK d \in S : TRUE
      OBVIOUS
    <3>2. d \in 0..n /\ d <= m
      OBVIOUS
    <3> QED BY <3>2
  <2>2. m - 1 \in U
    BY <2>1
  <2> QED BY <1>2, <2>2
<1>4. \A d \in S : m >= d
  OBVIOUS
<1> HIDE DEF U
<1> QED BY <1>3, <1>4 DEF Max

\* What may be in the channel.
Messages == Frames \union {SessionEnded}

\* What a mishap costs is within the budget.
LEMMA SpendingType ==
  ASSUME TypeOK, NEW mishaps, \A m \in Mishaps \intersect mishaps : CanSpend(m),
         spent' = Spending(mishaps)
  PROVE  /\ \A m \in Mishaps : spent'[m] \in 0..Budget[m] /\ spent'[m] >= spent[m]
         /\ \A m \in Mishaps : spent'[m] = IF m \in mishaps THEN spent[m] + 1 ELSE spent[m]
  BY RecoveryAssumption DEF TypeOK, CanSpend, Spending

\* The channel after it made room.
Kept == IF Full THEN Tail(queue) ELSE queue

\* A send puts the message behind those that are kept.
LEMMA PublishType ==
  ASSUME TypeOK, NEW m \in Messages, NEW mishaps, \A x \in Mishaps \intersect mishaps : CanSpend(x),
         Publish(m, mishaps), "evict" \notin mishaps
  PROVE  /\ Kept \in Seq(Messages) /\ queue' = Append(Kept, m)
         /\ queue' \in Seq(Messages) /\ Len(queue') <= Capacity
         /\ \A x \in Mishaps : spent'[x] \in 0..Budget[x] /\ spent'[x] >= spent[x]
         /\ spent'["evict"] = IF Full THEN spent["evict"] + 1 ELSE spent["evict"]
         /\ \A x \in Mishaps \ {"evict"} :
               spent'[x] = IF x \in mishaps THEN spent[x] + 1 ELSE spent[x]
<1>1. queue \in Seq(Messages) /\ Len(queue) <= Capacity /\ Capacity \in Nat \ {0}
  BY RecoveryAssumption DEF TypeOK, Messages
<1>2. Kept \in Seq(Messages) /\ Len(Kept) < Capacity
  <2>1. CASE Full
    BY <1>1, <2>1 DEF Kept, Full
  <2>2. CASE ~Full
    BY <1>1, <2>2 DEF Kept, Full
  <2> QED BY <2>1, <2>2
<1>3. queue' = Append(Kept, m)
  BY DEF Publish, Pushed, Kept
<1>4. queue' \in Seq(Messages) /\ Len(queue') <= Capacity
  BY <1>1, <1>2, <1>3
<1>5. \A x \in Mishaps \intersect (mishaps \union (IF Full THEN {"evict"} ELSE {})) : CanSpend(x)
  BY DEF Publish
<1>6. spent' = Spending(mishaps \union (IF Full THEN {"evict"} ELSE {}))
  BY DEF Publish
<1>7. "evict" \in Mishaps
  BY DEF Mishaps
<1> QED BY <1>2, <1>3, <1>4, <1>5, <1>6, <1>7, SpendingType

\* The end of a session.
LEMMA EndSessionType ==
  ASSUME TypeOK, NEW mishaps \in SUBSET Mishaps, \A x \in mishaps : CanSpend(x),
         EndSession(mishaps), "evict" \notin mishaps, wanted' \in BOOLEAN
  PROVE  TypeOK'
<1>1. SessionEnded \in Messages
  BY DEF Messages
<1>2. Publish(SessionEnded, mishaps)
  BY DEF EndSession
<1>3. /\ queue' \in Seq(Frames \union {SessionEnded}) /\ Len(queue') <= Capacity
      /\ \A x \in Mishaps : spent'[x] \in 0..Budget[x]
  BY <1>1, <1>2, PublishType DEF Messages
<1>4. <<>> \in Seq(Frames) /\ Len(<<>>) <= MaxWire /\ 0 \in 0..MaxVersion
  BY RecoveryAssumption
<1> QED BY <1>3, <1>4 DEF TypeOK, EndSession, aggregator

\* Frames are what the venue sends.
LEMMA FrameType ==
  ASSUME NEW n \in Nat, NEW at \in Nat
  PROVE  /\ Frame("snapshot", n, at, "good") \in Frames /\ Frame("other", n, at, "good") \in Frames
         /\ Frame("rest", n, at, "good") \in Frames
         /\ \A form \in {"good", "bad_envelope", "bad_events"} :
               Frame("update", n, at, form) \in Frames
  BY DEF Frame, Frames

\* The steps of the venue.
LEMMA VenueType ==
  ASSUME TypeOK, VenueUpdates \/ VenueChatters \/ SubscriptionTakesEffect \/ RestAnswered
  PROVE  TypeOK'
<1>1. CASE VenueUpdates
  <2>1. version' = version + 1 /\ version' \in 0..MaxVersion /\ version + 1 \in Nat /\ sent \in Nat
    BY <1>1, RecoveryAssumption DEF TypeOK, VenueUpdates
  <2>2. restAt \in 0..MaxVersion /\ sync' = sync /\ book' = book
    BY <1>1 DEF VenueUpdates, TypeOK, aggregator
  <2>3. sent' \in Nat
    BY <1>1, <2>1 DEF VenueUpdates
  <2>4. wire' \in Seq(Frames) /\ Len(wire') <= MaxWire
    <3>1. \/ wire' = wire
          \/ /\ Len(wire) < MaxWire
             /\ \E form \in {"good", "bad_envelope", "bad_events"} :
                   wire' = Append(wire, Frame("update", sent, version + 1, form))
      BY <1>1 DEF VenueUpdates
    <3>2. wire \in Seq(Frames) /\ Len(wire) <= MaxWire
      BY DEF TypeOK
    <3>3. ASSUME NEW f \in Frames, Len(wire) < MaxWire
          PROVE  Append(wire, f) \in Seq(Frames) /\ Len(Append(wire, f)) <= MaxWire
      BY <3>2, <3>3, RecoveryAssumption
    <3> QED BY <2>1, <3>1, <3>2, <3>3, FrameType
  <2>5. \A m \in Mishaps : spent'[m] \in 0..Budget[m]
    <3>1. \/ spent' = spent
          \/ CanSpend("skip") /\ spent' = Spending({"skip"})
          \/ CanSpend("garble") /\ spent' = Spending({"garble"})
      BY <1>1 DEF VenueUpdates
    <3> QED BY <3>1, SpendingType DEF TypeOK
  <2> QED BY <1>1, <2>1, <2>2, <2>3, <2>4, <2>5 DEF VenueUpdates, TypeOK
<1>2. CASE VenueChatters
  <2>1. wire' \in Seq(Frames) /\ Len(wire') <= MaxWire
    BY <1>2, FrameType, RecoveryAssumption DEF VenueChatters, TypeOK
  <2>2. \A m \in Mishaps : spent'[m] \in 0..Budget[m]
    BY <1>2, SpendingType DEF VenueChatters
  <2> QED BY <1>2, <2>1, <2>2 DEF VenueChatters, TypeOK, aggregator
<1>3. CASE SubscriptionTakesEffect \/ RestAnswered
  BY <1>3 DEF SubscriptionTakesEffect, RestAnswered, TypeOK, aggregator
<1> QED BY <1>1, <1>2, <1>3

\* The steps of the ingest task.
LEMMA IngestType ==
  ASSUME TypeOK, Connect \/ SessionBreaks \/ HearResync \/ RestLands \/ Receive \/ BackoffEnds
  PROVE  TypeOK'
<1>1. CASE Connect
  <2>1. wire' \in Seq(Frames) /\ Len(wire') <= MaxWire /\ sent' \in Nat
    <3>1. \/ wire' = wire /\ sent' = sent
          \/ wire' = <<Frame("snapshot", 0, version, "good")>> /\ sent' = 1
      BY <1>1 DEF Connect
    <3>2. Frame("snapshot", 0, version, "good") \in Frames
      BY FrameType, RecoveryAssumption DEF TypeOK
    <3>3. ASSUME NEW f \in Frames PROVE <<f>> \in Seq(Frames) /\ Len(<<f>>) <= MaxWire
      BY RecoveryAssumption
    <3>4. wire \in Seq(Frames) /\ Len(wire) <= MaxWire /\ sent \in Nat
      BY DEF TypeOK
    <3>5. CASE wire' = wire /\ sent' = sent
      BY <3>4, <3>5
    <3>6. CASE wire' = <<Frame("snapshot", 0, version, "good")>> /\ sent' = 1
      <4>1. sent' \in Nat
        BY <3>6
      <4> QED BY <3>2, <3>3, <3>6, <4>1
    <3> QED BY <3>1, <3>5, <3>6
  <2>2. \A m \in Mishaps : spent'[m] \in 0..Budget[m]
    BY <1>1, SpendingType DEF Connect, TypeOK
  <2>3. rest' \in {"idle", "asked", "answered"} /\ subscribed' \in BOOLEAN
    BY <1>1 DEF Connect, TypeOK
  <2> QED BY <1>1, <2>1, <2>2, <2>3 DEF Connect, TypeOK, aggregator
<1>2. CASE SessionBreaks
  BY <1>2, EndSessionType DEF SessionBreaks, Mishaps, TypeOK
<1>3. CASE HearResync
  BY <1>3, EndSessionType DEF HearResync, Mishaps
<1>4. CASE RestLands
  <2>1. Frame("rest", 0, restAt, "good") \in Messages
    BY FrameType, RecoveryAssumption DEF TypeOK, Messages
  <2>2. /\ queue' \in Seq(Frames \union {SessionEnded}) /\ Len(queue') <= Capacity
        /\ \A x \in Mishaps : spent'[x] \in 0..Budget[x]
    BY <1>4, <2>1, PublishType DEF RestLands, Messages
  <2> QED BY <1>4, <2>2 DEF RestLands, TypeOK, aggregator
<1>5. CASE Receive
  <2>1. Head(wire) \in Messages /\ Tail(wire) \in Seq(Frames) /\ Len(Tail(wire)) <= MaxWire
    BY <1>5, RecoveryAssumption DEF Receive, TypeOK, Messages
  <2>2. /\ queue' \in Seq(Frames \union {SessionEnded}) /\ Len(queue') <= Capacity
        /\ \A x \in Mishaps : spent'[x] \in 0..Budget[x]
    BY <1>5, <2>1, PublishType DEF Receive, Messages
  <2> QED BY <1>5, <2>1, <2>2 DEF Receive, TypeOK, aggregator
<1>6. CASE BackoffEnds
  BY <1>6 DEF BackoffEnds, TypeOK, aggregator
<1> QED BY <1>1, <1>2, <1>3, <1>4, <1>5, <1>6

\* What a book can be, after anything was done to it.
LEMMA BookTypes ==
  ASSUME NEW b \in Books, NEW at \in Nat, NEW crosses \in BOOLEAN
  PROVE  /\ \A why \in DesyncReasons : MarkDesynced(b, why) \in Books
         /\ ApplySnapshot(at) \in Books /\ ApplyDelta(b, at, crosses) \in Books
         /\ Verify(b) \in Books /\ GuardCrossed(b, crosses) \in Books
<1>1. \A c \in Books : \A why \in DesyncReasons : MarkDesynced(c, why) \in Books
  BY DEF MarkDesynced, Books
<1>2. \A c \in Books : GuardCrossed(c, crosses) \in Books /\ Verify(c) \in Books
  BY <1>1 DEF GuardCrossed, Verify, DesyncReasons
<1>3. [b EXCEPT !.at = at, !.hole = @ \/ at # b.at + 1] \in Books
  BY DEF Books
<1> QED BY <1>1, <1>2, <1>3 DEF ApplySnapshot, ApplyDelta, Books

\* A splice with the REST snapshot of version at whose last diff is `last`.
Spliced(s, at, last, crosses) ==
    [sync |-> [s EXCEPT !.mode = "live", !.pending = {}, !.last = last, !.spliced = at],
     book |-> GuardCrossed([ApplySnapshot(last) EXCEPT
                               !.hole = Surviving(s.pending, at) # (at + 1)..last],
                           crosses)]

\* What a splice leaves: the last diff is the greatest that survives, or the
\* snapshot's own version.
LEMMA SpliceResult ==
  ASSUME NEW s \in Syncs, NEW n \in Nat, s.pending \subseteq 0..n, NEW at \in 0..n,
         NEW crosses \in BOOLEAN
  PROVE  \E last \in 0..n :
            /\ last \in Surviving(s.pending, at) \union {at}
            /\ \A d \in Surviving(s.pending, at) \union {at} : d <= last
            /\ BitstampSplice(s, at, crosses) = Spliced(s, at, last, crosses)
<1> DEFINE S == Surviving(s.pending, at) \union {at}
<1>1. S \in SUBSET (0..n) /\ S # {}
  BY DEF Surviving
<1>2. Max(S) \in S /\ \A d \in S : d <= Max(S)
  <2> HIDE DEF S
  <2> QED BY <1>1, MaxOfVersions
<1>3. BitstampSplice(s, at, crosses) = Spliced(s, at, Max(S), crosses)
  BY DEF BitstampSplice, Spliced
<1>4. Max(S) \in 0..n
  <2> HIDE DEF S
  <2> QED BY <1>1, <1>2
<1> QED BY <1>2, <1>3, <1>4

\* What is spliced is a VenueBook.
LEMMA SplicedType ==
  ASSUME NEW s \in Syncs, NEW at \in Nat, NEW last \in Nat, NEW crosses \in BOOLEAN
  PROVE  /\ Spliced(s, at, last, crosses).sync \in Syncs
         /\ Spliced(s, at, last, crosses).book \in Books
         /\ Spliced(s, at, last, crosses).sync.pending = {}
<1> DEFINE hole == Surviving(s.pending, at) # (at + 1)..last
           b == [ApplySnapshot(last) EXCEPT !.hole = hole]
           t == [s EXCEPT !.mode = "live", !.pending = {}, !.last = last, !.spliced = at]
<1>1. hole \in BOOLEAN
  OBVIOUS
<1>2. b \in Books
  <2> HIDE DEF hole
  <2> QED BY <1>1 DEF ApplySnapshot, Books
<1>3. GuardCrossed(b, crosses) \in Books
  <2> HIDE DEF b
  <2> QED BY <1>2, BookTypes
<1>4. t \in Syncs /\ t.pending = {}
  BY DEF Syncs
<1>5. Spliced(s, at, last, crosses) = [sync |-> t, book |-> GuardCrossed(b, crosses)]
  BY DEF Spliced
<1> HIDE DEF t, b
<1> QED BY <1>3, <1>4, <1>5

\* A VenueBook that was fed is a VenueBook.
LEMMA FeedType ==
  ASSUME NEW v \in {Coinbase, Kraken, Bitstamp}, NEW s \in Syncs, NEW b \in Books,
         NEW f \in Frames, NEW n \in Nat, f.at <= n, s.pending \subseteq 0..n,
         NEW crosses \in BOOLEAN
  PROVE  /\ Feed(v, s, b, f, crosses).sync \in Syncs
         /\ Feed(v, s, b, f, crosses).book \in Books
         /\ Feed(v, s, b, f, crosses).sync.pending \subseteq s.pending \union {f.at}
<1>1. f.at \in Nat /\ f.seq \in Nat /\ f.at \in 0..n
  BY DEF Frames
<1>2. CASE f.kind = "rest"
  <2>1. Feed(v, s, b, f, crosses) = BitstampSplice(s, f.at, crosses)
    BY <1>2 DEF Feed
  <2>2. PICK last \in 0..n : BitstampSplice(s, f.at, crosses) = Spliced(s, f.at, last, crosses)
    BY <1>1, SpliceResult
  <2>3. last \in Nat
    OBVIOUS
  <2> QED BY <1>1, <2>1, <2>2, <2>3, SplicedType
<1>3. CASE f.kind # "rest" /\ v = Coinbase
  <2>1. Feed(v, s, b, f, crosses) = CoinbaseFeed(s, b, f, crosses)
    BY <1>3 DEF Feed, Coinbase, Kraken, Bitstamp
  <2>2. ApplyBookFrame(b, f, crosses) \in Books /\ MarkDesynced(b, "gap") \in Books
    BY <1>1, BookTypes DEF ApplyBookFrame, DesyncReasons
  <2>3. [s EXCEPT !.expected = NextExpected(s, f)] \in Syncs
    BY <1>1 DEF Syncs, NextExpected
  <2> QED BY <2>1, <2>2, <2>3 DEF CoinbaseFeed, Syncs
<1>4. CASE f.kind # "rest" /\ v = Kraken
  <2>1. Feed(v, s, b, f, crosses) = KrakenFeed(s, b, f, crosses)
    BY <1>4 DEF Feed, Coinbase, Kraken, Bitstamp
  <2>2. ApplyBookFrame(b, f, crosses) \in Books
    BY <1>1, BookTypes DEF ApplyBookFrame
  <2>3. Verify(ApplyBookFrame(b, f, crosses)) \in Books
    BY <1>1, <2>2, BookTypes
  <2> QED BY <2>1, <2>3 DEF KrakenFeed
<1>5. CASE f.kind # "rest" /\ v = Bitstamp
  <2>1. Feed(v, s, b, f, crosses) = BitstampFeed(s, b, f, crosses)
    BY <1>5 DEF Feed, Coinbase, Kraken, Bitstamp
  <2>2. /\ ApplyDelta(b, f.at, crosses) \in Books /\ MarkDesynced(b, "regression") \in Books
        /\ MarkDesynced(b, "awaiting_snapshot") \in Books
    BY <1>1, BookTypes DEF DesyncReasons
  <2>3. [s EXCEPT !.pending = @ \union {f.at}] \in Syncs
    BY <1>1 DEF Syncs
  <2>4. [s EXCEPT !.last = f.at] \in Syncs
    BY <1>1 DEF Syncs
  <2>5. /\ [s EXCEPT !.pending = @ \union {f.at}].pending = s.pending \union {f.at}
        /\ [s EXCEPT !.last = f.at].pending = s.pending
    BY DEF Syncs
  <2>6. \/ BitstampFeed(s, b, f, crosses).sync = s
        \/ BitstampFeed(s, b, f, crosses).sync = [s EXCEPT !.pending = @ \union {f.at}]
        \/ BitstampFeed(s, b, f, crosses).sync = [s EXCEPT !.last = f.at]
    BY DEF BitstampFeed
  <2>7. BitstampFeed(s, b, f, crosses).book \in
           {b, MarkDesynced(b, "awaiting_snapshot"), MarkDesynced(b, "regression"),
            ApplyDelta(b, f.at, crosses)}
    BY DEF BitstampFeed
  <2>8. BitstampFeed(s, b, f, crosses).book \in Books
    BY <2>2, <2>7
  <2> QED BY <2>1, <2>3, <2>4, <2>5, <2>6, <2>8
<1> QED BY <1>2, <1>3, <1>4, <1>5

-------------------------------------------------------------------------------
(* What each step does to the flight.                                        *)

\* The sequences a flight is made of.
LEMMA FlightType ==
  ASSUME TypeOK
  PROVE  /\ queue \in Seq(Messages) /\ wire \in Seq(Messages) /\ Coming \in Seq(Messages)
         /\ Flight \in Seq(Messages)
         /\ Kept \in Seq(Messages) /\ (Full => queue # <<>>)
         /\ DOMAIN Flight = 1..Len(Flight) /\ Len(Flight) \in Nat
<1>1. queue \in Seq(Messages) /\ wire \in Seq(Messages) /\ (Full => queue # <<>>)
  BY RecoveryAssumption DEF TypeOK, Messages, Full
<1>2. Coming \in Seq(Messages)
  <2>1. Frame("update", sent, version + 1, "good") \in Messages
    BY FrameType, RecoveryAssumption DEF TypeOK, Messages
  <2>2. \A m \in Messages : <<m>> \in Seq(Messages)
    OBVIOUS
  <2>3. <<>> \in Seq(Messages)
    OBVIOUS
  <2> QED BY <2>1, <2>2, <2>3 DEF Coming
<1>3. Flight \in Seq(Messages)
  BY <1>1, <1>2 DEF Flight
<1>4. Kept \in Seq(Messages)
  BY <1>1 DEF Kept
<1> QED BY <1>1, <1>2, <1>3, <1>4

\* Sequences put together.
LEMMA AppendLast ==
  ASSUME NEW S, NEW s \in Seq(S), NEW m \in S
  PROVE  /\ Append(s, m) \in Seq(S) /\ Append(s, m) # <<>> /\ Append(s, m)[Len(Append(s, m))] = m
         /\ Len(Append(s, m)) = Len(s) + 1 /\ Len(s) \in Nat
         /\ \A k \in 1..Len(s) : Append(s, m)[k] = s[k]
  OBVIOUS

\* Taking the oldest message of two sequences takes it from the first of them.
LEMMA ConcatTail ==
  ASSUME NEW S, NEW s \in Seq(S), NEW t \in Seq(S), s # <<>>
  PROVE  Tail(s \o t) = Tail(s) \o t /\ Head(s \o t) = Head(s) /\ s \o t # <<>>
  OBVIOUS

\* A message that moves from the head of one sequence to the end of the one before it.
LEMMA ConcatMove ==
  ASSUME NEW S, NEW s \in Seq(S), NEW t \in Seq(S), t # <<>>
  PROVE  Append(s, Head(t)) \o Tail(t) = s \o t
  OBVIOUS

\* Adding to the second of two sequences adds to both.
LEMMA ConcatAppend ==
  ASSUME NEW S, NEW s \in Seq(S), NEW t \in Seq(S), NEW m \in S
  PROVE  s \o Append(t, m) = Append(s \o t, m)
  OBVIOUS

\* Three sequences are put together in either order.
LEMMA ConcatAssociates ==
  ASSUME NEW S, NEW s \in Seq(S), NEW t \in Seq(S), NEW u \in Seq(S)
  PROVE  (s \o t) \o u = s \o (t \o u)
  OBVIOUS

\* Nothing put before or behind a sequence leaves it.
LEMMA ConcatEmpty ==
  ASSUME NEW S, NEW s \in Seq(S)
  PROVE  s \o <<>> = s /\ <<>> \o s = s
  OBVIOUS

\* A sequence of one message put behind another adds that message to it.
LEMMA ConcatOne ==
  ASSUME NEW S, NEW s \in Seq(S), NEW m \in S
  PROVE  s \o <<m>> = Append(s, m)
  OBVIOUS

\* The first message of two sequences is the first of the one that has any.
LEMMA ConcatFirst ==
  ASSUME NEW S, NEW s \in Seq(S), NEW t \in Seq(S)
  PROVE  (s # <<>> => (s \o t)[1] = s[1]) /\ (s = <<>> => (s \o t)[1] = t[1])
<1>1. CASE s # <<>>
  BY <1>1
<1>2. CASE s = <<>>
  BY <1>2, ConcatEmpty
<1> QED BY <1>1, <1>2

\* The flight once the channel made room.
KeptFlight == Kept \o wire \o Coming

\* It is the flight, without its oldest message if the channel was full.
LEMMA KeptFlightIs ==
  ASSUME TypeOK
  PROVE  KeptFlight = IF Full THEN Tail(Flight) ELSE Flight
<1>1. CASE Full
  <2>1. queue \o wire # <<>> /\ Tail(queue \o wire) = Tail(queue) \o wire /\ queue \o wire \in Seq(Messages)
    BY <1>1, FlightType, ConcatTail
  <2>2. Tail((queue \o wire) \o Coming) = (Tail(queue) \o wire) \o Coming
    <3>1. Coming \in Seq(Messages)
      BY FlightType
    <3> QED BY <2>1, <3>1, ConcatTail, SMTT(90)
  <2> QED BY <1>1, <2>2 DEF KeptFlight, Kept, Flight
<1>2. CASE ~Full
  BY <1>2 DEF KeptFlight, Kept, Flight
<1> QED BY <1>1, <1>2

\* A message that is only taken from the head, or not touched at all.
LEMMA TailFlight ==
  ASSUME TypeOK, queue # <<>>, queue' = Tail(queue), UNCHANGED <<wire, pc, sent, version>>
  PROVE  Flight' = Tail(Flight) /\ Flight # <<>> /\ Head(Flight) = Head(queue)
<1>1. queue \o wire # <<>> /\ Tail(queue \o wire) = Tail(queue) \o wire /\ queue \o wire \in Seq(Messages)
      /\ Head(queue \o wire) = Head(queue)
  BY FlightType, ConcatTail, SMTT(90)
<1>2. /\ Tail(Flight) = (Tail(queue) \o wire) \o Coming
      /\ Head(Flight) = Head(queue \o wire) /\ Flight # <<>>
  BY <1>1, FlightType, ConcatTail, SMTT(90) DEF Flight
<1>3. Coming' = Coming
  BY DEF Coming
<1> QED BY <1>1, <1>2, <1>3 DEF Flight

\* A step that touches no message leaves the flight as it is.
LEMMA SameFlight ==
  ASSUME \/ UNCHANGED <<queue, wire, pc, sent, version>>
         \/ UNCHANGED <<queue, wire>> /\ pc # "open" /\ pc' # "open"
  PROVE  Flight' = Flight
  BY DEF Flight, Coming

\* A frame that is received moves within the flight.
LEMMA ReceiveFlight ==
  ASSUME TypeOK, Receive
  PROVE  Flight' = KeptFlight
<1>1. queue' = Append(Kept, Head(wire)) /\ wire' = Tail(wire) /\ wire # <<>>
  BY DEF Receive, Publish, Pushed, Kept
<1>2. Append(Kept, Head(wire)) \o Tail(wire) = Kept \o wire
  BY <1>1, FlightType, ConcatMove
<1>3. Coming' = Coming
  BY DEF Receive, Coming
<1> QED BY <1>1, <1>2, <1>3 DEF Flight, KeptFlight

\* The end of a session replaces what was on its way.
LEMMA EndFlight ==
  ASSUME TypeOK, NEW mishaps, EndSession(mishaps)
  PROVE  Flight' = Append(Kept, SessionEnded)
<1>1. queue' = Append(Kept, SessionEnded) /\ wire' = <<>> /\ Coming' = <<>>
  BY DEF EndSession, Publish, Pushed, Kept, Coming
<1>2. Append(Kept, SessionEnded) \in Seq(Messages)
  BY FlightType DEF Messages
<1> QED BY <1>1, <1>2, ConcatEmpty DEF Flight

\* The REST answer takes its place behind the channel and before the wire.
LEMMA RestFlight ==
  ASSUME TypeOK, RestLands
  PROVE  Flight' = Append(Kept, Frame("rest", 0, restAt, "good")) \o (wire \o Coming)
<1>1. /\ queue' = Append(Kept, Frame("rest", 0, restAt, "good"))
      /\ wire' = wire /\ Coming' = Coming
  BY DEF RestLands, Publish, Pushed, Kept, Coming
<1>2. Append(Kept, Frame("rest", 0, restAt, "good")) \in Seq(Messages)
  BY FlightType, FrameType, RecoveryAssumption DEF TypeOK, Messages
<1>3. wire \in Seq(Messages) /\ Coming \in Seq(Messages)
  BY FlightType
<1> DEFINE behind == Append(Kept, Frame("rest", 0, restAt, "good"))
<1>4. (behind \o wire) \o Coming = behind \o (wire \o Coming)
  <2> HIDE DEF behind
  <2> QED BY <1>2, <1>3, ConcatAssociates
<1> QED BY <1>1, <1>4 DEF Flight

\* What the venue counts goes before what it would send next.
LEMMA SendFlight ==
  ASSUME TypeOK, pc = "open", UNCHANGED <<pc, queue>>, sent' = sent + 1,
         version' \in Nat,
         NEW f \in Frames
  PROVE  /\ queue \o wire \in Seq(Messages)
         /\ Flight = Append(queue \o wire, Frame("update", sent, version + 1, "good"))
         /\ wire' = wire =>
               Flight' = Append(queue \o wire, Frame("update", sent + 1, version' + 1, "good"))
         /\ wire' = Append(wire, f) =>
               Flight' = Append(Append(queue \o wire, f),
                                Frame("update", sent + 1, version' + 1, "good"))
<1>1. queue \o wire \in Seq(Messages)
  BY FlightType
<1>2. /\ Frame("update", sent, version + 1, "good") \in Messages
      /\ Frame("update", sent + 1, version' + 1, "good") \in Messages
      /\ f \in Messages
  BY FrameType, RecoveryAssumption DEF TypeOK, Messages
<1>3. /\ Coming = <<Frame("update", sent, version + 1, "good")>>
      /\ Coming' = <<Frame("update", sent + 1, version' + 1, "good")>>
  BY DEF Coming
<1>4. Flight = Append(queue \o wire, Frame("update", sent, version + 1, "good"))
  BY <1>1, <1>2, <1>3, ConcatOne DEF Flight
<1>5. ASSUME wire' = wire
      PROVE  Flight' = Append(queue \o wire, Frame("update", sent + 1, version' + 1, "good"))
  BY <1>1, <1>2, <1>3, <1>5, ConcatOne DEF Flight
<1>6. ASSUME wire' = Append(wire, f)
      PROVE  Flight' = Append(Append(queue \o wire, f),
                                Frame("update", sent + 1, version' + 1, "good"))
  <2>1. queue \o Append(wire, f) = Append(queue \o wire, f)
    BY <1>2, FlightType, ConcatAppend
  <2>2. Append(queue \o wire, f) \in Seq(Messages)
    BY <1>1, <1>2
  <2> QED BY <1>2, <1>3, <1>6, <2>1, <2>2, ConcatOne DEF Flight
<1> QED BY <1>1, <1>4, <1>5, <1>6

\* A new connection comes behind all that is in the channel.
LEMMA ConnectFlight ==
  ASSUME TypeOK, ConnectionIsKnown, Connect
  PROVE  /\ Flight = queue
         /\ venue = Bitstamp =>
               Flight' = Append(queue, Frame("update", sent, version + 1, "good"))
         /\ venue # Bitstamp =>
               Flight' = Append(Append(queue, Frame("snapshot", 0, version, "good")),
                                Frame("update", 1, version + 1, "good"))
<1>1. wire = <<>> /\ Coming = <<>> /\ queue \in Seq(Messages)
  BY FlightType DEF Connect, ConnectionIsKnown, Coming
<1>2. Flight = queue
  BY <1>1, ConcatEmpty DEF Flight
<1>3. ASSUME venue = Bitstamp
      PROVE  Flight' = Append(queue, Frame("update", sent, version + 1, "good"))
  <2>1. /\ wire' = <<>> /\ queue' = queue
        /\ Coming' = <<Frame("update", sent, version + 1, "good")>>
    BY <1>1, <1>3 DEF Connect, Coming
  <2>2. Frame("update", sent, version + 1, "good") \in Messages
    BY FrameType, RecoveryAssumption DEF TypeOK, Messages
  <2> QED BY <1>1, <2>1, <2>2, ConcatEmpty, ConcatOne DEF Flight
<1>4. ASSUME venue # Bitstamp
      PROVE  Flight' = Append(Append(queue, Frame("snapshot", 0, version, "good")),
                                Frame("update", 1, version + 1, "good"))
  <2>1. /\ wire' = <<Frame("snapshot", 0, version, "good")>> /\ queue' = queue
        /\ Coming' = <<Frame("update", 1, version + 1, "good")>>
    BY <1>1, <1>4 DEF Connect, Coming
  <2>2. /\ Frame("snapshot", 0, version, "good") \in Messages
        /\ Frame("update", 1, version + 1, "good") \in Messages
    BY FrameType, RecoveryAssumption DEF TypeOK, Messages
  <2>3. /\ queue' \o wire' = Append(queue, Frame("snapshot", 0, version, "good"))
        /\ queue' \o wire' \in Seq(Messages)
    BY <1>1, <2>1, <2>2, ConcatOne
  <2> QED BY <2>1, <2>2, <2>3, ConcatOne DEF Flight
<1> QED BY <1>2, <1>3, <1>4

\* Mishaps are counted, never forgotten.
LEMMA SpentGrows ==
  ASSUME TypeOK, Next
  PROVE  \A m \in Mishaps : spent[m] \in Nat /\ spent'[m] \in Nat /\ spent'[m] >= spent[m]
<1>0. \A m \in Mishaps : spent[m] \in Nat
  BY RecoveryAssumption DEF TypeOK
<1>1. \/ spent' = spent
      \/ \E mishaps \in SUBSET Mishaps : spent' = Spending(mishaps)
  <2>1. CASE EvictedByOthers \/ VenueUpdates \/ VenueChatters \/ Connect
    BY <2>1 DEF EvictedByOthers, VenueUpdates, VenueChatters, Connect, Mishaps
  <2>2. CASE SubscriptionTakesEffect \/ RestAnswered \/ BackoffEnds \/ Apply
    BY <2>2 DEF SubscriptionTakesEffect, RestAnswered, BackoffEnds, Apply
  <2>3. CASE SessionBreaks \/ HearResync \/ RestLands \/ Receive
    BY <2>3 DEF SessionBreaks, HearResync, RestLands, Receive, EndSession, Publish, Mishaps
  <2> QED BY <2>1, <2>2, <2>3 DEF Next
<1> QED BY <1>0, <1>1 DEF Spending

\* What never went wrong by now had not gone wrong before.
LEMMA NoneOfBefore ==
  ASSUME TypeOK, Next, NEW mishaps \in SUBSET Mishaps, NoneOf(mishaps)'
  PROVE  NoneOf(mishaps)
<1>1. \A m \in mishaps : spent'[m] = 0
  BY DEF NoneOf
<1>2. \A m \in mishaps : spent[m] = 0
  BY <1>1, SpentGrows
<1> QED BY <1>2 DEF NoneOf

-------------------------------------------------------------------------------
(* The chains of the flight.                                                 *)

Chained(s) ==
    /\ Increasing(s)
    /\ NoneOf({"skip"}) => Dense(s)
    /\ NoneOf({"lag"}) => Levelled(s)

\* Making room keeps them.
LEMMA KeptChained ==
  ASSUME TypeOK, ChainsHold
  PROVE  Chained(KeptFlight) /\ Chained(Kept)
<1>1. Chained(KeptFlight)
  <2>1. CASE Full
    <3>1. Flight # <<>>
      BY <2>1, FlightType, ConcatTail DEF Flight
    <3> QED BY <2>1, <3>1, FlightType, KeptFlightIs, ChainsOfTail DEF ChainsHold, Chained
  <2>2. CASE ~Full
    BY <2>2, KeptFlightIs DEF ChainsHold, Chained
  <2> QED BY <2>1, <2>2
<1>2. KeptFlight \in Seq(Messages) /\ Kept \in Seq(Messages) /\ Len(Kept) <= Len(KeptFlight)
      /\ \A k \in 1..Len(Kept) : Kept[k] = KeptFlight[k]
  BY FlightType DEF KeptFlight
<1> QED BY <1>1, <1>2, ChainsOfPrefix DEF Chained

\* Where a message that is put between two sequences pushes the others.
LEMMA InsertIndices ==
  ASSUME NEW S, NEW q \in Seq(S), NEW w \in Seq(S), NEW m \in S
  PROVE  LET s == q \o w
             t == Append(q, m) \o w
             r == Len(q) + 1
             f == [k \in DOMAIN s |-> IF k < r THEN k ELSE k + 1]
         IN  /\ s \in Seq(S) /\ t \in Seq(S) /\ f \in [DOMAIN s -> DOMAIN t]
             /\ \A i, j \in DOMAIN s : i < j <=> f[i] < f[j]
             /\ \A k \in DOMAIN s : t[f[k]] = s[k]
             /\ r \in DOMAIN t /\ t[r] = m
             /\ \A k \in DOMAIN t \ {r} : \E i \in DOMAIN s : k = f[i]
             /\ \A k \in DOMAIN s : f[k] < r <=> k < r
<1> DEFINE s == q \o w
           t == Append(q, m) \o w
           r == Len(q) + 1
           f == [k \in DOMAIN s |-> IF k < r THEN k ELSE k + 1]
<1>1. /\ s \in Seq(S) /\ t \in Seq(S) /\ Len(q) \in Nat /\ Len(w) \in Nat
      /\ DOMAIN s = 1 .. Len(q) + Len(w) /\ DOMAIN t = 1 .. Len(q) + 1 + Len(w)
      /\ \A k \in 1..Len(q) : s[k] = q[k] /\ t[k] = q[k]
      /\ \A k \in 1..Len(w) : s[Len(q) + k] = w[k] /\ t[Len(q) + 1 + k] = w[k]
      /\ t[Len(q) + 1] = m
  OBVIOUS
<1> HIDE DEF s, t
<1>2. \A k \in DOMAIN s : f[k] = IF k < r THEN k ELSE k + 1
  OBVIOUS
<1>3. f \in [DOMAIN s -> DOMAIN t]
  BY <1>1
<1>4. \A k \in DOMAIN s : t[f[k]] = s[k]
  <2>1. ASSUME NEW k \in DOMAIN s, k < r PROVE t[k] = s[k]
    BY <1>1, <2>1
  <2>2. ASSUME NEW k \in DOMAIN s, ~(k < r) PROVE t[k + 1] = s[k]
    <3>1. k - Len(q) \in 1..Len(w) /\ Len(q) + (k - Len(q)) = k
          /\ Len(q) + 1 + (k - Len(q)) = k + 1
      BY <1>1, <2>2
    <3> QED BY <1>1, <3>1
  <2> QED BY <1>2, <2>1, <2>2
<1>5. \A k \in DOMAIN t \ {r} : \E i \in DOMAIN s : k = f[i]
  <2> TAKE k \in DOMAIN t \ {r}
  <2>1. CASE k < r
    <3>1. k \in DOMAIN s
      BY <1>1, <2>1
    <3> QED BY <1>2, <2>1, <3>1
  <2>2. CASE ~(k < r)
    <3>1. k - 1 \in DOMAIN s /\ ~(k - 1 < r) /\ (k - 1) + 1 = k
      BY <1>1, <2>2
    <3> QED BY <1>2, <3>1
  <2> QED BY <2>1, <2>2
<1>6. \A i, j \in DOMAIN s : i < j <=> f[i] < f[j]
  BY <1>1, <1>2
<1>7. \A k \in DOMAIN s : f[k] < r <=> k < r
  BY <1>1, <1>2
<1>8. r \in DOMAIN t /\ t[r] = m
  BY <1>1
<1> QED BY <1>1, <1>3, <1>4, <1>5, <1>6, <1>7, <1>8 DEF s, t

\* What the ingest task publishes leaves chains, and so does a new connection.
LEMMA IngestChains ==
  ASSUME TypeOK, ConnectionIsKnown, ChainsHold,
         Connect \/ SessionBreaks \/ HearResync \/ RestLands \/ Receive \/ BackoffEnds
  PROVE  Chained(Flight')
<1>1. CASE Connect
  <2>1. queue \in Seq(Messages) /\ Flight = queue /\ (queue = <<>> \/ IsEnd(queue[Len(queue)]))
    BY <1>1, FlightType, ConnectFlight DEF ConnectionIsKnown, Connect
  <2>2. version \in Nat /\ sent \in Nat
    BY RecoveryAssumption DEF TypeOK
  <2>3. CASE venue = Bitstamp
    <3>1. Frame("update", sent, version + 1, "good") \in Messages
      BY <2>2, FrameType DEF Messages
    <3>2. Flight' = Append(queue, Frame("update", sent, version + 1, "good"))
      BY <1>1, <2>3, ConnectFlight
    <3> QED BY <2>1, <3>1, <3>2, ChainsOfStart DEF ChainsHold, Chained
  <2>4. CASE venue # Bitstamp
    <3> DEFINE first == Frame("snapshot", 0, version, "good")
               next == Frame("update", 1, version + 1, "good")
               s == Append(queue, first)
    <3>1. first \in Messages /\ next \in Messages
      BY <2>2, FrameType DEF Messages
    <3>2. Flight' = Append(s, next)
      BY <1>1, <2>4, ConnectFlight
    <3>3. s \in Seq(Messages) /\ s # <<>> /\ s[Len(s)] = first
      BY <2>1, <3>1
    <3>4. Chained(s)
      BY <2>1, <3>1, ChainsOfStart DEF ChainsHold, Chained
    <3>5. /\ IsStream(first) /\ IsStream(next) /\ next.kind # "snapshot" /\ first.seq \in Nat
          /\ next.seq = first.seq + 1 /\ Before(next) = first.at
      BY <2>2 DEF Frame, IsStream, Before
    <3> HIDE DEF first, next, s
    <3> QED BY <3>1, <3>2, <3>3, <3>4, <3>5, ChainsOfNext DEF Chained
  <2> QED BY <2>3, <2>4
<1>2. ASSUME NEW mishaps, EndSession(mishaps) PROVE Chained(Flight')
  <2>1. Flight' = Append(Kept, SessionEnded) /\ SessionEnded \in Messages
    BY <1>2, EndFlight DEF Messages
  <2>2. IsEnd(SessionEnded)
    BY DEF IsEnd, SessionEnded
  <2> QED BY <2>1, <2>2, FlightType, KeptChained, ChainsOfStart DEF Chained
<1>3. CASE SessionBreaks \/ HearResync
  BY <1>2, <1>3 DEF SessionBreaks, HearResync
<1>4. CASE RestLands
  <2> DEFINE m == Frame("rest", 0, restAt, "good")
             w == wire \o Coming
             f == [k \in DOMAIN (Kept \o w) |-> IF k < Len(Kept) + 1 THEN k ELSE k + 1]
  <2>0. restAt \in Nat
    BY RecoveryAssumption DEF TypeOK
  <2>1. m \in Messages /\ IsRest(m)
    <3>1. m \in Messages
      BY <2>0, FrameType DEF Messages
    <3>2. IsRest(m)
      BY DEF Frame, IsRest
    <3> QED BY <3>1, <3>2
  <2>2. Kept \in Seq(Messages) /\ w \in Seq(Messages) /\ KeptFlight = Kept \o w
    BY FlightType, ConcatAssociates, SMTT(90) DEF KeptFlight
  <2>3. Flight' = Append(Kept, m) \o w
    BY <1>4, RestFlight
  <2>4. Chained(Kept \o w)
    BY <2>2, KeptChained
  <2> HIDE DEF m, w
  <2>5. /\ Kept \o w \in Seq(Messages) /\ Append(Kept, m) \o w \in Seq(Messages)
        /\ f \in [DOMAIN (Kept \o w) -> DOMAIN (Append(Kept, m) \o w)]
        /\ \A i, j \in DOMAIN (Kept \o w) : i < j <=> f[i] < f[j]
        /\ \A k \in DOMAIN (Kept \o w) : (Append(Kept, m) \o w)[f[k]] = (Kept \o w)[k]
        /\ \A k \in DOMAIN (Append(Kept, m) \o w) :
              (\E i \in DOMAIN (Kept \o w) : k = f[i]) \/ IsRest((Append(Kept, m) \o w)[k])
    BY <2>1, <2>2, InsertIndices, SMTT(90)
  <2> HIDE DEF f
  <2> QED BY <2>3, <2>4, <2>5, ChainsOfInsert DEF Chained
<1>5. CASE Receive
  BY <1>5, ReceiveFlight, KeptChained
<1>6. CASE BackoffEnds
  <2>1. Flight' = Flight
    BY <1>6, SameFlight DEF BackoffEnds, connection
  <2> QED BY <2>1 DEF ChainsHold, Chained
<1> QED BY <1>1, <1>3, <1>4, <1>5, <1>6
\* What the venue sends extends the chains by one, if it is sent at all.
LEMMA VenueChains ==
  ASSUME TypeOK, ConnectionIsKnown, MessagesAreKnown, ChainsHold,
         VenueUpdates \/ VenueChatters \/ SubscriptionTakesEffect \/ RestAnswered
  PROVE  /\ Increasing(Flight')
         /\ NoneOf({"skip"})' /\ NoneOf({"skip"}) => Dense(Flight')
         /\ NoneOf({"lag"}) => Levelled(Flight')
<1> DEFINE s == queue \o wire
           c == Frame("update", sent, version + 1, "good")
           next == Frame("update", sent + 1, version' + 1, "good")
<1>0. /\ version \in Nat /\ sent \in Nat /\ s \in Seq(Messages)
      /\ \A m \in Mishaps : spent[m] \in Nat
  BY FlightType, RecoveryAssumption DEF TypeOK
<1>1. c \in Messages /\ IsStream(c) /\ c.seq = sent /\ Before(c) = version /\ c.kind = "update"
  <2>1. c \in Messages
    BY <1>0, FrameType DEF Messages
  <2> QED BY <1>0, <2>1 DEF Frame, IsStream, Before
<1>2. ASSUME version' \in Nat
      PROVE  /\ next \in Messages /\ IsStream(next) /\ next.seq = sent + 1
             /\ Before(next) = version' /\ next.kind = "update"
  <2>1. next \in Messages
    BY <1>0, <1>2, FrameType DEF Messages
  <2>2. IsStream(next) /\ next.seq = sent + 1 /\ next.kind = "update" /\ next.at = version' + 1
    BY DEF Frame, IsStream
  <2>3. \A v \in Nat : (v + 1) - 1 = v
    OBVIOUS
  <2> HIDE DEF next
  <2> QED BY <1>2, <2>1, <2>2, <2>3 DEF Before
<1>3. ASSUME version' \in Nat, NEW f \in Frames, IsStream(f), f.kind # "snapshot", f.seq = sent,
             Before(f) = version, f.at = version',
             Flight = Append(s, c), Flight' = Append(Append(s, f), next)
      PROVE  Chained(Flight')
  <2>1. f \in Messages
    BY DEF Messages
  <2>2. Chained(Append(s, f))
    <3> HIDE DEF s, c
    <3> QED BY <1>0, <1>1, <1>3, <2>1, ChainsOfLast DEF ChainsHold, Chained
  <2> DEFINE t == Append(s, f)
  <2>3. t \in Seq(Messages) /\ t # <<>> /\ t[Len(t)] = f
    <3> HIDE DEF s
    <3> QED BY <1>0, <2>1
  <2> HIDE DEF t, next
  <2> QED BY <1>0, <1>2, <1>3, <2>2, <2>3, ChainsOfNext DEF Chained, t
<1>4. CASE VenueUpdates /\ pc = "open" /\ subscribed
  <2>1. /\ version' = version + 1 /\ sent' = sent + 1 /\ UNCHANGED <<pc, queue>>
        /\ \/ \E form \in {"good", "bad_envelope", "bad_events"} :
                 wire' = Append(wire, Frame("update", sent, version + 1, form))
           \/ /\ wire' = wire
              /\ spent' = Spending({"skip"})
    BY <1>4 DEF VenueUpdates
  <2>2. ASSUME NEW form \in {"good", "bad_envelope", "bad_events"},
               wire' = Append(wire, Frame("update", sent, version + 1, form))
        PROVE  Chained(Flight')
    <3> DEFINE f == Frame("update", sent, version + 1, form)
    <3>1. /\ f \in Frames /\ IsStream(f) /\ f.kind # "snapshot" /\ f.seq = sent
          /\ Before(f) = version /\ f.at = version'
      <4>1. f \in Frames
        BY <1>0, FrameType
      <4> QED BY <1>0, <2>1, <4>1 DEF Frame, IsStream, Before
    <3>2. Flight = Append(s, c) /\ Flight' = Append(Append(s, f), next)
      <4> HIDE DEF f
      <4> QED BY <1>0, <1>4, <2>1, <2>2, <3>1, SendFlight DEF f
    <3> HIDE DEF f, s, c, next
    <3> QED BY <1>0, <1>3, <2>1, <3>1, <3>2
  <2>3. ASSUME wire' = wire, spent' = Spending({"skip"})
        PROVE  Increasing(Flight') /\ ~NoneOf({"skip"})' /\ (NoneOf({"lag"}) => Levelled(Flight'))
    <3>1. Flight = Append(s, c) /\ Flight' = Append(s, next)
      <4>1. Frame("update", sent, version + 1, "good") \in Frames
        BY <1>0, FrameType
      <4> QED BY <1>0, <1>4, <2>1, <2>3, <4>1, SendFlight
    <3>2. ~NoneOf({"skip"})'
      BY <1>0, <2>3 DEF NoneOf, Spending, Mishaps
    <3>3. \A k \in DOMAIN s : IsStream(s[k]) => s[k].seq \in Nat
      <4>1. \A k \in DOMAIN s : s[k] \in Messages
        BY <1>0
      <4> HIDE DEF s
      <4> QED BY <4>1 DEF Messages, Frames, SessionEnded, IsStream
    <3> HIDE DEF s, c, next
    <3> QED BY <1>0, <1>1, <1>2, <2>1, <3>1, <3>2, <3>3, ChainsOfLater DEF ChainsHold
  <2> QED BY <2>1, <2>2, <2>3 DEF Chained
<1>5. CASE VenueUpdates /\ pc = "open" /\ ~subscribed
  <2>1. ~NoneOf({"lag"})
    BY <1>5 DEF ConnectionIsKnown
  <2> DEFINE d == Frame("update", sent, version' + 1, "good")
  <2>2. version' \in Nat /\ UNCHANGED <<queue, wire, pc, sent>> /\ pc = "open"
    BY <1>0, <1>5 DEF VenueUpdates
  <2>3. d \in Messages /\ IsStream(d) /\ d.seq = sent /\ d.kind # "snapshot"
    <3>1. d \in Messages
      BY <1>0, <2>2, FrameType DEF Messages
    <3> QED BY <3>1 DEF Frame, IsStream
  <2>4. Flight = Append(s, c) /\ Flight' = Append(s, d)
    <3>1. Coming = <<c>> /\ Coming' = <<d>>
      BY <2>2 DEF Coming
    <3> HIDE DEF c, d
    <3> QED BY <1>0, <1>1, <2>2, <2>3, <3>1, ConcatOne DEF Flight
  <2>5. Increasing(Flight') /\ (NoneOf({"skip"}) => Dense(Flight'))
    <3> HIDE DEF s, c, d
    <3> QED BY <1>0, <1>1, <2>3, <2>4, ChainsOfLast DEF ChainsHold
  <2> QED BY <2>1, <2>5
<1>6. CASE VenueUpdates /\ pc # "open"
  <2>1. Flight' = Flight
    BY <1>6, SameFlight DEF VenueUpdates
  <2> QED BY <2>1 DEF ChainsHold
<1>7. CASE VenueChatters
  <2> DEFINE f == Frame("other", sent, version, "good")
  <2>1. /\ f \in Frames /\ IsStream(f) /\ f.kind # "snapshot" /\ f.seq = sent
        /\ Before(f) = version /\ f.at = version'
    <3>1. f \in Frames
      BY <1>0, FrameType
    <3> QED BY <1>7, <3>1 DEF Frame, IsStream, Before, VenueChatters
  <2>2. /\ version' = version /\ sent' = sent + 1 /\ UNCHANGED <<pc, queue>> /\ pc = "open"
        /\ wire' = Append(wire, f)
    BY <1>7 DEF VenueChatters
  <2>3. Flight = Append(s, c) /\ Flight' = Append(Append(s, f), next)
    <3> HIDE DEF f
    <3> QED BY <1>0, <2>1, <2>2, SendFlight
  <2>4. Chained(Flight')
    <3> HIDE DEF f, s, c, next
    <3> QED BY <1>0, <1>3, <2>1, <2>2, <2>3
  <2> QED BY <2>4 DEF Chained
<1>8. CASE SubscriptionTakesEffect \/ RestAnswered
  <2>1. Flight' = Flight
    BY <1>8, SameFlight DEF SubscriptionTakesEffect, RestAnswered
  <2> QED BY <2>1 DEF ChainsHold
<1> QED BY <1>4, <1>5, <1>6, <1>7, <1>8

\* No step breaks a chain.
LEMMA ChainsStep ==
  ASSUME TypeOK, ConnectionIsKnown, MessagesAreKnown, ChainsHold, Next
  PROVE  ChainsHold'
<1>1. (NoneOf({"skip"})' => NoneOf({"skip"})) /\ (NoneOf({"lag"})' => NoneOf({"lag"}))
  BY NoneOfBefore DEF Mishaps
<1>2. CASE EvictedByOthers \/ Apply
  <2>1. Flight' = Tail(Flight) /\ Flight # <<>>
    BY <1>2, TailFlight DEF EvictedByOthers, Apply, connection
  <2>2. Chained(Flight')
    BY <2>1, FlightType, ChainsOfTail DEF ChainsHold, Chained
  <2> QED BY <1>1, <2>2 DEF ChainsHold, Chained
<1>3. CASE VenueUpdates \/ VenueChatters \/ SubscriptionTakesEffect \/ RestAnswered
  BY <1>1, <1>3, VenueChains DEF ChainsHold
<1>4. CASE Connect \/ SessionBreaks \/ HearResync \/ RestLands \/ Receive \/ BackoffEnds
  BY <1>1, <1>4, IngestChains DEF ChainsHold, Chained
<1> QED BY <1>2, <1>3, <1>4 DEF Next
-------------------------------------------------------------------------------
(* What is on its way, and from which connection.                            *)

\* What is known of a message stays so as the venue moves on.
LEMMA KnownStays ==
  ASSUME NEW m, NEW v, NEW top \in Nat, NEW later \in Nat, top <= later,
         NEW g \in Nat, NEW h \in Nat, g <= h, Known(m, v, top, g)
  PROVE  Known(m, v, later, h)
<1>1. CASE IsEnd(m)
  BY <1>1 DEF Known
<1>2. CASE ~IsEnd(m)
  <2>1. m.at \in Nat /\ m.at <= later /\ Before(m) \in 0..later
    BY <1>2 DEF Known, Frames
  <2> QED BY <1>2, <2>1 DEF Known
<1> QED BY <1>1, <1>2

\* The venue's book only moves on.
LEMMA VersionGrows ==
  ASSUME TypeOK, Next
  PROVE  /\ version \in Nat /\ version' \in Nat /\ version <= version' /\ venue' = venue
         /\ spent["garble"] \in Nat /\ spent'["garble"] \in Nat
         /\ spent["garble"] <= spent'["garble"]
<1>1. version \in Nat
  BY RecoveryAssumption DEF TypeOK
<1>2. version' \in Nat /\ version <= version' /\ venue' = venue
  <2>1. CASE VenueUpdates
    BY <1>1, <2>1 DEF VenueUpdates
  <2>2. CASE ~VenueUpdates
    BY <1>1, <2>2 DEF Next, EvictedByOthers, VenueChatters, SubscriptionTakesEffect, RestAnswered,
       Connect, SessionBreaks, HearResync, EndSession, RestLands, Receive, BackoffEnds, Apply
  <2> QED BY <2>1, <2>2
<1> QED BY <1>1, <1>2, SpentGrows DEF Mishaps

\* What is in the flight is known, with what the venue would send next.
LEMMA FlightIsKnown ==
  ASSUME TypeOK, ConnectionIsKnown, MessagesAreKnown, NEW i \in DOMAIN Flight
  PROVE  IsEnd(Flight[i]) \/
            /\ Flight[i] \in Frames /\ Before(Flight[i]) \in 0..version
            /\ Flight[i].kind = "snapshot" => venue # Bitstamp /\ Flight[i].seq = 0
            /\ IsRest(Flight[i]) => venue = Bitstamp /\ Flight[i].at <= version
            /\ Flight[i].kind \in {"update", "other"} /\ venue # Bitstamp => Flight[i].seq >= 1
            /\ Flight[i].form # "good" => Flight[i].kind = "update" /\ spent["garble"] > 0
<1>1. /\ queue \in Seq(Messages) /\ wire \in Seq(Messages) /\ Coming \in Seq(Messages)
  BY FlightType
<1>2. \/ \E k \in DOMAIN queue : Flight[i] = queue[k]
      \/ \E k \in DOMAIN wire : Flight[i] = wire[k]
      \/ \E k \in DOMAIN Coming : Flight[i] = Coming[k]
  BY <1>1, SMTT(90) DEF Flight
<1>3. CASE \E k \in DOMAIN Coming : Flight[i] = Coming[k]
  <2> DEFINE c == Frame("update", sent, version + 1, "good")
  <2>1. Flight[i] = c /\ pc = "open"
    BY <1>3 DEF Coming
  <2>2. sent \in Nat /\ version \in Nat
    BY RecoveryAssumption DEF TypeOK
  <2>3. c \in Frames
    BY <2>2, FrameType
  <2>4. c.kind = "update" /\ c.form = "good" /\ c.seq = sent /\ Before(c) = version
    BY <2>2 DEF Frame, Before
  <2>5. venue # Bitstamp => sent >= 1
    BY <2>1 DEF ConnectionIsKnown
  <2> HIDE DEF c
  <2> QED BY <2>1, <2>2, <2>3, <2>4, <2>5 DEF IsRest
<1>4. CASE \/ \E k \in DOMAIN queue : Flight[i] = queue[k]
           \/ \E k \in DOMAIN wire : Flight[i] = wire[k]
  <2>1. Known(Flight[i], venue, version, spent["garble"])
    BY <1>4 DEF MessagesAreKnown
  <2> QED BY <2>1 DEF Known
<1> QED BY <1>2, <1>3, <1>4

\* Making room forgets a message, and a send adds one.
LEMMA AppendIsKnown ==
  ASSUME TypeOK, MessagesAreKnown, NEW m \in Messages, Known(m, venue, version, spent["garble"])
  PROVE  /\ \A i \in DOMAIN Append(Kept, m) :
               Known(Append(Kept, m)[i], venue, version, spent["garble"])
         /\ \A i \in DOMAIN Tail(queue) : queue # <<>> =>
               Known(Tail(queue)[i], venue, version, spent["garble"])
<1> DEFINE K(x) == Known(x, venue, version, spent["garble"])
<1>1. queue \in Seq(Messages) /\ Kept \in Seq(Messages) /\ (Full => queue # <<>>)
  BY FlightType
<1>2. ASSUME queue # <<>> PROVE \A i \in DOMAIN Tail(queue) : K(Tail(queue)[i])
  BY <1>1, <1>2, TailIndices DEF MessagesAreKnown
<1>3. \A i \in DOMAIN Kept : K(Kept[i])
  BY <1>1, <1>2 DEF Kept, MessagesAreKnown
<1>4. \A i \in DOMAIN Append(Kept, m) : Append(Kept, m)[i] = m \/
         (i \in DOMAIN Kept /\ Append(Kept, m)[i] = Kept[i])
  BY <1>1
<1> HIDE DEF K
<1>5. K(m)
  BY DEF K
<1> QED BY <1>2, <1>3, <1>4, <1>5 DEF K

\* Nothing unknown gets into the channel or onto the wire.
LEMMA KnownStep ==
  ASSUME TypeOK, ConnectionIsKnown, MessagesAreKnown, Next
  PROVE  /\ \A i \in DOMAIN queue' : Known(queue'[i], venue, version', spent'["garble"])
         /\ \A i \in DOMAIN wire' :
               IsStream(wire'[i]) /\ Known(wire'[i], venue, version', spent'["garble"])
<1> DEFINE K(x) == Known(x, venue, version, spent["garble"])
           L(x) == Known(x, venue, version', spent'["garble"])
<1>0. /\ version \in Nat /\ version' \in Nat /\ sent \in Nat
      /\ queue \in Seq(Messages) /\ wire \in Seq(Messages) /\ Kept \in Seq(Messages)
      /\ spent["garble"] \in Nat /\ spent'["garble"] \in Nat
  BY FlightType, VersionGrows DEF TypeOK
<1>1. \A x : K(x) => L(x)
  BY VersionGrows, KnownStays
<1>2. \A i \in DOMAIN queue : K(queue[i])
  BY DEF MessagesAreKnown
<1>3. \A i \in DOMAIN wire : IsStream(wire[i]) /\ K(wire[i])
  BY DEF MessagesAreKnown
<1>4. /\ \A m \in Messages : K(m) => \A i \in DOMAIN Append(Kept, m) : K(Append(Kept, m)[i])
      /\ queue # <<>> => \A i \in DOMAIN Tail(queue) : K(Tail(queue)[i])
  <2>1. SessionEnded \in Messages /\ K(SessionEnded)
    BY DEF Known, IsEnd, SessionEnded, Messages
  <2> QED BY <2>1, AppendIsKnown
<1>5. ASSUME NEW f \in Frames, IsStream(f), L(f), wire' = Append(wire, f)
      PROVE  \A i \in DOMAIN wire' : IsStream(wire'[i]) /\ L(wire'[i])
  <2> HIDE DEF L, K
  <2>1. \A i \in DOMAIN Append(wire, f) : Append(wire, f)[i] = f \/
           (i \in DOMAIN wire /\ Append(wire, f)[i] = wire[i])
    BY <1>0 DEF Messages
  <2> QED BY <1>1, <1>3, <1>5, <2>1
<1>6. CASE EvictedByOthers \/ Apply
  <2>1. queue # <<>> /\ queue' = Tail(queue) /\ wire' = wire
    BY <1>6 DEF EvictedByOthers, Apply, connection
  <2> HIDE DEF K, L
  <2> QED BY <1>1, <1>3, <1>4, <2>1 DEF L
<1>7. CASE SubscriptionTakesEffect \/ RestAnswered \/ BackoffEnds
  <2>1. queue' = queue /\ wire' = wire
    BY <1>7 DEF SubscriptionTakesEffect, RestAnswered, BackoffEnds
  <2> HIDE DEF K, L
  <2> QED BY <1>1, <1>2, <1>3, <2>1 DEF L
<1>8. CASE VenueUpdates
  <2>1. queue' = queue
    BY <1>8 DEF VenueUpdates
  <2>2. CASE wire' = wire
    <3> HIDE DEF K, L
    <3> QED BY <1>1, <1>2, <1>3, <2>1, <2>2 DEF L
  <2>3. CASE wire' # wire
    <3>1. PICK form \in {"good", "bad_envelope", "bad_events"} :
            /\ wire' = Append(wire, Frame("update", sent, version + 1, form))
            /\ form # "good" => spent' = Spending({"garble"})
            /\ version' = version + 1 /\ pc = "open"
      BY <1>8, <2>3 DEF VenueUpdates
    <3> DEFINE f == Frame("update", sent, version + 1, form)
    <3>2. f \in Frames
      BY <1>0, FrameType
    <3>3. f.kind = "update" /\ f.form = form /\ f.seq = sent /\ f.at = version + 1
      BY DEF Frame
    <3>4. venue # Bitstamp => sent >= 1
      BY <3>1 DEF ConnectionIsKnown
    <3>5. form # "good" => spent'["garble"] > 0
      BY <1>0, <3>1 DEF Spending, Mishaps
    <3>6. Before(f) \in 0..version' /\ f.at <= version'
      BY <1>0, <3>1, <3>3 DEF Before
    <3> HIDE DEF f
    <3>7. L(f) /\ IsStream(f)
      BY <3>2, <3>3, <3>4, <3>5, <3>6 DEF Known, IsRest, IsStream
    <3>8. \A i \in DOMAIN wire' : IsStream(wire'[i]) /\ L(wire'[i])
      BY <1>5, <3>1, <3>2, <3>7 DEF f
    <3> HIDE DEF K, L
    <3> QED BY <1>1, <1>2, <2>1, <3>8 DEF L
  <2> QED BY <2>2, <2>3
<1>9. CASE VenueChatters
  <2> DEFINE f == Frame("other", sent, version, "good")
  <2>1. queue' = queue /\ wire' = Append(wire, f) /\ version' = version /\ pc = "open"
    BY <1>9 DEF VenueChatters
  <2>2. f \in Frames
    BY <1>0, FrameType
  <2>3. f.kind = "other" /\ f.form = "good" /\ f.seq = sent /\ f.at = version
    BY DEF Frame
  <2>4. venue # Bitstamp => sent >= 1
    BY <2>1 DEF ConnectionIsKnown
  <2>5. Before(f) \in 0..version' /\ f.at <= version'
    BY <1>0, <2>1, <2>3 DEF Before
  <2> HIDE DEF f
  <2>6. L(f) /\ IsStream(f)
    BY <2>2, <2>3, <2>4, <2>5 DEF Known, IsRest, IsStream
  <2>7. \A i \in DOMAIN wire' : IsStream(wire'[i]) /\ L(wire'[i])
    BY <1>5, <2>1, <2>2, <2>6
  <2> HIDE DEF K, L
  <2> QED BY <1>1, <1>2, <2>1, <2>7 DEF L
<1>10. CASE Connect
  <2>1. queue' = queue
    BY <1>10 DEF Connect
  <2>2. CASE venue = Bitstamp
    <3>1. wire' = wire
      BY <1>10, <2>2 DEF Connect
    <3> HIDE DEF K, L
    <3> QED BY <1>1, <1>2, <1>3, <2>1, <3>1 DEF L
  <2>3. CASE venue # Bitstamp
    <3> DEFINE f == Frame("snapshot", 0, version, "good")
    <3>1. wire' = <<f>>
      BY <1>10, <2>3 DEF Connect
    <3>2. f \in Frames
      BY <1>0, FrameType
    <3>3. f.kind = "snapshot" /\ f.form = "good" /\ f.seq = 0 /\ f.at = version
      BY DEF Frame
    <3> HIDE DEF f
    <3>4. K(f) /\ IsStream(f)
      BY <1>0, <2>3, <3>2, <3>3 DEF Known, IsRest, IsStream, Before
    <3>5. \A i \in DOMAIN wire' : wire'[i] = f
      BY <3>1
    <3> HIDE DEF K, L
    <3> QED BY <1>1, <1>2, <2>1, <3>4, <3>5 DEF L
  <2> QED BY <2>2, <2>3
<1>11. CASE SessionBreaks \/ HearResync
  <2>1. queue' = Append(Kept, SessionEnded) /\ wire' = <<>>
    BY <1>11 DEF SessionBreaks, HearResync, EndSession, Publish, Pushed, Kept
  <2>2. SessionEnded \in Messages /\ K(SessionEnded)
    BY DEF Known, IsEnd, SessionEnded, Messages
  <2> HIDE DEF K, L
  <2> QED BY <1>1, <1>4, <2>1, <2>2 DEF L
<1>12. CASE RestLands
  <2> DEFINE f == Frame("rest", 0, restAt, "good")
  <2>1. queue' = Append(Kept, f) /\ wire' = wire /\ venue = Bitstamp
    BY <1>12 DEF RestLands, Publish, Pushed, Kept, ConnectionIsKnown
  <2>2. restAt \in Nat /\ restAt <= version
    BY RecoveryAssumption DEF TypeOK, MessagesAreKnown
  <2>3. f \in Frames
    BY <2>2, FrameType
  <2>4. f.kind = "rest" /\ f.form = "good" /\ f.at = restAt
    BY DEF Frame
  <2> HIDE DEF f
  <2>5. K(f) /\ f \in Messages
    BY <1>0, <2>1, <2>2, <2>3, <2>4 DEF Known, IsRest, Before, Messages
  <2> HIDE DEF K, L
  <2> QED BY <1>1, <1>3, <1>4, <2>1, <2>5 DEF L
<1>13. CASE Receive
  <2>1. /\ queue' = Append(Kept, Head(wire)) /\ wire' = Tail(wire) /\ wire # <<>>
    BY <1>13 DEF Receive, Publish, Pushed, Kept
  <2>2. Head(wire) \in Messages /\ K(Head(wire))
    BY <1>0, <1>3, <2>1
  <2>3. \A i \in DOMAIN wire' : IsStream(wire'[i]) /\ K(wire'[i])
    BY <1>0, <1>3, <2>1, TailIndices
  <2> HIDE DEF K, L
  <2> QED BY <1>1, <1>4, <2>1, <2>2, <2>3 DEF L
<1> QED BY <1>6, <1>7, <1>8, <1>9, <1>10, <1>11, <1>12, <1>13 DEF Next

\* The diffs Bitstamp buffers come from the flight.
LEMMA PendingStep ==
  ASSUME TypeOK, ConnectionIsKnown, MessagesAreKnown, Next
  PROVE  restAt' <= version' /\ sync'.pending \subseteq 0..version'
<1>0. /\ version \in Nat /\ version' \in Nat /\ version <= version'
      /\ sync.pending \subseteq 0..version /\ restAt <= version /\ restAt \in Nat
      /\ 0..version \subseteq 0..version'
  BY VersionGrows, RecoveryAssumption DEF MessagesAreKnown, TypeOK
<1>1. restAt' <= version'
  <2>1. restAt' = restAt \/ restAt' = 0 \/ (restAt' = version /\ version' = version)
    BY DEF Next, EvictedByOthers, VenueUpdates, VenueChatters, SubscriptionTakesEffect,
       RestAnswered, Connect, SessionBreaks, HearResync, EndSession, RestLands, Receive,
       BackoffEnds, Apply, connection
  <2> QED BY <1>0, <2>1
<1>2. CASE Apply
  <2>1. PICK crosses \in BOOLEAN : sync' = Outcome(Head(queue), crosses).sync
    BY <1>2 DEF Apply
  <2> DEFINE m == Head(queue)
  <2>2. m \in Messages /\ Known(m, venue, version, spent["garble"])
    BY <1>2, FlightType DEF Apply, MessagesAreKnown
  <2>3. CASE IsEnd(m)
    <3>1. sync' = FreshSync
      BY <2>1, <2>3 DEF Outcome, IsEnd, Reset
    <3>2. FreshSync.pending = {}
      BY DEF FreshSync
    <3> QED BY <1>1, <3>1, <3>2
  <2>4. CASE ~IsEnd(m)
    <3>1. m \in Frames /\ m.at <= version /\ m.at \in Nat
      BY <2>2, <2>4 DEF Known, Frames
    <3>2. venue \in {Coinbase, Kraken, Bitstamp} /\ sync \in Syncs /\ book \in Books
      BY RecoveryAssumption DEF TypeOK
    <3>3. sync' = Feed(venue, sync, book, m, crosses).sync
      BY <2>1, <2>4 DEF Outcome, IsEnd
    <3> HIDE DEF m
    <3>4. sync'.pending \subseteq sync.pending \union {m.at}
      BY <1>0, <3>1, <3>2, <3>3, FeedType
    <3>5. m.at \in 0..version'
      BY <1>0, <3>1
    <3> QED BY <1>0, <1>1, <3>4, <3>5
  <2> QED BY <1>1, <2>3, <2>4, <1>0
<1>3. CASE ~Apply
  <2>1. sync' = sync
    BY <1>3 DEF Next, EvictedByOthers, VenueUpdates, VenueChatters, SubscriptionTakesEffect,
       RestAnswered, Connect, SessionBreaks, HearResync, EndSession, RestLands, Receive,
       BackoffEnds, aggregator
  <2> QED BY <1>0, <1>1, <2>1
<1> QED BY <1>1, <1>2, <1>3

\* Every step leaves only known messages and diffs.
LEMMA MessagesStep ==
  ASSUME TypeOK, ConnectionIsKnown, MessagesAreKnown, Next
  PROVE  MessagesAreKnown'
<1>1. venue' = venue
  BY VersionGrows
<1> QED BY <1>1, KnownStep, PendingStep DEF MessagesAreKnown

\* The aggregator's part of the state stays well typed.
LEMMA ApplyType ==
  ASSUME TypeOK, MessagesAreKnown, Apply
  PROVE  TypeOK'
<1>1. queue # <<>> /\ queue' = Tail(queue)
  BY DEF Apply
<1>2. PICK crosses \in BOOLEAN :
        /\ sync' = Outcome(Head(queue), crosses).sync
        /\ book' = Outcome(Head(queue), crosses).book
        /\ wanted' = (wanted \/ RequestsResync(book, book'))
  BY DEF Apply
<1> DEFINE m == Head(queue)
<1>3. m \in Messages /\ Known(m, venue, version, spent["garble"])
  BY <1>1, FlightType DEF MessagesAreKnown
<1>4. /\ venue \in {Coinbase, Kraken, Bitstamp} /\ sync \in Syncs /\ book \in Books
      /\ version \in Nat /\ sync.pending \subseteq 0..version
  BY RecoveryAssumption DEF TypeOK, MessagesAreKnown
<1>5. sync' \in Syncs /\ book' \in Books
  <2>1. CASE IsEnd(m)
    <3>1. sync' = FreshSync /\ book' = MarkDesynced(book, "connection_lost")
      BY <1>2, <2>1 DEF Outcome, IsEnd, Reset
    <3>2. FreshSync \in Syncs
      BY DEF FreshSync, Syncs, Unset
    <3>3. MarkDesynced(book, "connection_lost") \in Books
      BY <1>4 DEF MarkDesynced, Books, DesyncReasons
    <3> QED BY <3>1, <3>2, <3>3
  <2>2. CASE ~IsEnd(m)
    <3>1. m \in Frames /\ m.at <= version
      BY <1>3, <2>2 DEF Known
    <3>2. /\ sync' = Feed(venue, sync, book, m, crosses).sync
          /\ book' = Feed(venue, sync, book, m, crosses).book
      BY <1>2, <2>2 DEF Outcome, IsEnd
    <3> HIDE DEF m
    <3> QED BY <1>4, <3>1, <3>2, FeedType
  <2> QED BY <2>1, <2>2
<1>6. wanted' \in BOOLEAN
  BY <1>2 DEF TypeOK, RequestsResync, NeedsFreshStream
<1>7. queue' \in Seq(Frames \union {SessionEnded}) /\ Len(queue') <= Capacity
  BY <1>1, RecoveryAssumption DEF TypeOK
<1> QED BY <1>5, <1>6, <1>7 DEF TypeOK, Apply, connection

\* Every step leaves the state well typed.
LEMMA TypeStep ==
  ASSUME TypeOK, MessagesAreKnown, Next
  PROVE  TypeOK'
<1>1. CASE EvictedByOthers
  <2>1. queue' \in Seq(Frames \union {SessionEnded}) /\ Len(queue') <= Capacity
    BY <1>1, RecoveryAssumption DEF TypeOK, EvictedByOthers
  <2>2. \A m \in Mishaps : spent'[m] \in 0..Budget[m]
    BY <1>1, SpendingType DEF EvictedByOthers
  <2> QED BY <1>1, <2>1, <2>2 DEF EvictedByOthers, TypeOK, connection, aggregator
<1> QED BY <1>1, VenueType, IngestType, ApplyType DEF Next

-------------------------------------------------------------------------------
(* Connections.                                                              *)

\* While nothing is evicted an outage is told: what is known of a connection stays.
LEMMA ConnectionStep ==
  ASSUME TypeOK, ConnectionIsKnown, Next
  PROVE  ConnectionIsKnown'
<1>0. /\ queue \in Seq(Messages) /\ Kept \in Seq(Messages) /\ wire \in Seq(Messages)
      /\ sent \in Nat /\ \A m \in Mishaps : spent[m] \in Nat
  BY FlightType, RecoveryAssumption DEF TypeOK
<1>1. CASE EvictedByOthers
  <2>1. queue # <<>> /\ queue' = Tail(queue) /\ ~NoneOf({"evict"})'
    BY <1>0, <1>1 DEF EvictedByOthers, NoneOf, Spending, Mishaps
  <2>2. queue' # <<>> => queue'[Len(queue')] = queue[Len(queue)]
    BY <1>0, <2>1
  <2>3. UNCHANGED <<venue, pc, subscribed, wire, rest, sent>>
    BY <1>1 DEF EvictedByOthers, connection
  <2>4. spent'["lag"] = spent["lag"]
    BY <1>1 DEF EvictedByOthers, Spending, Mishaps
  <2> QED BY <2>1, <2>2, <2>3, <2>4 DEF ConnectionIsKnown, NoneOf
<1>2. CASE VenueUpdates \/ VenueChatters \/ SubscriptionTakesEffect \/ RestAnswered
  <2>1. UNCHANGED <<venue, pc, queue, sync, book>> /\ (subscribed' # subscribed => subscribed')
    BY <1>2 DEF VenueUpdates, VenueChatters, SubscriptionTakesEffect, RestAnswered, aggregator
  <2>2. pc # "open" => UNCHANGED <<subscribed, wire, rest, sent, spent>>
    BY <1>2 DEF VenueUpdates, VenueChatters, SubscriptionTakesEffect, RestAnswered,
       ConnectionIsKnown
  <2>3. (venue # Bitstamp => rest' = rest) /\ (sent' = sent \/ sent' = sent + 1)
    BY <1>2 DEF VenueUpdates, VenueChatters, SubscriptionTakesEffect, RestAnswered,
       ConnectionIsKnown
  <2>4. spent'["lag"] = spent["lag"]
    BY <1>2 DEF VenueUpdates, VenueChatters, SubscriptionTakesEffect, RestAnswered, Spending,
       Mishaps
  <2>5. pc = "open" => (subscribed => subscribed')
    BY <1>2 DEF VenueUpdates, VenueChatters, SubscriptionTakesEffect, RestAnswered
  <2>6. venue # Bitstamp /\ pc = "open" => sent' >= 1
    BY <1>0, <2>3 DEF ConnectionIsKnown
  <2> QED BY <2>1, <2>2, <2>3, <2>4, <2>5, <2>6 DEF ConnectionIsKnown, NoneOf
<1>3. CASE Connect
  <2>1. pc' = "open" /\ venue' = venue
    BY <1>3 DEF Connect
  <2>2. venue # Bitstamp => subscribed' /\ sent' = 1 /\ rest' = rest /\ spent' = spent
    BY <1>3 DEF Connect
  <2>3. venue = Bitstamp => subscribed' \/ spent' = Spending({"lag"})
    BY <1>3 DEF Connect
  <2>4. spent' = Spending({"lag"}) => ~NoneOf({"lag"})'
    BY <1>0 DEF NoneOf, Spending, Mishaps
  <2> QED BY <2>1, <2>2, <2>3, <2>4 DEF ConnectionIsKnown
<1>4. ASSUME NEW mishaps, EndSession(mishaps), "lag" \notin mishaps PROVE ConnectionIsKnown'
  <2>1. /\ pc' = "backoff" /\ ~subscribed' /\ wire' = <<>> /\ rest' = "idle" /\ venue' = venue
        /\ queue' = Append(Kept, SessionEnded)
    BY <1>4 DEF EndSession, Publish, Pushed, Kept
  <2>2. queue' # <<>> /\ IsEnd(queue'[Len(queue')])
    <3>1. queue' # <<>> /\ queue'[Len(queue')] = SessionEnded
      BY <1>0, <2>1
    <3> QED BY <3>1 DEF IsEnd, SessionEnded
  <2>3. spent'["lag"] = spent["lag"]
    BY <1>4 DEF EndSession, Publish, Spending, Mishaps
  <2> QED BY <2>1, <2>2, <2>3 DEF ConnectionIsKnown
<1>5. CASE SessionBreaks \/ HearResync
  BY <1>4, <1>5 DEF SessionBreaks, HearResync
<1>6. CASE RestLands \/ Receive
  <2>1. pc = "open" /\ UNCHANGED <<venue, pc, subscribed, sent>>
    BY <1>6 DEF RestLands, Receive
  <2>2. venue # Bitstamp => rest' = rest
    BY <1>6 DEF RestLands, Receive, ConnectionIsKnown
  <2>3. spent'["lag"] = spent["lag"]
    BY <1>6 DEF RestLands, Receive, Publish, Spending, Mishaps
  <2> QED BY <2>1, <2>2, <2>3 DEF ConnectionIsKnown, NoneOf
<1>7. CASE BackoffEnds
  BY <1>7 DEF BackoffEnds, ConnectionIsKnown, aggregator, NoneOf
<1>8. CASE Apply
  <2>1. queue # <<>> /\ queue' = Tail(queue)
    BY <1>8 DEF Apply
  <2>2. queue' # <<>> => queue'[Len(queue')] = queue[Len(queue)]
    BY <1>0, <2>1
  <2>3. UNCHANGED <<venue, pc, subscribed, wire, rest, sent, spent>>
    BY <1>8 DEF Apply, connection
  <2>4. ASSUME pc # "open", queue' = <<>> PROVE sync' = FreshSync /\ ~IsLive(book')
    <3>1. Head(queue) = queue[Len(queue)]
      <4>1. Len(Tail(queue)) = Len(queue) - 1 /\ Len(queue) \in Nat /\ Head(queue) = queue[1]
        BY <1>0, <2>1, TailIndices
      <4>2. Len(Tail(queue)) = 0
        <5>1. Tail(queue) = <<>>
          BY <2>1, <2>4
        <5>2. Len(<<>>) = 0
          OBVIOUS
        <5> QED BY <5>1, <5>2
      <4>3. Len(queue) = 1
        BY <4>1, <4>2
      <4> QED BY <4>1, <4>3
    <3>2. IsEnd(Head(queue))
      BY <2>1, <2>4, <3>1 DEF ConnectionIsKnown
    <3>3. sync' = FreshSync /\ book' = MarkDesynced(book, "connection_lost")
      BY <1>8, <3>2 DEF Apply, Outcome, IsEnd, Reset
    <3> QED BY <3>3 DEF MarkDesynced, IsLive, TypeOK, Books
  <2> QED BY <2>1, <2>2, <2>3, <2>4 DEF ConnectionIsKnown, NoneOf
<1> QED BY <1>1, <1>2, <1>3, <1>5, <1>6, <1>7, <1>8 DEF Next

-------------------------------------------------------------------------------
(* Where sessions start.                                                     *)

\* Every session in s but the first starts with a snapshot, or ends at once.
Whole(s) ==
    \A i \in DOMAIN s : i + 1 \in DOMAIN s /\ IsEnd(s[i]) => s[i + 1].kind \in {"snapshot", "ended"}

\* That is so of what is left when the oldest message goes.
LEMMA WholeTail ==
  ASSUME NEW S, NEW s \in Seq(S), s # <<>>, Whole(s)
  PROVE  Whole(Tail(s))
<1> SUFFICES ASSUME NEW i \in DOMAIN Tail(s), i + 1 \in DOMAIN Tail(s), IsEnd(Tail(s)[i])
             PROVE  Tail(s)[i + 1].kind \in {"snapshot", "ended"}
  BY DEF Whole
<1>1. /\ i + 1 \in DOMAIN s /\ (i + 1) + 1 \in DOMAIN s
      /\ Tail(s)[i] = s[i + 1] /\ Tail(s)[i + 1] = s[(i + 1) + 1]
  BY TailIndices
<1> QED BY <1>1 DEF Whole

\* And when a message comes that may be where it is.
LEMMA WholeAppend ==
  ASSUME NEW S, NEW s \in Seq(S), NEW m \in S, Whole(s),
         s = <<>> \/ ~IsEnd(s[Len(s)]) \/ m.kind \in {"snapshot", "ended"}
  PROVE  Whole(Append(s, m))
<1> DEFINE t == Append(s, m)
<1>1. /\ DOMAIN s = 1..Len(s) /\ DOMAIN t = 1 .. Len(s) + 1 /\ Len(s) \in Nat
      /\ \A k \in 1..Len(s) : t[k] = s[k]
      /\ t[Len(s) + 1] = m
  OBVIOUS
<1> HIDE DEF t
<1>2. ASSUME NEW i \in DOMAIN t, i + 1 \in DOMAIN t, IsEnd(t[i])
      PROVE  t[i + 1].kind \in {"snapshot", "ended"}
  <2>1. i \in 1..Len(s) /\ t[i] = s[i] /\ (i = Len(s) \/ i + 1 \in 1..Len(s))
    BY <1>1, <1>2
  <2>2. CASE i = Len(s)
    BY <1>1, <1>2, <2>1, <2>2
  <2>3. CASE i + 1 \in 1..Len(s)
    BY <1>1, <1>2, <2>1, <2>3 DEF Whole
  <2> QED BY <2>1, <2>2, <2>3
<1> QED BY <1>2 DEF Whole, t

\* And of a beginning.
LEMMA WholePrefix ==
  ASSUME NEW S, NEW s \in Seq(S), NEW t \in Seq(S), Len(t) <= Len(s),
         \A k \in 1..Len(t) : t[k] = s[k], Whole(s)
  PROVE  Whole(t)
<1>1. DOMAIN t = 1..Len(t) /\ DOMAIN t \subseteq DOMAIN s
  OBVIOUS
<1> QED BY <1>1 DEF Whole

\* The last message of a sequence may be replaced by a frame of the same kind.
LEMMA WholeLast ==
  ASSUME NEW S, NEW s \in Seq(S), NEW c \in S, NEW m \in S, Whole(Append(s, c)),
         c.kind \notin {"snapshot", "ended"}
  PROVE  Whole(Append(s, m))
<1>1. /\ Append(s, c) \in Seq(S) /\ Len(s) <= Len(Append(s, c)) /\ Len(s) \in Nat
      /\ \A k \in 1..Len(s) : s[k] = Append(s, c)[k]
  OBVIOUS
<1>2. Whole(s)
  BY <1>1, WholePrefix
<1>3. s = <<>> \/ ~IsEnd(s[Len(s)])
  <2> SUFFICES ASSUME s # <<>>, IsEnd(s[Len(s)]) PROVE FALSE
    OBVIOUS
  <2>1. /\ Len(s) \in DOMAIN Append(s, c) /\ Len(s) + 1 \in DOMAIN Append(s, c)
        /\ Append(s, c)[Len(s)] = s[Len(s)] /\ Append(s, c)[Len(s) + 1] = c
    OBVIOUS
  <2> QED BY <2>1 DEF Whole
<1> QED BY <1>2, <1>3, WholeAppend

\* A connection to Coinbase or Kraken opens with a snapshot and ends with its end.
LEMMA WholeStep ==
  ASSUME TypeOK, ConnectionIsKnown, SessionsStartWhole, Next
  PROVE  SessionsStartWhole'
<1> SUFFICES ASSUME venue # Bitstamp PROVE Whole(Flight')
  BY VersionGrows DEF SessionsStartWhole, Whole
<1>0. /\ Flight \in Seq(Messages) /\ queue \in Seq(Messages) /\ wire \in Seq(Messages)
      /\ Kept \in Seq(Messages) /\ Whole(Flight) /\ version \in Nat /\ sent \in Nat
      /\ version' \in Nat
  BY FlightType, VersionGrows DEF SessionsStartWhole, Whole, TypeOK
<1>1. Whole(KeptFlight) /\ Whole(Kept)
  <2>1. Whole(KeptFlight)
    <3>1. Full => Flight # <<>>
      BY FlightType, ConcatTail DEF Flight
    <3> QED BY <1>0, <3>1, KeptFlightIs, WholeTail
  <2>2. KeptFlight \in Seq(Messages) /\ Len(Kept) <= Len(KeptFlight)
        /\ \A k \in 1..Len(Kept) : Kept[k] = KeptFlight[k]
    BY FlightType DEF KeptFlight
  <2> QED BY <1>0, <2>1, <2>2, WholePrefix
<1>2. CASE EvictedByOthers \/ Apply
  <2>1. Flight' = Tail(Flight) /\ Flight # <<>>
    BY <1>2, TailFlight DEF EvictedByOthers, Apply, connection
  <2> QED BY <1>0, <2>1, WholeTail
<1>3. CASE SubscriptionTakesEffect \/ RestAnswered \/ BackoffEnds \/ (VenueUpdates /\ pc # "open")
  <2>1. Flight' = Flight
    BY <1>3, SameFlight DEF SubscriptionTakesEffect, RestAnswered, BackoffEnds, VenueUpdates,
       connection
  <2> QED BY <1>0, <2>1
<1>4. CASE SessionBreaks \/ HearResync
  <2>1. Flight' = Append(Kept, SessionEnded) /\ SessionEnded \in Messages
    BY <1>4, EndFlight DEF SessionBreaks, HearResync, Messages
  <2>2. SessionEnded.kind = "ended"
    BY DEF SessionEnded
  <2> QED BY <1>0, <1>1, <2>1, <2>2, WholeAppend
<1>5. CASE Receive
  BY <1>1, <1>5, ReceiveFlight
<1>6. CASE RestLands
  BY <1>6 DEF RestLands, ConnectionIsKnown
<1>7. CASE Connect
  <2> DEFINE first == Frame("snapshot", 0, version, "good")
             next == Frame("update", 1, version + 1, "good")
  <2>1. first \in Messages /\ next \in Messages
    BY <1>0, FrameType DEF Messages
  <2>2. Flight' = Append(Append(queue, first), next) /\ Flight = queue
    BY <1>7, ConnectFlight
  <2>3. first.kind = "snapshot" /\ ~IsEnd(first)
    BY DEF Frame, IsEnd
  <2> HIDE DEF first, next
  <2>4. Append(queue, first) \in Seq(Messages) /\ Append(queue, first) # <<>>
        /\ Append(queue, first)[Len(Append(queue, first))] = first
    BY <1>0, <2>1, AppendLast
  <2>5. Whole(Append(queue, first))
    BY <1>0, <2>1, <2>2, <2>3, WholeAppend
  <2> QED BY <2>1, <2>2, <2>3, <2>4, <2>5, WholeAppend
<1>8. CASE VenueChatters \/ (VenueUpdates /\ pc = "open")
  <2> DEFINE s == queue \o wire
             c == Frame("update", sent, version + 1, "good")
             next == Frame("update", sent + 1, version' + 1, "good")
  <2>1. pc = "open" /\ UNCHANGED <<pc, queue>> /\ sent' = sent + 1
    BY <1>8 DEF VenueChatters, VenueUpdates, ConnectionIsKnown, NoneOf, Mishaps
  <2>2. \/ wire' = wire
        \/ \E f \in Frames : f.kind # "ended" /\ wire' = Append(wire, f)
    <3>1. Frame("other", sent, version, "good") \in Frames
          /\ \A form \in {"good", "bad_envelope", "bad_events"} :
                Frame("update", sent, version + 1, form) \in Frames
      BY <1>0, FrameType
    <3>2. \A kind \in {"other", "update"} : \A n, at, form : Frame(kind, n, at, form).kind # "ended"
      BY DEF Frame
    <3> QED BY <1>8, <3>1, <3>2 DEF VenueChatters, VenueUpdates
  <2>3. s \in Seq(Messages) /\ c \in Messages /\ next \in Messages /\ c \in Frames
    BY <1>0, FrameType DEF Messages
  <2>4. c.kind \notin {"snapshot", "ended"}
    BY DEF Frame
  <2>5. Flight = Append(s, c) /\ (wire' = wire => Flight' = Append(s, next))
        /\ \A f \in Frames : wire' = Append(wire, f) => Flight' = Append(Append(s, f), next)
    BY <1>0, <2>1, <2>3, SendFlight
  <2> HIDE DEF s, c, next
  <2>6. ASSUME NEW f \in Frames, f.kind # "ended" PROVE Whole(Append(Append(s, f), next))
    <3>1. f \in Messages
      BY DEF Messages
    <3>2. Append(s, f) \in Seq(Messages) /\ Append(s, f) # <<>>
          /\ Append(s, f)[Len(Append(s, f))] = f
      BY <2>3, <3>1
    <3>3. Whole(Append(s, f))
      BY <1>0, <2>3, <2>4, <2>5, <3>1, WholeLast
    <3> QED BY <2>3, <2>6, <3>2, <3>3, WholeAppend DEF IsEnd
  <2>7. Whole(Append(s, next))
    BY <1>0, <2>3, <2>4, <2>5, WholeLast
  <2> QED BY <2>2, <2>5, <2>6, <2>7
<1> QED BY <1>2, <1>3, <1>4, <1>5, <1>6, <1>7, <1>8 DEF Next

-------------------------------------------------------------------------------
(* What a book of Coinbase or Kraken is fed next.                            *)

\* Message n is at the head where m was: the same to a book.
Replaces(m, n) ==
    /\ ~IsEnd(m) /\ ~IsEnd(n)
    /\ m.kind = "snapshot" <=> n.kind = "snapshot"
    /\ n.seq = m.seq /\ Before(n) = Before(m)

\* What a step of another than the aggregator leaves at the head of the flight.
LEMMA HeadStep ==
  ASSUME TypeOK, ConnectionIsKnown, venue # Bitstamp, Next, ~Apply
  PROVE  \/ Flight' = <<>>
         \/ IsEnd(Flight'[1])
         \/ pc # "open" /\ queue = <<>> /\ Flight'[1].kind = "snapshot"
         \/ Flight # <<>> /\ Replaces(Flight[1], Flight'[1])
         \/ /\ Flight # <<>> /\ Flight[1].kind = "update" /\ Flight'[1].kind = "update"
            /\ Flight'[1].seq = Flight[1].seq + 1 /\ spent'["skip"] > 0
         \/ /\ 2 \in DOMAIN Flight /\ Flight'[1] = Flight[2]
            /\ spent'["evict"] = spent["evict"] + 1
<1>0. /\ Flight \in Seq(Messages) /\ queue \in Seq(Messages) /\ wire \in Seq(Messages)
      /\ Kept \in Seq(Messages) /\ version \in Nat /\ sent \in Nat /\ version' \in Nat
      /\ \A m \in Mishaps : spent[m] \in Nat
  BY FlightType, VersionGrows, RecoveryAssumption DEF TypeOK
<1>1. \A m \in Messages : IsEnd(m) \/ Replaces(m, m)
  BY DEF Replaces
<1>2. ASSUME Flight' = Flight PROVE Flight' = <<>> \/ IsEnd(Flight'[1]) \/ Replaces(Flight[1], Flight'[1])
  <2>1. Flight # <<>> => Flight[1] \in Messages
    BY <1>0
  <2> QED BY <1>1, <1>2, <2>1
<1>3. ASSUME NEW s \in Seq(Messages), NEW m \in Messages, s # <<>>
      PROVE  Append(s, m)[1] = s[1] /\ Append(s, m) # <<>> /\ s[1] \in Messages
  BY <1>3
<1>4. CASE EvictedByOthers
  <2>1. Flight' = Tail(Flight) /\ Flight # <<>>
    BY <1>4, TailFlight DEF EvictedByOthers, connection
  <2>2. spent'["evict"] = spent["evict"] + 1
    BY <1>0, <1>4 DEF EvictedByOthers, Spending, Mishaps
  <2>3. Flight' # <<>> => 2 \in DOMAIN Flight /\ Flight'[1] = Flight[2]
    BY <1>0, <2>1
  <2> QED BY <2>1, <2>2, <2>3
<1>5. CASE SubscriptionTakesEffect \/ RestAnswered \/ BackoffEnds \/ (VenueUpdates /\ pc # "open")
  <2>1. Flight' = Flight
    BY <1>5, SameFlight DEF SubscriptionTakesEffect, RestAnswered, BackoffEnds, VenueUpdates,
       connection
  <2> QED BY <1>2, <2>1
<1>6. CASE Receive
  <2>1. Flight' = KeptFlight
    BY <1>6, ReceiveFlight
  <2>2. CASE ~Full
    BY <1>2, <2>1, <2>2, KeptFlightIs
  <2>3. CASE Full
    <3>1. Flight' = Tail(Flight) /\ Flight # <<>>
      BY <2>1, <2>3, KeptFlightIs, FlightType, ConcatTail, SMTT(90) DEF Flight
    <3>2. spent'["evict"] = spent["evict"] + 1
      BY <1>0, <1>6, <2>3 DEF Receive, Publish, Spending, Mishaps
    <3>3. Flight' # <<>> => 2 \in DOMAIN Flight /\ Flight'[1] = Flight[2]
      BY <1>0, <3>1
    <3> QED BY <3>1, <3>2, <3>3
  <2> QED BY <2>2, <2>3
<1>7. CASE SessionBreaks \/ HearResync
  <2>1. Flight' = Append(Kept, SessionEnded) /\ SessionEnded \in Messages
    BY <1>7, EndFlight DEF SessionBreaks, HearResync, Messages
  <2>2. CASE Kept = <<>>
    <3>1. Flight'[1] = SessionEnded
      BY <2>1, <2>2
    <3> QED BY <3>1 DEF IsEnd, SessionEnded
  <2>3. CASE Kept # <<>>
    <3>1. Flight'[1] = Kept[1] /\ Kept[1] \in Messages
      BY <1>0, <1>3, <2>1, <2>3
    <3>2. KeptFlight # <<>> /\ KeptFlight[1] = Kept[1]
      BY <2>3, FlightType DEF KeptFlight
    <3>3. CASE ~Full
      <4>1. Flight # <<>> /\ Flight[1] = Kept[1]
        BY <3>2, <3>3, KeptFlightIs
      <4> QED BY <1>1, <3>1, <4>1
    <3>4. CASE Full
      <4>1. Tail(Flight) = KeptFlight /\ Flight # <<>>
        BY <3>4, KeptFlightIs, FlightType, ConcatTail DEF Flight
      <4>2. 2 \in DOMAIN Flight /\ Flight[2] = Kept[1]
        <5>1. Tail(Flight) # <<>> /\ Tail(Flight)[1] = Kept[1]
          BY <3>2, <4>1
        <5>2. \A t \in Seq(Messages) : t # <<>> /\ Tail(t) # <<>> =>
                 2 \in DOMAIN t /\ t[2] = Tail(t)[1]
          OBVIOUS
        <5> QED BY <1>0, <4>1, <5>1, <5>2
      <4>3. spent'["evict"] = spent["evict"] + 1
        BY <1>0, <1>7, <3>4 DEF SessionBreaks, HearResync, EndSession, Publish, Spending, Mishaps
      <4> QED BY <3>1, <4>2, <4>3
    <3> QED BY <3>3, <3>4
  <2> QED BY <2>2, <2>3
<1>8. CASE RestLands
  BY <1>8 DEF RestLands, ConnectionIsKnown
<1>9. CASE Connect
  <2> DEFINE first == Frame("snapshot", 0, version, "good")
             next == Frame("update", 1, version + 1, "good")
  <2>1. first \in Messages /\ next \in Messages
    BY <1>0, FrameType DEF Messages
  <2>2. Flight' = Append(Append(queue, first), next) /\ Flight = queue
    BY <1>9, ConnectFlight
  <2>3. first.kind = "snapshot"
    BY DEF Frame
  <2> HIDE DEF first, next
  <2>4. Flight'[1] = Append(queue, first)[1]
    BY <1>0, <1>3, <2>1, <2>2, AppendLast
  <2>5. CASE queue = <<>>
    <3>1. Append(queue, first)[1] = first
      BY <2>5
    <3> QED BY <1>9, <2>3, <2>4, <2>5, <3>1 DEF Connect
  <2>6. CASE queue # <<>>
    <3>1. Flight'[1] = Flight[1] /\ Flight[1] \in Messages /\ Flight # <<>>
      BY <1>0, <1>3, <2>1, <2>2, <2>4, <2>6
    <3> QED BY <1>1, <3>1
  <2> QED BY <2>5, <2>6
<1>10. CASE VenueChatters \/ (VenueUpdates /\ pc = "open")
  <2> DEFINE s == queue \o wire
             c == Frame("update", sent, version + 1, "good")
             next == Frame("update", sent + 1, version' + 1, "good")
  <2>1. pc = "open" /\ UNCHANGED <<pc, queue>> /\ sent' = sent + 1
    BY <1>10 DEF VenueChatters, VenueUpdates, ConnectionIsKnown, NoneOf, Mishaps
  <2>2. \/ wire' = wire /\ spent' = Spending({"skip"})
        \/ \E f \in Frames : Replaces(c, f) /\ wire' = Append(wire, f)
    <3>1. Frame("other", sent, version, "good") \in Frames
          /\ \A form \in {"good", "bad_envelope", "bad_events"} :
                Frame("update", sent, version + 1, form) \in Frames
      BY <1>0, FrameType
    <3>2. /\ Replaces(c, Frame("other", sent, version, "good"))
          /\ \A form : Replaces(c, Frame("update", sent, version + 1, form))
      BY <1>0 DEF Replaces, Frame, IsEnd, Before
    <3> QED BY <1>10, <3>1, <3>2 DEF VenueChatters, VenueUpdates, ConnectionIsKnown, NoneOf, Mishaps
  <2>3. s \in Seq(Messages) /\ c \in Messages /\ next \in Messages /\ c \in Frames
    BY <1>0, FrameType DEF Messages
  <2>4. c.kind = "update" /\ next.kind = "update" /\ next.seq = c.seq + 1
    BY DEF Frame
  <2>5. Flight = Append(s, c) /\ (wire' = wire => Flight' = Append(s, next))
        /\ \A f \in Frames : wire' = Append(wire, f) => Flight' = Append(Append(s, f), next)
    BY <1>0, <2>1, <2>3, SendFlight
  <2>6. spent' = Spending({"skip"}) => spent'["skip"] > 0
    BY <1>0 DEF Spending, Mishaps
  <2> HIDE DEF s, c, next
  <2>7. CASE s # <<>>
    <3>1. Flight[1] = s[1] /\ s[1] \in Messages /\ Flight # <<>>
      BY <1>3, <2>3, <2>5, <2>7
    <3>2. Flight'[1] = s[1]
      <4>1. CASE wire' = wire
        BY <1>3, <2>3, <2>5, <2>7, <4>1
      <4>2. ASSUME NEW f \in Frames, wire' = Append(wire, f) PROVE Flight'[1] = s[1]
        <5>1. f \in Messages
          BY DEF Messages
        <5>2. Append(s, f) \in Seq(Messages) /\ Append(s, f) # <<>> /\ Append(s, f)[1] = s[1]
          BY <1>3, <2>3, <2>7, <5>1, AppendLast
        <5> QED BY <1>3, <2>3, <2>5, <4>2, <5>2, SMTT(90)
      <4> QED BY <2>2, <4>1, <4>2
    <3> QED BY <1>1, <3>1, <3>2
  <2>8. CASE s = <<>>
    <3>1. Flight[1] = c /\ Flight # <<>>
      BY <2>3, <2>5, <2>8
    <3>2. wire' = wire => Flight'[1] = next
      BY <2>3, <2>5, <2>8
    <3>3. ASSUME NEW f \in Frames, wire' = Append(wire, f) PROVE Flight'[1] = f
      <4>1. f \in Messages
        BY DEF Messages
      <4>2. Append(s, f)[1] = f /\ Append(s, f) \in Seq(Messages) /\ Append(s, f) # <<>>
        BY <2>3, <2>8, <4>1
      <4> QED BY <1>3, <2>3, <2>5, <3>3, <4>2
    <3> QED BY <2>2, <2>4, <2>6, <3>1, <3>2, <3>3
  <2> QED BY <2>7, <2>8
<1> QED BY <1>4, <1>5, <1>6, <1>7, <1>8, <1>9, <1>10 DEF Next

\* The message that is applied is the head of the flight.
LEMMA AppliedMessage ==
  ASSUME TypeOK, ConnectionIsKnown, MessagesAreKnown, Apply
  PROVE  /\ Flight # <<>> /\ Flight' = Tail(Flight) /\ 1 \in DOMAIN Flight
         /\ UNCHANGED <<venue, spent>>
         /\ Flight' # <<>> => 2 \in DOMAIN Flight /\ Flight'[1] = Flight[2]
         /\ Flight[1] \in Messages
         /\ IsEnd(Flight[1]) =>
               sync' = FreshSync /\ book' = MarkDesynced(book, "connection_lost") /\ ~IsLive(book')
         /\ ~IsEnd(Flight[1]) =>
               /\ Flight[1] \in Frames
               /\ \E crosses \in BOOLEAN :
                     /\ sync' = Feed(venue, sync, book, Flight[1], crosses).sync
                     /\ book' = Feed(venue, sync, book, Flight[1], crosses).book
         /\ venue # Bitstamp /\ ~IsEnd(Flight[1]) => Flight[1].kind \in {"snapshot", "update", "other"}
<1>1. Flight # <<>> /\ Flight' = Tail(Flight) /\ Head(Flight) = Head(queue)
  BY TailFlight DEF Apply, connection
<1>2. Flight \in Seq(Messages)
  BY FlightType
<1>3. Flight[1] = Head(queue) /\ 1 \in DOMAIN Flight /\ Flight[1] \in Messages
  BY <1>1, <1>2
<1>4. Flight' # <<>> => 2 \in DOMAIN Flight /\ Flight'[1] = Flight[2]
  BY <1>1, <1>2
<1>5. IsEnd(Flight[1]) =>
         sync' = FreshSync /\ book' = MarkDesynced(book, "connection_lost") /\ ~IsLive(book')
  BY <1>3 DEF Apply, Outcome, IsEnd, Reset, MarkDesynced, IsLive, TypeOK, Books
<1>6. ~IsEnd(Flight[1]) =>
               \E crosses \in BOOLEAN :
                     /\ sync' = Feed(venue, sync, book, Flight[1], crosses).sync
                     /\ book' = Feed(venue, sync, book, Flight[1], crosses).book
  BY <1>3 DEF Apply, Outcome, IsEnd
<1>7. ~IsEnd(Flight[1]) => Flight[1] \in Frames
  BY <1>3 DEF Messages, SessionEnded, IsEnd
<1>8. venue # Bitstamp /\ ~IsEnd(Flight[1]) => Flight[1].kind \in {"snapshot", "update", "other"}
  BY <1>3, <1>7, FlightIsKnown DEF Frames, IsRest
<1> QED BY <1>1, <1>3, <1>4, <1>5, <1>6, <1>7, <1>8 DEF Apply

\* What follows the head of the flight at Coinbase and Kraken.
LEMMA NextOfStream ==
  ASSUME TypeOK, ConnectionIsKnown, MessagesAreKnown, SessionsStartWhole, ChainsHold,
         venue # Bitstamp, 2 \in DOMAIN Flight
  PROVE  /\ IsEnd(Flight[1]) => Flight[2].kind \in {"snapshot", "ended"}
         /\ ~IsEnd(Flight[2]) => Flight[2] \in Frames /\ Flight[2].seq \in Nat
         /\ ~IsEnd(Flight[1]) /\ ~IsEnd(Flight[2]) =>
               /\ Flight[2].kind # "snapshot" /\ Flight[1].seq < Flight[2].seq
               /\ NoneOf({"skip"}) => Flight[2].seq = Flight[1].seq + 1
               /\ Flight[2].seq = Flight[1].seq + 1 => Before(Flight[2]) = Flight[1].at
<1>1. 1 \in DOMAIN Flight /\ \A k \in DOMAIN Flight : ~(1 < k /\ k < 2)
  BY FlightType
<1>2. IsEnd(Flight[1]) => Flight[2].kind \in {"snapshot", "ended"}
  <2>1. 1 + 1 = 2
    OBVIOUS
  <2> QED BY <1>1, <2>1 DEF SessionsStartWhole
<1>3. \A i \in {1, 2} : ~IsEnd(Flight[i]) =>
         Flight[i] \in Frames /\ Flight[i].kind \in {"snapshot", "update", "other"}
  BY <1>1, FlightIsKnown DEF Frames, IsRest
<1>4. ~IsEnd(Flight[1]) /\ ~IsEnd(Flight[2]) => Adjacent(Flight, 1, 2)
  BY <1>1, <1>3 DEF Adjacent, IsStream
<1>5. NoneOf({"lag"})
  BY DEF ConnectionIsKnown, NoneOf
<1>6. ~IsEnd(Flight[2]) => Flight[2].seq \in Nat
  BY <1>3 DEF Frames
<1> QED BY <1>1, <1>2, <1>3, <1>4, <1>5, <1>6 DEF ChainsHold, Increasing, Dense, Levelled

\* A frame that applies to the version a live book is at brings it to the next one.
LEMMA FrameApplies ==
  ASSUME NEW b \in Books, NEW m \in Frames, m.kind \in {"snapshot", "update", "other"},
         NEW crosses \in BOOLEAN
  PROVE  /\ m.kind = "snapshot" => ApplyBookFrame(b, m, crosses) = ApplySnapshot(m.at)
         /\ m.kind # "snapshot" /\ ~IsLive(b) => ApplyBookFrame(b, m, crosses) = b
         /\ m.kind # "snapshot" /\ IsLive(b) /\ ~b.hole /\ Before(m) = b.at =>
               /\ IsLive(ApplyBookFrame(b, m, crosses)) /\ ~ApplyBookFrame(b, m, crosses).hole
               /\ ApplyBookFrame(b, m, crosses).at = m.at
<1>1. m.kind = "snapshot" => ApplyBookFrame(b, m, crosses) = ApplySnapshot(m.at)
  BY DEF ApplyBookFrame
<1>2. m.kind # "snapshot" /\ ~IsLive(b) => ApplyBookFrame(b, m, crosses) = b
  BY DEF ApplyBookFrame, ApplyDelta
<1>3. ASSUME m.kind = "update", IsLive(b), ~b.hole, Before(m) = b.at
      PROVE  /\ IsLive(ApplyBookFrame(b, m, crosses)) /\ ~ApplyBookFrame(b, m, crosses).hole
             /\ ApplyBookFrame(b, m, crosses).at = m.at
  <2>1. m.at \in Nat /\ b.at \in Nat /\ m.at = b.at + 1
    BY <1>3 DEF Before, Frames, Books
  <2>2. ApplyBookFrame(b, m, crosses) = [b EXCEPT !.at = m.at, !.hole = FALSE]
    BY <1>3, <2>1 DEF ApplyBookFrame, ApplyDelta, GuardCrossed, Books
  <2> QED BY <1>3, <2>2 DEF IsLive, Books
<1>4. ASSUME m.kind = "other", IsLive(b), ~b.hole, Before(m) = b.at
      PROVE  /\ IsLive(ApplyBookFrame(b, m, crosses)) /\ ~ApplyBookFrame(b, m, crosses).hole
             /\ ApplyBookFrame(b, m, crosses).at = m.at
  BY <1>4 DEF ApplyBookFrame, Before
<1> QED BY <1>1, <1>2, <1>3, <1>4

\* What Coinbase makes of a frame it understands.
LEMMA CoinbaseFed ==
  ASSUME NEW s \in Syncs, NEW b \in Books, NEW m \in Frames, m.form = "good",
         m.kind \in {"snapshot", "update", "other"}, NEW crosses \in BOOLEAN
  PROVE  /\ Feed(Coinbase, s, b, m, crosses).sync.expected = m.seq + 1
         /\ Feed(Coinbase, s, b, m, crosses).book =
               IF s.expected # Unset /\ m.seq # s.expected THEN MarkDesynced(b, "gap")
               ELSE ApplyBookFrame(b, m, crosses)
<1>1. Feed(Coinbase, s, b, m, crosses) = CoinbaseFeed(s, b, m, crosses)
  BY DEF Feed, Coinbase, Kraken, Bitstamp
<1> QED BY <1>1 DEF CoinbaseFeed, NextExpected, GapBefore, Syncs

\* What Kraken makes of a frame, and of a frame it understands.
LEMMA KrakenFed ==
  ASSUME NEW s \in Syncs, NEW b \in Books, NEW m \in Frames,
         m.kind \in {"snapshot", "update", "other"}, NEW crosses \in BOOLEAN
  PROVE  /\ Feed(Kraken, s, b, m, crosses).sync = s
         /\ IsLive(Feed(Kraken, s, b, m, crosses).book) /\ Feed(Kraken, s, b, m, crosses).book.hole =>
               Feed(Kraken, s, b, m, crosses).book = b
         /\ m.form = "good" /\ (IsLive(ApplyBookFrame(b, m, crosses)) => ~ApplyBookFrame(b, m, crosses).hole) =>
               Feed(Kraken, s, b, m, crosses).book = ApplyBookFrame(b, m, crosses)
<1>1. Feed(Kraken, s, b, m, crosses) = KrakenFeed(s, b, m, crosses)
  BY DEF Feed, Coinbase, Kraken, Bitstamp
<1>2. m.kind = "other" => ApplyBookFrame(b, m, crosses) = b
  BY DEF ApplyBookFrame
<1>3. \A c \in Books : ~(IsLive(Verify(c)) /\ Verify(c).hole)
  BY DEF Verify, IsLive, MarkDesynced, Books
<1>4. \A c \in Books : (IsLive(c) => ~c.hole) => Verify(c) = c
  BY DEF Verify
<1>5. ApplyBookFrame(b, m, crosses) \in Books
  <2>1. m.at \in Nat
    BY DEF Frames
  <2> QED BY <2>1, BookTypes DEF ApplyBookFrame
<1> QED BY <1>1, <1>2, <1>3, <1>4, <1>5 DEF KrakenFeed

\* A step of another than the aggregator leaves the VenueBook alone.
LEMMA OnlyApplyFeeds ==
  ASSUME Next, ~Apply
  PROVE  sync' = sync /\ book' = book /\ (wanted => wanted' \/ pc' # "open")
  BY DEF Next, EvictedByOthers, VenueUpdates, VenueChatters, SubscriptionTakesEffect,
     RestAnswered, Connect, SessionBreaks, HearResync, EndSession, RestLands, Receive,
     BackoffEnds, aggregator

\* Kraken's checksum finds every hole.
LEMMA KrakenStep ==
  ASSUME TypeOK, ConnectionIsKnown, MessagesAreKnown, KrakenIsVerified, Next
  PROVE  KrakenIsVerified'
<1>1. CASE ~Apply
  BY <1>1, OnlyApplyFeeds, VersionGrows DEF KrakenIsVerified
<1>2. CASE Apply /\ IsEnd(Flight[1])
  BY <1>2, AppliedMessage DEF KrakenIsVerified
<1>3. CASE Apply /\ ~IsEnd(Flight[1])
  <2> SUFFICES ASSUME venue = Kraken, IsLive(book'), book'.hole PROVE FALSE
    BY VersionGrows, ApplyType, <1>3 DEF KrakenIsVerified, TypeOK, Books
  <2>1. venue # Bitstamp /\ sync \in Syncs /\ book \in Books
    BY DEF Kraken, Bitstamp, TypeOK
  <2>2. Flight[1] \in Frames /\ Flight[1].kind \in {"snapshot", "update", "other"}
    BY <1>3, <2>1, AppliedMessage
  <2>3. PICK crosses \in BOOLEAN : book' = Feed(Kraken, sync, book, Flight[1], crosses).book
    BY <1>3, AppliedMessage
  <2>4. book' = book
    BY <2>1, <2>2, <2>3, KrakenFed
  <2> QED BY <2>4 DEF KrakenIsVerified
<1> QED BY <1>1, <1>2, <1>3

\* What goes on in the channel does not let Coinbase's check pass what does not apply.
LEMMA CoinbaseHead ==
  ASSUME TypeOK, ConnectionIsKnown, MessagesAreKnown, SessionsStartWhole, ChainsHold,
         CoinbaseIsChecked, Next, ~Apply
  PROVE  CoinbaseIsChecked'
<1> SUFFICES ASSUME venue = Coinbase, NoneOf({"garble"})', spent'["evict"] <= 1, IsLive(book)
             PROVE  /\ ~book.hole /\ sync.expected >= 1
                    /\ Flight' # <<>> /\ ~IsEnd(Flight'[1]) =>
                          IF Flight'[1].kind = "snapshot" THEN spent'["evict"] = 1
                          ELSE /\ Flight'[1].seq >= sync.expected
                               /\ Flight'[1].seq = sync.expected => Before(Flight'[1]) = book.at
  BY OnlyApplyFeeds, VersionGrows DEF CoinbaseIsChecked
<1>0. /\ spent["evict"] \in Nat /\ spent'["evict"] \in Nat /\ spent'["evict"] >= spent["evict"]
      /\ NoneOf({"garble"}) /\ spent["evict"] <= 1 /\ venue # Bitstamp
      /\ sync.expected \in Int
  <2>1. /\ spent["evict"] \in Nat /\ spent'["evict"] \in Nat /\ spent'["evict"] >= spent["evict"]
        /\ spent["evict"] <= 1
    BY SpentGrows DEF Mishaps
  <2>2. NoneOf({"garble"})
    BY NoneOfBefore DEF Mishaps
  <2>3. venue # Bitstamp /\ sync.expected \in Int
    BY DEF Coinbase, Bitstamp, TypeOK, Syncs, Unset
  <2> QED BY <2>1, <2>2, <2>3
<1>1. /\ ~book.hole /\ sync.expected >= 1
      /\ Flight # <<>> /\ ~IsEnd(Flight[1]) =>
            IF Flight[1].kind = "snapshot" THEN spent["evict"] = 1
            ELSE /\ Flight[1].seq >= sync.expected
                 /\ Flight[1].seq = sync.expected => Before(Flight[1]) = book.at
  BY <1>0 DEF CoinbaseIsChecked
<1> SUFFICES ASSUME Flight' # <<>>, ~IsEnd(Flight'[1])
             PROVE  IF Flight'[1].kind = "snapshot" THEN spent'["evict"] = 1
                    ELSE /\ Flight'[1].seq >= sync.expected
                         /\ Flight'[1].seq = sync.expected => Before(Flight'[1]) = book.at
  BY <1>1
<1>2. CASE pc # "open" /\ queue = <<>> /\ Flight'[1].kind = "snapshot"
  <2>1. spent["evict"] # 0
    BY <1>2 DEF ConnectionIsKnown, NoneOf
  <2> QED BY <1>0, <1>2, <2>1
<1>3. CASE Flight # <<>> /\ Replaces(Flight[1], Flight'[1])
  BY <1>0, <1>1, <1>3 DEF Replaces
<1>4. CASE /\ Flight # <<>> /\ Flight[1].kind = "update" /\ Flight'[1].kind = "update"
           /\ Flight'[1].seq = Flight[1].seq + 1
  <2>1. Flight[1].seq \in Nat
    BY <1>4, FlightType DEF Messages, Frames, SessionEnded
  <2>2. Flight[1].seq >= sync.expected
    BY <1>1, <1>4 DEF IsEnd
  <2> QED BY <1>0, <1>4, <2>1, <2>2
<1>5. CASE /\ 2 \in DOMAIN Flight /\ Flight'[1] = Flight[2]
           /\ spent'["evict"] = spent["evict"] + 1
  <2>1. spent["evict"] = 0 /\ spent'["evict"] = 1
    BY <1>0, <1>5
  <2>2. CASE IsEnd(Flight[1])
    BY <1>0, <1>5, <2>1, <2>2, NextOfStream DEF IsEnd
  <2>3. CASE ~IsEnd(Flight[1])
    <3>1. Flight[1].kind # "snapshot" /\ Flight[1].seq >= sync.expected
      BY <1>1, <1>5, <2>1, <2>3
    <3>2. Flight[1].seq \in Nat /\ Flight[2].seq \in Nat /\ Flight[1].seq < Flight[2].seq
          /\ Flight[2].kind # "snapshot"
      <4>1. Flight[1] \in Messages
        BY <1>5, FlightType
      <4>2. Flight[1].seq \in Nat
        BY <2>3, <4>1 DEF Messages, Frames, SessionEnded, IsEnd
      <4> QED BY <1>0, <1>5, <2>3, <4>2, NextOfStream
    <3> QED BY <1>0, <1>5, <3>1, <3>2
  <2> QED BY <2>2, <2>3
<1> QED BY <1>0, <1>2, <1>3, <1>4, <1>5, HeadStep

\* Nor does the aggregator.
LEMMA CoinbaseApply ==
  ASSUME TypeOK, ConnectionIsKnown, MessagesAreKnown, SessionsStartWhole, ChainsHold,
         CoinbaseIsChecked, Apply
  PROVE  CoinbaseIsChecked'
<1> SUFFICES ASSUME venue = Coinbase, NoneOf({"garble"}), spent["evict"] <= 1, IsLive(book')
             PROVE  /\ ~book'.hole /\ sync'.expected >= 1
                    /\ Flight' # <<>> /\ ~IsEnd(Flight'[1]) =>
                          IF Flight'[1].kind = "snapshot" THEN spent["evict"] = 1
                          ELSE /\ Flight'[1].seq >= sync'.expected
                               /\ Flight'[1].seq = sync'.expected => Before(Flight'[1]) = book'.at
  BY AppliedMessage DEF CoinbaseIsChecked, NoneOf
<1> DEFINE m == Flight[1]
<1>0. venue # Bitstamp /\ sync \in Syncs /\ book \in Books
  BY DEF Coinbase, Bitstamp, TypeOK
<1>1. ~IsEnd(m) /\ m \in Frames /\ m.kind \in {"snapshot", "update", "other"} /\ m.seq \in Nat
      /\ Flight # <<>> /\ 1 \in DOMAIN Flight
  BY <1>0, AppliedMessage DEF Frames
<1>2. /\ m.form = "good" /\ m.kind = "snapshot" => m.seq = 0
  BY <1>1, FlightIsKnown DEF NoneOf
<1>3. PICK crosses \in BOOLEAN :
         /\ sync' = Feed(Coinbase, sync, book, m, crosses).sync
         /\ book' = Feed(Coinbase, sync, book, m, crosses).book
  BY <1>1, AppliedMessage
<1>4. /\ sync'.expected = m.seq + 1
      /\ book' = IF sync.expected # Unset /\ m.seq # sync.expected THEN MarkDesynced(book, "gap")
                 ELSE ApplyBookFrame(book, m, crosses)
  <2>1. m.form = "good"
    <3>1. Flight[1].form # "good" => spent["garble"] > 0
      BY <1>1, FlightIsKnown
    <3> QED BY <3>1 DEF NoneOf
  <2> HIDE DEF m
  <2> QED BY <1>0, <1>1, <1>3, <2>1, CoinbaseFed
<1>5. ~IsLive(MarkDesynced(book, "gap"))
  BY <1>0 DEF IsLive, MarkDesynced, Books
<1>6. /\ sync.expected = Unset \/ m.seq = sync.expected
      /\ book' = ApplyBookFrame(book, m, crosses)
  BY <1>4, <1>5
<1>7. ~book'.hole /\ book'.at = m.at
  <2>1. CASE m.kind = "snapshot"
    <3>1. book' = ApplySnapshot(m.at)
      BY <1>6, <2>1 DEF ApplyBookFrame
    <3> QED BY <3>1 DEF ApplySnapshot
  <2>2. CASE m.kind # "snapshot"
    <3>1. IsLive(book)
      <4> HIDE DEF m
      <4> QED BY <1>0, <1>1, <1>6, <2>2, FrameApplies
    <3>2. ~book.hole /\ sync.expected >= 1 /\ (m.seq = sync.expected => Before(m) = book.at)
      BY <1>1, <2>2, <3>1 DEF CoinbaseIsChecked
    <3>3. Before(m) = book.at
      BY <1>6, <3>2 DEF Unset
    <3> HIDE DEF m
    <3> QED BY <1>0, <1>1, <1>6, <2>2, <3>1, <3>2, <3>3, FrameApplies
  <2> QED BY <2>1, <2>2
<1>8. ASSUME Flight' # <<>>, ~IsEnd(Flight'[1])
      PROVE  /\ Flight'[1].kind # "snapshot" /\ Flight'[1].seq >= sync'.expected
             /\ Flight'[1].seq = sync'.expected => Before(Flight'[1]) = book'.at
  <2>1. 2 \in DOMAIN Flight /\ Flight'[1] = Flight[2]
    BY <1>8, AppliedMessage
  <2>2. /\ Flight[2].seq \in Nat /\ Flight[2].kind # "snapshot" /\ m.seq < Flight[2].seq
        /\ Flight[2].seq = m.seq + 1 => Before(Flight[2]) = m.at
    BY <1>0, <1>1, <1>8, <2>1, NextOfStream
  <2> HIDE DEF m
  <2> QED BY <1>1, <1>4, <1>7, <2>1, <2>2
<1>9. sync'.expected >= 1
  BY <1>1, <1>4
<1> QED BY <1>7, <1>8, <1>9

\* A snapshot finds a VenueSync that was reset, unless something was evicted.
LEMMA SnapshotStep ==
  ASSUME TypeOK, ConnectionIsKnown, MessagesAreKnown, SessionsStartWhole, ChainsHold,
         SnapshotsAreExpected, Next
  PROVE  SnapshotsAreExpected'
<1> SUFFICES ASSUME NoneOf({"evict"})', venue # Bitstamp,
                    Flight' # <<>>, Flight'[1].kind = "snapshot"
             PROVE  sync' = FreshSync
  BY VersionGrows DEF SnapshotsAreExpected
<1>0. NoneOf({"evict"}) /\ spent'["evict"] = 0 /\ spent["evict"] = 0
  BY NoneOfBefore DEF Mishaps, NoneOf
<1>2. CASE Apply
  <2>1. 2 \in DOMAIN Flight /\ Flight'[1] = Flight[2]
    BY <1>2, AppliedMessage
  <2>2. IsEnd(Flight[1])
    BY <2>1, NextOfStream DEF IsEnd
  <2> QED BY <1>2, <2>2, AppliedMessage
<1>3. CASE ~Apply
  <2>1. sync' = sync
    BY <1>3, OnlyApplyFeeds
  <2>2. \/ pc # "open" /\ queue = <<>>
        \/ Flight # <<>> /\ Replaces(Flight[1], Flight'[1])
    <3>1. ~(Flight'[1].kind = "update") /\ ~IsEnd(Flight'[1])
      BY DEF IsEnd
    <3>2. spent'["evict"] # spent["evict"] + 1
      BY <1>0
    <3> QED BY <1>3, <3>1, <3>2, HeadStep
  <2>3. CASE pc # "open" /\ queue = <<>>
    BY <1>0, <2>1, <2>3 DEF ConnectionIsKnown
  <2>4. CASE Flight # <<>> /\ Replaces(Flight[1], Flight'[1])
    BY <1>0, <2>1, <2>4 DEF Replaces, SnapshotsAreExpected
  <2> QED BY <2>2, <2>3, <2>4
<1> QED BY <1>2, <1>3

\* While nothing is lost, Coinbase's and Kraken's checks let every frame pass.
LEMMA StreamFed ==
  ASSUME TypeOK, ConnectionIsKnown, MessagesAreKnown, SnapshotsAreExpected, StreamContinues,
         NothingLost, venue # Bitstamp, Apply, ~IsEnd(Flight[1])
  PROVE  /\ venue = Coinbase => sync'.expected = Flight[1].seq + 1
         /\ IsLive(book') => ~book'.hole /\ book'.at = Flight[1].at
         /\ IsLive(book') \/ book' = book
         /\ Flight[1].kind = "snapshot" \/ IsLive(book) => IsLive(book')
<1> DEFINE m == Flight[1]
<1>1. m \in Frames /\ m.kind \in {"snapshot", "update", "other"} /\ Flight # <<>> /\ 1 \in DOMAIN Flight
  BY AppliedMessage
<1>2. m.form = "good" /\ NoneOf({"evict"})
  BY <1>1, FlightIsKnown DEF NothingLost, NoneOf
<1>3. PICK crosses \in BOOLEAN :
         /\ sync' = Feed(venue, sync, book, m, crosses).sync
         /\ book' = Feed(venue, sync, book, m, crosses).book
  BY AppliedMessage
<1>4. sync \in Syncs /\ book \in Books /\ venue \in {Coinbase, Kraken}
  BY RecoveryAssumption DEF TypeOK
<1>5. m.kind = "snapshot" => sync.expected = Unset
  BY <1>1, <1>2 DEF SnapshotsAreExpected, FreshSync
<1>6. m.kind # "snapshot" =>
         /\ venue = Coinbase => sync.expected \in {Unset, m.seq}
         /\ IsLive(book) => ~book.hole /\ Before(m) = book.at
  BY <1>1 DEF StreamContinues
<1> HIDE DEF m
<1>7. LET b == ApplyBookFrame(book, m, crosses)
      IN  /\ IsLive(b) => ~b.hole /\ b.at = m.at
          /\ IsLive(b) \/ b = book
          /\ m.kind = "snapshot" \/ IsLive(book) => IsLive(b)
  <2>1. CASE m.kind = "snapshot"
    <3>1. ApplyBookFrame(book, m, crosses) = ApplySnapshot(m.at)
      BY <2>1 DEF ApplyBookFrame
    <3>2. IsLive(ApplySnapshot(m.at)) /\ ~ApplySnapshot(m.at).hole /\ ApplySnapshot(m.at).at = m.at
      BY DEF ApplySnapshot, IsLive
    <3> QED BY <3>1, <3>2
  <2>2. CASE m.kind # "snapshot" /\ IsLive(book)
    BY <1>1, <1>4, <1>6, <2>2, FrameApplies
  <2>3. CASE m.kind # "snapshot" /\ ~IsLive(book)
    BY <1>1, <1>4, <2>3, FrameApplies
  <2> QED BY <2>1, <2>2, <2>3
<1>8. CASE venue = Coinbase
  <2>1. /\ sync'.expected = m.seq + 1
        /\ book' = IF sync.expected # Unset /\ m.seq # sync.expected THEN MarkDesynced(book, "gap")
                   ELSE ApplyBookFrame(book, m, crosses)
    BY <1>1, <1>2, <1>3, <1>4, <1>8, CoinbaseFed
  <2>2. book' = ApplyBookFrame(book, m, crosses)
    BY <1>5, <1>6, <1>8, <2>1
  <2> QED BY <1>7, <2>1, <2>2 DEF m
<1>9. CASE venue = Kraken
  <2>1. book' = ApplyBookFrame(book, m, crosses)
    BY <1>1, <1>2, <1>3, <1>4, <1>7, <1>9, KrakenFed
  <2>2. venue # Coinbase
    BY <1>9 DEF Coinbase, Kraken
  <2> QED BY <1>7, <2>1, <2>2 DEF m
<1> QED BY <1>4, <1>8, <1>9

\* While nothing is lost each frame continues where the book is.
LEMMA StreamStep ==
  ASSUME TypeOK, ConnectionIsKnown, MessagesAreKnown, SessionsStartWhole, ChainsHold,
         SnapshotsAreExpected, StreamContinues, Next
  PROVE  StreamContinues'
<1> SUFFICES ASSUME NothingLost', venue # Bitstamp
             PROVE  /\ IsLive(book') => ~book'.hole
                    /\ Flight' # <<>> /\ ~IsEnd(Flight'[1]) /\ Flight'[1].kind # "snapshot" =>
                          /\ venue = Coinbase => sync'.expected \in {Unset, Flight'[1].seq}
                          /\ IsLive(book') => Before(Flight'[1]) = book'.at
  BY VersionGrows DEF StreamContinues
<1>1. /\ NothingLost /\ NoneOf({"skip"}) /\ spent'["evict"] = 0 /\ spent["evict"] = 0
      /\ spent'["skip"] = 0
  <2>1. NothingLost
    BY NoneOfBefore DEF NothingLost, Mishaps
  <2> QED BY <2>1 DEF NothingLost, NoneOf
<1>2. CASE ~Apply
  <2>1. sync' = sync /\ book' = book
    BY <1>2, OnlyApplyFeeds
  <2>2. Flight' # <<>> /\ ~IsEnd(Flight'[1]) /\ Flight'[1].kind # "snapshot" =>
           Flight # <<>> /\ Replaces(Flight[1], Flight'[1])
    <3>1. spent'["evict"] # spent["evict"] + 1 /\ ~(spent'["skip"] > 0)
      BY <1>1
    <3> QED BY <1>2, <3>1, HeadStep
  <2> QED BY <1>1, <2>1, <2>2 DEF Replaces, StreamContinues
<1>3. CASE Apply /\ IsEnd(Flight[1])
  <2>1. ~IsLive(book')
    BY <1>3, AppliedMessage
  <2>2. Flight' # <<>> => IsEnd(Flight'[1]) \/ Flight'[1].kind = "snapshot"
    BY <1>3, AppliedMessage, NextOfStream DEF IsEnd
  <2> QED BY <2>1, <2>2
<1>4. CASE Apply /\ ~IsEnd(Flight[1])
  <2>1. /\ venue = Coinbase => sync'.expected = Flight[1].seq + 1
        /\ IsLive(book') => ~book'.hole /\ book'.at = Flight[1].at
    BY <1>1, <1>4, StreamFed
  <2>2. ASSUME Flight' # <<>>, ~IsEnd(Flight'[1])
        PROVE  Flight'[1].seq = Flight[1].seq + 1 /\ Before(Flight'[1]) = Flight[1].at
    BY <1>1, <1>4, <2>2, AppliedMessage, NextOfStream
  <2> QED BY <2>1, <2>2
<1> QED BY <1>2, <1>3, <1>4

\* No check of Coinbase or Kraken fails a book while nothing is lost.
LEMMA StreamAlarms ==
  ASSUME TypeOK, ConnectionIsKnown, MessagesAreKnown, SnapshotsAreExpected, StreamContinues,
         NoFalseAlarm, venue # Bitstamp, Next
  PROVE  NoFalseAlarm'
<1>1. (NothingLost)' => NothingLost
  BY NoneOfBefore DEF NothingLost, Mishaps
<1>2. CASE ~Apply
  BY <1>1, <1>2, OnlyApplyFeeds DEF NoFalseAlarm
<1>3. CASE Apply /\ IsEnd(Flight[1])
  <2>1. book'.reason = "connection_lost"
    BY <1>3, AppliedMessage DEF MarkDesynced, TypeOK, Books
  <2> QED BY <2>1 DEF NoFalseAlarm
<1>4. CASE Apply /\ ~IsEnd(Flight[1])
  <2>1. NothingLost => IsLive(book') \/ book' = book
    BY <1>4, StreamFed
  <2> QED BY <1>1, <2>1 DEF NoFalseAlarm, IsLive, IsDesynced
<1> QED BY <1>2, <1>3, <1>4

\* What is on its way stays so while nothing is evicted.
LEMMA OnItsWay ==
  ASSUME TypeOK, NoneOf({"evict"})', Next, ~Apply, NEW kinds
  PROVE  /\ HasAny(queue, kinds) => HasAny(queue', kinds)
         /\ HasAny(wire, kinds) /\ pc = "open" =>
               HasAny(wire', kinds) \/ HasAny(queue', kinds) \/ pc' # "open"
<1>0. /\ queue \in Seq(Messages) /\ wire \in Seq(Messages) /\ spent["evict"] \in Nat
      /\ spent'["evict"] = 0
  BY FlightType, RecoveryAssumption DEF TypeOK, NoneOf, Mishaps
<1>1. ASSUME NEW s \in Seq(Messages), NEW m
      PROVE  /\ HasAny(s, kinds) => HasAny(Append(s, m), kinds)
             /\ s # <<>> /\ HasAny(s, kinds) => HasAny(Tail(s), kinds) \/ HasAny(Append(queue, Head(s)), kinds)
  <2>1. HasAny(s, kinds) => HasAny(Append(s, m), kinds)
    <3> SUFFICES ASSUME NEW i \in DOMAIN s, s[i].kind \in kinds
                 PROVE  i \in DOMAIN Append(s, m) /\ Append(s, m)[i] = s[i]
      BY DEF HasAny
    <3> QED OBVIOUS
  <2>2. ASSUME s # <<>>, NEW i \in DOMAIN s, s[i].kind \in kinds
        PROVE  HasAny(Tail(s), kinds) \/ HasAny(Append(queue, Head(s)), kinds)
    <3>1. CASE i = 1
      <4>1. /\ Len(queue) + 1 \in DOMAIN Append(queue, Head(s))
            /\ Append(queue, Head(s))[Len(queue) + 1] = s[1]
        BY <1>0, <2>2
      <4> QED BY <2>2, <3>1, <4>1 DEF HasAny
    <3>2. CASE i # 1
      <4>1. i - 1 \in DOMAIN Tail(s) /\ Tail(s)[i - 1] = s[i]
        BY <2>2, <3>2, TailIndices
      <4> QED BY <2>2, <4>1 DEF HasAny
    <3> QED BY <3>1, <3>2
  <2> QED BY <2>1, <2>2 DEF HasAny
<1>2. ASSUME NEW m, NEW mishaps, Publish(m, mishaps) PROVE queue' = Append(queue, m)
  <2>1. ~Full
    BY <1>0, <1>2 DEF Publish, Spending, Mishaps
  <2> QED BY <1>2, <2>1 DEF Publish, Pushed
<1>3. CASE EvictedByOthers
  BY <1>0, <1>3 DEF EvictedByOthers, Spending, Mishaps
<1>4. CASE VenueUpdates \/ VenueChatters \/ SubscriptionTakesEffect \/ RestAnswered \/ BackoffEnds
  <2>1. queue' = queue /\ (wire' = wire \/ \E f : wire' = Append(wire, f))
    BY <1>4 DEF VenueUpdates, VenueChatters, SubscriptionTakesEffect, RestAnswered, BackoffEnds
  <2> QED BY <1>0, <1>1, <2>1
<1>5. CASE Connect
  BY <1>5 DEF Connect
<1>6. CASE SessionBreaks \/ HearResync
  <2>1. queue' = Append(queue, SessionEnded) /\ pc' # "open"
    BY <1>2, <1>6 DEF SessionBreaks, HearResync, EndSession
  <2> QED BY <1>0, <1>1, <2>1
<1>7. CASE RestLands
  <2>1. \E m : queue' = Append(queue, m) /\ wire' = wire
    BY <1>2, <1>7 DEF RestLands
  <2> QED BY <1>0, <1>1, <2>1
<1>8. CASE Receive
  <2>1. queue' = Append(queue, Head(wire)) /\ wire' = Tail(wire) /\ wire # <<>>
    BY <1>2, <1>8 DEF Receive
  <2> QED BY <1>0, <1>1, <2>1
<1> QED BY <1>3, <1>4, <1>5, <1>6, <1>7, <1>8 DEF Next

\* A live book of Coinbase or Kraken that stops being live is blamed on the data.
LEMMA LiveOrBlamed ==
  ASSUME NEW v \in {Coinbase, Kraken}, NEW s \in Syncs, NEW b \in Books, IsLive(b),
         NEW m \in Frames, m.kind \in {"update", "other"}, NEW crosses \in BOOLEAN
  PROVE  LET c == Feed(v, s, b, m, crosses).book
         IN  IsLive(c) \/ (IsDesynced(c) /\ c.reason \in {"gap", "checksum", "crossed"})
<1>1. \A c \in Books : \A why \in DesyncReasons :
         IsDesynced(MarkDesynced(c, why)) /\ MarkDesynced(c, why).reason = why
  BY DEF MarkDesynced, IsDesynced, Books
<1> DEFINE moved == [b EXCEPT !.at = m.at, !.hole = @ \/ m.at # b.at + 1]
           a == ApplyBookFrame(b, m, crosses)
<1>2. moved \in Books /\ IsLive(moved)
  <2>1. m.at \in Nat
    BY DEF Frames
  <2> QED BY <2>1 DEF Books, IsLive
<1>3. a \in {b, moved, MarkDesynced(moved, "crossed")}
  <2> HIDE DEF moved
  <2> QED BY DEF ApplyBookFrame, ApplyDelta, GuardCrossed, moved
<1> HIDE DEF moved
<1>4. a \in Books /\ (IsLive(a) \/ (IsDesynced(a) /\ a.reason = "crossed"))
  <2>1. MarkDesynced(moved, "crossed") \in Books
        /\ IsDesynced(MarkDesynced(moved, "crossed")) /\ MarkDesynced(moved, "crossed").reason = "crossed"
    <3>1. MarkDesynced(moved, "crossed") \in Books
      BY <1>2 DEF MarkDesynced, Books, DesyncReasons
    <3> QED BY <1>1, <1>2, <3>1 DEF DesyncReasons
  <2> HIDE DEF a
  <2>2. CASE a = b
    BY <2>2
  <2>3. CASE a = moved
    BY <1>2, <2>3
  <2>4. CASE a = MarkDesynced(moved, "crossed")
    BY <2>1, <2>4
  <2> QED BY <1>3, <2>2, <2>3, <2>4
<1>5. CASE v = Coinbase
  <2>1. Feed(v, s, b, m, crosses) = CoinbaseFeed(s, b, m, crosses)
    BY <1>5 DEF Feed, Coinbase, Kraken, Bitstamp
  <2>2. CoinbaseFeed(s, b, m, crosses).book \in {b, MarkDesynced(b, "gap"), a}
    <3> HIDE DEF a
    <3> QED BY DEF CoinbaseFeed, a
  <2>3. IsDesynced(MarkDesynced(b, "gap")) /\ MarkDesynced(b, "gap").reason = "gap"
    BY <1>1 DEF DesyncReasons
  <2> HIDE DEF a
  <2> DEFINE c == CoinbaseFeed(s, b, m, crosses).book
  <2>4. CASE c = b
    BY <2>1, <2>4
  <2>5. CASE c = a
    BY <1>4, <2>1, <2>5
  <2>6. CASE c = MarkDesynced(b, "gap")
    BY <2>1, <2>3, <2>6
  <2> QED BY <2>2, <2>4, <2>5, <2>6
<1>6. CASE v = Kraken
  <2>1. Feed(v, s, b, m, crosses) = KrakenFeed(s, b, m, crosses)
    BY <1>6 DEF Feed, Coinbase, Kraken, Bitstamp
  <2>2. KrakenFeed(s, b, m, crosses).book \in {b, a, MarkDesynced(a, "checksum")}
    <3> HIDE DEF a
    <3> QED BY DEF KrakenFeed, Verify, a
  <2>3. IsDesynced(MarkDesynced(a, "checksum")) /\ MarkDesynced(a, "checksum").reason = "checksum"
    <3> HIDE DEF a
    <3> QED BY <1>1, <1>4 DEF DesyncReasons
  <2> HIDE DEF a
  <2> DEFINE c == KrakenFeed(s, b, m, crosses).book
  <2>4. CASE c = b
    BY <2>1, <2>4
  <2>5. CASE c = a
    BY <1>4, <2>1, <2>5
  <2>6. CASE c = MarkDesynced(a, "checksum")
    BY <2>1, <2>3, <2>6
  <2> QED BY <2>2, <2>4, <2>5, <2>6
<1> QED BY <1>5, <1>6

\* A session of Coinbase or Kraken that the book is not live in ends.
LEMMA FixedStep ==
  ASSUME TypeOK, ConnectionIsKnown, MessagesAreKnown, SessionsStartWhole, SnapshotsAreExpected,
         StreamIsFixed, Next
  PROVE  StreamIsFixed'
<1> SUFFICES ASSUME NoneOf({"evict"})', venue # Bitstamp PROVE SomeoneIsFixingIt'
  BY VersionGrows DEF StreamIsFixed
<1>0. /\ NoneOf({"evict"}) /\ queue \in Seq(Messages) /\ wire \in Seq(Messages)
      /\ SomeoneIsFixingIt
  BY FlightType, NoneOfBefore DEF Mishaps, StreamIsFixed
<1>1. CASE ~Apply
  <2>1. sync' = sync /\ book' = book /\ (wanted => wanted' \/ pc' # "open") /\ rest = "idle"
    BY <1>1, OnlyApplyFeeds DEF ConnectionIsKnown
  <2>2. CASE IsLive(book) \/ wanted
    BY <2>1, <2>2 DEF SomeoneIsFixingIt
  <2>3. CASE HasAny(queue, {"snapshot", "rest", "ended"})
    BY <1>1, <2>3, OnItsWay DEF SomeoneIsFixingIt
  <2>4. CASE pc = "open" /\ HasAny(wire, {"snapshot"})
    <3>1. HasAny(wire', {"snapshot"}) \/ HasAny(queue', {"snapshot"}) \/ pc' # "open"
      BY <1>1, <2>4, OnItsWay
    <3> QED BY <3>1 DEF SomeoneIsFixingIt, HasAny
  <2>5. CASE pc # "open"
    <3>1. CASE ~Connect
      <4>1. pc' # "open"
        BY <1>1, <2>5, <3>1 DEF Next, EvictedByOthers, VenueUpdates, VenueChatters,
           SubscriptionTakesEffect, RestAnswered, SessionBreaks, HearResync, EndSession, RestLands,
           Receive, BackoffEnds, connection
      <4> QED BY <4>1 DEF SomeoneIsFixingIt
    <3>2. CASE Connect
      <4> DEFINE first == Frame("snapshot", 0, version, "good")
      <4>1. wire' = <<first>>
        BY <3>2 DEF Connect
      <4>2. first.kind = "snapshot"
        BY DEF Frame
      <4> HIDE DEF first
      <4>3. 1 \in DOMAIN wire' /\ wire'[1].kind = "snapshot"
        BY <4>1, <4>2
      <4> QED BY <4>3 DEF HasAny, SomeoneIsFixingIt
    <3> QED BY <3>1, <3>2
  <2> QED BY <1>0, <2>1, <2>2, <2>3, <2>4, <2>5 DEF SomeoneIsFixingIt
<1>2. CASE Apply /\ IsEnd(Flight[1])
  <2>1. SUFFICES ASSUME pc = "open" PROVE SomeoneIsFixingIt'
    BY <1>2 DEF SomeoneIsFixingIt, Apply, connection
  <2>2. queue # <<>> /\ queue' = Tail(queue) /\ UNCHANGED <<pc, wire, sent, version>>
    BY <1>2 DEF Apply, connection
  <2>3. Flight' = Tail(queue) \o (wire \o Coming)
    <3>1. Tail(queue) \in Seq(Messages) /\ Coming' = Coming
      BY <1>0, <2>2 DEF Coming
    <3> QED BY <1>0, <2>2, <3>1, FlightType, ConcatAssociates, SMTT(90) DEF Flight
  <2> DEFINE c == Frame("update", sent, version + 1, "good")
  <2>4. Coming = <<c>> /\ c.kind = "update" /\ c \in Messages
    <3>1. c \in Messages
      BY FrameType, RecoveryAssumption DEF TypeOK, Messages
    <3> QED BY <2>1, <3>1 DEF Coming, Frame
  <2> HIDE DEF c
  <2>5. Flight'[1].kind \in {"snapshot", "ended"}
    <3>1. Flight' # <<>>
      BY <1>0, <2>2, <2>3, <2>4
    <3>2. 2 \in DOMAIN Flight /\ Flight'[1] = Flight[2] /\ 1 \in DOMAIN Flight
      BY <1>2, <3>1, AppliedMessage
    <3>3. 1 + 1 = 2
      OBVIOUS
    <3> QED BY <1>2, <3>2, <3>3 DEF SessionsStartWhole
  <2>6. \/ queue' # <<>> /\ queue'[1] = Flight'[1]
        \/ wire # <<>> /\ wire[1] = Flight'[1]
        \/ c = Flight'[1]
    <3>1. wire \o Coming \in Seq(Messages) /\ Coming \in Seq(Messages) /\ Tail(queue) \in Seq(Messages)
      BY <1>0, <2>2, FlightType
    <3>2. Flight'[1] = IF Tail(queue) # <<>> THEN Tail(queue)[1] ELSE (wire \o Coming)[1]
      BY <2>3, <3>1, ConcatFirst
    <3>3. (wire \o Coming)[1] = IF wire # <<>> THEN wire[1] ELSE Coming[1]
      <4>1. wire \in Seq(Messages) /\ Coming \in Seq(Messages)
        BY FlightType
      <4> QED BY <4>1, ConcatFirst
    <3>4. Coming[1] = c
      BY <2>4
    <3> QED BY <2>2, <3>2, <3>3, <3>4
  <2>7. CASE queue' # <<>> /\ queue'[1] = Flight'[1]
    <3>1. 1 \in DOMAIN queue'
      BY <1>0, <2>2, <2>7
    <3> QED BY <2>5, <2>7, <3>1 DEF HasAny, SomeoneIsFixingIt
  <2>8. CASE wire # <<>> /\ wire[1] = Flight'[1]
    <3>1. 1 \in DOMAIN wire' /\ wire'[1] = Flight'[1] /\ wire[1] \in Frames
      BY <1>0, <2>2, <2>8 DEF TypeOK
    <3>2. wire'[1].kind = "snapshot"
      BY <2>2, <2>5, <2>8, <3>1 DEF Frames
    <3> QED BY <3>1, <3>2 DEF HasAny, SomeoneIsFixingIt
  <2> QED BY <2>4, <2>5, <2>6, <2>7, <2>8
<1>3. CASE Apply /\ ~IsEnd(Flight[1])
  <2> DEFINE m == Flight[1]
  <2>1. m \in Frames /\ m.kind \in {"snapshot", "update", "other"} /\ Flight # <<>> /\ 1 \in DOMAIN Flight
    BY <1>3, AppliedMessage
  <2>2. SUFFICES ASSUME pc = "open", ~IsLive(book'), ~wanted' PROVE SomeoneIsFixingIt'
    BY <1>3 DEF SomeoneIsFixingIt, Apply, connection
  <2>3. /\ queue # <<>> /\ queue' = Tail(queue) /\ UNCHANGED <<pc, wire>> /\ Head(queue) = m
        /\ wanted' = (wanted \/ RequestsResync(book, book'))
    <3>1. Head(queue) = Head(Flight) /\ Flight \in Seq(Messages)
      BY <1>3, TailFlight, FlightType DEF Apply, connection
    <3> QED BY <1>3, <2>1, <3>1 DEF Apply, connection
  <2>4. ~wanted /\ ~RequestsResync(book, book')
    BY <2>2, <2>3
  <2>5. PICK crosses \in BOOLEAN :
           book' = Feed(venue, sync, book, m, crosses).book
    BY <1>3, AppliedMessage
  <2>6. sync \in Syncs /\ book \in Books /\ venue \in {Coinbase, Kraken}
    BY RecoveryAssumption DEF TypeOK
  <2>7. m.kind = "snapshot" => m.form = "good" /\ sync.expected = Unset
    <3>1. m.kind = "snapshot" => m.form = "good"
      BY <1>3, <2>1, FlightIsKnown
    <3>2. m.kind = "snapshot" => sync.expected = Unset
      BY <1>0, <2>1 DEF SnapshotsAreExpected, FreshSync
    <3> QED BY <3>1, <3>2
  <2> HIDE DEF m
  <2>8. m.kind # "snapshot"
    <3> SUFFICES ASSUME m.kind = "snapshot" PROVE FALSE
      OBVIOUS
    <3>1. ApplyBookFrame(book, m, crosses) = ApplySnapshot(m.at)
      BY DEF ApplyBookFrame
    <3>2. IsLive(ApplySnapshot(m.at)) /\ ~ApplySnapshot(m.at).hole
      BY DEF IsLive, ApplySnapshot
    <3>3. venue = Coinbase => book' = ApplySnapshot(m.at)
      BY <2>1, <2>5, <2>6, <2>7, <3>1, CoinbaseFed
    <3>4. venue = Kraken => book' = ApplySnapshot(m.at)
      BY <2>1, <2>5, <2>6, <2>7, <3>1, <3>2, KrakenFed
    <3> QED BY <2>2, <2>6, <3>2, <3>3, <3>4
  <2>9. ~IsLive(book)
    <3>1. IsLive(book) => IsDesynced(book') /\ book'.reason \in {"gap", "checksum", "crossed"}
      BY <2>1, <2>2, <2>5, <2>6, <2>8, LiveOrBlamed
    <3> QED BY <2>4, <3>1 DEF RequestsResync, NeedsFreshStream, IsLive, IsDesynced
  <2>10. HasAny(wire, {"snapshot"}) \/ HasAny(queue, {"snapshot", "rest", "ended"})
    BY <1>0, <2>2, <2>4, <2>9, <2>3 DEF SomeoneIsFixingIt, ConnectionIsKnown
  <2>11. CASE HasAny(wire, {"snapshot"})
    BY <2>3, <2>11 DEF SomeoneIsFixingIt
  <2>12. ASSUME NEW i \in DOMAIN queue, queue[i].kind \in {"snapshot", "rest", "ended"}
         PROVE  HasAny(queue', {"snapshot", "rest", "ended"})
    <3>1. i # 1
      <4>1. queue[1] = m
        BY <1>0, <2>3
      <4> QED BY <2>1, <2>8, <2>12, <4>1
    <3>2. i - 1 \in DOMAIN Tail(queue) /\ Tail(queue)[i - 1] = queue[i]
      BY <1>0, <2>3, <3>1, TailIndices
    <3> QED BY <2>3, <2>12, <3>2 DEF HasAny
  <2> QED BY <2>10, <2>11, <2>12 DEF HasAny, SomeoneIsFixingIt
<1> QED BY <1>1, <1>2, <1>3

-------------------------------------------------------------------------------
(* Bitstamp: what each change of the flight leaves sound.                    *)

\* A flight is sound as long as its beginning is, if nothing that counts comes after it.
LEMMA SoundPrefix ==
  ASSUME NEW F \in Seq(Messages), NEW G \in Seq(Messages), NEW n \in Nat, n <= Len(F), n <= Len(G),
         \A k \in 1..n : /\ IsStream(F[k]) <=> IsStream(G[k])
                         /\ IsEnd(F[k]) <=> IsEnd(G[k])
                         /\ IsRest(F[k]) <=> IsRest(G[k])
                         /\ Before(G[k]) = Before(F[k])
                         /\ IsRest(F[k]) => G[k] = F[k]
  PROVE  /\ \A k \in 1..n : k \in DOMAIN F /\ k \in DOMAIN G
         /\ \A i, j \in 1..n :
               /\ IsFirst(F, j) <=> IsFirst(G, j)
               /\ SameSession(F, i, j) <=> SameSession(G, i, j)
               /\ InHeadSession(F, j) <=> InHeadSession(G, j)
         /\ \A P : \A at : \A j \in 1..n : Reaches(F, P, at, j) <=> Reaches(G, P, at, j)
<1>1. \A k \in 1..n : k \in DOMAIN F /\ k \in DOMAIN G
  OBVIOUS
<1>2. \A i, j \in 1..n :
               /\ IsFirst(F, j) <=> IsFirst(G, j)
               /\ SameSession(F, i, j) <=> SameSession(G, i, j)
               /\ InHeadSession(F, j) <=> InHeadSession(G, j)
  BY SamePrefix
<1>3. ASSUME NEW P, NEW at, NEW j \in 1..n PROVE Reaches(F, P, at, j) <=> Reaches(G, P, at, j)
  BY <1>2 DEF Reaches
<1> QED BY <1>1, <1>2, <1>3

\* The venue sends a frame, and would send another one next.
LEMMA SoundSend ==
  ASSUME NEW q \in Seq(Messages), NEW c \in Messages, NEW m \in Messages, NEW next \in Messages,
         IsStream(c), IsStream(m), IsStream(next), Before(m) = Before(c),
         NEW s, NEW b, NEW isOpen, NEW fetch, NEW answer,
         Sound(Append(q, c), s, b, isOpen, fetch, answer)
  PROVE  Sound(Append(Append(q, m), next), s, b, isOpen, fetch, answer)
<1> DEFINE F == Append(q, c)
           G == Append(Append(q, m), next)
           n == Len(q) + 1
           P == s.pending
<1>1. /\ F \in Seq(Messages) /\ G \in Seq(Messages) /\ Len(q) \in Nat /\ n \in Nat
      /\ DOMAIN F = 1..n /\ DOMAIN G = 1 .. n + 1 /\ Len(F) = n /\ Len(G) = n + 1 /\ n >= 1
      /\ \A k \in 1..Len(q) : F[k] = q[k] /\ G[k] = q[k]
      /\ F[n] = c /\ G[n] = m /\ G[n + 1] = next
  OBVIOUS
<1>2. Sound(F, s, b, isOpen, fetch, answer)
  OBVIOUS
<1> HIDE DEF F, G, n
<1>3. ~IsEnd(c) /\ ~IsEnd(m) /\ ~IsEnd(next) /\ ~IsRest(c) /\ ~IsRest(m) /\ ~IsRest(next)
  BY DEF IsEnd, IsRest, IsStream
<1>4. \A k \in 1..n : k \in 1..Len(q) \/ k = n
  BY <1>1 DEF n
<1>5. \A k \in 1..n : /\ IsStream(F[k]) <=> IsStream(G[k])
                      /\ IsEnd(F[k]) <=> IsEnd(G[k])
                      /\ IsRest(F[k]) <=> IsRest(G[k])
                      /\ Before(G[k]) = Before(F[k])
                      /\ IsRest(F[k]) => G[k] = F[k]
  BY <1>1, <1>3, <1>4
<1>6. /\ \A i, j \in 1..n :
               /\ IsFirst(F, j) <=> IsFirst(G, j)
               /\ SameSession(F, i, j) <=> SameSession(G, i, j)
               /\ InHeadSession(F, j) <=> InHeadSession(G, j)
      /\ \A at : \A j \in 1..n : Reaches(F, P, at, j) <=> Reaches(G, P, at, j)
  BY <1>1, <1>5, SoundPrefix, SMTT(90)
<1>7. \A j \in DOMAIN G : j \in 1..n \/ (j = n + 1 /\ ~IsFirst(G, j) /\ ~IsRest(G[j]) /\ ~IsEnd(G[j]))
  <2>1. \A j \in DOMAIN G : j \in 1..n \/ j = n + 1
    BY <1>1
  <2>2. ~IsFirst(G, n + 1)
    <3>1. n \in DOMAIN G /\ n < n + 1 /\ IsStream(G[n])
      BY <1>1
    <3>2. \A e \in DOMAIN G : ~(n < e /\ e < n + 1)
      BY <1>1
    <3>3. n + 1 \in DOMAIN G
      BY <1>1
    <3> QED BY <3>1, <3>2, <3>3 DEF IsFirst
  <2> QED BY <1>1, <1>3, <2>1, <2>2
<1>8. \A j \in 1..n : InLastSession(F, j) <=> InLastSession(G, j)
  <2> TAKE j \in 1..n
  <2>1. ASSUME InLastSession(F, j), NEW e \in DOMAIN G, j < e PROVE ~IsEnd(G[e])
    BY <1>1, <1>5, <1>7, <2>1 DEF InLastSession
  <2>2. ASSUME InLastSession(G, j), NEW e \in DOMAIN F, j < e PROVE ~IsEnd(F[e])
    <3>1. e \in DOMAIN G /\ e \in 1..n
      BY <1>1
    <3> QED BY <1>5, <2>2, <3>1 DEF InLastSession
  <2> QED BY <2>1, <2>2 DEF InLastSession
<1>9. \A j \in 1..n : j \in DOMAIN F /\ j \in DOMAIN G
  BY <1>1
<1>10. /\ HasAny(F, {"ended"}) <=> HasAny(G, {"ended"})
       /\ HasAny(F, {"ended", "rest"}) <=> HasAny(G, {"ended", "rest"})
  <2>1. \A H : /\ HasAny(H, {"ended"}) <=> \E i \in DOMAIN H : IsEnd(H[i])
               /\ HasAny(H, {"ended", "rest"}) <=> \E i \in DOMAIN H : IsEnd(H[i]) \/ IsRest(H[i])
    BY DEF HasAny, IsEnd, IsRest
  <2> QED BY <1>1, <1>5, <1>7, <1>9, <2>1
<1>11. PendingIsARun(G, P)
  BY <1>2, <1>5, <1>6, <1>7, <1>9 DEF Sound, PendingIsARun
<1>12. SpliceIsSound(G, s, b)
  BY <1>2, <1>5, <1>6, <1>7, <1>9 DEF Sound, SpliceIsSound
<1>13. RestComesOnce(G, fetch, s.mode)
  BY <1>2, <1>5, <1>6, <1>7, <1>8, <1>9, <1>10 DEF Sound, RestComesOnce
<1>14. RestIsReached(G, P, fetch, answer)
  BY <1>2, <1>5, <1>6, <1>7, <1>8, <1>9, <1>10 DEF Sound, RestIsReached
<1>15. RestIsUnderWay(G, isOpen, fetch, s.mode)
  <2>1. ASSUME isOpen, fetch = "idle", NEW e \in DOMAIN G, IsEnd(G[e])
        PROVE  \E r \in DOMAIN G : e < r /\ IsRest(G[r])
    <3>1. e \in 1..n /\ e \in DOMAIN F /\ IsEnd(F[e])
      BY <1>5, <1>7, <1>9, <2>1
    <3>2. PICK r \in DOMAIN F : e < r /\ IsRest(F[r])
      BY <1>2, <2>1, <3>1 DEF Sound, RestIsUnderWay
    <3>3. r \in DOMAIN G /\ IsRest(G[r])
      BY <1>1, <1>5, <1>9, <3>2
    <3> QED BY <3>2, <3>3
  <2> QED BY <1>2, <1>10, <2>1 DEF Sound, RestIsUnderWay
<1> QED BY <1>11, <1>12, <1>13, <1>14, <1>15 DEF Sound, G

\* A session ends: what was on its way to the ingest task is gone.
LEMMA SoundEnd ==
  ASSUME NEW F \in Seq(Messages), NEW q \in Seq(Messages), Len(q) <= Len(F),
         \A k \in 1..Len(q) : F[k] = q[k], NEW m \in Messages, IsEnd(m),
         NEW s, NEW b, NEW isOpen, NEW fetch, NEW answer, NEW other,
         Sound(F, s, b, isOpen, fetch, answer)
  PROVE  Sound(Append(q, m), s, b, FALSE, "idle", other)
<1> DEFINE G == Append(q, m)
           n == Len(q)
           P == s.pending
<1>1. /\ F \in Seq(Messages) /\ G \in Seq(Messages) /\ n \in Nat /\ Len(G) = n + 1
      /\ DOMAIN G = 1 .. n + 1 /\ n <= Len(F) /\ n <= Len(G)
      /\ \A k \in 1..n : F[k] = G[k]
      /\ G[n + 1] = m
  OBVIOUS
<1> HIDE DEF G, n
<1>2. ~IsStream(m) /\ ~IsRest(m)
  BY DEF IsEnd, IsRest, IsStream
<1>3. \A k \in 1..n : /\ IsStream(F[k]) <=> IsStream(G[k])
                      /\ IsEnd(F[k]) <=> IsEnd(G[k])
                      /\ IsRest(F[k]) <=> IsRest(G[k])
                      /\ Before(G[k]) = Before(F[k])
                      /\ IsRest(F[k]) => G[k] = F[k]
  BY <1>1
<1>4. /\ \A k \in 1..n : k \in DOMAIN F /\ k \in DOMAIN G
      /\ \A i, j \in 1..n :
               /\ IsFirst(F, j) <=> IsFirst(G, j)
               /\ SameSession(F, i, j) <=> SameSession(G, i, j)
               /\ InHeadSession(F, j) <=> InHeadSession(G, j)
      /\ \A at : \A j \in 1..n : Reaches(F, P, at, j) <=> Reaches(G, P, at, j)
  BY <1>1, <1>3, SoundPrefix
<1>5. \A j \in DOMAIN G : j \in 1..n \/ (~IsFirst(G, j) /\ ~IsRest(G[j]))
  <2>1. \A j \in DOMAIN G : j \in 1..n \/ j = n + 1
    BY <1>1
  <2> QED BY <1>1, <1>2, <2>1 DEF IsFirst
<1>6. PendingIsARun(G, P)
  BY <1>3, <1>4, <1>5 DEF Sound, PendingIsARun
<1>7. SpliceIsSound(G, s, b)
  BY <1>3, <1>4, <1>5 DEF Sound, SpliceIsSound
<1>8. RestComesOnce(G, "idle", s.mode)
  BY <1>3, <1>4, <1>5 DEF Sound, RestComesOnce
<1>9. RestIsReached(G, P, "idle", other)
  BY <1>3, <1>4, <1>5 DEF Sound, RestIsReached
<1>10. RestIsUnderWay(G, FALSE, "idle", s.mode)
  BY DEF RestIsUnderWay
<1> QED BY <1>6, <1>7, <1>8, <1>9, <1>10 DEF Sound, G

\* A new connection, behind the ends of the ones before it.
LEMMA SoundConnect ==
  ASSUME NEW q \in Seq(Messages), NEW m \in Messages, IsStream(m), q = <<>> \/ IsEnd(q[Len(q)]),
         NEW s, NEW b, NEW answer, q = <<>> => s.mode = "awaiting" /\ s.pending = {},
         Sound(q, s, b, FALSE, "idle", answer)
  PROVE  Sound(Append(q, m), s, b, TRUE, "asked", answer)
<1> DEFINE G == Append(q, m)
           n == Len(q)
           P == s.pending
<1>1. /\ G \in Seq(Messages) /\ n \in Nat /\ Len(G) = n + 1
      /\ DOMAIN G = 1 .. n + 1 /\ n <= Len(G) /\ DOMAIN q = 1..n
      /\ \A k \in 1..n : q[k] = G[k]
      /\ G[n + 1] = m /\ (q # <<>> => n >= 1 /\ IsEnd(q[n])) /\ (n = 0 <=> q = <<>>)
      /\ n <= Len(q)
  OBVIOUS
<1> HIDE DEF G, n
<1>2. ~IsEnd(m) /\ ~IsRest(m)
  BY DEF IsEnd, IsRest, IsStream
<1>3. \A k \in 1..n : /\ IsStream(q[k]) <=> IsStream(G[k])
                      /\ IsEnd(q[k]) <=> IsEnd(G[k])
                      /\ IsRest(q[k]) <=> IsRest(G[k])
                      /\ Before(G[k]) = Before(q[k])
                      /\ IsRest(q[k]) => G[k] = q[k]
  BY <1>1
<1>4. /\ \A k \in 1..n : k \in DOMAIN q /\ k \in DOMAIN G
      /\ \A i, j \in 1..n :
               /\ IsFirst(q, j) <=> IsFirst(G, j)
               /\ SameSession(q, i, j) <=> SameSession(G, i, j)
               /\ InHeadSession(q, j) <=> InHeadSession(G, j)
      /\ \A at : \A j \in 1..n : Reaches(q, P, at, j) <=> Reaches(G, P, at, j)
  BY <1>1, <1>3, SoundPrefix
<1>5. \A j \in DOMAIN G : j \in 1..n \/ (j = n + 1 /\ ~IsRest(G[j]))
  <2>1. \A j \in DOMAIN G : j \in 1..n \/ j = n + 1
    BY <1>1
  <2> QED BY <1>1, <1>2, <2>1
<1>6. q # <<>> => n \in DOMAIN G /\ n \in 1..n /\ IsEnd(G[n]) /\ n < n + 1
  BY <1>1
<1>7. InHeadSession(G, n + 1) => q = <<>>
  BY <1>6 DEF InHeadSession
<1>8. \A r \in 1..n : IsRest(G[r]) => ~SameSession(G, r, n + 1) /\ ~InLastSession(G, r)
  <2> SUFFICES ASSUME NEW r \in 1..n, IsRest(G[r]) PROVE n \in DOMAIN G /\ r < n /\ n < n + 1 /\ IsEnd(G[n])
    BY DEF SameSession, InLastSession
  <2>1. q # <<>>
    BY <1>1
  <2>2. r # n
    BY <1>6, <2>1 DEF IsEnd, IsRest
  <2>3. r < n
    BY <1>1, <2>2
  <2> QED BY <1>6, <2>1, <2>3
<1>9. ~HasAny(G, {"ended"}) => q = <<>>
  BY <1>6 DEF HasAny, IsEnd
<1>10. PendingIsARun(G, P)
  BY <1>3, <1>4, <1>5, <1>7 DEF Sound, PendingIsARun
<1>11. SpliceIsSound(G, s, b)
  BY <1>3, <1>4, <1>5, <1>7 DEF Sound, SpliceIsSound
<1>12. RestComesOnce(G, "asked", s.mode)
  <2>1. \A r, p \in DOMAIN G : r < p /\ IsRest(G[r]) /\ IsRest(G[p]) => ~SameSession(G, r, p)
    BY <1>3, <1>4, <1>5 DEF Sound, RestComesOnce
  <2>2. \A r \in DOMAIN G : IsRest(G[r]) => ~InLastSession(G, r)
    BY <1>5, <1>8
  <2>3. \A r \in DOMAIN G : IsRest(G[r]) => (InHeadSession(G, r) => s.mode = "awaiting")
    BY <1>3, <1>4, <1>5 DEF Sound, RestComesOnce
  <2> QED BY <1>9, <2>1, <2>2, <2>3 DEF RestComesOnce
<1>13. RestIsReached(G, P, "asked", answer)
  BY <1>3, <1>4, <1>5, <1>8 DEF Sound, RestIsReached
<1>14. RestIsUnderWay(G, TRUE, "asked", s.mode)
  BY DEF RestIsUnderWay
<1> QED BY <1>10, <1>11, <1>12, <1>13, <1>14 DEF Sound, G

\* The REST answer is fetched: it ends no earlier than what the venue has sent.
LEMMA SoundAnswer ==
  ASSUME NEW F \in Seq(Messages), NEW s, NEW b, NEW isOpen, NEW old, NEW answer \in Nat,
         s.pending \subseteq 0..answer,
         \A j \in DOMAIN F : IsStream(F[j]) => Before(F[j]) \in 0..answer,
         Sound(F, s, b, isOpen, "asked", old)
  PROVE  Sound(F, s, b, isOpen, "answered", answer)
<1>1. \A j \in DOMAIN F : IsFirst(F, j) => Reaches(F, s.pending, answer, j)
  BY DEF IsFirst, Reaches
<1>2. BufferReaches(s.pending, answer)
  <2> SUFFICES ASSUME s.pending # {} PROVE \E d \in s.pending : d <= answer + 1
    BY DEF BufferReaches
  <2>1. PICK d \in s.pending : TRUE
    OBVIOUS
  <2>2. d \in 0..answer
    OBVIOUS
  <2> QED BY <2>2
<1>3. RestComesOnce(F, "answered", s.mode)
  BY DEF Sound, RestComesOnce
<1>4. RestIsReached(F, s.pending, "answered", answer)
  BY <1>1, <1>2 DEF Sound, RestIsReached
<1>5. RestIsUnderWay(F, isOpen, "answered", s.mode)
  BY DEF RestIsUnderWay
<1> QED BY <1>3, <1>4, <1>5 DEF Sound

\* The REST answer takes its place behind the channel: it is the only one of its session.
LEMMA SoundRest ==
  ASSUME NEW q \in Seq(Messages), NEW w \in Seq(Messages), NEW m \in Messages,
         IsRest(m), \A k \in DOMAIN w : IsStream(w[k]),
         NEW s, NEW b,
         Sound(q \o w, s, b, TRUE, "answered", m.at)
  PROVE  Sound(Append(q, m) \o w, s, b, TRUE, "idle", m.at)
<1> DEFINE F == q \o w
           G == Append(q, m) \o w
           r == Len(q) + 1
           f == [k \in DOMAIN F |-> IF k < r THEN k ELSE k + 1]
           P == s.pending
<1>1. /\ F \in Seq(Messages) /\ G \in Seq(Messages) /\ f \in [DOMAIN F -> DOMAIN G]
      /\ \A i, j \in DOMAIN F : i < j <=> f[i] < f[j]
      /\ \A k \in DOMAIN F : G[f[k]] = F[k]
      /\ r \in DOMAIN G /\ G[r] = m
      /\ \A k \in DOMAIN G \ {r} : \E i \in DOMAIN F : k = f[i]
      /\ \A k \in DOMAIN F : f[k] < r <=> k < r
  BY InsertIndices
<1>2. \A k \in DOMAIN F : k \in Nat /\ f[k] \in Nat /\ r \in Nat /\ f[k] # r
  BY <1>1
<1>3. \A k \in DOMAIN F : k < r \/ IsStream(F[k])
  <2> SUFFICES ASSUME NEW k \in DOMAIN F, ~(k < r) PROVE IsStream(F[k])
    OBVIOUS
  <2>1. k - Len(q) \in DOMAIN w /\ F[k] = w[k - Len(q)]
    OBVIOUS
  <2> QED BY <2>1
<1>4. Sound(F, s, b, TRUE, "answered", m.at)
  OBVIOUS
<1> HIDE DEF F, G, r, f
<1>5. \A k \in DOMAIN G : (\E i \in DOMAIN F : k = f[i]) \/ IsRest(G[k])
  BY <1>1
<1>6. \A i, j \in DOMAIN F :
         /\ SameSession(F, i, j) <=> SameSession(G, f[i], f[j])
         /\ InLastSession(F, j) <=> InLastSession(G, f[j])
         /\ InHeadSession(F, j) <=> InHeadSession(G, f[j])
         /\ IsFirst(F, j) <=> IsFirst(G, f[j])
  BY <1>1, <1>5, InsertSessions
<1>7. \A j \in DOMAIN G : IsFirst(G, j) => \E i \in DOMAIN F : j = f[i]
  BY <1>5 DEF IsFirst, IsStream, IsRest
<1>8. \A e \in DOMAIN F : IsEnd(F[e]) \/ IsRest(F[e]) => e < r
  BY <1>3 DEF IsEnd, IsRest, IsStream
<1>9. \A e \in DOMAIN F : IsEnd(F[e]) => f[e] \in DOMAIN G /\ IsEnd(G[f[e]]) /\ f[e] < r
  BY <1>1, <1>8
<1>10. InHeadSession(G, r) => ~HasAny(F, {"ended"})
  BY <1>9 DEF InHeadSession, HasAny, IsEnd
<1>11. PendingIsARun(G, P)
  BY <1>1, <1>4, <1>6, <1>7 DEF Sound, PendingIsARun
<1>12. SpliceIsSound(G, s, b)
  BY <1>1, <1>4, <1>6, <1>7 DEF Sound, SpliceIsSound
<1>13. RestComesOnce(G, "idle", s.mode)
  <2>1. ASSUME NEW i \in DOMAIN F, IsRest(F[i]) PROVE f[i] < r /\ ~SameSession(G, f[i], r)
    <3>1. f[i] < r
      BY <1>1, <1>8, <2>1
    <3>2. PICK e \in DOMAIN F : i < e /\ IsEnd(F[e])
      BY <1>4, <2>1 DEF Sound, RestComesOnce, InLastSession
    <3>3. f[i] < f[e] /\ f[e] < r /\ f[e] \in DOMAIN G /\ IsEnd(G[f[e]])
      BY <1>1, <1>9, <3>2
    <3> QED BY <3>1, <3>3 DEF SameSession
  <2>2. ASSUME NEW i \in DOMAIN G, NEW j \in DOMAIN G, i < j, IsRest(G[i]), IsRest(G[j])
        PROVE  ~SameSession(G, i, j)
    <3>1. CASE i = r
      <4>1. j # r
        BY <1>1, <2>2, <3>1, <1>2
      <4>2. PICK k \in DOMAIN F : j = f[k]
        BY <1>1, <4>1
      <4>3. f[k] < r
        BY <1>1, <2>1, <2>2, <4>2
      <4> QED BY <1>2, <2>2, <3>1, <4>2, <4>3
    <3>2. CASE i # r /\ j = r
      <4>1. PICK k \in DOMAIN F : i = f[k]
        BY <1>1, <3>2
      <4> QED BY <1>1, <2>1, <2>2, <3>2, <4>1
    <3>3. CASE i # r /\ j # r
      <4>1. PICK k \in DOMAIN F, n \in DOMAIN F : i = f[k] /\ j = f[n]
        BY <1>1, <3>3
      <4> QED BY <1>1, <1>4, <1>6, <2>2, <4>1 DEF Sound, RestComesOnce
    <3> QED BY <3>1, <3>2, <3>3
  <2>3. ASSUME NEW i \in DOMAIN G, IsRest(G[i]), InHeadSession(G, i) PROVE s.mode = "awaiting"
    <3>1. CASE i = r
      BY <1>4, <1>10, <2>3, <3>1 DEF Sound, RestComesOnce
    <3>2. CASE i # r
      BY <1>1, <1>4, <1>6, <2>3, <3>2 DEF Sound, RestComesOnce
    <3> QED BY <3>1, <3>2
  <2> QED BY <2>2, <2>3 DEF RestComesOnce
<1>14. RestIsReached(G, P, "idle", m.at)
  <2>1. \A j \in DOMAIN F : \A at : Reaches(F, P, at, j) <=> Reaches(G, P, at, f[j])
    BY <1>1, <1>6 DEF Reaches
  <2>2. ASSUME NEW i \in DOMAIN G, IsRest(G[i]), NEW j \in DOMAIN G,
               IsFirst(G, j), SameSession(G, i, j), SameSession(G, j, i)
        PROVE  Reaches(G, P, G[i].at, j)
    <3>1. PICK k \in DOMAIN F : j = f[k]
      BY <1>7, <2>2
    <3>2. CASE i = r
      <4>1. ASSUME NEW e \in DOMAIN F, k < e, IsEnd(F[e]) PROVE FALSE
        <5>1. f[k] < f[e] /\ f[e] < r /\ f[e] \in DOMAIN G /\ IsEnd(G[f[e]])
          BY <1>1, <1>9, <4>1
        <5> QED BY <2>2, <3>1, <3>2, <5>1 DEF SameSession
      <4>2. InLastSession(F, k) /\ IsFirst(F, k)
        BY <1>6, <2>2, <3>1, <4>1 DEF InLastSession
      <4>3. Reaches(F, P, m.at, k)
        BY <1>4, <4>2 DEF Sound, RestIsReached
      <4> QED BY <1>1, <2>1, <3>1, <3>2, <4>3
    <3>3. CASE i # r
      <4>1. PICK n \in DOMAIN F : i = f[n]
        BY <1>1, <3>3
      <4>2. Reaches(F, P, F[n].at, k)
        BY <1>1, <1>4, <1>6, <2>2, <3>1, <4>1 DEF Sound, RestIsReached
      <4> QED BY <1>1, <2>1, <3>1, <4>1, <4>2
    <3> QED BY <3>2, <3>3
  <2>3. ASSUME NEW i \in DOMAIN G, IsRest(G[i]), InHeadSession(G, i) PROVE BufferReaches(P, G[i].at)
    <3>1. CASE i = r
      BY <1>1, <1>4, <1>10, <2>3, <3>1 DEF Sound, RestIsReached
    <3>2. CASE i # r
      BY <1>1, <1>4, <1>6, <2>3, <3>2 DEF Sound, RestIsReached
    <3> QED BY <3>1, <3>2
  <2> QED BY <2>2, <2>3 DEF RestIsReached
<1>15. RestIsUnderWay(G, TRUE, "idle", s.mode)
  <2>1. ASSUME NEW e \in DOMAIN G, IsEnd(G[e]) PROVE e < r
    <3>1. e # r
      BY <1>1, <2>1 DEF IsEnd, IsRest
    <3>2. PICK k \in DOMAIN F : e = f[k]
      BY <1>1, <3>1
    <3> QED BY <1>1, <1>9, <2>1, <3>2
  <2>2. HasAny(G, {"ended", "rest"})
    BY <1>1 DEF HasAny, IsRest
  <2> QED BY <1>1, <2>1, <2>2 DEF RestIsUnderWay
<1> QED BY <1>11, <1>12, <1>13, <1>14, <1>15 DEF Sound, G

\* What a sequence has besides its oldest message.
LEMMA TailHas ==
  ASSUME NEW F \in Seq(Messages), F # <<>>, NEW kinds
  PROVE  /\ HasAny(Tail(F), kinds) => HasAny(F, kinds)
         /\ F[1].kind \notin kinds /\ HasAny(F, kinds) => HasAny(Tail(F), kinds)
<1>1. ASSUME NEW i \in DOMAIN Tail(F), Tail(F)[i].kind \in kinds PROVE HasAny(F, kinds)
  <2>1. i + 1 \in DOMAIN F /\ Tail(F)[i] = F[i + 1]
    BY TailIndices
  <2> QED BY <1>1, <2>1 DEF HasAny
<1>2. ASSUME NEW i \in DOMAIN F, F[i].kind \in kinds, F[1].kind \notin kinds
      PROVE  HasAny(Tail(F), kinds)
  <2>1. i - 1 \in DOMAIN Tail(F) /\ Tail(F)[i - 1] = F[i]
    BY <1>2, TailIndices
  <2> QED BY <1>2, <2>1 DEF HasAny
<1> QED BY <1>1, <1>2 DEF HasAny

\* What the tail of a flight has in common with it, whatever is taken from it.
LEMMA TailOfFlight ==
  ASSUME NEW F \in Seq(Messages), F # <<>>, NEW s, NEW b, NEW isOpen, NEW fetch, NEW answer,
         Sound(F, s, b, isOpen, fetch, answer)
  PROVE  /\ \A i, j \in DOMAIN Tail(F) :
               /\ i + 1 \in DOMAIN F /\ Tail(F)[i] = F[i + 1] /\ (i < j <=> i + 1 < j + 1)
               /\ SameSession(Tail(F), i, j) <=> SameSession(F, i + 1, j + 1)
               /\ InLastSession(Tail(F), j) <=> InLastSession(F, j + 1)
               /\ InHeadSession(F, j + 1) <=> InHeadSession(Tail(F), j) /\ ~IsEnd(F[1])
         /\ \A r, q \in DOMAIN Tail(F) : r < q /\ IsRest(Tail(F)[r]) /\ IsRest(Tail(F)[q]) =>
               ~SameSession(Tail(F), r, q)
         /\ \A r \in DOMAIN Tail(F) :
               IsRest(Tail(F)[r]) /\ fetch # "idle" => ~InLastSession(Tail(F), r)
         /\ isOpen /\ fetch = "idle" =>
               \A e \in DOMAIN Tail(F) : IsEnd(Tail(F)[e]) =>
                  \E r \in DOMAIN Tail(F) : e < r /\ IsRest(Tail(F)[r])
<1>1. \A i, j \in DOMAIN Tail(F) :
         /\ i + 1 \in DOMAIN F /\ Tail(F)[i] = F[i + 1] /\ (i < j <=> i + 1 < j + 1)
         /\ i \in Nat
  BY TailIndices
<1>2. \A i, j \in DOMAIN Tail(F) :
               /\ SameSession(Tail(F), i, j) <=> SameSession(F, i + 1, j + 1)
               /\ InLastSession(Tail(F), j) <=> InLastSession(F, j + 1)
               /\ InHeadSession(F, j + 1) <=> InHeadSession(Tail(F), j) /\ ~IsEnd(F[1])
  BY TailSessions
<1>3. \A r, q \in DOMAIN Tail(F) : r < q /\ IsRest(Tail(F)[r]) /\ IsRest(Tail(F)[q]) =>
               ~SameSession(Tail(F), r, q)
  BY <1>1, <1>2 DEF Sound, RestComesOnce
<1>4. \A r \in DOMAIN Tail(F) :
               IsRest(Tail(F)[r]) /\ fetch # "idle" => ~InLastSession(Tail(F), r)
  BY <1>1, <1>2 DEF Sound, RestComesOnce
<1>5. ASSUME isOpen, fetch = "idle", NEW e \in DOMAIN Tail(F), IsEnd(Tail(F)[e])
      PROVE  \E r \in DOMAIN Tail(F) : e < r /\ IsRest(Tail(F)[r])
  <2>1. PICK r \in DOMAIN F : e + 1 < r /\ IsRest(F[r])
    BY <1>1, <1>5 DEF Sound, RestIsUnderWay
  <2>2. r # 1
    BY <1>1, <2>1
  <2>3. r - 1 \in DOMAIN Tail(F) /\ Tail(F)[r - 1] = F[r] /\ e < r - 1
    BY <1>1, <2>1, <2>2, TailIndices
  <2> QED BY <2>1, <2>3
<1> QED BY <1>1, <1>2, <1>3, <1>4, <1>5

\* The end of a session is applied: the book starts afresh.
LEMMA SoundAfterEnd ==
  ASSUME NEW F \in Seq(Messages), F # <<>>, IsEnd(F[1]),
         NEW s, NEW b, NEW isOpen, NEW fetch, NEW answer, NEW t, NEW c,
         t.mode = "awaiting", t.pending = {}, ~IsLive(c),
         Sound(F, s, b, isOpen, fetch, answer)
  PROVE  Sound(Tail(F), t, c, isOpen, fetch, answer)
<1> DEFINE T == Tail(F)
<1>1. /\ \A i, j \in DOMAIN T :
               /\ i + 1 \in DOMAIN F /\ T[i] = F[i + 1] /\ (i < j <=> i + 1 < j + 1)
               /\ SameSession(T, i, j) <=> SameSession(F, i + 1, j + 1)
               /\ InLastSession(T, j) <=> InLastSession(F, j + 1)
               /\ ~InHeadSession(F, j + 1)
      /\ \A r, q \in DOMAIN T : r < q /\ IsRest(T[r]) /\ IsRest(T[q]) => ~SameSession(T, r, q)
      /\ \A r \in DOMAIN T : IsRest(T[r]) /\ fetch # "idle" => ~InLastSession(T, r)
      /\ isOpen /\ fetch = "idle" =>
            \A e \in DOMAIN T : IsEnd(T[e]) => \E r \in DOMAIN T : e < r /\ IsRest(T[r])
  BY TailOfFlight
<1>2. \A j \in DOMAIN T : IsFirst(T, j) => IsFirst(F, j + 1)
  <2>1. ~IsStream(F[1])
    BY DEF IsEnd, IsStream
  <2> QED BY <2>1, TailSessions
<1>3. PendingIsARun(T, t.pending) /\ SpliceIsSound(T, t, c)
  BY DEF PendingIsARun, SpliceIsSound
<1>4. RestComesOnce(T, fetch, t.mode)
  BY <1>1 DEF RestComesOnce
<1>5. RestIsReached(T, t.pending, fetch, answer)
  BY <1>1, <1>2 DEF Sound, RestIsReached, Reaches, BufferReaches
<1>6. RestIsUnderWay(T, isOpen, fetch, t.mode)
  <2>1. ASSUME isOpen, fetch = "idle" PROVE HasAny(T, {"ended", "rest"})
    <3>1. 1 \in DOMAIN F
      BY TailIndices
    <3>2. PICK r \in DOMAIN F : 1 < r /\ IsRest(F[r])
      BY <2>1, <3>1 DEF Sound, RestIsUnderWay
    <3>3. r - 1 \in DOMAIN T /\ T[r - 1] = F[r]
      BY <3>2, TailIndices
    <3> QED BY <3>2, <3>3 DEF HasAny, IsRest
  <2> QED BY <1>1, <2>1 DEF RestIsUnderWay
<1> QED BY <1>3, <1>4, <1>5, <1>6 DEF Sound

IsRun(P) == \A d, e \in P : d..e \subseteq P

\* The VenueBook s, b expects a diff that applies to version `at`.
ReadyFor(s, b, at) ==
    /\ IsRun(s.pending) /\ \A d \in s.pending : at \in s.pending /\ d <= at
    /\ s.mode = "awaiting" => ~IsLive(b)
    /\ s.mode = "live" =>
          /\ IsLive(b) /\ ~b.hole /\ s.pending = {} /\ b.at = s.last /\ s.spliced <= s.last
          /\ at = s.last \/ (at < s.spliced /\ s.last = s.spliced)

\* A REST answer that reached the diffs P and the frame m after them reaches the diffs Q
\* that m made of them, and what comes after m.
KeepsReach(P, m, Q) ==
    \A at \in Nat : (P = {} => Before(m) <= at) /\ BufferReaches(P, at) =>
        BufferReaches(Q, at) /\ (Q = {} => m.at <= at)

\* A REST answer of version `at` was spliced with the diffs P into t, c without a hole.
IsSpliced(P, at, t, c) ==
    /\ t.last \in Surviving(P, at) \union {at}
    /\ \A d \in Surviving(P, at) \union {at} : d <= t.last
    /\ t.mode = "live" /\ t.pending = {} /\ t.spliced = at
    /\ IsLive(c) /\ ~c.hole /\ c.at = t.last

\* The REST answer is spliced in: the next diff continues it, or is already in it.
LEMMA SoundAfterRest ==
  ASSUME NEW F \in Seq(Messages), F # <<>>, IsRest(F[1]), F[1].at \in Nat,
         \A j \in DOMAIN F : IsStream(F[j]) => Before(F[j]) \in Nat,
         NEW s, NEW b, NEW isOpen, NEW fetch, NEW answer, NEW t, NEW c,
         s.pending \subseteq Nat, IsSpliced(s.pending, F[1].at, t, c), t.last \in Nat,
         Sound(F, s, b, isOpen, fetch, answer)
  PROVE  Sound(Tail(F), t, c, isOpen, fetch, answer)
<1> DEFINE T == Tail(F)
           P == s.pending
           at == F[1].at
           last == t.last
<1>0. /\ last \in Surviving(P, at) \union {at}
      /\ \A d \in Surviving(P, at) \union {at} : d <= last
      /\ t.mode = "live" /\ t.pending = {} /\ t.spliced = at
      /\ IsLive(c) /\ ~c.hole /\ c.at = last /\ last \in Nat
  BY DEF IsSpliced
<1>1. /\ \A i, j \in DOMAIN T :
               /\ i + 1 \in DOMAIN F /\ T[i] = F[i + 1] /\ (i < j <=> i + 1 < j + 1)
               /\ SameSession(T, i, j) <=> SameSession(F, i + 1, j + 1)
               /\ InLastSession(T, j) <=> InLastSession(F, j + 1)
               /\ InHeadSession(F, j + 1) <=> InHeadSession(T, j) /\ ~IsEnd(F[1])
      /\ \A r, q \in DOMAIN T : r < q /\ IsRest(T[r]) /\ IsRest(T[q]) => ~SameSession(T, r, q)
      /\ \A r \in DOMAIN T : IsRest(T[r]) /\ fetch # "idle" => ~InLastSession(T, r)
      /\ isOpen /\ fetch = "idle" =>
            \A e \in DOMAIN T : IsEnd(T[e]) => \E r \in DOMAIN T : e < r /\ IsRest(T[r])
  BY TailOfFlight
<1>2. ~IsStream(F[1]) /\ ~IsEnd(F[1])
  BY DEF IsRest, IsStream, IsEnd
<1>3. \A j \in DOMAIN T : IsFirst(T, j) => IsFirst(F, j + 1)
  BY <1>2, TailSessions
<1>4. 1 \in DOMAIN F /\ \A j \in DOMAIN F : j \in Nat /\ j >= 1
  BY TailIndices
<1>5. \A j \in DOMAIN F : InHeadSession(F, j) => SameSession(F, 1, j) /\ SameSession(F, j, 1)
  BY <1>4 DEF InHeadSession, SameSession
<1>6. \A r \in DOMAIN T : IsRest(T[r]) => ~InHeadSession(F, r + 1)
  <2> SUFFICES ASSUME NEW r \in DOMAIN T, IsRest(T[r]), InHeadSession(F, r + 1) PROVE FALSE
    OBVIOUS
  <2>1. r + 1 \in DOMAIN F /\ 1 < r + 1 /\ IsRest(F[r + 1]) /\ SameSession(F, 1, r + 1)
    BY <1>1, <1>4, <1>5, TailIndices
  <2> QED BY <1>4, <2>1 DEF Sound, RestComesOnce
<1>7. fetch # "idle" => \E e \in DOMAIN F : 1 < e /\ IsEnd(F[e])
  BY <1>4 DEF Sound, RestComesOnce, InLastSession
<1> HIDE DEF T
<1>8. ASSUME NEW j \in DOMAIN T, IsFirst(T, j), InHeadSession(T, j)
      PROVE  Before(T[j]) = last \/ (Before(T[j]) < at /\ last = at)
  <2>1. /\ IsFirst(F, j + 1) /\ InHeadSession(F, j + 1) /\ j + 1 \in DOMAIN F
        /\ T[j] = F[j + 1] /\ Before(F[j + 1]) \in Nat
    BY <1>1, <1>2, <1>3, <1>8 DEF IsFirst
  <2>2. CASE P = {}
    <3>1. Reaches(F, P, at, j + 1)
      BY <1>4, <1>5, <2>1 DEF Sound, RestIsReached
    <3>2. Before(F[j + 1]) <= at
      BY <2>2, <3>1 DEF Reaches
    <3>3. last = at
      BY <1>0, <2>2 DEF Surviving
    <3> QED BY <2>1, <3>2, <3>3
  <2>3. CASE P # {}
    <3>1. Before(F[j + 1]) \in P /\ \A d \in P : d <= Before(F[j + 1])
      BY <2>1, <2>3 DEF Sound, PendingIsARun
    <3>2. CASE Before(F[j + 1]) > at
      <4>1. Before(F[j + 1]) <= last
        BY <1>0, <3>1, <3>2 DEF Surviving
      <4>2. last \in P
        BY <1>0, <2>1, <3>2, <4>1 DEF Surviving
      <4> QED BY <1>0, <2>1, <3>1, <4>1, <4>2
    <3>3. CASE ~(Before(F[j + 1]) > at)
      <4>1. last = at
        <5>1. \A d \in P : ~(d > at)
          BY <2>1, <3>1, <3>3
        <5> QED BY <1>0, <5>1 DEF Surviving
      <4> QED BY <2>1, <3>3, <4>1
    <3> QED BY <3>2, <3>3
  <2> QED BY <2>2, <2>3
<1>9. PendingIsARun(T, t.pending)
  BY <1>0 DEF PendingIsARun
<1>10. SpliceIsSound(T, t, c)
  <2>1. at <= last
    BY <1>0
  <2> QED BY <1>0, <1>8, <2>1 DEF SpliceIsSound
<1>11. RestComesOnce(T, fetch, t.mode)
  <2>1. fetch # "idle" => HasAny(T, {"ended"})
    <3> SUFFICES ASSUME NEW e \in DOMAIN F, 1 < e, IsEnd(F[e]) PROVE HasAny(T, {"ended"})
      BY <1>7
    <3>1. e - 1 \in DOMAIN T /\ T[e - 1] = F[e]
      BY TailIndices DEF T
    <3> QED BY <3>1 DEF HasAny, IsEnd
  <2> QED BY <1>1, <1>2, <1>6, <2>1 DEF RestComesOnce
<1>12. RestIsReached(T, t.pending, fetch, answer)
  <2>1. ASSUME NEW r \in DOMAIN T, IsRest(T[r]), NEW j \in DOMAIN T,
               IsFirst(T, j), SameSession(T, r, j), SameSession(T, j, r)
        PROVE  Reaches(T, t.pending, T[r].at, j)
    <3>1. /\ Reaches(F, P, F[r + 1].at, j + 1) /\ T[j] = F[j + 1] /\ T[r] = F[r + 1]
          /\ j + 1 \in DOMAIN F /\ r + 1 \in DOMAIN F
      BY <1>1, <1>3, <2>1 DEF Sound, RestIsReached
    <3>2. ~InHeadSession(F, j + 1)
      <4>1. PICK e \in DOMAIN F : e < r + 1 /\ IsEnd(F[e])
        BY <1>6, <2>1 DEF InHeadSession
      <4>2. e # j + 1
        BY <2>1, <3>1, <4>1 DEF IsFirst, IsEnd, IsStream
      <4>3. SameSession(F, j + 1, r + 1)
        BY <1>1, <2>1
      <4>4. ~(j + 1 < e)
        BY <4>1, <4>3 DEF SameSession
      <4>5. e < j + 1
        BY <1>4, <3>1, <4>2, <4>4
      <4> QED BY <4>1, <4>5 DEF InHeadSession
    <3> QED BY <3>1, <3>2 DEF Reaches
  <2>2. ASSUME fetch = "answered", NEW j \in DOMAIN T, IsFirst(T, j), InLastSession(T, j)
        PROVE  Reaches(T, t.pending, answer, j)
    <3>1. /\ Reaches(F, P, answer, j + 1) /\ T[j] = F[j + 1] /\ j + 1 \in DOMAIN F
          /\ InLastSession(F, j + 1)
      BY <1>1, <1>3, <2>2 DEF Sound, RestIsReached
    <3>2. PICK e \in DOMAIN F : 1 < e /\ IsEnd(F[e])
      BY <1>7, <2>2
    <3>3. e # j + 1
      BY <2>2, <3>1, <3>2 DEF IsFirst, IsEnd, IsStream
    <3>4. e < j + 1
      BY <1>4, <3>1, <3>2, <3>3 DEF InLastSession
    <3> QED BY <3>1, <3>2, <3>4 DEF Reaches, InHeadSession
  <2> QED BY <1>0, <2>1, <2>2 DEF RestIsReached, BufferReaches
<1>13. RestIsUnderWay(T, isOpen, fetch, t.mode)
  BY <1>0, <1>1 DEF RestIsUnderWay
<1> QED BY <1>9, <1>10, <1>11, <1>12, <1>13 DEF Sound, T

\* A frame of the stream is applied, or buffered: the next one continues it.
LEMMA SoundAfterFrame ==
  ASSUME NEW F \in Seq(Messages), F # <<>>, IsStream(F[1]), Dense(F), Levelled(F),
         \A j \in DOMAIN F : IsRest(F[j]) => F[j].at \in Nat,
         NEW s, NEW b, NEW isOpen, NEW fetch, NEW answer \in Nat, NEW t, NEW c,
         t.mode = s.mode, ReadyFor(t, c, F[1].at),
         s.mode = "awaiting" => KeepsReach(s.pending, F[1], t.pending),
         Sound(F, s, b, isOpen, fetch, answer)
  PROVE  Sound(Tail(F), t, c, isOpen, fetch, answer)
<1> DEFINE T == Tail(F)
           P == s.pending
<1>1. /\ \A i, j \in DOMAIN T :
               /\ i + 1 \in DOMAIN F /\ T[i] = F[i + 1] /\ (i < j <=> i + 1 < j + 1)
               /\ SameSession(T, i, j) <=> SameSession(F, i + 1, j + 1)
               /\ InLastSession(T, j) <=> InLastSession(F, j + 1)
               /\ InHeadSession(F, j + 1) <=> InHeadSession(T, j) /\ ~IsEnd(F[1])
      /\ \A r, q \in DOMAIN T : r < q /\ IsRest(T[r]) /\ IsRest(T[q]) => ~SameSession(T, r, q)
      /\ \A r \in DOMAIN T : IsRest(T[r]) /\ fetch # "idle" => ~InLastSession(T, r)
      /\ isOpen /\ fetch = "idle" =>
            \A e \in DOMAIN T : IsEnd(T[e]) => \E r \in DOMAIN T : e < r /\ IsRest(T[r])
  BY TailOfFlight
<1>2. ~IsRest(F[1]) /\ ~IsEnd(F[1]) /\ F[1].kind \notin {"ended", "rest"}
  BY DEF IsRest, IsStream, IsEnd
<1>3. \A j \in DOMAIN T : IsFirst(T, j) => IsFirst(F, j + 1) \/ InHeadSession(T, j)
  BY TailSessions
<1>4. 1 \in DOMAIN F /\ \A j \in DOMAIN F : j \in Nat /\ j >= 1
  BY TailIndices
<1>5. IsFirst(F, 1) /\ InHeadSession(F, 1)
  BY <1>4 DEF IsFirst, InHeadSession
<1>6. \A j \in DOMAIN F : InHeadSession(F, j) => SameSession(F, 1, j) /\ SameSession(F, j, 1)
  BY <1>4 DEF InHeadSession, SameSession
<1>7. /\ HasAny(F, {"ended"}) => HasAny(T, {"ended"})
      /\ HasAny(F, {"ended", "rest"}) => HasAny(T, {"ended", "rest"})
  BY <1>2, TailHas
<1>8. \A k \in DOMAIN F \ {1} : k - 1 \in DOMAIN T /\ T[k - 1] = F[k]
  BY TailIndices
<1>9. ~HasAny(T, {"ended"}) => InLastSession(F, 1)
  <2> HIDE DEF T
  <2> SUFFICES ASSUME NEW e \in DOMAIN F, 1 < e, IsEnd(F[e]) PROVE HasAny(T, {"ended"})
    BY DEF InLastSession
  <2>1. e # 1
    BY <1>4
  <2> QED BY <1>8, <2>1 DEF HasAny, IsEnd
<1>0. \A m \in Messages : IsEnd(m) \/ IsStream(m) \/ IsRest(m)
  BY DEF Messages, Frames, SessionEnded, IsEnd, IsStream, IsRest
<1>20. \A k \in DOMAIN F : F[k] \in Messages
  OBVIOUS
<1> HIDE DEF T
<1>10. ASSUME NEW j \in DOMAIN T, IsFirst(T, j), InHeadSession(T, j)
       PROVE  Before(T[j]) = F[1].at
  <2>1. j + 1 \in DOMAIN F /\ T[j] = F[j + 1] /\ IsStream(F[j + 1]) /\ 1 < j + 1 /\ j \in Nat
    <3>1. j \in Nat /\ j >= 1
      BY TailIndices DEF T
    <3> QED BY <1>1, <1>10, <3>1 DEF IsFirst
  <2>2. ASSUME NEW k \in DOMAIN F, 1 < k, k < j + 1 PROVE IsRest(F[k])
    <3>1. k - 1 \in DOMAIN T /\ T[k - 1] = F[k] /\ k - 1 < j
      BY <1>4, <1>8, <2>1, <2>2
    <3>2. ~IsEnd(F[k])
      BY <1>10, <3>1 DEF InHeadSession
    <3>3. ~IsStream(F[k])
      BY <1>10, <3>1 DEF InHeadSession, IsFirst
    <3> QED BY <1>0, <1>20, <3>2, <3>3
  <2>3. Adjacent(F, 1, j + 1)
    BY <1>4, <2>1, <2>2 DEF Adjacent
  <2> HIDE DEF Adjacent
  <2> QED BY <1>4, <2>1, <2>3 DEF Dense, Levelled
<1>11. PendingIsARun(T, t.pending)
  BY <1>10 DEF ReadyFor, IsRun, PendingIsARun
<1>12. SpliceIsSound(T, t, c)
  BY <1>10 DEF ReadyFor, SpliceIsSound
<1>13. RestComesOnce(T, fetch, t.mode)
  BY <1>1, <1>2, <1>7 DEF Sound, RestComesOnce
<1>14. ASSUME NEW r \in DOMAIN T, IsRest(T[r]), InHeadSession(T, r)
       PROVE  BufferReaches(t.pending, T[r].at) /\ (t.pending = {} => F[1].at <= T[r].at)
  <2>1. /\ r + 1 \in DOMAIN F /\ T[r] = F[r + 1] /\ InHeadSession(F, r + 1) /\ F[r + 1].at \in Nat
        /\ IsRest(F[r + 1])
    BY <1>1, <1>2, <1>14
  <2>2. s.mode = "awaiting" /\ BufferReaches(P, F[r + 1].at)
    BY <2>1 DEF Sound, RestComesOnce, RestIsReached
  <2>3. Reaches(F, P, F[r + 1].at, 1)
    BY <1>4, <1>5, <1>6, <2>1 DEF Sound, RestIsReached
  <2>4. P = {} => Before(F[1]) <= F[r + 1].at
    BY <1>5, <2>3 DEF Reaches
  <2> QED BY <2>1, <2>2, <2>4 DEF KeepsReach
<1>15. ASSUME fetch = "answered", ~HasAny(T, {"ended"})
       PROVE  BufferReaches(t.pending, answer) /\ (t.pending = {} => F[1].at <= answer)
  <2>1. ~HasAny(F, {"ended"}) /\ InLastSession(F, 1)
    BY <1>7, <1>9, <1>15
  <2>2. s.mode = "awaiting" /\ BufferReaches(P, answer) /\ Reaches(F, P, answer, 1)
    BY <1>4, <1>5, <1>15, <2>1 DEF Sound, RestComesOnce, RestIsReached
  <2>3. P = {} => Before(F[1]) <= answer
    BY <1>5, <2>2 DEF Reaches
  <2> QED BY <2>2, <2>3 DEF KeepsReach
<1>16. RestIsReached(T, t.pending, fetch, answer)
  <2>1. ASSUME NEW r \in DOMAIN T, IsRest(T[r]), NEW j \in DOMAIN T,
               IsFirst(T, j), SameSession(T, r, j), SameSession(T, j, r)
        PROVE  Reaches(T, t.pending, T[r].at, j)
    <3>1. CASE InHeadSession(T, j)
      <4>1. InHeadSession(T, r)
        <5> SUFFICES ASSUME NEW e \in DOMAIN T, e < r, IsEnd(T[e]) PROVE FALSE
          BY DEF InHeadSession
        <5>1. e # j
          BY <2>1 DEF IsFirst, IsEnd, IsStream
        <5>2. e < j \/ j < e
          <6>1. DOMAIN T \subseteq Nat
            BY TailIndices DEF T
          <6> QED BY <5>1, <6>1
        <5> QED BY <2>1, <3>1, <5>2 DEF InHeadSession, SameSession
      <4> QED BY <1>10, <1>14, <2>1, <3>1, <4>1 DEF Reaches
    <3>2. CASE ~InHeadSession(T, j)
      <4>1. Reaches(F, P, F[r + 1].at, j + 1) /\ T[j] = F[j + 1] /\ T[r] = F[r + 1]
        BY <1>1, <1>3, <2>1, <3>2 DEF Sound, RestIsReached
      <4> QED BY <1>1, <2>1, <3>2, <4>1 DEF Reaches
    <3> QED BY <3>1, <3>2
  <2>2. ASSUME fetch = "answered", NEW j \in DOMAIN T, IsFirst(T, j), InLastSession(T, j)
        PROVE  Reaches(T, t.pending, answer, j)
    <3>1. CASE InHeadSession(T, j)
      <4>1. ~HasAny(T, {"ended"})
        <5> SUFFICES ASSUME NEW e \in DOMAIN T, IsEnd(T[e]) PROVE FALSE
          BY DEF HasAny, IsEnd
        <5>1. e # j
          BY <2>2 DEF IsFirst, IsEnd, IsStream
        <5>2. e < j \/ j < e
          <6>1. DOMAIN T \subseteq Nat
            BY TailIndices DEF T
          <6> QED BY <5>1, <6>1
        <5> QED BY <2>2, <3>1, <5>2 DEF InHeadSession, InLastSession
      <4> QED BY <1>10, <1>15, <2>2, <3>1, <4>1 DEF Reaches
    <3>2. CASE ~InHeadSession(T, j)
      <4>1. Reaches(F, P, answer, j + 1) /\ T[j] = F[j + 1]
        BY <1>1, <1>3, <2>2, <3>2 DEF Sound, RestIsReached
      <4> QED BY <1>1, <2>2, <3>2, <4>1 DEF Reaches
    <3> QED BY <3>1, <3>2
  <2> QED BY <1>14, <1>15, <2>1, <2>2 DEF RestIsReached
<1>17. RestIsUnderWay(T, isOpen, fetch, t.mode)
  BY <1>1, <1>7 DEF Sound, RestIsUnderWay
<1> QED BY <1>11, <1>12, <1>13, <1>16, <1>17 DEF Sound, T

\* Diffs that are a run and reach the REST snapshot are spliced into it without a hole.
LEMMA SpliceLeavesNoHole ==
  ASSUME NEW s \in Syncs, NEW n \in Nat, s.pending \subseteq 0..n, NEW at \in 0..n,
         NEW crosses \in BOOLEAN, IsRun(s.pending), BufferReaches(s.pending, at),
         NEW t, NEW c,
         t = BitstampSplice(s, at, crosses).sync, c = BitstampSplice(s, at, crosses).book
  PROVE  IsSpliced(s.pending, at, t, c)
<1>1. PICK last \in 0..n :
            /\ last \in Surviving(s.pending, at) \union {at}
            /\ \A d \in Surviving(s.pending, at) \union {at} : d <= last
            /\ BitstampSplice(s, at, crosses) = Spliced(s, at, last, crosses)
  BY SpliceResult
<1>2. Surviving(s.pending, at) = (at + 1)..last
  <2>1. ASSUME NEW d \in Surviving(s.pending, at) PROVE d \in (at + 1)..last
    <3>1. d \in 0..n /\ d > at /\ d <= last
      BY <1>1, <2>1 DEF Surviving
    <3> QED BY <3>1
  <2>2. ASSUME NEW d \in (at + 1)..last PROVE d \in Surviving(s.pending, at)
    <3>1. last \in s.pending /\ d > at /\ d <= last
      BY <1>1, <2>2 DEF Surviving
    <3>2. PICK e \in s.pending : e <= at + 1
      BY <3>1 DEF BufferReaches
    <3>3. e \in Nat /\ last \in Nat /\ d \in Nat
      BY <3>2
    <3>4. d \in e..last
      BY <3>1, <3>2, <3>3
    <3> QED BY <3>1, <3>2, <3>4 DEF Surviving, IsRun
  <2> QED BY <2>1, <2>2
<1> DEFINE spliced ==
              [ApplySnapshot(last) EXCEPT !.hole = Surviving(s.pending, at) # (at + 1)..last]
<1>3. IsLive(spliced) /\ ~spliced.hole /\ spliced.at = last
  BY <1>2 DEF ApplySnapshot, IsLive
<1>4. c = spliced
  <2>1. c = GuardCrossed(spliced, crosses)
    BY <1>1 DEF Spliced
  <2> HIDE DEF spliced
  <2> QED BY <1>3, <2>1 DEF GuardCrossed
<1>5. t = [s EXCEPT !.mode = "live", !.pending = {}, !.last = last, !.spliced = at]
  BY <1>1 DEF Spliced
<1>6. t.mode = "live" /\ t.pending = {} /\ t.last = last /\ t.spliced = at
  BY <1>5 DEF Syncs
<1> HIDE DEF spliced
<1> QED BY <1>1, <1>3, <1>4, <1>6 DEF IsSpliced

\* What Bitstamp makes of the next diff: it extends the run that is buffered, is in the
\* snapshot already, or applies to the book as it is.
LEMMA BitstampFed ==
  ASSUME NEW s \in Syncs, NEW b \in Books, NEW m \in Frames, m.kind \in {"update", "other"},
         m.form = "good", Before(m) \in Nat, NEW crosses \in BOOLEAN,
         ReadyFor(s, b, Before(m)),
         NEW t, NEW c,
         t = Feed(Bitstamp, s, b, m, crosses).sync, c = Feed(Bitstamp, s, b, m, crosses).book
  PROVE  /\ t.mode = s.mode /\ ReadyFor(t, c, m.at)
         /\ s.mode = "awaiting" => KeepsReach(s.pending, m, t.pending)
         /\ IsLive(c) \/ c = b \/ c.reason = "awaiting_snapshot"
<1>0. /\ \A d, e \in s.pending : d..e \subseteq s.pending
      /\ \A d \in s.pending : Before(m) \in s.pending /\ d <= Before(m)
      /\ s.mode = "awaiting" => ~IsLive(b)
      /\ s.mode = "live" =>
            /\ IsLive(b) /\ ~b.hole /\ s.pending = {} /\ b.at = s.last /\ s.spliced <= s.last
            /\ Before(m) = s.last \/ (Before(m) < s.spliced /\ s.last = s.spliced)
  BY DEF ReadyFor, IsRun
<1>1. /\ t = BitstampFeed(s, b, m, crosses).sync /\ c = BitstampFeed(s, b, m, crosses).book
      /\ m.at \in Nat /\ s.last \in Nat /\ s.spliced \in Nat
      /\ s.mode \in {"awaiting", "live"} /\ s.pending \subseteq Nat
  BY DEF Feed, Coinbase, Kraken, Bitstamp, Frames, Syncs
<1>2. CASE m.kind = "other"
  <2>1. t = s /\ c = b
    BY <1>1, <1>2 DEF BitstampFeed
  <2>2. m.at = Before(m)
    BY <1>2 DEF Before
  <2>3. KeepsReach(s.pending, m, t.pending)
    BY <2>1, <2>2 DEF KeepsReach
  <2>4. ReadyFor(t, c, m.at)
    BY <2>1, <2>2
  <2> QED BY <2>1, <2>3, <2>4
<1>3. CASE m.kind = "update" /\ s.mode = "awaiting"
  <2>1. /\ t = [s EXCEPT !.pending = @ \union {m.at}]
        /\ c = IF s.pending = {} THEN MarkDesynced(b, "awaiting_snapshot") ELSE b
    BY <1>1, <1>3 DEF BitstampFeed
  <2>2. t.pending = s.pending \union {m.at} /\ t.mode = s.mode
    BY <2>1 DEF Syncs
  <2>3. m.at = Before(m) + 1
    BY <1>1, <1>3 DEF Before
  <2>4. \A d \in t.pending : m.at \in t.pending /\ d <= m.at
    BY <1>0, <1>1, <2>2, <2>3
  <2>5. ASSUME NEW d \in t.pending, NEW e \in t.pending, NEW k \in d..e PROVE k \in t.pending
    <3>0. d \in Nat /\ e \in Nat /\ k \in Nat /\ d <= k /\ k <= e
      BY <1>1, <2>2
    <3>1. CASE e \in s.pending
      <4>1. d \in s.pending
        <5>1. e < m.at
          BY <1>0, <1>1, <2>3, <3>1
        <5> QED BY <2>2, <3>0, <5>1
      <4> QED BY <1>0, <2>2, <3>0, <3>1, <4>1
    <3>2. CASE e = m.at
      <4>1. CASE k = m.at
        BY <2>2, <4>1
      <4>2. CASE k # m.at
        <5>1. k <= Before(m) /\ d # m.at
          BY <1>1, <2>3, <3>0, <3>2, <4>2
        <5>2. d \in s.pending /\ Before(m) \in s.pending
          BY <1>0, <2>2, <5>1
        <5>3. k \in d..Before(m)
          BY <3>0, <5>1
        <5> QED BY <1>0, <2>2, <5>2, <5>3
      <4> QED BY <4>1, <4>2
    <3> QED BY <2>2, <3>1, <3>2
  <2>6. ~IsLive(c) /\ (c = b \/ c.reason = "awaiting_snapshot")
    BY <1>0, <1>3, <2>1 DEF MarkDesynced, IsLive, Books
  <2>7. ASSUME NEW at \in Nat, s.pending = {} => Before(m) <= at, BufferReaches(s.pending, at)
        PROVE  BufferReaches(t.pending, at)
    <3>1. CASE s.pending = {}
      BY <2>2, <2>3, <2>7, <3>1 DEF BufferReaches
    <3>2. CASE s.pending # {}
      BY <2>2, <2>7, <3>2 DEF BufferReaches
    <3> QED BY <3>1, <3>2
  <2>8. KeepsReach(s.pending, m, t.pending)
    BY <2>2, <2>7 DEF KeepsReach
  <2>9. IsRun(t.pending)
    BY <2>5 DEF IsRun
  <2>10. ReadyFor(t, c, m.at)
    BY <1>3, <2>2, <2>4, <2>6, <2>9 DEF ReadyFor
  <2> QED BY <1>3, <2>2, <2>6, <2>8, <2>10
<1>4. CASE m.kind = "update" /\ s.mode = "live"
  <2>1. m.at = Before(m) + 1
    BY <1>1, <1>4 DEF Before
  <2>2. CASE m.at <= s.spliced
    <3>1. t = s /\ c = b
      BY <1>1, <1>4, <2>2 DEF BitstampFeed, Redundant
    <3>2. ReadyFor(s, b, m.at)
      BY <1>0, <1>1, <1>4, <2>1, <2>2 DEF ReadyFor, IsRun
    <3> QED BY <1>4, <3>1, <3>2
  <2>3. CASE ~(m.at <= s.spliced)
    <3>1. Before(m) = s.last /\ m.at = b.at + 1 /\ ~(m.at <= s.last)
      BY <1>0, <1>1, <1>4, <2>1, <2>3
    <3>2. t = [s EXCEPT !.last = m.at] /\ c = ApplyDelta(b, m.at, crosses)
      BY <1>1, <1>4, <2>3, <3>1 DEF BitstampFeed, Redundant
    <3>3. c = [b EXCEPT !.at = m.at, !.hole = FALSE]
      BY <1>0, <1>4, <3>1, <3>2 DEF ApplyDelta, GuardCrossed, Books
    <3>4. t.mode = s.mode /\ t.pending = s.pending /\ t.last = m.at /\ t.spliced = s.spliced
      BY <3>2 DEF Syncs
    <3>5. IsLive(c) /\ ~c.hole /\ c.at = m.at
      BY <1>0, <1>4, <3>3 DEF IsLive, Books
    <3>6. ReadyFor(t, c, m.at)
      <4>1. s.pending = {} /\ s.spliced <= s.last /\ m.at = s.last + 1
        BY <1>0, <1>1, <1>4, <2>1, <3>1
      <4>2. t.spliced <= t.last
        BY <1>1, <3>4, <4>1
      <4> QED BY <1>4, <3>4, <3>5, <4>1, <4>2 DEF ReadyFor, IsRun
    <3> QED BY <1>4, <3>4, <3>5, <3>6
  <2> QED BY <2>2, <2>3
<1> QED BY <1>1, <1>2, <1>3, <1>4

\* While nothing is lost the aggregator keeps a Bitstamp book sound, and blames no data.
LEMMA BitstampApply ==
  ASSUME TypeOK, ConnectionIsKnown, MessagesAreKnown, ChainsHold, BitstampIsSpliced,
         NothingLost, venue = Bitstamp, Apply
  PROVE  /\ Sound(Flight', sync', book', pc = "open", rest, restAt)
         /\ \/ IsLive(book') \/ book' = book
            \/ book'.reason \in {"connection_lost", "awaiting_snapshot"}
<1> DEFINE F == Flight
           m == F[1]
<1>1. /\ F \in Seq(Messages) /\ F # <<>> /\ 1 \in DOMAIN F /\ Flight' = Tail(F)
      /\ Sound(F, sync, book, pc = "open", rest, restAt)
      /\ sync \in Syncs /\ book \in Books /\ version \in Nat /\ sync.pending \subseteq 0..version
      /\ restAt \in Nat
  BY AppliedMessage, FlightType, RecoveryAssumption DEF BitstampIsSpliced, TypeOK, MessagesAreKnown
<1>2. \A j \in DOMAIN F : ~IsEnd(F[j]) => F[j] \in Frames /\ Before(F[j]) \in 0..version
                             /\ F[j].kind # "snapshot" /\ F[j].form = "good" /\ F[j].at \in Nat
                             /\ (IsRest(F[j]) => F[j].at <= version)
  BY FlightIsKnown DEF NothingLost, NoneOf, Frames
<1>3. Dense(F) /\ Levelled(F)
  BY DEF ChainsHold, NothingLost, NoneOf
<1>4. \A j \in DOMAIN F : IsStream(F[j]) \/ IsRest(F[j]) => ~IsEnd(F[j])
  BY DEF IsStream, IsRest, IsEnd
<1>5. CASE IsEnd(m)
  <2>1. sync' = FreshSync /\ book' = MarkDesynced(book, "connection_lost") /\ ~IsLive(book')
    BY <1>5, AppliedMessage
  <2>2. FreshSync.mode = "awaiting" /\ FreshSync.pending = {}
    BY DEF FreshSync
  <2>3. book'.reason = "connection_lost"
    BY <1>1, <2>1 DEF MarkDesynced, Books
  <2>4. Sound(Tail(F), sync', book', pc = "open", rest, restAt)
    <3> HIDE DEF F
    <3> QED BY <1>1, <1>5, <2>1, <2>2, SoundAfterEnd
  <2> QED BY <1>1, <2>3, <2>4
<1>6. CASE ~IsEnd(m)
  <2>1. PICK crosses \in BOOLEAN :
           /\ sync' = Feed(Bitstamp, sync, book, m, crosses).sync
           /\ book' = Feed(Bitstamp, sync, book, m, crosses).book
    BY <1>6, AppliedMessage
  <2>2. m \in Frames /\ Before(m) \in 0..version /\ m.kind # "snapshot" /\ m.form = "good" /\ m.at \in Nat
    BY <1>1, <1>2, <1>6
  <2>3. InHeadSession(F, 1)
    <3>1. \A j \in DOMAIN F : ~(j < 1)
      BY <1>1
    <3> QED BY <3>1 DEF InHeadSession
  <2> HIDE DEF F
  <2>4. CASE IsRest(m)
    <3>1. m.at \in 0..version
      BY <1>1, <1>2, <1>6, <2>2, <2>4
    <3>2. BufferReaches(sync.pending, m.at) /\ IsRun(sync.pending)
      BY <1>1, <2>3, <2>4 DEF Sound, RestIsReached, PendingIsARun, IsRun
    <3>3. /\ sync' = BitstampSplice(sync, m.at, crosses).sync
          /\ book' = BitstampSplice(sync, m.at, crosses).book
      BY <2>1, <2>4 DEF Feed, IsRest
    <3>4. IsSpliced(sync.pending, m.at, sync', book')
      BY <1>1, <3>1, <3>2, <3>3, SpliceLeavesNoHole
    <3>5. sync'.last \in Nat /\ IsLive(book') /\ sync.pending \subseteq Nat
      <4>1. sync' \in Syncs
        BY ApplyType DEF TypeOK
      <4> QED BY <1>1, <3>4, <4>1 DEF IsSpliced, Syncs
    <3>6. \A j \in DOMAIN F : IsStream(F[j]) => Before(F[j]) \in Nat
      BY <1>1, <1>2, <1>4
    <3>7. Sound(Tail(F), sync', book', pc = "open", rest, restAt)
      BY <1>1, <2>2, <2>4, <3>4, <3>5, <3>6, SoundAfterRest
    <3> QED BY <1>1, <3>5, <3>7
  <2>5. CASE ~IsRest(m)
    <3>1. m.kind \in {"update", "other"} /\ IsStream(m) /\ Before(m) \in Nat
      BY <1>1, <2>2, <2>5 DEF Frames, IsRest, IsStream
    <3>2. IsFirst(F, 1)
      <4>1. \A j \in DOMAIN F : ~(j < 1)
        BY <1>1
      <4> QED BY <3>1, <4>1 DEF IsFirst
    <3>3. ReadyFor(sync, book, Before(m))
      BY <1>1, <2>3, <3>2 DEF Sound, PendingIsARun, SpliceIsSound, ReadyFor, IsRun
    <3>4. /\ sync'.mode = sync.mode /\ ReadyFor(sync', book', m.at)
          /\ sync.mode = "awaiting" => KeepsReach(sync.pending, m, sync'.pending)
          /\ IsLive(book') \/ book' = book \/ book'.reason = "awaiting_snapshot"
      <4> HIDE DEF m
      <4> QED BY <1>1, <2>1, <2>2, <3>1, <3>3, BitstampFed
    <3>5. \A j \in DOMAIN F : IsRest(F[j]) => F[j].at \in Nat
      BY <1>2, <1>4
    <3>6. Sound(Tail(F), sync', book', pc = "open", rest, restAt)
      BY <1>1, <1>3, <3>1, <3>4, <3>5, SoundAfterFrame
    <3> QED BY <1>1, <3>4, <3>6
  <2> QED BY <2>4, <2>5
<1> QED BY <1>5, <1>6

\* Every step keeps the flight of a Bitstamp book sound while nothing is lost.
LEMMA SplicedStep ==
  ASSUME TypeOK, ConnectionIsKnown, MessagesAreKnown, ChainsHold, BitstampIsSpliced, Next
  PROVE  BitstampIsSpliced'
<1> SUFFICES ASSUME NothingLost', venue = Bitstamp
             PROVE  Sound(Flight', sync', book', pc' = "open", rest', restAt')
  BY VersionGrows DEF BitstampIsSpliced
<1>0. /\ NothingLost /\ NoneOf({"evict"}) /\ Sound(Flight, sync, book, pc = "open", rest, restAt)
      /\ \A m \in {"lag", "skip", "garble", "evict"} : spent'[m] = 0 /\ spent[m] = 0
      /\ pc = "open" => subscribed
  <2>1. NothingLost
    BY NoneOfBefore DEF NothingLost, Mishaps
  <2> QED BY <2>1 DEF NothingLost, NoneOf, BitstampIsSpliced, ConnectionIsKnown
<1>1. /\ queue \in Seq(Messages) /\ wire \in Seq(Messages) /\ Coming \in Seq(Messages)
      /\ Flight \in Seq(Messages) /\ version \in Nat /\ version' \in Nat /\ sent \in Nat
      /\ restAt \in Nat /\ sync \in Syncs
  BY FlightType, VersionGrows, RecoveryAssumption DEF TypeOK
<1>2. ASSUME NEW m, NEW mishaps, Publish(m, mishaps) PROVE ~Full
  BY <1>0, <1>2 DEF Publish, Spending, Mishaps
<1>3. ~Full => Kept = queue /\ KeptFlight = Flight
  BY KeptFlightIs DEF Kept
<1>4. CASE Apply
  BY <1>0, <1>4, BitstampApply DEF Apply, connection
<1>5. CASE ~Apply
  <2>0. sync' = sync /\ book' = book
    BY <1>5, OnlyApplyFeeds
  <2>1. CASE EvictedByOthers
    BY <1>0, <2>1 DEF EvictedByOthers, Spending, Mishaps
  <2>2. CASE SubscriptionTakesEffect
    BY <1>0, <2>2 DEF SubscriptionTakesEffect
  <2>3. CASE (VenueUpdates /\ pc # "open") \/ BackoffEnds
    <3>1. Flight' = Flight
      BY <2>3, SameFlight DEF VenueUpdates, BackoffEnds
    <3>2. (pc' = "open") = (pc = "open") /\ rest' = rest /\ restAt' = restAt
      BY <2>3 DEF VenueUpdates, BackoffEnds
    <3> QED BY <1>0, <2>0, <3>1, <3>2
  <2>4. CASE Receive
    <3>1. Flight' = Flight
      BY <1>2, <1>3, <2>4, ReceiveFlight DEF Receive
    <3>2. pc' = pc /\ rest' = rest /\ restAt' = restAt
      BY <2>4 DEF Receive
    <3> QED BY <1>0, <2>0, <3>1, <3>2
  <2>5. CASE RestAnswered
    <3>1. /\ UNCHANGED <<queue, wire, pc, sent, version>> /\ rest = "asked" /\ rest' = "answered"
          /\ restAt' = version
      BY <2>5 DEF RestAnswered
    <3>2. Flight' = Flight
      BY <3>1, SameFlight
    <3>3. \A j \in DOMAIN Flight : IsStream(Flight[j]) => Before(Flight[j]) \in 0..version
      <4>1. \A m : IsStream(m) => ~IsEnd(m)
        BY DEF IsStream, IsEnd
      <4> QED BY <4>1, FlightIsKnown
    <3>4. sync.pending \subseteq 0..version
      BY DEF MessagesAreKnown
    <3>5. Sound(Flight, sync, book, pc = "open", "answered", version)
      BY <1>0, <1>1, <3>1, <3>3, <3>4, SoundAnswer
    <3> QED BY <2>0, <3>1, <3>2, <3>5
  <2>6. CASE VenueChatters \/ (VenueUpdates /\ pc = "open")
    <3> DEFINE s == queue \o wire
               c == Frame("update", sent, version + 1, "good")
               next == Frame("update", sent + 1, version' + 1, "good")
    <3>1. pc = "open" /\ UNCHANGED <<pc, queue, rest, restAt>> /\ sent' = sent + 1
      BY <1>0, <2>6 DEF VenueChatters, VenueUpdates
    <3>2. \E f \in Frames : IsStream(f) /\ Before(f) = Before(c) /\ wire' = Append(wire, f)
      <4>1. Frame("other", sent, version, "good") \in Frames /\ c \in Frames
        BY <1>1, FrameType
      <4>2. /\ IsStream(c) /\ IsStream(Frame("other", sent, version, "good"))
            /\ Before(c) = Before(Frame("other", sent, version, "good"))
        BY <1>1 DEF Frame, IsStream, Before
      <4>3. CASE VenueChatters
        BY <4>1, <4>2, <4>3 DEF VenueChatters
      <4>4. CASE VenueUpdates /\ pc = "open"
        <5>1. ~(spent' = Spending({"skip"})) /\ ~(spent' = Spending({"garble"}))
          BY <1>0 DEF Spending, Mishaps
        <5>2. wire' = Append(wire, c)
          BY <1>0, <4>4, <5>1 DEF VenueUpdates
        <5> QED BY <4>1, <4>2, <5>2
      <4> QED BY <2>6, <4>3, <4>4
    <3>3. PICK f \in Frames : IsStream(f) /\ Before(f) = Before(c) /\ wire' = Append(wire, f)
      BY <3>2
    <3>4. /\ s \in Seq(Messages) /\ c \in Messages /\ next \in Messages /\ f \in Messages
          /\ IsStream(c) /\ IsStream(next)
      <4>1. c \in Messages /\ next \in Messages /\ f \in Messages
        BY <1>1, FrameType DEF Messages
      <4> QED BY <1>1, <4>1 DEF Frame, IsStream
    <3>5. Flight = Append(s, c) /\ Flight' = Append(Append(s, f), next)
      BY <1>1, <3>1, <3>3, SendFlight
    <3> HIDE DEF s, c, next
    <3>6. Sound(Flight', sync, book, pc = "open", rest, restAt)
      BY <1>0, <3>3, <3>4, <3>5, SoundSend
    <3> QED BY <2>0, <3>1, <3>6
  <2>7. CASE SessionBreaks \/ HearResync
    <3>1. PICK mishaps : EndSession(mishaps)
      BY <2>7 DEF SessionBreaks, HearResync
    <3>2. Flight' = Append(queue, SessionEnded)
      BY <1>2, <1>3, <3>1, EndFlight DEF EndSession
    <3>3. Len(queue) <= Len(Flight) /\ \A k \in 1..Len(queue) : Flight[k] = queue[k]
      BY <1>1 DEF Flight
    <3>4. SessionEnded \in Messages /\ IsEnd(SessionEnded)
      BY DEF Messages, SessionEnded, IsEnd
    <3>5. Sound(Append(queue, SessionEnded), sync, book, FALSE, "idle", restAt')
      BY <1>0, <1>1, <3>3, <3>4, SoundEnd
    <3>6. (pc' = "open") = FALSE /\ rest' = "idle"
      BY <3>1 DEF EndSession
    <3> QED BY <2>0, <3>2, <3>5, <3>6
  <2>8. CASE RestLands
    <3> DEFINE m == Frame("rest", 0, restAt, "good")
               w == wire \o Coming
    <3>1. /\ pc = "open" /\ rest = "answered" /\ UNCHANGED <<pc, restAt>> /\ rest' = "idle"
          /\ Flight' = Append(queue, m) \o w
      BY <1>2, <1>3, <2>8, RestFlight DEF RestLands
    <3>2. Flight = queue \o w /\ w \in Seq(Messages)
      BY <1>1, ConcatAssociates, SMTT(90) DEF Flight
    <3>3. m \in Messages /\ IsRest(m) /\ m.at = restAt
      <4>1. m \in Messages
        BY <1>1, FrameType DEF Messages
      <4> QED BY <4>1 DEF Frame, IsRest
    <3>4. \A k \in DOMAIN w : IsStream(w[k])
      <4>1. \A k \in DOMAIN wire : IsStream(wire[k])
        BY DEF MessagesAreKnown
      <4>2. \A k \in DOMAIN Coming : IsStream(Coming[k])
        BY DEF Coming, Frame, IsStream
      <4>3. \A k \in DOMAIN w : \/ k \in DOMAIN wire /\ w[k] = wire[k]
                                \/ k - Len(wire) \in DOMAIN Coming /\ w[k] = Coming[k - Len(wire)]
        BY <1>1
      <4> HIDE DEF w
      <4> QED BY <4>1, <4>2, <4>3
    <3>5. Sound(queue \o w, sync, book, TRUE, "answered", m.at)
      <4>1. (pc = "open") = TRUE
        BY <3>1
      <4> HIDE DEF w, m
      <4> QED BY <1>0, <3>1, <3>2, <3>3, <4>1
    <3> HIDE DEF w, m
    <3>6. Sound(Append(queue, m) \o w, sync, book, TRUE, "idle", m.at)
      BY <1>1, <3>2, <3>3, <3>4, <3>5, SoundRest
    <3>7. (pc' = "open") = TRUE
      BY <3>1
    <3> QED BY <2>0, <3>1, <3>3, <3>6, <3>7
  <2>9. CASE Connect
    <3> DEFINE m == Frame("update", sent, version + 1, "good")
    <3>1. /\ (pc = "open") = FALSE /\ (pc' = "open") = TRUE /\ rest = "idle" /\ rest' = "asked"
          /\ restAt' = restAt
      BY <2>9 DEF Connect, ConnectionIsKnown
    <3>2. Flight = queue /\ Flight' = Append(queue, m)
      BY <2>9, ConnectFlight
    <3>3. queue # <<>> => IsEnd(queue[Len(queue)])
      BY <3>1 DEF ConnectionIsKnown
    <3>4. queue = <<>> => sync.mode = "awaiting" /\ sync.pending = {}
      BY <1>0, <3>1 DEF ConnectionIsKnown, FreshSync
    <3>5. m \in Messages /\ IsStream(m)
      <4>1. m \in Messages
        BY <1>1, FrameType DEF Messages
      <4> QED BY <4>1 DEF Frame, IsStream
    <3>6. Sound(queue, sync, book, FALSE, "idle", restAt)
      BY <1>0, <3>1, <3>2
    <3> HIDE DEF m
    <3>7. Sound(Append(queue, m), sync, book, TRUE, "asked", restAt)
      BY <1>1, <3>3, <3>4, <3>5, <3>6, SoundConnect
    <3> QED BY <2>0, <3>1, <3>2, <3>7
  <2> QED BY <1>5, <2>1, <2>2, <2>3, <2>4, <2>5, <2>6, <2>7, <2>8, <2>9 DEF Next
<1> QED BY <1>4, <1>5

\* No check fails a book while nothing is lost.
LEMMA AlarmStep ==
  ASSUME TypeOK, ConnectionIsKnown, MessagesAreKnown, ChainsHold, SnapshotsAreExpected,
         StreamContinues, BitstampIsSpliced, NoFalseAlarm, Next
  PROVE  NoFalseAlarm'
<1>1. CASE venue # Bitstamp
  BY <1>1, StreamAlarms
<1>2. CASE venue = Bitstamp
  <2>1. (NothingLost)' => NothingLost
    BY NoneOfBefore DEF NothingLost, Mishaps
  <2>2. CASE ~Apply
    BY <2>1, <2>2, OnlyApplyFeeds DEF NoFalseAlarm
  <2>3. CASE Apply
    <3>1. NothingLost =>
             \/ IsLive(book') \/ book' = book
             \/ book'.reason \in {"connection_lost", "awaiting_snapshot"}
      BY <1>2, <2>3, BitstampApply
    <3> QED BY <2>1, <3>1 DEF NoFalseAlarm, IsLive, IsDesynced
  <2> QED BY <2>2, <2>3
<1> QED BY <1>1, <1>2

-------------------------------------------------------------------------------
(* The inductive invariant.                                                  *)

\* It holds at the start: nothing is on its way.
LEMMA InitInvariant == Init => IInv
<1> SUFFICES ASSUME Init PROVE IInv
  OBVIOUS
<1>1. /\ venue \in Venues /\ version = 0 /\ pc = "connecting" /\ subscribed = FALSE /\ sent = 0
      /\ wire = <<>> /\ rest = "idle" /\ restAt = 0 /\ queue = <<>> /\ sync = FreshSync
      /\ book = EmptyBook /\ wanted = FALSE /\ spent = [m \in Mishaps |-> 0]
  BY DEF Init
<1>2. Flight = <<>> /\ DOMAIN Flight = {}
  <2>1. Coming = <<>> /\ queue \o wire = <<>> \o <<>>
    BY <1>1 DEF Coming
  <2>2. <<>> \o <<>> = <<>> /\ DOMAIN (<<>>) = {}
    <3>1. <<>> \in Seq({})
      OBVIOUS
    <3> QED BY <3>1, ConcatEmpty
  <2> QED BY <1>1, <2>1, <2>2 DEF Flight
<1>3. ~IsLive(book) /\ ~IsDesynced(book)
  BY <1>1 DEF EmptyBook, IsLive, IsDesynced
<1>4. FreshSync.mode = "awaiting" /\ FreshSync.pending = {} /\ FreshSync \in Syncs
  BY DEF FreshSync, Syncs, Unset
<1>5. TypeOK
  <2>1. EmptyBook \in Books
    BY DEF EmptyBook, Books
  <2>2. <<>> \in Seq(Frames) /\ <<>> \in Seq(Frames \union {SessionEnded}) /\ Len(<<>>) = 0
    OBVIOUS
  <2>3. \A m \in Mishaps : spent[m] \in 0..Budget[m]
    BY <1>1, RecoveryAssumption
  <2>4. 0 \in 0..MaxVersion /\ 0 <= MaxWire /\ 0 <= Capacity
    BY RecoveryAssumption
  <2> QED BY <1>1, <1>4, <2>1, <2>2, <2>3, <2>4 DEF TypeOK
<1>6. ConnectionIsKnown
  <2>1. \A mishaps \in SUBSET Mishaps : NoneOf(mishaps)
    BY <1>1 DEF NoneOf
  <2> QED BY <1>1, <1>3 DEF ConnectionIsKnown, Mishaps
<1>7. MessagesAreKnown
  BY <1>1, <1>4 DEF MessagesAreKnown
<1>8. SessionsStartWhole /\ ChainsHold
  BY <1>2 DEF SessionsStartWhole, ChainsHold, Increasing, Dense, Levelled
<1>9. /\ KrakenIsVerified /\ CoinbaseIsChecked /\ SnapshotsAreExpected /\ StreamContinues
      /\ StreamIsFixed /\ NoFalseAlarm
  BY <1>1, <1>2, <1>3 DEF KrakenIsVerified, CoinbaseIsChecked, SnapshotsAreExpected, StreamContinues,
     StreamIsFixed, SomeoneIsFixingIt, NoFalseAlarm
<1>10. Sound(Flight, sync, book, pc = "open", rest, restAt)
  BY <1>1, <1>2, <1>3, <1>4 DEF Sound, PendingIsARun, SpliceIsSound, RestComesOnce, RestIsReached,
     RestIsUnderWay, BufferReaches
<1> QED BY <1>5, <1>6, <1>7, <1>8, <1>9, <1>10 DEF IInv, BitstampIsSpliced

\* Every step keeps it.
LEMMA StepInvariant == IInv /\ [Next]_vars => IInv'
<1> SUFFICES ASSUME IInv, [Next]_vars PROVE IInv'
  OBVIOUS
<1>0. /\ TypeOK /\ ConnectionIsKnown /\ MessagesAreKnown /\ SessionsStartWhole /\ ChainsHold
      /\ KrakenIsVerified /\ CoinbaseIsChecked /\ SnapshotsAreExpected /\ StreamContinues
      /\ StreamIsFixed /\ BitstampIsSpliced /\ NoFalseAlarm
  BY DEF IInv
<1>1. CASE Next
  <2>1. TypeOK'
    BY <1>0, <1>1, TypeStep
  <2>2. ConnectionIsKnown' /\ MessagesAreKnown'
    BY <1>0, <1>1, ConnectionStep, MessagesStep
  <2>3. SessionsStartWhole'
    BY <1>0, <1>1, WholeStep
  <2>4. ChainsHold'
    BY <1>0, <1>1, ChainsStep
  <2>5. KrakenIsVerified'
    BY <1>0, <1>1, KrakenStep
  <2>6. CoinbaseIsChecked'
    <3>1. CASE Apply
      BY <1>0, <3>1, CoinbaseApply
    <3>2. CASE ~Apply
      BY <1>0, <1>1, <3>2, CoinbaseHead
    <3> QED BY <3>1, <3>2
  <2>7. SnapshotsAreExpected'
    BY <1>0, <1>1, SnapshotStep
  <2>8. StreamContinues'
    BY <1>0, <1>1, StreamStep
  <2>9. StreamIsFixed'
    BY <1>0, <1>1, FixedStep
  <2>10. BitstampIsSpliced'
    BY <1>0, <1>1, SplicedStep
  <2>11. NoFalseAlarm'
    BY <1>0, <1>1, AlarmStep
  <2> QED BY <2>1, <2>2, <2>3, <2>4, <2>5, <2>6, <2>7, <2>8, <2>9, <2>10, <2>11 DEF IInv
<1>2. CASE UNCHANGED vars
  <2>1. /\ UNCHANGED <<venue, version, pc, subscribed, sent, wire, rest, restAt, queue, sync>>
        /\ UNCHANGED <<book, wanted, spent>>
    BY <1>2 DEF vars
  <2>2. Flight' = Flight
    BY <2>1, SameFlight
  <2>3. TypeOK' /\ ConnectionIsKnown' /\ MessagesAreKnown' /\ SessionsStartWhole' /\ ChainsHold'
    BY <1>0, <2>1, <2>2 DEF TypeOK, ConnectionIsKnown, MessagesAreKnown, SessionsStartWhole,
       ChainsHold, NoneOf
  <2>4. /\ KrakenIsVerified' /\ CoinbaseIsChecked' /\ SnapshotsAreExpected' /\ StreamContinues'
        /\ StreamIsFixed' /\ BitstampIsSpliced' /\ NoFalseAlarm'
    BY <1>0, <2>1, <2>2 DEF KrakenIsVerified, CoinbaseIsChecked, SnapshotsAreExpected,
       StreamContinues, StreamIsFixed, SomeoneIsFixingIt, BitstampIsSpliced, NoFalseAlarm,
       NothingLost, NoneOf
  <2> QED BY <2>3, <2>4 DEF IInv
<1> QED BY <1>1, <1>2

\* The inductive invariant holds of every behaviour.
THEOREM Invariance == Spec => []IInv
<1>1. Init => IInv
  BY InitInvariant
<1>2. IInv /\ [Next]_vars => IInv'
  BY StepInvariant
<1> QED BY <1>1, <1>2, PTL DEF Spec

-------------------------------------------------------------------------------
(* What it says.                                                             *)

\* While nothing is evicted an outage is told: the end of the last session is the last
\* thing in the channel until the book has heard it.
THEOREM OutagesAreTold == Spec => []Inv
<1>1. IInv => Inv
  <2> SUFFICES ASSUME IInv PROVE Inv
    OBVIOUS
  <2>1. TypeOK /\ ConnectionIsKnown
    BY DEF IInv
  <2>2. ASSUME NoneOf({"evict"}), pc # "open", IsLive(book) PROVE HasAny(queue, {"ended"})
    <3>1. queue # <<>> /\ IsEnd(queue[Len(queue)])
      BY <2>1, <2>2 DEF ConnectionIsKnown
    <3>2. Len(queue) \in DOMAIN queue
      BY <2>1, <3>1, FlightType
    <3> QED BY <3>1, <3>2 DEF HasAny, IsEnd
  <2> QED BY <2>1, <2>2 DEF Inv, OutageIsTold, NotLiveWhileDisconnected
<1> QED BY <1>1, Invariance, PTL

\* A live book has the integrity that its venue's checks promise.
THEOREM LiveBooksAreTrue == Spec => []TrustMatchesIntegrity
<1>1. IInv => TrustMatchesIntegrity
  <2> SUFFICES ASSUME IInv, IsLive(book), book.hole
               PROVE  /\ venue # Kraken
                      /\ venue = Coinbase => spent["garble"] > 0 \/ spent["evict"] > 1
                      /\ venue = Bitstamp => ~NothingLost
    BY DEF TrustMatchesIntegrity
  <2>1. /\ KrakenIsVerified /\ CoinbaseIsChecked /\ BitstampIsSpliced /\ TypeOK
        /\ spent["garble"] \in Nat /\ spent["evict"] \in Nat /\ sync.mode \in {"awaiting", "live"}
    BY RecoveryAssumption DEF IInv, TypeOK, Mishaps, Syncs
  <2>2. venue # Kraken
    BY <2>1 DEF KrakenIsVerified
  <2>3. venue = Coinbase => spent["garble"] > 0 \/ spent["evict"] > 1
    BY <2>1 DEF CoinbaseIsChecked, NoneOf
  <2>4. venue = Bitstamp => ~NothingLost
    BY <2>1 DEF BitstampIsSpliced, Sound, SpliceIsSound
  <2> QED BY <2>2, <2>3, <2>4
<1> QED BY <1>1, Invariance, PTL

\* No book is blamed on data that was not lost.
THEOREM NoBookIsBlamedInVain == Spec => []NoFalseAlarm
<1>1. IInv => NoFalseAlarm
  BY DEF IInv
<1> QED BY <1>1, Invariance, PTL

\* Whenever a book is not live, something on its way will make it live.
THEOREM AFixIsUnderWay == Spec => []FixUnderWay
<1>1. IInv => FixUnderWay
  <2> SUFFICES ASSUME IInv, NoneOf({"evict"}), venue = Bitstamp => NothingLost
               PROVE  SomeoneIsFixingIt
    BY DEF FixUnderWay, Recoverable
  <2>1. TypeOK /\ StreamIsFixed /\ BitstampIsSpliced /\ MessagesAreKnown
    BY DEF IInv
  <2>2. CASE venue # Bitstamp
    BY <2>1, <2>2 DEF StreamIsFixed
  <2>3. CASE venue = Bitstamp
    <3> SUFFICES ASSUME ~IsLive(book), pc = "open", rest = "idle"
                 PROVE  HasAny(queue, {"snapshot", "rest", "ended"})
      BY DEF SomeoneIsFixingIt
    <3>1. Sound(Flight, sync, book, pc = "open", rest, restAt)
      BY <2>1, <2>3 DEF BitstampIsSpliced
    <3>2. HasAny(Flight, {"ended", "rest"})
      BY <3>1 DEF Sound, SpliceIsSound, RestIsUnderWay
    <3>3. PICK i \in DOMAIN Flight : IsEnd(Flight[i]) \/ IsRest(Flight[i])
      BY <3>2 DEF HasAny, IsEnd, IsRest
    <3>4. /\ queue \in Seq(Messages) /\ wire \in Seq(Messages) /\ Coming \in Seq(Messages)
      BY <2>1, FlightType
    <3>5. \/ \E k \in DOMAIN queue : Flight[i] = queue[k]
          \/ \E k \in DOMAIN wire : Flight[i] = wire[k]
          \/ \E k \in DOMAIN Coming : Flight[i] = Coming[k]
      BY <3>4, SMTT(90) DEF Flight
    <3>6. ~\E k \in DOMAIN wire : Flight[i] = wire[k]
      BY <2>1, <3>3 DEF MessagesAreKnown, IsStream, IsEnd, IsRest
    <3>7. ~\E k \in DOMAIN Coming : Flight[i] = Coming[k]
      <4>1. \A k \in DOMAIN Coming : IsStream(Coming[k])
        BY DEF Coming, Frame, IsStream
      <4> QED BY <3>3, <4>1 DEF IsStream, IsEnd, IsRest
    <3> QED BY <3>3, <3>5, <3>6, <3>7 DEF HasAny, IsEnd, IsRest
  <2> QED BY <2>2, <2>3
<1> QED BY <1>1, Invariance, PTL
===============================================================================
