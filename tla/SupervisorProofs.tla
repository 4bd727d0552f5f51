--------------------------- MODULE SupervisorProofs ---------------------------
(* Two theorems about Supervisor, for every set of streams and every         *)
(* capacity of the channel: a pass lets go of connections before it takes on *)
(* any, and no book is left live on a connection that is gone.               *)
(*                                                                           *)
(* The second is not inductive: it says nothing of the frames that are still *)
(* in the channel, and each of them will make the book live when it is       *)
(* applied.  FramesAreFollowed says it of them.                              *)
EXTENDS Supervisor, FiniteSetTheorems, TLAPS

-------------------------------------------------------------------------------
(* The inductive invariant.                                                  *)

\* The n-th message of the channel is a frame of stream s.
IsFrame(s, n) == queue[n].stream = s /\ queue[n].kind = "snapshot"

\* The end of a session of stream s is in the channel behind its n-th message.
EndBehind(s, n) ==
    \E k \in DOMAIN queue : k > n /\ queue[k].kind = "ended" /\ queue[k].stream = s

\* The frame at n is from the open connection of s.
IsCurrent(s, n) == task[s] = "open" /\ queue[n].session = session[s]

\* A frame in the channel is from the open connection, or the end of its session
\* follows it, unless that end was evicted or an aborted task wrote the frame.
FramesAreFollowed ==
    \A s \in Streams \ blemished : \A n \in DOMAIN queue :
        IsFrame(s, n) => IsCurrent(s, n) \/ EndBehind(s, n)

\* An open connection was counted when it was opened (pipeline.rs:412-459).
OpenIsNumbered == \A s \in Streams : task[s] = "open" => session[s] >= 1

IInv == TypeOK /\ OpenIsNumbered /\ PeakIsBounded /\ FramesAreFollowed /\ LiveBookIsFed
-------------------------------------------------------------------------------
(* Type correctness.                                                         *)

\* A send keeps the channel a channel, and blemishes streams.
LEMMA PublishType ==
  ASSUME TypeOK, NEW m \in Messages, NEW late \in SUBSET Streams, Publish(m, late)
  PROVE  /\ queue' \in Seq(Messages) /\ Len(queue') <= Capacity
         /\ blemished' \subseteq Streams
<1>1. queue \in Seq(Messages) /\ Len(queue) <= Capacity /\ blemished \subseteq Streams
  BY DEF TypeOK
<1>2. \A e \in ToSet(Evicted) : e.stream \in Streams
  <2>1. CASE Len(queue) = Capacity
    <3>1. Head(queue) \in Messages
      BY <1>1, <2>1, SupervisorAssumption
    <3>2. ToSet(Evicted) = {Head(queue)}
      BY <2>1 DEF Evicted, ToSet
    <3> QED BY <3>1, <3>2 DEF Messages
  <2>2. CASE Len(queue) # Capacity
    BY <2>2 DEF Evicted, ToSet
  <2> QED BY <2>1, <2>2
<1>3. CASE Len(queue) = Capacity
  <2>1. queue # <<>> /\ Evicted # <<>>
    BY <1>1, <1>3, SupervisorAssumption DEF Evicted
  <2>2. queue' = Append(Tail(queue), m)
    BY <2>1 DEF Publish
  <2> QED BY <1>1, <1>2, <1>3, <2>1, <2>2 DEF Publish
<1>4. CASE Len(queue) # Capacity
  <2>1. queue' = Append(queue, m)
    BY <1>4 DEF Publish, Evicted
  <2>2. Len(queue') = Len(queue) + 1 /\ Len(queue) < Capacity
    BY <1>1, <1>4, <2>1, SupervisorAssumption
  <2>3. blemished' \subseteq Streams
    BY <1>1, <1>2 DEF Publish
  <2> QED BY <1>1, <2>1, <2>2, <2>3, SupervisorAssumption
<1> QED BY <1>3, <1>4

\* What the code publishes is a message.
LEMMA MessageType ==
  ASSUME TypeOK, NEW s \in Streams
  PROVE  /\ Message("ended", s, 0) \in Messages
         /\ Message("snapshot", s, session[s]) \in Messages
         /\ \A g \in ghosts : Message("snapshot", g.stream, g.session) \in Messages
  BY SupervisorAssumption DEF TypeOK, Message, Messages

\* A stream that is let go is no longer among those that run, and its task may
\* be aborted in the middle of a frame.
LEMMA ReleaseStreamType ==
  ASSUME TypeOK, OpenIsNumbered, NEW s \in running, ReleaseStream(s)
  PROVE  /\ running' \subseteq running
         /\ task' \in [Streams -> {"none", "connecting", "open"}]
         /\ \A t \in Streams : task'[t] # "none" <=> t \in running'
         /\ \A t \in Streams : task'[t] = "open" => task[t] = "open"
         /\ ghosts' \subseteq [stream : Streams, session : 1..MaxSessions]
         /\ queue' \in Seq(Messages) /\ Len(queue') <= Capacity
         /\ blemished' \subseteq Streams
<1>1. s \in Streams
  BY DEF TypeOK
<1>2. task[s] = "open" => session[s] \in 1..MaxSessions
  BY <1>1, SupervisorAssumption DEF TypeOK, OpenIsNumbered
<1>3. ghosts' \subseteq [stream : Streams, session : 1..MaxSessions]
  BY <1>1, <1>2 DEF TypeOK, ReleaseStream
<1>4. queue' \in Seq(Messages) /\ Len(queue') <= Capacity /\ blemished' \subseteq Streams
  BY <1>1, MessageType, PublishType DEF ReleaseStream
<1>5. \A t \in Streams : task'[t] = IF t = s THEN "none" ELSE task[t]
  BY <1>1 DEF ReleaseStream, TypeOK
<1> QED BY <1>1, <1>3, <1>4, <1>5 DEF TypeOK, ReleaseStream

\* Every step of the coordinator, and of the process around it.
LEMMA CoordinationType ==
  ASSUME TypeOK, Coordination \/ Stop
  PROVE  TypeOK'
<1>1. CASE PublishOwned
  BY <1>1, SupervisorAssumption DEF TypeOK, PublishOwned, supervisor, connections
<1>2. CASE CoordinatorReleases
  BY <1>2 DEF TypeOK, CoordinatorReleases, supervisor, connections
<1>3. CASE CoordinatorWithdraws
  BY <1>3 DEF TypeOK, CoordinatorWithdraws, supervisor, connections
<1>4. CASE Stop
  BY <1>4 DEF TypeOK, Stop, ownership, supervisor, connections
<1> QED BY <1>1, <1>2, <1>3, <1>4 DEF Coordination

\* Only so many connections are ever opened, so only so many can be left over.
LEMMA ConnectionsAreFinite ==
  ASSUME TypeOK
  PROVE  IsFiniteSet(running) /\ IsFiniteSet(ghosts) /\ Held \in Nat
<1>1. IsFiniteSet(running)
  BY SupervisorAssumption, FS_Subset DEF TypeOK
<1>2. IsFiniteSet(Streams \X (1..MaxSessions))
  <2>1. IsFiniteSet(1..MaxSessions)
    BY SupervisorAssumption, FS_Interval
  <2> QED BY <2>1, SupervisorAssumption, FS_Product
<1>3. IsFiniteSet(ghosts)
  <2> DEFINE f == [g \in ghosts |-> <<g.stream, g.session>>]
  <2>1. ghosts \subseteq [stream : Streams, session : 1..MaxSessions]
    BY DEF TypeOK
  <2>2. f \in [ghosts -> Streams \X (1..MaxSessions)]
    BY <2>1
  <2>3. \A g, h \in ghosts : f[g] = f[h] => g = h
    <3>1. ASSUME NEW g \in ghosts, NEW h \in ghosts, f[g] = f[h] PROVE g = h
      <4>1. g.stream = h.stream /\ g.session = h.session
        BY <3>1
      <4> QED BY <2>1, <4>1
    <3> QED BY <3>1
  <2> HIDE DEF f
  <2>4. f \in Injection(ghosts, Streams \X (1..MaxSessions))
    BY <2>2, <2>3 DEF Injection, IsInjective
  <2> QED BY <1>2, <2>4, FS_Injection
<1> QED BY <1>1, <1>3, FS_CardinalityType DEF Held

\* Every step of the supervisor: what it counts are connections.
LEMMA SupervisionType ==
  ASSUME TypeOK, OpenIsNumbered, Supervision
  PROVE  TypeOK' /\ OpenIsNumbered'
<1>1. Held \in Nat
  BY ConnectionsAreFinite
<1>2. CASE Borrow
  BY <1>1, <1>2 DEF Borrow, BeginReconcile, TypeOK, OpenIsNumbered, connections
<1>3. CASE Release
  <2>1. PICK s \in running \ target : ReleaseStream(s)
    BY <1>3 DEF Release
  <2> QED BY <1>3, <2>1, ReleaseStreamType
      DEF Release, TypeOK, OpenIsNumbered, ownership, connections
<1>4. CASE Acquire
  <2>1. \A s \in Streams : task'[s] = IF s \in running' \ running THEN "connecting" ELSE task[s]
    BY <1>4 DEF Acquire
  <2>2. task' \in [Streams -> {"none", "connecting", "open"}]
    BY <1>4 DEF Acquire, TypeOK
  <2>3. running \subseteq running' /\ running' \subseteq Streams \ Unbuildable
    BY <1>4 DEF Acquire, TypeOK
  <2>4. \A s \in Streams : task'[s] # "none" <=> s \in running'
    BY <2>1, <2>3 DEF TypeOK
  <2> QED BY <1>4, <2>1, <2>2, <2>3, <2>4
      DEF Acquire, TypeOK, OpenIsNumbered, ownership, connections
<1>5. CASE SeesChange
  BY <1>5 DEF SeesChange, TypeOK, OpenIsNumbered, ownership, connections
<1>6. CASE BeginLastPass
  <2>1. CASE running = {}
    BY <1>6, <2>1 DEF BeginLastPass, TypeOK, OpenIsNumbered, ownership, connections
  <2>2. CASE running # {}
    <3>1. PICK s \in running : ReleaseStream(s)
      BY <1>6, <2>2 DEF BeginLastPass
    <3> QED BY <1>6, <2>2, <3>1, ReleaseStreamType
        DEF BeginLastPass, TypeOK, OpenIsNumbered, ownership, connections
  <2> QED BY <2>1, <2>2
<1> QED BY <1>2, <1>3, <1>4, <1>5, <1>6 DEF Supervision

\* Every step of an ingest task, aborted or not, and of the aggregator.
LEMMA TasksType ==
  ASSUME TypeOK, OpenIsNumbered,
         (\E s \in Streams : Connect(s) \/ Frame(s) \/ SessionEnds(s)) \/ GhostEnds \/ Apply
  PROVE  TypeOK' /\ OpenIsNumbered'
<1>1. ASSUME NEW s \in Streams, Connect(s) PROVE TypeOK' /\ OpenIsNumbered'
  BY <1>1, SupervisorAssumption
  DEF Connect, Goto, TypeOK, OpenIsNumbered, ownership, supervisor
<1>2. ASSUME NEW s \in Streams, Frame(s) PROVE TypeOK' /\ OpenIsNumbered'
  <2>1. queue' \in Seq(Messages) /\ Len(queue') <= Capacity /\ blemished' \subseteq Streams
    BY <1>2, MessageType, PublishType DEF Frame
  <2> QED BY <1>2, <2>1
      DEF Frame, TypeOK, OpenIsNumbered, ownership, supervisor, connections
<1>3. ASSUME NEW s \in Streams, SessionEnds(s) PROVE TypeOK' /\ OpenIsNumbered'
  BY <1>3, MessageType, PublishType, SMTT(90)
  DEF SessionEnds, Goto, TypeOK, OpenIsNumbered, ownership, supervisor, connections
<1>4. CASE GhostEnds
  <2>1. PICK g \in ghosts :
          /\ ghosts' = ghosts \ {g}
          /\ \/ Publish(Message("snapshot", g.stream, g.session), {g.stream})
             \/ UNCHANGED <<queue, blemished>>
          /\ UNCHANGED <<ownership, stopping, supervisor, task, connections, book>>
    BY <1>4 DEF GhostEnds
  <2>2. {g.stream} \in SUBSET Streams
    BY DEF TypeOK
  <2>3. queue' \in Seq(Messages) /\ Len(queue') <= Capacity /\ blemished' \subseteq Streams
    BY <2>1, <2>2, MessageType, PublishType DEF TypeOK
  <2> QED BY <2>1, <2>3 DEF TypeOK, OpenIsNumbered, ownership, supervisor, connections
<1>5. CASE Apply
  <2>1. Head(queue) \in Messages /\ Tail(queue) \in Seq(Messages) /\ Len(Tail(queue)) <= Capacity
    BY <1>5, SupervisorAssumption DEF Apply, TypeOK
  <2>2. book' \in [Streams -> [live : BOOLEAN, session : 0..MaxSessions]]
    BY <1>5, <2>1, SupervisorAssumption, SMTT(90) DEF Apply, Applied, Unknown, TypeOK, Messages
  <2> QED BY <1>5, <2>1, <2>2
      DEF Apply, TypeOK, OpenIsNumbered, ownership, supervisor, connections
<1> QED BY <1>1, <1>2, <1>3, <1>4, <1>5
-------------------------------------------------------------------------------
(* What a pass holds.                                                        *)

\* A pass only lets go until it takes on, and takes on what is wanted: a stream
\* that is let go leaves at most its own connection behind (cluster.rs:96-140).
LEMMA PassStep ==
  ASSUME TypeOK, PeakIsBounded, [Next]_vars
  PROVE  PeakIsBounded'
<1>0. IsFiniteSet(running) /\ IsFiniteSet(ghosts) /\ Held \in Nat
  BY ConnectionsAreFinite
<1>1. ASSUME UNCHANGED <<supervisor, ghosts>> PROVE PeakIsBounded'
  BY <1>1 DEF PeakIsBounded, Held, supervisor
<1>2. CASE Borrow
  <2>1. pc' = "release" /\ carried' = Held /\ UNCHANGED <<running, ghosts>>
    BY <1>2 DEF Borrow, BeginReconcile
  <2> QED BY <1>0, <2>1 DEF PeakIsBounded, Held
<1>3. CASE Release
  <2>1. PICK s \in running \ target : ReleaseStream(s)
    BY <1>3 DEF Release
  <2>2. Held <= carried /\ pc' = "release" /\ carried' = carried /\ carried \in Nat
    BY <1>3 DEF Release, PeakIsBounded, TypeOK
  <2>3. Cardinality(running') = Cardinality(running) - 1
    BY <1>0, <2>1, FS_RemoveElement DEF ReleaseStream
  <2>4. PICK g : ghosts' = ghosts \/ ghosts' = ghosts \union {g}
    BY <2>1 DEF ReleaseStream
  <2>5. Cardinality(ghosts') <= Cardinality(ghosts) + 1 /\ Cardinality(ghosts') \in Nat
    <3>1. Cardinality(ghosts) \in Nat
      BY <1>0, FS_CardinalityType
    <3>2. Cardinality(ghosts \union {g}) \in {Cardinality(ghosts), Cardinality(ghosts) + 1}
      BY <1>0, FS_AddElement
    <3> QED BY <2>4, <3>1, <3>2
  <2>6. Cardinality(running) \in Nat /\ Cardinality(ghosts) \in Nat
    BY <1>0, FS_CardinalityType
  <2>7. Held' <= Held
    BY <2>3, <2>5, <2>6 DEF Held
  <2> QED BY <1>0, <2>2, <2>3, <2>5, <2>6, <2>7 DEF PeakIsBounded, Held
<1>4. CASE Acquire
  BY <1>4 DEF Acquire, PeakIsBounded
<1>5. CASE SeesChange
  BY <1>5 DEF SeesChange, PeakIsBounded
<1>6. CASE BeginLastPass
  <2>1. running' \subseteq running /\ target' = target /\ pc # "release" /\ pc' # "release"
    BY <1>6 DEF BeginLastPass, ReleaseStream
  <2> QED BY <2>1 DEF PeakIsBounded
<1>7. CASE Coordination \/ Stop
  BY <1>1, <1>7 DEF Coordination, PublishOwned, CoordinatorReleases, CoordinatorWithdraws, Stop
<1>8. CASE \E s \in Streams : Connect(s) \/ Frame(s) \/ SessionEnds(s)
  BY <1>1, <1>8 DEF Connect, Frame, SessionEnds
<1>9. CASE GhostEnds
  <2>1. ghosts' \subseteq ghosts /\ UNCHANGED supervisor
    BY <1>9 DEF GhostEnds
  <2>2. /\ Cardinality(ghosts') <= Cardinality(ghosts)
        /\ Cardinality(ghosts') \in Nat /\ Cardinality(ghosts) \in Nat
    BY <1>0, <2>1, FS_Subset, FS_CardinalityType
  <2>3. Cardinality(running) \in Nat
    BY <1>0, FS_CardinalityType
  <2>4. carried \in Nat
    BY DEF TypeOK
  <2> QED BY <2>1, <2>2, <2>3, <2>4 DEF PeakIsBounded, Held, supervisor
<1>10. CASE Apply
  BY <1>1, <1>10 DEF Apply
<1>11. CASE UNCHANGED vars
  BY <1>1, <1>11 DEF vars, supervisor
<1> QED
  BY <1>2, <1>3, <1>4, <1>5, <1>6, <1>7, <1>8, <1>9, <1>10, <1>11
  DEF Next, Supervision, Finished

-------------------------------------------------------------------------------
(* What the channel still holds.                                             *)

\* A send keeps the order of the messages it does not evict, and a stream whose
\* end it evicts, or whose frame is late, is blemished (channel.rs:156-171).
LEMMA PublishKeepsOrder ==
  ASSUME TypeOK, NEW m \in Messages, NEW late \in SUBSET Streams, Publish(m, late),
         NEW s \in Streams \ blemished'
  PROVE  /\ s \notin blemished /\ s \notin late
         /\ EndQueued(s) => EndQueued(s)'
         /\ m.kind = "ended" /\ m.stream = s => EndQueued(s)'
         /\ \A n \in DOMAIN queue' :
               \/ n = Len(queue') /\ queue'[n] = m
               \/ /\ m.kind = "ended" /\ m.stream = s => EndBehind(s, n)'
                  /\ \E k \in DOMAIN queue :
                        /\ queue'[n] = queue[k]
                        /\ EndBehind(s, k) => EndBehind(s, n)'
<1>1. s \notin blemished /\ s \notin late
  BY DEF Publish
<1>2. queue \in Seq(Messages) /\ Len(queue) \in Nat
  BY DEF TypeOK
<1>3. CASE Evicted # <<>>
  <2>1. queue # <<>> /\ queue' = Append(Tail(queue), m) /\ Evicted = <<Head(queue)>>
    BY <1>2, <1>3, SupervisorAssumption DEF Publish, Evicted
  <2>2. Len(queue') = Len(queue) /\ queue'[Len(queue)] = m /\ Len(queue) >= 1
    BY <1>2, <2>1
  <2>3. \A n \in 1 .. Len(queue) - 1 : queue'[n] = queue[n + 1]
    BY <1>2, <2>1
  <2>4. ~(queue[1].kind = "ended" /\ queue[1].stream = s)
    <3>1. queue[1] \in ToSet(Evicted)
      BY <1>2, <2>1 DEF ToSet
    <3> QED BY <3>1 DEF Publish
  <2>5. EndQueued(s) => EndQueued(s)'
    <3>1. ASSUME NEW k \in DOMAIN queue, queue[k].kind = "ended", queue[k].stream = s
          PROVE  k - 1 \in DOMAIN queue' /\ queue'[k - 1] = queue[k]
      <4>1. k # 1
        BY <2>4, <3>1
      <4> QED BY <1>2, <2>1, <2>2, <2>3, <4>1
    <3> QED BY <3>1 DEF EndQueued, ToSet
  <2>6. DOMAIN queue' = 1..Len(queue) /\ DOMAIN queue = 1..Len(queue)
    BY <1>2, <2>1, <2>2
  <2>7. ASSUME NEW k \in DOMAIN queue \ {1}, EndBehind(s, k)
        PROVE  EndBehind(s, k - 1)'
    <3>1. PICK j \in DOMAIN queue : j > k /\ queue[j].kind = "ended" /\ queue[j].stream = s
      BY <2>7 DEF EndBehind
    <3>2. j - 1 \in DOMAIN queue' /\ j - 1 > k - 1 /\ queue'[j - 1] = queue[(j - 1) + 1]
      BY <1>2, <2>3, <2>6, <3>1
    <3>3. (j - 1) + 1 = j
      BY <1>2, <2>6
    <3> QED BY <3>1, <3>2, <3>3 DEF EndBehind
  <2>8. ASSUME NEW n \in DOMAIN queue', n # Len(queue)
        PROVE  /\ n + 1 \in DOMAIN queue \ {1} /\ (n + 1) - 1 = n
               /\ queue'[n] = queue[n + 1]
    <3>1. n \in 1 .. Len(queue) - 1
      BY <1>2, <2>6, <2>8
    <3>2. n + 1 \in 1..Len(queue) /\ n + 1 # 1 /\ (n + 1) - 1 = n
      BY <1>2, <3>1
    <3> QED BY <2>3, <2>6, <3>1, <3>2
  <2>9. \A n \in DOMAIN queue' : n # Len(queue) => n < Len(queue)
    BY <1>2, <2>6
  <2>10. m.kind = "ended" /\ m.stream = s =>
           EndQueued(s)' /\ \A n \in DOMAIN queue' : n # Len(queue) => EndBehind(s, n)'
    BY <2>2, <2>6, <2>9 DEF EndQueued, EndBehind, ToSet
  <2> QED BY <1>1, <2>2, <2>5, <2>7, <2>8, <2>10
<1>4. CASE Evicted = <<>>
  <2>1. queue' = Append(queue, m)
    BY <1>4 DEF Publish
  <2>2. /\ DOMAIN queue = 1..Len(queue) /\ DOMAIN queue' = 1 .. Len(queue) + 1
        /\ Len(queue') = Len(queue) + 1 /\ queue'[Len(queue) + 1] = m
        /\ \A n \in DOMAIN queue : queue'[n] = queue[n]
    BY <1>2, <2>1
  <2>3. EndQueued(s) => EndQueued(s)'
    BY <2>2 DEF EndQueued, ToSet
  <2>4. \A k \in DOMAIN queue : EndBehind(s, k) => EndBehind(s, k)'
    BY <2>2 DEF EndBehind
  <2>5. m.kind = "ended" /\ m.stream = s =>
           EndQueued(s)' /\ \A n \in DOMAIN queue : EndBehind(s, n)'
    BY <2>2 DEF EndQueued, EndBehind, ToSet
  <2> QED BY <1>1, <2>2, <2>3, <2>4, <2>5
<1> QED BY <1>3, <1>4
-------------------------------------------------------------------------------
(* Who feeds a live book.                                                    *)

\* Every frame of s in the channel is current or followed by an end, and so is
\* the one that made its book live.
Follows(s) ==
    /\ \A n \in DOMAIN queue : IsFrame(s, n) => IsCurrent(s, n) \/ EndBehind(s, n)
    /\ book[s].live => Fed(s) \/ EndQueued(s)

FeedInv == FramesAreFollowed /\ LiveBookIsFed

\* A send keeps it for a stream whose connection it leaves alone, if what it sends
\* is not a frame of that stream, or one of the open connection.
LEMMA PublishFollows ==
  ASSUME TypeOK, NEW m \in Messages, NEW late \in SUBSET Streams, Publish(m, late),
         NEW s \in Streams \ blemished', Follows(s), UNCHANGED <<session, book>>,
         task'[s] = task[s] \/ (m.kind = "ended" /\ m.stream = s),
         m.kind = "snapshot" /\ m.stream = s => task[s] = "open" /\ m.session = session[s]
  PROVE  Follows(s)'
<1>1. s \in Streams \ blemished /\ (EndQueued(s) => EndQueued(s)')
  BY PublishKeepsOrder
<1>2. CASE m.kind = "ended" /\ m.stream = s
  <2>1. EndQueued(s)'
    BY <1>2, PublishKeepsOrder
  <2>2. ASSUME NEW n \in DOMAIN queue', IsFrame(s, n)' PROVE EndBehind(s, n)'
    <3>1. m.kind # "snapshot"
      BY <1>2
    <3>2. (n = Len(queue') /\ queue'[n] = m) \/ EndBehind(s, n)'
      BY <1>2, PublishKeepsOrder
    <3> QED BY <2>2, <3>1, <3>2 DEF IsFrame
  <2> QED BY <2>1, <2>2 DEF Follows
<1>3. CASE ~(m.kind = "ended" /\ m.stream = s)
  <2>1. task'[s] = task[s]
    BY <1>3
  <2>2. book'[s].live => Fed(s)' \/ EndQueued(s)'
    BY <1>1, <2>1 DEF Follows, Fed
  <2>3. ASSUME NEW n \in DOMAIN queue', IsFrame(s, n)'
        PROVE  IsCurrent(s, n)' \/ EndBehind(s, n)'
    <3>1. CASE n = Len(queue') /\ queue'[n] = m
      BY <2>1, <2>3, <3>1 DEF IsFrame, IsCurrent
    <3>2. ASSUME NEW k \in DOMAIN queue, queue'[n] = queue[k],
                 EndBehind(s, k) => EndBehind(s, n)'
          PROVE  IsCurrent(s, n)' \/ EndBehind(s, n)'
      BY <2>1, <2>3, <3>2 DEF Follows, IsFrame, IsCurrent
    <3> QED BY <3>1, <3>2, PublishKeepsOrder
  <2> QED BY <2>2, <2>3 DEF Follows
<1> QED BY <1>2, <1>3

\* A stream without an open connection that is let go, connected or left alone
\* keeps it as well: what the channel holds of it is followed by an end.
LEMMA TaskFollows ==
  ASSUME NEW s \in Streams, Follows(s), UNCHANGED <<queue, book>>,
         \/ task'[s] = task[s] /\ session'[s] = session[s]
         \/ task[s] # "open"
  PROVE  Follows(s)'
<1>1. \A n \in DOMAIN queue : EndBehind(s, n)' = EndBehind(s, n) /\ IsFrame(s, n)' = IsFrame(s, n)
  BY DEF EndBehind, IsFrame
<1>2. EndQueued(s)' = EndQueued(s)
  BY DEF EndQueued
<1> QED BY <1>1, <1>2 DEF Follows, Fed, IsCurrent

\* The aggregator applies the oldest message: a frame makes the book live, and
\* what follows the frame follows it then (aggregator.rs:630-667).
LEMMA ApplyFollows ==
  ASSUME TypeOK, Apply, NEW s \in Streams, Follows(s)
  PROVE  Follows(s)'
<1>1. queue \in Seq(Messages) /\ queue # <<>> /\ queue' = Tail(queue)
  BY DEF TypeOK, Apply
<1>2. /\ DOMAIN queue = 1..Len(queue) /\ DOMAIN queue' = 1 .. Len(queue) - 1
      /\ Len(queue) \in Nat /\ Len(queue) >= 1
      /\ \A n \in 1 .. Len(queue) - 1 : queue'[n] = queue[n + 1]
  BY <1>1
<1>3. book' = [book EXCEPT ![queue[1].stream] = Applied(queue[1])] /\ queue[1] \in Messages
  BY <1>1, <1>2 DEF Apply
<1>4. ASSUME NEW n \in DOMAIN queue, EndBehind(s, n), n >= 1
      PROVE  EndQueued(s)' /\ EndBehind(s, n - 1)'
  <2>1. PICK k \in DOMAIN queue : k > n /\ queue[k].kind = "ended" /\ queue[k].stream = s
    BY <1>4 DEF EndBehind
  <2>2. k - 1 \in DOMAIN queue' /\ k - 1 > n - 1 /\ queue'[k - 1] = queue[(k - 1) + 1]
    BY <1>2, <1>4, <2>1
  <2>3. (k - 1) + 1 = k
    BY <1>2
  <2> QED BY <2>1, <2>2, <2>3 DEF EndBehind, EndQueued, ToSet
<1>5. ASSUME NEW n \in DOMAIN queue', IsFrame(s, n)'
      PROVE  IsCurrent(s, n)' \/ EndBehind(s, n)'
  <2>1. n + 1 \in DOMAIN queue /\ queue'[n] = queue[n + 1] /\ (n + 1) - 1 = n /\ n + 1 >= 1
    BY <1>2
  <2>2. IsCurrent(s, n + 1) \/ EndBehind(s, n + 1)
    BY <1>5, <2>1 DEF Follows, IsFrame
  <2>3. CASE IsCurrent(s, n + 1)
    BY <2>1, <2>3 DEF IsCurrent, Apply, connections
  <2>4. CASE EndBehind(s, n + 1)
    BY <1>4, <2>1, <2>4
  <2> QED BY <2>2, <2>3, <2>4
<1>6. book'[s].live => Fed(s)' \/ EndQueued(s)'
  <2>1. CASE queue[1].stream # s
    <3>1. EndQueued(s) => EndQueued(s)'
      <4>1. ASSUME NEW k \in DOMAIN queue, queue[k].kind = "ended", queue[k].stream = s
            PROVE  k - 1 \in DOMAIN queue' /\ queue'[k - 1] = queue[k]
        <5>1. k # 1
          BY <2>1, <4>1
        <5>2. k - 1 \in DOMAIN queue' /\ queue'[k - 1] = queue[(k - 1) + 1] /\ (k - 1) + 1 = k
          BY <1>2, <5>1
        <5> QED BY <5>2
      <4> QED BY <4>1 DEF EndQueued, ToSet
    <3>2. book'[s] = book[s]
      BY <1>3, <2>1 DEF TypeOK
    <3> QED BY <3>1, <3>2 DEF Follows, Fed, Apply, connections
  <2>2. CASE queue[1].stream = s /\ queue[1].kind = "ended"
    BY <1>3, <2>2 DEF Applied, Unknown, TypeOK
  <2>3. CASE queue[1].stream = s /\ queue[1].kind = "snapshot"
    <3>1. 1 \in DOMAIN queue /\ 1 >= 1
      BY <1>2
    <3>2. IsCurrent(s, 1) \/ EndBehind(s, 1)
      BY <2>3, <3>1 DEF Follows, IsFrame
    <3>3. book'[s].session = queue[1].session
      BY <1>3, <2>3 DEF Applied, TypeOK
    <3>4. CASE IsCurrent(s, 1)
      BY <3>3, <3>4 DEF IsCurrent, Fed, Apply, connections
    <3>5. CASE EndBehind(s, 1)
      BY <1>4, <3>1, <3>5
    <3> QED BY <3>2, <3>4, <3>5
  <2> QED BY <1>3, <2>1, <2>2, <2>3 DEF Messages
<1> QED BY <1>5, <1>6 DEF Follows

\* No step leaves a stream's frames, or its live book, without what follows them.
LEMMA FeedStep ==
  ASSUME TypeOK, FeedInv, [Next]_vars
  PROVE  FeedInv'
<1> SUFFICES ASSUME NEW s \in Streams \ blemished' PROVE Follows(s)'
  BY DEF FeedInv, FramesAreFollowed, LiveBookIsFed, Follows
<1>1. ASSUME s \notin blemished PROVE Follows(s)
  BY <1>1 DEF FeedInv, FramesAreFollowed, LiveBookIsFed, Follows
<1>2. CASE UNCHANGED <<task, connections, queue, book, blemished>>
  BY <1>1, <1>2, TaskFollows DEF connections
<1>3. ASSUME NEW t \in running, ReleaseStream(t), UNCHANGED <<connections, book>>
      PROVE  Follows(s)'
  <2>1. t \in Streams /\ Message("ended", t, 0) \in Messages
    BY MessageType DEF TypeOK
  <2>2. Publish(Message("ended", t, 0), {}) /\ (s # t => task'[s] = task[s])
    BY <1>3, <2>1 DEF ReleaseStream, TypeOK
  <2>3. s \notin blemished
    BY <2>2 DEF Publish
  <2> QED BY <1>1, <1>3, <2>1, <2>2, <2>3, PublishFollows DEF Message, connections
<1>4. CASE Acquire
  <2>1. s \notin blemished /\ UNCHANGED <<queue, book, session>>
    BY <1>4 DEF Acquire, connections
  <2>2. task'[s] = task[s] \/ task[s] # "open"
    BY <1>4 DEF Acquire, TypeOK
  <2> QED BY <1>1, <2>1, <2>2, TaskFollows
<1>5. CASE Supervision
  <2>1. CASE Borrow \/ SeesChange
    BY <1>2, <2>1 DEF Borrow, BeginReconcile, SeesChange
  <2>2. CASE Release
    BY <1>3, <2>2 DEF Release
  <2>3. CASE BeginLastPass
    <3>1. CASE running = {}
      BY <1>2, <2>3, <3>1 DEF BeginLastPass
    <3>2. CASE running # {}
      BY <1>3, <2>3, <3>2 DEF BeginLastPass
    <3> QED BY <3>1, <3>2
  <2> QED BY <1>4, <1>5, <2>1, <2>2, <2>3 DEF Supervision
<1>6. CASE Coordination \/ Stop
  BY <1>2, <1>6 DEF Coordination, PublishOwned, CoordinatorReleases, CoordinatorWithdraws, Stop
<1>7. ASSUME NEW t \in Streams, Connect(t) PROVE Follows(s)'
  <2>1. s \notin blemished /\ UNCHANGED <<queue, book>>
    BY <1>7 DEF Connect
  <2>2. \/ task'[s] = task[s] /\ session'[s] = session[s]
        \/ task[s] # "open"
    BY <1>7 DEF Connect, Goto, TypeOK
  <2> QED BY <1>1, <2>1, <2>2, TaskFollows
<1>8. ASSUME NEW t \in Streams, Frame(t) PROVE Follows(s)'
  <2>1. Message("snapshot", t, session[t]) \in Messages
    BY MessageType
  <2>2. Publish(Message("snapshot", t, session[t]), {}) /\ task[t] = "open"
    BY <1>8 DEF Frame
  <2>3. s \notin blemished
    BY <2>2 DEF Publish
  <2>4. UNCHANGED <<task, session, book>>
    BY <1>8 DEF Frame, connections
  <2> QED BY <1>1, <2>1, <2>2, <2>3, <2>4, PublishFollows DEF Message
<1>9. ASSUME NEW t \in Streams, SessionEnds(t) PROVE Follows(s)'
  <2>1. Message("ended", t, 0) \in Messages
    BY MessageType
  <2>2. Publish(Message("ended", t, 0), {}) /\ (s # t => task'[s] = task[s])
    BY <1>9 DEF SessionEnds, Goto, TypeOK
  <2>3. s \notin blemished /\ UNCHANGED <<session, book>>
    BY <1>9, <2>2 DEF Publish, SessionEnds, connections
  <2> QED BY <1>1, <2>1, <2>2, <2>3, PublishFollows DEF Message
<1>10. CASE GhostEnds
  <2>1. PICK g \in ghosts :
          /\ \/ Publish(Message("snapshot", g.stream, g.session), {g.stream})
             \/ UNCHANGED <<queue, blemished>>
          /\ UNCHANGED <<task, connections, book>>
    BY <1>10 DEF GhostEnds
  <2>2. CASE UNCHANGED <<queue, blemished>>
    BY <1>2, <2>1, <2>2
  <2>3. CASE Publish(Message("snapshot", g.stream, g.session), {g.stream})
    <3>1. s # g.stream /\ s \notin blemished
      BY <2>3 DEF Publish
    <3>2. Message("snapshot", g.stream, g.session) \in Messages /\ {g.stream} \in SUBSET Streams
      BY MessageType DEF TypeOK
    <3> QED BY <1>1, <2>1, <2>3, <3>1, <3>2, PublishFollows DEF Message, connections
  <2> QED BY <2>1, <2>2, <2>3
<1>11. CASE Apply
  <2>1. s \notin blemished
    BY <1>11 DEF Apply
  <2> QED BY <1>1, <1>11, <2>1, ApplyFollows
<1>12. CASE UNCHANGED vars
  BY <1>2, <1>12 DEF vars, connections
<1> QED BY <1>5, <1>6, <1>7, <1>8, <1>9, <1>10, <1>11, <1>12 DEF Next, Finished

-------------------------------------------------------------------------------
(* The theorems.                                                             *)

\* Nothing runs yet, and no book is live (pipeline.rs:86-168, 312-364).
LEMMA InitInvariant == Init => IInv
<1> SUFFICES ASSUME Init PROVE IInv
  OBVIOUS
<1>1. 0 \in 0..MaxSessions /\ 0 \in 0..MaxChanges
  BY SupervisorAssumption
<1>2. <<>> \in Seq(Messages) /\ Len(<<>>) <= Capacity
  BY SupervisorAssumption
<1>3. TypeOK
  BY <1>1, <1>2, SupervisorAssumption DEF Init, Clustered, TypeOK, Unknown
<1>4. OpenIsNumbered /\ PeakIsBounded /\ LiveBookIsFed
  BY DEF Init, OpenIsNumbered, PeakIsBounded, LiveBookIsFed, Unknown
<1>5. FramesAreFollowed
  BY DEF Init, FramesAreFollowed
<1> QED BY <1>3, <1>4, <1>5 DEF IInv

\* IInv is inductive.
LEMMA StepInvariant == IInv /\ [Next]_vars => IInv'
<1> SUFFICES ASSUME IInv, [Next]_vars PROVE IInv'
  OBVIOUS
<1>1. TypeOK' /\ OpenIsNumbered'
  <2>1. CASE Coordination \/ Stop
    <3>1. task' = task /\ session' = session
      BY <2>1 DEF Coordination, PublishOwned, CoordinatorReleases, CoordinatorWithdraws, Stop,
         connections
    <3> QED BY <2>1, <3>1, CoordinationType DEF IInv, OpenIsNumbered
  <2>2. CASE Supervision
    BY <2>2, SupervisionType DEF IInv
  <2>3. CASE (\E s \in Streams : Connect(s) \/ Frame(s) \/ SessionEnds(s)) \/ GhostEnds \/ Apply
    BY <2>3, TasksType DEF IInv
  <2>4. CASE UNCHANGED vars
    BY <2>4 DEF IInv, TypeOK, OpenIsNumbered, vars
  <2> QED BY <2>1, <2>2, <2>3, <2>4 DEF Next, Finished
<1>2. PeakIsBounded'
  BY PassStep DEF IInv
<1>3. FramesAreFollowed' /\ LiveBookIsFed'
  BY FeedStep DEF IInv, FeedInv
<1> QED BY <1>1, <1>2, <1>3 DEF IInv

\* The state of a supervised node stays as the passes and the channel leave it.
THEOREM Invariance == Spec => []IInv
<1>1. Init => IInv
  BY InitInvariant
<1>2. IInv /\ [Next]_vars => IInv'
  BY StepInvariant
<1> QED BY <1>1, <1>2, PTL DEF Spec

\* A pass that gives and takes has, until it takes on, no more connections than it
\* began with, those its aborted tasks still hold counted; and once it has taken on,
\* only what is wanted runs (cluster.rs:98-101).
THEOREM PeakStaysBounded == Spec => []Inv
<1>1. IInv => Inv
  BY DEF IInv, Inv
<1> QED BY <1>1, Invariance, PTL

\* A book is not left live on the prices of a connection that is gone, however
\* ownership moves, tasks are aborted and the channel overflows (cluster.rs:18-26,
\* ingest.rs:303-307).
THEOREM NoBookIsLeftLive == Spec => []LiveBookIsFed
<1>1. IInv => LiveBookIsFed
  BY DEF IInv
<1> QED BY <1>1, Invariance, PTL
===============================================================================
