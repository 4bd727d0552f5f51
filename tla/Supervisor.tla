------------------------------ MODULE Supervisor ------------------------------
(* From an owned set to running sockets (ma-server/src/cluster.rs and the    *)
(* wiring in pipeline.rs): the coordinator publishes the set in a watch, the *)
(* supervisor releases and acquires streams, each acquired stream has an     *)
(* ingest task, and all of them write into one drop-oldest channel that the  *)
(* aggregator reads.                                                         *)
(*                                                                           *)
(* task.abort() only asks: the released task goes on until its next await,   *)
(* and before that it may still publish the frame it is handling.  Such a    *)
(* task is a member of `ghosts`.                                             *)
EXTENDS Integers, Sequences, FiniteSets, SequencesExt

CONSTANTS
    Streams,
    Unbuildable,    \* streams for which spec_for fails; Pipeline::new refuses to start with one
    Capacity,       \* of the channel
    MaxChanges,     \* of the owned set
    MaxSessions     \* opened by all of them

ASSUME SupervisorAssumption ==
    /\ IsFiniteSet(Streams) /\ Unbuildable \subseteq Streams
    /\ Capacity \in Nat \ {0}
    /\ {MaxChanges, MaxSessions} \subseteq Nat

VARIABLES
    owned,       \* the watch the coordinator publishes in
    changed,     \* the supervisor has not borrowed the latest value
    changes,     \* values published so far
    coordinator, \* "up", "released" (empty set published) or "gone" (lease withdrawn)
    stopping,    \* the process-wide Shutdown
    pc,          \* of Supervisor::run: "borrow", "release", "select" or "done"
    target,      \* the set being reconciled
    carried,     \* during a pass, what was held when it began
    running,     \* the keys of the map
    task,        \* of each stream: "none", "connecting" (or pausing before it) or "open"
    opened,      \* connections opened so far
    session,     \* the number of the latest one of each stream
    ghosts,      \* aborted tasks not yet dropped
    queue,
    book,        \* of each stream: whether it is live, and the session its data is from
    blemished    \* streams with a SessionEnded evicted, or a frame that came after it

vars == <<owned, changed, changes, coordinator, stopping, pc, target, carried, running, task,
          opened, session, ghosts, queue, book, blemished>>
connections == <<opened, session>>
ownership == <<owned, changed, changes, coordinator>>
supervisor == <<pc, target, carried, running>>

Messages == [kind : {"snapshot", "ended"}, stream : Streams, session : 0..MaxSessions]
Message(kind, s, n) == [kind |-> kind, stream |-> s, session |-> n]

Unknown == [live |-> FALSE, session |-> 0]

\* The connections of the process: of each running task one, open or to be made,
\* and those that aborted tasks have not dropped yet.
Held == Cardinality(running) + Cardinality(ghosts)

TypeOK ==
    /\ owned \subseteq Streams /\ changed \in BOOLEAN /\ changes \in 0..MaxChanges
    /\ coordinator \in {"up", "released", "gone"}
    /\ stopping \in BOOLEAN
    /\ pc \in {"borrow", "release", "select", "done"}
    /\ target \subseteq Streams /\ running \subseteq Streams \ Unbuildable
    /\ carried \in Nat
    /\ task \in [Streams -> {"none", "connecting", "open"}]
    /\ \A s \in Streams : task[s] # "none" <=> s \in running
    /\ opened \in 0..MaxSessions /\ session \in [Streams -> 0..MaxSessions]
    /\ ghosts \subseteq [stream : Streams, session : 1..MaxSessions]
    /\ queue \in Seq(Messages) /\ Len(queue) <= Capacity
    /\ book \in [Streams -> [live : BOOLEAN, session : 0..MaxSessions]]
    /\ blemished \subseteq Streams

\* Joining the cluster: nothing is owned until the coordinator says so.
Clustered == owned = {} /\ changed = FALSE /\ changes = 0 /\ coordinator = "up"

Init ==
    /\ Clustered
    /\ stopping = FALSE
    /\ pc = "borrow" /\ target = {} /\ carried = 0 /\ running = {}
    /\ task = [s \in Streams |-> "none"]
    /\ opened = 0 /\ session = [s \in Streams |-> 0]
    /\ ghosts = {}
    /\ queue = <<>>
    /\ book = [s \in Streams |-> Unknown]
    /\ blemished = {}

-------------------------------------------------------------------------------
(* The channel.                                                              *)

\* What a send into a full channel evicts.
Evicted == IF Len(queue) = Capacity THEN <<Head(queue)>> ELSE <<>>

\* `late` are the streams for which the message comes after its SessionEnded.
Publish(message, late) ==
    /\ queue' = Append(IF Evicted = <<>> THEN queue ELSE Tail(queue), message)
    /\ blemished' = blemished \union late \union
                       {m.stream : m \in {e \in ToSet(Evicted) : e.kind = "ended"}}

-------------------------------------------------------------------------------
(* The coordinator, as the rest of the process sees it: any owned set at any *)
(* time, and on stop the empty set, then the withdrawal of the lease.        *)

PublishOwned ==
    /\ coordinator = "up" /\ changes < MaxChanges
    /\ \E set \in SUBSET Streams :
        /\ set # owned
        /\ owned' = set
    /\ changed' = TRUE /\ changes' = changes + 1
    /\ UNCHANGED <<coordinator, stopping, supervisor, task, connections, ghosts, queue, book, blemished>>

CoordinatorReleases ==
    /\ coordinator = "up" /\ stopping
    /\ coordinator' = "released"
    /\ owned' = {} /\ changed' = TRUE
    /\ UNCHANGED <<changes, stopping, supervisor, task, connections, ghosts, queue, book, blemished>>

\* The lease is withdrawn, well or badly, and the sender of the watch dropped.
CoordinatorWithdraws ==
    /\ coordinator = "released"
    /\ coordinator' = "gone"
    /\ UNCHANGED <<owned, changed, changes, stopping, supervisor, task, connections, ghosts, queue,
                   book, blemished>>

Stop ==
    /\ ~stopping
    /\ stopping' = TRUE
    /\ UNCHANGED <<ownership, supervisor, task, connections, ghosts, queue, book, blemished>>

-------------------------------------------------------------------------------
(* Supervisor::run and reconcile.                                            *)

\* Mutant: what is new is started before anything is released.
AcquireFirst(set) ==
    /\ target' = set
    /\ carried' = Held
    /\ running' = running \union (set \ Unbuildable)
    /\ task' = [s \in Streams |-> IF s \in running' \ running THEN "connecting" ELSE task[s]]
    /\ pc' = "release"

BeginReconcile(set) ==
    /\ target' = set
    /\ carried' = Held
    /\ pc' = "release"
    /\ UNCHANGED <<running, task>>

\* borrow_and_update.
Borrow ==
    /\ pc = "borrow"
    /\ changed' = FALSE
    /\ BeginReconcile(owned)
    /\ UNCHANGED <<owned, changes, coordinator, stopping, connections, ghosts, queue, book, blemished>>

\* Mutant: the aggregator is not told.
ReleaseQuietly(s) ==
    /\ running' = running \ {s}
    /\ task' = [task EXCEPT ![s] = "none"]
    /\ ghosts' = ghosts \union (IF task[s] = "open"
                                THEN {[stream |-> s, session |-> session[s]]} ELSE {})
    /\ UNCHANGED <<queue, blemished>>

\* The trigger is dropped, the task aborted, and the end of the session
\* published for it.
ReleaseStream(s) ==
    /\ running' = running \ {s}
    /\ task' = [task EXCEPT ![s] = "none"]
    /\ ghosts' = ghosts \union (IF task[s] = "open"
                                THEN {[stream |-> s, session |-> session[s]]} ELSE {})
    /\ Publish(Message("ended", s, 0), {})

Release ==
    /\ pc = "release"
    /\ \E s \in running \ target : ReleaseStream(s)
    /\ UNCHANGED <<ownership, stopping, pc, target, carried, connections, book>>

\* Mutant: the value is marked as seen after the pass.
AcquireAndMarkSeen ==
    /\ pc = "release" /\ running \subseteq target
    /\ running' = running \union (target \ Unbuildable)
    /\ task' = [s \in Streams |-> IF s \in running' \ running THEN "connecting" ELSE task[s]]
    /\ pc' = "select" /\ carried' = 0 /\ changed' = FALSE
    /\ UNCHANGED <<owned, changes, coordinator, stopping, target, connections, ghosts, queue, book,
                   blemished>>

\* A stream that cannot be built is logged, and tried again in the next pass.
Acquire ==
    /\ pc = "release" /\ running \subseteq target
    /\ running' = running \union (target \ Unbuildable)
    /\ task' = [s \in Streams |-> IF s \in running' \ running THEN "connecting" ELSE task[s]]
    /\ pc' = "select" /\ carried' = 0
    /\ UNCHANGED <<ownership, stopping, target, connections, ghosts, queue, book, blemished>>

SeesChange ==
    /\ pc = "select" /\ changed
    /\ pc' = "borrow"
    /\ UNCHANGED <<ownership, stopping, target, carried, running, task, connections, ghosts, queue, book,
                   blemished>>

\* Mutant: the loop ends and leaves what runs to the process.
FinishAtOnce ==
    /\ pc = "select"
    /\ stopping \/ (coordinator = "gone" /\ ~changed)
    /\ pc' = "done"
    /\ UNCHANGED <<ownership, stopping, target, carried, running, task, connections, ghosts, queue,
                   book, blemished>>

\* Stopped, or the coordinator is gone: one last pass with the empty set.
BeginLastPass ==
    /\ pc = "select"
    /\ stopping \/ (coordinator = "gone" /\ ~changed)
    /\ IF running = {}
       THEN /\ pc' = "done"
            /\ UNCHANGED <<target, carried, running, task, ghosts, queue, blemished>>
       ELSE /\ \E s \in running : ReleaseStream(s)
            /\ UNCHANGED <<pc, target, carried>>
    /\ UNCHANGED <<ownership, stopping, connections, book>>

-------------------------------------------------------------------------------
(* The ingest tasks (Ingest::run, session, publish).                         *)

Goto(s, to) == task' = [task EXCEPT ![s] = to]

Connect(s) ==
    /\ task[s] = "connecting" /\ opened < MaxSessions
    /\ opened' = opened + 1
    /\ session' = [session EXCEPT ![s] = opened']
    /\ Goto(s, "open")
    /\ UNCHANGED <<ownership, stopping, supervisor, ghosts, queue, book, blemished>>

\* A snapshot, the frame that makes a book live, and any number of times: a
\* stand-in for the updates too, which only take room in the channel.
Frame(s) ==
    /\ task[s] = "open"
    /\ Publish(Message("snapshot", s, session[s]), {})
    /\ UNCHANGED <<ownership, stopping, supervisor, task, connections, ghosts, book>>

\* The end is published before the pause.  (A refused connection publishes one
\* too, which resets a book that is reset already.)
SessionEnds(s) ==
    /\ task[s] = "open"
    /\ Publish(Message("ended", s, 0), {})
    /\ Goto(s, "connecting")
    /\ UNCHANGED <<ownership, stopping, supervisor, connections, ghosts, book>>

\* An aborted task publishes the frame it was handling, or nothing.
GhostEnds ==
    \E g \in ghosts :
        /\ ghosts' = ghosts \ {g}
        /\ \/ Publish(Message("snapshot", g.stream, g.session), {g.stream})
           \/ UNCHANGED <<queue, blemished>>
        /\ UNCHANGED <<ownership, stopping, supervisor, task, connections, book>>

-------------------------------------------------------------------------------
(* The aggregator.                                                           *)

Applied(m) ==
    IF m.kind = "ended" THEN Unknown ELSE [live |-> TRUE, session |-> m.session]

Apply ==
    /\ queue # <<>>
    /\ LET m == Head(queue) IN book' = [book EXCEPT ![m.stream] = Applied(m)]
    /\ queue' = Tail(queue)
    /\ UNCHANGED <<ownership, stopping, supervisor, task, connections, ghosts, blemished>>

-------------------------------------------------------------------------------
Finished == pc = "done" /\ coordinator = "gone" /\ ghosts = {} /\ queue = <<>> /\ UNCHANGED vars

Coordination == PublishOwned \/ CoordinatorReleases \/ CoordinatorWithdraws
Supervision == Borrow \/ Release \/ Acquire \/ SeesChange \/ BeginLastPass

Next ==
    \/ Coordination \/ Stop
    \/ Supervision
    \/ \E s \in Streams : Connect(s) \/ Frame(s) \/ SessionEnds(s)
    \/ GhostEnds
    \/ Apply
    \/ Finished

\* The scheduler runs every task that can go on.  Nothing makes the coordinator
\* publish, the process stop, a venue accept a connection or send a frame.
Fairness ==
    /\ WF_vars(CoordinatorReleases) /\ WF_vars(CoordinatorWithdraws)
    /\ WF_vars(Supervision)
    /\ WF_vars(GhostEnds)
    /\ WF_vars(Apply)

Spec == Init /\ [][Next]_vars /\ Fairness

-------------------------------------------------------------------------------
(* Properties.                                                               *)

EndQueued(s) == \E m \in ToSet(queue) : m.kind = "ended" /\ m.stream = s

Fed(s) == task[s] = "open" /\ book[s].session = session[s]

\* cluster.rs:18-26, ingest.rs:303-307: a book is not left live on the prices of
\* a connection that is gone.  It is fed by the stream's open connection, or the
\* end of its session is in the channel; unless the channel evicted that end, or
\* an aborted task published after it.
LiveBookIsFed ==
    \A s \in Streams \ blemished : book[s].live => Fed(s) \/ EndQueued(s)

\* cluster.rs:98-101 claims that "letting go before taking on keeps the peak socket
\* count at what the node was already carrying".  Until the pass starts anything, it
\* holds no more connections than it began with, those of aborted tasks included;
\* from then on, what it holds beyond the streams it is to run are aborted tasks
\* only.  (Until these are dropped, the two may add up to more than the claim allows.)
PeakIsBounded ==
    IF pc = "release" THEN Held <= carried ELSE running \subseteq target

\* The state is well typed, and no pass starts a stream before it has let go of all
\* it is to let go, counted in connections (cluster.rs:98-101).
Inv == TypeOK /\ PeakIsBounded

\* cluster.rs:4-6: ownership that stays as it is becomes true of the process,
\* whatever changes came before and however fast: a stream owned for good runs,
\* a stream lost for good has no task left, not even an aborted one.
SocketsFollowOwnership ==
    \A s \in Streams :
        /\ <>[](s \in owned /\ s \notin Unbuildable /\ ~stopping) => <>[](s \in running)
        /\ <>[](s \notin owned) =>
              <>[](s \notin running /\ \A g \in ghosts : g.stream # s)

\* main.rs:161-178, lease.rs:335-343: a stop, and the withdrawal of the lease
\* with it, leaves no socket open, whichever of the coordinator and the
\* supervisor hears of it first.
StopClosesEverything ==
    stopping ~> (coordinator = "gone" /\ pc = "done" /\ running = {} /\ ghosts = {})
===============================================================================
