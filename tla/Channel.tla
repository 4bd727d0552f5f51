------------------------------- MODULE Channel -------------------------------
(* The bounded channel between the producers and the aggregator              *)
(* (ma-pipeline/src/channel.rs), one step per lock, atomic or notification,  *)
(* with the loop of Aggregator::run that drains it and the two kinds of      *)
(* producer: ingest tasks, which send and evict, and a replay, which waits   *)
(* for room (tape.rs replay, bin/replay.rs).                                 *)
(*                                                                           *)
(* The two tokio Notify objects are modelled by what they promise:           *)
(* notify_one wakes a waiter, or leaves a permit for the next one;           *)
(* notify_waiters wakes every Notified that exists, polled or not, and       *)
(* leaves nothing behind.                                                    *)
EXTENDS Integers, Sequences, FiniteSets

CONSTANTS
    Producers,
    Main,           \* the binary: holds a Sender and the shutdown trigger
    Replayer,       \* the producer that replays, when one does
    Capacity,
    MaxItems        \* that each producer sends

ASSUME ChannelAssumption ==
    /\ Replayer \in Producers
    /\ Main \notin Producers /\ IsFiniteSet(Producers)
    /\ {Capacity, MaxItems} \subseteq Nat \ {0}

VARIABLES
    replaying,   \* whether the producer is a replay; fixed
    queue,       \* the VecDeque, under its lock
    closed,
    handles,     \* who holds a Sender
    permit,      \* what a notify_one left in `notify`
    receiver,    \* the receiver's Notified: "none", "created", "waiting", "woken", "woken_by_all"
    space,       \* the replay's Notified: "none", "waiting" or "woken"
    dropped,     \* the counter
    stopping,    \* the Shutdown signal
    pc,          \* of each holder of a Sender
    item,        \* the number of the next item of each producer
    loop,        \* pc of Aggregator::run
    applied      \* the items the aggregator took, in order

vars == <<replaying, queue, closed, handles, permit, receiver, space, dropped, stopping, pc,
          item, loop, applied>>
wakeups == <<permit, receiver, space>>
consumer == <<loop, applied>>

Holders == Producers \cup {Main}
Items == [from : Producers, number : 1..MaxItems]

TypeOK ==
    /\ {replaying, closed, stopping, permit} \subseteq BOOLEAN
    /\ queue \in Seq(Items) /\ Len(queue) <= Capacity
    /\ handles \subseteq Holders
    /\ receiver \in {"none", "created", "waiting", "woken", "woken_by_all"}
    /\ space \in {"none", "waiting", "woken"}
    /\ dropped \in Nat
    /\ pc \in [Holders -> {"serving", "send", "subscribe", "room", "wait", "push", "notify",
                           "notify_full", "count", "drop", "close", "wake", "trigger", "gone"}]
    /\ item \in [Producers -> 1..MaxItems + 1]
    /\ loop \in {"drain", "tell", "select", "pop", "closed", "subscribe", "pop_again",
                 "closed_again", "last", "await", "parked", "done"}
    /\ applied \in Seq(Items)

\* The pipeline keeps a Sender, and each producer is given one.
Spawned == {Main} \cup IF replaying THEN {Replayer} ELSE Producers

Init ==
    /\ replaying \in BOOLEAN
    /\ queue = <<>> /\ closed = FALSE /\ stopping = FALSE
    /\ handles = Spawned
    /\ permit = FALSE /\ receiver = "none" /\ space = "none"
    /\ dropped = 0
    /\ pc = [h \in Holders |-> IF h = Main THEN "serving"
                               ELSE IF h \in handles THEN "send" ELSE "gone"]
    /\ item = [p \in Producers |-> 1]
    /\ loop = "drain" /\ applied = <<>>

Goto(h, to) == pc' = [pc EXCEPT ![h] = to]

-------------------------------------------------------------------------------
(* Sender::send, and the wait for room before it in Sender::send_lossless.   *)

\* Both begin by looking whether the channel is closed.  A producer that has
\* nothing left to send, or is told to stop, ends and drops its handle.
StartSend(p) ==
    /\ pc[p] = "send"
    /\ \/ ~closed /\ item[p] <= MaxItems /\ Goto(p, IF replaying THEN "subscribe" ELSE "push")
       \/ (closed \/ item[p] > MaxItems \/ (stopping /\ ~replaying)) /\ Goto(p, "drop")
    /\ UNCHANGED <<replaying, queue, closed, handles, wakeups, dropped, stopping, item, consumer>>

\* Mutant: the wait is not announced before room is looked for.
NeverSubscribe(p) ==
    /\ pc[p] = "subscribe"
    /\ Goto(p, "room")
    /\ UNCHANGED <<replaying, queue, closed, handles, wakeups, dropped, stopping, item, consumer>>

SubscribeToSpace(p) ==
    /\ pc[p] = "subscribe"
    /\ space' = "waiting"
    /\ Goto(p, "room")
    /\ UNCHANGED <<replaying, queue, closed, handles, permit, receiver, dropped, stopping, item,
                   consumer>>

\* Mutant: the replay sends into a full channel.
AlwaysRoom == TRUE

HasRoom == Len(queue) < Capacity

LookForRoom(p) ==
    /\ pc[p] = "room"
    /\ \/ HasRoom /\ Goto(p, "push") /\ space' = "none"
       \/ ~HasRoom /\ Goto(p, "wait") /\ UNCHANGED space
    /\ UNCHANGED <<replaying, queue, closed, handles, permit, receiver, dropped, stopping, item,
                   consumer>>

WokenBySpace(p) ==
    /\ pc[p] = "wait" /\ space = "woken"
    /\ space' = "none"
    /\ Goto(p, "send")
    /\ UNCHANGED <<replaying, queue, closed, handles, permit, receiver, dropped, stopping, item,
                   consumer>>

EvictOldest == Tail(queue)

\* Under the queue's lock.
Push(p) ==
    /\ pc[p] = "push"
    /\ LET new == [from |-> p, number |-> item[p]] IN
       \/ Len(queue) < Capacity /\ queue' = Append(queue, new) /\ Goto(p, "notify")
       \/ Len(queue) = Capacity /\ queue' = Append(EvictOldest, new) /\ Goto(p, "notify_full")
    /\ item' = [item EXCEPT ![p] = @ + 1]
    /\ UNCHANGED <<replaying, closed, handles, wakeups, dropped, stopping, consumer>>

\* Mutant: a notification is for a receiver that waits already, and leaves no
\* permit.
NotifyWaiting(p) ==
    /\ pc[p] \in {"notify", "notify_full"}
    /\ receiver' = IF receiver = "waiting" THEN "woken" ELSE receiver
    /\ Goto(p, IF pc[p] = "notify" THEN "send" ELSE "count")
    /\ UNCHANGED <<replaying, queue, closed, handles, permit, space, dropped, stopping, item,
                   consumer>>

\* notify_one, outside the lock.
Notify(p) ==
    /\ pc[p] \in {"notify", "notify_full"}
    /\ \/ receiver = "waiting" /\ receiver' = "woken" /\ UNCHANGED permit
       \/ receiver # "waiting" /\ permit' = TRUE /\ UNCHANGED receiver
    /\ Goto(p, IF pc[p] = "notify" THEN "send" ELSE "count")
    /\ UNCHANGED <<replaying, queue, closed, handles, space, dropped, stopping, item, consumer>>

\* Mutant: a silent drop.
CountNothing(p) ==
    /\ pc[p] = "count"
    /\ Goto(p, "send")
    /\ UNCHANGED <<replaying, queue, closed, handles, wakeups, dropped, stopping, item, consumer>>

CountEviction(p) ==
    /\ pc[p] = "count"
    /\ dropped' = dropped + 1
    /\ Goto(p, "send")
    /\ UNCHANGED <<replaying, queue, closed, handles, wakeups, stopping, item, consumer>>

-------------------------------------------------------------------------------
(* Dropping a Sender, and the end of the binary.                             *)

\* main.rs waits for a signal; a headless replay.rs for the replay to return.
LeaveMain ==
    /\ pc[Main] = "serving"
    /\ replaying => pc[Replayer] = "gone"
    /\ Goto(Main, "drop")
    /\ UNCHANGED <<replaying, queue, closed, handles, wakeups, dropped, stopping, item, consumer>>

\* Where a holder goes once its handle is dropped.  Pipeline::into_trigger drops
\* the pipeline, its Sender with it, and leaves the trigger to be dropped.
AfterDrop(h) == IF h = Main THEN "trigger" ELSE "gone"

\* Only the drop that takes the count to zero closes the channel.
DropSender(h) ==
    /\ pc[h] = "drop"
    /\ handles' = handles \ {h}
    /\ Goto(h, IF handles = {h} THEN "close" ELSE AfterDrop(h))
    /\ UNCHANGED <<replaying, queue, closed, wakeups, dropped, stopping, item, consumer>>

Close(h) ==
    /\ pc[h] = "close"
    /\ closed' = TRUE
    /\ Goto(h, "wake")
    /\ UNCHANGED <<replaying, queue, handles, wakeups, dropped, stopping, item, consumer>>

\* notify_waiters on `notify`; nothing tells `space`.
WakeReceiver(h) ==
    /\ pc[h] = "wake"
    /\ receiver' = IF receiver \in {"created", "waiting"} THEN "woken_by_all" ELSE receiver
    /\ Goto(h, AfterDrop(h))
    /\ UNCHANGED <<replaying, queue, closed, handles, permit, space, dropped, stopping, item,
                   consumer>>

DropTrigger ==
    /\ pc[Main] = "trigger"
    /\ stopping' = TRUE
    /\ Goto(Main, "gone")
    /\ UNCHANGED <<replaying, queue, closed, handles, wakeups, dropped, item, consumer>>

-------------------------------------------------------------------------------
(* Receiver::recv inside the loop of Aggregator::run.                        *)

producers == <<replaying, closed, handles, dropped, stopping, pc, item>>

Popping == {"drain", "pop", "pop_again", "last"}

\* Mutant: the newest item is taken first.
TakeLast ==
    /\ loop \in Popping /\ queue # <<>>
    /\ applied' = Append(applied, queue[Len(queue)])
    /\ queue' = SubSeq(queue, 1, Len(queue) - 1)
    /\ receiver' = "none"
    /\ loop' = "tell"
    /\ UNCHANGED <<producers, permit, space>>

\* try_recv or recv finds an item; a Notified already created is dropped.
TakeItem ==
    /\ loop \in Popping /\ queue # <<>>
    /\ applied' = Append(applied, Head(queue))
    /\ queue' = Tail(queue)
    /\ receiver' = "none"
    /\ loop' = "tell"
    /\ UNCHANGED <<producers, permit, space>>

\* notify_waiters on `space`, after which the loop drains again.
TellSpace ==
    /\ loop = "tell"
    /\ space' = IF space = "waiting" THEN "woken" ELSE space
    /\ loop' = "drain"
    /\ UNCHANGED <<producers, queue, permit, receiver, applied>>

FindNothing ==
    /\ loop \in Popping /\ queue = <<>>
    /\ loop' = CASE loop = "drain" -> "select"
                 [] loop = "pop" -> "closed"
                 [] loop = "pop_again" -> "closed_again"
                 [] loop = "last" -> "done"
    /\ UNCHANGED <<producers, queue, wakeups, applied>>

\* A Notified that is dropped passes a notify_one it received on to the next.
DropNotified ==
    /\ receiver' = "none"
    /\ permit' = (permit \/ receiver = "woken")

\* The select! is biased: shutdown, then the tick, then recv.
SelectShutdown ==
    /\ loop \in {"select", "parked"} /\ stopping
    /\ loop' = "done"
    /\ DropNotified
    /\ UNCHANGED <<producers, queue, space, applied>>

SelectTick ==
    /\ loop \in {"select", "parked"} /\ ~stopping
    /\ loop' = "drain"
    /\ DropNotified
    /\ UNCHANGED <<producers, queue, space, applied>>

SelectReceive ==
    /\ loop = "select" /\ ~stopping
    /\ loop' = "pop"
    /\ UNCHANGED <<producers, queue, wakeups, applied>>

\* Mutant: a closed channel is taken for an empty one.
CheckClosedOnly ==
    /\ loop \in {"closed", "closed_again"}
    /\ loop' = IF closed THEN "done" ELSE IF loop = "closed" THEN "subscribe" ELSE "await"
    /\ UNCHANGED <<producers, queue, wakeups, applied>>

CheckClosed ==
    /\ loop \in {"closed", "closed_again"}
    /\ loop' = IF closed THEN "last" ELSE IF loop = "closed" THEN "subscribe" ELSE "await"
    /\ UNCHANGED <<producers, queue, wakeups, applied>>

SubscribeToNotify ==
    /\ loop = "subscribe"
    /\ receiver' = "created"
    /\ loop' = "pop_again"
    /\ UNCHANGED <<producers, queue, permit, space, applied>>

\* The first poll of the Notified takes a permit, or sees a notify_waiters that
\* came after its creation, or starts to wait.
AwaitNotify ==
    /\ loop = "await"
    /\ \/ /\ permit \/ receiver = "woken_by_all"
          /\ permit' = FALSE /\ receiver' = "none" /\ loop' = "pop"
       \/ /\ ~permit /\ receiver = "created"
          /\ receiver' = "waiting" /\ loop' = "parked" /\ UNCHANGED permit
    /\ UNCHANGED <<producers, queue, space, applied>>

WokenByNotify ==
    /\ loop = "parked" /\ ~stopping
    /\ receiver \in {"woken", "woken_by_all"}
    /\ receiver' = "none"
    /\ loop' = "pop"
    /\ UNCHANGED <<producers, queue, permit, space, applied>>

-------------------------------------------------------------------------------
Finished ==
    /\ loop = "done" /\ \A h \in Holders : pc[h] = "gone"
    /\ UNCHANGED vars

Produce(p) ==
    \/ StartSend(p) \/ SubscribeToSpace(p) \/ LookForRoom(p) \/ WokenBySpace(p)
    \/ Push(p) \/ Notify(p) \/ CountEviction(p)

LetGo(h) == DropSender(h) \/ Close(h) \/ WakeReceiver(h)

Receive ==
    \/ TakeItem \/ TellSpace \/ FindNothing \/ SelectReceive \/ CheckClosed
    \/ SubscribeToNotify \/ AwaitNotify \/ WokenByNotify

Next ==
    \/ \E p \in Producers : Produce(p)
    \/ \E h \in Holders : LetGo(h)
    \/ LeaveMain \/ DropTrigger
    \/ Receive \/ SelectShutdown \/ SelectTick
    \/ Finished

Spec == Init /\ [][Next]_vars

\* The runtime polls every task that is ready, and the tick comes.  A signal
\* that stops a live system need never come.
Fairness ==
    /\ \A p \in Producers : WF_vars(Produce(p))
    /\ \A h \in Holders : WF_vars(LetGo(h))
    /\ WF_vars(replaying /\ LeaveMain) /\ WF_vars(DropTrigger)
    /\ WF_vars(Receive) /\ WF_vars(SelectShutdown) /\ WF_vars(SelectTick)

FairSpec == Spec /\ Fairness

-------------------------------------------------------------------------------
(* Properties                                                                *)

\* What the aggregator took and what it will take, in order.
Delivered == applied \o queue

\* The items sent that will never be applied.
Lost ==
    {i \in Items : i.number < item[i.from] /\ \A k \in 1..Len(Delivered) : Delivered[k] # i}

\* Every item sent is applied, queued, or counted as dropped, no item is two of
\* these, and the counter lags only by the senders between their eviction and
\* their count (channel.rs, the counter on /metrics).
EveryItemIsAccountedFor ==
    Cardinality(Lost) = dropped + Cardinality({p \in Producers : pc[p] \in {"notify_full", "count"}})

\* Evictions, racing senders and the three pops of recv never reorder or
\* repeat what one producer sent: a venue's book can rely on its sequence.
OrderIsKept ==
    \A j, k \in 1..Len(Delivered) :
        j < k /\ Delivered[j].from = Delivered[k].from => Delivered[j].number < Delivered[k].number

\* send_lossless looks for room, then sends under another lock: with a single
\* replay producer nothing is evicted in between.
ReplayEvictsNothing == replaying => Lost = {}

\* The account of the channel: the queue is within its capacity, no item
\* vanishes uncounted or changes its place among those of its producer, and a
\* replay loses none (channel.rs push and pop).
Inv == TypeOK /\ EveryItemIsAccountedFor /\ OrderIsKept /\ ReplayEvictsNothing

\* For all its locks, atomics and wakeups the channel is a queue that evicts its
\* oldest item when it is full, never for a replay, and that hands over what it
\* keeps in the order of the sends, as long as the aggregator runs
\* (channel.rs:1-40).
Queue == INSTANCE LossyQueue WITH
    Senders <- Producers, lossless <- replaying, next <- item, received <- applied,
    lost <- Lost, stopped <- (loop = "done")
IsLossyQueue == Queue!Spec

\* A parked receiver has been notified, or is about to be, of every item queued
\* and of the close (channel.rs: "a notification fired between our first check
\* and subscribing is not missed"): only the tick would save it otherwise.
NoLostWakeup ==
    loop = "parked" /\ receiver = "waiting" =>
        /\ queue # <<>> => \E p \in Producers : pc[p] \in {"notify", "notify_full"}
        /\ closed => \E h \in Holders : pc[h] = "wake"

\* A loop that ended because the channel closed, and not because it was told to
\* stop, left nothing behind (recv returns None once closed and drained).
CloseDrains == loop = "done" /\ ~stopping => queue = <<>>

\* A replay is never stuck waiting for room, and a headless one ends.
ReplayEnds == replaying ~> (loop = "done" /\ pc[Main] = "gone")
===============================================================================
