----------------------------- MODULE ChannelProofs -----------------------------
(* Proofs about Channel, for any number of producers and items and any       *)
(* capacity: no item is lost uncounted or reordered, no wakeup is lost, a    *)
(* close leaves nothing behind, and the channel is a LossyQueue.             *)
EXTENDS Channel, FiniteSetTheorems, TLAPS

-----------------------------------------------------------------------------
(* The inductive invariant.                                                  *)

Pushing == {"subscribe", "room", "wait", "push"}
Announcing == {"notify", "notify_full"}
Evicting == {"notify_full", "count"}

\* Where a holder can be, the binary's and the producers' apart.
PlacesOfMain == {"serving", "drop", "close", "wake", "trigger", "gone"}
PlacesOfProducers ==
    Pushing \cup Evicting \cup {"send", "notify", "drop", "close", "wake", "gone"}

HoldersAreSomewhere ==
    /\ pc[Main] \in PlacesOfMain
    /\ \A p \in Producers :
          /\ pc[p] \in PlacesOfProducers
          /\ pc[p] \in Pushing => item[p] <= MaxItems

\* The count of senders is the senders, and only the last to go closes.
HandlesAreCounted ==
    /\ \A h \in Holders : h \in handles <=> pc[h] \notin {"close", "wake", "trigger", "gone"}
    /\ closed => handles = {}
    /\ \A h \in Holders : pc[h] \in {"close", "wake"} => handles = {}

\* A replay is alone, and has seen the room it sends into.
ReplayIsAlone ==
    replaying =>
        /\ \A p \in Producers \ {Replayer} : pc[p] = "gone"
        /\ pc[Replayer] = "push" => Len(queue) < Capacity
        /\ pc[Replayer] \notin Evicting
        /\ dropped = 0

\* Only what was sent is delivered.
DeliveredWasSent ==
    \A k \in 1..Len(Delivered) : Delivered[k].number < item[Delivered[k].from]

\* Which Notified the loop can hold, by where it is.
ReceiverIsWhereItWaits ==
    /\ loop \in {"drain", "tell", "select", "pop", "closed", "subscribe"} => receiver = "none"
    /\ loop \in {"pop_again", "closed_again", "await"} => receiver \in {"created", "woken_by_all"}
    /\ loop = "parked" => receiver \in {"waiting", "woken", "woken_by_all"}

\* Once the loop has seen an empty queue, an item that is queued is announced, or
\* about to be; once it has seen the channel open, so is its close.
NewsIsOnItsWay ==
    /\ loop \in {"closed_again", "await"} /\ queue # <<>> =>
          permit \/ \E p \in Producers : pc[p] \in Announcing
    /\ loop = "await" /\ closed =>
          receiver = "woken_by_all" \/ \E h \in Holders : pc[h] = "wake"

ClosedLoop ==
    /\ loop = "last" => closed
    /\ loop = "done" /\ ~stopping => closed /\ queue = <<>>

IInv ==
    /\ TypeOK /\ HoldersAreSomewhere /\ HandlesAreCounted /\ ReplayIsAlone
    /\ DeliveredWasSent /\ OrderIsKept /\ EveryItemIsAccountedFor
    /\ ReceiverIsWhereItWaits /\ NewsIsOnItsWay /\ NoLostWakeup /\ ClosedLoop

-----------------------------------------------------------------------------
(* Type correctness.                                                         *)

\* What a producer sends is an item.
LEMMA NewItemType ==
  ASSUME TypeOK, HoldersAreSomewhere, NEW p \in Producers, pc[p] \in Pushing
  PROVE  [from |-> p, number |-> item[p]] \in Items
  BY ChannelAssumption DEF TypeOK, HoldersAreSomewhere, Items

\* Every step leaves the state well typed.
LEMMA TypeStep ==
  ASSUME TypeOK, HoldersAreSomewhere, [Next]_vars
  PROVE  TypeOK'
<1> USE ChannelAssumption DEF TypeOK, Holders, wakeups, consumer, producers, Goto
<1>1. ASSUME NEW p \in Producers, StartSend(p) PROVE TypeOK'
  BY <1>1 DEF StartSend
<1>2. ASSUME NEW p \in Producers, SubscribeToSpace(p) PROVE TypeOK'
  BY <1>2 DEF SubscribeToSpace
<1>3. ASSUME NEW p \in Producers, LookForRoom(p) PROVE TypeOK'
  BY <1>3 DEF LookForRoom
<1>4. ASSUME NEW p \in Producers, WokenBySpace(p) PROVE TypeOK'
  BY <1>4 DEF WokenBySpace
<1>5. ASSUME NEW p \in Producers, Push(p) PROVE TypeOK'
  <2> DEFINE new == [from |-> p, number |-> item[p]]
  <2>1. new \in Items /\ item[p] <= MaxItems
    BY <1>5, NewItemType DEF Push, Pushing, HoldersAreSomewhere
  <2>2. queue' \in Seq(Items) /\ Len(queue') <= Capacity
    <3>1. CASE Len(queue) < Capacity /\ queue' = Append(queue, new)
      BY <2>1, <3>1
    <3>2. CASE Len(queue) = Capacity /\ queue' = Append(Tail(queue), new)
      <4>1. queue # <<>> /\ Tail(queue) \in Seq(Items) /\ Len(Tail(queue)) = Len(queue) - 1
        BY <3>2
      <4> QED
        BY <2>1, <3>2, <4>1
    <3> QED
      BY <1>5, <3>1, <3>2 DEF Push, EvictOldest
  <2>3. item' \in [Producers -> 1..MaxItems + 1]
    BY <1>5, <2>1 DEF Push
  <2>4. pc' \in [Holders -> {"serving", "send", "subscribe", "room", "wait", "push", "notify",
                           "notify_full", "count", "drop", "close", "wake", "trigger", "gone"}]
    BY <1>5 DEF Push
  <2> QED
    BY <1>5, <2>2, <2>3, <2>4 DEF Push
<1>6. ASSUME NEW p \in Producers, Notify(p) PROVE TypeOK'
  BY <1>6 DEF Notify
<1>7. ASSUME NEW p \in Producers, CountEviction(p) PROVE TypeOK'
  BY <1>7 DEF CountEviction
<1>8. ASSUME NEW h \in Holders, DropSender(h) PROVE TypeOK'
  BY <1>8 DEF DropSender, AfterDrop
<1>9. ASSUME NEW h \in Holders, Close(h) PROVE TypeOK'
  BY <1>9 DEF Close
<1>10. ASSUME NEW h \in Holders, WakeReceiver(h) PROVE TypeOK'
  BY <1>10 DEF WakeReceiver, AfterDrop
<1>11. CASE LeaveMain \/ DropTrigger
  BY <1>11, ZenonT(60) DEF LeaveMain, DropTrigger
<1>12. CASE TakeItem
  <2>1. /\ Head(queue) \in Items /\ Tail(queue) \in Seq(Items)
        /\ Len(Tail(queue)) = Len(queue) - 1
    BY <1>12 DEF TakeItem
  <2> QED
    BY <1>12, <2>1 DEF TakeItem
<1>13. CASE TellSpace \/ FindNothing
  BY <1>13 DEF TellSpace, FindNothing, Popping
<1>14. CASE SelectReceive \/ CheckClosed \/ SubscribeToNotify
  BY <1>14 DEF SelectReceive, CheckClosed, SubscribeToNotify
<1>15. CASE AwaitNotify \/ WokenByNotify
  BY <1>15 DEF AwaitNotify, WokenByNotify
<1>16. CASE SelectShutdown \/ SelectTick
  BY <1>16 DEF SelectShutdown, SelectTick, DropNotified
<1>17. CASE UNCHANGED vars
  BY <1>17 DEF vars
<1> QED
  BY <1>1, <1>2, <1>3, <1>4, <1>5, <1>6, <1>7, <1>8, <1>9, <1>10, <1>11, <1>12, <1>13, <1>14,
     <1>15, <1>16, <1>17 DEF Next, Produce, LetGo, Receive, Finished

-----------------------------------------------------------------------------
(* Who is where, and who holds a Sender.                                     *)

\* Every step leaves each holder somewhere it can be.
LEMMA PlacesStep ==
  ASSUME TypeOK, HoldersAreSomewhere, [Next]_vars
  PROVE  HoldersAreSomewhere'
<1> USE ChannelAssumption DEF TypeOK, HoldersAreSomewhere, Holders, PlacesOfMain,
        PlacesOfProducers, Pushing, Evicting, Goto
<1>1. ASSUME NEW p \in Producers, Produce(p) PROVE HoldersAreSomewhere'
  <2>1. CASE StartSend(p)
    BY <2>1 DEF StartSend
  <2>2. CASE SubscribeToSpace(p) \/ LookForRoom(p) \/ WokenBySpace(p)
    BY <2>2 DEF SubscribeToSpace, LookForRoom, WokenBySpace
  <2>3. CASE Push(p)
    BY <2>3 DEF Push
  <2>4. CASE Notify(p) \/ CountEviction(p)
    BY <2>4 DEF Notify, CountEviction
  <2> QED
    BY <1>1, <2>1, <2>2, <2>3, <2>4 DEF Produce
<1>2. ASSUME NEW h \in Holders, LetGo(h) PROVE HoldersAreSomewhere'
  <2>1. CASE DropSender(h)
    BY <2>1, SMTT(90) DEF DropSender, AfterDrop
  <2>2. CASE Close(h)
    BY <2>2, SMTT(90) DEF Close
  <2>3. CASE WakeReceiver(h)
    BY <2>3, SMTT(90) DEF WakeReceiver, AfterDrop
  <2> QED
    BY <1>2, <2>1, <2>2, <2>3 DEF LetGo
<1>3. CASE LeaveMain \/ DropTrigger
  BY <1>3 DEF LeaveMain, DropTrigger
<1>4. CASE Receive \/ SelectShutdown \/ SelectTick
  BY <1>4 DEF Receive, TakeItem, TellSpace, FindNothing, SelectReceive, CheckClosed,
     SubscribeToNotify, AwaitNotify, WokenByNotify, SelectShutdown, SelectTick, producers
<1>5. CASE UNCHANGED vars
  BY <1>5 DEF vars
<1> QED
  BY <1>1, <1>2, <1>3, <1>4, <1>5 DEF Next, Finished

\* The count of handles, and the close when it reaches zero (channel.rs:268-277).
LEMMA HandlesStep ==
  ASSUME TypeOK, HoldersAreSomewhere, HandlesAreCounted, [Next]_vars
  PROVE  HandlesAreCounted'
<1> USE ChannelAssumption DEF TypeOK, HoldersAreSomewhere, HandlesAreCounted, Holders,
        PlacesOfMain, PlacesOfProducers, Pushing, Evicting, Goto
<1>1. ASSUME NEW p \in Producers, Produce(p) PROVE HandlesAreCounted'
  <2>1. CASE StartSend(p)
    BY <2>1 DEF StartSend
  <2>2. CASE SubscribeToSpace(p) \/ LookForRoom(p) \/ WokenBySpace(p)
    BY <2>2, SMTT(90) DEF SubscribeToSpace, LookForRoom, WokenBySpace
  <2>3. CASE Push(p)
    BY <2>3 DEF Push
  <2>4. CASE Notify(p)
    BY <2>4 DEF Notify
  <2>5. CASE CountEviction(p)
    BY <2>5 DEF CountEviction
  <2> QED
    BY <1>1, <2>1, <2>2, <2>3, <2>4, <2>5 DEF Produce
<1>2. ASSUME NEW h \in Holders, LetGo(h) PROVE HandlesAreCounted'
  <2>1. CASE DropSender(h)
    BY <2>1 DEF DropSender, AfterDrop
  <2>2. CASE Close(h)
    BY <2>2 DEF Close
  <2>3. CASE WakeReceiver(h)
    BY <2>3 DEF WakeReceiver, AfterDrop
  <2> QED
    BY <1>2, <2>1, <2>2, <2>3 DEF LetGo
<1>3. CASE LeaveMain \/ DropTrigger
  BY <1>3 DEF LeaveMain, DropTrigger
<1>4. CASE Receive \/ SelectShutdown \/ SelectTick
  BY <1>4 DEF Receive, TakeItem, TellSpace, FindNothing, SelectReceive, CheckClosed,
     SubscribeToNotify, AwaitNotify, WokenByNotify, SelectShutdown, SelectTick, producers
<1>5. CASE UNCHANGED vars
  BY <1>5 DEF vars
<1> QED
  BY <1>1, <1>2, <1>3, <1>4, <1>5 DEF Next, Finished

\* A replay that has seen room keeps it: the aggregator only makes more
\* (channel.rs:210-235).
LEMMA ReplayStep ==
  ASSUME TypeOK, HoldersAreSomewhere, ReplayIsAlone, [Next]_vars
  PROVE  ReplayIsAlone'
<1> USE ChannelAssumption DEF TypeOK, HoldersAreSomewhere, ReplayIsAlone, Holders,
        PlacesOfMain, PlacesOfProducers, Pushing, Evicting, Goto
<1>1. ASSUME NEW p \in Producers, Produce(p) PROVE ReplayIsAlone'
  <2>1. CASE StartSend(p)
    BY <2>1 DEF StartSend
  <2>2. CASE SubscribeToSpace(p) \/ LookForRoom(p) \/ WokenBySpace(p)
    BY <2>2 DEF SubscribeToSpace, LookForRoom, WokenBySpace, HasRoom
  <2>3. CASE Push(p)
    BY <2>3 DEF Push
  <2>4. CASE Notify(p)
    BY <2>4 DEF Notify
  <2>5. CASE CountEviction(p)
    BY <2>5 DEF CountEviction
  <2> QED
    BY <1>1, <2>1, <2>2, <2>3, <2>4, <2>5 DEF Produce
<1>2. ASSUME NEW h \in Holders, LetGo(h) PROVE ReplayIsAlone'
  BY <1>2 DEF LetGo, DropSender, Close, WakeReceiver, AfterDrop
<1>3. CASE LeaveMain \/ DropTrigger
  BY <1>3 DEF LeaveMain, DropTrigger
<1>4. CASE TakeItem
  <2>1. Len(Tail(queue)) < Len(queue)
    BY <1>4 DEF TakeItem
  <2> QED
    BY <1>4, <2>1 DEF TakeItem, producers
<1>5. CASE \/ TellSpace \/ FindNothing \/ SelectReceive \/ CheckClosed
           \/ SubscribeToNotify \/ AwaitNotify \/ WokenByNotify
           \/ SelectShutdown \/ SelectTick
  BY <1>5 DEF TellSpace, FindNothing, SelectReceive, CheckClosed,
     SubscribeToNotify, AwaitNotify, WokenByNotify, SelectShutdown, SelectTick, producers
<1>6. CASE UNCHANGED vars
  BY <1>6 DEF vars
<1> QED
  BY <1>1, <1>2, <1>3, <1>4, <1>5, <1>6 DEF Next, Receive, Finished

-----------------------------------------------------------------------------
(* The wakeups of the receiver.                                              *)

\* The Notified of the loop is created, polled and dropped where recv says
\* (channel.rs:290-316).
LEMMA ReceiverStep ==
  ASSUME TypeOK, ReceiverIsWhereItWaits, [Next]_vars
  PROVE  ReceiverIsWhereItWaits'
<1> USE DEF TypeOK, ReceiverIsWhereItWaits, wakeups, consumer
<1>1. ASSUME NEW p \in Producers, Produce(p) PROVE ReceiverIsWhereItWaits'
  BY <1>1 DEF Produce, StartSend, SubscribeToSpace, LookForRoom, WokenBySpace, Push, Notify,
     CountEviction
<1>2. ASSUME NEW h \in Holders, LetGo(h) PROVE ReceiverIsWhereItWaits'
  BY <1>2 DEF LetGo, DropSender, Close, WakeReceiver
<1>3. CASE LeaveMain \/ DropTrigger
  BY <1>3 DEF LeaveMain, DropTrigger
<1>4. CASE TakeItem \/ TellSpace \/ FindNothing
  BY <1>4 DEF TakeItem, TellSpace, FindNothing, Popping
<1>5. CASE SelectReceive \/ CheckClosed \/ SubscribeToNotify \/ AwaitNotify \/ WokenByNotify
  BY <1>5 DEF SelectReceive, CheckClosed, SubscribeToNotify, AwaitNotify, WokenByNotify
<1>6. CASE SelectShutdown \/ SelectTick
  BY <1>6 DEF SelectShutdown, SelectTick, DropNotified
<1>7. CASE UNCHANGED vars
  BY <1>7 DEF vars
<1> QED
  BY <1>1, <1>2, <1>3, <1>4, <1>5, <1>6, <1>7 DEF Next, Receive, Finished

\* A push between the receiver's look at the queue and its first poll leaves a
\* permit, and a close between its look at the flag and that poll wakes the
\* Notified that exists by then (channel.rs:301-316).
LEMMA NewsStep ==
  ASSUME TypeOK, HoldersAreSomewhere, ReceiverIsWhereItWaits, NewsIsOnItsWay, NoLostWakeup,
         [Next]_vars
  PROVE  NewsIsOnItsWay' /\ NoLostWakeup'
<1> USE ChannelAssumption DEF TypeOK, Holders, Announcing, ReceiverIsWhereItWaits,
        NewsIsOnItsWay, NoLostWakeup, wakeups, consumer, Goto
<1>1. ASSUME NEW p \in Producers, Produce(p) PROVE NewsIsOnItsWay' /\ NoLostWakeup'
  <2>1. CASE StartSend(p)
    BY <2>1 DEF StartSend
  <2>2. CASE SubscribeToSpace(p) \/ LookForRoom(p) \/ WokenBySpace(p)
    BY <2>2 DEF SubscribeToSpace, LookForRoom, WokenBySpace
  <2>3. CASE Push(p)
    <3>1. pc'[p] \in Announcing
      BY <2>3 DEF Push
    <3>2. \A h \in Holders : pc[h] = "wake" => pc'[h] = "wake"
      BY <2>3 DEF Push
    <3>3. UNCHANGED <<closed, wakeups, loop>>
      BY <2>3 DEF Push
    <3> QED
      BY <3>1, <3>2, <3>3
  <2>4. CASE Notify(p)
    <3>1. \A h \in Holders : pc[h] = "wake" => pc'[h] = "wake"
      BY <2>4 DEF Notify
    <3>2. UNCHANGED <<closed, queue, loop>>
      BY <2>4 DEF Notify
    <3>3. CASE receiver = "waiting"
      BY <2>4, <3>1, <3>2, <3>3 DEF Notify
    <3>4. CASE receiver # "waiting"
      BY <2>4, <3>1, <3>2, <3>4 DEF Notify
    <3> QED
      BY <3>3, <3>4
  <2>5. CASE CountEviction(p)
    BY <2>5 DEF CountEviction
  <2> QED
    BY <1>1, <2>1, <2>2, <2>3, <2>4, <2>5 DEF Produce
<1>2. ASSUME NEW h \in Holders, LetGo(h) PROVE NewsIsOnItsWay' /\ NoLostWakeup'
  <2>1. CASE DropSender(h)
    BY <2>1 DEF DropSender, AfterDrop
  <2>2. CASE Close(h)
    BY <2>2 DEF Close
  <2>3. CASE WakeReceiver(h)
    BY <2>3 DEF WakeReceiver, AfterDrop
  <2> QED
    BY <1>2, <2>1, <2>2, <2>3 DEF LetGo
<1>3. CASE LeaveMain \/ DropTrigger
  BY <1>3 DEF LeaveMain, DropTrigger, HoldersAreSomewhere, PlacesOfMain
<1>4. CASE TakeItem \/ TellSpace \/ FindNothing
  BY <1>4 DEF TakeItem, TellSpace, FindNothing, Popping, producers
<1>5. CASE SelectReceive \/ CheckClosed \/ SubscribeToNotify
  BY <1>5 DEF SelectReceive, CheckClosed, SubscribeToNotify, producers
<1>6. CASE AwaitNotify \/ WokenByNotify
  BY <1>6 DEF AwaitNotify, WokenByNotify, producers
<1>7. CASE SelectShutdown \/ SelectTick
  BY <1>7 DEF SelectShutdown, SelectTick, DropNotified, producers
<1>8. CASE UNCHANGED vars
  BY <1>8 DEF vars
<1> QED
  BY <1>1, <1>2, <1>3, <1>4, <1>5, <1>6, <1>7, <1>8 DEF Next, Receive, Finished

\* recv returns None from its last look at the queue only, after the close, when
\* nobody is left to send (channel.rs:295-299).
LEMMA ClosedLoopStep ==
  ASSUME TypeOK, HandlesAreCounted, ClosedLoop, [Next]_vars
  PROVE  ClosedLoop'
<1> USE DEF TypeOK, ClosedLoop, Holders, consumer
<1>1. ASSUME NEW p \in Producers, Produce(p) PROVE ClosedLoop'
  <2>1. CASE StartSend(p) \/ SubscribeToSpace(p) \/ LookForRoom(p) \/ WokenBySpace(p)
    BY <2>1 DEF StartSend, SubscribeToSpace, LookForRoom, WokenBySpace
  <2>2. CASE Push(p)
    BY <2>2 DEF Push, HandlesAreCounted
  <2>3. CASE Notify(p) \/ CountEviction(p)
    BY <2>3 DEF Notify, CountEviction
  <2> QED
    BY <1>1, <2>1, <2>2, <2>3 DEF Produce
<1>2. ASSUME NEW h \in Holders, LetGo(h) PROVE ClosedLoop'
  BY <1>2 DEF LetGo, DropSender, Close, WakeReceiver
<1>3. CASE LeaveMain \/ DropTrigger
  BY <1>3 DEF LeaveMain, DropTrigger
<1>4. CASE TakeItem \/ TellSpace \/ FindNothing
  BY <1>4 DEF TakeItem, TellSpace, FindNothing, Popping, producers
<1>5. CASE SelectReceive \/ CheckClosed \/ SubscribeToNotify \/ AwaitNotify \/ WokenByNotify
  BY <1>5 DEF SelectReceive, CheckClosed, SubscribeToNotify, AwaitNotify, WokenByNotify,
     producers
<1>6. CASE SelectShutdown \/ SelectTick
  BY <1>6 DEF SelectShutdown, SelectTick, producers
<1>7. CASE UNCHANGED vars
  BY <1>7 DEF vars
<1> QED
  BY <1>1, <1>2, <1>3, <1>4, <1>5, <1>6, <1>7 DEF Next, Receive, Finished

-----------------------------------------------------------------------------
(* What is delivered, and what is lost.                                      *)

\* An element put behind the second of two sequences is behind both.
LEMMA ConcatAppend ==
  ASSUME NEW S, NEW s \in Seq(S), NEW t \in Seq(S), NEW e \in S
  PROVE  s \o Append(t, e) = Append(s \o t, e)
  OBVIOUS

\* The first element of the second of two sequences may be the last of the first.
LEMMA ConcatMove ==
  ASSUME NEW S, NEW s \in Seq(S), NEW t \in Seq(S), t # <<>>
  PROVE  Append(s, Head(t)) \o Tail(t) = s \o t
  OBVIOUS

\* When the second of two sequences loses its first element, those behind move up.
LEMMA ConcatTail ==
  ASSUME NEW S, NEW s \in Seq(S), NEW t \in Seq(S), t # <<>>
  PROVE  /\ s \o Tail(t) \in Seq(S)
         /\ Len(s \o Tail(t)) = Len(s \o t) - 1
         /\ Len(s) + 1 \in 1..Len(s \o t)
         /\ (s \o t)[Len(s) + 1] = Head(t)
         /\ \A k \in 1..Len(s \o t) - 1 :
               (s \o Tail(t))[k] = IF k <= Len(s) THEN (s \o t)[k] ELSE (s \o t)[k + 1]
  OBVIOUS

\* There are finitely many items.
LEMMA ItemsAreFinite == IsFiniteSet(Items)
<1> DEFINE pairs == Producers \X (1..MaxItems)
           item_of == [x \in pairs |-> [from |-> x[1], number |-> x[2]]]
<1>1. IsFiniteSet(pairs)
  <2>1. IsFiniteSet(Producers) /\ IsFiniteSet(1..MaxItems)
    BY ChannelAssumption, FS_Interval
  <2> QED
    BY <2>1, FS_Product
<1>2. item_of \in Surjection(pairs, Items)
  <2>1. item_of \in [pairs -> Items]
    BY DEF Items
  <2>2. ASSUME NEW i \in Items PROVE \E x \in pairs : item_of[x] = i
    <3>1. <<i.from, i.number>> \in pairs /\ item_of[<<i.from, i.number>>] = i
      BY DEF Items
    <3> QED
      BY <3>1
  <2> QED
    BY <2>1, <2>2 DEF Surjection
<1> QED
  BY <1>1, <1>2, FS_Surjection

\* So are the lost ones, and those about to count one.
LEMMA CountedSetsAreFinite ==
  /\ IsFiniteSet(Lost)
  /\ IsFiniteSet({p \in Producers : pc[p] \in {"notify_full", "count"}})
  BY ItemsAreFinite, ChannelAssumption, FS_Subset DEF Lost

\* A send into a channel with room adds its item behind all others
\* (channel.rs:161-170).
LEMMA PushDelivers ==
  ASSUME TypeOK, HoldersAreSomewhere, NEW p \in Producers, Push(p), Len(queue) < Capacity
  PROVE  Delivered' = Append(Delivered, [from |-> p, number |-> item[p]])
<1> DEFINE new == [from |-> p, number |-> item[p]]
<1>1. new \in Items
  BY NewItemType DEF Push, Pushing
<1>2. queue' = Append(queue, new) /\ applied' = applied
  BY DEF Push, TypeOK, consumer
<1> QED
  BY <1>1, <1>2, ConcatAppend DEF Delivered, TypeOK

\* A send into a full channel also takes away the item at its head
\* (channel.rs:163-167).
LEMMA PushEvicts ==
  ASSUME TypeOK, HoldersAreSomewhere, NEW p \in Producers, Push(p), Len(queue) = Capacity
  PROVE  /\ queue # <<>>
         /\ Delivered' = Append(applied \o Tail(queue), [from |-> p, number |-> item[p]])
<1> DEFINE new == [from |-> p, number |-> item[p]]
<1>1. new \in Items
  BY NewItemType DEF Push, Pushing
<1>2. queue # <<>>
  BY ChannelAssumption DEF TypeOK
<1>3. queue' = Append(Tail(queue), new) /\ applied' = applied
  BY DEF Push, TypeOK, consumer, EvictOldest
<1>4. Tail(queue) \in Seq(Items)
  BY <1>2 DEF TypeOK
<1> QED
  BY <1>1, <1>2, <1>3, <1>4, ConcatAppend DEF Delivered, TypeOK

\* A send makes its own item delivered, and changes nothing else about the items
\* it leaves where they were.
LEMMA LostAfterAppend ==
  ASSUME TypeOK, HoldersAreSomewhere, NEW p \in Producers, Push(p), NEW w \in Seq(Items),
         \A k \in 1..Len(w) : w[k].number < item[w[k].from],
         Delivered' = Append(w, [from |-> p, number |-> item[p]])
  PROVE  /\ Lost' = {i \in Items : i.number < item[i.from] /\ \A k \in 1..Len(w) : w[k] # i}
         /\ DeliveredWasSent'
<1> DEFINE new == [from |-> p, number |-> item[p]]
<1>1. new \in Items /\ item' = [item EXCEPT ![p] = @ + 1] /\ item \in [Producers -> Nat]
  BY NewItemType DEF Push, Pushing, TypeOK
<1>2. /\ Len(Delivered') = Len(w) + 1 /\ Len(w) \in Nat
      /\ Delivered'[Len(w) + 1] = new
      /\ \A k \in 1..Len(w) : Delivered'[k] = w[k]
  BY <1>1
<1>3. \A i \in Items : /\ i # new => (i.number < item'[i.from] <=> i.number < item[i.from])
                       /\ i.number < item[i.from] => i.number < item'[i.from] /\ i # new
  <2> SUFFICES ASSUME NEW i \in Items
               PROVE  /\ i # new => (i.number < item'[i.from] <=> i.number < item[i.from])
                      /\ i.number < item[i.from] => i.number < item'[i.from] /\ i # new
    OBVIOUS
  <2>1. i.from \in Producers /\ i.number \in Nat /\ item[i.from] \in Nat
    BY <1>1, ChannelAssumption DEF Items
  <2>2. CASE i.from # p
    BY <1>1, <2>1, <2>2
  <2>3. CASE i.from = p
    <3>1. item'[i.from] = item[p] + 1
      BY <1>1, <2>3
    <3>2. i # new => i.number # item[p]
      BY <2>3 DEF Items
    <3> QED
      BY <2>1, <2>3, <3>1, <3>2
  <2> QED
    BY <2>2, <2>3
<1>4. \A i \in Items :
         (\A k \in 1..Len(Delivered') : Delivered'[k] # i)
            <=> i # new /\ \A k \in 1..Len(w) : w[k] # i
  <2>1. \A k : k \in 1..Len(Delivered') <=> k \in 1..Len(w) \/ k = Len(w) + 1
    BY <1>2
  <2> QED
    BY <1>2, <2>1
<1>5. DeliveredWasSent'
  <2> SUFFICES ASSUME NEW k \in 1..Len(Delivered')
               PROVE  Delivered'[k].number < item'[Delivered'[k].from]
    BY DEF DeliveredWasSent
  <2>1. CASE k = Len(w) + 1
    BY <1>1, <1>2, <2>1
  <2>2. CASE k \in 1..Len(w)
    <3>1. Delivered'[k] = w[k] /\ w[k] \in Items /\ w[k].number < item[w[k].from]
      BY <1>2, <2>2
    <3> QED
      BY <1>3, <3>1
  <2> QED
    BY <1>2, <2>1, <2>2
<1> HIDE DEF new
<1> QED
  BY <1>3, <1>4, <1>5 DEF Lost

\* Whatever the others do to the order of the items, what is new comes last and
\* above all that its producer sent before.
LEMMA AppendKeepsOrder ==
  ASSUME NEW w \in Seq(Items), NEW p \in Producers, NEW n \in Nat,
         [from |-> p, number |-> n] \in Items,
         \A k \in 1..Len(w) : w[k].from = p => w[k].number < n,
         \A j, k \in 1..Len(w) : j < k /\ w[j].from = w[k].from => w[j].number < w[k].number
  PROVE  LET v == Append(w, [from |-> p, number |-> n])
         IN  \A j, k \in 1..Len(v) : j < k /\ v[j].from = v[k].from => v[j].number < v[k].number
  OBVIOUS

\* A send loses the item it evicts, if it evicts one, and no other.
LEMMA PushStep ==
  ASSUME TypeOK, HoldersAreSomewhere, DeliveredWasSent, OrderIsKept,
         NEW p \in Producers, Push(p)
  PROVE  /\ DeliveredWasSent' /\ OrderIsKept'
         /\ Len(queue) < Capacity => Lost' = Lost
         /\ Len(queue) = Capacity =>
               Head(queue) \notin Lost /\ Lost' = Lost \cup {Head(queue)}
<1> DEFINE new == [from |-> p, number |-> item[p]]
           rest == applied \o Tail(queue)
<1>1. /\ applied \in Seq(Items) /\ queue \in Seq(Items) /\ Delivered \in Seq(Items)
      /\ new \in Items /\ item[p] \in Nat
      /\ Len(queue) < Capacity \/ Len(queue) = Capacity
  BY NewItemType, ChannelAssumption DEF Push, Pushing, TypeOK, Delivered
<1>2. CASE Len(queue) < Capacity
  <2>1. Delivered' = Append(Delivered, new)
    BY <1>2, PushDelivers
  <2>2. DeliveredWasSent' /\ Lost' = Lost
    BY <1>1, <2>1, LostAfterAppend DEF DeliveredWasSent, Lost
  <2>3. OrderIsKept'
    <3>1. \A k \in 1..Len(Delivered) : Delivered[k].from = p => Delivered[k].number < item[p]
      BY DEF DeliveredWasSent
    <3> QED
      BY <1>1, <2>1, <3>1, AppendKeepsOrder DEF OrderIsKept
  <2> QED
    BY <1>2, <2>2, <2>3
<1>3. CASE Len(queue) = Capacity
  <2>1. queue # <<>> /\ Delivered' = Append(rest, new)
    BY <1>3, PushEvicts
  <2>2. /\ rest \in Seq(Items) /\ Len(rest) = Len(Delivered) - 1
        /\ Len(applied) + 1 \in 1..Len(Delivered)
        /\ Delivered[Len(applied) + 1] = Head(queue)
        /\ \A k \in 1..Len(rest) :
              rest[k] = IF k <= Len(applied) THEN Delivered[k] ELSE Delivered[k + 1]
        /\ Len(Delivered) \in Nat /\ Len(applied) \in Nat
    <3>1. applied \in Seq(Items) /\ queue \in Seq(Items) /\ queue # <<>>
      BY <1>1, <2>1
    <3> QED
      BY <3>1, ConcatTail DEF Delivered
  <2> HIDE DEF rest
  <2>3. \A k \in 1..Len(rest) : rest[k].number < item[rest[k].from]
    BY <2>2 DEF DeliveredWasSent
  <2>4. /\ DeliveredWasSent'
        /\ Lost' = {i \in Items : i.number < item[i.from] /\ \A k \in 1..Len(rest) : rest[k] # i}
    BY <2>1, <2>2, <2>3, LostAfterAppend
  <2>5. OrderIsKept'
    <3>1. \A j, k \in 1..Len(rest) :
             j < k /\ rest[j].from = rest[k].from => rest[j].number < rest[k].number
      BY <2>2, SMTT(90) DEF OrderIsKept
    <3>2. \A k \in 1..Len(rest) : rest[k].from = p => rest[k].number < item[p]
      BY <2>3
    <3> QED
      BY <1>1, <2>1, <2>2, <3>1, <3>2, AppendKeepsOrder DEF OrderIsKept
  <2>6. Head(queue) \notin Lost
    BY <2>2 DEF Lost
  <2>7. \A k \in 1..Len(rest) : rest[k] # Head(queue)
    <3> SUFFICES ASSUME NEW k \in 1..Len(rest), rest[k] = Head(queue) PROVE FALSE
      OBVIOUS
    <3>1. Head(queue).number \in Nat
      <4>1. Head(queue) \in Items
        BY <1>1, <2>1
      <4> QED
        BY <4>1 DEF Items
    <3>2. CASE k <= Len(applied)
      BY <2>2, <3>1, <3>2, SMTT(90) DEF OrderIsKept
    <3>3. CASE k > Len(applied)
      BY <2>2, <3>1, <3>3, SMTT(90) DEF OrderIsKept
    <3> QED
      BY <2>2, <3>2, <3>3
  <2>8. ASSUME NEW i, i # Head(queue)
        PROVE  (\A k \in 1..Len(rest) : rest[k] # i)
                  <=> \A k \in 1..Len(Delivered) : Delivered[k] # i
    <3>1. ASSUME NEW k \in 1..Len(Delivered), Delivered[k] = i
          PROVE  \E j \in 1..Len(rest) : rest[j] = i
      <4>1. CASE k <= Len(applied)
        BY <2>2, <3>1, <4>1
      <4>2. CASE k > Len(applied)
        <5>1. k - 1 \in 1..Len(rest) /\ k - 1 > Len(applied) /\ k - 1 + 1 = k
          BY <2>2, <2>8, <3>1, <4>2
        <5> QED
          BY <2>2, <3>1, <5>1
      <4> QED
        BY <2>2, <4>1, <4>2
    <3>2. ASSUME NEW k \in 1..Len(rest), rest[k] = i
          PROVE  \E j \in 1..Len(Delivered) : Delivered[j] = i
      BY <2>2, <3>2
    <3> QED
      BY <3>1, <3>2
  <2>9. Head(queue) \in Items /\ Head(queue).number < item[Head(queue).from]
    BY <1>1, <2>1, <2>2 DEF DeliveredWasSent
  <2>10. Lost' = Lost \cup {Head(queue)}
    BY <2>4, <2>7, <2>8, <2>9 DEF Lost
  <2> QED
    BY <1>3, <2>4, <2>5, <2>6, <2>10
<1> QED
  BY <1>1, <1>2, <1>3

\* Taking an item moves it from the queue to what was taken.
LEMMA TakeStep ==
  ASSUME TypeOK, TakeItem
  PROVE  Delivered' = Delivered /\ item' = item
  BY ConcatMove DEF TakeItem, TypeOK, Delivered, producers

\* Nobody else touches the items.
LEMMA OtherSteps ==
  ASSUME [Next]_vars, \A p \in Producers : ~Push(p), ~TakeItem
  PROVE  UNCHANGED <<queue, applied, item>>
<1> USE DEF consumer, producers
<1>1. ASSUME NEW p \in Producers, Produce(p) PROVE UNCHANGED <<queue, applied, item>>
  BY <1>1 DEF Produce, StartSend, SubscribeToSpace, LookForRoom, WokenBySpace, Notify,
     CountEviction
<1>2. ASSUME NEW h \in Holders, LetGo(h) PROVE UNCHANGED <<queue, applied, item>>
  BY <1>2 DEF LetGo, DropSender, Close, WakeReceiver
<1>3. CASE LeaveMain \/ DropTrigger
  BY <1>3 DEF LeaveMain, DropTrigger
<1>4. CASE Receive \/ SelectShutdown \/ SelectTick
  BY <1>4 DEF Receive, TellSpace, FindNothing, SelectReceive, CheckClosed,
     SubscribeToNotify, AwaitNotify, WokenByNotify, SelectShutdown, SelectTick
<1>5. CASE UNCHANGED vars
  BY <1>5 DEF vars
<1> QED
  BY <1>1, <1>2, <1>3, <1>4, <1>5 DEF Next, Finished

\* What is delivered is in order, and was sent.
LEMMA OrderStep ==
  ASSUME TypeOK, HoldersAreSomewhere, DeliveredWasSent, OrderIsKept, [Next]_vars
  PROVE  DeliveredWasSent' /\ OrderIsKept'
<1>1. CASE \E p \in Producers : Push(p)
  BY <1>1, PushStep
<1>2. CASE TakeItem
  BY <1>2, TakeStep DEF DeliveredWasSent, OrderIsKept
<1>3. CASE ~TakeItem /\ \A p \in Producers : ~Push(p)
  BY <1>3, OtherSteps DEF DeliveredWasSent, OrderIsKept, Delivered
<1> QED
  BY <1>1, <1>2, <1>3

\* The senders between their eviction and their count, by the step taken.
Evictors == {p \in Producers : pc[p] \in {"notify_full", "count"}}

\* Only an eviction and its count change who is between the two.
LEMMA EvictorsStep ==
  ASSUME TypeOK, HoldersAreSomewhere, [Next]_vars
  PROVE  \/ \E p \in Producers : Push(p)
         \/ \E p \in Producers : CountEviction(p)
         \/ UNCHANGED <<Evictors, dropped>>
<1> USE ChannelAssumption DEF TypeOK, HoldersAreSomewhere, PlacesOfProducers, PlacesOfMain,
        Pushing, Evicting, Holders, Goto, Evictors
<1>1. ASSUME NEW p \in Producers, Produce(p), ~Push(p), ~CountEviction(p)
      PROVE  UNCHANGED <<Evictors, dropped>>
  <2>1. CASE StartSend(p)
    BY <2>1 DEF StartSend
  <2>2. CASE SubscribeToSpace(p) \/ LookForRoom(p) \/ WokenBySpace(p)
    BY <2>2 DEF SubscribeToSpace, LookForRoom, WokenBySpace
  <2>3. CASE Notify(p)
    BY <2>3 DEF Notify
  <2> QED
    BY <1>1, <2>1, <2>2, <2>3 DEF Produce
<1>2. ASSUME NEW h \in Holders, LetGo(h) PROVE UNCHANGED <<Evictors, dropped>>
  BY <1>2 DEF LetGo, DropSender, Close, WakeReceiver, AfterDrop
<1>3. CASE LeaveMain \/ DropTrigger
  BY <1>3 DEF LeaveMain, DropTrigger
<1>4. CASE Receive \/ SelectShutdown \/ SelectTick
  BY <1>4 DEF Receive, TakeItem, TellSpace, FindNothing, SelectReceive, CheckClosed,
     SubscribeToNotify, AwaitNotify, WokenByNotify, SelectShutdown, SelectTick, producers
<1>5. CASE UNCHANGED vars
  BY <1>5 DEF vars
<1> QED
  BY <1>1, <1>2, <1>3, <1>4, <1>5 DEF Next, Finished

\* An eviction takes an item and makes a sender that will count it; the count
\* comes later, outside the lock (channel.rs:161-183).
LEMMA AccountStep ==
  ASSUME TypeOK, HoldersAreSomewhere, DeliveredWasSent, OrderIsKept, EveryItemIsAccountedFor,
         [Next]_vars
  PROVE  EveryItemIsAccountedFor'
<1> USE DEF EveryItemIsAccountedFor
<1>1. IsFiniteSet(Lost) /\ IsFiniteSet(Evictors)
  BY CountedSetsAreFinite DEF Evictors
<1>2. Cardinality(Evictors) \in Nat /\ dropped \in Nat
  BY <1>1, FS_CardinalityType DEF TypeOK
<1>3. Cardinality(Lost) = dropped + Cardinality(Evictors)
  BY DEF Evictors
<1>4. SUFFICES Cardinality(Lost') = dropped' + Cardinality(Evictors')
  BY DEF Evictors
<1>5. ASSUME NEW p \in Producers, Push(p), Len(queue) < Capacity
      PROVE  Cardinality(Lost') = dropped' + Cardinality(Evictors')
  <2>1. Lost' = Lost
    BY <1>5, PushStep
  <2>2. Evictors' = Evictors /\ dropped' = dropped
    BY <1>5, ChannelAssumption DEF Push, Evictors, Goto, TypeOK, Holders
  <2> QED
    BY <1>3, <2>1, <2>2
<1>6. ASSUME NEW p \in Producers, Push(p), Len(queue) = Capacity
      PROVE  Cardinality(Lost') = dropped' + Cardinality(Evictors')
  <2>1. Cardinality(Lost') = Cardinality(Lost) + 1
    <3>1. Head(queue) \notin Lost /\ Lost' = Lost \cup {Head(queue)}
      BY <1>6, PushStep
    <3> QED
      BY <1>1, <3>1, FS_AddElement
  <2>2. p \notin Evictors /\ Evictors' = Evictors \cup {p} /\ dropped' = dropped
    BY <1>6, ChannelAssumption DEF Push, Evictors, Goto, TypeOK, Holders
  <2>3. Cardinality(Evictors') = Cardinality(Evictors) + 1
    BY <1>1, <2>2, FS_AddElement
  <2> QED
    BY <1>2, <1>3, <2>1, <2>2, <2>3
<1>7. ASSUME NEW p \in Producers, CountEviction(p)
      PROVE  Cardinality(Lost') = dropped' + Cardinality(Evictors')
  <2>1. Lost' = Lost
    BY <1>7 DEF CountEviction, consumer, Lost, Delivered
  <2>2. p \in Evictors /\ Evictors' = Evictors \ {p} /\ dropped' = dropped + 1
    BY <1>7, ChannelAssumption DEF CountEviction, Evictors, Goto, TypeOK, Holders
  <2>3. Cardinality(Evictors') = Cardinality(Evictors) - 1
    BY <1>1, <2>2, FS_RemoveElement
  <2> QED
    BY <1>2, <1>3, <2>1, <2>2, <2>3
<1>8. CASE UNCHANGED <<Evictors, dropped>> /\ \A p \in Producers : ~Push(p)
  <2>1. Lost' = Lost
    <3>1. CASE TakeItem
      BY <3>1, TakeStep DEF Lost
    <3>2. CASE ~TakeItem
      BY <1>8, <3>2, OtherSteps DEF Lost, Delivered
    <3> QED
      BY <3>1, <3>2
  <2> QED
    BY <1>3, <1>8, <2>1
<1>9. Len(queue) < Capacity \/ Len(queue) = Capacity
  BY ChannelAssumption DEF TypeOK
<1> QED
  BY <1>5, <1>6, <1>7, <1>8, <1>9, EvictorsStep

-----------------------------------------------------------------------------
(* The theorems.                                                             *)

\* A channel that was just made, and its producers about to start.
LEMMA InitInvariant == Init => IInv
<1> SUFFICES ASSUME Init PROVE IInv
  OBVIOUS
<1>1. TypeOK
  <2>1. handles \subseteq Holders
    BY ChannelAssumption DEF Init, Spawned, Holders
  <2>2. Len(queue) <= Capacity /\ queue \in Seq(Items) /\ applied \in Seq(Items)
    BY ChannelAssumption DEF Init
  <2>3. item \in [Producers -> 1..MaxItems + 1]
    BY ChannelAssumption DEF Init
  <2> QED
    BY <2>1, <2>2, <2>3 DEF Init, TypeOK
<1>2. HoldersAreSomewhere /\ HandlesAreCounted /\ ReplayIsAlone
  BY ChannelAssumption DEF Init, Holders, Spawned, HoldersAreSomewhere, HandlesAreCounted,
     ReplayIsAlone, PlacesOfMain, PlacesOfProducers, Pushing, Evicting
<1>3. Delivered = <<>>
  BY DEF Init, Delivered
<1>4. DeliveredWasSent /\ OrderIsKept
  BY <1>3 DEF DeliveredWasSent, OrderIsKept
<1>5. EveryItemIsAccountedFor
  <2>1. Lost = {}
    BY DEF Lost, Items, Init
  <2>2. Evictors = {}
    BY ChannelAssumption DEF Init, Holders, Spawned, Evictors
  <2>3. Cardinality({}) = 0 /\ dropped = 0
    BY FS_EmptySet DEF Init
  <2> QED
    BY <2>1, <2>2, <2>3 DEF EveryItemIsAccountedFor, Evictors
<1>6. ReceiverIsWhereItWaits /\ NewsIsOnItsWay /\ NoLostWakeup /\ ClosedLoop
  BY DEF Init, ReceiverIsWhereItWaits, NewsIsOnItsWay, NoLostWakeup, ClosedLoop
<1> QED
  BY <1>1, <1>2, <1>4, <1>5, <1>6 DEF IInv

\* IInv is inductive.
LEMMA StepInvariant == IInv /\ [Next]_vars => IInv'
  BY TypeStep, PlacesStep, HandlesStep, ReplayStep, ReceiverStep, NewsStep, ClosedLoopStep,
     OrderStep, AccountStep
  DEF IInv

\* The inductive invariant holds of every behaviour.
THEOREM Invariance == Spec => []IInv
<1>1. Init => IInv
  BY InitInvariant
<1>2. IInv /\ [Next]_vars => IInv'
  BY StepInvariant
<1> QED
  BY <1>1, <1>2, PTL DEF Spec

\* A replay that is alone and counts no eviction lost nothing.
LEMMA ReplayLosesNothing ==
  ASSUME IInv, replaying
  PROVE  Lost = {}
<1>1. dropped = 0 /\ Evictors = {}
  <2>1. dropped = 0 /\ pc[Replayer] \notin Evicting
    BY DEF IInv, ReplayIsAlone
  <2>2. \A p \in Producers \ {Replayer} : pc[p] = "gone"
    BY DEF IInv, ReplayIsAlone
  <2> QED
    BY <2>1, <2>2 DEF Evictors, Evicting
<1>2. Cardinality(Lost) = 0
  BY <1>1, FS_EmptySet DEF IInv, EveryItemIsAccountedFor, Evictors
<1> QED
  BY <1>2, CountedSetsAreFinite, FS_EmptySet

\* Every item sent is applied, queued, counted as dropped, or about to be, once
\* and in its producer's order, and a replay evicts none (channel.rs push, pop).
THEOREM NothingVanishes == Spec => []Inv
<1>1. IInv => Inv
  BY ReplayLosesNothing DEF IInv, Inv, ReplayEvictsNothing
<1> QED
  BY <1>1, Invariance, PTL

\* Whatever comes between the receiver's looks and its sleep, it does not sleep
\* over an item or over the close (channel.rs recv).
THEOREM NoWakeupIsLost == Spec => []NoLostWakeup
<1>1. IInv => NoLostWakeup
  BY DEF IInv
<1> QED
  BY <1>1, Invariance, PTL

\* recv returns None only when the channel is closed and drained (channel.rs recv).
THEOREM CloseLeavesNothing == Spec => []CloseDrains
<1>1. IInv => CloseDrains
  BY DEF IInv, ClosedLoop, CloseDrains
<1> QED
  BY <1>1, Invariance, PTL

-----------------------------------------------------------------------------
(* The channel is a LossyQueue.                                              *)

\* A channel that was just made is an empty queue.
LEMMA InitRefines == Init => Queue!Init
<1> SUFFICES ASSUME Init PROVE Queue!Init
  OBVIOUS
<1>1. Lost = {}
  BY DEF Lost, Items, Init
<1> QED
  BY <1>1 DEF Init, Queue!Init

\* Of all steps of the channel, those that push, take an item or end the loop are
\* steps of the queue, and the others are none of its business.
LEMMA StepRefines == IInv /\ [Next]_vars => [Queue!Next]_Queue!vars
<1> SUFFICES ASSUME IInv, [Next]_vars PROVE [Queue!Next]_Queue!vars
  OBVIOUS
<1> USE DEF IInv
<1>1. ASSUME NEW p \in Producers, Push(p) PROVE Queue!Next
  <2>1. UNCHANGED <<replaying, applied, loop>> /\ item' = [item EXCEPT ![p] = @ + 1]
    BY <1>1 DEF Push, consumer
  <2>2. CASE Len(queue) < Capacity
    <3>1. Lost' = Lost
      BY <1>1, <2>2, PushStep
    <3>2. queue' = Append(queue, [from |-> p, number |-> item[p]])
      BY <1>1, <2>2 DEF Push
    <3>3. Queue!Send(p)
      BY <2>1, <2>2, <3>1, <3>2 DEF Queue!Send, Queue!New
    <3> QED
      BY <3>3 DEF Queue!Next
  <2>3. CASE Len(queue) = Capacity
    <3>1. Lost' = Lost \cup {Head(queue)}
      BY <1>1, <2>3, PushStep
    <3>2. queue' = Append(Tail(queue), [from |-> p, number |-> item[p]])
      BY <1>1, <2>3, ChannelAssumption DEF Push, EvictOldest
    <3>3. ~replaying
      BY <1>1, <2>3, ChannelAssumption DEF ReplayIsAlone, Push
    <3>4. Queue!SendEvicting(p)
      BY <2>1, <2>3, <3>1, <3>2, <3>3 DEF Queue!SendEvicting, Queue!New
    <3> QED
      BY <3>4 DEF Queue!Next
  <2> QED
    BY <2>2, <2>3, ChannelAssumption DEF TypeOK
<1>2. CASE TakeItem
  <2>1. Lost' = Lost
    BY <1>2, TakeStep DEF Lost
  <2>2. loop # "done" /\ loop' # "done"
    BY <1>2 DEF TakeItem, Popping
  <2>3. Queue!Receive
    BY <1>2, <2>1, <2>2, TakeStep DEF TakeItem, producers, Queue!Receive
  <2> QED
    BY <2>3 DEF Queue!Next
<1>3. CASE ~TakeItem /\ \A p \in Producers : ~Push(p)
  <2>1. UNCHANGED <<queue, applied, item, Lost>>
    BY <1>3, OtherSteps DEF Lost, Delivered
  <2>2. UNCHANGED replaying /\ (loop = "done" => loop' = "done")
    <3> USE DEF consumer, producers
    <3>1. ASSUME NEW p \in Producers, Produce(p)
          PROVE  UNCHANGED replaying /\ (loop = "done" => loop' = "done")
      BY <3>1 DEF Produce, StartSend, SubscribeToSpace, LookForRoom, WokenBySpace, Push, Notify,
         CountEviction
    <3>2. ASSUME NEW h \in Holders, LetGo(h)
          PROVE  UNCHANGED replaying /\ (loop = "done" => loop' = "done")
      BY <3>2 DEF LetGo, DropSender, Close, WakeReceiver
    <3>3. CASE LeaveMain \/ DropTrigger
      BY <3>3 DEF LeaveMain, DropTrigger
    <3>4. CASE Receive \/ SelectShutdown \/ SelectTick
      BY <3>4 DEF Receive, TakeItem, TellSpace, FindNothing, SelectReceive, CheckClosed,
         SubscribeToNotify, AwaitNotify, WokenByNotify, SelectShutdown, SelectTick, Popping
    <3>5. CASE UNCHANGED vars
      BY <3>5 DEF vars
    <3> QED
      BY <3>1, <3>2, <3>3, <3>4, <3>5 DEF Next, Finished
  <2>3. CASE loop # "done" /\ loop' = "done"
    <3>1. Queue!Stop
      BY <2>1, <2>2, <2>3 DEF Queue!Stop
    <3> QED
      BY <3>1 DEF Queue!Next
  <2>4. CASE ~(loop # "done" /\ loop' = "done")
    BY <2>1, <2>2, <2>4 DEF Queue!vars
  <2> QED
    BY <2>3, <2>4
<1> QED
  BY <1>1, <1>2, <1>3

\* Every behaviour of the channel, with all its locks and wakeups, is one of a queue
\* on which sending, evicting and receiving are single steps (channel.rs:1-40).
THEOREM ImplementsLossyQueue == Spec => Queue!Init /\ [][Queue!Next]_Queue!vars
<1>1. Init => Queue!Init
  BY InitRefines
<1>2. IInv /\ [Next]_vars => [Queue!Next]_Queue!vars
  BY StepRefines
<1> QED
  BY <1>1, <1>2, Invariance, PTL DEF Spec
===============================================================================
