------------------------------ MODULE LossyQueue ------------------------------
(* What the channel of ma-pipeline/src/channel.rs promises those who use it:  *)
(* a queue on which sending, evicting and receiving are single steps.         *)
(* Recovery and Supervisor use it in this form; Channel implements it.        *)
EXTENDS Integers, Sequences

CONSTANTS Senders, Capacity

VARIABLES
    lossless,   \* whether senders wait for room; fixed
    queue,
    next,       \* the number of the next item of each sender
    received,   \* in order
    lost,       \* the items evicted
    stopped     \* whether the receiver has ended

vars == <<lossless, queue, next, received, lost, stopped>>

Init ==
    /\ lossless \in BOOLEAN
    /\ queue = <<>> /\ received = <<>> /\ lost = {}
    /\ next = [s \in Senders |-> 1]
    /\ stopped = FALSE

New(s) == [from |-> s, number |-> next[s]]

Send(s) ==
    /\ Len(queue) < Capacity
    /\ queue' = Append(queue, New(s))
    /\ next' = [next EXCEPT ![s] = @ + 1]
    /\ UNCHANGED <<lossless, received, lost, stopped>>

\* Newer data is worth more than older: the oldest item makes room.
SendEvicting(s) ==
    /\ ~lossless /\ Len(queue) = Capacity
    /\ queue' = Append(Tail(queue), New(s))
    /\ lost' = lost \cup {Head(queue)}
    /\ next' = [next EXCEPT ![s] = @ + 1]
    /\ UNCHANGED <<lossless, received, stopped>>

Receive ==
    /\ ~stopped /\ queue # <<>>
    /\ received' = Append(received, Head(queue))
    /\ queue' = Tail(queue)
    /\ UNCHANGED <<lossless, next, lost, stopped>>

\* The receiver ends, and leaves what is queued.
Stop ==
    /\ ~stopped /\ stopped' = TRUE
    /\ UNCHANGED <<lossless, queue, next, received, lost>>

Next == Receive \/ Stop \/ \E s \in Senders : Send(s) \/ SendEvicting(s)

\* While there is something to receive and the receiver has not ended, it is
\* received in the end, without help from another send.
Spec == Init /\ [][Next]_vars /\ WF_vars(Receive)
===============================================================================
