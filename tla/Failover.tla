------------------------------ MODULE Failover ------------------------------
(***************************************************************************)
(* What the lease promises over time, with two history variables.          *)
(*                                                                         *)
(* slipAt is the last time the argument of lease.rs:42-80 had no ground to *)
(* stand on: a node went on with a contact whose record some reader could  *)
(* see expired, or a read left out a record.  Two nodes run one stream     *)
(* only for a while after that (OverlapIsBrief).                           *)
(*                                                                         *)
(* calmSince is for the dual (lease.rs:11-19), that every stream runs      *)
(* somewhere.  The lease gives no such guarantee while nodes come, go and  *)
(* lose the registry, so it is stated as a bounded response: calmSince     *)
(* records the last time anything of the kind happened, and once the       *)
(* cluster has been calm for RecoverFor, each node runs exactly what the   *)
(* nodes that are up assign to it.                                         *)
(***************************************************************************)
EXTENDS Lease

VARIABLES
  calmSince,  \* when the last Disturbance happened
  slipAt      \* when the last slip happened, NoTime if none did

failoverVars == <<vars, calmSince, slipAt>>

\* Node m goes on with a contact although some node could see its record expired.
Late(m) == Contact(m) /\ \E n \in Node : Expired(m, now + Offset[n])

Slips == \E m \in Node : Late(m)' \/ ReadSkips(m)

FailoverInit == Init /\ calmSince = 0 /\ slipAt = NoTime

FailoverNext ==
  /\ \/ Progress /\ UNCHANGED calmSince
     \/ Disturbance /\ calmSince' = now
  /\ slipAt' = IF Slips THEN now' ELSE slipAt

FailoverSpec == FailoverInit /\ [][FailoverNext]_failoverVars

FailoverTypeOK == TypeOK /\ calmSince \in Nat /\ slipAt \in Time

-----------------------------------------------------------------------------
(* At most one owner.                                                      *)

\* A joiner's notice outlasts the hold of any node that has not heard of it: with
\* one ttl, 2 * Guard >= Renew + 3 * StepMax.  The code checks nothing of the kind,
\* but 15 s, 3 s and 2 s meet it for round trips of up to a third of a second.
NoticeCoversHold ==
  \A m, n \in Node : SettleFor(m) >= HoldFor(n) + Renew + 3 * StepMax

\* The longest a node goes by a membership before it reads another or stands down.
ActsOnFor(n) == HoldFor(n) + Renew + 2 * StepMax

\* lease.rs:4-9 claims AtMostOneOwner.  What is true is that two nodes run one
\* stream only after a slip, and only until the one that missed the other has read
\* the registry again or lost its hold.
OverlapIsBrief ==
  \A m, n \in Node : m # n /\ owned[m] \cap owned[n] # {} =>
    slipAt # NoTime /\ \E k \in {m, n} : now < slipAt + ActsOnFor(k)

\* lease.rs:63-74: two nodes that hold streams know of each other, however stale
\* the membership that either of them last read, unless there was a slip since.
HoldersSeeEachOther ==
  \A m, n \in Node : owned[m] # {} /\ owned[n] # {} =>
    m \in members[n] \/ slipAt >= lastContact[n]

\* A node missing from the membership another node read, or is reading, first
\* made contact no earlier than that read, give or take a step, unless there was
\* a slip since.
UnseenIsNewer ==
  \A m, n \in Node : m # n /\ Contact(m) =>
    /\ Contact(n) /\ m \notin members[n] =>
         settledAt[m] + StepMax >= lastContact[n] \/ slipAt >= lastContact[n]
    /\ pc[n] = "concluding" /\ m \notin seen[n] =>
         settledAt[m] + StepMax >= stepAt[n] \/ slipAt >= stepAt[n]

\* slipAt is up to date.
SlipsAreNoted == slipAt <= now /\ \A m \in Node : Late(m) => slipAt = now

\* The inductive invariant behind these, for any timings.
IInv == LeaseInv /\ FailoverTypeOK /\ SlipsAreNoted /\ UnseenIsNewer

\* The timings for which nothing slips, and AtMostOneOwner and HolderIsUnexpired
\* hold as lease.rs claims: the guard covers the overshoot of the hold, and a read
\* that succeeds returns every record.  No timings in the repository meet the first.
GuardCoversOvershoot == Guard >= Renew + 2 * StepMax + MaxSkew
ReadsAreComplete == ~SkipsUnreadable

-----------------------------------------------------------------------------
(* Every stream has an owner.                                              *)

\* What the claims below need of the timings: a node can hold something at all, a
\* sleep takes time, a record outlives the time between two looks at it, and
\* clocks differ by less than the guard and a sleep.
HoldsLast == \A n \in Node : Guard < Ttl[n]
SleepsTakeTime == Renew > 0
RecordsOutliveSleeps == \A n \in Node : Ttl[n] >= Renew + 2 * StepMax + MaxSkew
ClocksAreClose == MaxSkew < Guard + Renew

Up == {n \in Node : Active(n)}
CalmFor == now - calmSince

\* A sleep after the last failure, the notice, and the step that first finds it
\* served; the expiry of a dead node's record always falls inside.
RecoverFor(n) == SettleFor(n) + 2 * Renew + 2 * StepMax

\* The assignment has converged: nothing is orphaned, nothing is held that the
\* nodes up would give to another (lease.rs:11-19, assign.rs:95-101).
ConvergesWhenCalm ==
  (\A n \in Node : CalmFor >= RecoverFor(n)) =>
    \A n \in Up : owned[n] = AssignedTo(n, Up)

\* lease.rs:194-198: the nodes that have served their notice take a dead node's
\* streams over in one ttl; in fact one ttl, a sleep and two steps, because its
\* last renewal may have been its last act and survivors look once per Renew.
FailOverFor(n) == Ttl[n] + MaxSkew + 1 + Renew + 2 * StepMax

ServedNotice(n) ==
  Contact(n) /\ now - settledAt[n] >= SettleFor(n) + Renew + 2 * StepMax

SurvivorsTakeOver ==
  (\A n \in Node : CalmFor >= FailOverFor(n)) /\ (\A n \in Up : ServedNotice(n)) =>
    \A n \in Up : owned[n] = AssignedTo(n, Up)
=============================================================================
