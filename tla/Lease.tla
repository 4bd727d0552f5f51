-------------------------------- MODULE Lease --------------------------------
(***************************************************************************)
(* Cluster membership by lease (crates/ma-coord/src/lease.rs).             *)
(*                                                                         *)
(* Each node runs Coordinator::run: a step, then a sleep of Renew.  A step *)
(* reads the clock once, announces the node's own record, reads every      *)
(* record, and decides what the node holds.  The registry calls are awaits *)
(* during which other nodes act and time passes, so a step is four actions *)
(* (BeginStep, Announce, Read, Conclude) and each call may fail.           *)
(*                                                                         *)
(* Time is the global counter now.  A node's monotonic clock runs at that  *)
(* rate; its wall clock, the only one compared between machines, is ahead  *)
(* of it by Offset[n].                                                     *)
(***************************************************************************)
EXTENDS Assign

CONSTANTS Ttl,              \* LeaseConfig::ttl of each node, carried in its record
          Renew,            \* LeaseConfig::renew
          Guard,            \* LeaseConfig::guard
          StepMax,          \* longest a step's registry round trip takes
          Offset,           \* wall clock error of each node
          MaxSkew,          \* bound on the difference of two wall clocks
          SkipsUnreadable,  \* TRUE: S3Registry, which skips records it cannot get
          Horizon           \* bound on now

ASSUME LeaseAssumption ==
  /\ Ttl \in [Node -> Nat] /\ Renew \in Nat /\ Guard \in Nat
  /\ StepMax \in Nat /\ MaxSkew \in Nat /\ Horizon \in Nat
  /\ Offset \in [Node -> Nat]
  /\ \A m, n \in Node : Offset[m] <= Offset[n] + MaxSkew
  /\ SkipsUnreadable \in BOOLEAN

VARIABLES
  now,          \* real time
  registry,     \* registry[n]: when n's record expires, NoTime if there is none
  pc,           \* where node n's coordinator is
  stepAt,       \* the clock reading of n's step, or when its next step is due
  seen,         \* live nodes among the records the step in progress has read
  members,      \* LeaseState::members
  lastContact,  \* LeaseState::last_contact, NoTime for None
  settledAt,    \* LeaseState::settled_at
  stoodDown,    \* LeaseState::stood_down
  settling,     \* LeaseState::settling
  owned         \* LeaseState::owned, as last sent on the watch channel

leaseVars == <<members, lastContact, settledAt, stoodDown, settling, owned>>
vars == <<now, registry, pc, stepAt, seen, leaseVars>>

NoTime == -1
Time == Nat \cup {NoTime}
PC == {"down", "announcing", "reading", "concluding", "sleeping", "withdrawing"}

\* A step in progress, and a node whose LeaseState is in use.
InStep(n) == pc[n] \in {"announcing", "reading", "concluding"}
Active(n) == InStep(n) \/ pc[n] = "sleeping"

-----------------------------------------------------------------------------
(* Lease arithmetic.                                                       *)
\* mutant: the guard is not subtracted.
HoldForWholeTtl(n) == Ttl[n]

\* LeaseConfig::hold_for, a saturating subtraction.
HoldFor(n) == IF Ttl[n] > Guard THEN Ttl[n] - Guard ELSE 0

\* mutant: the notice is the guard alone.
SettleForGuard(n) == Guard

\* LeaseConfig::settle_for.
SettleFor(n) == Ttl[n] + Guard

\* The record step() builds: written now by n's wall clock, valid for n's ttl.
\* Only the sum is ever compared, so the sum is what the registry keeps.
Record(n) == stepAt[n] + Offset[n] + Ttl[n]

\* mutant: expiry is not checked.
NeverExpired(m, wall) == FALSE

\* Lease::expired_at, at the wall clock reading wall.
Expired(m, wall) == wall > registry[m]

\* mutant: records are judged at the previous step's reading.
LiveMembersAtLastContact(n) ==
  LET at == IF lastContact[n] = NoTime THEN stepAt[n] ELSE lastContact[n]
  IN {m \in Node : registry[m] # NoTime /\ ~Expired(m, at + Offset[n])}

\* live_members(): the unexpired records, judged at the step's own clock reading.
LiveMembers(n) ==
  {m \in Node : registry[m] # NoTime /\ ~Expired(m, stepAt[n] + Offset[n])}

-----------------------------------------------------------------------------
Init ==
  /\ now = 0
  /\ registry = [n \in Node |-> NoTime]
  /\ pc = [n \in Node |-> "down"]
  /\ stepAt = [n \in Node |-> 0]
  /\ seen = [n \in Node |-> {}]
  /\ members = [n \in Node |-> {}]
  /\ lastContact = [n \in Node |-> NoTime]
  /\ settledAt = [n \in Node |-> 0]
  /\ stoodDown = [n \in Node |-> TRUE]
  /\ settling = [n \in Node |-> FALSE]
  /\ owned = [n \in Node |-> {}]

\* Coordinator::run starts: LeaseState::new, then the first step at once.
Start(n) ==
  /\ pc[n] = "down"
  /\ pc' = [pc EXCEPT ![n] = "announcing"]
  /\ stepAt' = [stepAt EXCEPT ![n] = now]
  /\ settledAt' = [settledAt EXCEPT ![n] = now]
  /\ UNCHANGED <<now, registry, seen, members, lastContact, stoodDown, settling, owned>>

\* The sleep of Renew ends and step() reads the clock.
BeginStep(n) ==
  /\ pc[n] = "sleeping"
  /\ now >= stepAt[n]
  /\ pc' = [pc EXCEPT ![n] = "announcing"]
  /\ stepAt' = [stepAt EXCEPT ![n] = now]
  /\ UNCHANGED <<now, registry, seen, leaseVars>>

\* announce() writes this node's own record, stamped with the step's reading.
Announce(n) ==
  /\ pc[n] = "announcing"
  /\ registry' = [registry EXCEPT ![n] = Record(n)]
  /\ pc' = [pc EXCEPT ![n] = "reading"]
  /\ UNCHANGED <<now, stepAt, seen, leaseVars>>

\* members() returns every record there is.
Read(n) ==
  /\ pc[n] = "reading"
  /\ seen' = [seen EXCEPT ![n] = LiveMembers(n)]
  /\ pc' = [pc EXCEPT ![n] = "concluding"]
  /\ UNCHANGED <<now, registry, stepAt, leaseVars>>

\* members() of the S3 registry leaves out the records it failed to get; the
\* directory registry turns such a failure into an error (ReadFails).
ReadSkips(n) ==
  /\ pc[n] = "reading" /\ SkipsUnreadable
  /\ \E unreadable \in SUBSET LiveMembers(n) \ {{}} :
       seen' = [seen EXCEPT ![n] = LiveMembers(n) \ unreadable]
  /\ pc' = [pc EXCEPT ![n] = "concluding"]
  /\ UNCHANGED <<now, registry, stepAt, leaseVars>>

\* mutant: the last contact survives standing down.
StandDownKeepsContact(n) ==
  /\ owned' = [owned EXCEPT ![n] = {}]
  /\ stoodDown' = [stoodDown EXCEPT ![n] = TRUE]
  /\ settling' = [settling EXCEPT ![n] = FALSE]
  /\ settledAt' = [settledAt EXCEPT ![n] = stepAt[n]]
  /\ UNCHANGED lastContact

\* LeaseState::stand_down.
StandDown(n) ==
  /\ owned' = [owned EXCEPT ![n] = {}]
  /\ stoodDown' = [stoodDown EXCEPT ![n] = TRUE]
  /\ settling' = [settling EXCEPT ![n] = FALSE]
  /\ lastContact' = [lastContact EXCEPT ![n] = NoTime]
  /\ settledAt' = [settledAt EXCEPT ![n] = stepAt[n]]

\* LeaseState::reconcile, given the contact and settling times note_contact left.
Reconcile(n, contactAt, noticeFrom) ==
  LET held == contactAt # NoTime /\ stepAt[n] - contactAt < HoldFor(n)
      inNotice == stepAt[n] - noticeFrom < SettleFor(n)
  IN \/ ~held /\ StandDown(n)
     \/ /\ held
        /\ lastContact' = [lastContact EXCEPT ![n] = contactAt]
        /\ settledAt' = [settledAt EXCEPT ![n] = noticeFrom]
        /\ settling' = [settling EXCEPT ![n] = inNotice]
        /\ stoodDown' = [stoodDown EXCEPT ![n] = inNotice /\ stoodDown[n]]
        /\ owned' = [owned EXCEPT ![n] =
                       IF inNotice THEN {} ELSE AssignedTo(n, members'[n])]

\* The step ends: its ownership is published and the node sleeps for Renew.
GoToSleep(n) ==
  /\ pc' = [pc EXCEPT ![n] = "sleeping"]
  /\ stepAt' = [stepAt EXCEPT ![n] = now + Renew]
  /\ seen' = [seen EXCEPT ![n] = {}]
  /\ UNCHANGED now

\* A complete round trip: note_contact, the new membership, then reconcile.
Conclude(n) ==
  /\ pc[n] = "concluding"
  /\ members' = [members EXCEPT ![n] = seen[n]]
  /\ Reconcile(n, stepAt[n],
               IF lastContact[n] = NoTime THEN stepAt[n] ELSE settledAt[n])
  /\ GoToSleep(n)
  /\ UNCHANGED registry

\* mutant: a failed announcement is logged, and the step goes on.
AnnounceFailsUnheeded(n) ==
  /\ pc[n] = "announcing"
  /\ registry' \in {registry, [registry EXCEPT ![n] = Record(n)]}
  /\ pc' = [pc EXCEPT ![n] = "reading"]
  /\ UNCHANGED <<now, stepAt, seen, leaseVars>>

\* announce() fails: the write may or may not have reached the registry.
AnnounceFails(n) ==
  /\ pc[n] = "announcing"
  /\ registry' \in {registry, [registry EXCEPT ![n] = Record(n)]}
  /\ UNCHANGED members
  /\ Reconcile(n, lastContact[n], settledAt[n])
  /\ GoToSleep(n)

\* mutant: having announced is enough of a contact (lease.rs:82-85).
ReadFailsAndRenews(n) ==
  /\ pc[n] = "reading"
  /\ UNCHANGED <<registry, members>>
  /\ Reconcile(n, stepAt[n],
               IF lastContact[n] = NoTime THEN stepAt[n] ELSE settledAt[n])
  /\ GoToSleep(n)

\* members() fails: the record was renewed, the hold is not extended.
ReadFails(n) ==
  /\ pc[n] = "reading"
  /\ UNCHANGED <<registry, members>>
  /\ Reconcile(n, lastContact[n], settledAt[n])
  /\ GoToSleep(n)

\* The stop future wins the select: release everything, then withdraw.
Stop(n) ==
  /\ pc[n] = "sleeping"
  /\ owned' = [owned EXCEPT ![n] = {}]
  /\ pc' = [pc EXCEPT ![n] = "withdrawing"]
  /\ UNCHANGED <<now, registry, stepAt, seen, members, lastContact, settledAt,
                 stoodDown, settling>>

\* The process is gone, and its LeaseState with it; its record stays.
ProcessEnds(n) ==
  /\ pc' = [pc EXCEPT ![n] = "down"]
  /\ stepAt' = [stepAt EXCEPT ![n] = 0]
  /\ seen' = [seen EXCEPT ![n] = {}]
  /\ members' = [members EXCEPT ![n] = {}]
  /\ lastContact' = [lastContact EXCEPT ![n] = NoTime]
  /\ settledAt' = [settledAt EXCEPT ![n] = 0]
  /\ stoodDown' = [stoodDown EXCEPT ![n] = TRUE]
  /\ settling' = [settling EXCEPT ![n] = FALSE]
  /\ owned' = [owned EXCEPT ![n] = {}]
  /\ UNCHANGED now

\* withdraw() deletes the record, or fails and leaves it to expire.
Withdraw(n) ==
  /\ pc[n] = "withdrawing"
  /\ registry' \in {registry, [registry EXCEPT ![n] = NoTime]}
  /\ ProcessEnds(n)

\* kill -9, at any point of a step.
Crash(n) ==
  /\ pc[n] # "down"
  /\ UNCHANGED registry
  /\ ProcessEnds(n)

\* Time passes, but a step takes at most StepMax and a sleep exactly Renew.
Tick ==
  /\ now < Horizon
  /\ \A n \in Node : /\ InStep(n) => now < stepAt[n] + StepMax
                     /\ pc[n] = "sleeping" => now < stepAt[n]
  /\ now' = now + 1
  /\ UNCHANGED <<registry, pc, stepAt, seen, leaseVars>>

-----------------------------------------------------------------------------
\* What the coordinators do by themselves, and what is done to them.
Progress ==
  \/ \E n \in Node : BeginStep(n) \/ Announce(n) \/ Read(n) \/ Conclude(n) \/ Withdraw(n)
  \/ Tick
Disturbance ==
  \E n \in Node : \/ Start(n) \/ Stop(n) \/ Crash(n)
                  \/ AnnounceFails(n) \/ ReadFails(n) \/ ReadSkips(n)

Next == Progress \/ Disturbance

Spec == Init /\ [][Next]_vars

-----------------------------------------------------------------------------
TypeOK ==
  /\ now \in Nat
  /\ registry \in [Node -> Time]
  /\ pc \in [Node -> PC]
  /\ stepAt \in [Node -> Nat]
  /\ seen \in [Node -> SUBSET Node]
  /\ members \in [Node -> SUBSET Node]
  /\ lastContact \in [Node -> Time]
  /\ settledAt \in [Node -> Nat]
  /\ stoodDown \in [Node -> BOOLEAN]
  /\ settling \in [Node -> BOOLEAN]
  /\ owned \in [Node -> SUBSET Stream]

\* lease.rs:4-9: at most one node runs a given stream at a time.
AtMostOneOwner ==
  \A m, n \in Node : m # n => owned[m] \cap owned[n] = {}

\* lease.rs:42-45: a holder releases before any reader can see its lease expire,
\* the reader whose wall clock is furthest ahead included.
HolderIsUnexpired ==
  \A m, n \in Node :
    owned[m] # {} => registry[m] # NoTime /\ ~Expired(m, now + Offset[n])

-----------------------------------------------------------------------------
(* What is inductive of a cluster with any timings.                        *)

Contact(n) == Active(n) /\ lastContact[n] # NoTime

\* A step began in the past and is not overdue; a sleep is not overdue.
StepsAreTimely ==
  \A n \in Node :
    /\ InStep(n) => stepAt[n] <= now /\ now <= stepAt[n] + StepMax
    /\ pc[n] = "sleeping" => now <= stepAt[n]

\* A process that is not running has no LeaseState left.
DownForgets == \A n \in Node : pc[n] = "down" => lastContact[n] = NoTime

\* A node past its announcement reads a registry that holds its record.
AnnouncedIsRecorded ==
  \A n \in Node : pc[n] \in {"reading", "concluding"} => registry[n] = Record(n)

\* A node with a contact has a record at least that recent, and looks again, or
\* stands down, within a hold, a step and a sleep of it.
ContactIsBacked ==
  \A n \in Node : Contact(n) =>
    /\ Guard < Ttl[n]
    /\ settledAt[n] <= lastContact[n]
    /\ lastContact[n] <= now
    /\ InStep(n) => lastContact[n] <= stepAt[n]
    /\ registry[n] # NoTime
    /\ registry[n] >= lastContact[n] + Offset[n] + Ttl[n]
    /\ stepAt[n] < lastContact[n] + HoldFor(n) + StepMax + Renew

\* What a node holds is assigned to it, and its notice is served.
HoldingIsSettled ==
  \A n \in Node : owned[n] # {} =>
    /\ Contact(n)
    /\ settledAt[n] + SettleFor(n) <= now
    /\ owned[n] \subseteq AssignedTo(n, members[n])

LeaseInv ==
  /\ TypeOK
  /\ StepsAreTimely
  /\ DownForgets
  /\ AnnouncedIsRecorded
  /\ ContactIsBacked
  /\ HoldingIsSettled

\* lease.rs:42-45 claims HolderIsUnexpired.  The hold is judged only when a step
\* runs, by the clock reading that step began with, so it outlives HoldFor by a
\* step, a sleep and another step: what is true of a holder is that no reader has
\* seen its record expired for longer than the guard leaves of these uncovered.
HoldEndsSoon ==
  \A m, n \in Node : owned[m] # {} =>
    registry[m] # NoTime /\ now + Offset[n] + Guard < registry[m] + Renew + 2 * StepMax + MaxSkew

=============================================================================
