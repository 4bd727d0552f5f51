----------------------------- MODULE LeaseProofs -----------------------------
(***************************************************************************)
(* Proofs about Lease and Failover, for any set of nodes and streams and   *)
(* any clocks and timings: types, how long a hold outlives its record,     *)
(* and the inductive invariant behind the lease; how long two nodes may    *)
(* run one stream, given a long enough notice; and that a calm cluster     *)
(* soon runs every stream.  And about FileStore: a read of the directory   *)
(* of leases, which is one step in Lease, misses no node that stays,       *)
(* although it is many steps and nodes go on writing.                      *)
(***************************************************************************)
EXTENDS Failover, FileStore, TLAPS

\* Of two nodes, only one beats the other for a stream: owner() is a function of
\* the membership alone (assign.rs:78-92), ties included.
LEMMA BeatsIsAsymmetric ==
  ASSUME NEW s \in Stream, NEW m \in Node, NEW n \in Node, m # n,
         Beats(s, m, n)
  PROVE  ~Beats(s, n, m)
  BY AssignAssumption DEF Beats

\* Two nodes that each see the other never assign one stream to both
\* (assign.rs:95-101 on two memberships that may differ in every other node).
LEMMA AssignmentsAreDisjoint ==
  ASSUME NEW m \in Node, NEW n \in Node, m # n,
         NEW liveM \in SUBSET Node, NEW liveN \in SUBSET Node,
         n \in liveM, m \in liveN
  PROVE  AssignedTo(m, liveM) \cap AssignedTo(n, liveN) = {}
<1>1. SUFFICES ASSUME NEW s \in Stream, IsOwner(s, m, liveM), IsOwner(s, n, liveN)
               PROVE  FALSE
  BY DEF AssignedTo
<1>2. Beats(s, m, n) /\ Beats(s, n, m)
  BY <1>1 DEF IsOwner
<1> QED
  BY <1>2, BeatsIsAsymmetric

-----------------------------------------------------------------------------
(* Type correctness.                                                       *)

\* LeaseState::reconcile (lease.rs:398-447) keeps the types of the fields it writes,
\* whichever of its two branches it takes.
LEMMA ReconcileType ==
  ASSUME TypeOK, NEW n \in Node, NEW contactAt \in Time, NEW noticeFrom \in Nat,
         members' \in [Node -> SUBSET Node], Reconcile(n, contactAt, noticeFrom)
  PROVE  /\ lastContact' \in [Node -> Time]
         /\ settledAt' \in [Node -> Nat]
         /\ stoodDown' \in [Node -> BOOLEAN]
         /\ settling' \in [Node -> BOOLEAN]
         /\ owned' \in [Node -> SUBSET Stream]
<1>1. CASE StandDown(n)
  BY <1>1 DEF StandDown, TypeOK, Time, NoTime
<1>2. CASE ~StandDown(n)
  <2> DEFINE inNotice == stepAt[n] - noticeFrom < SettleFor(n)
  <2>1. inNotice \in BOOLEAN /\ (inNotice /\ stoodDown[n]) \in BOOLEAN
    BY DEF TypeOK
  <2>2. AssignedTo(n, members'[n]) \in SUBSET Stream
    BY DEF AssignedTo
  <2>3. /\ lastContact' = [lastContact EXCEPT ![n] = contactAt]
        /\ settledAt' = [settledAt EXCEPT ![n] = noticeFrom]
        /\ settling' = [settling EXCEPT ![n] = inNotice]
        /\ stoodDown' = [stoodDown EXCEPT ![n] = inNotice /\ stoodDown[n]]
        /\ owned' = [owned EXCEPT ![n] =
                       IF inNotice THEN {} ELSE AssignedTo(n, members'[n])]
    BY <1>2 DEF Reconcile
  <2> HIDE DEF inNotice
  <2> QED
    BY <2>1, <2>2, <2>3 DEF TypeOK
<1> QED
  BY <1>1, <1>2

\* The expiry a step announces (lease.rs:273-308) is a time.
LEMMA RecordType ==
  ASSUME TypeOK, NEW n \in Node
  PROVE  Record(n) \in Nat
  BY LeaseAssumption DEF Record, TypeOK

\* The end of a step (lease.rs:310-347) leaves its bookkeeping well typed.
LEMMA GoToSleepType ==
  ASSUME TypeOK, NEW n \in Node, GoToSleep(n)
  PROVE  /\ now' \in Nat
         /\ pc' \in [Node -> PC]
         /\ stepAt' \in [Node -> Nat]
         /\ seen' \in [Node -> SUBSET Node]
  BY LeaseAssumption DEF GoToSleep, TypeOK, PC

\* A process that ends, by crash or withdrawal, leaves every variable well typed.
LEMMA ProcessEndsType ==
  ASSUME TypeOK, NEW n \in Node, ProcessEnds(n), registry' \in [Node -> Time]
  PROVE  TypeOK'
  BY DEF ProcessEnds, TypeOK, PC, Time, NoTime

\* Before any coordinator has started, every variable is well typed.
LEMMA TypeInit == Init => TypeOK
  BY DEF Init, TypeOK, Time, NoTime, PC

\* No action of the coordinators or of the clock breaks a type.
LEMMA TypeStep ==
  ASSUME TypeOK, [Next]_vars
  PROVE  TypeOK'
<1>1. ASSUME NEW n \in Node, Start(n) PROVE TypeOK'
  BY <1>1 DEF Start, TypeOK, PC
<1>2. ASSUME NEW n \in Node, BeginStep(n) PROVE TypeOK'
  BY <1>2 DEF BeginStep, leaseVars, TypeOK, PC
<1>3. ASSUME NEW n \in Node, Announce(n) PROVE TypeOK'
  BY <1>3, RecordType DEF Announce, leaseVars, TypeOK, PC, Time
<1>4. ASSUME NEW n \in Node, Read(n) \/ ReadSkips(n) PROVE TypeOK'
  <2>1. LiveMembers(n) \in SUBSET Node
    BY DEF LiveMembers
  <2>2. /\ pc' = [pc EXCEPT ![n] = "concluding"]
        /\ \E read \in SUBSET Node : seen' = [seen EXCEPT ![n] = read]
        /\ UNCHANGED <<now, registry, stepAt, leaseVars>>
    BY <1>4, <2>1 DEF Read, ReadSkips
  <2> QED
    BY <2>2 DEF leaseVars, TypeOK, PC
<1>5. ASSUME NEW n \in Node, Conclude(n) PROVE TypeOK'
  <2>1. members' \in [Node -> SUBSET Node] /\ registry' \in [Node -> Time]
    BY <1>5 DEF Conclude, TypeOK
  <2>2. stepAt[n] \in Time /\ stepAt[n] \in Nat /\ settledAt[n] \in Nat
    BY DEF TypeOK, Time
  <2> QED
    BY <1>5, <2>1, <2>2, ReconcileType, GoToSleepType DEF Conclude, TypeOK
<1>6. ASSUME NEW n \in Node, AnnounceFails(n) \/ ReadFails(n) PROVE TypeOK'
  <2>1. members' \in [Node -> SUBSET Node] /\ registry' \in [Node -> Time]
    BY <1>6, RecordType DEF AnnounceFails, ReadFails, TypeOK, Time
  <2>2. /\ lastContact[n] \in Time /\ settledAt[n] \in Nat
        /\ Reconcile(n, lastContact[n], settledAt[n]) /\ GoToSleep(n)
    BY <1>6 DEF AnnounceFails, ReadFails, TypeOK
  <2> QED
    BY <2>1, <2>2, ReconcileType, GoToSleepType DEF TypeOK
<1>7. ASSUME NEW n \in Node, Stop(n) PROVE TypeOK'
  BY <1>7 DEF Stop, TypeOK, PC
<1>8. ASSUME NEW n \in Node, Withdraw(n) \/ Crash(n) PROVE TypeOK'
  BY <1>8, ProcessEndsType DEF Withdraw, Crash, TypeOK, Time
<1>9. ASSUME Tick PROVE TypeOK'
  BY <1>9 DEF Tick, leaseVars, TypeOK
<1>10. ASSUME UNCHANGED vars PROVE TypeOK'
  BY <1>10 DEF vars, leaseVars, TypeOK
<1> QED
  BY <1>1, <1>2, <1>3, <1>4, <1>5, <1>6, <1>7, <1>8, <1>9, <1>10
  DEF Next, Progress, Disturbance

\* Every variable keeps its type, for any nodes, streams and timings.
THEOREM TypeCorrect == Spec => []TypeOK
<1>1. Init => TypeOK
  BY TypeInit
<1>2. TypeOK /\ [Next]_vars => TypeOK'
  BY TypeStep
<1> QED
  BY <1>1, <1>2, PTL DEF Spec

-----------------------------------------------------------------------------
(* The inductive invariant.                                                *)

\* hold_for and settle_for (lease.rs:210-220) are durations, and a node that can
\* hold at all has a ttl longer than the guard.
LEMMA LeaseArithmetic ==
  ASSUME NEW n \in Node
  PROVE  /\ HoldFor(n) \in Nat /\ SettleFor(n) \in Nat
         /\ HoldFor(n) > 0 => Guard < Ttl[n]
         /\ Guard < Ttl[n] => HoldFor(n) = Ttl[n] - Guard
  BY LeaseAssumption DEF HoldFor, SettleFor

\* How far a contact can outlive the record that backs it, on any reader's clock.
LEMMA ContactEndsSoon ==
  ASSUME LeaseInv, NEW m \in Node, NEW n \in Node, Contact(m)
  PROVE  /\ registry[m] # NoTime
         /\ now + Offset[n] + Guard < registry[m] + Renew + 2 * StepMax + MaxSkew
<1>1. /\ registry[m] # NoTime
      /\ registry[m] >= lastContact[m] + Offset[m] + Ttl[m]
      /\ stepAt[m] < lastContact[m] + Ttl[m] - Guard + StepMax + Renew
  BY LeaseArithmetic DEF LeaseInv, ContactIsBacked
<1>2. now <= stepAt[m] + StepMax
  BY LeaseAssumption DEF LeaseInv, StepsAreTimely, Contact, Active, TypeOK
<1>3. Offset[n] <= Offset[m] + MaxSkew
  BY LeaseAssumption
<1>4. /\ now \in Nat /\ stepAt[m] \in Nat /\ Offset[n] \in Nat /\ Offset[m] \in Nat
      /\ registry[m] \in Int /\ lastContact[m] \in Int /\ Ttl[m] \in Nat
      /\ Guard \in Nat /\ Renew \in Nat /\ StepMax \in Nat /\ MaxSkew \in Nat
  BY LeaseAssumption DEF LeaseInv, TypeOK, Time, NoTime
<1> QED
  BY <1>1, <1>2, <1>3, <1>4

\* What reconcile() leaves behind on the node that ran it.
LEMMA ReconcileEffect ==
  ASSUME TypeOK, NEW n \in Node, NEW contactAt \in Time, NEW noticeFrom \in Nat,
         Reconcile(n, contactAt, noticeFrom)
  PROVE  /\ lastContact'[n] # NoTime =>
              /\ contactAt # NoTime /\ lastContact'[n] = contactAt
              /\ settledAt'[n] = noticeFrom
              /\ stepAt[n] - contactAt < HoldFor(n)
         /\ owned'[n] # {} =>
              /\ lastContact'[n] # NoTime
              /\ stepAt[n] - noticeFrom >= SettleFor(n)
              /\ owned'[n] = AssignedTo(n, members'[n])
         /\ \A m \in Node \ {n} :
              /\ lastContact'[m] = lastContact[m] /\ settledAt'[m] = settledAt[m]
              /\ owned'[m] = owned[m]
<1>1. CASE StandDown(n)
  BY <1>1 DEF StandDown, TypeOK
<1>2. CASE ~StandDown(n)
  <2>1. /\ contactAt # NoTime /\ stepAt[n] - contactAt < HoldFor(n)
        /\ lastContact' = [lastContact EXCEPT ![n] = contactAt]
        /\ settledAt' = [settledAt EXCEPT ![n] = noticeFrom]
        /\ owned' = [owned EXCEPT ![n] =
                       IF stepAt[n] - noticeFrom < SettleFor(n)
                       THEN {} ELSE AssignedTo(n, members'[n])]
    BY <1>2 DEF Reconcile
  <2>2. stepAt[n] \in Nat /\ SettleFor(n) \in Nat
    BY LeaseArithmetic DEF TypeOK
  <2> QED
    BY <2>1, <2>2 DEF TypeOK
<1> QED
  BY <1>1, <1>2

\* The end of a step, however it went: the three handlers that reconcile differ
\* in the contact and the notice they give it.
LEMMA StepEnds ==
  ASSUME LeaseInv, TypeOK', NEW n \in Node, InStep(n),
         NEW contactAt \in Time, NEW noticeFrom \in Nat,
         Reconcile(n, contactAt, noticeFrom), GoToSleep(n),
         \A m \in Node \ {n} : registry'[m] = registry[m] /\ members'[m] = members[m],
         contactAt # NoTime =>
           /\ noticeFrom <= contactAt /\ contactAt <= stepAt[n]
           /\ registry'[n] # NoTime
           /\ registry'[n] >= contactAt + Offset[n] + Ttl[n]
  PROVE  LeaseInv'
<1>1. /\ now' = now /\ pc'[n] = "sleeping" /\ stepAt'[n] = now + Renew
      /\ \A m \in Node \ {n} :
           pc'[m] = pc[m] /\ stepAt'[m] = stepAt[m] /\ seen'[m] = seen[m]
  BY DEF GoToSleep, LeaseInv, TypeOK
<1>2. /\ now \in Nat /\ StepMax \in Nat /\ Renew \in Nat
      /\ \A m \in Node : stepAt[m] \in Nat /\ Offset[m] \in Nat /\ Ttl[m] \in Nat
      /\ \A m \in Node : settledAt[m] \in Nat /\ lastContact[m] \in Int
      /\ contactAt \in Int
  BY LeaseAssumption DEF LeaseInv, TypeOK, Time, NoTime
<1>3. stepAt[n] <= now /\ now <= stepAt[n] + StepMax
  BY DEF LeaseInv, StepsAreTimely
<1>4. /\ lastContact'[n] # NoTime =>
           /\ contactAt # NoTime /\ lastContact'[n] = contactAt
           /\ settledAt'[n] = noticeFrom
           /\ stepAt[n] - contactAt < HoldFor(n)
      /\ owned'[n] # {} =>
           /\ lastContact'[n] # NoTime
           /\ stepAt[n] - noticeFrom >= SettleFor(n)
           /\ owned'[n] = AssignedTo(n, members'[n])
      /\ \A m \in Node \ {n} :
           /\ lastContact'[m] = lastContact[m] /\ settledAt'[m] = settledAt[m]
           /\ owned'[m] = owned[m]
  BY ReconcileEffect DEF LeaseInv
<1>5. \A m \in Node \ {n} : Contact(m)' <=> Contact(m)
  BY <1>1, <1>4 DEF Contact, Active, InStep
<1>6. StepsAreTimely'
  BY <1>1, <1>2 DEF LeaseInv, StepsAreTimely, InStep
<1>7. AnnouncedIsRecorded'
  BY <1>1 DEF LeaseInv, AnnouncedIsRecorded, Record
<1>8. ContactIsBacked'
  <2>1. ASSUME NEW m \in Node \ {n}, Contact(m)'
        PROVE  /\ Guard < Ttl[m]
               /\ settledAt'[m] <= lastContact'[m] /\ lastContact'[m] <= now'
               /\ InStep(m)' => lastContact'[m] <= stepAt'[m]
               /\ registry'[m] # NoTime
               /\ registry'[m] >= lastContact'[m] + Offset[m] + Ttl[m]
               /\ stepAt'[m] < lastContact'[m] + HoldFor(m) + StepMax + Renew
    BY <2>1, <1>1, <1>4, <1>5 DEF LeaseInv, ContactIsBacked, InStep
  <2>2. ASSUME lastContact'[n] # NoTime
        PROVE  /\ Guard < Ttl[n]
               /\ settledAt'[n] <= lastContact'[n] /\ lastContact'[n] <= now'
               /\ ~InStep(n)'
               /\ registry'[n] # NoTime
               /\ registry'[n] >= lastContact'[n] + Offset[n] + Ttl[n]
               /\ stepAt'[n] < lastContact'[n] + HoldFor(n) + StepMax + Renew
    <3>1. HoldFor(n) \in Nat /\ (HoldFor(n) > 0 => Guard < Ttl[n])
      BY LeaseArithmetic
    <3>2. ~InStep(n)'
      BY <1>1 DEF InStep
    <3> QED
      BY <2>2, <3>1, <3>2, <1>1, <1>2, <1>3, <1>4
  <2> QED
    BY <2>1, <2>2 DEF ContactIsBacked, Contact
<1>9. HoldingIsSettled'
  <2>1. ASSUME NEW m \in Node \ {n}, owned'[m] # {}
        PROVE  /\ Contact(m)' /\ settledAt'[m] + SettleFor(m) <= now'
               /\ owned'[m] \subseteq AssignedTo(m, members'[m])
    BY <2>1, <1>1, <1>4, <1>5 DEF LeaseInv, HoldingIsSettled
  <2>2. ASSUME owned'[n] # {}
        PROVE  /\ Contact(n)' /\ settledAt'[n] + SettleFor(n) <= now'
               /\ owned'[n] \subseteq AssignedTo(n, members'[n])
    <3>1. SettleFor(n) \in Nat
      BY LeaseArithmetic
    <3>2. Contact(n)'
      BY <2>2, <1>1, <1>4 DEF Contact, Active
    <3> QED
      BY <2>2, <3>1, <3>2, <1>1, <1>2, <1>3, <1>4
  <2> QED
    BY <2>1, <2>2 DEF HoldingIsSettled
<1>10. DownForgets'
  BY <1>1, <1>4 DEF LeaseInv, DownForgets
<1> QED
  BY <1>6, <1>7, <1>8, <1>9, <1>10 DEF LeaseInv

\* A process that ends takes its hold with it and disturbs no other node's.
LEMMA ProcessEndsStep ==
  ASSUME LeaseInv, TypeOK', NEW n \in Node, ProcessEnds(n),
         \A m \in Node \ {n} : registry'[m] = registry[m]
  PROVE  LeaseInv'
<1>1. /\ now' = now /\ pc'[n] = "down" /\ owned'[n] = {} /\ lastContact'[n] = NoTime
      /\ \A m \in Node \ {n} :
           /\ pc'[m] = pc[m] /\ stepAt'[m] = stepAt[m] /\ seen'[m] = seen[m]
           /\ members'[m] = members[m] /\ lastContact'[m] = lastContact[m]
           /\ settledAt'[m] = settledAt[m] /\ owned'[m] = owned[m]
  BY DEF ProcessEnds, LeaseInv, TypeOK
<1>2. ~Contact(n)' /\ ~InStep(n)'
  BY <1>1 DEF Contact, Active, InStep
<1>3. \A m \in Node \ {n} : (Contact(m)' <=> Contact(m)) /\ (InStep(m)' <=> InStep(m))
  BY <1>1 DEF Contact, Active, InStep
<1>4. StepsAreTimely'
  BY <1>1, <1>2, <1>3 DEF LeaseInv, StepsAreTimely
<1>5. AnnouncedIsRecorded'
  BY <1>1 DEF LeaseInv, AnnouncedIsRecorded, Record
<1>6. ContactIsBacked'
  BY <1>1, <1>2, <1>3 DEF LeaseInv, ContactIsBacked
<1>7. HoldingIsSettled'
  BY <1>1, <1>3 DEF LeaseInv, HoldingIsSettled
<1>8. DownForgets'
  BY <1>1 DEF LeaseInv, DownForgets
<1> QED
  BY <1>4, <1>5, <1>6, <1>7, <1>8 DEF LeaseInv

\* The invariant holds before any coordinator has started.
LEMMA LeaseInvInit == Init => LeaseInv
<1> SUFFICES ASSUME Init PROVE LeaseInv
  OBVIOUS
<1>1. TypeOK
  BY TypeInit
<1>2. \A n \in Node : /\ pc[n] = "down" /\ owned[n] = {} /\ lastContact[n] = NoTime
                       /\ ~Contact(n) /\ ~InStep(n)
  BY DEF Init, Contact, Active, InStep
<1> QED
  BY <1>1, <1>2
  DEF LeaseInv, StepsAreTimely, DownForgets, AnnouncedIsRecorded, ContactIsBacked,
      HoldingIsSettled

\* Every action keeps the invariant, one step of the proof per handler of lease.rs.
LEMMA LeaseInvStep ==
  ASSUME LeaseInv, [Next]_vars
  PROVE  LeaseInv'
<1> USE DEF leaseVars
<1>0. TypeOK /\ TypeOK'
  BY TypeStep DEF LeaseInv
<1>t. /\ now \in Nat /\ StepMax \in Nat /\ Renew \in Nat
      /\ \A m \in Node : stepAt[m] \in Nat /\ Offset[m] \in Nat /\ Ttl[m] \in Nat
      /\ \A m \in Node : /\ settledAt[m] \in Nat /\ lastContact[m] \in Int
                         /\ registry[m] \in Int /\ Record(m) \in Nat
  BY <1>0, LeaseAssumption, RecordType DEF TypeOK, Time, NoTime
<1>1. ASSUME NEW n \in Node, Start(n) PROVE LeaseInv'
  <2>1. /\ pc'[n] = "announcing" /\ stepAt'[n] = now /\ lastContact[n] = NoTime
        /\ UNCHANGED <<now, registry, seen, members, lastContact, owned>>
        /\ \A m \in Node \ {n} :
             pc'[m] = pc[m] /\ stepAt'[m] = stepAt[m] /\ settledAt'[m] = settledAt[m]
    BY <1>0, <1>1 DEF Start, LeaseInv, TypeOK, DownForgets
  <2>2. ~Contact(n) /\ ~Contact(n)'
    BY <2>1 DEF Contact
  <2>3. \A m \in Node \ {n} : (Contact(m)' <=> Contact(m)) /\ (InStep(m)' <=> InStep(m))
    BY <2>1 DEF Contact, Active, InStep
  <2>4. StepsAreTimely'
    BY <1>t, <2>1, <2>3 DEF LeaseInv, StepsAreTimely
  <2>5. DownForgets' /\ AnnouncedIsRecorded'
    BY <2>1 DEF LeaseInv, DownForgets, AnnouncedIsRecorded, Record
  <2>6. ContactIsBacked'
    BY <2>1, <2>2, <2>3 DEF LeaseInv, ContactIsBacked
  <2>7. HoldingIsSettled'
    BY <2>1, <2>2, <2>3 DEF LeaseInv, HoldingIsSettled
  <2> QED
    BY <1>0, <2>4, <2>5, <2>6, <2>7 DEF LeaseInv
<1>2. ASSUME NEW n \in Node, BeginStep(n) PROVE LeaseInv'
  <2>1. /\ pc[n] = "sleeping" /\ now >= stepAt[n] /\ pc'[n] = "announcing" /\ stepAt'[n] = now
        /\ UNCHANGED <<now, registry, seen, members, lastContact, settledAt, owned>>
        /\ \A m \in Node \ {n} : pc'[m] = pc[m] /\ stepAt'[m] = stepAt[m]
    BY <1>0, <1>2 DEF BeginStep, TypeOK
  <2>2. now = stepAt[n]
    BY <1>t, <2>1 DEF LeaseInv, StepsAreTimely
  <2>3. /\ \A m \in Node : Contact(m)' <=> Contact(m)
        /\ \A m \in Node \ {n} : InStep(m)' <=> InStep(m)
    BY <2>1 DEF Contact, Active, InStep
  <2>4. StepsAreTimely'
    BY <1>t, <2>1, <2>3 DEF LeaseInv, StepsAreTimely
  <2>5. DownForgets' /\ AnnouncedIsRecorded'
    BY <2>1 DEF LeaseInv, DownForgets, AnnouncedIsRecorded, Record
  <2>6. ContactIsBacked'
    BY <2>1, <2>2, <2>3 DEF LeaseInv, ContactIsBacked
  <2>7. HoldingIsSettled'
    BY <2>1, <2>3 DEF LeaseInv, HoldingIsSettled
  <2> QED
    BY <1>0, <2>4, <2>5, <2>6, <2>7 DEF LeaseInv
<1>3. ASSUME NEW n \in Node, Announce(n) PROVE LeaseInv'
  <2>1. /\ pc[n] = "announcing" /\ pc'[n] = "reading" /\ registry'[n] = Record(n)
        /\ UNCHANGED <<now, stepAt, seen, members, lastContact, settledAt, owned>>
        /\ \A m \in Node \ {n} : pc'[m] = pc[m] /\ registry'[m] = registry[m]
    BY <1>0, <1>3 DEF Announce, TypeOK
  <2>2. \A m \in Node : (Contact(m)' <=> Contact(m)) /\ (InStep(m)' <=> InStep(m))
    BY <2>1 DEF Contact, Active, InStep
  <2>3. StepsAreTimely' /\ DownForgets' /\ AnnouncedIsRecorded'
    BY <2>1, <2>2 DEF LeaseInv, StepsAreTimely, DownForgets, AnnouncedIsRecorded, Record
  <2>4. ContactIsBacked'
    <3>1. registry'[n] # NoTime
      BY <1>t, <2>1 DEF NoTime
    <3>2. Contact(n) => registry'[n] >= lastContact[n] + Offset[n] + Ttl[n]
      BY <1>t, <2>1 DEF LeaseInv, ContactIsBacked, Record, InStep
    <3> QED
      BY <2>1, <2>2, <3>1, <3>2 DEF LeaseInv, ContactIsBacked
  <2>5. HoldingIsSettled'
    BY <2>1, <2>2 DEF LeaseInv, HoldingIsSettled
  <2> QED
    BY <1>0, <2>3, <2>4, <2>5 DEF LeaseInv
<1>4. ASSUME NEW n \in Node, Read(n) \/ ReadSkips(n) PROVE LeaseInv'
  <2>1. /\ pc[n] = "reading" /\ pc'[n] = "concluding"
        /\ UNCHANGED <<now, registry, stepAt, members, lastContact, settledAt, owned>>
        /\ \A m \in Node \ {n} : pc'[m] = pc[m]
    BY <1>0, <1>4 DEF Read, ReadSkips, TypeOK
  <2>2. \A m \in Node : (Contact(m)' <=> Contact(m)) /\ (InStep(m)' <=> InStep(m))
    BY <2>1 DEF Contact, Active, InStep
  <2>3. StepsAreTimely' /\ DownForgets' /\ AnnouncedIsRecorded' /\ ContactIsBacked'
    BY <2>1, <2>2
    DEF LeaseInv, StepsAreTimely, DownForgets, AnnouncedIsRecorded, ContactIsBacked, Record
  <2>4. HoldingIsSettled'
    BY <2>1, <2>2 DEF LeaseInv, HoldingIsSettled
  <2> QED
    BY <1>0, <2>3, <2>4 DEF LeaseInv
<1>5. ASSUME NEW n \in Node, Conclude(n) PROVE LeaseInv'
  <2> DEFINE notice == IF lastContact[n] = NoTime THEN stepAt[n] ELSE settledAt[n]
  <2>1. /\ pc[n] = "concluding" /\ members'[n] = seen[n] /\ UNCHANGED registry
        /\ \A m \in Node \ {n} : members'[m] = members[m]
        /\ Reconcile(n, stepAt[n], notice) /\ GoToSleep(n)
    BY <1>0, <1>5 DEF Conclude, TypeOK
  <2>2. InStep(n) /\ stepAt[n] <= now /\ now <= stepAt[n] + StepMax
    BY <2>1 DEF LeaseInv, StepsAreTimely, InStep
  <2>3. notice \in Nat /\ notice <= stepAt[n]
    BY <1>t, <2>1, <2>2 DEF LeaseInv, ContactIsBacked, Contact, Active
  <2>4. stepAt[n] \in Time /\ stepAt[n] # NoTime
    BY <1>t DEF Time, NoTime
  <2>5. /\ registry'[n] # NoTime /\ registry'[n] >= stepAt[n] + Offset[n] + Ttl[n]
        /\ \A m \in Node \ {n} : registry'[m] = registry[m] /\ members'[m] = members[m]
    BY <1>t, <2>1 DEF LeaseInv, AnnouncedIsRecorded, Record, NoTime
  <2>6. Reconcile(n, stepAt[n], notice) /\ GoToSleep(n)
    BY <2>1
  <2>7. stepAt[n] <= stepAt[n]
    BY <1>t
  <2> HIDE DEF notice
  <2> QED
    BY <1>0, <2>2, <2>3, <2>4, <2>5, <2>6, <2>7, StepEnds
<1>6. ASSUME NEW n \in Node, AnnounceFails(n) \/ ReadFails(n) PROVE LeaseInv'
  <2>1. /\ InStep(n) /\ UNCHANGED members
        /\ registry' \in {registry, [registry EXCEPT ![n] = Record(n)]}
        /\ Reconcile(n, lastContact[n], settledAt[n]) /\ GoToSleep(n)
    BY <1>6 DEF AnnounceFails, ReadFails, InStep
  <2>2. /\ \A m \in Node \ {n} : registry'[m] = registry[m]
        /\ registry'[n] \in {registry[n], Record(n)}
    BY <1>0, <2>1 DEF TypeOK
  <2>3. lastContact[n] \in Time /\ settledAt[n] \in Nat
    BY <1>0 DEF TypeOK
  <2>4. ASSUME lastContact[n] # NoTime
        PROVE  /\ settledAt[n] <= lastContact[n] /\ lastContact[n] <= stepAt[n]
               /\ registry'[n] # NoTime
               /\ registry'[n] >= lastContact[n] + Offset[n] + Ttl[n]
    <3>1. Contact(n)
      BY <2>1, <2>4 DEF Contact, Active
    <3>2. /\ settledAt[n] <= lastContact[n] /\ lastContact[n] <= stepAt[n]
          /\ registry[n] # NoTime
          /\ registry[n] >= lastContact[n] + Offset[n] + Ttl[n]
      BY <3>1, <2>1 DEF LeaseInv, ContactIsBacked
    <3>3. Record(n) # NoTime /\ Record(n) >= lastContact[n] + Offset[n] + Ttl[n]
      BY <3>2, <1>t DEF Record, NoTime
    <3> QED
      BY <2>2, <3>2, <3>3
  <2> QED
    BY <1>0, <2>1, <2>2, <2>3, <2>4, StepEnds
<1>7. ASSUME NEW n \in Node, Stop(n) PROVE LeaseInv'
  <2>1. /\ pc'[n] = "withdrawing" /\ owned'[n] = {}
        /\ UNCHANGED <<now, registry, stepAt, seen, members, lastContact, settledAt>>
        /\ \A m \in Node \ {n} : pc'[m] = pc[m] /\ owned'[m] = owned[m]
    BY <1>0, <1>7 DEF Stop, TypeOK
  <2>2. /\ ~Contact(n)' /\ ~InStep(n)'
        /\ \A m \in Node \ {n} : (Contact(m)' <=> Contact(m)) /\ (InStep(m)' <=> InStep(m))
    BY <2>1 DEF Contact, Active, InStep
  <2>3. StepsAreTimely' /\ DownForgets' /\ AnnouncedIsRecorded'
    BY <2>1, <2>2 DEF LeaseInv, StepsAreTimely, DownForgets, AnnouncedIsRecorded, Record
  <2>4. ContactIsBacked' /\ HoldingIsSettled'
    BY <2>1, <2>2 DEF LeaseInv, ContactIsBacked, HoldingIsSettled
  <2> QED
    BY <1>0, <2>3, <2>4 DEF LeaseInv
<1>8. ASSUME NEW n \in Node, Withdraw(n) \/ Crash(n) PROVE LeaseInv'
  <2>1. ProcessEnds(n) /\ \A m \in Node \ {n} : registry'[m] = registry[m]
    BY <1>0, <1>8 DEF Withdraw, Crash, TypeOK
  <2> QED
    BY <1>0, <2>1, ProcessEndsStep
<1>9. ASSUME Tick PROVE LeaseInv'
  <2>1. /\ now' = now + 1
        /\ UNCHANGED <<registry, pc, stepAt, seen, members, lastContact, settledAt, owned>>
        /\ \A n \in Node : /\ InStep(n) => now < stepAt[n] + StepMax
                           /\ pc[n] = "sleeping" => now < stepAt[n]
    BY <1>9 DEF Tick
  <2>2. \A n \in Node : (Contact(n)' <=> Contact(n)) /\ (InStep(n)' <=> InStep(n))
    BY <2>1 DEF Contact, Active, InStep
  <2>3. StepsAreTimely'
    BY <1>t, <2>1, <2>2 DEF LeaseInv, StepsAreTimely
  <2>4. DownForgets' /\ AnnouncedIsRecorded'
    BY <2>1, <2>2 DEF LeaseInv, DownForgets, AnnouncedIsRecorded, Record
  <2>5. ContactIsBacked'
    BY <1>t, <2>1, <2>2 DEF LeaseInv, ContactIsBacked
  <2>6. HoldingIsSettled'
    <3>1. \A n \in Node : SettleFor(n) \in Nat
      BY LeaseArithmetic
    <3> QED
      BY <1>t, <2>1, <2>2, <3>1 DEF LeaseInv, HoldingIsSettled
  <2> QED
    BY <1>0, <2>3, <2>4, <2>5, <2>6 DEF LeaseInv
<1>10. ASSUME UNCHANGED vars PROVE LeaseInv'
  <2>1. \A n \in Node : (Contact(n)' <=> Contact(n)) /\ (InStep(n)' <=> InStep(n))
    BY <1>10 DEF vars, Contact, Active, InStep
  <2>2. StepsAreTimely' /\ DownForgets' /\ AnnouncedIsRecorded'
    BY <1>10, <2>1 DEF vars, LeaseInv, StepsAreTimely, DownForgets, AnnouncedIsRecorded, Record
  <2>3. ContactIsBacked' /\ HoldingIsSettled'
    BY <1>10, <2>1 DEF vars, LeaseInv, ContactIsBacked, HoldingIsSettled
  <2> QED
    BY <1>0, <2>2, <2>3 DEF LeaseInv
<1> QED
  BY <1>1, <1>2, <1>3, <1>4, <1>5, <1>6, <1>7, <1>8, <1>9, <1>10
  DEF Next, Progress, Disturbance

\* A holder's record is never visibly expired for longer than the guard leaves of a
\* sleep, two steps and the skew uncovered: what is left of lease.rs:42-45, for any
\* timings.  With 15 s, 3 s and 2 s that is a second, two round trips and the skew.
THEOREM HoldsEndSoon == Spec => []HoldEndsSoon
<1>1. Init => LeaseInv
  BY LeaseInvInit
<1>2. LeaseInv /\ [Next]_vars => LeaseInv'
  BY LeaseInvStep
<1>3. LeaseInv => HoldEndsSoon
  BY ContactEndsSoon DEF HoldEndsSoon, LeaseInv, HoldingIsSettled
<1> QED
  BY <1>1, <1>2, <1>3, PTL DEF Spec

-----------------------------------------------------------------------------
(* Slips.                                                                  *)

LEMMA FailoverSteps ==
  ASSUME IInv, [FailoverNext]_failoverVars
  PROVE  [Next]_vars /\ LeaseInv' /\ FailoverTypeOK'
<1>1. [Next]_vars
  BY DEF FailoverNext, failoverVars, Next
<1>2. LeaseInv'
  BY <1>1, LeaseInvStep DEF IInv
<1>3. now \in Nat /\ now' \in Nat /\ TypeOK'
  BY <1>2 DEF IInv, LeaseInv, TypeOK
<1>4. calmSince' \in {calmSince, now} /\ slipAt' \in {slipAt, now'}
  BY DEF FailoverNext, failoverVars
<1> QED
  BY <1>1, <1>2, <1>3, <1>4 DEF IInv, FailoverTypeOK, Time

\* Time does not go back, and slipAt is now whenever a node is late.
LEMMA SlipsStayNoted ==
  ASSUME IInv, [FailoverNext]_failoverVars
  PROVE  SlipsAreNoted' /\ slipAt' >= slipAt
<1>1. /\ now \in Nat /\ now' \in Nat /\ slipAt \in Int /\ slipAt <= now
      /\ \A m \in Node : Late(m) => slipAt = now
  BY FailoverSteps DEF IInv, LeaseInv, TypeOK, FailoverTypeOK, Time, NoTime, SlipsAreNoted
<1>2. now' >= now
  <2>1. CASE Next
    <3>1. now' = now \/ now' = now + 1
      BY <2>1 DEF Next, Progress, Disturbance, Start, BeginStep, Announce, Read, ReadSkips,
         Conclude, AnnounceFails, ReadFails, GoToSleep, Stop, Withdraw, Crash,
         ProcessEnds, Tick
    <3> QED BY <3>1, <1>1
  <2>2. CASE UNCHANGED vars
    BY <2>2, <1>1 DEF vars
  <2> QED BY <2>1, <2>2, FailoverSteps
<1>3. CASE Slips /\ slipAt' = now'
  BY <1>1, <1>2, <1>3 DEF SlipsAreNoted
<1>4. CASE ~Slips /\ slipAt' = slipAt
  BY <1>1, <1>2, <1>4 DEF SlipsAreNoted, Slips
<1>5. CASE UNCHANGED failoverVars
  <2>1. /\ now' = now /\ slipAt' = slipAt
        /\ \A m \in Node : Late(m)' => Late(m)
    BY <1>5 DEF failoverVars, vars, leaseVars, Late, Contact, Active, InStep, Expired
  <2> QED BY <1>1, <2>1 DEF SlipsAreNoted
<1> QED
  BY <1>3, <1>4, <1>5 DEF FailoverNext

\* A step after which no node has a contact, a membership or a read it had not before.
LEMMA NothingLearnt ==
  ASSUME IInv, IInv => slipAt' >= slipAt, FailoverTypeOK',
         \A m \in Node : Contact(m)' =>
           /\ Contact(m) /\ members'[m] = members[m]
           /\ lastContact'[m] = lastContact[m] /\ settledAt'[m] = settledAt[m],
         \A m \in Node : pc'[m] = "concluding" =>
           pc[m] = "concluding" /\ seen'[m] = seen[m] /\ stepAt'[m] = stepAt[m]
  PROVE  UnseenIsNewer'
<1>1. slipAt \in Int /\ slipAt' \in Int /\ slipAt' >= slipAt
  BY DEF IInv, FailoverTypeOK, Time, NoTime
<1>2. \A m \in Node : lastContact[m] \in Int /\ stepAt[m] \in Nat
  BY DEF IInv, LeaseInv, TypeOK, Time, NoTime
<1> SUFFICES ASSUME NEW m \in Node, NEW n \in Node, m # n, Contact(m)'
             PROVE  /\ Contact(n)' /\ m \notin members'[n] =>
                         \/ settledAt'[m] + StepMax >= lastContact'[n]
                         \/ slipAt' >= lastContact'[n]
                    /\ pc'[n] = "concluding" /\ m \notin seen'[n] =>
                         \/ settledAt'[m] + StepMax >= stepAt'[n]
                         \/ slipAt' >= stepAt'[n]
  BY DEF UnseenIsNewer
<1>3. /\ Contact(n) /\ m \notin members[n] =>
           settledAt[m] + StepMax >= lastContact[n] \/ slipAt >= lastContact[n]
      /\ pc[n] = "concluding" /\ m \notin seen[n] =>
           settledAt[m] + StepMax >= stepAt[n] \/ slipAt >= stepAt[n]
  BY DEF IInv, UnseenIsNewer
<1> QED
  BY <1>1, <1>2, <1>3

\* A read, complete or not, misses a node only if that node is late or was skipped,
\* and then the slip is of this moment.
LEMMA ReadMissesBySlips ==
  ASSUME IInv, NEW n \in Node, Read(n) \/ ReadSkips(n), FailoverNext, FailoverTypeOK'
  PROVE  UnseenIsNewer'
<1>1. /\ pc[n] = "reading" /\ pc'[n] = "concluding" /\ now' = now
      /\ UNCHANGED <<registry, stepAt, members, lastContact, settledAt>>
      /\ \A m \in Node \ {n} : pc'[m] = pc[m] /\ seen'[m] = seen[m]
  BY DEF Read, ReadSkips, leaseVars, IInv, LeaseInv, TypeOK
<1>2. \A m \in Node : Contact(m)' <=> Contact(m)
  BY <1>1 DEF Contact, Active, InStep
<1>3. /\ now \in Nat /\ slipAt \in Int /\ slipAt <= now /\ slipAt' \in Int
      /\ \A m \in Node : /\ stepAt[m] \in Nat /\ lastContact[m] \in Int
                         /\ registry[m] \in Int /\ Offset[m] \in Nat
  BY LeaseAssumption DEF IInv, LeaseInv, TypeOK, FailoverTypeOK, Time, NoTime, SlipsAreNoted
<1>4. stepAt[n] <= now
  BY <1>1 DEF IInv, LeaseInv, StepsAreTimely, InStep
<1>5. slipAt' = IF Slips THEN now' ELSE slipAt
  BY DEF FailoverNext
<1>6. slipAt' >= slipAt
  BY <1>1, <1>3, <1>5
<1>7. ASSUME NEW m \in Node, Contact(m), m \notin seen'[n]
      PROVE  slipAt' = now
  <2>1. CASE ReadSkips(n)
    BY <1>1, <1>5, <2>1 DEF Slips
  <2>2. CASE Read(n)
    <3>1. m \notin LiveMembers(n)
      BY <1>7, <2>2 DEF Read, IInv, LeaseInv, TypeOK
    <3>2. registry[m] # NoTime
      BY <1>7 DEF IInv, LeaseInv, ContactIsBacked
    <3>3. Expired(m, now + Offset[n])
      BY <3>1, <3>2, <1>3, <1>4 DEF LiveMembers, Expired
    <3>4. Late(m)'
      BY <1>7, <3>3, <1>1, <1>2 DEF Late, Expired
    <3> QED BY <3>4, <1>1, <1>5 DEF Slips
  <2> QED BY <2>1, <2>2
<1> SUFFICES ASSUME NEW k \in Node, NEW m \in Node, k # m, Contact(k)'
             PROVE  /\ Contact(m)' /\ k \notin members'[m] =>
                         \/ settledAt'[k] + StepMax >= lastContact'[m]
                         \/ slipAt' >= lastContact'[m]
                    /\ pc'[m] = "concluding" /\ k \notin seen'[m] =>
                         \/ settledAt'[k] + StepMax >= stepAt'[m]
                         \/ slipAt' >= stepAt'[m]
  BY DEF UnseenIsNewer
<1>8. /\ Contact(m) /\ k \notin members[m] =>
           settledAt[k] + StepMax >= lastContact[m] \/ slipAt >= lastContact[m]
      /\ pc[m] = "concluding" /\ k \notin seen[m] =>
           settledAt[k] + StepMax >= stepAt[m] \/ slipAt >= stepAt[m]
  BY <1>2 DEF IInv, UnseenIsNewer
<1>9. CASE m = n
  BY <1>1, <1>2, <1>3, <1>4, <1>6, <1>7, <1>8, <1>9
<1>10. CASE m # n
  BY <1>1, <1>2, <1>3, <1>6, <1>8, <1>10
<1> QED BY <1>9, <1>10

\* What a node read becomes its membership; a first contact is as new as any read
\* under way, give or take a step.
LEMMA ConcludeLearns ==
  ASSUME IInv, NEW n \in Node, Conclude(n), slipAt' >= slipAt, FailoverTypeOK'
  PROVE  UnseenIsNewer'
<1> DEFINE notice == IF lastContact[n] = NoTime THEN stepAt[n] ELSE settledAt[n]
<1>0. TypeOK
  BY DEF IInv, LeaseInv
<1>1. /\ pc[n] = "concluding" /\ members'[n] = seen[n] /\ now' = now
      /\ pc'[n] = "sleeping" /\ Reconcile(n, stepAt[n], notice)
      /\ \A m \in Node \ {n} :
           /\ members'[m] = members[m] /\ pc'[m] = pc[m]
           /\ stepAt'[m] = stepAt[m] /\ seen'[m] = seen[m]
  BY <1>0 DEF Conclude, GoToSleep, TypeOK
<1>2. /\ now \in Nat /\ slipAt \in Int /\ slipAt' \in Int /\ StepMax \in Nat
      /\ \A m \in Node : stepAt[m] \in Nat /\ lastContact[m] \in Int /\ settledAt[m] \in Nat
      /\ stepAt[n] \in Time /\ notice \in Nat
  BY <1>0, LeaseAssumption DEF TypeOK, IInv, FailoverTypeOK, Time, NoTime
<1>3. /\ lastContact'[n] # NoTime => lastContact'[n] = stepAt[n] /\ settledAt'[n] = notice
      /\ \A m \in Node \ {n} :
           lastContact'[m] = lastContact[m] /\ settledAt'[m] = settledAt[m]
  <2> HIDE DEF notice
  <2> QED BY <1>0, <1>1, <1>2, ReconcileEffect
<1>4. stepAt[n] <= now /\ now <= stepAt[n] + StepMax
  BY <1>1 DEF IInv, LeaseInv, StepsAreTimely, InStep
<1>5. \A m \in Node \ {n} : Contact(m)' <=> Contact(m)
  BY <1>1, <1>3 DEF Contact, Active, InStep
<1>6. ASSUME NEW m \in Node \ {n}, Contact(m), m \notin seen[n]
      PROVE  settledAt[m] + StepMax >= stepAt[n] \/ slipAt >= stepAt[n]
  BY <1>1, <1>6 DEF IInv, UnseenIsNewer
<1>7. ASSUME NEW m \in Node \ {n}
      PROVE  /\ Contact(m) /\ n \notin members[m] =>
                  notice + StepMax >= lastContact[m] \/ slipAt >= lastContact[m]
             /\ pc[m] = "concluding" /\ n \notin seen[m] =>
                  notice + StepMax >= stepAt[m] \/ slipAt >= stepAt[m]
  <2>1. /\ Contact(m) => lastContact[m] <= now
        /\ pc[m] = "concluding" => stepAt[m] <= now
    BY DEF IInv, LeaseInv, ContactIsBacked, StepsAreTimely, InStep
  <2>2. CASE lastContact[n] = NoTime
    BY <2>1, <2>2, <1>2, <1>4
  <2>3. CASE lastContact[n] # NoTime
    <3>1. Contact(n) /\ notice = settledAt[n]
      BY <2>3, <1>1 DEF Contact, Active, InStep
    <3> QED BY <3>1 DEF IInv, UnseenIsNewer
  <2> QED BY <2>2, <2>3
<1> SUFFICES ASSUME NEW k \in Node, NEW m \in Node, k # m, Contact(k)'
             PROVE  /\ Contact(m)' /\ k \notin members'[m] =>
                         \/ settledAt'[k] + StepMax >= lastContact'[m]
                         \/ slipAt' >= lastContact'[m]
                    /\ pc'[m] = "concluding" /\ k \notin seen'[m] =>
                         \/ settledAt'[k] + StepMax >= stepAt'[m]
                         \/ slipAt' >= stepAt'[m]
  BY DEF UnseenIsNewer
<1> HIDE DEF notice
<1>8. CASE k # n /\ m # n
  <2>1. /\ Contact(m) /\ k \notin members[m] =>
             settledAt[k] + StepMax >= lastContact[m] \/ slipAt >= lastContact[m]
        /\ pc[m] = "concluding" /\ k \notin seen[m] =>
             settledAt[k] + StepMax >= stepAt[m] \/ slipAt >= stepAt[m]
    BY <1>5, <1>8 DEF IInv, UnseenIsNewer
  <2> QED BY <2>1, <1>1, <1>2, <1>3, <1>5, <1>8
<1>9. CASE k = n
  <2>1. settledAt'[n] = notice
    BY <1>3, <1>9 DEF Contact
  <2> QED BY <2>1, <1>1, <1>2, <1>3, <1>5, <1>7, <1>9
<1>10. CASE m = n
  <2>1. Contact(n)' => lastContact'[n] = stepAt[n]
    BY <1>3 DEF Contact
  <2> QED BY <2>1, <1>1, <1>2, <1>3, <1>5, <1>6, <1>10
<1> QED BY <1>8, <1>9, <1>10

LEMMA IInvStep ==
  ASSUME IInv, [FailoverNext]_failoverVars
  PROVE  IInv'
<1>1. LeaseInv' /\ FailoverTypeOK' /\ SlipsAreNoted' /\ slipAt' >= slipAt /\ [Next]_vars
  BY FailoverSteps, SlipsStayNoted
<1>2. UnseenIsNewer'
  <2>0. TypeOK
    BY DEF IInv, LeaseInv
  <2>1. ASSUME NEW n \in Node, Read(n) \/ ReadSkips(n), FailoverNext PROVE UnseenIsNewer'
    BY <1>1, <2>1, ReadMissesBySlips
  <2>2. ASSUME NEW n \in Node, Conclude(n) PROVE UnseenIsNewer'
    BY <1>1, <2>2, ConcludeLearns
  <2>3. ASSUME NEW n \in Node, AnnounceFails(n) \/ ReadFails(n) PROVE UnseenIsNewer'
    <3>1. /\ Reconcile(n, lastContact[n], settledAt[n]) /\ GoToSleep(n) /\ InStep(n)
          /\ members' = members
      BY <2>3 DEF AnnounceFails, ReadFails, InStep
    <3>2. lastContact[n] \in Time /\ settledAt[n] \in Nat
      BY <2>0 DEF TypeOK
    <3>3. /\ lastContact'[n] # NoTime =>
               /\ lastContact[n] # NoTime /\ lastContact'[n] = lastContact[n]
               /\ settledAt'[n] = settledAt[n]
          /\ \A m \in Node \ {n} :
               lastContact'[m] = lastContact[m] /\ settledAt'[m] = settledAt[m]
      BY <2>0, <3>1, <3>2, ReconcileEffect
    <3>4. /\ pc'[n] = "sleeping"
          /\ \A m \in Node \ {n} :
               pc'[m] = pc[m] /\ stepAt'[m] = stepAt[m] /\ seen'[m] = seen[m]
      BY <2>0, <3>1 DEF GoToSleep, TypeOK
    <3>5. \A m \in Node : Contact(m)' =>
            /\ Contact(m) /\ members'[m] = members[m]
            /\ lastContact'[m] = lastContact[m] /\ settledAt'[m] = settledAt[m]
      BY <3>1, <3>3, <3>4 DEF Contact, Active, InStep
    <3>6. \A m \in Node : pc'[m] = "concluding" =>
            pc[m] = "concluding" /\ seen'[m] = seen[m] /\ stepAt'[m] = stepAt[m]
      BY <3>4
    <3> QED BY <1>1, <3>5, <3>6, NothingLearnt
  <2>4. ASSUME NEW n \in Node, Start(n) PROVE UnseenIsNewer'
    <3>1. /\ pc[n] = "down" /\ pc' = [pc EXCEPT ![n] = "announcing"]
          /\ stepAt' = [stepAt EXCEPT ![n] = now] /\ settledAt' = [settledAt EXCEPT ![n] = now]
          /\ UNCHANGED <<seen, members, lastContact>> /\ lastContact[n] = NoTime
      BY <2>4 DEF Start, IInv, LeaseInv, DownForgets
    <3>2. /\ \A m \in Node : Contact(m)' =>
               /\ Contact(m) /\ members'[m] = members[m]
               /\ lastContact'[m] = lastContact[m] /\ settledAt'[m] = settledAt[m]
          /\ \A m \in Node : pc'[m] = "concluding" =>
               pc[m] = "concluding" /\ seen'[m] = seen[m] /\ stepAt'[m] = stepAt[m]
      BY <2>0, <3>1 DEF Contact, Active, InStep, TypeOK
    <3> QED BY <1>1, <3>2, NothingLearnt
  <2>5. ASSUME NEW n \in Node, BeginStep(n) \/ Announce(n) PROVE UnseenIsNewer'
    <3>1. /\ \A m \in Node \ {n} : pc'[m] = pc[m] /\ stepAt'[m] = stepAt[m]
          /\ Active(n) /\ pc'[n] # "concluding"
          /\ UNCHANGED <<seen, members, lastContact, settledAt>>
      BY <2>0, <2>5 DEF BeginStep, Announce, leaseVars, TypeOK, Active, InStep
    <3>2. /\ \A m \in Node : Contact(m)' =>
               /\ Contact(m) /\ members'[m] = members[m]
               /\ lastContact'[m] = lastContact[m] /\ settledAt'[m] = settledAt[m]
          /\ \A m \in Node : pc'[m] = "concluding" =>
               pc[m] = "concluding" /\ seen'[m] = seen[m] /\ stepAt'[m] = stepAt[m]
      BY <3>1 DEF Contact, Active, InStep
    <3> QED BY <1>1, <3>2, NothingLearnt
  <2>6. ASSUME NEW n \in Node, Stop(n) \/ Withdraw(n) \/ Crash(n) PROVE UnseenIsNewer'
    <3>1. /\ \A m \in Node \ {n} :
               /\ pc'[m] = pc[m] /\ stepAt'[m] = stepAt[m] /\ seen'[m] = seen[m]
               /\ members'[m] = members[m] /\ lastContact'[m] = lastContact[m]
               /\ settledAt'[m] = settledAt[m]
          /\ pc'[n] \in {"withdrawing", "down"}
      BY <2>0, <2>6 DEF Stop, Withdraw, Crash, ProcessEnds, TypeOK
    <3>2. /\ \A m \in Node : Contact(m)' =>
               /\ Contact(m) /\ members'[m] = members[m]
               /\ lastContact'[m] = lastContact[m] /\ settledAt'[m] = settledAt[m]
          /\ \A m \in Node : pc'[m] = "concluding" =>
               pc[m] = "concluding" /\ seen'[m] = seen[m] /\ stepAt'[m] = stepAt[m]
      BY <3>1 DEF Contact, Active, InStep
    <3> QED BY <1>1, <3>2, NothingLearnt
  <2>7. CASE Tick \/ UNCHANGED vars
    <3>1. UNCHANGED <<pc, stepAt, seen, members, lastContact, settledAt>>
      BY <2>7 DEF Tick, vars, leaseVars
    <3>2. /\ \A m \in Node : Contact(m)' =>
               /\ Contact(m) /\ members'[m] = members[m]
               /\ lastContact'[m] = lastContact[m] /\ settledAt'[m] = settledAt[m]
          /\ \A m \in Node : pc'[m] = "concluding" =>
               pc[m] = "concluding" /\ seen'[m] = seen[m] /\ stepAt'[m] = stepAt[m]
      BY <3>1 DEF Contact, Active, InStep
    <3> QED BY <1>1, <3>2, NothingLearnt
  <2>8. CASE UNCHANGED failoverVars
    BY <2>7, <2>8 DEF failoverVars
  <2> QED
    BY <2>1, <2>2, <2>3, <2>4, <2>5, <2>6, <2>7, <2>8
    DEF FailoverNext, Progress, Disturbance
<1> QED
  BY <1>1, <1>2 DEF IInv

LEMMA IInvStart == FailoverInit => IInv
<1> SUFFICES ASSUME FailoverInit PROVE IInv
  OBVIOUS
<1>1. LeaseInv
  BY LeaseInvInit DEF FailoverInit
<1>2. \A m \in Node : ~Contact(m) /\ ~Late(m)
  BY DEF FailoverInit, Init, Contact, Active, InStep, Late
<1> QED
  BY <1>1, <1>2 DEF IInv, FailoverInit, Init, FailoverTypeOK, LeaseInv, Time, NoTime,
     SlipsAreNoted, UnseenIsNewer

\* The inductive invariant behind the lease argument (lease.rs:42-80) holds for any
\* timings, whatever fails, skipped records included.
THEOREM Invariance == FailoverSpec => []IInv
<1>1. FailoverInit => IInv
  BY IInvStart
<1>2. IInv /\ [FailoverNext]_failoverVars => IInv'
  BY IInvStep
<1> QED
  BY <1>1, <1>2, PTL DEF FailoverSpec

\* How old the contact is that a holder goes by.
LEMMA HoldersActSoon ==
  ASSUME IInv, NEW n \in Node, owned[n] # {}
  PROVE  /\ Contact(n) /\ settledAt[n] + SettleFor(n) <= now
         /\ owned[n] \subseteq AssignedTo(n, members[n])
         /\ now < lastContact[n] + ActsOnFor(n)
         /\ lastContact[n] \in Nat /\ now \in Nat /\ slipAt \in Int
         /\ settledAt[n] \in Nat /\ SettleFor(n) \in Nat /\ HoldFor(n) \in Nat
<1>1. /\ Contact(n) /\ settledAt[n] + SettleFor(n) <= now
      /\ owned[n] \subseteq AssignedTo(n, members[n])
  BY DEF IInv, LeaseInv, HoldingIsSettled
<1>2. /\ stepAt[n] < lastContact[n] + HoldFor(n) + StepMax + Renew
      /\ now <= stepAt[n] + StepMax
  BY <1>1, LeaseAssumption
  DEF IInv, LeaseInv, ContactIsBacked, StepsAreTimely, Contact, Active, TypeOK
<1>3. /\ now \in Nat /\ stepAt[n] \in Nat /\ settledAt[n] \in Nat /\ lastContact[n] \in Nat
      /\ StepMax \in Nat /\ Renew \in Nat /\ HoldFor(n) \in Nat /\ SettleFor(n) \in Nat
      /\ slipAt \in Int
  BY <1>1, LeaseAssumption, LeaseArithmetic
  DEF IInv, LeaseInv, TypeOK, FailoverTypeOK, Time, NoTime, Contact
<1> QED
  BY <1>1, <1>2, <1>3 DEF ActsOnFor

\* Two nodes that hold streams list each other, unless there was a slip since: a
\* holder m that n has not seen would still be serving its notice (lease.rs:63-74).
LEMMA SettledSeeEachOther ==
  ASSUME NoticeCoversHold, IInv
  PROVE  HoldersSeeEachOther
<1> SUFFICES ASSUME NEW m \in Node, NEW n \in Node, owned[m] # {}, owned[n] # {},
                    m \notin members[n], ~(slipAt >= lastContact[n])
             PROVE  FALSE
  BY DEF HoldersSeeEachOther
<1>1. /\ Contact(m) /\ settledAt[m] + SettleFor(m) <= now
      /\ Contact(n) /\ owned[n] \subseteq AssignedTo(n, members[n])
      /\ now < lastContact[n] + ActsOnFor(n)
  BY HoldersActSoon
<1>2. m # n
  BY <1>1 DEF AssignedTo, IsOwner
<1>3. settledAt[m] + StepMax >= lastContact[n]
  BY <1>1, <1>2 DEF IInv, UnseenIsNewer
<1>4. SettleFor(m) >= HoldFor(n) + Renew + 3 * StepMax
  BY DEF NoticeCoversHold
<1>5. /\ now \in Nat /\ settledAt[m] \in Nat /\ lastContact[n] \in Nat
      /\ HoldFor(n) \in Nat /\ SettleFor(m) \in Nat
      /\ StepMax \in Nat /\ Renew \in Nat
  BY LeaseAssumption, HoldersActSoon
<1> QED
  BY <1>1, <1>3, <1>4, <1>5 DEF ActsOnFor

\* Two nodes that hold streams know of each other (lease.rs:63-74), unless there was
\* a slip since one of them last read: the notice a joiner serves outlasts the hold
\* of a node that has not heard of it.
THEOREM HoldersKnowEachOther ==
  ASSUME NoticeCoversHold
  PROVE  FailoverSpec => []HoldersSeeEachOther
<1>1. IInv => HoldersSeeEachOther
  BY SettledSeeEachOther
<1> QED
  BY <1>1, Invariance, PTL

\* Two holders that list each other run different streams (assign.rs:78-101).
LEMMA SeenMeansDisjoint ==
  ASSUME IInv, NEW m \in Node, NEW n \in Node, m # n,
         NEW s \in owned[m] \cap owned[n]
  PROVE  m \notin members[n] \/ n \notin members[m]
<1>1. members[m] \in SUBSET Node /\ members[n] \in SUBSET Node
  BY DEF IInv, LeaseInv, TypeOK
<1>2. s \in AssignedTo(m, members[m]) \cap AssignedTo(n, members[n])
  BY HoldersActSoon
<1>3. ASSUME m \in members[n], n \in members[m] PROVE FALSE
  BY <1>1, <1>2, <1>3, AssignmentsAreDisjoint
<1> QED BY <1>3

LEMMA SettledOverlapBriefly ==
  ASSUME NoticeCoversHold, IInv
  PROVE  OverlapIsBrief
<1> SUFFICES ASSUME NEW m \in Node, NEW n \in Node, m # n,
                    NEW s \in owned[m] \cap owned[n]
             PROVE  slipAt # NoTime /\ \E k \in {m, n} : now < slipAt + ActsOnFor(k)
  BY DEF OverlapIsBrief
<1>1. PICK k \in {m, n} : slipAt >= lastContact[k]
  BY SeenMeansDisjoint, SettledSeeEachOther DEF HoldersSeeEachOther
<1>2. /\ now < lastContact[k] + ActsOnFor(k) /\ HoldFor(k) \in Nat
      /\ lastContact[k] \in Nat /\ slipAt \in Int /\ now \in Nat
  BY HoldersActSoon
<1>3. ActsOnFor(k) \in Nat
  BY <1>2, LeaseAssumption DEF ActsOnFor
<1> QED BY <1>1, <1>2, <1>3 DEF NoTime

\* At most one node runs a stream (lease.rs:4-9), but for a while after a slip: for
\* any number of nodes and streams, any weights, clocks and failures, and any timings
\* whose notice is long enough, as those of the repository are.
THEOREM OverlapsAreBrief ==
  ASSUME NoticeCoversHold
  PROVE  FailoverSpec => []OverlapIsBrief
<1>1. IInv => OverlapIsBrief
  BY SettledOverlapBriefly
<1> QED
  BY <1>1, Invariance, PTL

\* The timings that would do away with slips: the guard covers a sleep, two steps
\* and the skew, and no read skips a record.  Then lease.rs:4-9 and 42-45 hold.
THEOREM NoTwoOwners ==
  ASSUME GuardCoversOvershoot, NoticeCoversHold, ReadsAreComplete
  PROVE  FailoverSpec => [](AtMostOneOwner /\ HolderIsUnexpired)
<1> DEFINE J == IInv /\ slipAt = NoTime
<1>1. ASSUME LeaseInv, NEW m \in Node, NEW n \in Node, Contact(m)
      PROVE  registry[m] # NoTime /\ ~Expired(m, now + Offset[n])
  <2>1. /\ registry[m] # NoTime
        /\ now + Offset[n] + Guard < registry[m] + Renew + 2 * StepMax + MaxSkew
    BY <1>1, ContactEndsSoon
  <2>2. /\ now \in Nat /\ Offset[n] \in Nat /\ registry[m] \in Int /\ Guard \in Nat
        /\ Renew \in Nat /\ StepMax \in Nat /\ MaxSkew \in Nat
    BY <1>1, LeaseAssumption DEF LeaseInv, TypeOK, Time, NoTime
  <2> QED BY <2>1, <2>2 DEF GuardCoversOvershoot, Expired
<1>2. FailoverInit => J
  BY IInvStart DEF FailoverInit
<1>3. J /\ [FailoverNext]_failoverVars => J'
  <2> SUFFICES ASSUME J, [FailoverNext]_failoverVars PROVE J'
    OBVIOUS
  <2>1. IInv'
    BY IInvStep
  <2>2. \A m \in Node : ~Late(m)'
    <3>1. ASSUME NEW m \in Node, NEW n \in Node, Contact(m)'
          PROVE  ~Expired(m, now + Offset[n])'
      <4>1. LeaseInv'
        BY <2>1 DEF IInv
      <4>2. /\ registry'[m] # NoTime
            /\ now' + Offset[n] + Guard < registry'[m] + Renew + 2 * StepMax + MaxSkew
        <5>1. /\ registry'[m] >= lastContact'[m] + Offset[m] + Ttl[m] /\ registry'[m] # NoTime
              /\ stepAt'[m] < lastContact'[m] + Ttl[m] - Guard + StepMax + Renew
          BY <3>1, <4>1, LeaseArithmetic DEF LeaseInv, ContactIsBacked
        <5>2. now' <= stepAt'[m] + StepMax
          BY <3>1, <4>1, LeaseAssumption
          DEF LeaseInv, StepsAreTimely, Contact, Active, TypeOK
        <5>3. Offset[n] <= Offset[m] + MaxSkew
          BY LeaseAssumption
        <5>4. /\ now' \in Nat /\ stepAt'[m] \in Nat /\ Offset[n] \in Nat
              /\ Offset[m] \in Nat /\ registry'[m] \in Int /\ lastContact'[m] \in Int
              /\ Ttl[m] \in Nat /\ Guard \in Nat /\ Renew \in Nat /\ StepMax \in Nat
              /\ MaxSkew \in Nat
          BY <4>1, LeaseAssumption DEF LeaseInv, TypeOK, Time, NoTime
        <5> QED BY <5>1, <5>2, <5>3, <5>4
      <4>3. /\ now' \in Nat /\ Offset[n] \in Nat /\ registry'[m] \in Int /\ Guard \in Nat
            /\ Renew \in Nat /\ StepMax \in Nat /\ MaxSkew \in Nat
        BY <4>1, LeaseAssumption DEF LeaseInv, TypeOK, Time, NoTime
      <4> QED BY <4>2, <4>3 DEF GuardCoversOvershoot, Expired
    <3> QED BY <3>1 DEF Late
  <2>3. \A m \in Node : ~ReadSkips(m)
    BY DEF ReadSkips, ReadsAreComplete
  <2>4. slipAt' = slipAt
    BY <2>2, <2>3 DEF FailoverNext, failoverVars, Slips
  <2> QED BY <2>1, <2>4
<1>4. J => AtMostOneOwner /\ HolderIsUnexpired
  <2> SUFFICES ASSUME J PROVE AtMostOneOwner /\ HolderIsUnexpired
    OBVIOUS
  <2>1. AtMostOneOwner
    BY SettledOverlapBriefly DEF OverlapIsBrief, AtMostOneOwner
  <2>2. HolderIsUnexpired
    BY <1>1, HoldersActSoon DEF HolderIsUnexpired, IInv
  <2> QED BY <2>1, <2>2
<1> HIDE DEF J
<1> QED BY <1>2, <1>3, <1>4, PTL DEF FailoverSpec

-----------------------------------------------------------------------------
(* Availability.  What the calm has made of a node is told by how long ago *)
(* it began the step it is in, or last concluded.                          *)

\* A node whose step, or next step, is more than a sleep into the calm concluded
\* the one before it.
FreshContact ==
  \A n \in Node : Active(n) /\ stepAt[n] > calmSince + Renew =>
    lastContact[n] # NoTime /\ lastContact[n] >= stepAt[n] - Renew - StepMax

\* No record is valid for longer than its node's ttl, and one whose node is gone
\* was written before the calm.
RecordsArePast ==
  \A n \in Node :
    /\ registry[n] <= now + Offset[n] + Ttl[n]
    /\ Active(n) \/ registry[n] <= calmSince + Offset[n] + Ttl[n]

\* A membership that was read `at` some time holds node m if and only if m is up, if
\* the reader began late enough in the calm to tell.
Tells(at, m, membership) ==
  /\ Active(m) /\ at > calmSince + Renew + StepMax => m \in membership
  /\ ~Active(m) /\ at > calmSince + MaxSkew + Ttl[m] => m \notin membership

MembershipsTell ==
  \A n, m \in Node :
    /\ Contact(n) => Tells(lastContact[n], m, members[n])
    /\ pc[n] = "concluding" => Tells(stepAt[n], m, seen[n])

\* Nobody's notice starts later than a sleep into the calm.
NoticeHasStarted == \A n \in Node : Contact(n) => settledAt[n] <= calmSince + Renew

\* Whoever had served its notice when it last concluded runs what it was assigned.
SettledRunAll ==
  \A n \in Node : Contact(n) /\ lastContact[n] >= settledAt[n] + SettleFor(n) =>
    owned[n] = AssignedTo(n, members[n])

CalmInv ==
  /\ LeaseInv
  /\ calmSince \in Nat /\ calmSince <= now
  /\ FreshContact /\ RecordsArePast /\ MembershipsTell /\ NoticeHasStarted /\ SettledRunAll

\* The numbers of a well typed state.
LEMMA CalmNumbers ==
  ASSUME CalmInv
  PROVE  /\ now \in Nat /\ calmSince \in Nat /\ calmSince <= now
         /\ Renew \in Nat /\ StepMax \in Nat /\ Guard \in Nat /\ MaxSkew \in Nat
         /\ \A n \in Node :
              /\ stepAt[n] \in Nat /\ settledAt[n] \in Nat
              /\ lastContact[n] \in Int /\ registry[n] \in Int
              /\ Offset[n] \in Nat /\ Ttl[n] \in Nat
              /\ HoldFor(n) \in Nat /\ SettleFor(n) \in Nat
BY LeaseAssumption, LeaseArithmetic DEF CalmInv, LeaseInv, TypeOK, Time, NoTime

\* When the calm has lasted longer than a sleep and a step, every node that is up
\* has a contact no older than a sleep and two steps.
LEMMA CalmMeansContact ==
  ASSUME CalmInv, NEW n \in Node, Active(n), now > calmSince + Renew + StepMax
  PROVE  Contact(n) /\ lastContact[n] >= now - Renew - 2 * StepMax
<1>1. now <= stepAt[n] + StepMax
  BY CalmNumbers DEF CalmInv, LeaseInv, StepsAreTimely, Active
<1>2. lastContact[n] # NoTime /\ lastContact[n] >= stepAt[n] - Renew - StepMax
  BY <1>1, CalmNumbers DEF CalmInv, FreshContact
<1> QED BY <1>1, <1>2, CalmNumbers DEF Contact

-----------------------------------------------------------------------------
(* The invariant holds.                                                    *)

LEMMA CalmInit == FailoverInit => CalmInv
<1> SUFFICES ASSUME FailoverInit PROVE CalmInv
  OBVIOUS
<1>1. LeaseInv
  BY LeaseInvInit DEF FailoverInit
<1>2. /\ now = 0 /\ calmSince = 0
      /\ \A n \in Node : registry[n] = NoTime /\ pc[n] = "down"
  BY DEF FailoverInit, Init
<1>3. \A n \in Node : ~Active(n) /\ ~Contact(n)
  BY <1>2 DEF Active, InStep, Contact
<1>4. RecordsArePast
  <2> SUFFICES ASSUME NEW n \in Node
               PROVE  /\ registry[n] <= now + Offset[n] + Ttl[n]
                      /\ registry[n] <= calmSince + Offset[n] + Ttl[n]
    BY DEF RecordsArePast
  <2>1. Offset[n] \in Nat /\ Ttl[n] \in Nat
    BY LeaseAssumption
  <2> QED BY <1>2, <2>1 DEF NoTime
<1> QED
  BY <1>1, <1>2, <1>3, <1>4
  DEF CalmInv, FreshContact, MembershipsTell, NoticeHasStarted, SettledRunAll

\* What reconcile() leaves of the last clause, whether it follows a read or a failure.
LEMMA ReconcileRunsAll ==
  ASSUME TypeOK, NEW n \in Node, NEW contactAt \in Time, NEW noticeFrom \in Nat,
         contactAt <= stepAt[n],
         Reconcile(n, contactAt, noticeFrom)
  PROVE  lastContact'[n] # NoTime /\ lastContact'[n] >= settledAt'[n] + SettleFor(n) =>
           owned'[n] = AssignedTo(n, members'[n])
<1>1. CASE StandDown(n)
  BY <1>1 DEF StandDown, TypeOK
<1>2. CASE ~StandDown(n)
  <2>1. /\ contactAt # NoTime
        /\ lastContact' = [lastContact EXCEPT ![n] = contactAt]
        /\ settledAt' = [settledAt EXCEPT ![n] = noticeFrom]
        /\ owned' = [owned EXCEPT ![n] =
                       IF stepAt[n] - noticeFrom < SettleFor(n)
                       THEN {} ELSE AssignedTo(n, members'[n])]
    BY <1>2 DEF Reconcile
  <2>2. stepAt[n] \in Nat /\ SettleFor(n) \in Nat /\ contactAt \in Int
    BY LeaseArithmetic DEF TypeOK, Time, NoTime
  <2> QED
    BY <2>1, <2>2 DEF TypeOK
<1> QED
  BY <1>1, <1>2

\* A disturbance starts the calm anew, and what was known of the old one is
\* forgotten; only what is true at any time is left to show.
LEMMA DisturbanceKeepsCalm ==
  ASSUME CalmInv, LeaseInv', Disturbance, calmSince' = now
  PROVE  CalmInv'
<1> PICK n \in Node : \/ Start(n) \/ Stop(n) \/ Crash(n)
                      \/ AnnounceFails(n) \/ ReadFails(n) \/ ReadSkips(n)
  BY DEF Disturbance
<1>1. TypeOK /\ TypeOK'
  BY DEF CalmInv, LeaseInv
<1>2. now' = now /\ calmSince' = now' /\ now' \in Nat
  <2>1. now' = now
    BY DEF Start, AnnounceFails, ReadFails, ReadSkips, Stop, Crash, GoToSleep, ProcessEnds
  <2> QED BY <2>1, CalmNumbers
<1>3. \A m \in Node \ {n} :
         /\ pc'[m] = pc[m] /\ stepAt'[m] = stepAt[m] /\ seen'[m] = seen[m]
         /\ registry'[m] = registry[m] /\ members'[m] = members[m]
         /\ lastContact'[m] = lastContact[m] /\ settledAt'[m] = settledAt[m]
         /\ owned'[m] = owned[m]
  <2>1. CASE Start(n)
    BY <1>1, <2>1 DEF Start, TypeOK
  <2>2. CASE AnnounceFails(n) \/ ReadFails(n)
    <3>1. /\ Reconcile(n, lastContact[n], settledAt[n]) /\ GoToSleep(n)
          /\ registry' \in {registry, [registry EXCEPT ![n] = Record(n)]} /\ UNCHANGED members
      BY <2>2 DEF AnnounceFails, ReadFails
    <3>2. lastContact[n] \in Time /\ settledAt[n] \in Nat
      BY <1>1 DEF TypeOK
    <3>3. \A m \in Node \ {n} :
            /\ lastContact'[m] = lastContact[m] /\ settledAt'[m] = settledAt[m]
            /\ owned'[m] = owned[m]
      BY <1>1, <3>1, <3>2, ReconcileEffect
    <3> QED BY <1>1, <3>1, <3>3 DEF GoToSleep, TypeOK
  <2>3. CASE Stop(n)
    BY <1>1, <2>3 DEF Stop, TypeOK
  <2>4. CASE Crash(n)
    BY <1>1, <2>4 DEF Crash, ProcessEnds, TypeOK
  <2>5. CASE ReadSkips(n)
    BY <1>1, <2>5 DEF ReadSkips, TypeOK, leaseVars
  <2> QED BY <2>1, <2>2, <2>3, <2>4, <2>5
<1>4. \A m \in Node \ {n} :
         (Active(m)' <=> Active(m)) /\ (Contact(m)' <=> Contact(m)) /\ (InStep(m)' <=> InStep(m))
  BY <1>3 DEF Active, InStep, Contact
<1>5. FreshContact'
  <2>1. ASSUME Active(n)' PROVE stepAt'[n] <= now + Renew
    <3>1. CASE Start(n)
      BY <3>1, <1>1, CalmNumbers DEF Start, TypeOK
    <3>2. CASE AnnounceFails(n) \/ ReadFails(n)
      BY <3>2, <1>1, CalmNumbers DEF AnnounceFails, ReadFails, GoToSleep, TypeOK
    <3>3. CASE Stop(n)
      BY <2>1, <3>3, <1>1 DEF Stop, TypeOK, Active, InStep
    <3>4. CASE Crash(n)
      BY <2>1, <3>4, <1>1 DEF Crash, ProcessEnds, TypeOK, Active, InStep
    <3>5. CASE ReadSkips(n)
      <4>1. stepAt[n] <= now /\ stepAt' = stepAt
        BY <3>5 DEF ReadSkips, CalmInv, LeaseInv, StepsAreTimely, InStep
      <4> QED BY <4>1, <1>1, CalmNumbers
    <3> QED BY <3>1, <3>2, <3>3, <3>4, <3>5
  <2>2. ASSUME NEW m \in Node \ {n}, Active(m)', stepAt'[m] > calmSince' + Renew
        PROVE  lastContact'[m] # NoTime /\ lastContact'[m] >= stepAt'[m] - Renew - StepMax
    <3>1. Active(m) /\ stepAt[m] > calmSince + Renew
      BY <2>2, <1>2, <1>3, <1>4, CalmNumbers
    <3> QED BY <3>1, <1>3 DEF CalmInv, FreshContact
  <2> QED BY <2>1, <2>2, <1>1, <1>2, CalmNumbers DEF FreshContact, TypeOK
<1>6. RecordsArePast'
  <2>1. registry'[n] <= now + Offset[n] + Ttl[n]
    <3>1. registry[n] <= now + Offset[n] + Ttl[n]
      BY DEF CalmInv, RecordsArePast
    <3>2. InStep(n) => Record(n) <= now + Offset[n] + Ttl[n]
      BY CalmNumbers DEF CalmInv, LeaseInv, StepsAreTimely, Record
    <3>3. registry'[n] = registry[n] \/ (InStep(n) /\ registry'[n] = Record(n))
      <4>1. CASE AnnounceFails(n)
        BY <4>1, <1>1 DEF AnnounceFails, InStep, TypeOK
      <4>2. CASE Start(n) \/ ReadFails(n) \/ ReadSkips(n) \/ Stop(n) \/ Crash(n)
        BY <4>2 DEF Start, ReadFails, ReadSkips, Stop, Crash
      <4> QED BY <4>1, <4>2
    <3> QED BY <3>1, <3>2, <3>3
  <2> QED BY <2>1, <1>2, <1>3, <1>4 DEF CalmInv, RecordsArePast
<1>7. MembershipsTell'
  <2> SUFFICES ASSUME NEW k \in Node, NEW m \in Node
               PROVE  /\ Contact(k)' => Tells(lastContact[k], m, members[k])'
                      /\ pc'[k] = "concluding" => Tells(stepAt[k], m, seen[k])'
    BY DEF MembershipsTell
  <2>1. Contact(k)' => lastContact'[k] <= now'
    BY DEF LeaseInv, ContactIsBacked
  <2>2. pc'[k] = "concluding" => stepAt'[k] <= now'
    BY DEF LeaseInv, StepsAreTimely, InStep
  <2>3. lastContact'[k] \in Int /\ stepAt'[k] \in Int /\ Ttl[m] \in Nat
    BY <1>1, LeaseAssumption DEF TypeOK, Time, NoTime
  <2> QED BY <2>1, <2>2, <2>3, <1>2, CalmNumbers DEF Tells
<1>8. NoticeHasStarted'
  <2> SUFFICES ASSUME NEW m \in Node, Contact(m)' PROVE settledAt'[m] <= calmSince' + Renew
    BY DEF NoticeHasStarted
  <2>1. settledAt'[m] <= lastContact'[m] /\ lastContact'[m] <= now'
    BY DEF LeaseInv, ContactIsBacked
  <2>2. settledAt'[m] \in Nat /\ lastContact'[m] \in Int
    BY <1>1 DEF TypeOK, Time, NoTime
  <2> QED BY <2>1, <2>2, <1>2, CalmNumbers
<1>9. SettledRunAll'
  <2>1. ASSUME NEW m \in Node \ {n}, Contact(m)',
               lastContact'[m] >= settledAt'[m] + SettleFor(m)
        PROVE  owned'[m] = AssignedTo(m, members'[m])
    BY <2>1, <1>3, <1>4 DEF CalmInv, SettledRunAll
  <2>2. ASSUME Contact(n)', lastContact'[n] >= settledAt'[n] + SettleFor(n)
        PROVE  owned'[n] = AssignedTo(n, members'[n])
    <3>1. CASE Start(n)
      <4>1. lastContact[n] = NoTime
        BY <3>1 DEF Start, CalmInv, LeaseInv, DownForgets
      <4> QED BY <2>2, <3>1, <4>1 DEF Start, Contact
    <3>2. CASE AnnounceFails(n) \/ ReadFails(n)
      <4>1. Reconcile(n, lastContact[n], settledAt[n]) /\ InStep(n)
        BY <3>2 DEF AnnounceFails, ReadFails, InStep
      <4>2. lastContact[n] \in Time /\ settledAt[n] \in Nat
        BY <1>1 DEF TypeOK
      <4>3. lastContact[n] <= stepAt[n]
        <5>1. CASE lastContact[n] = NoTime
          BY <5>1, CalmNumbers DEF NoTime
        <5>2. CASE lastContact[n] # NoTime
          BY <5>2, <4>1 DEF CalmInv, LeaseInv, ContactIsBacked, Contact, Active
        <5> QED BY <5>1, <5>2
      <4> QED BY <2>2, <4>1, <4>2, <4>3, <1>1, ReconcileRunsAll DEF Contact
    <3>3. CASE Stop(n)
      BY <2>2, <3>3, <1>1 DEF Stop, TypeOK, Active, InStep, Contact
    <3>4. CASE Crash(n)
      BY <2>2, <3>4, <1>1 DEF Crash, ProcessEnds, TypeOK, Active, InStep, Contact
    <3>5. CASE ReadSkips(n)
      BY <2>2, <3>5 DEF ReadSkips, leaseVars, Contact, Active, InStep, CalmInv, SettledRunAll
    <3> QED BY <3>1, <3>2, <3>3, <3>4, <3>5
  <2> QED BY <2>1, <2>2 DEF SettledRunAll
<1> QED
  BY <1>2, <1>5, <1>6, <1>7, <1>8, <1>9 DEF CalmInv

\* A step that leaves alone what the calm is judged by.
LEMMA SilentKeepsCalm ==
  ASSUME CalmInv, LeaseInv', now <= now', calmSince' = calmSince,
         UNCHANGED <<registry, stepAt, leaseVars>>,
         \A m \in Node : Active(m)' <=> Active(m),
         \A m \in Node : pc'[m] = "concluding" => pc[m] = "concluding" /\ seen'[m] = seen[m]
  PROVE  CalmInv'
<1>1. now' \in Nat /\ calmSince' \in Nat /\ calmSince' <= now'
  BY CalmNumbers DEF LeaseInv, TypeOK
<1>2. \A m \in Node : Contact(m)' <=> Contact(m)
  BY DEF Contact, leaseVars
<1>3. FreshContact' /\ NoticeHasStarted' /\ SettledRunAll'
  BY <1>2 DEF CalmInv, FreshContact, NoticeHasStarted, SettledRunAll, leaseVars
<1>4. RecordsArePast'
  <2> SUFFICES ASSUME NEW m \in Node
               PROVE  /\ registry[m] <= now' + Offset[m] + Ttl[m]
                      /\ Active(m) \/ registry[m] <= calmSince + Offset[m] + Ttl[m]
    BY DEF RecordsArePast
  <2>1. /\ registry[m] <= now + Offset[m] + Ttl[m]
        /\ Active(m) \/ registry[m] <= calmSince + Offset[m] + Ttl[m]
    BY DEF CalmInv, RecordsArePast
  <2> QED BY <2>1, <1>1, CalmNumbers
<1>5. MembershipsTell'
  BY <1>2 DEF CalmInv, MembershipsTell, Tells, leaseVars
<1> QED
  BY <1>1, <1>3, <1>4, <1>5 DEF CalmInv

LEMMA AnnounceKeepsCalm ==
  ASSUME CalmInv, LeaseInv', NEW n \in Node, Announce(n), calmSince' = calmSince
  PROVE  CalmInv'
<1>1. /\ pc[n] = "announcing" /\ registry' = [registry EXCEPT ![n] = Record(n)]
      /\ pc' = [pc EXCEPT ![n] = "reading"]
      /\ UNCHANGED <<now, stepAt, seen, leaseVars>>
      /\ pc \in [Node -> PC] /\ registry \in [Node -> Time]
  BY DEF Announce, CalmInv, LeaseInv, TypeOK
<1>2. \A m \in Node : (Active(m)' <=> Active(m)) /\ (Contact(m)' <=> Contact(m))
  BY <1>1 DEF Active, InStep, Contact, leaseVars
<1>3. FreshContact' /\ NoticeHasStarted' /\ SettledRunAll'
  BY <1>1, <1>2 DEF CalmInv, FreshContact, NoticeHasStarted, SettledRunAll, leaseVars
<1>4. RecordsArePast'
  <2>1. Active(n) /\ Record(n) <= now + Offset[n] + Ttl[n]
    BY <1>1, CalmNumbers DEF CalmInv, LeaseInv, StepsAreTimely, Record, Active, InStep
  <2> QED BY <2>1, <1>1, <1>2 DEF CalmInv, RecordsArePast
<1>5. MembershipsTell'
  BY <1>1, <1>2 DEF CalmInv, MembershipsTell, Tells, leaseVars
<1> QED
  BY <1>1, <1>3, <1>4, <1>5 DEF CalmInv

\* A read finds the record of every node that is up, if all had time to renew it,
\* and that of none that is down, if it had time to expire.
LEMMA ReadTells ==
  ASSUME CalmInv, RecordsOutliveSleeps, NEW n \in Node, NEW m \in Node, pc[n] = "reading"
  PROVE  Tells(stepAt[n], m, LiveMembers(n))
<1>1. stepAt[n] <= now
  BY DEF CalmInv, LeaseInv, StepsAreTimely, InStep
<1>2. ASSUME Active(m), stepAt[n] > calmSince + Renew + StepMax
      PROVE  m \in LiveMembers(n)
  <2>1. Contact(m) /\ lastContact[m] >= now - Renew - 2 * StepMax
    BY <1>1, <1>2, CalmMeansContact, CalmNumbers
  <2>2. registry[m] # NoTime /\ registry[m] >= lastContact[m] + Offset[m] + Ttl[m]
    BY <2>1 DEF CalmInv, LeaseInv, ContactIsBacked
  <2>3. Ttl[m] >= Renew + 2 * StepMax + MaxSkew /\ Offset[n] <= Offset[m] + MaxSkew
    BY LeaseAssumption DEF RecordsOutliveSleeps
  <2>4. ~Expired(m, stepAt[n] + Offset[n])
    BY <1>1, <2>1, <2>2, <2>3, CalmNumbers DEF Expired
  <2> QED BY <2>2, <2>4 DEF LiveMembers
<1>3. ASSUME ~Active(m), stepAt[n] > calmSince + MaxSkew + Ttl[m]
      PROVE  m \notin LiveMembers(n)
  <2>1. registry[m] <= calmSince + Offset[m] + Ttl[m]
    BY <1>3 DEF CalmInv, RecordsArePast
  <2>2. Offset[m] <= Offset[n] + MaxSkew
    BY LeaseAssumption
  <2>3. Expired(m, stepAt[n] + Offset[n])
    BY <2>1, <2>2, <1>3, CalmNumbers DEF Expired
  <2> QED BY <2>3 DEF LiveMembers
<1> QED BY <1>2, <1>3 DEF Tells

LEMMA ReadKeepsCalm ==
  ASSUME CalmInv, LeaseInv', RecordsOutliveSleeps,
         NEW n \in Node, Read(n), calmSince' = calmSince
  PROVE  CalmInv'
<1>1. /\ pc[n] = "reading" /\ seen' = [seen EXCEPT ![n] = LiveMembers(n)]
      /\ pc' = [pc EXCEPT ![n] = "concluding"]
      /\ UNCHANGED <<now, registry, stepAt, leaseVars>>
      /\ pc \in [Node -> PC] /\ seen \in [Node -> SUBSET Node]
  BY DEF Read, CalmInv, LeaseInv, TypeOK
<1>2. \A m \in Node : (Active(m)' <=> Active(m)) /\ (Contact(m)' <=> Contact(m))
  BY <1>1 DEF Active, InStep, Contact, leaseVars
<1>3. FreshContact' /\ NoticeHasStarted' /\ SettledRunAll' /\ RecordsArePast'
  BY <1>1, <1>2
  DEF CalmInv, FreshContact, NoticeHasStarted, SettledRunAll, RecordsArePast, leaseVars
<1>4. MembershipsTell'
  <2>1. \A m \in Node : Tells(stepAt[n], m, LiveMembers(n))
    BY <1>1, ReadTells
  <2> QED BY <2>1, <1>1, <1>2 DEF CalmInv, MembershipsTell, Tells, leaseVars
<1> QED
  BY <1>1, <1>3, <1>4 DEF CalmInv

\* The end of a step in the calm: its reading becomes the contact and the members.
LEMMA ConcludeKeepsCalm ==
  ASSUME CalmInv, LeaseInv', HoldsLast, NEW n \in Node, Conclude(n), calmSince' = calmSince
  PROVE  CalmInv'
<1> DEFINE notice == IF lastContact[n] = NoTime THEN stepAt[n] ELSE settledAt[n]
<1>1. TypeOK
  BY DEF CalmInv, LeaseInv
<1>2. /\ pc[n] = "concluding" /\ members' = [members EXCEPT ![n] = seen[n]]
      /\ Reconcile(n, stepAt[n], notice) /\ GoToSleep(n) /\ UNCHANGED registry
  BY DEF Conclude
<1>3. /\ now' = now /\ pc'[n] = "sleeping" /\ stepAt'[n] = now + Renew
      /\ members'[n] = seen[n]
      /\ \A m \in Node \ {n} : /\ pc'[m] = pc[m] /\ stepAt'[m] = stepAt[m]
                                /\ seen'[m] = seen[m] /\ members'[m] = members[m]
  BY <1>1, <1>2 DEF GoToSleep, TypeOK
<1>4. notice \in Nat /\ stepAt[n] \in Nat /\ stepAt[n] \in Time /\ stepAt[n] # NoTime
  BY <1>1 DEF TypeOK, Time, NoTime
<1>5. lastContact'[n] = stepAt[n] /\ settledAt'[n] = notice
  <2>1. HoldFor(n) > 0
    BY LeaseArithmetic, CalmNumbers DEF HoldsLast
  <2>2. ~(~(stepAt[n] # NoTime /\ stepAt[n] - stepAt[n] < HoldFor(n)))
    BY <2>1, <1>4, CalmNumbers
  <2>3. /\ lastContact' = [lastContact EXCEPT ![n] = stepAt[n]]
        /\ settledAt' = [settledAt EXCEPT ![n] = notice]
    <3> HIDE DEF notice
    <3> QED BY <1>2, <2>2 DEF Reconcile
  <2> QED BY <2>3, <1>1 DEF TypeOK
<1>6. \A m \in Node \ {n} : /\ lastContact'[m] = lastContact[m]
                             /\ settledAt'[m] = settledAt[m] /\ owned'[m] = owned[m]
  <2> HIDE DEF notice
  <2> QED BY <1>1, <1>2, <1>4, ReconcileEffect
<1>7. /\ Contact(n)' /\ Active(n) /\ ~(pc'[n] = "concluding")
      /\ \A m \in Node : Active(m)' <=> Active(m)
      /\ \A m \in Node \ {n} : Contact(m)' <=> Contact(m)
  BY <1>2, <1>3, <1>4, <1>5, <1>6 DEF Active, InStep, Contact
<1>8. FreshContact'
  <2>1. now <= stepAt[n] + StepMax
    BY <1>2 DEF CalmInv, LeaseInv, StepsAreTimely, InStep
  <2>2. lastContact'[n] # NoTime /\ lastContact'[n] >= stepAt'[n] - Renew - StepMax
    BY <2>1, <1>3, <1>4, <1>5, CalmNumbers
  <2> QED BY <2>2, <1>3, <1>6, <1>7 DEF CalmInv, FreshContact
<1>9. RecordsArePast'
  BY <1>2, <1>3, <1>7 DEF CalmInv, RecordsArePast
<1>10. MembershipsTell'
  <2>1. \A m \in Node : Tells(stepAt[n], m, seen[n])
    BY <1>2 DEF CalmInv, MembershipsTell
  <2>2. \A m \in Node : Tells(lastContact[n], m, members[n])'
    BY <2>1, <1>3, <1>5, <1>7 DEF Tells
  <2>3. ASSUME NEW k \in Node \ {n}, NEW m \in Node
        PROVE  /\ Contact(k)' => Tells(lastContact[k], m, members[k])'
               /\ pc'[k] = "concluding" => Tells(stepAt[k], m, seen[k])'
    BY <1>3, <1>6, <1>7 DEF CalmInv, MembershipsTell, Tells
  <2> QED BY <2>2, <2>3, <1>7 DEF MembershipsTell
<1>11. NoticeHasStarted'
  <2>1. notice <= calmSince + Renew
    <3>1. CASE lastContact[n] = NoTime
      BY <3>1, <1>7, CalmNumbers DEF CalmInv, FreshContact
    <3>2. CASE lastContact[n] # NoTime
      BY <3>2, <1>7 DEF CalmInv, NoticeHasStarted, Contact
    <3> QED BY <3>1, <3>2
  <2> QED BY <2>1, <1>5, <1>6, <1>7 DEF CalmInv, NoticeHasStarted
<1>12. SettledRunAll'
  <2> HIDE DEF notice
  <2>1. lastContact'[n] # NoTime /\ lastContact'[n] >= settledAt'[n] + SettleFor(n) =>
           owned'[n] = AssignedTo(n, members'[n])
    BY <1>1, <1>2, <1>4, CalmNumbers, ReconcileRunsAll
  <2> QED BY <2>1, <1>3, <1>6, <1>7 DEF CalmInv, SettledRunAll, Contact
<1> QED
  BY <1>3, <1>8, <1>9, <1>10, <1>11, <1>12 DEF CalmInv

LEMMA WithdrawKeepsCalm ==
  ASSUME CalmInv, LeaseInv', NEW n \in Node, Withdraw(n), calmSince' = calmSince
  PROVE  CalmInv'
<1>1. /\ now' = now /\ pc[n] = "withdrawing" /\ pc'[n] = "down"
      /\ registry'[n] = registry[n] \/ registry'[n] = NoTime
      /\ \A m \in Node \ {n} :
           /\ pc'[m] = pc[m] /\ stepAt'[m] = stepAt[m] /\ seen'[m] = seen[m]
           /\ registry'[m] = registry[m] /\ members'[m] = members[m]
           /\ lastContact'[m] = lastContact[m]
           /\ settledAt'[m] = settledAt[m] /\ owned'[m] = owned[m]
  BY DEF Withdraw, ProcessEnds, CalmInv, LeaseInv, TypeOK
<1>2. /\ ~Active(n) /\ ~Active(n)' /\ ~Contact(n)' /\ pc'[n] # "concluding"
      /\ \A m \in Node \ {n} : (Active(m)' <=> Active(m)) /\ (Contact(m)' <=> Contact(m))
  BY <1>1 DEF Active, InStep, Contact
<1>3. FreshContact' /\ NoticeHasStarted' /\ SettledRunAll'
  BY <1>1, <1>2 DEF CalmInv, FreshContact, NoticeHasStarted, SettledRunAll
<1>4. RecordsArePast'
  <2> SUFFICES ASSUME NEW m \in Node
               PROVE  /\ registry'[m] <= now + Offset[m] + Ttl[m]
                      /\ Active(m)' \/ registry'[m] <= calmSince + Offset[m] + Ttl[m]
    BY <1>1 DEF RecordsArePast
  <2>1. /\ registry[m] <= now + Offset[m] + Ttl[m]
        /\ Active(m) \/ registry[m] <= calmSince + Offset[m] + Ttl[m]
    BY DEF CalmInv, RecordsArePast
  <2>2. CASE registry'[m] = registry[m]
    BY <2>1, <2>2, <1>2
  <2>3. CASE registry'[m] = NoTime
    BY <2>3, CalmNumbers DEF NoTime
  <2> QED BY <2>2, <2>3, <1>1
<1>5. MembershipsTell'
  BY <1>1, <1>2 DEF CalmInv, MembershipsTell, Tells
<1> QED
  BY <1>1, <1>3, <1>4, <1>5 DEF CalmInv

LEMMA CalmStep ==
  ASSUME HoldsLast, RecordsOutliveSleeps, CalmInv,
         [FailoverNext]_failoverVars
  PROVE  CalmInv'
<1>1. [Next]_vars
  BY DEF FailoverNext, failoverVars, Next
<1>2. LeaseInv'
  BY <1>1, LeaseInvStep DEF CalmInv
<1>3. CASE Disturbance /\ calmSince' = now
  BY <1>2, <1>3, DisturbanceKeepsCalm
<1>4. CASE Progress /\ calmSince' = calmSince
  <2>1. ASSUME NEW n \in Node, BeginStep(n) PROVE CalmInv'
    <3>1. /\ pc[n] = "sleeping" /\ now >= stepAt[n] /\ pc' = [pc EXCEPT ![n] = "announcing"]
          /\ stepAt' = [stepAt EXCEPT ![n] = now] /\ UNCHANGED <<now, registry, seen, leaseVars>>
          /\ pc \in [Node -> PC] /\ stepAt \in [Node -> Nat]
      BY <2>1 DEF BeginStep, CalmInv, LeaseInv, TypeOK
    <3>2. now = stepAt[n]
      BY <3>1, CalmNumbers DEF CalmInv, LeaseInv, StepsAreTimely
    <3>3. stepAt' = stepAt
      BY <3>1, <3>2
    <3>4. \A m \in Node : Active(m)' <=> Active(m)
      BY <3>1 DEF Active, InStep
    <3> QED BY <1>2, <1>4, <3>1, <3>3, <3>4, CalmNumbers, SilentKeepsCalm
  <2>2. CASE Tick
    <3>1. now' = now + 1 /\ UNCHANGED <<registry, pc, stepAt, seen, leaseVars>>
      BY <2>2 DEF Tick
    <3>2. now <= now' /\ \A m \in Node : Active(m)' <=> Active(m)
      BY <3>1, CalmNumbers DEF Active, InStep
    <3> QED BY <1>2, <1>4, <3>1, <3>2, SilentKeepsCalm
  <2> QED
    BY <1>2, <1>4, <2>1, <2>2, AnnounceKeepsCalm, ReadKeepsCalm, ConcludeKeepsCalm,
       WithdrawKeepsCalm DEF Progress
<1>5. CASE UNCHANGED failoverVars
  <2>1. /\ UNCHANGED <<registry, pc, stepAt, seen, leaseVars>>
        /\ now' = now /\ calmSince' = calmSince
    BY <1>5 DEF failoverVars, vars
  <2>2. now <= now' /\ \A m \in Node : Active(m)' <=> Active(m)
    BY <2>1, CalmNumbers DEF Active, InStep
  <2> QED BY <1>2, <2>1, <2>2, SilentKeepsCalm
<1> QED
  BY <1>3, <1>4, <1>5 DEF FailoverNext

\* The invariant of the calm holds of every reachable state.
THEOREM CalmInvariance ==
  ASSUME HoldsLast, RecordsOutliveSleeps
  PROVE  FailoverSpec => []CalmInv
<1>1. FailoverInit => CalmInv
  BY CalmInit
<1>2. CalmInv /\ [FailoverNext]_failoverVars => CalmInv'
  BY CalmStep
<1> QED
  BY <1>1, <1>2, PTL DEF FailoverSpec

-----------------------------------------------------------------------------
(* What the calm brings.                                                   *)

\* A node whose contact is late enough in the calm to tell of every other node
\* runs what the nodes that are up assign to it, once its notice is served.
LEMMA LateContactsConverge ==
  ASSUME CalmInv, NEW n \in Node, Contact(n),
         lastContact[n] > calmSince + Renew + StepMax,
         \A m \in Node : lastContact[n] > calmSince + MaxSkew + Ttl[m],
         lastContact[n] >= settledAt[n] + SettleFor(n)
  PROVE  owned[n] = AssignedTo(n, Up)
<1>1. members[n] \subseteq Node
  BY DEF CalmInv, LeaseInv, TypeOK
<1>2. \A m \in Node : m \in members[n] <=> Active(m)
  BY DEF CalmInv, MembershipsTell, Tells
<1>3. members[n] = Up
  BY <1>1, <1>2 DEF Up
<1> QED BY <1>3 DEF CalmInv, SettledRunAll

\* lease.rs:11-19: once nothing has started, stopped, died or lost the registry for
\* RecoverFor, each node runs exactly what the nodes that are up assign to it.
THEOREM CalmClustersConverge ==
  ASSUME HoldsLast, RecordsOutliveSleeps, SleepsTakeTime, ClocksAreClose
  PROVE  FailoverSpec => []ConvergesWhenCalm
<1>1. CalmInv => ConvergesWhenCalm
  <2> SUFFICES ASSUME CalmInv, \A m \in Node : CalmFor >= RecoverFor(m), NEW n \in Up
               PROVE  owned[n] = AssignedTo(n, Up)
    BY DEF ConvergesWhenCalm
  <2>1. n \in Node /\ Active(n)
    BY DEF Up
  <2>2. \A m \in Node : now >= calmSince + Ttl[m] + Guard + 2 * Renew + 2 * StepMax
    <3> SUFFICES ASSUME NEW m \in Node
                 PROVE  now >= calmSince + Ttl[m] + Guard + 2 * Renew + 2 * StepMax
      OBVIOUS
    <3>1. now - calmSince >= Ttl[m] + Guard + 2 * Renew + 2 * StepMax
      BY DEF CalmFor, RecoverFor, SettleFor
    <3> QED BY <3>1, CalmNumbers
  <2>3. Contact(n) /\ lastContact[n] >= now - Renew - 2 * StepMax
    BY <2>1, <2>2, CalmMeansContact, CalmNumbers DEF SleepsTakeTime
  <2>4. lastContact[n] > calmSince + Renew + StepMax
    BY <2>1, <2>2, <2>3, CalmNumbers DEF HoldsLast, RecordsOutliveSleeps
  <2>5. \A m \in Node : lastContact[n] > calmSince + MaxSkew + Ttl[m]
    <3> SUFFICES ASSUME NEW m \in Node PROVE lastContact[n] > calmSince + MaxSkew + Ttl[m]
      OBVIOUS
    <3>1. now >= calmSince + Ttl[m] + Guard + 2 * Renew + 2 * StepMax
      BY <2>2
    <3>2. lastContact[n] \in Int /\ Ttl[m] \in Nat
      BY <2>1, CalmNumbers
    <3> QED BY <2>3, <3>1, <3>2, CalmNumbers DEF ClocksAreClose
  <2>6. lastContact[n] >= settledAt[n] + SettleFor(n)
    <3>1. settledAt[n] <= calmSince + Renew
      BY <2>1, <2>3 DEF CalmInv, NoticeHasStarted
    <3> QED BY <3>1, <2>1, <2>2, <2>3, CalmNumbers DEF SettleFor
  <2> QED BY <2>1, <2>3, <2>4, <2>5, <2>6, LateContactsConverge
<1> QED
  BY <1>1, CalmInvariance, PTL

\* lease.rs:194-198: nodes that have served their notice take over what a dead node
\* ran within its ttl, the skew of the clocks, a sleep and two steps.
THEOREM SurvivorsDoTakeOver ==
  ASSUME HoldsLast, RecordsOutliveSleeps
  PROVE  FailoverSpec => []SurvivorsTakeOver
<1>1. CalmInv => SurvivorsTakeOver
  <2> SUFFICES ASSUME CalmInv, \A m \in Node : CalmFor >= FailOverFor(m),
                      \A m \in Up : ServedNotice(m), NEW n \in Up
               PROVE  owned[n] = AssignedTo(n, Up)
    BY DEF SurvivorsTakeOver
  <2>1. n \in Node /\ Active(n) /\ ServedNotice(n)
    BY DEF Up
  <2>2. \A m \in Node : now >= calmSince + Ttl[m] + MaxSkew + 1 + Renew + 2 * StepMax
    <3> SUFFICES ASSUME NEW m \in Node
                 PROVE  now >= calmSince + Ttl[m] + MaxSkew + 1 + Renew + 2 * StepMax
      OBVIOUS
    <3>1. now - calmSince >= Ttl[m] + MaxSkew + 1 + Renew + 2 * StepMax
      BY DEF CalmFor, FailOverFor
    <3> QED BY <3>1, CalmNumbers
  <2>3. Contact(n) /\ lastContact[n] >= now - Renew - 2 * StepMax
    BY <2>1, <2>2, CalmMeansContact, CalmNumbers
  <2>4. lastContact[n] > calmSince + Renew + StepMax
    BY <2>1, <2>2, <2>3, CalmNumbers DEF HoldsLast, RecordsOutliveSleeps
  <2>5. \A m \in Node : lastContact[n] > calmSince + MaxSkew + Ttl[m]
    <3> SUFFICES ASSUME NEW m \in Node PROVE lastContact[n] > calmSince + MaxSkew + Ttl[m]
      OBVIOUS
    <3>1. now >= calmSince + Ttl[m] + MaxSkew + 1 + Renew + 2 * StepMax
      BY <2>2
    <3>2. lastContact[n] \in Int /\ Ttl[m] \in Nat
      BY <2>1, CalmNumbers
    <3> QED BY <2>3, <3>1, <3>2, CalmNumbers
  <2>6. lastContact[n] >= settledAt[n] + SettleFor(n)
    BY <2>1, <2>3, CalmNumbers DEF ServedNotice
  <2> QED BY <2>1, <2>3, <2>4, <2>5, <2>6, LateContactsConverge
<1> QED
  BY <1>1, CalmInvariance, PTL

-----------------------------------------------------------------------------
(* The directory of the records.                                             *)

Leases == [Writers -> Nat]

FilesType ==
  /\ records \in Leases /\ writing \in Leases /\ announced \in Leases /\ standing \in Leases
  /\ staged \in [Writers -> Nat \cup {TornFile}]
  /\ scan \in [seen : SUBSET Writers, read : Leases, failed : BOOLEAN]

\* A file is torn only under its other name, and a process that has not died has
\* its own lease there.
WritersAreApart ==
  \A n \in Writers : writing[n] # NoFile =>
    writing[n] = announced[n] /\ staged[n] \in {TornFile, writing[n]}

\* Records are replaced by later ones.
RecordsGrow ==
  \A n \in Writers : standing[n] <= records[n] /\ records[n] <= announced[n]

UnvisitedIsUnread == \A n \in Writers \ scan.seen : scan.read[n] = NoFile

FilesInv == FilesType /\ WritersAreApart /\ RecordsGrow /\ UnvisitedIsUnread /\ ReadsMissNoMember

LEMMA FilesStart == FilesInit => FilesInv
  BY DEF FilesInit, FilesInv, FilesType, WritersAreApart, RecordsGrow, UnvisitedIsUnread,
         ReadsMissNoMember, Leases, NewScan, NoFile, TornFile

LEMMA FilesStep == FilesInv /\ [FilesNext]_files => FilesInv'
<1> SUFFICES ASSUME FilesInv, [FilesNext]_files PROVE FilesInv'
  OBVIOUS
<1> USE DEF FilesInv, FilesType, WritersAreApart, RecordsGrow, UnvisitedIsUnread,
            ReadsMissNoMember, Leases, NoFile, TornFile
<1>1. ASSUME NEW n \in Writers, OpenTmp(n) PROVE FilesInv'
  BY <1>1 DEF OpenTmp, BeginsLease
<1>2. ASSUME NEW n \in Writers, FillTmp(n) PROVE FilesInv'
  BY <1>2 DEF FillTmp
<1>3. ASSUME NEW n \in Writers, Rename(n) PROVE FilesInv'
  BY <1>3 DEF Rename
<1>4. ASSUME NEW n \in Writers, Die(n) PROVE FilesInv'
  BY <1>4 DEF Die
<1>5. ASSUME NEW n \in Writers, RemoveRecord(n) PROVE FilesInv'
  BY <1>5 DEF RemoveRecord
<1>6. CASE StartScan
  BY <1>6 DEF StartScan, NewScan
<1>7. ASSUME NEW n \in Writers, ReadEntry(n) PROVE FilesInv'
  BY <1>7 DEF ReadEntry, Entries
<1>8. CASE UNCHANGED files
  BY <1>8 DEF files
<1> QED BY <1>1, <1>2, <1>3, <1>4, <1>5, <1>6, <1>7, <1>8 DEF FilesNext

\* However many nodes announce, die and withdraw while the directory is read, the
\* read neither fails nor misses a node that stays, nor goes back behind its own
\* beginning (DirRegistry::announce, members).
THEOREM ReadsAreOfOneDirectory == FilesSpec => []ReadsMissNoMember
<1>1. FilesSpec => []FilesInv
  BY FilesStart, FilesStep, PTL DEF FilesSpec
<1>2. FilesInv => ReadsMissNoMember
  BY DEF FilesInv
<1> QED BY <1>1, <1>2, PTL
=============================================================================
