# Formal models of the market aggregator

TLA+ modules, TLC model-checking configurations and TLAPS proofs for the
market-data aggregator in `src/` (a Rust workspace of seven crates).  The
program reads order-book streams from three venues over websockets, keeps one
book per (venue, symbol) that it either trusts or says it does not, publishes
snapshots of the books, archives every event, and can be sharded over several
nodes that share nothing but a registry of lease records.

Paths below are relative to `src/crates/`.

## 1. The system

| Component | State | Operations | Talks to |
|---|---|---|---|
| **Lease** `ma-coord/src/lease.rs` | `LeaseState`: members, last contact, settling clock, owned streams | `Coordinator::run`, `step`, `reconcile`, `stand_down` | registry (announce, members, withdraw); watch channel to the supervisor |
| **Assignment** `ma-coord/src/assign.rs` | none | `owner`, `assigned_to` (rendezvous hashing) | called by the lease |
| **Registry** `ma-coord/src/registry.rs`, `s3.rs` | one record per node | `announce`, `members`, `withdraw` | a shared directory or an S3 prefix |
| **Supervisor** `ma-server/src/cluster.rs` | running streams, one task each | `reconcile`, `run` | watch channel from the lease; spawns ingest tasks; ingest channel |
| **Ingest** `ma-pipeline/src/ingest.rs` | one session per stream, backoff | `run`, `session`, `audit_loop`, `rest_snapshot` | venue socket and REST; ingest channel; resync signal |
| **Backoff** `ma-pipeline/src/backoff.rs` | attempt counter | `next_delay`, `note_session` | used by ingest and the gateway feed |
| **Channel** `ma-pipeline/src/channel.rs` | bounded queue, drop counter, closed flag, two wait sets | `send` (drop-oldest), `send_lossless`, `recv`, `close` | many producers, one aggregator |
| **Resync** `ma-pipeline/src/resync.rs` | one counter per stream | `request`, `requested` | aggregator to ingest |
| **Venue sync** `ma-venues/src/sync.rs`, `venues/*.rs` | sequence numbers, pending diffs, checksum state | `feed`, `reset` | called by the aggregator |
| **Book** `ma-core/src/book.rs` | levels and a trust state | apply snapshot/delta, checks | owned by the aggregator |
| **Audit** `ma-core/src/audit.rs` | streak and suspect prices | `audit`, `AuditTrail::observe` | REST bodies through the channel |
| **Aggregator** `ma-pipeline/src/aggregator.rs` | every book, windows, status clocks | `apply`, `snapshot`, `run` | channel, resync, event sink, broadcast |
| **Windows** `ma-core/src/window.rs`, `cross_windows.rs` | ring of buckets, trust coverage | `observe`, `observe_trade`, `read` | called by the aggregator |
| **Cross-venue view** `ma-core/src/cross.rs` | none | `consolidate` | aggregator, gateway |
| **Archive writer** `ma-persist/src/writer.rs` | open files, part numbers | `append`, `roll`, `finish` | unbounded event channel; object store |
| **Archive reader** `ma-persist/src/reader.rs` | one cursor per partition | `next_event` | object store; replay |
| **Tape** `ma-pipeline/src/tape.rs` | recorded messages | record, `replay` | channel (lossless when unpaced) |
| **Gateway** `ma-server/src/gateway/*.rs` | latest report of each node | `follow`, `merge` | nodes' SSE streams |
| **HTTP** `ma-server/src/http.rs`, **metrics** `ma-pipeline/src/metrics.rs` | none of their own | render | read-only |

### What is hard about it

* **Time and failure (lease).** Mutual exclusion of owners without consensus,
  from clock readings taken before awaits, against a registry whose calls fail,
  partly succeed, or skip records.
* **Two tasks per stream (recovery).** The aggregator detects that a book is
  broken, the ingest task can repair it, and between them lies a channel that
  drops the oldest message, a counter that coalesces requests, and venues that
  send a snapshot only once per session.
* **Asynchronous release (supervisor).** A stream is released by aborting a task
  that may be in the middle of sending.
* **Wakeups (channel).** A hand-written bounded channel on a mutex, atomics and
  two `Notify`s.
* **Partial failure (archive).** A put that fails after the file is already
  closed; two processes numbering the parts of one directory.

### What makes each component correct

* Lease: at most one owner per stream (`lease.rs:4-9`); once calm, every stream
  has its owner (`lease.rs:11-19`).
* Assignment: a function of the membership alone; losing a node moves only that
  node's streams.
* Supervisor: sockets follow ownership; a released stream's book is not live.
* Channel: every message is delivered, evicted and counted, or handed back;
  nobody sleeps while there is work; a close wakes everyone it must.
* Recovery: a book never looks live while it is wrong, as far as its venue lets
  it be known; and a book that is not live becomes live again.
* Audit: a single racing fetch never desyncs a book; two that agree do.
* Windows: coverage counts exactly the trusted time inside the window.
* Archive: every event is in exactly one stored file or counted as lost.
* Gateway: a stale node's books are excluded, duplicated streams are reported.

## 2. Modules

| Module | Models | Extends |
|---|---|---|
| `Assign` | rendezvous assignment | |
| `Lease` | the coordinators of a cluster over a shared registry, in real time | `Assign` |
| `Failover` | `Lease` with the time of the last disturbance and of the last slip, for what it promises over time | `Lease` |
| `LeaseProofs`, `SupervisorProofs`, `RecoveryProofs`, `StreamProofs`, `ChannelProofs`, `GatewayProofs`, `RecordingProofs`, `ArchiveProofs` | theorems, each about the module it is named after (`LeaseProofs` about `Failover` and `FileStore` too, `ArchiveProofs` about `ArchiveReader` too, `StreamProofs` about `DepthAudit` and `Views`) | that module |
| `Supervisor` | from the owned set to sockets: coordinator, supervisor, ingest tasks that are aborted, channel, books | |
| `Book` | one order book: its trust state, and what its levels reflect | |
| `VenueSync` | what each of the three venues' syncs makes of a frame, and `VenueBook` | `Book` |
| `Recovery` | ingest task, connection, channel, aggregator and resync of one stream | `VenueSync` |
| `DepthAudit` | the REST audit against a moving book, its trail, and the venue behind both | |
| `Channel` | the channel's locks, atomics and notifications, its producers, and the aggregator's loop | |
| `LossyQueue` | the abstract specification of `Channel`: a queue that evicts its oldest item | |
| `Windows` | the bucket ring of a stream's rolling windows | |
| `Views` | what the aggregator publishes of a stream: status, clocks, windows | `Windows` |
| `WindowHistory` | the abstract specification of `Views`: windows computed from the whole history | |
| `Cross` | the touch over the venues of a symbol | |
| `Gateway` | nodes that publish, followers that reconnect, the merge of their reports | `Cross` |
| `Session` | the ingest task in time: connect, select, timeouts, REST retries, reconnect schedule, stop | |
| `Recording` | the recorder behind a session: its lines, flushes, end and crash | `Session`, `Replay` |
| `Archive` | the archive writers of a cluster over one object store | |
| `ArchiveReader` | what the reader returns of what they stored | `Archive` |
| `CrossWindows`, `EventRows`, `Calendar`, `BookLevels`, `BookEvents`, `KrakenChecksum` | pure functions, as operators | |
| `Replay` | tape and archive replay as operators: lines, order of partitions, offsets, pauses | |
| `FileStore` | the directory of leases, system call by system call, under writers and a reader | |
| `Algorithms` | builds their inputs step by step and compares them with references; runs `FileStore` | all of these |
| `MCLease`, `MCRecovery`, `MCAudit`, `MCViews`, `MCGateway`, `MCArchive`, `MCAlgorithms` | constants and views for TLC, where a `.cfg` cannot say them | |

How they meet.  `Lease` publishes an owned set, and `Supervisor` takes any
sequence of owned sets and turns it into tasks.  `Channel` shows that the channel
keeps the order of each producer, counts what it evicts and loses no wakeup;
`Recovery` and `Supervisor` use it as an atomic queue that may evict the oldest
message, which is the `LossyQueue` that `Channel` is shown to implement.  `Recovery` follows one stream's book through `VenueSync` and leaves out
how long things take; `Session` has the same task's timers and leaves out the
book.  `Book` has the levels as a version, `BookLevels` and `BookEvents` have them
in full.  `Views` takes from the book only whether it is live, and its mid.

**Runs and properties.**  A run that passes checks the properties listed in its
section.  `Inv` (`AuditInv` in `DepthAudit`) of a module is its type invariant together with the safety
invariants that say that its own bookkeeping is right.

## 3. Lease

**State and actions.** The variables are the fields of `LeaseState`, one per
node, plus the registry and the control point of `Coordinator::run`.
`step` reads the clock, awaits `announce`, awaits `members`, and only then
decides; the model gives each await its own action (`BeginStep`, `Announce`,
`Read`, `Conclude`), so other nodes act and time passes in between.
`AnnounceFails` lets the write reach the registry or not.  `ReadFails` keeps the
renewed record and does not extend the hold, and `ReadSkips` leaves a record out of
what is read, where `SkipsUnreadable` allows it.  `Stop` and `Withdraw` are the
clean shutdown; `Crash` is a kill at any point, after which the record stays.
`Reconcile` is `LeaseState::reconcile`, with `StandDown` its first branch.

**Time.** `now` counts ticks.  A step takes at most `StepMax` (the code puts no
timeout on the registry calls; a step that takes longer is outside the model)
and a sleep exactly `Renew`.  `Offset[n]` is how far node n's wall clock is
ahead; only records are compared by wall clock, as in the code.

**What holds, and of which timings.** The argument in the module documentation of
`lease.rs` (42-80) needs more than the code checks: the hold is judged only when a
step runs, by the clock reading that step began with, so it outlives its deadline by
a step, a sleep and another step.  What is promised is therefore stated for the
timings that the program runs with, and the claim of the documentation separately.

* `HoldEndsSoon`, for any timings: while a node holds anything, its record has been
  visibly expired to no reader for longer than what the guard leaves uncovered of a
  sleep, two steps and the clock skew: less than
  `Renew + 2 * StepMax + MaxSkew - Guard`.
* `OverlapIsBrief`, when a joiner's notice outlasts the others' hold
  (`NoticeCoversHold`): two nodes run one stream only after a *slip*, and only within
  `ActsOnFor` (a hold, a sleep and two steps) of it.  A slip is what the argument of
  `lease.rs` excludes: a node goes on with a contact whose record some reader could
  see expired, or a read leaves a record out (which the S3 registry does, as the
  comment at `ma-coord/src/s3.rs:121` concedes).  The history variable `slipAt` is
  the time of the last one.  With one ttl, `NoticeCoversHold` is
  `2 * Guard >= Renew + 3 * StepMax`: the shipped 15 s, 3 s and 2 s meet it for round
  trips of up to a third of a second, and the ratios of `main.rs` (renewal ttl/5,
  guard ttl/7) for round trips of up to ttl/35.  Nodes whose ttls differ may not meet it.
* `AtMostOneOwner`, the claim of `lease.rs:6`, when nothing slips: when besides
  `GuardCoversOvershoot` holds (the guard covers the overshoot) and `ReadsAreComplete`.
  No timings in the repository meet the first, and the S3 registry does not promise
  the second; the run `lease_default_timings` shows two owners under the shipped ratios.

**Runs.**

| Run | Instance | Shows |
|---|---|---|
| `lease` | 2 nodes, 2 streams, ttl 4, renew 2, guard 1 (half a renewal, where the shipped guards are two thirds of one and more), instant round trips, clocks 1 apart, reads that may skip a record | `HoldEndsSoon`, `OverlapIsBrief`, the inductive invariant `IInv`; every stream has its assigned owner once calm for `RecoverFor` (`ConvergesWhenCalm`); settled survivors take over within `FailOverFor` (`SurvivorsTakeOver`) |
| `lease_default_timings` | ttl 5, renew 1, guard 1, round trips of up to 1: the ratios of `LeaseConfig::default` (15/3/2) and of `main.rs` (ttl/5, ttl/7), the guard rounded up | two owners: the deadline is judged once per step |

Known from the same model, without a run of their own: nodes of ttl 5 and 2 with
instant round trips give two owners, because a joiner settles by its own ttl
(`lease.rs:131-133`) while the holder holds by its own.

**Bounds.** Two nodes are enough for a double ownership: the property is about
pairs, and a third node only adds or removes candidates of `owner`.  One stream
prefers node `a` by weight; the other is a tie, decided by the node id.  In `lease` a
step takes no time, and its awaits interleave with the other node's; round trips
that take time are in `lease_default_timings` and in the proofs, whose `StepMax` is
any number.  Times are checked through a view (`CalmView` in `lease`, with the ages
of the calm and of the last slip; `RelativeView` without them): every guard
compares differences of times with constants, so states that differ only in `now`
are one state, and ages beyond the largest constant are one age.  The search
therefore covers runs of any length; `Horizon` is a bound on `now` that it does not
reach.

**Availability.** No fairness is assumed.  Time cannot pass a step's `StepMax` or
a sleep's `Renew`, so progress is forced by the clock, and "eventually" is stated
as a bound: once the cluster has been undisturbed for `RecoverFor`, ownership is
exactly the assignment among the nodes that are up.  `Disturbance` is what resets
the clock: a start, a stop, a crash, a failed registry call or a skipped record.  The bounds are
tight, as are those of `HoldEndsSoon` and `OverlapIsBrief`: each property fails with
its bound one tick shorter.  `lease.rs:198`
says that a dead node's streams move within the ttl; the bound that holds adds
the clock skew, a sleep and two round trips.

**Proofs.** `LeaseProofs` proves, for any sets of nodes and streams: `TypeCorrect`,
`HoldsEndSoon` (`HoldEndsSoon`) and `Invariance` (`IInv`) for any timings;
`HoldersKnowEachOther` and `OverlapsAreBrief` (`OverlapIsBrief`) for timings with
`NoticeCoversHold`, skipped records included; and, as a corollary under all three
conditions above, `NoTwoOwners` (`AtMostOneOwner`): nothing slips then.
None of these is inductive.  `IInv` adds what the paper argument in `lease.rs`
leaves implicit: a node with a contact has a record at least as recent as that
contact and will look again within a hold, a step and a sleep (`ContactIsBacked`,
with `StepsAreTimely`, `DownForgets` and `AnnouncedIsRecorded`); what it holds is
assigned to it by the membership it last read, after a served notice
(`HoldingIsSettled`); `slipAt` is up to date (`SlipsAreNoted`); and a node missing
from a membership that was read made its first contact no earlier than that read,
give or take a step, unless there was a slip since (`UnseenIsNewer`).  From these,
two holders are in each other's membership unless there was a slip since one of
them read (`HoldersSeeEachOther`); two nodes that see each other are never assigned
one stream, because `Beats` is asymmetric; and a membership is acted on for no
longer than `ActsOnFor`.

The same module proves the availability: `CalmClustersConverge`
(`ConvergesWhenCalm`) and `SurvivorsDoTakeOver` (`SurvivorsTakeOver`), for
timings with a hold at all (`HoldsLast`) and records that outlive a sleep
(`RecordsOutliveSleeps`) and, for the convergence, sleeps that take time
(`SleepsTakeTime`) and clocks that agree to within the guard and a sleep
(`ClocksAreClose`).  The shipped timings meet all of these.  Their invariant `CalmInv` (`CalmInvariance`) tells
from how long into the calm a node began its step what it must know by then: it
concluded the step before (`FreshContact`); no record is valid longer than its
ttl, and a dead node's was written before the calm (`RecordsArePast`); so what was
read late enough has every node that is up and no other (`MembershipsTell`);
a notice starts no later than a sleep into the calm (`NoticeHasStarted`); and a node
whose notice was served when it last concluded runs what it was assigned
(`SettledRunAll`).  The bounds that TLC finds to be tight are the ones the proof
adds up.

**Not modelled.** A write that the SDK reports as failed and that lands much
later, over a newer record.  Record names that collide: `record_name`
(`registry.rs:63`) maps `a.b` and `a_b` to one file, and two such nodes overwrite
each other's record, although no node is said to write another's key.  That a
read of the directory is one step in `Lease` is justified by `ReadsMissNoMember`
(section 10): a directory that is listed and read while its records are renamed
into place misses no node and returns nothing older than its start.
`ReadsAreOfOneDirectory`, in `LeaseProofs`, proves it for any number of nodes and
leases.  Its invariant `FilesInv` adds that a file is torn only under its temporary
name, where a process that lives has its own lease (`WritersAreApart`), and that a
record is only replaced by a later one (`RecordsGrow`).
(`registry.rs:91-94` says that a torn record "would be skipped"; the code fails
the whole read, which is the safer of the two.)

## 4. Supervisor

**State and actions.** The watch (`owned`, `changed`) between coordinator and
supervisor, `Supervisor::run` and `reconcile` by their awaits (`pc`), the map of
running streams, a task per stream with its session, and the tasks that were
aborted and have not reached an await (`ghosts`): such a task may still queue
the frame it is handling, after the `SessionEnded` that the supervisor queued for
it.  The channel evicts its oldest message.  `stopping` is the process-wide
shutdown, heard by coordinator and supervisor in either order.

**Instance.** Two streams, so that a pass can take one and give the other; three
changes of ownership, so that a stream is owned, lost and owned again while its
ghost lives; two sessions; a channel of two.

**Shown.** `LiveBookIsFed`: a live book is fed by the open connection, or its end
is in the channel; what can break it is an evicted end or a ghost's frame
after it, and nothing else.  `SocketsFollowOwnership` for every sequence of
owned sets, `StopClosesEverything`, and in `Inv` that a pass lets go before it takes
on (`PeakIsBounded`).  It counts connections (`Held`), those of aborted tasks that are
not yet dropped included: until the pass starts anything it holds no more than it
began with (`carried`), and afterwards what it holds beyond the streams it is to run
are aborted tasks only.  `cluster.rs:98-101` claims more, that the peak is "what the
node was already carrying": until the aborted tasks are dropped, they and the new
ones may together exceed that, as `reconcile` does not wait for them.  Fairness:
the coordinator, the supervisor, the aggregator and aborted tasks are polled.

**Proofs.** `SupervisorProofs` proves `Inv` (`PeakStaysBounded`) and
`LiveBookIsFed` (`NoBookIsLeftLive`), for any finite set of streams and any
capacity.  `LiveBookIsFed` is silent about the frames still in the channel, each of
which makes a book live when it is applied; `FramesAreFollowed` says of every
one that its connection is open or its end follows it.  `PeakIsBounded` needs
`PassIsOrdered`: until the release pass is over nothing was added, and
after it nothing runs that is not wanted.

A task that returned or panicked stays in the map (`cluster.rs:127`); no path of
`Ingest::run` returns while the stream is owned, so the model has none either.

## 5. Recovery

**State.** A venue's book goes through versions; the update to version k changes
version k - 1.  The price levels of `Book` are abstracted to `at`, the version
they should be at, and `hole`, whether an update on the way there is missing.  A
book crosses only through a hole, and whether it does depends on prices, so it is
a choice (`crosses`).  `VenueSync` gives each venue its own `Feed`: Coinbase's
`expected_seq`, Kraken's checksum, Bitstamp's buffered diffs and splice.
`Recovery` adds the connection (`wire`, `sent`, the REST fetch), the ingest
task's `pc`, the channel and the resync request (`wanted`, the watch counter of
`resync.rs` as whether a request is unheard).

**Actions.** `Connect`, `SessionBreaks`, `HearResync`, `RestLands`, `Receive` and
`BackoffEnds` are the branches of `IngestTask::run` and `session`; the guards
`~wanted` are the bias of its `select!`.  `Apply` is `Aggregator::apply` on the
oldest message: the feed or the reset, and the resync it may request.
`VenueUpdates`, `VenueChatters`, `SubscriptionTakesEffect` and `RestAnswered` are
the venue, external to the code.  The channel is shared by all streams, so
`EvictedByOthers` may drop the oldest message of this one at any time.

**Abstractions.** One stream.  Every update is within the depth of Kraken's
checksum, as the subscription is of that depth (ten levels).  REST bodies parse.  Not in the model: the REST audit, shutdown,
ownership, and the length of the pauses; `DepthAudit`, `Supervisor` and `Session`
have these.

**Runs.** `recovery` explores the three venues, a channel and a wire of two
messages, three versions, and one each of a broken connection, a lagging
subscription, a lost update, a garbled frame and a chatter frame, with two
evictions.  Two evictions are what it takes to mislead Coinbase (the end of a
session and the snapshot of the next); three versions allow a hole with a
version on each side of it.  `TrustMatchesIntegrity` states, venue by venue,
exactly what has to go wrong before a live book is wrong.  `NoFalseAlarm` is its
converse.  `FixUnderWay` and `Recovers` say that a book that is not live has its
repair under way, and becomes live.  Deadlock is not checked: versions and
mishaps are bounded, and a quiet venue leaves nothing to do.

`recovery_stuck` shows a claim that the code does not meet, that somebody is
fixing a desynced book: when the opening snapshot, or a resync's, is evicted,
nothing asks again.  In the same way a book stays live through an outage when the
`SessionEnded` is evicted (`ingest.rs:303-307`), which is why `OutageIsTold`, in
`Inv`, assumes that nothing is.

Known from the same model, without a run of their own: Bitstamp's splice may
cross the book while it is `AwaitingSnapshot`, and a book that goes from desynced
to desynced asks for no resync (`aggregator.rs:698`); a Coinbase frame whose
events do not parse still consumes its sequence number, so the book stays live
with a hole; a Coinbase session whose `SessionEnded` and snapshot were both
evicted may continue the old numbering; a Bitstamp subscription that takes
effect after the REST answer leaves a hole that nothing notices.

**Fairness.** Weak fairness of the tasks' steps: both are tokio tasks that are
polled whenever they can proceed.  Connecting and fetching succeed in the end,
because what can fail is bounded by the budget; without that, nothing could be
promised.  The venue's own updates are not fair.

**Proofs.** `RecoveryProofs` proves `Inv` (`OutagesAreTold`),
`TrustMatchesIntegrity` (`LiveBooksAreTrue`), `NoFalseAlarm`
(`NoBookIsBlamedInVain`) and `FixUnderWay` (`AFixIsUnderWay`), for every capacity,
number of frames and versions, and budget of mishaps.  All four are about what the
book will be fed, so the invariant is about one sequence, `Flight`: the channel,
then the wire, then the update the venue would send next.  Its session ends cut
it; within a session sequence numbers rise (without a gap unless the network skips
one) and each update applies to the version the one before it brought
(`ChainsHold`).  The head of the sequence is tied to the book, venue by venue:
Kraken's checksum leaves no hole (`KrakenIsVerified`), Coinbase's next frame has
the expected number only if it continues the book (`CoinbaseIsChecked`), and at
Bitstamp (`Sound`) the buffered diffs are a run that the next one extends, a
REST answer not yet applied is reached by them, and there is one answer a session.
An eviction drops the head, a connection adds a session at the other end, and no
step changes the middle, which is why the argument does not depend on the lengths.

**The audit.** `DepthAudit` has the venue's depth, the book, the updates on the
wire between them, one of which may be lost, and a REST fetch that shows the
venue's depth of one moment and is compared with the book at another.  The compared
windows (`Overlap`), the guard band, the cap of findings and `AuditTrail::observe` are
`audit.rs`; `Reset` is a new session.  History: `baseless`, findings that neither
a lost update nor one that raced the fetch explains, and `verdicts`, the findings
of the last conclusive audits.  Three bids and two asks, from a deep opening
(windows shorter than the book) and a shallow one (the loss of its best bid leaves
nothing to compare on that side).  Shown: findings have causes (`AuditInv`), the book
is convicted only on one price wrong in `Consecutive` audits in a row, and always
then when that is two, as it is by default (`ConvictedByTheSamePrice`), and damage that the audit can see does not last
(`DamageDoesNotLast`, under fairness of delivery and of the audit loop).

`consecutive_before_desync = 1` is documented to act on a single finding; the
trail needs a price to be suspect already, so one audit never convicts.
A policy of three may miss a price that was wrong three times: with findings of
{1}, {1, 2}, {2}, {2} the third audit finds nothing in common with a suspect set
that had shrunk to {1}, starts the streak over and forgets that 2 was wrong before.
`RestAudit.policy` (`endpoint.rs`) is read by nothing.

`StreamProofs` proves `AuditInv` (`NoFindingInVain`) and `ConvictedByTheSamePrice`
(`ConvictionsHaveEvidence`) for any finite set of prices, any guard band, window,
cap and policy.  The first rests on `RestIsTrue`, that the answer
agrees with the venue at every price that did not move while it was under way, and
on the lemma `WindowsAreWhole`: within the compared range neither side was cut off,
so a price that is on one side only is really missing on the other.  The
second rests on `TrailIsEvidence`: the suspects were wrong in each of the last
audits, as many as the streak counts.

**The session in time.** `Session` is `Ingest::run` and `session` with their
timers, each kept as the time since it was armed, and the reconnect schedule of
`backoff.rs`.
`Recording` adds the recorder of `bin/record.rs`: the tee, the buffered lines,
the flush, the end of a recording (`LastRecv`, the last `try_recv`, and then
`Finish`, the last flush and the exit, with the task still running in between) and a
crash at any point; `Replay` is what a replay makes of the file.  `run` chooses at first whether the task is recorded.

The run `recording`: pauses of 1..2, 2..4, then 2..5, an idle timeout of 3, five
attempts (two with a recorder, which multiplies the states) and three frames with
a flush every two.  Shown: `AttemptRateIsBounded`, at most three attempts in
five units however sessions end; `SilenceIsNoticed`; `StopIsObeyed`; and in `Inv`
that a tape has a boundary between any two sessions (`SessionsAreParted`), no hole
(`TapeIsWhole`), and loses less than a flush's worth in a crash
(`CrashCostsLittle`).  Fairness: the task and the recorder are polled, and time
passes; of the network nothing is assumed.  Time waits for a timer that is due,
which takes the scheduler to be prompt.

`RecordingProofs` proves `Inv` (`TapesAreWorthKeeping`) and `SilenceIsNoticed`
(`SilentConnectionsEnd`) for any timings, schedule of pauses and rhythm of flushing.
The tape's properties are about the file, which trails the task by a buffer and
a channel; the invariant is about the three in a row, `OnTape`: it is numbered
without a gap up to what the task had (`TapeIsExact`), and the frames of a session
that is over are followed by its end (`EndsAreMarked`).  `RecorderFollows` says
when the recorder may give the task up, and `FlushIsNear` that it counts the
frames it has not flushed.  Every cut of `OnTape` is a good tape, which covers the
crash.  That `Ceiling` is defined, and so that a schedule has
pauses at all, is proved by its least counterexample.

It also proves `AttemptRateIsBounded` (`VenuesAreNotStormed`), for every schedule
that has been chosen for it.  `LeastTime` is the least time in which n attempts can
follow one, by where the schedule stands: each after the shortest pause, or after
a session of `MinStable` and the shortest pause of all.  `ScheduleAssumption`,
which TLC evaluates for the run's numbers, says that `MostAttempts` more take at
least a `Window`; it speaks of arithmetic only, and not of sessions.  The invariant
`AttemptsAreSpaced` is that the age of every attempt in the window, and the least
time the rest would take from the present point of the pause or of the session, add
up to a `Window`.  It holds whether a session fails, is closed by the venue, idles
out or is ended by a resync, since all of them pass through `Retry`; a session pays
with its own time for starting the schedule again.  With the defaults of the code
(500 ms, 60 s and a stable session of 30 s, `backoff.rs:161-165`), the same
recursion gives at most 12 attempts in a minute and 84 in ten.

What the model showed about the code: the clock that decides whether a session was
stable starts before the connect, which has no timeout, so a failed connect that
hangs for `min_stable` resets the schedule (`ingest.rs:296-298`); a hanging
connect is deaf to a shutdown; a resync requested between two sessions costs the
next, fresh connection; the REST answer re-arms the idle timeout, so silence is
noticed after twice as long (`ingest.rs:387`); `SessionEnd::Downstream` cannot
happen, as the task holds a sender; the tape is flushed every 256 frames, not per
second; the recorder reads its `start` after it spawned the task, so early frames
are filed at offset 0; a connect that outlasts its grace and fails during the last
flush publishes an end that is in no tape; and a tape cut off inside its last line replays to
its last whole line and then fails.

## 6. Channel

**State and actions.** One action per lock, atomic or notification of
`channel.rs`.  `StartSend`, `Push`, `Notify` and `CountEviction` are
`Sender::send`; `SubscribeToSpace`, `LookForRoom` and `WokenBySpace` precede them
in `send_lossless`; `DropSender`, `Close` and `WakeReceiver` are `Drop`.
`TakeItem`, `FindNothing`, `CheckClosed`, `SubscribeToNotify`, `AwaitNotify` and
`WokenByNotify` are `recv` and `try_recv`, told apart by the control point `loop`
of `Aggregator::run`, and `SelectShutdown`, `SelectTick`, `SelectReceive` its
biased `select!`.  `TellSpace` is the `notify_waiters` of `pop`.  The permit and
the states of a `Notified` follow tokio's documentation, dropping included.

**Abstract specification and refinement.** `LossyQueue` sends, evicts and receives
in single steps.  `IsLossyQueue` is `Queue!Spec` with what the aggregator applied
as `received`, and as `lost` the items sent that are neither applied nor queued:
`Push` is a send, with or without an eviction, `TakeItem` a receipt, the end of
the loop `Stop`, and every other step a stutter.  Its fairness is part of what is
implemented: what is queued is received in the end while the aggregator's loop
runs, so the notifications and the tick must together never leave it asleep.

**Instance.** Live, two producers race; in a replay one producer waits for room.
Capacity 2 and three items each: a full channel, an eviction, and a send after
it.  The real capacity is 1024; nothing in the code depends on it but the
comparison with the length.  Deadlock is checked; `Finished` is the end.

**Shown.** `EveryItemIsAccountedFor` relates what each producer sent with what
was applied, is queued and was counted, and `OrderIsKept` is what a venue's
sequence rests on (both in `Inv`); `IsLossyQueue` is the promise to the rest of the
system; `NoLostWakeup` must hold without the tick, which would hide a lost
wakeup for 100 ms; `CloseDrains`, `ReplayEvictsNothing` and `ReplayEnds` are what
a replay rests on.  Fairness: tasks that can proceed do, the tick comes, and a
headless replay's main goes on when the replay returns.

**Proofs.** `ChannelProofs` proves `Inv` (`NothingVanishes`), `NoLostWakeup`
(`NoWakeupIsLost`), `CloseDrains` (`CloseLeavesNothing`) and, of the refinement,
that every step is a step of `LossyQueue` or a stutter (`ImplementsLossyQueue`),
for any capacity, any finite set of producers and any number of items.
`NoLostWakeup` is not inductive, because the loop looks at the queue, then at the
flag, then waits: `NewsIsOnItsWay` says at each of these points what was seen, and
that whatever came since is announced or about to be, and `ReceiverIsWhereItWaits`
ties the `Notified` to the control point.  `EveryItemIsAccountedFor` needs
`HandlesAreCounted` (only the last holder closes) and `ReplayIsAlone` (no other
producer takes the room a replay has seen).  The fairness of `LossyQueue` and
`ReplayEnds` stay with TLC.

Known from the same model: at the end of a headless replay the trigger is
dropped with the channel, and the biased `select!` prefers it to the queue, so the
end of the tape may never be applied (`aggregator.rs:600`).  The evicted message
may be a `SessionEnded` (`channel.rs:163`); sections 4 and 5 say what follows.

## 7. Windows and views

**State and actions.** `Windows` is the ring of `window.rs`: buckets by index
modulo the length of the ring, `charge` with its skip over what no window can
still cover, `observe`, `observe_trade` and `read`.  `Views` is the aggregator
around it for one stream: messages are stamped when received, wait in the
channel, and are applied (`Apply`) later, possibly after a snapshot (`Snapshot`)
that already accounted for the time they are about; the supervisor's messages
may be stamped out of order by `Skew`; and the process is suspended once for
longer than the ring.

**Abstract specification and refinement.** `WindowHistory` keeps every sample,
every print and, for each tick, whether the book was trusted, and computes a
reading from the part a window covers.  `RingKeepsTheHistory` is
`History!Spec` under `INSTANCE WindowHistory WITH` the obvious mapping: every
behaviour of the ring, snapshots included, is one of the history.  What is hard
about it is what the ring forgets: it must be what no window covers.

**Instance.** Buckets of two ticks, windows of two and three ticks, eight ticks,
three messages of every kind, one of them waiting at most two ticks, a suspension
of six, which is longer than the ring.  Deadlock is not checked: the clock ends.

**Shown.** `RingKeepsTheHistory`; `AccountsAgree`, that the desynced time kept by
stamps and the one kept by windows differ by the waits of the messages and no
more; and in `Inv` that coverage follows the status.

**Proofs.** `StreamProofs` proves `Inv` (`ViewsAreInvariant`), `AccountsAgree`
(`AccountsNeverDisagree`) and the refinement (`RingImplementsHistory`), for any
resolution and spans, any contents of messages and any length of a run.  The
invariant `ViewsIInv` has three parts.

* `StreamInv` is about the messages and the two accounts.  What was applied has
  been charged (`AppliedIsCharged`), what waits is recent and in order up to
  `Skew` (`QueueIsRecent`), the status that is held is the one of all ticks since
  it began and a wait (`StatusIsOld`), and the accounts differ by at most
  `MaxDelay` for each end of a desynced stretch (`ErrorIsBounded`).  The last is
  stated up to the tick that was charged, since only there it is inductive.
* `RingInv` says that the ring is true.  The slot of a bucket that can still be
  read, or written by a late message, either holds that bucket, and then its
  samples, sum, first, last, high, low, prints and untrusted time are those of the
  history within the bucket's interval (`BucketIs`), or it holds another, and then
  nothing is known of the interval and it is not yet charged (`SlotIsTrue`).
  `charge` is what makes this hard: it grows up to a ring of buckets at once, and
  skips what no window covers after a stall (`ChargeKeeps`).
* The coverage a snapshot published is carried along as it is.

A reading adds up buckets, and the history's counts the parts; that they are the
same is `ReadSpanIs`, one lemma for each figure.  The sums are recursive functions, so
`CountsAdd` and `SumsAdd` (things counted bucket by bucket are counted) go by the
least counterexample.  The first sample of a window is the first of its oldest
bucket with one, and the first to come within it, which is why `WindowHistory`
orders samples by bucket before arrival.

`DelayAssumption` is what the proof needs beyond types, and TLC evaluates it for
the run: a message waits shorter than the longest window lasts.  The code counts on
it and enforces it nowhere.  A message that waits longer, behind a snapshot that
accounted for it, is recorded into a slot that was reused and resets it: the window
then claims more trusted time than there was.

What the proof showed about the code.  The desynced total may exceed the time since
the start: the end of a session is stamped before it is queued, so the stretch of
a second desync may begin before the first was over, and the overlap is counted
twice, by up to `Skew` each time.  And the total may decrease from one snapshot to
the next (`aggregator.rs:385`), though it is published as a counter.

## 8. Gateway

**State and actions.** Nodes own streams, publish every tick (`Tick`), lose trust
in books, hand streams over, crash and restart.  Each node's `/events` handler has
a ring of snapshots for its client: one that falls behind skips to the oldest
(`Oldest`).  Each follower connects, reads a session and reconnects
(`gateway/feed.rs`), and keeps what it heard last.  `Included`, `Claims`, `Winner`,
`Duplicated` and `Touch` are `merge` and its helpers; the merge keeps no state, so
it is a function evaluated in every state, whenever the ticker fires.

**Instance.** Two nodes, one stream, a ring of two, ages up to one tick past their
limits, two disturbances of any kind (a book desynced, a stream released, a crash,
a lost connection, a snapshot that cannot be parsed).  Ages are kept relative and
saturate, so time has no end and `NodesComeBack` is about behaviours of any
length.  `Capacity` stands for the ring and for what sockets buffer.

**Shown.** `LegsAreRecent`: a leg of the touch was live when its node last spoke
and is as old as the two limits and the ring add up to; `NodesComeBack`, under
fairness of time, restarts, connecting and reading; and in `Inv`, that only the
owner, or a node that was it not long ago, claims a stream.

**Proofs.** `GatewayProofs` proves `Inv` (`OnlyOwnersAreMerged`) for any nodes,
venues, limits and capacity, with `FormerOwnersFade`: a snapshot that shows a
stream of a former owner is as many places from the end of its ring as there were
ticks since the stream moved, and a report of one is at least as old.
`OnlyOwnersClaim` bounds the handover by `MaxNodeAge + Capacity`.
`MergedLegsAreRecent` proves `LegsAreRecent`: a leg of the touch of the first k
places is that of a usable quote among them (`LegsStand`), the quote of a place is
its winner's (`WinnerClaims`), and the merge ages it by the lag of the report.
`Touches` is a recursive function over the places, as the code's loop is; that
its values exist, and what holds of all of them, follows from a least
counterexample (`LeastOf`).

What the sources say and the model does not show: a book of no age (never
initialised) is given the report's lag as its age and so is the freshest
claim of a doubly owned stream (`gateway/mod.rs:418-422`), against "older, never
younger" (`mod.rs:44-46`) and "stable rather than flapping"; during a
handover two claims are normal and not "direct evidence" of two owners
(`mod.rs:64-66`); the feed's reads have no timeout, so a half-open connection is
never replaced; `RecvError::Closed` is not reached (`http.rs:124-126`); and
`dropped` is charged to the sender's stream, so "applied = frames - dropped" does
not hold per stream.

## 9. Archive

**State and actions.** `EventWriter` of each node: its open files by symbol, its
part numbers by directory, its counters; the object store as a function of keys;
and `log`, the events in the order they were sent, an event being its place in
it.  `EventWriter::append` is four actions by how it ends: `AppendToOpenFile`,
`AppendToNewFile` (the old file, if any, rolled first), `FailToRoll` (the upload
fails after the file was taken out of the map, and the event goes with it) and
`FailToList`.  An upload that is reported failed, there or in `Close`, may have
landed: `Store::put` may err after the object was written.  `Close` tries every file; `Crash` is a kill, or a close that takes
longer than the 30 seconds `main.rs` allows; `Start` is a new process, which
knows no part numbers.  `ClockSteps` sets a wall clock back, and `Move` hands a
stream to another node.  `ArchiveReader` defines what `EventReader` returns: a
place is a file and a row of it, a cursor is what is left of a partition (each
node's files of a symbol) in key order, and a call of `next_event` takes the head
with the earliest wall clock.  Names of partitions differ, so `Rank`, their
order in the listing, is injective.

**Assumed.** A node has a prefix of its own and one process at a time writes
under it; two would choose the same part number and one would overwrite the
other's file.  The default prefix is the same for every node
(`main.rs:96`), so this is up to the operator.  A handover takes longer than an
event's way to the writer.  An upload that lands after it was reported failed does
so before a restarted process lists the directory; one that lands later could meet
a part of the same number.

**Instance.** Two nodes and two venues' streams of one symbol, so that two
streams share a file and one of them can move.  Three events, hours of three
ticks, files of two, and each mishap once: enough for a roll by the hour, one by
age, and a restart into the hour of a stored file.  The properties relate two
files, or a file and the process that wrote it; each takes one mishap to break,
as the mutants show.  Deadlock is not checked: time and events are bounded.

**Shown.** `NothingIsOverwritten`, whatever fails in between; `ReadsInOrder`,
that a book is replayed in its own order while clocks agree; and in `Inv`,
`LossIsCounted` and `ArchivedOnce`.  `rows_written` counts no row that is not
stored; it counts all that are, and nothing is missing, as long as no failure is
counted.  After a failure it may be less than what is stored, when the upload landed
all the same.  A failure is counted once however many rows it cost, so the counter
says that history may have a hole, not how large it is.

**Proofs.** `ArchiveProofs` proves `Inv` (`EventsAreAccountedFor`) and
`NothingIsOverwritten` (`NoFileIsWrittenTwice`) for any nodes, streams and symbols,
any clocks and any number of mishaps.  The second rests on `PartsAreAhead`: a
number a process remembers for a directory is above every stored part of it and
above the file it has open there, which a listing establishes when the process
knows none; so the name of an open file is never taken (`NamesAreFree`).  The
account rests on an open file holding events of its own process only
(`RowsAreEvents`), each in one place (`BufferedOnce`), so that a file whose upload
succeeded adds its length to both sides of `RowsAreCounted`, and one that landed
without, to the stored rows only.

`ReadsInOrder` (`BooksAreFedInOrder`) holds of any archive, over any history of
restarts, failures and handovers.  Its invariant `OrderInv` has two halves.
`LogInv` is about the log: the events of a stream are stamped in the order they were
sent, and, since a handover takes longer than an event's way, everything logged
up to the last event of the old owner is older than the new owner's first
(`OwnersComeLater`, `HandoversAreClean`).  `FileInv` is about each node's files: a
file holds the events of one hour, its rows are in the order of the log, so are the
parts of an hour, and the open file comes after them.  Key order in a partition is
then log order as long as hours follow clocks; and of two partitions that hold
a stream, the head of the older owner's is the earlier, so no head can overtake an
older event of its own stream that is still behind another head
(`FirstReadIsFirstLogged`, `NextIsOldest`).  The hypothesis `ClocksAgree` is needed
for both: see below.

Known from the same model: a stream that moved is in two partitions, and the clocks
of two machines order its events (`reader.rs:245`, though "no book's own input is
touched" by a merge); and only an event of its symbol closes a file
(`writer.rs:270`), so the file of a symbol that fell silent or moved away stays
open past `max_open` until the process ends.

A wall clock set back over an hour does the same within one node: the later
events are filed under the earlier hour, and keys are read in order
(`writer.rs:10-14` and `reader.rs:61-64` say that nothing is reordered).

## 10. Algorithms

Each pure function is an operator in a module of its own, and the directory of
leases a small state machine (`FileStore`); `Algorithms` picks a
topic and builds an input to it step by step, as its program would come by it, so
that TLC reaches every input up to a bound.  `Next` is one action per way of
extending an input; there is no fairness and no deadlock check (inputs end).

| Property | Part | Compared with |
|---|---|---|
| `VenuesMakeOneView` | `TouchIsTheBest` (`Cross`) | the best quote among the eligible, and its worst qualification |
| | `MergedIsTheWhole` (`CrossWindows`) | the reading of all samples and prints together |
| `RecordIsFaithful` | `RowsComeBack` (`EventRows`) | the events that were flattened, wherever batches are cut |
| | `DatesAreTheCalendar` (`Calendar`) | the calendar counted day by day from 1896 to 2104 |
| | `ReplayedBookIsTheLiveOne` (`BookEvents`) | the live book, through lost sessions, bad events and checksums, from any start of the record |
| `ReplayKeepsTime` | `ArchiveKeepsItsSpacing` (`Replay`) | the recorded spacing of merged writers and the work of sending, through a restart or a clock that was set back |
| | `RealtimeCatchesUp`, `ReplayClockKeepsUp` (`Replay`) | deadlines from one origin, and ages of the market at any speed |
| `HashedAsByTheVenue` | `HeldIsWhatIsPublished` (`BookLevels`) | the venue's own depth-limited book |
| | `DigitsAreThoseSent` (`KrakenChecksum`) | the digits of the message, in the venue's order |
| `ReadsMissNoMember` | `FileStore` | a directory that nodes rewrite, leave and crash over while it is read |

**Bounds.** Three venues with two prices, four samples and prints, three events of
every kind over files cut at every batch length, 76000 days, books of depth two
under five prices, tapes of four messages, archives of four events in three
partitions of two nodes with one restart or one clock set back (by 6, which is more
than a gap of 4), gaps that the work of sending exceeds and gaps that it does not,
two nodes of three leases.  Every branch of the functions is taken within them; the
mutants break each part.  CRC32 is taken to tell all inputs apart, and
a price keeps one spelling while it is in the book (the map keeps the old key's).

**What the model showed.** A replayed book stays live through an outage, since the
end of a session is no event, and a checksum that was recorded while the live book
was not live can fail in the replay, so the converse of "live there, live here" is
false.  The merged vwap is not exact, as `cross_windows.rs` says of the mean only.

The archive's replay does not pace "by the tape's rules exactly"
(`archive.rs:49-50`).  The tape sleeps until a deadline from one origin; the archive
sleeps each gap in full after the event before it was sent, so the work of sending
accumulates, which `tape.rs:438-452` describes as the bug that deadlines avoid.
Asked for the tape's rule of an archive, TLC finds this at once; what
`ArchiveKeepsItsSpacing` says is therefore that the sleeps alone, without the work,
add up to the recorded spacing.  Nor is its clock "clamped monotonic"
(`archive.rs:86-87`), or without a second origin (`archive.rs:87-89`): with a single
prefix the offsets are the writer's own and start again with a restart, so the
downtime is skipped and the stamps go back; with several, a wall clock that was set
back makes stamps go back, and costs each partition that node writes at most one
more sleep of as much.

## 11. Plan

Done: the cores of the plan (`Supervisor`, `DepthAudit`, `Windows` with its
refinement, `Gateway`, the reconnect schedule in `Session`), recording, and the pure
functions.

Proved since: every safety invariant of `Supervisor`, `Recovery`, `DepthAudit`,
`Channel` with its refinement, `Views` with its refinement, `Gateway`, `Recording`
and `Archive`, the order in which the archive is read, the availability of the
lease, and that a read of its directory may be taken as one step.

An abstract specification still worth stating: a register of owners that `Lease`
implements between slips.

## 12. What is proved and what is only checked

TLAPS proves, for every value of the constants that meets the named assumptions:

| Module | Theorems | Argument |
|---|---|---|
| `LeaseProofs` | `TypeCorrect`, `HoldsEndSoon`, `Invariance`, `HoldersKnowEachOther`, `OverlapsAreBrief`, `NoTwoOwners`, `CalmInvariance`, `CalmClustersConverge`, `SurvivorsDoTakeOver`, `ReadsAreOfOneDirectory` | section 3 |
| `SupervisorProofs` | `Invariance`, `PeakStaysBounded`, `NoBookIsLeftLive` | section 4 |
| `RecoveryProofs` | `Invariance`, `OutagesAreTold`, `LiveBooksAreTrue`, `NoBookIsBlamedInVain`, `AFixIsUnderWay` | section 5 |
| `StreamProofs` | `Invariance`, `NoFindingInVain`, `ConvictionsHaveEvidence` | section 5 |
| | `ViewsAreInvariant`, `AccountsNeverDisagree`, `RingImplementsHistory` | section 7 |
| `RecordingProofs` | `Invariance`, `TapesAreWorthKeeping`, `SilentConnectionsEnd`, `SpacingInvariance`, `VenuesAreNotStormed` | section 5 |
| `ChannelProofs` | `Invariance`, `NothingVanishes`, `NoWakeupIsLost`, `CloseLeavesNothing`, `ImplementsLossyQueue` | section 6 |
| `GatewayProofs` | `Invariance`, `OnlyOwnersAreMerged`, `MergedLegsAreRecent` | section 8 |
| `ArchiveProofs` | `Invariance`, `EventsAreAccountedFor`, `NoFileIsWrittenTwice`, `OrderInvariance`, `BooksAreFedInOrder` | section 9 |

The assumptions are the ones the modules declare (constants are numbers, some of
them positive; producers, streams and prices are finite sets) and, for the
lease, the reconnect schedule and the windows, the named conditions on their timings.  Each proof is of an inductive
invariant `IInv`, with one lemma for each action or kind of action.  Bounds of the
models, such as a budget of mishaps, are constants, so the theorems hold whatever
they are.

Only checked by TLC, on the instances above:

* liveness under fairness: `SocketsFollowOwnership`, `StopClosesEverything`,
  `Recovers`, `DamageDoesNotLast`, `ReplayEnds`, the fairness of `IsLossyQueue`,
  `NodesComeBack`, `StopIsObeyed`.  The provers have no `ENABLED`;
* what is defined by a fold over a sequence: the four properties of `Algorithms`
  that compare functions with references.  Induction over
  data is possible only by taking a least counterexample by hand, as
  `ArchiveProofs` does for `Max` and `Reading`, `RecordingProofs` for `Ceiling` and
  `LeastTime`, `GatewayProofs` for `Touches`, and `StreamProofs` for sums.

Two runs expect a violation, and state what
a comment of the sources claims; every property of the other runs is broken by a
plausible slip in a named definition, which is how the runs are shown to see the
code.

## 13. Not modelled

HTTP pages, metrics and their text (read-only); request signing, TLS and sockets
(I/O behind traits, modelled by what their callers see); argument parsing; the
Parquet encoding and the JSON of a tape's line; venue URLs and subscription
messages; the ten seconds after which a REST call gives up (a fetch may take any
time in the models, which is more); the S3 store, one client call per operation;
the unbounded channel to the archive writer, which has no bound to check.
`PROJECT.json` lists each part with its reason, and every hazard of the code with
the property that covers it.

Hazards without a property, and why: a REST body that
cannot be parsed (`ingest.rs:514`), after which nothing fetches again in that
session, and a file no event closes (`writer.rs:270`).

Smaller hazards: Bitstamp's buffer while the REST fetch fails (`bitstamp.rs:269`),
and a second splice onto a live book (`bitstamp.rs:304`); `event_seq` and the
elapsed time restarting with the process (`writer.rs:283`); the edges of the audited range (`audit.rs:312`).
