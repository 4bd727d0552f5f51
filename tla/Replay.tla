-------------------------------- MODULE Replay --------------------------------
(* Replays.  The tape (ma-pipeline/src/tape.rs): what a line keeps of a      *)
(* message, what a replay makes of the line, and when it sends it.  The      *)
(* archive (ma-server/src/archive.rs, ma-persist/src/reader.rs): the order   *)
(* in which the events of several partitions are read, where each is placed  *)
(* on the replay's clock, and when it is sent.                               *)
EXTENDS Integers, Sequences, FiniteSets, SequencesExt

-------------------------------------------------------------------------------
(* The tape.                                                                 *)

\* TapeWriter::write_message: a line holds where a frame came from, or that a
\* session ended, not why.  The numbers are the model's, to know a message by.
Line(m) == [session_ended |-> m.kind = "ended",
            source |-> IF m.kind = "ended" THEN "websocket" ELSE m.kind,
            session |-> m.session, number |-> m.number]

\* TapedFrame::into_message: every boundary is replayed as a close.
IntoMessage(line) ==
    [kind |-> IF line.session_ended THEN "ended" ELSE line.source,
     session |-> line.session, number |-> line.number,
     end |-> IF line.session_ended THEN "closed" ELSE "none"]

\* What is written for the time of a message: nothing is before the start.
Elapsed(at, start) == IF at < start THEN 0 ELSE at - start

\* Mutant: the replay runs on the machine's clock.
SystemNow(base, elapsed, speed) == base + elapsed

\* ScaledClock::now, when `elapsed` has passed since it was made.
ScaledNow(base, elapsed, speed) == base + elapsed * speed

\* Mutant: the pause is the gap since the line before.
SleepTheGap(so, line, speed) ==
    so.clock + (line.elapsed - so.previous) \div speed

\* The instant a line is sent at: its own deadline from the origin of the
\* replay, or now when that has passed.
SleepUntil(so, line, speed) ==
    IF so.clock < line.elapsed \div speed THEN line.elapsed \div speed ELSE so.clock

\* replay with realtime pacing: the clock runs from the origin, every line has
\* its timestamp rebuilt from the base, and costs the work of sending it.
ReplayLine(so, line, base, speed) ==
    LET now == SleepUntil(so, line, speed)
    IN  [sent |-> Append(so.sent, [at |-> base + line.elapsed, when |-> now]),
         clock |-> now + line.work, previous |-> line.elapsed]

ReplayTape(lines, base, speed) ==
    FoldLeft(LAMBDA so, line : ReplayLine(so, line, base, speed),
             [sent |-> <<>>, clock |-> 0, previous |-> 0], lines).sent

-------------------------------------------------------------------------------
(* The archive.  A stored event has the wall clock at its ingest, and how    *)
(* long after the first event of its writer's run that was.                  *)

\* EventReader::next_event: the head with the earliest wall clock, and the first
\* cursor on a tie.
TakeNext(reader, call) ==
    LET heads == {p \in DOMAIN reader.left : reader.left[p] # <<>>}
        WallOf(p) == Head(reader.left[p]).wall
        pick == CHOOSE p \in heads : \A q \in heads \ {p} :
                   WallOf(p) < WallOf(q) \/ (WallOf(p) = WallOf(q) /\ p < q)
    IN  [left |-> [reader.left EXCEPT ![pick] = Tail(@)],
         read |-> Append(reader.read, Head(reader.left[pick]))]

\* EventReader::collect: all of them, each partition in its own order.
Merged(partitions, count) ==
    FoldLeft(TakeNext, [left |-> partitions, read |-> <<>>], [call \in 1..count |-> call]).read

\* A Duration does not go below zero.
AtLeastZero(d) == IF d < 0 THEN 0 ELSE d

\* Mutant: the recorded offset, whoever recorded it.
OffsetElapsed(stored, origin, fromWall) == stored.elapsed

\* One writer's offsets are kept; those of several share no origin.
Offset(stored, origin, fromWall) ==
    IF fromWall THEN AtLeastZero(stored.wall - origin) ELSE stored.elapsed

\* One event: the sleep of real-time pacing, which is the gap since the event before
\* and begins when that has been sent, then the timestamp, and the work of sending it.
ReplayEvent(so, stored, base, origin, fromWall, speed) ==
    LET offset == Offset(stored, origin, fromWall)
        now == so.clock + AtLeastZero(offset - so.previous) \div speed
    IN  [sent |-> Append(so.sent, [at |-> base + offset, when |-> now]),
         clock |-> now + stored.work, previous |-> offset]

ReplayArchiveMany(events, base, prefixes, speed) ==
    FoldLeft(LAMBDA so, stored :
                 ReplayEvent(so, stored, base, events[1].wall, prefixes > 1, speed),
             [sent |-> <<>>, clock |-> 0, previous |-> 0], events).sent
===============================================================================
