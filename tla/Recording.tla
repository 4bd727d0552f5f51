------------------------------ MODULE Recording ------------------------------
(* The recorder (ma-server/src/bin/record.rs) behind the ingest task that    *)
(* feeds it: the tee is written to a tape line by line and flushed now and   *)
(* then, the end of the recording stops the task, waits for it for a while,  *)
(* drains the tee and flushes, and the process may die at any point of that. *)
(* What replay (ma-pipeline/src/tape.rs) makes of the file is what the       *)
(* properties speak of.                                                      *)
EXTENDS Session, Replay

CONSTANTS
    FlushEvery,   \* frames
    Grace         \* how long the end waits for the task

ASSUME RecordingAssumption == {FlushEvery, Grace} \subseteq Nat \ {0}

VARIABLES
    recorder,   \* pc, count of frames, time spent waiting for the task
    buffer,     \* lines in the BufWriter
    file        \* lines that reached the file

rvars == <<recorder, buffer, file>>
vars == <<svars, rvars>>

Running == recorder.pc \notin {"exited", "crashed"}

-------------------------------------------------------------------------------
\* What a replay sends: the whole lines.  A last line that was cut short does
\* not parse, and ends the replay with an error after them.
Replayed == [i \in DOMAIN file |-> IntoMessage(file[i])]

IsFrame(m) == m.kind # "ended"

-------------------------------------------------------------------------------
Init ==
    /\ SessionInit
    /\ recorder = [pc |-> IF recording THEN "reading" ELSE "none", frames |-> 0, waited |-> 0]
    /\ buffer = <<>> /\ file = <<>>

RecorderPcs == {"none", "reading", "waiting", "draining", "flushing", "exited", "crashed"}
Lines == [session_ended : BOOLEAN, source : {"websocket", "rest", "audit"},
          session : Nat, number : Nat]

TypeOK ==
    /\ SessionTypeOK
    /\ recorder \in [pc : RecorderPcs, frames : 0..FlushEvery - 1, waited : 0..Grace]
    /\ {buffer, file} \subseteq Seq(Lines)

\* Mutant: the flush is due when a frame arrives, before it is written.
WriteAfterFlush(m, frames) ==
    IF frames = 0
    THEN file' = file \o buffer /\ buffer' = <<Line(m)>>
    ELSE buffer' = Append(buffer, Line(m)) /\ UNCHANGED file

\* A line is written, and everything is flushed when the count of frames is a
\* multiple of FlushEvery: at a boundary too, and before the first frame.
Write(m, frames) ==
    IF frames = 0
    THEN file' = file \o buffer \o <<Line(m)>> /\ buffer' = <<>>
    ELSE buffer' = Append(buffer, Line(m)) /\ UNCHANGED file

Record ==
    /\ recorder.pc = "reading" /\ tee # <<>>
    /\ LET m == Head(tee)
           frames == (recorder.frames + IF IsFrame(m) THEN 1 ELSE 0) % FlushEvery
       IN /\ recorder' = [recorder EXCEPT !.frames = frames]
          /\ Write(m, frames)
    /\ tee' = Tail(tee)
    /\ UNCHANGED <<recording, task, fetch, asked, stop, sent, session, quiet, recent>>

\* The deadline or an interrupt: the pipeline is dropped, and with it the trigger.
EndRecording ==
    /\ recorder.pc = "reading"
    /\ recorder' = [recorder EXCEPT !.pc = "waiting"]
    /\ Stop
    /\ UNCHANGED <<buffer, file>>

\* Mutant: the end does not wait for the task.
JoinNothing ==
    /\ recorder.pc = "waiting"
    /\ recorder' = [recorder EXCEPT !.pc = "draining"]
    /\ UNCHANGED <<svars, buffer, file>>

\* Mutant: the end waits until the task has ended, however long that takes.
JoinWithoutTimeout ==
    /\ recorder.pc = "waiting" /\ task.pc = "done"
    /\ recorder' = [recorder EXCEPT !.pc = "draining"]
    /\ UNCHANGED <<svars, buffer, file>>

Join ==
    /\ recorder.pc = "waiting" /\ (task.pc = "done" \/ recorder.waited = Grace)
    /\ recorder' = [recorder EXCEPT !.pc = "draining"]
    /\ UNCHANGED <<svars, buffer, file>>

Drain ==
    /\ recorder.pc = "draining" /\ tee # <<>>
    /\ buffer' = Append(buffer, Line(Head(tee)))
    /\ tee' = Tail(tee)
    /\ UNCHANGED <<recorder, file, recording, task, fetch, asked, stop, sent, session, quiet, recent>>

\* The try_recv that finds nothing: what is published from here on, by a task whose
\* connect outlasts its grace, is in no tape.
LastRecv ==
    /\ recorder.pc = "draining" /\ tee = <<>>
    /\ recorder' = [recorder EXCEPT !.pc = "flushing"]
    /\ UNCHANGED <<svars, buffer, file>>

\* The last flush, which is awaited, and the end of the process with whatever still
\* runs in it.
Finish ==
    /\ recorder.pc = "flushing"
    /\ file' = file \o buffer /\ buffer' = <<>>
    /\ recorder' = [recorder EXCEPT !.pc = "exited"]
    /\ UNCHANGED svars

\* The process dies, and only the file is left of it: the BufWriter may have
\* passed on any part of what it held.
Crash ==
    /\ recording /\ Running
    /\ \E n \in 0..Len(buffer) : file' = file \o SubSeq(buffer, 1, n)
    /\ buffer' = <<>>
    /\ recorder' = [pc |-> "crashed", frames |-> 0, waited |-> 0]
    /\ task' = [FreshTask EXCEPT !.pc = "done"]
    /\ fetch' = NoFetch /\ asked' = FALSE /\ stop' = FALSE
    /\ tee' = <<>> /\ sent' = 0 /\ session' = 0 /\ quiet' = 0 /\ recent' = {}
    /\ UNCHANGED recording

RecorderDue ==
    \/ recorder.pc = "waiting" /\ (task.pc = "done" \/ recorder.waited = Grace)
    \/ recorder.pc \in {"draining", "flushing"}

Tick ==
    /\ Running /\ ~Due /\ ~RecorderDue /\ task.pc # "done"
    /\ Passes
    /\ recorder' = [recorder EXCEPT !.waited = IF recorder.pc = "waiting"
                                               THEN CountUp(@, Grace) ELSE @]
    /\ UNCHANGED <<buffer, file>>

TaskRuns == Running /\ TaskStep /\ UNCHANGED rvars
NetworkActs == Running /\ NetworkStep /\ UNCHANGED rvars
\* The aggregator of a server, or the reconnect schedule of a recording, asks.
Asks == Running /\ Request /\ UNCHANGED rvars
ServerStops == ~recording /\ Stop /\ UNCHANGED rvars
RecorderSteps == Record \/ Join \/ Drain \/ LastRecv \/ Finish

Next == TaskRuns \/ NetworkActs \/ Asks \/ ServerStops \/ RecorderSteps \/ EndRecording
        \/ Crash \/ Tick

\* The runtime runs what is ready and time passes; nothing is assumed of the
\* network: a connect may hang for ever.
Spec == Init /\ [][Next]_vars
        /\ WF_vars(TaskRuns) /\ WF_vars(RecorderSteps) /\ WF_vars(Tick)

-------------------------------------------------------------------------------
(* Properties.                                                               *)

CONSTANT MostAttempts   \* in a Window

ShortestPause(attempt) == Ceiling[attempt] \div 2

\* The least time in which n more attempts can follow one, by where the schedule
\* stands: each waits for the shortest pause, or for the shortest of all after
\* a session of MinStable.
LeastTime[n \in 0..MostAttempts] ==
    [attempt \in Attempts |->
        IF n = 0 THEN 0
        ELSE LET goesOn == ShortestPause(attempt) + LeastTime[n - 1][AfterDelay(attempt)]
                 startsAgain == MinStable + ShortestPause(0) + LeastTime[n - 1][AfterDelay(0)]
             IN  IF goesOn <= startsAgain THEN goesOn ELSE startsAgain]

\* What the schedule is chosen for.
ASSUME ScheduleAssumption ==
    /\ MostAttempts \in Nat \ {0}
    /\ \A attempt \in Attempts : LeastTime[MostAttempts][attempt] >= Window

\* However sessions end, and whoever ends them, a venue never sees more than
\* MostAttempts connection attempts within Window (backoff.rs: what gets an
\* address banned is the number of attempts inside a window; sessions that
\* connect and die at once must keep climbing the schedule, and a session long
\* enough to start it again takes its time out of the same window).
AttemptRateIsBounded == Cardinality(recent) <= MostAttempts

\* A connection on which the venue says nothing is given up: its silence never
\* outlasts one idle timeout, or two when the REST answer, which starts the
\* read and its timeout again, lands in between.  Neither the retries of a
\* failing fetch nor the audits keep a silent connection alive.
SilenceIsNoticed ==
    task.pc = "open" => quiet <= IF fetch.pc = "done" THEN 2 * IdleTimeout ELSE IdleTimeout

\* On a tape, as replay reads it and wherever it was cut off, the frames of two
\* sessions have the end of the first between them: two sessions stitched
\* together would replay as a gap in the venue's numbering.
SessionsAreParted ==
    \A i, j \in DOMAIN Replayed :
        (i < j /\ IsFrame(Replayed[i]) /\ IsFrame(Replayed[j])
               /\ Replayed[i].session # Replayed[j].session)
        => \E k \in i..j : Replayed[k].kind = "ended" /\ Replayed[k].session = Replayed[i].session

\* A tape never has a hole: what replay reads is what the task had for it, in
\* order, up to some point; and of a recording that ended by itself there is no
\* frame after that point, the one in the task's hands when it was told to stop
\* among those before: what came too late for the last try_recv is the end of
\* a connect that failed during the flush.
TapeIsWhole ==
    /\ \A i \in DOMAIN Replayed : Replayed[i].number = i
    /\ recorder.pc = "exited" =>
          Len(Replayed) + Len(tee) = sent /\ \A i \in DOMAIN tee : ~IsFrame(tee[i])

\* While it records, a process that dies costs the tape fewer than FlushEvery
\* of the frames the recorder has taken, and never a frame it had flushed.
CrashCostsLittle ==
    recorder.pc = "reading" =>
        Cardinality({i \in DOMAIN buffer : ~buffer[i].session_ended}) < FlushEvery

\* What a tape is worth: every session boundary is on it, it has no hole, and
\* a crash costs little of it (record.rs, tape.rs replay).
Inv == TypeOK /\ SessionsAreParted /\ TapeIsWhole /\ CrashCostsLittle

\* A recording that is told to end does end, and a task that is told to stop
\* stops or is in a connect that does not answer, even if it never does.
StopIsObeyed ==
    /\ stop ~> (task.pc \in {"done", "connecting"} \/ ~Running)
    /\ recorder.pc = "waiting" ~> ~Running
===============================================================================
