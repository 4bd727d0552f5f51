------------------------------- MODULE Session -------------------------------
(* One ingest task (ma-pipeline/src/ingest.rs): Ingest::run with its backoff *)
(* and its pauses, Ingest::session with the biased select over the stop      *)
(* signal, the resync signal, the REST fetch, the audit loop and the socket  *)
(* under its idle timeout, and what it publishes to the tape beside the      *)
(* aggregator.                                                               *)
(*                                                                           *)
(* Every timer is kept as the time since it was armed, or still to run, so   *)
(* that time needs no origin; Tick passes one unit and waits for a timer     *)
(* that is due, which assumes that the scheduler is prompt.                  *)
(*                                                                           *)
(* The channel to the aggregator closes when the last Sender is dropped and  *)
(* the task holds one, so a send never finds it closed: SessionEnd::         *)
(* Downstream is not reached, and is left out.                               *)
EXTENDS Integers, Sequences

CONSTANTS
    Base,             \* ceiling of the first pause
    Cap,              \* ceiling of every pause
    MinStable,        \* what an attempt must last for the schedule to start again
    IdleTimeout,
    Window,           \* over which attempts are counted
    MaxAttempts,      \* bound: connections a task that does not record tries
    MaxTapedAttempts, \* bound: the same for one that does
    MaxFrames         \* bound: frames a recording task receives

ASSUME SessionAssumption ==
    {IdleTimeout, Window, MaxAttempts, MaxTapedAttempts, MaxFrames} \subseteq Nat \ {0}

ASSUME BackoffAssumption ==
    /\ {Base, Cap, MinStable} \subseteq Nat \ {0}
    /\ Base <= Cap

-------------------------------------------------------------------------------
(* The reconnect schedule (ma-pipeline/src/backoff.rs): the ceiling of the   *)
(* next pause, the pauses equal jitter can choose below it, and the rule     *)
(* that says when a session counts as a recovery.                            *)

\* Backoff::ceiling: doubled with every attempt, up to the cap.  No attempt beyond
\* the Cap-th can be needed to get there.
Ceiling[attempt \in 0..Cap] ==
    IF attempt = 0 THEN Base
    ELSE LET twice == 2 * Ceiling[attempt - 1] IN IF twice < Cap THEN twice ELSE Cap

\* Attempts beyond the one that reaches the cap are not told apart: from there
\* on the ceiling is the cap, also where the factor saturates (2^32 and on).
LastAttempt == CHOOSE n \in 0..Cap :
                  Ceiling[n] = Cap /\ \A k \in 0..Cap : Ceiling[k] = Cap => n <= k

Attempts == 0..LastAttempt

\* EqualJitter::sample: any point of the upper half.
Sample(ceiling) == (ceiling \div 2)..ceiling

\* Backoff::next_delay: a pause, and the attempt it leaves behind.
NextDelays(attempt) == Sample(Ceiling[attempt])
AfterDelay(attempt) == IF attempt < LastAttempt THEN attempt + 1 ELSE attempt

\* Mutant: whatever was said to be connected counts as a recovery.
NoteAnySession(attempt, lasted) == 0

\* Backoff::note_session: only what lasted long enough starts the schedule again.
NoteSession(attempt, lasted) == IF lasted >= MinStable THEN 0 ELSE attempt

-------------------------------------------------------------------------------
VARIABLES
    recording,   \* whether the task has a tape; fixed
    task,        \* the loop: pc, backoff attempt, and its timers
    fetch,       \* the REST fetch of the session
    asked,       \* a resync request the signal has not observed
    stop,        \* the Shutdown signal
    tee,         \* the unbounded channel to the tape
    sent,        \* history: how many messages the task had for the tape
    session,     \* history: the number of the attempt
    quiet,       \* history: time since the session opened or the venue last spoke
    recent       \* history: the attempts of the last Window, and their ages

svars == <<recording, task, fetch, asked, stop, tee, sent, session, quiet, recent>>

Pcs == {"top", "connecting", "open", "holding", "sleeping", "done"}
FreshTask == [pc |-> "top", attempt |-> 0, lasted |-> 0, silent |-> 0, pause |-> 0]
NoFetch == [pc |-> "none", attempt |-> 0, pause |-> 0]
Ends == {"connect_failed", "closed", "errored", "idle", "resync_requested"}
Messages == [kind : {"websocket", "rest", "audit"}, session : Nat, number : Nat, end : {"none"}]
            \cup [kind : {"ended"}, session : Nat, number : Nat, end : Ends]

SessionTypeOK ==
    /\ {recording, asked, stop} \subseteq BOOLEAN
    /\ task \in [pc : Pcs, attempt : Attempts, lasted : 0..MinStable, silent : 0..IdleTimeout,
                 pause : 0..Cap]
    /\ fetch \in [pc : {"none", "fetching", "waiting", "done"}, attempt : Attempts, pause : 0..Cap]
    /\ tee \in Seq(Messages)
    /\ recent \in SUBSET [attempt : Nat, age : 0..Window - 1]
    /\ {sent, session} \subseteq Nat
    /\ quiet \in 0..2 * IdleTimeout + 1

SessionInit ==
    /\ recording \in BOOLEAN
    /\ task = FreshTask
    /\ fetch = NoFetch
    /\ asked = FALSE /\ stop = FALSE
    /\ tee = <<>> /\ sent = 0 /\ session = 0
    /\ quiet = 0 /\ recent = {}

Message(kind, end, number) ==
    [kind |-> kind, session |-> session, number |-> number, end |-> end]

\* Ingest::publish: the tee is unbounded, and the send beside it never waits.
Publish(kind, end) ==
    IF recording
    THEN /\ tee' = Append(tee, Message(kind, end, sent + 1))
         /\ sent' = sent + 1
    ELSE UNCHANGED <<tee, sent>>

AttemptsLeft == session < IF recording THEN MaxTapedAttempts ELSE MaxAttempts
FramesLeft == recording => sent < MaxFrames

-------------------------------------------------------------------------------
(* Ingest::run.                                                              *)

\* The head of the loop: stop, or read the clock and call session.
Begin ==
    /\ task.pc = "top" /\ ~stop /\ AttemptsLeft
    /\ task' = [task EXCEPT !.pc = "connecting", !.lasted = 0]
    /\ session' = session + 1
    /\ recent' = recent \union {[attempt |-> session', age |-> 0]}
    /\ UNCHANGED <<recording, fetch, asked, stop, tee, sent, quiet>>

StopAtTop ==
    /\ task.pc = "top" /\ stop
    /\ task' = [task EXCEPT !.pc = "done"]
    /\ UNCHANGED <<recording, fetch, asked, stop, tee, sent, session, quiet, recent>>

\* Mutant: a session we end ourselves is not announced.
RetrySilently(end) ==
    /\ AttemptsLeft
    /\ IF end = "resync_requested" THEN UNCHANGED <<tee, sent>> ELSE Publish("ended", end)
    /\ LET attempt == NoteSession(task.attempt, task.lasted)
       IN \E pause \in NextDelays(attempt) :
            task' = [pc |-> "sleeping", attempt |-> AfterDelay(attempt), lasted |-> 0,
                     silent |-> 0, pause |-> pause]
    /\ fetch' = NoFetch
    /\ quiet' = 0

\* A session that should be tried again: the boundary is published before the
\* pause; the futures of the session, the fetch among them, are dropped.
Retry(end) ==
    /\ AttemptsLeft
    /\ Publish("ended", end)
    /\ LET attempt == NoteSession(task.attempt, task.lasted)
       IN \E pause \in NextDelays(attempt) :
            task' = [pc |-> "sleeping", attempt |-> AfterDelay(attempt), lasted |-> 0,
                     silent |-> 0, pause |-> pause]
    /\ fetch' = NoFetch
    /\ quiet' = 0

Wake ==
    /\ task.pc = "sleeping" /\ task.pause = 0
    /\ task' = [task EXCEPT !.pc = "top"]
    /\ UNCHANGED <<recording, fetch, asked, stop, tee, sent, session, quiet, recent>>

StopWhileSleeping ==
    /\ task.pc = "sleeping" /\ stop
    /\ task' = [task EXCEPT !.pc = "done"]
    /\ UNCHANGED <<recording, fetch, asked, stop, tee, sent, session, quiet, recent>>

-------------------------------------------------------------------------------
(* Ingest::session.                                                          *)

\* Connect and subscribe; neither looks at the stop signal.
ConnectFails ==
    /\ task.pc = "connecting"
    /\ Retry("connect_failed")
    /\ UNCHANGED <<recording, asked, stop, session, recent>>

\* A venue that has a REST snapshot starts to fetch it, one that has none never does.
Connects ==
    /\ task.pc = "connecting"
    /\ task' = [task EXCEPT !.pc = "open", !.silent = 0]
    /\ fetch' \in {NoFetch, [NoFetch EXCEPT !.pc = "fetching"]}
    /\ quiet' = 0
    /\ UNCHANGED <<recording, asked, stop, tee, sent, session, recent>>

SelectStop ==
    /\ task.pc = "open" /\ stop
    /\ task' = [task EXCEPT !.pc = "done"]
    /\ fetch' = NoFetch /\ quiet' = 0
    /\ UNCHANGED <<recording, asked, stop, tee, sent, session, recent>>

\* The arms below it in the biased select.
Reading == task.pc = "open" /\ ~stop

SelectResync ==
    /\ Reading /\ asked
    /\ Retry("resync_requested")
    /\ asked' = FALSE
    /\ UNCHANGED <<recording, stop, session, recent>>

Unasked == Reading /\ ~asked

\* The fetch lands: its arm wins, and the read starts again under a new timeout.
RestLands ==
    /\ Unasked /\ fetch.pc = "fetching" /\ FramesLeft
    /\ Publish("rest", "none")
    /\ fetch' = [fetch EXCEPT !.pc = "done"]
    /\ task' = [task EXCEPT !.silent = 0]
    /\ UNCHANGED <<recording, asked, stop, session, quiet, recent>>

\* Mutant: a failed fetch also ends its arm of the select.
RestFailsAndRearms ==
    /\ Unasked /\ fetch.pc = "fetching"
    /\ \E pause \in NextDelays(fetch.attempt) :
         fetch' = [pc |-> "waiting", attempt |-> AfterDelay(fetch.attempt), pause |-> pause]
    /\ task' = [task EXCEPT !.silent = 0]
    /\ UNCHANGED <<recording, asked, stop, tee, sent, session, quiet, recent>>

\* A fetch that fails pauses inside its own arm, which does not fire.
RestFails ==
    /\ Unasked /\ fetch.pc = "fetching"
    /\ \E pause \in NextDelays(fetch.attempt) :
         fetch' = [pc |-> "waiting", attempt |-> AfterDelay(fetch.attempt), pause |-> pause]
    /\ UNCHANGED <<recording, task, asked, stop, tee, sent, session, quiet, recent>>

RestRetries ==
    /\ Unasked /\ fetch.pc = "waiting" /\ fetch.pause = 0
    /\ fetch' = [fetch EXCEPT !.pc = "fetching"]
    /\ UNCHANGED <<recording, task, asked, stop, tee, sent, session, quiet, recent>>

\* An audit is fetched and published from inside its arm, which never fires;
\* one that fails is only counted.
AuditLands ==
    /\ Unasked /\ recording /\ FramesLeft
    /\ Publish("audit", "none")
    /\ UNCHANGED <<recording, task, fetch, asked, stop, session, quiet, recent>>

\* What the venue puts on the socket; a binary message is as good as text.
WireMessages == {"text", "ping", "pong", "close"}

\* Mutant: the protocol's own frames reach the task.
RecvEverything(wire) == IF wire = "close" THEN "closed" ELSE "payload"

\* LiveSocket::recv: the protocol's own frames are dealt with below the task,
\* which goes on waiting under the same timeout.
Recv(wire) ==
    CASE wire = "text" -> "payload"
      [] wire = "close" -> "closed"
      [] OTHER -> "again"

\* A frame is read from the socket, and published in a step of its own: the
\* rest of the process runs on other threads, and may stop the task in between.
Receive(wire) ==
    /\ Unasked /\ FramesLeft /\ Recv(wire) = "payload"
    /\ task' = [task EXCEPT !.pc = "holding"]
    /\ sent' = IF recording THEN sent + 1 ELSE sent
    /\ quiet' = IF wire = "text" THEN 0 ELSE quiet
    /\ UNCHANGED <<recording, fetch, asked, stop, tee, session, recent>>

Emit ==
    /\ task.pc = "holding"
    /\ tee' = IF recording THEN Append(tee, Message("websocket", "none", sent)) ELSE tee
    /\ task' = [task EXCEPT !.pc = "open", !.silent = 0]
    /\ UNCHANGED <<recording, fetch, asked, stop, sent, session, quiet, recent>>

\* The venue closes the socket, or the stream under it ends.
Closes(wire) ==
    /\ Unasked /\ Recv(wire) = "closed"
    /\ Retry("closed")
    /\ UNCHANGED <<recording, asked, stop, session, recent>>

Errs ==
    /\ Unasked
    /\ Retry("errored")
    /\ UNCHANGED <<recording, asked, stop, session, recent>>

IdleOut ==
    /\ Unasked /\ task.silent = IdleTimeout
    /\ Retry("idle")
    /\ UNCHANGED <<recording, asked, stop, session, recent>>

-------------------------------------------------------------------------------
(* The rest of the process.                                                  *)

\* ResyncRequests::request: requests coalesce, and one made between two
\* sessions is heard by the next.
Request ==
    /\ ~asked /\ task.pc # "done"
    /\ asked' = TRUE
    /\ UNCHANGED <<recording, task, fetch, stop, tee, sent, session, quiet, recent>>

\* ShutdownTrigger::stop, or its drop.
Stop ==
    /\ ~stop
    /\ stop' = TRUE
    /\ UNCHANGED <<recording, task, fetch, asked, tee, sent, session, quiet, recent>>

\* What the task has to do before time passes.
Due ==
    \/ task.pc = "top" /\ (stop \/ AttemptsLeft)
    \/ task.pc = "sleeping" /\ (stop \/ task.pause = 0)
    \/ task.pc = "holding"
    \/ task.pc = "open" /\ (stop \/ asked \/ task.silent = IdleTimeout
                            \/ (fetch.pc = "waiting" /\ fetch.pause = 0))

CountUp(n, bound) == IF n < bound THEN n + 1 ELSE n
CountDown(n) == IF n > 0 THEN n - 1 ELSE 0

Passes ==
    /\ task' = [task EXCEPT !.lasted = IF task.pc \in {"connecting", "open"}
                                       THEN CountUp(@, MinStable) ELSE @,
                            !.silent = IF task.pc = "open" THEN CountUp(@, IdleTimeout) ELSE @,
                            !.pause = CountDown(@)]
    /\ fetch' = [fetch EXCEPT !.pause = CountDown(@)]
    /\ quiet' = IF task.pc = "open" THEN CountUp(quiet, 2 * IdleTimeout + 1) ELSE quiet
    /\ recent' = {[r EXCEPT !.age = @ + 1] : r \in {r \in recent : r.age + 1 < Window}}
    /\ UNCHANGED <<recording, asked, stop, tee, sent, session>>

\* What the task does by itself, once what it waits for has happened.
TaskStep ==
    \/ Begin \/ StopAtTop \/ Wake \/ StopWhileSleeping \/ SelectStop \/ SelectResync
    \/ RestRetries \/ Emit \/ IdleOut

\* What the network does to it.
NetworkStep ==
    \/ ConnectFails \/ Connects
    \/ RestLands \/ RestFails \/ AuditLands \/ Errs
    \/ \E wire \in WireMessages : Receive(wire) \/ Closes(wire)

===============================================================================
