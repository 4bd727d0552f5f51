------------------------------- MODULE Archive -------------------------------
(* The archive writers of a cluster (ma-persist/src/writer.rs): each node    *)
(* appends the events of the streams it owns to one open file per symbol,    *)
(* and stores a file when the hour changes, when it has been open for too    *)
(* long, and when the writer closes.  A file exists for others only once it  *)
(* is stored.                                                                *)
(*                                                                           *)
(* An event is its place in `log`, the order in which the venues sent them.  *)
(* One process at a time writes under a prefix, and a node has its own.      *)
EXTENDS Integers, Sequences, FiniteSets, FiniteSetsExt

CONSTANTS
    Nodes, Streams, Symbols,
    Symbol,      \* of a stream
    FirstOwner,  \* of a stream
    Skew,        \* how far ahead the wall clock of a node is at first
    Hour,        \* the length of one, WriterConfig::roll_every
    MaxOpen,     \* WriterConfig::max_open
    MaxDelay,    \* from the stamp of an event to its append
    MaxTime, MaxEvents,
    Budget       \* how often each kind of mishap may happen

Mishaps == {"io",      \* an upload or a listing that fails
            "down",    \* a process that is killed or stopped
            "step",    \* a wall clock that is set back
            "move"}    \* a stream that changes hands

ASSUME ArchiveAssumption ==
    /\ Symbol \in [Streams -> Symbols]
    /\ FirstOwner \in [Streams -> Nodes]
    /\ Skew \in [Nodes -> Nat]
    /\ {Hour, MaxOpen} \subseteq Nat \ {0}
    /\ {MaxDelay, MaxTime, MaxEvents} \subseteq Nat
    /\ Budget \in [Mishaps -> Nat]

VARIABLES
    time,        \* which every monotonic clock shows
    wall,        \* how far ahead each wall clock is, at each time
    owner,       \* of each stream
    since,       \* when the process that reads each stream began to
    up,          \* the nodes whose writer runs
    open,        \* EventWriter::open of each node, by symbol
    parts,       \* EventWriter::parts of each node, by directory
    store,       \* the rows of each stored file, by key
    failures,    \* ArchiveCounters::write_failures of each node
    rows,        \* ArchiveCounters::rows_written of each node
    run,         \* the number of the process each node is at
    log,         \* every event that reached a writer
    spent

vars == <<time, wall, owner, since, up, open, parts, store, failures, rows, run, log, spent>>
clocks == <<time, wall>>
streams == <<owner, since>>
writers == <<up, open, parts, failures, rows, run>>

Directories == Symbols \X Int
Keys == [node : Nodes, symbol : Symbols, hour : Int, part : Nat]

TypeOK ==
    /\ time \in 0..MaxTime
    /\ wall \in [Nodes -> [0..MaxTime -> Int]]
    /\ owner \in [Streams -> Nodes]
    /\ since \in [Streams -> 0..MaxTime]
    /\ up \subseteq Nodes
    /\ \A n \in Nodes :
          /\ DOMAIN open[n] \subseteq Symbols
          /\ \A y \in DOMAIN open[n] :
                open[n][y] \in [hour : Int, part : Nat, opened : 0..MaxTime, rows : Seq(1..MaxEvents)]
          /\ DOMAIN parts[n] \subseteq Directories
          /\ \A d \in DOMAIN parts[n] : parts[n][d] \in Nat
    /\ DOMAIN store \subseteq Keys
    /\ \A k \in DOMAIN store : store[k] \in Seq(1..MaxEvents)
    /\ {failures, rows, run} \subseteq [Nodes -> Nat]
    /\ log \in Seq([node : Nodes, run : Nat, stream : Streams, at : 0..MaxTime, wall : Int])
    /\ \A m \in Mishaps : spent[m] \in 0..Budget[m]

Init ==
    /\ time = 0 /\ wall = [n \in Nodes |-> [t \in 0..MaxTime |-> Skew[n]]]
    /\ owner = FirstOwner
    /\ since = [s \in Streams |-> 0]
    /\ up = Nodes
    /\ open = [n \in Nodes |-> <<>>]
    /\ parts = [n \in Nodes |-> <<>>]
    /\ store = <<>>
    /\ failures = [n \in Nodes |-> 0] /\ rows = [n \in Nodes |-> 0]
    /\ run = [n \in Nodes |-> 1]
    /\ log = <<>>
    /\ spent = [m \in Mishaps |-> 0]

With(f, key, value) == [k \in DOMAIN f \cup {key} |-> IF k = key THEN value ELSE f[k]]
Without(f, keys) == [k \in DOMAIN f \ keys |-> f[k]]

CanSpend(mishap) == spent[mishap] < Budget[mishap]
Spend(mishap) == CanSpend(mishap) /\ spent' = [spent EXCEPT ![mishap] = @ + 1]

-------------------------------------------------------------------------------
(* Files.                                                                    *)

Key(n, y, file) == [node |-> n, symbol |-> y, hour |-> file.hour, part |-> file.part]

\* The store once node n has put its open files of `symbols`.
Put(n, symbols) ==
    [k \in DOMAIN store \cup {Key(n, y, open[n][y]) : y \in symbols} |->
        IF \E y \in symbols : k = Key(n, y, open[n][y]) THEN open[n][k.symbol].rows ELSE store[k]]

\* The rows of the open files of `symbols`, each by its file and its place there.
Places(n, symbols) == UNION {{y} \X DOMAIN open[n][y].rows : y \in symbols}

RowsIn(n, symbols) == Cardinality(Places(n, symbols))

\* Mutant: every process starts a directory at part 0.
PartZero(stored, n, y, h) == 0

\* The next part number after what a listing of the directory shows.
NextPart(stored, n, y, h) ==
    Max({k.part + 1 : k \in {k \in DOMAIN stored : k.node = n /\ k.symbol = y /\ k.hour = h}}
        \cup {0})

-------------------------------------------------------------------------------
(* EventWriter::append, for an event the node's ingest task stamped `delay`  *)
(* ago.                                                                      *)

\* The events of a stream are stamped in order, by the process that reads it.
Stamp(n, s, delay) ==
    LET at == time - delay
    IN  [node |-> n, run |-> run[n], stream |-> s, at |-> at, wall |-> at + wall[n][at]]

Arrives(n, s, e) ==
    /\ n \in up /\ owner[s] = n /\ Len(log) < MaxEvents
    /\ e.at >= since[s]
    /\ \A i \in DOMAIN log : log[i].stream = s => log[i].at <= e.at
    /\ log' = Append(log, e)

ThisEvent == Len(log) + 1

HourOf(e) == e.wall \div Hour

\* The file belongs to another hour, or has been open for long enough.
Rotates(n, y, e) ==
    /\ y \in DOMAIN open[n]
    /\ open[n][y].hour # HourOf(e) \/ e.at - open[n][y].opened >= MaxOpen

AppendToOpenFile(n, s, e) ==
    LET y == Symbol[s] IN
    /\ Arrives(n, s, e)
    /\ y \in DOMAIN open[n] /\ ~Rotates(n, y, e)
    /\ open' = [open EXCEPT ![n][y].rows = Append(@, ThisEvent)]
    /\ UNCHANGED <<clocks, streams, up, parts, store, failures, rows, run, spent>>

\* Mutant: a failed upload is not counted.
FailToRollSilently(n, s, e) ==
    LET y == Symbol[s] IN
    /\ Arrives(n, s, e) /\ Rotates(n, y, e)
    /\ Spend("io")
    /\ \E landed \in SUBSET {y} : store' = Put(n, landed)
    /\ open' = [open EXCEPT ![n] = Without(@, {y})]
    /\ UNCHANGED <<clocks, streams, up, parts, failures, rows, run>>

\* The upload of the file before fails: the file is given up, in the store or not (an
\* answer that is lost leaves it there), its rows are not counted, and the event is gone.
FailToRoll(n, s, e) ==
    LET y == Symbol[s] IN
    /\ Arrives(n, s, e) /\ Rotates(n, y, e)
    /\ Spend("io")
    /\ \E landed \in SUBSET {y} : store' = Put(n, landed)
    /\ open' = [open EXCEPT ![n] = Without(@, {y})]
    /\ failures' = [failures EXCEPT ![n] = @ + 1]
    /\ UNCHANGED <<clocks, streams, up, parts, rows, run>>

\* The file before, if there is one, is stored.
Rolled(n, y) == {y} \cap DOMAIN open[n]

\* Mutant: the row buffer of the file before is used again.
FileWithOldRows(n, y, e, part) ==
    [hour |-> HourOf(e), part |-> part, opened |-> e.at,
     rows |-> Append(IF y \in DOMAIN open[n] THEN open[n][y].rows ELSE <<>>, ThisEvent)]

NewFile(n, y, e, part) ==
    [hour |-> HourOf(e), part |-> part, opened |-> e.at, rows |-> <<ThisEvent>>]

NeedsFile(n, y, e) == y \notin DOMAIN open[n] \/ Rotates(n, y, e)

AppendToNewFile(n, s, e) ==
    LET y == Symbol[s]
        directory == <<y, HourOf(e)>>
        part == IF directory \in DOMAIN parts[n] THEN parts[n][directory]
                ELSE NextPart(Put(n, Rolled(n, y)), n, y, HourOf(e))
    IN  /\ Arrives(n, s, e) /\ NeedsFile(n, y, e)
        /\ store' = Put(n, Rolled(n, y))
        /\ rows' = [rows EXCEPT ![n] = @ + RowsIn(n, Rolled(n, y))]
        /\ open' = [open EXCEPT ![n] = With(@, y, NewFile(n, y, e, part))]
        /\ parts' = [parts EXCEPT ![n] = With(@, directory, part + 1)]
        /\ UNCHANGED <<clocks, streams, up, failures, run, spent>>

\* The directory cannot be listed: the event is gone, and the next one tries again.
FailToList(n, s, e) ==
    LET y == Symbol[s] IN
    /\ Arrives(n, s, e) /\ NeedsFile(n, y, e)
    /\ <<y, HourOf(e)>> \notin DOMAIN parts[n]
    /\ Spend("io")
    /\ store' = Put(n, Rolled(n, y))
    /\ rows' = [rows EXCEPT ![n] = @ + RowsIn(n, Rolled(n, y))]
    /\ open' = [open EXCEPT ![n] = Without(@, {y})]
    /\ failures' = [failures EXCEPT ![n] = @ + 1]
    /\ UNCHANGED <<clocks, streams, up, parts, run>>

-------------------------------------------------------------------------------
(* Starting and stopping.                                                    *)

\* EventWriter::close: each file is tried, the upload of those in `failed` fails, and
\* of these `landed` are in the store all the same.
Close(n, failed, landed) ==
    LET stored == DOMAIN open[n] \ failed IN
    /\ n \in up /\ landed \subseteq failed /\ failed \subseteq DOMAIN open[n]
    /\ spent["io"] + Cardinality(failed) <= Budget["io"] /\ CanSpend("down")
    /\ spent' = [spent EXCEPT !["io"] = @ + Cardinality(failed), !["down"] = @ + 1]
    /\ store' = Put(n, stored \cup landed)
    /\ rows' = [rows EXCEPT ![n] = @ + RowsIn(n, stored)]
    /\ failures' = [failures EXCEPT ![n] = @ + Cardinality(failed)]
    /\ open' = [open EXCEPT ![n] = <<>>]
    /\ up' = up \ {n}
    /\ UNCHANGED <<clocks, streams, parts, run, log>>

\* A kill, or a close that takes too long for main: the uploads that were made by then
\* stay, the one that was under way included.
Crash(n, landed) ==
    /\ n \in up /\ landed \subseteq DOMAIN open[n]
    /\ Spend("down")
    /\ store' = Put(n, landed)
    /\ open' = [open EXCEPT ![n] = <<>>]
    /\ up' = up \ {n}
    /\ UNCHANGED <<clocks, streams, parts, failures, rows, run, log>>

\* The writer of node n ends, one way or the other.
End(n) ==
    \E landed \in SUBSET DOMAIN open[n] :
        \/ Crash(n, landed)
        \/ \E failed \in SUBSET DOMAIN open[n] : Close(n, failed, landed)

Start(n) ==
    /\ n \notin up
    /\ up' = up \cup {n}
    /\ parts' = [parts EXCEPT ![n] = <<>>]
    /\ failures' = [failures EXCEPT ![n] = 0] /\ rows' = [rows EXCEPT ![n] = 0]
    /\ run' = [run EXCEPT ![n] = @ + 1]
    /\ since' = [s \in Streams |-> IF owner[s] = n THEN time ELSE since[s]]
    /\ UNCHANGED <<clocks, owner, open, store, log, spent>>

Tick ==
    /\ time < MaxTime
    /\ time' = time + 1
    /\ UNCHANGED <<wall, streams, writers, store, log, spent>>

\* A wall clock is corrected backwards.
ClockSteps(n) ==
    /\ Spend("step")
    /\ wall' = [wall EXCEPT ![n] = [t \in 0..MaxTime |-> IF t < time THEN @[t] ELSE @[t] - 1]]
    /\ UNCHANGED <<time, streams, writers, store, log>>

\* The lease of a stream moves; the new owner starts after everything the old
\* one stamped has reached its writer.
Move(s, n) ==
    /\ owner[s] # n /\ time + MaxDelay < MaxTime
    /\ Spend("move")
    /\ time' = time + MaxDelay + 1
    /\ owner' = [owner EXCEPT ![s] = n]
    /\ since' = [since EXCEPT ![s] = time']
    /\ UNCHANGED <<wall, writers, store, log>>

AppendStep(n, s, e) ==
    \/ AppendToOpenFile(n, s, e) \/ FailToRoll(n, s, e)
    \/ AppendToNewFile(n, s, e) \/ FailToList(n, s, e)

Next ==
    \/ \E n \in Nodes, s \in Streams, delay \in 0..MaxDelay : delay <= time /\ AppendStep(n, s, Stamp(n, s, delay))
    \/ \E n \in Nodes : End(n) \/ Start(n) \/ ClockSteps(n)
    \/ \E n \in Nodes, s \in Streams : Move(s, n)
    \/ Tick

Spec == Init /\ [][Next]_vars

-------------------------------------------------------------------------------
(* Properties                                                                *)

Members(sequence) == {sequence[i] : i \in DOMAIN sequence}
Stored == UNION {Members(store[k]) : k \in DOMAIN store}
Buffered == UNION {UNION {Members(open[n][y].rows) : y \in DOMAIN open[n]} : n \in Nodes}

EventsOf(n) == {i \in DOMAIN log : log[i].node = n /\ log[i].run = run[n]}

\* A file that was stored stays as it is: no restart, failed upload, failed
\* listing or change of the hour makes a writer take a name twice
\* (writer.rs, parts: a restart "silently overwrote the previous run's file").
NothingIsOverwritten ==
    [][\A k \in DOMAIN store : k \in DOMAIN store' /\ store'[k] = store[k]]_vars

\* rows_written counts no row that is not in the store; and as long as a process has
\* counted no failure, it counts every row that is, and nothing the process was handed
\* is missing: it is stored or buffered (counters.rs: "swallowed and silent are
\* different failures").
LossIsCounted ==
    \A n \in up :
        /\ rows[n] <= Cardinality(EventsOf(n) \cap Stored)
        /\ failures[n] = 0 =>
              /\ rows[n] = Cardinality(EventsOf(n) \cap Stored)
              /\ EventsOf(n) \subseteq Stored \cup Buffered

\* No event is archived twice, nor both archived and still to be archived.
ArchivedOnce ==
    /\ \A j, k \in DOMAIN store :
          \A a \in DOMAIN store[j], b \in DOMAIN store[k] :
             store[j][a] = store[k][b] => j = k /\ a = b
    /\ Stored \cap Buffered = {}

\* The account of the archive: every event a process was handed is stored or
\* buffered once, or a failure was counted (writer.rs append and roll).
Inv == TypeOK /\ LossIsCounted /\ ArchivedOnce
==============================================================================
