---------------------------- MODULE ArchiveProofs ----------------------------
(* Theorems about Archive and ArchiveReader, for any nodes, streams and      *)
(* symbols, any clocks and any number of mishaps: no stored file is ever     *)
(* written again; every event a process was handed is stored once, buffered  *)
(* once, or behind a counted failure; and with agreeing clocks the reader    *)
(* feeds a book its events in the order they were sent.                      *)
(*                                                                           *)
(* None is inductive.  What keeps a name from being taken twice is that the  *)
(* numbers a process remembers are ahead of everything stored in their       *)
(* directories, which a listing must establish and every new file preserve   *)
(* (PartsAreAhead); what keeps the account is that the files of a process    *)
(* hold events of that process only, each at one place; what keeps the order *)
(* is that a new owner starts after everything its stream had logged, and    *)
(* that a file holds the events of one hour (OrderInv).                      *)
EXTENDS ArchiveReader, FiniteSetTheorems, WellFoundedInduction, TLAPS

-------------------------------------------------------------------------------
(* The inductive invariant.                                                  *)

\* The maps have an entry for every node, and no map has infinitely many.
MapsAreFinite ==
    /\ DOMAIN open = Nodes /\ DOMAIN parts = Nodes /\ DOMAIN spent = Mishaps
    /\ IsFiniteSet(DOMAIN store)
    /\ \A n \in Nodes : IsFiniteSet(DOMAIN open[n])

\* A process that ended has left no open file behind.
DownHoldsNothing == \A n \in Nodes \ up : DOMAIN open[n] = {}

\* The number a process remembers for a directory is ahead of every file that is
\* stored in it, and of the file it has open for it (writer.rs, parts).
PartsAreAhead ==
    \A n \in Nodes :
        /\ \A k \in DOMAIN store :
              k.node = n /\ <<k.symbol, k.hour>> \in DOMAIN parts[n]
              => k.part < parts[n][<<k.symbol, k.hour>>]
        /\ \A y \in DOMAIN open[n] :
              /\ <<y, open[n][y].hour>> \in DOMAIN parts[n]
              /\ open[n][y].part < parts[n][<<y, open[n][y].hour>>]

\* The name of an open file is not taken.
NamesAreFree == \A n \in Nodes : \A y \in DOMAIN open[n] : Key(n, y, open[n][y]) \notin DOMAIN store

\* An open file holds events of its process, and a stored file events.
RowsAreEvents ==
    /\ \A i \in DOMAIN log : log[i].run <= run[log[i].node]
    /\ \A n \in Nodes : \A y \in DOMAIN open[n] : \A a \in DOMAIN open[n][y].rows :
          open[n][y].rows[a] \in EventsOf(n)
    /\ \A k \in DOMAIN store : \A a \in DOMAIN store[k] : store[k][a] \in DOMAIN log

\* No event is buffered twice.
BufferedOnce ==
    \A n \in Nodes : \A y, z \in DOMAIN open[n] :
        \A a \in DOMAIN open[n][y].rows, b \in DOMAIN open[n][z].rows :
            open[n][y].rows[a] = open[n][z].rows[b] => y = z /\ a = b

\* rows_written falls short of the rows in the store only if an upload failed, or the
\* process was killed during one.
RowsAreCounted ==
    \A n \in Nodes :
        /\ rows[n] <= Cardinality(EventsOf(n) \cap Stored)
        /\ n \in up /\ failures[n] = 0 => rows[n] = Cardinality(EventsOf(n) \cap Stored)

IInv ==
    /\ TypeOK /\ MapsAreFinite /\ DownHoldsNothing
    /\ PartsAreAhead /\ NamesAreFree
    /\ RowsAreEvents /\ BufferedOnce /\ ArchivedOnce
    /\ RowsAreCounted /\ LossIsCounted
-------------------------------------------------------------------------------
(* Numbers.                                                                  *)

\* A finite set of integers that is not empty has a greatest member, which Max is.
LEMMA MaxIsGreatest ==
  ASSUME NEW S, IsFiniteSet(S), S \subseteq Int, S # {}
  PROVE  Max(S) \in S /\ \A x \in S : x <= Max(S)
<1> DEFINE HasMax(T) == \E x \in T : \A y \in T : x >= y
           Bad == {T \in FiniteSubsetsOf(S) : T # {} /\ ~HasMax(T)}
<1>1. FiniteSubsetsOf(S) = SUBSET S
  BY FS_FiniteSubsetsOfFinite
<1>2. ASSUME Bad # {} PROVE FALSE
  <2>1. PICK T \in Bad : \A U \in Bad : <<U, T>> \notin StrictSubsetOrdering(S)
    <3>1. Bad \subseteq FiniteSubsetsOf(S)
      OBVIOUS
    <3> HIDE DEF Bad
    <3> QED BY <1>2, <3>1, WFMin, FS_StrictSubsetOrderingWellFounded
  <2>2. T \subseteq S /\ T # {} /\ ~HasMax(T)
    BY <1>1
  <2>3. PICK x \in T : TRUE
    BY <2>2
  <2>4. CASE T = {x}
    <3>1. x \in Int
      BY <2>2
    <3> QED BY <2>2, <2>4, <3>1
  <2>5. CASE T # {x}
    <3>1. T \ {x} # {} /\ T \ {x} \subseteq S /\ T \ {x} # T
      BY <2>2, <2>3, <2>5
    <3>2. <<T \ {x}, T>> \in StrictSubsetOrdering(S)
      BY <2>2, <3>1 DEF StrictSubsetOrdering
    <3>3. HasMax(T \ {x})
      <4> HIDE DEF HasMax
      <4> QED BY <1>1, <2>1, <3>1, <3>2
    <3>4. PICK m \in T \ {x} : \A y \in T \ {x} : m >= y
      BY <3>3
    <3>5. m \in Int /\ x \in Int
      BY <2>2
    <3>6. CASE m >= x
      BY <2>2, <3>4, <3>6
    <3>7. CASE x > m
      <4>1. \A y \in T : x >= y
        BY <2>2, <3>4, <3>5, <3>7
      <4> QED BY <2>2, <4>1
    <3> QED BY <3>5, <3>6, <3>7
  <2> QED BY <2>4, <2>5
<1>3. HasMax(S)
  BY <1>1, <1>2
<1>4. PICK x \in S : \A y \in S : x >= y
  BY <1>3
<1>5. Max(S) \in S /\ \A y \in S : Max(S) >= y
  BY <1>4 DEF Max
<1> QED BY <1>5

\* A number for a part that is above those of all the files in its directory.
LEMMA NextPartIsAhead ==
  ASSUME NEW stored, IsFiniteSet(DOMAIN stored), DOMAIN stored \subseteq Keys,
         NEW n \in Nodes, NEW y \in Symbols, NEW h \in Int
  PROVE  /\ NextPart(stored, n, y, h) \in Nat
         /\ \A k \in DOMAIN stored :
               k.node = n /\ k.symbol = y /\ k.hour = h => k.part < NextPart(stored, n, y, h)
<1> DEFINE There == {k \in DOMAIN stored : k.node = n /\ k.symbol = y /\ k.hour = h}
           Taken == {k.part + 1 : k \in There}
           f == [k \in There |-> k.part + 1]
<1>1. IsFiniteSet(There)
  BY FS_Subset
<1>2. f \in Surjection(There, Taken)
  BY DEF Surjection
<1>3. IsFiniteSet(Taken)
  <2> HIDE DEF There, Taken, f
  <2> QED BY <1>1, <1>2, FS_Surjection
<1>4. Taken \cup {0} \subseteq Nat /\ IsFiniteSet(Taken \cup {0}) /\ Taken \cup {0} # {}
  <2>1. \A k \in There : k.part \in Nat
    BY DEF Keys
  <2>2. Taken \subseteq Nat
    BY <2>1
  <2> HIDE DEF Taken
  <2> QED BY <1>3, <2>2, FS_AddElement
<1>5. NextPart(stored, n, y, h) = Max(Taken \cup {0})
  BY DEF NextPart
<1>6. /\ Max(Taken \cup {0}) \in Taken \cup {0}
      /\ \A x \in Taken \cup {0} : x <= Max(Taken \cup {0})
  <2> HIDE DEF Taken
  <2> QED BY <1>4, MaxIsGreatest
<1>7. NextPart(stored, n, y, h) \in Nat
  <2> HIDE DEF Taken
  <2> QED BY <1>4, <1>5, <1>6
<1>8. ASSUME NEW k \in There PROVE k.part < NextPart(stored, n, y, h)
  <2>1. k.part \in Nat /\ k.part + 1 \in Taken
    BY DEF Keys
  <2> HIDE DEF Taken
  <2> QED BY <1>5, <1>6, <1>7, <2>1
<1> QED BY <1>7, <1>8
-------------------------------------------------------------------------------
(* What putting files does to the store.                                     *)

Files == [hour : Int, part : Nat, opened : 0..MaxTime, rows : Seq(1..MaxEvents)]
Entries == [node : Nodes, run : Nat, stream : Streams, at : 0..MaxTime, wall : Int]

\* `after` is the store with the files of `stored` that node n has open, and all
\* that was in it before as it was.
Stores(after, n, stored) ==
    /\ \A k \in DOMAIN store : k \in DOMAIN after /\ after[k] = store[k]
    /\ \A k \in DOMAIN after : k \in DOMAIN store \/ \E y \in stored : k = Key(n, y, open[n][y])
    /\ \A y \in stored : /\ Key(n, y, open[n][y]) \in DOMAIN after
                         /\ after[Key(n, y, open[n][y])] = open[n][y].rows

\* The events of those files.
Moving(n, stored) == UNION {Members(open[n][y].rows) : y \in stored}

\* An open file is well typed, and so is its name.
LEMMA OpenFileType ==
  ASSUME TypeOK, NEW n \in Nodes, NEW y \in DOMAIN open[n]
  PROVE  y \in Symbols /\ open[n][y] \in Files /\ Key(n, y, open[n][y]) \in Keys
BY DEF TypeOK, Files, Key, Keys

\* The log is a sequence of stamped events.
LEMMA LogType == ASSUME TypeOK PROVE log \in Seq(Entries) /\ DOMAIN log = 1..Len(log) /\ Len(log) \in Nat
<1>1. log \in Seq(Entries)
  BY DEF TypeOK, Entries
<1> QED BY <1>1

\* Names tell files apart.
LEMMA KeysDiffer ==
  ASSUME NEW m \in Nodes, NEW n \in Nodes, NEW y, NEW z, NEW file, NEW other,
         Key(m, y, file) = Key(n, z, other)
  PROVE  m = n /\ y = z /\ file.hour = other.hour /\ file.part = other.part
BY DEF Key

\* An event is stamped by the node and the process that append it.
LEMMA StampType ==
  ASSUME TypeOK, NEW n \in Nodes, NEW s \in Streams, NEW delay \in 0..MaxDelay, delay <= time
  PROVE  /\ Stamp(n, s, delay) \in Entries
         /\ Stamp(n, s, delay).node = n /\ Stamp(n, s, delay).run = run[n]
         /\ Stamp(n, s, delay).stream = s
<1>1. time - delay \in 0..MaxTime
  BY ArchiveAssumption DEF TypeOK
<1>2. wall[n][time - delay] \in Int /\ run[n] \in Nat
  BY <1>1 DEF TypeOK
<1> QED BY <1>1, <1>2, ArchiveAssumption DEF Stamp, Entries

\* Putting open files takes no name twice.
LEMMA PutStores ==
  ASSUME TypeOK, MapsAreFinite, NamesAreFree,
         NEW n \in Nodes, NEW stored \in SUBSET DOMAIN open[n]
  PROVE  /\ Stores(Put(n, stored), n, stored)
         /\ IsFiniteSet(DOMAIN Put(n, stored)) /\ DOMAIN Put(n, stored) \subseteq Keys
         /\ \A k \in DOMAIN Put(n, stored) : Put(n, stored)[k] \in Seq(1..MaxEvents)
<1> DEFINE names == {Key(n, y, open[n][y]) : y \in stored}
           f == [y \in stored |-> Key(n, y, open[n][y])]
<1>1. DOMAIN Put(n, stored) = DOMAIN store \cup names
  BY DEF Put
<1>2. ASSUME NEW k \in DOMAIN store PROVE Put(n, stored)[k] = store[k]
  <2>1. ~ \E y \in stored : k = Key(n, y, open[n][y])
    BY DEF NamesAreFree
  <2> QED BY <1>1, <2>1 DEF Put
<1>3. ASSUME NEW y \in stored PROVE Put(n, stored)[Key(n, y, open[n][y])] = open[n][y].rows
  <2>1. Key(n, y, open[n][y]).symbol = y
    BY DEF Key
  <2> QED BY <1>1, <2>1 DEF Put
<1>4. IsFiniteSet(names)
  <2>1. IsFiniteSet(stored)
    BY FS_Subset DEF MapsAreFinite
  <2>2. f \in Surjection(stored, names)
    BY DEF Surjection
  <2> HIDE DEF names, f
  <2> QED BY <2>1, <2>2, FS_Surjection
<1>5. names \subseteq Keys
  BY OpenFileType
<1>6. IsFiniteSet(DOMAIN store \cup names) /\ DOMAIN store \cup names \subseteq Keys
  <2> HIDE DEF names
  <2> QED BY <1>4, <1>5, FS_Union DEF MapsAreFinite, TypeOK
<1>7. \A k \in DOMAIN Put(n, stored) : Put(n, stored)[k] \in Seq(1..MaxEvents)
  <2>1. \A k \in DOMAIN store : store[k] \in Seq(1..MaxEvents)
    BY DEF TypeOK
  <2>2. \A y \in stored : open[n][y].rows \in Seq(1..MaxEvents)
    BY OpenFileType DEF Files
  <2> QED BY <1>1, <1>2, <1>3, <2>1, <2>2
<1>8. Stores(Put(n, stored), n, stored)
  BY <1>1, <1>2, <1>3 DEF Stores
<1> QED BY <1>1, <1>6, <1>7, <1>8

\* The rows of open files are as many as their events, which are the process's.
LEMMA RowsAreAsManyAsEvents ==
  ASSUME TypeOK, RowsAreEvents, BufferedOnce,
         NEW n \in Nodes, NEW stored \in SUBSET DOMAIN open[n]
  PROVE  /\ Moving(n, stored) \subseteq EventsOf(n) /\ IsFiniteSet(Moving(n, stored))
         /\ RowsIn(n, stored) \in Nat /\ RowsIn(n, stored) = Cardinality(Moving(n, stored))
<1> DEFINE f == [p \in Places(n, stored) |-> open[n][p[1]].rows[p[2]]]
<1>1. \A p \in Places(n, stored) : p[1] \in stored /\ p[2] \in DOMAIN open[n][p[1]].rows
                                   /\ p = <<p[1], p[2]>>
  BY DEF Places
<1>2. \A y \in stored : \A a \in DOMAIN open[n][y].rows : <<y, a>> \in Places(n, stored)
  BY DEF Places
<1>3. \A e : e \in Moving(n, stored) <=> \E y \in stored : \E a \in DOMAIN open[n][y].rows : e = open[n][y].rows[a]
  BY DEF Moving, Members
<1>4. Moving(n, stored) \subseteq EventsOf(n)
  BY <1>3 DEF RowsAreEvents
<1>5. IsFiniteSet(Moving(n, stored))
  <2>1. DOMAIN log = 1..Len(log) /\ Len(log) \in Nat
    BY LogType
  <2>2. IsFiniteSet(1..Len(log))
    <3>1. 1 \in Int /\ Len(log) \in Int
      BY <2>1
    <3> QED BY ONLY <3>1, FS_Interval
  <2>3. Moving(n, stored) \subseteq 1..Len(log)
    BY <1>4, <2>1 DEF EventsOf
  <2> QED BY <2>2, <2>3, FS_Subset
<1>6. f \in Injection(Places(n, stored), Moving(n, stored))
  <2>1. f \in [Places(n, stored) -> Moving(n, stored)]
    BY <1>1, <1>3
  <2>2. ASSUME NEW p \in Places(n, stored), NEW q \in Places(n, stored), f[p] = f[q] PROVE p = q
    <3>1. open[n][p[1]].rows[p[2]] = open[n][q[1]].rows[q[2]]
      BY <2>2
    <3>2. p[1] = q[1] /\ p[2] = q[2]
      BY <1>1, <3>1 DEF BufferedOnce
    <3> QED BY <1>1, <3>2
  <2> QED BY <2>1, <2>2 DEF Injection, IsInjective
<1>7. f \in Surjection(Places(n, stored), Moving(n, stored))
  <2>1. \A e \in Moving(n, stored) : \E p \in Places(n, stored) : f[p] = e
    <3> SUFFICES ASSUME NEW e \in Moving(n, stored) PROVE \E p \in Places(n, stored) : f[p] = e
      OBVIOUS
    <3>1. PICK y \in stored : \E a \in DOMAIN open[n][y].rows : e = open[n][y].rows[a]
      BY <1>3
    <3>2. PICK a \in DOMAIN open[n][y].rows : e = open[n][y].rows[a]
      BY <3>1
    <3>3. <<y, a>> \in Places(n, stored) /\ f[<<y, a>>] = e
      BY <1>2, <3>2
    <3> QED BY <3>3
  <2> QED BY <1>6, <2>1 DEF Injection, Surjection
<1>8. IsFiniteSet(Places(n, stored)) /\ Cardinality(Places(n, stored)) = Cardinality(Moving(n, stored))
  <2> HIDE DEF f
  <2> QED BY <1>5, <1>6, <1>7, FS_Injection
<1> QED BY <1>4, <1>5, <1>8, FS_CardinalityType DEF RowsIn
-------------------------------------------------------------------------------
(* Type correctness.                                                         *)

\* The open files of a node, and the part numbers it remembers.
WellOpened(files) ==
    /\ DOMAIN files \subseteq Symbols /\ IsFiniteSet(DOMAIN files)
    /\ \A y \in DOMAIN files : files[y] \in Files

WellNumbered(numbers) ==
    DOMAIN numbers \subseteq Directories /\ \A d \in DOMAIN numbers : numbers[d] \in Nat

WellStored(files) ==
    /\ DOMAIN files \subseteq Keys /\ IsFiniteSet(DOMAIN files)
    /\ \A k \in DOMAIN files : files[k] \in Seq(1..MaxEvents)

\* What remains of the types when those of the three maps are taken out.
RestTypeOK ==
    /\ time \in 0..MaxTime
    /\ wall \in [Nodes -> [0..MaxTime -> Int]]
    /\ owner \in [Streams -> Nodes]
    /\ since \in [Streams -> 0..MaxTime]
    /\ up \subseteq Nodes
    /\ failures \in [Nodes -> Nat] /\ rows \in [Nodes -> Nat] /\ run \in [Nodes -> Nat]
    /\ log \in Seq(Entries)
    /\ DOMAIN spent = Mishaps /\ \A m \in Mishaps : spent[m] \in 0..Budget[m]

Typed == TypeOK /\ MapsAreFinite

\* The types, taken apart.
LEMMA TypedParts ==
  Typed <=> /\ RestTypeOK
            /\ DOMAIN open = Nodes /\ \A n \in Nodes : WellOpened(open[n])
            /\ DOMAIN parts = Nodes /\ \A n \in Nodes : WellNumbered(parts[n])
            /\ WellStored(store)
BY DEF Typed, TypeOK, MapsAreFinite, RestTypeOK, WellOpened, WellNumbered, WellStored, Files, Entries

\* And put together again after a step.
LEMMA TypedNext ==
  ASSUME RestTypeOK',
         DOMAIN open' = Nodes, \A n \in Nodes : WellOpened(open'[n]),
         DOMAIN parts' = Nodes, \A n \in Nodes : WellNumbered(parts'[n]),
         WellStored(store')
  PROVE  Typed'
BY DEF Typed, TypeOK, MapsAreFinite, RestTypeOK, WellOpened, WellNumbered, WellStored, Files, Entries

\* A mishap is spent.
LEMMA SpendType ==
  ASSUME RestTypeOK, NEW mishap \in Mishaps, Spend(mishap)
  PROVE  DOMAIN spent' = Mishaps /\ \A m \in Mishaps : spent'[m] \in 0..Budget[m]
<1>1. Budget[mishap] \in Nat
  BY ArchiveAssumption
<1>2. DOMAIN spent = Mishaps /\ \A m \in Mishaps : spent[m] \in 0..Budget[m]
  BY DEF RestTypeOK
<1>3. spent[mishap] < Budget[mishap] /\ spent' = [spent EXCEPT ![mishap] = @ + 1]
  BY DEF Spend, CanSpend
<1> QED BY <1>1, <1>2, <1>3

\* Files are added, taken away and appended to.
LEMMA OpenFilesType ==
  ASSUME NEW files, WellOpened(files)
  PROVE  /\ \A y \in Symbols, file \in Files : WellOpened(With(files, y, file))
         /\ \A gone : WellOpened(Without(files, gone))
         /\ \A y \in DOMAIN files, i \in 1..MaxEvents :
               WellOpened([files EXCEPT ![y].rows = Append(@, i)])
         /\ WellOpened(<<>>)
<1>1. ASSUME NEW y \in Symbols, NEW file \in Files PROVE WellOpened(With(files, y, file))
  <2>1. DOMAIN With(files, y, file) = DOMAIN files \cup {y}
    BY DEF With
  <2>2. IsFiniteSet(DOMAIN files \cup {y})
    BY FS_AddElement DEF WellOpened
  <2>3. \A z \in DOMAIN With(files, y, file) : With(files, y, file)[z] \in Files
    BY DEF With, WellOpened
  <2> QED BY <2>1, <2>2, <2>3 DEF WellOpened
<1>2. ASSUME NEW gone PROVE WellOpened(Without(files, gone))
  <2>1. DOMAIN Without(files, gone) = DOMAIN files \ gone
    BY DEF Without
  <2>2. IsFiniteSet(DOMAIN files \ gone)
    BY FS_Subset DEF WellOpened
  <2>3. \A z \in DOMAIN Without(files, gone) : Without(files, gone)[z] \in Files
    BY DEF Without, WellOpened
  <2> QED BY <2>1, <2>2, <2>3 DEF WellOpened
<1>3. ASSUME NEW y \in DOMAIN files, NEW i \in 1..MaxEvents
      PROVE  WellOpened([files EXCEPT ![y].rows = Append(@, i)])
  <2> DEFINE after == [files EXCEPT ![y].rows = Append(@, i)]
  <2>1. DOMAIN after = DOMAIN files
    OBVIOUS
  <2>2. files[y] \in Files
    BY DEF WellOpened
  <2>3. [files[y] EXCEPT !.rows = Append(@, i)] \in Files
    <3>1. Append(files[y].rows, i) \in Seq(1..MaxEvents)
      BY <2>2 DEF Files
    <3> QED BY <2>2, <3>1 DEF Files
  <2>4. \A z \in DOMAIN after : after[z] = IF z = y THEN [files[y] EXCEPT !.rows = Append(@, i)] ELSE files[z]
    OBVIOUS
  <2>5. \A z \in DOMAIN after : after[z] \in Files
    BY <2>1, <2>3, <2>4 DEF WellOpened
  <2> QED BY <2>1, <2>5 DEF WellOpened
<1>4. WellOpened(<<>>)
  <2>1. DOMAIN <<>> = {}
    OBVIOUS
  <2> QED BY <2>1, FS_EmptySet DEF WellOpened
<1> QED BY <1>1, <1>2, <1>3, <1>4

\* A file that is started has a number above those of its directory.
LEMMA NewFileType ==
  ASSUME Typed, NamesAreFree, NEW n \in Nodes, NEW s \in Streams, NEW e \in Entries,
         AppendToNewFile(n, s, e)
  PROVE  \E part \in Nat :
            LET y == Symbol[s]
                h == HourOf(e)
            IN  /\ y \in Symbols /\ h \in Int /\ <<y, h>> \in Directories
                /\ NewFile(n, y, e, part) \in Files
                /\ open' = [open EXCEPT ![n] = With(@, y, NewFile(n, y, e, part))]
                /\ parts' = [parts EXCEPT ![n] = With(@, <<y, h>>, part + 1)]
                /\ IF <<y, h>> \in DOMAIN parts[n] THEN part = parts[n][<<y, h>>]
                   ELSE \A k \in DOMAIN store' :
                           k.node = n /\ k.symbol = y /\ k.hour = h => k.part < part
<1> DEFINE y == Symbol[s]
           h == HourOf(e)
           part == IF <<y, h>> \in DOMAIN parts[n] THEN parts[n][<<y, h>>]
                   ELSE NextPart(Put(n, Rolled(n, y)), n, y, h)
<1>1. y \in Symbols
  BY ArchiveAssumption
<1>2. h \in Int
  <2>1. e.wall \in Int /\ Hour \in Nat \ {0}
    BY ArchiveAssumption DEF Entries
  <2> QED BY <2>1 DEF HourOf
<1>3. <<y, h>> \in Directories
  BY <1>1, <1>2 DEF Directories
<1>4. Rolled(n, y) \in SUBSET DOMAIN open[n]
  BY DEF Rolled
<1>5. /\ IsFiniteSet(DOMAIN Put(n, Rolled(n, y))) /\ DOMAIN Put(n, Rolled(n, y)) \subseteq Keys
  BY <1>4, PutStores DEF Typed
<1>6. /\ NextPart(Put(n, Rolled(n, y)), n, y, h) \in Nat
      /\ \A k \in DOMAIN Put(n, Rolled(n, y)) :
            k.node = n /\ k.symbol = y /\ k.hour = h => k.part < NextPart(Put(n, Rolled(n, y)), n, y, h)
  <2> HIDE DEF y, h
  <2> QED BY <1>1, <1>2, <1>5, NextPartIsAhead
<1>7. part \in Nat
  <2>1. <<y, h>> \in DOMAIN parts[n] => parts[n][<<y, h>>] \in Nat
    BY TypedParts DEF WellNumbered
  <2> QED BY <1>6, <2>1
<1>8. NewFile(n, y, e, part) \in Files
  <2>1. e.at \in 0..MaxTime
    BY DEF Entries
  <2>2. <<ThisEvent>> \in Seq(1..MaxEvents)
    <3>1. Len(log) \in Nat /\ Len(log) < MaxEvents
      BY LogType DEF AppendToNewFile, Arrives, Typed
    <3>2. ThisEvent \in 1..MaxEvents
      BY <3>1, ArchiveAssumption DEF ThisEvent
    <3> QED BY <3>2
  <2> HIDE DEF part, y
  <2> QED BY <1>2, <1>7, <2>1, <2>2 DEF NewFile, Files
<1>9. /\ store' = Put(n, Rolled(n, y))
      /\ open' = [open EXCEPT ![n] = With(@, y, NewFile(n, y, e, part))]
      /\ parts' = [parts EXCEPT ![n] = With(@, <<y, h>>, part + 1)]
  BY DEF AppendToNewFile
<1>10. IF <<y, h>> \in DOMAIN parts[n] THEN part = parts[n][<<y, h>>]
       ELSE \A k \in DOMAIN store' : k.node = n /\ k.symbol = y /\ k.hour = h => k.part < part
  BY <1>6, <1>9
<1> QED
  <2> HIDE DEF part
  <2> WITNESS part \in Nat
  <2> QED BY <1>1, <1>2, <1>3, <1>8, <1>9, <1>10
\* The types of the three maps after a step that changes them for one node.
LEMMA MapsAfter ==
  ASSUME Typed, NEW n \in Nodes, NEW files, NEW numbers,
         WellOpened(files), WellNumbered(numbers)
  PROVE  /\ open' = [open EXCEPT ![n] = files] =>
               DOMAIN open' = Nodes /\ \A m \in Nodes : WellOpened(open'[m])
         /\ parts' = [parts EXCEPT ![n] = numbers] =>
               DOMAIN parts' = Nodes /\ \A m \in Nodes : WellNumbered(parts'[m])
<1>1. DOMAIN open = Nodes /\ DOMAIN parts = Nodes
      /\ (\A m \in Nodes : WellOpened(open[m])) /\ \A m \in Nodes : WellNumbered(parts[m])
  BY TypedParts
<1> QED BY <1>1

\* An event is appended to the log.
LEMMA LogAfter ==
  ASSUME Typed, NEW e \in Entries, log' = Append(log, e)
  PROVE  log' \in Seq(Entries)
BY LogType DEF Typed

\* Appending an event keeps the types.
LEMMA AppendType ==
  ASSUME Typed, NamesAreFree, RowsAreEvents, BufferedOnce,
         NEW n \in Nodes, NEW s \in Streams, NEW e \in Entries, AppendStep(n, s, e)
  PROVE  Typed'
<1> DEFINE y == Symbol[s]
<1>1. y \in Symbols /\ Rolled(n, y) \in SUBSET DOMAIN open[n] /\ WellOpened(open[n])
  BY ArchiveAssumption, TypedParts DEF Rolled
<1>2. log' \in Seq(Entries)
  BY LogAfter DEF AppendStep, AppendToOpenFile, FailToRoll, AppendToNewFile, FailToList, Arrives
<1>3. RestTypeOK
  BY TypedParts
<1>4. CASE AppendToOpenFile(n, s, e)
  <2>1. y \in DOMAIN open[n] /\ ThisEvent \in 1..MaxEvents
    <3>1. Len(log) \in Nat /\ Len(log) < MaxEvents
      BY <1>4, LogType DEF AppendToOpenFile, Arrives, Typed
    <3> QED BY <1>4, <3>1, ArchiveAssumption DEF ThisEvent, AppendToOpenFile
  <2>2. WellOpened([open[n] EXCEPT ![y].rows = Append(@, ThisEvent)])
    <3> HIDE DEF y
    <3> QED BY <1>1, <2>1, OpenFilesType
  <2>3. open' = [open EXCEPT ![n] = [open[n] EXCEPT ![y].rows = Append(@, ThisEvent)]]
    BY <1>4 DEF AppendToOpenFile
  <2>4. DOMAIN open' = Nodes /\ \A m \in Nodes : WellOpened(open'[m])
    <3> HIDE DEF y
    <3> QED BY <2>2, <2>3, TypedParts, MapsAfter
  <2>5. RestTypeOK'
    BY <1>2, <1>3, <1>4 DEF RestTypeOK, AppendToOpenFile, clocks, streams
  <2>6. parts' = parts /\ store' = store
    BY <1>4 DEF AppendToOpenFile
  <2> QED BY <2>4, <2>5, <2>6, TypedParts, TypedNext
<1>5. CASE FailToRoll(n, s, e)
  <2>1. open' = [open EXCEPT ![n] = Without(open[n], {y})]
    BY <1>5 DEF FailToRoll
  <2>2. DOMAIN open' = Nodes /\ \A m \in Nodes : WellOpened(open'[m])
    BY <1>1, <2>1, TypedParts, MapsAfter, OpenFilesType
  <2>3. failures' \in [Nodes -> Nat]
    BY <1>3, <1>5 DEF RestTypeOK, FailToRoll
  <2>4. DOMAIN spent' = Mishaps /\ \A m \in Mishaps : spent'[m] \in 0..Budget[m]
    BY <1>3, <1>5, SpendType DEF FailToRoll, Mishaps
  <2>5. RestTypeOK'
    BY <1>2, <1>3, <1>5, <2>3, <2>4 DEF RestTypeOK, FailToRoll, clocks, streams
  <2>6. parts' = parts
    BY <1>5 DEF FailToRoll
  <2>7. WellStored(store')
    <3>1. y \in DOMAIN open[n] /\ \E landed \in SUBSET {y} : store' = Put(n, landed)
      BY <1>5 DEF FailToRoll, Rotates
    <3> HIDE DEF y
    <3> QED BY <3>1, PutStores DEF Typed, WellStored
  <2> QED BY <2>2, <2>5, <2>6, <2>7, TypedParts, TypedNext
<1>6. CASE AppendToNewFile(n, s, e)
  <2>1. PICK part \in Nat :
            /\ <<y, HourOf(e)>> \in Directories
            /\ NewFile(n, y, e, part) \in Files
            /\ open' = [open EXCEPT ![n] = With(@, y, NewFile(n, y, e, part))]
            /\ parts' = [parts EXCEPT ![n] = With(@, <<y, HourOf(e)>>, part + 1)]
    BY <1>6, NewFileType
  <2>2. WellOpened(With(open[n], y, NewFile(n, y, e, part)))
    <3> HIDE DEF y
    <3> QED BY <1>1, <2>1, OpenFilesType
  <2>3. WellNumbered(With(parts[n], <<y, HourOf(e)>>, part + 1))
    <3>1. WellNumbered(parts[n])
      BY TypedParts
    <3> HIDE DEF y
    <3> QED BY <2>1, <3>1 DEF WellNumbered, With
  <2>4. /\ DOMAIN open' = Nodes /\ \A m \in Nodes : WellOpened(open'[m])
        /\ DOMAIN parts' = Nodes /\ \A m \in Nodes : WellNumbered(parts'[m])
    <3>1. /\ open' = [open EXCEPT ![n] = With(open[n], y, NewFile(n, y, e, part))]
          /\ parts' = [parts EXCEPT ![n] = With(parts[n], <<y, HourOf(e)>>, part + 1)]
      BY <2>1
    <3> HIDE DEF y
    <3> QED BY <2>2, <2>3, <3>1, MapsAfter
  <2>5. WellStored(store')
    <3>1. store' = Put(n, Rolled(n, y))
      BY <1>6 DEF AppendToNewFile
    <3> HIDE DEF y
    <3> QED BY <1>1, <3>1, PutStores DEF Typed, WellStored
  <2>6. rows' \in [Nodes -> Nat]
    <3>1. rows' = [rows EXCEPT ![n] = @ + RowsIn(n, Rolled(n, y))]
      BY <1>6 DEF AppendToNewFile
    <3>2. RowsIn(n, Rolled(n, y)) \in Nat
      BY <1>1, RowsAreAsManyAsEvents DEF Typed
    <3> QED BY <1>3, <3>1, <3>2 DEF RestTypeOK
  <2>7. RestTypeOK'
    BY <1>2, <1>3, <1>6, <2>6 DEF RestTypeOK, AppendToNewFile, clocks, streams
  <2> QED BY <2>4, <2>5, <2>7, TypedParts, TypedNext
<1>7. CASE FailToList(n, s, e)
  <2>1. open' = [open EXCEPT ![n] = Without(open[n], {y})]
    BY <1>7 DEF FailToList
  <2>2. DOMAIN open' = Nodes /\ \A m \in Nodes : WellOpened(open'[m])
    BY <1>1, <2>1, TypedParts, MapsAfter, OpenFilesType
  <2>3. failures' \in [Nodes -> Nat]
    BY <1>3, <1>7 DEF RestTypeOK, FailToList
  <2>4. DOMAIN spent' = Mishaps /\ \A m \in Mishaps : spent'[m] \in 0..Budget[m]
    BY <1>3, <1>7, SpendType DEF FailToList, Mishaps
  <2>5. WellStored(store')
    <3>1. store' = Put(n, Rolled(n, y))
      BY <1>7 DEF FailToList
    <3> HIDE DEF y
    <3> QED BY <1>1, <3>1, PutStores DEF Typed, WellStored
  <2>6. rows' \in [Nodes -> Nat]
    <3>1. rows' = [rows EXCEPT ![n] = @ + RowsIn(n, Rolled(n, y))]
      BY <1>7 DEF FailToList
    <3>2. RowsIn(n, Rolled(n, y)) \in Nat
      BY <1>1, RowsAreAsManyAsEvents DEF Typed
    <3> QED BY <1>3, <3>1, <3>2 DEF RestTypeOK
  <2>7. RestTypeOK'
    BY <1>2, <1>3, <1>7, <2>3, <2>4, <2>6 DEF RestTypeOK, FailToList, clocks, streams
  <2>8. parts' = parts
    BY <1>7 DEF FailToList
  <2> QED BY <2>2, <2>5, <2>7, <2>8, TypedParts, TypedNext
<1> QED BY <1>4, <1>5, <1>6, <1>7 DEF AppendStep

\* Ending a process keeps the types.
LEMMA EndType ==
  ASSUME Typed, NamesAreFree, RowsAreEvents, BufferedOnce, NEW n \in Nodes,
         End(n)
  PROVE  Typed'
<1>1. RestTypeOK /\ WellOpened(open[n])
  BY TypedParts
<1>2. open' = [open EXCEPT ![n] = <<>>] /\ parts' = parts
  BY DEF End, Crash, Close
<1>3. DOMAIN open' = Nodes /\ \A m \in Nodes : WellOpened(open'[m])
  BY <1>1, <1>2, MapsAfter, OpenFilesType, TypedParts
<1>4. ASSUME NEW landed \in SUBSET DOMAIN open[n], Crash(n, landed) PROVE Typed'
  <2>1. DOMAIN spent' = Mishaps /\ \A m \in Mishaps : spent'[m] \in 0..Budget[m]
    BY <1>1, <1>4, SpendType DEF Crash, Mishaps
  <2>2. RestTypeOK'
    BY <1>1, <1>4, <2>1 DEF RestTypeOK, Crash, clocks, streams
  <2>3. WellStored(store')
    BY <1>4, PutStores DEF Typed, WellStored, Crash
  <2> QED BY <1>2, <1>3, <2>2, <2>3, TypedParts, TypedNext
<1>5. ASSUME NEW landed \in SUBSET DOMAIN open[n], NEW failed \in SUBSET DOMAIN open[n],
             Close(n, failed, landed)
      PROVE  Typed'
  <2> DEFINE stored == DOMAIN open[n] \ failed
  <2>2. Cardinality(failed) \in Nat
    BY <1>1, FS_Subset, FS_CardinalityType DEF WellOpened
  <2>3. DOMAIN spent' = Mishaps /\ \A m \in Mishaps : spent'[m] \in 0..Budget[m]
    <3>1. Budget["io"] \in Nat /\ Budget["down"] \in Nat
      BY ArchiveAssumption DEF Mishaps
    <3>2. DOMAIN spent = Mishaps /\ \A m \in Mishaps : spent[m] \in 0..Budget[m]
      BY <1>1 DEF RestTypeOK
    <3>3. /\ spent' = [spent EXCEPT !["io"] = @ + Cardinality(failed), !["down"] = @ + 1]
          /\ spent["io"] + Cardinality(failed) <= Budget["io"] /\ spent["down"] < Budget["down"]
      BY <1>5 DEF Close, CanSpend
    <3>4. spent["io"] \in Nat /\ spent["down"] \in Nat
      BY <3>1, <3>2 DEF Mishaps
    <3>5. /\ DOMAIN spent' = Mishaps
          /\ spent'["io"] \in 0..Budget["io"] /\ spent'["down"] \in 0..Budget["down"]
          /\ \A m \in Mishaps \ {"io", "down"} : spent'[m] = spent[m]
      BY <2>2, <3>1, <3>2, <3>3, <3>4 DEF Mishaps
    <3> QED BY <3>2, <3>5
  <2>4. WellStored(store')
    <3>1. store' = Put(n, stored \cup landed)
      BY <1>5 DEF Close
    <3> QED BY <3>1, PutStores DEF Typed, WellStored
  <2>5. rows' \in [Nodes -> Nat] /\ failures' \in [Nodes -> Nat]
    <3>1. rows' = [rows EXCEPT ![n] = @ + RowsIn(n, stored)]
          /\ failures' = [failures EXCEPT ![n] = @ + Cardinality(failed)]
      BY <1>5 DEF Close
    <3>2. RowsIn(n, stored) \in Nat
      BY RowsAreAsManyAsEvents DEF Typed
    <3> QED BY <1>1, <2>2, <3>1, <3>2 DEF RestTypeOK
  <2>6. RestTypeOK'
    BY <1>1, <1>5, <2>3, <2>5 DEF RestTypeOK, Close, clocks, streams
  <2> QED BY <1>2, <1>3, <2>4, <2>6, TypedParts, TypedNext
<1> QED BY <1>4, <1>5 DEF End

\* So does what happens to time, clocks, streams and processes that begin.
LEMMA OtherType ==
  ASSUME Typed,
         \/ Tick
         \/ \E n \in Nodes : Start(n) \/ ClockSteps(n)
         \/ \E n \in Nodes, s \in Streams : Move(s, n)
  PROVE  Typed'
<1>1. RestTypeOK
  BY TypedParts
<1> MaxDelay \in Nat /\ MaxTime \in Nat /\ time \in 0..MaxTime
  BY <1>1, ArchiveAssumption DEF RestTypeOK
<1>2. CASE Tick
  <2>1. time' \in 0..MaxTime
    BY <1>2 DEF Tick
  <2>2. RestTypeOK' /\ open' = open /\ parts' = parts /\ store' = store
    BY <1>1, <1>2, <2>1 DEF Tick, RestTypeOK, streams, writers
  <2> QED BY <2>2, TypedParts, TypedNext
<1>3. CASE \E n \in Nodes : Start(n)
  <2>1. PICK n \in Nodes : Start(n)
    BY <1>3
  <2>2. WellNumbered(<<>>)
    <3>1. DOMAIN <<>> = {}
      OBVIOUS
    <3> QED BY <3>1 DEF WellNumbered
  <2>3. DOMAIN parts' = Nodes /\ \A m \in Nodes : WellNumbered(parts'[m])
    BY <2>1, <2>2, TypedParts DEF Start
  <2>4. since' \in [Streams -> 0..MaxTime]
    BY <1>1, <2>1 DEF RestTypeOK, Start
  <2>5. failures' \in [Nodes -> Nat] /\ rows' \in [Nodes -> Nat] /\ run' \in [Nodes -> Nat]
    <3>1. failures' \in [Nodes -> Nat]
      BY <1>1, <2>1, SMTT(90) DEF RestTypeOK, Start
    <3>2. rows' \in [Nodes -> Nat]
      BY <1>1, <2>1, SMTT(90) DEF RestTypeOK, Start
    <3>3. run' \in [Nodes -> Nat]
      <4>1. run \in [Nodes -> Nat] /\ run' = [run EXCEPT ![n] = @ + 1]
        BY <1>1, <2>1 DEF RestTypeOK, Start
      <4> QED BY <4>1
    <3> QED BY <3>1, <3>2, <3>3
  <2>6. RestTypeOK'
    BY <1>1, <2>1, <2>4, <2>5 DEF RestTypeOK, Start, clocks
  <2>7. open' = open /\ store' = store
    BY <2>1 DEF Start
  <2> QED BY <2>3, <2>6, <2>7, TypedParts, TypedNext
<1>4. CASE \E n \in Nodes : ClockSteps(n)
  <2>1. PICK n \in Nodes : ClockSteps(n)
    BY <1>4
  <2>2. wall' \in [Nodes -> [0..MaxTime -> Int]]
    <3>1. wall[n] \in [0..MaxTime -> Int]
      BY <1>1 DEF RestTypeOK
    <3>2. [t \in 0..MaxTime |-> IF t < time THEN wall[n][t] ELSE wall[n][t] - 1] \in [0..MaxTime -> Int]
      <4>1. \A t \in 0..MaxTime : wall[n][t] \in Int /\ wall[n][t] - 1 \in Int
        BY <3>1
      <4> QED BY <4>1
    <3> QED BY <1>1, <2>1, <3>2 DEF RestTypeOK, ClockSteps
  <2>3. DOMAIN spent' = Mishaps /\ \A m \in Mishaps : spent'[m] \in 0..Budget[m]
    BY <1>1, <2>1, SpendType DEF ClockSteps, Mishaps
  <2>4. RestTypeOK' /\ open' = open /\ parts' = parts /\ store' = store
    BY <1>1, <2>1, <2>2, <2>3 DEF RestTypeOK, ClockSteps, streams, writers
  <2> QED BY <2>4, TypedParts, TypedNext
<1>5. CASE \E n \in Nodes, s \in Streams : Move(s, n)
  <2>1. PICK n \in Nodes, s \in Streams : Move(s, n)
    BY <1>5
  <2>2. time' \in 0..MaxTime
    BY <2>1 DEF Move
  <2>3. owner' \in [Streams -> Nodes] /\ since' \in [Streams -> 0..MaxTime]
    BY <1>1, <2>1, <2>2 DEF RestTypeOK, Move
  <2>4. DOMAIN spent' = Mishaps /\ \A m \in Mishaps : spent'[m] \in 0..Budget[m]
    BY <1>1, <2>1, SpendType DEF Move, Mishaps
  <2>5. RestTypeOK' /\ open' = open /\ parts' = parts /\ store' = store
    BY <1>1, <2>1, <2>2, <2>3, <2>4 DEF RestTypeOK, Move, writers
  <2> QED BY <2>5, TypedParts, TypedNext
<1> QED BY <1>2, <1>3, <1>4, <1>5
-------------------------------------------------------------------------------
(* A step of one node's writer, whatever it is: it stores some of the node's *)
(* open files, drops others, and appends to one or starts one.               *)

\* The log has the event that file y of node n took, if any, at its end.
LogGrows(n, e) == log' = Append(log, e) /\ e \in Entries /\ e.node = n /\ e.run = run[n]

\* File y is as it was; is one event longer; or begins with that event, under a
\* name that is ahead of its directory.
IsKept(n, y) == y \in DOMAIN open[n] /\ open'[n][y] = open[n][y]

IsLonger(n, y) ==
    /\ y \in DOMAIN open[n] /\ open'[n][y].hour = open[n][y].hour /\ open'[n][y].part = open[n][y].part
    /\ open'[n][y].rows = Append(open[n][y].rows, ThisEvent)
    /\ HourOf(log'[ThisEvent]) = open[n][y].hour

IsNew(n, y) ==
    /\ open'[n][y].rows = <<ThisEvent>>
    /\ HourOf(log'[ThisEvent]) = open'[n][y].hour
    /\ <<y, open'[n][y].hour>> \in DOMAIN parts'[n]
    /\ open'[n][y].part < parts'[n][<<y, open'[n][y].hour>>]
    /\ \A k \in DOMAIN store' :
          k.node = n /\ k.symbol = y /\ k.hour = open'[n][y].hour => k.part < open'[n][y].part

\* The numbers of the node go up, and a directory it did not know begins ahead.
NumbersGrow(n) ==
    /\ \A d \in DOMAIN parts[n] : d \in DOMAIN parts'[n] /\ parts[n][d] <= parts'[n][d]
    /\ \A d \in DOMAIN parts'[n] \ DOMAIN parts[n] : \A k \in DOMAIN store' :
          k.node = n /\ <<k.symbol, k.hour>> = d => k.part < parts'[n][d]

FileStep(n, stored, y) ==
    /\ stored \subseteq DOMAIN open[n] /\ Stores(store', n, stored)
    /\ \A m \in Nodes \ {n} : open'[m] = open[m] /\ parts'[m] = parts[m]
    /\ NumbersGrow(n)
    /\ \A z \in DOMAIN open'[n] \ {y} : IsKept(n, z) /\ z \notin stored
    /\ y \in DOMAIN open'[n] =>
          \/ IsKept(n, y) /\ y \notin stored
          \/ (\E e : LogGrows(n, e)) /\ ((IsLonger(n, y) /\ y \notin stored) \/ IsNew(n, y))
    /\ log' = log \/ \E e : LogGrows(n, e)
    /\ run' = run

\* An element appended to a sequence comes behind its others.
LEMMA AppendIs ==
  ASSUME NEW S, NEW s \in Seq(S), NEW e \in S
  PROVE  /\ DOMAIN Append(s, e) = 1..Len(s) + 1 /\ Len(Append(s, e)) = Len(s) + 1
         /\ \A i \in DOMAIN s : Append(s, e)[i] = s[i]
         /\ Append(s, e)[Len(s) + 1] = e
  OBVIOUS

\* The event that was logged is the last.
LEMMA LastEvent ==
  ASSUME TypeOK, NEW n \in Nodes, NEW e, LogGrows(n, e)
  PROVE  /\ DOMAIN log' = 1..ThisEvent /\ ThisEvent = Len(log) + 1 /\ DOMAIN log = 1..Len(log)
         /\ Len(log) \in Nat
         /\ \A i \in DOMAIN log : log'[i] = log[i]
         /\ log'[ThisEvent] = e
<1>1. log \in Seq(Entries) /\ DOMAIN log = 1..Len(log) /\ Len(log) \in Nat /\ ThisEvent = Len(log) + 1
  BY LogType DEF ThisEvent
<1>2. log' = Append(log, e) /\ e \in Entries
  BY DEF LogGrows
<1>3. /\ DOMAIN Append(log, e) = 1..Len(log) + 1
      /\ \A i \in DOMAIN log : Append(log, e)[i] = log[i]
      /\ Append(log, e)[Len(log) + 1] = e
  <2> log \in Seq(Entries) /\ e \in Entries
    BY <1>1, <1>2
  <2> QED BY ONLY log \in Seq(Entries), e \in Entries, AppendIs
<1> QED BY ONLY <1>1, <1>2, <1>3

\* What the log is after such a step.
LEMMA EventsAfter ==
  ASSUME TypeOK, NEW n \in Nodes, log' = log \/ \E e : LogGrows(n, e), run' = run
  PROVE  /\ \A i \in DOMAIN log : i \in DOMAIN log' /\ log'[i] = log[i]
         /\ DOMAIN log' \subseteq DOMAIN log \cup {ThisEvent}
         /\ ThisEvent \notin DOMAIN log
         /\ (\E e : LogGrows(n, e)) => ThisEvent \in DOMAIN log' /\ log'[ThisEvent].node = n
                                       /\ log'[ThisEvent].run = run[n] /\ ThisEvent \in EventsOf(n)'
         /\ \A m \in Nodes : EventsOf(m) \subseteq EventsOf(m)'
         /\ \A m \in Nodes : EventsOf(m)' \subseteq EventsOf(m) \cup {ThisEvent}
         /\ \A m \in Nodes \ {n} : EventsOf(m)' = EventsOf(m)
<1>1. log \in Seq(Entries) /\ DOMAIN log = 1..Len(log) /\ Len(log) \in Nat /\ ThisEvent = Len(log) + 1
  BY LogType DEF ThisEvent
<1>0. ASSUME NEW e, LogGrows(n, e)
      PROVE  /\ DOMAIN log' = 1..ThisEvent
             /\ \A i \in DOMAIN log : log'[i] = log[i]
             /\ log'[ThisEvent] = e
  BY <1>0, LastEvent
<1>2. CASE log' = log
  <2>1. ~ \E e : LogGrows(n, e)
    <3>1. ThisEvent \notin DOMAIN log'
      BY <1>1, <1>2
    <3>2. \A e : LogGrows(n, e) => ThisEvent \in DOMAIN log'
      BY <1>0, <1>1
    <3> QED BY <3>1, <3>2
  <2> QED BY <1>1, <1>2, <2>1 DEF EventsOf
<1>3. CASE \E e : LogGrows(n, e)
  <2>1. PICK e : LogGrows(n, e)
    BY <1>3
  <2>2. /\ DOMAIN log' = 1..ThisEvent
        /\ \A i \in DOMAIN log : log'[i] = log[i]
        /\ log'[ThisEvent] = e
    BY <1>0, <2>1
  <2>3. DOMAIN log' = DOMAIN log \cup {ThisEvent} /\ ThisEvent \notin DOMAIN log
    BY <1>1, <2>2
  <2>4. e.node = n /\ e.run = run[n]
    BY <2>1 DEF LogGrows
  <2> QED BY <1>3, <2>2, <2>3, <2>4 DEF EventsOf
<1> QED BY <1>2, <1>3

\* Each row of an open file was one of the same file before, which was not stored,
\* or is the new event, at one place only.
WasRow(n, z, a) ==
    /\ z \in DOMAIN open[n] /\ a \in DOMAIN open[n][z].rows
    /\ open'[n][z].rows[a] = open[n][z].rows[a]

IsTheNewRow(n, z, a) ==
    /\ \E e : LogGrows(n, e)
    /\ open'[n][z].rows[a] = ThisEvent /\ a = Len(open'[n][z].rows)

LEMMA RowsAfter ==
  ASSUME Typed, NEW n \in Nodes, NEW stored, NEW y, FileStep(n, stored, y),
         NEW z \in DOMAIN open'[n], NEW a \in DOMAIN open'[n][z].rows
  PROVE  (WasRow(n, z, a) /\ z \notin stored) \/ (IsTheNewRow(n, z, a) /\ z = y)
<1>1. CASE IsKept(n, z) /\ z \notin stored
  BY <1>1 DEF IsKept, WasRow
<1>2. CASE z = y /\ (\E e : LogGrows(n, e)) /\ IsLonger(n, y) /\ y \notin stored
  <2>1. z \in DOMAIN open[n] /\ open[n][z].rows \in Seq(1..MaxEvents)
    BY <1>2, OpenFileType DEF Typed, Files, IsLonger
  <2>2. open'[n][z].rows = Append(open[n][z].rows, ThisEvent)
    BY <1>2 DEF IsLonger
  <2>3. /\ Len(open'[n][z].rows) = Len(open[n][z].rows) + 1
        /\ DOMAIN open'[n][z].rows = 1..Len(open[n][z].rows) + 1
        /\ DOMAIN open[n][z].rows = 1..Len(open[n][z].rows)
        /\ \A b \in DOMAIN open[n][z].rows : open'[n][z].rows[b] = open[n][z].rows[b]
        /\ open'[n][z].rows[Len(open[n][z].rows) + 1] = ThisEvent
    BY <2>1, <2>2
  <2>4. CASE a \in DOMAIN open[n][z].rows
    BY <1>2, <2>1, <2>3, <2>4 DEF WasRow
  <2>5. CASE a \notin DOMAIN open[n][z].rows
    <3>1. a = Len(open[n][z].rows) + 1
      BY <2>1, <2>3, <2>5
    <3> QED BY <1>2, <2>3, <3>1 DEF IsTheNewRow
  <2> QED BY <2>4, <2>5
<1>3. CASE z = y /\ (\E e : LogGrows(n, e)) /\ IsNew(n, y)
  <2>1. open'[n][z].rows = <<ThisEvent>>
    BY <1>3 DEF IsNew
  <2>2. a = 1 /\ Len(open'[n][z].rows) = 1 /\ open'[n][z].rows[a] = ThisEvent
    BY <2>1
  <2> QED BY <1>3, <2>2 DEF IsTheNewRow
<1> QED BY <1>1, <1>2, <1>3 DEF FileStep
\* Membership in the archive and in the open files.
LEMMA StoredAre == \A i : i \in Stored <=> \E k \in DOMAIN store : \E a \in DOMAIN store[k] : i = store[k][a]
BY DEF Stored, Members

LEMMA BufferedAre ==
  \A i : i \in Buffered <=>
            \E n \in Nodes : \E y \in DOMAIN open[n] : \E a \in DOMAIN open[n][y].rows : i = open[n][y].rows[a]
BY DEF Buffered, Members

\* What is in the store after a step: a row of before, or of a file that is put.
LEMMA StoredRowAfter ==
  ASSUME NEW n \in Nodes, NEW stored, NEW y, FileStep(n, stored, y),
         NEW k \in DOMAIN store', NEW a \in DOMAIN store'[k]
  PROVE  \/ k \in DOMAIN store /\ a \in DOMAIN store[k] /\ store'[k][a] = store[k][a]
         \/ \E z \in stored : /\ z \in DOMAIN open[n] /\ k = Key(n, z, open[n][z])
                              /\ a \in DOMAIN open[n][z].rows /\ store'[k][a] = open[n][z].rows[a]
BY DEF FileStep, Stores

LEMMA StoredAfter ==
  ASSUME NEW n \in Nodes, NEW stored, NEW y, FileStep(n, stored, y)
  PROVE  Stored' = Stored \cup Moving(n, stored)
<1>1. ASSUME NEW i \in Stored' PROVE i \in Stored \cup Moving(n, stored)
  <2>1. PICK k \in DOMAIN store' : \E a \in DOMAIN store'[k] : i = store'[k][a]
    BY <1>1 DEF Stored, Members
  <2>2. PICK a \in DOMAIN store'[k] : i = store'[k][a]
    BY <2>1
  <2> QED BY <2>2, StoredRowAfter DEF Stored, Members, Moving
<1>2. ASSUME NEW i \in Stored PROVE i \in Stored'
  <2>1. PICK k \in DOMAIN store : i \in Members(store[k])
    BY <1>2 DEF Stored
  <2>2. k \in DOMAIN store' /\ store'[k] = store[k]
    BY DEF FileStep, Stores
  <2> QED BY <2>1, <2>2 DEF Stored, Members
<1>3. ASSUME NEW i \in Moving(n, stored) PROVE i \in Stored'
  <2>1. PICK z \in stored : i \in Members(open[n][z].rows)
    BY <1>3 DEF Moving
  <2>2. Key(n, z, open[n][z]) \in DOMAIN store' /\ store'[Key(n, z, open[n][z])] = open[n][z].rows
    BY DEF FileStep, Stores
  <2> QED BY <2>1, <2>2 DEF Stored, Members
<1> QED BY <1>1, <1>2, <1>3

\* Files go on holding events of their process.
LEMMA RowsAreEventsStep ==
  ASSUME Typed, RowsAreEvents, NEW n \in Nodes, NEW stored, NEW y, FileStep(n, stored, y)
  PROVE  RowsAreEvents'
<1>0. (log' = log \/ \E e : LogGrows(n, e)) /\ run' = run
  BY DEF FileStep
<1>1. \A i \in DOMAIN log' : log'[i].run <= run'[log'[i].node]
  <2>1. run[n] \in Nat
    BY DEF Typed, TypeOK
  <2>2. CASE log' = log
    BY <1>0, <2>2 DEF RowsAreEvents, FileStep
  <2>3. CASE \E e : LogGrows(n, e)
    <3>1. /\ \A i \in DOMAIN log : log'[i] = log[i]
          /\ DOMAIN log' \subseteq DOMAIN log \cup {ThisEvent}
          /\ log'[ThisEvent].node = n /\ log'[ThisEvent].run = run[n]
      BY <2>3, EventsAfter DEF Typed, FileStep
    <3> QED BY <2>1, <3>1 DEF RowsAreEvents, FileStep
  <2> QED BY <1>0, <2>2, <2>3
<1>2. ASSUME NEW m \in Nodes, NEW z \in DOMAIN open'[m], NEW a \in DOMAIN open'[m][z].rows
      PROVE  open'[m][z].rows[a] \in EventsOf(m)'
  <2>1. EventsOf(m) \subseteq EventsOf(m)'
    BY EventsAfter DEF Typed, FileStep
  <2>2. CASE m # n
    <3>1. open'[m] = open[m]
      BY <2>2 DEF FileStep
    <3> QED BY <2>1, <3>1 DEF RowsAreEvents
  <2>3. CASE m = n
    <3>1. CASE WasRow(n, z, a)
      BY <2>1, <2>3, <3>1 DEF WasRow, RowsAreEvents
    <3>2. CASE IsTheNewRow(n, z, a)
      <4>1. ThisEvent \in EventsOf(n)'
        BY <3>2, EventsAfter DEF IsTheNewRow, Typed, FileStep
      <4> QED BY <2>3, <3>2, <4>1 DEF IsTheNewRow
    <3> QED BY <2>3, <3>1, <3>2, RowsAfter
  <2> QED BY <2>2, <2>3
<1>3. ASSUME NEW k \in DOMAIN store', NEW a \in DOMAIN store'[k] PROVE store'[k][a] \in DOMAIN log'
  <2>1. DOMAIN log \subseteq DOMAIN log'
    BY EventsAfter DEF Typed, FileStep
  <2>2. store'[k][a] \in DOMAIN log
    BY StoredRowAfter DEF RowsAreEvents, EventsOf
  <2> QED BY <2>1, <2>2
<1> QED BY <1>1, <1>2, <1>3 DEF RowsAreEvents

\* A row of before is not the new event.
LEMMA OldRowIsOld ==
  ASSUME Typed, RowsAreEvents, NEW n \in Nodes, NEW stored, NEW y, FileStep(n, stored, y)
  PROVE  /\ ThisEvent \notin DOMAIN log
         /\ \A m \in Nodes : \A z \in DOMAIN open[m] : \A a \in DOMAIN open[m][z].rows :
               open[m][z].rows[a] \in DOMAIN log /\ log[open[m][z].rows[a]].node = m
         /\ Stored \subseteq DOMAIN log /\ Moving(n, stored) \subseteq DOMAIN log
<1>1. ThisEvent \notin DOMAIN log
  BY EventsAfter DEF Typed, FileStep
<1>2. \A m \in Nodes : \A z \in DOMAIN open[m] : \A a \in DOMAIN open[m][z].rows :
               open[m][z].rows[a] \in DOMAIN log /\ log[open[m][z].rows[a]].node = m
  BY DEF RowsAreEvents, EventsOf
<1>3. Stored \subseteq DOMAIN log
  BY StoredAre DEF RowsAreEvents
<1>4. Moving(n, stored) \subseteq DOMAIN log
  BY <1>2 DEF Moving, Members, FileStep
<1> QED BY <1>1, <1>2, <1>3, <1>4

\* No event is buffered twice after a step.
LEMMA BufferedOnceStep ==
  ASSUME Typed, RowsAreEvents, BufferedOnce, NEW n \in Nodes, NEW stored, NEW y, FileStep(n, stored, y)
  PROVE  BufferedOnce'
<1> SUFFICES ASSUME NEW m \in Nodes, NEW z \in DOMAIN open'[m], NEW x \in DOMAIN open'[m],
                    NEW a \in DOMAIN open'[m][z].rows, NEW b \in DOMAIN open'[m][x].rows,
                    open'[m][z].rows[a] = open'[m][x].rows[b]
             PROVE  z = x /\ a = b
  BY DEF BufferedOnce
<1>1. CASE m # n
  <2>1. open'[m] = open[m]
    BY <1>1 DEF FileStep
  <2> QED BY <2>1 DEF BufferedOnce
<1>2. CASE m = n
  <2>1. /\ (WasRow(n, z, a) /\ z \notin stored) \/ (IsTheNewRow(n, z, a) /\ z = y)
        /\ (WasRow(n, x, b) /\ x \notin stored) \/ (IsTheNewRow(n, x, b) /\ x = y)
    BY <1>2, RowsAfter
  <2>2. CASE WasRow(n, z, a) /\ WasRow(n, x, b)
    BY <1>2, <2>2 DEF WasRow, BufferedOnce
  <2>3. CASE IsTheNewRow(n, z, a) /\ IsTheNewRow(n, x, b) /\ z = y /\ x = y
    BY <1>2, <2>3 DEF IsTheNewRow
  <2>4. CASE WasRow(n, z, a) /\ IsTheNewRow(n, x, b)
    BY <1>2, <2>4, OldRowIsOld DEF WasRow, IsTheNewRow
  <2>5. CASE IsTheNewRow(n, z, a) /\ WasRow(n, x, b)
    BY <1>2, <2>5, OldRowIsOld DEF WasRow, IsTheNewRow
  <2> QED BY <2>1, <2>2, <2>3, <2>4, <2>5
<1> QED BY <1>1, <1>2

\* Nor is any archived twice, nor archived and still buffered.
LEMMA ArchivedOnceStep ==
  ASSUME Typed, RowsAreEvents, BufferedOnce, ArchivedOnce,
         NEW n \in Nodes, NEW stored, NEW y, FileStep(n, stored, y)
  PROVE  ArchivedOnce'
<1>0. \A z \in DOMAIN open[n] : \A a \in DOMAIN open[n][z].rows : open[n][z].rows[a] \notin Stored
  BY BufferedAre DEF ArchivedOnce
<1>1. ASSUME NEW j \in DOMAIN store', NEW k \in DOMAIN store',
             NEW a \in DOMAIN store'[j], NEW b \in DOMAIN store'[k], store'[j][a] = store'[k][b]
      PROVE  j = k /\ a = b
  <2> DEFINE Old(x, c) == x \in DOMAIN store /\ c \in DOMAIN store[x] /\ store'[x][c] = store[x][c]
             Put1(x, c, z) == /\ z \in DOMAIN open[n] /\ x = Key(n, z, open[n][z])
                              /\ c \in DOMAIN open[n][z].rows /\ store'[x][c] = open[n][z].rows[c]
  <2>1. (Old(j, a) \/ \E z \in stored : Put1(j, a, z)) /\ (Old(k, b) \/ \E z \in stored : Put1(k, b, z))
    BY StoredRowAfter
  <2>2. CASE Old(j, a) /\ Old(k, b)
    <3>1. store[j][a] = store[k][b]
      BY <1>1, <2>2
    <3> QED BY <2>2, <3>1 DEF ArchivedOnce
  <2>3. \A z \in stored : ~(Old(j, a) /\ Put1(k, b, z)) /\ ~(Put1(j, a, z) /\ Old(k, b))
    BY <1>0, <1>1, StoredAre
  <2>4. ASSUME NEW z \in stored, NEW x \in stored, Put1(j, a, z), Put1(k, b, x) PROVE j = k /\ a = b
    BY <1>1, <2>4 DEF BufferedOnce
  <2> QED BY <2>1, <2>2, <2>3, <2>4
<1>2. ASSUME NEW i \in Stored', i \in Buffered' PROVE FALSE
  <2>1. i \in Stored \/ i \in Moving(n, stored)
    BY StoredAfter
  <2>2. i \in DOMAIN log /\ i # ThisEvent
    BY <2>1, OldRowIsOld
  <2>3. PICK m \in Nodes : i \in UNION {Members(open'[m][z].rows) : z \in DOMAIN open'[m]}
    BY <1>2 DEF Buffered
  <2>4. PICK z \in DOMAIN open'[m] : i \in Members(open'[m][z].rows)
    BY <2>3
  <2>5. PICK a \in DOMAIN open'[m][z].rows : i = open'[m][z].rows[a]
    BY <2>4 DEF Members
  <2>6. i \in Moving(n, stored) =>
           \E x \in stored : x \in DOMAIN open[n] /\ \E b \in DOMAIN open[n][x].rows : i = open[n][x].rows[b]
    BY DEF Moving, Members, FileStep
  <2>7. CASE m # n
    <3>1. z \in DOMAIN open[m] /\ a \in DOMAIN open[m][z].rows /\ i = open[m][z].rows[a]
      BY <2>5, <2>7 DEF FileStep
    <3>2. i \notin Stored
      BY <3>1, BufferedAre DEF ArchivedOnce
    <3>3. log[i].node = m
      BY <3>1, OldRowIsOld
    <3>4. i \in Moving(n, stored) => log[i].node = n
      BY <2>6, OldRowIsOld
    <3> QED BY <2>1, <2>7, <3>2, <3>3, <3>4
  <2>8. CASE m = n
    <3>1. WasRow(n, z, a) /\ z \notin stored
      BY <2>2, <2>5, <2>8, RowsAfter DEF IsTheNewRow
    <3>2. z \in DOMAIN open[n] /\ a \in DOMAIN open[n][z].rows /\ i = open[n][z].rows[a]
      BY <2>5, <2>8, <3>1 DEF WasRow
    <3>3. i \notin Stored
      BY <1>0, <3>2
    <3>4. i \notin Moving(n, stored)
      BY <2>6, <3>1, <3>2 DEF BufferedOnce
    <3> QED BY <2>1, <3>3, <3>4
  <2> QED BY <2>7, <2>8
<1> QED BY <1>1, <1>2 DEF ArchivedOnce
-------------------------------------------------------------------------------
(* Names.                                                                    *)

\* Numbers stay ahead, and names free.
LEMMA NamesStep ==
  ASSUME Typed, Typed', PartsAreAhead, NamesAreFree,
         NEW n \in Nodes, NEW stored, NEW y, FileStep(n, stored, y)
  PROVE  PartsAreAhead' /\ NamesAreFree'
<1>1. ASSUME NEW k \in DOMAIN store'
      PROVE  \/ k \in DOMAIN store
             \/ k.node = n /\ \E z \in DOMAIN open[n] : z \in stored /\ k = Key(n, z, open[n][z])
  BY DEF FileStep, Stores, Key
<1>2. /\ DOMAIN parts = Nodes /\ DOMAIN parts' = Nodes
      /\ \A m \in Nodes : \A d \in DOMAIN parts[m] : parts[m][d] \in Nat
      /\ \A m \in Nodes : \A d \in DOMAIN parts'[m] : parts'[m][d] \in Nat
      /\ \A k \in DOMAIN store : k.part \in Nat
      /\ \A m \in Nodes : \A z \in DOMAIN open[m] : open[m][z].part \in Nat
  BY TypedParts, OpenFileType DEF Typed, TypeOK, MapsAreFinite, Keys, Files
<1>3. /\ \A d \in DOMAIN parts[n] : d \in DOMAIN parts'[n] /\ parts[n][d] <= parts'[n][d]
      /\ \A d \in DOMAIN parts'[n] \ DOMAIN parts[n] : \A k \in DOMAIN store' :
            k.node = n /\ <<k.symbol, k.hour>> = d => k.part < parts'[n][d]
  BY DEF FileStep, NumbersGrow
<1>4. \A m \in Nodes \ {n} : open'[m] = open[m] /\ parts'[m] = parts[m]
  BY DEF FileStep
<1>5. ASSUME NEW m \in Nodes, NEW k \in DOMAIN store',
             k.node = m, <<k.symbol, k.hour>> \in DOMAIN parts'[m]
      PROVE  k.part < parts'[m][<<k.symbol, k.hour>>]
  <2>1. CASE m # n
    <3>1. k \in DOMAIN store
      BY <1>1, <1>5, <2>1
    <3> QED BY <1>4, <1>5, <2>1, <3>1 DEF PartsAreAhead
  <2>2. CASE m = n /\ <<k.symbol, k.hour>> \notin DOMAIN parts[n]
    BY <1>3, <1>5, <2>2
  <2>3. CASE m = n /\ <<k.symbol, k.hour>> \in DOMAIN parts[n]
    <3> DEFINE d == <<k.symbol, k.hour>>
    <3>1. parts[n][d] \in Nat /\ parts'[n][d] \in Nat /\ parts[n][d] <= parts'[n][d]
      BY <1>2, <1>3, <2>3
    <3>2. k.part < parts[n][d] /\ k.part \in Nat
      <4>1. CASE k \in DOMAIN store
        BY <1>2, <1>5, <2>3, <4>1 DEF PartsAreAhead
      <4>2. ASSUME NEW z \in DOMAIN open[n], k = Key(n, z, open[n][z]) PROVE k.part < parts[n][d] /\ k.part \in Nat
        <5>1. k.symbol = z /\ k.hour = open[n][z].hour /\ k.part = open[n][z].part
          BY <4>2 DEF Key
        <5> QED BY <1>2, <5>1 DEF PartsAreAhead
      <4> QED BY <1>1, <4>1, <4>2
    <3> QED BY <2>3, <3>1, <3>2
  <2> QED BY <2>1, <2>2, <2>3
<1>6. ASSUME NEW m \in Nodes, NEW z \in DOMAIN open'[m]
      PROVE  /\ <<z, open'[m][z].hour>> \in DOMAIN parts'[m]
             /\ open'[m][z].part < parts'[m][<<z, open'[m][z].hour>>]
             /\ Key(m, z, open'[m][z]) \notin DOMAIN store'
  <2>1. CASE m # n
    <3>1. z \in DOMAIN open[m] /\ open'[m][z] = open[m][z] /\ parts'[m] = parts[m]
      BY <1>4, <2>1
    <3>2. Key(m, z, open[m][z]).node = m /\ Key(m, z, open[m][z]) \notin DOMAIN store
      BY <3>1 DEF Key, NamesAreFree
    <3>3. Key(m, z, open[m][z]) \notin DOMAIN store'
      BY <1>1, <2>1, <3>2
    <3> QED BY <3>1, <3>3 DEF PartsAreAhead
  <2>2. ASSUME m = n, z \in DOMAIN open[n], z \notin stored,
               open'[n][z].hour = open[n][z].hour, open'[n][z].part = open[n][z].part
        PROVE  /\ <<z, open'[m][z].hour>> \in DOMAIN parts'[m]
               /\ open'[m][z].part < parts'[m][<<z, open'[m][z].hour>>]
               /\ Key(m, z, open'[m][z]) \notin DOMAIN store'
    <3> DEFINE d == <<z, open[n][z].hour>>
    <3>1. d \in DOMAIN parts[n] /\ open[n][z].part < parts[n][d]
      BY <2>2 DEF PartsAreAhead
    <3>2. d \in DOMAIN parts'[n] /\ open[n][z].part < parts'[n][d]
      <4>1. parts[n][d] \in Nat /\ parts'[n][d] \in Nat /\ open[n][z].part \in Nat
        BY <1>2, <1>3, <2>2, <3>1
      <4> QED BY <1>3, <3>1, <4>1
    <3>3. Key(m, z, open'[m][z]) = Key(n, z, open[n][z])
      BY <2>2 DEF Key
    <3>4. Key(n, z, open[n][z]) \notin DOMAIN store
      BY <2>2 DEF NamesAreFree
    <3>5. \A x \in stored : Key(n, z, open[n][z]) # Key(n, x, open[n][x])
      BY <2>2 DEF Key
    <3> QED BY <1>1, <2>2, <3>2, <3>3, <3>4, <3>5
  <2>3. CASE m = n /\ z = y /\ IsNew(n, y)
    <3>1. /\ <<z, open'[n][z].hour>> \in DOMAIN parts'[n]
          /\ open'[n][z].part < parts'[n][<<z, open'[n][z].hour>>]
          /\ \A k \in DOMAIN store' :
                k.node = n /\ k.symbol = z /\ k.hour = open'[n][z].hour => k.part < open'[n][z].part
      BY <2>3 DEF IsNew
    <3>2. open'[n][z].part \in Nat
      BY <2>3 DEF Typed, TypeOK
    <3>3. Key(n, z, open'[n][z]) \notin DOMAIN store'
      BY <3>1, <3>2 DEF Key
    <3> QED BY <2>3, <3>1, <3>3
  <2>4. CASE m = n
    <3>1. \/ IsKept(n, z) /\ z \notin stored
          \/ z = y /\ IsLonger(n, y) /\ y \notin stored
          \/ z = y /\ IsNew(n, y)
      BY <2>4 DEF FileStep
    <3> QED BY <2>2, <2>3, <2>4, <3>1 DEF IsKept, IsLonger
  <2> QED BY <2>1, <2>4
<1> QED BY <1>5, <1>6 DEF PartsAreAhead, NamesAreFree
-------------------------------------------------------------------------------
(* The account.                                                              *)

\* rows_written goes up by the rows of the files whose upload was reported done, and
\* these are all that are stored unless the process counts a failure or ends.
RowsGrow(n, stored) ==
    \E counted \in SUBSET stored :
        /\ rows'[n] = rows[n] + Cardinality(Moving(n, counted))
        /\ n \notin up' \/ failures'[n] # 0 \/ counted = stored

\* It never counts more than the store has, nor less as long as nothing failed.
LEMMA RowsStep ==
  ASSUME Typed, RowsAreEvents, BufferedOnce, ArchivedOnce, RowsAreCounted,
         NEW n \in Nodes, NEW stored, NEW y, FileStep(n, stored, y), RowsGrow(n, stored),
         up' \subseteq up, failures'[n] = 0 => failures[n] = 0,
         \A m \in Nodes \ {n} : rows'[m] = rows[m] /\ failures'[m] = failures[m]
  PROVE  RowsAreCounted'
<1>1. /\ Moving(n, stored) \subseteq EventsOf(n) /\ IsFiniteSet(Moving(n, stored))
      /\ Stored' = Stored \cup Moving(n, stored)
  BY StoredAfter, RowsAreAsManyAsEvents DEF Typed, FileStep
<1>2. /\ \A m \in Nodes \ {n} : EventsOf(m)' = EventsOf(m)
      /\ EventsOf(n) \subseteq EventsOf(n)' /\ EventsOf(n)' \subseteq EventsOf(n) \cup {ThisEvent}
  BY EventsAfter DEF Typed, FileStep
<1>3. /\ ThisEvent \notin DOMAIN log /\ Stored \subseteq DOMAIN log /\ Moving(n, stored) \subseteq DOMAIN log
  BY OldRowIsOld
<1>4. Stored \cap Moving(n, stored) = {}
  <2>1. Moving(n, stored) \subseteq Buffered
    BY BufferedAre DEF Moving, Members, FileStep
  <2> QED BY <2>1 DEF ArchivedOnce
<1>5. ASSUME NEW m \in Nodes \ {n} PROVE EventsOf(m)' \cap Stored' = EventsOf(m) \cap Stored
  <2>1. EventsOf(m) \cap EventsOf(n) = {}
    BY DEF EventsOf
  <2> QED BY <1>1, <1>2, <2>1
<1>6. EventsOf(n)' \cap Stored' = (EventsOf(n) \cap Stored) \cup Moving(n, stored)
  BY <1>1, <1>2, <1>3
<1>7. IsFiniteSet(EventsOf(n) \cap Stored)
  <2>1. DOMAIN log = 1..Len(log) /\ Len(log) \in Nat
    BY LogType DEF Typed
  <2>2. IsFiniteSet(1..Len(log))
    <3>1. 1 \in Int /\ Len(log) \in Int
      BY <2>1
    <3> QED BY ONLY <3>1, FS_Interval
  <2>3. EventsOf(n) \cap Stored \subseteq 1..Len(log)
    BY <1>3, <2>1
  <2> QED BY <2>2, <2>3, FS_Subset
<1>8. Cardinality((EventsOf(n) \cap Stored) \cup Moving(n, stored))
      = Cardinality(EventsOf(n) \cap Stored) + Cardinality(Moving(n, stored))
  <2>1. (EventsOf(n) \cap Stored) \cap Moving(n, stored) = {}
    BY <1>4
  <2>2. /\ Cardinality((EventsOf(n) \cap Stored) \cap Moving(n, stored)) = 0
        /\ Cardinality(EventsOf(n) \cap Stored) \in Nat /\ Cardinality(Moving(n, stored)) \in Nat
    BY <1>1, <1>7, <2>1, FS_EmptySet, FS_CardinalityType
  <2>3. Cardinality((EventsOf(n) \cap Stored) \cup Moving(n, stored))
        = Cardinality(EventsOf(n) \cap Stored) + Cardinality(Moving(n, stored))
          - Cardinality((EventsOf(n) \cap Stored) \cap Moving(n, stored))
    BY <1>1, <1>7, FS_Union
  <2> QED BY <2>2, <2>3
<1>9. PICK counted \in SUBSET stored :
         /\ rows'[n] = rows[n] + Cardinality(Moving(n, counted))
         /\ n \notin up' \/ failures'[n] # 0 \/ counted = stored
  BY DEF RowsGrow
<1>10. /\ Cardinality(Moving(n, counted)) <= Cardinality(Moving(n, stored))
       /\ Cardinality(Moving(n, counted)) \in Nat /\ Cardinality(Moving(n, stored)) \in Nat
  <2>1. Moving(n, counted) \subseteq Moving(n, stored)
    BY DEF Moving
  <2> QED BY <1>1, <2>1, FS_Subset, FS_CardinalityType
<1>11. rows[n] \in Nat /\ Cardinality(EventsOf(n) \cap Stored) \in Nat
  BY <1>7, FS_CardinalityType DEF Typed, TypeOK
<1>12. rows'[n] <= Cardinality(EventsOf(n)' \cap Stored')
  <2>1. Cardinality(EventsOf(n)' \cap Stored')
        = Cardinality(EventsOf(n) \cap Stored) + Cardinality(Moving(n, stored))
    BY <1>6, <1>8
  <2>2. rows[n] <= Cardinality(EventsOf(n) \cap Stored)
    BY DEF RowsAreCounted
  <2>3. rows'[n] = rows[n] + Cardinality(Moving(n, counted))
    BY <1>9
  <2> QED BY ONLY <1>10, <1>11, <2>1, <2>2, <2>3
<1>13. n \in up' /\ failures'[n] = 0 => rows'[n] = Cardinality(EventsOf(n)' \cap Stored')
  <2> SUFFICES ASSUME n \in up', failures'[n] = 0
               PROVE  rows'[n] = Cardinality(EventsOf(n)' \cap Stored')
    OBVIOUS
  <2>1. rows'[n] = rows[n] + Cardinality(Moving(n, stored))
    BY <1>9
  <2>2. rows[n] = Cardinality(EventsOf(n) \cap Stored)
    BY DEF RowsAreCounted
  <2> QED BY <1>6, <1>8, <2>1, <2>2
<1> QED BY <1>5, <1>12, <1>13 DEF RowsAreCounted

\* The step drops no event that the process held or was given.
KeepsAll(n, stored, y) ==
    /\ \A z \in DOMAIN open[n] \ stored : z \in DOMAIN open'[n] /\ \A a \in DOMAIN open[n][z].rows :
          a \in DOMAIN open'[n][z].rows /\ open'[n][z].rows[a] = open[n][z].rows[a]
    /\ \/ log' = log
       \/ y \in DOMAIN open'[n] /\ \E a \in DOMAIN open'[n][y].rows : open'[n][y].rows[a] = ThisEvent

\* A process that goes on without having counted a failure has all its events.
LEMMA LossStep ==
  ASSUME Typed, RowsAreEvents, LossIsCounted, RowsAreCounted',
         NEW n \in Nodes, NEW stored, NEW y, FileStep(n, stored, y),
         up' \subseteq up, up \subseteq Nodes, \A m \in Nodes \ {n} : failures'[m] = failures[m],
         \/ n \notin up'
         \/ failures'[n] # 0
         \/ failures'[n] = failures[n] /\ KeepsAll(n, stored, y)
  PROVE  LossIsCounted'
<1>1. /\ \A m \in Nodes \ {n} : EventsOf(m)' = EventsOf(m)
      /\ EventsOf(n)' \subseteq EventsOf(n) \cup {ThisEvent}
      /\ Stored' = Stored \cup Moving(n, stored)
  BY EventsAfter, StoredAfter DEF Typed, FileStep
<1>2. ASSUME NEW m \in Nodes, NEW i \in EventsOf(m) \cap Buffered
      PROVE  \E z \in DOMAIN open[m] : \E a \in DOMAIN open[m][z].rows : i = open[m][z].rows[a]
  <2>1. PICK k \in Nodes : \E z \in DOMAIN open[k] : \E a \in DOMAIN open[k][z].rows : i = open[k][z].rows[a]
    BY <1>2, BufferedAre
  <2>2. i \in EventsOf(k)
    BY <2>1 DEF RowsAreEvents
  <2>3. k = m
    BY <1>2, <2>2 DEF EventsOf
  <2> QED BY <2>1, <2>3
<1>3. ASSUME NEW m \in Nodes, NEW z \in DOMAIN open'[m], NEW a \in DOMAIN open'[m][z].rows
      PROVE  open'[m][z].rows[a] \in Buffered'
  <2>1. open'[m][z].rows[a] \in Members(open'[m][z].rows)
    BY DEF Members
  <2> QED BY <2>1 DEF Buffered
<1>4. ASSUME NEW m \in up', failures'[m] = 0, NEW i \in EventsOf(m)' PROVE i \in Stored' \cup Buffered'
  <2>1. m \in Nodes /\ m \in up
    OBVIOUS
  <2>2. CASE m # n
    <3>1. i \in EventsOf(m) /\ i \in Stored \cup Buffered
      BY <1>1, <1>4, <2>1, <2>2 DEF LossIsCounted
    <3>2. CASE i \in Stored
      BY <1>1, <3>2
    <3>3. CASE i \in Buffered
      <4>1. PICK z \in DOMAIN open[m] : \E a \in DOMAIN open[m][z].rows : i = open[m][z].rows[a]
        BY <1>2, <2>1, <3>1, <3>3
      <4>2. open'[m] = open[m]
        BY <2>1, <2>2 DEF FileStep
      <4> QED BY <1>3, <2>1, <4>1, <4>2
    <3> QED BY <3>1, <3>2, <3>3
  <2>3. CASE m = n
    <3>1. failures[n] = 0 /\ KeepsAll(n, stored, y)
      BY <1>4, <2>3
    <3>2. CASE i \in EventsOf(n)
      <4>1. i \in Stored \cup Buffered
        BY <2>1, <2>3, <3>1, <3>2 DEF LossIsCounted
      <4>2. CASE i \in Stored
        BY <1>1, <4>2
      <4>3. CASE i \in Buffered
        <5>1. PICK z \in DOMAIN open[n] : \E a \in DOMAIN open[n][z].rows : i = open[n][z].rows[a]
          BY <1>2, <3>2, <4>3
        <5>2. CASE z \in stored
          BY <1>1, <5>1, <5>2 DEF Moving, Members
        <5>3. CASE z \notin stored
          <6>1. z \in DOMAIN open'[n] /\ \E a \in DOMAIN open'[n][z].rows : i = open'[n][z].rows[a]
            BY <3>1, <5>1, <5>3 DEF KeepsAll
          <6> QED BY <1>3, <6>1
        <5> QED BY <5>2, <5>3
      <4> QED BY <4>1, <4>2, <4>3
    <3>3. CASE i \notin EventsOf(n)
      <4>1. i = ThisEvent
        BY <1>1, <1>4, <2>3, <3>3
      <4>2. log' # log
        <5>1. log' = log => EventsOf(n)' = EventsOf(n)
          BY DEF EventsOf, FileStep
        <5> QED BY <1>4, <2>3, <3>3, <5>1
      <4> QED BY <1>3, <3>1, <4>1, <4>2 DEF KeepsAll
    <3> QED BY <3>2, <3>3
  <2> QED BY <2>2, <2>3
<1> QED BY <1>4 DEF LossIsCounted, RowsAreCounted
-------------------------------------------------------------------------------
(* Every action of a writer is such a step.                                  *)

AccountedStep(n, stored, y) ==
    /\ FileStep(n, stored, y) /\ RowsGrow(n, stored)
    /\ \A m \in Nodes \ {n} : rows'[m] = rows[m] /\ failures'[m] = failures[m]
    /\ up' \subseteq up /\ (failures'[n] = 0 => failures[n] = 0)
    /\ \/ n \notin up'
       \/ failures'[n] # 0
       \/ failures'[n] = failures[n] /\ KeepsAll(n, stored, y)

\* Nothing is stored, and nothing counted.
LEMMA StoresNothing ==
  ASSUME TypeOK, NEW n \in Nodes
  PROVE  /\ store' = store => Stores(store', n, {})
         /\ rows' = rows => RowsGrow(n, {})
         /\ rows' = rows => rows'[n] = rows[n] + Cardinality(Moving(n, {}))
<1>1. Moving(n, {}) = {}
  BY DEF Moving
<1>2. Cardinality(Moving(n, {})) = 0
  BY <1>1, FS_EmptySet
<1>3. rows[n] \in Nat
  BY DEF TypeOK
<1> QED BY <1>2, <1>3 DEF Stores, RowsGrow

\* The account of the rows that are put, and of the failures.
LEMMA CountersAfter ==
  ASSUME Typed, RowsAreEvents, BufferedOnce, NEW n \in Nodes, NEW stored \in SUBSET DOMAIN open[n]
  PROVE  /\ rows' = [rows EXCEPT ![n] = @ + RowsIn(n, stored)] =>
               /\ rows'[n] = rows[n] + Cardinality(Moving(n, stored))
               /\ \A m \in Nodes \ {n} : rows'[m] = rows[m]
         /\ failures' = [failures EXCEPT ![n] = @ + 1] =>
               /\ failures'[n] # 0
               /\ \A m \in Nodes \ {n} : failures'[m] = failures[m]
<1>1. rows \in [Nodes -> Nat] /\ failures \in [Nodes -> Nat]
  BY DEF Typed, TypeOK
<1>2. RowsIn(n, stored) = Cardinality(Moving(n, stored))
  BY RowsAreAsManyAsEvents DEF Typed
<1> QED BY <1>1, <1>2

\* What a file leaves behind when it is taken out of the map.
LEMMA WithoutOne ==
  ASSUME Typed, NEW n \in Nodes, NEW y, open' = [open EXCEPT ![n] = Without(@, {y})]
  PROVE  /\ \A m \in Nodes \ {n} : open'[m] = open[m]
         /\ y \notin DOMAIN open'[n]
         /\ \A z \in DOMAIN open'[n] : IsKept(n, z) /\ z # y
<1>1. DOMAIN open = Nodes
  BY TypedParts
<1>2. open'[n] = Without(open[n], {y}) /\ \A m \in Nodes \ {n} : open'[m] = open[m]
  BY <1>1
<1>3. DOMAIN open'[n] = DOMAIN open[n] \ {y} /\ \A z \in DOMAIN open'[n] : open'[n][z] = open[n][z]
  BY <1>2 DEF Without
<1> QED BY <1>2, <1>3 DEF IsKept

\* The event goes to the file that is open.
LEMMA AppendToOpenFileStep ==
  ASSUME Typed, RowsAreEvents, BufferedOnce, NEW n \in Nodes, NEW s \in Streams,
         NEW e \in Entries, e.node = n, e.run = run[n], AppendToOpenFile(n, s, e)
  PROVE  AccountedStep(n, {}, Symbol[s])
<1> DEFINE y == Symbol[s]
<1>1. /\ log' = Append(log, e) /\ y \in DOMAIN open[n]
      /\ open' = [open EXCEPT ![n][y].rows = Append(@, ThisEvent)]
      /\ UNCHANGED <<up, parts, store, failures, rows, run>>
  BY DEF AppendToOpenFile, Arrives
<1>2. LogGrows(n, e)
  BY <1>1 DEF LogGrows
<1>3. DOMAIN open = Nodes /\ open[n][y] \in Files
  BY <1>1, TypedParts, OpenFileType DEF Typed
<1> HIDE DEF y
<1>4. /\ \A m \in Nodes \ {n} : open'[m] = open[m]
      /\ DOMAIN open'[n] = DOMAIN open[n]
      /\ \A z \in DOMAIN open[n] \ {y} : open'[n][z] = open[n][z]
      /\ open'[n][y] = [open[n][y] EXCEPT !.rows = Append(@, ThisEvent)]
  BY <1>1, <1>3
<1>5. IsLonger(n, y)
  <2>1. log'[ThisEvent] = e
    BY <1>2, LastEvent DEF Typed
  <2>2. open[n][y].hour = HourOf(e)
    BY <1>1 DEF AppendToOpenFile, Rotates, y
  <2> QED BY <1>1, <1>3, <1>4, <2>1, <2>2 DEF IsLonger, Files
<1>6. NumbersGrow(n)
  <2>1. \A d \in DOMAIN parts[n] : parts[n][d] \in Nat
    BY TypedParts DEF WellNumbered
  <2> QED BY <1>1, <2>1 DEF NumbersGrow
<1>7. FileStep(n, {}, y)
  BY <1>1, <1>2, <1>4, <1>5, <1>6, StoresNothing DEF FileStep, IsKept, Typed
<1>8. KeepsAll(n, {}, y)
  <2>1. open[n][y].rows \in Seq(1..MaxEvents) /\ open'[n][y].rows = Append(open[n][y].rows, ThisEvent)
    BY <1>3, <1>5 DEF IsLonger, Files
  <2>2. /\ \A a \in DOMAIN open[n][y].rows :
              a \in DOMAIN open'[n][y].rows /\ open'[n][y].rows[a] = open[n][y].rows[a]
        /\ Len(open[n][y].rows) + 1 \in DOMAIN open'[n][y].rows
        /\ open'[n][y].rows[Len(open[n][y].rows) + 1] = ThisEvent
    BY <2>1
  <2> QED BY <1>1, <1>4, <2>2 DEF KeepsAll
<1> QED BY <1>1, <1>7, <1>8, StoresNothing DEF AccountedStep, Typed, y

\* The upload fails: the event is lost and counted, and the file is stored or lost.
LEMMA FailToRollStep ==
  ASSUME Typed, NamesAreFree, RowsAreEvents, BufferedOnce, NEW n \in Nodes, NEW s \in Streams,
         NEW e \in Entries, e.node = n, e.run = run[n], FailToRoll(n, s, e)
  PROVE  \E landed : AccountedStep(n, landed, Symbol[s])
<1> DEFINE y == Symbol[s]
<1>1. /\ log' = Append(log, e) /\ y \in DOMAIN open[n]
      /\ open' = [open EXCEPT ![n] = Without(@, {y})]
      /\ failures' = [failures EXCEPT ![n] = @ + 1]
      /\ UNCHANGED <<up, parts, rows, run>>
  BY DEF FailToRoll, Arrives, Rotates
<1>2. PICK landed \in SUBSET {y} : store' = Put(n, landed)
  BY DEF FailToRoll
<1> HIDE DEF y
<1>3. LogGrows(n, e)
  BY <1>1 DEF LogGrows
<1>4. NumbersGrow(n)
  <2>1. \A d \in DOMAIN parts[n] : parts[n][d] \in Nat
    BY TypedParts DEF WellNumbered
  <2> QED BY <1>1, <2>1 DEF NumbersGrow
<1>5. landed \in SUBSET DOMAIN open[n] /\ Stores(store', n, landed)
  BY <1>1, <1>2, PutStores DEF Typed
<1>6. FileStep(n, landed, y)
  <2>1. \A z \in DOMAIN open'[n] : IsKept(n, z) /\ z \notin landed
    BY <1>1, <1>2, WithoutOne
  <2>2. y \notin DOMAIN open'[n] /\ \A m \in Nodes \ {n} : open'[m] = open[m]
    BY <1>1, WithoutOne
  <2> QED BY <1>1, <1>3, <1>4, <1>5, <2>1, <2>2 DEF FileStep
<1>7. failures'[n] # 0 /\ \A m \in Nodes \ {n} : failures'[m] = failures[m]
  BY <1>1, <1>5, CountersAfter
<1>8. RowsGrow(n, landed)
  BY <1>1, <1>7, StoresNothing DEF RowsGrow, Typed
<1> QED BY <1>1, <1>6, <1>7, <1>8 DEF AccountedStep, y

\* The file before is stored, and the event begins the next.
LEMMA AppendToNewFileStep ==
  ASSUME Typed, Typed', PartsAreAhead, NamesAreFree, RowsAreEvents, BufferedOnce,
         NEW n \in Nodes, NEW s \in Streams,
         NEW e \in Entries, e.node = n, e.run = run[n], AppendToNewFile(n, s, e)
  PROVE  AccountedStep(n, Rolled(n, Symbol[s]), Symbol[s])
<1> DEFINE y == Symbol[s]
           d == <<y, HourOf(e)>>
           stored == Rolled(n, y)
<1>1. /\ log' = Append(log, e) /\ store' = Put(n, stored)
      /\ rows' = [rows EXCEPT ![n] = @ + RowsIn(n, stored)]
      /\ UNCHANGED <<up, failures, run>>
  BY DEF AppendToNewFile, Arrives
<1>2. LogGrows(n, e)
  BY <1>1 DEF LogGrows
<1>3. stored \in SUBSET DOMAIN open[n] /\ stored \subseteq {y}
      /\ (y \in DOMAIN open[n] => stored = {y})
  BY DEF Rolled
<1>4. PICK part \in Nat :
            /\ NewFile(n, y, e, part) \in Files
            /\ open' = [open EXCEPT ![n] = With(@, y, NewFile(n, y, e, part))]
            /\ parts' = [parts EXCEPT ![n] = With(@, d, part + 1)]
            /\ IF d \in DOMAIN parts[n] THEN part = parts[n][d]
               ELSE \A k \in DOMAIN store' :
                       k.node = n /\ k.symbol = y /\ k.hour = HourOf(e) => k.part < part
  BY NewFileType
<1>5. Stores(store', n, stored)
  <2> HIDE DEF stored
  <2> QED BY <1>1, <1>3, PutStores DEF Typed
<1>6. DOMAIN open = Nodes /\ DOMAIN parts = Nodes
      /\ (\A c \in DOMAIN parts[n] : parts[n][c] \in Nat) /\ \A k \in DOMAIN store' : k.part \in Nat
  BY TypedParts DEF WellNumbered, Typed, TypeOK, Keys
<1>7. NewFile(n, y, e, part).hour = HourOf(e) /\ NewFile(n, y, e, part).part = part
      /\ NewFile(n, y, e, part).rows = <<ThisEvent>>
  BY DEF NewFile
<1> DEFINE file == NewFile(n, y, e, part)
<1> HIDE DEF file
<1>8. /\ \A m \in Nodes \ {n} : open'[m] = open[m] /\ parts'[m] = parts[m]
      /\ DOMAIN open'[n] = DOMAIN open[n] \cup {y} /\ open'[n][y] = file
      /\ \A z \in DOMAIN open[n] \ {y} : open'[n][z] = open[n][z]
      /\ DOMAIN parts'[n] = DOMAIN parts[n] \cup {d} /\ parts'[n][d] = part + 1
      /\ \A c \in DOMAIN parts[n] \ {d} : parts'[n][c] = parts[n][c]
  <2>1. open'[n] = With(open[n], y, file) /\ parts'[n] = With(parts[n], d, part + 1)
        /\ \A m \in Nodes \ {n} : open'[m] = open[m] /\ parts'[m] = parts[m]
    BY <1>4, <1>6 DEF file
  <2> HIDE DEF d
  <2> QED BY <2>1 DEF With
<1>9. \A k \in DOMAIN store' : k.node = n /\ k.symbol = y /\ k.hour = HourOf(e) => k.part < part
  <2>1. CASE d \in DOMAIN parts[n]
    <3> SUFFICES ASSUME NEW k \in DOMAIN store', k.node = n, k.symbol = y, k.hour = HourOf(e)
                 PROVE  k.part < part
      OBVIOUS
    <3>1. part = parts[n][d]
      BY <1>4, <2>1
    <3>2. CASE k \in DOMAIN store
      BY <2>1, <3>1, <3>2 DEF PartsAreAhead
    <3>3. ASSUME NEW z \in stored, k = Key(n, z, open[n][z]) PROVE k.part < part
      <4>1. z \in DOMAIN open[n] /\ z = y /\ open[n][z].hour = HourOf(e) /\ k.part = open[n][z].part
        BY <1>3, <3>3 DEF Key
      <4> QED BY <3>1, <4>1 DEF PartsAreAhead
    <3> QED BY <1>5, <3>2, <3>3 DEF Stores
  <2>2. CASE d \notin DOMAIN parts[n]
    BY <1>4, <2>2
  <2> QED BY <2>1, <2>2
<1>10. NumbersGrow(n)
  <2>1. \A c \in DOMAIN parts[n] : c \in DOMAIN parts'[n] /\ parts[n][c] <= parts'[n][c]
    <3>1. d \in DOMAIN parts[n] => parts[n][d] <= part + 1
      BY <1>4
    <3> QED BY <1>6, <1>8, <3>1
  <2>2. ASSUME NEW c \in DOMAIN parts'[n] \ DOMAIN parts[n], NEW k \in DOMAIN store',
               k.node = n, <<k.symbol, k.hour>> = c
        PROVE  k.part < parts'[n][c]
    <3>1. c = d
      BY <1>8
    <3>2. k.symbol = y /\ k.hour = HourOf(e)
      BY <2>2, <3>1
    <3>3. k.part < part /\ k.part \in Nat
      BY <1>6, <1>9, <2>2, <3>2
    <3> QED BY <1>8, <3>1, <3>3
  <2> QED BY <2>1, <2>2 DEF NumbersGrow
<1>11. IsNew(n, y)
  <2>1. open'[n][y].hour = HourOf(e) /\ open'[n][y].part = part /\ open'[n][y].rows = <<ThisEvent>>
    BY <1>7, <1>8 DEF file
  <2>2. part < part + 1
    OBVIOUS
  <2>3. log'[ThisEvent] = e
    BY <1>2, LastEvent DEF Typed
  <2> QED BY <1>8, <1>9, <2>1, <2>2, <2>3 DEF IsNew
<1>12. FileStep(n, stored, y)
  <2>1. \A z \in DOMAIN open'[n] \ {y} : IsKept(n, z) /\ z \notin stored
    BY <1>3, <1>8 DEF IsKept
  <2> HIDE DEF y, stored
  <2> QED BY <1>1, <1>2, <1>3, <1>5, <1>8, <1>10, <1>11, <2>1 DEF FileStep
<1>13. KeepsAll(n, stored, y)
  <2>1. \A z \in DOMAIN open[n] \ stored : z \in DOMAIN open'[n] /\ open'[n][z] = open[n][z]
    BY <1>3, <1>8
  <2>2. 1 \in DOMAIN open'[n][y].rows /\ open'[n][y].rows[1] = ThisEvent
    BY <1>11 DEF IsNew
  <2> QED BY <1>8, <2>1, <2>2 DEF KeepsAll
<1>14. /\ rows'[n] = rows[n] + Cardinality(Moving(n, stored))
       /\ \A m \in Nodes \ {n} : rows'[m] = rows[m]
  <2> HIDE DEF stored
  <2> QED BY <1>1, <1>3, CountersAfter, ZenonT(60)
<1> QED BY <1>1, <1>12, <1>13, <1>14 DEF AccountedStep, RowsGrow

\* The file before is stored, and the event is lost and counted.
LEMMA FailToListStep ==
  ASSUME Typed, NamesAreFree, RowsAreEvents, BufferedOnce,
         NEW n \in Nodes, NEW s \in Streams,
         NEW e \in Entries, e.node = n, e.run = run[n], FailToList(n, s, e)
  PROVE  AccountedStep(n, Rolled(n, Symbol[s]), Symbol[s])
<1> DEFINE y == Symbol[s]
           stored == Rolled(n, y)
<1>1. /\ log' = Append(log, e) /\ store' = Put(n, stored)
      /\ rows' = [rows EXCEPT ![n] = @ + RowsIn(n, stored)]
      /\ open' = [open EXCEPT ![n] = Without(@, {y})]
      /\ failures' = [failures EXCEPT ![n] = @ + 1]
      /\ UNCHANGED <<up, parts, run>>
  BY DEF FailToList, Arrives
<1>2. LogGrows(n, e)
  BY <1>1 DEF LogGrows
<1>3. stored \in SUBSET DOMAIN open[n] /\ stored \subseteq {y}
  BY DEF Rolled
<1>4. NumbersGrow(n)
  <2>1. \A d \in DOMAIN parts[n] : parts[n][d] \in Nat
    BY TypedParts DEF WellNumbered
  <2> QED BY <1>1, <2>1 DEF NumbersGrow
<1> HIDE DEF stored
<1>5. Stores(store', n, stored)
  BY <1>1, <1>3, PutStores DEF Typed
<1>6. FileStep(n, stored, y)
  <2>1. \A z \in DOMAIN open'[n] : IsKept(n, z) /\ z \notin stored
    BY <1>1, <1>3, WithoutOne
  <2>2. y \notin DOMAIN open'[n] /\ \A m \in Nodes \ {n} : open'[m] = open[m]
    BY <1>1, WithoutOne
  <2> QED BY <1>1, <1>2, <1>3, <1>4, <1>5, <2>1, <2>2 DEF FileStep
<1>7. /\ rows'[n] = rows[n] + Cardinality(Moving(n, stored)) /\ failures'[n] # 0
      /\ \A m \in Nodes \ {n} : rows'[m] = rows[m] /\ failures'[m] = failures[m]
  BY <1>1, <1>3, CountersAfter, ZenonT(60)
<1> QED BY <1>1, <1>6, <1>7 DEF AccountedStep, RowsGrow, stored

\* The process ends, and what it had open is stored or lost.
LEMMA EndStep ==
  ASSUME Typed, NamesAreFree, RowsAreEvents, BufferedOnce, NEW n \in Nodes, End(n)
  PROVE  /\ DOMAIN open'[n] = {} /\ up' = up \ {n}
         /\ \E stored \in SUBSET DOMAIN open[n] : AccountedStep(n, stored, n)
<1>1. /\ open' = [open EXCEPT ![n] = <<>>] /\ up' = up \ {n}
      /\ UNCHANGED <<parts, run, log>>
  BY DEF End, Crash, Close
<1>2. DOMAIN open'[n] = {} /\ \A m \in Nodes \ {n} : open'[m] = open[m]
  BY <1>1, TypedParts
<1>3. NumbersGrow(n)
  <2>1. \A d \in DOMAIN parts[n] : parts[n][d] \in Nat
    BY TypedParts DEF WellNumbered
  <2> QED BY <1>1, <2>1 DEF NumbersGrow
<1>4. ASSUME NEW stored \in SUBSET DOMAIN open[n], store' = Put(n, stored) PROVE FileStep(n, stored, n)
  <2>1. Stores(store', n, stored)
    BY <1>4, PutStores DEF Typed
  <2> QED BY <1>1, <1>2, <1>3, <2>1 DEF FileStep
<1>5. n \notin up'
  BY <1>1
<1>6. failures \in [Nodes -> Nat]
  BY DEF Typed, TypeOK
<1>7. ASSUME NEW landed \in SUBSET DOMAIN open[n], Crash(n, landed)
      PROVE  AccountedStep(n, landed, n)
  <2>1. store' = Put(n, landed) /\ rows' = rows /\ failures' = failures
    BY <1>7 DEF Crash
  <2>2. RowsGrow(n, landed)
    BY <1>5, <2>1, StoresNothing DEF RowsGrow, Typed
  <2> QED BY <1>1, <1>4, <1>5, <2>1, <2>2 DEF AccountedStep
<1>8. ASSUME NEW landed \in SUBSET DOMAIN open[n], NEW failed \in SUBSET DOMAIN open[n],
             Close(n, failed, landed)
      PROVE  \E stored \in SUBSET DOMAIN open[n] : AccountedStep(n, stored, n)
  <2> DEFINE done == DOMAIN open[n] \ failed
             stored == done \cup landed
  <2>1. /\ store' = Put(n, stored) /\ rows' = [rows EXCEPT ![n] = @ + RowsIn(n, done)]
        /\ failures' = [failures EXCEPT ![n] = @ + Cardinality(failed)]
    BY <1>8 DEF Close
  <2>2. done \in SUBSET DOMAIN open[n] /\ stored \in SUBSET DOMAIN open[n] /\ done \in SUBSET stored
    OBVIOUS
  <2> HIDE DEF done, stored
  <2>3. /\ rows'[n] = rows[n] + Cardinality(Moving(n, done))
        /\ \A m \in Nodes \ {n} : rows'[m] = rows[m]
    BY <2>1, <2>2, CountersAfter
  <2>4. RowsGrow(n, stored)
    BY <1>5, <2>2, <2>3 DEF RowsGrow
  <2>5. Cardinality(failed) \in Nat
    <3>1. IsFiniteSet(DOMAIN open[n])
      BY TypedParts DEF WellOpened
    <3> QED BY <3>1, FS_Subset, FS_CardinalityType
  <2>6. /\ failures'[n] = failures[n] + Cardinality(failed) /\ failures[n] \in Nat
        /\ \A m \in Nodes \ {n} : failures'[m] = failures[m]
    BY <1>6, <2>1
  <2>7. AccountedStep(n, stored, n)
    BY <1>1, <1>4, <1>5, <2>1, <2>2, <2>3, <2>4, <2>5, <2>6 DEF AccountedStep
  <2> QED BY <2>2, <2>7
<1> QED BY <1>1, <1>2, <1>7, <1>8 DEF End

\* A writer's step of any kind.
LEMMA WriterStep ==
  ASSUME IInv, Typed', NEW n \in Nodes,
         \/ \E s \in Streams, e \in Entries :
               e.node = n /\ e.run = run[n] /\ AppendStep(n, s, e) /\ n \in up
         \/ End(n)
  PROVE  /\ \E stored, y : AccountedStep(n, stored, y)
         /\ (n \in up /\ up' = up) \/ (DOMAIN open'[n] = {} /\ up' = up \ {n})
<1> USE DEF IInv
<1>1. Typed
  BY DEF Typed
<1>2. ASSUME NEW s \in Streams, NEW e \in Entries, e.node = n, e.run = run[n], AppendStep(n, s, e)
      PROVE  up' = up /\ \E stored, y : AccountedStep(n, stored, y)
  <2>1. CASE AppendToOpenFile(n, s, e)
    <3>1. AccountedStep(n, {}, Symbol[s])
      BY <1>1, <1>2, <2>1, AppendToOpenFileStep
    <3> QED BY <2>1, <3>1 DEF AppendToOpenFile
  <2>2. CASE FailToRoll(n, s, e)
    <3>1. \E landed : AccountedStep(n, landed, Symbol[s])
      BY <1>1, <1>2, <2>2, FailToRollStep
    <3> QED BY <2>2, <3>1 DEF FailToRoll
  <2>3. CASE AppendToNewFile(n, s, e)
    <3>1. AccountedStep(n, Rolled(n, Symbol[s]), Symbol[s])
      BY <1>1, <1>2, <2>3, AppendToNewFileStep
    <3> QED BY <2>3, <3>1 DEF AppendToNewFile
  <2>4. CASE FailToList(n, s, e)
    <3>1. AccountedStep(n, Rolled(n, Symbol[s]), Symbol[s])
      BY <1>1, <1>2, <2>4, FailToListStep
    <3> QED BY <2>4, <3>1 DEF FailToList
  <2> QED BY <1>2, <2>1, <2>2, <2>3, <2>4 DEF AppendStep
<1>3. CASE End(n)
  BY <1>1, <1>3, EndStep
<1> QED BY <1>2, <1>3
-------------------------------------------------------------------------------
(* The invariant holds at first, and every step keeps it.                    *)

LEMMA InitInvariant == Init => IInv
<1> SUFFICES ASSUME Init PROVE IInv
  OBVIOUS
<1> USE DEF Init
<1>1. DOMAIN <<>> = {} /\ IsFiniteSet({}) /\ Cardinality({}) = 0
  BY FS_EmptySet
<1>2. MaxTime \in Nat /\ Budget \in [Mishaps -> Nat]
  BY ArchiveAssumption
<1>3. TypeOK
  <2>1. time \in 0..MaxTime /\ since \in [Streams -> 0..MaxTime] /\ owner \in [Streams -> Nodes]
    BY <1>2, ArchiveAssumption
  <2>2. wall \in [Nodes -> [0..MaxTime -> Int]]
    <3>1. \A n \in Nodes : Skew[n] \in Int
      BY ArchiveAssumption
    <3> QED BY <3>1
  <2>3. \A m \in Mishaps : spent[m] \in 0..Budget[m]
    BY <1>2
  <2>4. /\ up \subseteq Nodes /\ {failures, rows, run} \subseteq [Nodes -> Nat]
        /\ log \in Seq([node : Nodes, run : Nat, stream : Streams, at : 0..MaxTime, wall : Int])
    OBVIOUS
  <2>5. /\ DOMAIN store = {}
        /\ \A n \in Nodes : DOMAIN open[n] = {} /\ DOMAIN parts[n] = {}
    BY <1>1
  <2> QED BY <2>1, <2>2, <2>3, <2>4, <2>5 DEF TypeOK
<1>4. MapsAreFinite
  BY <1>1 DEF MapsAreFinite
<1>5. (\A n \in Nodes : DOMAIN open[n] = {}) /\ DOMAIN store = {} /\ DOMAIN log = {}
  BY <1>1
<1>6. Stored = {} /\ \A n \in Nodes : EventsOf(n) = {}
  BY <1>5 DEF Stored, EventsOf
<1>7. DownHoldsNothing /\ PartsAreAhead /\ NamesAreFree /\ RowsAreEvents /\ BufferedOnce
  BY <1>5 DEF DownHoldsNothing, PartsAreAhead, NamesAreFree, RowsAreEvents, BufferedOnce
<1>8. ArchivedOnce
  BY <1>5, <1>6 DEF ArchivedOnce
<1>9. RowsAreCounted
  <2>1. \A n \in Nodes : EventsOf(n) \cap Stored = {} /\ rows[n] = 0
    BY <1>6
  <2>2. 0 <= 0
    OBVIOUS
  <2> QED BY <1>1, <2>1, <2>2 DEF RowsAreCounted
<1>10. LossIsCounted
  BY <1>6, <1>9 DEF LossIsCounted, RowsAreCounted
<1> QED BY <1>3, <1>4, <1>7, <1>8, <1>9, <1>10 DEF IInv

\* Appending an event and ending a process.
LEMMA WriterInvariant ==
  ASSUME IInv, Typed', NEW n \in Nodes,
         \/ \E s \in Streams, e \in Entries :
               e.node = n /\ e.run = run[n] /\ AppendStep(n, s, e) /\ n \in up
         \/ End(n)
  PROVE  IInv'
<1>1. PICK stored, y : AccountedStep(n, stored, y)
  BY WriterStep
<1>2. (n \in up /\ up' = up) \/ (DOMAIN open'[n] = {} /\ up' = up \ {n})
  BY WriterStep
<1>3. FileStep(n, stored, y)
  BY <1>1 DEF AccountedStep
<1>4. /\ Typed /\ PartsAreAhead /\ NamesAreFree /\ RowsAreEvents /\ BufferedOnce /\ ArchivedOnce
      /\ DownHoldsNothing /\ RowsAreCounted /\ LossIsCounted
  BY DEF IInv, Typed
<1>5. PartsAreAhead' /\ NamesAreFree'
  BY <1>3, <1>4, NamesStep
<1>6. RowsAreEvents' /\ BufferedOnce' /\ ArchivedOnce'
  BY <1>3, <1>4, RowsAreEventsStep, BufferedOnceStep, ArchivedOnceStep
<1>7. RowsAreCounted'
  BY <1>1, <1>3, <1>4, RowsStep DEF AccountedStep
<1>8. LossIsCounted'
  <2>1. up \subseteq Nodes
    BY <1>4 DEF Typed, TypeOK
  <2> QED BY <1>1, <1>3, <1>4, <1>7, <2>1, LossStep DEF AccountedStep
<1>9. DownHoldsNothing'
  <2>1. \A m \in Nodes \ {n} : open'[m] = open[m]
    BY <1>3 DEF FileStep
  <2> QED BY <1>2, <1>4, <2>1 DEF DownHoldsNothing
<1> QED BY <1>5, <1>6, <1>7, <1>8, <1>9 DEF IInv, Typed

\* A process that begins knows nothing, and no event is its own.
LEMMA StartInvariant ==
  ASSUME IInv, Typed', NEW n \in Nodes, Start(n)
  PROVE  IInv'
<1>1. /\ n \notin up /\ up' = up \cup {n}
      /\ parts' = [parts EXCEPT ![n] = <<>>]
      /\ failures' = [failures EXCEPT ![n] = 0] /\ rows' = [rows EXCEPT ![n] = 0]
      /\ run' = [run EXCEPT ![n] = @ + 1]
      /\ open' = open /\ store' = store /\ log' = log
  BY DEF Start
<1>2. /\ DOMAIN parts = Nodes /\ run \in [Nodes -> Nat] /\ up \subseteq Nodes
      /\ rows \in [Nodes -> Nat] /\ failures \in [Nodes -> Nat]
  BY DEF IInv, TypeOK, MapsAreFinite
<1>3. /\ DOMAIN parts'[n] = {} /\ rows'[n] = 0 /\ run'[n] = run[n] + 1
      /\ \A m \in Nodes \ {n} : /\ parts'[m] = parts[m] /\ run'[m] = run[m]
                                /\ rows'[m] = rows[m] /\ failures'[m] = failures[m]
  <2>1. DOMAIN <<>> = {}
    OBVIOUS
  <2> QED BY <1>1, <1>2, <2>1
<1>4. DOMAIN open[n] = {}
  BY <1>1 DEF IInv, DownHoldsNothing
<1>5. Stored' = Stored /\ Buffered' = Buffered
  BY <1>1 DEF Stored, Buffered
<1>6. \A m \in Nodes \ {n} : EventsOf(m)' = EventsOf(m)
  BY <1>1, <1>3 DEF EventsOf
<1>7. EventsOf(n)' = {}
  <2>1. \A i \in DOMAIN log : log[i].node = n => log[i].run <= run[n]
    BY DEF IInv, RowsAreEvents
  <2>2. \A i \in DOMAIN log : log[i] \in Entries
    BY LogType DEF IInv
  <2>3. \A i \in DOMAIN log : log[i].run \in Nat
    BY <2>2 DEF Entries
  <2> QED BY <1>1, <1>2, <1>3, <2>1, <2>3 DEF EventsOf
<1>8. DownHoldsNothing'
  BY <1>1 DEF IInv, DownHoldsNothing
<1>9. PartsAreAhead'
  BY <1>1, <1>3, <1>4 DEF IInv, PartsAreAhead
<1>10. NamesAreFree' /\ BufferedOnce' /\ ArchivedOnce'
  BY <1>1, <1>5 DEF IInv, NamesAreFree, BufferedOnce, ArchivedOnce
<1>11. RowsAreEvents'
  <2>1. \A i \in DOMAIN log : log[i] \in Entries
    BY LogType DEF IInv
  <2>4. \A i \in DOMAIN log : log[i].node \in Nodes /\ log[i].run \in Nat
    BY <2>1 DEF Entries
  <2>2. \A i \in DOMAIN log : log[i].run <= run'[log[i].node]
    BY <1>2, <1>3, <2>4 DEF IInv, RowsAreEvents
  <2>3. ASSUME NEW m \in Nodes, NEW z \in DOMAIN open[m], NEW a \in DOMAIN open[m][z].rows
        PROVE  open[m][z].rows[a] \in EventsOf(m)'
    <3>1. m # n
      BY <1>4
    <3> QED BY <1>6, <3>1 DEF IInv, RowsAreEvents
  <2> QED BY <1>1, <2>2, <2>3 DEF IInv, RowsAreEvents
<1>12. RowsAreCounted'
  <2>1. Cardinality(EventsOf(n)' \cap Stored') = 0 /\ 0 <= 0
    BY <1>7, FS_EmptySet
  <2>2. \A m \in up' : m = n \/ m \in up
    BY <1>1
  <2> QED BY <1>3, <1>5, <1>6, <2>1, <2>2 DEF IInv, RowsAreCounted
<1>13. LossIsCounted'
  <2> SUFFICES ASSUME NEW m \in up'
               PROVE  failures'[m] = 0 => EventsOf(m)' \subseteq Stored' \cup Buffered'
    <3>1. up' \subseteq Nodes
      BY <1>1, <1>2
    <3> QED BY <1>12, <3>1 DEF LossIsCounted, RowsAreCounted
  <2>1. m \in Nodes /\ (m # n => m \in up)
    BY <1>1, <1>2
  <2> QED BY <1>3, <1>5, <1>6, <1>7, <2>1 DEF IInv, LossIsCounted
<1> QED BY <1>8, <1>9, <1>10, <1>11, <1>12, <1>13 DEF IInv, Typed

\* Nothing else that happens is a writer's.
LEMMA QuietInvariant ==
  ASSUME IInv, Typed', UNCHANGED <<writers, store, log>>
  PROVE  IInv'
<1>1. UNCHANGED <<up, open, parts, failures, rows, run, store, log>>
  BY DEF writers
<1>2. Stored' = Stored /\ Buffered' = Buffered /\ \A n \in Nodes : EventsOf(n)' = EventsOf(n)
  BY <1>1 DEF Stored, Buffered, EventsOf
<1>3. DownHoldsNothing' /\ PartsAreAhead' /\ NamesAreFree' /\ BufferedOnce' /\ ArchivedOnce'
  BY <1>1, <1>2 DEF IInv, DownHoldsNothing, PartsAreAhead, NamesAreFree, BufferedOnce, ArchivedOnce
<1>4. RowsAreEvents' /\ RowsAreCounted'
  BY <1>1, <1>2 DEF IInv, RowsAreEvents, RowsAreCounted
<1>5. LossIsCounted'
  <2>1. up \subseteq Nodes
    BY DEF IInv, TypeOK
  <2> QED BY <1>1, <1>2, <2>1 DEF IInv, LossIsCounted
<1> QED BY <1>3, <1>4, <1>5 DEF IInv, Typed

\* The writer's part of a step, with the event that is appended.
LEMMA NextIs ==
  ASSUME IInv, Next
  PROVE  \/ \E n \in Nodes, s \in Streams, e \in Entries :
               e.node = n /\ e.run = run[n] /\ AppendStep(n, s, e) /\ n \in up
         \/ \E n \in Nodes : End(n)
         \/ \E n \in Nodes : Start(n)
         \/ Tick \/ (\E n \in Nodes : ClockSteps(n)) \/ \E n \in Nodes, s \in Streams : Move(s, n)
<1>1. ASSUME NEW n \in Nodes, NEW s \in Streams, NEW delay \in 0..MaxDelay,
             delay <= time, AppendStep(n, s, Stamp(n, s, delay))
      PROVE  \E e \in Entries : e.node = n /\ e.run = run[n] /\ AppendStep(n, s, e) /\ n \in up
  <2>1. /\ Stamp(n, s, delay) \in Entries
        /\ Stamp(n, s, delay).node = n /\ Stamp(n, s, delay).run = run[n]
    BY <1>1, StampType DEF IInv
  <2> HIDE DEF Stamp
  <2>2. n \in up
    BY <1>1 DEF AppendStep, AppendToOpenFile, FailToRoll, AppendToNewFile, FailToList, Arrives
  <2> QED BY <1>1, <2>1, <2>2
<1> QED BY <1>1 DEF Next

LEMMA StepInvariant == IInv /\ [Next]_vars => IInv'
<1> SUFFICES ASSUME IInv, [Next]_vars PROVE IInv'
  OBVIOUS
<1>1. Typed /\ NamesAreFree /\ RowsAreEvents /\ BufferedOnce
  BY DEF IInv, Typed
<1>2. ASSUME NEW n \in Nodes, NEW s \in Streams, NEW e \in Entries,
             e.node = n, e.run = run[n], AppendStep(n, s, e), n \in up
      PROVE  IInv'
  <2>1. Typed'
    BY <1>1, <1>2, AppendType
  <2> QED BY <1>2, <2>1, WriterInvariant
<1>3. ASSUME NEW n \in Nodes, End(n)
      PROVE  IInv'
  <2>1. Typed'
    BY <1>1, <1>3, EndType
  <2> QED BY <1>3, <2>1, WriterInvariant
<1>4. ASSUME NEW n \in Nodes, Start(n) PROVE IInv'
  <2>1. Typed'
    BY <1>1, <1>4, OtherType
  <2> QED BY <1>4, <2>1, StartInvariant
<1>5. CASE Tick \/ (\E n \in Nodes : ClockSteps(n)) \/ \E n \in Nodes, s \in Streams : Move(s, n)
  <2>1. Typed'
    BY <1>1, <1>5, OtherType
  <2>2. UNCHANGED <<writers, store, log>>
    BY <1>5 DEF Tick, ClockSteps, Move
  <2> QED BY <2>1, <2>2, QuietInvariant
<1>6. CASE UNCHANGED vars
  <2>1. UNCHANGED <<writers, store, log>>
    BY <1>6 DEF vars, writers
  <2>2. Typed'
    BY <1>1, <1>6 DEF Typed, TypeOK, MapsAreFinite, vars
  <2> QED BY <2>1, <2>2, QuietInvariant
<1>7. CASE Next
  BY <1>2, <1>3, <1>4, <1>5, <1>7, NextIs
<1> QED BY <1>6, <1>7

-------------------------------------------------------------------------------
(* The theorems.                                                             *)

\* The inductive invariant holds of every reachable state.
THEOREM Invariance == Spec => []IInv
BY InitInvariant, StepInvariant, PTL DEF Spec

\* Every event a process was handed is in one file at one place, or a failure was
\* counted; rows_written counts no row that is not in the store, and every one that is
\* unless a failure was counted (a put that was reported failed may have landed):
\* whatever the order of rolls, failed uploads and listings, kills and starts
\* (writer.rs append, roll and close; counters.rs).
THEOREM EventsAreAccountedFor == Spec => []Inv
<1>1. IInv => Inv
  BY DEF IInv, Inv
<1> QED BY <1>1, Invariance, PTL

\* No step puts a file under a name the store has, not even the first of a process
\* that begins with no memory of its part numbers (writer.rs, parts).
THEOREM NoFileIsWrittenTwice == Spec => NothingIsOverwritten
<1> DEFINE Kept == \A k \in DOMAIN store : k \in DOMAIN store' /\ store'[k] = store[k]
<1>1. IInv /\ [Next]_vars => [Kept]_vars
  <2> SUFFICES ASSUME IInv, Next PROVE Kept
    OBVIOUS
  <2>1. ASSUME NEW n \in Nodes,
               \/ \E s \in Streams, e \in Entries :
                     e.node = n /\ e.run = run[n] /\ AppendStep(n, s, e) /\ n \in up
               \/ End(n)
        PROVE  Kept
    <3>1. Typed'
      BY <2>1, AppendType, EndType DEF IInv, Typed
    <3>2. PICK stored, y : AccountedStep(n, stored, y)
      BY <2>1, <3>1, WriterStep
    <3> QED BY <3>2 DEF AccountedStep, FileStep, Stores
  <2>2. ASSUME NEW n \in Nodes, Start(n) PROVE Kept
    BY <2>2 DEF Start
  <2>3. CASE Tick \/ (\E n \in Nodes : ClockSteps(n)) \/ \E n \in Nodes, s \in Streams : Move(s, n)
    BY <2>3 DEF Tick, ClockSteps, Move
  <2> QED BY <2>1, <2>2, <2>3, NextIs
<1> QED BY <1>1, Invariance, PTL DEF Spec, NothingIsOverwritten
-------------------------------------------------------------------------------
(* Order.  What the stamps of the events of a stream say, whoever archived   *)
(* them.                                                                     *)

\* Until a wall clock is set back, each shows the time and its skew.
ClocksRunTrue ==
    spent["step"] = 0 =>
        /\ \A n \in Nodes : \A t \in 0..MaxTime : wall[n][t] = Skew[n]
        /\ \A i \in DOMAIN log : log[i].wall = log[i].at + Skew[log[i].node]

\* The events of a stream are stamped in the order they were sent, none of them
\* in the future.
StampsAreInOrder ==
    /\ \A i \in DOMAIN log : log[i].at <= time
    /\ \A s \in Streams : since[s] <= time
    /\ \A i, j \in DOMAIN log :
          i < j /\ log[i].stream = log[j].stream => log[i].at <= log[j].at

\* A stream's owner took over after everything was stamped that reached a writer
\* before the last event of another node.
OwnersComeLater ==
    \A i \in DOMAIN log : log[i].node # owner[log[i].stream] =>
        \A x \in 1..i : log[x].at < since[log[i].stream]

\* What was logged up to the event of one node is older than a later event of the
\* same stream by another.
HandoversAreClean ==
    \A i, j \in DOMAIN log :
        i < j /\ log[i].stream = log[j].stream /\ log[i].node # log[j].node =>
            \A x \in 1..i : log[x].at < log[j].at

LogInv == ClocksRunTrue /\ StampsAreInOrder /\ OwnersComeLater /\ HandoversAreClean

\* The members of the log, and the numbers of a typed state.
LEMMA LogNumbers ==
  ASSUME TypeOK
  PROVE  /\ DOMAIN log = 1..Len(log) /\ Len(log) \in Nat
         /\ \A i \in DOMAIN log : /\ log[i].node \in Nodes /\ log[i].stream \in Streams
                                  /\ log[i].at \in 0..MaxTime /\ log[i].wall \in Int
         /\ time \in Nat /\ MaxTime \in Nat /\ MaxDelay \in Nat
         /\ \A s \in Streams : owner[s] \in Nodes /\ since[s] \in Nat
         /\ spent["step"] \in Nat
<1>1. DOMAIN log = 1..Len(log) /\ Len(log) \in Nat /\ \A i \in DOMAIN log : log[i] \in Entries
  BY LogType
<1>2. MaxTime \in Nat /\ MaxDelay \in Nat /\ Budget["step"] \in Nat
  BY ArchiveAssumption DEF Mishaps
<1>3. time \in 0..MaxTime /\ owner \in [Streams -> Nodes] /\ since \in [Streams -> 0..MaxTime]
      /\ spent["step"] \in 0..Budget["step"]
  BY DEF TypeOK, Mishaps
<1> QED BY <1>1, <1>2, <1>3 DEF Entries

\* An append logs its event, and leaves clocks and streams alone.
LEMMA AppendLogs ==
  ASSUME TypeOK, MapsAreFinite, NEW n \in Nodes, NEW s \in Streams, NEW e, AppendStep(n, s, e)
  PROVE  /\ Arrives(n, s, e) /\ UNCHANGED <<time, wall, owner, since>>
         /\ spent'["step"] = spent["step"]
<1>1. DOMAIN spent = Mishaps
  BY DEF MapsAreFinite
<1>2. CASE AppendToOpenFile(n, s, e)
  BY <1>2 DEF AppendToOpenFile, clocks, streams
<1>3. CASE FailToRoll(n, s, e)
  BY <1>1, <1>3 DEF FailToRoll, clocks, streams, Spend, Mishaps
<1>4. CASE AppendToNewFile(n, s, e)
  BY <1>4 DEF AppendToNewFile, clocks, streams
<1>5. CASE FailToList(n, s, e)
  BY <1>1, <1>5 DEF FailToList, clocks, streams, Spend, Mishaps
<1> QED BY <1>2, <1>3, <1>4, <1>5 DEF AppendStep

\* The order is kept when an event is logged, which its owner stamped since it took
\* the stream over.
LEMMA AppendKeepsOrder ==
  ASSUME TypeOK, LogInv, NEW n \in Nodes, NEW s \in Streams, NEW delay \in 0..MaxDelay, delay <= time,
         Arrives(n, s, Stamp(n, s, delay)), UNCHANGED <<time, wall, owner, since>>,
         spent'["step"] = spent["step"]
  PROVE  LogInv'
<1> DEFINE e == Stamp(n, s, delay)
<1>1. /\ e.node = n /\ e.stream = s /\ e.at = time - delay /\ e.wall = e.at + wall[n][e.at]
      /\ LogGrows(n, e)
  <2>1. e.node = n /\ e.stream = s /\ e.at = time - delay /\ e.wall = e.at + wall[n][e.at]
    BY DEF Stamp
  <2>2. e \in Entries /\ e.run = run[n]
    BY StampType
  <2> HIDE DEF e
  <2> QED BY <2>1, <2>2 DEF LogGrows, Arrives, e
<1>2. /\ owner[s] = n /\ e.at >= since[s]
      /\ \A i \in DOMAIN log : log[i].stream = s => log[i].at <= e.at
  BY DEF Arrives
<1> HIDE DEF e
<1>3. /\ DOMAIN log' = 1..ThisEvent /\ ThisEvent = Len(log) + 1 /\ DOMAIN log = 1..Len(log)
      /\ Len(log) \in Nat
      /\ \A i \in DOMAIN log : log'[i] = log[i]
      /\ log'[ThisEvent] = e
  BY <1>1, LastEvent
<1>4. /\ \A i \in DOMAIN log : /\ log[i].node \in Nodes /\ log[i].stream \in Streams
                               /\ log[i].at \in 0..MaxTime /\ log[i].wall \in Int
      /\ time \in Nat /\ since[s] \in Nat /\ e.at \in 0..MaxTime /\ e.at <= time
  <2>1. time \in 0..MaxTime
    BY DEF TypeOK
  <2> QED BY <1>1, <2>1, LogNumbers
<1>5. \A i \in DOMAIN log' : i \in DOMAIN log \/ i = ThisEvent
  BY <1>3
<1>6. ClocksRunTrue'
  <2> SUFFICES ASSUME spent'["step"] = 0
               PROVE  /\ \A m \in Nodes : \A t \in 0..MaxTime : wall'[m][t] = Skew[m]
                      /\ \A i \in DOMAIN log' : log'[i].wall = log'[i].at + Skew[log'[i].node]
    BY DEF ClocksRunTrue
  <2>1. /\ \A m \in Nodes : \A t \in 0..MaxTime : wall[m][t] = Skew[m]
        /\ \A i \in DOMAIN log : log[i].wall = log[i].at + Skew[log[i].node]
    BY DEF LogInv, ClocksRunTrue
  <2>2. e.wall = e.at + Skew[e.node]
    BY <1>1, <1>4, <2>1
  <2> QED BY <1>3, <1>5, <2>1, <2>2
<1>7. StampsAreInOrder'
  <2>1. \A i \in DOMAIN log' : log'[i].at <= time'
    BY <1>3, <1>4, <1>5 DEF LogInv, StampsAreInOrder
  <2>2. ASSUME NEW i \in DOMAIN log', NEW j \in DOMAIN log', i < j, log'[i].stream = log'[j].stream
        PROVE  log'[i].at <= log'[j].at
    <3>1. i \in DOMAIN log /\ log'[i] = log[i]
      BY <1>3, <2>2
    <3>2. CASE j \in DOMAIN log
      BY <1>3, <2>2, <3>1, <3>2 DEF LogInv, StampsAreInOrder
    <3>3. CASE j = ThisEvent
      BY <1>1, <1>2, <1>3, <2>2, <3>1, <3>3
    <3> QED BY <1>5, <3>2, <3>3
  <2> QED BY <2>1, <2>2 DEF LogInv, StampsAreInOrder
<1>8. OwnersComeLater'
  <2> SUFFICES ASSUME NEW i \in DOMAIN log', log'[i].node # owner'[log'[i].stream], NEW x \in 1..i
               PROVE  log'[x].at < since'[log'[i].stream]
    BY DEF OwnersComeLater
  <2>1. i \in DOMAIN log
    BY <1>1, <1>2, <1>3, <1>5
  <2>2. x \in DOMAIN log /\ log'[x] = log[x] /\ log'[i] = log[i]
    BY <1>3, <2>1
  <2> QED BY <2>1, <2>2 DEF LogInv, OwnersComeLater
<1>9. HandoversAreClean'
  <2> SUFFICES ASSUME NEW i \in DOMAIN log', NEW j \in DOMAIN log',
                      i < j, log'[i].stream = log'[j].stream, log'[i].node # log'[j].node, NEW x \in 1..i
               PROVE  log'[x].at < log'[j].at
    BY DEF HandoversAreClean
  <2>1. i \in DOMAIN log /\ log'[i] = log[i] /\ x \in DOMAIN log /\ log'[x] = log[x]
    BY <1>3
  <2>2. CASE j \in DOMAIN log
    BY <1>3, <2>1, <2>2 DEF LogInv, HandoversAreClean
  <2>3. CASE j = ThisEvent
    <3>1. log[i].stream = s /\ log[i].node # owner[log[i].stream]
      BY <1>1, <1>2, <1>3, <2>1, <2>3
    <3>2. log[x].at < since[s]
      BY <2>1, <3>1 DEF LogInv, OwnersComeLater
    <3> QED BY <1>2, <1>3, <1>4, <2>1, <2>3, <3>2
  <2> QED BY <1>5, <2>2, <2>3
<1> QED BY <1>6, <1>7, <1>8, <1>9 DEF LogInv

\* Nor does anything else disturb it.
LEMMA OthersKeepOrder ==
  ASSUME TypeOK, MapsAreFinite, LogInv, log' = log,
         \/ UNCHANGED <<time, wall, owner, since>> /\ spent'["step"] = spent["step"]
         \/ \E n \in Nodes : Start(n)
         \/ Tick \/ (\E n \in Nodes : ClockSteps(n)) \/ \E n \in Nodes, s \in Streams : Move(s, n)
  PROVE  LogInv'
<1>1. /\ DOMAIN log = 1..Len(log) /\ Len(log) \in Nat
      /\ \A i \in DOMAIN log : /\ log[i].node \in Nodes /\ log[i].stream \in Streams
                               /\ log[i].at \in Nat
      /\ time \in Nat /\ MaxDelay \in Nat
      /\ \A s \in Streams : owner[s] \in Nodes /\ since[s] \in Nat
      /\ spent["step"] \in Nat
  BY LogNumbers
<1>2. DOMAIN spent = Mishaps /\ "step" \in Mishaps /\ "move" \in Mishaps
      /\ owner \in [Streams -> Nodes] /\ since \in [Streams -> 0..MaxTime]
  BY DEF MapsAreFinite, Mishaps, TypeOK
<1>3. HandoversAreClean'
  BY DEF LogInv, HandoversAreClean
<1>4. CASE UNCHANGED <<time, wall, owner, since>> /\ spent'["step"] = spent["step"]
  BY <1>4 DEF LogInv, ClocksRunTrue, StampsAreInOrder, OwnersComeLater, HandoversAreClean
<1>5. ASSUME NEW n \in Nodes, Start(n) PROVE LogInv'
  <2>1. /\ since' = [s \in Streams |-> IF owner[s] = n THEN time ELSE since[s]]
        /\ UNCHANGED <<time, wall, owner, spent>>
    BY <1>5 DEF Start, clocks
  <2>2. ClocksRunTrue'
    BY <2>1 DEF LogInv, ClocksRunTrue
  <2>3. StampsAreInOrder'
    BY <1>1, <2>1 DEF LogInv, StampsAreInOrder
  <2>4. \A s \in Streams : since[s] <= since'[s] /\ since'[s] \in Nat
    BY <1>1, <2>1 DEF LogInv, StampsAreInOrder
  <2>5. OwnersComeLater'
    <3> SUFFICES ASSUME NEW i \in DOMAIN log, log[i].node # owner[log[i].stream], NEW x \in 1..i
                 PROVE  log[x].at < since'[log[i].stream]
      BY <2>1 DEF OwnersComeLater
    <3>1. x \in DOMAIN log
      BY <1>1
    <3>2. log[x].at < since[log[i].stream]
      BY DEF LogInv, OwnersComeLater
    <3> QED BY <1>1, <2>4, <3>1, <3>2
  <2> QED BY <1>3, <2>2, <2>3, <2>5 DEF LogInv
<1>6. CASE Tick
  <2>1. time' = time + 1 /\ UNCHANGED <<wall, owner, since, spent>>
    BY <1>6 DEF Tick, streams
  <2>2. StampsAreInOrder'
    BY <1>1, <2>1 DEF LogInv, StampsAreInOrder
  <2> QED BY <1>3, <2>1, <2>2 DEF LogInv, ClocksRunTrue, OwnersComeLater
<1>7. ASSUME NEW n \in Nodes, ClockSteps(n) PROVE LogInv'
  <2>1. spent'["step"] # 0 /\ UNCHANGED <<time, owner, since>>
    BY <1>1, <1>2, <1>7 DEF ClockSteps, streams, Spend
  <2> QED BY <1>3, <2>1 DEF LogInv, ClocksRunTrue, StampsAreInOrder, OwnersComeLater
<1>8. ASSUME NEW n \in Nodes, NEW s \in Streams, Move(s, n) PROVE LogInv'
  <2>1. /\ time' = time + MaxDelay + 1 /\ owner' = [owner EXCEPT ![s] = n]
        /\ since' = [since EXCEPT ![s] = time'] /\ wall' = wall /\ spent'["step"] = spent["step"]
    BY <1>2, <1>8 DEF Move, Spend
  <2>2. \A r \in Streams : /\ owner'[r] = IF r = s THEN n ELSE owner[r]
                           /\ since'[r] = IF r = s THEN time' ELSE since[r]
    BY <1>2, <2>1
  <2>3. StampsAreInOrder'
    BY <1>1, <2>1, <2>2 DEF LogInv, StampsAreInOrder
  <2>4. OwnersComeLater'
    <3> SUFFICES ASSUME NEW i \in DOMAIN log, log[i].node # owner'[log[i].stream], NEW x \in 1..i
                 PROVE  log[x].at < since'[log[i].stream]
      BY DEF OwnersComeLater
    <3>1. x \in DOMAIN log /\ log[i].stream \in Streams
      BY <1>1
    <3>2. CASE log[i].stream = s
      <4>1. log[x].at <= time
        BY <3>1 DEF LogInv, StampsAreInOrder
      <4> QED BY <1>1, <2>1, <2>2, <3>1, <3>2, <4>1
    <3>3. CASE log[i].stream # s
      BY <2>2, <3>1, <3>3 DEF LogInv, OwnersComeLater
    <3> QED BY <3>2, <3>3
  <2> QED BY <1>3, <2>1, <2>3, <2>4 DEF LogInv, ClocksRunTrue
<1> QED BY <1>4, <1>5, <1>6, <1>7, <1>8

-------------------------------------------------------------------------------
(* What the files say.                                                       *)

\* Rows of events of one node and one hour.
OfHour(sequence, n, hour) ==
    \A a \in DOMAIN sequence : log[sequence[a]].node = n /\ HourOf(log[sequence[a]]) = hour

\* The rows of a file are its writer's events of its hour.
FilesHoldTheirHour ==
    /\ \A n \in Nodes : \A y \in DOMAIN open[n] : OfHour(open[n][y].rows, n, open[n][y].hour)
    /\ \A k \in DOMAIN store : OfHour(store[k], k.node, k.hour)

Grows(sequence) == \A a, b \in DOMAIN sequence : a < b => sequence[a] < sequence[b]
IsBefore(first, second) == \A a \in DOMAIN first, b \in DOMAIN second : first[a] < second[b]

\* They are in the order in which they were logged.
RowsAreInOrder ==
    /\ \A n \in Nodes : \A y \in DOMAIN open[n] : Grows(open[n][y].rows)
    /\ \A k \in DOMAIN store : Grows(store[k])

\* So are the parts of a directory.
PartsAreInOrder ==
    \A j, k \in DOMAIN store :
        j.node = k.node /\ j.symbol = k.symbol /\ j.hour = k.hour /\ j.part < k.part
        => IsBefore(store[j], store[k])

\* An open file comes after all those of its symbol that its node has stored.
OpenFilesAreLast ==
    \A n \in Nodes : \A y \in DOMAIN open[n] : \A k \in DOMAIN store :
        k.node = n /\ k.symbol = y =>
            /\ IsBefore(store[k], open[n][y].rows)
            /\ k.hour = open[n][y].hour => k.part < open[n][y].part

FileInv == FilesHoldTheirHour /\ RowsAreInOrder /\ PartsAreInOrder /\ OpenFilesAreLast

\* What a step makes of a file that is open after it: m's file z is as it was, or it
\* was given the new event, which is behind all that there were.
IsAsBefore(m, z, n, stored) ==
    z \in DOMAIN open[m] /\ open'[m][z] = open[m][z] /\ (m = n => z \notin stored)
GotMore(m, z, n, stored) ==
    /\ m = n /\ z \notin stored /\ IsLonger(n, z)
    /\ log'[ThisEvent].node = n
IsFresh(m, z, n) == m = n /\ IsNew(n, z) /\ log'[ThisEvent].node = n

LEMMA OpenAfter ==
  ASSUME Typed, NEW n \in Nodes, NEW stored, NEW y, FileStep(n, stored, y),
         NEW m \in Nodes, NEW z \in DOMAIN open'[m]
  PROVE  IsAsBefore(m, z, n, stored) \/ GotMore(m, z, n, stored) \/ IsFresh(m, z, n)
<1>1. CASE m # n
  BY <1>1 DEF FileStep, IsAsBefore
<1>2. CASE m = n /\ z # y
  BY <1>2 DEF FileStep, IsAsBefore, IsKept
<1>3. CASE m = n /\ z = y
  <2>1. (\E e : LogGrows(n, e)) => log'[ThisEvent].node = n
    BY EventsAfter DEF Typed, FileStep
  <2> QED BY <1>3, <2>1 DEF FileStep, IsAsBefore, IsKept, GotMore, IsFresh
<1> QED BY <1>1, <1>2, <1>3

\* The events of before the step, wherever they are.
LEMMA OldEvents ==
  ASSUME Typed, RowsAreEvents, NEW n \in Nodes, NEW stored, NEW y, FileStep(n, stored, y)
  PROVE  /\ ThisEvent \in Nat
         /\ \A i \in DOMAIN log : i \in Nat /\ i < ThisEvent /\ log'[i] = log[i]
         /\ \A m \in Nodes : \A z \in DOMAIN open[m] :
               /\ open[m][z].rows \in Seq(1..MaxEvents)
               /\ \A a \in DOMAIN open[m][z].rows : open[m][z].rows[a] \in DOMAIN log
         /\ \A k \in DOMAIN store : \A a \in DOMAIN store[k] : store[k][a] \in DOMAIN log
         /\ \A k \in DOMAIN store' : \A a \in DOMAIN store'[k] : store'[k][a] \in DOMAIN log
<1>1. DOMAIN log = 1..Len(log) /\ Len(log) \in Nat /\ ThisEvent = Len(log) + 1
  BY LogType DEF Typed, ThisEvent
<1>2. \A i \in DOMAIN log : log'[i] = log[i]
  BY EventsAfter DEF Typed, FileStep
<1>3. \A m \in Nodes : \A z \in DOMAIN open[m] :
         /\ open[m][z].rows \in Seq(1..MaxEvents)
         /\ \A a \in DOMAIN open[m][z].rows : open[m][z].rows[a] \in DOMAIN log
  BY OpenFileType, OldRowIsOld DEF Typed, Files
<1>4. \A k \in DOMAIN store : \A a \in DOMAIN store[k] : store[k][a] \in DOMAIN log
  BY DEF RowsAreEvents
<1>5. \A k \in DOMAIN store' : \A a \in DOMAIN store'[k] : store'[k][a] \in DOMAIN log
  BY <1>3, <1>4, StoredRowAfter
<1> QED BY <1>1, <1>2, <1>3, <1>4, <1>5

\* A file in the store after the step was there, or is one that was put.
LEMMA StoreAfter ==
  ASSUME NEW n \in Nodes, NEW stored, NEW y, FileStep(n, stored, y), NEW k \in DOMAIN store'
  PROVE  \/ k \in DOMAIN store /\ store'[k] = store[k]
         \/ /\ k.node = n /\ k.symbol \in stored /\ k.symbol \in DOMAIN open[n]
            /\ k.hour = open[n][k.symbol].hour /\ k.part = open[n][k.symbol].part
            /\ store'[k] = open[n][k.symbol].rows
<1>1. CASE k \in DOMAIN store
  BY <1>1 DEF FileStep, Stores
<1>2. CASE k \notin DOMAIN store
  <2>1. PICK z \in stored : k = Key(n, z, open[n][z])
    BY <1>2 DEF FileStep, Stores
  <2>2. /\ store'[k] = open[n][z].rows /\ z \in DOMAIN open[n]
        /\ k.node = n /\ k.symbol = z /\ k.hour = open[n][z].hour /\ k.part = open[n][z].part
    BY <2>1 DEF FileStep, Stores, Key
  <2> QED BY <2>2
<1> QED BY <1>1, <1>2

\* The row that was appended is the last, and the others are as they were.
LEMMA LongerRows ==
  ASSUME NEW n \in Nodes, NEW z, IsLonger(n, z), open[n][z].rows \in Seq(1..MaxEvents)
  PROVE  /\ DOMAIN open[n][z].rows = 1..Len(open[n][z].rows) /\ Len(open[n][z].rows) \in Nat
         /\ DOMAIN open'[n][z].rows = 1..Len(open[n][z].rows) + 1
         /\ \A a \in DOMAIN open[n][z].rows : open'[n][z].rows[a] = open[n][z].rows[a]
         /\ open'[n][z].rows[Len(open[n][z].rows) + 1] = ThisEvent
BY DEF IsLonger

\* Files that are put, appended to or begun stay in the order of their events.
LEMMA FilesKeepOrder ==
  ASSUME Typed, RowsAreEvents, FileInv, NEW n \in Nodes, NEW stored, NEW y, FileStep(n, stored, y)
  PROVE  FileInv'
<1>1. /\ ThisEvent \in Nat
      /\ \A i \in DOMAIN log : i \in Nat /\ i < ThisEvent /\ log'[i] = log[i]
      /\ \A m \in Nodes : \A z \in DOMAIN open[m] :
            /\ open[m][z].rows \in Seq(1..MaxEvents)
            /\ \A a \in DOMAIN open[m][z].rows : open[m][z].rows[a] \in DOMAIN log
      /\ \A k \in DOMAIN store : \A a \in DOMAIN store[k] : store[k][a] \in DOMAIN log
      /\ \A k \in DOMAIN store' : \A a \in DOMAIN store'[k] : store'[k][a] \in DOMAIN log
  BY OldEvents
<1>2. FilesHoldTheirHour'
  <2>1. ASSUME NEW m \in Nodes, NEW z \in DOMAIN open'[m], NEW a \in DOMAIN open'[m][z].rows
        PROVE  /\ log'[open'[m][z].rows[a]].node = m
               /\ HourOf(log'[open'[m][z].rows[a]]) = open'[m][z].hour
    <3>1. CASE IsAsBefore(m, z, n, stored)
      BY <1>1, <3>1 DEF IsAsBefore, FileInv, FilesHoldTheirHour, OfHour
    <3>2. CASE GotMore(m, z, n, stored)
      <4>1. z \in DOMAIN open[n] /\ open'[n][z].hour = open[n][z].hour
            /\ HourOf(log'[ThisEvent]) = open[n][z].hour /\ log'[ThisEvent].node = n /\ m = n
        BY <3>2 DEF GotMore, IsLonger
      <4>2. /\ DOMAIN open[n][z].rows = 1..Len(open[n][z].rows) /\ Len(open[n][z].rows) \in Nat
            /\ DOMAIN open'[n][z].rows = 1..Len(open[n][z].rows) + 1
            /\ \A b \in DOMAIN open[n][z].rows : open'[n][z].rows[b] = open[n][z].rows[b]
            /\ open'[n][z].rows[Len(open[n][z].rows) + 1] = ThisEvent
        BY <1>1, <3>2, <4>1, LongerRows DEF GotMore
      <4>3. CASE a \in DOMAIN open[n][z].rows
        BY <1>1, <4>1, <4>2, <4>3, SMTT(90) DEF FileInv, FilesHoldTheirHour, OfHour
      <4>4. CASE a = Len(open[n][z].rows) + 1
        BY <4>1, <4>2, <4>4
      <4> QED BY <4>1, <4>2, <4>3, <4>4
    <3>3. CASE IsFresh(m, z, n)
      <4>1. /\ open'[m][z].rows = <<ThisEvent>> /\ HourOf(log'[ThisEvent]) = open'[m][z].hour
            /\ log'[ThisEvent].node = m
        BY <3>3 DEF IsFresh, IsNew
      <4>2. a = 1 /\ open'[m][z].rows[a] = ThisEvent
        BY <4>1
      <4> QED BY <4>1, <4>2
    <3> QED BY <3>1, <3>2, <3>3, OpenAfter
  <2>2. ASSUME NEW k \in DOMAIN store', NEW a \in DOMAIN store'[k]
        PROVE  log'[store'[k][a]].node = k.node /\ HourOf(log'[store'[k][a]]) = k.hour
    <3>1. CASE k \in DOMAIN store /\ store'[k] = store[k]
      BY <1>1, <3>1 DEF FileInv, FilesHoldTheirHour, OfHour
    <3>2. CASE /\ k.node = n /\ k.symbol \in DOMAIN open[n]
               /\ k.hour = open[n][k.symbol].hour
               /\ store'[k] = open[n][k.symbol].rows
      BY <1>1, <3>2 DEF FileInv, FilesHoldTheirHour, OfHour
    <3> QED BY <3>1, <3>2, StoreAfter
  <2> QED BY <2>1, <2>2 DEF FilesHoldTheirHour, OfHour
<1>3. RowsAreInOrder'
  <2>1. ASSUME NEW m \in Nodes, NEW z \in DOMAIN open'[m],
               NEW a \in DOMAIN open'[m][z].rows, NEW b \in DOMAIN open'[m][z].rows, a < b
        PROVE  open'[m][z].rows[a] < open'[m][z].rows[b]
    <3>1. CASE IsAsBefore(m, z, n, stored)
      BY <2>1, <3>1 DEF IsAsBefore, FileInv, RowsAreInOrder, Grows
    <3>2. CASE GotMore(m, z, n, stored)
      <4>1. m = n /\ z \in DOMAIN open[n]
        BY <3>2 DEF GotMore, IsLonger
      <4>2. /\ DOMAIN open[n][z].rows = 1..Len(open[n][z].rows) /\ Len(open[n][z].rows) \in Nat
            /\ DOMAIN open'[n][z].rows = 1..Len(open[n][z].rows) + 1
            /\ \A c \in DOMAIN open[n][z].rows : open'[n][z].rows[c] = open[n][z].rows[c]
            /\ open'[n][z].rows[Len(open[n][z].rows) + 1] = ThisEvent
        BY <1>1, <3>2, <4>1, LongerRows DEF GotMore
      <4>3. a \in DOMAIN open[n][z].rows
        BY <2>1, <4>1, <4>2
      <4>4. CASE b \in DOMAIN open[n][z].rows
        BY <2>1, <4>1, <4>2, <4>3, <4>4 DEF FileInv, RowsAreInOrder, Grows
      <4>5. CASE b = Len(open[n][z].rows) + 1
        BY <1>1, <4>1, <4>2, <4>3, <4>5
      <4> QED BY <4>1, <4>2, <4>4, <4>5
    <3>3. CASE IsFresh(m, z, n)
      <4>1. open'[m][z].rows = <<ThisEvent>>
        BY <3>3 DEF IsFresh, IsNew
      <4> QED BY <2>1, <4>1
    <3> QED BY <3>1, <3>2, <3>3, OpenAfter
  <2>2. ASSUME NEW k \in DOMAIN store' PROVE Grows(store'[k])
    BY StoreAfter DEF FileInv, RowsAreInOrder
  <2> QED BY <2>1, <2>2 DEF RowsAreInOrder, Grows
<1>4. PartsAreInOrder'
  <2> SUFFICES ASSUME NEW j \in DOMAIN store', NEW k \in DOMAIN store',
                      j.node = k.node, j.symbol = k.symbol, j.hour = k.hour, j.part < k.part
               PROVE  IsBefore(store'[j], store'[k])
    BY DEF PartsAreInOrder, IsBefore
  <2> DEFINE WasStored(f) == f \in DOMAIN store /\ store'[f] = store[f]
             WasOpen(f) == /\ f.node = n /\ f.symbol \in DOMAIN open[n]
                        /\ f.hour = open[n][f.symbol].hour /\ f.part = open[n][f.symbol].part
                        /\ store'[f] = open[n][f.symbol].rows
  <2>1. (WasStored(j) \/ WasOpen(j)) /\ (WasStored(k) \/ WasOpen(k))
    BY StoreAfter
  <2>2. CASE WasStored(j) /\ WasStored(k)
    BY <2>2 DEF FileInv, PartsAreInOrder
  <2>3. CASE WasStored(j) /\ WasOpen(k)
    BY <2>3 DEF FileInv, OpenFilesAreLast
  <2>4. CASE WasOpen(j)
    <3>1. j.part \in Nat
      BY <2>4, OpenFileType DEF Typed, Files
    <3>2. CASE WasStored(k)
      <4>1. k.part < j.part /\ k.part \in Nat
        BY <2>4, <3>2 DEF FileInv, OpenFilesAreLast, Typed, TypeOK, Keys
      <4> QED BY <3>1, <4>1
    <3>3. CASE WasOpen(k)
      BY <2>4, <3>1, <3>3
    <3> QED BY <2>1, <3>2, <3>3
  <2> QED BY <2>1, <2>2, <2>3, <2>4
<1>5. OpenFilesAreLast'
  <2> SUFFICES ASSUME NEW m \in Nodes, NEW z \in DOMAIN open'[m], NEW k \in DOMAIN store',
                      k.node = m, k.symbol = z
               PROVE  /\ IsBefore(store'[k], open'[m][z].rows)
                      /\ k.hour = open'[m][z].hour => k.part < open'[m][z].part
    BY DEF OpenFilesAreLast, IsBefore
  <2>1. CASE IsAsBefore(m, z, n, stored)
    <3>1. k \in DOMAIN store /\ store'[k] = store[k]
      BY <2>1, StoreAfter DEF IsAsBefore
    <3> QED BY <2>1, <3>1 DEF IsAsBefore, FileInv, OpenFilesAreLast
  <2>2. CASE GotMore(m, z, n, stored)
    <3>1. m = n /\ z \in DOMAIN open[n] /\ open'[n][z].hour = open[n][z].hour
          /\ open'[n][z].part = open[n][z].part
      BY <2>2 DEF GotMore, IsLonger
    <3>2. k \in DOMAIN store /\ store'[k] = store[k]
      BY <2>2, StoreAfter DEF GotMore
    <3>3. /\ DOMAIN open[n][z].rows = 1..Len(open[n][z].rows) /\ Len(open[n][z].rows) \in Nat
          /\ DOMAIN open'[n][z].rows = 1..Len(open[n][z].rows) + 1
          /\ \A b \in DOMAIN open[n][z].rows : open'[n][z].rows[b] = open[n][z].rows[b]
          /\ open'[n][z].rows[Len(open[n][z].rows) + 1] = ThisEvent
      BY <1>1, <2>2, <3>1, LongerRows DEF GotMore
    <3>4. ASSUME NEW a \in DOMAIN store[k], NEW b \in DOMAIN open'[n][z].rows
          PROVE  store[k][a] < open'[n][z].rows[b]
      <4>1. CASE b \in DOMAIN open[n][z].rows
        BY <3>1, <3>2, <3>3, <4>1 DEF FileInv, OpenFilesAreLast, IsBefore
      <4>2. CASE b = Len(open[n][z].rows) + 1
        BY <1>1, <3>2, <3>3, <4>2
      <4> QED BY <3>3, <4>1, <4>2
    <3> QED BY <3>1, <3>2, <3>4 DEF FileInv, OpenFilesAreLast, IsBefore
  <2>3. CASE IsFresh(m, z, n)
    <3>1. /\ m = n /\ open'[n][z].rows = <<ThisEvent>>
          /\ k.hour = open'[n][z].hour => k.part < open'[n][z].part
      BY <2>3 DEF IsFresh, IsNew
    <3>2. \A b \in DOMAIN open'[n][z].rows : open'[n][z].rows[b] = ThisEvent
      BY <3>1
    <3> QED BY <1>1, <3>1, <3>2 DEF IsBefore
  <2> QED BY <2>1, <2>2, <2>3, OpenAfter
<1> QED BY <1>2, <1>3, <1>4, <1>5 DEF FileInv

-------------------------------------------------------------------------------
(* Both are invariants.                                                      *)

OrderInv == LogInv /\ FileInv

LEMMA OrderInit == Init => OrderInv
<1> SUFFICES ASSUME Init PROVE OrderInv
  OBVIOUS
<1>1. /\ DOMAIN log = {} /\ DOMAIN store = {} /\ \A n \in Nodes : DOMAIN open[n] = {}
  BY DEF Init
<1>2. /\ \A n \in Nodes : \A t \in 0..MaxTime : wall[n][t] = Skew[n]
      /\ time = 0 /\ \A s \in Streams : since[s] = 0
  BY DEF Init
<1>3. LogInv
  BY <1>1, <1>2 DEF LogInv, ClocksRunTrue, StampsAreInOrder, OwnersComeLater, HandoversAreClean
<1>4. FileInv
  BY <1>1 DEF FileInv, FilesHoldTheirHour, RowsAreInOrder, PartsAreInOrder, OpenFilesAreLast
<1> QED BY <1>3, <1>4 DEF OrderInv

\* Files that nobody touches keep their order.
LEMMA QuietFiles ==
  ASSUME FileInv, UNCHANGED <<open, store, log>>
  PROVE  FileInv'
BY DEF FileInv, FilesHoldTheirHour, RowsAreInOrder, PartsAreInOrder, OpenFilesAreLast,
       OfHour, Grows, IsBefore

LEMMA OrderStep == IInv /\ IInv' /\ OrderInv /\ [Next]_vars => OrderInv'
<1> SUFFICES ASSUME IInv, IInv', OrderInv, [Next]_vars PROVE OrderInv'
  OBVIOUS
<1>1. Typed /\ Typed' /\ TypeOK /\ MapsAreFinite /\ RowsAreEvents /\ LogInv /\ FileInv
  BY DEF IInv, Typed, OrderInv
<1>2. ASSUME NEW n \in Nodes, NEW s \in Streams, NEW delay \in 0..MaxDelay,
             delay <= time, AppendStep(n, s, Stamp(n, s, delay))
      PROVE  OrderInv'
  <2>1. /\ Arrives(n, s, Stamp(n, s, delay)) /\ UNCHANGED <<time, wall, owner, since>>
        /\ spent'["step"] = spent["step"]
    BY <1>1, <1>2, AppendLogs
  <2>2. LogInv'
    BY <1>1, <1>2, <2>1, AppendKeepsOrder
  <2>3. /\ Stamp(n, s, delay) \in Entries
        /\ Stamp(n, s, delay).node = n /\ Stamp(n, s, delay).run = run[n]
    BY <1>1, <1>2, StampType
  <2>4. n \in up
    BY <2>1 DEF Arrives
  <2> HIDE DEF Stamp
  <2>5. \E stored, y : AccountedStep(n, stored, y)
    BY <1>1, <1>2, <2>3, <2>4, WriterStep
  <2>6. FileInv'
    BY <1>1, <2>5, FilesKeepOrder DEF AccountedStep
  <2> QED BY <2>2, <2>6 DEF OrderInv
<1>3. ASSUME NEW n \in Nodes, End(n)
      PROVE  OrderInv'
  <2>1. log' = log /\ UNCHANGED <<time, wall, owner, since>> /\ spent'["step"] = spent["step"]
    BY <1>1, <1>3 DEF End, Crash, Close, clocks, streams, Spend, MapsAreFinite, Mishaps
  <2>2. LogInv'
    BY <1>1, <2>1, OthersKeepOrder
  <2>3. \E stored, y : AccountedStep(n, stored, y)
    BY <1>1, <1>3, WriterStep
  <2>4. FileInv'
    BY <1>1, <2>3, FilesKeepOrder DEF AccountedStep
  <2> QED BY <2>2, <2>4 DEF OrderInv
<1>4. CASE \/ \E n \in Nodes : Start(n)
           \/ Tick \/ (\E n \in Nodes : ClockSteps(n)) \/ \E n \in Nodes, s \in Streams : Move(s, n)
  <2>1. UNCHANGED <<open, store, log>>
    BY <1>4 DEF Start, Tick, ClockSteps, Move, writers
  <2>2. LogInv'
    BY <1>1, <1>4, <2>1, OthersKeepOrder
  <2> QED BY <1>1, <2>1, <2>2, QuietFiles DEF OrderInv
<1>5. CASE UNCHANGED vars
  <2>1. UNCHANGED <<open, store, log, time, wall, owner, since, spent>>
    BY <1>5 DEF vars
  <2>2. LogInv'
    BY <1>1, <2>1, OthersKeepOrder
  <2> QED BY <1>1, <2>1, <2>2, QuietFiles DEF OrderInv
<1>6. CASE Next
  BY <1>2, <1>3, <1>4, <1>6 DEF Next
<1> QED BY <1>5, <1>6

\* The events of a stream are logged in the order of their stamps, and every file, and
\* the files of every directory, have theirs in the order of the log: whatever is
\* rolled, lost, moved or started again (writer.rs append, start_file and next_part).
THEOREM OrderInvariance == Spec => []OrderInv
<1>1. IInv /\ IInv' /\ OrderInv /\ [Next]_vars => OrderInv'
  BY OrderStep
<1> QED BY <1>1, OrderInit, Invariance, PTL DEF Spec

-------------------------------------------------------------------------------
(* The order in which they are read.                                         *)

\* A set of natural numbers has a least member.
LEMMA LeastOf ==
  ASSUME NEW T \in SUBSET Nat, T # {}
  PROVE  \E m \in T : \A k \in T : m <= k
<1> DEFINE Less == OpToRel(<, Nat)
<1>1. \A u, v \in Nat : u < v => <<u, v>> \in Less
  BY DEF OpToRel
<1>2. IsWellFoundedOn(Less, Nat)
  BY NatLessThanWellFounded
<1> HIDE DEF Less
<1>3. PICK m \in T : \A k \in T : ~ (<<k, m>> \in Less)
  BY <1>2, WFMin
<1>4. ASSUME NEW k \in T PROVE m <= k
  <2>1. m \in Nat /\ k \in Nat /\ ~(k < m)
    BY <1>1, <1>3
  <2> QED BY <2>1
<1> QED BY <1>3, <1>4

\* An earlier wall clock is not in a later hour.
LEMMA HoursFollowClocks ==
  ASSUME NEW w \in Int, NEW v \in Int, w <= v
  PROVE  w \div Hour <= v \div Hour /\ w \div Hour \in Int /\ v \div Hour \in Int
         /\ (w >= 0 => w \div Hour >= 0)
BY ArchiveAssumption

\* What is archived at a place.
IsAPlaceOf(p, y) ==
    /\ p[1] \in Keys /\ p[1].symbol = y /\ p[2] \in Nat
    /\ EventAt(p) \in DOMAIN log
    /\ Partition(p) = log[EventAt(p)].node /\ p[1].hour = HourOf(log[EventAt(p)])
    /\ p[1].hour \in Nat /\ log[EventAt(p)].wall \in Nat

LEMMA PlacesAre ==
  ASSUME IInv, OrderInv, ClocksAgree, NEW y \in Symbols
  PROVE  \A p \in ArchivedPlaces(y) :
            /\ p = <<p[1], p[2]>> /\ p[1] \in DOMAIN store /\ p[2] \in DOMAIN store[p[1]]
            /\ IsAPlaceOf(p, y)
<1> SUFFICES ASSUME NEW p \in ArchivedPlaces(y)
             PROVE  /\ p = <<p[1], p[2]>> /\ p[1] \in DOMAIN store /\ p[2] \in DOMAIN store[p[1]]
                    /\ IsAPlaceOf(p, y)
  OBVIOUS
<1>1. /\ p = <<p[1], p[2]>> /\ p[1] \in DOMAIN store /\ p[1].symbol = y
      /\ p[2] \in DOMAIN store[p[1]]
  BY DEF ArchivedPlaces
<1>2. p[1] \in Keys /\ p[2] \in Nat
  <2>1. store[p[1]] \in Seq(1..MaxEvents)
    BY <1>1 DEF IInv, TypeOK
  <2> QED BY <1>1, <2>1 DEF IInv, TypeOK
<1>3. /\ EventAt(p) \in DOMAIN log
      /\ Partition(p) = log[EventAt(p)].node /\ p[1].hour = HourOf(log[EventAt(p)])
  BY <1>1 DEF IInv, RowsAreEvents, OrderInv, FileInv, FilesHoldTheirHour, OfHour, EventAt, Partition
<1>4. log[EventAt(p)].wall \in Nat
  <2>1. /\ log[EventAt(p)].node \in Nodes /\ log[EventAt(p)].at \in 0..MaxTime
    BY <1>3, LogNumbers DEF IInv
  <2>2. log[EventAt(p)].wall = log[EventAt(p)].at + Skew[log[EventAt(p)].node]
    BY <1>3 DEF OrderInv, LogInv, ClocksRunTrue, ClocksAgree
  <2> QED BY <2>1, <2>2, ArchiveAssumption
<1>5. p[1].hour \in Nat
  BY <1>3, <1>4, HoursFollowClocks DEF HourOf
<1> QED BY <1>1, <1>2, <1>3, <1>4, <1>5 DEF IsAPlaceOf

\* The clock that stamped an event tells which of two was stamped first.
LEMMA WallsTell ==
  ASSUME IInv, OrderInv, ClocksAgree, NEW i \in DOMAIN log, NEW j \in DOMAIN log
  PROVE  /\ log[i].wall < log[j].wall <=> log[i].at < log[j].at
         /\ HourOf(log[i]) < HourOf(log[j]) => log[i].at < log[j].at
<1>1. /\ log[i].node \in Nodes /\ log[i].at \in 0..MaxTime /\ log[i].wall \in Int
      /\ log[j].node \in Nodes /\ log[j].at \in 0..MaxTime /\ log[j].wall \in Int
      /\ MaxTime \in Nat
  BY LogNumbers DEF IInv
<1>2. /\ log[i].wall = log[i].at + Skew[log[i].node]
      /\ log[j].wall = log[j].at + Skew[log[j].node]
      /\ \A n \in Nodes : \A t \in 0..MaxTime : wall[n][t] = Skew[n]
  BY DEF OrderInv, LogInv, ClocksRunTrue, ClocksAgree
<1>3. Skew[log[i].node] = Skew[log[j].node] /\ Skew[log[i].node] \in Nat
  <2>1. wall[log[i].node] = wall[log[j].node] /\ 0 \in 0..MaxTime
    BY <1>1 DEF ClocksAgree
  <2>2. wall[log[i].node][0] = Skew[log[i].node] /\ wall[log[j].node][0] = Skew[log[j].node]
    BY <1>1, <1>2, <2>1
  <2> QED BY <1>1, <2>1, <2>2, ArchiveAssumption
<1>4. log[i].wall < log[j].wall <=> log[i].at < log[j].at
  BY <1>1, <1>2, <1>3
<1>5. HourOf(log[i]) < HourOf(log[j]) => log[i].wall < log[j].wall
  BY <1>1, HoursFollowClocks DEF HourOf
<1> QED BY <1>4, <1>5

\* Of two places of one partition, one is read first.
LEMMA PartitionsAreOrdered ==
  ASSUME IInv, OrderInv, ClocksAgree, NEW y \in Symbols,
         NEW p \in ArchivedPlaces(y), NEW q \in ArchivedPlaces(y), Partition(p) = Partition(q), p # q
  PROVE  Precedes(p, q) \/ Precedes(q, p)
<1>1. /\ IsAPlaceOf(p, y) /\ IsAPlaceOf(q, y)
      /\ p = <<p[1], p[2]>> /\ q = <<q[1], q[2]>>
  BY PlacesAre
<1>2. /\ p[1].hour \in Nat /\ p[1].part \in Nat /\ p[2] \in Nat
      /\ q[1].hour \in Nat /\ q[1].part \in Nat /\ q[2] \in Nat
  BY <1>1 DEF IsAPlaceOf, Keys
<1>3. p[1].hour = q[1].hour /\ p[1].part = q[1].part => p[1] = q[1]
  <2>1. \A k \in Keys : k = [node |-> k.node, symbol |-> k.symbol, hour |-> k.hour, part |-> k.part]
    BY DEF Keys
  <2>2. p[1] \in Keys /\ q[1] \in Keys /\ p[1].node = q[1].node /\ p[1].symbol = q[1].symbol
    BY <1>1 DEF IsAPlaceOf, Partition
  <2> QED BY <2>1, <2>2
<1>4. p[1] = q[1] => p[2] # q[2]
  BY <1>1
<1> QED BY <1>2, <1>3, <1>4 DEF Precedes, KeyBefore

\* What is read first was logged first, or stamped in an earlier hour.
LEMMA FirstReadIsFirstLogged ==
  ASSUME IInv, OrderInv, ClocksAgree, NEW y \in Symbols,
         NEW p \in ArchivedPlaces(y), NEW q \in ArchivedPlaces(y), Partition(p) = Partition(q),
         Precedes(p, q)
  PROVE  EventAt(p) < EventAt(q) \/ log[EventAt(p)].at < log[EventAt(q)].at
<1>1. /\ IsAPlaceOf(p, y) /\ p[1] \in DOMAIN store /\ p[2] \in DOMAIN store[p[1]]
      /\ IsAPlaceOf(q, y) /\ q[1] \in DOMAIN store /\ q[2] \in DOMAIN store[q[1]]
  BY PlacesAre
<1>2. CASE p[1].hour < q[1].hour
  BY <1>1, <1>2, WallsTell DEF IsAPlaceOf
<1>3. CASE p[1].hour = q[1].hour /\ p[1].part < q[1].part
  <2>1. IsBefore(store[p[1]], store[q[1]])
    BY <1>1, <1>3 DEF IsAPlaceOf, Partition, OrderInv, FileInv, PartsAreInOrder
  <2> QED BY <1>1, <2>1 DEF IsBefore, EventAt
<1>4. CASE p[1] = q[1] /\ p[2] < q[2]
  <2>1. Grows(store[p[1]])
    BY <1>1 DEF OrderInv, FileInv, RowsAreInOrder
  <2> QED BY <1>1, <1>4, <2>1 DEF Grows, EventAt
<1> QED BY <1>2, <1>3, <1>4 DEF Precedes, KeyBefore

\* A cursor that has something left has a head.
LEMMA HeadsExist ==
  ASSUME IInv, OrderInv, ClocksAgree, NEW y \in Symbols,
         NEW left \in SUBSET ArchivedPlaces(y), NEW q \in left
  PROVE  \E h \in Heads(left) : Partition(h) = Partition(q) /\ (h = q \/ Precedes(h, q))
<1> DEFINE mine == {p \in left : Partition(p) = Partition(q)}
<1>1. \A p \in mine : /\ p \in ArchivedPlaces(y) /\ p[1].hour \in Nat /\ p[1].part \in Nat
                      /\ p[2] \in Nat
  BY PlacesAre DEF IsAPlaceOf, Keys
<1> HIDE DEF mine
<1>2. PICK f \in mine : \A p \in mine : f[1].hour <= p[1].hour
  <2> DEFINE hours == {p[1].hour : p \in mine}
  <2>1. hours \in SUBSET Nat /\ hours # {}
    BY <1>1 DEF mine
  <2> HIDE DEF hours
  <2>2. PICK h \in hours : \A k \in hours : h <= k
    BY <2>1, LeastOf
  <2> QED BY <2>2 DEF hours
<1>3. PICK g \in mine : /\ g[1].hour = f[1].hour
                        /\ \A p \in mine : p[1].hour = f[1].hour => g[1].part <= p[1].part
  <2> DEFINE some == {p[1].part : p \in {p \in mine : p[1].hour = f[1].hour}}
  <2>1. some \in SUBSET Nat /\ some # {}
    BY <1>1
  <2> HIDE DEF some
  <2>2. PICK h \in some : \A k \in some : h <= k
    BY <2>1, LeastOf
  <2> QED BY <2>2 DEF some
<1>4. PICK h \in mine :
         /\ h[1].hour = f[1].hour /\ h[1].part = g[1].part
         /\ \A p \in mine : p[1].hour = f[1].hour /\ p[1].part = g[1].part => h[2] <= p[2]
  <2> DEFINE some == {p[2] : p \in {p \in mine : p[1].hour = f[1].hour /\ p[1].part = g[1].part}}
  <2>1. some \in SUBSET Nat /\ some # {}
    BY <1>1, <1>3
  <2> HIDE DEF some
  <2>2. PICK k \in some : \A j \in some : k <= j
    BY <2>1, LeastOf
  <2> QED BY <2>2 DEF some
<1>5. \A p \in mine : ~Precedes(p, h)
  BY <1>1, <1>2, <1>3, <1>4 DEF Precedes, KeyBefore
<1>6. h \in Heads(left) /\ Partition(h) = Partition(q)
  BY <1>4, <1>5 DEF Heads, mine
<1>7. h = q \/ Precedes(h, q)
  BY <1>1, <1>5, <1>6, PartitionsAreOrdered DEF mine
<1> QED BY <1>6, <1>7

\* The reader finds the head it takes.
LEMMA NextPlaceExists ==
  ASSUME IInv, OrderInv, ClocksAgree, NEW y \in Symbols,
         NEW left \in SUBSET ArchivedPlaces(y), left # {}
  PROVE  /\ NextPlace(left) \in Heads(left)
         /\ \A q \in Heads(left) \ {NextPlace(left)} : Wins(NextPlace(left), q)
<1> DEFINE WallAt(p) == log[EventAt(p)].wall
           RankOf(p) == Rank[Partition(p)]
<1>1. \A p \in Heads(left) : /\ p \in left /\ p \in ArchivedPlaces(y)
                             /\ WallAt(p) \in Nat /\ RankOf(p) \in Nat /\ Partition(p) \in Nodes
  BY PlacesAre, ReaderAssumption DEF Heads, IsAPlaceOf, Keys, Partition
<1>2. Heads(left) # {}
  BY HeadsExist
<1>3. \A p, q \in Heads(left) : RankOf(p) = RankOf(q) => p = q
  <2> SUFFICES ASSUME NEW p \in Heads(left), NEW q \in Heads(left), RankOf(p) = RankOf(q), p # q
               PROVE  FALSE
    OBVIOUS
  <2>1. Partition(p) = Partition(q)
    BY <1>1, ReaderAssumption
  <2>2. ~Precedes(p, q) /\ ~Precedes(q, p)
    BY <2>1 DEF Heads
  <2> QED BY <1>1, <2>1, <2>2, PartitionsAreOrdered
<1> HIDE DEF WallAt, RankOf
<1>4. PICK f \in Heads(left) : \A p \in Heads(left) : WallAt(f) <= WallAt(p)
  <2> DEFINE walls == {WallAt(p) : p \in Heads(left)}
  <2>1. walls \in SUBSET Nat /\ walls # {}
    BY <1>1, <1>2
  <2> HIDE DEF walls
  <2>2. PICK w \in walls : \A v \in walls : w <= v
    BY <2>1, LeastOf
  <2> QED BY <2>2 DEF walls
<1>5. PICK g \in Heads(left) : /\ WallAt(g) = WallAt(f)
                               /\ \A p \in Heads(left) : WallAt(p) = WallAt(f) => RankOf(g) <= RankOf(p)
  <2> DEFINE some == {RankOf(p) : p \in {p \in Heads(left) : WallAt(p) = WallAt(f)}}
  <2>1. some \in SUBSET Nat /\ some # {}
    BY <1>1
  <2> HIDE DEF some
  <2>2. PICK r \in some : \A k \in some : r <= k
    BY <2>1, LeastOf
  <2> QED BY <2>2 DEF some
<1>6. \A q \in Heads(left) \ {g} :
         WallAt(g) < WallAt(q) \/ (WallAt(g) = WallAt(q) /\ RankOf(g) < RankOf(q))
  BY <1>1, <1>3, <1>4, <1>5
<1>7. \A q \in Heads(left) \ {g} : Wins(g, q)
  BY <1>6 DEF Wins, WallAt, RankOf
<1> QED BY <1>7 DEF NextPlace

\* What is taken of a stream is the oldest of what is left of it.
LEMMA NextIsOldest ==
  ASSUME IInv, OrderInv, ClocksAgree, NEW y \in Symbols,
         NEW left \in SUBSET ArchivedPlaces(y), NEW q \in left, q # NextPlace(left),
         log[EventAt(q)].stream = log[EventAt(NextPlace(left))].stream
  PROVE  EventAt(NextPlace(left)) < EventAt(q)
<1> DEFINE p == NextPlace(left)
<1>1. p \in Heads(left) /\ \A h \in Heads(left) \ {p} : Wins(p, h)
  BY NextPlaceExists
<1>2. q # p /\ log[EventAt(q)].stream = log[EventAt(p)].stream
  OBVIOUS
<1> HIDE DEF p
<1>3. /\ p \in ArchivedPlaces(y) /\ q \in ArchivedPlaces(y) /\ p \in left
      /\ IsAPlaceOf(p, y) /\ IsAPlaceOf(q, y)
  BY <1>1, PlacesAre DEF Heads
<1> DEFINE i == EventAt(p)
           j == EventAt(q)
<1>4. /\ i \in DOMAIN log /\ j \in DOMAIN log /\ i \in Nat /\ j \in Nat
      /\ \A k \in DOMAIN log : k \in Nat /\ log[k].at \in Nat
      /\ DOMAIN log = 1..Len(log) /\ Len(log) \in Nat
  BY <1>3, LogNumbers DEF IsAPlaceOf, IInv
<1>5. i # j
  BY <1>2, <1>3, PlacesAre DEF IInv, ArchivedOnce, EventAt
<1>6. j < i => log[j].at <= log[i].at
  BY <1>2, <1>4 DEF OrderInv, LogInv, StampsAreInOrder
<1>7. CASE Partition(p) = Partition(q)
  <2>1. Precedes(p, q)
    BY <1>1, <1>2, <1>3, <1>7, PartitionsAreOrdered DEF Heads
  <2>2. i < j \/ log[i].at < log[j].at
    BY <1>3, <1>7, <2>1, FirstReadIsFirstLogged
  <2> QED BY <1>4, <1>5, <1>6, <2>2 DEF p
<1>8. CASE Partition(p) # Partition(q)
  <2> SUFFICES ASSUME j < i PROVE FALSE
    BY <1>4, <1>5 DEF p
  <2>1. \A x \in 1..j : log[x].at < log[i].at
    <3>1. log[j].node # log[i].node
      BY <1>3, <1>8 DEF IsAPlaceOf
    <3> QED BY <1>2, <1>4, <3>1 DEF OrderInv, LogInv, HandoversAreClean
  <2>2. PICK h \in Heads(left) : Partition(h) = Partition(q) /\ (h = q \/ Precedes(h, q))
    BY HeadsExist
  <2>3. h \in ArchivedPlaces(y) /\ EventAt(h) \in DOMAIN log
    BY <2>2, PlacesAre DEF Heads, IsAPlaceOf
  <2>4. log[EventAt(h)].at < log[i].at
    <3>1. CASE EventAt(h) \in 1..j
      BY <2>1, <3>1
    <3>2. CASE EventAt(h) \notin 1..j
      <4>1. h # q /\ ~(EventAt(h) < j)
        BY <1>4, <2>3, <3>2
      <4>2. log[EventAt(h)].at < log[j].at
        BY <1>3, <2>2, <2>3, <4>1, FirstReadIsFirstLogged
      <4> QED BY <1>4, <2>1, <2>3, <4>2
    <3> QED BY <3>1, <3>2
  <2>5. Wins(p, h)
    BY <1>1, <1>8, <2>2
  <2>6. ~(log[EventAt(h)].wall < log[i].wall)
    <3>1. log[EventAt(h)].wall \in Int /\ log[i].wall \in Int
      BY <1>4, <2>3, LogNumbers DEF IInv
    <3> QED BY <2>5, <3>1 DEF Wins
  <2> QED BY <1>4, <2>3, <2>4, <2>6, WallsTell
<1> QED BY <1>7, <1>8

\* f has what is left of `places` after each of the first `last` calls.
AreLeft(f, places, last) ==
    /\ f = [k \in 0..last |-> f[k]]
    /\ f[0] = places
    /\ \A k \in 1..last : f[k] = f[k - 1] \ {NextPlace(f[k - 1])}

\* It exists: the calls go on.
LEMMA LeftExists ==
  ASSUME NEW places
  PROVE  \A last \in Nat : \E f : AreLeft(f, places, last)
<1> DEFINE T == {n \in Nat : ~ \E f : AreLeft(f, places, n)}
<1> SUFFICES ASSUME T # {} PROVE FALSE
  OBVIOUS
<1> HIDE DEF T
<1>1. PICK n \in T : \A k \in T : n <= k
  <2>1. T \in SUBSET Nat
    BY DEF T
  <2> QED BY <2>1, LeastOf
<1>2. n \in Nat /\ ~ \E f : AreLeft(f, places, n)
  BY DEF T
<1>3. CASE n = 0
  <2> DEFINE f == [k \in 0..0 |-> places]
  <2>1. AreLeft(f, places, 0)
    BY DEF AreLeft
  <2> QED BY <1>2, <1>3, <2>1
<1>4. CASE n # 0
  <2>1. n - 1 \in Nat /\ n - 1 \notin T
    BY <1>1, <1>2, <1>4
  <2>2. PICK g : AreLeft(g, places, n - 1)
    BY <2>1 DEF T
  <2> DEFINE rest == g[n - 1] \ {NextPlace(g[n - 1])}
             f == [k \in 0..n |-> IF k = n THEN rest ELSE g[k]]
  <2> HIDE DEF rest
  <2>3. f = [k \in 0..n |-> f[k]]
    OBVIOUS
  <2>4. f[0] = places
    BY <1>2, <1>4, <2>2 DEF AreLeft
  <2>5. \A k \in 1..n : f[k] = f[k - 1] \ {NextPlace(f[k - 1])}
    <3> SUFFICES ASSUME NEW k \in 1..n PROVE f[k] = f[k - 1] \ {NextPlace(f[k - 1])}
      OBVIOUS
    <3>1. f[k - 1] = g[k - 1]
      BY <1>2
    <3>2. CASE k = n
      BY <1>2, <3>1, <3>2 DEF rest
    <3>3. CASE k # n
      <4>1. k \in 1..(n - 1) /\ f[k] = g[k]
        BY <1>2, <3>3
      <4> QED BY <2>2, <3>1, <4>1 DEF AreLeft
    <3> QED BY <3>2, <3>3
  <2> HIDE DEF f
  <2>6. AreLeft(f, places, n)
    BY <2>3, <2>4, <2>5 DEF AreLeft
  <2> QED BY <1>2, <2>6
<1> QED BY <1>3, <1>4

\* There are finitely many places, since no event is archived twice.
LEMMA PlacesAreFinite ==
  ASSUME IInv, NEW y
  PROVE  Cardinality(ArchivedPlaces(y)) \in Nat
<1> DEFINE f == [p \in ArchivedPlaces(y) |-> EventAt(p)]
<1>1. \A p \in ArchivedPlaces(y) :
         p = <<p[1], p[2]>> /\ p[1] \in DOMAIN store /\ p[2] \in DOMAIN store[p[1]]
  BY DEF ArchivedPlaces
<1>2. \A p \in ArchivedPlaces(y) : EventAt(p) \in DOMAIN log
  BY <1>1 DEF IInv, RowsAreEvents, EventAt
<1>3. \A p, q \in ArchivedPlaces(y) : EventAt(p) = EventAt(q) => p = q
  BY <1>1 DEF IInv, ArchivedOnce, EventAt
<1>4. f \in Injection(ArchivedPlaces(y), DOMAIN log)
  BY <1>2, <1>3 DEF Injection, IsInjective
<1>5. IsFiniteSet(DOMAIN log)
  <2>1. DOMAIN log = 1..Len(log) /\ 1 \in Int /\ Len(log) \in Int
    BY LogType DEF IInv
  <2>2. IsFiniteSet(1..Len(log))
    BY ONLY <2>1, FS_Interval
  <2> QED BY <2>1, <2>2
<1> HIDE DEF f
<1>6. IsFiniteSet(ArchivedPlaces(y))
  BY <1>4, <1>5, FS_Injection
<1> QED BY <1>6, FS_CardinalityType

\* What is left after each call is what the reader has of the places.
LEMMA ReadingIs ==
  ASSUME IInv, NEW y
  PROVE  /\ Reading(y) = [k \in 0..Cardinality(ArchivedPlaces(y)) |-> Reading(y)[k]]
         /\ \A k \in DOMAIN Reading(y) : Reading(y)[k] \in SUBSET ArchivedPlaces(y)
<1> DEFINE last == Cardinality(ArchivedPlaces(y))
           places == ArchivedPlaces(y)
           Calls(f) == [k \in 0..last |-> IF k = 0 THEN places ELSE f[k - 1] \ {NextPlace(f[k - 1])}]
           c == Reading(y)
<1>1. last \in Nat
  BY PlacesAreFinite
<1>2. c = CHOOSE f : f = Calls(f)
  BY DEF Reading
<1> HIDE DEF last, places, c
<1>3. PICK g : AreLeft(g, places, last)
  BY <1>1, LeftExists
<1>4. g = Calls(g)
  <2>1. g = [k \in 0..last |-> g[k]]
    BY <1>3 DEF AreLeft
  <2>2. \A k \in 0..last : g[k] = IF k = 0 THEN places ELSE g[k - 1] \ {NextPlace(g[k - 1])}
    BY <1>1, <1>3 DEF AreLeft
  <2> QED BY <2>1, <2>2
<1>5. c = Calls(c)
  BY <1>2, <1>4
<1>6. /\ DOMAIN c = 0..last /\ c = [k \in 0..last |-> c[k]]
      /\ \A k \in 0..last : c[k] = IF k = 0 THEN places ELSE c[k - 1] \ {NextPlace(c[k - 1])}
  <2>1. \A k \in 0..last :
           Calls(c)[k] = IF k = 0 THEN places ELSE c[k - 1] \ {NextPlace(c[k - 1])}
    OBVIOUS
  <2>2. DOMAIN Calls(c) = 0..last /\ Calls(c) = [k \in 0..last |-> Calls(c)[k]]
    OBVIOUS
  <2> HIDE DEF Calls
  <2> QED BY <1>5, <2>1, <2>2
<1> HIDE DEF Calls
<1>7. \A k \in 0..last : c[k] \in SUBSET places
  <2> DEFINE T == {k \in 0..last : ~(c[k] \in SUBSET places)}
  <2> SUFFICES ASSUME T # {} PROVE FALSE
    OBVIOUS
  <2> HIDE DEF T
  <2>1. T \in SUBSET Nat
    BY <1>1 DEF T
  <2>2. PICK k \in T : \A j \in T : k <= j
    BY <2>1, LeastOf
  <2>3. k \in 0..last /\ ~(c[k] \in SUBSET places)
    BY DEF T
  <2>4. k # 0
    BY <1>6, <2>3
  <2>5. k - 1 \in 0..last /\ k - 1 \notin T
    BY <1>1, <2>2, <2>3, <2>4
  <2>6. c[k - 1] \in SUBSET places
    BY <2>5 DEF T
  <2> QED BY <1>6, <2>3, <2>4, <2>6
<1> QED BY <1>6, <1>7 DEF c, last, places

\* A book is fed its stream's events in the order they were sent, through restarts,
\* rolls of every kind and handovers, as long as no wall clock was set back and the
\* nodes agree on the time (reader.rs, EventReader::next_event).
THEOREM BooksAreFedInOrder == Spec => []ReadsInOrder
<1>1. IInv /\ OrderInv => ReadsInOrder
  <2> SUFFICES ASSUME IInv, OrderInv, ClocksAgree, NEW y \in Symbols, NEW k \in DOMAIN Reading(y),
                      NEW q \in Reading(y)[k], q # NextPlace(Reading(y)[k]),
                      log[EventAt(q)].stream = log[EventAt(NextPlace(Reading(y)[k]))].stream
               PROVE  EventAt(NextPlace(Reading(y)[k])) < EventAt(q)
    BY DEF ReadsInOrder, BookInputInOrder
  <2>1. Reading(y)[k] \in SUBSET ArchivedPlaces(y)
    BY ReadingIs
  <2> QED BY <2>1, NextIsOldest
<1> QED BY <1>1, Invariance, OrderInvariance, PTL
==============================================================================
