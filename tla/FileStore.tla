------------------------------ MODULE FileStore ------------------------------
(* The directory of lease records (ma-coord/src/registry.rs, DirRegistry),   *)
(* system call by system call.  A node announces by writing a file beside    *)
(* its record and renaming it into place, and withdraws by removing it; a    *)
(* reader goes through the directory entry by entry and reads a record when  *)
(* it comes to it, while the writers go on.  The archive's LocalStore        *)
(* (ma-persist/src/store.rs) puts its objects, and walks them, the same way. *)
(* A node is its record's name: record_name is taken to tell nodes apart.    *)
EXTENDS Integers

CONSTANTS
    Writers,    \* the nodes
    MaxLease    \* leases a node writes

\* What a file holds: 0 is no file, -1 a file whose writing is not finished.
NoFile == 0
TornFile == -1

VARIABLES
    records,    \* of each node: its record,
    staged,     \* the temporary file beside it,
    writing,    \* and the lease its process is writing, NoFile if none
    scan,       \* members(): the entries visited, the leases read, and whether
                \* a file that does not parse has failed the whole read
    announced,  \* history: the last lease of each node
    standing    \* history: the records in place when the read began, without
                \* those that have been withdrawn since

files == <<records, staged, writing, scan, announced, standing>>

NewScan == [seen |-> {}, read |-> [n \in Writers |-> NoFile], failed |-> FALSE]

FilesInit ==
    /\ records = [n \in Writers |-> NoFile]
    /\ staged = [n \in Writers |-> NoFile]
    /\ writing = [n \in Writers |-> NoFile]
    /\ scan = NewScan
    /\ announced = [n \in Writers |-> NoFile]
    /\ standing = [n \in Writers |-> NoFile]

-----------------------------------------------------------------------------
(* The writers.                                                              *)

BeginsLease(n) ==
    /\ writing[n] = NoFile /\ announced[n] < MaxLease
    /\ announced' = [announced EXCEPT ![n] = @ + 1]
    /\ writing' = [writing EXCEPT ![n] = announced'[n]]

\* Mutant: the record is opened in place.
OpenInPlace(n) ==
    /\ BeginsLease(n)
    /\ records' = [records EXCEPT ![n] = TornFile]
    /\ UNCHANGED <<staged, scan, standing>>

\* fs::write cuts the file to nothing first, a crashed announcement's too.
OpenTmp(n) ==
    /\ BeginsLease(n)
    /\ staged' = [staged EXCEPT ![n] = TornFile]
    /\ UNCHANGED <<records, scan, standing>>

FillTmp(n) ==
    /\ writing[n] # NoFile /\ staged[n] = TornFile
    /\ staged' = [staged EXCEPT ![n] = writing[n]]
    /\ UNCHANGED <<records, writing, scan, announced, standing>>

\* fs::rename replaces what was there.
Rename(n) ==
    /\ writing[n] # NoFile /\ staged[n] > 0
    /\ records' = [records EXCEPT ![n] = staged[n]]
    /\ staged' = [staged EXCEPT ![n] = NoFile]
    /\ writing' = [writing EXCEPT ![n] = NoFile]
    /\ UNCHANGED <<scan, announced, standing>>

\* The process dies, and its files stay as they are.
Die(n) ==
    /\ writing[n] # NoFile
    /\ writing' = [writing EXCEPT ![n] = NoFile]
    /\ UNCHANGED <<records, staged, scan, announced, standing>>

RemoveRecord(n) ==
    /\ writing[n] = NoFile
    /\ records' = [records EXCEPT ![n] = NoFile]
    /\ standing' = [standing EXCEPT ![n] = NoFile]
    /\ UNCHANGED <<staged, writing, scan, announced>>

-----------------------------------------------------------------------------
(* The reader.                                                               *)

\* Temporary files have another extension, and are passed over.
Entries == {n \in Writers : records[n] # NoFile}

StartScan ==
    /\ scan' = NewScan
    /\ standing' = records
    /\ UNCHANGED <<records, staged, writing, announced>>

\* The listing has what stays in the directory, and may have what comes or goes.
\* A record that went after it was listed is a node that withdrew.
ReadEntry(n) ==
    /\ n \notin scan.seen
    /\ scan' = [seen |-> scan.seen \union {n},
                read |-> IF n \in Entries /\ records[n] # TornFile
                         THEN [scan.read EXCEPT ![n] = records[n]]
                         ELSE scan.read,
                failed |-> scan.failed \/ records[n] = TornFile]
    /\ UNCHANGED <<records, staged, writing, announced, standing>>

FilesNext ==
    \/ \E n \in Writers : OpenTmp(n) \/ FillTmp(n) \/ Rename(n) \/ Die(n) \/ RemoveRecord(n)
    \/ StartScan
    \/ \E n \in Writers : ReadEntry(n)

FilesSpec == FilesInit /\ [][FilesNext]_files

-----------------------------------------------------------------------------
\* A read of the membership fails for no writer's sake, whatever the writers do
\* during it and wherever they died before: it misses no node whose record was
\* there before and stays, and what it reads of a node is no older than what was
\* there when the read began.  Missing a node is the conclusion that lets others
\* take its streams (registry.rs:91-94).
ReadsMissNoMember ==
    /\ ~scan.failed
    /\ \A n \in scan.seen : standing[n] <= scan.read[n] /\ scan.read[n] <= announced[n]
==============================================================================
