---------------------------- MODULE FlushCommit ----------------------------
(***************************************************************************)
(* How the rows of one table get from the write buffer to disk.            *)
(*                                                                         *)
(* StorageEngine (src/src/storage/mod.rs) appends inserted rows to an      *)
(* IcebergWriteBuffer and flushes it in four file writes: a Parquet data   *)
(* file, a manifest naming it, a manifest list naming every manifest, and  *)
(* a snapshot naming the list.  A reader follows the chain backwards from  *)
(* the snapshot with the highest id.  Each write is one action here, so an *)
(* I/O error or a crash can fall between any two of them.  The engine sits *)
(* behind one mutex: while a flush is in progress nothing else runs.       *)
(*                                                                         *)
(* A row is its identity: Row is a set, and every row is inserted at most  *)
(* once.  Files whose write failed are unreachable (their names are fresh  *)
(* UUIDs) and are not recorded; manifest lists and snapshots are found by  *)
(* scanning the directory, so a half-written one stays on disk and counts. *)
(***************************************************************************)
EXTENDS Integers, Sequences, FiniteSets

CONSTANTS
    Row,         \* the rows that can be inserted
    Poison,      \* rows the Parquet writer rejects (a value of the wrong type)
    SmallBatch,  \* a buffer below this many rows is flushed by the insert itself
    SizeLimit,   \* rows that make target_file_size_bytes
    Offsets,     \* the values uuid_part % 1000 takes: never positive, since the
                 \* variant bits of a v4 UUID make the i64 negative
    Ticks,       \* milliseconds that can pass between two manifest list ids
    SnapTicks,   \* milliseconds that can pass before the snapshot is named
    Faults,      \* the kinds of fault that can happen, a subset of FaultKind
    MaxFaults,   \* bound: faults and crashes in a behaviour
    MaxSnapshots \* bound: no explicit flush of an empty buffer after this many

FaultKind == { "parquet",   \* writing the data file fails
               "manifest",  \* writing or stating the manifest, or listing the directory, fails
               "list",      \* writing the manifest list fails and leaves no file
               "listTorn",  \* ... or leaves a file that does not parse
               "read",      \* reading a manifest list fails
               "snap",      \* writing the snapshot fails and leaves no file
               "snapTorn",  \* ... or leaves a file that does not parse
               "crash" }    \* the process dies and is started again

ASSUME OffsetsAssumption == Offsets \subseteq -999..0
ASSUME TicksAssumption == Ticks \subseteq Int /\ SnapTicks \subseteq Int
ASSUME PoisonAssumption == Poison \subseteq Row
ASSUME FaultsAssumption == Faults \subseteq FaultKind

VARIABLES
    \* the process
    mem,         \* rows inserted by this process (storage.tables[t])
    buffer,      \* rows of the IcebergWriteBuffer
    pending,     \* pending_data_files: data files not yet in a manifest
    pc,          \* the next write of the operation in progress, or "idle"
    taken,       \* rows_to_write: the rows the flush in progress took
    again,       \* flush_table_iceberg_writes: a second snapshot follows
    listId,      \* id of the manifest list about to be written
    now,         \* the wall clock, in milliseconds
    \* the disk
    dataFiles,   \* sequence of data files, each the set of its rows
    manifests,   \* sequence of manifests, each the set of its data files
    lists,       \* manifest-list-<id>.json: id -> set of manifests
    snaps,       \* snap-<id>.json: id -> [ok, list, seq]
    \* history
    used,        \* rows ever inserted, by any process
    durable,     \* rows of every flush that returned Ok
    faults       \* faults so far

process == <<mem, buffer, pending, pc, taken, again, listId, now>>
disk == <<dataFiles, manifests, lists, snaps>>
vars == <<process, disk, used, durable, faults>>

----------------------------------------------------------------------------
(* Reading the chain of metadata files.                                    *)

LastOf(ids) == CHOOSE i \in ids : \A j \in ids : j <= i

\* Mutant: the first manifest list found is taken for the latest.
FirstList == CHOOSE i \in DOMAIN lists : \A j \in DOMAIN lists : i <= j

\* find_latest_manifest_list_snapshot: the highest id in the directory.
LatestList == LastOf(DOMAIN lists)

LatestSnap == snaps[LastOf(DOMAIN snaps)]

\* get_latest_snapshot parses only the newest snapshot file, or gives an error.
ReadError == DOMAIN snaps # {} /\ ~LatestSnap.ok

\* The manifest list a reader uses: the snapshot's, else the newest one.
ReaderEntries ==
    IF DOMAIN snaps # {} THEN lists[LatestSnap.list]
    ELSE IF DOMAIN lists # {} THEN lists[LatestList]
    ELSE {}

FilesOf(entries) == UNION { manifests[m] : m \in entries }
RowsOf(entries) == UNION { dataFiles[f] : f \in FilesOf(entries) }

\* The data files and the rows that read_from_iceberg returns.
VisibleFiles == IF ReadError THEN {} ELSE FilesOf(ReaderEntries)
Visible == IF ReadError THEN {} ELSE RowsOf(ReaderEntries)

\* Mutant: the sequence number counts the snapshot files.
CountSnapshots == Cardinality(DOMAIN snaps)

\* load_max_sequence: unreadable snapshots are skipped.
MaxSequence == LastOf({0} \cup { snaps[s].seq : s \in { t \in DOMAIN snaps : snaps[t].ok } })

----------------------------------------------------------------------------
Init ==
    /\ mem = {} /\ buffer = {} /\ pending = {} /\ taken = {}
    /\ pc = "idle" /\ again = FALSE /\ listId = 0 /\ now = 0
    /\ dataFiles = <<>> /\ manifests = <<>>
    /\ lists = [i \in {} |-> {}]
    /\ snaps = [i \in {} |-> [ok |-> TRUE, list |-> 0, seq |-> 0]]
    /\ used = {} /\ durable = {} /\ faults = 0

Set(f, i, v) == [j \in DOMAIN f \cup {i} |-> IF j = i THEN v ELSE f[j]]

MayFail(kind) == kind \in Faults /\ faults < MaxFaults
Fault(kind) == MayFail(kind) /\ faults' = faults + 1

\* write_to_iceberg_buffered: flush a small buffer at once, a full one, and
\* one that time_is_up says has waited long enough.
ShouldFlush(rows, timeIsUp) ==
    \/ Cardinality(rows) < SmallBatch
    \/ Cardinality(rows) >= SizeLimit
    \/ timeIsUp

\* Mutant: the rows are only copied (peek_rows without take_rows).
CopyRows(rows) ==
    /\ taken' = rows
    /\ buffer' = rows
    /\ pc' = "parquet"

\* flush_iceberg_buffer takes the rows out of the buffer before it writes.
TakeRows(rows) ==
    /\ taken' = rows
    /\ buffer' = {}
    /\ pc' = "parquet"

\* insert_rows: memory first, then the buffer, flushed when it is due.
Insert(batch, timeIsUp) ==
    /\ pc = "idle"
    /\ batch # {}
    /\ mem' = mem \cup batch
    /\ used' = used \cup batch
    /\ IF ShouldFlush(buffer \cup batch, timeIsUp)
       THEN TakeRows(buffer \cup batch)
       ELSE buffer' = buffer \cup batch /\ UNCHANGED <<taken, pc>>
    /\ UNCHANGED <<pending, again, listId, now, disk, durable, faults>>

\* SELECT, COUNT and row counts flush a non-empty buffer before they read;
\* the background task of the web server flushes one that is due.
FlushBuffer ==
    /\ pc = "idle"
    /\ buffer # {}
    /\ TakeRows(buffer)
    /\ UNCHANGED <<mem, pending, again, listId, now, disk, used, durable, faults>>

\* A read that finds the buffer empty changes nothing.
Read == pc = "idle" /\ buffer = {} /\ UNCHANGED vars

\* flush_table_iceberg_writes: flush, then one more create_snapshot.
FlushTable ==
    /\ pc = "idle"
    /\ IF buffer # {}
       THEN TakeRows(buffer) /\ again' = TRUE
       ELSE /\ MaxSequence < MaxSnapshots
            /\ pc' = "manifest"
            /\ UNCHANGED <<taken, buffer, again>>
    /\ UNCHANGED <<mem, pending, listId, now, disk, used, durable, faults>>

----------------------------------------------------------------------------
(* The writes of a flush.                                                  *)

\* Mutant: the rows are not restored when the flush fails.
FailWithoutRestore ==
    /\ buffer' = buffer
    /\ taken' = {}
    /\ again' = FALSE
    /\ pc' = "idle"

\* The closure of flush_iceberg_buffer returned Err: restore_rows.
Fail ==
    /\ buffer' = taken \cup buffer
    /\ taken' = {}
    /\ again' = FALSE
    /\ pc' = "idle"

WriteParquet ==
    /\ pc = "parquet"
    /\ taken \cap Poison = {}
    /\ dataFiles' = Append(dataFiles, taken)
    /\ pending' = pending \cup {Len(dataFiles) + 1}
    /\ pc' = "manifest"
    /\ UNCHANGED <<mem, buffer, taken, again, listId, now, manifests, lists, snaps,
                   used, durable, faults>>

\* Mutant: the data file is queued although its write failed.
ParquetQueuedOnError ==
    /\ pc = "parquet"
    /\ IF taken \cap Poison # {} THEN UNCHANGED faults ELSE Fault("parquet")
    /\ Fail
    /\ pending' = pending \cup {Len(dataFiles) + 1}
    /\ UNCHANGED <<mem, listId, now, disk, used, durable>>

ParquetFails ==
    /\ pc = "parquet"
    /\ IF taken \cap Poison # {} THEN UNCHANGED faults ELSE Fault("parquet")
    /\ Fail
    /\ UNCHANGED <<mem, pending, listId, now, disk, used, durable>>

\* flush_manifest_batch with no pending file returns early.
NothingPending ==
    /\ pc = "manifest"
    /\ pending = {}
    /\ pc' = "snapshot"
    /\ UNCHANGED <<mem, buffer, pending, taken, again, listId, now, disk, used, durable, faults>>

\* The pending files are taken, an id is drawn and the manifest is written.
WriteManifest(tick, offset) ==
    /\ pc = "manifest"
    /\ pending # {}
    /\ now' = now + tick
    /\ listId' = (now + tick) * 1000 + offset
    /\ manifests' = Append(manifests, pending)
    /\ pending' = {}
    /\ pc' = "list"
    /\ UNCHANGED <<mem, buffer, taken, again, dataFiles, lists, snaps, used, durable, faults>>

ManifestFails ==
    /\ pc = "manifest"
    /\ pending # {}
    /\ Fault("manifest")
    /\ pending' = {}
    /\ Fail
    /\ UNCHANGED <<mem, listId, now, disk, used, durable>>

\* Mutant: the new list starts empty instead of from the latest one.
ReadNoEntries(failed) == {}

\* read_manifest_list(latest).unwrap_or_default(): an error reads as no entry.
ReadEntries(failed) ==
    IF DOMAIN lists = {} \/ failed THEN {} ELSE lists[LatestList]

\* The newest list plus this manifest becomes the list of the id drawn.
WriteList(failed) ==
    /\ pc = "list"
    /\ IF failed THEN Fault("read") ELSE UNCHANGED faults
    /\ lists' = Set(lists, listId, ReadEntries(failed) \cup {Len(manifests)})
    /\ pc' = "snapshot"
    /\ UNCHANGED <<mem, buffer, pending, taken, again, listId, now, dataFiles, manifests, snaps,
                   used, durable>>

\* A list file that does not parse reads as a list without entries.
ListFails ==
    /\ pc = "list"
    /\ \/ Fault("list") /\ UNCHANGED lists
       \/ Fault("listTorn") /\ lists' = Set(lists, listId, {})
    /\ Fail
    /\ UNCHANGED <<mem, pending, listId, now, dataFiles, manifests, snaps, used, durable>>

\* The flush returned Ok; flush_table_iceberg_writes goes on to its snapshot.
Return ==
    /\ durable' = durable \cup taken
    /\ taken' = {}
    /\ again' = FALSE
    /\ pc' = IF again THEN "manifest" ELSE "idle"

\* Mutant: the snapshot names the oldest manifest list.
SnapshotOfOldest(tick) ==
    /\ pc = "snapshot"
    /\ ReadEntries(FALSE) # {}
    /\ now' = now + tick
    /\ snaps' = Set(snaps, now + tick,
                    [ok |-> TRUE, list |-> FirstList, seq |-> MaxSequence + 1])
    /\ Return
    /\ UNCHANGED <<mem, buffer, pending, listId, dataFiles, manifests, lists, used, faults>>

\* create_snapshot: the newest list becomes current.
WriteSnapshot(tick) ==
    /\ pc = "snapshot"
    /\ ReadEntries(FALSE) # {}
    /\ now' = now + tick
    /\ snaps' = Set(snaps, now + tick,
                    [ok |-> TRUE, list |-> LatestList, seq |-> MaxSequence + 1])
    /\ Return
    /\ UNCHANGED <<mem, buffer, pending, listId, dataFiles, manifests, lists, used, faults>>

\* create_snapshot returns Ok without a snapshot when the list reads as empty.
NoSnapshot(failed) ==
    /\ pc = "snapshot"
    /\ DOMAIN lists # {}
    /\ ReadEntries(failed) = {}
    /\ IF failed THEN Fault("read") ELSE UNCHANGED faults
    /\ Return
    /\ UNCHANGED <<mem, buffer, pending, listId, now, disk, used>>

\* Mutant: a flush whose snapshot could not be written returns Ok.
SnapshotFailureIgnored(tick) ==
    /\ pc = "snapshot"
    /\ ReadEntries(FALSE) # {}
    /\ now' = now + tick
    /\ Fault("snap")
    /\ Return
    /\ UNCHANGED <<mem, buffer, pending, listId, disk, used>>

\* create_snapshot fails when there is no manifest list, or on a write error.
SnapshotFails(tick) ==
    /\ pc = "snapshot"
    /\ \/ DOMAIN lists = {} /\ UNCHANGED <<now, snaps, faults>>
       \/ /\ ReadEntries(FALSE) # {}
          /\ now' = now + tick
          /\ \/ Fault("snap") /\ UNCHANGED snaps
             \/ /\ Fault("snapTorn")
                /\ snaps' = Set(snaps, now + tick, [ok |-> FALSE, list |-> LatestList, seq |-> 0])
    /\ Fail
    /\ UNCHANGED <<mem, pending, listId, dataFiles, manifests, lists, used, durable>>

\* The process dies, possibly in the middle of a write, and starts again.
\* Nothing of the buffer and nothing of the WAL (a Vec) is on disk.
Crash ==
    /\ Fault("crash")
    /\ \/ UNCHANGED <<lists, snaps>>
       \/ /\ pc = "list" /\ "listTorn" \in Faults
          /\ lists' = Set(lists, listId, {})
          /\ UNCHANGED snaps
       \/ /\ pc = "snapshot" /\ "snapTorn" \in Faults /\ ReadEntries(FALSE) # {}
          /\ \E tick \in SnapTicks :
                snaps' = Set(snaps, now + tick, [ok |-> FALSE, list |-> LatestList, seq |-> 0])
          /\ UNCHANGED lists
    /\ mem' = {} /\ buffer' = {} /\ pending' = {} /\ taken' = {}
    /\ again' = FALSE /\ pc' = "idle" /\ listId' = 0
    /\ UNCHANGED <<now, dataFiles, manifests, used, durable>>

FlushStep ==
    \/ WriteParquet \/ ParquetFails
    \/ NothingPending \/ ManifestFails
    \/ \E tick \in Ticks, offset \in Offsets : WriteManifest(tick, offset)
    \/ \E failed \in BOOLEAN : WriteList(failed) \/ NoSnapshot(failed)
    \/ ListFails
    \/ \E tick \in SnapTicks : WriteSnapshot(tick) \/ SnapshotFails(tick)

Next ==
    \/ \E batch \in SUBSET (Row \ used), timeIsUp \in BOOLEAN : Insert(batch, timeIsUp)
    \/ FlushBuffer \/ Read \/ FlushTable
    \/ FlushStep
    \/ Crash

Spec == Init /\ [][Next]_vars

\* A handler runs to its end, and the safety flush of the web server's
\* background task (every 8 s) finds a non-empty buffer again and again.
Fairness == WF_vars(FlushStep) /\ WF_vars(FlushBuffer)
FairSpec == Spec /\ Fairness

----------------------------------------------------------------------------
(* What the flush promises.                                                *)

TypeOK ==
    /\ mem \subseteq Row /\ buffer \subseteq Row /\ taken \subseteq Row
    /\ used \subseteq Row /\ durable \subseteq Row
    /\ pc \in {"idle", "parquet", "manifest", "list", "snapshot"}
    /\ again \in BOOLEAN
    /\ now \in Int /\ listId \in Int /\ faults \in Nat
    /\ dataFiles \in Seq(SUBSET Row)
    /\ manifests \in Seq(SUBSET (1..Len(dataFiles)))
    /\ pending \subseteq 1..Len(dataFiles)
    /\ DOMAIN lists \subseteq Int
    /\ \A i \in DOMAIN lists : lists[i] \subseteq 1..Len(manifests)
    /\ DOMAIN snaps \subseteq Int
    /\ \A s \in DOMAIN snaps : snaps[s] \in [ok : BOOLEAN, list : DOMAIN lists, seq : Nat]

\* No insert is forgotten: a row of this process is on disk where a reader
\* finds it, or still in the buffer, or in the flush in progress.
NothingLost == mem \subseteq Visible \cup buffer \cup taken

\* A row whose flush returned Ok is found by every later reader, whatever
\* failed or crashed since.
DurableStaysVisible == durable \subseteq Visible

\* A row is read once: no two data files that a reader follows share a row,
\* and no row a reader finds is written to disk again.
NoRowTwice ==
    /\ \A f, g \in VisibleFiles : f # g => dataFiles[f] \cap dataFiles[g] = {}
    /\ pc = "idle" => buffer \cap Visible = {}

\* The chain of metadata never points at what is not there: every list names
\* manifests, and every snapshot a list, written before it, and the newest
\* snapshot names a list that contains all the older lists it replaced.
ListsAccumulate ==
    /\ \A i, j \in DOMAIN lists : i <= j => lists[i] \subseteq lists[j]
    /\ \A s, t \in DOMAIN snaps : s <= t => snaps[s].list <= snaps[t].list

\* The sequence numbers of the snapshots increase with their ids, although
\* each flush recomputes the last one from the files it can read.
SequenceFollowsTime ==
    \A s, t \in DOMAIN snaps : s < t => snaps[s].seq < snaps[t].seq

\* What a reader has seen once it sees again: no step of a flush, failed
\* flush or crash makes a visible row disappear.
VisibleOnlyGrows == [][Visible \subseteq Visible']_vars

\* The flush implements DurableTable: a row waits while it is in the buffer or
\* in the flush in progress and no reader finds it yet.
Store == INSTANCE DurableTable WITH
    inserted <- used, stored <- Visible, waiting <- (buffer \cup taken) \ Visible

ImplementsDurableTable == Store!Spec

\* No row waits in the buffer for ever: some flush that took it returns Ok,
\* unless the process dies first or a row that the Parquet writer rejects has
\* come into the same buffer, which it never leaves again.
EventuallyFlushed ==
    \A r \in Row : r \in mem ~> r \in durable \/ r \notin mem \/ buffer \cap Poison # {}
=============================================================================
