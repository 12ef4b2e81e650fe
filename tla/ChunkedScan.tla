---------------------------- MODULE ChunkedScan ----------------------------
(***************************************************************************)
(* The asynchronous scan of one table (executor.rs,                        *)
(* execute_table_ref_with_progress).                                       *)
(*                                                                         *)
(* The scan counts the rows and then asks for one chunk after the other,   *)
(* yielding in between.  scan_table_chunk (storage/mod.rs) reads the whole *)
(* table from its data files for every chunk and cuts the chunk out by     *)
(* position.  The files are divided among reader threads, and what they    *)
(* send is concatenated in the order in which it arrives.  The scan holds  *)
(* no lock: rows may be inserted, and the table dropped, at any time.  (The *)
(* memory accesses of the two are a data race; here they do not tear.)     *)
(*                                                                         *)
(* Rows are identities, inserted at most once.  A flush precedes every     *)
(* read, so an INSERT shows as one more data file.                         *)
(***************************************************************************)
EXTENDS Naturals, Sequences, FiniteSets, SequencesExt, SequenceFilter

CONSTANTS
    Row,
    CoreCounts,  \* what available_parallelism can be
    ChunkSize    \* CHUNK_SIZE of execute_select_with_progress

ASSUME CoreCountsAssumption == CoreCounts \subseteq Nat \ {0}
ASSUME ChunkSizeAssumption == ChunkSize \in Nat \ {0}

VARIABLES
    cores,       \* available_parallelism of this machine
    exists,      \* the table is in the catalog
    files,       \* data files that a reader finds, each a sequence of rows
    unused,      \* rows that were never inserted
    pc,          \* what the scan does next
    total,       \* total_rows, counted when the scan began
    start,       \* start_idx
    shares,      \* reader threads that still run: for each the files to read
    received,    \* all_rows of the chunk: what has arrived on the channel
    result,      \* all_rows of the scan
    counted,     \* history: the rows that were counted
    dropped      \* history: the table was dropped since then

table == <<exists, files, unused>>
scan == <<pc, total, start, shares, received, result, counted>>
vars == <<cores, table, scan, dropped>>

Rows(fs) == FlattenSeq(fs)

Init ==
    /\ cores \in CoreCounts
    /\ exists = TRUE /\ files = <<>> /\ unused = Row
    /\ pc = "idle" /\ total = 0 /\ start = 0
    /\ shares = [k \in {} |-> <<>>] /\ received = <<>> /\ result = <<>>
    /\ counted = {} /\ dropped = FALSE

----------------------------------------------------------------------------
(* Other statements.                                                       *)

\* Mutant: the newest manifest comes first in the list.
InsertNewestFirst(batch) ==
    /\ exists
    /\ batch # {} /\ IsFiniteSet(batch)
    /\ files' = <<SetToSeq(batch)>> \o files
    /\ unused' = unused \ batch
    /\ UNCHANGED <<cores, exists, scan, dropped>>

\* One more data file, after the ones that are already there.
Insert(batch) ==
    /\ exists
    /\ batch # {} /\ IsFiniteSet(batch)
    /\ files' = Append(files, SetToSeq(batch))
    /\ unused' = unused \ batch
    /\ UNCHANGED <<cores, exists, scan, dropped>>

\* DROP ALL TABLES removes the data files, also those that a reader thread has
\* yet to open: it warns and goes on with the next.  The removal and the threads
\* run side by side, so any of the files may have been opened in time.
DropAllTables ==
    /\ exists
    /\ exists' = FALSE
    /\ files' = <<>>
    /\ \E opened \in SUBSET ToSet(files) :
           shares' = [k \in DOMAIN shares |->
               Retained(shares[k], { i \in 1..Len(shares[k]) : shares[k][i] \in opened })]
    /\ dropped' = TRUE
    /\ UNCHANGED <<cores, unused, pc, total, start, received, result, counted>>

CreateTable ==
    /\ ~exists
    /\ exists' = TRUE
    /\ UNCHANGED <<cores, files, unused, scan, dropped>>

----------------------------------------------------------------------------
(* The scan.                                                               *)

\* A new SELECT: the rows are counted from the metadata.
Begin ==
    /\ pc = "idle"
    /\ exists
    /\ total' = Len(Rows(files))
    /\ counted' = ToSet(Rows(files))
    /\ start' = 0 /\ result' = <<>>
    /\ dropped' = FALSE
    /\ pc' = "chunk"
    /\ UNCHANGED <<cores, table, shares, received>>

\* num_threads and files_per_thread
Threads(n) == Min({cores, Max({n, 1})})
PerThread(n) == Max({(n + Threads(n) - 1) \div Threads(n), 1})
ShareCount(n) == (n + PerThread(n) - 1) \div PerThread(n)

\* file_paths_to_read.chunks(files_per_thread)
Shares(fs) ==
    LET per == PerThread(Len(fs))
    IN [k \in 1..ShareCount(Len(fs)) |->
           SubSeq(fs, (k - 1) * per + 1, Min({k * per, Len(fs)}))]

\* scan_table_chunk resolves the snapshot and starts the reader threads.
ReadChunk ==
    /\ pc = "chunk"
    /\ start < total
    /\ IF exists
       THEN pc' = "receive" /\ shares' = Shares(files) /\ received' = <<>>
       ELSE pc' = "failed" /\ UNCHANGED <<shares, received>>
    /\ UNCHANGED <<cores, table, total, start, result, counted, dropped>>

\* check_cancellation: the query was cancelled, which is seen before a chunk.
Cancelled ==
    /\ pc = "chunk"
    /\ start < total
    /\ pc' = "failed"
    /\ UNCHANGED <<cores, table, total, start, shares, received, result, counted, dropped>>

\* A reader thread sends all its rows at once and ends.
Send(k) ==
    /\ pc = "receive"
    /\ k \in DOMAIN shares
    /\ received' = received \o Rows(shares[k])
    /\ shares' = [j \in DOMAIN shares \ {k} |-> shares[j]]
    /\ UNCHANGED <<cores, table, pc, total, start, result, counted, dropped>>

\* Mutant: the chunk has no end.
OpenSlice(rows) == SubSeq(rows, start + 1, Len(rows))

\* all_rows[start_idx..end_idx], empty when start_idx is past the end
Slice(rows) == SubSeq(rows, start + 1, Min({start + ChunkSize, Len(rows)}))

\* Mutant: a copy of the sender stays alive, so the receiver waits for ever.
NeverClosed == FALSE

\* The channel is closed: every thread has dropped its sender, and so has the scan.
Closed == DOMAIN shares = {}

EndChunk ==
    /\ pc = "receive"
    /\ Closed
    /\ result' = result \o Slice(received)
    /\ start' = start + ChunkSize
    /\ received' = <<>>
    /\ pc' = "chunk"
    /\ UNCHANGED <<cores, table, total, shares, counted, dropped>>

End ==
    /\ pc = "chunk"
    /\ start >= total
    /\ pc' = "done"
    /\ UNCHANGED <<cores, table, total, start, shares, received, result, counted, dropped>>

\* The answer is sent, and the page may ask the next query.
Answer ==
    /\ pc \in {"done", "failed"}
    /\ pc' = "idle"
    /\ UNCHANGED <<cores, table, total, start, shares, received, result, counted, dropped>>

ScanStep == ReadChunk \/ EndChunk \/ End \/ Answer \/ \E k \in DOMAIN shares : Send(k)

Next ==
    \/ \E batch \in SUBSET unused : Insert(batch)
    \/ DropAllTables \/ CreateTable
    \/ Begin \/ ScanStep \/ Cancelled

Spec == Init /\ [][Next]_vars

\* The runtime runs the task and its threads; nobody has to start a query.
FairSpec == Spec /\ WF_vars(ScanStep)

----------------------------------------------------------------------------
TypeOK ==
    /\ cores \in CoreCounts
    /\ exists \in BOOLEAN /\ dropped \in BOOLEAN
    /\ files \in Seq(Seq(Row)) /\ unused \subseteq Row /\ counted \subseteq Row
    /\ pc \in {"idle", "chunk", "receive", "done", "failed"}
    /\ total \in Nat /\ start \in Nat
    /\ \A k \in DOMAIN shares : shares[k] \in Seq(Seq(Row))
    /\ received \in Seq(Row) /\ result \in Seq(Row)
    /\ Len(result) <= start /\ start < total + ChunkSize

\* Every row counted is in the result, and no row is in it twice.
Exact == counted \subseteq ToSet(result) /\ IsInjective(result)

\* A scan is exact, whatever is inserted meanwhile, if one thread reads the
\* files, since INSERT only appends; with several threads it is exact if the
\* table still fits in one chunk when the scan ends, so that cutting by
\* position takes everything.
ExactWhenOrdered ==
    pc = "done" /\ ~dropped /\ (cores = 1 \/ Len(Rows(files)) <= ChunkSize) => Exact

\* No statement changed the table since its rows were counted.
Undisturbed == ~dropped /\ counted = ToSet(Rows(files))

\* The result of a scan of a table that nobody changed meanwhile has every row
\* and none twice ("Only read each file once (avoid duplicates)").
EachRowOnce == pc = "done" /\ Undisturbed => Exact

\* The scan asks for a bounded number of chunks, however fast rows arrive, and
\* collects each from threads that all end.
ScanEnds == (pc = "chunk") ~> (pc = "idle")
=============================================================================
