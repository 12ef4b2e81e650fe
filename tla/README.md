# VTDB in TLA+

VTDB (`src/`) is an embedded SQL database in Rust with a web server. A query
goes from the page (`src/web/app.js`) through the HTTP handlers
(`src/src/web/handlers.rs`) to one `Database` behind an `Arc<Mutex<..>>`
(`src/src/lib.rs`), which parses, plans, executes and caches it. Rows live twice:
in memory, column by column, and on disk as Parquet files under a chain of
Iceberg-style metadata. These modules model the parts whose correctness depends
on an order of steps (flushes, failures, crashes, tasks, caches) and check them
with TLC; the properties that matter most are proved with TLAPS.

## Inventory

| part | state it keeps | operations | what is hard about it |
|---|---|---|---|
| Flush and commit path (`storage/mod.rs`, `storage/iceberg/*`) | write buffer and pending files per table; data files, manifests, manifest lists, snapshots on disk | insert, flush, manifest batch, snapshot, read, background flush | four dependent writes, each of which may fail; retries; crash and restart; ids made of a clock and a random part |
| In-memory table and indexes (`storage/table.rs`, `index/*`) | a vector per column, row count, value-to-row-id maps | insert batch, update, delete, lookup, rebuild | row ids are positions that a delete renumbers; index hits are not filtered again |
| Database facade (`lib.rs`) | query trackers, results, cache | execute, execute_async_internal, cancel | a SELECT task runs between the critical sections of other statements |
| Query cache (`cache/*`) | LRU map from statement hash to result and tables | get, put, invalidate, clear | a result computed before an invalidation and cached after it |
| Web page and handlers (`web/*`) | one query id, polling interval and abort controller a page | execute, poll, fetch, cancel | polls race with the last steps of the task; a statement sent over a running query, and answers that come late |
| Storage engine as a whole | tables in memory, catalog on disk | create, insert, update, delete, drop, restart | two copies of a table, different readers prefer different copies |
| Chunked scan, reader and writer threads | file list, rows read so far | read chunk, send, receive | chunks are cut by position out of a list whose order changes |
| Background flush task (`web/server.rs`) | timers | flush due buffers, safety flush | liveness of everything above |
| Executor (`execution/executor.rs`) | none | scan, join, aggregate, expressions | agreement of the sync and async variants, of index and scan, and LIMIT |
| Planner, catalog | tables and columns | plan, create, drop | what the planner accepts and the executor then does otherwise |
| Parser, WAL, checkpoint, transactions, columnar, stubs | none that matters: the WAL is a vector nobody reads | | |

How they interact: handlers call the facade under the database mutex; the
facade calls planner, executor and cache; the executor calls the storage engine,
which updates table and index, then the buffer, then (perhaps) the disk. An
asynchronous SELECT takes a raw pointer to the storage engine and scans without
the mutex; its only other contacts are the tracker map and the cache. The
background task flushes under the mutex.

What would make each part correct:

* flush path: no inserted row is forgotten; a row whose flush returned Ok stays
  visible; visible rows stay visible; a row is read once; every row reaches the
  disk while the process lives; a crash forgets only what was never flushed;
* table and index: columns aligned; the index lists exactly the matching rows;
* facade, cache, page: a cached result is not older than its tables; a stored
  result belongs to a query reported as successful, and a completed query has one;
  every page gets an end;
* engine: reads of the two copies agree, drop and create leave nothing behind;
* scans: each row exactly once; joins and aggregates equal their definition.

`PROJECT.json` lists all parts with their status, and under "hazards" each
place in the code where one of these can go wrong.

## Modules

| module | models | relies on |
|---|---|---|
| `DurableTable` | what the storage engine promises for one table, without files | |
| `FlushCommit` | the write path of one table, one action per file write | refines `DurableTable` |
| `FlushCommitProofs` | the theorems about it | `FlushCommit`, `SequenceLemmas` |
| `ParallelWrite` | the writer threads of one large flush | |
| `ParallelWriteProofs` | the theorems about it | `ParallelWrite` |
| `StorageEngine` | the copies of every table in memory and on disk, and the operations on them | |
| `Database` | the statements over them, schema, cache, poisoned mutex, background flush, restart | `StorageEngine` |
| `DatabaseProofs` | the theorems about it | `Database`, `SequenceLemmas` |
| `IndexedTable` | one in-memory table and its hash indexes | |
| `SequenceFilter` | `Vec::retain`, `Iterator::filter` | |
| `SequenceLemmas` | what the proofs need of sequences, filters, flattening and counting; induction over a set | `SequenceFilter` |
| `QueryService` | pages, query tasks, trackers, cache | `SequenceFilter` |
| `QueryServiceProofs` | the theorems about it | `QueryService`, `SequenceLemmas` |
| `ChunkedScan` | the asynchronous scan of one table and its reader threads | `SequenceFilter` |
| `ChunkedScanProofs` | the theorems about it | `ChunkedScan`, `SequenceLemmas` |
| `Joins` | the joins of the executor, synchronous and asynchronous | `SequenceFilter` |
| `JoinsProofs` | the theorems about it | `Joins`, `SequenceLemmas` |
| `SelectScan` | one SELECT from the rows of its FROM clause to its answer | `SequenceFilter` |
| `SelectProofs` | the theorems about `SelectScan` and about `IndexedTable` | `IndexedTable`, `SelectScan`, `SequenceLemmas` |
| `MC*` | instances for TLC | |

### FlushCommit

A row is its identity and is inserted at most once, so that "visible", "lost"
and "twice" can be said with sets. `mem`, `buffer`, `pending` are the process
(`tables`, `iceberg_write_buffers`, `pending_data_files`); `pc`, `taken`,
`again`, `listId` are the locals of the flush in progress; `dataFiles`,
`manifests`, `lists`, `snaps` the disk. Lists and snapshots are functions from
the id in the file name, because the code finds them by scanning the directory
for the largest id.

| action | code |
|---|---|
| `Insert` | `insert_rows`, `write_to_iceberg_buffered` |
| `FlushBuffer`, `Read` | the flush before a SELECT or COUNT, `flush_all_pending_buffers` |
| `FlushTable` | `flush_table_iceberg_writes` (index scans, DROP, safety flush) |
| `WriteParquet`, `ParquetFails` | the data file |
| `NothingPending`, `WriteManifest`, `ManifestFails`, `WriteList`, `ListFails` | `flush_manifest_batch` |
| `WriteSnapshot`, `NoSnapshot`, `SnapshotFails` | `create_snapshot` |
| `Fail` | the end of `flush_iceberg_buffer` on error: rows go back to the buffer |
| `Crash` | the process dies at any point and `with_iceberg_path` starts again |

The engine runs under one mutex, so while `pc` is not "idle" only the flush
moves (or the process dies). Metadata ids follow the code: `now * 1000 + offset`
for lists, and `now` for snapshots; the offset is in -999..0, since the low 64 bits of
a v4 UUID start with the variant bits `10`, are negative as an `i64`, and Rust's `%`
keeps the sign (`OffsetsAssumption`). When a write fails, the file either is not there ("list", "snap") or
is there and does not parse ("listTorn", "snapTorn"). Data files and manifests
have fresh UUID names and a torn one is unreachable.

The WAL is a vector that is never written, so a crash forgets the buffer: this
is the `Crash` of `DurableTable`, and all that `wal.rs` ("Write-Ahead Log for
durability") adds to the promise.

`Visible` is what `read_from_iceberg` returns after a restart. Abstracted: one
data file per flush (`write_parquet_files_parallel` splits a large flush);
batch thresholds count rows; the file system keeps what was written.

### ParallelWrite

`write_parquet_files_parallel`: `pc`, `spawned`, `handles` and `files` are the
locals of the flushing thread, `writer` and `disk` what became of each chunk,
`channel` the results on their way.

| action | code |
|---|---|
| `Spawn`, `Wait` | the loop over `rows.chunks(..)`, which joins the newest handle at the limit |
| `JoinRest` | the other handles, oldest first |
| `Receive`, `Return` | the loop over the receiver; the first error returns |
| `Write`, `WriteFails` | a writer: directory, conversion, file and its size, then `send` |
| `WriterPanics` | a writer that unwinds on an assertion of the parquet or arrow library (a row group size of 0, `config.rs:15`; a column of more than 2 GiB): it sends nothing, and `join().unwrap_or_default()` takes no notice |

`FlushCommit` has this call as one step: `WriteParquet` if it returns Ok,
`ParquetFails` if not. `OkMeansAllRows` and `NothingRunsAfter` are what makes that step
sound, for writers that do not panic: `FlushCommit` has no flush that returns Ok with a
chunk missing. Files left by a call that failed are in no manifest.

### StorageEngine and Database

`StorageEngine` keeps for each table the rows in memory (`mem`, if `loaded`), in
the write buffer, in data files that the latest manifest list names (`named`) and
in the list of the latest snapshot (`snap`), and what the directory is to the
Iceberg catalog. A flush is one step with the three outcomes that `FlushCommit`
tells apart: "ok", "early" (no list names the rows) and "late" (the list does, the
snapshot failed). Rows have an identity and column values, so an UPDATE can be
followed, and pending files count as buffered.

`Database` has one action per statement, since a statement holds the mutex from
the cache lookup to the invalidation; those that may end differently have one per
end.

| action | code |
|---|---|
| `CreateTable` | `execute_create_table`: the schema, then `create_table_with_schema`, which may fail in between |
| `Insert`, `InsertPanics` | `execute_insert`, `insert_rows`, `write_to_iceberg_buffered` |
| `Select` | `Database::execute` of `SELECT * FROM t`, with the flush before it and the cache after it |
| `Update`, `UpdateFails`, `UpdatePanics` | `execute_update`: one `update_rows` per assignment, each with its own WHERE |
| `Delete` | `execute_delete` |
| `DropAllTables` | flush, clear memory, `remove_dir_all`, clear the cache |
| `FlushDue`, `SafetyFlush` | the two rounds of `start_background_flush_task`, `GET /api/tables` |
| `Restart(loads)` | `Database::new` (loads each table as an empty one) and `with_iceberg_path` (loads none) |

`used`, `buffered`, `gone`, `lost`, `diverged` and `halfEdited` are history variables.

### IndexedTable

`columns`, `rowCount` and `index` are `Table.columns`, `Table.row_count` and
`IndexManager.indexes`. Row ids are positions. `InsertRows` is all or nothing,
as `insert_rows_batch` validates first; `UpdateRows` changes one column;
`DeleteRows` compacts the columns and rebuilds every index; `Restart` is
`load_existing_tables`, which makes an empty table without indexes, so a lookup
finds nothing and the SELECT falls back to a scan (`SelectIds`). Ids under a
value are a set since every reader sorts and dedups. (Its `TableInit`, `TableNext`,
`TableSpec` and `TableTypeOK` bear the table's name because `SelectProofs` speaks of it
together with `SelectScan`.)

### QueryService

One task per asynchronous SELECT with `pc` lookup, plan, scan, put, complete,
store (or fail), each a critical section of the database mutex or, for the scan,
a stretch without it. All other statements are one action each, since they hold
the mutex throughout; any user may send them at any time. Contents of a table are
counts (drops, inserts, edits), so a cached result can be compared with what a reader
would find now. A table scan is one step; `ChunkedScan` looks inside. Memory and disk
differ by the edits: UPDATE and DELETE change only memory, and the asynchronous scan
reads the disk.

`client[c]` is a page: its global variables (`abortable` for `currentAbortController`,
`current` for `currentQueryId`, `polled` for the interval, `waiting` for the button in
cancel mode) and the requests whose answers it awaits (`posts`, `asked`, `answers`,
`fetching`, `deletes`). Everything that runs between two awaits of `app.js` is one
action, on whatever the page is doing by then.

| action | code |
|---|---|
| `Submit` | Ctrl+Enter or the button: `executeQuery` of a SELECT up to its `await fetch`, the tracker and the task; an outstanding POST is aborted (`Aborted`), a polled query is not |
| `SubmitOther` | the same with another statement |
| `Answered` | the POST's answer: the query id, and a new interval |
| `Polled`, `Handle` | a poll's answer on the server, and `pollProgress` after its `await`: it stops *whatever* is polled by now |
| `Fetched` | `fetchQueryResult` |
| `Cancel`, `DeleteAnswered` | `cancelQuery` and `cancel_query`, before and after the `await` |
| `Lookup` ... `StoreResult`, `Fail` | the task |
| `CreateTable` ... `SelectAtOnce` | the other statements |

Abstracted: the server takes up a POST or a DELETE at once (its answer comes late), one
poll of a query is under way at a time, an answer "Running" is only displayed, and the
answer to a page's other statements comes at once. `late`, `halfEdited`, `told` (the
queries whose end a page has shown) and `disturbed` (those that had another request of
their page beside them) are history variables that no action reads but to keep them.

### ChunkedScan

`pc`, `total`, `start`, `result` are the locals of
`execute_table_ref_with_progress`; `shares` and `received` are the threads and
the channel of `read_from_iceberg_with_projection_and_limit`; `files` is what the
latest manifest list leads to.

| action | code |
|---|---|
| `Begin` | the count at the start of the scan |
| `ReadChunk` | `scan_table_chunk` up to the point where the threads run |
| `Send` | one thread reads its share of the files and sends the rows |
| `EndChunk` | the channel is closed: slice, append, next chunk |
| `Cancelled` | `check_cancellation` before a chunk |
| `End`, `Answer` | the scan returns, the task answers |
| `Insert`, `DropAllTables`, `CreateTable` | other statements, at any point: the scan holds no mutex |

A scan that began after the last `DROP` is judged by `Exact`: every row that was
counted is in the result, and no row is in it twice. Rows inserted later may or
may not be there. `counted` and `dropped` are history variables. The metadata
chain behind `files` is that of `FlushCommit`; a flush is one step here.

### Joins

The inputs of a join (its kind, condition, variant and two tables) are chosen in
`Init`; the rest is the algorithm. Rows of the result are pairs of positions, so
"missing", "twice" and "invented" do not depend on the contents of rows.

| definition | code |
|---|---|
| `Columns`, `Found`, `Find`, `ValueOf`, `Known`, `Compare`, `Evaluate` | `find_column`, `evaluate_expr_with_schemas`, `evaluate_join_condition` |
| `Extractable`, `KeyColumns`, `JoinKeys`, `SameKey` | `extract_equi_join_keys`, `build_hash_table`, `hash_join_equi` |
| `SyncJoin` with `InnerJoin` ... `CrossJoin` | `execute_join` and the synchronous joins, in one step under the mutex |
| `Check`, `ProbeRow`, `Finish`, `AsyncInnerUsing`, `LookupFails` | the joins "with progress", one step per row; `AsyncInnerUsing` is the INNER JOIN USING, which probes all rows in one stretch without a look at the tracker |
| `Cancel` | `cancel_query` by another request |

`Documented` is the meaning of a join by its condition alone, without keys, hash
tables or an order of rows. Left out: which columns USING drops, literals in a
condition, expressions deeper than two comparisons.

### SelectScan

The statement, the rows of its FROM clause, the place of the table (in memory with
or without its indexes, or on disk only) and the variant of the executor are chosen
in `Init`. Then `Scan` (index lookup, early LIMIT, projection of a scan of the
disk), `Filter` (`evaluate_predicate_with_schema` row by row) and `Finish`
(`finish_select_execution`: grouping and aggregates, or the columns).

| definition | code |
|---|---|
| `Lookup`, `Hint`, `Scanned`, `Seen`, `Examined` | `execute_select`, `execute_select_with_progress`, `extract_equality_predicate` |
| `Needed`, `Projected` | `extract_needed_column_indices`, `read_from_iceberg_with_projection_and_limit` |
| `Rejected`, `Reject` | `plan_select`: the select list against GROUP BY and aggregates |
| `Find`, `Compare`, `Predicate` | `find_column`, `compare_values`, `evaluate_predicate_with_schema` |
| `Cells`, `SumOf`, `MinOf`, `MaxOf`, `Aggregate`, `Failing`, `Aggregations` | `compute_aggregate_with_schema`, `execute_aggregation_with_schema` |
| `Project` | `project_columns` |

Against them stands the meaning of a statement: three-valued WHERE clauses
(`Holds`), aggregates over the multiset of values (`Times`, `Meaning`), columns of the whole
row (`Cell`). Where the code answers something else, the case has a name with
its line (`QualifiedKey`, `Shifted`, `NotRead`, `NullTrap`, `GroupingIgnored`, `CutShort`,
`LimitsRows`, `Overflows`), and the properties say that there are no others. The cases are
assumptions of the properties, so each is as narrow as it can be; in `CutShort` the answer
is still exact for the rows that were scanned, and in `LimitsRows` for the first LIMIT
matches. `GROUP BY t.a` is not among the statements: the parser refuses it
(`snowflake.rs:92-117`), although `examples.md:476`, 483 and 625 use it.

## Runs

| run | result | shows |
|---|---|---|
| `flush_commit` | pass | with `Ticks = {1}` (list ids of different milliseconds) and clean faults: nothing lost, committed rows stay, lists and sequence numbers grow, refinement of `DurableTable` |
| `flush_retry` | pass | whatever fails before the snapshot (torn and unreadable lists and crashes included), a retry stores no row twice, and every row of a living process reaches the disk unless it shares its buffer with a row that can never be written |
| `flush_fast_clock` | violation | two flushes within one millisecond: a committed batch is not found |
| `indexed_table` | pass | indexes exact and columns aligned after any history |
| `query_service` | pass | a stale cache entry has one of two known causes; a stored result is never a failure; the page never stays in cancel mode, and shows how each query ended that had no other request of the page beside it |
| `query_stale_cache` | violation | the race between a scan and an INSERT leaves a stale entry |
| `chunked_scan` | pass | the scan ends, and is exact with one reader thread or when the table fits in one chunk |
| `chunked_scan_parallel` | violation | with two threads, rows are repeated and missed without any other statement |
| `joins` | pass | all joins of small tables: each documented row exactly once, but for the unmatched rows of two known cases, which come not at all or twice; no pair that does not belong together; a cancellation is heeded within one interval, but by the asynchronous INNER JOIN USING |
| `database` | pass | all statements on two tables with failing flushes, half-done CREATE, DROP and UPDATE, a panic and a restart: the copies agree until something sets them apart, no buffered row is forgotten, no dropped row returns, cached answers are true, UPDATE touches what it should, and one table's failure does not hold back another |
| `select_scan` | pass | WHERE, LIMIT, GROUP BY, aggregates and USING, by index, memory or disk, in both variants: the answer is what the statement means outside the named cases, and it fails or panics only in the known ones |
| `parallel_write` | pass | writers that end in any order, two of them failing or panicking: the call returns, Ok means every row in exactly one whole file but for those of a writer that panicked, no writer outlives the call, and the limit on threads holds |

The findings in `PROJECT.json` quote the comments and documents that the
violations contradict.

Other behaviour of the code that the models have and the properties allow for:

* A manifest list that was cut short ("listTorn") or cannot be read makes the
  next list start from nothing, and all earlier rows disappear
  (`unwrap_or_default` at `mod.rs:517`). `DurableStaysVisible` holds only without it.
* A row of the wrong type blocks the buffer it is in for ever.
* A task sets Completed before it stores the result (`lib.rs:438` and 447), and a
  page that polls in between shows an error. `ResultMeansSuccess` is the
  direction that holds.
* A flush that fails at the snapshot has already written its list: the retry
  stores the rows a second time (`mod.rs:348`; `NoRowTwice` is checked without "snap"
  faults). The sets of `StorageEngine` do not count copies.
* The synchronous FULL OUTER JOIN is an inner join (`executor.rs:1776`); the
  asynchronous LEFT and RIGHT JOIN by nested loop add each unmatched row twice
  (`executor.rs:2111`, 2168). `ExactElsewhere` says so much and no more.
* `UPDATE t SET a = b` and `INSERT INTO t VALUES (b)` evaluate `b` on an empty row and
  panic under the mutex (`executor.rs:1163`). It stays poisoned: every handler answers
  500 and the background task skips each round, until the process is started again.
  INSERT also ignores its list of columns.
* An UPDATE whose second assignment fails keeps the first and leaves the old answer in
  the cache. Each assignment evaluates the WHERE clause again, so one that changes
  a column of it decides what the next one sees (`executor.rs:1087`);
  `UpdateAsDocumented` compares with SQL where it does not.
* CREATE TABLE that fails to write its metadata leaves the schema and the table in
  memory; its rows are buffered and never flushed. DROP whose directory cannot be
  removed forgets the table and finds its rows again after a restart.
* After a restart by `new` a synchronous SELECT sees empty tables and an asynchronous
  one the rows on disk; after `with_iceberg_path` INSERT, UPDATE and DELETE fail,
  while SELECT reads the disk. Either way UPDATE and DELETE are undone (`diverged`).
* The synchronous SELECT with WHERE and LIMIT scans only LIMIT * 10 rows, computed
  without an overflow check (a release build wraps).
* `<>` is true of NULL, `x = NULL` finds NULLs, OR fails with its left operand; an
  unknown column in WHERE gives no rows, in SUM NULL, in COUNT 0; the index lookup
  ignores the qualifier of a column; a column qualified by an alias is not read
  from disk and comes as NULL; SUM wraps around in a release build.
* A USING join drops columns from its rows but not from the combined schema, so
  a SELECT like the one at `examples.md:455` reads past the end of a row and panics. In
  an asynchronous task this leaves the tracker Running and its page polling for ever;
  `ClientAnswered` is about tasks that do not panic.

Disagreements the passing runs pin down. In these the code contradicts a test, a
document or itself; the property states exactly what the code does there, as a named
exception, and would fail if it did something else again.

| code | says otherwise | named in |
|---|---|---|
| A synchronous LIMIT cuts the rows to be aggregated: `SELECT COUNT(*) ... LIMIT 1` counts one row (`executor.rs:292`, 308) | `tests/count_tests.rs:219`: "COUNT() should ignore LIMIT", expects 3 | `LimitsRows` in `AggregatesExact` |
| GROUP BY without an aggregate is accepted (`planner/mod.rs:64`) and ignored (`executor.rs:469`): one row for each row | `examples.md:223`: "Groups rows by one or more columns" | `GroupingIgnored` in `RowsExact` |
| `SELECT t.a, COUNT(*) ... GROUP BY a` passes the planner, which drops the qualifier (`planner/mod.rs:68-82`), and fails at `executor.rs:2971-2975` | the planner's own check | `QualifiedKey` in `FailsOnlyAsKnown` |
| The asynchronous INNER JOIN USING never calls `check_cancellation` (`executor.rs:2001-2040`) | all other joins do | `AtOnce` in `CancelHeeded` |
| A Parquet writer that panics is joined with `unwrap_or_default` (`mod.rs:449`, 456): the flush returns Ok without its rows | the flush gives its rows up only after Ok (`mod.rs:348`) | `Lost` in `OkMeansAllRows` |
| A statement sent over a running query leaves a poll of the earlier one under way, whose answer stops the polling of the newer one (`app.js:467`, 503): it ends unseen | "Cancel any ongoing query" (`app.js:223`), which aborts only an outstanding POST | `disturbed` in `ClientAnswered` |
| The synchronous FULL OUTER JOIN has no unmatched rows (`executor.rs:1776`) | `examples.md:377`, 436 | `Expected` in `ExactElsewhere` |
| After a restart the synchronous SELECT finds none of the stored rows (`mod.rs:1253`) | `tests/iceberg_durability_tests.rs:158-197` expects them | `diverged` in `CopiesAgree` |

Bounds. Three rows let one batch be committed, a second be in flight and a third
be inserted meanwhile; `SmallBatch = 2` and `SizeLimit = 3` make buffers of one
row (flushed at once), two (kept) and three (flushed by size). The code's batch
limits of 1000 rows and of 64 MB at 1000 bytes a row stand in the same order.
Two faults allow a failure during the retry of a failure. `MaxSnapshots` bounds
only explicit flushes of an empty buffer, which would otherwise add snapshots
for ever. `MCOffsets` takes the two ends of -999..0, since only the
order of ids matters. The index instance has two columns, three values (NULL
among them), batches of two and tables of three rows: enough for a delete to
renumber a row that an update changed. The query instance has one page, two
asynchronous SELECTs, a cache of one entry, a single-table SELECT and a join, and three
other statements or cancellations (`MaxRequests`): a CREATE TABLE, a write that separates
a scan from the filling of the cache, and one more, or a cancellation; two queries are
what a page can mix up. Pages share nothing but the database, so a second page would only
be one more sender of statements, which come from anywhere as it is.
`ChunkedScan` has four rows, chunks of two and one to three reader threads: two
full chunks, or a chunk boundary inside a file, with up to four files.

The joins have tables of up to three rows with duplicates and NULL keys, a left
side with an ambiguous column, thirteen conditions (hash, nested loop, swapped sides,
errors) and a check for cancellation every two rows instead of every 1000.

`Database` has two tables of two columns and two values, two row identities,
two faults (a failure and the failure of its retry, or one of each table) and one
restart; five SET clauses (one and two columns, failing first, second and by panic) and
two WHERE clauses, one of which an assignment can falsify. `ParallelWrite` has nine
rows in five files (the last one shorter), three threads and two faults, so
that the thread waits for writers while others fail. `SelectScan` has every table of
up to three rows over {-1, 1, NULL}, joins of up to two rows, every operator and
aggregate in some statement, `HintFactor = 2` for 10 (so that a table may be longer
than the hint), `Wrap = 4` for 2^64 (LIMIT 2 wraps to 0) and integers of two bits (so
that a sum overflows).

In `flush_retry` the row `r3` is of the wrong type: `rows_to_arrow_arrays` rejects
it, INSERT does not check types, and the failed flush restores the whole buffer,
so that no row buffered with it is ever written. `EventuallyFlushed` exempts exactly
these buffers.

Fairness. `FlushCommit!FairSpec` is weakly fair to the steps of a flush (a
handler runs to its end) and to `FlushBuffer` (the safety flush of
`start_background_flush_task` runs every 8 seconds on every non-empty buffer).
`QueryService!FairSpec` is weakly fair to each task (tokio schedules it) and to each
page (every request is answered, and a timer polls every 5 seconds until it is stopped). `ChunkedScan!FairSpec` is weakly fair to the
scan (the runtime runs the task, the operating system its threads).
`Database!FairSpec` is weakly fair to the safety flush (every 8 seconds), and
`ParallelWrite!FairSpec` to each thread, which the operating system runs unless it
is blocked. Nothing is assumed about clients or about the order of writers.

## Proofs

Every safety property of the passing runs is also a theorem, for every value of the
constants. In each module of proofs an inductive invariant (`IInv`, `QInv` for
`QueryService`, `TableInv` and `SelectInv` in `SelectProofs`) holds initially, is kept by every
action (a lemma or a case for each), and implies the properties.

**`FlushCommitProofs`**: any set of rows, any number of faults, crashes and flushes,
any buffer thresholds.

* `TypeCorrect` assumes nothing of the clock or of the faults.
* `RowsReadOnce` (`NoRowTwice`) assumes `NoLateFault`: no failure after the list is
  written. A failure at the snapshot does store the rows twice, see above.
* `NoInsertForgotten`, `Durability`, `ListsOnlyAccumulate`,
  `SequenceNumbersIncrease`, `ReadersNeverLoseRows` and
  `FlushImplementsDurableTable` assume `SteadyClock` (two list
  ids are drawn in different milliseconds, and time does not run backwards) and `CleanFaults` (no
  file is left half written, no manifest list is unreadable). The run
  `flush_fast_clock` shows that the first cannot be dropped, and with "listTorn"
  among the faults `DurableStaysVisible` fails as well.

The invariants of the runs are not inductive: that a new list contains the old
ones, for instance, needs that the new id is the largest. `IInv` adds: ids on disk
are in the past and ordered (`OrderedIds`); lists accumulate and every snapshot
names a list (`Accumulation`); what the step `pc` of a flush has already achieved
(`InFlight`: the data file is pending, the manifest names it, the newest list
contains it); and where every row of the process is (`Accounted`).
`SequenceFollowsTime` has an invariant of its own (`SnapInv`), and so has
`NoRowTwice`: a row in the buffer is in no data file that a list can come to name.

**`SelectProofs`** on `IndexedTable`: `TableTypeCorrect`, `ColumnsAligned`,
`IndexesExact` and `IndexedSelectAgrees` for any columns, values, predicates and
batches. The invariant `TableInv` is the conjunction of the first three, `DeleteRows`
being the action where ids move.

**`SelectProofs`** on `SelectScan`: `SelectTypeCorrect`, `SelectFailsOnlyAsKnown`,
`SelectRowsExact` and `SelectAggregatesExact`, for any two tables, any rows and any set
of statements. The assumptions are the types of the constants
(`ColumnsAssumption`, `QueryAssumption`, `RowsAssumption`: rows as wide as the FROM clause
makes them) and `NumberAssumption`: numbers lie between `MinInt` and `MaxInt`, and NULL is
none of them. A run is three steps, so the invariant `SelectInv` is short: what was found is
what the index or the filter lets through of the rows scanned (`Found`), and the answer is
one of the `Outcomes` of it. The work is in comparing what the code computes with what the
statement means:

* a row passes `Predicate` just when it satisfies `Holds`, if no NULL trap is met
  (`FilterAgrees`), and the index finds the rows that pass (`LookupExact`);
* `FoundCovers`: of the rows that satisfy the statement, those found are all of them, or
  the first ones and as many as LIMIT asks for. That covers the hint that cuts the
  scan, the filter that stops early, and both together with the LIMIT at the end;
* `ProjectExact`: unless a USING join has shifted the column, position `Find(t, c)` of a row
  as read is the column of the whole row;
* an aggregate: the code adds up a sequence of values, or the elements of a hash set in
  any order, modulo 2^64; the meaning is a sum over numbers of how often each occurs.
  `SumByCounts` turns the one into the other by induction over the sequence (one more
  value changes one summand, `SumChange`), `Counts` and `CellsCount` say that the values
  looked at have the counts of the group's members, `MinOfReached` and `MaxOfReached` that
  the loops keep a least and a greatest value, `WrappedWithin` that a sum in range
  is not changed by wrapping;
* `KeysExact`, `GroupExact`: groups found by key are the members by key, and LIMIT leaves
  as many of them as it says (`KeptCount`);
* `FoundAggregated`: the rows aggregated are the matching ones, or the first LIMIT of them
  if the filter stops there (`SeenStops`).

The named cases (`Shifted`, `NullTrap` and so on) are hypotheses of the properties and
were needed in the proofs: each is used at the step at which the code goes wrong.

**`DatabaseProofs`**: any tables, columns, SET and WHERE clauses, and any number of
faults and restarts: `TypeCorrect`, `TwoCopiesAgree`, `BufferedRowsStay`,
`CachedAnswersTrue`, `DroppedRowsStayAway` and the action property
`UpdatesDoAsDocumented`. Three of them are inductive together once `Shape` says
which tables have a copy in memory, a cached answer and a buffer; `Alive` adds
that every row in a copy was inserted and is not gone. The actions are first
sorted by what they do to the copies (insert, edit, flush, drop, restart, something
else; lemma `Steps`), and each property then has one case per kind. What an
UPDATE makes of the rows is a recursion over its assignments: its value is shown
by induction, with what the first n of them have done as the hypothesis.

**`ParallelWriteProofs`**: `TypeCorrect`, `NoWriterOutlives`, `WritersBounded` and
`OkIsComplete` for any number of rows, rows per file, threads, failing writes and panics. The
invariant: a running writer has a handle (`Handled`), there are at most
`ActualParallelism` handles (`Limited`), a writer that has ended is reported in the channel
or among the files (`Reported`), truthfully (`Truthful`) and once (`Distinct`), and one that
panicked is in neither.
`RowsAreSplit` is the arithmetic: each row is in exactly one chunk. The
assumption is the condition under which the code calls it (`ParallelAssumption`).

**`QueryServiceProofs`**: `TypeCorrect`, `OnlyRacesLeaveStaleEntries` and
`StoredResultsSucceeded` for any statements, tables, pages, tasks and cache capacity.
The invariant relates what a task has read to the tables (up to date, or noted in
`late` as overtaken by a write), what the cache holds to what its task had read,
and the tracker of a query to the step its task is at.

**`ChunkedScanProofs`**: `TypeCorrect` and `ScanExact` for any batches of rows, chunk
size, number of cores and of threads. An INSERT only appends, so the counted rows stay the
first of the table (`CountedFirst`). With one thread rows arrive in the order of the
files, and the result is a prefix of the table up to the next chunk (`OneThread`). With
several, what has arrived and what the threads still hold have each row once, and a table
of one chunk is taken whole (`OneChunk`).

**`JoinsProofs`**: `TypeCorrect`, `JoinsExact`, `OnlyRowsDocumented` and
`CancellationHeeded` for tables, schemas, conditions and intervals of any size. The proof
speaks of sequences that *list* a set (each element once): what one row contributes
lists the pairs it is part of, the pieces are disjoint, so their concatenation lists
the union. The invariant says that an asynchronous join has listed what the rows
probed so far contribute (`SoFar`), and that the rows probed since a cancellation
are those since the last check (`Heeded`), except in the INNER JOIN USING that never checks. That the rows with equal keys are the rows
for which the condition is true is a lemma by itself (`MatchMeans`). It needs
`Unambiguous`: no column of a comparison that gives keys is one of either table. SQL
rejects such a comparison; the code accepts it, and then the hash join takes the
columns one from each side, while a nested loop would take both from the left. The
instance for TLC assumes it, too.

Induction over data is out of reach where a theorem of the library takes an
operator as a parameter. `SequenceLemmas` gets around it: `SetInduction` is stated for a
set of numbers instead of a predicate (0 is in it, and with n also n + 1), and
`Recursion` shows that a function defined by its value at the predecessor exists, hence
satisfies its definition. Filters are therefore written as the recursive function `Retained`
instead of `SelectSeq`, whose library definition the provers cannot unfold.

**What liveness rests on.** Fairness is out of the provers' reach, but not what it is
applied to. For each liveness property a theorem gives the safety half: the steps that
fairness drives lower a bound, nothing else raises it, and where it ends is where the
property wants to be.

* `EventuallyFlushed`: `FlushesEnd`. A flush makes at most seven writes and ends with
  its rows durable; or something failed, or it has a row that the Parquet writer rejects, and
  then it has given its rows back (or the process died). Nothing is assumed of the clock.
* `PendingReachDisk`: `RoundsReachDisk`. Each round of the safety flush brings the
  rows of every known table to where a reader finds them, except those whose own
  writes failed; each of those counts as one fault.
* `ClientAnswered`: `TasksEnd` and `NoPageAbandoned`. A task takes at most n + 6 steps for
  n tables and no other step sets it back. A query that was begun has been shown, or had
  another request of its page beside it, or is the only one its page waits for: then its
  POST, a poll or its result is outstanding, or it is polled and has an end in the tracker
  or a task whose next step exists. The invariant (`WaitInv`) is that such a query has the
  interval, the controller and the id of its page to itself, and that a task that is over
  has not left its tracker at Running.
* `ScanEnds`: `ScanBounded`. For every row counted at most `cores` + 2 steps, since there are
  never more reader threads than cores (`FewShares`, the arithmetic of
  `files_per_thread`) and each chunk passes at least one counted row, however many
  are inserted meanwhile.
* `Returns`: `BoundedSteps` and `NeverStuck`. At most four steps a chunk and two more, and
  until the call returns a writer is at work or the flushing thread can go on.

Only model-checked: the liveness properties themselves, that is, the step from these
theorems to "eventually" by weak fairness, and the properties that runs violate.

## Not modelled, and why

Range lookups (no statement creates a B-tree index); aggregates of other types than
integers; `execute_aggregation` and `compute_aggregate`, which nothing calls; the
ages and intervals of the flush timers (a flush may be due at any time).
Parser and type conversion (no state, data only); `transaction` and `checkpoint`
(placeholders); `columnar`, `vectorized` and the operator stubs (unused); page
rendering. A scan without the mutex is a data race: other statements run between
any two of its steps, but the memory accesses themselves do not tear.

## Plan

Done: the flush path, the table with its indexes, the query service, scans and joins;
`StorageEngine` and `Database`; `ParallelWrite`; `SelectScan`; the proofs above. Left:

1. `Database` as an implementation of `DurableTable` for each table, without UPDATE
   and DELETE.
2. `WriteBuffer` and the timers of the background task: the age of a row in the
   buffer is bounded.
3. A query task that panics, in `QueryService`: the tracker that stays Running.
