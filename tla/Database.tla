------------------------------ MODULE Database ------------------------------
(***************************************************************************)
(* The statements of one Database (lib.rs, execute_with_cache_info, and    *)
(* executor.rs) over the storage engine, with its schema catalog and query *)
(* cache, the background flush (server.rs) and the end of the process.     *)
(*                                                                         *)
(* A statement holds the database mutex from the cache lookup to the       *)
(* invalidation, so it is one step.  It may fail half way, and it may      *)
(* panic: then the mutex stays poisoned and every later caller is turned   *)
(* away until the process is started anew.  SELECT is `SELECT * FROM t` by *)
(* Database::execute; QueryService and ChunkedScan have the asynchronous   *)
(* one, QueryService the eviction of cache entries.                        *)
(***************************************************************************)
EXTENDS StorageEngine, Sequences, SequencesExt

CONSTANTS
    NewRow,      \* what an INSERT may put into the columns of a row
    Assignments, \* the SET clauses, sequences of [column, expr]
    Filter,      \* the WHERE clauses, sets of column values
    Fails,       \* an expression that cannot be evaluated: 1 + 2, an unknown column
    Panics,      \* an expression that names a column: it is evaluated on an empty row
    SmallBatch,  \* a buffer of fewer rows is flushed at once
    NotCached,
    MaxBatch,    \* bound on the rows of an INSERT
    MaxStarts    \* bound on restarts

ASSUME IdAssumption == Id \subseteq Nat
ASSUME NewRowAssumption == NewRow \subseteq [Column -> Value]
SetClause == [column : Column, expr : Value \cup {Fails, Panics}]
ASSUME ExprAssumption == \A clause \in Assignments : clause \in Seq(SetClause)
ASSUME FilterAssumption == \A f \in Filter : f \subseteq [Column -> Value]
ASSUME BoundAssumption == {SmallBatch, MaxBatch, MaxStarts, MaxFaults} \subseteq Nat

VARIABLES
    schema,      \* Catalog: the tables statements may name
    cache,       \* table -> cached answer of SELECT * FROM table
    poisoned,    \* a statement panicked while it held the mutex
    starts,      \* how often the process was started again
    \* history, which no action reads
    used,        \* ids of rows inserted so far
    buffered,    \* those that went into a write buffer
    gone,        \* those whose table was dropped with its files
    lost,        \* those that a process took with it: buffered, and in no list
    diverged,    \* tables whose two copies an UPDATE, a DELETE, a restart or a leftover directory set apart
    halfEdited   \* tables that a failed UPDATE changed since their answer was cached

history == <<used, buffered, gone, lost, diverged, halfEdited>>
vars == <<storageVars, schema, cache, poisoned, starts, history>>

Ids(rows) == { r.id : r \in rows }
OnDisk == UNION { Ids(named[t]) : t \in Table }
InBuffer == UNION { Ids(buffer[t]) : t \in Table }

Init ==
    /\ StorageInit
    /\ schema = {}
    /\ cache = [t \in Table |-> NotCached]
    /\ poisoned = FALSE
    /\ starts = 0
    /\ used = {} /\ buffered = {} /\ gone = {} /\ lost = {}
    /\ diverged = {} /\ halfEdited = {}

----------------------------------------------------------------------------
(* The cache.                                                              *)

\* Mutant: a write leaves the answers where they are.
KeepCached(t) == UNCHANGED cache

Invalidate(t) == cache' = [cache EXCEPT ![t] = NotCached]

----------------------------------------------------------------------------
(* CREATE TABLE, INSERT, SELECT.                                           *)

\* The schema first, then the storage engine: if that fails, the statement
\* fails but the table exists.
CreateTable(t) ==
    /\ ~poisoned
    /\ t \notin schema
    /\ schema' = schema \cup {t}
    /\ \E directory \in {"known", "unreadable", catalog[t]} :
         CreateTableWithSchema(t, directory)
    /\ diverged' = IF named[t] = {} THEN diverged ELSE diverged \cup {t}
    /\ UNCHANGED <<cache, poisoned, starts, used, buffered, gone, lost, halfEdited>>

Fresh(n) == { ids \in SUBSET (Id \ used) :
                /\ Cardinality(ids) = n
                /\ \A i \in ids, j \in (Id \ used) \ ids : i < j }

Insert(t) ==
    /\ ~poisoned
    /\ t \in schema
    /\ \E n \in 1..MaxBatch : \E ids \in Fresh(n) : \E new \in [ids -> NewRow] : \E flushes \in BOOLEAN :
         /\ Cardinality(buffer[t]) + n < SmallBatch => flushes
         /\ InsertRows(t, { [id |-> i, at |-> new[i]] : i \in ids }, flushes)
         /\ used' = used \cup ids
         /\ buffered' = IF catalog[t] = "none" THEN buffered ELSE buffered \cup ids
    /\ Invalidate(t)
    /\ halfEdited' = halfEdited \ {t}
    /\ UNCHANGED <<schema, poisoned, starts, gone, lost, diverged>>

\* INSERT ... VALUES (c): a value that names a column is read from an empty row,
\* before anything is stored.  (One that cannot be evaluated changes nothing.)
InsertPanics(t) ==
    /\ ~poisoned
    /\ t \in schema
    /\ poisoned' = TRUE
    /\ UNCHANGED <<storageVars, schema, cache, starts, history>>

\* A SELECT that is not in the cache; a hit changes nothing.
Select(t) ==
    /\ ~poisoned
    /\ t \in schema
    /\ cache[t] = NotCached
    /\ FlushTables(Pending \cap {t})
    /\ cache' = [cache EXCEPT ![t] = Scanned(t)]
    /\ UNCHANGED <<loaded, mem, catalog, schema, poisoned, starts, history>>

----------------------------------------------------------------------------
(* UPDATE and DELETE.                                                      *)

Matches(r, f) == r.at \in f

\* Mutant: the new value goes to every row.
AssignedEverywhere(rows, a, f) == { [r EXCEPT !.at[a.column] = a.expr] : r \in rows }

\* One call of update_rows.
Assigned(rows, a, f) ==
    { IF Matches(r, f) THEN [r EXCEPT !.at[a.column] = a.expr] ELSE r : r \in rows }

Evaluates(a) == a.expr \in Value

\* How many assignments run before one cannot be evaluated.
Applied(clause) ==
    CHOOSE n \in 0..Len(clause) :
        /\ \A i \in 1..n : Evaluates(clause[i])
        /\ n < Len(clause) => ~Evaluates(clause[n + 1])

\* execute_update: one assignment after the other, each with its own WHERE.
Updated(rows, clause, f) ==
    LET after[n \in 0..Applied(clause)] ==
            IF n = 0 THEN rows ELSE Assigned(after[n - 1], clause[n], f)
    IN after[Applied(clause)]

Diverge(t) == diverged' = IF mem'[t] = mem[t] THEN diverged ELSE diverged \cup {t}

Update(t, clause, f) ==
    /\ ~poisoned
    /\ t \in schema
    /\ Applied(clause) = Len(clause)
    /\ ChangeMemory(t, Updated(mem[t], clause, f))
    /\ Invalidate(t)
    /\ Diverge(t)
    /\ halfEdited' = halfEdited \ {t}
    /\ UNCHANGED <<schema, poisoned, starts, used, buffered, gone, lost>>

\* An error returns before the invalidation and keeps what was assigned.
UpdateFails(t, clause, f) ==
    /\ ~poisoned
    /\ t \in schema
    /\ Applied(clause) < Len(clause)
    /\ clause[Applied(clause) + 1].expr = Fails
    /\ ChangeMemory(t, Updated(mem[t], clause, f))
    /\ Diverge(t)
    /\ halfEdited' = IF mem'[t] = mem[t] THEN halfEdited ELSE halfEdited \cup {t}
    /\ UNCHANGED <<schema, cache, poisoned, starts, used, buffered, gone, lost>>

\* Without a row, row[ordinal] is out of bounds.  A table that is not in memory
\* is noticed only by the first assignment that is carried out.
UpdatePanics(t, clause, f) ==
    /\ ~poisoned
    /\ t \in schema
    /\ Applied(clause) < Len(clause)
    /\ clause[Applied(clause) + 1].expr = Panics
    /\ \/ Applied(clause) = 0 /\ UNCHANGED storageVars
       \/ Applied(clause) > 0 /\ ChangeMemory(t, Updated(mem[t], clause, f))
    /\ Diverge(t)
    /\ halfEdited' = IF mem'[t] = mem[t] THEN halfEdited ELSE halfEdited \cup {t}
    /\ poisoned' = TRUE
    /\ UNCHANGED <<schema, cache, starts, used, buffered, gone, lost>>

Delete(t, f) ==
    /\ ~poisoned
    /\ t \in schema
    /\ ChangeMemory(t, { r \in mem[t] : ~Matches(r, f) })
    /\ Invalidate(t)
    /\ Diverge(t)
    /\ halfEdited' = halfEdited \ {t}
    /\ UNCHANGED <<schema, poisoned, starts, used, buffered, gone, lost>>

DropAllTables ==
    /\ ~poisoned
    /\ \E t \in Table : t \in schema \/ catalog[t] # "none"
    /\ schema' = {}
    /\ \E o \in Outcomes(Pending), stays \in SUBSET Table : DropTables(o, stays)
    /\ cache' = [t \in Table |-> NotCached]
    /\ gone' = used \ (OnDisk' \cup lost)
    /\ diverged' = {} /\ halfEdited' = {}
    /\ UNCHANGED <<poisoned, starts, used, buffered, lost>>

----------------------------------------------------------------------------
(* The background flush and the end of the process.                        *)

\* flush_all_pending_buffers: the tables that are due, and others in spite of
\* a failure.  So does GET /api/tables, which counts the rows of each table.
FlushDue ==
    /\ ~poisoned
    /\ \E ts \in SUBSET Pending : ts # {} /\ FlushTables(ts)
    /\ UNCHANGED <<loaded, mem, catalog, schema, cache, poisoned, starts, history>>

\* Mutant: a table that fails, and comes first, ends the round.
SafetyFlushStops ==
    /\ ~poisoned
    /\ Pending # {}
    /\ FlushTables(IF \E t \in Pending : catalog[t] # "known" THEN {} ELSE Pending)
    /\ UNCHANGED <<loaded, mem, catalog, schema, cache, poisoned, starts, history>>

\* The safety flush: every table with rows in its buffer.
SafetyFlush ==
    /\ ~poisoned
    /\ Pending # {}
    /\ FlushTables(Pending)
    /\ UNCHANGED <<loaded, mem, catalog, schema, cache, poisoned, starts, history>>

\* The process ends, also in good order, and another one opens the directory.
Restart(loads) ==
    /\ starts < MaxStarts
    /\ starts' = starts + 1
    /\ Reopen(loads)
    /\ schema' = Readable
    /\ cache' = [t \in Table |-> NotCached]
    /\ poisoned' = FALSE
    /\ lost' = lost \cup (InBuffer \ OnDisk)
    /\ diverged' = { t \in loaded' : named[t] # {} }
    /\ halfEdited' = {}
    /\ UNCHANGED <<used, buffered, gone>>

Next ==
    \/ \E t \in Table :
         \/ CreateTable(t) \/ Insert(t) \/ InsertPanics(t) \/ Select(t)
         \/ \E clause \in Assignments, f \in Filter :
              Update(t, clause, f) \/ UpdateFails(t, clause, f) \/ UpdatePanics(t, clause, f)
         \/ \E f \in Filter : Delete(t, f)
    \/ DropAllTables
    \/ FlushDue \/ SafetyFlush
    \/ \E loads \in BOOLEAN : Restart(loads)

Spec == Init /\ [][Next]_vars

\* start_background_flush_task runs the safety flush every 8 seconds.
FairSpec == Spec /\ WF_vars(SafetyFlush)

----------------------------------------------------------------------------
(* Properties.                                                             *)

\* Each variable has its type, and only tables of the schema are in memory or
\* cached, and only those in memory have a write buffer (mod.rs:16, lib.rs:121).
TypeOK ==
    /\ StorageTypeOK
    /\ schema \subseteq Table
    /\ loaded \subseteq schema
    /\ cache \in [Table -> {NotCached} \cup SUBSET Row]
    /\ \A t \in Table \ schema : cache[t] = NotCached
    /\ \A t \in Table \ loaded : buffer[t] = {}
    /\ poisoned \in BOOLEAN
    /\ starts \in 0..MaxStarts
    /\ used \subseteq Id
    /\ {buffered, gone, lost} \subseteq SUBSET used
    /\ diverged \subseteq Table /\ halfEdited \subseteq Table

\* As long as nothing set the copies of a table apart (UPDATE, DELETE, restart,
\* a directory that a DROP could not remove), its rows in memory are those on
\* disk and in the buffer, whatever failed: the readers that prefer memory
\* (mod.rs:749) and those that prefer the disk (mod.rs:1010) see one table.
CopiesAgree ==
    \A t \in loaded \ diverged :
        catalog[t] # "none" => mem[t] = named[t] \cup buffer[t]

\* A row that an INSERT buffered is on disk or still buffered, unless its table
\* was dropped or the process ended while it was only buffered (mod.rs:155).
NothingForgotten == buffered \subseteq OnDisk \cup InBuffer \cup gone \cup lost

\* No row of a dropped table comes back, in a table of the same name or after a
\* restart, once its files are removed (drop_all_tables, mod.rs:1288).
NothingSurvivesDrop ==
    /\ gone \cap (OnDisk \cup InBuffer) = {}
    /\ \A t \in Table :
         /\ gone \cap Ids(mem[t]) = {}
         /\ cache[t] # NotCached => gone \cap Ids(cache[t]) = {}

\* A cached answer is what the SELECT would find now, unless an UPDATE changed
\* the table and then failed (lib.rs:275).
CacheTruthful ==
    \A t \in Table \ halfEdited : cache[t] # NotCached => cache[t] = Scanned(t)

\* The meaning of an UPDATE: all assignments at once, to the rows that match.
AtOnce(rows, clause, f) ==
    { IF Matches(r, f)
      THEN [r EXCEPT !.at = [c \in Column |->
              IF \E i \in 1..Len(clause) : clause[i].column = c
              THEN clause[SelectLastInSeq(clause, LAMBDA a : a.column = c)].expr
              ELSE r.at[c]]]
      ELSE r : r \in rows }

\* No assignment but the last is to a column that decides whether f holds.
KeepsMatching(clause, f) ==
    \A i \in 1..(Len(clause) - 1) :
        \A v \in f : [v EXCEPT ![clause[i].column] = clause[i].expr] \in f

\* Row r is what an UPDATE may have made of row old.
AgreeBut(clause, r, old) ==
    /\ r.id = old.id
    /\ \A c \in Column :
          r.at[c] = old.at[c] \/ \E i \in 1..Len(clause) : clause[i].column = c

\* UPDATE assigns all its columns to all rows of its WHERE clause if no earlier
\* assignment takes a row out of that clause, and never touches another row or
\* another column, also when it fails half way (executor.rs:1087).
UpdateAsDocumented ==
    [][ UNCHANGED <<schema, loaded, catalog, named, buffer, starts, used>> =>
          \A t \in { x \in loaded : mem[x] # {} }, clause \in Assignments, f \in Filter :
            /\ Update(t, clause, f) /\ KeepsMatching(clause, f) =>
                 mem'[t] = AtOnce(mem[t], clause, f)
            /\ (/\ mem'[t] # mem[t]
                /\ Update(t, clause, f) \/ UpdateFails(t, clause, f) \/ UpdatePanics(t, clause, f))
               => /\ Ids(mem'[t]) = Ids(mem[t])
                  /\ \A r \in mem[t] : ~Matches(r, f) => r \in mem'[t]
                  /\ \A r \in mem'[t] : \E old \in mem[t] : AgreeBut(clause, r, old) ]_vars

\* The rows buffered for a table reach the disk although another table fails for
\* ever (CREATE TABLE could not write its metadata), unless a panic has poisoned
\* the mutex that the background task needs (server.rs:51, mod.rs:689).
PendingReachDisk ==
    \A t \in Table :
        catalog[t] = "known" /\ t \in Pending ~> t \notin Pending \/ poisoned
=============================================================================
