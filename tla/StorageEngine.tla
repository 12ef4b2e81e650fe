--------------------------- MODULE StorageEngine ---------------------------
(***************************************************************************)
(* The two copies of every table that the storage engine keeps             *)
(* (storage/mod.rs): rows in memory, and rows in data files on disk with   *)
(* the write buffer in front of them.                                      *)
(*                                                                         *)
(* INSERT goes to both copies, UPDATE and DELETE only to memory, and a     *)
(* restart keeps only the disk.  A flush of one buffer is one step here,   *)
(* with the three outcomes that FlushCommit tells apart: it succeeds; it   *)
(* fails before a manifest list names the data file; or it fails between   *)
(* the list and the snapshot, so that the rows are named and buffered.     *)
(*                                                                         *)
(* This module has the state and the operations; Database has the          *)
(* statements that call them.                                              *)
(***************************************************************************)
EXTENDS Naturals, FiniteSets

CONSTANTS
    Table,
    Column,
    Value,
    Id,          \* identities of rows: which INSERT made a row
    MaxFaults    \* bound on writes and directory removals that fail

VARIABLES
    loaded,      \* the tables that `tables` has
    mem,         \* table -> rows in memory
    buffer,      \* table -> rows of its write buffer
    catalog,     \* the Iceberg catalog: table -> state of its directory
    named,       \* table -> rows of data files the latest manifest list names
    snap,        \* table -> rows of the list of the latest snapshot
    faults

storageVars == <<loaded, mem, buffer, catalog, named, snap, faults>>

Row == [id : Id, at : [Column -> Value]]

(* A directory may be missing, have no readable metadata, have metadata    *)
(* that is not in the catalog's map (a DROP could not remove it), or be    *)
(* known to the catalog.                                                   *)
Directory == {"none", "unreadable", "left", "known"}

StorageTypeOK ==
    /\ loaded \subseteq Table
    /\ mem \in [Table -> SUBSET Row]
    /\ buffer \in [Table -> SUBSET Row]
    /\ catalog \in [Table -> Directory]
    /\ named \in [Table -> SUBSET Row]
    /\ snap \in [Table -> SUBSET Row]
    /\ faults \in 0..MaxFaults
    /\ \A t \in Table \ loaded : mem[t] = {}

StorageInit ==
    /\ loaded = {}
    /\ mem = [t \in Table |-> {}]
    /\ buffer = [t \in Table |-> {}]
    /\ catalog = [t \in Table |-> "none"]
    /\ named = [t \in Table |-> {}]
    /\ snap = [t \in Table |-> {}]
    /\ faults = 0

----------------------------------------------------------------------------
(* Reading.                                                                *)

\* read_from_iceberg: by the latest snapshot, or by the latest list if none.
Stored(t) == IF snap[t] = {} THEN named[t] ELSE snap[t]

\* scan_table: a table in memory always wins.
Scanned(t) == IF t \in loaded THEN mem[t] ELSE Stored(t)

----------------------------------------------------------------------------
(* Flushing.                                                               *)

Pending == { t \in Table : buffer[t] # {} }

\* How the flushes of tables ts may end: get_table_metadata fails for a table
\* that the catalog does not know.
Outcomes(ts) ==
    { o \in [ts -> {"ok", "early", "late"}] :
        \A t \in ts : catalog[t] # "known" => o[t] = "early" }

Failed(o) == { t \in DOMAIN o : catalog[t] = "known" /\ o[t] # "ok" }

Ended(o, t, how) == t \in DOMAIN o /\ o[t] \in how

\* Mutant: the rows of a flush that failed are not put back.
FlushWithoutRestore(buf, o) ==
    /\ buffer' = [t \in Table |-> IF t \in DOMAIN o THEN {} ELSE buf[t]]
    /\ named' = [t \in Table |->
                   IF Ended(o, t, {"ok", "late"}) THEN named[t] \cup buf[t] ELSE named[t]]
    /\ snap' = [t \in Table |-> IF Ended(o, t, {"ok"}) THEN named'[t] ELSE snap[t]]

\* flush_iceberg_buffer for each table of DOMAIN o, which holds buf[t].
Flush(buf, o) ==
    /\ buffer' = [t \in Table |-> IF Ended(o, t, {"ok"}) THEN {} ELSE buf[t]]
    /\ named' = [t \in Table |->
                   IF Ended(o, t, {"ok", "late"}) THEN named[t] \cup buf[t] ELSE named[t]]
    /\ snap' = [t \in Table |-> IF Ended(o, t, {"ok"}) THEN named'[t] ELSE snap[t]]

CountFaults(n) == faults' = faults + n /\ faults' <= MaxFaults

FlushTables(ts) ==
    \E o \in Outcomes(ts) :
        /\ Flush(buffer, o)
        /\ CountFaults(Cardinality(Failed(o)))

----------------------------------------------------------------------------
(* Writing.                                                                *)

\* create_table_with_schema: the table in memory first, then directories and
\* metadata; either write may fail, and the metadata file be cut short.
CreateTableWithSchema(t, directory) ==
    /\ loaded' = loaded \cup {t}
    /\ mem' = [mem EXCEPT ![t] = {}]
    /\ catalog' = [catalog EXCEPT ![t] = directory]
    /\ CountFaults(IF directory = "known" THEN 0 ELSE 1)
    /\ UNCHANGED <<buffer, named, snap>>

\* Mutant: the disk first, and a flush that fails keeps the rows out of memory.
InsertRowsDiskFirst(t, rows, flushes) ==
    LET buffered == catalog[t] # "none"
        buf == IF buffered THEN [buffer EXCEPT ![t] = @ \cup rows] ELSE buffer
    IN  /\ t \in loaded
        /\ \E o \in Outcomes(IF buffered /\ flushes THEN {t} ELSE {}) :
             /\ mem' = IF Ended(o, t, {"early", "late"}) THEN mem ELSE [mem EXCEPT ![t] = @ \cup rows]
             /\ Flush(buf, o)
             /\ CountFaults(Cardinality(Failed(o)))
        /\ UNCHANGED <<loaded, catalog>>

\* insert_rows with write_to_iceberg_buffered: a table without a directory is
\* not buffered; a small buffer is flushed at once and a failure only warned of.
InsertRows(t, rows, flushes) ==
    LET buffered == catalog[t] # "none"
        buf == IF buffered THEN [buffer EXCEPT ![t] = @ \cup rows] ELSE buffer
    IN  /\ t \in loaded
        /\ mem' = [mem EXCEPT ![t] = @ \cup rows]
        /\ \E o \in Outcomes(IF buffered /\ flushes THEN {t} ELSE {}) :
             /\ Flush(buf, o)
             /\ CountFaults(Cardinality(Failed(o)))
        /\ UNCHANGED <<loaded, catalog>>

\* update_rows and delete_rows.
ChangeMemory(t, rows) ==
    /\ t \in loaded
    /\ mem' = [mem EXCEPT ![t] = rows]
    /\ UNCHANGED <<loaded, buffer, catalog, named, snap, faults>>

\* Mutant: the write buffers outlive the tables.
DropKeepingBuffers(o, stays) ==
    /\ o \in Outcomes(Pending)
    /\ stays \subseteq { t \in Table : catalog[t] # "none" }
    /\ loaded' = {}
    /\ mem' = [t \in Table |-> {}]
    /\ buffer' = [t \in Table |-> IF Ended(o, t, {"ok"}) THEN {} ELSE buffer[t]]
    /\ named' = [t \in Table |->
                   IF t \notin stays THEN {}
                   ELSE IF Ended(o, t, {"ok", "late"}) THEN named[t] \cup buffer[t]
                   ELSE named[t]]
    /\ snap' = [t \in Table |->
                  IF t \in stays THEN (IF Ended(o, t, {"ok"}) THEN named'[t] ELSE snap[t]) ELSE {}]
    /\ catalog' = [t \in Table |->
                     IF t \notin stays THEN "none"
                     ELSE IF catalog[t] = "unreadable" THEN "unreadable"
                     ELSE "left"]
    /\ CountFaults(Cardinality(Failed(o)) + Cardinality(stays))

\* drop_all_tables: flush what is buffered, clear memory, remove directories;
\* one that cannot be removed stays and is forgotten by the catalog.
DropTables(o, stays) ==
    /\ o \in Outcomes(Pending)
    /\ stays \subseteq { t \in Table : catalog[t] # "none" }
    /\ loaded' = {}
    /\ mem' = [t \in Table |-> {}]
    /\ buffer' = [t \in Table |-> {}]
    /\ named' = [t \in Table |->
                   IF t \notin stays THEN {}
                   ELSE IF Ended(o, t, {"ok", "late"}) THEN named[t] \cup buffer[t]
                   ELSE named[t]]
    /\ snap' = [t \in Table |->
                  IF t \in stays THEN (IF Ended(o, t, {"ok"}) THEN named'[t] ELSE snap[t]) ELSE {}]
    /\ catalog' = [t \in Table |->
                     IF t \notin stays THEN "none"
                     ELSE IF catalog[t] = "unreadable" THEN "unreadable"
                     ELSE "left"]
    /\ CountFaults(Cardinality(Failed(o)) + Cardinality(stays))

\* The tables whose metadata a new process can read.
Readable == { t \in Table : catalog[t] \in {"left", "known"} }

\* Mutant: every directory becomes a table, with or without metadata.
ReopenEverything(loads) ==
    /\ loaded' = IF loads THEN { t \in Table : catalog[t] # "none" } ELSE {}
    /\ mem' = [t \in Table |-> {}]
    /\ buffer' = [t \in Table |-> {}]
    /\ catalog' = [t \in Table |-> IF t \in Readable THEN "known" ELSE catalog[t]]
    /\ UNCHANGED <<named, snap, faults>>

\* A new process: `new` loads each table it finds as an empty one,
\* `with_iceberg_path` loads none.
Reopen(loads) ==
    /\ loaded' = IF loads THEN Readable ELSE {}
    /\ mem' = [t \in Table |-> {}]
    /\ buffer' = [t \in Table |-> {}]
    /\ catalog' = [t \in Table |-> IF t \in Readable THEN "known" ELSE catalog[t]]
    /\ UNCHANGED <<named, snap, faults>>
=============================================================================
