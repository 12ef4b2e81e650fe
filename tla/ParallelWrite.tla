--------------------------- MODULE ParallelWrite ----------------------------
(***************************************************************************)
(* write_parquet_files_parallel (storage/mod.rs): a flush of many rows     *)
(* writes them to several data files, each by a thread of its own.         *)
(*                                                                         *)
(* The flushing thread spawns a writer for each chunk; when it holds as    *)
(* many handles as may run at once, it joins the newest before it goes on. *)
(* Each writer sends a data file or an error over one channel, which is    *)
(* read when all have ended; one that panics sends nothing, and join says  *)
(* so to nobody.  FlushCommit has the rest of the flush, with one data     *)
(* file; an error here is its ParquetFails, a panic here it does not have. *)
(***************************************************************************)
EXTENDS Naturals, FiniteSets, Sequences

CONSTANTS
    NumRows,       \* rows of the buffer
    RowsPerFile,   \* target_rows_per_file
    Parallelism,   \* write_parallelism
    MaxFaults      \* bound on writes that fail or panic

\* The condition under which a flush writes in parallel (mod.rs:257).
ASSUME ParallelAssumption ==
    /\ RowsPerFile \in Nat \ {0} /\ NumRows \in Nat /\ Parallelism \in Nat
    /\ NumRows > RowsPerFile * 2 /\ Parallelism > 1
ASSUME FaultAssumption == MaxFaults \in Nat

\* rows.chunks(target_rows_per_file): the last one may be shorter.
NumChunks == (NumRows + RowsPerFile - 1) \div RowsPerFile

Chunk == 1..NumChunks

RowsOf(c) == { r \in 1..NumRows : (c - 1) * RowsPerFile < r /\ r <= c * RowsPerFile }

ActualParallelism == IF Parallelism < NumChunks THEN Parallelism ELSE NumChunks

VARIABLES
    pc,        \* the flushing thread: spawn, wait, join, collect, ok, err
    spawned,   \* how many writers were spawned
    handles,   \* the writers that are not joined yet, oldest first
    writer,    \* chunk -> "none", "running", "ended" or "panicked"
    channel,   \* results that were sent and not received: [chunk, ok]
    files,     \* data_files: the chunks received
    disk,      \* chunk -> its file: "none", "broken" or "whole"
    faults

vars == <<pc, spawned, handles, writer, channel, files, disk, faults>>

Init ==
    /\ pc = "spawn"
    /\ spawned = 0
    /\ handles = <<>>
    /\ writer = [c \in Chunk |-> "none"]
    /\ channel = <<>>
    /\ files = <<>>
    /\ disk = [c \in Chunk |-> "none"]
    /\ faults = 0

----------------------------------------------------------------------------
(* The writers.                                                            *)

Running == { c \in Chunk : writer[c] = "running" }

Send(c, ok) == channel' = Append(channel, [chunk |-> c, ok |-> ok])

Write(c) ==
    /\ writer[c] = "running"
    /\ writer' = [writer EXCEPT ![c] = "ended"]
    /\ disk' = [disk EXCEPT ![c] = "whole"]
    /\ Send(c, TRUE)
    /\ UNCHANGED <<pc, spawned, handles, files, faults>>

\* The directory, the conversion, the file or its size: what fails decides
\* whether a file is left.
WriteFails(c) ==
    /\ writer[c] = "running"
    /\ faults < MaxFaults
    /\ faults' = faults + 1
    /\ writer' = [writer EXCEPT ![c] = "ended"]
    /\ \E left \in {"none", "broken", "whole"} : disk' = [disk EXCEPT ![c] = left]
    /\ Send(c, FALSE)
    /\ UNCHANGED <<pc, spawned, handles, files>>

\* An assertion of the parquet or arrow library fails, such as that the row group
\* size is not 0: the thread unwinds, drops its sender and sends nothing.
WriterPanics(c) ==
    /\ writer[c] = "running"
    /\ faults < MaxFaults
    /\ faults' = faults + 1
    /\ writer' = [writer EXCEPT ![c] = "panicked"]
    /\ \E left \in {"none", "broken"} : disk' = [disk EXCEPT ![c] = left]
    /\ UNCHANGED <<pc, spawned, handles, channel, files>>

----------------------------------------------------------------------------
(* The flushing thread.                                                    *)

\* Mutant: the limit is checked before the new writer is counted.
AtLimitAfter(hs) == Len(hs) > ActualParallelism

AtLimit(hs) == Len(hs) >= ActualParallelism

\* Mutant: one more than there are.
ChunksLeftOrNot == spawned <= NumChunks

ChunksLeft == spawned < NumChunks

Spawn ==
    /\ pc = "spawn"
    /\ ChunksLeft
    /\ spawned' = spawned + 1
    /\ writer' = [writer EXCEPT ![spawned + 1] = "running"]
    /\ handles' = Append(handles, spawned + 1)
    /\ pc' = IF AtLimit(handles') THEN "wait" ELSE "spawn"
    /\ UNCHANGED <<channel, files, disk, faults>>

\* join().unwrap_or_default(): a writer that panicked is joined like any other.
Joinable(c) == writer[c] \in {"ended", "panicked"}

\* handles.pop and join: the newest, not the first that ends.
Wait ==
    /\ pc = "wait"
    /\ Joinable(handles[Len(handles)])
    /\ handles' = SubSeq(handles, 1, Len(handles) - 1)
    /\ pc' = "spawn"
    /\ UNCHANGED <<spawned, writer, channel, files, disk, faults>>

\* Mutant: the writers still running are left to themselves.
LeaveRest ==
    /\ pc = "spawn" /\ spawned = NumChunks
    /\ handles' = <<>>
    /\ pc' = "collect"
    /\ UNCHANGED <<spawned, writer, channel, files, disk, faults>>

\* The rest, oldest first; then the sender is dropped.
JoinRest ==
    /\ pc = "spawn" /\ spawned = NumChunks
    /\ \/ /\ handles # <<>> /\ Joinable(Head(handles))
          /\ handles' = Tail(handles)
          /\ UNCHANGED pc
       \/ /\ handles = <<>>
          /\ pc' = "collect"
          /\ UNCHANGED handles
    /\ UNCHANGED <<spawned, writer, channel, files, disk, faults>>

\* Mutant: an error is skipped.
ReceiveGood ==
    /\ pc = "collect"
    /\ channel # <<>>
    /\ channel' = Tail(channel)
    /\ files' = IF Head(channel).ok THEN Append(files, Head(channel).chunk) ELSE files
    /\ UNCHANGED <<pc, spawned, handles, writer, disk, faults>>

\* One received result; the first error ends the collection.
Receive ==
    /\ pc = "collect"
    /\ channel # <<>>
    /\ channel' = Tail(channel)
    /\ IF Head(channel).ok
       THEN files' = Append(files, Head(channel).chunk) /\ UNCHANGED pc
       ELSE pc' = "err" /\ UNCHANGED files
    /\ UNCHANGED <<spawned, handles, writer, disk, faults>>

\* Mutant: the flushing thread keeps its own sender.
ClosedExceptOwn == FALSE

\* The flushing thread has dropped its sender, and each writer its clone.
Closed == Running = {}

\* The channel is empty and closed.
Return ==
    /\ pc = "collect"
    /\ channel = <<>>
    /\ Closed
    /\ pc' = "ok"
    /\ UNCHANGED <<spawned, handles, writer, channel, files, disk, faults>>

Flusher == Spawn \/ Wait \/ JoinRest \/ Receive \/ Return

Writer(c) == Write(c) \/ WriteFails(c) \/ WriterPanics(c)

Next == Flusher \/ \E c \in Chunk : Writer(c)

Spec == Init /\ [][Next]_vars

\* The operating system runs every thread that is not blocked.
FairSpec == Spec /\ WF_vars(Flusher) /\ \A c \in Chunk : WF_vars(Writer(c))

----------------------------------------------------------------------------
(* Properties.                                                             *)

\* Each variable has its type; the handles are those of distinct writers.
TypeOK ==
    /\ pc \in {"spawn", "wait", "collect", "ok", "err"}
    /\ spawned \in 0..NumChunks
    /\ handles \in Seq(1..spawned)
    /\ \A i, j \in 1..Len(handles) : i < j => handles[i] < handles[j]
    /\ writer \in [Chunk -> {"none", "running", "ended", "panicked"}]
    /\ \A c \in Chunk : writer[c] = "none" <=> c > spawned
    /\ channel \in Seq([chunk : Chunk, ok : BOOLEAN])
    /\ files \in Seq(Chunk)
    /\ disk \in [Chunk -> {"none", "broken", "whole"}]
    /\ faults \in 0..MaxFaults

\* The rows that Ok says nothing of: their writer panicked (mod.rs:449, 456).
Lost == UNION { RowsOf(c) : c \in { d \in Chunk : writer[d] = "panicked" } }

\* A call that returns Ok has each row in exactly one of the files, all of them
\* complete on disk, however many writes fail with an error; only then may the
\* flush give up its copy of the rows (mod.rs:348).  It keeps this promise but for
\* the rows of a writer that panics: these are in no file, and the call says Ok.
OkMeansAllRows ==
    pc = "ok" =>
        /\ \A r \in 1..NumRows :
             Cardinality({ i \in 1..Len(files) : r \in RowsOf(files[i]) })
               = IF r \in Lost THEN 0 ELSE 1
        /\ \A i \in 1..Len(files) : disk[files[i]] = "whole"

\* When the call returns, with files or with an error, no writer is still at
\* work: a retry that writes the same rows does not run beside it (mod.rs:452).
NothingRunsAfter == pc \in {"collect", "ok", "err"} => Running = {}

\* There are never more writers at work than write_parallelism (mod.rs:443).
BoundedWriters == Cardinality(Running) <= Parallelism

\* The call returns, whichever writers fail or panic and in whatever order they
\* end.
Returns == <>(pc \in {"ok", "err"})
=============================================================================
