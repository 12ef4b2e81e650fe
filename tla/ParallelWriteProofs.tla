------------------------ MODULE ParallelWriteProofs -------------------------
(***************************************************************************)
(* write_parquet_files_parallel for any number of rows, rows per file,     *)
(* threads and failing writes: no writer outlives the call, never more are *)
(* at work than allowed, and Ok means that each row is in one whole file,  *)
(* but for the rows of writers that panicked.                              *)
(*                                                                         *)
(* The invariant follows a writer: as long as it runs, its handle is held  *)
(* (Handled); once it has ended and not panicked, its result is in the     *)
(* channel or was received (Reported), and none was reported twice         *)
(* (Distinct).  The rest is arithmetic about chunks.                       *)
(***************************************************************************)
EXTENDS ParallelWrite, TLAPS, FiniteSetTheorems, SequenceTheorems

----------------------------------------------------------------------------
(* Chunks.                                                                 *)

LEMMA Quotient ==
    ASSUME NEW n \in Nat, NEW d \in Nat \ {0}
    PROVE  /\ n \div d \in Nat
           /\ (n \div d) * d <= n
           /\ n < ((n \div d) + 1) * d
  OBVIOUS

LEMMA Monotonic ==
    ASSUME NEW a \in Int, NEW b \in Int, NEW k \in Nat, a <= b
    PROVE  a * k <= b * k
  OBVIOUS

LEMMA ChunkCount ==
    /\ NumChunks \in Nat \ {0}
    /\ NumRows + RowsPerFile - 1 < (NumChunks + 1) * RowsPerFile
<1>1. NumRows + RowsPerFile - 1 \in Nat
  BY ParallelAssumption
<1>2. /\ NumChunks \in Nat
      /\ NumRows + RowsPerFile - 1 < (NumChunks + 1) * RowsPerFile
  BY <1>1, Quotient, ParallelAssumption DEF NumChunks
<1>3. NumChunks # 0
  BY <1>2, ParallelAssumption
<1> QED
  BY <1>2, <1>3

\* Each row is in exactly one chunk.
LEMMA RowsAreSplit ==
    ASSUME NEW r \in 1..NumRows
    PROVE  \E c \in Chunk : /\ r \in RowsOf(c)
                            /\ \A d \in Chunk : r \in RowsOf(d) => d = c
<1> DEFINE q == (r - 1) \div RowsPerFile
<1>1. NumRows \in Nat /\ RowsPerFile \in Nat \ {0} /\ r \in Nat /\ r <= NumRows /\ r - 1 \in Nat
  BY ParallelAssumption
<1>2. q \in Nat /\ q * RowsPerFile <= r - 1 /\ r - 1 < (q + 1) * RowsPerFile
  BY <1>1, Quotient
<1> HIDE DEF q
<1>3. q + 1 <= NumChunks
  <2>1. SUFFICES ASSUME NumChunks + 1 <= q + 1 PROVE FALSE
    BY <1>2, ChunkCount
  <2>2. (NumChunks + 1) * RowsPerFile <= (q + 1) * RowsPerFile
    BY <1>1, <1>2, <2>1, Monotonic, ChunkCount
  <2>3. (q + 1) * RowsPerFile = q * RowsPerFile + RowsPerFile
    BY <1>1, <1>2
  <2> DEFINE x == q * RowsPerFile
             y == (NumChunks + 1) * RowsPerFile
  <2>4. x \in Nat /\ y \in Nat
    BY <1>1, <1>2, ChunkCount
  <2>5. x <= r - 1 /\ y <= x + RowsPerFile /\ NumRows + RowsPerFile - 1 < y
    BY <1>2, <2>2, <2>3, ChunkCount
  <2> HIDE DEF x, y
  <2> QED
    BY <1>1, <2>4, <2>5
<1>4. q + 1 \in Chunk /\ r \in RowsOf(q + 1)
  BY <1>1, <1>2, <1>3, ChunkCount DEF Chunk, RowsOf
<1>5. ASSUME NEW d \in Chunk, r \in RowsOf(d) PROVE d = q + 1
  <2>1. d \in Nat /\ (d - 1) * RowsPerFile < r /\ r <= d * RowsPerFile
    BY <1>5, ChunkCount DEF Chunk, RowsOf
  <2>2. d * RowsPerFile \in Nat /\ q * RowsPerFile \in Nat
        /\ (d - 1) * RowsPerFile \in Int /\ (q + 1) * RowsPerFile \in Nat
    BY <1>1, <1>2, <2>1
  <2>3. ~ d <= q
    BY <1>1, <1>2, <2>1, <2>2, Monotonic
  <2>4. ~ q + 1 <= d - 1
    BY <1>1, <1>2, <2>1, <2>2, Monotonic
  <2> QED
    BY <1>2, <2>1, <2>3, <2>4
<1> QED
  BY <1>4, <1>5

----------------------------------------------------------------------------
(* The invariant.                                                          *)

\* Every running writer has a handle, and when all are joined none runs.
Handled ==
    /\ \A c \in Running : \E i \in 1..Len(handles) : handles[i] = c
    /\ pc \in {"collect", "ok", "err"} => handles = <<>> /\ spawned = NumChunks

\* The flushing thread holds at most as many handles as writers are allowed.
Limited ==
    /\ Len(handles) <= ActualParallelism
    /\ pc = "spawn" => Len(handles) < ActualParallelism
    /\ pc = "wait" => Len(handles) = ActualParallelism

\* A result is that of a writer that has ended, and a good one of a whole file.
Truthful ==
    /\ \A i \in 1..Len(channel) :
         /\ writer[channel[i].chunk] = "ended"
         /\ channel[i].ok => disk[channel[i].chunk] = "whole"
    /\ \A i \in 1..Len(files) : writer[files[i]] = "ended" /\ disk[files[i]] = "whole"

\* No chunk is reported twice.
Distinct ==
    /\ \A i, j \in 1..Len(channel) : channel[i].chunk = channel[j].chunk => i = j
    /\ \A i, j \in 1..Len(files) : files[i] = files[j] => i = j
    /\ \A i \in 1..Len(channel), j \in 1..Len(files) : channel[i].chunk # files[j]

\* A writer that has ended has reported, and Ok means that all is received.
Reported ==
    /\ pc # "err" =>
         \A c \in Chunk : writer[c] = "ended" =>
            \/ \E i \in 1..Len(channel) : channel[i].chunk = c
            \/ \E i \in 1..Len(files) : files[i] = c
    /\ pc = "ok" => channel = <<>>

IInv == TypeOK /\ Handled /\ Limited /\ Truthful /\ Distinct /\ Reported

LEMMA LimitType ==
    ActualParallelism \in Nat \ {0} /\ ActualParallelism <= Parallelism
  BY ParallelAssumption, ChunkCount DEF ActualParallelism

LEMMA ResultType ==
    ASSUME channel \in Seq([chunk : Chunk, ok : BOOLEAN])
    PROVE  \A i \in 1..Len(channel) : channel[i].chunk \in Chunk /\ channel[i].ok \in BOOLEAN
<1> DEFINE Result == [chunk : Chunk, ok : BOOLEAN]
<1>1. channel \in Seq(Result)
  OBVIOUS
<1> SUFFICES ASSUME NEW i \in 1..Len(channel)
             PROVE  channel[i].chunk \in Chunk /\ channel[i].ok \in BOOLEAN
  OBVIOUS
<1> HIDE DEF Result
<1>2. channel[i] \in Result
  BY <1>1
<1> QED
  BY <1>2 DEF Result

LEMMA WithoutLast ==
    ASSUME NEW S, NEW s \in Seq(S), Len(s) > 0
    PROVE  /\ SubSeq(s, 1, Len(s) - 1) \in Seq(S)
           /\ Len(SubSeq(s, 1, Len(s) - 1)) = Len(s) - 1
           /\ \A i \in 1..(Len(s) - 1) : SubSeq(s, 1, Len(s) - 1)[i] = s[i]
<1> DEFINE m == Len(s) - 1
<1>1. m \in Nat /\ \A i \in 1..m : s[i] \in S
  OBVIOUS
<1> HIDE DEF m
<1>2. /\ SubSeq(s, 1, m) \in Seq(S)
      /\ Len(SubSeq(s, 1, m)) = IF 1 <= m THEN m - 1 + 1 ELSE 0
      /\ \A i \in 1..(m - 1 + 1) : SubSeq(s, 1, m)[i] = s[1 + i - 1]
  BY <1>1, SubSeqProperties
<1>3. m - 1 + 1 = m /\ (m < 1 => m = 0) /\ \A i \in 1..m : 1 + i - 1 = i
  BY <1>1
<1> QED
  BY <1>1, <1>2, <1>3 DEF m

LEMMA InitInv == Init => IInv
<1> SUFFICES ASSUME Init PROVE IInv
  OBVIOUS
<1> USE DEF Init
<1>1. TypeOK
  BY ChunkCount, FaultAssumption DEF TypeOK, Chunk
<1>2. Handled /\ Limited /\ Truthful /\ Distinct /\ Reported
  BY LimitType DEF Handled, Running, Limited, Truthful, Distinct, Reported
<1> QED
  BY <1>1, <1>2 DEF IInv

----------------------------------------------------------------------------
(* The steps of a writer.                                                  *)

\* A writer that runs has not reported.
LEMMA NotReported ==
    ASSUME IInv, NEW c \in Chunk, writer[c] = "running"
    PROVE  /\ \A i \in 1..Len(channel) : channel[i].chunk # c
           /\ \A i \in 1..Len(files) : files[i] # c
  BY DEF IInv, Truthful

\* A writer panics: it ends, and nothing else changes but its file.
Panics(c, left) ==
    /\ writer[c] = "running"
    /\ left \in {"none", "broken", "whole"}
    /\ writer' = [writer EXCEPT ![c] = "panicked"]
    /\ disk' = [disk EXCEPT ![c] = left]
    /\ faults' \in 0..MaxFaults
    /\ UNCHANGED <<pc, spawned, handles, channel, files>>

\* A writer ends and sends its result, good only if its file is whole.
Ends(c, ok, left) ==
    /\ writer[c] = "running"
    /\ left \in {"none", "broken", "whole"} /\ (ok => left = "whole") /\ ok \in BOOLEAN
    /\ writer' = [writer EXCEPT ![c] = "ended"]
    /\ disk' = [disk EXCEPT ![c] = left]
    /\ channel' = Append(channel, [chunk |-> c, ok |-> ok])
    /\ faults' \in 0..MaxFaults
    /\ UNCHANGED <<pc, spawned, handles, files>>

LEMMA WriterEnds ==
    ASSUME IInv, NEW c \in Chunk, Writer(c)
    PROVE  (\E ok, left : Ends(c, ok, left)) \/ \E left : Panics(c, left)
<1>1. ASSUME Write(c) PROVE Ends(c, TRUE, "whole")
  BY <1>1 DEF Write, Send, Ends, IInv, TypeOK
<1>2. ASSUME WriteFails(c) PROVE \E left : Ends(c, FALSE, left)
  <2>1. PICK left \in {"none", "broken", "whole"} : disk' = [disk EXCEPT ![c] = left]
    BY <1>2 DEF WriteFails
  <2>2. Ends(c, FALSE, left)
    BY <1>2, <2>1, FaultAssumption DEF WriteFails, Send, Ends, IInv, TypeOK
  <2> QED
    BY <2>2
<1>3. ASSUME WriterPanics(c) PROVE \E left : Panics(c, left)
  <2>1. PICK left \in {"none", "broken"} : disk' = [disk EXCEPT ![c] = left]
    BY <1>3 DEF WriterPanics
  <2>2. Panics(c, left)
    BY <1>3, <2>1, FaultAssumption DEF WriterPanics, Panics, IInv, TypeOK
  <2> QED
    BY <2>2
<1> QED
  BY <1>1, <1>2, <1>3 DEF Writer

\* A panic leaves the channel and the files as they are.
LEMMA PanicKeeps ==
    ASSUME IInv, NEW c \in Chunk, NEW left, Panics(c, left)
    PROVE  IInv'
<1> USE DEF IInv
<1>1. /\ writer' = [writer EXCEPT ![c] = "panicked"] /\ disk' = [disk EXCEPT ![c] = left]
      /\ writer[c] = "running" /\ UNCHANGED <<pc, spawned, handles, channel, files>>
  BY DEF Panics
<1>2. TypeOK'
  BY <1>1 DEF Panics, TypeOK
<1>3. Handled' /\ Limited'
  BY <1>1 DEF Handled, Limited, Running, TypeOK
<1>4. \A d \in Chunk : d # c => writer'[d] = writer[d] /\ disk'[d] = disk[d]
  BY <1>1 DEF TypeOK
<1>5. /\ \A i \in 1..Len(channel) : channel[i].chunk \in Chunk /\ channel[i].chunk # c
      /\ \A i \in 1..Len(files) : files[i] \in Chunk /\ files[i] # c
  BY <1>1, NotReported, ResultType DEF TypeOK
<1>6. Truthful' /\ Distinct'
  BY <1>1, <1>4, <1>5 DEF Truthful, Distinct
<1>7. Reported'
  <2>1. \A d \in Chunk : writer'[d] = "ended" => writer[d] = "ended"
    BY <1>1 DEF TypeOK
  <2> QED
    BY <1>1, <2>1 DEF Reported
<1> QED
  BY <1>2, <1>3, <1>6, <1>7

LEMMA WriterKeeps ==
    ASSUME IInv, NEW c \in Chunk, NEW ok, NEW left, Ends(c, ok, left)
    PROVE  IInv'
<1>1. Ends(c, ok, left)
  OBVIOUS
<1> DEFINE result == [chunk |-> c, ok |-> ok]
<1> USE DEF IInv
<1>2. /\ channel \in Seq([chunk : Chunk, ok : BOOLEAN])
      /\ result \in [chunk : Chunk, ok : BOOLEAN]
  BY <1>1 DEF Ends, TypeOK
<1>3. /\ channel' \in Seq([chunk : Chunk, ok : BOOLEAN])
      /\ Len(channel') = Len(channel) + 1
      /\ channel'[Len(channel) + 1] = result
      /\ \A i \in 1..Len(channel) : channel'[i] = channel[i]
      /\ Len(channel) \in Nat
  BY <1>1, <1>2 DEF Ends
<1> HIDE DEF result
<1>4. result.chunk = c /\ result.ok = ok
  BY DEF result
<1>5. /\ writer' = [writer EXCEPT ![c] = "ended"] /\ disk' = [disk EXCEPT ![c] = left]
      /\ (ok => left = "whole") /\ UNCHANGED <<pc, spawned, handles, files>>
  BY <1>1 DEF Ends
<1>6. /\ \A i \in 1..Len(channel) : channel[i].chunk # c
      /\ \A i \in 1..Len(files) : files[i] # c
  BY <1>1, NotReported DEF Ends
<1>7. TypeOK'
  BY <1>1, <1>3 DEF Ends, TypeOK
<1>8. Handled' /\ Limited'
  BY <1>1 DEF Ends, Handled, Limited, Running, TypeOK
<1>9. Truthful'
  <2>1. \A d \in Chunk : d # c => writer'[d] = writer[d] /\ disk'[d] = disk[d]
    BY <1>5 DEF TypeOK
  <2>2. writer'[c] = "ended" /\ disk'[c] = left
    BY <1>5 DEF TypeOK
  <2>3. ASSUME NEW i \in 1..Len(channel')
        PROVE  /\ writer'[channel'[i].chunk] = "ended"
               /\ channel'[i].ok => disk'[channel'[i].chunk] = "whole"
    <3>1. CASE i = Len(channel) + 1
      BY <1>3, <1>4, <1>5, <2>2, <3>1
    <3>2. CASE i \in 1..Len(channel)
      <4>1. channel'[i] = channel[i] /\ channel[i].chunk \in Chunk /\ channel[i].chunk # c
        BY <1>2, <1>3, <1>6, <3>2, ResultType
      <4> QED
        BY <2>1, <3>2, <4>1 DEF Truthful
    <3> QED
      BY <1>3, <3>1, <3>2
  <2>4. ASSUME NEW i \in 1..Len(files')
        PROVE  writer'[files'[i]] = "ended" /\ disk'[files'[i]] = "whole"
    <3>1. files' = files /\ files[i] \in Chunk /\ files[i] # c
      BY <1>5, <1>6 DEF TypeOK
    <3> QED
      BY <1>5, <2>1, <3>1 DEF Truthful
  <2> QED
    BY <2>3, <2>4 DEF Truthful
<1>10. Distinct'
  BY <1>3, <1>4, <1>5, <1>6 DEF Distinct
<1>11. Reported'
  <2>1. pc # "ok"
    BY <1>1 DEF Ends, Handled, Running
  <2>2. ASSUME pc # "err", NEW d \in Chunk, writer'[d] = "ended"
        PROVE  \/ \E i \in 1..Len(channel') : channel'[i].chunk = d
               \/ \E i \in 1..Len(files') : files'[i] = d
    <3>1. CASE d = c
      BY <1>3, <1>4, <3>1
    <3>2. CASE d # c
      <4>1. writer[d] = "ended"
        BY <1>5, <2>2, <3>2 DEF TypeOK
      <4>2. CASE \E i \in 1..Len(channel) : channel[i].chunk = d
        <5>1. PICK i \in 1..Len(channel) : channel[i].chunk = d
          BY <4>2
        <5>2. i \in 1..Len(channel') /\ channel'[i].chunk = d
          BY <1>3, <5>1
        <5> QED
          BY <5>2
      <4>3. CASE \E i \in 1..Len(files) : files[i] = d
        BY <1>5, <4>3
      <4> QED
        BY <2>2, <4>1, <4>2, <4>3 DEF Reported
    <3> QED
      BY <3>1, <3>2
  <2> QED
    BY <1>5, <2>1, <2>2 DEF Reported
<1> QED
  BY <1>7, <1>8, <1>9, <1>10, <1>11

----------------------------------------------------------------------------
(* The steps of the flushing thread.                                       *)

LEMMA SpawnKeeps ==
    ASSUME IInv, Spawn
    PROVE  IInv'
<1> USE DEF IInv
<1> DEFINE new == spawned + 1
<1>1. /\ new \in Chunk /\ spawned \in Nat /\ new <= NumChunks /\ NumChunks \in Nat
      /\ spawned' = new /\ writer' = [writer EXCEPT ![new] = "running"]
      /\ handles' = Append(handles, new)
      /\ pc = "spawn" /\ pc' \in {"spawn", "wait"}
      /\ UNCHANGED <<channel, files, disk, faults>>
  BY ChunkCount DEF Spawn, ChunksLeft, TypeOK, Chunk
<1>2. /\ handles \in Seq(1..spawned)
      /\ \A i \in 1..Len(handles) : handles[i] \in 1..spawned
      /\ \A i, j \in 1..Len(handles) : i < j => handles[i] < handles[j]
  BY DEF TypeOK
<1>3. handles \in Seq(1..new) /\ new \in 1..new
  BY <1>1, <1>2
<1>4. /\ Len(handles) \in Nat
      /\ handles' \in Seq(1..new)
      /\ Len(handles') = Len(handles) + 1
      /\ handles'[Len(handles) + 1] = new
      /\ \A i \in 1..Len(handles) : handles'[i] = handles[i]
  BY <1>1, <1>3
<1>5. writer[new] = "none"
  BY <1>1 DEF TypeOK
<1>6. /\ \A d \in Chunk : d # new => writer'[d] = writer[d]
      /\ writer'[new] = "running" /\ writer' \in [Chunk -> {"none", "running", "ended", "panicked"}]
  BY <1>1 DEF TypeOK
<1>7. TypeOK'
  <2>1. \A i, j \in 1..Len(handles') : i < j => handles'[i] < handles'[j]
    <3> SUFFICES ASSUME NEW i \in 1..Len(handles'), NEW j \in 1..Len(handles'), i < j
                 PROVE  handles'[i] < handles'[j]
      OBVIOUS
    <3>1. i \in 1..Len(handles) /\ handles'[i] = handles[i] /\ handles[i] \in 1..spawned
      BY <1>2, <1>4
    <3>2. CASE j = Len(handles) + 1
      BY <1>1, <1>4, <3>1, <3>2
    <3>3. CASE j \in 1..Len(handles)
      BY <1>2, <1>4, <3>1, <3>3
    <3> QED
      BY <1>4, <3>2, <3>3
  <2>2. \A c \in Chunk : writer'[c] = "none" <=> c > spawned'
    BY <1>1, <1>6, ChunkCount DEF TypeOK, Chunk
  <2> QED
    BY <1>1, <1>4, <1>6, <2>1, <2>2 DEF TypeOK
<1>8. Handled'
  <2>1. ASSUME NEW c \in Chunk, writer'[c] = "running"
        PROVE  \E i \in 1..Len(handles') : handles'[i] = c
    <3>1. CASE c = new
      BY <1>4, <3>1
    <3>2. CASE c # new
      <4>1. PICK i \in 1..Len(handles) : handles[i] = c
        BY <1>6, <2>1, <3>2 DEF Handled, Running
      <4>2. i \in 1..Len(handles') /\ handles'[i] = c
        BY <1>4, <4>1
      <4> QED
        BY <4>2
    <3> QED
      BY <3>1, <3>2
  <2> QED
    BY <1>1, <2>1 DEF Handled, Running
<1>9. Limited'
  <2>1. /\ pc' = IF Len(handles') >= ActualParallelism THEN "wait" ELSE "spawn"
        /\ Len(handles) < ActualParallelism
    BY DEF Spawn, AtLimit, Limited
  <2> QED
    BY <1>4, <2>1, LimitType DEF Limited
<1>10. Truthful'
  <2>1. \A c \in Chunk : writer[c] = "ended" => writer'[c] = "ended"
    BY <1>5, <1>6
  <2>2. /\ \A i \in 1..Len(channel) : channel[i].chunk \in Chunk
        /\ \A i \in 1..Len(files) : files[i] \in Chunk
    BY ResultType DEF TypeOK
  <2> QED
    BY <1>1, <2>1, <2>2 DEF Truthful
<1>11. Distinct'
  BY <1>1 DEF Distinct
<1>12. Reported'
  <2>1. \A c \in Chunk : writer'[c] = "ended" => writer[c] = "ended"
    BY <1>6
  <2> QED
    BY <1>1, <2>1 DEF Reported
<1> QED
  BY <1>7, <1>8, <1>9, <1>10, <1>11, <1>12

\* Joining one writer that has ended: a handle is dropped, nothing else moves.
LEMMA WaitKeeps ==
    ASSUME IInv, Wait
    PROVE  IInv'
<1> USE DEF IInv
<1> DEFINE n == Len(handles)
<1>1. /\ pc = "wait" /\ Joinable(handles[n]) /\ handles' = SubSeq(handles, 1, n - 1)
      /\ pc' = "spawn" /\ UNCHANGED <<spawned, writer, channel, files, disk, faults>>
  BY DEF Wait
<1>2. handles \in Seq(1..spawned) /\ n \in Nat \ {0} /\ n = ActualParallelism
  BY <1>1, LimitType DEF TypeOK, Limited
<1>3. /\ handles' \in Seq(1..spawned) /\ Len(handles') = n - 1
      /\ \A i \in 1..(n - 1) : handles'[i] = handles[i]
  <2> DEFINE S == 1..spawned
  <2>1. handles \in Seq(S) /\ n > 0
    BY <1>2
  <2> HIDE DEF S
  <2>2. /\ SubSeq(handles, 1, n - 1) \in Seq(S)
        /\ Len(SubSeq(handles, 1, n - 1)) = n - 1
        /\ \A i \in 1..(n - 1) : SubSeq(handles, 1, n - 1)[i] = handles[i]
    BY <2>1, WithoutLast
  <2> QED
    BY <1>1, <2>2 DEF S
<1>4. TypeOK'
  BY <1>1, <1>2, <1>3 DEF TypeOK
<1>5. Handled'
  <2>1. ASSUME NEW c \in Running PROVE \E i \in 1..Len(handles') : handles'[i] = c
    <3>1. PICK i \in 1..n : handles[i] = c
      BY DEF Handled
    <3>2. i # n
      BY <1>1, <3>1 DEF Running, Joinable
    <3>3. i \in 1..Len(handles') /\ handles'[i] = c
      BY <1>2, <1>3, <3>1, <3>2
    <3> QED
      BY <3>3
  <2> QED
    BY <1>1, <2>1 DEF Handled, Running
<1>6. Limited'
  BY <1>1, <1>2, <1>3, LimitType DEF Limited
<1>7. Truthful' /\ Distinct' /\ Reported'
  BY <1>1 DEF Truthful, Distinct, Reported
<1> QED
  BY <1>4, <1>5, <1>6, <1>7

LEMMA JoinRestKeeps ==
    ASSUME IInv, JoinRest
    PROVE  IInv'
<1> USE DEF IInv
<1>1. /\ pc = "spawn" /\ spawned = NumChunks
      /\ UNCHANGED <<spawned, writer, channel, files, disk, faults>>
  BY DEF JoinRest
<1>2. Truthful' /\ Distinct'
  BY <1>1 DEF Truthful, Distinct
<1>3. CASE handles # <<>> /\ Joinable(Head(handles)) /\ handles' = Tail(handles) /\ UNCHANGED pc
  <2>1. handles \in Seq(1..spawned) /\ Len(handles) \in Nat \ {0} /\ Head(handles) = handles[1]
    BY <1>3 DEF TypeOK
  <2>2. /\ handles' \in Seq(1..spawned) /\ Len(handles') = Len(handles) - 1
        /\ \A i \in 1..(Len(handles) - 1) : handles'[i] = handles[i + 1]
    BY <1>3, <2>1
  <2>3. TypeOK'
    BY <1>1, <1>3, <2>1, <2>2 DEF TypeOK
  <2>4. Handled'
    <3>1. ASSUME NEW c \in Running PROVE \E i \in 1..Len(handles') : handles'[i] = c
      <4>1. PICK i \in 1..Len(handles) : handles[i] = c
        BY DEF Handled
      <4>2. i # 1
        BY <1>3, <2>1, <4>1 DEF Running, Joinable
      <4>3. (i - 1) \in 1..Len(handles') /\ handles'[i - 1] = c
        BY <2>1, <2>2, <4>1, <4>2
      <4> QED
        BY <4>3
    <3> QED
      BY <1>1, <1>3, <3>1 DEF Handled, Running
  <2>5. Limited' /\ Reported'
    BY <1>1, <1>3, <2>1, <2>2, LimitType DEF Limited, Reported
  <2> QED
    BY <1>2, <2>3, <2>4, <2>5
<1>4. CASE handles = <<>> /\ pc' = "collect" /\ UNCHANGED handles
  BY <1>1, <1>2, <1>4, LimitType DEF TypeOK, Handled, Running, Limited, Reported
<1> QED
  BY <1>3, <1>4 DEF JoinRest

LEMMA ReceiveKeeps ==
    ASSUME IInv, Receive
    PROVE  IInv'
<1> USE DEF IInv
<1> DEFINE got == channel[1]
           n == Len(channel)
<1>1. /\ channel \in Seq([chunk : Chunk, ok : BOOLEAN]) /\ n \in Nat \ {0}
      /\ Head(channel) = got /\ got.chunk \in Chunk /\ got.ok \in BOOLEAN
  <2>1. /\ channel \in Seq([chunk : Chunk, ok : BOOLEAN]) /\ n \in Nat \ {0}
        /\ Head(channel) = got
    BY DEF Receive, TypeOK
  <2>2. 1 \in 1..n
    BY <2>1
  <2> QED
    BY <2>1, <2>2, ResultType
<1>2. /\ channel' \in Seq([chunk : Chunk, ok : BOOLEAN]) /\ Len(channel') = n - 1
      /\ \A i \in 1..(n - 1) : channel'[i] = channel[i + 1]
  BY <1>1 DEF Receive
<1>3. /\ pc = "collect" /\ UNCHANGED <<spawned, handles, writer, disk, faults>>
  BY DEF Receive
<1>4. Handled' /\ Limited'
  <2>1. pc' \in {"collect", "err"}
    BY <1>3 DEF Receive
  <2> QED
    BY <1>3, <2>1 DEF Handled, Running, Limited
<1>5. CASE got.ok
  <2>1. /\ files' = Append(files, got.chunk) /\ pc' = pc
    BY <1>1, <1>5 DEF Receive
  <2>2. /\ files \in Seq(Chunk) /\ files' \in Seq(Chunk) /\ Len(files) \in Nat
        /\ Len(files') = Len(files) + 1 /\ files'[Len(files) + 1] = got.chunk
        /\ \A i \in 1..Len(files) : files'[i] = files[i]
    BY <1>1, <2>1 DEF TypeOK
  <2>3. TypeOK'
    BY <1>2, <1>3, <2>1, <2>2 DEF TypeOK
  <2>4. Truthful'
    <3>1. writer[got.chunk] = "ended" /\ disk[got.chunk] = "whole"
      BY <1>1, <1>5 DEF Truthful
    <3>2. \A i \in 1..Len(channel') :
             /\ writer'[channel'[i].chunk] = "ended"
             /\ channel'[i].ok => disk'[channel'[i].chunk] = "whole"
      <4>1. \A i \in 1..(n - 1) : i + 1 \in 1..n
        BY <1>1
      <4> QED
        BY <1>2, <1>3, <4>1 DEF Truthful
    <3>3. \A i \in 1..Len(files') : writer'[files'[i]] = "ended" /\ disk'[files'[i]] = "whole"
      BY <1>3, <2>2, <3>1 DEF Truthful
    <3> QED
      BY <3>2, <3>3 DEF Truthful
  <2>5. Distinct'
    <3>1. \A i, j \in 1..Len(channel') : channel'[i].chunk = channel'[j].chunk => i = j
      <4>1. \A i \in 1..(n - 1) : i + 1 \in 1..n
        BY <1>1
      <4>2. ASSUME NEW i \in 1..(n - 1), NEW j \in 1..(n - 1), channel'[i].chunk = channel'[j].chunk
            PROVE  i = j
        <5>1. channel[i + 1].chunk = channel[j + 1].chunk
          BY <1>2, <4>2
        <5>2. i + 1 = j + 1
          BY <4>1, <5>1 DEF Distinct
        <5> QED
          BY <1>1, <5>2
      <4> QED
        BY <1>2, <4>2
    <3>2. \A i \in 1..Len(files) : files[i] # got.chunk
      BY <1>1 DEF Distinct
    <3>3. \A i, j \in 1..Len(files') : files'[i] = files'[j] => i = j
      BY <2>2, <3>2 DEF Distinct
    <3>4. ASSUME NEW i \in 1..Len(channel'), NEW j \in 1..Len(files')
          PROVE  channel'[i].chunk # files'[j]
      <4>1. i + 1 \in 1..n /\ i + 1 # 1 /\ 1 \in 1..n /\ channel'[i] = channel[i + 1]
        BY <1>1, <1>2
      <4>2. CASE j = Len(files) + 1
        BY <2>2, <4>1, <4>2 DEF Distinct
      <4>3. CASE j \in 1..Len(files)
        BY <2>2, <4>1, <4>3 DEF Distinct
      <4> QED
        BY <2>2, <4>2, <4>3
    <3> QED
      BY <3>1, <3>3, <3>4 DEF Distinct
  <2>6. Reported'
    <3>1. ASSUME NEW c \in Chunk, writer[c] = "ended"
          PROVE  \/ \E i \in 1..Len(channel') : channel'[i].chunk = c
                 \/ \E i \in 1..Len(files') : files'[i] = c
      <4>1. CASE \E i \in 1..n : channel[i].chunk = c
        <5>1. PICK i \in 1..n : channel[i].chunk = c
          BY <4>1
        <5>2. CASE i = 1
          BY <2>2, <5>1, <5>2
        <5>3. CASE i # 1
          <6>1. i - 1 \in 1..Len(channel') /\ channel'[i - 1].chunk = c
            BY <1>1, <1>2, <5>1, <5>3
          <6> QED
            BY <6>1
        <5> QED
          BY <5>2, <5>3
      <4>2. CASE \E i \in 1..Len(files) : files[i] = c
        <5>1. PICK i \in 1..Len(files) : files[i] = c
          BY <4>2
        <5>2. i \in 1..Len(files') /\ files'[i] = c
          BY <2>2, <5>1
        <5> QED
          BY <5>2
      <4> QED
        BY <1>3, <3>1, <4>1, <4>2 DEF Reported
    <3> QED
      BY <1>3, <2>1, <3>1 DEF Reported
  <2> QED
    BY <1>4, <2>3, <2>4, <2>5, <2>6
<1>6. CASE ~ got.ok
  <2>1. files' = files /\ pc' = "err"
    BY <1>1, <1>6 DEF Receive
  <2>2. TypeOK'
    BY <1>2, <1>3, <2>1 DEF TypeOK
  <2>3. \A i \in 1..(n - 1) : i + 1 \in 1..n
    BY <1>1
  <2>4. Truthful'
    BY <1>2, <1>3, <2>1, <2>3 DEF Truthful
  <2>5. Distinct'
    <3>1. ASSUME NEW i \in 1..(n - 1), NEW j \in 1..(n - 1), channel'[i].chunk = channel'[j].chunk
          PROVE  i = j
      <4>1. channel[i + 1].chunk = channel[j + 1].chunk
        BY <1>2, <3>1
      <4>2. i + 1 = j + 1
        BY <2>3, <4>1 DEF Distinct
      <4> QED
        BY <1>1, <4>2
    <3> QED
      BY <1>2, <2>1, <2>3, <3>1 DEF Distinct
  <2> QED
    BY <1>4, <2>1, <2>2, <2>4, <2>5 DEF Reported
<1> QED
  BY <1>5, <1>6

LEMMA ReturnKeeps ==
    ASSUME IInv, Return
    PROVE  IInv'
  BY DEF IInv, Return, TypeOK, Handled, Running, Limited, Truthful, Distinct, Reported

LEMMA Inductive ==
    ASSUME IInv, [Next]_vars
    PROVE  IInv'
<1>1. CASE Flusher
  BY <1>1, SpawnKeeps, WaitKeeps, JoinRestKeeps, ReceiveKeeps, ReturnKeeps DEF Flusher
<1>2. ASSUME NEW c \in Chunk, Writer(c) PROVE IInv'
  <2>1. CASE \E ok, left : Ends(c, ok, left)
    BY <2>1, WriterKeeps
  <2>2. CASE \E left : Panics(c, left)
    BY <2>2, PanicKeeps
  <2> QED
    BY <1>2, <2>1, <2>2, WriterEnds
<1>3. CASE UNCHANGED vars
  BY <1>3 DEF vars, IInv, TypeOK, Handled, Running, Limited, Truthful, Distinct, Reported
<1> QED
  BY <1>1, <1>2, <1>3 DEF Next

----------------------------------------------------------------------------
(* What follows.                                                           *)

\* The invariant holds in every state of write_parquet_files_parallel.
THEOREM Invariant == Spec => []IInv
<1>1. IInv /\ [Next]_vars => IInv'
  BY Inductive
<1> QED
  BY InitInv, <1>1, PTL DEF Spec

\* Type correctness; the handles are those of distinct writers (mod.rs:407).
THEOREM TypeCorrect == Spec => []TypeOK
<1>1. IInv => TypeOK
  BY DEF IInv
<1> QED
  BY Invariant, <1>1, PTL

\* The call never returns, with files or with an error, while a writer is at
\* work: all handles are joined before the results are read (mod.rs:452).
THEOREM NoWriterOutlives == Spec => []NothingRunsAfter
<1>1. ASSUME IInv PROVE NothingRunsAfter
  BY <1>1 DEF IInv, Handled, NothingRunsAfter
<1> QED
  BY Invariant, <1>1, PTL

\* Never more writers at work than write_parallelism, although the thread waits
\* for the newest writer and not for the first that ends (mod.rs:443).
THEOREM WritersBounded == Spec => []BoundedWriters
<1>1. ASSUME IInv PROVE BoundedWriters
  <2> DEFINE n == Len(handles)
             Held == { handles[i] : i \in 1..n }
  <2>1. n \in Nat /\ n <= Parallelism
    BY <1>1, LimitType, ParallelAssumption DEF IInv, TypeOK, Limited
  <2>2. IsFiniteSet(1..n) /\ Cardinality(1..n) = n
    BY <2>1, FS_Interval
  <2>3. IsFiniteSet(Held) /\ Cardinality(Held) <= n
    <3>1. [i \in 1..n |-> handles[i]] \in Surjection(1..n, Held)
      BY DEF Surjection
    <3> HIDE DEF Held
    <3> QED
      BY <2>2, <3>1, FS_Surjection
  <2>4. Running \subseteq Held
    BY <1>1 DEF IInv, Handled
  <2>5. Cardinality(Running) <= Cardinality(Held) /\ Cardinality(Running) \in Nat
        /\ Cardinality(Held) \in Nat
    BY <2>3, <2>4, FS_Subset, FS_CardinalityType
  <2> QED
    BY <2>1, <2>3, <2>5, ParallelAssumption DEF BoundedWriters
<1> QED
  BY Invariant, <1>1, PTL

\* A call that returns Ok has each row in exactly one file, and every file whole,
\* whichever writers failed; the rows of a writer that panicked are in none, which
\* is how the code breaks the promise that the flush relies on (mod.rs:348, 449).
THEOREM OkIsComplete == Spec => []OkMeansAllRows
<1>1. ASSUME IInv, pc = "ok" PROVE OkMeansAllRows
  <2>1. \A c \in Chunk : writer[c] \in {"ended", "panicked"}
    BY <1>1, ChunkCount DEF IInv, TypeOK, Handled, Running, Chunk
  <2>2. \A c \in Chunk : writer[c] # "panicked" => \E i \in 1..Len(files) : files[i] = c
    BY <1>1, <2>1 DEF IInv, Reported
  <2>5. \A i \in 1..Len(files) : writer[files[i]] = "ended"
    BY <1>1 DEF IInv, Truthful
  <2>3. /\ \A i \in 1..Len(files) : files[i] \in Chunk /\ disk[files[i]] = "whole"
        /\ \A i, j \in 1..Len(files) : files[i] = files[j] => i = j
    BY <1>1 DEF IInv, TypeOK, Truthful, Distinct
  <2>4. ASSUME NEW r \in 1..NumRows
        PROVE  Cardinality({ i \in 1..Len(files) : r \in RowsOf(files[i]) })
                 = IF r \in Lost THEN 0 ELSE 1
    <3>1. PICK c \in Chunk : r \in RowsOf(c) /\ \A d \in Chunk : r \in RowsOf(d) => d = c
      BY RowsAreSplit
    <3>2. r \in Lost <=> writer[c] = "panicked"
      BY <3>1 DEF Lost
    <3>3. CASE writer[c] = "panicked"
      <4>1. { i \in 1..Len(files) : r \in RowsOf(files[i]) } = {}
        BY <2>3, <2>5, <3>1, <3>3
      <4> QED
        BY <3>2, <3>3, <4>1, FS_EmptySet
    <3>4. CASE writer[c] # "panicked"
      <4>1. PICK k \in 1..Len(files) : files[k] = c
        BY <2>2, <3>4
      <4>2. { i \in 1..Len(files) : r \in RowsOf(files[i]) } = {k}
        BY <2>3, <3>1, <4>1
      <4> QED
        BY <3>2, <3>4, <4>2, FS_Singleton
    <3> QED
      BY <3>3, <3>4
  <2> QED
    BY <2>3, <2>4 DEF OkMeansAllRows
<1>2. IInv => OkMeansAllRows
  BY <1>1 DEF OkMeansAllRows
<1> QED
  BY Invariant, <1>2, PTL
----------------------------------------------------------------------------
(* Returns without its fairness: the call makes a bounded number of steps, *)
(* and in none of its states does everyone wait for someone else.          *)

\* The steps that are left if no more writers fail: to spawn a writer, to end,
\* to join it and to receive its result; and the ends of the two loops.
StepsLeft ==
    4 * (NumChunks - spawned) + 2 * Cardinality(Running) + Len(handles) + Len(channel)
    + (IF pc \in {"spawn", "wait"} THEN 2 ELSE IF pc = "collect" THEN 1 ELSE 0)

\* The writers at work are finitely many, and so many is a number.
LEMMA RunningFinite == IsFiniteSet(Running) /\ Cardinality(Running) \in Nat
<1>1. IsFiniteSet(Chunk)
  BY ChunkCount, FS_Interval DEF Chunk
<1>2. Running \subseteq Chunk
  BY DEF Running
<1> QED
  BY <1>1, <1>2, FS_Subset, FS_CardinalityType

LEMMA StepsLeftType == ASSUME IInv PROVE StepsLeft \in Nat
<1> DEFINE r == Cardinality(Running)
<1>1. r \in Nat
  BY RunningFinite
<1>2. Len(handles) \in Nat /\ Len(channel) \in Nat /\ spawned \in 0..NumChunks /\ NumChunks \in Nat
  BY ChunkCount DEF IInv, TypeOK
<1> HIDE DEF r
<1> QED
  BY <1>1, <1>2 DEF StepsLeft, r

LEMMA WriterCounts ==
    ASSUME IInv, NEW c \in Chunk, Writer(c)
    PROVE  StepsLeft' < StepsLeft
<1>1. /\ writer[c] = "running" /\ UNCHANGED <<pc, spawned, handles>>
      /\ \E end \in {"ended", "panicked"} : writer' = [writer EXCEPT ![c] = end]
  BY WriterEnds DEF Ends, Panics
<1>2. c \in Running /\ Running' = Running \ {c}
  BY <1>1 DEF Running, IInv, TypeOK
<1>3. Cardinality(Running') = Cardinality(Running) - 1 /\ Cardinality(Running) \in Nat
  BY <1>2, RunningFinite, FS_RemoveElement
<1>4. Len(channel') \in {Len(channel), Len(channel) + 1} /\ Len(channel) \in Nat
  <2>1. CASE \E ok, left : Ends(c, ok, left)
    <3>1. PICK ok, left : Ends(c, ok, left)
      BY <2>1
    <3>2. [chunk |-> c, ok |-> ok] \in [chunk : Chunk, ok : BOOLEAN]
      BY <3>1 DEF Ends
    <3> QED
      BY <3>1, <3>2 DEF Ends, IInv, TypeOK
  <2>2. CASE \E left : Panics(c, left)
    BY <2>2 DEF Panics, IInv, TypeOK
  <2> QED
    BY <2>1, <2>2, WriterEnds
<1>5. Len(handles) \in Nat /\ spawned \in Nat /\ NumChunks \in Nat
  BY ChunkCount DEF IInv, TypeOK
<1> DEFINE r == Cardinality(Running)
           s == Cardinality(Running')
<1> HIDE DEF r, s
<1> QED
  BY <1>1, <1>3, <1>4, <1>5 DEF StepsLeft, r, s

LEMMA SpawnCounts ==
    ASSUME IInv, Spawn
    PROVE  StepsLeft' = StepsLeft - 1
<1> DEFINE new == spawned + 1
<1>1. /\ new \in Chunk /\ spawned \in Nat /\ NumChunks \in Nat /\ spawned' = new
      /\ writer' = [writer EXCEPT ![new] = "running"] /\ writer[new] = "none"
  BY ChunkCount DEF IInv, Spawn, ChunksLeft, TypeOK, Chunk
<1>2. new \notin Running /\ Running' = Running \cup {new}
  BY <1>1 DEF Running, IInv, TypeOK
<1>3. Cardinality(Running') = Cardinality(Running) + 1 /\ Cardinality(Running) \in Nat
  BY <1>2, RunningFinite, FS_AddElement
<1>4. Len(handles') = Len(handles) + 1 /\ Len(handles) \in Nat /\ Len(channel) \in Nat
  BY DEF Spawn, IInv, TypeOK
<1>5. pc = "spawn" /\ pc' \in {"spawn", "wait"} /\ channel' = channel
  BY DEF Spawn
<1> DEFINE r == Cardinality(Running)
           s == Cardinality(Running')
<1> HIDE DEF r, s
<1> QED
  BY <1>1, <1>3, <1>4, <1>5 DEF StepsLeft, r, s

LEMMA FlusherCounts ==
    ASSUME IInv, Wait \/ JoinRest \/ Receive \/ Return
    PROVE  StepsLeft' < StepsLeft
<1> DEFINE r == Cardinality(Running)
<1>1. r \in Nat /\ Running' = Running
  BY RunningFinite DEF Wait, JoinRest, Receive, Return, Running
<1>2. Cardinality(Running') = r
  BY <1>1
<1>3. Len(handles) \in Nat /\ Len(channel) \in Nat /\ spawned \in Nat /\ NumChunks \in Nat
      /\ spawned' = spawned
  BY ChunkCount DEF IInv, TypeOK, Wait, JoinRest, Receive, Return
<1> DEFINE s == Cardinality(Running')
<1> HIDE DEF r, s
<1>4. CASE Wait
  <2>1. handles # <<>> /\ handles' = SubSeq(handles, 1, Len(handles) - 1) /\ Len(handles) > 0
    BY <1>4, LimitType DEF Wait, IInv, Limited, TypeOK
  <2>2. Len(handles') = Len(handles) - 1
    <3> DEFINE S == 1..spawned
    <3>1. handles \in Seq(S)
      BY DEF IInv, TypeOK
    <3> HIDE DEF S
    <3> QED
      BY <2>1, <3>1, WithoutLast
  <2>3. pc = "wait" /\ pc' = "spawn" /\ channel' = channel
    BY <1>4 DEF Wait
  <2> QED
    BY <1>1, <1>2, <1>3, <2>2, <2>3 DEF StepsLeft, r, s
<1>5. CASE JoinRest
  <2>1. CASE handles # <<>> /\ handles' = Tail(handles) /\ pc' = pc
    <3>1. Len(handles') = Len(handles) - 1
      BY <2>1 DEF IInv, TypeOK
    <3> QED
      BY <1>1, <1>2, <1>3, <1>5, <2>1, <3>1 DEF StepsLeft, JoinRest, r, s
  <2>2. CASE pc' = "collect" /\ handles' = handles
    BY <1>1, <1>2, <1>3, <1>5, <2>2 DEF StepsLeft, JoinRest, r, s
  <2> QED
    BY <1>5, <2>1, <2>2 DEF JoinRest
<1>6. CASE Receive
  <2>1. Len(channel') = Len(channel) - 1 /\ handles' = handles
    BY <1>6 DEF Receive, IInv, TypeOK
  <2>2. pc = "collect" /\ pc' \in {"collect", "err"}
    BY <1>6 DEF Receive
  <2> QED
    BY <1>1, <1>2, <1>3, <2>1, <2>2 DEF StepsLeft, r, s
<1>7. CASE Return
  BY <1>1, <1>2, <1>3, <1>7 DEF StepsLeft, Return, r, s
<1> QED
  BY <1>4, <1>5, <1>6, <1>7

CountsDown == StepsLeft \in Nat /\ StepsLeft' \in Nat /\ StepsLeft' < StepsLeft

\* No step can be taken for ever: the call makes at most four steps a chunk, and
\* two more, in whatever order its writers end, fail or panic.
THEOREM BoundedSteps == Spec => [][CountsDown]_vars
<1>1. IInv => StepsLeft \in Nat
  BY StepsLeftType
<1>2. ASSUME IInv, Next PROVE StepsLeft' < StepsLeft
  <2>1. CASE \E c \in Chunk : Writer(c)
    BY <1>2, <2>1, WriterCounts
  <2>2. CASE Spawn
    <3>1. StepsLeft \in Nat /\ StepsLeft' = StepsLeft - 1
      BY <1>2, <2>2, StepsLeftType, SpawnCounts
    <3> QED
      BY <3>1
  <2>3. CASE Wait \/ JoinRest \/ Receive \/ Return
    BY <1>2, <2>3, FlusherCounts
  <2> QED
    BY <1>2, <2>1, <2>2, <2>3 DEF Next, Flusher
<1>3. IInv /\ StepsLeft \in Nat /\ (StepsLeft \in Nat)' /\ [Next]_vars => [CountsDown]_vars
  BY <1>2 DEF CountsDown
<1> QED
  BY Invariant, <1>1, <1>3, PTL DEF Spec

\* What the flushing thread may do next, or a writer that it waits for.
CanGoOn ==
    \/ Running # {}
    \/ pc = "spawn" /\ (ChunksLeft \/ handles = <<>> \/ Joinable(Head(handles)))
    \/ pc = "wait" /\ Joinable(handles[Len(handles)])
    \/ pc = "collect" /\ (channel # <<>> \/ Closed)

\* Until the call returns, a writer is at work or the flushing thread can go on:
\* it never joins a writer that was not spawned or reads a channel that nobody
\* closes (mod.rs:443, 457).
THEOREM NeverStuck == Spec => [](pc \notin {"ok", "err"} => CanGoOn)
<1>1. ASSUME IInv, pc \notin {"ok", "err"}, Running = {} PROVE CanGoOn
  <2>1. \A c \in Chunk : c <= spawned => Joinable(c)
    <3> SUFFICES ASSUME NEW c \in Chunk, c <= spawned PROVE Joinable(c)
      OBVIOUS
    <3>1. writer[c] \in {"none", "running", "ended", "panicked"} /\ writer[c] # "running"
      BY <1>1 DEF IInv, TypeOK, Running
    <3>2. writer[c] # "none"
      BY <1>1, ChunkCount DEF IInv, TypeOK, Chunk
    <3> QED
      BY <3>1, <3>2 DEF Joinable
  <2>2. \A i \in 1..Len(handles) : handles[i] \in 1..spawned /\ handles[i] \in Chunk
    BY ChunkCount, <1>1 DEF IInv, TypeOK, Chunk
  <2>3. \A i \in 1..Len(handles) : Joinable(handles[i])
    BY <1>1, <2>1, <2>2 DEF IInv, TypeOK
  <2>4. CASE pc = "spawn"
    BY <1>1, <2>3, <2>4 DEF CanGoOn, IInv, TypeOK
  <2>5. CASE pc = "wait"
    <3>1. Len(handles) \in 1..Len(handles)
      BY <1>1, <2>5, LimitType DEF IInv, TypeOK, Limited
    <3> QED
      BY <2>3, <2>5, <3>1 DEF CanGoOn
  <2>6. CASE pc = "collect"
    BY <1>1, <2>6 DEF CanGoOn, Closed
  <2> QED
    BY <1>1, <2>4, <2>5, <2>6 DEF IInv, TypeOK
<1>2. IInv => (pc \notin {"ok", "err"} => CanGoOn)
  BY <1>1 DEF CanGoOn
<1> QED
  BY Invariant, <1>2, PTL
=============================================================================
