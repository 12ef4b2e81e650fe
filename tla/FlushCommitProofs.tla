------------------------- MODULE FlushCommitProofs -------------------------
(***************************************************************************)
(* What a flush has committed stays visible, for any rows, any number of   *)
(* flushes, failed writes and crashes, provided that                       *)
(*   - two manifest lists are named in different milliseconds, and the     *)
(*     clock does not run backwards (SteadyClock);                         *)
(*   - a failed write of a list or a snapshot leaves no file behind, and a *)
(*     manifest list that exists can be read (CleanFaults).                *)
(* The run flush_fast_clock shows that the first cannot be dropped.        *)
(* DurableStaysVisible is not inductive: it speaks of the list             *)
(* that the newest snapshot names, and a later snapshot names another one. *)
(* The strengthening says that ids order the lists as they were written    *)
(* (OrderedIds), so that each list contains the ones before (Accumulation) *)
(* and the rows in flight are already in the file just written (InFlight). *)
(*                                                                         *)
(* The types (Grounded) and that no row is read twice (Once) need neither  *)
(* assumption: they hold for every clock, and the second for every fault   *)
(* but a snapshot write that fails after its manifest list was written.    *)
(***************************************************************************)
EXTENDS FlushCommit, SequenceLemmas

SteadyClock == (\A d \in Ticks : d >= 1) /\ SnapTicks \subseteq Nat
CleanFaults == Faults \cap {"listTorn", "read", "snapTorn"} = {}

HasLast(ids) == \E i \in ids : \A j \in ids : j <= i

\* Every id on disk was drawn before now, and the one about to be written is
\* the highest.
OrderedIds ==
    /\ DOMAIN lists # {} => HasLast(DOMAIN lists)
    /\ DOMAIN snaps # {} => HasLast(DOMAIN snaps)
    /\ \A i \in DOMAIN lists : i <= now * 1000
    /\ \A s \in DOMAIN snaps : s <= now
    /\ pc = "list" => /\ \A i \in DOMAIN lists : i < listId
                      /\ listId <= now * 1000

Accumulation ==
    /\ \A i, j \in DOMAIN lists : i <= j => lists[i] \subseteq lists[j]
    /\ \A s \in DOMAIN snaps : snaps[s].ok

\* The rows taken from the buffer are in the file written last, and the
\* buffer stays empty until the flush ends.
InFlight ==
    /\ pc = "idle" => taken = {}
    /\ pc # "idle" => buffer = {}
    /\ pc = "manifest" => taken \subseteq UNION { dataFiles[f] : f \in pending }
    /\ pc = "list" => /\ manifests # <<>>
                      /\ taken \subseteq RowsOf({Len(manifests)})
    /\ pc = "snapshot" /\ taken # {} =>
          DOMAIN lists # {} /\ taken \subseteq RowsOf(lists[LatestList])

\* Every row of this process is accounted for, and every row was inserted.
Accounted ==
    /\ mem \subseteq durable \cup buffer \cup taken
    /\ buffer \cup taken \subseteq used
    /\ \A f \in DOMAIN dataFiles : dataFiles[f] \subseteq used

\* The types, without the sequence numbers.
Types ==
    /\ mem \subseteq Row /\ buffer \subseteq Row /\ taken \subseteq Row
    /\ used \subseteq Row /\ durable \subseteq Row
    /\ now \in Int /\ listId \in Int
    /\ dataFiles \in Seq(SUBSET Row)
    /\ manifests \in Seq(SUBSET (1..Len(dataFiles)))
    /\ pending \subseteq 1..Len(dataFiles)
    /\ DOMAIN lists \subseteq Int
    /\ \A i \in DOMAIN lists : lists[i] \subseteq 1..Len(manifests)
    /\ DOMAIN snaps \subseteq Int
    /\ \A s \in DOMAIN snaps : snaps[s].list \in DOMAIN lists

IInv ==
    /\ Types
    /\ OrderedIds
    /\ Accumulation
    /\ InFlight
    /\ Accounted
    /\ DurableStaysVisible

----------------------------------------------------------------------------
(* Lemmas on the highest id and on following the chain.                    *)

\* LastOf picks the highest id of a set that has one.
LEMMA LastOfIsLast ==
    ASSUME NEW ids, HasLast(ids)
    PROVE  LastOf(ids) \in ids /\ \A j \in ids : j <= LastOf(ids)
  BY DEF LastOf, HasLast

\* An id at or above all the others becomes the last one.
LEMMA LastOfExtended ==
    ASSUME NEW ids \in SUBSET Int, NEW n \in Int, \A j \in ids : j <= n
    PROVE  HasLast(ids \cup {n}) /\ LastOf(ids \cup {n}) = n
<1>1. HasLast(ids \cup {n})
  BY DEF HasLast
<1>2. LastOf(ids \cup {n}) \in ids \cup {n} /\ n <= LastOf(ids \cup {n})
  BY <1>1, LastOfIsLast
<1>3. LastOf(ids \cup {n}) = n
  <2> DEFINE top == LastOf(ids \cup {n})
  <2>1. top \in Int /\ n <= top /\ top <= n
    BY <1>2
  <2> QED
    BY <2>1
<1> QED
  BY <1>1, <1>3

Rows(m, d, S) == UNION { d[f] : f \in UNION { m[k] : k \in S } }

LEMMA RowsOfIsRows == \A S : RowsOf(S) = Rows(manifests, dataFiles, S)
  BY DEF RowsOf, FilesOf, Rows

\* Following more entries finds more rows.
LEMMA RowsMonotone ==
    ASSUME NEW m, NEW d, NEW S, NEW T, S \subseteq T
    PROVE  Rows(m, d, S) \subseteq Rows(m, d, T)
  BY DEF Rows

\* A new data file and a new manifest change nothing for older entries.
LEMMA RowsUnaffectedByAppend ==
    ASSUME NEW R, NEW d \in Seq(SUBSET R), NEW m \in Seq(SUBSET (1..Len(d))),
           NEW S \in SUBSET (1..Len(m)), NEW file, NEW manifest
    PROVE  /\ Rows(m, Append(d, file), S) = Rows(m, d, S)
           /\ Rows(Append(m, manifest), d, S) = Rows(m, d, S)
<1>1. \A k \in S : m[k] \subseteq 1..Len(d) /\ Append(m, manifest)[k] = m[k]
  OBVIOUS
<1>2. \A f \in 1..Len(d) : Append(d, file)[f] = d[f]
  OBVIOUS
<1>3. UNION { m[k] : k \in S } \subseteq 1..Len(d)
  BY <1>1
<1>4. Rows(m, Append(d, file), S) = Rows(m, d, S)
  BY <1>2, <1>3 DEF Rows
<1>5. UNION { Append(m, manifest)[k] : k \in S } = UNION { m[k] : k \in S }
  BY <1>1
<1> QED
  BY <1>4, <1>5 DEF Rows

----------------------------------------------------------------------------
(* What a reader finds.                                                    *)

\* In a consistent state the snapshot can be read, and the entries a reader
\* follows are among those of the newest list.
LEMMA ReaderFollowsChain ==
    ASSUME Types, OrderedIds, Accumulation
    PROVE  /\ Visible = RowsOf(ReaderEntries)
           /\ ReaderEntries \subseteq 1..Len(manifests)
           /\ DOMAIN lists # {} => /\ LatestList \in DOMAIN lists
                                   /\ \A i \in DOMAIN lists : i <= LatestList
                                   /\ ReaderEntries \subseteq lists[LatestList]
           /\ DOMAIN lists = {} => DOMAIN snaps = {} /\ ReaderEntries = {}
           /\ DOMAIN snaps # {} => LastOf(DOMAIN snaps) \in DOMAIN snaps
<1>1. DOMAIN snaps # {} => LastOf(DOMAIN snaps) \in DOMAIN snaps
  BY LastOfIsLast DEF OrderedIds
<1>2. DOMAIN snaps # {} => LatestSnap.ok /\ LatestSnap.list \in DOMAIN lists
  BY <1>1 DEF Types, Accumulation, LatestSnap
<1>3. Visible = RowsOf(ReaderEntries)
  BY <1>2 DEF Visible, ReadError
<1>4. DOMAIN lists # {} => /\ LatestList \in DOMAIN lists
                           /\ \A i \in DOMAIN lists : i <= LatestList
  BY LastOfIsLast DEF OrderedIds, LatestList
<1>5. DOMAIN lists # {} => ReaderEntries \subseteq lists[LatestList]
  BY <1>2, <1>4 DEF ReaderEntries, Accumulation
<1>6. DOMAIN lists = {} => DOMAIN snaps = {} /\ ReaderEntries = {}
  BY <1>2 DEF ReaderEntries
<1>7. ReaderEntries \subseteq 1..Len(manifests)
  BY <1>4, <1>5, <1>6 DEF Types
<1> QED
  BY <1>1, <1>3, <1>4, <1>5, <1>6, <1>7

\* A step that leaves the disk alone leaves every reader's view alone.
LEMMA SameDisk ==
    ASSUME UNCHANGED disk
    PROVE  /\ Visible' = Visible
           /\ LatestList' = LatestList
           /\ \A S : RowsOf(S)' = RowsOf(S)
  BY DEF disk, Visible, ReadError, LatestSnap, ReaderEntries, LatestList, RowsOf, FilesOf

----------------------------------------------------------------------------
(* Every operation and every step of a flush preserves the invariant.      *)

LEMMA InsertPreserves ==
    ASSUME IInv, NEW batch \in SUBSET (Row \ used), NEW timeIsUp \in BOOLEAN,
           Insert(batch, timeIsUp)
    PROVE  IInv' /\ UNCHANGED disk
<1> USE DEF Insert, TakeRows, disk
<1>1. Types'
  BY DEF IInv, Types
<1>2. OrderedIds'
  BY DEF IInv, OrderedIds
<1>3. Accumulation'
  BY DEF IInv, Accumulation
<1>4. InFlight'
  BY DEF IInv, InFlight
<1>5. Accounted'
  BY DEF IInv, Accounted, InFlight
<1>6. DurableStaysVisible'
  BY SameDisk DEF IInv, DurableStaysVisible
<1> QED
  BY <1>1, <1>2, <1>3, <1>4, <1>5, <1>6 DEF IInv

LEMMA TakePreserves ==
    ASSUME IInv, FlushBuffer \/ FlushTable
    PROVE  IInv' /\ UNCHANGED disk
<1> USE DEF FlushBuffer, FlushTable, TakeRows, disk
<1>1. Types'
  BY DEF IInv, Types
<1>2. OrderedIds'
  BY DEF IInv, OrderedIds
<1>3. Accumulation'
  BY DEF IInv, Accumulation
<1>4. InFlight'
  BY DEF IInv, InFlight
<1>5. Accounted'
  BY DEF IInv, Accounted, InFlight
<1>6. DurableStaysVisible'
  BY SameDisk DEF IInv, DurableStaysVisible
<1> QED
  BY <1>1, <1>2, <1>3, <1>4, <1>5, <1>6 DEF IInv

\* A failure that touches no file gives the rows back to the buffer.
LEMMA FailPreserves ==
    ASSUME IInv, pc # "idle", Fail, UNCHANGED <<mem, listId, used, durable>>, UNCHANGED disk,
           pending' \subseteq pending, now' \in Int, now <= now'
    PROVE  IInv'
<1> USE DEF Fail, disk
<1>1. Types'
  BY DEF IInv, Types
<1>2. OrderedIds'
  BY DEF IInv, OrderedIds, Types
<1>3. Accumulation'
  BY DEF IInv, Accumulation
<1>4. InFlight'
  BY DEF IInv, InFlight
<1>5. Accounted'
  BY DEF IInv, Accounted
<1>6. DurableStaysVisible'
  BY SameDisk DEF IInv, DurableStaysVisible
<1> QED
  BY <1>1, <1>2, <1>3, <1>4, <1>5, <1>6 DEF IInv

LEMMA ParquetFailsPreserves ==
    ASSUME IInv, ParquetFails
    PROVE  IInv' /\ UNCHANGED disk
<1>1. /\ pc # "idle" /\ Fail /\ UNCHANGED <<mem, listId, used, durable>> /\ UNCHANGED disk
      /\ pending' \subseteq pending /\ now' = now /\ now \in Int
  BY DEF ParquetFails, IInv, Types
<1> QED
  BY <1>1, FailPreserves

LEMMA ManifestFailsPreserves ==
    ASSUME IInv, ManifestFails
    PROVE  IInv' /\ UNCHANGED disk
<1>1. /\ pc # "idle" /\ Fail /\ UNCHANGED <<mem, listId, used, durable>> /\ UNCHANGED disk
      /\ pending' \subseteq pending /\ now' = now /\ now \in Int
  BY DEF ManifestFails, IInv, Types
<1> QED
  BY <1>1, FailPreserves

LEMMA ListFailsPreserves ==
    ASSUME IInv, CleanFaults, ListFails
    PROVE  IInv' /\ UNCHANGED disk
<1>1. ~Fault("listTorn")
  BY DEF CleanFaults, Fault, MayFail
<1>2. /\ pc # "idle" /\ Fail /\ UNCHANGED <<mem, listId, used, durable>> /\ UNCHANGED disk
      /\ pending' \subseteq pending /\ now' = now /\ now \in Int
  BY <1>1 DEF ListFails, IInv, Types, disk
<1> QED
  BY <1>2, FailPreserves

LEMMA SnapshotFailsPreserves ==
    ASSUME IInv, CleanFaults, SteadyClock, NEW tick \in SnapTicks, SnapshotFails(tick)
    PROVE  IInv' /\ UNCHANGED disk
<1>1. ~Fault("snapTorn")
  BY DEF CleanFaults, Fault, MayFail
<1>2. tick \in Nat /\ now \in Int
  BY DEF SteadyClock, IInv, Types
<1>3. now' = now \/ now' = now + tick
  BY DEF SnapshotFails
<1>4. /\ pc # "idle" /\ Fail /\ UNCHANGED <<mem, listId, used, durable>> /\ UNCHANGED disk
      /\ pending' \subseteq pending
  BY <1>1 DEF SnapshotFails, disk
<1>5. now' \in Int /\ now <= now'
  BY <1>2, <1>3
<1> QED
  BY <1>4, <1>5, FailPreserves

LEMMA WriteParquetPreserves ==
    ASSUME IInv, WriteParquet
    PROVE  IInv' /\ Visible' = Visible
<1> USE DEF WriteParquet
<1>1. Types'
  <2>1. Len(dataFiles) \in Nat /\ Len(dataFiles') = Len(dataFiles) + 1
    BY DEF IInv, Types
  <2>2. 1..Len(dataFiles) \subseteq 1..Len(dataFiles') /\ Len(dataFiles) + 1 \in 1..Len(dataFiles')
    BY <2>1
  <2>3. dataFiles' \in Seq(SUBSET Row)
    BY DEF IInv, Types
  <2>4. pending' \subseteq 1..Len(dataFiles')
    BY <2>2 DEF IInv, Types
  <2>5. manifests' \in Seq(SUBSET (1..Len(dataFiles')))
    BY <2>2 DEF IInv, Types
  <2> QED
    BY <2>3, <2>4, <2>5 DEF IInv, Types
<1>2. OrderedIds'
  BY DEF IInv, OrderedIds
<1>3. Accumulation'
  BY DEF IInv, Accumulation
<1>4. InFlight'
  <2>1. dataFiles'[Len(dataFiles) + 1] = taken /\ Len(dataFiles) + 1 \in pending'
    BY DEF IInv, Types
  <2> QED
    BY <2>1 DEF IInv, InFlight
<1>5. Accounted'
  BY DEF IInv, Accounted, Types
<1>6. Visible' = Visible
  <2>1. ReaderEntries \in SUBSET (1..Len(manifests)) /\ Visible = RowsOf(ReaderEntries)
    BY ReaderFollowsChain DEF IInv
  <2>2. Rows(manifests, Append(dataFiles, taken), ReaderEntries)
          = Rows(manifests, dataFiles, ReaderEntries)
    BY <2>1, RowsUnaffectedByAppend DEF IInv, Types
  <2>3. ReaderEntries' = ReaderEntries
    BY DEF ReaderEntries, LatestSnap, LatestList
  <2>4. ReadError' = ReadError /\ ~ReadError
    BY ReaderFollowsChain DEF ReadError, LatestSnap, IInv, Accumulation
  <2>5. Visible' = Rows(manifests', dataFiles', ReaderEntries')
    BY <2>4 DEF Visible, RowsOf, FilesOf, Rows
  <2> QED
    BY <2>1, <2>2, <2>3, <2>5, RowsOfIsRows
<1>7. DurableStaysVisible'
  BY <1>6 DEF IInv, DurableStaysVisible
<1> QED
  BY <1>1, <1>2, <1>3, <1>4, <1>5, <1>6, <1>7 DEF IInv

LEMMA NothingPendingPreserves ==
    ASSUME IInv, NothingPending
    PROVE  IInv' /\ UNCHANGED disk
<1> USE DEF NothingPending, disk
<1>1. Types'
  BY DEF IInv, Types
<1>2. OrderedIds'
  BY DEF IInv, OrderedIds
<1>3. Accumulation'
  BY DEF IInv, Accumulation
<1>4. taken = {}
  BY DEF IInv, InFlight
<1>5. InFlight'
  BY <1>4 DEF IInv, InFlight
<1>6. Accounted'
  BY DEF IInv, Accounted
<1>7. DurableStaysVisible'
  BY SameDisk DEF IInv, DurableStaysVisible
<1> QED
  BY <1>1, <1>2, <1>3, <1>5, <1>6, <1>7 DEF IInv

\* The id that is drawn is above every id on disk: two ids of different
\* milliseconds cannot be reordered by their offsets, which span 999.
LEMMA WriteManifestPreserves ==
    ASSUME IInv, SteadyClock, NEW tick \in Ticks, NEW offset \in Offsets,
           WriteManifest(tick, offset)
    PROVE  IInv' /\ Visible' = Visible
<1> USE DEF WriteManifest
<1>1. /\ tick \in Int /\ tick >= 1 /\ now \in Int
      /\ offset \in Int /\ -999 <= offset /\ offset <= 0
  BY OffsetsAssumption, TicksAssumption DEF SteadyClock, IInv, Types
<1>2. /\ manifests \in Seq(SUBSET (1..Len(dataFiles))) /\ Len(manifests) \in Nat
      /\ Len(manifests') = Len(manifests) + 1
      /\ manifests'[Len(manifests')] = pending
      /\ manifests' \in Seq(SUBSET (1..Len(dataFiles)))
  BY DEF IInv, Types
<1>3. Types'
  <2>1. now' \in Int /\ listId' \in Int
    BY <1>1
  <2>2. 1..Len(manifests) \subseteq 1..Len(manifests')
    BY <1>2
  <2>3. \A j \in DOMAIN lists' : lists'[j] \subseteq 1..Len(manifests')
    BY <2>2 DEF IInv, Types
  <2> QED
    BY <1>2, <2>1, <2>3 DEF IInv, Types
<1>4. OrderedIds'
  <2>1. \A i \in DOMAIN lists : i \in Int /\ i <= now * 1000
    BY DEF IInv, OrderedIds, Types
  <2>2. \A i \in DOMAIN lists : i < listId' /\ i <= now' * 1000
    BY <1>1, <2>1
  <2>3. listId' <= now' * 1000
    BY <1>1
  <2>4. \A s \in DOMAIN snaps : s \in Int /\ s <= now
    BY DEF IInv, OrderedIds, Types
  <2>5. \A s \in DOMAIN snaps : s <= now'
    BY <1>1, <2>4
  <2> QED
    BY <2>2, <2>3, <2>5 DEF IInv, OrderedIds
<1>5. Accumulation'
  BY DEF IInv, Accumulation
<1>6. InFlight'
  <2>1. RowsOf({Len(manifests)})' = UNION { dataFiles[f] : f \in pending }
    BY <1>2 DEF RowsOf, FilesOf
  <2>2. manifests' # <<>>
    BY <1>2
  <2> QED
    BY <2>1, <2>2 DEF IInv, InFlight
<1>7. Accounted'
  BY DEF IInv, Accounted
<1>8. Visible' = Visible
  <2>1. ReaderEntries \in SUBSET (1..Len(manifests)) /\ Visible = RowsOf(ReaderEntries)
    BY ReaderFollowsChain DEF IInv
  <2>2. Rows(Append(manifests, pending), dataFiles, ReaderEntries)
          = Rows(manifests, dataFiles, ReaderEntries)
    BY <2>1, RowsUnaffectedByAppend DEF IInv, Types
  <2>3. ReaderEntries' = ReaderEntries
    BY DEF ReaderEntries, LatestSnap, LatestList
  <2>4. ReadError' = ReadError /\ ~ReadError
    BY ReaderFollowsChain DEF ReadError, LatestSnap, IInv, Accumulation
  <2>5. Visible' = Rows(manifests', dataFiles', ReaderEntries')
    BY <2>4 DEF Visible, RowsOf, FilesOf, Rows
  <2> QED
    BY <2>1, <2>2, <2>3, <2>5, RowsOfIsRows
<1>9. DurableStaysVisible'
  BY <1>8 DEF IInv, DurableStaysVisible
<1> QED
  BY <1>3, <1>4, <1>5, <1>6, <1>7, <1>8, <1>9 DEF IInv

\* The new list is the newest one and contains all the others.
LEMMA WriteListPreserves ==
    ASSUME IInv, CleanFaults, NEW failed \in BOOLEAN, WriteList(failed)
    PROVE  /\ IInv' /\ Visible \subseteq Visible'
           /\ Visible' = Visible \/ taken \subseteq Visible'
<1>0. /\ pc = "list" /\ pc' = "snapshot"
      /\ UNCHANGED <<mem, buffer, pending, taken, listId, now, dataFiles, manifests, snaps,
                     used, durable>>
  BY DEF WriteList
<1>1. failed = FALSE
  BY DEF CleanFaults, WriteList, Fault, MayFail
<1> DEFINE entries == ReadEntries(failed) \cup {Len(manifests)}
<1>2. /\ listId \in Int /\ listId \notin DOMAIN lists
      /\ \A i \in DOMAIN lists : i \in Int /\ i < listId
  BY <1>0 DEF IInv, Types, OrderedIds
<1>3. /\ DOMAIN lists' = DOMAIN lists \cup {listId}
      /\ lists'[listId] = entries
      /\ \A i \in DOMAIN lists : lists'[i] = lists[i]
  BY <1>2 DEF WriteList, Set
<1>4. \A i \in DOMAIN lists : lists[i] \subseteq entries
  <2> SUFFICES ASSUME NEW i \in DOMAIN lists
               PROVE  lists[i] \subseteq lists[LatestList]
    BY <1>1 DEF ReadEntries
  <2> QED
    BY ReaderFollowsChain DEF IInv, Accumulation
<1>5. Len(manifests) \in 1..Len(manifests)
  BY <1>0 DEF IInv, Types, InFlight
<1>6. entries \subseteq 1..Len(manifests)
  BY <1>1, <1>5, ReaderFollowsChain DEF ReadEntries, IInv, Types
<1>7. HasLast(DOMAIN lists') /\ LatestList' = listId
  <2>1. /\ HasLast(DOMAIN lists \cup {listId})
        /\ LastOf(DOMAIN lists \cup {listId}) = listId
    <3>1. DOMAIN lists \in SUBSET Int /\ \A i \in DOMAIN lists : i <= listId
      BY <1>2
    <3> QED
      BY <1>2, <3>1, LastOfExtended
  <2> QED
    BY <1>3, <2>1 DEF LatestList
<1>8. Types'
  BY <1>0, <1>2, <1>3, <1>6 DEF IInv, Types
<1>9. OrderedIds'
  <2>1. \A i \in DOMAIN lists' : i <= now * 1000
    BY <1>0, <1>3 DEF IInv, OrderedIds
  <2> QED
    BY <1>0, <1>7, <2>1 DEF IInv, OrderedIds
<1>10. Accumulation'
  <2>1. \A i, j \in DOMAIN lists' : i <= j => lists'[i] \subseteq lists'[j]
    <3> SUFFICES ASSUME NEW i \in DOMAIN lists', NEW j \in DOMAIN lists', i <= j
                 PROVE  lists'[i] \subseteq lists'[j]
      OBVIOUS
    <3>1. CASE j = listId
      BY <1>3, <1>4, <3>1
    <3>2. CASE j # listId
      <4>1. j \in DOMAIN lists /\ j \in Int /\ j < listId
        BY <1>2, <1>3, <3>2
      <4>2. i \in DOMAIN lists
        BY <1>2, <1>3, <4>1
      <4> QED
        BY <1>3, <4>1, <4>2 DEF IInv, Accumulation
    <3> QED
      BY <3>1, <3>2
  <2> QED
    BY <1>0, <2>1 DEF IInv, Accumulation
<1>11. taken \subseteq Rows(manifests, dataFiles, entries)
  BY <1>0, RowsOfIsRows, RowsMonotone DEF IInv, InFlight, Rows
<1>12. InFlight'
  <2>1. RowsOf(lists[LatestList])' = Rows(manifests, dataFiles, entries)
    <3>1. lists'[LatestList'] = entries
      BY <1>3, <1>7
    <3> QED
      BY <1>0, <3>1 DEF RowsOf, FilesOf, Rows
  <2> QED
    BY <1>0, <1>3, <1>11, <2>1 DEF IInv, InFlight
<1>13. Accounted'
  BY <1>0 DEF IInv, Accounted
<1>14. Visible \subseteq Visible' /\ (Visible' = Visible \/ taken \subseteq Visible')
  <2>1. /\ Visible = Rows(manifests, dataFiles, ReaderEntries)
        /\ ReadError' = ReadError /\ ~ReadError
    BY <1>0, ReaderFollowsChain, RowsOfIsRows DEF ReadError, LatestSnap, IInv, Accumulation
  <2>2. Visible' = Rows(manifests, dataFiles, ReaderEntries')
    BY <1>0, <2>1 DEF Visible, RowsOf, FilesOf, Rows
  <2>3. CASE DOMAIN snaps # {}
    <3>1. ReaderEntries' = ReaderEntries
      BY <1>0, <1>3, <2>3, ReaderFollowsChain DEF ReaderEntries, LatestSnap, IInv, Types
    <3> QED
      BY <2>1, <2>2, <3>1
  <2>4. CASE DOMAIN snaps = {}
    <3>1. ReaderEntries' = entries
      BY <1>0, <1>3, <1>7, <2>4 DEF ReaderEntries
    <3>2. ReaderEntries \subseteq entries
      BY <1>4, <2>4, ReaderFollowsChain DEF ReaderEntries, IInv
    <3> QED
      BY <1>11, <2>1, <2>2, <3>1, <3>2, RowsMonotone
  <2> QED
    BY <2>3, <2>4
<1>15. DurableStaysVisible'
  BY <1>0, <1>14 DEF IInv, DurableStaysVisible
<1> QED
  BY <1>8, <1>9, <1>10, <1>12, <1>13, <1>14, <1>15 DEF IInv

\* The newest snapshot now names the newest list.
LEMMA WriteSnapshotPreserves ==
    ASSUME IInv, SteadyClock, NEW tick \in SnapTicks, WriteSnapshot(tick)
    PROVE  IInv' /\ Visible \cup taken \subseteq Visible'
<1>0. /\ pc = "snapshot" /\ pc' \in {"idle", "manifest"} /\ taken' = {}
      /\ durable' = durable \cup taken /\ now' = now + tick /\ ReadEntries(FALSE) # {}
      /\ UNCHANGED <<mem, buffer, pending, listId, dataFiles, manifests, lists, used>>
  BY DEF WriteSnapshot, Return
<1>1. now \in Int /\ tick \in Nat /\ now' \in Int /\ now <= now'
  <2>1. now \in Int /\ tick \in Nat
    BY DEF SteadyClock, IInv, Types
  <2> QED
    BY <1>0, <2>1
<1>2. \A s \in DOMAIN snaps : s \in Int /\ s <= now'
  BY <1>1 DEF IInv, Types, OrderedIds
<1>3. DOMAIN lists # {} /\ LatestList \in DOMAIN lists
  BY <1>0, ReaderFollowsChain DEF ReadEntries, IInv
<1>4. /\ DOMAIN snaps' = DOMAIN snaps \cup {now'}
      /\ snaps'[now'] = [ok |-> TRUE, list |-> LatestList, seq |-> MaxSequence + 1]
      /\ \A s \in DOMAIN snaps : s # now' => snaps'[s] = snaps[s]
  BY <1>0 DEF WriteSnapshot, Set
<1>5. HasLast(DOMAIN snaps') /\ LastOf(DOMAIN snaps') = now'
  <2>1. DOMAIN snaps \in SUBSET Int
    BY <1>2
  <2>2. HasLast(DOMAIN snaps \cup {now'}) /\ LastOf(DOMAIN snaps \cup {now'}) = now'
    BY <1>1, <1>2, <2>1, LastOfExtended
  <2> QED
    BY <1>4, <2>2
<1>6. Types'
  BY <1>0, <1>1, <1>2, <1>3, <1>4 DEF IInv, Types
<1>7. OrderedIds'
  <2>1. \A i \in DOMAIN lists : i \in Int /\ i <= now * 1000
    BY DEF IInv, OrderedIds, Types
  <2>2. \A i \in DOMAIN lists : i <= now' * 1000
    BY <1>1, <2>1
  <2>3. \A s \in DOMAIN snaps' : s <= now'
    BY <1>1, <1>2, <1>4
  <2> QED
    BY <1>0, <1>5, <2>2, <2>3 DEF IInv, OrderedIds
<1>8. Accumulation'
  BY <1>0, <1>4 DEF IInv, Accumulation
<1>9. InFlight'
  BY <1>0 DEF IInv, InFlight
<1>10. Accounted'
  BY <1>0 DEF IInv, Accounted
<1>11. Visible' = RowsOf(lists[LatestList])
  <2>1. ~ReadError' /\ ReaderEntries' = lists[LatestList]
    BY <1>0, <1>4, <1>5 DEF ReadError, ReaderEntries, LatestSnap
  <2> QED
    BY <1>0, <2>1 DEF Visible, RowsOf, FilesOf
<1>12. Visible \subseteq Visible'
  BY <1>3, <1>11, ReaderFollowsChain, RowsOfIsRows, RowsMonotone DEF IInv
<1>13. taken \subseteq Visible'
  BY <1>0, <1>11 DEF IInv, InFlight
<1>14. DurableStaysVisible'
  BY <1>0, <1>12, <1>13 DEF IInv, DurableStaysVisible
<1> QED
  BY <1>6, <1>7, <1>8, <1>9, <1>10, <1>12, <1>13, <1>14 DEF IInv

\* Without a snapshot to write there was no row to commit.
LEMMA NoSnapshotPreserves ==
    ASSUME IInv, CleanFaults, NEW failed \in BOOLEAN, NoSnapshot(failed)
    PROVE  IInv' /\ taken = {} /\ UNCHANGED disk
<1> USE DEF NoSnapshot, Return, disk
<1>1. failed = FALSE
  BY DEF CleanFaults, Fault, MayFail
<1>2. lists[LatestList] = {}
  BY <1>1 DEF ReadEntries
<1>3. taken = {}
  BY <1>2 DEF IInv, InFlight, RowsOf, FilesOf
<1>4. Types'
  BY DEF IInv, Types
<1>5. OrderedIds'
  BY DEF IInv, OrderedIds
<1>6. Accumulation'
  BY DEF IInv, Accumulation
<1>7. InFlight'
  BY DEF IInv, InFlight
<1>8. Accounted'
  BY <1>3 DEF IInv, Accounted
<1>9. DurableStaysVisible'
  BY <1>3, SameDisk DEF IInv, DurableStaysVisible
<1> QED
  BY <1>3, <1>4, <1>5, <1>6, <1>7, <1>8, <1>9 DEF IInv

LEMMA CrashPreserves ==
    ASSUME IInv, CleanFaults, Crash
    PROVE  IInv' /\ UNCHANGED disk
<1> USE DEF Crash, disk
<1>1. UNCHANGED <<lists, snaps>>
  BY DEF CleanFaults
<1>2. Types'
  BY <1>1 DEF IInv, Types
<1>3. OrderedIds'
  BY <1>1 DEF IInv, OrderedIds
<1>4. Accumulation'
  BY <1>1 DEF IInv, Accumulation
<1>5. InFlight'
  BY DEF IInv, InFlight
<1>6. Accounted'
  BY DEF IInv, Accounted
<1>7. DurableStaysVisible'
  BY <1>1, SameDisk DEF IInv, DurableStaysVisible
<1> QED
  BY <1>1, <1>2, <1>3, <1>4, <1>5, <1>6, <1>7 DEF IInv

----------------------------------------------------------------------------
(* The theorems.                                                           *)

LEMMA InitEstablishes == Init => IInv
<1> SUFFICES ASSUME Init PROVE IInv
  OBVIOUS
<1> USE DEF Init
<1>1. Types
  BY DEF Types
<1>2. OrderedIds /\ Accumulation /\ InFlight /\ Accounted /\ DurableStaysVisible
  BY DEF OrderedIds, Accumulation, InFlight, Accounted, DurableStaysVisible
<1> QED
  BY <1>1, <1>2 DEF IInv

\* What a step does to a reader's view: nothing, or it shows all that is in
\* flight, which then waits no longer.
Commits ==
    /\ Visible \cup taken \subseteq Visible'
    /\ buffer \cup buffer' = {}
    /\ taken' \subseteq taken
    /\ used' = used

LEMMA StepPreserves ==
    ASSUME SteadyClock, CleanFaults, IInv, [Next]_vars
    PROVE  IInv' /\ (Visible' = Visible \/ Commits)
<1>1. ASSUME NEW batch \in SUBSET (Row \ used), NEW timeIsUp \in BOOLEAN,
             Insert(batch, timeIsUp)
      PROVE  IInv' /\ Visible' = Visible
  BY <1>1, InsertPreserves, SameDisk
<1>2. CASE FlushBuffer \/ FlushTable
  BY <1>2, TakePreserves, SameDisk
<1>3. CASE UNCHANGED vars
  <2>1. UNCHANGED disk
    BY <1>3 DEF vars
  <2>2. Types' /\ OrderedIds' /\ Accumulation' /\ InFlight' /\ Accounted'
    BY <1>3 DEF vars, process, disk, IInv, Types, OrderedIds, Accumulation, InFlight, Accounted,
                RowsOf, FilesOf, LatestList
  <2> QED
    BY <1>3, <2>1, <2>2, SameDisk DEF vars, IInv, DurableStaysVisible
<1>4. CASE WriteParquet \/ ParquetFails \/ NothingPending \/ ManifestFails \/ ListFails
  BY <1>4, WriteParquetPreserves, ParquetFailsPreserves, NothingPendingPreserves,
     ManifestFailsPreserves, ListFailsPreserves, SameDisk
<1>5. ASSUME NEW tick \in Ticks, NEW offset \in Offsets, WriteManifest(tick, offset)
      PROVE  IInv' /\ Visible' = Visible
  BY <1>5, WriteManifestPreserves
<1>6. ASSUME NEW failed \in BOOLEAN, WriteList(failed)
      PROVE  IInv' /\ (Visible' = Visible \/ Commits)
  BY <1>6, WriteListPreserves DEF WriteList, IInv, InFlight, Commits
<1>7. ASSUME NEW failed \in BOOLEAN, NoSnapshot(failed)
      PROVE  IInv' /\ Visible' = Visible
  BY <1>7, NoSnapshotPreserves, SameDisk
<1>8. ASSUME NEW tick \in SnapTicks, WriteSnapshot(tick)
      PROVE  IInv' /\ Commits
  BY <1>8, WriteSnapshotPreserves DEF WriteSnapshot, Return, IInv, InFlight, Commits
<1>9. ASSUME NEW tick \in SnapTicks, SnapshotFails(tick)
      PROVE  IInv' /\ Visible' = Visible
  BY <1>9, SnapshotFailsPreserves, SameDisk
<1>10. CASE Crash
  BY <1>10, CrashPreserves, SameDisk
<1>11. CASE Read
  BY <1>3, <1>11 DEF Read
<1> QED
  BY <1>1, <1>2, <1>3, <1>4, <1>5, <1>6, <1>7, <1>8, <1>9, <1>10, <1>11 DEF Next, FlushStep

\* The strengthened invariant holds in every reachable state.
THEOREM Invariant == ASSUME SteadyClock, CleanFaults PROVE Spec => []IInv
<1>1. IInv /\ [Next]_vars => IInv'
  BY StepPreserves
<1> QED
  BY <1>1, InitEstablishes, PTL DEF Spec

\* A row whose flush returned Ok is found by every later reader
\* (flush_iceberg_buffer, create_snapshot, read_from_iceberg), for every
\* interleaving of failed writes and crashes that leave no torn file.
THEOREM Durability == ASSUME SteadyClock, CleanFaults PROVE Spec => []DurableStaysVisible
<1>1. IInv => DurableStaysVisible
  BY DEF IInv
<1> QED
  BY <1>1, Invariant, PTL

\* An inserted row is on disk where a reader finds it, in the buffer, or in
\* the flush in progress, because a failed flush restores what it took.
THEOREM NoInsertForgotten == ASSUME SteadyClock, CleanFaults PROVE Spec => []NothingLost
<1>1. IInv => NothingLost
  BY DEF IInv, Accounted, DurableStaysVisible, NothingLost
<1> QED
  BY <1>1, Invariant, PTL

\* No step, failed flush or crash takes a row away from readers.
THEOREM ReadersNeverLoseRows == ASSUME SteadyClock, CleanFaults PROVE Spec => VisibleOnlyGrows
<1>1. IInv /\ [Next]_vars => [Visible \subseteq Visible']_vars
  BY StepPreserves DEF Commits
<1> QED
  BY <1>1, Invariant, PTL DEF Spec, VisibleOnlyGrows

----------------------------------------------------------------------------
(* The flush implements DurableTable.                                      *)

\* Readers find only rows that were inserted.
LEMMA VisibleInserted == IInv => Visible \subseteq used
<1> SUFFICES ASSUME IInv PROVE Visible \subseteq used
  OBVIOUS
<1>1. ReaderEntries \subseteq 1..Len(manifests) /\ Visible = RowsOf(ReaderEntries)
  BY ReaderFollowsChain DEF IInv
<1>2. FilesOf(ReaderEntries) \subseteq DOMAIN dataFiles
  BY <1>1 DEF FilesOf, IInv, Types
<1> QED
  BY <1>1, <1>2 DEF RowsOf, IInv, Accounted

\* Seen from DurableTable, an insert adds its rows to those that wait, ...
LEMMA InsertImplements ==
    ASSUME IInv, NEW batch \in SUBSET (Row \ used), NEW timeIsUp \in BOOLEAN,
           Insert(batch, timeIsUp)
    PROVE  Store!Insert(batch)
<1>1. Visible' = Visible /\ Visible \subseteq used /\ taken = {}
  BY InsertPreserves, SameDisk, VisibleInserted DEF IInv, InFlight, Insert
<1>2. buffer' \cup taken' = buffer \cup batch /\ used' = used \cup batch
  BY <1>1 DEF Insert, TakeRows
<1> QED
  BY <1>1, <1>2 DEF Store!Insert

\* ... a step that moves rows between buffer and flush is invisible, ...
LEMMA MoveImplements ==
    ASSUME Visible' = Visible, buffer' \cup taken' = buffer \cup taken, used' = used
    PROVE  UNCHANGED Store!vars
  BY DEF Store!vars

\* ... and one that shows the rows in flight commits all that waits, together
\* with the rows of older data files whose flush had failed.
LEMMA CommitImplements ==
    ASSUME IInv, IInv', Commits
    PROVE  \E leftovers \in SUBSET Row : Store!Commit(leftovers)
<1> DEFINE leftovers == Visible' \ (Visible \cup taken)
<1>1. Visible' \subseteq used'
  <2>1. (IInv => Visible \subseteq used)'
    BY VisibleInserted, PTL
  <2> QED
    BY <2>1
<1>2. leftovers \subseteq used \ (Visible \cup taken) /\ leftovers \in SUBSET Row
  BY <1>1 DEF Commits, IInv, Types
<1>3. buffer = {} /\ buffer' = {} /\ taken' \subseteq taken /\ Visible \cup taken \subseteq Visible'
  BY DEF Commits
<1>4. Store!Commit(leftovers)
  <2>1. (buffer' \cup taken') \ Visible' = {}
    BY <1>3
  <2>2. Visible' = Visible \cup ((buffer \cup taken) \ Visible) \cup leftovers
    BY <1>3
  <2>3. leftovers \subseteq used \ (Visible \cup ((buffer \cup taken) \ Visible))
    BY <1>2, <1>3
  <2> QED
    BY <2>1, <2>2, <2>3 DEF Commits, Store!Commit
<1> QED
  BY <1>2, <1>4

LEMMA StepImplements ==
    ASSUME SteadyClock, CleanFaults, IInv, [Next]_vars
    PROVE  [Store!Next]_Store!vars
<1>1. IInv'
  BY StepPreserves
<1>2. CASE Commits
  BY <1>1, <1>2, CommitImplements DEF Store!Next
<1>3. ASSUME NEW batch \in SUBSET (Row \ used), NEW timeIsUp \in BOOLEAN,
             Insert(batch, timeIsUp)
      PROVE  Store!Next
  BY <1>3, InsertImplements DEF Store!Next, IInv, Types
<1>4. CASE FlushBuffer \/ FlushTable
  <2>1. Visible' = Visible /\ used' = used
    BY <1>4, TakePreserves, SameDisk DEF FlushBuffer, FlushTable
  <2>2. buffer' \cup taken' = buffer \cup taken
    BY <1>4 DEF FlushBuffer, FlushTable, TakeRows, IInv, InFlight
  <2> QED
    BY <2>1, <2>2, MoveImplements
<1>5. CASE UNCHANGED vars
  <2>1. UNCHANGED disk /\ UNCHANGED <<buffer, taken, used>>
    BY <1>5 DEF vars, process
  <2> QED
    BY <2>1, SameDisk, MoveImplements
<1>6. CASE WriteParquet \/ NothingPending
  <2>1. Visible' = Visible
    BY <1>6, WriteParquetPreserves, NothingPendingPreserves, SameDisk
  <2> QED
    BY <1>6, <2>1, MoveImplements DEF WriteParquet, NothingPending
<1>7. CASE ParquetFails \/ ManifestFails \/ ListFails
  <2>1. Visible' = Visible
    BY <1>7, ParquetFailsPreserves, ManifestFailsPreserves, ListFailsPreserves, SameDisk
  <2>2. Fail /\ used' = used
    BY <1>7 DEF ParquetFails, ManifestFails, ListFails
  <2>3. buffer' \cup taken' = buffer \cup taken
    BY <2>2 DEF Fail
  <2> QED
    BY <2>1, <2>2, <2>3, MoveImplements
<1>8. ASSUME NEW tick \in Ticks, NEW offset \in Offsets, WriteManifest(tick, offset)
      PROVE  UNCHANGED Store!vars
  BY <1>8, WriteManifestPreserves, MoveImplements DEF WriteManifest
<1>9. ASSUME NEW failed \in BOOLEAN, WriteList(failed)
      PROVE  [Store!Next]_Store!vars
  <2>1. Visible' = Visible \/ Commits
    BY <1>9, WriteListPreserves DEF WriteList, IInv, InFlight, Commits
  <2> QED
    BY <1>2, <1>9, <2>1, MoveImplements DEF WriteList
<1>10. ASSUME NEW failed \in BOOLEAN, NoSnapshot(failed)
       PROVE  UNCHANGED Store!vars
  <2>1. Visible' = Visible /\ taken = {}
    BY <1>10, NoSnapshotPreserves, SameDisk
  <2> QED
    BY <1>10, <2>1, MoveImplements DEF NoSnapshot, Return
<1>11. ASSUME NEW tick \in SnapTicks, WriteSnapshot(tick)
       PROVE  [Store!Next]_Store!vars
  <2>1. Commits
    BY <1>11, WriteSnapshotPreserves DEF WriteSnapshot, Return, IInv, InFlight, Commits
  <2> QED
    BY <1>2, <2>1
<1>12. ASSUME NEW tick \in SnapTicks, SnapshotFails(tick)
       PROVE  UNCHANGED Store!vars
  <2>1. Visible' = Visible
    BY <1>12, SnapshotFailsPreserves, SameDisk
  <2> QED
    BY <1>12, <2>1, MoveImplements DEF SnapshotFails, Fail
<1>13. CASE Crash
  <2>1. Visible' = Visible
    BY <1>13, CrashPreserves, SameDisk
  <2> QED
    BY <1>13, <2>1 DEF Crash, Store!Next, Store!Crash
<1>14. CASE Read
  BY <1>5, <1>14 DEF Read
<1> QED
  BY <1>3, <1>4, <1>5, <1>6, <1>7, <1>8, <1>9, <1>10, <1>11, <1>12, <1>13, <1>14
     DEF Next, FlushStep

\* The four file writes of a flush, with their failures and crashes, behave
\* like one atomic commit of all that waits.
THEOREM FlushImplementsDurableTable ==
    ASSUME SteadyClock, CleanFaults PROVE Spec => ImplementsDurableTable
<1>1. Init => Store!Init
  BY DEF Init, Store!Init, Visible, ReadError, ReaderEntries, RowsOf, FilesOf
<1>2. IInv /\ [Next]_vars => [Store!Next]_Store!vars
  BY StepImplements
<1> QED
  BY <1>1, <1>2, Invariant, PTL DEF Spec, ImplementsDurableTable, Store!Spec

----------------------------------------------------------------------------
(* The order of lists and snapshots, and the types of all variables.       *)

Sequences == {0} \cup { snaps[s].seq : s \in DOMAIN snaps }

\* The sequence numbers have a highest one, which load_max_sequence finds.
SnapInv ==
    /\ pc \in {"idle", "parquet", "manifest", "list", "snapshot"}
    /\ again \in BOOLEAN
    /\ faults \in Nat
    /\ \A s \in DOMAIN snaps : snaps[s] \in [ok : BOOLEAN, list : DOMAIN lists, seq : Nat]
    /\ HasLast(Sequences)
    /\ \A s, t \in DOMAIN snaps : s <= t => snaps[s].list <= snaps[t].list
    /\ SequenceFollowsTime

LEMMA MaxSequenceIsLast ==
    ASSUME IInv, SnapInv
    PROVE  MaxSequence \in Nat /\ \A s \in DOMAIN snaps : snaps[s].seq <= MaxSequence
<1>1. { t \in DOMAIN snaps : snaps[t].ok } = DOMAIN snaps
  BY DEF IInv, Accumulation
<1>2. MaxSequence = LastOf(Sequences)
  BY <1>1 DEF MaxSequence, Sequences
<1>3. Sequences \subseteq Nat
  BY DEF Sequences, SnapInv
<1>4. MaxSequence \in Sequences /\ \A n \in Sequences : n <= MaxSequence
  BY <1>2, LastOfIsLast DEF SnapInv
<1>5. \A s \in DOMAIN snaps : snaps[s].seq \in Sequences
  BY DEF Sequences
<1> QED
  BY <1>3, <1>4, <1>5

\* A step that writes no snapshot keeps the snapshots in order.
LEMMA NoNewSnapshot ==
    ASSUME SnapInv, snaps' = snaps, DOMAIN lists \subseteq DOMAIN lists',
           pc' \in {"idle", "parquet", "manifest", "list", "snapshot"},
           again' \in BOOLEAN, faults' \in Nat
    PROVE  SnapInv'
<1>1. HasLast(Sequences)'
  BY DEF SnapInv, HasLast, Sequences
<1> QED
  BY <1>1 DEF SnapInv, SequenceFollowsTime

LEMMA NewSnapshot ==
    ASSUME IInv, SnapInv, SteadyClock, NEW tick \in SnapTicks, WriteSnapshot(tick)
    PROVE  SnapInv'
<1>0. /\ pc' \in {"idle", "manifest"} /\ again' = FALSE /\ lists' = lists /\ faults' = faults
      /\ now' = now + tick /\ DOMAIN lists # {}
  BY DEF WriteSnapshot, Return, ReadEntries
<1> DEFINE new == [ok |-> TRUE, list |-> LatestList, seq |-> MaxSequence + 1]
<1>1. /\ DOMAIN snaps' = DOMAIN snaps \cup {now'}
      /\ snaps'[now'] = new
      /\ \A s \in DOMAIN snaps : s # now' => snaps'[s] = snaps[s]
  BY DEF WriteSnapshot, Set
<1>2. /\ MaxSequence \in Nat
      /\ \A s \in DOMAIN snaps : snaps[s].seq \in Nat /\ snaps[s].seq < MaxSequence + 1
  BY MaxSequenceIsLast DEF SnapInv
<1>3. now' \in Int /\ \A s \in DOMAIN snaps : s \in Int /\ s <= now'
  <2>1. now \in Int /\ tick \in Nat /\ \A s \in DOMAIN snaps : s \in Int /\ s <= now
    BY DEF SteadyClock, IInv, Types, OrderedIds
  <2> QED
    BY <1>0, <2>1
<1>4. LatestList \in DOMAIN lists /\ \A j \in DOMAIN lists : j \in Int /\ j <= LatestList
  BY <1>0, ReaderFollowsChain DEF IInv, Types
<1>5. \A s \in DOMAIN snaps' : snaps'[s] \in [ok : BOOLEAN, list : DOMAIN lists', seq : Nat]
  <2>1. new \in [ok : BOOLEAN, list : DOMAIN lists, seq : Nat]
    BY <1>2, <1>4
  <2> QED
    BY <1>0, <1>1, <2>1 DEF SnapInv
<1>6. \A s, t \in DOMAIN snaps' : s <= t => snaps'[s].list <= snaps'[t].list
  <2> SUFFICES ASSUME NEW s \in DOMAIN snaps', NEW t \in DOMAIN snaps', s <= t
               PROVE  snaps'[s].list <= snaps'[t].list
    OBVIOUS
  <2>1. CASE t = now'
    <3>1. snaps'[t].list = LatestList /\ snaps'[s].list \in DOMAIN lists
      BY <1>0, <1>1, <1>5, <2>1
    <3> QED
      BY <1>4, <3>1
  <2>2. CASE t # now'
    <3>1. t \in DOMAIN snaps /\ t \in Int /\ t < now'
      BY <1>1, <1>3, <2>2
    <3>2. s \in DOMAIN snaps /\ s # now'
      BY <1>1, <1>3, <3>1
    <3> QED
      BY <1>1, <2>2, <3>1, <3>2 DEF SnapInv
  <2> QED
    BY <2>1, <2>2
<1>7. \A s, t \in DOMAIN snaps' : s < t => snaps'[s].seq < snaps'[t].seq
  <2> SUFFICES ASSUME NEW s \in DOMAIN snaps', NEW t \in DOMAIN snaps', s < t
               PROVE  snaps'[s].seq < snaps'[t].seq
    OBVIOUS
  <2>1. s \in Int /\ t \in Int /\ t <= now'
    BY <1>1, <1>3
  <2>2. s # now' /\ s \in DOMAIN snaps
    BY <1>1, <1>3, <2>1
  <2>3. CASE t = now'
    BY <1>1, <1>2, <2>2, <2>3
  <2>4. CASE t # now'
    BY <1>1, <2>2, <2>4 DEF SnapInv, SequenceFollowsTime
  <2> QED
    BY <2>3, <2>4
<1>8. HasLast(Sequences)'
  <2>1. MaxSequence + 1 \in Sequences'
    BY <1>1 DEF Sequences
  <2>2. \A n \in Sequences' : n <= MaxSequence + 1
    BY <1>1, <1>2 DEF Sequences
  <2> QED
    BY <2>1, <2>2 DEF HasLast
<1> QED
  BY <1>0, <1>5, <1>6, <1>7, <1>8 DEF SnapInv, SequenceFollowsTime

LEMMA SnapStepPreserves ==
    ASSUME SteadyClock, CleanFaults, IInv, SnapInv, [Next]_vars
    PROVE  SnapInv'
<1> DEFINE Kept == /\ snaps' = snaps /\ DOMAIN lists \subseteq DOMAIN lists'
                   /\ pc' \in {"idle", "parquet", "manifest", "list", "snapshot"}
                   /\ again' \in BOOLEAN /\ faults' \in Nat
<1>1. CASE Kept
  BY <1>1, NoNewSnapshot
<1>2. ASSUME NEW tick \in SnapTicks, WriteSnapshot(tick)
      PROVE  SnapInv'
  BY <1>2, NewSnapshot
<1>3. /\ pc \in {"idle", "parquet", "manifest", "list", "snapshot"}
      /\ again \in BOOLEAN /\ faults \in Nat
  BY DEF SnapInv
<1>4. \A kind : Fault(kind) => kind \notin {"listTorn", "read", "snapTorn"} /\ faults' \in Nat
  BY <1>3 DEF Fault, MayFail, CleanFaults
<1>5. Fail => pc' = "idle" /\ again' = FALSE
  BY DEF Fail
<1>6. ASSUME UNCHANGED vars PROVE Kept
  BY <1>3, <1>6 DEF vars, process, disk
<1>7. ASSUME NEW batch \in SUBSET (Row \ used), NEW timeIsUp \in BOOLEAN,
             Insert(batch, timeIsUp)
      PROVE  Kept
  BY <1>3, <1>7 DEF Insert, TakeRows, disk
<1>8. ASSUME FlushBuffer \/ FlushTable \/ WriteParquet \/ NothingPending PROVE Kept
  BY <1>3, <1>8 DEF FlushBuffer, FlushTable, WriteParquet, NothingPending, TakeRows, disk
<1>9. ASSUME ParquetFails \/ ManifestFails PROVE Kept
  BY <1>3, <1>4, <1>5, <1>9 DEF ParquetFails, ManifestFails, disk
<1>10. ASSUME ListFails PROVE Kept
  BY <1>4, <1>5, <1>10 DEF ListFails
<1>11. ASSUME NEW tick \in Ticks, NEW offset \in Offsets, WriteManifest(tick, offset)
       PROVE  Kept
  BY <1>3, <1>11 DEF WriteManifest
<1>12. ASSUME NEW failed \in BOOLEAN, WriteList(failed)
       PROVE  Kept
  <2>1. DOMAIN lists \subseteq DOMAIN lists'
    BY <1>12 DEF WriteList, Set
  <2>2. faults' \in Nat
    BY <1>3, <1>4, <1>12 DEF WriteList
  <2> QED
    BY <1>3, <1>12, <2>1, <2>2 DEF WriteList
<1>13. ASSUME NEW failed \in BOOLEAN, NoSnapshot(failed)
       PROVE  Kept
  <2>1. faults' \in Nat
    BY <1>3, <1>4, <1>13 DEF NoSnapshot
  <2>2. pc' \in {"idle", "manifest"} /\ again' = FALSE
    BY <1>13 DEF NoSnapshot, Return
  <2> QED
    BY <1>13, <2>1, <2>2 DEF NoSnapshot, disk
<1>14. ASSUME NEW tick \in SnapTicks, SnapshotFails(tick)
       PROVE  Kept
  BY <1>3, <1>4, <1>5, <1>14 DEF SnapshotFails
<1>15. ASSUME Crash PROVE Kept
  <2>1. UNCHANGED <<lists, snaps>> /\ pc' = "idle" /\ again' = FALSE
    BY <1>15 DEF Crash, CleanFaults
  <2>2. faults' \in Nat
    BY <1>4, <1>15 DEF Crash
  <2> QED
    BY <2>1, <2>2
<1>16. ASSUME Read PROVE Kept
  BY <1>3, <1>16 DEF Read, vars, process, disk
<1> QED
  BY <1>1, <1>2, <1>6, <1>7, <1>8, <1>9, <1>10, <1>11, <1>12, <1>13, <1>14, <1>15, <1>16
     DEF Next, FlushStep

LEMMA SnapInvariant == ASSUME SteadyClock, CleanFaults PROVE Spec => []SnapInv
<1>1. Init => SnapInv
  <2> SUFFICES ASSUME Init PROVE SnapInv
    OBVIOUS
  <2>1. Sequences = {0} /\ HasLast({0})
    BY DEF Init, HasLast, Sequences
  <2> QED
    BY <2>1 DEF Init, SnapInv, SequenceFollowsTime
<1>2. IInv /\ SnapInv /\ [Next]_vars => SnapInv'
  BY SnapStepPreserves
<1> QED
  BY <1>1, <1>2, Invariant, PTL DEF Spec

\* load_max_sequence recomputes the last sequence number from the files, and
\* still the numbers increase with the snapshot ids.
THEOREM SequenceNumbersIncrease ==
    ASSUME SteadyClock, CleanFaults PROVE Spec => []SequenceFollowsTime
<1>1. SnapInv => SequenceFollowsTime
  BY DEF SnapInv
<1> QED
  BY <1>1, SnapInvariant, PTL

\* Every manifest list contains the older ones, and newer snapshots name newer
\* lists: the chain that create_snapshot builds never goes back.
THEOREM ListsOnlyAccumulate ==
    ASSUME SteadyClock, CleanFaults PROVE Spec => []ListsAccumulate
<1>1. IInv /\ SnapInv => ListsAccumulate
  BY DEF IInv, Accumulation, SnapInv, ListsAccumulate
<1> QED
  BY <1>1, Invariant, SnapInvariant, PTL

----------------------------------------------------------------------------
(* The types, for every clock and every fault.  Ids may now be drawn below *)
(* the ones on disk and files overwritten, torn or unreadable, so all that *)
(* is left of OrderedIds is that a newest list, a newest snapshot and a    *)
(* highest sequence number exist.                                          *)

Grounded ==
    /\ TypeOK
    /\ DOMAIN lists # {} => HasLast(DOMAIN lists)
    /\ DOMAIN snaps # {} => HasLast(DOMAIN snaps)
    /\ \E n \in Nat : \A s \in DOMAIN snaps : snaps[s].seq <= n
    /\ pc = "list" => manifests # <<>>

\* One more id leaves a set of ids with a highest one.
LEMMA HasLastExtended ==
    ASSUME NEW ids \in SUBSET Int, NEW n \in Int, ids # {} => HasLast(ids)
    PROVE  HasLast(ids \cup {n})
<1>1. CASE ids = {}
  BY <1>1 DEF HasLast
<1>2. CASE ids # {}
  <2>1. PICK i \in ids : \A j \in ids : j <= i
    BY <1>2 DEF HasLast
  <2>2. CASE i <= n
    <3>1. \A j \in ids \cup {n} : j <= n
      BY <2>1, <2>2
    <3> QED
      BY <3>1 DEF HasLast
  <2>3. CASE n <= i
    <3>1. \A j \in ids \cup {n} : j <= i
      BY <2>1, <2>3
    <3> QED
      BY <2>1, <3>1 DEF HasLast
  <2> QED
    BY <2>2, <2>3
<1> QED
  BY <1>1, <1>2

LEMMA LatestListFound ==
    ASSUME Grounded, DOMAIN lists # {}
    PROVE  LatestList \in DOMAIN lists
  BY LastOfIsLast DEF Grounded, LatestList

LEMMA ReadEntriesTyped ==
    ASSUME Grounded, NEW failed \in BOOLEAN
    PROVE  ReadEntries(failed) \subseteq 1..Len(manifests)
  BY LatestListFound DEF ReadEntries, Grounded, TypeOK

\* The readable snapshots have a highest sequence number.
LEMMA MaxSequenceTyped ==
    ASSUME Grounded
    PROVE  MaxSequence \in Nat
<1> DEFINE seqs == {0} \cup { snaps[s].seq : s \in { t \in DOMAIN snaps : snaps[t].ok } }
<1>1. PICK n \in Nat : \A s \in DOMAIN snaps : snaps[s].seq <= n
  BY DEF Grounded
<1>2. seqs \in SUBSET (0..n) /\ seqs # {}
  BY <1>1 DEF Grounded, TypeOK
<1> HIDE DEF seqs
<1>3. HasLast(seqs)
  BY <1>2, BoundedHasHighest DEF HasLast
<1>4. LastOf(seqs) \in seqs
  BY <1>3, LastOfIsLast
<1>5. \A k \in seqs : k \in Nat
  BY <1>2
<1> QED
  BY <1>4, <1>5 DEF MaxSequence, seqs

\* A step that keeps the files found by scanning the directories.
LEMMA GroundedSameFiles ==
    ASSUME Grounded, TypeOK', UNCHANGED <<lists, snaps>>, pc' = "list" => manifests' # <<>>
    PROVE  Grounded'
  BY DEF Grounded

\* A manifest list is written, or left half-written, under the id drawn.
LEMMA GroundedNewList ==
    ASSUME Grounded, NEW entries \in SUBSET (1..Len(manifests)),
           lists' = Set(lists, listId, entries), UNCHANGED <<dataFiles, manifests, snaps>>,
           mem' \subseteq mem, buffer' \subseteq taken \cup buffer, taken' \subseteq taken,
           used' = used, durable' = durable, pending' \subseteq pending,
           now' = now, listId' \in Int, pc' \in {"idle", "snapshot"}, again' \in BOOLEAN,
           faults' \in Nat
    PROVE  Grounded'
<1>1. DOMAIN lists' = DOMAIN lists \cup {listId}
  BY DEF Set
<1>2. \A i \in DOMAIN lists' : lists'[i] = entries \/ (i \in DOMAIN lists /\ lists'[i] = lists[i])
  BY DEF Set
<1>3. DOMAIN lists \in SUBSET Int /\ listId \in Int
  BY DEF Grounded, TypeOK
<1>4. HasLast(DOMAIN lists')
  BY <1>1, <1>3, HasLastExtended DEF Grounded
<1>5. \A s \in DOMAIN snaps' : snaps'[s] \in [ok : BOOLEAN, list : DOMAIN lists', seq : Nat]
  BY <1>1 DEF Grounded, TypeOK
<1>6. TypeOK'
  BY <1>1, <1>2, <1>3, <1>5 DEF Grounded, TypeOK
<1> QED
  BY <1>4, <1>6 DEF Grounded

\* A snapshot is written, or left half-written, under the time drawn.
LEMMA GroundedNewSnapshot ==
    ASSUME Grounded, DOMAIN lists # {}, NEW id \in Int, NEW ok \in BOOLEAN, NEW seq \in Nat,
           snaps' = Set(snaps, id, [ok |-> ok, list |-> LatestList, seq |-> seq]),
           UNCHANGED <<dataFiles, manifests, lists>>,
           mem' \subseteq mem, buffer' \subseteq taken \cup buffer, taken' \subseteq taken,
           used' = used, durable' \subseteq durable \cup taken, pending' \subseteq pending,
           now' \in Int, listId' \in Int, pc' \in {"idle", "manifest"}, again' \in BOOLEAN,
           faults' \in Nat
    PROVE  Grounded'
<1> DEFINE new == [ok |-> ok, list |-> LatestList, seq |-> seq]
<1>1. DOMAIN snaps' = DOMAIN snaps \cup {id}
  BY DEF Set
<1>2. \A s \in DOMAIN snaps' : snaps'[s] = new \/ (s \in DOMAIN snaps /\ snaps'[s] = snaps[s])
  BY DEF Set
<1>3. DOMAIN snaps \in SUBSET Int
  BY DEF Grounded, TypeOK
<1>4. HasLast(DOMAIN snaps')
  BY <1>1, <1>3, HasLastExtended DEF Grounded
<1>5. new \in [ok : BOOLEAN, list : DOMAIN lists, seq : Nat]
  BY LatestListFound
<1>6. TypeOK'
  <2>1. \A s \in DOMAIN snaps' : snaps'[s] \in [ok : BOOLEAN, list : DOMAIN lists', seq : Nat]
    BY <1>2, <1>5 DEF Grounded, TypeOK
  <2> QED
    BY <1>1, <1>3, <2>1 DEF Grounded, TypeOK
<1>7. \E n \in Nat : \A s \in DOMAIN snaps' : snaps'[s].seq <= n
  <2>1. PICK n \in Nat : \A s \in DOMAIN snaps : snaps[s].seq <= n
    BY DEF Grounded
  <2>2. \A s \in DOMAIN snaps' : snaps'[s].seq \in Nat /\ (snaps'[s].seq <= n \/ snaps'[s].seq = seq)
    BY <1>2, <2>1 DEF Grounded, TypeOK
  <2>3. \A s \in DOMAIN snaps' : snaps'[s].seq <= n + seq
    BY <2>2
  <2> QED
    BY <2>3
<1> QED
  BY <1>4, <1>6, <1>7 DEF Grounded
LEMMA GroundedStep ==
    ASSUME Grounded, [Next]_vars
    PROVE  Grounded'
<1> USE TicksAssumption
<1>0. TypeOK
  BY DEF Grounded
<1>a. now \in Int /\ \A tick \in SnapTicks : now + tick \in Int
  <2>1. now \in Int /\ \A tick \in SnapTicks : tick \in Int
    BY <1>0 DEF TypeOK
  <2> QED
    BY <2>1
<1>1. \A kind : Fault(kind) => faults' \in Nat
  BY <1>0 DEF Fault, MayFail, TypeOK
<1>2. ASSUME NEW batch \in SUBSET (Row \ used), NEW timeIsUp \in BOOLEAN,
             Insert(batch, timeIsUp)
      PROVE  Grounded'
  <2>1. TypeOK' /\ UNCHANGED <<lists, snaps>> /\ (pc' = "list" => manifests' # <<>>)
    BY <1>0, <1>2 DEF Insert, TakeRows, TypeOK, disk
  <2> QED
    BY <2>1, GroundedSameFiles
<1>3. CASE FlushBuffer \/ FlushTable
  <2>1. TypeOK' /\ UNCHANGED <<lists, snaps>> /\ (pc' = "list" => manifests' # <<>>)
    BY <1>0, <1>3 DEF FlushBuffer, FlushTable, TakeRows, TypeOK, disk
  <2> QED
    BY <2>1, GroundedSameFiles
<1>4. CASE UNCHANGED vars
  <2>1. TypeOK' /\ UNCHANGED <<lists, snaps>> /\ (pc' = "list" => manifests' # <<>>)
    BY <1>0, <1>4 DEF Grounded, vars, process, disk, TypeOK
  <2> QED
    BY <2>1, GroundedSameFiles
<1>5. CASE WriteParquet
  <2>1. /\ dataFiles' \in Seq(SUBSET Row) /\ Len(dataFiles') = Len(dataFiles) + 1
        /\ Len(dataFiles) \in Nat
    BY <1>0, <1>5 DEF WriteParquet, TypeOK
  <2>2. 1..Len(dataFiles) \subseteq 1..Len(dataFiles') /\ Len(dataFiles) + 1 \in 1..Len(dataFiles')
    BY <2>1
  <2>3. manifests' \in Seq(SUBSET (1..Len(dataFiles')))
    BY <1>0, <1>5, <2>2 DEF WriteParquet, TypeOK
  <2>4. TypeOK' /\ UNCHANGED <<lists, snaps>> /\ (pc' = "list" => manifests' # <<>>)
    BY <1>0, <1>5, <2>1, <2>2, <2>3 DEF WriteParquet, TypeOK
  <2> QED
    BY <2>4, GroundedSameFiles
<1>6. CASE ParquetFails \/ ManifestFails
  <2>1. faults' \in Nat
    BY <1>0, <1>1, <1>6 DEF ParquetFails, ManifestFails, TypeOK
  <2>2. TypeOK' /\ UNCHANGED <<lists, snaps>> /\ (pc' = "list" => manifests' # <<>>)
    BY <1>0, <1>6, <2>1 DEF ParquetFails, ManifestFails, Fail, TypeOK, disk
  <2> QED
    BY <2>2, GroundedSameFiles
<1>7. CASE NothingPending
  <2>1. TypeOK' /\ UNCHANGED <<lists, snaps>> /\ (pc' = "list" => manifests' # <<>>)
    BY <1>0, <1>7 DEF NothingPending, TypeOK, disk
  <2> QED
    BY <2>1, GroundedSameFiles
<1>8. ASSUME NEW tick \in Ticks, NEW offset \in Offsets, WriteManifest(tick, offset)
      PROVE  Grounded'
  <2>1. now' \in Int /\ listId' \in Int
    <3>1. now \in Int /\ tick \in Int /\ offset \in Int
      BY <1>0, OffsetsAssumption DEF TypeOK
    <3> QED
      BY <1>8, <3>1 DEF WriteManifest
  <2>2. /\ manifests' \in Seq(SUBSET (1..Len(dataFiles)))
        /\ Len(manifests') = Len(manifests) + 1 /\ Len(manifests) \in Nat
    BY <1>0, <1>8 DEF WriteManifest, TypeOK
  <2>3. 1..Len(manifests) \subseteq 1..Len(manifests')
    BY <2>2
  <2>4. TypeOK' /\ UNCHANGED <<lists, snaps>> /\ (pc' = "list" => manifests' # <<>>)
    BY <1>0, <1>8, <2>1, <2>2, <2>3 DEF WriteManifest, TypeOK
  <2> QED
    BY <2>4, GroundedSameFiles
<1>9. ASSUME NEW failed \in BOOLEAN, WriteList(failed)
      PROVE  Grounded'
  <2>1. ReadEntries(failed) \cup {Len(manifests)} \in SUBSET (1..Len(manifests))
    BY <1>0, <1>9, ReadEntriesTyped DEF TypeOK, Grounded, WriteList
  <2>2. faults' \in Nat
    BY <1>0, <1>1, <1>9 DEF WriteList, TypeOK
  <2> QED
    BY <1>0, <1>9, <2>1, <2>2, GroundedNewList DEF WriteList, TypeOK
<1>10. CASE ListFails
  <2>1. faults' \in Nat
    BY <1>1, <1>10 DEF ListFails
  <2>2. CASE UNCHANGED lists
    <3>1. TypeOK' /\ UNCHANGED <<lists, snaps>> /\ (pc' = "list" => manifests' # <<>>)
      BY <1>0, <1>10, <2>1, <2>2 DEF ListFails, Fail, TypeOK
    <3> QED
      BY <3>1, GroundedSameFiles
  <2>3. CASE lists' = Set(lists, listId, {})
    <3>1. {} \in SUBSET (1..Len(manifests))
      OBVIOUS
    <3> QED
      BY <1>0, <1>10, <2>1, <2>3, <3>1, GroundedNewList DEF ListFails, Fail, TypeOK
  <2> QED
    BY <1>10, <2>2, <2>3 DEF ListFails
<1>11. ASSUME NEW failed \in BOOLEAN, NoSnapshot(failed)
       PROVE  Grounded'
  <2>1. faults' \in Nat
    BY <1>0, <1>1, <1>11 DEF NoSnapshot, TypeOK
  <2>2. TypeOK' /\ UNCHANGED <<lists, snaps>> /\ (pc' = "list" => manifests' # <<>>)
    BY <1>0, <1>11, <2>1 DEF NoSnapshot, Return, TypeOK, disk
  <2> QED
    BY <2>2, GroundedSameFiles
<1>12. ASSUME NEW tick \in SnapTicks, WriteSnapshot(tick)
       PROVE  Grounded'
  <2>1. DOMAIN lists # {} /\ now' = now + tick /\ now' \in Int /\ MaxSequence + 1 \in Nat
    <3>1. DOMAIN lists # {} /\ now' = now + tick
      BY <1>12 DEF WriteSnapshot, ReadEntries
    <3>2. MaxSequence + 1 \in Nat
      BY MaxSequenceTyped
    <3> QED
      BY <1>a, <3>1, <3>2
  <2>2. /\ pc' \in {"idle", "manifest"} /\ again' \in BOOLEAN /\ taken' \subseteq taken
        /\ durable' \subseteq durable \cup taken
    BY <1>12 DEF WriteSnapshot, Return
  <2>3. /\ snaps' = Set(snaps, now', [ok |-> TRUE, list |-> LatestList, seq |-> MaxSequence + 1])
        /\ UNCHANGED <<mem, buffer, pending, listId, dataFiles, manifests, lists, used, faults>>
    BY <1>12 DEF WriteSnapshot
  <2>4. listId' \in Int /\ faults' \in Nat
    BY <1>0, <2>3 DEF TypeOK
  <2> QED
    BY <2>1, <2>2, <2>3, <2>4, GroundedNewSnapshot
<1>13. ASSUME NEW tick \in SnapTicks, SnapshotFails(tick)
       PROVE  Grounded'
  <2>1. now + tick \in Int /\ now \in Int /\ now' \in Int
    BY <1>a, <1>13 DEF SnapshotFails
  <2>2. faults' \in Nat
    BY <1>0, <1>1, <1>13 DEF SnapshotFails, TypeOK
  <2>3. CASE UNCHANGED snaps
    <3>1. TypeOK' /\ UNCHANGED <<lists, snaps>> /\ (pc' = "list" => manifests' # <<>>)
      <4>1. /\ Fail /\ UNCHANGED <<mem, pending, listId, dataFiles, manifests, lists, used, durable>>
        BY <1>13 DEF SnapshotFails
      <4> QED
        BY <1>0, <2>1, <2>2, <2>3, <4>1 DEF Fail, TypeOK
    <3> QED
      BY <3>1, GroundedSameFiles
  <2>4. CASE /\ ReadEntries(FALSE) # {}
             /\ snaps' = Set(snaps, now + tick, [ok |-> FALSE, list |-> LatestList, seq |-> 0])
    <3>1. DOMAIN lists # {}
      BY <2>4 DEF ReadEntries
    <3>2. Fail /\ UNCHANGED <<mem, pending, listId, dataFiles, manifests, lists, used, durable>>
      BY <1>13 DEF SnapshotFails
    <3>3. /\ buffer' \subseteq taken \cup buffer /\ taken' \subseteq taken
          /\ pc' \in {"idle", "manifest"} /\ again' \in BOOLEAN
      BY <3>2 DEF Fail
    <3>4. listId' \in Int
      BY <1>0, <3>2 DEF TypeOK
    <3> QED
      BY <2>1, <2>2, <2>4, <3>1, <3>2, <3>3, <3>4, GroundedNewSnapshot
  <2> QED
    BY <1>13, <2>3, <2>4 DEF SnapshotFails
<1>14. CASE Crash
  <2>1. /\ mem' = {} /\ buffer' = {} /\ pending' = {} /\ taken' = {} /\ again' = FALSE
        /\ pc' = "idle" /\ listId' = 0 /\ faults' \in Nat /\ used' = used /\ durable' = durable
        /\ UNCHANGED <<now, dataFiles, manifests>>
    BY <1>1, <1>14 DEF Crash
  <2>a. listId' \in Int /\ now' \in Int
    BY <1>a, <2>1
  <2>b. again' \in BOOLEAN /\ pc' \in {"idle", "manifest"}
    BY <2>1
  <2>2. CASE UNCHANGED <<lists, snaps>>
    <3>1. TypeOK'
      BY <1>0, <2>1, <2>2, <2>a, <2>b DEF TypeOK
    <3> QED
      BY <2>1, <2>2, <3>1, GroundedSameFiles
  <2>3. CASE lists' = Set(lists, listId, {}) /\ UNCHANGED snaps
    <3>1. {} \in SUBSET (1..Len(manifests)) /\ pc' \in {"idle", "snapshot"}
      BY <2>1
    <3> QED
      BY <2>1, <2>3, <2>a, <2>b, <3>1, GroundedNewList
  <2>4. ASSUME NEW tick \in SnapTicks, ReadEntries(FALSE) # {}, UNCHANGED lists,
               snaps' = Set(snaps, now + tick, [ok |-> FALSE, list |-> LatestList, seq |-> 0])
        PROVE  Grounded'
    <3>1. DOMAIN lists # {} /\ now + tick \in Int
      BY <1>a, <2>4 DEF ReadEntries
    <3> QED
      BY <2>1, <2>4, <2>a, <2>b, <3>1, GroundedNewSnapshot
  <2> QED
    BY <1>14, <2>2, <2>3, <2>4 DEF Crash
<1>15. CASE Read
  BY <1>4, <1>15 DEF Read
<1> QED
  BY <1>2, <1>3, <1>4, <1>5, <1>6, <1>7, <1>8, <1>9, <1>10, <1>11, <1>12, <1>13, <1>14, <1>15
     DEF Next, FlushStep

LEMMA GroundedInvariant == Spec => []Grounded
<1>1. Init => Grounded
  <2> SUFFICES ASSUME Init PROVE Grounded
    OBVIOUS
  <2>1. /\ DOMAIN lists = {} /\ DOMAIN snaps = {} /\ faults = 0 /\ pc = "idle"
        /\ dataFiles \in Seq(SUBSET Row) /\ manifests \in Seq(SUBSET (1..Len(dataFiles)))
    BY DEF Init
  <2>2. again \in BOOLEAN
    BY DEF Init
  <2>3. pending \subseteq 1..Len(dataFiles)
    BY DEF Init
  <2>4. TypeOK
    BY <2>1, <2>2, <2>3 DEF Init, TypeOK
  <2> QED
    BY <2>1, <2>4 DEF Grounded
<1>2. Grounded /\ [Next]_vars => Grounded'
  BY GroundedStep
<1> QED
  BY <1>1, <1>2, PTL DEF Spec

\* The variables of FlushCommit have their types, whatever the clock does and
\* whichever writes fail: in particular every list names manifests and every
\* snapshot a list that was written before it.
THEOREM TypeCorrect == Spec => []TypeOK
<1>1. Grounded => TypeOK
  BY DEF Grounded
<1> QED
  BY <1>1, GroundedInvariant, PTL
----------------------------------------------------------------------------
(* A row is read once, for every clock and every fault but a failed        *)
(* snapshot write: the manifest list written just before it already shows  *)
(* the rows that the failed flush gives back to the buffer (the run        *)
(* flush_retry leaves these faults out for that reason).  Lists may be     *)
(* overwritten, torn or unreadable here, and what the proof follows is     *)
(* the data files that any list still names.                               *)

NoLateFault == Faults \cap {"snap", "snapTorn"} = {}

\* The data files named by a manifest list on disk, newest or not.
Listed == UNION { FilesOf(lists[i]) : i \in DOMAIN lists }

\* What a flush adds is one data file, of the rows it took.
OneNewFile(files) ==
    /\ \A f \in files : dataFiles[f] \subseteq taken
    /\ \A f, g \in files : f = g

\* A flush takes rows that no listed file holds, and adds one file of them;
\* once a list names that file the rows leave memory or the flush returns Ok.
Once ==
    /\ pc = "idle" => taken = {}
    /\ pc # "idle" => buffer = {}
    /\ buffer \cup taken \subseteq used
    /\ \A f \in DOMAIN dataFiles : dataFiles[f] \subseteq used
    /\ pc # "manifest" => pending = {}
    /\ OneNewFile(pending)
    /\ pc = "list" => OneNewFile(manifests[Len(manifests)])
    /\ \A f, g \in Listed : f # g => dataFiles[f] \cap dataFiles[g] = {}
    /\ pc # "snapshot" => \A f \in Listed : (buffer \cup taken) \cap dataFiles[f] = {}

LEMMA ListedTyped ==
    ASSUME Grounded
    PROVE  /\ Listed \subseteq 1..Len(dataFiles)
           /\ 1..Len(dataFiles) = DOMAIN dataFiles
           /\ Len(dataFiles) \in Nat /\ Len(manifests) \in Nat
<1>1. \A k \in 1..Len(manifests) : manifests[k] \subseteq 1..Len(dataFiles)
  BY DEF Grounded, TypeOK
<1>2. \A i \in DOMAIN lists : FilesOf(lists[i]) \subseteq 1..Len(dataFiles)
  BY <1>1 DEF Grounded, TypeOK, FilesOf
<1>3. Len(dataFiles) \in Nat /\ Len(manifests) \in Nat /\ 1..Len(dataFiles) = DOMAIN dataFiles
  BY DEF Grounded, TypeOK
<1> QED
  BY <1>2, <1>3 DEF Listed

\* A list that is torn, or the one it overwrites, can only name less.
LEMMA TornListsLess ==
    ASSUME \/ UNCHANGED lists
           \/ lists' = Set(lists, listId, {}),
           UNCHANGED manifests
    PROVE  Listed' \subseteq Listed
<1>1. CASE UNCHANGED lists
  BY <1>1 DEF Listed, FilesOf
<1>2. CASE lists' = Set(lists, listId, {})
  <2>1. \A i \in DOMAIN lists' : lists'[i] = {} \/ (i \in DOMAIN lists /\ lists'[i] = lists[i])
    BY <1>2 DEF Set
  <2> QED
    BY <2>1 DEF Listed, FilesOf
<1> QED
  BY <1>1, <1>2

\* A failed flush gives back rows that no list names.
LEMMA FailOnce ==
    ASSUME Once, Fail, pc # "idle", UNCHANGED <<dataFiles, manifests, used>>,
           Listed' \subseteq Listed, pending' = {}, pc # "snapshot" \/ Listed = {}
    PROVE  Once'
  BY DEF Once, Fail, OneNewFile

\* A flush that returns Ok, with or without a snapshot, forgets its rows.
LEMMA ReturnOnce ==
    ASSUME Once, pc = "snapshot", Return,
           UNCHANGED <<buffer, pending, dataFiles, manifests, lists, used>>
    PROVE  Once'
<1>1. Listed' = Listed
  BY DEF Listed, FilesOf
<1> QED
  BY <1>1 DEF Once, Return, OneNewFile

LEMMA WriteParquetOnce ==
    ASSUME Grounded, Once, WriteParquet
    PROVE  Once'
<1>1. /\ dataFiles' = Append(dataFiles, taken) /\ pending' = {Len(dataFiles) + 1}
      /\ pc = "parquet" /\ pc' = "manifest"
      /\ UNCHANGED <<buffer, taken, manifests, lists, used>>
  BY DEF WriteParquet, Once
<1>2. /\ dataFiles'[Len(dataFiles) + 1] = taken
      /\ \A f \in DOMAIN dataFiles : dataFiles'[f] = dataFiles[f]
      /\ DOMAIN dataFiles' = DOMAIN dataFiles \cup {Len(dataFiles) + 1}
  BY <1>1 DEF Grounded, TypeOK
<1>3. Listed' = Listed /\ Listed \subseteq DOMAIN dataFiles
  BY <1>1, ListedTyped DEF Listed, FilesOf
<1> QED
  BY <1>1, <1>2, <1>3 DEF Once, OneNewFile

LEMMA WriteManifestOnce ==
    ASSUME Grounded, Once, NEW tick \in Ticks, NEW offset \in Offsets, WriteManifest(tick, offset)
    PROVE  Once'
<1>1. /\ manifests' = Append(manifests, pending) /\ pending' = {}
      /\ pc = "manifest" /\ pc' = "list"
      /\ UNCHANGED <<buffer, taken, dataFiles, lists, used>>
  BY DEF WriteManifest
<1>2. /\ manifests'[Len(manifests')] = pending
      /\ \A k \in 1..Len(manifests) : manifests'[k] = manifests[k]
  BY <1>1 DEF Grounded, TypeOK
<1>3. Listed' = Listed
  <2>1. \A i \in DOMAIN lists : FilesOf(lists[i])' = FilesOf(lists[i])
    BY <1>1, <1>2 DEF FilesOf, Grounded, TypeOK
  <2> QED
    BY <1>1, <2>1 DEF Listed
<1> QED
  BY <1>1, <1>2, <1>3 DEF Once, OneNewFile

LEMMA WriteListOnce ==
    ASSUME Grounded, Once, NEW failed \in BOOLEAN, WriteList(failed)
    PROVE  Once'
<1> DEFINE last == Len(manifests)
<1>1. /\ lists' = Set(lists, listId, ReadEntries(failed) \cup {last})
      /\ pc = "list" /\ pc' = "snapshot"
      /\ UNCHANGED <<buffer, taken, pending, dataFiles, manifests, used>>
  BY DEF WriteList
<1>2. ReadEntries(failed) = {} \/ (LatestList \in DOMAIN lists /\ ReadEntries(failed) = lists[LatestList])
  BY LatestListFound DEF ReadEntries
<1>3. Listed' \subseteq Listed \cup manifests[last]
  <2>1. \A i \in DOMAIN lists' : \/ lists'[i] = ReadEntries(failed) \cup {last}
                                 \/ i \in DOMAIN lists /\ lists'[i] = lists[i]
    BY <1>1 DEF Set
  <2>2. \A i \in DOMAIN lists' :
            UNION { manifests[m] : m \in lists'[i] } \subseteq Listed \cup manifests[last]
    BY <1>2, <2>1 DEF FilesOf, Listed
  <2>3. Listed' = UNION { UNION { manifests[m] : m \in lists'[i] } : i \in DOMAIN lists' }
    BY <1>1 DEF Listed, FilesOf
  <2> QED
    BY <2>2, <2>3
<1>4. /\ OneNewFile(manifests[last]) /\ taken \subseteq used
      /\ \A f \in Listed : taken \cap dataFiles[f] = {}
      /\ \A f, g \in Listed : f # g => dataFiles[f] \cap dataFiles[g] = {}
  BY <1>1 DEF Once
<1>5. \A f, g \in Listed' : f # g => dataFiles[f] \cap dataFiles[g] = {}
  BY <1>3, <1>4 DEF OneNewFile
<1> QED
  BY <1>1, <1>5 DEF Once, OneNewFile

LEMMA OnceStep ==
    ASSUME NoLateFault, Grounded, Once, [Next]_vars
    PROVE  Once'
<1>1. ASSUME NEW batch \in SUBSET (Row \ used), NEW timeIsUp \in BOOLEAN,
             Insert(batch, timeIsUp)
      PROVE  Once'
  <2>1. Listed' = Listed /\ Listed \subseteq DOMAIN dataFiles
    BY <1>1, ListedTyped DEF Insert, disk, Listed, FilesOf
  <2> QED
    BY <1>1, <2>1 DEF Insert, TakeRows, disk, Once, OneNewFile
<1>2. CASE FlushBuffer \/ FlushTable
  <2>1. Listed' = Listed
    BY <1>2 DEF FlushBuffer, FlushTable, disk, Listed, FilesOf
  <2> QED
    BY <1>2, <2>1 DEF FlushBuffer, FlushTable, TakeRows, disk, Once, OneNewFile
<1>3. CASE UNCHANGED vars
  <2>1. Listed' = Listed
    BY <1>3 DEF vars, disk, Listed, FilesOf
  <2> QED
    BY <1>3, <2>1 DEF vars, process, disk, Once, OneNewFile
<1>4. CASE ParquetFails \/ ManifestFails
  <2>1. Listed' = Listed
    BY <1>4 DEF ParquetFails, ManifestFails, disk, Listed, FilesOf
  <2> QED
    BY <1>4, <2>1, FailOnce DEF ParquetFails, ManifestFails, disk, Once
<1>5. CASE NothingPending
  <2>1. Listed' = Listed
    BY <1>5 DEF NothingPending, disk, Listed, FilesOf
  <2> QED
    BY <1>5, <2>1 DEF NothingPending, disk, Once, OneNewFile
<1>6. CASE ListFails
  <2>1. Listed' \subseteq Listed
    BY <1>6, TornListsLess DEF ListFails
  <2> QED
    BY <1>6, <2>1, FailOnce DEF ListFails, Once
<1>7. ASSUME NEW failed \in BOOLEAN, NoSnapshot(failed)
      PROVE  Once'
  BY <1>7, ReturnOnce DEF NoSnapshot, disk
<1>8. ASSUME NEW tick \in SnapTicks, WriteSnapshot(tick)
      PROVE  Once'
  BY <1>8, ReturnOnce DEF WriteSnapshot
<1>9. ASSUME NEW tick \in SnapTicks, SnapshotFails(tick)
      PROVE  Once'
  <2>1. DOMAIN lists = {}
    BY <1>9 DEF SnapshotFails, NoLateFault, Fault, MayFail
  <2>2. Listed = {} /\ Listed' = {}
    BY <1>9, <2>1 DEF SnapshotFails, Listed
  <2> QED
    BY <1>9, <2>2, FailOnce DEF SnapshotFails, Once
<1>10. CASE Crash
  <2>1. Listed' \subseteq Listed
    BY <1>10, TornListsLess DEF Crash
  <2> QED
    BY <1>10, <2>1 DEF Crash, Once, OneNewFile
<1>11. CASE Read
  BY <1>3, <1>11 DEF Read
<1> QED
  BY <1>1, <1>2, <1>3, <1>4, <1>5, <1>6, <1>7, <1>8, <1>9, <1>10, <1>11,
     WriteParquetOnce, WriteManifestOnce, WriteListOnce DEF Next, FlushStep

\* A reader never follows two data files that share a row, and an idle buffer
\* holds no row that a reader finds, whatever the clock does, whichever data
\* files, manifests or lists fail, and wherever the process dies.
THEOREM RowsReadOnce == ASSUME NoLateFault PROVE Spec => []NoRowTwice
<1>1. Init => Once
  BY DEF Init, Once, OneNewFile, Listed
<1>2. Grounded /\ Once /\ [Next]_vars => Once'
  BY OnceStep
<1>3. Grounded /\ Once => NoRowTwice
  <2> SUFFICES ASSUME Grounded, Once PROVE NoRowTwice
    OBVIOUS
  <2>1. DOMAIN snaps # {} => LatestSnap.list \in DOMAIN lists
    BY LastOfIsLast DEF Grounded, TypeOK, LatestSnap
  <2>2. FilesOf(ReaderEntries) \subseteq Listed
    BY <2>1, LatestListFound DEF ReaderEntries, Listed, FilesOf
  <2>3. VisibleFiles \subseteq Listed /\ Visible \subseteq UNION { dataFiles[f] : f \in Listed }
    BY <2>2 DEF VisibleFiles, Visible, RowsOf
  <2> QED
    BY <2>3 DEF Once, NoRowTwice
<1> QED
  BY <1>1, <1>2, <1>3, GroundedInvariant, PTL DEF Spec

----------------------------------------------------------------------------
(* EventuallyFlushed without its fairness: a flush ends after so many      *)
(* steps, and how it ends.                                                 *)

\* The writes a flush has left: data file, manifest, list and snapshot, and the
\* last three once more for flush_table_iceberg_writes.
WritesLeft ==
    (IF pc = "parquet" THEN 4 ELSE IF pc = "manifest" THEN 3
     ELSE IF pc = "list" THEN 2 ELSE IF pc = "snapshot" THEN 1 ELSE 0)
    + (IF again THEN 3 ELSE 0)

\* A flush that has rows has a data file to name, and later a list that names it.
InHand ==
    /\ pc \in {"idle", "parquet", "manifest", "list", "snapshot"} /\ again \in BOOLEAN
    /\ pc = "idle" => taken = {} /\ ~again
    /\ pc = "manifest" /\ taken # {} => pending # {}
    /\ pc = "snapshot" /\ taken # {} => DOMAIN lists # {}

\* The flush in progress returned Ok, or gave its rows back because a write
\* failed or the Parquet writer rejects one of them, or the process died.
EndsWell ==
    \/ taken \subseteq durable'
    \/ /\ faults' = faults + 1 \/ taken \cap Poison # {}
       /\ taken \subseteq buffer' \/ mem' = {}

\* The steps of a flush lead to its end, and nothing interferes with them.
FlushAdvances ==
    /\ WritesLeft \in 0..7
    /\ FlushStep => WritesLeft' < WritesLeft
    /\ pc # "idle" => WritesLeft' <= WritesLeft
    /\ pc # "idle" /\ pc' = "idle" => EndsWell

LEMMA InHandStep == InHand /\ [Next]_vars => InHand'
<1> SUFFICES ASSUME InHand, [Next]_vars PROVE InHand'
  OBVIOUS
<1> USE DEF InHand
<1>1. CASE Read \/ UNCHANGED vars
  BY <1>1 DEF Read, vars, process, disk
<1>2. CASE FlushBuffer \/ FlushTable
  BY <1>2 DEF FlushBuffer, FlushTable, TakeRows, disk
<1>3. ASSUME NEW batch \in SUBSET (Row \ used), NEW timeIsUp \in BOOLEAN, Insert(batch, timeIsUp)
      PROVE  InHand'
  BY <1>3 DEF Insert, TakeRows, disk
<1>4. CASE WriteParquet \/ ParquetFails \/ NothingPending \/ ManifestFails
  BY <1>4 DEF WriteParquet, ParquetFails, NothingPending, ManifestFails, Fail, disk
<1>5. ASSUME NEW tick \in Ticks, NEW offset \in Offsets, WriteManifest(tick, offset)
      PROVE  InHand'
  BY <1>5 DEF WriteManifest
<1>6. ASSUME NEW failed \in BOOLEAN, WriteList(failed) \/ NoSnapshot(failed)
      PROVE  InHand'
  BY <1>6 DEF WriteList, NoSnapshot, Return, Set, disk
<1>7. ASSUME NEW tick \in SnapTicks, WriteSnapshot(tick) \/ SnapshotFails(tick)
      PROVE  InHand'
  BY <1>7 DEF WriteSnapshot, SnapshotFails, Return, Fail
<1>8. CASE ListFails
  BY <1>8 DEF ListFails, Fail
<1>9. CASE Crash
  BY <1>9 DEF Crash
<1> QED
  BY <1>1, <1>2, <1>3, <1>4, <1>5, <1>6, <1>7, <1>8, <1>9 DEF Next, FlushStep

LEMMA FlushStepAdvances ==
    ASSUME InHand, FlushStep
    PROVE  FlushAdvances
<1> USE DEF InHand, FlushAdvances, EndsWell, WritesLeft
<1>1. CASE WriteParquet \/ NothingPending
  BY <1>1 DEF WriteParquet, NothingPending
<1>2. CASE ParquetFails
  BY <1>2 DEF ParquetFails, Fail, Fault
<1>3. CASE ManifestFails
  BY <1>3 DEF ManifestFails, Fail, Fault
<1>4. ASSUME NEW tick \in Ticks, NEW offset \in Offsets, WriteManifest(tick, offset)
      PROVE  FlushAdvances
  BY <1>4 DEF WriteManifest
<1>5. ASSUME NEW failed \in BOOLEAN, WriteList(failed)
      PROVE  FlushAdvances
  BY <1>5 DEF WriteList
<1>6. ASSUME NEW failed \in BOOLEAN, NoSnapshot(failed)
      PROVE  FlushAdvances
  BY <1>6 DEF NoSnapshot, Return
<1>7. ASSUME NEW tick \in SnapTicks, WriteSnapshot(tick)
      PROVE  FlushAdvances
  BY <1>7 DEF WriteSnapshot, Return
<1>8. ASSUME NEW tick \in SnapTicks, SnapshotFails(tick)
      PROVE  FlushAdvances
  <2>1. taken = {} \/ faults' = faults + 1
    BY <1>8 DEF SnapshotFails, Fault
  <2> QED
    BY <1>8, <2>1 DEF SnapshotFails, Fail
<1>9. CASE ListFails
  BY <1>9 DEF ListFails, Fail, Fault
<1> QED
  BY <1>1, <1>2, <1>3, <1>4, <1>5, <1>6, <1>7, <1>8, <1>9 DEF FlushStep

\* A flush ends after at most seven writes, and then it has returned Ok, or a
\* write failed, or a row of it is one that the Parquet writer rejects; its rows
\* are given back unless the process died (flush_iceberg_buffer).
THEOREM FlushesEnd == Spec => [][FlushAdvances]_vars
<1>1. Init => InHand
  BY DEF Init, InHand
<1>2. InHand /\ [Next]_vars => InHand'
  BY InHandStep
<1>3. ASSUME InHand, Next PROVE FlushAdvances \/ UNCHANGED vars
  <2>1. CASE FlushStep
    BY <1>3, <2>1, FlushStepAdvances
  <2>2. CASE Crash
    <3>1. ~FlushStep \/ WritesLeft' < WritesLeft
      BY <1>3, FlushStepAdvances DEF FlushAdvances
    <3> QED
      BY <1>3, <2>2, <3>1 DEF Crash, Fault, InHand, FlushAdvances, EndsWell, WritesLeft
  <2>3. CASE ~FlushStep /\ pc = "idle"
    BY <1>3, <2>3 DEF InHand, FlushAdvances, WritesLeft
  <2>4. \A batch \in SUBSET (Row \ used), timeIsUp \in BOOLEAN : Insert(batch, timeIsUp) => pc = "idle"
    BY DEF Insert
  <2>5. FlushBuffer \/ FlushTable \/ Read => pc = "idle"
    BY DEF FlushBuffer, FlushTable, Read
  <2> QED
    BY <1>3, <2>1, <2>2, <2>3, <2>4, <2>5 DEF Next
<1>4. InHand /\ [Next]_vars => [FlushAdvances]_vars
  BY <1>3
<1> QED
  BY <1>1, <1>2, <1>4, PTL DEF Spec
=============================================================================
