-------------------------- MODULE QueryServiceProofs --------------------------
(***************************************************************************)
(* What clients of the asynchronous queries can rely on, for any number of *)
(* clients, queries, tables and statements and any size of the cache.      *)
(***************************************************************************)
EXTENDS QueryService, SequenceLemmas

Steps == {"none", "lookup", "plan", "scan", "put", "complete", "store", "fail", "done"}
CacheEntry == [sql : Sql, by : Query \cup {Nobody}, result : Seq(Contents)]

----------------------------------------------------------------------------
(* The cache as a list.                                                    *)

\* No two entries of c have the same statement.
Distinct(c) == \A i, j \in 1..Len(c) : c[i].sql = c[j].sql => i = j

\* Every entry of c is one of d.
Within(c, d) == \A i \in 1..Len(c) : \E j \in 1..Len(d) : c[i] = d[j]

\* r is a list of distinct entries, each one of c at a position in I.
Filtered(r, c, I) ==
    /\ r \in Seq(CacheEntry) /\ Distinct(r) /\ Len(r) <= Len(c)
    /\ \A k \in 1..Len(r) : \E i \in I \cap (1..Len(c)) : r[k] = c[i]

\* e is a list of distinct entries, each from c or from d.
Joined(e, c, d) ==
    /\ e \in Seq(CacheEntry) /\ Distinct(e) /\ Len(e) = Len(c) + Len(d)
    /\ \A i \in 1..Len(e) : \/ \E k \in 1..Len(c) : e[i] = c[k]
                            \/ \E k \in 1..Len(d) : e[i] = d[k]

\* Filtering keeps entries, their order and so their being distinct.
LEMMA RetainedCache ==
    ASSUME NEW c \in Seq(CacheEntry), Distinct(c), NEW I
    PROVE  Filtered(Retained(c, I), c, I)
<1> DEFINE r == Retained(c, I)
<1>1. r \in Seq(CacheEntry) /\ Picked(r, c, I, Len(c))
  BY RetainedPicks
<1> HIDE DEF r
<1>2. PICK pos \in Seq(Nat) : Picks(pos, r, c, I, Len(c))
  BY <1>1 DEF Picked
<1>3. \A k \in 1..Len(r) : pos[k] \in I \cap (1..Len(c)) /\ r[k] = c[pos[k]]
  BY <1>2 DEF Picks
<1>4. Distinct(r)
  <2> SUFFICES ASSUME NEW j \in 1..Len(r), NEW k \in 1..Len(r), r[j].sql = r[k].sql PROVE j = k
    BY DEF Distinct
  <2>1. pos[j] = pos[k]
    BY <1>3 DEF Distinct
  <2>2. pos[j] \in Nat /\ ~ (j < k) /\ ~ (k < j)
    BY <1>2, <1>3, <2>1 DEF Picks
  <2> QED
    BY <2>2
<1>5. Len(r) <= Len(c)
  <2>1. Len(r) + Len(Retained(c, (1..Len(c)) \ I)) = Len(c)
    BY RetainedLength DEF r
  <2>2. Retained(c, (1..Len(c)) \ I) \in Seq(CacheEntry)
    BY RetainedPicks
  <2>3. Len(r) \in Nat /\ Len(Retained(c, (1..Len(c)) \ I)) \in Nat /\ Len(c) \in Nat
    BY <1>1, <2>2
  <2> QED
    BY <2>1, <2>3
<1> QED
  BY <1>1, <1>3, <1>4, <1>5 DEF r, Filtered

\* Lists without a statement in common stay distinct when they are joined.
LEMMA JoinedDistinct ==
    ASSUME NEW c \in Seq(CacheEntry), NEW d \in Seq(CacheEntry), Distinct(c), Distinct(d),
           \A i \in 1..Len(c) : \A j \in 1..Len(d) : c[i].sql # d[j].sql
    PROVE  Joined(c \o d, c, d)
<1> DEFINE e == c \o d
<1>1. e \in Seq(CacheEntry) /\ Len(e) = Len(c) + Len(d) /\ Len(c) \in Nat /\ Len(d) \in Nat
  OBVIOUS
<1>2. \A i \in 1..Len(e) : \/ i \in 1..Len(c) /\ e[i] = c[i]
                           \/ i - Len(c) \in 1..Len(d) /\ e[i] = d[i - Len(c)]
  OBVIOUS
<1> HIDE DEF e
<1>3. Distinct(e)
  <2> SUFFICES ASSUME NEW i \in 1..Len(e), NEW j \in 1..Len(e), e[i].sql = e[j].sql PROVE i = j
    BY DEF Distinct
  <2>1. CASE i \in 1..Len(c) /\ e[i] = c[i]
    <3>1. j \in 1..Len(c) /\ e[j] = c[j]
      BY <1>2, <2>1
    <3> QED
      BY <2>1, <3>1 DEF Distinct
  <2>2. CASE i - Len(c) \in 1..Len(d) /\ e[i] = d[i - Len(c)]
    <3>1. j - Len(c) \in 1..Len(d) /\ e[j] = d[j - Len(c)]
      BY <1>2, <2>2
    <3>2. i - Len(c) = j - Len(c)
      BY <2>2, <3>1 DEF Distinct
    <3> QED
      BY <1>1, <3>2
  <2> QED
    BY <1>2, <2>1, <2>2
<1> QED
  BY <1>1, <1>2, <1>3 DEF e, Joined

GoodCache == cache \in Seq(CacheEntry) /\ Len(cache) <= Capacity /\ Distinct(cache)

\* A hit moves an entry and changes no other.
LEMMA TouchedGood ==
    ASSUME GoodCache, NEW s
    PROVE  /\ Touched(s) \in Seq(CacheEntry) /\ Distinct(Touched(s))
           /\ Len(Touched(s)) = Len(cache) /\ Within(Touched(s), cache)
<1> DEFINE I == { i \in 1..Len(cache) : cache[i].sql = s }
           J == { i \in 1..Len(cache) : cache[i].sql # s }
<1>1. J = (1..Len(cache)) \ I
  OBVIOUS
<1>2. Entry(s) = Retained(cache, I) /\ Others(s) = Retained(cache, J) /\ Touched(s) = Entry(s) \o Others(s)
  BY DEF Entry, Others, Touched
<1>3. \A i \in I : cache[i].sql = s
  OBVIOUS
<1>4. \A i \in J : cache[i].sql # s
  OBVIOUS
<1> HIDE DEF I, J
<1>5. Filtered(Entry(s), cache, I) /\ Filtered(Others(s), cache, J)
  BY <1>2, RetainedCache DEF GoodCache
<1>6. Len(Entry(s)) + Len(Others(s)) = Len(cache)
  BY <1>1, <1>2, RetainedLength DEF GoodCache
<1>7. \A i \in 1..Len(Entry(s)) : \A j \in 1..Len(Others(s)) : Entry(s)[i].sql # Others(s)[j].sql
  BY <1>3, <1>4, <1>5 DEF Filtered
<1>8. Joined(Touched(s), Entry(s), Others(s))
  BY <1>2, <1>5, <1>7, JoinedDistinct DEF Filtered
<1>9. Within(Touched(s), cache)
  <2> SUFFICES ASSUME NEW i \in 1..Len(Touched(s))
               PROVE  \E j \in 1..Len(cache) : Touched(s)[i] = cache[j]
    BY DEF Within
  <2>1. CASE \E k \in 1..Len(Entry(s)) : Touched(s)[i] = Entry(s)[k]
    BY <1>5, <2>1 DEF Filtered
  <2>2. CASE \E k \in 1..Len(Others(s)) : Touched(s)[i] = Others(s)[k]
    BY <1>5, <2>2 DEF Filtered
  <2> QED
    BY <1>8, <2>1, <2>2 DEF Joined
<1> QED
  BY <1>6, <1>8, <1>9 DEF Joined

\* put replaces the entry of its statement and stays within the capacity.
LEMMA CachePutGood ==
    ASSUME GoodCache, NEW e \in CacheEntry
    PROVE  /\ CachePut(e) \in Seq(CacheEntry) /\ Distinct(CachePut(e))
           /\ Len(CachePut(e)) <= Capacity
           /\ \A i \in 1..Len(CachePut(e)) :
                 CachePut(e)[i] = e \/ \E j \in 1..Len(cache) : CachePut(e)[i] = cache[j]
<1> DEFINE J == { i \in 1..Len(cache) : cache[i].sql # e.sql }
           rest == Others(e.sql)
           one == <<e>>
           new == one \o rest
<1>1. rest = Retained(cache, J) /\ \A i \in J : cache[i].sql # e.sql
  BY DEF Others
<1>2. CachePut(e) = IF Len(new) > Capacity THEN Front(new) ELSE new
  BY DEF CachePut
<1>3. /\ one \in Seq(CacheEntry) /\ Len(one) = 1 /\ one[1] = e /\ Distinct(one)
  BY DEF Distinct
<1> HIDE DEF J, rest, one
<1>4. Filtered(rest, cache, J)
  BY <1>1, RetainedCache DEF GoodCache
<1>5. \A i \in 1..Len(one) : \A j \in 1..Len(rest) : one[i].sql # rest[j].sql
  BY <1>1, <1>3, <1>4 DEF Filtered
<1>6. Joined(new, one, rest)
  BY <1>3, <1>4, <1>5, JoinedDistinct DEF Filtered
<1> HIDE DEF new
<1>7. \A i \in 1..Len(new) : new[i] = e \/ \E j \in 1..Len(cache) : new[i] = cache[j]
  BY <1>3, <1>4, <1>6 DEF Joined, Filtered
<1>8. /\ new \in Seq(CacheEntry) /\ Distinct(new) /\ Len(new) \in Nat /\ Capacity \in Nat \ {0}
      /\ Len(new) <= Capacity + 1
  <2>1. Len(new) = 1 + Len(rest) /\ Len(rest) \in Nat /\ Len(cache) \in Nat /\ Len(rest) <= Len(cache)
    BY <1>3, <1>4, <1>6 DEF Joined, Filtered, GoodCache
  <2> QED
    BY <1>6, <2>1, CapacityAssumption DEF Joined, GoodCache
<1>9. CASE Len(new) <= Capacity
  BY <1>2, <1>7, <1>8, <1>9
<1>10. CASE Len(new) > Capacity
  <2>1. CachePut(e) = Front(new) /\ Len(new) = Capacity + 1
    BY <1>2, <1>8, <1>10
  <2>2. /\ Front(new) \in Seq(CacheEntry) /\ Len(Front(new)) = Capacity
        /\ \A i \in 1..Len(Front(new)) : i \in 1..Len(new) /\ Front(new)[i] = new[i]
    BY <1>8, <2>1 DEF Front
  <2>3. Distinct(Front(new))
    BY <1>8, <2>2 DEF Distinct
  <2> QED
    BY <1>7, <1>8, <2>1, <2>2, <2>3
<1> QED
  BY <1>8, <1>9, <1>10

\* An invalidation leaves the entries that do not depend on the table.
LEMMA InvalidatedGood ==
    ASSUME GoodCache, NEW t
    PROVE  /\ Invalidated(t) \in Seq(CacheEntry) /\ Distinct(Invalidated(t))
           /\ Len(Invalidated(t)) <= Capacity
           /\ \A i \in 1..Len(Invalidated(t)) : \E j \in 1..Len(cache) :
                 Invalidated(t)[i] = cache[j] /\ t \notin Dependencies(cache[j].sql)
<1> DEFINE I == { i \in 1..Len(cache) : t \notin Dependencies(cache[i].sql) }
<1>1. Invalidated(t) = Retained(cache, I) /\ \A i \in I : t \notin Dependencies(cache[i].sql)
  BY DEF Invalidated
<1> HIDE DEF I
<1>2. Filtered(Invalidated(t), cache, I)
  BY <1>1, RetainedCache DEF GoodCache
<1>3. Len(Invalidated(t)) \in Nat /\ Len(cache) \in Nat /\ Capacity \in Nat
  BY <1>2, CapacityAssumption DEF GoodCache, Filtered
<1> QED
  BY <1>1, <1>2, <1>3 DEF GoodCache, Filtered
----------------------------------------------------------------------------
(* The invariant.                                                          *)

Statuses == {"unknown", "Running", "Completed", "Failed", "Cancelled"}

Typed ==
    /\ exists \subseteq Table
    /\ data \in [Table -> Contents]
    /\ status \in [Query -> Statuses]
    /\ results \subseteq Query
    /\ sql \in [Query -> Sql \cup {Nobody}]
    /\ task \in [Query -> [pc : Steps, read : Seq(Contents)]]
    /\ client \in [Client -> Page]
    /\ told \subseteq Query /\ disturbed \subseteq Query /\ requests \in Nat

\* A task has one statement from its submission on, reads the tables of its
\* FROM clause from left to right, and stores a result only after its tracker
\* was set to Completed.
Control(q) ==
    /\ status[q] = "unknown" => task[q].pc = "none"
    /\ task[q].pc # "none" => sql[q] \in Sql
    /\ task[q].pc \in {"none", "lookup", "plan"} => task[q].read = <<>>
    /\ task[q].pc = "scan" => Len(task[q].read) < Len(From[sql[q]])
    /\ task[q].pc = "put" => Len(task[q].read) = Len(From[sql[q]])
    /\ task[q].pc = "store" => status[q] \in {"Completed", "Cancelled"}
    /\ q \in results => task[q].pc = "done" /\ status[q] \in {"Completed", "Cancelled"}

\* x is what a reader of t finds now, or one of the two known races put it
\* out of date.
Held(t, x, by) ==
    \/ t \in exists /\ x \in {InMemory(t), Stored(t)}
    \/ <<by, t>> \in late
    \/ t \in halfEdited

Fresh(s, r, by) == \A k \in 1..Len(r) : Held(From[s][k], r[k], by)

\* What a running query has read so far.
ReadFresh(q) == task[q].pc \in {"scan", "put"} => Fresh(sql[q], task[q].read, q)

\* An entry has a result for every table of its statement.
EntryOK(e) == Len(e.result) = Len(From[e.sql]) /\ Fresh(e.sql, e.result, e.by)

CacheOK == GoodCache /\ \A i \in 1..Len(cache) : EntryOK(cache[i])

QInv ==
    /\ Typed
    /\ \A q \in Query : Control(q)
    /\ \A q \in Query : ReadFresh(q)
    /\ CacheOK

LEMMA QInvImpliesTypeOK == QInv => TypeOK
<1> SUFFICES ASSUME QInv PROVE TypeOK
  OBVIOUS
<1>1. ASSUME NEW i \in 1..Len(cache)
      PROVE  /\ cache[i].sql \in Sql /\ cache[i].by \in Query \cup {Nobody}
             /\ cache[i].result \in [1..Len(From[cache[i].sql]) -> Contents]
  <2>1. cache[i] \in CacheEntry
    BY DEF QInv, CacheOK, GoodCache
  <2>2. cache[i].result \in Seq(Contents) /\ Len(cache[i].result) = Len(From[cache[i].sql])
    BY <2>1 DEF QInv, CacheOK, EntryOK, CacheEntry
  <2> QED
    BY <2>1, <2>2 DEF CacheEntry
<1>2. Distinct(cache) /\ Len(cache) <= Capacity
  BY DEF QInv, CacheOK, GoodCache
<1> QED
  BY <1>1, <1>2 DEF QInv, Typed, TypeOK, Statuses, Distinct

LEMMA QInvInit == Init => QInv
<1> SUFFICES ASSUME Init PROVE QInv
  OBVIOUS
<1>1. Typed
  <2>1. FreshPage \in Page
    BY DEF FreshPage, Page
  <2> QED
    BY <2>1 DEF Init, Typed, Statuses, Steps, Contents
<1>2. ASSUME NEW q \in Query PROVE Control(q) /\ ReadFresh(q)
  BY DEF Init, Control, ReadFresh
<1>3. CacheOK
  <2>1. cache = <<>> /\ Len(cache) = 0 /\ cache \in Seq(CacheEntry)
    BY DEF Init
  <2> QED
    BY <2>1, CapacityAssumption DEF CacheOK, GoodCache, Distinct
<1> QED
  BY <1>1, <1>2, <1>3 DEF QInv

\* The cache after a step, whose entries were looked at one by one.
LEMMA NewCacheOK ==
    ASSUME cache' \in Seq(CacheEntry), Distinct(cache'), Len(cache') <= Capacity,
           \A i \in 1..Len(cache') : \E e \in CacheEntry : cache'[i] = e /\ EntryOK(e)'
    PROVE  CacheOK'
<1>1. ASSUME NEW i \in 1..Len(cache') PROVE EntryOK(cache[i])'
  <2>1. PICK e \in CacheEntry : cache'[i] = e /\ EntryOK(e)'
    OBVIOUS
  <2> QED
    BY <2>1 DEF EntryOK, Fresh, Held
<1> QED
  BY <1>1 DEF CacheOK, GoodCache

----------------------------------------------------------------------------
(* Statements in one critical section.                                     *)

\* What was held stays held, so what was read stays as fresh as it was.
LEMMA FreshKept ==
    ASSUME NEW s, NEW r, NEW by, Fresh(s, r, by),
           \A k \in 1..Len(r) : Held(From[s][k], r[k], by) => Held(From[s][k], r[k], by)'
    PROVE  Fresh(s, r, by)'
  BY DEF Fresh

\* A step that leaves the tasks alone and keeps what is held.
LEMMA WorldStep ==
    ASSUME QInv, UNCHANGED <<status, results, sql, task>>,
           \A t, x, by : Held(t, x, by) => Held(t, x, by)'
    PROVE  /\ \A q \in Query : Control(q)' /\ ReadFresh(q)'
           /\ \A e : EntryOK(e) => EntryOK(e)'
<1>1. ASSUME NEW q \in Query PROVE Control(q)' /\ ReadFresh(q)'
  BY DEF QInv, Control, ReadFresh, Fresh
<1>2. ASSUME NEW e, EntryOK(e) PROVE EntryOK(e)'
  BY <1>2 DEF EntryOK, Fresh
<1> QED
  BY <1>1, <1>2

LEMMA SameWorld ==
    ASSUME exists \subseteq exists', UNCHANGED <<data, late, halfEdited>>
    PROVE  \A t, x, by : Held(t, x, by) => Held(t, x, by)'
  BY DEF Held, InMemory, Stored

\* A statement leaves the pages alone.
LEMMA RequestTyped ==
    ASSUME QInv, Request, UNCHANGED pages
    PROVE  /\ requests' \in Nat /\ UNCHANGED <<client, told, disturbed>>
           /\ client' \in [Client -> Page] /\ told' \subseteq Query /\ disturbed' \subseteq Query
  BY DEF QInv, Typed, Request, pages

LEMMA CreateTablePreserves ==
    ASSUME QInv, NEW t \in Table, CreateTable(t)
    PROVE  QInv'
<1>1. \A u, x, by : Held(u, x, by) => Held(u, x, by)'
  BY SameWorld DEF CreateTable
<1>2. /\ \A q \in Query : Control(q)' /\ ReadFresh(q)'
      /\ \A e : EntryOK(e) => EntryOK(e)'
  BY <1>1, WorldStep DEF CreateTable
<1>3. Typed'
  BY RequestTyped DEF CreateTable, QInv, Typed
<1>4. CacheOK'
  BY <1>2 DEF CreateTable, QInv, CacheOK, GoodCache
<1> QED
  BY <1>2, <1>3, <1>4 DEF QInv
\* A write to t changes what readers of t find, of no other table, and every
\* query that has read t is in late.
LEMMA WriteKeeps ==
    ASSUME QInv, NEW t \in exists, NEW new, Write(t, new), exists' = exists,
           halfEdited \subseteq halfEdited', UNCHANGED <<status, results, sql, task>>
    PROVE  /\ \A u, x, by : u # t /\ Held(u, x, by) => Held(u, x, by)'
           /\ \A q \in Query : Control(q)' /\ ReadFresh(q)'
<1>1. late \subseteq late' /\ \A u \in Table : u # t => data'[u] = data[u]
  BY DEF Write, QInv, Typed
<1>2. ASSUME NEW u, NEW x, NEW by, u # t, Held(u, x, by) PROVE Held(u, x, by)'
  BY <1>1, <1>2 DEF Held, InMemory, Stored, QInv, Typed
<1>3. ASSUME NEW q \in Query PROVE Control(q)'
  BY DEF QInv, Control
<1>4. ASSUME NEW q \in Query PROVE ReadFresh(q)'
  <2> SUFFICES ASSUME task[q].pc \in {"scan", "put"}, NEW k \in 1..Len(task[q].read)
               PROVE  Held(From[sql[q]][k], task[q].read[k], q)'
    BY DEF ReadFresh, Fresh
  <2>1. Held(From[sql[q]][k], task[q].read[k], q)
    BY DEF QInv, ReadFresh, Fresh
  <2>2. CASE From[sql[q]][k] = t
    <3>1. HasRead(q, t)
      BY <2>2 DEF HasRead
    <3>2. <<q, t>> \in Racing({t})
      BY <3>1 DEF Racing
    <3> QED
      BY <2>2, <3>2 DEF Write, Held
  <2>3. CASE From[sql[q]][k] # t
    BY <1>2, <2>1, <2>3
  <2> QED
    BY <2>2, <2>3
<1> QED
  BY <1>2, <1>3, <1>4

LEMMA FromTyped ==
    ASSUME NEW s \in Sql
    PROVE  From[s] \in Seq(Table) /\ Len(From[s]) \in Nat /\ Len(From[s]) >= 1
<1>1. From[s] \in Seq(Table) /\ From[s] # <<>>
  BY FromAssumption
<1> QED
  BY <1>1

\* INSERT, UPDATE and DELETE drop the entries that depend on the table.
LEMMA InvalidatingWrite ==
    ASSUME QInv, NEW t \in exists, NEW new \in Contents, Write(t, new), exists' = exists,
           halfEdited' = halfEdited, cache' = Invalidated(t),
           Request, UNCHANGED <<status, results, sql, task, pages>>
    PROVE  QInv'
<1>1. /\ \A u, x, by : u # t /\ Held(u, x, by) => Held(u, x, by)'
      /\ \A q \in Query : Control(q)' /\ ReadFresh(q)'
  BY WriteKeeps
<1>2. Typed'
  BY RequestTyped DEF Write, QInv, Typed
<1>3. /\ cache' \in Seq(CacheEntry) /\ Distinct(cache') /\ Len(cache') <= Capacity
      /\ \A i \in 1..Len(cache') : \E j \in 1..Len(cache) :
            cache'[i] = cache[j] /\ t \notin Dependencies(cache[j].sql)
  BY InvalidatedGood DEF QInv, CacheOK
<1>4. ASSUME NEW e \in CacheEntry, EntryOK(e), t \notin Dependencies(e.sql)
      PROVE  EntryOK(e)'
  <2>1. \A k \in 1..Len(e.result) : From[e.sql][k] # t
    BY <1>4, FromTyped DEF EntryOK, CacheEntry, Dependencies, ToSet
  <2> QED
    BY <1>1, <1>4, <2>1 DEF EntryOK, Fresh
<1>5. \A i \in 1..Len(cache') : \E e \in CacheEntry : cache'[i] = e /\ EntryOK(e)'
  <2> SUFFICES ASSUME NEW i \in 1..Len(cache')
               PROVE  \E e \in CacheEntry : cache'[i] = e /\ EntryOK(e)'
    OBVIOUS
  <2>1. PICK j \in 1..Len(cache) : cache'[i] = cache[j] /\ t \notin Dependencies(cache[j].sql)
    BY <1>3
  <2>2. cache[j] \in CacheEntry /\ EntryOK(cache[j])
    BY DEF QInv, CacheOK, GoodCache
  <2>3. PICK e \in CacheEntry : e = cache[j]
    BY <2>2
  <2> QED
    BY <1>4, <2>1, <2>2, <2>3
<1> QED
  BY <1>1, <1>2, <1>3, <1>5, NewCacheOK DEF QInv

\* One more write leaves contents that are typed.
LEMMA CountedTyped ==
    ASSUME QInv, NEW t \in Table
    PROVE  /\ [data[t] EXCEPT !.inserts = @ + 1] \in Contents
           /\ [data[t] EXCEPT !.edits = @ + 1] \in Contents
<1>1. data[t] \in [drops : Nat, inserts : Nat, edits : Nat]
  BY DEF QInv, Typed, Contents
<1>2. data[t].inserts + 1 \in Nat /\ data[t].edits + 1 \in Nat
  BY <1>1
<1> QED
  BY <1>1, <1>2 DEF Contents

LEMMA InsertPreserves ==
    ASSUME QInv, NEW t \in Table, Insert(t)
    PROVE  QInv'
<1>1. [data[t] EXCEPT !.inserts = @ + 1] \in Contents
  BY CountedTyped
<1> QED
  BY <1>1, InvalidatingWrite DEF Insert

LEMMA EditPreserves ==
    ASSUME QInv, NEW t \in Table, Edit(t)
    PROVE  QInv'
<1>1. [data[t] EXCEPT !.edits = @ + 1] \in Contents
  BY CountedTyped
<1> QED
  BY <1>1, InvalidatingWrite DEF Edit

\* The failed UPDATE is why an entry may be stale without a race.
LEMMA EditFailsPreserves ==
    ASSUME QInv, NEW t \in Table, EditFails(t)
    PROVE  QInv'
<1> DEFINE new == [data[t] EXCEPT !.edits = @ + 1]
<1>1. new \in Contents /\ t \in exists /\ Write(t, new)
  BY CountedTyped DEF EditFails
<1>2. /\ \A u, x, by : u # t /\ Held(u, x, by) => Held(u, x, by)'
      /\ \A q \in Query : Control(q)' /\ ReadFresh(q)'
  BY <1>1, WriteKeeps DEF EditFails
<1>3. \A x, by : Held(t, x, by)'
  BY DEF EditFails, Held
<1>4. Typed'
  BY <1>1, RequestTyped DEF EditFails, Write, QInv, Typed
<1>5. \A e : EntryOK(e) => EntryOK(e)'
  BY <1>2, <1>3 DEF EntryOK, Fresh
<1>6. CacheOK'
  BY <1>5 DEF EditFails, QInv, CacheOK, GoodCache
<1> QED
  BY <1>2, <1>4, <1>6 DEF QInv

LEMMA DropAllTablesPreserves ==
    ASSUME QInv, DropAllTables
    PROVE  QInv'
<1>1. Typed'
  <2>1. \A t \in Table : data'[t] \in Contents
    BY DEF DropAllTables, QInv, Typed, Contents
  <2>2. data' \in [Table -> Contents]
    BY <2>1 DEF DropAllTables
  <2> QED
    BY <2>2, RequestTyped DEF DropAllTables, QInv, Typed
<1>2. CacheOK'
  <2>1. cache' = <<>> /\ Len(cache') = 0 /\ cache' \in Seq(CacheEntry)
    BY DEF DropAllTables
  <2> QED
    BY <2>1, CapacityAssumption DEF CacheOK, GoodCache, Distinct
<1>3. ASSUME NEW q \in Query PROVE Control(q)'
  BY DEF DropAllTables, QInv, Control
<1>4. ASSUME NEW q \in Query PROVE ReadFresh(q)'
  <2> SUFFICES ASSUME task[q].pc \in {"scan", "put"}, NEW k \in 1..Len(task[q].read)
               PROVE  Held(From[sql[q]][k], task[q].read[k], q)'
    BY DEF DropAllTables, ReadFresh, Fresh
  <2> DEFINE t == From[sql[q]][k]
  <2>1. Held(t, task[q].read[k], q)
    BY DEF QInv, ReadFresh, Fresh
  <2>2. CASE t \in exists
    <3>1. HasRead(q, t)
      BY DEF HasRead
    <3>2. <<q, t>> \in Racing(exists)
      BY <2>2, <3>1 DEF Racing
    <3> QED
      BY <3>2 DEF DropAllTables, Held
  <2>3. CASE t \notin exists
    BY <2>1, <2>3 DEF DropAllTables, Held
  <2> QED
    BY <2>2, <2>3
<1> QED
  BY <1>1, <1>2, <1>3, <1>4 DEF QInv
\* Every entry of c is in new or one of d.
Mixed(c, new, d) == \A i \in 1..Len(c) : c[i] \in new \/ \E j \in 1..Len(d) : c[i] = d[j]

AllOK(new) == \A e \in new : EntryOK(e)

\* A cache whose entries are old ones and new ones that are right.
LEMMA CacheStep ==
    ASSUME QInv, UNCHANGED <<exists, data, late, halfEdited>>,
           cache' \in Seq(CacheEntry), Distinct(cache'), Len(cache') <= Capacity,
           NEW new, AllOK(new), Mixed(cache', new, cache)
    PROVE  CacheOK'
<1>1. \A d : EntryOK(d) => EntryOK(d)'
  BY SameWorld DEF EntryOK, Fresh
<1>2. \A i \in 1..Len(cache') : \E d \in CacheEntry : cache'[i] = d /\ EntryOK(d)'
  <2> SUFFICES ASSUME NEW i \in 1..Len(cache')
               PROVE  \E d \in CacheEntry : cache'[i] = d /\ EntryOK(d)'
    OBVIOUS
  <2>1. PICK d \in CacheEntry : cache'[i] = d
    OBVIOUS
  <2>2. EntryOK(d)
    BY <2>1 DEF QInv, CacheOK, Mixed, AllOK
  <2> QED
    BY <1>1, <2>1, <2>2
<1> QED
  BY <1>2, NewCacheOK

\* A cache hit.
LEMMA HitOK ==
    ASSUME QInv, UNCHANGED <<exists, data, late, halfEdited>>, NEW s, cache' = Touched(s)
    PROVE  CacheOK'
<1>1. /\ cache' \in Seq(CacheEntry) /\ Distinct(cache')
      /\ Len(cache') <= Capacity /\ Within(cache', cache)
  BY TouchedGood DEF QInv, CacheOK, GoodCache
<1>2. AllOK({}) /\ Mixed(cache', {}, cache)
  BY <1>1 DEF AllOK, Mixed, Within
<1> QED
  BY <1>1, <1>2, CacheStep

\* A result that enters the cache.
LEMMA PutOK ==
    ASSUME QInv, UNCHANGED <<exists, data, late, halfEdited>>,
           NEW e \in CacheEntry, EntryOK(e), cache' = CachePut(e)
    PROVE  CacheOK'
<1>1. /\ cache' \in Seq(CacheEntry) /\ Distinct(cache') /\ Len(cache') <= Capacity
      /\ \A i \in 1..Len(cache') :
            cache'[i] = e \/ \E j \in 1..Len(cache) : cache'[i] = cache[j]
  BY CachePutGood DEF QInv, CacheOK
<1>2. AllOK({e}) /\ Mixed(cache', {e}, cache)
  BY <1>1 DEF AllOK, Mixed
<1> QED
  BY <1>1, <1>2, CacheStep

LEMMA SelectAtOncePreserves ==
    ASSUME QInv, NEW s \in Sql, SelectAtOnce(s)
    PROVE  QInv'
<1>0. Request /\ UNCHANGED <<exists, data, status, results, sql, task, pages, late, halfEdited>>
  BY DEF SelectAtOnce
<1>1. \A q \in Query : Control(q)' /\ ReadFresh(q)'
  BY <1>0, SameWorld, WorldStep
<1>2. Typed'
  BY <1>0, RequestTyped DEF QInv, Typed
<1>3. CASE Entry(s) # <<>>
  <2>1. CacheOK'
    BY <1>0, <1>3, HitOK DEF SelectAtOnce
  <2> QED
    BY <1>1, <1>2, <2>1 DEF QInv
<1>4. CASE Entry(s) = <<>>
  <2> DEFINE r == [k \in 1..Len(From[s]) |-> InMemory(From[s][k])]
             e == [sql |-> s, by |-> Nobody, result |-> r]
  <2>1. Dependencies(s) \subseteq exists /\ cache' = CachePut(e)
    BY <1>4 DEF SelectAtOnce
  <2>2. \A k \in 1..Len(From[s]) : From[s][k] \in exists /\ From[s][k] \in Table
    BY <2>1, FromTyped DEF Dependencies, ToSet
  <2>3. r \in Seq(Contents) /\ Len(r) = Len(From[s])
    BY <2>2, FromTyped DEF InMemory, QInv, Typed
  <2>4. EntryOK(e)
    BY <2>2, <2>3 DEF EntryOK, Fresh, Held
  <2>5. e \in CacheEntry
    BY <2>3 DEF CacheEntry
  <2> HIDE DEF e
  <2>6. CacheOK'
    BY <1>0, <2>1, <2>4, <2>5, PutOK
  <2> QED
    BY <1>1, <1>2, <2>6 DEF QInv
<1> QED
  BY <1>3, <1>4
----------------------------------------------------------------------------
(* The tasks.                                                              *)

\* A step that leaves the tables and all queries but q alone.
LEMMA QueryStep ==
    ASSUME QInv, NEW q \in Query, UNCHANGED <<exists, data, late, halfEdited>>,
           \A p \in Query \ {q} : /\ task'[p] = task[p]
                                  /\ status'[p] = status[p] \/ status'[p] = "Cancelled"
                                  /\ sql'[p] = sql[p] /\ (p \in results' <=> p \in results),
           Control(q)', ReadFresh(q)', Typed', CacheOK'
    PROVE  QInv'
<1>1. ASSUME NEW p \in Query, p # q PROVE Control(p)' /\ ReadFresh(p)'
  BY <1>1, SameWorld DEF QInv, Control, ReadFresh, Fresh
<1> QED
  BY <1>1 DEF QInv

\* The cache is left alone.
LEMMA SameCache ==
    ASSUME QInv, UNCHANGED <<exists, data, late, halfEdited, cache>>
    PROVE  CacheOK'
<1>1. \A e : EntryOK(e) => EntryOK(e)'
  BY SameWorld DEF EntryOK, Fresh
<1> QED
  BY <1>1 DEF QInv, CacheOK, GoodCache

LEMMA LookupPreserves ==
    ASSUME QInv, NEW q \in Query, Lookup(q)
    PROVE  QInv'
<1>0. task[q].pc = "lookup" /\ UNCHANGED <<exists, data, status, results, sql, users, late, halfEdited>>
  BY DEF Lookup, At
<1>1. /\ task' = [task EXCEPT ![q].pc = "complete"] \/ task' = [task EXCEPT ![q].pc = "plan"]
      /\ cache' = cache \/ cache' = Touched(sql[q])
  BY DEF Lookup, Goto
<1>2. Typed'
  BY <1>0, <1>1 DEF QInv, Typed, Steps, users, pages
<1>3. /\ task'[q].pc \in {"complete", "plan"} /\ task'[q].read = task[q].read
      /\ \A p \in Query \ {q} : task'[p] = task[p]
  BY <1>1 DEF QInv, Typed
<1>4. Control(q)' /\ ReadFresh(q)'
  BY <1>0, <1>3 DEF Control, ReadFresh, QInv
<1>5. CacheOK'
  BY <1>0, <1>1, HitOK, SameCache
<1> QED
  BY <1>0, <1>2, <1>3, <1>4, <1>5, QueryStep

LEMMA PlanPreserves ==
    ASSUME QInv, NEW q \in Query, Plan(q)
    PROVE  QInv'
<1>0. /\ task[q].pc = "plan" /\ sql[q] \in Sql /\ task[q].read = <<>>
      /\ UNCHANGED <<exists, data, cache, status, results, sql, users, late, halfEdited>>
  BY DEF Plan, At, OnlyTask, QInv, Control
<1>1. task' = [task EXCEPT ![q].pc = "scan"] \/ task' = [task EXCEPT ![q].pc = "fail"]
  BY DEF Plan, Goto
<1>2. Typed'
  BY <1>0, <1>1 DEF QInv, Typed, Steps, users, pages
<1>3. /\ task'[q].pc \in {"scan", "fail"} /\ task'[q].read = task[q].read
      /\ \A p \in Query \ {q} : task'[p] = task[p]
  BY <1>1 DEF QInv, Typed
<1>4. Control(q)' /\ ReadFresh(q)'
  <2>1. Len(task'[q].read) = 0 /\ Len(From[sql[q]]) >= 1 /\ Len(From[sql[q]]) \in Nat
    BY <1>0, <1>3, FromTyped
  <2> QED
    BY <1>0, <1>3, <2>1 DEF Control, ReadFresh, Fresh, QInv
<1>5. CacheOK'
  BY <1>0, SameCache
<1> QED
  BY <1>0, <1>2, <1>3, <1>4, <1>5, QueryStep
\* One more table is read.
LEMMA ReadAsPreserves ==
    ASSUME QInv, NEW q \in Query, task[q].pc = "scan", NEW x \in Contents,
           Next1(q) \in exists, x \in {InMemory(Next1(q)), Stored(Next1(q))}, ReadAs(q, x),
           UNCHANGED <<exists, data, cache, status, results, sql, users, late, halfEdited>>
    PROVE  QInv'
<1> DEFINE read == task[q].read
<1>1. /\ sql[q] \in Sql /\ read \in Seq(Contents) /\ Len(read) < Len(From[sql[q]])
      /\ Len(read) \in Nat /\ Len(From[sql[q]]) \in Nat
  BY FromTyped DEF QInv, Typed, Control
<1>2. /\ task'[q].pc = IF Len(read) + 1 = Len(From[sql[q]]) THEN "put" ELSE "scan"
      /\ task'[q].read = Append(read, x)
      /\ \A p \in Query \ {q} : task'[p] = task[p]
  BY DEF ReadAs, QInv, Typed
<1>3. Append(read, x) \in Seq(Contents) /\ Len(Append(read, x)) = Len(read) + 1
  BY <1>1
<1>4. Typed'
  <2>1. task' \in [Query -> [pc : Steps, read : Seq(Contents)]]
    BY <1>3 DEF ReadAs, QInv, Typed, Steps, users, pages
  <2> QED
    BY <2>1 DEF QInv, Typed, users, pages
<1>5. Control(q)'
  BY <1>1, <1>2, <1>3 DEF QInv, Control
<1>6. ReadFresh(q)'
  <2> SUFFICES ASSUME NEW k \in 1..(Len(read) + 1)
               PROVE  Held(From[sql[q]][k], Append(read, x)[k], q)
    BY <1>2, <1>3 DEF ReadFresh, Fresh, Held, InMemory, Stored
  <2>1. CASE k = Len(read) + 1
    BY <1>1, <2>1 DEF Held, Next1
  <2>2. CASE k # Len(read) + 1
    <3>1. k \in 1..Len(read) /\ Append(read, x)[k] = read[k]
      BY <1>1, <2>2
    <3> QED
      BY <3>1 DEF QInv, ReadFresh, Fresh
  <2> QED
    BY <2>1, <2>2
<1>7. CacheOK'
  BY SameCache
<1> QED
  BY <1>2, <1>4, <1>5, <1>6, <1>7, QueryStep

LEMMA ScanPreserves ==
    ASSUME QInv, NEW q \in Query, Scan(q) \/ IndexScan(q)
    PROVE  QInv'
<1>1. \A t \in exists : InMemory(t) \in Contents /\ Stored(t) \in Contents
  BY DEF QInv, Typed, InMemory, Stored, Contents
<1> QED
  BY <1>1, ReadAsPreserves DEF Scan, IndexScan, At, OnlyTask

\* A task that goes on to another step without reading or caching.
LEMMA GotoPreserves ==
    ASSUME QInv, NEW q \in Query, NEW step \in {"fail", "done", "store"}, Goto(q, step),
           task[q].pc # "none", task[q].pc # "done",
           UNCHANGED <<exists, data, cache, sql, users, late, halfEdited>>,
           status' \in [Query -> Statuses], results' \subseteq Query,
           \A p \in Query \ {q} : status'[p] = status[p] /\ (p \in results' <=> p \in results),
           status'[q] # "unknown",
           step = "store" => status'[q] \in {"Completed", "Cancelled"},
           q \in results' => step = "done" /\ status'[q] \in {"Completed", "Cancelled"}
    PROVE  QInv'
<1>1. Typed'
  BY DEF Goto, QInv, Typed, Steps, users, pages
<1>2. task'[q].pc = step /\ \A p \in Query \ {q} : task'[p] = task[p]
  BY DEF Goto, QInv, Typed
<1>3. Control(q)' /\ ReadFresh(q)'
  BY <1>2 DEF QInv, Control, ReadFresh
<1>4. CacheOK'
  BY SameCache
<1> QED
  BY <1>1, <1>2, <1>3, <1>4, QueryStep
LEMMA TaskEndPreserves ==
    ASSUME QInv, NEW q \in Query, ScanFails(q) \/ Complete(q) \/ StoreResult(q) \/ Fail(q)
    PROVE  QInv'
<1>1. status[q] = "unknown" => task[q].pc = "none"
  BY DEF QInv, Control
<1>2. q \in results => task[q].pc = "done"
  BY DEF QInv, Control
<1>3. status \in [Query -> Statuses] /\ results \subseteq Query
  BY DEF QInv, Typed
<1>4. CASE ScanFails(q)
  <2>1. /\ Goto(q, "fail") /\ task[q].pc \in {"scan", "put"}
        /\ UNCHANGED <<exists, data, cache, status, results, sql, users, late, halfEdited>>
    BY <1>4 DEF ScanFails, At, OnlyTask
  <2> QED
    BY <1>1, <1>2, <1>3, <2>1, GotoPreserves
<1>5. CASE Complete(q)
  <2>1. /\ Goto(q, "store") /\ task[q].pc = "complete"
        /\ UNCHANGED <<exists, data, cache, results, sql, users, late, halfEdited>>
        /\ status' = [status EXCEPT ![q] = "Completed"]
    BY <1>5 DEF Complete, At
  <2>2. /\ status' \in [Query -> Statuses] /\ status'[q] = "Completed"
        /\ \A p \in Query \ {q} : status'[p] = status[p]
    BY <1>3, <2>1 DEF Statuses
  <2> QED
    BY <1>2, <1>3, <2>1, <2>2, GotoPreserves
<1>6. CASE StoreResult(q)
  <2>1. /\ Goto(q, "done") /\ task[q].pc = "store" /\ results' = results \cup {q}
        /\ UNCHANGED <<exists, data, cache, status, sql, users, late, halfEdited>>
    BY <1>6 DEF StoreResult, At
  <2>2. status[q] \in {"Completed", "Cancelled"}
    BY <2>1 DEF QInv, Control
  <2> QED
    BY <1>3, <2>1, <2>2, GotoPreserves
<1>7. CASE Fail(q)
  <2>1. /\ Goto(q, "done") /\ task[q].pc = "fail"
        /\ UNCHANGED <<exists, data, cache, results, sql, users, late, halfEdited>>
        /\ status' = [status EXCEPT ![q] = "Failed"]
    BY <1>7 DEF Fail, At
  <2>2. /\ status' \in [Query -> Statuses] /\ status'[q] = "Failed"
        /\ \A p \in Query \ {q} : status'[p] = status[p]
    BY <1>3, <2>1 DEF Statuses
  <2> QED
    BY <1>2, <1>3, <2>1, <2>2, GotoPreserves
<1> QED
  BY <1>4, <1>5, <1>6, <1>7

\* What a query caches is as fresh as what it read.
LEMMA FillCachePreserves ==
    ASSUME QInv, NEW q \in Query, FillCache(q)
    PROVE  QInv'
<1> DEFINE e == [sql |-> sql[q], by |-> q, result |-> task[q].read]
<1>1. /\ task[q].pc = "put" /\ cache' = CachePut(e) /\ task' = [task EXCEPT ![q].pc = "complete"]
      /\ UNCHANGED <<exists, data, status, results, sql, users, late, halfEdited>>
  BY DEF FillCache, At, Goto
<1>2. /\ sql[q] \in Sql /\ task[q].read \in Seq(Contents) /\ status[q] # "unknown"
      /\ Len(task[q].read) = Len(From[sql[q]]) /\ q \notin results
      /\ Fresh(sql[q], task[q].read, q)
  BY <1>1 DEF QInv, Typed, Control, ReadFresh
<1>3. e \in CacheEntry /\ EntryOK(e)
  BY <1>2 DEF CacheEntry, EntryOK
<1> HIDE DEF e
<1>4. CacheOK'
  BY <1>1, <1>3, PutOK
<1>5. Typed'
  BY <1>1 DEF QInv, Typed, Steps, users, pages
<1>6. task'[q].pc = "complete" /\ \A p \in Query \ {q} : task'[p] = task[p]
  BY <1>1 DEF QInv, Typed
<1>7. Control(q)' /\ ReadFresh(q)'
  BY <1>1, <1>2, <1>6 DEF Control, ReadFresh
<1> QED
  BY <1>1, <1>4, <1>5, <1>6, <1>7, QueryStep

----------------------------------------------------------------------------
(* The page.                                                               *)

\* The steps of stopping and resetting leave a page.
LEMMA PageTyped ==
    ASSUME NEW p \in Page
    PROVE  Stopped(p) \in Page /\ Reset(p) \in Page /\ Aborted(p) \in Page
<1>1. HasAnswers(p) \subseteq Query
  BY DEF HasAnswers, Page, Answer
<1>2. Stopped(p) \in Page
  BY <1>1 DEF Stopped, Page
<1>3. Reset(p) \in Page
  BY <1>2 DEF Reset, Page
<1>4. Aborted(p) \in Page
  <2>1. CASE p.abortable = Nobody
    BY <2>1 DEF Aborted
  <2>2. CASE p.abortable # Nobody
    <3> DEFINE ds == IF p.current = Nobody THEN Reset(p).deletes ELSE Reset(p).deletes \cup {"abort"}
    <3>1. ds \in SUBSET {"abort", "button"}
      BY <1>3 DEF Page
    <3>2. Aborted(p) = [Reset(p) EXCEPT !.posts = @ \ {p.abortable}, !.abortable = Nobody, !.deletes = ds]
      BY <2>2 DEF Aborted
    <3> HIDE DEF ds
    <3> QED
      BY <1>3, <3>1, <3>2 DEF Page
  <2> QED
    BY <2>1, <2>2
<1> QED
  BY <1>2, <1>3, <1>4

\* What a page's step does to the queries of others.
Cancels == /\ status' \in [Query -> Statuses]
           /\ \A q \in Query : status'[q] \in {status[q], "Cancelled"}

LEMMA DeletedCancels ==
    ASSUME QInv, NEW q \in Query \cup {Nobody}
    PROVE  /\ Deleted(q) \in [Query -> Statuses]
           /\ \A p \in Query : Deleted(q)[p] \in {status[p], "Cancelled"}
  BY DEF QInv, Typed, Deleted, Statuses

\* The histories stay sets of queries.
LEMMA HistoriesTyped ==
    ASSUME QInv, NEW p \in Page
    PROVE  /\ Outstanding(p) \subseteq Query
           /\ Disturbs(Outstanding(p)) => disturbed' \subseteq Query
           /\ \A q \in Query : Shows(q) => told' \subseteq Query
<1>1. HasAnswers(p) \subseteq Query
  BY DEF HasAnswers, Page, Answer
<1>2. Outstanding(p) \subseteq Query
  BY <1>1 DEF Outstanding, Page
<1> QED
  BY <1>2 DEF QInv, Typed, Disturbs, Shows

\* Every step of a page but Submit changes that page, the histories and the
\* trackers of cancelled queries.
PageMove(c) ==
    /\ UNCHANGED <<exists, data, cache, results, sql, task, late, halfEdited>>
    /\ Cancels /\ (\E p \in Page : Becomes(c, p))
    /\ told' \subseteq Query /\ disturbed' \subseteq Query /\ requests' \in Nat

LEMMA AnsweredMoves ==
    ASSUME QInv, NEW c \in Client, NEW q \in Query, Answered(c, q)
    PROVE  PageMove(c)
<1> DEFINE p == [Stopped(client[c]) EXCEPT !.posts = @ \ {q}, !.abortable = Nobody, !.current = q, !.polled = q]
<1>1. Stopped(client[c]) \in Page
  BY PageTyped DEF QInv, Typed
<1>2. p \in Page
  BY <1>1 DEF Page
<1>3. client' = [client EXCEPT ![c] = p]
  BY DEF Answered, Becomes
<1> HIDE DEF p
<1> QED
  BY <1>2, <1>3 DEF Answered, OnlyPage, PageMove, Cancels, Becomes, QInv, Typed

LEMMA PolledMoves ==
    ASSUME QInv, NEW c \in Client, NEW q \in Query, Polled(c, q)
    PROVE  PageMove(c)
<1> DEFINE new == { [query |-> q, says |-> x] : x \in {status[q]} \cap Ended }
           p == [client[c] EXCEPT !.asked = @ \ {q}, !.answers = @ \cup new]
<1>1. new \subseteq Answer
  BY DEF Answer
<1>2. client' = [client EXCEPT ![c] = p]
  BY DEF Polled, Becomes
<1> HIDE DEF new
<1>3. p \in Page
  <2>1. client[c] \in Page
    BY DEF QInv, Typed
  <2> QED
    BY <1>1, <2>1 DEF Page
<1> HIDE DEF p
<1> QED
  BY <1>2, <1>3 DEF Polled, OnlyPage, PageMove, Cancels, Becomes, QInv, Typed

LEMMA HandleMoves ==
    ASSUME QInv, NEW c \in Client, NEW a \in client[c].answers, Handle(c, a)
    PROVE  PageMove(c)
<1> DEFINE p == [Stopped(client[c]) EXCEPT !.answers = @ \ {a}]
           r == [p EXCEPT !.fetching = @ \cup {a.query}]
           w == [p EXCEPT !.waiting = FALSE]
<1>1. client[c] \in Page /\ Stopped(client[c]) \in Page
  BY PageTyped DEF QInv, Typed
<1>2. a \in Answer /\ a.query \in Query
  BY <1>1 DEF Page, Answer
<1>3. p \in Page
  BY <1>1 DEF Page
<1>4. \/ client' = [client EXCEPT ![c] = r] /\ told' = told
      \/ client' = [client EXCEPT ![c] = w] /\ Shows(a.query)
  BY DEF Handle, Becomes
<1> HIDE DEF p
<1>5. r \in Page /\ w \in Page
  BY <1>2, <1>3 DEF Page
<1> HIDE DEF r, w
<1>6. told' \subseteq Query
  BY <1>1, <1>2, <1>4, HistoriesTyped DEF QInv, Typed
<1> QED
  BY <1>4, <1>5, <1>6 DEF Handle, OnlyPage, PageMove, Cancels, Becomes, QInv, Typed

LEMMA FetchedMoves ==
    ASSUME QInv, NEW c \in Client, NEW q \in Query, Fetched(c, q)
    PROVE  PageMove(c)
<1> DEFINE p == [client[c] EXCEPT !.fetching = @ \ {q}, !.waiting = FALSE, !.current = Nobody]
<1>1. client[c] \in Page
  BY DEF QInv, Typed
<1>2. p \in Page
  BY <1>1 DEF Page
<1>3. client' = [client EXCEPT ![c] = p] /\ Shows(q)
  BY DEF Fetched, Becomes
<1> HIDE DEF p
<1>4. told' \subseteq Query
  BY <1>1, <1>3, HistoriesTyped
<1> QED
  BY <1>2, <1>3, <1>4 DEF Fetched, OnlyPage, PageMove, Cancels, Becomes, QInv, Typed

LEMMA DeleteAnsweredMoves ==
    ASSUME QInv, NEW c \in Client, NEW by \in client[c].deletes, DeleteAnswered(c, by)
    PROVE  PageMove(c)
<1> DEFINE p == [client[c] EXCEPT !.deletes = @ \ {by}, !.current = Nobody]
           r == [p EXCEPT !.abortable = Nobody]
<1>1. p \in Page
  <2>1. client[c] \in Page
    BY DEF QInv, Typed
  <2> QED
    BY <2>1 DEF Page
<1>2. client' = [client EXCEPT ![c] = r] \/ client' = [client EXCEPT ![c] = Reset(p)]
  BY DEF DeleteAnswered, Becomes
<1> HIDE DEF p
<1>3. r \in Page /\ Reset(p) \in Page
  <2>1. r \in Page
    BY <1>1 DEF Page
  <2> QED
    BY <1>1, <2>1, PageTyped
<1> HIDE DEF r
<1> QED
  BY <1>2, <1>3 DEF DeleteAnswered, OnlyPage, PageMove, Cancels, Becomes, QInv, Typed

LEMMA CancelMoves ==
    ASSUME QInv, NEW c \in Client, Cancel(c)
    PROVE  PageMove(c)
<1> DEFINE p == Aborted(client[c])
           r == [p EXCEPT !.deletes = @ \cup {"button"}]
<1>1. client[c] \in Page /\ p \in Page /\ client[c].current \in Query \cup {Nobody}
  <2>1. client[c] \in Page
    BY DEF QInv, Typed
  <2> QED
    BY <2>1, PageTyped DEF Page
<1>2. client' = [client EXCEPT ![c] = r] \/ client' = [client EXCEPT ![c] = Reset(p)]
  BY DEF Cancel, Becomes
<1>3. Cancels
  BY <1>1, DeletedCancels DEF Cancel, Cancels
<1>4. disturbed' \subseteq Query
  BY <1>1, HistoriesTyped DEF Cancel
<1> HIDE DEF p
<1>5. r \in Page /\ Reset(p) \in Page
  <2>1. r \in Page
    BY <1>1 DEF Page
  <2> QED
    BY <1>1, <2>1, PageTyped
<1> HIDE DEF r
<1>6. requests' \in Nat
  BY DEF Cancel, Request, QInv, Typed
<1>7. /\ UNCHANGED <<exists, data, cache, results, sql, task, late, halfEdited>>
      /\ told' \subseteq Query
  BY DEF Cancel, QInv, Typed
<1> QED
  BY <1>2, <1>3, <1>4, <1>5, <1>6, <1>7 DEF PageMove, Becomes

LEMMA SubmitOtherMoves ==
    ASSUME QInv, NEW c \in Client, SubmitOther(c)
    PROVE  PageMove(c)
<1>1. client[c] \in Page /\ CancelledBy(client[c]) \in Query \cup {Nobody}
  <2>1. client[c] \in Page
    BY DEF QInv, Typed
  <2> QED
    BY <2>1 DEF Page, CancelledBy
<1>2. Reset(Aborted(client[c])) \in Page
  BY <1>1, PageTyped
<1>3. Cancels
  BY <1>1, DeletedCancels DEF SubmitOther, Cancels
<1>4. disturbed' \subseteq Query
  BY <1>1, HistoriesTyped DEF SubmitOther
<1>5. client' = [client EXCEPT ![c] = Reset(Aborted(client[c]))]
  BY DEF SubmitOther, Becomes
<1>6. requests' \in Nat
  BY DEF SubmitOther, Request, QInv, Typed
<1>7. /\ UNCHANGED <<exists, data, cache, results, sql, task, late, halfEdited>>
      /\ told' \subseteq Query
  BY DEF SubmitOther, QInv, Typed
<1> QED
  BY <1>2, <1>3, <1>4, <1>5, <1>6, <1>7 DEF PageMove, Becomes

LEMMA PageMoves ==
    ASSUME QInv, NEW c \in Client, SubmitOther(c) \/ Cancel(c) \/ PageStep(c)
    PROVE  PageMove(c)
  BY AnsweredMoves, PolledMoves, HandleMoves, FetchedMoves, DeleteAnsweredMoves, CancelMoves,
     SubmitOtherMoves DEF PageStep

\* A page changes a tracker only to Cancelled.
LEMMA PagePreserves ==
    ASSUME QInv, NEW c \in Client, PageMove(c)
    PROVE  QInv'
<1>1. CacheOK'
  BY SameCache DEF PageMove
<1>2. client' \in [Client -> Page]
  <2>1. PICK p \in Page : client' = [client EXCEPT ![c] = p]
    BY DEF PageMove, Becomes
  <2> QED
    BY <2>1 DEF QInv, Typed
<1>3. Typed'
  BY <1>2 DEF PageMove, Cancels, QInv, Typed
<1>4. ASSUME NEW q \in Query PROVE Control(q)' /\ ReadFresh(q)'
  <2>1. status'[q] \in {status[q], "Cancelled"}
    BY DEF PageMove, Cancels
  <2> QED
    BY <2>1, SameWorld DEF PageMove, QInv, Control, ReadFresh, Fresh
<1> QED
  BY <1>1, <1>3, <1>4 DEF QInv

\* Submit starts a task and cancels at most one other query.
LEMMA SubmitStarts ==
    ASSUME QInv, NEW c \in Client, NEW q \in Query, NEW s \in Sql, Submit(c, q, s)
    PROVE  /\ task[q].pc = "none" /\ q \notin results /\ status' \in [Query -> Statuses]
           /\ task'[q].pc = "lookup" /\ task'[q].read = <<>> /\ sql'[q] = s
           /\ status[q] = "unknown" /\ status'[q] = "Running" /\ q \notin results'
           /\ \A u \in Query \ {q} : /\ task'[u] = task[u]
                                     /\ status'[u] = status[u] \/ status'[u] = "Cancelled"
                                     /\ sql'[u] = sql[u] /\ (u \in results' <=> u \in results)
<1> DEFINE old == Deleted(CancelledBy(client[c]))
<1>1. status[q] = "unknown"
  <2>1. q \in Query /\ q \in Nat
    BY QueryAssumption DEF Query
  <2> QED
    BY <2>1 DEF Submit
<1>2. task[q].pc = "none" /\ task[q].read = <<>> /\ q \notin results
  BY <1>1 DEF QInv, Control
<1>3. CancelledBy(client[c]) \in Query \cup {Nobody}
  BY DEF QInv, Typed, Page, CancelledBy
<1>4. /\ old \in [Query -> Statuses] /\ \A u \in Query : old[u] \in {status[u], "Cancelled"}
      /\ status' = [old EXCEPT ![q] = "Running"]
  BY <1>3, DeletedCancels DEF Submit
<1> HIDE DEF old
<1>5. /\ status'[q] = "Running" /\ status' \in [Query -> Statuses]
      /\ \A u \in Query \ {q} : status'[u] = status[u] \/ status'[u] = "Cancelled"
  BY <1>4 DEF Statuses
<1> QED
  BY <1>1, <1>2, <1>5 DEF Submit, QInv, Typed

LEMMA SubmitPreserves ==
    ASSUME QInv, NEW c \in Client, NEW q \in Query, NEW s \in Sql, Submit(c, q, s)
    PROVE  QInv'
<1> DEFINE p == client[c]
           r == [Stopped(Aborted(p)) EXCEPT
                    !.posts = @ \cup {q}, !.waiting = p.abortable = Nobody,
                    !.abortable = IF p.abortable = Nobody \/ p.current # Nobody THEN q ELSE Nobody]
<1>1. p \in Page /\ Stopped(Aborted(p)) \in Page
  <2>1. p \in Page
    BY DEF QInv, Typed
  <2> QED
    BY <2>1, PageTyped
<1>2. r \in Page
  BY <1>1 DEF Page
<1>3. client' = [client EXCEPT ![c] = r]
  BY DEF Submit, Becomes
<1> HIDE DEF r
<1>4. client' \in [Client -> Page]
  BY <1>2, <1>3 DEF QInv, Typed
<1>5. disturbed' \subseteq Query
  BY <1>1, HistoriesTyped DEF Submit, Disturbs, QInv, Typed
<1>6. Typed'
  <2>1. task' \in [Query -> [pc : Steps, read : Seq(Contents)]] /\ sql' \in [Query -> Sql \cup {Nobody}]
    BY DEF Submit, QInv, Typed, Steps
  <2>2. UNCHANGED <<exists, data, results, told, requests>>
    BY DEF Submit
  <2>3. status' \in [Query -> Statuses]
    BY SubmitStarts
  <2> QED
    BY <1>4, <1>5, <2>1, <2>2, <2>3 DEF QInv, Typed
<1>7. Control(q)' /\ ReadFresh(q)'
  BY SubmitStarts DEF Control, ReadFresh
<1>8. CacheOK'
  BY SameCache DEF Submit
<1>9. UNCHANGED <<exists, data, late, halfEdited>>
  BY DEF Submit, Becomes
<1> QED
  BY <1>6, <1>7, <1>8, <1>9, SubmitStarts, QueryStep

----------------------------------------------------------------------------
(* The theorems.                                                           *)

LEMMA StepPreserves ==
    ASSUME QInv, [Next]_vars
    PROVE  QInv'
<1>1. CASE UNCHANGED vars
  BY <1>1 DEF vars, users, pages, QInv, Typed, Control, ReadFresh, Fresh, Held, InMemory, Stored, CacheOK,
              GoodCache, EntryOK
<1>2. CASE Next
  BY <1>2, CreateTablePreserves, InsertPreserves, EditPreserves, EditFailsPreserves,
     DropAllTablesPreserves, SelectAtOncePreserves, SubmitPreserves, PageMoves, PagePreserves,
     LookupPreserves, PlanPreserves, ScanPreserves, FillCachePreserves, TaskEndPreserves
     DEF Next, TaskStep
<1> QED
  BY <1>1, <1>2

LEMMA Invariant == Spec => []QInv
<1>1. QInv /\ [Next]_vars => QInv'
  BY StepPreserves
<1> QED
  BY <1>1, QInvInit, PTL DEF Spec

\* The variables have their types; in particular the cache holds at most
\* Capacity entries, each statement once, and every entry has one result for
\* every table of its statement (QueryCache::put, get and invalidate_tables).
THEOREM TypeCorrect == Spec => []TypeOK
  BY Invariant, QInvImpliesTypeOK, PTL

\* Nothing but a write between a query's read and its put, or an UPDATE that
\* failed half way, leaves a stale entry in the cache: not a join, not a hit,
\* not DROP ALL TABLES (execute_async_internal, execute_with_cache_info).
THEOREM OnlyRacesLeaveStaleEntries == Spec => []StaleOnlyByRace
<1>1. QInv => StaleOnlyByRace
  <2> SUFFICES ASSUME QInv, NEW i \in 1..Len(cache), NEW k \in 1..Len(From[cache[i].sql])
               PROVE  \/ UpToDate(cache[i], k)
                      \/ <<cache[i].by, From[cache[i].sql][k]>> \in late
                      \/ From[cache[i].sql][k] \in halfEdited
    BY DEF StaleOnlyByRace
  <2>1. EntryOK(cache[i])
    BY DEF QInv, CacheOK
  <2> QED
    BY <2>1 DEF EntryOK, Fresh, Held, UpToDate
<1> QED
  BY <1>1, Invariant, PTL

\* A query that stored a result is never reported as failed, however its
\* cancellation interleaves with its last steps (execute_async_internal stores
\* the tracker and the result in two critical sections, cancel_query writes
\* the tracker at any time).
THEOREM StoredResultsSucceeded == Spec => []ResultMeansSuccess
<1>1. QInv => ResultMeansSuccess
  BY DEF QInv, Typed, Control, ResultMeansSuccess
<1> QED
  BY <1>1, Invariant, PTL

----------------------------------------------------------------------------
(* ClientAnswered without its fairness: an undisturbed page waits for a     *)
(* task that ends, and the tracker of a task that has ended says so.       *)

Begun(q) == task[q].pc # "none"

\* The tracker of a task that is over is not left at Running.
Reported(q) == task[q].pc = "done" => status[q] \in Ended

\* Page c waits for q and for nothing else.
Alone(c, q) ==
    /\ Outstanding(client[c]) = {q}
    /\ client[c].asked = {} /\ client[c].deletes = {}
    /\ q \in client[c].posts => client[c].polled # q

\* The controller aborts a POST that is outstanding.
Controls(c) == client[c].abortable # Nobody => client[c].abortable \in client[c].posts

Settled(q) == q \in told \cup disturbed

WaitInv ==
    /\ \A c \in Client : Controls(c)
    /\ \A q \in Query : Begun(q) => Settled(q) \/ \E c \in Client : Alone(c, q)
    /\ \A q \in Query : Reported(q)

\* The steps a task has left: one for each table it has not read, and the ones
\* before and after the scan.
StepsLeft(q) ==
    LET n == Len(From[sql[q]])
        pc == task[q].pc
    IN IF pc = "lookup" THEN n + 6
       ELSE IF pc = "plan" THEN n + 5
       ELSE IF pc = "scan" THEN n - Len(task[q].read) + 4
       ELSE IF pc = "put" THEN 4
       ELSE IF pc = "complete" THEN 3
       ELSE IF pc = "store" THEN 2
       ELSE IF pc = "fail" THEN 1
       ELSE 0

\* A task's own steps bring it nearer to its end, and nothing sets it back.
Advances(q) ==
    /\ StepsLeft(q) \in Nat
    /\ TaskStep(q) => StepsLeft(q)' < StepsLeft(q)
    /\ task[q].pc # "none" => task'[q].pc # "none" /\ StepsLeft(q)' <= StepsLeft(q)

TasksAdvance == \A q \in Query : Advances(q)

\* What the code of the task may do next: whatever was dropped or cancelled,
\* one of the outcomes of a scan applies.
Able(q) ==
    \/ task[q].pc \in {"lookup", "plan", "put", "complete", "store", "fail"}
    \/ /\ task[q].pc = "scan" /\ Len(task[q].read) < Len(From[sql[q]])
       /\ \/ Next1(q) \notin exists
          \/ Next1(q) \in exists /\ (status[q] # "Cancelled" \/ Stored(Next1(q)).inserts = 0)
          \/ status[q] = "Cancelled" /\ Stored(Next1(q)).inserts > 0

\* Every query whose page was not disturbed and has not shown its end is the
\* only one that page waits for: for the answer to its POST, to a poll or to the
\* request for its result - or the page polls it, and its tracker says how it
\* ended or its task can go on.
PagesServed ==
    \A q \in Query : Begun(q) =>
        \/ Settled(q)
        \/ \E c \in Client :
              /\ Alone(c, q)
              /\ \/ q \in client[c].posts \cup client[c].fetching \cup HasAnswers(client[c])
                 \/ client[c].polled = q /\ (status[q] \in Ended \/ Able(q))

LEMMA StepsLeftType ==
    ASSUME QInv, NEW q \in Query
    PROVE  /\ StepsLeft(q) \in Nat
           /\ task[q].pc # "none" =>
                  Len(From[sql[q]]) \in Nat /\ Len(From[sql[q]]) >= 1 /\ Len(task[q].read) \in Nat
<1> DEFINE n == Len(From[sql[q]])
           k == Len(task[q].read)
<1>1. task[q].pc # "none" => n \in Nat /\ n >= 1 /\ k \in Nat
  BY FromTyped DEF QInv, Typed, Control
<1>2. task[q].pc = "scan" => k < n
  BY DEF QInv, Control
<1> HIDE DEF n, k
<1>3. StepsLeft(q) \in Nat
  BY <1>1, <1>2 DEF StepsLeft, n, k
<1> QED
  BY <1>1, <1>3 DEF n, k

\* A step of the task of q concerns no other query, and leaves fewer steps.
Moves(q) ==
    /\ UNCHANGED <<users, sql>>
    /\ \A p \in Query \ {q} : task'[p] = task[p] /\ status'[p] = status[p]
    /\ task[q].pc # "none" /\ task'[q].pc # "none" /\ status'[q] # "unknown"
    /\ task'[q].pc = "done" => status'[q] \in Ended
    /\ StepsLeft(q)' < StepsLeft(q)

\* The steps without a table to read.
LEMMA GotoMoves ==
    ASSUME QInv, NEW q \in Query, NEW step \in Steps, Goto(q, step), UNCHANGED <<users, sql>>,
           <<task[q].pc, step>> \in
               {<<"lookup", "complete">>, <<"lookup", "plan">>, <<"plan", "scan">>,
                <<"plan", "fail">>, <<"scan", "fail">>, <<"put", "fail">>, <<"put", "complete">>,
                <<"complete", "store">>, <<"store", "done">>, <<"fail", "done">>},
           \A p \in Query \ {q} : status'[p] = status[p],
           status'[q] # "unknown", step = "done" => status'[q] \in Ended
    PROVE  Moves(q)
<1> DEFINE n == Len(From[sql[q]])
           k == Len(task[q].read)
<1>1. /\ task'[q].pc = step /\ task'[q].read = task[q].read
      /\ \A p \in Query \ {q} : task'[p] = task[p]
  BY DEF Goto, QInv, Typed
<1>2. n \in Nat /\ n >= 1 /\ k \in Nat
  BY StepsLeftType
<1>3. task[q].pc \in {"lookup", "plan"} => k = 0
  BY DEF QInv, Control
<1>4. task[q].pc = "scan" => k < n
  BY DEF QInv, Control
<1>5. StepsLeft(q) = IF task[q].pc = "lookup" THEN n + 6
                     ELSE IF task[q].pc = "plan" THEN n + 5
                     ELSE IF task[q].pc = "scan" THEN n - k + 4
                     ELSE IF task[q].pc = "put" THEN 4
                     ELSE IF task[q].pc = "complete" THEN 3
                     ELSE IF task[q].pc = "store" THEN 2
                     ELSE IF task[q].pc = "fail" THEN 1
                     ELSE 0
  BY DEF StepsLeft
<1>6. StepsLeft(q)' = IF step = "plan" THEN n + 5
                      ELSE IF step = "scan" THEN n - k + 4
                      ELSE IF step = "complete" THEN 3
                      ELSE IF step = "store" THEN 2
                      ELSE IF step = "fail" THEN 1
                      ELSE 0
  BY <1>1 DEF StepsLeft
<1> HIDE DEF n, k
<1>7. StepsLeft(q)' < StepsLeft(q)
  BY <1>2, <1>3, <1>4, <1>5, <1>6
<1> QED
  BY <1>1, <1>7 DEF Moves, Steps

LEMMA ReadMoves ==
    ASSUME QInv, NEW q \in Query, Scan(q) \/ IndexScan(q)
    PROVE  Moves(q)
<1> DEFINE n == Len(From[sql[q]])
           k == Len(task[q].read)
<1>1. PICK x : ReadAs(q, x) /\ x \in Contents
  <2>1. \A t \in exists : InMemory(t) \in Contents /\ Stored(t) \in Contents
    BY DEF QInv, Typed, InMemory, Stored, Contents
  <2> QED
    BY <2>1 DEF Scan, IndexScan
<1>2. task[q].pc = "scan" /\ UNCHANGED <<users, sql, status>>
  BY DEF Scan, IndexScan, At, OnlyTask
<1>3. n \in Nat /\ k \in Nat /\ k < n
  BY <1>2, StepsLeftType DEF QInv, Control
<1>4. /\ task'[q].pc = IF k + 1 = n THEN "put" ELSE "scan"
      /\ task'[q].read = Append(task[q].read, x)
      /\ \A p \in Query \ {q} : task'[p] = task[p]
  BY <1>1 DEF ReadAs, QInv, Typed
<1>5. Len(task'[q].read) = k + 1
  BY <1>4 DEF QInv, Typed
<1>6. StepsLeft(q) = n - k + 4
  BY <1>2 DEF StepsLeft
<1>7. StepsLeft(q)' = IF k + 1 = n THEN 4 ELSE n - (k + 1) + 4
  BY <1>2, <1>4, <1>5 DEF StepsLeft
<1>8. status[q] # "unknown"
  BY <1>2 DEF QInv, Control
<1> HIDE DEF n, k
<1>9. StepsLeft(q)' < StepsLeft(q)
  BY <1>3, <1>6, <1>7
<1> QED
  BY <1>2, <1>4, <1>8, <1>9 DEF Moves

LEMMA TaskMoves ==
    ASSUME QInv, NEW q \in Query, TaskStep(q)
    PROVE  Moves(q)
<1> USE DEF At, Goto, OnlyTask, Steps
<1>1. status \in [Query -> Statuses] /\ (status[q] = "unknown" => task[q].pc = "none")
  BY DEF QInv, Typed, Control
<1>2. CASE Lookup(q)
  BY <1>1, <1>2, GotoMoves DEF Lookup
<1>3. CASE Plan(q)
  BY <1>1, <1>3, GotoMoves DEF Plan
<1>4. CASE Scan(q) \/ IndexScan(q)
  BY <1>4, ReadMoves
<1>5. CASE ScanFails(q)
  BY <1>1, <1>5, GotoMoves DEF ScanFails
<1>6. CASE FillCache(q)
  BY <1>1, <1>6, GotoMoves DEF FillCache
<1>7. CASE Complete(q)
  BY <1>1, <1>7, GotoMoves DEF Complete
<1>8. CASE StoreResult(q)
  <2>1. status[q] \in Ended /\ status' = status
    BY <1>8 DEF StoreResult, QInv, Control, Ended
  <2> QED
    BY <1>1, <1>8, <2>1, GotoMoves DEF StoreResult, Ended
<1>9. CASE Fail(q)
  BY <1>1, <1>9, GotoMoves DEF Fail, Ended
<1> QED
  BY <1>2, <1>3, <1>4, <1>5, <1>6, <1>7, <1>8, <1>9 DEF TaskStep

\* The other steps change no task, except that Submit starts one.
LEMMA OthersMove ==
    ASSUME QInv, [Next]_vars, ~ \E q \in Query : TaskStep(q)
    PROVE  \A q \in Query :
               /\ task[q].pc # "none" => task'[q] = task[q] /\ sql'[q] = sql[q]
               /\ task'[q].pc = "done" => task[q].pc = "done"
               /\ status[q] \in Ended => status'[q] \in Ended
<1>1. CASE \E c \in Client, q \in Query, s \in Sql : Submit(c, q, s)
  <2>1. PICK c \in Client, q \in Query, s \in Sql : Submit(c, q, s)
    BY <1>1
  <2>2. task[q].pc = "none" /\ task'[q].pc = "lookup" /\ status[q] = "unknown"
    BY <2>1, SubmitStarts
  <2>3. \A p \in Query \ {q} : /\ task'[p] = task[p] /\ sql'[p] = sql[p]
                               /\ status'[p] = status[p] \/ status'[p] = "Cancelled"
    BY <2>1, SubmitStarts
  <2> QED
    BY <2>2, <2>3 DEF Ended
<1>2. CASE \E c \in Client : PageMove(c)
  BY <1>2 DEF PageMove, Cancels, Ended
<1>3. CASE UNCHANGED <<task, sql, status>>
  BY <1>3
<1>4. /\ \A t \in Table : CreateTable(t) \/ Insert(t) \/ Edit(t) \/ EditFails(t)
                              => UNCHANGED <<task, sql, status>>
      /\ DropAllTables => UNCHANGED <<task, sql, status>>
      /\ \A s \in Sql : SelectAtOnce(s) => UNCHANGED <<task, sql, status>>
  BY DEF CreateTable, Insert, Edit, EditFails, DropAllTables, SelectAtOnce
<1>5. UNCHANGED vars => UNCHANGED <<task, sql, status>>
  BY DEF vars
<1>6. \A c \in Client : SubmitOther(c) \/ Cancel(c) \/ PageStep(c) => PageMove(c)
  BY PageMoves
<1> QED
  BY <1>1, <1>2, <1>3, <1>4, <1>5, <1>6 DEF Next

\* Stopping a poll loses track of nothing.
LEMMA StoppedSame ==
    ASSUME NEW p \in Page
    PROVE  /\ Outstanding(Stopped(p)) = Outstanding(p)
           /\ HasAnswers(Stopped(p)) = HasAnswers(p) /\ Stopped(p).polled = Nobody
           /\ Stopped(p).asked = p.asked \cup (({p.polled} \ {Nobody}) \ HasAnswers(p))
           /\ Stopped(p).posts = p.posts /\ Stopped(p).fetching = p.fetching
           /\ Stopped(p).answers = p.answers /\ Stopped(p).deletes = p.deletes
           /\ Stopped(p).abortable = p.abortable
<1>1. /\ Stopped(p).polled = Nobody
      /\ Stopped(p).asked = p.asked \cup (({p.polled} \ {Nobody}) \ HasAnswers(p))
      /\ Stopped(p).posts = p.posts /\ Stopped(p).fetching = p.fetching
      /\ Stopped(p).answers = p.answers /\ Stopped(p).deletes = p.deletes
      /\ Stopped(p).abortable = p.abortable
  BY DEF Stopped, Page
<1>2. HasAnswers(Stopped(p)) = HasAnswers(p)
  BY <1>1 DEF HasAnswers
<1> QED
  BY <1>1, <1>2 DEF Outstanding

\* What a step of page c owes to it: a query it waits for alone stays so or is
\* settled, and nothing settled is forgotten.
Keeps(c) ==
    /\ \A q \in Query : Alone(c, q) => Alone(c, q)' \/ Settled(q)'
    /\ \A q \in Query : Settled(q) => Settled(q)'
    /\ Controls(c)'

LEMMA AnsweredKeeps ==
    ASSUME QInv, NEW c \in Client, NEW q \in Query, Answered(c, q)
    PROVE  Keeps(c)
<1> DEFINE p == client[c]
           r == client'[c]
<1>1. p \in Page /\ q \in p.posts /\ UNCHANGED <<told, disturbed>> /\ q # Nobody
  BY QueryAssumption DEF QInv, Typed, Answered, OnlyPage
<1>2. r = [Stopped(p) EXCEPT !.posts = @ \ {q}, !.abortable = Nobody, !.current = q, !.polled = q]
  BY DEF Answered, Becomes, QInv, Typed
<1>3. Stopped(p) \in Page
  BY <1>1, PageTyped
<1>4. /\ r.posts = p.posts \ {q} /\ r.abortable = Nobody /\ r.polled = q /\ r.deletes = p.deletes
      /\ r.asked = p.asked \cup (({p.polled} \ {Nobody}) \ HasAnswers(p))
      /\ r.fetching = p.fetching /\ r.answers = p.answers
  BY <1>1, <1>2, <1>3, StoppedSame DEF Page
<1>5. HasAnswers(r) = HasAnswers(p)
  BY <1>4 DEF HasAnswers
<1> HIDE DEF p, r
<1>6. ASSUME NEW u \in Query, Outstanding(p) = {u}, p.asked = {}, p.deletes = {}, u \in p.posts => p.polled # u
      PROVE  Outstanding(r) = {u} /\ r.asked = {} /\ r.deletes = {} /\ (u \in r.posts => r.polled # u)
  <2>1. u = q /\ p.polled = Nobody
    BY <1>1, <1>6 DEF Outstanding
  <2> QED
    BY <1>1, <1>4, <1>5, <1>6, <2>1 DEF Outstanding
<1> QED
  BY <1>1, <1>4, <1>6 DEF Keeps, Alone, Controls, Settled, p, r

LEMMA PolledKeeps ==
    ASSUME QInv, NEW c \in Client, NEW q \in Query, Polled(c, q), Controls(c)
    PROVE  Keeps(c)
<1> DEFINE p == client[c]
           r == client'[c]
           new == { [query |-> q, says |-> x] : x \in {status[q]} \cap Ended }
<1>1. /\ p \in Page /\ UNCHANGED <<told, disturbed>> /\ q # Nobody
      /\ q \in p.asked \/ (q = p.polled /\ status[q] \in Ended)
  BY QueryAssumption DEF QInv, Typed, Polled, OnlyPage
<1>2. r = [p EXCEPT !.asked = @ \ {q}, !.answers = @ \cup new]
  BY DEF Polled, Becomes, QInv, Typed
<1>3. status[q] \in Ended => HasAnswers(r) = HasAnswers(p) \cup {q}
  <2>1. status[q] \in Ended => new = {[query |-> q, says |-> status[q]]}
    OBVIOUS
  <2> HIDE DEF new
  <2>2. r.answers = p.answers \cup new
    BY <1>1, <1>2 DEF Page
  <2>3. status[q] \in Ended => HasAnswers(r) = { a.query : a \in p.answers } \cup { a.query : a \in {[query |-> q, says |-> status[q]]} }
    BY <2>1, <2>2 DEF HasAnswers
  <2> QED
    BY <2>3 DEF HasAnswers
<1> HIDE DEF new
<1>4. /\ r.posts = p.posts /\ r.abortable = p.abortable /\ r.polled = p.polled
      /\ r.deletes = p.deletes /\ r.asked = p.asked \ {q} /\ r.fetching = p.fetching
  BY <1>1, <1>2 DEF Page
<1> HIDE DEF p, r
<1>5. ASSUME NEW u \in Query, Outstanding(p) = {u}, p.asked = {}, p.deletes = {}, u \in p.posts => p.polled # u
      PROVE  Outstanding(r) = {u} /\ r.asked = {} /\ r.deletes = {} /\ (u \in r.posts => r.polled # u)
  <2>1. u = q /\ status[q] \in Ended
    BY <1>1, <1>5 DEF Outstanding
  <2> QED
    BY <1>1, <1>3, <1>4, <1>5, <2>1 DEF Outstanding
<1> QED
  BY <1>1, <1>4, <1>5 DEF Keeps, Alone, Controls, Settled, p, r

LEMMA HandleKeeps ==
    ASSUME QInv, NEW c \in Client, NEW a \in client[c].answers, Handle(c, a), Controls(c)
    PROVE  Keeps(c)
<1> DEFINE p == client[c]
           o == [Stopped(p) EXCEPT !.answers = @ \ {a}]
           r == client'[c]
<1>1. p \in Page /\ Stopped(p) \in Page /\ a \in p.answers
  BY PageTyped DEF QInv, Typed
<1>2. a.query \in HasAnswers(p) /\ a.query \in Query /\ disturbed' = disturbed
  BY <1>1 DEF HasAnswers, Page, Answer, Handle, OnlyPage
<1>3. \/ r = [o EXCEPT !.fetching = @ \cup {a.query}] /\ told' = told
      \/ r = [o EXCEPT !.waiting = FALSE] /\ Shows(a.query)
  BY DEF Handle, Becomes, QInv, Typed
<1>4. /\ o.posts = p.posts /\ o.abortable = p.abortable /\ o.polled = Nobody
      /\ o.asked = p.asked \cup (({p.polled} \ {Nobody}) \ HasAnswers(p))
      /\ o.deletes = p.deletes /\ o.fetching = p.fetching /\ o.answers = p.answers \ {a} /\ o \in Page
  BY <1>1, StoppedSame DEF Page
<1> HIDE DEF o
<1>5. /\ r.posts = p.posts /\ r.abortable = p.abortable /\ r.polled = Nobody
      /\ r.asked = p.asked \cup (({p.polled} \ {Nobody}) \ HasAnswers(p))
      /\ r.deletes = p.deletes /\ r.answers = p.answers \ {a}
  BY <1>3, <1>4 DEF Page
<1>6. r.fetching = p.fetching \cup {a.query} \/ Shows(a.query)
  BY <1>3, <1>4 DEF Page
<1>7. HasAnswers(r) \subseteq HasAnswers(p)
  BY <1>5 DEF HasAnswers
<1>8. /\ Shows(a.query) => Settled(a.query)'
      /\ \A u \in Query : Settled(u) => Settled(u)'
  BY <1>2, <1>3 DEF Shows, Settled
<1> HIDE DEF p, r
<1>9. ASSUME NEW u \in Query, Outstanding(p) = {u}, p.asked = {}, p.deletes = {}, ~Settled(u)'
      PROVE  Outstanding(r) = {u} /\ r.asked = {} /\ r.deletes = {} /\ r.polled # u
  <2>1. u = a.query /\ u # Nobody
    BY <1>2, <1>9, QueryAssumption DEF Outstanding
  <2>2. r.fetching = p.fetching \cup {u}
    BY <1>6, <1>8, <1>9, <2>1
  <2>3. ({p.polled} \ {Nobody}) \ HasAnswers(p) = {}
    BY <1>2, <1>9, <2>1 DEF Outstanding
  <2> QED
    BY <1>5, <1>7, <1>9, <2>1, <2>2, <2>3 DEF Outstanding
<1> QED
  BY <1>5, <1>8, <1>9 DEF Keeps, Alone, Controls, p, r

LEMMA FetchedKeeps ==
    ASSUME QInv, NEW c \in Client, NEW q \in Query, Fetched(c, q), Controls(c)
    PROVE  Keeps(c)
<1> DEFINE p == client[c]
           r == client'[c]
<1>1. p \in Page /\ q \in p.fetching /\ Shows(q) /\ disturbed' = disturbed
  BY DEF QInv, Typed, Fetched, OnlyPage
<1>2. r = [p EXCEPT !.fetching = @ \ {q}, !.waiting = FALSE, !.current = Nobody]
  BY DEF Fetched, Becomes, QInv, Typed
<1>3. r.posts = p.posts /\ r.abortable = p.abortable
  BY <1>1, <1>2 DEF Page
<1>4. Settled(q)' /\ \A u \in Query : Settled(u) => Settled(u)'
  BY <1>1 DEF Shows, Settled
<1>5. \A u \in Query : Alone(c, u) => u = q
  BY <1>1 DEF Alone, Outstanding
<1> QED
  BY <1>3, <1>4, <1>5 DEF Keeps, Controls

LEMMA DeleteAnsweredKeeps ==
    ASSUME QInv, NEW c \in Client, NEW by \in client[c].deletes, DeleteAnswered(c, by), Controls(c)
    PROVE  Keeps(c)
<1> DEFINE p == client[c]
           o == [p EXCEPT !.deletes = @ \ {by}, !.current = Nobody]
           r == client'[c]
<1>1. p \in Page /\ UNCHANGED <<told, disturbed>> /\ by \in p.deletes
  BY DEF QInv, Typed, DeleteAnswered, OnlyPage
<1>2. o \in Page /\ o.posts = p.posts /\ o.abortable = p.abortable
  BY <1>1 DEF Page
<1>3. r = [o EXCEPT !.abortable = Nobody] \/ r = [Stopped(o) EXCEPT !.waiting = FALSE]
  BY DEF DeleteAnswered, Reset, Becomes, QInv, Typed
<1> HIDE DEF o
<1>4. r.posts = p.posts /\ r.abortable \in {p.abortable, Nobody}
  <2>1. Stopped(o) \in Page
    BY <1>2, PageTyped
  <2> QED
    BY <1>2, <1>3, <2>1, StoppedSame DEF Page
<1>5. \A u \in Query : ~Alone(c, u)
  BY <1>1 DEF Alone
<1> QED
  BY <1>1, <1>4, <1>5 DEF Keeps, Controls, Settled

\* After an abort no POST is left to abort.
LEMMA AbortedNobody ==
    ASSUME NEW p \in Page
    PROVE  Aborted(p).abortable = Nobody /\ Reset(Aborted(p)).abortable = Nobody
<1>1. Reset(p) \in Page /\ Aborted(p) \in Page /\ Stopped(Aborted(p)) \in Page
  BY PageTyped
<1>2. Aborted(p).abortable = Nobody
  BY <1>1 DEF Aborted, Page
<1>3. Stopped(Aborted(p)).abortable = Nobody
  BY <1>1, <1>2, StoppedSame
<1> QED
  BY <1>1, <1>2, <1>3 DEF Reset, Page

\* The user's own steps settle what the page waits for.
LEMMA DisturbedKeeps ==
    ASSUME QInv, NEW c \in Client, Cancel(c) \/ SubmitOther(c)
    PROVE  Keeps(c)
<1> DEFINE p == Aborted(client[c])
           r == client'[c]
<1>1. client[c] \in Page /\ p \in Page /\ p.abortable = Nobody /\ Reset(p).abortable = Nobody
  <2>1. client[c] \in Page
    BY DEF QInv, Typed
  <2> QED
    BY <2>1, PageTyped, AbortedNobody
<1>2. told' = told /\ Disturbs(Outstanding(client[c]))
  BY DEF Cancel, SubmitOther
<1>3. r = [p EXCEPT !.deletes = @ \cup {"button"}] \/ r = Reset(p)
  BY DEF Cancel, SubmitOther, Becomes, QInv, Typed
<1> HIDE DEF p
<1>4. r.abortable = Nobody
  BY <1>1, <1>3 DEF Page
<1>5. \A u \in Query : Settled(u) \/ Alone(c, u) => Settled(u)'
  BY <1>2 DEF Disturbs, Settled, Alone
<1> QED
  BY <1>4, <1>5 DEF Keeps, Controls

LEMMA SubmitKeeps ==
    ASSUME QInv, NEW c \in Client, NEW q \in Query, NEW s \in Sql, Submit(c, q, s), Controls(c)
    PROVE  /\ Controls(c)'
           /\ Settled(q)' \/ Alone(c, q)'
           /\ \A u \in Query : Settled(u) \/ Alone(c, u) => Settled(u)'
<1> DEFINE p == client[c]
           o == Stopped(Aborted(p))
           r == client'[c]
<1>1. p \in Page /\ o \in Page
  <2>1. p \in Page
    BY DEF QInv, Typed
  <2> QED
    BY <2>1, PageTyped
<1>2. r = [o EXCEPT !.posts = @ \cup {q}, !.waiting = p.abortable = Nobody,
                    !.abortable = IF p.abortable = Nobody \/ p.current # Nobody THEN q ELSE Nobody]
  BY DEF Submit, Becomes, QInv, Typed
<1>3. told' = told /\ Disturbs(Outstanding(p) \cup IF Idle(p) THEN {} ELSE {q})
  BY DEF Submit, Becomes
<1>4. /\ r.posts = o.posts \cup {q} /\ r.abortable \in {q, Nobody} /\ r.polled = o.polled
      /\ r.asked = o.asked /\ r.answers = o.answers /\ r.fetching = o.fetching /\ r.deletes = o.deletes
  <2> HIDE DEF o
  <2> QED
    BY <1>1, <1>2 DEF Page
<1>5. \A u \in Query : Settled(u) \/ Alone(c, u) => Settled(u)'
  BY <1>3 DEF Disturbs, Settled, Alone
<1>6. CASE Idle(p)
  <2>1. /\ p.posts = {} /\ p.asked = {} /\ p.fetching = {} /\ HasAnswers(p) = {}
        /\ p.polled = Nobody /\ p.deletes = {}
    BY <1>6 DEF Idle, Outstanding
  <2>2. Aborted(p) = p
    BY <2>1 DEF Controls, Aborted
  <2>3. /\ o.posts = {} /\ o.asked = {} /\ o.fetching = {} /\ HasAnswers(o) = {}
        /\ o.polled = Nobody /\ o.deletes = {}
    BY <1>1, <2>1, <2>2, StoppedSame
  <2>4. HasAnswers(r) = {}
    BY <1>4, <2>3 DEF HasAnswers
  <2>5. Alone(c, q)'
    BY <1>4, <2>3, <2>4, QueryAssumption DEF Alone, Outstanding
  <2> QED
    BY <1>4, <1>5, <2>5 DEF Controls
<1>7. CASE ~Idle(p)
  <2>1. Settled(q)'
    BY <1>3, <1>7 DEF Disturbs, Settled
  <2> QED
    BY <1>4, <1>5, <2>1 DEF Controls
<1> QED
  BY <1>6, <1>7

LEMMA PageKeeps ==
    ASSUME QInv, WaitInv, NEW c \in Client, SubmitOther(c) \/ Cancel(c) \/ PageStep(c)
    PROVE  Keeps(c)
  BY AnsweredKeeps, PolledKeeps, HandleKeeps, FetchedKeeps, DeleteAnsweredKeeps, DisturbedKeeps
     DEF PageStep, WaitInv

\* What WaitInv says of pages and begun queries.
Pages ==
    /\ \A c \in Client : Controls(c)
    /\ \A q \in Query : Begun(q) => Settled(q) \/ \E c \in Client : Alone(c, q)

LEMMA PagesKept ==
    ASSUME QInv, WaitInv, [Next]_vars
    PROVE  Pages'
<1>1. ASSUME NEW c \in Client, NEW q \in Query, NEW s \in Sql, Submit(c, q, s)
      PROVE  Pages'
  <2>1. \A d \in Client \ {c} : client'[d] = client[d]
    BY <1>1 DEF Submit, Becomes, QInv, Typed
  <2>2. \A d \in Client \ {c} : /\ Controls(d) => Controls(d)'
                                /\ \A u \in Query : Alone(d, u) => Alone(d, u)'
    BY <2>1 DEF Controls, Alone
  <2>3. \A u \in Query \ {q} : Begun(u)' => Begun(u)
    BY <1>1, SubmitStarts DEF Begun
  <2> QED
    BY <1>1, <2>2, <2>3, SubmitKeeps DEF Pages, WaitInv
<1>2. ASSUME NEW c \in Client, SubmitOther(c) \/ Cancel(c) \/ PageStep(c)
      PROVE  Pages'
  <2>1. PageMove(c) /\ Keeps(c)
    BY <1>2, PageMoves, PageKeeps
  <2>2. \A d \in Client \ {c} : client'[d] = client[d]
    BY <2>1 DEF PageMove, Becomes, QInv, Typed
  <2>3. \A d \in Client \ {c} : /\ Controls(d) => Controls(d)'
                                /\ \A u \in Query : Alone(d, u) => Alone(d, u)'
    BY <2>2 DEF Controls, Alone
  <2>4. \A u \in Query : Begun(u)' => Begun(u)
    BY <2>1 DEF PageMove, Begun
  <2> QED
    BY <2>1, <2>3, <2>4 DEF Keeps, Pages, WaitInv
<1>3. ASSUME UNCHANGED pages, \A q \in Query : Begun(q)' => Begun(q)
      PROVE  Pages'
  BY <1>3 DEF pages, Pages, WaitInv, Controls, Alone, Settled
<1>4. ASSUME NEW q \in Query, TaskStep(q)
      PROVE  UNCHANGED pages /\ \A u \in Query : Begun(u)' => Begun(u)
  BY <1>4, TaskMoves DEF Moves, Begun, users
<1>5. /\ \A t \in Table : CreateTable(t) \/ Insert(t) \/ Edit(t) \/ EditFails(t)
                              => UNCHANGED <<pages, task>>
      /\ DropAllTables => UNCHANGED <<pages, task>>
      /\ \A s \in Sql : SelectAtOnce(s) => UNCHANGED <<pages, task>>
  BY DEF CreateTable, Insert, Edit, EditFails, DropAllTables, SelectAtOnce
<1>6. UNCHANGED vars => UNCHANGED <<pages, task>>
  BY DEF vars, users
<1>7. UNCHANGED <<pages, task>> => Pages'
  BY <1>3 DEF Begun
<1> QED
  BY <1>1, <1>2, <1>3, <1>4, <1>5, <1>6, <1>7 DEF Next

LEMMA WaitStep ==
    ASSUME QInv, WaitInv, [Next]_vars
    PROVE  WaitInv'
<1>1. \A q \in Query : Reported(q)'
  <2>1. CASE \E q \in Query : TaskStep(q)
    <3>1. PICK q \in Query : Moves(q)
      BY <2>1, TaskMoves
    <3> QED
      BY <3>1 DEF Moves, WaitInv, Reported
  <2>2. CASE ~ \E q \in Query : TaskStep(q)
    BY <2>2, OthersMove DEF WaitInv, Reported
  <2> QED
    BY <2>1, <2>2
<1> QED
  BY <1>1, PagesKept DEF WaitInv, Pages

LEMMA WaitInvariant == Spec => []WaitInv
<1>1. Init => WaitInv
  BY DEF Init, WaitInv, Controls, FreshPage, Begun, Reported
<1>2. QInv /\ WaitInv /\ [Next]_vars => WaitInv'
  BY WaitStep
<1> QED
  BY <1>1, <1>2, Invariant, PTL DEF Spec

\* No query whose page was left alone is lost: its end was shown, or the page
\* waits for an answer about it, or polls it and finds how it ended or a task
\* whose next step exists - however tables were dropped, other queries were
\* cancelled and other pages behaved meanwhile (app.js executeQuery and
\* pollProgress, execute_async_internal).
THEOREM NoPageAbandoned == Spec => []PagesServed
<1>1. ASSUME QInv, WaitInv PROVE PagesServed
  <2> SUFFICES ASSUME NEW q \in Query, Begun(q), NEW c \in Client, Alone(c, q), client[c].polled = q
               PROVE  status[q] \in Ended \/ Able(q)
    <3>1. ASSUME NEW q \in Query, NEW c \in Client, Alone(c, q)
          PROVE  \/ q \in client[c].posts \cup client[c].fetching \cup HasAnswers(client[c])
                 \/ client[c].polled = q
      BY <3>1 DEF Alone, Outstanding
    <3> QED
      BY <1>1, <3>1 DEF PagesServed, WaitInv
  <2>1. task[q].pc \in Steps \ {"none"}
    BY <1>1 DEF Begun, QInv, Typed
  <2>2. CASE task[q].pc = "done"
    BY <1>1, <2>2 DEF WaitInv, Reported
  <2>3. CASE task[q].pc = "scan"
    <3>1. Len(task[q].read) < Len(From[sql[q]]) /\ Len(task[q].read) \in Nat /\ sql[q] \in Sql
      BY <1>1, <2>3, StepsLeftType DEF QInv, Control
    <3>2. Next1(q) \in exists => Stored(Next1(q)).inserts \in Nat
      BY <1>1 DEF QInv, Typed, Stored, Contents
    <3> QED
      BY <2>3, <3>1, <3>2 DEF Able
  <2>4. CASE task[q].pc \in {"lookup", "plan", "put", "complete", "store", "fail"}
    BY <2>4 DEF Able
  <2> QED
    BY <2>1, <2>2, <2>3, <2>4 DEF Steps
<1>2. QInv /\ WaitInv => PagesServed
  BY <1>1
<1> QED
  BY <1>2, Invariant, WaitInvariant, PTL

\* The task of a SELECT ends after at most n + 6 steps of its own, n being the
\* tables of its FROM clause: no write, no cancellation, no other query and no
\* page sets it back.
THEOREM TasksEnd == Spec => [][TasksAdvance]_vars
<1>1. ASSUME QInv, [Next]_vars, \A q \in Query : StepsLeft(q)' \in Nat PROVE TasksAdvance
  <2> SUFFICES ASSUME NEW q \in Query PROVE Advances(q)
    BY DEF TasksAdvance
  <2>1. StepsLeft(q) \in Nat /\ StepsLeft(q)' \in Nat
    BY <1>1, StepsLeftType
  <2>2. CASE TaskStep(q)
    <3>1. Moves(q)
      BY <1>1, <2>2, TaskMoves
    <3> QED
      BY <2>1, <3>1 DEF Moves, Advances
  <2>3. CASE ~TaskStep(q)
    <3>1. task[q].pc # "none" => task'[q] = task[q] /\ sql'[q] = sql[q]
      <4>1. CASE \E p \in Query : TaskStep(p)
        <5>1. PICK p \in Query : TaskStep(p)
          BY <4>1
        <5>2. Moves(p) /\ p # q
          BY <1>1, <2>3, <5>1, TaskMoves
        <5> QED
          BY <5>2 DEF Moves
      <4>2. CASE ~ \E p \in Query : TaskStep(p)
        BY <1>1, <4>2, OthersMove
      <4> QED
        BY <4>1, <4>2
    <3>2. task[q].pc # "none" => StepsLeft(q)' = StepsLeft(q)
      BY <3>1 DEF StepsLeft
    <3> QED
      BY <2>1, <2>3, <3>1, <3>2 DEF Advances
  <2> QED
    BY <2>2, <2>3
<1>2. QInv => \A q \in Query : StepsLeft(q) \in Nat
  BY StepsLeftType
<1>3. QInv /\ (\A q \in Query : StepsLeft(q) \in Nat) /\ (\A q \in Query : StepsLeft(q) \in Nat)' /\ [Next]_vars
      => [TasksAdvance]_vars
  BY <1>1
<1> QED
  BY <1>2, <1>3, Invariant, PTL DEF Spec
=============================================================================
