--------------------------- MODULE DatabaseProofs ---------------------------
(***************************************************************************)
(* What Database promises, for any tables, rows, statements and bounds:    *)
(* the copies of a table agree until something sets them apart, no         *)
(* buffered row is forgotten, the cache tells the truth, no row of a       *)
(* dropped table comes back, and an UPDATE does what its clauses say.      *)
(*                                                                         *)
(* The rows that an UPDATE leaves are those after its last assignment: the *)
(* lemmas about them go by induction on the number of assignments.  The    *)
(* first three promises do not need them: an UPDATE that changes its table *)
(* is on record in diverged, the files are not its concern, and the cache  *)
(* entry goes (or the table is on record in halfEdited).                   *)
(***************************************************************************)
EXTENDS Database, SequenceLemmas, FiniteSetTheorems

(* What the first three rest on: a table in memory is in the schema, one   *)
(* outside the schema has no cached answer, and one outside memory has no  *)
(* write buffer.                                                           *)
Shape ==
    /\ schema \subseteq Table
    /\ loaded \subseteq schema
    /\ DOMAIN mem = Table /\ DOMAIN buffer = Table /\ DOMAIN catalog = Table
    /\ DOMAIN named = Table /\ DOMAIN snap = Table /\ DOMAIN cache = Table
    /\ \A t \in Table \ loaded : buffer[t] = {}
    /\ \A t \in Table \ schema : cache[t] = NotCached
    /\ buffered \subseteq used

----------------------------------------------------------------------------
(* What an UPDATE leaves, by induction on its assignments.                 *)

\* The first n assignments are carried out and then no more.
Leads(clause, n) ==
    /\ n \in 0..Len(clause)
    /\ \A i \in 1..n : Evaluates(clause[i])
    /\ n < Len(clause) => ~Evaluates(clause[n + 1])

LEMMA AssignmentsTyped ==
    ASSUME NEW clause \in Assignments
    PROVE  Len(clause) \in Nat /\ \A i \in 1..Len(clause) : clause[i].column \in Column
<1>1. clause \in Seq(SetClause)
  BY ExprAssumption
<1>2. \A a \in SetClause : a.column \in Column
  BY DEF SetClause
<1> QED
  BY <1>1, <1>2

LEMMA AppliedLeads ==
    ASSUME NEW clause \in Assignments
    PROVE  Leads(clause, Applied(clause))
<1>1. Len(clause) \in Nat
  BY AssignmentsTyped
<1> DEFINE ns == { n \in 0..Len(clause) : \A i \in 1..n : Evaluates(clause[i]) }
<1>2. ns \in SUBSET (0..Len(clause)) /\ 0 \in ns
  BY <1>1
<1>3. PICK n \in ns : \A m \in ns : m <= n
  <2> HIDE DEF ns
  <2> QED
    BY <1>1, <1>2, BoundedHasHighest
<1>4. ASSUME n < Len(clause), Evaluates(clause[n + 1]) PROVE FALSE
  <2>1. n + 1 \in ns
    BY <1>1, <1>4
  <2> QED
    BY <1>3, <2>1
<1>5. Leads(clause, n)
  BY <1>4 DEF Leads
<1> QED
  BY <1>5 DEF Applied, Leads

\* after is the function by which Updated is defined.
UpdatedBy(after, rows, clause, f) ==
    /\ after[0] = rows
    /\ \A n \in 1..Applied(clause) : after[n] = Assigned(after[n - 1], clause[n], f)
    /\ Updated(rows, clause, f) = after[Applied(clause)]

HasUpdated(rows, clause, f) ==
    \E after \in [0..Applied(clause) -> SUBSET Row] : UpdatedBy(after, rows, clause, f)

\* One assignment: which rows there are, and which of them it may change.
OneColumn(rows, a, f, new) ==
    /\ new \in SUBSET Row
    /\ Ids(new) = Ids(rows)
    /\ \A r \in rows : ~Matches(r, f) => r \in new
    /\ \A r \in new : \E old \in rows :
         r.id = old.id /\ \A c \in Column \ {a.column} : r.at[c] = old.at[c]

LEMMA AssignedRows ==
    ASSUME NEW rows \in SUBSET Row, NEW a, a.column \in Column, Evaluates(a), NEW f
    PROVE  OneColumn(rows, a, f, Assigned(rows, a, f))
<1> DEFINE new(r) == IF Matches(r, f) THEN [r EXCEPT !.at[a.column] = a.expr] ELSE r
<1>1. ASSUME NEW r \in rows
      PROVE  /\ new(r) \in Row /\ new(r).id = r.id /\ (~Matches(r, f) => new(r) = r)
             /\ \A c \in Column \ {a.column} : new(r).at[c] = r.at[c]
  <2>1. r \in Row /\ r.id \in Id /\ r.at \in [Column -> Value]
    BY DEF Row
  <2>2. CASE Matches(r, f)
    <3>1. new(r) = [r EXCEPT !.at = [r.at EXCEPT ![a.column] = a.expr]]
      BY <2>1, <2>2 DEF Row
    <3>2. [r.at EXCEPT ![a.column] = a.expr] \in [Column -> Value]
      BY <2>1 DEF Evaluates
    <3> QED
      BY <2>1, <2>2, <3>1, <3>2 DEF Row
  <2>3. CASE ~Matches(r, f)
    BY <2>1, <2>3
  <2> QED
    BY <2>2, <2>3
<1>2. Assigned(rows, a, f) = { new(r) : r \in rows }
  BY DEF Assigned
<1> HIDE DEF new
<1> QED
  BY <1>1, <1>2 DEF Ids, OneColumn

LEMMA UpdateUnfold ==
    ASSUME NEW rows \in SUBSET Row, NEW clause \in Assignments, NEW f
    PROVE  HasUpdated(rows, clause, f)
<1> DEFINE n == Applied(clause)
           W == SUBSET Row
           step == [i \in 1..n |-> [rs \in W |-> Assigned(rs, clause[i], f)]]
           Def(g) == [i \in 0..n |-> IF i = 0 THEN rows ELSE Assigned(g[i - 1], clause[i], f)]
           after == CHOOSE g : g = Def(g)
<1>1. n \in Nat
  BY AppliedLeads, AssignmentsTyped DEF Leads
<1>2. \A i \in 1..n : clause[i].column \in Column /\ Evaluates(clause[i])
  BY AppliedLeads, AssignmentsTyped DEF Leads
<1>3. \A i \in 1..n : \A rs \in W : Assigned(rs, clause[i], f) \in W
  BY <1>2, AssignedRows DEF OneColumn
<1>4. Updated(rows, clause, f) = after[n] /\ rows \in W
  BY DEF Updated
<1> HIDE DEF n, W
<1>5. step \in [1..n -> [W -> W]]
  BY <1>3
<1>6. \A i \in 1..n : \A rs \in W : step[i][rs] = Assigned(rs, clause[i], f)
  OBVIOUS
<1> HIDE DEF step
<1>7. PICK g \in [0..n -> W] : g[0] = rows /\ \A i \in 1..n : g[i] = step[i][g[i - 1]]
  <2>1. Solvable(W, n, rows, step)
    BY <1>1, <1>4, <1>5, Recursion
  <2> QED
    BY <2>1 DEF Solvable, Solves
<1>8. \A i \in 1..n : i - 1 \in 0..n /\ i # 0
  BY <1>1
<1>9. \A i \in 1..n : g[i] = Assigned(g[i - 1], clause[i], f)
  BY <1>6, <1>7, <1>8
<1>10. g = Def(g)
  <2>1. \A i \in 0..n : g[i] = IF i = 0 THEN rows ELSE Assigned(g[i - 1], clause[i], f)
    <3>1. \A i \in 0..n : i = 0 \/ i \in 1..n
      BY <1>1
    <3> QED
      BY <1>7, <1>8, <1>9, <3>1
  <2> QED
    BY <1>7, <2>1
<1>11. after = Def(after)
  BY <1>10
<1> HIDE DEF after
<1>12. after[0] = rows /\ \A i \in 1..n : after[i] = Assigned(after[i - 1], clause[i], f)
  <2>1. \A i \in 0..n : after[i] = Def(after)[i]
    BY <1>11
  <2>2. 0 \in 0..n /\ \A i \in 1..n : i \in 0..n /\ i # 0
    BY <1>1
  <2> QED
    BY <2>1, <2>2
<1>13. \A i \in 0..n : after[i] \in W
  <2> DEFINE T == { k \in Nat : k <= n => after[k] \in W }
  <2>1. 0 \in T
    BY <1>4, <1>12
  <2>2. ASSUME NEW k \in T PROVE k + 1 \in T
    <3> SUFFICES ASSUME k + 1 <= n PROVE after[k + 1] \in W
      OBVIOUS
    <3>1. k + 1 \in 1..n /\ k + 1 - 1 = k /\ after[k] \in W
      BY <1>1
    <3> QED
      BY <1>3, <1>12, <3>1
  <2>3. T = Nat
    <3> HIDE DEF T
    <3>1. T \in SUBSET Nat
      BY DEF T
    <3> QED
      BY <2>1, <2>2, <3>1, SetInduction
  <2> QED
    BY <1>1, <2>3
<1>14. after \in [0..n -> W]
  <2>1. DOMAIN after = 0..n /\ after = [i \in 0..n |-> after[i]]
    BY <1>11
  <2> QED
    BY <1>13, <2>1
<1> QED
  BY <1>4, <1>12, <1>14 DEF n, W, HasUpdated, UpdatedBy

\* An UPDATE keeps the rows it had, by their identities, and leaves those alone
\* that its WHERE clause does not select, however many assignments it makes.
LEMMA UpdatedRows ==
    ASSUME NEW rows \in SUBSET Row, NEW clause \in Assignments, NEW f
    PROVE  /\ Updated(rows, clause, f) \in SUBSET Row
           /\ Ids(Updated(rows, clause, f)) = Ids(rows)
           /\ \A r \in rows : ~Matches(r, f) => r \in Updated(rows, clause, f)
           /\ \A r \in Updated(rows, clause, f) : \E old \in rows : AgreeBut(clause, r, old)
<1>1. PICK after \in [0..Applied(clause) -> SUBSET Row] : UpdatedBy(after, rows, clause, f)
  BY UpdateUnfold DEF HasUpdated
<1>2. Applied(clause) \in Nat /\ \A i \in 1..Applied(clause) : clause[i].column \in Column /\ Evaluates(clause[i])
  BY AppliedLeads, AssignmentsTyped DEF Leads
<1>2a. Applied(clause) <= Len(clause) /\ Len(clause) \in Nat
  BY AppliedLeads, AssignmentsTyped DEF Leads
<1> DEFINE T == { k \in Nat : k <= Applied(clause) =>
                    /\ Ids(after[k]) = Ids(rows)
                    /\ \A r \in rows : ~Matches(r, f) => r \in after[k]
                    /\ \A r \in after[k] : \E old \in rows : AgreeBut(clause, r, old) }
<1>3. 0 \in T
  BY <1>1 DEF UpdatedBy, AgreeBut
<1>4. ASSUME NEW k \in T PROVE k + 1 \in T
  <2> DEFINE Kept(rs) == /\ Ids(rs) = Ids(rows)
                         /\ \A r \in rows : ~Matches(r, f) => r \in rs
  <2> SUFFICES ASSUME k + 1 <= Applied(clause)
               PROVE  /\ Kept(after[k + 1])
                      /\ \A r \in after[k + 1] : \E old \in rows : AgreeBut(clause, r, old)
    OBVIOUS
  <2>1. k + 1 \in 1..Applied(clause) /\ k + 1 - 1 = k /\ k \in 0..Applied(clause)
    BY <1>2
  <2>2. Kept(after[k]) /\ \A r \in after[k] : \E old \in rows : AgreeBut(clause, r, old)
    BY <2>1
  <2> DEFINE a == clause[k + 1]
             rs == after[k]
  <2>3. after[k + 1] = Assigned(rs, a, f) /\ rs \in SUBSET Row
    BY <1>1, <2>1 DEF UpdatedBy
  <2>4. a.column \in Column /\ Evaluates(a)
    BY <1>2, <2>1
  <2> HIDE DEF a, rs
  <2>5. OneColumn(rs, a, f, after[k + 1])
    BY <2>3, <2>4, AssignedRows
  <2>6. ASSUME NEW r \in after[k + 1] PROVE \E old \in rows : AgreeBut(clause, r, old)
    <3>1. PICK mid \in rs : r.id = mid.id /\ \A c \in Column \ {a.column} : r.at[c] = mid.at[c]
      BY <2>5 DEF OneColumn
    <3>2. PICK old \in rows : AgreeBut(clause, mid, old)
      BY <2>2 DEF rs
    <3>3. k + 1 \in 1..Len(clause)
      BY <1>2, <1>2a, <2>1
    <3> QED
      BY <3>1, <3>2, <3>3 DEF AgreeBut, a
  <2> QED
    BY <2>2, <2>5, <2>6 DEF OneColumn, rs
<1>5. T = Nat
  <2> HIDE DEF T
  <2>1. T \in SUBSET Nat
    BY DEF T
  <2> QED
    BY <1>3, <1>4, <2>1, SetInduction
<1> QED
  BY <1>1, <1>2, <1>5 DEF UpdatedBy

\* The cells of a matching row after the first n assignments.
Cells(at, clause, n) ==
    [c \in Column |-> IF \E i \in 1..n : clause[i].column = c
                      THEN clause[Max({ i \in 1..n : clause[i].column = c })].expr
                      ELSE at[c]]

LEMMA CellsNext ==
    ASSUME NEW at, NEW clause, NEW n \in Nat, clause[n + 1].column \in Column
    PROVE  Cells(at, clause, n + 1)
             = [Cells(at, clause, n) EXCEPT ![clause[n + 1].column] = clause[n + 1].expr]
<1> DEFINE I(m, c) == { i \in 1..m : clause[i].column = c }
           New(c) == IF I(n + 1, c) # {} THEN clause[Max(I(n + 1, c))].expr ELSE at[c]
           Old(c) == IF I(n, c) # {} THEN clause[Max(I(n, c))].expr ELSE at[c]
<1>1. Cells(at, clause, n + 1) = [c \in Column |-> New(c)]
  BY DEF Cells
<1>2. Cells(at, clause, n) = [c \in Column |-> Old(c)]
  BY DEF Cells
<1>3. ASSUME NEW c \in Column, c # clause[n + 1].column PROVE New(c) = Old(c)
  <2>1. I(n + 1, c) = I(n, c)
    BY <1>3
  <2> HIDE DEF I
  <2> QED
    BY <2>1
<1>4. ASSUME NEW c \in Column, c = clause[n + 1].column PROVE New(c) = clause[n + 1].expr
  <2>1. n + 1 \in I(n + 1, c) /\ I(n + 1, c) \subseteq 1..(n + 1)
    BY <1>4
  <2> HIDE DEF I
  <2>2. Max(I(n + 1, c)) = n + 1
    BY <2>1 DEF Max
  <2> QED
    BY <2>1, <2>2
<1> HIDE DEF New, Old
<1> QED
  BY <1>1, <1>2, <1>3, <1>4

\* What the first n assignments make of row r.
After(r, clause, f, n) ==
    IF Matches(r, f) THEN [r EXCEPT !.at = Cells(r.at, clause, n)] ELSE r

\* As long as the rows that match go on matching, the assignments may as well
\* be made at once.
LEMMA UpdatedAtOnce ==
    ASSUME NEW rows \in SUBSET Row, NEW clause \in Assignments, NEW f \in Filter,
           Applied(clause) = Len(clause), KeepsMatching(clause, f)
    PROVE  Updated(rows, clause, f) = AtOnce(rows, clause, f)
<1>1. PICK after \in [0..Applied(clause) -> SUBSET Row] : UpdatedBy(after, rows, clause, f)
  BY UpdateUnfold DEF HasUpdated
<1> DEFINE n == Len(clause)
<1>2. n \in Nat /\ \A i \in 1..n : clause[i].column \in Column
  BY AssignmentsTyped
<1>3. /\ after[0] = rows
      /\ \A k \in 1..n : after[k] = Assigned(after[k - 1], clause[k], f)
      /\ Updated(rows, clause, f) = after[n]
  BY <1>1 DEF UpdatedBy
<1>4. /\ f \subseteq [Column -> Value]
      /\ \A i \in 1..(n - 1) : \A v \in f : [v EXCEPT ![clause[i].column] = clause[i].expr] \in f
  BY FilterAssumption DEF KeepsMatching
<1> HIDE DEF n
<1>5. \A r \in rows : r.at \in [Column -> Value] /\ r = [id |-> r.id, at |-> r.at]
  BY DEF Row
<1>6. \A r \in rows : Cells(r.at, clause, 0) = r.at
  BY <1>5 DEF Cells
<1> DEFINE T == { k \in Nat : k <= n =>
                    /\ after[k] = { After(r, clause, f, k) : r \in rows }
                    /\ k < n => \A r \in rows : Matches(r, f) => Cells(r.at, clause, k) \in f }
<1>7. 0 \in T
  <2>1. \A r \in rows : After(r, clause, f, 0) = r
    BY <1>5, <1>6 DEF After
  <2>2. { After(r, clause, f, 0) : r \in rows } = rows
    BY <2>1
  <2>3. \A r \in rows : Matches(r, f) => Cells(r.at, clause, 0) \in f
    BY <1>6 DEF Matches
  <2> QED
    BY <1>3, <2>2, <2>3
<1>8. ASSUME NEW k \in T PROVE k + 1 \in T
  <2> SUFFICES ASSUME k + 1 <= n
               PROVE  /\ after[k + 1] = { After(r, clause, f, k + 1) : r \in rows }
                      /\ k + 1 < n => \A r \in rows : Matches(r, f) => Cells(r.at, clause, k + 1) \in f
    OBVIOUS
  <2>1. k + 1 \in 1..n /\ k + 1 - 1 = k /\ k \in Nat
    BY <1>2
  <2> DEFINE a == clause[k + 1]
  <2>2. /\ after[k] = { After(r, clause, f, k) : r \in rows }
        /\ \A r \in rows : Matches(r, f) => Cells(r.at, clause, k) \in f
        /\ after[k + 1] = Assigned(after[k], a, f)
    BY <1>2, <1>3, <2>1
  <2>3. \A r \in rows : Cells(r.at, clause, k + 1) = [Cells(r.at, clause, k) EXCEPT ![a.column] = a.expr]
    BY <1>2, <2>1, CellsNext
  <2> DEFINE New(r) == IF Matches(r, f) THEN [r EXCEPT !.at[a.column] = a.expr] ELSE r
  <2>4. ASSUME NEW r \in rows PROVE New(After(r, clause, f, k)) = After(r, clause, f, k + 1)
    <3>1. CASE Matches(r, f)
      <4> DEFINE at == Cells(r.at, clause, k)
      <4>1. After(r, clause, f, k) = [id |-> r.id, at |-> at] /\ at \in f
        BY <1>5, <2>2, <3>1 DEF After
      <4>2. After(r, clause, f, k + 1) = [id |-> r.id, at |-> [at EXCEPT ![a.column] = a.expr]]
        BY <1>5, <2>3, <3>1 DEF After
      <4> HIDE DEF at, a
      <4>3. [[id |-> r.id, at |-> at] EXCEPT !.at[a.column] = a.expr]
              = [id |-> r.id, at |-> [at EXCEPT ![a.column] = a.expr]]
        OBVIOUS
      <4> QED
        BY <4>1, <4>2, <4>3 DEF Matches
    <3>2. CASE ~Matches(r, f)
      BY <3>2 DEF After
    <3> QED
      BY <3>1, <3>2
  <2>5. after[k + 1] = { New(x) : x \in after[k] }
    BY <2>2 DEF Assigned
  <2>6. after[k + 1] = { After(r, clause, f, k + 1) : r \in rows }
    <3> HIDE DEF New
    <3> QED
      BY <2>2, <2>4, <2>5
  <2>7. ASSUME k + 1 < n, NEW r \in rows, Matches(r, f) PROVE Cells(r.at, clause, k + 1) \in f
    <3>1. k + 1 \in 1..(n - 1)
      BY <1>2, <2>1, <2>7
    <3> QED
      BY <1>4, <2>2, <2>3, <2>7, <3>1
  <2> QED
    BY <2>6, <2>7
<1>9. T = Nat
  <2> HIDE DEF T
  <2>1. T \in SUBSET Nat
    BY DEF T
  <2> QED
    BY <1>7, <1>8, <2>1, SetInduction
<1>10. Updated(rows, clause, f) = { After(r, clause, f, n) : r \in rows }
  BY <1>2, <1>3, <1>9
<1>11. ASSUME NEW at
       PROVE  Cells(at, clause, n)
                = [c \in Column |->
                     IF \E i \in 1..Len(clause) : clause[i].column = c
                     THEN clause[SelectLastInSeq(clause, LAMBDA a : a.column = c)].expr
                     ELSE at[c]]
  <2>1. ASSUME NEW c \in Column, \E i \in 1..Len(clause) : clause[i].column = c
        PROVE  SelectLastInSeq(clause, LAMBDA a : a.column = c)
                 = Max({ i \in 1..Len(clause) : clause[i].column = c })
    BY <2>1 DEF SelectLastInSeq
  <2> QED
    BY <2>1 DEF Cells, n
<1>12. AtOnce(rows, clause, f) = { After(r, clause, f, n) : r \in rows }
  BY <1>11 DEF AtOnce, After
<1> QED
  BY <1>10, <1>12

----------------------------------------------------------------------------
(* Flushing.                                                               *)

\* A flush moves rows from the buffer to the files, or leaves them in both,
\* and has no effect on the tables it is not for.
LEMMA FlushMoves ==
    ASSUME NEW buf, NEW o, Flush(buf, o)
    PROVE  /\ DOMAIN buffer' = Table /\ DOMAIN named' = Table /\ DOMAIN snap' = Table
           /\ \A t \in Table : named'[t] \cup buffer'[t] = named[t] \cup buf[t]
           /\ \A t \in Table : buf[t] = {} => buffer'[t] = {}
           /\ \A t \in Table \ DOMAIN o :
                buffer'[t] = buf[t] /\ named'[t] = named[t] /\ snap'[t] = snap[t]
  BY DEF Flush, Ended

LEMMA OutcomesDomain ==
    ASSUME NEW ts, NEW o \in Outcomes(ts)
    PROVE  DOMAIN o = ts
  BY DEF Outcomes

\* The flushes of a round leave everything else as it is.
LEMMA FlushesKeep ==
    ASSUME NEW ts, ts \subseteq Pending, DOMAIN buffer = Table, FlushTables(ts)
    PROVE  /\ DOMAIN buffer' = Table /\ DOMAIN named' = Table /\ DOMAIN snap' = Table
           /\ \A t \in Table : named'[t] \cup buffer'[t] = named[t] \cup buffer[t]
           /\ \A t \in Table : buffer[t] = {} =>
                buffer'[t] = {} /\ named'[t] = named[t] /\ snap'[t] = snap[t]
<1>1. PICK o \in Outcomes(ts) : Flush(buffer, o)
  BY DEF FlushTables
<1>2. DOMAIN o = ts
  BY OutcomesDomain
<1>3. \A t \in Table : buffer[t] = {} => t \notin ts
  BY DEF Pending
<1> QED
  BY <1>1, <1>2, <1>3, FlushMoves

\* The rows on disk or in a buffer, by table.
Held == UNION { Ids(named[t] \cup buffer[t]) : t \in Table }

LEMMA HeldIsBoth == OnDisk \cup InBuffer = Held
  BY DEF OnDisk, InBuffer, Held, Ids

LEMMA HeldKept ==
    ASSUME \A t \in Table : named[t] \cup buffer[t] \subseteq named'[t] \cup buffer'[t]
    PROVE  Held \subseteq Held'
  BY DEF Held, Ids

----------------------------------------------------------------------------
(* An INSERT without its bounds: rows of new ids, which a flush may store.  *)

Buffered(t, rows) ==
    IF catalog[t] # "none" THEN [buffer EXCEPT ![t] = @ \cup rows] ELSE buffer

Inserted(t, ids, rows, o) ==
    /\ t \in loaded
    /\ Ids(rows) = ids /\ rows \subseteq Row /\ ids \subseteq Id \ used
    /\ DOMAIN o \subseteq {t} /\ CountFaults(Cardinality(Failed(o)))
    /\ Flush(Buffered(t, rows), o)
    /\ mem' = [mem EXCEPT ![t] = @ \cup rows]
    /\ used' = used \cup ids
    /\ buffered' = IF catalog[t] = "none" THEN buffered ELSE buffered \cup ids
    /\ cache' = [cache EXCEPT ![t] = NotCached]
    /\ halfEdited' = halfEdited \ {t}
    /\ UNCHANGED <<loaded, catalog, schema, poisoned, starts, gone, lost, diverged>>

LEMMA InsertParts ==
    ASSUME NEW t \in Table, Insert(t)
    PROVE  \E ids, rows, o : Inserted(t, ids, rows, o)
<1>1. PICK n \in 1..MaxBatch : \E ids \in Fresh(n) : \E new \in [ids -> NewRow] : \E flushes \in BOOLEAN :
        /\ InsertRows(t, { [id |-> i, at |-> new[i]] : i \in ids }, flushes)
        /\ used' = used \cup ids
        /\ buffered' = IF catalog[t] = "none" THEN buffered ELSE buffered \cup ids
  BY DEF Insert
<1>2. PICK ids \in Fresh(n) : \E new \in [ids -> NewRow] : \E flushes \in BOOLEAN :
        /\ InsertRows(t, { [id |-> i, at |-> new[i]] : i \in ids }, flushes)
        /\ used' = used \cup ids
        /\ buffered' = IF catalog[t] = "none" THEN buffered ELSE buffered \cup ids
  BY <1>1
<1>3. PICK new \in [ids -> NewRow], flushes \in BOOLEAN :
        /\ InsertRows(t, { [id |-> i, at |-> new[i]] : i \in ids }, flushes)
        /\ used' = used \cup ids
        /\ buffered' = IF catalog[t] = "none" THEN buffered ELSE buffered \cup ids
  BY <1>2
<1> DEFINE rows == { [id |-> i, at |-> new[i]] : i \in ids }
<1>4. Ids(rows) = ids
  <2>1. \A i \in ids : [id |-> i, at |-> new[i]].id = i
    OBVIOUS
  <2>2. \A i \in ids : \E r \in rows : r.id = i
    BY <2>1
  <2>3. \A r \in rows : r.id \in ids
    BY <2>1
  <2> HIDE DEF rows
  <2> QED
    BY <2>2, <2>3 DEF Ids
<1>5. PICK o \in Outcomes(IF catalog[t] # "none" /\ flushes THEN {t} ELSE {}) :
        Flush(Buffered(t, rows), o) /\ CountFaults(Cardinality(Failed(o)))
  BY <1>3 DEF InsertRows, Buffered
<1>6. DOMAIN o \subseteq {t}
  BY <1>5, OutcomesDomain
<1>7. t \in loaded /\ mem' = [mem EXCEPT ![t] = @ \cup rows] /\ UNCHANGED <<loaded, catalog>>
  BY <1>3 DEF InsertRows
<1>8. /\ cache' = [cache EXCEPT ![t] = NotCached] /\ halfEdited' = halfEdited \ {t}
      /\ UNCHANGED <<schema, poisoned, starts, gone, lost, diverged>>
  BY DEF Insert, Invalidate
<1>9. ids \subseteq Id \ used
  BY DEF Fresh
<1>10. rows \subseteq Row
  <2>1. \A i \in ids : new[i] \in [Column -> Value] /\ i \in Id
    BY <1>9, NewRowAssumption
  <2> QED
    BY <2>1 DEF Row
<1> HIDE DEF rows
<1> QED
  BY <1>3, <1>4, <1>5, <1>6, <1>7, <1>8, <1>9, <1>10 DEF Inserted, rows

----------------------------------------------------------------------------
(* The shape.                                                              *)

LEMMA InitShape == Init => Shape
  BY DEF Init, StorageInit, Shape

LEMMA ShapeKept == Shape /\ [Next]_vars => Shape'
<1> SUFFICES ASSUME Shape, [Next]_vars PROVE Shape'
  OBVIOUS
<1> USE DEF Shape
<1>1. ASSUME NEW t \in Table, CreateTable(t) PROVE Shape'
  BY <1>1 DEF CreateTable, CreateTableWithSchema
<1>2. ASSUME NEW t \in Table, Insert(t) PROVE Shape'
  <2>1. PICK ids, rows, o : Inserted(t, ids, rows, o)
    BY <1>2, InsertParts
  <2>2. \A u \in Table \ loaded : Buffered(t, rows)[u] = {}
    BY <2>1 DEF Inserted, Buffered
  <2>3. /\ DOMAIN buffer' = Table /\ DOMAIN named' = Table /\ DOMAIN snap' = Table
        /\ \A u \in Table \ loaded : buffer'[u] = {}
    BY <2>1, <2>2, FlushMoves DEF Inserted
  <2> QED
    BY <2>1, <2>3 DEF Inserted
<1>3. ASSUME NEW t \in Table, InsertPanics(t) PROVE Shape'
  BY <1>3 DEF InsertPanics, storageVars, history
<1>4. ASSUME NEW t \in Table, Select(t) PROVE Shape'
  <2>1. FlushTables(Pending \cap {t}) /\ t \in schema
        /\ cache' = [cache EXCEPT ![t] = Scanned(t)]
        /\ UNCHANGED <<loaded, mem, catalog, schema, poisoned, starts, history>>
    BY <1>4 DEF Select
  <2> QED
    BY <2>1, FlushesKeep DEF history
<1>5. ASSUME NEW t \in Table, NEW clause \in Assignments, NEW f \in Filter,
             Update(t, clause, f) \/ UpdateFails(t, clause, f) \/ UpdatePanics(t, clause, f)
      PROVE  Shape'
  <2>1. /\ UNCHANGED <<loaded, buffer, catalog, named, snap, schema, used, buffered>>
        /\ \E rows : mem' = mem \/ mem' = [mem EXCEPT ![t] = rows]
        /\ cache' = cache \/ cache' = [cache EXCEPT ![t] = NotCached]
    BY <1>5 DEF Update, UpdateFails, UpdatePanics, ChangeMemory, Invalidate, storageVars
  <2> QED
    BY <2>1
<1>6. ASSUME NEW t \in Table, NEW f \in Filter, Delete(t, f) PROVE Shape'
  BY <1>6 DEF Delete, ChangeMemory, Invalidate
<1>7. ASSUME DropAllTables PROVE Shape'
  BY <1>7 DEF DropAllTables, DropTables
<1>8. ASSUME FlushDue \/ SafetyFlush PROVE Shape'
  <2>1. PICK ts \in SUBSET Pending : FlushTables(ts)
    BY <1>8 DEF FlushDue, SafetyFlush
  <2>2. UNCHANGED <<loaded, mem, catalog, schema, cache, history>>
    BY <1>8 DEF FlushDue, SafetyFlush
  <2> QED
    BY <2>1, <2>2, FlushesKeep DEF history
<1>9. ASSUME NEW loads \in BOOLEAN, Restart(loads) PROVE Shape'
  BY <1>9 DEF Restart, Reopen, Readable
<1>10. CASE UNCHANGED vars
  BY <1>10 DEF vars, storageVars, history
<1> QED
  BY <1>1, <1>2, <1>3, <1>4, <1>5, <1>6, <1>7, <1>8, <1>9, <1>10 DEF Next

----------------------------------------------------------------------------
(* The statements that change rows in memory only, and the flushes.        *)

\* What an UPDATE in all its outcomes, or a DELETE, has in common.
Edited(t) ==
    /\ UNCHANGED <<loaded, buffer, catalog, named, snap, schema, used, buffered, gone, lost>>
    /\ \A u \in Table \ {t} : mem'[u] = mem[u] /\ cache'[u] = cache[u]
    /\ mem'[t] = mem[t] \/ t \in diverged'
    /\ diverged \subseteq diverged'
    /\ \/ cache'[t] = NotCached
       \/ cache'[t] = cache[t] /\ (mem'[t] = mem[t] \/ t \in halfEdited')
    /\ halfEdited \ {t} \subseteq halfEdited'
    /\ t \in halfEdited => t \in halfEdited' \/ cache'[t] = NotCached

LEMMA EditParts ==
    ASSUME Shape, NEW t \in Table, NEW f \in Filter,
           \/ Delete(t, f)
           \/ \E clause \in Assignments :
                 Update(t, clause, f) \/ UpdateFails(t, clause, f) \/ UpdatePanics(t, clause, f)
    PROVE  Edited(t)
<1>1. ASSUME Delete(t, f) PROVE Edited(t)
  BY <1>1 DEF Delete, ChangeMemory, Invalidate, Diverge, Edited, Shape
<1>2. ASSUME NEW clause \in Assignments, Update(t, clause, f) PROVE Edited(t)
  BY <1>2 DEF Update, ChangeMemory, Invalidate, Diverge, Edited, Shape
<1>3. ASSUME NEW clause \in Assignments, UpdateFails(t, clause, f) PROVE Edited(t)
  BY <1>3 DEF UpdateFails, ChangeMemory, Diverge, Edited, Shape
<1>4. ASSUME NEW clause \in Assignments, UpdatePanics(t, clause, f) PROVE Edited(t)
  BY <1>4 DEF UpdatePanics, ChangeMemory, Diverge, Edited, Shape, storageVars
<1> QED
  BY <1>1, <1>2, <1>3, <1>4

\* A SELECT, the background flush and the list of tables.
Flushed ==
    /\ \E ts \in SUBSET Pending : FlushTables(ts)
    /\ UNCHANGED <<loaded, mem, catalog, schema, poisoned, starts, history>>
    /\ \/ cache' = cache
       \/ \E t \in schema : cache' = [cache EXCEPT ![t] = Scanned(t)]

LEMMA FlushParts ==
    ASSUME FlushDue \/ SafetyFlush \/ \E t \in Table : Select(t)
    PROVE  Flushed
<1>1. ASSUME FlushDue PROVE Flushed
  BY <1>1 DEF FlushDue, Flushed
<1>2. ASSUME SafetyFlush PROVE Flushed
  BY <1>2 DEF SafetyFlush, Flushed
<1>3. ASSUME NEW t \in Table, Select(t) PROVE Flushed
  <2>1. Pending \cap {t} \in SUBSET Pending
    OBVIOUS
  <2> QED
    BY <1>3, <2>1 DEF Select, Flushed
<1> QED
  BY <1>1, <1>2, <1>3

LEMMA FlushedKeeps ==
    ASSUME Shape, Flushed
    PROVE  /\ \A t \in Table : named'[t] \cup buffer'[t] = named[t] \cup buffer[t]
           /\ \A t \in Table : buffer[t] = {} =>
                buffer'[t] = {} /\ named'[t] = named[t] /\ snap'[t] = snap[t]
  BY FlushesKeep DEF Flushed, Shape

\* A step is one of these.
LEMMA Steps ==
    ASSUME Shape, [Next]_vars
    PROVE  \/ \E t \in Table : CreateTable(t)
           \/ \E t \in Table : \E ids, rows, o : Inserted(t, ids, rows, o)
           \/ \E t \in Table : Edited(t)
           \/ Flushed
           \/ DropAllTables
           \/ \E loads \in BOOLEAN : Restart(loads)
           \/ UNCHANGED <<loaded, mem, buffer, catalog, named, snap, schema, cache, history>>
<1>1. ASSUME NEW t \in Table, Insert(t)
      PROVE  \E ids, rows, o : Inserted(t, ids, rows, o)
  BY <1>1, InsertParts
<1>2. ASSUME NEW t \in Table, InsertPanics(t)
      PROVE  UNCHANGED <<loaded, mem, buffer, catalog, named, snap, schema, cache, history>>
  BY <1>2 DEF InsertPanics, storageVars
<1>3. ASSUME UNCHANGED vars
      PROVE  UNCHANGED <<loaded, mem, buffer, catalog, named, snap, schema, cache, history>>
  BY <1>3 DEF vars, storageVars
<1> QED
  BY <1>1, <1>2, <1>3, EditParts, FlushParts DEF Next

----------------------------------------------------------------------------
(* The copies agree.                                                       *)

LEMMA InitCopies == Init => CopiesAgree
  BY DEF Init, StorageInit, CopiesAgree

LEMMA CopiesKept == Shape /\ CopiesAgree /\ [Next]_vars => CopiesAgree'
<1> SUFFICES ASSUME Shape, CopiesAgree, [Next]_vars PROVE CopiesAgree'
  OBVIOUS
<1> USE DEF CopiesAgree, Shape
\* The table in memory is new and empty; files under its name are on record.
<1>1. ASSUME NEW t \in Table, CreateTable(t) PROVE CopiesAgree'
  <2>1. t \notin loaded /\ buffer[t] = {}
    BY <1>1 DEF CreateTable
  <2>2. loaded' = loaded \cup {t} /\ mem' = [mem EXCEPT ![t] = {}]
        /\ UNCHANGED <<buffer, named>>
        /\ \A u \in Table \ {t} : catalog'[u] = catalog[u]
    BY <1>1 DEF CreateTable, CreateTableWithSchema
  <2>3. diverged' = IF named[t] = {} THEN diverged ELSE diverged \cup {t}
    BY <1>1 DEF CreateTable
  <2> QED
    BY <2>1, <2>2, <2>3
<1>2. ASSUME NEW t \in Table, NEW ids, NEW rows, NEW o, Inserted(t, ids, rows, o)
      PROVE  CopiesAgree'
  <2>1. \A u \in Table : named'[u] \cup buffer'[u] = named[u] \cup Buffered(t, rows)[u]
    BY <1>2, FlushMoves DEF Inserted
  <2>2. \A u \in Table :
          catalog[u] # "none" =>
            /\ Buffered(t, rows)[u] = IF u = t THEN buffer[u] \cup rows ELSE buffer[u]
            /\ mem'[u] = IF u = t THEN mem[u] \cup rows ELSE mem[u]
    BY <1>2 DEF Inserted, Buffered
  <2> QED
    BY <1>2, <2>1, <2>2 DEF Inserted
<1>3. ASSUME NEW t \in Table, Edited(t) PROVE CopiesAgree'
  BY <1>3 DEF Edited
<1>4. ASSUME Flushed PROVE CopiesAgree'
  BY <1>4, FlushedKeeps DEF Flushed, history
<1>5. ASSUME DropAllTables PROVE CopiesAgree'
  BY <1>5 DEF DropAllTables, DropTables
<1>6. ASSUME NEW loads \in BOOLEAN, Restart(loads) PROVE CopiesAgree'
  BY <1>6 DEF Restart, Reopen, Readable
<1>7. CASE UNCHANGED <<loaded, mem, buffer, catalog, named, snap, schema, cache, history>>
  BY <1>7 DEF history
<1> QED
  BY <1>1, <1>2, <1>3, <1>4, <1>5, <1>6, <1>7, Steps

----------------------------------------------------------------------------
(* Buffered rows are not forgotten.                                        *)

LEMMA InitRows == Init => NothingForgotten
  BY DEF Init, NothingForgotten

LEMMA RowsKept == Shape /\ NothingForgotten /\ [Next]_vars => NothingForgotten'
<1> SUFFICES ASSUME Shape, NothingForgotten, [Next]_vars PROVE NothingForgotten'
  OBVIOUS
<1>1. buffered \subseteq Held \cup gone \cup lost
  BY HeldIsBoth DEF NothingForgotten
<1>2. SUFFICES buffered' \subseteq Held' \cup gone' \cup lost'
  BY HeldIsBoth DEF NothingForgotten, OnDisk, InBuffer, Held, Ids
<1>3. ASSUME NEW t \in Table, CreateTable(t) PROVE buffered' \subseteq Held' \cup gone' \cup lost'
  BY <1>1, <1>3 DEF CreateTable, CreateTableWithSchema, Held, Ids
<1>4. ASSUME NEW t \in Table, NEW ids, NEW rows, NEW o, Inserted(t, ids, rows, o)
      PROVE  buffered' \subseteq Held' \cup gone' \cup lost'
  <2>1. \A u \in Table : named'[u] \cup buffer'[u] = named[u] \cup Buffered(t, rows)[u]
    BY <1>4, FlushMoves DEF Inserted
  <2>2. \A u \in Table : buffer[u] \subseteq Buffered(t, rows)[u]
    BY DEF Buffered, Shape
  <2>3. Held \subseteq Held'
    BY <2>1, <2>2, HeldKept
  <2>4. catalog[t] # "none" => rows \subseteq Buffered(t, rows)[t]
    BY DEF Buffered, Shape
  <2>5. catalog[t] # "none" => ids \subseteq Held'
    BY <1>4, <2>1, <2>4 DEF Inserted, Held, Ids
  <2> QED
    BY <1>1, <1>4, <2>3, <2>5 DEF Inserted
<1>5. ASSUME NEW t \in Table, Edited(t) PROVE buffered' \subseteq Held' \cup gone' \cup lost'
  BY <1>1, <1>5 DEF Edited, Held, Ids
<1>6. ASSUME Flushed PROVE buffered' \subseteq Held' \cup gone' \cup lost'
  <2>1. Held \subseteq Held'
    BY <1>6, FlushedKeeps, HeldKept
  <2> QED
    BY <1>1, <1>6, <2>1 DEF Flushed, history
\* What is not in a file that stays is on record as gone.
<1>7. ASSUME DropAllTables PROVE buffered' \subseteq Held' \cup gone' \cup lost'
  <2>1. gone' = used \ (OnDisk' \cup lost) /\ UNCHANGED <<buffered, lost>>
    BY <1>7 DEF DropAllTables
  <2>2. OnDisk' \subseteq Held'
    BY DEF OnDisk, Held, Ids
  <2> QED
    BY <2>1, <2>2 DEF Shape
<1>8. ASSUME NEW loads \in BOOLEAN, Restart(loads)
      PROVE  buffered' \subseteq Held' \cup gone' \cup lost'
  <2>1. lost' = lost \cup (InBuffer \ OnDisk) /\ UNCHANGED <<buffered, gone, named>>
    BY <1>8 DEF Restart, Reopen
  <2>2. OnDisk \subseteq Held'
    BY <2>1 DEF OnDisk, Held, Ids
  <2> QED
    BY <1>1, <2>1, <2>2, HeldIsBoth
<1>9. CASE UNCHANGED <<loaded, mem, buffer, catalog, named, snap, schema, cache, history>>
  BY <1>1, <1>9 DEF history, Held, Ids
<1> QED
  BY <1>3, <1>4, <1>5, <1>6, <1>7, <1>8, <1>9, Steps

----------------------------------------------------------------------------
(* The cache tells the truth.                                              *)

LEMMA InitCache == Init => CacheTruthful
  BY DEF Init, CacheTruthful

LEMMA CacheKept == Shape /\ CacheTruthful /\ [Next]_vars => CacheTruthful'
<1> SUFFICES ASSUME Shape, CacheTruthful, [Next]_vars PROVE CacheTruthful'
  OBVIOUS
<1> USE DEF CacheTruthful, Shape
\* A table outside the schema has no cached answer.
<1>1. ASSUME NEW t \in Table, CreateTable(t) PROVE CacheTruthful'
  <2>1. cache'[t] = NotCached
    BY <1>1 DEF CreateTable
  <2>2. \A u \in Table \ {t} : Scanned(u)' = Scanned(u)
    BY <1>1 DEF CreateTable, CreateTableWithSchema, Scanned, Stored
  <2> QED
    BY <1>1, <2>1, <2>2 DEF CreateTable
<1>2. ASSUME NEW t \in Table, NEW ids, NEW rows, NEW o, Inserted(t, ids, rows, o)
      PROVE  CacheTruthful'
  <2>1. \A u \in Table \ {t} : named'[u] = named[u] /\ snap'[u] = snap[u]
    BY <1>2, FlushMoves DEF Inserted
  <2>2. \A u \in Table \ {t} : Scanned(u)' = Scanned(u)
    BY <1>2, <2>1 DEF Inserted, Scanned, Stored
  <2> QED
    BY <1>2, <2>2 DEF Inserted
<1>3. ASSUME NEW t \in Table, Edited(t) PROVE CacheTruthful'
  <2>1. \A u \in Table : u # t \/ mem'[t] = mem[t] => Scanned(u)' = Scanned(u)
    BY <1>3 DEF Edited, Scanned, Stored
  <2>2. ASSUME NEW u \in Table \ halfEdited', cache'[u] # NotCached
        PROVE  cache'[u] = Scanned(u)'
    BY <1>3, <2>1, <2>2 DEF Edited
  <2> QED
    BY <2>2
\* A table that is not in memory has no buffer, so a flush does not change it.
<1>4. ASSUME Flushed PROVE CacheTruthful'
  <2>1. \A u \in Table : Scanned(u)' = Scanned(u)
    BY <1>4, FlushedKeeps DEF Flushed, Scanned, Stored
  <2> QED
    BY <1>4, <2>1 DEF Flushed, history
<1>5. ASSUME DropAllTables PROVE CacheTruthful'
  BY <1>5 DEF DropAllTables
<1>6. ASSUME NEW loads \in BOOLEAN, Restart(loads) PROVE CacheTruthful'
  BY <1>6 DEF Restart
<1>7. CASE UNCHANGED <<loaded, mem, buffer, catalog, named, snap, schema, cache, history>>
  BY <1>7 DEF history, Scanned, Stored
<1> QED
  BY <1>1, <1>2, <1>3, <1>4, <1>5, <1>6, <1>7, Steps

----------------------------------------------------------------------------
(* Types, and where the rows of a dropped table cannot be.                 *)

Directories == { t \in Table : catalog[t] # "none" }

\* Only finitely many tables exist at a time, so a round counts its failures.
Finite == IsFiniteSet(schema) /\ IsFiniteSet(Directories)

Live == used \ gone

\* Every row that a copy of a table or the cache holds was inserted and is not
\* gone, and a snapshot names no data file that the latest list does not name.
Alive ==
    /\ gone \subseteq used
    /\ \A t \in Table :
         /\ Ids(mem[t]) \subseteq Live /\ Ids(buffer[t]) \subseteq Live
         /\ Ids(named[t]) \subseteq Live /\ snap[t] \subseteq named[t]
         /\ cache[t] # NotCached => Ids(cache[t]) \subseteq Live

Safe == TypeOK /\ Finite /\ Alive

LEMMA InitSafe == Init => Safe
<1> SUFFICES ASSUME Init PROVE Safe
  OBVIOUS
<1>1. TypeOK
  <2>1. StorageTypeOK
    BY BoundAssumption DEF Init, StorageInit, StorageTypeOK, Directory
  <2>2. poisoned \in BOOLEAN
    BY DEF Init
  <2>3. starts \in 0..MaxStarts
    BY BoundAssumption DEF Init
  <2>4. cache \in [Table -> {NotCached} \cup SUBSET Row]
    BY DEF Init
  <2> QED
    BY <2>1, <2>2, <2>3, <2>4 DEF Init, StorageInit, TypeOK
<1>2. Directories = {} /\ schema = {}
  BY DEF Init, StorageInit, Directories
<1>3. Finite
  BY <1>2, FS_EmptySet DEF Finite
<1>4. Alive
  BY DEF Init, StorageInit, Alive, Live, Ids
<1> QED
  BY <1>1, <1>3, <1>4 DEF Safe

LEMMA IdsWithin ==
    ASSUME NEW S, NEW old, NEW more, Ids(old) \subseteq S, Ids(more) \subseteq S,
           NEW rows, rows \subseteq old \cup more
    PROVE  Ids(rows) \subseteq S
  BY DEF Ids

\* Counting the failures of finitely many tables keeps the bound.
LEMMA FaultsCounted ==
    ASSUME faults \in 0..MaxFaults, NEW S, IsFiniteSet(S), CountFaults(Cardinality(S))
    PROVE  faults' \in 0..MaxFaults
<1>1. Cardinality(S) \in Nat
  BY FS_CardinalityType
<1> QED
  BY <1>1, BoundAssumption DEF CountFaults

\* Flush keeps the types, and the snapshots within the lists.
LEMMA FlushTyped ==
    ASSUME NEW buf \in [Table -> SUBSET Row], NEW o, Flush(buf, o),
           named \in [Table -> SUBSET Row], snap \in [Table -> SUBSET Row],
           \A t \in Table : snap[t] \subseteq named[t]
    PROVE  /\ buffer' \in [Table -> SUBSET Row]
           /\ named' \in [Table -> SUBSET Row]
           /\ snap' \in [Table -> SUBSET Row]
           /\ \A t \in Table : /\ buffer'[t] \subseteq buf[t]
                               /\ named'[t] \subseteq named[t] \cup buf[t]
                               /\ snap'[t] \subseteq named'[t]
<1>1. named' \in [Table -> SUBSET Row]
  BY DEF Flush
<1> QED
  BY <1>1 DEF Flush

LEMMA CreateTableSafe ==
    ASSUME Safe, NEW t \in Table, CreateTable(t)
    PROVE  Safe'
<1> USE DEF Safe
<1>1. PICK directory \in {"known", "unreadable", catalog[t]} : CreateTableWithSchema(t, directory)
  BY DEF CreateTable
<1>2. directory \in Directory /\ faults' \in 0..MaxFaults
  BY <1>1, BoundAssumption DEF TypeOK, StorageTypeOK, CreateTableWithSchema, CountFaults, Directory
<1>3. TypeOK'
  BY <1>1, <1>2 DEF CreateTable, CreateTableWithSchema, TypeOK, StorageTypeOK
<1>4. schema' = schema \cup {t} /\ Directories' \subseteq Directories \cup {t}
  BY <1>1 DEF CreateTable, CreateTableWithSchema, Directories, TypeOK, StorageTypeOK
<1>5. Finite'
  BY <1>4, FS_AddElement, FS_Subset DEF Finite
<1>6. Alive'
  BY <1>1 DEF CreateTable, CreateTableWithSchema, TypeOK, StorageTypeOK, Alive, Live, Ids
<1> QED
  BY <1>3, <1>5, <1>6

LEMMA InsertSafe ==
    ASSUME Safe, NEW t \in Table, NEW ids, NEW rows, NEW o, Inserted(t, ids, rows, o)
    PROVE  Safe'
<1> USE DEF Safe
<1>1. rows \subseteq Row /\ ids \subseteq Id \ used /\ Ids(rows) = ids /\ DOMAIN o \subseteq {t}
  BY DEF Inserted
<1> DEFINE buf == Buffered(t, rows)
<1>2. /\ buf \in [Table -> SUBSET Row]
      /\ \A u \in Table : buf[u] = buffer[u] \/ buf[u] = buffer[u] \cup rows
  BY <1>1 DEF Buffered, TypeOK, StorageTypeOK
<1>3. \A u \in Table \ {t} : buf[u] = buffer[u]
  BY DEF Buffered, TypeOK, StorageTypeOK
<1>4. Flush(buf, o)
  BY DEF Inserted
<1> HIDE DEF buf
<1>5. /\ buffer' \in [Table -> SUBSET Row]
      /\ named' \in [Table -> SUBSET Row]
      /\ snap' \in [Table -> SUBSET Row]
      /\ \A u \in Table : /\ buffer'[u] \subseteq buf[u]
                          /\ named'[u] \subseteq named[u] \cup buf[u]
                          /\ snap'[u] \subseteq named'[u]
  BY <1>2, <1>4, FlushTyped DEF TypeOK, StorageTypeOK, Alive
<1>6. faults' \in 0..MaxFaults
  <2>1. IsFiniteSet(Failed(o))
    BY <1>1, FS_Singleton, FS_Subset DEF Failed
  <2> QED
    BY <2>1, FaultsCounted DEF Inserted, TypeOK, StorageTypeOK
<1>7. t \in loaded /\ mem' = [mem EXCEPT ![t] = @ \cup rows]
      /\ cache' = [cache EXCEPT ![t] = NotCached] /\ used' = used \cup ids
  BY DEF Inserted
<1>8. TypeOK'
  <2>1. mem' \in [Table -> SUBSET Row] /\ cache' \in [Table -> {NotCached} \cup SUBSET Row]
    BY <1>1, <1>7 DEF TypeOK, StorageTypeOK
  <2>2. \A u \in Table \ loaded : mem'[u] = {} /\ buffer'[u] = {}
    BY <1>3, <1>5, <1>7 DEF TypeOK, StorageTypeOK
  <2>3. \A u \in Table \ schema : cache'[u] = NotCached
    BY <1>7 DEF TypeOK
  <2>4. {buffered, gone, lost}' \subseteq SUBSET used'
    BY <1>7 DEF TypeOK, Inserted
  <2>5. halfEdited' \subseteq Table /\ used' \subseteq Id
    BY <1>1, <1>7 DEF TypeOK, Inserted
  <2> QED
    BY <1>5, <1>6, <2>1, <2>2, <2>3, <2>4, <2>5 DEF TypeOK, StorageTypeOK, Inserted
<1>9. Finite'
  BY DEF Finite, Directories, Inserted
<1>10. Alive'
  <2>1. Live' = Live \cup ids /\ gone' = gone
    BY <1>1, <1>7 DEF Live, Inserted, Alive
  <2>2. ASSUME NEW u \in Table
        PROVE  Ids(mem'[u]) \subseteq Live' /\ Ids(buffer'[u]) \subseteq Live'
               /\ Ids(named'[u]) \subseteq Live'
    <3>1. mem'[u] \subseteq mem[u] \cup rows
      BY <1>7 DEF TypeOK, StorageTypeOK
    <3>2. buffer'[u] \subseteq buffer[u] \cup rows /\ named'[u] \subseteq named[u] \cup (buffer[u] \cup rows)
      BY <1>2, <1>5
    <3>3. Ids(mem[u]) \subseteq Live /\ Ids(buffer[u]) \subseteq Live /\ Ids(named[u]) \subseteq Live
      BY DEF Alive
    <3> QED
      <4>1. Ids(rows) \subseteq Live' /\ Live \subseteq Live'
        BY <1>1, <2>1
      <4>2. Ids(buffer[u] \cup rows) \subseteq Live'
        BY <3>3, <4>1, IdsWithin
      <4> QED
        BY <3>1, <3>2, <3>3, <4>1, <4>2, IdsWithin
  <2>3. ASSUME NEW u \in Table, cache'[u] # NotCached PROVE Ids(cache'[u]) \subseteq Live'
    <3>1. cache'[u] = cache[u]
      BY <1>7, <2>3 DEF TypeOK
    <3> QED
      BY <2>1, <2>3, <3>1 DEF Alive
  <2> QED
    BY <1>5, <1>7, <2>1, <2>2, <2>3 DEF Alive
<1> QED
  BY <1>8, <1>9, <1>10

LEMMA FlushedSafe ==
    ASSUME Safe, Flushed
    PROVE  Safe'
<1> USE DEF Safe
<1>1. PICK ts \in SUBSET Pending : FlushTables(ts)
  BY DEF Flushed
<1>2. PICK o \in Outcomes(ts) : Flush(buffer, o) /\ CountFaults(Cardinality(Failed(o)))
  BY <1>1 DEF FlushTables
<1>3. /\ buffer' \in [Table -> SUBSET Row]
      /\ named' \in [Table -> SUBSET Row]
      /\ snap' \in [Table -> SUBSET Row]
      /\ \A u \in Table : /\ buffer'[u] \subseteq buffer[u]
                          /\ named'[u] \subseteq named[u] \cup buffer[u]
                          /\ snap'[u] \subseteq named'[u]
  BY <1>2, FlushTyped DEF TypeOK, StorageTypeOK, Alive
<1>4. faults' \in 0..MaxFaults
  <2>1. Failed(o) \subseteq schema
    BY <1>2, OutcomesDomain DEF Failed, Pending, TypeOK
  <2>2. IsFiniteSet(Failed(o))
    BY <2>1, FS_Subset DEF Finite
  <2> QED
    BY <1>2, <2>2, FaultsCounted DEF TypeOK, StorageTypeOK
<1>5. UNCHANGED <<loaded, mem, catalog, schema, poisoned, starts, history>>
      /\ \/ cache' = cache
         \/ \E t \in schema : cache' = [cache EXCEPT ![t] = Scanned(t)]
  BY DEF Flushed
<1>6. \A t \in Table : Scanned(t) \in SUBSET Row /\ Ids(Scanned(t)) \subseteq Live
  BY DEF Scanned, Stored, TypeOK, StorageTypeOK, Alive, Ids
<1>7. cache' \in [Table -> {NotCached} \cup SUBSET Row] /\ \A t \in Table \ schema : cache'[t] = NotCached
  BY <1>5, <1>6 DEF TypeOK
<1>8. TypeOK'
  BY <1>3, <1>4, <1>5, <1>7 DEF TypeOK, StorageTypeOK, history
<1>9. Finite'
  BY <1>5 DEF Finite, Directories
<1>10. Alive'
  <2>1. Live' = Live /\ gone' = gone /\ used' = used
    BY <1>5 DEF Live, history
  <2>2. ASSUME NEW u \in Table PROVE Ids(buffer'[u]) \subseteq Live /\ Ids(named'[u]) \subseteq Live
    <3>1. Ids(buffer[u]) \subseteq Live /\ Ids(named[u]) \subseteq Live
      BY DEF Alive
    <3> QED
      <4>1. buffer'[u] \subseteq named[u] \cup buffer[u] /\ named'[u] \subseteq named[u] \cup buffer[u]
        BY <1>3
      <4> QED
        BY <3>1, <4>1, IdsWithin
  <2>3. ASSUME NEW u \in Table, cache'[u] # NotCached PROVE Ids(cache'[u]) \subseteq Live
    <3>1. cache'[u] = cache[u] \/ cache'[u] = Scanned(u)
      BY <1>5 DEF TypeOK
    <3> QED
      BY <1>6, <2>3, <3>1 DEF Alive
  <2> QED
    BY <1>3, <1>5, <2>1, <2>2, <2>3 DEF Alive
<1> QED
  BY <1>8, <1>9, <1>10

\* What an UPDATE in all its outcomes, or a DELETE, does to the rows.
Rewritten(t, new) ==
    /\ new \in SUBSET Row /\ Ids(new) \subseteq Ids(mem[t])
    /\ mem' = [mem EXCEPT ![t] = new]
    /\ cache' = cache \/ cache' = [cache EXCEPT ![t] = NotCached]
    /\ diverged' \subseteq diverged \cup {t} /\ halfEdited' \subseteq halfEdited \cup {t}
    /\ poisoned' \in BOOLEAN
    /\ UNCHANGED <<loaded, buffer, catalog, named, snap, faults, schema, starts,
                   used, buffered, gone, lost>>

LEMMA EditRewrites ==
    ASSUME TypeOK, NEW t \in Table, NEW f \in Filter,
           \/ Delete(t, f)
           \/ \E clause \in Assignments :
                 Update(t, clause, f) \/ UpdateFails(t, clause, f) \/ UpdatePanics(t, clause, f)
    PROVE  \E new : Rewritten(t, new)
<1>1. mem[t] \in SUBSET Row /\ mem = [mem EXCEPT ![t] = mem[t]] /\ poisoned \in BOOLEAN
  BY DEF TypeOK, StorageTypeOK
<1>2. CASE Delete(t, f)
  <2> DEFINE new == { r \in mem[t] : ~Matches(r, f) }
  <2>1. new \in SUBSET Row /\ Ids(new) \subseteq Ids(mem[t])
    BY <1>1 DEF Ids
  <2>2. Rewritten(t, new)
    BY <1>1, <1>2, <2>1 DEF Delete, ChangeMemory, Invalidate, Diverge, Rewritten
  <2> QED
    BY <2>2
<1>3. ASSUME NEW clause \in Assignments,
             Update(t, clause, f) \/ UpdateFails(t, clause, f) \/ UpdatePanics(t, clause, f)
      PROVE  \E new : Rewritten(t, new)
  <2> DEFINE new == Updated(mem[t], clause, f)
  <2>1. new \in SUBSET Row /\ Ids(new) \subseteq Ids(mem[t])
    BY <1>1, UpdatedRows
  <2> HIDE DEF new
  <2>2. ASSUME ChangeMemory(t, new)
        PROVE  Rewritten(t, new)
    BY <1>1, <1>3, <2>1, <2>2
       DEF Update, UpdateFails, UpdatePanics, ChangeMemory, Invalidate, Diverge, Rewritten
  <2>3. ASSUME UNCHANGED storageVars
        PROVE  Rewritten(t, mem[t])
    BY <1>1, <1>3, <2>3
       DEF Update, UpdateFails, UpdatePanics, Invalidate, Diverge, Rewritten, storageVars
  <2>4. ChangeMemory(t, new) \/ UNCHANGED storageVars
    BY <1>3 DEF Update, UpdateFails, UpdatePanics, new
  <2> QED
    BY <2>2, <2>3, <2>4
<1> QED
  BY <1>2, <1>3

LEMMA EditSafe ==
    ASSUME Safe, NEW t \in Table, NEW new, t \in loaded \/ new = {}, Rewritten(t, new)
    PROVE  Safe'
<1> USE DEF Safe
<1>1. TypeOK'
  BY DEF Rewritten, TypeOK, StorageTypeOK
<1>2. Finite'
  BY DEF Finite, Directories, Rewritten
<1>3. Alive'
  BY DEF Alive, Live, Rewritten, TypeOK, StorageTypeOK
<1> QED
  BY <1>1, <1>2, <1>3

LEMMA DropAllTablesSafe ==
    ASSUME Safe, DropAllTables
    PROVE  Safe'
<1> USE DEF Safe
<1>1. PICK o \in Outcomes(Pending), stays \in SUBSET Table : DropTables(o, stays)
  BY DEF DropAllTables
<1>2. /\ named' \in [Table -> SUBSET Row]
      /\ \A t \in Table : named'[t] \subseteq named[t] \cup buffer[t]
  BY <1>1 DEF DropTables, TypeOK, StorageTypeOK
<1>3. snap' \in [Table -> SUBSET Row] /\ \A t \in Table : snap'[t] \subseteq named'[t]
  <2>1. ASSUME NEW t \in Table PROVE snap'[t] \subseteq named'[t]
    <3>1. CASE t \in stays
      <4>1. named[t] \subseteq named'[t]
        BY <1>1, <3>1 DEF DropTables
      <4> QED
        BY <1>1, <3>1, <4>1 DEF DropTables, Alive
    <3>2. CASE t \notin stays
      BY <1>1, <3>2 DEF DropTables
    <3> QED
      BY <3>1, <3>2
  <2> QED
    BY <1>1, <1>2, <2>1 DEF DropTables
<1>4. stays \subseteq Directories /\ Failed(o) \subseteq schema
  BY <1>1, OutcomesDomain DEF DropTables, Directories, Failed, Pending, TypeOK
<1>5. faults' \in 0..MaxFaults
  <2>1. IsFiniteSet(stays) /\ IsFiniteSet(Failed(o))
    BY <1>4, FS_Subset DEF Finite
  <2>2. Cardinality(stays) \in Nat /\ Cardinality(Failed(o)) \in Nat
    BY <2>1, FS_CardinalityType
  <2> QED
    BY <1>1, <2>2, BoundAssumption DEF DropTables, CountFaults, TypeOK, StorageTypeOK
<1>6. TypeOK'
  BY <1>1, <1>2, <1>3, <1>5 DEF DropAllTables, DropTables, TypeOK, StorageTypeOK, Directory
<1>7. Directories' \subseteq Directories /\ schema' = {}
  BY <1>1 DEF DropAllTables, DropTables, Directories
<1>8. Finite'
  BY <1>7, FS_Subset, FS_EmptySet DEF Finite
<1>9. Alive'
  <2>1. gone' = used \ (OnDisk' \cup lost) /\ used' = used
    BY DEF DropAllTables
  <2>2. ASSUME NEW t \in Table PROVE Ids(named'[t]) \subseteq Live'
    <3>1. Ids(named'[t]) \subseteq used
      <4>1. Ids(named[t]) \subseteq used /\ Ids(buffer[t]) \subseteq used
        BY DEF Alive, Live
      <4> QED
        BY <1>2, <4>1, IdsWithin
    <3>2. Ids(named'[t]) \subseteq OnDisk'
      BY DEF OnDisk, Ids
    <3> QED
      BY <2>1, <3>1, <3>2 DEF Live
  <2>3. \A t \in Table : mem'[t] = {} /\ buffer'[t] = {} /\ cache'[t] = NotCached
    BY <1>1 DEF DropAllTables, DropTables
  <2> QED
    BY <1>3, <2>1, <2>2, <2>3 DEF Alive, Ids
<1> QED
  BY <1>6, <1>8, <1>9

LEMMA RestartSafe ==
    ASSUME Safe, NEW loads \in BOOLEAN, Restart(loads)
    PROVE  Safe'
<1> USE DEF Safe
<1>1. InBuffer \subseteq used
  BY DEF InBuffer, Alive, Live
<1>2. starts' \in 0..MaxStarts
  BY BoundAssumption DEF Restart, TypeOK
<1>3. TypeOK'
  BY <1>1, <1>2 DEF Restart, Reopen, Readable, TypeOK, StorageTypeOK, Directory
<1>4. schema' \subseteq Directories /\ Directories' \subseteq Directories
  BY DEF Restart, Reopen, Readable, Directories
<1>5. Finite'
  BY <1>4, FS_Subset DEF Finite
<1>6. Alive'
  BY DEF Restart, Reopen, Alive, Live, Ids
<1> QED
  BY <1>3, <1>5, <1>6

LEMMA SafeKept == Shape /\ Safe /\ [Next]_vars => Safe'
<1> SUFFICES ASSUME Shape, Safe, [Next]_vars PROVE Safe'
  OBVIOUS
<1>1. ASSUME NEW t \in Table, CreateTable(t) PROVE Safe'
  BY <1>1, CreateTableSafe
<1>2. ASSUME NEW t \in Table, Insert(t) PROVE Safe'
  BY <1>2, InsertParts, InsertSafe
<1>3. ASSUME NEW t \in Table, InsertPanics(t) PROVE Safe'
  BY <1>3 DEF InsertPanics, storageVars, history, Safe, TypeOK, StorageTypeOK, Finite,
              Directories, Alive, Live
<1>4. ASSUME FlushDue \/ SafetyFlush \/ \E t \in Table : Select(t) PROVE Safe'
  BY <1>4, FlushParts, FlushedSafe
<1>5. ASSUME NEW t \in Table, NEW f \in Filter,
             \/ Delete(t, f)
             \/ \E clause \in Assignments :
                   Update(t, clause, f) \/ UpdateFails(t, clause, f) \/ UpdatePanics(t, clause, f)
      PROVE  Safe'
  <2>1. PICK new : Rewritten(t, new)
    BY <1>5, EditRewrites DEF Safe
  <2>2. t \in loaded \/ new = {}
    <3>1. t \notin loaded => mem[t] = {} /\ Ids(mem[t]) = {}
      BY DEF Safe, TypeOK, StorageTypeOK, Ids
    <3> QED
      BY <2>1, <3>1 DEF Rewritten, Ids
  <2> QED
    BY <2>1, <2>2, EditSafe
<1>6. ASSUME DropAllTables PROVE Safe'
  BY <1>6, DropAllTablesSafe
<1>7. ASSUME NEW loads \in BOOLEAN, Restart(loads) PROVE Safe'
  BY <1>7, RestartSafe
<1>8. CASE UNCHANGED vars
  BY <1>8 DEF vars, storageVars, history, Safe, TypeOK, StorageTypeOK, Finite,
              Directories, Alive, Live
<1> QED
  BY <1>1, <1>2, <1>3, <1>4, <1>5, <1>6, <1>7, <1>8 DEF Next

----------------------------------------------------------------------------
(* The theorems.                                                           *)

IInv == Shape /\ CopiesAgree /\ NothingForgotten /\ CacheTruthful /\ Safe

LEMMA Inductive == Init => IInv
  BY InitShape, InitCopies, InitRows, InitCache, InitSafe DEF IInv

\* The inductive invariant: the properties below, which tables have a copy in
\* memory, a cached answer and a write buffer (mod.rs:16, lib.rs:121), and that
\* every row in any copy was inserted and is not gone.
THEOREM Invariant == Spec => []IInv
<1>1. IInv /\ [Next]_vars => IInv'
  BY ShapeKept, CopiesKept, RowsKept, CacheKept, SafeKept DEF IInv
<1> QED
  BY Inductive, <1>1, PTL DEF Spec

\* The variables have their types; in particular only tables of the schema are
\* in memory or cached, and only those in memory have a write buffer, for any
\* set of table names (mod.rs:16, lib.rs:121).
THEOREM TypeCorrect == Spec => []TypeOK
<1>1. IInv => TypeOK
  BY DEF IInv, Safe
<1> QED
  BY Invariant, <1>1, PTL

\* The copies of a table in memory and on disk agree whatever fails, for any
\* tables and rows, until an UPDATE, a DELETE, a restart or a directory that a
\* DROP left behind sets them apart (mod.rs:123, 213, 1288).
THEOREM TwoCopiesAgree == Spec => []CopiesAgree
<1>1. IInv => CopiesAgree
  BY DEF IInv
<1> QED
  BY Invariant, <1>1, PTL

\* A row that an INSERT buffered stays on disk or in the buffer, through any
\* number of failing flushes, until its table is dropped or the process ends
\* while the row is only buffered (mod.rs:155, 348).
THEOREM BufferedRowsStay == Spec => []NothingForgotten
<1>1. IInv => NothingForgotten
  BY DEF IInv
<1> QED
  BY Invariant, <1>1, PTL

\* A cached answer is what the statement would find now, unless an UPDATE
\* changed the table and then failed (lib.rs:275).
THEOREM CachedAnswersTrue == Spec => []CacheTruthful
<1>1. IInv => CacheTruthful
  BY DEF IInv
<1> QED
  BY Invariant, <1>1, PTL

\* Once the files of a dropped table are removed no row of it is in any copy of
\* any table, nor in a cached answer, whatever is created, updated, flushed or
\* restarted afterwards (drop_all_tables, mod.rs:1288).
THEOREM DroppedRowsStayAway == Spec => []NothingSurvivesDrop
<1>1. IInv => NothingSurvivesDrop
  <2> SUFFICES ASSUME Alive PROVE NothingSurvivesDrop
    BY DEF IInv, Safe
  <2>1. OnDisk \cup InBuffer \subseteq Live
    BY DEF OnDisk, InBuffer, Alive
  <2> QED
    BY <2>1 DEF NothingSurvivesDrop, Alive, Live
<1> QED
  BY Invariant, <1>1, PTL

\* An UPDATE of any number of columns gives the rows of its WHERE clause the
\* values it names, all at once, provided that no earlier assignment takes a row
\* out of that clause; and carried out in full or in part it keeps every row,
\* leaves the others alone and changes no other column (executor.rs:1087).
THEOREM UpdatesDoAsDocumented == Spec => UpdateAsDocumented
<1> DEFINE Right(t, clause, f) ==
      /\ Update(t, clause, f) /\ KeepsMatching(clause, f) =>
           mem'[t] = AtOnce(mem[t], clause, f)
      /\ (/\ mem'[t] # mem[t]
          /\ Update(t, clause, f) \/ UpdateFails(t, clause, f) \/ UpdatePanics(t, clause, f))
         => /\ Ids(mem'[t]) = Ids(mem[t])
            /\ \A r \in mem[t] : ~Matches(r, f) => r \in mem'[t]
            /\ \A r \in mem'[t] : \E old \in mem[t] : AgreeBut(clause, r, old)
<1>1. ASSUME IInv, NEW t \in Table, NEW clause \in Assignments, NEW f \in Filter
      PROVE  Right(t, clause, f)
  <2>1. mem[t] \in SUBSET Row /\ DOMAIN mem = Table
    BY <1>1 DEF IInv, Safe, TypeOK, StorageTypeOK
  <2>2. Update(t, clause, f) => mem'[t] = Updated(mem[t], clause, f) /\ Applied(clause) = Len(clause)
    BY <2>1 DEF Update, ChangeMemory
  <2>3. (/\ mem'[t] # mem[t]
         /\ Update(t, clause, f) \/ UpdateFails(t, clause, f) \/ UpdatePanics(t, clause, f))
        => mem'[t] = Updated(mem[t], clause, f)
    BY <2>1 DEF Update, UpdateFails, UpdatePanics, ChangeMemory, storageVars
  <2>4. Update(t, clause, f) /\ KeepsMatching(clause, f) => mem'[t] = AtOnce(mem[t], clause, f)
    BY <2>1, <2>2, UpdatedAtOnce
  <2> DEFINE new == Updated(mem[t], clause, f)
  <2>5. /\ Ids(new) = Ids(mem[t])
        /\ \A r \in mem[t] : ~Matches(r, f) => r \in new
        /\ \A r \in new : \E old \in mem[t] : AgreeBut(clause, r, old)
    BY <2>1, UpdatedRows
  <2> HIDE DEF new
  <2> QED
    BY <2>3, <2>4, <2>5 DEF new
<1>2. IInv => \A t \in { x \in loaded : mem[x] # {} }, clause \in Assignments, f \in Filter :
                Right(t, clause, f)
  <2>1. IInv => loaded \subseteq Table
    BY DEF IInv, Safe, TypeOK, StorageTypeOK
  <2> QED
    BY <1>1, <2>1
<1>3. IInv => [ UNCHANGED <<schema, loaded, catalog, named, buffer, starts, used>> =>
                \A t \in { x \in loaded : mem[x] # {} }, clause \in Assignments, f \in Filter :
                  Right(t, clause, f) ]_vars
  BY <1>2
<1> QED
  BY Invariant, <1>3, PTL DEF UpdateAsDocumented

----------------------------------------------------------------------------
(* PendingReachDisk without its fairness: what one round does.             *)

\* A round of the safety flush empties the write buffer of every table that the
\* catalog knows, and a reader finds the rows on disk, except for the tables
\* whose own writes failed.
RoundReaches ==
    SafetyFlush => \E failed \in SUBSET Table :
        /\ faults' = faults + Cardinality(failed)
        /\ \A t \in Table \ failed : catalog[t] = "known" =>
               buffer'[t] = {} /\ buffer[t] \subseteq Stored(t)'

\* No table has to wait for another one, whatever becomes of that one: in each
\* round of the background task it is flushed, or a write of its own failed and
\* is counted among the faults (flush_all_pending_buffers, mod.rs:689).
THEOREM RoundsReachDisk == Spec => [][RoundReaches]_vars
<1>1. ASSUME IInv, SafetyFlush PROVE RoundReaches
  <2>1. PICK o \in Outcomes(Pending) : Flush(buffer, o) /\ faults' = faults + Cardinality(Failed(o))
    BY <1>1 DEF SafetyFlush, FlushTables, CountFaults
  <2>2. DOMAIN o = Pending /\ \A t \in Pending : o[t] \in {"ok", "early", "late"}
    BY <2>1 DEF Outcomes
  <2>3. Failed(o) \subseteq Table
    BY <2>2 DEF Failed, Pending
  <2>4. ASSUME NEW t \in Table \ Failed(o), catalog[t] = "known"
        PROVE  buffer'[t] = {} /\ buffer[t] \subseteq Stored(t)'
    <3>1. CASE t \in Pending
      <4>1. Ended(o, t, {"ok"}) /\ Ended(o, t, {"ok", "late"})
        BY <2>2, <2>4, <3>1 DEF Failed, Ended
      <4>2. buffer'[t] = {} /\ named'[t] = named[t] \cup buffer[t] /\ snap'[t] = named'[t]
        BY <2>1, <4>1 DEF Flush
      <4> QED
        BY <4>2 DEF Stored
    <3>2. CASE t \notin Pending
      <4>1. ~Ended(o, t, {"ok"}) /\ buffer[t] = {}
        BY <2>2, <3>2 DEF Ended, Pending
      <4> QED
        BY <2>1, <4>1 DEF Flush
    <3> QED
      BY <3>1, <3>2
  <2> QED
    BY <2>1, <2>3, <2>4 DEF RoundReaches
<1>2. IInv /\ [Next]_vars => [RoundReaches]_vars
  BY <1>1 DEF RoundReaches
<1> QED
  BY <1>2, Invariant, PTL DEF Spec
=============================================================================
