---------------------------- MODULE QueryService ----------------------------
(***************************************************************************)
(* Queries of several web clients against one Database.                    *)
(*                                                                         *)
(* A SELECT sent to /api/execute becomes a task of its own (lib.rs,        *)
(* execute_async_internal): it looks in the query cache, plans, scans the  *)
(* tables of its FROM clause one after the other, fills the cache, marks   *)
(* its tracker Completed and stores its result, and takes the database     *)
(* mutex only for the single steps; while it scans it holds no lock at     *)
(* all.  Every other statement runs in one critical section                *)
(* (execute_with_cache_info), which invalidates the cache only after it    *)
(* succeeded; pages, programs and other users send those at any time.      *)
(*                                                                         *)
(* The page polls the tracker and fetches the result.  It keeps one query  *)
(* id, one polling interval and one abort controller, but Ctrl+Enter sends *)
(* a statement whatever is outstanding, and each request is awaited: an    *)
(* answer acts on whatever the page is doing when it arrives.              *)
(*                                                                         *)
(* The contents of a table are the statements that made them: how often it *)
(* was dropped, how many INSERTs and how many UPDATEs or DELETEs it saw.   *)
(* The latter change only the copy in memory, so the two copies differ.    *)
(* Tables fit in one chunk of the scan, and flushes succeed.               *)
(***************************************************************************)
EXTENDS Naturals, Sequences, SequencesExt, SequenceFilter

CONSTANTS
    Client,      \* browsers with a page open
    MaxQueries,  \* bound on the asynchronous SELECTs
    Table,
    Sql,         \* texts of SELECT statements; equal texts have equal hashes
    From,        \* the tables of the FROM clause, from left to right
    Indexed,     \* SELECTs with an equality predicate on one table
    Capacity,    \* entries of the query cache
    Nobody,
    MaxRequests  \* bound on the statements and cancellations besides the tasks

ASSUME FromAssumption == From \in [Sql -> Seq(Table) \ {<<>>}]
ASSUME IndexedAssumption == \A s \in Indexed : Len(From[s]) = 1
ASSUME CapacityAssumption == Capacity \in Nat \ {0}

\* The ids of asynchronous SELECTs, each used once: their numbers.
Query == 1..MaxQueries

ASSUME QueryAssumption == MaxQueries \in Nat /\ Nobody \notin Query

VARIABLES
    exists,      \* the tables in the catalog
    data,        \* table -> [drops, inserts, edits]
    cache,       \* QueryCache: entries [sql, result, by], most recently used first
    status,      \* active_queries: query -> tracker status, or "unknown"
    results,     \* query_results: the queries that stored one
    sql,         \* the statement of each submitted query
    task,        \* query -> [pc, read]: next step and contents read so far
    client,      \* client -> the state of its page (Page, below)
    told,        \* history: the queries whose page has shown how they ended
    requests,    \* statements and cancellations so far
    disturbed,   \* history: queries whose page had another request under way
    late,        \* history: <<q, t>>, q read t, then t was written, then q cached
    halfEdited   \* history: tables that a failed UPDATE changed

pages == <<client, told, disturbed>>
users == <<pages, requests>>
vars == <<exists, data, cache, status, results, sql, task, users, late, halfEdited>>

Dependencies(s) == ToSet(From[s])

InMemory(t) == data[t]
Stored(t) == [data[t] EXCEPT !.edits = 0]

\* A page that waits for nothing: no POST outstanding, none that the abort
\* controller knows, no query id, no interval, the button on "Execute Query",
\* no poll left over, none answered and unhandled, no result and no DELETE
\* asked for.
FreshPage ==
    [posts |-> {}, abortable |-> Nobody, current |-> Nobody, polled |-> Nobody,
     waiting |-> FALSE, asked |-> {}, answers |-> {}, fetching |-> {}, deletes |-> {}]

Init ==
    /\ exists = {}
    /\ data = [t \in Table |-> [drops |-> 0, inserts |-> 0, edits |-> 0]]
    /\ cache = <<>>
    /\ status = [q \in Query |-> "unknown"]
    /\ results = {}
    /\ sql = [q \in Query |-> Nobody]
    /\ task = [q \in Query |-> [pc |-> "none", read |-> <<>>]]
    /\ client = [c \in Client |-> FreshPage] /\ told = {} /\ disturbed = {}
    /\ requests = 0
    /\ late = {} /\ halfEdited = {}

----------------------------------------------------------------------------
(* The query cache: an LRU list.                                           *)

Others(s) == Retained(cache, { i \in 1..Len(cache) : cache[i].sql # s })
Entry(s) == Retained(cache, { i \in 1..Len(cache) : cache[i].sql = s })

\* get: a hit becomes the most recently used entry.
Touched(s) == Entry(s) \o Others(s)

\* Mutant: a full cache evicts nothing.
PutUnbounded(e) == <<e>> \o Others(e.sql)

\* put: the least recently used entry makes room.
CachePut(e) ==
    LET entries == <<e>> \o Others(e.sql)
    IN IF Len(entries) > Capacity THEN Front(entries) ELSE entries

\* Mutant: only the leftmost table of a join is a dependency.
InvalidateLeftmost(t) == Retained(cache, { i \in 1..Len(cache) : From[cache[i].sql][1] # t })

\* invalidate_tables, with the dependencies extract_table_dependencies found.
Invalidated(t) ==
    Retained(cache, { i \in 1..Len(cache) : t \notin Dependencies(cache[i].sql) })

----------------------------------------------------------------------------
(* Statements in one critical section.                                     *)

\* The queries that have read t and have not cached it yet (history).
HasRead(q, t) ==
    /\ task[q].pc \in {"scan", "put"}
    /\ \E k \in 1..Len(task[q].read) : From[sql[q]][k] = t
Racing(ts) == { race \in Query \X ts : HasRead(race[1], race[2]) }

Request == requests < MaxRequests /\ requests' = requests + 1

Write(t, new) ==
    /\ data' = [data EXCEPT ![t] = new]
    /\ late' = late \cup Racing({t})

CreateTable(t) ==
    /\ t \notin exists
    /\ Request
    /\ exists' = exists \cup {t}
    /\ UNCHANGED <<data, cache, status, results, sql, task, pages, late, halfEdited>>

Insert(t) ==
    /\ t \in exists
    /\ Request
    /\ Write(t, [data[t] EXCEPT !.inserts = @ + 1])
    /\ cache' = Invalidated(t)
    /\ UNCHANGED <<exists, status, results, sql, task, pages, halfEdited>>

\* UPDATE or DELETE.
Edit(t) ==
    /\ t \in exists
    /\ Request
    /\ Write(t, [data[t] EXCEPT !.edits = @ + 1])
    /\ cache' = Invalidated(t)
    /\ UNCHANGED <<exists, status, results, sql, task, pages, halfEdited>>

\* An UPDATE of two columns whose second expression cannot be evaluated: the
\* first column is changed and the error returned before the invalidation.
EditFails(t) ==
    /\ t \in exists
    /\ Request
    /\ Write(t, [data[t] EXCEPT !.edits = @ + 1])
    /\ halfEdited' = halfEdited \cup {t}
    /\ UNCHANGED <<exists, cache, status, results, sql, task, pages>>

DropAllTables ==
    /\ exists # {}
    /\ Request
    /\ exists' = {}
    /\ data' = [t \in Table |->
                  IF t \in exists
                  THEN [drops |-> data[t].drops + 1, inserts |-> 0, edits |-> 0]
                  ELSE data[t]]
    /\ late' = late \cup Racing(exists)
    /\ cache' = <<>>
    /\ UNCHANGED <<status, results, sql, task, pages, halfEdited>>

\* A SELECT that the web page does not recognise as one (or an embedded user):
\* a cached result needs no table; otherwise the copies in memory are read.
SelectAtOnce(s) ==
    /\ Request
    /\ IF Entry(s) # <<>> THEN cache' = Touched(s)
       ELSE /\ Dependencies(s) \subseteq exists
            /\ cache' = CachePut([sql |-> s, by |-> Nobody,
                         result |-> [k \in 1..Len(From[s]) |-> InMemory(From[s][k])]])
    /\ UNCHANGED <<exists, data, status, results, sql, task, pages, late, halfEdited>>

----------------------------------------------------------------------------
(* The task of an asynchronous SELECT.                                     *)

At(q, step) == task[q].pc = step
Goto(q, step) == task' = [task EXCEPT ![q].pc = step]
OnlyTask == UNCHANGED <<exists, data, cache, status, results, sql, users, late, halfEdited>>

Lookup(q) ==
    /\ At(q, "lookup")
    /\ IF Entry(sql[q]) # <<>>
       THEN Goto(q, "complete") /\ cache' = Touched(sql[q])
       ELSE Goto(q, "plan") /\ UNCHANGED cache
    /\ UNCHANGED <<exists, data, status, results, sql, users, late, halfEdited>>

Plan(q) ==
    /\ At(q, "plan")
    /\ Goto(q, IF Dependencies(sql[q]) \subseteq exists THEN "scan" ELSE "fail")
    /\ OnlyTask

Next1(q) == From[sql[q]][Len(task[q].read) + 1]

ReadAs(q, contents) ==
    task' = [task EXCEPT ![q] =
        [pc |-> IF Len(@.read) + 1 = Len(From[sql[q]]) THEN "put" ELSE "scan",
         read |-> Append(@.read, contents)]]

\* execute_table_ref_with_progress: a table with rows is scanned unless the
\* query was cancelled; an empty one has no chunk to check before.
Scan(q) ==
    /\ At(q, "scan")
    /\ Next1(q) \in exists
    /\ status[q] # "Cancelled" \/ Stored(Next1(q)).inserts = 0
    /\ ReadAs(q, Stored(Next1(q)))
    /\ OnlyTask

\* The index answers from the copy in memory, without a look at the tracker.
IndexScan(q) ==
    /\ At(q, "scan")
    /\ sql[q] \in Indexed
    /\ Next1(q) \in exists
    /\ InMemory(Next1(q)).inserts > 0
    /\ ReadAs(q, InMemory(Next1(q)))
    /\ OnlyTask

\* The table is gone, or the query was cancelled (also seen by a join
\* and by the aggregation after an index scan).
ScanFails(q) ==
    /\ \/ At(q, "scan") /\ Next1(q) \notin exists
       \/ At(q, "scan") /\ status[q] = "Cancelled" /\ Stored(Next1(q)).inserts > 0
       \/ At(q, "put") /\ status[q] = "Cancelled" /\ (Len(From[sql[q]]) > 1 \/ sql[q] \in Indexed)
    /\ Goto(q, "fail")
    /\ OnlyTask

FillCache(q) ==
    /\ At(q, "put")
    /\ cache' = CachePut([sql |-> sql[q], by |-> q, result |-> task[q].read])
    /\ Goto(q, "complete")
    /\ UNCHANGED <<exists, data, status, results, sql, users, late, halfEdited>>

\* The tracker becomes Completed, whatever it said, ...
Complete(q) ==
    /\ At(q, "complete")
    /\ status' = [status EXCEPT ![q] = "Completed"]
    /\ Goto(q, "store")
    /\ UNCHANGED <<exists, data, cache, results, sql, users, late, halfEdited>>

\* ... and the result is stored in a second critical section.
StoreResult(q) ==
    /\ At(q, "store")
    /\ results' = results \cup {q}
    /\ Goto(q, "done")
    /\ UNCHANGED <<exists, data, cache, status, sql, users, late, halfEdited>>

\* Mutant: an error leaves the tracker as it is.
FailSilently(q) ==
    /\ At(q, "fail")
    /\ Goto(q, "done")
    /\ OnlyTask

Fail(q) ==
    /\ At(q, "fail")
    /\ status' = [status EXCEPT ![q] = "Failed"]
    /\ Goto(q, "done")
    /\ UNCHANGED <<exists, data, cache, results, sql, users, late, halfEdited>>

----------------------------------------------------------------------------
(* The page (web/app.js).                                                  *)

HasAnswers(p) == { a.query : a \in p.answers }

\* The queries that page p has asked for and not shown yet.
Outstanding(p) ==
    p.posts \cup p.asked \cup p.fetching \cup HasAnswers(p) \cup ({p.polled} \ {Nobody})
Idle(p) == Outstanding(p) = {} /\ p.deletes = {}

\* Histories: the first of the two for a query counts.
Shows(q) == told' = told \cup ({q} \ disturbed)
Disturbs(qs) == disturbed' = disturbed \cup (qs \ told)

Becomes(c, p) == client' = [client EXCEPT ![c] = p]

\* stopProgressPolling: a poll may be under way, at most one for a query.
Stopped(p) ==
    [p EXCEPT !.polled = Nobody, !.asked = @ \cup (({p.polled} \ {Nobody}) \ HasAnswers(p))]

\* ... and resetExecuteButton.
Reset(p) == [Stopped(p) EXCEPT !.waiting = FALSE]

\* abort(), and the handler of the AbortError that runs right after: it stops
\* whatever is polled, resets the button and cancels the current query.
Aborted(p) ==
    IF p.abortable = Nobody THEN p
    ELSE [Reset(p) EXCEPT !.posts = @ \ {p.abortable}, !.abortable = Nobody,
                          !.deletes = IF p.current = Nobody THEN @ ELSE @ \cup {"abort"}]

Deleted(q) == IF q = Nobody THEN status ELSE [status EXCEPT ![q] = "Cancelled"]

\* The query that aborting the outstanding POST cancels.
CancelledBy(p) == IF p.abortable = Nobody THEN Nobody ELSE p.current

\* executeQuery with a SELECT, and execute_query with execute_async_internal:
\* the tracker, then the task.  A query that was polled goes on unheeded.  After
\* an aborted POST the button is reset, and the controller of the new POST lost
\* (finally), unless a DELETE is awaited before.
Submit(c, q, s) ==
    /\ \A p \in Query : p < q <=> status[p] # "unknown"
    /\ LET p == client[c]
           free == p.abortable = Nobody
       IN /\ Becomes(c, [Stopped(Aborted(p)) EXCEPT
                !.posts = @ \cup {q}, !.waiting = free,
                !.abortable = IF free \/ p.current # Nobody THEN q ELSE Nobody])
          /\ status' = [Deleted(CancelledBy(p)) EXCEPT ![q] = "Running"]
          /\ Disturbs(Outstanding(p) \cup IF Idle(p) THEN {} ELSE {q})
    /\ sql' = [sql EXCEPT ![q] = s]
    /\ task' = [task EXCEPT ![q].pc = "lookup"]
    /\ UNCHANGED <<exists, data, cache, results, told, requests, late, halfEdited>>

\* executeQuery with any other statement, whose answer ends it.
SubmitOther(c) ==
    /\ Request
    /\ Becomes(c, Reset(Aborted(client[c])))
    /\ status' = Deleted(CancelledBy(client[c]))
    /\ Disturbs(Outstanding(client[c]))
    /\ UNCHANGED <<exists, data, cache, results, sql, task, told, late, halfEdited>>

\* What only the page does.
OnlyPage == UNCHANGED <<exists, data, cache, status, results, sql, task, disturbed, requests, late, halfEdited>>

\* The answer to a POST: its query becomes the current one and is polled.
Answered(c, q) ==
    /\ q \in client[c].posts
    /\ Becomes(c, [Stopped(client[c]) EXCEPT
          !.posts = @ \ {q}, !.abortable = Nobody, !.current = q, !.polled = q])
    /\ OnlyPage /\ UNCHANGED told

Ended == {"Completed", "Failed", "Cancelled"}

\* The tracker answers a poll; "Running" is only displayed.
Polled(c, q) ==
    /\ q \in client[c].asked \/ (q = client[c].polled /\ status[q] \in Ended)
    /\ Becomes(c, [client[c] EXCEPT
          !.asked = @ \ {q},
          !.answers = @ \cup { [query |-> q, says |-> x] : x \in {status[q]} \cap Ended }])
    /\ OnlyPage /\ UNCHANGED told

\* pollProgress after its await: whatever is polled by now is polled no more,
\* and the result of a Completed query is asked for.
Handle(c, a) ==
    /\ a \in client[c].answers
    /\ LET p == [Stopped(client[c]) EXCEPT !.answers = @ \ {a}]
       IN IF a.says = "Completed"
          THEN /\ Becomes(c, [p EXCEPT !.fetching = @ \cup {a.query}])
               /\ UNCHANGED told
          ELSE /\ Becomes(c, [p EXCEPT !.waiting = FALSE])
               /\ Shows(a.query)
    /\ OnlyPage

\* fetchQueryResult asks once: the result, or an error if it is not there yet.
Fetched(c, q) ==
    /\ q \in client[c].fetching
    /\ Becomes(c, [client[c] EXCEPT !.fetching = @ \ {q}, !.waiting = FALSE, !.current = Nobody])
    /\ Shows(q)
    /\ OnlyPage

\* Mutant: a cancelled query is recorded as failed.
CancelAsFailed(c) ==
    /\ client[c].waiting /\ client[c].current # Nobody
    /\ Request
    /\ status' = [status EXCEPT ![client[c].current] = "Failed"]
    /\ Becomes(c, [client[c] EXCEPT !.deletes = @ \cup {"button"}])
    /\ Disturbs(Outstanding(client[c]))
    /\ UNCHANGED <<exists, data, cache, results, sql, task, told, late, halfEdited>>

\* cancelQuery and cancel_query: the tracker of the current query becomes
\* Cancelled, whatever it said; without a current query nothing is awaited.
Cancel(c) ==
    /\ client[c].waiting
    /\ Request
    /\ status' = Deleted(client[c].current)
    /\ LET p == Aborted(client[c])
       IN Becomes(c, IF client[c].current = Nobody THEN Reset(p)
                     ELSE [p EXCEPT !.deletes = @ \cup {"button"}])
    /\ Disturbs(Outstanding(client[c]))
    /\ UNCHANGED <<exists, data, cache, results, sql, task, told, late, halfEdited>>

\* The answer to a DELETE: the current query, by now perhaps another, is
\* forgotten, and so is the controller or, after the button, what is polled.
DeleteAnswered(c, by) ==
    /\ by \in client[c].deletes
    /\ LET p == [client[c] EXCEPT !.deletes = @ \ {by}, !.current = Nobody]
       IN Becomes(c, IF by = "abort" THEN [p EXCEPT !.abortable = Nobody] ELSE Reset(p))
    /\ OnlyPage /\ UNCHANGED told

TaskStep(q) ==
    \/ Lookup(q) \/ Plan(q) \/ Scan(q) \/ IndexScan(q) \/ ScanFails(q)
    \/ FillCache(q) \/ Complete(q) \/ StoreResult(q) \/ Fail(q)

PageStep(c) ==
    \/ \E q \in Query : Answered(c, q) \/ Polled(c, q) \/ Fetched(c, q)
    \/ \E a \in client[c].answers : Handle(c, a)
    \/ \E by \in client[c].deletes : DeleteAnswered(c, by)

Next ==
    \/ \E t \in Table : CreateTable(t) \/ Insert(t) \/ Edit(t) \/ EditFails(t)
    \/ DropAllTables
    \/ \E s \in Sql : SelectAtOnce(s)
    \/ \E c \in Client :
        \/ \E q \in Query, s \in Sql : Submit(c, q, s)
        \/ SubmitOther(c) \/ Cancel(c) \/ PageStep(c)
    \/ \E q \in Query : TaskStep(q)

Spec == Init /\ [][Next]_vars

\* The runtime schedules every task, every request is answered, and the
\* interval polls until it is stopped.
Fairness ==
    /\ \A q \in Query : WF_vars(TaskStep(q))
    /\ \A c \in Client : WF_vars(PageStep(c))
FairSpec == Spec /\ Fairness

----------------------------------------------------------------------------
(* What clients can rely on.                                               *)

Contents == [drops : Nat, inserts : Nat, edits : Nat]

Answer == [query : Query, says : Ended]
Page == [posts : SUBSET Query, abortable : Query \cup {Nobody},
         current : Query \cup {Nobody}, polled : Query \cup {Nobody}, waiting : BOOLEAN,
         asked : SUBSET Query, answers : SUBSET Answer, fetching : SUBSET Query, deletes : SUBSET {"abort", "button"}]

TypeOK ==
    /\ exists \subseteq Table
    /\ data \in [Table -> Contents]
    /\ Len(cache) <= Capacity
    /\ \A i \in 1..Len(cache) :
          /\ cache[i].sql \in Sql /\ cache[i].by \in Query \cup {Nobody}
          /\ cache[i].result \in [1..Len(From[cache[i].sql]) -> Contents]
    /\ \A i, j \in 1..Len(cache) : cache[i].sql = cache[j].sql => i = j
    /\ status \in [Query -> {"unknown", "Running", "Completed", "Failed", "Cancelled"}]
    /\ results \subseteq Query
    /\ sql \in [Query -> Sql \cup {Nobody}]
    /\ \A q \in Query : task[q].read \in Seq(Contents)
    /\ client \in [Client -> Page]
    /\ told \subseteq Query /\ disturbed \subseteq Query /\ requests \in Nat

\* Entry e is what a reader of its k-th table would find now.
UpToDate(e, k) ==
    LET t == From[e.sql][k]
    IN t \in exists /\ e.result[k] \in {InMemory(t), Stored(t)}

\* A cached result is out of date only if its query read a table, the table
\* was then written, and the query filled the cache after the invalidation -
\* or if an UPDATE failed half way.  Nothing else keeps a stale entry: not a
\* join, not a cache hit, not DROP ALL TABLES followed by CREATE TABLE.
StaleOnlyByRace ==
    \A i \in 1..Len(cache) : \A k \in 1..Len(From[cache[i].sql]) :
        \/ UpToDate(cache[i], k)
        \/ <<cache[i].by, From[cache[i].sql][k]>> \in late
        \/ From[cache[i].sql][k] \in halfEdited

\* The cache never answers with contents that are gone, unless a failed UPDATE
\* left them half changed ("invalidate cache for write operations").
CacheFresh ==
    \A i \in 1..Len(cache) : \A k \in 1..Len(From[cache[i].sql]) :
        UpToDate(cache[i], k) \/ From[cache[i].sql][k] \in halfEdited

\* A query that stored a result is never reported as failed, however its
\* cancellation interleaves with its last steps.
ResultMeansSuccess == \A q \in results : status[q] \in {"Completed", "Cancelled"}

\* No page keeps its button on "Cancel Query", and every query is answered on
\* its page, by its result or by an error - unless the page had another request
\* under way.  It had one if the user sent a statement over the query (app.js:52)
\* or cancelled it, or if it was sent over an earlier one, whose answer can stop
\* its polling (app.js:467), or before the answers to a cancelled one had come
\* in.  No task panics here: lib.rs:431 leaves the tracker of one that does at
\* Running.
ClientAnswered ==
    /\ \A c \in Client : client[c].waiting ~> ~client[c].waiting
    /\ \A q \in Query : status[q] # "unknown" ~> q \in told \cup disturbed
=============================================================================
