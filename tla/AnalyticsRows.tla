--------------------------- MODULE AnalyticsRows ---------------------------
(***************************************************************************)
(* The rows the analytics backend stores, as record sets in a record of    *)
(* tables, and the SQL statements its read endpoints execute on them.  A   *)
(* row names another by its unique key, where the database has a UUID.     *)
(* NULL is None.  A command lists at most one call of an attempt, a call   *)
(* one usage row per measurement source, as the proxy sends them.          *)
(***************************************************************************)
EXTENDS Integers, Sequences, FiniteSets, FiniteSetsExt, SequencesExt

CONSTANTS None, BreakdownLimit

NoRows == [requests |-> {}, executions |-> {}, chunks |-> {}, calls |-> {},
           usages |-> {}, costs |-> {}, activities |-> {}, retrievals |-> {}]

-----------------------------------------------------------------------------
(* Writes: what a committed transaction leaves in the tables *)

\* Mutant of FirstWriter: INSERT ... ON CONFLICT DO UPDATE.
LastWriter(rows, new) == {r \in rows : \A n \in new : n.id # r.id} \cup new

\* INSERT ... ON CONFLICT DO NOTHING on the unique key.
FirstWriter(rows, new) == rows \cup {n \in new : \A r \in rows : r.id # n.id}

\* Simulated executions have no unique key.
ExecutionKey(c) ==
  IF c.simulated THEN <<c.request.id, c.attempt, c.event>>
                 ELSE <<c.request.id, c.attempt>>

RequestRowOf(c, now) ==
  LET r == c.request
  IN [id |-> r.id, provider |-> r.provider, model |-> r.model, tenant |-> r.tenant,
      team |-> r.team, metadata |-> r.metadata, started |-> r.started,
      ended |-> r.ended, created |-> now]

ExecutionRow(c, now) ==
  [id |-> ExecutionKey(c), request |-> c.request.id, simulated |-> c.simulated,
   status |-> c.status, strategy |-> c.strategy, original |-> c.original,
   compressed |-> c.compressed, saved |-> c.saved, duration |-> c.duration,
   started |-> c.started, created |-> now]

CallRow(c, k, now) ==
  [id |-> k.id, request |-> c.request.id,
   execution |-> IF k.attached THEN ExecutionKey(c) ELSE None,
   provider |-> k.provider, model |-> k.model, cost |-> k.cost, created |-> now]

UsageRow(c, k, u) ==
  [event |-> c.event, call |-> k.id, source |-> u.source, input |-> u.input,
   cached |-> u.cached, total |-> u.total]

\* The command of one event, applied in a transaction that began at now.  A
\* repeated request, attempt, chunk or call keeps the row it has; usage, cost
\* and activity rows have no unique key.
Ingested(db, c, now) ==
  [db EXCEPT
    !.requests = FirstWriter(@, {RequestRowOf(c, now)}),
    !.executions = FirstWriter(@, {ExecutionRow(c, now)}),
    !.chunks = @ \cup {[execution |-> ExecutionKey(c), ordinal |-> i] : i \in c.chunks},
    !.calls = FirstWriter(@, {CallRow(c, k, now) : k \in c.calls}),
    !.usages = @ \cup UNION {{UsageRow(c, k, u) : u \in k.usages} : k \in c.calls},
    !.costs = @ \cup UNION {{[event |-> c.event, call |-> k.id, kind |-> "estimated",
                              total |-> t] : t \in k.estimates} : k \in c.calls},
    !.activities = @ \cup {a @@ [event |-> c.event, request |-> c.request.id,
                                 execution |-> ExecutionKey(c)] : a \in c.activities}]

\* GET or POST of a chunk's content leaves an event of its own.
Retrieved(db, chunk) ==
  [db EXCEPT !.retrievals = @ \cup {[id |-> Cardinality(@) + 1, chunk |-> chunk]}]

\* What the schema's unique and foreign keys demand of the tables.
KeysHold(db) ==
  /\ DOMAIN db = DOMAIN NoRows
  /\ \A r, s \in db.requests : r.id = s.id => r = s
  /\ \A d, e \in db.executions : d.id = e.id => d = e
  /\ \A j, k \in db.calls : j.id = k.id => j = k
  /\ \A e \in db.executions : \E r \in db.requests : r.id = e.request
  /\ \A c \in db.chunks : \E e \in db.executions : e.id = c.execution
  /\ \A k \in db.calls :
       /\ \E r \in db.requests : r.id = k.request
       /\ k.execution = None \/ \E e \in db.executions : e.id = k.execution
  /\ \A t \in db.retrievals : t.chunk \in db.chunks

-----------------------------------------------------------------------------
(* query_filters.py *)

NoFilter == [from |-> None, to |-> None, provider |-> None, model |-> None,
             strategy |-> None, tenant |-> None, team |-> None, status |-> None,
             negative |-> None, scope |-> "real"]

RequestOf(db, e) == CHOOSE r \in db.requests : r.id = e.request

ExecutionTime(db, e) ==
  LET r == RequestOf(db, e)
  IN IF e.started # None THEN e.started
     ELSE IF r.started # None THEN r.started ELSE r.created

TestFlags == {"smoke", "demo", "synthetic", "test"}

\* Metadata is a set of <<key, value>>, values in lower case.
IsTestData(r) ==
  \E m \in r.metadata :
    \/ m[1] \in TestFlags /\ m[2] \in {"1", "on", "true", "yes"}
    \/ m[1] \in {"analytics_data_scope", "data_scope"} /\ m[2] \in TestFlags

Equal(wanted, value) == wanted = None \/ wanted = value

\* The provider or model the filter names, hinted at by the request or used by
\* any of its calls.
HintedOrCalled(db, r, wanted, hint, field) ==
  \/ Equal(wanted, hint)
  \/ \E k \in db.calls : k.request = r.id /\ k[field] = wanted

\* tokens_saved < 0 when asked for, IS NULL OR >= 0 when its absence is.
Negative(e) == e.saved # None /\ e.saved < 0

\* Mutant of SavingsMatch: tokens_saved >= 0, without IS NULL.
SavingsMatchNotNull(f, e) ==
  \/ f.negative = None
  \/ f.negative = TRUE /\ Negative(e)
  \/ f.negative = FALSE /\ e.saved # None /\ e.saved >= 0

SavingsMatch(f, e) == f.negative = None \/ f.negative = Negative(e)

Matches(db, f, e) ==
  LET r == RequestOf(db, e)
  IN /\ ~e.simulated
     /\ f.scope = "real" => ~IsTestData(r)
     /\ f.scope = "test" => IsTestData(r)
     /\ f.from # None => ExecutionTime(db, e) >= f.from
     /\ f.to # None => ExecutionTime(db, e) <= f.to
     /\ Equal(f.strategy, e.strategy) /\ Equal(f.status, e.status)
     /\ Equal(f.tenant, r.tenant) /\ Equal(f.team, r.team)
     /\ SavingsMatch(f, e)
     /\ HintedOrCalled(db, r, f.provider, r.provider, "provider")
     /\ HintedOrCalled(db, r, f.model, r.model, "model")

Matching(db, f) == {e \in db.executions : Matches(db, f, e)}

Ids(db, f) == {e.id : e \in Matching(db, f)}

\* The calls of matching executions, themselves of the provider and the model.
CallsOf(db, f) ==
  {k \in db.calls : /\ k.execution \in Ids(db, f)
                    /\ Equal(f.provider, k.provider) /\ Equal(f.model, k.model)}

UsagesOf(db, f, source) ==
  {u \in db.usages : u.source = source /\ \E k \in CallsOf(db, f) : k.id = u.call}

ChunksOf(db, f) == {c \in db.chunks : c.execution \in Ids(db, f)}

RetrievalsOf(db, f) == {t \in db.retrievals : t.chunk \in ChunksOf(db, f)}

ActivitiesOf(db, f) == {a \in db.activities : a.execution \in Ids(db, f)}

RequestsOf(db, f) == {e.request : e \in Matching(db, f)}

-----------------------------------------------------------------------------
(* Aggregates *)

\* SUM skips NULL and is NULL over no value.
SumOrNone(rows, Value(_)) ==
  LET some == {r \in rows : Value(r) # None}
  IN IF some = {} THEN None ELSE MapThenSumSet(Value, some)

OrZero(value) == IF value = None THEN 0 ELSE value

Sum(rows, Value(_)) == OrZero(SumOrNone(rows, Value))

Count(rows, P(_)) == Cardinality({r \in rows : P(r)})

\* The values of a column that are not NULL, by their row.
Column(rows, Value(_)) == [r \in {s \in rows : Value(s) # None} |-> Value(r)]

AtMost(column, x) == {r \in DOMAIN column : column[r] <= x}
Below(column, x) == {r \in DOMAIN column : column[r] < x}

\* The value at place k when the column is sorted.
Ranked(column, k) ==
  CHOOSE x \in {column[r] : r \in DOMAIN column} :
    Cardinality(Below(column, x)) < k /\ k <= Cardinality(AtMost(column, x))

\* percentile_cont(tenths/10), tenfold so that it stays an integer; a
\* percentile of no value is NULL.
Percentile(tenths, column) ==
  LET at == tenths * (Cardinality(DOMAIN column) - 1)
      low == Ranked(column, 1 + at \div 10)
  IN IF DOMAIN column = {} THEN None
     ELSE IF at % 10 = 0 THEN 10 * low
     ELSE 10 * low + (at % 10) * (Ranked(column, 2 + at \div 10) - low)

=============================================================================
