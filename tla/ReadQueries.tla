---------------------------- MODULE ReadQueries ----------------------------
(***************************************************************************)
(* What each statement of the read endpoints answers, as a function of the *)
(* snapshot it runs on: /stats, /stats/breakdown, /stats/dashboard,        *)
(* /metrics, /dashboard, /records/compression and its detail.  An average  *)
(* and a ratio are left to the record that holds their terms.              *)
(***************************************************************************)
EXTENDS AnalyticsRows

Requests(db, f) == Cardinality(RequestsOf(db, f))

Executions(db, f) == Cardinality(Matching(db, f))

Failed(e) == e.status = "failed"
Succeeded(e) == e.status = "succeeded"

TokenTotals(db, f) ==
  LET rows == Matching(db, f)
  IN [original |-> Sum(rows, LAMBDA e : e.original),
      compressed |-> Sum(rows, LAMBDA e : e.compressed),
      saved |-> Sum(rows, LAMBDA e : e.saved),
      duration |-> Sum(rows, LAMBDA e : e.duration),
      failed |-> Count(rows, Failed), negative |-> Count(rows, Negative),
      succeeded |-> Count(rows, Succeeded)]

UsageTotals(db, f) ==
  LET rows == UsagesOf(db, f, "provider_reported")
  IN [input |-> Sum(rows, LAMBDA u : u.input), cached |-> Sum(rows, LAMBDA u : u.cached),
      total |-> Sum(rows, LAMBDA u : u.total)]

CacheTotals(db, f) ==
  LET rows == ActivitiesOf(db, f)
  IN [reads |-> Count(rows, LAMBDA a : a.operation = "read"),
      writes |-> Count(rows, LAMBDA a : a.operation \in {"write", "create"}),
      hits |-> Count(rows, LAMBDA a : a.hit = TRUE),
      tokens_read |-> Sum(rows, LAMBDA a : a.read),
      tokens_written |-> Sum(rows, LAMBDA a : a.written)]

-----------------------------------------------------------------------------
(* Dashboard *)

\* All the counts of the dashboard are scalar subqueries of one statement.
Counts(db, f) ==
  [requests |-> Requests(db, f), executions |-> Executions(db, f),
   calls |-> Cardinality(CallsOf(db, f)), chunks |-> Cardinality(ChunksOf(db, f)),
   retrievals |-> Cardinality(RetrievalsOf(db, f)), tokens |-> TokenTotals(db, f)]

\* Median and 90th percentile of what the column holds, and the terms of its
\* average.
Distribution(column) ==
  [p50 |-> Percentile(5, column), p90 |-> Percentile(9, column),
   sum |-> SumFunction(column), count |-> Cardinality(DOMAIN column)]

Savings(db, f) ==
  LET column == Column(Matching(db, f), LAMBDA e : e.saved)
      values == {column[e] : e \in DOMAIN column}
      of == Distribution(column)
  IN [p50 |-> of.p50, p90 |-> of.p90, sum |-> of.sum, count |-> of.count,
      min |-> IF values = {} THEN None ELSE 10 * Min(values),
      max |-> IF values = {} THEN None ELSE 10 * Max(values)]

Durations(db, f) == Distribution(Column(Matching(db, f), LAMBDA e : e.duration))

\* Only requests with both ends count.
Latencies(db, f) ==
  LET timed == {r \in db.requests : /\ r.id \in RequestsOf(db, f)
                                    /\ r.started # None /\ r.ended # None}
  IN Distribution(Column(timed, LAMBDA r : r.ended - r.started))

EstimateDelta(db, f) ==
  LET reported == Sum(UsagesOf(db, f, "provider_reported"), LAMBDA u : u.input)
      before == Sum(UsagesOf(db, f, "estimated_before"), LAMBDA u : u.input)
      after == Sum(UsagesOf(db, f, "estimated_after"), LAMBDA u : u.input)
  IN [reported |-> reported, before |-> before, after |-> after,
      total |-> Sum(UsagesOf(db, f, "provider_reported"), LAMBDA u : u.total),
      before_delta |-> before - reported, after_delta |-> after - reported]

\* Mutant of Billing: the cached input is taken as reported.
BillingUnclamped(db, f, fallback) ==
  LET reported == Sum(UsagesOf(db, f, "provider_reported"), LAMBDA u : u.input)
      cached == Sum(UsagesOf(db, f, "provider_reported"), LAMBDA u : u.cached)
      before == Sum(UsagesOf(db, f, "estimated_before"), LAMBDA u : u.input)
      baseline == IF before # 0 THEN before ELSE fallback
      billed == IF reported = 0 THEN None ELSE 10 * (reported - cached) + cached
  IN [reported |-> reported, cached |-> cached, uncached |-> reported - cached,
      baseline |-> baseline, billed |-> billed,
      saved |-> IF billed = None \/ baseline = 0 THEN None ELSE 10 * baseline - billed]

\* The cached input is at most the input; what it costs is a tenth of it, so
\* that billed and saved are tenths of tokens.  Without an estimate of the
\* input before compression the baseline is what the counts said before.
Billing(db, f, fallback) ==
  LET reported == Sum(UsagesOf(db, f, "provider_reported"), LAMBDA u : u.input)
      cached == Min({Sum(UsagesOf(db, f, "provider_reported"), LAMBDA u : u.cached),
                     reported})
      before == Sum(UsagesOf(db, f, "estimated_before"), LAMBDA u : u.input)
      baseline == IF before # 0 THEN before ELSE fallback
      billed == IF reported = 0 THEN None ELSE 10 * (reported - cached) + cached
  IN [reported |-> reported, cached |-> cached, uncached |-> reported - cached,
      baseline |-> baseline, billed |-> billed,
      saved |-> IF billed = None \/ baseline = 0 THEN None ELSE 10 * baseline - billed]

EstimatedCosts(db, f) ==
  {c \in db.costs : c.kind = "estimated" /\ \E k \in CallsOf(db, f) : k.id = c.call}

EstimatedCost(db, f) == SumOrNone(EstimatedCosts(db, f), LAMBDA c : c.total)

MeasuredCost(db, f) == SumOrNone(CallsOf(db, f), LAMBDA k : k.cost)

\* Calls that cost more than one of their estimates, each counted once.
CostIncreases(db, f) ==
  Cardinality({k \in CallsOf(db, f) :
                 /\ k.cost # None
                 /\ \E c \in EstimatedCosts(db, f) :
                      c.call = k.id /\ c.total # None /\ k.cost > c.total})

-----------------------------------------------------------------------------
(* Breakdowns, records and the detail of one request *)

\* The field of the execution's newest call, or None.  No two calls of an
\* execution are inserted by one transaction, so that one is the newest.
LatestCall(db, e, field) ==
  LET calls == {k \in db.calls : k.execution = e.id}
  IN IF calls = {} THEN None
     ELSE (CHOOSE k \in calls : \A j \in calls : j.created <= k.created)[field]

OrElse(value, default) == IF value = None THEN default ELSE value

Dimension(db, group, e) ==
  LET r == RequestOf(db, e)
  IN CASE group = "provider" ->
            OrElse(OrElse(LatestCall(db, e, "provider"), r.provider), "unknown")
       [] group = "model" ->
            OrElse(OrElse(LatestCall(db, e, "model"), r.model), "unknown")
       [] group = "strategy" -> e.strategy
       [] group = "tenant" -> OrElse(r.tenant, "unknown")
       [] group = "team" -> OrElse(r.team, "unknown")
       [] group = "status" -> e.status

BreakdownRow(value, rows) ==
  [value |-> value, requests |-> Cardinality({e.request : e \in rows}),
   executions |-> Cardinality(rows), saved |-> Sum(rows, LAMBDA e : e.saved),
   original |-> Sum(rows, LAMBDA e : e.original),
   compressed |-> Sum(rows, LAMBDA e : e.compressed), negative |-> Count(rows, Negative)]

\* The groups that save most, at most BreakdownLimit of them.
Breakdown(db, f, group) ==
  LET rows == {BreakdownRow(v, {e \in Matching(db, f) : Dimension(db, group, e) = v}) :
                 v \in {Dimension(db, group, e) : e \in Matching(db, f)}}
  IN IF Cardinality(rows) <= BreakdownLimit THEN rows
     ELSE CHOOSE top \in kSubset(BreakdownLimit, rows) :
            \A r \in top, s \in rows \ top : r.saved >= s.saved

\* Mutant of Newer: created_at does not break ties.
NewerByTime(db, e, d) == ExecutionTime(db, e) >= ExecutionTime(db, d)

\* ORDER BY time DESC, created_at DESC allows e before d.
Newer(db, e, d) ==
  \/ ExecutionTime(db, e) > ExecutionTime(db, d)
  \/ ExecutionTime(db, e) = ExecutionTime(db, d) /\ e.created >= d.created

\* Calls of the request that name no attempt count for all its executions.
Record(db, e) ==
  [execution |-> e.id,
   provider |-> OrElse(LatestCall(db, e, "provider"), RequestOf(db, e).provider),
   calls |-> Cardinality({k \in db.calls :
               \/ k.execution = e.id
               \/ k.execution = None /\ k.request = e.request}),
   chunks |-> Cardinality({c \in db.chunks : c.execution = e.id}),
   retrievals |-> Cardinality({t \in db.retrievals : t.chunk.execution = e.id})]

\* The pages the statement may answer: rows that tie come in any order.
Pages(db, f, limit, offset) ==
  LET orders == {s \in SetToSeqs(Matching(db, f)) :
                   \A i, j \in DOMAIN s : i < j => Newer(db, s[i], s[j])}
      page(s) == SubSeq(s, offset + 1, Min({offset + limit, Len(s)}))
  IN {[i \in DOMAIN page(s) |-> Record(db, page(s)[i])] : s \in orders}

RequestRow(db, request) == {r \in db.requests : r.id = request}

Attempts(db, request) == {e \in db.executions : e.request = request}

ChunkRows(db, attempts) == {c \in db.chunks : \E e \in attempts : e.id = c.execution}

ChunkRetrievals(db, chunks) == {t \in db.retrievals : t.chunk \in chunks}

RequestCalls(db, request) == {k \in db.calls : k.request = request}

CallUsage(db, calls) == {u \in db.usages : \E k \in calls : k.id = u.call}

RequestActivities(db, request) == {a \in db.activities : a.request = request}

=============================================================================
