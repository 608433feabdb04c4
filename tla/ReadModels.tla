----------------------------- MODULE ReadModels -----------------------------
(***************************************************************************)
(* The read side of the analytics API while ingestion goes on.  A request  *)
(* runs its statements one after the other in one session; PostgreSQL is   *)
(* at READ COMMITTED, so each statement sees the transactions committed    *)
(* before it, and what the endpoint puts into one answer comes from        *)
(* several snapshots.  created_at is the time a transaction began, which   *)
(* is not the order in which transactions commit.                          *)
(***************************************************************************)
EXTENDS ReadQueries

CONSTANTS
  Commands,       \* ingestion commands, one per event
  Earlier,        \* the rows committed before
  Questions,      \* requests of the clients:
                  \* [view, filter, preset, from, to, request, offset]
  PresetLength,   \* preset of the dashboard -> its length
  PageLimit,      \* records a client asks for at a time
  MaxRetrievals   \* bound on retrieval events

\* started is a timestamp or NULL; created, when the transaction began, never
\* NULL, and no two executions were inserted by transactions that began together.
TimesHold(tables) ==
  /\ \A row \in tables.requests \cup tables.executions :
       (row.started = None \/ row.started \in Int) /\ row.created \in Int
  /\ \A d, e \in tables.executions : d.created = e.created => d = e

\* The key of an execution begins with its request's, and no request is without one.
RequestsRan(tables) ==
  /\ \A e \in tables.executions : e.id[1] = e.request
  /\ \A r \in tables.requests : \E e \in tables.executions : e.request = r.id

CountOrNone(value) == value = None \/ value \in Nat

\* Token counts and durations are not negative; what an execution saved may be.
FiguresHold(tables) ==
  /\ \A e \in tables.executions :
       /\ CountOrNone(e.original) /\ CountOrNone(e.duration)
       /\ e.saved = None \/ e.saved \in Int
  /\ \A u \in tables.usages : CountOrNone(u.input) /\ CountOrNone(u.cached)
  /\ \A r \in tables.requests : r.ended = None \/ r.ended \in Int

\* The tables are finite and keep their keys, and a command lists a call once.
\* A client that pages through the records begins with the first.
ASSUME ReadModelsAssumption ==
  /\ None \notin Int /\ None \notin BOOLEAN /\ BreakdownLimit \in Nat
  /\ KeysHold(Earlier) /\ TimesHold(Earlier) /\ RequestsRan(Earlier) /\ FiguresHold(Earlier)
  /\ \A table \in DOMAIN Earlier : IsFiniteSet(Earlier[table])
  /\ \A c \in Commands :
       /\ IsFiniteSet(c.chunks) /\ IsFiniteSet(c.calls)
       /\ \A j, k \in c.calls : j.id = k.id => j = k
       /\ CountOrNone(c.original) /\ CountOrNone(c.duration)
       /\ \A s \in {c.started, c.request.started, c.request.ended, c.saved} :
            s = None \/ s \in Int
       /\ \A k \in c.calls :
            /\ IsFiniteSet(k.usages)
            /\ \A u \in k.usages : CountOrNone(u.input) /\ CountOrNone(u.cached)
  /\ \A q \in Questions :
       /\ q.view \in {"stats", "page", "records", "walk", "detail"}
       /\ DOMAIN q.filter = DOMAIN NoFilter
       /\ q.offset \in Nat /\ (q.view = "walk" => q.offset = 0)
  /\ PageLimit \in Nat \ {0}

VARIABLES
  db,        \* the committed rows
  running,   \* transactions that have begun: [command, began]
  begun,     \* events whose transaction has begun
  clock,     \* now(); every transaction begins at a time of its own
  view,      \* the endpoint that is answering, or "idle"
  query,     \* what it was asked: [filter, request, offset]
  answer,    \* statement -> what it answered
  walk       \* a client that pages on: records it has seen, records it is owed

writeVars == <<db, running, begun, clock>>
readVars == <<view, query, answer, walk>>
vars == <<db, running, begun, clock, view, query, answer, walk>>

NoQuery == [filter |-> NoFilter, request |-> None, offset |-> 0]
NoWalk == [seen |-> {}, owed |-> {}]

Init ==
  /\ db = Earlier
  /\ running = {} /\ begun = {}
  /\ clock = 1 + Max({0} \cup {e.created : e \in Earlier.executions})
  /\ view = "idle" /\ query = NoQuery /\ answer = <<>> /\ walk = NoWalk

-----------------------------------------------------------------------------
(* Ingestion and retrieval *)

Begin(c) ==
  /\ c.event \notin begun
  /\ running' = running \cup {[command |-> c, began |-> clock]}
  /\ begun' = begun \cup {c.event}
  /\ clock' = clock + 1
  /\ UNCHANGED <<db, readVars>>

Commit(t) ==
  /\ db' = Ingested(db, t.command, t.began)
  /\ running' = running \ {t}
  /\ UNCHANGED <<begun, clock, readVars>>

Retrieve(chunk) ==
  /\ Cardinality(db.retrievals) < MaxRetrievals
  /\ db' = Retrieved(db, chunk)
  /\ UNCHANGED <<running, begun, clock, readVars>>

-----------------------------------------------------------------------------
(* Endpoints *)

\* Mutant of StatsPlan: the executions are counted before the failures.
CountFirst == <<"executions", "tokens", "requests", "chunks", "calls",
                "retrievals", "usage", "cache">>

StatsPlan == <<"tokens", "requests", "executions", "chunks", "calls",
               "retrievals", "usage", "cache">>

DashboardPlan == <<"counts", "savings", "durations", "latencies", "estimate",
                   "billing", "estimated_cost", "measured_cost",
                   "cost_increases", "cache">>

RecordsPlan == <<"total", "items">>

PagePlan == DashboardPlan \o <<"by_provider", "by_model", "by_strategy",
                               "by_status">> \o RecordsPlan

DetailPlan == <<"request", "attempts", "chunk_rows", "chunk_retrievals",
                "request_calls", "call_usage", "activities">>

\* The statements of an endpoint, in the order in which it awaits them.
Plan(v) ==
  CASE v = "stats" -> StatsPlan
    [] v = "page" -> PagePlan
    [] v \in {"records", "walk"} -> RecordsPlan
    [] v = "detail" -> DetailPlan
    [] v = "idle" -> <<>>

Asked(s) == s \in DOMAIN answer

\* What a statement may answer on the rows committed now.
Answers(s) ==
  LET f == query.filter
      request == query.request
  IN CASE s = "tokens"         -> {TokenTotals(db, f)}
       [] s = "requests"       -> {Requests(db, f)}
       [] s \in {"executions", "total"} -> {Executions(db, f)}
       [] s = "chunks"         -> {Cardinality(ChunksOf(db, f))}
       [] s = "calls"          -> {Cardinality(CallsOf(db, f))}
       [] s = "retrievals"     -> {Cardinality(RetrievalsOf(db, f))}
       [] s = "usage"          -> {UsageTotals(db, f)}
       [] s = "cache"          -> {CacheTotals(db, f)}
       [] s = "counts"         -> {Counts(db, f)}
       [] s = "savings"        -> {Savings(db, f)}
       [] s = "durations"      -> {Durations(db, f)}
       [] s = "latencies"      -> {Latencies(db, f)}
       [] s = "estimate"       -> {EstimateDelta(db, f)}
       [] s = "billing"        -> {Billing(db, f, answer["counts"].tokens.original)}
       [] s = "estimated_cost" -> {EstimatedCost(db, f)}
       [] s = "measured_cost"  -> {MeasuredCost(db, f)}
       [] s = "cost_increases" -> {CostIncreases(db, f)}
       [] s = "by_provider"    -> {Breakdown(db, f, "provider")}
       [] s = "by_model"       -> {Breakdown(db, f, "model")}
       [] s = "by_strategy"    -> {Breakdown(db, f, "strategy")}
       [] s = "by_status"      -> {Breakdown(db, f, "status")}
       [] s = "items"          -> Pages(db, f, PageLimit, query.offset)
       [] s = "request"        -> {RequestRow(db, request)}
       [] s = "attempts"       -> {Attempts(db, request)}
       [] s = "chunk_rows"     -> {ChunkRows(db, answer["attempts"])}
       [] s = "chunk_retrievals" -> {ChunkRetrievals(db, answer["chunk_rows"])}
       [] s = "request_calls"  -> {RequestCalls(db, request)}
       [] s = "call_usage"     -> {CallUsage(db, answer["request_calls"])}
       [] s = "activities"     -> {RequestActivities(db, request)}

\* get_dashboard_query: an explicit date makes the window custom.
DashboardFilter(q) ==
  LET preset == IF q.from # None \/ q.to # None THEN "custom" ELSE q.preset
  IN CASE preset = "all" -> q.filter
       [] preset = "custom" -> [q.filter EXCEPT !.from = q.from, !.to = q.to]
       [] OTHER -> [q.filter EXCEPT !.from = clock - PresetLength[preset], !.to = clock]

Ask(q) ==
  LET filter == IF q.view = "page" THEN DashboardFilter(q) ELSE q.filter
  IN /\ view = "idle"
     /\ view' = q.view
     /\ query' = [filter |-> filter, request |-> q.request, offset |-> q.offset]
     /\ walk' = [NoWalk EXCEPT !.owed = IF q.view = "walk" THEN Ids(db, filter) ELSE {}]
     /\ UNCHANGED <<writeVars, answer>>

\* The detail of a request that is not there stops at 404.
NotFound == view = "detail" /\ Asked("request") /\ answer["request"] = {}

Finished == NotFound \/ \A i \in DOMAIN Plan(view) : Asked(Plan(view)[i])

\* The next statement of the endpoint.
Statement ==
  LET plan == Plan(view)
  IN plan[CHOOSE i \in DOMAIN plan : ~Asked(plan[i]) /\ \A j \in 1..(i - 1) : Asked(plan[j])]

Read ==
  /\ view # "idle"
  /\ ~Finished
  /\ \E result \in Answers(Statement) :
       answer' = [s \in DOMAIN answer \cup {Statement} |->
                    IF s = Statement THEN result ELSE answer[s]]
  /\ UNCHANGED <<writeVars, view, query, walk>>

Listed == {answer["items"][i].execution : i \in DOMAIN answer["items"]}

\* A client that pages asks for the next page until one comes back short.
NextPage ==
  /\ view = "walk" /\ Finished
  /\ Len(answer["items"]) = PageLimit
  /\ query' = [query EXCEPT !.offset = @ + PageLimit]
  /\ walk' = [walk EXCEPT !.seen = @ \cup Listed]
  /\ answer' = <<>>
  /\ UNCHANGED <<writeVars, view>>

\* Mutant of Answered: what one request read is left to the next.
AnsweredCached ==
  /\ view # "idle" /\ Finished
  /\ view = "walk" => Len(answer["items"]) < PageLimit
  /\ view' = "idle" /\ query' = NoQuery /\ walk' = NoWalk
  /\ UNCHANGED <<writeVars, answer>>

Answered ==
  /\ view # "idle" /\ Finished
  /\ view = "walk" => Len(answer["items"]) < PageLimit
  /\ view' = "idle" /\ query' = NoQuery /\ answer' = <<>> /\ walk' = NoWalk
  /\ UNCHANGED writeVars

Next ==
  \/ \E c \in Commands : Begin(c)
  \/ \E t \in running : Commit(t)
  \/ \E chunk \in db.chunks : Retrieve(chunk)
  \/ \E q \in Questions : Ask(q)
  \/ Read \/ NextPage \/ Answered

Spec == Init /\ [][Next]_vars

-----------------------------------------------------------------------------
(* Properties *)

Views == {"idle", "stats", "page", "records", "walk", "detail"}

\* The tables keep the schema's keys whichever transactions commit in whichever
\* order, and an endpoint has answers only to statements of its own.
TypeOK ==
  /\ KeysHold(db)
  /\ \A t \in running : t.command \in Commands /\ t.command.event \in begun
  /\ view \in Views
  /\ \A s \in DOMAIN answer : \E i \in DOMAIN Plan(view) : Plan(view)[i] = s

\* The success, failure and expansion rates of /stats are at most one although
\* their terms come from different snapshots.
StatsHoldTogether ==
  view = "stats" /\ {"tokens", "requests", "executions"} \subseteq DOMAIN answer =>
      /\ answer["tokens"].failed + answer["tokens"].succeeded <= answer["executions"]
      /\ answer["tokens"].negative <= answer["executions"]
      /\ answer["requests"] <= answer["executions"]

SumExecutions(rows) == MapThenSumSet(LAMBDA r : r.executions, rows)

\* On the dashboard the cached input is part of the input, the saving part of
\* the baseline, the distributions are in order, and each later count covers
\* what an earlier one counted, as far as a breakdown has all its groups.
PageHoldsTogether ==
  view = "page" =>
    /\ Asked("billing") =>
         /\ answer["estimate"].reported <= answer["billing"].reported
         /\ answer["billing"].cached \in 0..answer["billing"].reported
         /\ answer["billing"].saved # None =>
              answer["billing"].saved <= 10 * answer["billing"].baseline
    /\ \A s \in {"savings", "durations", "latencies"} :
         Asked(s) /\ answer[s].count > 0 => answer[s].p50 <= answer[s].p90
    /\ Asked("savings") /\ answer["savings"].count > 0 =>
         /\ answer["savings"].min <= answer["savings"].p50
         /\ answer["savings"].p90 <= answer["savings"].max
    /\ Asked("total") =>
         /\ answer["counts"].tokens.failed + answer["counts"].tokens.succeeded
              <= answer["total"]
         /\ Cardinality(answer["by_provider"]) < BreakdownLimit =>
              answer["counts"].tokens.failed + answer["counts"].tokens.succeeded
                <= SumExecutions(answer["by_provider"])
         /\ Cardinality(answer["by_status"]) < BreakdownLimit =>
              SumExecutions(answer["by_provider"]) <= SumExecutions(answer["by_status"])
         /\ SumExecutions(answer["by_status"]) <= answer["total"]

\* A page shows no fewer records than its total leaves for it.
RecordsHoldTogether ==
  Asked("items") =>
    Len(answer["items"]) >= Min({PageLimit, answer["total"] - query.offset})

\* A request that is found has an execution: both came with one transaction.
DetailHoldsTogether ==
  view = "detail" /\ Asked("attempts") =>
    \/ answer["request"] = {}
    \/ answer["attempts"] # {}

\* What an endpoint answers is consistent although each of its statements ran
\* on a snapshot of its own.
AnswersHoldTogether ==
  StatsHoldTogether /\ PageHoldsTogether /\ RecordsHoldTogether /\ DetailHoldsTogether

Scoped(f, scope) == Executions(db, [f EXCEPT !.scope = scope])

Signed(f, negative) == Executions(db, [f EXCEPT !.negative = negative])

\* On one snapshot the endpoints tell the same story: /stats and the dashboard
\* count alike, the rows of every breakdown add up to the totals, the records
\* are as many as the executions or fill their page, and the scopes and the two
\* sides of the negative-savings filter partition them.  (Stated where a client
\* asks for a detail, as it may at any time, so that it is evaluated once per
\* snapshot.)
ViewsAgree ==
  view = "detail" /\ answer = <<>> => \A f \in {q.filter : q \in Questions} :
    /\ Counts(db, f).executions = Executions(db, f)
    /\ UsageTotals(db, f).input = EstimateDelta(db, f).reported
    /\ \A group \in {"provider", "model", "strategy", "tenant", "team", "status"} :
         LET rows == Breakdown(db, f, group)
         IN Cardinality(rows) < BreakdownLimit =>
              /\ SumExecutions(rows) = Executions(db, f)
              /\ MapThenSumSet(LAMBDA r : r.saved, rows) = TokenTotals(db, f).saved
              /\ MapThenSumSet(LAMBDA r : r.negative, rows) = TokenTotals(db, f).negative
    /\ \A page \in Pages(db, f, 100, 0) :
         /\ Len(page) = Min({100, Executions(db, f)})
         /\ \A i, j \in DOMAIN page : page[i].execution = page[j].execution => i = j
    /\ Scoped(f, "real") + Scoped(f, "test") = Scoped(f, "all")
    /\ Signed(f, TRUE) + Signed(f, FALSE) = Signed(f, None)

\* A client that pages through the records while others are ingested has seen,
\* when a page comes back short, every record that was there when it began.
WalkMissesNothing ==
  view = "walk" /\ Finished /\ Len(answer["items"]) < PageLimit =>
    walk.owed \subseteq walk.seen \cup Listed

\* What /metrics declares a counter only grows.
MetricsAreCounters ==
  [][/\ Requests(db, NoFilter) <= Requests(db', NoFilter)
     /\ Executions(db, NoFilter) <= Executions(db', NoFilter)
     /\ Cardinality(ChunksOf(db, NoFilter)) <= Cardinality(ChunksOf(db', NoFilter))
     /\ Cardinality(CallsOf(db, NoFilter)) <= Cardinality(CallsOf(db', NoFilter))
     /\ Cardinality(RetrievalsOf(db, NoFilter))
          <= Cardinality(RetrievalsOf(db', NoFilter))]_vars

\* /metrics declares the tokens saved a counter too (routes_stats.py:63-64).
TokensSavedIsCounter ==
  [][TokenTotals(db, NoFilter).saved <= TokenTotals(db', NoFilter).saved]_vars

=============================================================================
