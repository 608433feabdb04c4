-------------------------- MODULE ReadModelsProofs --------------------------
(***************************************************************************)
(* What the endpoints answer while transactions commit.  The tables keep   *)
(* their keys and only grow; what has matched a filter goes on matching;   *)
(* so of two statements the later one finds at least what the earlier one  *)
(* found.  New records are listed before the old ones, which is why a      *)
(* client that pages on never passes over a record.                        *)
(***************************************************************************)
EXTENDS ReadModels, FiniteSetTheorems, WellFoundedInduction, TLAPS

-----------------------------------------------------------------------------
(* The tables only grow, and so do the counters of /metrics.                *)

Finite(d) ==
  /\ IsFiniteSet(d.requests) /\ IsFiniteSet(d.executions) /\ IsFiniteSet(d.chunks)
  /\ IsFiniteSet(d.calls) /\ IsFiniteSet(d.retrievals)

Grown(d, later) ==
  /\ d.requests \subseteq later.requests
  /\ d.executions \subseteq later.executions
  /\ d.chunks \subseteq later.chunks
  /\ d.calls \subseteq later.calls
  /\ d.retrievals \subseteq later.retrievals

LEMMA ImageIsFinite ==
  ASSUME NEW S, IsFiniteSet(S), NEW T, NEW f \in [S -> T], \A t \in T : \E s \in S : f[s] = t
  PROVE  IsFiniteSet(T)
<1>1. f \in Surjection(S, T)
  BY DEF Surjection
<1>2. QED
  BY <1>1, FS_Surjection

\* An ingest keeps the schema's keys and takes no row away.
LEMMA IngestKeeps ==
  ASSUME NEW d, KeysHold(d), Finite(d), NEW c \in Commands, NEW now
  PROVE  LET later == Ingested(d, c, now)
         IN KeysHold(later) /\ Finite(later) /\ Grown(d, later)
<1> DEFINE later == Ingested(d, c, now)
           request == RequestRowOf(c, now)
           execution == ExecutionRow(c, now)
           chunks == {[execution |-> ExecutionKey(c), ordinal |-> i] : i \in c.chunks}
           calls == {CallRow(c, k, now) : k \in c.calls}
<1>1. DOMAIN d = {"requests", "executions", "chunks", "calls", "usages", "costs",
                  "activities", "retrievals"}
  BY DEF KeysHold, NoRows
<1>2. /\ later.requests = FirstWriter(d.requests, {request})
      /\ later.executions = FirstWriter(d.executions, {execution})
      /\ later.chunks = d.chunks \cup chunks
      /\ later.calls = FirstWriter(d.calls, calls)
      /\ later.retrievals = d.retrievals
      /\ DOMAIN later = DOMAIN d
  BY <1>1 DEF Ingested
<1>3. /\ request.id = c.request.id
      /\ execution.id = ExecutionKey(c) /\ execution.request = c.request.id
      /\ \A k \in c.calls : LET row == CallRow(c, k, now)
                            IN /\ row.id = k.id /\ row.request = c.request.id
                               /\ row.execution \in {ExecutionKey(c), None}
      /\ \A x \in chunks : x.execution = ExecutionKey(c)
  BY DEF RequestRowOf, ExecutionRow, CallRow
<1> HIDE DEF later, request, execution
<1>4. Grown(d, later)
  BY <1>2 DEF Grown, FirstWriter
<1>5. Finite(later)
  <2>1. IsFiniteSet({request}) /\ IsFiniteSet({execution})
    BY FS_Singleton
  <2>2. IsFiniteSet(chunks) /\ IsFiniteSet(calls)
    <3>1. IsFiniteSet(c.chunks) /\ IsFiniteSet(c.calls)
      BY ReadModelsAssumption
    <3>2. IsFiniteSet(chunks)
      <4> DEFINE f == [i \in c.chunks |-> [execution |-> ExecutionKey(c), ordinal |-> i]]
      <4>1. f \in [c.chunks -> chunks] /\ \A t \in chunks : \E s \in c.chunks : f[s] = t
        OBVIOUS
      <4> HIDE DEF f, chunks
      <4>2. QED
        BY <3>1, <4>1, ImageIsFinite
    <3>3. IsFiniteSet(calls)
      <4> DEFINE f == [k \in c.calls |-> CallRow(c, k, now)]
      <4>1. f \in [c.calls -> calls] /\ \A t \in calls : \E s \in c.calls : f[s] = t
        OBVIOUS
      <4> HIDE DEF f, calls
      <4>2. QED
        BY <3>1, <4>1, ImageIsFinite
    <3>4. QED
      BY <3>2, <3>3
  <2>3. \A rows, new : IsFiniteSet(rows) /\ IsFiniteSet(new) => IsFiniteSet(FirstWriter(rows, new))
    <3> SUFFICES ASSUME NEW rows, NEW new, IsFiniteSet(rows), IsFiniteSet(new)
                 PROVE  IsFiniteSet(FirstWriter(rows, new))
      OBVIOUS
    <3>1. {n \in new : \A r \in rows : r.id # n.id} \in SUBSET new
      OBVIOUS
    <3>2. QED
      BY <3>1, FS_Subset, FS_Union DEF FirstWriter
  <2> HIDE DEF chunks, calls
  <2>4. IsFiniteSet(later.chunks)
    BY <1>2, <2>2, FS_Union DEF Finite
  <2>5. QED
    BY <1>2, <2>1, <2>2, <2>3, <2>4 DEF Finite
<1>6. KeysHold(later)
  <2>1. \A r, s \in later.requests : r.id = s.id => r = s
    BY <1>2 DEF KeysHold, FirstWriter
  <2>2. \A r, s \in later.executions : r.id = s.id => r = s
    BY <1>2 DEF KeysHold, FirstWriter
  <2>3. \A r, s \in later.calls : r.id = s.id => r = s
    <3>1. \A r, s \in calls : r.id = s.id => r = s
      BY <1>3, ReadModelsAssumption
    <3>2. QED
      BY <1>2, <3>1 DEF KeysHold, FirstWriter
  <2>4. \E r \in later.requests : r.id = c.request.id
    BY <1>2, <1>3 DEF FirstWriter
  <2>5. \E e \in later.executions : e.id = ExecutionKey(c)
    BY <1>2, <1>3 DEF FirstWriter
  <2>6. \A e \in later.executions : \E r \in later.requests : r.id = e.request
    BY <1>2, <1>3, <1>4, <2>4 DEF KeysHold, FirstWriter, Grown
  <2>7. \A x \in later.chunks : \E e \in later.executions : e.id = x.execution
    BY <1>2, <1>3, <1>4, <2>5 DEF KeysHold, Grown
  <2>8. \A k \in later.calls :
          /\ \E r \in later.requests : r.id = k.request
          /\ k.execution = None \/ \E e \in later.executions : e.id = k.execution
    <3>1. \A k \in later.calls : k \in d.calls \/ k \in calls
      BY <1>2 DEF FirstWriter
    <3>2. QED
      BY <1>3, <1>4, <2>4, <2>5, <3>1 DEF KeysHold, Grown
  <2>9. \A t \in later.retrievals : t.chunk \in later.chunks
    BY <1>2, <1>4 DEF KeysHold, Grown
  <2>10. QED
    BY <1>2, <2>1, <2>2, <2>3, <2>6, <2>7, <2>8, <2>9 DEF KeysHold
<1>7. QED
  BY <1>4, <1>5, <1>6 DEF later

\* So does a retrieval.
LEMMA RetrieveKeeps ==
  ASSUME NEW d, KeysHold(d), Finite(d), NEW chunk \in d.chunks
  PROVE  LET later == Retrieved(d, chunk)
         IN KeysHold(later) /\ Finite(later) /\ Grown(d, later)
<1> DEFINE later == Retrieved(d, chunk)
           event == [id |-> Cardinality(d.retrievals) + 1, chunk |-> chunk]
<1>1. DOMAIN d = {"requests", "executions", "chunks", "calls", "usages", "costs",
                  "activities", "retrievals"}
  BY DEF KeysHold, NoRows
<1>2. /\ later.requests = d.requests /\ later.executions = d.executions
      /\ later.chunks = d.chunks /\ later.calls = d.calls
      /\ later.retrievals = d.retrievals \cup {event}
      /\ DOMAIN later = DOMAIN d
  BY <1>1 DEF Retrieved
<1>3. event.chunk = chunk
  OBVIOUS
<1> HIDE DEF later, event
<1>4. KeysHold(later)
  BY <1>2, <1>3 DEF KeysHold
<1>5. Finite(later)
  BY <1>2, FS_AddElement DEF Finite
<1>6. Grown(d, later)
  BY <1>2 DEF Grown
<1>7. QED
  BY <1>4, <1>5, <1>6 DEF later

\* An execution that matched goes on matching: its request's row stays the only
\* one with that key.
LEMMA CountersGrow ==
  ASSUME NEW d, NEW later, KeysHold(d), KeysHold(later), Finite(later), Grown(d, later)
  PROVE  /\ Requests(d, NoFilter) <= Requests(later, NoFilter)
         /\ Executions(d, NoFilter) <= Executions(later, NoFilter)
         /\ Cardinality(ChunksOf(d, NoFilter)) <= Cardinality(ChunksOf(later, NoFilter))
         /\ Cardinality(CallsOf(d, NoFilter)) <= Cardinality(CallsOf(later, NoFilter))
         /\ Cardinality(RetrievalsOf(d, NoFilter)) <= Cardinality(RetrievalsOf(later, NoFilter))
<1>1. Matching(d, NoFilter) \subseteq Matching(later, NoFilter)
  <2> SUFFICES ASSUME NEW e \in d.executions, Matches(d, NoFilter, e)
               PROVE  e \in later.executions /\ Matches(later, NoFilter, e)
    BY DEF Matching
  <2>1. PICK r \in d.requests : r.id = e.request
    BY DEF KeysHold
  <2>2. r \in later.requests /\ e \in later.executions
    BY DEF Grown
  <2>3. RequestOf(d, e) = r
    BY <2>1 DEF KeysHold, RequestOf
  <2>4. RequestOf(later, e) = r
    BY <2>1, <2>2 DEF KeysHold, RequestOf
  <2>5. /\ NoFilter.from = None /\ NoFilter.to = None /\ NoFilter.provider = None
        /\ NoFilter.model = None /\ NoFilter.strategy = None /\ NoFilter.tenant = None
        /\ NoFilter.team = None /\ NoFilter.status = None /\ NoFilter.negative = None
        /\ NoFilter.scope = "real"
    BY DEF NoFilter
  <2>6. ~e.simulated /\ ~IsTestData(r)
    BY <2>3, <2>5 DEF Matches
  <2>7. QED
    BY <2>2, <2>4, <2>5, <2>6 DEF Matches, Equal, SavingsMatch, HintedOrCalled
<1>2. Ids(d, NoFilter) \subseteq Ids(later, NoFilter)
  BY <1>1 DEF Ids
<1>3. RequestsOf(d, NoFilter) \subseteq RequestsOf(later, NoFilter)
  BY <1>1 DEF RequestsOf
<1>4. ChunksOf(d, NoFilter) \subseteq ChunksOf(later, NoFilter)
  BY <1>2 DEF ChunksOf, Grown
<1>5. CallsOf(d, NoFilter) \subseteq CallsOf(later, NoFilter)
  BY <1>2 DEF CallsOf, Grown
<1>6. RetrievalsOf(d, NoFilter) \subseteq RetrievalsOf(later, NoFilter)
  BY <1>4 DEF RetrievalsOf, Grown
<1>7. /\ IsFiniteSet(Matching(later, NoFilter)) /\ IsFiniteSet(ChunksOf(later, NoFilter))
      /\ IsFiniteSet(CallsOf(later, NoFilter)) /\ IsFiniteSet(RetrievalsOf(later, NoFilter))
  <2>1. /\ Matching(later, NoFilter) \in SUBSET later.executions
        /\ ChunksOf(later, NoFilter) \in SUBSET later.chunks
        /\ CallsOf(later, NoFilter) \in SUBSET later.calls
        /\ RetrievalsOf(later, NoFilter) \in SUBSET later.retrievals
    BY DEF Matching, ChunksOf, CallsOf, RetrievalsOf
  <2>2. QED
    BY <2>1, FS_Subset DEF Finite
<1>8. IsFiniteSet(RequestsOf(later, NoFilter))
  <2> DEFINE f == [e \in Matching(later, NoFilter) |-> e.request]
  <2>1. /\ f \in [Matching(later, NoFilter) -> RequestsOf(later, NoFilter)]
        /\ \A r \in RequestsOf(later, NoFilter) : \E e \in Matching(later, NoFilter) : f[e] = r
    BY DEF RequestsOf
  <2> HIDE DEF f
  <2>2. QED
    BY <1>7, <2>1, ImageIsFinite
<1>9. \A S, T : IsFiniteSet(T) /\ S \subseteq T => Cardinality(S) <= Cardinality(T)
  BY FS_Subset
<1>10. QED
  BY <1>1, <1>3, <1>4, <1>5, <1>6, <1>7, <1>8, <1>9 DEF Requests, Executions

\* TypeOK says that the keys hold, which is what makes RequestOf one row.
DataInv ==
  /\ TypeOK
  /\ Finite(db)

\* The next statement of an endpoint is one of its plan.
LEMMA IdlePlan == DOMAIN Plan("idle") = {}
<1>1. Plan("idle") = <<>>
  BY DEF Plan
<1>2. QED
  BY <1>1

LEMMA FirstUnasked ==
  ASSUME view \in Views, view # "idle", ~Finished
  PROVE  \E i \in DOMAIN Plan(view) :
           /\ Statement = Plan(view)[i] /\ ~Asked(Plan(view)[i])
           /\ \A j \in 1..(i - 1) : Asked(Plan(view)[j])
<1> DEFINE Left == {i \in DOMAIN Plan(view) : ~Asked(Plan(view)[i])}
<1>1. /\ DOMAIN Plan(view) \subseteq Nat
      /\ \A i \in DOMAIN Plan(view) : 1..i \subseteq DOMAIN Plan(view)
  BY DEF Plan, Views, StatsPlan, DashboardPlan, RecordsPlan, PagePlan, DetailPlan
<1>2. Left # {} /\ Left \subseteq Nat
  BY <1>1 DEF Finished
<1>3. PICK i \in Left : \A j \in Left : ~(j < i)
  <2> DEFINE Less == {p \in Nat \X Nat : p[1] < p[2]}
  <2>1. IsWellFoundedOn(Less, Nat)
    BY NatLessThanWellFounded DEF OpToRel
  <2>2. \A j, k \in Nat : j < k => <<j, k>> \in Less
    OBVIOUS
  <2> HIDE DEF Less
  <2>3. \E i \in Left : \A j \in Left : <<j, i>> \notin Less
    BY <1>2, <2>1, WFMin
  <2>4. QED
    BY <1>2, <2>2, <2>3
<1>4. ~Asked(Plan(view)[i]) /\ \A j \in 1..(i - 1) : Asked(Plan(view)[j])
  BY <1>1, <1>2, <1>3
<1>5. QED
  BY <1>3, <1>4 DEF Statement

LEMMA DataInvStep == DataInv /\ [Next]_vars => DataInv'
<1> SUFFICES ASSUME DataInv, [Next]_vars PROVE DataInv'
  OBVIOUS
<1>1. ASSUME UNCHANGED vars PROVE DataInv'
  BY <1>1 DEF DataInv, TypeOK, vars, Finite, KeysHold, Plan, StatsPlan
<1>2. ASSUME NEW c \in Commands, Begin(c) PROVE DataInv'
  <2>1. /\ UNCHANGED <<db, view, answer>> /\ begun' = begun \cup {c.event}
        /\ running' = running \cup {[command |-> c, began |-> clock]}
    BY <1>2 DEF Begin, readVars
  <2>2. \A t \in running' : t.command \in Commands /\ t.command.event \in begun'
    BY <2>1 DEF DataInv, TypeOK
  <2>3. QED
    BY <2>1, <2>2 DEF DataInv, TypeOK
<1>3. ASSUME NEW t \in running, Commit(t) PROVE DataInv'
  <2>1. t.command \in Commands
    BY DEF DataInv, TypeOK
  <2>2. KeysHold(db') /\ Finite(db')
    BY <1>3, <2>1, IngestKeeps DEF Commit, DataInv, TypeOK
  <2>3. QED
    BY <1>3, <2>2 DEF DataInv, TypeOK, Commit, readVars, Plan
<1>4. ASSUME NEW chunk \in db.chunks, Retrieve(chunk) PROVE DataInv'
  <2>1. KeysHold(db') /\ Finite(db')
    BY <1>4, RetrieveKeeps DEF Retrieve, DataInv, TypeOK
  <2>2. QED
    BY <1>4, <2>1 DEF DataInv, TypeOK, Retrieve, readVars, Plan
<1>5. ASSUME NEW q \in Questions, Ask(q) PROVE DataInv'
  <2>1. view = "idle" /\ view' \in Views /\ answer' = answer
        /\ UNCHANGED <<db, running, begun>>
    BY <1>5, ReadModelsAssumption DEF Ask, Views, writeVars
  <2>2. DOMAIN answer = {}
    <3>1. \A s \in DOMAIN answer : \E i \in DOMAIN Plan("idle") : Plan("idle")[i] = s
      BY <2>1 DEF DataInv, TypeOK
    <3>2. QED
      BY <3>1, IdlePlan
  <2>3. QED
    BY <2>1, <2>2 DEF DataInv, TypeOK
<1>6. CASE Read
  <2>1. /\ view' = view /\ UNCHANGED <<db, running, begun>>
        /\ DOMAIN answer' = DOMAIN answer \cup {Statement}
        /\ view # "idle" /\ ~Finished
    BY <1>6 DEF Read, writeVars
  <2>2. Plan(view)' = Plan(view)
    BY <2>1 DEF Plan
  <2>3. \E i \in DOMAIN Plan(view) : Statement = Plan(view)[i]
    BY <2>1, FirstUnasked DEF DataInv, TypeOK
  <2>4. QED
    BY <2>1, <2>2, <2>3 DEF DataInv, TypeOK
<1>7. CASE NextPage \/ Answered
  <2>1. answer' = <<>> /\ view' \in Views /\ UNCHANGED <<db, running, begun>>
    BY <1>7 DEF NextPage, Answered, writeVars, Views
  <2>2. DOMAIN answer' = {}
    BY <2>1
  <2>3. QED
    BY <2>1, <2>2 DEF DataInv, TypeOK
<1>8. QED
  BY <1>1, <1>2, <1>3, <1>4, <1>5, <1>6, <1>7
  DEF Next

LEMMA DataInvInit == Init => DataInv
  BY ReadModelsAssumption DEF Init, DataInv, TypeOK, Views, Finite, KeysHold, NoRows

\* In whatever order transactions commit while endpoints read, the tables keep the
\* schema's keys, and an endpoint has answers only to its own statements
\* (repositories.py, the routes of the read endpoints).
THEOREM ReadsTypeCorrect == Spec => []TypeOK
<1>1. DataInv => TypeOK
  BY DEF DataInv
<1>2. QED
  BY <1>1, DataInvInit, DataInvStep, PTL DEF Spec

\* Of what /metrics declares a counter all but the tokens saved only grow, whatever
\* is ingested or retrieved (routes_stats.py).
THEOREM MetricsOnlyGrow == Spec => MetricsAreCounters
<1> DEFINE Grow ==
      /\ Requests(db, NoFilter) <= Requests(db', NoFilter)
      /\ Executions(db, NoFilter) <= Executions(db', NoFilter)
      /\ Cardinality(ChunksOf(db, NoFilter)) <= Cardinality(ChunksOf(db', NoFilter))
      /\ Cardinality(CallsOf(db, NoFilter)) <= Cardinality(CallsOf(db', NoFilter))
      /\ Cardinality(RetrievalsOf(db, NoFilter)) <= Cardinality(RetrievalsOf(db', NoFilter))
<1>1. DataInv /\ [Next]_vars => [Grow]_vars
  <2> SUFFICES ASSUME DataInv, [Next]_vars PROVE Grow
    OBVIOUS
  <2>1. Grown(db, db')
    <3>1. ASSUME NEW t \in running, Commit(t) PROVE Grown(db, db')
      BY <3>1, IngestKeeps DEF Commit, DataInv, TypeOK
    <3>2. ASSUME NEW chunk \in db.chunks, Retrieve(chunk) PROVE Grown(db, db')
      BY <3>2, RetrieveKeeps DEF Retrieve, DataInv, TypeOK
    <3>3. ASSUME db' = db PROVE Grown(db, db')
      BY <3>3 DEF Grown
    <3>4. QED
      BY <3>1, <3>2, <3>3
      DEF Next, vars, Begin, Ask, Read, NextPage, Answered, writeVars
  <2>2. DataInv'
    BY DataInvStep
  <2>3. KeysHold(db) /\ KeysHold(db') /\ Finite(db')
    BY <2>2 DEF DataInv, TypeOK
  <2>4. QED
    BY <2>1, <2>3, CountersGrow
<1>2. QED
  BY <1>1, DataInvInit, DataInvStep, PTL DEF Spec, MetricsAreCounters

-----------------------------------------------------------------------------
(* Finite sets of integers, and places in an order *)

\* A finite set of integers has a greatest element.
LEMMA FiniteHasMax ==
  ASSUME NEW S, IsFiniteSet(S), S \subseteq Int, S # {}
  PROVE  Max(S) \in S /\ \A x \in S : Max(S) >= x
<1> DEFINE Above(x) == {y \in S : y > x}
           Less == {p \in Nat \X Nat : p[1] < p[2]}
           Counts0 == {Cardinality(Above(x)) : x \in S}
<1>1. \A x \in S : IsFiniteSet(Above(x)) /\ Cardinality(Above(x)) \in Nat
  BY FS_Subset, FS_CardinalityType
<1>2. PICK n \in Counts0 : \A m \in Counts0 : ~(m < n)
  <2>1. IsWellFoundedOn(Less, Nat)
    BY NatLessThanWellFounded DEF OpToRel
  <2>2. \A j, k \in Nat : j < k => <<j, k>> \in Less
    OBVIOUS
  <2>3. Counts0 \subseteq Nat /\ Counts0 # {}
    BY <1>1
  <2> HIDE DEF Less, Counts0
  <2>4. \E n \in Counts0 : \A m \in Counts0 : <<m, n>> \notin Less
    BY <2>1, <2>3, WFMin
  <2>5. QED
    BY <2>2, <2>3, <2>4
<1>3. PICK x \in S : n = Cardinality(Above(x))
  OBVIOUS
<1>4. \A y \in S : x >= y
  <2> SUFFICES ASSUME NEW y \in S, y > x PROVE FALSE
    OBVIOUS
  <2>0. x \in Int /\ y \in Int /\ \A z \in S : z \in Int
    OBVIOUS
  <2>a. \A z \in S : z > y => z > x
    BY <2>0
  <2>b. y > x /\ ~(y > y)
    BY <2>0
  <2>1. Above(y) \in SUBSET Above(x) /\ y \in Above(x) /\ y \notin Above(y)
    <3>1. Above(y) \subseteq Above(x)
      BY <2>a
    <3>2. y \in Above(x)
      BY <2>b
    <3>3. y \notin Above(y)
      BY <2>b
    <3>4. QED
      BY <3>1, <3>2, <3>3
  <2>2. Cardinality(Above(y)) <= Cardinality(Above(x))
        /\ (Cardinality(Above(x)) = Cardinality(Above(y)) => Above(x) = Above(y))
    BY <1>1, <2>1, FS_Subset
  <2>3. Cardinality(Above(y)) \in Counts0
    OBVIOUS
  <2> HIDE DEF Above
  <2>4. ~(Cardinality(Above(y)) < Cardinality(Above(x)))
    BY <1>2, <1>3, <2>3
  <2>5. QED
    BY <1>1, <2>1, <2>2, <2>4
<1>5. QED
  BY <1>4 DEF Max

\* A finite set of integers has a least element.
LEMMA FiniteHasMin ==
  ASSUME NEW S, IsFiniteSet(S), S \subseteq Int, S # {}
  PROVE  Min(S) \in S /\ \A x \in S : Min(S) <= x
<1> DEFINE Mirror == {0 - x : x \in S}
           f == [x \in S |-> 0 - x]
<1>1. IsFiniteSet(Mirror)
  <2>1. f \in [S -> Mirror] /\ \A m \in Mirror : \E x \in S : f[x] = m
    OBVIOUS
  <2> HIDE DEF f, Mirror
  <2>2. QED
    BY <2>1, ImageIsFinite
<1>2. Mirror \subseteq Int /\ Mirror # {}
  <2>1. \A x \in S : 0 - x \in Int
    OBVIOUS
  <2>2. PICK x \in S : TRUE
    OBVIOUS
  <2>3. 0 - x \in Mirror
    BY <2>2
  <2>4. QED
    BY <2>1, <2>3
<1>3. PICK m \in Mirror : \A n \in Mirror : m >= n
  <2> HIDE DEF Mirror
  <2>1. QED
    BY <1>1, <1>2, FiniteHasMax
<1>4. PICK x \in S : m = 0 - x
  OBVIOUS
<1>5. \A y \in S : x <= y
  <2> SUFFICES ASSUME NEW y \in S PROVE x <= y
    OBVIOUS
  <2>1. m >= 0 - y
    BY <1>3
  <2>2. x \in Int /\ y \in Int
    OBVIOUS
  <2>3. QED
    BY <1>4, <2>1, <2>2
<1>6. QED
  BY <1>5 DEF Min

\* The elements before x in an order.
Before(S, R, x) == {y \in S : <<y, x>> \in R}

TotallyOrders(R, S) ==
  /\ \A x, y \in S : x # y => <<x, y>> \in R \/ <<y, x>> \in R
  /\ \A x \in S : <<x, x>> \notin R
  /\ \A x, y, z \in S : <<x, y>> \in R /\ <<y, z>> \in R => <<x, z>> \in R

\* Counting what comes before numbers a finite set from zero.
LEMMA PlacesAreDistinct ==
  ASSUME NEW S, IsFiniteSet(S), NEW R, TotallyOrders(R, S)
  PROVE  /\ \A x \in S : Cardinality(Before(S, R, x)) \in 0..(Cardinality(S) - 1)
         /\ \A x, y \in S : <<y, x>> \in R =>
              Cardinality(Before(S, R, y)) < Cardinality(Before(S, R, x))
<1>1. \A x \in S : /\ IsFiniteSet(Before(S, R, x)) /\ Cardinality(Before(S, R, x)) \in Nat
                   /\ Before(S, R, x) \in SUBSET S /\ x \notin Before(S, R, x)
  BY FS_Subset, FS_CardinalityType DEF Before, TotallyOrders
<1>2. \A A, B, x : IsFiniteSet(B) /\ A \subseteq B /\ x \in B /\ x \notin A =>
        Cardinality(A) < Cardinality(B) /\ Cardinality(B) \in Nat
  <2> SUFFICES ASSUME NEW A, NEW B, NEW x, IsFiniteSet(B), A \subseteq B, x \in B, x \notin A
               PROVE  Cardinality(A) < Cardinality(B) /\ Cardinality(B) \in Nat
    OBVIOUS
  <2>1. A \in SUBSET B /\ A # B
    OBVIOUS
  <2>2. /\ Cardinality(A) <= Cardinality(B) /\ Cardinality(A) # Cardinality(B)
        /\ IsFiniteSet(A)
    BY <2>1, FS_Subset
  <2>3. Cardinality(A) \in Nat /\ Cardinality(B) \in Nat
    BY <2>2, FS_CardinalityType
  <2>4. QED
    BY <2>2, <2>3
<1>3. \A x \in S : Cardinality(Before(S, R, x)) \in 0..(Cardinality(S) - 1)
  BY <1>1, <1>2
<1>4. ASSUME NEW x \in S, NEW y \in S, <<y, x>> \in R
      PROVE  Cardinality(Before(S, R, y)) < Cardinality(Before(S, R, x))
  <2>1. Before(S, R, y) \subseteq Before(S, R, x) /\ y \in Before(S, R, x)
    BY <1>4 DEF Before, TotallyOrders
  <2>2. QED
    BY <1>1, <1>2, <2>1
<1>5. QED
  BY <1>3, <1>4

\* As many elements have a place below n as there are, or as n says.
LEMMA FirstPlaces ==
  ASSUME NEW S, IsFiniteSet(S), NEW R, TotallyOrders(R, S), NEW n \in Nat
  PROVE  LET first == {x \in S : Cardinality(Before(S, R, x)) < n}
         IN first = S \/ (IsFiniteSet(first) /\ Cardinality(first) = n)
<1> DEFINE first == {x \in S : Cardinality(Before(S, R, x)) < n}
           size == Cardinality(S)
           place == [x \in S |-> Cardinality(Before(S, R, x))]
<1>1. size \in Nat
  BY FS_CardinalityType
<1>2. /\ \A x \in S : place[x] \in 0..(size - 1)
      /\ \A x, y \in S : x # y => place[x] # place[y]
  <2>1. /\ \A x \in S : Cardinality(Before(S, R, x)) \in 0..(size - 1)
        /\ \A x, y \in S : <<y, x>> \in R =>
              Cardinality(Before(S, R, y)) < Cardinality(Before(S, R, x))
    BY PlacesAreDistinct
  <2>2. \A x, y \in S : x # y => <<x, y>> \in R \/ <<y, x>> \in R
    BY DEF TotallyOrders
  <2>3. ASSUME NEW x \in S, NEW y \in S, x # y
        PROVE  Cardinality(Before(S, R, x)) # Cardinality(Before(S, R, y))
    <3>a. <<x, y>> \in R \/ <<y, x>> \in R
      BY <2>2, <2>3
    <3>b. Cardinality(Before(S, R, x)) \in Int /\ Cardinality(Before(S, R, y)) \in Int
      BY <1>1, <2>1
    <3>1. /\ Cardinality(Before(S, R, x)) \in Int /\ Cardinality(Before(S, R, y)) \in Int
          /\ \/ Cardinality(Before(S, R, x)) < Cardinality(Before(S, R, y))
             \/ Cardinality(Before(S, R, y)) < Cardinality(Before(S, R, x))
      BY <3>a, <3>b, <2>1
    <3>2. QED
      BY <3>1
  <2>4. QED
    BY <2>1, <2>3
<1>3. place \in Surjection(S, 0..(size - 1))
  <2>1. place \in Injection(S, 0..(size - 1))
    BY <1>2 DEF Injection, IsInjective
  <2>2. IsFiniteSet(0..(size - 1)) /\ Cardinality(0..(size - 1)) = size
    BY <1>1, FS_Interval
  <2> HIDE DEF place
  <2>3. QED
    BY <2>1, <2>2, FS_Injection
<1>4. CASE n >= size
  BY <1>1, <1>2, <1>4
<1>5. CASE n < size
  <2> DEFINE upTo == [x \in first |-> Cardinality(Before(S, R, x))]
  <2>1. \A m \in 0..(n - 1) : \E x \in first : upTo[x] = m
    <3> SUFFICES ASSUME NEW m \in 0..(n - 1) PROVE \E x \in first : upTo[x] = m
      OBVIOUS
    <3>0. m \in 0..(size - 1)
      BY <1>1, <1>5
    <3>1. PICK x \in S : place[x] = m
      BY <3>0, <1>3 DEF Surjection
    <3>2. QED
      BY <3>1
  <2>2. upTo \in [first -> 0..(n - 1)] /\ \A x, y \in first : x # y => upTo[x] # upTo[y]
    BY <1>1, <1>2
  <2>3. upTo \in Bijection(first, 0..(n - 1))
    BY <2>1, <2>2 DEF Bijection, Injection, IsInjective, Surjection
  <2>4. IsFiniteSet(0..(n - 1)) /\ Cardinality(0..(n - 1)) = n
    BY FS_Interval
  <2>5. first \in SUBSET S
    OBVIOUS
  <2> HIDE DEF upTo, first
  <2>6. IsFiniteSet(first)
    BY <2>5, FS_Subset
  <2>7. Cardinality(first) = n
    BY <2>3, <2>4, <2>6, FS_Bijection DEF ExistsBijection
  <2>8. QED
    BY <2>6, <2>7 DEF first
<1>6. QED
  BY <1>1, <1>4, <1>5

-----------------------------------------------------------------------------
(* Paging: the place of an execution in the order of the records.           *)

\* What matched goes on matching, and its time stays what it was.
LEMMA MatchingGrows ==
  ASSUME NEW d, NEW later, KeysHold(d), KeysHold(later), Grown(d, later)
  PROVE  /\ \A e \in d.executions :
              /\ RequestOf(d, e) \in d.requests
              /\ RequestOf(later, e) = RequestOf(d, e)
              /\ ExecutionTime(later, e) = ExecutionTime(d, e)
         /\ \A f : Matching(d, f) \subseteq Matching(later, f)
<1>1. ASSUME NEW e \in d.executions
      PROVE  RequestOf(d, e) \in d.requests /\ RequestOf(later, e) = RequestOf(d, e)
  <2>1. PICK r \in d.requests : r.id = e.request
    BY DEF KeysHold
  <2>2. r \in later.requests
    BY DEF Grown
  <2>3. RequestOf(d, e) = r
    BY <2>1 DEF KeysHold, RequestOf
  <2>4. RequestOf(later, e) = r
    BY <2>1, <2>2 DEF KeysHold, RequestOf
  <2>5. QED
    BY <2>3, <2>4
<1>2. \A e \in d.executions : ExecutionTime(later, e) = ExecutionTime(d, e)
  BY <1>1 DEF ExecutionTime
<1>3. ASSUME NEW f, NEW e \in d.executions, Matches(d, f, e)
      PROVE  Matches(later, f, e)
  <2> DEFINE r == RequestOf(d, e)
  <2>1. \A hint, wanted, field : HintedOrCalled(d, r, wanted, hint, field)
                                   => HintedOrCalled(later, r, wanted, hint, field)
    BY DEF HintedOrCalled, Grown
  <2>2. RequestOf(later, e) = r /\ ExecutionTime(later, e) = ExecutionTime(d, e)
    BY <1>1, <1>2
  <2> HIDE DEF r
  <2>3. QED
    BY <1>3, <2>1, <2>2 DEF Matches, r
<1>4. \A f : Matching(d, f) \subseteq Matching(later, f)
  BY <1>3 DEF Matching, Grown
<1>5. QED
  BY <1>1, <1>2, <1>4

LEMMA TimesAreIntegers ==
  ASSUME NEW d, KeysHold(d), TimesHold(d)
  PROVE  \A e \in d.executions : ExecutionTime(d, e) \in Int /\ e.created \in Int
<1> SUFFICES ASSUME NEW e \in d.executions
             PROVE  ExecutionTime(d, e) \in Int /\ e.created \in Int
  OBVIOUS
<1>1. RequestOf(d, e) \in d.requests
  BY DEF KeysHold, RequestOf
<1>2. QED
  BY <1>1 DEF TimesHold, ExecutionTime

\* The executions the records list before e, and how many they are.
ListedBefore(d, f, e) == {x \in Matching(d, f) : x # e /\ Newer(d, x, e)}

Place(d, f, e) == Cardinality(ListedBefore(d, f, e))

LEMMA PlacesGrow ==
  ASSUME NEW d, NEW later, KeysHold(d), KeysHold(later), Finite(d), Finite(later),
         Grown(d, later), NEW f, NEW e \in Matching(d, f)
  PROVE  Place(d, f, e) \in Nat /\ Place(later, f, e) \in Nat
         /\ Place(d, f, e) <= Place(later, f, e)
<1>1. ListedBefore(d, f, e) \subseteq ListedBefore(later, f, e)
  BY MatchingGrows DEF ListedBefore, Newer, Matching
<1>2. ListedBefore(later, f, e) \in SUBSET later.executions
  BY DEF ListedBefore, Matching
<1>3. IsFiniteSet(ListedBefore(later, f, e))
  BY <1>2, FS_Subset DEF Finite
<1>4. /\ IsFiniteSet(ListedBefore(d, f, e))
      /\ Cardinality(ListedBefore(d, f, e)) <= Cardinality(ListedBefore(later, f, e))
  BY <1>1, <1>3, FS_Subset
<1>5. QED
  BY <1>3, <1>4, FS_CardinalityType DEF Place

\* The orders in which the records may be listed.
Orders(d, f) == {s \in SetToSeqs(Matching(d, f)) :
                   \A i, j \in DOMAIN s : i < j => Newer(d, s[i], s[j])}

\* In such an order every execution stands at its place.
LEMMA PlaceInOrder ==
  ASSUME NEW d, KeysHold(d), TimesHold(d), Finite(d), NEW f, NEW s \in Orders(d, f)
  PROVE  LET n == Cardinality(Matching(d, f))
         IN /\ n \in Nat /\ s \in [1..n -> Matching(d, f)]
            /\ \A i \in 1..n : Place(d, f, s[i]) = i - 1
            /\ \A e \in Matching(d, f) : \E i \in 1..n : s[i] = e
<1> DEFINE all == Matching(d, f)
           n == Cardinality(all)
<1>1. all \in SUBSET d.executions /\ IsFiniteSet(all) /\ n \in Nat
  <2>1. all \in SUBSET d.executions
    BY DEF Matching
  <2>2. QED
    BY <2>1, FS_Subset, FS_CardinalityType DEF Finite
<1>2. /\ s \in [1..n -> all]
      /\ \A i, j \in 1..n : i # j => s[i] # s[j]
      /\ \A i, j \in 1..n : i < j => Newer(d, s[i], s[j])
  <2>1. s \in SetToSeqs(all) /\ \A i, j \in DOMAIN s : i < j => Newer(d, s[i], s[j])
    BY DEF Orders
  <2> HIDE DEF all
  <2>2. s \in [1..n -> all] /\ \A i, j \in 1..n : i # j => s[i] # s[j]
    BY <2>1 DEF SetToSeqs
  <2>3. QED
    BY <2>1, <2>2
<1>3. s \in Surjection(1..n, all)
  <2>1. s \in Injection(1..n, all)
    BY <1>2 DEF Injection, IsInjective
  <2>2. IsFiniteSet(1..n) /\ Cardinality(1..n) = n
    BY <1>1, FS_Interval
  <2> HIDE DEF all
  <2>3. QED
    BY <1>1, <2>1, <2>2, FS_Injection
<1>4. \A e \in all : \E i \in 1..n : s[i] = e
  BY <1>3 DEF Surjection
<1>5. ASSUME NEW i \in 1..n PROVE Place(d, f, s[i]) = i - 1
  <2>1. ListedBefore(d, f, s[i]) = {s[j] : j \in 1..(i - 1)}
    <3>1. ASSUME NEW j \in 1..(i - 1) PROVE s[j] \in ListedBefore(d, f, s[i])
      <4>1. j \in 1..n /\ j < i /\ j # i
        BY <1>1
      <4>2. QED
        BY <1>2, <4>1 DEF ListedBefore
    <3>2. ASSUME NEW x \in ListedBefore(d, f, s[i])
          PROVE  \E j \in 1..(i - 1) : x = s[j]
      <4>1. x \in all /\ x # s[i] /\ Newer(d, x, s[i])
        BY DEF ListedBefore
      <4>2. PICK j \in 1..n : s[j] = x
        BY <1>4, <4>1
      <4>3. ~(i < j)
        <5> SUFFICES ASSUME i < j PROVE FALSE
          OBVIOUS
        <5>1. Newer(d, s[i], x)
          BY <1>2, <4>2
        <5>2. x \in d.executions /\ s[i] \in d.executions
          BY <1>1, <1>2, <4>1
        <5>3. /\ ExecutionTime(d, x) \in Int /\ ExecutionTime(d, s[i]) \in Int
              /\ x.created \in Int /\ s[i].created \in Int
          BY <5>2, TimesAreIntegers
        <5>4. x.created = s[i].created
          BY <4>1, <5>1, <5>3 DEF Newer
        <5>5. QED
          BY <4>1, <5>2, <5>4 DEF TimesHold
      <4>4. j \in Int /\ i \in Int /\ j # i
        BY <1>1, <4>1, <4>2
      <4>5. QED
        BY <4>2, <4>3, <4>4
    <3>3. QED
      BY <3>1, <3>2
  <2>2. [j \in 1..(i - 1) |-> s[j]] \in Bijection(1..(i - 1), {s[j] : j \in 1..(i - 1)})
    <3>1. \A j, k \in 1..(i - 1) : j # k => s[j] # s[k]
      BY <1>1, <1>2
    <3>2. QED
      BY <3>1 DEF Bijection, Injection, IsInjective, Surjection
  <2>3. IsFiniteSet(1..(i - 1)) /\ Cardinality(1..(i - 1)) = i - 1
    <3> DEFINE m == i - 1
    <3>1. 1 \in Int /\ m \in Nat
      BY <1>1
    <3> HIDE DEF m
    <3>2. IsFiniteSet(1..m) /\ Cardinality(1..m) = IF 1 > m THEN 0 ELSE m - 1 + 1
      BY <3>1, FS_Interval
    <3>3. QED
      BY <3>1, <3>2 DEF m
  <2>4. Cardinality({s[j] : j \in 1..(i - 1)}) = i - 1
    BY <2>2, <2>3, FS_Bijection DEF ExistsBijection
  <2>5. QED
    BY <2>1, <2>4 DEF Place
<1>6. QED
  BY <1>1, <1>2, <1>4, <1>5

LEMMA MinOfTwo ==
  \A a, b \in Int : Min({a, b}) = IF a <= b THEN a ELSE b
<1> SUFFICES ASSUME NEW a \in Int, NEW b \in Int
             PROVE  Min({a, b}) = IF a <= b THEN a ELSE b
  OBVIOUS
<1> DEFINE least == IF a <= b THEN a ELSE b
<1>1. least \in {a, b} /\ \A y \in {a, b} : least <= y
  OBVIOUS
<1>2. \A x \in {a, b} : (\A y \in {a, b} : x <= y) => x = least
  OBVIOUS
<1>3. Min({a, b}) = least
  BY <1>1, <1>2 DEF Min
<1>4. QED
  BY <1>3

\* A page holds the executions whose places it is asked for.
LEMMA PageShowsPlaces ==
  ASSUME NEW d, KeysHold(d), TimesHold(d), Finite(d), NEW f,
         NEW limit \in Nat \ {0}, NEW offset \in Nat,
         NEW page \in Pages(d, f, limit, offset)
  PROVE  LET n == Executions(d, f)
         IN /\ n \in Nat
            /\ page = [i \in 1..Len(page) |-> page[i]]
            /\ Len(page) = IF n <= offset THEN 0
                           ELSE IF n <= offset + limit THEN n - offset ELSE limit
            /\ \A e \in Matching(d, f) :
                 /\ Place(d, f, e) \in 0..(n - 1)
                 /\ Place(d, f, e) \in offset..(offset + limit - 1) =>
                      \E i \in DOMAIN page : page[i].execution = e.id
<1> DEFINE n == Cardinality(Matching(d, f))
           last == IF offset + limit <= n THEN offset + limit ELSE n
<1>1. PICK s \in Orders(d, f) :
        page = [i \in DOMAIN SubSeq(s, offset + 1, Min({offset + limit, Len(s)})) |->
                  Record(d, SubSeq(s, offset + 1, Min({offset + limit, Len(s)}))[i])]
  BY DEF Pages, Orders
<1>2. /\ n \in Nat /\ s \in [1..n -> Matching(d, f)]
      /\ \A i \in 1..n : Place(d, f, s[i]) = i - 1
      /\ \A e \in Matching(d, f) : \E i \in 1..n : s[i] = e
  BY PlaceInOrder
<1> HIDE DEF n
<1>3. s \in Seq(Matching(d, f)) /\ Len(s) = n
  BY <1>2
<1>4. Min({offset + limit, Len(s)}) = last /\ last \in Nat /\ last <= n
  <2>1. Min({offset + limit, n}) = IF offset + limit <= n THEN offset + limit ELSE n
    <3>1. offset + limit \in Int /\ n \in Int
      BY <1>2
    <3>2. QED
      BY <3>1, MinOfTwo
  <2>2. last \in Nat /\ last <= n
    BY <1>2
  <2>3. QED
    BY <1>3, <2>1, <2>2
<1> DEFINE shown == SubSeq(s, offset + 1, last)
           size == IF n <= offset THEN 0
                   ELSE IF n <= offset + limit THEN n - offset ELSE limit
<1>5. /\ shown \in Seq(Matching(d, f)) /\ Len(shown) = size
      /\ size \in Nat /\ DOMAIN shown = 1..size
      /\ \A i \in 1..size : shown[i] = s[offset + i]
  BY <1>2, <1>3, <1>4
<1> HIDE DEF shown
<1>6. page = [i \in 1..size |-> Record(d, shown[i])]
  BY <1>1, <1>4, <1>5 DEF shown
<1>7. Len(page) = size
  BY <1>5, <1>6
<1>8. ASSUME NEW e \in Matching(d, f)
      PROVE  /\ Place(d, f, e) \in 0..(n - 1)
             /\ Place(d, f, e) \in offset..(offset + limit - 1) =>
                  \E i \in DOMAIN page : page[i].execution = e.id
  <2>1. PICK i \in 1..n : s[i] = e
    BY <1>2
  <2>2. Place(d, f, e) = i - 1
    BY <1>2, <2>1
  <2>3. CASE Place(d, f, e) \in offset..(offset + limit - 1)
    <3>1. i - offset \in 1..size /\ offset + (i - offset) = i
      BY <1>2, <2>2, <2>3
    <3>2. shown[i - offset] = e
      BY <1>5, <2>1, <3>1
    <3>3. page[i - offset] = Record(d, e) /\ i - offset \in DOMAIN page
      BY <1>6, <3>1, <3>2
    <3>4. Record(d, e).execution = e.id
      BY DEF Record
    <3>5. QED
      BY <1>2, <2>2, <3>3, <3>4
  <2>4. QED
    BY <1>2, <2>2, <2>3
<1>9. QED
  BY <1>2, <1>5, <1>6, <1>7, <1>8 DEF Executions, n

\* What a step does to the rows and to the endpoint that answers.
LEMMA ReadSteps ==
  ASSUME [Next]_vars
  PROVE  \/ UNCHANGED vars
         \/ \E c \in Commands : Begin(c)
         \/ \E t \in running : Commit(t)
         \/ \E chunk \in db.chunks : Retrieve(chunk)
         \/ \E q \in Questions : Ask(q)
         \/ Read \/ NextPage \/ Answered
BY DEF Next

LEMMA RowsGrow ==
  ASSUME DataInv, [Next]_vars
  PROVE  KeysHold(db) /\ KeysHold(db') /\ Finite(db) /\ Finite(db') /\ Grown(db, db')
<1>1. KeysHold(db) /\ KeysHold(db') /\ Finite(db) /\ Finite(db')
  BY DataInvStep DEF DataInv, TypeOK
<1>2. ASSUME NEW t \in running, Commit(t) PROVE Grown(db, db')
  BY <1>2, IngestKeeps DEF Commit, DataInv, TypeOK
<1>3. ASSUME NEW chunk \in db.chunks, Retrieve(chunk) PROVE Grown(db, db')
  BY <1>3, RetrieveKeeps DEF Retrieve, DataInv, TypeOK
<1>4. ASSUME db' = db PROVE Grown(db, db')
  BY <1>4 DEF Grown
<1>5. QED
  BY <1>1, <1>2, <1>3, <1>4, ReadSteps
  DEF vars, Begin, Ask, Read, NextPage, Answered, writeVars

-----------------------------------------------------------------------------
(* Transactions begin one after the other.                                  *)

ClockInv ==
  /\ clock \in Int /\ TimesHold(db)
  /\ \A e \in db.executions : e.created < clock
  /\ \A t \in running : /\ t.began \in Int /\ t.began < clock
                        /\ \A e \in db.executions : e.created # t.began
  /\ \A t, u \in running : t.began = u.began => t = u

LEMMA ClockInvInit == Init => ClockInv
<1> SUFFICES ASSUME Init PROVE ClockInv
  OBVIOUS
<1> DEFINE times == {0} \cup {e.created : e \in Earlier.executions}
<1>1. db = Earlier /\ running = {} /\ clock = 1 + Max(times) /\ TimesHold(Earlier)
  BY ReadModelsAssumption DEF Init
<1>2. IsFiniteSet(times) /\ times # {} /\ times \subseteq Int
  <2> DEFINE made == {e.created : e \in Earlier.executions}
             f == [e \in Earlier.executions |-> e.created]
  <2>1. IsFiniteSet(Earlier.executions)
    BY ReadModelsAssumption DEF KeysHold, NoRows
  <2>2. f \in [Earlier.executions -> made] /\ \A t \in made : \E e \in Earlier.executions : f[e] = t
    OBVIOUS
  <2> HIDE DEF f
  <2>3. made \subseteq Int
    BY <1>1 DEF TimesHold
  <2> HIDE DEF made
  <2>4. IsFiniteSet(made)
    BY <2>1, <2>2, ImageIsFinite
  <2>5. IsFiniteSet(made \cup {0}) /\ made \cup {0} = times
    BY <2>4, FS_AddElement DEF made
  <2>6. made \cup {0} # {} /\ made \cup {0} \subseteq Int
    BY <2>3
  <2> HIDE DEF times
  <2>7. QED
    BY <2>5, <2>6
<1> HIDE DEF times
<1>3. Max(times) \in Int /\ \A x \in times : Max(times) >= x
  BY <1>2, FiniteHasMax
<1>4. \A e \in Earlier.executions : e.created \in times
  BY DEF times
<1>5. \A e \in Earlier.executions : e.created \in Int
  BY <1>1 DEF TimesHold
<1>6. \A e \in db.executions : e.created < clock
  BY <1>1, <1>3, <1>4, <1>5
<1>7. QED
  BY <1>1, <1>3, <1>6 DEF ClockInv

LEMMA ClockInvStep == DataInv /\ ClockInv /\ [Next]_vars => ClockInv'
<1> SUFFICES ASSUME DataInv, ClockInv, [Next]_vars PROVE ClockInv'
  OBVIOUS
<1>1. ASSUME UNCHANGED <<db, running, clock>> PROVE ClockInv'
  BY <1>1 DEF ClockInv, TimesHold
<1>2. ASSUME NEW c \in Commands, Begin(c) PROVE ClockInv'
  <2>1. /\ db' = db /\ clock' = clock + 1
        /\ running' = running \cup {[command |-> c, began |-> clock]}
    BY <1>2 DEF Begin
  <2>2. clock \in Int /\ clock' \in Int /\ \A x \in Int : x < clock => x # clock /\ x < clock'
    BY <2>1 DEF ClockInv
  <2>3. \A e \in db.executions : e.created \in Int
    BY DEF ClockInv, TimesHold
  <2>4. \A t \in running' : /\ t.began \in Int /\ t.began < clock'
                            /\ \A e \in db.executions : e.created # t.began
    BY <2>1, <2>2, <2>3 DEF ClockInv
  <2>5. \A t, u \in running' : t.began = u.began => t = u
    BY <2>1, <2>2 DEF ClockInv
  <2>6. \A e \in db.executions : e.created < clock'
    BY <2>2, <2>3 DEF ClockInv
  <2>7. TimesHold(db')
    BY <2>1 DEF ClockInv
  <2>8. QED
    BY <2>1, <2>2, <2>4, <2>5, <2>6, <2>7 DEF ClockInv
<1>3. ASSUME NEW t \in running, Commit(t) PROVE ClockInv'
  <2> DEFINE request == RequestRowOf(t.command, t.began)
             execution == ExecutionRow(t.command, t.began)
  <2>1. /\ db' = Ingested(db, t.command, t.began)
        /\ running' = running \ {t} /\ clock' = clock /\ t.command \in Commands
    BY <1>3 DEF Commit, DataInv, TypeOK
  <2>2. /\ db'.requests = FirstWriter(db.requests, {request})
        /\ db'.executions = FirstWriter(db.executions, {execution})
    BY <2>1 DEF Ingested, DataInv, TypeOK, KeysHold, NoRows
  <2>3. /\ request.created = t.began /\ execution.created = t.began
        /\ request.started = None \/ request.started \in Int
        /\ execution.started = None \/ execution.started \in Int
    BY <2>1, ReadModelsAssumption DEF RequestRowOf, ExecutionRow
  <2>4. /\ t.began \in Int /\ t.began < clock
        /\ \A e \in db.executions : e.created # t.began
    BY DEF ClockInv
  <2> HIDE DEF request, execution
  <2>5. /\ \A r \in db'.requests : r \in db.requests \/ r = request
        /\ \A e \in db'.executions : e \in db.executions \/ e = execution
    BY <2>2 DEF FirstWriter
  <2>6. TimesHold(db')
    <3>1. \A d, e \in db'.executions : d.created = e.created => d = e
      BY <2>3, <2>4, <2>5 DEF ClockInv, TimesHold
    <3>2. \A row \in db'.requests \cup db'.executions :
            (row.started = None \/ row.started \in Int) /\ row.created \in Int
      BY <2>3, <2>4, <2>5 DEF ClockInv, TimesHold
    <3>3. QED
      BY <3>1, <3>2 DEF TimesHold
  <2>7. \A e \in db'.executions : e.created < clock
    BY <2>3, <2>4, <2>5 DEF ClockInv
  <2>8. \A u \in running' : \A e \in db'.executions : e.created # u.began
    BY <2>1, <2>3, <2>5 DEF ClockInv
  <2>9. QED
    BY <2>1, <2>6, <2>7, <2>8 DEF ClockInv
<1>4. ASSUME NEW chunk \in db.chunks, Retrieve(chunk) PROVE ClockInv'
  <2>1. /\ db'.requests = db.requests /\ db'.executions = db.executions
        /\ running' = running /\ clock' = clock
    BY <1>4 DEF Retrieve, Retrieved, DataInv, TypeOK, KeysHold, NoRows
  <2>2. QED
    BY <2>1 DEF ClockInv, TimesHold
<1>5. QED
  BY <1>1, <1>2, <1>3, <1>4, ReadSteps DEF vars, Ask, Read, NextPage, Answered, writeVars

-----------------------------------------------------------------------------
(* One statement after another.                                             *)

\* What has been asked before some statements.
LEMMA PlanOrder ==
  ASSUME view \in Views, view # "idle", ~Finished
  PROVE  /\ Statement = "items" => Asked("total")
         /\ view = "stats" /\ Statement = "executions" => Asked("tokens") /\ Asked("requests")
         /\ view = "detail" /\ Statement = "attempts" => Asked("request")
<1>1. PICK i \in DOMAIN Plan(view) :
        Statement = Plan(view)[i] /\ \A j \in 1..(i - 1) : Asked(Plan(view)[j])
  BY FirstUnasked
<1>2. CASE view = "stats"
  <2>1. Plan(view) = StatsPlan
    BY <1>2 DEF Plan
  <2>2. i \in 1..8 /\ (StatsPlan[i] = "executions" => i = 3) /\ StatsPlan[i] # "items"
        /\ StatsPlan[i] # "attempts"
    BY <1>1, <2>1 DEF StatsPlan
  <2>3. Statement = "executions" => 1 \in 1..(i - 1) /\ 2 \in 1..(i - 1)
    BY <1>1, <2>1, <2>2
  <2>4. StatsPlan[1] = "tokens" /\ StatsPlan[2] = "requests"
    BY DEF StatsPlan
  <2>5. QED
    BY <1>1, <1>2, <2>1, <2>2, <2>3, <2>4
<1>3. CASE view = "detail"
  <2>1. Plan(view) = DetailPlan
    BY <1>3 DEF Plan
  <2>2. i \in 1..7 /\ (DetailPlan[i] = "attempts" => i = 2) /\ DetailPlan[i] # "items"
    <3>1. i \in 1..7
      BY <1>1, <2>1 DEF DetailPlan
    <3>2. \A j \in 1..7 : j # 2 => DetailPlan[j] # "attempts"
      BY DEF DetailPlan
    <3>3. \A j \in 1..7 : DetailPlan[j] # "items"
      BY DEF DetailPlan
    <3>4. QED
      BY <3>1, <3>2, <3>3
  <2>3. Statement = "attempts" => 1 \in 1..(i - 1)
    BY <1>1, <2>1, <2>2
  <2>4. DetailPlan[1] = "request"
    BY DEF DetailPlan
  <2>5. QED
    BY <1>1, <1>3, <2>1, <2>2, <2>3, <2>4
<1>4. CASE view \in {"records", "walk"}
  <2>1. Plan(view) = RecordsPlan
    BY <1>4 DEF Plan
  <2>2. i \in 1..2 /\ (RecordsPlan[i] = "items" => i = 2)
    BY <1>1, <2>1 DEF RecordsPlan
  <2>3. Statement = "items" => 1 \in 1..(i - 1)
    BY <1>1, <2>1, <2>2
  <2>4. RecordsPlan[1] = "total"
    BY DEF RecordsPlan
  <2>5. QED
    BY <1>1, <1>4, <2>1, <2>2, <2>3, <2>4
<1>5. CASE view = "page"
  <2>1. Plan(view) = PagePlan
    BY <1>5 DEF Plan
  <2>2. i \in 1..16 /\ (PagePlan[i] = "items" => i = 16)
    <3>1. DOMAIN PagePlan = 1..16
      BY DEF PagePlan, DashboardPlan, RecordsPlan
    <3>2. \A j \in 1..16 :
            /\ j <= 10 => PagePlan[j] = DashboardPlan[j]
            /\ j \in {11, 12, 13, 14} => PagePlan[j] \in {"by_provider", "by_model",
                                                         "by_strategy", "by_status"}
            /\ j = 15 => PagePlan[j] = "total"
      BY DEF PagePlan, DashboardPlan, RecordsPlan
    <3>a. \A j \in 1..10 : DashboardPlan[j] # "items"
      BY DEF DashboardPlan
    <3>3. \A j \in 1..16 : j # 16 => PagePlan[j] # "items"
      BY <3>2, <3>a
    <3>4. QED
      BY <1>1, <2>1, <3>1, <3>3
  <2>3. Statement = "items" => 15 \in 1..(i - 1)
    BY <1>1, <2>1, <2>2
  <2>4. PagePlan[15] = "total"
    BY DEF PagePlan, DashboardPlan, RecordsPlan
  <2>5. QED
    BY <1>1, <1>5, <2>1, <2>2, <2>3, <2>4
<1>6. QED
  BY <1>2, <1>3, <1>4, <1>5 DEF Views

\* What the statements answer that the proofs below are about.
LEMMA AnswersItems == Answers("items") = Pages(db, query.filter, PageLimit, query.offset)
  BY DEF Answers

LEMMA AnswersTotal ==
  /\ Answers("total") = {Executions(db, query.filter)}
  /\ Answers("executions") = {Executions(db, query.filter)}
  BY DEF Answers

LEMMA AnswersTokens ==
  /\ Answers("tokens") = {TokenTotals(db, query.filter)}
  /\ Answers("requests") = {Requests(db, query.filter)}
  BY DEF Answers

LEMMA AnswersDetail ==
  /\ Answers("request") = {RequestRow(db, query.request)}
  /\ Answers("attempts") = {Attempts(db, query.request)}
  BY DEF Answers

\* A statement adds its own answer to those that are there.
LEMMA ReadAdds ==
  ASSUME Read, NEW s, s \in DOMAIN answer'
  PROVE  \/ Asked(s) /\ answer'[s] = answer[s]
         \/ s = Statement /\ answer'[s] \in Answers(s)
<1>1. PICK result \in Answers(Statement) :
        answer' = [t \in DOMAIN answer \cup {Statement} |->
                     IF t = Statement THEN result ELSE answer[t]]
  BY DEF Read
<1>2. DOMAIN answer' = DOMAIN answer \cup {Statement}
  BY <1>1
<1>3. CASE s = Statement
  BY <1>1, <1>2, <1>3
<1>4. CASE s # Statement
  BY <1>1, <1>2, <1>4 DEF Asked
<1>5. QED
  BY <1>3, <1>4

\* Other answers to what an endpoint has asked stay.
LEMMA OthersKeepAnswers ==
  ASSUME DataInv, [Next]_vars
  PROVE  \/ UNCHANGED <<view, query, answer, walk>>
         \/ Read /\ UNCHANGED <<db, view, query, walk>>
         \/ /\ DOMAIN answer' = {}
            /\ \/ query'.offset \in Nat /\ DOMAIN query' = {"filter", "request", "offset"}
               \/ NextPage
<1>1. ASSUME NEW q \in Questions, Ask(q)
      PROVE  /\ DOMAIN answer' = {} /\ query'.offset \in Nat
             /\ DOMAIN query' = {"filter", "request", "offset"}
  <2>1. /\ answer' = answer /\ view = "idle" /\ query'.offset = q.offset
        /\ DOMAIN query' = {"filter", "request", "offset"}
    BY <1>1 DEF Ask
  <2>2. \A s \in DOMAIN answer : \E i \in DOMAIN Plan("idle") : Plan("idle")[i] = s
    BY <2>1 DEF DataInv, TypeOK
  <2>3. QED
    BY <2>1, <2>2, IdlePlan, ReadModelsAssumption
<1>2. CASE NextPage \/ Answered
  <2>1. answer' = <<>> /\ (Answered => query' = NoQuery)
    BY <1>2 DEF NextPage, Answered
  <2>2. QED
    BY <1>2, <2>1 DEF NoQuery
<1>3. CASE Read
  BY <1>3 DEF Read, writeVars
<1>4. QED
  BY <1>1, <1>2, <1>3, ReadSteps DEF vars, Begin, Commit, Retrieve, readVars

-----------------------------------------------------------------------------
(* A page of records shows what its total promises.                         *)

LEMMA MatchingIsFinite ==
  ASSUME NEW d, Finite(d), NEW f
  PROVE  IsFiniteSet(Matching(d, f)) /\ Executions(d, f) \in Nat
<1>1. Matching(d, f) \in SUBSET d.executions
  BY DEF Matching
<1>2. QED
  BY <1>1, FS_Subset, FS_CardinalityType DEF Finite, Executions

LEMMA ExecutionsGrow ==
  ASSUME DataInv, [Next]_vars, NEW f
  PROVE  /\ Executions(db, f) \in Nat /\ Executions(db', f) \in Nat
         /\ Executions(db, f) <= Executions(db', f)
<1>1. Matching(db, f) \in SUBSET Matching(db', f)
  BY RowsGrow, MatchingGrows
<1>2. QED
  BY <1>1, RowsGrow, MatchingIsFinite, FS_Subset DEF Executions

\* The total was counted before the page was read, and only grows.
RecordsInv ==
  /\ query.offset \in Nat /\ DOMAIN query = {"filter", "request", "offset"}
  /\ Asked("total") => answer["total"] \in Nat
                       /\ answer["total"] <= Executions(db, query.filter)
  /\ Asked("items") =>
       /\ Asked("total") /\ Len(answer["items"]) \in Nat
       /\ Len(answer["items"]) >= PageLimit
          \/ Len(answer["items"]) >= answer["total"] - query.offset

LEMMA RecordsInvInit == Init => RecordsInv
BY DEF Init, NoQuery, RecordsInv, Asked

LEMMA RecordsInvStep == DataInv /\ ClockInv /\ RecordsInv /\ [Next]_vars => RecordsInv'
<1> SUFFICES ASSUME DataInv, ClockInv, RecordsInv, [Next]_vars PROVE RecordsInv'
  OBVIOUS
<1> DEFINE f == query.filter
<1>1. CASE UNCHANGED <<view, query, answer, walk>>
  <2>1. Executions(db, f) <= Executions(db', f) /\ Executions(db, f) \in Nat
        /\ Executions(db', f) \in Nat
    BY ExecutionsGrow
  <2>2. (Asked("total")' <=> Asked("total")) /\ (Asked("items")' <=> Asked("items"))
    BY <1>1 DEF Asked
  <2>3. Asked("total") => answer["total"] <= Executions(db', f)
    BY <2>1 DEF RecordsInv
  <2>4. QED
    BY <1>1, <2>2, <2>3 DEF RecordsInv
<1>2. CASE Read /\ UNCHANGED <<db, view, query, walk>>
  <2>1. view \in Views /\ view # "idle" /\ ~Finished
    BY <1>2 DEF Read, DataInv, TypeOK
  <2>2. Asked("total")' => answer'["total"] \in Nat
                           /\ answer'["total"] <= Executions(db, f)
    <3>1. Executions(db, f) \in Nat
      BY MatchingIsFinite DEF DataInv
    <3> SUFFICES ASSUME "total" \in DOMAIN answer'
                 PROVE  answer'["total"] \in Nat /\ answer'["total"] <= Executions(db, f)
      BY DEF Asked
    <3>2. CASE Asked("total") /\ answer'["total"] = answer["total"]
      BY <3>2 DEF RecordsInv
    <3>3. CASE answer'["total"] \in Answers("total")
      BY <3>1, <3>3, AnswersTotal
    <3>4. QED
      BY <1>2, <3>2, <3>3, ReadAdds
  <2>3. \A s : Asked(s) => Asked(s)'
    BY <1>2 DEF Read, Asked
  <2>4. CASE Asked("items") /\ answer'["items"] = answer["items"]
    <3>1. Asked("total") /\ Asked("total")'
      BY <2>3, <2>4 DEF RecordsInv
    <3>2. answer'["total"] = answer["total"]
      <4>1. Statement # "total"
        <5>1. ~Asked(Statement)
          BY <2>1, FirstUnasked
        <5>2. QED
          BY <3>1, <5>1
      <4>2. QED
        BY <1>2, <3>1, <4>1, ReadAdds DEF Asked
    <3>3. QED
      BY <1>2, <2>2, <2>4, <3>1, <3>2 DEF RecordsInv
  <2>5. CASE Statement = "items" /\ answer'["items"] \in Answers("items")
    <3>1. Asked("total") /\ answer'["total"] = answer["total"] /\ Asked("total")'
      <4>1. Asked("total") /\ Statement # "total"
        BY <2>1, <2>5, PlanOrder
      <4>2. QED
        BY <1>2, <2>3, <4>1, ReadAdds DEF Asked
    <3>2. KeysHold(db) /\ TimesHold(db) /\ Finite(db) /\ PageLimit \in Nat \ {0}
          /\ query.offset \in Nat
      BY ReadModelsAssumption DEF DataInv, TypeOK, ClockInv, RecordsInv
    <3>3. answer'["items"] \in Pages(db, f, PageLimit, query.offset)
      BY <2>5, AnswersItems
    <3>4. /\ Executions(db, f) \in Nat
          /\ Len(answer'["items"]) =
               IF Executions(db, f) <= query.offset THEN 0
               ELSE IF Executions(db, f) <= query.offset + PageLimit
                    THEN Executions(db, f) - query.offset ELSE PageLimit
      <4> DEFINE page == answer'["items"]
                 start == query.offset
      <4>1. page \in Pages(db, f, PageLimit, start) /\ start \in Nat
        BY <3>2, <3>3
      <4> HIDE DEF page, start, f
      <4>2. /\ Executions(db, f) \in Nat
            /\ Len(page) = IF Executions(db, f) <= start THEN 0
                           ELSE IF Executions(db, f) <= start + PageLimit
                                THEN Executions(db, f) - start ELSE PageLimit
        BY <3>2, <4>1, PageShowsPlaces
      <4>3. QED
        BY <4>2 DEF page, start
    <3>5. answer["total"] \in Nat /\ answer["total"] <= Executions(db, f)
      BY <3>1 DEF RecordsInv
    <3>6. /\ Len(answer'["items"]) \in Nat
          /\ Len(answer'["items"]) >= PageLimit
             \/ Len(answer'["items"]) >= answer'["total"] - query.offset
      BY <3>1, <3>2, <3>4, <3>5
    <3>7. QED
      BY <1>2, <2>2, <3>1, <3>6 DEF RecordsInv
  <2>6. CASE ~Asked("items")'
    BY <1>2, <2>2, <2>6 DEF RecordsInv
  <2>7. QED
    BY <1>2, <2>4, <2>5, <2>6, ReadAdds DEF Asked
<1>3. CASE /\ DOMAIN answer' = {} /\ query'.offset \in Nat
           /\ DOMAIN query' = {"filter", "request", "offset"}
  BY <1>3 DEF RecordsInv, Asked
<1>4. CASE DOMAIN answer' = {} /\ NextPage
  <2>1. query'.offset = query.offset + PageLimit
    <3>1. query' = [query EXCEPT !.offset = @ + PageLimit]
      BY <1>4 DEF NextPage
    <3>2. QED
      BY <3>1 DEF RecordsInv
  <2>2. query'.offset \in Nat /\ DOMAIN query' = {"filter", "request", "offset"}
    BY <1>4, <2>1, ReadModelsAssumption DEF RecordsInv, NextPage
  <2>3. QED
    BY <1>4, <2>2 DEF RecordsInv, Asked
<1>5. QED
  BY <1>1, <1>2, <1>3, <1>4, OthersKeepAnswers

-----------------------------------------------------------------------------
(* A client that pages on misses nothing.                                   *)

\* What it is owed and has not seen stands at or after the page it reads next:
\* new records push others back, never forward.
WalkInv ==
  view = "walk" =>
    /\ DOMAIN walk = {"seen", "owed"}
    /\ walk.owed \subseteq Ids(db, query.filter)
    /\ \A e \in Matching(db, query.filter) :
         \/ e.id \notin walk.owed \/ e.id \in walk.seen
         \/ ~Asked("items") /\ Place(db, query.filter, e) >= query.offset
         \/ Asked("items") /\ e.id \in Listed
         \/ /\ Asked("items") /\ Len(answer["items"]) = PageLimit
            /\ Place(db, query.filter, e) >= query.offset + PageLimit

LEMMA WalkInvInit == Init => WalkInv
  BY DEF Init, WalkInv

LEMMA WalkInvStep == DataInv /\ ClockInv /\ RecordsInv /\ WalkInv /\ [Next]_vars => WalkInv'
<1> SUFFICES ASSUME DataInv, ClockInv, RecordsInv, WalkInv, [Next]_vars, view' = "walk"
             PROVE  WalkInv'
  BY DEF WalkInv
<1> DEFINE f == query.filter
           start == query.offset
<1>0. /\ KeysHold(db) /\ KeysHold(db') /\ Finite(db) /\ Finite(db') /\ Grown(db, db')
      /\ TimesHold(db) /\ start \in Nat /\ PageLimit \in Nat \ {0}
  BY RowsGrow, ReadModelsAssumption DEF ClockInv, RecordsInv
<1>1. CASE UNCHANGED <<view, query, answer, walk>>
  <2>1. /\ walk.owed \subseteq Ids(db, f) /\ DOMAIN walk = {"seen", "owed"}
        /\ \A e \in Matching(db, f) :
             \/ e.id \notin walk.owed \/ e.id \in walk.seen
             \/ ~Asked("items") /\ Place(db, f, e) >= start
             \/ Asked("items") /\ e.id \in Listed
             \/ /\ Asked("items") /\ Len(answer["items"]) = PageLimit
                /\ Place(db, f, e) >= start + PageLimit
    BY <1>1 DEF WalkInv
  <2>2. Matching(db, f) \subseteq Matching(db', f)
    BY <1>0, MatchingGrows
  <2>3. ASSUME NEW e \in Matching(db', f), e.id \in walk.owed
        PROVE  /\ e \in Matching(db, f)
               /\ Place(db, f, e) \in Nat /\ Place(db', f, e) \in Nat
               /\ Place(db, f, e) <= Place(db', f, e)
    <3>1. PICK d \in Matching(db, f) : d.id = e.id
      BY <2>1, <2>3 DEF Ids
    <3>2. d \in db'.executions /\ e \in db'.executions
      BY <2>2 DEF Matching
    <3>3. d = e
      BY <1>0, <3>1, <3>2 DEF KeysHold
    <3> HIDE DEF f
    <3>4. QED
      BY <1>0, <3>1, <3>3, PlacesGrow
  <2>4. walk.owed \subseteq Ids(db', f)
    BY <2>1, <2>2 DEF Ids
  <2>5. (Asked("items")' <=> Asked("items")) /\ Listed' = Listed
    BY <1>1 DEF Asked, Listed
  <2> HIDE DEF start
  <2>6. \A e \in Matching(db', f) :
             \/ e.id \notin walk.owed \/ e.id \in walk.seen
             \/ ~Asked("items") /\ Place(db', f, e) >= start
             \/ Asked("items") /\ e.id \in Listed
             \/ /\ Asked("items") /\ Len(answer["items"]) = PageLimit
                /\ Place(db', f, e) >= start + PageLimit
    BY <1>0, <2>1, <2>3
  <2>7. QED
    BY <1>1, <2>1, <2>4, <2>5, <2>6 DEF WalkInv, start
<1>2. CASE Read /\ UNCHANGED <<db, view, query, walk>>
  <2>1. /\ walk.owed \subseteq Ids(db, f) /\ DOMAIN walk = {"seen", "owed"}
        /\ \A e \in Matching(db, f) :
             \/ e.id \notin walk.owed \/ e.id \in walk.seen
             \/ ~Asked("items") /\ Place(db, f, e) >= start
             \/ Asked("items") /\ e.id \in Listed
             \/ /\ Asked("items") /\ Len(answer["items"]) = PageLimit
                /\ Place(db, f, e) >= start + PageLimit
    BY <1>2 DEF WalkInv
  <2>2. CASE ~Asked("items")'
    <3>1. ~Asked("items")
      BY <1>2, <2>2 DEF Read, Asked
    <3>2. QED
      BY <1>2, <2>1, <2>2, <3>1 DEF WalkInv
  <2>3. CASE Asked("items") /\ answer'["items"] = answer["items"] /\ Asked("items")'
    <3>1. Listed' = Listed
      BY <2>3 DEF Listed
    <3>2. QED
      BY <1>2, <2>1, <2>3, <3>1 DEF WalkInv
  <2>4. CASE /\ Statement = "items" /\ answer'["items"] \in Answers("items")
             /\ Asked("items")'
    <3> DEFINE page == answer'["items"]
               n == Executions(db, f)
    <3>1. page \in Pages(db, f, PageLimit, start)
      BY <2>4, AnswersItems
    <3>2. ~Asked("items")
      <4>1. view \in Views /\ view # "idle" /\ ~Finished
        BY <1>2 DEF Read, DataInv, TypeOK
      <4>2. ~Asked(Statement)
        BY <4>1, FirstUnasked
      <4>3. QED
        BY <2>4, <4>2
    <3>3. Listed' = {page[i].execution : i \in DOMAIN page}
      BY DEF Listed
    <3> HIDE DEF page, start, f, n
    <3>4. /\ n \in Nat
          /\ Len(page) = IF n <= start THEN 0
                         ELSE IF n <= start + PageLimit THEN n - start ELSE PageLimit
          /\ \A e \in Matching(db, f) :
               /\ Place(db, f, e) \in 0..(n - 1)
               /\ Place(db, f, e) \in start..(start + PageLimit - 1) =>
                    \E i \in DOMAIN page : page[i].execution = e.id
      BY <1>0, <3>1, PageShowsPlaces DEF n
    <3>5. ASSUME NEW e \in Matching(db, f), e.id \in walk.owed, e.id \notin walk.seen
          PROVE  \/ e.id \in Listed'
                 \/ Len(page) = PageLimit /\ Place(db, f, e) >= start + PageLimit
      <4>1. Place(db, f, e) >= start
        BY <2>1, <3>2, <3>5
      <4>2. CASE Place(db, f, e) >= start + PageLimit
        BY <1>0, <3>4, <4>2
      <4>3. CASE ~(Place(db, f, e) >= start + PageLimit)
        <5>1. Place(db, f, e) \in start..(start + PageLimit - 1)
          BY <1>0, <3>4, <4>1, <4>3
        <5>2. QED
          BY <3>3, <3>4, <5>1
      <4>4. QED
        BY <4>2, <4>3
    <3>6. QED
      BY <1>2, <2>1, <2>4, <3>5 DEF WalkInv, page, start, f
  <2>5. QED
    BY <1>2, <2>2, <2>3, <2>4, ReadAdds DEF Asked
<1>3. ASSUME NEW q \in Questions, Ask(q) PROVE WalkInv'
  <2>1. /\ view' = q.view /\ query'.offset = q.offset /\ db' = db /\ answer' = answer
        /\ view = "idle"
        /\ walk' = [NoWalk EXCEPT !.owed = Ids(db, query'.filter)]
    BY <1>3 DEF Ask, writeVars
  <2>2. DOMAIN answer = {}
    <3>1. \A s \in DOMAIN answer : \E i \in DOMAIN Plan("idle") : Plan("idle")[i] = s
      BY <2>1 DEF DataInv, TypeOK
    <3>2. QED
      BY <3>1, IdlePlan
  <2>3. query'.offset = 0 /\ walk'.owed = Ids(db, query'.filter)
        /\ DOMAIN walk' = {"seen", "owed"}
    BY <2>1, ReadModelsAssumption DEF NoWalk
  <2>4. \A e \in Matching(db, query'.filter) : Place(db, query'.filter, e) >= 0
    <3> DEFINE g == query'.filter
    <3> HIDE DEF g
    <3>1. \A e \in Matching(db, g) : Place(db, g, e) \in Nat
      <4>1. Grown(db, db)
        BY DEF Grown
      <4>2. QED
        BY <1>0, <4>1, PlacesGrow
    <3>2. QED
      BY <3>1 DEF g
  <2>5. QED
    BY <2>1, <2>2, <2>3, <2>4 DEF WalkInv, Asked
<1>4. CASE NextPage
  <2>1. /\ view = "walk" /\ Finished /\ Len(answer["items"]) = PageLimit
        /\ query' = [query EXCEPT !.offset = @ + PageLimit]
        /\ walk' = [walk EXCEPT !.seen = @ \cup Listed]
        /\ answer' = <<>> /\ db' = db /\ DOMAIN query = {"filter", "request", "offset"}
    BY <1>4 DEF NextPage, writeVars, RecordsInv
  <2>2. Asked("items")
    <3>1. Plan(view) = RecordsPlan /\ view # "detail"
      BY <2>1 DEF Plan
    <3>2. 2 \in DOMAIN RecordsPlan /\ RecordsPlan[2] = "items"
      BY DEF RecordsPlan
    <3>3. QED
      BY <2>1, <3>1, <3>2 DEF Finished, NotFound
  <2>3. query'.offset = start + PageLimit /\ query'.filter = f
    BY <2>1
  <2>4. DOMAIN walk = {"seen", "owed"} /\ walk.owed \subseteq Ids(db, f)
    BY <2>1 DEF WalkInv
  <2>5. /\ walk'.owed = walk.owed /\ walk'.seen = walk.seen \cup Listed
        /\ DOMAIN walk' = {"seen", "owed"}
    BY <2>1, <2>4
  <2>6. DOMAIN answer' = {}
    BY <2>1
  <2>7. \A e \in Matching(db, f) :
          \/ e.id \notin walk.owed \/ e.id \in walk.seen \/ e.id \in Listed
          \/ Place(db, f, e) >= start + PageLimit
    BY <2>1, <2>2 DEF WalkInv
  <2>8. QED
    BY <2>1, <2>3, <2>4, <2>5, <2>6, <2>7 DEF WalkInv, Asked
<1>5. CASE Answered
  BY <1>5 DEF Answered
<1>6. QED
  BY <1>1, <1>2, <1>3, <1>4, <1>5, ReadSteps
  DEF vars, Begin, Commit, Retrieve, readVars, Read, writeVars

\* A client that pages through the records while others are ingested has seen, when a
\* page comes back short, all that were there when it began: new rows move a record to
\* a later place, and the next page begins where the last one ended (repositories.py).
THEOREM WalksMissNothing == Spec => []WalkMissesNothing
<1> DEFINE Inv == DataInv /\ ClockInv /\ RecordsInv /\ WalkInv
<1>1. Inv => WalkMissesNothing
  <2> SUFFICES ASSUME Inv, view = "walk", Finished, Len(answer["items"]) < PageLimit
               PROVE  walk.owed \subseteq walk.seen \cup Listed
    BY DEF WalkMissesNothing
  <2>1. Asked("items")
    <3>1. Plan(view) = RecordsPlan /\ view # "detail"
      BY DEF Plan
    <3>2. 2 \in DOMAIN RecordsPlan /\ RecordsPlan[2] = "items"
      BY DEF RecordsPlan
    <3>3. QED
      BY <3>1, <3>2 DEF Finished, NotFound
  <2>2. Len(answer["items"]) \in Nat /\ PageLimit \in Nat
    BY <2>1, ReadModelsAssumption DEF RecordsInv
  <2>3. QED
    BY <2>1, <2>2 DEF WalkInv, Ids
<1>2. Init => Inv
  BY DataInvInit, ClockInvInit, RecordsInvInit, WalkInvInit
<1>3. Inv /\ [Next]_vars => Inv'
  BY DataInvStep, ClockInvStep, RecordsInvStep, WalkInvStep
<1>4. QED
  BY <1>1, <1>2, <1>3, PTL DEF Spec

-----------------------------------------------------------------------------
(* What an endpoint puts together from several snapshots.                   *)

\* A page shows no fewer records than the total it was answered with leaves for it,
\* whatever was committed between the two statements (repositories.py).
THEOREM RecordsAlwaysHoldTogether == Spec => []RecordsHoldTogether
<1> DEFINE Inv == DataInv /\ ClockInv /\ RecordsInv
<1>1. Inv => RecordsHoldTogether
  <2> SUFFICES ASSUME Inv, Asked("items")
               PROVE  Len(answer["items"]) >= Min({PageLimit, answer["total"] - query.offset})
    BY DEF RecordsHoldTogether
  <2>1. /\ answer["total"] \in Nat /\ query.offset \in Nat /\ Len(answer["items"]) \in Nat
        /\ PageLimit \in Nat
    BY ReadModelsAssumption DEF RecordsInv
  <2>2. \/ Len(answer["items"]) >= PageLimit
        \/ Len(answer["items"]) >= answer["total"] - query.offset
    BY DEF RecordsInv
  <2>3. Min({PageLimit, answer["total"] - query.offset}) =
          IF PageLimit <= answer["total"] - query.offset
          THEN PageLimit ELSE answer["total"] - query.offset
    BY <2>1, MinOfTwo
  <2>4. QED
    BY <2>1, <2>2, <2>3
<1>2. Init => Inv
  BY DataInvInit, ClockInvInit, RecordsInvInit
<1>3. Inv /\ [Next]_vars => Inv'
  BY DataInvStep, ClockInvStep, RecordsInvStep
<1>4. QED
  BY <1>1, <1>2, <1>3, PTL DEF Spec

LEMMA TokenCounts ==
  ASSUME NEW d, NEW f
  PROVE  /\ TokenTotals(d, f).failed = Cardinality({e \in Matching(d, f) : e.status = "failed"})
         /\ TokenTotals(d, f).succeeded
              = Cardinality({e \in Matching(d, f) : e.status = "succeeded"})
         /\ TokenTotals(d, f).negative = Cardinality({e \in Matching(d, f) : Negative(e)})
BY DEF TokenTotals, Count, Failed, Succeeded

\* The parts of the executions that match, and the requests they belong to.
LEMMA CountsAreParts ==
  ASSUME NEW d, Finite(d), NEW f
  PROVE  /\ TokenTotals(d, f).failed \in Nat /\ TokenTotals(d, f).succeeded \in Nat
         /\ TokenTotals(d, f).negative \in Nat /\ Requests(d, f) \in Nat
         /\ TokenTotals(d, f).failed + TokenTotals(d, f).succeeded <= Executions(d, f)
         /\ TokenTotals(d, f).negative <= Executions(d, f)
         /\ Requests(d, f) <= Executions(d, f)
<1> DEFINE all == Matching(d, f)
           failed == {e \in all : e.status = "failed"}
           succeeded == {e \in all : e.status = "succeeded"}
           negative == {e \in all : Negative(e)}
           asked == {e.request : e \in all}
<1>1. IsFiniteSet(all) /\ Cardinality(all) \in Nat
  BY MatchingIsFinite DEF Executions
<1>2. failed \in SUBSET all /\ succeeded \in SUBSET all /\ negative \in SUBSET all
      /\ failed \cap succeeded = {} /\ failed \cup succeeded \in SUBSET all
  OBVIOUS
<1>3. [e \in all |-> e.request] \in Surjection(all, asked)
  BY DEF Surjection
<1> HIDE DEF all, failed, succeeded, negative, asked
<1>4. /\ IsFiniteSet(failed) /\ IsFiniteSet(succeeded) /\ IsFiniteSet(negative)
      /\ Cardinality(negative) <= Cardinality(all)
      /\ Cardinality(failed \cup succeeded) <= Cardinality(all)
  BY <1>1, <1>2, FS_Subset
<1>5. /\ Cardinality(failed) \in Nat /\ Cardinality(succeeded) \in Nat
      /\ Cardinality(negative) \in Nat
  BY <1>4, FS_CardinalityType
<1>6. Cardinality(failed \cup succeeded) = Cardinality(failed) + Cardinality(succeeded) - 0
  BY <1>2, <1>4, FS_Union, FS_EmptySet
<1>7. IsFiniteSet(asked) /\ Cardinality(asked) <= Cardinality(all)
  BY <1>1, <1>3, FS_Surjection
<1>8. Cardinality(asked) \in Nat
  BY <1>7, FS_CardinalityType
<1>9. /\ TokenTotals(d, f).failed = Cardinality(failed)
      /\ TokenTotals(d, f).succeeded = Cardinality(succeeded)
      /\ TokenTotals(d, f).negative = Cardinality(negative)
      /\ Requests(d, f) = Cardinality(asked) /\ Executions(d, f) = Cardinality(all)
  BY TokenCounts DEF all, failed, succeeded, negative, asked, Requests, RequestsOf, Executions
<1>10. QED
  BY <1>1, <1>4, <1>5, <1>6, <1>7, <1>8, <1>9

\* The token sums and the requests of /stats were counted before the executions,
\* which only grow.
StatsInv ==
  view = "stats" =>
    /\ Asked("tokens") =>
         /\ answer["tokens"].failed \in Nat /\ answer["tokens"].succeeded \in Nat
         /\ answer["tokens"].negative \in Nat
         /\ answer["tokens"].failed + answer["tokens"].succeeded
              <= Executions(db, query.filter)
         /\ answer["tokens"].negative <= Executions(db, query.filter)
    /\ Asked("requests") =>
         answer["requests"] \in Nat /\ answer["requests"] <= Executions(db, query.filter)
    /\ Asked("executions") =>
         /\ Asked("tokens") /\ Asked("requests")
         /\ answer["tokens"].failed + answer["tokens"].succeeded <= answer["executions"]
         /\ answer["tokens"].negative <= answer["executions"]
         /\ answer["requests"] <= answer["executions"]

LEMMA StatsInvStep == DataInv /\ StatsInv /\ [Next]_vars => StatsInv'
<1> SUFFICES ASSUME DataInv, StatsInv, [Next]_vars, view' = "stats" PROVE StatsInv'
  BY DEF StatsInv
<1> DEFINE f == query.filter
           n == Executions(db, f)
<1>1. CASE UNCHANGED <<view, query, answer, walk>>
  <2>1. n <= Executions(db', f) /\ n \in Nat /\ Executions(db', f) \in Nat
    BY ExecutionsGrow
  <2>2. \A s : Asked(s)' <=> Asked(s)
    BY <1>1 DEF Asked
  <2> HIDE DEF n
  <2>3. /\ Asked("tokens") =>
             /\ answer["tokens"].failed \in Nat /\ answer["tokens"].succeeded \in Nat
             /\ answer["tokens"].negative \in Nat
             /\ answer["tokens"].failed + answer["tokens"].succeeded <= n
             /\ answer["tokens"].negative <= n
        /\ Asked("requests") => answer["requests"] \in Nat /\ answer["requests"] <= n
    BY <1>1 DEF StatsInv, n
  <2>4. /\ Asked("tokens") =>
             /\ answer["tokens"].failed + answer["tokens"].succeeded <= Executions(db', f)
             /\ answer["tokens"].negative <= Executions(db', f)
        /\ Asked("requests") => answer["requests"] <= Executions(db', f)
    BY <2>1, <2>3
  <2>5. QED
    BY <1>1, <2>2, <2>4 DEF StatsInv
<1>2. CASE Read /\ UNCHANGED <<db, view, query, walk>>
  <2>1. view \in Views /\ view = "stats" /\ ~Finished
    BY <1>2 DEF Read, DataInv, TypeOK
  <2>2. ~Asked(Statement) /\ (Statement = "executions" => Asked("tokens") /\ Asked("requests"))
    BY <2>1, FirstUnasked, PlanOrder
  <2>3. \A s : Asked(s) => Asked(s)' /\ answer'[s] = answer[s]
    <3> SUFFICES ASSUME NEW s, Asked(s) PROVE Asked(s)' /\ answer'[s] = answer[s]
      OBVIOUS
    <3>1. Asked(s)' /\ s # Statement
      BY <1>2, <2>2 DEF Read, Asked
    <3>2. QED
      BY <1>2, <3>1, ReadAdds DEF Asked
  <2>4. \A s : Asked(s)' => Asked(s) \/ (s = Statement /\ answer'[s] \in Answers(s))
    BY <1>2, ReadAdds DEF Asked
  <2>5. CASE ~Asked("tokens") /\ Asked("tokens")'
    <3>1. answer'["tokens"] = TokenTotals(db, f) /\ Statement = "tokens"
      BY <2>4, <2>5, AnswersTokens
    <3>2. Asked("requests")' => Asked("requests")
      BY <2>4, <3>1
    <3>3. ~Asked("executions")'
      BY <1>2, <2>1, <2>4, <2>5, <3>1 DEF StatsInv
    <3>4. QED
      BY <1>2, <2>1, <2>3, <3>1, <3>2, <3>3, CountsAreParts DEF StatsInv, DataInv
  <2>6. CASE ~Asked("requests") /\ Asked("requests")'
    <3>1. answer'["requests"] = Requests(db, f) /\ Statement = "requests"
      BY <2>4, <2>6, AnswersTokens
    <3>2. Asked("tokens")' => Asked("tokens")
      BY <2>4, <3>1
    <3>3. ~Asked("executions")'
      BY <1>2, <2>1, <2>4, <2>6, <3>1 DEF StatsInv
    <3>4. QED
      BY <1>2, <2>1, <2>3, <3>1, <3>2, <3>3, CountsAreParts DEF StatsInv, DataInv
  <2>7. CASE ~Asked("executions") /\ Asked("executions")'
    <3>1. answer'["executions"] = n /\ Asked("tokens") /\ Asked("requests")
      BY <2>2, <2>4, <2>7, AnswersTotal
    <3>2. QED
      BY <1>2, <2>1, <2>3, <3>1 DEF StatsInv
  <2>8. CASE /\ Asked("tokens")' => Asked("tokens")
             /\ Asked("requests")' => Asked("requests")
             /\ Asked("executions")' => Asked("executions")
    BY <1>2, <2>1, <2>3, <2>8 DEF StatsInv
  <2>9. QED
    BY <2>5, <2>6, <2>7, <2>8
<1>3. CASE DOMAIN answer' = {}
  BY <1>3 DEF StatsInv, Asked
<1>4. QED
  BY <1>1, <1>2, <1>3, OthersKeepAnswers

\* The success, failure and expansion rates of /stats are at most one whatever is
\* committed between its statements (routes_stats.py).
THEOREM StatsAlwaysHoldTogether == Spec => []StatsHoldTogether
<1> DEFINE Inv == DataInv /\ StatsInv
<1>1. Inv => StatsHoldTogether
  BY DEF StatsInv, StatsHoldTogether, Asked
<1>2. Init => Inv
  BY DataInvInit DEF Init, StatsInv
<1>3. Inv /\ [Next]_vars => Inv'
  BY DataInvStep, StatsInvStep
<1>4. QED
  BY <1>1, <1>2, <1>3, PTL DEF Spec

-----------------------------------------------------------------------------
(* The detail of a request.                                                 *)

LEMMA RequestsRanStep == DataInv /\ RequestsRan(db) /\ [Next]_vars => RequestsRan(db)'
<1> SUFFICES ASSUME DataInv, RequestsRan(db), [Next]_vars PROVE RequestsRan(db')
  OBVIOUS
<1>1. ASSUME NEW t \in running, Commit(t) PROVE RequestsRan(db')
  <2> DEFINE c == t.command
             request == RequestRowOf(c, t.began)
             execution == ExecutionRow(c, t.began)
  <2>1. db' = Ingested(db, c, t.began)
    BY <1>1 DEF Commit
  <2>2. /\ db'.requests = FirstWriter(db.requests, {request})
        /\ db'.executions = FirstWriter(db.executions, {execution})
    BY <2>1 DEF Ingested, DataInv, TypeOK, KeysHold, NoRows
  <2>3. /\ request.id = c.request.id /\ execution.id = ExecutionKey(c)
        /\ execution.request = c.request.id /\ ExecutionKey(c)[1] = c.request.id
    BY DEF RequestRowOf, ExecutionRow, ExecutionKey
  <2> HIDE DEF request, execution, c
  <2>4. /\ \A r \in db'.requests : r \in db.requests \/ r = request
        /\ \A e \in db'.executions : e \in db.executions \/ e = execution
        /\ \A e \in db.executions : e \in db'.executions
        /\ \E e \in db'.executions : e.id = execution.id
    BY <2>2 DEF FirstWriter
  <2>5. \A e \in db'.executions : e.id[1] = e.request
    BY <2>3, <2>4 DEF RequestsRan
  <2>6. \E e \in db'.executions : e.request = request.id
    BY <2>3, <2>4, <2>5
  <2>7. \A r \in db'.requests : \E e \in db'.executions : e.request = r.id
    BY <2>4, <2>6 DEF RequestsRan
  <2>8. QED
    BY <2>5, <2>7 DEF RequestsRan
<1>2. ASSUME NEW chunk \in db.chunks, Retrieve(chunk) PROVE RequestsRan(db')
  <2>1. db'.requests = db.requests /\ db'.executions = db.executions
    BY <1>2 DEF Retrieve, Retrieved, DataInv, TypeOK, KeysHold, NoRows
  <2>2. QED
    BY <2>1 DEF RequestsRan
<1>3. CASE db' = db
  BY <1>3
<1>4. QED
  BY <1>1, <1>2, <1>3, ReadSteps DEF vars, Begin, Ask, Read, NextPage, Answered, writeVars

\* What made the request's row there made an execution's.
DetailInv ==
  view = "detail" =>
    /\ Asked("request") =>
         answer["request"] = {} \/ Attempts(db, query.request) # {}
    /\ Asked("attempts") =>
         Asked("request") /\ (answer["request"] = {} \/ answer["attempts"] # {})

LEMMA DetailInvStep ==
  DataInv /\ RequestsRan(db) /\ DetailInv /\ [Next]_vars => DetailInv'
<1> SUFFICES ASSUME DataInv, RequestsRan(db), DetailInv, [Next]_vars, view' = "detail"
             PROVE  DetailInv'
  BY DEF DetailInv
<1> DEFINE request == query.request
<1>1. CASE UNCHANGED <<view, query, answer, walk>>
  <2>1. Attempts(db, request) \subseteq Attempts(db', request)
    BY RowsGrow DEF Attempts, Grown
  <2>2. \A s : Asked(s)' <=> Asked(s)
    BY <1>1 DEF Asked
  <2>3. QED
    BY <1>1, <2>1, <2>2 DEF DetailInv
<1>2. CASE Read /\ UNCHANGED <<db, view, query, walk>>
  <2>1. view \in Views /\ view = "detail" /\ ~Finished
    BY <1>2 DEF Read, DataInv, TypeOK
  <2>2. ~Asked(Statement) /\ (Statement = "attempts" => Asked("request"))
    BY <2>1, FirstUnasked, PlanOrder
  <2>3. \A s : Asked(s) => Asked(s)' /\ answer'[s] = answer[s]
    <3> SUFFICES ASSUME NEW s, Asked(s) PROVE Asked(s)' /\ answer'[s] = answer[s]
      OBVIOUS
    <3>1. Asked(s)' /\ s # Statement
      BY <1>2, <2>2 DEF Read, Asked
    <3>2. QED
      BY <1>2, <3>1, ReadAdds DEF Asked
  <2>4. \A s : Asked(s)' => Asked(s) \/ (s = Statement /\ answer'[s] \in Answers(s))
    BY <1>2, ReadAdds DEF Asked
  <2>5. CASE ~Asked("request") /\ Asked("request")'
    <3>1. answer'["request"] = RequestRow(db, request) /\ Statement = "request"
      BY <2>4, <2>5, AnswersDetail
    <3>2. ~Asked("attempts")'
      BY <1>2, <2>1, <2>4, <2>5, <3>1 DEF DetailInv
    <3>3. RequestRow(db, request) = {} \/ Attempts(db, request) # {}
      BY DEF RequestsRan, RequestRow, Attempts
    <3>4. QED
      BY <1>2, <3>1, <3>2, <3>3 DEF DetailInv
  <2>6. CASE ~Asked("attempts") /\ Asked("attempts")'
    <3>1. answer'["attempts"] = Attempts(db, request) /\ Asked("request")
      BY <2>2, <2>4, <2>6, AnswersDetail
    <3>2. QED
      BY <1>2, <2>1, <2>3, <3>1 DEF DetailInv
  <2>7. CASE (Asked("request")' => Asked("request")) /\ (Asked("attempts")' => Asked("attempts"))
    BY <1>2, <2>1, <2>3, <2>7 DEF DetailInv
  <2>8. QED
    BY <2>5, <2>6, <2>7
<1>3. CASE DOMAIN answer' = {}
  BY <1>3 DEF DetailInv, Asked
<1>4. QED
  BY <1>1, <1>2, <1>3, OthersKeepAnswers

\* A request that is found has an execution although the two were read by two
\* statements: one transaction brought both (ingestion_store.py, repositories.py).
THEOREM DetailAlwaysHoldsTogether == Spec => []DetailHoldsTogether
<1> DEFINE Inv == DataInv /\ RequestsRan(db) /\ DetailInv
<1>1. Inv => DetailHoldsTogether
  BY DEF DetailInv, DetailHoldsTogether
<1>2. Init => Inv
  BY DataInvInit, ReadModelsAssumption DEF Init, DetailInv
<1>3. Inv /\ [Next]_vars => Inv'
  BY DataInvStep, DetailInvStep, RequestsRanStep
<1>4. QED
  BY <1>1, <1>2, <1>3, PTL DEF Spec

-----------------------------------------------------------------------------
(* Sums over finite sets.                                                   *)

\* Of the sets that are bad some is, and none inside it.
LEMMA SmallestSet ==
  ASSUME NEW S, IsFiniteSet(S), NEW Bad \in SUBSET (SUBSET S), Bad # {}
  PROVE  \E T \in Bad : \A U \in SUBSET T : U # T => U \notin Bad
<1>1. IsWellFoundedOn(StrictSubsetOrdering(S), SUBSET S)
  BY FS_StrictSubsetOrderingWellFounded, FS_FiniteSubsetsOfFinite
<1>2. PICK T \in Bad : \A U \in Bad : <<U, T>> \notin StrictSubsetOrdering(S)
  BY <1>1, WFMin
<1>3. \A U \in Bad : U \subseteq T /\ U # T => <<U, T>> \in StrictSubsetOrdering(S)
  BY DEF StrictSubsetOrdering
<1>4. \A U \in SUBSET T : U # T => U \notin Bad
  BY <1>2, <1>3
<1>5. QED
  BY <1>4

\* it[s] adds up v over every subset s of S, an element at a time.
Adds(it, v, S) ==
  it = [s \in SUBSET S |-> IF s = {} THEN 0
                           ELSE v[CHOOSE x \in s : TRUE] + it[s \ {CHOOSE x \in s : TRUE}]]

Whole(v, S) == \A x \in S : v[x] \in Int

\* What the values v add up to over S.
Total(v, S) == (CHOOSE it : Adds(it, v, S))[S]

\* Two that add up the same values agree.
LEMMA AddsAgree ==
  ASSUME NEW S, IsFiniteSet(S), NEW T, NEW v, NEW w, NEW it, Adds(it, v, S),
         NEW jt, Adds(jt, w, T), NEW u \in SUBSET S, u \subseteq T, \A x \in u : v[x] = w[x]
  PROVE  it[u] = jt[u]
<1> DEFINE Bad == {s \in SUBSET u : it[s] # jt[s]}
<1> SUFFICES ASSUME Bad # {} PROVE FALSE
  OBVIOUS
<1>1. IsFiniteSet(u)
  BY FS_Subset
<1> HIDE DEF Bad
<1>2. PICK s \in Bad : \A r \in SUBSET s : r # s => r \notin Bad
  <2>1. Bad \in SUBSET (SUBSET u)
    BY DEF Bad
  <2>2. QED
    BY <1>1, <2>1, SmallestSet
<1>3. s \in SUBSET u /\ it[s] # jt[s] /\ s \in SUBSET S /\ s \in SUBSET T
  BY DEF Bad
<1> DEFINE y == CHOOSE x \in s : TRUE
<1>4. /\ it[s] = IF s = {} THEN 0 ELSE v[y] + it[s \ {y}]
      /\ jt[s] = IF s = {} THEN 0 ELSE w[y] + jt[s \ {y}]
  BY <1>3 DEF Adds
<1>5. s # {}
  BY <1>3, <1>4
<1>6. y \in s /\ v[y] = w[y]
  BY <1>3, <1>5
<1> HIDE DEF y
<1>7. s \ {y} \notin Bad
  BY <1>2, <1>6
<1>8. it[s \ {y}] = jt[s \ {y}]
  BY <1>3, <1>7 DEF Bad
<1>9. QED
  BY <1>3, <1>4, <1>5, <1>6, <1>8

\* The values of a finite set can be added up.
LEMMA AddsExists ==
  ASSUME NEW S, IsFiniteSet(S), NEW v
  PROVE  \E it : Adds(it, v, S)
<1> DEFINE Bad == {T \in SUBSET S : ~ \E it : Adds(it, v, T)}
<1> SUFFICES ASSUME Bad # {} PROVE FALSE
  OBVIOUS
<1>1. PICK T \in SUBSET S : (~ \E it : Adds(it, v, T))
                          /\ \A U \in SUBSET T : U # T => \E it : Adds(it, v, U)
  <2>1. Bad \in SUBSET (SUBSET S)
    OBVIOUS
  <2> HIDE DEF Bad
  <2>2. PICK T \in Bad : \A U \in SUBSET T : U # T => U \notin Bad
    BY <2>1, SmallestSet
  <2>3. T \in SUBSET S /\ \A U \in SUBSET T : U \in SUBSET S
    BY <2>1, <2>2
  <2>4. QED
    BY <2>2, <2>3 DEF Bad
<1> DEFINE c(s) == CHOOSE x \in s : TRUE
           at == [s \in SUBSET T |-> IF s = {} THEN 0 ELSE v[c(s)] + Total(v, s \ {c(s)})]
<1>2. \A s : s # {} => c(s) \in s
  OBVIOUS
<1>3. \A s \in SUBSET T : s # {} => at[s \ {c(s)}] = Total(v, s \ {c(s)})
  <2> SUFFICES ASSUME NEW s \in SUBSET T, s # {}, NEW r, r = s \ {c(s)} PROVE at[r] = Total(v, r)
    OBVIOUS
  <2> DEFINE it == CHOOSE it : Adds(it, v, r)
             d == c(r)
             jt == CHOOSE jt : Adds(jt, v, r \ {d})
  <2>1. r \in SUBSET T /\ r # T /\ r \in SUBSET S
    BY <1>2
  <2>2. Adds(it, v, r)
    BY <1>1, <2>1
  <2>3. it[r] = IF r = {} THEN 0 ELSE v[d] + it[r \ {d}]
    <3> HIDE DEF it
    <3>1. r \in SUBSET r
      OBVIOUS
    <3>2. it = [t \in SUBSET r |-> IF t = {} THEN 0 ELSE v[c(t)] + it[t \ {c(t)}]]
      BY <2>2 DEF Adds
    <3>3. QED
      BY <3>1, <3>2
  <2>4. at[r] = IF r = {} THEN 0 ELSE v[d] + Total(v, r \ {d})
    BY <2>1
  <2>5. Total(v, r) = it[r] /\ Total(v, r \ {d}) = jt[r \ {d}]
    BY DEF Total
  <2>6. ASSUME r # {} PROVE it[r \ {d}] = jt[r \ {d}]
    <3>1. r \ {d} \in SUBSET T /\ r \ {d} # T
      BY <2>1
    <3>2. Adds(jt, v, r \ {d})
      BY <1>1, <3>1
    <3>3. IsFiniteSet(r)
      BY <2>1, FS_Subset
    <3> HIDE DEF it, jt, d
    <3>4. r \ {d} \in SUBSET r /\ r \ {d} \subseteq r \ {d} /\ \A x \in r \ {d} : v[x] = v[x]
      OBVIOUS
    <3>5. QED
      BY <2>2, <3>2, <3>3, <3>4, AddsAgree
  <2> HIDE DEF it, jt, d, at
  <2>7. QED
    BY <2>3, <2>4, <2>5, <2>6
<1>4. Adds(at, v, T)
  <2>1. at = [s \in SUBSET T |-> IF s = {} THEN 0 ELSE v[c(s)] + at[s \ {c(s)}]]
    <3>1. \A s \in SUBSET T : at[s] = IF s = {} THEN 0 ELSE v[c(s)] + at[s \ {c(s)}]
      <4> SUFFICES ASSUME NEW s \in SUBSET T
                   PROVE  at[s] = IF s = {} THEN 0 ELSE v[c(s)] + at[s \ {c(s)}]
        OBVIOUS
      <4>1. at[s] = IF s = {} THEN 0 ELSE v[c(s)] + Total(v, s \ {c(s)})
        OBVIOUS
      <4>2. s # {} => at[s \ {c(s)}] = Total(v, s \ {c(s)})
        BY <1>3
      <4> HIDE DEF at
      <4>3. QED
        BY <4>1, <4>2
    <3>2. at = [s \in SUBSET T |-> at[s]]
      OBVIOUS
    <3> HIDE DEF at
    <3>3. QED
      BY <3>1, <3>2
  <2> HIDE DEF at
  <2>2. QED
    BY <2>1 DEF Adds
<1>5. QED
  BY <1>1, <1>4

\* Adding up leaves no place for the order: any element may go first.
LEMMA AddsAnyFirst ==
  ASSUME NEW S, IsFiniteSet(S), NEW v, Whole(v, S), NEW it, Adds(it, v, S)
  PROVE  \A s \in SUBSET S : it[s] \in Int /\ \A y \in s : it[s] = v[y] + it[s \ {y}]
<1> DEFINE Bad == {s \in SUBSET S : ~(it[s] \in Int /\ \A y \in s : it[s] = v[y] + it[s \ {y}])}
<1> SUFFICES ASSUME Bad # {} PROVE FALSE
  OBVIOUS
<1>1. PICK s \in Bad : \A r \in SUBSET s : r # s => r \notin Bad
  <2>1. Bad \in SUBSET (SUBSET S)
    OBVIOUS
  <2> HIDE DEF Bad
  <2>2. QED
    BY <2>1, SmallestSet
<1>2. s \in SUBSET S /\ ~(it[s] \in Int /\ \A y \in s : it[s] = v[y] + it[s \ {y}])
  BY <1>1
<1>3. \A r \in SUBSET s : r # s => it[r] \in Int /\ \A y \in r : it[r] = v[y] + it[r \ {y}]
  <2> SUFFICES ASSUME NEW r \in SUBSET s, r # s
               PROVE  it[r] \in Int /\ \A y \in r : it[r] = v[y] + it[r \ {y}]
    OBVIOUS
  <2>1. r \in SUBSET S /\ r \notin Bad
    BY <1>1, <1>2
  <2>2. QED
    BY <2>1
<1> HIDE DEF Bad
<1> DEFINE x == CHOOSE x \in s : TRUE
<1>4. it[s] = IF s = {} THEN 0 ELSE v[x] + it[s \ {x}]
  BY <1>2 DEF Adds
<1>5. s # {}
  BY <1>2, <1>4
<1>6. x \in s /\ v[x] \in Int
  BY <1>2, <1>5 DEF Whole
<1> HIDE DEF x
<1>7. it[s \ {x}] \in Int /\ \A y \in s \ {x} : it[s \ {x}] = v[y] + it[(s \ {x}) \ {y}]
  BY <1>3, <1>6
<1>8. it[s] \in Int /\ it[s] = v[x] + it[s \ {x}]
  BY <1>4, <1>5, <1>6, <1>7
<1>9. ASSUME NEW y \in s PROVE it[s] = v[y] + it[s \ {y}]
  <2>1. CASE y = x
    BY <1>8, <2>1
  <2>2. CASE y # x
    <3>1. it[s \ {x}] = v[y] + it[(s \ {x}) \ {y}]
      BY <1>7, <2>2
    <3>2. it[s \ {y}] = v[x] + it[(s \ {y}) \ {x}]
      BY <1>3, <1>6, <2>2
    <3>3. (s \ {x}) \ {y} = (s \ {y}) \ {x} /\ (s \ {x}) \ {y} \in SUBSET s /\ (s \ {x}) \ {y} # s
      BY <1>6
    <3>4. it[(s \ {x}) \ {y}] \in Int /\ v[y] \in Int
      BY <1>2, <1>3, <3>3 DEF Whole
    <3> DEFINE rest == it[(s \ {x}) \ {y}]
    <3>5. /\ it[s \ {x}] = v[y] + rest /\ it[s \ {y}] = v[x] + rest
          /\ it[s] = v[x] + it[s \ {x}] /\ rest \in Int /\ v[x] \in Int /\ v[y] \in Int
      BY <1>6, <1>8, <3>1, <3>2, <3>3, <3>4
    <3> HIDE DEF rest
    <3>6. QED
      BY <3>5
  <2>3. QED
    BY <2>1, <2>2
<1>10. QED
  BY <1>2, <1>8, <1>9

\* What adds up the values of a set adds up those of its parts, too.
LEMMA TotalIsAdded ==
  ASSUME NEW S, IsFiniteSet(S), NEW v, NEW it, Adds(it, v, S), NEW T \in SUBSET S
  PROVE  Total(v, T) = it[T]
<1> DEFINE jt == CHOOSE jt : Adds(jt, v, T)
<1>1. IsFiniteSet(T)
  BY FS_Subset
<1>2. Adds(jt, v, T) /\ Total(v, T) = jt[T]
  BY <1>1, AddsExists DEF Total
<1> HIDE DEF jt
<1>3. T \subseteq T /\ \A x \in T : v[x] = v[x]
  OBVIOUS
<1>4. it[T] = jt[T]
  BY <1>2, <1>3, AddsAgree
<1>5. QED
  BY <1>2, <1>4

LEMMA TotalOfNone ==
  ASSUME NEW v
  PROVE  Total(v, {}) = 0
<1> DEFINE it == CHOOSE it : Adds(it, v, {})
<1>1. IsFiniteSet({})
  BY FS_EmptySet
<1>2. Adds(it, v, {}) /\ Total(v, {}) = it[{}]
  BY <1>1, AddsExists DEF Total
<1> HIDE DEF it
<1>3. QED
  BY <1>2 DEF Adds

LEMMA TotalOfSame ==
  ASSUME NEW S, IsFiniteSet(S), NEW v, NEW w, \A x \in S : v[x] = w[x]
  PROVE  Total(v, S) = Total(w, S)
<1>1. PICK it : Adds(it, v, S)
  BY AddsExists
<1>2. PICK jt : Adds(jt, w, S)
  BY AddsExists
<1>3. S \in SUBSET S
  OBVIOUS
<1>4. \A T \in SUBSET S : T \subseteq S /\ (\A x \in T : v[x] = w[x]) => it[T] = jt[T]
  BY <1>1, <1>2, AddsAgree
<1>5. it[S] = jt[S]
  BY <1>3, <1>4
<1>6. QED
  BY <1>1, <1>2, <1>3, <1>5, TotalIsAdded

LEMMA TotalAnyFirst ==
  ASSUME NEW S, IsFiniteSet(S), NEW v, Whole(v, S)
  PROVE  Total(v, S) \in Int /\ \A y \in S : Total(v, S) = v[y] + Total(v, S \ {y})
<1>1. PICK it : Adds(it, v, S)
  BY AddsExists
<1>2. \A T \in SUBSET S : Total(v, T) = it[T]
  BY <1>1, TotalIsAdded
<1>3. \A s \in SUBSET S : it[s] \in Int /\ \A y \in s : it[s] = v[y] + it[s \ {y}]
  BY <1>1, AddsAnyFirst
<1>4. S \in SUBSET S /\ \A y \in S : S \ {y} \in SUBSET S
  OBVIOUS
<1>5. QED
  BY <1>2, <1>3, <1>4

\* A set's total is that of a part and that of the rest.
LEMMA TotalOfPartAndRest ==
  ASSUME NEW S, IsFiniteSet(S), NEW v, Whole(v, S), NEW A \in SUBSET S
  PROVE  Total(v, S) = Total(v, A) + Total(v, S \ A)
<1> DEFINE rest == S \ A
<1>1. PICK it : Adds(it, v, S)
  BY AddsExists
<1>2. \A s \in SUBSET S : it[s] \in Int /\ \A y \in s : it[s] = v[y] + it[s \ {y}]
  BY <1>1, AddsAnyFirst
<1>3. \A s \in SUBSET S : Total(v, s) = it[s]
  BY <1>1, TotalIsAdded
<1>4. it[{}] = 0
  BY <1>1 DEF Adds
<1> DEFINE Bad == {s \in SUBSET A : it[s \cup rest] # it[s] + it[rest]}
<1>5. Bad = {}
  <2> SUFFICES ASSUME Bad # {} PROVE FALSE
    OBVIOUS
  <2>1. PICK s \in Bad : \A r \in SUBSET s : r # s => r \notin Bad
    <3>1. Bad \in SUBSET (SUBSET A) /\ IsFiniteSet(A)
      BY FS_Subset
    <3> HIDE DEF Bad
    <3>2. QED
      BY <3>1, SmallestSet
  <2>2. s \in SUBSET A /\ it[s \cup rest] # it[s] + it[rest]
    BY <2>1
  <2>3. s # {}
    <3>1. {} \cup rest = rest /\ it[rest] \in Int
      BY <1>2
    <3>2. it[{} \cup rest] = it[{}] + it[rest]
      BY <1>4, <3>1
    <3>3. QED
      BY <2>2, <3>2
  <2>4. PICK y \in s : TRUE
    BY <2>3
  <2>5. s \ {y} \in SUBSET A /\ s \ {y} \notin Bad
    BY <2>1, <2>2
  <2>6. it[(s \ {y}) \cup rest] = it[s \ {y}] + it[rest]
    BY <2>5
  <2>7. (s \cup rest) \ {y} = (s \ {y}) \cup rest /\ s \cup rest \in SUBSET S
    BY <2>2
  <2>8. it[s \cup rest] = v[y] + it[(s \ {y}) \cup rest]
    BY <1>2, <2>7
  <2>9. it[s] = v[y] + it[s \ {y}]
    BY <1>2, <2>2
  <2>10. v[y] \in Int /\ it[s \ {y}] \in Int /\ it[rest] \in Int
    BY <1>2, <2>2, <2>5 DEF Whole
  <2>11. QED
    BY <2>2, <2>6, <2>8, <2>9, <2>10
<1>6. it[A \cup rest] = it[A] + it[rest]
  BY <1>5
<1>7. A \cup rest = S /\ rest \in SUBSET S
  OBVIOUS
<1>8. QED
  BY <1>3, <1>6, <1>7

\* What is not negative adds up to no less over more.
LEMMA TotalOfMore ==
  ASSUME NEW S, IsFiniteSet(S), NEW v, Whole(v, S), \A x \in S : v[x] >= 0, NEW A \in SUBSET S
  PROVE  0 <= Total(v, A) /\ Total(v, A) <= Total(v, S)
<1>1. PICK it : Adds(it, v, S)
  BY AddsExists
<1>2. \A s \in SUBSET S : it[s] \in Int /\ \A y \in s : it[s] = v[y] + it[s \ {y}]
  BY <1>1, AddsAnyFirst
<1>3. \A s \in SUBSET S : Total(v, s) = it[s]
  BY <1>1, TotalIsAdded
<1>4. it[{}] = 0
  BY <1>1 DEF Adds
<1> DEFINE Bad == {s \in SUBSET S : ~(0 <= it[s])}
<1>5. Bad = {}
  <2> SUFFICES ASSUME Bad # {} PROVE FALSE
    OBVIOUS
  <2>1. PICK s \in Bad : \A r \in SUBSET s : r # s => r \notin Bad
    <3>1. Bad \in SUBSET (SUBSET S)
      OBVIOUS
    <3> HIDE DEF Bad
    <3>2. QED
      BY <3>1, SmallestSet
  <2>2. s \in SUBSET S /\ ~(0 <= it[s])
    BY <2>1
  <2>3. PICK y \in s : TRUE
    BY <1>4, <2>2
  <2>4. 0 <= it[s \ {y}]
    BY <2>1, <2>2
  <2>5. it[s] = v[y] + it[s \ {y}] /\ v[y] \in Int /\ v[y] >= 0 /\ it[s \ {y}] \in Int
    BY <1>2, <2>2 DEF Whole
  <2>6. QED
    BY <2>2, <2>4, <2>5
<1>6. Total(v, S) = Total(v, A) + Total(v, S \ A)
  BY TotalOfPartAndRest
<1>7. S \ A \in SUBSET S /\ S \in SUBSET S
  OBVIOUS
<1>8. /\ Total(v, A) = it[A] /\ Total(v, S \ A) = it[S \ A]
      /\ it[A] \in Int /\ it[S \ A] \in Int /\ 0 <= it[A] /\ 0 <= it[S \ A]
  BY <1>2, <1>3, <1>5, <1>7
<1>9. QED
  BY <1>6, <1>8

\* Ones add up to how many they are.
LEMMA TotalOfOnes ==
  ASSUME NEW S, IsFiniteSet(S), NEW v, \A x \in S : v[x] = 1
  PROVE  Total(v, S) = Cardinality(S)
<1>1. PICK it : Adds(it, v, S)
  BY AddsExists
<1>2. Whole(v, S)
  BY DEF Whole
<1>3. \A s \in SUBSET S : it[s] \in Int /\ \A y \in s : it[s] = v[y] + it[s \ {y}]
  BY <1>1, <1>2, AddsAnyFirst
<1>4. it[{}] = 0
  BY <1>1 DEF Adds
<1> DEFINE Bad == {s \in SUBSET S : it[s] # Cardinality(s)}
<1>5. Bad = {}
  <2> SUFFICES ASSUME Bad # {} PROVE FALSE
    OBVIOUS
  <2>1. PICK s \in Bad : \A r \in SUBSET s : r # s => r \notin Bad
    <3>1. Bad \in SUBSET (SUBSET S)
      OBVIOUS
    <3> HIDE DEF Bad
    <3>2. QED
      BY <3>1, SmallestSet
  <2>2. s \in SUBSET S /\ it[s] # Cardinality(s)
    BY <2>1
  <2>3. PICK y \in s : TRUE
    BY <1>4, <2>2, FS_EmptySet
  <2>4. it[s \ {y}] = Cardinality(s \ {y})
    BY <2>1, <2>2
  <2>5. it[s] = 1 + it[s \ {y}]
    BY <1>3, <2>2
  <2>6. IsFiniteSet(s)
    BY <2>2, FS_Subset
  <2>7. Cardinality(s \ {y}) = Cardinality(s) - 1 /\ Cardinality(s) \in Nat
    BY <2>6, FS_RemoveElement, FS_CardinalityType
  <2>8. QED
    BY <2>2, <2>4, <2>5, <2>7
<1>6. S \in SUBSET S
  OBVIOUS
<1>7. it[S] = Cardinality(S)
  BY <1>5, <1>6
<1>8. QED
  BY <1>1, <1>6, <1>7, TotalIsAdded

\* The totals of the groups of a set add up to the total of the set.
LEMMA TotalOfGroups ==
  ASSUME NEW S, IsFiniteSet(S), NEW v, Whole(v, S), NEW R, IsFiniteSet(R), NEW g \in [S -> R],
         NEW w, \A r \in R : w[r] = Total(v, {x \in S : g[x] = r})
  PROVE  Total(w, R) = Total(v, S)
<1> DEFINE In(q) == {x \in S : g[x] \in q}
<1>1. \A s \in SUBSET S : IsFiniteSet(s) /\ Whole(v, s)
  BY FS_Subset DEF Whole
<1>2. \A s \in SUBSET S : Total(v, s) \in Int
  BY <1>1, TotalAnyFirst
<1>3. Whole(w, R)
  <2>1. \A r \in R : {x \in S : g[x] = r} \in SUBSET S
    OBVIOUS
  <2>2. QED
    BY <1>2, <2>1 DEF Whole
<1>4. PICK jt : Adds(jt, w, R)
  BY AddsExists
<1>5. \A q \in SUBSET R : jt[q] \in Int /\ \A y \in q : jt[q] = w[y] + jt[q \ {y}]
  BY <1>3, <1>4, AddsAnyFirst
<1>6. jt[{}] = 0
  BY <1>4 DEF Adds
<1> DEFINE Bad == {q \in SUBSET R : jt[q] # Total(v, In(q))}
<1>7. Bad = {}
  <2> SUFFICES ASSUME Bad # {} PROVE FALSE
    OBVIOUS
  <2>1. PICK q \in Bad : \A r \in SUBSET q : r # q => r \notin Bad
    <3>1. Bad \in SUBSET (SUBSET R)
      OBVIOUS
    <3> HIDE DEF Bad
    <3>2. QED
      BY <3>1, SmallestSet
  <2>2. q \in SUBSET R /\ jt[q] # Total(v, In(q))
    BY <2>1
  <2>3. q # {}
    <3>1. In({}) = {}
      OBVIOUS
    <3>2. jt[{}] = Total(v, In({}))
      BY <1>6, <3>1, TotalOfNone
    <3> HIDE DEF In
    <3>3. QED
      BY <2>2, <3>2
  <2>4. PICK r \in q : TRUE
    BY <2>3
  <2>5. q \ {r} \in SUBSET R /\ q \ {r} \notin Bad
    BY <2>1, <2>2
  <2>6. jt[q \ {r}] = Total(v, In(q \ {r}))
    BY <2>5
  <2> DEFINE A == {x \in S : g[x] = r}
  <2>7. /\ In(q) \in SUBSET S /\ A \in SUBSET In(q) /\ In(q) \ A = In(q \ {r})
        /\ A \in SUBSET S /\ In(q \ {r}) \in SUBSET S
    OBVIOUS
  <2>8. w[r] = Total(v, A) /\ jt[q] = w[r] + jt[q \ {r}]
    BY <1>5, <2>2
  <2> HIDE DEF In, A, Bad
  <2>9. Total(v, In(q)) = Total(v, A) + Total(v, In(q \ {r}))
    <3>1. IsFiniteSet(In(q)) /\ Whole(v, In(q))
      BY <1>1, <2>7
    <3>2. Total(v, In(q)) = Total(v, A) + Total(v, In(q) \ A)
      BY <2>7, <3>1, TotalOfPartAndRest
    <3>3. QED
      BY <2>7, <3>2
  <2>10. QED
    BY <2>2, <2>6, <2>8, <2>9
<1>8. R \in SUBSET R /\ In(R) = S
  OBVIOUS
<1>9. jt[R] = Total(v, In(R))
  BY <1>7, <1>8
<1> HIDE DEF In
<1>10. QED
  BY <1>4, <1>8, <1>9, TotalIsAdded

Of(field, S) == [r \in S |-> r[field]]

SumOf(field, S) == MapThenSumSet(LAMBDA r : r[field], S)

\* The sum over a field is its total.
LEMMA SumIsTotal ==
  ASSUME NEW S, IsFiniteSet(S), NEW field
  PROVE  SumOf(field, S) = Total(Of(field, S), S)
<1> DEFINE F(it) == [s \in SUBSET S |-> IF s = {} THEN 0
                       ELSE LET x == CHOOSE x \in s : TRUE IN x[field] + it[s \ {x}]]
           it == CHOOSE it : it = F(it)
           v == Of(field, S)
<1>1. \A jt : F(jt) = [s \in SUBSET S |-> IF s = {} THEN 0
                         ELSE v[CHOOSE x \in s : TRUE] + jt[s \ {CHOOSE x \in s : TRUE}]]
  BY DEF Of
<1>2. PICK jt : jt = F(jt)
  <2>1. PICK jt : Adds(jt, v, S)
    BY AddsExists
  <2>2. jt = [s \in SUBSET S |-> IF s = {} THEN 0
                ELSE v[CHOOSE x \in s : TRUE] + jt[s \ {CHOOSE x \in s : TRUE}]]
    BY <2>1 DEF Adds
  <2> HIDE DEF v, F
  <2>3. jt = F(jt)
    BY <1>1, <2>2
  <2>4. QED
    BY <2>3
<1>3. it = F(it)
  BY <1>2
<1>4. SumOf(field, S) = it[S]
  BY DEF SumOf, MapThenSumSet, MapThenFoldSet
<1> HIDE DEF it, v
<1>5. Adds(it, v, S)
  BY <1>1, <1>3 DEF Adds
<1>6. S \in SUBSET S
  OBVIOUS
<1>7. QED
  BY <1>4, <1>5, <1>6, TotalIsAdded DEF v

-----------------------------------------------------------------------------
(* What the usage rows tell.                                                *)

\* The usage rows are finitely many, and the figures of the rows are counts.
FiguresInv == FiguresHold(db) /\ IsFiniteSet(db.usages)

LEMMA FiguresInvInit == Init => FiguresInv
<1>1. "usages" \in DOMAIN Earlier
  BY ReadModelsAssumption DEF KeysHold, NoRows
<1>2. QED
  BY <1>1, ReadModelsAssumption DEF Init, FiguresInv

\* What a transaction adds, it was told.
LEMMA FiguresIngested ==
  ASSUME NEW d, KeysHold(d), FiguresHold(d), IsFiniteSet(d.usages), NEW c \in Commands, NEW now
  PROVE  /\ FiguresHold(Ingested(d, c, now)) /\ IsFiniteSet(Ingested(d, c, now).usages)
         /\ d.usages \subseteq Ingested(d, c, now).usages
<1> DEFINE later == Ingested(d, c, now)
           new(k) == {UsageRow(c, k, u) : u \in k.usages}
           news == {new(k) : k \in c.calls}
           request == RequestRowOf(c, now)
           execution == ExecutionRow(c, now)
<1>1. DOMAIN d = {"requests", "executions", "chunks", "calls", "usages", "costs",
                  "activities", "retrievals"}
  BY DEF KeysHold, NoRows
<1>2. /\ later.requests = FirstWriter(d.requests, {request})
      /\ later.executions = FirstWriter(d.executions, {execution})
      /\ later.usages = d.usages \cup UNION news
  BY <1>1 DEF Ingested
<1>3. /\ request.ended = c.request.ended /\ execution.original = c.original
      /\ execution.duration = c.duration /\ execution.saved = c.saved
      /\ \A k, u : UsageRow(c, k, u).input = u.input /\ UsageRow(c, k, u).cached = u.cached
  BY DEF RequestRowOf, ExecutionRow, UsageRow
<1> HIDE DEF later, request, execution
<1>4. /\ \A e \in later.executions : e \in d.executions \/ e = execution
      /\ \A r \in later.requests : r \in d.requests \/ r = request
  BY <1>2 DEF FirstWriter
<1>5. \A u \in later.usages : u \in d.usages
                              \/ \E k \in c.calls : \E n \in k.usages : u = UsageRow(c, k, n)
  BY <1>2
<1>6. FiguresHold(later)
  <2>1. \A e \in later.executions : /\ CountOrNone(e.original) /\ CountOrNone(e.duration)
                                    /\ e.saved = None \/ e.saved \in Int
    BY <1>3, <1>4, ReadModelsAssumption DEF FiguresHold
  <2>2. \A r \in later.requests : r.ended = None \/ r.ended \in Int
    BY <1>3, <1>4, ReadModelsAssumption DEF FiguresHold
  <2>3. \A u \in later.usages : CountOrNone(u.input) /\ CountOrNone(u.cached)
    BY <1>3, <1>5, ReadModelsAssumption DEF FiguresHold
  <2>4. QED
    BY <2>1, <2>2, <2>3 DEF FiguresHold
<1>7. \A k \in c.calls : IsFiniteSet(new(k))
  <2> SUFFICES ASSUME NEW k \in c.calls PROVE IsFiniteSet(new(k))
    OBVIOUS
  <2> DEFINE g == [u \in k.usages |-> UsageRow(c, k, u)]
             N == new(k)
  <2>1. IsFiniteSet(k.usages)
    BY ReadModelsAssumption
  <2>2. g \in [k.usages -> N] /\ \A n \in N : \E u \in k.usages : g[u] = n
    OBVIOUS
  <2> HIDE DEF g, N
  <2>3. IsFiniteSet(N)
    BY <2>1, <2>2, ImageIsFinite
  <2>4. QED
    BY <2>3 DEF N
<1>8. IsFiniteSet(UNION news)
  <2> DEFINE g == [k \in c.calls |-> new(k)]
  <2>1. g \in [c.calls -> news] /\ \A n \in news : \E k \in c.calls : g[k] = n
    OBVIOUS
  <2>2. \A n \in news : IsFiniteSet(n)
    BY <1>7
  <2>3. IsFiniteSet(c.calls)
    BY ReadModelsAssumption
  <2> HIDE DEF g, news
  <2>4. IsFiniteSet(news)
    BY <2>1, <2>3, ImageIsFinite
  <2>5. QED
    BY <2>2, <2>4, FS_UNION
<1>9. IsFiniteSet(later.usages) /\ d.usages \subseteq later.usages
  <2> DEFINE added == UNION news
  <2>1. later.usages = d.usages \cup added /\ IsFiniteSet(added)
    BY <1>2, <1>8
  <2> HIDE DEF added, news
  <2>2. QED
    BY <2>1, FS_Union
<1>10. QED
  BY <1>6, <1>9 DEF later

\* What a step does to the usage rows: it adds some, and never drops one.
LEMMA FiguresInvStep ==
  DataInv /\ FiguresInv /\ [Next]_vars => FiguresInv' /\ db.usages \subseteq db'.usages
<1> SUFFICES ASSUME DataInv, FiguresInv, [Next]_vars
             PROVE  FiguresInv' /\ db.usages \subseteq db'.usages
  OBVIOUS
<1>1. ASSUME NEW t \in running, Commit(t) PROVE FiguresInv' /\ db.usages \subseteq db'.usages
  <2>1. db' = Ingested(db, t.command, t.began) /\ t.command \in Commands /\ KeysHold(db)
    BY <1>1 DEF Commit, DataInv, TypeOK
  <2>2. QED
    BY <2>1, FiguresIngested DEF FiguresInv
<1>2. ASSUME NEW chunk \in db.chunks, Retrieve(chunk)
      PROVE  FiguresInv' /\ db.usages \subseteq db'.usages
  <2>1. /\ db'.requests = db.requests /\ db'.executions = db.executions
        /\ db'.usages = db.usages
    BY <1>2 DEF Retrieve, Retrieved, DataInv, TypeOK, KeysHold, NoRows
  <2>2. QED
    BY <2>1 DEF FiguresInv, FiguresHold
<1>3. CASE db' = db
  BY <1>3 DEF FiguresInv
<1>4. QED
  BY <1>1, <1>2, <1>3, ReadSteps DEF vars, Begin, Ask, Read, NextPage, Answered, writeVars

-----------------------------------------------------------------------------
(* SUM in SQL.                                                              *)

\* Of the rows that have a value, what a SUM adds up.
Having(field, S) == {r \in S : r[field] # None}

\* A field in which a row has nothing or an integer.
Tells(field, S) == \A r \in S : r[field] = None \/ r[field] \in Int

SumOver(field, S) == Sum(S, LAMBDA r : r[field])

\* SUM over rows is the total of the values there are.
LEMMA SumSkipsNull ==
  ASSUME NEW S, IsFiniteSet(S), NEW field, Tells(field, S)
  PROVE  LET some == Having(field, S)
         IN /\ IsFiniteSet(some) /\ Whole(Of(field, some), some)
            /\ SumOver(field, S) = Total(Of(field, some), some)
            /\ SumOver(field, S) \in Int
<1> DEFINE some == Having(field, S)
<1>1. some \in SUBSET S
  BY DEF Having
<1>2. IsFiniteSet(some)
  BY <1>1, FS_Subset
<1>3. Whole(Of(field, some), some)
  BY DEF Whole, Of, Having, Tells
<1>4. Total(Of(field, some), some) \in Int
  BY <1>2, <1>3, TotalAnyFirst
<1>5. SumOver(field, S) = OrZero(IF some = {} THEN None ELSE SumOf(field, some))
  BY DEF SumOver, Sum, SumOrNone, SumOf, MapThenSumSet, MapThenFoldSet, Having
<1> HIDE DEF some
<1>6. SumOf(field, some) = Total(Of(field, some), some)
  BY <1>2, SumIsTotal
<1>7. some = {} => Total(Of(field, some), some) = 0
  BY TotalOfNone
<1>8. None \notin Int
  BY ReadModelsAssumption
<1>9. SumOver(field, S) = Total(Of(field, some), some)
  BY <1>4, <1>5, <1>6, <1>7, <1>8 DEF OrZero
<1>10. QED
  BY <1>2, <1>3, <1>4, <1>9 DEF some

\* Of a finite set of rows some, as many as are asked for, save most.
LEMMA TopExists ==
  ASSUME NEW R, IsFiniteSet(R), \A r \in R : r.saved \in Int,
         NEW n \in Nat, n <= Cardinality(R)
  PROVE  \E top \in kSubset(n, R) : \A r \in top, s \in R \ top : r.saved >= s.saved
<1> DEFINE Tops == {T \in SUBSET R : /\ \A r \in T, s \in R \ T : r.saved >= s.saved
                                     /\ n <= Cardinality(T)}
<1>1. R \in Tops
  OBVIOUS
<1>2. PICK T \in Tops : \A U \in SUBSET T : U # T => U \notin Tops
  <2>1. Tops \in SUBSET (SUBSET R)
    OBVIOUS
  <2> HIDE DEF Tops
  <2>2. QED
    BY <1>1, <2>1, SmallestSet
<1>3. /\ T \in SUBSET R /\ n <= Cardinality(T)
      /\ \A r \in T, s \in R \ T : r.saved >= s.saved
  BY <1>2
<1>4. IsFiniteSet(T) /\ Cardinality(T) \in Nat
  BY <1>3, FS_Subset, FS_CardinalityType
<1>5. ASSUME n < Cardinality(T) PROVE FALSE
  <2>1. T # {}
    BY <1>5, FS_EmptySet
  <2> DEFINE Saved == {r.saved : r \in T}
             f == [r \in T |-> r.saved]
  <2>2. IsFiniteSet(Saved)
    <3>1. f \in [T -> Saved] /\ \A l \in Saved : \E r \in T : f[r] = l
      OBVIOUS
    <3> HIDE DEF f, Saved
    <3>2. QED
      BY <1>4, <3>1, ImageIsFinite
  <2>3. Saved \subseteq Int /\ Saved # {}
    BY <1>3, <2>1
  <2>4. Min(Saved) \in Saved /\ \A x \in Saved : Min(Saved) <= x
    <3> HIDE DEF Saved
    <3>1. QED
      BY <2>2, <2>3, FiniteHasMin
  <2>5. PICK m \in T : Min(Saved) = m.saved
    BY <2>4
  <2>6. \A r \in T : r.saved >= m.saved
    <3>1. \A r \in T : m.saved <= r.saved /\ r.saved \in Int /\ m.saved \in Int
      BY <1>3, <2>4, <2>5
    <3>2. QED
      BY <3>1
  <2> HIDE DEF Saved
  <2>7. Cardinality(T \ {m}) = Cardinality(T) - 1
    BY <1>4, FS_RemoveElement
  <2>8. n <= Cardinality(T \ {m})
    BY <1>4, <1>5, <2>7
  <2>9. \A r \in T \ {m}, s \in R \ (T \ {m}) : r.saved >= s.saved
    BY <1>3, <2>6
  <2>10. T \ {m} \in Tops
    BY <1>3, <2>8, <2>9
  <2>11. QED
    BY <1>2, <2>10
<1>6. Cardinality(T) = n
  BY <1>3, <1>4, <1>5
<1>7. T \in kSubset(n, R)
  BY <1>3, <1>6 DEF kSubset
<1>8. QED
  BY <1>3, <1>7

-----------------------------------------------------------------------------
(* Breakdowns *)

\* The executions of a group, its row, and the rows of all groups.
Group(d, f, by, e) == {x \in Matching(d, f) : Dimension(d, by, x) = Dimension(d, by, e)}
RowOf(d, f, by, e) == BreakdownRow(Dimension(d, by, e), Group(d, f, by, e))
Rows(d, f, by) == {RowOf(d, f, by, e) : e \in Matching(d, f)}

LEMMA MatchingTells ==
  ASSUME NEW d, Finite(d), FiguresHold(d), NEW f
  PROVE  /\ IsFiniteSet(Matching(d, f))
         /\ \A S \in SUBSET Matching(d, f) : IsFiniteSet(S) /\ Tells("saved", S)
<1>1. Matching(d, f) \in SUBSET d.executions
  BY DEF Matching
<1>2. IsFiniteSet(Matching(d, f))
  BY <1>1, FS_Subset DEF Finite
<1>3. QED
  BY <1>1, <1>2, FS_Subset DEF FiguresHold, Tells

LEMMA RowFigures ==
  ASSUME NEW value, NEW S
  PROVE  LET row == BreakdownRow(value, S)
         IN /\ row.value = value
            /\ row.executions = Cardinality(S)
            /\ row.saved = SumOver("saved", S)
            /\ row.negative = Cardinality({e \in S : Negative(e)})
<1>1. /\ BreakdownRow(value, S).value = value
      /\ BreakdownRow(value, S).executions = Cardinality(S)
  BY DEF BreakdownRow
<1>2. BreakdownRow(value, S).negative = Cardinality({e \in S : Negative(e)})
  BY DEF BreakdownRow, Count
<1>3. BreakdownRow(value, S).saved = SumOver("saved", S)
  BY DEF BreakdownRow, SumOver, Sum, SumOrNone, MapThenSumSet, MapThenFoldSet
<1>4. QED
  BY <1>1, <1>2, <1>3

\* A breakdown has the rows of all groups, or as many as it may have.
LEMMA BreakdownRows ==
  ASSUME NEW d, Finite(d), FiguresHold(d), NEW f, NEW by
  PROVE  /\ IsFiniteSet(Rows(d, f, by))
         /\ Breakdown(d, f, by) \subseteq Rows(d, f, by)
         /\ Cardinality(Breakdown(d, f, by)) < BreakdownLimit =>
              Breakdown(d, f, by) = Rows(d, f, by)
<1> DEFINE M == Matching(d, f)
           R == Rows(d, f, by)
<1>1. IsFiniteSet(R)
  <2> DEFINE g == [e \in M |-> RowOf(d, f, by, e)]
  <2>1. g \in [M -> R] /\ \A r \in R : \E e \in M : g[e] = r
    BY DEF Rows
  <2>2. IsFiniteSet(M)
    BY MatchingTells
  <2> HIDE DEF g, M, R
  <2>3. QED
    BY <2>1, <2>2, ImageIsFinite
<1>2. {BreakdownRow(v, {e \in M : Dimension(d, by, e) = v}) : v \in {Dimension(d, by, e) : e \in M}} = R
  BY DEF Rows, RowOf, Group
<1>3. Breakdown(d, f, by) =
        IF Cardinality(R) <= BreakdownLimit THEN R
        ELSE CHOOSE top \in kSubset(BreakdownLimit, R) :
               \A r \in top, s \in R \ top : r.saved >= s.saved
  <2> DEFINE all == {BreakdownRow(v, {e \in Matching(d, f) : Dimension(d, by, e) = v}) :
                       v \in {Dimension(d, by, e) : e \in Matching(d, f)}}
  <2>1. Breakdown(d, f, by) =
          IF Cardinality(all) <= BreakdownLimit THEN all
          ELSE CHOOSE top \in kSubset(BreakdownLimit, all) :
                 \A r \in top, s \in all \ top : r.saved >= s.saved
    BY DEF Breakdown
  <2>2. all = R
    BY <1>2
  <2> HIDE DEF all, R
  <2>3. QED
    BY <2>1, <2>2
<1>4. \A r \in R : r.saved \in Int
  <2> SUFFICES ASSUME NEW e \in M PROVE RowOf(d, f, by, e).saved \in Int
    BY DEF Rows
  <2>1. IsFiniteSet(Group(d, f, by, e)) /\ Tells("saved", Group(d, f, by, e))
    <3>1. Group(d, f, by, e) \in SUBSET Matching(d, f)
      BY DEF Group
    <3>2. QED
      BY <3>1, MatchingTells
  <2>2. SumOver("saved", Group(d, f, by, e)) \in Int
    BY <2>1, SumSkipsNull
  <2>3. QED
    BY <2>2, RowFigures DEF RowOf
<1>5. BreakdownLimit \in Nat
  BY ReadModelsAssumption
<1> HIDE DEF R
<1>6. CASE Cardinality(R) <= BreakdownLimit
  BY <1>1, <1>3, <1>6 DEF R
<1>7. CASE ~(Cardinality(R) <= BreakdownLimit)
  <2>1. Cardinality(R) \in Nat
    BY <1>1, FS_CardinalityType
  <2>2. \E top \in kSubset(BreakdownLimit, R) : \A r \in top, s \in R \ top : r.saved >= s.saved
    BY <1>1, <1>4, <1>5, <1>7, <2>1, TopExists
  <2>3. Breakdown(d, f, by) \in kSubset(BreakdownLimit, R)
    BY <1>3, <1>7, <2>2
  <2>4. Breakdown(d, f, by) \subseteq R /\ Cardinality(Breakdown(d, f, by)) = BreakdownLimit
    BY <2>3 DEF kSubset
  <2>5. QED
    BY <1>1, <1>5, <2>4 DEF R
<1>8. QED
  BY <1>6, <1>7

\* What is told of the executions of every group adds up to what is told of all.
LEMMA GroupsAddUp ==
  ASSUME NEW d, Finite(d), FiguresHold(d), NEW f, NEW by,
         NEW A \in SUBSET Matching(d, f), NEW v, Whole(v, A),
         NEW w, \A e \in Matching(d, f) :
                  w[RowOf(d, f, by, e)] = Total(v, A \cap Group(d, f, by, e))
  PROVE  Total(w, Rows(d, f, by)) = Total(v, A)
<1> DEFINE R == Rows(d, f, by)
           g == [x \in A |-> RowOf(d, f, by, x)]
<1>1. IsFiniteSet(A) /\ IsFiniteSet(R)
  BY MatchingTells, BreakdownRows
<1>2. g \in [A -> R]
  BY DEF Rows
<1>3. ASSUME NEW r \in R PROVE w[r] = Total(v, {x \in A : g[x] = r})
  <2>1. PICK e \in Matching(d, f) : r = RowOf(d, f, by, e)
    BY DEF Rows
  <2>2. \A x \in Matching(d, f) : RowOf(d, f, by, x) = r => x \in Group(d, f, by, e)
    <3>1. \A x : RowOf(d, f, by, x).value = Dimension(d, by, x)
      BY RowFigures DEF RowOf
    <3>2. QED
      BY <2>1, <3>1 DEF Group
  <2>3. \A x \in Group(d, f, by, e) : RowOf(d, f, by, x) = r
    BY <2>1 DEF Group, RowOf
  <2>4. {x \in A : g[x] = r} = A \cap Group(d, f, by, e)
    BY <2>2, <2>3
  <2>5. QED
    BY <2>1, <2>4
<1> HIDE DEF R, g
<1>4. Total(w, R) = Total(v, A)
  BY <1>1, <1>2, <1>3, TotalOfGroups
<1>5. QED
  BY <1>4 DEF R

\* A breakdown counts no execution twice, and with all its groups misses none.
LEMMA BreakdownAddsUp ==
  ASSUME NEW d, Finite(d), FiguresHold(d), NEW f, NEW by
  PROVE  LET rows == Breakdown(d, f, by)
         IN /\ SumExecutions(rows) \in Nat /\ SumExecutions(rows) <= Executions(d, f)
            /\ Cardinality(rows) < BreakdownLimit =>
                 /\ SumExecutions(rows) = Executions(d, f)
                 /\ MapThenSumSet(LAMBDA r : r.saved, rows) = TokenTotals(d, f).saved
                 /\ MapThenSumSet(LAMBDA r : r.negative, rows) = TokenTotals(d, f).negative
<1> DEFINE M == Matching(d, f)
           R == Rows(d, f, by)
           b == Breakdown(d, f, by)
           negatives == {e \in M : Negative(e)}
           one == [e \in M |-> 1]
<1>1. /\ IsFiniteSet(M) /\ IsFiniteSet(R) /\ b \in SUBSET R /\ IsFiniteSet(b)
      /\ Cardinality(b) < BreakdownLimit => b = R
  BY MatchingTells, BreakdownRows, FS_Subset
<1>2. \A e \in M : LET row == RowOf(d, f, by, e)
                       G == Group(d, f, by, e)
                   IN /\ G \in SUBSET M
                      /\ row.executions = Cardinality(G)
                      /\ row.saved = SumOver("saved", G)
                      /\ row.negative = Cardinality({x \in G : Negative(x)})
  BY RowFigures DEF RowOf, Group
<1>3. \A S \in SUBSET M : Total(one, S) = Cardinality(S) /\ Whole(one, S) /\ IsFiniteSet(S)
  <2> SUFFICES ASSUME NEW S \in SUBSET M
               PROVE  Total(one, S) = Cardinality(S) /\ Whole(one, S) /\ IsFiniteSet(S)
    OBVIOUS
  <2>1. IsFiniteSet(S)
    BY <1>1, FS_Subset
  <2>2. \A x \in S : one[x] = 1
    OBVIOUS
  <2>3. Whole(one, S)
    BY <2>2 DEF Whole
  <2> HIDE DEF one, M
  <2>4. QED
    BY <2>1, <2>2, <2>3, TotalOfOnes
<1>4. Total(Of("executions", R), R) = Cardinality(M)
  <2>1. \A e \in M : Of("executions", R)[RowOf(d, f, by, e)]
                       = Total(one, M \cap Group(d, f, by, e))
    <3> SUFFICES ASSUME NEW e \in M
                 PROVE  Of("executions", R)[RowOf(d, f, by, e)]
                          = Total(one, M \cap Group(d, f, by, e))
      OBVIOUS
    <3>1. RowOf(d, f, by, e) \in R
      BY DEF Rows
    <3>2. M \cap Group(d, f, by, e) = Group(d, f, by, e) /\ Group(d, f, by, e) \in SUBSET M
      BY <1>2
    <3> HIDE DEF M, R, one
    <3>3. QED
      BY <1>2, <1>3, <3>1, <3>2 DEF Of
  <2>2. M \in SUBSET Matching(d, f) /\ Whole(one, M)
    BY <1>3
  <2> DEFINE w == Of("executions", R)
  <2> HIDE DEF one, w
  <2>3. Total(w, R) = Total(one, M)
    BY <2>1, <2>2, GroupsAddUp DEF w
  <2>4. QED
    BY <1>3, <2>3 DEF w
<1>5. Total(Of("negative", R), R) = Cardinality(negatives)
  <2>1. \A e \in M : Of("negative", R)[RowOf(d, f, by, e)]
                       = Total(one, negatives \cap Group(d, f, by, e))
    <3> SUFFICES ASSUME NEW e \in M
                 PROVE  Of("negative", R)[RowOf(d, f, by, e)]
                          = Total(one, negatives \cap Group(d, f, by, e))
      OBVIOUS
    <3>1. RowOf(d, f, by, e) \in R
      BY DEF Rows
    <3>2. negatives \cap Group(d, f, by, e) = {x \in Group(d, f, by, e) : Negative(x)}
      BY <1>2
    <3>3. negatives \cap Group(d, f, by, e) \in SUBSET M
      OBVIOUS
    <3> HIDE DEF M, R, one, negatives
    <3>4. QED
      BY <1>2, <1>3, <3>1, <3>2, <3>3 DEF Of
  <2>2. negatives \in SUBSET Matching(d, f) /\ Whole(one, negatives)
    BY <1>3
  <2> DEFINE w == Of("negative", R)
  <2> HIDE DEF one, w, negatives
  <2>3. Total(w, R) = Total(one, negatives)
    BY <2>1, <2>2, GroupsAddUp DEF w
  <2>4. QED
    BY <1>3, <2>2, <2>3 DEF w
<1>6. Total(Of("saved", R), R) = SumOver("saved", M)
  <2> DEFINE A == Having("saved", M)
             v == Of("saved", A)
             w == Of("saved", R)
  <2>1. M \in SUBSET M /\ Tells("saved", M)
    BY MatchingTells
  <2>2. A \in SUBSET Matching(d, f) /\ Whole(v, A) /\ SumOver("saved", M) = Total(v, A)
    BY <1>1, <2>1, SumSkipsNull DEF Having
  <2>3. \A e \in M : w[RowOf(d, f, by, e)] = Total(v, A \cap Group(d, f, by, e))
    <3> SUFFICES ASSUME NEW e \in M
                 PROVE  w[RowOf(d, f, by, e)] = Total(v, A \cap Group(d, f, by, e))
      OBVIOUS
    <3> DEFINE G == Group(d, f, by, e)
    <3>1. RowOf(d, f, by, e) \in R
      BY DEF Rows
    <3>2. w[RowOf(d, f, by, e)] = SumOver("saved", G)
      BY <1>2, <3>1 DEF Of
    <3>3. G \in SUBSET M /\ IsFiniteSet(G) /\ Tells("saved", G)
      BY <1>2, MatchingTells
    <3>4. SumOver("saved", G) = Total(Of("saved", Having("saved", G)), Having("saved", G))
          /\ IsFiniteSet(Having("saved", G))
      <4> HIDE DEF G
      <4>1. QED
        BY <3>3, SumSkipsNull
    <3>5. Having("saved", G) = A \cap G
      BY <3>3 DEF Having
    <3>6. \A x \in A \cap G : Of("saved", Having("saved", G))[x] = v[x]
      BY <3>5 DEF Of
    <3> HIDE DEF A, v, w, G
    <3>7. Total(Of("saved", Having("saved", G)), A \cap G) = Total(v, A \cap G)
      BY <3>4, <3>5, <3>6, TotalOfSame
    <3>8. QED
      BY <3>2, <3>4, <3>5, <3>7 DEF G
  <2> HIDE DEF A, v, w, R, M
  <2>4. Total(w, R) = Total(v, A)
    BY <2>2, <2>3, GroupsAddUp DEF M, R
  <2>5. QED
    BY <2>2, <2>4 DEF w
<1>7. /\ SumExecutions(b) = Total(Of("executions", b), b)
      /\ SumOf("saved", b) = Total(Of("saved", b), b)
      /\ SumOf("negative", b) = Total(Of("negative", b), b)
  <2>1. SumExecutions(b) = SumOf("executions", b)
    BY DEF SumExecutions, SumOf, MapThenSumSet, MapThenFoldSet
  <2> HIDE DEF b
  <2>2. QED
    BY <1>1, <2>1, SumIsTotal
<1>8. SumExecutions(b) \in Nat /\ SumExecutions(b) <= Executions(d, f)
  <2> DEFINE w == Of("executions", R)
  <2>1. \A r \in R : w[r] \in Nat
    <3> SUFFICES ASSUME NEW e \in M PROVE w[RowOf(d, f, by, e)] \in Nat
      BY DEF Rows
    <3>1. RowOf(d, f, by, e) \in R
      BY DEF Rows
    <3>2. IsFiniteSet(Group(d, f, by, e))
      BY <1>2, <1>3
    <3>3. QED
      BY <1>2, <3>1, <3>2, FS_CardinalityType DEF Of
  <2>2. Whole(w, R) /\ \A r \in R : w[r] >= 0
    BY <2>1 DEF Whole
  <2>3. \A x \in b : Of("executions", b)[x] = w[x]
    BY <1>1 DEF Of
  <2> HIDE DEF w, R, b, M
  <2>4. Total(Of("executions", b), b) = Total(w, b)
    BY <1>1, <2>3, TotalOfSame
  <2>5. 0 <= Total(w, b) /\ Total(w, b) <= Total(w, R)
    BY <1>1, <2>2, TotalOfMore
  <2>6. Total(w, b) \in Int
    <3>1. Whole(w, b)
      BY <1>1, <2>2 DEF Whole
    <3>2. QED
      BY <1>1, <3>1, TotalAnyFirst
  <2>7. QED
    BY <1>4, <1>7, <2>4, <2>5, <2>6 DEF Executions, w, M
<1>9. /\ TokenTotals(d, f).saved = SumOver("saved", M)
      /\ TokenTotals(d, f).negative = Cardinality(negatives)
  <2>1. TokenTotals(d, f).negative = Cardinality(negatives)
    BY DEF TokenTotals, Count
  <2>2. TokenTotals(d, f).saved = SumOver("saved", M)
    BY DEF TokenTotals, SumOver, Sum, SumOrNone, MapThenSumSet, MapThenFoldSet
  <2>3. QED
    BY <2>1, <2>2
<1>10. /\ MapThenSumSet(LAMBDA r : r.saved, b) = SumOf("saved", b)
       /\ MapThenSumSet(LAMBDA r : r.negative, b) = SumOf("negative", b)
  <2> HIDE DEF b
  <2>1. QED
    BY DEF SumOf, MapThenSumSet, MapThenFoldSet
<1>11. ASSUME Cardinality(b) < BreakdownLimit
       PROVE  /\ SumExecutions(b) = Executions(d, f)
              /\ SumOf("saved", b) = TokenTotals(d, f).saved
              /\ SumOf("negative", b) = TokenTotals(d, f).negative
  <2>1. b = R
    BY <1>1, <1>11
  <2> HIDE DEF b, R, M, negatives
  <2>2. QED
    BY <1>4, <1>5, <1>6, <1>7, <1>9, <2>1 DEF Executions, M
<1> HIDE DEF R, M, negatives
<1>12. QED
  BY <1>8, <1>10, <1>11 DEF MapThenSumSet, MapThenFoldSet

-----------------------------------------------------------------------------
(* The endpoints tell one story.                                            *)

\* Two filters that part what a third lets through count as much as it.
LEMMA PartsAddUp ==
  ASSUME NEW d, Finite(d), NEW f, NEW g, NEW all,
         \A e \in d.executions : /\ Matches(d, all, e) <=> Matches(d, f, e) \/ Matches(d, g, e)
                                 /\ ~(Matches(d, f, e) /\ Matches(d, g, e))
  PROVE  Executions(d, f) + Executions(d, g) = Executions(d, all)
<1> DEFINE F == Matching(d, f)
           G == Matching(d, g)
<1>1. F \cup G = Matching(d, all) /\ F \cap G = {}
  BY DEF Matching
<1>2. IsFiniteSet(F) /\ IsFiniteSet(G)
  BY FS_Subset DEF Finite, Matching
<1> HIDE DEF F, G
<1>3. /\ Cardinality(F \cup G) = Cardinality(F) + Cardinality(G) - Cardinality(F \cap G)
      /\ Cardinality(F \cap G) = 0 /\ Cardinality(F) \in Nat /\ Cardinality(G) \in Nat
  BY <1>1, <1>2, FS_Union, FS_EmptySet, FS_CardinalityType
<1>4. Cardinality(F) + Cardinality(G) = Cardinality(Matching(d, all))
  BY <1>1, <1>3
<1>5. QED
  BY <1>4 DEF Executions, F, G

LEMMA ScopesPart ==
  ASSUME NEW d, Finite(d), NEW f, DOMAIN f = DOMAIN NoFilter
  PROVE  Executions(d, [f EXCEPT !.scope = "real"]) + Executions(d, [f EXCEPT !.scope = "test"])
           = Executions(d, [f EXCEPT !.scope = "all"])
<1> DEFINE with(s) == [f EXCEPT !.scope = s]
<1>1. ASSUME NEW s
      PROVE  /\ with(s).scope = s /\ with(s).from = f.from /\ with(s).to = f.to
             /\ with(s).strategy = f.strategy /\ with(s).status = f.status
             /\ with(s).tenant = f.tenant /\ with(s).team = f.team
             /\ with(s).negative = f.negative
             /\ with(s).provider = f.provider /\ with(s).model = f.model
  BY DEF NoFilter
<1> HIDE DEF with
<1>2. \A e : /\ Matches(d, with("all"), e) <=> Matches(d, with("real"), e)
                                               \/ Matches(d, with("test"), e)
             /\ ~(Matches(d, with("real"), e) /\ Matches(d, with("test"), e))
  BY <1>1 DEF Matches, SavingsMatch
<1>3. Executions(d, with("real")) + Executions(d, with("test")) = Executions(d, with("all"))
  BY <1>2, PartsAddUp
<1>4. QED
  BY <1>3 DEF with

\* Filters alike but for the sign are told apart by the sign only.
LEMMA AlikeButForTheSign ==
  ASSUME NEW d, NEW e, NEW a, NEW b,
         a.scope = b.scope, a.from = b.from, a.to = b.to, a.strategy = b.strategy,
         a.status = b.status, a.tenant = b.tenant, a.team = b.team,
         a.provider = b.provider, a.model = b.model,
         SavingsMatch(a, e), SavingsMatch(b, e)
  PROVE  Matches(d, a, e) <=> Matches(d, b, e)
  BY DEF Matches

LEMMA SignsPart ==
  ASSUME NEW d, Finite(d), NEW f, DOMAIN f = DOMAIN NoFilter
  PROVE  Executions(d, [f EXCEPT !.negative = TRUE]) + Executions(d, [f EXCEPT !.negative = FALSE])
           = Executions(d, [f EXCEPT !.negative = None])
<1> DEFINE with(s) == [f EXCEPT !.negative = s]
<1>1. ASSUME NEW s
      PROVE  /\ with(s).scope = f.scope /\ with(s).from = f.from /\ with(s).to = f.to
             /\ with(s).strategy = f.strategy /\ with(s).status = f.status
             /\ with(s).tenant = f.tenant /\ with(s).team = f.team
             /\ with(s).negative = s
             /\ with(s).provider = f.provider /\ with(s).model = f.model
  BY DEF NoFilter
<1> HIDE DEF with
<1>2. \A e : Negative(e) \in BOOLEAN
  BY DEF Negative
<1>3. None # TRUE /\ None # FALSE
  BY ReadModelsAssumption
<1>4. ASSUME NEW e
      PROVE  /\ Matches(d, with(None), e) <=> Matches(d, with(TRUE), e)
                                              \/ Matches(d, with(FALSE), e)
             /\ ~(Matches(d, with(TRUE), e) /\ Matches(d, with(FALSE), e))
  <2>1. CASE Negative(e) = TRUE
    <3>1. SavingsMatch(with(TRUE), e) /\ ~SavingsMatch(with(FALSE), e) /\ SavingsMatch(with(None), e)
      BY <1>1, <1>3, <2>1 DEF SavingsMatch
    <3>2. ~Matches(d, with(FALSE), e)
      BY <3>1 DEF Matches
    <3>3. Matches(d, with(None), e) <=> Matches(d, with(TRUE), e)
      BY <1>1, <3>1, AlikeButForTheSign
    <3>4. QED
      BY <3>2, <3>3
  <2>2. CASE Negative(e) = FALSE
    <3>1. ~SavingsMatch(with(TRUE), e) /\ SavingsMatch(with(FALSE), e) /\ SavingsMatch(with(None), e)
      BY <1>1, <1>3, <2>2 DEF SavingsMatch
    <3>2. ~Matches(d, with(TRUE), e)
      BY <3>1 DEF Matches
    <3>3. Matches(d, with(None), e) <=> Matches(d, with(FALSE), e)
      BY <1>1, <3>1, AlikeButForTheSign
    <3>4. QED
      BY <3>2, <3>3
  <2>3. QED
    BY <1>2, <2>1, <2>2
<1>5. Executions(d, with(TRUE)) + Executions(d, with(FALSE)) = Executions(d, with(None))
  BY <1>4, PartsAddUp
<1>6. QED
  BY <1>5 DEF with

\* A page lists no execution twice.
LEMMA PageListsOnce ==
  ASSUME NEW d, KeysHold(d), TimesHold(d), Finite(d), NEW f,
         NEW limit \in Nat \ {0}, NEW page \in Pages(d, f, limit, 0)
  PROVE  /\ Len(page) = Min({limit, Executions(d, f)})
         /\ \A i, j \in DOMAIN page : page[i].execution = page[j].execution => i = j
<1> DEFINE n == Cardinality(Matching(d, f))
           last == IF limit <= n THEN limit ELSE n
<1>1. PICK s \in Orders(d, f) :
        page = [i \in DOMAIN SubSeq(s, 0 + 1, Min({0 + limit, Len(s)})) |->
                  Record(d, SubSeq(s, 0 + 1, Min({0 + limit, Len(s)}))[i])]
  BY DEF Pages, Orders
<1>2. /\ n \in Nat /\ s \in [1..n -> Matching(d, f)]
      /\ \A i \in 1..n : Place(d, f, s[i]) = i - 1
  BY PlaceInOrder
<1> HIDE DEF n
<1>3. s \in Seq(Matching(d, f)) /\ Len(s) = n
  BY <1>2
<1>4. Min({0 + limit, Len(s)}) = last /\ Min({limit, n}) = last /\ last \in Nat /\ last <= n
  <2>1. Min({limit, n}) = last
    BY <1>2, MinOfTwo
  <2>2. QED
    BY <1>2, <1>3, <2>1
<1> DEFINE shown == SubSeq(s, 0 + 1, last)
<1>5. /\ shown \in Seq(Matching(d, f)) /\ Len(shown) = last /\ DOMAIN shown = 1..last
      /\ \A i \in 1..last : shown[i] = s[i]
  BY <1>2, <1>3, <1>4
<1> HIDE DEF shown, last
<1>6. page = [i \in 1..last |-> Record(d, shown[i])]
  BY <1>1, <1>4, <1>5 DEF shown
<1>7. Len(page) = last /\ DOMAIN page = 1..last
  BY <1>4, <1>6
<1>8. ASSUME NEW i \in 1..last, NEW j \in 1..last, page[i].execution = page[j].execution
      PROVE  i = j
  <2>1. page[i].execution = s[i].id /\ page[j].execution = s[j].id
    BY <1>5, <1>6 DEF Record
  <2>2. i \in 1..n /\ j \in 1..n
    BY <1>2, <1>4
  <2>3. s[i] \in d.executions /\ s[j] \in d.executions
    BY <1>2, <2>2 DEF Matching
  <2>4. s[i] = s[j]
    BY <1>8, <2>1, <2>3 DEF KeysHold
  <2>5. i - 1 = j - 1
    BY <1>2, <2>2, <2>4
  <2>6. QED
    BY <2>2, <2>5
<1>9. QED
  BY <1>4, <1>7, <1>8 DEF Executions, n

\* On every snapshot a reader may find, the statistics, the dashboard, its
\* breakdowns, the records and the filters' scopes count the same executions
\* (stats_queries.py, dashboard_stats_queries.py, record_list_queries.py,
\* query_filters.py).
THEOREM ViewsAlwaysAgree == Spec => []ViewsAgree
<1> DEFINE Inv == DataInv /\ ClockInv /\ FiguresInv
<1>1. ASSUME Inv PROVE ViewsAgree
  <2> SUFFICES ASSUME NEW q \in Questions, NEW f, f = q.filter
               PROVE  /\ Counts(db, f).executions = Executions(db, f)
                      /\ UsageTotals(db, f).input = EstimateDelta(db, f).reported
                      /\ \A by \in {"provider", "model", "strategy", "tenant", "team", "status"} :
                           LET rows == Breakdown(db, f, by)
                           IN Cardinality(rows) < BreakdownLimit =>
                                /\ SumExecutions(rows) = Executions(db, f)
                                /\ MapThenSumSet(LAMBDA r : r.saved, rows) = TokenTotals(db, f).saved
                                /\ MapThenSumSet(LAMBDA r : r.negative, rows)
                                     = TokenTotals(db, f).negative
                      /\ \A page \in Pages(db, f, 100, 0) :
                           /\ Len(page) = Min({100, Executions(db, f)})
                           /\ \A i, j \in DOMAIN page :
                                page[i].execution = page[j].execution => i = j
                      /\ Scoped(f, "real") + Scoped(f, "test") = Scoped(f, "all")
                      /\ Signed(f, TRUE) + Signed(f, FALSE) = Signed(f, None)
    BY Zenon DEF ViewsAgree
  <2>1. KeysHold(db) /\ TimesHold(db) /\ Finite(db) /\ FiguresHold(db)
    BY <1>1 DEF DataInv, TypeOK, ClockInv, FiguresInv
  <2>2. Counts(db, f).executions = Executions(db, f)
    BY DEF Counts
  <2>3. UsageTotals(db, f).input = EstimateDelta(db, f).reported
    <3> DEFINE reported == Sum(UsagesOf(db, f, "provider_reported"), LAMBDA u : u.input)
    <3>1. UsageTotals(db, f).input = reported
      BY DEF UsageTotals, Sum, SumOrNone, MapThenSumSet, MapThenFoldSet
    <3>2. EstimateDelta(db, f).reported = reported
      BY DEF EstimateDelta, Sum, SumOrNone, MapThenSumSet, MapThenFoldSet
    <3>3. QED
      BY <3>1, <3>2
  <2>4. ASSUME NEW by
        PROVE  LET rows == Breakdown(db, f, by)
               IN Cardinality(rows) < BreakdownLimit =>
                    /\ SumExecutions(rows) = Executions(db, f)
                    /\ MapThenSumSet(LAMBDA r : r.saved, rows) = TokenTotals(db, f).saved
                    /\ MapThenSumSet(LAMBDA r : r.negative, rows) = TokenTotals(db, f).negative
    BY <2>1, BreakdownAddsUp, Zenon
  <2>5. ASSUME NEW page \in Pages(db, f, 100, 0)
        PROVE  /\ Len(page) = Min({100, Executions(db, f)})
               /\ \A i, j \in DOMAIN page : page[i].execution = page[j].execution => i = j
    <3>1. 100 \in Nat \ {0}
      OBVIOUS
    <3>2. QED
      BY <2>1, <3>1, PageListsOnce
  <2>6. DOMAIN f = DOMAIN NoFilter
    BY ReadModelsAssumption
  <2>7. /\ Scoped(f, "real") + Scoped(f, "test") = Scoped(f, "all")
        /\ Signed(f, TRUE) + Signed(f, FALSE) = Signed(f, None)
    BY <2>1, <2>6, ScopesPart, SignsPart DEF Scoped, Signed
  <2>8. QED
    BY <2>2, <2>3, <2>4, <2>5, <2>7, Zenon
<1>2. Init => Inv
  BY DataInvInit, ClockInvInit, FiguresInvInit
<1>3. Inv /\ [Next]_vars => Inv'
  BY DataInvStep, ClockInvStep, FiguresInvStep
<1>4. QED
  BY <1>1, <1>2, <1>3, PTL DEF Spec

-----------------------------------------------------------------------------
(* Percentiles *)

\* A column is finite and its values are integers.
Numbers(column) ==
  IsFiniteSet(DOMAIN column) /\ \A r \in DOMAIN column : column[r] \in Int

Values(column) == {column[r] : r \in DOMAIN column}

LEMMA ValuesAreFinite ==
  ASSUME NEW column, Numbers(column)
  PROVE  IsFiniteSet(Values(column)) /\ Values(column) \subseteq Int
<1> DEFINE f == [r \in DOMAIN column |-> column[r]]
<1>1. /\ f \in [DOMAIN column -> Values(column)]
      /\ \A x \in Values(column) : \E r \in DOMAIN column : f[r] = x
  BY DEF Values
<1>2. IsFiniteSet(DOMAIN column)
  BY DEF Numbers
<1> HIDE DEF f
<1>3. IsFiniteSet(Values(column))
  BY <1>1, <1>2, ImageIsFinite
<1>4. QED
  BY <1>3 DEF Numbers, Values

LEMMA RowsBelow ==
  ASSUME NEW column, Numbers(column)
  PROVE  \A x : /\ IsFiniteSet(AtMost(column, x)) /\ IsFiniteSet(Below(column, x))
                /\ Cardinality(AtMost(column, x)) \in Nat
                /\ Cardinality(Below(column, x)) \in Nat
<1> SUFFICES ASSUME NEW x
             PROVE  /\ IsFiniteSet(AtMost(column, x)) /\ IsFiniteSet(Below(column, x))
                    /\ Cardinality(AtMost(column, x)) \in Nat
                    /\ Cardinality(Below(column, x)) \in Nat
  OBVIOUS
<1>1. AtMost(column, x) \in SUBSET DOMAIN column /\ Below(column, x) \in SUBSET DOMAIN column
  BY DEF AtMost, Below
<1>2. QED
  BY <1>1, FS_Subset, FS_CardinalityType DEF Numbers

\* There is a value at every place.
LEMMA RankedExists ==
  ASSUME NEW column, Numbers(column), NEW k \in 1..Cardinality(DOMAIN column)
  PROVE  LET x == Ranked(column, k)
         IN /\ x \in Values(column) /\ x \in Int
            /\ Cardinality(Below(column, x)) < k /\ k <= Cardinality(AtMost(column, x))
<1> DEFINE n == Cardinality(DOMAIN column)
           V == Values(column)
           Enough == {x \in V : k <= Cardinality(AtMost(column, x))}
<1>1. n \in Nat /\ k \in Int /\ 1 <= k /\ k <= n
  BY FS_CardinalityType DEF Numbers
<1>2. IsFiniteSet(V) /\ V \subseteq Int /\ V # {}
  <2>1. DOMAIN column # {}
    BY <1>1, FS_EmptySet
  <2>2. QED
    BY <2>1, ValuesAreFinite DEF Values
<1> HIDE DEF V
<1>3. Max(V) \in Enough
  <2>1. Max(V) \in V /\ \A x \in V : Max(V) >= x
    BY <1>2, FiniteHasMax
  <2>2. \A r \in DOMAIN column : column[r] <= Max(V)
    <3>1. \A r \in DOMAIN column : column[r] \in V /\ column[r] \in Int
      BY DEF V, Values, Numbers
    <3>2. Max(V) \in Int
      BY <1>2, <2>1
    <3>3. QED
      BY <2>1, <3>1, <3>2
  <2>3. AtMost(column, Max(V)) = DOMAIN column
    BY <2>2 DEF AtMost
  <2>4. QED
    BY <1>1, <2>1, <2>3
<1>4. IsFiniteSet(Enough) /\ Enough \subseteq Int /\ Enough # {} /\ Enough \subseteq V
  <2>1. Enough \in SUBSET V
    OBVIOUS
  <2> HIDE DEF Enough
  <2>2. QED
    BY <1>2, <1>3, <2>1, FS_Subset
<1> DEFINE x == Min(Enough)
<1>5. x \in Enough /\ \A y \in Enough : x <= y
  <2> HIDE DEF Enough
  <2>1. QED
    BY <1>4, FiniteHasMin
<1>6. x \in V /\ x \in Int /\ k <= Cardinality(AtMost(column, x))
  BY <1>4, <1>5
<1> HIDE DEF x
<1>7. Cardinality(Below(column, x)) < k
  <2>1. CASE Below(column, x) = {}
    BY <1>1, <2>1, FS_EmptySet
  <2>2. CASE Below(column, x) # {}
    <3> DEFINE W == {y \in V : y < x}
    <3>1. W # {} /\ W \in SUBSET V
      <4>1. PICK r \in DOMAIN column : column[r] < x
        BY <2>2 DEF Below
      <4>2. column[r] \in V
        BY DEF V, Values
      <4>3. QED
        BY <4>1, <4>2
    <3> DEFINE y == Max(W)
    <3>2. y \in W /\ \A z \in W : y >= z
      <4> HIDE DEF W
      <4>1. IsFiniteSet(W) /\ W \subseteq Int
        BY <1>2, <3>1, FS_Subset
      <4>2. QED
        BY <3>1, <4>1, FiniteHasMax
    <3> HIDE DEF y
    <3>3. y \in V /\ y < x /\ y \in Int
      BY <1>2, <3>2
    <3>4. AtMost(column, y) = Below(column, x)
      <4>1. ASSUME NEW r \in DOMAIN column PROVE column[r] <= y <=> column[r] < x
        <5>1. column[r] \in Int /\ column[r] \in V
          BY DEF Numbers, V, Values
        <5>2. column[r] < x => y >= column[r]
          BY <3>2, <5>1
        <5>3. QED
          BY <1>6, <3>3, <5>1, <5>2
      <4>2. QED
        BY <4>1 DEF AtMost, Below
    <3>5. ~(k <= Cardinality(AtMost(column, y)))
      <4>1. y \notin Enough
        BY <1>5, <1>6, <3>3
      <4>2. QED
        BY <3>3, <4>1
    <3>6. Cardinality(AtMost(column, y)) \in Nat
      BY RowsBelow
    <3>7. QED
      BY <1>1, <3>4, <3>5, <3>6
  <2>3. QED
    BY <2>1, <2>2
<1>8. \E y \in V : Cardinality(Below(column, y)) < k /\ k <= Cardinality(AtMost(column, y))
  BY <1>6, <1>7
<1>9. Ranked(column, k) \in V
      /\ Cardinality(Below(column, Ranked(column, k))) < k
      /\ k <= Cardinality(AtMost(column, Ranked(column, k)))
  BY <1>8 DEF Ranked, V, Values
<1>10. QED
  BY <1>2, <1>9 DEF V

\* The value at a later place is no smaller.
LEMMA RankedGrows ==
  ASSUME NEW column, Numbers(column), NEW k \in 1..Cardinality(DOMAIN column),
         NEW l \in 1..Cardinality(DOMAIN column), k <= l
  PROVE  Ranked(column, k) <= Ranked(column, l)
<1> DEFINE x == Ranked(column, k)
           y == Ranked(column, l)
<1>1. /\ x \in Int /\ Cardinality(Below(column, x)) < k
      /\ y \in Int /\ l <= Cardinality(AtMost(column, y))
  BY RankedExists
<1>2. /\ Cardinality(DOMAIN column) \in Nat
      /\ Cardinality(Below(column, x)) \in Nat /\ Cardinality(AtMost(column, y)) \in Nat
      /\ IsFiniteSet(Below(column, x))
  BY RowsBelow, FS_CardinalityType DEF Numbers
<1> HIDE DEF x, y
<1>3. ASSUME y < x PROVE FALSE
  <2>1. AtMost(column, y) \in SUBSET Below(column, x)
    <3>1. \A r \in DOMAIN column : column[r] \in Int
      BY DEF Numbers
    <3>2. \A r \in DOMAIN column : column[r] <= y => column[r] < x
      BY <1>1, <1>3, <3>1
    <3>3. QED
      BY <3>2 DEF AtMost, Below
  <2>2. Cardinality(AtMost(column, y)) <= Cardinality(Below(column, x))
    BY <1>2, <2>1, FS_Subset
  <2>3. k \in Int /\ l \in Int
    BY <1>2
  <2>4. QED
    BY <1>1, <1>2, <2>2, <2>3
<1>4. x <= y
  BY <1>1, <1>3
<1>5. QED
  BY <1>4 DEF x, y

\* Between two neighbouring values a percentile lies where it should.
LEMMA Between ==
  ASSUME NEW low \in Int, NEW high \in Int, low <= high, NEW part \in 0..9
  PROVE  LET x == 10 * low + part * (high - low)
         IN x \in Int /\ 10 * low <= x /\ x <= 10 * high
<1> DEFINE gap == high - low
<1>1. gap \in Nat /\ high = low + gap
  OBVIOUS
<1> HIDE DEF gap
<1>2. part * gap \in Nat /\ part * gap <= 10 * gap
  BY <1>1
<1>3. QED
  BY <1>1, <1>2 DEF gap

LEMMA FurtherIsMore ==
  ASSUME NEW low \in Int, NEW high \in Int, low <= high,
         NEW part \in 0..9, NEW more \in 0..9, part <= more
  PROVE  10 * low + part * (high - low) <= 10 * low + more * (high - low)
<1> DEFINE gap == high - low
<1>1. gap \in Nat
  OBVIOUS
<1> HIDE DEF gap
<1>2. part * gap \in Nat /\ more * gap \in Nat /\ part * gap <= more * gap
  BY <1>1
<1>3. QED
  BY <1>2 DEF gap

\* Where a percentile of n values falls.
LEMMA PlaceOfPercentile ==
  ASSUME NEW n \in Nat \ {0}, NEW tenths \in {5, 9}
  PROVE  LET at == tenths * (n - 1)
             i == at \div 10
             part == at % 10
         IN /\ i \in Nat /\ part \in 0..9 /\ at = 10 * i + part
            /\ 1 + i \in 1..n /\ (part # 0 => 2 + i \in 1..n)
<1>1. CASE tenths = 5
  BY <1>1
<1>2. CASE tenths = 9
  BY <1>2
<1>3. QED
  BY <1>1, <1>2

\* The percentile stands at a value or between it and the next one.
LEMMA PercentileIs ==
  ASSUME NEW column, Numbers(column), DOMAIN column # {}, NEW tenths \in {5, 9}
  PROVE  LET at == tenths * (Cardinality(DOMAIN column) - 1)
             i == at \div 10
             part == at % 10
             low == Ranked(column, 1 + i)
             high == Ranked(column, 2 + i)
             x == Percentile(tenths, column)
         IN /\ low \in Int /\ x \in Int
            /\ part = 0 => x = 10 * low
            /\ part # 0 => /\ high \in Int /\ low <= high
                          /\ x = 10 * low + part * (high - low)
            /\ 10 * low <= x
<1> DEFINE n == Cardinality(DOMAIN column)
           at == tenths * (n - 1)
           i == at \div 10
           part == at % 10
           low == Ranked(column, 1 + i)
           high == Ranked(column, 2 + i)
           x == Percentile(tenths, column)
<1>1. n \in Nat \ {0}
  BY FS_CardinalityType, FS_EmptySet DEF Numbers
<1>2. x = IF part = 0 THEN 10 * low ELSE 10 * low + part * (high - low)
  BY DEF Percentile
<1> HIDE DEF n
<1>3. /\ i \in Nat /\ part \in 0..9 /\ 1 + i \in 1..n
      /\ part # 0 => 2 + i \in 1..n
  BY <1>1, PlaceOfPercentile
<1> HIDE DEF at, i, part, x
<1>4. low \in Int /\ (part # 0 => high \in Int /\ low <= high)
  <2>1. low \in Int
    BY <1>3, RankedExists DEF n
  <2>2. ASSUME part # 0 PROVE high \in Int /\ low <= high
    <3>1. 2 + i \in 1..n /\ 1 + i <= 2 + i
      BY <1>3, <2>2
    <3>2. high \in Int
      BY <3>1, RankedExists DEF n
    <3>3. low <= high
      BY <1>3, <3>1, RankedGrows DEF n
    <3>4. QED
      BY <3>2, <3>3
  <2>3. QED
    BY <2>1, <2>2
<1> HIDE DEF low, high
<1>5. x \in Int /\ 10 * low <= x
  BY <1>2, <1>3, <1>4, Between
<1>6. QED
  BY <1>2, <1>4, <1>5 DEF at, i, part, x, n, low, high

\* Median and 90th percentile are in order, and lie among the values.
LEMMA PercentilesInOrder ==
  ASSUME NEW column, Numbers(column), DOMAIN column # {}
  PROVE  /\ Percentile(5, column) <= Percentile(9, column)
         /\ 10 * Min(Values(column)) <= Percentile(5, column)
         /\ Percentile(9, column) <= 10 * Max(Values(column))
<1> DEFINE n == Cardinality(DOMAIN column)
           R(k) == Ranked(column, k)
           least == Min(Values(column))
           most == Max(Values(column))
           i == (5 * (n - 1)) \div 10
           j == (9 * (n - 1)) \div 10
           p == (5 * (n - 1)) % 10
           q == (9 * (n - 1)) % 10
           x == Percentile(5, column)
           y == Percentile(9, column)
<1>1. n \in Nat \ {0}
  BY FS_CardinalityType, FS_EmptySet DEF Numbers
<1>2. \A k \in 1..n : R(k) \in Int /\ least <= R(k) /\ R(k) <= most
  <2> SUFFICES ASSUME NEW k \in 1..n PROVE R(k) \in Int /\ least <= R(k) /\ R(k) <= most
    OBVIOUS
  <2> DEFINE V == Values(column)
  <2>1. R(k) \in V /\ R(k) \in Int
    BY RankedExists
  <2>2. IsFiniteSet(V) /\ V \subseteq Int
    BY ValuesAreFinite
  <2> HIDE DEF V
  <2>3. (\A v \in V : Min(V) <= v) /\ \A v \in V : Max(V) >= v
    BY <2>1, <2>2, FiniteHasMin, FiniteHasMax
  <2>4. Min(V) \in Int /\ Max(V) \in Int
    BY <2>1, <2>2, FiniteHasMin, FiniteHasMax
  <2>5. QED
    BY <2>1, <2>3, <2>4 DEF V
<1>3. least \in Int /\ most \in Int
  <2> DEFINE V == Values(column)
  <2>1. IsFiniteSet(V) /\ V \subseteq Int /\ V # {}
    BY ValuesAreFinite DEF Values
  <2> HIDE DEF V
  <2>2. Min(V) \in Int /\ Max(V) \in Int
    BY <2>1, FiniteHasMin, FiniteHasMax
  <2>3. QED
    BY <2>2 DEF V
<1>4. \A k, l \in 1..n : k <= l => R(k) <= R(l)
  BY RankedGrows
<1>5. /\ R(1 + i) \in Int /\ x \in Int /\ 10 * R(1 + i) <= x
      /\ p = 0 => x = 10 * R(1 + i)
      /\ p # 0 => /\ R(2 + i) \in Int /\ R(1 + i) <= R(2 + i)
                 /\ x = 10 * R(1 + i) + p * (R(2 + i) - R(1 + i))
  BY PercentileIs
<1>6. /\ R(1 + j) \in Int /\ y \in Int /\ 10 * R(1 + j) <= y
      /\ q = 0 => y = 10 * R(1 + j)
      /\ q # 0 => /\ R(2 + j) \in Int /\ R(1 + j) <= R(2 + j)
                 /\ y = 10 * R(1 + j) + q * (R(2 + j) - R(1 + j))
  BY PercentileIs
<1> HIDE DEF n
<1>7. /\ i \in Nat /\ p \in 0..9 /\ 1 + i \in 1..n /\ (p # 0 => 2 + i \in 1..n)
      /\ j \in Nat /\ q \in 0..9 /\ 1 + j \in 1..n /\ (q # 0 => 2 + j \in 1..n)
  BY <1>1, PlaceOfPercentile
<1>8. i <= j /\ (i = j => p <= q)
  BY <1>1
<1> HIDE DEF i, j, p, q, x, y, R, least, most
<1>9. 10 * least <= x
  BY <1>2, <1>3, <1>5, <1>7
<1>10. y <= 10 * most
  <2>1. CASE q = 0
    BY <1>2, <1>3, <1>6, <1>7, <2>1
  <2>2. CASE q # 0
    <3>1. y <= 10 * R(2 + j)
      BY <1>6, <1>7, <2>2, Between
    <3>2. R(2 + j) <= most
      BY <1>2, <1>7, <2>2
    <3>3. QED
      BY <1>3, <1>6, <2>2, <3>1, <3>2
  <2>3. QED
    BY <2>1, <2>2
<1>11. x <= y
  <2>1. CASE i = j
    <3>1. CASE p = 0
      BY <1>5, <1>6, <2>1, <3>1
    <3>2. CASE p # 0
      <4>1. q # 0 /\ p <= q
        BY <1>7, <1>8, <2>1, <3>2
      <4>2. x = 10 * R(1 + i) + p * (R(2 + i) - R(1 + i))
            /\ y = 10 * R(1 + i) + q * (R(2 + i) - R(1 + i))
        BY <1>5, <1>6, <2>1, <3>2, <4>1
      <4>3. R(1 + i) \in Int /\ R(2 + i) \in Int /\ R(1 + i) <= R(2 + i)
        BY <1>5, <3>2
      <4>4. QED
        BY <1>7, <4>1, <4>2, <4>3, FurtherIsMore
    <3>3. QED
      BY <3>1, <3>2
  <2>2. CASE i # j
    <3>1. 2 + i <= 1 + j /\ 1 + i <= 1 + j
      BY <1>7, <1>8, <2>2
    <3>2. CASE p = 0
      <4>1. R(1 + i) <= R(1 + j)
        BY <1>4, <1>7, <3>1
      <4>2. QED
        BY <1>5, <1>6, <3>2, <4>1
    <3>3. CASE p # 0
      <4>1. R(2 + i) <= R(1 + j)
        BY <1>4, <1>7, <3>1, <3>3
      <4>2. x <= 10 * R(2 + i)
        BY <1>5, <1>7, <3>3, Between
      <4>3. QED
        BY <1>5, <1>6, <3>3, <4>1, <4>2
    <3>4. QED
      BY <3>2, <3>3
  <2>3. QED
    BY <2>1, <2>2
<1>12. QED
  BY <1>9, <1>10, <1>11 DEF x, y, least, most

\* The distributions of the dashboard.
LEMMA DistributionsInOrder ==
  ASSUME NEW d, Finite(d), FiguresHold(d), TimesHold(d), NEW f
  PROVE  /\ Savings(d, f).count > 0 =>
              /\ Savings(d, f).p50 <= Savings(d, f).p90
              /\ Savings(d, f).min <= Savings(d, f).p50
              /\ Savings(d, f).p90 <= Savings(d, f).max
         /\ Durations(d, f).count > 0 => Durations(d, f).p50 <= Durations(d, f).p90
         /\ Latencies(d, f).count > 0 => Latencies(d, f).p50 <= Latencies(d, f).p90
<1> DEFINE M == Matching(d, f)
           saved == [e \in {x \in M : x.saved # None} |-> e.saved]
           duration == [e \in {x \in M : x.duration # None} |-> e.duration]
           timed == {r \in d.requests : /\ r.id \in RequestsOf(d, f)
                                        /\ r.started # None /\ r.ended # None}
           latency == [r \in {x \in timed : x.ended - x.started # None} |-> r.ended - r.started]
<1>1. /\ M \in SUBSET d.executions /\ IsFiniteSet(M)
      /\ timed \in SUBSET d.requests /\ IsFiniteSet(timed)
  <2>1. M \in SUBSET d.executions /\ timed \in SUBSET d.requests
    BY DEF Matching
  <2> HIDE DEF M, timed
  <2>2. QED
    BY <2>1, FS_Subset DEF Finite
<1>2. ASSUME NEW S, IsFiniteSet(S), NEW column, DOMAIN column \in SUBSET S,
             \A r \in DOMAIN column : column[r] \in Int
      PROVE  Numbers(column)
  BY <1>2, FS_Subset DEF Numbers
<1>3. Numbers(saved) /\ Numbers(duration) /\ Numbers(latency)
  <2>1. DOMAIN saved \in SUBSET M /\ \A e \in DOMAIN saved : saved[e] \in Int
    BY <1>1 DEF FiguresHold
  <2>2. DOMAIN duration \in SUBSET M /\ \A e \in DOMAIN duration : duration[e] \in Int
    BY <1>1 DEF FiguresHold, CountOrNone
  <2>3. DOMAIN latency \in SUBSET timed /\ \A r \in DOMAIN latency : latency[r] \in Int
    <3>1. \A r \in timed : r.started \in Int /\ r.ended \in Int
      BY <1>1 DEF FiguresHold, TimesHold
    <3>2. QED
      BY <3>1
  <2> HIDE DEF saved, duration, latency, M, timed
  <2>4. QED
    BY <1>1, <1>2, <2>1, <2>2, <2>3
<1>4. /\ Savings(d, f).p50 = Percentile(5, saved) /\ Savings(d, f).p90 = Percentile(9, saved)
      /\ Savings(d, f).count = Cardinality(DOMAIN saved)
      /\ DOMAIN saved # {} => /\ Savings(d, f).min = 10 * Min(Values(saved))
                             /\ Savings(d, f).max = 10 * Max(Values(saved))
  <2>1. Column(Matching(d, f), LAMBDA e : e.saved) = saved
    BY DEF Column
  <2>2. QED
    BY <2>1 DEF Savings, Distribution, Values, Column
<1>5. /\ Durations(d, f).p50 = Percentile(5, duration)
      /\ Durations(d, f).p90 = Percentile(9, duration)
      /\ Durations(d, f).count = Cardinality(DOMAIN duration)
  BY DEF Durations, Distribution, Column
<1>6. /\ Latencies(d, f).p50 = Percentile(5, latency)
      /\ Latencies(d, f).p90 = Percentile(9, latency)
      /\ Latencies(d, f).count = Cardinality(DOMAIN latency)
  BY DEF Latencies, Distribution, Column
<1> HIDE DEF saved, duration, latency
<1>7. \A column : Cardinality(DOMAIN column) > 0 => DOMAIN column # {}
  BY FS_EmptySet
<1>8. QED
  BY <1>3, <1>4, <1>5, <1>6, <1>7, PercentilesInOrder

-----------------------------------------------------------------------------
(* Input and what it would have cost *)

Counted(field, S) == \A r \in S : r[field] = None \/ r[field] \in Nat

\* A SUM of counts over more rows is no smaller.
LEMMA SumGrows ==
  ASSUME NEW S, IsFiniteSet(S), NEW field, Counted(field, S), NEW A \in SUBSET S
  PROVE  /\ SumOver(field, A) \in Nat /\ SumOver(field, S) \in Nat
         /\ SumOver(field, A) <= SumOver(field, S)
<1> DEFINE B == Having(field, S)
           C == Having(field, A)
           v == Of(field, B)
           w == Of(field, C)
<1>1. IsFiniteSet(A) /\ Tells(field, S) /\ Tells(field, A)
  BY FS_Subset DEF Tells, Counted
<1>2. /\ IsFiniteSet(B) /\ Whole(v, B) /\ SumOver(field, S) = Total(v, B)
      /\ SumOver(field, S) \in Int
      /\ IsFiniteSet(C) /\ SumOver(field, A) = Total(w, C) /\ SumOver(field, A) \in Int
  BY <1>1, SumSkipsNull
<1>3. C \in SUBSET B /\ (\A x \in B : v[x] >= 0) /\ \A x \in C : w[x] = v[x]
  BY DEF Having, Of, Counted
<1> HIDE DEF B, C, v, w
<1>4. 0 <= Total(v, C) /\ Total(v, C) <= Total(v, B)
  BY <1>2, <1>3, TotalOfMore
<1>5. Total(w, C) = Total(v, C)
  BY <1>2, <1>3, TotalOfSame
<1>6. QED
  BY <1>2, <1>4, <1>5

\* The input tokens in the usage rows of one source.
Input(d, f, source) == SumOver("input", UsagesOf(d, f, source))

LEMMA InputGrows ==
  ASSUME NEW d, NEW later, KeysHold(d), KeysHold(later), Grown(d, later),
         d.usages \subseteq later.usages, IsFiniteSet(later.usages), FiguresHold(later),
         NEW f, NEW source
  PROVE  /\ Input(d, f, source) \in Nat /\ Input(later, f, source) \in Nat
         /\ Input(d, f, source) <= Input(later, f, source)
<1>1. Matching(d, f) \subseteq Matching(later, f)
  BY MatchingGrows
<1>2. CallsOf(d, f) \subseteq CallsOf(later, f)
  BY <1>1 DEF CallsOf, Ids, Grown
<1> DEFINE S == UsagesOf(later, f, source)
           A == UsagesOf(d, f, source)
<1>3. A \in SUBSET S /\ S \in SUBSET later.usages
  BY <1>2 DEF UsagesOf
<1>4. IsFiniteSet(S) /\ Counted("input", S)
  BY <1>3, FS_Subset DEF FiguresHold, CountOrNone, Counted
<1> HIDE DEF S, A
<1>5. SumOver("input", A) \in Nat /\ SumOver("input", S) \in Nat
      /\ SumOver("input", A) <= SumOver("input", S)
  BY <1>3, <1>4, SumGrows
<1>6. QED
  BY <1>5 DEF Input, S, A

\* The tokens there were before compression.
LEMMA OriginalIsCount ==
  ASSUME NEW d, Finite(d), FiguresHold(d), NEW f
  PROVE  TokenTotals(d, f).original \in Nat
<1> DEFINE M == Matching(d, f)
<1>1. M \in SUBSET d.executions /\ IsFiniteSet(M)
  BY MatchingIsFinite DEF Matching
<1>2. Counted("original", M)
  BY <1>1 DEF FiguresHold, CountOrNone, Counted
<1> HIDE DEF M
<1>3. SumOver("original", M) \in Nat
  BY <1>1, <1>2, SumGrows
<1>4. TokenTotals(d, f).original = SumOver("original", M)
  BY DEF TokenTotals, SumOver, Sum, SumOrNone, MapThenSumSet, MapThenFoldSet, M
<1>5. QED
  BY <1>3, <1>4

\* The cached input is a part of the input, and what is saved one of the baseline.
BillHolds(bill) ==
  /\ bill.reported \in Nat /\ bill.cached \in 0..bill.reported
  /\ bill.saved # None => bill.saved <= 10 * bill.baseline

LEMMA BillingHolds ==
  ASSUME NEW d, KeysHold(d), IsFiniteSet(d.usages), FiguresHold(d), NEW f,
         NEW fallback \in Nat
  PROVE  /\ BillHolds(Billing(d, f, fallback))
         /\ Billing(d, f, fallback).reported = Input(d, f, "provider_reported")
<1> DEFINE reported == Input(d, f, "provider_reported")
           all == SumOver("cached", UsagesOf(d, f, "provider_reported"))
           before == Input(d, f, "estimated_before")
           cached == Min({all, reported})
           baseline == IF before # 0 THEN before ELSE fallback
           billed == IF reported = 0 THEN None ELSE 10 * (reported - cached) + cached
           bill == Billing(d, f, fallback)
<1>1. /\ bill.reported = reported /\ bill.cached = cached /\ bill.baseline = baseline
      /\ bill.saved = IF billed = None \/ baseline = 0 THEN None ELSE 10 * baseline - billed
  BY DEF Billing, Input, SumOver, Sum, SumOrNone, MapThenSumSet, MapThenFoldSet
<1>2. reported \in Nat /\ before \in Nat
  <2>1. Grown(d, d)
    BY DEF Grown
  <2>2. QED
    BY <2>1, InputGrows
<1>3. all \in Nat
  <2> DEFINE S == UsagesOf(d, f, "provider_reported")
  <2>1. S \in SUBSET d.usages
    BY DEF UsagesOf
  <2>2. IsFiniteSet(S) /\ Counted("cached", S)
    BY <2>1, FS_Subset DEF FiguresHold, CountOrNone, Counted
  <2> HIDE DEF S
  <2>3. SumOver("cached", S) \in Nat
    BY <2>2, SumGrows
  <2>4. QED
    BY <2>3 DEF S
<1> HIDE DEF reported, all, before, bill
<1>4. cached \in 0..reported
  BY <1>2, <1>3, MinOfTwo
<1>5. baseline \in Nat /\ (reported # 0 => billed \in Nat)
  BY <1>2, <1>4
<1> HIDE DEF cached, baseline
<1>6. bill.saved # None => bill.saved <= 10 * baseline
  BY <1>1, <1>5
<1>7. BillHolds(bill)
  BY <1>1, <1>2, <1>4, <1>6 DEF BillHolds
<1>8. QED
  BY <1>1, <1>7 DEF bill, reported

-----------------------------------------------------------------------------
(* The dashboard *)

\* What has been asked before some of its statements.
LEMMA PagePlanOrder ==
  ASSUME view = "page", ~Finished
  PROVE  /\ Statement = "billing" => Asked("counts") /\ Asked("estimate")
         /\ Statement = "by_provider" => Asked("counts")
         /\ Statement = "by_status" => Asked("by_provider")
         /\ Statement = "total" => Asked("by_status")
<1>1. PICK i \in DOMAIN PagePlan :
        Statement = PagePlan[i] /\ \A j \in 1..(i - 1) : Asked(PagePlan[j])
  <2>1. Plan(view) = PagePlan
    BY DEF Plan
  <2>2. view \in Views /\ view # "idle"
    BY DEF Views
  <2>3. QED
    BY <2>1, <2>2, FirstUnasked
<1>2. DOMAIN PagePlan = 1..16
  BY DEF PagePlan, DashboardPlan, RecordsPlan
<1>3. /\ \A j \in 1..10 : PagePlan[j] = DashboardPlan[j]
      /\ PagePlan[11] = "by_provider" /\ PagePlan[12] = "by_model"
      /\ PagePlan[13] = "by_strategy" /\ PagePlan[14] = "by_status"
      /\ PagePlan[15] = "total" /\ PagePlan[16] = "items"
  BY DEF PagePlan, DashboardPlan, RecordsPlan
<1>4. /\ DashboardPlan[1] = "counts" /\ DashboardPlan[5] = "estimate"
      /\ \A j \in 1..10 : DashboardPlan[j] = "billing" => j = 6
      /\ \A j \in 1..10 : DashboardPlan[j] \notin {"by_provider", "by_status", "total"}
  BY DEF DashboardPlan
<1>5. \A j \in 1..16 : j \in 1..10 \/ j \in {11, 12, 13, 14, 15, 16}
  OBVIOUS
<1>6. \A j \in 1..16 : /\ PagePlan[j] = "billing" => j = 6
                       /\ PagePlan[j] = "by_provider" => j = 11
                       /\ PagePlan[j] = "by_status" => j = 14
                       /\ PagePlan[j] = "total" => j = 15
  BY <1>3, <1>4, <1>5
<1>7. /\ Statement = "billing" => 1 \in 1..(i - 1) /\ 5 \in 1..(i - 1)
      /\ Statement = "by_provider" => 1 \in 1..(i - 1)
      /\ Statement = "by_status" => 11 \in 1..(i - 1)
      /\ Statement = "total" => 14 \in 1..(i - 1)
  BY <1>1, <1>2, <1>6
<1>8. PagePlan[1] = "counts" /\ PagePlan[5] = "estimate"
  BY <1>3, <1>4
<1>9. QED
  BY <1>1, <1>3, <1>7, <1>8

LEMMA AnswersPage ==
  /\ Answers("counts") = {Counts(db, query.filter)}
  /\ Answers("savings") = {Savings(db, query.filter)}
  /\ Answers("durations") = {Durations(db, query.filter)}
  /\ Answers("latencies") = {Latencies(db, query.filter)}
  /\ Answers("estimate") = {EstimateDelta(db, query.filter)}
  /\ Answers("billing") = {Billing(db, query.filter, answer["counts"].tokens.original)}
  /\ Answers("by_provider") = {Breakdown(db, query.filter, "provider")}
  /\ Answers("by_status") = {Breakdown(db, query.filter, "status")}
  BY DEF Answers

\* What each answer says by itself, and of what was committed when it was read.
Done(counts) == counts.tokens.failed + counts.tokens.succeeded

CountsHold(counts, n) ==
  counts.tokens.original \in Nat /\ Done(counts) \in Nat /\ Done(counts) <= n

InOrder(of) == of.count > 0 => of.p50 <= of.p90

SavingsInOrder(of) == of.count > 0 => of.min <= of.p50 /\ of.p90 <= of.max

EstimateHolds(estimate, input) == estimate.reported \in Nat /\ estimate.reported <= input

\* A breakdown with all its groups covers what was counted before it.
CoversCount(rows, count, n) ==
  /\ SumExecutions(rows) \in Nat /\ SumExecutions(rows) <= n
  /\ Cardinality(rows) < BreakdownLimit => count <= SumExecutions(rows)

LEMMA PageAnswers ==
  ASSUME NEW d, KeysHold(d), TimesHold(d), Finite(d), IsFiniteSet(d.usages), FiguresHold(d),
         NEW f
  PROVE  /\ CountsHold(Counts(d, f), Executions(d, f))
         /\ InOrder(Savings(d, f)) /\ InOrder(Durations(d, f)) /\ InOrder(Latencies(d, f))
         /\ SavingsInOrder(Savings(d, f))
         /\ EstimateHolds(EstimateDelta(d, f), Input(d, f, "provider_reported"))
         /\ \A by, count : count <= Executions(d, f) =>
              CoversCount(Breakdown(d, f, by), count, Executions(d, f))
<1>1. CountsHold(Counts(d, f), Executions(d, f))
  <2>1. Counts(d, f).tokens = TokenTotals(d, f)
    BY DEF Counts
  <2>2. QED
    BY <2>1, CountsAreParts, OriginalIsCount DEF CountsHold, Done
<1>2. EstimateHolds(EstimateDelta(d, f), Input(d, f, "provider_reported"))
  <2>1. EstimateDelta(d, f).reported = Input(d, f, "provider_reported")
    BY DEF EstimateDelta, Input, SumOver, Sum, SumOrNone, MapThenSumSet, MapThenFoldSet
  <2>2. Input(d, f, "provider_reported") \in Nat
    BY InputGrows DEF Grown
  <2>3. QED
    BY <2>1, <2>2 DEF EstimateHolds
<1>3. ASSUME NEW by, NEW count, count <= Executions(d, f)
      PROVE  CoversCount(Breakdown(d, f, by), count, Executions(d, f))
  <2> DEFINE rows == Breakdown(d, f, by)
  <2>1. /\ SumExecutions(rows) \in Nat /\ SumExecutions(rows) <= Executions(d, f)
        /\ Cardinality(rows) < BreakdownLimit => SumExecutions(rows) = Executions(d, f)
    BY BreakdownAddsUp
  <2> HIDE DEF rows
  <2>2. CoversCount(rows, count, Executions(d, f))
    BY <1>3, <2>1 DEF CoversCount
  <2>3. QED
    BY <2>2 DEF rows
<1>4. QED
  BY <1>1, <1>2, <1>3, DistributionsInOrder DEF InOrder, SavingsInOrder

PageInv ==
  view = "page" =>
    LET n == Executions(db, query.filter)
        count == Done(answer["counts"])
    IN /\ Asked("counts") => CountsHold(answer["counts"], n)
       /\ \A s \in {"savings", "durations", "latencies"} : Asked(s) => InOrder(answer[s])
       /\ Asked("savings") => SavingsInOrder(answer["savings"])
       /\ Asked("estimate") =>
            EstimateHolds(answer["estimate"], Input(db, query.filter, "provider_reported"))
       /\ Asked("billing") =>
            /\ Asked("estimate") /\ BillHolds(answer["billing"])
            /\ answer["estimate"].reported <= answer["billing"].reported
       /\ Asked("by_provider") =>
            Asked("counts") /\ CoversCount(answer["by_provider"], count, n)
       /\ Asked("by_status") =>
            /\ Asked("by_provider")
            /\ CoversCount(answer["by_status"], SumExecutions(answer["by_provider"]), n)
       /\ Asked("total") =>
            /\ Asked("by_status") /\ count <= answer["total"]
            /\ SumExecutions(answer["by_status"]) <= answer["total"]

\* What was true of the counts then is true of what is committed later.
LEMMA LaterCountsMore ==
  ASSUME NEW n \in Nat, NEW m \in Nat, n <= m
  PROVE  /\ \A counts : CountsHold(counts, n) => CountsHold(counts, m)
         /\ \A estimate : EstimateHolds(estimate, n) => EstimateHolds(estimate, m)
         /\ \A rows, count : CoversCount(rows, count, n) => CoversCount(rows, count, m)
BY DEF CountsHold, EstimateHolds, CoversCount

LEMMA PageInvStep ==
  DataInv /\ ClockInv /\ FiguresInv /\ PageInv /\ [Next]_vars => PageInv'
<1> SUFFICES ASSUME DataInv, ClockInv, FiguresInv, PageInv, [Next]_vars, view' = "page"
             PROVE  PageInv'
  BY DEF PageInv
<1> DEFINE f == query.filter
           n == Executions(db, f)
           input == Input(db, f, "provider_reported")
           count == Done(answer["counts"])
<1>1. CASE UNCHANGED <<view, query, answer, walk>>
  <2> DEFINE m == Executions(db', f)
             more == Input(db', f, "provider_reported")
  <2>1. n <= m /\ n \in Nat /\ m \in Nat
    BY ExecutionsGrow
  <2>2. input <= more /\ input \in Nat /\ more \in Nat
    BY RowsGrow, FiguresInvStep, InputGrows DEF FiguresInv
  <2>3. \A s : Asked(s)' <=> Asked(s)
    BY <1>1 DEF Asked
  <2>4. /\ Asked("counts") => CountsHold(answer["counts"], n)
        /\ \A s \in {"savings", "durations", "latencies"} : Asked(s) => InOrder(answer[s])
        /\ Asked("savings") => SavingsInOrder(answer["savings"])
        /\ Asked("estimate") => EstimateHolds(answer["estimate"], input)
        /\ Asked("billing") =>
             /\ Asked("estimate") /\ BillHolds(answer["billing"])
             /\ answer["estimate"].reported <= answer["billing"].reported
        /\ Asked("by_provider") =>
             Asked("counts") /\ CoversCount(answer["by_provider"], count, n)
        /\ Asked("by_status") =>
             /\ Asked("by_provider")
             /\ CoversCount(answer["by_status"], SumExecutions(answer["by_provider"]), n)
        /\ Asked("total") =>
             /\ Asked("by_status") /\ count <= answer["total"]
             /\ SumExecutions(answer["by_status"]) <= answer["total"]
    BY <1>1 DEF PageInv
  <2> HIDE DEF n, m, input, more
  <2>5. /\ Asked("counts") => CountsHold(answer["counts"], m)
        /\ Asked("estimate") => EstimateHolds(answer["estimate"], more)
        /\ Asked("by_provider") => CoversCount(answer["by_provider"], count, m)
        /\ Asked("by_status") =>
             CoversCount(answer["by_status"], SumExecutions(answer["by_provider"]), m)
    BY <2>1, <2>2, <2>4, LaterCountsMore
  <2>6. QED
    BY <1>1, <2>3, <2>4, <2>5 DEF PageInv, m, more
<1>2. CASE Read /\ UNCHANGED <<db, view, query, walk>>
  <2>1. view \in Views /\ view = "page" /\ ~Finished
    BY <1>2 DEF Read, DataInv, TypeOK
  <2>2. /\ ~Asked(Statement)
        /\ Statement = "billing" => Asked("counts") /\ Asked("estimate")
        /\ Statement = "by_provider" => Asked("counts")
        /\ Statement = "by_status" => Asked("by_provider")
        /\ Statement = "total" => Asked("by_status")
    BY <2>1, FirstUnasked, PagePlanOrder
  <2>3. \A s : Asked(s) => Asked(s)' /\ answer'[s] = answer[s]
    <3> SUFFICES ASSUME NEW s, Asked(s) PROVE Asked(s)' /\ answer'[s] = answer[s]
      OBVIOUS
    <3>1. Asked(s)' /\ s # Statement
      BY <1>2, <2>2 DEF Read, Asked
    <3>2. QED
      BY <1>2, <3>1, ReadAdds DEF Asked
  <2>4. \A s : Asked(s)' => Asked(s) \/ (s = Statement /\ answer'[s] \in Answers(s))
    BY <1>2, ReadAdds DEF Asked
  <2> DEFINE provided == SumExecutions(answer["by_provider"])
  <2>5. /\ Asked("counts") => CountsHold(answer["counts"], n)
        /\ \A s \in {"savings", "durations", "latencies"} : Asked(s) => InOrder(answer[s])
        /\ Asked("savings") => SavingsInOrder(answer["savings"])
        /\ Asked("estimate") => EstimateHolds(answer["estimate"], input)
        /\ Asked("billing") =>
             /\ Asked("estimate") /\ BillHolds(answer["billing"])
             /\ answer["estimate"].reported <= answer["billing"].reported
        /\ Asked("by_provider") =>
             Asked("counts") /\ CoversCount(answer["by_provider"], count, n)
        /\ Asked("by_status") =>
             /\ Asked("by_provider") /\ CoversCount(answer["by_status"], provided, n)
        /\ Asked("total") =>
             /\ Asked("by_status") /\ count <= answer["total"]
             /\ SumExecutions(answer["by_status"]) <= answer["total"]
    BY <2>1 DEF PageInv
  <2>6. /\ CountsHold(Counts(db, f), n)
        /\ InOrder(Savings(db, f)) /\ InOrder(Durations(db, f)) /\ InOrder(Latencies(db, f))
        /\ SavingsInOrder(Savings(db, f)) /\ EstimateHolds(EstimateDelta(db, f), input)
        /\ \A by, c : c <= n => CoversCount(Breakdown(db, f, by), c, n)
    BY PageAnswers DEF DataInv, TypeOK, ClockInv, FiguresInv
  <2> HIDE DEF n, input, provided, count
  <2>7. Asked("counts")' => CountsHold(answer'["counts"], n)
    BY <2>3, <2>4, <2>5, <2>6, AnswersPage
  <2>8. \A s \in {"savings", "durations", "latencies"} : Asked(s)' => InOrder(answer'[s])
    <3>1. Asked("savings")' => InOrder(answer'["savings"])
      BY <2>3, <2>4, <2>5, <2>6, AnswersPage
    <3>2. Asked("durations")' => InOrder(answer'["durations"])
      BY <2>3, <2>4, <2>5, <2>6, AnswersPage
    <3>3. Asked("latencies")' => InOrder(answer'["latencies"])
      BY <2>3, <2>4, <2>5, <2>6, AnswersPage
    <3>4. QED
      BY <3>1, <3>2, <3>3
  <2>9. Asked("savings")' => SavingsInOrder(answer'["savings"])
    BY <2>3, <2>4, <2>5, <2>6, AnswersPage
  <2>10. Asked("estimate")' => EstimateHolds(answer'["estimate"], input)
    BY <2>3, <2>4, <2>5, <2>6, AnswersPage
  <2>11. Asked("billing")' =>
           /\ Asked("estimate")' /\ BillHolds(answer'["billing"])
           /\ answer'["estimate"].reported <= answer'["billing"].reported
    <3>1. CASE Asked("billing")
      BY <2>3, <2>5, <3>1
    <3>2. CASE ~Asked("billing") /\ Asked("billing")'
      <4> DEFINE original == answer["counts"].tokens.original
                 bill == Billing(db, f, original)
      <4>1. Asked("counts") /\ Asked("estimate") /\ answer'["billing"] = bill
        BY <2>2, <2>4, <3>2, AnswersPage
      <4>2. original \in Nat
        BY <2>5, <4>1 DEF CountsHold
      <4>3. EstimateHolds(answer["estimate"], input)
        BY <2>5, <4>1
      <4> HIDE DEF original
      <4>4. BillHolds(bill) /\ bill.reported = input
        BY <4>2, BillingHolds DEF DataInv, TypeOK, FiguresInv, input
      <4> HIDE DEF bill
      <4>5. QED
        BY <2>3, <4>1, <4>3, <4>4 DEF EstimateHolds
    <3>3. QED
      BY <3>1, <3>2
  <2>12. Asked("by_provider")' =>
           Asked("counts")' /\ CoversCount(answer'["by_provider"], Done(answer'["counts"]), n)
    <3>1. CASE Asked("by_provider")
      BY <2>3, <2>5, <3>1 DEF count
    <3>2. CASE ~Asked("by_provider") /\ Asked("by_provider")'
      <4>1. Asked("counts") /\ answer'["by_provider"] = Breakdown(db, f, "provider")
        BY <2>2, <2>4, <3>2, AnswersPage
      <4>2. count <= n
        BY <2>5, <4>1 DEF CountsHold, count
      <4>3. QED
        BY <2>3, <2>6, <4>1, <4>2 DEF count
    <3>3. QED
      BY <3>1, <3>2
  <2>13. Asked("by_status")' =>
           /\ Asked("by_provider")'
           /\ CoversCount(answer'["by_status"], SumExecutions(answer'["by_provider"]), n)
    <3>1. CASE Asked("by_status")
      BY <2>3, <2>5, <3>1 DEF provided
    <3>2. CASE ~Asked("by_status") /\ Asked("by_status")'
      <4>1. Asked("by_provider") /\ answer'["by_status"] = Breakdown(db, f, "status")
        BY <2>2, <2>4, <3>2, AnswersPage
      <4>2. provided <= n
        BY <2>5, <4>1 DEF CoversCount, provided
      <4>3. QED
        BY <2>3, <2>6, <4>1, <4>2 DEF provided
    <3>3. QED
      BY <3>1, <3>2
  <2>14. Asked("total")' =>
           /\ Asked("by_status")' /\ Done(answer'["counts"]) <= answer'["total"]
           /\ SumExecutions(answer'["by_status"]) <= answer'["total"]
    <3>1. ASSUME Asked("by_status")
          PROVE  /\ Done(answer'["counts"]) = count /\ count <= n
                 /\ SumExecutions(answer'["by_status"]) = SumExecutions(answer["by_status"])
                 /\ SumExecutions(answer["by_status"]) <= n
      BY <2>3, <2>5, <3>1 DEF CountsHold, CoversCount, count
    <3>2. CASE Asked("total")
      BY <2>3, <2>5, <3>1, <3>2
    <3>3. CASE ~Asked("total") /\ Asked("total")'
      <4>1. Asked("by_status") /\ answer'["total"] = n
        BY <2>2, <2>4, <3>3, AnswersTotal DEF n
      <4>2. QED
        BY <2>3, <3>1, <4>1
    <3>4. QED
      BY <3>2, <3>3
  <2>15. n = Executions(db', query'.filter) /\ input = Input(db', query'.filter, "provider_reported")
    BY <1>2 DEF n, input
  <2>16. QED
    BY <2>7, <2>8, <2>9, <2>10, <2>11, <2>12, <2>13, <2>14, <2>15 DEF PageInv
<1>3. CASE DOMAIN answer' = {}
  BY <1>3 DEF PageInv, Asked
<1>4. QED
  BY <1>1, <1>2, <1>3, OthersKeepAnswers

\* On the dashboard the cached input is part of the input, the saving part of the
\* baseline, the distributions are in order and no later count misses what an
\* earlier one counted, whatever is committed between its statements
\* (routes_dashboard.py, dashboard_queries.py).
THEOREM PageAlwaysHoldsTogether == Spec => []PageHoldsTogether
<1> DEFINE Inv == DataInv /\ ClockInv /\ FiguresInv /\ PageInv
<1>1. ASSUME Inv PROVE PageHoldsTogether
  <2> SUFFICES ASSUME view = "page" PROVE PageHoldsTogether
    BY DEF PageHoldsTogether
  <2>1. Asked("billing") =>
          /\ answer["estimate"].reported <= answer["billing"].reported
          /\ answer["billing"].cached \in 0..answer["billing"].reported
          /\ answer["billing"].saved # None =>
               answer["billing"].saved <= 10 * answer["billing"].baseline
    BY <1>1 DEF PageInv, BillHolds
  <2>2. \A s \in {"savings", "durations", "latencies"} :
          Asked(s) /\ answer[s].count > 0 => answer[s].p50 <= answer[s].p90
    BY <1>1 DEF PageInv, InOrder
  <2>3. Asked("savings") /\ answer["savings"].count > 0 =>
          /\ answer["savings"].min <= answer["savings"].p50
          /\ answer["savings"].p90 <= answer["savings"].max
    BY <1>1 DEF PageInv, SavingsInOrder
  <2>4. Asked("total") =>
          /\ answer["counts"].tokens.failed + answer["counts"].tokens.succeeded
               <= answer["total"]
          /\ Cardinality(answer["by_provider"]) < BreakdownLimit =>
               answer["counts"].tokens.failed + answer["counts"].tokens.succeeded
                 <= SumExecutions(answer["by_provider"])
          /\ Cardinality(answer["by_status"]) < BreakdownLimit =>
               SumExecutions(answer["by_provider"]) <= SumExecutions(answer["by_status"])
          /\ SumExecutions(answer["by_status"]) <= answer["total"]
    BY <1>1 DEF PageInv, CoversCount, Done
  <2>5. QED
    BY <2>1, <2>2, <2>3, <2>4 DEF PageHoldsTogether
<1>2. Init => Inv
  BY DataInvInit, ClockInvInit, FiguresInvInit DEF Init, PageInv
<1>3. Inv /\ [Next]_vars => Inv'
  BY DataInvStep, ClockInvStep, FiguresInvStep, PageInvStep
<1>4. QED
  BY <1>1, <1>2, <1>3, PTL DEF Spec

\* What an endpoint answers is consistent although each of its statements ran on
\* a snapshot of its own: /stats, the dashboard, the records and the detail.
THEOREM AnswersAlwaysHoldTogether == Spec => []AnswersHoldTogether
<1>1. StatsHoldTogether /\ PageHoldsTogether /\ RecordsHoldTogether /\ DetailHoldsTogether
      <=> AnswersHoldTogether
  BY DEF AnswersHoldTogether
<1>2. QED
  BY <1>1, StatsAlwaysHoldTogether, PageAlwaysHoldsTogether, RecordsAlwaysHoldTogether,
     DetailAlwaysHoldsTogether, PTL

=============================================================================
