------------------------- MODULE IngestStoreProofs -------------------------
(***************************************************************************)
(* Proofs about IngestStore for any commands, handlers and number of       *)
(* faults.  The invariant says what an open transaction holds at each of   *)
(* its statements.                                                         *)
(***************************************************************************)
EXTENDS IngestStore, TLAPS

\* A key that an open transaction has inserted is held by it alone.
Locks ==
  \A h \in Handlers : \A k \in open[h] :
    /\ ~Stored(k)
    /\ \A g \in Handlers \ {h} : k \notin open[g]

\* The table's statement comes before the one the handler has reached.
Passed(h, table) == Rank[table] < Rank[pc[h]]

EventOpen(h) == Key("event", job[h]) \in open[h]

HandlerInv(h) ==
  /\ pc[h] = "idle" <=> job[h] = None
  /\ pc[h] \in {"idle", "event"} => open[h] = {}
  /\ \A k \in open[h] : \E table \in TablesOf(job[h]) :
       k = Key(table, job[h]) /\ Passed(h, table)
  /\ pc[h] \in InSavepoint \cup {"mark"} => EventOpen(h)
  /\ pc[h] \in InSavepoint \cup {"mark", "reply", "commit"} /\ EventOpen(h) =>
       \A table \in TablesOf(job[h]) : Passed(h, table) =>
         Key(table, job[h]) \in open[h] \/ Stored(Key(table, job[h]))
  /\ pc[h] # "raise" => \A table \in {"execution", "chunk"} : Passed(h, table) =>
       (Key(table, job[h]) \in open[h] <=> Key("request", job[h]) \in open[h])
  /\ pc[h] \in {"reply", "commit"} =>
       IF EventOpen(h) THEN mark[h] = "processed"
       ELSE open[h] = {} /\ Stored(Key("event", job[h]))

IInv ==
  /\ TypeOK
  /\ Locks
  /\ \A h \in Handlers : HandlerInv(h)
  /\ AppliedOnce
  /\ StoredWhole
  /\ RequestRowsAgree

-----------------------------------------------------------------------------
(* Keys and the order of the statements *)

LEMMA Ranks ==
  /\ Rank["idle"] = 0 /\ Rank["event"] = 1 /\ Rank["request"] = 2
  /\ Rank["config"] = 3 /\ Rank["execution"] = 4 /\ Rank["chunk"] = 5
  /\ Rank["call"] = 6 /\ Rank["mark"] = 7 /\ Rank["reply"] = 7
  /\ Rank["commit"] = 7 /\ Rank["raise"] = 7
BY DEF Rank, Statements, InSavepoint

\* Keys of different tables differ, and an event has a key of its own.
LEMMA KeysDiffer ==
  ASSUME NEW e, NEW f, NEW t \in Tables, NEW u \in Tables,
         Key(t, e) = Key(u, f)
  PROVE  t = u /\ (t = "event" => e = f)
BY DEF Key, Tables

LEMMA KeyIsKey ==
  ASSUME NEW e \in Events, NEW t \in TablesOf(e)
  PROVE  Key(t, e) \in Keys
BY DEF Keys, KeysOf

LEMMA SomeTables ==
  ASSUME NEW e
  PROVE  /\ {"event", "request", "config", "execution", "chunk"} \subseteq TablesOf(e)
         /\ TablesOf(e) \subseteq Tables
         /\ CallOf[e] # None => "call" \in TablesOf(e)
BY DEF TablesOf, Tables

-----------------------------------------------------------------------------
(* A step of one handler that makes no row visible *)

LEMMA QuietStep ==
  ASSUME IInv, NEW h \in Handlers,
         rows' = rows /\ status' = status /\ effects' = effects,
         TypeOK', HandlerInv(h)',
         \A g \in Handlers \ {h} :
           /\ pc'[g] = pc[g] /\ job'[g] = job[g]
           /\ open'[g] = open[g] /\ mark'[g] = mark[g],
         \A k \in open'[h] : k \in open[h] \/ (~Stored(k) /\ Free(h, k))
  PROVE  IInv'
<1>1. Locks'
  <2>1. \A k \in open'[h] : ~Stored(k)' /\ \A g \in Handlers \ {h} : k \notin open'[g]
    BY DEF IInv, Locks, Stored, Free, committed
  <2>2. \A g \in Handlers \ {h} : \A k \in open'[g] : ~Stored(k)'
    BY DEF IInv, Locks, Stored, committed
  <2>3. \A f, g \in Handlers \ {h} : \A k \in open'[f] : f # g => k \notin open'[g]
    BY DEF IInv, Locks
  <2>4. QED
    BY <2>1, <2>2, <2>3 DEF Locks
<1>2. ASSUME NEW g \in Handlers \ {h} PROVE HandlerInv(g)'
  BY DEF IInv, HandlerInv, EventOpen, Passed, Stored, committed
<1>3. (AppliedOnce /\ StoredWhole /\ RequestRowsAgree)'
  BY DEF IInv, AppliedOnce, StoredWhole, RequestRowsAgree, Stored, committed
<1>4. QED
  BY <1>1, <1>2, <1>3 DEF IInv

LEMMA RankSteps ==
  /\ \A t, u \in Tables : Rank[t] <= Rank[u] <=> Rank[t] < Rank[u] \/ t = u
  /\ \A s \in Statements : Rank[s] \in Nat
BY Ranks DEF Tables, Statements, InSavepoint

\* One statement of the savepoint: the key it is about is held or stored after
\* it, and the rows of the execution and the chunk are inserted exactly if the
\* request's row was.
LEMMA EnsureStep ==
  ASSUME IInv, NEW h \in Handlers,
         NEW table \in InSavepoint, NEW next \in InSavepoint \cup {"mark"},
         Rank[next] = Rank[table] + 1,
         table \in TablesOf(job[h]),
         Ensure(h, table, next)
  PROVE  IInv'
<1> DEFINE k == Key(table, job[h])
<1>1. /\ pc[h] = table /\ pc' = [pc EXCEPT ![h] = next]
      /\ open' = [open EXCEPT ![h] = IF Stored(k) THEN @ ELSE @ \cup {k}]
      /\ Free(h, k)
      /\ UNCHANGED <<committed, job, mark, acked, faults>>
  BY DEF Ensure, InsertOrSelect
<1>2. job[h] \in Events /\ pc \in [Handlers -> Statements] /\ open \in [Handlers -> SUBSET Keys]
  BY <1>1, StoreAssumption DEF IInv, TypeOK, HandlerInv, InSavepoint
<1>3. k \in Keys
  BY <1>2, KeyIsKey
<1>4. TypeOK'
  BY <1>1, <1>2, <1>3 DEF IInv, TypeOK, committed, Statements
<1>5. /\ pc'[h] = next /\ job'[h] = job[h] /\ mark'[h] = mark[h]
      /\ open'[h] = IF Stored(k) THEN open[h] ELSE open[h] \cup {k}
  BY <1>1, <1>2
<1>6. \A t \in Tables : Passed(h, t)' <=> Passed(h, t) \/ t = table
  <2>1. table \in Tables
    BY DEF Tables, InSavepoint
  <2>2. QED
    BY <1>1, <1>5, <2>1, RankSteps, Ranks DEF Passed, Tables, InSavepoint
<1>7. \A t \in Tables : Stored(Key(t, job[h]))' <=> Stored(Key(t, job[h]))
  BY <1>1 DEF Stored, committed
<1>8. TablesOf(job[h]) \subseteq Tables /\ table \in Tables
  BY SomeTables
<1>9. k \notin open[h]
  <2>1. ASSUME NEW t \in TablesOf(job[h]), k = Key(t, job[h]), Passed(h, t) PROVE FALSE
    <3>1. t = table
      BY <1>8, <2>1, KeysDiffer
    <3>2. QED
      BY <3>1, <2>1, <1>1, RankSteps, <1>8 DEF Passed, Statements, InSavepoint
  <2>2. QED
    BY <2>1 DEF IInv, HandlerInv
<1>10. HandlerInv(h)'
  <2>1. \A q \in open'[h] : \E t \in TablesOf(job[h]) : q = Key(t, job[h]) /\ Passed(h, t)'
    BY <1>5, <1>6, <1>8 DEF IInv, HandlerInv
  <2>2. EventOpen(h) /\ EventOpen(h)'
    BY <1>1, <1>5 DEF IInv, HandlerInv, EventOpen
  <2>3. \A t \in TablesOf(job[h]) : Passed(h, t)' =>
          Key(t, job[h]) \in open'[h] \/ Stored(Key(t, job[h]))'
    BY <1>1, <1>5, <1>6, <1>7, <1>8, <2>2 DEF IInv, HandlerInv
  <2>4. \A t \in {"execution", "chunk"} : Passed(h, t)' =>
          (Key(t, job[h]) \in open'[h] <=> Key("request", job[h]) \in open'[h])
    <3> SUFFICES ASSUME NEW t \in {"execution", "chunk"}, Passed(h, t)'
                 PROVE  Key(t, job[h]) \in open'[h] <=> Key("request", job[h]) \in open'[h]
      OBVIOUS
    <3>1. t \in Tables /\ "request" \in Tables /\ t # "request"
      BY DEF Tables
    <3>2. Key(t, job[h]) # Key("request", job[h])
      BY <3>1, KeysDiffer
    <3>3. CASE Passed(h, t)
      <4>1. t # table /\ table # "request"
        BY <3>3, <1>1, Ranks DEF Passed
      <4>2. Key(t, job[h]) # k /\ Key("request", job[h]) # k
        BY <4>1, <3>1, <1>8, KeysDiffer
      <4>3. QED
        BY <4>2, <3>3, <1>1, <1>5 DEF IInv, HandlerInv, InSavepoint
    <3>4. CASE t = table
      <4>1. rows[k] = rows[Key("request", job[h])]
        BY <3>4, <1>2 DEF IInv, RequestRowsAgree
      <4>2. Key("request", job[h]) \in open[h] \/ Stored(Key("request", job[h]))
        <5>1. Passed(h, "request") /\ "request" \in TablesOf(job[h])
          BY <3>4, <1>1, Ranks, SomeTables DEF Passed
        <5>2. QED
          BY <5>1, <1>1, <2>2 DEF IInv, HandlerInv
      <4>3. Key("request", job[h]) \in open[h] => ~Stored(Key("request", job[h]))
        BY DEF IInv, Locks
      <4>4. QED
        BY <4>1, <4>2, <4>3, <3>2, <3>4, <1>5, <1>9 DEF Stored
    <3>5. QED
      BY <3>1, <3>3, <3>4, <1>6
  <2>5. pc'[h] \notin {"idle", "event", "reply", "commit"} /\ job[h] # None
    BY <1>2, <1>5, StoreAssumption DEF InSavepoint
  <2>6. QED
    BY <1>5, <2>1, <2>2, <2>3, <2>4, <2>5 DEF HandlerInv, EventOpen
<1>11. \A g \in Handlers \ {h} :
          /\ pc'[g] = pc[g] /\ job'[g] = job[g]
          /\ open'[g] = open[g] /\ mark'[g] = mark[g]
  BY <1>1, <1>2
<1>12. \A q \in open'[h] : q \in open[h] \/ (~Stored(q) /\ Free(h, q))
  BY <1>1, <1>5
<1>13. rows' = rows /\ status' = status /\ effects' = effects
  BY <1>1 DEF committed
<1>14. QED
  BY <1>4, <1>10, <1>11, <1>12, <1>13, QuietStep

-----------------------------------------------------------------------------
(* The other steps of a handler that make no row visible *)

LEMMA StartStep ==
  ASSUME IInv, NEW h \in Handlers, NEW e \in Events, Receive(h, e)
  PROVE  IInv'
<1>1. TypeOK'
  BY DEF Receive, IInv, TypeOK, committed, Statements
<1>2. pc'[h] = "event" /\ job'[h] = e /\ open' = open /\ open[h] = {}
  BY DEF Receive, IInv, TypeOK, HandlerInv
<1>3. HandlerInv(h)'
  BY <1>2, Ranks, StoreAssumption DEF HandlerInv, Passed, InSavepoint
<1>4. QED
  BY <1>1, <1>2, <1>3, QuietStep DEF Receive, IInv, TypeOK, committed

LEMMA EventStep ==
  ASSUME IInv, NEW h \in Handlers, InsertEvent(h) \/ FindDuplicate(h)
  PROVE  IInv'
<1> DEFINE k == Key("event", job[h])
<1>1. /\ pc[h] = "event" /\ job[h] \in Events /\ open[h] = {} /\ job' = job
      /\ pc \in [Handlers -> Statements] /\ open \in [Handlers -> SUBSET Keys]
      /\ mark \in [Handlers -> {"none", "received", "processed", "failed"}]
  BY StoreAssumption DEF InsertEvent, FindDuplicate, IInv, TypeOK, HandlerInv
<1>2. k \in Keys
  BY <1>1, KeyIsKey, SomeTables
<1>3. rows' = rows /\ status' = status /\ effects' = effects
  BY DEF InsertEvent, FindDuplicate, committed
<1>4. /\ open' = [open EXCEPT ![h] = IF Stored(k) THEN @ ELSE @ \cup {k}]
      /\ Free(h, k)
  BY DEF InsertEvent, FindDuplicate, InsertOrSelect
<1>5. \A g \in Handlers \ {h} :
        /\ pc'[g] = pc[g] /\ job'[g] = job[g]
        /\ open'[g] = open[g] /\ mark'[g] = mark[g]
  BY <1>1, <1>4 DEF InsertEvent, FindDuplicate
<1>6. CASE InsertEvent(h)
  <2>1. TypeOK'
    BY <1>1, <1>2, <1>3, <1>4, <1>6 DEF InsertEvent, IInv, TypeOK, Statements, InSavepoint
  <2>2. pc'[h] = "request" /\ open'[h] = {k}
    BY <1>1, <1>4, <1>6 DEF InsertEvent
  <2>3. \A t \in Tables : Passed(h, t)' <=> t = "event"
    BY <2>2, Ranks DEF Passed, Tables
  <2>4. HandlerInv(h)'
    BY <1>1, <2>2, <2>3, SomeTables, StoreAssumption
    DEF HandlerInv, EventOpen, Tables, InSavepoint
  <2>5. QED
    BY <1>3, <1>4, <1>5, <2>1, <2>2, <2>4, QuietStep, <1>6 DEF InsertEvent
<1>7. CASE FindDuplicate(h)
  <2>1. TypeOK'
    BY <1>1, <1>2, <1>3, <1>4, <1>7 DEF FindDuplicate, IInv, TypeOK, Statements
  <2>2. pc'[h] = "reply" /\ open'[h] = {} /\ Stored(k) /\ Stored(k)'
    BY <1>1, <1>3, <1>4, <1>7 DEF FindDuplicate, Stored
  <2>3. HandlerInv(h)'
    BY <1>1, <2>2, StoreAssumption DEF HandlerInv, EventOpen, InSavepoint
  <2>4. QED
    BY <1>3, <1>5, <2>1, <2>2, <2>3, QuietStep
<1>8. QED
  BY <1>6, <1>7

\* A command without a provider call has no row in the last table.
LEMMA NoCallStep ==
  ASSUME IInv, NEW h \in Handlers,
         pc[h] = "call", CallOf[job[h]] = None,
         pc' = [pc EXCEPT ![h] = "mark"],
         UNCHANGED <<committed, job, open, mark, acked, faults>>
  PROVE  IInv'
<1>1. TypeOK'
  BY DEF IInv, TypeOK, committed, Statements
<1>2. pc'[h] = "mark"
  BY DEF IInv, TypeOK
<1>3. \A t \in TablesOf(job[h]) : Passed(h, t)' <=> Passed(h, t)
  BY <1>2, Ranks DEF Passed, TablesOf, Tables
<1>4. HandlerInv(h)'
  <2>1. {"execution", "chunk"} \subseteq TablesOf(job[h])
    BY SomeTables
  <2>2. QED
    BY <1>2, <1>3, <2>1 DEF IInv, HandlerInv, EventOpen, Stored, committed, InSavepoint
<1>5. QED
  BY <1>1, <1>4, QuietStep DEF IInv, TypeOK, committed

LEMMA ReplyStep ==
  ASSUME IInv, NEW h \in Handlers,
         MarkProcessed(h) \/ \E heard \in BOOLEAN : Reply(h, heard)
  PROVE  IInv'
<1>1. job[h] \in Events
  BY StoreAssumption DEF MarkProcessed, Reply, IInv, TypeOK, HandlerInv
<1>2. TypeOK'
  BY <1>1 DEF MarkProcessed, Reply, IInv, TypeOK, committed, Statements
<1>3. /\ open' = open /\ job' = job
      /\ rows' = rows /\ status' = status /\ effects' = effects
  BY DEF MarkProcessed, Reply, committed
<1>4. \A t \in Tables : Passed(h, t)' <=> Passed(h, t)
  BY Ranks DEF MarkProcessed, Reply, IInv, TypeOK, Passed, Tables
<1>5. HandlerInv(h)'
  <2>1. TablesOf(job[h]) \subseteq Tables /\ {"execution", "chunk"} \subseteq Tables
    BY SomeTables DEF Tables
  <2>2. \A q \in open[h] : \E t \in TablesOf(job[h]) :
          q = Key(t, job[h]) /\ Passed(h, t)'
    BY <2>1, <1>4 DEF IInv, HandlerInv
  <2>3. CASE MarkProcessed(h)
    BY <1>1, <1>3, <1>4, <2>1, <2>2, <2>3, StoreAssumption
    DEF MarkProcessed, IInv, TypeOK, HandlerInv, EventOpen, Stored, InSavepoint
  <2>4. CASE \E heard \in BOOLEAN : Reply(h, heard)
    BY <1>1, <1>3, <1>4, <2>1, <2>2, <2>4, StoreAssumption
    DEF Reply, IInv, TypeOK, HandlerInv, EventOpen, Stored, InSavepoint
  <2>5. QED
    BY <2>3, <2>4
<1>6. QED
  BY <1>2, <1>3, <1>5, QuietStep DEF MarkProcessed, Reply, IInv, TypeOK

LEMMA FailStep ==
  ASSUME IInv, NEW h \in Handlers, IngestFails(h) \/ StatementFails(h)
  PROVE  IInv'
<1>1. job[h] \in Events /\ pc'[h] = "raise" /\ job' = job
  BY StoreAssumption
  DEF IngestFails, StatementFails, IInv, TypeOK, HandlerInv, InSavepoint
<1>2. rows' = rows /\ status' = status /\ effects' = effects
  BY DEF IngestFails, StatementFails, committed
<1>3. open'[h] \subseteq open[h]
  BY DEF IngestFails, StatementFails, IInv, TypeOK, HandlerInv, EventOpen
<1>4. TypeOK'
  BY <1>1, <1>3, StoreAssumption
  DEF IngestFails, StatementFails, Fault, IInv, TypeOK, committed, Statements
<1>5. HandlerInv(h)'
  <2>1. \A t \in Tables : Passed(h, t) => Passed(h, t)'
    BY <1>1, Ranks
    DEF IngestFails, StatementFails, InSavepoint, Passed, Tables
  <2>2. QED
    BY <1>1, <1>3, <2>1, SomeTables, StoreAssumption DEF IInv, HandlerInv, InSavepoint
<1>6. QED
  BY <1>2, <1>3, <1>4, <1>5, QuietStep DEF IngestFails, StatementFails, IInv, TypeOK

LEMMA RollbackStep ==
  ASSUME IInv, NEW h \in Handlers, EndTransaction(h),
         rows' = rows /\ status' = status /\ effects' = effects,
         acked' = acked, faults' \in 0..MaxFaults
  PROVE  IInv'
<1>1. TypeOK'
  BY DEF EndTransaction, IInv, TypeOK, Statements
<1>2. pc'[h] = "idle" /\ job'[h] = None /\ open'[h] = {}
  BY DEF EndTransaction, IInv, TypeOK
<1>3. HandlerInv(h)'
  BY <1>2, Ranks DEF HandlerInv, Passed, InSavepoint
<1>4. QED
  BY <1>1, <1>2, <1>3, QuietStep DEF EndTransaction, IInv, TypeOK

LEMMA CrashStep ==
  ASSUME IInv, Crash
  PROVE  IInv'
<1>1. TypeOK'
  BY StoreAssumption DEF Crash, Fault, IInv, TypeOK, committed, Statements
<1>2. \A h \in Handlers : pc'[h] = "idle" /\ job'[h] = None /\ open'[h] = {}
  BY DEF Crash
<1>3. ASSUME NEW h \in Handlers PROVE HandlerInv(h)'
  BY <1>2, Ranks DEF HandlerInv, Passed, InSavepoint
<1>4. Locks'
  BY <1>2 DEF Locks
<1>5. (AppliedOnce /\ StoredWhole /\ RequestRowsAgree)'
  BY DEF Crash, IInv, AppliedOnce, StoredWhole, RequestRowsAgree, Stored, committed
<1>6. QED
  BY <1>1, <1>3, <1>4, <1>5 DEF IInv

-----------------------------------------------------------------------------
(* Commit *)

LEMMA SameRequest ==
  ASSUME NEW e, NEW f, NEW t \in {"request", "execution", "chunk"},
         NEW u \in {"request", "execution", "chunk"}, Key(t, e) = Key(t, f)
  PROVE  Key(u, e) = Key(u, f)
BY DEF Key

\* A transaction that has inserted its event holds or sees all its keys, so the
\* event becomes visible whole.
LEMMA CommitStep ==
  ASSUME IInv, NEW h \in Handlers, Commit(h)
  PROVE  IInv'
<1> DEFINE e == job[h]
<1>1. /\ pc[h] = "commit" /\ e \in Events /\ e # None
      /\ rows \in [Keys -> Events \cup {None}] /\ open[h] \subseteq Keys
      /\ rows' = [k \in Keys |-> IF k \in open[h] THEN e ELSE rows[k]]
      /\ EndTransaction(h) /\ acked' = acked /\ faults' = faults
  BY StoreAssumption DEF Commit, CommitRows, IInv, TypeOK, HandlerInv
<1>2. CASE ~EventOpen(h)
  <2>1. open[h] = {}
    BY <1>1, <1>2 DEF IInv, HandlerInv
  <2>2. rows' = rows
    BY <1>1, <2>1
  <2>3. status' = status /\ effects' = effects
    BY <1>2 DEF Commit, CommitRows, EventOpen
  <2>4. QED
    BY <1>1, <2>2, <2>3, RollbackStep DEF IInv, TypeOK
<1>3. CASE EventOpen(h)
  <2>1. /\ mark[h] = "processed"
        /\ status' = [status EXCEPT ![e] = "processed"]
        /\ effects' = [effects EXCEPT ![e] = @ + 1]
    BY <1>1, <1>3 DEF IInv, HandlerInv, Commit, CommitRows, EventOpen
  <2>2. \A k \in Keys : Stored(k)' <=> Stored(k) \/ k \in open[h]
    BY <1>1 DEF Stored
  <2>3. \A t \in Tables : Passed(h, t)
    BY <1>1, Ranks DEF Passed, Tables
  <2>4. \A k \in KeysOf(e) : k \in Keys /\ Stored(k)'
    <3>1. ASSUME NEW t \in TablesOf(e)
          PROVE  Key(t, e) \in Keys /\ (Key(t, e) \in open[h] \/ Stored(Key(t, e)))
      <4>1. Key(t, e) \in Keys /\ Passed(h, t)
        BY <1>1, <2>3, KeyIsKey, SomeTables
      <4>2. QED
        BY <1>1, <1>3, <4>1 DEF IInv, HandlerInv
    <3>2. \A k \in KeysOf(e) : k \in Keys /\ (k \in open[h] \/ Stored(k))
      BY <3>1 DEF KeysOf
    <3>3. QED
      BY <2>2, <3>2
  <2>5. \A k \in open[h] : \E t \in TablesOf(e) : k = Key(t, e)
    BY DEF IInv, HandlerInv
  <2>6. \A f \in Events : f # e => Key("event", f) \notin open[h]
    BY <2>5, KeysDiffer, SomeTables DEF Tables
  <2>7. TypeOK'
    BY <1>1, <2>1 DEF EndTransaction, IInv, TypeOK, Statements
  <2>8. \A g \in Handlers \ {h} :
          /\ pc'[g] = pc[g] /\ job'[g] = job[g]
          /\ open'[g] = open[g] /\ mark'[g] = mark[g] /\ open[g] \subseteq Keys
    BY <1>1 DEF EndTransaction, IInv, TypeOK
  <2>9. pc'[h] = "idle" /\ job'[h] = None /\ open'[h] = {}
    BY <1>1 DEF EndTransaction, IInv, TypeOK
  <2>10. Locks'
    <3>1. ASSUME NEW g \in Handlers \ {h}, NEW k \in open[g]
          PROVE  ~Stored(k)' /\ \A i \in Handlers \ {g} : k \notin open'[i]
      <4>1. k \in Keys /\ ~Stored(k) /\ \A i \in Handlers \ {g} : k \notin open[i]
        BY <2>8, <3>1 DEF IInv, Locks
      <4>2. QED
        BY <2>2, <2>8, <2>9, <4>1
    <3>2. QED
      BY <2>8, <2>9, <3>1 DEF Locks
  <2>11. ASSUME NEW g \in Handlers PROVE HandlerInv(g)'
    <3>1. CASE g = h
      BY <3>1, <2>9, Ranks DEF HandlerInv, Passed, InSavepoint
    <3>2. CASE g # h
      <4>1. /\ pc'[g] = pc[g] /\ job'[g] = job[g]
            /\ open'[g] = open[g] /\ mark'[g] = mark[g]
        BY <2>8, <3>2
      <4>2. HandlerInv(g)
        BY DEF IInv
      <4>3. ASSUME NEW t \in TablesOf(job[g]), job[g] \in Events, Stored(Key(t, job[g]))
            PROVE  Stored(Key(t, job[g]))'
        BY <2>2, <4>1, <4>3, KeyIsKey DEF Stored
      <4>4. pc[g] # "idle" => job[g] \in Events
        BY <4>2 DEF IInv, TypeOK, HandlerInv
      <4>5. "event" \in TablesOf(job[g])
        BY SomeTables
      <4>6. pc[g] \in {"reply", "commit"} =>
              IF EventOpen(g) THEN mark[g] = "processed"
              ELSE open[g] = {} /\ Stored(Key("event", job[g]))'
        BY <4>2, <4>3, <4>4, <4>5 DEF HandlerInv
      <4>7. pc[g] \in InSavepoint \cup {"mark", "reply", "commit"} /\ EventOpen(g) =>
              \A table \in TablesOf(job[g]) : Passed(g, table) =>
                Key(table, job[g]) \in open[g] \/ Stored(Key(table, job[g]))'
        <5>1. pc[g] \in InSavepoint \cup {"mark", "reply", "commit"} => pc[g] # "idle"
          BY DEF InSavepoint
        <5>2. QED
          BY <5>1, <4>2, <4>3, <4>4 DEF HandlerInv
      <4>8. QED
        BY <4>1, <4>2, <4>6, <4>7 DEF HandlerInv, EventOpen, Passed
    <3>3. QED
      BY <3>1, <3>2
  <2>12. AppliedOnce'
    <3>1. ASSUME NEW f \in Events
          PROVE  effects'[f] = IF Stored(Key("event", f))' THEN 1 ELSE 0
      <4>1. Key("event", f) \in Keys
        BY KeyIsKey, SomeTables
      <4>2. CASE f = e
        BY <1>3, <2>1, <2>2, <4>1, <4>2
        DEF IInv, TypeOK, Locks, AppliedOnce, EventOpen
      <4>3. CASE f # e
        BY <2>1, <2>2, <2>6, <4>1, <4>3 DEF IInv, TypeOK, AppliedOnce
      <4>4. QED
        BY <4>2, <4>3
    <3>2. QED
      BY <3>1 DEF AppliedOnce
  <2>13. StoredWhole'
    <3>1. ASSUME NEW f \in Events, Stored(Key("event", f))'
          PROVE  status'[f] = "processed" /\ \A k \in KeysOf(f) : Stored(k)'
      <4>1. CASE f = e
        BY <1>1, <2>1, <2>4, <4>1 DEF IInv, TypeOK
      <4>2. CASE f # e
        <5>1. Key("event", f) \in Keys /\ KeysOf(f) \subseteq Keys
          BY KeyIsKey, SomeTables DEF KeysOf
        <5>2. Stored(Key("event", f))
          BY <2>2, <2>6, <3>1, <4>2, <5>1
        <5>3. QED
          BY <2>1, <2>2, <4>2, <5>1, <5>2 DEF IInv, TypeOK, StoredWhole
      <4>3. QED
        BY <4>1, <4>2
    <3>2. QED
      BY <3>1 DEF StoredWhole
  <2>14. RequestRowsAgree'
    <3>1. ASSUME NEW f \in Events, NEW t \in {"execution", "chunk"}
          PROVE  rows'[Key(t, f)] = rows'[Key("request", f)]
      <4>1. Key(t, f) \in Keys /\ Key("request", f) \in Keys
        BY KeyIsKey, SomeTables
      <4>2. rows[Key(t, f)] = rows[Key("request", f)]
        BY DEF IInv, RequestRowsAgree
      <4>3. Key(t, e) \in open[h] <=> Key("request", e) \in open[h]
        BY <1>1, <2>3 DEF IInv, HandlerInv, Tables
      <4>4. Key(t, f) \in open[h] => Key(t, f) = Key(t, e)
        BY <2>5, KeysDiffer, SomeTables DEF Tables
      <4>5. Key("request", f) \in open[h] => Key("request", f) = Key("request", e)
        BY <2>5, KeysDiffer, SomeTables DEF Tables
      <4>6. Key(t, f) \in open[h] <=> Key("request", f) \in open[h]
        BY <4>3, <4>4, <4>5, SameRequest
      <4>7. QED
        BY <1>1, <4>1, <4>2, <4>6
    <3>2. QED
      BY <3>1 DEF RequestRowsAgree
  <2>15. QED
    BY <2>7, <2>10, <2>11, <2>12, <2>13, <2>14 DEF IInv
<1>4. QED
  BY <1>2, <1>3

-----------------------------------------------------------------------------
LEMMA InitIInv == Init => IInv
<1> SUFFICES ASSUME Init PROVE IInv
  OBVIOUS
<1>1. TypeOK
  BY StoreAssumption DEF Init, TypeOK, Statements
<1>2. \A k \in Keys : ~Stored(k)
  BY DEF Init, Stored
<1>3. \A e \in Events : \A t \in TablesOf(e) : Key(t, e) \in Keys
  BY KeyIsKey
<1>4. AppliedOnce /\ StoredWhole /\ RequestRowsAgree
  BY <1>2, <1>3, SomeTables DEF Init, AppliedOnce, StoredWhole, RequestRowsAgree
<1>5. Locks
  BY DEF Init, Locks
<1>6. \A h \in Handlers : HandlerInv(h)
  BY Ranks DEF Init, HandlerInv, Passed, InSavepoint
<1>7. QED
  BY <1>1, <1>4, <1>5, <1>6 DEF IInv

LEMMA EnsureSteps ==
  ASSUME IInv, NEW h \in Handlers,
         \/ EnsureRequest(h) \/ EnsureConfig(h) \/ EnsureExecution(h)
         \/ InsertChunks(h) \/ InsertProviderCalls(h)
  PROVE  IInv'
<1>1. CASE EnsureRequest(h)
  BY <1>1, EnsureStep, SomeTables, Ranks DEF EnsureRequest, InSavepoint
<1>2. CASE EnsureConfig(h)
  BY <1>2, EnsureStep, SomeTables, Ranks DEF EnsureConfig, InSavepoint
<1>3. CASE EnsureExecution(h)
  BY <1>3, EnsureStep, SomeTables, Ranks DEF EnsureExecution, InSavepoint
<1>4. CASE InsertChunks(h)
  BY <1>4, EnsureStep, SomeTables, Ranks DEF InsertChunks, InSavepoint
<1>5. CASE InsertProviderCalls(h)
  <2>1. CASE pc[h] = "call" /\ CallOf[job[h]] # None /\ Ensure(h, "call", "mark")
    BY <2>1, EnsureStep, SomeTables, Ranks DEF InSavepoint
  <2>2. CASE ~(CallOf[job[h]] # None /\ Ensure(h, "call", "mark"))
    BY <1>5, <2>2, NoCallStep DEF InsertProviderCalls
  <2>3. QED
    BY <1>5, <2>1, <2>2 DEF InsertProviderCalls
<1>6. QED
  BY <1>1, <1>2, <1>3, <1>4, <1>5

LEMMA NextIInv == IInv /\ [Next]_vars => IInv'
<1> SUFFICES ASSUME IInv, [Next]_vars PROVE IInv'
  OBVIOUS
<1>1. CASE UNCHANGED vars
  BY <1>1 DEF vars, IInv, TypeOK, Locks, HandlerInv, EventOpen, Passed, AppliedOnce,
              StoredWhole, RequestRowsAgree, Stored
<1>2. CASE Crash
  BY <1>2, CrashStep
<1>3. ASSUME NEW h \in Handlers, NEW e \in Events, Receive(h, e) PROVE IInv'
  BY <1>3, StartStep
<1>4. ASSUME NEW h \in Handlers, Work(h) PROVE IInv'
  <2>1. CASE InsertEvent(h) \/ FindDuplicate(h)
    BY <2>1, EventStep
  <2>2. CASE \/ EnsureRequest(h) \/ EnsureConfig(h) \/ EnsureExecution(h)
             \/ InsertChunks(h) \/ InsertProviderCalls(h)
    BY <2>2, EnsureSteps
  <2>3. CASE MarkProcessed(h) \/ \E heard \in BOOLEAN : Reply(h, heard)
    BY <2>3, ReplyStep
  <2>4. CASE Commit(h)
    BY <2>4, CommitStep
  <2>5. CASE Raise(h)
    BY <2>5, RollbackStep DEF Raise, committed, IInv, TypeOK
  <2>6. QED
    BY <1>4, <2>1, <2>2, <2>3, <2>4, <2>5 DEF Work
<1>5. ASSUME NEW h \in Handlers, Breaks(h) PROVE IInv'
  <2>1. CASE IngestFails(h) \/ StatementFails(h)
    BY <2>1, FailStep
  <2>2. CASE CommitFails(h)
    BY <2>2, RollbackStep, StoreAssumption
    DEF CommitFails, Fault, committed, IInv, TypeOK
  <2>3. QED
    BY <1>5, <2>1, <2>2 DEF Breaks
<1>6. QED
  BY <1>1, <1>2, <1>3, <1>4, <1>5 DEF Next

-----------------------------------------------------------------------------
(* The theorems *)

\* The invariant holds in every reachable state of the backend.
THEOREM StoreInvariance == Spec => []IInv
BY InitIInv, NextIInv, PTL DEF Spec

\* The variables keep their types.
THEOREM StoreTypeCorrect == Spec => []TypeOK
BY StoreInvariance, PTL DEF IInv

\* Ingestion is idempotent and atomic: a post repeated any number of times,
\* concurrently or after a failure, inserts its usage rows in one transaction
\* only, and an event is visible with all of its rows or not at all.
THEOREM IngestionIsIdempotent == Spec => []AppliedWholeOnce
<1>1. IInv => AppliedWholeOnce
  BY DEF IInv, AppliedWholeOnce
<1>2. QED
  BY <1>1, StoreInvariance, PTL

\* The request, execution and chunk rows of a request come from one event.
THEOREM FirstWriterOwnsRequest == Spec => []RequestRowsAgree
BY StoreInvariance, PTL DEF IInv

\* A handler answers duplicate only for an event that has committed.
THEOREM DuplicatesAreStored == Spec => []DuplicateIsStored
<1>1. IInv => DuplicateIsStored
  BY DEF IInv, HandlerInv, EventOpen, DuplicateIsStored
<1>2. QED
  BY <1>1, StoreInvariance, PTL

\* No deadlock between transactions: a handler waits only for handlers that are
\* at later statements.
THEOREM NoDeadlock == Spec => []WaitsAreOrdered
<1>1. ASSUME IInv, NEW h \in Handlers, NEW g \in Handlers, WaitsFor(h, g)
      PROVE  Rank[pc[h]] < Rank[pc[g]]
  <2>1. pc[h] \in Tables /\ Key(pc[h], job[h]) \in open[g]
    BY <1>1 DEF WaitsFor, Tables, InSavepoint
  <2>2. PICK t \in TablesOf(job[g]) : Key(pc[h], job[h]) = Key(t, job[g]) /\ Passed(g, t)
    BY <1>1, <2>1 DEF IInv, HandlerInv
  <2>3. t = pc[h]
    BY <2>1, <2>2, SomeTables, KeysDiffer
  <2>4. QED
    BY <2>2, <2>3 DEF Passed
<1>2. IInv => WaitsAreOrdered
  BY <1>1 DEF WaitsAreOrdered
<1>3. QED
  BY <1>2, StoreInvariance, PTL

\* Seen from outside, each event is stored by one step, with its one effect:
\* the commit of the transaction that inserted it.
THEOREM StoreImplementsIdempotentIngest == Spec => ImplementsIdempotentIngest
<1>1. Init => Abstract!Init
  <2>1. \A e \in Events : Key("event", e) \in Keys
    BY KeyIsKey, SomeTables
  <2>2. QED
    BY <2>1 DEF Init, Abstract!Init, Stored
<1>2. ASSUME IInv, [Next]_vars
      PROVE  [Abstract!Next]_(Abstract!vars)
  <2>1. CASE UNCHANGED committed
    BY <2>1 DEF committed, Abstract!vars, Stored
  <2>2. ASSUME NEW h \in Handlers, Commit(h)
        PROVE  [Abstract!Next]_(Abstract!vars)
    <3> DEFINE e == job[h]
    <3>1. /\ e \in Events /\ e # None /\ open[h] \subseteq Keys
          /\ rows \in [Keys -> Events \cup {None}]
          /\ rows' = [k \in Keys |-> IF k \in open[h] THEN e ELSE rows[k]]
      BY <1>2, <2>2, StoreAssumption DEF Commit, CommitRows, IInv, TypeOK, HandlerInv
    <3>2. CASE ~EventOpen(h)
      <4>1. open[h] = {} /\ status' = status /\ effects' = effects
        BY <1>2, <2>2, <3>2
        DEF IInv, HandlerInv, Commit, CommitRows, EventOpen
      <4>2. rows' = rows
        BY <3>1, <4>1
      <4>3. QED
        BY <2>1, <4>1, <4>2 DEF committed
    <3>3. CASE EventOpen(h)
      <4>1. \A f \in Events : Key("event", f) \in open[h] <=> f = e
        <5>1. \A k \in open[h] : \E t \in TablesOf(e) : k = Key(t, e)
          BY <1>2 DEF IInv, HandlerInv
        <5>2. QED
          BY <3>3, <5>1, KeysDiffer, SomeTables DEF EventOpen, Tables
      <4>2. \A f \in Events : Key("event", f) \in Keys
        BY KeyIsKey, SomeTables
      <4>3. \A f \in Events : Stored(Key("event", f))' <=> Stored(Key("event", f)) \/ f = e
        BY <3>1, <4>1, <4>2 DEF Stored
      <4>4. ~Stored(Key("event", e))
        BY <1>2, <3>3 DEF IInv, Locks, EventOpen
      <4>5. effects' = [effects EXCEPT ![e] = @ + 1]
        BY <2>2, <3>3 DEF Commit, CommitRows, EventOpen
      <4>6. {f \in Events : Stored(Key("event", f))}' =
              {f \in Events : Stored(Key("event", f))} \cup {e}
        BY <3>1, <4>3
      <4>7. Abstract!Store(e)
        BY <3>1, <4>4, <4>5, <4>6 DEF Abstract!Store
      <4>8. QED
        BY <3>1, <4>7 DEF Abstract!Next
    <3>4. QED
      BY <3>2, <3>3
  <2>3. (\E h \in Handlers : Commit(h)) \/ UNCHANGED committed
    BY <1>2 DEF Next, Work, Breaks, vars, committed, Receive, InsertEvent, FindDuplicate,
       EnsureRequest, EnsureConfig, EnsureExecution, InsertChunks, InsertProviderCalls,
       Ensure, MarkProcessed, Reply, Raise, IngestFails, StatementFails, CommitFails, Crash
  <2>4. QED
    BY <2>1, <2>2, <2>3
<1>3. QED
  BY <1>1, <1>2, StoreInvariance, PTL DEF Spec, ImplementsIdempotentIngest, Abstract!Spec
=============================================================================
