---------------------------- MODULE IngestStore ----------------------------
(***************************************************************************)
(* The analytics backend's ingestion: POST /ingest/compression (and PUT    *)
(* /headroom/ccr, which ingests the same kind of command), one database    *)
(* transaction per request, AnalyticsPostgresRepository inside it.  An     *)
(* action is one SQL statement of one handler.  PostgreSQL runs at READ    *)
(* COMMITTED: INSERT ... ON CONFLICT DO NOTHING on a key that another open *)
(* transaction has inserted waits until that one ends.  The dependency     *)
(* get_session commits when it is closed, which FastAPI does after the     *)
(* response has been sent.                                                 *)
(*                                                                         *)
(* A command here is one the repository's clients send: one execution      *)
(* attempt that is not simulated, one chunk with ordinal 0, at most one    *)
(* provider call.                                                          *)
(***************************************************************************)
EXTENDS Naturals

CONSTANTS
  Events,     \* ingestion commands, one per (source, event_type, event_key)
  Requests, Configs, Calls,   \* request keys, config hashes, call keys
  RequestOf, ConfigOf,        \* command -> its request key, its config hash
  CallOf,     \* command -> the key of its provider call, or None
  Handlers,   \* request handlers, each with a database session
  MaxFaults,  \* bound on failing statements, failing commits and crashes
  None

ASSUME StoreAssumption ==
  /\ RequestOf \in [Events -> Requests]
  /\ ConfigOf \in [Events -> Configs]
  /\ CallOf \in [Events -> Calls \cup {None}]
  /\ None \notin Events /\ None \notin Calls
  /\ MaxFaults \in Nat

VARIABLES
  rows,     \* unique key -> the event whose transaction inserted the row
  status,   \* event -> status column of its committed ingestion event
  effects,  \* event -> committed transactions that inserted its usage rows
  pc,       \* handler -> the statement it is about to execute
  job,      \* handler -> the command it ingests
  open,     \* handler -> unique keys its open transaction has inserted
  mark,     \* handler -> status of the event inside the open transaction
  acked,    \* events whose sender has had a 2xx answer
  faults    \* faults so far

vars == <<rows, status, effects, pc, job, open, mark, acked, faults>>
committed == <<rows, status, effects>>

Tables == {"event", "request", "config", "execution", "chunk", "call"}

\* The unique key of the command's row in a table.  The execution is keyed by
\* its request (attempt 1), the chunk by its execution (ordinal 0).
Key(table, e) ==
  CASE table = "event"  -> <<table, e>>
    [] table \in {"request", "execution", "chunk"} -> <<table, RequestOf[e]>>
    [] table = "config" -> <<table, ConfigOf[e]>>
    [] table = "call"   -> <<table, CallOf[e]>>

\* Tables a command has a row in.
TablesOf(e) == IF CallOf[e] = None THEN Tables \ {"call"} ELSE Tables

KeysOf(e) == {Key(table, e) : table \in TablesOf(e)}

Keys == UNION {KeysOf(e) : e \in Events}

\* Inside begin_nested(): the savepoint that holds all but the event row.
InSavepoint == {"request", "config", "execution", "chunk", "call"}

Statements == {"idle", "event", "mark", "reply", "commit", "raise"} \cup InSavepoint

TypeOK ==
  /\ rows \in [Keys -> Events \cup {None}]
  /\ status \in [Events -> {"none", "received", "processed", "failed"}]
  /\ effects \in [Events -> Nat]
  /\ pc \in [Handlers -> Statements]
  /\ job \in [Handlers -> Events \cup {None}]
  /\ open \in [Handlers -> SUBSET Keys]
  /\ mark \in [Handlers -> {"none", "received", "processed", "failed"}]
  /\ acked \subseteq Events
  /\ faults \in 0..MaxFaults

Init ==
  /\ rows = [k \in Keys |-> None]
  /\ status = [e \in Events |-> "none"]
  /\ effects = [e \in Events |-> 0]
  /\ pc = [h \in Handlers |-> "idle"]
  /\ job = [h \in Handlers |-> None]
  /\ open = [h \in Handlers |-> {}]
  /\ mark = [h \in Handlers |-> "none"]
  /\ acked = {} /\ faults = 0

-----------------------------------------------------------------------------
(* PostgreSQL *)

Stored(k) == rows[k] # None

\* No other open transaction holds the key, so that ON CONFLICT can decide.
Free(h, k) == \A g \in Handlers \ {h} : k \notin open[g]

\* Mutant of InsertOrSelect: SELECT, then INSERT where the SELECT found nothing.
SelectThenInsert(h, k) ==
  open' = [open EXCEPT ![h] = IF Stored(k) THEN @ ELSE @ \cup {k}]

\* INSERT ... ON CONFLICT DO NOTHING, then SELECT when it returned no row.
InsertOrSelect(h, k) ==
  /\ Free(h, k)
  /\ open' = [open EXCEPT ![h] = IF Stored(k) THEN @ ELSE @ \cup {k}]

\* The transaction is over and the handler's session goes back to the pool.
EndTransaction(h) ==
  /\ pc' = [pc EXCEPT ![h] = "idle"]
  /\ job' = [job EXCEPT ![h] = None]
  /\ open' = [open EXCEPT ![h] = {}]
  /\ mark' = [mark EXCEPT ![h] = "none"]

Fault ==
  /\ faults < MaxFaults
  /\ faults' = faults + 1

-----------------------------------------------------------------------------
(* ingest_compression_activity *)

\* A post or a repeated post of e arrives.
Receive(h, e) ==
  /\ pc[h] = "idle"
  /\ pc' = [pc EXCEPT ![h] = "event"]
  /\ job' = [job EXCEPT ![h] = e]
  /\ UNCHANGED <<committed, open, mark, acked, faults>>

\* Mutant of InsertEvent: events are not unique by source, type and key.
InsertEventAgain(h) ==
  /\ pc[h] = "event"
  /\ open' = [open EXCEPT ![h] = @ \cup {Key("event", job[h])}]
  /\ mark' = [mark EXCEPT ![h] = "received"]
  /\ pc' = [pc EXCEPT ![h] = "request"]
  /\ UNCHANGED <<committed, job, acked, faults>>

InsertEvent(h) ==
  /\ pc[h] = "event"
  /\ ~Stored(Key("event", job[h]))
  /\ InsertOrSelect(h, Key("event", job[h]))
  /\ mark' = [mark EXCEPT ![h] = "received"]
  /\ pc' = [pc EXCEPT ![h] = "request"]
  /\ UNCHANGED <<committed, job, acked, faults>>

\* Mutant of FindDuplicate: an event being ingested counts as ingested.
FindDuplicateEarly(h) ==
  /\ pc[h] = "event"
  /\ \/ Stored(Key("event", job[h]))
     \/ ~Free(h, Key("event", job[h]))
  /\ pc' = [pc EXCEPT ![h] = "reply"]
  /\ UNCHANGED <<committed, open, job, mark, acked, faults>>

\* Mutant of FindDuplicate: the INSERT is repeated until it inserts a row.
FindDuplicateInsists(h) ==
  /\ pc[h] = "event"
  /\ Stored(Key("event", job[h]))
  /\ UNCHANGED vars

\* The event is there already: the answer says duplicate.
FindDuplicate(h) ==
  /\ pc[h] = "event"
  /\ Stored(Key("event", job[h]))
  /\ InsertOrSelect(h, Key("event", job[h]))
  /\ pc' = [pc EXCEPT ![h] = "reply"]
  /\ UNCHANGED <<committed, job, mark, acked, faults>>

\* One _ensure_* or _insert_* statement in the savepoint.
Ensure(h, table, next) ==
  /\ pc[h] = table
  /\ InsertOrSelect(h, Key(table, job[h]))
  /\ pc' = [pc EXCEPT ![h] = next]
  /\ UNCHANGED <<committed, job, mark, acked, faults>>

EnsureRequest(h)   == Ensure(h, "request", "config")
EnsureConfig(h)    == Ensure(h, "config", "execution")
EnsureExecution(h) == Ensure(h, "execution", "chunk")
InsertChunks(h)    == Ensure(h, "chunk", "call")

\* The provider call with its token usage, the cache activities, and the
\* release of the savepoint.  Usage, cost and activity rows have no key: they
\* are inserted even when the call's row was there.
InsertProviderCalls(h) ==
  \/ /\ pc[h] = "call" /\ CallOf[job[h]] # None
     /\ Ensure(h, "call", "mark")
  \/ /\ pc[h] = "call" /\ CallOf[job[h]] = None
     /\ pc' = [pc EXCEPT ![h] = "mark"]
     /\ UNCHANGED <<committed, job, open, mark, acked, faults>>

MarkProcessed(h) ==
  /\ pc[h] = "mark"
  /\ mark' = [mark EXCEPT ![h] = "processed"]
  /\ pc' = [pc EXCEPT ![h] = "reply"]
  /\ UNCHANGED <<committed, job, open, acked, faults>>

\* Mutant of IngestFails: the statements are tried again in the same
\* transaction, without going back to the savepoint.
IngestStartsOver(h) ==
  /\ pc[h] \in InSavepoint
  /\ Fault
  /\ pc' = [pc EXCEPT ![h] = "request"]
  /\ UNCHANGED <<committed, job, open, mark, acked>>

\* A statement fails (a lost connection, a time-out, a violated constraint, a
\* deadlock): back to the savepoint, the event is marked failed, and the
\* exception goes on.
IngestFails(h) ==
  /\ pc[h] \in InSavepoint
  /\ Fault
  /\ open' = [open EXCEPT ![h] = {Key("event", job[h])}]
  /\ mark' = [mark EXCEPT ![h] = "failed"]
  /\ pc' = [pc EXCEPT ![h] = "raise"]
  /\ UNCHANGED <<committed, job, acked>>

\* The same outside the savepoint, where nothing is undone yet.
StatementFails(h) ==
  /\ pc[h] \in {"event", "mark"}
  /\ Fault
  /\ pc' = [pc EXCEPT ![h] = "raise"]
  /\ UNCHANGED <<committed, job, open, mark, acked>>

\* The transaction's rows become visible.
CommitRows(h) ==
  /\ rows' = [k \in Keys |-> IF k \in open[h] THEN job[h] ELSE rows[k]]
  /\ IF Key("event", job[h]) \in open[h]
     THEN /\ status' = [status EXCEPT ![job[h]] = mark[h]]
          /\ effects' = [effects EXCEPT ![job[h]] = @ + 1]
     ELSE UNCHANGED <<status, effects>>

\* Mutant of Raise: the failed status is committed.
RaiseCommits(h) ==
  /\ pc[h] = "raise"
  /\ CommitRows(h)
  /\ EndTransaction(h)
  /\ UNCHANGED <<acked, faults>>

\* The exception leaves session.begin(): all is rolled back, the failed status
\* with it, and the answer is an error.
Raise(h) ==
  /\ pc[h] = "raise"
  /\ EndTransaction(h)
  /\ UNCHANGED <<committed, acked, faults>>

-----------------------------------------------------------------------------
(* The answer, and after it the commit *)

\* Mutant of Reply: the answer does not say which event it is about.
ReplyAnonymous(h, heard) ==
  /\ pc[h] = "reply"
  /\ acked' = IF heard THEN acked \cup {None} ELSE acked
  /\ pc' = [pc EXCEPT ![h] = "commit"]
  /\ UNCHANGED <<committed, job, open, mark, faults>>

\* The sender hears the 2xx, or has given up waiting for it.
Reply(h, heard) ==
  /\ pc[h] = "reply"
  /\ acked' = IF heard THEN acked \cup {job[h]} ELSE acked
  /\ pc' = [pc EXCEPT ![h] = "commit"]
  /\ UNCHANGED <<committed, job, open, mark, faults>>

\* Mutant of Commit: the keys are released before the rows are visible.
CommitForgetsEvent(h) ==
  /\ pc[h] = "commit"
  /\ rows' = [k \in Keys |->
       IF k \in open[h] /\ k # Key("event", job[h]) THEN job[h] ELSE rows[k]]
  /\ effects' = [effects EXCEPT ![job[h]] = @ + 1]
  /\ EndTransaction(h)
  /\ UNCHANGED <<status, acked, faults>>

Commit(h) ==
  /\ pc[h] = "commit"
  /\ CommitRows(h)
  /\ EndTransaction(h)
  /\ UNCHANGED <<acked, faults>>

CommitFails(h) ==
  /\ pc[h] = "commit"
  /\ Fault
  /\ EndTransaction(h)
  /\ UNCHANGED <<committed, acked>>

\* The backend's process dies; the database rolls back what is open.
Crash ==
  /\ Fault
  /\ pc' = [h \in Handlers |-> "idle"]
  /\ job' = [h \in Handlers |-> None]
  /\ open' = [h \in Handlers |-> {}]
  /\ mark' = [h \in Handlers |-> "none"]
  /\ UNCHANGED <<committed, acked>>

-----------------------------------------------------------------------------
Work(h) ==
  \/ InsertEvent(h) \/ FindDuplicate(h)
  \/ EnsureRequest(h) \/ EnsureConfig(h) \/ EnsureExecution(h)
  \/ InsertChunks(h) \/ InsertProviderCalls(h) \/ MarkProcessed(h)
  \/ \E heard \in BOOLEAN : Reply(h, heard)
  \/ Commit(h) \/ Raise(h)

Breaks(h) == IngestFails(h) \/ StatementFails(h) \/ CommitFails(h)

Next ==
  \/ \E h \in Handlers :
       \/ \E e \in Events : Receive(h, e)
       \/ Work(h)
       \/ Breaks(h)
  \/ Crash

Spec == Init /\ [][Next]_vars

\* A handler whose statement can be executed executes it.
FairSpec == Spec /\ \A h \in Handlers : WF_vars(Work(h))

-----------------------------------------------------------------------------
(* Properties *)

\* docs/analytics-backend.md: "Ingestion is idempotent by source, event type,
\* and event key."  However often an event is posted, by retries that overlap
\* with the first post or follow a lost answer, its usage rows are inserted by
\* one transaction, the one that inserted the event.
AppliedOnce ==
  \A e \in Events : effects[e] = IF Stored(Key("event", e)) THEN 1 ELSE 0

\* An event is visible only as a whole: processed, with every row it refers to,
\* its own or another event's that has committed.  In particular no event is
\* ever visible as received or failed: _mark_event_failed is rolled back.
StoredWhole ==
  \A e \in Events : Stored(Key("event", e)) =>
    /\ status[e] = "processed"
    /\ \A k \in KeysOf(e) : Stored(k)

\* The two together: an event is applied once and as a whole, or not at all.
AppliedWholeOnce == AppliedOnce /\ StoredWhole

\* The rows of one request never mix two events: when several events name a
\* request (a retry that failed and one that succeeded), the request, its
\* execution and its chunk all describe the one that committed first.
RequestRowsAgree ==
  \A e \in Events :
    /\ rows[Key("execution", e)] = rows[Key("request", e)]
    /\ rows[Key("chunk", e)] = rows[Key("request", e)]

\* An answer that says duplicate is about an event that has committed, not one
\* whose transaction may still be rolled back.
DuplicateIsStored ==
  \A h \in Handlers :
    pc[h] \in {"reply", "commit"} /\ Key("event", job[h]) \notin open[h] =>
      Stored(Key("event", job[h]))

Rank == [s \in Statements |->
  CASE s = "idle"      -> 0 [] s = "event" -> 1 [] s = "request" -> 2
    [] s = "config"    -> 3 [] s = "execution" -> 4 [] s = "chunk" -> 5
    [] s = "call"      -> 6 [] OTHER -> 7]

\* h's next statement waits for g's transaction to end.
WaitsFor(h, g) ==
  /\ g # h
  /\ pc[h] \in {"event"} \cup InSavepoint
  /\ Key(pc[h], job[h]) \in open[g]

\* Transactions never deadlock, for a handler only waits for one that is at a
\* later statement (the event, request, config, execution, chunk and call keys
\* are always taken in this order), and there is no cycle of later ones.
WaitsAreOrdered ==
  \A h, g \in Handlers : WaitsFor(h, g) => Rank[pc[h]] < Rank[pc[g]]

\* The ingestion events and their effects, seen from outside.
Abstract == INSTANCE IdempotentIngest WITH
  stored <- {e \in Events : Stored(Key("event", e))}

ImplementsIdempotentIngest == Abstract!Spec

\* Every post that a handler has received is answered and its transaction ends,
\* whatever it has to wait for.
EveryPostEnds == \A h \in Handlers : pc[h] # "idle" ~> pc[h] = "idle"

\* docs/analytics-backend.md, Resilience: "Analytics backend persistence is the
\* source of truth once an event reaches POST /ingest/compression."  An event
\* whose sender was told 2xx would be stored, or about to be.
AckedIsStored ==
  \A e \in acked :
    \/ Stored(Key("event", e))
    \/ \E h \in Handlers : pc[h] = "commit" /\ job[h] = e
=============================================================================
