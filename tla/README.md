# Verification of litellm-proxy-headroom

A TLA+ development kept beside the LiteLLM proxy with Headroom compression, its
analytics and its agent wrappers: models of the components that run
concurrently, lose messages, share a database or a directory, or decide
something in many steps; TLC runs over small instances of them; and proofs,
checked by TLAPS, that the most important properties hold for every value of
the constants.

Paths below are relative to `src/litellm_proxy_headroom/` unless they start
with `docs/`, `tests/`, `scripts/` or `bin/`.

## 1. The system

A LiteLLM proxy runs in one process with an asyncio loop. Its callback prepares
and compresses each request, remembers what the compression did, joins that with
the provider's answer, and hands the result to a best-effort buffer, which posts
it to the analytics backend, a FastAPI service over PostgreSQL. The backend also
stores Headroom's CCR (compress, cache, retrieve) entries, answers retrievals of
original chunks, computes statistics and simulates costs. Shell commands start
coding agents on the proxy, each with a managed home; a proof harness runs one
agent without and with the proxy and says which was better.

```
agent <- wrapper (managed home)
  |
client -> LiteLLM -> HeadroomAnalyticsCallback -> AsyncIngestionBuffer
              (preparation, compression, captures)   | HTTP, retries
                        v                            v
              AnalyticsCompressionHooks     POST /ingest/compression
                        |                            |
       AnalyticsCcrBackend (cache) --HTTP-->  AnalyticsPostgresRepository
              (each process)     PUT/GET/POST        |  one transaction each
                                /headroom/ccr     PostgreSQL
                                                     |
              GET /stats, /metrics, /dashboard, /records; POST /simulations/runs
```

### Components, their state, and what makes them correct

| Component | State | Operations | Hard behaviour | What must hold |
|---|---|---|---|---|
| Analytics buffer, `analytics/application/buffering.py` | queue, join counter, worker tasks, counters, closed flag | `submit_nowait`, worker loop, `flush`, `aclose` | workers, flushers and closers interleave at every await; cancellation of a worker that holds a command; time-outs; a full queue | nothing accepted disappears silently; counters agree; `flush` answers truthfully; nothing runs after `aclose` |
| HTTP sink, `analytics/adapters/litellm/http_client.py` | lazily opened client | post, `aclose` | a post that timed out may have been processed | delivered never exceeds what the server processed |
| Ingestion API and store, `analytics/adapters/api/routes_ingest.py`, `deps.py`, `adapters/postgres/repositories.py` | tables with unique keys, open transactions | `POST /ingest/compression` | concurrent transactions on one key; failure in the savepoint; commit after the answer; crash | an event takes effect once and whole; rows shared by events agree; no deadlock; no loss after a 2xx |
| Statistics, records, dashboard, `analytics/adapters/postgres/queries.py` and its routes | none (reads) | `/stats`, `/stats/breakdown`, `/stats/dashboard`, `/metrics`, `/dashboard`, `/records/compression` | one answer is put together from several snapshots; joins that multiply rows; filters that disagree; pages that move under the client | what one answer shows together is consistent; the endpoints agree; paging loses nothing; counters grow |
| Cost simulation, `analytics/adapters/postgres/simulation_*.py`, `domain/economics.py` | keyed simulation runs | insert or find the run, select, calculate, complete, all in one transaction | two requests with one key: the second waits in ON CONFLICT for the first; rows committed between the selects; a limit that cuts | one run per key; a run covers what it claims; a simulation that changes nothing reproduces the statistics |
| Callback, captures, `analytics/adapters/litellm/callback.py` | pending captures and payload shapes, both bounded dicts | pre-call, deployment, log and post-call hooks | hooks of different requests interleave; hook and log event of one answer come in either order; eviction; the lone-capture fallback | one report per answer; a capture is used once, by its own request |
| Callback, request preparation, same file | the request's dictionaries, rewritten in place | request key, system text, session affinity, cache key guard, headers, field passthrough, schema compaction, deployment hook | the hooks run again on a retry or another deployment, after LiteLLM has adapted the request; each step reads what an earlier one wrote | the provider sees what the client asked for; one key in every copy; the session follows model and cache key |
| Callback, Responses compression, same file | none between calls; the payload, rewritten in place | choice of the outputs, compression one by one, accounting | every turn sends the whole conversation again; some units are rejected; a failure in between | what is reported is what was done; retrieved text stays as it is; the sent prefix never changes |
| CCR cache and CCR API, `ccr_backend.py`, `ccr_mapping.py`, `adapters/api/routes_headroom_ccr.py` | per-process cache in front of the shared store | store, retrieve, exists, delete, clear | threads and processes; eviction; lost PUTs; retrieval counts by difference | nothing lives in a cache alone; retrievals are neither invented nor overlooked |
| Managed agent homes and wrappers, `agent_cli/managed_home.py`, `bin/codex-litellm` | preferences, config files, links and backups in a home directory | load, resolve, write, link, exec | launches overlap at every file operation, are killed between two, and run beside agents that write the same names | nothing of the user's is lost; an entry is not missing for long; the agent runs with what its launch resolved; an explicit choice survives |
| Usefulness harness, `scripts/e2e_agent90_usefulness.py` | lanes, token summaries, account snapshots, the artifact directory | preflight, turns, retries, snapshots, comparison, verdict, summary | turns that fail or time out; missing or cumulative usage; an account window that starts over; a directory of an earlier run | exit 0 is earned; what the summary says is true of what the sessions did |
| Proxy application, `litellm_app.py` | the buffered body of one request | `AnthropicSystemAsUserMiddleware` reads a POST /v1/messages body, moves `system` into the first user message, replays it once | two places move the system text, here and in the callback, each for its own clients and models; disconnect while reading | every text of the client is said exactly once, the system's before the user's |
| Usage and trace mapping, hooks (one object per compression call), MCP, telemetry, other wrappers, report scripts, domain records | none that is shared | forwarding, reading, formatting | none | - |

`PROJECT.json` lists every component with its sources and status, and every
hazard at the line where it bites.

## 2. Modules

| Module | Role |
|---|---|
| `IngestionBuffer` | the buffer's tasks and the sink's wire; `BestEffortDelivery` is what it promises, `MCIngestionBuffer` the instance, `IngestionBufferProofs` the proofs |
| `IngestStore` | the ingestion handlers, statement by statement, over PostgreSQL's unique keys; `IdempotentIngest` is what it promises, `MCIngestStore`, `IngestStoreProofs` |
| `CaptureRegistry` | the callback's two dicts and LiteLLM's callbacks; `MCCaptureRegistry`, `CaptureRegistryProofs` |
| `CcrCache` | the CCR caches of several processes over one backend; `MCCcrCache`, `CcrCacheProofs` |
| `ResponsesCompression` | one Responses conversation through the pre-call hook; `MCResponsesCompression`, `ResponsesCompressionProofs` |
| `AnalyticsRows`, `ReadQueries` | the stored rows, what an ingest adds to them, and each SQL statement of the read endpoints as an operator on them |
| `ReadModels` | the endpoints as sequences of such statements while ingestion commits; `MCReadModels`, `ReadModelsProofs` |
| `SimulationCalculation`, `Simulations` | selection and arithmetic of a simulation as operators; the keyed run with concurrent requests, on top of `ReadModels`; `MCSimulations`, `SimulationsProofs` |
| `PythonValues` | `None` and dictionaries, for the next three |
| `RequestPreparation` | one request through the proxy's middleware, the pre-call and the deployment hook |
| `UsageReports`, `UsefulnessRun` | what the harness makes of printed lines and snapshots; one execution of it |
| `AgentHome` | a managed home under several launches and agents |
| `MCAgentSessions` | the instance of `RequestPreparation`, `UsefulnessRun` and `AgentHome`, which share no state: each behaviour exercises one of them; `AgentSessionsProofs` has the proofs about all three |

Most modules stand for themselves: the buffer abstracts the store to "a post is
processed, late or never", the store abstracts its senders to "an event is posted
any number of times", and the CCR model takes one PUT as one step because the
store's model shows that an ingest is atomic and idempotent. The read models and
the simulations rest on the same result: an ingest is one commit there, and what
a commit adds depends only on the rows before it (`Ingested`, first writer wins).
Definitions named "Mutant of X" are plausible mistakes in X; they take part in no
specification, and each property has one that breaks it (`mutants` in
`PROJECT.json`).

### Buffer (`IngestionBuffer`)

All of `AsyncIngestionBuffer` runs on one asyncio loop, so an action is the code
between two awaits.

| Code | Model |
|---|---|
| `submit_nowait`, its three outcomes | `SubmitClosed`, `SubmitFull`, `Submit`; `_ensure_started` is `EnsureStarted` |
| `_worker_loop` and `_deliver` | `Take`, `Delivered`, `PostFails` (to the back-off), `Retry`, `LastPostFails`; `task_done` in the `finally` is part of each step that ends a command (`Release`, `TaskDone`) |
| `CancelledError` at the worker's await | `WorkerCancelled` |
| `flush(timeout)` | `FlushCall`, `FlushReturns`, `FlushTimesOut` |
| `aclose` | `CloseCall` (up to the flush), `CloseCancels`, `CloseDone` (gather over, sink closed) |
| `post_compression_activity` | `Post` puts a message on the wire; `ServerReceives` processes it when it likes; a client that gave up may still have been heard |

`offered`, `owed`, `wire` and `received` are history the properties speak of.
Delays are not modelled, only that they end; neither is `snapshot`, which reads.

### Store (`IngestStore`)

One action per SQL statement of one handler. A row is known by its unique key and
by the event whose transaction inserted it; `open` holds the keys an uncommitted
transaction has inserted, which is what `INSERT ... ON CONFLICT DO NOTHING` of
another one waits for (`Free`). `IngestFails` is the `except` around
`begin_nested()`, `Raise` what leaves `session.begin()`, `Reply` and `Commit` are
in the order FastAPI gives them: the dependency is closed after the answer.
Crashes, failing statements and failing commits share the bound `MaxFaults`.
Assumed: READ COMMITTED, and one call per command at most, which is what the
repository's own clients send. A command with several calls would insert them in
list order, and two such commands could wait for each other.

### Reads (`AnalyticsRows`, `ReadQueries`, `ReadModels`)

A row names another by its unique key, where the database has a UUID; NULL is
`None`, and an aggregate over no value is `None` or 0 as the SQL's `coalesce` has
it. An average or a ratio is left to the record that holds its terms. `Begin`
takes the time that becomes the rows' `created_at`, `Commit` makes them visible,
in any order; the times are distinct. An endpoint is the sequence of statements it
awaits (`StatsPlan`, `PagePlan`, `RecordsPlan`, `DetailPlan`), and `Statement`
runs the next one on the rows committed by then. A `walk` is a client that asks
for the next page until one comes back short; it is owed every record that was
there when it began. `ViewsAgree` compares statements on one snapshot; it is
evaluated where a client asks for a detail, which it may do at any time, so that
TLC evaluates it once per snapshot. A breakdown shows at most `BreakdownLimit` rows
and a page of records at most 100, so a breakdown that may have been cut is not asked
to add up, and the page compared is one of 100 records. `PagePlan` ends before the page's last
statement, the list of simulation runs (`routes_dashboard.py:163`), with which nothing
else on the page is compared.

### Simulations (`SimulationCalculation`, `Simulations`)

`Insert` waits while another open transaction holds the key; `InsertAgain` and
`ReadStored` are the duplicate's way; `Select` computes all rows from one
snapshot. `basis` records what matched when the run was inserted, as history.
As with ingestion the answer leaves before the commit (`EndSession`,
`CommitRun`), which may fail; a crash and a failing statement are `Fail`. The
arithmetic keeps the code's order of precedence (threshold, ratio, multiplier,
delta), its clamping and its rounding half to even; cached and uncached input
stand for the five kinds of token that have a rate.

### Captures (`CaptureRegistry`)

The two dicts are sequences, since eviction takes the oldest. A capture is the
request it was made for and whether another request's metadata was merged in; a
command is what it reports under which key. LiteLLM's part - which callbacks an
answer gets, in which order, from which task - is `Reject`, `Succeed`, `Fail` and
`Abandon`, modelled from how the callback uses it and from its tests.

### CCR cache (`CcrCache`)

A lock guards each access to a cache, and none is held during HTTP: `get` is
`GetLocal`, or `GetMisses`, `Fetch` and `Fill`; `set` is `Set` followed by its
requests. The library's `CompressionStore` is the external caller: it stores
(`Store`) and retrieves (`get`, then `set` with one more retrieval: `Retrieve`). A
request fails in the eyes of its sender, is lost, or arrives late (`late`,
`lateHits`). The entry an overfull cache evicts is any other one: no property
depends on the dict's order.

### Responses compression (`ResponsesCompression`)

The client adds items (`Converse`) and sends the whole conversation again; the
hook starts (`Begin`), takes one slot after another (`Unit`), and the rewritten
input goes on (`Finish`). `Pass` is the header that switches compression off,
`UnitRaises` a failing `compress`, which fails the request. What Headroom makes of
a text is a constant function of the text: the same text, the same answer. That
is the assumption behind `ProviderPrefixKept`; a compressor with memory would
break it. The remaining assumption, `CompressAssumption`, says that an answer with
`tokens_saved > 0` reports counts that add up and leaves at least one token.

### Request preparation (`RequestPreparation`)

`Arrive` is the middleware of `litellm_app.py` (`SystemAsUser`), with the reading of
the body and its replay as one step. `PreCallHook` is the whole hook up to the compression: one operator for each
function it calls, applied to the request in the hook's order (`RequestKeyOf`,
`MoveSystem`, `ApplyAffinity`, `GuardCacheKey`, `PreserveHeaders`,
`PreserveFields`, `CompactTools`). It may run again on what it produced. `Deploy`
is LiteLLM's adaptation, which renames the model and may drop or reset provider
fields, followed by the deployment hook, which restores and fingerprints them. A
message's text is the sequence of its parts, a tool schema the set of its key
paths, a fingerprint the value it is computed from (no collisions).

A key that is there with a null differs from one that is missing wherever
`setdefault` is used: metadata that the logging object holds as null stay null and
get no request key (`NoteKey`), a null session in the parameters stays
(`LinkSession`), while the request's own session is assigned. `MoveSystem` is the
loop over the messages (`Taking`, one `Take` for each): the system texts, those in
the middle of a conversation too, come together in one user message at its head.
What a conversation says is named by places (`Places`, `TextAt`, `RoleAt`,
`Before`): a message and a part of it, the `system` field before all messages.
`TextsAreSaidOnce` speaks of texts a request has once each, so that a text stands
for one thing said. It asks that a text of the system stays before the texts of
users it preceded; that one from the middle moves to the head, before users'
texts it followed, is what the code intends.

### Usefulness harness (`UsageReports`, `UsefulnessRun`)

`UsageReports` has the parsing and the arithmetic: which usage event wins, what
is summed over resumed turns, deltas of account counters, ratios and limits, the
verdict. A printed line is a record of what the parser can find in it. What a run
prints is a constant (`Printed`), but for the counts of its session, which
`Cumulative` fills in; what a query of the account may answer is one too (`Probes`),
and the account shows its window in whole percents of `Unit` tokens.
`UsefulnessRun` has one action for each stage of `execute_plan`; `Turn` is one
Codex process (it prints, spends tokens, fails or exceeds its time). The
environment is the account: what a lane spends is posted as a whole at some time
(`Post`), and the window or the day starts over at any time (`Roll`). `sessions`
and `clean`, history, hold what each lane's session used and whether the counters
could tell; `VerdictsAreTrue` compares the summary with them, tokens and commands. A resumed Codex
session reports cumulative usage, as the script's own comments assume.

### Managed home (`AgentHome`)

An action is one file operation of `main` of `bin/codex-litellm` and of what it
calls: `Begin` (read `.env`, the shell, the saved preferences, resolve, refuse),
`WriteConfig`, `WriteProfile`, `SavePreferences`, and for each native entry
`Look` (`is_symlink`), then `Resolve` and `Unlink` after a link, or `Exists` and
`Rename` otherwise, then `SymlinkTo`; `Exec` makes it an agent. Each acts on what it
finds, which others may have changed since the one before. An agent writes an entry
in place, through its link if it is one (`WriteInPlace`, `Through`), or renames a new
file over it (`Replace`). `Crash` ends a launch between any two operations, `CutOff`
in the middle of a config file.

`config.toml` and the profile's file are entries like the others, with names that are
excluded from linking: agents write them too, and a launch overwrites them whatever
they hold (`Generate`). What an agent writes has a number as its content, fresh at
each write, so that `NothingIsLost` can say which writes must still be somewhere; a
config file that a launch wrote holds the settings it resolved (`Config`). `discarded`,
history, has what a launch threw away: all it wrote over in a config file, and at
`Unlink` only what is newer than its `Look`, so that anything older that went would be
a loss. A launch that is refused writes nothing, so it is no step. `write_text` is one
step but for `CutOff`: that another process could read the file while it is empty is
left out, as nothing is claimed of agents whose launches overlapped.

## 3. Runs

| Run | What it asks | Instance |
|---|---|---|
| `buffer` | counters, join counter, truth of `flush`, quiet after `aclose`, a lossless close, refinement of `BestEffortDelivery`; callers return, commands settle | 2 commands, 2 workers, 1 flusher, 2 closers, queue of 1, 2 attempts; close with and without time-out |
| `buffer_loss` | violated: a cancelled command is in no counter | 2 commands, 1 worker |
| `store` | once, whole, first writer, truth of "duplicate", order of waits, refinement of `IdempotentIngest`; every post ends | 2 handlers, 3 commands, 2 faults |
| `store_ack` | violated: a 2xx before a commit that fails | 1 handler, 1 fault |
| `capture_safety` | one report, one use, no leftovers, no mix-ups unless disturbed | 4 requests over 2 places |
| `capture_correlated` | violated: a lone capture is taken by a stranger | 2 requests |
| `ccr_safety` | nothing only local; retrievals neither invented nor overlooked | 3 threads in 2 processes, 2 hashes, 3 bodies, caches of 1 |
| `ccr_read_through` | violated: content stored again is expired in the backend | 1 process, ttl 1 |
| `responses_safety` | report and payload agree, retrievals verbatim, prefix kept | 3 items, 4 texts |
| `reads_and_simulations` | every endpoint and two simulation requests of one key beside ingestion: consistent answers, agreeing views, complete paging, growing counters, one run per key, sums | 3 further events, 1 retrieval, 7 questions, pages of 2; 2 handlers, 1 failure |
| `metrics_counter` | violated: a counter of `/metrics` falls | the same rows |
| `agent_sessions` | exit 0 is earned and the summary true; the provider sees what was asked; the managed home stays whole | 4 plans; 14 requests, 12 settings, 2 attempts; 2 launches at a time of 3, 4 entries, 1 write of an agent |

Why these bounds are enough to be interesting:

- *Buffer.* A queue of one place makes the second command meet a full queue while the
  first is still there, and both workers can be posting, backing off or cancelled at
  once. Two closers are what it takes for one to close the client under the other. Two
  attempts show a first, a last and a retried one; more would repeat the middle.
  Whether the close has a time-out is chosen in the initial state (`closeTimed`).
- *Store.* The three commands share a request and a call (a failed and a successful
  event of one request) and a config (a CCR entry), so that each pair conflicts in a
  different statement, and each handler may post each of them, again and again. Two
  faults allow a crash after a failed commit. A cycle of waits among more than two
  handlers is excluded for every number by `NoDeadlock`.
- *Captures.* Two places for three captured requests force evictions; the stream
  and the uncaptured call type are the two irregular sequences of callbacks.
- *CCR.* A cache of one entry evicts on every second hash; two threads share it,
  a third one stores behind their back. `Ttl = 0` with one tick is one expiry.
  `MaxCalls = 3` bounds calls, foreign retrievals and restarts together.
- *Responses.* Three items are a call, its output and one more; the texts are one
  that shrinks, one whose tokens shrink while its bytes grow, one that is left
  alone, one below the floor (`MinBytes`).
- *Reads and simulations.* The rows before include a simulated execution and a smoke
  test, which the scopes must keep apart. The three events are the ones that
  multiply or hide rows: a provider call that is reported a second time with other
  usage rows, a failed second attempt whose calls name no execution, and a text that
  was expanded. A page of two over three to five records moves while it is read.
  The two simulation commands have one key: one overrides nothing; the other has a
  threshold, ratio, multiplier, delta, a price and a limit of one. The two handlers are
  symmetric, and no property of the run is a liveness property.
- *Agent sessions.* The plans are one and two turns, either order, with and without
  preflight, snapshots, floor, `--force` and the database query; runs of the agent
  work, use more, fail, time out, lose their thread, print usage without a total or
  in part, or do nothing, with no command and no usage. The requests are Codex with each way a session, a key
  or an `extra_body` may already be there, and chat clients on both routes with a
  system text that the middleware moves, the hook moves, both could, or neither. Of the
  launches of the home one makes no choice, one chooses a model with the wrapper's
  profile, one a verbosity without links, and one is refused for its profile. The
  managed entries are a file, one that is linked elsewhere, a config of before and the
  profile's file, which is absent; absent entries also come about when a launch is
  killed. An agent writes once, any entry at any moment of the other launches, which is
  what it takes to replace a link between a launch's look and its unlink, or a config
  between a launch's write and its exec; two writes make the run several times as
  long, and the proof is for any number. The launches are symmetric, and nothing asked
  of the home is a liveness property.

`CHECK_DEADLOCK FALSE` stands where the system comes to an end: all commands
offered and the buffer closed, all requests answered, the bound on calls or launches
reached, the harness ended. The store, the conversation, the reads and the
simulations never stop, and their runs check that.

### Fairness

Only `buffer` and `store` assume any. *Buffer*: weak fairness of each worker's steps,
of `FlushReturns` and `FlushTimesOut`, of `CloseCancels` and `CloseDone`. asyncio
runs tasks that are ready; a post ends, since the HTTP client has a time-out; a
sleep and a time-out end. Nothing makes the server answer, a caller submit, or
anyone close. *Store*: weak fairness of a handler's `Work`: a statement that can
be executed is; nothing says that it succeeds, and a wait for another transaction
needs that one to end. Reads, simulations and launches have no liveness property:
each is a finite sequence of statements that waits for nothing, except a
simulation for the transaction that holds its key.

## 4. Findings

Five statements of the repository's documents, scripts and code that the program
does not keep; each has a run that checks this one property and finds it violated.
The quotes and traces are under `findings` in `PROJECT.json`.

1. `buffer_loss`: after `aclose` timed out, the command in a cancelled worker's
   hands is neither delivered, failed, dropped nor queued. `BooksBalance` states the
   exact bound that does hold: at most one such command per worker.
2. `store_ack`: the answer precedes the commit.
3. `capture_correlated`: the lone-capture fallback files an answer under another
   request. `FallbackAloneHarmless` states when this cannot happen.
4. `ccr_read_through`: `created_at` of content stored again never reaches the
   backend.
5. `metrics_counter`: `tokens_saved_total` is declared a counter and falls when a
   text was expanded. `MetricsAreCounters` states that the others grow.

Stated as exceptions in the properties rather than as findings, because the
repository says so itself or promises nothing: overlapping launches of a wrapper may
lose an explicit choice (`HomeIsWhole`, `lost`); what an agent left in a config file is
overwritten by the next launch, and what an agent puts in the place of a link, the right
one too, between a launch's `is_symlink` and its `unlink` (`managed_home.py:229-232`) is
lost (`NothingIsLost`, `discarded`);
token fields that only free text mentions are counted (`VerdictsAreTrue`,
`fromText`); a `prompt_cache_key` inside the client's own `extra_body` escapes the
guard (`ProviderSeesWhatWasAsked`); schema compaction drops a key such as `title`
where it is not the name of a property, be it under `$defs` or `default`.

## 5. Proofs

Everything below is proved for all values of the constants under the modules'
named assumptions (`BufferAssumption`, `StoreAssumption`, `RegistryAssumption`,
`CcrAssumption`, `CompressAssumption`, `ReadModelsAssumption`,
`SimulationsAssumption`, `RunAssumption`, `HomesAssumption`,
`PreparationAssumption`), the last theorem with one hypothesis more
(`NoneIsNoDictionary`). Every invariant that a passing run checks is stated by a theorem.
Each component has one inductive invariant; that the initial states satisfy it and
every step keeps it are lemmas, one step per action, and every theorem about a
property follows from it.

- **`IngestionBufferProofs`**: `TypeOK /\ JoinCounter /\ HeldInv /\ Accounting /\
  OwedInv /\ CloseInv /\ DrainInv`. `JoinCounter` is what makes `flush` truthful: a
  released join means that the queue was empty and nobody held a command. `OwedInv`
  adds that what was unsettled at the call cannot come back, since a command is
  offered once. `CloseInv` follows a close through its stages. The theorems give
  `TypeOK`, `BooksBalance` (`JoinCounter /\ Accounting`), `FlushSettles`,
  `CloseQuiesces`, `DrainingCloseLosesNothing`, and `BufferImplementsBestEffort`:
  each step is one of `BestEffortDelivery` or a stutter. `CountersMatchTheWire` has a
  second invariant on top of this one. It counts messages, so a post must be a new
  message each time (`Fresh`): a queued command has none on the wire, a worker's
  command none beyond its attempt, which needs that no command is in two places
  (`Apart`). The bound on `delivered` is not inductive, since a command that was heard
  and is still unsettled may yet be counted; `HeardCounts` leaves those out.
- **`IngestStoreProofs`**: `TypeOK`, `Locks` (a key in an open transaction is neither
  stored nor in another one), `HandlerInv` (what a handler at a statement has
  inserted or found), `AppliedWholeOnce` and `RequestRowsAgree`.
  `RequestRowsAgree` needs the part of `HandlerInv` that says that a handler has the
  execution and chunk in its transaction exactly if it has the request.
  `NoDeadlock` (`WaitsAreOrdered`) needs the invariant only for where a key can be
  held; then ranks decide. `StoreImplementsIdempotentIngest` is the refinement.
- **`CaptureRegistryProofs`**: keys are distinct in each dict, `Staged` and
  `CapturesAreMade` tie stages and captures together, and the safety properties
  are inductive with them, also when requests share a key.
- **`CcrCacheProofs`**: `CallInv`, `WrittenInv`, `CountInv`, `LoneInv`.
  `NothingOnlyLocal` is not inductive: a restart kills the thread whose PUT is under
  way. `WrittenInv` asks that this thread be in the process whose cache it is, and
  extends the claim to the entries threads hold.
- **`ResponsesCompressionProofs`**: `SentInv` says that whatever was sent last is what
  any later turn makes of the same items (`Rewritten`, which does not mention the
  turn); `LoopInv` follows the accounting. `ConverseKeeps` is the heart: no later
  call takes an earlier output, so no old slot appears or disappears. From it come
  `ProviderPrefixKept` and `RetrievalsAreVerbatim`.
- **`ReadModelsProofs`**: `DataInv` says that the tables are finite and keep the
  schema's keys (`TypeOK`). The keys are why the counters of `/metrics` cannot fall
  (`MetricsAreCounters`): an execution matches by the one row its request has, and
  that row stays; so the sets counted only grow, by commits (`IngestKeeps`) and
  retrievals (`RetrieveKeeps`), and `CountersGrow` compares their cardinalities.
  `WalkMissesNothing` needs `ClockInv` (a record's time is before the clock, and no two
  executions of one time share their start) and `WalkInv`: the records a walk is owed
  and has not been shown stand at or behind its offset, since a record that arrives
  meanwhile is the newest and pushes the others back, never forward (`RecordsInv` has
  the order and its positions). `RecordsAlwaysHoldTogether`, `StatsAlwaysHoldTogether`
  and `DetailAlwaysHoldsTogether` are three of the four parts of `AnswersHoldTogether`:
  `StatsInv` and `DetailInv` say of every statement already answered what the
  tables may have become since, which only grew. The fourth, `PageAlwaysHoldsTogether`,
  compares sums: `PageInv` bounds what each statement answered by what the next one
  would on the tables as they are now (`CountsHold`, `EstimateHolds`, `BillHolds`,
  `CoversCount`) and orders the percentiles (`InOrder`, `SavingsInOrder`), given
  `FiguresInv`, that counts in the tables are not negative. Sums are reasoned about
  without induction over data: `Total` and the lemmas after it (`TotalOfMore`,
  `TotalOfGroups`, `SumGrows`) are proved once, by the library's theorem on finite sets
  for a set of naturals, and `BreakdownAddsUp` says that the rows of a breakdown that
  is not cut add up. `PercentilesInOrder` rests on `RankedExists` and `RankedGrows`:
  each rank is taken by some value, and a greater rank by no smaller one.
  `AnswersAlwaysHoldTogether` puts the four together. `ViewsAlwaysAgree` needs no more
  invariant than `DataInv` and `FiguresInv`: every breakdown partitions one set of rows.
- **`SimulationsProofs`**: a handler holds its run from `Insert` until its session
  ends and never answers with anything but the run that is open or stored; with the
  wait in `Insert`, two transactions never hold one key (`RunsAreIdempotent`). What is
  calculated plays no part in that. `RunsCoverTheirBasis` does depend on it: `BasisInv`
  carries what matched at the insert through commits of the ingestion to `Select`, and
  `Covers` says of the selection that it is exactly the matching rows, or as many of
  them as the limit says, the newest (`Newest`: of two matching rows, the one with fewer
  before it). `ResultsAlwaysAddUp` adds `SavedInv` (what an execution saved
  is the difference of its counts) and `Computes`, which ties every result to the
  execution it was calculated from: the calculation without an override gives back its
  figures (`FromExecution`), so the sum over the results is the sum over the
  executions. `SimulationsDisturbNoReads` is the refinement: every
  behaviour of the simulations beside the reads is one of the reads alone, so that
  every theorem of `ReadModelsProofs` holds beside simulations.
- **`AgentSessionsProofs`**, the managed home: `HomeInv` is `TypeOK`, `Sole` (a launch that is `alone`
  really is), `Loaded` (the preferences on disk are those the lone launch loaded),
  `Wrote` (the config files hold what it resolved, or what an agent has written since it
  began: `Configures`), `Syncing` (the entry it is at may be linked), `Passed` (what it
  has linked stays linked, unless an agent replaced it), `Unlinking`, `NothingIsLost`,
  `EntriesStay`, `OwnFiles`, `ChoicesSurvive`, `RunsResolved`. `NothingIsLost` is the
  hard one: between `Look`, `Resolve` and `Unlink` an agent may replace the entry.
  `Unlinking` says that a launch that has seen a link finds, if anything else, only a
  file newer than its look, which no step of another launch can break: launches put
  links and configs there, never an agent's file. Steps that only look share
  `SeesStep`, and both config writes and the kill in one share `GenerateStep`.
- **`AgentSessionsProofs`**, the harness: `RunInv` has the stages (`StageInv`,
  `DiskInv`), the lane under way (`LaneInv`), the lanes to come (`Unbegun`) and those
  done (`DoneInv`). What the verdict says of tokens rests on two facts about data,
  proved as lemmas: a summary that no free text filled in shows of a field what its
  session has used (`TokensAreTruthful`, the greatest line wins and all lines of a run
  show the same count), and what a turn prints is counted once
  (`CompletedOfBoth`). What it says of the account rests on the first snapshot, which
  shows what the account held but for the lane's own use (`Told`, in `LaneInv`): posting
  moves use from what is owed to what is shown and leaves that sum, a window that
  starts over makes the lane unclean. A difference of whole percents then
  tells one of tokens up to two units (`WholePercents`). `SuccessIsAlwaysEarned` and
  `VerdictsAreAlwaysTrue` follow.
- **`AgentSessionsProofs`**, the preparation of requests: lemmas about dictionaries
  (`PutGives`, `SetDefaultGives`, `AllBut`: what an update leaves alone) tell for each
  function of the hook which keys it touches, so that what the hook does as a whole
  follows without unfolding it. `PreparationInv` says what it leaves: `Keyed` and
  `Logged` (the key in the request and in the logging object's two dictionaries),
  `ResponsesPrepared` (`FollowsSession`, and `FieldsWanted`: the fields passed through
  stand in `extra_body` as the client set them, and a dropped key does not) and
  `ToolsInv`. It must hold of a request the hook has already prepared, since it may run
  again: a session that is there is the one the hook gave it. `SaidInv` is
  `TextsAreSaidOnce` by way of `Moves(d, e)`: e says what d says, at one place each, a
  text that came before one of a user still does, and what a user said a user still
  says. `Moves` composes (`MovesOn`), which the property alone would not; the
  middleware and the hook are shown to move by tracing each place of the result
  back to its origin (`GoesBack`, `SystemAsUserMoves`, `MoveSystemMoves`). The loop of
  `MoveSystem` is a recursive function on `0 .. Len(messages)`; that it exists
  (`TakenExists`) and where its texts come from (`AllIsTaken`) are proved over the set of
  positions where it does, which has no least exception (`LeastOf`, `PassedOn`). `ProviderAlwaysSeesWhatWasAsked` puts both together.

What the assumptions ask, and why the code grants it:

- `ReadModelsAssumption`: the rows before keep the schema's keys (`KeysHold`), no two
  executions share both their times and `created_at` is never NULL (`TimesHold`,
  `adapters/postgres/models.py`), and a request has the execution that was ingested
  with it (`RequestsRan`: the two are inserted in one transaction, and the execution's
  key is derived from the request's); token counts and durations are natural numbers or
  NULL (`FiguresHold`: `Field(ge=0)` in `application/commands.py` and the check
  constraints of `adapters/postgres/models.py`), while what was saved may be any
  integer; calls of one command differ in their ids; a page is not empty.
- `SimulationsAssumption`: a limit is a number, and what an execution saved is the
  difference of its two counts, or unknown with one of them (`SavedAgrees`), as the
  callback computes it wherever it captures a compression. A client that posts other
  figures to the ingestion API, which does not compare them, is not covered: a
  simulation without overrides would then not reproduce its statistics.
- `RunAssumption`: the parser of the harness's options admits both lanes, each once, and
  at least one turn; Codex reports its session's counts, and the items it completes.
- `PreparationAssumption`: a request's data is a dictionary, the logging object has
  its two places, and a conversation's messages have a role and texts, each said once
  (texts are abstract: two that read alike are two texts).
- `NoneIsNoDictionary` says of the value `None` that it is no function, hence no
  dictionary and no sequence; without it nothing tells a missing value from a
  dictionary that happens to equal it. In the runs `None` is a model value, of which
  this is true but which TLC cannot ask for a domain; so it is a hypothesis of the
  theorem and not an `ASSUME` of the module.
- The others say which constants are natural numbers, that what is in the homes before
  is a file, a link or nothing, and what a compression that reports a saving reports.

Model-checked only: the liveness properties `CallersReturn`, `CommandsSettle`,
`EveryPostEnds`. Liveness under fairness and ENABLED are beyond the provers used
here, and so is what a function defined by recursion over arbitrary data computes,
except where, as with `Taking`, an argument by the least counterexample replaces
the induction.

## 6. Not modelled, and the plan

Not modelled, because nothing can go wrong between their steps or nothing reads
them back: usage, trace and payload mapping (pure field extraction), the Headroom
hooks (one object per call), domain records and schemas, telemetry and trace
stories, HTML, the report scripts (they format what an earlier run left), and the
migration beyond its unique constraints. Headroom, LiteLLM, FastAPI, SQLAlchemy and
PostgreSQL are external and appear as the code uses them.

Left out of modelled parts:

- *Callback.* The base class's compression of chat messages; the sanitising of header
  and metadata text; `litellm_metadata`, which is ignored once `metadata` has been
  created (`callback.py:741`); names under `$defs` (see Findings).
- *Store.* Two provider calls with one `provider_response_id`
  (`models.py:289`), several calls in one command, the columns' values (the reads
  have them).
- *CCR.* `get` that remembers a fetched answer over what another thread has stored
  meanwhile (`ccr_backend.py:104`): both are the content of one hash. A ttl or creation
  time of 0 that is read back as the default (`repositories.py:157`). `delete` and
  `clear` are local by design.
- *Homes.* The override `CODEX_LITELLM_ALLOW_SHARED_HOME`, with which the managed
  home may be the native one; `sync_native_file`; the text of the config files; the
  wrappers of the other four agents, which use the same `managed_home.py`.
- *Proxy application.* The chunks of the body and what the application receives after
  the replay: `receive` never reports a later disconnect (`litellm_app.py:128`), which
  is a matter of how the application waits.
- *Harness.* The regular expressions, SQL texts and option validation.

Planned, the most important first:

1. **Callback, buffer and store composed**: a capture's command through the wire into
   the store, with the buffer's retries as the store's repeated posts; lists of
   provider calls.
2. **The usage mapping**: cached and reasoning tokens as parts of the totals, over the
   shapes of usage the providers send, feeding the reads' rows.
3. **Homes**: the shared-home override and `sync_native_file`, with two agents' wrappers
   over one native file.
