-------------------------- MODULE IngestionBuffer --------------------------
(***************************************************************************)
(* AsyncIngestionBuffer (analytics/application/buffering.py) with the HTTP *)
(* sink it posts to: a bounded queue, worker tasks that post with retries, *)
(* callers of flush and aclose.  All of it runs on one asyncio loop, so an *)
(* action is what happens between two awaits.  A post is a message on the  *)
(* wire: the server may process it late, or never, whatever the client has *)
(* concluded meanwhile (a time-out, a lost reply, a cancelled task).       *)
(***************************************************************************)
EXTENDS Naturals, Sequences, FiniteSets

CONSTANTS
  Commands,      \* the commands callers may submit, each at most once
  Workers,       \* indices of the worker tasks (config.worker_count of them)
  Flushers,      \* tasks that may await flush()
  Closers,       \* tasks that may await aclose()
  MaxQueueSize,  \* config.max_queue_size
  MaxAttempts,   \* config.max_attempts
  NoCommand      \* what a worker without a command holds

ASSUME BufferAssumption ==
  /\ IsFiniteSet(Commands)
  /\ IsFiniteSet(Workers) /\ Workers # {}
  /\ Flushers \cap Closers = {}
  /\ MaxQueueSize \in Nat \ {0}
  /\ MaxAttempts \in Nat \ {0}
  /\ NoCommand \notin Commands

VARIABLES
  queue,        \* asyncio.Queue contents, oldest first
  unfinished,   \* the queue's count of tasks not yet task_done()
  state,        \* worker -> absent | idle | posting | backoff | stopped
  item,         \* worker -> the command it took from the queue
  attempt,      \* worker -> number of the current attempt
  call,         \* flush or aclose caller -> where its call stands
  timed,        \* flusher -> its flush has a positive time-out
  closeTimed,   \* config.shutdown_timeout_seconds > 0 (0 waits for ever)
  closed,       \* self._closed
  cancelling,   \* aclose has called cancel() on every worker
  client,       \* the sink's HTTP client: none | open
  submitted, delivered, failed, droppedFull, retried, maxDepth,
  offered,      \* commands submit_nowait has been called with
  owed,         \* flusher -> commands unsettled when its call began
  wire,         \* <<command, attempt>> posted, not (yet) processed
  received      \* <<command, attempt>> the server has processed

taskVars    == <<queue, unfinished, state, item, attempt>>
callVars    == <<call, timed, closeTimed, closed, cancelling, owed>>
counterVars == <<submitted, delivered, failed, droppedFull, retried, maxDepth>>
netVars     == <<client, wire, received>>
vars        == <<taskVars, callVars, counterVars, netVars, offered>>

Callers == Flushers \cup Closers

\* Worker tasks that have taken a command and not called task_done for it.
Holding == {w \in Workers : state[w] \in {"posting", "backoff"}}

\* Accepted commands without an outcome.
Unsettled == {queue[i] : i \in 1..Len(queue)} \cup {item[w] : w \in Holding}

TypeOK ==
  /\ queue \in Seq(Commands) /\ Len(queue) <= MaxQueueSize
  /\ unfinished \in Nat
  /\ state \in [Workers -> {"absent", "idle", "posting", "backoff", "stopped"}]
  /\ item \in [Workers -> Commands \cup {NoCommand}]
  /\ attempt \in [Workers -> 0..MaxAttempts]
  /\ call \in [Callers ->
       {"none", "waiting", "ready", "true", "false", "gathering", "done"}]
  /\ timed \in [Flushers -> BOOLEAN]
  /\ closeTimed \in BOOLEAN
  /\ closed \in BOOLEAN /\ cancelling \in BOOLEAN
  /\ client \in {"none", "open"}
  /\ submitted \in Nat /\ delivered \in Nat /\ failed \in Nat
  /\ droppedFull \in Nat /\ retried \in Nat /\ maxDepth \in 0..MaxQueueSize
  /\ offered \subseteq Commands
  /\ owed \in [Flushers -> SUBSET Commands]
  /\ wire \subseteq Commands \X (1..MaxAttempts)
  /\ received \subseteq Commands \X (1..MaxAttempts)

Init ==
  /\ queue = <<>> /\ unfinished = 0
  /\ state = [w \in Workers |-> "absent"]
  /\ item = [w \in Workers |-> NoCommand]
  /\ attempt = [w \in Workers |-> 0]
  /\ call = [c \in Callers |-> "none"]
  /\ timed = [f \in Flushers |-> FALSE]
  /\ closeTimed \in BOOLEAN
  /\ closed = FALSE /\ cancelling = FALSE
  /\ client = "none"
  /\ submitted = 0 /\ delivered = 0 /\ failed = 0
  /\ droppedFull = 0 /\ retried = 0 /\ maxDepth = 0
  /\ offered = {} /\ owed = [f \in Flushers |-> {}]
  /\ wire = {} /\ received = {}

-----------------------------------------------------------------------------
(* submit_nowait *)

\* A closed buffer refuses, and counts the refusal with the full-queue drops.
SubmitClosed(c) ==
  /\ c \notin offered /\ closed
  /\ offered' = offered \cup {c}
  /\ droppedFull' = droppedFull + 1
  /\ UNCHANGED <<taskVars, callVars, netVars,
                 submitted, delivered, failed, retried, maxDepth>>

SubmitFull(c) ==
  /\ c \notin offered /\ ~closed
  /\ Len(queue) = MaxQueueSize
  /\ offered' = offered \cup {c}
  /\ droppedFull' = droppedFull + 1
  /\ UNCHANGED <<taskVars, callVars, netVars,
                 submitted, delivered, failed, retried, maxDepth>>

\* Mutant of EnsureStarted: the queue is made, the tasks are not.
EnsureQueueOnly == UNCHANGED state

\* The first submission creates the worker tasks (_ensure_started).
EnsureStarted ==
  state' = [w \in Workers |-> IF state[w] = "absent" THEN "idle" ELSE state[w]]

\* Mutant of Submit: room for one command too many.
SubmitOverfull(c) ==
  /\ c \notin offered /\ ~closed
  /\ Len(queue) <= MaxQueueSize
  /\ EnsureStarted
  /\ offered' = offered \cup {c}
  /\ queue' = Append(queue, c)
  /\ unfinished' = unfinished + 1
  /\ submitted' = submitted + 1
  /\ maxDepth' = IF Len(queue') > maxDepth THEN Len(queue') ELSE maxDepth
  /\ UNCHANGED <<item, attempt, callVars, netVars,
                 delivered, failed, droppedFull, retried>>

Submit(c) ==
  /\ c \notin offered /\ ~closed
  /\ Len(queue) < MaxQueueSize
  /\ EnsureStarted
  /\ offered' = offered \cup {c}
  /\ queue' = Append(queue, c)
  /\ unfinished' = unfinished + 1
  /\ submitted' = submitted + 1
  /\ maxDepth' = IF Len(queue') > maxDepth THEN Len(queue') ELSE maxDepth
  /\ UNCHANGED <<item, attempt, callVars, netVars,
                 delivered, failed, droppedFull, retried>>

-----------------------------------------------------------------------------
(* Worker tasks *)

\* post_compression_activity up to its first await: the HTTP client is made
\* on first use and the request is on its way.
Post(c, n) ==
  /\ client' = "open"
  /\ wire' = wire \cup {<<c, n>>}
  /\ UNCHANGED received

\* queue.task_done(): at zero unfinished tasks every waiting join is released,
\* and stays released even if a command is submitted before its task runs.
TaskDoneEmptyQueue ==  \* Mutant: the joins are released by an empty queue.
  /\ unfinished' = unfinished - 1
  /\ call' = [c \in Callers |->
       IF queue = <<>> /\ call[c] = "waiting" THEN "ready" ELSE call[c]]

TaskDoneSilent ==  \* Mutant: nobody is released.
  /\ unfinished' = unfinished - 1
  /\ UNCHANGED call

TaskDone ==
  /\ unfinished' = unfinished - 1
  /\ call' = [c \in Callers |->
       IF unfinished = 1 /\ call[c] = "waiting" THEN "ready" ELSE call[c]]

Take(w) ==
  /\ ~cancelling
  /\ state[w] = "idle" /\ queue # <<>>
  /\ queue' = Tail(queue)
  /\ state' = [state EXCEPT ![w] = "posting"]
  /\ item' = [item EXCEPT ![w] = Head(queue)]
  /\ attempt' = [attempt EXCEPT ![w] = 1]
  /\ Post(Head(queue), 1)
  /\ UNCHANGED <<unfinished, callVars, counterVars, offered>>

\* The worker's loop is back at queue.get().
Release(w) ==
  /\ state' = [state EXCEPT ![w] = "idle"]
  /\ item' = [item EXCEPT ![w] = NoCommand]
  /\ attempt' = [attempt EXCEPT ![w] = 0]
  /\ TaskDone

\* Mutant of Delivered: a post that ended is taken for a success.
DeliveredUnchecked(w) ==
  /\ ~cancelling
  /\ state[w] = "posting"
  /\ delivered' = delivered + 1
  /\ Release(w)
  /\ UNCHANGED <<queue, timed, closeTimed, closed, cancelling, owed, netVars,
                 offered, submitted, failed, droppedFull, retried, maxDepth>>

Delivered(w) ==
  /\ ~cancelling
  /\ state[w] = "posting"
  /\ <<item[w], attempt[w]>> \in received
  /\ delivered' = delivered + 1
  /\ Release(w)
  /\ UNCHANGED <<queue, timed, closeTimed, closed, cancelling, owed, netVars,
                 offered, submitted, failed, droppedFull, retried, maxDepth>>

\* The post returned False or raised: a refused connection, an HTTP error, a
\* time-out, with the request processed or not.
PostFails(w) ==
  /\ ~cancelling
  /\ state[w] = "posting"
  /\ attempt[w] < MaxAttempts
  /\ retried' = retried + 1
  /\ state' = [state EXCEPT ![w] = "backoff"]
  /\ UNCHANGED <<queue, unfinished, item, attempt, callVars, netVars, offered,
                 submitted, delivered, failed, droppedFull, maxDepth>>

\* Mutant of LastPostFails: the command is dropped without counting it.
LastPostForgotten(w) ==
  /\ ~cancelling
  /\ state[w] = "posting"
  /\ attempt[w] = MaxAttempts
  /\ Release(w)
  /\ UNCHANGED <<queue, timed, closeTimed, closed, cancelling, owed, netVars,
                 offered, submitted, delivered, failed, droppedFull, retried,
                 maxDepth>>

\* Mutant of LastPostFails: a retry is counted that never takes place.
LastPostCountsRetry(w) ==
  /\ ~cancelling
  /\ state[w] = "posting"
  /\ attempt[w] = MaxAttempts
  /\ failed' = failed + 1
  /\ retried' = retried + 1
  /\ Release(w)
  /\ UNCHANGED <<queue, timed, closeTimed, closed, cancelling, owed, netVars,
                 offered, submitted, delivered, droppedFull, maxDepth>>

LastPostFails(w) ==
  /\ ~cancelling
  /\ state[w] = "posting"
  /\ attempt[w] = MaxAttempts
  /\ failed' = failed + 1
  /\ Release(w)
  /\ UNCHANGED <<queue, timed, closeTimed, closed, cancelling, owed, netVars,
                 offered, submitted, delivered, droppedFull, retried,
                 maxDepth>>

\* asyncio.sleep(_retry_delay(attempt)) is over: the next attempt.
Retry(w) ==
  /\ ~cancelling
  /\ state[w] = "backoff"
  /\ state' = [state EXCEPT ![w] = "posting"]
  /\ attempt' = [attempt EXCEPT ![w] = @ + 1]
  /\ Post(item[w], attempt[w] + 1)
  /\ UNCHANGED <<queue, unfinished, item, callVars, counterVars, offered>>

\* Mutant of WorkerCancelled: task_done is not in a finally clause.
WorkerCancelledNoDone(w) ==
  /\ cancelling
  /\ state[w] \in {"idle", "posting", "backoff"}
  /\ state' = [state EXCEPT ![w] = "stopped"]
  /\ item' = [item EXCEPT ![w] = NoCommand]
  /\ attempt' = [attempt EXCEPT ![w] = 0]
  /\ UNCHANGED <<queue, unfinished, callVars, counterVars, netVars, offered>>

\* CancelledError at the worker's next resumption, wherever it is: nothing in
\* _deliver catches it, the finally clause still calls task_done.
WorkerCancelled(w) ==
  /\ cancelling
  /\ state[w] \in {"idle", "posting", "backoff"}
  /\ state' = [state EXCEPT ![w] = "stopped"]
  /\ item' = [item EXCEPT ![w] = NoCommand]
  /\ attempt' = [attempt EXCEPT ![w] = 0]
  /\ IF w \in Holding THEN TaskDone ELSE UNCHANGED <<unfinished, call>>
  /\ UNCHANGED <<queue, timed, closeTimed, closed, cancelling, owed,
                 counterVars, netVars, offered>>

-----------------------------------------------------------------------------
(* The server *)

ServerReceives(m) ==
  /\ m \in wire
  /\ wire' = wire \ {m}
  /\ received' = received \cup {m}
  /\ UNCHANGED <<taskVars, callVars, counterVars, client, offered>>

-----------------------------------------------------------------------------
(* flush and aclose *)

\* flush returns at once when there is no queue yet or nothing unfinished.
FlushCall(f, hasTimeout) ==
  /\ call[f] \notin {"waiting", "ready"}
  /\ call' = [call EXCEPT ![f] = IF unfinished = 0 THEN "true" ELSE "waiting"]
  /\ timed' = [timed EXCEPT ![f] = hasTimeout]
  /\ owed' = [owed EXCEPT ![f] = Unsettled]
  /\ UNCHANGED <<taskVars, closeTimed, closed, cancelling, counterVars,
                 netVars, offered>>

FlushReturns(f) ==
  /\ call[f] = "ready"
  /\ call' = [call EXCEPT ![f] = "true"]
  /\ UNCHANGED <<taskVars, timed, closeTimed, closed, cancelling, owed,
                 counterVars, netVars, offered>>

\* wait_for's time-out, which may also beat a join that was just released.
FlushTimesOut(f) ==
  /\ call[f] \in {"waiting", "ready"} /\ timed[f]
  /\ call' = [call EXCEPT ![f] = "false"]
  /\ UNCHANGED <<taskVars, timed, closeTimed, closed, cancelling, owed,
                 counterVars, netVars, offered>>

\* Mutant of CloseCall: the buffer goes on accepting commands.
CloseCallStaysOpen(k) ==
  /\ call[k] = "none"
  /\ call' = [call EXCEPT ![k] =
       IF unfinished = 0 THEN "gathering" ELSE "waiting"]
  /\ cancelling' = (cancelling \/ unfinished = 0)
  /\ UNCHANGED <<taskVars, timed, closeTimed, closed, owed, counterVars,
                 netVars, offered>>

\* Mutant of CloseCall: the workers are cancelled before the queue is flushed.
CloseCallNoFlush(k) ==
  /\ call[k] = "none"
  /\ closed' = TRUE
  /\ call' = [call EXCEPT ![k] = "gathering"]
  /\ cancelling' = TRUE
  /\ UNCHANGED <<taskVars, timed, closeTimed, owed, counterVars, netVars,
                 offered>>

\* aclose: with nothing unfinished it runs on to the cancellation at once.
CloseCall(k) ==
  /\ call[k] = "none"
  /\ closed' = TRUE
  /\ call' = [call EXCEPT ![k] =
       IF unfinished = 0 THEN "gathering" ELSE "waiting"]
  /\ cancelling' = (cancelling \/ unfinished = 0)
  /\ UNCHANGED <<taskVars, timed, closeTimed, owed, counterVars, netVars,
                 offered>>

\* The flush inside aclose is over, drained or timed out (its result is not
\* looked at): every worker is cancelled.
CloseCancels(k) ==
  /\ \/ call[k] = "ready"
     \/ call[k] = "waiting" /\ closeTimed
  /\ call' = [call EXCEPT ![k] = "gathering"]
  /\ cancelling' = TRUE
  /\ UNCHANGED <<taskVars, timed, closeTimed, closed, owed, counterVars,
                 netVars, offered>>

\* Mutant of CloseDone: the sink is closed without waiting for the workers.
CloseDoneNoGather(k) ==
  /\ call[k] = "gathering"
  /\ call' = [call EXCEPT ![k] = "done"]
  /\ client' = "none"
  /\ UNCHANGED <<taskVars, timed, closeTimed, closed, cancelling, owed,
                 counterVars, wire, received, offered>>

\* gather is over, the list of workers is cleared and the sink is closed.
CloseDone(k) ==
  /\ call[k] = "gathering"
  /\ \A w \in Workers : state[w] \in {"absent", "stopped"}
  /\ call' = [call EXCEPT ![k] = "done"]
  /\ client' = "none"
  /\ UNCHANGED <<taskVars, timed, closeTimed, closed, cancelling, owed,
                 counterVars, wire, received, offered>>

-----------------------------------------------------------------------------
WorkerStep(w) ==
  \/ Take(w) \/ Delivered(w) \/ PostFails(w) \/ LastPostFails(w)
  \/ Retry(w) \/ WorkerCancelled(w)

Next ==
  \/ \E c \in Commands : SubmitClosed(c) \/ SubmitFull(c) \/ Submit(c)
  \/ \E w \in Workers : WorkerStep(w)
  \/ \E m \in wire : ServerReceives(m)
  \/ \E f \in Flushers :
       \/ \E hasTimeout \in BOOLEAN : FlushCall(f, hasTimeout)
       \/ FlushReturns(f)
       \/ FlushTimesOut(f)
  \/ \E k \in Closers : CloseCall(k) \/ CloseCancels(k) \/ CloseDone(k)

Spec == Init /\ [][Next]_vars

\* Tasks that can run do run, a post ends (the client has a time-out), a sleep
\* ends, a time-out fires.  Nobody owes a submission, a flush or a close, and
\* the server owes no answer.
Fairness ==
  /\ \A w \in Workers : WF_vars(WorkerStep(w))
  /\ \A f \in Flushers : WF_vars(FlushReturns(f)) /\ WF_vars(FlushTimesOut(f))
  /\ \A k \in Closers : WF_vars(CloseCancels(k)) /\ WF_vars(CloseDone(k))

FairSpec == Spec /\ Fairness

-----------------------------------------------------------------------------
(* Properties *)

Stopped    == {w \in Workers : state[w] = "stopped"}
BackingOff == {w \in Workers : state[w] = "backoff"}

\* The join counter that flush and aclose wait on counts the queued commands
\* and the ones a worker holds, through retries and cancellations.
JoinCounter == unfinished = Len(queue) + Cardinality(Holding)

\* Every submit_nowait call is counted once, as submitted or as dropped, and
\* every submitted command is delivered, failed or still unfinished, but for
\* the one command each cancelled worker may take with it, which no counter
\* shows.
Accounting ==
  /\ Cardinality(offered) = submitted + droppedFull
  /\ delivered + failed + unfinished <= submitted
  /\ submitted <= delivered + failed + unfinished + Cardinality(Stopped)

\* The two together: nothing a caller submits escapes the buffer's books.
BooksBalance == JoinCounter /\ Accounting

\* The delivered counter never runs ahead of the commands the server processed,
\* whatever is retried, lost or processed after its time-out.
DeliveredWereReceived ==
  delivered <= Cardinality({c \in Commands :
                              \E n \in 1..MaxAttempts : <<c, n>> \in received})

\* The retried counter and the requests on the network agree: every command
\* taken is posted once and once more per retry counted, but for a retry
\* announced and still asleep, or cancelled in its sleep.
RetryAccounting ==
  LET posts   == Cardinality(wire) + Cardinality(received)
      promise == (submitted - Len(queue)) + retried
  IN  /\ posts + Cardinality(BackingOff) <= promise
      /\ promise <= posts + Cardinality(BackingOff) + Cardinality(Stopped)

\* A flush that returned True left nothing of what had been accepted before its
\* call, although commands submitted meanwhile may be waiting.
FlushSettles ==
  \A f \in Flushers : call[f] = "true" => owed[f] \cap Unsettled = {}

\* Once some aclose has returned no worker is alive to post again, so the HTTP
\* client it closed is not opened anew, with however many closers.
CloseQuiesces ==
  (\E k \in Closers : call[k] = "done") =>
    /\ closed /\ Holding = {}
    /\ \A w \in Workers : state[w] \in {"absent", "stopped"}
    /\ client = "none"

\* A close without a time-out (shutdown_timeout_seconds = 0) cancels only idle
\* workers: nothing accepted is lost.
DrainingCloseLosesNothing ==
  ~closeTimed => submitted = delivered + failed + unfinished

\* The counters tell the truth about the network: what they call delivered the
\* server has processed, and every retry they count is a request that was sent.
CountersMatchTheWire == DeliveredWereReceived /\ RetryAccounting

\* The buffer's accounting, seen from outside, is that of BestEffortDelivery.
Abstract == INSTANCE BestEffortDelivery WITH
  pending <- unfinished,
  dropped <- droppedFull,
  lost    <- submitted - (delivered + failed + unfinished)

ImplementsBestEffort == Abstract!Spec

\* aclose returns, with the server answering or not.
CloseReturns ==
  \A k \in Closers : call[k] # "none" ~> call[k] = "done"

\* A flush returns; only one without a time-out may wait for ever, and only on
\* commands that a close left in the queue.
FlushEnds ==
  \A f \in Flushers :
    call[f] \in {"waiting", "ready"} ~>
      \/ call[f] \in {"true", "false"}
      \/ ~timed[f] /\ cancelling /\ queue # <<>>

\* Whoever waits for the buffer, to flush or to close it, is let go.
CallersReturn == CloseReturns /\ FlushEnds

\* Every accepted command gets its outcome, unless the workers are cancelled.
CommandsSettle ==
  \A c \in Commands : c \in Unsettled ~> (c \notin Unsettled \/ cancelling)

\* docs/analytics-backend.md, Resilience: "If the backend is down, LiteLLM
\* should continue serving requests and the buffer will record failures or
\* drops."  After aclose every accepted command would be found in a counter, at
\* least in the depth of the queue left behind.
LossIsRecorded ==
  (\E k \in Closers : call[k] = "done") =>
    submitted = delivered + failed + Len(queue)

=============================================================================
