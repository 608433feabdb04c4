---------------------------- MODULE Simulations ----------------------------
(***************************************************************************)
(* Cost simulations: POST /simulations/runs on the rows that ingestion     *)
(* goes on committing.  A run's key is unique; a handler that posts a key  *)
(* which another open transaction has inserted waits until that one ends,  *)
(* and a key that is stored gets the stored run whatever the command says. *)
(* The answer leaves before the commit.                                    *)
(***************************************************************************)
EXTENDS ReadModels, SimulationCalculation

CONSTANTS
  Simulate,      \* commands: [key, filter, request, limit, config, pricing]
  SimHandlers,   \* request handlers, each with a session
  MaxFailures    \* bound on failing commits and crashes

\* What was saved is the difference of the two counts, as the proxy computes it.
SavedAgrees(e) == e.saved = Minus(e.original, e.compressed)

ASSUME SimulationsAssumption ==
  /\ \A c \in Simulate : c.limit \in Int
  /\ \A e \in Earlier.executions \cup Commands : SavedAgrees(e)

VARIABLES
  work,      \* what the clients of this behaviour do: "read" or "simulate"
  runs,      \* committed runs: [key, status, command, results, basis]
  pc,        \* handler -> its next statement
  job,       \* handler -> its command
  open,      \* handler -> what its open transaction has inserted, {} or {run}
  reply,     \* handler -> what it answers with, {} or {run}
  failures

simVars == <<work, runs, pc, job, open, reply, failures>>
allVars == <<vars, simVars>>

SimInit ==
  /\ Init
  /\ work \in {"read", "simulate"}
  /\ runs = {}
  /\ pc = [h \in SimHandlers |-> "idle"]
  /\ job = [h \in SimHandlers |-> None]
  /\ open = [h \in SimHandlers |-> {}]
  /\ reply = [h \in SimHandlers |-> {}]
  /\ failures = 0

StoredRun(key) == {r \in runs : r.key = key}

Goto(h, statement) == pc' = [pc EXCEPT ![h] = statement]

\* A command is posted, for the first time or again.
Post(h, c) ==
  /\ work = "simulate" /\ pc[h] = "idle"
  /\ Goto(h, "insert")
  /\ job' = [job EXCEPT ![h] = c]
  /\ UNCHANGED <<vars, work, runs, open, reply, failures>>

\* A run as it is inserted; basis is what was committed then.
NewRun(c) ==
  [key |-> c.key, status |-> "running", command |-> c, results |-> {},
   basis |-> {e.id : e \in Candidates(db, c)}]

\* Mutant of Insert: it does not see the key another transaction has inserted.
InsertBlind(h) ==
  /\ pc[h] = "insert"
  /\ IF StoredRun(job[h].key) = {}
       THEN /\ open' = [open EXCEPT ![h] = {NewRun(job[h])}]
            /\ Goto(h, "select")
       ELSE /\ Goto(h, "insert_again")
            /\ UNCHANGED open
  /\ UNCHANGED <<vars, work, runs, job, reply, failures>>

\* INSERT ... ON CONFLICT DO NOTHING waits for the open transaction that has
\* inserted the key.
Insert(h) ==
  /\ pc[h] = "insert"
  /\ \A g \in SimHandlers \ {h} : \A r \in open[g] : r.key # job[h].key
  /\ IF StoredRun(job[h].key) = {}
       THEN /\ open' = [open EXCEPT ![h] = {NewRun(job[h])}]
            /\ Goto(h, "select")
       ELSE /\ Goto(h, "insert_again")
            /\ UNCHANGED open
  /\ UNCHANGED <<vars, work, runs, job, reply, failures>>

\* The second INSERT; a stored run is never deleted, so it finds the key too.
InsertAgain(h) ==
  /\ pc[h] = "insert_again"
  /\ IF StoredRun(job[h].key) = {}
       THEN /\ open' = [open EXCEPT ![h] = {NewRun(job[h])}]
            /\ Goto(h, "select")
       ELSE /\ Goto(h, "read_stored")
            /\ UNCHANGED open
  /\ UNCHANGED <<vars, work, runs, job, reply, failures>>

ReadStored(h) ==
  /\ pc[h] = "read_stored"
  /\ reply' = [reply EXCEPT ![h] = StoredRun(job[h].key)]
  /\ Goto(h, "reply")
  /\ UNCHANGED <<vars, work, runs, job, open, failures>>

\* Mutant of Select: every execution is selected, simulated ones too.
SelectAll(h) ==
  /\ pc[h] = "select"
  /\ LET rows == {SelectedRow(db, e) : e \in db.executions}
         results == {Calculation(row, job[h].config, job[h].pricing) : row \in rows}
     IN open' = [open EXCEPT ![h] = {[r EXCEPT !.results = results] : r \in @}]
  /\ Goto(h, "mark")
  /\ UNCHANGED <<vars, work, runs, job, reply, failures>>

\* One SELECT, then a result row for each row it returned.
Select(h) ==
  /\ pc[h] = "select"
  /\ LET rows == SelectedRows(db, job[h])
         results == {Calculation(row, job[h].config, job[h].pricing) : row \in rows}
     IN open' = [open EXCEPT ![h] = {[r EXCEPT !.results = results] : r \in @}]
  /\ Goto(h, "mark")
  /\ UNCHANGED <<vars, work, runs, job, reply, failures>>

Marked(h) == {[r EXCEPT !.status = "succeeded"] : r \in open[h]}

\* Mutant of MarkSucceeded: the detail is read before the run is marked.
ReadThenMark(h) ==
  /\ pc[h] = "mark"
  /\ open' = [open EXCEPT ![h] = Marked(h)]
  /\ reply' = [reply EXCEPT ![h] = open[h]]
  /\ Goto(h, "reply")
  /\ UNCHANGED <<vars, work, runs, job, failures>>

\* _mark_succeeded, then the detail is read back in the same transaction.
MarkSucceeded(h) ==
  /\ pc[h] = "mark"
  /\ open' = [open EXCEPT ![h] = Marked(h)]
  /\ reply' = [reply EXCEPT ![h] = Marked(h)]
  /\ Goto(h, "reply")
  /\ UNCHANGED <<vars, work, runs, job, failures>>

\* The answer leaves; without a run of its own it is a duplicate's.
Reply(h) ==
  /\ pc[h] = "reply"
  /\ Goto(h, "commit")
  /\ UNCHANGED <<vars, work, runs, job, open, reply, failures>>

EndSession(h) ==
  /\ Goto(h, "idle")
  /\ job' = [job EXCEPT ![h] = None]
  /\ open' = [open EXCEPT ![h] = {}]
  /\ reply' = [reply EXCEPT ![h] = {}]

CommitRun(h) ==
  /\ pc[h] = "commit"
  /\ runs' = runs \cup open[h]
  /\ EndSession(h)
  /\ UNCHANGED <<vars, work, failures>>

\* A statement or the commit fails, or the process ends: the transaction is
\* rolled back.
Fail(h) ==
  /\ pc[h] # "idle" /\ failures < MaxFailures
  /\ failures' = failures + 1
  /\ EndSession(h)
  /\ UNCHANGED <<vars, work, runs>>

SimNext ==
  \/ work = "read" /\ Next /\ UNCHANGED simVars
  \/ work = "simulate" /\ (\E c \in Commands : Begin(c)) /\ UNCHANGED simVars
  \/ work = "simulate" /\ (\E t \in running : Commit(t)) /\ UNCHANGED simVars
  \/ \E h \in SimHandlers :
       \/ \E c \in Simulate : Post(h, c)
       \/ Insert(h) \/ InsertAgain(h) \/ ReadStored(h) \/ Select(h)
       \/ MarkSucceeded(h) \/ Reply(h) \/ CommitRun(h) \/ Fail(h)

SimSpec == SimInit /\ [][SimNext]_allVars

-----------------------------------------------------------------------------
(* Properties *)

\* A key has one run: no two are stored, an open transaction never holds the
\* key of a stored run or of another transaction, and whoever is answered is
\* told, finished, the run that is to be stored or the one that is.
RunsAreIdempotent ==
  /\ \A r, s \in runs : r.key = s.key => r = s
  /\ \A h \in SimHandlers : \A r \in open[h] :
       /\ StoredRun(r.key) = {}
       /\ \A g \in SimHandlers \ {h} : \A s \in open[g] : s.key # r.key
  /\ \A h \in SimHandlers :
       /\ \A r \in reply[h] : r.status = "succeeded" /\ r.key = job[h].key
       /\ pc[h] = "commit" =>
            /\ reply[h] # {}
            /\ reply[h] = open[h] \/ (open[h] = {} /\ reply[h] \subseteq runs)

\* A run has one result for each execution it covers, none of a simulated one;
\* unless the limit cut it, it covers all that matched when it was inserted, and
\* what the limit cut off is older than all that it left.
RunsCoverTheirBasis ==
  \A r \in runs :
    LET covered == {x.execution : x \in r.results}
    IN /\ Cardinality(r.results) = Cardinality(covered)
       /\ covered \subseteq {e.id : e \in Candidates(db, r.command)}
       /\ \/ r.basis \subseteq covered
          \/ /\ Cardinality(covered) = Limit(r.command.limit)
             /\ \A e, o \in db.executions :
                  e.id \in covered /\ o.id \in r.basis \ covered => e.created > o.created

\* What GET shows of a run.
Summary(r) ==
  [results |-> Cardinality(r.results), saved |-> Sum(r.results, LAMBDA x : x.saved),
   baseline |-> SumOrNone(r.results, LAMBDA x : x.baseline),
   cost |-> SumOrNone(r.results, LAMBDA x : x.cost)]

NoOverride == [threshold |-> None, ratio |-> None, multiplier |-> None, delta |-> None]

\* A simulation that overrides nothing reproduces the statistics of what it
\* covers; what a result saves is what its tokens say; and text below the
\* threshold saves nothing.
ResultsAddUp ==
  \A r \in runs :
    /\ /\ r.command.config = NoOverride /\ r.command.request = None
       /\ {x.execution : x \in r.results} = Ids(db, r.command.filter)
       => Summary(r).saved = TokenTotals(db, r.command.filter).saved
    /\ \A x \in r.results :
         /\ x.saved = Minus(x.original, x.compressed)
         /\ /\ r.command.config.threshold # None /\ x.original # None
            /\ x.original < r.command.config.threshold
            => x.saved = 0

=============================================================================
