--------------------------- MODULE UsefulnessRun ---------------------------
(***************************************************************************)
(* One execution of the direct-versus-proxy proof                          *)
(* (scripts/e2e_agent90_usefulness.py): preflight, the two lanes with      *)
(* their account snapshots and their resumed Codex turns, the database     *)
(* query, the verdict, the summary file and the exit code.                 *)
(*                                                                         *)
(* The plan, the agent (its runs print lines, spend tokens, fail or exceed *)
(* the time limit) and the account are the environment.  What a run spends *)
(* reaches the account's counters when it is posted; the rate-limit window *)
(* and the daily bucket start over at any time.  sessions and clean are    *)
(* history: what each lane's session really used and did, and whether the  *)
(* counters told it.                                                       *)
(***************************************************************************)
EXTENDS UsageReports

CONSTANTS Plans,      \* [order, turns, preflight, force, queryDb, floor, attempts, snapshots]
          Leftovers,  \* what the artifact directory may hold before: None, "old"
          Replies,    \* [kind, ids] of the proxy's model and callback lists
          AgentRuns(_), \* the runs of the agent in a plan:
                        \* [code, timeout, thread, input, cached, commands, ...]
          Printed(_),   \* the lines of a run, but for the counts of its session
          Probes(_),    \* [limits, usage, daily]: whether the probe gets an answer to each
                        \* of its two queries, and whether the second one shows the day
          Unit,         \* tokens per percent of the window, which is shown in whole ones
          MaxRolls

\* The two lanes, each once; and a run completes the commands it prints.
ASSUME RunAssumption ==
  /\ None \notin Int /\ Unit \in Nat \ {0}
  /\ \A p \in Plans :
       /\ p.order \in {<<"direct", "proxy">>, <<"proxy", "direct">>}
       /\ p.turns \in Nat \ {0} /\ p.floor \in Int
       /\ \A r \in AgentRuns(p) :
            /\ r.code \in Int /\ {r.input, r.cached, r.commands} \subseteq Nat
            /\ Len(Printed(r)) \in Nat /\ DOMAIN Printed(r) = 1 .. Len(Printed(r))
            /\ \A i \in DOMAIN Printed(r) : DOMAIN Printed(r)[i] = LineFields
            /\ Cardinality(Completed(Printed(r), "command_execution")) = r.commands

VARIABLES plan, at, disk, preflight, lane, done, exit, account, sessions, clean

run == <<plan, at, disk, preflight, lane, done, exit, account, sessions, clean>>

Nothing == [input |-> 0, cached |-> 0, commands |-> 0]

NoLane == [name |-> None, turn |-> 0, session |-> None, summaries |-> <<>>, lines |-> <<>>,
           code |-> 0, attempt |-> 0, before |-> NoSnapshot]

RunInit ==
  /\ plan \in Plans
  /\ \E old \in Leftovers : disk = [plan |-> old, summary |-> old, verdict |-> None,
                                      normalized |-> FALSE]
  /\ at = "start"
  /\ preflight = None
  /\ lane = NoLane
  /\ done = <<>>
  /\ exit = None
  /\ account = [primary |-> 0, daily |-> 0, unposted |-> 0, rolls |-> 0]
  /\ sessions = [l \in Lanes |-> Nothing]
  /\ clean = [l \in Lanes |-> TRUE]

-----------------------------------------------------------------------------
(* Preflight *)

\* Status 2xx or 3xx, whatever the body.
Answers(reply) == reply.kind \in {"garbled", "ok"}

\* A list the proxy answered counts only as JSON with the wanted name in it.
Advertises(reply, name) == Answers(reply) /\ reply.kind # "garbled" /\ name \in reply.ids

Checks(tcp, models, callbacks, ready) ==
  [tcp |-> tcp, model |-> Advertises(models, "model"),
   callback |-> Advertises(callbacks, "HeadroomCallback"),
   ready |-> ~plan.queryDb \/ Answers(ready)]

PreflightOk == preflight # None /\ \A check \in DOMAIN preflight : preflight[check]

-----------------------------------------------------------------------------
(* Ending: the process returns, or an exception nothing catches ends it *)

Return(code) == at' = "ended" /\ exit' = code

Die == at' = "died" /\ exit' = 1

ResultOf(results, name) ==
  LET of == {i \in DOMAIN results : results[i].lane = name}
  IN IF of = {} THEN None ELSE results[Max(of)]

TokensOf(result) == IF result = None THEN None ELSE result.tokens

AccountOf(result) == IF result = None THEN None ELSE AccountLane(result.before, result.after)

Comparison(results) ==
  CompareTokens(TokensOf(ResultOf(results, "direct")), TokensOf(ResultOf(results, "proxy")))

Verdict(results) ==
  OverallUsefulness(CompareAccounts(AccountOf(ResultOf(results, "direct")),
                                    AccountOf(ResultOf(results, "proxy"))),
                    Comparison(results), plan.floor)

Normalized(results) ==
  LET TrajectoryOf(result) == IF result = None THEN None ELSE result.trajectory
  IN CompareTrajectories(TrajectoryOf(ResultOf(results, "direct")),
                         TrajectoryOf(ResultOf(results, "proxy")))

WriteSummary(verdict, results) ==
  disk' = [disk EXCEPT !.summary = "mine", !.verdict = verdict, !.normalized = Normalized(results)]

-----------------------------------------------------------------------------
(* execute_plan up to the lanes *)

\* An artifact directory that exists is reused only when forced.
Start ==
  /\ at = "start"
  /\ IF disk.plan # None /\ ~plan.force
     THEN Return(1) /\ UNCHANGED disk
     ELSE /\ disk' = [disk EXCEPT !.plan = "mine"]
          /\ at' = IF plan.preflight THEN "preflight" ELSE "lane"
          /\ UNCHANGED exit
  /\ UNCHANGED <<plan, preflight, lane, done, account, sessions, clean>>

Preflight ==
  /\ at = "preflight"
  /\ \E tcp \in BOOLEAN, models, callbacks, ready \in Replies :
       preflight' = Checks(tcp, models, callbacks, ready)
  /\ IF PreflightOk' THEN at' = "lane" /\ UNCHANGED <<disk, exit>>
     ELSE WriteSummary(None, <<>>) /\ Return(1)
  /\ UNCHANGED <<plan, lane, done, account, sessions, clean>>

-----------------------------------------------------------------------------
(* A lane: a snapshot, the turns, a snapshot *)

StartLane ==
  /\ at = "lane"
  /\ Len(done) < Len(plan.order)
  /\ lane' = [NoLane EXCEPT !.name = plan.order[Len(done) + 1]]
  /\ at' = IF plan.snapshots THEN "before" ELSE "turn"
  /\ UNCHANGED <<plan, disk, preflight, done, exit, account, sessions, clean>>

\* What the probe may report of the account.
Snapshots ==
  LET limits == [primary_used_percent |-> account.primary \div Unit, weekly_used_percent |-> None,
                 credits_balance |-> None, reset_credits_available |-> 2]
      Day(probe) ==
        [latest_daily_bucket_tokens |-> IF probe.daily THEN account.daily ELSE None]
  IN {BuildSnapshot(IF probe.limits THEN limits ELSE None,
                    IF probe.usage THEN Day(probe) ELSE None) : probe \in Probes(plan)}

\* An attempt that does not observe the account is repeated up to the limit.
Attempt(Take(_)) ==
  \E snapshot \in Snapshots :
    IF snapshot.status = "observed" \/ lane.attempt + 1 = plan.attempts
    THEN Take(snapshot) /\ clean' = [clean EXCEPT ![lane.name] = @ /\ account.unposted = 0]
    ELSE /\ lane' = [lane EXCEPT !.attempt = @ + 1]
         /\ UNCHANGED <<at, done, disk, exit, clean>>

SnapshotBefore ==
  /\ at = "before"
  /\ Attempt(LAMBDA s : /\ lane' = [lane EXCEPT !.before = s, !.attempt = 0]
                        /\ at' = "turn"
                        /\ UNCHANGED <<done, disk, exit>>)
  /\ UNCHANGED <<plan, preflight, account, sessions>>

\* Mutant of FinishLane: a failed lane does not end the execution.
FinishLaneGoesOn(after) ==
  /\ done' = Append(done,
       [lane |-> lane.name, code |-> lane.code, turns |-> lane.turn,
        session |-> lane.session, before |-> lane.before, after |-> after,
        tokens |-> Aggregate(lane.summaries, plan.turns > 1),
        trajectory |-> ParseTrajectory(lane.lines)])
  /\ lane' = NoLane
  /\ at' = "lane"
  /\ UNCHANGED <<disk, exit>>

\* The lane's result ends the execution when its last turn failed.
FinishLane(after) ==
  LET result == [lane |-> lane.name, code |-> lane.code, turns |-> lane.turn,
                 session |-> lane.session, before |-> lane.before, after |-> after,
                 tokens |-> Aggregate(lane.summaries, plan.turns > 1),
                 trajectory |-> ParseTrajectory(lane.lines)]
  IN /\ done' = Append(done, result)
     /\ lane' = NoLane
     /\ IF lane.code # 0 THEN WriteSummary(None, Append(done, result)) /\ Return(lane.code)
        ELSE at' = "lane" /\ UNCHANGED <<disk, exit>>

SnapshotAfter ==
  /\ at = "after"
  /\ IF plan.snapshots THEN Attempt(FinishLane)
     ELSE FinishLane(NoSnapshot) /\ UNCHANGED clean
  /\ UNCHANGED <<plan, preflight, account, sessions>>

\* Codex counts from the first turn of a session on.
Cumulative(line, used) ==
  [line EXCEPT !.usage =
     [f \in DOMAIN line.usage |->
        CASE f = "input_tokens" -> used.input
          [] f = "cached_input_tokens" -> used.cached
          [] f = "total_tokens" -> used.input + line.usage["output_tokens"]
          [] OTHER -> line.usage[f]]]

\* The first turn opens a session, a later one resumes the thread the first one
\* announced.  A run that exceeds the time limit has spent its tokens too.
Turn ==
  /\ at = "turn"
  /\ IF lane.turn > 0 /\ lane.session = None
     THEN Die /\ UNCHANGED <<lane, account, sessions>>
     ELSE \E r \in AgentRuns(plan) :
            LET used == [input |-> sessions[lane.name].input + r.input,
                         cached |-> sessions[lane.name].cached + r.cached,
                         commands |-> sessions[lane.name].commands + r.commands]
                lines == [i \in DOMAIN Printed(r) |-> Cumulative(Printed(r)[i], used)]
            IN /\ sessions' = [sessions EXCEPT ![lane.name] = used]
               /\ account' = [account EXCEPT !.unposted = @ + r.input]
               /\ IF r.timeout THEN Die /\ UNCHANGED lane
                  ELSE /\ lane' = [lane EXCEPT
                            !.turn = @ + 1, !.code = r.code,
                            !.summaries = Append(@, ParseTokens(lines)),
                            !.lines = @ \o lines,
                            !.session = IF @ = None THEN LatestThread(ParseTrajectory(lines))
                                        ELSE @]
                       /\ at' = IF r.code # 0 \/ lane.turn + 1 = plan.turns
                                THEN "after" ELSE "turn"
                       /\ UNCHANGED exit
  /\ UNCHANGED <<plan, disk, preflight, done, clean>>

-----------------------------------------------------------------------------
(* The database query and the verdict *)

\* The return code of the text query, else of the first structured query that
\* failed.
DbCode(text, aggregate, rows) ==
  IF text # 0 THEN text ELSE IF aggregate # 0 THEN aggregate ELSE rows

\* The summary is written whatever the database answered; a query that exceeds
\* its time limit ends the process before.
Conclude ==
  /\ at = "lane"
  /\ Len(done) = Len(plan.order)
  /\ \/ /\ plan.queryDb
        /\ Die
        /\ UNCHANGED disk
     \/ \E text, aggregate, rows \in {0, 3} :
          LET db == IF plan.queryDb THEN DbCode(text, aggregate, rows) ELSE 0
              verdict == Verdict(done)
          IN /\ WriteSummary(verdict, done)
             /\ Return(IF db # 0 THEN db ELSE IF verdict.status = "pass" THEN 0 ELSE 2)
  /\ UNCHANGED <<plan, preflight, lane, done, account, sessions, clean>>

-----------------------------------------------------------------------------
(* The account *)

Post ==
  /\ plan.snapshots
  /\ account.unposted > 0
  /\ account' = [account EXCEPT !.unposted = 0, !.primary = @ + account.unposted,
                                !.daily = @ + account.unposted]
  /\ UNCHANGED <<plan, at, disk, preflight, lane, done, exit, sessions, clean>>

\* The window's used percent, or the latest daily bucket, starts over.
Roll ==
  /\ plan.snapshots
  /\ account.rolls < MaxRolls
  /\ \E counter \in {"primary", "daily"} :
       account' = [account EXCEPT ![counter] = 0, !.rolls = @ + 1]
  /\ clean' = [l \in Lanes |-> clean[l] /\ ~(l = lane.name /\ at \in {"before", "turn", "after"})]
  /\ UNCHANGED <<plan, at, disk, preflight, lane, done, exit, sessions>>

RunNext ==
  \/ Start \/ Preflight \/ StartLane \/ SnapshotBefore \/ Turn \/ SnapshotAfter
  \/ Conclude \/ Post \/ Roll

RunSpec == RunInit /\ [][RunNext]_run

-----------------------------------------------------------------------------

\* A successful exit is earned: preflight passed unless it was skipped, and no
\* token was spent before it did; both lanes ran every turn, each in one session,
\* the last with code 0, and met the token floor; and the summary file on disk is
\* this execution's, with that verdict.  A summary of another execution than the
\* plan beside it is left only where a forced reuse of the directory died.
SuccessIsEarned ==
  /\ \A l \in Lanes : sessions[l] # Nothing /\ plan.preflight => PreflightOk
  /\ exit = 0 =>
       /\ disk.summary = "mine" /\ disk.verdict.status = "pass"
       /\ plan.preflight => PreflightOk
       /\ \A l \in Lanes :
            /\ \E i \in DOMAIN done : done[i].lane = l
            /\ ResultOf(done, l).turns = plan.turns
            /\ ResultOf(done, l).code = 0
            /\ plan.turns > 1 => ResultOf(done, l).session # None
       /\ plan.floor > 0 => sessions["direct"].input + sessions["proxy"].input >= plan.floor
                            \/ \E i \in DOMAIN done : done[i].tokens.fromText # {}
  /\ disk.summary # None => disk.summary = disk.plan \/ (plan.force /\ exit \notin {0, 2})

\* What the summary says is true of what the sessions did.  Figures it calls
\* trajectory normalized come from sessions that ran as many commands.  Where the verdict
\* passes on the provider's figures, and no free text had to fill a field in, the
\* proxied session's input costs no more than the direct one's.  Where it passes on
\* the account's, and neither the window nor the day started over inside a lane nor
\* a lane's use was posted outside it, the proxied lane used less than two units of
\* the shown percent more, and no more at all where both show the daily bucket.
VerdictsAreTrue ==
  /\ disk.normalized => sessions["direct"].commands = sessions["proxy"].commands
  /\ exit = 0 =>
       LET direct == sessions["direct"]
           proxy == sessions["proxy"]
           Priced(used) == 10 * Max({used.input - used.cached, 0}) + used.cached
           exact == \A l \in Lanes :
                      AccountOf(ResultOf(done, l)).delta["latest_daily_bucket_tokens"] # None
       IN IF disk.verdict.scope = "account_capacity"
          THEN clean = [l \in Lanes |-> TRUE] =>
                 proxy.input < direct.input + (IF exact THEN 1 ELSE 2 * Unit)
          ELSE (\A i \in DOMAIN done : done[i].tokens.fromText = {}) =>
                 Priced(proxy) <= Priced(direct)

=============================================================================
