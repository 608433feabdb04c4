---------------------------- MODULE UsageReports ----------------------------
(***************************************************************************)
(* What the direct-versus-proxy proof (scripts/e2e_agent90_usefulness.py)  *)
(* makes of the lines Codex printed and of the account snapshots: token    *)
(* summaries, trajectories, their comparison and the verdict.              *)
(*                                                                         *)
(* A printed line is a record: json (it parses as a JSON object), event    *)
(* (its type), thread, usage (the token counts of the event), text (the    *)
(* token counts the regular expressions find in it), cost (in cents) and   *)
(* item (None, or its type, exit code and sizes).  Token counts are        *)
(* partial functions on TOKEN_FIELDS.  The cost of cached input is a tenth *)
(* of that of other input, so billing figures are in tenths of a token;    *)
(* ratios are in millionths.                                               *)
(***************************************************************************)
EXTENDS PythonValues, FiniteSets, FiniteSetsExt, SequencesExt

TOKEN_FIELDS == {"input_tokens", "cached_input_tokens", "output_tokens",
                 "reasoning_tokens", "total_tokens"}

LineFields == {"json", "event", "thread", "usage", "text", "cost", "item"}

Lanes == {"direct", "proxy"}

-----------------------------------------------------------------------------
(* What Codex printed *)

\* A turn.completed event without a total has the sum of its input and output.
Usage(line) ==
  IF ~line.json \/ line.event # "turn.completed" THEN <<>>
  ELSE IF {"input_tokens", "output_tokens"} \subseteq DOMAIN line.usage
          /\ "total_tokens" \notin DOMAIN line.usage
  THEN Put(line.usage, "total_tokens", line.usage.input_tokens + line.usage.output_tokens)
  ELSE line.usage

\* Per field the latest usage event wins; a field no usage event has is the
\* latest the text of the other lines mentions.
ParseTokens(lines) ==
  LET events == {i \in DOMAIN lines : DOMAIN Usage(lines[i]) # {}}
      Reported(f) == {i \in events : f \in DOMAIN Usage(lines[i])}
      Mentioned(f) == {i \in DOMAIN lines \ events : f \in DOMAIN lines[i].text}
      costs == {i \in DOMAIN lines : lines[i].cost # None}
  IN [tokens |-> [f \in TOKEN_FIELDS |->
                    IF Reported(f) # {} THEN Usage(lines[Max(Reported(f))])[f]
                    ELSE IF Mentioned(f) # {} THEN lines[Max(Mentioned(f))].text[f]
                    ELSE None],
      cost |-> IF costs = {} THEN None ELSE lines[Max(costs)].cost,
      fromText |-> {f \in TOKEN_FIELDS : Reported(f) = {} /\ Mentioned(f) # {}}]

Complete(summary) == \A f \in TOKEN_FIELDS : summary.tokens[f] # None

SumOrNone(values) ==
  IF None \in Range(values) THEN None ELSE FoldSeq(LAMBDA x, y : x + y, 0, values)

\* Mutant of Aggregate: the turns of a resumed session are summed like separate ones.
AggregateSummed(turns, cumulative) ==
  IF Len(turns) = 1 THEN Last(turns)
  ELSE [tokens |-> [f \in TOKEN_FIELDS |->
                      SumOrNone([i \in DOMAIN turns |-> turns[i].tokens[f]])],
        cost |-> SumOrNone([i \in DOMAIN turns |-> turns[i].cost]),
        fromText |-> UNION {turns[i].fromText : i \in DOMAIN turns}]

\* Codex reports a resumed session cumulatively: its latest turn is the session.
Aggregate(turns, cumulative) ==
  IF Len(turns) = 1 \/ cumulative THEN Last(turns)
  ELSE [tokens |-> [f \in TOKEN_FIELDS |->
                      SumOrNone([i \in DOMAIN turns |-> turns[i].tokens[f]])],
        cost |-> SumOrNone([i \in DOMAIN turns |-> turns[i].cost]),
        fromText |-> UNION {turns[i].fromText : i \in DOMAIN turns}]

\* The lines that say that an item of a type is completed.
Completed(lines, type) ==
  {i \in DOMAIN lines : /\ lines[i].json /\ lines[i].event = "item.completed"
                        /\ lines[i].item # None /\ lines[i].item.type = type}

\* Tool outputs count by what CCR holds of them, else by what was printed.
ParseTrajectory(lines) ==
  LET objects == {i \in DOMAIN lines : lines[i].json}
      commands == Completed(lines, "command_execution")
      Exits(P(_)) == Cardinality({i \in commands : P(lines[i].item.exit)})
      Size(i) == IF lines[i].item.ccr > 0 THEN lines[i].item.ccr ELSE lines[i].item.chars
  IN [json_line_count |-> Cardinality(objects),
      turn_completed_count |-> Cardinality({i \in objects : lines[i].event = "turn.completed"}),
      command_completed |-> Cardinality(commands),
      command_succeeded |-> Exits(LAMBDA x : x = 0),
      command_failed |-> Exits(LAMBDA x : x \notin {0, None}),
      command_output_ccr_bytes |-> MapThenSumSet(LAMBDA i : lines[i].item.ccr, commands),
      command_output_size_estimate |-> MapThenSumSet(Size, commands),
      agent_message_count |-> Cardinality(Completed(lines, "agent_message")),
      error_item_count |-> Cardinality(Completed(lines, "error")),
      threads |-> [k \in 1 .. Cardinality({i \in objects : lines[i].thread # None}) |->
                     SelectSeq(lines, LAMBDA l : l.json /\ l.thread # None)[k].thread]]

LatestThread(trajectory) ==
  IF trajectory.threads = <<>> THEN None ELSE Last(trajectory.threads)

-----------------------------------------------------------------------------
(* The comparison of the two lanes' summaries; a lane that did not run is None *)

Field(summary, f) == IF summary = None THEN None ELSE summary.tokens[f]

Cost(summary) == IF summary = None THEN None ELSE summary.cost

NewlyProcessed(s) ==
  LET fresh == Minus(Field(s, "input_tokens"), Field(s, "cached_input_tokens"))
  IN IF fresh = None THEN None ELSE Max({fresh, 0})

CachedRatio(s) ==
  LET input == Field(s, "input_tokens")
      cached == Field(s, "cached_input_tokens")
  IN IF input \in {None, 0} \/ cached = None THEN None
     ELSE (1000000 * cached + input \div 2) \div input

BillingEquivalent(s) ==
  IF NewlyProcessed(s) = None THEN None
  ELSE 10 * NewlyProcessed(s) + Field(s, "cached_input_tokens")

CompareTokens(direct, proxy) ==
  [complete |-> direct # None /\ proxy # None /\ Complete(direct) /\ Complete(proxy),
   total |-> Minus(Field(proxy, "total_tokens"), Field(direct, "total_tokens")),
   billing |-> Minus(BillingEquivalent(proxy), BillingEquivalent(direct)),
   ratio |-> Minus(CachedRatio(proxy), CachedRatio(direct)),
   cost |-> Minus(Cost(proxy), Cost(direct)),
   input |-> IF None \in {Field(direct, "input_tokens"), Field(proxy, "input_tokens")} THEN None
             ELSE Field(direct, "input_tokens") + Field(proxy, "input_tokens")]

MaxCacheRatioDrop == 50000

\* A total that got worse is a warning while the billing figure did not.
FailReasons(c) ==
  LET NotWorse(delta) == delta # None /\ delta <= 0
  IN {r \in {"billing", "total", "cache_ratio"} :
        c.complete /\ CASE r = "billing" -> ~NotWorse(c.billing)
                        [] r = "total" -> ~NotWorse(c.total) /\ ~NotWorse(c.billing)
                        [] r = "cache_ratio" -> c.ratio = None \/ c.ratio < -MaxCacheRatioDrop}
     \cup {r \in {"cost"} : c.cost # None /\ c.cost > 0}

MissingReasons(c) ==
  {r \in {"token_summary_incomplete"} : ~c.complete} \cup {r \in {"cost_missing"} : c.cost = None}

\* The contract where the lanes' cost may not be observed.
CompletionContract(c) ==
  [scope |-> IF c.cost # None /\ c.complete /\ FailReasons(c) = {}
             THEN "provider_usage_cache_cost" ELSE "provider_usage_cache",
   status |-> IF FailReasons(c) # {} THEN "fail"
              ELSE IF ~c.complete THEN "incomplete"
              ELSE IF c.cost # None \/ MissingReasons(c) = {"cost_missing"} THEN "pass"
              ELSE "incomplete"]

FloorMet(c, minimum) == minimum <= 0 \/ (c.input # None /\ c.input >= minimum)

\* Whether both lanes did the same work.
CompareTrajectories(direct, proxy) ==
  direct # None /\ proxy # None
  /\ direct.json_line_count > 0 /\ proxy.json_line_count > 0
  /\ direct.command_completed = proxy.command_completed
  /\ direct.command_output_size_estimate = proxy.command_output_size_estimate

-----------------------------------------------------------------------------
(* The account snapshots around a lane *)

\* Counters that grow as the account is used, and balances that shrink.
DepletionKeys == {"primary_used_percent", "weekly_used_percent", "latest_daily_bucket_tokens"}
BalanceKeys == {"credits_balance", "reset_credits_available"}

\* The answers of codex app-server to the two queries: observed if both came
\* without an error.  A key an answer does not have is None.
BuildSnapshot(limits, usage) ==
  [status |-> IF limits # None /\ usage # None THEN "observed" ELSE "unavailable",
   metrics |-> [k \in DepletionKeys \cup BalanceKeys |->
                  LET answer == IF k = "latest_daily_bucket_tokens" THEN usage ELSE limits
                  IN IF answer = None THEN None ELSE answer[k]]]

NoSnapshot == BuildSnapshot(None, None)

AccountLane(before, after) ==
  [status |-> IF before.status = "observed" /\ after.status = "observed"
              THEN "observed" ELSE "unavailable",
   delta |-> [k \in DepletionKeys \cup BalanceKeys |-> Minus(after.metrics[k], before.metrics[k])]]

\* The proxy lane depleted more of what both lanes show; when nothing moved the
\* snapshots are too coarse to tell.
CompareAccounts(direct, proxy) ==
  LET shown == {k \in DepletionKeys \cup BalanceKeys : direct.delta[k] # None /\ proxy.delta[k] # None}
      worse == {k \in shown \cap DepletionKeys : proxy.delta[k] > direct.delta[k]}
               \cup {k \in shown \cap BalanceKeys : proxy.delta[k] < direct.delta[k]}
      moved == \E lane \in {direct, proxy} :
                 \E k \in DOMAIN lane.delta : lane.delta[k] \notin {None, 0}
  IN IF direct = None \/ proxy = None THEN "unavailable"
     ELSE IF direct.status # "observed" \/ proxy.status # "observed" THEN "unavailable"
     ELSE IF shown = {} \/ ~moved THEN "unavailable"
     ELSE IF worse # {} THEN "fail" ELSE "pass"

\* The floor first, then the account, then the provider's figures.
OverallUsefulness(account, c, minimum) ==
  IF ~FloorMet(c, minimum) THEN [status |-> "fail", scope |-> "minimum_input_token_floor"]
  ELSE IF account \in {"pass", "fail"} THEN [status |-> account, scope |-> "account_capacity"]
  ELSE CompletionContract(c)

=============================================================================
