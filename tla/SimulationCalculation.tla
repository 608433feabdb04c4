----------------------- MODULE SimulationCalculation -----------------------
(***************************************************************************)
(* What a cost simulation selects and computes: the newest matching        *)
(* executions with their token sums, and for each one the tokens and costs *)
(* under overridden settings and prices.  Ratios are tenths, prices are    *)
(* whole units per token; cached and uncached input stand for the five     *)
(* kinds of token that have a rate.                                        *)
(***************************************************************************)
EXTENDS ReadQueries

\* Decimal.to_integral_value rounds half to even.
RoundTenths(n) ==
  LET down == n \div 10
  IN IF n % 10 > 5 \/ (n % 10 = 5 /\ down % 2 = 1) THEN down + 1 ELSE down

AtLeastZero(n) == IF n < 0 THEN 0 ELSE n

\* The compressed tokens times a multiplier, or else less a delta.
Adjusted(compressed, config) ==
  IF compressed = None THEN None
  ELSE IF config.multiplier # None THEN AtLeastZero(RoundTenths(compressed * config.multiplier))
  ELSE IF config.delta # None THEN AtLeastZero(compressed - config.delta)
  ELSE compressed

\* Mutant of SimulatedCompressed: a ratio wins over the threshold.
SimulatedCompressedByRatio(original, compressed, config) ==
  IF original = None THEN None
  ELSE IF config.ratio # None THEN AtLeastZero(RoundTenths(original * config.ratio))
  ELSE IF config.threshold # None /\ original < config.threshold THEN original
  ELSE Adjusted(compressed, config)

\* Text below the threshold is left alone; then a ratio of the original, a
\* multiple of the compressed, or a shift of it, whichever is given first.
SimulatedCompressed(original, compressed, config) ==
  IF original = None THEN None
  ELSE IF config.threshold # None /\ original < config.threshold THEN original
  ELSE IF config.ratio # None THEN AtLeastZero(RoundTenths(original * config.ratio))
  ELSE Adjusted(compressed, config)

Minus(left, right) == IF left = None \/ right = None THEN None ELSE left - right

Times(count, rate) == IF count = None \/ rate = None THEN None ELSE count * rate

\* A cost is unknown when no rate meets a count.
TokenCost(input, cached, pricing) ==
  LET paid == Times(input, pricing.input)
      repaid == Times(cached, pricing.cached)
  IN IF paid = None /\ repaid = None THEN None ELSE OrZero(paid) + OrZero(repaid)

\* Python's or: zero is as good as missing.
Or(value, other) == IF value = None \/ value = 0 THEN other ELSE value

\* calculate_simulation
Calculation(row, config, pricing) ==
  LET compressed == SimulatedCompressed(row.original, row.compressed, config)
      saved == Minus(row.original, compressed)
      baseline == Or(row.measured,
                     TokenCost(Or(row.input, row.compressed), row.cached, pricing))
      cost == TokenCost(compressed, row.cached, pricing)
  IN [request |-> row.request, execution |-> row.execution, chunk |-> row.chunk,
      original |-> row.original, compressed |-> compressed, saved |-> saved,
      cost |-> cost, baseline |-> baseline,
      saved_delta |-> Minus(saved, row.saved), cost_delta |-> Minus(cost, baseline)]

-----------------------------------------------------------------------------
(* Selection *)

Limit(n) == Min({Max({n, 1}), 1000})

\* The row of one execution: its first chunk, what its calls cost and the
\* input their provider reported.
SelectedRow(db, e) ==
  LET ordinals == {c.ordinal : c \in {x \in db.chunks : x.execution = e.id}}
      calls == {k \in db.calls : k.execution = e.id}
      reported == {u \in db.usages : /\ u.source = "provider_reported"
                                     /\ \E k \in calls : k.id = u.call}
  IN [request |-> e.request, execution |-> e.id,
      chunk |-> IF ordinals = {} THEN None ELSE Min(ordinals),
      original |-> e.original, compressed |-> e.compressed, saved |-> e.saved,
      measured |-> SumOrNone(calls, LAMBDA k : k.cost),
      input |-> SumOrNone(reported, LAMBDA u : u.input),
      cached |-> SumOrNone(reported, LAMBDA u : u.cached)]

\* The selection's filter, and its request when it names one.
Candidates(db, selection) ==
  {e \in Matching(db, selection.filter) : Equal(selection.request, e.request)}

\* Mutant of SelectedRows: a limit keeps the executions created first.
SelectedRowsOldest(db, selection) ==
  LET all == Candidates(db, selection)
      older(e) == Cardinality({d \in all : d.created < e.created})
  IN {SelectedRow(db, e) : e \in {x \in all : older(x) < Limit(selection.limit)}}

\* The executions created last, at most the limit.
SelectedRows(db, selection) ==
  LET all == Candidates(db, selection)
      newer(e) == Cardinality({d \in all : d.created > e.created})
  IN {SelectedRow(db, e) : e \in {x \in all : newer(x) < Limit(selection.limit)}}

=============================================================================
