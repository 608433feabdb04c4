--------------------------- MODULE MCSimulations ---------------------------
EXTENDS MCReadModels, Simulations

NoPrice == [input |-> None, cached |-> None]

Neutral == [key |-> "k", filter |-> [NoFilter EXCEPT !.scope = "all"], request |-> None,
            limit |-> 100, config |-> NoOverride, pricing |-> NoPrice]

\* The same key with a threshold, a ratio and a limit that cuts.
Halved == [Neutral EXCEPT !.filter = NoFilter, !.limit = 1, !.pricing.input = 2,
             !.config = [threshold |-> 5, ratio |-> 5, multiplier |-> 8, delta |-> 1]]

MCSimulate == {Neutral, Halved}

\* Handlers differ in nothing but their names.
MCSymmetry == Permutations(SimHandlers)
=============================================================================
