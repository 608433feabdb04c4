---------------------------- MODULE MCReadModels ----------------------------
EXTENDS ReadModels

\* Two requests, and one of test data.
Real == [id |-> "r1", provider |-> "p", model |-> "m", tenant |-> "t", team |-> None,
         metadata |-> {<<"data_scope", "real">>}, started |-> None, ended |-> 9]
Other == [Real EXCEPT !.id = "r2", !.tenant = None, !.started = 1]
Test == [Real EXCEPT !.id = "r3", !.provider = None, !.metadata = {<<"smoke", "true">>}]

Reported(input, cached) ==
  [source |-> "provider_reported", input |-> input, cached |-> cached, total |-> input]

Before(input) == [source |-> "estimated_before", input |-> input, cached |-> None, total |-> None]

\* A call of provider q; its cached input exceeds its input.
Call(id, attached, cost, before) ==
  [id |-> id, attached |-> attached, provider |-> "q", model |-> "m", cost |-> cost,
   usages |-> {Reported(6, 8)} \cup before, estimates |-> {4}]

Hit == [operation |-> "read", hit |-> TRUE, read |-> 8, written |-> None]

First == [event |-> 1, request |-> Real, attempt |-> 1, simulated |-> FALSE,
          status |-> "succeeded", strategy |-> "s", original |-> 10, compressed |-> 6,
          saved |-> 4, duration |-> 2, started |-> 2, chunks |-> {0},
          calls |-> {Call("k1", TRUE, 3, {})}, activities |-> {Hit}]

\* The same call reported again, and a failed retry whose calls name no attempt.
Again == [First EXCEPT !.event = 2, !.calls = {Call("k1", TRUE, 5, {Before(20)})}]

Retry == [First EXCEPT !.event = 3, !.attempt = 2, !.status = "failed",
          !.original = 3, !.compressed = None, !.saved = None, !.duration = None,
          !.chunks = {}, !.calls = {Call(k, FALSE, None, {}) : k \in {"k1", "k2"}}, !.activities = {}]

\* Another request, whose compression expanded the text.
Expanded == [First EXCEPT !.event = 4, !.request = Other, !.compressed = 11,
             !.saved = -1, !.calls = {Call("k3", TRUE, 5, {})}, !.started = None,
             !.chunks = {}]

Simulated == [First EXCEPT !.event = 5, !.simulated = TRUE, !.calls = {}]

Smoke == [First EXCEPT !.event = 6, !.request = Test, !.chunks = {},
          !.calls = {Call("k4", TRUE, 2, {})}]

MCEarlier == Ingested(Ingested(Ingested(NoRows, First, 1), Simulated, 2), Smoke, 3)

MCCommands == {Again, Retry, Expanded}

Anything == [NoFilter EXCEPT !.provider = "q", !.scope = "all"]

Question(endpoint, filter) ==
  [view |-> endpoint, filter |-> filter, preset |-> "1h", from |-> None, to |-> None,
   request |-> "r2", offset |-> 0]

MCQuestions ==
  {Question("stats", NoFilter), Question("stats", Anything), Question("walk", Anything),
   Question("page", NoFilter), [Question("page", Anything) EXCEPT !.from = 2],
   [Question("records", NoFilter) EXCEPT !.offset = 1], Question("detail", NoFilter)}

MCPresets == [p \in {"1h"} |-> 3]
=============================================================================
