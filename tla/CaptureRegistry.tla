--------------------------- MODULE CaptureRegistry ---------------------------
(***************************************************************************)
(* What HeadroomAnalyticsCallback (analytics/adapters/litellm/callback.py) *)
(* remembers of the requests the proxy is serving: the capture its         *)
(* pre-call hook makes of a request's compression, until a later callback  *)
(* pops it and posts a command with the answer.  One adapter serves every  *)
(* request; LiteLLM calls it back from request handlers and from its       *)
(* logging worker, so callbacks of different requests interleave.  A       *)
(* callback touches the registry in one piece, between two awaits.         *)
(***************************************************************************)
EXTENDS Naturals, Sequences, SequencesExt

CONSTANTS
  Requests,    \* requests the proxy serves
  Captured,    \* those of a call type the pre-call hook captures
  Responses,   \* those of the Responses API, whose deployment hook runs
  Streaming,   \* those answered by a stream
  Bare,        \* those with neither messages nor input
  Keys,        \* request keys
  KeyOf,       \* request -> its key (a client's request_id, or unique)
  MaxPending,  \* HEADROOM_ANALYTICS_PENDING_LIMIT
  None         \* no capture, no payload shape

ASSUME RegistryAssumption ==
  /\ Captured \subseteq Requests /\ Streaming \subseteq Requests
  /\ Responses \subseteq Captured
  /\ Bare \subseteq Requests \ Captured
  /\ KeyOf \in [Requests -> Keys]
  /\ MaxPending \in Nat \ {0}
  /\ None \notin Requests

VARIABLES
  stage,    \* request -> where it stands (TypeOK lists the stages)
  due,      \* request -> the callbacks of its answer still to come
  keyed,    \* requests whose pre-call hook has run
  pending,  \* self._pending: captures in the dict's insertion order
  shapes,   \* self._deployment_payload_shapes: their requests, in that order
  commands  \* request -> commands posted with its answer

vars == <<stage, due, keyed, pending, shapes, commands>>

\* A capture: the request it was made for, and whether the metadata or trace
\* of another request has been merged into it.
Capture == [of : Requests, mixed : BOOLEAN]

\* A posted command: whose compression it reports under which request key,
\* whether its context is mixed, whose deployment payload shape it takes.
Command == [capture : Requests \cup {None},
            key     : Keys,
            mixed   : BOOLEAN,
            shape   : Requests \cup {None}]

TypeOK ==
  /\ stage \in [Requests ->
       {"new", "rejected", "calling", "succeeded", "failed", "abandoned"}]
  /\ due \in [Requests -> SUBSET {"hook", "log"}]
  /\ keyed \subseteq Captured
  /\ pending \in Seq(Capture) /\ Len(pending) <= MaxPending
  /\ shapes \in Seq([of : Responses]) /\ Len(shapes) <= MaxPending
  /\ commands \in [Requests -> Seq(Command)]

Init ==
  /\ stage = [r \in Requests |-> "new"]
  /\ due = [r \in Requests |-> {}]
  /\ keyed = {}
  /\ pending = <<>> /\ shapes = <<>>
  /\ commands = [r \in Requests |-> <<>>]

-----------------------------------------------------------------------------
(* The two dicts, as sequences of entries that know whose they are *)

\* Where a dict holds a key: one position at most.
At(dict, k) == {i \in 1..Len(dict) : KeyOf[dict[i].of] = k}

\* The requests whose entries a dict holds.
Owners(dict) == {dict[i].of : i \in 1..Len(dict)}

\* len(d) >= limit: the oldest entry goes, even if the new one has its key.
MakeRoom(dict) == IF Len(dict) >= MaxPending THEN Tail(dict) ELSE dict

\* d[k] = v: a key that is present keeps its place.
Put(dict, v) ==
  IF At(dict, KeyOf[v.of]) = {}
  THEN Append(dict, v)
  ELSE [i \in DOMAIN dict |->
         IF KeyOf[dict[i].of] = KeyOf[v.of] THEN v ELSE dict[i]]

\* Mutant of Remember: the limit is not kept.
RememberAll(c) == pending' = Put(pending, c)

\* _remember
Remember(c) == pending' = Put(MakeRoom(pending), c)

\* Mutant of Own: the key does not reach the logging metadata
\* (_sync_logging_request_key), where a stream's final event looks for it.
OwnUnsynced(r) ==
  IF r \in keyed \ Streaming THEN At(pending, KeyOf[r]) ELSE {}

\* The capture stored under the event's own key.
Own(r) == IF r \in keyed THEN At(pending, KeyOf[r]) ELSE {}

\* _pop_capture, _enrich_pending_capture: the event's own capture, or the
\* only one there is, whoever made it.
Chosen(r) == IF Own(r) # {} \/ Len(pending) # 1 THEN Own(r) ELSE {1}

\* _capture_with_current_request_context
WithContext(c, r) == [c EXCEPT !.mixed = @ \/ r # c.of]

\* _enrich_pending_capture
Enrich(r) ==
  pending' = [i \in DOMAIN pending |->
    IF i \in Chosen(r) THEN WithContext(pending[i], r) ELSE pending[i]]

\* Mutant of Release: the payload shape is read and left there.
ReleaseLater(k) == UNCHANGED shapes

\* _deployment_payload_shapes.pop(key, None)
Release(k) ==
  IF At(shapes, k) = {} THEN UNCHANGED shapes
  ELSE \E i \in At(shapes, k) : shapes' = RemoveAt(shapes, i)

\* _post_capture: the payload shape is the one of the capture's key.
Post(r, from, k, mixed) ==
  /\ \E s \in IF At(shapes, k) = {} THEN {None}
              ELSE {shapes[i].of : i \in At(shapes, k)} :
       commands' = [commands EXCEPT ![r] = Append(@,
         [capture |-> from, key |-> k, mixed |-> mixed, shape |-> s])]
  /\ Release(k)

\* Mutant of PopAndPost: self._pending.get for self._pending.pop.
GetAndPost(r) ==
  \E i \in Chosen(r) :
    LET c == WithContext(pending[i], r)
    IN  Post(r, c.of, KeyOf[c.of], c.mixed) /\ UNCHANGED pending

\* The tail every posting callback shares.
PopAndPost(r) ==
  \E i \in Chosen(r) :
    LET c == WithContext(pending[i], r)
    IN  /\ pending' = RemoveAt(pending, i)
        /\ Post(r, c.of, KeyOf[c.of], c.mixed)

\* _post_call_capture: without a pending capture, one that says that
\* compression was not attempted; none for a request without a payload.
PostUncaptured(r) ==
  /\ Chosen(r) = {} /\ r \notin Bare
  /\ Post(r, None, KeyOf[r], FALSE)
  /\ UNCHANGED pending

PostNothing(r) ==
  /\ Chosen(r) = {} /\ r \in Bare
  /\ UNCHANGED <<pending, shapes, commands>>

Report(r) == PopAndPost(r) \/ PostUncaptured(r) \/ PostNothing(r)

-----------------------------------------------------------------------------
(* Callbacks, and what LiteLLM does between them *)

\* async_pre_call_hook of a call type it captures: the base hook it awaits
\* does not suspend.
PreCall(r) ==
  /\ stage[r] = "new" /\ r \in Captured
  /\ stage' = [stage EXCEPT ![r] = "calling"]
  /\ keyed' = keyed \cup {r}
  /\ Remember([of |-> r, mixed |-> FALSE])
  /\ UNCHANGED <<due, shapes, commands>>

\* async_pre_call_hook of any other call type.
PreCallIgnored(r) ==
  /\ stage[r] = "new" /\ r \notin Captured
  /\ stage' = [stage EXCEPT ![r] = "calling"]
  /\ UNCHANGED <<due, keyed, pending, shapes, commands>>

\* The proxy refuses a request before its pre-call hook (authentication).
Reject(r) ==
  /\ stage[r] = "new"
  /\ stage' = [stage EXCEPT ![r] = "rejected"]
  /\ due' = [due EXCEPT ![r] = {"hook"}]
  /\ UNCHANGED <<keyed, pending, shapes, commands>>

\* async_pre_call_deployment_hook, once per attempt at a deployment.
Deploy(r) ==
  /\ stage[r] = "calling" /\ r \in Responses
  /\ shapes' = Put(MakeRoom(shapes), [of |-> r])
  /\ UNCHANGED <<stage, due, keyed, pending, commands>>

\* The log event of an attempt that is retried, or of a chunk of a stream;
\* the logging worker may deliver it after the answer.
AttemptLogged(r) ==
  /\ stage[r] \in {"calling", "succeeded", "failed"}
  /\ Enrich(r)
  /\ UNCHANGED <<stage, due, keyed, shapes, commands>>

\* The answer is complete.  A stream has no post-call success hook.
Succeed(r) ==
  /\ stage[r] = "calling"
  /\ stage' = [stage EXCEPT ![r] = "succeeded"]
  /\ due' = [due EXCEPT ![r] =
       IF r \in Streaming THEN {"log"} ELSE {"hook", "log"}]
  /\ UNCHANGED <<keyed, pending, shapes, commands>>

\* The last attempt failed, or the proxy refused the request after its
\* pre-call hook, which is not logged.
Fail(r) ==
  /\ stage[r] = "calling"
  /\ stage' = [stage EXCEPT ![r] = "failed"]
  /\ \E logged \in SUBSET {"log"} :
       due' = [due EXCEPT ![r] = {"hook"} \cup logged]
  /\ UNCHANGED <<keyed, pending, shapes, commands>>

\* The client leaves: no further callback.
Abandon(r) ==
  /\ stage[r] = "calling"
  /\ stage' = [stage EXCEPT ![r] = "abandoned"]
  /\ UNCHANGED <<due, keyed, pending, shapes, commands>>

\* async_post_call_success_hook, async_post_call_failure_hook
PostCallHook(r) ==
  /\ "hook" \in due[r]
  /\ due' = [due EXCEPT ![r] = @ \ {"hook"}]
  /\ Report(r)
  /\ UNCHANGED <<stage, keyed>>

\* _is_final_stream_success_logging_payload
FinalStreamSuccess(r) == r \in Streaming /\ stage[r] = "succeeded"

\* Mutant of LogEvent: every log event of an answer is taken for final.
LogEventReports(r) ==
  /\ "log" \in due[r]
  /\ due' = [due EXCEPT ![r] = @ \ {"log"}]
  /\ Report(r)
  /\ UNCHANGED <<stage, keyed>>

\* async_success_handler, async_failure_handler: the proxy's log events only
\* enrich, except the one that carries the whole answer of a stream.
LogEvent(r) ==
  /\ "log" \in due[r]
  /\ due' = [due EXCEPT ![r] = @ \ {"log"}]
  /\ IF FinalStreamSuccess(r)
     THEN Report(r)
     ELSE Enrich(r) /\ UNCHANGED <<shapes, commands>>
  /\ UNCHANGED <<stage, keyed>>

Next ==
  \E r \in Requests :
    \/ PreCall(r) \/ PreCallIgnored(r) \/ Reject(r) \/ Deploy(r)
    \/ AttemptLogged(r) \/ Succeed(r) \/ Fail(r) \/ Abandon(r)
    \/ PostCallHook(r) \/ LogEvent(r)

Spec == Init /\ [][Next]_vars

-----------------------------------------------------------------------------
(* Properties *)

\* The request's answer is complete and its posting callback has run.
Reported(r) ==
  /\ stage[r] \in {"rejected", "succeeded", "failed"}
  /\ (IF FinalStreamSuccess(r) THEN "log" ELSE "hook") \notin due[r]

\* Every answer is reported by exactly one of the callbacks LiteLLM makes for
\* it: the post-call hook and the log event never both post, nor neither.
ReportedOnce ==
  \A r \in Requests :
    /\ Len(commands[r]) <= IF Reported(r) THEN 1 ELSE 0
    /\ Reported(r) /\ r \notin Bare => commands[r] # <<>>

\* The capture that request r's command reports, if it posted one.
Used(r) == {commands[r][i].capture : i \in 1..Len(commands[r])} \ {None}

\* A compression result is reported once, whichever requests pop each
\* other's captures: no two commands and no pending capture share one.
CaptureUsedOnce ==
  \A r \in Requests :
    /\ \A q \in Requests \ {r} : Used(r) \cap Used(q) = {}
    /\ Owners(pending) \cap Used(r) = {}

\* The two together: answers and captures pair off, one report for each.
OneReportEach == ReportedOnce /\ CaptureUsedOnce

\* A request that has posted its command leaves no capture of its own behind
\* for a later lone-capture fallback, whatever it posted and whoever shares
\* its key: only requests still to be answered, and abandoned ones, do.
NoCaptureOutlivesItsAnswer ==
  \A r \in Owners(pending) : commands[r] = <<>>

\* A capture that is neither pending nor in a command: evicted, or replaced
\* by a request with the same key.
Vanished(r) ==
  /\ r \in keyed \ Owners(pending)
  /\ \A q \in Requests : r \notin Used(q)

\* What can make requests take each other's captures: a capture that
\* vanished, or an answer to a request that never had one.
Disturbed ==
  \E r \in Requests : Vanished(r) \/ (Reported(r) /\ r \notin keyed)

\* Unless so disturbed, every command reports its own request's capture: the
\* lone-capture fallback of _pop_capture alone misattributes nothing.
CapturesStayHome ==
  ~Disturbed => \A r \in Requests : commands[r] # <<>> => Used(r) = {r}

\* Nor does a reported request leave its payload shape behind to be evicted
\* in place of one that is still needed.
ShapesAreReleased ==
  ~Disturbed => \A r \in Owners(shapes) : commands[r] = <<>>

\* The two together: what the lone-capture fallback may do by itself.
FallbackAloneHarmless == CapturesStayHome /\ ShapesAreReleased

\* docs/analytics-backend.md:300-302: "Provider request/response IDs, CCR
\* hashes, trace IDs, and request keys provide correlation across callbacks,
\* provider calls, chunks, traces, and retrievals": a provider's answer is
\* filed under the key of the request it answers, with that request's context.
Correlated ==
  \A r \in Requests : \A i \in 1..Len(commands[r]) :
    commands[r][i].key = KeyOf[r] /\ ~commands[r][i].mixed

=============================================================================
