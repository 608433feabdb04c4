-------------------------- MODULE MCAgentSessions ---------------------------
\* Three independent parts around an agent's session, one at a time: the proof
\* harness, the preparation of a request and the managed home.
EXTENDS UsefulnessRun, RequestPreparation, AgentHome

VARIABLE work

(* The harness: one or two turns per lane, either order, with or without
   preflight, snapshots, floor, force and database query. *)
Base == [order |-> <<"direct", "proxy">>, turns |-> 1, preflight |-> TRUE, force |-> FALSE,
         queryDb |-> FALSE, floor |-> 0, attempts |-> 2, snapshots |-> TRUE]
MCPlans ==
  {Base,
   [Base EXCEPT !.order = <<"proxy", "direct">>, !.floor = 3, !.force = TRUE],
   [Base EXCEPT !.turns = 2, !.preflight = FALSE, !.snapshots = FALSE, !.force = TRUE],
   [Base EXCEPT !.turns = 2, !.queryDb = TRUE, !.floor = 3, !.snapshots = FALSE]}
MCLeftovers == {None, "old"}
MCReplies == {[kind |-> "refused", ids |-> {}], [kind |-> "garbled", ids |-> {}],
              [kind |-> "ok", ids |-> {"other"}],
              [kind |-> "ok", ids |-> {"model", "HeadroomCallback"}]}

Works == [code |-> 0, timeout |-> FALSE, thread |-> "thread", input |-> 2, cached |-> 0,
          commands |-> 1, says |-> "usage"]
MCAgentRuns(p) ==
  {Works, [Works EXCEPT !.input = 1]}
  \cup IF p.snapshots THEN {[Works EXCEPT !.input = 5]}
       ELSE {[Works EXCEPT !.cached = 2, !.says = "noTotal"], [Works EXCEPT !.says = "partial"],
             [Works EXCEPT !.says = "nothing", !.commands = 0], [Works EXCEPT !.thread = None],
             [Works EXCEPT !.code = 1], [Works EXCEPT !.timeout = TRUE]}

Line == [json |-> TRUE, event |-> "item.completed", thread |-> None, usage |-> <<>>,
         text |-> <<>>, cost |-> None, item |-> None]
Item(type, code, chars) == [type |-> type, exit |-> code, ccr |-> 0, chars |-> chars]
MCPrinted(r) ==
  LET hidden == CASE r.says = "usage" -> {}
                  [] r.says = "noTotal" -> {"total_tokens"}
                  [] OTHER -> {"total_tokens", "cached_input_tokens"}
      shown == [f \in TOKEN_FIELDS \ hidden |-> 1]
  IN <<[Line EXCEPT !.event = "thread.started", !.thread = r.thread]>>
     \o (IF r.commands = 0 THEN <<>>
         ELSE <<[Line EXCEPT !.item = Item("command_execution", r.code, 3)]>>)
     \o <<[Line EXCEPT !.item = Item("agent_message", None, 9), !.text = "cached_input_tokens" :> 2]>>
     \o IF r.says = "nothing" THEN <<>>
        ELSE <<[Line EXCEPT !.event = "turn.completed", !.usage = shown]>>

\* In the forced plans the day is never shown and its query may fail, in the others
\* that of the limits.
MCProbes(p) ==
  IF p.force THEN [limits : {TRUE}, usage : BOOLEAN, daily : {FALSE}]
  ELSE [limits : BOOLEAN, usage : {TRUE}, daily : {TRUE}]

(* The requests: Codex with the ways a client, a session, a key and an extra_body
   may already be there, and chat clients. *)
Headers == "x-llm-proxy-client" :> "codex" @@ "session-id" :> "thread"
Proxied(headers) == [proxy_server_request |-> [headers |-> headers]]
Tools == {<<"parameters", "properties", "title", "type">>, <<"parameters", "title">>,
          <<"parameters", "properties", "title", "title">>}
Codex == [model |-> "gpt", input |-> <<"message", "function_call_output", "message">>,
          prompt_cache_key |-> "key", store |-> FALSE, tools |-> Tools]
Chat == [model |-> "opus", system |-> <<"s1">>,
         messages |-> <<[role |-> "system", text |-> <<"s2">>],
                        [role |-> "assistant", text |-> <<"a">>],
                        [role |-> "user", text |-> <<"u1">>],
                        [role |-> "system", text |-> <<"s3">>],
                        [role |-> "user", text |-> <<"u2">>]>>]
Opening == [model |-> "gpt", system |-> <<"s1", "s2">>,
            messages |-> <<[role |-> "assistant", text |-> <<"a">>]>>]
Session == [metadata |-> [session_id |-> [prefix |-> None, of |-> "own"]]]
NoLogging == [params |-> None, details |-> None, present |-> FALSE]
MCRequests ==
  {[path |-> "/v1/responses", data |-> d,
    logging |-> [params |-> <<>>, details |-> None, present |-> TRUE]] :
     d \in {Codex @@ Proxied(Headers),
            Codex @@ [litellm_metadata |-> [headers |-> Headers, request_id |-> "r"],
                      litellm_params |-> <<>>],
            Codex @@ Proxied(Headers) @@ [litellm_params |-> Session],
            Codex @@ Proxied(Headers @@ "x-llm-proxy-responses-provider-passthrough" :> "off")
                  @@ [extra_body |-> [store |-> TRUE]],
            Codex @@ Proxied(Headers @@ "x-llm-proxy-compression" :> "off")
                  @@ [metadata |-> KEY :> "known"]}}
  \cup
  {[path |-> "/v1/responses", data |-> Codex @@ [extra_body |-> [store |-> TRUE]],
    logging |-> NoLogging],
   [path |-> "/v1/responses",
    data |-> Codex @@ Proxied(Headers) @@ [metadata |-> None, litellm_session_id |-> None],
    logging |-> [params |-> [metadata |-> None], details |-> None, present |-> TRUE]]}
  \cup
  {[path |-> p, data |-> d, logging |-> NoLogging] :
     p \in {"/v1/messages", "/v1/chat/completions"},
     d \in {Chat @@ Proxied("x-llm-proxy-client" :> "claude"),
            [Chat EXCEPT !.model = "haiku"] @@ Proxied("x-llm-proxy-client" :> "claude"),
            Opening @@ [metadata |-> [litellm_proxy_client |-> "pi", trace_id |-> "t"]],
            Chat}}
MCSettings == [affinity : BOOLEAN, dropKey : BOOLEAN, headers : {TRUE},
               passthrough : {None, "off", "on"}, compaction : {TRUE}]

(* The launches: no choice, a model, a model with the wrapper's profile, a
   verbosity without links, and one that is refused. *)
Free == [k \in {"model", "verbosity"} |-> None]
Plain == [apiKey |-> TRUE, needsKey |-> TRUE, urls |-> TRUE, profile |-> None,
          anyProfile |-> FALSE, shared |-> FALSE, catalog |-> None, shell |-> Free,
          dotenv |-> [Free EXCEPT !["model"] = "m1"], native |-> Free, links |-> TRUE]
MCLaunches ==
  {Plain,
   [Plain EXCEPT !.shell["model"] = "m2", !.profile = "litellm"],
   [Plain EXCEPT !.shell["model"] = "m0", !.profile = "other"],
   [Plain EXCEPT !.shell["verbosity"] = "high", !.links = FALSE]}
MCEntries == {"auth", "sessions", CONFIG, PROFILE}
MCHomes ==
  {[e \in MCEntries |->
      CASE e = "auth" -> File(-1)
        [] e = "sessions" -> [kind |-> "foreign", content |-> None]
        [] e = CONFIG -> File(-2)
        [] e = PROFILE -> Absent]}
\* Launches differ in nothing but their names.
MCSymmetry == Permutations(Wrappers)
MCFallback == [Free EXCEPT !["model"] = "m0"]
MCAllowed == [model |-> {"m0", "m1", "m2"}, verbosity |-> {None, "high"}]

-----------------------------------------------------------------------------

Init ==
  /\ work \in {"proof", "request", "home"}
  /\ RunInit /\ PreparationInit /\ HomeInit
  /\ work # "proof" => plan = Base /\ disk.plan = None
  /\ work # "request" => /\ request.data = Chat /\ request.path = "/v1/messages"
                         /\ settings \in {CHOOSE s \in MCSettings : TRUE}

Next ==
  /\ UNCHANGED work
  /\ \/ work = "proof" /\ RunNext /\ UNCHANGED <<preparation, home>>
     \/ work = "request" /\ PreparationNext /\ UNCHANGED <<run, home>>
     \/ work = "home" /\ HomeNext /\ UNCHANGED <<run, preparation>>

Spec == Init /\ [][Next]_<<work, run, preparation, home>>
=============================================================================
