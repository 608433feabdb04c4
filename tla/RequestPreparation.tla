------------------------- MODULE RequestPreparation -------------------------
(***************************************************************************)
(* What happens to a request before it reaches the provider: on the        *)
(* Messages route the middleware's system text (litellm_app.py); then the  *)
(* callback (analytics/adapters/litellm/callback.py): the request key, the *)
(* wrapper clients' system text, and on the Responses route the session    *)
(* affinity, the prompt cache key guard, the header and field passthrough  *)
(* and the tool schema compaction, in the order the hook runs them.        *)
(*                                                                         *)
(* A request, its metadata, headers and extra_body are dictionaries.  A    *)
(* message's text is the sequence of its parts, a tool schema the set of   *)
(* its key paths.  LiteLLM's adaptation to a provider between the two      *)
(* hooks is the environment: it renames the model and may drop or reset    *)
(* what the provider's parameters do not know.                             *)
(***************************************************************************)
EXTENDS PythonValues, FiniteSets, SequencesExt

CONSTANTS Requests,  \* the requests a client may send: [path, data, logging]
          Settings,  \* [affinity, dropKey, headers, passthrough, compaction]
          MaxAttempts

SystemText(d) == IF Get(d, "system") = None THEN <<>> ELSE d.system

\* A message has a role and texts.
IsMessage(m) == {"role", "text"} \subseteq DOMAIN m /\ m.text \in Seq(Range(m.text))

\* The places where a conversation says something: in its own system field, which
\* comes before the messages, or in one of them.
Places(d) ==
  {<<0, i>> : i \in DOMAIN SystemText(d)}
    \cup UNION {{<<m, i>> : i \in DOMAIN d.messages[m].text} : m \in DOMAIN d.messages}

TextAt(d, p) == IF p[1] = 0 THEN SystemText(d)[p[2]] ELSE d.messages[p[1]].text[p[2]]

RoleAt(d, p) == IF p[1] = 0 THEN "system" ELSE d.messages[p[1]].role

Before(p, q) == p[1] < q[1] \/ (p[1] = q[1] /\ p[2] < q[2])

\* Every text is said at one place only: a text stands for what a client said there.
IsConversation(d) ==
  /\ d.messages \in Seq(Range(d.messages)) /\ \A m \in Range(d.messages) : IsMessage(m)
  /\ SystemText(d) \in Seq(Range(SystemText(d)))
  /\ \A p, q \in Places(d) : TextAt(d, p) = TextAt(d, q) => p = q

\* A request is a dictionary, and so is what the logging object keeps of it.
ASSUME PreparationAssumption ==
  \A r \in Requests : /\ r.data # None /\ DOMAIN r.logging = {"params", "details", "present"}
                      /\ Get(r.data, "messages") # None => IsConversation(r.data)

VARIABLES settings, request, data, logging, stage, seen, sent, attempts

preparation == <<settings, request, data, logging, stage, seen, sent, attempts>>

PASSTHROUGH_FIELDS ==
  {"client_metadata", "max_output_tokens", "model", "parallel_tool_calls", "previous_response_id",
   "prompt_cache_key", "prompt_cache_retention", "service_tier", "store", "stream", "text",
   "truncation"}

STABLE_KEYS ==
  PASSTHROUGH_FIELDS \cup {"include", "instructions", "reasoning", "response_format",
                           "tool_choice", "tools"}

\* Some of the headers Codex sets; the others are treated alike.
CODEX_HEADERS == {"originator", "session-id", "thread-id", "x-codex-turn-state"}

OUTPUT_ITEMS == {"custom_tool_call_output", "function_call_output",
                 "local_shell_call_output", "apply_patch_call_output"}

SCHEMA_DROP_KEYS == {"$id", "$schema", "$comment", "deprecated", "examples", "example",
                     "markdownDescription", "readOnly", "title", "writeOnly"}

OFF_VALUES == {"0", "false", "no", "off", "disabled"}
ON_VALUES == {"1", "true", "yes", "on", "enabled"}

SYSTEM_AS_USER_CLIENTS == {"claude", "copilot", "opencode", "pi"}

\* Some of the models that are not Anthropic's own.
CHATGPT_BACKED == {"sonnet", "opus", "gpt"}

-----------------------------------------------------------------------------
(* Reading a request *)

\* The first of the three places that holds a dictionary, even an empty one.
MetadataOf(d) ==
  LET m == Or(<<Get(d, "metadata"), Get(d, "litellm_metadata"),
               Get(Get(d, "litellm_params"), "metadata")>>)
  IN IF m = None THEN <<>> ELSE m

CandidateMaps(d) ==
  <<Get(d, "metadata"), Get(d, "litellm_metadata"), Get(Get(d, "litellm_params"), "metadata")>>

\* The headers of the proxied request, or those a metadata dictionary kept.
ProxyHeaders(d) ==
  LET own == Or(<<Get(d, "proxy_server_request"),
                 Get(Get(d, "litellm_params"), "proxy_server_request")>>)
      kept == [i \in 1 .. 3 |-> Get(CandidateMaps(d)[i], "headers")]
      headers == Or(<<Get(own, "headers")>> \o kept)
  IN IF headers = None THEN <<>> ELSE headers

Client(d) ==
  Or(<<Get(ProxyHeaders(d), "x-llm-proxy-client"), Get(MetadataOf(d), "litellm_proxy_client")>>)

CompressionDisabled(d) == Get(ProxyHeaders(d), "x-llm-proxy-compression") \in OFF_VALUES

PassthroughMode(d) ==
  LET value == Get(ProxyHeaders(d), "x-llm-proxy-responses-provider-passthrough")
  IN CASE value \in OFF_VALUES -> "off" [] value \in ON_VALUES -> "on" [] OTHER -> None

IsResponses(d) == Get(d, "input") # None /\ Get(d, "messages") = None

\* What the analytics command says of the request.
RequestMetadata(d) ==
  [integration |-> IF IsResponses(d) THEN "litellm-responses" ELSE "litellm-chat",
   marker |-> Or(<<Get(ProxyHeaders(d), "x-llm-proxy-run"), Get(MetadataOf(d), "litellm_proxy_run_marker")>>),
   client |-> Client(d),
   mode |-> Or(<<Get(ProxyHeaders(d), "x-llm-proxy-compression"),
                Get(MetadataOf(d), "litellm_proxy_compression_mode")>>),
   passthrough |-> PassthroughMode(d),
   affinity |-> LET id == Get(d, "litellm_session_id")
                IN IF id # None /\ id.prefix = "codex-cache" THEN id.of ELSE None]

-----------------------------------------------------------------------------
(* The request key *)

KEY == "litellm_proxy_analytics_request_key"

\* A key of its own when nothing names the request.
RequestKeyOf(d) ==
  LET m == MetadataOf(d)
      named == Or([i \in 1 .. 8 |->
                     LET name == <<KEY, "request_id", "litellm_call_id", "trace_id">>[(i + 1) \div 2]
                     IN IF i % 2 = 1 THEN Get(m, name) ELSE Get(d, name)])
  IN IF named = None THEN "generated" ELSE named

OwnMetadata(d) == IF Get(d, "metadata") = None THEN <<>> ELSE d.metadata

CarryKey(d, key) == Put(d, "metadata", Put(OwnMetadata(d), KEY, key))

\* container.setdefault("metadata", {}) is left alone where it is no dictionary.
NoteKey(p, key) ==
  LET q == SetDefault(p, "metadata", <<>>)
  IN IF q.metadata = None THEN q ELSE Put(q, "metadata", Put(q.metadata, KEY, key))

\* Both places where the logging object may keep the parameters; those in the
\* call details are created where they are missing.
SyncRequestKey(log, key) ==
  [log EXCEPT !.params = IF @ = None THEN None ELSE NoteKey(@, key),
              !.details = IF ~log.present THEN @
                          ELSE NoteKey(IF @ = None THEN <<>> ELSE @, key)]

\* The request keeps the key it already carries.
EnsureRequestKey(d) ==
  LET known == Get(OwnMetadata(d), KEY)
      key == IF known # None THEN known ELSE RequestKeyOf(Put(d, "metadata", OwnMetadata(d)))
  IN CarryKey(d, key)

-----------------------------------------------------------------------------
(* The middleware: the system text joins the first user message *)

\* Mutant of SystemAsUser: the system text stays where it was, too.
SystemAsUserToo(d) ==
  LET system == Get(d, "system")
      messages == Get(d, "messages")
      users == {i \in DOMAIN messages : messages[i].role = "user"}
      first == CHOOSE i \in users : \A j \in users : i <= j
  IN IF Get(d, "model") \notin CHATGPT_BACKED \/ system \in {None, <<>>} \/ messages = None THEN d
     ELSE Put(d, "messages", IF users = {} THEN <<[role |-> "user", text |-> system]>> \o messages
                             ELSE [messages EXCEPT ![first].text = system \o @])

SystemAsUser(d) ==
  LET system == Get(d, "system")
      messages == Get(d, "messages")
      users == {i \in DOMAIN messages : messages[i].role = "user"}
      first == CHOOSE i \in users : \A j \in users : i <= j
      rest == [k \in DOMAIN d \ {"system"} |-> d[k]]
  IN IF Get(d, "model") \notin CHATGPT_BACKED \/ system \in {None, <<>>} \/ messages = None THEN d
     ELSE Put(rest, "messages", IF users = {} THEN <<[role |-> "user", text |-> system]>> \o messages
                                ELSE [messages EXCEPT ![first].text = system \o @])

-----------------------------------------------------------------------------
(* The system text of a wrapper client's chat messages becomes a user message *)

\* A message of the system adds to the texts, another one stays a message.
Take(taken, m) ==
  IF m.role = "system" THEN [taken EXCEPT !.texts = @ \o m.text]
                       ELSE [taken EXCEPT !.others = Append(@, m)]

\* The loop over the messages, up to each of them.
Taking(system, messages) ==
  LET taking[i \in 0 .. Len(messages)] ==
        IF i = 0 THEN [texts |-> system, others |-> <<>>] ELSE Take(taking[i - 1], messages[i])
  IN taking

MoveSystem(d) ==
  LET messages == Get(d, "messages")
      taken == Taking(SystemText(d), messages)[Len(messages)]
      rest == [k \in DOMAIN d \ {"system"} |-> d[k]]
  IN IF Client(d) \notin SYSTEM_AS_USER_CLIENTS \/ messages = None THEN d
     ELSE Put(rest, "messages",
              IF taken.texts = <<>> THEN taken.others
              ELSE <<[role |-> "user", text |-> taken.texts]>> \o taken.others)

-----------------------------------------------------------------------------
(* The Responses route *)

ExistingSession(d) ==
  LET p == Get(d, "litellm_params")
  IN Or(<<Get(d, "litellm_session_id"), Get(d, "session_id"), Get(Get(d, "metadata"), "session_id"),
         Get(p, "litellm_session_id"), Get(p, "session_id"), Get(Get(p, "metadata"), "session_id")>>)

\* The session of a model and a prompt cache key.
AffinityOf(model, key) == [prefix |-> "codex-cache", of |-> <<model, key>>]

HasAffinity(d) ==
  /\ settings.affinity
  /\ IsResponses(d)
  /\ Client(d) = "codex"
  /\ ExistingSession(d) = None
  /\ Get(d, "prompt_cache_key") # None

\* The parameters of a call keep the session they have.
LinkSession(p, id) ==
  LET q == SetDefault(SetDefault(p, "litellm_session_id", id), "metadata", <<>>)
  IN IF q.metadata = None THEN q
     ELSE Put(q, "metadata", SetDefault(q.metadata, "session_id", id))

ApplyAffinity(d, model) ==
  LET id == AffinityOf(model, d.prompt_cache_key)
      p == Get(d, "litellm_params")
      linked == Put(Put(d, "litellm_session_id", id), "metadata",
                    SetDefault(OwnMetadata(d), "session_id", id))
  IN IF ~HasAffinity(d) THEN d
     ELSE IF p = None THEN linked ELSE Put(linked, "litellm_params", LinkSession(p, id))

SyncSession(log, id) ==
  [log EXCEPT !.params = IF @ = None THEN None ELSE LinkSession(@, id),
              !.details = IF ~log.present THEN @
                          ELSE LinkSession(IF @ = None THEN <<>> ELSE @, id)]

GuardCacheKey(d) ==
  IF settings.dropKey /\ Client(d) = "codex"
  THEN [k \in DOMAIN d \ {"prompt_cache_key"} |-> d[k]] ELSE d

\* Codex's own headers travel on, unless the request already sets them.
PreserveHeaders(d) ==
  LET headers == ProxyHeaders(d)
      extra == IF Get(d, "extra_headers") = None THEN <<>> ELSE d.extra_headers
      added == {h \in DOMAIN headers \cap CODEX_HEADERS : headers[h] # None} \ DOMAIN extra
  IN IF ~settings.headers \/ ~IsResponses(d) \/ Client(d) # "codex" \/ DOMAIN headers = {} THEN d
     ELSE IF added = {} /\ DOMAIN extra = {} THEN [k \in DOMAIN d \ {"extra_headers"} |-> d[k]]
     ELSE Put(d, "extra_headers",
              [h \in DOMAIN extra \cup added |-> IF h \in added THEN headers[h] ELSE extra[h]])

\* The request's header decides, then the environment, then the client.
ShouldPassThrough(d) ==
  IF PassthroughMode(d) # None THEN PassthroughMode(d) = "on"
  ELSE IF settings.passthrough # None THEN settings.passthrough = "on"
  ELSE Client(d) = "codex"

PreserveFields(d) ==
  LET extra == IF Get(d, "extra_body") = None THEN <<>> ELSE d.extra_body
      kept == PASSTHROUGH_FIELDS \cap DOMAIN d
  IN IF ~ShouldPassThrough(d) THEN d
     ELSE IF kept = {} /\ DOMAIN extra = {} THEN [k \in DOMAIN d \ {"extra_body"} |-> d[k]]
     ELSE Put(d, "extra_body",
              [f \in DOMAIN extra \cup kept |-> IF f \in kept THEN d[f] ELSE extra[f]])

\* Annotations go, but not where the key names a property of the schema.
CompactSchema(paths) ==
  {p \in paths : \A i \in DOMAIN p :
     p[i] \in SCHEMA_DROP_KEYS => i > 1 /\ p[i - 1] = "properties"}

\* Only when it saves bytes and tokens, and the tokens can be counted.
CompactTools(d, saves) ==
  IF settings.compaction /\ saves /\ Get(d, "tools") # None
  THEN Put(d, "tools", CompactSchema(d.tools)) ELSE d

\* Mutant of PrepareResponses: the fields are passed through before the key is dropped.
PrepareResponsesKeyLeft(d, model, saves) ==
  LET prepared == GuardCacheKey(PreserveHeaders(PreserveFields(ApplyAffinity(d, model))))
  IN IF CompressionDisabled(d) THEN prepared ELSE CompactTools(prepared, saves)

\* The order of _local_compress_responses up to the tool outputs.
PrepareResponses(d, model, saves) ==
  LET prepared == PreserveFields(PreserveHeaders(GuardCacheKey(ApplyAffinity(d, model))))
  IN IF CompressionDisabled(d) THEN prepared ELSE CompactTools(prepared, saves)

-----------------------------------------------------------------------------
(* Fingerprints *)

CacheBoundary(input) ==
  LET outputs == {i \in DOMAIN input : input[i] \in OUTPUT_ITEMS}
  IN IF outputs = {} THEN Len(input) ELSE (CHOOSE i \in outputs : \A j \in outputs : i <= j) - 1

\* The hashed prefix the provider's cache depends on.
HotZone(d) ==
  [top |-> [k \in STABLE_KEYS \cap DOMAIN d |-> d[k]],
   prefix |-> IF Get(d, "input") = None THEN <<>>
              ELSE SubSeq(d.input, 1, CacheBoundary(d.input))]

\* extra_body wins over what the adaptation left.
Effective(d) ==
  LET extra == IF Get(d, "extra_body") = None THEN <<>> ELSE d.extra_body
  IN [k \in DOMAIN d \cup DOMAIN extra |-> IF k \in DOMAIN extra THEN extra[k] ELSE d[k]]

DeploymentFingerprint(d) ==
  [key |-> Get(MetadataOf(d), KEY), model |-> d.model, hot |-> HotZone(Effective(d))]

-----------------------------------------------------------------------------

PreparationInit ==
  /\ settings \in Settings
  /\ request \in Requests
  /\ data = request.data
  /\ logging = request.logging
  /\ stage = "arriving"
  /\ seen = None
  /\ sent = None
  /\ attempts = 0

Model == IF Get(data, "model") = None THEN "default" ELSE data.model

\* The whole body has been read, is rewritten and replayed to the application.
Arrive ==
  /\ stage = "arriving"
  /\ data' = IF request.path = "/v1/messages" THEN SystemAsUser(data) ELSE data
  /\ stage' = "received"
  /\ UNCHANGED <<settings, request, logging, seen, sent, attempts>>

\* async_pre_call_hook up to the compression itself.  A callback that is
\* registered twice runs it twice.
PreCallHook ==
  /\ stage \in {"received", "prepared"}
  /\ LET keyed == EnsureRequestKey(data)
         moved == MoveSystem(keyed)
         log == SyncRequestKey(logging, keyed.metadata[KEY])
         responses == Get(moved, "input") # None /\ Get(moved, "messages") \in {None, <<>>}
     IN /\ \E saves \in BOOLEAN :
             data' = IF responses THEN PrepareResponses(moved, Model, saves) ELSE moved
        /\ logging' = IF responses /\ HasAffinity(moved)
                      THEN SyncSession(log, AffinityOf(Model, moved.prompt_cache_key)) ELSE log
        /\ seen' = [key |-> keyed.metadata[KEY], hot |-> HotZone(data'),
                    metadata |-> RequestMetadata(data')]
  /\ stage' = "prepared"
  /\ UNCHANGED <<settings, request, sent, attempts>>

\* LiteLLM picks a deployment, adapts the request to its provider and calls the
\* deployment hook; it may try another one.
Deploy ==
  /\ stage \in {"prepared", "deployed"}
  /\ attempts < MaxAttempts
  /\ attempts' = attempts + 1
  /\ \E dropped, reset \in SUBSET ((PASSTHROUGH_FIELDS \cap DOMAIN data) \ {"model"}) :
       LET kept == [k \in DOMAIN data \ dropped |-> IF k \in reset THEN None ELSE data[k]]
           adapted == Put(kept, "model", <<"chatgpt", Model>>)
       IN /\ sent' = Effective(adapted)
          /\ seen' = IF IsResponses(adapted)
                     THEN Put(seen, "deployment", DeploymentFingerprint(adapted)) ELSE seen
  /\ stage' = "deployed"
  /\ UNCHANGED <<settings, request, data, logging>>

PreparationNext == Arrive \/ PreCallHook \/ Deploy

-----------------------------------------------------------------------------

PreparationSpec == PreparationInit /\ [][PreparationNext]_preparation

-----------------------------------------------------------------------------

Prepared == stage \notin {"arriving", "received"}

\* Every text of a conversation is said, at one place, and a text of the system that
\* comes before one of the user stays before it, whichever of the middleware, the hook,
\* and the hook once more has moved it.  A wrapper client's requests say nothing as
\* the system once the hook has run.
TextsAreSaidOnce ==
  LET original == request.data
  IN stage # "arriving" /\ Get(original, "messages") # None =>
       /\ {TextAt(data, p) : p \in Places(data)} = {TextAt(original, a) : a \in Places(original)}
       /\ \A p, q \in Places(data) : TextAt(data, p) = TextAt(data, q) => p = q
       /\ \A p, q \in Places(data), a, b \in Places(original) :
            /\ TextAt(data, p) = TextAt(original, a) /\ RoleAt(original, a) = "system"
            /\ TextAt(data, q) = TextAt(original, b) /\ RoleAt(original, b) = "user"
            /\ Before(a, b)
            => Before(p, q)
       /\ Prepared /\ Client(data) \in SYSTEM_AS_USER_CLIENTS =>
            \A p \in Places(data) : RoleAt(data, p) # "system"

\* The request has one key in every dictionary that holds metadata of it.
OneRequestKey ==
  Prepared =>
    /\ seen.key = data.metadata[KEY]
    /\ logging.params # None /\ logging.params.metadata # None =>
         logging.params.metadata[KEY] = seen.key
    /\ logging.present /\ logging.details.metadata # None =>
         logging.details.metadata[KEY] = seen.key

\* A Codex session follows its model and prompt cache key, unless the request brought
\* one, even where the guard drops the key itself.
SessionFollowsCacheKey ==
  LET original == request.data
      session == AffinityOf(Or(<<Get(original, "model"), "default">>),
                            Get(original, "prompt_cache_key"))
  IN Prepared /\ settings.affinity /\ Client(data) = "codex" /\ IsResponses(original)
     /\ ExistingSession(original) = None /\ Get(original, "prompt_cache_key") # None =>
       /\ data.litellm_session_id = session
       /\ seen.metadata.affinity = session.of
       /\ logging.params # None
          /\ "litellm_session_id" \notin DOMAIN request.logging.params
          => logging.params.litellm_session_id = session

\* Annotations of a tool's schema are those no property is named by.
Annotates(p) ==
  \E i \in DOMAIN p : p[i] \in SCHEMA_DROP_KEYS /\ (i > 1 => p[i - 1] # "properties")

\* A tool keeps every property, whatever its name.
ToolsKeepProperties ==
  Get(request.data, "tools") # None =>
    \A p \in request.data.tools : ~Annotates(p) => p \in data.tools

KeyIsDropped == settings.dropKey /\ Client(data) = "codex"

\* The fields passed through are the client's whatever LiteLLM made of them, and the
\* deployment's fingerprint of them is the hook's.
FieldsPassThrough ==
  stage = "deployed" /\ IsResponses(request.data) /\ ShouldPassThrough(data) =>
    \A f \in (PASSTHROUGH_FIELDS \cap DOMAIN request.data)
               \ (IF KeyIsDropped THEN {"prompt_cache_key"} ELSE {}) :
      /\ sent[f] = request.data[f]
      /\ seen.deployment.hot.top[f] = seen.hot.top[f]

\* A prompt cache key that is dropped reaches nobody, and both hooks know one request.
DroppedKeyIsGone ==
  stage = "deployed" /\ IsResponses(request.data) =>
    /\ seen.deployment.key = seen.key
    /\ KeyIsDropped /\ Get(Get(request.data, "extra_body"), "prompt_cache_key") = None =>
         Get(sent, "prompt_cache_key") = None

\* What reaches the provider is what the client and the settings asked for, in
\* whatever way LiteLLM adapted the request and however often the hooks ran.
ProviderSeesWhatWasAsked ==
  /\ TextsAreSaidOnce /\ OneRequestKey /\ SessionFollowsCacheKey
  /\ ToolsKeepProperties /\ FieldsPassThrough /\ DroppedKeyIsGone

=============================================================================
