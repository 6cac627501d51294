--------------------------- MODULE RequestRewriting ---------------------------
(***************************************************************************)
(* What each provider of a failover walk is sent (request_payload.go,      *)
(* request_overrides.go, oauth_codex.go, oauth_antigravity_compat.go and   *)
(* createProxyRequestWithPayloadForProvider).  All attempts of one request *)
(* share the parsed body, the caches of what was made of it and the header *)
(* map of the client's request.                                            *)
(*                                                                         *)
(* A JSON object is a function from its fields to their values.  An item   *)
(* of the input is [role, tagged], tagged if it says type "message"; an    *)
(* input that is a text is one item of role "text".  Instructions are the  *)
(* sequence of their paragraphs.  A header or a credential is known by     *)
(* who wrote it: "own" is the client's, "made" is Clipal's.                *)
(***************************************************************************)
EXTENDS Integers, Sequences, FiniteSets, SequencesExt, TLC

Nothing == [field \in {} |-> field]
Put(object, field, value) == (field :> value) @@ object
Without(object, fields) == Restrict(object, DOMAIN object \ fields)
Get(object, field, otherwise) == IF field \in DOMAIN object THEN object[field] ELSE otherwise
\* The field is set unless the object has it.
Default(object, field, value) == IF field \in DOMAIN object THEN object ELSE Put(object, field, value)

(***************************************************************************)
(* The overrides of a provider.  A path is "responses", "compact" or       *)
(* "response" below one of them; "chat"; or "messages" of Claude.  A       *)
(* provider is [kind, model, effort].                                      *)
(***************************************************************************)

Responses == {"responses", "compact", "response"}
HasOverrides(p) == p.model # "" \/ p.effort # ""
\* Something of the body is going to be overridden.
Overrides(root, path, p) ==
    p.model # "" \/ (p.effort # "" /\ (path # "chat" \/ "reasoning_effort" \in DOMAIN root))

\* applyOpenAIProviderRequestOverrides, applyClaudeProviderRequestOverrides
Overridden(root, path, p) ==
    LET modelled == IF p.model = "" THEN root ELSE Put(root, "model", p.model)
        Effort(field) == Put(modelled, field, Put(Get(root, field, Nothing), "effort", p.effort))
    IN CASE ~Overrides(root, path, p) \/ p.effort = "" -> modelled
         [] path \in Responses -> Effort("reasoning")
         [] path = "messages" -> Put(Effort("output_config"), "thinking", "adaptive")
         [] OTHER -> IF "reasoning_effort" \in DOMAIN root THEN Put(modelled, "reasoning_effort", p.effort) ELSE modelled

(***************************************************************************)
(* The form of a request to Codex                                          *)
(***************************************************************************)

Encrypted == "reasoning.encrypted_content"
\* Parameters that the Codex backend refuses; one stands for the nine of them.
Refused == {"temperature"}

LegacyFunctions(root) ==
    LET tools == IF "functions" \in DOMAIN root THEN Put(root, "tools", Get(root, "tools", << >>) \o root.functions) ELSE root
        called == IF Get(root, "function_call", "") # "" THEN Put(tools, "tool_choice", root.function_call) ELSE tools
    IN Without(called, {"functions", "function_call"})

Untagged(items) == [i \in DOMAIN items |-> [items[i] EXCEPT !.tagged = FALSE]]
IsSystem(item) == item.role = "system"
\* normalizeCodexOAuthInput: what the system says becomes instructions.
NormalInput(root) ==
    LET items == Untagged(Get(root, "input", << >>))
        said == [i \in DOMAIN SelectSeq(items, IsSystem) |-> "said"]
        rest == SelectSeq(items, LAMBDA item : ~IsSystem(item))
    IN CASE "input" \notin DOMAIN root -> root
         [] items # << >> /\ items[1].role = "text" -> Put(root, "input", <<[role |-> "user", tagged |-> FALSE]>>)
         [] said = << >> -> Put(root, "input", items)
         [] OTHER -> Put(Put(root, "input", rest), "instructions", said \o Get(root, "instructions", << >>))

\* ensureCodexOAuthResponseDefaults
ResponseDefaults(root) ==
    LET include == IF Get(root, "include", << >>) # << >> THEN root
                   ELSE Put(root, "include", IF "reasoning" \in DOMAIN root THEN <<Encrypted>> ELSE << >>)
    IN Default(Default(Default(include, "tools", << >>), "tool_choice", "auto"), "parallel_tool_calls", FALSE)

\* buildCodexOAuthRequestFromRoot: Codex only streams, except when it compacts.
CodexForm(root, path) ==
    LET compact == path = "compact"
        fewer == Without(root, {"stream", "store"} \cup Refused \cup IF compact THEN {"include", "tool_choice", "client_metadata"} ELSE {})
        normal == Default(NormalInput(LegacyFunctions(fewer)), "instructions", << >>)
    IN CASE path = "response" -> root
         [] compact -> normal
         [] OTHER -> Put(Put(ResponseDefaults(normal), "stream", TRUE), "store", FALSE)

\* applyCodexOAuthBodyContext
WithContext(body, path) ==
    LET keyed == Default(body, "prompt_cache_key", "made")
        told == Put(keyed, "client_metadata", Default(Get(keyed, "client_metadata", Nothing), "x-codex-installation-id", "made"))
        include == Get(told, "include", << >>)
    IN IF path # "responses" THEN keyed
       ELSE IF "reasoning" \in DOMAIN told /\ Encrypted \notin Range(include) THEN Put(told, "include", Append(include, Encrypted))
       ELSE told

(***************************************************************************)
(* The attempts of one request r, [path, json, body, headers].  What they  *)
(* share is [root, overridden, codex, headers]: the parsed body, the two   *)
(* caches, and the headers.                                                *)
(***************************************************************************)

Shared(r) == [root |-> r.body, overridden |-> Nothing, codex |-> Nothing, headers |-> r.headers]

\* requestPayload.providerBody: the bytes of the client unless they change.
ProviderBody(s, r, p) ==
    IF ~r.json \/ ~HasOverrides(p) THEN r.body
    ELSE IF p \in DOMAIN s.overridden THEN s.overridden[p]
    ELSE IF Overrides(s.root, r.path, p) THEN Overridden(s.root, r.path, p) ELSE r.body
Remembered(s, r, p) ==
    IF r.json /\ HasOverrides(p) /\ Overrides(s.root, r.path, p) THEN [s EXCEPT !.overridden = Default(@, p, ProviderBody(s, r, p))] ELSE s

\* cloneJSONRootForRequestOverrides copies the object and two of its fields;
\* the items of the input remain those of the shared body, so that the tags
\* that Codex does not take are lost for all attempts.
\* Mutant: the object itself is not copied.
RootAsSent(root, path, p) == CodexForm(Overridden(root, path, p), path)
RootAfterwards(root, path, p) ==
    IF path # "response" /\ "input" \in DOMAIN root THEN Put(root, "input", Untagged(root.input)) ELSE root

\* requestPayload.codexOAuthRequest
CodexBody(s, r, p) ==
    CASE p \in DOMAIN s.codex -> s.codex[p]
      [] r.path = "response" -> ProviderBody(s, r, p)
      [] r.json -> CodexForm(Overridden(s.root, r.path, p), r.path)
      [] OTHER -> CodexForm(r.body, r.path)
AfterCodex(s, r, p) ==
    IF p \in DOMAIN s.codex THEN s
    ELSE [Remembered(s, r, p) EXCEPT !.codex = Put(@, p, CodexBody(s, r, p)),
                                     !.root = IF r.json THEN RootAfterwards(@, r.path, p) ELSE @]

CodexHeaders == {"Session-Id", "Thread-Id", "X-Codex-Installation-Id", "X-Codex-Turn-Metadata"}
\* codexOAuthRequestContextForRequest: the request of the client gets what it
\* lacks, and the description of a turn of compaction is always Clipal's.
CodexContext(headers, path) ==
    LET completed == [h \in CodexHeaders |-> Get(headers, h, "made")] @@ headers
    IN IF path = "compact" THEN Put(completed, "X-Codex-Turn-Metadata", "made") ELSE completed
\* copyCodexOAuthHeaders takes a list of headers, and no others.
Allowed == CodexHeaders \cup {"traceparent"}

\* shouldSynthesizeCodexOAuthNonStreamingResponse and requestMayStreamEvents
\* read the shared body after the attempt.
Streams(s) == Get(s.root, "stream", FALSE)
Synthesized(s, r, p) == p.kind = "codex" /\ r.path = "responses" /\ ~Streams(s)
Identity(s, r, p) == (p.kind = "codex" /\ r.path = "responses") \/ Streams(s)

\* createProxyRequestWithPayloadForProvider: what p is sent, and what the next
\* attempt finds.
Attempt(s, r, p) ==
    LET codex == p.kind = "codex"
        after == IF codex THEN [AfterCodex(s, r, p) EXCEPT !.headers = CodexContext(@, r.path)] ELSE Remembered(s, r, p)
    IN [shared |-> after,
        sent |-> [body |-> IF codex THEN WithContext(CodexBody(s, r, p), r.path) ELSE ProviderBody(s, r, p),
                  headers |-> IF codex THEN Restrict(after.headers, Allowed \cap DOMAIN after.headers) ELSE s.headers,
                  identity |-> Identity(after, r, p), synthesized |-> Synthesized(after, r, p)]]

(***************************************************************************)
(* Credentials                                                             *)
(***************************************************************************)

Carriers == <<"x-api-key", "x-goog-api-key", "Authorization", "key", "api_key">>
\* The credential goes where the client's went, or to the place its family
\* uses; Google's Vertex and accounts take a bearer token.
Credentials(given, family, bearer) ==
    LET found == SelectSeq(Carriers, LAMBDA c : c \in DOMAIN given)
        place == CASE bearer -> "Authorization"
                   [] found # << >> -> found[1]
                   [] family = "claude" -> "x-api-key"
                   [] family = "google" -> "x-goog-api-key"
                   [] OTHER -> "Authorization"
    IN Put(Without(given, Range(Carriers)), place, "made")

(***************************************************************************)
(* The envelope of a request to Antigravity                                *)
(***************************************************************************)

\* canonicalAntigravityField: the canonical spelling wins.
Canonically(object, field, aliases) ==
    LET given == SelectSeq(<<field>> \o aliases, LAMBDA name : name \in DOMAIN object)
    IN IF given = << >> THEN object ELSE Put(Without(object, Range(aliases)), field, object[given[1]])
Within(object, field, Changed(_)) ==
    IF field \in DOMAIN object THEN Put(object, field, Changed(object[field])) ELSE object

Thinking(thinking) ==
    Canonically(Canonically(thinking, "thinkingLevel", <<"thinking_level">>), "thinkingBudget", <<"thinking_budget">>)
Generation(generation) ==
    Within(Canonically(Canonically(generation, "thinkingConfig", <<"thinking_config">>),
                       "responseSchema", <<"responseJsonSchema", "response_json_schema">>),
           "thinkingConfig", Thinking)
\* Fields that belong to the envelope.
Control == {"model", "project", "requestId", "request_id"}
AntigravityRequest(root) ==
    Without(Within(Canonically(Canonically(root, "systemInstruction", <<"system_instruction">>),
                               "generationConfig", <<"generation_config">>),
                   "generationConfig", Generation), Control)
\* buildAntigravityOAuthGenerateEnvelope
AntigravityEnvelope(root, model, project) ==
    LET id == SelectSeq(<<"requestId", "request_id">>, LAMBDA name : name \in DOMAIN root)
        envelope == [field \in {"model", "project", "request"} |->
                        CASE field = "model" -> model [] field = "project" -> project [] OTHER -> AntigravityRequest(root)]
    IN IF id = << >> THEN envelope ELSE Put(envelope, "requestId", root[id[1]])
=============================================================================
