-------------------------- MODULE MCRequestRewriting --------------------------
(***************************************************************************)
(* Small requests and walks over providers, and what each provider of a    *)
(* walk may count on.                                                      *)
(***************************************************************************)
EXTENDS RequestRewriting

Accounts == {[kind |-> "codex", model |-> m, effort |-> ""] : m \in {"", "m1"}}
KeyProviders == {[kind |-> "key", model |-> m, effort |-> e] : m \in {"", "m2"}, e \in {"", "high"}}
\* Codex serves the Responses interface only (providerSupportsCapability).
ProvidersOf(path) == IF path \in Responses THEN Accounts \cup KeyProviders ELSE KeyProviders

Item(role, tagged) == [role |-> role, tagged |-> tagged]
Inputs == {<<Item("text", FALSE)>>, <<Item("user", TRUE)>>, <<Item("tool", FALSE), Item("system", TRUE), Item("user", FALSE)>>}
\* One field more, with one of these values.
Extended(objects, field, values) == objects \cup {Put(o, field, v) : o \in objects, v \in values}
Requests == {"model" :> "m"}
ResponsesBodies ==
    LET asked == {Put(o, "input", i) : o \in Requests, i \in Inputs}
        streamed == Extended(asked, "stream", BOOLEAN)
        reasoned == Extended(streamed, "reasoning", {"effort" :> "low", "summary" :> "auto"})
        instructed == Extended(reasoned, "instructions", {<<"own">>})
        called == Extended(Extended(asked, "include", {<<"logprobs">>}), "function_call", {"f"})
    IN instructed \cup called
       \cup UNION {Extended(Extended({Put(o, "functions", <<"f">>), Put(o, "temperature", "1")}, "tools", {<<"t">>}),
                            "client_metadata", {[field \in {"own"} |-> "own"]}) : o \in asked}
OtherBodies ==
    Extended(Extended(Extended(Requests, "stream", {TRUE}), "reasoning_effort", {"low"}), "output_config", {"format" :> "own"})
HeaderSets == {Nothing, [h \in {"Session-Id", "traceparent", "own"} |-> "own"], [h \in CodexHeaders \cup {"own"} |-> "own"]}
RequestsOf(path) ==
    [path : {path}, json : BOOLEAN, body : IF path \in Responses THEN ResponsesBodies ELSE OtherBodies, headers : HeaderSets]
Paths == Responses \cup {"chat", "messages"}

After(r, walk) == FoldLeft(LAMBDA s, p : Attempt(s, r, p).shared, Shared(r), walk)
WithoutTags(body) == Within(body, "input", Untagged)

\* The provider's overrides, whole, and nothing else of the client's body.
KeepsTheRest(r, p, sent) ==
    LET may == {"model", "reasoning", "reasoning_effort", "output_config", "thinking"}
    IN /\ WithoutTags(Without(sent.body, may)) = WithoutTags(Without(r.body, may))
       /\ p.model # "" /\ r.json => sent.body.model = p.model
       /\ p.effort # "" /\ r.json /\ r.path \in Responses => sent.body.reasoning.effort = p.effort
       /\ p.effort # "" /\ r.json /\ r.path = "messages" => sent.body.output_config.effort = p.effort
       /\ ~HasOverrides(p) \/ ~r.json => sent.body = r.body
\* What the Codex backend takes: no tags, no system messages, a stream.
TakenByCodex(r, p, sent) ==
    r.path # "response" =>
        /\ \A i \in DOMAIN sent.body.input : ~sent.body.input[i].tagged /\ sent.body.input[i].role \notin {"system", "text"}
        /\ DOMAIN sent.body \cap (Refused \cup {"functions", "function_call"}) = {}
        /\ r.path = "responses" => sent.body.stream /\ ~sent.body.store /\ sent.identity
        /\ "reasoning" \in DOMAIN sent.body /\ r.path = "responses" => Encrypted \in Range(sent.body.include)
        /\ CodexHeaders \subseteq DOMAIN sent.headers /\ "own" \notin DOMAIN sent.headers
        /\ sent.synthesized <=> (r.path = "responses" /\ ~Get(r.body, "stream", FALSE))

\* However many providers were tried before, in whatever order, a provider is
\* sent what it would have been sent at first, with two exceptions of the
\* code's own, both after an attempt at Codex: a body that is written anew has
\* lost the tags of its messages, and providers with a key get the headers
\* that Codex was given.
OwnRequest(r) ==
    \A p \in ProvidersOf(r.path) : \E first \in {Attempt(Shared(r), r, p).sent} :
        /\ IF p.kind = "key" THEN KeepsTheRest(r, p, first) ELSE TakenByCodex(r, p, first)
        /\ \A walk \in BoundedSeq(ProvidersOf(r.path), 2) : \E later \in {Attempt(After(r, walk), r, p).sent} :
             LET codex == \E i \in DOMAIN walk : walk[i].kind = "codex"
             IN \/ later = first
                \/ /\ codex
                   /\ later.identity = first.identity /\ later.synthesized = first.synthesized
                   /\ p.kind = "codex" \/ ~HasOverrides(p) \/ ~r.json => later.body = first.body
                   /\ WithoutTags(later.body) = WithoutTags(first.body)
                   /\ p.kind = "codex" => later.headers = first.headers
                   /\ Without(later.headers, CodexHeaders) = Without(first.headers, CodexHeaders)

\* applyProviderAPIKeyForProvider: one credential, the provider's.
OwnCredential(given) ==
    \A family \in {"openai", "claude", "google"}, bearer \in BOOLEAN :
        \E sent \in {Credentials([c \in given |-> "own"], family, bearer)} :
            Cardinality(DOMAIN sent) = 1 /\ Range(sent) = {"made"}

\* One document in the spellings of both Gemini kits.
Spelled(field, alias, value, other) == {Nothing, field :> value, alias :> value, (field :> value) @@ (alias :> other)}
Thinkings == {a @@ b : a \in Spelled("thinkingLevel", "thinking_level", 1, 2), b \in Spelled("thinkingBudget", "thinking_budget", 1, 2)}
Generations ==
    {a @@ b : a \in UNION {Spelled("thinkingConfig", "thinking_config", t, Nothing) : t \in Thinkings},
              b \in {Nothing, "responseSchema" :> 1, "responseJsonSchema" :> 1, "response_json_schema" :> 1}}
GeminiBodies ==
    {a @@ b @@ c : a \in UNION {Spelled("generationConfig", "generation_config", g, Nothing) : g \in Generations},
                   b \in Spelled("systemInstruction", "system_instruction", "own", "other"),
                   c \in {("model" :> "m"), ("model" :> "m") @@ ("request_id" :> "i"), ("requestId" :> "i") @@ ("request_id" :> "j")}}
Aliases == {"system_instruction", "generation_config", "thinking_config", "thinking_level", "thinking_budget",
            "responseJsonSchema", "response_json_schema"}
\* Every name in a document and in the objects it holds.
NamesIn(root) ==
    LET generation == Get(root, "generationConfig", Nothing)
    IN DOMAIN root \cup DOMAIN generation \cup DOMAIN Get(generation, "thinkingConfig", Nothing)
\* buildAntigravityOAuthGenerateEnvelope: what is the envelope's is in it and
\* nowhere else, every field is spelled in one way, and a request that was
\* made is not changed by making it again.
OwnEnvelope(root) ==
    \E envelope \in {AntigravityEnvelope(root, "gemini-pro", "project")} :
        /\ NamesIn(envelope.request) \cap (Aliases \cup Control) = {}
        /\ envelope.model = "gemini-pro"
        /\ ({"requestId", "request_id"} \cap DOMAIN root # {}) => envelope.requestId = "i"
        /\ AntigravityRequest(envelope.request) = envelope.request
        /\ ("systemInstruction" \in DOMAIN envelope.request) => envelope.request.systemInstruction = "own"
=============================================================================
