----------------------------- MODULE RequestPaths -----------------------------
(***************************************************************************)
(* Which client and which capability a request path stands for:            *)
(* internal/proxy/protocols.go and the switch of Router.handleRequest.     *)
(* A path is [segs, method]: its segments, and the ":method" that its last *)
(* segment may carry ("" without one).  A trailing slash changes nothing   *)
(* in any of the comparisons and is left out.                              *)
(***************************************************************************)
EXTENDS Integers, Sequences, FiniteSets, TLC, SequencesExt

CONSTANT GeminiModels    \* the model names that start with "gemini"

Path(segs, method) == [segs |-> segs, method |-> method]

Starts(p, segs) == IsPrefix(segs, p.segs)
Longer(p, segs) == Starts(p, segs) /\ Len(p.segs) > Len(segs)

\* pathMatchesPrefix, matchesExactPath, "resource:method", and both.
Under(p, segs) == Starts(p, segs) /\ (Len(p.segs) = Len(segs) => p.method = "")
Exactly(p, segs) == p.segs = segs /\ p.method = ""
Called(p, segs) == p.segs = segs /\ p.method # ""
Resource(p, segs) == Under(p, segs) \/ Called(p, segs)
Without(p, segs) == [p EXCEPT !.segs = SubSeq(@, Len(segs) + 1, Len(@))]
Below(segs, p) == [p EXCEPT !.segs = segs \o @]

V1 == <<"v1">>
V1Beta == <<"v1beta">>
VersionRoots == {<<"upload", "v1beta">>, <<"upload", "v1">>, V1Beta, V1}
Versions == {V1, V1Beta}
Versioned(p) == \E root \in VersionRoots : Under(p, root)

\* A version root in front of another one is dropped, as often as there is one.
CollapseOnce(p) ==
    LET nested == {root \in VersionRoots : Under(p, root) /\ Versioned(Without(p, root))}
    IN IF nested = {} THEN p ELSE Without(p, CHOOSE root \in nested : TRUE)

\* Mutant: only the first repeated root is dropped.
CollapseFirst(p) == CollapseOnce(p)
\* collapseNestedVersionedPath, until nothing changes.
Collapse(p) ==
    LET c[n \in Nat] == IF n = 0 THEN p ELSE CollapseOnce(c[n - 1]) IN c[Len(p.segs)]

GeminiMethods == {"generateContent", "streamGenerateContent", "countTokens", "embedContent",
                  "batchEmbedContents", "predict", "predictLongRunning"}
GeminiResources == {"interactions", "cachedContents", "tunedModels", "operations", "fileSearchStores",
                    "generatedFiles", "corpora", "authTokens", "agents", "webhooks"}

BareClaude(p) == p.method = "" /\ p.segs \in {<<"messages">>, <<"messages", "count_tokens">>}
BareGemini(p) ==
    \/ Longer(p, <<"models">>) /\ p.method \in GeminiMethods
    \/ \E r \in {"files", "batches"} : Starts(p, <<r>>) /\ p.method # ""
    \/ \E r \in GeminiResources : Resource(p, <<r>>)
BareOpenAI(p) ==
    \/ \E segs \in {<<"chat", "completions">>, <<"completions">>, <<"embeddings">>, <<"moderations">>} : Exactly(p, segs)
    \/ \E r \in {"responses", "audio", "images", "files", "uploads", "models", "fine_tuning", "batches",
                 "vector_stores", "assistants", "threads", "realtime"} : Under(p, <<r>>)

\* canonicalizeClipalPath: a bare path gets the version of its protocol.
Canonical(p) ==
    LET q == Collapse(p)
    IN IF Versioned(q) THEN q
       ELSE IF BareClaude(q) THEN Below(V1, q)
       ELSE IF BareGemini(q) THEN Below(V1Beta, q)
       ELSE IF BareOpenAI(q) THEN Below(V1, q)
       ELSE q

(***************************************************************************)
(* Capabilities; "" is none.                                               *)
(***************************************************************************)

ClaudeCapability(p) ==
    IF Exactly(p, <<"v1", "messages", "count_tokens">>) THEN "claude_count_tokens"
    ELSE IF Exactly(p, <<"v1", "messages">>) THEN "claude_messages" ELSE ""

\* Vertex: /v1/projects/.../publishers/google/models/...
Vertex(p) == \E v \in Versions : Longer(p, v \o <<"projects">>)
Has(p, segs) == \E i \in 0 .. Len(p.segs) : IsPrefix(segs, SubSeq(p.segs, i + 1, Len(p.segs)))
GoogleModels == <<"publishers", "google", "models">>
GeminiMethod(p, method) ==
    /\ p.method = method
    /\ \/ \E v \in Versions : Longer(p, v \o <<"models">>)
       \/ Vertex(p) /\ \E m \in Range(p.segs) : Has(p, GoogleModels \o <<m>>)
ModelMetadata(p) == Len(p.segs) > 2 /\ Starts(p, <<"v1", "models">>) /\ p.segs[3] \in GeminiModels

GeminiCapability(p) ==
    LET ofVersions(r, Fits(_, _)) == \E v \in Versions : Fits(p, v \o <<r>>)
    IN CASE GeminiMethod(p, p.method) /\ p.method \in GeminiMethods -> "gemini_" \o p.method
         [] Under(p, <<"v1beta", "models">>) \/ ModelMetadata(p) \/ (Vertex(p) /\ Has(p, GoogleModels)) -> "gemini_models"
         [] Resource(p, <<"v1beta", "files">>) -> "gemini_files"
         [] \E v \in Versions : Under(p, <<"upload">> \o v \o <<"files">>) -> "gemini_upload_files"
         [] ofVersions("cachedContents", Under) -> "gemini_cached_contents"
         [] ofVersions("tunedModels", Under) -> "gemini_tuned_models"
         [] ofVersions("interactions", Under) -> "gemini_interactions"
         [] Resource(p, <<"v1beta", "batches">>) -> "gemini_batches"
         [] \/ ofVersions("operations", Under)
            \/ ofVersions("models", Longer) /\ \E m \in Range(p.segs) : Has(p, <<"operations", m>>)
            \/ Vertex(p) /\ Has(p, <<"locations">>) /\ Has(p, <<"operations">>) -> "gemini_operations"
         [] ofVersions("fileSearchStores", Resource) -> "gemini_file_search_stores"
         [] ofVersions("generatedFiles", Resource) -> "gemini_generated_files"
         [] ofVersions("corpora", Resource) -> "gemini_corpora"
         [] ofVersions("authTokens", Resource) -> "gemini_auth_tokens"
         [] ofVersions("agents", Resource) -> "gemini_agents"
         [] ofVersions("webhooks", Resource) -> "gemini_webhooks"
         [] OTHER -> ""

OpenAIModels(p) == Under(p, <<"v1", "models">>) /\ GeminiCapability(p) = ""
OpenAICapability(p) ==
    CASE Exactly(p, <<"v1", "chat", "completions">>) -> "openai_chat_completions"
      [] Exactly(p, <<"v1", "completions">>) -> "openai_completions"
      [] Exactly(p, <<"v1", "embeddings">>) -> "openai_embeddings"
      [] Exactly(p, <<"v1", "moderations">>) -> "openai_moderations"
      [] OpenAIModels(p) -> "openai_models"
      [] Len(p.segs) > 1 /\ Under(p, SubSeq(p.segs, 1, 2)) /\ p.segs[1] = "v1"
            /\ p.segs[2] \in {"responses", "audio", "images", "files", "uploads", "fine_tuning", "batches",
                              "vector_stores", "assistants", "threads", "realtime"} -> "openai_" \o p.segs[2]
      [] OTHER -> ""

CapabilityOf(client, p) ==
    CASE client = "claude" -> ClaudeCapability(p)
      [] client = "google" -> GeminiCapability(p)
      [] client = "openai" -> OpenAICapability(p)

(***************************************************************************)
(* handleRequest: the client, the capability, the routing scope and how    *)
(* the request is forwarded.                                               *)
(***************************************************************************)

Route(client, p, capability) ==
    [client |-> client, path |-> p.segs, capability |-> capability,
     scope |-> IF capability \in {"claude_count_tokens", "openai_responses", "gemini_streamGenerateContent"}
               THEN capability ELSE "default",
     \* counting tokens is tried once and says nothing about health
     once |-> capability \in {"claude_count_tokens", "gemini_countTokens"}]
NoRoute == Route("", Path(<< >>, ""), "")

ClientAlias == [claude |-> "claude", claudecode |-> "claude", openai |-> "openai", codex |-> "openai",
                google |-> "google", gemini |-> "google"]

Unified(p) ==
    LET q == Canonical(p)
        clients == SelectSeq(<<"claude", "google", "openai">>, LAMBDA c : CapabilityOf(c, q) # "")
    IN IF clients = << >> THEN NoRoute ELSE Route(clients[1], q, CapabilityOf(clients[1], q))
OfClient(client, p) ==
    LET c == CapabilityOf(client, p) IN Route(client, p, IF c = "" THEN client \o "_compatible" ELSE c)

HandleRequest(p) ==
    IF Under(p, <<"clipal">>) THEN Unified(Without(p, <<"clipal">>))
    ELSE LET aliases == {a \in DOMAIN ClientAlias : Under(p, <<a>>)}
         IN IF aliases = {} THEN NoRoute
            ELSE LET a == CHOOSE a \in aliases : TRUE IN OfClient(ClientAlias[a], Without(p, <<a>>))
=============================================================================
