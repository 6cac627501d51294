-------------------------------- MODULE MCRules --------------------------------
(***************************************************************************)
(* The parts of Clipal that decide something from their input alone, asked *)
(* one question after the other: what an upstream's refusal means, how a   *)
(* stream is cut and an answer translated, where a path leads, what an     *)
(* answer costs, and what a takeover writes into the configuration of      *)
(* another program.                                                        *)
(***************************************************************************)
EXTENDS UpstreamVerdicts, StreamProtocol, RequestPaths, UsageCost

CONSTANTS StreamLength,    \* the longest stream that is asked about
          PathLength       \* the longest path, before a version is put in front

Takeover == INSTANCE MCClientPlans
Rewriting == INSTANCE MCRequestRewriting
Translation == INSTANCE AnswerTranslation

VARIABLE question          \* what is asked about: <<kind>>, and then <<kind, value>>

(***************************************************************************)
(* Refusals                                                                *)
(***************************************************************************)

DetailKinds == {"quota failure", "terminal quota failure", "quota exhausted", "retry info"}
Bodies ==
    [json : BOOLEAN, rpc : BOOLEAN, code : {"", "auth", "quota", "busy"}, type : {"", "overloaded"},
     says : SUBSET {"quota", "daily limit", "concurrent"}, status : {"", "denied", "exhausted"},
     details : BoundedSeq(DetailKinds, 2)]
Hints == {0, 1, ShortBusyWait, ShortBusyWait + 1, MaxCooldown + 1}

Windows == [used : {90, 95, 98, 100}, resets : {0, 20, MaxOAuthCooldown + 1}]
Accounts == [kind : {"codex", "claude", "antigravity", "api key"}, reached : BOOLEAN, windows : Windows \X Windows, hint : {0, 50}]

AskVerdict == question = <<"verdict">> /\ \E b \in Bodies : question' = <<"verdict", b>>
AskCooldown == question = <<"cooldown">> /\ \E a \in Accounts : question' = <<"cooldown", a>>

\* Evidence that the account cannot answer at all, wherever it stands.
Hard(b) ==
    /\ b.json
    /\ \/ SaysAuth(b)
       \/ b.rpc /\ (b.status = "denied" \/ Detailed(b, {"terminal quota failure", "quota exhausted"}))
\* A quota that only the text or the code names, and no hint to try again.
SaidOnly(b) ==
    /\ b.json /\ ~(b.rpc /\ Detailed(b, {"retry info"}))
    /\ SaysQuota(b) \/ (b.rpc /\ Detailed(b, {"quota failure"}) /\ QuotaText(b))

\* classifyUpstreamFailure: a provider is deactivated on hard evidence, whatever
\* else the answer holds and in whatever order, and otherwise only for a quota
\* that no retry hint contradicts; only a busy answer that names a short time
\* is waited for.
RightVerdict(b) ==
    /\ (Classify429(b).action = "deactivate") <=> (Hard(b) \/ SaidOnly(b))
    /\ \A h \in Hints :
         LET c == ClassifyFailure(429, b, {h})
         IN /\ c.action = "busy retry" => c.cooldown \in 1 .. ShortBusyWait
            /\ c.action = "deactivate" => c.cooldown = 0
            /\ c.cooldown <= MaxCooldown

\* oauthCooldownForFailure: a Codex or Antigravity account rests until every
\* window that is used up has started anew, and never longer than the limit.
RightCooldown(a) ==
    LET windows == Range(a.windows)
        spent == {w \in windows : w.used = 100 /\ w.resets > 0}
        usage == CASE a.kind = "codex" -> CodexUntil({[reached |-> a.reached, windows |-> windows]})
                   [] a.kind = "claude" -> ClaudeUntil(a.windows, << >>)
                   [] a.kind = "antigravity" ->
                        GeminiUntil({[model |-> "", tier |-> "", resets |-> w.resets, exhausted |-> w.used = 100] : w \in windows}, "m", "")
                   [] OTHER -> 0
        rest == OAuthCooldown(a.kind, usage, {[form |-> "header", time |-> a.hint]}, 7)
    IN /\ a.kind \in {"codex", "antigravity"} => \A w \in spent : rest >= AtMost(MaxOAuthCooldown, w.resets)
       /\ a.kind = "api key" => rest = 7
       /\ rest <= MaxOAuthCooldown

(***************************************************************************)
(* Streams                                                                 *)
(***************************************************************************)

Symbols == {"done", "fail", "usage", "cr", "lf"}
Streams == BoundedSeq(Symbols, StreamLength) \cup BoundedSeq({"done", "cr", "lf"}, StreamLength + 1)
AskStream == question = <<"stream">> /\ \E s \in Streams : question' = <<"stream", s>>

\* A stream in chunks, for every choice of the places where it is cut.
Chunks(s, cuts) ==
    LET ends == SetToSortSeq(cuts \cup {Len(s)}, <)
    IN [i \in DOMAIN ends |-> SubSeq(s, (IF i = 1 THEN 0 ELSE ends[i - 1]) + 1, ends[i])]

\* protocolTracker, UsageExtractor and streamResponseToClient: however the
\* network cuts a stream, exactly the answer up to the end of its terminal
\* event is forwarded, and verdict, usage and health are those of the stream.
CutExactly(s) ==
    LET answer == Answer(s)
        outcome == Outcome(s)
        counted == Counted(s)
        ends == TerminalEnds(s) # {}
        health == CASE outcome = "completed" -> "success" [] outcome = "failed" -> "neutral" [] OTHER -> "failure"
    IN \A cuts \in SUBSET (1 .. Len(s) - 1) :
        LET read == Streamed(Chunks(s, cuts))
            c == AtEnd(read)
        IN /\ c.sent = answer
           /\ FinalStatus(c.tracker) = outcome
           /\ (FinalStatus(c.tracker) = "completed" /\ Usage(c.usage)) <=> counted
           /\ AbortedStatus(read.tracker) = "completed" => ends
           /\ CircuitSignal(c.tracker, FALSE) = health

(***************************************************************************)
(* Translated answers                                                      *)
(***************************************************************************)

Told(type, response) == Translation!Event(type, response, << >>, None)
Written(type, text) == Translation!Event(type, None, text, None)
\* How a Codex stream goes on, and how it ends, if it does.
Along ==
    {Told("created", Translation!Response("in_progress", << >>)), Told("other", None), Told("garbage", None),
     Translation!Event("item done", None, << >>, "i1"), Translation!Event("item done", None, << >>, "i2")}
    \cup {Written("delta", <<p>>) : p \in {"a", "b"}} \cup {Written("text done", t) : t \in {<<"a">>, <<"a", "b">>, << >>}}
Endings ==
    UNION {{Told(type, r) : r \in {None} \cup [status : {"", type}, output : {None, << >>, <<"i3">>}]} : type \in Translation!Terminal}
CodexStreams == {along \o end : along \in BoundedSeq(Along, 3), end \in {<< >>} \cup {<<e>> : e \in Endings}}
AskCollected == question = <<"collected">> /\ \E s \in CodexStreams : question' = <<"collected", s>>

Fields(fields) == UNION {[given -> {"x"}] : given \in SUBSET fields}
Payloads ==
    {None} \cup Fields({"error", "traceId", "candidates", "responseId"})
    \cup {Translation!With(root, "response", inner) : root \in Fields({"error", "traceId", "candidates"}),
                                                      inner \in {None} \cup Fields({"candidates", "responseId", "modelVersion"})}
AskUnwrapped == question = <<"unwrapped">> /\ \E s \in BoundedSeq(Payloads, 2) : question' = <<"unwrapped", s>>

Catalogs == BoundedSeq([slug : {"", "m1"}, id : {"", "m1", "m2"}], 2)
AskModels == question = <<"models">> /\ \E s \in Catalogs : question' = <<"models", s>>

(***************************************************************************)
(* Paths                                                                   *)
(***************************************************************************)

Words == {"v1", "v1beta", "upload", "messages", "models", "files", "responses", "operations", "gemini-pro"}
Methods == {"", "generateContent", "delete"}
Paths == {Path(segs, method) : segs \in BoundedSeq(Words, PathLength) \ {<< >>}, method \in Methods}
AskPath == question = <<"path">> /\ \E p \in Paths : question' = <<"path", p>>

\* Router.handleRequest: writing the version once more in front of a path, as
\* clients do whose base URL already holds it, changes nothing; a path that was
\* resolved stays what it is; and no path belongs to two protocols.
RoutedOnce(p) ==
    LET c == Canonical(p)
    IN /\ Canonical(c) = c
       /\ Versioned(p) => \A root \in VersionRoots : Canonical(Below(root, p)) = c
       /\ Cardinality({client \in {"claude", "google", "openai"} : CapabilityOf(client, c) # ""}) <= 1
       /\ Versioned(p) => \A root \in VersionRoots :
              HandleRequest(Below(<<"clipal">> \o root, p)) = HandleRequest(Below(<<"clipal">>, p))

(***************************************************************************)
(* Usage and cost                                                          *)
(***************************************************************************)

Counters ==
    [openai |-> {"prompt", "completion", "total", "input cached", "prompt cache hit", "completion reasoning"},
     claude |-> {"input", "cache creation", "cache read", "output", "5m", "1h"},
     gemini |-> {"prompt", "tool use", "candidates", "thoughts", "total", "cached", "prompt audio"}]
Answers(family) == UNION {[given -> {0, 1, 3}] : given \in SUBSET Counters[family]}
AskTokens ==
    /\ question = <<"tokens">>
    /\ \E family \in DOMAIN Counters : \E raw \in Answers(family) :
         question' = <<"tokens", [family |-> family, raw |-> raw]>>

Price(input, output, read, write) == [k \in Kinds |-> CASE k = "input" -> input [] k = "output" -> output [] k = "read" -> read [] k = "write" -> write]
Unpriced == Price(None, None, None, None)
\* Prices that rise with the size of the prompt; an entry may name fewer of them
\* for the largest size than for the one below it.
Models ==
    [base : {Price(2, 3, None, None), Price(2, 3, 1, 2)}, tier : {Unpriced, Price(1, None, None, None), Price(4, 6, 2, None)},
     long : {Unpriced, Price(4, 6, None, None)}, longer : {Unpriced, Price(5, None, None, None), Price(5, 7, None, None)},
     longerTier : {Unpriced, Price(8, 9, 4, None)}, write1h : {None, 4}, audio : {None, 5}, reasoning : {None},
     search : {None}, fast : {2}, us : {11}]
AskCost == question = <<"cost">> /\ \E m \in Models, tier \in {"standard", "priority"} : question' = <<"cost", [model |-> m, tier |-> tier]>>

\* The normalize functions of the usage extractor and of usage_cost.go: every
\* token that is shown is charged, once and as one kind, with two exceptions of
\* the code's own: a Claude answer that only splits its cache writes shows
\* none, and Gemini's thoughts, or the rest of a larger total, are output that
\* is charged and not shown.
TokensAddUp(family, raw) ==
    LET shown == Shown(family, raw)
    IN \A ttls \in SUBSET {"5m", "1h"} :
        LET u == Charged(family, raw, ttls)
            input == u.uncached + u.cached + u.write + u.write1h
            splitOnly == family = "claude" /\ {"5m", "1h"} \cap DOMAIN raw # {} /\ Pick(raw, <<"cache creation">>) = 0
            rest == IF family # "gemini" THEN 0
                    ELSE Most(Pick(raw, <<"thoughts">>), Pick(raw, <<"total">>) - shown.input - shown.output)
        IN u # Refused =>
             /\ input = shown.input + (IF splitOnly THEN Pick(raw, <<"5m">>) + Pick(raw, <<"1h">>) ELSE 0)
             /\ u.output = shown.output + rest
             /\ Pick(raw, <<"prompt audio">>) <= shown.input => u.audio \in 0 .. u.uncached
             /\ \A k \in DOMAIN u : u[k] >= 0

UsedTokens ==
    {[Nothing EXCEPT !.uncached = i + a, !.audio = a, !.cached = c, !.write = w, !.write1h = h, !.output = o] :
        i \in {0, 3, 5}, a \in 0 .. 1, c \in {0, 1, 4}, w \in 0 .. 1, h \in 0 .. 1, o \in {0, 1, 4}}
OneMore(u) ==
    {[u EXCEPT ![k] = @ + 1] : k \in {"uncached", "cached", "write", "write1h", "output"}}
    \cup {[u EXCEPT !.uncached = @ + 1, !.audio = @ + 1], [u EXCEPT !.output = @ + 1, !.reasoning = @ + 1]}

\* The largest size has its own price for whatever the size below it has.
StepsCovered(m) == Known(m.longer) => \A k \in Kinds : m.long[k] # None => m.longer[k] # None

\* CostMicrosForProvider: one more token never makes an answer cheaper, also
\* where it lifts the prompt over a size at which all prices change, but for the
\* largest size of an entry that leaves a price out there: it falls back on the
\* base price, below that of the size it leaves.  And an answer that has a price
\* has one for every kind of token it used.
MoreCostsMore(m, tier) ==
    \A u \in UsedTokens : \E costs \in {[v \in {u} \cup OneMore(u) |-> Cost(m, tier, v, FALSE, FALSE)]} :
        costs[u] # Priceless =>
            /\ \A bill \in {Bill(m, tier, u)} :
                 /\ \A i \in DOMAIN bill : bill[i].tokens > 0 => bill[i].price # None
                 /\ FoldLeft(LAMBDA n, t : n + t.tokens, 0, bill) = InputSize(u) + u.output
            /\ \A v \in DOMAIN costs :
                 \/ costs[v] = Priceless \/ costs[v] >= costs[u]
                 \/ InputSize(u) = Above272K /\ InputSize(v) > Above272K /\ ~StepsCovered(m)
            /\ Recorded(Priceless, costs[u]).cost = costs[u]

(***************************************************************************)

AskPlan ==
    question = <<"plan">> /\ \E product \in Takeover!Products :
        \E d \in Takeover!Docs(product), to \in Takeover!Targets(product) : question' = <<"plan", <<product, d, to>>>>

AskAttempts ==
    question = <<"attempts">> /\ \E path \in Rewriting!Paths :
        \E r \in Rewriting!RequestsOf(path) : question' = <<"attempts", r>>
AskCredential ==
    question = <<"credential">> /\ \E given \in SUBSET Range(Rewriting!Carriers) : question' = <<"credential", given>>
AskEnvelope ==
    question = <<"envelope">> /\ \E root \in Rewriting!GeminiBodies : question' = <<"envelope", root>>

Init == \E kind \in {"collected", "unwrapped", "models", "attempts", "credential", "envelope", "verdict", "cooldown", "stream", "path", "tokens", "cost", "plan"} : question = <<kind>>
Next ==
    \/ AskVerdict \/ AskCooldown \/ AskStream \/ AskPath \/ AskTokens \/ AskCost
    \/ AskCollected \/ AskUnwrapped \/ AskModels
    \/ AskPlan \/ AskAttempts \/ AskCredential \/ AskEnvelope
    \/ Len(question) = 2 /\ question' = <<question[1]>>
Spec == Init /\ [][Next]_question

\* The answers that each question promises; the operators above say which code
\* gives them.
Asked(kind) == Len(question) = 2 /\ question[1] = kind

\* classifyUpstreamFailure and oauthCooldownForFailure: a provider is taken out
\* for hard evidence only, and rests as long as its windows say.
RefusalsUnderstood == (Asked("verdict") => RightVerdict(question[2])) /\ (Asked("cooldown") => RightCooldown(question[2]))

\* streamResponseToClient and protocolTracker: what is forwarded, counted and
\* held against a provider does not depend on where the network cuts a stream.
\* synthesizeCodexOAuthResponsesJSON, normalizeGeminiOAuthResponseEnvelope and
\* rewriteCodexOAuthModelsResponse (SameAnswer, NothingLost and SameModels of
\* AnswerTranslation): nor does what the client is told depend on the form that
\* it asked for or that the upstream has.
StreamCutExact ==
    /\ Asked("stream") => CutExactly(question[2])
    /\ Asked("collected") => Translation!SameAnswer(question[2])
    /\ Asked("unwrapped") => Translation!NothingLost(question[2])
    /\ Asked("models") => Translation!SameModels(question[2], {"m1", "m2"})

\* Router.handleRequest: a path leads to one place, however often its version
\* is written in front of it.
RouteIsStable == Asked("path") => RoutedOnce(question[2])

\* The usage extractor and the price catalog: every token is charged once, and
\* more tokens never cost less, but where the catalog leaves out a price of the
\* largest size (internal/pricing/calculator.go:168).
EveryTokenPricedOnce ==
    /\ Asked("tokens") => TokensAddUp(question[2].family, question[2].raw)
    /\ Asked("cost") => MoreCostsMore(question[2].model, question[2].tier)

\* The planners of internal/integration (PlanHolds of MCClientPlans): a plan
\* reaches Clipal, keeps what is the user's, and is still the plan once written.
PlansStay == Asked("plan") => Takeover!PlanHolds(question[2][1], question[2][2], question[2][3])

\* createProxyRequestWithPayloadForProvider (OwnRequest of MCRequestRewriting):
\* a provider is sent its own request, credential and envelope, whichever
\* providers were tried before it.
EachGetsItsOwn ==
    /\ Asked("attempts") => Rewriting!OwnRequest(question[2])
    /\ Asked("credential") => Rewriting!OwnCredential(question[2])
    /\ Asked("envelope") => Rewriting!OwnEnvelope(question[2])
=============================================================================
