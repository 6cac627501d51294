---------------------------- MODULE MCClientPlans ----------------------------
(***************************************************************************)
(* Small configurations of every client, and what a takeover promises of   *)
(* them whatever the client.                                               *)
(***************************************************************************)
EXTENDS ClientPlans

M == <<"m">>
N == <<"n">>
Models == {NoModel, M, <<"openai", "m">>, <<"acme", "m">>}
Keys == {"", "own"}
Routes == {"", "own"}
Addresses == {"here", "there"}

Lists(entries) == BoundedSeq(entries, 2)
Tables(names, entries) == UNION {[some -> entries] : some \in SUBSET names}

Lines == {Blank, Start, End, <<"mine">>, <<"route", "old">>}
Layers ==
    {[model |-> m, small |-> s, route |-> r, key |-> k, list |-> l, models |-> t] :
        m \in {NoModel, M, Clipal \o M, <<"other", "m">>}, s \in {NoModel, <<"other", "n">>}, r \in Routes, k \in Keys,
        l \in {"", "bars", "frees"}, t \in Tables({Clipal \o M, <<"other", "m">>, <<"other", "n">>}, {"", "alias"})}
Size(l) ==
    Cardinality({f \in {"model", "small"} : l[f] # NoModel}) + Cardinality({f \in {"route", "key", "list"} : l[f] # ""})
    + Cardinality(DOMAIN l.models)
\* Two layers that say little, together at most three things.
LayerPairs == LET few == {l \in Layers : Size(l) <= 3} IN {pair \in few \X few : Size(pair[1]) + Size(pair[2]) <= 3}

KimiModels == [wire : {M, N}, name : {NoModel, N}, size : {0, 8}, override : {0, 4}]

Docs(product) ==
    CASE product = "claude" -> [route : Routes, key : Keys, token : Keys, onboarded : BOOLEAN]
      [] product = "codex" -> [via : {"", "own"}, route : Routes]
      [] product = "aider" -> [route : Routes, model : Models, key : Keys]
      [] product = "iflow" -> [route : Routes, model : Models, auth : {"", "own"}, key : Keys]
      [] product = "continue" -> [entries : BoundedSeq([id : {"Clipal", "mine"}, route : Routes, model : {NoModel, M}, key : Keys], 2)
                                            \cup [1 .. 3 -> [id : {"Clipal", "mine"}, route : {"own"}, model : {M, N}, key : {"own"}]]]
      [] product = "goose" -> [route : Routes, entries : Lists([id : Models])]
      [] product = "pi" -> [via : {"", "own"}, model : Models, route : Routes, key : Keys, entries : Lists([id : {M, N}, route : Routes])]
      [] product = "qwen" -> [via : {""}, model : {NoModel, M}, route : Routes, enforced : {"", "openai", "own"}, env : Keys,
                              entries : Lists([id : {M, N}, route : Routes, key : Keys])]
      [] product = "codebuddy" -> {d \in [model : {NoModel, M}, hasEnv : BOOLEAN, env : {NoModel, N}, available : {<< >>, <<M>>, <<N>>},
                                          entries : Lists([id : {M, N}, route : Routes, api : {"", "own"}, key : Keys])] :
                                     d.hasEnv \/ d.env = NoModel}
      [] product = "deepseek-harness" -> [via : {"", "own"}, model : Models, route : Routes, overrides : BOOLEAN, key : Keys, header : Keys,
                                          entries : Lists([id : {M, N}])]
      [] product = "trae" -> [agent : {NoModel, N, Clipal}, route : Routes, key : Keys,
                              models : Tables({N, Clipal, M}, [model : {NoModel, M, N}, via : {"", "own"}])]
      [] product = "grok" -> [default : {NoModel, M, N, Clipal},
                              models : Tables({N, Clipal}, [model : {NoModel, M}, route : Routes, key : Keys, keyEnv : BOOLEAN])]
      [] product = "kimi" -> {d \in [default : {NoModel, M, <<"work">>}, route : {""}, key : Keys, keyElsewhere : BOOLEAN,
                                     models : Tables({<<"work">>, <<"home">>, Clipal}, KimiModels)] :
                                /\ Clipal \in DOMAIN d.models => d.models[Clipal].name \in {NoModel, d.models[Clipal].wire}
                                /\ <<"home">> \in DOMAIN d.models => d.models[<<"home">>] = [wire |-> M, name |-> NoModel, size |-> 8, override |-> 0]}
      [] product = "crush" -> [large : [via : {"", "other"}, model : {NoModel, M}], small : [via : {"", "other"}, model : {NoModel, M, N}],
                               script : BOOLEAN, stateWins : BOOLEAN, route : Routes, key : Keys, oauth : BOOLEAN, disabled : BOOLEAN,
                               other : {{}, {[id |-> M, about |-> "known"]}}, entries : {<< >>, <<[id |-> N, about |-> "mine"]>>}]
      [] product = "antigravity" -> [via : {"", "own"}, profiles : UNION {[1 .. n -> Lists(Lines) \cup {<<<<"mine">>, Start, <<"route", "old">>, End, Blank, <<"mine">>>>}] : n \in {1, 2}}]
      [] product = "copilot" -> [registry : BOOLEAN, profiles : [{1} -> BoundedSeq(Lines, 4)]]
      [] product = "opencode" -> {[layers |-> pair, target |-> t] : pair \in LayerPairs, t \in 1 .. 2}

Products == {"claude", "codex", "opencode", "antigravity", "continue", "aider", "goose", "pi", "qwen", "kimi",
             "copilot", "codebuddy", "crush", "iflow", "trae", "grok", "deepseek-harness"}
Targets(product) ==
    [route : {"here"}, model : IF product \in {"claude", "codex", "antigravity"} THEN {NoModel} ELSE {NoModel, M, <<"openai", "m">>},
     window : IF product = "kimi" THEN {0, 2} ELSE {0}]

(***************************************************************************)
(* What a client does with its configuration                               *)
(***************************************************************************)

Listed(entries, id) == entries[Place(entries, id)]
\* Where the client sends its requests, and with which model.
Uses(product, d) ==
    CASE product = "claude" -> <<d.route, NoModel>>
      [] product = "codex" -> <<IF d.via = "clipal" THEN d.route ELSE "own", NoModel>>
      [] product = "aider" -> <<d.route, Tail(d.model)>>
      [] product = "iflow" -> <<IF d.auth = "openai" THEN d.route ELSE "own", d.model>>
      [] product = "continue" -> LET e == Listed(d.entries, "Clipal") IN <<e.route, e.model>>
      [] product = "goose" -> <<d.route, NoModel>>
      [] product \in {"pi", "qwen"} ->
           LET e == Listed(d.entries, d.model) IN <<IF d.via # "clipal" THEN "own" ELSE IF e.route = "" THEN d.route ELSE e.route, d.model>>
      [] product = "codebuddy" ->
           LET model == IF d.env # NoModel THEN d.env ELSE d.model
               e == Listed(d.entries, model)
           IN <<IF e.api = "" /\ (d.available = << >> \/ model \in Range(d.available)) THEN e.route ELSE "own", model>>
      [] product = "deepseek-harness" -> <<IF d.via = "clipal" THEN d.route ELSE "own", Listed(d.entries, d.model).id>>
      [] product = "trae" -> LET e == d.models[d.agent] IN <<IF e.via = "clipal" THEN d.route ELSE "own", e.model>>
      [] product = "grok" -> LET e == d.models[d.default] IN <<e.route, e.model>>
      [] product = "kimi" -> LET e == d.models[d.default] IN <<d.route, IF e.name = NoModel THEN e.wire ELSE e.name>>
      [] product = "crush" ->
           <<IF d.large.via = "clipal" /\ d.small.via = "clipal" /\ ~d.disabled THEN d.route ELSE "own", Listed(d.entries, d.large.model).id>>
      [] product = "opencode" ->
           LET e == Effective(d.layers)
           IN <<IF \A m \in {e.model, e.small} \ {NoModel} : m[1] = "clipal" THEN e.route ELSE "own",
                IF Wire(d.layers, e.model) = "alias" THEN <<"alias">> ELSE Tail(e.model)>>
      [] product \in {"antigravity", "copilot"} ->
           LET routes(p) == SelectSeq(p, LAMBDA line : line[1] = "route")
           IN <<IF \A i \in DOMAIN d.profiles : routes(d.profiles[i]) # << >> /\ Last(routes(d.profiles[i])) = <<"route", "here">>
                  THEN "here" ELSE "own",
                NoModel>>

OutsideBlock(lines) ==
    IF IndicesOf(lines, Start) = {} THEN lines
    ELSE SubSeq(lines, 1, Min(IndicesOf(lines, Start)) - 1) \o SubSeq(lines, Max(IndicesOf(lines, End)) + 1, Len(lines))
\* What is the user's in d and must be in the plan too.
Mine(product, d, planned, to) ==
    LET Others(entries, id) == SelectSeq(entries, LAMBDA e : e.id # id)
        OtherNames(name) == [n \in DOMAIN d.models \ {Clipal, name} |-> d.models[n]]
        OwnKeys(entries) == {i \in DOMAIN entries : entries[i].key = "own"}
    IN CASE product = "claude" -> <<d.key = "own", d.token>>
         [] product = "codex" -> << >>
         [] product \in {"aider", "iflow"} -> <<d.key = "own">>
         [] product = "continue" -> Others(d.entries, "Clipal")
         [] product = "goose" -> Others(d.entries, to.model)
         [] product = "pi" -> <<d.key = "own", Others(d.entries, planned.model)>>
         [] product = "qwen" -> <<d.enforced, d.env = "own", OwnKeys(d.entries), Others(d.entries, planned.model)>>
         [] product = "codebuddy" -> <<OwnKeys(d.entries), Others(d.entries, planned.model), d.hasEnv>>
         [] product = "deepseek-harness" -> <<d.key, d.header = "own", Others(d.entries, planned.model)>>
         [] product = "trae" -> <<d.key = "own", OtherNames(planned.agent)>>
         [] product = "grok" -> OtherNames(Clipal)
         [] product = "kimi" -> <<d.key = "own", d.keyElsewhere, OtherNames(Clipal)>>
         [] product = "crush" -> <<d.key = "own", d.other, Others(Others(d.entries, planned.large.model), planned.small.model)>>
         [] product = "opencode" ->
              LET foreign(l) == {e \in DOMAIN l.models : e[1] # "clipal"}
              IN << {i \in DOMAIN d.layers : d.layers[i].key = "own"},
                    [i \in DOMAIN d.layers |-> IF i # d.target THEN d.layers[i].models
                                               ELSE [e \in foreign(d.layers[i]) |-> d.layers[i].models[e]]] >>
         [] OTHER -> [i \in DOMAIN d.profiles |-> SelectSeq(OutsideBlock(d.profiles[i]), NotBlank)]

\* Kimi's two exceptions.  A model chosen by the id of one of the user's
\* entries is no longer unique once Clipal's copy of it stands beside it; and
\* an override that Clipal's entry already had wins over the copied size only
\* in the next plan.
KimiRefusesItself(d, to, planned) ==
    /\ to.model # NoModel /\ to.model \notin DOMAIN d.models
    /\ planned.models[Clipal].wire = to.model
    /\ \E n \in DOMAIN d.models \ {Clipal} : d.models[n].wire = to.model
KimiKeepsOverride(planned, to) ==
    LET e == planned.models[Clipal] IN to.model = NoModel /\ to.window = 0 /\ e.override > 0 /\ e.override # e.size
Exception(product, d, to, planned) ==
    product = "kimi" /\ (KimiRefusesItself(d, to, planned) \/ KimiKeepsOverride(planned, to))

\* Once written, a plan sends the client to Clipal with the model the user
\* chose, holds all that was the user's, and stays a plan: planning again
\* changes nothing, and planning for another address gives what it would have
\* given at first.
PlanHolds(product, d, to) ==
    \A planned \in Plan(product, d, to) :
        LET same(Of(_)) == Cardinality({Of(x) : x \in {d, planned}}) = 1
        IN /\ \E used \in {Uses(product, planned)} :
                /\ used[1] = to.route
                /\ (to.model # NoModel /\ product \notin {"goose", "kimi", "copilot"}) => used[2] = to.model
           /\ same(LAMBDA x : Mine(product, x, planned, to))
           /\ Exception(product, d, to, planned) \/
                \A address \in Addresses : same(LAMBDA x : Plan(product, x, [to EXCEPT !.route = address]))
=============================================================================
