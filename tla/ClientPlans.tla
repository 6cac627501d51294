----------------------------- MODULE ClientPlans -----------------------------
(***************************************************************************)
(* What a takeover writes into the configuration of another program: the   *)
(* planners of internal/integration, one for each client.                  *)
(*                                                                         *)
(* A document holds the settings that decide where the client sends its    *)
(* requests, with which model and which credential; all other settings are *)
(* carried over and left out here.  A model is the sequence of the parts   *)
(* of its name between slashes, << >> for none; a credential is "" (none), *)
(* "own" or "clipal"; a route is "", "own" or an address of Clipal.  `to'  *)
(* is where to: [route, model, window], the last two chosen by the user in *)
(* the configuration location, or << >> and 0.  A plan is a set: empty if  *)
(* the planner refuses.                                                    *)
(***************************************************************************)
EXTENDS Integers, Sequences, FiniteSets, SequencesExt

NoModel == << >>
Only(condition, doc) == IF condition THEN {doc} ELSE {}
Credential(key) == IF key = "" THEN "clipal" ELSE key
\* selectedModel: the user's choice, or else what the client already uses.
Selected(to, existing) == IF to.model # NoModel THEN to.model ELSE existing

\* The place of the first entry with this id, or one after the last.
Place(entries, id) ==
    LET found == {i \in DOMAIN entries : entries[i].id = id}
    IN IF found = {} THEN Len(entries) + 1 ELSE CHOOSE i \in found : \A j \in found : i <= j
\* The entry with this id is changed, or an entry made of nothing is added.
Upsert(entries, id, blank, Changed(_)) ==
    LET at == Place(entries, id)
    IN IF at > Len(entries) THEN Append(entries, Changed(blank)) ELSE [entries EXCEPT ![at] = Changed(@)]

(***************************************************************************)
(* Clients with one endpoint: Claude Code, Codex, Aider, iFlow             *)
(***************************************************************************)

PlanClaude(d, to) ==
    {[d EXCEPT !.route = to.route, !.onboarded = TRUE,
               !.key = IF d.key = "" /\ d.token = "" THEN "clipal" ELSE @]}

\* Codex has a table of providers, of which Clipal's own is written anew.
PlanCodex(d, to) == {[d EXCEPT !.via = "clipal", !.route = to.route]}

\* managedOpenAIModel: Aider names its protocol in front of the model.
ManagedOpenAIModel(model, explicit) ==
    IF ~explicit /\ Len(model) > 1
      THEN Only(model[1] = "openai", model)
      ELSE {<<"openai">> \o model}
PlanAider(d, to) ==
    LET model == Selected(to, d.model)
    IN {[d EXCEPT !.route = to.route, !.key = Credential(@), !.model = m] :
           m \in IF model = NoModel THEN {} ELSE ManagedOpenAIModel(model, to.model # NoModel)}

PlanIFlow(d, to) ==
    LET model == Selected(to, d.model)
    IN Only(model # NoModel, [d EXCEPT !.route = to.route, !.model = model, !.auth = "openai", !.key = Credential(@)])

(***************************************************************************)
(* Clients with a list of models: Continue, Goose, Pi, Qwen, CodeBuddy,    *)
(* DeepSeek                                                                *)
(***************************************************************************)

\* Continue: entries by name, of which one is Clipal's and more are dropped.
PlanContinue(d, to) ==
    LET mine == Place(d.entries, "Clipal")
        model == Selected(to, IF mine > Len(d.entries) THEN NoModel ELSE d.entries[mine].model)
        Changed(e) == [e EXCEPT !.route = to.route, !.model = model, !.key = Credential(@)]
        blank == [id |-> "Clipal", route |-> "", model |-> NoModel, key |-> ""]
        Foreign(e) == e.id # "Clipal"
        planned == Upsert(d.entries, "Clipal", blank, Changed)
    IN Only(model # NoModel,
            [d EXCEPT !.entries = SubSeq(planned, 1, mine) \o SelectSeq(SubSeq(planned, mine + 1, Len(planned)), Foreign)])

\* Goose has a file of its own for each provider.
PlanGoose(d, to) ==
    LET existing == IF d.entries = << >> THEN NoModel ELSE d.entries[1].id
        model == Selected(to, existing)
        Same(e) == e
    IN Only(model # NoModel,
            [d EXCEPT !.route = to.route,
                      !.entries = IF @ = << >> \/ to.model # NoModel THEN Upsert(@, model, [id |-> model], Same) ELSE @])

\* Pi: an entry's own route wins over that of its provider.
PlanPi(d, to) ==
    LET model == Selected(to, d.model)
        Changed(e) == [e EXCEPT !.route = to.route]
    IN Only(model # NoModel,
            [d EXCEPT !.via = "clipal", !.model = model, !.route = to.route, !.key = Credential(@),
                      !.entries = Upsert(@, model, [id |-> model, route |-> ""], Changed)])

\* Qwen: an entry names the variable that holds its credential.
PlanQwen(d, to) ==
    LET model == Selected(to, d.model)
        at == Place(d.entries, model)
        credited == at \in DOMAIN d.entries /\ d.entries[at].key # ""
        Changed(e) == [e EXCEPT !.route = to.route, !.key = Credential(@)]
    IN Only(model # NoModel /\ d.enforced \in {"", "openai"},
            [d EXCEPT !.via = "clipal", !.model = model, !.route = to.route,
                      !.env = IF credited THEN @ ELSE Credential(@),
                      !.entries = Upsert(@, model, [id |-> model, route |-> "", key |-> ""], Changed)])

\* CodeBuddy: a variable wins over the settings; two entries with one id are
\* refused; a list of available models is extended unless it is empty.
PlanCodeBuddy(d, to) ==
    LET model == Selected(to, IF d.env # NoModel THEN d.env ELSE d.model)
        Changed(e) == [e EXCEPT !.route = to.route, !.api = "", !.key = Credential(@)]
        entries == Upsert(d.entries, model, [id |-> model, route |-> "", api |-> "", key |-> ""], Changed)
    IN Only(model # NoModel /\ Cardinality({i \in DOMAIN entries : entries[i].id = model}) = 1,
            [d EXCEPT !.model = model, !.entries = entries,
                      !.env = IF d.hasEnv THEN model ELSE @,
                      !.available = IF @ = << >> \/ model \in Range(@) THEN @ ELSE Append(@, model)])

\* DeepSeek: its catalog replaces the client's, unless overrides stand on it.
PlanDeepSeek(d, to) ==
    LET model == Selected(to, d.model)
        Same(e) == e
    IN Only(model # NoModel /\ ~d.overrides,
            [d EXCEPT !.via = "clipal", !.model = model, !.route = to.route,
                      !.entries = Upsert(@, model, [id |-> model], Same),
                      !.header = IF d.key = "" THEN Credential(@) ELSE @])

(***************************************************************************)
(* Clients with names of their own for models: TRAE, Grok, Kimi, Crush     *)
(***************************************************************************)

Clipal == <<"clipal">>
Entry(table, name, blank) == IF name \in DOMAIN table THEN table[name] ELSE blank
With(table, name, entry) == [n \in DOMAIN table \cup {name} |-> IF n = name THEN entry ELSE table[n]]

PlanTRAE(d, to) ==
    LET name == IF d.agent = NoModel THEN Clipal ELSE d.agent
        model == Selected(to, Entry(d.models, name, [model |-> NoModel, via |-> ""]).model)
    IN Only(model # NoModel,
            [d EXCEPT !.agent = name, !.models = With(@, name, [model |-> model, via |-> "clipal"]),
                      !.route = to.route, !.key = Credential(@)])

\* Grok: the default may be a name, which stands for the model it is given for.
PlanGrok(d, to) ==
    LET blank == [model |-> NoModel, route |-> "", key |-> "", keyEnv |-> FALSE]
        named == Entry(d.models, d.default, blank).model
        model == Selected(to, IF named # NoModel THEN named ELSE d.default)
        mine == Entry(d.models, Clipal, blank)
    IN Only(model # NoModel,
            [d EXCEPT !.default = Clipal,
                      !.models = With(@, Clipal, [mine EXCEPT !.model = model, !.route = to.route,
                                                               !.key = IF mine.keyEnv THEN @ ELSE Credential(@)])])

\* Kimi: a model is chosen by its name, or by the id it is sent with if only
\* one entry has it; Clipal's entry is a copy of that one, with its own
\* provider.  A model needs the size of its context: the user's, or else an
\* override's, or else the entry's.
KimiSource(d, to) ==
    LET chosen == Selected(to, d.default)
        twins == {n \in DOMAIN d.models : d.models[n].wire = chosen}
    IN IF chosen = NoModel \/ (chosen \notin DOMAIN d.models /\ Cardinality(twins) > 1) THEN {}
       ELSE IF chosen \in DOMAIN d.models THEN {d.models[chosen]}
       ELSE IF twins # {} THEN {d.models[n] : n \in twins}
       ELSE Only(to.window > 0, [wire |-> chosen, name |-> NoModel, size |-> to.window, override |-> 0])
PlanKimi(d, to) ==
    UNION {LET wire == IF source.name # NoModel THEN source.name ELSE source.wire
               size == IF to.window > 0 THEN to.window ELSE IF source.override > 0 THEN source.override ELSE source.size
               mine == Entry(d.models, Clipal, source)
               override == IF mine.override = 0 THEN source.override ELSE mine.override
               entry == [wire |-> wire, size |-> size,
                         name |-> IF mine.name = NoModel /\ source.name = NoModel THEN NoModel ELSE wire,
                         override |-> IF override > 0 /\ to.window > 0 THEN to.window ELSE override]
           IN Only(wire # NoModel /\ size > 0,
                   [d EXCEPT !.default = Clipal, !.models = With(@, Clipal, entry), !.route = to.route,
                             !.key = IF d.keyElsewhere THEN @ ELSE Credential(@)]) : source \in KimiSource(d, to)}

\* Crush: two slots, each of which takes what is known of its model along from
\* the provider it had.  A script or a machine state that wins is left alone.
CrushCatalog(d, slot, id) ==
    LET known == {e \in d.other : e.id = id /\ slot.via = "other"}
        Same(e) == e
        blank == IF known = {} THEN [id |-> id, about |-> ""] ELSE CHOOSE e \in known : TRUE
    IN [d EXCEPT !.entries = Upsert(@, id, blank, Same)]
PlanCrush(d, to) ==
    LET large == Selected(to, d.large.model)
        small == IF d.small.model = NoModel THEN large ELSE d.small.model
        catalog == CrushCatalog(CrushCatalog(d, d.large, large), d.small, small)
    IN Only(large # NoModel /\ ~d.script /\ ~d.stateWins,
            [catalog EXCEPT !.large = [via |-> "clipal", model |-> large], !.small = [via |-> "clipal", model |-> small],
                            !.route = to.route, !.disabled = FALSE, !.key = IF d.oauth THEN @ ELSE Credential(@)])

(***************************************************************************)
(* Clients that are set up by the shell: Antigravity, Copilot              *)
(***************************************************************************)

Start == <<"start">>
End == <<"end">>
Blank == <<"">>
IndicesOf(lines, line) == {i \in DOMAIN lines : lines[i] = line}

NotBlank(line) == line # Blank
Trimmed(lines) == SubSeq(lines, 1, SelectLastInSeq(lines, NotBlank))

\* managedShellBlock: the block moves to the end; one that is broken or there
\* twice is refused.
ManagedShellBlock(lines, exports) ==
    LET starts == IndicesOf(lines, Start)
        ends == IndicesOf(lines, End)
        whole == Cardinality(starts) = 1 /\ Cardinality(ends) = 1 /\ \A i \in starts, j \in ends : i < j
        kept == IF starts = {} THEN lines
                ELSE SubSeq(lines, 1, Max(starts) - 1) \o SubSeq(lines, Max(ends) + 1, Len(lines))
        prefix == Trimmed(kept)
    IN IF (starts \cup ends # {}) /\ ~whole THEN {}
       ELSE {prefix \o (IF prefix = << >> THEN << >> ELSE <<Blank>>) \o <<Start>> \o exports \o <<End>>}

\* Every profile that a shell of the user may read, or none of them.
PlanProfiles(d, exports) ==
    {[d EXCEPT !.profiles = p] :
        p \in {q \in [DOMAIN d.profiles -> UNION {ManagedShellBlock(d.profiles[i], exports) : i \in DOMAIN d.profiles}] :
                  \A i \in DOMAIN q : q[i] \in ManagedShellBlock(d.profiles[i], exports)}}
PlanAntigravity(d, to) == PlanProfiles([d EXCEPT !.via = "gemini"], <<<<"route", to.route>>>>)
PlanCopilot(d, to) ==
    IF to.model = NoModel \/ d.registry THEN {}
    ELSE PlanProfiles(d, <<<<"route", to.route>>, <<"model">> \o to.model, <<"unset">>>>)

(***************************************************************************)
(* OpenCode and Kilo: the user's files in the order in which the client    *)
(* merges them, of which one is changed.  A layer's models are the entries *)
(* [provider, id] with the id they are sent with, "" if it is their own.   *)
(***************************************************************************)

\* The last layer that says something decides.
LastSaid(layers, Said(_), nothing) ==
    LET at == SelectLastInSeq(layers, LAMBDA l : Said(l) # nothing)
    IN IF at = 0 THEN nothing ELSE Said(layers[at])
Effective(layers) ==
    [model |-> LastSaid(layers, LAMBDA l : l.model, NoModel), small |-> LastSaid(layers, LAMBDA l : l.small, NoModel),
     route |-> LastSaid(layers, LAMBDA l : l.route, ""), key |-> LastSaid(layers, LAMBDA l : l.key, ""),
     list |-> LastSaid(layers, LAMBDA l : l.list, "")]
Wire(layers, entry) == LastSaid(layers, LAMBDA l : Entry(l.models, entry, ""), "")
Declared(layers, entry) == \E i \in DOMAIN layers : entry \in DOMAIN layers[i].models

\* inferOpenCodeModel: "provider/id", or an id alone.
IdOf(selection) == IF Len(selection) > 1 THEN Tail(selection) ELSE selection
\* What is already said of a model that Clipal is going to serve.
Inherited(layers, selection, id) ==
    IF Declared(layers, Clipal \o id) THEN Wire(layers, Clipal \o id)
    ELSE IF Len(selection) > 1 /\ Tail(selection) = id THEN Wire(layers, selection) ELSE ""

\* Mutant: only the choice of the model is compared.
RouteShadowOfModel(layers, target) == layers[target].model # Effective(layers).model
\* openCodeRouteShadow: a later layer would undo the plan.
RouteShadow(layers, target) ==
    \E mine \in {layers[target]}, e \in {Effective(layers)} :
       \/ mine.model # e.model \/ (mine.small # NoModel /\ mine.small # e.small)
       \/ mine.route # e.route \/ (mine.key # "" /\ mine.key # e.key)
       \/ \E m \in {mine.model, mine.small} \ {NoModel} :
            Entry(mine.models, m, "") # "" /\ Wire(layers, m) # mine.models[m]

PlanOpenCode(d, to) ==
    LET now == Effective(d.layers)
        primary == Selected(to, IdOf(now.model))
        small == IdOf(now.small)
        slots == SelectSeq(<<[selection |-> now.model, id |-> primary], [selection |-> now.small, id |-> small]>>,
                           LAMBDA slot : slot.id # NoModel)
        Merged(models, slot) ==
            LET entry == Clipal \o slot.id
                local == Entry(models, entry, "")
            IN With(models, entry, IF local = "" THEN Inherited(d.layers, slot.selection, slot.id) ELSE local)
        Chosen(models) == IF to.model = NoModel THEN models ELSE With(models, Clipal \o primary, "itself")
        Planned(mine) ==
            [mine EXCEPT !.model = Clipal \o primary, !.small = IF small = NoModel THEN @ ELSE Clipal \o small,
                         !.route = to.route, !.key = IF now.key = "" THEN "clipal" ELSE @,
                         !.models = Chosen(FoldLeft(Merged, @, slots))]
    IN IF primary = NoModel \/ now.list = "bars" THEN {}
       ELSE {[d EXCEPT !.layers = layers] :
                layers \in {l \in {[d.layers EXCEPT ![d.target] = Planned(@)]} : ~RouteShadow(l, d.target)}}

\* productDefinitions: the planner of each client.
Plan(product, d, to) ==
    CASE product = "claude" -> PlanClaude(d, to) [] product = "codex" -> PlanCodex(d, to)
      [] product = "opencode" -> PlanOpenCode(d, to) [] product = "antigravity" -> PlanAntigravity(d, to)
      [] product = "continue" -> PlanContinue(d, to) [] product = "aider" -> PlanAider(d, to)
      [] product = "goose" -> PlanGoose(d, to) [] product = "pi" -> PlanPi(d, to)
      [] product = "qwen" -> PlanQwen(d, to) [] product = "kimi" -> PlanKimi(d, to)
      [] product = "copilot" -> PlanCopilot(d, to) [] product = "codebuddy" -> PlanCodeBuddy(d, to)
      [] product = "crush" -> PlanCrush(d, to) [] product = "iflow" -> PlanIFlow(d, to)
      [] product = "trae" -> PlanTRAE(d, to) [] product = "grok" -> PlanGrok(d, to)
      [] product = "deepseek-harness" -> PlanDeepSeek(d, to)
=============================================================================
