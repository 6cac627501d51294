----------------------------- MODULE ConfigFiles -----------------------------
(***************************************************************************)
(* The configuration Clipal keeps in its files: one file of providers for  *)
(* each client and one global file.  Every change made in the web UI reads *)
(* the files, changes what was read, validates the whole, writes one file  *)
(* in Clipal's own form and has the running proxies take it up; when they  *)
(* cannot, the file is put back.  Whoever edits a file by hand writes any  *)
(* form that loads.  How a running proxy notices a changed file is the     *)
(* subject of ConfigReload.                                                *)
(*                                                                         *)
(* Texts are compared and never taken apart: white space around a value is *)
(* left out, a duration or size is a number and -1 one that does not parse.*)
(***************************************************************************)
EXTENDS Integers, Sequences, SequencesExt, FiniteSetsExt

CONSTANTS Clients,       \* the clients whose files are edited
          None,          \* a field that a request or a file leaves out
          MinTimeout,    \* the least time-out and
          MinBody,       \* the least size limit that the program runs with
          HandWritten,   \* the client files and
          HandWrittenGlobals, \* the global files that an editor writes
          CreateRequests, \* what the web UI asks for a new provider
          UpdateRequests, \* and for one that is there
          ClientRequests, \* the modes and pins it asks for
          Orders,        \* the orders of providers it asks for
          GlobalChanges, \* the global settings it changes, each as a function of some fields
          MaxEdits       \* bound: changes in one behaviour

VARIABLES client,        \* the client whose file is looked at
          file,          \* that file, as it stands on the disk
          globalFile,    \* config.yaml
          inForce,       \* what the proxies run with: [cc, global]
          last,          \* the last change: [op, name, req, answer]
          edits

vars == <<client, file, globalFile, inForce, last, edits>>

Refused == "refused"
OverrideKinds == {"model", "openai", "claude", "google"}
NoOverrides == [k \in OverrideKinds |-> None]

(***************************************************************************)
(* Loading                                                                 *)
(***************************************************************************)

\* What f makes of each element.
Each(f(_), s) == << >> \o [i \in DOMAIN s |-> f(s[i])]

\* The keys in their order, each once and none blank.
Deduped(keys) ==
    LET first(i) == keys[i] # "" /\ \A j \in 1 .. i - 1 : keys[j] # keys[i]
    IN Each(LAMBDA i : keys[i], SelectSeq([i \in DOMAIN keys |-> i], first))
NormalizedAPIKeys(p) == Deduped(<<p.key>> \o p.keys)
AssignKeys(p, keys) ==
    [p EXCEPT !.key = IF Len(keys) = 1 THEN keys[1] ELSE "", !.keys = IF Len(keys) > 1 THEN keys ELSE << >>]

UsesOAuth(p) == p.auth = "oauth"
NormalizeProviderAuthSettings(p) ==
    LET auth == IF p.auth = "" THEN "api_key" ELSE p.auth
    IN IF auth = "oauth" THEN [p EXCEPT !.auth = auth] ELSE [p EXCEPT !.auth = auth, !.kind = "", !.ref = ""]
NormalizeProviderProxySettings(p) == [p EXCEPT !.proxyMode = IF @ = "" THEN "default" ELSE @]
NormalizeProviderOverrides(o) == [k \in OverrideKinds |-> IF o[k] = "" THEN None ELSE o[k]]
IsEnabled(p) == p.enabled # FALSE

Defaulted(p) ==
    LET q == NormalizeProviderProxySettings(NormalizeProviderAuthSettings(p))
    IN AssignKeys([q EXCEPT !.priority = IF @ = 0 THEN 1 ELSE @, !.overrides = NormalizeProviderOverrides(@)], NormalizedAPIKeys(p))

\* Providers of the login that is no longer offered are left out, and with them their pin.
Retired(p) == UsesOAuth(p) /\ p.kind = "gemini"
WithoutRetired(cc) ==
    LET unpinned == \E i \in DOMAIN cc.providers : Retired(cc.providers[i]) /\ cc.providers[i].name = cc.pin
    IN [mode |-> IF unpinned THEN "auto" ELSE cc.mode, pin |-> IF unpinned THEN "" ELSE cc.pin,
        providers |-> SelectSeq(cc.providers, LAMBDA p : ~Retired(p))]

SortProviders(ps) ==
    LET before(i, j) == ps[i].priority < ps[j].priority \/ (ps[i].priority = ps[j].priority /\ i < j)
    IN Each(LAMBDA i : ps[i], SortSeq([i \in DOMAIN ps |-> i], before))
LoadClient(f) ==
    LET cc == WithoutRetired(f)
    IN [cc EXCEPT !.mode = IF @ = "" THEN "auto" ELSE @,
                  !.providers = SortProviders(Each(Defaulted, cc.providers))]

AtLeast(least, n) == IF n < least THEN least ELSE n
EnforceRuntimeMinimums(g) ==
    LET raised(n) == IF n \in {-1, 0} THEN n ELSE AtLeast(MinTimeout, n)
    IN [g EXCEPT !.idle = raised(@), !.header = raised(@), !.body = AtLeast(MinBody, @)]
LoadGlobal(g) == EnforceRuntimeMinimums([g EXCEPT !.proxyMode = IF @ = "" THEN "environment" ELSE @])

Loaded(f, g) == [cc |-> LoadClient(f), global |-> LoadGlobal(g)]
Load == Loaded(file, globalFile)

(***************************************************************************)
(* Validating                                                              *)
(***************************************************************************)

ProxyURLs == {"", "http", "socks5"}
ProxyAllowed(plain, mode, url) == (mode \in plain /\ url = "") \/ (mode = "custom" /\ url \in ProxyURLs \ {""})

ValidateClientConfig(cc) ==
    /\ cc.mode \in {"auto", "manual"}
    /\ cc.mode = "manual" => \E i \in DOMAIN cc.providers : cc.providers[i].name = cc.pin /\ IsEnabled(cc.providers[i])

KindFor == [openai |-> "codex", google |-> "antigravity", claude |-> "claude"]

\* The test for google repeats the one for no overrides, so none is ever allowed there.
ProviderOverridesSupportedForClient(o) ==
    \/ o = NoOverrides
    \/ client = "openai" /\ o["claude"] = None
    \/ client = "claude" /\ o["openai"] = None
EffortLevels == {"low", "medium", "high", "max", "xhigh"}

ValidateProvider(p) ==
    /\ p.name # "" /\ p.priority >= 1
    /\ p.auth \in {"api_key", "oauth"}
    /\ p.key = "" \/ p.keys = << >>
    /\ IF UsesOAuth(p)
       THEN NormalizedAPIKeys(p) = << >> /\ p.kind = KindFor[client] /\ p.ref # "" /\ p.base = ""
       ELSE p.base # "" /\ NormalizedAPIKeys(p) # << >> /\ p.kind = "" /\ p.ref = ""
    /\ ProxyAllowed({"default", "direct"}, p.proxyMode, p.proxyURL)
    /\ ProviderOverridesSupportedForClient(p.overrides)
    /\ p.overrides["claude"] \in EffortLevels \cup {None}
ValidateProviders(ps) == (\A i \in DOMAIN ps : ValidateProvider(ps[i])) /\ IsInjective([i \in DOMAIN ps |-> ps[i].name])

ValidateGlobal(g) ==
    /\ g.listen = "loopback" \/ (g.listen = "remote" /\ g.allowRemote)
    /\ g.port \in 1 .. 65535
    /\ g.body >= 1 /\ g.retention >= 0
    /\ g.level \in {"debug", "info", "warn", "error"}
    /\ \A d \in {g.reactivate, g.idle, g.header} : d >= 0
    /\ ProxyAllowed({"environment", "direct"}, g.proxyMode, g.proxyURL)
    /\ g.failures >= 0 /\ g.successes >= 0 /\ g.halfOpen >= 0
    /\ g.failures > 0 => g.successes > 0 /\ g.halfOpen > 0 /\ g.openTimeout > 0
    /\ g.sticky => g.stickyTTL = None \/ g.stickyTTL > 0
    /\ g.busy => g.delays # << >> /\ \A i \in DOMAIN g.delays : g.delays[i] > 0

Valid(config) == ValidateGlobal(config.global) /\ ValidateClientConfig(config.cc) /\ ValidateProviders(config.cc.providers)

(***************************************************************************)
(* Writing                                                                 *)
(***************************************************************************)

\* What a written provider reads back as; a level that is not one of Claude's is left out.
FormatProvider(p) ==
    [AssignKeys(p, NormalizedAPIKeys(p)) EXCEPT
        !.enabled = IsEnabled(p), !.proxyURL = IF p.proxyMode = "custom" THEN @ ELSE "",
        !.overrides["claude"] = IF @ \in EffortLevels THEN @ ELSE None]
\* The pin is the one name that is written without quotes: "null" reads back as nothing.
FormatClientConfig(cc) ==
    [mode |-> cc.mode, pin |-> IF cc.pin = "null" THEN "" ELSE cc.pin, providers |-> Each(FormatProvider, SortProviders(cc.providers))]

Answered(op, name, req, answer) == last' = [op |-> op, name |-> name, req |-> req, answer |-> answer]
Refuse(op, name, req) == Answered(op, name, req, Refused) /\ UNCHANGED <<file, globalFile, inForce>>

\* saveClientConfigOrWriteError: nothing is written that does not validate; what
\* was written is loaded again, and put back when it does not.
SaveClientConfig(op, name, req, cc) ==
    LET written == FormatClientConfig(cc)
        loaded == [Load EXCEPT !.cc = LoadClient(written)]
    IN IF Valid([Load EXCEPT !.cc = cc]) /\ Valid(loaded)
       THEN file' = written /\ inForce' = loaded /\ Answered(op, name, req, "done") /\ UNCHANGED globalFile
       ELSE Refuse(op, name, req)
SaveGlobalConfig(req, g) ==
    LET raised == EnforceRuntimeMinimums(g)
        loaded == [Load EXCEPT !.global = LoadGlobal(raised)]
    IN IF Valid([Load EXCEPT !.global = raised])
       THEN globalFile' = raised /\ inForce' = loaded /\ Answered("global", "", req, "done") /\ UNCHANGED file
       ELSE Refuse("global", "", req)

(***************************************************************************)
(* Changes to a provider                                                   *)
(***************************************************************************)

\* A request that changes nothing.
NoChange ==
    [name |-> "", base |-> "", key |-> "", keys |-> << >>, auth |-> "", kind |-> "", ref |-> "",
     proxyMode |-> None, proxyURL |-> None, priority |-> None, enabled |-> None, overrides |-> NoOverrides]
ProviderRequestUsesOAuth(req) == req.auth = "oauth" \/ req.kind # "" \/ req.ref # ""
IsOAuthEnabledOnlyUpdate(req) == req.enabled # None /\ [req EXCEPT !.enabled = None] = NoChange

\* Overrides that the client's protocol has no place for, or with a level it does not know.
ValidateProviderOverrideRequest(o) ==
    /\ \A k \in OverrideKinds \ {"model", client} : o[k] = None
    /\ o["claude"] \in EffortLevels \cup {None, ""}
    /\ o["google"] \in {"minimal", "low", "medium", "high"} \cup {None}
NameAllowed(name) == name # "bad/name"
KeysGiven(req) == Deduped(<<req.key>> \o req.keys)
WellFormed(req) ==
    /\ ValidateProviderOverrideRequest(req.overrides)
    /\ req.key = "" \/ req.keys = << >>
    /\ NameAllowed(req.name)
    /\ req.priority # None => req.priority >= 1

ApplyProviderOverrides(p, req) ==
    [p EXCEPT !.overrides = NormalizeProviderOverrides([k \in OverrideKinds |-> IF req.overrides[k] = None THEN @[k] ELSE req.overrides[k]])]

\* The settings of a proxy that a request gives, over those that are there.
ProxyPatched(plain, current, req) ==
    LET url == IF req.proxyURL = None THEN current.proxyURL ELSE req.proxyURL
    IN CASE req.proxyMode = None /\ req.proxyURL = None -> current
         [] req.proxyMode \in plain /\ (req.proxyURL = None \/ url = "") -> [current EXCEPT !.proxyMode = req.proxyMode, !.proxyURL = ""]
         [] req.proxyMode = "custom" /\ url \in ProxyURLs \ {""} -> [current EXCEPT !.proxyMode = "custom", !.proxyURL = url]
         [] OTHER -> None
ApplyProviderProxySettings(p, req) == ProxyPatched({"default", "direct"}, p, req)
ApplyUpstreamProxySettings(g, req) == ProxyPatched({"environment", "direct"}, g, req)

ValidateProviderCredentialSource(p) ==
    IF UsesOAuth(p) THEN NormalizedAPIKeys(p) = << >> /\ p.kind = KindFor[client] /\ p.ref # "" /\ p.base = ""
    ELSE p.auth = "api_key" /\ p.base \notin {"", "ftp"} /\ NormalizedAPIKeys(p) # << >> /\ p.kind = "" /\ p.ref = ""

ProviderFromCreateRequest(req, priority) ==
    LET p == [name |-> req.name, base |-> req.base, key |-> "", keys |-> << >>, auth |-> req.auth, kind |-> req.kind, ref |-> req.ref,
              proxyMode |-> "default", proxyURL |-> "", priority |-> priority, enabled |-> req.enabled, overrides |-> NoOverrides]
        q == ApplyProviderProxySettings(ApplyProviderOverrides(p, req), req)
    IN IF q = None THEN None ELSE NormalizeProviderAuthSettings(AssignKeys(q, KeysGiven(req)))

MergeProviderUpdate(p, req) ==
    LET given(new, old) == IF new = "" THEN old ELSE new
        set(new, old) == IF new = None THEN old ELSE new
        q == [p EXCEPT !.name = given(req.name, @), !.base = given(req.base, @), !.auth = given(req.auth, @), !.kind = given(req.kind, @),
                       !.ref = given(req.ref, @), !.priority = set(req.priority, @), !.enabled = set(req.enabled, @)]
        keyed == IF req.key # "" \/ req.keys # << >> THEN AssignKeys(q, KeysGiven(req)) ELSE q
        r == ApplyProviderProxySettings(ApplyProviderOverrides(keyed, req), req)
    IN IF r = None THEN None ELSE NormalizeProviderAuthSettings(r)

Named(ps, name) == {i \in DOMAIN ps : ps[i].name = name}
ProviderNameExists(ps, name) == Named(ps, name) # {}
NextProviderPriority(ps) == Max({0} \cup {ps[i].priority : i \in DOMAIN ps}) + 1

HandleAddProvider(req) ==
    LET cc == LoadClient(file)
        priority == IF req.priority = None THEN NextProviderPriority(cc.providers) ELSE req.priority
        p == ProviderFromCreateRequest(req, priority)
    IN IF /\ WellFormed(req) /\ ~ProviderRequestUsesOAuth(req)
          /\ req.name # "" /\ ~ProviderNameExists(cc.providers, req.name)
          /\ p # None /\ (p # None => ValidateProviderCredentialSource(p))
       THEN SaveClientConfig("add", req.name, req, [cc EXCEPT !.providers = Append(@, p)])
       ELSE Refuse("add", req.name, req)

HandleUpdateProvider(name, req) ==
    LET cc == LoadClient(file)
        i == CHOOSE j \in Named(cc.providers, name) : \A k \in Named(cc.providers, name) : j <= k
        p == MergeProviderUpdate(cc.providers[i], req)
    IN IF /\ WellFormed(req) /\ ProviderNameExists(cc.providers, name)
          /\ IF UsesOAuth(cc.providers[i]) THEN IsOAuthEnabledOnlyUpdate(req) ELSE ~ProviderRequestUsesOAuth(req)
          /\ req.name \in {"", name} \/ ~ProviderNameExists(cc.providers, req.name)
          /\ p # None /\ (p # None => ValidateProviderCredentialSource(p))
       THEN SaveClientConfig("update", name, req, [cc EXCEPT !.providers[i] = p])
       ELSE Refuse("update", name, req)

\* Mutant: the pin stays when its provider is deleted.
PinStays(cc, name) == cc
NormalizeAfterProviderDeletion(cc, name) == IF cc.pin = name THEN [cc EXCEPT !.pin = "", !.mode = IF @ = "manual" THEN "auto" ELSE @] ELSE cc

\* The credential that only this provider used is deleted with it: AccountLinking.
HandleDeleteProvider(name) ==
    LET cc == LoadClient(file)
        i == CHOOSE j \in Named(cc.providers, name) : \A k \in Named(cc.providers, name) : j <= k
    IN IF ProviderNameExists(cc.providers, name)
       THEN SaveClientConfig("delete", name, None, NormalizeAfterProviderDeletion([cc EXCEPT !.providers = RemoveAt(@, i)], name))
       ELSE Refuse("delete", name, None)

\* The named providers first, in the order asked for, and then the others as they are.
Reordered(ps, order) ==
    LET at(name) == CHOOSE i \in Named(ps, name) : TRUE
        moved == Each(LAMBDA name : ps[at(name)], order) \o SelectSeq(ps, LAMBDA p : ~Contains(order, p.name))
    IN << >> \o [i \in DOMAIN moved |-> [moved[i] EXCEPT !.priority = i]]
HandleReorderProviders(order) ==
    LET cc == LoadClient(file)
    IN IF /\ IsInjective(order) /\ IsInjective([i \in DOMAIN cc.providers |-> cc.providers[i].name])
          /\ \A i \in DOMAIN order : ProviderNameExists(cc.providers, order[i])
       THEN SaveClientConfig("reorder", "", order, [cc EXCEPT !.providers = Reordered(@, order)])
       ELSE Refuse("reorder", "", order)

HandleUpdateClientConfig(req) ==
    SaveClientConfig("client", "", req, [LoadClient(file) EXCEPT !.mode = req.mode, !.pin = req.pin])

(***************************************************************************)
(* Changes to the global settings                                          *)
(***************************************************************************)

\* The request names every setting it shows; what the web UI does not show
\* (the delays of a busy provider) stays, as does what the request leaves out.
HandleUpdateGlobalConfig(change) ==
    LET g == LoadGlobal(globalFile)
        kept == {f \in DOMAIN change : change[f] = None} \cup {"proxyMode", "proxyURL"}
        asked == [f \in DOMAIN g |-> IF f \in DOMAIN change \ kept THEN change[f] ELSE g[f]]
        new == IF {"proxyMode", "proxyURL"} \subseteq DOMAIN change THEN ApplyUpstreamProxySettings(asked, change) ELSE asked
    IN IF new = None THEN Refuse("global", "", change) ELSE SaveGlobalConfig(change, new)

(***************************************************************************)

\* Someone edits a file, between two requests; the proxies still run with the last one.
EditFile ==
    /\ \/ file' \in HandWritten /\ UNCHANGED globalFile
       \/ globalFile' \in HandWrittenGlobals /\ UNCHANGED file
    /\ Answered("editor", "", None, "done") /\ UNCHANGED inForce

Init ==
    /\ client \in Clients
    /\ file \in HandWritten /\ globalFile \in HandWrittenGlobals
    /\ inForce = Load /\ Valid(inForce)
    /\ last = [op |-> "start", name |-> "", req |-> None, answer |-> "done"]
    /\ edits = 0

Names == {file.providers[i].name : i \in DOMAIN file.providers}
Change ==
    \/ \E req \in CreateRequests : HandleAddProvider(req)
    \/ \E req \in UpdateRequests, name \in Names : HandleUpdateProvider(name, req)
    \/ \E name \in Names : HandleDeleteProvider(name)
    \/ \E order \in Orders : HandleReorderProviders(order)
    \/ \E req \in ClientRequests : HandleUpdateClientConfig(req)
    \/ \E change \in GlobalChanges : HandleUpdateGlobalConfig(change)
    \/ EditFile
Next == edits < MaxEdits /\ edits' = edits + 1 /\ Change /\ UNCHANGED client
Spec == Init /\ [][Next]_vars

(***************************************************************************)
(* Properties                                                              *)
(***************************************************************************)

\* A provider is switched on when the file does not say.
ProviderList(cc) == Each(LAMBDA p : [p EXCEPT !.enabled = IsEnabled(p)], cc.providers)
ProviderSet(cc) == Range(ProviderList(cc))
ByName(cc, name) == CHOOSE p \in ProviderSet(cc) : p.name = name
Unnumbered(cc) == {[p EXCEPT !.priority = 0] : p \in ProviderSet(cc)}

\* A provider has the fields that were given, and in the others is as before.
Carries(p, req, before) ==
    /\ p.name = IF req.name = "" THEN before.name ELSE req.name
    /\ p.base = IF req.base = "" THEN before.base ELSE req.base
    /\ NormalizedAPIKeys(p) = IF KeysGiven(req) = << >> THEN NormalizedAPIKeys(before) ELSE KeysGiven(req)
    /\ p.priority = IF req.priority = None THEN before.priority ELSE req.priority
    /\ IsEnabled(p) = IF req.enabled = None THEN IsEnabled(before) ELSE req.enabled
    /\ \A k \in OverrideKinds :
         p.overrides[k] = CASE req.overrides[k] = None -> before.overrides[k] [] req.overrides[k] = "" -> None [] OTHER -> req.overrides[k]
    /\ p.proxyMode = IF req.proxyMode = None THEN before.proxyMode ELSE req.proxyMode
    /\ p.proxyURL = CASE p.proxyMode # "custom" -> "" [] req.proxyURL = None -> before.proxyURL [] OTHER -> req.proxyURL
    /\ <<p.auth, p.kind, p.ref>> = <<before.auth, before.kind, before.ref>>

\* What a change that was answered as done has made of the client's providers.
Honoured(op, name, req, b, a) ==
    CASE op = "add" ->
           /\ <<a.mode, a.pin>> = <<b.mode, b.pin>>
           /\ \E p \in ProviderSet(a) :
                /\ ProviderSet(a) = ProviderSet(b) \cup {p} /\ p \notin ProviderSet(b)
                /\ Carries(p, req, [p EXCEPT !.overrides = NoOverrides, !.proxyMode = "default", !.enabled = TRUE])
                /\ req.priority = None => p = Last(ProviderList(a))
      [] op = "reorder" -> Unnumbered(a) = Unnumbered(b) /\ IsPrefix(req, [i \in DOMAIN a.providers |-> a.providers[i].name])
                           /\ <<a.mode, a.pin>> = <<b.mode, b.pin>>
      [] op = "client" -> ProviderList(a) = ProviderList(b) /\ a.mode = req.mode /\ (a.pin = req.pin \/ req.pin = "null")
      [] op = "global" -> ProviderList(a) = ProviderList(b) /\ <<a.mode, a.pin>> = <<b.mode, b.pin>>
      [] OTHER ->
           LET old == ByName(b, name)
               others == ProviderSet(b) \ {old}
               unpins == op = "delete" /\ b.pin = name
           IN /\ IF op = "delete" THEN ProviderSet(a) = others
                 ELSE \E p \in ProviderSet(a) : ProviderSet(a) = others \cup {p} /\ p \notin others /\ Carries(p, req, old)
              /\ <<a.mode, a.pin>> = IF unpins THEN <<"auto", "">> ELSE <<b.mode, b.pin>>

\* What a change to the global settings has made of them.
GlobalHonoured(change, b, a) ==
    \A f \in DOMAIN b :
        LET asked == IF f \in DOMAIN change THEN change[f] ELSE None
        IN CASE asked = None -> a[f] = b[f] \/ (f = "proxyURL" /\ a.proxyMode # "custom")
             [] f \in {"idle", "header"} -> a[f] >= asked /\ (asked = 0 => a[f] = 0)
             [] f = "body" -> a[f] >= asked
             [] OTHER -> a[f] = asked

\* The handlers of web/api.go and saveClientConfigOrWriteError: a change that was
\* answered as done is in force and on the disk, does what was asked for and
\* nothing else, whatever the files held; one that was refused has changed
\* neither; and to delete a provider is never refused.
HonestAnswer ==
    \A before \in {Load}, after \in {inForce'}, f \in {file'}, g \in {globalFile'} :
         LET op == last'.op  done == last'.answer = "done"
             sound == Valid(before) /\ before.cc.pin # "null"
         IN /\ ~done => UNCHANGED <<file, globalFile, inForce>>
            /\ done /\ op # "editor" =>
                 /\ after = Loaded(f, g) /\ Valid(after)
                 /\ Honoured(op, last'.name, last'.req, before.cc, after.cc)
                 /\ IF op = "global" THEN GlobalHonoured(last'.req, before.global, after.global) ELSE after.global = before.global
            /\ op = "delete" /\ sound /\ ProviderNameExists(before.cc.providers, last'.name) => done

\* docs/en/config-reference.md:202 and providerOverrideSupportForClient: a
\* provider of the google client may be given a thinking level.
ThinkingLevelIsTaken ==
    [][/\ client = "google" /\ Valid(Load)
       /\ last'.op = "update" /\ last'.req = [NoChange EXCEPT !.overrides["google"] = "low"]
       /\ \E p \in ProviderSet(Load.cc) : p.name = last'.name /\ ~UsesOAuth(p)
       => last'.answer = "done"]_vars
=============================================================================
