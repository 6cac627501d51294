--------------------------- MODULE ProxyGenerations ---------------------------
(***************************************************************************)
(* What a configuration reload does to the runtime state of a client group *)
(* (internal/proxy/proxy.go 268-367 and 871-1142) while requests keep the  *)
(* ClientProxy they were dispatched to, and what manual mode does with it. *)
(*                                                                         *)
(* A generation is one ClientProxy.  A reload builds a new one, copies to  *)
(* it whatever belongs to providers that are still the same, and makes it  *)
(* the live one; the old one stays reachable for the requests on it.  Of   *)
(* forwarding, only what reads or writes the inherited state is here: a    *)
(* request walks its providers and keys as module Failover describes in    *)
(* detail, with the reads of one walk in one step.                         *)
(*                                                                         *)
(* Times are ticks left; a penalty and a busy mark last one tick.          *)
(***************************************************************************)
EXTENDS CircuitBreaker, StickyTables

CONSTANTS
    Slots,          \* bound: generations that can be reachable at once
    MaxReloads,     \* bound: reloads
    Requests,       \* bound: the requests, each sent once
    ScopeOf,        \* [Requests -> scope], routingScopeForRequest
    Configs,        \* configurations of the group (see Config below)
    Conversations   \* what requests say: bodies with the id of their answer

\* A configuration: [mode, pinned, breaker, providers], its enabled providers
\* a sequence of [name, ident, keys]; ident stands for what
\* sameProviderRuntimeIdentity compares beside the name, breaker for cbCfg.
Scopes == {ScopeOf[r] : r \in Requests}

\* Names are unique (config.go 1230), and so are the keys of a provider (652).
IsConfig(c) ==
    /\ c.providers \in Seq(Range(c.providers))
    /\ \A i, j \in DOMAIN c.providers : c.providers[i].name = c.providers[j].name => i = j
    /\ \A i \in DOMAIN c.providers :
           LET keys == c.providers[i].keys IN
           keys # <<>> /\ keys \in Seq(Range(keys)) /\ IsInjective(keys)

ASSUME GenerationsAssumption ==
    /\ Slots # {} /\ Configs # {} /\ Conversations # {}
    /\ ScopeOf \in [Requests -> Nat]
    /\ \A c \in Configs : IsConfig(c)
    /\ \A said \in Conversations :
           RequestStickyKey(said.body).key \in Nat /\ LearningStickyKey(said.body).key \in Nat

VARIABLES
    gen,    \* gen[g]: the proxy in slot g, or NoProxy
    live,   \* the slot Router.proxies points to
    req,    \* the requests
    reloads \* how many reloads there have been
vars == <<gen, live, req, reloads>>

NoProxy == [config |-> [mode |-> "none", pinned |-> "", breaker |-> "", providers |-> <<>>]]

Providers(p) == DOMAIN p.config.providers
KeysOf(p, i) == DOMAIN p.config.providers[i].keys
Name(p, i)   == p.config.providers[i].name
NotBusy      == [left |-> 0, probes |-> 0]

\* providerIndexByName, 0 when there is none.
IndexByName(providers, name) ==
    IF \E i \in DOMAIN providers : providers[i].name = name
    THEN CHOOSE i \in DOMAIN providers : providers[i].name = name
    ELSE 0

(***************************************************************************)
(* newClientProxyWithGlobalProxy.                                          *)
(***************************************************************************)
PinnedIndex(c) == IF c.mode = "manual" THEN IndexByName(c.providers, c.pinned) ELSE 0

NewProxy(c) ==
    LET ps == DOMAIN c.providers
        first == IF PinnedIndex(c) # 0 THEN PinnedIndex(c) ELSE 1
    IN  [ config |-> c,
          out    |-> [i \in ps |-> 0],
          busy   |-> [i \in ps |-> NotBusy],
          keyOut |-> [i \in ps |-> [k \in DOMAIN c.providers[i].keys |-> 0]],
          cur    |-> [s \in Scopes |-> first],
          keyCur |-> [s \in Scopes |-> [i \in ps |-> 1]],
          brk    |-> [i \in ps |-> NewBreaker],
          sticky |-> NoTables ]

(***************************************************************************)
(* inheritRuntimeState and what it calls.                                  *)
(***************************************************************************)
SameRuntimeIdentity(p, q) == p.name = q.name /\ p.ident = q.ident

\* newByOldIndex: the old index of every provider that lives on, to its new one.
NewByOldIndex(new, old) ==
    LET oldOf(i) == IndexByName(old.config.providers, Name(new, i))
        kept == {i \in Providers(new) : oldOf(i) # 0
                    /\ SameRuntimeIdentity(new.config.providers[i], old.config.providers[oldOf(i)])}
    IN  [o \in {oldOf(i) : i \in kept} |-> CHOOSE i \in kept : oldOf(i) = o]

\* Mutant: keys are matched by position.
OldKeyAtSamePlace(new, i, old, o, k) == IF k \in KeysOf(old, o) THEN k ELSE 0

\* The first index of a key's value in the old list, 0 when it is new.
OldKeyIndex(new, i, old, o, k) ==
    LET same == {j \in KeysOf(old, o) : old.config.providers[o].keys[j] = new.config.providers[i].keys[k]}
    IN  IF same = {} THEN 0 ELSE CHOOSE j \in same : \A h \in same : j <= h

\* inheritKeyState.
InheritKeyOut(new, i, old, o) ==
    [k \in KeysOf(new, i) |->
        LET j == OldKeyIndex(new, i, old, o, k) IN IF j # 0 THEN old.keyOut[o][j] ELSE new.keyOut[i][k]]

InheritKeyCursor(new, i, old, o, s) ==
    LET moved == {k \in KeysOf(new, i) : OldKeyIndex(new, i, old, o, k) # 0
                                         /\ OldKeyIndex(new, i, old, o, k) = old.keyCur[s][o]}
    IN  IF moved = {} THEN new.keyCur[s][i] ELSE CHOOSE k \in moved : \A h \in moved : h <= k

\* inheritBreakerState: everything, the probes in flight included.
InheritBreaker(new, i, old, o) ==
    IF new.config.breaker # old.config.breaker THEN new.brk[i] ELSE old.brk[o]

InheritCursor(new, old, s) ==
    LET i == IndexByName(new.config.providers, Name(old, old.cur[s])) IN
    IF new.config.mode = "manual" \/ i = 0 THEN new.cur[s] ELSE i

Inherit(new, old) ==
    LET newByOld == NewByOldIndex(new, old)
        kept == {newByOld[o] : o \in DOMAIN newByOld}
        oldOf(i) == CHOOSE o \in DOMAIN newByOld : newByOld[o] = i
    IN  [new EXCEPT
            !.out    = [i \in Providers(new) |-> IF i \in kept THEN old.out[oldOf(i)] ELSE new.out[i]],
            !.busy   = [i \in Providers(new) |-> IF i \in kept THEN old.busy[oldOf(i)] ELSE new.busy[i]],
            !.keyOut = [i \in Providers(new) |->
                           IF i \in kept THEN InheritKeyOut(new, i, old, oldOf(i)) ELSE new.keyOut[i]],
            !.keyCur = [s \in Scopes |-> [i \in Providers(new) |->
                           IF i \in kept THEN InheritKeyCursor(new, i, old, oldOf(i), s) ELSE new.keyCur[s][i]]],
            !.brk    = [i \in Providers(new) |->
                           IF i \in kept THEN InheritBreaker(new, i, old, oldOf(i)) ELSE new.brk[i]],
            !.cur    = [s \in Scopes |-> InheritCursor(new, old, s)],
            !.sticky = Inherited(old.sticky, newByOld)]

(***************************************************************************)
(* Router.  A group without an enabled provider has no proxy.              *)
(***************************************************************************)
Idle == [pc |-> "idle"]
Done == [pc |-> "done"]

\* Generations nobody can reach any more are forgotten (ClientProxy.Close).
Reachable(rs, l) == {l} \union {rs[r].gen : r \in {q \in Requests : rs[q] \notin {Idle, Done}}}
Keep(gs, rs, l) == [g \in Slots |-> IF g \in Reachable(rs, l) THEN gs[g] ELSE NoProxy]

Init ==
    /\ live = CHOOSE g \in Slots : TRUE
    /\ reloads = 0
    /\ \E c \in Configs : gen = [g \in Slots |-> IF g = live THEN NewProxy(c) ELSE NoProxy]
    /\ req = [r \in Requests |-> Idle]

\* reloadProviderConfigsLockedWithTelemetry, once the configuration is valid.
Reload(c) ==
    LET free == Slots \ Reachable(req, live)
        g == CHOOSE f \in free : TRUE IN
    /\ free # {} /\ reloads < MaxReloads
    /\ live' = g /\ reloads' = reloads + 1
    /\ gen' = Keep([gen EXCEPT ![g] = IF gen[live].config.providers = <<>> \/ c.providers = <<>>
                                      THEN NewProxy(c) ELSE Inherit(NewProxy(c), gen[live])], req, g)
    /\ UNCHANGED req

\* handleRequest: the request takes the live proxy and keeps it.
Dispatch(r) ==
    /\ req[r].pc = "idle"
    /\ gen[live].config.providers # <<>>
    /\ req' = [req EXCEPT ![r] = [pc |-> "dispatched", gen |-> live]]
    /\ UNCHANGED <<gen, live, reloads>>

(***************************************************************************)
(* forwardWithFailover, as far as it touches what a reload copies.         *)
(***************************************************************************)
LiveKeys(p, i) == {k \in KeysOf(p, i) : p.keyOut[i][k] = 0}
Open(p, i)     == p.out[i] = 0 /\ LiveKeys(p, i) # {}
Available(p, i) == Open(p, i) /\ PeekAllow(p.brk[i]).allowed
Up(p)          == {i \in Providers(p) : Available(p, i)}

\* The n-th index from `start', going round.
Around(start, n, len) == ((start - 1 + n) % len) + 1

\* nextActiveIndexLocked and nextActiveKeyIndexLocked: the first from `start'
\* of `passing', or `start' itself.
FirstFrom(start, len, passing) ==
    LET ns == {n \in 0..len - 1 : Around(start, n, len) \in passing}
    IN  IF ns = {} THEN start ELSE Around(start, CHOOSE n \in ns : \A m \in ns : n <= m, len)

\* Mutant: the cursor a sticky entry set is used as it is.
StartKeyUnchecked(p, i, s) ==
    IF p.keyCur[s][i] \in LiveKeys(p, i) \/ p.keyCur[s][i] \notin KeysOf(p, i) THEN p.keyCur[s][i]
    ELSE FirstFrom(p.keyCur[s][i], Len(p.config.providers[i].keys), LiveKeys(p, i))

StartKey(p, i, s) ==
    LET cursor == IF p.keyCur[s][i] \in KeysOf(p, i) THEN p.keyCur[s][i] ELSE 1
    IN  FirstFrom(cursor, Len(p.config.providers[i].keys), LiveKeys(p, i))

\* The request is answered, or gives up.
Leave(r, gs) ==
    /\ req' = [req EXCEPT ![r] = Done]
    /\ gen' = Keep(gs, req', live)

\* A skipped provider whose breaker let the request in gets its permit back.
PassedBy(p, is) ==
    [p EXCEPT !.brk = [i \in Providers(p) |->
        IF i \in is /\ Open(p, i) THEN SlotReturned(AllowState(@[i]), AllowResult(@[i]).usedProbe) ELSE @[i]]]

\* The next provider of the walk that takes the request, over p: one that is
\* not out, whose breaker admits it, and that is not busy unless the walk began
\* there.  The request waits for a busy one, and leaves when there is none.
Walk(r, p, q) ==
    LET n == Len(p.config.providers)
        at(m) == Around(q.start, m, n)
        takes(i) == Open(p, i) /\ AllowResult(p.brk[i]).allowed /\ (p.busy[i].left = 0 \/ i = q.start)
        ms == {m \in q.next..n - 1 : takes(at(m))}
        stop == IF ms = {} THEN n ELSE CHOOSE m \in ms : \A h \in ms : m <= h
        passed == PassedBy(p, {at(m) : m \in q.next..stop - 1})
        i == at(stop)
        k == StartKey(p, i, ScopeOf[r])
    IN  IF stop = n THEN Leave(r, [gen EXCEPT ![q.gen] = passed])
        ELSE /\ gen' = [gen EXCEPT ![q.gen] = [passed EXCEPT !.brk[i] = AllowState(p.brk[i]),
                                                            !.keyCur[ScopeOf[r]][i] = k]]
             /\ req' = [req EXCEPT ![r] =
                    [pc |-> IF p.busy[i].left > 0 THEN "waiting" ELSE "sent", gen |-> q.gen, says |-> q.says,
                     start |-> q.start, next |-> stop + 1, provider |-> i, key |-> k,
                     probe |-> AllowResult(p.brk[i]).usedProbe, busyProbe |-> FALSE]]

\* The sticky lookup, the start of the walk, and its first provider.
SetOut(r, conversation) ==
    LET g == req[r].gen
        p == gen[g]
        s == ScopeOf[r]
        key == RequestStickyKey(conversation.body)
        hint == Resolved(p.sticky, s, key)
        cursor == FirstFrom(p.cur[s], Len(p.config.providers), Up(p))
        moved == [p EXCEPT !.sticky = AfterResolve(@, s, key), !.cur[s] = cursor]
        from(i) == [gen |-> g, says |-> conversation, start |-> i, next |-> 0]
    IN  /\ req[r].pc = "dispatched" /\ p.config.mode = "auto"
        /\ IF Up(p) = {} THEN Leave(r, gen)
           ELSE IF hint.found /\ Open(p, hint.provider)
           THEN Walk(r, [moved EXCEPT !.keyCur[s][hint.provider] = hint.key], from(hint.provider))
           ELSE Walk(r, moved, from(cursor))
        /\ UNCHANGED <<live, reloads>>

\* The inline wait for a busy provider is over: one request probes it.
WaitOver(r) ==
    LET q == req[r]
        p == gen[q.gen]
        i == q.provider IN
    /\ q.pc = "waiting" /\ p.busy[i].left = 0
    /\ IF p.busy[i].probes = 0
       THEN /\ gen' = [gen EXCEPT ![q.gen].busy[i].probes = 1]
            /\ req' = [req EXCEPT ![r].pc = "sent", ![r].busyProbe = TRUE]
       ELSE Walk(r, [p EXCEPT !.brk[i] = SlotReturned(@, q.probe)], q)
    /\ UNCHANGED <<live, reloads>>

(***************************************************************************)
(* The answers.  HandBack is what every one of them does with the busy     *)
(* probe; a failed attempt goes on with the walk.                          *)
(***************************************************************************)
HandBack(p, q) ==
    IF q.busyProbe /\ p.busy[q.provider].probes > 0 THEN [p EXCEPT !.busy[q.provider].probes = @ - 1] ELSE p

\* nextActiveIndex.
NextActive(p, i) == FirstFrom(Around(i, 1, Len(p.config.providers)), Len(p.config.providers), Up(p))

GoOn(r, p) == Walk(r, [p EXCEPT !.cur[ScopeOf[r]] = NextActive(p, req[r].provider)], req[r])

Entry(p, q) == [ provider |-> q.provider, key |-> q.key, age |-> 0, source |-> "",
                 served |-> p.config.providers[q.provider] ]

\* A complete answer, in auto mode: cursors, busy mark, sticky tables, breaker.
Succeed(r) ==
    LET q == req[r]
        p == gen[q.gen]
        s == ScopeOf[r] IN
    /\ q.pc = "sent"
    /\ Leave(r, [gen EXCEPT ![q.gen] =
           [p EXCEPT !.cur[s] = q.provider, !.keyCur[s][q.provider] = q.key,
                     !.busy[q.provider] = NotBusy,
                     !.sticky = Learned(@, s, q.says.body, q.says.id, Entry(p, q)),
                     !.brk[q.provider] = RecordSuccess(@, q.probe)]])
    /\ UNCHANGED <<live, reloads>>

\* A network error or an idle stream: the breaker counts it.
Break(r) ==
    LET q == req[r] IN
    /\ q.pc = "sent"
    /\ GoOn(r, [HandBack(gen[q.gen], q) EXCEPT !.brk[q.provider] = RecordFailure(@, q.probe)])
    /\ UNCHANGED <<live, reloads>>

\* The client leaves: nothing is held against the provider.
Cancel(r) ==
    LET q == req[r]
        p == HandBack(gen[q.gen], q) IN
    /\ q.pc \in {"sent", "waiting"}
    /\ Leave(r, [gen EXCEPT ![q.gen] = [p EXCEPT !.brk[q.provider] = SlotReturned(@, q.probe)]])
    /\ UNCHANGED <<live, reloads>>

\* A busy answer marks the provider and overflows to the next one.
BusyAnswer(r) ==
    LET q == req[r]
        p == HandBack(gen[q.gen], q) IN
    /\ q.pc = "sent"
    /\ GoOn(r, [p EXCEPT !.brk[q.provider] = SlotReturned(@, q.probe), !.busy[q.provider].left = 1])
    /\ UNCHANGED <<live, reloads>>

\* deactivateKeyFor: a key already out stays as it is; cursors on it move on.
KeyPenalty(p, i, k) ==
    LET hit == [p EXCEPT !.keyOut[i][k] = 1] IN
    IF p.keyOut[i][k] > 0 THEN p
    ELSE [hit EXCEPT !.keyCur = [s \in Scopes |->
            IF hit.keyCur[s][i] = k
            THEN [hit.keyCur[s] EXCEPT ![i] = FirstFrom(k, Len(p.config.providers[i].keys), LiveKeys(hit, i))]
            ELSE hit.keyCur[s]]]

\* deactivateFor, with advanceScopeIndicesLocked.
ProviderPenalty(p, i) ==
    LET hit == [p EXCEPT !.out[i] = 1] IN
    IF p.out[i] > 0 THEN p
    ELSE [hit EXCEPT !.cur = [s \in Scopes |-> IF hit.cur[s] = i THEN NextActive(hit, i) ELSE hit.cur[s]]]

\* The key is refused: the next key of the provider, or the provider is out.
KeyFails(r) ==
    LET q == req[r]
        i == q.provider
        p == KeyPenalty(gen[q.gen], i, q.key)
        next == FirstFrom(q.key, Len(p.config.providers[i].keys), LiveKeys(p, i)) IN
    /\ q.pc = "sent"
    /\ IF LiveKeys(p, i) # {}
       THEN /\ gen' = [gen EXCEPT ![q.gen] = [p EXCEPT !.keyCur[ScopeOf[r]][i] = next]]
            /\ req' = [req EXCEPT ![r].key = next]
       ELSE GoOn(r, LET b == HandBack(ProviderPenalty(p, i), q)
                    IN [b EXCEPT !.brk[i] = SlotReturned(@, q.probe)])
    /\ UNCHANGED <<live, reloads>>

(***************************************************************************)
(* forwardManual: the pinned provider and its preferred key; health is     *)
(* neither asked nor changed.  countTokensSingleShotTarget: an advisory    *)
(* request, which only reads.                                              *)
(***************************************************************************)
Manual(r) ==
    LET q == req[r]
        p == gen[q.gen]
        i == PinnedIndex(p.config)
        k == p.keyCur[ScopeOf[r]][i] IN
    /\ q.pc = "dispatched" /\ p.config.mode = "manual"
    /\ IF i = 0 THEN Leave(r, gen)
       ELSE /\ req' = [req EXCEPT ![r] = [pc |-> "pinned", gen |-> q.gen, provider |-> i,
                                          key |-> IF k \in KeysOf(p, i) THEN k ELSE 1]]
            /\ UNCHANGED gen
    /\ UNCHANGED <<live, reloads>>

\* onCommit moves the cursors; recordCircuitSuccess and -Failure return early.
ManualEnds(r) ==
    LET q == req[r]
        s == ScopeOf[r] IN
    /\ q.pc = "pinned"
    /\ \/ Leave(r, [gen EXCEPT ![q.gen].cur[s] = q.provider, ![q.gen].keyCur[s][q.provider] = q.key])
       \/ Leave(r, gen)
    /\ UNCHANGED <<live, reloads>>

CountTokens(r) ==
    LET q == req[r]
        p == gen[q.gen]
        s == CHOOSE t \in Scopes : \A u \in Scopes : t <= u
        i == FirstFrom(p.cur[s], Len(p.config.providers), Up(p)) IN
    /\ q.pc = "dispatched" /\ p.config.mode = "auto"
    /\ IF i \notin Up(p) THEN Leave(r, gen)
       ELSE /\ req' = [req EXCEPT ![r] = [pc |-> "advisory", gen |-> q.gen, provider |-> i,
                                          key |-> StartKey(p, i, s)]]
            /\ UNCHANGED gen
    /\ UNCHANGED <<live, reloads>>

Advised(r) == req[r].pc = "advisory" /\ Leave(r, gen) /\ UNCHANGED <<live, reloads>>

\* Time, with reactivateExpired and sweepReactivations.
Less(n) == IF n > 0 THEN n - 1 ELSE 0

Passed(p) ==
    IF p = NoProxy THEN p
    ELSE [p EXCEPT !.out    = [i \in Providers(p) |-> Less(@[i])],
                   !.busy   = [i \in Providers(p) |-> [@[i] EXCEPT !.left = Less(@)]],
                   !.keyOut = [i \in Providers(p) |-> [k \in KeysOf(p, i) |-> Less(@[i][k])]],
                   !.brk    = [i \in Providers(p) |-> Aged(@[i])],
                   !.sticky = AgedTables(@)]

Tick ==
    /\ gen' = [g \in Slots |-> Passed(gen[g])]
    /\ gen' # gen
    /\ UNCHANGED <<live, req, reloads>>

Next ==
    \/ \E c \in Configs : Reload(c)
    \/ \E r \in Requests :
        \/ Dispatch(r) \/ (\E conversation \in Conversations : SetOut(r, conversation)) \/ WaitOver(r)
        \/ Succeed(r) \/ Break(r) \/ Cancel(r) \/ BusyAnswer(r) \/ KeyFails(r)
        \/ Manual(r) \/ ManualEnds(r) \/ CountTokens(r) \/ Advised(r)
    \/ Tick

Spec == Init /\ [][Next]_vars

-------------------------------------------------------------------------------
(***************************************************************************)
(* Properties.                                                             *)
(***************************************************************************)
Alive == {g \in Slots : gen[g] # NoProxy}
Bindings(s) == {s.explicit[k] : k \in DOMAIN s.explicit} \union {s.response[k] : k \in DOMAIN s.response}
                   \union {s.dynamic[k] : k \in DOMAIN s.dynamic}

\* A sticky entry leads to the provider that served it, in every generation:
\* the index is remapped when providers move, and an entry whose provider was
\* removed or repointed is dropped (proxy.go 978-988 and 1085-1124).  forwardWithFailover
\* indexes providers with it unchecked (failover_forward.go 162).
BindingsFollowTheirProvider ==
    \A g \in Alive : \A e \in Bindings(gen[g].sticky) :
        /\ e.provider \in Providers(gen[g])
        /\ SameRuntimeIdentity(gen[g].config.providers[e.provider], e.served)

\* What a request sends with exists in the generation it is on, whatever the
\* live one looks like: a binding inherited with the key index of a longer key
\* list (proxy.go 1085-1124) may not lead past the end of the list.
AimsWithinItsProxy ==
    \A r \in Requests : req[r].pc \in {"waiting", "sent", "pinned", "advisory"} =>
        /\ req[r].gen \in Alive
        /\ req[r].provider \in Providers(gen[req[r].gen])
        /\ req[r].key \in KeysOf(gen[req[r].gen], req[r].provider)

\* A reload neither forgives nor moves a penalty: a provider that is still the
\* same is out, busy and broken as before, and so is each of its keys, wherever
\* provider and key are listed now (proxy.go 949-1083, release-notes/v0.6.2.md:9;
\* docs/en/routing-and-failover.md:108 says the reload replaces this state).
HealthOutlivesReload ==
    [][live' # live =>
        LET old == gen[live]
            new == gen'[live'] IN
        \A i \in Providers(new), o \in Providers(old) :
            SameRuntimeIdentity(new.config.providers[i], old.config.providers[o]) =>
                /\ new.out[i] = old.out[o] /\ new.busy[i] = old.busy[o]
                /\ new.config.breaker = old.config.breaker => new.brk[i] = old.brk[o]
                /\ \A k \in KeysOf(new, i), j \in KeysOf(old, o) :
                      new.config.providers[i].keys[k] = old.config.providers[o].keys[j]
                          => new.keyOut[i][k] = old.keyOut[o][j]]_vars

\* Learning keeps the table of dynamic features within its capacity, and what
\* it gives up for that is never younger than what it leaves; least of all the
\* feature just learned for an older one (sticky.go 289-381).
OldestFeatureGoesFirst ==
    [][\A r \in Requests : Succeed(r) /\ gen'[req[r].gen] # NoProxy =>
        LET q == req[r]
            old == gen[q.gen].sticky.dynamic
            new == gen'[q.gen].sticky.dynamic
            taught == {k \in {RequestStickyKey(q.says.body), LearningStickyKey(q.says.body)} : k.level \in {"L2", "L3"}}
            learned == {<<ScopeOf[r], k.key>> : k \in taught}
            age == [k \in learned \union DOMAIN old |-> IF k \in learned THEN 0 ELSE old[k].age]
            fresh == {k \in DOMAIN old : Fresh(old[k], FeatureTTL(old[k]))} IN
        /\ Cardinality(DOMAIN new) <= DynamicFeatureCapacity
        /\ \A lost \in (learned \union fresh) \ DOMAIN new : \A kept \in DOMAIN new : age[kept] <= age[lost]]_vars
=============================================================================
