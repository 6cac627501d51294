----------------------------- MODULE StickyTables ------------------------------
(***************************************************************************)
(* The sticky-session tables of internal/proxy/sticky.go as operators over *)
(* a record of three tables: explicit (by scope and previous response),    *)
(* response (by response id) and dynamic (by scope and feature).  Every    *)
(* operation of the code runs under ClientProxy.mu, so one operator is one *)
(* critical section.                                                       *)
(*                                                                         *)
(* An entry carries the time since LastSeenAt as an age, saturating just   *)
(* past the longest TTL.  Keys and texts are naturals (0 is the empty      *)
(* string) and scopes are naturals, in the order of the strings they stand *)
(* for, which breaks ties between entries of one age.                      *)
(***************************************************************************)
EXTENDS Integers, Sequences, FiniteSets, Functions

CONSTANTS
    ExplicitTTL,            \* sticky_sessions.explicit_ttl, in ticks
    CacheHintTTL,           \* sticky_sessions.cache_hint_ttl
    DynamicFeatureTTL,      \* sticky_sessions.dynamic_feature_ttl
    ResponseLookupTTL,      \* sticky_sessions.response_lookup_ttl
    DynamicFeatureCapacity  \* sticky_sessions.dynamic_feature_capacity

TTLs == {ExplicitTTL, CacheHintTTL, DynamicFeatureTTL, ResponseLookupTTL}

ASSUME StickyAssumption == TTLs \subseteq Nat /\ DynamicFeatureCapacity \in Nat \ {0}

\* Ages are told apart up to this one, which is past every TTL.
AgeCap == CHOOSE a \in {t + 1 : t \in TTLs} : \A t \in TTLs : t < a

NoTables == [explicit |-> <<>>, response |-> <<>>, dynamic |-> <<>>]

(***************************************************************************)
(* Which key a request is looked up by, and which feature it teaches.  A   *)
(* body is [responses, previous, cacheKey, messages]; a message that is    *)
(* not the user's, or has no text, counts for nothing.                     *)
(***************************************************************************)
NoKey == [level |-> "none", key |-> 0, source |-> ""]
Feature(text) == [level |-> "L3", key |-> text, source |-> "dynamic_human_feature"]

HumanMessages(body) == SelectSeq(body.messages, LAMBDA m : m.role = "user" /\ m.text # 0)

RequestStickyKey(body) ==
    LET human == HumanMessages(body) IN
    IF body.responses /\ body.previous # 0
    THEN [level |-> "L1", key |-> body.previous, source |-> "previous_response_id"]
    ELSE IF body.responses /\ body.cacheKey # 0
    THEN [level |-> "L2", key |-> body.cacheKey, source |-> "prompt_cache_key"]
    ELSE IF Len(human) < 2 THEN NoKey ELSE Feature(human[Len(human) - 1].text)

LearningStickyKey(body) ==
    LET human == HumanMessages(body) IN
    IF human = <<>> THEN NoKey ELSE Feature(human[Len(human)].text)

\* extractResponseLookupID: only the Responses API has ids to look up.
LookupId(body, id) == IF body.responses THEN id ELSE 0

(***************************************************************************)
(* Pruning.                                                                *)
(***************************************************************************)
Fresh(entry, ttl) == ttl > 0 => entry.age <= ttl
FeatureTTL(entry) == IF entry.source = "prompt_cache_key" THEN CacheHintTTL ELSE DynamicFeatureTTL

\* The eviction order: oldest first, then by key.
Sooner(t, j, k) ==
    \/ t[j].age > t[k].age
    \/ t[j].age = t[k].age /\ (j[1] < k[1] \/ (j[1] = k[1] /\ j[2] < k[2]))

\* Mutant: the newest entries go first.
CapacityFromTheWrongEnd(t) ==
    IF DynamicFeatureCapacity = 0 THEN t
    ELSE Restrict(t, {k \in DOMAIN t : Cardinality({j \in DOMAIN t : Sooner(t, j, k)}) < DynamicFeatureCapacity})

\* enforceDynamicFeatureCapacityLocked: the first `overflow' in that order go.
WithinCapacity(t) ==
    LET overflow == Cardinality(DOMAIN t) - DynamicFeatureCapacity IN
    IF DynamicFeatureCapacity = 0 \/ overflow <= 0 THEN t
    ELSE Restrict(t, {k \in DOMAIN t : Cardinality({j \in DOMAIN t : Sooner(t, j, k)}) >= overflow})

Pruned(s) ==
    [ explicit |-> Restrict(s.explicit, {k \in DOMAIN s.explicit : Fresh(s.explicit[k], ExplicitTTL)}),
      response |-> Restrict(s.response, {k \in DOMAIN s.response : Fresh(s.response[k], ResponseLookupTTL)}),
      dynamic  |-> WithinCapacity(Restrict(s.dynamic,
                       {k \in DOMAIN s.dynamic : Fresh(s.dynamic[k], FeatureTTL(s.dynamic[k]))})) ]

(***************************************************************************)
(* resolveStickyProvider: the entry a key leads to, and the tables with it *)
(* seen again.                                                             *)
(***************************************************************************)
Found(entry) == [found |-> TRUE, provider |-> entry.provider, key |-> entry.key]
NotFound     == [found |-> FALSE, provider |-> 0, key |-> 0]

Resolved(s, scope, key) ==
    LET t == Pruned(s) IN
    CASE key.level = "L1" /\ <<scope, key.key>> \in DOMAIN t.explicit -> Found(t.explicit[<<scope, key.key>>])
      [] key.level = "L1" /\ <<scope, key.key>> \notin DOMAIN t.explicit
                          /\ key.key \in DOMAIN t.response -> Found(t.response[key.key])
      [] key.level \in {"L2", "L3"} /\ <<scope, key.key>> \in DOMAIN t.dynamic -> Found(t.dynamic[<<scope, key.key>>])
      [] OTHER -> NotFound

AfterResolve(s, scope, key) ==
    LET t == Pruned(s)
        k == <<scope, key.key>> IN
    CASE key.level = "none" -> s
      [] key.level = "L1" /\ k \in DOMAIN t.explicit -> [t EXCEPT !.explicit[k].age = 0]
      [] key.level = "L1" /\ k \notin DOMAIN t.explicit /\ key.key \in DOMAIN t.response
             -> [t EXCEPT !.response[key.key].age = 0]
      [] key.level \in {"L2", "L3"} /\ k \in DOMAIN t.dynamic -> [t EXCEPT !.dynamic[k].age = 0]
      [] OTHER -> t

(***************************************************************************)
(* learnStickySuccessWithPayload: the key the request came with, the       *)
(* feature it teaches and the id of the answer all lead to the provider    *)
(* and key that served it.                                                 *)
(***************************************************************************)
Put(t, k, entry) == [x \in DOMAIN t \union {k} |-> IF x = k THEN entry ELSE t[x]]

PutDynamic(t, k, entry) == WithinCapacity(Put(t, k, entry))

Learned(s, scope, body, id, entry) ==
    LET t    == Pruned(s)
        key  == RequestStickyKey(body)
        teach == LearningStickyKey(body)
        from(source) == [entry EXCEPT !.source = source]
        own  == IF key.level \in {"L2", "L3"}
                THEN PutDynamic(t.dynamic, <<scope, key.key>>, from(key.source)) ELSE t.dynamic
    IN  [ explicit |-> IF key.level = "L1" THEN Put(t.explicit, <<scope, key.key>>, from(key.source)) ELSE t.explicit,
          dynamic  |-> IF teach.level = "L3" THEN PutDynamic(own, <<scope, teach.key>>, from(teach.source)) ELSE own,
          response |-> IF LookupId(body, id) # 0 THEN Put(t.response, id, from("response_id")) ELSE t.response ]

(***************************************************************************)
(* inheritStickyRuntimeState: entries of providers that live on move to    *)
(* the new proxy under the provider's new index; the key index stays.      *)
(***************************************************************************)
\* Mutant: the old index is kept.
MovedUnchanged(t, newByOld) == Restrict(t, {k \in DOMAIN t : t[k].provider \in DOMAIN newByOld})

Moved(t, newByOld) ==
    LET kept == {k \in DOMAIN t : t[k].provider \in DOMAIN newByOld}
    IN  [k \in kept |-> [t[k] EXCEPT !.provider = newByOld[@]]]

Inherited(s, newByOld) ==
    [ explicit |-> Moved(s.explicit, newByOld), response |-> Moved(s.response, newByOld),
      dynamic |-> Moved(s.dynamic, newByOld) ]

\* The tables after a tick of the clock.
AgedTables(s) ==
    LET older(t) == [k \in DOMAIN t |-> [t[k] EXCEPT !.age = IF @ < AgeCap THEN @ + 1 ELSE @]]
    IN  [explicit |-> older(s.explicit), response |-> older(s.response), dynamic |-> older(s.dynamic)]
=============================================================================
