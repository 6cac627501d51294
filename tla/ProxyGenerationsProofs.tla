------------------------ MODULE ProxyGenerationsProofs ------------------------
(***************************************************************************)
(* For any configurations, requests, conversations and number of reloads:  *)
(* a sticky entry leads to the provider that served it, a request sends    *)
(* with a provider and a key of the proxy it was dispatched to, and a      *)
(* reload neither forgives nor moves a penalty.                            *)
(***************************************************************************)
EXTENDS ProxyGenerations, SequenceTheorems, FiniteSetTheorems, WellFoundedInduction, NaturalsInduction, TLAPS

\* An entry of the sticky tables leads to the provider that served it.
IsEntry(e, c) ==
    /\ e = [provider |-> e.provider, key |-> e.key, age |-> e.age, source |-> e.source, served |-> e.served]
    /\ e.provider \in DOMAIN c.providers
    /\ SameRuntimeIdentity(c.providers[e.provider], e.served)

\* Features are kept with their ages.
IsFeatures(t) ==
    /\ IsFiniteSet(DOMAIN t) /\ DOMAIN t \subseteq Nat \X Nat
    /\ \A k \in DOMAIN t : t[k].age \in Nat

LeadsWell(t, c) == \A k \in DOMAIN t : IsEntry(t[k], c)

IsTables(s, c) ==
    /\ s = [explicit |-> s.explicit, response |-> s.response, dynamic |-> s.dynamic]
    /\ LeadsWell(s.explicit, c) /\ LeadsWell(s.response, c) /\ LeadsWell(s.dynamic, c)
    /\ IsFeatures(s.dynamic)

IsProxy(p) ==
    /\ p = [config |-> p.config, out |-> p.out, busy |-> p.busy, keyOut |-> p.keyOut, cur |-> p.cur,
            keyCur |-> p.keyCur, brk |-> p.brk, sticky |-> p.sticky]
    /\ p.config \in Configs
    /\ p.cur \in [Scopes -> Int]
    /\ IsTables(p.sticky, p.config)

\* A later state of the same proxy.
Later(p, q) == IsProxy(q) /\ q.config = p.config

\* What a request keeps of its proxy exists there.
Walking(q) ==
    /\ q = [pc |-> q.pc, gen |-> q.gen, says |-> q.says, start |-> q.start, next |-> q.next,
            provider |-> q.provider, key |-> q.key, probe |-> q.probe, busyProbe |-> q.busyProbe]
    /\ q.start \in Int /\ q.next \in Nat /\ q.says \in Conversations

Active(q)  == q.pc \notin {"idle", "done"}
Sending(q) == q.pc \in {"waiting", "sent", "pinned", "advisory"}

AtHome(q, gs) ==
    /\ Active(q) => /\ q.gen \in Slots /\ IsProxy(gs[q.gen])
                    /\ gs[q.gen].config.providers # <<>>
    /\ q.pc \in {"waiting", "sent"} => Walking(q)
    /\ Sending(q) => /\ q.provider \in Providers(gs[q.gen])
                     /\ q.key \in KeysOf(gs[q.gen], q.provider)

GensOK(gs)   == gs = [g \in Slots |-> gs[g]] /\ \A g \in Slots : gs[g] = NoProxy \/ IsProxy(gs[g])
GenInv ==
    /\ live \in Slots /\ GensOK(gen) /\ IsProxy(gen[live])
    /\ req = [r \in Requests |-> req[r]] /\ \A r \in Requests : AtHome(req[r], gen)

-----------------------------------------------------------------------------
(***************************************************************************)
(* Configurations, and walks round them.                                   *)
(***************************************************************************)
LEMMA ConfigFacts ==
    ASSUME NEW c \in Configs
    PROVE  /\ Len(c.providers) \in Nat /\ DOMAIN c.providers = 1..Len(c.providers)
           /\ c.providers # <<>> => Len(c.providers) > 0
           /\ \A i \in DOMAIN c.providers :
                 LET keys == c.providers[i].keys
                 IN  /\ Len(keys) \in Nat \ {0} /\ DOMAIN keys = 1..Len(keys)
                     /\ \A j, k \in DOMAIN keys : keys[j] = keys[k] => j = k
           /\ \A i, j \in DOMAIN c.providers : c.providers[i].name = c.providers[j].name => i = j
<1>1. IsConfig(c)  BY GenerationsAssumption
<1>2. c.providers \in Seq(Range(c.providers))  BY <1>1 DEF IsConfig
<1>3. /\ Len(c.providers) \in Nat /\ DOMAIN c.providers = 1..Len(c.providers)
      /\ c.providers # <<>> => Len(c.providers) > 0
  BY <1>2, EmptySeq
<1>4. ASSUME NEW i \in DOMAIN c.providers
      PROVE  LET keys == c.providers[i].keys
             IN  /\ Len(keys) \in Nat \ {0} /\ DOMAIN keys = 1..Len(keys)
                 /\ \A j, k \in DOMAIN keys : keys[j] = keys[k] => j = k
  <2> DEFINE keys == c.providers[i].keys
  <2>1. keys # <<>> /\ keys \in Seq(Range(keys)) /\ IsInjective(keys)  BY <1>1 DEF IsConfig
  <2> HIDE DEF keys
  <2>2. Len(keys) \in Nat \ {0} /\ DOMAIN keys = 1..Len(keys)  BY <2>1, EmptySeq
  <2>3. \A j, k \in DOMAIN keys : keys[j] = keys[k] => j = k  BY <2>1 DEF IsInjective
  <2> QED  BY <2>2, <2>3 DEF keys
<1> QED  BY <1>1, <1>3, <1>4 DEF IsConfig

LEMMA LeastElement ==
    ASSUME NEW D, D \subseteq Nat, D # {}
    PROVE  \E d \in D : \A e \in D : d <= e
<1>1. \E d \in D : \A e \in D : ~(<<e, d>> \in OpToRel(<, Nat))
  <2> HIDE DEF OpToRel
  <2> QED  BY NatLessThanWellFounded, WFMin
<1>2. PICK d \in D : \A e \in D : ~(<<e, d>> \in OpToRel(<, Nat))  BY <1>1
<1>3. \A e \in D : ~(e < d)  BY <1>2 DEF OpToRel
<1> QED  BY <1>3

LEMMA AroundIn ==
    ASSUME NEW start \in Int, NEW n \in Int, NEW len \in Nat \ {0}
    PROVE  Around(start, n, len) \in 1..len
<1> DEFINE x == start - 1 + n
<1>1. x \in Int  OBVIOUS
<1> HIDE DEF x
<1>2. x % len \in 0..len - 1  BY <1>1
<1> QED  BY <1>2 DEF Around, x

LEMMA FirstFromIn ==
    ASSUME NEW start \in Int, NEW len \in Nat \ {0}, NEW passing
    PROVE  /\ FirstFrom(start, len, passing) \in Int
           /\ start \in 1..len => FirstFrom(start, len, passing) \in 1..len
<1> DEFINE ns == {n \in 0..len - 1 : Around(start, n, len) \in passing}
           m  == CHOOSE n \in ns : \A k \in ns : n <= k
<1>1. CASE ns = {}
  BY <1>1 DEF FirstFrom
<1>2. CASE ns # {}
  <2>1. ns \subseteq Nat  OBVIOUS
  <2> HIDE DEF ns
  <2>2. m \in ns  BY <1>2, <2>1, LeastElement
  <2>3. FirstFrom(start, len, passing) = Around(start, m, len)  BY <1>2 DEF FirstFrom, ns
  <2> HIDE DEF m
  <2>4. m \in Int  BY <2>1, <2>2
  <2>5. Around(start, m, len) \in 1..len  BY <2>4, AroundIn
  <2> QED  BY <2>3, <2>5
<1> QED  BY <1>1, <1>2

LEMMA StartKeyIn ==
    ASSUME NEW p, IsProxy(p), NEW i \in Providers(p), NEW s
    PROVE  StartKey(p, i, s) \in KeysOf(p, i)
<1> DEFINE len == Len(p.config.providers[i].keys)
           cursor == IF p.keyCur[s][i] \in KeysOf(p, i) THEN p.keyCur[s][i] ELSE 1
<1>1. len \in Nat \ {0} /\ KeysOf(p, i) = 1..len  BY ConfigFacts DEF IsProxy, Providers, KeysOf
<1>2. StartKey(p, i, s) = FirstFrom(cursor, len, LiveKeys(p, i))  BY DEF StartKey
<1>3. cursor \in 1..len  BY <1>1
<1> HIDE DEF len, cursor
<1> QED  BY <1>1, <1>2, <1>3, FirstFromIn

LEMMA NextActiveIn ==
    ASSUME NEW p, IsProxy(p), p.config.providers # <<>>, NEW i \in Int
    PROVE  NextActive(p, i) \in Int
<1> DEFINE len == Len(p.config.providers)
<1>1. len \in Nat \ {0}  BY ConfigFacts DEF IsProxy
<1> HIDE DEF len
<1>2. Around(i, 1, len) \in Int  BY <1>1, AroundIn
<1>3. NextActive(p, i) = FirstFrom(Around(i, 1, len), len, Up(p))  BY DEF NextActive, len
<1> QED  BY <1>1, <1>2, <1>3, FirstFromIn

-----------------------------------------------------------------------------
(***************************************************************************)
(* Who goes when there are too many features.  Entries are counted by the  *)
(* set of those that go before them, which tells any two apart.            *)
(***************************************************************************)
Before(t, k) == {j \in DOMAIN t : Sooner(t, j, k)}

LEMMA SoonerOrders ==
    ASSUME NEW t, IsFeatures(t), NEW i \in DOMAIN t, NEW j \in DOMAIN t, NEW k \in DOMAIN t
    PROVE  /\ ~Sooner(t, i, i)
           /\ Sooner(t, i, j) /\ Sooner(t, j, k) => Sooner(t, i, k)
           /\ i = j \/ Sooner(t, i, j) \/ Sooner(t, j, i)
<1>1. t[i].age \in Nat /\ t[j].age \in Nat /\ t[k].age \in Nat  BY DEF IsFeatures
<1>2. /\ i[1] \in Nat /\ i[2] \in Nat /\ j[1] \in Nat /\ j[2] \in Nat /\ k[1] \in Nat /\ k[2] \in Nat
      /\ i = <<i[1], i[2]>> /\ j = <<j[1], j[2]>>
  BY DEF IsFeatures
<1>3. i[1] = j[1] /\ i[2] = j[2] => i = j  BY <1>2
<1> QED  BY <1>1, <1>2, <1>3 DEF Sooner

LEMMA BeforeFacts ==
    ASSUME NEW t, IsFeatures(t), NEW k \in DOMAIN t
    PROVE  /\ IsFiniteSet(Before(t, k))
           /\ Cardinality(Before(t, k)) \in 0..Cardinality(DOMAIN t) - 1
<1>1. IsFiniteSet(DOMAIN t) /\ Before(t, k) \in SUBSET DOMAIN t  BY DEF IsFeatures, Before
<1>2. /\ IsFiniteSet(Before(t, k)) /\ Cardinality(Before(t, k)) <= Cardinality(DOMAIN t)
      /\ Cardinality(DOMAIN t) = Cardinality(Before(t, k)) => DOMAIN t = Before(t, k)
  BY <1>1, FS_Subset
<1>3. k \notin Before(t, k)  BY SoonerOrders DEF Before
<1>4. Cardinality(Before(t, k)) \in Nat /\ Cardinality(DOMAIN t) \in Nat
  BY <1>1, <1>2, FS_CardinalityType
<1> QED  BY <1>2, <1>3, <1>4

LEMMA BeforeGrows ==
    ASSUME NEW t, IsFeatures(t), NEW j \in DOMAIN t, NEW k \in DOMAIN t, Sooner(t, j, k)
    PROVE  Cardinality(Before(t, j)) < Cardinality(Before(t, k))
<1>1. Before(t, j) \in SUBSET Before(t, k)  BY SoonerOrders DEF Before
<1>2. j \in Before(t, k) /\ j \notin Before(t, j)  BY SoonerOrders DEF Before
<1>3. /\ Cardinality(Before(t, j)) <= Cardinality(Before(t, k))
      /\ Cardinality(Before(t, k)) = Cardinality(Before(t, j)) => Before(t, k) = Before(t, j)
  BY <1>1, BeforeFacts, FS_Subset
<1>4. Cardinality(Before(t, j)) \in Nat /\ Cardinality(Before(t, k)) \in Nat
  BY BeforeFacts, FS_CardinalityType
<1> QED  BY <1>2, <1>3, <1>4

\* What is left is what it was, no more than allowed, and none of it older
\* than what went.
LEMMA CapacityFacts ==
    ASSUME NEW t, IsFeatures(t)
    PROVE  LET u == WithinCapacity(t) IN
           /\ DOMAIN u \subseteq DOMAIN t /\ \A k \in DOMAIN u : u[k] = t[k]
           /\ IsFeatures(u) /\ Cardinality(DOMAIN u) <= DynamicFeatureCapacity
           /\ \A lost \in DOMAIN t \ DOMAIN u, kept \in DOMAIN u : t[kept].age <= t[lost].age
<1> DEFINE n == Cardinality(DOMAIN t)
           overflow == n - DynamicFeatureCapacity
           S == {k \in DOMAIN t : Cardinality(Before(t, k)) >= overflow}
           u == WithinCapacity(t)
<1>1. n \in Nat /\ DynamicFeatureCapacity \in Nat \ {0}
  BY FS_CardinalityType, StickyAssumption DEF IsFeatures
<1>2. CASE overflow <= 0
  <2>1. u = t  BY <1>2 DEF WithinCapacity
  <2> QED  BY <1>1, <1>2, <2>1
<1>3. CASE ~(overflow <= 0)
  <2>1. u = Restrict(t, S)  BY <1>1, <1>3 DEF WithinCapacity, Before
  <2>2. S \in SUBSET DOMAIN t  OBVIOUS
  <2>3. \A k \in DOMAIN t : k \in S <=> Cardinality(Before(t, k)) >= overflow  OBVIOUS
  <2> HIDE DEF S, u, n
  <2>4. DOMAIN u = S /\ \A k \in S : u[k] = t[k]  BY <2>1 DEF Restrict
  <2>5. IsFiniteSet(S)  BY <2>2, FS_Subset DEF IsFeatures
  <2>6. IsFeatures(u)  BY <2>2, <2>4, <2>5 DEF IsFeatures
  <2>7. Cardinality(S) <= DynamicFeatureCapacity
    <3> DEFINE T == overflow..n - 1
               rank == [k \in S |-> Cardinality(Before(t, k))]
    <3>1. \A k \in DOMAIN t : Cardinality(Before(t, k)) \in 0..n - 1  BY BeforeFacts DEF n
    <3>2. rank \in [S -> T]  BY <1>1, <2>2, <2>3, <3>1
    <3>3. \A j, k \in S : rank[j] = rank[k] => j = k
      <4> SUFFICES ASSUME NEW j \in S, NEW k \in S, j # k  PROVE rank[j] # rank[k]
        OBVIOUS
      <4>1. Sooner(t, j, k) \/ Sooner(t, k, j)  BY <2>2, SoonerOrders
      <4>2. \/ Cardinality(Before(t, j)) < Cardinality(Before(t, k))
            \/ Cardinality(Before(t, k)) < Cardinality(Before(t, j))
        BY <2>2, <4>1, BeforeGrows
      <4>3. Cardinality(Before(t, j)) \in 0..n - 1 /\ Cardinality(Before(t, k)) \in 0..n - 1
        BY <2>2, <3>1
      <4>4. rank[j] \in Int /\ rank[k] \in Int /\ (rank[j] < rank[k] \/ rank[k] < rank[j])
        BY <1>1, <4>2, <4>3
      <4> HIDE DEF rank
      <4> QED  BY <4>4
    <3>4. rank \in Injection(S, T)  BY <3>2, <3>3 DEF Injection, IsInjective
    <3>5. IsFiniteSet(T) /\ Cardinality(T) = IF overflow > n - 1 THEN 0 ELSE n - 1 - overflow + 1
      BY <1>1, FS_Interval
    <3> HIDE DEF T, rank
    <3>6. Cardinality(S) <= Cardinality(T)  BY <3>4, <3>5, FS_Injection
    <3>7. Cardinality(T) = DynamicFeatureCapacity  BY <1>1, <3>5
    <3> QED  BY <3>6, <3>7
  <2>8. ASSUME NEW lost \in DOMAIN t \ S, NEW kept \in S  PROVE t[kept].age <= t[lost].age
    <3>1. t[kept].age \in Nat /\ t[lost].age \in Nat  BY <2>2 DEF IsFeatures
    <3>2. SUFFICES ASSUME t[kept].age > t[lost].age  PROVE FALSE
      BY <3>1
    <3>3. Sooner(t, kept, lost)  BY <3>2 DEF Sooner
    <3>4. Cardinality(Before(t, kept)) < Cardinality(Before(t, lost))  BY <2>2, <3>3, BeforeGrows
    <3>5. Cardinality(Before(t, lost)) \in Int /\ Cardinality(Before(t, kept)) \in Int
      BY <1>1, <2>2, BeforeFacts DEF n
    <3>6. ~(Cardinality(Before(t, lost)) >= overflow) /\ Cardinality(Before(t, kept)) >= overflow
      BY <2>2, <2>3
    <3> QED  BY <1>1, <3>4, <3>5, <3>6
  <2> QED  BY <2>2, <2>4, <2>6, <2>7, <2>8 DEF u
<1> QED  BY <1>2, <1>3

\* When features L have been taught to the table `old': those of L count as
\* just seen, and nothing left is older than what went.
SeenAge(old, L, k) == IF k \in L THEN 0 ELSE old[k].age
FreshIn(old) == {k \in DOMAIN old : Fresh(old[k], FeatureTTL(old[k]))}

OldestWent(t, old, L) ==
    /\ IsFeatures(t) /\ DOMAIN t \subseteq L \union FreshIn(old)
    /\ \A k \in DOMAIN t : t[k].age = SeenAge(old, L, k)
    /\ \A lost \in (L \union FreshIn(old)) \ DOMAIN t, kept \in DOMAIN t :
          SeenAge(old, L, kept) <= SeenAge(old, L, lost)
    /\ Cardinality(DOMAIN t) <= DynamicFeatureCapacity

LEMMA PruningGivesUpTheOldest ==
    ASSUME NEW s, IsFeatures(s.dynamic)
    PROVE  OldestWent(Pruned(s).dynamic, s.dynamic, {})
<1> DEFINE old == s.dynamic
           D == {k \in DOMAIN old : Fresh(old[k], FeatureTTL(old[k]))}
           t == Restrict(old, D)
           u == WithinCapacity(t)
<1>1. Pruned(s).dynamic = u  BY DEF Pruned
<1>2. D = FreshIn(old) /\ D \in SUBSET DOMAIN old  BY DEF FreshIn
<1> HIDE DEF old, D
<1>3. DOMAIN t = D /\ \A k \in D : t[k] = old[k]  BY DEF Restrict
<1> HIDE DEF t
<1>4. IsFiniteSet(D)  BY <1>2, FS_Subset DEF IsFeatures, old
<1>5. IsFeatures(t)  BY <1>2, <1>3, <1>4 DEF IsFeatures, old
<1>6. /\ DOMAIN u \subseteq D /\ \A k \in DOMAIN u : u[k] = t[k]
      /\ IsFeatures(u) /\ Cardinality(DOMAIN u) <= DynamicFeatureCapacity
      /\ \A lost \in D \ DOMAIN u, kept \in DOMAIN u : t[kept].age <= t[lost].age
  BY <1>3, <1>5, CapacityFacts
<1> HIDE DEF u
<1>7. OldestWent(u, old, {})  BY <1>2, <1>3, <1>6 DEF OldestWent, SeenAge
<1> QED  BY <1>1, <1>7 DEF old

LEMMA TeachingGivesUpTheOldest ==
    ASSUME NEW old, IsFeatures(old), NEW t, NEW L, OldestWent(t, old, L),
           NEW k \in Nat \X Nat, NEW e, e.age = 0
    PROVE  OldestWent(PutDynamic(t, k, e), old, L \union {k})
<1> DEFINE p == Put(t, k, e)
           u == WithinCapacity(p)
           M == L \union {k}
           F == FreshIn(old)
<1>1. PutDynamic(t, k, e) = u  BY DEF PutDynamic
<1>2. /\ DOMAIN p = DOMAIN t \union {k}
      /\ \A x \in DOMAIN p : p[x] = IF x = k THEN e ELSE t[x]
  BY DEF Put
<1>3. \A x \in F : old[x].age \in Nat  BY DEF FreshIn, IsFeatures
<1> HIDE DEF p, F, M
<1>4. IsFeatures(p)
  <2>1. IsFiniteSet(DOMAIN p)  BY <1>2, FS_AddElement DEF OldestWent, IsFeatures
  <2> QED  BY <1>2, <2>1 DEF OldestWent, IsFeatures
<1>5. DOMAIN p \subseteq M \union F /\ \A x \in DOMAIN p : p[x].age = SeenAge(old, M, x)
  BY <1>2 DEF OldestWent, SeenAge, M, F
<1>6. ASSUME NEW lost \in (M \union F) \ DOMAIN p, NEW kept \in DOMAIN p
      PROVE  SeenAge(old, M, kept) <= SeenAge(old, M, lost)
  <2>1. lost # k /\ lost \in (L \union F) \ DOMAIN t  BY <1>2 DEF M
  <2>2. SeenAge(old, M, lost) = SeenAge(old, L, lost) /\ SeenAge(old, L, lost) \in Nat
    BY <1>3, <2>1 DEF SeenAge, M
  <2>3. CASE kept = k
    BY <2>2, <2>3 DEF SeenAge, M
  <2>4. CASE kept # k
    <3>1. kept \in DOMAIN t  BY <1>2, <2>4
    <3>2. SeenAge(old, M, kept) = SeenAge(old, L, kept)  BY <2>4 DEF SeenAge, M
    <3> QED  BY <2>1, <2>2, <3>1, <3>2 DEF OldestWent, F
  <2> QED  BY <2>3, <2>4
<1>7. /\ DOMAIN u \subseteq DOMAIN p /\ \A x \in DOMAIN u : u[x] = p[x]
      /\ IsFeatures(u) /\ Cardinality(DOMAIN u) <= DynamicFeatureCapacity
      /\ \A lost \in DOMAIN p \ DOMAIN u, kept \in DOMAIN u : p[kept].age <= p[lost].age
  BY <1>4, CapacityFacts
<1> HIDE DEF u
<1>8. ASSUME NEW lost \in (M \union F) \ DOMAIN u, NEW kept \in DOMAIN u
      PROVE  SeenAge(old, M, kept) <= SeenAge(old, M, lost)
  BY <1>5, <1>6, <1>7
<1> QED  BY <1>1, <1>5, <1>7, <1>8 DEF OldestWent, M, F

\* The features a body is looked up by and teaches, as table keys.
FeaturesOf(scope, body) ==
    {<<scope, k.key>> : k \in {x \in {RequestStickyKey(body), LearningStickyKey(body)} : x.level \in {"L2", "L3"}}}

LEMMA LearningGivesUpTheOldest ==
    ASSUME NEW s, IsFeatures(s.dynamic), NEW scope \in Nat, NEW body, NEW id, NEW e,
           e = [provider |-> e.provider, key |-> e.key, age |-> e.age, source |-> e.source, served |-> e.served],
           e.age = 0, RequestStickyKey(body).key \in Nat, LearningStickyKey(body).key \in Nat
    PROVE  OldestWent(Learned(s, scope, body, id, e).dynamic, s.dynamic, FeaturesOf(scope, body))
<1> DEFINE old == s.dynamic
           t == Pruned(s).dynamic
           key == RequestStickyKey(body)
           teach == LearningStickyKey(body)
           from(source) == [e EXCEPT !.source = source]
           asked == <<scope, key.key>>
           taught == <<scope, teach.key>>
           byKey == IF key.level \in {"L2", "L3"} THEN {asked} ELSE {}
           own == IF key.level \in {"L2", "L3"} THEN PutDynamic(t, asked, from(key.source)) ELSE t
           dynamic == IF teach.level = "L3" THEN PutDynamic(own, taught, from(teach.source)) ELSE own
           all == IF teach.level = "L3" THEN byKey \union {taught} ELSE byKey
<1>1. Learned(s, scope, body, id, e).dynamic = dynamic  BY DEF Learned
<1>2. FeaturesOf(scope, body) = all
  <2>1. teach.level \in {"none", "L3"}  BY DEF LearningStickyKey, NoKey, Feature
  <2> HIDE DEF key, teach
  <2>2. FeaturesOf(scope, body) = {<<scope, k.key>> : k \in {x \in {key, teach} : x.level \in {"L2", "L3"}}}
    BY DEF FeaturesOf, key, teach
  <2> QED  BY <2>1, <2>2
<1>3. \A source : from(source).age = 0  OBVIOUS
<1>4. asked \in Nat \X Nat /\ taught \in Nat \X Nat  OBVIOUS
<1>5. OldestWent(t, old, {})  BY PruningGivesUpTheOldest
<1> HIDE DEF t, old, key, teach, asked, taught, from
<1>6. OldestWent(own, old, byKey)
  <2>1. CASE key.level \in {"L2", "L3"}
    <3>1. OldestWent(PutDynamic(t, asked, from(key.source)), old, {} \union {asked})
      BY <1>3, <1>4, <1>5, TeachingGivesUpTheOldest DEF old
    <3>2. own = PutDynamic(t, asked, from(key.source)) /\ byKey = {} \union {asked}  BY <2>1
    <3> HIDE DEF own, byKey
    <3> QED  BY <3>1, <3>2
  <2>2. CASE key.level \notin {"L2", "L3"}
    BY <1>5, <2>2
  <2> QED  BY <2>1, <2>2
<1> HIDE DEF own, byKey
<1>7. OldestWent(dynamic, old, all)
  <2>1. CASE teach.level = "L3"
    <3>1. OldestWent(PutDynamic(own, taught, from(teach.source)), old, byKey \union {taught})
      BY <1>3, <1>4, <1>6, TeachingGivesUpTheOldest DEF old
    <3> QED  BY <2>1, <3>1
  <2>2. CASE teach.level # "L3"
    BY <1>6, <2>2
  <2> QED  BY <2>1, <2>2
<1> HIDE DEF dynamic, all
<1> QED  BY <1>1, <1>2, <1>7 DEF old

-----------------------------------------------------------------------------
(***************************************************************************)
(* The sticky tables.                                                      *)
(***************************************************************************)
LEMMA RestrictLeads ==
    ASSUME NEW c, NEW t, LeadsWell(t, c), NEW S, S \subseteq DOMAIN t
    PROVE  LeadsWell(Restrict(t, S), c)
  BY DEF LeadsWell, Restrict

LEMMA CapacityLeads ==
    ASSUME NEW c, NEW t, LeadsWell(t, c)
    PROVE  LeadsWell(WithinCapacity(t), c)
<1> DEFINE overflow == Cardinality(DOMAIN t) - DynamicFeatureCapacity
           S == {k \in DOMAIN t : Cardinality({j \in DOMAIN t : Sooner(t, j, k)}) >= overflow}
<1>1. WithinCapacity(t) \in {t, Restrict(t, S)}  BY DEF WithinCapacity
<1>2. S \subseteq DOMAIN t  OBVIOUS
<1> HIDE DEF S
<1>3. LeadsWell(Restrict(t, S), c)  BY <1>2, RestrictLeads
<1> QED  BY <1>1, <1>3

LEMMA PutLeads ==
    ASSUME NEW c, NEW t, LeadsWell(t, c), NEW k, NEW e, IsEntry(e, c)
    PROVE  /\ LeadsWell(Put(t, k, e), c)
           /\ LeadsWell(PutDynamic(t, k, e), c)
<1>1. LeadsWell(Put(t, k, e), c)  BY DEF LeadsWell, Put
<1> QED  BY <1>1, CapacityLeads DEF PutDynamic

LEMMA PrunedIsTables ==
    ASSUME NEW c, NEW s, IsTables(s, c)
    PROVE  IsTables(Pruned(s), c)
<1> DEFINE E == {k \in DOMAIN s.explicit : Fresh(s.explicit[k], ExplicitTTL)}
           R == {k \in DOMAIN s.response : Fresh(s.response[k], ResponseLookupTTL)}
           D == {k \in DOMAIN s.dynamic : Fresh(s.dynamic[k], FeatureTTL(s.dynamic[k]))}
<1>1. Pruned(s) = [explicit |-> Restrict(s.explicit, E), response |-> Restrict(s.response, R),
                   dynamic |-> WithinCapacity(Restrict(s.dynamic, D))]
  BY DEF Pruned
<1>2. E \subseteq DOMAIN s.explicit /\ R \subseteq DOMAIN s.response /\ D \subseteq DOMAIN s.dynamic
  OBVIOUS
<1> HIDE DEF E, R, D
<1>3. /\ LeadsWell(Restrict(s.explicit, E), c) /\ LeadsWell(Restrict(s.response, R), c)
      /\ LeadsWell(Restrict(s.dynamic, D), c)
  BY <1>2, RestrictLeads DEF IsTables
<1>4. LeadsWell(WithinCapacity(Restrict(s.dynamic, D)), c)  BY <1>3, CapacityLeads
<1>5. IsFeatures(Pruned(s).dynamic)  BY PruningGivesUpTheOldest DEF IsTables, OldestWent
<1> QED  BY <1>1, <1>3, <1>4, <1>5 DEF IsTables

\* A table with one entry seen again.
LEMMA SeenLeads ==
    ASSUME NEW c, NEW t, LeadsWell(t, c), NEW k, k \in DOMAIN t
    PROVE  LeadsWell([t EXCEPT ![k].age = 0], c)
<1>1. IsEntry([t[k] EXCEPT !.age = 0], c)  BY DEF LeadsWell, IsEntry
<1> QED  BY <1>1 DEF LeadsWell

LEMMA ResolveFacts ==
    ASSUME NEW c, NEW s, IsTables(s, c), NEW scope, NEW key
    PROVE  /\ Resolved(s, scope, key).found => Resolved(s, scope, key).provider \in DOMAIN c.providers
           /\ IsTables(AfterResolve(s, scope, key), c)
<1> DEFINE t == Pruned(s)
           k == <<scope, key.key>>
<1>1. IsTables(t, c)  BY PrunedIsTables
<1>2. t = [explicit |-> t.explicit, response |-> t.response, dynamic |-> t.dynamic]
  BY <1>1 DEF IsTables
<1>3. /\ k \in DOMAIN t.explicit => IsEntry(t.explicit[k], c)
      /\ key.key \in DOMAIN t.response => IsEntry(t.response[key.key], c)
      /\ k \in DOMAIN t.dynamic => IsEntry(t.dynamic[k], c)
  BY <1>1 DEF IsTables, LeadsWell
<1>4. /\ k \in DOMAIN t.explicit => LeadsWell([t.explicit EXCEPT ![k].age = 0], c)
      /\ key.key \in DOMAIN t.response => LeadsWell([t.response EXCEPT ![key.key].age = 0], c)
      /\ k \in DOMAIN t.dynamic => LeadsWell([t.dynamic EXCEPT ![k].age = 0], c)
  BY <1>1, SeenLeads DEF IsTables
<1>5. k \in DOMAIN t.dynamic => IsFeatures([t.dynamic EXCEPT ![k].age = 0])
  BY <1>1 DEF IsTables, IsFeatures, LeadsWell, IsEntry
<1>6. \/ Resolved(s, scope, key) = Found(t.explicit[k]) /\ k \in DOMAIN t.explicit
      \/ Resolved(s, scope, key) = Found(t.response[key.key]) /\ key.key \in DOMAIN t.response
      \/ Resolved(s, scope, key) = Found(t.dynamic[k]) /\ k \in DOMAIN t.dynamic
      \/ Resolved(s, scope, key) = NotFound
  BY DEF Resolved
<1>7. \/ AfterResolve(s, scope, key) \in {s, t}
      \/ AfterResolve(s, scope, key) = [t EXCEPT !.explicit[k].age = 0] /\ k \in DOMAIN t.explicit
      \/ AfterResolve(s, scope, key) = [t EXCEPT !.response[key.key].age = 0] /\ key.key \in DOMAIN t.response
      \/ AfterResolve(s, scope, key) = [t EXCEPT !.dynamic[k].age = 0] /\ k \in DOMAIN t.dynamic
  BY DEF AfterResolve
<1> HIDE DEF t, k
<1>8. Resolved(s, scope, key).found => Resolved(s, scope, key).provider \in DOMAIN c.providers
  BY <1>3, <1>6 DEF Found, NotFound, IsEntry
<1>9. IsTables(AfterResolve(s, scope, key), c)
  <2>1. CASE AfterResolve(s, scope, key) \in {s, t}  BY <1>1, <2>1
  <2>2. CASE AfterResolve(s, scope, key) = [t EXCEPT !.explicit[k].age = 0] /\ k \in DOMAIN t.explicit
    <3>1. AfterResolve(s, scope, key) = [explicit |-> [t.explicit EXCEPT ![k].age = 0],
                                         response |-> t.response, dynamic |-> t.dynamic]
      BY <1>2, <2>2
    <3> QED  BY <1>1, <1>4, <2>2, <3>1 DEF IsTables
  <2>3. CASE AfterResolve(s, scope, key) = [t EXCEPT !.response[key.key].age = 0] /\ key.key \in DOMAIN t.response
    <3>1. AfterResolve(s, scope, key) = [explicit |-> t.explicit, dynamic |-> t.dynamic,
                                         response |-> [t.response EXCEPT ![key.key].age = 0]]
      BY <1>2, <2>3
    <3> QED  BY <1>1, <1>4, <2>3, <3>1 DEF IsTables
  <2>4. CASE AfterResolve(s, scope, key) = [t EXCEPT !.dynamic[k].age = 0] /\ k \in DOMAIN t.dynamic
    <3>1. AfterResolve(s, scope, key) = [explicit |-> t.explicit, response |-> t.response,
                                         dynamic |-> [t.dynamic EXCEPT ![k].age = 0]]
      BY <1>2, <2>4
    <3> QED  BY <1>1, <1>4, <1>5, <2>4, <3>1 DEF IsTables
  <2> QED  BY <1>7, <2>1, <2>2, <2>3, <2>4
<1> QED  BY <1>8, <1>9

LEMMA LearnedIsTables ==
    ASSUME NEW c, NEW s, IsTables(s, c), NEW scope \in Nat, NEW body, NEW id, NEW e, IsEntry(e, c), e.age = 0,
           RequestStickyKey(body).key \in Nat, LearningStickyKey(body).key \in Nat
    PROVE  IsTables(Learned(s, scope, body, id, e), c)
<1> DEFINE t == Pruned(s)
           key == RequestStickyKey(body)
           teach == LearningStickyKey(body)
           from(source) == [e EXCEPT !.source = source]
           own == IF key.level \in {"L2", "L3"}
                  THEN PutDynamic(t.dynamic, <<scope, key.key>>, from(key.source)) ELSE t.dynamic
           explicit == IF key.level = "L1" THEN Put(t.explicit, <<scope, key.key>>, from(key.source)) ELSE t.explicit
           dynamic  == IF teach.level = "L3" THEN PutDynamic(own, <<scope, teach.key>>, from(teach.source)) ELSE own
           response == IF LookupId(body, id) # 0 THEN Put(t.response, id, from("response_id")) ELSE t.response
<1>1. Learned(s, scope, body, id, e) = [explicit |-> explicit, dynamic |-> dynamic, response |-> response]
  BY DEF Learned
<1>2. \A source : IsEntry(from(source), c)  BY DEF IsEntry
<1>3. IsFeatures(Learned(s, scope, body, id, e).dynamic)
  <2>1. IsFeatures(s.dynamic)  BY DEF IsTables
  <2>2. e = [provider |-> e.provider, key |-> e.key, age |-> e.age, source |-> e.source, served |-> e.served]
    BY DEF IsEntry
  <2>3. OldestWent(Learned(s, scope, body, id, e).dynamic, s.dynamic, FeaturesOf(scope, body))
    BY <2>1, <2>2, LearningGivesUpTheOldest
  <2> QED  BY <2>3 DEF OldestWent
<1>4. LeadsWell(t.explicit, c) /\ LeadsWell(t.response, c) /\ LeadsWell(t.dynamic, c)
  BY PrunedIsTables DEF IsTables
<1> HIDE DEF t, key, teach, from
<1>5. LeadsWell(explicit, c) /\ LeadsWell(response, c) /\ LeadsWell(own, c)  BY <1>2, <1>4, PutLeads
<1> HIDE DEF own
<1>6. LeadsWell(dynamic, c)  BY <1>2, <1>5, PutLeads
<1> HIDE DEF explicit, dynamic, response
<1> QED  BY <1>1, <1>5, <1>6, <1>3 DEF IsTables

\* The age past every TTL is an integer.
LEMMA AgeCapIn == AgeCap \in Int
<1>1. PICK m \in TTLs : \A t \in TTLs : t <= m
  <2>1. ExplicitTTL \in Int /\ CacheHintTTL \in Int /\ DynamicFeatureTTL \in Int /\ ResponseLookupTTL \in Int
    BY StickyAssumption DEF TTLs
  <2> QED  BY <2>1 DEF TTLs
<1>2. TTLs \subseteq Int  BY StickyAssumption
<1>3. m + 1 \in {t + 1 : t \in TTLs} /\ \A t \in TTLs : t < m + 1  BY <1>1, <1>2
<1>4. AgeCap \in {t + 1 : t \in TTLs}  BY <1>3 DEF AgeCap
<1> QED  BY <1>2, <1>4

LEMMA AgedIsTables ==
    ASSUME NEW c, NEW s, IsTables(s, c)
    PROVE  IsTables(AgedTables(s), c)
<1> DEFINE older(t) == [k \in DOMAIN t |-> [t[k] EXCEPT !.age = IF @ < AgeCap THEN @ + 1 ELSE @]]
<1>1. ASSUME NEW t, LeadsWell(t, c)  PROVE LeadsWell(older(t), c)
  BY <1>1 DEF LeadsWell, IsEntry
<1>2. IsFeatures(older(s.dynamic))
  <2>1. AgeCap \in Int  BY AgeCapIn
  <2> QED  BY <2>1 DEF IsTables, IsFeatures, LeadsWell, IsEntry
<1>3. AgedTables(s) = [explicit |-> older(s.explicit), response |-> older(s.response), dynamic |-> older(s.dynamic)]
  BY DEF AgedTables
<1> HIDE DEF older
<1> QED  BY <1>1, <1>3, <1>2 DEF IsTables

-----------------------------------------------------------------------------
(***************************************************************************)
(* What a new proxy takes over.                                            *)
(***************************************************************************)
LEMMA IndexFacts ==
    ASSUME NEW c \in Configs, NEW name
    PROVE  /\ IndexByName(c.providers, name) \in Nat
           /\ IndexByName(c.providers, name) # 0 =>
                  /\ IndexByName(c.providers, name) \in DOMAIN c.providers
                  /\ c.providers[IndexByName(c.providers, name)].name = name
           /\ \A i \in DOMAIN c.providers : c.providers[i].name = name => IndexByName(c.providers, name) = i
<1>1. /\ DOMAIN c.providers = 1..Len(c.providers) /\ Len(c.providers) \in Nat
      /\ \A i, j \in DOMAIN c.providers : c.providers[i].name = c.providers[j].name => i = j
  BY ConfigFacts
<1>2. CASE \E i \in DOMAIN c.providers : c.providers[i].name = name
  <2>1. PICK i \in DOMAIN c.providers : c.providers[i].name = name  BY <1>2
  <2>2. IndexByName(c.providers, name) = CHOOSE j \in DOMAIN c.providers : c.providers[j].name = name
    BY <1>2 DEF IndexByName
  <2>3. IndexByName(c.providers, name) = i  BY <1>1, <2>1, <2>2
  <2> QED  BY <1>1, <2>1, <2>3
<1>3. CASE ~\E i \in DOMAIN c.providers : c.providers[i].name = name
  BY <1>3 DEF IndexByName
<1> QED  BY <1>2, <1>3

LEMMA NewProxyIsProxy ==
    ASSUME NEW c \in Configs
    PROVE  IsProxy(NewProxy(c)) /\ NewProxy(c).config = c
<1>1. PinnedIndex(c) \in Nat  BY IndexFacts DEF PinnedIndex
<1>2. IsTables(NoTables, c)
  <2>1. DOMAIN <<>> = {}  OBVIOUS
  <2> QED  BY <2>1, FS_EmptySet DEF IsTables, NoTables, LeadsWell, IsFeatures
<1> QED  BY <1>1, <1>2 DEF IsProxy, NewProxy

\* Old and new index belong to each other exactly for the providers that are
\* still the same.
LEMMA NewByOldFacts ==
    ASSUME NEW new, NEW old, new.config \in Configs, old.config \in Configs
    PROVE  LET N == NewByOldIndex(new, old) IN
           /\ \A o \in DOMAIN N :
                 /\ o \in Providers(old) /\ N[o] \in Providers(new)
                 /\ SameRuntimeIdentity(new.config.providers[N[o]], old.config.providers[o])
           /\ \A i \in Providers(new), o \in Providers(old) :
                 SameRuntimeIdentity(new.config.providers[i], old.config.providers[o]) =>
                     /\ o \in DOMAIN N /\ N[o] = i
                     /\ (CHOOSE x \in DOMAIN N : N[x] = i) = o
<1> DEFINE N == NewByOldIndex(new, old)
           np == new.config.providers
           op == old.config.providers
           oldOf(i) == IndexByName(op, Name(new, i))
           kept == {i \in Providers(new) : oldOf(i) # 0 /\ SameRuntimeIdentity(np[i], op[oldOf(i)])}
<1>1. N = [o \in {oldOf(i) : i \in kept} |-> CHOOSE i \in kept : oldOf(i) = o]
  BY DEF NewByOldIndex
<1>2. \A i \in kept : /\ i \in Providers(new) /\ oldOf(i) \in Providers(old)
                      /\ SameRuntimeIdentity(np[i], op[oldOf(i)])
  BY IndexFacts DEF Providers
<1>3. \A i, j \in Providers(new) : np[i].name = np[j].name => i = j
  BY ConfigFacts DEF Providers
<1>4. \A i \in Providers(new), o \in Providers(old) :
          SameRuntimeIdentity(np[i], op[o]) => oldOf(i) = o /\ i \in kept
  <2> SUFFICES ASSUME NEW i \in Providers(new), NEW o \in Providers(old), SameRuntimeIdentity(np[i], op[o])
               PROVE  oldOf(i) = o /\ i \in kept
    OBVIOUS
  <2>1. oldOf(i) = o  BY IndexFacts DEF Providers, Name, SameRuntimeIdentity
  <2>2. o # 0  BY ConfigFacts DEF Providers
  <2> QED  BY <2>1, <2>2
<1> HIDE DEF kept, oldOf, N
<1>5. \A o \in DOMAIN N : N[o] \in kept /\ oldOf(N[o]) = o  BY <1>1
<1>6. \A i \in kept : oldOf(i) \in DOMAIN N  BY <1>1
<1>7. \A o \in DOMAIN N : /\ o \in Providers(old) /\ N[o] \in Providers(new)
                          /\ SameRuntimeIdentity(np[N[o]], op[o])
  BY <1>2, <1>5
<1>8. ASSUME NEW i \in Providers(new), NEW o \in Providers(old), SameRuntimeIdentity(np[i], op[o])
      PROVE  /\ o \in DOMAIN N /\ N[o] = i
             /\ (CHOOSE x \in DOMAIN N : N[x] = i) = o
  <2>1. oldOf(i) = o /\ o \in DOMAIN N  BY <1>4, <1>6, <1>8
  <2>2. np[N[o]].name = np[i].name  BY <1>7, <1>8, <2>1 DEF SameRuntimeIdentity
  <2>3. N[o] = i  BY <1>3, <1>7, <2>1, <2>2
  <2>4. \A x \in DOMAIN N : N[x] = i => x = o  BY <1>5, <2>1
  <2> QED  BY <2>1, <2>3, <2>4
<1> QED  BY <1>7, <1>8 DEF N

LEMMA InheritedIsTables ==
    ASSUME NEW c, NEW d, NEW s, IsTables(s, c), NEW N,
           \A o \in DOMAIN N : /\ N[o] \in DOMAIN d.providers
                               /\ SameRuntimeIdentity(d.providers[N[o]], c.providers[o])
    PROVE  IsTables(Inherited(s, N), d)
<1>1. ASSUME NEW t, LeadsWell(t, c)  PROVE LeadsWell(Moved(t, N), d)
  <2> SUFFICES ASSUME NEW k \in DOMAIN t, t[k].provider \in DOMAIN N
               PROVE  IsEntry([t[k] EXCEPT !.provider = N[t[k].provider]], d)
    BY DEF LeadsWell, Moved
  <2>1. IsEntry(t[k], c)  BY <1>1 DEF LeadsWell
  <2> QED  BY <2>1 DEF IsEntry, SameRuntimeIdentity
<1>2. IsFeatures(Moved(s.dynamic, N))
  <2> DEFINE t == s.dynamic
             kept == {k \in DOMAIN t : t[k].provider \in DOMAIN N}
  <2>1. Moved(t, N) = [k \in kept |-> [t[k] EXCEPT !.provider = N[@]]]  BY DEF Moved
  <2>2. IsFeatures(t) /\ kept \in SUBSET DOMAIN t  BY DEF IsTables
  <2>3. \A k \in kept : [t[k] EXCEPT !.provider = N[@]].age = t[k].age
    BY DEF IsTables, LeadsWell, IsEntry
  <2> HIDE DEF t, kept
  <2>4. IsFiniteSet(kept)  BY <2>2, FS_Subset DEF IsFeatures
  <2> QED  BY <2>1, <2>2, <2>3, <2>4 DEF IsFeatures, t
<1> QED  BY <1>1, <1>2 DEF IsTables, Inherited

LEMMA InheritIsProxy ==
    ASSUME NEW new, NEW old, IsProxy(new), IsProxy(old)
    PROVE  Later(new, Inherit(new, old))
<1> DEFINE N == NewByOldIndex(new, old)
<1>1. \A o \in DOMAIN N : /\ N[o] \in DOMAIN new.config.providers
                          /\ SameRuntimeIdentity(new.config.providers[N[o]], old.config.providers[o])
  BY NewByOldFacts DEF IsProxy, Providers
<1> HIDE DEF N
<1>2. IsTables(Inherited(old.sticky, N), new.config)  BY <1>1, InheritedIsTables DEF IsProxy
<1>3. \A s \in Scopes : InheritCursor(new, old, s) \in Int
  BY IndexFacts DEF InheritCursor, IsProxy
<1> DEFINE cur == [s \in Scopes |-> InheritCursor(new, old, s)]
<1>4. PICK out, busy, keyOut, keyCur, brk :
          Inherit(new, old) = [new EXCEPT !.out = out, !.busy = busy, !.keyOut = keyOut, !.keyCur = keyCur,
                                          !.brk = brk, !.cur = cur, !.sticky = Inherited(old.sticky, N)]
  BY DEF Inherit, N
<1>5. cur \in [Scopes -> Int]  BY <1>3
<1> HIDE DEF cur
<1>6. Inherit(new, old) = [config |-> new.config, out |-> out, busy |-> busy, keyOut |-> keyOut, cur |-> cur,
                           keyCur |-> keyCur, brk |-> brk, sticky |-> Inherited(old.sticky, N)]
  BY <1>4 DEF IsProxy
<1> QED  BY <1>2, <1>5, <1>6 DEF IsProxy, Later

-----------------------------------------------------------------------------
(***************************************************************************)
(* What requests and the clock do to a proxy.                              *)
(***************************************************************************)
LEMMA Change ==
    ASSUME NEW p, IsProxy(p)
    PROVE  /\ \A x : Later(p, [p EXCEPT !.out = x]) /\ Later(p, [p EXCEPT !.busy = x])
                     /\ Later(p, [p EXCEPT !.keyOut = x]) /\ Later(p, [p EXCEPT !.keyCur = x])
                     /\ Later(p, [p EXCEPT !.brk = x])
           /\ \A x \in [Scopes -> Int] : Later(p, [p EXCEPT !.cur = x])
           /\ \A x : IsTables(x, p.config) => Later(p, [p EXCEPT !.sticky = x])
           /\ \A s \in Scopes, i \in Int : Later(p, [p EXCEPT !.cur[s] = i])
<1>1. \A s \in Scopes, i \in Int : [p.cur EXCEPT ![s] = i] \in [Scopes -> Int]  BY DEF IsProxy
<1>2. \A s, i : [p EXCEPT !.cur[s] = i] = [p EXCEPT !.cur = [p.cur EXCEPT ![s] = i]]  BY DEF IsProxy
<1>3. \A x \in [Scopes -> Int] : Later(p, [p EXCEPT !.cur = x])  BY DEF IsProxy, Later
<1>4. \A x : IsTables(x, p.config) => Later(p, [p EXCEPT !.sticky = x])  BY DEF IsProxy, Later
<1>5. \A x : Later(p, [p EXCEPT !.out = x]) /\ Later(p, [p EXCEPT !.busy = x])  BY DEF IsProxy, Later
<1>6. \A x : Later(p, [p EXCEPT !.keyOut = x]) /\ Later(p, [p EXCEPT !.keyCur = x])
             /\ Later(p, [p EXCEPT !.brk = x])
  BY DEF IsProxy, Later
<1> QED  BY <1>1, <1>2, <1>3, <1>4, <1>5, <1>6

LEMMA LaterLater ==
    ASSUME NEW p, NEW q, NEW x, Later(p, q), Later(q, x)
    PROVE  Later(p, x)
  BY DEF Later

LEMMA HandBackLater ==
    ASSUME NEW p, IsProxy(p), NEW q
    PROVE  Later(p, HandBack(p, q))
<1>1. CASE q.busyProbe /\ p.busy[q.provider].probes > 0
  BY <1>1, Change DEF HandBack
<1>2. CASE ~(q.busyProbe /\ p.busy[q.provider].probes > 0)
  BY <1>2 DEF HandBack, Later
<1> QED  BY <1>1, <1>2

LEMMA PassedByLater ==
    ASSUME NEW p, IsProxy(p), NEW is
    PROVE  Later(p, PassedBy(p, is))
  BY Change DEF PassedBy

LEMMA KeyPenaltyLater ==
    ASSUME NEW p, IsProxy(p), NEW i, NEW k
    PROVE  Later(p, KeyPenalty(p, i, k))
<1> DEFINE hit == [p EXCEPT !.keyOut[i][k] = 1]
<1>1. Later(p, hit)  BY Change
<1>2. CASE p.keyOut[i][k] > 0  BY <1>2 DEF KeyPenalty, Later
<1>3. CASE ~(p.keyOut[i][k] > 0)
  <2>1. PICK x : KeyPenalty(p, i, k) = [hit EXCEPT !.keyCur = x]  BY <1>3 DEF KeyPenalty
  <2> HIDE DEF hit
  <2>2. IsProxy(hit)  BY <1>1 DEF Later
  <2>3. Later(hit, [hit EXCEPT !.keyCur = x])  BY <2>2, Change
  <2> QED  BY <1>1, <2>1, <2>3, LaterLater
<1> QED  BY <1>2, <1>3

LEMMA ProviderPenaltyLater ==
    ASSUME NEW p, IsProxy(p), p.config.providers # <<>>, NEW i \in Int
    PROVE  Later(p, ProviderPenalty(p, i))
<1> DEFINE hit == [p EXCEPT !.out[i] = 1]
           cur == [s \in Scopes |-> IF hit.cur[s] = i THEN NextActive(hit, i) ELSE hit.cur[s]]
<1>1. Later(p, hit)  BY Change
<1>2. CASE p.out[i] > 0  BY <1>2 DEF ProviderPenalty, Later
<1>3. CASE ~(p.out[i] > 0)
  <2>1. ProviderPenalty(p, i) = [hit EXCEPT !.cur = cur]  BY <1>3 DEF ProviderPenalty
  <2> HIDE DEF hit
  <2>2. IsProxy(hit) /\ hit.config.providers # <<>>  BY <1>1 DEF Later
  <2>3. cur \in [Scopes -> Int]  BY <2>2, NextActiveIn DEF IsProxy
  <2> HIDE DEF cur
  <2>4. Later(hit, [hit EXCEPT !.cur = cur])  BY <2>2, <2>3, Change
  <2> QED  BY <1>1, <2>1, <2>4, LaterLater
<1> QED  BY <1>2, <1>3

LEMMA PassedIsProxy ==
    ASSUME NEW p, IsProxy(p)
    PROVE  Later(p, Passed(p))
<1>1. p # NoProxy
  <2>1. "out" \in DOMAIN p  BY DEF IsProxy
  <2>2. "out" \notin DOMAIN NoProxy  BY DEF NoProxy
  <2> QED  BY <2>1, <2>2
<1>2. PICK out, busy, keyOut, brk :
          Passed(p) = [p EXCEPT !.out = out, !.busy = busy, !.keyOut = keyOut, !.brk = brk,
                                !.sticky = AgedTables(p.sticky)]
  BY <1>1 DEF Passed
<1>3. IsTables(AgedTables(p.sticky), p.config)  BY AgedIsTables DEF IsProxy
<1>4. Passed(p) = [config |-> p.config, out |-> out, busy |-> busy, keyOut |-> keyOut, cur |-> p.cur,
                   keyCur |-> p.keyCur, brk |-> brk, sticky |-> AgedTables(p.sticky)]
  BY <1>2 DEF IsProxy
<1> QED  BY <1>3, <1>4 DEF IsProxy, Later

-----------------------------------------------------------------------------
(***************************************************************************)
(* Steps of one request.                                                   *)
(***************************************************************************)
StateOK(gs, rs, l) ==
    /\ l \in Slots /\ GensOK(gs) /\ IsProxy(gs[l])
    /\ rs = [r \in Requests |-> rs[r]] /\ \A r \in Requests : AtHome(rs[r], gs)

\* Only configurations decide whether a request is at home.
LEMMA StaysAtHome ==
    ASSUME NEW q, NEW gs, NEW hs, AtHome(q, gs), Active(q) => Later(gs[q.gen], hs[q.gen])
    PROVE  AtHome(q, hs)
<1>1. Active(q) => hs[q.gen].config = gs[q.gen].config /\ IsProxy(hs[q.gen])  BY DEF Later
<1>2. Sending(q) => Active(q)  BY DEF Sending, Active
<1> QED  BY <1>1, <1>2 DEF AtHome, Providers, KeysOf

LEMMA RequestMoves ==
    ASSUME GenInv, NEW r \in Requests, NEW g \in Slots, NEW p, IsProxy(gen[g]), Later(gen[g], p),
           NEW q, AtHome(q, [gen EXCEPT ![g] = p])
    PROVE  StateOK([gen EXCEPT ![g] = p], [req EXCEPT ![r] = q], live)
<1> DEFINE gs == [gen EXCEPT ![g] = p]
           rs == [req EXCEPT ![r] = q]
<1>1. GensOK(gen) /\ IsProxy(gen[live]) /\ live \in Slots  BY DEF GenInv
<1>2. \A h \in Slots : IsProxy(gen[h]) => Later(gen[h], gs[h])  BY <1>1 DEF GensOK, Later
<1>3. GensOK(gs)  BY <1>1 DEF GensOK, Later
<1>4. IsProxy(gs[live])  BY <1>1, <1>2 DEF Later
<1>5. rs = [s \in Requests |-> rs[s]]  BY DEF GenInv
<1>6. ASSUME NEW s \in Requests  PROVE AtHome(rs[s], gs)
  <2>1. CASE s = r  BY <2>1 DEF GenInv
  <2>2. CASE s # r
    <3>1. rs[s] = req[s] /\ AtHome(req[s], gen)  BY <2>2 DEF GenInv
    <3>2. Active(req[s]) => Later(gen[req[s].gen], gs[req[s].gen])  BY <1>2, <3>1 DEF AtHome
    <3> QED  BY <3>1, <3>2, StaysAtHome
  <2> QED  BY <2>1, <2>2
<1> HIDE DEF gs, rs
<1> QED  BY <1>1, <1>3, <1>4, <1>5, <1>6 DEF StateOK, gs, rs

\* Forgetting what nobody can reach disturbs nobody.
LEMMA KeepFacts ==
    ASSUME NEW gs, NEW rs, NEW l, StateOK(gs, rs, l)
    PROVE  StateOK(Keep(gs, rs, l), rs, l) /\ Keep(gs, rs, l)[l] = gs[l]
<1> DEFINE hs == Keep(gs, rs, l)
<1>1. hs = [g \in Slots |-> IF g \in Reachable(rs, l) THEN gs[g] ELSE NoProxy]  BY DEF Keep
<1>2. l \in Reachable(rs, l) /\ l \in Slots  BY DEF Reachable, StateOK
<1>3. GensOK(hs) /\ hs[l] = gs[l]  BY <1>1, <1>2 DEF GensOK, StateOK
<1>4. ASSUME NEW r \in Requests  PROVE AtHome(rs[r], hs)
  <2>1. AtHome(rs[r], gs)  BY DEF StateOK
  <2>2. ASSUME Active(rs[r])  PROVE Later(gs[rs[r].gen], hs[rs[r].gen])
    <3>1. rs[r] \notin {Idle, Done}  BY <2>2 DEF Active, Idle, Done
    <3>2. rs[r].gen \in Reachable(rs, l) /\ rs[r].gen \in Slots /\ IsProxy(gs[rs[r].gen])
      BY <2>1, <2>2, <3>1 DEF Reachable, AtHome
    <3> QED  BY <1>1, <3>2 DEF Later
  <2> HIDE DEF hs
  <2> QED  BY <2>1, <2>2, StaysAtHome
<1> HIDE DEF hs
<1> QED  BY <1>2, <1>3, <1>4 DEF StateOK, hs

LEMMA LeaveStep ==
    ASSUME GenInv, NEW r \in Requests, NEW g \in Slots, NEW p, IsProxy(gen[g]), Later(gen[g], p),
           Leave(r, [gen EXCEPT ![g] = p])
    PROVE  StateOK(gen', req', live)
<1> DEFINE gs == [gen EXCEPT ![g] = p]
<1>1. req' = [req EXCEPT ![r] = Done] /\ gen' = Keep(gs, req', live)  BY DEF Leave
<1>2. AtHome(Done, gs)  BY DEF AtHome, Done, Active, Sending
<1>3. StateOK(gs, req', live)  BY <1>1, <1>2, RequestMoves
<1> HIDE DEF gs
<1> QED  BY <1>1, <1>3, KeepFacts

\* The request leaves without having changed its proxy.
LEMMA LeaveUnchanged ==
    ASSUME GenInv, NEW r \in Requests, Active(req[r]), Leave(r, gen)
    PROVE  StateOK(gen', req', live)
<1>1. req[r].gen \in Slots /\ IsProxy(gen[req[r].gen])  BY DEF GenInv, AtHome
<1>2. gen = [gen EXCEPT ![req[r].gen] = gen[req[r].gen]]  BY <1>1 DEF GenInv, GensOK
<1>3. Later(gen[req[r].gen], gen[req[r].gen])  BY <1>1 DEF Later
<1>4. Leave(r, [gen EXCEPT ![req[r].gen] = gen[req[r].gen]])  BY <1>2
<1> QED  BY <1>1, <1>3, <1>4, LeaveStep

\* Wherever the walk goes on from, it ends at a provider of its proxy.
LEMMA WalkStep ==
    ASSUME GenInv, NEW r \in Requests, NEW p, NEW q, q.gen \in Slots, IsProxy(gen[q.gen]),
           gen[q.gen].config.providers # <<>>, Later(gen[q.gen], p),
           q.start \in Int, q.next \in Nat, q.says \in Conversations, Walk(r, p, q)
    PROVE  StateOK(gen', req', live)
<1> DEFINE n == Len(p.config.providers)
           at(m) == Around(q.start, m, n)
           takes(i) == Open(p, i) /\ AllowResult(p.brk[i]).allowed /\ (p.busy[i].left = 0 \/ i = q.start)
           ms == {m \in q.next..n - 1 : takes(at(m))}
           stop == IF ms = {} THEN n ELSE CHOOSE m \in ms : \A h \in ms : m <= h
           passed == PassedBy(p, {at(m) : m \in q.next..stop - 1})
           i == at(stop)
           k == StartKey(p, i, ScopeOf[r])
           moved == [passed EXCEPT !.brk[i] = AllowState(p.brk[i]), !.keyCur[ScopeOf[r]][i] = k]
           onward == [pc |-> IF p.busy[i].left > 0 THEN "waiting" ELSE "sent", gen |-> q.gen, says |-> q.says,
                      start |-> q.start, next |-> stop + 1, provider |-> i, key |-> k,
                      probe |-> AllowResult(p.brk[i]).usedProbe, busyProbe |-> FALSE]
<1>1. \/ stop = n /\ Leave(r, [gen EXCEPT ![q.gen] = passed])
      \/ stop # n /\ gen' = [gen EXCEPT ![q.gen] = moved] /\ req' = [req EXCEPT ![r] = onward]
  BY DEF Walk
<1>2. IsProxy(p) /\ p.config = gen[q.gen].config  BY DEF Later
<1>3. Later(p, passed)  BY <1>2, PassedByLater
<1>4. Later(gen[q.gen], passed)  BY <1>3, LaterLater
<1>5. CASE stop = n /\ Leave(r, [gen EXCEPT ![q.gen] = passed])
  <2> HIDE DEF passed, stop
  <2> QED  BY <1>4, <1>5, LeaveStep
<1>6. CASE stop # n /\ gen' = [gen EXCEPT ![q.gen] = moved] /\ req' = [req EXCEPT ![r] = onward]
  <2>1. n \in Nat \ {0} /\ Providers(p) = 1..n  BY <1>2, ConfigFacts DEF IsProxy, Providers
  <2> HIDE DEF takes
  <2>2. ms # {}  BY <1>6
  <2> HIDE DEF n
  <2>3. ms \subseteq Nat  BY <2>1
  <2> HIDE DEF ms
  <2>11. \E m \in ms : \A h \in ms : m <= h  BY <2>2, <2>3, LeastElement
  <2>4. stop \in ms  BY <2>2, <2>11
  <2> HIDE DEF stop
  <2>5. stop \in Nat  BY <2>3, <2>4
  <2>6. i \in Providers(p)
    <3>1. q.start \in Int /\ stop \in Int /\ n \in Nat \ {0}  BY <2>1, <2>5
    <3>2. Around(q.start, stop, n) \in 1..n  BY <3>1, AroundIn, Zenon
    <3> QED  BY <2>1, <3>2
  <2> HIDE DEF i
  <2>7. k \in KeysOf(p, i)  BY <1>2, <2>6, StartKeyIn
  <2> HIDE DEF k, passed
  <2>8. Later(passed, moved)
    <3>1. PICK x, y : moved = [[passed EXCEPT !.brk = x] EXCEPT !.keyCur = y]  OBVIOUS
    <3>2. Later(passed, [passed EXCEPT !.brk = x])  BY <1>3, Change DEF Later
    <3>3. Later([passed EXCEPT !.brk = x], [[passed EXCEPT !.brk = x] EXCEPT !.keyCur = y])
      BY <3>2, Change DEF Later
    <3> QED  BY <3>1, <3>2, <3>3, LaterLater
  <2> HIDE DEF moved
  <2>9. Later(gen[q.gen], moved)  BY <1>4, <2>8, LaterLater
  <2>10. AtHome(onward, [gen EXCEPT ![q.gen] = moved])
    <3>1. [gen EXCEPT ![q.gen] = moved][q.gen] = moved  BY DEF GenInv, GensOK
    <3>2. IsProxy(moved) /\ moved.config = p.config /\ moved.config.providers # <<>>
      BY <1>2, <2>9 DEF Later
    <3>3. Walking(onward)  BY <2>5 DEF Walking
    <3>4. onward.provider \in Providers(moved) /\ onward.key \in KeysOf(moved, onward.provider)
      BY <2>6, <2>7, <3>2 DEF Providers, KeysOf
    <3>5. onward.gen = q.gen  OBVIOUS
    <3> HIDE DEF onward
    <3> QED  BY <3>1, <3>2, <3>3, <3>4, <3>5 DEF AtHome
  <2> HIDE DEF onward
  <2> QED  BY <1>6, <2>9, <2>10, RequestMoves
<1> QED  BY <1>1, <1>5, <1>6

LEMMA OnlyRequestMoves ==
    ASSUME GenInv, NEW r \in Requests, NEW q, AtHome(q, gen)
    PROVE  StateOK(gen, [req EXCEPT ![r] = q], live)
<1>1. gen = [gen EXCEPT ![live] = gen[live]] /\ live \in Slots /\ IsProxy(gen[live])
  BY DEF GenInv, GensOK
<1>2. Later(gen[live], gen[live])  BY <1>1 DEF Later
<1>3. AtHome(q, [gen EXCEPT ![live] = gen[live]])  BY <1>1
<1>4. StateOK([gen EXCEPT ![live] = gen[live]], [req EXCEPT ![r] = q], live)
  BY <1>1, <1>2, <1>3, RequestMoves
<1> QED  BY <1>1, <1>4

LEMMA HomeFacts ==
    ASSUME GenInv, NEW r \in Requests, Active(req[r])
    PROVE  LET q == req[r] IN
           /\ q.gen \in Slots /\ IsProxy(gen[q.gen]) /\ gen[q.gen].config.providers # <<>>
           /\ ScopeOf[r] \in Scopes
           /\ q.pc \in {"waiting", "sent"} => Walking(q)
           /\ Sending(q) => q.provider \in Providers(gen[q.gen]) /\ q.provider \in Int
                            /\ q.key \in KeysOf(gen[q.gen], q.provider) /\ q.key \in Int
<1>1. AtHome(req[r], gen)  BY DEF GenInv
<1>2. \A p : IsProxy(p) => /\ \A i \in Providers(p) : i \in Int
                           /\ \A i \in Providers(p) : \A k \in KeysOf(p, i) : k \in Int
  BY ConfigFacts DEF IsProxy, Providers, KeysOf
<1> QED  BY <1>1, <1>2 DEF AtHome, Scopes

LEMMA ReloadStep ==
    ASSUME GenInv, NEW c \in Configs, Reload(c)
    PROVE  StateOK(gen', req', live')
<1> DEFINE free == Slots \ Reachable(req, live)
           g == CHOOSE f \in free : TRUE
           new == IF gen[live].config.providers = <<>> \/ c.providers = <<>>
                  THEN NewProxy(c) ELSE Inherit(NewProxy(c), gen[live])
           gs == [gen EXCEPT ![g] = new]
<1>1. free # {} /\ live' = g /\ gen' = Keep(gs, req, g) /\ req' = req  BY DEF Reload
<1>2. g \in Slots /\ g \notin Reachable(req, live)  BY <1>1
<1>3. IsProxy(new)  BY NewProxyIsProxy, InheritIsProxy DEF GenInv, Later
<1> HIDE DEF g, new
<1>4. GensOK(gs) /\ gs[g] = new  BY <1>2, <1>3 DEF GenInv, GensOK
<1>5. ASSUME NEW r \in Requests  PROVE AtHome(req[r], gs)
  <2>1. AtHome(req[r], gen)  BY DEF GenInv
  <2>2. ASSUME Active(req[r])  PROVE Later(gen[req[r].gen], gs[req[r].gen])
    <3>1. req[r] \notin {Idle, Done}  BY <2>2 DEF Active, Idle, Done
    <3>2. req[r].gen \in Reachable(req, live) /\ req[r].gen \in Slots /\ IsProxy(gen[req[r].gen])
      BY <2>1, <2>2, <3>1 DEF Reachable, AtHome
    <3> QED  BY <1>2, <3>2 DEF Later, GenInv, GensOK
  <2> HIDE DEF gs
  <2> QED  BY <2>1, <2>2, StaysAtHome
<1> HIDE DEF gs
<1>6. StateOK(gs, req, g)  BY <1>2, <1>3, <1>4, <1>5 DEF StateOK, GenInv
<1> QED  BY <1>1, <1>6, KeepFacts

LEMMA DispatchStep ==
    ASSUME GenInv, NEW r \in Requests, Dispatch(r)
    PROVE  StateOK(gen', req', live')
<1> DEFINE q == [pc |-> "dispatched", gen |-> live]
<1>1. AtHome(q, gen)  BY DEF AtHome, Active, Sending, Dispatch, GenInv
<1>2. gen' = gen /\ live' = live /\ req' = [req EXCEPT ![r] = q]  BY DEF Dispatch
<1> HIDE DEF q
<1> QED  BY <1>1, <1>2, OnlyRequestMoves

LEMMA SetOutStep ==
    ASSUME GenInv, NEW r \in Requests, NEW conversation \in Conversations, SetOut(r, conversation)
    PROVE  StateOK(gen', req', live')
<1> DEFINE g == req[r].gen
           p == gen[g]
           s == ScopeOf[r]
           key == RequestStickyKey(conversation.body)
           hint == Resolved(p.sticky, s, key)
           cursor == FirstFrom(p.cur[s], Len(p.config.providers), Up(p))
           tables == AfterResolve(p.sticky, s, key)
           moved == [p EXCEPT !.sticky = tables, !.cur[s] = cursor]
           hinted == [moved EXCEPT !.keyCur[s][hint.provider] = hint.key]
           from(i) == [gen |-> g, says |-> conversation, start |-> i, next |-> 0]
<1>1. live' = live /\ req[r].pc = "dispatched"  BY DEF SetOut
<1>2. \/ Leave(r, gen)
      \/ hint.found /\ Walk(r, hinted, from(hint.provider))
      \/ Walk(r, moved, from(cursor))
  BY DEF SetOut
<1>3. Active(req[r])  BY <1>1 DEF Active
<1>4. g \in Slots /\ IsProxy(p) /\ p.config.providers # <<>> /\ s \in Scopes  BY <1>3, HomeFacts
<1>5. IsTables(tables, p.config) /\ (hint.found => hint.provider \in DOMAIN p.config.providers)
  BY <1>4, ResolveFacts DEF IsProxy
<1>6. hint.found => hint.provider \in Int  BY <1>4, <1>5, ConfigFacts DEF IsProxy
<1>7. cursor \in Int  BY <1>4, ConfigFacts, FirstFromIn DEF IsProxy
<1> HIDE DEF hint, tables, cursor, key
<1>8. Later(p, moved)
  <2> DEFINE x == [p EXCEPT !.sticky = tables]
  <2>1. moved = [x EXCEPT !.cur[s] = cursor]  OBVIOUS
  <2>2. Later(p, x)  BY <1>4, <1>5, Change
  <2> HIDE DEF p, s, moved, x
  <2>3. IsProxy(x)  BY <2>2 DEF Later
  <2>4. Later(x, [x EXCEPT !.cur[s] = cursor])  BY <1>4, <1>7, <2>3, Change
  <2> QED  BY <2>1, <2>2, <2>4, LaterLater
<1> HIDE DEF moved
<1>9. Later(p, hinted)
  <2>1. Later(moved, hinted)  BY <1>8, Change DEF Later
  <2> QED  BY <1>8, <2>1, LaterLater
<1> HIDE DEF hinted
<1>10. CASE Leave(r, gen)  BY <1>1, <1>3, <1>10, LeaveUnchanged
<1>11. ASSUME NEW i \in Int, NEW x, Later(p, x), Walk(r, x, from(i))  PROVE StateOK(gen', req', live')
  <2>1. /\ from(i).gen = g /\ from(i).start \in Int /\ from(i).next \in Nat
        /\ from(i).says \in Conversations
    OBVIOUS
  <2> HIDE DEF from
  <2> QED  BY <1>1, <1>4, <1>11, <2>1, WalkStep
<1> HIDE DEF from
<1> QED  BY <1>2, <1>6, <1>7, <1>8, <1>9, <1>10, <1>11

LEMMA SentFacts ==
    ASSUME NEW q, Walking(q), NEW probe
    PROVE  LET sent == [q EXCEPT !.pc = "sent", !.busyProbe = probe] IN
           Walking(sent) /\ sent.gen = q.gen /\ sent.provider = q.provider /\ sent.key = q.key
<1> DEFINE x == [q EXCEPT !.pc = "sent"]
<1>1. Walking(x) /\ x.gen = q.gen /\ x.provider = q.provider /\ x.key = q.key  BY DEF Walking
<1>2. [q EXCEPT !.pc = "sent", !.busyProbe = probe] = [x EXCEPT !.busyProbe = probe]  OBVIOUS
<1> HIDE DEF x
<1> DEFINE sent == [x EXCEPT !.busyProbe = probe]
<1>3. Walking(sent) /\ sent.gen = x.gen /\ sent.provider = x.provider /\ sent.key = x.key
  BY <1>1 DEF Walking
<1> QED  BY <1>1, <1>2, <1>3

LEMMA WaitOverStep ==
    ASSUME GenInv, NEW r \in Requests, WaitOver(r)
    PROVE  StateOK(gen', req', live')
<1> DEFINE q == req[r]
           p == gen[q.gen]
           i == q.provider
           back == [p EXCEPT !.brk[i] = SlotReturned(p.brk[i], q.probe)]
           probed == [p EXCEPT !.busy[i].probes = 1]
           sent == [q EXCEPT !.pc = "sent", !.busyProbe = TRUE]
<1>1. live' = live /\ q.pc = "waiting"  BY DEF WaitOver
<1>2. \/ Walk(r, back, q)
      \/ gen' = [gen EXCEPT ![q.gen] = probed] /\ req' = [req EXCEPT ![r] = sent]
  <2>1. \/ Walk(r, back, q)
        \/ /\ gen' = [gen EXCEPT ![q.gen].busy[i].probes = 1]
           /\ req' = [req EXCEPT ![r].pc = "sent", ![r].busyProbe = TRUE]
    BY DEF WaitOver
  <2> QED  BY <2>1 DEF GenInv
<1>3. Active(q) /\ Sending(q)  BY <1>1 DEF Active, Sending
<1>4. /\ q.gen \in Slots /\ IsProxy(p) /\ p.config.providers # <<>> /\ Walking(q)
      /\ i \in Providers(p) /\ q.key \in KeysOf(p, i)
  BY <1>1, <1>3, HomeFacts
<1>5. Later(p, back) /\ Later(p, probed)  BY <1>4, Change
<1>6. CASE Walk(r, back, q)
  <2> HIDE DEF back
  <2> QED  BY <1>1, <1>4, <1>5, <1>6, WalkStep DEF Walking
<1>7. CASE gen' = [gen EXCEPT ![q.gen] = probed] /\ req' = [req EXCEPT ![r] = sent]
  <2>1. Walking(sent) /\ sent.gen = q.gen /\ sent.provider = i /\ sent.key = q.key
    BY <1>4, SentFacts
  <2>2. [gen EXCEPT ![q.gen] = probed][q.gen] = probed  BY <1>4 DEF GenInv, GensOK
  <2>3. IsProxy(probed) /\ probed.config = p.config  BY <1>5 DEF Later
  <2> HIDE DEF probed, sent
  <2>4. AtHome(sent, [gen EXCEPT ![q.gen] = probed])
    BY <1>4, <2>1, <2>2, <2>3 DEF AtHome, Providers, KeysOf
  <2> QED  BY <1>1, <1>4, <1>5, <1>7, <2>4, RequestMoves
<1> QED  BY <1>2, <1>6, <1>7

\* A failed attempt goes on from a later state of its proxy.
LEMMA GoOnStep ==
    ASSUME GenInv, NEW r \in Requests, req[r].pc = "sent", NEW p, Later(gen[req[r].gen], p), GoOn(r, p)
    PROVE  StateOK(gen', req', live)
<1> DEFINE q == req[r]
           s == ScopeOf[r]
           next == NextActive(p, q.provider)
           moved == [p EXCEPT !.cur[s] = next]
<1>1. /\ q.gen \in Slots /\ IsProxy(gen[q.gen]) /\ gen[q.gen].config.providers # <<>> /\ Walking(q)
      /\ q.provider \in Int /\ s \in Scopes
  BY HomeFacts DEF Active, Sending
<1>2. IsProxy(p) /\ p.config.providers # <<>>  BY <1>1 DEF Later
<1>3. next \in Int  BY <1>1, <1>2, NextActiveIn
<1> HIDE DEF next
<1>4. Later(p, moved)  BY <1>1, <1>2, <1>3, Change
<1>5. Walk(r, moved, q)  BY DEF GoOn, next
<1> HIDE DEF moved
<1>6. Later(gen[q.gen], moved)  BY <1>4, LaterLater
<1> QED  BY <1>1, <1>5, <1>6, WalkStep DEF Walking

LEMMA SucceedStep ==
    ASSUME GenInv, NEW r \in Requests, Succeed(r)
    PROVE  StateOK(gen', req', live')
<1> DEFINE q == req[r]
           p == gen[q.gen]
           s == ScopeOf[r]
           tables == Learned(p.sticky, s, q.says.body, q.says.id, Entry(p, q))
           keyed == [p EXCEPT !.keyCur[s][q.provider] = q.key, !.busy[q.provider] = NotBusy,
                              !.brk[q.provider] = RecordSuccess(p.brk[q.provider], q.probe)]
           moved == [p EXCEPT !.cur[s] = q.provider, !.keyCur[s][q.provider] = q.key,
                              !.busy[q.provider] = NotBusy, !.sticky = tables,
                              !.brk[q.provider] = RecordSuccess(p.brk[q.provider], q.probe)]
<1>1. live' = live /\ q.pc = "sent" /\ Leave(r, [gen EXCEPT ![q.gen] = moved])  BY DEF Succeed
<1>2. /\ q.gen \in Slots /\ IsProxy(p) /\ q.provider \in Providers(p) /\ q.provider \in Int /\ s \in Scopes
  BY <1>1, HomeFacts DEF Active, Sending
<1>3. IsEntry(Entry(p, q), p.config)  BY <1>2 DEF IsEntry, Entry, Providers, SameRuntimeIdentity
<1>4. s \in Nat /\ Entry(p, q).age = 0 /\ RequestStickyKey(q.says.body).key \in Nat
      /\ LearningStickyKey(q.says.body).key \in Nat
  BY <1>1, HomeFacts, GenerationsAssumption DEF Active, Walking, Entry
<1>5. IsTables(tables, p.config)  BY <1>2, <1>3, <1>4, LearnedIsTables DEF IsProxy
<1> HIDE DEF tables
<1>6. Later(p, moved)
  <2> DEFINE cur == [p.cur EXCEPT ![s] = q.provider]
  <2>1. cur \in [Scopes -> Int]  BY <1>2 DEF IsProxy
  <2>2. PICK keyCur, busy, brk :
            moved = [p EXCEPT !.cur = cur, !.keyCur = keyCur, !.busy = busy, !.sticky = tables, !.brk = brk]
    OBVIOUS
  <2> HIDE DEF cur, moved
  <2>3. moved = [config |-> p.config, out |-> p.out, busy |-> busy, keyOut |-> p.keyOut, cur |-> cur,
                 keyCur |-> keyCur, brk |-> brk, sticky |-> tables]
    BY <1>2, <2>2 DEF IsProxy
  <2> QED  BY <1>2, <1>5, <2>1, <2>3 DEF IsProxy, Later
<1> HIDE DEF moved
<1> QED  BY <1>1, <1>2, <1>6, LeaveStep

LEMMA BreakStep ==
    ASSUME GenInv, NEW r \in Requests, Break(r)
    PROVE  StateOK(gen', req', live')
<1> DEFINE q == req[r]
           p == HandBack(gen[q.gen], q)
           hit == [p EXCEPT !.brk[q.provider] = RecordFailure(p.brk[q.provider], q.probe)]
<1>1. live' = live /\ q.pc = "sent" /\ GoOn(r, hit)  BY DEF Break
<1>2. Later(gen[q.gen], p)  BY <1>1, HomeFacts, HandBackLater DEF Active
<1> HIDE DEF p
<1>3. Later(p, hit)  BY <1>2, Change DEF Later
<1> HIDE DEF hit
<1>4. Later(gen[q.gen], hit)  BY <1>2, <1>3, LaterLater
<1> QED  BY <1>1, <1>4, GoOnStep

LEMMA CancelStep ==
    ASSUME GenInv, NEW r \in Requests, Cancel(r)
    PROVE  StateOK(gen', req', live')
<1> DEFINE q == req[r]
           p == HandBack(gen[q.gen], q)
           back == [p EXCEPT !.brk[q.provider] = SlotReturned(p.brk[q.provider], q.probe)]
<1>1. live' = live /\ q.pc \in {"sent", "waiting"} /\ Leave(r, [gen EXCEPT ![q.gen] = back])  BY DEF Cancel
<1>2. q.gen \in Slots /\ IsProxy(gen[q.gen])  BY <1>1, HomeFacts DEF Active
<1>3. Later(gen[q.gen], p)  BY <1>2, HandBackLater
<1> HIDE DEF p
<1>4. Later(p, back)  BY <1>3, Change DEF Later
<1> HIDE DEF back
<1>5. Later(gen[q.gen], back)  BY <1>3, <1>4, LaterLater
<1> QED  BY <1>1, <1>2, <1>5, LeaveStep

LEMMA BusyAnswerStep ==
    ASSUME GenInv, NEW r \in Requests, BusyAnswer(r)
    PROVE  StateOK(gen', req', live')
<1> DEFINE q == req[r]
           p == HandBack(gen[q.gen], q)
           back == [p EXCEPT !.brk[q.provider] = SlotReturned(p.brk[q.provider], q.probe)]
           hit == [back EXCEPT !.busy[q.provider].left = 1]
<1>1. live' = live /\ q.pc = "sent" /\ GoOn(r, hit)  BY DEF BusyAnswer
<1>2. Later(gen[q.gen], p)  BY <1>1, HomeFacts, HandBackLater DEF Active
<1> HIDE DEF p
<1>3. Later(p, back)  BY <1>2, Change DEF Later
<1> HIDE DEF back
<1>4. Later(back, hit)  BY <1>3, Change DEF Later
<1> HIDE DEF hit
<1>5. Later(gen[q.gen], hit)  BY <1>2, <1>3, <1>4, LaterLater
<1> QED  BY <1>1, <1>5, GoOnStep

LEMMA KeyFailsStep ==
    ASSUME GenInv, NEW r \in Requests, KeyFails(r)
    PROVE  StateOK(gen', req', live')
<1> DEFINE q == req[r]
           i == q.provider
           s == ScopeOf[r]
           p == KeyPenalty(gen[q.gen], i, q.key)
           len == Len(p.config.providers[i].keys)
           next == FirstFrom(q.key, len, LiveKeys(p, i))
           keyed == [p EXCEPT !.keyCur[s][i] = next]
           again == [q EXCEPT !.key = next]
           out == HandBack(ProviderPenalty(p, i), q)
           gone == [out EXCEPT !.brk[i] = SlotReturned(out.brk[i], q.probe)]
<1>1. live' = live /\ q.pc = "sent"  BY DEF KeyFails
<1>2. \/ gen' = [gen EXCEPT ![q.gen] = keyed] /\ req' = [req EXCEPT ![r] = again]
      \/ GoOn(r, gone)
  <2>1. \/ gen' = [gen EXCEPT ![q.gen] = keyed] /\ req' = [req EXCEPT ![r].key = next]
        \/ GoOn(r, gone)
    BY DEF KeyFails
  <2> HIDE DEF keyed, next, gone
  <2> QED  BY <2>1
<1>3. /\ q.gen \in Slots /\ IsProxy(gen[q.gen]) /\ gen[q.gen].config.providers # <<>> /\ Walking(q)
      /\ i \in Providers(gen[q.gen]) /\ i \in Int /\ q.key \in KeysOf(gen[q.gen], i)
  BY <1>1, HomeFacts DEF Active, Sending
<1>4. Later(gen[q.gen], p)  BY <1>3, KeyPenaltyLater
<1> HIDE DEF p
<1>5. IsProxy(p) /\ p.config = gen[q.gen].config  BY <1>4 DEF Later
<1>6. CASE gen' = [gen EXCEPT ![q.gen] = keyed] /\ req' = [req EXCEPT ![r] = again]
  <2>1. Later(p, keyed)  BY <1>5, Change
  <2>2. len \in Nat \ {0} /\ q.key \in 1..len /\ KeysOf(gen[q.gen], i) = 1..len
    BY <1>3, <1>5, ConfigFacts DEF IsProxy, Providers, KeysOf
  <2> HIDE DEF keyed, len
  <2>3. next \in KeysOf(gen[q.gen], i)  BY <2>2, FirstFromIn
  <2> HIDE DEF next
  <2>4. Later(gen[q.gen], keyed)  BY <1>4, <2>1, LaterLater
  <2>5. AtHome(again, [gen EXCEPT ![q.gen] = keyed])
    <3>1. Walking(again) /\ again.gen = q.gen /\ again.provider = i /\ again.key = next
      <4> HIDE DEF q
      <4> QED  BY <1>3 DEF Walking
    <3>2. [gen EXCEPT ![q.gen] = keyed][q.gen] = keyed  BY <1>3 DEF GenInv, GensOK
    <3>3. IsProxy(keyed) /\ keyed.config = gen[q.gen].config  BY <2>4 DEF Later
    <3> HIDE DEF again
    <3> QED  BY <1>3, <2>3, <3>1, <3>2, <3>3 DEF AtHome, Providers, KeysOf
  <2> HIDE DEF again
  <2> QED  BY <1>1, <1>3, <1>6, <2>4, <2>5, RequestMoves
<1>7. CASE GoOn(r, gone)
  <2>1. Later(p, ProviderPenalty(p, i))  BY <1>3, <1>5, ProviderPenaltyLater
  <2>2. Later(ProviderPenalty(p, i), out)  BY <2>1, HandBackLater DEF Later
  <2> HIDE DEF out
  <2>3. Later(out, gone)  BY <2>2, Change DEF Later
  <2> HIDE DEF gone
  <2>4. Later(gen[q.gen], gone)  BY <1>4, <2>1, <2>2, <2>3, LaterLater
  <2> QED  BY <1>1, <1>7, <2>4, GoOnStep
<1> QED  BY <1>2, <1>6, <1>7

\* A request that only reads is at home with what it read.
LEMMA ReadsAtHome ==
    ASSUME NEW g \in Slots, IsProxy(gen[g]), gen[g].config.providers # <<>>,
           NEW i \in Providers(gen[g]), NEW k \in KeysOf(gen[g], i), NEW pc \in {"pinned", "advisory"}
    PROVE  AtHome([pc |-> pc, gen |-> g, provider |-> i, key |-> k], gen)
  BY DEF AtHome, Active, Sending

LEMMA ManualStep ==
    ASSUME GenInv, NEW r \in Requests, Manual(r)
    PROVE  StateOK(gen', req', live')
<1> DEFINE q == req[r]
           p == gen[q.gen]
           i == PinnedIndex(p.config)
           k == p.keyCur[ScopeOf[r]][i]
           key == IF k \in KeysOf(p, i) THEN k ELSE 1
           pinned == [pc |-> "pinned", gen |-> q.gen, provider |-> i, key |-> key]
<1>1. live' = live /\ q.pc = "dispatched"  BY DEF Manual
<1>2. \/ Leave(r, gen)
      \/ i # 0 /\ gen' = gen /\ req' = [req EXCEPT ![r] = pinned]
  BY DEF Manual
<1>3. Active(q)  BY <1>1 DEF Active
<1>4. q.gen \in Slots /\ IsProxy(p) /\ p.config.providers # <<>>  BY <1>3, HomeFacts
<1>5. CASE Leave(r, gen)  BY <1>1, <1>3, <1>5, LeaveUnchanged
<1>6. CASE i # 0 /\ gen' = gen /\ req' = [req EXCEPT ![r] = pinned]
  <2>1. i \in Providers(p)
    <3>1. p.config \in Configs  BY <1>4 DEF IsProxy
    <3>2. i = IndexByName(p.config.providers, p.config.pinned)  BY <1>6 DEF PinnedIndex
    <3> HIDE DEF i, p
    <3> QED  BY <1>6, <3>1, <3>2, IndexFacts DEF Providers
  <2> HIDE DEF i
  <2>2. key \in KeysOf(p, i)  BY <1>4, <2>1, ConfigFacts DEF IsProxy, Providers, KeysOf
  <2> HIDE DEF key
  <2>3. AtHome(pinned, gen)  BY <1>4, <2>1, <2>2, ReadsAtHome
  <2> HIDE DEF pinned
  <2> QED  BY <1>1, <1>6, <2>3, OnlyRequestMoves
<1> QED  BY <1>2, <1>5, <1>6

LEMMA ManualEndsStep ==
    ASSUME GenInv, NEW r \in Requests, ManualEnds(r)
    PROVE  StateOK(gen', req', live')
<1> DEFINE q == req[r]
           p == gen[q.gen]
           s == ScopeOf[r]
           curs == [p EXCEPT !.cur[s] = q.provider]
           moved == [curs EXCEPT !.keyCur[s][q.provider] = q.key]
<1>1. live' = live /\ q.pc = "pinned"  BY DEF ManualEnds
<1>2. Active(q) /\ Sending(q)  BY <1>1 DEF Active, Sending
<1>3. q.gen \in Slots /\ IsProxy(p) /\ s \in Scopes /\ q.provider \in Int  BY <1>2, HomeFacts
<1>4. Leave(r, gen) \/ Leave(r, [gen EXCEPT ![q.gen] = moved])
  <2>1. \/ Leave(r, gen)
        \/ Leave(r, [gen EXCEPT ![q.gen].cur[s] = q.provider, ![q.gen].keyCur[s][q.provider] = q.key])
    BY DEF ManualEnds
  <2>2. [gen EXCEPT ![q.gen].cur[s] = q.provider, ![q.gen].keyCur[s][q.provider] = q.key]
            = [gen EXCEPT ![q.gen] = moved]
    BY <1>3 DEF GenInv, GensOK
  <2> QED  BY <2>1, <2>2
<1>5. Later(p, curs)  BY <1>3, Change
<1> HIDE DEF curs
<1>6. Later(curs, moved)  BY <1>5, Change DEF Later
<1> HIDE DEF moved
<1>7. Later(p, moved)  BY <1>5, <1>6, LaterLater
<1> QED  BY <1>1, <1>2, <1>3, <1>4, <1>7, LeaveStep, LeaveUnchanged

LEMMA CountTokensStep ==
    ASSUME GenInv, NEW r \in Requests, CountTokens(r)
    PROVE  StateOK(gen', req', live')
<1> DEFINE q == req[r]
           p == gen[q.gen]
<1>1. live' = live /\ q.pc = "dispatched"  BY DEF CountTokens
<1>2. PICK i, s :
          \/ Leave(r, gen)
          \/ /\ i \in Up(p) /\ gen' = gen
             /\ req' = [req EXCEPT ![r] = [pc |-> "advisory", gen |-> q.gen, provider |-> i,
                                           key |-> StartKey(p, i, s)]]
  BY DEF CountTokens
<1>3. Active(q)  BY <1>1 DEF Active
<1>4. q.gen \in Slots /\ IsProxy(p) /\ p.config.providers # <<>>  BY <1>3, HomeFacts
<1>5. CASE Leave(r, gen)  BY <1>1, <1>3, <1>5, LeaveUnchanged
<1>6. CASE /\ i \in Up(p) /\ gen' = gen
           /\ req' = [req EXCEPT ![r] = [pc |-> "advisory", gen |-> q.gen, provider |-> i,
                                         key |-> StartKey(p, i, s)]]
  <2>1. i \in Providers(p)  BY <1>6 DEF Up
  <2>2. StartKey(p, i, s) \in KeysOf(p, i)  BY <1>4, <2>1, StartKeyIn
  <2>3. AtHome([pc |-> "advisory", gen |-> q.gen, provider |-> i, key |-> StartKey(p, i, s)], gen)
    BY <1>4, <2>1, <2>2, ReadsAtHome
  <2> QED  BY <1>1, <1>6, <2>3, OnlyRequestMoves
<1> QED  BY <1>2, <1>5, <1>6

LEMMA AdvisedStep ==
    ASSUME GenInv, NEW r \in Requests, Advised(r)
    PROVE  StateOK(gen', req', live')
<1>1. live' = live /\ req[r].pc = "advisory" /\ Leave(r, gen)  BY DEF Advised
<1> QED  BY <1>1, LeaveUnchanged DEF Active

LEMMA TickStep ==
    ASSUME GenInv, Tick
    PROVE  StateOK(gen', req', live')
<1>1. gen' = [g \in Slots |-> Passed(gen[g])] /\ live' = live /\ req' = req  BY DEF Tick
<1>2. \A g \in Slots : gen[g] = NoProxy => Passed(gen[g]) = NoProxy  BY DEF Passed
<1>3. \A g \in Slots : IsProxy(gen[g]) => Later(gen[g], Passed(gen[g]))  BY PassedIsProxy
<1>4. GensOK(gen') /\ IsProxy(gen'[live]) /\ live \in Slots
  BY <1>1, <1>2, <1>3 DEF GenInv, GensOK, Later
<1>5. ASSUME NEW r \in Requests  PROVE AtHome(req[r], gen')
  <2>1. AtHome(req[r], gen)  BY DEF GenInv
  <2>2. Active(req[r]) => Later(gen[req[r].gen], gen'[req[r].gen])  BY <1>1, <1>3, <2>1 DEF AtHome
  <2> QED  BY <2>1, <2>2, StaysAtHome
<1> QED  BY <1>1, <1>4, <1>5 DEF StateOK, GenInv

-----------------------------------------------------------------------------
(***************************************************************************)
(* The invariant, and what follows from it.                                *)
(***************************************************************************)
LEMMA InitGenInv == Init => GenInv
<1> SUFFICES ASSUME Init  PROVE GenInv
  OBVIOUS
<1>1. live \in Slots  BY GenerationsAssumption DEF Init
<1>2. PICK c \in Configs : gen = [g \in Slots |-> IF g = live THEN NewProxy(c) ELSE NoProxy]  BY DEF Init
<1>3. IsProxy(NewProxy(c))  BY NewProxyIsProxy
<1>4. GensOK(gen) /\ IsProxy(gen[live])  BY <1>1, <1>2, <1>3 DEF GensOK
<1>5. \A r \in Requests : AtHome(Idle, gen)  BY DEF AtHome, Idle, Active, Sending
<1> QED  BY <1>1, <1>4, <1>5 DEF GenInv, Init

LEMMA NextGenInv == GenInv /\ [Next]_vars => GenInv'
<1> SUFFICES ASSUME GenInv, [Next]_vars  PROVE StateOK(gen', req', live')
  BY DEF StateOK, GenInv, GensOK, AtHome
<1>1. CASE UNCHANGED vars  BY <1>1 DEF vars, GenInv, StateOK
<1>2. ASSUME NEW c \in Configs, Reload(c)  PROVE StateOK(gen', req', live')  BY <1>2, ReloadStep
<1>3. ASSUME NEW r \in Requests,
             \/ Dispatch(r) \/ (\E conversation \in Conversations : SetOut(r, conversation)) \/ WaitOver(r)
             \/ Succeed(r) \/ Break(r) \/ Cancel(r) \/ BusyAnswer(r) \/ KeyFails(r)
      PROVE  StateOK(gen', req', live')
  BY <1>3, DispatchStep, SetOutStep, WaitOverStep, SucceedStep, BreakStep, CancelStep, BusyAnswerStep,
     KeyFailsStep
<1>4. ASSUME NEW r \in Requests, Manual(r) \/ ManualEnds(r) \/ CountTokens(r) \/ Advised(r)
      PROVE  StateOK(gen', req', live')
  BY <1>4, ManualStep, ManualEndsStep, CountTokensStep, AdvisedStep
<1>5. CASE Tick  BY <1>5, TickStep
<1> QED  BY <1>1, <1>2, <1>3, <1>4, <1>5 DEF Next

LEMMA GenInvHolds == Spec => []GenInv
  BY InitGenInv, NextGenInv, PTL DEF Spec

LEMMA ProxyIsAlive ==
    ASSUME NEW p, IsProxy(p)
    PROVE  p # NoProxy
<1>1. "out" \in DOMAIN p  BY DEF IsProxy
<1>2. "out" \notin DOMAIN NoProxy  BY DEF NoProxy
<1> QED  BY <1>1, <1>2

\* proxy.go:1085-1124: a sticky entry leads to the provider that served it, in
\* every generation, wherever a reload has moved that provider.
THEOREM EntriesFollowProviders == Spec => []BindingsFollowTheirProvider
<1>1. GenInv => BindingsFollowTheirProvider
  <2> SUFFICES ASSUME GenInv, NEW g \in Alive, NEW e \in Bindings(gen[g].sticky)
               PROVE  /\ e.provider \in Providers(gen[g])
                      /\ SameRuntimeIdentity(gen[g].config.providers[e.provider], e.served)
    BY DEF BindingsFollowTheirProvider
  <2>1. IsTables(gen[g].sticky, gen[g].config)  BY DEF Alive, GenInv, GensOK, IsProxy
  <2>2. IsEntry(e, gen[g].config)  BY <2>1 DEF Bindings, IsTables, LeadsWell
  <2> QED  BY <2>2 DEF IsEntry, Providers
<1> QED  BY <1>1, GenInvHolds, PTL

\* failover_forward.go:162 and proxy.go:1085-1124: a request sends with a
\* provider and a key that exist in the proxy it was dispatched to, whatever
\* key index its sticky entry brought along.
THEOREM RequestsAimAtHome == Spec => []AimsWithinItsProxy
<1>1. GenInv => AimsWithinItsProxy
  <2> SUFFICES ASSUME GenInv, NEW r \in Requests, Sending(req[r])
               PROVE  /\ req[r].gen \in Alive
                      /\ req[r].provider \in Providers(gen[req[r].gen])
                      /\ req[r].key \in KeysOf(gen[req[r].gen], req[r].provider)
    BY DEF AimsWithinItsProxy, Sending
  <2>1. Active(req[r])  BY DEF Sending, Active
  <2> QED  BY <2>1, HomeFacts, ProxyIsAlive DEF Alive
<1> QED  BY <1>1, GenInvHolds, PTL

\* A proxy that is kept knows what the answer taught it.
LEMMA SuccessTeaches ==
    ASSUME GenInv, NEW r \in Requests, Succeed(r), gen'[req[r].gen] # NoProxy, req[r].gen \in Slots,
           IsProxy(gen[req[r].gen])
    PROVE  LET q == req[r]
               p == gen[q.gen] IN
           gen'[q.gen].sticky = Learned(p.sticky, ScopeOf[r], q.says.body, q.says.id, Entry(p, q))
<1> DEFINE q == req[r]
           p == gen[q.gen]
           s == ScopeOf[r]
           tables == Learned(p.sticky, s, q.says.body, q.says.id, Entry(p, q))
           moved == [p EXCEPT !.cur[s] = q.provider, !.keyCur[s][q.provider] = q.key,
                              !.busy[q.provider] = NotBusy, !.sticky = tables,
                              !.brk[q.provider] = RecordSuccess(p.brk[q.provider], q.probe)]
<1>1. Leave(r, [gen EXCEPT ![q.gen] = moved])  BY DEF Succeed
<1> HIDE DEF tables
<1>2. moved.sticky = tables  BY DEF IsProxy
<1> HIDE DEF moved
<1>3. gen'[q.gen] = moved  BY <1>1 DEF Leave, Keep, GenInv, GensOK
<1> QED  BY <1>2, <1>3 DEF tables

\* sticky.go:281-381: the table of dynamic features stays within its capacity,
\* and what goes for a newly learned one is never younger than what stays.
THEOREM OldestFeaturesGo == Spec => OldestFeatureGoesFirst
<1> DEFINE Oldest == \A r \in Requests : Succeed(r) /\ gen'[req[r].gen] # NoProxy =>
        LET q == req[r]
            old == gen[q.gen].sticky.dynamic
            new == gen'[q.gen].sticky.dynamic
            taught == {k \in {RequestStickyKey(q.says.body), LearningStickyKey(q.says.body)} : k.level \in {"L2", "L3"}}
            learned == {<<ScopeOf[r], k.key>> : k \in taught}
            age == [k \in learned \union DOMAIN old |-> IF k \in learned THEN 0 ELSE old[k].age]
            fresh == {k \in DOMAIN old : Fresh(old[k], FeatureTTL(old[k]))} IN
        /\ Cardinality(DOMAIN new) <= DynamicFeatureCapacity
        /\ \A lost \in (learned \union fresh) \ DOMAIN new : \A kept \in DOMAIN new : age[kept] <= age[lost]
<1>1. GenInv => Oldest
  <2> SUFFICES ASSUME GenInv, NEW r \in Requests, Succeed(r), gen'[req[r].gen] # NoProxy
               PROVE  LET q == req[r]
                          old == gen[q.gen].sticky.dynamic
                          new == gen'[q.gen].sticky.dynamic
                          learned == FeaturesOf(ScopeOf[r], q.says.body)
                          age == [k \in learned \union DOMAIN old |-> IF k \in learned THEN 0 ELSE old[k].age]
                          fresh == FreshIn(old) IN
                      /\ Cardinality(DOMAIN new) <= DynamicFeatureCapacity
                      /\ \A lost \in (learned \union fresh) \ DOMAIN new :
                            \A kept \in DOMAIN new : age[kept] <= age[lost]
    BY DEF FeaturesOf, FreshIn
  <2> DEFINE q == req[r]
             p == gen[q.gen]
             s == ScopeOf[r]
             old == p.sticky.dynamic
             new == gen'[q.gen].sticky.dynamic
             L == FeaturesOf(s, q.says.body)
             age == [k \in L \union DOMAIN old |-> IF k \in L THEN 0 ELSE old[k].age]
  <2>1. q.pc = "sent"  BY DEF Succeed
  <2>2. q.gen \in Slots /\ IsProxy(p) /\ q.provider \in Providers(p) /\ Walking(q)
    BY <2>1, HomeFacts DEF Active, Sending
  <2>3. new = Learned(p.sticky, s, q.says.body, q.says.id, Entry(p, q)).dynamic
    BY <2>2, SuccessTeaches
  <2>4. s \in Nat /\ RequestStickyKey(q.says.body).key \in Nat /\ LearningStickyKey(q.says.body).key \in Nat
    BY <2>2, GenerationsAssumption DEF Walking
  <2>5. /\ Entry(p, q).age = 0
        /\ Entry(p, q) = [provider |-> Entry(p, q).provider, key |-> Entry(p, q).key, age |-> Entry(p, q).age,
                          source |-> Entry(p, q).source, served |-> Entry(p, q).served]
    BY DEF Entry
  <2>6. IsFeatures(old)  BY <2>2 DEF IsProxy, IsTables
  <2>7. OldestWent(new, old, L)  BY <2>3, <2>4, <2>5, <2>6, LearningGivesUpTheOldest
  <2> HIDE DEF new, old, L, q, p, s
  <2>8. \A k \in L \union FreshIn(old) : age[k] = SeenAge(old, L, k)  BY DEF SeenAge, FreshIn
  <2> HIDE DEF age
  <2>9. /\ Cardinality(DOMAIN new) <= DynamicFeatureCapacity
        /\ \A lost \in (L \union FreshIn(old)) \ DOMAIN new : \A kept \in DOMAIN new : age[kept] <= age[lost]
    BY <2>7, <2>8 DEF OldestWent
  <2> QED  BY <2>9 DEF new, old, L, q, p, s, age
<1> QED  BY <1>1, GenInvHolds, PTL DEF OldestFeatureGoesFirst

\* A key's penalty is found by the key's value.
LEMMA KeyOutInherited ==
    ASSUME NEW new, NEW old, old.config \in Configs,
           NEW i, NEW o \in Providers(old), NEW k \in KeysOf(new, i), NEW j \in KeysOf(old, o),
           new.config.providers[i].keys[k] = old.config.providers[o].keys[j]
    PROVE  InheritKeyOut(new, i, old, o)[k] = old.keyOut[o][j]
<1> DEFINE same == {h \in KeysOf(old, o) : old.config.providers[o].keys[h] = new.config.providers[i].keys[k]}
<1>1. \A h \in KeysOf(old, o) : old.config.providers[o].keys[h] = old.config.providers[o].keys[j] => h = j
  BY ConfigFacts DEF Providers, KeysOf
<1>2. same = {j}  BY <1>1
<1>3. j \in Nat /\ j # 0  BY ConfigFacts DEF Providers, KeysOf
<1> HIDE DEF same
<1>4. (CHOOSE x \in same : \A h \in same : x <= h) = j  BY <1>2, <1>3
<1>5. OldKeyIndex(new, i, old, o, k) = IF same = {} THEN 0 ELSE CHOOSE x \in same : \A h \in same : x <= h
  BY DEF OldKeyIndex, same
<1>6. OldKeyIndex(new, i, old, o, k) = j  BY <1>2, <1>4, <1>5
<1> QED  BY <1>3, <1>6 DEF InheritKeyOut

\* What inheritRuntimeState hands on of a provider that is still the same.
LEMMA HealthInherited ==
    ASSUME NEW fresh, NEW old, IsProxy(fresh), old.config \in Configs,
           NEW i \in Providers(fresh), NEW o \in Providers(old),
           SameRuntimeIdentity(fresh.config.providers[i], old.config.providers[o])
    PROVE  LET new == Inherit(fresh, old) IN
           /\ new.config = fresh.config
           /\ new.out[i] = old.out[o] /\ new.busy[i] = old.busy[o]
           /\ new.brk[i] = InheritBreaker(fresh, i, old, o)
           /\ new.keyOut[i] = InheritKeyOut(fresh, i, old, o)
<1> DEFINE N == NewByOldIndex(fresh, old)
           kept == {N[x] : x \in DOMAIN N}
           oldOf(y) == CHOOSE x \in DOMAIN N : N[x] = y
           out == [y \in Providers(fresh) |-> IF y \in kept THEN old.out[oldOf(y)] ELSE fresh.out[y]]
           busy == [y \in Providers(fresh) |-> IF y \in kept THEN old.busy[oldOf(y)] ELSE fresh.busy[y]]
           keyOut == [y \in Providers(fresh) |->
                         IF y \in kept THEN InheritKeyOut(fresh, y, old, oldOf(y)) ELSE fresh.keyOut[y]]
           brk == [y \in Providers(fresh) |->
                         IF y \in kept THEN InheritBreaker(fresh, y, old, oldOf(y)) ELSE fresh.brk[y]]
<1>1. i \in kept /\ oldOf(i) = o  BY NewByOldFacts DEF IsProxy
<1>2. PICK cur, keyCur, sticky :
          Inherit(fresh, old) = [fresh EXCEPT !.out = out, !.busy = busy, !.keyOut = keyOut, !.keyCur = keyCur,
                                              !.brk = brk, !.cur = cur, !.sticky = sticky]
  BY DEF Inherit
<1> HIDE DEF N, kept, oldOf
<1>3. out[i] = old.out[o] /\ busy[i] = old.busy[o]  BY <1>1
<1>4. brk[i] = InheritBreaker(fresh, i, old, o) /\ keyOut[i] = InheritKeyOut(fresh, i, old, o)  BY <1>1
<1> HIDE DEF out, busy, keyOut, brk
<1>5. Inherit(fresh, old) = [config |-> fresh.config, out |-> out, busy |-> busy, keyOut |-> keyOut,
                             cur |-> cur, keyCur |-> keyCur, brk |-> brk, sticky |-> sticky]
  BY <1>2 DEF IsProxy
<1> QED  BY <1>3, <1>4, <1>5

LEMMA OnlyReloadsSwitch ==
    ASSUME [Next]_vars, live' # live
    PROVE  \E c \in Configs : Reload(c)
<1>1. ASSUME NEW r \in Requests
      PROVE  /\ Dispatch(r) \/ WaitOver(r) \/ Succeed(r) \/ Break(r) => live' = live
             /\ \A conversation : SetOut(r, conversation) => live' = live
             /\ Cancel(r) \/ BusyAnswer(r) \/ KeyFails(r) => live' = live
             /\ Manual(r) \/ ManualEnds(r) \/ CountTokens(r) \/ Advised(r) => live' = live
  <2>1. Dispatch(r) \/ WaitOver(r) \/ Succeed(r) \/ Break(r) => live' = live
    BY DEF Dispatch, WaitOver, Succeed, Break
  <2>2. \A conversation : SetOut(r, conversation) => live' = live  BY DEF SetOut
  <2>3. Cancel(r) \/ BusyAnswer(r) \/ KeyFails(r) => live' = live  BY DEF Cancel, BusyAnswer, KeyFails
  <2>4. Manual(r) \/ ManualEnds(r) \/ CountTokens(r) \/ Advised(r) => live' = live
    BY DEF Manual, ManualEnds, CountTokens, Advised
  <2> QED  BY <2>1, <2>2, <2>3, <2>4
<1>2. Tick => live' = live  BY DEF Tick
<1> QED  BY <1>1, <1>2 DEF Next, vars

\* proxy.go:949-1083: a reload neither forgives nor moves a penalty.
THEOREM HealthStays == Spec => HealthOutlivesReload
<1> DEFINE Kept == live' # live =>
        LET old == gen[live]
            new == gen'[live'] IN
        \A i \in Providers(new), o \in Providers(old) :
            SameRuntimeIdentity(new.config.providers[i], old.config.providers[o]) =>
                /\ new.out[i] = old.out[o] /\ new.busy[i] = old.busy[o]
                /\ new.config.breaker = old.config.breaker => new.brk[i] = old.brk[o]
                /\ \A k \in KeysOf(new, i), j \in KeysOf(old, o) :
                      new.config.providers[i].keys[k] = old.config.providers[o].keys[j]
                          => new.keyOut[i][k] = old.keyOut[o][j]
<1>1. GenInv /\ [Next]_vars => Kept
  <2> SUFFICES ASSUME GenInv, [Next]_vars, live' # live  PROVE Kept
    OBVIOUS
  <2>1. PICK c \in Configs : Reload(c)  BY OnlyReloadsSwitch
  <2> DEFINE free == Slots \ Reachable(req, live)
             g == CHOOSE f \in free : TRUE
             old == gen[live]
             fresh == NewProxy(c)
             whole == IF old.config.providers = <<>> \/ c.providers = <<>> THEN fresh ELSE Inherit(fresh, old)
             new == gen'[live']
  <2>2. free # {} /\ live' = g /\ gen' = Keep([gen EXCEPT ![g] = whole], req, g)  BY <2>1 DEF Reload
  <2>3. g \in Slots /\ g \in Reachable(req, g)  BY <2>2 DEF Reachable
  <2> HIDE DEF g, whole
  <2>4. new = whole  BY <2>2, <2>3 DEF Keep, GenInv, GensOK
  <2> HIDE DEF new
  <2>5. IsProxy(old) /\ IsProxy(fresh) /\ fresh.config = c  BY NewProxyIsProxy DEF GenInv
  <2> HIDE DEF old, fresh
  <2>6. CASE old.config.providers = <<>>
    <3>1. Providers(old) = {}  BY <2>6 DEF Providers
    <3> QED  BY <3>1 DEF old, new
  <2>7. CASE c.providers = <<>>
    <3>1. new = fresh  BY <2>4, <2>7 DEF whole
    <3>2. Providers(new) = {}  BY <2>5, <2>7, <3>1 DEF Providers
    <3> QED  BY <3>2 DEF old, new
  <2>8. CASE old.config.providers # <<>> /\ c.providers # <<>>
    <3>1. new = Inherit(fresh, old)  BY <2>4, <2>8 DEF whole
    <3>2. Later(fresh, new)  BY <2>5, <3>1, InheritIsProxy
    <3>3. new.config = fresh.config /\ Providers(new) = Providers(fresh)  BY <3>2 DEF Later, Providers
    <3>4. ASSUME NEW i \in Providers(new), NEW o \in Providers(old),
                 SameRuntimeIdentity(new.config.providers[i], old.config.providers[o])
          PROVE  /\ new.out[i] = old.out[o] /\ new.busy[i] = old.busy[o]
                 /\ new.config.breaker = old.config.breaker => new.brk[i] = old.brk[o]
                 /\ \A k \in KeysOf(new, i), j \in KeysOf(old, o) :
                       new.config.providers[i].keys[k] = old.config.providers[o].keys[j]
                           => new.keyOut[i][k] = old.keyOut[o][j]
      <4>1. /\ new.out[i] = old.out[o] /\ new.busy[i] = old.busy[o]
            /\ new.brk[i] = InheritBreaker(fresh, i, old, o)
            /\ new.keyOut[i] = InheritKeyOut(fresh, i, old, o)
        BY <2>5, <3>1, <3>3, <3>4, HealthInherited DEF IsProxy
      <4>2. new.config.breaker = old.config.breaker => new.brk[i] = old.brk[o]
        BY <3>3, <4>1 DEF InheritBreaker
      <4>3. ASSUME NEW k \in KeysOf(new, i), NEW j \in KeysOf(old, o),
                   new.config.providers[i].keys[k] = old.config.providers[o].keys[j]
            PROVE  new.keyOut[i][k] = old.keyOut[o][j]
        BY <2>5, <3>3, <4>1, <4>3, KeyOutInherited DEF IsProxy, KeysOf
      <4> QED  BY <4>1, <4>2, <4>3
    <3> QED  BY <3>4 DEF old, new
  <2> QED  BY <2>6, <2>7, <2>8
<1> QED  BY <1>1, GenInvHolds, PTL DEF Spec, HealthOutlivesReload
===============================================================================
