---------------------------- MODULE FailoverProofs ----------------------------
(***************************************************************************)
(* For every group of providers, keys and requests: the health state keeps *)
(* its types, penalties stand, a group that turns clients away knows when  *)
(* to come back, a request that gives up tried every provider that stayed  *)
(* available, and permits and busy probes are never counted beyond the     *)
(* attempts that hold them.                                                *)
(***************************************************************************)
EXTENDS Failover, FiniteSetTheorems, WellFoundedInduction, TLAPS

\* An attempt is under way at a provider; its keys were already counted.
Holding == Loop \ {"pick"}
Counted == Holding \ {"open"}

\* A breaker the operators can leave behind.
Sound(b) == b \in Breaker /\ (~Enabled => b.inFlight = 0)

\* The local variables of a request, as its pc says they are.
Shaped(l) ==
    /\ l.pc \in Holding => /\ l.offset < NumProviders
                           /\ l.at = (l.start + l.offset) % NumProviders
    /\ l.pc \notin Holding => l.at = None
    /\ l.pc = "body" => l.offset = 0 /\ l.attempted = 0
    /\ l.pc \in Loop \union {"body"} => l.result = "none"
    /\ l.pc \in {"upstream", "stream"} => l.key \in Keys(l.at)
    /\ l.pc \in {"body", "pick", "open", "wait"} => ~l.held
    /\ l.pc \in {"body", "pick", "open"} => ~l.inline

HealthOK ==
    /\ dead \in [Providers -> Nat]
    /\ DOMAIN keyDead = Providers /\ \A p \in Providers : keyDead[p] \in [Keys(p) -> Nat]
    /\ busy \in [Providers -> BusyState]
    /\ breakers \in [Providers -> Breaker]
    /\ \A p \in Providers : Sound(breakers[p])

CursorsOK ==
    /\ cursor \in [Scopes -> Providers]
    /\ keyCursor \in [Scopes -> [Providers -> Nat]]
    /\ \A s \in Scopes, p \in Providers : keyCursor[s][p] \in Keys(p)

RequestsOK ==
    /\ req \in [Requests -> Request]
    /\ untried \in [Requests -> SUBSET Providers]
    /\ lost \subseteq Providers
    /\ \A r \in Requests : Shaped(req[r])

ShapeInv == HealthOK /\ CursorsOK /\ RequestsOK

\* The providers the loop has passed, and with the one it is attempting.
Passed(l)  == {(l.start + i) % NumProviders : i \in 0..l.offset - 1}
Reached(l) == Passed(l) \union (IF l.pc \in Counted THEN {l.at} ELSE {})

\* What a request still owes an attempt lies ahead of it, and it has counted no
\* more attempts than candidates it reached.
WalksOn(l, capable, rest) ==
    /\ l.pc \in Loop \union {"body"} => rest \subseteq l.cand /\ l.cand \subseteq capable
    /\ l.pc \in Loop => rest \cap Reached(l) = {}
    /\ l.at \notin rest
    /\ (l.pc \in Loop \union {"body"} /\ ~l.latecomer) =>
           l.attempted <= Cardinality(l.cand \cap Reached(l))
    /\ (l.result = "failed" /\ ~l.latecomer) => rest = {}

WalkInv ==
    \A r \in Requests : /\ WalksOn(req[r], Capable[r], untried[r])
                        /\ \A p \in untried[r] : Available(p)

\* The attempts whose half-open permit, whose busy probe, is still out.
Owes(l, p)   == l.at = p /\ l.probe /\ ~l.inline
Probes(l, p) == l.at = p /\ l.held
Owing(p)     == {r \in Requests : Owes(req[r], p)}
Probers(p)   == {r \in Requests : Probes(req[r], p)}

PermitInv == \A p \in Providers \ lost :
    /\ breakers[p].inFlight <= Cardinality(Owing(p))
    /\ busy[p].probes <= Cardinality(Probers(p))

-----------------------------------------------------------------------------
(***************************************************************************)
(* Counting round the providers.                                           *)
(***************************************************************************)
LEMMA LeastElement ==
    ASSUME NEW D, D \subseteq Nat, D # {}
    PROVE  \E d \in D : \A e \in D : d <= e
<1>1. \E d \in D : \A e \in D : ~(<<e, d>> \in OpToRel(<, Nat))
  <2> HIDE DEF OpToRel
  <2> QED  BY NatLessThanWellFounded, WFMin
<1>2. PICK d \in D : \A e \in D : ~(<<e, d>> \in OpToRel(<, Nat))  BY <1>1
<1>3. \A e \in D : ~(e < d)  BY <1>2 DEF OpToRel
<1> QED  BY <1>3

\* From every start, every index is some steps away.
LEMMA RoundHits ==
    ASSUME NEW n \in Nat \ {0}, NEW s \in 0..n - 1, NEW p \in 0..n - 1
    PROVE  \E d \in 0..n - 1 : (s + d) % n = p
<1>1. CASE p >= s
  <2>1. p - s \in 0..n - 1 /\ (s + (p - s)) % n = p  BY <1>1
  <2> QED  BY <2>1
<1>2. CASE p < s
  <2>1. p - s + n \in 0..n - 1 /\ s + (p - s + n) = p + n  BY <1>2
  <2>2. (p + n) % n = p  OBVIOUS
  <2> QED  BY <2>1, <2>2
<1> QED  BY <1>1, <1>2

\* Fewer than n steps apart never means the same index.
LEMMA RoundApart ==
    ASSUME NEW n \in Nat \ {0}, NEW s \in 0..n - 1, NEW d \in 0..n - 1, NEW e \in 0..n - 1,
           (s + d) % n = (s + e) % n
    PROVE  d = e
<1>1. \A x \in 0..2 * n - 1 : x % n = IF x < n THEN x ELSE x - n  OBVIOUS
<1> QED  BY <1>1

\* FirstFrom finds one of S, when S has one among the n.
LEMMA FirstFromFinds ==
    ASSUME NEW n \in Nat \ {0}, NEW from \in 0..n - 1, NEW S, S \subseteq 0..n - 1, S # {}
    PROVE  FirstFrom(from, n, S) \in S
<1> DEFINE D == {d \in 0..n - 1 : (from + d) % n \in S}
<1>1. D # {}
  <2>1. PICK p \in S : TRUE  OBVIOUS
  <2>2. \E d \in 0..n - 1 : (from + d) % n = p  BY <2>1, RoundHits
  <2> QED  BY <2>1, <2>2
<1>2. PICK m \in D : \A e \in D : m <= e
  <2>1. D \subseteq Nat  OBVIOUS
  <2> HIDE DEF D
  <2> QED  BY <1>1, <2>1, LeastElement
<1>3. \A e \in 0..m - 1 : (from + e) % n \notin S
  BY <1>2
<1>4. \E d \in 0..n - 1 : /\ (from + d) % n \in S
                          /\ \A e \in 0..d - 1 : (from + e) % n \notin S
  BY <1>2, <1>3
<1> QED  BY <1>4 DEF FirstFrom

LEMMA LiveKeysFacts ==
    \A p \in Providers : LiveKeys(p) \subseteq Keys(p) /\ NumKeys[p] \in Nat \ {0}
  BY FailoverAssumption DEF LiveKeys

-----------------------------------------------------------------------------
(***************************************************************************)
(* The breaker of one provider.                                            *)
(***************************************************************************)
\* What handing back a permit leaves of the probe count.
Returns(b, usedProbe, c) ==
    c.inFlight <= IF usedProbe /\ b.inFlight > 0 THEN b.inFlight - 1 ELSE b.inFlight

LEMMA SlotReturnedSound ==
    ASSUME NEW b, Sound(b), NEW u \in BOOLEAN
    PROVE  /\ Sound(SlotReturned(b, u))
           /\ Returns(b, u, SlotReturned(b, u))
  BY DEF Sound, SlotReturned, Returns, Breaker

LEMMA RecordSuccessSound ==
    ASSUME NEW b, Sound(b), NEW u \in BOOLEAN
    PROVE  /\ Sound(RecordSuccess(b, u))
           /\ Returns(b, u, RecordSuccess(b, u))
<1> DEFINE s == SlotReturned(b, u)
           c == [s EXCEPT !.failures = 0]
<1>1. Sound(s) /\ Returns(b, u, s)
  BY SlotReturnedSound
<1>2. Sound(c) /\ Returns(b, u, c) /\ c.successes \in Nat
  BY <1>1 DEF Sound, Returns, Breaker
<1>3. CASE ~Enabled
  BY <1>3 DEF RecordSuccess, Sound, Returns, Breaker
<1>4. CASE Enabled /\ RecordSuccess(b, u) = c
  BY <1>4, <1>2
<1>5. CASE Enabled /\ RecordSuccess(b, u) = NewBreaker
  BY <1>5, BreakerConfigAssumption DEF NewBreaker, Sound, Returns, Breaker
<1>6. CASE Enabled /\ RecordSuccess(b, u) = [c EXCEPT !.successes = @ + 1]
  <2> HIDE DEF c
  <2> QED  BY <1>6, <1>2 DEF Sound, Returns, Breaker
<1>7. Enabled => RecordSuccess(b, u) \in {c, NewBreaker, [c EXCEPT !.successes = @ + 1]}
  BY DEF RecordSuccess
<1> QED  BY <1>3, <1>4, <1>5, <1>6, <1>7

LEMMA OpenedSound ==
    ASSUME NEW b, NEW c, NEW u, Sound(b), Sound(c), Enabled
    PROVE  Sound(Opened(c)) /\ Returns(b, u, Opened(c))
  BY BreakerConfigAssumption DEF Opened, Sound, Returns, Breaker, Timeout, NeverOpened, Enabled

LEMMA RecordFailureSound ==
    ASSUME NEW b, Sound(b), NEW u \in BOOLEAN
    PROVE  /\ Sound(RecordFailure(b, u))
           /\ Returns(b, u, RecordFailure(b, u))
<1> DEFINE c == SlotReturned(b, u)
<1>1. Sound(c) /\ Returns(b, u, c)
  BY SlotReturnedSound
<1>2. c.failures \in Nat
  BY <1>1 DEF Sound, Breaker
<1>3. CASE ~Enabled
  BY <1>3 DEF RecordFailure, Returns, Sound, Breaker
<1>4. CASE Enabled /\ RecordFailure(b, u) = Opened(c)
  <2> HIDE DEF c
  <2> QED  BY <1>4, <1>1, OpenedSound
<1>5. CASE RecordFailure(b, u) = c
  BY <1>5, <1>1
<1>6. CASE RecordFailure(b, u) = [c EXCEPT !.failures = @ + 1]
  <2> HIDE DEF c
  <2> QED  BY <1>6, <1>1, <1>2 DEF Returns, Sound, Breaker
<1>7. Enabled => RecordFailure(b, u) \in {c, Opened(c), [c EXCEPT !.failures = @ + 1]}
  <2> HIDE DEF c
  <2>1. ASSUME Enabled
        PROVE RecordFailure(b, u) =
                 CASE c.state = "open"     -> c
                   [] c.state = "halfOpen" -> Opened(c)
                   [] c.state = "closed"   -> IF c.failures + 1 >= FailureThreshold
                                              THEN Opened(c)
                                              ELSE [c EXCEPT !.failures = @ + 1]
    BY <2>1 DEF RecordFailure, c
  <2>2. c.state \in {"closed", "open", "halfOpen"}  BY <1>1 DEF Sound, Breaker
  <2> QED  BY <2>1, <2>2
<1> QED  BY <1>3, <1>4, <1>5, <1>6, <1>7

\* allow counts at most the one probe it grants.
LEMMA AllowSound ==
    ASSUME NEW b, Sound(b)
    PROVE  /\ Sound(AllowState(b))
           /\ AllowResult(b).usedProbe \in BOOLEAN
           /\ AllowState(b).inFlight <= IF AllowResult(b).usedProbe THEN b.inFlight + 1
                                        ELSE b.inFlight
<1> DEFINE p == Probing(b)
<1>1. Sound(p) /\ p.inFlight <= b.inFlight /\ p.inFlight \in Nat
  <2>1. b \in Breaker /\ b.inFlight \in Nat  BY DEF Sound, Breaker
  <2>2. Sound(EnterHalfOpen(b)) /\ EnterHalfOpen(b).inFlight = 0
    BY <2>1 DEF EnterHalfOpen, Sound, Breaker
  <2>3. p \in {b, EnterHalfOpen(b)}  BY DEF Probing
  <2> HIDE DEF p
  <2> QED  BY <2>1, <2>2, <2>3
<1>2. AllowResult(b).usedProbe \in BOOLEAN /\ (AllowResult(b).usedProbe => Enabled)
  BY DEF AllowResult, Granted, Refused
<1>3. CASE AllowResult(b).usedProbe
  <2>1. AllowState(b) = [p EXCEPT !.inFlight = @ + 1]  BY <1>3 DEF AllowState
  <2> HIDE DEF p
  <2> QED  BY <1>1, <1>2, <1>3, <2>1 DEF Sound, Breaker
<1>4. CASE ~AllowResult(b).usedProbe
  <2>1. AllowState(b) \in {p, b}  BY <1>4 DEF AllowState
  <2>2. b.inFlight \in Nat  BY DEF Sound, Breaker
  <2> HIDE DEF p
  <2> QED  BY <1>1, <1>2, <1>4, <2>1, <2>2
<1> QED  BY <1>2, <1>3, <1>4

\* A provider that counts as available is admitted.
LEMMA AvailableIsAllowed ==
    ASSUME NEW b, Sound(b), PeekAllow(b).allowed \/ PeekAllow(b).wait <= 0
    PROVE  PeekAllow(b).allowed /\ AllowResult(b).allowed
<1>1. HalfOpenMaxInFlight \in Nat /\ Timeout \in Nat \ {0}
  BY BreakerConfigAssumption DEF Timeout
<1>2. CASE ~Enabled \/ b.state = "closed"
  BY <1>2 DEF PeekAllow, AllowResult, Granted
<1>3. CASE Enabled /\ b.state = "open" /\ ~TimeoutElapsed(b)
  <2>1. OpenWait(b) > 0
    BY <1>1, <1>3 DEF Sound, Breaker, OpenWait, TimeoutElapsed, NeverOpened
  <2>2. PeekAllow(b) = Refused(OpenWait(b), "circuit_open")
    BY <1>3 DEF PeekAllow
  <2>3. OpenWait(b) \in Int
    BY <1>1 DEF Sound, Breaker, OpenWait, NeverOpened
  <2> QED  BY <2>1, <2>2, <2>3 DEF Refused
<1>4. CASE Enabled /\ b.state # "closed" /\ ~(b.state = "open" /\ ~TimeoutElapsed(b))
  <2>1. ~ProbesFull(b)
    <3>1. ProbesFull(b) => PeekAllow(b) = Refused(1, "circuit_half_open_busy")
      BY <1>4 DEF PeekAllow, BusyRetryAfter
    <3> QED  BY <3>1 DEF Refused
  <2>2. Probing(b).state # "open" /\ ~ProbesFull(Probing(b))
    BY <1>1, <1>4, <2>1 DEF Sound, Breaker, Probing, EnterHalfOpen, ProbesFull, Enabled
  <2> QED  BY <1>4, <2>1, <2>2 DEF PeekAllow, AllowResult, Granted
<1> QED  BY <1>2, <1>3, <1>4

\* Time changes neither the probe count nor an admission that was open.
LEMMA AgedSound ==
    ASSUME NEW b, Sound(b)
    PROVE  /\ Sound(Aged(b)) /\ Aged(b).inFlight = b.inFlight
           /\ PeekAllow(b).allowed => PeekAllow(Aged(b)).allowed
<1>1. Timeout \in Nat \ {0}
  BY BreakerConfigAssumption DEF Timeout
<1>2. Sound(Aged(b)) /\ Aged(b).inFlight = b.inFlight /\ Aged(b).state = b.state
  BY <1>1 DEF Sound, Aged, Breaker, NeverOpened
<1>3. TimeoutElapsed(b) => TimeoutElapsed(Aged(b))
  BY <1>1 DEF TimeoutElapsed, Sound, Aged, Breaker, NeverOpened
<1>4. ProbesFull(Aged(b)) = ProbesFull(b)
  BY <1>2 DEF ProbesFull
<1> QED  BY <1>2, <1>3, <1>4 DEF PeekAllow, Granted, Refused

-----------------------------------------------------------------------------
(***************************************************************************)
(* The local variables of one request.                                     *)
(***************************************************************************)
LEMMA ConstantFacts ==
    /\ NumProviders \in Nat \ {0} /\ 0 \in Providers /\ None \notin Providers
    /\ IsFiniteSet(Providers) /\ IsFiniteSet(Requests)
<1>1. IsFiniteSet(Providers)
  BY FailoverAssumption, FS_Interval DEF Providers
<1> QED  BY <1>1, FailoverAssumption DEF Providers, None

LEMMA FreshIsRequest == Fresh \in Request
  BY ConstantFacts DEF Fresh, Request, Loop, None

LEMMA OnwardFacts ==
    ASSUME NEW r \in Requests, req[r] \in Request, req[r].offset < NumProviders
    PROVE  /\ Onward(r) \in Request
           /\ Onward(r).pc = "pick" /\ Onward(r).at = None
           /\ Onward(r).offset = req[r].offset + 1
           /\ Onward(r).held = FALSE /\ Onward(r).probe = FALSE /\ Onward(r).inline = FALSE
           /\ Onward(r).start = req[r].start /\ Onward(r).cand = req[r].cand
           /\ Onward(r).attempted = req[r].attempted /\ Onward(r).result = req[r].result
           /\ Onward(r).latecomer = req[r].latecomer
<1>1. req[r].offset + 1 \in 0..NumProviders
  BY ConstantFacts DEF Request
<1>2. Onward(r) \in Request
  BY <1>1 DEF Onward, Request, Loop
<1>3. /\ Onward(r).pc = "pick" /\ Onward(r).at = None
           /\ Onward(r).offset = req[r].offset + 1
           /\ Onward(r).held = FALSE /\ Onward(r).probe = FALSE /\ Onward(r).inline = FALSE
  BY DEF Onward, Request
<1>4. /\ Onward(r).start = req[r].start /\ Onward(r).cand = req[r].cand
           /\ Onward(r).attempted = req[r].attempted /\ Onward(r).result = req[r].result
           /\ Onward(r).latecomer = req[r].latecomer
  BY DEF Onward, Request
<1> QED BY <1>2, <1>3, <1>4

LEMMA AnsweredFacts ==
    ASSUME NEW r \in Requests, req[r] \in Request,
           NEW result \in {"retryLater", "rejected", "canceled", "failed", "delivered",
                           "inconclusive", "partial"}
    PROVE  /\ Answered(r, result) \in Request
           /\ Answered(r, result).pc = "answered" /\ Answered(r, result).at = None
           /\ Answered(r, result).result = result
           /\ Answered(r, result).latecomer = req[r].latecomer
           /\ Answered(r, result).held = FALSE /\ Answered(r, result).probe = FALSE
<1>1. req[r].latecomer \in BOOLEAN /\ req[r].sends \in Nat
  BY DEF Request
<1>2. Answered(r, result) \in Request
  BY <1>1, FreshIsRequest DEF Answered, Request
<1>3. /\ Answered(r, result).pc = "answered" /\ Answered(r, result).at = None
           /\ Answered(r, result).result = result
           /\ Answered(r, result).latecomer = req[r].latecomer
           /\ Answered(r, result).held = FALSE /\ Answered(r, result).probe = FALSE
  BY DEF Answered, Fresh
<1> QED BY <1>2, <1>3

\* While an attempt holds a provider, that provider and its key exist.
LEMMA HoldingFacts ==
    ASSUME NEW l \in Request, Shaped(l), l.pc \in Holding
    PROVE  /\ l.at \in Providers /\ l.offset < NumProviders /\ l.result = "none"
           /\ l.pc \in {"upstream", "stream"} => l.key \in Keys(l.at)
<1>1. /\ l.start \in Int /\ l.offset \in Int /\ NumProviders \in Nat \ {0}
      /\ l.at = (l.start + l.offset) % NumProviders /\ l.offset < NumProviders
  BY ConstantFacts DEF Shaped, Request, Providers
<1>2. l.at \in Providers
  BY <1>1 DEF Providers
<1> QED  BY <1>1, <1>2 DEF Shaped, Holding

\* The two ways an attempt hands its permit back, and what they leave.
LEMMA HandedBackSound ==
    ASSUME HealthOK, RequestsOK, NEW r \in Requests, req[r].pc \in Holding,
           NEW c, c = Neutral(r) \/ \E reason : c = AfterFailure(r, reason)
    PROVE  /\ req[r].at \in Providers
           /\ Sound(c) /\ Returns(breakers[req[r].at], req[r].probe, c)
<1> DEFINE b == breakers[req[r].at]
<1>1. req[r] \in Request /\ Shaped(req[r])  BY DEF RequestsOK
<1>2. req[r].at \in Providers  BY <1>1, HoldingFacts
<1>3. Sound(b)  BY <1>2 DEF HealthOK
<1>4. req[r].probe \in BOOLEAN  BY <1>1 DEF Request
<1>5. c \in {SlotReturned(b, req[r].probe), RecordFailure(b, req[r].probe)}
  BY DEF Neutral, AfterFailure, ReleaseProbeNeutral
<1> HIDE DEF b
<1>6. Sound(c) /\ Returns(b, req[r].probe, c)
  BY <1>3, <1>4, <1>5, SlotReturnedSound, RecordFailureSound
<1> QED  BY <1>2, <1>6 DEF b

LEMMA BusyReleasedFacts ==
    ASSUME NEW r \in Requests, req[r] \in Request, NEW b \in BusyState
    PROVE  /\ BusyReleased(r, b) \in BusyState
           /\ BusyReleased(r, b).probes <= IF req[r].held /\ b.probes > 0 THEN b.probes - 1
                                           ELSE b.probes
<1>1. BusyProbeMax \in Nat /\ b.probes \in 0..BusyProbeMax
  BY FailoverAssumption DEF BusyState
<1>2. CASE req[r].held /\ b.probes > 0
  BY <1>1, <1>2 DEF BusyReleased, BusyState
<1>3. CASE ~(req[r].held /\ b.probes > 0)
  BY <1>1, <1>3 DEF BusyReleased
<1> QED  BY <1>2, <1>3

LEMMA MarkedBusyFacts ==
    ASSUME HealthOK, NEW p \in Providers, NEW b \in BusyState
    PROVE  /\ MarkedBusy(p, b) \in BusyState /\ MarkedBusy(p, b).probes = b.probes
           /\ BusyWait(p) \in Nat
<1>1. /\ Len(BusyDelays) \in Nat \ {0}
      /\ \A i \in 1..Len(BusyDelays) : BusyDelays[i] \in Nat \ {0}
  BY FailoverAssumption
<1>2. busy[p].step \in 0..Len(BusyDelays) - 1
  BY DEF HealthOK, BusyState
<1>3. NextBusyStep(p) \in 0..Len(BusyDelays) - 1
  BY <1>1, <1>2 DEF NextBusyStep, MinOf
<1>4. BusyWait(p) \in Nat
  BY <1>1, <1>3 DEF BusyWait
<1> DEFINE step == MaxOf(b.step, NextBusyStep(p))
           left == MaxOf(b.left, BusyWait(p))
<1>5. step \in 0..Len(BusyDelays) - 1 /\ left \in Nat
  BY <1>3, <1>4 DEF BusyState, MaxOf
<1>6. MarkedBusy(p, b) = [b EXCEPT !.step = step, !.left = left, !.marked = TRUE]
  BY DEF MarkedBusy
<1> HIDE DEF step, left
<1> QED  BY <1>4, <1>5, <1>6 DEF BusyState

LEMMA PenaltyFacts ==
    ASSUME NEW left \in Nat, NEW d \in Nat
    PROVE  Penalty(left, d) \in Nat /\ (left > 0 => Penalty(left, d) = left)
  BY DEF Penalty

LEMMA NextActiveFacts ==
    ASSUME NEW from \in Providers, NEW S, S \subseteq Providers, S # {}
    PROVE  FirstFrom((from + 1) % NumProviders, NumProviders, S) \in Providers
<1>1. NumProviders \in Nat \ {0} /\ (from + 1) % NumProviders \in 0..NumProviders - 1
  BY ConstantFacts DEF Providers
<1> QED  BY <1>1, FirstFromFinds DEF Providers

LEMMA NextActiveType == \A from \in Providers : NextActive(from) \in Providers
  BY NextActiveFacts DEF NextActive, Active

LEMMA NextLiveKeyType ==
    \A p \in Providers : \A k \in Keys(p) : NextLiveKey(p, k) \in Keys(p)
  BY FirstFromFinds, LiveKeysFacts DEF NextLiveKey, Keys

\* A step that only rewrites one request's locals keeps the others'.
LEMMA SetKeepsRequests ==
    ASSUME RequestsOK, NEW r \in Requests, NEW l \in Request, Shaped(l), Set(r, l),
           NEW seen \in [Requests -> SUBSET Providers], NEW n \in SUBSET Providers,
           TrackFrom(seen, n)
    PROVE  /\ RequestsOK'
           /\ \A q \in Requests : untried'[q] \subseteq seen[q]
<1>1. req' \in [Requests -> Request] /\ \A q \in Requests : Shaped(req'[q])
  BY DEF RequestsOK, Set
<1>2. untried' \in [Requests -> SUBSET Providers] /\ \A q \in Requests : untried'[q] \subseteq seen[q]
  BY DEF RequestsOK, TrackFrom
<1>3. lost' \subseteq Providers
  BY DEF RequestsOK, TrackFrom
<1> QED  BY <1>1, <1>2, <1>3 DEF RequestsOK

LEMMA OnwardShaped ==
    ASSUME NEW r \in Requests, req[r] \in Request, req[r].offset < NumProviders,
           req[r].result = "none"
    PROVE  Onward(r) \in Request /\ Shaped(Onward(r))
<1>1. /\ Onward(r).pc = "pick" /\ Onward(r).at = None /\ Onward(r).held = FALSE
      /\ Onward(r).inline = FALSE /\ Onward(r).result = "none" /\ Onward(r) \in Request
  BY OnwardFacts
<1> HIDE DEF Onward
<1> QED  BY <1>1 DEF Shaped, Holding, Loop

LEMMA AnsweredShaped ==
    ASSUME NEW r \in Requests, req[r] \in Request,
           NEW result \in {"retryLater", "rejected", "canceled", "failed", "delivered",
                           "inconclusive", "partial"}
    PROVE  Answered(r, result) \in Request /\ Shaped(Answered(r, result))
<1>1. /\ Answered(r, result).pc = "answered" /\ Answered(r, result).at = None
      /\ Answered(r, result) \in Request
  BY AnsweredFacts
<1> QED  BY <1>1 DEF Shaped, Holding, Loop

LEMMA FreshShaped == Fresh \in Request /\ Shaped(Fresh)
  BY FreshIsRequest DEF Fresh, Shaped, Holding, Loop

LEMMA InitShape == Init => ShapeInv
<1> SUFFICES ASSUME Init PROVE ShapeInv  OBVIOUS
<1>1. Sound(NewBreaker) /\ NewBreaker \in Breaker
  BY BreakerConfigAssumption DEF NewBreaker, Sound, Breaker
<1>2. [step |-> 0, left |-> 0, marked |-> FALSE, probes |-> 0] \in BusyState
  BY FailoverAssumption DEF BusyState
<1>3. HealthOK  BY <1>1, <1>2 DEF Init, HealthOK
<1>4. CursorsOK
  BY ConstantFacts, FailoverAssumption DEF Init, CursorsOK, Keys
<1>5. RequestsOK  BY FreshShaped DEF Init, RequestsOK
<1> QED  BY <1>3, <1>4, <1>5 DEF ShapeInv

\* Admission, the body and clients that leave.
LEMMA AdmissionKeepsShape ==
    ASSUME ShapeInv, NEW r \in Requests,
           \/ Admit(r) \/ TurnAway(r) \/ ClientLeaves(r) \/ Read(r)
    PROVE  ShapeInv'
<1>1. HealthOK /\ CursorsOK /\ RequestsOK /\ req[r] \in Request /\ Shaped(req[r])
  BY DEF ShapeInv, RequestsOK
<1>2. ScopeOf[r] \in Scopes /\ Capable[r] \subseteq Providers
  BY FailoverAssumption
<1>3. HealthOK'
  <2>1. UNCHANGED <<dead, keyDead, busy, breakers>>
    BY DEF Admit, TurnAway, ClientLeaves, Read, ReadBody, RejectBody
  <2> QED  BY <1>1, <2>1 DEF HealthOK
<1>4. CASE Admit(r)
  <2> DEFINE s == FirstFrom(cursor[ScopeOf[r]], NumProviders, AvailableTo(r))
             l == [Fresh EXCEPT !.pc = "body", !.cand = AvailableTo(r), !.start = s,
                                !.preferred = s, !.sends = req[r].sends + 1]
  <2>1. AvailableTo(r) \subseteq Providers  BY <1>2 DEF AvailableTo
  <2>2. s \in Providers
    <3>1. cursor[ScopeOf[r]] \in Providers  BY <1>1, <1>2 DEF CursorsOK
    <3>2. AvailableTo(r) # {}  BY <1>4 DEF Admit
    <3>3. s \in AvailableTo(r)
      BY <2>1, <3>1, <3>2, ConstantFacts, FirstFromFinds DEF Providers
    <3> QED  BY <2>1, <3>3
  <2>3. Set(r, l) /\ cursor' = [cursor EXCEPT ![ScopeOf[r]] = s] /\ UNCHANGED keyCursor
        /\ TrackFrom([untried EXCEPT ![r] = AvailableTo(r)], {})
    BY <1>4 DEF Admit
  <2>4. req[r].sends + 1 \in Nat  BY <1>1 DEF Request
  <2> HIDE DEF s
  <2>5. l \in Request /\ l.pc = "body" /\ l.at = None /\ l.offset = 0 /\ l.attempted = 0
        /\ l.result = "none" /\ l.held = FALSE /\ l.inline = FALSE
    BY <2>1, <2>2, <2>4, FreshIsRequest DEF Fresh, Request
  <2> HIDE DEF l
  <2>6. Shaped(l)  BY <2>5 DEF Shaped, Holding, Loop
  <2> DEFINE seen == [untried EXCEPT ![r] = AvailableTo(r)]
  <2>7. seen \in [Requests -> SUBSET Providers] /\ TrackFrom(seen, {})
    BY <1>1, <2>1, <2>3 DEF RequestsOK
  <2> HIDE DEF seen
  <2>8. RequestsOK'  BY <1>1, <2>3, <2>5, <2>6, <2>7, SetKeepsRequests
  <2>9. CursorsOK'  BY <1>1, <2>2, <2>3 DEF CursorsOK
  <2> QED  BY <1>3, <2>8, <2>9 DEF ShapeInv
<1>5. CASE TurnAway(r)
  <2> DEFINE l == [Fresh EXCEPT !.pc = "answered", !.sends = req[r].sends + 1,
                                !.result = IF KnowsWhenBack THEN "retryLater" ELSE "unavailable"]
  <2>1. Set(r, l) /\ UNCHANGED <<cursor, keyCursor>> /\ TrackFrom(untried, {})
    BY <1>5 DEF TurnAway, Track
  <2>2. req[r].sends + 1 \in Nat  BY <1>1 DEF Request
  <2>3. l \in Request /\ l.pc = "answered" /\ l.at = None
    BY <2>2, FreshIsRequest DEF Fresh, Request
  <2> HIDE DEF l
  <2>4. Shaped(l)  BY <2>3 DEF Shaped, Holding, Loop
  <2>5. RequestsOK'  BY <1>1, <2>1, <2>3, <2>4, SetKeepsRequests DEF RequestsOK
  <2> QED  BY <1>1, <1>3, <2>1, <2>5 DEF ShapeInv, CursorsOK
<1>6. CASE ClientLeaves(r)
  <2> DEFINE l == [req[r] EXCEPT !.gone = TRUE]
  <2>1. Set(r, l) /\ UNCHANGED <<cursor, keyCursor>> /\ TrackFrom(untried, {})
    BY <1>6 DEF ClientLeaves, Track
  <2>2. l \in Request  BY <1>1 DEF Request
  <2>3. Shaped(l)  BY <1>1 DEF Shaped, Request
  <2> HIDE DEF l
  <2>5. RequestsOK'  BY <1>1, <2>1, <2>2, <2>3, SetKeepsRequests DEF RequestsOK
  <2> QED  BY <1>1, <1>3, <2>1, <2>5 DEF ShapeInv, CursorsOK
<1>7. ASSUME NEW h \in HintsOf[r], ReadBody(r, h)
      PROVE  ShapeInv'
  <2>1. /\ req[r].pc = "body" /\ TrackFrom(untried, {}) /\ UNCHANGED cursor
        /\ \/ /\ h[1] \in Providers /\ h[2] \in Keys(h[1])
              /\ Set(r, [req[r] EXCEPT !.pc = "pick", !.start = h[1], !.preferred = h[1]])
              /\ keyCursor' = [keyCursor EXCEPT ![ScopeOf[r]][h[1]] = h[2]]
           \/ Set(r, [req[r] EXCEPT !.pc = "pick"]) /\ UNCHANGED keyCursor
    BY <1>7, FailoverAssumption DEF ReadBody, Track
  <2>2. ASSUME NEW l, \/ /\ h[1] \in Providers
                         /\ l = [req[r] EXCEPT !.pc = "pick", !.start = h[1], !.preferred = h[1]]
                      \/ l = [req[r] EXCEPT !.pc = "pick"]
        PROVE  l \in Request /\ Shaped(l)
    <3>1. CASE l = [req[r] EXCEPT !.pc = "pick"]
      BY <1>1, <2>1, <3>1 DEF Request, Shaped, Holding, Loop
    <3>2. CASE /\ h[1] \in Providers
               /\ l = [req[r] EXCEPT !.pc = "pick", !.start = h[1], !.preferred = h[1]]
      BY <1>1, <2>1, <3>2 DEF Request, Shaped, Holding, Loop
    <3> QED  BY <2>2, <3>1, <3>2
  <2>3. RequestsOK'  BY <1>1, <2>1, <2>2, SetKeepsRequests DEF RequestsOK
  <2>4. CursorsOK'
    <3>1. CASE UNCHANGED keyCursor  BY <1>1, <2>1, <3>1 DEF CursorsOK
    <3>2. CASE /\ h[1] \in Providers /\ h[2] \in Keys(h[1])
               /\ keyCursor' = [keyCursor EXCEPT ![ScopeOf[r]][h[1]] = h[2]]
      <4>1. h[2] \in Nat  BY <3>2, FailoverAssumption DEF Keys
      <4>2. keyCursor' \in [Scopes -> [Providers -> Nat]]  BY <1>1, <1>2, <3>2, <4>1 DEF CursorsOK
      <4>3. \A s \in Scopes, p \in Providers : keyCursor'[s][p] \in Keys(p)
        BY <1>1, <1>2, <3>2 DEF CursorsOK
      <4> QED  BY <1>1, <2>1, <4>2, <4>3 DEF CursorsOK
    <3> QED  BY <2>1, <3>1, <3>2
  <2> QED  BY <1>3, <2>3, <2>4 DEF ShapeInv
<1>8. CASE RejectBody(r)
  <2>1. Set(r, Answered(r, "rejected")) /\ UNCHANGED <<cursor, keyCursor>> /\ TrackFrom(untried, {})
    BY <1>8 DEF RejectBody, Track
  <2>2. RequestsOK'  BY <1>1, <2>1, AnsweredShaped, SetKeepsRequests DEF RequestsOK
  <2> QED  BY <1>1, <1>3, <2>1, <2>2 DEF ShapeInv, CursorsOK
<1> QED  BY <1>4, <1>5, <1>6, <1>7, <1>8 DEF Read

\* A step that touches one provider's health leaves it well typed.
LEMMA HealthOfOne ==
    ASSUME HealthOK, NEW p \in Providers,
           NEW c, breakers' = breakers \/ (Sound(c) /\ breakers' = [breakers EXCEPT ![p] = c]),
           NEW b, busy' = busy \/ (b \in BusyState /\ busy' = [busy EXCEPT ![p] = b]),
           NEW t, dead' = dead \/ (t \in Nat /\ dead' = [dead EXCEPT ![p] = t]),
           NEW k, NEW u, keyDead' = keyDead \/ (u \in Nat /\ keyDead' = [keyDead EXCEPT ![p][k] = u])
    PROVE  HealthOK'
<1>1. breakers' \in [Providers -> Breaker] /\ \A q \in Providers : Sound(breakers'[q])
  BY DEF HealthOK, Sound
<1>2. busy' \in [Providers -> BusyState]  BY DEF HealthOK
<1>3. dead' \in [Providers -> Nat]  BY DEF HealthOK
<1>4. DOMAIN keyDead' = Providers /\ \A q \in Providers : keyDead'[q] \in [Keys(q) -> Nat]
  BY DEF HealthOK
<1> QED  BY <1>1, <1>2, <1>3, <1>4 DEF HealthOK

\* Likewise for the cursors: of one scope, or of all whose provider went away.
LEMMA CursorsOfOne ==
    ASSUME CursorsOK, NEW s \in Scopes, NEW p \in Providers,
           NEW n, cursor' = cursor \/ (n \in Providers /\ cursor' = [cursor EXCEPT ![s] = n]),
           NEW k, keyCursor' = keyCursor
                  \/ (k \in Keys(p) /\ keyCursor' = [keyCursor EXCEPT ![s][p] = k])
    PROVE  CursorsOK'
<1>1. cursor' \in [Scopes -> Providers]  BY DEF CursorsOK
<1>2. \A q \in Providers : \A i \in Keys(q) : i \in Nat  BY FailoverAssumption DEF Keys
<1>3. keyCursor' \in [Scopes -> [Providers -> Nat]]
  <2>1. CASE k \in Keys(p) /\ keyCursor' = [keyCursor EXCEPT ![s][p] = k]
    <3>1. k \in Nat  BY <1>2, <2>1
    <3> QED  BY <2>1, <3>1 DEF CursorsOK
  <2>2. CASE keyCursor' = keyCursor  BY <2>2 DEF CursorsOK
  <2> QED  BY <2>1, <2>2
<1>4. \A z \in Scopes, q \in Providers : keyCursor'[z][q] \in Keys(q)  BY DEF CursorsOK
<1> QED  BY <1>1, <1>3, <1>4 DEF CursorsOK

LEMMA LoopKeepsShape ==
    ASSUME ShapeInv, NEW r \in Requests,
           StopAtPick(r) \/ SkipProvider(r) \/ TakePermit(r) \/ NoKeyLeft(r) \/ GiveUp(r)
    PROVE  ShapeInv'
<1>1. HealthOK /\ CursorsOK /\ RequestsOK /\ req[r] \in Request /\ Shaped(req[r])
  BY DEF ShapeInv, RequestsOK
<1>2. CursorsOK'
  <2>1. UNCHANGED <<cursor, keyCursor>>
    BY DEF StopAtPick, SkipProvider, TakePermit, NoKeyLeft, GiveUp
  <2> QED  BY <1>1, <2>1 DEF CursorsOK
<1>3. TrackFrom(untried, {}) /\ UNCHANGED <<dead, keyDead, busy>>
  BY DEF StopAtPick, SkipProvider, TakePermit, NoKeyLeft, GiveUp, Track
<1>4. ASSUME NEW result \in {"canceled", "failed", "retryLater"}, Set(r, Answered(r, result)),
             UNCHANGED breakers
      PROVE  ShapeInv'
  <2>1. RequestsOK'  BY <1>1, <1>3, <1>4, AnsweredShaped, SetKeepsRequests DEF RequestsOK
  <2>2. HealthOK'  BY <1>1, <1>3, <1>4 DEF HealthOK
  <2> QED  BY <1>2, <2>1, <2>2 DEF ShapeInv
<1>5. CASE StopAtPick(r)
  BY <1>4, <1>5 DEF StopAtPick
<1>6. CASE GiveUp(r)
  BY <1>4, <1>6 DEF GiveUp
<1>7. req[r].pc = "pick" /\ MoreProviders(r) =>
          /\ ThisProvider(r) \in Providers /\ req[r].offset < NumProviders
          /\ req[r].result = "none" /\ Sound(breakers[ThisProvider(r)])
  <2>1. req[r].start \in Int /\ req[r].offset \in Int /\ NumProviders \in Nat \ {0}
    BY <1>1, ConstantFacts DEF Request, Providers
  <2>2. ThisProvider(r) \in Providers
    <3>1. \A i \in Int : i % NumProviders \in 0..NumProviders - 1  BY <2>1
    <3> QED  BY <2>1, <3>1 DEF ThisProvider, Providers
  <2> QED  BY <1>1, <2>2 DEF MoreProviders, Shaped, HealthOK, Loop
<1>8. CASE SkipProvider(r)
  <2> DEFINE p == ThisProvider(r)
  <2>1. p \in Providers /\ Sound(breakers[p]) /\ req[r].offset < NumProviders
        /\ req[r].result = "none" /\ Set(r, Onward(r))
    BY <1>7, <1>8 DEF SkipProvider
  <2>2. Sound(AllowState(breakers[p]))  BY <2>1, AllowSound
  <2>3. breakers' = breakers \/ breakers' = [breakers EXCEPT ![p] = AllowState(breakers[p])]
    BY <1>8 DEF SkipProvider
  <2> HIDE DEF p
  <2>4. HealthOK'  BY <1>1, <1>3, <2>1, <2>2, <2>3, HealthOfOne
  <2>5. RequestsOK'  BY <1>1, <1>3, <2>1, OnwardShaped, SetKeepsRequests DEF RequestsOK
  <2> QED  BY <1>2, <2>4, <2>5 DEF ShapeInv
<1>9. CASE TakePermit(r)
  <2> DEFINE p == ThisProvider(r)
             u == AllowResult(breakers[p]).usedProbe
             l == [req[r] EXCEPT !.pc = "open", !.at = p, !.probe = u]
  <2>1. p \in Providers /\ Sound(breakers[p]) /\ req[r].offset < NumProviders
        /\ req[r].result = "none" /\ req[r].pc = "pick" /\ Set(r, l)
        /\ breakers' = [breakers EXCEPT ![p] = AllowState(breakers[p])]
    BY <1>7, <1>9 DEF TakePermit
  <2>2. Sound(AllowState(breakers[p])) /\ u \in BOOLEAN  BY <2>1, AllowSound
  <2>3. p = (req[r].start + req[r].offset) % NumProviders  BY DEF ThisProvider
  <2> HIDE DEF p, u
  <2>4. l \in Request /\ l.pc = "open" /\ l.at = p /\ l.result = "none" /\ l.held = req[r].held
        /\ l.inline = req[r].inline /\ l.start = req[r].start /\ l.offset = req[r].offset
    BY <1>1, <2>1, <2>2 DEF Request, Loop
  <2> HIDE DEF l
  <2>5. Shaped(l)
    BY <1>1, <2>1, <2>3, <2>4 DEF Shaped, Holding, Loop
  <2>6. HealthOK'  BY <1>1, <1>3, <2>1, <2>2, HealthOfOne
  <2>7. RequestsOK'  BY <1>1, <1>3, <2>1, <2>4, <2>5, SetKeepsRequests DEF RequestsOK
  <2> QED  BY <1>2, <2>6, <2>7 DEF ShapeInv
<1>10. CASE NoKeyLeft(r)
  <2> DEFINE p == req[r].at
             c == Neutral(r)
  <2>1. req[r].pc \in Holding  BY <1>10 DEF NoKeyLeft, Holding, Loop
  <2>2. p \in Providers /\ Sound(c)  BY <1>1, <2>1, HandedBackSound
  <2>3. req[r].offset < NumProviders /\ req[r].result = "none"  BY <1>1, <2>1, HoldingFacts
  <2>4. breakers' = [breakers EXCEPT ![p] = c] /\ Set(r, Onward(r))
    BY <1>10 DEF NoKeyLeft
  <2> HIDE DEF p, c
  <2>5. HealthOK'  BY <1>1, <1>3, <2>2, <2>4, HealthOfOne
  <2>6. RequestsOK'  BY <1>1, <1>3, <2>3, <2>4, OnwardShaped, SetKeepsRequests DEF RequestsOK
  <2> QED  BY <1>2, <2>5, <2>6 DEF ShapeInv
<1> QED  BY <1>5, <1>6, <1>8, <1>9, <1>10

LEMMA LiveKeyCountType == \A p \in Providers : LiveKeyCount(p) \in Nat
<1> SUFFICES ASSUME NEW p \in Providers PROVE LiveKeyCount(p) \in Nat  OBVIOUS
<1>1. NumKeys[p] \in Nat  BY FailoverAssumption
<1>2. IsFiniteSet(Keys(p))  BY <1>1, FS_Interval DEF Keys
<1>3. LiveKeys(p) \subseteq Keys(p)  BY DEF LiveKeys
<1> QED  BY <1>2, <1>3, FS_Subset, FS_CardinalityType DEF LiveKeyCount

\* What becomes of the locals when the provider's keys are counted.
Opening(r, l) ==
    LET p == req[r].at
        k == NextLiveKey(p, keyCursor[ScopeOf[r]][p])
        late == req[r].latecomer \/ p \notin req[r].cand
        opened == [req[r] EXCEPT !.attempted = @ + 1, !.latecomer = late,
                                 !.keyActive = LiveKeyCount(p), !.keyStart = k]
    IN  \/ l = [Onward(r) EXCEPT !.attempted = @ + 1, !.latecomer = late]
        \/ l = [opened EXCEPT !.pc = "wait", !.wait = busy[p].left]
        \/ l = [opened EXCEPT !.pc = "send"]

LEMMA OpeningFacts ==
    ASSUME ShapeInv, NEW r \in Requests, req[r].pc = "open", NEW l, Opening(r, l)
    PROVE  /\ l \in Request /\ Shaped(l)
           /\ l.attempted = req[r].attempted + 1 /\ l.start = req[r].start /\ l.cand = req[r].cand
           /\ l.latecomer = (req[r].latecomer \/ req[r].at \notin req[r].cand)
           /\ l.result = "none" /\ l.held = FALSE
           /\ \/ l.pc = "pick" /\ l.at = None /\ l.offset = req[r].offset + 1
                 /\ l.probe = FALSE /\ l.inline = FALSE
              \/ l.pc \in Counted /\ l.at = req[r].at /\ l.offset = req[r].offset
                 /\ l.probe = req[r].probe /\ l.inline = req[r].inline
<1> DEFINE p == req[r].at
           k == NextLiveKey(p, keyCursor[ScopeOf[r]][p])
           n == LiveKeyCount(p)
           late == req[r].latecomer \/ p \notin req[r].cand
           o == Onward(r)
           w == busy[p].left
           opened == [req[r] EXCEPT !.attempted = @ + 1, !.latecomer = late,
                                    !.keyActive = n, !.keyStart = k]
<1>1. req[r] \in Request /\ Shaped(req[r]) /\ req[r].pc \in Holding /\ ~req[r].held
  BY DEF ShapeInv, RequestsOK, Shaped, Holding, Loop
<1>2. p \in Providers /\ req[r].offset < NumProviders /\ req[r].result = "none"
  BY <1>1, HoldingFacts
<1>3. k \in Nat
  <2>1. keyCursor[ScopeOf[r]][p] \in Keys(p)
    BY <1>2, FailoverAssumption DEF ShapeInv, CursorsOK
  <2>2. k \in Keys(p)  BY <1>2, <2>1, NextLiveKeyType
  <2> QED  BY <1>2, <2>2, FailoverAssumption DEF Keys
<1>4. n \in Nat /\ w \in Nat  BY <1>2, LiveKeyCountType DEF ShapeInv, HealthOK, BusyState
<1>5. late \in BOOLEAN  OBVIOUS
<1>6. \/ l = [o EXCEPT !.attempted = @ + 1, !.latecomer = late]
      \/ l = [opened EXCEPT !.pc = "wait", !.wait = w]
      \/ l = [opened EXCEPT !.pc = "send"]
  BY DEF Opening
<1>7. /\ o \in Request /\ Shaped(o) /\ o.pc = "pick" /\ o.at = None
      /\ o.offset = req[r].offset + 1 /\ o.held = FALSE /\ o.probe = FALSE /\ o.inline = FALSE
      /\ o.start = req[r].start /\ o.cand = req[r].cand
      /\ o.attempted = req[r].attempted /\ o.result = req[r].result
  BY <1>1, <1>2, OnwardFacts, OnwardShaped
<1>8. req[r].attempted \in Nat  BY <1>1 DEF Request
<1> HIDE DEF k, n, late, o, w
<1>9. CASE l = [o EXCEPT !.attempted = @ + 1, !.latecomer = late]
  <2>0. o.attempted + 1 \in Nat /\ l = [o EXCEPT !.attempted = o.attempted + 1, !.latecomer = late]
    BY <1>7, <1>8, <1>9
  <2>1. l \in Request  BY <1>5, <1>7, <2>0 DEF Request
  <2>2. /\ l.pc = "pick" /\ l.at = None /\ l.result = "none" /\ l.held = FALSE
        /\ l.offset = req[r].offset + 1 /\ l.attempted = req[r].attempted + 1
        /\ l.start = req[r].start /\ l.cand = req[r].cand
        /\ l.latecomer = late /\ l.probe = FALSE /\ l.inline = FALSE
    BY <1>2, <1>7, <1>9 DEF Request
  <2>3. Shaped(l)  BY <2>2 DEF Shaped, Holding, Loop
  <2> QED  BY <2>1, <2>2, <2>3 DEF late
<1>10. opened \in Request
  <2>1. req[r].attempted + 1 \in Nat  BY <1>8
  <2>2. [req[r] EXCEPT !.attempted = req[r].attempted + 1, !.latecomer = late,
                       !.keyActive = n, !.keyStart = k] \in Request
    BY <1>1, <1>3, <1>4, <1>5, <2>1 DEF Request
  <2> QED  BY <2>2
<1>11. /\ opened.attempted = req[r].attempted + 1 /\ opened.latecomer = late
       /\ opened.at = p /\ opened.start = req[r].start /\ opened.cand = req[r].cand
       /\ opened.offset = req[r].offset /\ opened.result = req[r].result
       /\ opened.held = req[r].held /\ opened.probe = req[r].probe
       /\ opened.inline = req[r].inline
  BY <1>1 DEF Request
<1> HIDE DEF opened
<1>12. ASSUME NEW pc \in {"wait", "send"},
              l = [opened EXCEPT !.pc = "wait", !.wait = w] \/ l = [opened EXCEPT !.pc = "send"]
       PROVE  /\ l \in Request /\ l.pc \in {"wait", "send"} /\ l.at = opened.at
              /\ l.result = opened.result /\ l.held = opened.held /\ l.offset = opened.offset
              /\ l.attempted = opened.attempted /\ l.start = opened.start
              /\ l.cand = opened.cand /\ l.latecomer = opened.latecomer
              /\ l.probe = opened.probe /\ l.inline = opened.inline
  <2>1. CASE l = [opened EXCEPT !.pc = "wait", !.wait = w]
    BY <1>4, <1>10, <2>1 DEF Request, Loop
  <2>2. CASE l = [opened EXCEPT !.pc = "send"]
    BY <1>10, <2>2 DEF Request, Loop
  <2> QED  BY <1>12, <2>1, <2>2
<1>13. CASE l = [opened EXCEPT !.pc = "wait", !.wait = w] \/ l = [opened EXCEPT !.pc = "send"]
  <2>1. /\ l \in Request /\ l.pc \in {"wait", "send"} /\ l.at = p
        /\ l.result = "none" /\ l.held = FALSE /\ l.offset = req[r].offset
        /\ l.attempted = req[r].attempted + 1 /\ l.start = req[r].start
        /\ l.cand = req[r].cand /\ l.latecomer = late
        /\ l.probe = req[r].probe /\ l.inline = req[r].inline
    BY <1>1, <1>2, <1>11, <1>12, <1>13 DEF Request
  <2>2. Shaped(l)  BY <1>1, <1>2, <2>1 DEF Shaped, Holding, Loop
  <2> QED  BY <2>1, <2>2 DEF late, Counted, Holding, Loop
<1> QED  BY <1>6, <1>9, <1>13

LEMMA OpeningSet ==
    ASSUME NEW r \in Requests, req[r] \in Request, OpenProvider(r)
    PROVE  \E l : Set(r, l) /\ Opening(r, l)
<1> DEFINE k == NextLiveKey(req[r].at, keyCursor[ScopeOf[r]][req[r].at])
<1> DEFINE p == req[r].at
               late == req[r].latecomer \/ p \notin req[r].cand
               opened == [req[r] EXCEPT !.attempted = @ + 1, !.latecomer = late,
                                        !.keyActive = LiveKeyCount(p), !.keyStart = k]
               tooBusy == busy[p].left > 0 /\ (p # req[r].preferred \/ busy[p].left > MaxInlineWait)
               passed == [Onward(r) EXCEPT !.attempted = @ + 1, !.latecomer = late]
               waits == [opened EXCEPT !.pc = "wait", !.wait = busy[p].left]
               sends == [opened EXCEPT !.pc = "send"]
<1>1. opened.latecomer = late  BY DEF Request
<1>2. Set(r, IF tooBusy THEN [Onward(r) EXCEPT !.attempted = @ + 1,
                                                   !.latecomer = opened.latecomer]
                 ELSE IF busy[p].left > 0 THEN waits ELSE sends)
      BY DEF OpenProvider
<1>3. \A l \in {passed, waits, sends} : Opening(r, l)  BY DEF Opening
<1> HIDE DEF k, opened, tooBusy, waits, sends
<1>4. \E l \in {passed, waits, sends} : Set(r, l)  BY <1>1, <1>2
<1> QED  BY <1>3, <1>4

LEMMA MoveCursorOK ==
    ASSUME CursorsOK, NEW r \in Requests, NEW p \in Providers, MoveCursor(r, p),
           UNCHANGED keyCursor
    PROVE  CursorsOK'
<1>1. NextActive(p)' \in Providers
  BY NextActiveFacts DEF NextActive, Active
<1>2. ScopeOf[r] \in Scopes  BY FailoverAssumption
<1> QED  BY <1>1, <1>2, CursorsOfOne DEF MoveCursor

LEMMA WaitingKeepsShape ==
    ASSUME ShapeInv, NEW r \in Requests,
           \/ OpenProvider(r) \/ ProbeBusy(r) \/ WaitCancelled(r)
           \/ \E p \in Providers : OverflowBusy(r, p)
    PROVE  ShapeInv'
<1>1. HealthOK /\ CursorsOK /\ RequestsOK /\ req[r] \in Request /\ Shaped(req[r])
  BY DEF ShapeInv, RequestsOK
<1>2. ScopeOf[r] \in Scopes  BY FailoverAssumption
<1>3. req[r].pc \in Holding
  BY DEF OpenProvider, ProbeBusy, WaitCancelled, OverflowBusy, Holding, Loop
<1>4. req[r].at \in Providers /\ req[r].offset < NumProviders /\ req[r].result = "none"
  BY <1>1, <1>3, HoldingFacts
<1>5. Sound(Neutral(r))  BY <1>1, <1>3, HandedBackSound
<1>6. TrackFrom(untried, {})
  BY DEF OpenProvider, ProbeBusy, WaitCancelled, OverflowBusy, Track
<1>7. CASE OpenProvider(r)
  <2> DEFINE k == NextLiveKey(req[r].at, keyCursor[ScopeOf[r]][req[r].at])
  <2>1. PICK l : Set(r, l) /\ Opening(r, l)
    BY <1>1, <1>7, OpeningSet
  <2>2. req[r].pc = "open"  BY <1>7 DEF OpenProvider
  <2>3. l \in Request /\ Shaped(l)  BY <2>1, <2>2, OpeningFacts
  <2>4. RequestsOK'  BY <1>1, <1>6, <2>1, <2>3, SetKeepsRequests DEF RequestsOK
  <2>5. UNCHANGED <<dead, keyDead, busy, cursor>>
        /\ (breakers' = breakers \/ breakers' = [breakers EXCEPT ![req[r].at] = Neutral(r)])
        /\ keyCursor' = [keyCursor EXCEPT ![ScopeOf[r]][req[r].at] = k]
    BY <1>7 DEF OpenProvider
  <2>6. k \in Keys(req[r].at)
    <3>1. keyCursor[ScopeOf[r]][req[r].at] \in Keys(req[r].at)  BY <1>1, <1>2, <1>4 DEF CursorsOK
    <3> QED  BY <1>4, <3>1, NextLiveKeyType
  <2> HIDE DEF k
  <2>7. HealthOK'  BY <1>1, <1>4, <1>5, <2>5, HealthOfOne
  <2>8. CursorsOK'  BY <1>1, <1>2, <1>4, <2>5, <2>6, CursorsOfOne
  <2> QED  BY <2>4, <2>7, <2>8 DEF ShapeInv
<1>8. CASE ProbeBusy(r)
  <2> DEFINE p == req[r].at
             b == [busy[p] EXCEPT !.probes = @ + 1]
             l == [req[r] EXCEPT !.pc = "send", !.held = TRUE, !.retried = TRUE,
                                 !.keyOffset = 0, !.keyTried = 0]
  <2>1. /\ busy' = [busy EXCEPT ![p] = b] /\ Set(r, l) /\ busy[p].probes < BusyProbeMax
        /\ UNCHANGED <<dead, keyDead, breakers, cursor, keyCursor>> /\ req[r].pc = "wait"
    BY <1>8 DEF ProbeBusy
  <2>2. busy[p] \in BusyState  BY <1>1, <1>4 DEF HealthOK
  <2>3. b \in BusyState
    <3>0. busy[p].probes \in 0..BusyProbeMax /\ BusyProbeMax \in Nat
      BY <2>2, FailoverAssumption DEF BusyState
    <3>1. busy[p].probes + 1 \in 0..BusyProbeMax
      BY <2>1, <3>0
    <3> QED  BY <2>2, <3>1 DEF BusyState
  <2>4. l \in Request /\ l.pc = "send" /\ l.at = p /\ l.start = req[r].start
        /\ l.offset = req[r].offset /\ l.result = req[r].result
    BY <1>1 DEF Request, Loop
  <2> HIDE DEF b, l
  <2>5. Shaped(l)  BY <1>1, <1>3, <1>4, <2>1, <2>4 DEF Shaped, Holding, Loop
  <2>6. RequestsOK'  BY <1>1, <1>6, <2>1, <2>4, <2>5, SetKeepsRequests DEF RequestsOK
  <2> HIDE DEF p
  <2>7. HealthOK'  BY <1>1, <1>4, <2>1, <2>3, HealthOfOne DEF p
  <2> QED  BY <1>1, <2>1, <2>6, <2>7 DEF ShapeInv, CursorsOK
<1>9. CASE WaitCancelled(r)
  <2>1. /\ UNCHANGED <<dead, keyDead, busy, cursor, keyCursor>> /\ Set(r, Answered(r, "canceled"))
        /\ (breakers' = breakers \/ breakers' = [breakers EXCEPT ![req[r].at] = Neutral(r)])
    BY <1>9 DEF WaitCancelled
  <2>2. HealthOK'  BY <1>1, <1>4, <1>5, <2>1, HealthOfOne
  <2>3. RequestsOK'  BY <1>1, <1>6, <2>1, AnsweredShaped, SetKeepsRequests DEF RequestsOK
  <2> QED  BY <1>1, <2>1, <2>2, <2>3 DEF ShapeInv, CursorsOK
<1>10. ASSUME NEW p \in Providers, OverflowBusy(r, p)
       PROVE  ShapeInv'
  <2>1. /\ UNCHANGED <<dead, keyDead, busy, keyCursor>> /\ Set(r, Onward(r)) /\ req[r].at = p
        /\ (breakers' = breakers \/ breakers' = [breakers EXCEPT ![p] = Neutral(r)])
        /\ (MoveCursor(r, p) \/ UNCHANGED cursor)
    BY <1>10 DEF OverflowBusy
  <2>2. HealthOK'  BY <1>1, <1>4, <1>5, <2>1, HealthOfOne
  <2>3. RequestsOK'  BY <1>1, <1>4, <1>6, <2>1, OnwardShaped, SetKeepsRequests DEF RequestsOK
  <2>4. CursorsOK'
    <3>1. CASE UNCHANGED cursor  BY <1>1, <2>1, <3>1 DEF CursorsOK
    <3>2. CASE MoveCursor(r, p)  BY <1>1, <2>1, <3>2, MoveCursorOK
    <3> QED  BY <2>1, <3>1, <3>2
  <2> QED  BY <2>2, <2>3, <2>4 DEF ShapeInv
<1> QED  BY <1>7, <1>8, <1>9, <1>10

LEMMA KeyLoopKeepsShape ==
    ASSUME ShapeInv, NEW r \in Requests, SendWithKey(r) \/ KeysSpent(r)
    PROVE  ShapeInv'
<1>1. HealthOK /\ CursorsOK /\ RequestsOK /\ req[r] \in Request /\ Shaped(req[r])
      /\ req[r].pc = "send" /\ req[r].pc \in Holding
  BY DEF ShapeInv, RequestsOK, SendWithKey, KeysSpent, Holding, Loop
<1>2. req[r].at \in Providers /\ req[r].offset < NumProviders /\ req[r].result = "none"
  BY <1>1, HoldingFacts
<1>3. UNCHANGED <<dead, keyDead, busy, breakers, cursor, keyCursor>>
  BY DEF SendWithKey, KeysSpent
<1>4. HealthOK' /\ CursorsOK'
  BY <1>1, <1>3 DEF HealthOK, CursorsOK
<1>5. CASE SendWithKey(r)
  <2> DEFINE p == req[r].at
             j == CHOOSE i \in NextOffsets(r) : \A o \in NextOffsets(r) : i <= o
             key == (req[r].keyStart + j) % NumKeys[p]
             l == [req[r] EXCEPT !.pc = "upstream", !.key = key, !.keyOffset = j + 1,
                                 !.keyTried = @ + 1]
  <2>1. Set(r, l) /\ NextOffsets(r) # {} /\ TrackFrom(untried, {})
    BY <1>5 DEF SendWithKey, Track
  <2>2. NumKeys[p] \in Nat \ {0} /\ req[r].keyOffset \in Nat /\ req[r].keyStart \in Nat
        /\ req[r].keyTried \in Nat
    BY <1>1, <1>2, FailoverAssumption DEF Request
  <2>3. NextOffsets(r) \subseteq Nat  BY <2>2 DEF NextOffsets
  <2>4. j \in NextOffsets(r)  BY <2>1, <2>3, LeastElement
  <2>5. j \in Nat  BY <2>3, <2>4
  <2> HIDE DEF j
  <2>6. key \in Keys(p) /\ key \in Nat
    <3>1. \A i \in Int : i % NumKeys[p] \in 0..NumKeys[p] - 1  BY <2>2
    <3> QED  BY <2>2, <2>5, <3>1 DEF Keys
  <2> HIDE DEF key
  <2>7. l \in Request /\ l.pc = "upstream" /\ l.at = p /\ l.key = key /\ l.start = req[r].start
        /\ l.offset = req[r].offset /\ l.result = req[r].result
    <3>1. req[r].keyTried + 1 \in Nat /\ j + 1 \in Nat  BY <2>2, <2>5
    <3>2. l = [req[r] EXCEPT !.pc = "upstream", !.key = key, !.keyOffset = j + 1,
                             !.keyTried = req[r].keyTried + 1]
      OBVIOUS
    <3> HIDE DEF l
    <3>3. l \in Request  BY <1>1, <2>6, <3>1, <3>2 DEF Request, Loop
    <3> QED  BY <1>1, <3>2, <3>3 DEF Request
  <2> HIDE DEF l
  <2>8. Shaped(l)  BY <1>1, <1>2, <2>6, <2>7 DEF Shaped, Holding, Loop
  <2>9. RequestsOK'  BY <1>1, <2>1, <2>7, <2>8, SetKeepsRequests DEF RequestsOK
  <2> QED  BY <1>4, <2>9 DEF ShapeInv
<1>6. CASE KeysSpent(r)
  <2>1. PICK n \in SUBSET Providers : Set(r, Onward(r)) /\ TrackFrom(untried, n)
    BY <1>2, <1>6 DEF KeysSpent, Track
  <2>2. RequestsOK'  BY <1>1, <1>2, <2>1, OnwardShaped, SetKeepsRequests DEF RequestsOK
  <2> QED  BY <1>4, <2>2 DEF ShapeInv
<1> QED  BY <1>5, <1>6

\* What hands permit and busy probe back together.
LEMMA HandBackOK ==
    ASSUME ShapeInv, NEW r \in Requests, req[r].pc \in Holding, NEW c, Sound(c),
           HandBack(r, c), UNCHANGED <<dead, keyDead>>
    PROVE  HealthOK'
<1>1. HealthOK /\ req[r] \in Request /\ Shaped(req[r])  BY DEF ShapeInv, RequestsOK
<1>2. req[r].at \in Providers  BY <1>1, HoldingFacts
<1>3. BusyReleased(r, busy[req[r].at]) \in BusyState
  BY <1>1, <1>2, BusyReleasedFacts DEF HealthOK
<1>4. /\ breakers' = [breakers EXCEPT ![req[r].at] = c]
      /\ busy' = [busy EXCEPT ![req[r].at] = BusyReleased(r, busy[req[r].at])]
  BY DEF HandBack
<1> QED  BY <1>1, <1>2, <1>3, <1>4, HealthOfOne

\* The attempts that end here: permit and probe back, and on, or answered.
LEMMA EndingKeepsShape ==
    ASSUME ShapeInv, NEW r \in Requests,
           \/ Unbuilt(r) \/ UpstreamCancelled(r) \/ StreamInconclusive(r) \/ StreamBreaks(r)
           \/ StreamCancelled(r) \/ \E p \in Providers : UpstreamBreaks(r, p)
    PROVE  ShapeInv'
<1>1. HealthOK /\ CursorsOK /\ RequestsOK /\ req[r] \in Request /\ Shaped(req[r])
  BY DEF ShapeInv, RequestsOK
<1>2. req[r].pc \in Holding
  BY DEF Unbuilt, UpstreamCancelled, StreamInconclusive, StreamBreaks, StreamCancelled,
         UpstreamBreaks, Holding, Loop
<1>3. req[r].at \in Providers /\ req[r].offset < NumProviders /\ req[r].result = "none"
  BY <1>1, <1>2, HoldingFacts
<1>4. PICK c : (c = Neutral(r) \/ \E reason : c = AfterFailure(r, reason)) /\ HandBack(r, c)
  BY DEF Unbuilt, UpstreamCancelled, StreamInconclusive, StreamBreaks, StreamCancelled,
         UpstreamBreaks
<1>5. Sound(c)  BY <1>1, <1>2, <1>4, HandedBackSound
<1>6. UNCHANGED <<dead, keyDead, keyCursor>> /\ TrackFrom(untried, {})
  BY DEF Unbuilt, UpstreamCancelled, StreamInconclusive, StreamBreaks, StreamCancelled,
         UpstreamBreaks, Track
<1>7. HealthOK'  BY <1>2, <1>4, <1>5, <1>6, HandBackOK
<1>8. PICK l : /\ Set(r, l)
               /\ \/ l = Onward(r)
                  \/ \E result \in {"canceled", "inconclusive", "partial"} : l = Answered(r, result)
  BY DEF Unbuilt, UpstreamCancelled, StreamInconclusive, StreamBreaks, StreamCancelled,
         UpstreamBreaks
<1>9. l \in Request /\ Shaped(l)  BY <1>1, <1>3, <1>8, OnwardShaped, AnsweredShaped
<1>10. RequestsOK'  BY <1>1, <1>6, <1>8, <1>9, SetKeepsRequests DEF RequestsOK
<1>11. UNCHANGED cursor \/ MoveCursor(r, req[r].at)
  BY DEF Unbuilt, UpstreamCancelled, StreamInconclusive, StreamBreaks, StreamCancelled,
         UpstreamBreaks
<1>12. CursorsOK'
  <2>1. CASE UNCHANGED cursor  BY <1>1, <1>6, <2>1 DEF CursorsOK
  <2>2. CASE MoveCursor(r, req[r].at)  BY <1>1, <1>3, <1>6, <2>2, MoveCursorOK
  <2> QED  BY <1>11, <2>1, <2>2
<1> QED  BY <1>7, <1>10, <1>12 DEF ShapeInv

LEMMA DeliveryKeepsShape ==
    ASSUME ShapeInv, NEW r \in Requests, Commit(r) \/ StreamSucceeds(r)
    PROVE  ShapeInv'
<1>1. HealthOK /\ CursorsOK /\ RequestsOK /\ req[r] \in Request /\ Shaped(req[r])
      /\ req[r].pc \in {"upstream", "stream"} /\ req[r].pc \in Holding
      /\ TrackFrom(untried, {}) /\ UNCHANGED <<dead, keyDead>>
  BY DEF ShapeInv, RequestsOK, Commit, StreamSucceeds, Holding, Loop, Track
<1>2. req[r].at \in Providers /\ req[r].key \in Keys(req[r].at)
  BY <1>1, HoldingFacts
<1>3. CASE Commit(r)
  <2> DEFINE l == [req[r] EXCEPT !.pc = "stream"]
  <2>1. /\ Set(r, l) /\ UNCHANGED <<busy, breakers>> /\ req[r].pc = "upstream"
        /\ cursor' = [cursor EXCEPT ![ScopeOf[r]] = req[r].at]
        /\ keyCursor' = [keyCursor EXCEPT ![ScopeOf[r]][req[r].at] = req[r].key]
    BY <1>3 DEF Commit
  <2>2. l \in Request /\ Shaped(l)
    BY <1>1, <2>1 DEF Request, Loop, Shaped, Holding
  <2> HIDE DEF l
  <2>3. RequestsOK'  BY <1>1, <2>1, <2>2, SetKeepsRequests DEF RequestsOK
  <2>4. HealthOK'  BY <1>1, <2>1 DEF HealthOK
  <2>5. ScopeOf[r] \in Scopes  BY FailoverAssumption
  <2>6. CursorsOK'  BY <1>1, <1>2, <2>1, <2>5, CursorsOfOne
  <2> QED  BY <2>3, <2>4, <2>6 DEF ShapeInv
<1>4. CASE StreamSucceeds(r)
  <2> DEFINE p == req[r].at
             c == RecordSuccess(breakers[p], req[r].probe)
             b == [step |-> 0, left |-> 0, marked |-> FALSE, probes |-> 0]
  <2>1. /\ Set(r, Answered(r, "delivered")) /\ UNCHANGED <<cursor, keyCursor>>
        /\ busy' = [busy EXCEPT ![p] = b]
        /\ breakers' = [breakers EXCEPT ![p] = c]
    BY <1>4 DEF StreamSucceeds
  <2>2. b \in BusyState  BY FailoverAssumption DEF BusyState
  <2>3. Sound(breakers[p]) /\ req[r].probe \in BOOLEAN
    BY <1>1, <1>2 DEF HealthOK, Request
  <2>4. Sound(c)  BY <2>3, RecordSuccessSound
  <2> HIDE DEF b, c
  <2>5. HealthOK'  BY <1>1, <1>2, <2>1, <2>2, <2>4, HealthOfOne
  <2>6. RequestsOK'  BY <1>1, <2>1, AnsweredShaped, SetKeepsRequests DEF RequestsOK
  <2> QED  BY <1>1, <2>1, <2>5, <2>6 DEF ShapeInv, CursorsOK
<1> QED  BY <1>3, <1>4

LEMMA BusyAnswerKeepsShape ==
    ASSUME ShapeInv, NEW r \in Requests, NEW p \in Providers, BusyAnswer(r, p)
    PROVE  ShapeInv'
<1>1. HealthOK /\ CursorsOK /\ RequestsOK /\ req[r] \in Request /\ Shaped(req[r])
      /\ req[r].pc = "upstream" /\ req[r].pc \in Holding /\ req[r].at = p
      /\ TrackFrom(untried, {}) /\ UNCHANGED <<dead, keyDead, keyCursor>>
  BY DEF ShapeInv, RequestsOK, BusyAnswer, Holding, Loop, Track
<1>2. req[r].offset < NumProviders /\ req[r].result = "none"  BY <1>1, HoldingFacts
<1> DEFINE l == [req[r] EXCEPT !.pc = "wait", !.wait = BusyWait(p), !.inline = TRUE, !.held = FALSE]
           b == MarkedBusy(p, BusyReleased(r, busy[p]))
<1>3. /\ breakers' = [breakers EXCEPT ![p] = Neutral(r)]
      /\ busy' = [busy EXCEPT ![p] = b]
      /\ Set(r, l) \/ Set(r, Onward(r))
      /\ UNCHANGED cursor \/ MoveCursor(r, p)
  BY DEF BusyAnswer
<1>4. BusyReleased(r, busy[p]) \in BusyState
  BY <1>1, BusyReleasedFacts DEF HealthOK
<1>5. b \in BusyState /\ BusyWait(p) \in Nat  BY <1>1, <1>4, MarkedBusyFacts
<1>6. Sound(Neutral(r))  BY <1>1, HandedBackSound
<1>7. l \in Request /\ l.pc = "wait" /\ l.at = p /\ l.start = req[r].start
      /\ l.offset = req[r].offset /\ l.result = req[r].result /\ l.held = FALSE
  BY <1>1, <1>5 DEF Request, Loop
<1> HIDE DEF l, b
<1>8. Shaped(l)  BY <1>1, <1>2, <1>7 DEF Shaped, Holding, Loop
<1>9. HealthOK'  BY <1>1, <1>3, <1>5, <1>6, HealthOfOne
<1>10. RequestsOK'
  BY <1>1, <1>2, <1>3, <1>7, <1>8, OnwardShaped, SetKeepsRequests DEF RequestsOK
<1>11. CursorsOK'
  <2>1. CASE UNCHANGED cursor  BY <1>1, <2>1 DEF CursorsOK
  <2>2. CASE MoveCursor(r, p)  BY <1>1, <2>2, MoveCursorOK
  <2> QED  BY <1>3, <2>1, <2>2
<1> QED  BY <1>9, <1>10, <1>11 DEF ShapeInv

LEMMA ScopesMoveOn ==
    ASSUME CursorsOK, NEW p \in Providers, NEW Moved,
           cursor' = [z \in Scopes |-> IF z \in Moved THEN NextActive(p)' ELSE cursor[z]],
           UNCHANGED keyCursor
    PROVE  CursorsOK'
<1>1. NextActive(p)' \in Providers
  BY NextActiveFacts DEF NextActive, Active
<1> QED  BY <1>1 DEF CursorsOK

LEMMA PenaltyKeepsShape ==
    ASSUME ShapeInv, NEW r \in Requests, NEW p \in Providers,
           \/ \E k \in Keys(p), d \in Penalties : KeyFails(r, p, k, d) \/ LastKeyFails(r, p, k, d)
           \/ \E c \in Cooldowns : ServerFails(r, p, c)
    PROVE  ShapeInv'
<1>1. HealthOK /\ CursorsOK /\ RequestsOK /\ req[r] \in Request /\ Shaped(req[r])
      /\ req[r].pc = "upstream" /\ req[r].pc \in Holding /\ req[r].at = p /\ UNCHANGED busy
  BY DEF ShapeInv, RequestsOK, KeyFails, LastKeyFails, ServerFails, Holding, Loop
<1>2. req[r].offset < NumProviders /\ req[r].result = "none"  BY <1>1, HoldingFacts
<1>3. Penalties \subseteq Nat /\ Cooldowns \subseteq Nat /\ ScopeOf[r] \in Scopes
  BY FailoverAssumption DEF Penalties
<1>4. \A reason : Sound(AfterFailure(r, reason))  BY <1>1, HandedBackSound
<1>5. dead[p] \in Nat /\ \A k \in Keys(p) : keyDead[p][k] \in Nat  BY <1>1 DEF HealthOK
<1>6. ASSUME NEW k \in Keys(p), NEW d \in Penalties, KeyFails(r, p, k, d)
      PROVE  ShapeInv'
  <2> DEFINE l == [req[r] EXCEPT !.pc = "send"]
             n == NextLiveKey(p, k)'
             Moved == {z \in Scopes : z = ScopeOf[r] \/ (keyDead[p][k] # keyDead'[p][k]
                                                         /\ keyCursor[z][p] = k)}
  <2>1. /\ keyDead' = [keyDead EXCEPT ![p][k] = Penalty(keyDead[p][k], d)]
        /\ UNCHANGED <<dead, breakers, cursor>> /\ Set(r, l) /\ TrackFrom(untried, {})
        /\ keyCursor' = [z \in Scopes |-> [keyCursor[z] EXCEPT
               ![p] = IF z = ScopeOf[r] \/ (keyDead[p][k] # keyDead'[p][k] /\ @ = k)
                      THEN n ELSE @]]
        /\ LiveKeys(p)' # {}
    BY <1>6 DEF KeyFails, Track
  <2>2. Penalty(keyDead[p][k], d) \in Nat  BY <1>3, <1>5, PenaltyFacts
  <2>3. HealthOK'  BY <1>1, <2>1, <2>2, HealthOfOne
  <2>4. l \in Request /\ Shaped(l)
    BY <1>1, <2>1 DEF Request, Loop, Shaped, Holding
  <2> HIDE DEF l
  <2>5. RequestsOK'  BY <1>1, <2>1, <2>4, SetKeepsRequests DEF RequestsOK
  <2>6. n \in Keys(p)
    <3>1. LiveKeys(p)' \subseteq Keys(p)  BY DEF LiveKeys
    <3>2. n = FirstFrom(k, NumKeys[p], LiveKeys(p)')
      BY <2>1 DEF NextLiveKey
    <3> DEFINE S == LiveKeys(p)'
    <3>3. NumKeys[p] \in Nat \ {0} /\ k \in 0..NumKeys[p] - 1 /\ S \subseteq 0..NumKeys[p] - 1
          /\ S # {}
      BY <2>1, <3>1, FailoverAssumption DEF Keys
    <3> HIDE DEF S
    <3>4. FirstFrom(k, NumKeys[p], S) \in S  BY <3>3, FirstFromFinds
    <3> QED  BY <3>1, <3>2, <3>4 DEF S
  <2> HIDE DEF n
  <2>7. keyCursor' = [z \in Scopes |-> [keyCursor[z] EXCEPT ![p] = IF z \in Moved THEN n
                                                                 ELSE keyCursor[z][p]]]
    BY <2>1
  <2> HIDE DEF Moved
  <2>8. CursorsOK'
    <3>1. n \in Nat  BY <2>6, FailoverAssumption DEF Keys
    <3>2. keyCursor' \in [Scopes -> [Providers -> Nat]]
      BY <1>1, <2>7, <3>1 DEF CursorsOK
    <3>3. \A z \in Scopes, q \in Providers : keyCursor'[z][q] \in Keys(q)
      BY <1>1, <2>6, <2>7 DEF CursorsOK
    <3> QED  BY <1>1, <2>1, <3>2, <3>3 DEF CursorsOK
  <2> QED  BY <2>3, <2>5, <2>8 DEF ShapeInv
<1>7. ASSUME NEW d \in Nat, dead' = [dead EXCEPT ![p] = Penalty(@, d)],
             NEW reason, breakers' = [breakers EXCEPT ![p] = AfterFailure(r, reason)],
             NEW k, NEW u, keyDead' = keyDead \/ (u \in Nat /\ keyDead' = [keyDead EXCEPT ![p][k] = u]),
             Set(r, Onward(r)), UNCHANGED <<busy, keyCursor>>,
             NEW n \in SUBSET Providers, TrackFrom(untried, n),
             cursor' = [z \in Scopes |-> IF z = ScopeOf[r] \/ (dead[p] # dead'[p] /\ cursor[z] = p)
                                         THEN NextActive(p)' ELSE cursor[z]]
      PROVE  ShapeInv'
  <2>1. Penalty(dead[p], d) \in Nat  BY <1>5, <1>7, PenaltyFacts
  <2>2. HealthOK'  BY <1>1, <1>4, <1>7, <2>1, HealthOfOne
  <2>3. RequestsOK'  BY <1>1, <1>2, <1>7, OnwardShaped, SetKeepsRequests DEF RequestsOK
  <2> DEFINE Moved == {z \in Scopes : z = ScopeOf[r] \/ (dead[p] # dead'[p] /\ cursor[z] = p)}
  <2>4. cursor' = [z \in Scopes |-> IF z \in Moved THEN NextActive(p)' ELSE cursor[z]]
    BY <1>7
  <2> HIDE DEF Moved
  <2>5. CursorsOK'  BY <1>1, <1>7, <2>4, ScopesMoveOn
  <2> QED  BY <2>2, <2>3, <2>5 DEF ShapeInv
<1>8. ASSUME NEW k \in Keys(p), NEW d \in Penalties, LastKeyFails(r, p, k, d)
      PROVE  ShapeInv'
  <2>1. Penalty(keyDead[p][k], d) \in Nat /\ d \in Nat  BY <1>3, <1>5, PenaltyFacts
  <2>2. PICK n \in SUBSET Providers : TrackFrom(untried, n)
    BY <1>8 DEF LastKeyFails, Track
  <2> QED  BY <1>7, <1>8, <2>1, <2>2 DEF LastKeyFails
<1>9. ASSUME NEW c \in Cooldowns, ServerFails(r, p, c)
      PROVE  ShapeInv'
  <2>1. PICK n \in SUBSET Providers : TrackFrom(untried, n)
    BY <1>9 DEF ServerFails, Track
  <2> QED  BY <1>3, <1>7, <1>9, <2>1 DEF ServerFails
<1> QED  BY <1>6, <1>8, <1>9

LEMMA TickKeepsShape == ASSUME ShapeInv, Tick PROVE ShapeInv'
<1>1. HealthOK /\ CursorsOK /\ RequestsOK  BY DEF ShapeInv
<1>2. \A n \in Nat : Less(n) \in Nat  BY DEF Less, MaxOf
<1>3. HealthOK'
  <2>1. dead' \in [Providers -> Nat]  BY <1>1, <1>2 DEF Tick, HealthOK
  <2>2. DOMAIN keyDead' = Providers /\ \A p \in Providers : keyDead'[p] \in [Keys(p) -> Nat]
    BY <1>1, <1>2 DEF Tick, HealthOK
  <2>3. busy' \in [Providers -> BusyState]
    <3>1. \A b \in BusyState : [b EXCEPT !.left = Less(b.left)] \in BusyState
      BY <1>2 DEF BusyState
    <3>2. busy' = [p \in Providers |-> [busy[p] EXCEPT !.left = Less(busy[p].left)]]
      BY DEF Tick
    <3> QED  BY <1>1, <3>1, <3>2 DEF HealthOK
  <2>4. \A p \in Providers : Sound(breakers'[p])
    <3>1. \A p \in Providers : Sound(breakers[p])  BY <1>1 DEF HealthOK
    <3>2. \A p \in Providers : breakers'[p] = Aged(breakers[p])  BY DEF Tick
    <3> QED  BY <3>1, <3>2, AgedSound
  <2>5. breakers' \in [Providers -> Breaker]  BY <2>4 DEF Tick, Sound
  <2> QED  BY <2>1, <2>2, <2>3, <2>4, <2>5 DEF HealthOK
<1>4. CursorsOK'  BY <1>1 DEF Tick, CursorsOK
<1>5. RequestsOK'
  <2>1. \A r \in Requests : req'[r] = [req[r] EXCEPT !.wait = Less(req[r].wait)]
    BY DEF Tick
  <2>2. \A r \in Requests : req'[r] \in Request /\ Shaped(req'[r])
    <3> SUFFICES ASSUME NEW r \in Requests PROVE req'[r] \in Request /\ Shaped(req'[r])
      OBVIOUS
    <3>1. req[r] \in Request /\ Shaped(req[r])  BY <1>1 DEF RequestsOK
    <3>2. Less(req[r].wait) \in Nat  BY <1>2, <3>1 DEF Request
    <3> DEFINE w == Less(req[r].wait)
    <3>3. req'[r] \in Request
      <4>1. req'[r] = [req[r] EXCEPT !.wait = w] /\ w \in Nat  BY <2>1, <3>2
      <4> HIDE DEF w
      <4> QED  BY <3>1, <4>1 DEF Request
    <3>4. Shaped(req'[r])  BY <2>1, <3>1 DEF Shaped, Request
    <3> QED  BY <3>3, <3>4
  <2>3. req' \in [Requests -> Request]  BY <2>2 DEF Tick
  <2> QED  BY <1>1, <2>2, <2>3 DEF Tick, RequestsOK
<1> QED  BY <1>3, <1>4, <1>5 DEF ShapeInv

LEMMA NextShape == ShapeInv /\ [Next]_vars => ShapeInv'
<1> SUFFICES ASSUME ShapeInv, [Next]_vars PROVE ShapeInv'  OBVIOUS
<1>1. ASSUME NEW r \in Requests, Admit(r) \/ TurnAway(r) \/ ClientLeaves(r) \/ Read(r)
      PROVE  ShapeInv'
  BY <1>1, AdmissionKeepsShape
<1>2. ASSUME NEW r \in Requests, Walk(r) PROVE ShapeInv'
  BY <1>2, LoopKeepsShape, WaitingKeepsShape, KeyLoopKeepsShape DEF Walk
<1>3. ASSUME NEW r \in Requests, Answer(r) PROVE ShapeInv'
  <2>1. CASE \E p \in Providers :
                \/ \E k \in Keys(p), d \in Penalties : KeyFails(r, p, k, d) \/ LastKeyFails(r, p, k, d)
                \/ \E c \in Cooldowns : ServerFails(r, p, c)
    BY <2>1, PenaltyKeepsShape
  <2>2. CASE \E p \in Providers : BusyAnswer(r, p)
    BY <2>2, BusyAnswerKeepsShape
  <2>3. CASE \/ Unbuilt(r) \/ UpstreamCancelled(r) \/ StreamInconclusive(r) \/ StreamBreaks(r)
             \/ StreamCancelled(r) \/ \E p \in Providers : UpstreamBreaks(r, p)
    BY <2>3, EndingKeepsShape
  <2>4. CASE Commit(r) \/ StreamSucceeds(r)
    BY <2>4, DeliveryKeepsShape
  <2> QED  BY <1>3, <2>1, <2>2, <2>3, <2>4 DEF Answer
<1>4. CASE Tick  BY <1>4, TickKeepsShape
<1>5. CASE UNCHANGED vars
  BY <1>5 DEF vars, ShapeInv, HealthOK, CursorsOK, RequestsOK
<1> QED  BY <1>1, <1>2, <1>3, <1>4, <1>5 DEF Next, Finished

LEMMA ShapeHolds == Spec => []ShapeInv
  BY InitShape, NextShape, PTL DEF Spec

-----------------------------------------------------------------------------
(***************************************************************************)
(* The health state, the cursors and every request's locals keep their     *)
(* types: a cursor never points past its providers or keys, a busy state   *)
(* never past its delays or above its probes.                              *)
(***************************************************************************)
THEOREM FailoverTypes == Spec => []TypeOK
<1>1. ShapeInv => TypeOK
  BY DEF ShapeInv, HealthOK, CursorsOK, RequestsOK, TypeOK
<1> QED  BY <1>1, ShapeHolds, PTL

(***************************************************************************)
(* A group with no provider available knows when one comes back, so the    *)
(* request it turns away carries a Retry-After.                            *)
(***************************************************************************)
THEOREM TurnedAwayKnowsWhen == Spec => []NoDeadEnd
<1>1. ASSUME ShapeInv, \A p \in Providers : ~Available(p)
      PROVE  KnowsWhenBack
  <2>1. 0 \in Providers /\ NumKeys[0] \in Nat \ {0} /\ 0 \in Keys(0)
    BY ConstantFacts, FailoverAssumption DEF Keys
  <2>2. ~Available(0)  BY <1>1, <2>1
  <2>3. CASE dead[0] # 0
    <3>1. dead[0] > 0  BY <1>1, <2>1, <2>3 DEF ShapeInv, HealthOK
    <3> QED  BY <2>1, <3>1 DEF KnowsWhenBack, KnownWaits
  <2>4. CASE LiveKeys(0) = {}
    <3>1. keyDead[0][0] > 0  BY <1>1, <2>1, <2>4 DEF ShapeInv, HealthOK, LiveKeys
    <3>2. keyDead[0][0] \in {keyDead[0][k] : k \in Keys(0)}  BY <2>1
    <3>3. 0 \in {q \in Providers : LiveKeys(q) = {}}  BY <2>1, <2>4
    <3>4. keyDead[0][0] \in KnownWaits  BY <3>2, <3>3 DEF KnownWaits
    <3> QED  BY <3>1, <3>4 DEF KnowsWhenBack
  <2>5. CASE dead[0] = 0 /\ LiveKeys(0) # {}
    <3>1. ~(PeekAllow(breakers[0]).wait <= 0)  BY <2>2, <2>5 DEF Available
    <3>2. PeekAllow(breakers[0]).wait \in Int
      <4>1. Sound(breakers[0])  BY <1>1, <2>1 DEF ShapeInv, HealthOK
      <4>2. OpenWait(breakers[0]) \in Int
        BY <4>1, BreakerConfigAssumption DEF Sound, Breaker, OpenWait, NeverOpened, Timeout
      <4> QED  BY <4>2 DEF PeekAllow, Granted, Refused, BusyRetryAfter
    <3>3. PeekAllow(breakers[0]).wait > 0  BY <3>1, <3>2
    <3>4. PeekAllow(breakers[0]).wait \in CircuitWaits  BY <2>1 DEF CircuitWaits
    <3>5. PeekAllow(breakers[0]).wait \in KnownWaits  BY <3>4 DEF KnownWaits
    <3> QED  BY <3>3, <3>5 DEF KnowsWhenBack
  <2> QED  BY <2>3, <2>4, <2>5
<1>2. ShapeInv => NoDeadEnd  BY <1>1 DEF NoDeadEnd
<1> QED  BY <1>2, ShapeHolds, PTL

(***************************************************************************)
(* Whatever requests fail on a provider or key that is already             *)
(* deactivated, the deactivation that stands ends when it was to end.      *)
(***************************************************************************)
THEOREM PenaltiesStand == Spec => PenaltyStands
<1> DEFINE Stands == \A p \in Providers :
        /\ dead[p] > 0 => dead'[p] \in {dead[p], dead[p] - 1}
        /\ \A k \in Keys(p) : keyDead[p][k] > 0 => keyDead'[p][k] \in {keyDead[p][k], keyDead[p][k] - 1}
<1>1. ASSUME ShapeInv, [Next]_vars PROVE Stands
  <2>1. /\ \A p \in Providers : dead[p] \in Nat
        /\ \A p \in Providers : \A k \in Keys(p) : keyDead[p][k] \in Nat
        /\ DOMAIN dead = Providers /\ DOMAIN keyDead = Providers
        /\ \A p \in Providers : DOMAIN keyDead[p] = Keys(p)
    BY <1>1 DEF ShapeInv, HealthOK
  <2>2. Penalties \subseteq Nat /\ Cooldowns \subseteq Nat
    BY FailoverAssumption DEF Penalties
  <2>3. CASE UNCHANGED <<dead, keyDead>>
    BY <2>1, <2>3
  <2>4. CASE Tick
    <3>1. \A n \in Nat : n > 0 => Less(n) = n - 1  BY DEF Less, MaxOf
    <3>2. /\ \A p \in Providers : dead'[p] = Less(dead[p])
          /\ \A p \in Providers : \A k \in Keys(p) : keyDead'[p][k] = Less(keyDead[p][k])
      BY <2>4 DEF Tick
    <3> QED  BY <2>1, <3>1, <3>2
  <2>5. ASSUME NEW q \in Providers, NEW d \in Nat, NEW j, NEW e \in Nat,
               dead' = dead \/ dead' = [dead EXCEPT ![q] = Penalty(@, d)],
               keyDead' = keyDead \/ (j \in Keys(q) /\ keyDead' = [keyDead EXCEPT ![q][j] = Penalty(@, e)])
        PROVE  Stands
    <3>1. \A n \in Nat : n > 0 => Penalty(n, d) = n /\ Penalty(n, e) = n  BY DEF Penalty
    <3>2. \A p \in Providers : dead[p] > 0 => dead'[p] = dead[p]
      BY <2>1, <2>5, <3>1
    <3>3. \A p \in Providers : \A k \in Keys(p) :
              keyDead[p][k] > 0 => keyDead'[p][k] = keyDead[p][k]
      BY <2>1, <2>5, <3>1
    <3> QED  BY <3>2, <3>3
  <2>6. ASSUME NEW r \in Requests, NEW p \in Providers,
               \E k \in Keys(p), d \in Penalties : KeyFails(r, p, k, d) \/ LastKeyFails(r, p, k, d)
        PROVE  Stands
    BY <2>2, <2>5, <2>6 DEF KeyFails, LastKeyFails
  <2>7. ASSUME NEW r \in Requests, NEW p \in Providers, \E c \in Cooldowns : ServerFails(r, p, c)
        PROVE  Stands
    BY <2>2, <2>5, <2>7 DEF ServerFails
  <2>8. ASSUME NEW r \in Requests, Admit(r) \/ TurnAway(r) \/ ClientLeaves(r) \/ Read(r)
        PROVE  Stands
    BY <2>3, <2>8 DEF Admit, TurnAway, ClientLeaves, Read, ReadBody, RejectBody
  <2>9. ASSUME NEW r \in Requests, Walk(r) PROVE Stands
    <3>1. UNCHANGED <<dead, keyDead>>
      BY <2>9 DEF Walk, StopAtPick, SkipProvider, TakePermit, NoKeyLeft, OpenProvider, ProbeBusy,
                  OverflowBusy, WaitCancelled, GiveUp, SendWithKey, KeysSpent
    <3> QED  BY <2>3, <3>1
  <2>10. ASSUME NEW r \in Requests, Answer(r) PROVE Stands
    <3>1. CASE UNCHANGED <<dead, keyDead>>  BY <2>3, <3>1
    <3>2. \/ \E p \in Providers : \/ \E k \in Keys(p), d \in Penalties :
                                        KeyFails(r, p, k, d) \/ LastKeyFails(r, p, k, d)
                                  \/ \E c \in Cooldowns : ServerFails(r, p, c)
          \/ UNCHANGED <<dead, keyDead>>
      BY <2>10 DEF Answer, UpstreamBreaks, BusyAnswer, Unbuilt, UpstreamCancelled, Commit,
                   StreamSucceeds, StreamInconclusive, StreamBreaks, StreamCancelled
    <3> QED  BY <2>6, <2>7, <3>1, <3>2
  <2>11. CASE UNCHANGED vars  BY <2>3, <2>11 DEF vars
  <2> QED  BY <1>1, <2>4, <2>8, <2>9, <2>10, <2>11 DEF Next, Finished
<1>2. ShapeInv /\ [Next]_vars => [Stands]_vars  BY <1>1
<1> QED  BY <1>2, ShapeHolds, PTL DEF Spec, PenaltyStands

-----------------------------------------------------------------------------
(***************************************************************************)
(* The walk of a request over its candidates.                              *)
(***************************************************************************)
LEMMA PassedOneMore ==
    ASSUME NEW l \in Request, NEW m, m.start = l.start, m.offset = l.offset + 1
    PROVE  Passed(m) = Passed(l) \union {(l.start + l.offset) % NumProviders}
<1>1. l.offset \in Nat  BY ConstantFacts DEF Request
<1>2. 0..(l.offset + 1) - 1 = (0..l.offset - 1) \union {l.offset}  BY <1>1
<1> QED  BY <1>2 DEF Passed

LEMMA NotYetPassed ==
    ASSUME NEW l \in Request, l.offset < NumProviders
    PROVE  (l.start + l.offset) % NumProviders \notin Passed(l)
<1>1. /\ NumProviders \in Nat \ {0} /\ l.start \in 0..NumProviders - 1
      /\ l.offset \in 0..NumProviders - 1
      /\ \A i \in 0..l.offset - 1 : i \in 0..NumProviders - 1 /\ i # l.offset
  BY ConstantFacts DEF Request, Providers
<1> SUFFICES ASSUME NEW i \in 0..l.offset - 1,
                    (l.start + l.offset) % NumProviders = (l.start + i) % NumProviders
             PROVE  FALSE
  BY DEF Passed
<1> QED  BY <1>1, RoundApart

LEMMA AllPassed ==
    ASSUME NEW l \in Request, l.offset = NumProviders
    PROVE  Providers \subseteq Passed(l)
<1>1. NumProviders \in Nat \ {0} /\ l.start \in 0..NumProviders - 1
  BY ConstantFacts DEF Request, Providers
<1>2. \A p \in 0..NumProviders - 1 : \E d \in 0..NumProviders - 1 :
          (l.start + d) % NumProviders = p
  BY <1>1, RoundHits
<1> QED  BY <1>2 DEF Passed, Providers

LEMMA ReachedMore ==
    ASSUME NEW C, IsFiniteSet(C), NEW A, NEW B, A \subseteq B
    PROVE  /\ Cardinality(C \cap A) \in Nat /\ Cardinality(C \cap A) <= Cardinality(C \cap B)
           /\ \A p \in C : p \in B /\ p \notin A => Cardinality(C \cap A) + 1 <= Cardinality(C \cap B)
<1>1. IsFiniteSet(C \cap A) /\ IsFiniteSet(C \cap B) /\ C \cap A \subseteq C \cap B
  BY FS_Subset
<1>2. /\ Cardinality(C \cap A) \in Nat /\ Cardinality(C \cap B) \in Nat
      /\ Cardinality(C \cap A) <= Cardinality(C \cap B)
  BY <1>1, FS_Subset, FS_CardinalityType
<1>3. ASSUME NEW p \in C, p \in B, p \notin A
      PROVE  Cardinality(C \cap A) + 1 <= Cardinality(C \cap B)
  <2>1. IsFiniteSet((C \cap A) \union {p})
        /\ Cardinality((C \cap A) \union {p}) = Cardinality(C \cap A) + 1
    BY <1>1, <1>3, FS_AddElement
  <2>2. (C \cap A) \union {p} \subseteq C \cap B  BY <1>1, <1>3
  <2> QED  BY <1>1, <2>1, <2>2, FS_Subset
<1> QED  BY <1>2, <1>3

\* What WalksOn says stays true while providers drop out of the rest.
LEMMA WalksOnWithLess ==
    ASSUME NEW l, NEW capable, NEW rest, NEW fewer, fewer \subseteq rest,
           WalksOn(l, capable, rest)
    PROVE  WalksOn(l, capable, fewer)
  BY DEF WalksOn

\* A request that neither moves nor counts an attempt walks on as before.
LEMMA WalksOnInPlace ==
    ASSUME NEW l, NEW m, NEW capable, NEW rest, WalksOn(l, capable, rest),
           m.at = l.at, m.start = l.start, m.offset = l.offset, m.cand = l.cand,
           m.attempted = l.attempted, m.latecomer = l.latecomer, m.result = l.result,
           l.pc \in Loop, m.pc \in Loop, m.pc \in Counted <=> l.pc \in Counted
    PROVE  WalksOn(m, capable, rest)
<1>1. Passed(m) = Passed(l)  BY DEF Passed
<1>2. Reached(m) = Reached(l)  BY <1>1 DEF Reached
<1> QED  BY <1>2 DEF WalksOn

\* A request moves on once the provider it stands at is no longer owed a try;
\* it may count one attempt, at a candidate, when it does.
LEMMA WalksOnward ==
    ASSUME NEW l \in Request, Shaped(l), l.pc \in Loop, l.offset < NumProviders,
           NEW m \in Request, m.pc = "pick", m.at = None, m.start = l.start, m.cand = l.cand,
           m.offset = l.offset + 1, m.result = "none",
           NEW capable, NEW rest, rest \subseteq Providers, WalksOn(l, capable, rest),
           (l.start + l.offset) % NumProviders \notin rest,
           \/ m.attempted = l.attempted /\ m.latecomer = l.latecomer
           \/ /\ l.pc = "open" /\ m.attempted = l.attempted + 1
              /\ m.latecomer = (l.latecomer \/ l.at \notin l.cand)
    PROVE  WalksOn(m, capable, rest)
<1> DEFINE p == (l.start + l.offset) % NumProviders
<1>1. Reached(m) = Passed(l) \union {p}
  <2>1. Passed(m) = Passed(l) \union {p}  BY PassedOneMore
  <2> QED  BY <2>1 DEF Reached, Counted, Holding
<1>2. l.pc \in Holding => l.at = p  BY DEF Shaped
<1>3. Reached(l) \subseteq Reached(m)  BY <1>1, <1>2 DEF Reached, Counted
<1>4. p \notin Passed(l)  BY NotYetPassed
<1>5. IsFiniteSet(l.cand) /\ l.attempted \in Nat
  BY ConstantFacts, FS_Subset DEF Request
<1>6. rest \cap Reached(m) = {}
  BY <1>1 DEF WalksOn, Reached
<1>7. ~m.latecomer => m.attempted <= Cardinality(m.cand \cap Reached(m))
  <2>1. Cardinality(l.cand \cap Reached(l)) \in Nat
        /\ Cardinality(l.cand \cap Reached(m)) \in Nat
        /\ Cardinality(l.cand \cap Reached(l)) <= Cardinality(l.cand \cap Reached(m))
    BY <1>3, <1>5, ReachedMore
  <2>2. ~l.latecomer => l.attempted <= Cardinality(l.cand \cap Reached(l))
    BY DEF WalksOn
  <2>3. CASE m.attempted = l.attempted /\ m.latecomer = l.latecomer
    BY <1>5, <2>1, <2>2, <2>3
  <2>4. CASE /\ l.pc = "open" /\ m.attempted = l.attempted + 1
             /\ m.latecomer = (l.latecomer \/ l.at \notin l.cand)
    <3>1. l.at = p /\ p \notin Reached(l) /\ p \in Reached(m)
      BY <1>1, <1>2, <1>4, <2>4 DEF Reached, Counted, Holding, Loop
    <3>2. p \in l.cand => Cardinality(l.cand \cap Reached(l)) + 1 <= Cardinality(l.cand \cap Reached(m))
      BY <1>3, <1>5, <3>1, ReachedMore
    <3>3. ~m.latecomer => ~l.latecomer /\ p \in l.cand
      BY <2>4, <3>1
    <3>4. ~m.latecomer => /\ l.attempted <= Cardinality(l.cand \cap Reached(l))
                          /\ Cardinality(l.cand \cap Reached(l)) + 1 <= Cardinality(l.cand \cap Reached(m))
      BY <2>2, <3>2, <3>3
    <3>5. m.attempted = l.attempted + 1  BY <2>4
    <3> HIDE DEF p
    <3> QED  BY <1>5, <2>1, <3>4, <3>5
  <2> QED  BY <2>3, <2>4
<1>8. rest \subseteq m.cand /\ m.cand \subseteq capable  BY DEF WalksOn
<1>9. m.at \notin rest  BY ConstantFacts
<1> QED  BY <1>6, <1>7, <1>8, <1>9 DEF WalksOn

\* So it does when it is made to count its provider and stays there.
LEMMA WalksOnCounting ==
    ASSUME NEW l \in Request, Shaped(l), l.pc = "open", l.offset < NumProviders,
           NEW m \in Request, m.pc \in Counted, m.at = l.at, m.start = l.start, m.cand = l.cand,
           m.offset = l.offset, m.result = "none", m.attempted = l.attempted + 1,
           m.latecomer = (l.latecomer \/ l.at \notin l.cand),
           NEW capable, NEW rest, rest \subseteq Providers, WalksOn(l, capable, rest)
    PROVE  WalksOn(m, capable, rest)
<1> DEFINE p == l.at
<1>1. p = (l.start + l.offset) % NumProviders /\ l.pc \in Loop
  BY DEF Shaped, Holding, Loop
<1>2. Passed(m) = Passed(l) /\ p \notin Passed(l)  BY <1>1, NotYetPassed DEF Passed
<1>3. Reached(l) = Passed(l) /\ Reached(m) = Passed(l) \union {p}
  BY <1>2 DEF Reached, Counted, Holding
<1>4. IsFiniteSet(l.cand) /\ l.attempted \in Nat
  BY ConstantFacts, FS_Subset DEF Request
<1>5. rest \cap Reached(m) = {}  BY <1>1, <1>3 DEF WalksOn
<1>6. /\ Cardinality(l.cand \cap Reached(l)) \in Nat
      /\ Cardinality(l.cand \cap Reached(m)) \in Nat
      /\ p \in l.cand => Cardinality(l.cand \cap Reached(l)) + 1 <= Cardinality(l.cand \cap Reached(m))
  BY <1>2, <1>3, <1>4, ReachedMore
<1>7. ~m.latecomer => /\ l.attempted <= Cardinality(l.cand \cap Reached(l))
                      /\ Cardinality(l.cand \cap Reached(l)) + 1 <= Cardinality(l.cand \cap Reached(m))
  BY <1>1, <1>6 DEF WalksOn
<1>8. ~m.latecomer => m.attempted <= Cardinality(m.cand \cap Reached(m))
  <2> HIDE DEF p
  <2> QED  BY <1>4, <1>6, <1>7
<1>9. rest \subseteq m.cand /\ m.cand \subseteq capable /\ m.at \notin rest
  BY <1>1 DEF WalksOn
<1> QED  BY <1>5, <1>8, <1>9 DEF WalksOn

\* An answer other than "failed" owes nothing.
LEMMA AnsweredOwesNothing ==
    ASSUME NEW l, l.pc = "answered", l.at = None, l.result # "failed",
           NEW capable, NEW rest, rest \subseteq Providers
    PROVE  WalksOn(l, capable, rest)
  BY ConstantFacts DEF WalksOn, Loop

\* The loop ends: every candidate was reached, so none is owed a try.
LEMMA NobodyLeft ==
    ASSUME NEW l \in Request, Shaped(l), l.pc = "pick", NEW capable, NEW rest,
           rest \subseteq Providers, WalksOn(l, capable, rest), ~l.latecomer,
           ~(l.offset < NumProviders /\ l.attempted < Cardinality(l.cand))
    PROVE  rest = {}
<1>1. l.pc \in Loop /\ l.pc \notin Counted  BY DEF Loop, Counted, Holding
<1>2. Reached(l) = Passed(l) /\ rest \cap Passed(l) = {} /\ rest \subseteq l.cand
      /\ l.attempted <= Cardinality(l.cand \cap Passed(l))
  BY <1>1 DEF Reached, WalksOn
<1>3. l.offset \in 0..NumProviders /\ NumProviders \in Nat /\ l.attempted \in Nat
      /\ IsFiniteSet(l.cand)
  BY ConstantFacts, FS_Subset DEF Request
<1>4. CASE l.offset = NumProviders
  BY <1>2, <1>4, AllPassed
<1>5. CASE ~(l.attempted < Cardinality(l.cand))
  <2>1. IsFiniteSet(l.cand \cap Passed(l)) /\ l.cand \cap Passed(l) \subseteq l.cand
    BY <1>3, FS_Subset
  <2>2. /\ Cardinality(l.cand) \in Nat /\ Cardinality(l.cand \cap Passed(l)) \in Nat
        /\ Cardinality(l.cand \cap Passed(l)) <= Cardinality(l.cand)
    BY <1>3, <2>1, FS_CardinalityType, FS_Subset
  <2>3. Cardinality(l.cand \cap Passed(l)) = Cardinality(l.cand)
    BY <1>2, <1>3, <1>5, <2>2
  <2>4. l.cand \cap Passed(l) = l.cand
    BY <1>3, <2>1, <2>3, FS_Subset
  <2> QED  BY <1>2, <2>4
<1>6. l.offset = NumProviders \/ l.offset < NumProviders  BY <1>3
<1> QED  BY <1>4, <1>5, <1>6

-----------------------------------------------------------------------------
\* A step of one request keeps everybody walking, when that one does.
LEMMA SetKeepsWalk ==
    ASSUME ShapeInv, WalkInv, NEW r \in Requests, NEW l, Set(r, l),
           NEW n, TrackFrom(untried, n),
           WalksOn(l, Capable[r], untried'[r])
    PROVE  WalkInv'
<1>1. /\ req \in [Requests -> Request] /\ untried \in [Requests -> SUBSET Providers]
  BY DEF ShapeInv, RequestsOK
<1>2. \A q \in Requests : /\ untried'[q] \subseteq untried[q]
                          /\ \A p \in untried'[q] : Available(p)'
  BY DEF TrackFrom
<1>3. \A q \in Requests : req'[q] = IF q = r THEN l ELSE req[q]
  BY <1>1 DEF Set
<1>4. \A q \in Requests : WalksOn(req'[q], Capable[q], untried'[q])
  BY <1>2, <1>3, WalksOnWithLess DEF WalkInv
<1> QED  BY <1>2, <1>4 DEF WalkInv

LEMMA RestFacts ==
    ASSUME ShapeInv, WalkInv, NEW r \in Requests, NEW n, TrackFrom(untried, n)
    PROVE  /\ req[r] \in Request /\ Shaped(req[r])
           /\ untried'[r] \subseteq untried[r] /\ untried'[r] \subseteq Providers
           /\ WalksOn(req[r], Capable[r], untried'[r])
           /\ req'[r].at \notin untried'[r]
           /\ \A p \in untried'[r] : Available(p)
<1>1. req[r] \in Request /\ Shaped(req[r]) /\ untried[r] \subseteq Providers
      /\ WalksOn(req[r], Capable[r], untried[r])
      /\ \A p \in untried[r] : Available(p)
  BY DEF ShapeInv, RequestsOK, WalkInv
<1>2. untried'[r] \subseteq untried[r] /\ req'[r].at \notin untried'[r]
  BY DEF TrackFrom
<1>3. WalksOn(req[r], Capable[r], untried'[r])
  BY <1>1, <1>2, WalksOnWithLess
<1> QED  BY <1>1, <1>2, <1>3

LEMMA AnsweringKeepsWalk ==
    ASSUME ShapeInv, WalkInv, NEW r \in Requests, NEW n, TrackFrom(untried, n),
           NEW result \in {"retryLater", "rejected", "canceled", "delivered", "inconclusive",
                           "partial"},
           Set(r, Answered(r, result))
    PROVE  WalkInv'
<1>1. req[r] \in Request /\ untried'[r] \subseteq Providers  BY RestFacts
<1> DEFINE l == Answered(r, result)
<1>2. l.pc = "answered" /\ l.at = None /\ l.result = result  BY DEF Answered, Fresh
<1> HIDE DEF l
<1>3. WalksOn(l, Capable[r], untried'[r])  BY <1>1, <1>2, AnsweredOwesNothing
<1> QED  BY <1>3, SetKeepsWalk DEF l

LEMMA MovingOnKeepsWalk ==
    ASSUME ShapeInv, WalkInv, NEW r \in Requests, NEW n, TrackFrom(untried, n),
           req[r].pc \in Loop, req[r].offset < NumProviders, Set(r, Onward(r)),
           ThisProvider(r) \notin untried'[r]
    PROVE  WalkInv'
<1> DEFINE l == Onward(r)
<1>1. req[r] \in Request /\ Shaped(req[r]) /\ untried'[r] \subseteq Providers
      /\ WalksOn(req[r], Capable[r], untried'[r])
  BY RestFacts
<1>2. /\ l \in Request /\ l.pc = "pick" /\ l.at = None /\ l.offset = req[r].offset + 1
      /\ l.start = req[r].start /\ l.cand = req[r].cand /\ l.result = "none"
      /\ l.attempted = req[r].attempted /\ l.latecomer = req[r].latecomer
  BY <1>1, OnwardFacts DEF Shaped
<1> HIDE DEF l
<1>3. WalksOn(l, Capable[r], untried'[r])
  BY <1>1, <1>2, WalksOnward DEF ThisProvider
<1> QED  BY <1>3, SetKeepsWalk DEF l

LEMMA LeavingKeepsWalk ==
    ASSUME ShapeInv, WalkInv, NEW r \in Requests, NEW n, TrackFrom(untried, n),
           req[r].pc \in Holding, Set(r, Onward(r))
    PROVE  WalkInv'
<1>1. req[r] \in Request /\ Shaped(req[r]) /\ WalksOn(req[r], Capable[r], untried'[r])
  BY RestFacts
<1>2. req[r].pc \in Loop /\ req[r].offset < NumProviders /\ req[r].at = ThisProvider(r)
  BY <1>1 DEF Shaped, Holding, ThisProvider
<1>3. ThisProvider(r) \notin untried'[r]  BY <1>1, <1>2 DEF WalksOn
<1> QED  BY <1>2, <1>3, MovingOnKeepsWalk

LEMMA StayingKeepsWalk ==
    ASSUME ShapeInv, WalkInv, NEW r \in Requests, NEW n, TrackFrom(untried, n),
           NEW m, Set(r, m), req[r].pc \in Counted, m.pc \in Counted,
           m.at = req[r].at, m.start = req[r].start, m.offset = req[r].offset,
           m.cand = req[r].cand, m.attempted = req[r].attempted,
           m.latecomer = req[r].latecomer, m.result = req[r].result
    PROVE  WalkInv'
<1>1. WalksOn(req[r], Capable[r], untried'[r])  BY RestFacts
<1>2. req[r].pc \in Loop /\ m.pc \in Loop  BY DEF Counted, Holding
<1>3. WalksOn(m, Capable[r], untried'[r])  BY <1>1, <1>2, WalksOnInPlace
<1> QED  BY <1>3, SetKeepsWalk

LEMMA AdmissionKeepsWalk ==
    ASSUME ShapeInv, WalkInv, NEW r \in Requests,
           \/ Admit(r) \/ TurnAway(r) \/ ClientLeaves(r) \/ Read(r)
    PROVE  WalkInv'
<1>1. req[r] \in Request /\ Shaped(req[r]) /\ req \in [Requests -> Request]
      /\ untried \in [Requests -> SUBSET Providers]
  BY DEF ShapeInv, RequestsOK
<1>2. CASE Admit(r)
  <2> DEFINE seen == [untried EXCEPT ![r] = AvailableTo(r)]
             s == FirstFrom(cursor[ScopeOf[r]], NumProviders, AvailableTo(r))
             l == [Fresh EXCEPT !.pc = "body", !.cand = AvailableTo(r), !.start = s,
                                !.preferred = s, !.sends = req[r].sends + 1]
  <2>1. TrackFrom(seen, {}) /\ Set(r, l)  BY <1>2 DEF Admit
  <2>2. /\ l.pc = "body" /\ l.cand = AvailableTo(r) /\ l.at = None /\ l.attempted = 0
        /\ l.result = "none"
    BY DEF Fresh
  <2> HIDE DEF s, l
  <2>3. \A q \in Requests : /\ untried'[q] \subseteq seen[q]
                            /\ \A p \in untried'[q] : Available(p)'
    BY <2>1 DEF TrackFrom
  <2> HIDE DEF seen
  <2>4. AvailableTo(r) \subseteq Capable[r] /\ AvailableTo(r) \subseteq Providers
    BY FailoverAssumption DEF AvailableTo
  <2>5. untried'[r] \subseteq l.cand /\ untried'[r] \subseteq Providers
    BY <1>1, <2>2, <2>3, <2>4 DEF seen
  <2>6. l.attempted <= Cardinality(l.cand \cap Reached(l))
    <3>1. IsFiniteSet(l.cand)  BY <2>2, <2>4, ConstantFacts, FS_Subset
    <3>2. Cardinality(l.cand \cap Reached(l)) \in Nat  BY <3>1, FS_Subset, FS_CardinalityType
    <3> QED  BY <2>2, <3>2
  <2>7. WalksOn(l, Capable[r], untried'[r])
    BY <2>2, <2>4, <2>5, <2>6, ConstantFacts DEF WalksOn, Loop
  <2>8. ASSUME NEW q \in Requests, q # r
        PROVE  WalksOn(req'[q], Capable[q], untried'[q])
    <3>1. req'[q] = req[q] /\ seen[q] = untried[q]  BY <1>1, <2>1, <2>8 DEF Set, seen
    <3> QED  BY <2>3, <3>1, WalksOnWithLess DEF WalkInv
  <2>9. req'[r] = l  BY <1>1, <2>1 DEF Set
  <2> QED  BY <2>3, <2>7, <2>8, <2>9 DEF WalkInv
<1>3. CASE TurnAway(r)
  <2> DEFINE l == [Fresh EXCEPT !.pc = "answered", !.sends = req[r].sends + 1,
                                !.result = IF KnowsWhenBack THEN "retryLater" ELSE "unavailable"]
  <2>1. Set(r, l) /\ TrackFrom(untried, {})  BY <1>3 DEF TurnAway, Track
  <2>2. l.pc = "answered" /\ l.at = None /\ l.result # "failed"  BY DEF Fresh
  <2> HIDE DEF l
  <2>3. untried'[r] \subseteq Providers  BY <2>1, RestFacts
  <2>4. WalksOn(l, Capable[r], untried'[r])  BY <2>2, <2>3, AnsweredOwesNothing
  <2> QED  BY <2>1, <2>4, SetKeepsWalk
<1>4. CASE ClientLeaves(r)
  <2> DEFINE l == [req[r] EXCEPT !.gone = TRUE]
  <2>1. Set(r, l) /\ TrackFrom(untried, {})  BY <1>4 DEF ClientLeaves, Track
  <2>2. /\ l.pc = req[r].pc /\ l.at = req[r].at /\ l.start = req[r].start
        /\ l.offset = req[r].offset /\ l.cand = req[r].cand /\ l.attempted = req[r].attempted
        /\ l.latecomer = req[r].latecomer /\ l.result = req[r].result
    BY <1>1 DEF Request
  <2> HIDE DEF l
  <2>3. Reached(l) = Reached(req[r])  BY <2>2 DEF Reached, Passed
  <2>4. WalksOn(req[r], Capable[r], untried'[r])  BY <2>1, RestFacts
  <2>5. WalksOn(l, Capable[r], untried'[r])  BY <2>2, <2>3, <2>4 DEF WalksOn
  <2> QED  BY <2>1, <2>5, SetKeepsWalk
<1>5. ASSUME NEW h \in HintsOf[r], ReadBody(r, h) PROVE WalkInv'
  <2>1. PICK l : /\ Set(r, l)
                 /\ \/ l = [req[r] EXCEPT !.pc = "pick", !.start = h[1], !.preferred = h[1]]
                    \/ l = [req[r] EXCEPT !.pc = "pick"]
    BY <1>5 DEF ReadBody
  <2>2. /\ l.pc = "pick" /\ l.at = req[r].at /\ l.offset = req[r].offset
        /\ l.cand = req[r].cand /\ l.attempted = req[r].attempted
        /\ l.latecomer = req[r].latecomer /\ l.result = req[r].result
    <3>1. CASE l = [req[r] EXCEPT !.pc = "pick", !.start = h[1], !.preferred = h[1]]
      BY <1>1, <3>1 DEF Request
    <3>2. CASE l = [req[r] EXCEPT !.pc = "pick"]
      BY <1>1, <3>2 DEF Request
    <3> QED  BY <2>1, <3>1, <3>2
  <2>3. req[r].pc = "body" /\ TrackFrom(untried, {})  BY <1>5 DEF ReadBody, Track
  <2>4. req[r].offset = 0 /\ req[r].attempted = 0 /\ req[r].result = "none"
    BY <1>1, <2>3 DEF Shaped
  <2>5. Reached(l) = {}  BY <2>2, <2>4 DEF Reached, Passed, Counted, Holding
  <2>6. l.cand \cap Reached(l) = {} /\ Cardinality({}) = 0  BY <2>5, FS_EmptySet
  <2>7. WalksOn(req[r], Capable[r], untried'[r])  BY <2>3, RestFacts
  <2>8. WalksOn(l, Capable[r], untried'[r])
    BY <2>2, <2>3, <2>4, <2>5, <2>6, <2>7 DEF WalksOn
  <2> QED  BY <2>1, <2>3, <2>8, SetKeepsWalk
<1>6. CASE RejectBody(r)
  BY <1>6, AnsweringKeepsWalk DEF RejectBody, Track
<1> QED  BY <1>2, <1>3, <1>4, <1>5, <1>6 DEF Read

LEMMA LoopKeepsWalk ==
    ASSUME ShapeInv, WalkInv, NEW r \in Requests,
           StopAtPick(r) \/ SkipProvider(r) \/ TakePermit(r) \/ NoKeyLeft(r) \/ GiveUp(r)
    PROVE  WalkInv'
<1>1. TrackFrom(untried, {})
  BY DEF StopAtPick, SkipProvider, TakePermit, NoKeyLeft, GiveUp, Track
<1>2. /\ req[r] \in Request /\ Shaped(req[r]) /\ untried'[r] \subseteq Providers
      /\ WalksOn(req[r], Capable[r], untried'[r]) /\ req'[r].at \notin untried'[r]
      /\ \A p \in untried'[r] : Available(p)
      /\ req \in [Requests -> Request]
  BY <1>1, RestFacts DEF ShapeInv, RequestsOK
<1>3. CASE StopAtPick(r)
  BY <1>1, <1>3, AnsweringKeepsWalk DEF StopAtPick
<1>4. CASE SkipProvider(r)
  <2> DEFINE p == ThisProvider(r)
  <2>1. req[r].pc \in Loop /\ req[r].offset < NumProviders /\ Set(r, Onward(r))
        /\ (~Usable(r, p) \/ ~AllowResult(breakers[p]).allowed)
    BY <1>4 DEF SkipProvider, MoreProviders, Loop
  <2>2. p \notin untried'[r]
    <3> SUFFICES ASSUME p \in untried'[r] PROVE FALSE  OBVIOUS
    <3>1. Available(p) /\ p \in Providers  BY <1>2
    <3>2. p \in Capable[r]  BY <1>2, <2>1 DEF WalksOn
    <3>3. Sound(breakers[p])  BY <3>1 DEF ShapeInv, HealthOK
    <3>4. AllowResult(breakers[p]).allowed  BY <3>1, <3>3, AvailableIsAllowed DEF Available
    <3>5. Usable(r, p)  BY <3>1, <3>2 DEF Usable, Available
    <3> QED  BY <2>1, <3>4, <3>5
  <2> QED  BY <1>1, <2>1, <2>2, MovingOnKeepsWalk
<1>5. CASE TakePermit(r)
  <2> DEFINE p == ThisProvider(r)
             u == AllowResult(breakers[p]).usedProbe
             l == [req[r] EXCEPT !.pc = "open", !.at = p, !.probe = u]
  <2>1. req[r].pc = "pick" /\ Set(r, l)  BY <1>5 DEF TakePermit
  <2> HIDE DEF p, u
  <2>2. /\ l.pc = "open" /\ l.at = p /\ l.start = req[r].start /\ l.offset = req[r].offset
        /\ l.cand = req[r].cand /\ l.attempted = req[r].attempted
        /\ l.latecomer = req[r].latecomer /\ l.result = req[r].result
    BY <1>2 DEF Request
  <2> HIDE DEF l
  <2>3. req[r].pc \in Loop /\ l.pc \in Loop /\ Reached(l) = Reached(req[r])
    BY <2>1, <2>2 DEF Reached, Passed, Counted, Holding, Loop
  <2>4. l.at \notin untried'[r]  BY <1>2, <2>1 DEF Set
  <2>5. WalksOn(l, Capable[r], untried'[r])  BY <1>2, <2>2, <2>3, <2>4 DEF WalksOn
  <2> QED  BY <1>1, <2>1, <2>5, SetKeepsWalk
<1>6. CASE NoKeyLeft(r)
  BY <1>1, <1>6, LeavingKeepsWalk DEF NoKeyLeft, Holding, Loop
<1>7. CASE GiveUp(r)
  <2>1. CASE Set(r, Answered(r, "retryLater"))
    BY <1>1, <2>1, AnsweringKeepsWalk
  <2>2. CASE Set(r, Answered(r, "failed"))
    <3> DEFINE l == Answered(r, "failed")
    <3>1. l.pc = "answered" /\ l.at = None /\ l.result = "failed"
          /\ l.latecomer = req[r].latecomer
      BY DEF Answered, Fresh
    <3> HIDE DEF l
    <3>2. ~req[r].latecomer => untried'[r] = {}
      BY <1>2, <1>7, NobodyLeft DEF GiveUp, MoreProviders
    <3>3. WalksOn(l, Capable[r], untried'[r])
      BY <1>2, <3>1, <3>2, ConstantFacts DEF WalksOn, Loop
    <3> QED  BY <1>1, <2>2, <3>3, SetKeepsWalk DEF l
  <2> QED  BY <1>7, <2>1, <2>2 DEF GiveUp
<1> QED  BY <1>3, <1>4, <1>5, <1>6, <1>7

LEMMA AttemptKeepsWalk ==
    ASSUME ShapeInv, WalkInv, NEW r \in Requests,
           \/ OpenProvider(r) \/ ProbeBusy(r) \/ WaitCancelled(r) \/ SendWithKey(r) \/ KeysSpent(r)
           \/ \E p \in Providers : OverflowBusy(r, p)
    PROVE  WalkInv'
<1>1. req[r] \in Request /\ Shaped(req[r])  BY DEF ShapeInv, RequestsOK
<1>2. req[r].pc \in Holding
  BY DEF OpenProvider, ProbeBusy, WaitCancelled, SendWithKey, KeysSpent, OverflowBusy, Holding, Loop
<1>3. CASE OpenProvider(r)
  <2> DEFINE k == NextLiveKey(req[r].at, keyCursor[ScopeOf[r]][req[r].at])
  <2>1. TrackFrom(untried, {}) /\ req[r].pc = "open"  BY <1>3 DEF OpenProvider, Track
  <2>2. PICK l : Set(r, l) /\ Opening(r, l)
    BY <1>1, <1>3, OpeningSet
  <2>3. /\ l \in Request /\ l.attempted = req[r].attempted + 1 /\ l.start = req[r].start
        /\ l.cand = req[r].cand /\ l.latecomer = (req[r].latecomer \/ req[r].at \notin req[r].cand)
        /\ l.result = "none"
        /\ \/ l.pc = "pick" /\ l.at = None /\ l.offset = req[r].offset + 1
           \/ l.pc \in Counted /\ l.at = req[r].at /\ l.offset = req[r].offset
    BY <2>1, <2>2, OpeningFacts
  <2>4. /\ untried'[r] \subseteq Providers /\ WalksOn(req[r], Capable[r], untried'[r])
        /\ req[r].offset < NumProviders /\ req[r].at = (req[r].start + req[r].offset) % NumProviders
        /\ req[r].pc \in Loop
    BY <1>1, <1>2, <2>1, RestFacts DEF Shaped, Holding
  <2>5. req[r].at \notin untried'[r]  BY <2>4 DEF WalksOn
  <2>6. WalksOn(l, Capable[r], untried'[r])
    <3>1. CASE l.pc = "pick" /\ l.at = None /\ l.offset = req[r].offset + 1
      BY <1>1, <2>1, <2>3, <2>4, <2>5, <3>1, WalksOnward
    <3>2. CASE l.pc \in Counted /\ l.at = req[r].at /\ l.offset = req[r].offset
      BY <1>1, <2>1, <2>3, <2>4, <3>2, WalksOnCounting
    <3> QED  BY <2>3, <3>1, <3>2
  <2> QED  BY <2>1, <2>2, <2>6, SetKeepsWalk
<1>4. CASE ProbeBusy(r)
  <2> DEFINE l == [req[r] EXCEPT !.pc = "send", !.held = TRUE, !.retried = TRUE,
                                 !.keyOffset = 0, !.keyTried = 0]
  <2>1. Set(r, l) /\ TrackFrom(untried, {}) /\ req[r].pc = "wait"  BY <1>4 DEF ProbeBusy, Track
  <2>2. /\ l.pc = "send" /\ l.at = req[r].at /\ l.start = req[r].start
        /\ l.offset = req[r].offset /\ l.cand = req[r].cand /\ l.attempted = req[r].attempted
        /\ l.latecomer = req[r].latecomer /\ l.result = req[r].result
    BY <1>1 DEF Request
  <2> HIDE DEF l
  <2> QED  BY <2>1, <2>2, StayingKeepsWalk DEF Counted, Holding, Loop
<1>5. CASE WaitCancelled(r)
  BY <1>5, AnsweringKeepsWalk DEF WaitCancelled, Track
<1>6. CASE SendWithKey(r)
  <2> DEFINE p == req[r].at
             j == CHOOSE i \in NextOffsets(r) : \A o \in NextOffsets(r) : i <= o
             key == (req[r].keyStart + j) % NumKeys[p]
             l == [req[r] EXCEPT !.pc = "upstream", !.key = key, !.keyOffset = j + 1,
                                 !.keyTried = @ + 1]
  <2>1. Set(r, l) /\ TrackFrom(untried, {}) /\ req[r].pc = "send"  BY <1>6 DEF SendWithKey, Track
  <2> HIDE DEF j, key
  <2>2. /\ l.pc = "upstream" /\ l.at = req[r].at /\ l.start = req[r].start
        /\ l.offset = req[r].offset /\ l.cand = req[r].cand /\ l.attempted = req[r].attempted
        /\ l.latecomer = req[r].latecomer /\ l.result = req[r].result
    BY <1>1 DEF Request
  <2> HIDE DEF l
  <2> QED  BY <2>1, <2>2, StayingKeepsWalk DEF Counted, Holding, Loop
<1>7. CASE KeysSpent(r)
  <2>1. PICK n : TrackFrom(untried, n)  BY <1>7 DEF KeysSpent, Track
  <2> QED  BY <1>2, <1>7, <2>1, LeavingKeepsWalk DEF KeysSpent
<1>8. CASE \E p \in Providers : OverflowBusy(r, p)
  BY <1>2, <1>8, LeavingKeepsWalk DEF OverflowBusy, Track
<1> QED  BY <1>3, <1>4, <1>5, <1>6, <1>7, <1>8

LEMMA AnswerKeepsWalk ==
    ASSUME ShapeInv, WalkInv, NEW r \in Requests, Answer(r)
    PROVE  WalkInv'
<1>1. req[r] \in Request /\ Shaped(req[r])  BY DEF ShapeInv, RequestsOK
<1>2. ASSUME NEW n, TrackFrom(untried, n), req[r].pc = "upstream", Set(r, Onward(r))
      PROVE  WalkInv'
  <2>1. req[r].pc \in Holding  BY <1>2 DEF Holding, Loop
  <2> QED  BY <1>2, <2>1, LeavingKeepsWalk
<1>3. ASSUME NEW p \in Providers, BusyAnswer(r, p) PROVE WalkInv'
  <2> DEFINE w == BusyWait(p)
             l == [req[r] EXCEPT !.pc = "wait", !.wait = w, !.inline = TRUE, !.held = FALSE]
  <2>1. (Set(r, l) \/ Set(r, Onward(r))) /\ TrackFrom(untried, {}) /\ req[r].pc = "upstream"
    BY <1>3 DEF BusyAnswer, Track
  <2>2. CASE Set(r, l)
    <3> HIDE DEF w
    <3>1. /\ l.pc = "wait" /\ l.at = req[r].at /\ l.start = req[r].start
          /\ l.offset = req[r].offset /\ l.cand = req[r].cand /\ l.attempted = req[r].attempted
          /\ l.latecomer = req[r].latecomer /\ l.result = req[r].result
      BY <1>1 DEF Request
    <3> HIDE DEF l
    <3> QED  BY <2>1, <2>2, <3>1, StayingKeepsWalk DEF Counted, Holding, Loop
  <2> QED  BY <1>2, <2>1, <2>2
<1>4. ASSUME NEW pc \in {"send", "stream"}, req[r].pc = "upstream",
             Set(r, [req[r] EXCEPT !.pc = pc]), TrackFrom(untried, {})
      PROVE  WalkInv'
  <2> DEFINE l == [req[r] EXCEPT !.pc = pc]
  <2>1. /\ l.pc = pc /\ l.at = req[r].at /\ l.start = req[r].start
        /\ l.offset = req[r].offset /\ l.cand = req[r].cand /\ l.attempted = req[r].attempted
        /\ l.latecomer = req[r].latecomer /\ l.result = req[r].result
    BY <1>1 DEF Request
  <2>2. Set(r, l)  BY <1>4
  <2> HIDE DEF l
  <2> QED  BY <1>4, <2>1, <2>2, StayingKeepsWalk DEF Counted, Holding, Loop
<1>5. ASSUME NEW p \in Providers, NEW k, NEW d, KeyFails(r, p, k, d) PROVE WalkInv'
  BY <1>4, <1>5 DEF KeyFails, Track
<1>6. CASE Commit(r)
  BY <1>4, <1>6 DEF Commit, Track
<1>7. ASSUME NEW p \in Providers, \/ UpstreamBreaks(r, p)
                                  \/ \E k \in Keys(p), d \in Penalties : LastKeyFails(r, p, k, d)
                                  \/ \E c \in Cooldowns : ServerFails(r, p, c)
      PROVE  WalkInv'
  <2>1. PICK n : TrackFrom(untried, n)
    BY <1>7 DEF UpstreamBreaks, LastKeyFails, ServerFails, Track
  <2> QED  BY <1>2, <1>7, <2>1 DEF UpstreamBreaks, LastKeyFails, ServerFails
<1>8. CASE Unbuilt(r)  BY <1>2, <1>8 DEF Unbuilt, Track
<1>9. CASE \/ UpstreamCancelled(r) \/ StreamSucceeds(r) \/ StreamInconclusive(r)
           \/ StreamBreaks(r) \/ StreamCancelled(r)
  BY <1>9, AnsweringKeepsWalk
     DEF UpstreamCancelled, StreamSucceeds, StreamInconclusive, StreamBreaks, StreamCancelled, Track
<1> QED  BY <1>3, <1>5, <1>6, <1>7, <1>8, <1>9 DEF Answer

LEMMA TickKeepsWalk == ASSUME ShapeInv, WalkInv, Tick PROVE WalkInv'
<1>1. \A p \in Providers : Available(p) => Available(p)'
  <2> SUFFICES ASSUME NEW p \in Providers, Available(p) PROVE Available(p)'  OBVIOUS
  <2>1. Less(0) = 0  BY DEF Less, MaxOf
  <2>2. dead'[p] = 0  BY <2>1 DEF Tick, Available
  <2>3. LiveKeys(p) \subseteq LiveKeys(p)'  BY <2>1 DEF Tick, LiveKeys
  <2>4. Sound(breakers[p])  BY DEF ShapeInv, HealthOK
  <2>5. PeekAllow(breakers[p]).allowed  BY <2>4, AvailableIsAllowed DEF Available
  <2>6. PeekAllow(Aged(breakers[p])).allowed  BY <2>4, <2>5, AgedSound
  <2>7. breakers'[p] = Aged(breakers[p])  BY DEF Tick
  <2> QED  BY <2>2, <2>3, <2>6, <2>7 DEF Available
<1>2. ASSUME NEW r \in Requests
      PROVE  WalksOn(req'[r], Capable[r], untried'[r])
  <2>1. req[r] \in Request /\ WalksOn(req[r], Capable[r], untried[r])
    BY DEF ShapeInv, RequestsOK, WalkInv
  <2>2. req'[r] = [req[r] EXCEPT !.wait = Less(req[r].wait)] /\ untried' = untried
    BY DEF Tick
  <2> DEFINE l == req'[r]
  <2>3. /\ l.pc = req[r].pc /\ l.at = req[r].at /\ l.start = req[r].start
        /\ l.offset = req[r].offset /\ l.cand = req[r].cand /\ l.attempted = req[r].attempted
        /\ l.latecomer = req[r].latecomer /\ l.result = req[r].result
    BY <2>1, <2>2 DEF Request
  <2> HIDE DEF l
  <2>4. Reached(l) = Reached(req[r])  BY <2>3 DEF Reached, Passed
  <2>5. WalksOn(l, Capable[r], untried[r])  BY <2>1, <2>3, <2>4 DEF WalksOn
  <2> QED  BY <2>2, <2>5 DEF l
<1>3. untried' = untried /\ untried \in [Requests -> SUBSET Providers]
  BY DEF Tick, ShapeInv, RequestsOK
<1> QED  BY <1>1, <1>2, <1>3 DEF WalkInv

LEMMA InitWalk == Init => WalkInv
<1> SUFFICES ASSUME Init, NEW r \in Requests
             PROVE  WalksOn(req[r], Capable[r], untried[r]) /\ untried[r] = {}
  BY DEF WalkInv
<1> QED  BY DEF Init, Fresh, WalksOn, Loop

LEMMA NextWalk == ShapeInv /\ WalkInv /\ [Next]_vars => WalkInv'
<1> SUFFICES ASSUME ShapeInv, WalkInv, [Next]_vars PROVE WalkInv'  OBVIOUS
<1>1. ASSUME NEW r \in Requests, Admit(r) \/ TurnAway(r) \/ ClientLeaves(r) \/ Read(r)
      PROVE  WalkInv'
  BY <1>1, AdmissionKeepsWalk
<1>2. ASSUME NEW r \in Requests, Walk(r) PROVE WalkInv'
  BY <1>2, LoopKeepsWalk, AttemptKeepsWalk DEF Walk
<1>3. ASSUME NEW r \in Requests, Answer(r) PROVE WalkInv'
  BY <1>3, AnswerKeepsWalk
<1>4. CASE Tick  BY <1>4, TickKeepsWalk
<1>5. CASE UNCHANGED vars
  <2>1. \A p \in Providers : Available(p)' = Available(p)
    BY <1>5 DEF vars, Available, LiveKeys
  <2> QED  BY <1>5, <2>1 DEF vars, WalkInv, ShapeInv, RequestsOK
<1> QED  BY <1>1, <1>2, <1>3, <1>4, <1>5 DEF Next, Finished

(***************************************************************************)
(* A request that gives up with "All providers failed" leaves no provider  *)
(* untried that stayed available since its admission, however the requests *)
(* beside it moved cursors, circuits and deactivations in between, unless  *)
(* it counted an attempt at a provider it was not admitted for.            *)
(***************************************************************************)
THEOREM GivingUpComesLast == Spec => []GivesUpLast
<1>1. WalkInv => GivesUpLast  BY DEF WalkInv, WalksOn, GivesUpLast
<1>2. Spec => []WalkInv  BY ShapeHolds, InitWalk, NextWalk, PTL DEF Spec
<1> QED  BY <1>1, <1>2, PTL

-----------------------------------------------------------------------------
(***************************************************************************)
(* Permits and busy probes.                                                *)
(***************************************************************************)
\* A count and one holder move together, or the count falls behind.
Balanced(was, now, before, after) ==
    \/ after <= before /\ (was => now)
    \/ after <= IF before > 0 THEN before - 1 ELSE before
    \/ after <= before + 1 /\ ~was /\ now

LEMMA CountFollows ==
    ASSUME NEW S, IsFiniteSet(S), NEW T, IsFiniteSet(T), NEW r, S \ {r} \subseteq T,
           NEW before \in Nat, NEW after \in Nat, before <= Cardinality(S),
           Balanced(r \in S, r \in T, before, after)
    PROVE  after <= Cardinality(T)
<1>1. /\ IsFiniteSet(S \ {r}) /\ Cardinality(S) \in Nat /\ Cardinality(T) \in Nat
      /\ Cardinality(S \ {r}) = IF r \in S THEN Cardinality(S) - 1 ELSE Cardinality(S)
      /\ Cardinality(S \ {r}) \in Nat
  BY FS_RemoveElement, FS_CardinalityType
<1>2. Cardinality(S \ {r}) <= Cardinality(T)  BY FS_Subset
<1>3. CASE after <= before /\ (r \in S => r \in T)
  <2>1. CASE r \in S
    <3>1. S \subseteq T  BY <1>3, <2>1
    <3>2. Cardinality(S) <= Cardinality(T)  BY <3>1, FS_Subset
    <3> QED  BY <1>1, <1>3, <3>2
  <2>2. CASE r \notin S  BY <1>1, <1>2, <1>3, <2>2
  <2> QED  BY <2>1, <2>2
<1>4. CASE after <= IF before > 0 THEN before - 1 ELSE before
  BY <1>1, <1>2, <1>4
<1>5. CASE after <= before + 1 /\ r \notin S /\ r \in T
  <2>1. IsFiniteSet(S \union {r}) /\ Cardinality(S \union {r}) = Cardinality(S) + 1
    BY <1>5, FS_AddElement
  <2>2. S \union {r} \subseteq T  BY <1>5
  <2>3. Cardinality(S \union {r}) <= Cardinality(T)  BY <2>2, FS_Subset
  <2> QED  BY <1>1, <1>5, <2>1, <2>3
<1> QED  BY <1>3, <1>4, <1>5 DEF Balanced

\* A step of one request at one provider keeps the counts, when it is balanced
\* there or the provider is one whose permit or probe was just lost.
LEMMA SetKeepsPermits ==
    ASSUME ShapeInv, ShapeInv', PermitInv, NEW r \in Requests, NEW l, Set(r, l),
           NEW seen, NEW n, TrackFrom(seen, n),
           NEW q \in Providers, req[r].at \in {None, q}, l.at \in {None, q},
           \A p \in Providers : p # q => /\ breakers'[p].inFlight = breakers[p].inFlight
                                         /\ busy'[p].probes = busy[p].probes,
           \/ q \in n
           \/ /\ Balanced(Owes(req[r], q), Owes(l, q), breakers[q].inFlight, breakers'[q].inFlight)
              /\ Balanced(Probes(req[r], q), Probes(l, q), busy[q].probes, busy'[q].probes)
    PROVE  PermitInv'
<1> SUFFICES ASSUME NEW p \in Providers, p \notin lost'
             PROVE  /\ breakers'[p].inFlight <= Cardinality(Owing(p)')
                    /\ busy'[p].probes <= Cardinality(Probers(p)')
  BY DEF PermitInv
<1>1. /\ breakers[p].inFlight \in Nat /\ breakers'[p].inFlight \in Nat
      /\ busy[p].probes \in Nat /\ busy'[p].probes \in Nat
  <2>1. BusyProbeMax \in Nat  BY FailoverAssumption
  <2>2. breakers[p] \in Breaker /\ breakers'[p] \in Breaker
    BY DEF ShapeInv, HealthOK
  <2>3. busy[p] \in BusyState /\ busy'[p] \in BusyState
    BY DEF ShapeInv, HealthOK
  <2>4. breakers[p].inFlight \in Nat /\ breakers'[p].inFlight \in Nat  BY <2>2 DEF Breaker
  <2>5. busy[p].probes \in Nat /\ busy'[p].probes \in Nat  BY <2>1, <2>3 DEF BusyState
  <2> QED  BY <2>4, <2>5
<1>2. /\ Owing(p) \subseteq Requests /\ Owing(p)' \subseteq Requests
      /\ Probers(p) \subseteq Requests /\ Probers(p)' \subseteq Requests
  BY DEF Owing, Probers
<1>3. /\ IsFiniteSet(Owing(p)) /\ IsFiniteSet(Owing(p)')
      /\ IsFiniteSet(Probers(p)) /\ IsFiniteSet(Probers(p)')
      /\ Cardinality(Owing(p)') \in Nat /\ Cardinality(Probers(p)') \in Nat
  BY <1>2, ConstantFacts, FS_Subset, FS_CardinalityType
<1>4. \A o \in Requests : req'[o] = IF o = r THEN l ELSE req[o]
  BY DEF ShapeInv, RequestsOK, Set
<1>5. /\ Owing(p) \ {r} \subseteq Owing(p)' /\ Probers(p) \ {r} \subseteq Probers(p)'
      /\ (r \in Owing(p)) = Owes(req[r], p) /\ (r \in Owing(p)') = Owes(l, p)
      /\ (r \in Probers(p)) = Probes(req[r], p) /\ (r \in Probers(p)') = Probes(l, p)
  BY <1>4 DEF Owing, Probers, Owes, Probes
<1>6. CASE breakers'[p].inFlight > 0 \/ busy'[p].probes > 0
  <2>1. p \notin lost /\ p \notin n  BY <1>6 DEF TrackFrom
  <2>2. breakers[p].inFlight <= Cardinality(Owing(p)) /\ busy[p].probes <= Cardinality(Probers(p))
    BY <2>1 DEF PermitInv
  <2>3. /\ Balanced(Owes(req[r], p), Owes(l, p), breakers[p].inFlight, breakers'[p].inFlight)
        /\ Balanced(Probes(req[r], p), Probes(l, p), busy[p].probes, busy'[p].probes)
    <3>1. CASE p = q  BY <2>1, <3>1
    <3>2. CASE p # q
      <4>1. ~Owes(req[r], p) /\ ~Probes(req[r], p)
        BY <3>2, ConstantFacts DEF Owes, Probes
      <4> QED  BY <1>1, <3>2, <4>1 DEF Balanced
    <3> QED  BY <3>1, <3>2
  <2>4. breakers'[p].inFlight <= Cardinality(Owing(p)')
    BY <1>1, <1>3, <1>5, <2>2, <2>3, CountFollows
  <2>5. busy'[p].probes <= Cardinality(Probers(p)')
    BY <1>1, <1>3, <1>5, <2>2, <2>3, CountFollows
  <2> QED  BY <2>4, <2>5
<1>7. CASE ~(breakers'[p].inFlight > 0 \/ busy'[p].probes > 0)
  BY <1>1, <1>3, <1>7
<1> QED  BY <1>6, <1>7

\* What hands a permit back leaves the count balanced, whoever it was counted for.
LEMMA ReturnBalances ==
    ASSUME NEW l, NEW q, NEW b, NEW c, Returns(b, l.probe, c), NEW now \in BOOLEAN
    PROVE  Balanced(Owes(l, q), now, b.inFlight, c.inFlight)
<1>1. CASE l.probe  BY <1>1 DEF Returns, Balanced
<1>2. CASE ~l.probe
  <2>1. ~Owes(l, q) /\ c.inFlight <= b.inFlight  BY <1>2 DEF Returns, Owes
  <2> QED  BY <2>1 DEF Balanced
<1> QED  BY <1>1, <1>2

LEMMA SomewhereFacts ==
    ASSUME ShapeInv, NEW r \in Requests
    PROVE  /\ req[r] \in Request /\ Shaped(req[r])
           /\ req[r].at \in Providers \union {None}
           /\ req[r].pc \notin Holding => req[r].at = None
           /\ \A p \in Providers : breakers[p].inFlight \in Nat /\ busy[p].probes \in Nat
<1>1. req[r] \in Request /\ Shaped(req[r])  BY DEF ShapeInv, RequestsOK
<1>2. \A p \in Providers : breakers[p] \in Breaker /\ busy[p] \in BusyState
  BY DEF ShapeInv, HealthOK
<1>3. \A p \in Providers : breakers[p].inFlight \in Nat  BY <1>2 DEF Breaker
<1>4. \A p \in Providers : busy[p].probes \in Nat
  BY <1>2, FailoverAssumption DEF BusyState
<1>5. req[r].at \in Providers \union {None} /\ (req[r].pc \notin Holding => req[r].at = None)
  BY <1>1 DEF Shaped, Request
<1> QED  BY <1>1, <1>3, <1>4, <1>5

\* A step that leaves every circuit and busy state alone, and what r holds.
LEMMA QuietStepKeepsPermits ==
    ASSUME ShapeInv, ShapeInv', PermitInv, NEW r \in Requests, NEW l, Set(r, l),
           NEW seen, NEW n, TrackFrom(seen, n), UNCHANGED <<breakers, busy>>,
           l.at = req[r].at, l.at # None => l.probe = req[r].probe /\ l.inline = req[r].inline
                                            /\ l.held = req[r].held
    PROVE  PermitInv'
<1>1. PICK q \in Providers : req[r].at \in {None, q}
  <2>1. req[r].at \in Providers \union {None}  BY SomewhereFacts
  <2> QED  BY <2>1, ConstantFacts
<1>2. breakers[q].inFlight \in Nat /\ busy[q].probes \in Nat  BY SomewhereFacts
<1>3. (Owes(req[r], q) => Owes(l, q)) /\ (Probes(req[r], q) => Probes(l, q))
  BY <1>1, ConstantFacts DEF Owes, Probes
<1>4. /\ Balanced(Owes(req[r], q), Owes(l, q), breakers[q].inFlight, breakers'[q].inFlight)
      /\ Balanced(Probes(req[r], q), Probes(l, q), busy[q].probes, busy'[q].probes)
  BY <1>2, <1>3 DEF Balanced
<1> QED  BY <1>1, <1>4, SetKeepsPermits

\* An attempt hands its permit back, or owes none any more; its busy probe goes
\* back too, or it holds none, or the provider is marked lost.
LEMMA ReturningKeepsPermits ==
    ASSUME ShapeInv, ShapeInv', PermitInv, NEW r \in Requests, NEW l, Set(r, l),
           NEW seen, NEW n, TrackFrom(seen, n), req[r].pc \in Holding,
           NEW q, q = req[r].at, l.at = None \/ (l.at = q /\ ~l.held /\ l.inline),
           NEW c,
           \/ breakers' = [breakers EXCEPT ![q] = c] /\ Returns(breakers[q], req[r].probe, c)
           \/ breakers' = breakers /\ ~Owes(req[r], q)
           \/ breakers' = breakers /\ q \in n,
           NEW b, busy' = busy \/ busy' = [busy EXCEPT ![q] = b],
           \/ q \in n
           \/ busy' = busy /\ ~req[r].held
           \/ /\ busy' = [busy EXCEPT ![q] = b]
              /\ b.probes <= IF req[r].held /\ busy[q].probes > 0 THEN busy[q].probes - 1
                             ELSE busy[q].probes
           \/ busy' = [busy EXCEPT ![q] = b] /\ b.probes = 0
    PROVE  PermitInv'
<1>1. /\ req[r] \in Request /\ Shaped(req[r])
      /\ breakers \in [Providers -> Breaker] /\ busy \in [Providers -> BusyState]
  BY SomewhereFacts DEF ShapeInv, HealthOK
<1>2. q \in Providers  BY <1>1, HoldingFacts
<1>3. breakers[q].inFlight \in Nat /\ busy[q].probes \in Nat  BY <1>2, SomewhereFacts
<1>4. \A p \in Providers : p # q => /\ breakers'[p].inFlight = breakers[p].inFlight
                                    /\ busy'[p].probes = busy[p].probes
  BY <1>1
<1>5. ~Owes(l, q) /\ ~Probes(l, q)
  BY <1>2, ConstantFacts DEF Owes, Probes
<1>6. q \in n \/ Balanced(Owes(req[r], q), FALSE, breakers[q].inFlight, breakers'[q].inFlight)
  <2>1. CASE breakers' = [breakers EXCEPT ![q] = c] /\ Returns(breakers[q], req[r].probe, c)
    <3>1. breakers'[q] = c  BY <1>1, <1>2, <2>1
    <3> QED  BY <2>1, <3>1, ReturnBalances
  <2>2. CASE breakers' = breakers /\ ~Owes(req[r], q)
    BY <1>3, <2>2 DEF Balanced
  <2> QED  BY <2>1, <2>2
<1>7. q \in n \/ Balanced(Probes(req[r], q), FALSE, busy[q].probes, busy'[q].probes)
  <2>1. CASE busy' = busy /\ ~req[r].held
    BY <1>3, <2>1 DEF Balanced, Probes
  <2>2. CASE busy' = [busy EXCEPT ![q] = b] /\ b.probes = 0
    <3>1. busy'[q].probes = 0  BY <1>1, <1>2, <2>2
    <3> QED  BY <1>3, <3>1 DEF Balanced
  <2>3. CASE /\ busy' = [busy EXCEPT ![q] = b]
             /\ b.probes <= IF req[r].held /\ busy[q].probes > 0 THEN busy[q].probes - 1
                            ELSE busy[q].probes
    <3>1. busy'[q] = b  BY <1>1, <1>2, <2>3
    <3>2. CASE req[r].held  BY <1>3, <2>3, <3>1, <3>2 DEF Balanced
    <3>3. CASE ~req[r].held  BY <1>3, <2>3, <3>1, <3>3 DEF Balanced, Probes
    <3> QED  BY <3>2, <3>3
  <2> QED  BY <2>1, <2>2, <2>3
<1>8. (Owes(l, q) <=> FALSE) /\ (Probes(l, q) <=> FALSE)  BY <1>5
<1>9. \/ q \in n
      \/ /\ Balanced(Owes(req[r], q), Owes(l, q), breakers[q].inFlight, breakers'[q].inFlight)
         /\ Balanced(Probes(req[r], q), Probes(l, q), busy[q].probes, busy'[q].probes)
  BY <1>6, <1>7, <1>8 DEF Balanced
<1>10. req[r].at \in {None, q} /\ l.at \in {None, q}  OBVIOUS
<1> HIDE DEF Balanced
<1> QED  BY <1>2, <1>4, <1>9, <1>10, SetKeepsPermits

LEMMA AdmissionKeepsPermits ==
    ASSUME ShapeInv, ShapeInv', PermitInv, NEW r \in Requests,
           \/ Admit(r) \/ TurnAway(r) \/ ClientLeaves(r) \/ Read(r)
    PROVE  PermitInv'
<1>1. req[r] \in Request /\ (req[r].pc \notin Holding => req[r].at = None)
  BY SomewhereFacts
<1>2. PICK seen, n : TrackFrom(seen, n) /\ UNCHANGED <<breakers, busy>>
  BY DEF Admit, TurnAway, ClientLeaves, Read, ReadBody, RejectBody, Track
<1>3. CASE Admit(r)
  <2> DEFINE s == FirstFrom(cursor[ScopeOf[r]], NumProviders, AvailableTo(r))
             l == [Fresh EXCEPT !.pc = "body", !.cand = AvailableTo(r), !.start = s,
                                !.preferred = s, !.sends = req[r].sends + 1]
  <2>1. Set(r, l) /\ req[r].pc \notin Holding  BY <1>3 DEF Admit, MaySend, Holding, Loop
  <2>2. l.at = None  BY DEF Fresh
  <2> HIDE DEF l
  <2> QED  BY <1>1, <1>2, <2>1, <2>2, QuietStepKeepsPermits
<1>4. CASE TurnAway(r)
  <2> DEFINE l == [Fresh EXCEPT !.pc = "answered", !.sends = req[r].sends + 1,
                                !.result = IF KnowsWhenBack THEN "retryLater" ELSE "unavailable"]
  <2>1. Set(r, l) /\ req[r].pc \notin Holding  BY <1>4 DEF TurnAway, MaySend, Holding, Loop
  <2>2. l.at = None  BY DEF Fresh
  <2> HIDE DEF l
  <2> QED  BY <1>1, <1>2, <2>1, <2>2, QuietStepKeepsPermits
<1>5. CASE ClientLeaves(r)
  <2> DEFINE l == [req[r] EXCEPT !.gone = TRUE]
  <2>1. Set(r, l)  BY <1>5 DEF ClientLeaves
  <2>2. l.at = req[r].at /\ l.probe = req[r].probe /\ l.inline = req[r].inline /\ l.held = req[r].held
    BY <1>1 DEF Request
  <2> HIDE DEF l
  <2> QED  BY <1>2, <2>1, <2>2, QuietStepKeepsPermits
<1>6. ASSUME NEW h \in HintsOf[r], ReadBody(r, h) PROVE PermitInv'
  <2>1. PICK l : /\ Set(r, l)
                 /\ \/ l = [req[r] EXCEPT !.pc = "pick", !.start = h[1], !.preferred = h[1]]
                    \/ l = [req[r] EXCEPT !.pc = "pick"]
    BY <1>6 DEF ReadBody
  <2>2. l.at = req[r].at
    <3>1. CASE l = [req[r] EXCEPT !.pc = "pick", !.start = h[1], !.preferred = h[1]]
      BY <1>1, <3>1 DEF Request
    <3>2. CASE l = [req[r] EXCEPT !.pc = "pick"]
      BY <1>1, <3>2 DEF Request
    <3> QED  BY <2>1, <3>1, <3>2
  <2>3. req[r].at = None  BY <1>1, <1>6 DEF ReadBody, Holding, Loop
  <2> QED  BY <1>2, <2>1, <2>2, <2>3, QuietStepKeepsPermits
<1>7. CASE RejectBody(r)
  <2> DEFINE l == Answered(r, "rejected")
  <2>1. Set(r, l) /\ req[r].at = None  BY <1>1, <1>7 DEF RejectBody, Holding, Loop
  <2>2. l.at = None  BY DEF Answered, Fresh
  <2> HIDE DEF l
  <2> QED  BY <1>2, <2>1, <2>2, QuietStepKeepsPermits
<1> QED  BY <1>3, <1>4, <1>5, <1>6, <1>7 DEF Read

LEMMA LoopKeepsPermits ==
    ASSUME ShapeInv, ShapeInv', PermitInv, NEW r \in Requests,
           StopAtPick(r) \/ SkipProvider(r) \/ TakePermit(r) \/ GiveUp(r)
    PROVE  PermitInv'
<1>1. req[r] \in Request /\ req[r].at = None
      /\ \A p \in Providers : breakers[p].inFlight \in Nat /\ busy[p].probes \in Nat
      /\ breakers \in [Providers -> Breaker]
  BY SomewhereFacts DEF StopAtPick, SkipProvider, TakePermit, GiveUp, Holding, ShapeInv, HealthOK
<1>2. TrackFrom(untried, {}) /\ UNCHANGED busy
  BY DEF StopAtPick, SkipProvider, TakePermit, GiveUp, Track
<1>3. CASE StopAtPick(r) \/ GiveUp(r)
  <2>1. PICK result : Set(r, Answered(r, result)) /\ UNCHANGED breakers
    BY <1>3 DEF StopAtPick, GiveUp
  <2> DEFINE l == Answered(r, result)
  <2>2. l.at = None  BY DEF Answered, Fresh
  <2> HIDE DEF l
  <2> QED  BY <1>1, <1>2, <2>1, <2>2, QuietStepKeepsPermits DEF l
<1>4. req[r].pc = "pick" /\ MoreProviders(r) =>
          ThisProvider(r) \in Providers /\ Sound(breakers[ThisProvider(r)])
  <2>1. req[r].start \in Int /\ req[r].offset \in Int /\ NumProviders \in Nat \ {0}
    BY <1>1, ConstantFacts DEF Request, Providers
  <2>2. ThisProvider(r) \in Providers
    <3>1. \A i \in Int : i % NumProviders \in 0..NumProviders - 1  BY <2>1
    <3>2. req[r].start + req[r].offset \in Int  BY <2>1
    <3> QED  BY <3>1, <3>2 DEF ThisProvider, Providers
  <2> QED  BY <2>2 DEF ShapeInv, HealthOK
<1> DEFINE p == ThisProvider(r)
           c == AllowState(breakers[p])
<1>5. CASE SkipProvider(r)
  <2>1. p \in Providers /\ Sound(breakers[p]) /\ req[r].offset < NumProviders
    BY <1>4, <1>5 DEF SkipProvider, MoreProviders
  <2>2. /\ Set(r, Onward(r))
        /\ \/ breakers' = breakers
           \/ breakers' = [breakers EXCEPT ![p] = c] /\ ~AllowResult(breakers[p]).allowed
    BY <1>5 DEF SkipProvider
  <2>3. ~AllowResult(breakers[p]).allowed => ~AllowResult(breakers[p]).usedProbe
    BY DEF AllowResult, Granted, Refused
  <2>4. ~AllowResult(breakers[p]).allowed => c.inFlight <= breakers[p].inFlight
    BY <2>1, <2>3, AllowSound
  <2> HIDE DEF p, c
  <2>5. breakers'[p].inFlight <= breakers[p].inFlight
        /\ \A q \in Providers : q # p => breakers'[q].inFlight = breakers[q].inFlight
    BY <1>1, <2>1, <2>2, <2>4
  <2>6. ~Owes(req[r], p) /\ ~Probes(req[r], p)
    BY <1>1, <2>1, ConstantFacts DEF Owes, Probes
  <2> DEFINE l == Onward(r)
  <2>7. l.at = None  BY <1>1, <2>1, OnwardFacts
  <2>8. Set(r, l)  BY <2>2
  <2> HIDE DEF l
  <2>9. /\ Balanced(Owes(req[r], p), Owes(l, p), breakers[p].inFlight, breakers'[p].inFlight)
        /\ Balanced(Probes(req[r], p), Probes(l, p), busy[p].probes, busy'[p].probes)
    BY <1>1, <1>2, <2>1, <2>5, <2>6 DEF Balanced
  <2>10. \A q \in Providers : q # p => /\ breakers'[q].inFlight = breakers[q].inFlight
                                       /\ busy'[q].probes = busy[q].probes
    BY <1>2, <2>5
  <2> QED  BY <1>1, <1>2, <2>1, <2>7, <2>8, <2>9, <2>10, SetKeepsPermits
<1>6. CASE TakePermit(r)
  <2> DEFINE u == AllowResult(breakers[p]).usedProbe
             l == [req[r] EXCEPT !.pc = "open", !.at = p, !.probe = u]
  <2>1. p \in Providers /\ Sound(breakers[p]) /\ req[r].pc = "pick" /\ Set(r, l)
        /\ breakers' = [breakers EXCEPT ![p] = c]
    BY <1>4, <1>6 DEF TakePermit
  <2>2. u \in BOOLEAN /\ c.inFlight <= IF u THEN breakers[p].inFlight + 1 ELSE breakers[p].inFlight
    BY <2>1, AllowSound
  <2>3. u => ~req[r].inline
    BY <2>1, SomewhereFacts DEF Shaped
  <2> HIDE DEF p, c, u
  <2>4. l.at = p /\ l.probe = u /\ l.inline = req[r].inline
    BY <1>1 DEF Request
  <2> HIDE DEF l
  <2>5. ~Owes(req[r], p) /\ ~Probes(req[r], p) /\ (u => Owes(l, p))
    BY <1>1, <2>1, <2>3, <2>4, ConstantFacts DEF Owes, Probes
  <2>6. breakers'[p].inFlight = c.inFlight
        /\ \A q \in Providers : q # p => breakers'[q].inFlight = breakers[q].inFlight
    BY <1>1, <2>1
  <2>7. Balanced(Owes(req[r], p), Owes(l, p), breakers[p].inFlight, breakers'[p].inFlight)
    BY <2>2, <2>5, <2>6 DEF Balanced
  <2>8. Balanced(Probes(req[r], p), Probes(l, p), busy[p].probes, busy'[p].probes)
    BY <1>1, <1>2, <2>1, <2>5 DEF Balanced
  <2>9. \A q \in Providers : q # p => /\ breakers'[q].inFlight = breakers[q].inFlight
                                      /\ busy'[q].probes = busy[q].probes
    BY <1>2, <2>6
  <2> HIDE DEF Balanced
  <2> QED  BY <1>1, <1>2, <2>1, <2>4, <2>7, <2>8, <2>9, SetKeepsPermits
<1> QED  BY <1>3, <1>5, <1>6

LEMMA SetIsOnce ==
    ASSUME req \in [Requests -> Request], NEW r \in Requests, NEW l, NEW m, Set(r, l), Set(r, m)
    PROVE  l = m
<1>1. req'[r] = l /\ req'[r] = m  BY DEF Set
<1> QED  BY <1>1

\* A provider that is passed over because it is busy gets its permit back.
LEMMA OpeningHandsBack ==
    ASSUME NEW r \in Requests, req[r] \in Request, req[r].offset < NumProviders, OpenProvider(r)
    PROVE  \E m : /\ Set(r, m)
                  /\ \/ /\ breakers' = [breakers EXCEPT ![req[r].at] = Neutral(r)]
                        /\ m.at = None
                     \/ breakers' = breakers /\ m.at = req[r].at
<1> DEFINE p == req[r].at
           k == NextLiveKey(p, keyCursor[ScopeOf[r]][p])
           late == req[r].latecomer \/ p \notin req[r].cand
           opened == [req[r] EXCEPT !.attempted = @ + 1, !.latecomer = late,
                                    !.keyActive = LiveKeyCount(p), !.keyStart = k]
           tooBusy == busy[p].left > 0 /\ (p # req[r].preferred \/ busy[p].left > MaxInlineWait)
           passed == [Onward(r) EXCEPT !.attempted = @ + 1, !.latecomer = opened.latecomer]
           waits == [opened EXCEPT !.pc = "wait", !.wait = busy[p].left]
           sends == [opened EXCEPT !.pc = "send"]
<1>1. /\ Set(r, IF tooBusy THEN passed ELSE IF busy[p].left > 0 THEN waits ELSE sends)
      /\ breakers' = IF tooBusy THEN [breakers EXCEPT ![p] = Neutral(r)] ELSE breakers
  BY DEF OpenProvider
<1>2. passed.at = None
  BY OnwardFacts DEF Request
<1>3. opened.at = p /\ DOMAIN opened = DOMAIN req[r]  BY DEF Request
<1>4. waits.at = p /\ sends.at = p  BY <1>3 DEF Request
<1> HIDE DEF p, k, opened, tooBusy, passed, waits, sends
<1>5. CASE tooBusy  BY <1>1, <1>2, <1>5 DEF p
<1>6. CASE ~tooBusy /\ busy[p].left > 0  BY <1>1, <1>4, <1>6 DEF p
<1>7. CASE ~tooBusy /\ ~(busy[p].left > 0)  BY <1>1, <1>4, <1>7 DEF p
<1> QED  BY <1>5, <1>6, <1>7

\* The keys counted, the wait for a busy provider and its recovery probe.
LEMMA WaitingKeepsPermits ==
    ASSUME ShapeInv, ShapeInv', PermitInv, NEW r \in Requests,
           \/ NoKeyLeft(r) \/ OpenProvider(r) \/ ProbeBusy(r) \/ WaitCancelled(r)
           \/ \E p \in Providers : OverflowBusy(r, p)
    PROVE  PermitInv'
<1> DEFINE q == req[r].at
           c == Neutral(r)
<1>1. /\ req[r] \in Request /\ Shaped(req[r]) /\ req[r].pc \in {"open", "wait"}
      /\ req[r].pc \in Holding /\ ~req[r].held
      /\ \A p \in Providers : breakers[p].inFlight \in Nat /\ busy[p].probes \in Nat
  <2>1. req[r].pc \in {"open", "wait"}
    BY DEF NoKeyLeft, OpenProvider, ProbeBusy, WaitCancelled, OverflowBusy
  <2> QED  BY <2>1, SomewhereFacts DEF Shaped, Holding, Loop
<1>2. q \in Providers /\ Returns(breakers[q], req[r].probe, c)
      /\ req[r].offset < NumProviders
  BY <1>1, HandedBackSound, HoldingFacts DEF ShapeInv
<1>3. TrackFrom(untried, {})
  BY DEF NoKeyLeft, OpenProvider, ProbeBusy, WaitCancelled, OverflowBusy, Track
<1>4. ASSUME NEW l, Set(r, l), l.at = None, UNCHANGED busy,
             \/ breakers' = [breakers EXCEPT ![q] = c]
             \/ breakers' = breakers /\ req[r].inline
      PROVE  PermitInv'
  <2>1. \/ breakers' = [breakers EXCEPT ![q] = c] /\ Returns(breakers[q], req[r].probe, c)
        \/ breakers' = breakers /\ ~Owes(req[r], q)
    BY <1>2, <1>4 DEF Owes
  <2> HIDE DEF q, c
  <2> QED  BY <1>1, <1>3, <1>4, <2>1, ReturningKeepsPermits DEF q
<1>5. CASE NoKeyLeft(r)
  <2>1. Set(r, Onward(r)) /\ UNCHANGED busy /\ breakers' = [breakers EXCEPT ![q] = c]
    BY <1>5 DEF NoKeyLeft
  <2>2. Onward(r).at = None  BY <1>1, <1>2, OnwardFacts
  <2> HIDE DEF q, c
  <2> QED  BY <1>4, <2>1, <2>2
<1>6. CASE OpenProvider(r)
  <2>1. PICK l : Set(r, l) /\ Opening(r, l)  BY <1>1, <1>6, OpeningSet
  <2>2. req[r].pc = "open"  BY <1>6 DEF OpenProvider
  <2>3. /\ l.held = FALSE
        /\ \/ l.at = None
           \/ l.pc \in Counted /\ l.at = q /\ l.probe = req[r].probe /\ l.inline = req[r].inline
    BY <2>1, <2>2, OpeningFacts
  <2>4. UNCHANGED busy /\ (breakers' = breakers \/ breakers' = [breakers EXCEPT ![q] = c])
    BY <1>6 DEF OpenProvider
  <2>5. CASE breakers' = breakers /\ l.at = q
    <3>1. l.probe = req[r].probe /\ l.inline = req[r].inline /\ l.held = req[r].held
      <4>1. l.at # None  BY <1>2, <2>5, ConstantFacts
      <4>2. req[r].held = FALSE  BY <1>1 DEF Request
      <4> QED  BY <2>3, <4>1, <4>2
    <3> HIDE DEF c
    <3> QED  BY <1>3, <2>1, <2>4, <2>5, <3>1, QuietStepKeepsPermits
  <2>6. CASE breakers' = [breakers EXCEPT ![q] = c] /\ l.at = None
    <3> HIDE DEF q, c
    <3> QED  BY <1>4, <2>1, <2>4, <2>6
  <2>7. \/ breakers' = breakers /\ l.at = q
        \/ breakers' = [breakers EXCEPT ![q] = c] /\ l.at = None
    <3>1. PICK m : /\ Set(r, m)
                   /\ \/ breakers' = [breakers EXCEPT ![q] = c] /\ m.at = None
                      \/ breakers' = breakers /\ m.at = q
      BY <1>1, <1>2, <1>6, OpeningHandsBack
    <3>2. m = l  BY <2>1, <3>1, SetIsOnce DEF ShapeInv, RequestsOK
    <3> QED  BY <3>1, <3>2
  <2> QED  BY <2>5, <2>6, <2>7
<1>7. CASE WaitCancelled(r)
  <2> DEFINE l == Answered(r, "canceled")
  <2>1. /\ Set(r, l) /\ UNCHANGED busy
        /\ \/ breakers' = [breakers EXCEPT ![q] = c]
           \/ breakers' = breakers /\ req[r].inline
    BY <1>7 DEF WaitCancelled
  <2>2. l.at = None  BY DEF Answered, Fresh
  <2> HIDE DEF q, c, l
  <2> QED  BY <1>4, <2>1, <2>2
<1>8. ASSUME NEW p \in Providers, OverflowBusy(r, p) PROVE PermitInv'
  <2> DEFINE l == Onward(r)
  <2>1. /\ Set(r, l) /\ UNCHANGED busy
        /\ \/ breakers' = [breakers EXCEPT ![q] = c]
           \/ breakers' = breakers /\ req[r].inline
    BY <1>8 DEF OverflowBusy
  <2>2. l.at = None  BY <1>1, <1>2, OnwardFacts
  <2> HIDE DEF q, c, l
  <2> QED  BY <1>4, <2>1, <2>2
<1>9. CASE ProbeBusy(r)
  <2> DEFINE l == [req[r] EXCEPT !.pc = "send", !.held = TRUE, !.retried = TRUE,
                                 !.keyOffset = 0, !.keyTried = 0]
  <2>1. Set(r, l) /\ UNCHANGED breakers /\ busy' = [busy EXCEPT ![q].probes = @ + 1]
    BY <1>9 DEF ProbeBusy
  <2>2. l.at = q /\ l.held = TRUE /\ l.probe = req[r].probe /\ l.inline = req[r].inline
    BY <1>1 DEF Request
  <2>3. busy \in [Providers -> BusyState]  BY DEF ShapeInv, HealthOK
  <2>4. /\ busy'[q].probes = busy[q].probes + 1
        /\ \A p \in Providers : p # q => busy'[p] = busy[p]
    BY <1>2, <2>1, <2>3 DEF BusyState
  <2> HIDE DEF q, l
  <2>5. Owes(req[r], q) = Owes(l, q) /\ ~Probes(req[r], q) /\ Probes(l, q)
    BY <1>1, <2>2 DEF Owes, Probes, q
  <2>6. /\ Balanced(Owes(req[r], q), Owes(l, q), breakers[q].inFlight, breakers'[q].inFlight)
        /\ Balanced(Probes(req[r], q), Probes(l, q), busy[q].probes, busy'[q].probes)
    BY <1>1, <1>2, <2>1, <2>4, <2>5 DEF Balanced
  <2>7. req[r].at = q  BY DEF q
  <2> HIDE DEF Balanced
  <2> QED  BY <1>2, <1>3, <2>1, <2>2, <2>4, <2>6, <2>7, SetKeepsPermits
<1> QED  BY <1>5, <1>6, <1>7, <1>8, <1>9

LEMMA KeyLoopKeepsPermits ==
    ASSUME ShapeInv, ShapeInv', PermitInv, NEW r \in Requests,
           \/ SendWithKey(r) \/ KeysSpent(r) \/ Commit(r)
           \/ \E p \in Providers : \E k \in Keys(p), d \in Penalties : KeyFails(r, p, k, d)
    PROVE  PermitInv'
<1>1. req[r] \in Request  BY SomewhereFacts
<1>2. CASE KeysSpent(r)
  <2> DEFINE n == IF (req[r].probe /\ ~req[r].inline) \/ req[r].held THEN {req[r].at} ELSE {}
             l == Onward(r)
  <2>1. Set(r, l) /\ TrackFrom(untried, n) /\ UNCHANGED <<breakers, busy>>
        /\ req[r].pc \in Holding
    BY <1>2 DEF KeysSpent, Track, Holding, Loop
  <2>2. l.at = None
    <3>1. req[r].offset < NumProviders  BY <2>1, SomewhereFacts DEF Shaped
    <3> QED  BY <1>1, <3>1, OnwardFacts
  <2>3. req[r].at \in n \/ ~Owes(req[r], req[r].at)  BY DEF Owes
  <2>4. req[r].at \in n \/ ~req[r].held  OBVIOUS
  <2> HIDE DEF n, l
  <2> QED  BY <2>1, <2>2, <2>3, <2>4, ReturningKeepsPermits
<1>3. ASSUME NEW l, Set(r, l), NEW n, TrackFrom(untried, n), UNCHANGED <<breakers, busy>>,
             l.at = req[r].at, l.probe = req[r].probe, l.inline = req[r].inline,
             l.held = req[r].held
      PROVE  PermitInv'
  BY <1>3, QuietStepKeepsPermits
<1>4. CASE SendWithKey(r)
  <2>1. TrackFrom(untried, {}) /\ UNCHANGED <<breakers, busy>>  BY <1>4 DEF SendWithKey, Track
  <2>2. PICK k, o, t : Set(r, [req[r] EXCEPT !.pc = "upstream", !.key = k,
                                             !.keyOffset = o, !.keyTried = t])
    BY <1>4 DEF SendWithKey
  <2> DEFINE l == [req[r] EXCEPT !.pc = "upstream", !.key = k, !.keyOffset = o, !.keyTried = t]
  <2>3. l.at = req[r].at /\ l.probe = req[r].probe /\ l.inline = req[r].inline
        /\ l.held = req[r].held
    BY <1>1 DEF Request
  <2>4. Set(r, l)  BY <2>2
  <2> HIDE DEF l
  <2> QED  BY <1>3, <2>1, <2>3, <2>4
<1>5. ASSUME NEW pc, Set(r, [req[r] EXCEPT !.pc = pc]), TrackFrom(untried, {}),
             UNCHANGED <<breakers, busy>>
      PROVE  PermitInv'
  <2> DEFINE l == [req[r] EXCEPT !.pc = pc]
  <2>1. l.at = req[r].at /\ l.probe = req[r].probe /\ l.inline = req[r].inline
        /\ l.held = req[r].held
    BY <1>1 DEF Request
  <2>2. Set(r, l)  BY <1>5
  <2> HIDE DEF l
  <2> QED  BY <1>3, <1>5, <2>1, <2>2
<1>6. CASE Commit(r)
  BY <1>5, <1>6 DEF Commit, Track
<1>7. CASE \E p \in Providers : \E k \in Keys(p), d \in Penalties : KeyFails(r, p, k, d)
  BY <1>5, <1>7 DEF KeyFails, Track
<1> QED  BY <1>2, <1>4, <1>6, <1>7

\* Attempts that end, whatever became of them.
LEMMA AttemptKeepsPermits ==
    ASSUME ShapeInv, ShapeInv', PermitInv, NEW r \in Requests,
           \/ Unbuilt(r) \/ UpstreamCancelled(r) \/ StreamSucceeds(r)
           \/ StreamInconclusive(r) \/ StreamBreaks(r) \/ StreamCancelled(r)
           \/ \E p \in Providers : UpstreamBreaks(r, p)
    PROVE  PermitInv'
<1> DEFINE q == req[r].at
<1>1. req[r] \in Request /\ req[r].pc \in Holding /\ TrackFrom(untried, {})
  BY SomewhereFacts
     DEF Unbuilt, UpstreamCancelled, StreamSucceeds, StreamInconclusive, StreamBreaks,
         StreamCancelled, UpstreamBreaks, Holding, Loop, Track
<1>2. q \in Providers /\ Sound(breakers[q]) /\ req[r].offset < NumProviders
      /\ busy[q] \in BusyState
  <2>1. Shaped(req[r])  BY SomewhereFacts
  <2> QED  BY <1>1, <2>1, HoldingFacts DEF ShapeInv, HealthOK
<1>3. Onward(r).at = None  BY <1>1, <1>2, OnwardFacts
<1>4. \A result : Answered(r, result).at = None  BY DEF Answered, Fresh
<1>5. ASSUME NEW l, Set(r, l), l.at = None, NEW c, HandBack(r, c),
             c = Neutral(r) \/ \E reason : c = AfterFailure(r, reason)
      PROVE  PermitInv'
  <2> DEFINE b == BusyReleased(r, busy[q])
  <2>1. Returns(breakers[q], req[r].probe, c)
    BY <1>1, <1>5, HandedBackSound DEF ShapeInv
  <2>2. b.probes <= IF req[r].held /\ busy[q].probes > 0 THEN busy[q].probes - 1
                    ELSE busy[q].probes
    BY <1>1, <1>2, BusyReleasedFacts
  <2>3. breakers' = [breakers EXCEPT ![q] = c] /\ busy' = [busy EXCEPT ![q] = b]
    BY <1>5 DEF HandBack
  <2> HIDE DEF b, q
  <2> QED  BY <1>1, <1>5, <2>1, <2>2, <2>3, ReturningKeepsPermits DEF q
<1> HIDE DEF q
<1>6. CASE Unbuilt(r) \/ UpstreamCancelled(r) \/ StreamCancelled(r)
  BY <1>3, <1>4, <1>5, <1>6 DEF Unbuilt, UpstreamCancelled, StreamCancelled
<1>7. CASE StreamInconclusive(r) \/ StreamBreaks(r)
  BY <1>4, <1>5, <1>7 DEF StreamInconclusive, StreamBreaks
<1>8. CASE \E p \in Providers : UpstreamBreaks(r, p)
  BY <1>3, <1>5, <1>8 DEF UpstreamBreaks
<1>9. CASE StreamSucceeds(r)
  <2> DEFINE b == [step |-> 0, left |-> 0, marked |-> FALSE, probes |-> 0]
             c == RecordSuccess(breakers[q], req[r].probe)
             l == Answered(r, "delivered")
  <2>1. Set(r, l) /\ breakers' = [breakers EXCEPT ![q] = c] /\ busy' = [busy EXCEPT ![q] = b]
    BY <1>9 DEF StreamSucceeds, q
  <2>2. Returns(breakers[q], req[r].probe, c)
    <3>1. req[r].probe \in BOOLEAN  BY <1>1 DEF Request
    <3> QED  BY <1>2, <3>1, RecordSuccessSound
  <2>3. b.probes = 0 /\ l.at = None  BY <1>4
  <2> HIDE DEF b, c, l
  <2> QED  BY <1>1, <2>1, <2>2, <2>3, ReturningKeepsPermits DEF q
<1> QED  BY <1>6, <1>7, <1>8, <1>9

\* Failures of a provider as a whole, and its busy answers.
LEMMA FailureKeepsPermits ==
    ASSUME ShapeInv, ShapeInv', PermitInv, NEW r \in Requests, NEW p \in Providers,
           \/ BusyAnswer(r, p)
           \/ \E k \in Keys(p), d \in Penalties : LastKeyFails(r, p, k, d)
           \/ \E d \in Cooldowns : ServerFails(r, p, d)
    PROVE  PermitInv'
<1>1. req[r] \in Request /\ req[r].pc \in Holding /\ req[r].at = p
  BY SomewhereFacts DEF BusyAnswer, LastKeyFails, ServerFails, Holding, Loop
<1>2. Sound(breakers[p]) /\ req[r].offset < NumProviders /\ busy[p] \in BusyState
  <2>1. Shaped(req[r])  BY SomewhereFacts
  <2> QED  BY <1>1, <2>1, HoldingFacts DEF ShapeInv, HealthOK
<1>3. Onward(r).at = None  BY <1>1, <1>2, OnwardFacts
<1>4. CASE BusyAnswer(r, p)
  <2> DEFINE e == BusyReleased(r, busy[p])
             b == MarkedBusy(p, e)
             c == Neutral(r)
             w == [req[r] EXCEPT !.pc = "wait", !.wait = BusyWait(p), !.inline = TRUE,
                                 !.held = FALSE]
  <2>1. /\ breakers' = [breakers EXCEPT ![p] = c] /\ busy' = [busy EXCEPT ![p] = b]
        /\ TrackFrom(untried, {})
    BY <1>4 DEF BusyAnswer, Track
  <2>2. PICK l : Set(r, l) /\ l \in {w, Onward(r)}
    BY <1>4 DEF BusyAnswer
  <2>3. l.at = None \/ (l.at = p /\ ~l.held /\ l.inline)
    <3>1. w.at = p /\ w.held = FALSE /\ w.inline = TRUE  BY <1>1 DEF Request
    <3> HIDE DEF w
    <3> QED  BY <1>3, <2>2, <3>1
  <2>4. Returns(breakers[p], req[r].probe, c)
    BY <1>1, HandedBackSound DEF ShapeInv
  <2>5. b.probes <= IF req[r].held /\ busy[p].probes > 0 THEN busy[p].probes - 1
                    ELSE busy[p].probes
    <3>1. /\ e \in BusyState
          /\ e.probes <= IF req[r].held /\ busy[p].probes > 0 THEN busy[p].probes - 1
                         ELSE busy[p].probes
      BY <1>1, <1>2, BusyReleasedFacts
    <3> HIDE DEF e
    <3>2. b.probes = e.probes  BY <3>1, MarkedBusyFacts DEF ShapeInv
    <3> QED  BY <3>1, <3>2
  <2> HIDE DEF b, c
  <2> QED  BY <1>1, <2>1, <2>2, <2>3, <2>4, <2>5, ReturningKeepsPermits
<1>5. CASE \/ \E k \in Keys(p), d \in Penalties : LastKeyFails(r, p, k, d)
           \/ \E d \in Cooldowns : ServerFails(r, p, d)
  <2> DEFINE n == IF req[r].held THEN {p} ELSE {}
             l == Onward(r)
  <2>1. PICK reason : /\ breakers' = [breakers EXCEPT ![p] = AfterFailure(r, reason)]
                      /\ UNCHANGED busy /\ Set(r, l) /\ TrackFrom(untried, n)
    BY <1>5 DEF LastKeyFails, ServerFails, Track
  <2> DEFINE c == AfterFailure(r, reason)
  <2>2. Returns(breakers[p], req[r].probe, c)
    BY <1>1, HandedBackSound DEF ShapeInv
  <2>3. p \in n \/ ~req[r].held  OBVIOUS
  <2> HIDE DEF c, l, n
  <2> QED  BY <1>1, <1>3, <2>1, <2>2, <2>3, ReturningKeepsPermits DEF c, l
<1> QED  BY <1>4, <1>5

LEMMA TickKeepsPermits == ASSUME ShapeInv, PermitInv, Tick PROVE PermitInv'
<1> SUFFICES ASSUME NEW p \in Providers, p \notin lost
             PROVE  /\ breakers'[p].inFlight <= Cardinality(Owing(p)')
                    /\ busy'[p].probes <= Cardinality(Probers(p)')
  BY DEF PermitInv, Tick
<1>1. breakers'[p].inFlight = breakers[p].inFlight
  BY AgedSound DEF Tick, ShapeInv, HealthOK
<1>2. busy'[p].probes = busy[p].probes
  BY DEF Tick, ShapeInv, HealthOK, BusyState
<1>3. ASSUME NEW r \in Requests
      PROVE  Owes(req'[r], p) = Owes(req[r], p) /\ Probes(req'[r], p) = Probes(req[r], p)
  <2>1. req[r] \in Request  BY DEF ShapeInv, RequestsOK
  <2>2. req'[r] = [req[r] EXCEPT !.wait = Less(req[r].wait)]  BY DEF Tick
  <2>3. /\ req'[r].at = req[r].at /\ req'[r].probe = req[r].probe
        /\ req'[r].inline = req[r].inline /\ req'[r].held = req[r].held
    BY <2>1, <2>2 DEF Request
  <2> QED  BY <2>3 DEF Owes, Probes
<1>4. Owing(p)' = Owing(p) /\ Probers(p)' = Probers(p)
  BY <1>3 DEF Owing, Probers
<1> QED  BY <1>1, <1>2, <1>4 DEF PermitInv

LEMMA InitPermits == Init => PermitInv
<1> SUFFICES ASSUME Init, NEW p \in Providers
             PROVE  breakers[p].inFlight <= Cardinality(Owing(p))
                    /\ busy[p].probes <= Cardinality(Probers(p))
  BY DEF PermitInv
<1>1. breakers[p].inFlight = 0 /\ busy[p].probes = 0  BY DEF Init, NewBreaker
<1>2. Owing(p) \subseteq Requests /\ Probers(p) \subseteq Requests  BY DEF Owing, Probers
<1>3. Cardinality(Owing(p)) \in Nat /\ Cardinality(Probers(p)) \in Nat
  BY <1>2, ConstantFacts, FS_Subset, FS_CardinalityType
<1> QED  BY <1>1, <1>3

LEMMA NextPermits == ShapeInv /\ ShapeInv' /\ PermitInv /\ [Next]_vars => PermitInv'
<1> SUFFICES ASSUME ShapeInv, ShapeInv', PermitInv, [Next]_vars PROVE PermitInv'  OBVIOUS
<1>1. ASSUME NEW r \in Requests, Admit(r) \/ TurnAway(r) \/ ClientLeaves(r) \/ Read(r)
      PROVE  PermitInv'
  BY <1>1, AdmissionKeepsPermits
<1>2. ASSUME NEW r \in Requests, Walk(r) PROVE PermitInv'
  BY <1>2, LoopKeepsPermits, WaitingKeepsPermits, KeyLoopKeepsPermits DEF Walk
<1>3. ASSUME NEW r \in Requests, Answer(r) PROVE PermitInv'
  BY <1>3, AttemptKeepsPermits, FailureKeepsPermits, KeyLoopKeepsPermits DEF Answer
<1>4. CASE Tick  BY <1>4, TickKeepsPermits
<1>5. CASE UNCHANGED vars
  <2>1. \A p \in Providers : Owing(p)' = Owing(p) /\ Probers(p)' = Probers(p)
    BY <1>5 DEF vars, Owing, Probers
  <2> QED  BY <1>5, <2>1 DEF vars, PermitInv
<1> QED  BY <1>1, <1>2, <1>3, <1>4, <1>5 DEF Next, Finished

LEMMA QuietFrees == ASSUME ShapeInv, PermitInv, Quiet PROVE QuietMeansRecovered
<1> SUFFICES ASSUME NEW p \in Providers, p \notin lost
             PROVE  Available(p) /\ busy[p].probes = 0
  BY DEF QuietMeansRecovered
<1>1. \A r \in Requests : req[r].at = None
  BY SomewhereFacts DEF Quiet, Holding, Loop
<1>2. Owing(p) = {} /\ Probers(p) = {}
  BY <1>1, ConstantFacts DEF Owing, Probers, Owes, Probes
<1>3. breakers[p].inFlight = 0 /\ busy[p].probes = 0
  <2>1. breakers[p] \in Breaker /\ busy[p] \in BusyState  BY DEF ShapeInv, HealthOK
  <2>2. breakers[p].inFlight \in Nat /\ busy[p].probes \in Nat
    BY <2>1, FailoverAssumption DEF Breaker, BusyState
  <2> QED  BY <1>2, <2>2, FS_EmptySet DEF PermitInv
<1>4. dead[p] = 0 /\ LiveKeys(p) # {}
  <2>1. NumKeys[p] \in Nat \ {0}  BY FailoverAssumption
  <2>2. 0 \in Keys(p)  BY <2>1 DEF Keys
  <2> QED  BY <2>2 DEF Quiet
<1>5. PeekAllow(breakers[p]).allowed
  <2>1. Enabled => ~ProbesFull(breakers[p])
    BY <1>3, BreakerConfigAssumption DEF Enabled, ProbesFull
  <2>2. ~(breakers[p].state = "open" /\ ~TimeoutElapsed(breakers[p]))  BY DEF Quiet
  <2> QED  BY <2>1, <2>2 DEF PeekAllow, Granted
<1> QED  BY <1>3, <1>4, <1>5 DEF Available

(***************************************************************************)
(* With nobody in flight and every cooldown over, every provider can be    *)
(* routed to again and counts no recovery probe, whatever interleaving of  *)
(* attempts, cancellations, inline waits and failures led there, except    *)
(* one whose permit or probe an attempt left without handing back.         *)
(***************************************************************************)
THEOREM QuietBringsThemBack == Spec => []QuietMeansRecovered
<1>1. ShapeInv /\ PermitInv => QuietMeansRecovered
  BY QuietFrees DEF QuietMeansRecovered
<1>2. Spec => [](ShapeInv /\ PermitInv)
  BY InitShape, NextShape, InitPermits, NextPermits, PTL DEF Spec
<1> QED  BY <1>1, <1>2, PTL
=============================================================================
