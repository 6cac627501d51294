------------------------ MODULE BreakerClientsProofs ------------------------
(***************************************************************************)
(* For every set of requests and every circuit_breaker configuration: the  *)
(* breaker's count of probes is never above the requests that hold one, is *)
(* exact until some request frees a slot it does not own, and the          *)
(* read-only availability test agrees with the admission that follows it.  *)
(***************************************************************************)
EXTENDS BreakerClients, FiniteSetTheorems, TLAPS

\* A breaker the operators can leave behind.
WellFormed(b) ==
    /\ b \in Breaker
    /\ b.state # "halfOpen" => b.inFlight = 0
    /\ b.state = "open" => b.openAge # NeverOpened
    /\ b.state # "closed" => Enabled
    /\ b.inFlight <= HalfOpenMaxInFlight

\* What handing back a permit does to the probe count of the current period.
HandedBack(b, usedProbe, c) ==
    c.state = "halfOpen" =>
        /\ b.state = "halfOpen"
        /\ c.inFlight = IF usedProbe /\ b.inFlight > 0 THEN b.inFlight - 1 ELSE b.inFlight

IInv ==
    /\ TypeOK
    /\ WellFormed(breaker)
    /\ breaker.state # "halfOpen" => CurrentProbes = {} /\ ~strayed
    /\ NoPhantomProbe
    /\ (breaker.state = "halfOpen" /\ ~strayed) => breaker.inFlight = Cardinality(CurrentProbes)

-----------------------------------------------------------------------------
\* A returned slot keeps the record well formed and never drops below zero.
LEMMA SlotReturnedFacts ==
    ASSUME NEW b, WellFormed(b), NEW u \in BOOLEAN
    PROVE  /\ WellFormed(SlotReturned(b, u))
           /\ HandedBack(b, u, SlotReturned(b, u))
           /\ SlotReturned(b, u).state = b.state
  BY BreakerConfigAssumption DEF WellFormed, SlotReturned, HandedBack, Breaker, NeverOpened, Timeout

\* The all-zero closed breaker and a freshly opened one are well formed.
LEMMA FreshFacts ==
    /\ WellFormed(NewBreaker)
    /\ \A b : Enabled => WellFormed(Opened(b))
  BY BreakerConfigAssumption
  DEF WellFormed, NewBreaker, Opened, Breaker, Timeout, NeverOpened, Enabled

\* recordSuccess keeps a breaker well formed and hands back at most one slot.
LEMMA RecordSuccessFacts ==
    ASSUME NEW b, WellFormed(b), NEW u \in BOOLEAN
    PROVE  /\ WellFormed(RecordSuccess(b, u))
           /\ HandedBack(b, u, RecordSuccess(b, u))
<1> DEFINE s == SlotReturned(b, u)
           c == [s EXCEPT !.failures = 0]
<1>1. WellFormed(s) /\ HandedBack(b, u, s) /\ s.state = b.state
  BY SlotReturnedFacts
<1>2. WellFormed(c) /\ HandedBack(b, u, c) /\ c.state = b.state
  BY <1>1 DEF WellFormed, HandedBack, Breaker
<1>3. CASE ~Enabled
  BY <1>3 DEF RecordSuccess, HandedBack, WellFormed
<1>4. CASE Enabled /\ c.state # "halfOpen"
  <2>1. RecordSuccess(b, u) = c  BY <1>4 DEF RecordSuccess
  <2> QED  BY <2>1, <1>2
<1>5. CASE Enabled /\ c.state = "halfOpen" /\ c.successes + 1 >= SuccessThreshold
  <2>1. RecordSuccess(b, u) = NewBreaker  BY <1>5 DEF RecordSuccess
  <2> QED  BY <2>1, FreshFacts DEF HandedBack, NewBreaker
<1>6. CASE Enabled /\ c.state = "halfOpen" /\ ~(c.successes + 1 >= SuccessThreshold)
  <2>1. RecordSuccess(b, u) = [c EXCEPT !.successes = @ + 1]  BY <1>6 DEF RecordSuccess
  <2>2. c.successes \in Nat  BY <1>2 DEF WellFormed, Breaker
  <2> HIDE DEF c
  <2> QED  BY <2>1, <2>2, <1>2 DEF HandedBack, WellFormed, Breaker
<1> QED  BY <1>3, <1>4, <1>5, <1>6

\* recordFailure likewise: it may open the circuit, which drops every count.
LEMMA RecordFailureFacts ==
    ASSUME NEW b, WellFormed(b), NEW u \in BOOLEAN
    PROVE  /\ WellFormed(RecordFailure(b, u))
           /\ HandedBack(b, u, RecordFailure(b, u))
<1> DEFINE c == SlotReturned(b, u)
<1>1. WellFormed(c) /\ HandedBack(b, u, c) /\ c.state = b.state
  BY SlotReturnedFacts
<1>2. c.state \in {"closed", "open", "halfOpen"} /\ c.failures \in Nat
  BY <1>1 DEF WellFormed, Breaker
<1>3. CASE ~Enabled
  BY <1>3 DEF RecordFailure, HandedBack, WellFormed
<1>4. CASE Enabled /\ RecordFailure(b, u) = Opened(c)
  BY <1>4, FreshFacts DEF HandedBack, Opened
<1>5. CASE RecordFailure(b, u) = c
  BY <1>5, <1>1
<1>6. CASE c.state = "closed" /\ RecordFailure(b, u) = [c EXCEPT !.failures = @ + 1]
  <2> HIDE DEF c
  <2> QED  BY <1>6, <1>1, <1>2 DEF HandedBack, WellFormed, Breaker
<1>7. Enabled => \/ RecordFailure(b, u) = c
                 \/ RecordFailure(b, u) = Opened(c)
                 \/ c.state = "closed" /\ RecordFailure(b, u) = [c EXCEPT !.failures = @ + 1]
  <2> HIDE DEF c
  <2>1. ASSUME Enabled
        PROVE RecordFailure(b, u) =
                 CASE c.state = "open"     -> c
                   [] c.state = "halfOpen" -> Opened(c)
                   [] c.state = "closed"   -> IF c.failures + 1 >= FailureThreshold
                                              THEN Opened(c)
                                              ELSE [c EXCEPT !.failures = @ + 1]
    BY <2>1 DEF RecordFailure, c
  <2> QED  BY <2>1, <1>2
<1> QED  BY <1>3, <1>4, <1>5, <1>6, <1>7

-----------------------------------------------------------------------------
\* Handing a permit back, whatever the breaker makes of it, keeps the invariant.
LEMMA ReturnKeepsInvariant ==
    ASSUME IInv, NEW r \in Requests, NEW s \in {"none", "plain", "returned"}, NEW c,
           WellFormed(c), HandedBack(breaker, UsedProbe(r), c), Return(r, s, c)
    PROVE  IInv'
<1> USE DEF Return
<1>1. slot' \in [Requests -> Slots] /\ breaker' = c
      /\ strayed' \in BOOLEAN /\ healthy' \in BOOLEAN
  BY DEF IInv, TypeOK, SlotsAfter, Slots
<1>2. TypeOK' /\ WellFormed(breaker')
  BY <1>1 DEF TypeOK, WellFormed
<1>3. CASE c.state # "halfOpen"
  <2>1. CurrentProbes' = {}
    BY <1>1, <1>3 DEF CurrentProbes, SlotsAfter
  <2>2. c.inFlight = 0 /\ ~strayed'
    BY <1>3 DEF WellFormed
  <2>3. Cardinality(CurrentProbes') = 0
    BY <2>1, FS_EmptySet
  <2>4. NoPhantomProbe'
    BY <2>2, <2>3, <1>1 DEF NoPhantomProbe
  <2> QED  BY <1>1, <1>2, <1>3, <2>1, <2>2, <2>4 DEF IInv
<1>4. CASE c.state = "halfOpen"
  <2>1. breaker.state = "halfOpen" /\ breaker.inFlight \in Nat /\ c.inFlight \in Nat
    BY <1>4 DEF HandedBack, IInv, TypeOK, Breaker, WellFormed
  <2>2. CurrentProbes' = CurrentProbes \ {r}
    BY <1>1, <1>4 DEF CurrentProbes, SlotsAfter, IInv, TypeOK, Slots
  <2>3. IsFiniteSet(CurrentProbes) /\ Cardinality(CurrentProbes) \in Nat
    BY RequestsFinite, FS_Subset, FS_CardinalityType DEF CurrentProbes
  <2>4. Cardinality(CurrentProbes') = IF r \in CurrentProbes
                                      THEN Cardinality(CurrentProbes) - 1
                                      ELSE Cardinality(CurrentProbes)
    BY <2>2, <2>3, FS_RemoveElement
  <2>5. Cardinality(CurrentProbes') \in Nat
    BY <2>2, <2>3, FS_RemoveElement, FS_CardinalityType
  <2>6. c.inFlight = IF UsedProbe(r) /\ breaker.inFlight > 0
                     THEN breaker.inFlight - 1 ELSE breaker.inFlight
    BY <1>4 DEF HandedBack
  <2>7. (r \in CurrentProbes) = (slot[r] = "current")
    BY DEF CurrentProbes
  <2>8. breaker.inFlight <= Cardinality(CurrentProbes)
    BY DEF IInv, NoPhantomProbe
  <2>9. NoPhantomProbe'
    BY <1>1, <2>1, <2>3, <2>4, <2>5, <2>6, <2>7, <2>8 DEF NoPhantomProbe, UsedProbe
  <2>10. ASSUME ~strayed'
         PROVE  c.inFlight = Cardinality(CurrentProbes')
    <3>1. ~strayed /\ ~Strays(r)
      BY <2>10, <1>4
    <3>2. breaker.inFlight = Cardinality(CurrentProbes)
      BY <3>1, <2>1 DEF IInv
    <3> QED
      BY <3>1, <3>2, <2>1, <2>3, <2>4, <2>5, <2>6, <2>7 DEF Strays, UsedProbe
  <2> QED  BY <1>1, <1>2, <1>4, <2>9, <2>10 DEF IInv
<1> QED  BY <1>3, <1>4

\* Admission: a counted probe is one more current holder.
LEMMA AcquireKeepsInvariant ==
    ASSUME IInv, NEW r \in Requests, Acquire(r)
    PROVE  IInv'
<1> DEFINE a == AllowResult(breaker)
           p == Probing(breaker)
<1>1. /\ breaker \in Breaker /\ WellFormed(breaker) /\ slot \in [Requests -> Slots]
      /\ strayed \in BOOLEAN /\ healthy \in BOOLEAN
      /\ slot[r] = "none" /\ a.allowed
  BY DEF IInv, TypeOK, Acquire, InFlight
<1>2. IsFiniteSet(CurrentProbes) /\ Cardinality(CurrentProbes) \in Nat
  BY RequestsFinite, FS_Subset, FS_CardinalityType DEF CurrentProbes
<1>3. CASE a.usedProbe
  <2>1. /\ Enabled /\ p.state = "halfOpen" /\ ~ProbesFull(p)
        /\ breaker' = [p EXCEPT !.inFlight = @ + 1]
    BY <1>1, <1>3 DEF AllowResult, Acquire, AllowState, Granted, Refused, Probing, EnterHalfOpen, Breaker
  <2>2. slot' = [slot EXCEPT ![r] = "current"] /\ strayed' = (strayed /\ breaker.state = "halfOpen")
        /\ healthy' = healthy
    BY <1>3 DEF Acquire
  <2>3. CurrentProbes' = CurrentProbes \union {r}
    BY <1>1, <2>2 DEF CurrentProbes, Slots
  <2>4. Cardinality(CurrentProbes') = Cardinality(CurrentProbes) + 1
    BY <1>1, <1>2, <2>3, FS_AddElement DEF CurrentProbes
  <2>5. CASE breaker.state = "open"
    <3>1. p = EnterHalfOpen(breaker) /\ p.inFlight = 0 /\ p \in Breaker
      BY <2>1, <2>5, <1>1 DEF Probing, EnterHalfOpen, Breaker
    <3>2. breaker'.inFlight = 1 /\ breaker'.state = "halfOpen" /\ breaker' \in Breaker
      BY <3>1, <2>1 DEF Breaker
    <3>3. Cardinality(CurrentProbes) = 0
      BY <2>5, FS_EmptySet DEF IInv
    <3>4. HalfOpenMaxInFlight >= 1 /\ HalfOpenMaxInFlight \in Nat
      BY <2>1, BreakerConfigAssumption DEF Enabled
    <3>5. WellFormed(breaker')
      BY <3>2, <3>4, <2>1 DEF WellFormed
    <3>6. TypeOK'
      BY <3>2, <2>2, <1>1 DEF TypeOK, Slots
    <3> QED  BY <3>2, <3>3, <3>5, <3>6, <2>4 DEF IInv, NoPhantomProbe
  <2>6. CASE breaker.state # "open"
    <3>1. p = breaker /\ breaker.state = "halfOpen"
      BY <2>1, <2>6 DEF Probing
    <3>2. /\ breaker'.inFlight = breaker.inFlight + 1 /\ breaker'.state = "halfOpen"
          /\ breaker' \in Breaker /\ breaker.inFlight \in Nat
      BY <3>1, <2>1, <1>1 DEF Breaker
    <3>3. breaker'.inFlight <= HalfOpenMaxInFlight
      BY <3>1, <3>2, <2>1, BreakerConfigAssumption DEF ProbesFull
    <3>4. WellFormed(breaker')
      BY <3>2, <3>3, <2>1 DEF WellFormed
    <3>5. TypeOK'
      BY <3>2, <2>2, <1>1 DEF TypeOK, Slots
    <3>6. breaker.inFlight <= Cardinality(CurrentProbes)
          /\ (~strayed => breaker.inFlight = Cardinality(CurrentProbes))
      BY <3>1 DEF IInv, NoPhantomProbe
    <3>7. NoPhantomProbe'
      BY <3>2, <3>6, <2>4, <1>2 DEF NoPhantomProbe
    <3>8. ~strayed' => ~strayed
      BY <3>1, <2>2
    <3>9. ~strayed' => breaker'.inFlight = Cardinality(CurrentProbes')
      BY <3>2, <3>6, <3>8, <2>4
    <3> QED  BY <3>2, <3>4, <3>5, <3>7, <3>9 DEF IInv
  <2> QED  BY <2>5, <2>6
<1>4. CASE ~a.usedProbe
  <2>1. ~Enabled \/ breaker.state = "closed"
    BY <1>1, <1>4 DEF AllowResult, Granted, Refused
  <2>2. breaker.state = "closed"
    BY <2>1, <1>1 DEF WellFormed
  <2>3. breaker' = breaker
    BY <2>2, <1>4 DEF Acquire, AllowState, Probing
  <2>4. slot' = [slot EXCEPT ![r] = "plain"] /\ strayed' = FALSE /\ healthy' = healthy
    BY <1>4, <2>2 DEF Acquire
  <2>5. CurrentProbes' = CurrentProbes
    BY <1>1, <2>4 DEF CurrentProbes, Slots
  <2>6. TypeOK'
    BY <2>3, <2>4, <1>1 DEF TypeOK, Slots
  <2> QED  BY <2>2, <2>3, <2>4, <2>5, <2>6 DEF IInv, NoPhantomProbe
<1> QED  BY <1>3, <1>4

\* Time only raises the age of the opening.
LEMMA AgedFacts ==
    ASSUME NEW b, WellFormed(b)
    PROVE  /\ WellFormed(Aged(b))
           /\ Aged(b).state = b.state /\ Aged(b).inFlight = b.inFlight
  BY BreakerConfigAssumption DEF WellFormed, Aged, Breaker, NeverOpened, Timeout

LEMMA InitIInv == Init => IInv
<1> SUFFICES ASSUME Init PROVE IInv  OBVIOUS
<1>1. CurrentProbes = {}  BY DEF Init, CurrentProbes
<1>2. Cardinality(CurrentProbes) = 0  BY <1>1, FS_EmptySet
<1>3. WellFormed(breaker) /\ breaker.inFlight = 0 /\ breaker.state = "closed"
  BY FreshFacts DEF Init, NewBreaker
<1>4. TypeOK  BY <1>3 DEF Init, TypeOK, Slots, WellFormed
<1> QED  BY <1>1, <1>2, <1>3, <1>4 DEF IInv, NoPhantomProbe, Init

LEMMA NextIInv == IInv /\ [Next]_vars => IInv'
<1> SUFFICES ASSUME IInv, [Next]_vars PROVE IInv'  OBVIOUS
<1>0. WellFormed(breaker)  BY DEF IInv
<1>1. ASSUME NEW r \in Requests, Acquire(r) PROVE IInv'
  BY <1>1, AcquireKeepsInvariant
<1>2. ASSUME NEW r \in Requests, Succeed(r) PROVE IInv'
  <2>1. UsedProbe(r) \in BOOLEAN  BY DEF UsedProbe
  <2>2. /\ WellFormed(RecordSuccess(breaker, UsedProbe(r)))
        /\ HandedBack(breaker, UsedProbe(r), RecordSuccess(breaker, UsedProbe(r)))
    BY <1>0, <2>1, RecordSuccessFacts
  <2>3. Return(r, "none", RecordSuccess(breaker, UsedProbe(r)))  BY <1>2 DEF Succeed
  <2> QED  BY <2>2, <2>3, ReturnKeepsInvariant
<1>3. ASSUME NEW r \in Requests, Fail(r) PROVE IInv'
  <2>1. UsedProbe(r) \in BOOLEAN  BY DEF UsedProbe
  <2>2. /\ WellFormed(RecordFailure(breaker, UsedProbe(r)))
        /\ HandedBack(breaker, UsedProbe(r), RecordFailure(breaker, UsedProbe(r)))
    BY <1>0, <2>1, RecordFailureFacts
  <2>3. Return(r, "none", RecordFailure(breaker, UsedProbe(r)))  BY <1>3 DEF Fail
  <2> QED  BY <2>2, <2>3, ReturnKeepsInvariant
<1>4. ASSUME NEW r \in Requests, NEW s \in {"none", "plain", "returned"},
             Return(r, s, ReleaseProbeNeutral(breaker, UsedProbe(r)))
      PROVE IInv'
  <2>1. UsedProbe(r) \in BOOLEAN  BY DEF UsedProbe
  <2>2. /\ WellFormed(ReleaseProbeNeutral(breaker, UsedProbe(r)))
        /\ HandedBack(breaker, UsedProbe(r), ReleaseProbeNeutral(breaker, UsedProbe(r)))
    BY <1>0, <2>1, SlotReturnedFacts DEF ReleaseProbeNeutral
  <2> QED  BY <1>4, <2>2, ReturnKeepsInvariant
<1>5. ASSUME NEW r \in Requests, Release(r) \/ BusyRetry(r) PROVE IInv'
  <2>1. (IF UsedProbe(r) THEN "returned" ELSE "plain") \in {"none", "plain", "returned"}
    OBVIOUS
  <2> QED  BY <1>4, <1>5, <2>1 DEF Release, BusyRetry
<1>6. CASE Tick
  <2>1. breaker' = Aged(breaker) /\ slot' = slot /\ strayed' = strayed /\ healthy' = healthy
    BY <1>6 DEF Tick
  <2>2. WellFormed(breaker') /\ breaker'.state = breaker.state /\ breaker'.inFlight = breaker.inFlight
    BY <1>0, <2>1, AgedFacts
  <2>3. CurrentProbes' = CurrentProbes  BY <2>1 DEF CurrentProbes
  <2>4. TypeOK'  BY <2>1, <2>2 DEF IInv, TypeOK, WellFormed
  <2> QED  BY <2>1, <2>2, <2>3, <2>4 DEF IInv, NoPhantomProbe
<1>7. CASE Recover
  BY <1>7 DEF Recover, IInv, TypeOK, NoPhantomProbe, CurrentProbes, WellFormed
<1>8. CASE UNCHANGED vars
  BY <1>8 DEF vars, IInv, TypeOK, NoPhantomProbe, CurrentProbes, WellFormed
<1> QED  BY <1>1, <1>2, <1>3, <1>5, <1>6, <1>7, <1>8 DEF Next

LEMMA IInvHolds == Spec => []IInv
  BY InitIInv, NextIInv, PTL DEF Spec

-----------------------------------------------------------------------------
(***************************************************************************)
(* Every variable keeps its type; in particular the probe count never      *)
(* drops below zero, whatever permits are handed back twice or late.       *)
(***************************************************************************)
THEOREM TypeCorrect == Spec => []TypeOK
<1>1. IInv => TypeOK  BY DEF IInv
<1> QED  BY <1>1, IInvHolds, PTL

(***************************************************************************)
(* No number of requests, busy retries and late answers leaves the breaker *)
(* counting a probe that nobody holds.                                     *)
(***************************************************************************)
THEOREM NeverAPhantomProbe == Spec => []NoPhantomProbe
<1>1. IInv => NoPhantomProbe  BY DEF IInv
<1> QED  BY <1>1, IInvHolds, PTL

(***************************************************************************)
(* half_open_max_inflight bounds the concurrent probes of a half-open      *)
(* period in which no request freed a slot it did not own.                 *)
(***************************************************************************)
THEOREM ProbeCountExact == Spec => []ExactUnlessStrayed
<1>1. IInv => ExactUnlessStrayed  BY DEF IInv, ExactUnlessStrayed, WellFormed
<1> QED  BY <1>1, IInvHolds, PTL

(***************************************************************************)
(* Both together: halfOpenInFlight accounts for the probes in flight, so a *)
(* half-open circuit neither wedges nor, strays aside, overruns its limit. *)
(***************************************************************************)
THEOREM ProbesAlwaysAccounted == Spec => []ProbesAccounted
<1>1. NoPhantomProbe /\ ExactUnlessStrayed => ProbesAccounted  BY DEF ProbesAccounted
<1> QED  BY <1>1, NeverAPhantomProbe, ProbeCountExact, PTL

(***************************************************************************)
(* peekAllow, allow and snapshot agree in every reachable state.           *)
(***************************************************************************)
THEOREM AvailabilityIsAdmission == Spec => []PeekAgreesWithAllow
<1>1. ASSUME WellFormed(breaker) PROVE PeekAgreesWithAllow
  <2>1. breaker \in Breaker /\ HalfOpenMaxInFlight \in Nat
    BY <1>1, BreakerConfigAssumption DEF WellFormed
  <2>2. CASE ~Enabled \/ breaker.state = "closed"
    BY <2>2 DEF PeekAgreesWithAllow, PeekAllow, AllowResult, Granted, Snapshot
  <2>3. CASE Enabled /\ breaker.state = "open" /\ TimeoutElapsed(breaker)
    <3>1. ~ProbesFull(breaker) /\ ~ProbesFull(Probing(breaker))
      BY <1>1, <2>1, <2>3
      DEF WellFormed, ProbesFull, Probing, EnterHalfOpen, Enabled, Breaker
    <3>2. Probing(breaker).state = "halfOpen"
      BY <2>1, <2>3 DEF Probing, EnterHalfOpen, Breaker
    <3> QED  BY <2>3, <3>1, <3>2
             DEF PeekAgreesWithAllow, PeekAllow, AllowResult, Granted, Snapshot
  <2>4. CASE Enabled /\ breaker.state = "open" /\ ~TimeoutElapsed(breaker)
    BY <2>4 DEF PeekAgreesWithAllow, PeekAllow, AllowResult, Granted, Refused, Snapshot, Probing
  <2>5. CASE Enabled /\ breaker.state = "halfOpen"
    BY <2>5 DEF PeekAgreesWithAllow, PeekAllow, AllowResult, Granted, Refused, Snapshot, Probing
  <2> QED  BY <2>1, <2>2, <2>3, <2>4, <2>5 DEF Breaker
<1>2. IInv => PeekAgreesWithAllow  BY <1>1 DEF IInv
<1> QED  BY <1>2, IInvHolds, PTL
=============================================================================
