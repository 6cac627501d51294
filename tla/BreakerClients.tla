--------------------------- MODULE BreakerClients ---------------------------
(***************************************************************************)
(* One provider's breaker shared by the requests of a client group, with   *)
(* the permit discipline of the failover engine (internal/proxy/           *)
(* failover_forward.go, failover_stream.go): a request asks allowCircuit,  *)
(* then hands its permit back through exactly one of recordCircuitSuccess, *)
(* recordCircuitFailure and releaseCircuitPermit, except that a request    *)
(* retrying a busy provider inline releases the permit, keeps using the    *)
(* same allow result, and so hands it back a second time.  The paths that  *)
(* never hand it back are in module Failover.                              *)
(***************************************************************************)
EXTENDS CircuitBreaker, FiniteSets

CONSTANT Requests

ASSUME RequestsFinite == IsFiniteSet(Requests)

VARIABLES
    breaker,   \* the shared circuitBreaker
    slot,      \* what each request holds, see Slots
    strayed,   \* history: a slot was freed by a request that no longer owned it
    healthy    \* environment: the upstream has recovered for good

vars == <<breaker, slot, strayed, healthy>>

\* none: no attempt in flight; plain: admitted without a probe slot;
\* current: holds a slot of the half-open period the breaker is in;
\* stale: took its slot in an earlier half-open period;
\* returned: gave the slot back before an inline busy retry, still in flight.
Slots == {"none", "plain", "current", "stale", "returned"}

UsedProbe(r) == slot[r] \in {"current", "stale", "returned"}
InFlight(r)  == slot[r] # "none"
CurrentProbes == {r \in Requests : slot[r] = "current"}

Init ==
    /\ breaker = NewBreaker
    /\ slot = [r \in Requests |-> "none"]
    /\ strayed = FALSE
    /\ healthy = FALSE

\* Slots after r's becomes s and the breaker becomes b: leaving half-open turns
\* every slot of that period stale.
SlotsAfter(r, s, b) ==
    [q \in Requests |->
        LET t == IF q = r THEN s ELSE slot[q] IN
        IF t = "current" /\ b.state # "halfOpen" THEN "stale" ELSE t]

\* r frees a slot it does not own: a counted probe of some other request.
Strays(r) == slot[r] \in {"stale", "returned"} /\ breaker.inFlight > 0

Return(r, s, b) ==
    /\ breaker' = b
    /\ slot' = SlotsAfter(r, s, b)
    /\ strayed' = (b.state = "halfOpen" /\ (strayed \/ Strays(r)))
    /\ UNCHANGED healthy

\* allowCircuit, admitted.  (A refusal leaves the breaker as it was.)
Acquire(r) ==
    /\ ~InFlight(r)
    /\ AllowResult(breaker).allowed
    /\ breaker' = AllowState(breaker)
    /\ slot' = [slot EXCEPT ![r] = IF AllowResult(breaker).usedProbe THEN "current" ELSE "plain"]
    /\ strayed' = (strayed /\ breaker.state = "halfOpen")
    /\ UNCHANGED healthy

\* recordCircuitSuccess: the response was delivered complete.
Succeed(r) ==
    /\ InFlight(r)
    /\ Return(r, "none", RecordSuccess(breaker, UsedProbe(r)))

\* recordCircuitFailure with a reason that counts: network, server, idle_timeout.
Fail(r) ==
    /\ InFlight(r)
    /\ ~healthy
    /\ Return(r, "none", RecordFailure(breaker, UsedProbe(r)))

\* releaseCircuitPermit, or a reason that does not count: client gone, request
\* not built, no key, busy provider, key-scoped failure, semantic failure.
Release(r) ==
    /\ InFlight(r)
    /\ Return(r, "none", ReleaseProbeNeutral(breaker, UsedProbe(r)))

\* failureBusyRetry with an inline wait, once per attempt: released, then used again.
BusyRetry(r) ==
    /\ slot[r] \notin {"none", "returned"}
    /\ Return(r, IF UsedProbe(r) THEN "returned" ELSE "plain",
              ReleaseProbeNeutral(breaker, UsedProbe(r)))

Tick ==
    /\ Aged(breaker) # breaker
    /\ breaker' = Aged(breaker)
    /\ UNCHANGED <<slot, strayed, healthy>>

Recover ==
    /\ ~healthy
    /\ healthy' = TRUE
    /\ UNCHANGED <<breaker, slot, strayed>>

Next ==
    \/ \E r \in Requests : Acquire(r) \/ Succeed(r) \/ Fail(r) \/ Release(r) \/ BusyRetry(r)
    \/ Tick
    \/ Recover

Spec == Init /\ [][Next]_vars

(***************************************************************************)
(* Fairness: the clock runs, clients keep sending, and a request that is   *)
(* admitted again and again is not cancelled every single time.            *)
(***************************************************************************)
Fairness ==
    /\ WF_vars(Tick)
    /\ \A r \in Requests : WF_vars(Acquire(r)) /\ SF_vars(Succeed(r))

FairSpec == Spec /\ Fairness

-----------------------------------------------------------------------------
TypeOK ==
    /\ breaker \in Breaker
    /\ slot \in [Requests -> Slots]
    /\ strayed \in BOOLEAN
    /\ healthy \in BOOLEAN

\* No phantom probe: the breaker never counts more probes in flight than there
\* are requests holding a slot of the current half-open period.  A phantom
\* would keep the circuit "half-open busy" with nobody left to free it
\* (halfOpenInFlight, circuit_breaker.go:76).
NoPhantomProbe == breaker.inFlight <= Cardinality(CurrentProbes)

\* The count is exact, so half_open_max_inflight really bounds the concurrent
\* probes, until a request frees a slot it does not own (a probe of an earlier
\* half-open period, or the second hand-back after a busy retry).
ExactUnlessStrayed ==
    (breaker.state = "halfOpen" /\ ~strayed) =>
        /\ breaker.inFlight = Cardinality(CurrentProbes)
        /\ breaker.inFlight <= HalfOpenMaxInFlight

\* No slot of a half-open period is lost, and none is given twice until one is
\* freed that was not owned.
ProbesAccounted == NoPhantomProbe /\ ExactUnlessStrayed

\* The read-only availability test agrees with the admission that follows it:
\* a provider counted as available is admitted, one counted out is refused for
\* the same reason (peekAllow against allow, and the status page's snapshot).
PeekAgreesWithAllow ==
    /\ PeekAllow(breaker).allowed = AllowResult(breaker).allowed
    /\ PeekAllow(breaker).reason = AllowResult(breaker).reason
    /\ PeekAllow(breaker).wait = AllowResult(breaker).wait
    /\ Snapshot(breaker) = "open" <=> AllowResult(breaker).reason = "circuit_open"

\* Once the upstream has recovered, a circuit that opened closes again: no
\* interleaving of admissions, returns and retries wedges it.
ClosesAfterRecovery == healthy ~> (breaker.state = "closed")
=============================================================================
