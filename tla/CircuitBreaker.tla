--------------------------- MODULE CircuitBreaker ---------------------------
(***************************************************************************)
(* The per-provider circuit breaker of internal/proxy/circuit_breaker.go   *)
(* as operators over a breaker record.  Every operation of the code runs   *)
(* under the breaker's own mutex, so one operator is one critical section. *)
(*                                                                         *)
(* Time is the age of the last opening, in ticks: openAge is 0 when the    *)
(* circuit opens, grows with the clock and saturates at the open timeout   *)
(* (the code only ever compares now - openedAt with openTimeout).  The     *)
(* zero time.Time of openedAt is NeverOpened.                              *)
(***************************************************************************)
EXTENDS Integers

CONSTANTS
    FailureThreshold,     \* circuit_breaker.failure_threshold; 0 disables
    SuccessThreshold,     \* circuit_breaker.success_threshold
    OpenTimeout,          \* circuit_breaker.open_timeout, in ticks; 0 = invalid
    HalfOpenMaxInFlight,  \* circuit_breaker.half_open_max_inflight
    DefaultOpenTimeout    \* the 60s an invalid open_timeout falls back to

ASSUME BreakerConfigAssumption ==
    /\ FailureThreshold \in Nat
    /\ SuccessThreshold \in Nat
    /\ OpenTimeout \in Nat
    /\ HalfOpenMaxInFlight \in Nat
    /\ DefaultOpenTimeout \in Nat \ {0}

\* normalizeCircuitBreakerConfig: whether the breaker acts, and its timeout.
Enabled == FailureThreshold > 0 /\ SuccessThreshold > 0 /\ HalfOpenMaxInFlight > 0
Timeout == IF OpenTimeout > 0 THEN OpenTimeout ELSE DefaultOpenTimeout

NeverOpened == -1

Breaker == [ state     : {"closed", "open", "halfOpen"},
             failures  : Nat,
             successes : Nat,
             openAge   : {NeverOpened} \union 0..Timeout,
             inFlight  : Nat ]

NewBreaker == [ state |-> "closed", failures |-> 0, successes |-> 0,
                openAge |-> NeverOpened, inFlight |-> 0 ]

\* An admission decision: allowed, whether it took a probe slot, the wait the
\* caller may report (0 = none), why it was refused.
Granted(probe)       == [ allowed |-> TRUE, usedProbe |-> probe, wait |-> 0, reason |-> "" ]
Refused(wait, reason) == [ allowed |-> FALSE, usedProbe |-> FALSE, wait |-> wait, reason |-> reason ]
BusyRetryAfter        == 1
OpenWait(b)           == IF b.openAge = NeverOpened THEN Timeout ELSE Timeout - b.openAge

ProbesFull(b)     == b.inFlight >= HalfOpenMaxInFlight
TimeoutElapsed(b) == b.openAge # NeverOpened /\ b.openAge >= Timeout

\* The breaker after time, and nothing else, has passed.
Aged(b) == IF b.openAge \in 0..Timeout - 1 THEN [b EXCEPT !.openAge = @ + 1] ELSE b

(***************************************************************************)
(* peekAllow: the read-only test behind availability counts.               *)
(***************************************************************************)
PeekAllow(b) ==
    IF ~Enabled \/ b.state = "closed" THEN Granted(FALSE)
    ELSE IF b.state = "open" /\ ~TimeoutElapsed(b) THEN Refused(OpenWait(b), "circuit_open")
    ELSE IF ProbesFull(b) THEN Refused(BusyRetryAfter, "circuit_half_open_busy")
    ELSE Granted(FALSE)

(***************************************************************************)
(* allow: AllowState moves an expired open circuit to half-open and takes  *)
(* a probe slot; AllowResult is what the caller is told.                   *)
(***************************************************************************)
EnterHalfOpen(b) == [b EXCEPT !.state = "halfOpen", !.successes = 0, !.inFlight = 0]

Probing(b) == IF b.state = "open" /\ TimeoutElapsed(b) THEN EnterHalfOpen(b) ELSE b

AllowResult(b) ==
    IF ~Enabled \/ b.state = "closed" THEN Granted(FALSE)
    ELSE IF Probing(b).state = "open" THEN Refused(OpenWait(b), "circuit_open")
    ELSE IF ProbesFull(Probing(b)) THEN Refused(BusyRetryAfter, "circuit_half_open_busy")
    ELSE Granted(TRUE)

AllowState(b) ==
    IF AllowResult(b).usedProbe THEN [Probing(b) EXCEPT !.inFlight = @ + 1]
    ELSE IF Enabled THEN Probing(b) ELSE b

(***************************************************************************)
(* recordSuccess, recordFailure, releaseProbeNeutral: the three ways a     *)
(* permit comes back.                                                      *)
(***************************************************************************)
\* Mutant: a path that forgets to give the slot back.
SlotKept(b, usedProbe) == b

SlotReturned(b, usedProbe) ==
    IF usedProbe /\ b.inFlight > 0 THEN [b EXCEPT !.inFlight = @ - 1] ELSE b

\* Mutants: opening without clearing the probe count, without stamping the time.
OpenedKeepingCount(b) == [ state |-> "open", failures |-> 0, successes |-> 0,
                           openAge |-> 0, inFlight |-> b.inFlight ]
OpenedUnstamped(b) == [ state |-> "open", failures |-> 0, successes |-> 0,
                        openAge |-> NeverOpened, inFlight |-> 0 ]

Opened(b) == [ state |-> "open", failures |-> 0, successes |-> 0, openAge |-> 0, inFlight |-> 0 ]

ReleaseProbeNeutral(b, usedProbe) == SlotReturned(b, usedProbe)

RecordSuccess(b, usedProbe) ==
    LET c == [SlotReturned(b, usedProbe) EXCEPT !.failures = 0] IN
    IF ~Enabled THEN b
    ELSE IF c.state # "halfOpen" THEN c
    ELSE IF c.successes + 1 >= SuccessThreshold THEN NewBreaker
    ELSE [c EXCEPT !.successes = @ + 1]

RecordFailure(b, usedProbe) ==
    LET c == SlotReturned(b, usedProbe) IN
    IF ~Enabled THEN b
    ELSE CASE c.state = "open"     -> c
           [] c.state = "halfOpen" -> Opened(c)
           [] c.state = "closed"   -> IF c.failures + 1 >= FailureThreshold
                                      THEN Opened(c)
                                      ELSE [c EXCEPT !.failures = @ + 1]

\* snapshot: the state the status page shows.
Snapshot(b) ==
    IF ~Enabled THEN "closed"
    ELSE IF b.state = "open" /\ TimeoutElapsed(b) THEN "halfOpen"
    ELSE b.state
=============================================================================
