------------------------------ MODULE Failover ------------------------------
(***************************************************************************)
(* The failover engine of one client group (internal/proxy): concurrent    *)
(* requests walk the providers of a ClientProxy, each step reading and     *)
(* writing the health state the others see: deactivations of providers and *)
(* keys, busy backoff with its recovery probes, circuit breakers and the   *)
(* routing cursors.                                                        *)
(*                                                                         *)
(* A request's steps are the code between two points where it can be       *)
(* overtaken: a network wait, an inline wait, or the gap between two locks *)
(* whose reads the code keeps in local variables (active, startIndex,      *)
(* keyActive, keyStart, allow).  Durations are ticks; a deadline is the    *)
(* time left until it, so an expired one is 0.                             *)
(***************************************************************************)
EXTENDS CircuitBreaker, FiniteSets, Sequences

CONSTANTS
    NumProviders,     \* enabled providers in priority order, indexed from 0
    NumKeys,          \* [Providers -> keys of that provider, at least 1]
    Requests,
    Scopes,           \* routing scopes in use
    ScopeOf,          \* [Requests -> Scopes]
    Capable,          \* [Requests -> providers supporting the capability]
    HintsOf,          \* [Requests -> what sticky lookup may answer: NoHint or <<provider, key>>]
    ReactivateAfter,  \* reactivate_after
    Cooldowns,        \* Retry-After values an upstream may send, 0 = none
    BusyDelays,       \* routing.busy_backpressure.retry_delays
    MaxInlineWait,    \* routing.busy_backpressure.max_inline_wait
    BusyProbeMax,     \* routing.busy_backpressure.probe_max_inflight
    SendsOf,          \* bound: [Requests -> how often the client sends]
    Leavers           \* bound: the clients that may go away mid-request

Providers == 0..NumProviders - 1
Keys(p)   == 0..NumKeys[p] - 1
NoHint    == <<>>
None      == -1

MaxOf(a, b) == IF a > b THEN a ELSE b
MinOf(a, b) == IF a < b THEN a ELSE b

ASSUME FailoverAssumption ==
    /\ NumProviders \in Nat \ {0}
    /\ NumKeys \in [Providers -> Nat \ {0}]
    /\ IsFiniteSet(Requests)
    /\ ScopeOf \in [Requests -> Scopes]
    /\ Capable \in [Requests -> SUBSET Providers]
    /\ \A r \in Requests : \A h \in HintsOf[r] :
           h = NoHint \/ (h[1] \in Providers /\ h[2] \in Keys(h[1]))
    /\ ReactivateAfter \in Nat \ {0}
    /\ Cooldowns \subseteq Nat
    /\ BusyDelays \in Seq(Nat \ {0}) /\ BusyDelays # <<>>
    /\ MaxInlineWait \in Nat /\ BusyProbeMax \in Nat \ {0}
    /\ SendsOf \in [Requests -> Nat] /\ Leavers \subseteq Requests

VARIABLES
    dead,      \* dead[p]: time left of provider p's deactivation
    keyDead,   \* keyDead[p][k]: time left of key k's deactivation
    busy,      \* busy[p]: providerBusyState
    breakers,  \* breakers[p]: the provider's circuitBreaker
    cursor,    \* cursor[s]: the provider each routing scope points at
    keyCursor, \* keyCursor[s][p]: the key each scope points at
    req,       \* req[r]: the local variables of each request
    untried,   \* history: providers available ever since r's admission, not yet tried by r
    lost       \* history: providers whose permit or busy probe was never handed back

health == <<dead, keyDead, busy, breakers>>
vars   == <<dead, keyDead, busy, breakers, cursor, keyCursor, req, untried, lost>>

-----------------------------------------------------------------------------
(***************************************************************************)
(* Availability and cursors (failover_state.go).                           *)
(***************************************************************************)
\* isKeyDeactivatedLocked, availableKeyCountLocked.
LiveKeys(p)       == {k \in Keys(p) : keyDead[p][k] = 0}
LiveKeyCount(p)   == Cardinality(LiveKeys(p))

\* providerAvailableForRoutingLocked.
Available(p) ==
    /\ dead[p] = 0
    /\ LiveKeys(p) # {}
    /\ PeekAllow(breakers[p]).allowed \/ PeekAllow(breakers[p]).wait <= 0

AvailableTo(r) == {p \in Capable[r] : Available(p)}

\* The first of from, from + 1, ... (mod n) in S, looking at n of them.
FirstFrom(from, n, S) ==
    (from + CHOOSE d \in 0..n - 1 :
        /\ (from + d) % n \in S
        /\ \A e \in 0..d - 1 : (from + e) % n \notin S) % n

\* nextActiveKeyIndexLocked: from itself when it is live, or when none is.
NextLiveKey(p, from) ==
    IF LiveKeys(p) = {} THEN from ELSE FirstFrom(from, NumKeys[p], LiveKeys(p))

\* nextActiveIndexLocked: looks past from first; keeps from when none is active.
Active == {p \in Providers : Available(p)}
NextActive(from) ==
    IF Active = {} THEN from ELSE FirstFrom((from + 1) % NumProviders, NumProviders, Active)

\* Mutant: the waits forget the open circuits.
WaitsWithoutCircuits ==
    {dead[p] : p \in Providers}
    \union (UNION {{keyDead[p][k] : k \in Keys(p)} : p \in {q \in Providers : LiveKeys(q) = {}}})

\* timeUntilNextAvailable: the waits it takes the least of.
CircuitWaits == {PeekAllow(breakers[p]).wait : p \in Providers}
KnownWaits ==
    {dead[p] : p \in Providers}
    \union (UNION {{keyDead[p][k] : k \in Keys(p)} : p \in {q \in Providers : LiveKeys(q) = {}}})
    \union CircuitWaits

KnowsWhenBack == \E w \in KnownWaits : w > 0

-----------------------------------------------------------------------------
(***************************************************************************)
(* Requests.                                                               *)
(***************************************************************************)
\* pc: idle; body = reading the body; pick = top of the provider loop; open =
\* permit taken, keys not yet counted; wait = inside waitInline; send = top of
\* the key loop; upstream = response awaited; stream = response committed;
\* after = provider loop over; answered = response finished or client gone.
Fresh == [ pc |-> "idle", cand |-> {}, start |-> 0, preferred |-> 0, offset |-> 0,
           attempted |-> 0, at |-> None, probe |-> FALSE, keyActive |-> 0, keyStart |-> 0,
           keyOffset |-> 0, keyTried |-> 0, key |-> 0, held |-> FALSE, retried |-> FALSE,
           wait |-> 0, inline |-> FALSE, latecomer |-> FALSE, gone |-> FALSE,
           result |-> "none", sends |-> 0 ]

Answered(r, result) ==
    [Fresh EXCEPT !.pc = "answered", !.result = result, !.latecomer = req[r].latecomer,
                  !.sends = req[r].sends]

\* Back to the top of the provider loop, one provider further.
Onward(r) ==
    [req[r] EXCEPT !.pc = "pick", !.offset = @ + 1, !.at = None, !.probe = FALSE,
                   !.keyActive = 0, !.keyStart = 0, !.keyOffset = 0, !.keyTried = 0,
                   !.key = 0, !.held = FALSE, !.retried = FALSE, !.wait = 0, !.inline = FALSE]

Init ==
    /\ dead = [p \in Providers |-> 0]
    /\ keyDead = [p \in Providers |-> [k \in Keys(p) |-> 0]]
    /\ busy = [p \in Providers |-> [step |-> 0, left |-> 0, marked |-> FALSE, probes |-> 0]]
    /\ breakers = [p \in Providers |-> NewBreaker]
    /\ cursor = [s \in Scopes |-> 0]
    /\ keyCursor = [s \in Scopes |-> [p \in Providers |-> 0]]
    /\ req = [r \in Requests |-> Fresh]
    /\ untried = [r \in Requests |-> {}]
    /\ lost = {}

\* History, evaluated after the step: a provider stays in untried[r] while it is
\* available and r has not reached it; a loss lasts until the count is reset.
TrackFrom(seen, newlyLost) ==
    /\ untried' = [q \in Requests |->
           IF req'[q].result \in {"none", "failed"}
           THEN {p \in seen[q] : Available(p)' /\ p # req'[q].at}
           ELSE {}]
    /\ lost' = {p \in lost \union newlyLost : breakers'[p].inFlight > 0 \/ busy'[p].probes > 0}

Track(newlyLost) == TrackFrom(untried, newlyLost)

Set(r, local) == req' = [req EXCEPT ![r] = local]

-----------------------------------------------------------------------------
(***************************************************************************)
(* Permits, busy probes and penalties.                                     *)
(***************************************************************************)
\* releaseProviderBusyProbe, when this request holds one.
BusyReleased(r, b) ==
    IF req[r].held /\ b.probes > 0 THEN [b EXCEPT !.probes = @ - 1] ELSE b

\* The two permits of an attempt handed back together, the breaker becoming bk.
HandBack(r, bk) ==
    LET p == req[r].at IN
    /\ breakers' = [breakers EXCEPT ![p] = bk]
    /\ busy' = [busy EXCEPT ![p] = BusyReleased(r, @)]

\* shouldRecordCircuitFailure and recordCircuitFailure.
CountsAgainstBreaker(reason) == reason \in {"network", "server", "idle_timeout"}
AfterFailure(r, reason) ==
    LET b == breakers[req[r].at] IN
    IF CountsAgainstBreaker(reason) THEN RecordFailure(b, req[r].probe)
    ELSE ReleaseProbeNeutral(b, req[r].probe)
\* Mutant: an attempt that ends neutrally keeps its permit.
NeutralKept(r) == breakers[req[r].at]

\* releaseCircuitPermit.
Neutral(r) == ReleaseProbeNeutral(breakers[req[r].at], req[r].probe)

\* Mutant: a failure restarts a deactivation that is already running.
PenaltyRestarted(left, d) == IF d > 0 THEN d ELSE left

\* deactivateFor, deactivateKeyFor: the first deactivation stands.
Penalty(left, d) == IF left > 0 \/ d <= 0 THEN left ELSE d

\* nextBusyBackoff and markProviderBusy.
NextBusyStep(p) ==
    LET s == IF busy[p].marked THEN busy[p].step + 1 ELSE 0 IN MinOf(s, Len(BusyDelays) - 1)
BusyWait(p) == BusyDelays[NextBusyStep(p) + 1]
MarkedBusy(p, b) ==
    [b EXCEPT !.step = MaxOf(@, NextBusyStep(p)), !.left = MaxOf(@, BusyWait(p)), !.marked = TRUE]

\* setCurrentIndexForScope(nextIndex) of a failed attempt, read after the penalty.
MoveCursor(r, p) == cursor' = [cursor EXCEPT ![ScopeOf[r]] = NextActive(p)']

-----------------------------------------------------------------------------
(***************************************************************************)
(* Admission: reactivateExpired, getActiveCountAndStartIndexForScope.      *)
(***************************************************************************)
MaySend(r) == req[r].pc \in {"idle", "answered"} /\ req[r].sends < SendsOf[r]

\* active > 0: the cursor settles on an available provider, where the loop starts.
Admit(r) ==
    /\ MaySend(r)
    /\ AvailableTo(r) # {}
    /\ LET s == FirstFrom(cursor[ScopeOf[r]], NumProviders, AvailableTo(r)) IN
       /\ cursor' = [cursor EXCEPT ![ScopeOf[r]] = s]
       /\ Set(r, [Fresh EXCEPT !.pc = "body", !.cand = AvailableTo(r), !.start = s,
                               !.preferred = s, !.sends = req[r].sends + 1])
    /\ UNCHANGED <<dead, keyDead, busy, breakers, keyCursor>>
    /\ TrackFrom([untried EXCEPT ![r] = AvailableTo(r)], {})

\* active = 0: handleAllUnavailable, or the plain 503.
TurnAway(r) ==
    /\ MaySend(r)
    /\ AvailableTo(r) = {}
    /\ Set(r, [Fresh EXCEPT !.pc = "answered", !.sends = req[r].sends + 1,
                            !.result = IF KnowsWhenBack THEN "retryLater" ELSE "unavailable"])
    /\ UNCHANGED <<dead, keyDead, busy, breakers, cursor, keyCursor>>
    /\ Track({})

\* The body is in: sticky affinity may move the start, whatever its circuit says.
ReadBody(r, h) ==
    LET honoured == h # NoHint /\ h[1] \in Capable[r] /\ dead[h[1]] = 0 /\ LiveKeys(h[1]) # {} IN
    /\ req[r].pc = "body"
    /\ IF honoured
       THEN /\ Set(r, [req[r] EXCEPT !.pc = "pick", !.start = h[1], !.preferred = h[1]])
            /\ keyCursor' = [keyCursor EXCEPT ![ScopeOf[r]][h[1]] = h[2]]
       ELSE /\ Set(r, [req[r] EXCEPT !.pc = "pick"])
            /\ UNCHANGED keyCursor
    /\ UNCHANGED <<dead, keyDead, busy, breakers, cursor>>
    /\ Track({})

\* Too large or unreadable: 413 or 400.
RejectBody(r) ==
    /\ req[r].pc = "body"
    /\ Set(r, Answered(r, "rejected"))
    /\ UNCHANGED <<dead, keyDead, busy, breakers, cursor, keyCursor>>
    /\ Track({})

ClientLeaves(r) ==
    /\ r \in Leavers
    /\ req[r].pc \notin {"idle", "answered"}
    /\ ~req[r].gone
    /\ Set(r, [req[r] EXCEPT !.gone = TRUE])
    /\ UNCHANGED <<dead, keyDead, busy, breakers, cursor, keyCursor>>
    /\ Track({})

-----------------------------------------------------------------------------
(***************************************************************************)
(* The provider loop.                                                      *)
(***************************************************************************)
\* Mutant: the loop bound forgets that one provider was already attempted.
OneMoreProvider(r) == req[r].offset < NumProviders /\ req[r].attempted + 1 < Cardinality(req[r].cand)

MoreProviders(r) == req[r].offset < NumProviders /\ req[r].attempted < Cardinality(req[r].cand)
ThisProvider(r)  == (req[r].start + req[r].offset) % NumProviders
Usable(r, p)     == p \in Capable[r] /\ dead[p] = 0 /\ LiveKeys(p) # {}

StopAtPick(r) ==
    /\ req[r].pc = "pick" /\ MoreProviders(r) /\ req[r].gone
    /\ Set(r, Answered(r, "canceled"))
    /\ UNCHANGED <<dead, keyDead, busy, breakers, cursor, keyCursor>>
    /\ Track({})

\* Deactivated, without keys, incapable, or refused by its circuit.
SkipProvider(r) ==
    LET p == ThisProvider(r) IN
    /\ req[r].pc = "pick" /\ MoreProviders(r) /\ ~req[r].gone
    /\ ~Usable(r, p) \/ ~AllowResult(breakers[p]).allowed
    /\ Set(r, Onward(r))
    /\ breakers' = IF Usable(r, p) THEN [breakers EXCEPT ![p] = AllowState(@)] ELSE breakers
    /\ UNCHANGED <<dead, keyDead, busy, cursor, keyCursor>>
    /\ Track({})

TakePermit(r) ==
    LET p == ThisProvider(r) IN
    /\ req[r].pc = "pick" /\ MoreProviders(r) /\ ~req[r].gone
    /\ Usable(r, p) /\ AllowResult(breakers[p]).allowed
    /\ Set(r, [req[r] EXCEPT !.pc = "open", !.at = p,
                             !.probe = AllowResult(breakers[p]).usedProbe])
    /\ breakers' = [breakers EXCEPT ![p] = AllowState(@)]
    /\ UNCHANGED <<dead, keyDead, busy, cursor, keyCursor>>
    /\ Track({})

\* getActiveKeyCountAndStartIndexForScope found none: the permit goes back.
NoKeyLeft(r) ==
    LET p == req[r].at IN
    /\ req[r].pc = "open" /\ LiveKeys(p) = {}
    /\ breakers' = [breakers EXCEPT ![p] = Neutral(r)]
    /\ Set(r, Onward(r))
    /\ UNCHANGED <<dead, keyDead, busy, cursor, keyCursor>>
    /\ Track({})

\* The provider counts as attempted; a busy one is waited for only when it is the
\* preferred provider and the wait is short enough, and is passed over otherwise.
OpenProvider(r) ==
    LET p == req[r].at
        k == NextLiveKey(p, keyCursor[ScopeOf[r]][p])
        opened == [req[r] EXCEPT !.attempted = @ + 1, !.latecomer = @ \/ p \notin req[r].cand,
                                 !.keyActive = LiveKeyCount(p), !.keyStart = k]
        tooBusy == busy[p].left > 0 /\ (p # req[r].preferred \/ busy[p].left > MaxInlineWait)
    IN
    /\ req[r].pc = "open" /\ LiveKeys(p) # {}
    /\ keyCursor' = [keyCursor EXCEPT ![ScopeOf[r]][p] = k]
    /\ breakers' = IF tooBusy THEN [breakers EXCEPT ![p] = Neutral(r)] ELSE breakers
    /\ Set(r, IF tooBusy THEN [Onward(r) EXCEPT !.attempted = @ + 1,
                                                !.latecomer = opened.latecomer]
              ELSE IF busy[p].left > 0
              THEN [opened EXCEPT !.pc = "wait", !.wait = busy[p].left]
              ELSE [opened EXCEPT !.pc = "send"])
    /\ UNCHANGED <<dead, keyDead, busy, cursor>>
    /\ Track({})

\* The inline wait is over and a recovery probe is free: (re)start the key loop.
ProbeBusy(r) ==
    LET p == req[r].at IN
    /\ req[r].pc = "wait" /\ req[r].wait = 0 /\ busy[p].probes < BusyProbeMax
    /\ busy' = [busy EXCEPT ![p].probes = @ + 1]
    /\ Set(r, [req[r] EXCEPT !.pc = "send", !.held = TRUE, !.retried = TRUE,
                             !.keyOffset = 0, !.keyTried = 0])
    /\ UNCHANGED <<dead, keyDead, breakers, cursor, keyCursor>>
    /\ Track({})

\* No probe free: on to the next provider.  After a busy answer (inline) the
\* permit was already handed back and the cursor moves on.
OverflowBusy(r, p) ==
    /\ req[r].at = p
    /\ req[r].pc = "wait" /\ req[r].wait = 0 /\ busy[p].probes >= BusyProbeMax
    /\ breakers' = IF req[r].inline THEN breakers ELSE [breakers EXCEPT ![p] = Neutral(r)]
    /\ Set(r, Onward(r))
    /\ UNCHANGED <<dead, keyDead, busy, keyCursor>>
    /\ IF req[r].inline THEN MoveCursor(r, p) ELSE UNCHANGED cursor
    /\ Track({})

WaitCancelled(r) ==
    LET p == req[r].at IN
    /\ req[r].pc = "wait" /\ req[r].gone
    /\ breakers' = IF req[r].inline THEN breakers ELSE [breakers EXCEPT ![p] = Neutral(r)]
    /\ Set(r, Answered(r, "canceled"))
    /\ UNCHANGED <<dead, keyDead, busy, cursor, keyCursor>>
    /\ Track({})

\* No provider is left to try: Retry-After when every one is down, else a plain 503.
GiveUp(r) ==
    /\ req[r].pc = "pick" /\ ~MoreProviders(r)
    /\ Set(r, Answered(r, IF (\A p \in Providers : ~Available(p)) /\ KnowsWhenBack
                          THEN "retryLater" ELSE "failed"))
    /\ UNCHANGED <<dead, keyDead, busy, breakers, cursor, keyCursor>>
    /\ Track({})

-----------------------------------------------------------------------------
(***************************************************************************)
(* The key loop.                                                           *)
(***************************************************************************)
\* Key offsets still to look at whose key is live now.
NextOffsets(r) ==
    LET p == req[r].at IN
    IF req[r].keyTried >= req[r].keyActive THEN {}
    ELSE {j \in req[r].keyOffset..NumKeys[p] - 1 : (req[r].keyStart + j) % NumKeys[p] \in LiveKeys(p)}

SendWithKey(r) ==
    LET p == req[r].at
        j == CHOOSE i \in NextOffsets(r) : \A o \in NextOffsets(r) : i <= o IN
    /\ req[r].pc = "send" /\ NextOffsets(r) # {}
    /\ Set(r, [req[r] EXCEPT !.pc = "upstream", !.key = (req[r].keyStart + j) % NumKeys[p],
                             !.keyOffset = j + 1, !.keyTried = @ + 1])
    /\ UNCHANGED <<dead, keyDead, busy, breakers, cursor, keyCursor>>
    /\ Track({})

\* The key loop ran out although keys are left: neither providerFailed nor
\* keyExhausted is set, and nothing hands back the permit or the busy probe.
KeysSpent(r) ==
    /\ req[r].pc = "send" /\ NextOffsets(r) = {}
    /\ Set(r, Onward(r))
    /\ UNCHANGED <<dead, keyDead, busy, breakers, cursor, keyCursor>>
    /\ Track(IF (req[r].probe /\ ~req[r].inline) \/ req[r].held THEN {req[r].at} ELSE {})

\* The request could not be built (no OAuth token, bad URL).
Unbuilt(r) ==
    /\ req[r].pc = "upstream"
    /\ HandBack(r, Neutral(r))
    /\ Set(r, Onward(r))
    /\ UNCHANGED <<dead, keyDead, cursor, keyCursor>>
    /\ Track({})

\* No response, or none of its body: connection refused, reset, idle timeout.
UpstreamBreaks(r, p) ==
    /\ req[r].at = p
    /\ req[r].pc = "upstream" /\ ~req[r].gone
    /\ HandBack(r, AfterFailure(r, "network"))
    /\ Set(r, Onward(r))
    /\ UNCHANGED <<dead, keyDead, keyCursor>>
    /\ MoveCursor(r, p)
    /\ Track({})

UpstreamCancelled(r) ==
    /\ req[r].pc = "upstream" /\ req[r].gone
    /\ HandBack(r, Neutral(r))
    /\ Set(r, Answered(r, "canceled"))
    /\ UNCHANGED <<dead, keyDead, cursor, keyCursor>>
    /\ Track({})

\* 429 with a concurrency signal and a short Retry-After: failureBusyRetry.
BusyAnswer(r, p) ==
    LET again == p = req[r].preferred /\ ~req[r].retried /\ BusyWait(p) <= MaxInlineWait IN
    /\ req[r].at = p
    /\ req[r].pc = "upstream"
    /\ breakers' = [breakers EXCEPT ![p] = Neutral(r)]
    /\ busy' = [busy EXCEPT ![p] = MarkedBusy(p, BusyReleased(r, @))]
    /\ Set(r, IF again THEN [req[r] EXCEPT !.pc = "wait", !.wait = BusyWait(p), !.inline = TRUE,
                                           !.held = FALSE]
              ELSE Onward(r))
    /\ UNCHANGED <<dead, keyDead, keyCursor>>
    /\ IF again THEN UNCHANGED cursor ELSE MoveCursor(r, p)
    /\ Track({})

\* isKeyScopedFailure: auth, billing, quota, rate_limit, overloaded, with the
\* duration keyFailureDuration gives it (0: a 429 without a cooldown).  While a
\* key is live the next one is tried on the same permit.
KeyFails(r, p, k, d) ==
    LET s == ScopeOf[r] IN
    /\ req[r].at = p /\ req[r].key = k
    /\ req[r].pc = "upstream"
    /\ keyDead' = [keyDead EXCEPT ![p][k] = Penalty(@, d)]
    /\ UNCHANGED <<dead, busy, breakers, cursor>>
    /\ LiveKeys(p)' # {}
    /\ keyCursor' = [z \in Scopes |-> [keyCursor[z] EXCEPT
           ![p] = IF z = s \/ (keyDead[p][k] # keyDead'[p][k] /\ @ = k)
                  THEN NextLiveKey(p, k)' ELSE @]]
    /\ Set(r, [req[r] EXCEPT !.pc = "send"])
    /\ Track({})

\* The last live key failed: the provider is deactivated for as long, its permit
\* goes back without counting against the circuit, its busy probe does not.
LastKeyFails(r, p, k, d) ==
    LET s == ScopeOf[r] IN
    /\ req[r].at = p /\ req[r].key = k
    /\ req[r].pc = "upstream"
    /\ keyDead' = [keyDead EXCEPT ![p][k] = Penalty(@, d)]
    /\ LiveKeys(p)' = {}
    /\ dead' = [dead EXCEPT ![p] = Penalty(@, d)]
    /\ breakers' = [breakers EXCEPT ![p] = AfterFailure(r, "rate_limit")]
    /\ cursor' = [z \in Scopes |->
           IF z = s \/ (dead[p] # dead'[p] /\ cursor[z] = p) THEN NextActive(p)' ELSE cursor[z]]
    /\ Set(r, Onward(r))
    /\ UNCHANGED <<busy, keyCursor>>
    /\ Track(IF req[r].held THEN {p} ELSE {})

\* 408, 5xx: counts against the circuit, and cools the provider down when the
\* upstream said for how long; here too a held busy probe is not handed back.
ServerFails(r, p, c) ==
    LET s == ScopeOf[r] IN
    /\ req[r].at = p
    /\ req[r].pc = "upstream"
    /\ breakers' = [breakers EXCEPT ![p] = AfterFailure(r, "server")]
    /\ dead' = [dead EXCEPT ![p] = Penalty(@, c)]
    /\ UNCHANGED <<keyDead, busy, keyCursor>>
    /\ cursor' = [z \in Scopes |->
           IF z = s \/ (dead[p] # dead'[p] /\ cursor[z] = p) THEN NextActive(p)' ELSE cursor[z]]
    /\ Set(r, Onward(r))
    /\ Track(IF req[r].held THEN {p} ELSE {})

\* First bytes, or an empty body: committed to this provider and key (onCommit).
Commit(r) ==
    LET p == req[r].at IN
    /\ req[r].pc = "upstream"
    /\ cursor' = [cursor EXCEPT ![ScopeOf[r]] = p]
    /\ keyCursor' = [keyCursor EXCEPT ![ScopeOf[r]][p] = req[r].key]
    /\ Set(r, [req[r] EXCEPT !.pc = "stream"])
    /\ UNCHANGED <<dead, keyDead, busy, breakers>>
    /\ Track({})

\* Complete (or not a stream): onSuccess clears the busy state, recordCircuitSuccess.
StreamSucceeds(r) ==
    LET p == req[r].at IN
    /\ req[r].pc = "stream"
    /\ busy' = [busy EXCEPT ![p] = [step |-> 0, left |-> 0, marked |-> FALSE, probes |-> 0]]
    /\ breakers' = [breakers EXCEPT ![p] = RecordSuccess(@, req[r].probe)]
    /\ Set(r, Answered(r, "delivered"))
    /\ UNCHANGED <<dead, keyDead, cursor, keyCursor>>
    /\ Track({})

\* EOF before the terminal event, or a terminal event that reports a failure.
StreamInconclusive(r) ==
    /\ req[r].pc = "stream"
    /\ HandBack(r, AfterFailure(r, "protocol_incomplete"))
    /\ Set(r, Answered(r, "inconclusive"))
    /\ UNCHANGED <<dead, keyDead, cursor, keyCursor>>
    /\ Track({})

StreamBreaks(r) ==
    /\ req[r].pc = "stream" /\ ~req[r].gone
    /\ HandBack(r, AfterFailure(r, "idle_timeout"))
    /\ Set(r, Answered(r, "partial"))
    /\ UNCHANGED <<dead, keyDead, cursor, keyCursor>>
    /\ Track({})

StreamCancelled(r) ==
    /\ req[r].pc = "stream" /\ req[r].gone
    /\ HandBack(r, Neutral(r))
    /\ Set(r, Answered(r, "canceled"))
    /\ UNCHANGED <<dead, keyDead, cursor, keyCursor>>
    /\ Track({})

-----------------------------------------------------------------------------
Less(n) == MaxOf(n - 1, 0)

\* One tick: every deadline comes one closer.
Tick ==
    /\ dead' = [p \in Providers |-> Less(dead[p])]
    /\ keyDead' = [p \in Providers |-> [k \in Keys(p) |-> Less(keyDead[p][k])]]
    /\ busy' = [p \in Providers |-> [busy[p] EXCEPT !.left = Less(@)]]
    /\ breakers' = [p \in Providers |-> Aged(breakers[p])]
    /\ req' = [r \in Requests |-> [req[r] EXCEPT !.wait = Less(@)]]
    /\ <<dead, keyDead, busy, breakers, req>> # <<dead', keyDead', busy', breakers', req'>>
    /\ UNCHANGED <<cursor, keyCursor, lost>>
    /\ untried' = untried

Walk(r) ==
    \/ StopAtPick(r) \/ SkipProvider(r) \/ TakePermit(r) \/ NoKeyLeft(r) \/ OpenProvider(r)
    \/ ProbeBusy(r) \/ (\E p \in Providers : OverflowBusy(r, p)) \/ WaitCancelled(r) \/ GiveUp(r)
    \/ SendWithKey(r) \/ KeysSpent(r)

Penalties == {ReactivateAfter} \union Cooldowns

Answer(r) ==
    \/ \E p \in Providers :
        \/ UpstreamBreaks(r, p) \/ BusyAnswer(r, p)
        \/ \E k \in Keys(p), d \in Penalties : KeyFails(r, p, k, d) \/ LastKeyFails(r, p, k, d)
        \/ \E c \in Cooldowns : ServerFails(r, p, c)
    \/ Unbuilt(r) \/ UpstreamCancelled(r) \/ Commit(r)
    \/ StreamSucceeds(r) \/ StreamInconclusive(r) \/ StreamBreaks(r) \/ StreamCancelled(r)

Read(r) == (\E h \in HintsOf[r] : ReadBody(r, h)) \/ RejectBody(r)

\* Nothing left to do, as opposed to a request stuck half way.
Finished ==
    /\ \A r \in Requests : req[r].pc \in {"idle", "answered"} /\ req[r].sends = SendsOf[r]
    /\ UNCHANGED vars

Next ==
    \/ \E r \in Requests : Admit(r) \/ TurnAway(r) \/ ClientLeaves(r)
    \/ \E r \in Requests : Read(r) \/ Walk(r) \/ Answer(r)
    \/ Tick
    \/ Finished

Spec == Init /\ [][Next]_vars

-----------------------------------------------------------------------------
Loop    == {"pick", "open", "wait", "send", "upstream", "stream"}
Request == [ pc : {"idle", "body", "answered"} \union Loop, cand : SUBSET Providers,
             start : Providers, preferred : Providers, offset : 0..NumProviders,
             attempted : Nat, at : Providers \union {None}, probe : BOOLEAN,
             keyActive : Nat, keyStart : Nat, keyOffset : Nat, keyTried : Nat, key : Nat,
             held : BOOLEAN, retried : BOOLEAN, wait : Nat, inline : BOOLEAN,
             latecomer : BOOLEAN, gone : BOOLEAN, sends : Nat,
             result : {"none", "retryLater", "unavailable", "rejected", "canceled", "failed",
                       "delivered", "inconclusive", "partial"} ]
BusyState == [ step : 0..Len(BusyDelays) - 1, left : Nat, marked : BOOLEAN,
               probes : 0..BusyProbeMax ]

TypeOK ==
    /\ dead \in [Providers -> Nat]
    /\ DOMAIN keyDead = Providers /\ \A p \in Providers : keyDead[p] \in [Keys(p) -> Nat]
    /\ busy \in [Providers -> BusyState]
    /\ breakers \in [Providers -> Breaker]
    /\ cursor \in [Scopes -> Providers]
    /\ keyCursor \in [Scopes -> [Providers -> Nat]]
    /\ \A s \in Scopes, p \in Providers : keyCursor[s][p] \in Keys(p)
    /\ req \in [Requests -> Request]
    /\ untried \in [Requests -> SUBSET Providers]
    /\ lost \subseteq Providers

\* A client group with no provider available always knows when one comes back,
\* so a request turned away carries a Retry-After (handleAllUnavailable).
NoDeadEnd == (\A p \in Providers : ~Available(p)) => KnowsWhenBack

\* A request gives up with "All providers failed" only after it tried every
\* provider that stayed available since its admission, unless a provider that
\* was not available at its admission took the place of one that was.
GivesUpLast == \A r \in Requests :
    (req[r].result = "failed" /\ ~req[r].latecomer) => untried[r] = {}

\* Nobody is in flight and every deadline has passed.
Quiet ==
    /\ \A r \in Requests : req[r].pc \in {"idle", "answered"}
    /\ \A p \in Providers :
        /\ dead[p] = 0 /\ LiveKeys(p) = Keys(p)
        /\ breakers[p].state = "open" => TimeoutElapsed(breakers[p])

\* When nobody is in flight and every cooldown is over, every provider can be
\* routed to again and no recovery probe is counted, except where an attempt
\* left without handing back its permit or probe.
QuietMeansRecovered ==
    Quiet => \A p \in Providers \ lost : Available(p) /\ busy[p].probes = 0

\* docs/en/routing-and-failover.md:69 "Temporarily skipped providers come back",
\* :89 "after open_timeout, the provider moves to half_open": with nobody in
\* flight and every cooldown over, every provider can be routed to again.
SkippedProvidersComeBack == Quiet => \A p \in Providers : Available(p)

\* A running deactivation of a provider or key is neither restarted nor cut
\* short by the other requests that keep failing on it: only time shortens it.
PenaltyStands ==
    [][\A p \in Providers :
        /\ dead[p] > 0 => dead'[p] \in {dead[p], dead[p] - 1}
        /\ \A k \in Keys(p) : keyDead[p][k] > 0 => keyDead'[p][k] \in {keyDead[p][k], keyDead[p][k] - 1}]_vars
=============================================================================
