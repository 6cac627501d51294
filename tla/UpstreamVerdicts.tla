--------------------------- MODULE UpstreamVerdicts ---------------------------
(***************************************************************************)
(* What an upstream's refusal means: internal/proxy/failover_classify.go   *)
(* and oauth_cooldown.go, as functions of the answer.  Strings are reduced *)
(* to what they say: the code and type of an error are one of the classes  *)
(* the switch statements know, a message is the set of the phrases that    *)
(* are looked for, a google.rpc detail is one of the kinds that matter.    *)
(* Durations are numbers of one unit, 0 where the code says "no hint".     *)
(***************************************************************************)
EXTENDS Integers, Sequences, FiniteSets, TLC, FiniteSetsExt, SequencesExt

CONSTANTS MaxCooldown,        \* maxRetryAfterCooldown
          ShortBusyWait,      \* shortBusyRetryAfterMax
          MaxOAuthCooldown    \* maxOAuthRetryAfterCooldown

ASSUME VerdictAssumption ==
    /\ {MaxCooldown, ShortBusyWait, MaxOAuthCooldown} \subseteq Nat \ {0}
    /\ ShortBusyWait <= MaxCooldown /\ MaxCooldown <= MaxOAuthCooldown

\* The longest of some durations, 0 when there is none, and its limit.
Longest(durations) == Max(durations \cup {0})
AtMost(limit, d) == IF d > limit THEN limit ELSE d

Verdict(action, reason) == [action |-> action, reason |-> reason]
Deactivate(reason) == Verdict("deactivate", reason)
RetryNext(reason) == Verdict("retry next", reason)
Busy == Verdict("busy retry", "busy")
NoOpinion == Verdict("return", "")

(***************************************************************************)
(* The body of a 429: [json, rpc, code, type, says, status, details].      *)
(* rpc: the error is an object under "error", so status and details count. *)
(***************************************************************************)

SaysAuth(b) == b.code = "auth" \/ b.type = "auth" \/ "invalid api key" \in b.says
SaysQuota(b) ==
    \/ b.code = "quota" \/ b.type = "quota"
    \/ b.says \cap {"insufficient quota", "quota exhausted", "daily limit", "billing"} # {}
SaysBusy(b) == b.code = "busy" \/ b.type = "busy" \/ "concurrent" \in b.says

QuotaText(b) == b.says \cap {"quota", "insufficient quota", "quota exhausted", "daily limit"} # {}
Detailed(b, kinds) == \E i \in DOMAIN b.details : b.details[i] \in kinds

\* Mutant: the first detail with something to say decides.
GoogleVerdictFirst(b) ==
    LET known == {i \in DOMAIN b.details : b.details[i] # "quota failure"}
    IN IF ~b.rpc THEN NoOpinion
       ELSE IF b.status = "denied" THEN Deactivate("auth")
       ELSE IF known = {} THEN NoOpinion
       ELSE IF b.details[Min(known)] = "retry info" THEN RetryNext("rate_limit") ELSE Deactivate("quota")

\* A terminal quota detail decides wherever it stands; a retry hint outweighs
\* a quota that only the text speaks of.
GoogleVerdict(b) ==
    IF ~b.rpc THEN NoOpinion
    ELSE IF b.status = "denied" THEN Deactivate("auth")
    ELSE IF Detailed(b, {"quota exhausted", "terminal quota failure"}) THEN Deactivate("quota")
    ELSE IF Detailed(b, {"retry info"}) THEN RetryNext("rate_limit")
    ELSE IF Detailed(b, {"quota failure"}) /\ QuotaText(b) THEN Deactivate("quota")
    ELSE IF b.status = "exhausted" /\ b.says \cap {"quota exhausted", "daily limit"} # {} THEN Deactivate("quota")
    ELSE NoOpinion

Classify429(b) ==
    IF ~b.json THEN RetryNext("rate_limit")
    ELSE IF SaysAuth(b) THEN Deactivate("auth")
    ELSE IF GoogleVerdict(b) # NoOpinion THEN GoogleVerdict(b)
    ELSE IF SaysQuota(b) THEN Deactivate("quota")
    ELSE IF SaysBusy(b) THEN Busy
    ELSE IF b.type = "overloaded" THEN RetryNext("overloaded")
    ELSE RetryNext("rate_limit")

(***************************************************************************)
(* The whole answer: [status, body, hints], hints being the durations of   *)
(* the Retry-After and X-RateLimit-Reset headers.                          *)
(***************************************************************************)

RetryAfter(hints) == AtMost(MaxCooldown, Longest(hints))
ServerTrouble == {408, 500, 502, 503, 504, 529}

With(verdict, cooldown) == verdict @@ [cooldown |-> cooldown]

\* A busy answer is waited for only when it names a short time.
ClassifyFailure(status, body, hints) ==
    LET wait == RetryAfter(hints)
        verdict == Classify429(body)
    IN IF status \in {401, 403} THEN With(Deactivate("auth"), 0)
       ELSE IF status = 402 THEN With(Deactivate("billing"), 0)
       ELSE IF status = 429
       THEN IF verdict.action = "deactivate" THEN With(verdict, 0)
            ELSE IF verdict.action = "busy retry" /\ (wait = 0 \/ wait > ShortBusyWait)
            THEN With(RetryNext("rate_limit"), wait)
            ELSE With(verdict, wait)
       ELSE IF status \in ServerTrouble THEN With(RetryNext("server"), wait)
       ELSE With(NoOpinion, 0)

(***************************************************************************)
(* The cooldown of an OAuth account, from its usage windows.  A window is  *)
(* [used, resets] with used in percent and resets the time from now at     *)
(* which it starts anew.                                                   *)
(***************************************************************************)

ExhaustedWindow(w, threshold) == w.resets > 0 /\ w.used >= threshold

\* Codex: a limit that the API calls reached counts its windows from 98 on.
CodexUntil(limits) ==
    Longest(UNION {{w.resets : w \in {v \in limit.windows :
                        ExhaustedWindow(v, IF limit.reached THEN 98 ELSE 100)}} : limit \in limits})

\* Claude: the windows of the claim that the answer names, in order; without
\* a claim the exhausted window, if there is just one.
ClaudeUntil(windows, claim) ==
    LET named == SelectSeq(claim, LAMBDA n : n \in DOMAIN windows /\ ExhaustedWindow(windows[n], 95))
        all == {n \in DOMAIN windows : ExhaustedWindow(windows[n], 100)}
    IN IF claim # << >>
       THEN IF named # << >> THEN windows[named[1]].resets ELSE 0
       ELSE IF Cardinality(all) = 1 THEN windows[CHOOSE n \in all : TRUE].resets ELSE 0

\* Gemini: the buckets of the model, else of its tier, else all of them.
BucketsFor(buckets, model, tier) ==
    LET exact == {b \in buckets : b.model = model}
        similar == {b \in buckets : b.tier = tier /\ b.tier # ""}
    IN IF model = "" THEN {} ELSE IF exact # {} THEN exact ELSE similar
GeminiUntil(buckets, model, tier) ==
    LET matched == BucketsFor(buckets, model, tier)
        which == IF matched # {} THEN matched ELSE buckets
    IN Longest({b.resets : b \in {c \in which : c.resets > 0 /\ c.exhausted}})

\* A hint is [form, time]: the headers and the strings of the body are read as
\* they stand; a number in the body is printed in full and its trailing zeros
\* are cut off, so 30 reads as 3 and 0 as nothing.
Read(hint) ==
    IF hint.form = "number" /\ hint.time > 0
    THEN hint.time \div Max({p \in {10 ^ k : k \in 0 .. 6} : hint.time % p = 0})
    ELSE hint.time

\* The longest hint of the headers and of the body.
OAuthRetryAfter(hints) == AtMost(MaxOAuthCooldown, Longest({Read(h) : h \in hints}))

\* usage is what the provider's usage page says, 0 when it says nothing or
\* cannot be reached in five seconds.
OAuthCooldown(kind, usage, hints, fallback) ==
    LET known == AtMost(MaxOAuthCooldown, usage)
        hinted == OAuthRetryAfter(hints)
    IN IF kind = "api key" THEN fallback
       ELSE IF kind = "antigravity" /\ known > 0 THEN Longest({known, hinted})
       ELSE IF kind \in {"codex", "claude"} /\ known > 0 THEN known
       ELSE IF hinted > 0 THEN hinted
       ELSE fallback
=============================================================================
