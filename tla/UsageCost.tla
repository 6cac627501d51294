------------------------------- MODULE UsageCost -------------------------------
(***************************************************************************)
(* From the counters of an upstream's answer to the tokens that are shown  *)
(* and the cost that is charged: the normalize functions of                *)
(* internal/telemetry/usage_extractor.go, internal/proxy/usage_cost.go and *)
(* internal/pricing.  An answer's usage is a function from the counters it *)
(* carries to numbers, so a missing counter differs from a zero.  Prices   *)
(* are whole numbers per token, None where the catalog has none.           *)
(***************************************************************************)
EXTENDS Integers, Sequences, FiniteSets, TLC, FiniteSetsExt, SequencesExt

CONSTANTS None,            \* no price
          Above200K, Above272K   \* the sizes at which prices change

ASSUME PricingAssumption == {Above200K, Above272K} \subseteq Nat /\ Above200K < Above272K

Pick(raw, names) ==
    LET given == SelectSeq(names, LAMBDA n : n \in DOMAIN raw) IN IF given = << >> THEN 0 ELSE raw[given[1]]
Least(a, b) == IF a < b THEN a ELSE b
Most(a, b) == IF a > b THEN a ELSE b

(***************************************************************************)
(* The counters as they are shown: [input, output, total].                 *)
(***************************************************************************)

Delta(input, output, total) ==
    [input |-> input, output |-> output, total |-> IF total > 0 THEN total ELSE input + output]

Shown(family, raw) ==
    CASE family = "openai" ->
           Delta(Pick(raw, <<"prompt", "input">>), Pick(raw, <<"completion", "output">>), Pick(raw, <<"total">>))
      [] family = "claude" ->
           Delta(Pick(raw, <<"input">>) + Pick(raw, <<"cache creation">>) + Pick(raw, <<"cache read">>),
                 Pick(raw, <<"output">>), Pick(raw, <<"total">>))
      [] family = "gemini" ->
           Delta(Pick(raw, <<"prompt">>) + Pick(raw, <<"tool use">>), Pick(raw, <<"candidates", "response">>), Pick(raw, <<"total">>))

(***************************************************************************)
(* The tokens to be charged, by kind.                                      *)
(***************************************************************************)

Nothing == [uncached |-> 0, cached |-> 0, write |-> 0, write1h |-> 0, audio |-> 0, output |-> 0, reasoning |-> 0, search |-> 0]
Refused == [Nothing EXCEPT !.uncached = -1]

\* What is cached cannot exceed the prompt.
OpenAITokens(raw) ==
    LET prompt == Pick(raw, <<"prompt", "input">>)
        detailed == Pick(raw, <<"input cached", "prompt cached">>)
        cached == Least(prompt, IF detailed # 0 THEN detailed ELSE Pick(raw, <<"prompt cache hit">>))
    IN [Nothing EXCEPT !.uncached = prompt - cached, !.cached = cached,
                       !.output = Pick(raw, <<"completion", "output">>),
                       !.reasoning = Pick(raw, <<"output reasoning", "completion reasoning">>)]

\* The writes to the cache by their lifetime: as the answer splits them, else
\* as the request asked for (ttls), unless it asked for both.
ClaudeTokens(raw, ttls) ==
    LET fiveMinutes == Pick(raw, <<"5m">>)
        oneHour == Pick(raw, <<"1h">>)
        split == {"5m", "1h"} \cap DOMAIN raw # {}
        counted == Pick(raw, <<"cache creation">>)
        total == IF split /\ counted = 0 THEN fiveMinutes + oneHour ELSE counted
        long == IF split THEN oneHour ELSE IF "1h" \in ttls THEN total ELSE 0
    IN IF (split /\ fiveMinutes + oneHour # total) \/ (~split /\ Cardinality(ttls) = 2) THEN Refused
       ELSE [Nothing EXCEPT !.uncached = Pick(raw, <<"input">>), !.cached = Pick(raw, <<"cache read">>),
                            !.write = total - long, !.write1h = long,
                            !.output = Pick(raw, <<"output">>), !.search = Pick(raw, <<"search">>)]

\* The part of the cached tokens that is audio, in proportion, rounded; what
\* the text cannot hold is audio too.
CachedAudio(cached, text, audio) ==
    LET share == (2 * cached * audio + text + audio) \div (2 * (text + audio))
        most == Least(Least(share, audio), cached)
    IN IF cached = 0 \/ audio = 0 THEN 0
       ELSE IF text <= 0 THEN cached
       ELSE most + Most(0, cached - most - text)

\* Mutant: the thinking tokens are not part of the output.
GeminiOutputShown(raw) == Pick(raw, <<"candidates", "response">>)
\* Thoughts are output; a total that is larger than its parts is output too.
GeminiOutput(raw) ==
    Most(Pick(raw, <<"candidates", "response">>) + Pick(raw, <<"thoughts">>),
         Pick(raw, <<"total">>) - Pick(raw, <<"prompt">>) - Pick(raw, <<"tool use">>))

GeminiTokens(raw) ==
    LET prompt == Pick(raw, <<"prompt">>) + Pick(raw, <<"tool use">>)
        cached == Least(prompt, Pick(raw, <<"cached">>))
        audio == Pick(raw, <<"prompt audio">>)
    IN [Nothing EXCEPT !.uncached = prompt - cached, !.cached = cached,
                       !.audio = audio - CachedAudio(cached, prompt - audio, audio),
                       !.output = GeminiOutput(raw), !.reasoning = Pick(raw, <<"thoughts">>)]

Charged(family, raw, ttls) ==
    CASE family = "openai" -> OpenAITokens(raw)
      [] family = "claude" -> ClaudeTokens(raw, ttls)
      [] family = "gemini" -> GeminiTokens(raw)

(***************************************************************************)
(* Prices.  A model is [base, tier, long, longer, longerTier, write1h,     *)
(* audio, reasoning, search, fast, us]: prices by kind for everyone, for   *)
(* the request's service tier, above 200K and above 272K tokens, and there *)
(* for the tier; then the single prices and the premiums, us in tenths.    *)
(***************************************************************************)

Kinds == {"input", "output", "read", "write"}
First(prices) ==
    LET known == SelectSeq(prices, LAMBDA r : r # None) IN IF known = << >> THEN None ELSE known[1]
Known(prices) == \E k \in Kinds : prices[k] # None
Over(prices, otherwise) == [k \in Kinds |-> First(<<prices[k], otherwise[k]>>)]

\* Which kinds of prices a usage needs; one-hour writes need two.
Uses(u) ==
    {k \in Kinds : \/ k = "input" /\ u.uncached + u.write1h > 0
                   \/ k = "output" /\ u.output > 0
                   \/ k = "read" /\ u.cached > 0
                   \/ k = "write" /\ u.write + u.write1h > 0}
InputSize(u) == u.uncached + u.cached + u.write + u.write1h

NoRates == [k \in Kinds |-> None]
\* ratesForUsage; a tier that changes a price that is also changed by the size
\* of the prompt must say what both amount to.
Rates(m, tier, u) ==
    LET base == IF tier = "standard" THEN m.base ELSE Over(m.tier, m.base)
        longer == IF tier = "standard" THEN Over(m.longer, base) ELSE Over(m.longerTier, Over(m.longer, base))
        undefined(alsoKnown) == tier # "standard" /\ \E k \in Uses(u) : m.tier[k] # None /\ ~(alsoKnown /\ m.longerTier[k] # None)
    IN IF InputSize(u) > Above272K /\ Known(m.longer)
       THEN IF undefined(TRUE) THEN NoRates ELSE longer
       ELSE IF InputSize(u) > Above200K /\ Known(m.long)
       THEN IF undefined(FALSE) THEN NoRates ELSE Over(m.long, base)
       ELSE base

\* One term of the bill; a kind of token that is used must have a price.
Term(tokens, price) == [tokens |-> tokens, price |-> price]
Bill(m, tier, u) ==
    LET r == Rates(m, tier, u)
        \* the price of a one-hour write grows with the price of input
        write1h == IF m.write1h = None \/ m.base["input"] = None \/ r["input"] = None
                   THEN First(<<m.write1h, r["write"], r["input"]>>)
                   ELSE (r["input"] * m.write1h) \div m.base["input"]
    IN <<Term(u.uncached - u.audio, r["input"]), Term(u.audio, First(<<m.audio, r["input"]>>)),
         Term(u.cached, First(<<r["read"], r["input"]>>)), Term(u.write, First(<<r["write"], r["input"]>>)),
         Term(u.write1h, write1h), Term(u.output - u.reasoning, r["output"]),
         Term(u.reasoning, First(<<m.reasoning, r["output"]>>))>>

Priceless == -1
\* CostMicrosForProvider: the cost in tenths, or none.
Cost(m, tier, u, fast, us) ==
    LET bill == Bill(m, tier, u)
        amount == [i \in DOMAIN bill |-> IF bill[i].tokens = 0 THEN 0 ELSE bill[i].tokens * bill[i].price]
        premium == (IF fast THEN m.fast ELSE 1) * (IF us THEN m.us ELSE 10)
        owing == \E i \in DOMAIN bill : bill[i].tokens > 0 /\ bill[i].price = None
    IN IF u.uncached < 0 \/ u.audio < 0 \/ u.audio > u.uncached \/ u.reasoning > u.output THEN Priceless
       ELSE IF ~Known(Rates(m, tier, u)) \/ owing \/ (u.search > 0 /\ m.search = None) THEN Priceless
       ELSE premium * FoldLeft(LAMBDA a, b : a + b, 0, amount) + 10 * u.search * (IF m.search = None THEN 0 ELSE m.search)

\* applyUsageCostSnapshot: what the upstream says it charged goes first.
Recorded(said, inferred) ==
    IF said # Priceless THEN [cost |-> said, source |-> "upstream"]
    ELSE IF inferred # Priceless THEN [cost |-> inferred, source |-> "catalog"]
    ELSE [cost |-> 0, source |-> "none"]
=============================================================================
