------------------------------ MODULE NameLookups ------------------------------
(***************************************************************************)
(* Lookups that several requests share, one query at a time for each name: *)
(* the DNS cache of an account's route (outbound/dns_cache.go with its     *)
(* caller in auto.go), and the catalog of models of an Antigravity account *)
(* (antigravityModelCatalog), which is built in the same way and differs   *)
(* where `kind' is asked.                                                  *)
(***************************************************************************)
EXTENDS Integers, FiniteSets, FiniteSetsExt

CONSTANTS Requests, Names,
          Capacity,        \* entries of the DNS cache
          LongestLife,     \* of an answer
          Backoff,         \* how long a failure is remembered
          None             \* the three numbers are positive

VARIABLES kind,            \* "dns" or "catalog"
          known,           \* the entries of the cache: name |-> [result, life]
          pending,         \* name |-> the request that asks, or None
          request          \* [at, name, context, told] of each request
lookupVars == <<kind, known, pending, request>>

\* The context of a request: it ends with its client, or with the time that
\* connectAutomatically gives to a lookup.
Live(r) == request[r].context = "live"
Fresh(name) == name \in DOMAIN known /\ known[name].life > 0

LookupInit ==
    /\ kind \in {"dns", "catalog"} /\ known = [n \in {} |-> None] /\ pending = [n \in Names |-> None]
    /\ request = [r \in Requests |-> [at |-> "idle", name |-> None, context |-> "live", told |-> None]]

Begin(r, name) ==
    /\ request[r].at = "idle"
    /\ request' = [request EXCEPT ![r] = [at |-> "looking", name |-> name, context |-> "live", told |-> None]]
    /\ UNCHANGED <<kind, known, pending>>
Interrupt(r) ==
    /\ request[r].at \in {"looking", "asking", "waiting", "told"} /\ Live(r)
    /\ \E end \in {"cancelled"} \cup IF kind = "dns" THEN {"timed out"} ELSE {} :
         request' = [request EXCEPT ![r].context = end]
    /\ UNCHANGED <<kind, known, pending>>

Returns(r, outcome) == [request EXCEPT ![r].at = "returned", ![r].told = outcome]

\* resolver.lookup under mu: an answer that is still good, another request's
\* query, or a query of one's own.  The catalog throws away what has expired.
Look(r) ==
    LET name == request[r].name
        stale == {n \in DOMAIN known : ~Fresh(n)}
    IN /\ request[r].at = "looking"
       /\ \/ /\ kind = "dns" /\ ~Live(r)
             /\ request' = Returns(r, request[r].context) /\ UNCHANGED <<known, pending>>
          \/ /\ kind = "catalog" \/ Live(r)
             /\ IF Fresh(name) THEN request' = Returns(r, known[name].result) /\ UNCHANGED <<known, pending>>
                ELSE IF pending[name] # None
                THEN request' = [request EXCEPT ![r].at = "waiting"] /\ UNCHANGED <<known, pending>>
                ELSE /\ pending' = [pending EXCEPT ![name] = r]
                     /\ request' = [request EXCEPT ![r].at = "asking"]
                     /\ known' = IF kind = "catalog" THEN [n \in DOMAIN known \ stale |-> known[n]] ELSE known
       /\ UNCHANGED kind

\* storeAnswerLocked: a full cache gives up the entry that ends first.
Evicted(name) ==
    IF name \in DOMAIN known \/ Cardinality(DOMAIN known) < Capacity THEN {{}}
    ELSE {{n} : n \in {m \in DOMAIN known : \A o \in DOMAIN known : known[m].life <= known[o].life}}
Stored(name, entry) ==
    \E gone \in Evicted(name) :
        known' = [n \in (DOMAIN known \ gone) \cup {name} |-> IF n = name THEN entry ELSE known[n]]
\* storeFailureLocked: a good answer stays.
StoredFailure(name) ==
    IF Fresh(name) /\ known[name].result = "answer" THEN UNCHANGED known
    ELSE Stored(name, [result |-> "failure", life |-> Backoff])

\* Mutant: a waiting request is told how the leader ended.
Shared(leader, outcome) == outcome
\* A cancelled leader cannot decide another request's outcome: they look again.
ToldWaiters(leader, outcome) == IF kind = "dns" /\ ~Live(leader) THEN "look again" ELSE outcome

\* The end of a query, under mu.  It may have succeeded although its request is
\* over; if it failed then, that is no verdict on the name.
Answer(r) ==
    LET name == request[r].name
    IN /\ request[r].at = "asking"
       /\ \E outcome \in {"answer", IF Live(r) THEN "failure" ELSE request[r].context} :
            /\ request' = [q \in Requests |->
                 IF q = r THEN [request[q] EXCEPT !.at = "returned", !.told = outcome]
                 ELSE IF request[q].at = "waiting" /\ request[q].name = name
                 THEN [request[q] EXCEPT !.at = "told", !.told = ToldWaiters(r, outcome)]
                 ELSE request[q]]
            /\ CASE outcome = "answer" -> \E life \in 0 .. LongestLife :
                        /\ kind = "catalog" => life = LongestLife
                        /\ Stored(name, [result |-> outcome, life |-> life])
                 [] kind = "dns" /\ outcome = "failure" -> StoredFailure(name)
                 [] OTHER -> UNCHANGED known
       /\ pending' = [pending EXCEPT ![name] = None]
       /\ UNCHANGED kind

\* The select of a waiting request.
Wake(r) ==
    /\ \/ request[r].at \in {"waiting", "told"} /\ ~Live(r) /\ request' = Returns(r, request[r].context)
       \/ /\ request[r].at = "told" /\ (kind = "catalog" \/ Live(r))
          /\ request' = IF request[r].told = "look again" THEN [request EXCEPT ![r].at = "looking"]
                        ELSE Returns(r, request[r].told)
    /\ UNCHANGED <<kind, known, pending>>

\* connectAutomatically: a lookup that used up its time counts as a failure of
\* the route; then the request is over.
Leave(r) ==
    /\ request[r].at = "returned"
    /\ IF kind = "dns" /\ request[r].context = "timed out" /\ request[r].told = "timed out" THEN StoredFailure(request[r].name)
       ELSE UNCHANGED known
    /\ request' = [request EXCEPT ![r] = [at |-> "idle", name |-> None, context |-> "live", told |-> None]]
    /\ UNCHANGED <<kind, pending>>

Tick ==
    /\ known' = [n \in DOMAIN known |-> [known[n] EXCEPT !.life = Max({0, @ - 1})]]
    /\ known' # known /\ UNCHANGED <<kind, pending, request>>

LookupNext ==
    \/ \E r \in Requests : \/ \E name \in Names : Begin(r, name)
                           \/ Interrupt(r) \/ Look(r) \/ Answer(r) \/ Wake(r) \/ Leave(r)
    \/ Tick

\* resolver.lookup: a request whose own context lives is never told that it is
\* over, names are asked for by one request at a time, which is at work as
\* long as another waits for it, and the cache keeps to its size.
OwnOutcome ==
    /\ kind = "dns" => \A r \in Requests : request[r].at = "returned" /\ Live(r) => request[r].told \in {"answer", "failure"}
    /\ \A n \in Names : LET asking == {r \in Requests : request[r].at = "asking" /\ request[r].name = n}
                            waiting == {r \in Requests : request[r].at = "waiting" /\ request[r].name = n}
                        IN /\ asking = {pending[n]} \ {None}
                           /\ waiting # {} => asking # {}
    /\ kind = "dns" => Cardinality(DOMAIN known) <= Capacity
=============================================================================
