------------------------------ MODULE AddressRace ------------------------------
(***************************************************************************)
(* dialResolved of outbound/dial.go: the addresses of a name are tried one *)
(* after the other in two series, one for each family of addresses.  The   *)
(* second starts when the first has failed or has taken long; the first    *)
(* connection wins and the other series is cancelled.                      *)
(***************************************************************************)
EXTENDS Integers, FiniteSets

CONSTANTS MostAddresses    \* bound: of a family, at least one

VARIABLES addresses,       \* how many addresses each series has
          series,          \* [at, tried, conn] of each series
          caller,          \* [at, pending, timer, outcome] of dialResolved
          context,         \* of the caller: "live" or "over"
          open             \* the series that have a connection open
raceVars == <<addresses, series, caller, context, open>>

Families == {"primary", "fallback"}
\* raceCtx ends with the context and when dialResolved returns.
RaceOver == context = "over" \/ caller.at = "returned"

RaceInit ==
    /\ addresses \in [Families -> 0 .. MostAddresses] /\ addresses["primary"] > 0
    /\ series = [f \in Families |-> [at |-> IF f = "primary" THEN "next" ELSE "none", tried |-> 0, conn |-> FALSE]]
    /\ caller = [at |-> "racing", pending |-> 1, timer |-> addresses["fallback"] > 0, outcome |-> "none"]
    /\ context = "live" /\ open = {}

ContextEnds == context = "live" /\ context' = "over" /\ UNCHANGED <<addresses, series, caller, open>>

\* series: the next address, unless there is none or the race is over.
Next(f) ==
    /\ series[f].at = "next"
    /\ series' = [series EXCEPT ![f] =
           IF RaceOver \/ series[f].tried = addresses[f] THEN [@ EXCEPT !.at = "offering"]
           ELSE [@ EXCEPT !.at = "dialing", !.tried = series[f].tried + 1]]
    /\ UNCHANGED <<addresses, caller, context, open>>
\* An attempt connects or fails, by itself or because its time is over.
Dialed(f) ==
    /\ series[f].at = "dialing"
    /\ \/ series' = [series EXCEPT ![f].at = "offering", ![f].conn = TRUE] /\ open' = open \cup {f}
       \/ series' = [series EXCEPT ![f].at = "next"] /\ UNCHANGED open
    /\ UNCHANGED <<addresses, caller, context>>

\* Mutant: a series whose race is over just ends.
GivenUpOpen(f) ==
    /\ series[f].at = "offering" /\ RaceOver /\ addresses["fallback"] > 0
    /\ series' = [series EXCEPT ![f].at = "ended"] /\ UNCHANGED <<addresses, caller, context, open>>
\* The send on an unbuffered channel loses against the end of the race: the
\* connection nobody waits for is closed.
GivenUp(f) ==
    /\ series[f].at = "offering" /\ RaceOver /\ addresses["fallback"] > 0
    /\ series' = [series EXCEPT ![f].at = "ended"] /\ open' = open \ {f}
    /\ UNCHANGED <<addresses, caller, context>>

\* The loop of dialResolved takes a result ...
Started(timer) ==
    [series EXCEPT !["fallback"].at = IF timer THEN "next" ELSE @]
Taken(f) ==
    /\ caller.at = "racing" /\ series[f].at = "offering"
    /\ LET others == caller.pending - 1
           starts == ~series[f].conn /\ caller.timer
           left == IF starts THEN others + 1 ELSE others
           \* a single series does not look at its context after its last address
           over == context = "over" /\ (addresses["fallback"] > 0 \/ series[f].tried < addresses[f])
           outcome == IF series[f].conn THEN f ELSE IF over THEN "cancelled" ELSE "failed"
       IN /\ caller' = IF series[f].conn \/ left = 0 THEN [caller EXCEPT !.at = "returned", !.outcome = outcome]
                       ELSE [caller EXCEPT !.pending = left, !.timer = FALSE]
          /\ series' = [Started(starts) EXCEPT ![f].at = "ended"]
    /\ UNCHANGED <<addresses, context, open>>
\* ... or its timer fires, or its context is over; a single series is run by
\* the caller itself and always heard to its end.
TimerFires ==
    /\ caller.at = "racing" /\ caller.timer
    /\ caller' = [caller EXCEPT !.timer = FALSE, !.pending = @ + 1] /\ series' = Started(TRUE)
    /\ UNCHANGED <<addresses, context, open>>
CallerLeaves ==
    /\ caller.at = "racing" /\ context = "over" /\ addresses["fallback"] > 0
    /\ caller' = [caller EXCEPT !.at = "returned", !.outcome = "cancelled"]
    /\ UNCHANGED <<addresses, series, context, open>>

RaceNext ==
    \/ ContextEnds \/ TimerFires \/ CallerLeaves
    \/ \E f \in Families : Next(f) \/ Dialed(f) \/ GivenUp(f) \/ Taken(f)

\* dialResolved: once all is quiet the only connection that is open is the one
\* that was returned; a failure is reported only when every address has been
\* tried; and the caller is always waiting for something.
NothingLeaks ==
    LET working == {f \in Families : series[f].at \in {"next", "dialing", "offering"}}
    IN /\ caller.at = "returned" /\ caller.outcome \in Families => caller.outcome \in open
       /\ caller.at = "returned" /\ working = {} => open = {caller.outcome} \cap Families
       /\ caller.outcome = "failed" => \A f \in Families : series[f].tried = addresses[f]
       /\ caller.at = "racing" => caller.pending = Cardinality(working) \/ RaceOver
       /\ caller.at = "racing" => working # {} \/ caller.timer \/ RaceOver
=============================================================================
