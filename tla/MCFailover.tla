----------------------------- MODULE MCFailover -----------------------------
(* Two providers, the preferred one with two keys, and two clients.        *)
EXTENDS Failover

CONSTANTS c1, c2

MCNumKeys  == [p \in Providers |-> IF p = 0 THEN 2 ELSE 1]
MCScopeOf  == [r \in Requests |-> IF r = c1 THEN "default" ELSE "responses"]
MCCapable  == [r \in Requests |-> IF r = c1 THEN Providers ELSE {0}]
MCHintsOf  == [r \in Requests |-> IF r = c1 THEN {<<>>, <<0, 0>>} ELSE {<<>>}]
MCSendsOf  == [r \in Requests |-> 1]
OneDelay   == <<1>>
=============================================================================
