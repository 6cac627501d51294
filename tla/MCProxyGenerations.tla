-------------------------- MODULE MCProxyGenerations --------------------------
(* Instances of ProxyGenerations for TLC. *)
EXTENDS ProxyGenerations, TLC

AnyOrder == Permutations(Requests)

OneScopeEach == [r \in Requests |-> 1]

Prov(name, ident, keys) == [name |-> name, ident |-> ident, keys |-> keys]
Auto(breaker, providers) == [mode |-> "auto", pinned |-> "", breaker |-> breaker, providers |-> providers]

\* Two providers; reordered with a key gone; repointed, pinned, with another
\* breaker; none enabled.
FourConfigs ==
    { Auto("cb1", <<Prov("a", "x", <<1, 2>>), Prov("b", "x", <<1>>)>>),
      Auto("cb1", <<Prov("b", "x", <<1>>), Prov("a", "x", <<2>>)>>),
      [mode |-> "manual", pinned |-> "b", breaker |-> "cb2",
       providers |-> <<Prov("a", "y", <<1>>), Prov("b", "x", <<1>>)>>],
      Auto("cb1", <<>>) }

Say(text) == [role |-> "user", text |-> text]
Says(responses, previous, cacheKey, messages, id) ==
    [body |-> [responses |-> responses, previous |-> previous, cacheKey |-> cacheKey, messages |-> messages], id |-> id]

\* A first turn answered with an id; the turn that names it; a stateless later turn.
ThreeTurns ==
    { Says(TRUE, 0, 0, <<Say(1)>>, 1),
      Says(TRUE, 1, 0, <<Say(3)>>, 0),
      Says(FALSE, 0, 0, <<Say(1), [role |-> "assistant", text |-> 3], Say(2)>>, 0) }
===============================================================================
