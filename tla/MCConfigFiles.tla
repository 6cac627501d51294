---------------------------- MODULE MCConfigFiles ----------------------------
(***************************************************************************)
(* Files of up to three providers, requests that change one or two fields, *)
(* and files as people write them.                                         *)
(***************************************************************************)
EXTENDS ConfigFiles

New == [NoChange EXCEPT !.name = "c", !.base = "https", !.key = "k1"]

\* The fields of a request, each with the values it is given.
OneField(r) ==
    {[r EXCEPT !.name = n] : n \in {"a", "null"}} \cup {[r EXCEPT !.base = "ftp"]}
    \cup {[r EXCEPT !.key = "", !.keys = <<"k2", "k1", "k2">>], [r EXCEPT !.key = "k1", !.keys = <<"k2">>]}
    \cup {[r EXCEPT !.auth = "oauth"]}
    \cup {[r EXCEPT !.proxyMode = m[1], !.proxyURL = m[2]] : m \in {<<None, "http">>, <<"default", "http">>, <<"custom", None>>, <<"custom", "http">>, <<"direct", "">>}}
    \cup {[r EXCEPT !.priority = n] : n \in {0, 2}} \cup {[r EXCEPT !.enabled = FALSE]}
    \cup {[r EXCEPT !.overrides[o[1]] = o[2]] : o \in {<<"model", "">>, <<"model", "m">>, <<"openai", "low">>, <<"google", "low">>}}
MCCreateRequests == {New} \cup OneField(New)
MCUpdateRequests == OneField(NoChange) \cup {[NoChange EXCEPT !.name = "null", !.enabled = TRUE]}

MCClientRequests == [mode : {"auto", "manual"}, pin : {"", "b", "null"}]
MCOrders == {<<"b">>, <<"b", "a">>, <<"a", "a">>, <<"null", "a">>}

Written(name, priority) ==
    [name |-> name, base |-> "https", key |-> "k1", keys |-> << >>, auth |-> "", kind |-> "", ref |-> "",
     proxyMode |-> "", proxyURL |-> "", priority |-> priority, enabled |-> None, overrides |-> NoOverrides]
Account(name, kind) == [Written(name, 1) EXCEPT !.base = "", !.key = "", !.auth = "oauth", !.kind = kind, !.ref = "me"]
File(mode, pin, ps) == [mode |-> mode, pin |-> pin, providers |-> ps]
MCHandWritten ==
    {File("", "", << >>),
     File("manual", "a", <<Written("b", 2), [Written("a", 0) EXCEPT !.keys = <<"k2", "k1", "">>]>>),
     File("manual", "b", <<[Written("a", 2) EXCEPT !.enabled = FALSE, !.overrides["model"] = "low", !.overrides["openai"] = ""],
                           [Written("b", 2) EXCEPT !.proxyMode = "custom", !.proxyURL = "socks5"]>>),
     File("auto", "b", <<Account("a", "codex"), Written("null", 3), Written("b", 1)>>),
     File("auto", "", <<[Account("a", "claude") EXCEPT !.enabled = FALSE], [Written("b", 1) EXCEPT !.overrides["claude"] = "low", !.overrides["model"] = "m"]>>),
     File("manual", "a", <<Account("a", "gemini"), Account("b", "antigravity")>>),
     File("auto", "", <<Written("a", 1), Written("a", 2)>>)}

Settings ==
    [listen |-> "loopback", allowRemote |-> FALSE, port |-> 80, level |-> "info", reactivate |-> 60, idle |-> 5, header |-> 5,
     proxyMode |-> "", proxyURL |-> "", body |-> 8, retention |-> 7, failures |-> 4, successes |-> 2, openTimeout |-> 60, halfOpen |-> 1,
     sticky |-> TRUE, stickyTTL |-> 30, busy |-> TRUE, delays |-> <<5>>]
MCHandWrittenGlobals ==
    {Settings, [Settings EXCEPT !.listen = "remote", !.allowRemote = TRUE, !.idle = 1, !.body = 1, !.proxyMode = "custom", !.proxyURL = "http"]}
One(f, v) == [g \in {f} |-> v]
MCGlobalChanges ==
    {One("listen", "remote"), One("idle", 0), One("header", None), One("header", 1), One("body", 9), One("successes", 0),
     [failures |-> 0, successes |-> 0], [sticky |-> FALSE, stickyTTL |-> 0], [listen |-> "remote", allowRemote |-> TRUE]}
    \cup {[proxyMode |-> m[1], proxyURL |-> m[2]] : m \in {<<None, "http">>, <<"direct", None>>, <<"custom", None>>, <<"custom", "http">>}}
=============================================================================
