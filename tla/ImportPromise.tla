---------------------------- MODULE ImportPromise ----------------------------
(***************************************************************************)
(* What a data import promises, as docs/en/data-transfer.md tells it and   *)
(* transfer.Service keeps it: an import happens entirely and once, or not  *)
(* at all, and answers accordingly.  Credentials are seen here as accounts *)
(* with their tokens and providers as bound to accounts: the files and     *)
(* refs that link them are how the service does it.  Only a crash in the   *)
(* middle of an import, or a rollback that fails itself, may leave         *)
(* anything else behind; "sound" is FALSE from then on.                    *)
(***************************************************************************)
EXTENDS Naturals, FiniteSets

CONSTANTS Users,       \* those who import
          Datasets     \* [native, global, bindings, unsettled, accounts, usage]

VARIABLES global,      \* the global settings
          bindings,    \* the account each provider name is bound to
          accounts,    \* the token of each account
          usage,       \* the requests counted
          inForce,     \* whether the running proxy has the saved configuration
          remembered,  \* datasets and modes whose import is known to be done
          answers,     \* the last answer of each user
          sound        \* no import was torn

vars == <<global, bindings, accounts, usage, inForce, remembered, answers, sound>>

Over(new, old) == [k \in DOMAIN new \cup DOMAIN old |-> IF k \in DOMAIN new THEN new[k] ELSE old[k]]

\* The configuration an import leaves, given the accounts it leaves.
Replaced(d) == /\ global' = d.global
               /\ accounts' = d.accounts
               /\ bindings' = d.bindings
               /\ usage' = usage + d.usage
\* Names of the dataset win; one whose account was not recorded with it may
\* end up elsewhere when its ref is another account's here.
MergedIn(d) == /\ global' = d.global
               /\ accounts' = Over(d.accounts, accounts)
               /\ DOMAIN bindings' = DOMAIN d.bindings \cup DOMAIN bindings
               /\ \A n \in DOMAIN bindings' \ d.unsettled : bindings'[n] = Over(d.bindings, bindings)[n]
               /\ usage' = usage + d.usage
\* Credentials only: every account gets a provider, no provider changes hands.
Linked(d) == /\ accounts' = Over(d.accounts, accounts)
             /\ \A n \in DOMAIN bindings : n \in DOMAIN bindings' /\ bindings'[n] = bindings[n]
             /\ LET wanted == {a \in DOMAIN d.accounts : \A n \in DOMAIN bindings : bindings[n] # a}
                    new == DOMAIN bindings' \ DOMAIN bindings
                IN  /\ {bindings'[n] : n \in new} = wanted
                    /\ Cardinality(new) = Cardinality(wanted)
             /\ UNCHANGED <<global, usage>>

Import(u, d, mode) ==
    /\ CASE ~d.native -> Linked(d)
         [] d.native /\ mode = "merge" -> MergedIn(d)
         [] d.native /\ mode = "replace" -> Replaced(d)
    /\ inForce' = TRUE
    /\ remembered' \in {remembered, remembered \cup {<<d, mode>>}}
    /\ answers' \in {[answers EXCEPT ![u] = <<"done", d, mode>>], [answers EXCEPT ![u] = <<"lost">>]}
    /\ UNCHANGED sound

\* Nothing happens: it failed, came too late, or was done before.
Answer(u) ==
    /\ \E a \in {<<"none">>, <<"failed">>, <<"refused">>, <<"lost">>}
               \cup {<<"done", r[1], r[2]>> : r \in remembered} :
           answers' = [answers EXCEPT ![u] = a]
    /\ UNCHANGED <<global, bindings, accounts, usage, inForce, remembered, sound>>

\* Life goes on outside imports: previews and expiry change what is
\* remembered, requests are counted, tokens renewed, configurations edited.
Forget == /\ remembered' \subseteq remembered
          /\ UNCHANGED <<global, bindings, accounts, usage, inForce, answers, sound>>
Count == /\ usage' = usage + 1
         /\ UNCHANGED <<global, bindings, accounts, inForce, remembered, answers, sound>>
Renew == /\ DOMAIN accounts' = DOMAIN accounts
         /\ UNCHANGED <<global, bindings, usage, inForce, remembered, answers, sound>>
Edit == UNCHANGED <<accounts, usage, remembered, answers, sound>>
Restart == /\ usage' <= usage
           /\ remembered' = {}
           /\ inForce' = TRUE
           /\ UNCHANGED <<global, bindings, accounts, sound>>
Torn == sound' = FALSE

Init == sound = TRUE /\ remembered = {} /\ answers = [u \in Users |-> <<"none">>]
Next == \/ \E u \in Users, d \in Datasets, mode \in {"replace", "merge"} : Import(u, d, mode)
        \/ \E u \in Users : Answer(u)
        \/ Forget \/ Count \/ Renew \/ Edit \/ Restart \/ Torn
Spec == Init /\ [][Next]_vars
=============================================================================
