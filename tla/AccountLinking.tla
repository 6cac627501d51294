---------------------------- MODULE AccountLinking ----------------------------
(***************************************************************************)
(* How the management API ties a client's provider entries to OAuth        *)
(* accounts (internal/web/oauth_api.go, ensureOAuthProviderLinked).  An    *)
(* entry is a record [name, ref, identity]; ref names a credential of the  *)
(* store, identity is the account it was bound to when it was written, ""  *)
(* when it was not recorded.  A store is a function from the refs that     *)
(* have a credential to the identity of that credential.  Proxy settings,  *)
(* priorities and entries of other providers are left out; the name an     *)
(* account wants is <<identity>>, with a number appended while it is taken.*)
(***************************************************************************)
EXTENDS Naturals, Sequences, FiniteSets, TLC, SequencesExt, FiniteSetsExt

Entry(name, ref, identity) == [name |-> name, ref |-> ref, identity |-> identity]

DesiredName(cred) == <<cred.identity>>

\* The desired name, or the first numbered one from 2 that is free.
AvailableName(entries, desired) ==
    LET taken == {entries[i].name : i \in DOMAIN entries}
        numbers == {k \in 2..(Len(entries) + 2) : Append(desired, ToString(k)) \notin taken}
    IN IF desired \notin taken THEN desired ELSE Append(desired, ToString(Min(numbers)))

MatchesIdentity(entry, cred) == entry.identity # "" /\ entry.identity = cred.identity

\* An entry may be given another ref of its own account, never of another.
CanRelink(entry, cred, store) ==
    \/ entry.ref = cred.ref
    \/ entry.ref \in DOMAIN store /\ store[entry.ref] = cred.identity
    \/ entry.ref \notin DOMAIN store /\ MatchesIdentity(entry, cred)

LinkedEntries(entries, cred) == {i \in DOMAIN entries : entries[i].ref = cred.ref}

\* Mutant: an entry that carries the wanted name is taken without a look at
\* the account it belongs to.
RelinkableByName(entries, cred, store) ==
    LET named == {i \in DOMAIN entries : entries[i].name = DesiredName(cred)}
        others == {i \in DOMAIN entries \ named : CanRelink(entries[i], cred, store)}
    IN IF named # {} THEN {Min(named)}
       ELSE IF Cardinality(others) = 1 THEN others ELSE {}

\* The entry with the wanted name comes first; among the others a choice is
\* made only when there is just one.
Relinkable(entries, cred, store) ==
    LET able == {i \in DOMAIN entries : CanRelink(entries[i], cred, store)}
        named == {i \in able : entries[i].name = DesiredName(cred)}
        others == {i \in able : entries[i].name # DesiredName(cred)}
    IN IF named # {} THEN {Min(named)}
       ELSE IF Cardinality(others) = 1 THEN others ELSE {}

\* The entries after a credential has been linked: the linked one is kept
\* (its identity filled in), or one is relinked, or one is added.
EnsureLinked(entries, cred, store) ==
    LET linked == LinkedEntries(entries, cred)
        able == Relinkable(entries, cred, store)
        Bound(e) == [e EXCEPT !.ref = cred.ref, !.identity = cred.identity]
    IN IF linked # {} THEN [entries EXCEPT ![Min(linked)] = Bound(@)]
       ELSE IF able # {} THEN [entries EXCEPT ![Min(able)] = Bound(@)]
       ELSE Append(entries, Entry(AvailableName(entries, DesiredName(cred)), cred.ref, cred.identity))

\* The entries that go when an account is deleted.
WithoutAccount(entries, ref) == SelectSeq(entries, LAMBDA e : e.ref # ref)
=============================================================================
