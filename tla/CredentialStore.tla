--------------------------- MODULE CredentialStore ---------------------------
(***************************************************************************)
(* The credential files of one OAuth provider kind, as internal/oauth/     *)
(* store.go keeps them, and the rules of identity.go that decide whether   *)
(* two credentials are the same upstream account.  A credential is a       *)
(* record; the empty string is a field that is not set.  A ref is a        *)
(* sequence: disambiguating it appends an element where the code appends   *)
(* "-" and a suffix.  The file of a credential is named by its e-mail and  *)
(* ref, so a store is a set of credentials.  Request environments, other   *)
(* metadata than the organization, and files that do not parse (they are   *)
(* skipped by every scan) are left out.                                    *)
(***************************************************************************)
EXTENDS Naturals, Sequences, FiniteSets, SequencesExt

\* How well two credentials agree (identity.go: accountIdentityMatchScore).
NoMatch == 0
WeakMatch == 1
ScopedMatch == 2
StrongMatch == 3

\* Two values that are both set and are the same, or both set and different.
Agree(a, b) == a # "" /\ a = b
Differ(a, b) == a # "" /\ b # "" /\ a # b
BothSet(a, b) == a # "" /\ b # ""

\* An account id decides when both have one; a Claude organization decides
\* next; the e-mail is only a weak match.
IdentityScore(a, b) ==
    IF BothSet(a.acct, b.acct)
    THEN IF a.acct = b.acct THEN StrongMatch ELSE NoMatch
    ELSE IF a.kind = "claude" /\ BothSet(a.org, b.org)
    THEN IF a.org = b.org THEN ScopedMatch ELSE NoMatch
    ELSE IF Agree(a.email, b.email) THEN WeakMatch ELSE NoMatch

Conflict(a, b) ==
    IF BothSet(a.acct, b.acct) THEN a.acct # b.acct
    ELSE IF a.kind = "claude" /\ BothSet(a.org, b.org) THEN a.org # b.org
    ELSE Differ(a.email, b.email)

\* The same ref alone is enough for an update unless the identities conflict.
UpdateScore(existing, incoming) ==
    IF Conflict(existing, incoming) THEN 0
    ELSE 100 * IdentityScore(existing, incoming)
         + (IF existing.ref = incoming.ref THEN 10 ELSE 0)

\* The key that provider entries and fingerprints record for an account.
IdentityKey(c) ==
    IF c.acct # "" THEN <<"acct", c.acct>>
    ELSE IF c.kind = "claude" /\ c.org # "" THEN <<"org", c.org>>
    ELSE IF c.email # "" THEN <<"email", c.email>>
    ELSE <<>>

(***************************************************************************)
(* findMatchingAccount walks the files in name order and keeps the best.   *)
(* A tie goes to the one refreshed later, whichever comes first; a second  *)
(* weak match of another account makes the match ambiguous, unless it is   *)
(* the newer one, which then replaces the first with the doubt forgotten.  *)
(* "at" stands for the refresh and expiry times, which order it.           *)
(***************************************************************************)
Newer(a, b) == a.at > b.at
WeakOnly(score) == score = 100 * WeakMatch
NobodyYet == [cred |-> <<>>, score |-> 0, ambiguous |-> FALSE]

MaybeOthers(a, b) == IdentityKey(a) = <<>> \/ IdentityKey(a) # IdentityKey(b)

Weigh(incoming, best, e) ==
    LET score == UpdateScore(e, incoming)
        better == score > best.score \/ (score = best.score /\ Newer(e, best.cred))
    IN  CASE score = 0 -> best
          [] score > 0 /\ better -> [cred |-> e, score |-> score, ambiguous |-> FALSE]
          [] score > 0 /\ ~better ->
                 [best EXCEPT !.ambiguous = \/ @
                                            \/ /\ score = best.score /\ WeakOnly(score)
                                               /\ MaybeOthers(best.cred, e)]

\* "scan" lists the files in the order of their names.
MatchingAccount(scan, incoming) ==
    LET best == FoldLeft(LAMBDA b, e : Weigh(incoming, b, e), NobodyYet, scan)
    IN  IF best.score = 0 \/ (best.ambiguous /\ WeakOnly(best.score)) THEN {} ELSE {best.cred}

\* An update keeps the stored ref and fills what the incoming one leaves out.
Merged(existing, incoming) ==
    LET Fill(new, old) == IF new = "" THEN old ELSE new
    IN  [incoming EXCEPT !.ref = existing.ref, !.email = Fill(incoming.email, existing.email),
                         !.acct = Fill(incoming.acct, existing.acct), !.org = Fill(incoming.org, existing.org),
                         !.tok = Fill(incoming.tok, existing.tok)]

RefTaken(files, ref) == \E e \in files : e.ref = ref

\* A ref in use by another account gets the account's id, organization or
\* e-mail appended, the first that is free, else a number from 2 on.
Disambiguated(files, c) ==
    LET suffixes == SelectSeq(<<c.acct, c.org, c.email>>,
                              LAMBDA s : s # "" /\ ~RefTaken(files, Append(c.ref, s)))
        numbers == {n \in 2..(Cardinality(files) + 2) : ~RefTaken(files, Append(c.ref, ToString(n)))}
    IN  IF suffixes # <<>> THEN Append(c.ref, Head(suffixes))
        ELSE Append(c.ref, ToString(CHOOSE n \in numbers : \A k \in numbers : n <= k))

\* What Save writes, and the files it leaves: the account's own file is
\* replaced, or renamed when its e-mail changed.
Saved(files, scan, incoming) ==
    LET existing == MatchingAccount(scan, incoming)
    IN  IF existing # {} THEN Merged(CHOOSE e \in existing : TRUE, incoming)
        ELSE IF RefTaken(files, incoming.ref)
        THEN [incoming EXCEPT !.ref = Disambiguated(files, incoming)]
        ELSE incoming

FilesAfterSave(files, scan, incoming) ==
    LET new == Saved(files, scan, incoming)
    IN  {e \in files \ MatchingAccount(scan, incoming) :
             <<e.email, e.ref>> # <<new.email, new.ref>>} \cup {new}
=============================================================================
