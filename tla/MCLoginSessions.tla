--------------------------- MODULE MCLoginSessions ---------------------------
(***************************************************************************)
(* A small instance of LoginSessions: two logins of the account a, beside b. *)
(***************************************************************************)
EXTENDS LoginSessions

\* Two logins that nobody links; one that is linked while an entry of b has
\* the name it would get and another entry's credential is gone.
TwoScenes ==
    { [logins |-> 2, linking |-> FALSE, entries |-> << >>],
      [logins |-> 1, linking |-> TRUE, entries |-> << Entry(<<"a">>, "b", "b"), Entry(<<"mine">>, "gone", "a") >>] }

OneScene == { [logins |-> 1, linking |-> FALSE, entries |-> << >>] }

OneAccount == [b |-> "b"]
=============================================================================
