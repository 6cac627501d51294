---------------------------- MODULE LoginSessions ----------------------------
(***************************************************************************)
(* OAuth logins of one provider kind: the sessions of internal/oauth/      *)
(* session.go, the callback server each one listens on, and the management *)
(* API requests that start, poll, complete, cancel and link them           *)
(* (internal/web/oauth_api.go), with the deletion of accounts beside them. *)
(* A request is a goroutine; it holds s.mu only within one step, and       *)
(* configMu only within Link and DeleteAccount.                            *)
(*                                                                         *)
(* A session that has not been started, or has been swept, is not in       *)
(* s.sessions.  `completing` is completionDone # nil; `callback` is        *)
(* session.callback # nil; `early` is what the callback server received    *)
(* before it had a handler.  `saved` is history: the code has no such      *)
(* field.                                                                  *)
(***************************************************************************)
EXTENDS AccountLinking

CONSTANTS NSessions,        \* bound: the logins that are started
          Requests,
          Identities,       \* the accounts that users log in with
          Regions,          \* the request regions they choose from
          FixedPort,        \* the provider registers one callback port
          FirstStore,       \* the accounts that are there already
          Scenes            \* bound: [logins, linking, entries], see Init

ASSUME LoginAssumption ==
    /\ NSessions \in Nat \ {0}
    /\ FixedPort \in BOOLEAN
    /\ "default" \in Regions

VARIABLES sessions, open, store, region, entries, req,
          linking           \* fixed in Init: whether accounts are linked and deleted
vars == <<sessions, open, store, region, entries, req, linking>>

Sessions == 1..NSessions

\* The account's ref is derived from its identity; each login of an account
\* finds the ref of the credential that is already there.
RefOf(identity) == identity

Live == {"pending", "completed", "error", "expired"}
Terminal == {"completed", "error", "expired"}
\* What a request does when the session's work is over: return its answer,
\* link the account (a pasted code may also stop waiting), close the server.
Endings == {"return", "link", "code", "callback"}
Steps == {"idle", "close superseded", "bind", "insert", "channel", "begin", "wait",
          "exchange", "save", "close", "finalize", "load", "link"}

NoSession == 0
Unstarted == [status |-> "none", callback |-> FALSE, completing |-> FALSE, early |-> FALSE,
              due |-> FALSE, region |-> "default", ref |-> "",
              saved |-> FALSE]
Idle == [at |-> "idle", op |-> "return", s |-> NoSession, closing |-> {},
         result |-> "none", cred |-> [ref |-> "", identity |-> ""]]

Accounts == Identities \cup {""} \cup {FirstStore[i] : i \in DOMAIN FirstStore}
Session  == [status : Live \cup {"none", "starting", "swept"}, callback : BOOLEAN,
             completing : BOOLEAN, early : BOOLEAN, due : BOOLEAN,
             region : Regions, ref : Identities \cup {""}, saved : BOOLEAN]
Request  == [at : Steps, op : Endings, s : Sessions \cup {NoSession}, closing : SUBSET Sessions,
             result : {"none", "error", "completed"},
             cred : [ref : Identities \cup {""}, identity : Accounts]]

TypeOK ==
    /\ sessions \in [Sessions -> Session]
    /\ open \subseteq Sessions
    /\ DOMAIN store \subseteq Identities \cup DOMAIN FirstStore
    /\ \A i \in DOMAIN store : store[i] \in Accounts
    /\ DOMAIN region = DOMAIN store /\ \A i \in DOMAIN region : region[i] \in Regions
    /\ req \in [Requests -> Request]

Forgotten == [Unstarted EXCEPT !.status = "swept"]

\* A scene says how many logins are started, which provider entries there are,
\* and whether accounts are linked to them and deleted while that goes on.
Init ==
    \E scene \in Scenes :
    /\ sessions = [s \in Sessions |-> IF s <= scene.logins THEN Unstarted ELSE Forgotten]
    /\ linking = scene.linking
    /\ entries = scene.entries
    /\ open = {}
    /\ store = FirstStore
    /\ region = [i \in DOMAIN FirstStore |-> "default"]
    /\ req = [r \in Requests |-> Idle]

Goes(r, step) == req' = [req EXCEPT ![r].at = step]
Returns(r) == req' = [req EXCEPT ![r] = Idle]
Known(s) == sessions[s].status \in Live

(***************************************************************************)
(* Starting a login: sweep and supersede, close their servers, bind the    *)
(* callback port, insert the session with its handler.                     *)
(***************************************************************************)

Closed(s, status) == [s EXCEPT !.status = status, !.callback = FALSE, !.due = FALSE]

\* Sessions that ended and are old enough are forgotten; one whose time is
\* over and that still owns its server expires.
Swept(s, old) ==
    IF s.status \in Terminal /\ old THEN Forgotten
    ELSE IF s.callback /\ s.due THEN Closed(s, "expired")
    ELSE s
AfterSweep(old) == [t \in Sessions |-> Swept(sessions[t], t \in old)]

\* Only a session that still owns its callback server is superseded: one that
\* is being completed goes on.
Superseded(s) ==
    IF s.status = "pending" /\ s.callback THEN Closed(s, "error") ELSE s

Supersede(r, s, where) ==
    /\ req[r].at = "idle"
    /\ sessions[s].status = "none"
    /\ \A t \in 1..(s - 1) : sessions[t].status # "none"
    /\ \E old \in SUBSET Sessions :
       LET swept == AfterSweep(old)
           after == [t \in Sessions |-> Superseded(swept[t])]
       IN /\ sessions' = [after EXCEPT ![s] = [@ EXCEPT !.status = "starting", !.region = where]]
          /\ open' = {t \in open : sessions[t].callback => swept[t].callback}
          /\ req' = [req EXCEPT ![r] = [Idle EXCEPT !.at = "close superseded", !.s = s,
                         !.closing = {t \in Sessions : swept[t].callback /\ ~after[t].callback}]]
    /\ UNCHANGED <<store, region, entries, linking>>

CloseSuperseded(r) ==
    /\ req[r].at = "close superseded"
    /\ open' = open \ req[r].closing
    /\ Goes(r, "bind")
    /\ UNCHANGED <<sessions, store, region, entries, linking>>

Bind(r) ==
    /\ req[r].at = "bind"
    /\ FixedPort => open = {}
    /\ open' = open \cup {req[r].s}
    /\ Goes(r, "insert")
    /\ UNCHANGED <<sessions, store, region, entries, linking>>

PortInUse(r) ==
    /\ req[r].at = "bind"
    /\ FixedPort /\ open # {}
    /\ sessions' = [sessions EXCEPT ![req[r].s] = Forgotten]
    /\ Returns(r)
    /\ UNCHANGED <<open, store, region, entries, linking>>

Insert(r) ==
    /\ req[r].at = "insert"
    /\ LET s == req[r].s
           swept == AfterSweep({})
       IN /\ sessions' = [swept EXCEPT ![s] = [@ EXCEPT !.status = "pending", !.callback = TRUE]]
          /\ open' = {t \in open : sessions[t].callback => swept[t].callback}
    /\ Returns(r)
    /\ UNCHANGED <<store, region, entries, linking>>

(***************************************************************************)
(* Completing a login.  Whoever sets completionDone first exchanges the    *)
(* code; everybody else waits for it to be closed.                         *)
(***************************************************************************)

\* The step of a request whose work on the session is over: it links the
\* account when that was asked for and the login completed.
Answers(r, status) ==
    IF req[r].op \in {"code", "link"} /\ status = "completed"
    THEN Goes(r, "load")
    ELSE Returns(r)

\* A callback request closes its server when it has been handled.
Leaves(r, s, status) ==
    IF req[r].op = "callback"
    THEN req' = [req EXCEPT ![r].at = "close", ![r].result = "none"]
    ELSE Answers(r, status)

Expires(r, s) ==
    /\ sessions' = [sessions EXCEPT ![s] = Closed(@, "expired")]
    /\ req' = [req EXCEPT ![r].at = "close", ![r].result = "none"]

\* The result is a code, or it is an error or carries the state of another
\* session.
TakesUp(r) ==
    \/ Goes(r, "exchange")
    \/ req' = [req EXCEPT ![r].at = "close", ![r].result = "error"]

\* Mutant: a session that is being completed is completed again.
BeginAgain(r, s) ==
    \/ ~Known(s) /\ Leaves(r, s, "none") /\ UNCHANGED sessions
    \/ sessions[s].status = "pending" /\ sessions[s].due /\ ~sessions[s].completing /\ Expires(r, s)
    \/ sessions[s].status \in Terminal /\ Leaves(r, s, sessions[s].status) /\ UNCHANGED sessions
    \/ /\ sessions[s].status = "pending" /\ (sessions[s].completing \/ ~sessions[s].due)
       /\ sessions' = [sessions EXCEPT ![s].completing = TRUE, ![s].callback = FALSE]
       /\ TakesUp(r)

BeginCompletion(r, s) ==
    \/ ~Known(s) /\ Leaves(r, s, "none") /\ UNCHANGED sessions
    \/ Known(s) /\ sessions[s].completing /\ Goes(r, "wait") /\ UNCHANGED sessions
    \/ ~sessions[s].completing /\ sessions[s].status = "pending" /\ sessions[s].due /\ Expires(r, s)
    \/ ~sessions[s].completing /\ sessions[s].status \in Terminal /\ Leaves(r, s, sessions[s].status) /\ UNCHANGED sessions
    \/ /\ ~sessions[s].completing /\ sessions[s].status = "pending" /\ ~sessions[s].due
       /\ sessions' = [sessions EXCEPT ![s].completing = TRUE, ![s].callback = FALSE]
       /\ TakesUp(r)

Begin(r) ==
    /\ req[r].at = "begin"
    /\ BeginCompletion(r, req[r].s)
    /\ UNCHANGED <<open, store, region, entries, linking>>

Ask(r, op, s, step) ==
    /\ req[r].at = "idle"
    /\ req' = [req EXCEPT ![r] = [Idle EXCEPT !.at = step, !.op = op, !.s = s]]

\* The user pastes a code or the URL of the callback.
\* (About any other session the answer comes at once and changes nothing.)
SubmitCode(r, s) ==
    /\ linking
    /\ sessions[s].status \in {"pending", "completed"}
    /\ Ask(r, "code", s, "begin")
    /\ UNCHANGED <<sessions, open, store, region, entries, linking>>

\* The browser reaches the callback server of s; before SetHandler the result
\* is put in the server's channel of capacity one, where a poll finds it.
Callback(r, s) ==
    /\ s \in open
    /\ IF sessions[s].status # "starting"
       THEN Ask(r, "callback", s, "begin") /\ UNCHANGED sessions
       ELSE /\ ~sessions[s].early
            /\ sessions' = [sessions EXCEPT ![s].early = TRUE]
            /\ UNCHANGED req
    /\ UNCHANGED <<open, store, region, entries, linking>>

\* pollLogin: GET of the session, and the first half of its link request.
Poll(r, op, s) ==
    /\ req[r].at = "idle"
    /\ op = "link" => linking
    /\ LET session == sessions[s]
           as == [Idle EXCEPT !.op = op, !.s = s]
       IN \/ /\ session.status = "pending" /\ ~session.completing /\ session.due
             /\ sessions' = [sessions EXCEPT ![s] = Closed(@, "expired")]
             /\ req' = [req EXCEPT ![r] = [as EXCEPT !.at = "close"]]
          \/ /\ session.status = "pending" /\ session.callback /\ ~session.due
             /\ req' = [req EXCEPT ![r] = [as EXCEPT !.at = "channel"]]
             /\ UNCHANGED sessions
          \/ /\ session.status = "completed" /\ op = "link"
             /\ req' = [req EXCEPT ![r] = [as EXCEPT !.at = "load"]]
             /\ UNCHANGED sessions
    /\ UNCHANGED <<open, store, region, entries, linking>>

ReadChannel(r) ==
    /\ req[r].at = "channel"
    /\ LET s == req[r].s
       IN IF sessions[s].early
          THEN sessions' = [sessions EXCEPT ![s].early = FALSE] /\ Goes(r, "begin")
          ELSE Answers(r, sessions[s].status) /\ UNCHANGED sessions
    /\ UNCHANGED <<open, store, region, entries, linking>>

\* Waiting on completionDone; the request of a pasted code also ends when its
\* client leaves.
Wait(r) ==
    /\ req[r].at = "wait"
    /\ LET s == req[r].s
       IN \/ ~sessions[s].completing /\ Leaves(r, s, sessions[s].status)
          \/ sessions[s].completing /\ req[r].op = "code" /\ Returns(r)
    /\ UNCHANGED <<sessions, open, store, region, entries, linking>>

\* The exchange ends: with an account's tokens, refused, or at its timeout.
Exchange(r) ==
    /\ req[r].at = "exchange"
    /\ \/ \E i \in Identities :
             req' = [req EXCEPT ![r].at = "save", ![r].cred = [ref |-> RefOf(i), identity |-> i]]
       \/ req' = [req EXCEPT ![r].at = "close", ![r].result = "error"]
    /\ UNCHANGED <<sessions, open, store, region, entries, linking>>

\* The environment of an account that is already in the store is kept.  For a
\* new one the session's choice would be used, but the snapshot that
\* beginSessionCompletion takes does not carry it.
EnvironmentSaved(cred) ==
    IF cred.ref \in DOMAIN store THEN region[cred.ref] ELSE "default"

Save(r) ==
    /\ req[r].at = "save"
    /\ LET cred == req[r].cred
           env == EnvironmentSaved(cred)
       IN /\ store' = [i \in DOMAIN store \cup {cred.ref} |-> IF i = cred.ref THEN cred.identity ELSE store[i]]
          /\ region' = [i \in DOMAIN store' |-> IF i = cred.ref THEN env ELSE region[i]]
    /\ sessions' = [sessions EXCEPT ![req[r].s].saved = TRUE]
    /\ req' = [req EXCEPT ![r].at = "close", ![r].result = "completed"]
    /\ UNCHANGED <<open, entries, linking>>

SaveFails(r) ==
    /\ req[r].at = "save"
    /\ req' = [req EXCEPT ![r].at = "close", ![r].result = "error"]
    /\ UNCHANGED <<sessions, open, store, region, entries, linking>>

CloseCallback(r) ==
    /\ req[r].at = "close"
    /\ open' = open \ {req[r].s}
    /\ IF req[r].result = "none" THEN Answers(r, "none") ELSE Goes(r, "finalize")
    /\ UNCHANGED <<sessions, store, region, entries, linking>>

\* Mutant: completionDone is not closed when the session could not be completed.
FinalizeSuccess(r) ==
    /\ req[r].at = "finalize"
    /\ sessions' = [sessions EXCEPT ![req[r].s] =
           [Closed(@, req[r].result) EXCEPT !.completing = req[r].result = "error"]]
    /\ Answers(r, req[r].result)
    /\ UNCHANGED <<open, store, region, entries, linking>>

Finalize(r) ==
    /\ req[r].at = "finalize"
    /\ sessions' = [sessions EXCEPT ![req[r].s] =
           [Closed(@, req[r].result) EXCEPT !.completing = FALSE,
                     !.ref = IF req[r].result = "completed" THEN req[r].cred.ref ELSE sessions[req[r].s].ref]]
    /\ Answers(r, req[r].result)
    /\ UNCHANGED <<open, store, region, entries, linking>>

\* Mutant: a cancellation does not look whether the session is being completed.
CancelAnyway(r, s) ==
    /\ req[r].at = "idle"
    /\ sessions[s].status = "pending"
    /\ sessions' = [sessions EXCEPT ![s] = Closed(@, "error")]
    /\ req' = [req EXCEPT ![r] = [Idle EXCEPT !.at = "close", !.s = s]]
    /\ UNCHANGED <<open, store, region, entries, linking>>

Cancel(r, s) ==
    /\ req[r].at = "idle"
    /\ sessions[s].status = "pending"
    /\ LET as == [Idle EXCEPT !.s = s]
       IN IF sessions[s].completing
          THEN /\ req' = [req EXCEPT ![r] = [as EXCEPT !.at = "wait"]]
               /\ UNCHANGED sessions
          ELSE /\ sessions' = [sessions EXCEPT ![s] = Closed(@, "error")]
               /\ req' = [req EXCEPT ![r] = [as EXCEPT !.at = "close"]]
    /\ UNCHANGED <<open, store, region, entries, linking>>

(***************************************************************************)
(* Linking the account to the client's configuration.  The credential is   *)
(* loaded before configMu is taken.                                        *)
(***************************************************************************)

LoadCredential(r) ==
    /\ req[r].at = "load"
    /\ LET ref == sessions[req[r].s].ref
       IN IF ref \in DOMAIN store
          THEN req' = [req EXCEPT ![r].at = "link", ![r].cred = [ref |-> ref, identity |-> store[ref]]]
          ELSE Returns(r)
    /\ UNCHANGED <<sessions, open, store, region, entries, linking>>

Link(r) ==
    /\ req[r].at = "link"
    /\ entries' = EnsureLinked(entries, req[r].cred, store)
    /\ Returns(r)
    /\ UNCHANGED <<sessions, open, store, region, linking>>

\* The configuration cannot be saved, or not be reloaded and is put back.
LinkFails(r) ==
    /\ req[r].at = "link"
    /\ Returns(r)
    /\ UNCHANGED <<sessions, open, store, region, entries, linking>>

\* An account that is gone from the store is deleted from the entries too.
DeleteAccount(ref) ==
    /\ linking
    /\ store' = [i \in DOMAIN store \ {ref} |-> store[i]]
    /\ region' = [i \in DOMAIN store' |-> region[i]]
    /\ entries' = WithoutAccount(entries, ref)
    /\ UNCHANGED <<sessions, open, req, linking>>

\* The five minutes of a session are over.
Elapse(s) ==
    /\ sessions[s].status = "pending" /\ ~sessions[s].due
    /\ sessions' = [sessions EXCEPT ![s].due = TRUE]
    /\ UNCHANGED <<open, store, region, entries, req, linking>>

\* What a request does once it is under way.
Proceed(r) ==
    \/ CloseSuperseded(r) \/ Bind(r) \/ PortInUse(r) \/ Insert(r)
    \/ ReadChannel(r) \/ Begin(r) \/ Wait(r) \/ Exchange(r) \/ Save(r) \/ SaveFails(r)
    \/ CloseCallback(r) \/ Finalize(r) \/ LoadCredential(r) \/ Link(r) \/ LinkFails(r)

Arrive(r) ==
    \E s \in Sessions :
        \/ \E where \in Regions : Supersede(r, s, where)
        \/ SubmitCode(r, s) \/ Callback(r, s)
        \/ \E op \in {"return", "link"} : Poll(r, op, s)
        \/ Cancel(r, s)

Next ==
    \/ \E r \in Requests : Arrive(r) \/ Proceed(r)
    \/ \E ref \in DOMAIN store \cup {entries[i].ref : i \in DOMAIN entries} : DeleteAccount(ref)
    \/ \E s \in Sessions : Elapse(s)

\* A goroutine that can go on does; an exchange ends at its timeout.
Fairness == \A r \in Requests : WF_vars(Proceed(r))
Spec == Init /\ [][Next]_vars /\ Fairness

(***************************************************************************)
(* Properties.                                                             *)
(***************************************************************************)

\* A request that completes a session: it set completionDone.
Completing(r) ==
    \/ req[r].at \in {"exchange", "save", "finalize"}
    \/ req[r].at = "close" /\ req[r].result # "none"

\* The authorization code of a session is exchanged by one request, and a login
\* whose credential has been saved ends completed, whatever polls, pasted
\* codes, cancellations, expiry and newer logins run beside it; and no session
\* is completed without its credential having been saved.
SavedLoginCompletes ==
    \A s \in Sessions :
        /\ Cardinality({r \in Requests : req[r].s = s /\ Completing(r)}) = IF sessions[s].completing THEN 1 ELSE 0
        /\ sessions[s].saved => sessions[s].completing \/ sessions[s].status = "completed"
        /\ sessions[s].status = "completed" => sessions[s].saved

\* Every management or callback request returns: whoever completes a session
\* lets go of those that wait for it.
EveryRequestReturns == \A r \in Requests : (req[r].at # "idle") ~> (req[r].at = "idle")

\* Linking never takes over the entry of another account whose credential is
\* in the store, and leaves at most one entry for each ref.
LinksStayApart ==
    [][ /\ \A i, j \in DOMAIN entries' : i # j /\ entries'[i].ref # "" => entries'[i].ref # entries'[j].ref
        /\ \A i \in DOMAIN entries :
               LET ref == entries[i].ref
               IN ref \in DOMAIN store \cap DOMAIN store' =>
                      \E j \in DOMAIN entries' : entries'[j].name = entries[i].name /\ entries'[j].ref = ref
      ]_<<entries, store>>
=============================================================================
