------------------------- MODULE LoginSessionsProofs -------------------------
(***************************************************************************)
(* For any number of login sessions and of requests that start, poll,      *)
(* complete, cancel and link them: one request at a time completes a       *)
(* session, and a login whose credential was saved ends completed.         *)
(***************************************************************************)
EXTENDS LoginSessions, FiniteSetTheorems, TLAPS

\* A request on its way to insert its session; one that set completionDone.
Begins(q)    == q.at \in {"close superseded", "bind", "insert"}
Completes(q) == q.at \in {"exchange", "save", "finalize"} \/ (q.at = "close" /\ q.result # "none")

SoundRequest(q) ==
    /\ q.at # "idle" => q.s \in Sessions
    /\ q.at \in {"begin", "channel", "wait", "exchange", "save"} => q.result = "none"
    /\ q.at = "finalize" => q.result # "none"
    /\ q.at = "save" => q.cred.ref \in Identities

SoundSession(s) ==
    /\ s.callback => s.status = "pending" /\ ~s.completing
    /\ s.completing => s.status = "pending"
    /\ s.saved => s.completing \/ s.status = "completed"
    /\ s.status = "completed" => s.saved

\* A session is begun by one request, then completed by one; the one that
\* completes it knows whether the credential was saved.
Owned ==
    /\ \A q \in Requests : Begins(req[q]) => sessions[req[q].s].status = "starting"
    /\ \A q \in Requests : Completes(req[q]) =>
           /\ sessions[req[q].s].completing
           /\ sessions[req[q].s].saved <=> req[q].result = "completed"
    /\ \A p, q \in Requests :
           (p # q /\ req[p].s = req[q].s) => /\ ~(Begins(req[p]) /\ Begins(req[q]))
                                             /\ ~(Completes(req[p]) /\ Completes(req[q]))
    /\ \A s \in Sessions : sessions[s].completing =>
           \E q \in Requests : req[q].s = s /\ Completes(req[q])

LoginInv ==
    /\ TypeOK
    /\ \A q \in Requests : SoundRequest(req[q])
    /\ \A s \in Sessions : SoundSession(sessions[s])
    /\ Owned

-----------------------------------------------------------------------------
(***************************************************************************)
(* What a step of one request leaves of the ownership of sessions.         *)
(***************************************************************************)
\* What sweeping and superseding may do to a session that others work on.
Kept(s, t) ==
    /\ t.completing = s.completing
    /\ s.completing => t.saved = s.saved
    /\ s.status = "starting" => t.status = "starting"

LEMMA ExclusiveOwner ==
    ASSUME LoginInv, NEW q \in Requests, Begins(req[q]) \/ Completes(req[q])
    PROVE  /\ ~(Begins(req[q]) /\ Completes(req[q]))
           /\ \A p \in Requests \ {q} : req[p].s = req[q].s => ~Begins(req[p]) /\ ~Completes(req[p])
<1>1. req[q].s \in Sessions  BY DEF LoginInv, SoundRequest, Begins, Completes
<1>2. sessions[req[q].s].completing => sessions[req[q].s].status = "pending"
  BY <1>1 DEF LoginInv, SoundSession
<1> QED  BY <1>2 DEF LoginInv, Owned, Begins, Completes

\* A request that owns no session, and does not come to own one.
LEMMA BystanderKeepsOwners ==
    ASSUME LoginInv, NEW r \in Requests, \A q \in Requests \ {r} : req'[q] = req[q],
           \A s \in Sessions : Kept(sessions[s], sessions'[s]),
           ~Begins(req[r]), ~Completes(req[r]), ~Begins(req'[r]), ~Completes(req'[r])
    PROVE  Owned'
<1>1. \A q \in Requests : Begins(req'[q]) => Begins(req[q]) /\ req'[q] = req[q]
  OBVIOUS
<1>2. \A q \in Requests : Completes(req'[q]) => Completes(req[q]) /\ req'[q] = req[q]
  OBVIOUS
<1>3. \A q \in Requests : Begins(req'[q]) \/ Completes(req'[q]) => req[q].s \in Sessions
  BY <1>1, <1>2 DEF LoginInv, SoundRequest, Begins, Completes
<1>4. \A q \in Requests : Begins(req'[q]) => sessions'[req'[q].s].status = "starting"
  BY <1>1, <1>3 DEF LoginInv, Owned, Kept
<1>5. \A q \in Requests : Completes(req'[q]) =>
          /\ sessions'[req'[q].s].completing
          /\ sessions'[req'[q].s].saved <=> req'[q].result = "completed"
  BY <1>2, <1>3 DEF LoginInv, Owned, Kept
<1>6. \A p, q \in Requests :
          (p # q /\ req'[p].s = req'[q].s) => /\ ~(Begins(req'[p]) /\ Begins(req'[q]))
                                              /\ ~(Completes(req'[p]) /\ Completes(req'[q]))
  BY <1>1, <1>2 DEF LoginInv, Owned
<1>7. ASSUME NEW s \in Sessions, sessions'[s].completing
      PROVE  \E q \in Requests : req'[q].s = s /\ Completes(req'[q])
  <2>1. PICK q \in Requests : req[q].s = s /\ Completes(req[q])
    BY <1>7 DEF LoginInv, Owned, Kept
  <2>2. q # r  BY <2>1
  <2> QED  BY <2>1, <2>2
<1> QED  BY <1>4, <1>5, <1>6, <1>7 DEF Owned

\* A request alone with a session, before the step and after it.
LEMMA OwnerKeepsOwners ==
    ASSUME LoginInv, NEW r \in Requests, \A q \in Requests \ {r} : req'[q] = req[q],
           NEW s \in Sessions, \A t \in Sessions \ {s} : Kept(sessions[t], sessions'[t]),
           Begins(req[r]) \/ Completes(req[r]) => req[r].s = s,
           \A q \in Requests \ {r} : req[q].s = s => ~Begins(req[q]) /\ ~Completes(req[q]),
           Begins(req'[r]) => req'[r].s = s /\ sessions'[s].status = "starting",
           Completes(req'[r]) => req'[r].s = s /\ sessions'[s].completing
                                 /\ (sessions'[s].saved <=> req'[r].result = "completed"),
           sessions'[s].completing => Completes(req'[r])
    PROVE  Owned'
<1>1. \A q \in Requests \ {r} : Begins(req'[q]) \/ Completes(req'[q]) =>
          req'[q].s \in Sessions \ {s} /\ req'[q] = req[q]
  BY DEF LoginInv, SoundRequest, Begins, Completes
<1>2. \A q \in Requests : Begins(req'[q]) => sessions'[req'[q].s].status = "starting"
  BY <1>1 DEF LoginInv, Owned, Kept
<1>3. \A q \in Requests : Completes(req'[q]) =>
          /\ sessions'[req'[q].s].completing
          /\ sessions'[req'[q].s].saved <=> req'[q].result = "completed"
  BY <1>1 DEF LoginInv, Owned, Kept
<1>4. \A p, q \in Requests :
          (p # q /\ req'[p].s = req'[q].s) => /\ ~(Begins(req'[p]) /\ Begins(req'[q]))
                                              /\ ~(Completes(req'[p]) /\ Completes(req'[q]))
  BY <1>1 DEF LoginInv, Owned
<1>5. ASSUME NEW t \in Sessions, sessions'[t].completing
      PROVE  \E q \in Requests : req'[q].s = t /\ Completes(req'[q])
  <2>1. CASE t = s  BY <1>5, <2>1
  <2>2. CASE t # s
    <3>1. PICK q \in Requests : req[q].s = t /\ Completes(req[q])
      BY <1>5, <2>2 DEF LoginInv, Owned, Kept
    <3>2. q # r  BY <2>2, <3>1
    <3> QED  BY <3>1, <3>2
  <2> QED  BY <2>1, <2>2
<1> QED  BY <1>2, <1>3, <1>4, <1>5 DEF Owned

-----------------------------------------------------------------------------
(***************************************************************************)
(* Sessions and requests after one assignment.                             *)
(***************************************************************************)
LEMMA ForgottenFacts ==
    /\ Forgotten \in Session /\ SoundSession(Forgotten)
    /\ Unstarted \in Session /\ SoundSession(Unstarted)
  BY LoginAssumption DEF Forgotten, Unstarted, Session, SoundSession

LEMMA ClosedFacts ==
    ASSUME NEW s \in Session, SoundSession(s), s.status = "pending", ~s.completing,
           NEW status \in {"expired", "error"}
    PROVE  Closed(s, status) \in Session /\ SoundSession(Closed(s, status)) /\ Kept(s, Closed(s, status))
<1>1. Closed(s, status) \in Session  BY DEF Closed, Session, Live
<1>2. /\ Closed(s, status).status = status /\ Closed(s, status).callback = FALSE
      /\ Closed(s, status).completing = s.completing /\ Closed(s, status).saved = s.saved
  BY DEF Closed, Session
<1> QED  BY <1>1, <1>2 DEF SoundSession, Kept

LEMMA SweptFacts ==
    ASSUME NEW s \in Session, SoundSession(s), NEW old \in BOOLEAN
    PROVE  /\ Swept(s, old) \in Session /\ SoundSession(Swept(s, old)) /\ Kept(s, Swept(s, old))
           /\ s.status \in {"none", "starting"} => Swept(s, old) = s
<1>1. CASE s.status \in Terminal /\ old
  <2>1. ~s.completing  BY <1>1 DEF SoundSession, Terminal
  <2>2. Forgotten.completing = FALSE /\ s.completing \in BOOLEAN
    BY DEF Forgotten, Unstarted, Session
  <2> QED  BY <1>1, <2>1, <2>2, ForgottenFacts DEF Swept, Kept, Terminal
<1>2. CASE ~(s.status \in Terminal /\ old) /\ s.callback /\ s.due
  <2>1. s.status = "pending" /\ ~s.completing  BY <1>2 DEF SoundSession
  <2> QED  BY <1>2, <2>1, ClosedFacts DEF Swept
<1>3. CASE ~(s.status \in Terminal /\ old) /\ ~(s.callback /\ s.due)
  BY <1>3 DEF Swept, Kept
<1> QED  BY <1>1, <1>2, <1>3

LEMMA SupersededFacts ==
    ASSUME NEW s \in Session, SoundSession(s)
    PROVE  /\ Superseded(s) \in Session /\ SoundSession(Superseded(s)) /\ Kept(s, Superseded(s))
           /\ s.status \in {"none", "starting"} => Superseded(s) = s
<1>1. CASE s.status = "pending" /\ s.callback
  <2>1. ~s.completing  BY <1>1 DEF SoundSession
  <2> QED  BY <1>1, <2>1, ClosedFacts DEF Superseded
<1>2. CASE ~(s.status = "pending" /\ s.callback)
  BY <1>2 DEF Superseded, Kept
<1> QED  BY <1>1, <1>2

LEMMA IdleFacts ==
    /\ Idle \in Request /\ Idle.at = "idle" /\ Idle.op = "return" /\ Idle.s = NoSession
    /\ Idle.result = "none" /\ SoundRequest(Idle) /\ ~Begins(Idle) /\ ~Completes(Idle)
  BY DEF Idle, Request, Steps, Endings, Accounts, SoundRequest, Begins, Completes

LEMMA GoesFacts ==
    ASSUME LoginInv, NEW r \in Requests, NEW step \in Steps, Goes(r, step)
    PROVE  /\ req' \in [Requests -> Request] /\ \A q \in Requests \ {r} : req'[q] = req[q]
           /\ req'[r].at = step /\ req'[r].s = req[r].s /\ req'[r].op = req[r].op
           /\ req'[r].result = req[r].result /\ req'[r].cred = req[r].cred
<1>1. req \in [Requests -> Request] /\ req[r] \in Request  BY DEF LoginInv, TypeOK
<1>2. req' = [req EXCEPT ![r] = [req[r] EXCEPT !.at = step]]  BY DEF Goes
<1> DEFINE l == [req[r] EXCEPT !.at = step]
<1>3. /\ l \in Request /\ l.at = step /\ l.s = req[r].s /\ l.op = req[r].op
      /\ l.result = req[r].result /\ l.cred = req[r].cred
  BY <1>1 DEF Request
<1> HIDE DEF l
<1> QED  BY <1>1, <1>2, <1>3 DEF l

LEMMA EndsFacts ==
    ASSUME LoginInv, NEW r \in Requests, NEW result \in {"none", "error"},
           req' = [req EXCEPT ![r].at = "close", ![r].result = result]
    PROVE  /\ req' \in [Requests -> Request] /\ \A q \in Requests \ {r} : req'[q] = req[q]
           /\ req'[r].at = "close" /\ req'[r].s = req[r].s /\ req'[r].result = result
<1>1. req \in [Requests -> Request] /\ req[r] \in Request  BY DEF LoginInv, TypeOK
<1>2. req' = [req EXCEPT ![r] = [req[r] EXCEPT !.at = "close", !.result = result]]  OBVIOUS
<1> DEFINE l == [req[r] EXCEPT !.at = "close", !.result = result]
<1>3. l \in Request /\ l.at = "close" /\ l.s = req[r].s /\ l.result = result
  BY <1>1 DEF Request, Steps
<1> HIDE DEF l
<1> QED  BY <1>1, <1>2, <1>3 DEF l

LEMMA ReturnsFacts ==
    ASSUME LoginInv, NEW r \in Requests, Returns(r)
    PROVE  /\ req' \in [Requests -> Request] /\ \A q \in Requests \ {r} : req'[q] = req[q]
           /\ req'[r] = Idle
  BY IdleFacts DEF Returns, LoginInv, TypeOK

LEMMA AnswersFacts ==
    ASSUME LoginInv, NEW r \in Requests, req[r].at # "idle", NEW status, Answers(r, status)
    PROVE  /\ req' \in [Requests -> Request] /\ \A q \in Requests \ {r} : req'[q] = req[q]
           /\ SoundRequest(req'[r]) /\ ~Begins(req'[r]) /\ ~Completes(req'[r])
<1>1. CASE Goes(r, "load")
  <2>1. req[r].s \in Sessions  BY DEF LoginInv, SoundRequest
  <2> QED  BY <1>1, <2>1, GoesFacts DEF Steps, SoundRequest, Begins, Completes
<1>2. CASE Returns(r)
  BY <1>2, ReturnsFacts, IdleFacts
<1> QED  BY <1>1, <1>2 DEF Answers

LEMMA LeavesFacts ==
    ASSUME LoginInv, NEW r \in Requests, req[r].at # "idle", NEW s, NEW status, Leaves(r, s, status)
    PROVE  /\ req' \in [Requests -> Request] /\ \A q \in Requests \ {r} : req'[q] = req[q]
           /\ SoundRequest(req'[r]) /\ ~Begins(req'[r]) /\ ~Completes(req'[r])
<1>1. CASE req' = [req EXCEPT ![r].at = "close", ![r].result = "none"]
  <2>1. req[r].s \in Sessions  BY DEF LoginInv, SoundRequest
  <2> QED  BY <1>1, <2>1, EndsFacts DEF SoundRequest, Begins, Completes
<1>2. CASE Answers(r, status)  BY <1>2, AnswersFacts
<1> QED  BY <1>1, <1>2 DEF Leaves

\* A request that has just arrived, about session s.
LEMMA ArrivedFacts ==
    ASSUME LoginInv, NEW r \in Requests, NEW s \in Sessions, NEW op \in Endings,
           NEW step \in {"begin", "channel", "wait", "close", "load"},
           req' = [req EXCEPT ![r] = [Idle EXCEPT !.at = step, !.op = op, !.s = s]]
    PROVE  /\ req' \in [Requests -> Request] /\ \A q \in Requests \ {r} : req'[q] = req[q]
           /\ SoundRequest(req'[r]) /\ ~Begins(req'[r]) /\ ~Completes(req'[r])
<1> DEFINE l == [Idle EXCEPT !.at = step, !.op = op, !.s = s]
<1>1. l \in Request /\ l.at = step /\ l.s = s /\ l.result = "none"
  BY DEF Idle, Request, Steps, Accounts
<1> HIDE DEF l
<1>2. SoundRequest(l) /\ ~Begins(l) /\ ~Completes(l)
  BY <1>1 DEF SoundRequest, Begins, Completes
<1>3. req' = [req EXCEPT ![r] = l]  BY DEF l
<1> QED  BY <1>1, <1>2, <1>3 DEF LoginInv, TypeOK

StoreOK ==
    /\ DOMAIN store \subseteq Identities \cup DOMAIN FirstStore
    /\ \A i \in DOMAIN store : store[i] \in Accounts
    /\ DOMAIN region = DOMAIN store /\ \A i \in DOMAIN region : region[i] \in Regions

LEMMA Assembled ==
    ASSUME LoginInv, NEW r \in Requests, req' \in [Requests -> Request],
           \A q \in Requests \ {r} : req'[q] = req[q], SoundRequest(req'[r]),
           sessions' \in [Sessions -> Session], \A s \in Sessions : SoundSession(sessions'[s]),
           open' \subseteq Sessions, StoreOK', Owned'
    PROVE  LoginInv'
<1>1. TypeOK'  BY DEF TypeOK, StoreOK
<1>2. \A q \in Requests : SoundRequest(req'[q])  BY DEF LoginInv
<1> QED  BY <1>1, <1>2 DEF LoginInv

\* A step of a request that owns nothing, and that closes sessions at most.
LEMMA BystanderStep ==
    ASSUME LoginInv, NEW r \in Requests, req' \in [Requests -> Request],
           \A q \in Requests \ {r} : req'[q] = req[q], SoundRequest(req'[r]),
           ~Begins(req[r]), ~Completes(req[r]), ~Begins(req'[r]), ~Completes(req'[r]),
           \/ UNCHANGED sessions
           \/ \E s \in Sessions, t \in Session : /\ sessions' = [sessions EXCEPT ![s] = t]
                                                 /\ SoundSession(t) /\ Kept(sessions[s], t),
           open' \subseteq Sessions, UNCHANGED <<store, region>>
    PROVE  LoginInv'
<1>1. sessions \in [Sessions -> Session] /\ \A s \in Sessions : SoundSession(sessions[s])
  BY DEF LoginInv, TypeOK
<1>2. /\ sessions' \in [Sessions -> Session] /\ \A s \in Sessions : SoundSession(sessions'[s])
      /\ \A s \in Sessions : Kept(sessions[s], sessions'[s])
  BY <1>1 DEF Kept
<1>3. Owned'  BY <1>2, BystanderKeepsOwners
<1>4. StoreOK'  BY DEF LoginInv, TypeOK, StoreOK
<1> QED  BY <1>2, <1>3, <1>4, Assembled

\* A step that changes one session and no request: a bystander of them all.
LEMMA SessionOnly ==
    ASSUME LoginInv, NEW s \in Sessions, NEW t \in Session, sessions' = [sessions EXCEPT ![s] = t],
           SoundSession(t), Kept(sessions[s], t),
           UNCHANGED <<req, open, store, region>>
    PROVE  LoginInv'
<1>1. sessions \in [Sessions -> Session] /\ \A u \in Sessions : SoundSession(sessions[u])
  BY DEF LoginInv, TypeOK
<1>2. /\ sessions' \in [Sessions -> Session] /\ \A u \in Sessions : SoundSession(sessions'[u])
      /\ \A u \in Sessions : Kept(sessions[u], sessions'[u])
  BY <1>1 DEF Kept
<1>3. \A q \in Requests : Begins(req[q]) \/ Completes(req[q]) => req[q].s \in Sessions
  BY DEF LoginInv, SoundRequest, Begins, Completes
<1>4. Owned'
  <2>1. \A q \in Requests : Begins(req[q]) => sessions'[req[q].s].status = "starting"
    BY <1>2, <1>3 DEF LoginInv, Owned, Kept
  <2>2. \A q \in Requests : Completes(req[q]) =>
            /\ sessions'[req[q].s].completing
            /\ sessions'[req[q].s].saved <=> req[q].result = "completed"
    BY <1>2, <1>3 DEF LoginInv, Owned, Kept
  <2>3. \A u \in Sessions : sessions'[u].completing =>
            \E q \in Requests : req[q].s = u /\ Completes(req[q])
    BY <1>2 DEF LoginInv, Owned, Kept
  <2> QED  BY <2>1, <2>2, <2>3 DEF LoginInv, Owned
<1> QED  BY <1>2, <1>4 DEF LoginInv, TypeOK

-----------------------------------------------------------------------------
(***************************************************************************)
(* The invariant, at the start and through every step.                     *)
(***************************************************************************)
LEMMA InitLogin == Init => LoginInv
<1> SUFFICES ASSUME Init PROVE LoginInv  OBVIOUS
<1>1. PICK scene \in Scenes :
          sessions = [s \in Sessions |-> IF s <= scene.logins THEN Unstarted ELSE Forgotten]
  BY DEF Init
<1>2. /\ sessions \in [Sessions -> Session]
      /\ \A s \in Sessions : SoundSession(sessions[s]) /\ ~sessions[s].completing
  <2>1. ~Unstarted.completing /\ ~Forgotten.completing  BY DEF Unstarted, Forgotten
  <2> QED  BY <1>1, <2>1, ForgottenFacts
<1>3. req \in [Requests -> Request] /\ \A q \in Requests : req[q] = Idle
  BY IdleFacts DEF Init
<1>4. /\ open = {} /\ store = FirstStore /\ region = [i \in DOMAIN FirstStore |-> "default"]
  BY DEF Init
<1>5. TypeOK  BY <1>2, <1>3, <1>4, LoginAssumption DEF TypeOK, Accounts
<1>6. Owned  BY <1>2, <1>3, IdleFacts DEF Owned
<1> QED  BY <1>2, <1>3, <1>5, <1>6, IdleFacts DEF LoginInv

\* What holds of every session and every request.
LEMMA Unfolded ==
    ASSUME LoginInv
    PROVE  /\ sessions \in [Sessions -> Session] /\ req \in [Requests -> Request]
           /\ open \subseteq Sessions /\ StoreOK
           /\ \A s \in Sessions : sessions[s] \in Session /\ SoundSession(sessions[s])
           /\ \A q \in Requests : /\ req[q] \in Request /\ SoundRequest(req[q])
                                  /\ req[q].at # "idle" => req[q].s \in Sessions
  BY DEF LoginInv, TypeOK, StoreOK, SoundRequest

LEMMA SubmitCodeStep ==
    ASSUME LoginInv, NEW r \in Requests, NEW s \in Sessions, SubmitCode(r, s)
    PROVE  LoginInv'
<1>1. /\ req[r].at = "idle" /\ UNCHANGED <<sessions, open, store, region>>
      /\ req' = [req EXCEPT ![r] = [Idle EXCEPT !.at = "begin", !.op = "code", !.s = s]]
  BY DEF SubmitCode, Ask
<1>2. "code" \in Endings  BY DEF Endings
<1>3. /\ req' \in [Requests -> Request] /\ \A q \in Requests \ {r} : req'[q] = req[q]
      /\ SoundRequest(req'[r]) /\ ~Begins(req'[r]) /\ ~Completes(req'[r])
  BY <1>1, <1>2, ArrivedFacts
<1>4. ~Begins(req[r]) /\ ~Completes(req[r])  BY <1>1 DEF Begins, Completes
<1> QED  BY <1>1, <1>3, <1>4, Unfolded, BystanderStep

LEMMA CallbackStep ==
    ASSUME LoginInv, NEW r \in Requests, NEW s \in Sessions, Callback(r, s)
    PROVE  LoginInv'
<1>1. UNCHANGED <<open, store, region>> /\ "callback" \in Endings  BY DEF Callback, Endings
<1>2. CASE sessions[s].status # "starting"
  <2>1. /\ req[r].at = "idle" /\ UNCHANGED sessions
        /\ req' = [req EXCEPT ![r] = [Idle EXCEPT !.at = "begin", !.op = "callback", !.s = s]]
    BY <1>2 DEF Callback, Ask
  <2>2. /\ req' \in [Requests -> Request] /\ \A q \in Requests \ {r} : req'[q] = req[q]
        /\ SoundRequest(req'[r]) /\ ~Begins(req'[r]) /\ ~Completes(req'[r])
    BY <1>1, <2>1, ArrivedFacts
  <2>3. ~Begins(req[r]) /\ ~Completes(req[r])  BY <2>1 DEF Begins, Completes
  <2> QED  BY <1>1, <2>1, <2>2, <2>3, Unfolded, BystanderStep
<1>3. CASE sessions[s].status = "starting"
  <2>1. sessions' = [sessions EXCEPT ![s] = [sessions[s] EXCEPT !.early = TRUE]] /\ UNCHANGED req
    BY <1>3 DEF Callback
  <2> DEFINE t == [sessions[s] EXCEPT !.early = TRUE]
  <2>2. t \in Session /\ SoundSession(t) /\ Kept(sessions[s], t)
    BY Unfolded DEF Session, SoundSession, Kept
  <2> HIDE DEF t
  <2> QED  BY <1>1, <2>1, <2>2, SessionOnly DEF t
<1> QED  BY <1>2, <1>3

LEMMA PollStep ==
    ASSUME LoginInv, NEW r \in Requests, NEW s \in Sessions, NEW op \in {"return", "link"}, Poll(r, op, s)
    PROVE  LoginInv'
<1>1. /\ req[r].at = "idle" /\ UNCHANGED <<open, store, region>> /\ op \in Endings
  BY DEF Poll, Endings
<1>2. ~Begins(req[r]) /\ ~Completes(req[r])  BY <1>1 DEF Begins, Completes
<1>3. CASE /\ sessions[s].status = "pending" /\ ~sessions[s].completing
           /\ sessions' = [sessions EXCEPT ![s] = Closed(sessions[s], "expired")]
           /\ req' = [req EXCEPT ![r] = [Idle EXCEPT !.at = "close", !.op = op, !.s = s]]
  <2>1. /\ Closed(sessions[s], "expired") \in Session /\ SoundSession(Closed(sessions[s], "expired"))
        /\ Kept(sessions[s], Closed(sessions[s], "expired"))
    BY <1>3, ClosedFacts, Unfolded
  <2>2. /\ req' \in [Requests -> Request] /\ \A q \in Requests \ {r} : req'[q] = req[q]
        /\ SoundRequest(req'[r]) /\ ~Begins(req'[r]) /\ ~Completes(req'[r])
    BY <1>1, <1>3, ArrivedFacts
  <2> QED  BY <1>1, <1>2, <1>3, <2>1, <2>2, Unfolded, BystanderStep
<1>4. CASE /\ UNCHANGED sessions
           /\ \E step \in {"channel", "load"} :
                  req' = [req EXCEPT ![r] = [Idle EXCEPT !.at = step, !.op = op, !.s = s]]
  <2>1. /\ req' \in [Requests -> Request] /\ \A q \in Requests \ {r} : req'[q] = req[q]
        /\ SoundRequest(req'[r]) /\ ~Begins(req'[r]) /\ ~Completes(req'[r])
    BY <1>1, <1>4, ArrivedFacts
  <2> QED  BY <1>1, <1>2, <1>4, <2>1, Unfolded, BystanderStep
<1>5. \A step : [[Idle EXCEPT !.op = op, !.s = s] EXCEPT !.at = step] =
                [Idle EXCEPT !.at = step, !.op = op, !.s = s]
  BY Zenon DEF Idle
<1> QED  BY <1>3, <1>4, <1>5 DEF Poll

LEMMA CancelStep ==
    ASSUME LoginInv, NEW r \in Requests, NEW s \in Sessions, Cancel(r, s)
    PROVE  LoginInv'
<1>1. /\ req[r].at = "idle" /\ sessions[s].status = "pending" /\ UNCHANGED <<open, store, region>>
  BY DEF Cancel
<1>2. ~Begins(req[r]) /\ ~Completes(req[r])  BY <1>1 DEF Begins, Completes
<1>3. ASSUME NEW step \in {"wait", "close"},
             req' = [req EXCEPT ![r] = [[Idle EXCEPT !.s = s] EXCEPT !.at = step]]
      PROVE  /\ req' \in [Requests -> Request] /\ \A q \in Requests \ {r} : req'[q] = req[q]
             /\ SoundRequest(req'[r]) /\ ~Begins(req'[r]) /\ ~Completes(req'[r])
  <2> DEFINE l == [[Idle EXCEPT !.s = s] EXCEPT !.at = step]
  <2>1. l \in Request /\ l.at = step /\ l.s = s /\ l.result = "none"
    BY DEF Idle, Request, Steps, Endings, Accounts
  <2> HIDE DEF l
  <2>2. SoundRequest(l) /\ ~Begins(l) /\ ~Completes(l)
    BY <2>1 DEF SoundRequest, Begins, Completes
  <2>3. req' = [req EXCEPT ![r] = l]  BY <1>3 DEF l
  <2> QED  BY <2>1, <2>2, <2>3, Unfolded
<1>4. CASE sessions[s].completing
  <2>1. req' = [req EXCEPT ![r] = [[Idle EXCEPT !.s = s] EXCEPT !.at = "wait"]] /\ UNCHANGED sessions
    BY <1>4 DEF Cancel
  <2>2. /\ req' \in [Requests -> Request] /\ \A q \in Requests \ {r} : req'[q] = req[q]
        /\ SoundRequest(req'[r]) /\ ~Begins(req'[r]) /\ ~Completes(req'[r])
    BY <1>3, <2>1
  <2> QED  BY <1>1, <1>2, <2>1, <2>2, Unfolded, BystanderStep
<1>5. CASE ~sessions[s].completing
  <2>1. /\ req' = [req EXCEPT ![r] = [[Idle EXCEPT !.s = s] EXCEPT !.at = "close"]]
        /\ sessions' = [sessions EXCEPT ![s] = Closed(sessions[s], "error")]
    BY <1>5 DEF Cancel
  <2>2. /\ Closed(sessions[s], "error") \in Session /\ SoundSession(Closed(sessions[s], "error"))
        /\ Kept(sessions[s], Closed(sessions[s], "error"))
    BY <1>1, <1>5, ClosedFacts, Unfolded
  <2>3. /\ req' \in [Requests -> Request] /\ \A q \in Requests \ {r} : req'[q] = req[q]
        /\ SoundRequest(req'[r]) /\ ~Begins(req'[r]) /\ ~Completes(req'[r])
    BY <1>3, <2>1
  <2> QED  BY <1>1, <1>2, <2>1, <2>2, <2>3, Unfolded, BystanderStep
<1> QED  BY <1>4, <1>5

LEMMA ReadChannelStep ==
    ASSUME LoginInv, NEW r \in Requests, ReadChannel(r)
    PROVE  LoginInv'
<1> DEFINE s == req[r].s
<1>1. /\ req[r].at = "channel" /\ s \in Sessions /\ req[r].result = "none"
      /\ UNCHANGED <<open, store, region>>
  BY Unfolded DEF ReadChannel, SoundRequest
<1>2. ~Begins(req[r]) /\ ~Completes(req[r])  BY <1>1 DEF Begins, Completes
<1>3. CASE sessions[s].early
  <2>1. sessions' = [sessions EXCEPT ![s] = [sessions[s] EXCEPT !.early = FALSE]] /\ Goes(r, "begin")
    BY <1>3 DEF ReadChannel
  <2> DEFINE t == [sessions[s] EXCEPT !.early = FALSE]
  <2>2. t \in Session /\ SoundSession(t) /\ Kept(sessions[s], t)
    BY <1>1, Unfolded DEF Session, SoundSession, Kept
  <2> HIDE DEF t
  <2>3. /\ req' \in [Requests -> Request] /\ \A q \in Requests \ {r} : req'[q] = req[q]
        /\ req'[r].at = "begin" /\ req'[r].s = s /\ req'[r].result = "none"
    BY <1>1, <2>1, GoesFacts DEF Steps
  <2>4. SoundRequest(req'[r]) /\ ~Begins(req'[r]) /\ ~Completes(req'[r])
    BY <1>1, <2>3 DEF SoundRequest, Begins, Completes
  <2>5. sessions' = [sessions EXCEPT ![s] = t]  BY <2>1 DEF t
  <2> QED  BY <1>1, <1>2, <2>2, <2>3, <2>4, <2>5, Unfolded, BystanderStep
<1>4. CASE ~sessions[s].early
  <2>1. Answers(r, sessions[s].status) /\ UNCHANGED sessions  BY <1>4 DEF ReadChannel
  <2>2. /\ req' \in [Requests -> Request] /\ \A q \in Requests \ {r} : req'[q] = req[q]
        /\ SoundRequest(req'[r]) /\ ~Begins(req'[r]) /\ ~Completes(req'[r])
    BY <1>1, <2>1, AnswersFacts
  <2> QED  BY <1>1, <1>2, <2>1, <2>2, Unfolded, BystanderStep
<1> QED  BY <1>3, <1>4

LEMMA BeginStep ==
    ASSUME LoginInv, NEW r \in Requests, Begin(r)
    PROVE  LoginInv'
<1> DEFINE s == req[r].s
<1>1. /\ req[r].at = "begin" /\ s \in Sessions /\ req[r].result = "none"
      /\ BeginCompletion(r, s) /\ UNCHANGED <<open, store, region>>
  BY Unfolded DEF Begin, SoundRequest
<1>2. ~Begins(req[r]) /\ ~Completes(req[r])  BY <1>1 DEF Begins, Completes
<1>3. sessions[s] \in Session /\ SoundSession(sessions[s])  BY <1>1, Unfolded
<1>4. ASSUME NEW status, Leaves(r, s, status), UNCHANGED sessions
      PROVE  LoginInv'
  <2>1. /\ req' \in [Requests -> Request] /\ \A q \in Requests \ {r} : req'[q] = req[q]
        /\ SoundRequest(req'[r]) /\ ~Begins(req'[r]) /\ ~Completes(req'[r])
    BY <1>1, <1>4, LeavesFacts
  <2> QED  BY <1>1, <1>2, <1>4, <2>1, Unfolded, BystanderStep
<1>5. CASE Goes(r, "wait") /\ UNCHANGED sessions
  <2>1. /\ req' \in [Requests -> Request] /\ \A q \in Requests \ {r} : req'[q] = req[q]
        /\ req'[r].at = "wait" /\ req'[r].s = s /\ req'[r].result = "none"
    BY <1>1, <1>5, GoesFacts DEF Steps
  <2>2. SoundRequest(req'[r]) /\ ~Begins(req'[r]) /\ ~Completes(req'[r])
    BY <1>1, <2>1 DEF SoundRequest, Begins, Completes
  <2> QED  BY <1>1, <1>2, <1>5, <2>1, <2>2, Unfolded, BystanderStep
<1>6. CASE ~sessions[s].completing /\ sessions[s].status = "pending" /\ Expires(r, s)
  <2>1. /\ Closed(sessions[s], "expired") \in Session /\ SoundSession(Closed(sessions[s], "expired"))
        /\ Kept(sessions[s], Closed(sessions[s], "expired"))
    BY <1>3, <1>6, ClosedFacts
  <2>2. /\ req' \in [Requests -> Request] /\ \A q \in Requests \ {r} : req'[q] = req[q]
        /\ req'[r].at = "close" /\ req'[r].s = s /\ req'[r].result = "none"
    BY <1>6, EndsFacts DEF Expires
  <2>3. SoundRequest(req'[r]) /\ ~Begins(req'[r]) /\ ~Completes(req'[r])
    BY <1>1, <2>2 DEF SoundRequest, Begins, Completes
  <2>4. sessions' = [sessions EXCEPT ![s] = Closed(sessions[s], "expired")]  BY <1>6 DEF Expires
  <2> QED  BY <1>1, <1>2, <2>1, <2>2, <2>3, <2>4, Unfolded, BystanderStep
<1>7. CASE /\ ~sessions[s].completing /\ sessions[s].status = "pending"
           /\ sessions' = [sessions EXCEPT ![s].completing = TRUE, ![s].callback = FALSE]
           /\ TakesUp(r)
  <2> DEFINE t == [sessions[s] EXCEPT !.completing = TRUE, !.callback = FALSE]
  <2>1. sessions' = [sessions EXCEPT ![s] = t]  BY <1>7
  <2>2. ~sessions[s].saved  BY <1>3, <1>7 DEF SoundSession
  <2>3. t \in Session /\ SoundSession(t) /\ t.completing /\ ~t.saved /\ t.status = "pending"
    BY <1>3, <1>7, <2>2 DEF Session, SoundSession
  <2> HIDE DEF t
  <2>4. /\ sessions' \in [Sessions -> Session] /\ \A u \in Sessions : SoundSession(sessions'[u])
        /\ \A u \in Sessions \ {s} : Kept(sessions[u], sessions'[u])
        /\ sessions'[s] = t
    BY <1>1, <2>1, <2>3, Unfolded DEF Kept
  <2>5. /\ req' \in [Requests -> Request] /\ \A q \in Requests \ {r} : req'[q] = req[q]
        /\ req'[r].s = s
        /\ \/ req'[r].at = "exchange" /\ req'[r].result = "none"
           \/ req'[r].at = "close" /\ req'[r].result = "error"
    <3>1. CASE Goes(r, "exchange")  BY <1>1, <3>1, GoesFacts DEF Steps
    <3>2. CASE req' = [req EXCEPT ![r].at = "close", ![r].result = "error"]
      BY <3>2, EndsFacts
    <3> QED  BY <1>7, <3>1, <3>2 DEF TakesUp
  <2>6. SoundRequest(req'[r]) /\ ~Begins(req'[r]) /\ Completes(req'[r]) /\ req'[r].result # "completed"
    BY <1>1, <2>5 DEF SoundRequest, Begins, Completes
  <2>7. \A q \in Requests \ {r} : req[q].s = s => ~Begins(req[q]) /\ ~Completes(req[q])
    BY <1>7 DEF LoginInv, Owned
  <2>8. Owned'  BY <1>1, <1>2, <2>3, <2>4, <2>5, <2>6, <2>7, OwnerKeepsOwners
  <2>9. StoreOK' /\ open' \subseteq Sessions  BY <1>1, Unfolded DEF StoreOK
  <2> QED  BY <2>4, <2>5, <2>6, <2>8, <2>9, Assembled
<1> QED  BY <1>1, <1>4, <1>5, <1>6, <1>7 DEF BeginCompletion

LEMMA WaitStep ==
    ASSUME LoginInv, NEW r \in Requests, Wait(r)
    PROVE  LoginInv'
<1>1. req[r].at = "wait" /\ UNCHANGED <<sessions, open, store, region>>  BY DEF Wait
<1>2. ~Begins(req[r]) /\ ~Completes(req[r])  BY <1>1 DEF Begins, Completes
<1>3. /\ req' \in [Requests -> Request] /\ \A q \in Requests \ {r} : req'[q] = req[q]
      /\ SoundRequest(req'[r]) /\ ~Begins(req'[r]) /\ ~Completes(req'[r])
  <2>1. CASE Leaves(r, req[r].s, sessions[req[r].s].status)  BY <1>1, <2>1, LeavesFacts
  <2>2. CASE Returns(r)  BY <2>2, ReturnsFacts, IdleFacts
  <2> QED  BY <2>1, <2>2 DEF Wait
<1> QED  BY <1>1, <1>2, <1>3, Unfolded, BystanderStep

LEMMA LoadCredentialStep ==
    ASSUME LoginInv, NEW r \in Requests, LoadCredential(r)
    PROVE  LoginInv'
<1> DEFINE ref == sessions[req[r].s].ref
<1>1. /\ req[r].at = "load" /\ req[r].s \in Sessions /\ req[r] \in Request
      /\ UNCHANGED <<sessions, open, store, region>>
  BY Unfolded DEF LoadCredential
<1>2. ~Begins(req[r]) /\ ~Completes(req[r])  BY <1>1 DEF Begins, Completes
<1>3. /\ req' \in [Requests -> Request] /\ \A q \in Requests \ {r} : req'[q] = req[q]
      /\ SoundRequest(req'[r]) /\ ~Begins(req'[r]) /\ ~Completes(req'[r])
  <2>1. CASE ref \in DOMAIN store
    <3> DEFINE cred == [ref |-> ref, identity |-> store[ref]]
               l == [req[r] EXCEPT !.at = "link", !.cred = cred]
    <3>1. cred \in [ref : Identities \cup {""}, identity : Accounts]
      BY <1>1, <2>1, Unfolded DEF Session, StoreOK
    <3>2. req' = [req EXCEPT ![r] = l]  BY <2>1 DEF LoadCredential
    <3> HIDE DEF cred
    <3>3. l \in Request /\ l.at = "link" /\ l.s = req[r].s
      BY <1>1, <3>1 DEF Request, Steps
    <3> HIDE DEF l
    <3>4. SoundRequest(l) /\ ~Begins(l) /\ ~Completes(l)
      BY <1>1, <3>3 DEF SoundRequest, Begins, Completes
    <3> QED  BY <3>2, <3>3, <3>4, Unfolded
  <2>2. CASE ref \notin DOMAIN store
    BY <2>2, ReturnsFacts, IdleFacts DEF LoadCredential
  <2> QED  BY <2>1, <2>2
<1> QED  BY <1>1, <1>2, <1>3, Unfolded, BystanderStep

\* Linking changes the entries only, and returns.
LEMMA LinkStep ==
    ASSUME LoginInv, NEW r \in Requests, Link(r) \/ LinkFails(r)
    PROVE  LoginInv'
<1>1. req[r].at = "link" /\ Returns(r) /\ UNCHANGED <<sessions, open, store, region>>
  BY DEF Link, LinkFails
<1>2. ~Begins(req[r]) /\ ~Completes(req[r])  BY <1>1 DEF Begins, Completes
<1> QED  BY <1>1, <1>2, ReturnsFacts, IdleFacts, Unfolded, BystanderStep

LEMMA ElapseStep ==
    ASSUME LoginInv, NEW s \in Sessions, Elapse(s)
    PROVE  LoginInv'
<1>1. /\ sessions' = [sessions EXCEPT ![s] = [sessions[s] EXCEPT !.due = TRUE]]
      /\ UNCHANGED <<req, open, store, region>>
  BY DEF Elapse
<1> DEFINE t == [sessions[s] EXCEPT !.due = TRUE]
<1>2. t \in Session /\ SoundSession(t) /\ Kept(sessions[s], t)
  BY Unfolded DEF Session, SoundSession, Kept
<1> HIDE DEF t
<1> QED  BY <1>1, <1>2, SessionOnly DEF t

LEMMA DeleteAccountStep ==
    ASSUME LoginInv, NEW ref, DeleteAccount(ref)
    PROVE  LoginInv'
<1>1. /\ UNCHANGED <<sessions, open, req>>
      /\ store' = [i \in DOMAIN store \ {ref} |-> store[i]]
      /\ region' = [i \in DOMAIN store' |-> region[i]]
  BY DEF DeleteAccount
<1>2. DOMAIN store' \subseteq DOMAIN store /\ DOMAIN region' = DOMAIN store'  BY <1>1
<1>3. /\ \A i \in DOMAIN store' : store'[i] = store[i]
      /\ \A i \in DOMAIN region' : region'[i] = region[i]
  BY <1>1
<1>4. TypeOK'  BY <1>1, <1>2, <1>3, Unfolded DEF TypeOK, StoreOK
<1> QED  BY <1>1, <1>4 DEF LoginInv, Owned

\* A step of the request that begins or completes session s.
LEMMA OwnerStep ==
    ASSUME LoginInv, NEW r \in Requests, Begins(req[r]) \/ Completes(req[r]),
           req' \in [Requests -> Request], \A q \in Requests \ {r} : req'[q] = req[q],
           SoundRequest(req'[r]),
           sessions' \in [Sessions -> Session], \A t \in Sessions : SoundSession(sessions'[t]),
           \A t \in Sessions \ {req[r].s} : Kept(sessions[t], sessions'[t]),
           Begins(req'[r]) => req'[r].s = req[r].s /\ sessions'[req[r].s].status = "starting",
           Completes(req'[r]) => /\ req'[r].s = req[r].s /\ sessions'[req[r].s].completing
                                 /\ sessions'[req[r].s].saved <=> req'[r].result = "completed",
           sessions'[req[r].s].completing => Completes(req'[r]),
           open' \subseteq Sessions, StoreOK'
    PROVE  LoginInv'
<1>1. req[r].s \in Sessions  BY Unfolded DEF Begins, Completes
<1>2. \A q \in Requests \ {r} : req[q].s = req[r].s => ~Begins(req[q]) /\ ~Completes(req[q])
  BY ExclusiveOwner
<1> DEFINE s == req[r].s
<1>3. Begins(req[r]) \/ Completes(req[r]) => req[r].s = s  OBVIOUS
<1> HIDE DEF s
<1>4. Owned'  BY <1>1, <1>2, <1>3, OwnerKeepsOwners DEF s
<1> QED  BY <1>4, Assembled

LEMMA Sweeping ==
    ASSUME LoginInv, NEW old \in SUBSET Sessions
    PROVE  /\ AfterSweep(old) \in [Sessions -> Session]
           /\ \A t \in Sessions : /\ SoundSession(AfterSweep(old)[t]) /\ Kept(sessions[t], AfterSweep(old)[t])
                                  /\ sessions[t].status \in {"none", "starting"} =>
                                         AfterSweep(old)[t] = sessions[t]
<1>1. \A t \in Sessions : AfterSweep(old)[t] = Swept(sessions[t], t \in old)  BY DEF AfterSweep
<1>2. ASSUME NEW t \in Sessions
      PROVE  /\ Swept(sessions[t], t \in old) \in Session /\ SoundSession(Swept(sessions[t], t \in old))
             /\ Kept(sessions[t], Swept(sessions[t], t \in old))
             /\ sessions[t].status \in {"none", "starting"} => Swept(sessions[t], t \in old) = sessions[t]
  <2>1. sessions[t] \in Session /\ SoundSession(sessions[t]) /\ (t \in old) \in BOOLEAN  BY Unfolded
  <2> QED  BY <2>1, SweptFacts
<1>3. AfterSweep(old) \in [Sessions -> Session]  BY <1>2 DEF AfterSweep
<1> QED  BY <1>1, <1>2, <1>3

LEMMA SupersedeStep ==
    ASSUME LoginInv, NEW r \in Requests, NEW s \in Sessions, NEW where \in Regions, Supersede(r, s, where)
    PROVE  LoginInv'
<1>1. PICK old \in SUBSET Sessions :
          LET swept == AfterSweep(old)
              after == [t \in Sessions |-> Superseded(swept[t])]
          IN /\ sessions' = [after EXCEPT ![s] = [@ EXCEPT !.status = "starting", !.region = where]]
             /\ open' = {t \in open : sessions[t].callback => swept[t].callback}
             /\ req' = [req EXCEPT ![r] = [Idle EXCEPT !.at = "close superseded", !.s = s,
                            !.closing = {t \in Sessions : swept[t].callback /\ ~after[t].callback}]]
  BY DEF Supersede
<1>2. req[r].at = "idle" /\ sessions[s].status = "none" /\ UNCHANGED <<store, region>>
  BY DEF Supersede
<1> DEFINE swept == AfterSweep(old)
           after == [t \in Sessions |-> Superseded(swept[t])]
           closing == {t \in Sessions : swept[t].callback /\ ~after[t].callback}
           l == [Idle EXCEPT !.at = "close superseded", !.s = s, !.closing = closing]
           fresh == [sessions[s] EXCEPT !.status = "starting", !.region = where]
<1>3. /\ swept \in [Sessions -> Session]
      /\ \A t \in Sessions : SoundSession(swept[t]) /\ Kept(sessions[t], swept[t])
      /\ swept[s] = sessions[s]
  BY <1>2, Sweeping
<1> HIDE DEF swept
<1>4. \A t \in Sessions : /\ Superseded(swept[t]) \in Session /\ SoundSession(Superseded(swept[t]))
                          /\ Kept(swept[t], Superseded(swept[t]))
  BY <1>3, SupersededFacts
<1>5. Superseded(swept[s]) = sessions[s]
  <2>1. Superseded(swept[s]) = swept[s]  BY <1>2, <1>3, SupersededFacts
  <2> QED  BY <1>3, <2>1
<1>6. /\ after \in [Sessions -> Session] /\ after[s] = sessions[s]
      /\ \A t \in Sessions : SoundSession(after[t]) /\ Kept(sessions[t], after[t])
  BY <1>3, <1>4, <1>5 DEF Kept
<1>7. closing \subseteq Sessions  OBVIOUS
<1>8. sessions' = [after EXCEPT ![s] = fresh]  BY <1>1, <1>6 DEF swept
<1>9. req' = [req EXCEPT ![r] = l]  BY <1>1 DEF swept
<1> HIDE DEF after, closing
<1>10. /\ fresh \in Session /\ SoundSession(fresh) /\ ~fresh.completing /\ fresh.status = "starting"
  <2>1. sessions[s] \in Session /\ SoundSession(sessions[s])  BY Unfolded
  <2>2. /\ fresh \in Session /\ fresh.status = "starting" /\ fresh.completing = sessions[s].completing
        /\ fresh.callback = sessions[s].callback /\ fresh.saved = sessions[s].saved
    BY <2>1 DEF Session
  <2> HIDE DEF fresh
  <2> QED  BY <1>2, <2>1, <2>2 DEF SoundSession
<1>11. l \in Request /\ l.at = "close superseded" /\ l.s = s /\ l.result = "none"
  BY <1>7 DEF Idle, Request, Steps, Endings, Accounts
<1> HIDE DEF fresh, l
<1>12. SoundRequest(l) /\ Begins(l) /\ ~Completes(l)
  BY <1>11 DEF SoundRequest, Begins, Completes
<1>13. /\ req' \in [Requests -> Request] /\ \A q \in Requests \ {r} : req'[q] = req[q]
       /\ req'[r] = l
  BY <1>9, <1>11, Unfolded
<1>14. /\ sessions' \in [Sessions -> Session] /\ \A t \in Sessions : SoundSession(sessions'[t])
       /\ \A t \in Sessions \ {s} : Kept(sessions[t], sessions'[t])
       /\ sessions'[s] = fresh
  BY <1>6, <1>8, <1>10
<1>15. \A q \in Requests \ {r} : req[q].s = s => ~Begins(req[q]) /\ ~Completes(req[q])
  BY <1>2, Unfolded DEF LoginInv, Owned, SoundSession
<1>16. ~Begins(req[r]) /\ ~Completes(req[r])  BY <1>2 DEF Begins, Completes
<1>17. Owned'
  <2>1. \A q \in Requests \ {r} : req'[q] = req[q]  BY <1>13
  <2>2. Begins(req[r]) \/ Completes(req[r]) => req[r].s = s  BY <1>16
  <2>3. Begins(req'[r]) => req'[r].s = s /\ sessions'[s].status = "starting"
    BY <1>10, <1>11, <1>13, <1>14
  <2>4. ~Completes(req'[r]) /\ ~sessions'[s].completing  BY <1>10, <1>12, <1>13, <1>14
  <2>5. \A t \in Sessions \ {s} : Kept(sessions[t], sessions'[t])  BY <1>14
  <2> QED  BY <1>15, <2>1, <2>2, <2>3, <2>4, <2>5, OwnerKeepsOwners
<1>18. open' \subseteq Sessions
  <2>1. open' \subseteq open  BY <1>1
  <2> QED  BY <2>1, Unfolded
<1>19. StoreOK'  BY <1>2, Unfolded DEF StoreOK
<1> QED  BY <1>12, <1>13, <1>14, <1>17, <1>18, <1>19, Assembled

\* Before it inserts its session, a request closes servers and binds the port.
LEMMA OnItsWayStep ==
    ASSUME LoginInv, NEW r \in Requests, CloseSuperseded(r) \/ Bind(r)
    PROVE  LoginInv'
<1>1. PICK step \in {"bind", "insert"} : Goes(r, step)  BY DEF CloseSuperseded, Bind
<1>2. req[r].at \in {"close superseded", "bind"} /\ UNCHANGED <<sessions, store, region>>
  BY DEF CloseSuperseded, Bind
<1>3. Begins(req[r]) /\ ~Completes(req[r]) /\ req[r].s \in Sessions
  BY <1>2, Unfolded DEF Begins, Completes
<1>4. open' \subseteq Sessions  BY <1>3, Unfolded DEF CloseSuperseded, Bind
<1>5. /\ req' \in [Requests -> Request] /\ \A q \in Requests \ {r} : req'[q] = req[q]
      /\ req'[r].at = step /\ req'[r].s = req[r].s
  BY <1>1, GoesFacts DEF Steps
<1>6. SoundRequest(req'[r]) /\ ~Completes(req'[r])
  BY <1>3, <1>5 DEF SoundRequest, Completes
<1>7. sessions[req[r].s].status = "starting" /\ ~sessions[req[r].s].completing
  BY <1>3, Unfolded DEF LoginInv, Owned, SoundSession
<1>8. \A t \in Sessions : Kept(sessions[t], sessions'[t])  BY <1>2 DEF Kept
<1>9. StoreOK'  BY <1>2, Unfolded DEF StoreOK
<1> QED  BY <1>2, <1>3, <1>4, <1>5, <1>6, <1>7, <1>8, <1>9, Unfolded, OwnerStep

LEMMA PortInUseStep ==
    ASSUME LoginInv, NEW r \in Requests, PortInUse(r)
    PROVE  LoginInv'
<1> DEFINE s == req[r].s
<1>1. /\ req[r].at = "bind" /\ s \in Sessions /\ sessions' = [sessions EXCEPT ![s] = Forgotten]
      /\ Returns(r) /\ UNCHANGED <<open, store, region>>
  BY Unfolded DEF PortInUse
<1>2. Begins(req[r])  BY <1>1 DEF Begins
<1>3. /\ sessions' \in [Sessions -> Session] /\ \A t \in Sessions : SoundSession(sessions'[t])
      /\ \A t \in Sessions \ {s} : Kept(sessions[t], sessions'[t])
      /\ sessions'[s] = Forgotten
  BY <1>1, ForgottenFacts, Unfolded DEF Kept
<1>4. ~sessions'[s].completing  BY <1>3 DEF Forgotten, Unstarted
<1>5. StoreOK'  BY <1>1, Unfolded DEF StoreOK
<1>6. /\ req' \in [Requests -> Request] /\ \A q \in Requests \ {r} : req'[q] = req[q]
      /\ req'[r] = Idle
  BY <1>1, ReturnsFacts
<1> QED  BY <1>1, <1>2, <1>3, <1>4, <1>5, <1>6, IdleFacts, Unfolded, OwnerStep

LEMMA InsertStep ==
    ASSUME LoginInv, NEW r \in Requests, Insert(r)
    PROVE  LoginInv'
<1> DEFINE s == req[r].s
           swept == AfterSweep({})
           t == [sessions[s] EXCEPT !.status = "pending", !.callback = TRUE]
<1>1. /\ req[r].at = "insert" /\ s \in Sessions /\ Returns(r) /\ UNCHANGED <<store, region>>
      /\ sessions' = [swept EXCEPT ![s] = [swept[s] EXCEPT !.status = "pending", !.callback = TRUE]]
      /\ open' = {u \in open : sessions[u].callback => swept[u].callback}
  BY Unfolded DEF Insert
<1>2. Begins(req[r])  BY <1>1 DEF Begins
<1>3. sessions[s].status = "starting" /\ sessions[s] \in Session /\ SoundSession(sessions[s])
  BY <1>1, <1>2, Unfolded DEF LoginInv, Owned
<1>4. ~sessions[s].completing /\ ~sessions[s].saved  BY <1>3 DEF SoundSession
<1>5. t \in Session /\ SoundSession(t) /\ ~t.completing
  <2>1. /\ t \in Session /\ t.status = "pending" /\ t.completing = sessions[s].completing
        /\ t.saved = sessions[s].saved
    BY <1>3 DEF Session, Live
  <2> HIDE DEF t
  <2> QED  BY <1>4, <2>1 DEF SoundSession
<1>6. /\ swept \in [Sessions -> Session] /\ swept[s] = sessions[s]
      /\ \A u \in Sessions : SoundSession(swept[u]) /\ Kept(sessions[u], swept[u])
  BY <1>1, <1>3, Sweeping
<1>7. open' \subseteq Sessions  BY <1>1, Unfolded
<1> HIDE DEF swept
<1>8. sessions' = [swept EXCEPT ![s] = t]  BY <1>1, <1>6
<1> HIDE DEF t
<1>9. /\ sessions' \in [Sessions -> Session] /\ \A u \in Sessions : SoundSession(sessions'[u])
      /\ \A u \in Sessions \ {s} : Kept(sessions[u], sessions'[u])
      /\ sessions'[s] = t
  BY <1>1, <1>5, <1>6, <1>8
<1>10. StoreOK'  BY <1>1, Unfolded DEF StoreOK
<1>11. /\ req' \in [Requests -> Request] /\ \A q \in Requests \ {r} : req'[q] = req[q]
       /\ req'[r] = Idle
  BY <1>1, ReturnsFacts
<1> QED  BY <1>2, <1>5, <1>7, <1>9, <1>10, <1>11, IdleFacts, OwnerStep

\* A request that completes a session knows it, and whether it is saved.
LEMMA CompletesFacts ==
    ASSUME LoginInv, NEW r \in Requests, Completes(req[r])
    PROVE  /\ req[r].s \in Sessions /\ sessions[req[r].s] \in Session
           /\ SoundSession(sessions[req[r].s]) /\ sessions[req[r].s].completing
           /\ sessions[req[r].s].saved <=> req[r].result = "completed"
           /\ sessions[req[r].s].status = "pending" /\ ~sessions[req[r].s].callback
<1>1. req[r].s \in Sessions  BY Unfolded DEF Completes
<1> QED  BY <1>1, Unfolded DEF LoginInv, Owned, SoundSession

\* The exchange and the save that fails: the request's own fields change.
LEMMA CompleterOnly ==
    ASSUME LoginInv, NEW r \in Requests, Completes(req[r]), NEW l \in Request,
           req' = [req EXCEPT ![r] = l], SoundRequest(l), Completes(l), ~Begins(l), l.s = req[r].s,
           l.result = "completed" <=> req[r].result = "completed",
           UNCHANGED <<sessions, store, region>>, open' \subseteq Sessions
    PROVE  LoginInv'
<1>1. /\ req' \in [Requests -> Request] /\ \A q \in Requests \ {r} : req'[q] = req[q] /\ req'[r] = l
  BY Unfolded
<1>2. \A t \in Sessions : Kept(sessions[t], sessions'[t])  BY DEF Kept
<1>3. StoreOK'  BY Unfolded DEF StoreOK
<1>4. Completes(req'[r]) /\ ~Begins(req'[r]) /\ SoundRequest(req'[r]) /\ req'[r].s = req[r].s
      /\ (req'[r].result = "completed" <=> req[r].result = "completed")
  BY <1>1, Unfolded
<1>5. \A q \in Requests \ {r} : req'[q] = req[q]  BY Unfolded
<1> QED  BY <1>1, <1>2, <1>3, <1>4, <1>5, Unfolded, CompletesFacts, OwnerStep

\* The exchange is refused or times out, or the credential cannot be saved.
LEMMA RefusedStep ==
    ASSUME LoginInv, NEW r \in Requests, req[r].at \in {"exchange", "save"}, req[r].result = "none",
           req' = [req EXCEPT ![r].at = "close", ![r].result = "error"],
           UNCHANGED <<sessions, open, store, region>>
    PROVE  LoginInv'
<1> DEFINE l == [req[r] EXCEPT !.at = "close", !.result = "error"]
<1>1. Completes(req[r]) /\ req[r] \in Request /\ req[r].s \in Sessions
  BY Unfolded DEF Completes
<1>2. req' = [req EXCEPT ![r] = l]  OBVIOUS
<1>3. l \in Request /\ l.at = "close" /\ l.s = req[r].s /\ l.result = "error"
  BY <1>1 DEF Request, Steps
<1> HIDE DEF l
<1>4. SoundRequest(l) /\ Completes(l) /\ ~Begins(l)
  BY <1>1, <1>3 DEF SoundRequest, Completes, Begins
<1> QED  BY <1>1, <1>2, <1>3, <1>4, Unfolded, CompleterOnly

LEMMA ExchangeStep ==
    ASSUME LoginInv, NEW r \in Requests, Exchange(r)
    PROVE  LoginInv'
<1>1. /\ req[r].at = "exchange" /\ req[r] \in Request /\ req[r].result = "none" /\ req[r].s \in Sessions
      /\ UNCHANGED <<sessions, open, store, region>>
  BY Unfolded DEF Exchange, SoundRequest
<1>2. Completes(req[r])  BY <1>1 DEF Completes
<1>3. ASSUME NEW i \in Identities,
             req' = [req EXCEPT ![r].at = "save", ![r].cred = [ref |-> RefOf(i), identity |-> i]]
      PROVE  LoginInv'
  <2> DEFINE cred == [ref |-> RefOf(i), identity |-> i]
             l == [req[r] EXCEPT !.at = "save", !.cred = cred]
  <2>1. cred \in [ref : Identities \cup {""}, identity : Accounts] /\ cred.ref \in Identities
    BY DEF RefOf, Accounts
  <2>2. req' = [req EXCEPT ![r] = l]  BY <1>3
  <2> HIDE DEF cred
  <2>3. l \in Request /\ l.at = "save" /\ l.s = req[r].s /\ l.result = "none" /\ l.cred = cred
    BY <1>1, <2>1 DEF Request, Steps
  <2> HIDE DEF l
  <2>4. SoundRequest(l) /\ Completes(l) /\ ~Begins(l)
    BY <1>1, <2>1, <2>3 DEF SoundRequest, Completes, Begins
  <2> QED  BY <1>1, <1>2, <2>2, <2>3, <2>4, Unfolded, CompleterOnly
<1>4. CASE req' = [req EXCEPT ![r].at = "close", ![r].result = "error"]
  BY <1>1, <1>2, <1>4, RefusedStep
<1> QED  BY <1>3, <1>4 DEF Exchange

LEMMA SaveFailsStep ==
    ASSUME LoginInv, NEW r \in Requests, SaveFails(r)
    PROVE  LoginInv'
<1>1. /\ req[r].at = "save" /\ req[r].result = "none"
      /\ req' = [req EXCEPT ![r].at = "close", ![r].result = "error"]
      /\ UNCHANGED <<sessions, open, store, region>>
  BY Unfolded DEF SaveFails, SoundRequest
<1>2. Completes(req[r])  BY <1>1 DEF Completes
<1> QED  BY <1>1, <1>2, RefusedStep

LEMMA SaveStep ==
    ASSUME LoginInv, NEW r \in Requests, Save(r)
    PROVE  LoginInv'
<1> DEFINE s == req[r].s
           cred == req[r].cred
           env == EnvironmentSaved(cred)
           t == [sessions[s] EXCEPT !.saved = TRUE]
           l == [req[r] EXCEPT !.at = "close", !.result = "completed"]
<1>1. /\ req[r].at = "save" /\ req[r] \in Request /\ s \in Sessions /\ cred.ref \in Identities
      /\ cred.identity \in Accounts
      /\ store' = [i \in DOMAIN store \cup {cred.ref} |-> IF i = cred.ref THEN cred.identity ELSE store[i]]
      /\ region' = [i \in DOMAIN store' |-> IF i = cred.ref THEN env ELSE region[i]]
      /\ open' = open /\ sessions' = [sessions EXCEPT ![s] = t] /\ req' = [req EXCEPT ![r] = l]
  BY Unfolded DEF Save, SoundRequest, Request
<1>2. Completes(req[r])  BY <1>1 DEF Completes
<1>3. /\ sessions[s] \in Session /\ SoundSession(sessions[s]) /\ sessions[s].completing
  BY <1>2, CompletesFacts
<1>4. t \in Session /\ SoundSession(t) /\ t.completing /\ t.saved
  BY <1>3 DEF Session, SoundSession
<1>5. l \in Request /\ l.at = "close" /\ l.s = s /\ l.result = "completed"
  BY <1>1 DEF Request, Steps
<1>6. StoreOK'
  <2>1. StoreOK  BY Unfolded
  <2>2. DOMAIN store' = DOMAIN store \cup {cred.ref} /\ DOMAIN region' = DOMAIN store'  BY <1>1
  <2>3. DOMAIN store' \subseteq Identities \cup DOMAIN FirstStore  BY <1>1, <2>1, <2>2 DEF StoreOK
  <2>4. env \in Regions  BY <2>1, LoginAssumption DEF EnvironmentSaved, StoreOK
  <2>5. \A i \in DOMAIN store' : store'[i] \in Accounts  BY <1>1, <2>1, <2>2 DEF StoreOK
  <2> HIDE DEF env
  <2>6. \A i \in DOMAIN region' : region'[i] = IF i = cred.ref THEN env ELSE region[i]  BY <1>1
  <2>7. \A i \in DOMAIN region' : region'[i] \in Regions  BY <2>1, <2>2, <2>4, <2>6 DEF StoreOK
  <2> QED  BY <2>2, <2>3, <2>5, <2>7 DEF StoreOK
<1> HIDE DEF t, l
<1>7. SoundRequest(l) /\ Completes(l) /\ ~Begins(l)
  BY <1>1, <1>5 DEF SoundRequest, Completes, Begins
<1>8. /\ sessions' \in [Sessions -> Session] /\ \A u \in Sessions : SoundSession(sessions'[u])
      /\ \A u \in Sessions \ {s} : Kept(sessions[u], sessions'[u])
      /\ sessions'[s] = t
  BY <1>1, <1>4, Unfolded DEF Kept
<1>9. /\ req' \in [Requests -> Request] /\ \A q \in Requests \ {r} : req'[q] = req[q]
      /\ req'[r] = l
  BY <1>1, <1>5, Unfolded
<1>10. open' \subseteq Sessions  BY <1>1, Unfolded
<1> QED  BY <1>2, <1>4, <1>5, <1>6, <1>7, <1>8, <1>9, <1>10, OwnerStep

LEMMA CloseCallbackStep ==
    ASSUME LoginInv, NEW r \in Requests, CloseCallback(r)
    PROVE  LoginInv'
<1>1. /\ req[r].at = "close" /\ req[r].s \in Sessions /\ UNCHANGED <<sessions, store, region>>
      /\ open' \subseteq Sessions /\ ~Begins(req[r])
  BY Unfolded DEF CloseCallback, Begins
<1>2. CASE req[r].result = "none"
  <2>1. Answers(r, "none")  BY <1>2 DEF CloseCallback
  <2>2. ~Completes(req[r])  BY <1>1, <1>2 DEF Completes
  <2>3. /\ req' \in [Requests -> Request] /\ \A q \in Requests \ {r} : req'[q] = req[q]
        /\ SoundRequest(req'[r]) /\ ~Begins(req'[r]) /\ ~Completes(req'[r])
    BY <1>1, <2>1, AnswersFacts
  <2> QED  BY <1>1, <2>2, <2>3, BystanderStep
<1>3. CASE req[r].result # "none"
  <2> DEFINE l == [req[r] EXCEPT !.at = "finalize"]
  <2>1. req' = [req EXCEPT ![r] = l]  BY <1>3 DEF CloseCallback, Goes
  <2>2. Completes(req[r])  BY <1>1, <1>3 DEF Completes
  <2>3. l \in Request /\ l.at = "finalize" /\ l.s = req[r].s /\ l.result = req[r].result
    BY Unfolded DEF Request, Steps
  <2> HIDE DEF l
  <2>4. SoundRequest(l) /\ Completes(l) /\ ~Begins(l)
    BY <1>1, <1>3, <2>3 DEF SoundRequest, Completes, Begins
  <2> QED  BY <1>1, <2>1, <2>2, <2>3, <2>4, CompleterOnly
<1> QED  BY <1>2, <1>3

LEMMA FinalizeStep ==
    ASSUME LoginInv, NEW r \in Requests, Finalize(r)
    PROVE  LoginInv'
<1> DEFINE s == req[r].s
           result == req[r].result
           ref == IF result = "completed" THEN req[r].cred.ref ELSE sessions[s].ref
           t == [Closed(sessions[s], result) EXCEPT !.completing = FALSE, !.ref = ref]
<1>1. /\ req[r].at = "finalize" /\ req[r] \in Request /\ s \in Sessions /\ result \in {"error", "completed"}
      /\ Answers(r, result) /\ UNCHANGED <<open, store, region>>
  BY Unfolded DEF Finalize, SoundRequest, Request
<1>2. Completes(req[r])  BY <1>1 DEF Completes
<1>3. sessions[s] \in Session /\ (sessions[s].saved <=> result = "completed")
  BY <1>2, CompletesFacts
<1>4. ref \in Identities \cup {""}  BY <1>1, <1>3 DEF Session, Request
<1>5. sessions' = [sessions EXCEPT ![s] = t]  BY DEF Finalize
<1> HIDE DEF ref
<1>6. /\ t \in Session /\ t.status = result /\ t.callback = FALSE /\ t.completing = FALSE
      /\ t.saved = sessions[s].saved
  BY <1>1, <1>3, <1>4 DEF Closed, Session, Live
<1> HIDE DEF t
<1>7. SoundSession(t)  BY <1>1, <1>3, <1>6 DEF SoundSession
<1>8. /\ sessions' \in [Sessions -> Session] /\ \A u \in Sessions : SoundSession(sessions'[u])
      /\ \A u \in Sessions \ {s} : Kept(sessions[u], sessions'[u])
      /\ sessions'[s] = t
  BY <1>1, <1>5, <1>6, <1>7, Unfolded DEF Kept
<1>9. /\ req' \in [Requests -> Request] /\ \A q \in Requests \ {r} : req'[q] = req[q]
      /\ SoundRequest(req'[r]) /\ ~Begins(req'[r]) /\ ~Completes(req'[r])
  BY <1>1, AnswersFacts
<1>10. StoreOK' /\ open' \subseteq Sessions  BY <1>1, Unfolded DEF StoreOK
<1> QED  BY <1>2, <1>6, <1>8, <1>9, <1>10, OwnerStep

LEMMA NextLogin == LoginInv /\ [Next]_vars => LoginInv'
<1> SUFFICES ASSUME LoginInv, [Next]_vars PROVE LoginInv'  OBVIOUS
<1>1. ASSUME NEW r \in Requests, Arrive(r)  PROVE LoginInv'
  <2>1. PICK s \in Sessions :
            \/ \E where \in Regions : Supersede(r, s, where)
            \/ SubmitCode(r, s) \/ Callback(r, s)
            \/ \E op \in {"return", "link"} : Poll(r, op, s)
            \/ Cancel(r, s)
    BY <1>1 DEF Arrive
  <2>2. CASE \E where \in Regions : Supersede(r, s, where)  BY <2>2, SupersedeStep
  <2>3. CASE SubmitCode(r, s) \/ Callback(r, s)  BY <2>3, SubmitCodeStep, CallbackStep
  <2>4. CASE \E op \in {"return", "link"} : Poll(r, op, s)  BY <2>4, PollStep
  <2>5. CASE Cancel(r, s)  BY <2>5, CancelStep
  <2> QED  BY <2>1, <2>2, <2>3, <2>4, <2>5
<1>2. ASSUME NEW r \in Requests, Proceed(r)  PROVE LoginInv'
  <2>1. CASE CloseSuperseded(r) \/ Bind(r)  BY <2>1, OnItsWayStep
  <2>2. CASE PortInUse(r) \/ Insert(r)  BY <2>2, PortInUseStep, InsertStep
  <2>3. CASE ReadChannel(r) \/ Begin(r) \/ Wait(r)
    BY <2>3, ReadChannelStep, BeginStep, WaitStep
  <2>4. CASE Exchange(r) \/ Save(r) \/ SaveFails(r)
    BY <2>4, ExchangeStep, SaveStep, SaveFailsStep
  <2>5. CASE CloseCallback(r) \/ Finalize(r)  BY <2>5, CloseCallbackStep, FinalizeStep
  <2>6. CASE LoadCredential(r) \/ Link(r) \/ LinkFails(r)
    BY <2>6, LoadCredentialStep, LinkStep
  <2> QED  BY <1>2, <2>1, <2>2, <2>3, <2>4, <2>5, <2>6 DEF Proceed
<1>3. ASSUME NEW ref, DeleteAccount(ref)  PROVE LoginInv'  BY <1>3, DeleteAccountStep
<1>4. ASSUME NEW s \in Sessions, Elapse(s)  PROVE LoginInv'  BY <1>4, ElapseStep
<1>5. CASE UNCHANGED vars
  <2>1. UNCHANGED <<sessions, open, store, region, req>>  BY <1>5 DEF vars
  <2> QED  BY <2>1 DEF LoginInv, TypeOK, Owned
<1> QED  BY <1>1, <1>2, <1>3, <1>4, <1>5 DEF Next

\* Every session and request, the store and the callback servers keep their
\* types through every interleaving of logins.
THEOREM LoginTypes == Spec => []TypeOK
<1>1. LoginInv => TypeOK  BY DEF LoginInv
<1> QED  BY <1>1, InitLogin, NextLogin, PTL DEF Spec

\* internal/oauth/session.go: whichever of polls, pasted codes, callbacks,
\* cancellations, expiry and newer logins meet in a session, one request
\* exchanges its code, a login whose credential was saved ends completed, and
\* none is completed without.
THEOREM SavedLoginsComplete == Spec => []SavedLoginCompletes
<1>1. LoginInv => SavedLoginCompletes
  <2> SUFFICES ASSUME LoginInv, NEW s \in Sessions
               PROVE  /\ Cardinality({r \in Requests : req[r].s = s /\ Completing(r)}) =
                             IF sessions[s].completing THEN 1 ELSE 0
                      /\ sessions[s].saved => sessions[s].completing \/ sessions[s].status = "completed"
                      /\ sessions[s].status = "completed" => sessions[s].saved
    BY DEF SavedLoginCompletes
  <2> DEFINE owners == {r \in Requests : req[r].s = s /\ Completing(r)}
  <2>1. \A r \in Requests : Completing(r) <=> Completes(req[r])  BY DEF Completing, Completes
  <2>2. SoundSession(sessions[s])  BY Unfolded
  <2>3. CASE sessions[s].completing
    <3>1. PICK r \in Requests : req[r].s = s /\ Completes(req[r])  BY <2>3 DEF LoginInv, Owned
    <3>2. owners = {r}  BY <2>1, <3>1 DEF LoginInv, Owned
    <3>3. Cardinality(owners) = 1  BY <3>2, FS_Singleton
    <3> QED  BY <2>2, <2>3, <3>3 DEF SoundSession
  <2>4. CASE ~sessions[s].completing
    <3>1. owners = {}  BY <2>1, <2>4 DEF LoginInv, Owned
    <3>2. Cardinality(owners) = 0  BY <3>1, FS_EmptySet
    <3> QED  BY <2>2, <2>4, <3>2 DEF SoundSession
  <2> QED  BY <2>3, <2>4
<1> QED  BY <1>1, InitLogin, NextLogin, PTL DEF Spec
=============================================================================
