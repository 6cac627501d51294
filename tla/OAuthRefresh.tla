---------------------------- MODULE OAuthRefresh ----------------------------
(***************************************************************************)
(* The credential file of one OAuth account and everything that rewrites   *)
(* it: requests and the background maintainer that refresh it through the  *)
(* single flight of internal/oauth/session.go, a login, the web handler    *)
(* that deletes it and may put it back (internal/web/api.go), and a data   *)
(* import that owns the store until it commits or rolls back               *)
(* (internal/transfer/service.go).                                         *)
(*                                                                         *)
(* A token is named by the login or import it descends from (its line) and *)
(* by the number of rotations since (its gen); project says whether the    *)
(* credential has the Antigravity project it needs, which those of other   *)
(* providers always have.  Store methods are atomic (credentialWriteMu);   *)
(* storeTransferMu is a RWMutex whose waiting writer keeps new readers out. *)
(***************************************************************************)
EXTENDS Naturals, FiniteSets

CONSTANTS
    Callers,     \* concurrent callers of Service.refresh
    NoCaller,
    MaxLines,    \* bound: logins and imported credentials
    MaxGen,      \* bound: rotations per line
    MaxImports,  \* bound: imports attempted
    MaxDeletes   \* bound: deletions attempted

ASSUME OAuthRefreshAssumption ==
    /\ IsFiniteSet(Callers) /\ NoCaller \notin Callers
    /\ MaxLines \in Nat \ {0} /\ MaxGen \in Nat
    /\ MaxImports \in Nat /\ MaxDeletes \in Nat

Lines   == 1 .. MaxLines
NoToken == [line |-> 0, gen |-> 0, project |-> FALSE]
Tokens  == [line : Lines, gen : 0 .. MaxGen, project : BOOLEAN]

VARIABLES
    file,     \* the stored credential, or NoToken
    lines,    \* lines begun so far
    issued,   \* per line, the gen the upstream issued last
    pc,       \* where each caller of refresh is
    held,     \* the credential each loaded and is to refresh
    got,      \* what a refresh obtained or returns, NoToken: an error
    flight,   \* the entry of s.refreshes: the caller that leads, or NoCaller
    repairOnly, \* which callers are to complete what they loaded, not to renew it
    import,   \* the import under way
    deletion, \* the web deletion under way
    imports, deletes,
    floor,    \* history: no line below it may be stored since the last commit
    undone,   \* history: a deletion has been undone
    behind    \* history: callers that are to complete what they loaded, and had
              \* not begun to lead when another refresh was saved

accountVars == <<file, lines, issued, pc, held, got, flight, repairOnly, import, deletion,
                 imports, deletes, floor, undone, behind>>

NoImport   == [pc |-> "idle", replace |-> FALSE, brings |-> FALSE,
               existed |-> FALSE, backup |-> NoToken]
NoDeletion == [pc |-> "idle", backup |-> NoToken]

RefreshInit ==
    /\ \E project \in BOOLEAN : file = [line |-> 1, gen |-> 0, project |-> project]
    /\ lines = 1
    /\ issued = [l \in Lines |-> 0]
    /\ pc = [c \in Callers |-> "idle"]
    /\ held = [c \in Callers |-> NoToken] /\ got = [c \in Callers |-> NoToken]
    /\ flight = NoCaller /\ repairOnly = [c \in Callers |-> FALSE]
    /\ import = NoImport /\ deletion = NoDeletion
    /\ imports = 0 /\ deletes = 0 /\ floor = 1
    /\ undone = FALSE /\ behind = {}

-----------------------------------------------------------------------------
(* The locks. *)

\* Readers under a lock taken by Load and Save only.
ReadersNone == {}

\* Who holds the shared side of storeTransferMu across steps: refresh keeps it
\* from before its load until it returns.
Readers == {c \in Callers : pc[c] \notin {"idle", "begun"}}

OwnsStore == import.pc \in {"owned", "cleared", "stored"}
\* RLock succeeds: the writer neither owns the mutex nor waits for it.
CanRead == import.pc # "waiting" /\ ~OwnsStore
\* configMu of the web API: held by a deletion, and by an import from before
\* it asks for the store.
ConfigFree == deletion.pc = "idle" /\ import.pc \in {"idle", "analyzed"}

-----------------------------------------------------------------------------
(* Service.refresh, for a request, a 401 retry or the maintainer. *)

refreshVars == <<pc, held, got, flight, repairOnly, behind>>
othersIdle  == <<lines, import, deletion, imports, deletes, floor>>

RefreshBegins(c) ==
    /\ pc[c] = "idle"
    /\ pc' = [pc EXCEPT ![c] = "begun"]
    /\ UNCHANGED <<file, issued, held, got, flight, repairOnly, undone, behind, othersIdle>>

\* lockStoreForRefresh and Load: no credential, an unusable one or one that is
\* still good and complete answers at once; or there is one to refresh, because
\* it expires or the upstream rejected it or, with nothing else wrong, to complete
\* it only.
LoadCredential(c) ==
    /\ pc[c] = "begun" /\ CanRead
    /\ \/ /\ pc' = [pc EXCEPT ![c] = "answered"]
          /\ UNCHANGED <<held, repairOnly>>
       \/ /\ file # NoToken
          /\ pc' = [pc EXCEPT ![c] = "loaded"]
          /\ held' = [held EXCEPT ![c] = file]
          /\ \E repair \in BOOLEAN :
               (repair => ~file.project) /\ repairOnly' = [repairOnly EXCEPT ![c] = repair]
    /\ UNCHANGED <<file, issued, got, flight, undone, behind, othersIdle>>

\* Under s.mu: join the call under way for this credential, or lead a new one.
\* Nothing is loaded again.
JoinOrLead(c) ==
    /\ pc[c] = "loaded"
    /\ IF flight = NoCaller
         THEN /\ flight' = c /\ pc' = [pc EXCEPT ![c] = "leading"]
              /\ UNCHANGED <<repairOnly, behind>>
         ELSE /\ pc' = [pc EXCEPT ![c] = "waiting"] /\ UNCHANGED flight
              /\ repairOnly' = [repairOnly EXCEPT ![c] = FALSE] /\ behind' = behind \ {c}
    /\ UNCHANGED <<file, issued, held, got, undone, othersIdle>>

Obtain(c, t) == got' = [got EXCEPT ![c] = t] /\ pc' = [pc EXCEPT ![c] = "obtained"]

\* The project of the loaded credential is looked up with its access token; the
\* tokens stay as they were loaded.
WithProject(t) == [t EXCEPT !.project = TRUE]
RepairProject(c) ==
    /\ repairOnly[c]
    /\ Obtain(c, WithProject(held[c]))
    /\ UNCHANGED issued

\* What c obtained is such a repair.
Repaired(c) == repairOnly[c] /\ got[c] = WithProject(held[c])

\* The token endpoint rotates a current refresh token, and may honour a
\* superseded one.  A project once known is kept; a missing one may be found.
Renew(c) ==
    LET line == held[c].line IN
    /\ issued[line] < MaxGen
    /\ issued' = [issued EXCEPT ![line] = @ + 1]
    /\ \E project \in {held[c].project, TRUE} :
         Obtain(c, [line |-> line, gen |-> issued[line] + 1, project |-> project])

\* UpstreamAnswers falling back on the loaded credential when refused.
UpstreamAnswersStale(c) ==
    /\ pc[c] = "leading"
    /\ \/ RepairProject(c) \/ Renew(c)
       \/ /\ held[c].gen < issued[held[c].line]
          /\ got' = [got EXCEPT ![c] = held[c]]
          /\ pc' = [pc EXCEPT ![c] = "refused"] /\ UNCHANGED issued
       \/ pc' = [pc EXCEPT ![c] = "failed"] /\ UNCHANGED <<issued, got>>
    /\ UNCHANGED <<file, held, flight, repairOnly, undone, behind, othersIdle>>

\* A repair, or a renewal, which also follows a repair whose access token is
\* rejected; a superseded token is refused; or nothing is obtained in time.
UpstreamAnswers(c) ==
    /\ pc[c] = "leading"
    /\ \/ RepairProject(c) \/ Renew(c)
       \/ /\ held[c].gen < issued[held[c].line]
          /\ pc' = [pc EXCEPT ![c] = "refused"] /\ UNCHANGED <<issued, got>>
       \/ pc' = [pc EXCEPT ![c] = "failed"] /\ UNCHANGED <<issued, got>>
    /\ UNCHANGED <<file, held, flight, repairOnly, undone, behind, othersIdle>>

\* Save puts the given tokens over whatever is stored, and keeps a project that
\* they lack.
KeepProject(t) == [t EXCEPT !.project = @ \/ file.project]
SaveAnswer(c) ==
    /\ pc[c] = "obtained"
    /\ file' = KeepProject(got[c])
    /\ pc' = [pc EXCEPT ![c] = "saved"]
    \* A renewal whose project could not be set up is saved and still fails.
    /\ \/ got[c].project /\ UNCHANGED got
       \/ ~Repaired(c) /\ got' = [got EXCEPT ![c] = NoToken]
    /\ behind' = behind \union {d \in Callers : pc[d] = "loaded" /\ repairOnly[d]}
    /\ UNCHANGED <<issued, held, flight, repairOnly, undone, othersIdle>>

\* Save through a store that takes the shared lock again.
SaveRefreshedNested(c) == CanRead /\ SaveAnswer(c)

\* Save through the bypassing store.
SaveRefreshed(c) == SaveAnswer(c)

\* The upstream answered, but the answer is lost, cannot be used or cannot be
\* written.
LoseAnswer(c) ==
    /\ pc[c] = "obtained"
    /\ pc' = [pc EXCEPT ![c] = "failed"]
    /\ got' = [got EXCEPT ![c] = NoToken]
    /\ UNCHANGED <<file, issued, held, flight, repairOnly, undone, behind, othersIdle>>

\* Callers of S have their answer, and need nothing else any more.
Answered(S) ==
    /\ pc' = [d \in Callers |-> IF d \in S THEN "answered" ELSE pc[d]]
    /\ held' = [d \in Callers |-> IF d \in S THEN NoToken ELSE held[d]]
    /\ repairOnly' = [d \in Callers |-> d \notin S /\ repairOnly[d]]
    /\ behind' = behind \ S
    /\ UNCHANGED <<file, issued, undone, othersIdle>>

Waiting == {d \in Callers : pc[d] = "waiting"}

\* Finish that closes done only on success.
FinishQuietly(c) ==
    /\ pc[c] \in {"saved", "refused", "failed"}
    /\ flight' = NoCaller
    /\ LET told == IF got[c] = NoToken THEN {} ELSE Waiting IN
       /\ got' = [d \in Callers |-> IF d \in told THEN got[c] ELSE got[d]]
       /\ Answered(told \union {c})

\* Under s.mu again: the entry goes, and every follower has the outcome.
Finish(c) ==
    /\ pc[c] \in {"saved", "refused", "failed"}
    /\ flight' = NoCaller
    /\ got' = [d \in Callers |-> IF d \in Waiting THEN got[c] ELSE got[d]]
    /\ Answered(Waiting \union {c})

\* A follower whose own context ends first.
GiveUp(c) == c \in Waiting /\ Answered({c}) /\ UNCHANGED <<got, flight>>

\* The deferred release of the shared lock.
Return(c) ==
    /\ pc[c] = "answered"
    /\ pc' = [pc EXCEPT ![c] = "idle"]
    /\ got' = [got EXCEPT ![c] = NoToken]
    /\ UNCHANGED <<file, issued, held, flight, repairOnly, undone, behind, othersIdle>>

-----------------------------------------------------------------------------
(* Login and deletion: store methods that take the shared lock themselves. *)

\* completeSessionWithCode saves the credential of a new login, which is complete.
LoginSaves ==
    /\ CanRead /\ lines < MaxLines
    /\ lines' = lines + 1
    /\ file' = [line |-> lines + 1, gen |-> 0, project |-> TRUE]
    /\ UNCHANGED <<issued, refreshVars, import, deletion, imports, deletes, floor, undone>>

\* DeleteWithRollback, under configMu.
DeleteCredential ==
    /\ ConfigFree /\ CanRead
    /\ deletes < MaxDeletes /\ file # NoToken
    /\ deletes' = deletes + 1
    /\ deletion' = [pc |-> "removed", backup |-> file]
    /\ file' = NoToken
    /\ UNCHANGED <<lines, issued, refreshVars, import, imports, floor, undone>>

DeletionCommits ==
    /\ deletion.pc = "removed"
    /\ deletion' = NoDeletion
    /\ UNCHANGED <<file, lines, issued, refreshVars, import, imports, deletes, floor, undone>>

\* Saving the configuration or reloading it failed: the backup comes back.
DeletionRollsBack ==
    /\ deletion.pc = "removed" /\ CanRead
    /\ file' = deletion.backup /\ undone' = TRUE
    /\ deletion' = NoDeletion
    /\ UNCHANGED <<lines, issued, refreshVars, import, imports, deletes, floor>>

-----------------------------------------------------------------------------
(* A data import: transfer.Service.Analyze, then apply under configMu. *)

notImport == <<lines, issued, refreshVars, deletion, deletes>>

\* Analyze fingerprints the accounts that exist; it owns nothing yet.
Analyze ==
    /\ import.pc = "idle" /\ imports < MaxImports
    /\ imports' = imports + 1
    /\ import' = [NoImport EXCEPT !.pc = "analyzed", !.existed = (file # NoToken)]
    /\ UNCHANGED <<file, notImport, floor, undone>>

\* apply asks for the exclusive side: from here on new readers wait.
AskForStore ==
    /\ import.pc = "analyzed" /\ ConfigFree
    /\ import' = [import EXCEPT !.pc = "waiting"]
    /\ UNCHANGED <<file, notImport, imports, floor, undone>>

\* With the store in hand: refuse if the reviewed accounts changed, else take
\* the snapshot.  Whether the plan replaces, and brings this account, was fixed
\* with the analysis and matters from here on.
OwnStore ==
    /\ import.pc = "waiting" /\ Readers = {}
    /\ \/ import.existed # (file # NoToken) /\ import' = NoImport
       \/ /\ import.existed = (file # NoToken)
          /\ \E replace, brings \in BOOLEAN :
               import' = [import EXCEPT !.pc = "owned", !.backup = file,
                                        !.replace = replace, !.brings = brings]
    /\ UNCHANGED <<file, notImport, imports, floor, undone>>

ClearDirectory ==
    /\ import.pc = "owned" /\ import.replace
    /\ file' = NoToken
    /\ import' = [import EXCEPT !.pc = "cleared"]
    /\ UNCHANGED <<notImport, imports, floor, undone>>

\* The credentials of the dataset go to the transfer store.
SaveImported ==
    /\ import.pc = IF import.replace THEN "cleared" ELSE "owned"
    /\ IF import.brings
         THEN /\ lines < MaxLines
              /\ lines' = lines + 1
              /\ \E project \in BOOLEAN :
                   file' = KeepProject([line |-> lines + 1, gen |-> 0, project |-> project])
         ELSE UNCHANGED <<file, lines>>
    /\ import' = [import EXCEPT !.pc = "stored"]
    /\ UNCHANGED <<issued, refreshVars, deletion, imports, deletes, floor, undone>>

\* Configuration, usage and reload went well: the lock is released.
ImportCommits ==
    /\ import.pc = "stored"
    /\ floor' = IF import.brings THEN file.line
                ELSE IF import.replace THEN lines + 1 ELSE floor
    /\ import' = NoImport
    /\ UNCHANGED <<file, notImport, imports, undone>>

\* Any step failed: the directory is restored, or is left cleared when the
\* copy back fails too.
ImportRollsBack ==
    /\ OwnsStore
    /\ file' \in {import.backup, NoToken}
    /\ import' = NoImport
    /\ UNCHANGED <<notImport, imports, floor, undone>>

-----------------------------------------------------------------------------

RefreshStep(c) ==
    \/ LoadCredential(c) \/ JoinOrLead(c) \/ UpstreamAnswers(c)
    \/ SaveRefreshed(c) \/ Finish(c) \/ Return(c)

ImportStep == AskForStore \/ OwnStore \/ ClearDirectory \/ SaveImported \/ ImportCommits
                \/ ImportRollsBack

RefreshNext ==
    \/ \E c \in Callers : RefreshBegins(c) \/ RefreshStep(c) \/ LoseAnswer(c) \/ GiveUp(c)
    \/ LoginSaves
    \/ DeleteCredential \/ DeletionCommits \/ DeletionRollsBack
    \/ Analyze \/ ImportStep

RefreshSpec == RefreshInit /\ [][RefreshNext]_accountVars

\* Goroutines run, the HTTP clients of the providers time out after 30 s, and
\* a RWMutex admits its readers once the writer is done.
FairRefreshSpec ==
    /\ RefreshSpec
    /\ \A c \in Callers : WF_accountVars(RefreshStep(c))
    /\ WF_accountVars(DeletionCommits) /\ WF_accountVars(ImportStep)

-----------------------------------------------------------------------------
(* Properties. *)

\* A caller past its load has a credential, and exactly the caller that leads
\* is entered in s.refreshes.
TypeOK ==
    /\ file \in Tokens \union {NoToken} /\ lines \in Lines
    /\ issued \in [Lines -> 0 .. MaxGen]
    /\ pc \in [Callers -> {"idle", "begun", "loaded", "waiting", "leading", "obtained",
                           "saved", "refused", "failed", "answered"}]
    /\ \A c \in Callers :
         /\ held[c] \in IF pc[c] \in {"idle", "begun", "answered"} THEN {NoToken} ELSE Tokens
         /\ got[c] \in Tokens \union {NoToken}
         /\ flight = c <=> pc[c] \in {"leading", "obtained", "saved", "refused", "failed"}
    /\ import.pc \in {"idle", "analyzed", "waiting", "owned", "cleared", "stored"}
    /\ import.backup \in Tokens \union {NoToken}
    /\ deletion \in [pc : {"idle", "removed"}, backup : Tokens \union {NoToken}]
    /\ floor \in 1 .. MaxLines + 1
    /\ repairOnly \in [Callers -> BOOLEAN] /\ undone \in BOOLEAN /\ behind \subseteq Callers

\* What a committed import replaced or removed stays gone: no refresh that
\* began before the import puts an older account back
\* (internal/oauth/session.go:395, release-notes/v0.22.0.md:15).
ImportStands == file = NoToken \/ file.line >= floor

\* A repair that completes what its caller should have loaded again.
MayStepBack(c) == Repaired(c) /\ (c \in behind \/ undone)

\* A token the upstream has rotated never replaces its successor in the file,
\* whoever writes: refreshes and repairs in any order, a login, or an import that
\* restores its snapshot (internal/oauth/store_transfer_lock.go:5,
\* docs/en/config-reference.md:219).  Two exceptions: undoing a deletion, whose
\* backup may be older than a refresh that saved since; and a repair by a caller
\* that had loaded, and did not lead yet, when another refresh was saved
\* (internal/oauth/session.go:420), or any repair once a deletion has been undone.
\* A repairer that leads in time is safe, whatever the others do.
RotationKept ==
    [][(file'.line = file.line /\ file'.gen < file.gen)
         => DeletionRollsBack \/ \E c \in Callers : SaveRefreshed(c) /\ MayStepBack(c)]_accountVars

\* A caller that is answered, by its own refresh or by the one it joined, never
\* gets an older token than the one it had loaded itself, unless it joined such a
\* repair.
NoStepBack ==
    [][\A c \in Callers :
         /\ pc[c] # "answered" /\ pc'[c] = "answered"
         /\ got'[c] # NoToken /\ got'[c].line = held[c].line /\ got'[c].gen < held[c].gen
         => \E d \in Callers \ {c} : flight = d /\ MayStepBack(d)]_accountVars

\* Every caller of refresh returns: leaders and followers do not wait for each
\* other, nor for an import that waits for them.
EveryCallerReturns == \A c \in Callers : pc[c] = "begun" ~> pc[c] = "idle"

\* An import that asked for the credential store commits, rolls back or is
\* refused.
ImportEnds == import.pc = "waiting" ~> import.pc = "idle"
=============================================================================
