---------------------------- MODULE CredentialProofs ----------------------------
(***************************************************************************)
(* What stays true of the credential store: of one account that is         *)
(* refreshed while imports come and go, and of one import that meets the   *)
(* web interface, the proxies and the disk.                                *)
(*                                                                         *)
(* For any number of callers, logins, rotations, imports and deletions: at *)
(* most one caller leads a refresh; what a committed import replaced or    *)
(* removed is never put back, because whoever may still write an older     *)
(* credential keeps the import out; and no refresh goes back to a token    *)
(* that has been rotated, but for a repair that loaded before another      *)
(* refresh was saved and leads after it.                                   *)
(*                                                                         *)
(* For any users, imports and first disks, and any number of faults: an    *)
(* import that does not succeed changes nothing anybody can see, and loses *)
(* no credential.  AllOrNothing is proved step by step as far as the       *)
(* provers go: every step but the commit is a step of ImportPromise or a   *)
(* stutter.  What the commit shows is computed by folds over the files and *)
(* the datasets; that it is what the import means stays with TLC.          *)
(***************************************************************************)
EXTENDS OAuthRefresh, DataTransfer, SequenceTheorems, TLAPS

(***************************************************************************)
(* One account (OAuthRefresh)                                              *)
(***************************************************************************)

Leading == {"leading", "obtained", "saved", "refused", "failed"}
Joined  == {"loaded", "waiting"} \union Leading

\* A credential of a line that exists and that no committed import has replaced.
Allowed(t) == t = NoToken \/ (floor <= t.line /\ t.line <= lines)

\* The types the argument needs.
Shape ==
    /\ file \in Tokens \union {NoToken} /\ lines \in Lines
    /\ issued \in [Lines -> 0 .. MaxGen]
    /\ pc \in [Callers -> {"idle", "begun", "answered"} \union Joined]
    /\ held \in [Callers -> Tokens \union {NoToken}]
    /\ got \in [Callers -> Tokens \union {NoToken}]
    /\ import \in [pc : {"idle", "analyzed", "waiting", "owned", "cleared", "stored"},
                   replace : BOOLEAN, brings : BOOLEAN, existed : BOOLEAN,
                   backup : Tokens \union {NoToken}]
    /\ deletion \in [pc : {"idle", "removed"}, backup : Tokens \union {NoToken}]
    /\ floor \in Nat \ {0} /\ floor <= lines + 1
    /\ repairOnly \in [Callers -> BOOLEAN] /\ undone \in BOOLEAN /\ behind \subseteq Callers

\* A caller holds a credential exactly while it refreshes it, and what it may still
\* save is of the same line.
SavesOwnLine ==
    \A c \in Callers :
      /\ pc[c] \in Joined <=> held[c] # NoToken
      /\ pc[c] = "obtained" => got[c] # NoToken /\ got[c].line = held[c].line

\* Nobody who may still write has a credential an import replaced.
HoldersAllowed ==
    /\ \A c \in Callers : pc[c] \in Joined => Allowed(held[c])
    /\ deletion.pc = "removed" => Allowed(deletion.backup)
    /\ OwnsStore => Allowed(import.backup)

\* The owner of the store is alone with it: no refresh under way, no deletion
\* left to undo.
ImportAlone ==
    /\ OwnsStore => Readers = {}
    /\ import.pc \in {"waiting", "owned", "cleared", "stored"} => deletion.pc = "idle"

\* What the import has written when it commits.
StoredByImport ==
    /\ import.pc = "cleared" => file = NoToken
    /\ import.pc = "stored" =>
         IF import.brings THEN file # NoToken
         ELSE import.replace => file = NoToken

\* Exactly the caller that leads a refresh is entered in s.refreshes.
LeaderEntered == \A c \in Callers : flight = c <=> pc[c] \in Leading

IInv ==
    /\ Shape /\ SavesOwnLine /\ LeaderEntered
    /\ HoldersAllowed /\ ImportAlone /\ StoredByImport /\ Allowed(file)

-----------------------------------------------------------------------------
LEMMA InitIInv == RefreshInit => IInv
<1> SUFFICES ASSUME RefreshInit PROVE IInv  OBVIOUS
<1>1. file \in Tokens /\ file.line = 1
  BY OAuthRefreshAssumption DEF RefreshInit, Tokens, Lines
<1>2. 1 \in Lines /\ 0 \in 0 .. MaxGen
  BY OAuthRefreshAssumption DEF Lines
<1>3. Shape
  <2>1. /\ NoDeletion \in [pc : {"idle", "removed"}, backup : Tokens \union {NoToken}]
        /\ NoImport \in [pc : {"idle", "analyzed", "waiting", "owned", "cleared", "stored"},
                         replace : BOOLEAN, brings : BOOLEAN, existed : BOOLEAN,
                         backup : Tokens \union {NoToken}]
    BY DEF NoImport, NoDeletion
  <2>2. /\ lines \in Lines /\ issued \in [Lines -> 0 .. MaxGen]
        /\ floor \in Nat \ {0} /\ floor <= lines + 1
    BY <1>2 DEF RefreshInit
  <2> QED  BY <1>1, <2>1, <2>2 DEF RefreshInit, Shape
<1>4. SavesOwnLine /\ LeaderEntered /\ HoldersAllowed
  BY OAuthRefreshAssumption
  DEF RefreshInit, SavesOwnLine, LeaderEntered, HoldersAllowed, Joined, Leading, OwnsStore,
      NoImport, NoDeletion
<1>5. ImportAlone /\ StoredByImport /\ Allowed(file)
  BY <1>1 DEF RefreshInit, ImportAlone, StoredByImport, Allowed, OwnsStore, NoImport
<1> QED  BY <1>3, <1>4, <1>5 DEF IInv

\* No caller of refresh changes what an import or a deletion holds.
LEMMA RefreshIInv ==
    ASSUME IInv, NEW c \in Callers,
           RefreshBegins(c) \/ RefreshStep(c) \/ LoseAnswer(c) \/ GiveUp(c)
    PROVE  IInv'
<1> USE OAuthRefreshAssumption
        DEF IInv, Shape, SavesOwnLine, LeaderEntered, HoldersAllowed, ImportAlone,
            StoredByImport, Allowed,
            Joined, Leading, OwnsStore, Readers, CanRead, othersIdle, Tokens
<1>1. CASE RefreshBegins(c)
  BY <1>1 DEF RefreshBegins
<1>2. CASE LoadCredential(c)
  BY <1>2 DEF LoadCredential
<1>3. CASE JoinOrLead(c)
  <2>1. CASE flight = NoCaller
    BY <1>3, <2>1 DEF JoinOrLead
  <2>2. CASE flight # NoCaller
    <3>1. /\ pc' = [pc EXCEPT ![c] = "waiting"] /\ repairOnly' \in [Callers -> BOOLEAN]
          /\ behind' \subseteq Callers /\ pc[c] = "loaded"
          /\ UNCHANGED <<file, issued, held, got, undone, flight, othersIdle>>
      BY <1>3, <2>2 DEF JoinOrLead
    <3> HIDE DEF Tokens
    <3> QED  BY <3>1
  <2> QED  BY <2>1, <2>2
<1>4. CASE UpstreamAnswers(c)
  <2>1. /\ held[c] \in Tokens /\ held[c].line \in Lines
        /\ UNCHANGED <<file, held, flight, repairOnly, undone, behind, othersIdle>>
    BY <1>4 DEF UpstreamAnswers
  <2>2. ASSUME NEW t \in Tokens, t.line = held[c].line, Obtain(c, t), pc[c] = "leading",
               issued' \in [Lines -> 0 .. MaxGen]
        PROVE  IInv'
    <3>1. /\ got' \in [Callers -> Tokens \union {NoToken}] /\ got'[c] = t
          /\ \A d \in Callers \ {c} : got'[d] = got[d]
      BY <2>2 DEF Obtain
    <3>2. /\ pc' \in [Callers -> {"idle", "begun", "answered"} \union Joined]
          /\ pc'[c] = "obtained" /\ \A d \in Callers \ {c} : pc'[d] = pc[d]
      BY <2>2 DEF Obtain
    <3>3. t # NoToken
      BY <2>2 DEF NoToken, Lines
    <3> HIDE DEF Tokens
    <3> QED  BY <2>1, <2>2, <3>1, <3>2, <3>3
  <2>3. CASE pc[c] = "leading" /\ RepairProject(c)
    <3>1. WithProject(held[c]) \in Tokens /\ WithProject(held[c]).line = held[c].line
      BY <2>1 DEF WithProject
    <3> QED  BY <2>2, <2>3, <3>1 DEF RepairProject
  <2>4. CASE pc[c] = "leading" /\ Renew(c)
    <3>1. issued[held[c].line] \in 0 .. MaxGen /\ held[c].project \in BOOLEAN
      BY <2>1
    <3>2. issued[held[c].line] + 1 \in 0 .. MaxGen
      BY <2>4, <3>1 DEF Renew
    <3>3. issued' \in [Lines -> 0 .. MaxGen]
      BY <2>4, <3>2 DEF Renew
    <3>4. PICK project \in BOOLEAN :
            Obtain(c, [line |-> held[c].line, gen |-> issued[held[c].line] + 1, project |-> project])
      BY <2>4, <3>1 DEF Renew
    <3>5. [line |-> held[c].line, gen |-> issued[held[c].line] + 1, project |-> project] \in Tokens
      BY <2>1, <3>2
    <3> QED  BY <2>2, <2>4, <3>3, <3>4, <3>5
  <2>5. CASE pc[c] = "leading" /\ pc' = [pc EXCEPT ![c] = "refused"] /\ UNCHANGED <<issued, got>>
    BY <2>1, <2>5
  <2>6. CASE pc[c] = "leading" /\ pc' = [pc EXCEPT ![c] = "failed"] /\ UNCHANGED <<issued, got>>
    BY <2>1, <2>6
  <2> QED  BY <1>4, <2>3, <2>4, <2>5, <2>6 DEF UpstreamAnswers
<1>5. CASE SaveRefreshed(c)
  <2>1. KeepProject(got[c]) \in Tokens /\ KeepProject(got[c]).line = held[c].line
    BY <1>5 DEF SaveRefreshed, SaveAnswer, KeepProject, NoToken
  <2>2. file' = KeepProject(got[c]) /\ Allowed(file)'
    BY <1>5, <2>1 DEF SaveRefreshed, SaveAnswer
  <2> HIDE DEF Tokens
  <2> QED  BY <1>5, <2>1, <2>2 DEF SaveRefreshed, SaveAnswer
<1>6. CASE LoseAnswer(c)
  BY <1>6 DEF LoseAnswer
<1>7. CASE Finish(c)
  BY <1>7 DEF Finish, Answered, Waiting
<1>8. CASE GiveUp(c)
  BY <1>8 DEF GiveUp, Answered, Waiting
<1>9. CASE Return(c)
  BY <1>9 DEF Return
<1> QED  BY <1>1, <1>2, <1>3, <1>4, <1>5, <1>6, <1>7, <1>8, <1>9 DEF RefreshStep

\* A new login is above the floor; a deletion keeps the import out until it is
\* done, so its backup is still allowed when it comes back.
LEMMA StoreIInv ==
    ASSUME IInv, LoginSaves \/ DeleteCredential \/ DeletionCommits \/ DeletionRollsBack
    PROVE  IInv'
<1> USE OAuthRefreshAssumption
        DEF IInv, Shape, SavesOwnLine, LeaderEntered, HoldersAllowed, ImportAlone,
            StoredByImport, Allowed,
            Joined, Leading, OwnsStore, Readers, CanRead, ConfigFree, refreshVars, Tokens
<1>1. CASE LoginSaves
  BY <1>1 DEF LoginSaves, Lines, NoToken
<1>2. CASE DeleteCredential
  BY <1>2 DEF DeleteCredential
<1>3. CASE DeletionCommits
  BY <1>3 DEF DeletionCommits, NoDeletion
<1>4. CASE DeletionRollsBack
  BY <1>4 DEF DeletionRollsBack, NoDeletion
<1> QED  BY <1>1, <1>2, <1>3, <1>4

\* An import takes the store with nobody in it, and only its commit raises the
\* floor.
LEMMA ImportIInv ==
    ASSUME IInv, Analyze \/ ImportStep
    PROVE  IInv'
<1> USE OAuthRefreshAssumption
        DEF IInv, Shape, SavesOwnLine, LeaderEntered, HoldersAllowed, ImportAlone,
            StoredByImport, Allowed,
            Joined, Leading, OwnsStore, Readers, ConfigFree, refreshVars, notImport, NoImport
<1>1. CASE Analyze
  BY <1>1 DEF Analyze
<1>2. CASE AskForStore
  BY <1>2 DEF AskForStore
<1>3. CASE OwnStore
  <2>1. CASE import' = NoImport
    BY <1>3, <2>1 DEF OwnStore
  <2>2. CASE import' # NoImport
    <3>1. PICK replace, brings \in BOOLEAN :
            import' = [import EXCEPT !.pc = "owned", !.backup = file,
                                     !.replace = replace, !.brings = brings]
      BY <1>3, <2>2 DEF OwnStore
    <3>2. /\ import'.pc = "owned" /\ import'.backup = file /\ Readers = {} /\ import.pc = "waiting"
          /\ import' \in [pc : {"idle", "analyzed", "waiting", "owned", "cleared", "stored"},
                         replace : BOOLEAN, brings : BOOLEAN, existed : BOOLEAN,
                         backup : Tokens \union {NoToken}]
          /\ UNCHANGED <<file, notImport, imports, floor, undone>>
      BY <1>3, <3>1 DEF OwnStore
    <3> QED  BY <3>2
  <2> QED  BY <2>1, <2>2
<1>4. CASE ClearDirectory
  BY <1>4 DEF ClearDirectory
<1>5. CASE SaveImported
  <2>1. /\ OwnsStore /\ Readers = {} /\ deletion.pc = "idle"
        /\ import' = [import EXCEPT !.pc = "stored"]
    BY <1>5 DEF SaveImported
  <2>2. CASE import.brings
    <3>1. /\ lines' = lines + 1 /\ lines' \in Lines
          /\ \E project \in BOOLEAN : file' = [line |-> lines', gen |-> 0, project |-> project]
      <4>1. PICK project \in BOOLEAN :
              file' = KeepProject([line |-> lines + 1, gen |-> 0, project |-> project])
        BY <1>5, <2>2 DEF SaveImported
      <4>2. file' = [line |-> lines + 1, gen |-> 0, project |-> project \/ file.project]
        BY <4>1 DEF KeepProject
      <4> QED  BY <1>5, <2>2, <4>2 DEF SaveImported, Lines
    <3>2. file' \in Tokens /\ file' # NoToken /\ Allowed(file)'
      BY <1>5, <3>1 DEF SaveImported, Lines, Tokens, NoToken
    <3>3. lines <= lines'
      BY <3>1 DEF Lines
    <3>4. floor' \in Nat \ {0} /\ floor' <= lines' + 1
      BY <1>5, <3>1 DEF SaveImported, Lines
    <3>5. Shape'
      BY <1>5, <2>1, <3>1, <3>2, <3>4 DEF SaveImported
    <3>6. ASSUME NEW t \in Tokens \union {NoToken}, Allowed(t)
          PROVE  t = NoToken \/ (floor' <= t.line /\ t.line <= lines')
      BY <1>5, <3>1, <3>3, <3>6 DEF SaveImported, Lines, Tokens
    <3>7. HoldersAllowed'
      BY <1>5, <2>1, <3>6 DEF SaveImported
    <3> QED  BY <1>5, <2>1, <2>2, <3>2, <3>5, <3>7 DEF SaveImported
  <2>3. CASE ~import.brings
    BY <1>5, <2>1, <2>3 DEF SaveImported
  <2> QED  BY <2>2, <2>3
<1>6. CASE ImportCommits
  <2>1. /\ OwnsStore /\ Readers = {} /\ deletion.pc = "idle"
        /\ import' = NoImport /\ deletion' = deletion
    BY <1>6 DEF ImportCommits
  <2>2. Allowed(file)'
    BY <1>6 DEF ImportCommits, Lines, Tokens
  <2>3. floor' \in Nat \ {0} /\ floor' <= lines' + 1
    BY <1>6 DEF ImportCommits, Lines, Tokens
  <2>4. \A c \in Callers : pc[c] \notin Joined
    BY <2>1
  <2> QED  BY <1>6, <2>1, <2>2, <2>3, <2>4 DEF ImportCommits
<1>7. CASE ImportRollsBack
  BY <1>7 DEF ImportRollsBack
<1> QED  BY <1>1, <1>2, <1>3, <1>4, <1>5, <1>6, <1>7 DEF ImportStep

LEMMA IInvHolds == RefreshSpec => []IInv
<1>1. IInv /\ [RefreshNext]_accountVars => IInv'
  <2> SUFFICES ASSUME IInv, [RefreshNext]_accountVars PROVE IInv'  OBVIOUS
  <2>1. CASE RefreshNext
    BY <2>1, RefreshIInv, StoreIInv, ImportIInv DEF RefreshNext
  <2>2. CASE UNCHANGED accountVars
    BY <2>2 DEF accountVars, IInv, Shape, SavesOwnLine, LeaderEntered, HoldersAllowed, ImportAlone,
                      StoredByImport, Allowed, Allowed, OwnsStore, Readers
  <2> QED  BY <2>1, <2>2
<1> QED  BY <1>1, InitIInv, PTL DEF RefreshSpec

-----------------------------------------------------------------------------
\* The credential, the single flight and the import keep their types: in
\* particular at most one caller leads, and it is the one s.refreshes names.
THEOREM TypeCorrect == RefreshSpec => []TypeOK
<1>1. IInv => TypeOK
  BY OAuthRefreshAssumption
  DEF IInv, Shape, SavesOwnLine, LeaderEntered, Joined, Leading, TypeOK, Lines
<1> QED  BY <1>1, IInvHolds, PTL

\* What a committed import replaced or removed stays gone, whatever refresh,
\* login or undone deletion runs around it (internal/oauth/session.go:395).
THEOREM ImportedStaysImported == RefreshSpec => []ImportStands
<1>1. IInv => ImportStands  BY DEF IInv, Allowed, ImportStands
<1> QED  BY <1>1, IInvHolds, PTL

-----------------------------------------------------------------------------
(***************************************************************************)
(* Rotations.  No credential anybody holds has a later gen than the        *)
(* upstream issued, and the one caller that may save has the latest: this  *)
(* orders whatever can reach the file or a follower.                       *)
(***************************************************************************)
\* The upstream has issued it.
Known(t) == t = NoToken \/ t.gen <= issued[t.line]

AllKnown ==
    /\ Known(file) /\ Known(import.backup) /\ Known(deletion.backup)
    /\ \A c \in Callers : Known(held[c]) /\ Known(got[c])

\* A call has an outcome only once the upstream answered it, and a renewal is the
\* latest credential of its line as long as its caller leads.
LeaderHasLatest ==
    \A c \in Callers :
      /\ pc[c] \in {"idle", "begun", "loaded", "waiting", "leading", "refused", "failed"}
            => got[c] = NoToken
      /\ (pc[c] \in {"obtained", "saved"} /\ got[c] # NoToken /\ ~Repaired(c))
            => got[c].gen = issued[got[c].line]

\* Until it ends, an import has put nothing over a token but a new line.
SnapshotStands ==
    OwnsStore => \/ file \in {NoToken, import.backup}
                 \/ file # NoToken /\ file.line # import.backup.line

RInv == AllKnown /\ LeaderHasLatest /\ SnapshotStands

LEMMA InitRInv == RefreshInit => RInv
  BY OAuthRefreshAssumption
  DEF RefreshInit, RInv, AllKnown, Known, LeaderHasLatest, SnapshotStands,
            OwnsStore, NoImport, NoDeletion, NoToken, Lines

\* A refresh that the upstream answers has a gen that nobody has yet; a repair has
\* the one its caller loaded.
LEMMA AnswerRInv ==
    ASSUME IInv, RInv, NEW c \in Callers, UpstreamAnswers(c)
    PROVE  RInv'
<1> DEFINE line == held[c].line
<1>1. held[c] \in Tokens /\ line \in Lines /\ pc[c] = "leading" /\ got[c] = NoToken
  BY DEF IInv, Shape, SavesOwnLine, Joined, Leading, UpstreamAnswers, RInv, LeaderHasLatest, Tokens
<1>2. issued \in [Lines -> 0 .. MaxGen] /\ issued[line] \in Nat /\ 0 .. MaxGen \subseteq Nat
  BY <1>1, OAuthRefreshAssumption DEF IInv, Shape
<1>3. UNCHANGED <<file, held, flight, lines, import, deletion, imports, deletes, floor, repairOnly>>
  BY DEF UpstreamAnswers, othersIdle
<1>4. \A d \in Callers \ {c} : pc[d] \notin {"obtained", "saved"}
  BY <1>1 DEF IInv, LeaderEntered, Leading
<1>5. ASSUME NEW t \in Tokens, Obtain(c, t), issued' \in [Lines -> 0 .. MaxGen],
             \A l \in Lines : issued'[l] >= issued[l],
             t.gen <= issued'[t.line],
             t.gen = issued'[t.line] \/ (repairOnly[c] /\ t = WithProject(held[c]))
      PROVE  RInv'
  <2>1. /\ got' \in [Callers -> Tokens \union {NoToken}] /\ got'[c] = t
        /\ \A d \in Callers \ {c} : got'[d] = got[d]
    BY <1>5 DEF Obtain, IInv, Shape
  <2>2. pc'[c] = "obtained" /\ \A d \in Callers \ {c} : pc'[d] = pc[d]
    BY <1>5 DEF Obtain, IInv, Shape
  <2>3. ASSUME NEW u \in Tokens \union {NoToken}, Known(u)
        PROVE  u = NoToken \/ u.gen <= issued'[u.line]
    BY <2>3, <1>2, <1>5, OAuthRefreshAssumption DEF Known, Tokens, Lines
  <2>4. AllKnown'
    <3>1. \A d \in Callers : Known(got[d])' /\ Known(held[d])'
      BY <1>3, <1>5, <2>1, <2>3 DEF RInv, AllKnown, Known, IInv, Shape
    <3> QED
      BY <1>3, <2>3, <3>1 DEF RInv, AllKnown, Known, IInv, Shape
  <2>5. LeaderHasLatest'
    BY <1>3, <1>4, <1>5, <2>1, <2>2 DEF RInv, LeaderHasLatest, Repaired
  <2>6. SnapshotStands'
    BY <1>3 DEF RInv, SnapshotStands, OwnsStore
  <2> QED  BY <2>4, <2>5, <2>6 DEF RInv
<1>6. CASE RepairProject(c)
  <2>1. WithProject(held[c]) \in Tokens
    BY <1>1 DEF WithProject, Tokens
  <2>2. WithProject(held[c]).line = line /\ WithProject(held[c]).gen = held[c].gen
    BY <1>1 DEF WithProject, Tokens
  <2>3. held[c].gen <= issued[line]
    BY <1>1 DEF RInv, AllKnown, Known, NoToken, Lines
  <2>4. \A l \in Lines : issued[l] \in Nat
    BY <1>2
  <2> QED  BY <1>2, <1>5, <1>6, <2>1, <2>2, <2>3, <2>4 DEF RepairProject
<1>7. CASE Renew(c)
  <2>1. PICK project \in BOOLEAN :
          Obtain(c, [line |-> line, gen |-> issued[line] + 1, project |-> project])
    BY <1>1, <1>7 DEF Renew, Tokens
  <2> DEFINE t == [line |-> line, gen |-> issued[line] + 1, project |-> project]
  <2>2. issued' = [issued EXCEPT ![line] = @ + 1] /\ issued[line] + 1 \in 0 .. MaxGen
    BY <1>2, <1>7, OAuthRefreshAssumption DEF Renew
  <2>3. /\ issued' \in [Lines -> 0 .. MaxGen] /\ issued'[line] = issued[line] + 1
        /\ \A l \in Lines : issued'[l] >= issued[l]
    BY <1>1, <1>2, <2>2
  <2>4. t \in Tokens /\ t.line = line /\ t.gen = issued'[line] /\ t.gen \in Nat
    BY <1>1, <1>2, <2>2, <2>3 DEF Tokens
  <2> HIDE DEF t
  <2> QED  BY <1>5, <2>1, <2>3, <2>4 DEF t
<1>8. CASE \E end \in {"refused", "failed"} : pc' = [pc EXCEPT ![c] = end] /\ UNCHANGED <<issued, got>>
  BY <1>1, <1>3, <1>8
  DEF RInv, AllKnown, Known, LeaderHasLatest, SnapshotStands, OwnsStore, IInv, Shape, Repaired
<1> QED  BY <1>6, <1>7, <1>8 DEF UpstreamAnswers

\* Saved, the leader's credential is still the one it obtained.
LEMMA SaveRInv ==
    ASSUME IInv, RInv, NEW c \in Callers, SaveRefreshed(c)
    PROVE  RInv'
<1> USE DEF SaveRefreshed, SaveAnswer, othersIdle
<1>1. got[c] \in Tokens /\ Known(got[c]) /\ ~OwnsStore
  BY DEF IInv, Shape, SavesOwnLine, RInv, AllKnown, ImportAlone, Readers
<1>2. /\ KeepProject(got[c]) \in Tokens
      /\ KeepProject(got[c]).line = got[c].line /\ KeepProject(got[c]).gen = got[c].gen
  BY <1>1 DEF KeepProject, Tokens, IInv, Shape, NoToken
<1>3. Known(file)' /\ ~OwnsStore'
  BY <1>1, <1>2, OAuthRefreshAssumption DEF Known, NoToken, Tokens, Lines, OwnsStore
<1>4. /\ got'[c] \in {got[c], NoToken} /\ pc'[c] = "saved" /\ pc[c] = "obtained"
      /\ \A d \in Callers \ {c} : got'[d] = got[d] /\ pc'[d] = pc[d]
      /\ UNCHANGED <<issued, held, repairOnly, import, deletion>>
  BY DEF IInv, Shape
<1>5. AllKnown'
  BY <1>3, <1>4 DEF RInv, AllKnown, Known
<1>6. LeaderHasLatest'
  BY <1>4 DEF RInv, LeaderHasLatest, Repaired
<1> QED  BY <1>3, <1>5, <1>6 DEF RInv, SnapshotStands

LEMMA NextRInv == IInv /\ RInv /\ [RefreshNext]_accountVars => RInv'
<1> SUFFICES ASSUME IInv, RInv, [RefreshNext]_accountVars PROVE RInv'  OBVIOUS
<1> USE DEF RInv, AllKnown, Known, LeaderHasLatest, SnapshotStands, OwnsStore, Repaired,
            IInv, Shape
<1>1. ASSUME NEW c \in Callers, RefreshBegins(c) PROVE RInv'
  BY <1>1 DEF RefreshBegins, othersIdle
<1>2. ASSUME NEW c \in Callers, LoadCredential(c) PROVE RInv'
  <2>1. /\ \A d \in Callers : held'[d] \in {held[d], file}
        /\ pc'[c] \in {"loaded", "answered"} /\ \A d \in Callers \ {c} : pc'[d] = pc[d]
        /\ \A d \in Callers \ {c} : held'[d] = held[d] /\ repairOnly'[d] = repairOnly[d]
        /\ UNCHANGED <<file, issued, got, import, deletion>> /\ got[c] = NoToken
    BY <1>2 DEF LoadCredential, othersIdle
  <2> QED  BY <2>1
<1>3. ASSUME NEW c \in Callers, JoinOrLead(c) PROVE RInv'
  BY <1>3 DEF JoinOrLead, othersIdle
<1>5. ASSUME NEW c \in Callers, LoseAnswer(c) PROVE RInv'
  BY <1>5 DEF LoseAnswer, othersIdle
<1>6. ASSUME NEW c \in Callers, Finish(c) \/ GiveUp(c) PROVE RInv'
  <2>1. /\ \A d \in Callers : /\ pc'[d] \in {pc[d], "answered"}
                              /\ pc'[d] # "answered" => held'[d] = held[d] /\ got'[d] = got[d]
                              /\ pc'[d] # "answered" => repairOnly'[d] = repairOnly[d]
                              /\ held'[d] \in {held[d], NoToken} /\ got'[d] \in {got[d], got[c]}
        /\ UNCHANGED <<file, issued, import, deletion>>
    BY <1>6 DEF Finish, GiveUp, Answered, Waiting, othersIdle
  <2> QED  BY <2>1
<1>7. ASSUME NEW c \in Callers, Return(c) PROVE RInv'
  BY <1>7 DEF Return, othersIdle
<1>8. CASE LoginSaves
  BY <1>8, OAuthRefreshAssumption DEF LoginSaves, refreshVars, CanRead, Lines, NoToken
<1>9. CASE DeleteCredential \/ DeletionCommits \/ DeletionRollsBack
  BY <1>9 DEF DeleteCredential, DeletionCommits, DeletionRollsBack, refreshVars, CanRead, NoDeletion
<1>10. CASE Analyze \/ AskForStore \/ OwnStore \/ ClearDirectory \/ ImportCommits \/ ImportRollsBack
  <2> USE DEF notImport, refreshVars, NoImport
  <2>1. CASE Analyze
    BY <2>1 DEF Analyze
  <2>2. CASE AskForStore
    BY <2>2 DEF AskForStore
  <2>3. CASE OwnStore
    <3>1. UNCHANGED <<file, issued, pc, held, got, repairOnly, deletion>>
      BY <2>3 DEF OwnStore
    <3>2. CASE import' = NoImport
      BY <3>1, <3>2, OAuthRefreshAssumption DEF NoToken
    <3>3. ASSUME NEW replace \in BOOLEAN, NEW brings \in BOOLEAN,
                 import' = [import EXCEPT !.pc = "owned", !.backup = file,
                                          !.replace = replace, !.brings = brings]
          PROVE  RInv'
      <4>1. import'.pc = "owned" /\ import'.backup = file
        BY <3>3
      <4> QED  BY <3>1, <4>1
    <3> QED  BY <2>3, <3>2, <3>3 DEF OwnStore
  <2>4. CASE ClearDirectory
    BY <2>4 DEF ClearDirectory
  <2>5. CASE ImportCommits
    BY <2>5 DEF ImportCommits
  <2>6. CASE ImportRollsBack
    BY <2>6 DEF ImportRollsBack
  <2> QED  BY <1>10, <2>1, <2>2, <2>3, <2>4, <2>5, <2>6
<1>11. CASE SaveImported
  <2>1. CASE ~import.brings
    BY <1>11, <2>1 DEF SaveImported, refreshVars
  <2>2. CASE import.brings
    <3>1. OwnsStore /\ Allowed(import.backup) /\ lines \in Lines /\ lines + 1 \in Lines
      <4>1. import.pc \in {"owned", "cleared"} /\ lines < MaxLines
        BY <1>11, <2>2 DEF SaveImported
      <4> QED  BY <4>1, OAuthRefreshAssumption DEF HoldersAllowed, Lines
    <3>2. import.backup = NoToken \/ import.backup.line <= lines
      BY <3>1 DEF Allowed
    <3>3. import.backup.line # lines + 1 /\ issued[lines + 1] \in 0 .. MaxGen
      BY <3>1, <3>2 DEF NoToken, Lines, Tokens
    <3>4. file'.line = lines + 1 /\ file'.gen = 0
      BY <1>11, <2>2 DEF SaveImported, KeepProject
    <3>5. import' = [import EXCEPT !.pc = "stored"]
          /\ UNCHANGED <<issued, pc, held, got, flight, repairOnly, deletion>>
      BY <1>11 DEF SaveImported, refreshVars
    <3>6. file'.line # import'.backup.line /\ file' # NoToken /\ file'.gen <= issued'[file'.line]
      BY <3>1, <3>3, <3>4, <3>5, OAuthRefreshAssumption DEF NoToken, Lines
    <3> QED  BY <3>5, <3>6
  <2> QED  BY <2>1, <2>2
<1>12. CASE UNCHANGED accountVars
  BY <1>12 DEF accountVars
<1> QED
  BY <1>1, <1>2, <1>3, <1>5, <1>6, <1>7, <1>8, <1>9, <1>10, <1>11, <1>12, AnswerRInv, SaveRInv
  DEF RefreshNext, RefreshStep, ImportStep

LEMMA RInvHolds == RefreshSpec => []RInv
  BY InitRInv, NextRInv, IInvHolds, PTL DEF RefreshSpec

-----------------------------------------------------------------------------
(***************************************************************************)
(* Repairs.  They save what they loaded, so nothing but the order of loads *)
(* and saves keeps them from putting an older token back.  As long as no   *)
(* deletion has been undone, a file that still lacks its project is the    *)
(* latest of its line that anybody loaded, and so is what a repairer that  *)
(* is not behind has loaded.                                               *)
(***************************************************************************)

NotOlder(t, u) == t.line = u.line => t.gen >= u.gen

Repairing(c) == /\ repairOnly[c] /\ c \notin behind
                /\ pc[c] \in {"loaded", "leading"}
                     \/ (pc[c] \in {"obtained", "saved"} /\ Repaired(c))

FileLatest == ~file.project => \A d \in Callers : NotOlder(file, held[d])

RepairsInTime ==
    \A c \in Callers : Repairing(c) =>
      /\ NotOlder(held[c], file)
      /\ \A d \in Callers : NotOlder(held[c], held[d])

OInv == ~undone => FileLatest /\ RepairsInTime

LEMMA InitOInv == RefreshInit => OInv
  BY DEF RefreshInit, OInv, FileLatest, RepairsInTime, NotOlder, Repairing, NoToken

\* What is saved is the latest, or has its project; whoever has loaded and not
\* led is behind from then on.
LEMMA SaveOInv ==
    ASSUME IInv, RInv, OInv, ~undone, NEW c \in Callers, SaveRefreshed(c)
    PROVE  FileLatest' /\ RepairsInTime'
<1> USE DEF SaveRefreshed, SaveAnswer, othersIdle
<1>1. /\ got[c] \in Tokens /\ got[c] # NoToken /\ held[c] \in Tokens
      /\ \A d \in Callers : held[d] \in Tokens \union {NoToken} /\ Known(held[d])
  BY DEF IInv, Shape, SavesOwnLine, Joined, Leading, RInv, AllKnown
<1>2. /\ file'.line = got[c].line /\ file'.gen = got[c].gen
      /\ got[c].project => file'.project
  BY <1>1 DEF KeepProject, Tokens
<1>3. got[c].gen \in Nat /\ \A d \in Callers : held[d].gen \in Nat
  BY <1>1, OAuthRefreshAssumption DEF Tokens, NoToken
<1>4. Repaired(c) => file'.project /\ got[c].line = held[c].line /\ got[c].gen = held[c].gen
  BY <1>1, <1>2 DEF Repaired, WithProject, Tokens
<1>5. FileLatest'
  <2>1. CASE Repaired(c)
    BY <2>1, <1>4 DEF FileLatest
  <2>2. CASE ~Repaired(c)
    <3>1. got[c].gen = issued[got[c].line]
      BY <1>1, <2>2 DEF RInv, LeaderHasLatest
    <3>2. ASSUME NEW d \in Callers, got[c].line = held[d].line PROVE got[c].gen >= held[d].gen
      <4>1. held[d] # NoToken
        BY <1>1, <3>2 DEF NoToken, Tokens, Lines
      <4>2. held[d].gen <= got[c].gen
        BY <1>1, <3>1, <3>2, <4>1 DEF Known
      <4> QED  BY <1>3, <4>2
    <3> QED  BY <1>2, <3>2 DEF FileLatest, NotOlder
  <2> QED  BY <2>1, <2>2
<1>6. ASSUME NEW d \in Callers, Repairing(d)'
      PROVE  d = c /\ Repaired(c) /\ Repairing(c)
  <2>1. CASE d = c
    <3>1. got'[c] = WithProject(held[c])
      BY <1>6, <2>1 DEF Repairing, Repaired, IInv, Shape
    <3>2. got'[c] # NoToken
      BY <1>1, <3>1 DEF WithProject, Tokens, NoToken
    <3>3. got'[c] = got[c]
      BY <3>2 DEF IInv, Shape
    <3> QED  BY <1>6, <2>1, <3>1, <3>3 DEF Repairing, Repaired
  <2>2. CASE d # c
    <3>1. pc'[d] = pc[d] /\ repairOnly'[d] = repairOnly[d]
      BY <2>2 DEF IInv, Shape
    <3>2. pc[d] \notin {"leading", "obtained", "saved"}
      BY <2>2 DEF IInv, LeaderEntered, Leading
    <3> QED  BY <1>6, <3>1, <3>2 DEF Repairing
  <2> QED  BY <2>1, <2>2
<1>7. RepairsInTime'
  BY <1>2, <1>3, <1>4, <1>6 DEF OInv, RepairsInTime, NotOlder
<1> QED  BY <1>5, <1>7

LEMMA NextOInv == IInv /\ RInv /\ OInv /\ [RefreshNext]_accountVars => OInv'
<1> SUFFICES ASSUME IInv, RInv, OInv, [RefreshNext]_accountVars, ~undone' PROVE FileLatest' /\ RepairsInTime'
  BY DEF OInv
<1>0. ~undone /\ FileLatest /\ RepairsInTime
  BY DEF OInv, RefreshNext, RefreshStep, ImportStep, RefreshBegins, LoadCredential, JoinOrLead,
         UpstreamAnswers, SaveRefreshed, SaveAnswer, Finish, Answered, Return, LoseAnswer, GiveUp,
         LoginSaves, DeleteCredential, DeletionCommits, DeletionRollsBack, Analyze, AskForStore,
         OwnStore, ClearDirectory, SaveImported, ImportCommits, ImportRollsBack, accountVars,
         IInv, Shape
<1>1. \A c \in Callers : held[c] \in Tokens \union {NoToken} /\ held[c].gen \in Nat
  BY OAuthRefreshAssumption DEF IInv, Shape, Tokens, NoToken
<1>2. file \in Tokens \union {NoToken} /\ file.gen \in Nat
  BY OAuthRefreshAssumption DEF IInv, Shape, Tokens, NoToken
\* Steps that leave the file alone and load nothing.
<1>3. ASSUME UNCHANGED file,
             \A c \in Callers : held'[c] \in {held[c], NoToken} /\ (Repairing(c)' => Repairing(c) /\ held'[c] = held[c])
      PROVE  FileLatest' /\ RepairsInTime'
  BY <1>0, <1>1, <1>2, <1>3 DEF FileLatest, RepairsInTime, NotOlder, NoToken, Tokens, Lines
<1>4. ASSUME NEW c \in Callers, LoadCredential(c) PROVE FileLatest' /\ RepairsInTime'
  <2> USE DEF LoadCredential
  <2>1. CASE UNCHANGED <<held, repairOnly>> /\ pc' = [pc EXCEPT ![c] = "answered"]
    BY <1>3, <1>4, <2>1 DEF Repairing, Repaired, IInv, Shape, othersIdle
  <2>2. CASE held' = [held EXCEPT ![c] = file]
    <3>1. held'[c] = file /\ file' = file /\ \A d \in Callers \ {c} : held'[d] = held[d]
      BY <1>4, <2>2 DEF IInv, Shape
    <3>2. FileLatest'
      BY <1>0, <1>2, <3>1 DEF FileLatest, NotOlder
    <3>3. ASSUME NEW d \in Callers, Repairing(d)' PROVE d = c \/ Repairing(d)
      BY <1>4, <2>2, <3>3 DEF Repairing, Repaired, IInv, Shape
    <3>4. Repairing(c)' => ~file.project
      BY <1>4, <2>2 DEF Repairing, Repaired, IInv, Shape
    <3> QED  BY <1>0, <1>2, <3>1, <3>2, <3>3, <3>4 DEF FileLatest, RepairsInTime, NotOlder
  <2> QED  BY <1>4, <2>1, <2>2
<1>5. ASSUME NEW c \in Callers, RefreshBegins(c) \/ JoinOrLead(c) \/ LoseAnswer(c) \/ Return(c)
      PROVE  FileLatest' /\ RepairsInTime'
  BY <1>3, <1>5
  DEF RefreshBegins, JoinOrLead, LoseAnswer, Return, Repairing, Repaired, IInv, Shape, othersIdle
<1>6. ASSUME NEW c \in Callers, UpstreamAnswers(c) PROVE FileLatest' /\ RepairsInTime'
  BY <1>3, <1>6
  DEF UpstreamAnswers, Obtain, RepairProject, Renew, Repairing, Repaired, IInv, Shape, othersIdle
<1>7. ASSUME NEW c \in Callers, Finish(c) \/ GiveUp(c) PROVE FileLatest' /\ RepairsInTime'
  <2>1. ASSUME NEW d \in Callers
        PROVE  held'[d] \in {held[d], NoToken} /\ (Repairing(d)' => Repairing(d) /\ held'[d] = held[d])
    BY <1>7 DEF Finish, GiveUp, Answered, Waiting, Repairing, Repaired
  <2> QED  BY <1>3, <1>7, <2>1 DEF Finish, GiveUp, Answered
<1>8. CASE LoginSaves
  <2>1. /\ file'.project /\ file'.line = lines + 1 /\ UNCHANGED <<pc, held, got, repairOnly, behind>>
    BY <1>8 DEF LoginSaves, refreshVars
  <2>2. ASSUME NEW c \in Callers PROVE held[c].line # lines + 1
    BY DEF IInv, Shape, SavesOwnLine, HoldersAllowed, Allowed, Lines, NoToken
  <2> QED  BY <1>0, <2>1, <2>2 DEF FileLatest, RepairsInTime, NotOlder, Repairing, Repaired
<1>9. CASE DeleteCredential
  <2>1. file' = NoToken /\ UNCHANGED <<pc, held, got, repairOnly, behind>>
    BY <1>9 DEF DeleteCredential, refreshVars
  <2>2. ASSUME NEW c \in Callers PROVE NotOlder(NoToken, held[c]) /\ NotOlder(held[c], NoToken)
    BY <1>1 DEF NotOlder, NoToken, Tokens, Lines
  <2> QED  BY <1>0, <2>1, <2>2 DEF FileLatest, RepairsInTime, Repairing, Repaired, NotOlder
<1>10. CASE OwnsStore /\ (ClearDirectory \/ SaveImported \/ ImportRollsBack)
  <2>1. \A c \in Callers : pc[c] \notin Joined /\ held[c] = NoToken
    BY <1>10 DEF IInv, ImportAlone, SavesOwnLine, Shape, Readers, Joined, Leading
  <2>2. UNCHANGED <<pc, held>> /\ file'.gen \in Nat /\ (file' = NoToken \/ file'.line \in Lines)
    <3>1. UNCHANGED <<pc, held>>
      BY <1>10 DEF ClearDirectory, SaveImported, ImportRollsBack, notImport, refreshVars
    <3>2. CASE ImportRollsBack
      BY <3>1, <3>2, OAuthRefreshAssumption DEF ImportRollsBack, IInv, Shape, NoToken, Tokens
    <3>3. CASE ClearDirectory
      BY <3>1, <3>3 DEF ClearDirectory, NoToken
    <3>4. CASE SaveImported
      <4>1. CASE ~import.brings
        BY <1>2, <3>1, <3>4, <4>1 DEF SaveImported, Tokens
      <4>2. CASE import.brings
        <5>1. file'.gen = 0 /\ file'.line = lines + 1 /\ lines + 1 \in Lines
          <6>1. file'.gen = 0 /\ file'.line = lines + 1 /\ lines < MaxLines
            BY <3>4, <4>2 DEF SaveImported, KeepProject
          <6> QED  BY <6>1, OAuthRefreshAssumption DEF IInv, Shape, Lines
        <5> QED  BY <3>1, <5>1
      <4> QED  BY <4>1, <4>2
    <3> QED  BY <1>10, <3>2, <3>3, <3>4
  <2>3. \A c \in Callers : ~Repairing(c)'
    BY <2>1, <2>2 DEF Repairing, Joined, Leading
  <2>4. FileLatest'
    BY <2>1, <2>2 DEF FileLatest, NotOlder, NoToken, Lines
  <2> QED  BY <2>3, <2>4 DEF RepairsInTime
<1>11. CASE DeletionCommits \/ Analyze \/ AskForStore \/ OwnStore \/ ImportCommits
  <2>1. UNCHANGED <<file, pc, held, got, repairOnly, behind>>
    BY <1>11 DEF DeletionCommits, Analyze, AskForStore, OwnStore, ImportCommits, notImport, refreshVars
  <2> QED  BY <1>3, <2>1 DEF Repairing, Repaired
<1>12. ~DeletionRollsBack
  BY DEF DeletionRollsBack
<1>13. CASE UNCHANGED accountVars
  BY <1>3, <1>13 DEF accountVars, Repairing, Repaired
<1>14. ClearDirectory \/ SaveImported \/ ImportRollsBack => OwnsStore
  BY DEF ClearDirectory, SaveImported, ImportRollsBack, OwnsStore
<1> QED
  BY <1>0, <1>4, <1>5, <1>6, <1>7, <1>8, <1>9, <1>10, <1>11, <1>12, <1>13, <1>14, SaveOInv
  DEF RefreshNext, RefreshStep, ImportStep

LEMMA OInvHolds == RefreshSpec => []OInv
  BY InitOInv, NextOInv, IInvHolds, RInvHolds, PTL DEF RefreshSpec

\* Whoever joins another caller's refresh, late or early, gets a token at least
\* as new as the one it came with, unless it joined a repair that was behind
\* (internal/oauth/session.go:420).
THEOREM JoiningNeverStepsBack == RefreshSpec => NoStepBack
<1>1. IInv /\ RInv /\ OInv /\ [RefreshNext]_accountVars
        => [\A c \in Callers :
              /\ pc[c] # "answered" /\ pc'[c] = "answered"
              /\ got'[c] # NoToken /\ got'[c].line = held[c].line /\ got'[c].gen < held[c].gen
              => \E d \in Callers \ {c} : flight = d /\ MayStepBack(d)]_accountVars
  <2> SUFFICES ASSUME IInv, RInv, OInv, RefreshNext, NEW c \in Callers,
                      pc[c] # "answered", pc'[c] = "answered",
                      got'[c] # NoToken, got'[c].line = held[c].line, got'[c].gen < held[c].gen,
                      ~ \E d \in Callers \ {c} : flight = d /\ MayStepBack(d)
               PROVE  FALSE
    OBVIOUS
  \* An answer at once is no credential to compare.
  <2>1. PICK d \in Callers : Finish(d) \/ GiveUp(d)
    <3>1. ASSUME NEW d \in Callers, LoadCredential(d) PROVE FALSE
      BY <3>1 DEF LoadCredential, RInv, LeaderHasLatest, IInv, Shape
    <3>2. ASSUME NEW d \in Callers,
                 \/ RefreshBegins(d) \/ JoinOrLead(d) \/ UpstreamAnswers(d) \/ SaveRefreshed(d)
                 \/ LoseAnswer(d) \/ Return(d)
          PROVE  FALSE
      BY <3>2
      DEF RefreshBegins, JoinOrLead, UpstreamAnswers, Obtain, RepairProject, Renew, SaveRefreshed,
          SaveAnswer, LoseAnswer, Return, IInv, Shape
    <3>3. UNCHANGED pc => FALSE
      OBVIOUS
    <3> QED
      BY <3>1, <3>2, <3>3
      DEF RefreshNext, RefreshStep, ImportStep, LoginSaves, DeleteCredential, DeletionCommits,
          DeletionRollsBack, Analyze, AskForStore, OwnStore, ClearDirectory, SaveImported,
          ImportCommits, ImportRollsBack, notImport, refreshVars
  <2>2. held[c] \in Tokens /\ Known(held[c]) /\ pc[c] \in Joined
    <3>1. pc[c] \in Joined
      BY <2>1 DEF Finish, GiveUp, Answered, Waiting, Joined, Leading, IInv, Shape
    <3> QED  BY <3>1 DEF IInv, Shape, SavesOwnLine, RInv, AllKnown
  <2>3. CASE GiveUp(d)
    BY <2>3 DEF GiveUp, Answered, Waiting, RInv, LeaderHasLatest, IInv, Shape
  <2>4. CASE Finish(d)
    <3>1. /\ pc[d] \in {"saved", "refused", "failed"} /\ got'[c] = got[d] /\ flight = d
          /\ c = d \/ pc[c] = "waiting"
      BY <2>4 DEF Finish, Answered, Waiting, IInv, Shape, LeaderEntered, Leading
    <3>2. pc[d] = "saved" /\ got[d] \in Tokens /\ held[d] \in Tokens
      BY <3>1 DEF RInv, LeaderHasLatest, IInv, Shape, SavesOwnLine, Joined, Leading
    <3>3. got[d].gen \in Nat /\ held[c].gen \in Nat /\ held[c].gen <= issued[held[c].line]
      BY <2>2, <3>2, OAuthRefreshAssumption DEF Tokens, Known, NoToken, Lines
    <3>4. CASE ~Repaired(d)
      BY <3>1, <3>2, <3>3, <3>4 DEF RInv, LeaderHasLatest
    <3>5. CASE Repaired(d)
      <4>1. got[d].line = held[d].line /\ got[d].gen = held[d].gen
        BY <3>2, <3>5 DEF Repaired, WithProject, Tokens
      <4>2. c # d
        BY <3>1, <3>3, <4>1
      <4>3. d \notin behind /\ ~undone
        BY <3>1, <3>5, <4>2 DEF MayStepBack
      <4>4. NotOlder(held[d], held[c])
        BY <3>2, <3>5, <4>3 DEF OInv, RepairsInTime, Repairing, Repaired
      <4> QED  BY <3>1, <3>3, <4>1, <4>4 DEF NotOlder
    <3> QED  BY <3>4, <3>5
  <2> QED  BY <2>1, <2>3, <2>4
<1> QED  BY <1>1, IInvHolds, RInvHolds, OInvHolds, PTL DEF RefreshSpec, NoStepBack

\* A rotated refresh token never comes back into the file over its successor:
\* the caller that saves has the latest, or repairs in time, and a rolled back
\* import restores what nobody could change meanwhile
\* (internal/oauth/store_transfer_lock.go:5).  Excepted are an undone deletion and
\* the repairs that are behind.
THEOREM RotatedTokensStayGone == RefreshSpec => RotationKept
<1> DEFINE Back == file'.line = file.line /\ file'.gen < file.gen
           Excused == DeletionRollsBack \/ \E c \in Callers : SaveRefreshed(c) /\ MayStepBack(c)
<1>1. IInv /\ IInv' /\ RInv /\ OInv /\ [RefreshNext]_accountVars => [Back => Excused]_accountVars
  <2> SUFFICES ASSUME IInv, IInv', RInv, OInv, RefreshNext, Back, ~Excused PROVE FALSE
    OBVIOUS
  <2>0. file \in Tokens \union {NoToken} /\ file' \in Tokens \union {NoToken} /\ Known(file)
    BY DEF IInv, Shape, RInv, AllKnown
  <2>1. file \in Tokens /\ file # NoToken /\ Known(file) /\ file.line \in Lines
    BY <2>0, OAuthRefreshAssumption DEF Tokens, NoToken, Lines
  <2>2. file' # file
    BY <2>1, OAuthRefreshAssumption DEF Tokens
  <2>3. ASSUME NEW c \in Callers, SaveRefreshed(c) PROVE FALSE
    <3>1. /\ pc[c] = "obtained" /\ got[c] \in Tokens /\ got[c] # NoToken
          /\ held[c] \in Tokens
      BY <2>3 DEF SaveRefreshed, SaveAnswer, IInv, Shape, SavesOwnLine, Joined, Leading
    <3>2. file'.line = got[c].line /\ file'.gen = got[c].gen
      BY <2>3, <3>1 DEF SaveRefreshed, SaveAnswer, KeepProject, Tokens
    <3>3. got[c].gen \in Nat /\ file.gen \in Nat /\ file.gen <= issued[file.line]
      BY <2>1, <3>1, OAuthRefreshAssumption DEF Known, Tokens
    <3>4. CASE ~Repaired(c)
      BY <3>1, <3>2, <3>3, <3>4 DEF RInv, LeaderHasLatest
    <3>5. CASE Repaired(c)
      <4>1. got[c].line = held[c].line /\ got[c].gen = held[c].gen
        BY <3>1, <3>5 DEF Repaired, WithProject, Tokens
      <4>2. c \notin behind /\ ~undone
        BY <2>3, <3>5 DEF MayStepBack
      <4>3. NotOlder(held[c], file)
        BY <3>1, <3>5, <4>2 DEF OInv, RepairsInTime, Repairing, Repaired
      <4> QED  BY <3>2, <3>3, <4>1, <4>3 DEF NotOlder
    <3> QED  BY <3>4, <3>5
  <2>4. ASSUME LoginSaves \/ (SaveImported /\ import.brings) PROVE FALSE
    <3>1. file.line <= lines /\ file'.line = lines + 1
      <4>1. CASE LoginSaves
        BY <2>1, <4>1 DEF LoginSaves, IInv, Allowed
      <4>2. CASE SaveImported /\ import.brings
        BY <2>1, <4>2 DEF SaveImported, KeepProject, IInv, Allowed
      <4> QED  BY <2>4, <4>1, <4>2
    <3> QED  BY <2>1, <3>1 DEF IInv, Shape, Lines
  <2>5. ASSUME ImportRollsBack PROVE FALSE
    BY <2>1, <2>2, <2>5 DEF ImportRollsBack, RInv, SnapshotStands, NoToken, Tokens, Lines
  <2>6. ASSUME DeleteCredential \/ ClearDirectory PROVE FALSE
    BY <2>1, <2>6, OAuthRefreshAssumption DEF DeleteCredential, ClearDirectory, NoToken, Lines
  <2> QED
    BY <2>2, <2>3, <2>4, <2>5, <2>6
    DEF RefreshNext, RefreshStep, ImportStep, RefreshBegins, LoadCredential, JoinOrLead, UpstreamAnswers,
        LoseAnswer, GiveUp, Finish, Answered, Return, DeletionCommits, Analyze, AskForStore, OwnStore,
        SaveImported, ImportCommits
<1> QED  BY <1>1, IInvHolds, RInvHolds, OInvHolds, PTL DEF RefreshSpec, RotationKept

(***************************************************************************)
(* One import (DataTransfer)                                               *)
(***************************************************************************)

\* The steps of an import, and of its rollback.
Forward  == {"clear", "save", "write", "usage", "reload"}
Backward == {"undo_creds", "undo_usage", "undo_global", "undo_client"}

IsTx(t) ==
    /\ t = [pc |-> t.pc, user |-> t.user, plan |-> t.plan, before |-> t.before, counted |-> t.counted,
            i |-> t.i, global |-> t.global, providers |-> t.providers]
    /\ t.pc \in Forward \cup Backward /\ t.user \in Users /\ t.plan[1] \in Datasets
    /\ IsDisk(t.before) /\ t.counted \in Nat /\ t.i \in Nat \ {0}
IsUser(u) == /\ u = [plan |-> u.plan, submits |-> u.submits, answer |-> u.answer]
             /\ u.plan # NoPlan => u.plan[1] \in Datasets

Shapes ==
    /\ IsDisk(disk)
    /\ mem = [global |-> mem.global, providers |-> mem.providers, usage |-> mem.usage] /\ mem.usage \in Nat
    /\ plans \in Seq(ToSet(plans))
    /\ users = [u \in Users |-> users[u]] /\ \A u \in Users : IsUser(users[u])
    /\ tx = NoTx \/ IsTx(tx)
    /\ broken \in BOOLEAN

\* What the rollback has put back so far, unless it failed.
PutBack ==
    /\ tx.pc \in {"undo_usage", "undo_global", "undo_client"} => disk.creds = tx.before.creds
    /\ tx.pc \in {"undo_global", "undo_client"} =>
           disk.usage = tx.before.usage /\ mem.usage = tx.counted
    /\ tx.pc = "undo_client" => disk.global = tx.before.global

\* Memory never counts fewer requests than the file, before an import and in it.
CountedAhead ==
    /\ disk.usage <= mem.usage
    /\ ~Idle => tx.before.usage <= tx.counted

\* The credentials are where they were, or the copy of them is kept.
CopyKept ==
    tx.pc \in {"undo_usage", "undo_global", "undo_client"} =>
        disk.creds = tx.before.creds \/ tx.before.creds \in backups

TransferInv ==
    /\ Shapes
    /\ CopyKept
    /\ broken \/ (PutBack /\ CountedAhead)

\* No two files of the OAuth directory have the same ref.
OneFilePerRef == \A a, b \in disk.creds : a.ref = b.ref => a = b

-----------------------------------------------------------------------------
(***************************************************************************)
(* Records after one assignment, saved credentials and the table of plans. *)
(***************************************************************************)
LEMMA IsTxFacts ==
    ASSUME IsTx(tx)
    PROVE  tx.pc # "idle" /\ ~Idle /\ tx # NoTx
<1>1. tx.pc # "idle"  BY DEF IsTx, Forward, Backward
<1>2. NoTx.pc = "idle"  BY DEF NoTx
<1> QED  BY <1>1, <1>2 DEF Idle

LEMMA NoTxFacts == tx = NoTx => tx.pc = "idle" /\ Idle
  BY DEF NoTx, Idle

LEMMA TxGoes ==
    ASSUME IsTx(tx), NEW at \in Forward \cup Backward, tx' = [tx EXCEPT !.pc = at]
    PROVE  /\ IsTx(tx') /\ tx'.pc = at /\ tx'.before = tx.before /\ tx'.counted = tx.counted
           /\ tx'.plan = tx.plan /\ tx'.user = tx.user
<1>1. /\ tx' = [pc |-> tx'.pc, user |-> tx'.user, plan |-> tx'.plan, before |-> tx'.before,
                counted |-> tx'.counted, i |-> tx'.i, global |-> tx'.global, providers |-> tx'.providers]
      /\ tx'.pc = at /\ tx'.user = tx.user /\ tx'.plan = tx.plan /\ tx'.before = tx.before
      /\ tx'.counted = tx.counted /\ tx'.i = tx.i
  BY DEF IsTx
<1> QED  BY <1>1 DEF IsTx

LEMMA TxSaved ==
    ASSUME IsTx(tx), NEW providers, tx' = [tx EXCEPT !.i = @ + 1, !.providers = providers]
    PROVE  /\ IsTx(tx') /\ tx'.pc = tx.pc /\ tx'.before = tx.before /\ tx'.counted = tx.counted
           /\ tx'.plan = tx.plan /\ tx'.user = tx.user
<1>1. tx' = [tx EXCEPT !.i = tx.i + 1, !.providers = providers] /\ tx.i + 1 \in Nat \ {0}
  BY DEF IsTx
<1>2. /\ tx' = [pc |-> tx'.pc, user |-> tx'.user, plan |-> tx'.plan, before |-> tx'.before,
                counted |-> tx'.counted, i |-> tx'.i, global |-> tx'.global, providers |-> tx'.providers]
      /\ tx'.pc = tx.pc /\ tx'.user = tx.user /\ tx'.plan = tx.plan /\ tx'.before = tx.before
      /\ tx'.counted = tx.counted /\ tx'.i = tx.i + 1
  BY <1>1 DEF IsTx
<1> QED  BY <1>1, <1>2 DEF IsTx

LEMMA DiskFacts ==
    ASSUME IsDisk(disk), NEW x
    PROVE  /\ (\A c \in x : IsCredential(c)) => IsDisk([disk EXCEPT !.creds = x])
           /\ IsDisk([disk EXCEPT !.global = x]) /\ IsDisk([disk EXCEPT !.providers = x])
           /\ x \in Nat => IsDisk([disk EXCEPT !.usage = x])
           /\ LET d == [disk EXCEPT !.creds = x]
              IN  d.creds = x /\ d.global = disk.global /\ d.providers = disk.providers /\ d.usage = disk.usage
           /\ LET d == [disk EXCEPT !.global = x]
              IN  d.global = x /\ d.creds = disk.creds /\ d.providers = disk.providers /\ d.usage = disk.usage
           /\ LET d == [disk EXCEPT !.providers = x]
              IN  d.providers = x /\ d.creds = disk.creds /\ d.global = disk.global /\ d.usage = disk.usage
           /\ LET d == [disk EXCEPT !.usage = x]
              IN  d.usage = x /\ d.creds = disk.creds /\ d.global = disk.global /\ d.providers = disk.providers
<1>1. /\ [disk EXCEPT !.creds = x] = [global |-> disk.global, providers |-> disk.providers,
                                      creds |-> x, usage |-> disk.usage]
      /\ [disk EXCEPT !.global = x] = [global |-> x, providers |-> disk.providers,
                                       creds |-> disk.creds, usage |-> disk.usage]
      /\ [disk EXCEPT !.providers = x] = [global |-> disk.global, providers |-> x,
                                          creds |-> disk.creds, usage |-> disk.usage]
      /\ [disk EXCEPT !.usage = x] = [global |-> disk.global, providers |-> disk.providers,
                                      creds |-> disk.creds, usage |-> x]
  BY DEF IsDisk
<1> QED  BY <1>1 DEF IsDisk

LEMMA MemFacts ==
    ASSUME mem = [global |-> mem.global, providers |-> mem.providers, usage |-> mem.usage], NEW x
    PROVE  /\ [mem EXCEPT !.usage = x] = [global |-> mem.global, providers |-> mem.providers, usage |-> x]
           /\ [mem EXCEPT !.providers = x] = [global |-> mem.global, providers |-> x, usage |-> mem.usage]
  OBVIOUS

LEMMA UserFacts ==
    ASSUME NEW u, IsUser(u), NEW x
    PROVE  LET w == [u EXCEPT !.answer = x]
               p == [u EXCEPT !.plan = x]
           IN  /\ IsUser(w) /\ w.answer = x
               /\ p.answer = u.answer /\ (x # NoPlan /\ x[1] \in Datasets => IsUser(p))
<1> DEFINE w == [u EXCEPT !.answer = x]
           p == [u EXCEPT !.plan = x]
<1>1. /\ w = [plan |-> u.plan, submits |-> u.submits, answer |-> x]
      /\ p = [plan |-> x, submits |-> u.submits, answer |-> u.answer]
  <2>1. u = [plan |-> u.plan, submits |-> u.submits, answer |-> u.answer]  BY DEF IsUser
  <2>2. w = [plan |-> u.plan, submits |-> u.submits, answer |-> x]  BY <2>1
  <2>3. p = [plan |-> x, submits |-> u.submits, answer |-> u.answer]  BY <2>1
  <2> QED  BY <2>2, <2>3
<1> HIDE DEF w, p
<1>2. IsUser(w) /\ w.answer = x /\ p.answer = u.answer  BY <1>1 DEF IsUser
<1>3. x # NoPlan /\ x[1] \in Datasets => IsUser(p)  BY <1>1 DEF IsUser
<1> QED  BY <1>2, <1>3 DEF w, p

\* Whatever account a saved credential updates, it is a credential still.
LEMMA SavedIsCredential ==
    ASSUME NEW files, NEW scan, NEW c, IsCredential(c), \A e \in files : IsCredential(e)
    PROVE  \A e \in FilesAfterSave(files, scan, c) : IsCredential(e)
<1>1. \A e : IsCredential(Merged(e, c))
  <2>1. \A b, x : IsCredential(b) => /\ IsCredential([b EXCEPT !.ref = x])
                                    /\ IsCredential([b EXCEPT !.email = x])
                                    /\ IsCredential([b EXCEPT !.acct = x])
                                    /\ IsCredential([b EXCEPT !.org = x])
                                    /\ IsCredential([b EXCEPT !.tok = x])
    BY DEF IsCredential
  <2>2. ASSUME NEW ref, NEW email, NEW acct, NEW org, NEW tok
        PROVE  IsCredential([c EXCEPT !.ref = ref, !.email = email, !.acct = acct, !.org = org, !.tok = tok])
    <3> DEFINE c1 == [c EXCEPT !.ref = ref]
               c2 == [c1 EXCEPT !.email = email]
               c3 == [c2 EXCEPT !.acct = acct]
               c4 == [c3 EXCEPT !.org = org]
    <3>1. IsCredential(c1)  BY <2>1
    <3> HIDE DEF c1
    <3>2. IsCredential(c2)  BY <2>1, <3>1
    <3> HIDE DEF c2
    <3>3. IsCredential(c3)  BY <2>1, <3>2
    <3> HIDE DEF c3
    <3>4. IsCredential(c4)  BY <2>1, <3>3
    <3> HIDE DEF c4
    <3>5. IsCredential([c4 EXCEPT !.tok = tok])  BY <2>1, <3>4
    <3> QED  BY <3>5 DEF c1, c2, c3, c4
  <2> QED  BY <2>2 DEF Merged
<1>2. \A ref : IsCredential([c EXCEPT !.ref = ref])  BY DEF IsCredential
<1>3. IsCredential(Saved(files, scan, c))  BY <1>1, <1>2 DEF Saved
<1> QED  BY <1>3 DEF FilesAfterSave

LEMMA WithoutFacts ==
    ASSUME NEW S, NEW table \in Seq(S), NEW id
    PROVE  Without(table, id) \in Seq(S)
<1> DEFINE found == {i \in DOMAIN table : table[i].id = id}
           k == CHOOSE i \in found : TRUE
<1>1. CASE found = {}  BY <1>1 DEF Without
<1>2. CASE found # {}
  <2>1. k \in 1..Len(table)  BY <1>2
  <2> HIDE DEF k
  <2>2. SubSeq(table, 1, k - 1) \in Seq(S) /\ SubSeq(table, k + 1, Len(table)) \in Seq(S)
    BY <2>1, SubSeqProperties
  <2>3. RemoveAt(table, k) \in Seq(S)  BY <2>2, ConcatProperties DEF RemoveAt
  <2> QED  BY <1>2, <2>3 DEF Without, k
<1> QED  BY <1>1, <1>2

LEMMA ToSetFacts ==
    /\ \A S : \A s \in Seq(S) : ToSet(s) \subseteq S /\ s \in Seq(ToSet(s))
    /\ \A S, e : \A s \in Seq(S) : /\ Append(s, e) \in Seq(ToSet(Append(s, e)))
                                   /\ ToSet(Append(s, e)) \subseteq S \cup {e}
<1>1. ASSUME NEW S, NEW s \in Seq(S)
      PROVE  ToSet(s) \subseteq S /\ s \in Seq(ToSet(s))
  <2>1. ToSet(s) = Range(s)  BY DEF ToSet, Range
  <2> QED  BY <2>1, RangeOfSeq, SeqOfRange
<1>2. ASSUME NEW S, NEW s \in Seq(S), NEW e
      PROVE  /\ Append(s, e) \in Seq(ToSet(Append(s, e)))
             /\ ToSet(Append(s, e)) \subseteq S \cup {e}
  <2>1. s \in Seq(S \cup {e})  BY SeqMonotonic
  <2>2. Append(s, e) \in Seq(S \cup {e})  BY <2>1, AppendProperties
  <2> QED  BY <1>1, <2>2
<1> QED  BY <1>1, <1>2

\* A table that loses its oldest plan, or one for which a plan is remembered.
LEMMA PlansFacts ==
    ASSUME Shapes, NEW id
    PROVE  /\ plans # <<>> => Tail(plans) \in Seq(ToSet(Tail(plans))) /\ ToSet(Tail(plans)) \subseteq ToSet(plans)
           /\ Remembered(id) \in Seq(ToSet(Remembered(id)))
           /\ ToSet(Remembered(id)) \subseteq ToSet(plans) \cup {[id |-> id, done |-> FALSE]}
           /\ \A p : Append(Without(plans, id), p) \in Seq(ToSet(Append(Without(plans, id), p)))
<1> DEFINE S == ToSet(plans)
           kept == IF Len(plans) >= MaxPlans THEN Tail(plans) ELSE plans
<1>1. plans \in Seq(S)  BY DEF Shapes
<1> HIDE DEF S
<1>2. plans # <<>> => Tail(plans) \in Seq(S)  BY <1>1, HeadTailProperties
<1>3. Len(plans) >= MaxPlans => plans # <<>>
  <2>1. MaxPlans \in Nat \ {0}  BY TransferAssumption
  <2>2. Len(<<>>) = 0  OBVIOUS
  <2> QED  BY <2>1, <2>2
<1>4. kept \in Seq(S)  BY <1>1, <1>2, <1>3
<1> HIDE DEF kept
<1>5. Without(kept, id) \in Seq(S) /\ Without(plans, id) \in Seq(S)  BY <1>1, <1>4, WithoutFacts
<1>6. Remembered(id) = Append(Without(kept, id), [id |-> id, done |-> FALSE])
  BY DEF Remembered, kept
<1>7. /\ plans # <<>> => Tail(plans) \in Seq(ToSet(Tail(plans))) /\ ToSet(Tail(plans)) \subseteq S
  BY <1>2, ToSetFacts
<1>8. /\ Remembered(id) \in Seq(ToSet(Remembered(id)))
      /\ ToSet(Remembered(id)) \subseteq S \cup {[id |-> id, done |-> FALSE]}
  BY <1>5, <1>6, ToSetFacts
<1>9. \A p : Append(Without(plans, id), p) \in Seq(ToSet(Append(Without(plans, id), p)))
  BY <1>5, ToSetFacts
<1> QED  BY <1>7, <1>8, <1>9 DEF S

-----------------------------------------------------------------------------
(***************************************************************************)
(* What an import shows.                                                   *)
(***************************************************************************)
PromiseStep == [Promise!Next]_(Promise!vars)

LEMMA ShownIsAll ==
    ASSUME UNCHANGED <<Shown, Counted, InForce, Remembering, Answers, broken>>
    PROVE  PromiseStep
<1>1. UNCHANGED Promise!vars
  BY DEF Promise!vars
<1> QED  BY <1>1 DEF PromiseStep

\* Once an import was torn, nothing is promised.
LEMMA TornShows == broken' = TRUE => PromiseStep
  BY DEF PromiseStep, Promise!Next, Promise!Torn

\* A user's answer is all that changes.
LEMMA AnswerShows ==
    ASSUME UNCHANGED <<Shown, Counted, InForce, Remembering, broken>>, NEW u \in Users,
           NEW a, \/ a \in {<<"none">>, <<"failed">>, <<"refused">>, <<"lost">>}
                  \/ a \in {<<"done", r[1], r[2]>> : r \in Remembering},
           Answers' = [Answers EXCEPT ![u] = a]
    PROVE  PromiseStep
<1>1. Promise!Answer(u)  BY DEF Promise!Answer
<1> QED  BY <1>1 DEF PromiseStep, Promise!Next

LEMMA ForgetShows ==
    ASSUME UNCHANGED <<Shown, Counted, InForce, Answers, broken>>, Remembering' \subseteq Remembering
    PROVE  PromiseStep
  BY DEF PromiseStep, Promise!Next, Promise!Forget

-----------------------------------------------------------------------------
(***************************************************************************)
(* The steps of an import up to its commit.                                *)
(***************************************************************************)
MemShape(m) == m = [global |-> m.global, providers |-> m.providers, usage |-> m.usage] /\ m.usage \in Nat

\* Within an import, whatever is written is not shown.
LEMMA HiddenStep ==
    ASSUME IsTx(tx), IsTx(tx'), tx'.before = tx.before, tx'.counted = tx.counted,
           mem'.global = mem.global, mem'.providers = mem.providers,
           UNCHANGED <<plans, users, broken>>
    PROVE  PromiseStep
<1>1. ~Idle /\ ~Idle'  BY IsTxFacts DEF Idle, IsTx, Forward, Backward
<1>2. Shown' = Shown /\ Counted' = Counted  BY <1>1 DEF Shown, Counted
<1>3. InForce' = InForce  BY <1>2 DEF InForce
<1>4. Remembering' = Remembering /\ Answers' = Answers  BY DEF Remembering, Answers
<1> QED  BY <1>2, <1>3, <1>4, ShownIsAll

LEMMA ForwardStep ==
    ASSUME TransferInv, IsTx(tx), IsTx(tx'), tx.pc \in Forward, tx'.pc \in Forward \cup {"undo_creds"},
           tx'.before = tx.before, tx'.counted = tx.counted, IsDisk(disk'), MemShape(mem'),
           disk.usage <= mem.usage => disk'.usage <= mem'.usage,
           UNCHANGED <<plans, users, broken>>, mem'.global = mem.global, mem'.providers = mem.providers
    PROVE  TransferInv' /\ PromiseStep
<1>1. tx'.pc \notin {"undo_usage", "undo_global", "undo_client"}  BY DEF Forward
<1>2. CopyKept' /\ PutBack'  BY <1>1 DEF CopyKept, PutBack
<1>3. Shapes'  BY DEF TransferInv, Shapes, MemShape
<1>4. ~Idle /\ ~Idle'  BY IsTxFacts DEF Idle, IsTx, Forward, Backward
<1>5. CountedAhead => CountedAhead'  BY <1>4 DEF CountedAhead
<1>6. TransferInv'  BY <1>2, <1>3, <1>5 DEF TransferInv
<1> QED  BY <1>6, HiddenStep

LEMMA ImportingStep ==
    ASSUME TransferInv, Importing, ~ReloadSucceeds, ~AnswerIsLost
    PROVE  TransferInv' /\ PromiseStep
<1>1. UNCHANGED <<plans, users, broken>> /\ tx.pc \in Forward
  BY DEF Importing, Clear, ClearFails, SaveCredential, SaveFails, WriteGlobal, WriteClient, WriteFails,
         AddUsage, UsageFails, ReloadFails, Undo, Forward
<1>2. IsTx(tx)
  <2>1. tx.pc # "idle"  BY <1>1 DEF Forward
  <2> QED  BY <2>1, NoTxFacts DEF TransferInv, Shapes
<1>3. IsDisk(disk) /\ MemShape(mem)  BY DEF TransferInv, Shapes, MemShape
<1>4. Plan.usage \in Nat /\ \A i \in 1..Len(Plan.credentials) : IsCredential(Plan.credentials[i])
  BY <1>2, TransferAssumption DEF IsTx, Plan
<1>5. CASE SaveCredential
  <2> DEFINE c == Plan.credentials[tx.i]
             now == Save(disk.creds, c)
             saved == SavedAs(disk.creds, c)
             relinked == Relinked(tx.providers, now, c.ref, saved)
             providers == IF Plan.native THEN relinked ELSE LinkedProviders(relinked, now, saved)
  <2>1. /\ tx.i <= Len(Plan.credentials) /\ disk' = [disk EXCEPT !.creds = now]
        /\ tx' = [tx EXCEPT !.i = @ + 1, !.providers = providers] /\ UNCHANGED mem /\ tx.pc = "save"
    BY <1>5 DEF SaveCredential
  <2>2. IsCredential(c)
    <3>1. tx.i \in 1..Len(Plan.credentials)  BY <1>2, <1>4, <2>1 DEF IsTx
    <3> QED  BY <1>4, <3>1
  <2>3. \A e \in now : IsCredential(e)
    BY <1>3, <2>2, SavedIsCredential DEF Save, IsDisk
  <2> HIDE DEF now, providers
  <2>4. IsDisk(disk') /\ disk'.usage = disk.usage  BY <1>3, <2>1, <2>3, DiskFacts
  <2>5. /\ IsTx(tx') /\ tx'.pc = tx.pc /\ tx'.before = tx.before /\ tx'.counted = tx.counted
    BY <1>2, <2>1, TxSaved
  <2>6. MemShape(mem') /\ mem' = mem  BY <1>3, <2>1
  <2> QED  BY <1>1, <1>2, <2>4, <2>5, <2>6, ForwardStep
<1>6. CASE ~SaveCredential
  <2>1. PICK at \in Forward \cup {"undo_creds"} : tx' = [tx EXCEPT !.pc = at]
    <3>1. CASE Clear \/ ClearFails \/ SaveFails
      BY <3>1 DEF Clear, ClearFails, SaveFails, Undo, Forward
    <3>2. CASE WriteGlobal \/ WriteClient \/ WriteFails
      BY <3>2 DEF WriteGlobal, WriteClient, WriteFails, Undo, Forward
    <3>3. CASE AddUsage \/ UsageFails \/ ReloadFails
      BY <3>3 DEF AddUsage, UsageFails, ReloadFails, Undo, Forward
    <3> QED  BY <1>6, <3>1, <3>2, <3>3 DEF Importing
  <2>2. /\ IsTx(tx') /\ tx'.pc = at /\ tx'.before = tx.before /\ tx'.counted = tx.counted
    BY <1>2, <2>1, TxGoes DEF Backward
  <2>3. /\ IsDisk(disk') /\ MemShape(mem') /\ mem'.global = mem.global /\ mem'.providers = mem.providers
        /\ disk.usage <= mem.usage => disk'.usage <= mem'.usage
    <3>1. CASE UNCHANGED mem /\ \E creds : disk' = [disk EXCEPT !.creds = creds] /\ creds \subseteq disk.creds
      <4>1. PICK creds : disk' = [disk EXCEPT !.creds = creds] /\ creds \subseteq disk.creds  BY <3>1
      <4>2. \A c \in creds : IsCredential(c)  BY <1>3, <4>1 DEF IsDisk
      <4>3. IsDisk(disk') /\ disk'.usage = disk.usage  BY <1>3, <4>1, <4>2, DiskFacts
      <4> QED  BY <1>3, <3>1, <4>3
    <3>2. CASE UNCHANGED <<disk, mem>>  BY <1>3, <3>2
    <3>3. CASE UNCHANGED mem /\ \E x : disk' = [disk EXCEPT !.global = x] \/ disk' = [disk EXCEPT !.providers = x]
      <4>1. PICK x : disk' = [disk EXCEPT !.global = x] \/ disk' = [disk EXCEPT !.providers = x]  BY <3>3
      <4>2. /\ IsDisk([disk EXCEPT !.global = x]) /\ [disk EXCEPT !.global = x].usage = disk.usage
            /\ IsDisk([disk EXCEPT !.providers = x]) /\ [disk EXCEPT !.providers = x].usage = disk.usage
        BY <1>3, DiskFacts
      <4>3. IsDisk(disk') /\ disk'.usage = disk.usage  BY <4>1, <4>2
      <4> QED  BY <1>3, <3>3, <4>3
    <3>4. CASE /\ mem' = [mem EXCEPT !.usage = mem.usage + Plan.usage]
               /\ disk' = disk \/ disk' = [disk EXCEPT !.usage = mem.usage + Plan.usage]
      <4> DEFINE n == mem.usage + Plan.usage
      <4>1. n \in Nat /\ mem.usage <= n  BY <1>3, <1>4 DEF MemShape
      <4> HIDE DEF n
      <4>2. mem' = [global |-> mem.global, providers |-> mem.providers, usage |-> n]
        BY <1>3, <3>4, MemFacts DEF MemShape, n
      <4>3. MemShape(mem') /\ mem'.global = mem.global /\ mem'.providers = mem.providers /\ mem'.usage = n
        BY <4>1, <4>2 DEF MemShape
      <4>6. IsDisk([disk EXCEPT !.usage = n]) /\ [disk EXCEPT !.usage = n].usage = n
        BY <1>3, <4>1, DiskFacts
      <4>7. disk' = disk \/ disk' = [disk EXCEPT !.usage = n]  BY <3>4 DEF n
      <4>4. IsDisk(disk') /\ disk'.usage \in {disk.usage, n}  BY <1>3, <4>6, <4>7
      <4>5. disk.usage \in Nat /\ mem.usage \in Nat  BY <1>3 DEF IsDisk, MemShape
      <4> QED  BY <4>1, <4>3, <4>4, <4>5
    <3>5. CASE Clear \/ ClearFails \/ SaveFails
      BY <3>1, <3>2, <3>5 DEF Clear, ClearFails, SaveFails, Undo, SomeOf
    <3>6. CASE WriteGlobal \/ WriteClient \/ WriteFails
      BY <3>2, <3>3, <3>6 DEF WriteGlobal, WriteClient, WriteFails, Undo
    <3>7. CASE AddUsage \/ UsageFails \/ ReloadFails
      BY <3>2, <3>4, <3>7 DEF AddUsage, UsageFails, ReloadFails, Undo
    <3> QED  BY <1>6, <3>5, <3>6, <3>7 DEF Importing
  <2> QED  BY <1>1, <1>2, <2>2, <2>3, ForwardStep
<1> QED  BY <1>5, <1>6

-----------------------------------------------------------------------------
(***************************************************************************)
(* Answers, the rollback and the commit.                                   *)
(***************************************************************************)
LEMMA UsersFacts ==
    ASSUME Shapes, NEW u \in Users, NEW v, IsUser(v), users' = [users EXCEPT ![u] = v]
    PROVE  /\ users' = [w \in Users |-> users'[w]] /\ \A w \in Users : IsUser(users'[w])
           /\ Answers' = [Answers EXCEPT ![u] = Reported(v.answer)]
<1>1. users = [w \in Users |-> users[w]] /\ \A w \in Users : IsUser(users[w])  BY DEF Shapes
<1>2. DOMAIN users = Users  BY <1>1
<1>3. /\ users' = [w \in Users |-> IF w = u THEN v ELSE users[w]]
  BY <1>1, <1>2
<1>4. \A w \in Users : users'[w] = IF w = u THEN v ELSE users[w]  BY <1>3
<1>5. Answers' = [w \in Users |-> Reported(users'[w].answer)]  BY DEF Answers, Reported
<1>6. Answers' = [Answers EXCEPT ![u] = Reported(v.answer)]
  <2> DEFINE told == Reported(v.answer)
  <2>1. Answers = [w \in Users |-> Reported(users[w].answer)]  BY DEF Answers
  <2>2. \A w \in Users : Reported(users'[w].answer) = IF w = u THEN told ELSE Reported(users[w].answer)
    BY <1>4
  <2> HIDE DEF told
  <2>3. Answers' = [w \in Users |-> IF w = u THEN told ELSE Reported(users[w].answer)]
    BY <1>5, <2>2
  <2>4. Answers' = [Answers EXCEPT ![u] = told]  BY <2>1, <2>3
  <2> QED  BY <2>4 DEF told
<1> QED  BY <1>1, <1>3, <1>4, <1>6

LEMMA ReportedAsIs ==
    \A a \in {<<"none">>, <<"failed">>, <<"refused">>, <<"lost">>} : Reported(a) = a
  BY DEF Reported

\* The import is over, and answered: only its user and the table of plans see it.
LEMMA FailedFacts ==
    ASSUME Shapes, IsTx(tx), Failed
    PROVE  /\ tx' = NoTx /\ users' = [w \in Users |-> users'[w]] /\ \A w \in Users : IsUser(users'[w])
           /\ Answers' = [Answers EXCEPT ![tx.user] = <<"failed">>]
<1> DEFINE u == tx.user
           v == [users[u] EXCEPT !.answer = <<"failed">>]
<1>1. u \in Users /\ IsUser(users[u])  BY DEF IsTx, Shapes
<1>2. IsUser(v) /\ v.answer = <<"failed">>  BY <1>1, UserFacts
<1>3. users' = [users EXCEPT ![u] = v] /\ tx' = NoTx  BY DEF Failed
<1> HIDE DEF v
<1>4. /\ users' = [w \in Users |-> users'[w]] /\ \A w \in Users : IsUser(users'[w])
      /\ Answers' = [Answers EXCEPT ![u] = Reported(v.answer)]
  BY <1>1, <1>2, <1>3, UsersFacts
<1>5. Reported(v.answer) = <<"failed">>  BY <1>2, ReportedAsIs
<1> QED  BY <1>3, <1>4, <1>5

LEMMA UndoCredentialsStep ==
    ASSUME TransferInv, UndoCredentials \/ CredentialsStay
    PROVE  TransferInv' /\ PromiseStep
<1>1. /\ tx.pc = "undo_creds" /\ tx' = [tx EXCEPT !.pc = "undo_usage"] /\ UNCHANGED <<mem, plans, users>>
  BY DEF UndoCredentials, CredentialsStay
<1>2. Shapes /\ IsTx(tx)  BY <1>1, NoTxFacts DEF TransferInv, Shapes
<1>3. /\ IsTx(tx') /\ tx'.pc = "undo_usage" /\ tx'.before = tx.before /\ tx'.counted = tx.counted
  BY <1>1, <1>2, TxGoes DEF Backward
<1>4. IsDisk(disk) /\ IsDisk(tx.before)  BY <1>2 DEF Shapes, IsTx
<1>5. \A creds \in SUBSET tx.before.creds :
          /\ IsDisk([disk EXCEPT !.creds = creds])
          /\ [disk EXCEPT !.creds = creds].creds = creds /\ [disk EXCEPT !.creds = creds].usage = disk.usage
  <2>1. \A c \in tx.before.creds : IsCredential(c)  BY <1>4 DEF IsDisk
  <2> QED  BY <1>4, <2>1, DiskFacts
<1>6. CASE UndoCredentials
  <2>1. disk' = [disk EXCEPT !.creds = tx.before.creds] /\ UNCHANGED <<broken, backups>>
    BY <1>6 DEF UndoCredentials, Restored
  <2>2. IsDisk(disk') /\ disk'.creds = tx.before.creds /\ disk'.usage = disk.usage  BY <1>5, <2>1
  <2>3. Shapes' /\ CopyKept' /\ PutBack'
    BY <1>1, <1>2, <1>3, <2>1, <2>2 DEF Shapes, CopyKept, PutBack
  <2>4. CountedAhead => CountedAhead'
    BY <1>1, <1>2, <1>3, <2>2, IsTxFacts DEF CountedAhead
  <2>5. TransferInv'  BY <2>1, <2>3, <2>4 DEF TransferInv
  <2> QED  BY <1>1, <1>2, <1>3, <2>1, <2>5, HiddenStep
<1>7. CASE CredentialsStay
  <2>1. PICK left \in SUBSET tx.before.creds : disk' = [disk EXCEPT !.creds = left]
    BY <1>7 DEF CredentialsStay, SomeOf
  <2>2. broken' = TRUE /\ backups' = backups \cup {tx.before.creds}
    BY <1>7 DEF CredentialsStay, KeepBackup
  <2>3. Shapes'  BY <1>1, <1>2, <1>3, <1>5, <2>1, <2>2 DEF Shapes
  <2>4. CopyKept'  BY <1>3, <2>2 DEF CopyKept
  <2> QED  BY <2>2, <2>3, <2>4, TornShows DEF TransferInv
<1> QED  BY <1>6, <1>7

LEMMA UndoUsageStep ==
    ASSUME TransferInv, UndoUsage
    PROVE  TransferInv' /\ PromiseStep
<1>1. /\ tx.pc = "undo_usage" /\ tx' = [tx EXCEPT !.pc = "undo_global"] /\ UNCHANGED <<plans, users, backups>>
      /\ mem' = [mem EXCEPT !.usage = tx.counted]
  BY DEF UndoUsage
<1>2. Shapes /\ IsTx(tx) /\ CopyKept  BY <1>1, NoTxFacts DEF TransferInv, Shapes
<1>3. /\ IsTx(tx') /\ tx'.pc = "undo_global" /\ tx'.before = tx.before /\ tx'.counted = tx.counted
  BY <1>1, <1>2, TxGoes DEF Backward
<1>4. IsDisk(disk) /\ IsDisk(tx.before) /\ tx.counted \in Nat  BY <1>2 DEF Shapes, IsTx
<1>5. mem' = [global |-> mem.global, providers |-> mem.providers, usage |-> tx.counted]
  BY <1>1, <1>2, MemFacts DEF Shapes
<1>6. /\ mem' = [global |-> mem'.global, providers |-> mem'.providers, usage |-> mem'.usage]
      /\ mem'.usage = tx.counted /\ mem'.global = mem.global /\ mem'.providers = mem.providers
  BY <1>5
<1>7. /\ IsDisk(disk') /\ disk'.creds = disk.creds
      /\ \/ broken' = TRUE
         \/ broken' = broken /\ disk'.usage = tx.before.usage
  <2>1. /\ IsDisk([disk EXCEPT !.usage = tx.before.usage])
        /\ [disk EXCEPT !.usage = tx.before.usage].creds = disk.creds
        /\ [disk EXCEPT !.usage = tx.before.usage].usage = tx.before.usage
    <3>1. tx.before.usage \in Nat  BY <1>4 DEF IsDisk
    <3> QED  BY <1>4, <3>1, DiskFacts
  <2>2. CASE disk' = [disk EXCEPT !.usage = tx.before.usage] /\ broken' = broken  BY <2>1, <2>2
  <2>3. CASE disk' = disk /\ broken' = TRUE  BY <1>4, <2>3
  <2> QED  BY <2>2, <2>3 DEF UndoUsage
<1>8. Shapes'  BY <1>1, <1>2, <1>3, <1>4, <1>6, <1>7 DEF Shapes
<1>9. CopyKept'  BY <1>1, <1>2, <1>3, <1>7 DEF CopyKept
<1>10. CASE broken' = TRUE  BY <1>8, <1>9, <1>10, TornShows DEF TransferInv
<1>11. CASE broken' = broken /\ disk'.usage = tx.before.usage
  <2>1. PutBack => PutBack'  BY <1>1, <1>3, <1>6, <1>7, <1>11 DEF PutBack
  <2>2. CountedAhead => CountedAhead'
    BY <1>2, <1>3, <1>6, <1>11, IsTxFacts DEF CountedAhead
  <2>3. TransferInv'  BY <1>8, <1>9, <1>11, <2>1, <2>2 DEF TransferInv
  <2> QED  BY <1>1, <1>2, <1>3, <1>6, <1>11, <2>3, HiddenStep
<1> QED  BY <1>7, <1>10, <1>11

LEMMA UndoGlobalStep ==
    ASSUME TransferInv, UndoGlobal
    PROVE  TransferInv' /\ PromiseStep
<1>1. tx.pc = "undo_global" /\ UNCHANGED <<mem, plans, backups>>  BY DEF UndoGlobal
<1>2. Shapes /\ IsTx(tx) /\ CopyKept  BY <1>1, NoTxFacts DEF TransferInv, Shapes
<1>3. CASE /\ disk' = [disk EXCEPT !.global = tx.before.global]
           /\ tx' = [tx EXCEPT !.pc = "undo_client"] /\ UNCHANGED <<users, broken>>
  <2>1. /\ IsTx(tx') /\ tx'.pc = "undo_client" /\ tx'.before = tx.before /\ tx'.counted = tx.counted
    BY <1>2, <1>3, TxGoes DEF Backward
  <2>2. IsDisk(disk)  BY <1>2 DEF Shapes
  <2>3. /\ IsDisk(disk') /\ disk'.global = tx.before.global /\ disk'.creds = disk.creds
        /\ disk'.usage = disk.usage
    BY <1>3, <2>2, DiskFacts
  <2>4. Shapes'  BY <1>1, <1>2, <1>3, <2>1, <2>3 DEF Shapes
  <2>5. CopyKept'  BY <1>1, <1>2, <2>1, <2>3 DEF CopyKept
  <2>6. PutBack => PutBack'  BY <1>1, <2>1, <2>3 DEF PutBack
  <2>7. CountedAhead => CountedAhead'  BY <1>1, <1>2, <2>1, <2>3, IsTxFacts DEF CountedAhead
  <2>8. TransferInv'  BY <1>3, <2>4, <2>5, <2>6, <2>7 DEF TransferInv
  <2> QED  BY <1>1, <1>2, <1>3, <2>1, <2>8, HiddenStep
<1>4. CASE UNCHANGED disk /\ broken' = TRUE /\ Failed
  <2>1. Shapes'  BY <1>1, <1>2, <1>4, FailedFacts DEF Shapes
  <2>2. CopyKept'  BY <1>2, <1>4, FailedFacts DEF CopyKept, NoTx
  <2> QED  BY <1>4, <2>1, <2>2, TornShows DEF TransferInv
<1> QED  BY <1>3, <1>4 DEF UndoGlobal

LEMMA UndoClientStep ==
    ASSUME TransferInv, UndoClient
    PROVE  TransferInv' /\ PromiseStep
<1>1. tx.pc = "undo_client" /\ UNCHANGED <<mem, plans, backups>> /\ Failed  BY DEF UndoClient
<1>2. Shapes /\ IsTx(tx)  BY <1>1, NoTxFacts DEF TransferInv, Shapes
<1>3. /\ tx' = NoTx /\ users' = [w \in Users |-> users'[w]] /\ \A w \in Users : IsUser(users'[w])
      /\ Answers' = [Answers EXCEPT ![tx.user] = <<"failed">>] /\ tx.user \in Users
  BY <1>1, <1>2, FailedFacts DEF IsTx
<1>4. CopyKept'  BY <1>3 DEF CopyKept, NoTx
<1>5. CASE UNCHANGED disk /\ broken' = TRUE
  <2>1. Shapes'  BY <1>1, <1>2, <1>3, <1>5 DEF Shapes
  <2> QED  BY <1>4, <1>5, <2>1, TornShows DEF TransferInv
<1>6. CASE disk' = [disk EXCEPT !.providers = tx.before.providers] /\ UNCHANGED broken
  <2>1. IsDisk(disk) /\ IsDisk(tx.before)  BY <1>2 DEF Shapes, IsTx
  <2>2. /\ IsDisk(disk') /\ disk'.providers = tx.before.providers /\ disk'.creds = disk.creds
        /\ disk'.usage = disk.usage /\ disk'.global = disk.global
    BY <1>6, <2>1, DiskFacts
  <2>3. Shapes'  BY <1>1, <1>2, <1>3, <1>6, <2>2 DEF Shapes
  <2>4. CASE broken = TRUE  BY <1>4, <1>6, <2>3, <2>4, TornShows DEF TransferInv
  <2>5. CASE PutBack /\ CountedAhead
    <3>1. disk' = tx.before  BY <1>1, <2>1, <2>2, <2>5 DEF PutBack, IsDisk
    <3>2. ~Idle /\ Idle' /\ tx'.pc = "idle"  BY <1>2, <1>3, IsTxFacts DEF Idle, NoTx
    <3>3. PutBack'  BY <3>2 DEF PutBack
    <3>4. CountedAhead'  BY <1>1, <2>2, <2>5, <3>2 DEF CountedAhead
    <3>5. TransferInv'  BY <1>4, <2>3, <3>3, <3>4 DEF TransferInv
    <3>6. Shown' = Shown  BY <3>1, <3>2 DEF Shown
    <3>7. Counted' = Counted  BY <1>1, <2>5, <3>2 DEF Counted, PutBack
    <3>8. InForce' = InForce /\ Remembering' = Remembering  BY <1>1, <3>6 DEF InForce, Remembering
    <3> QED  BY <1>3, <1>6, <3>5, <3>6, <3>7, <3>8, AnswerShows
  <2> QED  BY <2>4, <2>5 DEF TransferInv
<1> QED  BY <1>1, <1>5, <1>6 DEF UndoClient

\* What the commit shows is not proved here; that it keeps the invariant is.
LEMMA CommitStep ==
    ASSUME TransferInv, ReloadSucceeds \/ AnswerIsLost
    PROVE  TransferInv'
<1>1. PICK answer : Commit(answer)  BY DEF ReloadSucceeds, AnswerIsLost
<1>2. /\ tx.pc = "reload" /\ tx' = NoTx /\ UNCHANGED <<disk, broken>>
      /\ mem' = [mem EXCEPT !.global = disk.global, !.providers = disk.providers]
      /\ plans' = IF Find(tx.plan) = {} THEN plans
                  ELSE Append(Without(plans, tx.plan), [id |-> tx.plan, done |-> TRUE])
      /\ users' = [users EXCEPT ![tx.user] = [users[tx.user] EXCEPT !.answer = answer]]
  BY <1>1 DEF Commit
<1>3. Shapes /\ IsTx(tx)  BY <1>2, NoTxFacts DEF TransferInv, Shapes
<1>4. tx.user \in Users /\ IsUser(users[tx.user])  BY <1>3 DEF Shapes, IsTx
<1> DEFINE v == [users[tx.user] EXCEPT !.answer = answer]
<1>5. IsUser(v)  BY <1>4, UserFacts
<1>6. users' = [users EXCEPT ![tx.user] = v]  BY <1>2
<1> HIDE DEF v
<1>7. users' = [w \in Users |-> users'[w]] /\ \A w \in Users : IsUser(users'[w])
  BY <1>3, <1>4, <1>5, <1>6, UsersFacts
<1>8. plans' \in Seq(ToSet(plans'))  BY <1>2, <1>3, PlansFacts DEF Shapes
<1>9. mem' = [global |-> disk.global, providers |-> disk.providers, usage |-> mem.usage]
  <2>1. mem = [global |-> mem.global, providers |-> mem.providers, usage |-> mem.usage]  BY <1>3 DEF Shapes
  <2> DEFINE m == [mem EXCEPT !.global = disk.global]
  <2>2. m = [global |-> disk.global, providers |-> mem.providers, usage |-> mem.usage]  BY <2>1
  <2> HIDE DEF m
  <2>3. [m EXCEPT !.providers = disk.providers] =
            [global |-> disk.global, providers |-> disk.providers, usage |-> mem.usage]
    BY <2>2
  <2> QED  BY <1>2, <2>3 DEF m
<1>10. Shapes'  BY <1>2, <1>3, <1>7, <1>8, <1>9 DEF Shapes
<1>11. tx'.pc = "idle" /\ Idle'  BY <1>2 DEF NoTx, Idle
<1>12. CopyKept' /\ PutBack'  BY <1>11 DEF CopyKept, PutBack
<1>13. CountedAhead => CountedAhead'  BY <1>2, <1>9, <1>11 DEF CountedAhead
<1> QED  BY <1>2, <1>10, <1>12, <1>13 DEF TransferInv

-----------------------------------------------------------------------------
(***************************************************************************)
(* Users, and what goes on outside imports.                                *)
(***************************************************************************)
\* No import is under way before the step, nor after it.
LEMMA OutsideKeeps ==
    ASSUME TransferInv, tx.pc = "idle", tx' = tx, Shapes', broken' = broken,
           disk.usage <= mem.usage => disk'.usage <= mem'.usage
    PROVE  TransferInv'
<1>1. Idle /\ Idle'  BY DEF Idle
<1>2. CopyKept' /\ PutBack'  BY DEF CopyKept, PutBack
<1>3. CountedAhead => CountedAhead'  BY <1>1 DEF CountedAhead
<1> QED  BY <1>2, <1>3 DEF TransferInv

LEMMA PreviewStep ==
    ASSUME TransferInv, NEW u \in Users, NEW d \in Datasets, NEW mode, Preview(u, d, mode)
    PROVE  TransferInv' /\ PromiseStep
<1> DEFINE id == PlanID(d, mode)
           v == [users[u] EXCEPT !.plan = id]
<1>1. /\ Idle /\ plans' = Remembered(id) /\ users' = [users EXCEPT ![u] = v]
      /\ UNCHANGED <<disk, mem, tx, broken, backups>>
  BY DEF Preview
<1>2. id # NoPlan /\ id[1] \in Datasets  BY DEF PlanID, NoPlan
<1> HIDE DEF id
<1>3. Shapes /\ IsUser(users[u])  BY DEF TransferInv, Shapes
<1>4. IsUser(v) /\ v.answer = users[u].answer  BY <1>2, <1>3, UserFacts
<1> HIDE DEF v
<1>5. /\ users' = [w \in Users |-> users'[w]] /\ \A w \in Users : IsUser(users'[w])
      /\ Answers' = [Answers EXCEPT ![u] = Reported(v.answer)]
  BY <1>1, <1>3, <1>4, UsersFacts
<1>6. Answers' = Answers
  <2>1. Answers = [w \in Users |-> Reported(users[w].answer)]  BY DEF Answers
  <2> QED  BY <1>4, <1>5, <2>1
<1>7. Shapes'  BY <1>1, <1>3, <1>5, PlansFacts DEF Shapes
<1>8. TransferInv'  BY <1>1, <1>7, OutsideKeeps DEF Idle
<1>9. Remembering' \subseteq Remembering
  <2>1. ToSet(plans') \subseteq ToSet(plans) \cup {[id |-> id, done |-> FALSE]}  BY <1>1, <1>3, PlansFacts
  <2>2. {p \in ToSet(plans') : p.done} \subseteq {p \in ToSet(plans) : p.done}  BY <2>1
  <2> QED  BY <2>2 DEF Remembering
<1>10. UNCHANGED <<Shown, Counted, InForce>>  BY <1>1 DEF Shown, Counted, InForce, Idle
<1> QED  BY <1>1, <1>6, <1>8, <1>9, <1>10, ForgetShows

LEMMA ExpireStep ==
    ASSUME TransferInv, Expire
    PROVE  TransferInv' /\ PromiseStep
<1>1. plans # <<>> /\ plans' = Tail(plans) /\ UNCHANGED <<disk, mem, users, tx, broken, backups>>
  BY DEF Expire
<1>2. Shapes  BY DEF TransferInv
<1>3. plans' \in Seq(ToSet(plans')) /\ ToSet(plans') \subseteq ToSet(plans)  BY <1>1, <1>2, PlansFacts
<1>4. Shapes'  BY <1>1, <1>2, <1>3 DEF Shapes
<1>5. TransferInv'  BY <1>1, <1>4 DEF TransferInv, CopyKept, PutBack, CountedAhead, Idle
<1>6. Remembering' \subseteq Remembering  BY <1>3 DEF Remembering
<1>7. UNCHANGED <<Shown, Counted, InForce, Answers>>
  BY <1>1 DEF Shown, Counted, InForce, Answers, Idle
<1> QED  BY <1>1, <1>5, <1>6, <1>7, ForgetShows

\* A submission that starts nothing: the answer is the user's only news.
LEMMA SaidFacts ==
    ASSUME Shapes, NEW u \in Users, NEW what, Said(u, what)
    PROVE  /\ users' = [w \in Users |-> users'[w]] /\ \A w \in Users : IsUser(users'[w])
           /\ Answers' = [Answers EXCEPT ![u] = Reported(what)]
<1> DEFINE n == users[u].submits + 1
           v == [users[u] EXCEPT !.submits = n, !.answer = what]
<1>1. IsUser(users[u])  BY DEF Shapes
<1>2. users' = [users EXCEPT ![u] = v]  BY DEF Said
<1> HIDE DEF n
<1>3. IsUser(v) /\ v.answer = what
  <2> DEFINE w == users[u]
  <2>1. IsUser(w)  BY <1>1
  <2> HIDE DEF w
  <2>2. v = [plan |-> w.plan, submits |-> n, answer |-> what]
    <3> DEFINE submitted == [w EXCEPT !.submits = n]
    <3>1. submitted = [plan |-> w.plan, submits |-> n, answer |-> w.answer]  BY <2>1 DEF IsUser
    <3> HIDE DEF submitted
    <3>2. [submitted EXCEPT !.answer = what] = [plan |-> w.plan, submits |-> n, answer |-> what]
      BY <3>1
    <3> QED  BY <3>2 DEF submitted, w
  <2> HIDE DEF v
  <2> QED  BY <2>1, <2>2 DEF IsUser
<1> HIDE DEF v
<1> QED  BY <1>2, <1>3, UsersFacts

LEMMA RefuseStep ==
    ASSUME TransferInv, NEW u \in Users, Refuse(u)
    PROVE  TransferInv' /\ PromiseStep
<1>1. Idle /\ Said(u, <<"refused">>) /\ UNCHANGED <<disk, mem, plans, tx, broken, backups>>
  BY DEF Refuse, Submitting
<1>2. Shapes  BY DEF TransferInv
<1>3. /\ users' = [w \in Users |-> users'[w]] /\ \A w \in Users : IsUser(users'[w])
      /\ Answers' = [Answers EXCEPT ![u] = <<"refused">>]
  BY <1>1, <1>2, SaidFacts, ReportedAsIs
<1>4. Shapes'  BY <1>1, <1>2, <1>3 DEF Shapes
<1>5. TransferInv'  BY <1>1, <1>4, OutsideKeeps DEF Idle
<1>6. UNCHANGED <<Shown, Counted, InForce, Remembering>>
  BY <1>1 DEF Shown, Counted, InForce, Remembering, Idle
<1> QED  BY <1>1, <1>3, <1>5, <1>6, AnswerShows

LEMMA AnswerAgainStep ==
    ASSUME TransferInv, NEW u \in Users, AnswerAgain(u)
    PROVE  TransferInv' /\ PromiseStep
<1> DEFINE id == users[u].plan
           r == <<Meant(id[1]), id[2]>>
<1>1. /\ Idle /\ Completed(id) /\ Said(u, <<"done", id[1], id[2]>>)
      /\ UNCHANGED <<disk, mem, plans, tx, broken, backups>>
  BY DEF AnswerAgain, Submitting
<1>2. Shapes  BY DEF TransferInv
<1>3. PICK i \in DOMAIN plans : plans[i].id = id /\ plans[i].done  BY <1>1 DEF Completed, Find
<1>4. r \in Remembering
  <2>1. plans[i] \in ToSet(plans)  BY <1>3 DEF ToSet
  <2> QED  BY <1>3, <2>1 DEF Remembering
<1>5. Reported(<<"done", id[1], id[2]>>) = <<"done", r[1], r[2]>>  BY DEF Reported
<1>6. /\ users' = [w \in Users |-> users'[w]] /\ \A w \in Users : IsUser(users'[w])
      /\ Answers' = [Answers EXCEPT ![u] = Reported(<<"done", id[1], id[2]>>)]
  BY <1>1, <1>2, SaidFacts
<1> HIDE DEF id, r
<1>7. Shapes'  BY <1>1, <1>2, <1>6 DEF Shapes
<1>8. TransferInv'  BY <1>1, <1>7, OutsideKeeps DEF Idle
<1>9. UNCHANGED <<Shown, Counted, InForce, Remembering>>
  BY <1>1 DEF Shown, Counted, InForce, Remembering, Idle
<1>10. <<"done", r[1], r[2]>> \in {<<"done", q[1], q[2]>> : q \in Remembering}  BY <1>4
<1> QED  BY <1>1, <1>5, <1>6, <1>8, <1>9, <1>10, AnswerShows

LEMMA BeginStep ==
    ASSUME TransferInv, NEW u \in Users, Begin(u)
    PROVE  TransferInv' /\ PromiseStep
<1>1. /\ Idle /\ users[u].plan # NoPlan /\ Said(u, <<"none">>)
      /\ UNCHANGED <<disk, mem, plans, broken, backups>>
  BY DEF Begin, Submitting
<1>2. Shapes /\ IsUser(users[u])  BY DEF TransferInv, Shapes
<1>3. PICK at \in {"clear", "save"} : \E global, providers :
          tx' = [pc |-> at, user |-> u, plan |-> users[u].plan, before |-> disk, counted |-> mem.usage,
                 i |-> 1, global |-> global, providers |-> providers]
  BY DEF Begin
<1>4. IsTx(tx') /\ tx'.pc \in {"clear", "save"} /\ tx'.before = disk /\ tx'.counted = mem.usage
  <2>1. users[u].plan[1] \in Datasets  BY <1>1, <1>2 DEF IsUser
  <2>2. IsDisk(disk) /\ mem.usage \in Nat  BY <1>2 DEF Shapes
  <2> QED  BY <1>3, <2>1, <2>2 DEF IsTx, Forward
<1>5. /\ users' = [w \in Users |-> users'[w]] /\ \A w \in Users : IsUser(users'[w])
      /\ Answers' = [Answers EXCEPT ![u] = <<"none">>]
  BY <1>1, <1>2, SaidFacts, ReportedAsIs
<1>6. Shapes'  BY <1>1, <1>2, <1>4, <1>5 DEF Shapes
<1>7. CopyKept' /\ PutBack'  BY <1>4 DEF CopyKept, PutBack
<1>8. CountedAhead => CountedAhead'  BY <1>1, <1>4 DEF CountedAhead, Idle
<1>9. TransferInv'  BY <1>1, <1>6, <1>7, <1>8 DEF TransferInv
<1>10. ~Idle'  BY <1>4 DEF Idle
<1>11. Shown' = Shown /\ Counted' = Counted  BY <1>1, <1>4, <1>10 DEF Shown, Counted
<1>12. InForce' = InForce /\ Remembering' = Remembering  BY <1>1, <1>11 DEF InForce, Remembering
<1> QED  BY <1>1, <1>5, <1>9, <1>11, <1>12, AnswerShows

LEMMA UsageStep ==
    ASSUME TransferInv, RequestCounted \/ UsagePersisted
    PROVE  TransferInv' /\ PromiseStep
<1>1. Idle /\ UNCHANGED <<plans, users, tx, broken, backups>>  BY DEF RequestCounted, UsagePersisted
<1>2. Shapes /\ MemShape(mem) /\ IsDisk(disk)  BY DEF TransferInv, Shapes, MemShape
<1>3. Remembering' = Remembering /\ Answers' = Answers  BY <1>1 DEF Remembering, Answers
<1>4. Idle'  BY <1>1 DEF Idle
<1>5. CASE RequestCounted
  <2>1. mem' = [global |-> mem.global, providers |-> mem.providers, usage |-> mem.usage + 1] /\ disk' = disk
    BY <1>2, <1>5, MemFacts DEF RequestCounted, MemShape
  <2>2. MemShape(mem') /\ mem'.usage = mem.usage + 1 /\ mem'.global = mem.global /\ mem'.providers = mem.providers
    BY <1>2, <2>1 DEF MemShape
  <2>3. Shapes'  BY <1>1, <1>2, <2>1, <2>2 DEF Shapes, MemShape
  <2>4. disk.usage \in Nat /\ mem.usage \in Nat  BY <1>2 DEF IsDisk, MemShape
  <2>5. TransferInv'  BY <1>1, <2>1, <2>2, <2>3, <2>4, OutsideKeeps DEF Idle
  <2>6. Shown' = Shown /\ Counted' = Counted + 1  BY <1>1, <1>4, <2>1, <2>2 DEF Shown, Counted
  <2>7. InForce' = InForce  BY <2>2, <2>6 DEF InForce
  <2>8. Promise!Count  BY <1>1, <1>3, <2>6, <2>7 DEF Promise!Count
  <2> QED  BY <2>5, <2>8 DEF PromiseStep, Promise!Next
<1>6. CASE UsagePersisted
  <2>1. disk' = [disk EXCEPT !.usage = mem.usage] /\ mem' = mem  BY <1>6 DEF UsagePersisted
  <2>2. /\ IsDisk(disk') /\ disk'.usage = mem.usage /\ disk'.global = disk.global
        /\ disk'.providers = disk.providers /\ disk'.creds = disk.creds /\ mem.usage \in Nat
    BY <1>2, <2>1, DiskFacts DEF MemShape
  <2>3. Shapes'  BY <1>1, <1>2, <2>1, <2>2 DEF Shapes
  <2>4. TransferInv'  BY <1>1, <2>1, <2>2, <2>3, OutsideKeeps DEF Idle
  <2>5. Shown = disk /\ Shown' = disk'  BY <1>1, <1>4 DEF Shown
  <2>6. Counted' = Counted  BY <1>1, <1>4, <2>1 DEF Counted
  <2>7. InForce' = InForce  BY <2>1, <2>2, <2>5 DEF InForce
  <2>8. UNCHANGED Promise!vars  BY <1>1, <1>3, <2>2, <2>5, <2>6, <2>7 DEF Promise!vars
  <2> QED  BY <2>4, <2>8 DEF PromiseStep
<1> QED  BY <1>5, <1>6

LEMMA ProviderRemovedStep ==
    ASSUME TransferInv, ProviderRemoved
    PROVE  TransferInv' /\ PromiseStep
<1>1. /\ Idle /\ UNCHANGED <<plans, users, tx, broken, backups>>
      /\ disk' = [disk EXCEPT !.providers = Tail(disk.providers)]
      /\ mem' = [mem EXCEPT !.providers = disk'.providers]
  BY DEF ProviderRemoved
<1>2. Shapes /\ IsDisk(disk) /\ Idle'  BY <1>1 DEF TransferInv, Shapes, Idle
<1>3. IsDisk(disk') /\ disk'.creds = disk.creds /\ disk'.usage = disk.usage  BY <1>1, <1>2, DiskFacts
<1>4. mem' = [global |-> mem.global, providers |-> disk'.providers, usage |-> mem.usage]
  BY <1>1, <1>2, MemFacts DEF Shapes
<1>5. Shapes'  BY <1>1, <1>2, <1>3, <1>4 DEF Shapes
<1>6. TransferInv'  BY <1>1, <1>3, <1>4, <1>5, OutsideKeeps DEF Idle
<1>7. Shown = disk /\ Shown' = disk'  BY <1>1, <1>2 DEF Shown
<1>8. Counted' = Counted  BY <1>1, <1>2, <1>4 DEF Counted
<1>9. Remembering' = Remembering /\ Answers' = Answers  BY <1>1 DEF Remembering, Answers
<1>10. Promise!Edit  BY <1>1, <1>3, <1>7, <1>8, <1>9 DEF Promise!Edit
<1> QED  BY <1>6, <1>10 DEF PromiseStep, Promise!Next

LEMMA TokenRenewedStep ==
    ASSUME TransferInv, TokenRenewed
    PROVE  TransferInv' /\ (OneFilePerRef => PromiseStep)
<1>1. Idle /\ UNCHANGED <<mem, plans, users, tx, broken, backups>>  BY DEF TokenRenewed
<1>2. PICK c \in disk.creds :
          disk' = [disk EXCEPT !.creds = (disk.creds \ {c}) \cup {[c EXCEPT !.tok = "renewed", !.at = 3]}]
  BY DEF TokenRenewed
<1> DEFINE e == [c EXCEPT !.tok = "renewed", !.at = 3]
           files == (disk.creds \ {c}) \cup {e}
<1>3. Shapes /\ IsDisk(disk) /\ IsCredential(c) /\ Idle'  BY <1>1 DEF TransferInv, Shapes, IsDisk, Idle
<1>4. /\ IsCredential(e) /\ e.ref = c.ref /\ e.kind = c.kind /\ e.acct = c.acct /\ e.org = c.org
      /\ e.email = c.email
  <2> DEFINE b == [c EXCEPT !.tok = "renewed"]
  <2>1. b = [kind |-> c.kind, ref |-> c.ref, acct |-> c.acct, org |-> c.org,
             email |-> c.email, tok |-> "renewed", at |-> c.at]
    BY <1>3 DEF IsCredential
  <2> HIDE DEF b
  <2>2. [b EXCEPT !.at = 3] = [kind |-> c.kind, ref |-> c.ref, acct |-> c.acct, org |-> c.org,
                               email |-> c.email, tok |-> "renewed", at |-> 3]
    BY <2>1
  <2>3. e = [kind |-> c.kind, ref |-> c.ref, acct |-> c.acct, org |-> c.org,
             email |-> c.email, tok |-> "renewed", at |-> 3]
    BY <2>2 DEF b
  <2> QED  BY <2>3 DEF IsCredential
<1> HIDE DEF e
<1>5. disk' = [disk EXCEPT !.creds = files]  BY <1>2 DEF e
<1>6. \A f \in files : IsCredential(f)  BY <1>3, <1>4 DEF IsDisk
<1>7. IdentityKey(e) = IdentityKey(c)  BY <1>4 DEF IdentityKey
<1> HIDE DEF files
<1>8. /\ IsDisk(disk') /\ disk'.creds = files /\ disk'.global = disk.global
      /\ disk'.providers = disk.providers /\ disk'.usage = disk.usage
  BY <1>3, <1>5, <1>6, DiskFacts
<1>9. Shapes'  BY <1>1, <1>3, <1>8 DEF Shapes
<1>10. TransferInv'  BY <1>1, <1>8, <1>9, OutsideKeeps DEF Idle
<1>11. Shown = disk /\ Shown' = disk'  BY <1>1, <1>3 DEF Shown
<1>12. Counted' = Counted  BY <1>1, <1>3 DEF Counted
<1>13. UNCHANGED <<InForce, Remembering, Answers>>
  BY <1>1, <1>8, <1>11 DEF InForce, Remembering, Answers
<1>14. DOMAIN AccountsOf(files) = DOMAIN AccountsOf(disk.creds)
  <2>1. {IdentityKey(f) : f \in files} = {IdentityKey(f) : f \in disk.creds}  BY <1>7 DEF files
  <2> QED  BY <2>1 DEF AccountsOf
<1>15. ASSUME OneFilePerRef
       PROVE  \A ps : BindingsOf(ps, files) = BindingsOf(ps, disk.creds)
  <2>1. ASSUME NEW ref  PROVE AccountAt(files, ref) = AccountAt(disk.creds, ref)
    <3>1. CASE ref = c.ref
      <4>1. WithRef(disk.creds, ref) = {c}  BY <1>15, <3>1 DEF WithRef, OneFilePerRef
      <4>2. WithRef(files, ref) = {e}  BY <1>4, <1>15, <3>1 DEF WithRef, OneFilePerRef, files
      <4> QED  BY <1>7, <4>1, <4>2 DEF AccountAt
    <3>2. CASE ref # c.ref
      <4>1. WithRef(files, ref) = WithRef(disk.creds, ref)  BY <1>4, <3>2 DEF WithRef, files
      <4> QED  BY <4>1 DEF AccountAt
    <3> QED  BY <3>1, <3>2
  <2> QED  BY <2>1 DEF BindingsOf
<1>16. OneFilePerRef => Promise!Renew
  BY <1>1, <1>8, <1>11, <1>12, <1>13, <1>14, <1>15 DEF Promise!Renew
<1> QED  BY <1>10, <1>16 DEF PromiseStep, Promise!Next

LEMMA CrashStep ==
    ASSUME TransferInv, Crash
    PROVE  TransferInv' /\ PromiseStep
<1>1. /\ mem' = [global |-> disk.global, providers |-> disk.providers, usage |-> disk.usage]
      /\ plans' = <<>> /\ broken' = (broken \/ ~Idle) /\ tx' = NoTx /\ disk' = disk
      /\ users' = [u \in Users |-> IF ~Idle /\ tx.user = u
                                   THEN [users[u] EXCEPT !.answer = <<"lost">>] ELSE users[u]]
  BY DEF Crash
<1>2. Shapes /\ IsDisk(disk) /\ disk.usage \in Nat  BY DEF TransferInv, Shapes, IsDisk
<1>3. Idle' /\ tx'.pc = "idle"  BY <1>1 DEF Idle, NoTx
<1>4. /\ users' = [u \in Users |-> users'[u]] /\ \A u \in Users : IsUser(users'[u])
  <2>1. \A u \in Users : IsUser(users[u]) /\ IsUser([users[u] EXCEPT !.answer = <<"lost">>])
    BY <1>2, UserFacts DEF Shapes
  <2> QED  BY <1>1, <2>1
<1>5. plans' \in Seq(ToSet(plans'))  BY <1>1, ToSetFacts, EmptySeq
<1>6. Shapes'  BY <1>1, <1>2, <1>4, <1>5 DEF Shapes
<1>7. CopyKept' /\ PutBack' /\ CountedAhead'
  BY <1>1, <1>2, <1>3 DEF CopyKept, PutBack, CountedAhead
<1>8. TransferInv'  BY <1>6, <1>7 DEF TransferInv
<1>9. CASE broken' = TRUE  BY <1>8, <1>9, TornShows
<1>10. CASE broken' # TRUE
  <2>1. Idle /\ ~broken /\ ~broken'  BY <1>1, <1>2, <1>10 DEF Shapes
  <2>2. Shown' = Shown /\ Shown = disk  BY <1>1, <1>3, <2>1 DEF Shown
  <2>3. Counted' <= Counted  BY <1>1, <1>3, <2>1 DEF Counted, TransferInv, CountedAhead
  <2>4. InForce' = TRUE  BY <1>1, <1>3 DEF InForce, Shown
  <2>5. Remembering' = {}
    <3>1. ToSet(plans') = {}  BY <1>1 DEF ToSet
    <3> QED  BY <3>1 DEF Remembering
  <2>6. Promise!Restart  BY <2>1, <2>2, <2>3, <2>4, <2>5 DEF Promise!Restart
  <2> QED  BY <1>8, <2>6 DEF PromiseStep, Promise!Next
<1> QED  BY <1>9, <1>10

LEMMA InitTransfer == Init => TransferInv /\ Promise!Init
<1> SUFFICES ASSUME Init PROVE TransferInv /\ Promise!Init  OBVIOUS
<1>1. IsDisk(disk) /\ disk.usage \in Nat  BY TransferAssumption DEF Init, IsDisk
<1>2. /\ mem = [global |-> disk.global, providers |-> disk.providers, usage |-> disk.usage]
      /\ plans = <<>> /\ tx = NoTx /\ broken = FALSE
      /\ users = [u \in Users |-> [plan |-> NoPlan, submits |-> 0, answer |-> <<"none">>]]
  BY DEF Init
<1>3. tx.pc = "idle" /\ Idle  BY <1>2 DEF NoTx, Idle
<1>4. plans \in Seq(ToSet(plans))  BY <1>2, ToSetFacts, EmptySeq
<1>5. users = [u \in Users |-> users[u]] /\ \A u \in Users : IsUser(users[u])
  BY <1>2 DEF IsUser
<1>6. Shapes  BY <1>1, <1>2, <1>4, <1>5 DEF Shapes
<1>7. CopyKept /\ PutBack /\ CountedAhead  BY <1>1, <1>2, <1>3 DEF CopyKept, PutBack, CountedAhead
<1>8. Remembering = {}
  <2>1. ToSet(plans) = {}  BY <1>2 DEF ToSet
  <2> QED  BY <2>1 DEF Remembering
<1>9. Answers = [u \in Users |-> <<"none">>]
  <2>1. \A u \in Users : Reported(users[u].answer) = <<"none">>  BY <1>2, ReportedAsIs
  <2> QED  BY <2>1 DEF Answers
<1> QED  BY <1>2, <1>6, <1>7, <1>8, <1>9 DEF TransferInv, Promise!Init

\* Every step but the commit keeps the invariant and the promise.
LEMMA NextTransfer ==
    ASSUME TransferInv, [Next]_vars
    PROVE  /\ TransferInv'
           /\ ReloadSucceeds \/ AnswerIsLost \/ (TokenRenewed /\ ~OneFilePerRef) \/ PromiseStep
<1>1. ASSUME NEW u \in Users, Refuse(u) \/ AnswerAgain(u) \/ Begin(u)  PROVE TransferInv' /\ PromiseStep
  BY <1>1, RefuseStep, AnswerAgainStep, BeginStep
<1>2. CASE Importing /\ (ReloadSucceeds \/ AnswerIsLost)  BY <1>2, CommitStep
<1>3. CASE Importing /\ ~ReloadSucceeds /\ ~AnswerIsLost  BY <1>3, ImportingStep
<1>4. CASE RollingBack
  BY <1>4, UndoCredentialsStep, UndoUsageStep, UndoGlobalStep, UndoClientStep DEF RollingBack
<1>5. CASE Outside
  BY <1>5, UsageStep, TokenRenewedStep, ProviderRemovedStep, ExpireStep DEF Outside
<1>6. CASE Crash  BY <1>6, CrashStep
<1>7. CASE UNCHANGED vars
  <2>1. UNCHANGED <<disk, mem, plans, users, tx, broken, backups>>  BY <1>7 DEF vars
  <2>2. TransferInv'  BY <2>1 DEF TransferInv, Shapes, CopyKept, PutBack, CountedAhead, Idle
  <2>3. UNCHANGED <<Shown, Counted, InForce, Remembering, Answers, broken>>
    BY <2>1 DEF Shown, Counted, InForce, Remembering, Answers, Idle
  <2> QED  BY <2>2, <2>3, ShownIsAll
<1>8. ASSUME NEW u \in Users, NEW d \in Datasets, NEW mode, Preview(u, d, mode)
      PROVE  TransferInv' /\ PromiseStep
  BY <1>8, PreviewStep
<1> QED  BY <1>1, <1>2, <1>3, <1>4, <1>5, <1>6, <1>7, <1>8 DEF Next

\* service.go:382-459: until an import commits, nothing it did shows, neither
\* on disk nor in memory nor in what a user is told, and an import that is
\* rolled back never shows; a crash within one and a rollback that fails are
\* the only ways to tear it.
THEOREM NothingBeforeTheCommit ==
    Spec => /\ Promise!Init
            /\ [][ReloadSucceeds \/ AnswerIsLost \/ (TokenRenewed /\ ~OneFilePerRef) \/ PromiseStep]_vars
<1>1. TransferInv /\ [Next]_vars => TransferInv'  BY NextTransfer
<1>2. TransferInv /\ [Next]_vars =>
          [ReloadSucceeds \/ AnswerIsLost \/ (TokenRenewed /\ ~OneFilePerRef) \/ PromiseStep]_vars
  BY NextTransfer
<1>3. Init => Promise!Init  BY InitTransfer
<1>4. Init => TransferInv  BY InitTransfer
<1> QED  BY <1>1, <1>2, <1>3, <1>4, PTL DEF Spec

\* service.go:424-446: the credentials an import found are in the OAuth
\* directory when it did not succeed, or in a copy left beside it, whatever
\* fails in the rollback and wherever the process crashes.
THEOREM CredentialsSurvive == Spec => NoCredentialLost
<1> DEFINE Safe == (~Idle /\ Idle' /\ ~ReloadSucceeds /\ ~AnswerIsLost) =>
                       (disk'.creds = tx.before.creds \/ tx.before.creds \in backups')
<1>1. TransferInv /\ [Next]_vars => TransferInv'  BY NextTransfer
<1>2. TransferInv /\ [Next]_vars => [Safe]_vars
  <2> SUFFICES ASSUME TransferInv, Next, ~Idle, Idle', ~ReloadSucceeds, ~AnswerIsLost
               PROVE  disk'.creds = tx.before.creds \/ tx.before.creds \in backups'
    BY DEF Safe
  <2>1. IsTx(tx) /\ IsDisk(disk)  BY NoTxFacts DEF TransferInv, Shapes
  <2>2. CASE Crash  BY <2>2 DEF Crash
  <2>3. CASE UndoGlobal
    <3>1. tx.pc = "undo_global" /\ UNCHANGED backups  BY <2>3 DEF UndoGlobal
    <3>2. disk' = disk
      <4>1. ASSUME tx' = [tx EXCEPT !.pc = "undo_client"]  PROVE FALSE
        BY <2>1, <4>1, TxGoes DEF Idle, Backward
      <4> QED  BY <2>3, <4>1 DEF UndoGlobal
    <3> QED  BY <3>1, <3>2 DEF TransferInv, CopyKept
  <2>4. CASE UndoClient
    <3>1. tx.pc = "undo_client" /\ UNCHANGED backups  BY <2>4 DEF UndoClient
    <3>2. disk'.creds = disk.creds
      <4>1. [disk EXCEPT !.providers = tx.before.providers].creds = disk.creds  BY <2>1, DiskFacts
      <4> QED  BY <2>4, <4>1 DEF UndoClient
    <3> QED  BY <3>1, <3>2 DEF TransferInv, CopyKept
  <2>5. CASE UndoCredentials \/ CredentialsStay \/ UndoUsage
    <3>1. \E at \in Backward : tx' = [tx EXCEPT !.pc = at]
      BY <2>5 DEF UndoCredentials, CredentialsStay, UndoUsage, Backward
    <3> QED  BY <2>1, <3>1, TxGoes DEF Idle, Backward
  <2>6. CASE Importing
    <3>1. CASE SaveCredential
      <4>1. tx.pc = "save"  BY <3>1 DEF SaveCredential
      <4>2. \E providers : tx' = [tx EXCEPT !.i = @ + 1, !.providers = providers]
        BY <3>1 DEF SaveCredential
      <4> QED  BY <2>1, <4>1, <4>2, TxSaved DEF Idle
    <3>2. CASE ~SaveCredential
      <4>1. \E at \in Forward \cup {"undo_creds"} : tx' = [tx EXCEPT !.pc = at]
        BY <2>6, <3>2 DEF Importing, Clear, ClearFails, SaveFails, WriteGlobal, WriteClient, WriteFails,
                          AddUsage, UsageFails, ReloadFails, Undo, Forward
      <4> QED  BY <2>1, <4>1, TxGoes DEF Idle, Forward, Backward
    <3> QED  BY <3>1, <3>2
  <2>7. ASSUME tx' = tx  PROVE FALSE  BY <2>7 DEF Idle
  <2>8. CASE Outside
    BY <2>7, <2>8 DEF Outside, RequestCounted, UsagePersisted, TokenRenewed, ProviderRemoved, Expire
  <2>9. ASSUME NEW u \in Users, Refuse(u) \/ AnswerAgain(u) \/ Begin(u)  PROVE FALSE
    BY <2>9 DEF Refuse, AnswerAgain, Begin, Submitting
  <2>10. ASSUME NEW u, NEW d, NEW mode, Preview(u, d, mode)  PROVE FALSE
    BY <2>10 DEF Preview
  <2> QED  BY <2>2, <2>3, <2>4, <2>5, <2>6, <2>8, <2>9, <2>10 DEF Next, RollingBack
<1>3. Init => TransferInv  BY InitTransfer
<1>4. NoCredentialLost <=> [][Safe]_vars  BY DEF NoCredentialLost
<1> HIDE DEF Safe
<1> QED  BY <1>1, <1>2, <1>3, <1>4, PTL DEF Spec
=============================================================================
