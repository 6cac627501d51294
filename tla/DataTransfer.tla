----------------------------- MODULE DataTransfer -----------------------------
(***************************************************************************)
(* transfer.Service (internal/transfer/service.go) in the running process: *)
(* previews and their table of reviewed plans, and the import transaction  *)
(* over the OAuth directory, the configuration files and the usage store,  *)
(* with its rollback.  Any write may fail, in the rollback as well, the    *)
(* answer may be lost on its way and the user try again, and the process   *)
(* may crash between two writes.                                           *)
(*                                                                         *)
(* One OAuth provider kind and the client file it belongs to stand for the *)
(* three; the global file is apart.  Parsing of the import formats is not  *)
(* modelled: a dataset is what Registry.Decode accepted.  A person editing *)
(* the YAML files by hand during an import is left out: nothing in the     *)
(* code keeps such an edit (README).                                       *)
(***************************************************************************)
EXTENDS CredentialStore

CONSTANTS Users, Stores,             \* importers, first disks
          Datasets, Content,         \* names of imports, and what they decode to
          MaxPlans,                  \* maxReviewedPlanCount
          MaxSubmits, MaxFaults, MaxEvents   \* bounds on the run

IsCredential(c) == c = [kind |-> c.kind, ref |-> c.ref, acct |-> c.acct, org |-> c.org,
                        email |-> c.email, tok |-> c.tok, at |-> c.at]
IsDisk(d) == /\ d = [global |-> d.global, providers |-> d.providers, creds |-> d.creds, usage |-> d.usage]
             /\ d.usage \in Nat /\ \A c \in d.creds : IsCredential(c)

ASSUME TransferAssumption ==
    /\ MaxPlans \in Nat \ {0}
    /\ \A d \in Stores : IsDisk(d)
    /\ \A n \in Datasets :
           /\ Content[n].usage \in Nat /\ Len(Content[n].credentials) \in Nat
           /\ \A i \in 1..Len(Content[n].credentials) : IsCredential(Content[n].credentials[i])

VARIABLES disk,     \* [global, providers, creds, usage]: what the files hold
          mem,      \* [global, providers, usage]: the running process
          plans,    \* reviewed plans, oldest first
          users,    \* [plan, submits, answer] of each user
          tx,       \* the import under way
          broken,   \* a crash tore an import, or a rollback failed
          backups,  \* copies of the OAuth directory that were never removed
          faults, events

vars == <<disk, mem, plans, users, tx, broken, backups, faults, events>>

NoTx == [pc |-> "idle"]
Idle == tx.pc = "idle"
NoPlan == <<>>
Modes(d) == IF Content[d].native THEN {"replace", "merge"} ELSE {"merge"}

(* Providers are a sequence of [name, ref, ident] in file order.           *)
ProviderNames(ps) == {ps[i].name : i \in DOMAIN ps}
Scan(files) == SetToSeq(files)
Save(files, c) == FilesAfterSave(files, Scan(files), c)
SavedAs(files, c) == Saved(files, Scan(files), c)
WithRef(files, ref) == {e \in files : e.ref = ref}

\* importStateFingerprint: configuration, refs and identities, not tokens.
Fingerprint(d) == <<d.global, d.providers, {<<IdentityKey(c), c.ref>> : c \in d.creds}>>
PlanID(d, mode) == <<d, mode, Fingerprint(disk)>>
Find(id) == {i \in DOMAIN plans : plans[i].id = id}
Completed(id) == \E i \in Find(id) : plans[i].done

\* mergeClient: a provider of the same name is replaced in its place.
MergedProviders(current, incoming) ==
    LET Named(n) == CHOOSE i \in DOMAIN incoming : incoming[i].name = n
    IN  [i \in DOMAIN current |->
            IF current[i].name \in ProviderNames(incoming)
            THEN incoming[Named(current[i].name)] ELSE current[i]]
        \o SelectSeq(incoming, LAMBDA p : p.name \notin ProviderNames(current))

\* Mutant: whoever holds the old ref is rewired.
RelinkedAll(ps, files, oldRef, c) ==
    [i \in DOMAIN ps |-> IF ps[i].ref = oldRef
                         THEN [ps[i] EXCEPT !.ref = c.ref, !.ident = IdentityKey(c)] ELSE ps[i]]

\* relinkCredentialRef: providers of the imported ref follow the credential
\* to the ref it was saved under, unless they are another account's.
Relinked(ps, files, oldRef, c) ==
    LET held == IF c.ref = oldRef THEN {} ELSE WithRef(files, oldRef)
        Bound(p) == IF p.ident # <<>> \/ held = {} THEN p.ident
                    ELSE IdentityKey(CHOOSE e \in held : TRUE)
    IN  [i \in DOMAIN ps |->
            IF ps[i].ref = oldRef /\ Bound(ps[i]) \in {<<>>, IdentityKey(c)}
            THEN [ps[i] EXCEPT !.ref = c.ref, !.ident = IdentityKey(c)] ELSE ps[i]]

\* linkExternalCredential: the first provider with the ref or the account is
\* used, else one is made under a free name.
LinkedProviders(ps, files, c) ==
    LET Theirs(p) == \/ p.ref = c.ref \/ p.ident = IdentityKey(c)
                     \/ \E e \in WithRef(files, p.ref) : IdentityKey(e) = IdentityKey(c)
        hits == {i \in DOMAIN ps : Theirs(ps[i])}
        base == <<"codex", IF c.email # "" THEN c.email ELSE Head(c.ref)>>
        free == {n \in 2..(Len(ps) + 2) : Append(base, ToString(n)) \notin ProviderNames(ps)}
        name == IF base \notin ProviderNames(ps) THEN base
                ELSE Append(base, ToString(CHOOSE n \in free : \A k \in free : n <= k))
        first == CHOOSE i \in hits : \A j \in hits : i <= j
    IN  IF hits # {}
        THEN [ps EXCEPT ![first].ref = c.ref, ![first].ident = IdentityKey(c)]
        ELSE Append(ps, [name |-> name, ref |-> c.ref, ident |-> IdentityKey(c)])
-------------------------------------------------------------------------------
Init ==
    /\ disk \in Stores
    /\ mem = [global |-> disk.global, providers |-> disk.providers, usage |-> disk.usage]
    /\ plans = <<>>
    /\ users = [u \in Users |-> [plan |-> NoPlan, submits |-> 0, answer |-> <<"none">>]]
    /\ tx = NoTx /\ broken = FALSE /\ backups = {} /\ faults = 0 /\ events = 0

Fault == faults < MaxFaults /\ faults' = faults + 1
Event == events < MaxEvents /\ events' = events + 1

\* A table without the plan of an id: it holds one at most.
Without(table, id) ==
    LET found == {i \in DOMAIN table : table[i].id = id}
    IN  IF found = {} THEN table ELSE RemoveAt(table, CHOOSE i \in found : TRUE)

\* Analyze: a plan of the same id is replaced, its result forgotten; a full
\* table loses its oldest plan.
Remembered(id) ==
    LET kept == IF Len(plans) >= MaxPlans THEN Tail(plans) ELSE plans
    IN  Append(Without(kept, id), [id |-> id, done |-> FALSE])

Preview(u, d, mode) ==
    /\ Idle /\ Event
    /\ mode \in Modes(d)
    /\ plans' = Remembered(PlanID(d, mode))
    /\ users' = [users EXCEPT ![u].plan = PlanID(d, mode)]
    /\ UNCHANGED <<disk, mem, tx, broken, backups, faults>>

\* The TTL of the oldest plan runs out.
Expire == /\ plans # <<>> /\ Event
          /\ plans' = Tail(plans)
          /\ UNCHANGED <<disk, mem, users, tx, broken, backups, faults>>

Submitting(u) == Idle /\ users[u].plan # NoPlan /\ users[u].submits < MaxSubmits
                 /\ users[u].answer[1] # "done"
Said(u, what) == users' = [users EXCEPT ![u].submits = @ + 1, ![u].answer = what]

\* ApplyReviewed: a plan that is gone is refused, one that was carried out
\* answers again; configMu keeps other imports and handlers out.
Refuse(u) == /\ Submitting(u)
             /\ \/ Find(users[u].plan) = {}
                \/ Find(users[u].plan) # {} /\ ~Completed(users[u].plan)
                   /\ users[u].plan[3] # Fingerprint(disk)
             /\ Said(u, <<"refused">>)
             /\ UNCHANGED <<disk, mem, plans, tx, broken, backups, faults, events>>

AnswerAgain(u) == /\ Submitting(u)
                  /\ Completed(users[u].plan)
                  /\ Said(u, <<"done", users[u].plan[1], users[u].plan[2]>>)
                  /\ UNCHANGED <<disk, mem, plans, tx, broken, backups, faults, events>>

\* apply: with the credential store and the usage store owned, the base of
\* the plan is compared and everything is copied before the first change.
Begin(u) ==
    LET d == Content[users[u].plan[1]]
        mode == users[u].plan[2]
    IN  /\ Submitting(u)
        /\ Find(users[u].plan) # {} /\ ~Completed(users[u].plan)
        /\ users[u].plan[3] = Fingerprint(disk)
        /\ tx' = [pc |-> IF d.native /\ mode = "replace" THEN "clear" ELSE "save",
                  user |-> u, plan |-> users[u].plan, before |-> disk, counted |-> mem.usage,
                  i |-> 1, global |-> IF d.native THEN d.global ELSE disk.global,
                  providers |-> IF ~d.native THEN disk.providers
                                ELSE IF mode = "replace" THEN d.providers
                                ELSE MergedProviders(disk.providers, d.providers)]
        /\ Said(u, <<"none">>)
        /\ UNCHANGED <<disk, mem, plans, broken, backups, faults, events>>

Plan == Content[tx.plan[1]]
Undo(then) == tx' = [tx EXCEPT !.pc = "undo_creds"] /\ then
SomeOf(S) == SUBSET S

\* Replacing starts from an empty directory.
Clear == /\ tx.pc = "clear"
         /\ disk' = [disk EXCEPT !.creds = {}]
         /\ tx' = [tx EXCEPT !.pc = "save"]
         /\ UNCHANGED <<mem, plans, users, broken, backups, faults, events>>
ClearFails == /\ tx.pc = "clear" /\ Fault
              /\ \E left \in SomeOf(disk.creds) : disk' = [disk EXCEPT !.creds = left]
              /\ Undo(UNCHANGED <<mem, plans, users, broken, backups, events>>)

SaveCredential ==
    /\ tx.pc = "save" /\ tx.i <= Len(Plan.credentials)
    /\ LET c == Plan.credentials[tx.i]
           now == Save(disk.creds, c)
           saved == SavedAs(disk.creds, c)
           relinked == Relinked(tx.providers, now, c.ref, saved)
       IN  /\ disk' = [disk EXCEPT !.creds = now]
           /\ tx' = [tx EXCEPT !.i = @ + 1,
                               !.providers = IF Plan.native THEN relinked
                                             ELSE LinkedProviders(relinked, now, saved)]
    /\ UNCHANGED <<mem, plans, users, broken, backups, faults, events>>
SaveFails == /\ tx.pc = "save" /\ tx.i <= Len(Plan.credentials) /\ Fault
             /\ Undo(UNCHANGED <<disk, mem, plans, users, broken, backups, events>>)

WriteGlobal == /\ tx.pc = "save" /\ tx.i > Len(Plan.credentials)
               /\ disk' = [disk EXCEPT !.global = tx.global]
               /\ tx' = [tx EXCEPT !.pc = "write"]
               /\ UNCHANGED <<mem, plans, users, broken, backups, faults, events>>
WriteClient == /\ tx.pc = "write"
               /\ disk' = [disk EXCEPT !.providers = tx.providers]
               /\ tx' = [tx EXCEPT !.pc = IF Plan.native THEN "usage" ELSE "reload"]
               /\ UNCHANGED <<mem, plans, users, broken, backups, faults, events>>
WriteFails == /\ \/ tx.pc = "save" /\ tx.i > Len(Plan.credentials)
                 \/ tx.pc = "write"
              /\ Fault
              /\ Undo(UNCHANGED <<disk, mem, plans, users, broken, backups, events>>)

\* usageTx.Restore and Flush: always added, whatever the mode.
AddUsage == /\ tx.pc = "usage"
            /\ mem' = [mem EXCEPT !.usage = @ + Plan.usage]
            /\ disk' = [disk EXCEPT !.usage = mem.usage + Plan.usage]
            /\ tx' = [tx EXCEPT !.pc = "reload"]
            /\ UNCHANGED <<plans, users, broken, backups, faults, events>>
UsageFails == /\ tx.pc = "usage" /\ Fault
              /\ mem' = [mem EXCEPT !.usage = @ + Plan.usage]
              /\ Undo(UNCHANGED <<disk, plans, users, broken, backups, events>>)

\* The reload is the last step that may fail: with it the import stands.
\* A plan still in the table keeps its result for a new TTL.
Commit(answer) ==
    /\ tx.pc = "reload"
    /\ mem' = [mem EXCEPT !.global = disk.global, !.providers = disk.providers]
    /\ plans' = IF Find(tx.plan) = {} THEN plans
                ELSE Append(Without(plans, tx.plan), [id |-> tx.plan, done |-> TRUE])
    /\ users' = [users EXCEPT ![tx.user].answer = answer]
    /\ tx' = NoTx
    /\ UNCHANGED <<disk, broken, backups, events>>
ReloadSucceeds == Commit(<<"done", tx.plan[1], tx.plan[2]>>) /\ UNCHANGED faults
AnswerIsLost == Commit(<<"lost">>) /\ Fault
ReloadFails == /\ tx.pc = "reload" /\ Fault
               /\ Undo(UNCHANGED <<disk, mem, plans, users, broken, backups, events>>)

\* Rollback: credentials, then usage, then configuration; one that fails
\* does not keep the next from being tried.
Restored(d) == [d EXCEPT !.creds = tx.before.creds]
UndoCredentials == /\ tx.pc = "undo_creds"
                   /\ disk' = Restored(disk)
                   /\ tx' = [tx EXCEPT !.pc = "undo_usage"]
                   /\ UNCHANGED <<mem, plans, users, broken, backups, faults, events>>
\* Mutant: the copy is cleaned up whatever happened.
DropBackup == UNCHANGED backups
\* The copy is the only one left: it is kept.
KeepBackup == backups' = backups \cup {tx.before.creds}
CredentialsStay == /\ tx.pc = "undo_creds" /\ Fault
                   /\ \E left \in SomeOf(tx.before.creds) : disk' = [disk EXCEPT !.creds = left]
                   /\ broken' = TRUE
                   /\ KeepBackup
                   /\ tx' = [tx EXCEPT !.pc = "undo_usage"]
                   /\ UNCHANGED <<mem, plans, users, events>>

UndoUsage == /\ tx.pc = "undo_usage"
             /\ mem' = [mem EXCEPT !.usage = tx.counted]
             /\ \/ disk' = [disk EXCEPT !.usage = tx.before.usage] /\ UNCHANGED <<broken, faults>>
                \/ UNCHANGED disk /\ broken' = TRUE /\ Fault
             /\ tx' = [tx EXCEPT !.pc = "undo_global"]
             /\ UNCHANGED <<plans, users, backups, events>>

Failed == users' = [users EXCEPT ![tx.user].answer = <<"failed">>] /\ tx' = NoTx
UndoGlobal == /\ tx.pc = "undo_global"
              /\ \/ /\ disk' = [disk EXCEPT !.global = tx.before.global]
                    /\ tx' = [tx EXCEPT !.pc = "undo_client"]
                    /\ UNCHANGED <<users, broken, faults>>
                 \/ UNCHANGED disk /\ broken' = TRUE /\ Fault /\ Failed
              /\ UNCHANGED <<mem, plans, backups, events>>
UndoClient == /\ tx.pc = "undo_client"
              /\ \/ disk' = [disk EXCEPT !.providers = tx.before.providers] /\ UNCHANGED <<broken, faults>>
                 \/ UNCHANGED disk /\ broken' = TRUE /\ Fault
              /\ Failed
              /\ UNCHANGED <<mem, plans, backups, events>>
-------------------------------------------------------------------------------
\* Outside imports: requests are counted and written out, tokens renewed,
\* providers edited by the handlers.  Within one they wait for its locks.
RequestCounted == /\ Idle /\ Event
                  /\ mem' = [mem EXCEPT !.usage = @ + 1]
                  /\ UNCHANGED <<disk, plans, users, tx, broken, backups, faults>>
UsagePersisted == /\ Idle /\ disk.usage # mem.usage
                  /\ disk' = [disk EXCEPT !.usage = mem.usage]
                  /\ UNCHANGED <<mem, plans, users, tx, broken, backups, faults, events>>
TokenRenewed == /\ Idle /\ Event
                /\ \E c \in disk.creds :
                       disk' = [disk EXCEPT !.creds = (@ \ {c}) \cup {[c EXCEPT !.tok = "renewed", !.at = 3]}]
                /\ UNCHANGED <<mem, plans, users, tx, broken, backups, faults>>
ProviderRemoved == /\ Idle /\ Event /\ disk.providers # <<>>
                   /\ disk' = [disk EXCEPT !.providers = Tail(@)]
                   /\ mem' = [mem EXCEPT !.providers = disk'.providers]
                   /\ UNCHANGED <<plans, users, tx, broken, backups, faults>>

\* A crash, and the start after it: what was in memory is gone, a copy of
\* the OAuth directory stays where it is.
Crash == /\ Fault
         /\ mem' = [global |-> disk.global, providers |-> disk.providers, usage |-> disk.usage]
         /\ plans' = <<>>
         /\ broken' = (broken \/ ~Idle)
         /\ backups' = IF Idle THEN backups ELSE backups \cup {tx.before.creds}
         /\ tx' = NoTx
         /\ users' = [u \in Users |-> IF ~Idle /\ tx.user = u
                                      THEN [users[u] EXCEPT !.answer = <<"lost">>] ELSE users[u]]
         /\ UNCHANGED <<disk, events>>

Importing == \/ Clear \/ ClearFails \/ SaveCredential \/ SaveFails \/ WriteGlobal \/ WriteClient
             \/ WriteFails \/ AddUsage \/ UsageFails \/ ReloadSucceeds \/ AnswerIsLost \/ ReloadFails
RollingBack == UndoCredentials \/ CredentialsStay \/ UndoUsage \/ UndoGlobal \/ UndoClient
Outside == RequestCounted \/ UsagePersisted \/ TokenRenewed \/ ProviderRemoved \/ Expire
Next == \/ \E u \in Users, d \in Datasets, mode \in {"replace", "merge"} : Preview(u, d, mode)
        \/ \E u \in Users : Refuse(u) \/ AnswerAgain(u) \/ Begin(u)
        \/ Importing \/ RollingBack \/ Outside \/ Crash

Spec == Init /\ [][Next]_vars
-------------------------------------------------------------------------------
(* The promise, with what the process would show if no import were under   *)
(* way: until it commits, everything is as it was before.                  *)
Shown == IF Idle THEN disk ELSE tx.before
AccountAt(files, ref) == IF WithRef(files, ref) = {} THEN <<"missing">>
                         ELSE IdentityKey(CHOOSE e \in WithRef(files, ref) : TRUE)
BindingsOf(ps, files) == [n \in ProviderNames(ps) |->
                            AccountAt(files, (CHOOSE p \in ToSet(ps) : p.name = n).ref)]
AccountsOf(files) == [k \in {IdentityKey(c) : c \in files} |->
                        (CHOOSE c \in files : IdentityKey(c) = k).tok]
Meant(name) == LET d == Content[name]
                   files == ToSet(d.credentials)
               IN  [native |-> d.native, global |-> d.global, usage |-> d.usage,
                    accounts |-> AccountsOf(files), bindings |-> BindingsOf(d.providers, files),
                    unsettled |-> {p.name : p \in {q \in ToSet(d.providers) : q.ident = <<>>}}]
Reported(a) == IF a[1] = "done" THEN <<"done", Meant(a[2]), a[3]>> ELSE a

Counted == IF Idle THEN mem.usage ELSE tx.counted
InForce == mem.global = Shown.global /\ mem.providers = Shown.providers
Remembering == {<<Meant(p.id[1]), p.id[2]>> : p \in {q \in ToSet(plans) : q.done}}
Answers == [u \in Users |-> Reported(users[u].answer)]

Promise == INSTANCE ImportPromise WITH
    Datasets <- {Meant(d) : d \in Datasets},
    global <- Shown.global,
    bindings <- BindingsOf(Shown.providers, Shown.creds),
    accounts <- AccountsOf(Shown.creds),
    usage <- Counted, inForce <- InForce, remembered <- Remembering, answers <- Answers,
    sound <- ~broken

\* Every import happens entirely or not at all, in memory and on disk, and
\* its answer says which, whatever write fails and whoever asks again
\* (Service.apply and its rollback closure, service.go:382-531).
AllOrNothing == Promise!Spec

\* The credentials an import found are never lost: when it did not succeed
\* they are all in the OAuth directory, or in a copy left beside it, a crash
\* or a failing rollback notwithstanding (service.go:424-446).
NoCredentialLost ==
    [][(~Idle /\ Idle' /\ ~ReloadSucceeds /\ ~AnswerIsLost) =>
           (disk'.creds = tx.before.creds \/ tx.before.creds \in backups')]_vars
===============================================================================
