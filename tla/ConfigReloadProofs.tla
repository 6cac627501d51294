------------------------- MODULE ConfigReloadProofs -------------------------
(***************************************************************************)
(* Hot reload, for every set of names, identities, requests and files the  *)
(* editor may save: the watcher misses no difference but the one write     *)
(* that falls before a forced reload's time stamp, an answered change is   *)
(* in force, and usage is dropped with its provider alone and follows a    *)
(* plain rename.                                                           *)
(***************************************************************************)
EXTENDS ConfigReload, TLAPS

Loaded == reload.step \in {"reconcile", "swap", "stamp"}

\* What a reload, and a handler, hold at each step.
ReloadShape ==
    /\ reload.by = "nobody" <=> reload.step = "none"
    /\ reload.step = "stamp" => reload.by = "handler"
    /\ Loaded => reload.config \in Configs

HandlerShape ==
    /\ handler.pc # "idle" =>
          /\ handler.from \in Names /\ handler.wrote \in Configs
          /\ handler.to # handler.from => handler.from \notin DOMAIN handler.wrote

\* A watcher's reload runs because its time differs from the last one seen.
TimesKept ==
    /\ reload.by = "watcher" =>
          reload.seen \in 1 .. mtime /\ lastMod < mtime
    /\ (reload.by = "watcher" /\ Loaded) => reload.seen <= reload.reading
    /\ Loaded => reload.reading <= mtime
    /\ (Loaded /\ reload.reading = mtime) => disk = reload.config
    /\ reload.step = "stamp" => running = reload.config
    /\ (reload.step # "stamp" /\ disk # running) => (missed \/ lastMod # mtime)

\* Unless the editor saves, a handler's configuration goes from the file through
\* its reload to what runs.
OwnConfigPasses ==
    ~handler.raced =>
        /\ handler.pc \in {"written", "applied", "answered"} => disk = handler.wrote
        /\ (Loaded /\ (reload.by = "handler" \/ handler.pc \in {"applied", "answered"}))
              => reload.config = handler.wrote
        /\ (reload.step = "stamp" \/ handler.pc \in {"applied", "answered"}) => running = handler.wrote

IInv == TypeOK /\ ReloadShape /\ HandlerShape /\ TimesKept /\ OwnConfigPasses
-----------------------------------------------------------------------------
\* A renamed provider's former name is a name.
LEMMA FormerNameIsName ==
    ASSUME NEW old, NEW new, NEW n, Renamed(n, old, new)
    PROVE  FormerName(n, old, new) \in Names
  BY DEF Renamed, FormerName

\* Reconciling leaves a counter for every name.
LEMMA ReconciledType ==
    ASSUME NEW counts \in [Names -> Nat], NEW old, NEW new
    PROVE  Reconciled(counts, old, new) \in [Names -> Nat]
  BY FormerNameIsName DEF Reconciled

\* Reconciling drops the counters of removed providers alone.
LEMMA ReconciledKeeps ==
    ASSUME NEW counts \in [Names -> Nat], NEW old, NEW new, NEW n \in Names,
           n \notin Removed(old, new)
    PROVE  Reconciled(counts, old, new)[n] >= counts[n]
  BY FormerNameIsName DEF Reconciled

LEMMA InitIInv == Init => IInv
<1> SUFFICES ASSUME Init PROVE IInv  OBVIOUS
<1>1. running \in Configs /\ disk \in Configs
  BY ConfigReloadAssumption DEF Init
<1>2. TypeOK
  <2>1. reload = NoReload /\ handler = NoHandler
    BY DEF Init
  <2>2. mtime \in Nat /\ lastMod \in 1 .. mtime
    BY DEF Init
  <2>3. missed \in BOOLEAN
    BY DEF Init
  <2>4. serving \in [Requests -> Names \union {NoName}] /\ usage \in [Names -> Nat]
    BY DEF Init
  <2> QED  BY <1>1, <2>1, <2>2, <2>3, <2>4 DEF TypeOK, NoReload, NoHandler
<1> QED
  BY <1>1, <1>2 DEF Init, IInv, ReloadShape, HandlerShape, TimesKept, OwnConfigPasses, Loaded,
              NoReload, NoHandler

\* The watcher's tick and both ways its, or a handler's, load ends.
LEMMA LoadIInv == IInv /\ (WatcherTick \/ ForceReload \/ Load \/ LoadFails) => IInv'
<1> SUFFICES ASSUME IInv, WatcherTick \/ ForceReload \/ Load \/ LoadFails PROVE IInv'
  OBVIOUS
<1> USE DEF IInv, TypeOK, ReloadShape, HandlerShape, TimesKept, OwnConfigPasses, Loaded, NoReload
<1>1. CASE WatcherTick
  <2>1. TypeOK'
    BY <1>1 DEF WatcherTick
  <2>2. ReloadShape'
    BY <1>1 DEF WatcherTick
  <2>3. HandlerShape'
    BY <1>1 DEF WatcherTick
  <2>4. TimesKept'
    BY <1>1 DEF WatcherTick
  <2>5. OwnConfigPasses'
    BY <1>1 DEF WatcherTick
  <2> QED  BY <2>1, <2>2, <2>3, <2>4, <2>5
<1>2. CASE ForceReload
  BY <1>2 DEF ForceReload
<1>3. CASE Load
  <2>1. TypeOK'
    BY <1>3 DEF Load
  <2>2. ReloadShape'
    BY <1>3 DEF Load
  <2>3. HandlerShape'
    BY <1>3 DEF Load
  <2>4. TimesKept'
    BY <1>3 DEF Load
  <2>5. OwnConfigPasses'
    BY <1>3 DEF Load
  <2> QED  BY <2>1, <2>2, <2>3, <2>4, <2>5
<1>4. CASE LoadFails
  BY <1>4 DEF LoadFails
<1> QED  BY <1>1, <1>2, <1>3, <1>4

LEMMA ReloadStepIInv == IInv /\ ReloadStep => IInv'
<1> SUFFICES ASSUME IInv, ReloadStep PROVE IInv'  OBVIOUS
<1> USE DEF IInv, TypeOK, ReloadShape, HandlerShape, TimesKept, OwnConfigPasses, Loaded, NoReload
<1>1. CASE Reconcile
  <2>1. usage' \in [Names -> Nat]
    BY <1>1, ReconciledType DEF Reconcile
  <2> QED  BY <1>1, <2>1 DEF Reconcile
<1>2. CASE SwapWatched
  BY <1>2 DEF SwapWatched
<1>3. CASE SwapForced
  BY <1>3 DEF SwapForced
<1>4. CASE Stamp
  BY <1>4 DEF Stamp
<1> QED  BY <1>1, <1>2, <1>3, <1>4 DEF ReloadStep

LEMMA HandlerStepIInv == IInv /\ HandlerStep => IInv'
<1> SUFFICES ASSUME IInv, HandlerStep PROVE IInv'  OBVIOUS
<1> USE DEF IInv, TypeOK, ReloadShape, HandlerShape, TimesKept, OwnConfigPasses, Loaded, NoHandler
<1>1. CASE HandlerWrites
  <2>1. TypeOK'
    <3>1. disk' \in Configs /\ mtime' \in Nat /\ lastMod' \in 1 .. mtime'
      BY <1>1 DEF HandlerWrites, Write
    <3>2. handler' = [handler EXCEPT !.pc = "written", !.backup = disk]
      BY <1>1 DEF HandlerWrites
    <3> QED  BY <1>1, <3>1, <3>2 DEF HandlerWrites
  <2>2. ReloadShape'
    BY <1>1 DEF HandlerWrites, Write
  <2>3. HandlerShape'
    BY <1>1 DEF HandlerWrites, Write
  <2>4. TimesKept'
    <3>1. mtime' = mtime + 1 /\ UNCHANGED <<running, lastMod, reload, missed>>
      BY <1>1 DEF HandlerWrites, Write
    <3> QED  BY <3>1
  <2>5. OwnConfigPasses'
    BY <1>1 DEF HandlerWrites, Write
  <2> QED  BY <2>1, <2>2, <2>3, <2>4, <2>5
<1>2. CASE HandlerRestores
  BY <1>2 DEF HandlerRestores, Write
<1>3. CASE HandlerFixesUsage
  BY <1>3 DEF HandlerFixesUsage
<1>4. CASE HandlerAnswers
  BY <1>4 DEF HandlerAnswers
<1> QED  BY <1>1, <1>2, <1>3, <1>4, LoadIInv DEF HandlerStep

\* What a handler is about to write is a configuration.
LEMMA EditedConfig ==
    ASSUME NEW c \in Configs, NEW from \in Names, NEW to \in Names, NEW i \in Identities
    PROVE  Edited(c, from, to, i) \in Configs
<1>1. PICK S \in SUBSET Names : c \in [S -> Identities]
  BY DEF Configs
<1>2. [n \in (S \ {from}) \union {to} |-> IF n = to THEN i ELSE c[n]]
         \in [(S \ {from}) \union {to} -> Identities]
  BY <1>1
<1>3. (S \ {from}) \union {to} \in SUBSET Names /\ DOMAIN c = S
  BY <1>1
<1> QED  BY <1>2, <1>3 DEF Configs, Edited

LEMMA RemainingConfig ==
    ASSUME NEW c \in Configs, NEW from \in Names
    PROVE  Without(c, from) \in Configs
<1>1. PICK S \in SUBSET Names : c \in [S -> Identities]
  BY DEF Configs
<1>2. [n \in S \ {from} |-> c[n]] \in [S \ {from} -> Identities]
  BY <1>1
<1>3. S \ {from} \in SUBSET Names /\ DOMAIN c = S
  BY <1>1
<1> QED  BY <1>2, <1>3 DEF Configs, Without

LEMMA NextIInv == IInv /\ [Next]_vars => IInv'
<1> SUFFICES ASSUME IInv, [Next]_vars PROVE IInv'  OBVIOUS
<1> USE DEF IInv, TypeOK, ReloadShape, HandlerShape, TimesKept, OwnConfigPasses, Loaded
<1>1. ASSUME NEW c \in EditorConfigs, EditorSaves(c) PROVE IInv'
  <2>1. TypeOK'
    <3>1. (handler.raced \/ handler.pc # "idle") \in BOOLEAN
      OBVIOUS
    <3>2. disk' \in Configs \union {Broken} /\ mtime' \in Nat /\ lastMod' \in 1 .. mtime'
      BY <1>1, ConfigReloadAssumption DEF EditorSaves, Write
    <3> QED  BY <1>1, <3>1, <3>2 DEF EditorSaves
  <2>2. ReloadShape'
    BY <1>1 DEF EditorSaves, Write
  <2>3. HandlerShape'
    BY <1>1 DEF EditorSaves, Write
  <2>4. TimesKept'
    BY <1>1 DEF EditorSaves, Write
  <2>5. OwnConfigPasses'
    BY <1>1 DEF EditorSaves, Write
  <2> QED  BY <2>1, <2>2, <2>3, <2>4, <2>5
<1>2. ASSUME NEW n \in Names, NEW m \in Names, NEW i \in Identities, HandlerUpdates(n, m, i)
      PROVE  IInv'
  <2>1. disk \in Configs /\ n \in DOMAIN disk /\ handler.pc = "idle" /\ usage[n] \in Nat
    BY <1>2 DEF HandlerUpdates
  <2>2. handler'.wrote \in Configs /\ (m # n => n \notin DOMAIN handler'.wrote)
    <3>1. handler'.wrote = Edited(disk, n, m, i)
      BY <1>2 DEF HandlerUpdates, NoHandler
    <3>2. handler'.wrote \in Configs
      BY <2>1, <3>1, EditedConfig
    <3>3. m # n => n \notin DOMAIN handler'.wrote
      BY <3>1 DEF Edited
    <3> QED  BY <3>2, <3>3
  <2>3. handler'.pure \in BOOLEAN
    BY <1>2 DEF HandlerUpdates, NoHandler
  <2>4. TypeOK'
    BY <1>2, <2>1, <2>2, <2>3 DEF HandlerUpdates, NoHandler
  <2> QED  BY <1>2, <2>1, <2>2, <2>4 DEF HandlerUpdates, NoHandler
<1>3. ASSUME NEW n \in Names, HandlerDeletes(n) PROVE IInv'
  <2>1. disk \in Configs /\ n \in DOMAIN disk /\ handler.pc = "idle"
    BY <1>3 DEF HandlerDeletes
  <2>2. Without(disk, n) \in Configs /\ n \notin DOMAIN Without(disk, n)
    BY <2>1, RemainingConfig DEF Without
  <2>3. handler'.wrote \in Configs /\ n \notin DOMAIN handler'.wrote
    BY <1>3, <2>2 DEF HandlerDeletes, NoHandler
  <2> QED  BY <1>3, <2>1, <2>3 DEF HandlerDeletes, NoHandler
<1>4. ASSUME NEW r \in Requests, RequestCounted(r) PROVE IInv'
  BY <1>4 DEF RequestCounted
<1>5. ASSUME NEW r \in Requests, NEW n \in Names, RequestStarts(r, n) PROVE IInv'
  BY <1>5 DEF RequestStarts
<1>6. CASE UNCHANGED vars
  BY <1>6 DEF vars
<1> QED  BY <1>1, <1>2, <1>3, <1>4, <1>5, <1>6, LoadIInv, ReloadStepIInv, HandlerStepIInv DEF Next

LEMMA IInvHolds == Spec => []IInv
  BY InitIInv, NextIInv, PTL DEF Spec
-----------------------------------------------------------------------------
\* Every variable keeps the values the code gives it.
THEOREM ReloadTypes == Spec => []TypeOK
<1>1. IInv => TypeOK  BY DEF IInv
<1> QED  BY <1>1, IInvHolds, PTL

\* The watcher reads the times before the file, so a write during its reload is
\* still new to the next tick (internal/proxy/proxy.go, reloadIfProviderConfigsChanged).
THEOREM NoDifferenceOverlooked == Spec => []DifferenceIsNoticed
<1>1. IInv => DifferenceIsNoticed
  BY DEF IInv, ReloadShape, TimesKept, DifferenceIsNoticed
<1> QED  BY <1>1, IInvHolds, PTL

\* A handler answers only when its own change is what runs, whoever else reloaded
\* while it waited (internal/web/config_store.go, saveClientConfigWithRollback).
THEOREM AnswersAreInForce == Spec => []AppliedBeforeAnswer
<1>1. IInv => AppliedBeforeAnswer
  BY DEF IInv, HandlerShape, OwnConfigPasses, AppliedBeforeAnswer
<1> QED  BY <1>1, IInvHolds, PTL

\* No reload and no handler drops the usage of a provider that stays.
THEOREM UsageStaysWithItsProvider == Spec => UsageGoesWithItsProvider
<1> DEFINE A == \A n \in Names : usage'[n] < usage[n] =>
                  IF reload' # reload THEN n \notin DOMAIN reload.config
                  ELSE n \notin DOMAIN running \/ handler.raced
<1>1. IInv /\ [Next]_vars => [A]_vars
  <2> SUFFICES ASSUME IInv, Next, NEW n \in Names, usage'[n] < usage[n]
               PROVE  IF reload' # reload THEN n \notin DOMAIN reload.config
                      ELSE n \notin DOMAIN running \/ handler.raced
    OBVIOUS
  <2>0. usage \in [Names -> Nat]
    BY DEF IInv, TypeOK
  <2>1. CASE Reconcile
    <3>1. reload' # reload
      BY <2>1 DEF Reconcile, IInv, TypeOK
    <3>2. n \in Removed(running, reload.config)
      BY <2>0, <2>1, ReconciledKeeps, ReconciledType DEF Reconcile
    <3> QED  BY <3>1, <3>2 DEF Removed
  <2>2. CASE HandlerFixesUsage
    <3>1. handler.from \in Names /\ handler.to \in Names \union {NoName} /\ NoName \notin Names
      BY <2>2, NamesNotEmptyString DEF HandlerFixesUsage, IInv, HandlerShape, TypeOK
    <3>2. reload' = reload /\ n = handler.from /\ handler.to # handler.from
      BY <2>0, <2>2, <3>1 DEF HandlerFixesUsage
    <3>3. handler.from \notin DOMAIN handler.wrote
      BY <2>2, <3>2 DEF HandlerFixesUsage, IInv, HandlerShape
    <3> QED  BY <2>2, <3>2, <3>3 DEF HandlerFixesUsage, IInv, OwnConfigPasses
  <2>3. ASSUME NEW r \in Requests, RequestCounted(r) PROVE FALSE
    BY <2>0, <2>3 DEF RequestCounted, IInv, TypeOK
  <2>4. ASSUME usage' = usage PROVE FALSE
    BY <2>0, <2>4
  <2> QED
    BY <2>1, <2>2, <2>3, <2>4
    DEF Next, ReloadStep, HandlerStep, WatcherTick, Load, LoadFails, SwapWatched, SwapForced, Stamp,
        HandlerWrites, ForceReload, HandlerRestores, HandlerAnswers, EditorSaves, HandlerUpdates,
        HandlerDeletes, RequestStarts
<1> QED  BY <1>1, IInvHolds, PTL DEF Spec, UsageGoesWithItsProvider
-----------------------------------------------------------------------------
(***************************************************************************)
(* A plain rename: the handler's configuration differs from the one that   *)
(* ran when it started in one provider's name alone.                       *)
(***************************************************************************)
Plain ==
    /\ handler.pc \in {"loaded", "written", "applied", "answered"}
    /\ handler.to # NoName /\ handler.pure /\ ~handler.raced

\* The configuration the handler read.
Before == [n \in (DOMAIN handler.wrote \ {handler.to}) \union {handler.from} |->
              IF n = handler.from THEN handler.wrote[handler.to] ELSE handler.wrote[n]]

\* The usage is under the new name from the first reconciliation that loads it.
Moved ==
    \/ running = handler.wrote
    \/ reload.step \in {"swap", "stamp"} /\ reload.config = handler.wrote

RenameOnItsWay ==
    Plain =>
        /\ handler.to \in DOMAIN handler.wrote
        /\ running \in {Before, handler.wrote}
        /\ Loaded => reload.config \in {Before, handler.wrote}
        /\ (Loaded /\ running = handler.wrote) => reload.config = handler.wrote
        /\ handler.pc = "loaded" => disk = Before /\ running = Before /\ (Loaded => reload.config = Before)
        /\ IF Moved THEN usage[handler.to] >= handler.owed ELSE usage[handler.from] >= handler.owed

\* A reload of the configuration that runs moves no usage.
LEMMA ReconciledSame ==
    ASSUME NEW counts \in [Names -> Nat], NEW c
    PROVE  Reconciled(counts, c, c) = counts
<1>1. Removed(c, c) = {} /\ Renames(c, c) = {}
  BY DEF Removed, Added, Renames
<1>2. \A n \in Names : ~Renamed(n, c, c)
  BY <1>1 DEF Renamed
<1> QED  BY <1>1, <1>2 DEF Reconciled

\* Reconciling a configuration with the one its plain rename makes of it moves
\* the usage to the new name.
LEMMA ReconciledRename ==
    ASSUME NEW counts \in [Names -> Nat], NEW old, NEW new, NEW from \in Names, NEW to \in Names,
           DOMAIN old \ DOMAIN new = {from}, DOMAIN new \ DOMAIN old = {to},
           old[from] = new[to]
    PROVE  Reconciled(counts, old, new)[to] >= counts[from]
<1>1. Removed(old, new) = {from} /\ Added(old, new) = {to}
  BY DEF Removed, Added
<1>2. Renames(old, new) = {<<from, to>>}
  BY <1>1 DEF Renames
<1>3. Renamed(to, old, new) /\ FormerName(to, old, new) = from
  BY <1>2 DEF Renamed, FormerName
<1>4. to \notin Removed(old, new)
  BY DEF Removed
<1> QED  BY <1>3, <1>4 DEF Reconciled

\* What the handler of a plain rename read, from what it is about to write.
LEMMA BeforeFacts ==
    ASSUME IInv, Plain, handler.to \in DOMAIN handler.wrote
    PROVE  /\ handler.from = handler.to => Before = handler.wrote
           /\ handler.from # handler.to =>
                 /\ DOMAIN Before \ DOMAIN handler.wrote = {handler.from}
                 /\ DOMAIN handler.wrote \ DOMAIN Before = {handler.to}
                 /\ Before[handler.from] = handler.wrote[handler.to]
<1>1. handler.wrote \in Configs /\ handler.from \in Names
  BY DEF IInv, HandlerShape, Plain
<1>2. handler.wrote = [n \in DOMAIN handler.wrote |-> handler.wrote[n]]
  BY <1>1 DEF Configs
<1>3. handler.from # handler.to => handler.from \notin DOMAIN handler.wrote
  BY DEF IInv, HandlerShape, Plain
<1>4. ASSUME handler.from = handler.to PROVE Before = handler.wrote
  <2>1. (DOMAIN handler.wrote \ {handler.to}) \union {handler.from} = DOMAIN handler.wrote
    BY <1>4
  <2> QED  BY <1>2, <1>4, <2>1 DEF Before
<1>5. DOMAIN Before = (DOMAIN handler.wrote \ {handler.to}) \union {handler.from}
  BY DEF Before
<1>6. Before[handler.from] = handler.wrote[handler.to]
  BY DEF Before
<1> QED  BY <1>3, <1>4, <1>5, <1>6

\* A handler that starts while nothing else does owes what its provider has.
LEMMA UpdateStartsRename ==
    ASSUME IInv, NEW n \in Names, NEW m \in Names, NEW i \in Identities, HandlerUpdates(n, m, i)
    PROVE  RenameOnItsWay'
<1> SUFFICES ASSUME Plain' PROVE RenameOnItsWay'  BY DEF RenameOnItsWay
<1>1. /\ handler'.from = n /\ handler'.to = m /\ handler'.wrote = Edited(disk, n, m, i)
      /\ handler'.owed = usage[n] /\ handler'.pc = "loaded" /\ usage[n] \in Nat
      /\ n \in DOMAIN disk /\ (m = n \/ m \notin DOMAIN disk) /\ disk \in Configs
      /\ UNCHANGED <<disk, running, reload, usage>>
  BY DEF HandlerUpdates, NoHandler, IInv, TypeOK
<1>2. i = disk[n] /\ running = disk /\ reload.by = "nobody"
  BY DEF HandlerUpdates, NoHandler, Plain
<1>3. ~Loaded'
  BY <1>1, <1>2 DEF IInv, ReloadShape, Loaded
<1>4. disk = [k \in DOMAIN disk |-> disk[k]]
  BY <1>1 DEF Configs
<1>5. DOMAIN Edited(disk, n, m, i) = (DOMAIN disk \ {n}) \union {m}
  BY DEF Edited
<1>6. Before' = disk
  <2>1. (((DOMAIN disk \ {n}) \union {m}) \ {m}) \union {n} = DOMAIN disk
    BY <1>1
  <2>2. Before' = [k \in DOMAIN disk |-> IF k = n THEN handler'.wrote[m] ELSE handler'.wrote[k]]
    BY <1>1, <1>5, <2>1 DEF Before
  <2>3. handler'.wrote[m] = disk[n]
    BY <1>1, <1>2 DEF Edited
  <2>4. ASSUME NEW k \in DOMAIN disk, k # n PROVE handler'.wrote[k] = disk[k]
    BY <1>1, <2>4 DEF Edited
  <2> QED  BY <1>4, <2>2, <2>3, <2>4
<1>7. m # n => handler'.wrote # disk
  BY <1>1, <1>5
<1>8. Moved' => m = n
  BY <1>1, <1>2, <1>3, <1>7 DEF Moved, Loaded
<1>9. handler'.to \in DOMAIN handler'.wrote
  BY <1>1, <1>5
<1> QED  BY <1>1, <1>2, <1>3, <1>6, <1>8, <1>9 DEF RenameOnItsWay

LEMMA ReconcileRename == IInv /\ RenameOnItsWay /\ Reconcile => RenameOnItsWay'
<1> SUFFICES ASSUME IInv, RenameOnItsWay, Reconcile, Plain PROVE RenameOnItsWay'
  BY DEF RenameOnItsWay, Reconcile, Plain
<1>1. /\ UNCHANGED <<disk, running, handler>> /\ reload.step = "reconcile"
      /\ reload'.step = "swap" /\ reload'.config = reload.config
      /\ usage \in [Names -> Nat] /\ usage' = Reconciled(usage, running, reload.config)
      /\ Before' = Before
  BY DEF Reconcile, IInv, TypeOK, Before
<1>2. handler.from \in Names /\ handler.to \in Names /\ handler.owed \in Nat
  BY DEF IInv, TypeOK, HandlerShape, Plain
<1>3. Loaded /\ Loaded'
  BY <1>1 DEF Loaded
<1>4. CASE running = reload.config
  <2>1. usage' = usage
    BY <1>1, <1>4, ReconciledSame
  <2>2. Moved' <=> Moved
    BY <1>1, <1>4 DEF Moved
  <2> QED  BY <1>1, <1>3, <2>1, <2>2 DEF RenameOnItsWay
<1>5. CASE running # reload.config
  <2>1. running = Before /\ reload.config = handler.wrote /\ handler.to \in DOMAIN handler.wrote
    BY <1>3, <1>5 DEF RenameOnItsWay
  <2>2. handler.from # handler.to
    BY <1>5, <2>1, BeforeFacts
  <2>3. usage'[handler.to] >= usage[handler.from]
    BY <1>1, <1>2, <2>1, <2>2, BeforeFacts, ReconciledRename
  <2>4. ~Moved /\ Moved'
    BY <1>1, <1>5, <2>1 DEF Moved
  <2>5. usage[handler.from] >= handler.owed
    BY <2>4 DEF RenameOnItsWay
  <2>6. usage'[handler.to] >= handler.owed
    BY <1>1, <1>2, <2>3, <2>5, ReconciledType
  <2> QED  BY <1>1, <1>3, <1>5, <2>1, <2>4, <2>6 DEF RenameOnItsWay
<1> QED  BY <1>4, <1>5

LEMMA NextRename == IInv /\ RenameOnItsWay /\ [Next]_vars => RenameOnItsWay'
<1> SUFFICES ASSUME IInv, RenameOnItsWay, [Next]_vars, Plain' PROVE RenameOnItsWay'
  BY DEF RenameOnItsWay
<1> USE DEF RenameOnItsWay, Plain, Loaded, Moved, Before
<1>1. CASE WatcherTick
  BY <1>1 DEF WatcherTick, NoReload, IInv, ReloadShape
<1>2. CASE ForceReload
  BY <1>2 DEF ForceReload, NoReload, IInv, ReloadShape
<1>3. CASE Load
  <2>1. /\ UNCHANGED <<disk, running, handler, usage>> /\ ~Loaded
        /\ reload'.step = "reconcile" /\ reload'.config = disk
    BY <1>3 DEF Load, IInv, TypeOK
  <2>2. disk = Before \/ (handler.pc # "loaded" /\ disk = handler.wrote)
    BY <2>1 DEF IInv, OwnConfigPasses
  <2>3. running = handler.wrote => disk = handler.wrote
    BY <2>1, <2>2 DEF IInv, OwnConfigPasses
  <2> QED  BY <2>1, <2>2, <2>3
<1>4. CASE LoadFails
  BY <1>4 DEF LoadFails, NoReload, IInv, TypeOK
<1>5. CASE Reconcile
  BY <1>5, ReconcileRename
<1>6. CASE SwapWatched \/ SwapForced
  <2>1. /\ UNCHANGED <<disk, handler, usage>> /\ reload.step = "swap" /\ running' = reload.config
        /\ reload'.step # "swap" /\ (Loaded' => reload'.config = reload.config)
    BY <1>6 DEF SwapWatched, SwapForced, NoReload, IInv, TypeOK
  <2>2. Loaded' => handler.pc = "written"
    BY <1>6 DEF SwapWatched, SwapForced, NoReload, IInv, TypeOK
  <2> QED  BY <2>1, <2>2
<1>7. CASE Stamp
  BY <1>7 DEF Stamp, NoReload, IInv, TypeOK, ReloadShape, OwnConfigPasses
<1>8. CASE HandlerWrites
  BY <1>8 DEF HandlerWrites, Write, IInv, TypeOK
<1>9. CASE HandlerRestores \/ HandlerAnswers
  BY <1>9 DEF HandlerRestores, HandlerAnswers, NoHandler
<1>10. CASE HandlerFixesUsage
  <2>1. running = handler.wrote /\ usage[handler.to] >= handler.owed
    BY <1>10 DEF HandlerFixesUsage, IInv, TypeOK, OwnConfigPasses
  <2>2. /\ handler.from \in Names /\ handler.to \in Names /\ handler.owed \in Nat
        /\ usage \in [Names -> Nat]
    BY <1>10 DEF HandlerFixesUsage, IInv, TypeOK, HandlerShape
  <2>3. usage'[handler.to] >= handler.owed
    BY <1>10, <2>1, <2>2 DEF HandlerFixesUsage
  <2> QED  BY <1>10, <2>1, <2>3 DEF HandlerFixesUsage, IInv, TypeOK
<1>11. ASSUME NEW c \in EditorConfigs, EditorSaves(c) PROVE RenameOnItsWay'
  BY <1>11 DEF EditorSaves, IInv, TypeOK
<1>12. ASSUME NEW n \in Names, NEW m \in Names, NEW i \in Identities, HandlerUpdates(n, m, i)
       PROVE  RenameOnItsWay'
  BY <1>12, UpdateStartsRename
<1>13. ASSUME NEW n \in Names, HandlerDeletes(n) PROVE RenameOnItsWay'
  BY <1>13 DEF HandlerDeletes, NoHandler
<1>14. ASSUME NEW r \in Requests, RequestCounted(r) PROVE RenameOnItsWay'
  <2>1. usage \in [Names -> Nat] /\ \A n \in Names : usage'[n] >= usage[n] /\ usage'[n] \in Nat
    BY <1>14 DEF RequestCounted, IInv, TypeOK
  <2>2. handler.from \in Names /\ handler.to \in Names /\ handler.owed \in Nat
    BY <1>14 DEF RequestCounted, IInv, TypeOK, HandlerShape
  <2> QED  BY <1>14, <2>1, <2>2 DEF RequestCounted
<1>15. ASSUME NEW r \in Requests, NEW n \in Names, RequestStarts(r, n) PROVE RenameOnItsWay'
  BY <1>15 DEF RequestStarts
<1>16. CASE UNCHANGED vars
  BY <1>16 DEF vars
<1> QED
  BY <1>1, <1>2, <1>3, <1>4, <1>5, <1>6, <1>7, <1>8, <1>9, <1>10, <1>11, <1>12, <1>13, <1>14, <1>15,
     <1>16 DEF Next, ReloadStep, HandlerStep

\* A plain rename carries the usage over, whichever of the watcher's reload and
\* the handler's reconciles first (internal/proxy/telemetry.go,
\* reconcileTelemetryUsageForClient).
THEOREM RenamesCarryUsage == Spec => []PlainRenameKeepsUsage
<1>1. Init => RenameOnItsWay
  BY DEF Init, RenameOnItsWay, Plain, NoHandler
<1>2. IInv /\ RenameOnItsWay => PlainRenameKeepsUsage
  BY DEF IInv, HandlerShape, OwnConfigPasses, RenameOnItsWay, Plain, Moved, PlainRenameKeepsUsage
<1> QED  BY <1>1, <1>2, IInvHolds, NextRename, PTL DEF Spec
=============================================================================
