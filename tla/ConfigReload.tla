---------------------------- MODULE ConfigReload ----------------------------
(***************************************************************************)
(* Hot reload of the configuration of one client group: the file, the      *)
(* watcher that polls its modification time (internal/proxy/proxy.go), the *)
(* web handlers that edit it and reload at once (internal/web/api.go,      *)
(* config_store.go), a person who edits it with an editor, and the usage   *)
(* counters each reload reconciles (internal/proxy/telemetry.go) while     *)
(* requests admitted under an older configuration still record.            *)
(*                                                                         *)
(* A configuration maps provider names to what providerUsageIdentity       *)
(* compares: URL, keys, account and priority.  Broken is a file that does  *)
(* not load.  Handlers exclude each other (configMu), reloads exclude each *)
(* other (reloadMu); the editor excludes nobody.                           *)
(***************************************************************************)
EXTENDS Naturals, FiniteSets

CONSTANTS
    Names,          \* provider names
    Identities,
    Requests,
    EditorConfigs,  \* what the editor may save, possibly Broken
    Broken,
    MaxWrites,      \* bound: writes of the file
    MaxUsage        \* bound: requests counted per provider before no more start

Configs == UNION {[S -> Identities] : S \in SUBSET Names}

ASSUME ConfigReloadAssumption ==
    /\ IsFiniteSet(Names) /\ IsFiniteSet(Requests)
    /\ EditorConfigs \subseteq Configs \union {Broken}
    /\ Broken \notin Configs
    /\ MaxWrites \in Nat /\ MaxUsage \in Nat

VARIABLES
    disk,     \* the configuration file
    mtime,    \* its modification time: the number of writes
    running,  \* r.cfg, and the proxies built from it
    lastMod,  \* r.lastMod
    reload,   \* the reload under way, holding reloadMu
    handler,  \* the web handler under way, holding configMu
    serving,  \* serving[r]: the provider name a request will be counted under
    usage,    \* the counters of the telemetry store, per name
    missed    \* history: a write fell between a forced reload and its time stamp

vars == <<disk, mtime, running, lastMod, reload, handler, serving, usage, missed>>

NoName == ""

NoReload  == [by |-> "nobody", step |-> "none", seen |-> 0, config |-> Broken, reading |-> 0]
NoHandler == [pc |-> "idle", from |-> NoName, to |-> NoName, wrote |-> Broken, backup |-> Broken,
              owed |-> 0, pure |-> FALSE, raced |-> FALSE]

ASSUME NamesNotEmptyString == NoName \notin Names

Init ==
    /\ disk \in EditorConfigs \ {Broken}
    /\ mtime = 1 /\ lastMod = 1
    /\ running = disk
    /\ reload = NoReload /\ handler = NoHandler
    /\ serving = [r \in Requests |-> NoName]
    /\ usage = [n \in Names |-> 0]
    /\ missed = FALSE

-----------------------------------------------------------------------------
(***************************************************************************)
(* reconcileTelemetryUsageForClient.                                       *)
(***************************************************************************)
\* Mutant: a provider whose URL or keys changed counts as removed.
RemovedOrChanged(old, new) == {n \in DOMAIN old : n \notin DOMAIN new \/ new[n] # old[n]}

Removed(old, new) == DOMAIN old \ DOMAIN new
Added(old, new)   == DOMAIN new \ DOMAIN old

\* A removed and an added provider that share an identity with nobody else of their kind.
Renames(old, new) ==
    {p \in Removed(old, new) \X Added(old, new) :
        /\ old[p[1]] = new[p[2]]
        /\ \A x \in Removed(old, new) : old[x] = old[p[1]] => x = p[1]
        /\ \A x \in Added(old, new) : new[x] = new[p[2]] => x = p[2]}

\* Mutant: renamed providers are treated as deleted.
ReconciledByName(counts, old, new) ==
    [n \in Names |-> IF n \in Removed(old, new) THEN 0 ELSE counts[n]]

Renamed(n, old, new)   == \E a \in Names : <<a, n>> \in Renames(old, new)
FormerName(n, old, new) == CHOOSE a \in Names : <<a, n>> \in Renames(old, new)

Reconciled(counts, old, new) ==
    [n \in Names |->
        IF n \in Removed(old, new) THEN 0
        ELSE IF Renamed(n, old, new) THEN counts[n] + counts[FormerName(n, old, new)]
        ELSE counts[n]]

-----------------------------------------------------------------------------
(***************************************************************************)
(* Reloading, under reloadMu.                                              *)
(***************************************************************************)
\* reloadIfProviderConfigsChanged: the times are read before the file.
WatcherTick ==
    /\ reload.by = "nobody"
    /\ mtime # lastMod
    /\ reload' = [NoReload EXCEPT !.by = "watcher", !.step = "load", !.seen = mtime]
    /\ UNCHANGED <<disk, mtime, running, lastMod, handler, serving, usage, missed>>

\* Mutant: a reload already under way counts as the one asked for.
ForceReloadCoalesced ==
    /\ handler.pc = "written"
    /\ \/ /\ reload.by = "nobody"
          /\ reload' = [NoReload EXCEPT !.by = "handler", !.step = "load"]
          /\ UNCHANGED handler
       \/ /\ reload.by = "watcher"
          /\ handler' = [handler EXCEPT !.pc = "applied"]
          /\ UNCHANGED reload
    /\ UNCHANGED <<disk, mtime, running, lastMod, serving, usage, missed>>

\* ReloadProviderConfigs, called by a handler that has written the file.
ForceReload ==
    /\ reload.by = "nobody"
    /\ handler.pc = "written"
    /\ reload' = [NoReload EXCEPT !.by = "handler", !.step = "load"]
    /\ UNCHANGED <<disk, mtime, running, lastMod, handler, serving, usage, missed>>

Load ==
    /\ reload.step = "load"
    /\ disk # Broken
    /\ reload' = [reload EXCEPT !.step = "reconcile", !.config = disk, !.reading = mtime]
    /\ UNCHANGED <<disk, mtime, running, lastMod, handler, serving, usage, missed>>

\* Mutant: a reload that failed counts as done.
LoadFailsStamped ==
    /\ reload.step = "load"
    /\ reload' = NoReload
    /\ lastMod' = IF reload.by = "watcher" THEN reload.seen ELSE lastMod
    /\ handler' = IF reload.by = "handler" THEN [handler EXCEPT !.pc = "undo"] ELSE handler
    /\ UNCHANGED <<disk, mtime, running, serving, usage, missed>>

\* The file, or another one, does not load or validate: the watcher tries again
\* at its next tick, a handler puts its file back.
LoadFails ==
    /\ reload.step = "load"
    /\ reload' = NoReload
    /\ handler' = IF reload.by = "handler" THEN [handler EXCEPT !.pc = "undo"] ELSE handler
    /\ UNCHANGED <<disk, mtime, running, lastMod, serving, usage, missed>>

Reconcile ==
    /\ reload.step = "reconcile"
    /\ usage' = Reconciled(usage, running, reload.config)
    /\ reload' = [reload EXCEPT !.step = "swap"]
    /\ UNCHANGED <<disk, mtime, running, lastMod, handler, serving, missed>>

\* Mutant: the watcher, too, stamps the time it finds after the reload.
SwapWatchedLate ==
    /\ reload.step = "swap" /\ reload.by = "watcher"
    /\ running' = reload.config
    /\ lastMod' = mtime
    /\ reload' = NoReload
    /\ UNCHANGED <<disk, mtime, handler, serving, usage, missed>>

\* The watcher's reload ends with the time it read first.
SwapWatched ==
    /\ reload.step = "swap" /\ reload.by = "watcher"
    /\ running' = reload.config
    /\ lastMod' = reload.seen
    /\ reload' = NoReload
    /\ UNCHANGED <<disk, mtime, handler, serving, usage, missed>>

SwapForced ==
    /\ reload.step = "swap" /\ reload.by = "handler"
    /\ running' = reload.config
    /\ reload' = [reload EXCEPT !.step = "stamp"]
    /\ UNCHANGED <<disk, mtime, lastMod, handler, serving, usage, missed>>

\* snapshotProviderConfigModTimes, after the reload it is meant to describe.
Stamp ==
    /\ reload.step = "stamp"
    /\ lastMod' = mtime
    /\ missed' = (mtime # reload.reading)
    /\ reload' = NoReload
    /\ handler' = [handler EXCEPT !.pc = "applied"]
    /\ UNCHANGED <<disk, mtime, running, serving, usage>>

-----------------------------------------------------------------------------
(***************************************************************************)
(* Writers of the file.                                                    *)
(***************************************************************************)
Write(config) ==
    /\ disk' = config
    /\ mtime' = mtime + 1

\* The editor overwrites whatever is there.
EditorSaves(config) ==
    /\ mtime < MaxWrites /\ config # disk
    /\ Write(config)
    /\ handler' = [handler EXCEPT !.raced = @ \/ handler.pc # "idle"]
    /\ UNCHANGED <<running, lastMod, reload, serving, usage, missed>>

Without(c, from) == [n \in DOMAIN c \ {from} |-> c[n]]

Edited(c, from, to, identity) ==
    [n \in (DOMAIN c \ {from}) \union {to} |-> IF n = to THEN identity ELSE c[n]]

\* HandleUpdateProvider, up to the write: from may be renamed, and its identity edited.
HandlerUpdates(from, to, identity) ==
    /\ handler.pc = "idle" /\ mtime < MaxWrites
    /\ disk # Broken /\ from \in DOMAIN disk
    /\ to = from \/ to \notin DOMAIN disk
    /\ handler' = [NoHandler EXCEPT !.pc = "loaded", !.from = from, !.to = to, !.owed = usage[from],
                       !.wrote = Edited(disk, from, to, identity),
                       !.pure = identity = disk[from] /\ running = disk /\ reload.by = "nobody"]
    /\ UNCHANGED <<disk, mtime, running, lastMod, reload, serving, usage, missed>>

\* HandleDeleteProvider, up to the write.
HandlerDeletes(from) ==
    /\ handler.pc = "idle" /\ mtime < MaxWrites
    /\ disk # Broken /\ from \in DOMAIN disk
    /\ handler' = [NoHandler EXCEPT !.pc = "loaded", !.from = from, !.to = NoName,
                       !.wrote = Without(disk, from)]
    /\ UNCHANGED <<disk, mtime, running, lastMod, reload, serving, usage, missed>>

\* saveClientConfigWithRollback: keeps what it replaces, which the editor may have
\* saved since the handler read the file.
HandlerWrites ==
    /\ handler.pc = "loaded"
    /\ Write(handler.wrote)
    /\ handler' = [handler EXCEPT !.pc = "written", !.backup = disk]
    /\ UNCHANGED <<running, lastMod, reload, serving, usage, missed>>

\* The reload failed: the file is put back, whatever has been saved since.
HandlerRestores ==
    /\ handler.pc = "undo"
    /\ Write(handler.backup)
    /\ handler' = NoHandler
    /\ UNCHANGED <<running, lastMod, reload, serving, usage, missed>>

\* renameProviderUsage or deleteProviderUsage, after the reload has reconciled.
HandlerFixesUsage ==
    /\ handler.pc = "applied"
    /\ usage' = IF handler.to = NoName THEN [usage EXCEPT ![handler.from] = 0]
                ELSE IF handler.to = handler.from THEN usage
                ELSE [usage EXCEPT ![handler.from] = 0, ![handler.to] = usage[handler.from] + @]
    /\ handler' = [handler EXCEPT !.pc = "answered"]
    /\ UNCHANGED <<disk, mtime, running, lastMod, reload, serving, missed>>

HandlerAnswers ==
    /\ handler.pc = "answered"
    /\ handler' = NoHandler
    /\ UNCHANGED <<disk, mtime, running, lastMod, reload, serving, usage, missed>>

-----------------------------------------------------------------------------
(***************************************************************************)
(* Requests, counted under the name of the configuration they started with.*)
(***************************************************************************)
RequestStarts(r, n) ==
    /\ serving[r] = NoName
    /\ n \in DOMAIN running /\ usage[n] < MaxUsage
    /\ serving' = [serving EXCEPT ![r] = n]
    /\ UNCHANGED <<disk, mtime, running, lastMod, reload, handler, usage, missed>>

RequestCounted(r) ==
    /\ serving[r] # NoName
    /\ usage' = [usage EXCEPT ![serving[r]] = @ + 1]
    /\ serving' = [serving EXCEPT ![r] = NoName]
    /\ UNCHANGED <<disk, mtime, running, lastMod, reload, handler, missed>>

-----------------------------------------------------------------------------
ReloadStep == Reconcile \/ SwapWatched \/ SwapForced \/ Stamp
HandlerStep == HandlerWrites \/ ForceReload \/ HandlerRestores \/ HandlerFixesUsage \/ HandlerAnswers

Next ==
    \/ WatcherTick \/ Load \/ LoadFails \/ ReloadStep \/ HandlerStep
    \/ \E c \in EditorConfigs : EditorSaves(c)
    \/ \E n, m \in Names, i \in Identities : HandlerUpdates(n, m, i)
    \/ \E n \in Names : HandlerDeletes(n)
    \/ \E r \in Requests : RequestCounted(r) \/ \E n \in Names : RequestStarts(r, n)

Spec == Init /\ [][Next]_vars

(***************************************************************************)
(* Fairness: the watcher ticks, reloads and handlers run to their end, and *)
(* a file that loads is not refused for ever.                              *)
(***************************************************************************)
FairSpec == Spec /\ WF_vars(WatcherTick) /\ SF_vars(Load) /\ WF_vars(LoadFails)
                 /\ WF_vars(ReloadStep) /\ SF_vars(ForceReload) /\ WF_vars(HandlerStep)
-----------------------------------------------------------------------------
TypeOK ==
    /\ disk \in Configs \union {Broken} /\ running \in Configs
    /\ mtime \in Nat /\ lastMod \in 1..mtime
    /\ reload \in [by : {"nobody", "watcher", "handler"},
                   step : {"none", "load", "reconcile", "swap", "stamp"},
                   seen : Nat, config : Configs \union {Broken}, reading : Nat]
    /\ reload.by = "handler" => handler.pc = "written"
    /\ handler \in [pc : {"idle", "loaded", "written", "undo", "applied", "answered"},
                    from : Names \union {NoName}, to : Names \union {NoName},
                    wrote : Configs \union {Broken}, backup : Configs \union {Broken},
                    owed : Nat, pure : BOOLEAN, raced : BOOLEAN]
    /\ serving \in [Requests -> Names \union {NoName}]
    /\ usage \in [Names -> Nat]
    /\ missed \in BOOLEAN

\* Between reloads, a file that differs from what is running has a time the
\* watcher has not seen, so the next tick reloads it, unless the write fell
\* between a forced reload and its time stamp.
DifferenceIsNoticed ==
    (reload.by = "nobody" /\ disk # running) => (missed \/ lastMod # mtime)

\* A handler that reports success has its change in force: nobody but the editor
\* can have put another configuration in its place.
AppliedBeforeAnswer ==
    (handler.pc \in {"applied", "answered"} /\ ~handler.raced) => running = handler.wrote

\* Renaming a provider in the web interface carries its usage over, when nothing
\* else about it changes and nothing else is edited meanwhile, however the
\* watcher's reload and the requests still running fall.
PlainRenameKeepsUsage ==
    (handler.pc = "answered" /\ handler.to # NoName /\ handler.pure /\ ~handler.raced)
        => usage[handler.to] >= handler.owed

\* Usage is dropped only with its provider: a reload drops what the configuration
\* it loads no longer has, a handler what no longer runs, unless the editor
\* brought the name back meanwhile.
UsageGoesWithItsProvider ==
    [][\A n \in Names : usage'[n] < usage[n] =>
          IF reload' # reload THEN n \notin DOMAIN reload.config
          ELSE n \notin DOMAIN running \/ handler.raced]_vars

\* Edits of the file are picked up in the end, unless one was missed.
EditsTakeEffect == <>[](missed \/ disk = Broken \/ running = disk)
=============================================================================
