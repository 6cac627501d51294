# Clipal in TLA+

Clipal is a local reverse proxy for AI coding clients.  It listens on one port,
takes the requests of Claude, OpenAI and Gemini clients, and forwards each to
the first usable provider of that client's list: it rotates keys, switches
providers on failure, waits for busy ones, opens circuit breakers, refreshes
OAuth accounts, counts usage, and reloads its configuration while it runs.  A
web interface edits that configuration, logs accounts in, imports and exports
data, points other programs at Clipal, and shows usage.

The specifications here are translated from the Go code under `src/`; the
numbers in comments are line numbers of that code.  TLC checks every module on
small instances, TLAPS proves the theorems of the `*Proofs` modules for all
instances.

## The system

| Component | State | Operations | What is hard | What makes it correct |
|---|---|---|---|---|
| Circuit breaker (`proxy/circuit_breaker.go`) | state, failures, successes, half-open probes, openedAt | peekAllow, allow, recordSuccess, recordFailure, releaseProbeNeutral, snapshot | permits outlive the period they were taken in; two copies of the rules | the probe count has an owner for each probe; availability is admission; it closes again |
| Failover (`failover_forward.go`, `failover_state.go`, `failover_stream.go`) | deactivation of providers and keys, busy backoff, breakers, cursors per scope | forwardWithFailover and what it calls | many requests between locks, decisions on counts read earlier, error paths that must hand back | a group that turns clients away knows when to come back; no provider stays out for good; penalties stand |
| Sticky sessions (`sticky.go`) and manual mode (`failover_manual.go`) | bindings by previous response, response and dynamic feature; a pinned provider with its key cursor | resolve, learn, prune; forward to the pin | pruning by age and capacity, bindings across reloads | a binding follows its provider; an index stays within its list |
| Classification, streams, paths (`failover_classify.go`, `failover_protocol.go`, `oauth_cooldown.go`, `protocols.go`) | none; a reader per stream | classify an answer, compute its cooldown, find the end of a stream, route a path | overlapping rules; chunks cut anywhere; versions and prefixes in any order | one verdict per answer; the cut does not matter; one route per path |
| Rewriting and translation (`request_payload.go`, `request_overrides.go`, `oauth_codex*.go`, `oauth_antigravity*.go`, `oauth_gemini_response.go`) | one parsed body for all attempts | overrides, envelopes, headers, collected and unwrapped answers | what one provider is sent must not reach the next | each gets its own; nothing of an answer is lost |
| Router, hot reload (`proxy.go`, `web/config_store.go`) | configuration, modification times, proxies | watch, forced reload, inherit runtime state, shut down | editor, handlers and watcher change one file; requests keep the proxy they started on | a difference is noticed; a handler answers with its change in force; health outlives a reload |
| Usage store (`telemetry/store.go`, `proxy/telemetry.go`) | counters, dirty, revision, signal, worker, file | Record, Rename, Delete, Restore, Flush, transfer, Close | flushes overtaking each other, records during writes, rollback, crash | each request counted once; clean means durable; the file never goes back |
| Usage and cost (`usage_extractor.go`, `usage_cost.go`, `pricing/`) | none | normalise counters, price them | tokens that are parts of others, tiers | each token is paid once |
| OAuth store and refresh (`oauth/store.go`, `session.go`, `store_transfer_lock.go`) | credential files, single-flight table, RW lock | Load, Save, Delete with rollback, refresh | rotated tokens, imports, undone deletions, waiting writers | imports stand; tokens go back only by a late repair or an undone deletion; every caller returns |
| OAuth login (`session.go`, `web/oauth_api.go`) | sessions, callback servers, linked entries | start, poll, complete, cancel, expire, link | callback, pasted code, poll and cancel race | one outcome per session, and all are told it; accounts stay apart |
| Data transfer (`transfer/`) | reviewed plans, completed results, snapshots | analyze, apply, roll back | several files, one rollback in memory, lost answers, crash | all or nothing, once |
| Configuration and web API (`config/`, `web/`) | the files, configMu | load, validate, save; CRUD of providers, accounts, settings | hand-written files, defaults, cross-field rules, pins | answered means in force, refused means unchanged |
| Client takeover (`integration/`) | settings of other programs, backups | plan, apply, roll back | several files and notes, edits by the user, crash | rolling back gives back what was there; a plan is read as meant |
| Notifier (`notify/`) | queue, last sent, one sender | notify, configure, shut down | a sender that hangs, repetitions, reconfiguration | notifications neither repeat nor crowd |
| Outbound (`outbound/`) | DNS cache, connection attempts | look up, dial | leaders that are cancelled, late connections | one's outcome is one's own; nothing leaks |
| Self update (`selfupdate/`) | the executable, its backup | update, apply | two renames, retries, a second update | the executable is whole or set aside |
| Service managers, CLI, logs, web UI, packages | files | - | - | not modelled: sequential I/O and presentation |

Interaction.  `Router` owns one `ClientProxy` per client and replaces them on a
reload; a request keeps the proxy it was dispatched to.  `ClientProxy` guards
its health state with one mutex, each circuit breaker with its own, and holds
neither across a network wait.  `forwardWithFailover` calls the telemetry store
and the OAuth service.  Web handlers hold `configMu`, write the file, call the
router's forced reload (`reloadMu`) and then the telemetry store.  The importer
holds `configMu`, `reloadMu`, its own mutex, the exclusive side of
`storeTransferMu` and the telemetry store's `flushMu` together.

`PROJECT.json` lists the hazards of this code line by line with the properties
that would catch each.

## Modules

### Forwarding

**CircuitBreaker** (operators) and **BreakerClients** (`Acquire`, `Succeed`,
`Fail`, `Release`, `BusyRetry`, `Tick`, `Recover`): the breaker is a record, its
methods are operators on it, and `slot[r]` is what the caller keeps in `allow`
and `allow.usedProbe`.  A slot is `current`, `stale` (of an earlier half-open
period), `returned` (handed back by a busy retry, still going to be handed back)
or `plain` (taken while closed).  `openAge` is the time since openedAt, capped
at the timeout; `strayed` remembers that somebody freed a slot not his own.

**Failover** extends CircuitBreaker.  `req[r]` holds the local variables of
`forwardWithFailover`; its `pc` stops where a request can be overtaken: at a
network wait, an inline wait, or between two locks whose reads the code keeps.
`Admit`/`TurnAway` are the availability test, `ReadBody` the sticky lookup and
the start index, `TakePermit`..`SendWithKey` the provider and key loops,
`UpstreamBreaks`..`KeysSpent` the answers, `Commit` and `Stream*` the streaming
half.  Times are ticks left; `Tick` is the clock and `reactivateExpired`.  A
failure class and a Retry-After are chosen where the code classifies.

**StickyTables** are the three tables as a record with an operator for each
critical section; an entry carries its age.  **ProxyGenerations** extends it and
CircuitBreaker: a generation is one `ClientProxy`, `Reload` builds the next one
and inherits, `Dispatch` binds a request to the live one, and the requests of
old generations walk, fail, learn and hand back on their own.  Manual mode is a
mode of a configuration.  Of forwarding only what touches inherited state is
there; Failover has the rest.

**UpstreamVerdicts**, **StreamProtocol**, **RequestPaths**, **UsageCost**,
**RequestRewriting** and **AnswerTranslation** have no state: they are the
functions of the code as operators, on inputs reduced to what the code looks for
in them.  RequestRewriting follows the shared body and header through a walk
over several providers.  StreamProtocol cuts a stream of line ends and lines
into chunks; AnswerTranslation takes over where events are whole.

### State that is kept

**UsageStore**: `mem`, `file` and the flush protocol of `telemetry.Store`: a
flush takes `flushMu`, snapshots under `s.mu`, writes, and clears `dirty` only
if the revision has not moved.  Callers record, rename, delete, restore, delete
with rollback; the worker has its signal channel (capacity 1) and timer; an
import holds `flushMu` as a transaction; `Close` and `Crash` end the store.
A metric is a count: what is added, moved and merged, not what it measures.

**ConfigReload**: one client group, its file and modification time, the
watcher, `ReloadProviderConfigs`, the handlers' write, reload, restore, and
usage step, an editor that excludes nobody, and requests that record under the
name they were admitted with.  A configuration maps names to what
`providerUsageIdentity` compares.

**ConfigFiles** looks at the same handlers from the other side: what is in the
files.  `file` and `globalFile` hold what people and handlers wrote, `Loaded`
gives it defaults and minimums, `Valid` is the validation, one action per
handler of `web/api.go` changes, normalises, validates, saves, reloads, or
puts back.  `last` keeps what was asked and answered, for the property.

**OAuthRefresh**: one account.  A token is its login or import (line), its
rotation (gen) and whether its Antigravity project is known.  Callers run
`Service.refresh` step by step: shared lock and load, join or lead, upstream,
save, finish, return.  A leader renews the token, or, if all that is wrong with
the credential it loaded is the missing project (`repairOnly`), completes that
credential and saves it with the tokens it was loaded with; `KeepProject` is what
the save keeps of the file it overwrites.  Two history variables serve the
exceptions of the properties: `behind`, the repairers that had loaded and not led
when another refresh was saved, and `undone`, that a deletion was.  `Readers` are
the callers inside; a waiting import keeps new ones out, as Go's RWMutex does.  Logins save,
the web handler deletes and may undo it, an import analyzes, waits, owns the
store, clears, saves and commits or rolls back.

**CredentialStore** are the credential files of many accounts and the rules that
match identities and give out refs.  **DataTransfer** extends it: `Analyze` and
`Apply` with the directory, the configuration files and the usage store, each
write a step of its own that may fail, the rollback in memory, the tables of
plans and of completed results, and a crash anywhere.  **ImportPromise** is
what `docs/en/data-transfer.md` promises of it, over accounts instead of files.

**AccountLinking** and **LoginSessions**: the sessions, their callback servers
and the requests of the management API, a goroutine each.  `saved` is history
for the properties.

### The user's machine

**Takeover** is the transaction over another program's files, with the three
notes that the rollback is made from; **ClientPlans** are the planners that say
what is written into them, for each product.  **Notifier**, **NameLookups**
(DNS cache and catalog of models, which share their construction),
**AddressRace** (the two series of connection attempts) and **SelfUpdate** are
one file of the source each.

`MC*` modules give TLC its constants and small inputs.  **MCRules** asks one
question after the other of the stateless modules and composes them;
**LocalScenes** composes six that share a machine but no state, one scene each,
and **MCLocal** gives it its constants.
Eight `*Proofs` modules hold the theorems.  **BreakerClientsProofs**,
**FailoverProofs**, **ConfigReloadProofs**, **UsageStoreProofs**,
**LoginSessionsProofs** and **ProxyGenerationsProofs** are about the module they
are named after, **CredentialProofs** about OAuthRefresh and DataTransfer, and
**LocalProofs** about Notifier, NameLookups, AddressRace, SelfUpdate and Takeover
as LocalScenes composes them.

Atomicity.  A step never spans a network wait, a file write that others can
overtake, or a gap between two locks whose result the code carries over.  Code
under one mutex is one step.  `refresh` takes the shared lock and loads in one
step: nothing between the two can change the file differently from before the
lock, except an import, which the lock excludes.  Definitions commented as
mutants are faulty versions used to test a property and take no part in any
specification.

## Refinement

`AllOrNothing` of DataTransfer is `Promise!Spec`, where `Promise` is
ImportPromise with every one of its variables mapped: the files to what they
mean (credentials to accounts with tokens, provider entries to the accounts they
are bound to), the steps between the first write and the last to the moment in
which the import has happened.  Each step of DataTransfer is a step of the
promise or leaves it alone; a crash in the middle and a rollback that itself
fails are the only ways to lose `sound`.  TLC checks this on
every step; `NothingBeforeTheCommit` proves it for all constants, of every step
but the commit.

In the other compositions the parts are tied by name: Failover and
ProxyGenerations extend CircuitBreaker, so that the rules proved in
BreakerClientsProofs are the ones they run on; MCRules and LocalScenes instantiate
their parts unchanged.

## Runs

| Run | Expect | Question |
|---|---|---|
| `breaker` | pass | three requests on one breaker, thresholds 2, two probes: count, availability, recovery |
| `failover` | pass | two clients, two providers, two keys, one scope each, one busy delay: dead ends, giving up, recovery, penalties |
| `failover_leak` | violation | do skipped providers always come back? |
| `generations` | pass | two requests, a reload among four configurations: do bindings, cursors and health go with their provider? |
| `usage` | pass | one recorder, one handler, two names, worker, import, Close, crash: counting, durability, progress |
| `reload` | pass | two names, two identities, four writes: noticing, answering, usage, progress |
| `oauth` | pass | two callers for ever, login, deletion, import: imports stand, tokens kept, everybody returns |
| `transfer` | pass | two users, three kinds of import, two first disks, faults and a crash: all or nothing, no credential lost |
| `login` | pass | two sessions, two requests, a fixed port, an account being linked: outcomes, links, progress |
| `rules` | pass | every stateless decision over all inputs of a small domain |
| `local` | pass | six scenes: configuration files, takeover, notifications, lookups, connections, self update |
| `google_overrides` | violation | can a provider of the google client be given a thinking level? |

Bounds.  Each is a constant with a comment `bound:` or a small set in the .cfg
or MC module.

- `breaker`: three requests give every combination of a current probe, a stale
  one and a returned one; thresholds of 2 separate "first" from "enough".
- `failover`: two providers with two keys are the smallest instance in which a
  key runs out before its provider, and a provider before its group; the two
  clients differ in scope and capability, so that one moves health under the
  other.  Each client sends once, and one of them may leave: longer histories
  repeat the health states these reach through the clock.
- `generations`: the four configurations reorder, repoint, drop a key, pin and
  empty the list; one reload lies between any two steps of the two requests; a
  capacity of 1 makes the second feature push out the first.
- `usage`: two names are needed to rename and merge, two counts to see one lost;
  revisions are bounded because a third flush overtakes as the second does.
- `reload`: four writes fit an edit before, during and after one handler's reload.
- `oauth`: two callers suffice for a stale leader and a follower, because a
  caller comes back as often as it likes; two lines are the original account and
  one login or import; one rotation separates a token from its successor; the
  account may lack its project from the start, by an import or after a renewal, so
  that repairs meet renewals in every order.
- `transfer`: a full backup, one from before identities were recorded, and
  foreign files, over disks where refs agree or are swapped; two submissions of
  two plans include the repeated one, two faults a failure of the undoing too.
- `login`: two sessions supersede each other on the fixed port; two requests
  are a poll beside a submitted code or a cancel, with the callback beside both.
- `rules`: streams of 5 symbols (6 of the three that matter) cut everywhere;
  paths of 3 segments below any version; two details of a refusal in any order;
  walks over up to three providers; answers of three events and their end.
- `local`: another program with both of two files or either one of them, so that
  a restart can move its main file; three calls, two edits by its user, one
  failed write and one stop, enough for a file that cannot be put back (an edit
  makes the commit fail, the failure the undoing) and for a change and its way
  back while a takeover runs; two hand edits of the configuration; a queue of
  two; two names and three requests on a cache of one; two addresses a family;
  two updates with three failures and one crash.

Symmetry is declared where the values only differ by name (requests, users,
addresses, keys, hosts) and only in runs without liveness.

Deadlock is checked except where a run really ends: in `reload` (write and usage
bounds), `generations`, `transfer`, `login` and `local` (everybody has done what
the bounds allow), and in the violation runs.

Fairness.  `breaker`: the clock runs, clients keep sending, and not every
admitted request is cancelled (strong fairness of `Succeed`: without it nothing
would ever close a circuit).  `usage`: goroutines run, `flushMu` is granted in
the end (Go's mutex is starvation free), and the disk accepts a write now and
then.  `reload`: the watcher's ticker ticks, a reload and a handler run to their
end, a loadable file is not refused for ever.  `oauth`: goroutines run, the
provider clients' HTTP timeout of 30 s ends an upstream call, a RWMutex lets
readers in after its writer.  `login`: a request's goroutine runs on; the
exchange with the provider ends, in either way, for the same timeout.  A caller
that starts, a lost answer, a client that gives up, an edit, a crash and an
update that is called are never assumed to happen.

## What the properties except

A property says only what the code keeps.  Where it names an exception, the code
has it, and so do these, which no run is spent on:

- *Breaker.*  The count of probes is exact only until a slot is handed back late
  or twice (`strayed`): `half_open_max_inflight` then admits more probes than
  `docs/en/config-reference.md:108` says (failover_forward.go:330,
  circuit_breaker.go:187).
- *Failover.*  `QuietMeansRecovered` sets aside the providers in `lost`
  (`failover_leak` shows how they get there).  The loop bound `active`
  (failover_forward.go:182) is a count taken before the body is read: a request
  may end with "All providers failed" although one was never tried.
- *Reload.*  `DifferenceIsNoticed` sets aside the writes that were `missed`:
  ReloadProviderConfigs stamps the modification times after loading
  (proxy.go:828), so that an edit in between is never loaded.  Usage follows a
  rename only if URL, keys and priority stay (api.go:469, telemetry.go:146).  A
  reload copies half-open probes and busy probes that are in flight
  (proxy.go:1082); they are handed back to the old breaker, and the new one may
  refuse for good.  `HealthOutlivesReload` contradicts
  `docs/en/routing-and-failover.md:108` (and `docs/zh/routing-and-failover.md:107`),
  "temporary runtime state from the previous config is replaced by the reloaded
  configuration": the code takes cooldowns, busy states, circuits and bindings over
  to the provider that is the same (proxy.go:944-1124), as
  `release-notes/v0.6.2.md:9`, `v0.8.0.md:19` and `v0.14.0.md:19` say it does.  The
  property follows the code and the release notes; the two pages are out of date.
- *Refresh.*  A caller that loaded before a refresh was saved and looks for it
  after it was entered out refreshes again with the old token
  (session.go:420), against `release-notes/v0.18.1.md:19`.  If it only repairs a
  missing Antigravity project (session.go:409, 463-466), nothing is renewed: the
  credential it loaded is completed (antigravity.go:225-250) and saved
  (session.go:483), the merge keeps its tokens (identity.go:52-96), and the token
  that the other refresh has just saved is gone, against
  `docs/en/config-reference.md:219`.  Whoever joined that repair with the newer token
  is handed the older one.  `RotationKept` and `NoStepBack` set aside just these
  repairs (`behind`) and those after an undone deletion, whose backup may be older
  than what others loaded (`undone`).  TLC finds both properties violated without
  the exception.
- *Login.*  Snapshots of a session (session.go:516-527, 573-582) leave out the
  region the login was started for, which the save reads (753), so that it is
  lost on those ways (`docs/en/web-ui.md:145`).  A deleted account's entry that
  a racing link has just written stays, and the next login takes it.  A handler
  that closes its own callback server waits two seconds.  The server of an
  expired session stays open until the next start or poll.
- *Transfer.*  An answer that is lost and an import that is previewed and
  applied again adds its usage twice (service.go:229-252, against
  `docs/en/data-transfer.md:68`).  Whether an account is ambiguous depends on
  the order of its files (store.go:114-125).  A merge that changes the key of an
  identity leaves the old ref behind (service.go:604-632).  Entries without a
  recorded identity follow their ref, whoever has it now, and so do foreign
  credentials.  YAML edited by hand during an import is overwritten.
- *Configuration.*  A pinned provider called `null` is written without quotes
  (yaml_format.go:28) and read as none.  A pin is validated in manual mode only.
  Editing a provider drops `ignore_count_tokens`.
- *Rules.*  One more token may make an answer cheaper when it lifts the prompt
  over 272K and the catalog's entry has a price above 200K that it leaves out above
  272K: such a price falls back on the base one (calculator.go:168-172), so that with
  prices of 4 and 6 above the smaller size and only an input price of 5 above the
  larger one, over an output price of 3, five input and four output tokens cost 44
  and six and four cost 42.  `EveryTokenPricedOnce` excepts exactly that step of
  such entries (`StepsCovered`).  A numeric retry hint loses its trailing zeros
  (oauth_cooldown.go:473).  `{"type":"message"}` is deleted from the input that
  all attempts share (oauth_codex.go:619-653), and Codex sets headers on the
  client's own request (393-426, against the comment oauth_environment.go:20);
  `OwnRequest` states both.  The end of a second part of a text replaces the
  first when an answer is collected (oauth_codex_response.go:249); a response
  that failed and names no status counts as completed (280).
  A version with a suffix, `v1.2.0-rc1`, compares equal to `v1.2.0`.
- *Plans.*  A model chosen for Kimi by the wire id of the user's own entry makes
  later plans refuse until a rollback (kimi.go:80-98); a larger context that the
  user had set wins only in the next plan.
- *Takeover.*  After a crash in the middle of writing the note `cycle.json`, both
  apply and rollback refuse until it is removed by hand; after one between the
  two notes of older versions, or between adopting those and the new cycle, the
  baseline is lost (`NotesKept` in LocalScenes ends those histories).  What the user
  edits after a takeover is lost at the rollback.  Two more came out of the proof.
  The backup is read after the plan (takeover.go:211 and 277), and the files are
  compared with the plan before it and at the write: a file that the user changes
  in between and changes back is replaced, and the baseline has what it held
  meanwhile ("changed back").  And a takeover by an older version is looked for
  in the main file only (243 and 330): when the environment has moved that file since, the
  new takeover's backup replaces the older one's ("note replaced").
- *Antigravity's catalog.*  A follower is told that the leader was cancelled
  (oauth_antigravity_models.go:99-126); the DNS cache avoids that, and
  `OwnOutcome` asks it of the DNS cache only.
- *Self update.*  Nothing puts back an executable that was set aside when the
  update was killed, or whose restoring failed.  A second update at the same
  time may drop or overwrite the backup of the first.

## Proofs

Each module under proof has one named assumption on its constants: bounds are
naturals, sets whose members are counted are finite, and small inputs have the
shape the code gives them.  TLC evaluates them on every run.  Bounds are not
otherwise used: the theorems hold for any number of requests, providers, keys,
callers, sessions, names and repetitions.  Where a property is not inductive,
TLC checked the strengthening below before it was proved.

**BreakerClientsProofs.**  Types (`TypeCorrect`), no probe counted without a
holder and the count exact until a hand-back goes astray
(`ProbesAlwaysAccounted`), and `peekAllow`, `allow` and `snapshot` agreeing
(`AvailabilityIsAdmission`).  `IInv` adds that a breaker outside half-open counts
no probe and owns none, that an open one has an opening time, that a disabled one
is closed, and that the count is below the cardinality of the current holders even
after a stray hand-back.  Each breaker method has a lemma on what it does to the
count; each action adds or removes one holder, by the cardinality theorems.

**FailoverProofs.**  `FailoverTypes` rests on `ShapeInv`: cursors point at
providers and keys that exist, breakers are well formed, and a request's locals
are as its pc says.  `TurnedAwayKnowsWhen` follows from it: whatever keeps the
last provider away has a deadline.  `PenaltiesStand` is an action property of the
same invariant.  `GivingUpComesLast` needs `WalkInv`: what a request still owes an
attempt lies ahead of it in the circle of providers, and it has counted no more
attempts than candidates it has reached; so the loop cannot run out of either
before it has tried them, although other requests move the shared cursor and the
health meanwhile.  `QuietBringsThemBack` needs `PermitInv`: at a provider where no
attempt has lost its permit, half-open permits and busy probes are never counted
beyond the attempts that owe them, so that none is left when nobody is in flight.

**UsageStoreProofs.**  `CleanStoresAreOnDisk` and `FileGoesForward` come from one
invariant: a flush under way finds the store still dirty and its snapshot current
if the revision is (`FlushKnows`), and an import can go back to a state that kept
the same rules (`TransferKnows`).  `RequestsCountedOnce` needs `Accounted`: only a
handler that may still undo holds counters, and an import knows by how much it
raised them.  Sums run over a finite function; they are counted as sets of units
(`Units`), so that adding, moving and merging are facts about cardinalities and
need no induction.

**ConfigReloadProofs.**  `NoDifferenceOverlooked` needs `TimesKept`: what a reload
read, and the time it read it at, still agree with the file when it swaps, unless
the write fell before a forced reload's stamp.  `AnswersAreInForce` needs
`OwnConfigPasses`: without an editor a handler's configuration passes from the file
through the reload to what runs.  `UsageStaysWithItsProvider` is an action property.
`RenamesCarryUsage` needs `RenameOnItsWay`: while a plain rename is under way only
the configuration before it and the one after it are loaded, and the usage is under
the old name until the first reconciliation that loads the new one and under the
new name after it, however often it is reconciled.

**CredentialProofs**, one account.  Types and the single flight (`TypeCorrect`), and that what
a committed import replaced or removed stays gone (`ImportedStaysImported`).  The
strengthening says who may still write: a caller past its load, an undone deletion
and the import's own rollback hold only credentials no import replaced
(`HoldersAllowed`); the import commits alone (`ImportAlone`), because callers keep
the shared lock from before their load until they return and deletions hold
`configMu`.  `RotatedTokensStayGone` and `JoiningNeverStepsBack` need `RInv`: nobody
holds a token later than the upstream issued, the one caller that may save a renewal
has the latest of its line, and until an import ends it has put nothing over a token
but another line.  Repairs save what they loaded, and so need `OInv`, about the order
of loads and saves: until a deletion is undone, a file without its project is the
latest of its line that anybody loaded (whatever was saved later has its project or
is a renewal), and so is what a repairer that is not `behind` has loaded.

**LoginSessionsProofs.**  `SavedLoginsComplete` with `LoginTypes`.  `LoginInv` says
who owns a session: one request begins it and one completes it, the one that
completes it knows whether its credential was saved, and whatever else ends a
session (a cancel, expiry, a newer login) finds it neither starting under another
request nor completing.

**CredentialProofs**, imports.  `CredentialsSurvive` is an action property of `CopyKept`:
the directory is as the import found it or its copy is kept.
`NothingBeforeTheCommit` is the refinement of ImportPromise, step by step: the
initial states map to initial states, and every step to a step of the promise or a
stutter.  It rests on `PutBack` (what the rollback has restored so far) and
`CountedAhead` (memory never counts fewer requests than the file).  Two kinds of
steps are excepted.  What the commit shows is computed by folds over files and
datasets; that it is what the import means would take an induction over them.  The
renewal of a token is covered where no two credential files share a ref:
`OneFilePerRef` holds in every state TLC reaches, but that a save keeps it depends
on the fold that looks for the matching account.

**ProxyGenerationsProofs.**  `GenInv` says that every proxy in use is well formed,
that its sticky entries lead to providers that served them, and that a request is
at home in its proxy: what it holds of provider and key exists there, because
`Keep` forgets no proxy a request is on and no step changes a configuration.
`EntriesFollowProviders` and `RequestsAimAtHome` follow from it at once.
`HealthStays` rests on `NewByOldFacts` and `KeyOutInherited`: names are unique
(`config.go:1230`) and so are a provider's keys (`config.go:652`), so old and new
index belong to each other one to one.  For `OldestFeaturesGo` an entry is counted
by those that go before it (`Before`), which tells any two apart, so that what is
left after an eviction fits into the capacity; `OldestWent` then carries "nothing
left is older than what went" through pruning and up to two evictions.  The
capacity is assumed positive, as `config.go:1330` and `proxy.go:483` leave it, and
the keys a conversation is looked up by and teaches to be naturals: that they are
whenever its texts are is an induction over `SelectSeq`.

**LocalProofs.**  No two scenes are on at once, so that `LocalInvariant` is one
inductive invariant for each, and each action of a scene has a lemma.

- *Notifications* (`NotificationsKeepTheirPace`).  `NotifierInvariant` counts what
  was shown as sets of indices: those in the minute under way are no more than the
  counter, those of the last minute before it no more than the rate
  (`WithinRate`), and a set that can be moved into another is no larger.  What was
  shown within the window is still in the table (`Remembered`), although
  clean-ups forget older entries, and only the last notification can have a
  sender that runs (`OneAtATime`).
- *Lookups and connections* (`ConnectionsStayOwn`).  `LookupInvariant`: a name that
  is pending is so for the one request that asks for it, followers wait only for
  a pending name, and what a DNS follower is told is an answer, a failure or to
  look again, never how another's context ended.  `RaceInvariant`: a connection is
  open from when its series made it until somebody closes it, so that one whose
  series has ended is the one returned; and the dialer counts the series that are
  still under way.
- *Self update* (first half of `UsersFilesStayKept`).  `UpdateInvariant`: what is
  ready to be installed is the new executable and was checked, what is set aside
  was the executable, and where the place is empty an update is at work that will
  move something there (`DueIsThere`), unless one was killed or its repair failed.
- *Takeover* (its second half).  `TakeoverInvariant` has two parts.  When nothing
  runs (`Idle`), the notes give back everything that was replaced, exactly unless
  there was a mishap (`Gives`); without a cycle it is an older version's takeover
  of the main file alone (`Older`); and what was not replaced is the user's.  While
  something runs (`Underway`), all of that still holds of the disk as it was read
  at the start (`job.was`), and the invariant says for each note and each file
  whether the step has got to it: `ApplyPlan`, `ApplySnap`, `ApplyNotes` and
  `ApplyOwn` for a takeover, `RollbackPlan` and `RollbackStands` for a rollback.
  The hard part is the backup, which is read after the plan while the user edits:
  `SnapExact` says that it has a file as the plan has it, unless the file differs
  from the plan by now, so that the write will refuse.  Looking for the
  strengthening found the two exceptions named above.

`LocalAssumption` states the order of the notifier's times (a send takes 2 s, a
duplicate is dropped for 30 s, the rate is per minute, the cooldown 5 minutes) and
that capacities and rates are positive.  `TakeoverAssumption` states that a layout
is a non-empty list of different files none of which is a note (the notes are in
Clipal's own directory, `backup.go`; the files in the program's) and that the
values that stand for "no file" and the like are no contents.

Only model-checked, with the reason:

- liveness, since fairness and ENABLED are outside the prover;
- the two exceptions of `NothingBeforeTheCommit`, which run `transfer` checks as
  `AllOrNothing`;
- `LinksStayApart`, whose links are filtered and folded over sequences;
- the six properties of MCRules: what a refusal, a stream, a path, an answer's
  counters, a walk or a plan amounts to is computed by folds, selections and
  recursion over sequences, and that is an induction over data;
- `AnswersAreHonest`, for the same reason: loading, normalising and validating a
  configuration filter and sort its list of providers.

No theorem rests on a recursive definition or on induction over data.

## Not modelled

Still to be proved: that a token's renewal keeps `OneFilePerRef`.

Left out, with the reason:

- *Wire formats and texts*: DNS over HTTPS, TLS, the envelope that imitates a
  Claude client, headers of an account's environment, messages, names and
  metadata in other programs' files; the models' price list itself.  They are
  data, and no property here tells them apart.
- *Refusals of the takeover planners.*  ClientPlans takes documents of the form that
  each product's planner reads.  A planner refuses every other one before it plans
  anything: a file that does not parse, or holds several YAML documents, or has a
  field of another type than it looks for (config_objects.go:18-89, codebuddy.go:42-108,
  copilot.go:53, crush.go:84-153, deepseek_harness.go:33-140, grok.go:41-73,
  kimi.go:44-186, manager.go:145), and targets whose paths, model or context window
  are not valid (targets.go:56-180).  So `PlansStay` says nothing of what happens to
  such files, beyond that there is no plan.
- *Parsing of import formats* (`transfer/adapter.go`, `oauth/import_*.go`): a
  dataset is what they accepted.
- *Start-up and shut-down* of the listener, service managers, the CLI, log
  rotation, migration of old files: sequential I/O of one process.
- *The provider clients' HTTP calls*: they succeed, fail or time out where they
  are called.
- *Inside what is modelled*: idle timeouts and the count_tokens path of Failover;
  proxy settings and the target maps of a login; overrides of a Google provider
  (request_overrides.go:47-72), which no valid configuration has (config.go:1309,
  run `google_overrides`): they would write into objects that the attempts share,
  which EachGetsItsOwn would have to meet once they are let in; dependencies of a takeover, which are verified as its files are;
  a verification and the rename after it are one step of Takeover; a bare CR as
  the end of a line in the unwrapping of Antigravity's events, which ends it
  for StreamProtocol's readers but not there.
