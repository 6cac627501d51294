----------------------------- MODULE UsageStore -----------------------------
(***************************************************************************)
(* The usage telemetry store (internal/telemetry/store.go): counters in    *)
(* memory, written whole to usage.json by a persistence worker, by the     *)
(* operations that flush at once, by the import transaction and by Close.  *)
(*                                                                         *)
(* s.mu makes each change of the counters one step; s.flushMu covers a     *)
(* whole flush, which reads the counters, writes the file and marks the    *)
(* store clean in three steps.  The file is replaced by a rename, so a     *)
(* crash leaves the old or the new contents.  An entry that does not exist *)
(* counts 0, and so does every entry of a file that does not exist.        *)
(***************************************************************************)
EXTENDS Naturals, FiniteSets

CONSTANTS
    Names,        \* provider names of one client group
    Requests,     \* goroutines that record a completed request
    Handlers,     \* goroutines that rename and delete: reloads and web handlers
    MaxRevision,  \* bound: changes after which entries are renamed and deleted no more
    MaxTotal      \* bound: requests counted or imported

ASSUME UsageStoreAssumption ==
    /\ IsFiniteSet(Names) /\ IsFiniteSet(Requests) /\ IsFiniteSet(Handlers)
    /\ MaxRevision \in Nat /\ MaxTotal \in Nat

Worker   == "worker"    \* persistenceWorker
Closer   == "closer"    \* Router.Stop, in Close
Transfer == "transfer"  \* an import, between BeginTransfer and Commit or Rollback
Free     == "free"
Callers  == Requests \union Handlers
Flushers == Handlers \union {Worker, Closer}

ASSUME ActorsDistinct == Callers \intersect {Worker, Closer, Transfer, Free} = {}

VARIABLES
    mem,       \* s.state: the counters, per provider
    dirty,     \* s.dirty
    revision,  \* s.revision
    file,      \* usage.json
    flushMu,   \* who holds s.flushMu
    flush,     \* flush[f]: the snapshot f is writing, and whether it is on disk
    signal,    \* s.persistCh holds its one token
    timer,     \* the worker's timer is armed
    worker,    \* running, flushing, stopped
    closer,    \* Close: open, stopping, flushing, closed
    caller,    \* what each caller is in the middle of
    taken,     \* taken[c]: the entries handler c deleted and may still restore
    tx,        \* the TransferTransaction, when flushMu is held by Transfer
    total,     \* history: requests counted or imported
    dropped,   \* history: requests whose entry was deleted for good
    fileRev,   \* history: the revision of the counters in the file
    orphaned,  \* history: a flush failed that nobody will repeat
    torn       \* history: a rollback could not put the file back

store   == <<mem, dirty, revision>>
persist == <<signal, timer, worker, closer>>
history == <<total, dropped, fileRev, orphaned, torn>>
vars    == <<store, file, flushMu, flush, persist, caller, taken, tx, history>>

\* What the entries of counts add up to: the requests, told apart by entry and number.
Units(counts) == UNION {{x} \X (1 .. counts[x]) : x \in DOMAIN counts}
Sum(counts)   == Cardinality(Units(counts))

\* Mutant: the entry merged in replaces the one that is there.
Overwritten(a, b) == [n \in Names |-> IF b[n] > 0 THEN b[n] ELSE a[n]]

\* mergeProviderUsage per entry, with addMetric below the 2^63 - 1 where it stops.
Plus(a, b) == [n \in Names |-> a[n] + b[n]]

Nothing      == [n \in Names |-> 0]
NoSnapshot   == [data |-> Nothing, rev |-> 0, written |-> FALSE]
NoTx         == [phase |-> "none", mem |-> Nothing, dirty |-> FALSE, rev |-> 0,
                 file |-> Nothing, fileRev |-> 0, imported |-> 0, torn |-> FALSE]

Init ==
    /\ mem = Nothing /\ dirty = FALSE /\ revision = 0
    /\ file = Nothing
    /\ flushMu = Free
    /\ flush = [f \in Flushers |-> NoSnapshot]
    /\ signal = FALSE /\ timer = FALSE /\ worker = "running" /\ closer = "open"
    /\ caller = [c \in Callers |-> "idle"]
    /\ taken = [c \in Handlers |-> Nothing]
    /\ tx = NoTx
    /\ total = 0 /\ dropped = 0 /\ fileRev = 0 /\ orphaned = FALSE /\ torn = FALSE

-----------------------------------------------------------------------------
(***************************************************************************)
(* Changes of the counters, under s.mu, which an open transaction holds.   *)
(***************************************************************************)
Changed(counts) ==
    /\ tx.phase = "none"
    /\ mem' = counts
    /\ dirty' = TRUE
    /\ revision' = revision + 1

Mutable == revision < MaxRevision

\* Record: one completed request.  The worker is told after the lock is released.
Record(c, n) ==
    /\ caller[c] = "idle" /\ total < MaxTotal
    /\ Changed([mem EXCEPT ![n] = @ + 1])
    /\ caller' = [caller EXCEPT ![c] = "notify"]
    /\ total' = total + 1
    /\ UNCHANGED <<file, flushMu, flush, persist, taken, tx, dropped, fileRev, orphaned, torn>>

\* notifyPersist: the token is dropped when one is already waiting.
Notify(c) ==
    /\ caller[c] = "notify"
    /\ caller' = [caller EXCEPT ![c] = "idle"]
    /\ signal' = TRUE
    /\ orphaned' = FALSE
    /\ UNCHANGED <<store, file, flushMu, flush, timer, worker, closer, taken, tx, total, dropped,
                   fileRev, torn>>

Renamed(a, b) == [mem EXCEPT ![a] = 0, ![b] = mem[a] + @]

\* RenameProvider, merging into an entry that exists, then Flush.
RenameProvider(c, a, b) ==
    /\ caller[c] = "idle" /\ Mutable /\ a # b /\ mem[a] > 0
    /\ Changed(Renamed(a, b))
    /\ caller' = [caller EXCEPT ![c] = "flush"]
    /\ UNCHANGED <<file, flushMu, flush, persist, taken, tx, history>>

\* DeleteProvider, then Flush.
DeleteProvider(c, n) ==
    /\ caller[c] = "idle" /\ Mutable /\ mem[n] > 0
    /\ Changed([mem EXCEPT ![n] = 0])
    /\ caller' = [caller EXCEPT ![c] = "flush"]
    /\ dropped' = dropped + mem[n]
    /\ UNCHANGED <<file, flushMu, flush, persist, taken, tx, total, fileRev, orphaned, torn>>

\* DeleteProvidersWithRollback: the entries deleted are kept for the caller's undo.
DeleteWithRollback(c, S) ==
    /\ caller[c] = "idle" /\ Mutable /\ \E n \in S : mem[n] > 0
    /\ Changed([n \in Names |-> IF n \in S THEN 0 ELSE mem[n]])
    /\ taken' = [taken EXCEPT ![c] = [n \in Names |-> IF n \in S THEN mem[n] ELSE 0]]
    /\ caller' = [caller EXCEPT ![c] = "deleting"]
    /\ UNCHANGED <<file, flushMu, flush, persist, tx, history>>

\* restoreProviders, merging with what was recorded meanwhile, then Flush: the
\* deletion's own flush failed, or its caller failed later.
RestoreProviders(c) ==
    /\ caller[c] \in {"restore", "deleted"}
    /\ Changed(Plus(mem, taken[c]))
    /\ taken' = [taken EXCEPT ![c] = Nothing]
    /\ caller' = [caller EXCEPT ![c] = "flush"]
    /\ UNCHANGED <<file, flushMu, flush, persist, tx, history>>

\* The caller succeeded and forgets the undo.
KeepDeleted(c) ==
    /\ caller[c] = "deleted"
    /\ caller' = [caller EXCEPT ![c] = "idle"]
    /\ taken' = [taken EXCEPT ![c] = Nothing]
    /\ dropped' = dropped + Sum(taken[c])
    /\ UNCHANGED <<store, file, flushMu, flush, persist, tx, total, fileRev, orphaned, torn>>

-----------------------------------------------------------------------------
(***************************************************************************)
(* Flush.                                                                  *)
(***************************************************************************)
WantsFlush(f) ==
    \/ f \in Handlers /\ caller[f] \in {"flush", "deleting"}
    \/ f = Worker /\ worker = "flushing"
    \/ f = Closer /\ closer = "flushing"

\* scheduleFlush after the worker's own flush failed.
RetryTimer(f, ok) == timer \/ (f = Worker /\ ~ok)

\* Flush returns to f; ok = FALSE is a failed write.  Only the worker tries again.
FlushReturns(f, ok) ==
    /\ flushMu' = Free
    /\ flush' = [flush EXCEPT ![f] = NoSnapshot]
    /\ caller' = IF f \notin Handlers THEN caller
                 ELSE [caller EXCEPT ![f] = IF @ = "flush" THEN "idle"
                                            ELSE IF ok THEN "deleted" ELSE "restore"]
    /\ worker' = IF f = Worker THEN "running" ELSE worker
    /\ timer' = RetryTimer(f, ok)
    /\ closer' = IF f = Closer THEN "closed" ELSE closer
    /\ orphaned' = (IF ok THEN orphaned /\ dirty' ELSE orphaned \/ f \in Handlers)
    /\ UNCHANGED <<signal, taken, tx, total, dropped>>

\* Mutant: two flushes at once.
FlushAnyway(f) ==
    /\ WantsFlush(f) /\ ~flush[f].written /\ flush[f].rev = 0 /\ flushMu # Transfer
    /\ dirty
    /\ flushMu' = f
    /\ flush' = [flush EXCEPT ![f] = [data |-> mem, rev |-> revision, written |-> FALSE]]
    /\ UNCHANGED <<store, file, persist, caller, taken, tx, history>>

\* flushMu, then a snapshot under s.mu.
FlushStart(f) ==
    /\ WantsFlush(f) /\ flushMu = Free
    /\ dirty
    /\ flushMu' = f
    /\ flush' = [flush EXCEPT ![f] = [data |-> mem, rev |-> revision, written |-> FALSE]]
    /\ UNCHANGED <<store, file, persist, caller, taken, tx, history>>

FlushNothing(f) ==
    /\ WantsFlush(f) /\ flushMu = Free
    /\ ~dirty
    /\ FlushReturns(f, TRUE)
    /\ UNCHANGED <<store, file, fileRev, torn>>

InFlush(f) == flush[f].rev > 0

FlushWrite(f) ==
    /\ InFlush(f) /\ ~flush[f].written
    /\ file' = flush[f].data
    /\ fileRev' = flush[f].rev
    /\ torn' = FALSE
    /\ flush' = [flush EXCEPT ![f].written = TRUE]
    /\ UNCHANGED <<store, flushMu, persist, caller, taken, tx, total, dropped, orphaned>>

FlushFails(f) ==
    /\ InFlush(f) /\ ~flush[f].written
    /\ FlushReturns(f, FALSE)
    /\ UNCHANGED <<store, file, fileRev, torn>>

\* Mutant: the store is marked clean whatever was counted during the write.
FlushEndUnchecked(f) ==
    /\ flush[f].written
    /\ dirty' = FALSE
    /\ FlushReturns(f, TRUE)
    /\ UNCHANGED <<mem, revision, file, fileRev, torn>>

\* Clean when nothing was counted during the write; otherwise once more.
FlushEnd(f) ==
    /\ flush[f].written
    /\ flush[f].rev = revision
    /\ dirty' = FALSE
    /\ FlushReturns(f, TRUE)
    /\ UNCHANGED <<mem, revision, file, fileRev, torn>>

FlushAgain(f) ==
    /\ flush[f].written
    /\ flush[f].rev # revision
    /\ flush' = [flush EXCEPT ![f] = [data |-> mem, rev |-> revision, written |-> FALSE]]
    /\ UNCHANGED <<store, file, flushMu, persist, caller, taken, tx, history>>

-----------------------------------------------------------------------------
(***************************************************************************)
(* The persistence worker and Close.                                       *)
(***************************************************************************)
\* Mutant: the token is taken and no timer armed.
WorkerSignalledUnarmed ==
    /\ worker = "running" /\ signal
    /\ signal' = FALSE
    /\ UNCHANGED <<store, file, flushMu, flush, timer, worker, closer, caller, taken, tx, history>>

WorkerSignalled ==
    /\ worker = "running" /\ signal
    /\ signal' = FALSE /\ timer' = TRUE
    /\ UNCHANGED <<store, file, flushMu, flush, worker, closer, caller, taken, tx, history>>

TimerFires ==
    /\ worker = "running" /\ timer
    /\ timer' = FALSE /\ worker' = "flushing"
    /\ UNCHANGED <<store, file, flushMu, flush, signal, closer, caller, taken, tx, history>>

WorkerStops ==
    /\ worker = "running" /\ closer = "stopping"
    /\ worker' = "stopped" /\ timer' = FALSE
    /\ UNCHANGED <<store, file, flushMu, flush, signal, closer, caller, taken, tx, history>>

Close ==
    /\ closer = "open"
    /\ closer' = "stopping"
    /\ UNCHANGED <<store, file, flushMu, flush, signal, timer, worker, caller, taken, tx, history>>

\* The worker is gone: the final flush.
CloseFlush ==
    /\ closer = "stopping" /\ worker = "stopped"
    /\ closer' = "flushing"
    /\ UNCHANGED <<store, file, flushMu, flush, signal, timer, worker, caller, taken, tx, history>>

\* The process dies and a new one loads the file (load).
Crash ==
    /\ mem' = file /\ dirty' = FALSE /\ revision' = 0
    /\ flushMu' = Free
    /\ flush' = [f \in Flushers |-> NoSnapshot]
    /\ signal' = FALSE /\ timer' = FALSE /\ worker' = "running" /\ closer' = "open"
    /\ caller' = [c \in Callers |-> "idle"]
    /\ taken' = [c \in Handlers |-> Nothing]
    /\ tx' = NoTx
    /\ total' = Sum(file) /\ dropped' = 0 /\ fileRev' = 0 /\ orphaned' = FALSE /\ torn' = FALSE
    /\ UNCHANGED file

-----------------------------------------------------------------------------
(***************************************************************************)
(* The import transaction, which holds flushMu and s.mu throughout.        *)
(***************************************************************************)
BeginTransfer ==
    /\ flushMu = Free
    /\ flushMu' = Transfer
    /\ tx' = [phase |-> "begun", mem |-> mem, dirty |-> dirty, rev |-> revision,
              file |-> file, fileRev |-> fileRev, imported |-> 0, torn |-> torn]
    /\ UNCHANGED <<store, file, flush, persist, caller, taken, history>>

\* Restore, merging the imported counters.
TxRestore(counts) ==
    /\ tx.phase = "begun" /\ total + Sum(counts) <= MaxTotal
    /\ mem' = Plus(mem, counts)
    /\ dirty' = TRUE
    /\ revision' = revision + 1
    /\ tx' = [tx EXCEPT !.phase = "staged", !.imported = Sum(counts)]
    /\ total' = total + Sum(counts)
    /\ UNCHANGED <<file, flushMu, flush, persist, caller, taken, dropped, fileRev, orphaned, torn>>

TxFlush ==
    /\ tx.phase = "staged"
    /\ file' = mem /\ fileRev' = revision /\ torn' = FALSE
    /\ dirty' = FALSE
    /\ tx' = [tx EXCEPT !.phase = "flushed"]
    /\ orphaned' = FALSE
    /\ UNCHANGED <<mem, revision, flushMu, flush, persist, caller, taken, total, dropped>>

\* The import succeeded; one without usage data never staged anything.
Commit ==
    /\ tx.phase \in {"begun", "flushed"}
    /\ tx' = NoTx /\ flushMu' = Free
    /\ UNCHANGED <<store, file, flush, persist, caller, taken, history>>

\* The import failed at some step; the file may fail to be put back.
Rollback(restored) ==
    /\ tx.phase # "none"
    /\ mem' = tx.mem /\ dirty' = tx.dirty /\ revision' = tx.rev
    /\ file' = IF restored THEN tx.file ELSE file
    /\ fileRev' = tx.fileRev
    /\ torn' = (IF restored THEN tx.torn ELSE torn \/ tx.phase = "flushed")
    /\ tx' = NoTx /\ flushMu' = Free
    /\ signal' = (signal \/ tx.dirty)
    /\ orphaned' = (orphaned /\ ~tx.dirty)
    /\ total' = total - tx.imported
    /\ UNCHANGED <<flush, timer, worker, closer, caller, taken, dropped>>

-----------------------------------------------------------------------------
Handle(c) ==
    \/ \E n \in Names : DeleteProvider(c, n)
    \/ \E a, b \in Names : RenameProvider(c, a, b)
    \/ \E S \in SUBSET Names : DeleteWithRollback(c, S)

Returns(c) == Notify(c) \/ (c \in Handlers /\ (RestoreProviders(c) \/ KeepDeleted(c)))

FlushBegins == \E f \in Flushers : FlushStart(f) \/ FlushNothing(f)
FlushWrites == \E f \in Flushers : FlushWrite(f)
FlushEnds   == \E f \in Flushers : FlushEnd(f) \/ FlushAgain(f)

WorkerStep == WorkerSignalled \/ TimerFires \/ WorkerStops

TxEnds == TxFlush \/ Commit \/ Rollback(TRUE)

Next ==
    \/ \E c \in Requests, n \in Names : Record(c, n)
    \/ \E c \in Handlers : Handle(c)
    \/ \E c \in Callers : Returns(c)
    \/ FlushBegins \/ FlushWrites \/ FlushEnds
    \/ \E f \in Flushers : FlushFails(f)
    \/ WorkerStep \/ Close \/ CloseFlush \/ Crash
    \/ BeginTransfer \/ TxEnds \/ Rollback(FALSE)
    \/ \E n \in Names : TxRestore([Nothing EXCEPT ![n] = 1])

Spec == Init /\ [][Next]_vars

(***************************************************************************)
(* Fairness: goroutines run and get s.flushMu, the worker's select does    *)
(* not pass its timer over for ever, an import ends, and the disk does not *)
(* refuse every write for ever.                                            *)
(***************************************************************************)
Fairness ==
    /\ WF_vars(\E c \in Callers : Returns(c))
    /\ SF_vars(FlushBegins) /\ SF_vars(FlushWrites) /\ WF_vars(FlushEnds)
    /\ WF_vars(WorkerStep) /\ WF_vars(TimerFires) /\ WF_vars(CloseFlush) /\ WF_vars(TxEnds)

FairSpec == Spec /\ Fairness
-----------------------------------------------------------------------------
Counts == [Names -> Nat]

TypeOK ==
    /\ mem \in Counts /\ file \in Counts /\ dirty \in BOOLEAN /\ revision \in Nat
    /\ flushMu \in Flushers \union {Transfer, Free}
    /\ flushMu = Transfer <=> tx.phase # "none"
    /\ \A f \in Flushers : InFlush(f) => flushMu = f
    /\ flush \in [Flushers -> [data : Counts, rev : Nat, written : BOOLEAN]]
    /\ signal \in BOOLEAN /\ timer \in BOOLEAN
    /\ worker \in {"running", "flushing", "stopped"}
    /\ closer \in {"open", "stopping", "flushing", "closed"}
    /\ caller \in [Callers -> {"idle", "notify", "flush", "deleting", "restore", "deleted"}]
    /\ taken \in [Handlers -> Counts]
    /\ tx \in [phase : {"none", "begun", "staged", "flushed"}, mem : Counts, dirty : BOOLEAN,
               rev : Nat, file : Counts, fileRev : Nat, imported : Nat, torn : BOOLEAN]
    /\ total \in Nat /\ dropped \in Nat /\ fileRev \in Nat
    /\ orphaned \in BOOLEAN /\ torn \in BOOLEAN

\* A store that is not dirty is on disk as it is: no request counted while a
\* snapshot was being written is left behind, whoever wrote it (Flush's revision
\* check, the transaction's Rollback), unless a rollback could not write.
CleanIsDurable == (~dirty /\ ~torn) => file = mem

HeldForUndo == [e \in Handlers \X Names |-> taken[e[1]][e[2]]]

\* Every request counted or imported is in exactly one place: under a provider,
\* held for an undo, or deleted on purpose; none is counted twice by a rename, a
\* merge or an undo, whatever was recorded in between.
EachRequestCountedOnce == total = Sum(mem) + Sum(HeldForUndo) + dropped

\* usage.json never goes back to older counters: a flush that read the counters
\* earlier cannot overwrite one that read them later.  (A rollback and a restart
\* start over.)
FileNeverRegresses ==
    [][fileRev' >= fileRev \/ (tx.phase = "flushed" /\ tx'.phase = "none") \/ revision' = 0]_vars

\* Counters reach the disk, as long as the store is open and no caller's own
\* flush failed.
EventuallyDurable == dirty ~> (~dirty \/ orphaned \/ closer # "open")
=============================================================================
