-------------------------- MODULE UsageStoreProofs --------------------------
(***************************************************************************)
(* The usage store, for every set of providers, requests and handlers and  *)
(* any number of changes: a clean store is on disk, the file never goes    *)
(* back, and every request is counted in exactly one place.                *)
(***************************************************************************)
EXTENDS UsageStore, FiniteSetTheorems, FunctionTheorems, TLAPS

\* What a flush under way knows: nobody marks the store clean beneath it.
FlushKnows ==
    \A f \in Flushers :
        /\ InFlush(f) =>
              /\ dirty
              /\ fileRev <= flush[f].rev /\ flush[f].rev <= revision
              /\ flush[f].rev = revision => flush[f].data = mem
              /\ flush[f].written => file = flush[f].data
        /\ flush[f].written => InFlush(f)

\* What an open import can go back to.
TransferKnows ==
    /\ tx.phase # "none" =>
          /\ tx.dirty => tx.rev > 0
          /\ tx.fileRev <= tx.rev
          /\ (~tx.dirty /\ ~tx.torn) => tx.file = tx.mem
          /\ tx.imported <= total
    /\ tx.phase \in {"begun", "staged"} =>
          file = tx.file /\ fileRev = tx.fileRev /\ (torn <=> tx.torn)

IInv ==
    /\ TypeOK
    /\ dirty => revision > 0
    /\ fileRev <= revision
    /\ FlushKnows
    /\ TransferKnows
    /\ CleanIsDurable
-----------------------------------------------------------------------------
(***************************************************************************)
(* Sums over entries.                                                      *)
(***************************************************************************)
\* Merging counters entry by entry, over any finite set of entries.
Merged(D, f, g) == [x \in D |-> f[x] + g[x]]

LEMMA UnitsFacts ==
    ASSUME NEW D, NEW f \in [D -> Nat]
    PROVE  \A u : u \in Units(f) <=> \E x \in D : \E i \in 1 .. f[x] : u = <<x, i>>
  BY DEF Units

\* A sum over finitely many entries is a number.
LEMMA SumType ==
    ASSUME NEW D, IsFiniteSet(D), NEW f \in [D -> Nat]
    PROVE  IsFiniteSet(Units(f)) /\ Sum(f) \in Nat
<1> DEFINE Entry == [x \in D |-> {x} \X (1 .. f[x])]
           Entries == {{x} \X (1 .. f[x]) : x \in D}
<1>1. Entry \in Surjection(D, Entries)
  BY Fun_IsSurj
<1>2. IsFiniteSet(Entries)
  BY <1>1, FS_Surjection
<1>3. ASSUME NEW T \in Entries PROVE IsFiniteSet(T)
  <2>1. PICK x \in D : T = {x} \X (1 .. f[x])
    OBVIOUS
  <2>2. IsFiniteSet({x}) /\ IsFiniteSet(1 .. f[x])
    <3>1. 1 \in Int /\ f[x] \in Int
      OBVIOUS
    <3> QED  BY <3>1, FS_Singleton, FS_Interval
  <2> QED  BY <2>1, <2>2, FS_Product
<1>4. IsFiniteSet(UNION Entries)
  BY <1>2, <1>3, FS_UNION
<1>5. Units(f) = UNION Entries
  BY DEF Units
<1> QED  BY <1>4, <1>5, FS_CardinalityType DEF Sum

\* Nothing adds up to nothing.
LEMMA SumNothing ==
    ASSUME NEW D
    PROVE  Sum([x \in D |-> 0]) = 0
<1>1. [x \in D |-> 0] \in [D -> Nat]
  OBVIOUS
<1>2. Units([x \in D |-> 0]) = {}
  BY <1>1, UnitsFacts
<1> QED  BY <1>2, FS_EmptySet DEF Sum

\* One entry adds up to itself.
LEMMA SumOnly ==
    ASSUME NEW D, NEW n \in D, NEW k \in Nat
    PROVE  Sum([x \in D |-> IF x = n THEN k ELSE 0]) = k
<1> DEFINE f == [x \in D |-> IF x = n THEN k ELSE 0]
<1>1. f \in [D -> Nat]
  OBVIOUS
<1>2. Units(f) = {n} \X (1 .. k)
  <2> HIDE DEF f
  <2>1. \A x \in D : f[x] = IF x = n THEN k ELSE 0
    BY DEF f
  <2>2. \A u : u \in Units(f) <=> \E i \in 1 .. k : u = <<n, i>>
    BY <1>1, <2>1, UnitsFacts
  <2> QED  BY <2>2
<1>3. IsFiniteSet({n}) /\ Cardinality({n}) = 1
  BY FS_Singleton
<1>4. IsFiniteSet(1 .. k) /\ Cardinality(1 .. k) = k
  <2>1. 1 \in Int /\ k \in Int
    OBVIOUS
  <2>2. IsFiniteSet(1 .. k) /\ Cardinality(1 .. k) = IF 1 > k THEN 0 ELSE k - 1 + 1
    BY <2>1, FS_Interval
  <2> QED  BY <2>2
<1>5. Cardinality({n} \X (1 .. k)) = Cardinality({n}) * Cardinality(1 .. k)
  BY <1>3, <1>4, FS_Product
<1>6. Sum(f) = 1 * k
  BY <1>2, <1>3, <1>4, <1>5 DEF Sum
<1> HIDE DEF f
<1>7. Sum(f) = k
  BY <1>6
<1> QED  BY <1>7 DEF f

\* Renumbering entries one to one, with zeros for the rest, keeps the sum.
LEMMA SumReindex ==
    ASSUME NEW D, IsFiniteSet(D), NEW E, NEW f \in [D -> Nat], NEW g \in [E -> Nat],
           NEW j \in [D -> E], \A x, y \in D : j[x] = j[y] => x = y,
           \A x \in D : g[j[x]] = f[x],
           \A y \in E : (\E x \in D : y = j[x]) \/ g[y] = 0
    PROVE  Sum(g) = Sum(f)
<1> DEFINE B == [u \in Units(f) |-> <<j[u[1]], u[2]>>]
<1>1. ASSUME NEW u \in Units(f) PROVE <<j[u[1]], u[2]>> \in Units(g)
  <2>1. PICK x \in D : \E i \in 1 .. f[x] : u = <<x, i>>
    BY UnitsFacts
  <2>2. PICK i \in 1 .. f[x] : u = <<x, i>>
    BY <2>1
  <2>3. u[1] = x /\ u[2] = i /\ j[x] \in E /\ g[j[x]] = f[x]
    BY <2>2
  <2> QED  BY <2>3, UnitsFacts
<1>2. ASSUME NEW u \in Units(f), NEW v \in Units(f), <<j[u[1]], u[2]>> = <<j[v[1]], v[2]>>
      PROVE  u = v
  <2>1. PICK x \in D : \E i \in 1 .. f[x] : u = <<x, i>>
    BY UnitsFacts
  <2>2. PICK y \in D : \E i \in 1 .. f[y] : v = <<y, i>>
    BY UnitsFacts
  <2> QED  BY <1>2, <2>1, <2>2
<1>3. ASSUME NEW v \in Units(g) PROVE \E u \in Units(f) : <<j[u[1]], u[2]>> = v
  <2>1. PICK y \in E : \E i \in 1 .. g[y] : v = <<y, i>>
    BY UnitsFacts
  <2>2. PICK i \in 1 .. g[y] : v = <<y, i>>
    BY <2>1
  <2>3. PICK x \in D : y = j[x]
    BY <2>2
  <2>4. <<x, i>> \in Units(f)
    BY <2>2, <2>3, UnitsFacts
  <2> QED  BY <2>2, <2>3, <2>4
<1>4. B \in Bijection(Units(f), Units(g))
  BY <1>1, <1>2, <1>3, Fun_IsBij
<1>5. IsFiniteSet(Units(f))
  BY SumType
<1> QED  BY <1>4, <1>5, FS_Bijection DEF Sum, ExistsBijection

\* Merging adds the sums: nothing is lost and nothing counted twice.
LEMMA SumMerged ==
    ASSUME NEW D, IsFiniteSet(D), NEW f \in [D -> Nat], NEW g \in [D -> Nat]
    PROVE  Sum(Merged(D, f, g)) = Sum(f) + Sum(g)
<1> DEFINE h == Merged(D, f, g)
           Shifted == {u \in Units(h) : u[2] > f[u[1]]}
           B == [u \in Units(g) |-> <<u[1], u[2] + f[u[1]]>>]
<1>1. h \in [D -> Nat] /\ \A x \in D : h[x] = f[x] + g[x]
  BY DEF Merged
<1> HIDE DEF h
<1>2. \A u : u \in Units(f) <=> u \in Units(h) /\ u[2] <= f[u[1]]
  <2>1. ASSUME NEW u \in Units(f) PROVE u \in Units(h) /\ u[2] <= f[u[1]]
    <3>1. PICK x \in D : \E i \in 1 .. f[x] : u = <<x, i>>
      BY UnitsFacts
    <3>2. PICK i \in 1 .. f[x] : u = <<x, i>>
      BY <3>1
    <3>3. i \in 1 .. h[x]
      BY <1>1, <3>2
    <3>4. u \in Units(h)
      BY <1>1, <3>2, <3>3, UnitsFacts
    <3> QED  BY <3>2, <3>4
  <2>2. ASSUME NEW u \in Units(h), u[2] <= f[u[1]] PROVE u \in Units(f)
    <3>1. PICK x \in D : \E i \in 1 .. h[x] : u = <<x, i>>
      BY <1>1, UnitsFacts
    <3>2. PICK i \in 1 .. h[x] : u = <<x, i>>
      BY <3>1
    <3>3. i \in 1 .. f[x]
      BY <1>1, <2>2, <3>2
    <3> QED  BY <3>2, <3>3, UnitsFacts
  <2> QED  BY <2>1, <2>2
<1>3. ASSUME NEW u \in Units(h) PROVE u[2] > f[u[1]] <=> ~(u[2] <= f[u[1]])
  <2>1. PICK x \in D : \E i \in 1 .. h[x] : u = <<x, i>>
    BY <1>1, UnitsFacts
  <2> QED  BY <1>1, <2>1
<1>4. Units(h) = Units(f) \cup Shifted /\ Units(f) \cap Shifted = {}
  BY <1>2, <1>3
<1>5. B \in Bijection(Units(g), Shifted)
  <2>1. ASSUME NEW u \in Units(g) PROVE <<u[1], u[2] + f[u[1]]>> \in Shifted
    <3>1. PICK x \in D : \E i \in 1 .. g[x] : u = <<x, i>>
      BY UnitsFacts
    <3>2. PICK i \in 1 .. g[x] : u = <<x, i>>
      BY <3>1
    <3>3. i + f[x] \in 1 .. h[x] /\ i + f[x] > f[x]
      BY <1>1, <3>2
    <3>4. <<x, i + f[x]>> \in Units(h)
      BY <1>1, <3>3, UnitsFacts
    <3> QED  BY <3>2, <3>3, <3>4
  <2>2. ASSUME NEW u \in Units(g), NEW v \in Units(g),
               <<u[1], u[2] + f[u[1]]>> = <<v[1], v[2] + f[v[1]]>>
        PROVE  u = v
    <3>1. PICK x \in D : \E i \in 1 .. g[x] : u = <<x, i>>
      BY UnitsFacts
    <3>2. PICK y \in D : \E i \in 1 .. g[y] : v = <<y, i>>
      BY UnitsFacts
    <3> QED  BY <2>2, <3>1, <3>2
  <2>3. ASSUME NEW v \in Shifted PROVE \E u \in Units(g) : <<u[1], u[2] + f[u[1]]>> = v
    <3>1. PICK x \in D : \E i \in 1 .. h[x] : v = <<x, i>>
      BY <1>1, UnitsFacts
    <3>2. PICK i \in 1 .. h[x] : v = <<x, i>>
      BY <3>1
    <3>3. i - f[x] \in 1 .. g[x]
      BY <1>1, <3>2
    <3>4. <<x, i - f[x]>> \in Units(g)
      BY <3>3, UnitsFacts
    <3>5. (i - f[x]) + f[x] = i
      BY <1>1, <3>2
    <3> QED  BY <3>2, <3>4, <3>5
  <2> QED  BY <2>1, <2>2, <2>3, Fun_IsBij
<1>6. /\ IsFiniteSet(Units(f)) /\ Sum(f) \in Nat
      /\ IsFiniteSet(Units(g)) /\ Sum(g) \in Nat
  BY SumType
<1>7. IsFiniteSet(Shifted) /\ Cardinality(Shifted) = Sum(g)
  BY <1>5, <1>6, FS_Bijection DEF Sum, ExistsBijection
<1>8. Cardinality(Units(h)) = Cardinality(Units(f)) + Cardinality(Shifted) - 0
  <2>1. Cardinality(Units(f) \cup Shifted)
          = Cardinality(Units(f)) + Cardinality(Shifted) - Cardinality(Units(f) \cap Shifted)
    BY <1>6, <1>7, FS_Union
  <2>2. Cardinality(Units(f) \cap Shifted) = 0
    BY <1>4, FS_EmptySet
  <2> HIDE DEF Shifted
  <2> QED  BY <1>4, <2>1, <2>2
<1>9. Sum(h) = Sum(f) + Sum(g)
  <2> HIDE DEF Shifted
  <2> QED  BY <1>6, <1>7, <1>8 DEF Sum
<1> QED  BY <1>9 DEF h

-----------------------------------------------------------------------------
(***************************************************************************)
(* The invariant, one action at a time.                                    *)
(***************************************************************************)
LEMMA InitIInv == Init => IInv
<1> SUFFICES ASSUME Init PROVE IInv  OBVIOUS
<1>1. Nothing \in Counts /\ NoSnapshot \in [data : Counts, rev : Nat, written : BOOLEAN]
  BY DEF Nothing, NoSnapshot, Counts
<1>2. NoTx \in [phase : {"none", "begun", "staged", "flushed"}, mem : Counts, dirty : BOOLEAN,
                rev : Nat, file : Counts, fileRev : Nat, imported : Nat, torn : BOOLEAN]
  BY <1>1 DEF NoTx
<1>3. \A f \in Flushers : flush[f].rev = 0 /\ ~flush[f].written
  BY DEF Init, NoSnapshot
<1>4. flush \in [Flushers -> [data : Counts, rev : Nat, written : BOOLEAN]]
  BY <1>1 DEF Init
<1>5. /\ caller \in [Callers -> {"idle", "notify", "flush", "deleting", "restore", "deleted"}]
      /\ taken \in [Handlers -> Counts]
      /\ mem \in Counts /\ file \in Counts /\ tx = NoTx
  BY <1>1 DEF Init
<1>6. dirty \in BOOLEAN /\ signal \in BOOLEAN /\ timer \in BOOLEAN /\ orphaned \in BOOLEAN /\ torn \in BOOLEAN
  BY DEF Init
<1>7. TypeOK
  <2>1. flushMu = Free /\ tx.phase = "none" /\ Free # Transfer
    BY <1>5 DEF Init, NoTx, Free, Transfer
  <2>2. revision = 0 /\ total = 0 /\ dropped = 0 /\ fileRev = 0 /\ worker = "running" /\ closer = "open"
    BY DEF Init
  <2> QED  BY <1>2, <1>3, <1>4, <1>5, <1>6, <2>1, <2>2 DEF TypeOK, InFlush
<1> QED
  BY <1>3, <1>5, <1>7 DEF Init, IInv, FlushKnows, TransferKnows, CleanIsDurable, InFlush, NoTx

\* A flush that returns leaves its lock and its snapshot behind.
LEMMA FlushReturnsType ==
    ASSUME TypeOK, \A g \in Flushers : flush[g].written => InFlush(g),
           NEW f \in Flushers, flushMu \in {f, Free}, NEW ok \in BOOLEAN, FlushReturns(f, ok),
           mem' \in Counts, file' \in Counts, dirty' \in BOOLEAN, revision' \in Nat,
           fileRev' \in Nat, torn' \in BOOLEAN
    PROVE  TypeOK' /\ flushMu' = Free /\ (\A g \in Flushers : flush'[g].rev = 0 /\ ~flush'[g].written)
<1>1. NoSnapshot \in [data : Counts, rev : Nat, written : BOOLEAN] /\ NoSnapshot.rev = 0 /\ ~NoSnapshot.written
  BY DEF Nothing, NoSnapshot, Counts
<1>2. flush' \in [Flushers -> [data : Counts, rev : Nat, written : BOOLEAN]]
  BY <1>1 DEF FlushReturns, TypeOK
<1>3. caller' \in [Callers -> {"idle", "notify", "flush", "deleting", "restore", "deleted"}]
  BY DEF FlushReturns, TypeOK
<1>4. orphaned' \in BOOLEAN /\ timer' \in BOOLEAN
  BY DEF FlushReturns, RetryTimer, TypeOK
<1>5. \A g \in Flushers : flush'[g].rev = 0 /\ ~flush'[g].written
  <2>1. \A g \in Flushers : g # f => ~InFlush(g)
    BY ActorsDistinct DEF TypeOK, Free, Flushers, Callers, Worker, Closer
  <2> QED  BY <1>1, <2>1 DEF FlushReturns, TypeOK, InFlush
<1>6. tx' = tx /\ tx.phase = "none" /\ flushMu' = Free /\ Free # Transfer
  BY ActorsDistinct DEF FlushReturns, TypeOK, Free, Transfer, Flushers, Callers, Worker, Closer
<1>7. /\ worker' \in {"running", "flushing", "stopped"}
      /\ closer' \in {"open", "stopping", "flushing", "closed"}
      /\ UNCHANGED <<signal, taken, tx, total, dropped>>
  BY DEF FlushReturns, TypeOK
<1> QED  BY <1>2, <1>3, <1>4, <1>5, <1>6, <1>7 DEF TypeOK, InFlush

CallerType == [Callers -> {"idle", "notify", "flush", "deleting", "restore", "deleted"}]

\* A change of the counters leaves the store dirty at a revision no flush has seen.
LEMMA ChangedIInv ==
    ASSUME IInv, NEW counts \in Counts, Changed(counts),
           UNCHANGED <<file, flushMu, flush, persist, tx, fileRev, orphaned, torn>>,
           caller' \in CallerType, taken' \in [Handlers -> Counts], total' \in Nat, dropped' \in Nat
    PROVE  IInv'
<1> USE DEF Changed, persist, CallerType
<1>1. TypeOK'
  BY DEF IInv, TypeOK, InFlush
<1>2. FlushKnows'
  BY DEF IInv, TypeOK, InFlush, FlushKnows
<1>3. TransferKnows'
  BY DEF IInv, TransferKnows
<1> QED  BY <1>1, <1>2, <1>3 DEF IInv, TypeOK, CleanIsDurable

LEMMA RecordIInv ==
    ASSUME IInv, NEW c \in Requests, NEW n \in Names, Record(c, n)
    PROVE  IInv'
<1>1. mem \in Counts /\ caller \in CallerType /\ c \in Callers /\ total \in Nat
  BY DEF IInv, TypeOK, CallerType, Callers
<1>2. [mem EXCEPT ![n] = @ + 1] \in Counts
  BY <1>1 DEF Counts
<1>3. caller' \in CallerType
  BY <1>1 DEF Record, CallerType
<1>4. /\ total' \in Nat /\ dropped' \in Nat /\ taken' \in [Handlers -> Counts]
      /\ UNCHANGED <<file, flushMu, flush, persist, tx, fileRev, orphaned, torn>>
  BY DEF Record, IInv, TypeOK
<1>5. \E counts \in Counts : Changed(counts)
  BY <1>2 DEF Record
<1> QED  BY <1>3, <1>4, <1>5, ChangedIInv

LEMMA HandleIInv ==
    ASSUME IInv, NEW c \in Handlers, Handle(c)
    PROVE  IInv'
<1>1. mem \in Counts /\ caller \in CallerType /\ c \in Callers /\ taken \in [Handlers -> Counts]
  BY DEF IInv, TypeOK, CallerType, Callers
<1>2. ASSUME NEW n \in Names, DeleteProvider(c, n) PROVE IInv'
  <2>1. [mem EXCEPT ![n] = 0] \in Counts /\ mem[n] \in Nat
    BY <1>1 DEF Counts
  <2>2. caller' \in CallerType
    BY <1>1, <1>2 DEF DeleteProvider, CallerType
  <2>3. /\ total' \in Nat /\ dropped' \in Nat /\ taken' \in [Handlers -> Counts]
        /\ UNCHANGED <<file, flushMu, flush, persist, tx, fileRev, orphaned, torn>>
    BY <1>2, <2>1 DEF DeleteProvider, IInv, TypeOK
  <2>4. \E counts \in Counts : Changed(counts)
    BY <1>2, <2>1 DEF DeleteProvider
  <2> QED  BY <2>2, <2>3, <2>4, ChangedIInv
<1>3. ASSUME NEW a \in Names, NEW b \in Names, RenameProvider(c, a, b) PROVE IInv'
  <2>1. Renamed(a, b) \in Counts
    BY <1>1, <1>3 DEF Counts, Renamed, RenameProvider
  <2>2. caller' \in CallerType
    BY <1>1, <1>3 DEF RenameProvider, CallerType
  <2> QED  BY <1>1, <1>3, <2>1, <2>2, ChangedIInv DEF RenameProvider, history, IInv, TypeOK
<1>4. ASSUME NEW S \in SUBSET Names, DeleteWithRollback(c, S) PROVE IInv'
  <2>1. /\ [n \in Names |-> IF n \in S THEN 0 ELSE mem[n]] \in Counts
        /\ [n \in Names |-> IF n \in S THEN mem[n] ELSE 0] \in Counts
    BY <1>1 DEF Counts
  <2>2. caller' \in CallerType
    BY <1>1, <1>4 DEF DeleteWithRollback, CallerType
  <2>3. taken' \in [Handlers -> Counts]
    BY <1>1, <1>4, <2>1 DEF DeleteWithRollback
  <2> QED  BY <1>1, <1>4, <2>1, <2>2, <2>3, ChangedIInv DEF DeleteWithRollback, history, IInv, TypeOK
<1> QED  BY <1>2, <1>3, <1>4 DEF Handle

LEMMA ReturnsIInv ==
    ASSUME IInv, NEW c \in Callers, Returns(c)
    PROVE  IInv'
<1>1. /\ mem \in Counts /\ caller \in CallerType /\ taken \in [Handlers -> Counts]
      /\ Nothing \in Counts
  BY DEF IInv, TypeOK, CallerType, Nothing, Counts
<1>2. CASE Notify(c)
  <2>1. signal' \in BOOLEAN /\ orphaned' \in BOOLEAN /\ caller' \in CallerType
    BY <1>1, <1>2 DEF Notify, CallerType
  <2>2. TypeOK'
    BY <1>2, <2>1 DEF Notify, IInv, TypeOK, InFlush, store, CallerType
  <2> QED  BY <1>2, <2>2 DEF Notify, IInv, InFlush, store, FlushKnows, TransferKnows, CleanIsDurable
<1>3. CASE c \in Handlers /\ RestoreProviders(c)
  <2>1. Plus(mem, taken[c]) \in Counts
    BY <1>1, <1>3 DEF Counts, Plus
  <2>2. caller' \in CallerType /\ taken' \in [Handlers -> Counts]
    BY <1>1, <1>3 DEF RestoreProviders, CallerType
  <2> QED  BY <1>3, <2>1, <2>2, ChangedIInv DEF RestoreProviders, history, IInv, TypeOK
<1>4. CASE c \in Handlers /\ KeepDeleted(c)
  <2>1. caller' \in CallerType /\ taken' \in [Handlers -> Counts]
    BY <1>1, <1>4 DEF KeepDeleted, CallerType
  <2>2. dropped' \in Nat
    <3>1. Sum(taken[c]) \in Nat
      BY <1>1, <1>4, SumType, UsageStoreAssumption DEF Counts
    <3> QED  BY <1>4, <3>1 DEF KeepDeleted, IInv, TypeOK
  <2>3. TypeOK'
    BY <1>4, <2>1, <2>2 DEF KeepDeleted, IInv, TypeOK, InFlush, store, persist, CallerType
  <2> QED
    BY <1>4, <2>3 DEF KeepDeleted, IInv, InFlush, store, FlushKnows, TransferKnows, CleanIsDurable
<1> QED  BY <1>2, <1>3, <1>4 DEF Returns

\* Who flushes holds the lock, alone.
LEMMA OneFlush ==
    ASSUME TypeOK, NEW f \in Flushers, InFlush(f)
    PROVE  flushMu = f /\ tx.phase = "none" /\ \A g \in Flushers : g # f => ~InFlush(g)
  BY ActorsDistinct DEF TypeOK, Flushers, Callers, Transfer, Worker, Closer

LEMMA FlushIInv ==
    ASSUME IInv, NEW f \in Flushers,
           \/ FlushStart(f) \/ FlushNothing(f) \/ FlushWrite(f)
           \/ FlushFails(f) \/ FlushEnd(f) \/ FlushAgain(f)
    PROVE  IInv'
<1>1. TypeOK /\ FlushKnows /\ TransferKnows /\ CleanIsDurable
  BY DEF IInv
<1>2. /\ flush \in [Flushers -> [data : Counts, rev : Nat, written : BOOLEAN]]
      /\ mem \in Counts /\ file \in Counts /\ revision \in Nat /\ fileRev \in Nat
      /\ flush[f].data \in Counts /\ flush[f].rev \in Nat
  BY <1>1 DEF TypeOK
<1>3. CASE FlushStart(f)
  <2>1. tx.phase = "none" /\ \A g \in Flushers : ~InFlush(g)
    BY <1>1, <1>3, ActorsDistinct
    DEF FlushStart, TypeOK, Flushers, Callers, Transfer, Worker, Closer, Free
  <2>2. flush' = [flush EXCEPT ![f] = [data |-> mem, rev |-> revision, written |-> FALSE]]
    BY <1>3 DEF FlushStart
  <2>3. flush' \in [Flushers -> [data : Counts, rev : Nat, written : BOOLEAN]]
    BY <1>2, <2>2
  <2>4. f # Transfer
    BY ActorsDistinct DEF Flushers, Callers, Transfer, Worker, Closer
  <2>5. TypeOK'
    BY <1>1, <1>2, <1>3, <2>1, <2>2, <2>3, <2>4
    DEF FlushStart, TypeOK, InFlush, store, persist, history
  <2>6. FlushKnows'
    BY <1>1, <1>2, <1>3, <2>1, <2>2 DEF FlushStart, FlushKnows, InFlush, store, history, IInv
  <2> QED
    BY <1>1, <1>3, <2>5, <2>6 DEF FlushStart, IInv, TransferKnows, CleanIsDurable, store, history
<1>4. CASE FlushNothing(f)
  <2>1. TypeOK' /\ (\A g \in Flushers : flush'[g].rev = 0 /\ ~flush'[g].written)
    BY <1>1, <1>4, FlushReturnsType DEF FlushNothing, TypeOK, FlushKnows, store
  <2> QED
    BY <1>4, <2>1
    DEF FlushNothing, FlushReturns, IInv, FlushKnows, InFlush, TransferKnows, CleanIsDurable, store
<1>5. CASE FlushWrite(f)
  <2>1. tx.phase = "none" /\ \A g \in Flushers : g # f => ~InFlush(g)
    BY <1>1, <1>5, OneFlush DEF FlushWrite
  <2>2. flush' = [flush EXCEPT ![f].written = TRUE]
    BY <1>5 DEF FlushWrite
  <2>3. flush' \in [Flushers -> [data : Counts, rev : Nat, written : BOOLEAN]]
    BY <1>2, <2>2
  <2>4. TypeOK'
    BY <1>1, <1>2, <1>5, <2>1, <2>2, <2>3 DEF FlushWrite, TypeOK, InFlush, store, persist
  <2>5. FlushKnows' /\ fileRev' <= revision'
    BY <1>1, <1>2, <1>5, <2>1, <2>2 DEF FlushWrite, FlushKnows, InFlush, store
  <2> QED
    BY <1>1, <1>5, <2>1, <2>4, <2>5
    DEF FlushWrite, IInv, TransferKnows, CleanIsDurable, FlushKnows, store
<1>6. CASE FlushFails(f)
  <2>1. flushMu = f
    BY <1>1, <1>6, OneFlush DEF FlushFails
  <2>2. TypeOK' /\ (\A g \in Flushers : flush'[g].rev = 0 /\ ~flush'[g].written)
    BY <1>1, <1>6, <2>1, FlushReturnsType DEF FlushFails, TypeOK, FlushKnows, store
  <2> QED
    BY <1>6, <2>2
    DEF FlushFails, FlushReturns, IInv, FlushKnows, InFlush, TransferKnows, CleanIsDurable, store
<1>7. CASE FlushEnd(f)
  <2>1. InFlush(f) /\ flushMu = f
    BY <1>1, <1>7, OneFlush DEF FlushEnd, FlushKnows
  <2>2. TypeOK' /\ (\A g \in Flushers : flush'[g].rev = 0 /\ ~flush'[g].written)
    BY <1>1, <1>7, <2>1, FlushReturnsType DEF FlushEnd, TypeOK, FlushKnows
  <2>3. file = mem
    BY <1>1, <1>7, <2>1 DEF FlushEnd, FlushKnows
  <2> QED
    BY <1>7, <2>2, <2>3
    DEF FlushEnd, FlushReturns, IInv, FlushKnows, InFlush, TransferKnows, CleanIsDurable
<1>8. CASE FlushAgain(f)
  <2>1. InFlush(f)
    BY <1>1, <1>8 DEF FlushAgain, FlushKnows
  <2>2. flushMu = f /\ tx.phase = "none" /\ dirty /\ \A g \in Flushers : g # f => ~InFlush(g)
    BY <1>1, <2>1, OneFlush DEF FlushKnows
  <2>3. flush' = [flush EXCEPT ![f] = [data |-> mem, rev |-> revision, written |-> FALSE]]
    BY <1>8 DEF FlushAgain
  <2>4. flush' \in [Flushers -> [data : Counts, rev : Nat, written : BOOLEAN]]
    BY <1>2, <2>3
  <2>5. TypeOK'
    BY <1>1, <1>2, <1>8, <2>1, <2>2, <2>3, <2>4
    DEF FlushAgain, TypeOK, InFlush, store, persist, history
  <2>6. FlushKnows'
    BY <1>1, <1>2, <1>8, <2>2, <2>3 DEF FlushAgain, FlushKnows, InFlush, store, history, IInv
  <2> QED
    BY <1>1, <1>8, <2>5, <2>6 DEF FlushAgain, IInv, TransferKnows, CleanIsDurable, store, history
<1> QED  BY <1>3, <1>4, <1>5, <1>6, <1>7, <1>8

\* The worker and Close touch neither counters nor file; a restart reads the file.
LEMMA WorkerIInv == IInv /\ (WorkerStep \/ Close \/ CloseFlush) => IInv'
<1> SUFFICES ASSUME IInv, WorkerStep \/ Close \/ CloseFlush PROVE IInv'  OBVIOUS
<1>1. UNCHANGED <<store, file, flushMu, flush, caller, taken, tx, history>>
  BY DEF WorkerStep, WorkerSignalled, TimerFires, WorkerStops, Close, CloseFlush
<1>2. signal' \in BOOLEAN /\ timer' \in BOOLEAN
  BY DEF WorkerStep, WorkerSignalled, TimerFires, WorkerStops, Close, CloseFlush, IInv, TypeOK
<1>3. worker' \in {"running", "flushing", "stopped"} /\ closer' \in {"open", "stopping", "flushing", "closed"}
  BY DEF WorkerStep, WorkerSignalled, TimerFires, WorkerStops, Close, CloseFlush, IInv, TypeOK
<1>4. TypeOK'
  BY <1>1, <1>2, <1>3 DEF IInv, TypeOK, InFlush, store, history
<1> QED
  BY <1>1, <1>4 DEF IInv, FlushKnows, TransferKnows, CleanIsDurable, InFlush, store, history

LEMMA CrashIInv == IInv /\ Crash => IInv'
<1> SUFFICES ASSUME IInv, Crash PROVE IInv'  OBVIOUS
<1>1. Nothing \in Counts /\ file \in Counts /\ Sum(file) \in Nat
  BY SumType, UsageStoreAssumption DEF Nothing, Counts, IInv, TypeOK
<1>2. NoSnapshot \in [data : Counts, rev : Nat, written : BOOLEAN]
  BY <1>1 DEF NoSnapshot
<1>3. NoTx \in [phase : {"none", "begun", "staged", "flushed"}, mem : Counts, dirty : BOOLEAN,
                rev : Nat, file : Counts, fileRev : Nat, imported : Nat, torn : BOOLEAN]
  BY <1>1 DEF NoTx
<1>4. /\ flush' \in [Flushers -> [data : Counts, rev : Nat, written : BOOLEAN]]
      /\ \A f \in Flushers : flush'[f].rev = 0 /\ ~flush'[f].written
  BY <1>2 DEF Crash, NoSnapshot
<1>5. /\ caller' \in [Callers -> {"idle", "notify", "flush", "deleting", "restore", "deleted"}]
      /\ taken' \in [Handlers -> Counts]
  BY <1>1 DEF Crash
<1>6. dirty' \in BOOLEAN /\ signal' \in BOOLEAN /\ timer' \in BOOLEAN /\ orphaned' \in BOOLEAN /\ torn' \in BOOLEAN
  BY DEF Crash
<1>7. /\ tx' = NoTx /\ flushMu' = Free /\ tx'.phase = "none" /\ Free # Transfer
      /\ mem' = file /\ file' = file /\ revision' = 0 /\ total' = Sum(file) /\ dropped' = 0 /\ fileRev' = 0
      /\ worker' = "running" /\ closer' = "open" /\ ~dirty'
  BY DEF Crash, NoTx, Free, Transfer
<1>8. TypeOK'
  BY <1>1, <1>3, <1>4, <1>5, <1>6, <1>7 DEF TypeOK, InFlush
<1> QED
  BY <1>4, <1>7, <1>8 DEF IInv, FlushKnows, TransferKnows, CleanIsDurable, InFlush

\* An import holds the lock, so nothing it would put back is out of date.
LEMMA TransferIInv ==
    ASSUME IInv,
           \/ BeginTransfer \/ TxFlush \/ Commit
           \/ (\E restored \in BOOLEAN : Rollback(restored))
           \/ \E counts \in Counts : TxRestore(counts)
    PROVE  IInv'
<1>1. TypeOK /\ FlushKnows /\ TransferKnows /\ CleanIsDurable
  BY DEF IInv
<1>2. Free \notin Flushers \cup {Transfer} /\ Transfer \notin Flushers
  BY ActorsDistinct DEF Free, Transfer, Flushers, Callers, Worker, Closer
<1>3. flushMu \in {Free, Transfer} => \A f \in Flushers : ~InFlush(f) /\ ~flush[f].written
  BY <1>1, <1>2 DEF TypeOK, FlushKnows
<1>4. tx.phase # "none" => flushMu = Transfer
  BY <1>1 DEF TypeOK
<1>5. NoTx \in [phase : {"none", "begun", "staged", "flushed"}, mem : Counts, dirty : BOOLEAN,
                rev : Nat, file : Counts, fileRev : Nat, imported : Nat, torn : BOOLEAN]
      /\ NoTx.phase = "none"
  BY DEF NoTx, Nothing, Counts
<1>6. CASE BeginTransfer
  <2>1. TypeOK'
    BY <1>1, <1>2, <1>3, <1>6 DEF BeginTransfer, TypeOK, InFlush, store, persist, history
  <2> QED
    BY <1>1, <1>3, <1>6, <2>1
    DEF BeginTransfer, IInv, TypeOK, FlushKnows, TransferKnows, CleanIsDurable, InFlush, store, history
<1>7. CASE TxFlush
  <2>1. TypeOK'
    BY <1>1, <1>7 DEF TxFlush, TypeOK, InFlush, persist
  <2> QED
    BY <1>1, <1>3, <1>4, <1>7, <2>1
    DEF TxFlush, IInv, TypeOK, FlushKnows, TransferKnows, CleanIsDurable, InFlush
<1>8. CASE Commit
  <2>1. TypeOK'
    BY <1>1, <1>2, <1>3, <1>4, <1>5, <1>8 DEF Commit, TypeOK, InFlush, store, persist, history
  <2> QED
    BY <1>1, <1>3, <1>4, <1>5, <1>8, <2>1
    DEF Commit, IInv, FlushKnows, TransferKnows, CleanIsDurable, InFlush, store, history
<1>9. ASSUME NEW restored \in BOOLEAN, Rollback(restored) PROVE IInv'
  <2>1. signal' \in BOOLEAN /\ orphaned' \in BOOLEAN /\ torn' \in BOOLEAN
    BY <1>1, <1>9 DEF Rollback, TypeOK
  <2>2. total' \in Nat
    BY <1>1, <1>9 DEF Rollback, TypeOK, TransferKnows
  <2>3. /\ mem' = tx.mem /\ dirty' = tx.dirty /\ revision' = tx.rev /\ fileRev' = tx.fileRev
        /\ file' = IF restored THEN tx.file ELSE file
        /\ tx' = NoTx /\ flushMu' = Free /\ tx.phase # "none"
        /\ UNCHANGED <<flush, timer, worker, closer, caller, taken, dropped>>
    BY <1>9 DEF Rollback
  <2>4. TypeOK'
    BY <1>1, <1>2, <1>3, <1>4, <1>5, <2>1, <2>2, <2>3 DEF TypeOK, InFlush
  <2>5. CleanIsDurable'
    <3>1. CASE restored
      BY <1>1, <1>9, <2>3, <3>1 DEF Rollback, TransferKnows, CleanIsDurable
    <3>2. CASE ~restored
      BY <1>1, <1>9, <2>3, <3>2 DEF Rollback, TransferKnows, CleanIsDurable, TypeOK
    <3> QED  BY <3>1, <3>2
  <2> QED
    BY <1>1, <1>3, <1>4, <1>5, <2>3, <2>4, <2>5 DEF IInv, FlushKnows, TransferKnows, InFlush
<1>10. ASSUME NEW counts \in Counts, TxRestore(counts) PROVE IInv'
  <2>1. Sum(counts) \in Nat
    BY SumType, UsageStoreAssumption DEF Counts
  <2>2. Plus(mem, counts) \in Counts
    BY <1>1 DEF Plus, Counts, TypeOK
  <2>3. /\ tx.phase = "begun" /\ tx' = [tx EXCEPT !.phase = "staged", !.imported = Sum(counts)]
        /\ mem' = Plus(mem, counts) /\ dirty' = TRUE /\ revision' = revision + 1
        /\ total' = total + Sum(counts)
        /\ UNCHANGED <<file, flushMu, flush, persist, caller, taken, dropped, fileRev, orphaned, torn>>
    BY <1>10 DEF TxRestore
  <2>4. tx' \in [phase : {"none", "begun", "staged", "flushed"}, mem : Counts, dirty : BOOLEAN,
                 rev : Nat, file : Counts, fileRev : Nat, imported : Nat, torn : BOOLEAN]
    BY <1>1, <2>1, <2>3 DEF TypeOK
  <2>5. total' \in Nat /\ revision' \in Nat /\ fileRev' <= revision' /\ revision' > 0
    BY <1>1, <2>1, <2>3 DEF IInv, TypeOK
  <2>6. tx'.phase = "staged" /\ tx'.imported = Sum(counts)
    BY <1>1, <2>3 DEF TypeOK
  <2>7. TypeOK'
    BY <1>1, <2>2, <2>3, <2>4, <2>5, <2>6 DEF TypeOK, InFlush, persist
  <2>8. TransferKnows'
    BY <1>1, <2>1, <2>3, <2>6 DEF TransferKnows, TypeOK
  <2> QED
    BY <1>1, <1>3, <1>4, <2>3, <2>5, <2>7, <2>8 DEF IInv, FlushKnows, CleanIsDurable, InFlush
<1> QED  BY <1>6, <1>7, <1>8, <1>9, <1>10

LEMMA NextIInv == IInv /\ [Next]_vars => IInv'
<1> SUFFICES ASSUME IInv, [Next]_vars PROVE IInv'  OBVIOUS
<1>1. CASE UNCHANGED vars
  <2>1. TypeOK'
    BY <1>1 DEF vars, IInv, TypeOK, InFlush, store, persist, history
  <2> QED
    BY <1>1, <2>1
    DEF vars, IInv, FlushKnows, TransferKnows, CleanIsDurable, InFlush, store, persist, history
<1>2. ASSUME NEW n \in Names, TxRestore([Nothing EXCEPT ![n] = 1]) PROVE IInv'
  <2>1. [Nothing EXCEPT ![n] = 1] \in Counts
    BY DEF Nothing, Counts
  <2> QED  BY <1>2, <2>1, TransferIInv
<1> QED
  BY <1>1, <1>2, RecordIInv, HandleIInv, ReturnsIInv, FlushIInv, WorkerIInv, CrashIInv, TransferIInv
  DEF Next, FlushBegins, FlushWrites, FlushEnds, TxEnds

LEMMA IInvHolds == Spec => []IInv
  BY InitIInv, NextIInv, PTL DEF Spec
-----------------------------------------------------------------------------
\* Every variable keeps the values the code gives it, and the lock has one holder.
THEOREM StoreTypes == Spec => []TypeOK
<1>1. IInv => TypeOK  BY DEF IInv
<1> QED  BY <1>1, IInvHolds, PTL

\* A store that is not dirty is on disk as it is, whoever flushed, imported or
\* rolled back last (internal/telemetry/store.go, Flush and Rollback).
THEOREM CleanStoresAreOnDisk == Spec => []CleanIsDurable
<1>1. IInv => CleanIsDurable  BY DEF IInv
<1> QED  BY <1>1, IInvHolds, PTL

\* No flush overwrites a later one: flushMu covers reading the counters and
\* writing them (internal/telemetry/store.go, Flush).
THEOREM FileGoesForward == Spec => FileNeverRegresses
<1> DEFINE A == fileRev' >= fileRev \/ (tx.phase = "flushed" /\ tx'.phase = "none") \/ revision' = 0
<1>1. IInv /\ [Next]_vars => [A]_vars
  <2> SUFFICES ASSUME IInv, Next PROVE A  OBVIOUS
  <2>1. fileRev \in Nat /\ revision \in Nat /\ fileRev <= revision
    BY DEF IInv, TypeOK
  <2>2. ASSUME fileRev' = fileRev PROVE A
    BY <2>1, <2>2
  <2>3. ASSUME NEW f \in Flushers, FlushWrite(f) PROVE A
    BY <2>3 DEF FlushWrite, IInv, FlushKnows
  <2>4. CASE Crash
    BY <2>4 DEF Crash
  <2>5. CASE TxFlush
    BY <2>1, <2>5 DEF TxFlush
  <2>6. ASSUME NEW restored \in BOOLEAN, Rollback(restored) PROVE A
    <3>1. tx.phase \in {"begun", "staged", "flushed"} /\ tx'.phase = "none" /\ fileRev' = tx.fileRev
      BY <2>6 DEF Rollback, NoTx, IInv, TypeOK
    <3> QED  BY <2>1, <3>1 DEF IInv, TransferKnows
  <2> QED
    BY <2>2, <2>3, <2>4, <2>5, <2>6
    DEF Next, Record, Handle, DeleteProvider, RenameProvider, DeleteWithRollback, Returns, Notify,
        RestoreProviders, KeepDeleted, FlushBegins, FlushStart, FlushNothing, FlushWrites, FlushEnds,
        FlushEnd, FlushAgain, FlushFails, WorkerStep, WorkerSignalled, TimerFires, WorkerStops, Close,
        CloseFlush, BeginTransfer, TxEnds, Commit, TxRestore, history
<1> QED  BY <1>1, IInvHolds, PTL DEF Spec, FileNeverRegresses
-----------------------------------------------------------------------------
(***************************************************************************)
(* Every request in one place.                                             *)
(***************************************************************************)
Only(n, k) == [x \in Names |-> IF x = n THEN k ELSE 0]
Held(t)    == [e \in Handlers \X Names |-> t[e[1]][e[2]]]

\* Only a handler that may still undo holds anything, and an import knows by how
\* much it raised the counters.
Accounted ==
    /\ EachRequestCountedOnce
    /\ \A c \in Handlers : caller[c] \notin {"deleting", "restore", "deleted"} => taken[c] = Nothing
    /\ tx.phase # "none" => Sum(mem) = Sum(tx.mem) + tx.imported
    /\ tx.phase = "begun" => tx.imported = 0

LEMMA CountsSum ==
    ASSUME NEW counts \in Counts
    PROVE  Sum(counts) \in Nat
  BY SumType, UsageStoreAssumption DEF Counts

LEMMA HeldSum ==
    ASSUME NEW t \in [Handlers -> Counts]
    PROVE  Held(t) \in [Handlers \X Names -> Nat] /\ Sum(Held(t)) \in Nat
<1>1. Held(t) \in [Handlers \X Names -> Nat]
  BY DEF Held, Counts
<1>2. IsFiniteSet(Handlers \X Names)
  BY UsageStoreAssumption, FS_Product
<1> QED  BY <1>1, <1>2, SumType

\* Moving count from one entry to another, or out of the store, moves its sum.
LEMMA SumPlus ==
    ASSUME NEW f \in Counts, NEW g \in Counts
    PROVE  Sum(Plus(f, g)) = Sum(f) + Sum(g)
<1>1. Plus(f, g) = Merged(Names, f, g)
  BY DEF Plus, Merged
<1> QED  BY <1>1, SumMerged, UsageStoreAssumption DEF Counts

LEMMA SumWithout ==
    ASSUME NEW f \in Counts, NEW n \in Names
    PROVE  /\ [f EXCEPT ![n] = 0] \in Counts
           /\ Sum(f) = Sum([f EXCEPT ![n] = 0]) + f[n]
<1> DEFINE g == [f EXCEPT ![n] = 0]
<1>1. g \in Counts /\ Only(n, f[n]) \in Counts /\ f[n] \in Nat
  BY DEF Only, Counts
<1>2. f = Plus(g, Only(n, f[n]))
  BY DEF Plus, Only, Counts
<1>3. Sum(Only(n, f[n])) = f[n]
  BY <1>1, SumOnly DEF Only
<1>4. Sum(Plus(g, Only(n, f[n]))) = Sum(g) + Sum(Only(n, f[n]))
  BY <1>1, SumPlus
<1> QED  BY <1>1, <1>2, <1>3, <1>4

LEMMA SumWith ==
    ASSUME NEW f \in Counts, NEW n \in Names, NEW k \in Nat
    PROVE  /\ [f EXCEPT ![n] = k + @] \in Counts
           /\ Sum([f EXCEPT ![n] = k + @]) = Sum(f) + k
<1>1. Only(n, k) \in Counts /\ [f EXCEPT ![n] = k + @] \in Counts
  BY DEF Only, Counts
<1>2. [f EXCEPT ![n] = k + @] = Plus(f, Only(n, k))
  <2>1. ASSUME NEW x \in Names PROVE [f EXCEPT ![n] = k + @][x] = Plus(f, Only(n, k))[x]
    <3>1. f[x] \in Nat
      BY DEF Counts
    <3> QED  BY <3>1 DEF Plus, Only, Counts
  <2>2. Plus(f, Only(n, k)) \in Counts
    BY DEF Plus, Only, Counts
  <2> QED  BY <1>1, <2>1, <2>2 DEF Counts
<1>3. Sum(Only(n, k)) = k
  BY SumOnly DEF Only
<1> QED  BY <1>1, <1>2, <1>3, SumPlus

\* What a handler takes adds to what is held.
LEMMA HeldTaken ==
    ASSUME NEW t \in [Handlers -> Counts], NEW c \in Handlers, t[c] = Nothing, NEW g \in Counts
    PROVE  Sum(Held([t EXCEPT ![c] = g])) = Sum(Held(t)) + Sum(g)
<1> DEFINE E == Handlers \X Names
           own == [e \in E |-> IF e[1] = c THEN g[e[2]] ELSE 0]
           j == [n \in Names |-> <<c, n>>]
<1>1. own \in [E -> Nat] /\ j \in [Names -> E] /\ g \in [Names -> Nat]
  BY DEF Counts
<1>2. IsFiniteSet(E) /\ IsFiniteSet(Names)
  BY UsageStoreAssumption, FS_Product
<1>3. \A x, y \in Names : j[x] = j[y] => x = y
  OBVIOUS
<1>4. \A x \in Names : own[j[x]] = g[x]
  OBVIOUS
<1>5. \A e \in E : (\E x \in Names : e = j[x]) \/ own[e] = 0
  OBVIOUS
<1>6. Sum(own) = Sum(g)
  <2> HIDE DEF own, j, E
  <2> QED  BY <1>1, <1>2, <1>3, <1>4, <1>5, SumReindex
<1>7. Held([t EXCEPT ![c] = g]) = Merged(E, Held(t), own)
  <2>1. ASSUME NEW d \in Handlers, NEW n \in Names
        PROVE  [t EXCEPT ![c] = g][d][n] = t[d][n] + (IF d = c THEN g[n] ELSE 0)
    <3>1. t[d][n] \in Nat /\ g[n] \in Nat
      BY DEF Counts
    <3>2. d = c => t[d][n] = 0
      BY DEF Nothing
    <3> QED  BY <3>1, <3>2
  <2>2. \A e \in E : [t EXCEPT ![c] = g][e[1]][e[2]] = Held(t)[e] + own[e]
    BY <2>1 DEF Held
  <2> QED  BY <2>2 DEF Held, Merged
<1>8. Held(t) \in [E -> Nat]
  BY HeldSum
<1>9. Sum(Merged(E, Held(t), own)) = Sum(Held(t)) + Sum(own)
  <2> HIDE DEF own, E
  <2> QED  BY <1>1, <1>2, <1>8, SumMerged
<1> QED  BY <1>6, <1>7, <1>9

\* What a handler gives up leaves what is held.
LEMMA HeldReleased ==
    ASSUME NEW t \in [Handlers -> Counts], NEW c \in Handlers
    PROVE  Sum(Held(t)) = Sum(Held([t EXCEPT ![c] = Nothing])) + Sum(t[c])
<1> DEFINE u == [t EXCEPT ![c] = Nothing]
<1>1. u \in [Handlers -> Counts] /\ u[c] = Nothing /\ t[c] \in Counts
  BY DEF Nothing, Counts
<1>2. [u EXCEPT ![c] = t[c]] = t
  OBVIOUS
<1> HIDE DEF u
<1>3. Sum(Held([u EXCEPT ![c] = t[c]])) = Sum(Held(u)) + Sum(t[c])
  BY <1>1, HeldTaken
<1> QED  BY <1>2, <1>3 DEF u

LEMMA InitAccounted == Init => Accounted
<1> SUFFICES ASSUME Init PROVE Accounted  OBVIOUS
<1>1. mem = [n \in Names |-> 0] /\ total = 0 /\ dropped = 0 /\ tx.phase = "none"
  BY DEF Init, Nothing, NoTx
<1>2. HeldForUndo = [e \in Handlers \X Names |-> 0]
  BY DEF Init, HeldForUndo, Nothing
<1>3. Sum(mem) = 0 /\ Sum(HeldForUndo) = 0
  BY <1>1, <1>2, SumNothing
<1>4. \A c \in Handlers : taken[c] = Nothing
  BY DEF Init
<1> QED  BY <1>1, <1>3, <1>4 DEF Accounted, EachRequestCountedOnce

\* Counters change, one way or another, with the books kept.
LEMMA HandleAccounted ==
    ASSUME IInv, Accounted, NEW c \in Handlers, Handle(c)
    PROVE  Accounted'
<1>1. /\ mem \in Counts /\ caller \in CallerType /\ c \in Callers /\ taken \in [Handlers -> Counts]
      /\ Sum(mem) \in Nat /\ dropped \in Nat /\ Sum(HeldForUndo) \in Nat /\ HeldForUndo = Held(taken)
  BY CountsSum, HeldSum DEF IInv, TypeOK, CallerType, Callers, HeldForUndo, Held
<1>2. /\ total = Sum(mem) + Sum(HeldForUndo) + dropped
      /\ \A d \in Handlers : caller[d] \notin {"deleting", "restore", "deleted"} => taken[d] = Nothing
  BY DEF Accounted, EachRequestCountedOnce
<1>3. ASSUME NEW n \in Names, DeleteProvider(c, n) PROVE Accounted'
  <2>1. Sum(mem) = Sum(mem') + mem[n] /\ mem[n] \in Nat /\ Sum(mem') \in Nat
    <3>1. mem' = [mem EXCEPT ![n] = 0]
      BY <1>3 DEF DeleteProvider, Changed
    <3>2. mem[n] \in Nat
      BY <1>1 DEF Counts
    <3> QED  BY <1>1, <3>1, <3>2, SumWithout, CountsSum
  <2>2. taken' = taken /\ total' = total /\ dropped' = dropped + mem[n] /\ tx' = tx /\ tx.phase = "none"
    BY <1>3 DEF DeleteProvider, Changed
  <2>3. HeldForUndo' = HeldForUndo
    BY <2>2 DEF HeldForUndo
  <2>4. \A d \in Handlers : caller'[d] \notin {"deleting", "restore", "deleted"} => taken'[d] = Nothing
    BY <1>1, <1>2, <1>3, <2>2 DEF DeleteProvider, CallerType
  <2> QED  BY <1>1, <1>2, <2>1, <2>2, <2>3, <2>4 DEF Accounted, EachRequestCountedOnce
<1>4. ASSUME NEW a \in Names, NEW b \in Names, RenameProvider(c, a, b) PROVE Accounted'
  <2> DEFINE rest == [mem EXCEPT ![a] = 0]
  <2>1. mem' = [rest EXCEPT ![b] = mem[a] + @]
    BY <1>1, <1>4 DEF RenameProvider, Changed, Renamed, Counts
  <2>2. rest \in Counts /\ Sum(mem) = Sum(rest) + mem[a] /\ mem[a] \in Nat
    BY <1>1, SumWithout DEF Counts
  <2>3. Sum(mem') = Sum(mem)
    <3> HIDE DEF rest
    <3>1. Sum([rest EXCEPT ![b] = mem[a] + @]) = Sum(rest) + mem[a]
      BY <2>2, SumWith
    <3> QED  BY <2>1, <2>2, <3>1
  <2>4. taken' = taken /\ total' = total /\ dropped' = dropped /\ tx' = tx /\ tx.phase = "none"
    BY <1>4 DEF RenameProvider, Changed, history
  <2>5. HeldForUndo' = HeldForUndo
    BY <2>4 DEF HeldForUndo
  <2>6. \A d \in Handlers : caller'[d] \notin {"deleting", "restore", "deleted"} => taken'[d] = Nothing
    BY <1>1, <1>2, <1>4, <2>4 DEF RenameProvider, CallerType
  <2> QED  BY <1>1, <1>2, <2>3, <2>4, <2>5, <2>6 DEF Accounted, EachRequestCountedOnce
<1>5. ASSUME NEW S \in SUBSET Names, DeleteWithRollback(c, S) PROVE Accounted'
  <2> DEFINE rest == [n \in Names |-> IF n \in S THEN 0 ELSE mem[n]]
             gone == [n \in Names |-> IF n \in S THEN mem[n] ELSE 0]
  <2>1. rest \in Counts /\ gone \in Counts /\ Plus(rest, gone) = mem
    BY <1>1 DEF Counts, Plus
  <2>2. /\ mem' = rest /\ taken' = [taken EXCEPT ![c] = gone] /\ taken[c] = Nothing
        /\ total' = total /\ dropped' = dropped /\ tx' = tx /\ tx.phase = "none"
    BY <1>2, <1>5 DEF DeleteWithRollback, Changed, history
  <2>3. \A d \in Handlers : caller'[d] \notin {"deleting", "restore", "deleted"} => taken'[d] = Nothing
    BY <1>1, <1>2, <1>5, <2>2 DEF DeleteWithRollback, CallerType
  <2> HIDE DEF rest, gone
  <2>4. Sum(mem) = Sum(rest) + Sum(gone) /\ Sum(rest) \in Nat /\ Sum(gone) \in Nat
    BY <2>1, SumPlus, CountsSum
  <2>5. Sum(Held(taken')) = Sum(Held(taken)) + Sum(gone)
    BY <1>1, <2>1, <2>2, HeldTaken
  <2>6. HeldForUndo' = Held(taken')
    BY DEF HeldForUndo, Held
  <2> QED  BY <1>1, <1>2, <2>2, <2>3, <2>4, <2>5, <2>6 DEF Accounted, EachRequestCountedOnce
<1> QED  BY <1>3, <1>4, <1>5 DEF Handle

LEMMA UndoAccounted ==
    ASSUME IInv, Accounted, NEW c \in Handlers, RestoreProviders(c) \/ KeepDeleted(c)
    PROVE  Accounted'
<1>1. /\ mem \in Counts /\ caller \in CallerType /\ c \in Callers /\ taken \in [Handlers -> Counts]
      /\ Sum(mem) \in Nat /\ dropped \in Nat /\ taken[c] \in Counts /\ Sum(taken[c]) \in Nat
  BY CountsSum DEF IInv, TypeOK, CallerType, Callers
<1>2. /\ total = Sum(mem) + Sum(HeldForUndo) + dropped
      /\ \A d \in Handlers : caller[d] \notin {"deleting", "restore", "deleted"} => taken[d] = Nothing
      /\ tx.phase # "none" => Sum(mem) = Sum(tx.mem) + tx.imported
      /\ tx.phase = "begun" => tx.imported = 0
  BY DEF Accounted, EachRequestCountedOnce
<1>3. taken' = [taken EXCEPT ![c] = Nothing] /\ taken' \in [Handlers -> Counts]
  BY <1>1 DEF RestoreProviders, KeepDeleted, Nothing, Counts
<1>4. HeldForUndo = Held(taken) /\ HeldForUndo' = Held(taken')
  BY DEF HeldForUndo, Held
<1>5. Sum(HeldForUndo) = Sum(HeldForUndo') + Sum(taken[c]) /\ Sum(HeldForUndo') \in Nat
  BY <1>1, <1>3, <1>4, HeldReleased, HeldSum
<1>6. \A d \in Handlers : caller'[d] \notin {"deleting", "restore", "deleted"} => taken'[d] = Nothing
  <2>1. \A d \in Handlers : d # c => caller'[d] = caller[d] /\ taken'[d] = taken[d]
    BY <1>1, <1>3 DEF RestoreProviders, KeepDeleted, CallerType, Callers
  <2>2. taken'[c] = Nothing
    BY <1>3, <1>1
  <2> QED  BY <1>2, <2>1, <2>2
<1>7. CASE RestoreProviders(c)
  <2>1. mem' = Plus(mem, taken[c]) /\ total' = total /\ dropped' = dropped /\ tx' = tx /\ tx.phase = "none"
    BY <1>7 DEF RestoreProviders, Changed, history
  <2>2. Sum(mem') = Sum(mem) + Sum(taken[c])
    BY <1>1, <2>1, SumPlus
  <2> QED  BY <1>1, <1>2, <1>5, <1>6, <2>1, <2>2 DEF Accounted, EachRequestCountedOnce
<1>8. CASE KeepDeleted(c)
  <2>1. mem' = mem /\ total' = total /\ dropped' = dropped + Sum(taken[c]) /\ tx' = tx
    BY <1>8 DEF KeepDeleted, store
  <2> QED  BY <1>1, <1>2, <1>5, <1>6, <2>1 DEF Accounted, EachRequestCountedOnce
<1> QED  BY <1>7, <1>8

\* Nothing moves, and no handler forgets what it may have to undo.
LEMMA KeptAccounted ==
    ASSUME Accounted, UNCHANGED <<mem, taken, total, dropped, tx>>,
           \A c \in Handlers : caller'[c] \notin {"deleting", "restore", "deleted"}
              => caller[c] \notin {"deleting", "restore", "deleted"}
    PROVE  Accounted'
  BY DEF Accounted, EachRequestCountedOnce, HeldForUndo

LEMMA NextAccounted == IInv /\ Accounted /\ [Next]_vars => Accounted'
<1> SUFFICES ASSUME IInv, Accounted, [Next]_vars PROVE Accounted'  OBVIOUS
<1>1. /\ mem \in Counts /\ caller \in CallerType /\ taken \in [Handlers -> Counts] /\ Sum(mem) \in Nat
      /\ Sum(HeldForUndo) \in Nat /\ dropped \in Nat /\ total \in Nat
  <2>1. HeldForUndo = Held(taken)
    BY DEF HeldForUndo, Held
  <2> QED  BY <2>1, CountsSum, HeldSum DEF IInv, TypeOK, CallerType
<1>2. /\ total = Sum(mem) + Sum(HeldForUndo) + dropped
      /\ \A d \in Handlers : caller[d] \notin {"deleting", "restore", "deleted"} => taken[d] = Nothing
      /\ tx.phase # "none" => Sum(mem) = Sum(tx.mem) + tx.imported
      /\ tx.phase = "begun" => tx.imported = 0
  BY DEF Accounted, EachRequestCountedOnce
<1>3. ASSUME NEW c \in Requests, NEW n \in Names, Record(c, n) PROVE Accounted'
  <2>1. /\ mem' = [mem EXCEPT ![n] = @ + 1] /\ total' = total + 1 /\ tx' = tx /\ tx.phase = "none"
        /\ UNCHANGED <<taken, dropped>>
    BY <1>3 DEF Record, Changed
  <2>2. mem' = [mem EXCEPT ![n] = 1 + @]
    <3>1. mem[n] + 1 = 1 + mem[n]
      BY <1>1 DEF Counts
    <3> QED  BY <2>1, <3>1
  <2>3. Sum(mem') = Sum(mem) + 1
    BY <1>1, <2>2, SumWith
  <2>4. \A d \in Handlers : caller'[d] \notin {"deleting", "restore", "deleted"} => taken'[d] = Nothing
    BY <1>1, <1>2, <1>3, <2>1 DEF Record, CallerType, Callers
  <2>5. HeldForUndo' = HeldForUndo
    BY <2>1 DEF HeldForUndo
  <2> QED  BY <1>1, <1>2, <2>1, <2>3, <2>4, <2>5 DEF Accounted, EachRequestCountedOnce
<1>4. ASSUME NEW c \in Callers, Notify(c) PROVE Accounted'
  BY <1>1, <1>4, KeptAccounted DEF Notify, store, CallerType, Callers
<1>5. ASSUME NEW f \in Flushers, FlushStart(f) \/ FlushWrite(f) \/ FlushAgain(f) PROVE Accounted'
  BY <1>5, KeptAccounted DEF FlushStart, FlushWrite, FlushAgain, store, history
<1>6. ASSUME NEW f \in Flushers, FlushNothing(f) \/ FlushFails(f) \/ FlushEnd(f) PROVE Accounted'
  <2>1. UNCHANGED <<mem, taken, total, dropped, tx>>
    BY <1>6 DEF FlushNothing, FlushFails, FlushEnd, FlushReturns, store
  <2>2. \A c \in Handlers : caller'[c] \notin {"deleting", "restore", "deleted"}
           => caller[c] \notin {"deleting", "restore", "deleted"}
    BY <1>1, <1>6 DEF FlushNothing, FlushFails, FlushEnd, FlushReturns, CallerType, Callers
  <2> QED  BY <2>1, <2>2, KeptAccounted
<1>7. CASE WorkerStep \/ Close \/ CloseFlush \/ UNCHANGED vars
  <2>1. UNCHANGED <<mem, taken, total, dropped, tx, caller>>
    BY <1>7 DEF WorkerStep, WorkerSignalled, TimerFires, WorkerStops, Close, CloseFlush, store, history, vars
  <2> QED  BY <2>1, KeptAccounted
<1>8. CASE Crash
  <2>1. /\ mem' = file /\ total' = Sum(file) /\ dropped' = 0 /\ tx'.phase = "none"
        /\ \A c \in Handlers : taken'[c] = Nothing
    BY <1>8 DEF Crash, NoTx
  <2>2. HeldForUndo' = [e \in Handlers \X Names |-> 0]
    BY <2>1 DEF HeldForUndo, Nothing
  <2>3. Sum(HeldForUndo') = 0 /\ Sum(file) \in Nat
    BY <2>2, SumNothing, CountsSum DEF IInv, TypeOK
  <2> QED  BY <2>1, <2>3 DEF Accounted, EachRequestCountedOnce
<1>9. CASE BeginTransfer
  <2>1. /\ UNCHANGED <<mem, taken, total, dropped, caller>> /\ tx'.mem = mem /\ tx'.imported = 0
    BY <1>9 DEF BeginTransfer, store, history
  <2> QED  BY <1>1, <1>2, <2>1 DEF Accounted, EachRequestCountedOnce, HeldForUndo
<1>10. ASSUME NEW n \in Names, TxRestore([Nothing EXCEPT ![n] = 1]) PROVE Accounted'
  <2> DEFINE counts == [Nothing EXCEPT ![n] = 1]
  <2>1. counts \in Counts
    BY DEF Nothing, Counts
  <2>2. TxRestore(counts)
    BY <1>10
  <2> HIDE DEF counts
  <2>3. /\ mem' = Plus(mem, counts) /\ total' = total + Sum(counts) /\ tx.phase = "begun"
        /\ tx'.phase = "staged" /\ tx'.mem = tx.mem /\ tx'.imported = Sum(counts)
        /\ UNCHANGED <<taken, dropped, caller>>
    BY <2>2 DEF TxRestore, IInv, TypeOK
  <2>4. Sum(mem') = Sum(mem) + Sum(counts) /\ Sum(counts) \in Nat
    BY <1>1, <2>1, <2>3, SumPlus, CountsSum
  <2>5. Sum(mem) = Sum(tx.mem) /\ Sum(tx.mem) \in Nat
    BY <1>2, <2>3, CountsSum DEF IInv, TypeOK
  <2> QED  BY <1>1, <1>2, <2>3, <2>4, <2>5 DEF Accounted, EachRequestCountedOnce, HeldForUndo
<1>11. CASE TxFlush
  <2>1. UNCHANGED <<mem, taken, total, dropped, caller>> /\ tx.phase = "staged"
        /\ tx'.phase = "flushed" /\ tx'.mem = tx.mem /\ tx'.imported = tx.imported
    BY <1>11 DEF TxFlush, IInv, TypeOK
  <2> QED  BY <1>2, <2>1 DEF Accounted, EachRequestCountedOnce, HeldForUndo
<1>12. CASE Commit
  <2>1. UNCHANGED <<mem, taken, total, dropped, caller>> /\ tx'.phase = "none"
    BY <1>12 DEF Commit, store, history, NoTx
  <2> QED  BY <1>2, <2>1 DEF Accounted, EachRequestCountedOnce, HeldForUndo
<1>13. ASSUME NEW restored \in BOOLEAN, Rollback(restored) PROVE Accounted'
  <2>1. /\ mem' = tx.mem /\ total' = total - tx.imported /\ UNCHANGED <<taken, dropped, caller>>
        /\ tx.phase # "none" /\ tx'.phase = "none"
    BY <1>13 DEF Rollback, NoTx
  <2>2. Sum(tx.mem) \in Nat /\ tx.imported \in Nat
    BY CountsSum DEF IInv, TypeOK
  <2> QED  BY <1>1, <1>2, <2>1, <2>2 DEF Accounted, EachRequestCountedOnce, HeldForUndo
<1> QED
  BY <1>3, <1>4, <1>5, <1>6, <1>7, <1>8, <1>9, <1>10, <1>11, <1>12, <1>13, HandleAccounted, UndoAccounted
  DEF Next, Returns, FlushBegins, FlushWrites, FlushEnds, TxEnds

\* Recording, renaming, merging, deleting, undoing, importing and rolling back,
\* in any order, neither lose nor double a request (internal/telemetry/store.go).
THEOREM RequestsCountedOnce == Spec => []EachRequestCountedOnce
<1>1. Accounted => EachRequestCountedOnce  BY DEF Accounted
<1> QED  BY <1>1, IInvHolds, InitAccounted, NextAccounted, PTL DEF Spec
=============================================================================
