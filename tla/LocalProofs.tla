------------------------------- MODULE LocalProofs -------------------------------
(***************************************************************************)
(* For any number of keys, hosts, requests, addresses and updates, for any *)
(* layouts of another program's files, and for any times in the order the  *)
(* code has: notifications keep to their pace, lookups and connections are *)
(* nobody else's, the executable is whole, and what the user had in a file *)
(* that a takeover replaced can be given back.                             *)
(* Each scene has an inductive invariant of its own; the last section puts *)
(* them together.                                                          *)
(***************************************************************************)
EXTENDS LocalScenes, FiniteSetTheorems, SequenceTheorems, TLAPS

(***************************************************************************)
(* Notifications                                                           *)
(***************************************************************************)

LEMMA DesktopCardinality == \A S : Desktop!Cardinality(S) = Cardinality(S)
  BY DEF Desktop!Cardinality, Cardinality

Shows == [key : Keys, age : Nat, state : {"open", "shown", "hung", "late"}]
Latest == shows[Len(shows)]

NotifierTypes ==
    /\ queue \in Seq(Keys) /\ shows \in Seq(Shows)
    /\ lastSent \in [Keys -> Nat]
    /\ windowAge \in Nat /\ sent \in Nat /\ disabled \in Nat /\ waited \in Nat
    /\ sender \in {"none", "running", "answered"} /\ loop \in {"waiting", "sending", "ended"}

\* The entries of a history h shown in the minute that is being counted, and
\* those of the last minute that were shown before it began.
Counted(h, w) == {i \in 1 .. Len(h) : h[i].age < Minute /\ h[i].age <= w}
Before(h, w) == {i \in 1 .. Len(h) : w < h[i].age /\ h[i].age < Minute}

\* Neither is more than the rate.
WithinRate ==
    /\ sent <= MaxPerMinute /\ windowAge <= Minute
    /\ windowAge = Minute => \A i \in 1 .. Len(shows) : shows[i].age > 0
    /\ Cardinality(Counted(shows, windowAge)) <= sent
    /\ Cardinality(Before(shows, windowAge)) <= MaxPerMinute

\* What was shown within the window of deduplication is still in the table.
Remembered ==
    /\ \A i \in 1 .. Len(shows) : shows[i].age < DedupeWindow => lastSent[shows[i].key] <= shows[i].age
    /\ shows # << >> /\ Latest.age = 0 =>
         \A i \in 1 .. Len(shows) - 1 : shows[i].key = Latest.key => shows[i].age >= DedupeWindow

\* The sender is that of the last notification, and while the loop waits for
\* it both have the same age.
OneAtATime ==
    /\ \A i \in 1 .. Len(shows) - 1 :
         shows[i].state = "shown" \/ (shows[i].state = "late" /\ shows[i].age >= DisableCooldown)
    /\ shows = << >> => sender \in {"none", "answered"} /\ loop # "sending"
    /\ shows # << >> =>
         /\ Latest.state \in {"open", "hung"} <=> sender = "running"
         /\ Latest.state = "open" => loop = "sending"
         /\ loop = "sending" => /\ Latest.state \in {"open", "shown"} /\ sender # "none"
                                /\ Latest.age = waited /\ waited <= SendTimeout + 1
         /\ Latest.state \in {"hung", "late"} => disabled + Latest.age >= DisableCooldown

NotifierInvariant == NotifierTypes /\ WithinRate /\ Remembered /\ OneAtATime

\* A set of indices that can be moved into another one is no larger.
MovesInto(S, n, T) == n \in Int /\ S \in SUBSET Int /\ \A i \in S : i + n \in T
LEMMA MovedInto ==
  ASSUME NEW S, NEW n, NEW T, MovesInto(S, n, T), IsFiniteSet(T)
  PROVE  Cardinality(S) <= Cardinality(T)
<1> USE DEF MovesInto
<1> DEFINE f == [i \in S |-> i + n]
<1>1. f \in [S -> T]  OBVIOUS
<1>2. \A i, j \in S : f[i] = f[j] => i = j
  <2> SUFFICES ASSUME NEW i \in S, NEW j \in S, f[i] = f[j] PROVE i = j  OBVIOUS
  <2>1. i \in Int /\ j \in Int /\ i + n = j + n  OBVIOUS
  <2> QED  BY <2>1
<1> HIDE DEF f
<1>3. f \in Injection(S, T)  BY <1>1, <1>2 DEF Injection, IsInjective
<1> QED  BY <1>3, FS_Injection

LEMMA EachShown ==
  ASSUME NEW h \in Seq(Shows)
  PROVE  \A i \in 1 .. Len(h) : h[i] \in Shows /\ h[i].age \in Nat /\ h[i].key \in Keys
<1>1. \A i \in 1 .. Len(h) : h[i] \in Shows  BY ElementOfSeq
<1> QED  BY <1>1 DEF Shows

LEMMA CountedIsFinite ==
  ASSUME NEW h \in Seq(Shows), NEW w
  PROVE  IsFiniteSet(Counted(h, w)) /\ IsFiniteSet(Before(h, w))
<1>1. IsFiniteSet(1 .. Len(h))  BY FS_Interval
<1>2. Counted(h, w) \in SUBSET (1 .. Len(h)) /\ Before(h, w) \in SUBSET (1 .. Len(h))  BY DEF Counted, Before
<1> QED  BY <1>1, <1>2, FS_Subset

\* The history h is g without its first n entries, as far as the counts go:
\* what falls under the minute of w fell under that of v, and the same before.
Continues(g, v, h, w, n) ==
    /\ g \in Seq(Shows) /\ h \in Seq(Shows) /\ n \in Nat /\ Len(h) + n <= Len(g)
    /\ \A i \in 1 .. Len(h) : h[i].age < Minute =>
         /\ g[i + n].age < Minute
         /\ h[i].age <= w => g[i + n].age <= v
         /\ w < h[i].age => v < g[i + n].age
LEMMA CountsNoMore ==
  ASSUME NEW g, NEW h, NEW n, NEW v, NEW w, Continues(g, v, h, w, n)
  PROVE  Cardinality(Counted(h, w)) <= Cardinality(Counted(g, v)) /\ Cardinality(Before(h, w)) <= Cardinality(Before(g, v))
<1> USE DEF Continues
<1>1. Len(h) \in Nat /\ Len(g) \in Nat  OBVIOUS
<1>2. \A i \in 1 .. Len(h) : i + n \in 1 .. Len(g)  BY <1>1
<1>3. \A i \in Counted(h, w) : i + n \in Counted(g, v)  BY <1>2 DEF Counted
<1>4. \A i \in Before(h, w) : i + n \in Before(g, v)  BY <1>2 DEF Before
<1>5. Counted(h, w) \in SUBSET Int /\ Before(h, w) \in SUBSET Int  BY DEF Counted, Before
<1>6. Cardinality(Counted(h, w)) <= Cardinality(Counted(g, v))
  <2> DEFINE S == Counted(h, w)
  <2> DEFINE T == Counted(g, v)
  <2>1. IsFiniteSet(T) /\ MovesInto(S, n, T)  BY <1>3, <1>5, CountedIsFinite DEF MovesInto
  <2> HIDE DEF S, T
  <2>2. Cardinality(S) <= Cardinality(T)  BY <2>1, MovedInto
  <2> QED  BY <2>2 DEF S, T
<1>7. Cardinality(Before(h, w)) <= Cardinality(Before(g, v))
  <2> DEFINE S == Before(h, w)
  <2> DEFINE T == Before(g, v)
  <2>1. IsFiniteSet(T) /\ MovesInto(S, n, T)  BY <1>4, <1>5, CountedIsFinite DEF MovesInto
  <2> HIDE DEF S, T
  <2>2. Cardinality(S) <= Cardinality(T)  BY <2>1, MovedInto
  <2> QED  BY <2>2 DEF S, T
<1> QED  BY <1>6, <1>7

LEMMA NothingCounted ==
  \A w : Cardinality(Counted(<< >>, w)) = 0 /\ Cardinality(Before(<< >>, w)) = 0
<1>1. \A w : Counted(<< >>, w) = {} /\ Before(<< >>, w) = {}  BY DEF Counted, Before
<1> QED  BY <1>1, FS_EmptySet

LEMMA NotifierStarts ==
  ASSUME Desktop!NotifierInit
  PROVE  NotifierInvariant
<1> USE LocalAssumption DEF Desktop!NotifierInit, Desktop!Never
<1>1. NotifierTypes  BY DEF NotifierTypes
<1>2. WithinRate
  <2>1. Cardinality(Counted(shows, windowAge)) = 0 /\ Cardinality(Before(shows, windowAge)) = 0
    BY NothingCounted
  <2>2. 0 < Minute /\ Len(shows) = 0 /\ windowAge = 0 /\ sent = 0  OBVIOUS
  <2> QED  BY <2>1, <2>2 DEF WithinRate
<1>3. Remembered /\ OneAtATime  BY DEF Remembered, OneAtATime
<1> QED  BY <1>1, <1>2, <1>3 DEF NotifierInvariant

LEMMA ConfigureStarts ==
  ASSUME Desktop!Configure
  PROVE  NotifierInvariant'
<1> USE LocalAssumption DEF Desktop!Configure, Desktop!Never
<1>1. NotifierTypes'  BY DEF NotifierTypes
<1>2. WithinRate'
  <2>1. Cardinality(Counted(shows', windowAge')) = 0 /\ Cardinality(Before(shows', windowAge')) = 0
    BY NothingCounted
  <2>2. 0 < Minute /\ Len(shows') = 0 /\ windowAge' = 0 /\ sent' = 0  OBVIOUS
  <2> QED  BY <2>1, <2>2 DEF WithinRate
<1>3. Remembered' /\ OneAtATime'  BY DEF Remembered, OneAtATime
<1> QED  BY <1>1, <1>2, <1>3 DEF NotifierInvariant

\* An event is counted where it is taken, and a minute that has passed begins anew.
LEMMA TakeEventCounts ==
  ASSUME NotifierInvariant, Desktop!TakeEvent, NotifierTypes'
  PROVE  WithinRate'
<1> USE LocalAssumption
<1> DEFINE fresh == windowAge >= Minute
<1> DEFINE count == IF fresh THEN 0 ELSE sent
<1> DEFINE key == Head(queue)
<1> DEFINE dropped == count >= MaxPerMinute \/ lastSent[key] < DedupeWindow
<1> DEFINE starts == ~dropped /\ Desktop!Collected = "none" /\ disabled = 0
<1> DEFINE entry == [key |-> key, age |-> 0, state |-> "open"]
<1> DEFINE w == IF fresh THEN 0 ELSE windowAge
<1>1. /\ windowAge' = w /\ sent' = IF dropped THEN count ELSE count + 1
      /\ shows' = IF starts THEN Append(shows, entry) ELSE shows
  BY DEF Desktop!TakeEvent
<1>2. /\ shows \in Seq(Shows) /\ entry \in Shows /\ sent \in Nat /\ windowAge \in Nat /\ Len(shows) \in Nat
      /\ \A i \in 1 .. Len(shows) : shows[i].age \in Nat
  <2>1. key \in Keys  BY DEF Desktop!TakeEvent, NotifierInvariant, NotifierTypes
  <2> HIDE DEF key
  <2>2. shows \in Seq(Shows) /\ sent \in Nat /\ windowAge \in Nat  BY DEF NotifierInvariant, NotifierTypes
  <2>3. \A i \in 1 .. Len(shows) : shows[i].age \in Nat  BY <2>2, EachShown
  <2>4. entry \in Shows  BY <2>1 DEF Shows
  <2> QED  BY <2>2, <2>3, <2>4
<1>3. IsFiniteSet(Counted(shows, w)) /\ IsFiniteSet(Before(shows, w)) /\ IsFiniteSet(Counted(shows, windowAge))
  BY <1>2, CountedIsFinite
<1>4. Cardinality(Counted(shows, w)) <= count /\ Cardinality(Before(shows, w)) <= MaxPerMinute
  <2>1. CASE ~fresh  BY <2>1 DEF NotifierInvariant, WithinRate
  <2>2. CASE fresh
    <3>1. windowAge = Minute /\ \A i \in 1 .. Len(shows) : shows[i].age > 0
      BY <1>2, <2>2 DEF NotifierInvariant, WithinRate
    <3>2. Counted(shows, w) = {}  BY <1>2, <2>2, <3>1 DEF Counted
    <3>3. Before(shows, w) = Counted(shows, windowAge)  BY <1>2, <2>2, <3>1 DEF Counted, Before
    <3>4. Cardinality(Counted(shows, windowAge)) <= MaxPerMinute
      <4>1. Cardinality(Counted(shows, windowAge)) \in Nat  BY <1>3, FS_CardinalityType
      <4> QED  BY <1>2, <4>1 DEF NotifierInvariant, WithinRate
    <3> QED  BY <2>2, <3>2, <3>3, <3>4, FS_EmptySet
  <2> QED  BY <2>1, <2>2
<1>5. CASE ~starts
  <2>1. shows' = shows /\ sent' >= count /\ sent' <= MaxPerMinute
    <3>1. count \in Nat /\ count <= MaxPerMinute  BY <1>2 DEF NotifierInvariant, WithinRate
    <3> HIDE DEF count, starts
    <3> QED  BY <1>1, <1>5, <3>1
  <2>2. Cardinality(Counted(shows, w)) \in Nat  BY <1>3, FS_CardinalityType
  <2>3. w <= Minute /\ (w = Minute => FALSE)  BY <1>2 DEF NotifierInvariant, WithinRate
  <2>4. count \in Nat  BY <1>2
  <2>5. Cardinality(Counted(shows, w)) <= sent'
    <3> HIDE DEF count, w
    <3> QED  BY <1>4, <2>1, <2>2, <2>4 DEF NotifierTypes
  <2> HIDE DEF w
  <2> QED  BY <1>1, <1>4, <2>1, <2>3, <2>5 DEF WithinRate
<1>6. CASE starts
  <2>0. count \in Nat /\ count < MaxPerMinute /\ sent' = count + 1  BY <1>1, <1>2, <1>6 DEF NotifierInvariant, WithinRate
  <2> DEFINE h == Append(shows, entry)
  <2>1. /\ h \in Seq(Shows) /\ Len(h) = Len(shows) + 1
        /\ \A i \in 1 .. Len(shows) : h[i] = shows[i]
        /\ h[Len(shows) + 1] = entry
    BY <1>2, AppendProperties
  <2>2. shows' = h  BY <1>1, <1>6
  <2>3. w \in Nat /\ w < Minute  BY <1>2 DEF NotifierInvariant, WithinRate
  <2> HIDE DEF h, w
  <2>4. Counted(h, w) = Counted(shows, w) \cup {Len(shows) + 1}  BY <1>2, <2>1, <2>3 DEF Counted
  <2>5. Before(h, w) = Before(shows, w)  BY <1>2, <2>1, <2>3 DEF Before
  <2>6. Len(shows) + 1 \notin Counted(shows, w)  BY <1>2 DEF Counted
  <2>7. Cardinality(Counted(h, w)) = Cardinality(Counted(shows, w)) + 1  BY <1>3, <2>4, <2>6, FS_AddElement
  <2>8. Cardinality(Counted(shows, w)) \in Nat  BY <1>3, FS_CardinalityType
  <2>9. Cardinality(Counted(h, w)) <= sent'
    <3> HIDE DEF count
    <3> QED  BY <1>4, <2>0, <2>7, <2>8
  <2>10. sent' <= MaxPerMinute
    <3> HIDE DEF count
    <3> QED  BY <2>0
  <2>11. windowAge' = w  BY <1>1
  <2>12. /\ Cardinality(Counted(shows', windowAge')) <= sent'
         /\ Cardinality(Before(shows', windowAge')) <= MaxPerMinute
    BY <1>4, <2>2, <2>5, <2>9, <2>11
  <2>13. windowAge' <= Minute /\ windowAge' # Minute  BY <2>3, <2>11
  <2> QED  BY <2>10, <2>12, <2>13 DEF WithinRate
<1> QED  BY <1>5, <1>6

LEMMA TakeEventKept ==
  ASSUME NotifierInvariant, Desktop!TakeEvent
  PROVE  NotifierInvariant'
<1> USE LocalAssumption
<1> DEFINE key == Head(queue)
<1> DEFINE dropped == (IF windowAge >= Minute THEN 0 ELSE sent) >= MaxPerMinute \/ lastSent[key] < DedupeWindow
<1> DEFINE starts == ~dropped /\ Desktop!Collected = "none" /\ disabled = 0
<1> DEFINE entry == [key |-> key, age |-> 0, state |-> "open"]
<1>1. /\ loop = "waiting" /\ queue # << >> /\ queue' = Tail(queue)
      /\ sent' \in Nat /\ windowAge' \in Nat
      /\ lastSent' = IF dropped THEN lastSent ELSE [lastSent EXCEPT ![key] = 0]
      /\ sender' = IF starts THEN "running" ELSE IF dropped THEN sender ELSE Desktop!Collected
      /\ loop' = IF starts THEN "sending" ELSE loop
      /\ waited' = 0
      /\ shows' = IF starts THEN Append(shows, entry) ELSE shows
      /\ disabled' = disabled
  BY DEF Desktop!TakeEvent, NotifierInvariant, NotifierTypes
<1>2. key \in Keys /\ queue' \in Seq(Keys)  BY <1>1 DEF NotifierInvariant, NotifierTypes
<1>3. Desktop!Collected = IF sender = "answered" THEN "none" ELSE sender  BY DEF Desktop!Collected
<1>t. /\ shows \in Seq(Shows) /\ Len(shows) \in Nat /\ lastSent \in [Keys -> Nat] /\ disabled \in Nat
      /\ sender \in {"none", "running", "answered"}
  BY DEF NotifierInvariant, NotifierTypes
<1>4. entry \in Shows
  <2> HIDE DEF key
  <2> QED  BY <1>2 DEF Shows
<1>5. \A i \in 1 .. Len(shows) : shows[i] \in Shows /\ shows[i].age \in Nat /\ shows[i].key \in Keys  BY <1>t, EachShown
<1>6. dropped \in BOOLEAN /\ starts \in BOOLEAN  OBVIOUS
<1>7. starts => ~dropped /\ sender # "running" /\ disabled = 0  BY <1>3
<1>8. ~dropped => lastSent[key] >= DedupeWindow  BY <1>2, <1>t
<1> HIDE DEF dropped, starts, key
<1>9. NotifierTypes'
  <2>1. shows' \in Seq(Shows)  BY <1>1, <1>4, <1>6, <1>t, AppendProperties
  <2>2. lastSent' \in [Keys -> Nat]  BY <1>1, <1>2, <1>6, <1>t
  <2>3. sender' \in {"none", "running", "answered"} /\ loop' \in {"waiting", "sending", "ended"}
    BY <1>1, <1>3, <1>6, <1>t
  <2> QED  BY <1>1, <1>2, <1>t, <2>1, <2>2, <2>3 DEF NotifierTypes
<1>10. WithinRate'  BY <1>9, TakeEventCounts
<1>11. CASE ~starts
  <2>1. shows' = shows /\ loop' = loop /\ UNCHANGED disabled  BY <1>1, <1>11
  <2>2. sender' = sender \/ (sender = "answered" /\ sender' = "none")  BY <1>1, <1>3, <1>11, <1>t
  <2>3. \A k \in Keys : lastSent'[k] <= lastSent[k]  BY <1>1, <1>2, <1>6, <1>t
  <2>4. Remembered'
    <3>1. \A i \in 1 .. Len(shows) : shows[i].age < DedupeWindow => lastSent'[shows[i].key] <= shows[i].age
      BY <1>5, <1>9, <1>t, <2>3 DEF NotifierInvariant, Remembered, NotifierTypes
    <3> QED  BY <2>1, <3>1 DEF NotifierInvariant, Remembered, Latest
  <2>5. OneAtATime'  BY <1>1, <2>1, <2>2 DEF NotifierInvariant, OneAtATime, Latest
  <2> QED  BY <1>9, <1>10, <2>4, <2>5 DEF NotifierInvariant
<1>12. CASE starts
  <2> DEFINE h == Append(shows, entry)
  <2>1. /\ h \in Seq(Shows) /\ Len(h) = Len(shows) + 1 /\ h # << >>
        /\ \A i \in 1 .. Len(shows) : h[i] = shows[i]
        /\ h[Len(shows) + 1] = entry
    BY <1>t, <1>4, AppendProperties
  <2>2. /\ shows' = h /\ lastSent' = [lastSent EXCEPT ![key] = 0] /\ sender' = "running" /\ loop' = "sending" /\ waited' = 0
        /\ disabled = 0 /\ sender # "running"
    BY <1>1, <1>7, <1>12
  <2> HIDE DEF h
  <2>3. Remembered'
    <3>1. ASSUME NEW i \in 1 .. Len(h), h[i].age < DedupeWindow  PROVE lastSent'[h[i].key] <= h[i].age
      <4>1. CASE i = Len(shows) + 1  BY <1>2, <1>t, <2>1, <2>2, <4>1
      <4>2. CASE i \in 1 .. Len(shows)
        <5>1. h[i] = shows[i] /\ lastSent[h[i].key] <= h[i].age
          BY <2>1, <3>1, <4>2 DEF NotifierInvariant, Remembered
        <5> QED  BY <1>2, <1>5, <1>t, <2>2, <4>2, <5>1
      <4> QED  BY <1>t, <2>1, <4>1, <4>2
    <3>2. ASSUME NEW i \in 1 .. Len(shows), shows[i].key = key  PROVE shows[i].age >= DedupeWindow
      BY <1>5, <1>7, <1>8, <1>12, <1>t, <3>2 DEF NotifierInvariant, Remembered
    <3>3. entry.key = key  OBVIOUS
    <3>4. Len(h) - 1 = Len(shows)  BY <1>t, <2>1
    <3> HIDE DEF entry
    <3>5. \A i \in 1 .. Len(h) - 1 : h[i].key = h[Len(h)].key => h[i].age >= DedupeWindow
      BY <2>1, <3>2, <3>3, <3>4
    <3> QED  BY <2>1, <2>2, <3>1, <3>5 DEF Remembered, Latest
  <2>4. OneAtATime'
    <3>1. entry.state = "open" /\ entry.age = 0  OBVIOUS
    <3>2. ASSUME NEW i \in 1 .. Len(shows)
          PROVE  shows[i].state = "shown" \/ (shows[i].state = "late" /\ shows[i].age >= DisableCooldown)
      <4>1. CASE i = Len(shows)
        BY <1>5, <1>t, <2>2, <4>1 DEF NotifierInvariant, OneAtATime, Latest, Shows
      <4>2. CASE i \in 1 .. Len(shows) - 1
        BY <4>2 DEF NotifierInvariant, OneAtATime
      <4> QED  BY <1>t, <4>1, <4>2
    <3>3. Len(h) - 1 = Len(shows)  BY <1>t, <2>1
    <3>4. \A i \in 1 .. Len(h) - 1 : h[i].state = "shown" \/ (h[i].state = "late" /\ h[i].age >= DisableCooldown)
      BY <2>1, <3>2, <3>3
    <3> HIDE DEF entry
    <3> QED  BY <2>1, <2>2, <3>1, <3>4 DEF OneAtATime, Latest
  <2> QED  BY <1>9, <1>10, <2>3, <2>4 DEF NotifierInvariant
<1> QED  BY <1>6, <1>11, <1>12

\* The same notifications, in the same minute: the counts stay.
LEMMA SameCounts ==
  ASSUME NotifierInvariant, NotifierTypes', Len(shows') = Len(shows), UNCHANGED <<windowAge, sent>>,
         \A i \in 1 .. Len(shows) : shows'[i].age = shows[i].age
  PROVE  WithinRate'
<1>1. Counted(shows', windowAge') = Counted(shows, windowAge) /\ Before(shows', windowAge') = Before(shows, windowAge)
  BY DEF Counted, Before
<1>2. windowAge = Minute => \A i \in 1 .. Len(shows) : shows'[i].age > 0
  BY DEF NotifierInvariant, WithinRate
<1>3. /\ sent <= MaxPerMinute /\ windowAge <= Minute /\ Cardinality(Counted(shows, windowAge)) <= sent
      /\ Cardinality(Before(shows, windowAge)) <= MaxPerMinute
  BY DEF NotifierInvariant, WithinRate
<1> QED  BY <1>1, <1>2, <1>3 DEF WithinRate

LEMMA AnswerKept ==
  ASSUME NotifierInvariant, Desktop!Answer
  PROVE  NotifierInvariant'
<1> USE LocalAssumption
<1> DEFINE Judged(s) == CASE s = "open" -> "shown" [] s = "hung" -> "late" [] OTHER -> s
<1>1. /\ sender = "running" /\ sender' = "answered"
      /\ shows' = [i \in DOMAIN shows |-> [shows[i] EXCEPT !.state = Judged(shows[i].state)]]
      /\ UNCHANGED <<current, caller, queue, lastSent, windowAge, sent, disabled, loop, waited>>
  BY DEF Desktop!Answer
<1>2. shows \in Seq(Shows) /\ Len(shows) \in Nat /\ DOMAIN shows = 1 .. Len(shows)
  BY DEF NotifierInvariant, NotifierTypes
<1>3. ASSUME NEW i \in 1 .. Len(shows)
      PROVE  /\ shows'[i] \in Shows
             /\ shows'[i].age = shows[i].age /\ shows'[i].key = shows[i].key
             /\ shows'[i].state = Judged(shows[i].state)
  <2>1. shows[i] \in Shows  BY <1>2, EachShown
  <2>2. shows'[i] = [shows[i] EXCEPT !.state = Judged(shows[i].state)]  BY <1>1, <1>2
  <2>3. Judged(shows[i].state) \in {"open", "shown", "hung", "late"}  BY <2>1 DEF Shows
  <2> HIDE DEF Judged
  <2> QED  BY <2>1, <2>2, <2>3 DEF Shows
<1>4. DOMAIN shows' = 1 .. Len(shows)  BY <1>1, <1>2
<1>5. shows' \in Seq(Shows) /\ Len(shows') = Len(shows)
  <2>1. shows' = [i \in 1 .. Len(shows) |-> shows'[i]]  BY <1>1, <1>2
  <2> QED  BY <1>2, <1>3, <2>1
<1>6. NotifierTypes'  BY <1>1, <1>5 DEF NotifierInvariant, NotifierTypes
<1>7. WithinRate'  BY <1>1, <1>3, <1>5, <1>6, SameCounts
<1>e. (shows' = << >>) <=> (shows = << >>)  BY <1>2, <1>5
<1>8. Remembered'
  <2>1. \A i \in 1 .. Len(shows) : shows'[i].age < DedupeWindow => lastSent[shows'[i].key] <= shows'[i].age
    BY <1>3 DEF NotifierInvariant, Remembered
  <2>2. shows # << >> => Len(shows) \in 1 .. Len(shows)  BY <1>2
  <2>3. shows # << >> /\ shows'[Len(shows)].age = 0 =>
          \A i \in 1 .. Len(shows) - 1 : shows'[i].key = shows'[Len(shows)].key => shows'[i].age >= DedupeWindow
    BY <1>2, <1>3, <2>2 DEF NotifierInvariant, Remembered, Latest
  <2> QED  BY <1>1, <1>5, <1>e, <2>1, <2>3 DEF Remembered, Latest
<1>9. OneAtATime'
  <2>1. \A i \in 1 .. Len(shows) - 1 :
          shows'[i].state = "shown" \/ (shows'[i].state = "late" /\ shows'[i].age >= DisableCooldown)
    BY <1>2, <1>3 DEF NotifierInvariant, OneAtATime
  <2>2. shows # << >>  BY <1>1 DEF NotifierInvariant, OneAtATime
  <2>3. Len(shows) \in 1 .. Len(shows)  BY <1>2, <2>2
  <2>4. /\ Latest' = shows'[Len(shows)] /\ (Latest').age = Latest.age /\ (Latest').state = Judged(Latest.state)
    BY <1>3, <1>5, <2>3 DEF Latest
  <2>5. Latest.state \in {"open", "hung"} /\ (Latest.state = "open" => loop = "sending") /\ (loop = "sending" => Latest.state = "open" /\ Latest.age = waited /\ waited <= SendTimeout + 1)
        /\ (Latest.state = "hung" => disabled + Latest.age >= DisableCooldown)
    BY <1>1, <2>2 DEF NotifierInvariant, OneAtATime
  <2>6. (Latest.state = "open" /\ (Latest').state = "shown") \/ (Latest.state = "hung" /\ (Latest').state = "late")
    BY <2>4, <2>5
  <2> HIDE DEF Judged
  <2>7. shows' # << >> /\ sender' = "answered" /\ loop' = loop /\ waited' = waited /\ disabled' = disabled
    BY <1>1, <1>e, <2>2
  <2>8. CASE Latest.state = "open"
    BY <1>5, <2>1, <2>4, <2>5, <2>6, <2>7, <2>8 DEF OneAtATime
  <2>9. CASE Latest.state = "hung"
    BY <1>5, <2>1, <2>4, <2>5, <2>6, <2>7, <2>9 DEF OneAtATime
  <2> QED  BY <2>6, <2>8, <2>9
<1> QED  BY <1>6, <1>7, <1>8, <1>9 DEF NotifierInvariant

LEMMA SendTimesOutKept ==
  ASSUME NotifierInvariant, Desktop!SendTimesOut
  PROVE  NotifierInvariant'
<1> USE LocalAssumption
<1> DEFINE state == IF shows[Len(shows)].state = "open" THEN "hung" ELSE "late"
<1>1. /\ loop = "sending" /\ waited >= SendTimeout /\ loop' = "waiting" /\ disabled' = DisableCooldown - waited /\ waited' = 0
      /\ shows' = [shows EXCEPT ![Len(shows)].state = state]
      /\ UNCHANGED <<current, caller, queue, lastSent, windowAge, sent, sender>>
  BY DEF Desktop!SendTimesOut
<1>2. shows \in Seq(Shows) /\ Len(shows) \in Nat /\ DOMAIN shows = 1 .. Len(shows) /\ waited \in Nat
  BY DEF NotifierInvariant, NotifierTypes
<1>3. /\ shows # << >> /\ Latest.state \in {"open", "shown"} /\ Latest.age = waited /\ waited <= SendTimeout + 1
      /\ (Latest.state = "open" <=> sender = "running") /\ sender # "none"
  BY <1>1 DEF NotifierInvariant, OneAtATime
<1>4. Len(shows) \in 1 .. Len(shows) /\ Latest \in Shows  BY <1>2, <1>3, EachShown DEF Latest
<1>5. /\ shows' = [shows EXCEPT ![Len(shows)] = [Latest EXCEPT !.state = state]]
      /\ state \in {"hung", "late"} /\ (state = "hung" <=> sender = "running")
  BY <1>1, <1>3 DEF Latest
<1> HIDE DEF state
<1>6. [Latest EXCEPT !.state = state] \in Shows  BY <1>4, <1>5 DEF Shows
<1>7. shows' \in Seq(Shows) /\ Len(shows') = Len(shows)  BY <1>2, <1>4, <1>5, <1>6
<1>8. /\ \A i \in 1 .. Len(shows) : shows'[i].age = shows[i].age /\ shows'[i].key = shows[i].key
      /\ \A i \in 1 .. Len(shows) - 1 : shows'[i] = shows[i]
      /\ shows'[Len(shows)].state = state /\ shows'[Len(shows)].age = waited
  BY <1>2, <1>3, <1>4, <1>5 DEF Shows, Latest
<1>9. NotifierTypes'
  <2>1. disabled' \in Nat  BY <1>1, <1>2, <1>3
  <2> QED  BY <1>1, <1>7, <2>1 DEF NotifierInvariant, NotifierTypes
<1>10. WithinRate'  BY <1>1, <1>7, <1>8, <1>9, SameCounts
<1>e. shows' # << >>  BY <1>2, <1>3, <1>7
<1>11. Remembered'
  <2>1. \A i \in 1 .. Len(shows) : shows'[i].age < DedupeWindow => lastSent[shows'[i].key] <= shows'[i].age
    BY <1>8 DEF NotifierInvariant, Remembered
  <2>2. shows'[Len(shows)].age # 0  BY <1>1, <1>2, <1>8
  <2> QED  BY <1>1, <1>7, <2>1, <2>2 DEF Remembered, Latest
<1>12. OneAtATime'
  <2>1. \A i \in 1 .. Len(shows) - 1 :
          shows'[i].state = "shown" \/ (shows'[i].state = "late" /\ shows'[i].age >= DisableCooldown)
    BY <1>2, <1>8 DEF NotifierInvariant, OneAtATime
  <2>2. Latest' = shows'[Len(shows)]  BY <1>7 DEF Latest
  <2> QED  BY <1>1, <1>2, <1>3, <1>5, <1>7, <1>8, <1>e, <2>1, <2>2 DEF OneAtATime
<1> QED  BY <1>9, <1>10, <1>11, <1>12 DEF NotifierInvariant

LEMMA QuietKept ==
  ASSUME NotifierInvariant,
         \/ Desktop!Stop \/ Desktop!Shutdown \/ Desktop!Enqueue \/ Desktop!SendEnds \/ Desktop!Cleanup \/ Desktop!End
         \/ \E k \in Keys : Desktop!Get(k)
  PROVE  NotifierInvariant'
<1> USE LocalAssumption
<1>1. UNCHANGED <<shows, windowAge, sent, disabled>>
  BY DEF Desktop!Stop, Desktop!Shutdown, Desktop!Enqueue, Desktop!SendEnds, Desktop!Cleanup, Desktop!End, Desktop!Get
<1>2. CASE Desktop!Stop \/ Desktop!Shutdown \/ \E k \in Keys : Desktop!Get(k)
  BY <1>2 DEF Desktop!Stop, Desktop!Shutdown, Desktop!Get, NotifierInvariant, NotifierTypes, WithinRate, Remembered, OneAtATime, Latest
<1>3. CASE Desktop!Enqueue
  <2>1. queue' \in Seq(Keys)  BY <1>3, AppendProperties DEF Desktop!Enqueue, NotifierInvariant, NotifierTypes
  <2> QED  BY <1>3, <2>1 DEF Desktop!Enqueue, NotifierInvariant, NotifierTypes, WithinRate, Remembered, OneAtATime, Latest
<1>4. CASE Desktop!SendEnds
  <2>1. NotifierTypes' /\ WithinRate' /\ Remembered'
    BY <1>4 DEF Desktop!SendEnds, NotifierInvariant, NotifierTypes, WithinRate, Remembered, Latest
  <2>2. OneAtATime'
    BY <1>4 DEF Desktop!SendEnds, NotifierInvariant, OneAtATime, Latest
  <2> QED  BY <2>1, <2>2 DEF NotifierInvariant
<1>5. CASE Desktop!End
  BY <1>5 DEF Desktop!End, NotifierInvariant, NotifierTypes, WithinRate, Remembered, OneAtATime, Latest
<1>6. CASE Desktop!Cleanup
  <2>1. /\ lastSent' \in [Keys -> Nat]
        /\ \A k \in Keys : lastSent[k] < DedupeWindow => lastSent'[k] = lastSent[k]
    BY <1>6 DEF Desktop!Cleanup, Desktop!Forgotten, Desktop!Never, NotifierInvariant, NotifierTypes
  <2>2. NotifierTypes' /\ WithinRate' /\ OneAtATime'
    BY <1>6, <2>1 DEF Desktop!Cleanup, Desktop!Collected, NotifierInvariant, NotifierTypes, WithinRate, OneAtATime, Latest
  <2>3. \A i \in 1 .. Len(shows) : shows[i].age < DedupeWindow => lastSent'[shows[i].key] <= shows[i].age
    <3> SUFFICES ASSUME NEW i \in 1 .. Len(shows), shows[i].age < DedupeWindow
                 PROVE  lastSent'[shows[i].key] <= shows[i].age
      OBVIOUS
    <3>1. /\ shows[i].key \in Keys /\ shows[i].age \in Nat /\ lastSent[shows[i].key] \in Nat
          /\ lastSent[shows[i].key] <= shows[i].age
      BY EachShown DEF NotifierInvariant, NotifierTypes, Remembered
    <3> QED  BY <2>1, <3>1
  <2>4. Remembered'  BY <1>1, <2>3 DEF NotifierInvariant, Remembered, Latest
  <2> QED  BY <2>2, <2>4 DEF NotifierInvariant
<1> QED  BY <1>2, <1>3, <1>4, <1>5, <1>6

LEMMA SecondKept ==
  ASSUME NotifierInvariant, Desktop!Second
  PROVE  NotifierInvariant'
<1> USE LocalAssumption
<1> DEFINE Old(age) == IF age < DisableCooldown THEN age + 1 ELSE age
<1>1. PICK n \in 0 .. Len(shows) :
        /\ \A i \in 1 .. n : Desktop!Settled(Desktop!Aged[i])
        /\ shows' = SubSeq(Desktop!Aged, n + 1, Len(shows))
  BY DEF Desktop!Second
<1>2. /\ loop # "ended" /\ waited <= SendTimeout
      /\ lastSent' = [k \in Keys |-> Desktop!Older(lastSent[k], Desktop!Never)]
      /\ windowAge' = Desktop!Older(windowAge, Minute)
      /\ disabled' = IF disabled > 0 THEN disabled - 1 ELSE 0
      /\ waited' = IF loop = "sending" THEN waited + 1 ELSE waited
      /\ UNCHANGED <<current, caller, queue, sent, sender, loop>>
  BY DEF Desktop!Second
<1>3. /\ shows \in Seq(Shows) /\ Len(shows) \in Nat /\ DOMAIN shows = 1 .. Len(shows) /\ waited \in Nat
      /\ windowAge \in Nat /\ disabled \in Nat /\ lastSent \in [Keys -> Nat] /\ n \in Nat /\ n <= Len(shows) /\ sent \in Nat
  BY DEF NotifierInvariant, NotifierTypes
<1>w. windowAge \in Nat  BY <1>3
<1>n. n \in Nat /\ Len(shows) \in Nat /\ n <= Len(shows)  BY <1>3
<1>4. ASSUME NEW i \in 1 .. Len(shows)
      PROVE  /\ Desktop!Aged[i] \in Shows
             /\ Desktop!Aged[i].key = shows[i].key /\ Desktop!Aged[i].state = shows[i].state
             /\ Desktop!Aged[i].age = Old(shows[i].age)
  <2>1. shows[i] \in Shows /\ shows[i].age \in Nat  BY <1>3, EachShown
  <2>2. Desktop!Aged[i] = [shows[i] EXCEPT !.age = Old(shows[i].age)]  BY <1>3 DEF Desktop!Aged, Desktop!Older
  <2>3. Old(shows[i].age) \in Nat  BY <2>1
  <2> HIDE DEF Old
  <2> QED  BY <2>1, <2>2, <2>3 DEF Shows
<1> DEFINE h == SubSeq(Desktop!Aged, n + 1, Len(shows))
<1>5. /\ h \in Seq(Shows) /\ Len(h) = Len(shows) - n
      /\ \A i \in 1 .. Len(h) : i + n \in 1 .. Len(shows) /\ h[i] = Desktop!Aged[i + n]
  <2>1. n + 1 \in Int /\ Len(shows) \in Int  BY <1>3
  <2>2. \A i \in (n + 1) .. Len(shows) : Desktop!Aged[i] \in Shows  BY <1>3, <1>4
  <2>3. /\ h \in Seq(Shows)
        /\ Len(h) = IF n + 1 <= Len(shows) THEN Len(shows) - (n + 1) + 1 ELSE 0
        /\ \A i \in 1 .. Len(shows) - (n + 1) + 1 : h[i] = Desktop!Aged[(n + 1) + i - 1]
    BY <2>1, <2>2, SubSeqProperties
  <2> HIDE DEF h
  <2>4. Len(h) = Len(shows) - n
    <3>1. CASE n + 1 <= Len(shows)  BY <1>3, <2>3, <3>1
    <3>2. CASE n = Len(shows)  BY <1>3, <2>3, <3>2
    <3> QED  BY <1>n, <3>1, <3>2
  <2>5. \A i \in 1 .. Len(h) : (n + 1) + i - 1 = i + n /\ i + n \in 1 .. Len(shows)  BY <1>3, <2>4
  <2>6. Len(shows) - (n + 1) + 1 = Len(h)  BY <1>3, <2>4
  <2> QED  BY <2>3, <2>4, <2>5, <2>6
<1>6. shows' = h  BY <1>1
<1> HIDE DEF h, Old
<1>7. ASSUME NEW i \in 1 .. Len(h)
      PROVE  /\ i + n \in 1 .. Len(shows) /\ shows[i + n].age \in Nat /\ h[i].age = Old(shows[i + n].age)
             /\ h[i].key = shows[i + n].key /\ h[i].key \in Keys /\ h[i].state = shows[i + n].state
  BY <1>3, <1>4, <1>5, EachShown
<1>8. NotifierTypes'
  <2>1. lastSent' \in [Keys -> Nat]  BY <1>2, <1>3 DEF Desktop!Older, Desktop!Never
  <2>2. windowAge' \in Nat /\ disabled' \in Nat /\ waited' \in Nat  BY <1>2, <1>3 DEF Desktop!Older
  <2> QED  BY <1>2, <1>5, <1>6, <2>1, <2>2 DEF NotifierInvariant, NotifierTypes
<1>9. WithinRate'
  <2>1. Continues(shows, windowAge, h, windowAge', n)
    <3>1. ASSUME NEW i \in 1 .. Len(h), h[i].age < Minute
          PROVE  /\ shows[i + n].age < Minute
                 /\ h[i].age <= windowAge' => shows[i + n].age <= windowAge
                 /\ windowAge' < h[i].age => windowAge < shows[i + n].age
      <4> DEFINE a == shows[i + n].age
      <4>1. a \in Nat /\ h[i].age = Old(a)  BY <1>7
      <4>2. windowAge <= Minute /\ windowAge' = IF windowAge < Minute THEN windowAge + 1 ELSE windowAge
        BY <1>2 DEF Desktop!Older, NotifierInvariant, WithinRate
      <4> HIDE DEF a
      <4>3. a < DisableCooldown /\ h[i].age = a + 1  BY <3>1, <4>1 DEF Old
      <4>4. a < Minute /\ (h[i].age <= windowAge' => a <= windowAge) /\ (windowAge' < h[i].age => windowAge < a)
        BY <1>w, <3>1, <4>1, <4>2, <4>3
      <4> QED  BY <4>4 DEF a
    <3> QED  BY <1>3, <1>5, <3>1 DEF Continues
  <2>2. Cardinality(Counted(h, windowAge')) <= Cardinality(Counted(shows, windowAge))
        /\ Cardinality(Before(h, windowAge')) <= Cardinality(Before(shows, windowAge))
    BY <2>1, CountsNoMore
  <2>3. /\ Cardinality(Counted(h, windowAge')) \in Nat /\ Cardinality(Counted(shows, windowAge)) \in Nat
        /\ Cardinality(Before(h, windowAge')) \in Nat /\ Cardinality(Before(shows, windowAge)) \in Nat
    BY <1>3, <1>5, CountedIsFinite, FS_CardinalityType
  <2>4. Cardinality(Counted(h, windowAge')) <= sent' /\ Cardinality(Before(h, windowAge')) <= MaxPerMinute /\ sent' <= MaxPerMinute
    BY <1>2, <1>3, <2>2, <2>3 DEF NotifierInvariant, WithinRate
  <2>5. windowAge' <= Minute  BY <1>2, <1>3 DEF Desktop!Older, NotifierInvariant, WithinRate
  <2>6. \A i \in 1 .. Len(h) : h[i].age > 0  BY <1>7 DEF Old
  <2> QED  BY <1>6, <2>4, <2>5, <2>6 DEF WithinRate
<1>10. Remembered'
  <2>1. ASSUME NEW i \in 1 .. Len(h), h[i].age < DedupeWindow
        PROVE  lastSent'[h[i].key] <= h[i].age
    <3>1. h[i].age = shows[i + n].age + 1 /\ shows[i + n].age < DedupeWindow  BY <1>7, <2>1 DEF Old
    <3>2. lastSent[h[i].key] <= shows[i + n].age  BY <1>7, <3>1 DEF NotifierInvariant, Remembered
    <3>3. lastSent[h[i].key] \in Nat /\ lastSent'[h[i].key] <= lastSent[h[i].key] + 1
      BY <1>2, <1>3, <1>7 DEF Desktop!Older, Desktop!Never
    <3>4. lastSent'[h[i].key] \in Nat  BY <1>7, <1>8 DEF NotifierTypes
    <3> DEFINE x == lastSent[h[i].key]
    <3> DEFINE y == lastSent'[h[i].key]
    <3> DEFINE z == shows[i + n].age
    <3>5. x \in Nat /\ y \in Nat /\ z \in Nat /\ x <= z /\ y <= x + 1  BY <1>7, <3>2, <3>3, <3>4
    <3> HIDE DEF x, y, z
    <3>6. y <= z + 1  BY <3>5
    <3>7. h[i].age = z + 1  BY <3>1 DEF z
    <3> QED  BY <3>6, <3>7 DEF y
  <2>2. shows' # << >> => (Latest').age # 0
    <3>1. h # << >> => Len(h) \in 1 .. Len(h)  BY <1>5
    <3> QED  BY <1>6, <1>7, <3>1 DEF Latest, Old
  <2> QED  BY <1>6, <2>1, <2>2 DEF Remembered
<1>11. OneAtATime'
  <2>1. \A i \in 1 .. Len(h) - 1 : h[i].state = "shown" \/ (h[i].state = "late" /\ h[i].age >= DisableCooldown)
    <3> SUFFICES ASSUME NEW i \in 1 .. Len(h) - 1
                 PROVE  h[i].state = "shown" \/ (h[i].state = "late" /\ h[i].age >= DisableCooldown)
      OBVIOUS
    <3>1. i \in 1 .. Len(h) /\ i + n \in 1 .. Len(shows) - 1  BY <1>3, <1>5
    <3>2. shows[i + n].state = "shown" \/ (shows[i + n].state = "late" /\ shows[i + n].age >= DisableCooldown)
      BY <3>1 DEF NotifierInvariant, OneAtATime
    <3> QED  BY <1>7, <3>1, <3>2 DEF Old
  <2>2. CASE shows = << >>
    <3>1. h = << >>  BY <1>3, <1>5, <2>2
    <3> QED  BY <1>2, <1>6, <2>2, <3>1 DEF NotifierInvariant, OneAtATime
  <2>3. CASE shows # << >> /\ h = << >>
    <3>0. Len(h) = 0 /\ Len(shows) # 0  BY <1>3, <2>3
    <3>1. n = Len(shows) /\ Len(shows) \in 1 .. n  BY <1>n, <1>5, <3>0
    <3>2. Desktop!Settled(Desktop!Aged[Len(shows)])  BY <1>1, <3>1
    <3>3. /\ Old(Latest.age) >= DisableCooldown /\ Latest.state \in {"shown", "late"} /\ Latest.age \in Nat
      BY <1>3, <1>4, <3>1, <3>2, EachShown DEF Desktop!Settled, Latest
    <3>4. loop # "sending" /\ sender # "running"
      BY <1>2, <1>3, <2>3, <3>3 DEF NotifierInvariant, OneAtATime, Old
    <3> QED  BY <1>2, <1>6, <1>8, <2>1, <2>3, <3>4 DEF OneAtATime, NotifierTypes
  <2>4. CASE shows # << >> /\ h # << >>
    <3>1. Len(h) \in 1 .. Len(h) /\ Len(h) + n = Len(shows)  BY <1>3, <1>5, <2>4
    <3>2. /\ Latest' = h[Len(h)] /\ Latest.age \in Nat /\ (Latest').age = Old(Latest.age) /\ (Latest').state = Latest.state
      BY <1>6, <1>7, <3>1 DEF Latest
    <3>3. loop = "sending" => (Latest').age = waited' /\ waited' <= SendTimeout + 1
      BY <1>2, <1>3, <2>4, <3>2 DEF NotifierInvariant, OneAtATime, Old
    <3>4. Latest.state \in {"hung", "late"} => disabled' + (Latest').age >= DisableCooldown
      BY <1>2, <1>3, <2>4, <3>2 DEF NotifierInvariant, OneAtATime, Old
    <3> QED  BY <1>2, <1>6, <2>1, <2>4, <3>2, <3>3, <3>4 DEF NotifierInvariant, OneAtATime
  <2> QED  BY <2>2, <2>3, <2>4
<1> QED  BY <1>8, <1>9, <1>10, <1>11 DEF NotifierInvariant

LEMMA NotifierKept ==
  ASSUME NotifierInvariant, Desktop!NotifierNext
  PROVE  NotifierInvariant'
  BY TakeEventKept, AnswerKept, SendTimesOutKept, QuietKept, SecondKept, ConfigureStarts DEF Desktop!NotifierNext

LEMMA NotifierSafe ==
  ASSUME NotifierInvariant
  PROVE  Desktop!Paced
<1> USE LocalAssumption DEF NotifierInvariant
<1> DEFINE recent == {i \in DOMAIN shows : shows[i].age < Minute}
<1>1. shows \in Seq(Shows) /\ Len(shows) \in Nat /\ DOMAIN shows = 1 .. Len(shows) /\ windowAge \in Nat /\ sent \in Nat
  BY DEF NotifierTypes
<1>2. recent = Counted(shows, windowAge) \cup Before(shows, windowAge)
  BY <1>1, EachShown DEF Counted, Before
<1>3. Cardinality(recent) <= 2 * MaxPerMinute
  <2> DEFINE C == Counted(shows, windowAge)
  <2> DEFINE B == Before(shows, windowAge)
  <2>1. C \cap B = {}  BY <1>1, EachShown DEF Counted, Before
  <2>2. IsFiniteSet(C) /\ IsFiniteSet(B)  BY <1>1, CountedIsFinite
  <2>3. Cardinality(C) <= sent /\ sent <= MaxPerMinute /\ Cardinality(B) <= MaxPerMinute  BY DEF WithinRate
  <2> HIDE DEF B, C, recent
  <2>4. Cardinality(C \cup B) = Cardinality(C) + Cardinality(B) - Cardinality({})  BY <2>1, <2>2, FS_Union
  <2>5. Cardinality(C) \in Nat /\ Cardinality(B) \in Nat /\ Cardinality({}) = 0  BY <2>2, FS_CardinalityType, FS_EmptySet
  <2>6. recent = C \cup B  BY <1>2 DEF B, C
  <2> QED  BY <1>1, <2>3, <2>4, <2>5, <2>6
<1>4. ASSUME shows # << >>, Latest.age = 0, NEW i \in DOMAIN shows \ {Len(shows)}
      PROVE  /\ shows[i].key = Latest.key => shows[i].age >= DedupeWindow
             /\ shows[i].state = "shown" \/ (shows[i].state = "late" /\ shows[i].age >= DisableCooldown)
  <2>1. i \in 1 .. Len(shows) - 1  BY <1>1
  <2> QED  BY <1>4, <2>1 DEF Remembered, OneAtATime
<1> HIDE DEF NotifierInvariant
<1>5. Desktop!Cardinality(recent) <= 2 * MaxPerMinute  BY <1>3, DesktopCardinality
<1> QED  BY <1>4, <1>5 DEF Desktop!Paced, Latest

(***************************************************************************)
(* Lookups that requests share                                             *)
(***************************************************************************)

LEMMA NetworkCardinality == \A S : Network!Cardinality(S) = Cardinality(S)
  BY DEF Network!Cardinality, Cardinality

Places == {"idle", "looking", "asking", "waiting", "told", "returned"}
Contexts == {"live", "cancelled", "timed out"}
Tellings == {None, "answer", "failure", "look again"} \cup Contexts
LookupRecords == [at : Places, name : Hosts \cup {None}, context : Contexts, told : Tellings]
Entries == [result : {"answer", "failure"}, life : Nat]

LookupTypes ==
    /\ kind \in {"dns", "catalog"}
    /\ known \in [DOMAIN known -> Entries]
    /\ pending \in [Hosts -> Requests \cup {None}]
    /\ request \in [Requests -> LookupRecords]
    /\ \A r \in Requests : request[r].at # "idle" => request[r].name \in Hosts

\* A name is pending for the one request that asks for it, as long as it does.
OneAsks ==
    /\ \A r \in Requests : request[r].at = "asking" => pending[request[r].name] = r
    /\ \A n \in Hosts : pending[n] # None => request[pending[n]].at = "asking" /\ request[pending[n]].name = n
    /\ \A r \in Requests : request[r].at = "waiting" => pending[request[r].name] # None

\* What the resolver tells: to those that waited never how another context ended.
ToldRightly ==
    kind = "dns" => \A r \in Requests :
        /\ request[r].at = "told" => request[r].told \in {"answer", "failure", "look again"}
        /\ request[r].at = "returned" /\ request[r].context = "live" => request[r].told \in {"answer", "failure"}

KeepsToItsSize ==
    /\ IsFiniteSet(DOMAIN known)
    /\ kind = "dns" => Cardinality(DOMAIN known) <= Capacity

LookupInvariant == LookupTypes /\ OneAsks /\ ToldRightly /\ KeepsToItsSize

\* Storing an entry keeps the cache what it is: one entry goes if it was full.
LEMMA StoredKeeps ==
  ASSUME LookupTypes, KeepsToItsSize, NEW n \in Hosts, NEW e \in Entries, Network!Stored(n, e)
  PROVE  /\ known' \in [DOMAIN known' -> Entries]
         /\ IsFiniteSet(DOMAIN known')
         /\ Cardinality(DOMAIN known) <= Capacity => Cardinality(DOMAIN known') <= Capacity
<1>1. PICK gone \in Network!Evicted(n) :
        known' = [m \in (DOMAIN known \ gone) \cup {n} |-> IF m = n THEN e ELSE known[m]]
  BY DEF Network!Stored
<1> DEFINE D == DOMAIN known
<1>2. IsFiniteSet(D)  BY DEF KeepsToItsSize
<1>3. gone \in SUBSET D  BY DEF Network!Evicted
<1>4. DOMAIN known' = (D \ gone) \cup {n}  BY <1>1
<1>5. known' \in [(D \ gone) \cup {n} -> Entries]
  <2>1. \A m \in D : known[m] \in Entries  BY DEF LookupTypes
  <2> HIDE DEF D
  <2> QED  BY <1>1, <2>1 DEF D
<1>6. IsFiniteSet(D \ gone) /\ IsFiniteSet((D \ gone) \cup {n})
  BY <1>2, FS_Subset, FS_AddElement
<1>7. Capacity \in Nat /\ Cardinality(D) \in Nat /\ Cardinality(D \ gone) \in Nat
  BY <1>2, <1>6, LocalAssumption, FS_CardinalityType
<1>8. ASSUME Cardinality(D) <= Capacity  PROVE Cardinality((D \ gone) \cup {n}) <= Capacity
  <2>1. CASE n \in D
    <3>1. gone = {}  BY <2>1 DEF Network!Evicted
    <3>2. (D \ gone) \cup {n} = D  BY <2>1, <3>1
    <3> QED  BY <1>8, <3>2
  <2>2. CASE n \notin D /\ Cardinality(D) < Capacity
    <3>1. gone = {}  BY <2>2, NetworkCardinality DEF Network!Evicted
    <3>2. (D \ gone) \cup {n} = D \cup {n}  BY <3>1
    <3>3. Cardinality(D \cup {n}) = Cardinality(D) + 1  BY <1>2, <2>2, FS_AddElement
    <3> QED  BY <1>7, <2>2, <3>2, <3>3
  <2>3. CASE n \notin D /\ ~(Cardinality(D) < Capacity)
    <3>1. PICK m \in D : gone = {m}  BY <2>3, NetworkCardinality DEF Network!Evicted
    <3>2. Cardinality(D \ {m}) = Cardinality(D) - 1 /\ IsFiniteSet(D \ {m})  BY <1>2, FS_RemoveElement
    <3>3. Cardinality((D \ {m}) \cup {n}) = Cardinality(D)
      <4>1. n \notin D \ {m}  BY <2>3
      <4>2. Cardinality((D \ {m}) \cup {n}) = Cardinality(D \ {m}) + 1  BY <3>2, <4>1, FS_AddElement
      <4> QED  BY <1>7, <3>2, <4>2
    <3> QED  BY <1>8, <3>1, <3>3
  <2> QED  BY <2>1, <2>2, <2>3
<1> QED  BY <1>4, <1>5, <1>6, <1>8

\* A failure that is remembered, or is not because the answer is still good.
LEMMA StoredFailureKeeps ==
  ASSUME LookupTypes, KeepsToItsSize, NEW n \in Hosts, Network!StoredFailure(n)
  PROVE  /\ known' \in [DOMAIN known' -> Entries]
         /\ IsFiniteSet(DOMAIN known')
         /\ Cardinality(DOMAIN known) <= Capacity => Cardinality(DOMAIN known') <= Capacity
<1>1. CASE UNCHANGED known  BY <1>1 DEF LookupTypes, KeepsToItsSize
<1>2. CASE Network!Stored(n, [result |-> "failure", life |-> Backoff])
  <2>1. [result |-> "failure", life |-> Backoff] \in Entries  BY LocalAssumption DEF Entries
  <2> QED  BY <1>2, <2>1, StoredKeeps
<1> QED  BY <1>1, <1>2 DEF Network!StoredFailure

LEMMA LookupStarts ==
  ASSUME Network!LookupInit
  PROVE  LookupInvariant
<1> USE DEF Network!LookupInit
<1>1. known \in [DOMAIN known -> Entries] /\ DOMAIN known = {}  OBVIOUS
<1>2. LookupTypes  BY <1>1 DEF LookupTypes, LookupRecords, Places, Contexts, Tellings
<1>3. OneAsks  BY DEF OneAsks
<1>4. ToldRightly  BY DEF ToldRightly
<1>5. KeepsToItsSize  BY <1>1, FS_EmptySet, LocalAssumption DEF KeepsToItsSize
<1> QED  BY <1>2, <1>3, <1>4, <1>5 DEF LookupInvariant

\* A request that is told something returns with that.
LEMMA ReturnsWith ==
  ASSUME LookupTypes, NEW r \in Requests, NEW outcome \in Tellings, request' = Network!Returns(r, outcome)
  PROVE  /\ request' \in [Requests -> LookupRecords]
         /\ \A q \in Requests : q # r => request'[q] = request[q]
         /\ request'[r].at = "returned" /\ request'[r].name = request[r].name
         /\ request'[r].context = request[r].context /\ request'[r].told = outcome
<1>1. request' = [request EXCEPT ![r].at = "returned", ![r].told = outcome]  BY DEF Network!Returns
<1>2. request \in [Requests -> LookupRecords] /\ request[r] \in LookupRecords  BY DEF LookupTypes
<1> DEFINE one == [request EXCEPT ![r].at = "returned"]
<1>3. one \in [Requests -> LookupRecords]  BY <1>2 DEF LookupRecords, Places
<1>4. request' = [one EXCEPT ![r].told = outcome]  BY <1>1
<1>5. /\ one[r].at = "returned" /\ one[r].name = request[r].name /\ one[r].context = request[r].context
      /\ \A q \in Requests : q # r => one[q] = request[q]
  BY <1>2 DEF LookupRecords
<1> HIDE DEF one
<1>6. request' \in [Requests -> LookupRecords]  BY <1>3, <1>4 DEF LookupRecords
<1>7. request'[r] = [one[r] EXCEPT !.told = outcome] /\ \A q \in Requests : q # r => request'[q] = one[q]
  BY <1>3, <1>4
<1>8. one[r] \in LookupRecords  BY <1>3
<1>9. request'[r].at = one[r].at /\ request'[r].name = one[r].name /\ request'[r].context = one[r].context /\ request'[r].told = outcome
  BY <1>7, <1>8 DEF LookupRecords
<1> QED  BY <1>5, <1>6, <1>7, <1>9

\* Where one request goes on by itself and the cache stays, the rest follows
\* from where it was and where it is.
LEMMA OneMoves ==
  ASSUME LookupInvariant, NEW r \in Requests, UNCHANGED <<kind, pending>>,
         known' = known \/ (known' \in [DOMAIN known' -> Entries] /\ KeepsToItsSize'),
         request' \in [Requests -> LookupRecords],
         \A q \in Requests : q # r => request'[q] = request[q],
         request[r].at # "asking", request'[r].at # "asking",
         request'[r].at # "idle" => request'[r].name \in Hosts,
         request'[r].at = "waiting" => pending[request'[r].name] # None,
         kind = "dns" /\ request'[r].at = "told" => request'[r].told \in {"answer", "failure", "look again"},
         kind = "dns" /\ request'[r].at = "returned" /\ request'[r].context = "live" => request'[r].told \in {"answer", "failure"}
  PROVE  LookupInvariant'
<1> USE DEF LookupInvariant
<1>1. LookupTypes'  BY DEF LookupTypes
<1>2. OneAsks'
  <2>1. \A q \in Requests : request'[q].at = "asking" => q # r /\ request[q] = request'[q]  OBVIOUS
  <2>2. ASSUME NEW n \in Hosts, pending[n] # None  PROVE pending[n] \in Requests /\ pending[n] # r
    <3>1. pending[n] \in Requests  BY <2>2 DEF LookupTypes
    <3>2. request[pending[n]].at = "asking"  BY <2>2 DEF OneAsks
    <3> QED  BY <3>1, <3>2
  <2>3. \A q \in Requests : request'[q].at = "waiting" => q = r \/ request[q] = request'[q]  OBVIOUS
  <2>4. \A q \in Requests : request'[q].at = "asking" => pending'[request'[q].name] = q  BY <2>1 DEF OneAsks
  <2>5. \A n \in Hosts : pending'[n] # None => request'[pending'[n]].at = "asking" /\ request'[pending'[n]].name = n
    BY <2>2 DEF OneAsks
  <2>6. \A q \in Requests : request'[q].at = "waiting" => pending'[request'[q].name] # None  BY <2>3 DEF OneAsks
  <2> QED  BY <2>4, <2>5, <2>6 DEF OneAsks
<1>3. ToldRightly'  BY DEF ToldRightly
<1>4. KeepsToItsSize'  BY DEF KeepsToItsSize
<1> QED  BY <1>1, <1>2, <1>3, <1>4

LEMMA LookupKept ==
  ASSUME LookupInvariant, Network!LookupNext
  PROVE  LookupInvariant'
<1> USE DEF LookupInvariant
<1>1. ASSUME NEW r \in Requests, NEW name \in Hosts, Network!Begin(r, name)  PROVE LookupInvariant'
  <2> USE <1>1, LocalAssumption DEF Network!Begin
  <2>1. LookupTypes'  BY DEF LookupTypes, LookupRecords, Places, Contexts, Tellings
  <2>2. OneAsks'  BY DEF OneAsks, LookupTypes
  <2>3. ToldRightly'  BY DEF ToldRightly, LookupTypes
  <2>4. KeepsToItsSize'  BY DEF KeepsToItsSize
  <2> QED  BY <2>1, <2>2, <2>3, <2>4
<1>2. ASSUME NEW r \in Requests, Network!Interrupt(r)  PROVE LookupInvariant'
  <2>1. PICK end \in {"cancelled", "timed out"} : request' = [request EXCEPT ![r].context = end]
    BY <1>2 DEF Network!Interrupt
  <2>2. UNCHANGED <<kind, known, pending>> /\ request[r].at \in {"looking", "asking", "waiting", "told"}  BY <1>2 DEF Network!Interrupt
  <2>3. /\ request' \in [Requests -> LookupRecords]
        /\ \A q \in Requests : /\ request'[q].at = request[q].at /\ request'[q].name = request[q].name /\ request'[q].told = request[q].told
                               /\ q # r => request'[q].context = request[q].context
    BY <2>1 DEF LookupTypes, LookupRecords, Contexts
  <2>4. LookupTypes'  BY <2>2, <2>3 DEF LookupTypes
  <2>5. OneAsks'
    <3>1. \A n \in Hosts : pending[n] # None => pending[n] \in Requests  BY DEF LookupTypes
    <3>2. ASSUME NEW q \in Requests, request'[q].at = "asking"  PROVE pending'[request'[q].name] = q
      <4>1. request[q].at = "asking" /\ request'[q].name = request[q].name  BY <2>3, <3>2
      <4>2. pending[request[q].name] = q  BY <4>1 DEF OneAsks
      <4> QED  BY <2>2, <4>1, <4>2
    <3>3. \A n \in Hosts : pending'[n] # None => request'[pending'[n]].at = "asking" /\ request'[pending'[n]].name = n
      BY <2>2, <2>3, <3>1 DEF OneAsks
    <3>4. \A q \in Requests : request'[q].at = "waiting" => pending'[request'[q].name] # None  BY <2>2, <2>3 DEF OneAsks
    <3> QED  BY <3>2, <3>3, <3>4 DEF OneAsks
  <2>6. ToldRightly'  BY <2>2, <2>3 DEF ToldRightly
  <2>7. KeepsToItsSize'  BY <2>2 DEF KeepsToItsSize
  <2> QED  BY <2>4, <2>5, <2>6, <2>7
<1>3. ASSUME NEW r \in Requests, Network!Look(r)  PROVE LookupInvariant'
  <2> DEFINE name == request[r].name
  <2>0. /\ request \in [Requests -> LookupRecords] /\ request[r] \in LookupRecords /\ request[r].at = "looking"
        /\ name \in Hosts /\ request[r].context \in Contexts /\ UNCHANGED kind
        /\ request[r].context # "live" \/ Network!Live(r)
    BY <1>3 DEF Network!Look, LookupTypes, LookupRecords, Network!Live
  <2>1. CASE kind = "dns" /\ ~Network!Live(r) /\ request' = Network!Returns(r, request[r].context) /\ UNCHANGED <<known, pending>>
    <3>1. request[r].context # "live" /\ request[r].context \in Tellings  BY <2>0, <2>1 DEF Network!Live, Tellings
    <3> QED  BY <2>0, <2>1, <3>1, ReturnsWith, OneMoves
  <2>2. CASE Network!Fresh(name) /\ request' = Network!Returns(r, known[name].result) /\ UNCHANGED <<known, pending>>
    <3>1. known[name].result \in {"answer", "failure"} /\ known[name].result \in Tellings
      BY <2>2 DEF Network!Fresh, LookupTypes, Entries, Tellings
    <3> QED  BY <2>0, <2>2, <3>1, ReturnsWith, OneMoves
  <2>3. CASE pending[name] # None /\ request' = [request EXCEPT ![r].at = "waiting"] /\ UNCHANGED <<known, pending>>
    <3>1. /\ request' \in [Requests -> LookupRecords] /\ \A q \in Requests : q # r => request'[q] = request[q]
          /\ request'[r].at = "waiting" /\ request'[r].name = name
      BY <2>0, <2>3 DEF LookupRecords, Places
    <3> QED  BY <2>0, <2>3, <3>1, OneMoves
  <2>4. CASE /\ pending[name] = None /\ pending' = [pending EXCEPT ![name] = r] /\ request' = [request EXCEPT ![r].at = "asking"]
             /\ known' = IF kind = "catalog" THEN [n \in DOMAIN known \ {n \in DOMAIN known : ~Network!Fresh(n)} |-> known[n]] ELSE known
    <3>1. /\ request' \in [Requests -> LookupRecords] /\ \A q \in Requests : q # r => request'[q] = request[q]
          /\ request'[r].at = "asking" /\ request'[r].name = name
      BY <2>0, <2>4 DEF LookupRecords, Places
    <3>2. \E hosts \in SUBSET DOMAIN known : known' = [n \in hosts |-> known[n]]
      BY <2>4 DEF LookupTypes
    <3>3. PICK hosts \in SUBSET DOMAIN known : known' = [n \in hosts |-> known[n]]  BY <3>2
    <3>4. known' \in [DOMAIN known' -> Entries] /\ IsFiniteSet(DOMAIN known') /\ DOMAIN known' \in SUBSET DOMAIN known
      BY <3>3, FS_Subset DEF LookupTypes, KeepsToItsSize
    <3>5. pending' \in [Hosts -> Requests \cup {None}]  BY <2>0, <2>4 DEF LookupTypes
    <3>6. LookupTypes'  BY <2>0, <3>1, <3>4, <3>5 DEF LookupTypes
    <3>7. OneAsks'  BY <2>0, <2>4, <3>1, LocalAssumption DEF OneAsks, LookupTypes
    <3>8. ToldRightly'  BY <2>0, <3>1 DEF ToldRightly
    <3>9. KeepsToItsSize'
      <4>1. kind = "dns" => known' = known  BY <2>4
      <4> QED  BY <2>0, <3>4, <4>1 DEF KeepsToItsSize
    <3> QED  BY <3>6, <3>7, <3>8, <3>9
  <2> QED  BY <1>3, <2>1, <2>2, <2>3, <2>4 DEF Network!Look
<1>4. ASSUME NEW r \in Requests, Network!Answer(r)  PROVE LookupInvariant'
  <2> DEFINE name == request[r].name
  <2>0. /\ request \in [Requests -> LookupRecords] /\ request[r] \in LookupRecords /\ request[r].at = "asking"
        /\ name \in Hosts /\ request[r].context \in Contexts /\ UNCHANGED kind
        /\ pending' = [pending EXCEPT ![name] = None] /\ pending[name] = r
        /\ pending \in [Hosts -> Requests \cup {None}]
    BY <1>4 DEF Network!Answer, LookupTypes, LookupRecords, OneAsks
  <2>1. PICK outcome \in {"answer", IF Network!Live(r) THEN "failure" ELSE request[r].context} :
            /\ request' = [q \in Requests |->
                 IF q = r THEN [request[q] EXCEPT !.at = "returned", !.told = outcome]
                 ELSE IF request[q].at = "waiting" /\ request[q].name = name
                 THEN [request[q] EXCEPT !.at = "told", !.told = Network!ToldWaiters(r, outcome)]
                 ELSE request[q]]
            /\ CASE outcome = "answer" -> \E life \in 0 .. LongestLife :
                        /\ kind = "catalog" => life = LongestLife
                        /\ Network!Stored(name, [result |-> outcome, life |-> life])
                 [] kind = "dns" /\ outcome = "failure" -> Network!StoredFailure(name)
                 [] OTHER -> UNCHANGED known
    BY <1>4 DEF Network!Answer
  <2>2. outcome \in Tellings /\ Network!ToldWaiters(r, outcome) \in Tellings
    BY <2>0, <2>1 DEF Network!ToldWaiters, Tellings
  <2>3. kind = "dns" => Network!ToldWaiters(r, outcome) \in {"answer", "failure", "look again"}
    BY <2>0, <2>1 DEF Network!ToldWaiters, Network!Live
  <2>4. request[r].context = "live" => outcome \in {"answer", "failure"}  BY <2>0, <2>1 DEF Network!Live
  <2>5. known' = known \/ (known' \in [DOMAIN known' -> Entries] /\ KeepsToItsSize')
    <3>1. CASE outcome = "answer"
      <4>1. PICK life \in 0 .. LongestLife : Network!Stored(name, [result |-> outcome, life |-> life])  BY <2>1, <3>1
      <4>2. [result |-> outcome, life |-> life] \in Entries  BY <3>1, LocalAssumption DEF Entries
      <4> QED  BY <2>0, <4>1, <4>2, StoredKeeps DEF KeepsToItsSize
    <3>2. CASE outcome # "answer" /\ Network!StoredFailure(name)
      BY <2>0, <3>2, StoredFailureKeeps DEF KeepsToItsSize
    <3>3. CASE UNCHANGED known  BY <3>3
    <3> QED  BY <2>1, <3>1, <3>2, <3>3
  <2> DEFINE waits(q) == request[q].at = "waiting" /\ request[q].name = name
  <2>6. ASSUME NEW q \in Requests
        PROVE  /\ request'[q] \in LookupRecords
               /\ request'[q].name = request[q].name /\ request'[q].context = request[q].context
               /\ request'[q].at = IF q = r THEN "returned" ELSE IF waits(q) THEN "told" ELSE request[q].at
               /\ request'[q].told = IF q = r THEN outcome ELSE IF waits(q) THEN Network!ToldWaiters(r, outcome) ELSE request[q].told
    <3>1. request[q] \in LookupRecords  BY <2>0
    <3>2. CASE q = r
      <4>1. request'[q] = [request[q] EXCEPT !.at = "returned", !.told = outcome]  BY <2>1, <3>2
      <4> QED  BY <2>2, <3>1, <3>2, <4>1 DEF LookupRecords, Places
    <3>3. CASE q # r /\ waits(q)
      <4>1. request'[q] = [request[q] EXCEPT !.at = "told", !.told = Network!ToldWaiters(r, outcome)]  BY <2>1, <3>3
      <4> QED  BY <2>2, <3>1, <3>3, <4>1 DEF LookupRecords, Places
    <3>4. CASE q # r /\ ~waits(q)
      <4>1. request'[q] = request[q]  BY <2>1, <3>4
      <4> QED  BY <3>1, <3>4, <4>1
    <3> QED  BY <3>2, <3>3, <3>4
  <2>7. request' \in [Requests -> LookupRecords]  BY <2>1, <2>6
  <2>8. LookupTypes'
    <3>1. \A q \in Requests : request'[q].at # "idle" => request'[q].name \in Hosts  BY <2>0, <2>6 DEF LookupTypes
    <3>2. pending' \in [Hosts -> Requests \cup {None}]  BY <2>0
    <3> QED  BY <2>0, <2>5, <2>7, <3>1, <3>2 DEF LookupTypes
  <2>9. OneAsks'
    <3>1. \A n \in Hosts : pending'[n] = IF n = name THEN None ELSE pending[n]  BY <2>0
    <3>2. ASSUME NEW q \in Requests, request'[q].at = "asking"  PROVE pending'[request'[q].name] = q
      <4>1. q # r /\ request[q].at = "asking"  BY <2>6, <3>2
      <4>2. request[q].name \in Hosts /\ pending[request[q].name] = q  BY <4>1 DEF LookupTypes, OneAsks
      <4> QED  BY <2>0, <2>6, <3>1, <4>1, <4>2
    <3>3. ASSUME NEW n \in Hosts, pending'[n] # None  PROVE request'[pending'[n]].at = "asking" /\ request'[pending'[n]].name = n
      <4>1. n # name /\ pending'[n] = pending[n] /\ pending[n] \in Requests  BY <2>0, <3>1, <3>3
      <4>2. request[pending[n]].at = "asking" /\ request[pending[n]].name = n  BY <3>3, <4>1 DEF OneAsks
      <4> QED  BY <2>6, <4>1, <4>2
    <3>4. ASSUME NEW q \in Requests, request'[q].at = "waiting"  PROVE pending'[request'[q].name] # None
      <4>1. q # r /\ request[q].at = "waiting" /\ request[q].name # name  BY <2>6, <3>4
      <4>2. request[q].name \in Hosts /\ pending[request[q].name] # None  BY <4>1 DEF LookupTypes, OneAsks
      <4> QED  BY <2>6, <3>1, <4>1, <4>2
    <3> QED  BY <3>2, <3>3, <3>4 DEF OneAsks
  <2>10. ToldRightly'
    <3> SUFFICES ASSUME kind = "dns", NEW q \in Requests
                 PROVE  /\ request'[q].at = "told" => request'[q].told \in {"answer", "failure", "look again"}
                        /\ request'[q].at = "returned" /\ request'[q].context = "live" => request'[q].told \in {"answer", "failure"}
      BY <2>0 DEF ToldRightly
    <3> QED  BY <2>3, <2>4, <2>6 DEF ToldRightly
  <2>11. KeepsToItsSize'  BY <2>0, <2>5 DEF KeepsToItsSize
  <2> QED  BY <2>8, <2>9, <2>10, <2>11
<1>5. ASSUME NEW r \in Requests, Network!Wake(r)  PROVE LookupInvariant'
  <2>0. /\ request \in [Requests -> LookupRecords] /\ request[r] \in LookupRecords /\ request[r].at \in {"waiting", "told"}
        /\ request[r].name \in Hosts /\ request[r].context \in Contexts /\ request[r].told \in Tellings
        /\ UNCHANGED <<kind, known, pending>>
    BY <1>5 DEF Network!Wake, LookupTypes, LookupRecords
  <2>1. CASE ~Network!Live(r) /\ request' = Network!Returns(r, request[r].context)
    <3>1. request[r].context # "live" /\ request[r].context \in Tellings  BY <2>0, <2>1 DEF Network!Live, Tellings
    <3> QED  BY <2>0, <2>1, <3>1, ReturnsWith, OneMoves
  <2>2. CASE request' = [request EXCEPT ![r].at = "looking"]
    <3>1. /\ request' \in [Requests -> LookupRecords] /\ \A q \in Requests : q # r => request'[q] = request[q]
          /\ request'[r].at = "looking" /\ request'[r].name = request[r].name
      BY <2>0, <2>2 DEF LookupRecords, Places
    <3> QED  BY <2>0, <2>2, <3>1, OneMoves
  <2>3. CASE request[r].at = "told" /\ request[r].told # "look again" /\ request' = Network!Returns(r, request[r].told)
    <3>1. kind = "dns" => request[r].told \in {"answer", "failure"}  BY <2>3 DEF ToldRightly
    <3> QED  BY <2>0, <2>3, <3>1, ReturnsWith, OneMoves
  <2> QED  BY <1>5, <2>1, <2>2, <2>3 DEF Network!Wake
<1>6. ASSUME NEW r \in Requests, Network!Leave(r)  PROVE LookupInvariant'
  <2>0. /\ request \in [Requests -> LookupRecords] /\ request[r].at = "returned" /\ request[r].name \in Hosts
        /\ UNCHANGED <<kind, pending>>
        /\ request' = [request EXCEPT ![r] = [at |-> "idle", name |-> None, context |-> "live", told |-> None]]
        /\ Network!StoredFailure(request[r].name) \/ UNCHANGED known
    BY <1>6 DEF Network!Leave, LookupTypes
  <2>1. known' = known \/ (known' \in [DOMAIN known' -> Entries] /\ KeepsToItsSize')
    BY <2>0, StoredFailureKeeps DEF KeepsToItsSize
  <2>2. /\ request' \in [Requests -> LookupRecords] /\ \A q \in Requests : q # r => request'[q] = request[q]
        /\ request'[r].at = "idle"
    BY <2>0 DEF LookupRecords, Places, Contexts, Tellings
  <2> QED  BY <2>0, <2>1, <2>2, OneMoves
<1>7. CASE Network!Tick
  <2> DEFINE older(n) == [known[n] EXCEPT !.life = Network!Max({0, known[n].life - 1})]
  <2>1. known' = [n \in DOMAIN known |-> older(n)] /\ UNCHANGED <<kind, pending, request>>
    BY <1>7 DEF Network!Tick
  <2>2. ASSUME NEW n \in DOMAIN known  PROVE older(n) \in Entries
    <3>1. known[n] \in Entries  BY DEF LookupTypes
    <3>2. known[n].life \in Nat  BY <3>1 DEF Entries
    <3>3. ASSUME NEW life \in Nat  PROVE Network!Max({0, life - 1}) \in Nat
      <4>1. \E m \in {0, life - 1} : \A o \in {0, life - 1} : m >= o  BY SMT
      <4>2. Network!Max({0, life - 1}) \in {0, life - 1} /\ \A o \in {0, life - 1} : Network!Max({0, life - 1}) >= o
        BY <4>1, Zenon DEF Network!Max
      <4> QED  BY <4>2
    <3>4. Network!Max({0, known[n].life - 1}) \in Nat  BY <3>2, <3>3
    <3> QED  BY <3>1, <3>4 DEF Entries
  <2> HIDE DEF older
  <2>3. known' \in [DOMAIN known' -> Entries] /\ DOMAIN known' = DOMAIN known  BY <2>1, <2>2
  <2>4. LookupTypes'  BY <2>1, <2>3 DEF LookupTypes
  <2>5. OneAsks'  BY <2>1 DEF OneAsks
  <2>6. ToldRightly'  BY <2>1 DEF ToldRightly
  <2>7. KeepsToItsSize'  BY <2>1, <2>3 DEF KeepsToItsSize
  <2> QED  BY <2>4, <2>5, <2>6, <2>7
<1> QED  BY <1>1, <1>2, <1>3, <1>4, <1>5, <1>6, <1>7 DEF Network!LookupNext

LEMMA LookupSafe ==
  ASSUME LookupInvariant
  PROVE  Network!OwnOutcome
<1> USE DEF LookupInvariant
<1>1. ASSUME kind = "dns", NEW r \in Requests, request[r].at = "returned", Network!Live(r)
      PROVE  request[r].told \in {"answer", "failure"}
  BY <1>1 DEF ToldRightly, Network!Live
<1>2. ASSUME NEW n \in Hosts
      PROVE  LET asking == {r \in Requests : request[r].at = "asking" /\ request[r].name = n}
                 waiting == {r \in Requests : request[r].at = "waiting" /\ request[r].name = n}
             IN  asking = {pending[n]} \ {None} /\ (waiting # {} => asking # {})
  <2> DEFINE asking == {r \in Requests : request[r].at = "asking" /\ request[r].name = n}
  <2>1. pending[n] \in Requests \cup {None}  BY DEF LookupTypes
  <2>2. asking = {pending[n]} \ {None}  BY <2>1, LocalAssumption DEF OneAsks
  <2>3. ASSUME NEW r \in Requests, request[r].at = "waiting", request[r].name = n  PROVE asking # {}
    BY <2>1, <2>2, <2>3 DEF OneAsks
  <2> QED  BY <2>2, <2>3
<1>3. kind = "dns" => Network!Cardinality(DOMAIN known) <= Capacity  BY NetworkCardinality DEF KeepsToItsSize
<1> QED  BY <1>1, <1>2, <1>3 DEF Network!OwnOutcome

(***************************************************************************)
(* One connection                                                          *)
(***************************************************************************)

\* The two of FiniteSets that the scenes use are the ones of its theorems.
LEMMA RaceCardinality == \A S : Race!Cardinality(S) = Cardinality(S)
  BY DEF Race!Cardinality, Cardinality

SeriesStates == {"none", "next", "dialing", "offering", "ended"}
SeriesRecords == [at : SeriesStates, tried : Nat, conn : BOOLEAN]
DialerRecords ==
    [at : {"racing", "returned"}, pending : Int, timer : BOOLEAN,
     outcome : {"none", "primary", "fallback", "cancelled", "failed"}]

\* The series that are under way, and how many they are.
UnderWay(f) == series[f].at \in {"next", "dialing", "offering"}
Count(f) == IF UnderWay(f) THEN 1 ELSE 0

RaceTypes ==
    /\ addresses \in [Race!Families -> Nat] /\ addresses["primary"] > 0
    /\ series \in [Race!Families -> SeriesRecords]
    /\ dialer \in DialerRecords
    /\ context \in {"live", "over"}
    /\ open \in SUBSET Race!Families
    /\ \A f \in Race!Families : series[f].tried <= addresses[f]

\* A connection is open from when its series made it until somebody closes it:
\* one whose series has ended is the one that was returned.
OpenIsHeld ==
    /\ \A f \in open : series[f].conn /\ series[f].at \in {"offering", "ended"}
    /\ \A f \in Race!Families :
         /\ series[f].conn => series[f].at \in {"offering", "ended"}
         /\ series[f].at = "offering" /\ series[f].conn => f \in open
         /\ series[f].at = "ended" /\ f \in open => dialer.outcome = f
         /\ dialer.outcome = f => f \in open /\ series[f].at = "ended"

\* The second series stands ready as long as the timer does.
SecondSeries ==
    /\ addresses["fallback"] = 0 => series["fallback"].at = "none" /\ ~dialer.timer
    /\ dialer.timer => series["fallback"].at = "none"
    /\ series["fallback"].at = "none" => series["fallback"].tried = 0
    /\ series["fallback"].at = "none" /\ dialer.at = "racing" /\ addresses["fallback"] > 0 => dialer.timer
    /\ series["primary"].at # "none"

\* The caller counts the series under way, one at least; a series that ends
\* without a connection, as one that failed, has tried every address.  A single
\* series keeps to this even if the context is over.
WaitsForSeries ==
    /\ dialer.at = "racing" <=> dialer.outcome = "none"
    /\ dialer.at = "racing" => dialer.pending >= Count("primary") + Count("fallback") /\ dialer.pending >= 1
    /\ dialer.at = "racing" /\ (context = "live" \/ addresses["fallback"] = 0) =>
         dialer.pending = Count("primary") + Count("fallback")
    /\ \A f \in Race!Families : dialer.at = "racing" /\ context = "live" =>
         /\ series[f].at = "offering" /\ ~series[f].conn => series[f].tried = addresses[f]
         /\ series[f].at = "ended" => ~series[f].conn /\ series[f].tried = addresses[f]
    /\ dialer.outcome = "failed" => \A f \in Race!Families : ~UnderWay(f) /\ series[f].tried = addresses[f]

RaceInvariant == RaceTypes /\ OpenIsHeld /\ SecondSeries /\ WaitsForSeries

LEMMA SeriesCount ==
  Cardinality({f \in Race!Families : series[f].at \in {"next", "dialing", "offering"}}) = Count("primary") + Count("fallback")
<1> DEFINE W == {f \in Race!Families : series[f].at \in {"next", "dialing", "offering"}}
<1>1. /\ "primary" \in W <=> UnderWay("primary")
      /\ "fallback" \in W <=> UnderWay("fallback")
      /\ \A f \in W : f = "primary" \/ f = "fallback"
  BY DEF UnderWay, Race!Families
<1> HIDE DEF W
<1> USE DEF Count
<1>2. CASE UnderWay("primary") /\ UnderWay("fallback")
  <2>1. W = {"primary"} \cup {"fallback"}  BY <1>1, <1>2
  <2>2. IsFiniteSet({"primary"}) /\ Cardinality({"primary"}) = 1  BY FS_Singleton
  <2>3. "fallback" \notin {"primary"}  OBVIOUS
  <2>4. Cardinality(W) = 2  BY <2>1, <2>2, <2>3, FS_AddElement
  <2> QED  BY <1>2, <2>4 DEF W
<1>3. CASE UnderWay("primary") /\ ~UnderWay("fallback")
  <2>1. W = {"primary"}  BY <1>1, <1>3
  <2>2. Cardinality(W) = 1  BY <2>1, FS_Singleton
  <2> QED  BY <1>3, <2>2 DEF W
<1>4. CASE ~UnderWay("primary") /\ UnderWay("fallback")
  <2>1. W = {"fallback"}  BY <1>1, <1>4
  <2>2. Cardinality(W) = 1  BY <2>1, FS_Singleton
  <2> QED  BY <1>4, <2>2 DEF W
<1>5. CASE ~UnderWay("primary") /\ ~UnderWay("fallback")
  <2>1. W = {}  BY <1>1, <1>5
  <2>2. Cardinality(W) = 0  BY <2>1, FS_EmptySet
  <2> QED  BY <1>5, <2>2 DEF W
<1> QED  BY <1>2, <1>3, <1>4, <1>5

LEMMA RaceStarts ==
  ASSUME Race!RaceInit
  PROVE  RaceInvariant
<1> USE DEF Race!RaceInit, Race!Families
<1>1. addresses["primary"] \in Nat /\ addresses["fallback"] \in Nat /\ addresses["primary"] > 0
  BY LocalAssumption
<1>2. RaceTypes  BY <1>1, LocalAssumption DEF RaceTypes, SeriesRecords, SeriesStates, DialerRecords
<1>3. OpenIsHeld  BY DEF OpenIsHeld
<1>4. SecondSeries
  <2>1. dialer.timer = (addresses["fallback"] > 0)  OBVIOUS
  <2>2. /\ series["primary"].at = "next"
        /\ series["fallback"].at = "none" /\ series["fallback"].tried = 0
    OBVIOUS
  <2>3. dialer.timer <=> addresses["fallback"] > 0  BY <2>1
  <2> QED  BY <1>1, <2>2, <2>3 DEF SecondSeries
<1>5. WaitsForSeries  BY DEF WaitsForSeries, Count, UnderWay
<1> QED  BY <1>2, <1>3, <1>4, <1>5 DEF RaceInvariant

\* What the steps make of a record is again one.
LEMMA DialerSteps ==
  ASSUME NEW d \in DialerRecords, NEW n \in Int, NEW outcome \in {"none", "primary", "fallback", "cancelled", "failed"}
  PROVE  /\ [d EXCEPT !.pending = n, !.timer = FALSE] \in DialerRecords
         /\ [d EXCEPT !.timer = FALSE, !.pending = n] \in DialerRecords
         /\ [d EXCEPT !.at = "returned", !.outcome = outcome] \in DialerRecords
  BY DEF DialerRecords
LEMMA SeriesSteps ==
  ASSUME NEW s \in SeriesRecords, NEW m \in Nat
  PROVE  /\ [s EXCEPT !.at = "dialing", !.tried = m] \in SeriesRecords
         /\ [s EXCEPT !.at = "offering"] \in SeriesRecords
  BY DEF SeriesRecords, SeriesStates

LEMMA RaceKept ==
  ASSUME RaceInvariant, Race!RaceNext
  PROVE  RaceInvariant'
<1> USE DEF RaceInvariant, UnderWay, Count, Race!Families, Race!RaceOver
<1>0. /\ addresses["primary"] \in Nat /\ addresses["fallback"] \in Nat
      /\ series["primary"] \in SeriesRecords /\ series["fallback"] \in SeriesRecords
      /\ dialer \in DialerRecords
  BY DEF RaceTypes
<1>1. CASE Race!ContextEnds
  BY <1>0, <1>1 DEF Race!ContextEnds, RaceTypes, OpenIsHeld, SecondSeries, WaitsForSeries
<1>2. CASE Race!TimerFires
  <2> USE <1>0, <1>2 DEF Race!TimerFires, Race!Started
  <2>1. series["fallback"].at = "none" /\ series'["fallback"] = [series["fallback"] EXCEPT !.at = "next"] /\ series'["primary"] = series["primary"]
    BY DEF SecondSeries, RaceTypes
  <2>2. RaceTypes'
    <3>1. series' \in [Race!Families -> SeriesRecords]  BY <2>1 DEF RaceTypes, SeriesRecords, SeriesStates
    <3>2. dialer.pending + 1 \in Int  BY DEF DialerRecords
    <3>3. dialer' \in DialerRecords  BY <3>2, DialerSteps
    <3> QED  BY <3>1, <3>3 DEF RaceTypes
  <2> USE DEF SeriesRecords, SeriesStates, DialerRecords
  <2>3. OpenIsHeld'  BY <2>1 DEF OpenIsHeld, WaitsForSeries
  <2>4. SecondSeries'  BY <2>1 DEF SecondSeries
  <2>5. WaitsForSeries'  BY <2>1 DEF WaitsForSeries, SecondSeries
  <2> QED  BY <2>2, <2>3, <2>4, <2>5
<1>3. CASE Race!CallerLeaves
  BY <1>0, <1>3 DEF Race!CallerLeaves, RaceTypes, OpenIsHeld, SecondSeries, WaitsForSeries, DialerRecords
<1>4. ASSUME NEW f \in Race!Families, Race!Next(f)  PROVE RaceInvariant'
  <2> USE <1>0, <1>4 DEF Race!Next
  <2>2. RaceTypes'
    <3>1. series[f] \in SeriesRecords  OBVIOUS
    <3>2. series[f].tried + 1 \in Nat  BY <3>1 DEF SeriesRecords
    <3>3. /\ [series[f] EXCEPT !.at = "offering"] \in SeriesRecords
          /\ [series[f] EXCEPT !.at = "dialing", !.tried = @ + 1] \in SeriesRecords
      BY <3>1, <3>2, SeriesSteps
    <3> DEFINE done == Race!RaceOver \/ series[f].tried = addresses[f]
    <3> DEFINE s == IF done THEN [series[f] EXCEPT !.at = "offering"] ELSE [series[f] EXCEPT !.at = "dialing", !.tried = @ + 1]
    <3>a. s \in SeriesRecords  BY <3>3
    <3>b. series' = [series EXCEPT ![f] = s]  BY Zenon
    <3>4. series' = [series EXCEPT ![f] = s] /\ s \in SeriesRecords  BY <3>a, <3>b
    <3>5. series[f].tried <= addresses[f] => s.tried <= addresses[f]
      BY <3>1 DEF SeriesRecords
    <3> HIDE DEF s
    <3>6. series' \in [Race!Families -> SeriesRecords]  BY <3>4 DEF RaceTypes
    <3>7. \A g \in Race!Families : series'[g].tried <= addresses[g]  BY <3>4, <3>5 DEF RaceTypes
    <3> QED  BY <3>6, <3>7 DEF RaceTypes
  <2> USE DEF SeriesRecords, SeriesStates, DialerRecords
  <2>3. OpenIsHeld'  BY DEF OpenIsHeld, RaceTypes
  <2>4. SecondSeries'  BY DEF SecondSeries, RaceTypes
  <2>5. WaitsForSeries'  BY DEF WaitsForSeries, RaceTypes
  <2> QED  BY <2>2, <2>3, <2>4, <2>5
<1>5. ASSUME NEW f \in Race!Families, Race!Dialed(f)  PROVE RaceInvariant'
  <2> USE <1>0, <1>5 DEF Race!Dialed, SeriesRecords, SeriesStates, DialerRecords
  <2>2. RaceTypes'  BY DEF RaceTypes
  <2>3. OpenIsHeld'  BY DEF OpenIsHeld, RaceTypes
  <2>4. SecondSeries'  BY DEF SecondSeries, RaceTypes
  <2>5. WaitsForSeries'  BY DEF WaitsForSeries, RaceTypes
  <2> QED  BY <2>2, <2>3, <2>4, <2>5
<1>6. ASSUME NEW f \in Race!Families, Race!GivenUp(f)  PROVE RaceInvariant'
  <2> USE <1>0, <1>6 DEF Race!GivenUp, SeriesRecords, SeriesStates, DialerRecords
  <2>2. RaceTypes'  BY DEF RaceTypes
  <2>3. OpenIsHeld'  BY DEF OpenIsHeld, RaceTypes
  <2>4. SecondSeries'  BY DEF SecondSeries, RaceTypes
  <2>5. WaitsForSeries'  BY DEF WaitsForSeries, RaceTypes
  <2> QED  BY <2>2, <2>3, <2>4, <2>5
<1>7. ASSUME NEW f \in Race!Families, Race!Taken(f)  PROVE RaceInvariant'
  <2> USE <1>0, <1>7
  <2> DEFINE starts == ~series[f].conn /\ dialer.timer
  <2> DEFINE waitsFor == IF starts THEN (dialer.pending - 1) + 1 ELSE dialer.pending - 1
  <2> DEFINE over == context = "over" /\ (addresses["fallback"] > 0 \/ series[f].tried < addresses[f])
  <2> DEFINE outcome == IF series[f].conn THEN f ELSE IF over THEN "cancelled" ELSE "failed"
  <2>1. series' = [Race!Started(starts) EXCEPT ![f].at = "ended"]  BY DEF Race!Taken
  <2>2. Race!Started(starts) = [series EXCEPT !["fallback"].at = IF starts THEN "next" ELSE @]  BY DEF Race!Started
  <2>3. /\ dialer.at = "racing" /\ series[f].at = "offering"
        /\ dialer' = IF series[f].conn \/ waitsFor = 0 THEN [dialer EXCEPT !.at = "returned", !.outcome = outcome]
                     ELSE [dialer EXCEPT !.pending = waitsFor, !.timer = FALSE]
        /\ UNCHANGED <<addresses, context, open>>
    BY DEF Race!Taken
  <2>4. waitsFor \in Int /\ outcome \in {"none", "primary", "fallback", "cancelled", "failed"}  BY DEF DialerRecords
  <2>5. dialer' \in DialerRecords
    <3> HIDE DEF waitsFor, outcome
    <3> QED  BY <2>3, <2>4, DialerSteps
  <2>6. starts \in BOOLEAN  BY DEF SeriesRecords
  <2>7. Race!Started(starts) \in [Race!Families -> SeriesRecords]
    <3> HIDE DEF starts
    <3> QED  BY <2>2, <2>6 DEF RaceTypes, SeriesRecords, SeriesStates
  <2>8. series' \in [Race!Families -> SeriesRecords]  BY <2>1, <2>7 DEF SeriesRecords, SeriesStates
  <2>9. /\ series'[f] = [series[f] EXCEPT !.at = "ended"]
        /\ f = "primary" => series'["fallback"] = IF starts THEN [series["fallback"] EXCEPT !.at = "next"] ELSE series["fallback"]
        /\ f = "fallback" => series'["primary"] = series["primary"] /\ ~dialer.timer
    <3> HIDE DEF starts
    <3>1. f = "fallback" => ~dialer.timer  BY <2>3 DEF SecondSeries
    <3>2. f = "fallback" => ~starts  BY <3>1 DEF starts
    <3> QED  BY <2>1, <2>2, <2>6, <3>1, <3>2 DEF RaceTypes, SeriesRecords
  <2>10. RaceTypes'
    <3>1. \A g \in Race!Families : series'[g].tried = series[g].tried  BY <2>9 DEF SeriesRecords
    <3> QED  BY <2>3, <2>5, <2>8, <3>1 DEF RaceTypes
  <2>11. /\ series'[f].at = "ended" /\ series'[f].tried = series[f].tried /\ series'[f].conn = series[f].conn
         /\ f = "primary" => /\ series'["fallback"].at = IF starts THEN "next" ELSE series["fallback"].at
                             /\ series'["fallback"].tried = series["fallback"].tried
                             /\ series'["fallback"].conn = series["fallback"].conn
    <3> HIDE DEF starts
    <3> QED  BY <2>6, <2>9 DEF SeriesRecords
  <2>r. /\ dialer \in DialerRecords /\ dialer.pending \in Int /\ waitsFor = IF starts THEN dialer.pending ELSE dialer.pending - 1
    BY DEF DialerRecords
  <2>12. CASE series[f].conn
    <3>1. dialer'.at = "returned" /\ dialer'.outcome = f /\ dialer'.timer = dialer.timer
      BY <2>3, <2>12 DEF DialerRecords
    <3>2. \A g \in Race!Families : g # f => series'[g] = series[g]  BY <2>9, <2>12
    <3>3. OpenIsHeld'
      <4>1. f \in open  BY <2>3, <2>12 DEF OpenIsHeld
      <4>2. \A g \in Race!Families : g \in open /\ series[g].at = "ended" => FALSE  BY <2>3 DEF OpenIsHeld, WaitsForSeries
      <4> QED  BY <2>3, <2>11, <2>12, <3>1, <3>2, <4>1, <4>2 DEF OpenIsHeld, RaceTypes
    <3>4. SecondSeries'  BY <2>3, <2>9, <2>11, <2>12, <3>1 DEF SecondSeries
    <3>5. WaitsForSeries'  BY <2>3, <2>9, <2>11, <2>12, <3>1 DEF WaitsForSeries
    <3> QED  BY <2>10, <3>3, <3>4, <3>5
  <2>13. CASE ~series[f].conn /\ dialer.timer
    <3>1. f = "primary" /\ series["fallback"].at = "none" /\ addresses["fallback"] > 0
      BY <2>3, <2>13 DEF SecondSeries
    <3>2. waitsFor = dialer.pending /\ starts  BY <2>13, <2>r
    <3>3. \/ dialer'.at = "returned" /\ dialer'.outcome = outcome /\ dialer'.timer /\ waitsFor = 0
          \/ dialer'.at = "racing" /\ dialer'.outcome = dialer.outcome /\ dialer'.pending = waitsFor /\ ~dialer'.timer /\ waitsFor # 0
      <4> HIDE DEF waitsFor, outcome
      <4> QED  BY <2>3, <2>4, <2>13 DEF DialerRecords
    <3>4. /\ series'["primary"].at = "ended" /\ series'["primary"].tried = series["primary"].tried /\ ~series'["primary"].conn
          /\ series'["fallback"].at = "next" /\ series'["fallback"].conn = series["fallback"].conn
          /\ series'["fallback"].tried = series["fallback"].tried
      BY <2>11, <2>13, <3>1, <3>2
    <3>5. OpenIsHeld'
      <4>1. "primary" \notin open /\ "fallback" \notin open /\ ~series["fallback"].conn /\ dialer.outcome = "none"
        BY <2>3, <2>13, <3>1 DEF OpenIsHeld, WaitsForSeries
      <4> QED  BY <2>3, <3>1, <3>3, <3>4, <4>1, <2>13 DEF OpenIsHeld, RaceTypes
    <3>7. waitsFor >= 1  BY <2>3, <2>r, <3>2 DEF WaitsForSeries
    <3>6. SecondSeries'  BY <2>3, <3>1, <3>3, <3>4, <3>7 DEF SecondSeries
    <3>8. WaitsForSeries'
      <4>1. CASE context = "over"
        BY <2>3, <2>r, <2>13, <3>1, <3>2, <3>3, <3>4, <3>7, <4>1 DEF WaitsForSeries
      <4>2. CASE context = "live"
        BY <2>3, <2>r, <2>13, <3>1, <3>2, <3>3, <3>4, <3>7, <4>2 DEF WaitsForSeries
      <4> QED  BY <4>1, <4>2 DEF RaceTypes
    <3> QED  BY <2>10, <3>5, <3>6, <3>8
  <2>14. CASE ~series[f].conn /\ ~dialer.timer
    <3>1. waitsFor = dialer.pending - 1 /\ ~starts  BY <2>14, <2>r
    <3>2. \/ dialer'.at = "returned" /\ dialer'.outcome = outcome /\ ~dialer'.timer /\ waitsFor = 0
          \/ dialer'.at = "racing" /\ dialer'.outcome = dialer.outcome /\ dialer'.pending = waitsFor /\ ~dialer'.timer /\ waitsFor # 0
      <4> HIDE DEF waitsFor, outcome
      <4> QED  BY <2>3, <2>4, <2>14 DEF DialerRecords
    <3>3. \A g \in Race!Families : g # f => series'[g] = series[g]  BY <2>9, <3>1
    <3>4. OpenIsHeld'
      <4>1. f \notin open  BY <2>3, <2>14 DEF OpenIsHeld
      <4>2. \A g \in Race!Families : g \in open /\ series[g].at = "ended" => FALSE  BY <2>3 DEF OpenIsHeld, WaitsForSeries
      <4>3. dialer'.outcome \notin Race!Families  BY <2>3, <2>14, <3>2 DEF WaitsForSeries
      <4> QED  BY <2>3, <2>11, <2>14, <3>3, <4>1, <4>2, <4>3 DEF OpenIsHeld, RaceTypes
    <3>5. SecondSeries'  BY <2>3, <2>9, <2>11, <2>14, <3>1, <3>2 DEF SecondSeries
    <3>6. \A g \in Race!Families : (UnderWay(g))' <=> UnderWay(g) /\ g # f  BY <2>3, <2>11, <3>3
    <3>7. WaitsForSeries'
      <4>1. dialer'.at = "racing" <=> dialer'.outcome = "none"  BY <2>3, <2>14, <3>2 DEF WaitsForSeries
      <4>2. dialer'.at = "racing" /\ (context' = "live" \/ addresses'["fallback"] = 0) =>
              dialer'.pending = Count("primary")' + Count("fallback")'
        BY <2>3, <2>r, <3>1, <3>2, <3>6 DEF WaitsForSeries
      <4>5. dialer'.at = "racing" => dialer'.pending >= Count("primary")' + Count("fallback")' /\ dialer'.pending >= 1
        BY <2>3, <2>r, <3>1, <3>2, <3>6 DEF WaitsForSeries
      <4>3. \A g \in Race!Families : dialer'.at = "racing" /\ context' = "live" =>
              /\ series'[g].at = "offering" /\ ~series'[g].conn => series'[g].tried = addresses'[g]
              /\ series'[g].at = "ended" => ~series'[g].conn /\ series'[g].tried = addresses'[g]
        BY <2>3, <2>11, <3>2, <3>3 DEF WaitsForSeries
      <4>4. ASSUME dialer'.outcome = "failed", NEW g \in Race!Families
            PROVE  ~(UnderWay(g))' /\ series'[g].tried = addresses'[g]
        <5>1. dialer.pending = 1 /\ ~over  BY <2>3, <2>r, <2>14, <3>1, <3>2, <4>4 DEF WaitsForSeries
        <5>2. context = "live" \/ addresses["fallback"] = 0  BY <5>1, <1>0 DEF RaceTypes
        <5>3. \A h \in Race!Families : UnderWay(h) => h = f  BY <2>3, <5>1, <5>2 DEF WaitsForSeries
        <5>4. CASE g = f
          <6>1. context = "live" => series[f].tried = addresses[f]  BY <2>3, <2>14 DEF WaitsForSeries
          <6>2. series[f].tried <= addresses[f] /\ series[f].tried \in Nat /\ addresses[f] \in Nat  BY <1>0 DEF RaceTypes, SeriesRecords
          <6>3. series[f].tried = addresses[f]  BY <5>1, <5>2, <6>1, <6>2 DEF RaceTypes
          <6> QED  BY <2>3, <2>11, <5>4, <6>3
        <5>5. CASE g # f
          <6>1. series[g].at \in {"none", "ended"} /\ series'[g] = series[g]  BY <3>3, <5>3, <5>5 DEF SeriesRecords, SeriesStates
          <6>2. CASE series[g].at = "none"
            <7>1. g = "fallback" /\ series[g].tried = 0 /\ addresses[g] = 0  BY <2>3, <2>14, <6>2, <1>0 DEF SecondSeries
            <7> QED  BY <2>3, <6>1, <6>2, <7>1
          <6>3. CASE series[g].at = "ended"
            <7>1. context = "live"  BY <2>3, <5>2, <5>5, <6>3 DEF SecondSeries
            <7> QED  BY <2>3, <6>1, <6>3, <7>1 DEF WaitsForSeries
          <6> QED  BY <6>1, <6>2, <6>3
        <5> QED  BY <5>4, <5>5
      <4> QED  BY <4>1, <4>2, <4>3, <4>4, <4>5 DEF WaitsForSeries
    <3> QED  BY <2>10, <3>4, <3>5, <3>7
  <2> QED  BY <2>12, <2>13, <2>14
<1> QED  BY <1>1, <1>2, <1>3, <1>4, <1>5, <1>6, <1>7 DEF Race!RaceNext

LEMMA RaceSafe ==
  ASSUME RaceInvariant
  PROVE  Race!NothingLeaks
<1> DEFINE W == {f \in Race!Families : series[f].at \in {"next", "dialing", "offering"}}
<1>1. Race!Cardinality(W) = Count("primary") + Count("fallback")  BY SeriesCount, RaceCardinality
<1>2. W = {} <=> ~UnderWay("primary") /\ ~UnderWay("fallback")  BY DEF UnderWay, Race!Families
<1> HIDE DEF W
<1> USE DEF RaceInvariant, Race!Families
<1>3. dialer.at = "returned" /\ dialer.outcome \in Race!Families => dialer.outcome \in open
  BY DEF OpenIsHeld
<1>4. ASSUME dialer.at = "returned", W = {}  PROVE open = {dialer.outcome} \cap Race!Families
  BY <1>2, <1>4 DEF OpenIsHeld, RaceTypes, UnderWay
<1>5. dialer.outcome = "failed" => \A f \in Race!Families : series[f].tried = addresses[f]
  BY DEF WaitsForSeries
<1>6. dialer.at = "racing" => dialer.pending = Race!Cardinality(W) \/ Race!RaceOver
  BY <1>1 DEF WaitsForSeries, RaceTypes, Race!RaceOver
<1>7. dialer.at = "racing" => W # {} \/ dialer.timer \/ Race!RaceOver
  BY <1>2 DEF WaitsForSeries, RaceTypes, Race!RaceOver, Count
<1> QED  BY <1>3, <1>4, <1>5, <1>6, <1>7 DEF Race!NothingLeaks, W

(***************************************************************************)
(* The replacement of the executable                                       *)
(***************************************************************************)

Stages == {"idle", "download", "copy", "wait", "drop", "aside", "install", "back", "over"}
Outcomes == {"none", "nothing done", "failed", "installed", "killed"}
UpdateRecords == [pc : Stages, got : {"absent", "new", "other"}, aside : BOOLEAN, outcome : Outcomes]
Contents == {"absent", "older", "old", "new", "other", "torn"}
SomeInstalled == \E u \in Updaters : update[u].outcome = "installed"
NoneKilled == \A u \in Updaters : update[u].outcome # "killed"
Due == IF SomeInstalled THEN "new" ELSE "old"

UpdateTypes ==
    /\ platform \in {"unix", "windows"}
    /\ place \in [{"exe", "backup"} \cup Updaters -> Contents]
    /\ update \in [Updaters -> UpdateRecords]

\* An update that comes to replace anything has the release, whole and checked.
ReadyIsNew == \A u \in Updaters :
    /\ update[u].pc = "copy" => update[u].got = "new"
    /\ update[u].pc \in {"drop", "aside", "install", "back"} => place[u] = "new"
    /\ update[u].pc \in {"copy", "wait"} /\ platform = "windows" => place[u] = "new"
    /\ update[u].pc = "wait" => platform = "windows"
    /\ update[u].outcome # "none" => update[u].pc = "over"

\* What is set aside is what was the executable; only the older backup is not,
\* and it stands aside as long as nothing has taken its place.
AsideWasExecutable ==
    /\ place["exe"] \in {"absent", "older", "old", "new"} /\ place["backup"] \in {"absent", "older", "old", "new"}
    /\ place["exe"] = "older" \/ (place["exe"] = "absent" /\ place["backup"] = "older") =>
         "put back over another executable" \in troubles
    /\ place["exe"] = "absent" /\ "backup of another update dropped" \notin troubles => place["backup"] # "absent"

\* Where nothing went wrong for good, what is due stands in its place, or aside
\* with an update at work that will move something there.
DueIsThere ==
    NoneKilled /\ troubles = {} =>
        \/ place["exe"] = Due
        \/ /\ place["exe"] = "absent" /\ place["backup"] = Due
           /\ \E u \in Updaters : update[u].pc \in {"install", "back"}

UpdateInvariant == UpdateTypes /\ ReadyIsNew /\ AsideWasExecutable /\ DueIsThere

\* Where one update goes and what else it notes.
Moved(u, pc, got, outcome) ==
    /\ update' \in [Updaters -> UpdateRecords]
    /\ \A v \in Updaters : v # u => update'[v] = update[v]
    /\ update'[u].pc = pc /\ update'[u].got = got /\ update'[u].outcome = outcome

LEMMA Goes ==
  ASSUME UpdateTypes, NEW u \in Updaters, NEW pc \in Stages, Replacement!Goes(u, pc)
  PROVE  Moved(u, pc, update[u].got, update[u].outcome)
  BY DEF Replacement!Goes, UpdateTypes, Moved, UpdateRecords

LEMMA EndsAs ==
  ASSUME UpdateTypes, NEW u \in Updaters, NEW outcome \in Outcomes, Replacement!Ends(u, outcome)
  PROVE  Moved(u, "over", update[u].got, outcome)
<1>1. update' = [update EXCEPT ![u].pc = "over", ![u].outcome = outcome]  BY DEF Replacement!Ends
<1>2. \A v \in Updaters : update'[v] = IF v = u THEN [update[u] EXCEPT !.pc = "over", !.outcome = outcome] ELSE update[v]
  BY <1>1 DEF UpdateTypes
<1>3. update[u] \in UpdateRecords  BY DEF UpdateTypes
<1>4. [update[u] EXCEPT !.pc = "over", !.outcome = outcome] \in UpdateRecords  BY <1>3 DEF UpdateRecords, Stages
<1> QED  BY <1>1, <1>2, <1>3, <1>4 DEF UpdateTypes, Moved, UpdateRecords

\* A step of an update that leaves all but its own file as it is.
OwnStep(u, pc, got, outcome, content) ==
    /\ Moved(u, pc, got, outcome) /\ update[u].outcome = "none" /\ outcome # "installed" /\ (outcome # "none" => pc = "over")
    /\ content \in Contents /\ place' = [place EXCEPT ![u] = content] /\ UNCHANGED <<troubles, platform>>
    /\ pc = "copy" => got = "new"
    /\ pc \in {"drop", "aside", "install", "back"} => content = "new"
    /\ pc \in {"copy", "wait"} /\ platform = "windows" => content = "new"
    /\ pc = "wait" => platform = "windows"
    /\ update[u].pc \in {"install", "back"} =>
         pc \in {"install", "back"} \/ outcome = "killed" \/ place["exe"] # "absent"

LEMMA OnlyItsOwn ==
  ASSUME UpdateInvariant,
         NEW u \in Updaters, NEW pc, NEW got, NEW outcome, NEW content, OwnStep(u, pc, got, outcome, content)
  PROVE  UpdateInvariant'
<1> USE DEF OwnStep
<1> USE DEF UpdateInvariant, Moved
<1>1. /\ place'["exe"] = place["exe"] /\ place'["backup"] = place["backup"] /\ place'[u] = content
      /\ \A v \in Updaters : v # u => place'[v] = place[v]
      /\ place' \in [{"exe", "backup"} \cup Updaters -> Contents]
  BY LocalAssumption DEF UpdateTypes
<1>2. UpdateTypes'  BY <1>1 DEF UpdateTypes
<1>3. ReadyIsNew'
  <2> SUFFICES ASSUME NEW v \in Updaters
               PROVE  /\ update'[v].pc = "copy" => update'[v].got = "new"
                      /\ update'[v].pc \in {"drop", "aside", "install", "back"} => place'[v] = "new"
                      /\ update'[v].pc \in {"copy", "wait"} /\ platform' = "windows" => place'[v] = "new"
                      /\ update'[v].pc = "wait" => platform' = "windows"
                      /\ update'[v].outcome # "none" => update'[v].pc = "over"
    BY DEF ReadyIsNew
  <2>1. CASE v = u  BY <1>1, <2>1
  <2>2. CASE v # u  BY <1>1, <2>2 DEF ReadyIsNew
  <2> QED  BY <2>1, <2>2
<1>4. AsideWasExecutable'  BY <1>1 DEF AsideWasExecutable
<1>5. DueIsThere'
  <2> SUFFICES ASSUME NoneKilled', troubles = {}
               PROVE  \/ place["exe"] = Due'
                      \/ /\ place["exe"] = "absent" /\ place["backup"] = Due'
                         /\ \E v \in Updaters : update'[v].pc \in {"install", "back"}
    BY <1>1 DEF DueIsThere
  <2>1. NoneKilled /\ outcome # "killed"  BY DEF NoneKilled
  <2>2. Due' = Due
    <3>1. SomeInstalled' <=> SomeInstalled  BY DEF SomeInstalled
    <3> QED  BY <3>1 DEF Due
  <2>3. ASSUME place["exe"] = "absent", NEW v \in Updaters, update[v].pc \in {"install", "back"}
        PROVE  update'[v].pc \in {"install", "back"}
    BY <2>1, <2>3
  <2> QED  BY <2>1, <2>2, <2>3 DEF DueIsThere
<1> QED  BY <1>2, <1>3, <1>4, <1>5

LEMMA UpdateStarts ==
  ASSUME Replacement!UpdateInit
  PROVE  UpdateInvariant
<1> USE DEF Replacement!UpdateInit
<1>1. PICK backup \in {"absent", "older"} :
        place = [p \in {"exe", "backup"} \cup Updaters |->
                   CASE p = "exe" -> "old" [] p = "backup" -> backup [] OTHER -> "absent"]
  OBVIOUS
<1>2. place["exe"] = "old" /\ place["backup"] = backup /\ \A u \in Updaters : place[u] = "absent"
  BY <1>1, LocalAssumption
<1>3. \A p \in {"exe", "backup"} \cup Updaters : place[p] \in Contents
  BY <1>2 DEF Contents
<1>4. UpdateTypes  BY <1>1, <1>3 DEF UpdateTypes, UpdateRecords, Stages, Outcomes
<1>5. ReadyIsNew  BY DEF ReadyIsNew
<1>6. AsideWasExecutable  BY <1>2 DEF AsideWasExecutable
<1>7. DueIsThere  BY <1>2 DEF DueIsThere, Due, SomeInstalled
<1> QED  BY <1>4, <1>5, <1>6, <1>7 DEF UpdateInvariant

\* The four steps that touch what the updates share.
LEMMA SharedSteps ==
  ASSUME UpdateInvariant, NEW u \in Updaters, UNCHANGED platform,
         Replacement!DropBackup(u) \/ Replacement!SetAside(u) \/ Replacement!Install(u) \/ Replacement!PutBack(u)
  PROVE  UpdateInvariant'
<1> USE DEF UpdateInvariant
<1>0. /\ update[u] \in UpdateRecords /\ update[u].got \in {"absent", "new", "other"}
      /\ place[u] \in Contents /\ place = [place EXCEPT ![u] = place[u]]
      /\ {"idle", "download", "copy", "wait", "drop", "aside", "install", "back", "over"} = Stages
      /\ {"none", "nothing done", "failed", "installed", "killed"} = Outcomes
  BY DEF UpdateTypes, UpdateRecords, Stages, Outcomes
<1>1. CASE Replacement!DropBackup(u)
  <2>1. update[u].pc = "drop" /\ update[u].outcome = "none" /\ place[u] = "new" /\ Moved(u, "aside", update[u].got, "none")
    BY <1>0, <1>1, Goes DEF Replacement!DropBackup, Replacement!At, ReadyIsNew
  <2>2. CASE UNCHANGED <<place, troubles>>
    <3>1. OwnStep(u, "aside", update[u].got, "none", place[u])  BY <1>0, <2>1, <2>2 DEF OwnStep
    <3> QED  BY <3>1, OnlyItsOwn
  <2>3. CASE /\ place' = [place EXCEPT !["backup"] = "absent"]
             /\ troubles' = IF place["exe"] = "absent" THEN troubles \cup {"backup of another update dropped"} ELSE troubles
    <3>1. /\ place' \in [{"exe", "backup"} \cup Updaters -> Contents]
          /\ place'["exe"] = place["exe"] /\ place'["backup"] = "absent" /\ \A v \in Updaters : place'[v] = place[v]
      BY <2>3, LocalAssumption DEF UpdateTypes, Contents
    <3>2. UpdateTypes'  BY <2>1, <3>1 DEF UpdateTypes, Moved
    <3>3. ReadyIsNew'  BY <2>1, <3>1 DEF ReadyIsNew, Moved
    <3>4. AsideWasExecutable'  BY <2>3, <3>1 DEF AsideWasExecutable
    <3>5. DueIsThere'
      <4>1. SomeInstalled' <=> SomeInstalled  BY <2>1 DEF SomeInstalled, Moved
      <4>2. NoneKilled' => NoneKilled  BY <2>1 DEF NoneKilled, Moved
      <4>3. Due' = Due  BY <4>1 DEF Due
      <4> QED  BY <2>3, <3>1, <4>2, <4>3 DEF DueIsThere
    <3> QED  BY <3>2, <3>3, <3>4, <3>5
  <2> QED  BY <1>1, <2>2, <2>3 DEF Replacement!DropBackup, Replacement!Put, Replacement!Note
<1>2. CASE Replacement!SetAside(u)
  <2>1. update[u].pc = "aside" /\ update[u].outcome = "none" /\ place[u] = "new" /\ UNCHANGED troubles
    BY <1>2 DEF Replacement!SetAside, Replacement!At, ReadyIsNew
  <2>2. ASSUME NEW b \in BOOLEAN, update' = [update EXCEPT ![u].pc = "install", ![u].aside = b]
        PROVE  Moved(u, "install", update[u].got, "none")
    <3>1. \A v \in Updaters : update'[v] = IF v = u THEN [update[u] EXCEPT !.pc = "install", !.aside = b] ELSE update[v]
      BY <2>2 DEF UpdateTypes
    <3>2. [update[u] EXCEPT !.pc = "install", !.aside = b] \in UpdateRecords  BY <1>0 DEF UpdateRecords, Stages
    <3> QED  BY <1>0, <2>1, <2>2, <3>1, <3>2 DEF UpdateTypes, UpdateRecords, Moved
  <2>3. CASE place' = [place EXCEPT ![u] = "absent"] /\ Replacement!Ends(u, "failed")
    <3>1. Moved(u, "over", update[u].got, "failed")  BY <1>0, <2>3, EndsAs
    <3>2. "absent" \in Contents  BY DEF Contents
    <3>3. OwnStep(u, "over", update[u].got, "failed", "absent")  BY <1>0, <2>1, <2>3, <3>1, <3>2 DEF OwnStep
    <3> QED  BY <3>3, OnlyItsOwn
  <2>4. CASE UNCHANGED place /\ update' = [update EXCEPT ![u].pc = "install", ![u].aside = FALSE]
    <3>1. Moved(u, "install", update[u].got, "none")  BY <2>2, <2>4
    <3>2. OwnStep(u, "install", update[u].got, "none", place[u])  BY <1>0, <2>1, <2>4, <3>1 DEF OwnStep
    <3> QED  BY <3>2, OnlyItsOwn
  <2>5. CASE /\ place["exe"] # "absent" /\ place' = [place EXCEPT !["backup"] = place["exe"], !["exe"] = "absent"]
             /\ update' = [update EXCEPT ![u].pc = "install", ![u].aside = TRUE]
    <3>1. Moved(u, "install", update[u].got, "none")  BY <2>2, <2>5
    <3>2. /\ place' \in [{"exe", "backup"} \cup Updaters -> Contents]
          /\ place'["exe"] = "absent" /\ place'["backup"] = place["exe"] /\ \A v \in Updaters : place'[v] = place[v]
      BY <2>5, LocalAssumption DEF UpdateTypes, Contents
    <3>3. UpdateTypes'  BY <3>1, <3>2 DEF UpdateTypes, Moved
    <3>4. ReadyIsNew'  BY <2>1, <3>1, <3>2 DEF ReadyIsNew, Moved
    <3>5. AsideWasExecutable'  BY <2>1, <2>5, <3>2 DEF AsideWasExecutable
    <3>6. DueIsThere'
      <4>1. SomeInstalled' <=> SomeInstalled  BY <2>1, <3>1 DEF SomeInstalled, Moved
      <4>2. NoneKilled' => NoneKilled  BY <2>1, <3>1 DEF NoneKilled, Moved
      <4>3. Due' = Due  BY <4>1 DEF Due
      <4>4. update'[u].pc \in {"install", "back"}  BY <3>1 DEF Moved
      <4> QED  BY <2>1, <2>5, <3>2, <4>2, <4>3, <4>4 DEF DueIsThere
    <3> QED  BY <3>3, <3>4, <3>5, <3>6
  <2> QED  BY <1>2, <2>3, <2>4, <2>5 DEF Replacement!SetAside, Replacement!Put, Replacement!Move, Replacement!CanMove
<1>3. CASE Replacement!Install(u)
  <2>1. update[u].pc = "install" /\ update[u].outcome = "none" /\ place[u] = "new" /\ UNCHANGED troubles
    BY <1>3 DEF Replacement!Install, Replacement!At, ReadyIsNew
  <2>2. CASE UNCHANGED place /\ Replacement!Goes(u, "back")
    <3>1. Moved(u, "back", update[u].got, "none")  BY <1>0, <2>1, <2>2, Goes
    <3>2. OwnStep(u, "back", update[u].got, "none", place[u])  BY <1>0, <2>1, <2>2, <3>1 DEF OwnStep
    <3> QED  BY <3>2, OnlyItsOwn
  <2>3. CASE place' = [place EXCEPT !["exe"] = place[u], ![u] = "absent"] /\ Replacement!Ends(u, "installed")
    <3>1. Moved(u, "over", update[u].got, "installed")  BY <1>0, <2>3, EndsAs
    <3>2. /\ place' \in [{"exe", "backup"} \cup Updaters -> Contents]
          /\ place'["exe"] = "new" /\ place'["backup"] = place["backup"]
          /\ \A v \in Updaters : v # u => place'[v] = place[v]
      BY <2>1, <2>3, LocalAssumption DEF UpdateTypes, Contents
    <3>3. UpdateTypes'  BY <3>1, <3>2 DEF UpdateTypes, Moved
    <3>4. ReadyIsNew'  BY <2>1, <3>1, <3>2 DEF ReadyIsNew, Moved
    <3>5. AsideWasExecutable'  BY <2>1, <3>2 DEF AsideWasExecutable
    <3>6. DueIsThere'
      <4>1. SomeInstalled'  BY <3>1 DEF SomeInstalled, Moved
      <4> QED  BY <3>2, <4>1 DEF DueIsThere, Due
    <3> QED  BY <3>3, <3>4, <3>5, <3>6
  <2> QED  BY <1>3, <2>2, <2>3 DEF Replacement!Install, Replacement!Move
<1>4. CASE Replacement!PutBack(u)
  <2>1. update[u].pc = "back" /\ update[u].outcome = "none" /\ place[u] = "new"
    BY <1>4 DEF Replacement!PutBack, Replacement!At, ReadyIsNew
  <2>2. Replacement!Restored(u)  BY <1>4 DEF Replacement!PutBack
  <2>3. PICK pc \in {"over", "aside"}, outcome \in {"none", "failed"} :
          /\ Moved(u, pc, update[u].got, outcome) /\ (pc = "over" <=> outcome = "failed")
          /\ pc = "aside" => platform = "windows"
    <3>1. CASE Replacement!Ends(u, "failed")
      <4>1. Moved(u, "over", update[u].got, "failed")  BY <1>0, <3>1, EndsAs
      <4> QED  BY <4>1
    <3>2. CASE platform = "windows" /\ Replacement!Goes(u, "aside")
      <4>1. Moved(u, "aside", update[u].got, "none")  BY <1>0, <2>1, <3>2, Goes
      <4> QED  BY <3>2, <4>1
    <3> QED  BY <2>2, <3>1, <3>2 DEF Replacement!Restored, UpdateTypes
  <2>4. PICK where \in [{"exe", "backup"} \cup Updaters -> Contents] :
          /\ place' = Replacement!NewFileGone(u, where)
          /\ \A v \in Updaters : where[v] = place[v]
          /\ \/ /\ place["backup"] # "absent" /\ where["exe"] = place["backup"] /\ where["backup"] = "absent"
                /\ troubles' = IF place["exe"] = "absent" THEN troubles ELSE troubles \cup {"put back over another executable"}
             \/ /\ where = place
                /\ troubles' = IF place["exe"] = "absent" THEN troubles \cup {"not put back"} ELSE troubles
    <3>1. CASE /\ place["backup"] # "absent"
               /\ place' = Replacement!NewFileGone(u, [place EXCEPT !["exe"] = place["backup"], !["backup"] = "absent"])
               /\ troubles' = IF place["exe"] = "absent" THEN troubles ELSE troubles \cup {"put back over another executable"}
      <4> DEFINE where == [place EXCEPT !["exe"] = place["backup"], !["backup"] = "absent"]
      <4>1. /\ where \in [{"exe", "backup"} \cup Updaters -> Contents]
            /\ where["exe"] = place["backup"] /\ where["backup"] = "absent" /\ \A v \in Updaters : where[v] = place[v]
        BY LocalAssumption DEF UpdateTypes, Contents
      <4> HIDE DEF where
      <4> QED  BY <3>1, <4>1 DEF where
    <3>2. CASE /\ place' = Replacement!NewFileGone(u, place)
               /\ troubles' = IF place["exe"] = "absent" THEN troubles \cup {"not put back"} ELSE troubles
      BY <3>2 DEF UpdateTypes
    <3> QED  BY <1>4, <3>1, <3>2 DEF Replacement!PutBack, Replacement!CanMove, Replacement!Note
  <2>5. /\ place' \in [{"exe", "backup"} \cup Updaters -> Contents]
        /\ place'["exe"] = where["exe"] /\ place'["backup"] = where["backup"]
        /\ \A v \in Updaters : v # u \/ platform = "windows" => place'[v] = where[v]
    BY <2>4, LocalAssumption DEF Replacement!NewFileGone, UpdateTypes, Contents
  <2>6. UpdateTypes'  BY <2>3, <2>5 DEF UpdateTypes, Moved
  <2>7. ReadyIsNew'
    <3>1. ASSUME NEW v \in Updaters, v # u  PROVE update'[v] = update[v] /\ place'[v] = place[v]
      BY <2>3, <2>4, <2>5, <3>1 DEF Moved
    <3>2. /\ update'[u].pc = pc /\ update'[u].outcome = outcome
          /\ pc = "aside" => place'[u] = "new"
      BY <2>1, <2>3, <2>4, <2>5 DEF Moved
    <3> QED  BY <2>3, <3>1, <3>2 DEF ReadyIsNew
  <2>8. AsideWasExecutable'  BY <2>4, <2>5 DEF AsideWasExecutable
  <2>9. DueIsThere'
    <3>1. SomeInstalled' <=> SomeInstalled  BY <2>1, <2>3 DEF SomeInstalled, Moved
    <3>2. NoneKilled' => NoneKilled  BY <2>1, <2>3 DEF NoneKilled, Moved
    <3>3. Due' = Due  BY <3>1 DEF Due
    <3>4. troubles' = {} => troubles = {} /\ place'["exe"] # "absent"
      BY <2>4, <2>5
    <3>5. ASSUME NoneKilled', troubles' = {}  PROVE place'["exe"] = Due
      <4>1. place["exe"] = Due \/ (place["exe"] = "absent" /\ place["backup"] = Due)
        BY <3>2, <3>4, <3>5 DEF DueIsThere
      <4> QED  BY <2>4, <2>5, <3>4, <3>5, <4>1 DEF Due
    <3> QED  BY <3>3, <3>5 DEF DueIsThere
  <2> QED  BY <2>6, <2>7, <2>8, <2>9
<1> QED  BY <1>1, <1>2, <1>3, <1>4

LEMMA UpdateKept ==
  ASSUME UpdateInvariant, Replacement!UpdateNext
  PROVE  UpdateInvariant'
<1> USE DEF UpdateInvariant
<1>0. UNCHANGED platform  BY DEF Replacement!UpdateNext
<1>1. ASSUME NEW u \in Updaters,
             Replacement!Decide(u) \/ Replacement!Download(u) \/ Replacement!Copy(u) \/ Replacement!WaitForPID(u) \/ Replacement!Dies(u)
      PROVE  UpdateInvariant'
  <2>0. /\ update[u] \in UpdateRecords /\ update[u].got \in {"absent", "new", "other"}
        /\ place[u] \in Contents /\ place = [place EXCEPT ![u] = place[u]]
        /\ {"idle", "download", "copy", "wait", "drop", "aside", "install", "back", "over"} = Stages
        /\ {"none", "nothing done", "failed", "installed", "killed"} = Outcomes
        /\ {"absent", "older", "old", "new", "other", "torn"} = Contents
    BY DEF UpdateTypes, UpdateRecords, Stages, Outcomes, Contents
  <2>1. update[u].pc # "over" /\ update[u].outcome = "none"
    BY <1>1 DEF Replacement!Decide, Replacement!Download, Replacement!Copy, Replacement!WaitForPID, Replacement!Dies, Replacement!At, ReadyIsNew
  <2>2. CASE Replacement!Decide(u)
    <3>1. \/ Moved(u, "over", update[u].got, "nothing done") \/ Moved(u, "download", update[u].got, "none")
      BY <2>0, <2>1, <2>2, Goes, EndsAs DEF Replacement!Decide
    <3>2. update[u].pc = "idle" /\ UNCHANGED <<place, troubles>>  BY <2>2 DEF Replacement!Decide, Replacement!At
    <3>3. \/ OwnStep(u, "over", update[u].got, "nothing done", place[u]) \/ OwnStep(u, "download", update[u].got, "none", place[u])
      BY <1>0, <2>0, <2>1, <3>1, <3>2 DEF OwnStep
    <3> QED  BY <3>3, OnlyItsOwn
  <2>3. CASE Replacement!Download(u)
    <3>1. update[u].pc = "download" /\ UNCHANGED troubles  BY <2>3 DEF Replacement!Download, Replacement!At
    <3>2. CASE Replacement!Ends(u, "failed") /\ \E content \in Contents : place' = [place EXCEPT ![u] = content]
      <4>1. Moved(u, "over", update[u].got, "failed")  BY <2>0, <3>2, EndsAs
      <4>2. PICK content \in Contents : place' = [place EXCEPT ![u] = content]  BY <3>2
      <4>3. OwnStep(u, "over", update[u].got, "failed", content)  BY <1>0, <2>1, <3>1, <4>1, <4>2 DEF OwnStep
      <4> QED  BY <4>3, OnlyItsOwn
    <3>3. CASE /\ update' = [update EXCEPT ![u].pc = "copy", ![u].got = "new"]
               /\ IF platform = "windows" THEN place' = [place EXCEPT ![u] = "new"] ELSE UNCHANGED place
      <4>1. \A v \in Updaters : update'[v] = IF v = u THEN [update[u] EXCEPT !.pc = "copy", !.got = "new"] ELSE update[v]
        BY <3>3 DEF UpdateTypes
      <4>2. [update[u] EXCEPT !.pc = "copy", !.got = "new"] \in UpdateRecords  BY <2>0 DEF UpdateRecords
      <4>3. Moved(u, "copy", "new", "none")  BY <2>0, <2>1, <3>3, <4>1, <4>2 DEF UpdateTypes, UpdateRecords, Moved
      <4>4. PICK content \in Contents : place' = [place EXCEPT ![u] = content] /\ (platform = "windows" => content = "new")
        BY <2>0, <3>3
      <4>5. OwnStep(u, "copy", "new", "none", content)  BY <1>0, <2>1, <3>1, <4>3, <4>4 DEF OwnStep
      <4> QED  BY <4>5, OnlyItsOwn
    <3>4. CASE \E got \in {"new", "other"} :
                 /\ IF Replacement!SameSum(got) THEN update' = [update EXCEPT ![u].pc = "copy", ![u].got = got] ELSE Replacement!Ends(u, "failed")
                 /\ IF platform = "windows" THEN Replacement!Put(u, got) ELSE UNCHANGED place
      <4>1. PICK got \in {"new", "other"} :
                 /\ IF Replacement!SameSum(got) THEN update' = [update EXCEPT ![u].pc = "copy", ![u].got = got] ELSE Replacement!Ends(u, "failed")
                 /\ IF platform = "windows" THEN place' = [place EXCEPT ![u] = got] ELSE UNCHANGED place
        BY <3>4 DEF Replacement!Put
      <4>2. CASE got = "new"  BY <3>3, <4>1, <4>2 DEF Replacement!SameSum
      <4>3. CASE got # "new"  BY <2>0, <3>2, <4>1, <4>3 DEF Replacement!SameSum
      <4> QED  BY <4>2, <4>3
    <3>5. CASE Replacement!Ends(u, "failed") /\ UNCHANGED place  BY <2>0, <3>2, <3>5
    <3> QED  BY <2>3, <3>4, <3>5 DEF Replacement!Download
  <2>4. CASE Replacement!Copy(u)
    <3>1. update[u].pc = "copy" /\ update[u].got = "new" /\ UNCHANGED troubles /\ (platform = "windows" => place[u] = "new")
      BY <2>4 DEF Replacement!Copy, Replacement!At, ReadyIsNew
    <3>2. CASE Replacement!Ends(u, "failed") /\ UNCHANGED place
      <4>1. Moved(u, "over", update[u].got, "failed")  BY <2>0, <3>2, EndsAs
      <4>2. OwnStep(u, "over", update[u].got, "failed", place[u])  BY <1>0, <2>0, <2>1, <3>1, <3>2, <4>1 DEF OwnStep
      <4> QED  BY <4>2, OnlyItsOwn
    <3>3. CASE platform = "windows" /\ UNCHANGED place /\ Replacement!Goes(u, "wait")
      <4>1. Moved(u, "wait", update[u].got, "none")  BY <2>0, <2>1, <3>3, Goes
      <4>2. OwnStep(u, "wait", update[u].got, "none", place[u])  BY <1>0, <2>0, <2>1, <3>1, <3>3, <4>1 DEF OwnStep
      <4> QED  BY <4>2, OnlyItsOwn
    <3>4. CASE platform # "windows" /\ place' = [place EXCEPT ![u] = update[u].got] /\ Replacement!Goes(u, "drop")
      <4>1. Moved(u, "drop", update[u].got, "none")  BY <2>0, <2>1, <3>4, Goes
      <4>2. OwnStep(u, "drop", update[u].got, "none", "new")  BY <1>0, <2>0, <2>1, <3>1, <3>4, <4>1 DEF OwnStep
      <4> QED  BY <4>2, OnlyItsOwn
    <3> QED  BY <2>4, <3>2, <3>3, <3>4 DEF Replacement!Copy, Replacement!Put
  <2>5. CASE Replacement!WaitForPID(u)
    <3>1. update[u].pc = "wait" /\ platform = "windows" /\ place[u] = "new" /\ UNCHANGED <<place, troubles>>
      BY <2>5 DEF Replacement!WaitForPID, Replacement!At, ReadyIsNew
    <3>2. \/ Moved(u, "over", update[u].got, "failed") \/ Moved(u, "drop", update[u].got, "none")
      BY <2>0, <2>1, <2>5, Goes, EndsAs DEF Replacement!WaitForPID
    <3>3. \/ OwnStep(u, "over", update[u].got, "failed", place[u]) \/ OwnStep(u, "drop", update[u].got, "none", place[u])
      BY <1>0, <2>0, <2>1, <3>1, <3>2 DEF OwnStep
    <3> QED  BY <3>3, OnlyItsOwn
  <2>6. CASE Replacement!Dies(u)
    <3>1. Moved(u, "over", update[u].got, "killed") /\ UNCHANGED troubles
      BY <2>0, <2>6, EndsAs DEF Replacement!Dies
    <3>2. PICK content \in Contents : place' = [place EXCEPT ![u] = content]
      BY <2>0, <2>6 DEF Replacement!Dies
    <3>3. OwnStep(u, "over", update[u].got, "killed", content)  BY <1>0, <2>1, <3>1, <3>2 DEF OwnStep
    <3> QED  BY <3>3, OnlyItsOwn
  <2> QED  BY <1>1, <2>2, <2>3, <2>4, <2>5, <2>6
<1>2. CASE Replacement!UpdateStep  BY <1>0, <1>1, <1>2, SharedSteps DEF Replacement!UpdateStep
<1>3. CASE Replacement!UpdateOver
  BY <1>0, <1>3 DEF Replacement!UpdateOver, UpdateTypes, ReadyIsNew, AsideWasExecutable, DueIsThere, Due, SomeInstalled, NoneKilled
<1> QED  BY <1>2, <1>3 DEF Replacement!UpdateNext

LEMMA UpdateSafe ==
  ASSUME UpdateInvariant
  PROVE  Replacement!UpdatesAreWhole
<1> USE DEF UpdateInvariant
<1>1. Replacement!ExecutableWhole  BY DEF AsideWasExecutable, Replacement!ExecutableWhole
<1>2. Replacement!NeverWithout  BY DEF AsideWasExecutable, Replacement!NeverWithout, Replacement!Executables
<1>3. Replacement!OutcomeTold
  <2> SUFFICES ASSUME \A u \in Updaters : update[u].pc \in {"idle", "over"} /\ update[u].outcome # "killed", troubles = {}
               PROVE  place["exe"] = Due
    BY DEF Replacement!OutcomeTold, Due, SomeInstalled
  <2> QED  BY DEF DueIsThere, NoneKilled
<1> QED  BY <1>1, <1>2, <1>3 DEF Replacement!UpdatesAreWhole

(***************************************************************************)
(* The takeover of another program                                         *)
(***************************************************************************)

Files == Integration!Paths
Notes == Integration!Notes
Main == Layouts[1][1]
Managed(content) == Integration!IsManaged(content)

\* The backup that two notes make up, and what a rollback would give back.
LatestOf(notes) ==
    [notes["latest"] EXCEPT ![1].content =
        IF @ = Hidden THEN IF notes["original"] = Absent THEN Integration!Empty ELSE notes["original"] ELSE @]
BaseOf(notes) == IF notes["cycle"] # Absent THEN notes["cycle"] ELSE IF notes["latest"] # Absent THEN LatestOf(notes) ELSE None

\* A list of files with contents of the user, each file once.
Listed(entries) ==
    /\ entries \in Seq([path : Files, content : FileContents]) /\ entries # <<>>
    /\ \A i, j \in DOMAIN entries : entries[i].path = entries[j].path => i = j
OfTheUser(entries, given) == Listed(entries) /\ \A i \in DOMAIN entries : entries[i].content \in given[entries[i].path]

NotesSound(notes, given) ==
    /\ notes["cycle"] # Absent => OfTheUser(notes["cycle"], given)
    /\ notes["latest"] # Absent =>
         notes["latest"] \in NoteLists /\ notes["latest"] # <<>> /\ OfTheUser(LatestOf(notes), given)

\* With these notes, everything that was replaced can be given back.
Gives(notes, owned, faults) ==
    \A p \in Files : owned[p] # None =>
        /\ BaseOf(notes) # None /\ Integration!Has(BaseOf(notes), p)
        /\ faults = {} => Integration!Of(BaseOf(notes), p) = owned[p]
\* Without a cycle it is a takeover by an older version, of the main file alone.
Older(notes, owned) ==
    notes["cycle"] = Absent =>
        \A p \in Files : owned[p] # None =>
            /\ p = Main /\ Managed(notes[p])
            /\ notes["latest"] # Absent /\ \A i \in DOMAIN notes["latest"] : notes["latest"][i].path = Main
Whole(notes, owned, faults) ==
    faults = {} /\ notes["cycle"] # Absent => \A i \in DOMAIN notes["cycle"] : owned[notes["cycle"][i].path] # None
Stands(contents, owned, given, faults) ==
    /\ NotesSound(contents, given) /\ Gives(contents, owned, faults) /\ Older(contents, owned)
    /\ \A p \in Files : contents[p] \in FileContents /\ (owned[p] = None => contents[p] \in given[p])
Rests(contents, owned, given, faults) == Stands(contents, owned, given, faults) /\ Whole(contents, owned, faults)

World ==
    /\ disk = [spot \in Files \cup Notes |-> disk[spot]]
    /\ own \in [Files -> FileContents \cup {None}]
    /\ history \in [Files -> SUBSET FileContents]
    /\ address \in Addresses /\ target \in DOMAIN Layouts
    /\ left \in [edits : Int, calls : Int, failures : Int, crashes : Int]
    /\ \A p \in Files : /\ disk[p] \in FileContents
                        /\ own[p] = None => disk[p] \in history[p]
                        /\ \A content \in history[p] : ~Managed(content)

Idle ==
    /\ job = [pc |-> "idle", answer |-> job.answer, was |-> job.was]
    /\ Rests(disk, own, history, mishaps)
    /\ job.answer = "failed" /\ mishaps = {} => disk = job.was

(***************************************************************************)
(* A takeover or a rollback                                                *)
(***************************************************************************)

Early == {"stage", "latest", "original", "adopt latest", "adopt original", "cycle"}
Steps == Early \cup {"commit", "undo", "latest back", "original back", "cycle back"}
Replaced == IF job.pc = "commit" THEN job.i - 1 ELSE IF job.pc = "undo" THEN job.i ELSE 0
IsReplaced(p) == \E k \in 1 .. Replaced : job.files[k].path = p
InPlan(p) == \E k \in DOMAIN job.files : job.files[k].path = p

IsJob(j) ==
    j = [field \in {"pc", "op", "files", "new", "legacy", "i", "recovered", "snap", "was", "owned", "undisturbed"} |-> j[field]]

\* What was read at the start, and has been kept since.
Plan ==
    /\ IsJob(job)
    /\ job.pc \in Steps /\ job.op \in {"apply", "rollback"} /\ job.new \in BOOLEAN /\ job.recovered \in BOOLEAN
    /\ Len(job.files) \in Nat /\ Len(job.files) > 0 /\ DOMAIN job.files = 1 .. Len(job.files)
    /\ \A k \in DOMAIN job.files : job.files[k].path \in Files \cup Notes
    /\ \A k, l \in DOMAIN job.files : job.files[k].path = job.files[l].path => k = l
    /\ \A k \in DOMAIN job.files : job.files[k].before = job.was[job.files[k].path]
    /\ job.was = [spot \in Files \cup Notes |-> job.was[spot]] /\ job.owned \in [Files -> FileContents \cup {None}]
    /\ Rests(job.was, job.owned, history, mishaps)
    /\ job.i \in Nat /\ (job.pc \in Early => job.i = 1)
    /\ job.pc = "commit" => job.i \in DOMAIN job.files
    /\ job.pc = "undo" => job.i < Len(job.files)
    /\ ~job.recovered => mishaps # {} /\ job.pc \in {"commit", "undo"}

ApplyPlan ==
    /\ \A k \in DOMAIN job.files :
         job.files[k].path \in Files /\ job.files[k].after \in FileContents /\ Managed(job.files[k].after)
    /\ job.new <=> job.was["cycle"] = Absent
    /\ ~job.new => job.legacy = None /\ job.snap = job.was["cycle"]
    /\ job.new =>
         IF job.legacy = None THEN \A p \in Files : job.owned[p] = None
         ELSE /\ job.files[1].path = Main /\ job.owned[Main] # None
              /\ job.legacy = LatestOf(job.was)

RollbackPlan ==
    /\ ~job.new
    /\ Len(job.files) > 3
    /\ \A k \in DOMAIN job.files :
         IF k <= Len(job.files) - 3 THEN job.files[k].path \in Files /\ job.files[k].after \in history[job.files[k].path]
         ELSE /\ job.files[k].after = Absent
              /\ job.files[k].path = <<"cycle", "latest", "original">>[k - (Len(job.files) - 3)]
    /\ \A p \in Files : job.owned[p] # None => InPlan(p)
    /\ job.pc \in {"stage", "commit", "undo"}

\* The files that are not replaced, or not any more, are the user's.
Untouched(p) ==
    /\ own[p] \in {None, job.owned[p]}
    /\ own[p] # None /\ job.was["cycle"] = Absent => Managed(disk[p])
    /\ mishaps = {} /\ job.was["cycle"] # Absent => own[p] = job.owned[p]
    /\ mishaps = {} /\ job.undisturbed => disk[p] = job.was[p]

RollbackStands ==
    /\ \A p \in Files : IF IsReplaced(p) THEN own[p] = None ELSE Untouched(p) \/ (~job.recovered /\ own[p] = None)
    /\ \A note \in Notes : disk[note] = IF IsReplaced(note) THEN Absent ELSE job.was[note]

\* The backup in hand: of every file what it held before, or was changed from since.
SnapOfFiles ==
    /\ job.snap \in Seq([path : Files, content : FileContents])
    /\ Len(job.snap) = Len(job.files) /\ \A k \in DOMAIN job.files : job.snap[k].path = job.files[k].path
SnapExact(k) ==
    mishaps = {} =>
        IF job.owned[job.files[k].path] # None
        THEN job.pc \in {"original", "adopt latest"} \/ job.snap[k].content = job.owned[job.files[k].path]
        ELSE \/ job.pc = "undo" \/ IsReplaced(job.files[k].path)
             \/ job.snap[k].content = job.was[job.files[k].path] \/ disk[job.files[k].path] # job.was[job.files[k].path]
InHand == {"original", "adopt latest", "adopt original", "cycle", "commit", "undo"}
ApplySnap ==
    /\ job.pc \in InHand \/ ~job.new => SnapOfFiles
    /\ job.pc \in InHand => \A k \in DOMAIN job.files :
         /\ SnapExact(k)
         /\ job.snap[k].content \in history[job.files[k].path]
            \/ (job.pc \in {"original", "adopt latest"} /\ job.legacy # None /\ k = 1)

ApplyNotes ==
    /\ job.pc = "stage" \/ (~job.new /\ job.pc \in InHand) => disk["latest"] = job.was["latest"] /\ disk["original"] = job.was["original"]
    /\ job.pc = "stage" => disk["cycle"] = job.was["cycle"]
    /\ job.new /\ job.pc \in InHand \ {"adopt latest"} => disk["latest"] = Integration!Mask(job.snap)
    /\ job.new /\ job.pc \in {"cycle", "commit", "undo"} => disk["original"] = Integration!FirstOriginal(job.snap)
    /\ job.pc \in {"commit", "undo"} => disk["cycle"] = job.snap
    /\ job.pc \in {"original back", "cycle back"} => disk["latest"] = job.was["latest"]
    /\ job.pc = "cycle back" => disk["original"] = job.was["original"]

ApplyOwn ==
    /\ \A p \in Files : own[p] # None => job.owned[p] # None \/ InPlan(p)
    /\ \A p \in Files : IsReplaced(p) => own[p] # None
    /\ \A k \in 1 .. Replaced : mishaps = {} => job.snap[k].content = own[job.files[k].path]
    /\ job.recovered => \A p \in Files : IsReplaced(p) \/ Untouched(p)

Underway ==
    /\ Plan
    /\ job.op = "rollback" => RollbackPlan /\ RollbackStands
    /\ job.op = "apply" => ApplyPlan /\ ApplySnap /\ ApplyNotes /\ ApplyOwn
    /\ job.pc \in {"latest", "original", "adopt latest", "adopt original"} => job.new
    /\ job.pc \in {"adopt latest", "adopt original"} => job.legacy # None

TakeoverInvariant == NotesKept => World /\ (IF job.pc = "idle" THEN Idle ELSE Underway)

Contained == [path : Files, content : FileContents]

LEMMA Wider ==
  ASSUME NEW S, NEW T, NEW list \in Seq(S), \A i \in DOMAIN list : list[i] \in T
  PROVE  list \in Seq(T)
<1>1. list \in [1 .. Len(list) -> S] /\ Len(list) \in Nat  OBVIOUS
<1>2. list \in [1 .. Len(list) -> T]  BY <1>1
<1> QED  BY <1>1, <1>2, SeqDef

LEMMA Containing ==
  ASSUME NEW e \in Contained
  PROVE  /\ e = [path |-> e.path, content |-> e.content] /\ e.path \in Files /\ e.content \in FileContents
         /\ e \in [path : Integration!Paths, content : FileContents \cup {Hidden}]
<1>1. e.path \in Files /\ e.content \in FileContents  BY DEF Contained
<1>2. e = [path |-> e.path, content |-> e.content]  BY DEF Contained
<1> QED  BY <1>1, <1>2 DEF Files

LEMMA Members ==
  ASSUME NEW S, NEW list \in Seq(S)
  PROVE  DOMAIN list = 1 .. Len(list) /\ Len(list) \in Nat /\ \A i \in DOMAIN list : list[i] \in S
OBVIOUS

LEMMA ListedMembers ==
  ASSUME NEW list, NEW given, OfTheUser(list, given)
  PROVE  /\ list \in Seq(Contained) /\ list # <<>> /\ DOMAIN list = 1 .. Len(list) /\ Len(list) \in Nat
         /\ \A i \in DOMAIN list : list[i].path \in Files /\ list[i].content \in FileContents
<1>1. list \in Seq(Contained) /\ list # <<>>  BY DEF OfTheUser, Listed, Contained
<1> QED  BY <1>1, Members, Containing

LEMMA Constants ==
  /\ Layouts # <<>> /\ MaxUserEdits \in Int
  /\ \A t \in DOMAIN Layouts :
       /\ Layouts[t] \in Seq(Files) /\ Layouts[t] # <<>>
       /\ \A i, j \in DOMAIN Layouts[t] : Layouts[t][i] = Layouts[t][j] => i = j
  /\ 1 \in DOMAIN Layouts /\ Main \in Files
  /\ \A p \in Files : p \notin Notes
  /\ Absent \in FileContents /\ \A content \in FileContents : content # Absent => content.route \in Addresses \cup {"own", "none"} /\ content.rest \in Int
  /\ Hidden \notin FileContents /\ None \notin FileContents
  /\ \A list \in NoteLists : list # Absent /\ list # Torn /\ list # None
  /\ \A list \in Seq(Contained) : list \in NoteLists
<1>1. \A t \in DOMAIN Layouts : Layouts[t] \in Seq(Files)  BY TakeoverAssumption DEF Files
<1>2. 1 \in DOMAIN Layouts  BY TakeoverAssumption
<1>3. Main \in Files  BY <1>1, <1>2, TakeoverAssumption DEF Main
<1>4. \A p \in Files : p \notin Notes  BY TakeoverAssumption DEF Files, Notes
<1>5. ASSUME NEW list \in Seq(Contained)  PROVE list \in NoteLists
  <2>1. \A i \in DOMAIN list : list[i] \in [path : Integration!Paths, content : FileContents \cup {Hidden}]  BY Containing
  <2> QED  BY <2>1, Wider DEF NoteLists
<1> QED  BY <1>1, <1>2, <1>3, <1>4, <1>5, TakeoverAssumption DEF FileContents, NoteLists

\* A concatenation to the empty list is only a way to write a list.
LEMMA Listing ==
  ASSUME NEW S, NEW n \in Nat, NEW f \in [1 .. n -> S]
  PROVE  <<>> \o f = f /\ f \in Seq(S) /\ Len(f) = n /\ DOMAIN f = 1 .. n
<1>1. f \in Seq(S) /\ Len(f) = n  BY SeqDef, LenProperties
<1> QED  BY <1>1, ConcatEmptySeq

LEMMA Snapshots ==
  ASSUME World, NEW paths \in Seq(Files)
  PROVE  /\ Integration!Snapshot(paths) \in Seq(Contained)
         /\ Len(Integration!Snapshot(paths)) = Len(paths)
         /\ \A i \in DOMAIN paths : Integration!Snapshot(paths)[i].path = paths[i]
                                    /\ Integration!Snapshot(paths)[i].content = disk[paths[i]]
<1> DEFINE f == [i \in DOMAIN paths |-> Integration!Entry(paths[i], disk[paths[i]])]
<1>1. DOMAIN paths = 1 .. Len(paths) /\ Len(paths) \in Nat /\ \A i \in DOMAIN paths : paths[i] \in Files  OBVIOUS
<1>2. f \in [1 .. Len(paths) -> Contained]  BY <1>1 DEF Contained, World, Integration!Entry
<1>3. <<>> \o f = f /\ f \in Seq(Contained) /\ Len(f) = Len(paths)  BY <1>1, <1>2, Listing
<1> QED  BY <1>1, <1>3 DEF Integration!Snapshot, Integration!Entry

LEMMA PathsOfList ==
  ASSUME NEW S, NEW list \in Seq(S), NEW T, \A i \in DOMAIN list : list[i].path \in T
  PROVE  /\ Integration!PathsOf(list) \in Seq(T)
         /\ Len(Integration!PathsOf(list)) = Len(list)
         /\ \A i \in DOMAIN list : Integration!PathsOf(list)[i] = list[i].path
<1> DEFINE f == [i \in DOMAIN list |-> list[i].path]
<1>1. DOMAIN list = 1 .. Len(list) /\ Len(list) \in Nat  OBVIOUS
<1>2. f \in [1 .. Len(list) -> T]  BY <1>1
<1>3. <<>> \o f = f /\ f \in Seq(T) /\ Len(f) = Len(list)  BY <1>1, <1>2, Listing
<1> QED  BY <1>1, <1>3 DEF Integration!PathsOf

\* What the two notes of a backup say is the backup.
LEMMA MaskBack ==
  ASSUME NEW list \in Seq(Contained), list # <<>>, NEW notes,
         notes["latest"] = Integration!Mask(list), notes["original"] = Integration!FirstOriginal(list)
  PROVE  LatestOf(notes) = list /\ notes["latest"] \in NoteLists /\ notes["latest"] # <<>>
<1> DEFINE first == list[1].content
           other == IF first = Absent THEN Absent ELSE Hidden
           mask == [list EXCEPT ![1] = [path |-> list[1].path, content |-> other]]
<1>1. 1 \in DOMAIN list /\ list[1] \in Contained  OBVIOUS
<1>2. list[1] = [path |-> list[1].path, content |-> first] /\ list[1].path \in Files /\ first \in FileContents
  BY <1>1, Containing
<1>3. other \in FileContents \cup {Hidden} /\ Hidden # Absent  BY Constants
<1>4. mask = Integration!Mask(list)  BY <1>2 DEF Integration!Mask
<1>5. mask \in NoteLists /\ mask # <<>>
  <2>1. \A i \in DOMAIN list : list[i] \in [path : Integration!Paths, content : FileContents \cup {Hidden}]  BY Containing
  <2>2. list \in NoteLists  BY <2>1, Wider DEF NoteLists
  <2>3. [path |-> list[1].path, content |-> other] \in [path : Integration!Paths, content : FileContents \cup {Hidden}]
    BY <1>2, <1>3 DEF Files
  <2>4. mask \in NoteLists  BY <2>2, <2>3, <1>1 DEF NoteLists
  <2> QED  BY <2>4, <1>1
<1>6. ASSUME NEW original
      PROVE  [mask EXCEPT ![1].content = original] = [list EXCEPT ![1] = [path |-> list[1].path, content |-> original]]
  <2>1. mask[1] = [path |-> list[1].path, content |-> other] /\ DOMAIN mask = DOMAIN list  BY <1>1
  <2>2. [mask[1] EXCEPT !.content = original] = [path |-> list[1].path, content |-> original]  BY <2>1
  <2> QED  BY <2>2, <1>1
<1>7. mask[1].content = other  BY <1>1
<1>8. [list EXCEPT ![1] = [path |-> list[1].path, content |-> first]] = list  BY <1>1, <1>2
<1>9. first # Absent => Integration!FirstOriginal(list) = first  BY DEF Integration!FirstOriginal
<1> DEFINE back == IF mask[1].content = Hidden
                   THEN IF notes["original"] = Absent THEN Integration!Empty ELSE notes["original"] ELSE mask[1].content
<1>10. back = first  BY <1>3, <1>7, <1>9
<1>11. LatestOf(notes) = [mask EXCEPT ![1].content = back]  BY <1>4 DEF LatestOf
<1>12. [mask EXCEPT ![1].content = back] = list  BY <1>6, <1>8, <1>10
<1>13. notes["latest"] \in NoteLists /\ notes["latest"] # <<>>  BY <1>4, <1>5
<1> HIDE DEF back, mask
<1> QED  BY <1>11, <1>12, <1>13

LEMMA OfListed ==
  ASSUME NEW list, Listed(list), NEW i \in DOMAIN list
  PROVE  Integration!Has(list, list[i].path) /\ Integration!Of(list, list[i].path) = list[i].content
<1>1. \E j \in DOMAIN list : list[j].path = list[i].path  OBVIOUS
<1>2. PICK k \in DOMAIN list : k = CHOOSE j \in DOMAIN list : list[j].path = list[i].path  BY <1>1
<1>3. list[k].path = list[i].path  BY <1>1, <1>2
<1>4. k = i  BY <1>3 DEF Listed
<1> QED  BY <1>1, <1>2, <1>4 DEF Integration!Has, Integration!Of

LEMMA BaselineIs ==
  ASSUME NotesSound(disk, history)
  PROVE  /\ Integration!Baseline = BaseOf(disk) /\ Integration!LatestBackup = LatestOf(disk)
         /\ Integration!Readable("latest") <=> disk["latest"] # Absent
         /\ disk["cycle"] # Torn
<1>1. Integration!LatestBackup = LatestOf(disk)  BY DEF Integration!LatestBackup, LatestOf
<1>2. disk["cycle"] # Torn
  <2>1. disk["cycle"] # Absent => disk["cycle"] \in Seq(Contained)  BY DEF NotesSound, OfTheUser, Listed, Contained
  <2>2. Torn # Absent  BY TakeoverAssumption DEF FileContents
  <2> QED  BY <2>1, <2>2, Constants
<1> QED  BY <1>1, <1>2, Constants DEF NotesSound, Integration!Baseline, Integration!Readable, BaseOf

LEMMA Facts ==
  ASSUME NotesSound(disk, history)
  PROVE  \A list : OfTheUser(list, history) => list \in Seq(Contained) /\ list # <<>> /\ list \in NoteLists
BY Constants DEF OfTheUser, Listed, Contained

\* What the user did is not undone by what the user does, nor what was lost found.
LEMMA Later ==
  ASSUME NEW contents, NEW owned, NEW given, NEW more, NEW faults, NEW newer,
         Stands(contents, owned, given, faults), \A p \in Files : given[p] \subseteq more[p], faults \subseteq newer
  PROVE  /\ Stands(contents, owned, more, newer)
         /\ Whole(contents, owned, faults) => Whole(contents, owned, newer)
<1>1. ASSUME NEW list, OfTheUser(list, given)  PROVE OfTheUser(list, more)
  <2>1. \A i \in DOMAIN list : list[i].path \in Files  BY <1>1, ListedMembers
  <2> QED  BY <1>1, <2>1 DEF OfTheUser
<1>2. NotesSound(contents, more)  BY <1>1 DEF Stands, NotesSound
<1>3. newer = {} => faults = {}  OBVIOUS
<1> QED  BY <1>2, <1>3 DEF Stands, Gives, Older, Whole

LEMMA LatestPaths ==
  ASSUME NEW notes, notes["latest"] \in NoteLists, notes["latest"] # <<>>
  PROVE  /\ DOMAIN LatestOf(notes) = DOMAIN notes["latest"] /\ LatestOf(notes) # <<>>
         /\ \A i \in DOMAIN notes["latest"] : LatestOf(notes)[i].path = notes["latest"][i].path
<1> DEFINE e == [path : Integration!Paths, content : FileContents \cup {Hidden}]
           list == notes["latest"]
           back == IF list[1].content = Hidden
                   THEN IF notes["original"] = Absent THEN Integration!Empty ELSE notes["original"] ELSE list[1].content
<1>1. list \in Seq(e) /\ list # <<>>  BY DEF NoteLists
<1>2. \A i \in DOMAIN list : list[i] \in e
  <2> HIDE DEF e, list
  <2> QED  BY <1>1, Members
<1>3. 1 \in DOMAIN list  BY <1>1
<1>4. list[1] = [path |-> list[1].path, content |-> list[1].content]  BY <1>2, <1>3
<1>5. LatestOf(notes) = [list EXCEPT ![1].content = back]  BY DEF LatestOf
<1>6. [list[1] EXCEPT !.content = back] = [path |-> list[1].path, content |-> back]  BY <1>4
<1>7. [list EXCEPT ![1].content = back] = [list EXCEPT ![1] = [path |-> list[1].path, content |-> back]]  BY <1>6
<1> HIDE DEF back
<1> QED  BY <1>3, <1>5, <1>7

(***************************************************************************)
(* What can be given back at every moment                                  *)
(***************************************************************************)

\* With the notes as they were at the start, and no file newly replaced.
LEMMA StandsAgain ==
  ASSUME World, Plan, NEW contents, \A p \in Files : contents[p] = disk[p],
         \A note \in Notes : contents[note] = job.was[note],
         \A p \in Files : own[p] \in {None, job.owned[p]}
                          /\ (own[p] # None /\ job.was["cycle"] = Absent => Managed(disk[p]))
  PROVE  Stands(contents, own, history, mishaps)
<1>1. contents["cycle"] = job.was["cycle"] /\ contents["latest"] = job.was["latest"] /\ contents["original"] = job.was["original"]
  BY DEF Notes, Integration!Notes
<1>2. Stands(job.was, job.owned, history, mishaps)  BY DEF Plan, Rests
<1>3. BaseOf(contents) = BaseOf(job.was) /\ LatestOf(contents) = LatestOf(job.was)  BY <1>1 DEF BaseOf, LatestOf
<1>4. NotesSound(contents, history)  BY <1>1, <1>2, <1>3 DEF Stands, NotesSound
<1>5. Gives(contents, own, mishaps)  BY <1>2, <1>3 DEF Stands, Gives
<1>6. Older(contents, own)  BY <1>1, <1>2 DEF Stands, Older
<1> QED  BY <1>4, <1>5, <1>6 DEF Stands, World

LEMMA RestsAgain ==
  ASSUME World, Plan, NEW contents, \A p \in Files : contents[p] = disk[p],
         \A note \in Notes : contents[note] = job.was[note],
         \A p \in Files : Untouched(p) \/ (mishaps # {} /\ own[p] = None)
  PROVE  Rests(contents, own, history, mishaps)
<1>1. Stands(contents, own, history, mishaps)  BY StandsAgain DEF Untouched
<1>2. contents["cycle"] = job.was["cycle"]  BY DEF Notes, Integration!Notes
<1>3. Whole(contents, own, mishaps)
  <2> SUFFICES ASSUME mishaps = {}, contents["cycle"] # Absent, NEW i \in DOMAIN contents["cycle"]
               PROVE  own[contents["cycle"][i].path] # None
    BY DEF Whole
  <2>1. OfTheUser(contents["cycle"], history)  BY <1>1 DEF Stands, NotesSound
  <2>2. contents["cycle"][i].path \in Files  BY <2>1, ListedMembers
  <2>3. own[contents["cycle"][i].path] = job.owned[contents["cycle"][i].path]  BY <1>2, <2>2 DEF Untouched
  <2>4. job.owned[job.was["cycle"][i].path] # None  BY <1>2 DEF Plan, Rests, Whole
  <2> QED  BY <1>2, <2>3, <2>4
<1> QED  BY <1>1, <1>3 DEF Rests

\* Once a takeover begins to file files, the backup in hand is the cycle.
LEMMA SnapListed ==
  ASSUME Plan, ApplyPlan, ApplySnap, job.pc \in {"commit", "undo"}
  PROVE  OfTheUser(job.snap, history)
<1>1. SnapOfFiles /\ \A k \in DOMAIN job.files : job.snap[k].content \in history[job.files[k].path]
  BY DEF ApplySnap, InHand
<1>2. DOMAIN job.snap = DOMAIN job.files /\ job.snap # <<>>  BY <1>1 DEF SnapOfFiles, Plan, ApplyPlan
<1> QED  BY <1>1, <1>2 DEF SnapOfFiles, OfTheUser, Listed, Plan

LEMMA TakenStands ==
  ASSUME World, Plan, ApplyPlan, ApplySnap, ApplyNotes, ApplyOwn, job.pc \in {"commit", "undo"}
  PROVE  Stands(disk, own, history, mishaps) /\ disk["cycle"] = job.snap /\ job.snap # Absent
<1>1. OfTheUser(job.snap, history) /\ disk["cycle"] = job.snap  BY SnapListed DEF ApplyNotes
<1>2. job.snap \in Seq(Contained) /\ job.snap # <<>> /\ job.snap # Absent  BY <1>1, Constants DEF OfTheUser, Listed, Contained
<1>3. NotesSound(disk, history)
  <2>1. CASE job.new
    <3>1. disk["latest"] = Integration!Mask(job.snap) /\ disk["original"] = Integration!FirstOriginal(job.snap)
      BY <2>1 DEF ApplyNotes, InHand
    <3>2. LatestOf(disk) = job.snap /\ disk["latest"] \in NoteLists /\ disk["latest"] # <<>>  BY <1>2, <3>1, MaskBack
    <3> QED  BY <1>1, <3>2 DEF NotesSound
  <2>2. CASE ~job.new
    <3>1. disk["latest"] = job.was["latest"] /\ disk["original"] = job.was["original"]  BY <2>2 DEF ApplyNotes, InHand
    <3>2. NotesSound(job.was, history)  BY DEF Plan, Rests, Stands
    <3>3. LatestOf(disk) = LatestOf(job.was)  BY <3>1 DEF LatestOf
    <3> QED  BY <1>1, <3>1, <3>2, <3>3 DEF NotesSound
  <2> QED  BY <2>1, <2>2 DEF Plan
<1>4. BaseOf(disk) = job.snap /\ job.snap # None  BY <1>1, <1>2, Constants DEF BaseOf
<1>5. SnapOfFiles /\ DOMAIN job.snap = DOMAIN job.files
  <2>1. SnapOfFiles  BY DEF ApplySnap, InHand
  <2>2. Len(job.snap) = Len(job.files)  BY <2>1 DEF SnapOfFiles
  <2>3. DOMAIN job.snap = 1 .. Len(job.snap)  BY <1>2, Members
  <2> QED  BY <2>1, <2>2, <2>3 DEF Plan
<1>6. ASSUME NEW p \in Files, own[p] # None
      PROVE  Integration!Has(job.snap, p) /\ (mishaps = {} => Integration!Of(job.snap, p) = own[p])
  <2>1. ASSUME NEW k \in DOMAIN job.files, job.files[k].path = p
        PROVE  Integration!Has(job.snap, p) /\ Integration!Of(job.snap, p) = job.snap[k].content
    BY <1>1, <1>5, <2>1, OfListed DEF SnapOfFiles, OfTheUser
  <2>2. CASE IsReplaced(p)
    <3>1. PICK k \in 1 .. Replaced : job.files[k].path = p  BY <2>2 DEF IsReplaced
    <3>2. k \in DOMAIN job.files  BY <3>1 DEF Replaced, Plan
    <3>3. mishaps = {} => job.snap[k].content = own[p]  BY <3>1 DEF ApplyOwn
    <3> QED  BY <2>1, <3>1, <3>2, <3>3
  <2>3. CASE ~IsReplaced(p) /\ job.owned[p] # None
    <3>1. CASE job.new
      <4>1. p = job.files[1].path /\ 1 \in DOMAIN job.files
        <5>1. job.legacy # None /\ job.files[1].path = Main  BY <3>1, <2>3 DEF ApplyPlan
        <5>2. job.was["cycle"] = Absent  BY <3>1 DEF ApplyPlan
        <5>3. p = Main  BY <2>3, <5>2 DEF Plan, Rests, Stands, Older
        <5> QED  BY <5>1, <5>3 DEF Plan, ApplyPlan
      <4>2. mishaps = {} => job.snap[1].content = job.owned[p]  BY <2>3, <4>1 DEF ApplySnap, InHand, SnapExact
      <4>3. mishaps = {} => own[p] = job.owned[p]
        BY <1>6, <2>3 DEF ApplyOwn, Untouched, Plan
      <4> QED  BY <2>1, <4>1, <4>2, <4>3
    <3>2. CASE ~job.new
      <4>1. job.snap = job.was["cycle"] /\ BaseOf(job.was) = job.snap  BY <3>2, <1>2 DEF ApplyPlan, BaseOf
      <4>2. Integration!Has(job.snap, p) /\ (mishaps = {} => Integration!Of(job.snap, p) = job.owned[p])
        BY <2>3, <4>1 DEF Plan, Rests, Stands, Gives
      <4>3. mishaps = {} => own[p] = job.owned[p]
        BY <1>6, <2>3 DEF ApplyOwn, Untouched, Plan
      <4> QED  BY <4>2, <4>3
    <3> QED  BY <3>1, <3>2 DEF Plan
  <2>4. CASE ~IsReplaced(p) /\ job.owned[p] = None
    <3>1. PICK k \in DOMAIN job.files : job.files[k].path = p  BY <1>6, <2>4 DEF ApplyOwn, InPlan
    <3>2. mishaps = {} => own[p] = None  BY <2>4 DEF ApplyOwn, Untouched, Plan
    <3> QED  BY <1>6, <2>1, <3>1, <3>2
  <2> QED  BY <2>2, <2>3, <2>4
<1>7. Gives(disk, own, mishaps)  BY <1>4, <1>6 DEF Gives
<1>8. Older(disk, own)  BY <1>1, <1>2 DEF Older
<1> QED  BY <1>1, <1>2, <1>3, <1>7, <1>8 DEF Stands, World

\* A rollback drops the notes after it gave everything back.
LEMMA RollbackOrder ==
  ASSUME Plan, RollbackPlan, NEW n, n = Len(job.files) - 3
  PROVE  /\ n \in Nat /\ n > 0 /\ Len(job.files) = n + 3 /\ DOMAIN job.files = 1 .. n + 3
         /\ \A k \in 1 .. n : job.files[k].path \in Files /\ job.files[k].after \in history[job.files[k].path]
         /\ \A k \in n + 1 .. n + 3 : job.files[k].path \in Notes /\ job.files[k].after = Absent
         /\ job.files[n + 1].path = "cycle" /\ job.files[n + 2].path = "latest" /\ job.files[n + 3].path = "original"
<1>1. Len(job.files) \in Nat /\ Len(job.files) > 3 /\ DOMAIN job.files = 1 .. Len(job.files)  BY DEF Plan, RollbackPlan
<1>2. n \in Nat /\ n > 0 /\ Len(job.files) = n + 3 /\ DOMAIN job.files = 1 .. n + 3  BY <1>1
<1>3. \A k \in 1 .. n : k \in DOMAIN job.files /\ k <= n  BY <1>2
<1>4. ASSUME NEW k, NEW j \in 1 .. 3, k = n + j
      PROVE  job.files[k].after = Absent /\ job.files[k].path = <<"cycle", "latest", "original">>[j]
  <2>1. k \in DOMAIN job.files /\ ~(k <= n) /\ k - n = j  BY <1>2, <1>4
  <2> QED  BY <2>1 DEF RollbackPlan
<1>5. \A k \in n + 1 .. n + 3 : k = n + 1 \/ k = n + 2 \/ k = n + 3  BY <1>2
<1>6. /\ job.files[n + 1].path = "cycle" /\ job.files[n + 2].path = "latest" /\ job.files[n + 3].path = "original"
      /\ job.files[n + 1].after = Absent /\ job.files[n + 2].after = Absent /\ job.files[n + 3].after = Absent
  BY <1>4
<1> QED  BY <1>2, <1>3, <1>5, <1>6 DEF RollbackPlan, Notes, Integration!Notes

LEMMA NotesReplaced ==
  ASSUME Plan, RollbackPlan, NEW n, n = Len(job.files) - 3
  PROVE  /\ Replaced \in Nat /\ Replaced <= n + 3
         /\ IsReplaced("cycle") <=> Replaced > n
         /\ IsReplaced("latest") <=> Replaced > n + 1
         /\ IsReplaced("original") <=> Replaced > n + 2
<1>1. /\ n \in Nat /\ Len(job.files) = n + 3 /\ DOMAIN job.files = 1 .. n + 3
      /\ job.files[n + 1].path = "cycle" /\ job.files[n + 2].path = "latest" /\ job.files[n + 3].path = "original"
  BY RollbackOrder
<1>2. Replaced \in Nat /\ Replaced <= n + 3  BY <1>1 DEF Replaced, Plan
<1>3. \A k, l \in DOMAIN job.files : job.files[k].path = job.files[l].path => k = l  BY DEF Plan
<1>4. \A k \in 1 .. Replaced : k \in DOMAIN job.files  BY <1>1, <1>2
<1>5. n + 1 \in DOMAIN job.files /\ n + 2 \in DOMAIN job.files /\ n + 3 \in DOMAIN job.files  BY <1>1
<1>6. \A k \in 1 .. Replaced : /\ job.files[k].path = "cycle" <=> k = n + 1
                               /\ job.files[k].path = "latest" <=> k = n + 2
                               /\ job.files[k].path = "original" <=> k = n + 3
  BY <1>1, <1>3, <1>4, <1>5
<1> QED  BY <1>1, <1>2, <1>6 DEF IsReplaced

LEMMA AllGivenBack ==
  ASSUME Plan, RollbackPlan, RollbackStands, Replaced >= Len(job.files) - 3, NEW p \in Files
  PROVE  own[p] = None
<1> DEFINE n == Len(job.files) - 3
<1>1. n \in Nat /\ Replaced \in Nat /\ Replaced >= n /\ DOMAIN job.files = 1 .. n + 3
      /\ \A k \in n + 1 .. n + 3 : job.files[k].path \in Notes
  BY RollbackOrder, NotesReplaced
<1> HIDE DEF n
<1> SUFFICES ASSUME own[p] # None  PROVE FALSE  OBVIOUS
<1>2. job.owned[p] # None /\ ~IsReplaced(p)  BY DEF RollbackStands, Untouched
<1>3. PICK k \in DOMAIN job.files : job.files[k].path = p  BY <1>2 DEF RollbackPlan, InPlan
<1>4. k \notin n + 1 .. n + 3  BY <1>1, <1>3, Constants
<1>5. k \in 1 .. Replaced  BY <1>1, <1>4
<1> QED  BY <1>2, <1>3, <1>5 DEF IsReplaced

LEMMA RollingStands ==
  ASSUME World, Plan, RollbackPlan, RollbackStands
  PROVE  Stands(disk, own, history, mishaps)
<1> DEFINE n == Len(job.files) - 3
<1>1. n \in Nat /\ Replaced \in Nat /\ Replaced <= n + 3  BY RollbackOrder, NotesReplaced
<1>2. /\ IsReplaced("cycle") <=> Replaced > n
      /\ IsReplaced("latest") <=> Replaced > n + 1
      /\ IsReplaced("original") <=> Replaced > n + 2
  BY NotesReplaced
<1>3. /\ disk["cycle"] = IF IsReplaced("cycle") THEN Absent ELSE job.was["cycle"]
      /\ disk["latest"] = IF IsReplaced("latest") THEN Absent ELSE job.was["latest"]
      /\ disk["original"] = IF IsReplaced("original") THEN Absent ELSE job.was["original"]
  BY DEF RollbackStands, Notes, Integration!Notes
<1>4. \A p \in Files : own[p] \in {None, job.owned[p]}
                       /\ (own[p] # None /\ job.was["cycle"] = Absent => Managed(disk[p]))
  BY DEF RollbackStands, Untouched
<1>5. CASE Replaced <= n
  <2>1. \A note \in Notes : disk[note] = job.was[note]  BY <1>1, <1>2, <1>3, <1>5 DEF Notes, Integration!Notes
  <2> QED  BY <1>4, <2>1, StandsAgain
<1>6. CASE Replaced > n
  <2>1. \A p \in Files : own[p] = None  BY <1>1, <1>6, AllGivenBack
  <2>2. disk["cycle"] = Absent  BY <1>2, <1>3, <1>6
  <2>3. disk["latest"] # Absent => disk["latest"] = job.was["latest"] /\ disk["original"] = job.was["original"]
    BY <1>1, <1>2, <1>3
  <2>4. NotesSound(job.was, history)  BY DEF Plan, Rests, Stands
  <2>5. NotesSound(disk, history)  BY <2>2, <2>3, <2>4 DEF NotesSound, LatestOf
  <2> QED  BY <2>1, <2>5 DEF Stands, Gives, Older, World
<1> QED  BY <1>1, <1>5, <1>6


(***************************************************************************)
(* The start                                                               *)
(***************************************************************************)

LEMMA TakeoverStarts == Integration!TakeoverInit => TakeoverInvariant
<1> SUFFICES ASSUME Integration!TakeoverInit  PROVE World /\ job.pc = "idle" /\ Idle
  BY DEF TakeoverInvariant
<1> DEFINE mine == [route |-> "own", rest |-> 0]
<1>1. PICK was \in {Absent, mine}, legacy \in BOOLEAN :
        /\ disk = IF legacy THEN Integration!Legacy(was, address) ELSE Integration!Fresh(was)
        /\ history = [p \in Files |-> {IF p = Main THEN was ELSE disk[p]}]
        /\ own = [p \in Files |-> IF legacy /\ p = Main THEN was ELSE None]
  BY DEF Integration!TakeoverInit, Files, Main
<1> DEFINE taken == [route |-> address, rest |-> 0]
           entry == Integration!Entry(Main, was)
<1>2. /\ mine \in FileContents /\ taken \in FileContents /\ was \in FileContents /\ Absent \in FileContents
      /\ ~Managed(mine) /\ ~Managed(was) /\ Managed(taken) /\ None \notin FileContents
  <2>1. address \in Addresses  BY DEF Integration!TakeoverInit
  <2>2. mine # Absent /\ taken # Absent  BY <2>1, TakeoverAssumption
  <2> QED  BY <2>1, <2>2, TakeoverAssumption DEF FileContents, Managed, Integration!IsManaged
<1>3. Main \in Files /\ \A p \in Files : p # "cycle" /\ p # "latest" /\ p # "original"
  BY Constants DEF Notes, Integration!Notes
<1>4. /\ disk = [spot \in Files \cup Notes |-> disk[spot]] /\ disk["cycle"] = Absent
      /\ disk[Main] = IF legacy THEN taken ELSE was
      /\ \A p \in Files : p # Main => disk[p] = mine
      /\ disk["latest"] = (IF legacy THEN Integration!Mask(<<entry>>) ELSE Absent)
      /\ disk["original"] = (IF legacy THEN Integration!FirstOriginal(<<entry>>) ELSE Absent)
  <2>1. CASE legacy
    BY <1>1, <1>3, <2>1 DEF Integration!Legacy, Integration!Fresh, Files, Main, Notes, Integration!Notes
  <2>2. CASE ~legacy
    BY <1>1, <1>3, <2>2 DEF Integration!Fresh, Files, Main, Notes, Integration!Notes
  <2> QED  BY <2>1, <2>2
<1> HIDE DEF mine, taken
<1>5. World
  <2>1. own \in [Files -> FileContents \cup {None}]  BY <1>1, <1>2
  <2>2. \A p \in Files : history[p] = {IF p = Main THEN was ELSE disk[p]}  BY <1>1
  <2>3. \A p \in Files : disk[p] \in FileContents /\ (own[p] = None => disk[p] \in history[p])
                         /\ (\A content \in history[p] : ~Managed(content))
    BY <1>1, <1>2, <1>4, <2>2
  <2>4. history \in [Files -> SUBSET FileContents]  BY <1>1, <1>2, <1>4
  <2>5. left \in [edits : Int, calls : Int, failures : Int, crashes : Int]  BY TakeoverAssumption DEF Integration!TakeoverInit
  <2>6. address \in Addresses /\ target \in DOMAIN Layouts  BY DEF Integration!TakeoverInit
  <2> QED  BY <1>4, <2>1, <2>3, <2>4, <2>5, <2>6 DEF World
<1>6. job = [pc |-> "idle", answer |-> "none", was |-> None] /\ mishaps = {}  BY DEF Integration!TakeoverInit
<1>7. NotesSound(disk, history) /\ Gives(disk, own, mishaps) /\ Older(disk, own)
  <2>1. CASE ~legacy
    BY <1>1, <1>4, <2>1 DEF NotesSound, Gives, Older
  <2>2. CASE legacy
    <3>1. <<entry>> \in Seq(Contained) /\ <<entry>> # <<>> /\ entry.path = Main /\ entry.content = was
      BY <1>2, <1>3 DEF Contained, Integration!Entry
    <3>2. LatestOf(disk) = <<entry>> /\ disk["latest"] \in NoteLists /\ disk["latest"] # <<>>
      BY <1>4, <2>2, <3>1, MaskBack
    <3>3. OfTheUser(<<entry>>, history)
      <4>1. was \in history[Main]  BY <1>1, <1>3
      <4> HIDE DEF entry
      <4> QED  BY <3>1, <4>1 DEF OfTheUser, Listed, Contained
    <3>4. disk["latest"] # Absent  BY <3>2, Constants
    <3>5. NotesSound(disk, history)  BY <1>4, <3>2, <3>3 DEF NotesSound
    <3>6. BaseOf(disk) = <<entry>> /\ <<entry>> # None  BY <1>4, <3>1, <3>2, <3>4, Constants DEF BaseOf
    <3>7. Integration!Has(<<entry>>, Main) /\ Integration!Of(<<entry>>, Main) = was
      <4> HIDE DEF entry
      <4> QED  BY <3>1, <3>3, OfListed DEF OfTheUser
    <3>8. Gives(disk, own, mishaps)  BY <1>1, <3>6, <3>7 DEF Gives
    <3>9. \A i \in DOMAIN disk["latest"] : disk["latest"][i].path = Main
      <4> HIDE DEF entry
      <4> QED  BY <3>1, <3>2, LatestPaths
    <3>10. Older(disk, own)  BY <1>1, <1>2, <1>4, <2>2, <3>4, <3>9 DEF Older
    <3> QED  BY <3>5, <3>8, <3>10
  <2> QED  BY <2>1, <2>2
<1>8. Idle  BY <1>4, <1>5, <1>6, <1>7 DEF Idle, Rests, Stands, Whole, World
<1> QED  BY <1>5, <1>6, <1>8

(***************************************************************************)
(* How a job goes on                                                       *)
(***************************************************************************)

NextJob(pc, i, snap, recovered, undisturbed) ==
    /\ IsJob(job')
    /\ job'.pc = pc /\ job'.i = i /\ job'.snap = snap /\ job'.recovered = recovered /\ job'.undisturbed = undisturbed
    /\ job'.op = job.op /\ job'.files = job.files /\ job'.new = job.new /\ job'.legacy = job.legacy
    /\ job'.was = job.was /\ job'.owned = job.owned

LEMMA JobMoves ==
  ASSUME Plan
  PROVE  /\ \A pc : Integration!Go(pc) => NextJob(pc, job.i, job.snap, job.recovered, job.undisturbed)
         /\ \A pc, snap : job' = [job EXCEPT !.pc = pc, !.snap = snap] => NextJob(pc, job.i, snap, job.recovered, job.undisturbed)
         /\ job' = [job EXCEPT !.i = @ + 1] => NextJob(job.pc, job.i + 1, job.snap, job.recovered, job.undisturbed)
         /\ job' = [job EXCEPT !.pc = "undo", !.i = @ - 1] => NextJob("undo", job.i - 1, job.snap, job.recovered, job.undisturbed)
         /\ job' = [job EXCEPT !.i = @ - 1] => NextJob(job.pc, job.i - 1, job.snap, job.recovered, job.undisturbed)
         /\ job' = [job EXCEPT !.i = @ - 1, !.recovered = FALSE] => NextJob(job.pc, job.i - 1, job.snap, FALSE, job.undisturbed)
         /\ job' = [job EXCEPT !.undisturbed = FALSE] => NextJob(job.pc, job.i, job.snap, job.recovered, FALSE)
<1>1. IsJob(job)  BY DEF Plan
<1>2. ASSUME NEW pc, Integration!Go(pc)  PROVE NextJob(pc, job.i, job.snap, job.recovered, job.undisturbed)
  BY <1>1, <1>2 DEF NextJob, IsJob, Integration!Go
<1>3. ASSUME NEW pc, NEW snap, job' = [job EXCEPT !.pc = pc, !.snap = snap]
      PROVE  NextJob(pc, job.i, snap, job.recovered, job.undisturbed)
  BY <1>1, <1>3 DEF NextJob, IsJob
<1>4. ASSUME job' = [job EXCEPT !.i = @ + 1]  PROVE NextJob(job.pc, job.i + 1, job.snap, job.recovered, job.undisturbed)
  BY <1>1, <1>4 DEF NextJob, IsJob
<1>5. ASSUME job' = [job EXCEPT !.pc = "undo", !.i = @ - 1]
      PROVE  NextJob("undo", job.i - 1, job.snap, job.recovered, job.undisturbed)
  BY <1>1, <1>5 DEF NextJob, IsJob
<1>6. ASSUME job' = [job EXCEPT !.i = @ - 1]  PROVE NextJob(job.pc, job.i - 1, job.snap, job.recovered, job.undisturbed)
  BY <1>1, <1>6 DEF NextJob, IsJob
<1>7. ASSUME job' = [job EXCEPT !.i = @ - 1, !.recovered = FALSE]
      PROVE  NextJob(job.pc, job.i - 1, job.snap, FALSE, job.undisturbed)
  BY <1>1, <1>7 DEF NextJob, IsJob
<1>8. ASSUME job' = [job EXCEPT !.undisturbed = FALSE]  PROVE NextJob(job.pc, job.i, job.snap, job.recovered, FALSE)
  BY <1>1, <1>8 DEF NextJob, IsJob
<1> QED  BY <1>2, <1>3, <1>4, <1>5, <1>6, <1>7, <1>8

\* What the user gave and what went wrong only grows.
Grows == (\A p \in Files : history[p] \subseteq history'[p]) /\ mishaps \subseteq mishaps'

LEMMA PlanKept ==
  ASSUME Plan, Grows, NEW pc \in Steps, NEW i \in Nat, NEW snap, NEW recovered \in BOOLEAN, NEW undisturbed,
         NextJob(pc, i, snap, recovered, undisturbed), pc \in Early => i = 1,
         pc = "commit" => i \in DOMAIN job.files, pc = "undo" => i < Len(job.files),
         ~recovered => mishaps' # {} /\ pc \in {"commit", "undo"}
  PROVE  /\ Plan'
         /\ RollbackPlan /\ pc \in {"stage", "commit", "undo"} => RollbackPlan'
         /\ ApplyPlan /\ (~job.new => snap = job.snap) => ApplyPlan'
<1>1. /\ job'.pc = pc /\ job'.op = job.op /\ job'.files = job.files /\ job'.new = job.new /\ job'.legacy = job.legacy
      /\ job'.i = i /\ job'.recovered = recovered /\ job'.snap = snap /\ job'.was = job.was /\ job'.owned = job.owned
      /\ job'.undisturbed = undisturbed
  BY DEF NextJob
<1>2. IsJob(job')  BY DEF NextJob
<1>3. Rests(job.was, job.owned, history', mishaps')  BY Later DEF Plan, Rests, Grows
<1>4. Plan'
  <2>1. /\ job'.pc \in Steps /\ job'.recovered \in BOOLEAN /\ job'.i \in Nat /\ (job'.pc \in Early => job'.i = 1)
        /\ (job'.pc = "commit" => job'.i \in DOMAIN job'.files) /\ (job'.pc = "undo" => job'.i < Len(job'.files))
        /\ (~job'.recovered => mishaps' # {} /\ job'.pc \in {"commit", "undo"})
    BY <1>1
  <2>2. Rests(job'.was, job'.owned, history', mishaps')  BY <1>1, <1>3
  <2>3. job'.op \in {"apply", "rollback"} /\ job'.new \in BOOLEAN  BY <1>1 DEF Plan
  <2>4. /\ Len(job.files) \in Nat /\ Len(job.files) > 0 /\ DOMAIN job.files = 1 .. Len(job.files)
        /\ \A k \in DOMAIN job.files : job.files[k].path \in Files \cup Notes
        /\ \A k, l \in DOMAIN job.files : job.files[k].path = job.files[l].path => k = l
        /\ \A k \in DOMAIN job.files : job.files[k].before = job.was[job.files[k].path]
    BY DEF Plan
  <2>5. job'.was = [spot \in Files \cup Notes |-> job'.was[spot]] /\ job'.owned \in [Files -> FileContents \cup {None}]
    BY <1>1 DEF Plan
  <2>6. /\ Len(job'.files) \in Nat /\ Len(job'.files) > 0 /\ DOMAIN job'.files = 1 .. Len(job'.files)
        /\ \A k \in DOMAIN job'.files : job'.files[k].path \in Files \cup Notes
        /\ \A k, l \in DOMAIN job'.files : job'.files[k].path = job'.files[l].path => k = l
        /\ \A k \in DOMAIN job'.files : job'.files[k].before = job'.was[job'.files[k].path]
    BY ONLY <1>1, <2>4
  <2> QED  BY ONLY <1>2, <2>1, <2>2, <2>3, <2>5, <2>6 DEF Plan
<1>5. RollbackPlan /\ pc \in {"stage", "commit", "undo"} => RollbackPlan'
  BY <1>1 DEF RollbackPlan, Grows, InPlan
<1>6. ApplyPlan /\ (~job.new => snap = job.snap) => ApplyPlan'
  BY <1>1 DEF ApplyPlan
<1> QED  BY <1>4, <1>5, <1>6

Lefts == [edits : Int, calls : Int, failures : Int, crashes : Int]

LEMMA LeftKept ==
  ASSUME World
  PROVE  /\ left' = left => left' \in Lefts
         /\ Integration!CountFailure => left' \in Lefts
         /\ left' = [left EXCEPT !.calls = @ - 1] => left' \in Lefts
         /\ left' = [left EXCEPT !.edits = @ - 1] => left' \in Lefts
         /\ left' = [left EXCEPT !.crashes = @ - 1] => left' \in Lefts
<1>1. left \in Lefts  BY DEF World, Lefts
<1>2. \A n \in Int : n - 1 \in Int  OBVIOUS
<1>3. left.edits \in Int /\ left.calls \in Int /\ left.failures \in Int /\ left.crashes \in Int  BY <1>1 DEF Lefts
<1> QED  BY <1>1, <1>2, <1>3 DEF Lefts, Integration!CountFailure

LEMMA WorldStays ==
  ASSUME World, UNCHANGED <<disk, own, history>>, address' \in Addresses, target' \in DOMAIN Layouts, left' \in Lefts
  PROVE  World'
BY DEF World, Lefts

LEMMA WorldNoted ==
  ASSUME World, NEW note \in Notes, NEW content, disk' = [disk EXCEPT ![note] = content],
         UNCHANGED <<own, history, address, target>>, left' \in Lefts
  PROVE  /\ World' /\ disk'[note] = content
         /\ \A p \in Files : disk'[p] = disk[p]
         /\ \A other \in Notes : other # note => disk'[other] = disk[other]
<1>1. note \notin Files /\ \A p \in Files : p # note  BY Constants
<1>2. disk = [spot \in Files \cup Notes |-> disk[spot]]  BY DEF World
<1>3. disk' = [spot \in Files \cup Notes |-> disk'[spot]]  BY <1>2
<1>4. disk'[note] = content /\ (\A p \in Files : disk'[p] = disk[p]) /\ \A other \in Notes : other # note => disk'[other] = disk[other]
  BY <1>1, <1>2
<1>5. World'  BY <1>3, <1>4 DEF World, Lefts
<1> QED  BY <1>4, <1>5

LEMMA NothingGrows ==
  ASSUME UNCHANGED <<history, mishaps>>
  PROVE  Grows
BY DEF Grows

LEMMA NoneReplaced ==
  /\ Replaced = 0 => \A p : ~IsReplaced(p)
  /\ Replaced' = 0 => \A p : ~IsReplaced(p)'
BY DEF IsReplaced

\* What of a takeover's bookkeeping no step before the first file can disturb.
LEMMA OwnStays ==
  ASSUME ApplyOwn, Replaced = 0, Replaced' = 0, UNCHANGED <<own, mishaps>>, \A p \in Files : disk'[p] = disk[p],
         NEW pc, NEW i, NEW snap, NextJob(pc, i, snap, job.recovered, job.undisturbed)
  PROVE  ApplyOwn'
<1>1. \A p : ~IsReplaced(p)' /\ ~IsReplaced(p)  BY NoneReplaced
<1>2. \A p \in Files : own'[p] # None => job'.owned[p] # None \/ InPlan(p)'  BY DEF ApplyOwn, NextJob, InPlan
<1>3. \A p \in Files : Untouched(p) => Untouched(p)'  BY DEF Untouched, NextJob
<1>4. job'.recovered => \A p \in Files : IsReplaced(p)' \/ Untouched(p)'  BY <1>1, <1>3 DEF ApplyOwn, NextJob
<1>5. \A k \in 1 .. Replaced' : mishaps' = {} => job'.snap[k].content = own'[job'.files[k].path]  OBVIOUS
<1> QED  BY <1>1, <1>2, <1>4, <1>5 DEF ApplyOwn

(***************************************************************************)
(* A job fails                                                             *)
(***************************************************************************)

LEMMA ApplyFails ==
  ASSUME World, Underway, job.op = "apply", job.recovered, Replaced = 0, Integration!Fail, UNCHANGED <<disk, own, history, mishaps>>
  PROVE  Underway' /\ job'.pc # "idle"
<1>1. NextJob("latest back", job.i, job.snap, job.recovered, job.undisturbed)
  <2>1. Integration!Go("latest back")  BY DEF Integration!Fail, Integration!AfterFailure
  <2> QED  BY <2>1, JobMoves DEF Underway
<1>2. Plan /\ ApplyPlan /\ ApplySnap /\ ApplyNotes /\ ApplyOwn  BY DEF Underway
<1>3. Plan' /\ ApplyPlan'
  <2>1. "latest back" \in Steps /\ "latest back" \notin Early  BY DEF Steps, Early
  <2>2. job.i \in Nat  BY <1>2 DEF Plan
  <2> QED  BY <1>1, <1>2, <2>1, <2>2, PlanKept, NothingGrows
<1>4. job'.pc = "latest back" /\ Replaced' = 0  BY <1>1 DEF NextJob, Replaced
<1>5. ApplySnap'  BY <1>1, <1>2 DEF NextJob, ApplySnap, InHand, SnapOfFiles
<1>6. ApplyNotes'  BY <1>1 DEF NextJob, ApplyNotes, InHand
<1>7. ApplyOwn'  BY <1>1, <1>2, <1>4, OwnStays
<1> QED  BY <1>1, <1>3, <1>4, <1>5, <1>6, <1>7 DEF NextJob, Underway

LEMMA LostApplyEnds ==
  ASSUME World, Underway, job.op = "apply", ~job.recovered, Integration!Fail, UNCHANGED <<disk, own, history, mishaps>>
  PROVE  Idle' /\ job'.pc = "idle"
<1>1. job' = [pc |-> "idle", answer |-> "broken", was |-> None]
  BY DEF Integration!Fail, Integration!AfterFailure, Integration!End, Integration!Ended
<1>2. job.pc \in {"commit", "undo"} /\ mishaps # {}  BY DEF Underway, Plan
<1>3. Stands(disk, own, history, mishaps)  BY <1>2, TakenStands DEF Underway
<1> QED  BY <1>1, <1>2, <1>3 DEF Idle, Rests, Whole

LEMMA RollbackFails ==
  ASSUME World, Underway, job.op = "rollback", Replaced = 0, Integration!Fail, UNCHANGED <<disk, own, history, mishaps>>
  PROVE  Idle' /\ job'.pc = "idle"
<1>1. Integration!End(IF job.recovered /\ job.undisturbed THEN "failed" ELSE "broken")
  BY DEF Integration!Fail, Integration!AfterFailure
<1>2. Plan /\ RollbackPlan /\ RollbackStands  BY DEF Underway
<1>3. \A p : ~IsReplaced(p)  BY DEF IsReplaced
<1>4. \A p \in Files : Untouched(p) \/ (mishaps # {} /\ own[p] = None)  BY <1>2, <1>3 DEF RollbackStands, Plan
<1>5. \A note \in Notes : disk[note] = job.was[note]  BY <1>2, <1>3 DEF RollbackStands
<1>6. Rests(disk, own, history, mishaps)  BY <1>2, <1>4, <1>5, RestsAgain
<1>7. mishaps = {} /\ job.undisturbed => disk = job.was
  <2> SUFFICES ASSUME mishaps = {}, job.undisturbed  PROVE disk = job.was  OBVIOUS
  <2>1. \A spot \in Files \cup Notes : disk[spot] = job.was[spot]  BY <1>4, <1>5 DEF Untouched
  <2>2. [spot \in Files \cup Notes |-> disk[spot]] = [spot \in Files \cup Notes |-> job.was[spot]]  BY <2>1
  <2> QED  BY <1>2, <2>2 DEF World, Plan
<1>8. CASE job.recovered /\ job.undisturbed
  <2>1. job' = [pc |-> "idle", answer |-> "failed", was |-> job.was]  BY <1>1, <1>8 DEF Integration!End, Integration!Ended
  <2> QED  BY <1>6, <1>7, <1>8, <2>1 DEF Idle
<1>9. CASE ~(job.recovered /\ job.undisturbed)
  <2>1. job' = [pc |-> "idle", answer |-> "broken", was |-> None]  BY <1>1, <1>9 DEF Integration!End, Integration!Ended
  <2> QED  BY <1>6, <2>1 DEF Idle
<1> QED  BY <1>8, <1>9

LEMMA Fails ==
  ASSUME World, Underway, job.pc \in {"commit", "undo"} => Replaced = 0, Integration!Fail, UNCHANGED <<disk, own, history, mishaps>>
  PROVE  IF job'.pc = "idle" THEN Idle' ELSE Underway'
<1>1. Replaced = 0  BY DEF Replaced
<1>2. CASE job.op = "rollback"  BY <1>1, <1>2, RollbackFails
<1>3. CASE job.op = "apply" /\ job.recovered  BY <1>1, <1>3, ApplyFails
<1>4. CASE job.op = "apply" /\ ~job.recovered  BY <1>1, <1>4, LostApplyEnds
<1> QED  BY <1>2, <1>3, <1>4 DEF Underway, Plan

(***************************************************************************)
(* The notes of a takeover                                                 *)
(***************************************************************************)

\* Before a file is replaced, only the backup in hand and the notes change.
NextNote(pc, snap) ==
    /\ NextJob(pc, job.i, snap, job.recovered, job.undisturbed)
    /\ pc \in {"latest", "original", "adopt latest", "adopt original", "cycle", "commit"}
    /\ pc \in {"latest", "original", "adopt latest", "adopt original"} => job.new
    /\ pc \in {"adopt latest", "adopt original"} => job.legacy # None
    /\ ~job.new => snap = job.snap
Noting == job.op = "apply" /\ job.pc \in Early /\ job.pc # "stage"

LEMMA NotingKept ==
  ASSUME World, Underway, Noting, NEW pc, NEW snap, NextNote(pc, snap),
         UNCHANGED <<own, history, mishaps>>, \A p \in Files : disk'[p] = disk[p], ApplySnap', ApplyNotes'
  PROVE  Underway'
<1> USE DEF NextNote, Noting
<1>1. Plan /\ ApplyPlan /\ ApplyOwn  BY DEF Underway
<1>2. job.i = 1 /\ 1 \in DOMAIN job.files
  <2>1. Len(job.files) \in Nat /\ Len(job.files) > 0 /\ DOMAIN job.files = 1 .. Len(job.files) /\ job.i = 1  BY <1>1 DEF Plan
  <2>2. 1 \in 1 .. Len(job.files)  BY ONLY <2>1
  <2> QED  BY <2>1, <2>2
<1>3. Plan' /\ ApplyPlan'
  <2>1. pc \in Steps /\ pc # "undo"  BY DEF Steps, Early
  <2>2. job.recovered  BY <1>1 DEF Plan, Early
  <2> QED  BY <1>1, <1>2, <2>1, <2>2, PlanKept, NothingGrows
<1>4. Replaced' = 0 /\ Replaced = 0
  <2>1. job.pc # "commit" /\ job.pc # "undo" /\ pc # "undo" /\ job'.pc = pc /\ job'.i = 1  BY <1>2 DEF NextJob, Early
  <2>2. Replaced = 0  BY <2>1 DEF Replaced
  <2>3. CASE pc = "commit"
    <3>1. Replaced' = 1 - 1  BY <2>1, <2>3 DEF Replaced
    <3>2. Replaced' = 0  BY ONLY <3>1
    <3> QED  BY <2>2, <3>2
  <2>4. CASE pc # "commit"
    <3>1. Replaced' = 0  BY <2>1, <2>4 DEF Replaced
    <3> QED  BY <2>2, <3>1
  <2> QED  BY <2>3, <2>4
<1>5. ApplyOwn'  BY <1>1, <1>4, OwnStays
<1> QED  BY <1>3, <1>5 DEF NextJob, Underway

\* An earlier takeover's originals are the originals of this one.
LEMMA OldCycle ==
  ASSUME Plan, ApplyPlan, ~job.new, SnapOfFiles, NEW k \in DOMAIN job.files
  PROVE  /\ job.snap[k].content \in history[job.files[k].path]
         /\ mishaps = {} => /\ job.owned[job.files[k].path] # None
                            /\ job.snap[k].content = job.owned[job.files[k].path]
<1>1. job.snap = job.was["cycle"] /\ job.was["cycle"] # Absent  BY DEF ApplyPlan, Plan
<1>2. Stands(job.was, job.owned, history, mishaps) /\ Whole(job.was, job.owned, mishaps)  BY DEF Plan, Rests
<1>3. OfTheUser(job.snap, history)  BY <1>1, <1>2 DEF Stands, NotesSound
<1>4. DOMAIN job.snap = DOMAIN job.files /\ job.snap[k].path = job.files[k].path /\ job.files[k].path \in Files
  BY <1>3, ListedMembers DEF SnapOfFiles, Plan
<1>5. Integration!Of(job.snap, job.files[k].path) = job.snap[k].content  BY <1>3, <1>4, OfListed DEF OfTheUser
<1>6. BaseOf(job.was) = job.snap  BY <1>1 DEF BaseOf
<1>7. mishaps = {} => job.owned[job.files[k].path] # None  BY <1>1, <1>2, <1>4 DEF Whole
<1>8. mishaps = {} => job.snap[k].content = job.owned[job.files[k].path]
  BY <1>2, <1>4, <1>5, <1>6, <1>7 DEF Stands, Gives
<1> QED  BY <1>3, <1>4, <1>7, <1>8 DEF OfTheUser

LEMMA StageKept ==
  ASSUME World, Underway, Integration!Stage, UNCHANGED <<history, mishaps>>
  PROVE  IF job'.pc = "idle" THEN Idle' ELSE Underway'
<1>1. CASE Integration!Fail
  BY <1>1, Fails DEF Integration!Stage
<1>2. CASE Integration!Go(IF job.op = "rollback" THEN "commit" ELSE IF job.new THEN "latest" ELSE "cycle")
  <2> DEFINE pc == IF job.op = "rollback" THEN "commit" ELSE IF job.new THEN "latest" ELSE "cycle"
  <2>1. job.pc = "stage" /\ job.i = 1 /\ UNCHANGED <<disk, own>> /\ Plan  BY DEF Integration!Stage, Underway, Plan, Early
  <2>2. NextJob(pc, 1, job.snap, job.recovered, job.undisturbed)  BY <1>2, <2>1, JobMoves
  <2>3. pc \in Steps /\ job.recovered  BY <2>1 DEF Plan, Steps, Early
  <2>4. CASE job.op = "rollback"
    <3>1. RollbackPlan /\ RollbackStands  BY <2>4 DEF Underway
    <3>2. 1 \in DOMAIN job.files  BY <2>1, <3>1 DEF Plan, RollbackPlan
    <3>3. Plan' /\ RollbackPlan'  BY <2>1, <2>2, <2>3, <2>4, <3>1, <3>2, PlanKept, NothingGrows DEF Early
    <3>4. \A p : ~IsReplaced(p) /\ ~IsReplaced(p)'  BY <2>1, <2>2, <2>4 DEF IsReplaced, Replaced, NextJob
    <3>5. RollbackStands'
      BY <2>1, <2>2, <3>1, <3>4 DEF RollbackStands, Untouched, NextJob
    <3> QED  BY <2>2, <2>4, <3>3, <3>5 DEF NextJob, Underway
  <2>5. CASE job.op = "apply" /\ job.new
    <3>1. ApplySnap' /\ ApplyNotes'
      BY <2>1, <2>2, <2>5 DEF NextJob, ApplySnap, ApplyNotes, InHand
    <3>2. ApplyPlan /\ ApplyOwn  BY <2>5 DEF Underway
    <3>3. Plan' /\ ApplyPlan'
      BY <2>1, <2>2, <2>3, <2>5, <3>2, PlanKept, NothingGrows DEF Plan, Steps, Early
    <3>4. \A p : ~IsReplaced(p)' /\ ~IsReplaced(p) /\ Replaced' = 0
      BY <2>1, <2>2, <2>5 DEF NextJob, Replaced, IsReplaced
    <3>5. ApplyOwn'  BY <2>1, <2>2, <3>2, <3>4 DEF NextJob, ApplyOwn, Untouched, InPlan
    <3> QED  BY <2>2, <2>5, <3>1, <3>3, <3>5 DEF NextJob, Underway
  <2>6. CASE job.op = "apply" /\ ~job.new
    <3>1. ApplyPlan /\ ApplyOwn /\ ApplySnap /\ ApplyNotes /\ SnapOfFiles  BY <2>6 DEF Underway, ApplySnap
    <3>2. Plan' /\ ApplyPlan'
      BY <2>1, <2>2, <2>3, <2>6, <3>1, PlanKept, NothingGrows DEF Plan, Steps, Early
    <3>3. \A p : ~IsReplaced(p)' /\ ~IsReplaced(p) /\ Replaced' = 0
      BY <2>1, <2>2, <2>6 DEF NextJob, Replaced, IsReplaced
    <3>4. ApplyOwn'  BY <2>1, <2>2, <3>1, <3>3 DEF NextJob, ApplyOwn, Untouched, InPlan
    <3>5. SnapOfFiles'  BY <2>2, <3>1 DEF SnapOfFiles, NextJob
    <3>6. \A k \in DOMAIN job.files : SnapExact(k)' /\ job.snap[k].content \in history[job.files[k].path]
      BY <2>1, <2>2, <2>6, <3>1, OldCycle DEF SnapExact, NextJob
    <3>7. ApplySnap'  BY <2>2, <3>5, <3>6 DEF ApplySnap, NextJob
    <3>8. ApplyNotes'  BY <2>1, <2>2, <2>6, <3>1 DEF ApplyNotes, NextJob, InHand
    <3> QED  BY <2>2, <2>6, <3>2, <3>4, <3>7, <3>8 DEF NextJob, Underway
  <2> QED  BY <2>1, <2>4, <2>5, <2>6 DEF Plan
<1> QED  BY <1>1, <1>2 DEF Integration!Stage

LEMMA FilesFacts ==
  ASSUME Plan, ApplyPlan
  PROVE  /\ Len(job.files) \in Nat /\ Len(job.files) > 0 /\ DOMAIN job.files = 1 .. Len(job.files) /\ 1 \in DOMAIN job.files
         /\ \A k \in DOMAIN job.files : job.files[k].path \in Files
         /\ Integration!PathsOf(job.files) \in Seq(Files) /\ Len(Integration!PathsOf(job.files)) = Len(job.files)
         /\ \A k \in DOMAIN job.files : Integration!PathsOf(job.files)[k] = job.files[k].path
<1> DEFINE f == [i \in DOMAIN job.files |-> job.files[i].path]
<1>1. Len(job.files) \in Nat /\ Len(job.files) > 0 /\ DOMAIN job.files = 1 .. Len(job.files)  BY DEF Plan
<1>2. 1 \in 1 .. Len(job.files)  BY ONLY <1>1
<1>3. \A k \in DOMAIN job.files : job.files[k].path \in Files  BY DEF ApplyPlan
<1>4. f \in [1 .. Len(job.files) -> Files]  BY <1>1, <1>3
<1>5. <<>> \o f = f /\ f \in Seq(Files) /\ Len(f) = Len(job.files)  BY <1>1, <1>4, Listing
<1> QED  BY <1>1, <1>2, <1>3, <1>5 DEF Integration!PathsOf

\* A takeover without a cycle before it finds at most the main file taken over.
LEMMA OnlyMain ==
  ASSUME Plan, ApplyPlan, job.new, NEW p \in Files, job.owned[p] # None
  PROVE  p = Main /\ job.files[1].path = Main /\ job.legacy # None
BY DEF Plan, Rests, Stands, Older, ApplyPlan

LEMMA BackupLatestKept ==
  ASSUME World, Underway, Integration!BackupLatest, UNCHANGED <<history, mishaps, address, target>>
  PROVE  World' /\ Underway'
<1> DEFINE snap == Integration!Snapshot(Integration!PathsOf(job.files))
<1>1. job.pc = "latest" /\ UNCHANGED own /\ job.op = "apply" /\ job.new /\ Plan /\ ApplyPlan /\ ApplyOwn /\ job.recovered
  BY DEF Integration!BackupLatest, Underway, RollbackPlan, Plan
<1>2. CASE Integration!CountFailure /\ Integration!Fail /\ UNCHANGED disk
  <2>1. World'  BY <1>1, <1>2, WorldStays, LeftKept DEF World
  <2>2. Replaced = 0  BY <1>1 DEF Replaced
  <2> QED  BY <1>1, <1>2, <2>1, <2>2, ApplyFails
<1>3. CASE disk' = [disk EXCEPT !["latest"] = Integration!Mask(snap)] /\ job' = [job EXCEPT !.pc = "original", !.snap = snap] /\ UNCHANGED left
  <2>1. "latest" \in Notes /\ left' \in Lefts  BY <1>3, LeftKept DEF Notes, Integration!Notes
  <2>2. World' /\ disk'["latest"] = Integration!Mask(snap) /\ \A p \in Files : disk'[p] = disk[p]
    BY <1>1, <1>3, <2>1, WorldNoted
  <2>3. NextJob("original", job.i, snap, job.recovered, job.undisturbed)  BY <1>1, <1>3, JobMoves
  <2>4. /\ snap \in Seq(Contained) /\ Len(snap) = Len(job.files)
        /\ \A k \in DOMAIN job.files : snap[k].path = job.files[k].path /\ snap[k].content = disk[job.files[k].path]
    BY <1>1, FilesFacts, Snapshots
  <2> HIDE DEF snap
  <2>5. SnapOfFiles'  BY <2>3, <2>4 DEF SnapOfFiles, NextJob, Contained
  <2>6. ASSUME NEW k \in DOMAIN job.files
        PROVE  /\ SnapExact(k)'
               /\ snap[k].content \in history[job.files[k].path] \/ (job.legacy # None /\ k = 1)
    <3> DEFINE p == job.files[k].path
    <3>1. p \in Files /\ disk'[p] = disk[p] /\ snap[k].content = disk[p]  BY <1>1, <2>2, <2>4, FilesFacts
    <3>2. SnapExact(k)'  BY <2>3, <3>1 DEF SnapExact, NextJob
    <3>3. CASE own[p] = None  BY <3>1, <3>2, <3>3 DEF World
    <3>4. CASE own[p] # None
      <4>1. Replaced = 0  BY <1>1 DEF Replaced
      <4>2. Untouched(p)  BY <1>1, <3>1, <4>1, NoneReplaced DEF ApplyOwn
      <4>3. job.owned[p] # None  BY <3>4, <4>2 DEF Untouched
      <4>4. p = job.files[1].path /\ job.legacy # None  BY <1>1, <3>1, <4>3, OnlyMain
      <4>5. k = 1  BY <1>1, <4>4, FilesFacts DEF Plan
      <4> QED  BY <3>2, <4>4, <4>5
    <3> QED  BY <3>3, <3>4
  <2>7. ApplySnap'  BY <2>3, <2>5, <2>6 DEF ApplySnap, NextJob
  <2>8. ApplyNotes'  BY <1>1, <2>2, <2>3 DEF ApplyNotes, NextJob, InHand
  <2>9. Noting /\ NextNote("original", snap)  BY <1>1, <2>3 DEF Noting, NextNote, Early
  <2>10. Underway'  BY <1>1, <2>2, <2>7, <2>8, <2>9, NotingKept
  <2> QED  BY <2>2, <2>10
<1> QED  BY <1>1, <1>2, <1>3 DEF Integration!BackupLatest, Integration!Put

LEMMA BackupOriginalKept ==
  ASSUME World, Underway, Integration!BackupOriginal, UNCHANGED <<history, mishaps, address, target>>
  PROVE  World' /\ Underway'
<1> DEFINE pc == IF job.legacy = None THEN "cycle" ELSE "adopt latest"
<1>1. job.pc = "original" /\ UNCHANGED own /\ job.op = "apply" /\ job.new /\ Plan /\ ApplyPlan /\ ApplyOwn /\ job.recovered
      /\ ApplySnap /\ ApplyNotes
  BY DEF Integration!BackupOriginal, Underway, RollbackPlan, Plan
<1>2. CASE Integration!CountFailure /\ Integration!Fail /\ UNCHANGED disk
  <2>1. World'  BY <1>1, <1>2, WorldStays, LeftKept DEF World
  <2>2. Replaced = 0  BY <1>1 DEF Replaced
  <2> QED  BY <1>1, <1>2, <2>1, <2>2, ApplyFails
<1>3. CASE disk' = [disk EXCEPT !["original"] = Integration!FirstOriginal(job.snap)] /\ Integration!Go(pc) /\ UNCHANGED left
  <2>1. "original" \in Notes /\ "latest" \in Notes /\ left' \in Lefts  BY <1>3, LeftKept DEF Notes, Integration!Notes
  <2>2. World' /\ disk'["original"] = Integration!FirstOriginal(job.snap) /\ disk'["latest"] = disk["latest"]
        /\ \A p \in Files : disk'[p] = disk[p]
    BY <1>1, <1>3, <2>1, WorldNoted
  <2>3. NextJob(pc, job.i, job.snap, job.recovered, job.undisturbed)  BY <1>1, <1>3, JobMoves
  <2>4. SnapOfFiles /\ SnapOfFiles'  BY <1>1, <2>3 DEF ApplySnap, InHand, SnapOfFiles, NextJob
  <2>5. ASSUME NEW k \in DOMAIN job.files
        PROVE  /\ SnapExact(k)'
               /\ job.snap[k].content \in history[job.files[k].path] \/ (pc = "adopt latest" /\ job.legacy # None /\ k = 1)
    <3>1. SnapExact(k) /\ (job.snap[k].content \in history[job.files[k].path] \/ (job.legacy # None /\ k = 1))
      BY <1>1 DEF ApplySnap, InHand
    <3>2. job.files[k].path \in Files /\ disk'[job.files[k].path] = disk[job.files[k].path]  BY <1>1, <2>2, FilesFacts
    <3>3. Replaced = 0  BY <1>1 DEF Replaced
    <3>4. SnapExact(k)'
      <4>1. CASE job.owned[job.files[k].path] = None
        BY <1>1, <2>3, <3>1, <3>2, <3>3, <4>1, NoneReplaced DEF SnapExact, NextJob
      <4>2. CASE job.owned[job.files[k].path] # None
        <5>1. pc = "adopt latest"  BY <1>1, <3>2, <4>2, OnlyMain
        <5> QED  BY <2>3, <4>2, <5>1 DEF SnapExact, NextJob
      <4> QED  BY <4>1, <4>2
    <3> QED  BY <3>1, <3>4
  <2>6. ApplySnap'  BY <2>3, <2>4, <2>5 DEF ApplySnap, NextJob
  <2>7. ApplyNotes'  BY <1>1, <2>2, <2>3 DEF ApplyNotes, NextJob, InHand
  <2>8. Noting /\ NextNote(pc, job.snap)  BY <1>1, <2>3 DEF Noting, NextNote, Early
  <2>9. Underway'  BY <1>1, <2>2, <2>6, <2>7, <2>8, NotingKept
  <2> QED  BY <2>2, <2>9
<1> QED  BY <1>1, <1>2, <1>3 DEF Integration!BackupOriginal, Integration!Put

\* What the older backup has of the main file is the user's.
LEMMA LegacyIs ==
  ASSUME Plan, ApplyPlan, job.new, job.legacy # None
  PROVE  /\ job.files[1].path = Main /\ job.owned[Main] # None
         /\ Integration!Has(job.legacy, Main) /\ Integration!Of(job.legacy, Main) \in history[Main]
         /\ Integration!Of(job.legacy, Main) \in FileContents
         /\ mishaps = {} => Integration!Of(job.legacy, Main) = job.owned[Main]
         /\ \A p : Integration!Has(job.legacy, p) => p = Main
<1>1. job.files[1].path = Main /\ job.owned[Main] # None /\ job.legacy = LatestOf(job.was) /\ job.was["cycle"] = Absent
  BY DEF ApplyPlan
<1>2. Main \in Files  BY Constants
<1>3. Stands(job.was, job.owned, history, mishaps)  BY DEF Plan, Rests
<1>4. job.was["latest"] # Absent /\ \A i \in DOMAIN job.was["latest"] : job.was["latest"][i].path = Main
  BY <1>1, <1>2, <1>3 DEF Stands, Older
<1>5. BaseOf(job.was) = job.legacy  BY <1>1, <1>4 DEF BaseOf
<1>6. Integration!Has(job.legacy, Main) /\ (mishaps = {} => Integration!Of(job.legacy, Main) = job.owned[Main])
  BY <1>1, <1>2, <1>3, <1>5 DEF Stands, Gives
<1>7. job.was["latest"] \in NoteLists /\ job.was["latest"] # <<>> /\ OfTheUser(job.legacy, history)
  BY <1>1, <1>3, <1>4 DEF Stands, NotesSound
<1>8. \A i \in DOMAIN job.legacy : job.legacy[i].path = Main  BY <1>1, <1>4, <1>7, LatestPaths
<1>9. PICK i \in DOMAIN job.legacy : job.legacy[i].path = Main  BY <1>6 DEF Integration!Has
<1>10. Integration!Of(job.legacy, Main) = job.legacy[i].content  BY <1>7, <1>9, OfListed DEF OfTheUser
<1>11. job.legacy[i].content \in history[Main] /\ job.legacy[i].content \in FileContents
  BY <1>7, <1>9, ListedMembers DEF OfTheUser
<1> QED  BY <1>1, <1>6, <1>8, <1>10, <1>11 DEF Integration!Has

LEMMA AdoptLatestKept ==
  ASSUME World, Underway, Integration!AdoptLatest, UNCHANGED <<history, mishaps, address, target>>
  PROVE  World' /\ Underway'
<1> DEFINE snap == <<>> \o Integration!Adopted
<1>1. job.pc = "adopt latest" /\ UNCHANGED own /\ job.op = "apply" /\ job.new /\ Plan /\ ApplyPlan /\ ApplyOwn /\ job.recovered
      /\ ApplySnap /\ ApplyNotes
  BY DEF Integration!AdoptLatest, Underway, RollbackPlan, Plan
<1>2. CASE Integration!CountFailure /\ Integration!Fail /\ UNCHANGED disk
  <2>1. World'  BY <1>1, <1>2, WorldStays, LeftKept DEF World
  <2>2. Replaced = 0  BY <1>1 DEF Replaced
  <2> QED  BY <1>1, <1>2, <2>1, <2>2, ApplyFails
<1>3. CASE disk' = [disk EXCEPT !["latest"] = Integration!Mask(snap)] /\ job' = [job EXCEPT !.pc = "adopt original", !.snap = snap] /\ UNCHANGED left
  <2>1. "latest" \in Notes /\ left' \in Lefts  BY <1>3, LeftKept DEF Notes, Integration!Notes
  <2>2. World' /\ disk'["latest"] = Integration!Mask(snap) /\ \A p \in Files : disk'[p] = disk[p]
    BY <1>1, <1>3, <2>1, WorldNoted
  <2>3. NextJob("adopt original", job.i, snap, job.recovered, job.undisturbed)  BY <1>1, <1>3, JobMoves
  <2>4. SnapOfFiles /\ job.snap \in Seq(Contained) /\ DOMAIN job.snap = DOMAIN job.files
    <3>1. SnapOfFiles  BY <1>1 DEF ApplySnap, InHand
    <3>2. job.snap \in Seq(Contained) /\ Len(job.snap) = Len(job.files)  BY <3>1 DEF SnapOfFiles, Contained
    <3> QED  BY <1>1, <3>1, <3>2, Members, FilesFacts
  <2>5. job.legacy # None
    BY <1>1 DEF Underway
  <2> DEFINE f == Integration!Adopted
  <2>6. ASSUME NEW k \in DOMAIN job.files
        PROVE  /\ f[k] \in Contained /\ f[k].path = job.files[k].path
               /\ k = 1 => f[k].content = Integration!Of(job.legacy, Main)
               /\ k # 1 => f[k] = job.snap[k]
    <3>1. job.snap[k] \in Contained /\ job.snap[k].path = job.files[k].path  BY <2>4, Members DEF SnapOfFiles
    <3>2. f[k] = IF Integration!Has(job.legacy, job.snap[k].path)
                 THEN Integration!Entry(job.snap[k].path, Integration!Of(job.legacy, job.snap[k].path)) ELSE job.snap[k]
      BY <2>4 DEF Integration!Adopted
    <3>3. CASE k = 1
      <4>1. job.snap[k].path = Main  BY <1>1, <2>5, <3>1, <3>3, LegacyIs
      <4>2. f[k] = Integration!Entry(Main, Integration!Of(job.legacy, Main))  BY <1>1, <2>5, <3>2, <4>1, LegacyIs
      <4>3. Integration!Of(job.legacy, Main) \in FileContents /\ Main \in Files  BY <1>1, <2>5, LegacyIs, Constants
      <4> QED  BY <3>1, <3>3, <4>1, <4>2, <4>3 DEF Integration!Entry, Contained
    <3>4. CASE k # 1
      <4>1. job.files[k].path # Main  BY <1>1, <2>5, <3>4, LegacyIs, FilesFacts DEF Plan
      <4> QED  BY <1>1, <2>5, <3>1, <3>2, <3>4, <4>1, LegacyIs
    <3> QED  BY <3>3, <3>4
  <2>7. snap = f /\ snap \in Seq(Contained) /\ Len(snap) = Len(job.files)
    <3>1. Len(job.files) \in Nat /\ DOMAIN job.files = 1 .. Len(job.files)  BY <1>1, FilesFacts
    <3>2. f = [i \in DOMAIN job.files |-> f[i]]  BY <2>4 DEF Integration!Adopted
    <3> HIDE DEF f
    <3>3. f \in [1 .. Len(job.files) -> Contained]  BY <2>6, <3>1, <3>2
    <3>4. <<>> \o f = f /\ f \in Seq(Contained) /\ Len(f) = Len(job.files)  BY <3>1, <3>3, Listing
    <3> QED  BY <3>4 DEF f
  <2> HIDE DEF snap, f
  <2>8. SnapOfFiles'
    <3>1. snap \in Seq([path : Files, content : FileContents])  BY <2>7 DEF Contained
    <3>2. \A k \in DOMAIN job.files : snap[k].path = job.files[k].path  BY <2>6, <2>7
    <3> QED  BY <2>3, <2>7, <3>1, <3>2 DEF SnapOfFiles, NextJob
  <2>9. ASSUME NEW k \in DOMAIN job.files
        PROVE  SnapExact(k)' /\ snap[k].content \in history[job.files[k].path]
    <3>1. SnapExact(k) /\ (job.snap[k].content \in history[job.files[k].path] \/ k = 1)
      BY <1>1 DEF ApplySnap, InHand
    <3>2. job.files[k].path \in Files /\ disk'[job.files[k].path] = disk[job.files[k].path]  BY <1>1, <2>2, FilesFacts
    <3>3. Replaced = 0  BY <1>1 DEF Replaced
    <3>4. CASE k = 1
      <4>1. snap[k].content = Integration!Of(job.legacy, Main) /\ job.files[k].path = Main  BY <1>1, <2>5, <2>6, <2>7, <3>4, LegacyIs
      <4>2. snap[k].content \in history[Main] /\ job.owned[Main] # None /\ (mishaps = {} => snap[k].content = job.owned[Main])
        BY <1>1, <2>5, <4>1, LegacyIs
      <4> QED  BY <2>3, <4>1, <4>2 DEF SnapExact, NextJob
    <3>5. CASE k # 1
      <4>1. snap[k] = job.snap[k]  BY <2>6, <2>7, <3>5
      <4>2. job.owned[job.files[k].path] = None
        <5> SUFFICES ASSUME job.owned[job.files[k].path] # None  PROVE FALSE  OBVIOUS
        <5>1. job.files[k].path = job.files[1].path  BY <1>1, <3>2, OnlyMain
        <5> QED  BY <1>1, <3>5, <5>1, FilesFacts DEF Plan
      <4>3. SnapExact(k)'  BY <1>1, <2>3, <3>1, <3>2, <3>3, <4>1, <4>2, NoneReplaced DEF SnapExact, NextJob
      <4> QED  BY <3>1, <3>5, <4>1, <4>3
    <3> QED  BY <3>4, <3>5
  <2>10. ApplySnap'  BY <2>3, <2>8, <2>9 DEF ApplySnap, NextJob
  <2>11. ApplyNotes'  BY <1>1, <2>2, <2>3 DEF ApplyNotes, NextJob, InHand
  <2>12. Noting /\ NextNote("adopt original", snap)  BY <1>1, <2>3, <2>5 DEF Noting, NextNote, Early
  <2>13. Underway'  BY <1>1, <2>2, <2>10, <2>11, <2>12, NotingKept
  <2> QED  BY <2>2, <2>13
<1> QED  BY <1>1, <1>2, <1>3 DEF Integration!AdoptLatest, Integration!Put

LEMMA AdoptOriginalKept ==
  ASSUME World, Underway, Integration!AdoptOriginal, UNCHANGED <<history, mishaps, address, target>>
  PROVE  World' /\ Underway'
<1>1. job.pc = "adopt original" /\ UNCHANGED own /\ job.op = "apply" /\ job.new /\ Plan /\ ApplyPlan /\ ApplyOwn /\ job.recovered
      /\ ApplySnap /\ ApplyNotes
  BY DEF Integration!AdoptOriginal, Underway, RollbackPlan, Plan
<1>2. CASE Integration!CountFailure /\ Integration!Fail /\ UNCHANGED disk
  <2>1. World'  BY <1>1, <1>2, WorldStays, LeftKept DEF World
  <2>2. Replaced = 0  BY <1>1 DEF Replaced
  <2> QED  BY <1>1, <1>2, <2>1, <2>2, ApplyFails
<1>3. CASE disk' = [disk EXCEPT !["original"] = Integration!FirstOriginal(job.snap)] /\ Integration!Go("cycle") /\ UNCHANGED left
  <2>1. "original" \in Notes /\ "latest" \in Notes /\ left' \in Lefts  BY <1>3, LeftKept DEF Notes, Integration!Notes
  <2>2. World' /\ disk'["original"] = Integration!FirstOriginal(job.snap) /\ disk'["latest"] = disk["latest"]
        /\ \A p \in Files : disk'[p] = disk[p]
    BY <1>1, <1>3, <2>1, WorldNoted
  <2>3. NextJob("cycle", job.i, job.snap, job.recovered, job.undisturbed)  BY <1>1, <1>3, JobMoves
  <2>4. SnapOfFiles /\ SnapOfFiles'  BY <1>1, <2>3 DEF ApplySnap, InHand, SnapOfFiles, NextJob
  <2>5. ASSUME NEW k \in DOMAIN job.files
        PROVE  SnapExact(k)' /\ job.snap[k].content \in history[job.files[k].path]
    <3>1. SnapExact(k) /\ job.snap[k].content \in history[job.files[k].path]  BY <1>1 DEF ApplySnap, InHand
    <3>2. job.files[k].path \in Files /\ disk'[job.files[k].path] = disk[job.files[k].path]  BY <1>1, <2>2, FilesFacts
    <3>3. Replaced = 0  BY <1>1 DEF Replaced
    <3> QED  BY <1>1, <2>3, <3>1, <3>2, <3>3, NoneReplaced DEF SnapExact, NextJob
  <2>6. ApplySnap'  BY <2>3, <2>4, <2>5 DEF ApplySnap, NextJob
  <2>7. ApplyNotes'  BY <1>1, <2>2, <2>3 DEF ApplyNotes, NextJob, InHand
  <2>8. Noting /\ NextNote("cycle", job.snap)  BY <1>1, <2>3 DEF Noting, NextNote, Early
  <2>9. Underway'  BY <1>1, <2>2, <2>6, <2>7, <2>8, NotingKept
  <2> QED  BY <2>2, <2>9
<1> QED  BY <1>1, <1>2, <1>3 DEF Integration!AdoptOriginal, Integration!Put

LEMMA WriteCycleKept ==
  ASSUME World, Underway, Integration!WriteCycle, UNCHANGED <<history, mishaps, address, target>>
  PROVE  World' /\ Underway'
<1>1. job.pc = "cycle" /\ UNCHANGED own /\ job.op = "apply" /\ Plan /\ ApplyPlan /\ ApplyOwn /\ job.recovered
      /\ ApplySnap /\ ApplyNotes
  BY DEF Integration!WriteCycle, Underway, RollbackPlan, Plan
<1>2. CASE Integration!CountFailure /\ Integration!Fail /\ UNCHANGED disk
  <2>1. World'  BY <1>1, <1>2, WorldStays, LeftKept DEF World
  <2>2. Replaced = 0  BY <1>1 DEF Replaced
  <2> QED  BY <1>1, <1>2, <2>1, <2>2, ApplyFails
<1>3. CASE disk' = [disk EXCEPT !["cycle"] = job.snap] /\ Integration!Go("commit") /\ UNCHANGED left
  <2>1. "cycle" \in Notes /\ "original" \in Notes /\ "latest" \in Notes /\ left' \in Lefts
    BY <1>3, LeftKept DEF Notes, Integration!Notes
  <2>2. World' /\ disk'["cycle"] = job.snap /\ disk'["latest"] = disk["latest"] /\ disk'["original"] = disk["original"]
        /\ \A p \in Files : disk'[p] = disk[p]
    BY <1>1, <1>3, <2>1, WorldNoted
  <2>3. NextJob("commit", job.i, job.snap, job.recovered, job.undisturbed)  BY <1>1, <1>3, JobMoves
  <2>4. SnapOfFiles /\ SnapOfFiles'  BY <1>1, <2>3 DEF ApplySnap, InHand, SnapOfFiles, NextJob
  <2>5. ASSUME NEW k \in DOMAIN job.files
        PROVE  SnapExact(k)' /\ job.snap[k].content \in history[job.files[k].path]
    <3>1. SnapExact(k) /\ job.snap[k].content \in history[job.files[k].path]  BY <1>1 DEF ApplySnap, InHand
    <3>2. job.files[k].path \in Files /\ disk'[job.files[k].path] = disk[job.files[k].path]  BY <1>1, <2>2, FilesFacts
    <3>3. Replaced = 0  BY <1>1 DEF Replaced
    <3> QED  BY <1>1, <2>3, <3>1, <3>2, <3>3, NoneReplaced DEF SnapExact, NextJob
  <2>6. ApplySnap'  BY <2>3, <2>4, <2>5 DEF ApplySnap, NextJob
  <2>7. ApplyNotes'  BY <1>1, <2>2, <2>3 DEF ApplyNotes, NextJob, InHand
  <2>8. Noting /\ NextNote("commit", job.snap)  BY <1>1, <2>3 DEF Noting, NextNote, Early
  <2>9. Underway'  BY <1>1, <2>2, <2>6, <2>7, <2>8, NotingKept
  <2> QED  BY <2>2, <2>9
<1> QED  BY <1>1, <1>2, <1>3 DEF Integration!WriteCycle, Integration!Put

(***************************************************************************)
(* The files of a takeover or a rollback                                   *)
(***************************************************************************)

\* One file gets this content, and this is what the user must get back.
Filed(p, content, owned) ==
    /\ p \in Files /\ content \in FileContents /\ owned \in FileContents \cup {None} /\ (owned = None => content \in history[p])
    /\ disk' = [disk EXCEPT ![p] = content] /\ own' = [own EXCEPT ![p] = owned]

LEMMA WorldFiled ==
  ASSUME World, NEW p, NEW content, NEW owned, Filed(p, content, owned),
         UNCHANGED <<history, address, target>>, left' \in Lefts
  PROVE  /\ World' /\ disk'[p] = content /\ own'[p] = owned
         /\ \A q \in Files : q # p => disk'[q] = disk[q] /\ own'[q] = own[q]
         /\ \A note \in Notes : disk'[note] = disk[note]
<1> USE DEF Filed
<1>1. disk = [spot \in Files \cup Notes |-> disk[spot]] /\ own \in [Files -> FileContents \cup {None}]  BY DEF World
<1>2. \A note \in Notes : note # p  BY Constants
<1>3. /\ disk'[p] = content /\ own'[p] = owned
      /\ \A q \in Files : q # p => disk'[q] = disk[q] /\ own'[q] = own[q]
      /\ \A note \in Notes : disk'[note] = disk[note]
  BY <1>1, <1>2
<1>4. disk' = [spot \in Files \cup Notes |-> disk'[spot]] /\ own' \in [Files -> FileContents \cup {None}]  BY <1>1
<1>5. World'  BY <1>3, <1>4 DEF World, Lefts
<1> QED  BY <1>3, <1>5

\* One file more, or one less.
LEMMA OneMore ==
  ASSUME Plan, job.pc = "commit", NextJob("commit", job.i + 1, job.snap, job.recovered, job.undisturbed)
  PROVE  /\ Replaced' = job.i /\ Replaced = job.i - 1
         /\ \A p : IsReplaced(p)' <=> IsReplaced(p) \/ p = job.files[job.i].path
<1>1. job.i \in Nat /\ job.i \in 1 .. Len(job.files)  BY DEF Plan
<1>2. job'.pc = "commit" /\ job'.i = job.i + 1 /\ job'.files = job.files  BY DEF NextJob
<1>3. Replaced = job.i - 1 /\ Replaced' = job'.i - 1  BY <1>2 DEF Replaced
<1>4. Replaced' = job.i  BY <1>1, <1>2, <1>3
<1>5. 1 .. job.i = (1 .. job.i - 1) \cup {job.i}  BY <1>1
<1>6. \A p : IsReplaced(p)' <=> \E k \in 1 .. job.i : job.files[k].path = p  BY <1>2, <1>4 DEF IsReplaced
<1>7. \A p : IsReplaced(p) <=> \E k \in 1 .. job.i - 1 : job.files[k].path = p  BY <1>3 DEF IsReplaced
<1> QED  BY <1>3, <1>4, <1>5, <1>6, <1>7

LEMMA OneLess ==
  ASSUME Plan, job.pc = "undo", job.i > 0, NEW recovered, NextJob("undo", job.i - 1, job.snap, recovered, job.undisturbed)
  PROVE  /\ Replaced' = job.i - 1 /\ Replaced = job.i /\ job.i \in DOMAIN job.files /\ job.i - 1 \in Nat /\ job.i - 1 < Len(job.files)
         /\ \A p : IsReplaced(p) <=> IsReplaced(p)' \/ p = job.files[job.i].path
         /\ \A p : p = job.files[job.i].path => ~IsReplaced(p)'
<1>1. job.i \in Nat /\ Len(job.files) \in Nat /\ job.i < Len(job.files) /\ DOMAIN job.files = 1 .. Len(job.files)  BY DEF Plan
<1>2. job'.pc = "undo" /\ job'.i = job.i - 1 /\ job'.files = job.files  BY DEF NextJob
<1>3. Replaced = job.i /\ Replaced' = job.i - 1  BY <1>2 DEF Replaced
<1>4. 1 .. job.i = (1 .. job.i - 1) \cup {job.i}  BY <1>1
<1>5. \A p : IsReplaced(p)' <=> \E k \in 1 .. job.i - 1 : job.files[k].path = p  BY <1>2, <1>3 DEF IsReplaced
<1>6. \A p : IsReplaced(p) <=> \E k \in 1 .. job.i : job.files[k].path = p  BY <1>3 DEF IsReplaced
<1>7. job.i \in DOMAIN job.files /\ job.i - 1 \in Nat /\ job.i - 1 < Len(job.files)  BY <1>1
<1>8. \A k \in 1 .. job.i - 1 : k \in DOMAIN job.files /\ k # job.i  BY <1>1
<1>9. \A k, l \in DOMAIN job.files : job.files[k].path = job.files[l].path => k = l  BY DEF Plan
<1>10. \A p : p = job.files[job.i].path => ~IsReplaced(p)'  BY ONLY <1>5, <1>7, <1>8, <1>9
<1> QED  BY <1>3, <1>4, <1>5, <1>6, <1>7, <1>10

\* A file that is not in question keeps its bookkeeping.
LEMMA UntouchedStays ==
  ASSUME NEW p, disk'[p] = disk[p], own'[p] = own[p], mishaps \subseteq mishaps', job'.undisturbed = job.undisturbed,
         job'.owned = job.owned, job'.was = job.was, Untouched(p)
  PROVE  Untouched(p)'
BY DEF Untouched

\* The first file that cannot be replaced.
LEMMA TurnsBack ==
  ASSUME World, Underway, job.pc = "commit", job.i # 1, job' = [job EXCEPT !.pc = "undo", !.i = @ - 1],
         UNCHANGED <<disk, own, history, mishaps>>
  PROVE  Underway' /\ job'.pc = "undo"
<1>1. Plan /\ job.i \in Nat /\ job.i \in 1 .. Len(job.files) /\ Len(job.files) \in Nat  BY DEF Underway, Plan
<1>2. NextJob("undo", job.i - 1, job.snap, job.recovered, job.undisturbed)  BY <1>1, JobMoves
<1>3. job.i - 1 \in Nat /\ job.i - 1 < Len(job.files)  BY <1>1
<1>4. "undo" \in Steps /\ "undo" \notin Early  BY DEF Steps, Early
<1>5. /\ Plan'
      /\ RollbackPlan => RollbackPlan'
      /\ ApplyPlan => ApplyPlan'
  <2>1. job.recovered \in BOOLEAN /\ (~job.recovered => mishaps' # {})  BY <1>1 DEF Plan
  <2> QED  BY <1>1, <1>2, <1>3, <1>4, <2>1, PlanKept, NothingGrows
<1>6. Replaced' = Replaced /\ Replaced = job.i - 1  BY <1>2 DEF Replaced, NextJob
<1>7. \A p : IsReplaced(p)' <=> IsReplaced(p)  BY <1>2, <1>6 DEF IsReplaced, NextJob
<1>8. \A p \in Files : Untouched(p)' <=> Untouched(p)  BY <1>2 DEF Untouched, NextJob
<1>9. CASE job.op = "rollback"
  <2>1. RollbackStands'  BY <1>2, <1>7, <1>8, <1>9 DEF Underway, RollbackStands, NextJob
  <2> QED  BY <1>2, <1>5, <1>9, <2>1 DEF Underway, NextJob
<1>10. CASE job.op = "apply"
  <2>1. ApplyPlan /\ ApplySnap /\ ApplyNotes /\ ApplyOwn  BY <1>10 DEF Underway
  <2>2. SnapOfFiles'  BY <1>2, <2>1 DEF ApplySnap, InHand, SnapOfFiles, NextJob
  <2>3. \A k \in DOMAIN job.files : SnapExact(k)' /\ job.snap[k].content \in history[job.files[k].path]
    BY <1>2, <2>1 DEF ApplySnap, InHand, SnapExact, NextJob
  <2>4. ApplySnap'  BY <1>2, <2>2, <2>3 DEF ApplySnap, NextJob
  <2>5. ApplyNotes'  BY <1>2, <2>1 DEF ApplyNotes, InHand, NextJob
  <2>6. ApplyOwn'
    <3>1. \A p \in Files : own'[p] # None => job'.owned[p] # None \/ InPlan(p)'  BY <1>2, <2>1 DEF ApplyOwn, InPlan, NextJob
    <3>2. \A p \in Files : IsReplaced(p)' => own'[p] # None  BY <1>7, <2>1 DEF ApplyOwn
    <3>3. \A k \in 1 .. Replaced' : mishaps' = {} => job'.snap[k].content = own'[job'.files[k].path]
      BY <1>2, <1>6, <2>1 DEF ApplyOwn, NextJob
    <3>4. job'.recovered => \A p \in Files : IsReplaced(p)' \/ Untouched(p)'  BY <1>2, <1>7, <1>8, <2>1 DEF ApplyOwn, NextJob
    <3> QED  BY <3>1, <3>2, <3>3, <3>4 DEF ApplyOwn
  <2> QED  BY <1>2, <1>5, <1>10, <2>1, <2>4, <2>5, <2>6 DEF Underway, NextJob
<1> QED  BY <1>1, <1>2, <1>9, <1>10 DEF Plan, NextJob

\* A file is replaced.
Replaces(change) ==
    /\ change = job.files[job.i] /\ job.pc = "commit"
    /\ Integration!Unchanged(change) /\ disk' = [disk EXCEPT ![change.path] = change.after] /\ own' = Integration!OwnAfter(change)
    /\ IF job.i = Len(job.files) THEN Integration!End("done") ELSE job' = [job EXCEPT !.i = @ + 1]
    /\ UNCHANGED <<left, address, target, history, mishaps>>

LEMMA GivesBack ==
  ASSUME World, Underway, job.op = "rollback", NEW change, Replaces(change)
  PROVE  World' /\ IF job'.pc = "idle" THEN Idle' ELSE Underway'
<1> DEFINE n == Len(job.files) - 3
           k == job.i
           p == change.path
<1>1. Plan /\ RollbackPlan /\ RollbackStands /\ k \in DOMAIN job.files /\ k \in Nat /\ change = job.files[k]
  BY DEF Underway, Plan, Replaces
<1>2. /\ n \in Nat /\ Len(job.files) = n + 3 /\ DOMAIN job.files = 1 .. n + 3
      /\ \A l \in 1 .. n : job.files[l].path \in Files /\ job.files[l].after \in history[job.files[l].path]
      /\ \A l \in n + 1 .. n + 3 : job.files[l].path \in Notes /\ job.files[l].after = Absent
      /\ job.files[n + 3].path = "original"
  BY <1>1, RollbackOrder
<1>3. left' \in Lefts  BY LeftKept DEF Replaces
<1> HIDE DEF n
<1>4. /\ World' /\ \A q \in Files : q # p => disk'[q] = disk[q] /\ own'[q] = own[q]
      /\ \A note \in Notes : note # p => disk'[note] = disk[note]
      /\ p \in Files => own'[p] = None
      /\ p \in Notes => disk'[p] = Absent /\ own' = own /\ k > n
      /\ p \in Files => k <= n
  <2>1. CASE k \in 1 .. n
    <3>1. p \in Files /\ p \notin Notes /\ change.after \in history[p]  BY <1>1, <1>2, <2>1, Constants
    <3>2. own' = [own EXCEPT ![p] = None]
      BY <3>1 DEF Replaces, Integration!OwnAfter, Files, Notes
    <3>3. disk' = [disk EXCEPT ![p] = change.after] /\ UNCHANGED <<history, address, target>>  BY DEF Replaces
    <3>4. change.after \in FileContents  BY <3>1 DEF World
    <3>5. Filed(p, change.after, None)  BY <3>1, <3>2, <3>3, <3>4 DEF Filed
    <3>6. World' /\ own'[p] = None /\ (\A q \in Files : q # p => disk'[q] = disk[q] /\ own'[q] = own[q])
          /\ (\A note \in Notes : disk'[note] = disk[note])
      BY <1>3, <3>3, <3>5, WorldFiled
    <3> QED  BY <1>2, <2>1, <3>1, <3>6
  <2>2. CASE k \in n + 1 .. n + 3
    <3>1. p \in Notes /\ p \notin Files /\ change.after = Absent  BY <1>1, <1>2, <2>2, Constants
    <3>2. own' = own  BY <3>1 DEF Replaces, Integration!OwnAfter, Files, Notes
    <3>3. disk' = [disk EXCEPT ![p] = Absent] /\ UNCHANGED <<history, address, target>>  BY <3>1 DEF Replaces
    <3>4. World' /\ disk'[p] = Absent /\ (\A q \in Files : disk'[q] = disk[q]) /\ (\A note \in Notes : note # p => disk'[note] = disk[note])
      BY <1>3, <3>1, <3>2, <3>3, WorldNoted
    <3> QED  BY <1>2, <2>2, <3>1, <3>2, <3>4
  <2> QED  BY <1>1, <1>2, <2>1, <2>2
<1>5. CASE k = Len(job.files)
  <2>1. p = "original" /\ k = n + 3 /\ p \in Notes  BY <1>1, <1>2, <1>5 DEF Notes, Integration!Notes
  <2>2. Replaced = k - 1  BY DEF Replaced, Replaces
  <2>3. IsReplaced("cycle") /\ IsReplaced("latest") /\ Replaced >= n
    BY <1>1, <1>2, <2>1, <2>2, NotesReplaced DEF n
  <2>4. \A q \in Files : own'[q] = None  BY <1>1, <1>4, <2>1, <2>3, AllGivenBack DEF n
  <2>5. disk'["cycle"] = Absent /\ disk'["latest"] = Absent
    BY <1>1, <1>4, <2>1, <2>3 DEF RollbackStands, Notes, Integration!Notes
  <2>6. Rests(disk', own', history', mishaps')
    BY <1>4, <2>4, <2>5 DEF Rests, Stands, NotesSound, Gives, Older, Whole, World
  <2>7. job' = [pc |-> "idle", answer |-> "done", was |-> None]  BY <1>5 DEF Replaces, Integration!End, Integration!Ended
  <2> QED  BY <1>4, <2>6, <2>7 DEF Idle
<1>6. CASE k # Len(job.files)
  <2>1. NextJob("commit", k + 1, job.snap, job.recovered, job.undisturbed)  BY <1>1, <1>6, JobMoves DEF Replaces
  <2>2. k + 1 \in DOMAIN job.files /\ k + 1 \in Nat /\ "commit" \in Steps /\ "commit" \notin Early
    BY <1>1, <1>2, <1>6 DEF Steps, Early
  <2>3. job.recovered \in BOOLEAN /\ (~job.recovered => mishaps' # {}) /\ Grows
    BY <1>1 DEF Plan, Grows, Replaces
  <2>4. Plan' /\ RollbackPlan'  BY <1>1, <2>1, <2>2, <2>3, PlanKept
  <2>5. \A q : IsReplaced(q)' <=> IsReplaced(q) \/ q = p  BY <1>1, <2>1, OneMore DEF Replaces
  <2>6. ASSUME NEW q \in Files  PROVE IF IsReplaced(q)' THEN own'[q] = None ELSE Untouched(q)' \/ (~job'.recovered /\ own'[q] = None)
    <3>1. CASE q = p  BY <1>4, <2>5, <3>1
    <3>2. CASE q # p
      <4>1. disk'[q] = disk[q] /\ own'[q] = own[q]  BY <1>4, <3>2
      <4>2. Untouched(q) => Untouched(q)'  BY <2>1, <4>1, UntouchedStays DEF NextJob, Replaces
      <4> QED  BY <1>1, <2>1, <2>5, <3>2, <4>1, <4>2 DEF RollbackStands, NextJob
    <3> QED  BY <3>1, <3>2
  <2>7. \A note \in Notes : disk'[note] = IF IsReplaced(note)' THEN Absent ELSE job'.was[note]
    BY <1>1, <1>4, <2>1, <2>5 DEF RollbackStands, NextJob
  <2>8. RollbackStands'  BY <2>6, <2>7 DEF RollbackStands
  <2> QED  BY <1>4, <2>1, <2>4, <2>8 DEF Underway, NextJob
<1> QED  BY <1>5, <1>6

LEMMA TakesOver ==
  ASSUME World, Underway, job.op = "apply", NEW change, Replaces(change)
  PROVE  World' /\ IF job'.pc = "idle" THEN Idle' ELSE Underway'
<1> DEFINE k == job.i
           p == change.path
           owned == IF own[p] = None THEN change.before ELSE own[p]
<1>1. Plan /\ ApplyPlan /\ ApplySnap /\ ApplyNotes /\ ApplyOwn /\ k \in DOMAIN job.files /\ k \in Nat /\ change = job.files[k]
      /\ job.pc = "commit"
  BY DEF Underway, Plan, Replaces
<1>2. /\ Len(job.files) \in Nat /\ DOMAIN job.files = 1 .. Len(job.files) /\ p \in Files
      /\ change.after \in FileContents /\ Managed(change.after)
  BY <1>1, FilesFacts DEF ApplyPlan
<1>3. disk[p] = job.was[p] /\ change.before = disk[p] /\ disk[p] \in FileContents
  BY <1>1, <1>2 DEF Replaces, Integration!Unchanged, Plan, World
<1>4. owned \in FileContents /\ owned # None
  BY <1>2, <1>3, Constants DEF World
<1>5. Filed(p, change.after, owned) /\ left' \in Lefts /\ UNCHANGED <<history, address, target, mishaps>>
  <2>1. p \notin Notes  BY <1>2, Constants
  <2>2. own' = [own EXCEPT ![p] = owned]  BY <1>1, <2>1 DEF Replaces, Integration!OwnAfter, Notes
  <2> HIDE DEF owned
  <2> QED  BY <1>2, <1>4, <2>2, LeftKept DEF Filed, Replaces
<1>6. /\ World' /\ disk'[p] = change.after /\ own'[p] = owned
      /\ \A q \in Files : q # p => disk'[q] = disk[q] /\ own'[q] = own[q]
      /\ \A note \in Notes : disk'[note] = disk[note]
  <2> HIDE DEF owned, p
  <2> QED  BY <1>5, WorldFiled
<1>7. Replaced = k - 1 /\ ~IsReplaced(p)
  <2>1. Replaced = k - 1  BY <1>1 DEF Replaced
  <2>2. \A l \in 1 .. k - 1 : l \in DOMAIN job.files /\ l # k  BY <1>1, <1>2
  <2> QED  BY <1>1, <2>1, <2>2 DEF Plan, IsReplaced
\* What the user had in the file is what the backup in hand says.
<1>8. mishaps = {} => job.snap[k].content = owned
  <2> SUFFICES ASSUME mishaps = {}  PROVE job.snap[k].content = owned  OBVIOUS
  <2>1. job.recovered  BY <1>1 DEF Plan
  <2>2. Untouched(p)  BY <1>1, <1>2, <1>7, <2>1 DEF ApplyOwn
  <2>3. SnapExact(k)  BY <1>1 DEF ApplySnap, InHand
  <2>4. CASE job.owned[p] = None
    <3>1. job.snap[k].content = job.was[p]  BY <1>1, <1>3, <1>7, <2>3, <2>4 DEF SnapExact
    <3>2. own[p] = None  BY <2>2, <2>4 DEF Untouched
    <3> QED  BY <1>3, <3>1, <3>2
  <2>5. CASE job.owned[p] # None
    <3>1. job.snap[k].content = job.owned[p]  BY <1>1, <2>3, <2>5 DEF SnapExact
    <3>2. own[p] # None
      <4> SUFFICES ASSUME own[p] = None  PROVE FALSE  OBVIOUS
      <4>1. job.was["cycle"] = Absent  BY <2>2, <2>5 DEF Untouched
      <4>2. Managed(job.was[p])  BY <1>1, <1>2, <2>5, <4>1 DEF Plan, Rests, Stands, Older
      <4>3. ~Managed(disk[p])  BY <1>2 DEF World
      <4> QED  BY <1>3, <4>2, <4>3
    <3>3. own[p] = job.owned[p]  BY <2>2, <3>2 DEF Untouched
    <3> QED  BY <3>1, <3>2, <3>3
  <2> QED  BY <2>4, <2>5
<1> HIDE DEF owned
<1>9. SnapOfFiles /\ DOMAIN job.snap = DOMAIN job.files /\ OfTheUser(job.snap, history)
  <2>1. SnapOfFiles /\ OfTheUser(job.snap, history)  BY <1>1, SnapListed DEF ApplySnap, InHand
  <2>2. Len(job.snap) = Len(job.files) /\ DOMAIN job.snap = 1 .. Len(job.snap)  BY <2>1, ListedMembers DEF SnapOfFiles
  <2> QED  BY <1>2, <2>1, <2>2
<1>10. CASE k = Len(job.files)
  <2>1. job' = [pc |-> "idle", answer |-> "done", was |-> None]  BY <1>10 DEF Replaces, Integration!End, Integration!Ended
  <2>2. Stands(disk, own, history, mishaps) /\ disk["cycle"] = job.snap /\ job.snap # Absent  BY <1>1, TakenStands
  <2>3. /\ disk'["cycle"] = disk["cycle"] /\ disk'["latest"] = disk["latest"] /\ disk'["original"] = disk["original"]
    BY <1>6 DEF Notes, Integration!Notes
  <2>4. BaseOf(disk') = job.snap /\ BaseOf(disk) = job.snap /\ LatestOf(disk') = LatestOf(disk)
    BY <2>2, <2>3 DEF BaseOf, LatestOf
  <2>5. NotesSound(disk', history)  BY <2>2, <2>3, <2>4 DEF Stands, NotesSound
  <2>6. Gives(disk', own', mishaps)
    <3> SUFFICES ASSUME NEW q \in Files, own'[q] # None
                 PROVE  job.snap # None /\ Integration!Has(job.snap, q) /\ (mishaps = {} => Integration!Of(job.snap, q) = own'[q])
      BY <2>4 DEF Gives
    <3>1. job.snap # None  BY <1>9, Constants DEF OfTheUser, Listed, Contained
    <3>2. CASE q = p
      <4>1. job.snap[k].path = p  BY <1>1, <1>9 DEF SnapOfFiles
      <4>2. Integration!Has(job.snap, p) /\ Integration!Of(job.snap, p) = job.snap[k].content
        BY <1>1, <1>9, <4>1, OfListed DEF OfTheUser
      <4> QED  BY <1>6, <1>8, <3>1, <3>2, <4>2
    <3>3. CASE q # p  BY <1>6, <2>2, <2>4, <3>1, <3>3 DEF Stands, Gives
    <3> QED  BY <3>2, <3>3
  <2>7. Older(disk', own')  BY <2>2, <2>3 DEF Older
  <2>8. Whole(disk', own', mishaps)
    <3> SUFFICES ASSUME NEW l \in DOMAIN job.snap  PROVE own'[job.snap[l].path] # None
      BY <2>2, <2>3 DEF Whole
    <3>1. job.snap[l].path = job.files[l].path /\ job.files[l].path \in Files /\ l \in 1 .. k
      BY <1>1, <1>2, <1>9, <1>10, FilesFacts DEF SnapOfFiles
    <3>2. CASE l = k  BY <1>1, <1>4, <1>6, <3>1, <3>2
    <3>3. CASE l # k
      <4>1. l \in 1 .. Replaced  BY <1>1, <1>7, <3>1, <3>3
      <4>2. IsReplaced(job.files[l].path)  BY <4>1 DEF IsReplaced
      <4>3. own[job.files[l].path] # None /\ job.files[l].path # p  BY <1>1, <1>7, <3>1, <4>2 DEF ApplyOwn
      <4> QED  BY <1>6, <3>1, <4>3
    <3> QED  BY <3>2, <3>3
  <2>9. Rests(disk', own', history', mishaps')
    BY <1>5, <1>6, <2>5, <2>6, <2>7, <2>8 DEF Rests, Stands, World
  <2> QED  BY <1>6, <2>1, <2>9 DEF Idle
<1>11. CASE k # Len(job.files)
  <2>1. NextJob("commit", k + 1, job.snap, job.recovered, job.undisturbed)  BY <1>1, <1>11, JobMoves DEF Replaces
  <2>2. k + 1 \in DOMAIN job.files /\ k + 1 \in Nat /\ "commit" \in Steps /\ "commit" \notin Early
    BY <1>1, <1>2, <1>11 DEF Steps, Early
  <2>3. job.recovered \in BOOLEAN /\ (~job.recovered => mishaps' # {}) /\ Grows
    BY <1>1, <1>5 DEF Plan, Grows
  <2>4. Plan' /\ ApplyPlan'  BY <1>1, <2>1, <2>2, <2>3, PlanKept
  <2>5. Replaced' = k /\ \A q : IsReplaced(q)' <=> IsReplaced(q) \/ q = p  BY <1>1, <2>1, OneMore
  <2>6. SnapOfFiles'  BY <1>9, <2>1 DEF SnapOfFiles, NextJob
  <2>7. ASSUME NEW l \in DOMAIN job.files  PROVE SnapExact(l)' /\ job.snap[l].content \in history[job.files[l].path]
    <3>1. SnapExact(l) /\ job.snap[l].content \in history[job.files[l].path]  BY <1>1 DEF ApplySnap, InHand
    <3>2. job.files[l].path \in Files  BY <1>1, FilesFacts
    <3>3. job.files[l].path # p => disk'[job.files[l].path] = disk[job.files[l].path]  BY <1>6, <3>2
    <3>4. job'.files[l].path = job.files[l].path  BY <2>1 DEF NextJob
    <3> QED  BY <1>1, <1>5, <2>1, <2>5, <3>1, <3>3, <3>4 DEF SnapExact, NextJob
  <2>8. ApplySnap'  BY <1>5, <2>1, <2>6, <2>7 DEF ApplySnap, NextJob
  <2>9. ApplyNotes'
    <3>1. disk'["cycle"] = disk["cycle"] /\ disk'["latest"] = disk["latest"] /\ disk'["original"] = disk["original"]
      BY <1>6 DEF Notes, Integration!Notes
    <3> QED  BY <1>1, <2>1, <3>1 DEF ApplyNotes, NextJob, InHand
  <2>10. ApplyOwn'
    <3>1. \A q \in Files : own'[q] # None => job'.owned[q] # None \/ InPlan(q)'
      BY <1>1, <1>6, <2>1 DEF ApplyOwn, InPlan, NextJob
    <3>2. \A q \in Files : IsReplaced(q)' => own'[q] # None  BY <1>1, <1>4, <1>6, <2>5 DEF ApplyOwn
    <3>3. ASSUME NEW l \in 1 .. k, mishaps = {}  PROVE job.snap[l].content = own'[job.files[l].path]
      <4>1. CASE l = k  BY <1>1, <1>6, <1>8, <3>3, <4>1
      <4>2. CASE l # k
        <5>1. l \in 1 .. Replaced /\ l \in DOMAIN job.files  BY <1>1, <1>2, <1>7, <4>2
        <5>2. job.files[l].path # p /\ job.files[l].path \in Files  BY <1>1, <1>7, <5>1, FilesFacts DEF IsReplaced
        <5> QED  BY <1>1, <1>6, <3>3, <5>1, <5>2 DEF ApplyOwn
      <4> QED  BY <4>1, <4>2
    <3>4. \A l \in 1 .. Replaced' : mishaps' = {} => job'.snap[l].content = own'[job'.files[l].path]
      BY <1>5, <2>1, <2>5, <3>3 DEF NextJob
    <3>5. ASSUME job'.recovered, NEW q \in Files  PROVE IsReplaced(q)' \/ Untouched(q)'
      <4>1. CASE q = p  BY <2>5, <4>1
      <4>2. CASE q # p
        <5>1. IsReplaced(q) \/ Untouched(q)  BY <1>1, <2>1, <3>5 DEF ApplyOwn, NextJob
        <5>2. Untouched(q) => Untouched(q)'  BY <1>5, <1>6, <2>1, <4>2, UntouchedStays DEF NextJob
        <5> QED  BY <2>5, <5>1, <5>2
      <4> QED  BY <4>1, <4>2
    <3> QED  BY <3>1, <3>2, <3>4, <3>5 DEF ApplyOwn
  <2> QED  BY <1>1, <1>6, <2>1, <2>4, <2>8, <2>9, <2>10 DEF Underway, NextJob
<1> QED  BY <1>10, <1>11

LEMMA CommitKept ==
  ASSUME World, Underway, Integration!Commit, UNCHANGED <<address, target, history, mishaps>>
  PROVE  World' /\ IF job'.pc = "idle" THEN Idle' ELSE Underway'
<1> DEFINE change == job.files[job.i]
<1>1. job.pc = "commit" /\ (job.op = "apply" \/ job.op = "rollback") /\ Plan  BY DEF Underway, Plan, Integration!Commit
<1>2. CASE Integration!Unchanged(change) /\ disk' = [disk EXCEPT ![change.path] = change.after] /\ own' = Integration!OwnAfter(change)
           /\ (IF job.i = Len(job.files) THEN Integration!End("done") ELSE job' = [job EXCEPT !.i = @ + 1]) /\ UNCHANGED left
  <2>1. Replaces(change)  BY <1>1, <1>2 DEF Replaces
  <2> QED  BY <1>1, <2>1, GivesBack, TakesOver
<1>3. CASE (UNCHANGED left \/ Integration!CountFailure) /\ UNCHANGED <<disk, own>>
           /\ IF job.i = 1 THEN Integration!Fail ELSE job' = [job EXCEPT !.pc = "undo", !.i = @ - 1]
  <2>1. left' \in Lefts /\ address \in Addresses /\ target \in DOMAIN Layouts  BY <1>3, LeftKept DEF World
  <2>2. World'  BY <1>3, <2>1, WorldStays
  <2>3. CASE job.i = 1
    <3>1. Replaced = 0  BY <1>1, <2>3 DEF Replaced
    <3> QED  BY <1>1, <1>3, <2>2, <2>3, <3>1, Fails
  <2>4. CASE job.i # 1
    <3>1. Underway' /\ job'.pc = "undo"  BY <1>1, <1>3, <2>4, TurnsBack
    <3> QED  BY <2>2, <3>1
  <2> QED  BY <2>3, <2>4
<1> QED  BY <1>2, <1>3 DEF Integration!Commit

(***************************************************************************)
(* Files and notes are put back                                            *)
(***************************************************************************)

\* What stays of a job that has one file less to put back.
LEMMA OneLessKept ==
  ASSUME World, Underway, job.pc = "undo", job.i > 0, NEW recovered \in BOOLEAN, Grows, UNCHANGED history,
         NextJob("undo", job.i - 1, job.snap, recovered, job.undisturbed), ~recovered => mishaps' # {},
         \A note \in Notes : note # job.files[job.i].path => disk'[note] = disk[note]
  PROVE  /\ Plan'
         /\ RollbackPlan => RollbackPlan'
         /\ ApplyPlan => ApplyPlan'
         /\ job.op = "apply" => ApplySnap' /\ ApplyNotes'
<1>1. Plan  BY DEF Underway
<1>2. job.i - 1 \in Nat /\ job.i - 1 < Len(job.files) /\ job.i \in DOMAIN job.files  BY <1>1, OneLess
<1>3. "undo" \in Steps /\ "undo" \notin Early  BY DEF Steps, Early
<1>4. Plan' /\ (RollbackPlan => RollbackPlan') /\ (ApplyPlan => ApplyPlan')  BY <1>1, <1>2, <1>3, PlanKept
<1>5. ASSUME job.op = "apply"  PROVE ApplySnap' /\ ApplyNotes'
  <2>1. ApplyPlan /\ ApplySnap /\ ApplyNotes  BY <1>5 DEF Underway
  <2>2. SnapOfFiles'  BY <2>1 DEF ApplySnap, InHand, SnapOfFiles, NextJob
  <2>3. \A k \in DOMAIN job.files : SnapExact(k)' /\ job.snap[k].content \in history[job.files[k].path]
    BY <2>1 DEF ApplySnap, InHand, SnapExact, NextJob, Grows
  <2>4. ApplySnap'  BY <2>2, <2>3 DEF ApplySnap, NextJob
  <2>5. job.files[job.i].path \notin Notes  BY <1>1, <1>2, <2>1, FilesFacts, Constants
  <2>6. disk'["cycle"] = disk["cycle"] /\ disk'["latest"] = disk["latest"] /\ disk'["original"] = disk["original"]
    BY <2>5 DEF Notes, Integration!Notes
  <2>7. ApplyNotes'  BY <2>1, <2>6 DEF ApplyNotes, InHand, NextJob
  <2> QED  BY <2>4, <2>7
<1> QED  BY <1>4, <1>5

LEMMA PutBack ==
  ASSUME World, Underway, job.pc = "undo", job.i > 0, NEW change, change = job.files[job.i],
         disk' = [disk EXCEPT ![change.path] = change.before],
         own' = IF change.path \in Notes THEN own ELSE [own EXCEPT ![change.path] = job.owned[change.path]],
         job' = [job EXCEPT !.i = @ - 1], UNCHANGED <<left, mishaps, address, target, history>>
  PROVE  World' /\ Underway' /\ job'.pc # "idle"
<1> DEFINE p == change.path
<1>1. Plan /\ NextJob("undo", job.i - 1, job.snap, job.recovered, job.undisturbed)  BY JobMoves DEF Underway
<1>2. /\ Replaced' = job.i - 1 /\ Replaced = job.i /\ job.i \in DOMAIN job.files /\ job.i - 1 \in Nat
      /\ \A q : IsReplaced(q) <=> IsReplaced(q)' \/ q = p
      /\ \A q : q = p => ~IsReplaced(q)'
  BY <1>1, OneLess
<1>3. p \in Files \cup Notes /\ change.before = job.was[p]  BY <1>1, <1>2 DEF Plan
<1>4. Grows /\ left' \in Lefts  BY NothingGrows, LeftKept
<1>5. Stands(job.was, job.owned, history, mishaps) /\ job.owned \in [Files -> FileContents \cup {None}]  BY <1>1 DEF Plan, Rests
<1>6. /\ World' /\ disk'[p] = job.was[p]
      /\ p \in Files => own'[p] = job.owned[p]
      /\ \A q \in Files : q # p => disk'[q] = disk[q] /\ own'[q] = own[q]
      /\ \A note \in Notes : note # p => disk'[note] = disk[note]
  <2>1. CASE p \in Files
    <3>1. p \notin Notes  BY <2>1, Constants
    <3>2. job.was[p] \in FileContents /\ (job.owned[p] = None => job.was[p] \in history[p])  BY <1>5, <2>1 DEF Stands
    <3>3. Filed(p, job.was[p], job.owned[p])  BY <1>3, <1>5, <2>1, <3>1, <3>2 DEF Filed
    <3>4. /\ World' /\ disk'[p] = job.was[p] /\ own'[p] = job.owned[p]
          /\ \A q \in Files : q # p => disk'[q] = disk[q] /\ own'[q] = own[q]
          /\ \A note \in Notes : disk'[note] = disk[note]
      BY <1>4, <3>3, WorldFiled
    <3> QED  BY <3>4
  <2>2. CASE p \in Notes
    <3>1. p \notin Files /\ own' = own  BY <2>2, Constants
    <3>2. disk' = [disk EXCEPT ![p] = job.was[p]]  BY <1>3
    <3>3. /\ World' /\ disk'[p] = job.was[p] /\ \A q \in Files : disk'[q] = disk[q]
          /\ \A note \in Notes : note # p => disk'[note] = disk[note]
      BY <1>4, <2>2, <3>1, <3>2, WorldNoted
    <3> QED  BY <3>1, <3>3
  <2> QED  BY <1>3, <2>1, <2>2
<1>7. /\ Plan'
      /\ RollbackPlan => RollbackPlan'
      /\ ApplyPlan => ApplyPlan'
      /\ job.op = "apply" => ApplySnap' /\ ApplyNotes'
  <2>1. job.recovered \in BOOLEAN /\ (~job.recovered => mishaps' # {})  BY <1>1 DEF Plan
  <2> QED  BY <1>1, <1>4, <1>6, <2>1, OneLessKept
<1>8. ASSUME p \in Files  PROVE \A q : q = p => Untouched(q)'
  <2>1. job.owned[p] # None /\ job.was["cycle"] = Absent => Managed(job.was[p])  BY <1>5, <1>8 DEF Stands, Older
  <2> QED  BY <1>1, <1>6, <1>8, <2>1 DEF Untouched, NextJob
<1>9. \A q \in Files : q # p /\ Untouched(q) => Untouched(q)'  BY <1>1, <1>6, UntouchedStays DEF NextJob
<1>10. CASE job.op = "rollback"
  <2>1. RollbackPlan /\ RollbackStands  BY <1>10 DEF Underway
  <2>2. ASSUME NEW q \in Files  PROVE IF IsReplaced(q)' THEN own'[q] = None ELSE Untouched(q)' \/ (~job'.recovered /\ own'[q] = None)
    <3>1. CASE q = p  BY <1>2, <1>8, <3>1
    <3>2. CASE q # p  BY <1>1, <1>2, <1>6, <1>9, <2>1, <3>2 DEF RollbackStands, NextJob
    <3> QED  BY <3>1, <3>2
  <2>3. \A note \in Notes : disk'[note] = IF IsReplaced(note)' THEN Absent ELSE job'.was[note]
    BY <1>1, <1>2, <1>6, <2>1 DEF RollbackStands, NextJob
  <2>4. RollbackStands'  BY <2>2, <2>3 DEF RollbackStands
  <2> QED  BY <1>1, <1>6, <1>7, <1>10, <2>1, <2>4 DEF Underway, NextJob
<1>11. CASE job.op = "apply"
  <2>1. ApplyPlan /\ ApplyOwn  BY <1>11 DEF Underway
  <2>2. p \in Files  BY <1>1, <1>2, <2>1, FilesFacts
  <2>3. \A q \in Files : own'[q] # None => job'.owned[q] # None \/ InPlan(q)'
    BY <1>1, <1>6, <2>1, <2>2 DEF ApplyOwn, InPlan, NextJob
  <2>4. \A q \in Files : IsReplaced(q)' => own'[q] # None  BY <1>2, <1>6, <2>1 DEF ApplyOwn
  <2>5. ASSUME NEW l \in 1 .. job.i - 1, mishaps = {}  PROVE job.snap[l].content = own'[job.files[l].path]
    <3>1. l \in 1 .. Replaced /\ l \in DOMAIN job.files /\ l # job.i  BY <1>1, <1>2 DEF Plan
    <3>2. job.files[l].path \in Files /\ job.files[l].path # p  BY <1>1, <1>2, <2>1, <3>1, FilesFacts DEF Plan
    <3> QED  BY <1>6, <2>1, <2>5, <3>1, <3>2 DEF ApplyOwn
  <2>6. \A l \in 1 .. Replaced' : mishaps' = {} => job'.snap[l].content = own'[job'.files[l].path]
    BY <1>1, <1>2, <2>5 DEF NextJob
  <2>7. job'.recovered => \A q \in Files : IsReplaced(q)' \/ Untouched(q)'
    BY <1>1, <1>2, <1>8, <1>9, <2>1, <2>2 DEF ApplyOwn, NextJob
  <2>8. ApplyOwn'  BY <2>3, <2>4, <2>6, <2>7 DEF ApplyOwn
  <2> QED  BY <1>1, <1>6, <1>7, <1>11, <2>1, <2>8 DEF Underway, NextJob
<1> QED  BY <1>1, <1>6, <1>10, <1>11 DEF Plan, NextJob

LEMMA NotPutBack ==
  ASSUME World, Underway, job.pc = "undo", job.i > 0, NEW change, change = job.files[job.i], NotesKept',
         job' = [job EXCEPT !.i = @ - 1, !.recovered = FALSE],
         mishaps' = mishaps \cup {IF change.path \in Notes THEN "note lost" ELSE "file lost"},
         Integration!CountFailure, UNCHANGED <<disk, own, address, target, history>>
  PROVE  World' /\ Underway' /\ job'.pc # "idle"
<1> DEFINE p == change.path
<1>1. Plan /\ NextJob("undo", job.i - 1, job.snap, FALSE, job.undisturbed)  BY JobMoves DEF Underway
<1>2. /\ Replaced' = job.i - 1 /\ Replaced = job.i /\ job.i \in DOMAIN job.files
      /\ \A q : IsReplaced(q) <=> IsReplaced(q)' \/ q = p
      /\ \A q : q = p => ~IsReplaced(q)'
  BY <1>1, OneLess
<1>3. Grows /\ mishaps' # {}  BY DEF Grows
<1>4. p \notin Notes
  <2> SUFFICES ASSUME p \in Notes  PROVE FALSE  OBVIOUS
  <2>1. "note lost" \in mishaps'  OBVIOUS
  <2> QED  BY <2>1 DEF NotesKept, Integration!NoteWriting
<1>5. left' \in Lefts /\ address' \in Addresses /\ target' \in DOMAIN Layouts  BY LeftKept DEF World
<1>6. World'  BY <1>5, WorldStays
<1>7. /\ Plan'
      /\ RollbackPlan => RollbackPlan'
      /\ ApplyPlan => ApplyPlan'
      /\ job.op = "apply" => ApplySnap' /\ ApplyNotes'
  BY <1>1, <1>3, OneLessKept
<1>8. \A q \in Files : Untouched(q) => Untouched(q)'  BY <1>1, <1>3, UntouchedStays DEF NextJob, Grows
<1>9. CASE job.op = "rollback"
  <2>1. RollbackPlan /\ RollbackStands  BY <1>9 DEF Underway
  <2>2. \A q \in Files : IF IsReplaced(q)' THEN own'[q] = None ELSE Untouched(q)' \/ (~job'.recovered /\ own'[q] = None)
    BY <1>1, <1>2, <1>8, <2>1 DEF RollbackStands, NextJob
  <2>3. \A note \in Notes : disk'[note] = IF IsReplaced(note)' THEN Absent ELSE job'.was[note]
    BY <1>1, <1>2, <1>4, <2>1 DEF RollbackStands, NextJob
  <2>4. RollbackStands'  BY <2>2, <2>3 DEF RollbackStands
  <2> QED  BY <1>1, <1>6, <1>7, <1>9, <2>1, <2>4 DEF Underway, NextJob
<1>10. CASE job.op = "apply"
  <2>1. ApplyPlan /\ ApplyOwn  BY <1>10 DEF Underway
  <2>2. \A q \in Files : own'[q] # None => job'.owned[q] # None \/ InPlan(q)'  BY <1>1, <2>1 DEF ApplyOwn, InPlan, NextJob
  <2>3. \A q \in Files : IsReplaced(q)' => own'[q] # None  BY <1>2, <2>1 DEF ApplyOwn
  <2>4. ~job'.recovered  BY <1>1 DEF NextJob
  <2>5. ApplyOwn'  BY <1>3, <2>2, <2>3, <2>4 DEF ApplyOwn
  <2> QED  BY <1>1, <1>6, <1>7, <1>10, <2>1, <2>5 DEF Underway, NextJob
<1> QED  BY <1>1, <1>6, <1>9, <1>10 DEF Plan, NextJob

LEMMA UndoKept ==
  ASSUME World, Underway, Integration!Undo, UNCHANGED <<address, target, history>>, NotesKept'
  PROVE  World' /\ Underway' /\ job'.pc # "idle"
<1> DEFINE change == job.files[job.i]
<1>1. job.pc = "undo" /\ job.i > 0  BY DEF Integration!Undo
<1>2. CASE disk' = [disk EXCEPT ![change.path] = change.before]
           /\ own' = (IF change.path \in Notes THEN own ELSE [own EXCEPT ![change.path] = job.owned[change.path]])
           /\ job' = [job EXCEPT !.i = @ - 1] /\ UNCHANGED <<left, mishaps>>
  BY <1>1, <1>2, PutBack
<1>3. CASE Integration!CountFailure /\ job' = [job EXCEPT !.i = @ - 1, !.recovered = FALSE] /\ UNCHANGED <<disk, own>>
           /\ mishaps' = mishaps \cup {IF change.path \in Notes THEN "note lost" ELSE "file lost"}
  BY <1>1, <1>3, NotPutBack
<1> QED  BY <1>2, <1>3 DEF Integration!Undo, Notes

LEMMA UndoneKept ==
  ASSUME World, Underway, Integration!Undone, UNCHANGED <<address, target, history, mishaps>>
  PROVE  World' /\ IF job'.pc = "idle" THEN Idle' ELSE Underway'
<1>1. job.pc = "undo" /\ job.i = 0 /\ Integration!Fail /\ UNCHANGED <<disk, own, left>>  BY DEF Integration!Undone
<1>2. Replaced = 0  BY <1>1 DEF Replaced
<1>3. left' \in Lefts /\ address' \in Addresses /\ target' \in DOMAIN Layouts  BY <1>1, LeftKept DEF World
<1>4. World'  BY <1>1, <1>3, WorldStays
<1> QED  BY <1>1, <1>2, <1>4, Fails

LEMMA NotesBackKept ==
  ASSUME World, Underway, Integration!PutNoteBack, UNCHANGED <<address, target, history>>, NotesKept'
  PROVE  World' /\ IF job'.pc = "idle" THEN Idle' ELSE Underway'
<1> DEFINE step == Integration!NextNote[job.pc]
<1>1. job.pc \in {"latest back", "original back", "cycle back"} /\ UNCHANGED own
  BY DEF Integration!PutNoteBack, Integration!NextNote
<1>2. Plan /\ job.op = "apply" /\ job.recovered /\ ApplyPlan /\ ApplySnap /\ ApplyNotes /\ ApplyOwn /\ job.i \in Nat
  BY <1>1 DEF Underway, Plan, RollbackPlan
<1>3. /\ job.pc = "latest back" => step.note = "latest" /\ step.next = "original back"
      /\ job.pc = "original back" => step.note = "original" /\ step.next = "cycle back"
      /\ job.pc = "cycle back" => step.note = "cycle" /\ step.next = "idle"
  BY <1>1 DEF Integration!NextNote
<1>4. disk' = [disk EXCEPT ![step.note] = job.was[step.note]] /\ UNCHANGED <<left, mishaps>>
  <2>1. "note lost" \notin mishaps'  BY DEF NotesKept, Integration!NoteWriting
  <2> QED  BY <2>1 DEF Integration!PutNoteBack
<1>5. IF step.next = "idle" THEN Integration!End(IF job.undisturbed THEN "failed" ELSE "broken") ELSE Integration!Go(step.next)
  BY DEF Integration!PutNoteBack
<1> HIDE DEF step
<1>6. step.note \in Notes /\ left' \in Lefts  BY <1>1, <1>3, <1>4, LeftKept DEF Notes, Integration!Notes
<1>7. /\ World' /\ disk'[step.note] = job.was[step.note]
      /\ \A p \in Files : disk'[p] = disk[p]
      /\ \A other \in Notes : other # step.note => disk'[other] = disk[other]
  BY <1>1, <1>4, <1>6, WorldNoted
<1>8. Replaced = 0  BY <1>1 DEF Replaced
<1>9. CASE step.next # "idle"
  <2>1. NextJob(step.next, job.i, job.snap, job.recovered, job.undisturbed)  BY <1>2, <1>5, <1>9, JobMoves
  <2>2. step.next \in {"original back", "cycle back"} /\ step.next \in Steps /\ step.next \notin Early
    BY <1>1, <1>3, <1>9 DEF Steps, Early
  <2>3. Plan' /\ ApplyPlan'  BY <1>2, <1>4, <2>1, <2>2, PlanKept, NothingGrows
  <2>4. job'.pc = step.next /\ job'.pc # "idle" /\ Replaced' = 0  BY <2>1, <2>2 DEF NextJob, Replaced
  <2>5. ApplySnap'  BY <1>2, <2>1, <2>2 DEF ApplySnap, SnapOfFiles, NextJob, InHand
  <2>6. ApplyNotes'
    BY <1>1, <1>2, <1>3, <1>7, <2>1, <2>2 DEF ApplyNotes, NextJob, InHand, Notes, Integration!Notes
  <2>7. ApplyOwn'  BY <1>1, <1>2, <1>4, <1>7, <1>8, <2>1, <2>4, OwnStays
  <2> QED  BY <1>2, <1>7, <2>1, <2>2, <2>3, <2>4, <2>5, <2>6, <2>7 DEF Underway, NextJob
<1>10. CASE step.next = "idle"
  <2>1. job.pc = "cycle back" /\ step.note = "cycle"  BY <1>1, <1>3, <1>10
  <2>2. \A note \in Notes : disk'[note] = job.was[note]
    BY <1>2, <1>7, <2>1 DEF ApplyNotes, Notes, Integration!Notes
  <2>3. \A p \in Files : Untouched(p)  BY <1>2, <1>8, NoneReplaced DEF ApplyOwn
  <2>4. Rests(disk', own, history, mishaps)
    <3> DEFINE contents == disk'
    <3>1. \A p \in Files : contents[p] = disk[p]  BY <1>7
    <3>2. \A note \in Notes : contents[note] = job.was[note]  BY <2>2
    <3>3. \A p \in Files : Untouched(p) \/ (mishaps # {} /\ own[p] = None)  BY <2>3
    <3> HIDE DEF contents
    <3>4. Rests(contents, own, history, mishaps)  BY <1>2, <3>1, <3>2, <3>3, RestsAgain
    <3> QED  BY <3>4 DEF contents
  <2>5. Rests(disk', own', history', mishaps')  BY <1>1, <1>4, <2>4
  <2>6. mishaps = {} /\ job.undisturbed => disk' = job.was
    <3> SUFFICES ASSUME mishaps = {}, job.undisturbed  PROVE disk' = job.was  OBVIOUS
    <3>1. \A spot \in Files \cup Notes : disk'[spot] = job.was[spot]  BY <1>7, <2>2, <2>3 DEF Untouched
    <3>2. [spot \in Files \cup Notes |-> disk'[spot]] = [spot \in Files \cup Notes |-> job.was[spot]]  BY <3>1
    <3> QED  BY <1>2, <1>7, <3>2 DEF World, Plan
  <2>7. CASE job.undisturbed
    <3>1. job' = [pc |-> "idle", answer |-> "failed", was |-> job.was]
      BY <1>5, <1>10, <2>7 DEF Integration!End, Integration!Ended
    <3> QED  BY <1>4, <1>7, <2>5, <2>6, <2>7, <3>1 DEF Idle
  <2>8. CASE ~job.undisturbed
    <3>1. job' = [pc |-> "idle", answer |-> "broken", was |-> None]
      BY <1>5, <1>10, <2>8 DEF Integration!End, Integration!Ended
    <3> QED  BY <1>7, <2>5, <3>1 DEF Idle
  <2> QED  BY <2>7, <2>8
<1> QED  BY <1>9, <1>10

(***************************************************************************)
(* Clipal stops, the user edits                                            *)
(***************************************************************************)

LEMMA CrashKept ==
  ASSUME World, Underway, Integration!Crash, NotesKept'
  PROVE  World' /\ Idle' /\ job'.pc = "idle"
<1>1. Plan /\ job.pc \in mishaps' /\ mishaps \subseteq mishaps' /\ UNCHANGED <<address, target, history, own>>
      /\ job' = [pc |-> "idle", answer |-> "none", was |-> None] /\ left' = [left EXCEPT !.crashes = @ - 1]
  BY DEF Integration!Crash, Integration!Ended, Underway
<1>2. job.pc \in {"stage", "commit", "undo"}
  <2>1. job.pc \notin Integration!NoteWriting  BY <1>1 DEF NotesKept
  <2> QED  BY <1>1, <2>1 DEF Plan, Steps, Early, Integration!NoteWriting
<1>3. disk' = disk  BY <1>2 DEF Integration!Crash
<1>4. left' \in Lefts /\ address' \in Addresses /\ target' \in DOMAIN Layouts  BY <1>1, LeftKept DEF World
<1>5. World'  BY <1>1, <1>3, <1>4, WorldStays
<1>6. Stands(disk, own, history, mishaps)
  <2>1. CASE job.op = "rollback"  BY <1>1, <2>1, RollingStands DEF Underway
  <2>2. CASE job.op = "apply" /\ job.pc \in {"commit", "undo"}  BY <1>1, <2>2, TakenStands DEF Underway
  <2>3. CASE job.op = "apply" /\ job.pc = "stage"
    <3>1. ApplyNotes /\ ApplyOwn /\ job.recovered /\ Replaced = 0  BY <1>1, <2>3 DEF Underway, Plan, Replaced
    <3>2. \A p \in Files : Untouched(p)  BY <3>1, NoneReplaced DEF ApplyOwn
    <3>3. \A note \in Notes : disk[note] = job.was[note]  BY <2>3, <3>1 DEF ApplyNotes, Notes, Integration!Notes
    <3> QED  BY <1>1, <3>2, <3>3, StandsAgain DEF Untouched
  <2> QED  BY <1>1, <1>2, <2>1, <2>2, <2>3 DEF Plan
<1>7. Stands(disk, own, history, mishaps')
  <2> DEFINE newer == mishaps'
  <2>1. mishaps \subseteq newer  BY <1>1
  <2> HIDE DEF newer
  <2>2. Stands(disk, own, history, newer)  BY <1>6, <2>1, Later
  <2> QED  BY <2>2 DEF newer
<1> QED  BY <1>1, <1>3, <1>5, <1>7 DEF Idle, Rests, Whole

\* What an edit of the user makes of the world.
LEMMA EditedWorld ==
  ASSUME World, NEW p \in Files, NEW content \in Integration!Edits(p), Integration!UserEdit(p, content)
  PROVE  /\ World' /\ disk'[p] = content /\ \A q \in Files : q # p => disk'[q] = disk[q] /\ own'[q] = own[q]
         /\ \A note \in Notes : disk'[note] = disk[note]
         /\ own'[p] = IF Managed(content) \/ Integration!InCycle(p) THEN own[p] ELSE None
         /\ Grows /\ UNCHANGED <<address, target>>
<1> DEFINE before == disk[p]
<1>1. content \in FileContents /\ (Managed(content) => own[p] # None)
  <2> DEFINE rest == MaxUserEdits - left.edits + 1
             route == IF before = Absent THEN "own" ELSE before.route
  <2>1. rest \in Int  BY Constants DEF World
  <2>2. before \in FileContents /\ (own[p] = None => ~Managed(before))  BY DEF World
  <2>3. route \in Addresses \cup {"own", "none"}  BY <2>2, Constants
  <2>4. content \in {Absent} \cup {[route |-> r, rest |-> rest] : r \in {route, "own"}}  BY DEF Integration!Edits
  <2>5. "own" \notin Addresses  BY TakeoverAssumption
  <2> HIDE DEF rest, route
  <2>6. content = Absent \/ content = [route |-> route, rest |-> rest] \/ content = [route |-> "own", rest |-> rest]  BY <2>4
  <2>7. content \in FileContents  BY <2>1, <2>3, <2>6 DEF FileContents
  <2>8. Managed(content) => route \in Addresses  BY <2>5, <2>6 DEF Managed, Integration!IsManaged
  <2>9. route \in Addresses => Managed(before)  BY <2>5 DEF route, Managed, Integration!IsManaged
  <2> QED  BY <2>2, <2>7, <2>8, <2>9
<1>2. /\ disk = [spot \in Files \cup Notes |-> disk[spot]] /\ own \in [Files -> FileContents \cup {None}]
      /\ history \in [Files -> SUBSET FileContents]
  BY DEF World
<1>3. /\ disk' = [disk EXCEPT ![p] = content]
      /\ history' = [history EXCEPT ![p] = IF Managed(content) THEN @ ELSE @ \cup {content}]
      /\ own' = IF Managed(content) \/ Integration!InCycle(p) THEN own ELSE [own EXCEPT ![p] = None]
      /\ UNCHANGED <<address, target>> /\ mishaps \subseteq mishaps' /\ left' = [left EXCEPT !.edits = @ - 1]
  BY DEF Integration!UserEdit, Managed
<1>4. /\ disk'[p] = content /\ \A q \in Files : q # p => disk'[q] = disk[q] /\ own'[q] = own[q] /\ history'[q] = history[q]
      /\ \A note \in Notes : disk'[note] = disk[note]
      /\ own'[p] = IF Managed(content) \/ Integration!InCycle(p) THEN own[p] ELSE None
      /\ history'[p] = IF Managed(content) THEN history[p] ELSE history[p] \cup {content}
  BY <1>2, <1>3, Constants
<1>5. /\ disk' = [spot \in Files \cup Notes |-> disk'[spot]] /\ own' \in [Files -> FileContents \cup {None}]
      /\ history' \in [Files -> SUBSET FileContents]
  BY <1>1, <1>2, <1>3
<1>6. Grows  BY <1>3, <1>4 DEF Grows
<1>7. left' \in Lefts  BY <1>3, LeftKept
<1>8. ASSUME NEW q \in Files
      PROVE  disk'[q] \in FileContents /\ (own'[q] = None => disk'[q] \in history'[q]) /\ \A given \in history'[q] : ~Managed(given)
  <2>1. CASE q = p  BY <1>1, <1>4, <2>1 DEF World
  <2>2. CASE q # p  BY <1>4, <2>2 DEF World
  <2> QED  BY <2>1, <2>2
<1>9. World'  BY <1>3, <1>5, <1>7, <1>8 DEF World, Lefts
<1> QED  BY <1>3, <1>4, <1>6, <1>9

LEMMA EditedIdle ==
  ASSUME World, Idle, NEW p \in Files, NEW content \in Integration!Edits(p), Integration!UserEdit(p, content), job.pc = "idle"
  PROVE  World' /\ Idle' /\ job'.pc = "idle"
<1>1. /\ World' /\ disk'[p] = content /\ \A q \in Files : q # p => disk'[q] = disk[q] /\ own'[q] = own[q]
      /\ \A note \in Notes : disk'[note] = disk[note]
      /\ own'[p] = IF Managed(content) \/ Integration!InCycle(p) THEN own[p] ELSE None
      /\ Grows
  BY EditedWorld
<1>2. Integration!InCycle(p) <=> disk["cycle"] # Absent  BY DEF Integration!InCycle
<1>3. mishaps' = mishaps /\ job' = [pc |-> "idle", answer |-> "none", was |-> None]
  BY DEF Integration!UserEdit, Integration!Ended
<1>4. Stands(disk, own, history', mishaps)
  <2> DEFINE more == history'
  <2>1. \A q \in Files : history[q] \subseteq more[q]  BY <1>1 DEF Grows
  <2> HIDE DEF more
  <2>2. Stands(disk, own, more, mishaps)  BY <2>1, Later DEF Idle, Rests
  <2> QED  BY <2>2 DEF more
<1>5. disk'["cycle"] = disk["cycle"] /\ disk'["latest"] = disk["latest"] /\ disk'["original"] = disk["original"]
  BY <1>1 DEF Notes, Integration!Notes
<1>6. BaseOf(disk') = BaseOf(disk) /\ LatestOf(disk') = LatestOf(disk)  BY <1>5 DEF BaseOf, LatestOf
<1>7. NotesSound(disk', history')  BY <1>4, <1>5, <1>6 DEF Stands, NotesSound
<1>8. \A q \in Files : own'[q] # None => own'[q] = own[q]  BY <1>1
<1>9. Gives(disk', own', mishaps)  BY <1>4, <1>6, <1>8 DEF Stands, Gives
<1>10. Older(disk', own')
  <2> SUFFICES ASSUME disk["cycle"] = Absent, NEW q \in Files, own'[q] # None
               PROVE  q = Main /\ Managed(disk'[q]) /\ disk["latest"] # Absent
                      /\ \A i \in DOMAIN disk["latest"] : disk["latest"][i].path = Main
    BY <1>5 DEF Older
  <2>1. q = Main /\ Managed(disk[q]) /\ disk["latest"] # Absent /\ \A i \in DOMAIN disk["latest"] : disk["latest"][i].path = Main
    BY <1>4, <1>8 DEF Stands, Older
  <2>2. CASE q = p  BY <1>1, <1>2, <2>1, <2>2
  <2>3. CASE q # p  BY <1>1, <2>1, <2>3
  <2> QED  BY <2>2, <2>3
<1>11. Whole(disk', own', mishaps)
  <2> SUFFICES ASSUME mishaps = {}, disk["cycle"] # Absent, NEW i \in DOMAIN disk["cycle"]
               PROVE  own'[disk["cycle"][i].path] # None
    BY <1>5 DEF Whole
  <2>1. own[disk["cycle"][i].path] # None  BY DEF Idle, Rests, Whole
  <2>2. disk["cycle"][i].path \in Files
    <3>1. OfTheUser(disk["cycle"], history)  BY DEF Idle, Rests, Stands, NotesSound
    <3> QED  BY <3>1, ListedMembers
  <2> QED  BY <1>1, <1>2, <2>1, <2>2
<1>12. Rests(disk', own', history', mishaps')  BY <1>1, <1>3, <1>7, <1>9, <1>10, <1>11 DEF Rests, Stands, World
<1> QED  BY <1>1, <1>3, <1>12 DEF Idle

LEMMA EditedUnderway ==
  ASSUME World, Underway, NEW p \in Files, NEW content \in Integration!Edits(p), Integration!UserEdit(p, content), job.pc # "idle"
  PROVE  World' /\ Underway' /\ job'.pc # "idle"
<1>1. /\ World' /\ disk'[p] = content /\ \A q \in Files : q # p => disk'[q] = disk[q] /\ own'[q] = own[q]
      /\ \A note \in Notes : disk'[note] = disk[note]
      /\ own'[p] = IF Managed(content) \/ Integration!InCycle(p) THEN own[p] ELSE None
      /\ Grows
  BY EditedWorld
<1>2. Plan /\ NextJob(job.pc, job.i, job.snap, job.recovered, FALSE)
  <2>1. job' = [job EXCEPT !.undisturbed = FALSE]  BY DEF Integration!UserEdit
  <2> QED  BY <2>1, JobMoves DEF Underway
<1>3. /\ Plan'
      /\ RollbackPlan => RollbackPlan'
      /\ ApplyPlan => ApplyPlan'
  <2>1. /\ job.pc \in Steps /\ job.i \in Nat /\ job.recovered \in BOOLEAN /\ (job.pc \in Early => job.i = 1)
        /\ (job.pc = "commit" => job.i \in DOMAIN job.files) /\ (job.pc = "undo" => job.i < Len(job.files))
        /\ (~job.recovered => mishaps # {} /\ job.pc \in {"commit", "undo"})
    BY <1>2 DEF Plan
  <2>2. ~job.recovered => mishaps' # {}  BY <1>1, <2>1 DEF Grows
  <2>3. RollbackPlan => job.pc \in {"stage", "commit", "undo"}  BY DEF RollbackPlan
  <2> QED  BY <1>1, <1>2, <2>1, <2>2, <2>3, PlanKept
<1>4. Replaced' = Replaced /\ \A q : IsReplaced(q)' <=> IsReplaced(q)  BY <1>2 DEF Replaced, IsReplaced, NextJob
<1>5. /\ Integration!InCycle(p) => job.was["cycle"] # Absent \/ IsReplaced(p)
      /\ job.was["cycle"] # Absent \/ IsReplaced(p) => Integration!InCycle(p)
  <2>1. job.i \in Nat  BY <1>2 DEF Plan
  <2>2. CASE job.pc = "commit"
    <3>1. 1 .. Replaced = {k \in 1 .. job.i : k < job.i}  BY <2>1, <2>2 DEF Replaced
    <3> QED  BY <2>2, <3>1 DEF Integration!InCycle, IsReplaced
  <2>3. CASE job.pc = "undo"  BY <2>3 DEF Integration!InCycle, IsReplaced, Replaced
  <2>4. CASE job.pc \notin {"commit", "undo"}
    <3>1. ~IsReplaced(p)  BY <2>4, NoneReplaced DEF Replaced
    <3> QED  BY <2>4, <3>1 DEF Integration!InCycle
  <2> QED  BY <2>2, <2>3, <2>4
<1>6. ASSUME NEW q \in Files, Untouched(q), ~IsReplaced(q)  PROVE Untouched(q)'
  <2>1. job'.owned = job.owned /\ job'.was = job.was /\ ~job'.undisturbed /\ (mishaps' = {} => mishaps = {})
    BY <1>1, <1>2 DEF NextJob, Grows
  <2>2. own'[q] \in {None, job.owned[q]}  BY <1>1, <1>6 DEF Untouched
  <2>3. own'[q] # None /\ job.was["cycle"] = Absent => Managed(disk'[q])
    <3>1. CASE q = p  BY <1>1, <1>5, <1>6, <3>1
    <3>2. CASE q # p  BY <1>1, <1>6, <3>2 DEF Untouched
    <3> QED  BY <3>1, <3>2
  <2>4. mishaps = {} /\ job.was["cycle"] # Absent => own'[q] = job.owned[q]
    BY <1>1, <1>5, <1>6 DEF Untouched
  <2> QED  BY <2>1, <2>2, <2>3, <2>4 DEF Untouched
<1>7. CASE job.op = "rollback"
  <2>1. RollbackPlan /\ RollbackStands  BY <1>7 DEF Underway
  <2>2. ASSUME NEW q \in Files  PROVE IF IsReplaced(q)' THEN own'[q] = None ELSE Untouched(q)' \/ (~job'.recovered /\ own'[q] = None)
    <3>1. own[q] = None => own'[q] = None  BY <1>1
    <3> QED  BY <1>2, <1>4, <1>6, <2>1, <3>1 DEF RollbackStands, NextJob
  <2>3. \A note \in Notes : disk'[note] = IF IsReplaced(note)' THEN Absent ELSE job'.was[note]
    BY <1>1, <1>2, <1>4, <2>1 DEF RollbackStands, NextJob
  <2>4. RollbackStands'  BY <2>2, <2>3 DEF RollbackStands
  <2> QED  BY <1>1, <1>2, <1>3, <1>7, <2>1, <2>4 DEF Underway, NextJob
<1>8. CASE job.op = "apply"
  <2>1. ApplyPlan /\ ApplySnap /\ ApplyNotes /\ ApplyOwn  BY <1>8 DEF Underway
  <2>2. SnapOfFiles => SnapOfFiles'  BY <1>2 DEF SnapOfFiles, NextJob
  <2>3. ASSUME job.pc \in InHand, NEW k \in DOMAIN job.files  PROVE SnapExact(k)'
    <3> DEFINE f == job.files[k].path
    <3>1. f \in Files /\ job'.files[k].path = f  BY <1>2, <2>1, <2>3, FilesFacts DEF NextJob
    <3>2. SnapExact(k) /\ SnapOfFiles  BY <2>1, <2>3 DEF ApplySnap
    <3>3. mishaps' = {} => mishaps = {}  BY <1>1 DEF Grows
    <3>4. CASE job.owned[f] # None  BY <1>2, <3>1, <3>2, <3>3, <3>4 DEF SnapExact, NextJob
    <3>5. CASE job.owned[f] = None /\ f # p
      <4>1. disk'[f] = disk[f]  BY <1>1, <3>1, <3>5
      <4> QED  BY <1>2, <1>4, <3>1, <3>2, <3>3, <3>5, <4>1 DEF SnapExact, NextJob
    <3>6. CASE job.owned[f] = None /\ f = p
      <4>1. ASSUME mishaps' = {}
            PROVE  job.pc = "undo" \/ IsReplaced(p) \/ disk'[p] # job.was[p]
        <5> SUFFICES ASSUME disk'[p] = job.was[p]  PROVE IsReplaced(p)  OBVIOUS
        <5>1. Integration!InCycle(p)
          <6>1. content = job.was[p] /\ ("changed back" \notin mishaps')  BY <1>1, <4>1
          <6> QED  BY <6>1 DEF Integration!UserEdit
        <5>2. job.was["cycle"] = Absent
          <6> SUFFICES ASSUME job.was["cycle"] # Absent  PROVE FALSE  OBVIOUS
          <6>1. ~job.new  BY <2>1 DEF ApplyPlan
          <6>2. job.owned[f] # None  BY <1>2, <2>1, <2>3, <3>2, <3>3, <4>1, <6>1, OldCycle
          <6> QED  BY <3>6, <6>2
        <5> QED  BY <1>5, <5>1, <5>2
      <4>2. SnapExact(k)'
        BY <1>2, <1>4, <3>1, <3>2, <3>3, <3>6, <4>1 DEF SnapExact, NextJob
      <4> QED  BY <4>2
    <3> QED  BY <3>4, <3>5, <3>6
  <2>4. ASSUME job.pc \in InHand, NEW k \in DOMAIN job.files
        PROVE  job.snap[k].content \in history'[job.files[k].path] \/ (job.pc \in {"original", "adopt latest"} /\ job.legacy # None /\ k = 1)
    <3>1. job.files[k].path \in Files  BY <1>2, <2>1, <2>4, FilesFacts
    <3> QED  BY <1>1, <2>1, <2>4, <3>1 DEF ApplySnap, Grows
  <2>5. ApplySnap'  BY <1>2, <2>1, <2>2, <2>3, <2>4 DEF ApplySnap, NextJob
  <2>6. ApplyNotes'
    <3>1. disk'["cycle"] = disk["cycle"] /\ disk'["latest"] = disk["latest"] /\ disk'["original"] = disk["original"]
      BY <1>1 DEF Notes, Integration!Notes
    <3> QED  BY <1>2, <2>1, <3>1 DEF ApplyNotes, NextJob
  <2>7. ApplyOwn'
    <3>1. \A q \in Files : own'[q] # None => job'.owned[q] # None \/ InPlan(q)'
      BY <1>1, <1>2, <2>1 DEF ApplyOwn, InPlan, NextJob
    <3>2. \A q \in Files : IsReplaced(q) => own'[q] = own[q]  BY <1>1, <1>5
    <3>3. \A q \in Files : IsReplaced(q)' => own'[q] # None  BY <1>4, <2>1, <3>2 DEF ApplyOwn
    <3>4. ASSUME NEW k \in 1 .. Replaced, mishaps' = {}  PROVE job.snap[k].content = own'[job.files[k].path]
      <4>1. IsReplaced(job.files[k].path) /\ k \in DOMAIN job.files  BY <1>2 DEF IsReplaced, Replaced, Plan
      <4>2. job.files[k].path \in Files  BY <1>2, <2>1, <4>1, FilesFacts
      <4>3. mishaps = {}  BY <1>1, <3>4 DEF Grows
      <4> QED  BY <2>1, <3>2, <4>1, <4>2, <4>3 DEF ApplyOwn
    <3>5. \A k \in 1 .. Replaced' : mishaps' = {} => job'.snap[k].content = own'[job'.files[k].path]
      BY <1>2, <1>4, <3>4 DEF NextJob
    <3>6. job'.recovered => \A q \in Files : IsReplaced(q)' \/ Untouched(q)'
      BY <1>2, <1>4, <1>6, <2>1 DEF ApplyOwn, NextJob
    <3> QED  BY <3>1, <3>3, <3>5, <3>6 DEF ApplyOwn
  <2> QED  BY <1>1, <1>2, <1>3, <1>8, <2>1, <2>5, <2>6, <2>7 DEF Underway, NextJob
<1> QED  BY <1>1, <1>2, <1>7, <1>8 DEF Plan, NextJob

(***************************************************************************)
(* What a call begins                                                      *)
(***************************************************************************)

Begun(op, files, new, legacy) ==
    /\ IsJob(job') /\ job'.pc = "stage" /\ job'.op = op /\ job'.files = files /\ job'.new = new /\ job'.legacy = legacy
    /\ job'.i = 1 /\ job'.recovered = TRUE /\ job'.snap = (IF new THEN None ELSE disk["cycle"])
    /\ job'.was = disk /\ job'.owned = own /\ job'.undisturbed = TRUE

LEMMA Begins ==
  ASSUME NEW op, NEW files, NEW new, NEW legacy, Integration!Begin(op, files, new, legacy)
  PROVE  Begun(op, files, new, legacy) /\ UNCHANGED <<disk, own>>
BY DEF Integration!Begin, Begun, IsJob

\* The files of a plan: each once, as they are on the disk.
Planning(files) ==
    /\ Len(files) \in Nat /\ Len(files) > 0 /\ DOMAIN files = 1 .. Len(files)
    /\ \A k \in DOMAIN files : files[k].path \in Files \cup Notes
    /\ \A k, l \in DOMAIN files : files[k].path = files[l].path => k = l
    /\ \A k \in DOMAIN files : files[k].before = disk[files[k].path]

LEMMA PlanBegun ==
  ASSUME World, Idle, NEW op \in {"apply", "rollback"}, NEW files, NEW new \in BOOLEAN, NEW legacy,
         Begun(op, files, new, legacy), UNCHANGED <<disk, own, history, mishaps>>, Planning(files)
  PROVE  /\ Plan' /\ job'.pc = "stage" /\ Replaced' = 0 /\ \A p : ~IsReplaced(p)'
         /\ \A p \in Files : Untouched(p)'
<1>1. job'.pc = "stage" /\ Replaced' = 0 /\ \A p : ~IsReplaced(p)'  BY NoneReplaced DEF Begun, Replaced
<1>2. Rests(disk, own, history, mishaps)  BY DEF Idle
<1>3. own \in [Files -> FileContents \cup {None}] /\ disk = [spot \in Files \cup Notes |-> disk[spot]]  BY DEF World
<1>4. \A p \in Files : own[p] # None /\ disk["cycle"] = Absent => Managed(disk[p])  BY <1>2 DEF Rests, Stands, Older
<1>5. \A p \in Files : Untouched(p)'  BY <1>4 DEF Untouched, Begun
<1>6. Plan'
  <2>1. Rests(job'.was, job'.owned, history', mishaps')  BY <1>2 DEF Begun
  <2>2. /\ IsJob(job') /\ job'.pc = "stage" /\ job'.op \in {"apply", "rollback"} /\ job'.new \in BOOLEAN
        /\ job'.recovered = TRUE /\ job'.i = 1 /\ job'.files = files /\ job'.was = disk /\ job'.owned = own
    BY DEF Begun
  <2>3. "stage" \in Steps /\ 1 \in Nat  BY DEF Steps, Early
  <2>4. Planning(job'.files) BY <2>2
  <2> QED  BY ONLY <1>3, <2>1, <2>2, <2>3, <2>4 DEF Plan, Planning
<1> QED  BY <1>1, <1>5, <1>6

\* What a takeover plans.
LEMMA ChangesAre ==
  ASSUME World, NEW files, files = Integration!Changes
  PROVE  /\ Planning(files) /\ Len(files) > 0 /\ 1 \in DOMAIN files
         /\ Integration!PathsOf(files) \in Seq(Files) /\ Len(Integration!PathsOf(files)) = Len(files)
         /\ \A k \in DOMAIN files : /\ files[k].path \in Files /\ files[k].after \in FileContents /\ Managed(files[k].after)
                                    /\ Integration!PathsOf(files)[k] = files[k].path
<1> DEFINE paths == Layouts[target]
           made == [path : Files, before : FileContents, after : FileContents]
           f == [i \in DOMAIN paths |-> Integration!Change(paths[i], Integration!Planned(disk[paths[i]]))]
<1>1. /\ paths \in Seq(Files) /\ paths # <<>>
      /\ \A i, j \in DOMAIN paths : paths[i] = paths[j] => i = j
      /\ address \in Addresses
  BY Constants DEF World
<1>2. Len(paths) \in Nat /\ Len(paths) > 0 /\ DOMAIN paths = 1 .. Len(paths) /\ \A i \in DOMAIN paths : paths[i] \in Files
  <2> HIDE DEF paths
  <2>1. DOMAIN paths = 1 .. Len(paths) /\ Len(paths) \in Nat /\ \A i \in DOMAIN paths : paths[i] \in Files  BY <1>1, Members
  <2>2. Len(paths) # 0  BY <1>1
  <2> QED  BY <2>1, <2>2
<1>3. ASSUME NEW content \in FileContents
      PROVE  Integration!Planned(content) \in FileContents /\ Managed(Integration!Planned(content))
  <2> DEFINE rest == IF content = Absent THEN 0 ELSE content.rest
  <2>1. rest \in Int  BY Constants
  <2>2. Integration!Planned(content) = [route |-> address, rest |-> rest]  BY DEF Integration!Planned
  <2> HIDE DEF rest
  <2>3. [route |-> address, rest |-> rest] \in [route : Addresses \cup {"own", "none"}, rest : Int]  BY <1>1, <2>1
  <2>4. [route |-> address, rest |-> rest] # Absent  BY <2>3, TakeoverAssumption
  <2>5. [route |-> address, rest |-> rest].route \in Addresses  BY <1>1
  <2> QED  BY <2>2, <2>3, <2>4, <2>5 DEF FileContents, Managed, Integration!IsManaged
<1>4. ASSUME NEW i \in DOMAIN paths
      PROVE  /\ f[i] \in made /\ f[i].path = paths[i] /\ f[i].before = disk[paths[i]]
             /\ f[i].path \in Files /\ f[i].after \in FileContents /\ Managed(f[i].after)
  <2>1. paths[i] \in Files /\ disk[paths[i]] \in FileContents  BY <1>2 DEF World
  <2>2. f[i] = [path |-> paths[i], before |-> disk[paths[i]], after |-> Integration!Planned(disk[paths[i]])]
    BY DEF Integration!Change
  <2> QED  BY <1>3, <2>1, <2>2
<1>5. f \in [1 .. Len(paths) -> made]
  <2>1. DOMAIN f = DOMAIN paths /\ f = [i \in DOMAIN paths |-> f[i]]  OBVIOUS
  <2> HIDE DEF f, made, paths
  <2> QED  BY <1>2, <1>4, <2>1
<1>6. files = <<>> \o f  BY DEF Integration!Changes
<1> HIDE DEF f, made
<1>7. files = f /\ Len(files) = Len(paths) /\ DOMAIN files = DOMAIN paths /\ files \in Seq(made)
  BY <1>2, <1>5, <1>6, Listing
<1> HIDE DEF paths
<1>8. \A k \in DOMAIN files : files[k].path = paths[k] /\ files[k].before = disk[files[k].path]  BY <1>4, <1>7
<1>9. \A k, l \in DOMAIN files : files[k].path = files[l].path => k = l  BY <1>1, <1>7, <1>8
<1>10. Planning(files)  BY <1>2, <1>4, <1>7, <1>8, <1>9 DEF Planning
<1>11. 1 \in DOMAIN files  BY <1>2, <1>7
<1>12. /\ Integration!PathsOf(files) \in Seq(Files) /\ Len(Integration!PathsOf(files)) = Len(files)
       /\ \A k \in DOMAIN files : Integration!PathsOf(files)[k] = files[k].path
  BY <1>4, <1>7, PathsOfList
<1> QED  BY <1>2, <1>4, <1>7, <1>10, <1>11, <1>12

LEMMA ApplyBegins ==
  ASSUME World, Idle, NEW files, files = Integration!Changes, Integration!Applicable(files), ~Integration!Orphans(files),
         Integration!Begin("apply", files, Integration!NewCycle, Integration!LegacyBaseline(files)),
         UNCHANGED <<address, target, history, mishaps>>, left' \in Lefts
  PROVE  World' /\ Underway' /\ job'.pc # "idle"
<1> DEFINE new == Integration!NewCycle
           legacy == Integration!LegacyBaseline(files)
<1>1. Begun("apply", files, new, legacy) /\ UNCHANGED <<disk, own>>  BY Begins
<1>2. World'
  <2>1. address' \in Addresses /\ target' \in DOMAIN Layouts  BY DEF World
  <2> QED  BY <1>1, <2>1, WorldStays
<1>3. /\ Planning(files) /\ 1 \in DOMAIN files
      /\ Integration!PathsOf(files) \in Seq(Files) /\ Len(Integration!PathsOf(files)) = Len(files)
      /\ \A k \in DOMAIN files : /\ files[k].path \in Files /\ files[k].after \in FileContents /\ Managed(files[k].after)
                                 /\ Integration!PathsOf(files)[k] = files[k].path
  BY ChangesAre
<1>4. new \in BOOLEAN /\ (new <=> disk["cycle"] = Absent)  BY DEF Integration!NewCycle
<1>5. Stands(disk, own, history, mishaps) /\ NotesSound(disk, history)  BY DEF Idle, Rests, Stands
<1> DEFINE main == files[1].path
<1>6. main \in Files /\ files[1].before = disk[main]  BY <1>3 DEF Planning
<1>7. /\ legacy # None => new /\ Managed(disk[main]) /\ legacy = LatestOf(disk)
      /\ new /\ Managed(disk[main]) /\ disk["latest"] # Absent => legacy # None
  <2>1. Integration!LatestBackup = LatestOf(disk) /\ (Integration!Readable("latest") <=> disk["latest"] # Absent)
    BY <1>5, BaselineIs
  <2>2. disk["latest"] # Absent => LatestOf(disk) # None
    <3>1. disk["latest"] # Absent => LatestOf(disk) \in NoteLists  BY <1>5, Facts DEF NotesSound
    <3> QED  BY <3>1, Constants
  <2> QED  BY <1>6, <2>1, <2>2 DEF Integration!LegacyBaseline, Managed
<1> HIDE DEF new, legacy
<1>8. Plan' /\ job'.pc = "stage" /\ Replaced' = 0 /\ (\A p : ~IsReplaced(p)') /\ \A p \in Files : Untouched(p)'
  BY <1>1, <1>3, <1>4, PlanBegun
<1>9. ASSUME NEW p \in Files, own[p] # None, new  PROVE p = main /\ p = Main /\ legacy # None
  <2>1. p = main  BY <1>9 DEF Integration!Orphans, new, Files
  <2>2. p = Main /\ Managed(disk[p]) /\ disk["latest"] # Absent  BY <1>4, <1>5, <1>9 DEF Stands, Older
  <2> QED  BY <1>7, <1>9, <2>1, <2>2
<1>10. ApplyPlan'
  <2>1. ~new => legacy = None /\ job'.snap = disk["cycle"]  BY <1>1, <1>7 DEF Begun
  <2>2. new /\ legacy # None => main = Main /\ own[Main] # None /\ legacy = LatestOf(disk)
    <3> SUFFICES ASSUME new, legacy # None  PROVE main = Main /\ own[Main] # None  BY <1>7
    <3>1. own[main] # None  BY <1>6, <1>7 DEF World
    <3> QED  BY <1>6, <1>9, <3>1
  <2>3. new /\ legacy = None => \A p \in Files : own[p] = None  BY <1>9
  <2> QED  BY <1>1, <1>3, <1>4, <2>1, <2>2, <2>3 DEF ApplyPlan, Begun
<1>11. ~new => SnapOfFiles'
  <2> SUFFICES ASSUME ~new  PROVE SnapOfFiles'  OBVIOUS
  <2> DEFINE snap == disk["cycle"]
  <2>1. Integration!PathsOf(snap) = Integration!PathsOf(files)  BY DEF Integration!Applicable, new
  <2>2. OfTheUser(snap, history)  BY <1>4, <1>5 DEF NotesSound
  <2>3. snap \in Seq(Contained) /\ DOMAIN snap = 1 .. Len(snap) /\ \A i \in DOMAIN snap : snap[i].path \in Files
    BY <2>2, ListedMembers
  <2> HIDE DEF snap
  <2>4. Len(Integration!PathsOf(snap)) = Len(snap) /\ \A i \in DOMAIN snap : Integration!PathsOf(snap)[i] = snap[i].path
    BY <2>3, PathsOfList
  <2>5. Len(snap) = Len(files) /\ DOMAIN files = DOMAIN snap  BY <1>3, <2>1, <2>3, <2>4 DEF Planning
  <2>6. \A k \in DOMAIN files : snap[k].path = files[k].path  BY <1>3, <2>1, <2>4, <2>5
  <2>7. job'.snap = snap /\ job'.files = files  BY <1>1 DEF Begun, snap
  <2> QED  BY <2>3, <2>5, <2>6, <2>7 DEF SnapOfFiles, Contained
<1>12. ApplySnap'  BY <1>1, <1>8, <1>11 DEF ApplySnap, InHand, Begun
<1>13. ApplyNotes'  BY <1>1, <1>8 DEF ApplyNotes, InHand, Begun
<1>14. ApplyOwn'  BY <1>1, <1>8 DEF ApplyOwn, Begun
<1> QED  BY <1>1, <1>2, <1>8, <1>10, <1>12, <1>13, <1>14 DEF Underway, Begun

LEMMA RollbackBegins ==
  ASSUME World, Idle, Integration!Baseline # None, Integration!Begin("rollback", Integration!RollbackFiles, FALSE, None),
         UNCHANGED <<address, target, history, mishaps>>, left' \in Lefts
  PROVE  World' /\ Underway' /\ job'.pc # "idle"
<1> DEFINE base == Integration!Baseline
           files == Integration!RollbackFiles
           n == Len(base)
           f == [i \in DOMAIN base |-> Integration!Change(base[i].path, base[i].content)]
           Changed == [path : Files, before : FileContents, after : FileContents]
           tail == <<Integration!Change("cycle", Absent), Integration!Change("latest", Absent), Integration!Change("original", Absent)>>
<1>1. Begun("rollback", files, FALSE, None) /\ UNCHANGED <<disk, own>>
  <2> HIDE DEF files
  <2> QED  BY Begins DEF files
<1>2. World'
  <2>1. address' \in Addresses /\ target' \in DOMAIN Layouts  BY DEF World
  <2> QED  BY <1>1, <2>1, WorldStays
<1>3. Stands(disk, own, history, mishaps) /\ NotesSound(disk, history)  BY DEF Idle, Rests, Stands
<1>4. base = BaseOf(disk) /\ OfTheUser(base, history)
  <2>1. base = BaseOf(disk)  BY <1>3, BaselineIs
  <2> QED  BY <1>3, <2>1 DEF NotesSound, BaseOf
<1>5. /\ n \in Nat /\ n > 0 /\ DOMAIN base = 1 .. n
      /\ \A i \in 1 .. n : base[i].path \in Files /\ base[i].content \in FileContents /\ base[i].content \in history[base[i].path]
      /\ \A i, j \in 1 .. n : base[i].path = base[j].path => i = j
  <2> HIDE DEF base
  <2>1. base \in Seq(Contained) /\ base # <<>> /\ DOMAIN base = 1 .. Len(base) /\ Len(base) \in Nat
        /\ \A i \in DOMAIN base : base[i].path \in Files /\ base[i].content \in FileContents
    BY <1>4, ListedMembers
  <2>2. Len(base) # 0  BY <2>1
  <2>3. Len(base) > 0  BY <2>1, <2>2
  <2> QED  BY <1>4, <2>1, <2>3 DEF OfTheUser, Listed
<1>6. ASSUME NEW i \in 1 .. n
      PROVE  f[i] \in Changed /\ f[i].path = base[i].path /\ f[i].before = disk[base[i].path] /\ f[i].after = base[i].content
  <2>1. f[i] = [path |-> base[i].path, before |-> disk[base[i].path], after |-> base[i].content]  BY <1>5 DEF Integration!Change
  <2>2. disk[base[i].path] \in FileContents  BY <1>5 DEF World
  <2> QED  BY <1>5, <2>1, <2>2
<1>7. files = (<<>> \o f) \o tail  BY DEF Integration!RollbackFiles
<1>8. f = [i \in 1 .. n |-> f[i]]  BY <1>5
<1> HIDE DEF base, files, f, n, Changed
<1>9. <<>> \o f = f /\ f \in Seq(Changed) /\ Len(f) = n
  <2>1. f \in [1 .. n -> Changed]  BY <1>6, <1>8
  <2> QED  BY <1>5, <2>1, Listing
<1>10. /\ tail[1] = Integration!Change("cycle", Absent) /\ tail[2] = Integration!Change("latest", Absent)
       /\ tail[3] = Integration!Change("original", Absent) /\ Len(tail) = 3
       /\ tail \in Seq({Integration!Change("cycle", Absent), Integration!Change("latest", Absent), Integration!Change("original", Absent)})
  OBVIOUS
<1> HIDE DEF tail
<1>11. /\ Len(files) = n + 3 /\ DOMAIN files = 1 .. n + 3
       /\ \A k \in 1 .. n : files[k] = f[k]
       /\ files[n + 1] = tail[1] /\ files[n + 2] = tail[2] /\ files[n + 3] = tail[3]
  <2> DEFINE all == Changed \cup {Integration!Change("cycle", Absent), Integration!Change("latest", Absent), Integration!Change("original", Absent)}
  <2>1. f \in Seq(all) /\ tail \in Seq(all)
    <3>1. \A i \in DOMAIN f : f[i] \in all  BY <1>9, Members
    <3>2. \A i \in DOMAIN tail : tail[i] \in all  BY <1>10, Members
    <3> HIDE DEF all
    <3> QED  BY <1>9, <1>10, <3>1, <3>2, Wider
  <2> HIDE DEF all
  <2>2. files = f \o tail  BY <1>7, <1>9
  <2>3. Len(f \o tail) = Len(f) + Len(tail) /\ f \o tail \in Seq(all)
        /\ \A k \in 1 .. Len(f) + Len(tail) : (f \o tail)[k] = IF k <= Len(f) THEN f[k] ELSE tail[k - Len(f)]
    BY <2>1, ConcatProperties
  <2>4. Len(files) = n + 3 /\ files \in Seq(all) /\ \A k \in 1 .. n + 3 : files[k] = IF k <= n THEN f[k] ELSE tail[k - n]
    BY <1>9, <1>10, <2>2, <2>3
  <2>5. DOMAIN files = 1 .. n + 3  BY <2>4, Members
  <2>6. /\ n + 1 \in 1 .. n + 3 /\ ~(n + 1 <= n) /\ (n + 1) - n = 1
        /\ n + 2 \in 1 .. n + 3 /\ ~(n + 2 <= n) /\ (n + 2) - n = 2
        /\ n + 3 \in 1 .. n + 3 /\ ~(n + 3 <= n) /\ (n + 3) - n = 3
        /\ \A k \in 1 .. n : k \in 1 .. n + 3 /\ k <= n
    BY <1>5
  <2> QED  BY <2>4, <2>5, <2>6
<1>12. \A k \in 1 .. n + 3 : k \in 1 .. n \/ k = n + 1 \/ k = n + 2 \/ k = n + 3  BY <1>5
<1>13. /\ \A k \in 1 .. n : files[k].path = base[k].path /\ files[k].before = disk[base[k].path] /\ files[k].after = base[k].content
       /\ files[n + 1].path = "cycle" /\ files[n + 1].before = disk["cycle"] /\ files[n + 1].after = Absent
       /\ files[n + 2].path = "latest" /\ files[n + 2].before = disk["latest"] /\ files[n + 2].after = Absent
       /\ files[n + 3].path = "original" /\ files[n + 3].before = disk["original"] /\ files[n + 3].after = Absent
  BY <1>6, <1>10, <1>11 DEF Integration!Change
<1>14. Planning(files)
  <2>1. Len(files) \in Nat /\ Len(files) > 0 /\ DOMAIN files = 1 .. Len(files)  BY <1>5, <1>11
  <2>2. \A k \in DOMAIN files : files[k].path \in Files \cup Notes /\ files[k].before = disk[files[k].path]
    BY <1>5, <1>11, <1>12, <1>13 DEF Notes, Integration!Notes
  <2>3. \A k \in 1 .. n : files[k].path # "cycle" /\ files[k].path # "latest" /\ files[k].path # "original"
    BY <1>5, <1>13, Constants DEF Notes, Integration!Notes
  <2>4. \A k, l \in DOMAIN files : files[k].path = files[l].path => k = l
    BY <1>5, <1>11, <1>12, <1>13, <2>3
  <2> QED  BY <2>1, <2>2, <2>4 DEF Planning
<1>15. Plan' /\ job'.pc = "stage" /\ Replaced' = 0 /\ (\A p : ~IsReplaced(p)') /\ \A p \in Files : Untouched(p)'
  BY <1>1, <1>14, PlanBegun
<1>16. RollbackPlan'
  <2>1. job'.files = files /\ ~job'.new /\ job'.owned = own /\ history' = history  BY <1>1 DEF Begun
  <2>2. Len(files) > 3 /\ Len(files) - 3 = n  BY <1>5, <1>11
  <2>3. ASSUME NEW k \in DOMAIN files
        PROVE  IF k <= n THEN files[k].path \in Files /\ files[k].after \in history[files[k].path]
               ELSE files[k].after = Absent /\ files[k].path = <<"cycle", "latest", "original">>[k - n]
    <3>1. CASE k \in 1 .. n  BY <1>5, <1>13, <3>1
    <3>2. CASE k = n + 1
      <4>1. ~(k <= n) /\ k - n = 1  BY <1>5, <3>2
      <4> QED  BY <1>13, <3>2, <4>1
    <3>3. CASE k = n + 2
      <4>1. ~(k <= n) /\ k - n = 2  BY <1>5, <3>3
      <4> QED  BY <1>13, <3>3, <4>1
    <3>4. CASE k = n + 3
      <4>1. ~(k <= n) /\ k - n = 3  BY <1>5, <3>4
      <4> QED  BY <1>13, <3>4, <4>1
    <3> QED  BY <1>11, <1>12, <3>1, <3>2, <3>3, <3>4
  <2>4. ASSUME NEW p \in Files, own[p] # None  PROVE \E k \in DOMAIN files : files[k].path = p
    <3>1. Integration!Has(base, p)  BY <1>3, <1>4, <2>4 DEF Stands, Gives
    <3>2. PICK k \in 1 .. n : base[k].path = p  BY <1>5, <3>1 DEF Integration!Has
    <3>3. k \in DOMAIN files  BY <1>5, <1>11, <3>2
    <3> QED  BY <1>13, <3>2, <3>3
  <2> QED  BY <1>15, <2>1, <2>2, <2>3, <2>4 DEF RollbackPlan, InPlan
<1>17. RollbackStands'  BY <1>1, <1>15 DEF RollbackStands, Begun
<1> QED  BY <1>1, <1>2, <1>15, <1>16, <1>17 DEF Underway, Begun

LEMMA RefusedKept ==
  ASSUME World, Idle, NEW answer, answer # "failed", Integration!Refuse(answer),
         UNCHANGED <<history, mishaps>>, address' \in Addresses, target' \in DOMAIN Layouts, left' \in Lefts
  PROVE  World' /\ Idle' /\ job'.pc = "idle"
<1>1. job' = [pc |-> "idle", answer |-> answer, was |-> None] /\ UNCHANGED <<disk, own>>
  BY DEF Integration!Refuse, Integration!Ended
<1>2. World'  BY <1>1, WorldStays
<1> QED  BY <1>1, <1>2 DEF Idle

LEMMA TakeoverKept ==
  ASSUME TakeoverInvariant, Integration!TakeoverNext
  PROVE  TakeoverInvariant'
<1> SUFFICES ASSUME NotesKept'  PROVE World' /\ IF job'.pc = "idle" THEN Idle' ELSE Underway'
  BY DEF TakeoverInvariant
<1>1. NotesKept
  <2>1. mishaps \subseteq mishaps'
    BY DEF Integration!TakeoverNext, Integration!Apply, Integration!Rollback, Integration!Transaction, Integration!PuttingBack,
           Integration!Undo, Integration!PutNoteBack, Integration!Crash, Integration!SetTarget, Integration!Restart, Integration!UserEdit
  <2> QED  BY <2>1 DEF NotesKept
<1>2. World /\ (IF job.pc = "idle" THEN Idle ELSE Underway)  BY <1>1 DEF TakeoverInvariant
<1>3. address \in Addresses /\ target \in DOMAIN Layouts  BY <1>2 DEF World
<1>4. Integration!Call => job.pc = "idle" /\ left' \in Lefts  BY <1>2, LeftKept DEF Integration!Call
<1>5. job.pc \in Steps => job.pc # "idle"  BY DEF Steps, Early
<1>6. CASE Integration!Apply
  <2>1. Idle /\ left' \in Lefts /\ UNCHANGED <<address, target, history>>  BY <1>2, <1>4, <1>6 DEF Integration!Apply
  <2> DEFINE files == Integration!Changes
  <2>2. CASE \E answer \in {"already configured", "refused"} : Integration!Refuse(answer) /\ UNCHANGED mishaps
    BY <1>2, <1>3, <2>1, <2>2, RefusedKept
  <2>3. CASE Integration!Applicable(files) /\ Integration!Begin("apply", files, Integration!NewCycle, Integration!LegacyBaseline(files))
             /\ mishaps' = mishaps \cup (IF Integration!Orphans(files) THEN {"note replaced"} ELSE {})
    <3>1. ~Integration!Orphans(files)
      <4>1. "note replaced" \notin mishaps'  BY DEF NotesKept, Integration!NoteWriting
      <4> QED  BY <2>3, <4>1
    <3>2. UNCHANGED mishaps  BY <2>3, <3>1
    <3> HIDE DEF files
    <3>3. World' /\ Underway' /\ job'.pc # "idle"  BY <1>2, <2>1, <2>3, <3>1, <3>2, ApplyBegins DEF files
    <3> QED  BY <3>3
  <2> QED  BY <1>6, <2>2, <2>3 DEF Integration!Apply
<1>7. CASE Integration!Rollback
  <2>1. Idle /\ left' \in Lefts /\ UNCHANGED <<address, target, history, mishaps>>  BY <1>2, <1>4, <1>7 DEF Integration!Rollback
  <2>2. CASE Integration!Baseline = None
    <3>1. Integration!Refuse("refused")  BY <1>7, <2>2 DEF Integration!Rollback
    <3> QED  BY <1>2, <1>3, <2>1, <3>1, RefusedKept
  <2>3. CASE Integration!Baseline # None
    <3>1. Integration!Begin("rollback", Integration!RollbackFiles, FALSE, None)  BY <1>7, <2>3 DEF Integration!Rollback
    <3>2. World' /\ Underway' /\ job'.pc # "idle"  BY <1>2, <2>1, <2>3, <3>1, RollbackBegins
    <3> QED  BY <3>2
  <2> QED  BY <2>2, <2>3
<1>8. CASE Integration!Transaction
  <2>1. UNCHANGED <<address, target, history, mishaps>>  BY <1>8 DEF Integration!Transaction
  <2>2. job.pc # "idle" /\ Underway
    BY <1>2, <1>8 DEF Integration!Transaction, Integration!Stage, Integration!BackupLatest, Integration!BackupOriginal,
                      Integration!AdoptLatest, Integration!AdoptOriginal, Integration!WriteCycle, Integration!Commit, Integration!Undone
  <2>3. CASE Integration!Stage
    <3>1. UNCHANGED <<disk, own>> /\ left' \in Lefts  BY <1>2, <2>3, LeftKept DEF Integration!Stage
    <3>2. World'  BY <1>2, <1>3, <2>1, <3>1, WorldStays
    <3> QED  BY <1>2, <2>1, <2>2, <2>3, <3>2, StageKept
  <2>4. CASE Integration!BackupLatest \/ Integration!BackupOriginal \/ Integration!AdoptLatest \/ Integration!AdoptOriginal \/ Integration!WriteCycle
    <3>1. World' /\ Underway'
      BY <1>2, <2>1, <2>2, <2>4, BackupLatestKept, BackupOriginalKept, AdoptLatestKept, AdoptOriginalKept, WriteCycleKept
    <3>2. job'.pc # "idle"  BY <3>1 DEF Underway, Plan, Steps, Early
    <3> QED  BY <3>1, <3>2
  <2>5. CASE Integration!Commit  BY <1>2, <2>1, <2>2, <2>5, CommitKept
  <2>6. CASE Integration!Undone  BY <1>2, <2>1, <2>2, <2>6, UndoneKept
  <2> QED  BY <1>8, <2>3, <2>4, <2>5, <2>6 DEF Integration!Transaction
<1>9. CASE Integration!PuttingBack
  <2>1. UNCHANGED <<address, target, history>>  BY <1>9 DEF Integration!PuttingBack
  <2>2. CASE Integration!Undo
    <3>1. Underway  BY <1>2, <2>2 DEF Integration!Undo
    <3>2. World' /\ Underway' /\ job'.pc # "idle"  BY <1>2, <2>1, <2>2, <3>1, UndoKept
    <3> QED  BY <3>2
  <2>3. CASE Integration!PutNoteBack
    <3>1. Underway  BY <1>2, <2>3 DEF Integration!PutNoteBack, Integration!NextNote
    <3> QED  BY <1>2, <2>1, <2>3, <3>1, NotesBackKept
  <2> QED  BY <1>9, <2>2, <2>3 DEF Integration!PuttingBack
<1>10. CASE Integration!Crash
  <2>1. Underway  BY <1>2, <1>10 DEF Integration!Crash
  <2> QED  BY <1>2, <1>10, <2>1, CrashKept
<1>11. ASSUME NEW t \in DOMAIN Layouts, Integration!SetTarget(t)  PROVE World' /\ IF job'.pc = "idle" THEN Idle' ELSE Underway'
  <2>1. /\ Idle /\ left' \in Lefts /\ UNCHANGED <<address, history, mishaps>> /\ target' \in DOMAIN Layouts
        /\ \E answer \in {"refused", "done"} : Integration!Refuse(answer)
    BY <1>2, <1>3, <1>4, <1>11 DEF Integration!SetTarget
  <2> QED  BY <1>2, <1>3, <2>1, RefusedKept
<1>12. ASSUME NEW t \in DOMAIN Layouts, NEW a \in Addresses, Integration!Restart(a, t)
       PROVE  World' /\ IF job'.pc = "idle" THEN Idle' ELSE Underway'
  <2>1. /\ Idle /\ left' \in Lefts /\ UNCHANGED <<history, mishaps>> /\ target' \in DOMAIN Layouts /\ address' \in Addresses
        /\ Integration!Refuse("none")
    BY <1>2, <1>4, <1>12 DEF Integration!Restart
  <2> QED  BY <1>2, <2>1, RefusedKept
<1>13. ASSUME NEW p \in Files, NEW content \in Integration!Edits(p), Integration!UserEdit(p, content)
       PROVE  World' /\ IF job'.pc = "idle" THEN Idle' ELSE Underway'
  <2>1. CASE job.pc = "idle"
    <3>1. World' /\ Idle' /\ job'.pc = "idle"  BY <1>2, <1>13, <2>1, EditedIdle
    <3> QED  BY <3>1
  <2>2. CASE job.pc # "idle"
    <3>1. World' /\ Underway' /\ job'.pc # "idle"  BY <1>2, <1>13, <2>2, EditedUnderway
    <3> QED  BY <3>1
  <2> QED  BY <2>1, <2>2
<1> QED  BY <1>6, <1>7, <1>8, <1>9, <1>10, <1>11, <1>12, <1>13 DEF Integration!TakeoverNext, Files

LEMMA TakeoverUnchanged == TakeoverInvariant /\ UNCHANGED integrationVars => TakeoverInvariant'
<1> SUFFICES ASSUME TakeoverInvariant, UNCHANGED integrationVars  PROVE TakeoverInvariant'  OBVIOUS
<1> USE DEF integrationVars
<1>1. NotesKept' <=> NotesKept  BY DEF NotesKept
<1>2. World' <=> World  BY DEF World
<1>3. Idle' <=> Idle  BY DEF Idle
<1>4. /\ Replaced' = Replaced /\ \A p : (IsReplaced(p)' <=> IsReplaced(p)) /\ (InPlan(p)' <=> InPlan(p))
      /\ \A p : Untouched(p)' <=> Untouched(p)
  BY DEF Replaced, IsReplaced, InPlan, Untouched
<1>5. (Plan' <=> Plan) /\ (RollbackPlan' <=> RollbackPlan) /\ (ApplyPlan' <=> ApplyPlan)
  BY <1>4 DEF Plan, RollbackPlan, ApplyPlan
<1>6. RollbackStands' <=> RollbackStands  BY <1>4 DEF RollbackStands
<1>7. ApplySnap' <=> ApplySnap
  <2>1. \A k : SnapExact(k)' <=> SnapExact(k)  BY DEF SnapExact, IsReplaced, Replaced
  <2> QED  BY <2>1 DEF ApplySnap, SnapOfFiles
<1>8. (ApplyNotes' <=> ApplyNotes) /\ (ApplyOwn' <=> ApplyOwn)  BY <1>4 DEF ApplyNotes, ApplyOwn
<1>9. Underway' <=> Underway  BY <1>5, <1>6, <1>7, <1>8 DEF Underway
<1> QED  BY <1>1, <1>2, <1>3, <1>9 DEF TakeoverInvariant

\* What the invariant says to the user.
LEMMA TakeoverSafe == TakeoverInvariant => Integration!TakeoverKeepsUsersFiles
<1> SUFFICES ASSUME TakeoverInvariant, NotesKept  PROVE Integration!TakeoverKeepsUsersFiles
  BY DEF NotesKept, Integration!TakeoverKeepsUsersFiles, Integration!NoteWriting
<1>1. World /\ (IF job.pc = "idle" THEN Idle ELSE Underway)  BY DEF TakeoverInvariant
<1>2. ASSUME job.pc \in {"commit", "undo", "idle"}, NEW p \in Files, own[p] # None
      PROVE  /\ Integration!Baseline # None /\ Integration!Has(Integration!Baseline, p)
             /\ Integration!Of(Integration!Baseline, p) \in Integration!UsersContent(p)
  <2>1. Stands(disk, own, history, mishaps)
    <3>1. CASE job.pc = "idle"  BY <1>1, <3>1 DEF Idle, Rests
    <3>2. CASE job.pc # "idle" /\ job.op = "rollback"  BY <1>1, <3>2, RollingStands DEF Underway
    <3>3. CASE job.pc # "idle" /\ job.op = "apply"  BY <1>1, <1>2, <3>3, TakenStands DEF Underway
    <3> QED  BY <1>1, <3>1, <3>2, <3>3 DEF Underway, Plan
  <2>2. Integration!Baseline = BaseOf(disk)  BY <2>1, BaselineIs DEF Stands
  <2>3. BaseOf(disk) # None /\ Integration!Has(BaseOf(disk), p) /\ (mishaps = {} => Integration!Of(BaseOf(disk), p) = own[p])
    BY <1>2, <2>1 DEF Stands, Gives
  <2>4. OfTheUser(BaseOf(disk), history)  BY <2>1, <2>3 DEF Stands, NotesSound, BaseOf
  <2>5. PICK i \in DOMAIN BaseOf(disk) : BaseOf(disk)[i].path = p  BY <2>3 DEF Integration!Has
  <2>6. Integration!Of(BaseOf(disk), p) \in history[p]  BY <2>4, <2>5, OfListed DEF OfTheUser
  <2> QED  BY <2>2, <2>3, <2>6 DEF Integration!UsersContent
<1>3. job.pc = "idle" /\ mishaps = {} /\ job.answer = "failed" => disk = job.was  BY <1>1 DEF Idle
<1> QED  BY <1>2, <1>3 DEF Integration!TakeoverKeepsUsersFiles, Files

(***************************************************************************)
(* The scenes together                                                     *)
(***************************************************************************)

LocalInvariant ==
    /\ scene = "takeover" => TakeoverInvariant
    /\ scene = "desktop" => NotifierInvariant
    /\ scene = "lookup" => LookupInvariant
    /\ scene = "connection" => RaceInvariant
    /\ scene = "update" => UpdateInvariant

LEMMA LocalStarts == LocalInit => LocalInvariant
  BY TakeoverStarts, NotifierStarts, LookupStarts, RaceStarts, UpdateStarts DEF LocalInit, LocalInvariant

LEMMA LocalKept ==
  ASSUME LocalInvariant, [LocalNext]_<<scene, vars, integrationVars, desktopVars, networkVars, raceVars, replacementVars>>
  PROVE  LocalInvariant'
<1>1. CASE LocalNext
  BY <1>1, TakeoverKept, NotifierKept, LookupKept, RaceKept, UpdateKept DEF LocalNext, LocalInvariant
<1>2. CASE UNCHANGED <<scene, vars, integrationVars, desktopVars, networkVars, raceVars, replacementVars>>
  <2>1. UNCHANGED scene  BY <1>2
  <2>2. UNCHANGED desktopVars /\ NotifierInvariant => NotifierInvariant'
    BY DEF desktopVars, NotifierInvariant, NotifierTypes, WithinRate, Remembered, OneAtATime, Latest, Counted, Before
  <2>3. UNCHANGED networkVars /\ LookupInvariant => LookupInvariant'
    BY DEF networkVars, LookupInvariant, LookupTypes, OneAsks, ToldRightly, KeepsToItsSize
  <2>4. UNCHANGED raceVars /\ RaceInvariant => RaceInvariant'
    BY DEF raceVars, RaceInvariant, RaceTypes, OpenIsHeld, SecondSeries, WaitsForSeries, Count, UnderWay
  <2>5. UNCHANGED replacementVars /\ UpdateInvariant => UpdateInvariant'
    <3> SUFFICES ASSUME UNCHANGED replacementVars, UpdateInvariant  PROVE UpdateInvariant'  OBVIOUS
    <3> USE DEF replacementVars
    <3>1. UpdateTypes' /\ ReadyIsNew' /\ AsideWasExecutable'
      BY DEF UpdateInvariant, UpdateTypes, ReadyIsNew, AsideWasExecutable
    <3>2. Due' = Due /\ NoneKilled' = NoneKilled  BY DEF Due, SomeInstalled, NoneKilled
    <3>3. DueIsThere'  BY <3>2 DEF UpdateInvariant, DueIsThere
    <3> QED  BY <3>1, <3>3 DEF UpdateInvariant
  <2>6. UNCHANGED integrationVars /\ TakeoverInvariant => TakeoverInvariant'  BY TakeoverUnchanged
  <2> QED  BY <1>2, <2>1, <2>2, <2>3, <2>4, <2>5, <2>6 DEF LocalInvariant
<1> QED  BY <1>1, <1>2

LEMMA LocalHolds == LocalSpec => []LocalInvariant
  BY LocalStarts, LocalKept, PTL DEF LocalSpec

\* Notifications neither repeat nor crowd nor pile up behind one that hangs
\* (internal/notify/notifier.go:306), whatever the configuration, the events
\* and the sender do.
THEOREM NotificationsKeepTheirPace == LocalSpec => []NotificationsPaced
<1>1. LocalInvariant => NotificationsPaced
  BY NotifierSafe DEF LocalInvariant, NotificationsPaced
<1> QED  BY <1>1, LocalHolds, PTL

\* Whoever waits for another request's lookup is told only what is true for
\* itself (internal/outbound/dns_cache.go), and of two connections that race
\* one at most stays open (internal/outbound/dial.go).
THEOREM ConnectionsStayOwn == LocalSpec => []ConnectionsAreOwn
<1>1. LocalInvariant => ConnectionsAreOwn
  BY LookupSafe, RaceSafe DEF LocalInvariant, ConnectionsAreOwn
<1> QED  BY <1>1, LocalHolds, PTL

\* What a takeover of another program replaced can be given back
\* (internal/integration/takeover.go), and the executable is whole and checked
\* or set aside (internal/selfupdate/update.go), whatever the user edits, a
\* write that fails or a stop between two of them.
THEOREM UsersFilesStayKept == LocalSpec => []UsersFilesKept
<1>1. LocalInvariant => UsersFilesKept
  BY TakeoverSafe, UpdateSafe DEF LocalInvariant, UsersFilesKept
<1> QED  BY <1>1, LocalHolds, PTL
=============================================================================
