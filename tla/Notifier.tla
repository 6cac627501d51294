-------------------------------- MODULE Notifier --------------------------------
(***************************************************************************)
(* Desktop notifications: internal/notify/notifier.go.  Producers put      *)
(* events into a bounded queue; one loop takes them out, drops those that  *)
(* come too often, and shows the others through a sender of the platform   *)
(* that it waits for only a short time.  A new configuration stops the     *)
(* loop and starts another one.                                            *)
(*                                                                         *)
(* Time is kept as ages, which stop growing where no rule looks further.   *)
(***************************************************************************)
EXTENDS Integers, Sequences, FiniteSets

CONSTANTS Keys,            \* what an event is about, for the check of repetitions
          QueueCapacity, MaxPerMinute,
          DedupeWindow, Minute, SendTimeout, DisableCooldown  \* times: SendTimeout < DedupeWindow <= Minute < DisableCooldown

VARIABLES current,     \* "none", "running", or "stopping" while Configure or Shutdown waits for its loop
          caller,      \* the key that a producer is about to put into the queue, "none", or
                       \* "late" if the queue is that of an earlier notifier
          queue, lastSent, windowAge, sent, disabled,
          sender,      \* "none", "running", or "answered": the sender whose answer is not yet collected
          loop,        \* "waiting" for an event, "sending", or "ended"
          waited,      \* how long the loop has waited for the sender
          shows        \* what was shown, for the claim: [key, age, state]
notifierVars == <<current, caller, queue, lastSent, windowAge, sent, disabled, sender, loop, waited, shows>>

Never == 2 * DedupeWindow + 1

NotifierInit ==
    /\ current = "running" /\ caller = "none"
    /\ queue = << >> /\ lastSent = [k \in Keys |-> Never] /\ windowAge = 0 /\ sent = 0 /\ disabled = 0
    /\ sender = "none" /\ loop = "waiting" /\ waited = 0 /\ shows = << >>

\* ConfigureWithSender and Shutdown hold mu from here to their end, and wait
\* for the loop.
Stop ==
    /\ current = "running" /\ current' = "stopping"
    /\ UNCHANGED <<caller, queue, lastSent, windowAge, sent, disabled, sender, loop, waited, shows>>
Configure ==
    /\ current = "none" \/ (current = "stopping" /\ loop = "ended")
    /\ current' = "running"
    /\ queue' = << >> /\ lastSent' = [k \in Keys |-> Never] /\ windowAge' = 0 /\ sent' = 0 /\ disabled' = 0
    /\ sender' = "none" /\ loop' = "waiting" /\ waited' = 0 /\ shows' = << >>
    /\ caller' = IF caller = "none" THEN "none" ELSE "late"
Shutdown ==
    /\ current = "stopping" /\ loop = "ended" /\ current' = "none"
    /\ UNCHANGED <<caller, queue, lastSent, windowAge, sent, disabled, sender, loop, waited, shows>>

\* ProviderSwitched and LogHook find the notifier under mu ...
Get(k) ==
    /\ current = "running" /\ caller = "none" /\ caller' = k
    /\ UNCHANGED <<current, queue, lastSent, windowAge, sent, disabled, sender, loop, waited, shows>>
\* ... and enqueue after they have released it; a full queue drops the event,
\* and nobody reads the queue of a notifier that is gone.
Enqueue ==
    /\ caller # "none" /\ caller' = "none"
    /\ queue' = IF Len(queue) < QueueCapacity /\ caller \in Keys THEN Append(queue, caller) ELSE queue
    /\ UNCHANGED <<current, lastSent, windowAge, sent, disabled, sender, loop, waited, shows>>

\* The answer of an earlier sender is collected where the loop comes across it.
Collected == IF sender = "answered" THEN "none" ELSE sender

\* The loop takes an event.  One that is dropped for the sender's sake counts
\* as sent all the same.
TakeEvent ==
    /\ loop = "waiting" /\ queue # << >> /\ queue' = Tail(queue)
    /\ windowAge' = IF windowAge >= Minute THEN 0 ELSE windowAge
    /\ LET key == Head(queue)
           count == IF windowAge >= Minute THEN 0 ELSE sent
           dropped == count >= MaxPerMinute \/ lastSent[key] < DedupeWindow
           starts == ~dropped /\ Collected = "none" /\ disabled = 0
       IN /\ sent' = IF dropped THEN count ELSE count + 1
          /\ lastSent' = IF dropped THEN lastSent ELSE [lastSent EXCEPT ![key] = 0]
          /\ sender' = IF starts THEN "running" ELSE IF dropped THEN sender ELSE Collected
          /\ loop' = IF starts THEN "sending" ELSE loop
          /\ waited' = 0
          /\ shows' = IF starts THEN Append(shows, [key |-> key, age |-> 0, state |-> "open"]) ELSE shows
    /\ UNCHANGED <<current, caller, disabled>>

\* The sender answers, in time or not.
Answer ==
    /\ sender = "running" /\ sender' = "answered"
    /\ shows' = [i \in DOMAIN shows |-> [shows[i] EXCEPT !.state = CASE @ = "open" -> "shown" [] @ = "hung" -> "late" [] OTHER -> @]]
    /\ UNCHANGED <<current, caller, queue, lastSent, windowAge, sent, disabled, loop, waited>>
SendEnds ==
    /\ loop = "sending" /\ sender = "answered"
    /\ loop' = "waiting" /\ sender' = "none" /\ waited' = 0
    /\ UNCHANGED <<current, caller, queue, lastSent, windowAge, sent, disabled, shows>>
\* Nothing is shown for a while, counted from when the event was taken.
SendTimesOut ==
    /\ loop = "sending" /\ waited >= SendTimeout
    /\ loop' = "waiting" /\ disabled' = DisableCooldown - waited /\ waited' = 0
    /\ shows' = [shows EXCEPT ![Len(shows)].state = IF @ = "open" THEN "hung" ELSE "late"]
    /\ UNCHANGED <<current, caller, queue, lastSent, windowAge, sent, sender>>

\* Mutant: half a window instead of two.
ForgottenTooSoon(age) == age >= DedupeWindow \div 2
\* cleanupLastSent
Forgotten(age) == age > 2 * DedupeWindow
Cleanup ==
    /\ loop = "waiting"
    /\ lastSent' = [k \in Keys |-> IF Forgotten(lastSent[k]) THEN Never ELSE lastSent[k]]
    /\ sender' = Collected
    /\ UNCHANGED <<current, caller, queue, windowAge, sent, disabled, loop, waited, shows>>

\* A closed stop channel is one of the things the loop may choose to see next.
End ==
    /\ loop = "waiting" /\ current = "stopping" /\ loop' = "ended"
    /\ UNCHANGED <<current, caller, queue, lastSent, windowAge, sent, disabled, sender, waited, shows>>

Older(age, limit) == IF age < limit THEN age + 1 ELSE age
Aged == [i \in DOMAIN shows |-> [shows[i] EXCEPT !.age = Older(@, DisableCooldown)]]
\* What was shown long ago is of no more interest.
Settled(show) == show.age >= DisableCooldown /\ show.state \in {"shown", "late"}
\* A second: the timer of a send is seen before the next one.
Second ==
    /\ loop # "ended" /\ waited <= SendTimeout
    /\ lastSent' = [k \in Keys |-> Older(lastSent[k], Never)]
    /\ windowAge' = Older(windowAge, Minute)
    /\ disabled' = IF disabled > 0 THEN disabled - 1 ELSE 0
    /\ waited' = IF loop = "sending" THEN waited + 1 ELSE waited
    /\ \E n \in 0 .. Len(shows) :
         /\ \A i \in 1 .. n : Settled(Aged[i])
         /\ n < Len(shows) => ~Settled(Aged[n + 1])
         /\ shows' = SubSeq(Aged, n + 1, Len(shows))
    /\ UNCHANGED <<current, caller, queue, sent, sender, loop>>

NotifierNext ==
    \/ Stop \/ Configure \/ Shutdown \/ Enqueue \/ TakeEvent \/ Answer \/ SendEnds \/ SendTimesOut \/ Cleanup \/ End \/ Second
    \/ \E k \in Keys : Get(k)

\* What a user sees of one notifier: nothing twice within the window, no more
\* than twice the rate in any minute (the code counts in fixed minutes), never
\* one while another one hangs, and none for a while after one was given up.
Paced ==
    LET last == shows[Len(shows)]
        recent == {i \in DOMAIN shows : shows[i].age < Minute}
    IN /\ Cardinality(recent) <= 2 * MaxPerMinute
       /\ (shows # << >> /\ last.age = 0) =>
            \A i \in DOMAIN shows \ {Len(shows)} :
              /\ shows[i].key = last.key => shows[i].age >= DedupeWindow
              /\ shows[i].state = "shown" \/ (shows[i].state = "late" /\ shows[i].age >= DisableCooldown)
=============================================================================
