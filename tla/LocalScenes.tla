------------------------------- MODULE LocalScenes -------------------------------
(***************************************************************************)
(* What Clipal does on the machine of its user beside forwarding, in six   *)
(* scenes that do not touch each other: its own configuration files, the   *)
(* configuration of another program that is pointed at Clipal, desktop     *)
(* notifications, lookups that requests share, one connection, and the     *)
(* replacement of its own executable.                                      *)
(***************************************************************************)
EXTENDS ConfigFiles

CONSTANTS Layouts, Addresses, Absent, Torn, Hidden,                    \* Takeover
          MaxUserEdits, MaxCalls, MaxWriteFailures, MaxStops,          \* and its bounds
          Keys, QueueCapacity, MaxPerMinute, DedupeWindow, Minute, SendTimeout, DisableCooldown, \* Notifier
          Requests, Hosts, Capacity, LongestLife, Backoff,             \* NameLookups
          MostAddresses,                                               \* AddressRace
          Updaters, MaxFailures, MaxCrashes                            \* SelfUpdate

ASSUME LocalAssumption ==
    /\ MaxPerMinute \in Nat \ {0} /\ QueueCapacity \in Nat
    /\ DedupeWindow \in Nat /\ Minute \in Nat /\ SendTimeout \in Nat \ {0} /\ DisableCooldown \in Nat
    /\ SendTimeout < DedupeWindow /\ DedupeWindow <= Minute /\ Minute < DisableCooldown
    /\ None \notin Requests
    /\ Capacity \in Nat \ {0} /\ LongestLife \in Nat /\ Backoff \in Nat
    /\ MostAddresses \in Nat \ {0}
    /\ "exe" \notin Updaters /\ "backup" \notin Updaters

VARIABLES scene, disk, address, target, job, history, own, mishaps, left,
          current, caller, queue, lastSent, windowAge, sent, disabled, sender, loop, waited, shows,
          kind, known, pending, request, addresses, series, dialer, context, open,
          platform, release, place, update, troubles, budget

Integration == INSTANCE Takeover WITH MaxEdits <- MaxUserEdits, MaxFailures <- MaxWriteFailures, MaxCrashes <- MaxStops
integrationVars == <<disk, address, target, job, history, own, mishaps, left>>
\* What a file can hold, and what a note can list.
FileContents == {Absent} \cup [route : Addresses \cup {"own", "none"}, rest : Int]
NoteLists == Seq([path : Integration!Paths, content : FileContents \cup {Hidden}])
\* The files of a program are different files, and none is a note; the values
\* that stand for no file, no note and the like are nothing else.
ASSUME TakeoverAssumption ==
    /\ Layouts # <<>> /\ MaxUserEdits \in Int /\ MaxCalls \in Int /\ MaxWriteFailures \in Int /\ MaxStops \in Int
    /\ Layouts \in Seq(Seq(Integration!Paths))
    /\ \A t \in DOMAIN Layouts :
         Layouts[t] # <<>> /\ \A i, j \in DOMAIN Layouts[t] : Layouts[t][i] = Layouts[t][j] => i = j
    /\ Integration!Paths \cap Integration!Notes = {}
    /\ "own" \notin Addresses /\ "none" \notin Addresses
    /\ Absent \notin [route : Addresses \cup {"own", "none"}, rest : Int]
    /\ Hidden \notin FileContents /\ None \notin FileContents /\ Torn \notin FileContents
    /\ Absent \notin NoteLists /\ Torn \notin NoteLists /\ None \notin NoteLists

\* After the notes themselves were lost nothing more is claimed.
NotesKept == mishaps \cap Integration!NoteWriting = {}

Desktop == INSTANCE Notifier
desktopVars == <<current, caller, queue, lastSent, windowAge, sent, disabled, sender, loop, waited, shows>>

Network == INSTANCE NameLookups WITH Names <- Hosts
networkVars == <<kind, known, pending, request>>

Race == INSTANCE AddressRace WITH caller <- dialer
raceVars == <<addresses, series, dialer, context, open>>

Replacement == INSTANCE SelfUpdate WITH mishaps <- troubles
replacementVars == <<platform, release, place, update, troubles, budget>>

NoConfiguration == client = None /\ file = None /\ globalFile = None /\ inForce = None /\ last = None /\ edits = None
NoIntegration ==
    /\ disk = None /\ address = None /\ target = None /\ job = None
    /\ history = None /\ own = None /\ mishaps = None /\ left = None
NoDesktop ==
    /\ current = None /\ caller = None /\ queue = None /\ lastSent = None /\ windowAge = None /\ sent = None
    /\ disabled = None /\ sender = None /\ loop = None /\ waited = None /\ shows = None

NoNetwork == kind = None /\ known = None /\ pending = None /\ request = None
NoRace == addresses = None /\ series = None /\ dialer = None /\ context = None /\ open = None
NoReplacement ==
    platform = None /\ release = None /\ place = None /\ update = None /\ troubles = None /\ budget = None

LocalInit ==
    \/ scene = "configuration" /\ Init /\ NoIntegration /\ NoDesktop /\ NoNetwork /\ NoRace /\ NoReplacement
    \/ scene = "takeover" /\ Integration!TakeoverInit /\ NoConfiguration /\ NoDesktop /\ NoNetwork /\ NoRace /\ NoReplacement
    \/ scene = "desktop" /\ Desktop!NotifierInit /\ NoConfiguration /\ NoIntegration /\ NoNetwork /\ NoRace /\ NoReplacement
    \/ scene = "lookup" /\ Network!LookupInit /\ NoConfiguration /\ NoIntegration /\ NoDesktop /\ NoRace /\ NoReplacement
    \/ scene = "connection" /\ Race!RaceInit /\ NoConfiguration /\ NoIntegration /\ NoDesktop /\ NoNetwork /\ NoReplacement
    \/ scene = "update" /\ Replacement!UpdateInit /\ NoConfiguration /\ NoIntegration /\ NoDesktop /\ NoNetwork /\ NoRace
LocalNext ==
    \/ /\ scene = "configuration" /\ Next
       /\ UNCHANGED <<scene, integrationVars, desktopVars, networkVars, raceVars, replacementVars>>
    \/ /\ scene = "takeover" /\ NotesKept /\ Integration!TakeoverNext
       /\ UNCHANGED <<scene, vars, desktopVars, networkVars, raceVars, replacementVars>>
    \/ /\ scene = "desktop" /\ Desktop!NotifierNext
       /\ UNCHANGED <<scene, vars, integrationVars, networkVars, raceVars, replacementVars>>
    \/ /\ scene = "lookup" /\ Network!LookupNext
       /\ UNCHANGED <<scene, vars, integrationVars, desktopVars, raceVars, replacementVars>>
    \/ /\ scene = "connection" /\ Race!RaceNext
       /\ UNCHANGED <<scene, vars, integrationVars, desktopVars, networkVars, replacementVars>>
    \/ /\ scene = "update" /\ Replacement!UpdateNext
       /\ UNCHANGED <<scene, vars, integrationVars, desktopVars, networkVars, raceVars>>
LocalSpec == LocalInit /\ [][LocalNext]_<<scene, vars, integrationVars, desktopVars, networkVars, raceVars, replacementVars>>

\* What Clipal replaces on the user's disk is never lost.  The takeover of
\* another program (TakeoverKeepsUsersFiles of Takeover): the user's content
\* that it replaced can be given back, and a failed call has changed nothing.
\* The executable (UpdatesAreWhole of SelfUpdate): it is whole and checked, or
\* set aside, and an update that failed has left the old one.
UsersFilesKept ==
    /\ scene = "takeover" => Integration!TakeoverKeepsUsersFiles
    /\ scene = "update" => Replacement!UpdatesAreWhole

\* In the configuration scene, what every answer of the web interface promises
\* (HonestAnswer of ConfigFiles): done is done, is in force and is no more than
\* was asked; refused has changed nothing.
AnswersAreHonest == [][scene = "configuration" => HonestAnswer]_vars

\* In the desktop scene, what the user sees (Paced of Notifier): notifications
\* neither repeat nor crowd nor pile up behind one that hangs.
NotificationsPaced == scene = "desktop" => Desktop!Paced

\* When a connection is made (OwnOutcome of NameLookups, NothingLeaks of
\* AddressRace): nobody is told how another request ended, nobody waits for
\* what nobody does, and no connection is left open that nobody uses.
ConnectionsAreOwn ==
    /\ scene = "lookup" => Network!OwnOutcome
    /\ scene = "connection" => Race!NothingLeaks
=============================================================================
