------------------------------- MODULE SelfUpdate -------------------------------
(***************************************************************************)
(* `clipal update' replaces its own executable (internal/selfupdate): it   *)
(* fetches the checksums and the executable of the latest release, and     *)
(* puts the new executable in the place of the old one, which it sets      *)
(* aside.  Elsewhere than on Windows the command does so itself; there a   *)
(* copy of it does so after the command has ended, and tries again for a   *)
(* minute.  Nothing keeps two updates from running at once.                *)
(*                                                                         *)
(* A content is an executable, "old" being the one that is installed,      *)
(* "older" what an earlier update set aside and "new" the release;         *)
(* "other" is a download that is not what the checksums name.              *)
(***************************************************************************)
EXTENDS Integers, FiniteSets

CONSTANTS Updaters, MaxFailures, MaxCrashes      \* the numbers are bounds

VARIABLES platform,    \* "unix" or "windows"
          release,     \* how the latest release compares: "newer", "same", "older" or "unknown"
          place,       \* what stands at "exe", at "backup", and in the new file of each update
          update,      \* [pc, got, aside, outcome] of each update
          mishaps,     \* what no step of an update can put right
          budget       \* what the bounds leave

updateVars == <<platform, release, place, update, mishaps, budget>>

Executables == {"older", "old", "new"}

\* NeedsUpdate.  The command goes on if it needs to, or is told to.
NeedsUpdate == release \in {"newer", "unknown"}

At(u, pc) == update[u].pc = pc
Goes(u, pc) == update' = [update EXCEPT ![u].pc = pc]
Ends(u, outcome) == update' = [update EXCEPT ![u].pc = "over", ![u].outcome = outcome]
Put(what, content) == place' = [place EXCEPT ![what] = content]
Move(from, to) == place' = [place EXCEPT ![to] = place[from], ![from] = "absent"]

\* A step that the system refuses, or that cannot be done because there is no file.
SpendFailure == budget.failures > 0 /\ budget' = [budget EXCEPT !.failures = @ - 1]
CannotMove(from) == IF place[from] = "absent" THEN UNCHANGED budget ELSE SpendFailure
CanMove(from) == place[from] # "absent" /\ UNCHANGED budget
Note(mishap) == mishaps' = mishaps \cup {mishap}

UpdateInit ==
    /\ platform \in {"unix", "windows"} /\ release \in {"newer", "same", "older", "unknown"}
    /\ \E backup \in {"absent", "older"} :
         place = [p \in {"exe", "backup"} \cup Updaters |->
                    CASE p = "exe" -> "old" [] p = "backup" -> backup [] OTHER -> "absent"]
    /\ update = [u \in Updaters |-> [pc |-> "idle", got |-> "absent", aside |-> FALSE, outcome |-> "none"]]
    /\ mishaps = {} /\ budget = [failures |-> MaxFailures, crashes |-> MaxCrashes]

(***************************************************************************)
(* Update                                                                  *)
(***************************************************************************)

\* The checksum of the download is the one that the release names for it.
SameSum(got) == got = "new"

Decide(u) ==
    /\ At(u, "idle")
    /\ \E force, look \in BOOLEAN :
         IF (~NeedsUpdate /\ ~force) \/ look THEN Ends(u, "nothing done") ELSE Goes(u, "download")
    /\ UNCHANGED <<place, mishaps, budget>>

\* The download is a file of its own; Windows installs from there and never removes it.
Download(u) ==
    /\ At(u, "download")
    /\ \/ SpendFailure /\ Ends(u, "failed") /\ UNCHANGED place
       \/ \E got \in {"new", "other"} :
            /\ IF SameSum(got) THEN update' = [update EXCEPT ![u].pc = "copy", ![u].got = got] ELSE Ends(u, "failed")
            /\ IF platform = "windows" THEN Put(u, got) ELSE UNCHANGED place
            /\ UNCHANGED budget
    /\ UNCHANGED mishaps

\* copyFile: the new executable is copied beside the old one; on Windows it is
\* the running one that is copied, and started as the helper.
Copy(u) ==
    /\ At(u, "copy")
    /\ \/ /\ UNCHANGED budget
          /\ IF platform = "windows" THEN UNCHANGED place ELSE Put(u, update[u].got)
          /\ Goes(u, IF platform = "windows" THEN "wait" ELSE "drop")
       \/ SpendFailure /\ Ends(u, "failed") /\ UNCHANGED place
    /\ UNCHANGED mishaps

\* The helper waits for the command to end, for five minutes.
WaitForPID(u) ==
    /\ At(u, "wait")
    /\ \/ Goes(u, "drop") /\ UNCHANGED budget
       \/ SpendFailure /\ Ends(u, "failed")
    /\ UNCHANGED <<place, mishaps>>

(***************************************************************************)
(* applyUnix (apply_unix.go 12-42) and ApplyUpdateWindows, whose steps are *)
(* the same up to where a failure leads                                    *)
(***************************************************************************)

\* Whatever was set aside before is removed, if it can be.
DropBackup(u) ==
    /\ At(u, "drop")
    /\ \/ UNCHANGED <<place, budget, mishaps>> /\ place["backup"] = "absent"
       \/ SpendFailure /\ UNCHANGED <<place, mishaps>> /\ place["backup"] # "absent"
       \/ /\ CanMove("backup") /\ Put("backup", "absent")
          /\ IF place["exe"] = "absent" THEN Note("backup of another update dropped") ELSE UNCHANGED mishaps
    /\ Goes(u, "aside")

\* The old executable is set aside.  The helper goes on even if it cannot be.
SetAside(u) ==
    /\ At(u, "aside")
    /\ \/ CanMove("exe") /\ Move("exe", "backup") /\ update' = [update EXCEPT ![u].pc = "install", ![u].aside = TRUE]
       \/ platform = "unix" /\ CannotMove("exe") /\ Put(u, "absent") /\ Ends(u, "failed")
       \/ platform = "windows" /\ CannotMove("exe") /\ UNCHANGED place /\ update' = [update EXCEPT ![u].pc = "install", ![u].aside = FALSE]
    /\ UNCHANGED mishaps

Install(u) ==
    /\ At(u, "install")
    /\ \/ CanMove(u) /\ Move(u, "exe") /\ Ends(u, "installed")
       \/ SpendFailure /\ UNCHANGED place /\ Goes(u, "back")
    /\ UNCHANGED mishaps

\* The helper tries again until its minute is over.
Restored(u) ==
    IF platform = "unix" THEN Ends(u, "failed") ELSE Ends(u, "failed") \/ Goes(u, "aside")
NewFileGone(u, where) == IF platform = "unix" THEN [where EXCEPT ![u] = "absent"] ELSE where
PutBack(u) ==
    /\ At(u, "back")
    /\ Restored(u)
    /\ \/ /\ CanMove("backup")
          /\ place' = NewFileGone(u, [place EXCEPT !["exe"] = place["backup"], !["backup"] = "absent"])
          /\ IF place["exe"] = "absent" THEN UNCHANGED mishaps ELSE Note("put back over another executable")
       \/ /\ CannotMove("backup")
          /\ place' = NewFileGone(u, place)
          /\ IF place["exe"] = "absent" THEN Note("not put back") ELSE UNCHANGED mishaps

\* The command or its helper is killed; a copy under way stays as it is.
Dies(u) ==
    /\ update[u].pc \notin {"idle", "over"}
    /\ budget.crashes > 0 /\ budget' = [budget EXCEPT !.crashes = @ - 1]
    /\ Ends(u, "killed")
    /\ place' \in IF At(u, "copy") /\ platform = "unix" THEN {place, [place EXCEPT ![u] = "torn"]} ELSE {place}
    /\ UNCHANGED mishaps

UpdateStep ==
    \E u \in Updaters :
        \/ Decide(u) \/ Download(u) \/ Copy(u) \/ WaitForPID(u)
        \/ DropBackup(u) \/ SetAside(u) \/ Install(u) \/ PutBack(u) \/ Dies(u)
UpdateOver == (\A u \in Updaters : At(u, "over")) /\ UNCHANGED <<place, update, mishaps, budget>>
UpdateNext == (UpdateStep \/ UpdateOver) /\ UNCHANGED <<platform, release>>

(***************************************************************************)
(* What an update never does                                               *)
(***************************************************************************)

\* The executable is the one that was there or the release, whole, and never
\* anything that an update has not checked; a helper that could neither drop
\* an older backup nor set the executable aside may bring the older one back.
ExecutableWhole ==
    \/ place["exe"] \in {"old", "new", "absent"}
    \/ place["exe"] = "older" /\ "put back over another executable" \in mishaps

\* While the executable is away, it is where updates set it aside, even after
\* one was killed; only another update can have dropped it.
NeverWithout ==
    place["exe"] = "absent" /\ "backup of another update dropped" \notin mishaps => place["backup"] \in Executables

\* When all have ended, the release is installed if one of them says so, and
\* otherwise nothing has changed.
OutcomeTold ==
    (\A u \in Updaters : update[u].pc \in {"idle", "over"} /\ update[u].outcome # "killed") /\ mishaps = {} =>
        place["exe"] = IF \E u \in Updaters : update[u].outcome = "installed" THEN "new" ELSE "old"

UpdatesAreWhole == ExecutableWhole /\ NeverWithout /\ OutcomeTold
=============================================================================
