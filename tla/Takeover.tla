------------------------------- MODULE Takeover -------------------------------
(***************************************************************************)
(* Pointing another program at Clipal: its configuration files are changed *)
(* together, after what they held was put aside, and given back on demand. *)
(* The user edits the same files at any moment, a write can fail, and      *)
(* Clipal can stop between any two writes or in the middle of one.         *)
(*                                                                         *)
(* Clipal's notes stand on the same disk: "cycle" is the active takeover,  *)
(* with the originals; "latest" and "original" are the last backup and the *)
(* content of its first file, which is all that older versions kept.  A    *)
(* content is where the program routes its requests, and the rest of the   *)
(* file, which a takeover leaves alone.                                    *)
(***************************************************************************)
EXTENDS Integers, Sequences, FiniteSets, SequencesExt

CONSTANTS Layouts,      \* the choices of the program's files, a sequence of sequences of paths
          Addresses,    \* where Clipal can listen
          None, Absent, \* no value; no such file
          Torn,         \* a note that was being written when Clipal stopped
          Hidden,       \* stands in "latest" for a content that is in "original"
          MaxEdits, MaxCalls, MaxFailures, MaxCrashes  \* bounds

VARIABLES disk,         \* content of every path and note
          address,      \* where Clipal listens now
          target,       \* the chosen layout
          job,          \* the takeover or rollback that runs, or how the last one ended
          history,      \* what each file was given by the user
          own,          \* the content that a takeover replaced and no rollback gave back
          mishaps,      \* at which steps Clipal stopped, and what else a backup cannot know
          left          \* what the bounds leave

takeoverVars == <<disk, address, target, job, history, own, mishaps, left>>

Notes == {"cycle", "latest", "original"}
Paths == UNION {Range(Layouts[t]) : t \in DOMAIN Layouts}
Empty == [route |-> "none", rest |-> 0]
Ended(answer) == [pc |-> "idle", answer |-> answer, was |-> IF answer = "failed" THEN job.was ELSE None]

IsManaged(content) == content # Absent /\ content.route \in Addresses
Planned(content) == [route |-> address, rest |-> IF content = Absent THEN 0 ELSE content.rest]

(***************************************************************************)
(* The notes                                                               *)
(***************************************************************************)

Entry(path, content) == [path |-> path, content |-> content]
Snapshot(paths) == <<>> \o [i \in DOMAIN paths |-> Entry(paths[i], disk[paths[i]])]
Mask(snap) == [snap EXCEPT ![1].content = IF @ = Absent THEN Absent ELSE Hidden]
FirstOriginal(snap) == IF snap[1].content = Absent THEN Empty ELSE snap[1].content
LatestBackup ==
    LET original == IF disk["original"] = Absent THEN Empty ELSE disk["original"]
    IN [disk["latest"] EXCEPT ![1].content = IF @ = Hidden THEN original ELSE @]
Readable(note) == disk[note] \notin {Absent, Torn}

\* What a rollback gives back: the active takeover's files, or else the last backup's.
Baseline == CASE Readable("cycle") -> disk["cycle"]
              [] disk["cycle"] = Absent /\ Readable("latest") -> LatestBackup
              [] OTHER -> None
Has(entries, path) == \E i \in DOMAIN entries : entries[i].path = path
Of(entries, path) == entries[CHOOSE i \in DOMAIN entries : entries[i].path = path].content

(***************************************************************************)
(* Apply and Rollback: what is read before anything is written             *)
(***************************************************************************)

Change(path, after) == [path |-> path, before |-> disk[path], after |-> after]
Changes == LET paths == Layouts[target] IN <<>> \o [i \in DOMAIN paths |-> Change(paths[i], Planned(disk[paths[i]]))]
Configured(files) == \A i \in DOMAIN files : files[i].before = files[i].after
PathsOf(entries) == <<>> \o [i \in DOMAIN entries |-> entries[i].path]

Begin(op, files, new, legacy) ==
    /\ job' = [pc |-> "stage", op |-> op, files |-> files, new |-> new, legacy |-> legacy, i |-> 1, recovered |-> TRUE,
               snap |-> IF new THEN None ELSE disk["cycle"], was |-> disk, owned |-> own, undisturbed |-> TRUE]
    /\ UNCHANGED <<disk, own>>
Refuse(answer) == job' = Ended(answer) /\ UNCHANGED <<disk, own>>
Call == job.pc = "idle" /\ left.calls > 0 /\ left' = [left EXCEPT !.calls = @ - 1]

NewCycle == disk["cycle"] = Absent

\* A takeover by an older version has no cycle: its backup remains the baseline.
LegacyBaseline(files) == IF NewCycle /\ IsManaged(files[1].before) /\ Readable("latest") THEN LatestBackup ELSE None
Applicable(files) ==
    /\ disk["cycle"] # Torn
    /\ ~NewCycle => PathsOf(disk["cycle"]) = PathsOf(files)
    /\ NewCycle /\ IsManaged(files[1].before) => disk["latest"] # Torn
    /\ LegacyBaseline(files) # None => Range(PathsOf(LegacyBaseline(files))) \subseteq Range(PathsOf(files))

\* The program's main file is elsewhere by now: the older takeover is not seen, and its backup will be replaced.
Orphans(files) == NewCycle /\ \E path \in Paths : own[path] # None /\ path # files[1].path
Apply ==
    /\ Call
    /\ \E files \in {Changes} :
         \/ Configured(files) /\ Refuse("already configured") /\ UNCHANGED mishaps
         \/ ~Configured(files) /\ ~Applicable(files) /\ Refuse("refused") /\ UNCHANGED mishaps
         \/ /\ ~Configured(files) /\ Applicable(files)
            /\ Begin("apply", files, NewCycle, LegacyBaseline(files))
            /\ mishaps' = mishaps \cup (IF Orphans(files) THEN {"note replaced"} ELSE {})
    /\ UNCHANGED <<address, target, history>>

\* The notes go in the transaction that gives the files back.
RollbackFiles == (<<>> \o [i \in DOMAIN Baseline |-> Change(Baseline[i].path, Baseline[i].content)])
                 \o <<Change("cycle", Absent), Change("latest", Absent), Change("original", Absent)>>
Rollback ==
    /\ Call
    /\ IF Baseline = None THEN Refuse("refused") ELSE Begin("rollback", RollbackFiles, FALSE, None)
    /\ UNCHANGED <<address, target, history, mishaps>>

(***************************************************************************)
(* The transaction                                                         *)
(***************************************************************************)

FailureLeft == left.failures > 0
CountFailure == left' = [left EXCEPT !.failures = @ - 1]
Go(pc) == job' = [job EXCEPT !.pc = pc]
Unchanged(file) == disk[file.path] = file.before

End(answer) == job' = Ended(answer)
\* A failed takeover drops its notes; a failed rollback has put its own back already.
\* Mutant: whether the files could be put back is not looked at.
FailureDropsNotes == IF job.op = "apply" THEN "latest back" ELSE "idle"
AfterFailure == IF job.op = "apply" /\ job.recovered THEN "latest back" ELSE "idle"
Fail == LET next == AfterFailure IN
        IF next = "idle" THEN End(IF job.recovered /\ job.undisturbed THEN "failed" ELSE "broken") ELSE Go(next)

\* The new contents are written beside the files, which must still be as they were read.
Stage ==
    /\ job.pc = "stage"
    /\ \/ /\ \A i \in DOMAIN job.files : Unchanged(job.files[i])
          /\ Go(IF job.op = "rollback" THEN "commit" ELSE IF job.new THEN "latest" ELSE "cycle")
          /\ UNCHANGED left
       \/ (\E i \in DOMAIN job.files : ~Unchanged(job.files[i])) /\ Fail /\ UNCHANGED left
       \/ FailureLeft /\ CountFailure /\ Fail
    /\ UNCHANGED <<disk, own>>

\* One note is written: as meant, or not at all, and then the takeover fails.
Put(note, content, next) ==
    \/ disk' = [disk EXCEPT ![note] = content] /\ next /\ UNCHANGED left
    \/ FailureLeft /\ CountFailure /\ Fail /\ UNCHANGED disk

BackupLatest ==
    /\ job.pc = "latest"
    /\ \E snap \in {Snapshot(PathsOf(job.files))} :
         Put("latest", Mask(snap), job' = [job EXCEPT !.pc = "original", !.snap = snap])
    /\ UNCHANGED own
BackupOriginal ==
    /\ job.pc = "original"
    /\ Put("original", FirstOriginal(job.snap), Go(IF job.legacy = None THEN "cycle" ELSE "adopt latest"))
    /\ UNCHANGED own

\* The backup is written again, with the older baseline's content for the files that it has.
Adopted == [i \in DOMAIN job.snap |->
              IF Has(job.legacy, job.snap[i].path) THEN Entry(job.snap[i].path, Of(job.legacy, job.snap[i].path)) ELSE job.snap[i]]
AdoptLatest ==
    /\ job.pc = "adopt latest"
    /\ \E snap \in {<<>> \o Adopted} : Put("latest", Mask(snap), job' = [job EXCEPT !.pc = "adopt original", !.snap = snap])
    /\ UNCHANGED own
AdoptOriginal ==
    job.pc = "adopt original" /\ Put("original", FirstOriginal(job.snap), Go("cycle")) /\ UNCHANGED own

WriteCycle == job.pc = "cycle" /\ Put("cycle", job.snap, Go("commit")) /\ UNCHANGED own

\* What the commit of a file means for whose content is where.
OwnAfter(file) ==
    CASE file.path \in Notes -> own
      [] file.path \notin Notes /\ job.op = "rollback" -> [own EXCEPT ![file.path] = None]
      [] file.path \notin Notes /\ job.op = "apply" -> [own EXCEPT ![file.path] = IF @ = None THEN file.before ELSE @]

Commit ==
    /\ job.pc = "commit"
    /\ \E file \in {job.files[job.i]} :
         \/ /\ Unchanged(file)
            /\ disk' = [disk EXCEPT ![file.path] = file.after]
            /\ own' = OwnAfter(file)
            /\ IF job.i = Len(job.files) THEN End("done") ELSE job' = [job EXCEPT !.i = @ + 1]
            /\ UNCHANGED left
         \/ /\ \/ ~Unchanged(file) /\ UNCHANGED left
               \/ FailureLeft /\ CountFailure
            /\ IF job.i = 1 THEN Fail ELSE job' = [job EXCEPT !.pc = "undo", !.i = @ - 1]
            /\ UNCHANGED <<disk, own>>

\* The files already replaced are put back, the last one first, whatever they hold by now.
Undo ==
    /\ job.pc = "undo"
    /\ job.i > 0
    /\ \E file \in {job.files[job.i]} :
         \/ /\ disk' = [disk EXCEPT ![file.path] = file.before]
            /\ own' = IF file.path \in Notes THEN own ELSE [own EXCEPT ![file.path] = job.owned[file.path]]
            /\ job' = [job EXCEPT !.i = @ - 1]
            /\ UNCHANGED <<left, mishaps>>
         \/ /\ FailureLeft /\ CountFailure
            /\ job' = [job EXCEPT !.i = @ - 1, !.recovered = FALSE]
            /\ mishaps' = mishaps \cup {IF file.path \in Notes THEN "note lost" ELSE "file lost"}
            /\ UNCHANGED <<disk, own>>
Undone == job.pc = "undo" /\ job.i = 0 /\ Fail /\ UNCHANGED <<disk, own, left>>

\* A takeover that changed nothing in the end puts the three notes back.
NextNote == [n \in {"latest back", "original back", "cycle back"} |->
               CASE n = "latest back" -> [note |-> "latest", next |-> "original back"]
                 [] n = "original back" -> [note |-> "original", next |-> "cycle back"]
                 [] n = "cycle back" -> [note |-> "cycle", next |-> "idle"]]
PutNoteBack ==
    /\ job.pc \in DOMAIN NextNote
    /\ \E step \in {NextNote[job.pc]} :
         /\ \/ disk' = [disk EXCEPT ![step.note] = job.was[step.note]] /\ UNCHANGED <<left, mishaps>>
            \/ FailureLeft /\ CountFailure /\ mishaps' = mishaps \cup {"note lost"} /\ UNCHANGED disk
         /\ IF step.next = "idle" THEN End(IF job.undisturbed THEN "failed" ELSE "broken") ELSE Go(step.next)
    /\ UNCHANGED own

Transaction ==
    /\ \/ Stage \/ BackupLatest \/ BackupOriginal \/ AdoptLatest \/ AdoptOriginal \/ WriteCycle \/ Commit \/ Undone
    /\ UNCHANGED <<address, target, history, mishaps>>
PuttingBack == (Undo \/ PutNoteBack) /\ UNCHANGED <<address, target, history>>

(***************************************************************************)
(* The world around                                                        *)
(***************************************************************************)

\* Another layout can be chosen only while nothing is taken over.
SetTarget(t) ==
    /\ Call
    /\ IF disk["latest"] # Absent \/ disk["cycle"] # Absent
       THEN Refuse("refused") /\ UNCHANGED target
       ELSE target' = t /\ Refuse("done")
    /\ UNCHANGED <<address, history, mishaps>>

\* Clipal is started again, with another port or with another environment for the program.
Restart(a, t) ==
    /\ Call
    /\ address' = a /\ target' = t
    /\ Refuse("none")
    /\ UNCHANGED <<history, mishaps>>

\* The user changes the rest of a file, routes it elsewhere, or removes it, which
\* takes back by hand what a takeover without a cycle did.  The backup is read after
\* the plan: of a file that is changed and changed back meanwhile it has what was between.
Edits(path) ==
    LET rest == MaxEdits - left.edits + 1
        route == IF disk[path] = Absent THEN "own" ELSE disk[path].route
    IN {Absent} \cup {[route |-> r, rest |-> rest] : r \in {route, "own"}}
InCycle(path) ==
    IF job.pc = "idle" THEN disk["cycle"] # Absent
    ELSE job.was["cycle"] # Absent \/ (job.pc \in {"commit", "undo"} /\ \E k \in 1 .. job.i : job.files[k].path = path
                                      /\ (job.pc = "commit" => k < job.i))
UserEdit(path, content) ==
    /\ left.edits > 0 /\ left' = [left EXCEPT !.edits = @ - 1]
    /\ content # disk[path]
    /\ disk' = [disk EXCEPT ![path] = content]
    /\ history' = [history EXCEPT ![path] = IF IsManaged(content) THEN @ ELSE @ \cup {content}]
    /\ own' = IF IsManaged(content) \/ InCycle(path) THEN own ELSE [own EXCEPT ![path] = None]
    /\ job' = IF job.pc = "idle" THEN Ended("none") ELSE [job EXCEPT !.undisturbed = FALSE]
    /\ mishaps' = mishaps \cup (IF job.pc # "idle" /\ ~InCycle(path) /\ content = job.was[path]
                               THEN {"changed back"} ELSE {})
    /\ UNCHANGED <<address, target>>

\* Clipal stops; the note that it was writing can be left in pieces.
Crash ==
    /\ job.pc # "idle"
    /\ left.crashes > 0 /\ left' = [left EXCEPT !.crashes = @ - 1]
    /\ disk' \in {disk} \cup (IF job.pc = "cycle" THEN {[disk EXCEPT !["cycle"] = Torn]} ELSE {})
    /\ mishaps' = mishaps \cup {job.pc}
    /\ job' = Ended("none")
    /\ UNCHANGED <<address, target, history, own>>

(***************************************************************************)
(* Specification                                                           *)
(***************************************************************************)

Fresh(first) == [p \in Paths \cup Notes |->
                   CASE p = Layouts[1][1] -> first [] p \in Notes -> Absent [] OTHER -> [route |-> "own", rest |-> 0]]
\* What an older version left: the first file taken over, and the backup of that file.
Legacy(was, a) ==
    [Fresh([route |-> a, rest |-> 0]) EXCEPT !["latest"] = Mask(<<Entry(Layouts[1][1], was)>>),
                                             !["original"] = FirstOriginal(<<Entry(Layouts[1][1], was)>>)]

TakeoverInit ==
    /\ address \in Addresses
    /\ target \in DOMAIN Layouts
    /\ \E was \in {Absent, [route |-> "own", rest |-> 0]}, legacy \in BOOLEAN :
         /\ disk = IF legacy THEN Legacy(was, address) ELSE Fresh(was)
         /\ history = [p \in Paths |-> {IF p = Layouts[1][1] THEN was ELSE disk[p]}]
         /\ own = [p \in Paths |-> IF legacy /\ p = Layouts[1][1] THEN was ELSE None]
    /\ job = [pc |-> "idle", answer |-> "none", was |-> None]
    /\ mishaps = {}
    /\ left = [edits |-> MaxEdits, calls |-> MaxCalls, failures |-> MaxFailures, crashes |-> MaxCrashes]

TakeoverNext ==
    \/ Apply \/ Rollback \/ Transaction \/ PuttingBack \/ Crash
    \/ \E t \in DOMAIN Layouts : SetTarget(t) \/ \E a \in Addresses : Restart(a, t)
    \/ \E path \in Paths : \E content \in Edits(path) : UserEdit(path, content)

TakeoverSpec == TakeoverInit /\ [][TakeoverNext]_takeoverVars

(***************************************************************************)
(* Property                                                                *)
(***************************************************************************)

\* What the user had in a file that a takeover replaced can always be given
\* back: once a takeover begins to change files, and whatever fails after, the
\* baseline has exactly that content, and a call that answers that it failed
\* has changed neither a file nor the baseline.  Where Clipal stopped in the
\* middle, a file could not be put back, or the user changed one and back while
\* the takeover ran, the baseline still has some content that the user gave the
\* file, unless it was the notes that were being written, or an older version's
\* notes that a takeover of files elsewhere replaced.
NoteWriting == {"latest", "original", "adopt latest", "adopt original", "cycle",
                "latest back", "original back", "cycle back", "note lost", "note replaced"}
UsersContent(path) == IF mishaps = {} THEN {own[path]} ELSE history[path]
TakeoverKeepsUsersFiles ==
    /\ job.pc \in {"commit", "undo", "idle"} /\ mishaps \cap NoteWriting = {} =>
         \A path \in Paths : own[path] # None =>
           Baseline # None /\ Has(Baseline, path) /\ Of(Baseline, path) \in UsersContent(path)
    /\ job.pc = "idle" /\ mishaps = {} /\ job.answer = "failed" => disk = job.was
=============================================================================
