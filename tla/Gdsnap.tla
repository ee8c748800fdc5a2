------------------------------- MODULE Gdsnap -------------------------------
(***************************************************************************)
(* The `watch' daemon of gdsnap/gdsnap.go: it keeps a copy of a directory  *)
(* tree on Google Drive.  Four parties act on the state below.             *)
(*                                                                         *)
(*   - the user edits the tree, at any moment, the daemon running or not;  *)
(*   - the kernel queues inotify events for the directories being watched; *)
(*   - the watchdir goroutine turns the events into paths sent on filech;  *)
(*   - the main goroutine scans the tree at startup, and then runs backup  *)
(*     cycles in which savepath compares, reads and uploads one path at a  *)
(*     time while the tree goes on changing under it.                      *)
(*                                                                         *)
(* A file's bytes, its sha256 and its encrypted form are one content       *)
(* value.  An object on Drive is [c, m]: the content it carries (Gone when *)
(* the object is trashed) and the modification time recorded with it.  The *)
(* tree has one level of directories below the root Top.                   *)
(***************************************************************************)
EXTENDS Naturals, Sequences

CONSTANTS
    File,       \* the paths of files and symlinks
    Dir,        \* the paths of the directories below the root
    Top,        \* the root, *dirFlag
    Parent,     \* the directory each file lives in
    Content,    \* what a file may contain
    Link,       \* the contents that are symlink targets
    DirLink,    \* the symlink targets that are directories
    Large,      \* the contents of more than 5e6 bytes when encrypted
    Refused,    \* the contents of more than -sizelimitmb
    SizeOf,     \* the size of each content once encrypted
    Ignored,    \* the files that match an -ignore glob
    Gone,       \* no such file; also the content of a trashed object
    EmptyLink,  \* a symlink uploaded with an empty target
    NoSha,      \* the sha part of an object's name when it has none
    NoPath,     \* no path
    UserOps,    \* what the user does: write, delete, movein, moveout
    Faults,     \* what may fail: crash, put, list
    MaxClock,   \* bound: how many times the user may create or write
    MaxObjects, \* bound: the objects of a path that a listing may leave out
    ChanCap     \* capacity of filech (1000 in the code)

ASSUME NamesAssumption ==
    /\ Top \notin File \cup Dir
    /\ NoPath \notin File \cup Dir \cup {Top}
    /\ File \cap Dir = {}
    /\ Parent \in [File -> Dir \cup {Top}]
    /\ Ignored \subseteq File

ASSUME ContentAssumption ==
    /\ Gone \notin Content /\ EmptyLink \notin Content /\ Gone # EmptyLink
    /\ NoSha \notin Content
    /\ Link \subseteq Content /\ DirLink \subseteq Link
    /\ Large \subseteq Content \ Link
    /\ Refused \subseteq Content \ Link
    /\ SizeOf \in [Content -> Nat \ {0}]

ASSUME BoundsAssumption ==
    MaxClock \in Nat /\ MaxObjects \in Nat /\ ChanCap \in Nat \ {0}

VARIABLES
    disk,     \* File -> [c, m]: the tree; m is the modification time
    dirs,     \* the directories that exist
    clock,    \* the last modification time handed out
    drive,    \* File -> Seq([c, m]): the objects named after each path
    files,    \* gs.files: what the last listing, and the uploads since, say
    phase,    \* where the main goroutine is in subcommandWatch
    touched,  \* the changed paths waiting for the next cycle
    walk,     \* what the loop around savepath has yet to visit
    job,      \* the file savepath is working on
    watches,  \* the directories that exist and have an inotify watch
    wtodo,    \* what watchpath has yet to watch (directories) or send (files)
    wname,    \* the name of the event being handled, sent last
    events,   \* the inotify queue of the kernel
    filech,   \* the channel between the two goroutines
    unlisted, \* ghost: the files with an object that gs.files has no entry for
    missed    \* ghost: why the daemon may never learn of a file's last change

tree    == <<disk, dirs, clock>>
cache   == <<files, unlisted>>
main    == <<phase, touched, walk, job, cache>>
watcher == <<watches, wtodo, wname, events>>
vars    == <<tree, drive, main, watcher, filech, missed>>

-----------------------------------------------------------------------------
(* The data.                                                               *)

Regular == Content \ Link
Stored  == Content \cup {Gone, EmptyLink}
Object  == [c : Stored, m : Nat]
Mask    == {"new", "change"}   \* IN_CREATE or IN_MOVED_TO, and the others
Event   == [path : File \cup Dir, mask : Mask]
Phases  == {"down", "old", "new", "drain", "wait", "cycle"}
Reasons == {"no", "asleep", "startup", "swapped", "badput", "unlisted"}

Absent == [c |-> Gone, m |-> 0]

\* fileinfo, with Go's zero value for a path that is not in gs.files ("none").
\* An id of 0 is the empty ID of an object created since the listing.
Blank == [st |-> "none", id |-> 0, m |-> 0, size |-> 0, sha |-> NoSha]
Info  == [st : {"none", "live", "trashed"}, id : Nat, m : Nat, size : Nat,
          sha : Content \cup {NoSha}]

\* What savepath has in hand: a file to read, a symlink to read, a request.
Idle == [at |-> "idle", f |-> NoPath, m |-> 0, c |-> Gone]
Job  == [at : {"idle", "read", "readlink", "send"}, f : File \cup {NoPath},
         m : Nat, c : Stored]

Sha(c)  == IF c \in Regular THEN c ELSE NoSha
Size(c) == IF c \in Content THEN SizeOf[c] ELSE 0

Exists(f)  == disk[f].c # Gone
Present(d) == d = Top \/ d \in dirs

\* What a walk finds when it reads directory d.
Entries(d) == {f \in File : Parent[f] = d /\ Exists(f)}
                  \cup (IF d = Top THEN dirs ELSE {})

\* What Drive should hold of f: nothing live of an ignored or a deleted file.
Wanted(f) == IF f \in Ignored THEN Gone ELSE disk[f].c

\* Drive holds it; of several objects of one name, one does.
InSync(f) == IF drive[f] = << >> THEN Wanted(f) = Gone
             ELSE \E i \in DOMAIN drive[f] : drive[f][i].c = Wanted(f)

\* Drive holds it and no request for f is being prepared.
Clean(f) == InSync(f) /\ job.f # f

NeedsTrashing(f) == f \in Ignored \/ ~Exists(f)

Metadata(o, i) == [st |-> IF o.c = Gone THEN "trashed" ELSE "live", id |-> i,
                   m |-> o.m, size |-> Size(o.c), sha |-> Sha(o.c)]

\* What a listing may say of f: of several objects of one name, any one.
Listing(f) == IF drive[f] = << >> THEN {Blank}
              ELSE {Metadata(drive[f][i], i) : i \in DOMAIN drive[f]}

\* What gs.files says of f still is what a listing would, or is nothing, of a
\* file that is to be uploaded whatever there is.
Told(f) == files[f] \in Listing(f) \/ (files[f] = Blank /\ f \notin Ignored)

-----------------------------------------------------------------------------
(* The user.  Every write takes a modification time of its own.  An event  *)
(* is queued when the directory it happens in is watched; the kernel drops *)
(* an event equal to the last one in the queue.                            *)

Post(e) == IF events # << >> /\ events[Len(events)] = e
             THEN events ELSE Append(events, e)

Notify(p, dir, mask) ==
    events' = IF dir \in watches THEN Post([path |-> p, mask |-> mask]) ELSE events

Booting == {"old", "new", "drain"}

\* Why a deletion in directory dir may go unnoticed.
Unseen(dir) ==
    IF phase = "down" THEN "asleep"
    ELSE IF phase \in Booting \/ dir \notin watches THEN "startup"
    ELSE "no"

\* Why new content may go unnoticed: it was written before the first backup
\* cycle and after the file's turn in the scan, of which there is one listing.
Unread(f) == IF phase \in Booting /\ (~Told(f) \/ job.f = f) THEN "startup" ELSE "no"

Write(f, c) ==
    /\ "write" \in UserOps
    /\ clock < MaxClock
    /\ Present(Parent[f])
    /\ clock' = clock + 1
    /\ disk' = [disk EXCEPT ![f] = [c |-> c, m |-> clock + 1]]
    /\ Notify(f, Parent[f], IF c \in Link THEN "new" ELSE "change")
    /\ missed' = [missed EXCEPT ![f] = Unread(f)]
    /\ UNCHANGED <<dirs, drive, main, watches, wtodo, wname, filech>>

Delete(f) ==
    /\ "delete" \in UserOps
    /\ Exists(f)
    /\ disk' = [disk EXCEPT ![f] = Absent]
    /\ Notify(f, Parent[f], "change")
    /\ missed' = [missed EXCEPT ![f] = Unseen(Parent[f])]
    /\ UNCHANGED <<dirs, clock, drive, main, watches, wtodo, wname, filech>>

\* A directory leaves the tree with everything in it, in one rename.
MoveOut(d) ==
    /\ "moveout" \in UserOps
    /\ d \in dirs
    /\ dirs' = dirs \ {d}
    /\ disk' = [f \in File |-> IF Parent[f] = d THEN Absent ELSE disk[f]]
    /\ watches' = watches \ {d}
    /\ Notify(d, Top, "change")
    /\ missed' = [f \in File |-> IF Parent[f] = d /\ Exists(f)
                                   THEN Unseen(Top) ELSE missed[f]]
    /\ UNCHANGED <<clock, drive, main, wtodo, wname, filech>>

\* A directory with the files of new in it arrives, in one rename or mkdir.
\* Files it does not bring may still be live on Drive, or be on their way.
MoveIn(d, new) ==
    /\ "movein" \in UserOps
    /\ clock < MaxClock
    /\ d \notin dirs
    /\ clock' = clock + 1
    /\ dirs' = dirs \cup {d}
    /\ disk' = [f \in File |->
                  IF Parent[f] = d /\ new[f] # Gone
                    THEN [c |-> new[f], m |-> clock + 1] ELSE disk[f]]
    /\ Notify(d, Top, "new")
    /\ missed' = [f \in File |->
                    CASE Parent[f] # d -> missed[f]
                      [] Parent[f] = d /\ new[f] # Gone -> Unread(f)
                      [] OTHER -> IF missed[f] = "no" /\ ~Clean(f)
                                    THEN "swapped" ELSE missed[f]]
    /\ UNCHANGED <<drive, main, watches, wtodo, wname, filech>>

User ==
    \/ \E f \in File : (\E c \in Content : Write(f, c)) \/ Delete(f)
    \/ \E d \in Dir : MoveOut(d)
                     \/ \E new \in [{f \in File : Parent[f] = d} -> Content \cup {Gone}] :
                           MoveIn(d, new)

-----------------------------------------------------------------------------
(* savepath, in three steps: what Lstat and gs.files decide, reading the   *)
(* file, and the request to Drive.  Only the user's steps and the          *)
(* watcher's come between them.                                            *)

Listed(f) == files[f].st = "live"

\* The early returns, taken in this order.
Skipped(f) ==
    \/ f \in Ignored /\ ~Listed(f)
    \/ files[f].st # "none" /\ files[f].id = 0
    \/ ~Exists(f) /\ ~Listed(f)

SameTime(f) == files[f].st # "trashed" /\ disk[f].m = files[f].m

\* savepath(f) up to the read, or up to the request when f is to be trashed.
SavePath(f) ==
    job' = IF Skipped(f) THEN Idle
           ELSE IF NeedsTrashing(f)
             THEN [at |-> "send", f |-> f, m |-> 0, c |-> Gone]
           ELSE IF SameTime(f) \/ disk[f].c \in Refused THEN Idle
           ELSE [at |-> IF disk[f].c \in Link THEN "readlink" ELSE "read",
                 f |-> f, m |-> disk[f].m, c |-> Gone]

SameSha(f, c) ==
    /\ c \in Regular
    /\ files[f].st # "trashed"
    /\ files[f].size = Size(c)
    /\ files[f].sha = c

\* What Readlink, or ReadFile, returns by now; Gone is an error of ReadFile.
\* ReadFile follows a symlink that has taken the file's place; a failed
\* Readlink is logged, and the empty target uploaded.
Outcomes(f) ==
    IF job.at = "readlink"
      THEN {IF disk[f].c \in Link THEN disk[f].c ELSE EmptyLink}
    ELSE IF disk[f].c \in Link THEN Regular \cup {Gone}
    ELSE {disk[f].c}

ReadFile ==
    /\ job.at \in {"read", "readlink"}
    /\ \E c \in Outcomes(job.f) :
         job' = IF c = Gone \/ SameSha(job.f, c) THEN Idle
                ELSE [at |-> "send", f |-> job.f, m |-> job.m, c |-> c]
    /\ UNCHANGED <<tree, drive, phase, touched, walk, cache, watcher, filech,
                   missed>>

\* The object a request leaves on Drive: PATCH of the object gs.files names,
\* or POST of another one with the same name.
Request(f) ==
    IF files[f].st # "none"
      THEN [drive EXCEPT ![f][files[f].id] = [c |-> job.c, m |-> job.m]]
      ELSE [drive EXCEPT ![f] = Append(@, [c |-> job.c, m |-> job.m])]

\* newfi, as stored into gs.files: it keeps the ID and the Name of fi, so
\* the sha in it is the one the file had before.
NewInfo(f) ==
    [st   |-> IF job.c = Gone THEN "trashed" ELSE "live",
     id   |-> files[f].id,
     m    |-> IF job.c = Gone THEN files[f].m ELSE job.m,
     size |-> IF job.c \in Regular THEN Size(job.c) ELSE files[f].size,
     sha  |-> files[f].sha]

\* Mutation: no upload is stored into gs.files.
UploadForgotten ==
    /\ job.at = "send"
    /\ drive' = Request(job.f)
    /\ job' = Idle
    /\ UNCHANGED <<tree, phase, touched, walk, cache, watcher, filech, missed>>

\* The request succeeds.  The path of a large file returns without storing
\* newfi.
Upload ==
    /\ job.at = "send"
    /\ drive' = Request(job.f)
    /\ files' = IF job.c \in Large THEN files
                ELSE [files EXCEPT ![job.f] = NewInfo(job.f)]
    /\ unlisted' = unlisted \ {job.f}
    /\ job' = Idle
    /\ UNCHANGED <<tree, phase, touched, walk, watcher, filech, missed>>

\* The PUT of a large file is refused: the status that is tested is the one
\* of the request before it, and the file counts as uploaded.
PutRefused ==
    /\ "put" \in Faults
    /\ job.at = "send" /\ job.c \in Large
    /\ missed' = [missed EXCEPT ![job.f] = IF @ = "no" THEN "badput" ELSE @]
    /\ job' = Idle
    /\ UNCHANGED <<tree, drive, phase, touched, walk, cache, watcher, filech>>

-----------------------------------------------------------------------------
(* The main goroutine, subcommandWatch.                                    *)

\* What listfiles makes of the answers for f.  No status is looked at: an error
\* has no files in it and no further page, and what it should have told of is
\* taken not to be on Drive.
Answers(f) ==
    Listing(f) \cup
        IF "list" \in Faults /\ Len(drive[f]) < MaxObjects THEN {Blank} ELSE {}

ListFiles ==
    \E g \in [File -> UNION {Answers(f) : f \in File}] :
        /\ \A f \in File : g[f] \in Answers(f)
        /\ files' = g
        /\ unlisted' = {f \in File : g[f] \notin Listing(f)}
        /\ missed' = [f \in File |->
              IF /\ g[f] \notin Listing(f) /\ missed[f] = "no"
                 /\ NeedsTrashing(f) /\ ~InSync(f)
                THEN "unlisted" ELSE missed[f]]

Free == job = Idle

\* The daemon starts: it lists Drive and goes through what it found there.
Start ==
    /\ phase = "down"
    /\ ListFiles
    /\ phase' = "old"
    /\ walk' = {f \in File : files'[f].st = "live"}
    /\ UNCHANGED <<tree, drive, touched, job, watcher, filech>>

\* The first scan takes the name of the object for the path of the file.
\* That name ends in the sha, except a symlink's: nothing else is visited.
OldVisit(f) ==
    /\ phase = "old" /\ Free
    /\ f \in walk
    /\ walk' = walk \ {f}
    /\ IF files[f].sha = NoSha THEN SavePath(f) ELSE job' = job
    /\ UNCHANGED <<tree, drive, phase, touched, cache, watcher, filech, missed>>

\* The second scan walks the tree.
OldDone ==
    /\ phase = "old" /\ Free
    /\ walk = {}
    /\ phase' = "new"
    /\ walk' = Entries(Top)
    /\ UNCHANGED <<tree, drive, touched, job, cache, watcher, filech, missed>>

Walking == phase \in {"new", "drain", "cycle"} /\ Free

WalkFile(f) ==
    /\ Walking
    /\ f \in walk
    /\ walk' = walk \ {f}
    /\ SavePath(f)
    /\ UNCHANGED <<tree, drive, phase, touched, cache, watcher, filech, missed>>

WalkDir(d) ==
    /\ Walking
    /\ d \in walk
    /\ walk' = (walk \ {d}) \cup Entries(d)
    /\ UNCHANGED <<tree, drive, phase, touched, job, cache, watcher, filech,
                   missed>>

\* The watcher goroutine is started once the scans are over.
NewDone ==
    /\ phase = "new" /\ Free
    /\ walk = {}
    /\ phase' = "drain"
    /\ wtodo' = {Top}
    /\ UNCHANGED <<tree, drive, touched, walk, job, cache, watches, wname,
                   events, filech, missed>>

\* Mutation: a path that cannot be statted is not taken for a directory.
VisitNoPrefix(p) ==
    IF p \in File
      THEN walk' = walk /\ SavePath(p)
      ELSE job' = job /\ walk' = IF p \in dirs THEN Entries(p) ELSE {}

\* savepath(p): a file, the walk of a directory, or, when there is no such
\* directory, the files that gs.files has under that name.
Visit(p) ==
    IF p \in File
      THEN walk' = walk /\ SavePath(p)
      ELSE /\ job' = job
           /\ walk' = IF p \in dirs THEN Entries(p)
                      ELSE {f \in File : Parent[f] = p /\ files[f].st # "none"}

DrainVisit ==
    /\ phase = "drain" /\ Free
    /\ walk = {} /\ filech # << >>
    /\ filech' = Tail(filech)
    /\ Visit(Head(filech))
    /\ UNCHANGED <<tree, drive, phase, touched, cache, watcher, missed>>

\* Three seconds without a change.
DrainDone ==
    /\ phase = "drain" /\ Free
    /\ walk = {} /\ filech = << >>
    /\ phase' = "wait"
    /\ UNCHANGED <<tree, drive, touched, walk, job, cache, watcher, filech,
                   missed>>

Receive ==
    /\ phase = "wait"
    /\ filech # << >>
    /\ touched' = touched \cup {Head(filech)}
    /\ filech' = Tail(filech)
    /\ UNCHANGED <<tree, drive, phase, walk, job, cache, watcher, missed>>

\* Mutation: a cycle works from the listing the daemon started with.
StartCycleUnlisted ==
    /\ phase = "wait"
    /\ touched # {}
    /\ phase' = "cycle"
    /\ UNCHANGED <<tree, drive, touched, walk, job, cache, watcher, filech,
                   missed>>

\* The timer, or SIGINT, starts a cycle.
StartCycle ==
    /\ phase = "wait"
    /\ touched # {}
    /\ ListFiles
    /\ phase' = "cycle"
    /\ UNCHANGED <<tree, drive, touched, walk, job, watcher, filech>>

\* Mutation: the path stays in touched.
CycleVisitKept(p) ==
    /\ phase = "cycle" /\ Free
    /\ walk = {} /\ p \in touched
    /\ Visit(p)
    /\ UNCHANGED <<tree, drive, phase, touched, cache, watcher, filech, missed>>

CycleVisit(p) ==
    /\ phase = "cycle" /\ Free
    /\ walk = {} /\ p \in touched
    /\ touched' = touched \ {p}
    /\ Visit(p)
    /\ UNCHANGED <<tree, drive, phase, cache, watcher, filech, missed>>

CycleDone ==
    /\ phase = "cycle" /\ Free
    /\ walk = {} /\ touched = {}
    /\ phase' = "wait"
    /\ UNCHANGED <<tree, drive, touched, walk, job, cache, watcher, filech,
                   missed>>

Main ==
    \/ Start \/ OldDone \/ NewDone \/ DrainVisit \/ DrainDone
    \/ Receive \/ StartCycle \/ CycleDone
    \/ \E f \in File : OldVisit(f) \/ WalkFile(f)
    \/ \E d \in Dir : WalkDir(d)
    \/ \E p \in File \cup Dir : CycleVisit(p)
    \/ ReadFile \/ Upload

-----------------------------------------------------------------------------
(* The watchdir goroutine, and the daemon's death.                         *)

CanSend == Len(filech) < ChanCap

\* watchpath(d): the watch is added before the directory is read.
AddWatch(d) ==
    /\ d \in wtodo /\ Present(d)
    /\ watches' = watches \cup {d}
    /\ wtodo' = (wtodo \ {d}) \cup Entries(d)
    /\ UNCHANGED <<tree, drive, main, wname, events, filech, missed>>

SendWalked(f) ==
    /\ f \in wtodo /\ CanSend
    /\ wtodo' = wtodo \ {f}
    /\ filech' = Append(filech, f)
    /\ UNCHANGED <<tree, drive, main, watches, wname, events, missed>>

\* A new path that is a symlink to a directory: Stat follows it, and calls it
\* a directory; InotifyAddWatch does not, and fails.
LinkedDir(e) == e.mask = "new" /\ e.path \in File /\ disk[e.path].c \in DirLink

NextEvent == wtodo = {} /\ wname = NoPath /\ events # << >>

\* Mutation: new directories are not handed to watchpath.
ReadEventUnwatched ==
    /\ NextEvent
    /\ wname' = Head(events).path
    /\ events' = Tail(events)
    /\ UNCHANGED <<tree, drive, main, watches, wtodo, filech, missed>>

\* Mutation: the name of the event is not sent.
ReadEventUnsent ==
    /\ NextEvent
    /\ LET e == Head(events) IN
         wtodo' = IF e.mask = "new" /\ e.path \in dirs THEN {e.path} ELSE {}
    /\ events' = Tail(events)
    /\ UNCHANGED <<tree, drive, main, watches, wname, filech, missed>>

\* The next event.  A new directory is handed to watchpath before its name
\* is sent.
ReadEvent ==
    /\ NextEvent
    /\ LET e == Head(events) IN
         /\ ~LinkedDir(e)
         /\ wname' = e.path
         /\ wtodo' = IF e.mask = "new" /\ e.path \in dirs THEN {e.path} ELSE {}
    /\ events' = Tail(events)
    /\ UNCHANGED <<tree, drive, main, watches, filech, missed>>

\* Mutation: a name is sent whether an event left one or not.
SendNameAlways ==
    /\ wtodo = {} /\ CanSend
    /\ filech' = Append(filech, wname)
    /\ wname' = NoPath
    /\ UNCHANGED <<tree, drive, main, watches, wtodo, events, missed>>

SendName ==
    /\ wtodo = {} /\ wname # NoPath /\ CanSend
    /\ filech' = Append(filech, wname)
    /\ wname' = NoPath
    /\ UNCHANGED <<tree, drive, main, watches, wtodo, events, missed>>

\* The process is gone.  What it knew is lost with it, its inotify queue
\* included; what is gone from the tree but not from Drive stays so.
Die ==
    /\ phase' = "down"
    /\ touched' = {} /\ walk' = {} /\ job' = Idle
    /\ files' = [f \in File |-> Blank] /\ unlisted' = {}
    /\ watches' = {} /\ wtodo' = {} /\ wname' = NoPath
    /\ events' = << >> /\ filech' = << >>
    /\ UNCHANGED tree
    /\ missed' = [f \in File |-> IF ~Exists(f) /\ ~InSync(f)'
                                   THEN "asleep" ELSE "no"]

\* log.Fatal in watchpath: the directory is gone again, or was never one.
WatchFails ==
    /\ \/ \E d \in wtodo \cap Dir : d \notin dirs
       \/ NextEvent /\ LinkedDir(Head(events))
    /\ UNCHANGED drive
    /\ Die

Watcher ==
    \/ \E d \in Dir \cup {Top} : AddWatch(d)
    \/ \E f \in File : SendWalked(f)
    \/ ReadEvent \/ SendName \/ WatchFails

\* A failed upload ends in log.Fatal, as does a request that gets no answer,
\* and the machine may go down; Drive may have carried the request out before
\* the daemon heard of it.
Crash ==
    /\ "crash" \in Faults
    /\ phase # "down"
    /\ \/ UNCHANGED drive
       \/ job.at = "send" /\ drive' = Request(job.f)
    /\ Die

-----------------------------------------------------------------------------
(* At first the daemon is down and Drive holds what an earlier run left.   *)

Init ==
    /\ clock = 1
    /\ dirs \in SUBSET Dir
    /\ disk \in [File -> {Absent} \cup [c : Content, m : {1}]]
    /\ \A f \in File : Exists(f) => Present(Parent[f])
    /\ drive \in [File -> {<< >>} \cup {<<o>> : o \in {Absent} \cup [c : Content, m : {0, 1}]}]
    /\ \A f \in File : drive[f] # << >> =>
          /\ drive[f][1].m = 1 => drive[f][1].c = disk[f].c
          /\ drive[f][1].c = Gone => drive[f][1].m = 0
    /\ phase = "down"
    /\ touched = {} /\ walk = {} /\ job = Idle
    /\ files = [f \in File |-> Blank] /\ unlisted = {}
    /\ watches = {} /\ wtodo = {} /\ wname = NoPath
    /\ events = << >> /\ filech = << >>
    /\ missed = [f \in File |-> IF ~Exists(f) /\ ~InSync(f) THEN "asleep" ELSE "no"]

Next == User \/ Main \/ Watcher \/ PutRefused \/ Crash

Fairness == WF_vars(Main) /\ WF_vars(Watcher)

Spec == Init /\ [][Next]_vars /\ Fairness

-----------------------------------------------------------------------------
(* Properties.                                                             *)

\* Every variable keeps its type.
TypeOK ==
    /\ disk \in [File -> [c : Content \cup {Gone}, m : Nat]]
    /\ dirs \subseteq Dir
    /\ clock \in Nat
    /\ drive \in [File -> Seq(Object)]
    /\ files \in [File -> Info]
    /\ unlisted \subseteq File
    /\ phase \in Phases
    /\ touched \subseteq File \cup Dir
    /\ walk \subseteq File \cup Dir
    /\ job \in Job
    /\ watches \subseteq Dir \cup {Top}
    /\ wtodo \subseteq File \cup Dir \cup {Top}
    /\ wname \in File \cup Dir \cup {NoPath}
    /\ events \in Seq(Event)
    /\ filech \in Seq(File \cup Dir)
    /\ missed \in [File -> Reasons]

InSeq(x, s) == \E i \in DOMAIN s : s[i] = x

\* The paths whose visit leads to f.  That of its directory walks the files
\* that are there, or goes through gs.files when the directory is gone.
Names(f) == IF Exists(f) \/ Parent[f] \notin dirs THEN {f, Parent[f]} ELSE {f}

\* A path on its way to the main goroutine.
Coming(p) == \/ \E k \in Mask : InSeq([path |-> p, mask |-> k], events)
             \/ wname = p
             \/ InSeq(p, filech)

\* A path the main goroutine is going to visit.
Received(p) == p \in touched \/ p \in walk

Announced(f) == \E p \in Names(f) : Coming(p) \/ Received(p)

\* The daemon has yet to come across f, which is there.
Undiscovered(f) ==
    /\ Exists(f)
    /\ phase \in {"down", "old", "new"} \/ wtodo \cap {Parent[f], Top} # {}

Pending(f) == job.f = f \/ f \in wtodo \/ Announced(f) \/ Undiscovered(f)

\* The change most hard to see is never lost: whatever the user does while
\* savepath, the walks, the watches and the queues are in whatever state, a
\* file whose copy on Drive is not what it should be is one that the daemon
\* still has in hand, refuses to upload, or that `missed' explains.
NoLostChange ==
    \A f \in File :
        InSync(f) \/ Pending(f) \/ disk[f].c \in Refused \/ missed[f] # "no"

\* Once the watcher runs, every directory there is has a watch or is about to
\* get one, however directories come, go and come back while the watcher is
\* between an event, its Stat and its InotifyAddWatch.
WatchCovers ==
    phase \in {"drain", "wait", "cycle"} =>
        \A d \in dirs \cup {Top} :
            \/ d \in watches
            \/ wtodo \cap {d, Top} # {}
            \/ InSeq([path |-> d, mask |-> "new"], events)

\* No step gives a path that has an object on Drive a second one, although the
\* object a POST has created is not in gs.files with its ID before the next
\* listing; except, once, that of a file the last listing left out, and of one
\* whose object is large, which the upload has not stored into gs.files.
OneObjectPerFile ==
    [][\A f \in File : Len(drive'[f]) > Len(drive[f]) =>
           \/ drive[f] = << >> \/ f \in unlisted
           \/ \E i \in DOMAIN drive[f] : drive[f][i].c \in Large]_vars

\* The daemon has nothing left to do.
Quiet == /\ phase = "wait" /\ touched = {} /\ filech = << >>
         /\ wtodo = {} /\ wname = NoPath /\ events = << >>

\* When the user stops, so does the daemon: no upload makes it look again at
\* what it has just uploaded, and neither goroutine waits for the other.
Settles == <>[]Quiet

\* What is to be saved is saved in the end.
EventuallySaved ==
    \A f \in File :
        []<>(InSync(f) \/ disk[f].c \in Refused \/ missed[f] # "no")

-----------------------------------------------------------------------------
(* What the documentation, the comments and the log messages say, where    *)
(* the code does something else.                                           *)

\* "initial scan: updating/deleting files seen on gdrive."
ScanArchivesDeletions ==
    \A f \in File : Quiet /\ missed[f] = "asleep" => InSync(f)
=============================================================================
