----------------------------- MODULE GdsnapInv -----------------------------
(***************************************************************************)
(* The inductive invariant behind Gdsnap!NoLostChange.  Its parts say what *)
(* the code relies on without saying so: what gs.files still tells of      *)
(* Drive, what a job still tells of the disk, and where the news of a      *)
(* later change is when they no longer do.                                 *)
(***************************************************************************)
EXTENDS Gdsnap

Running == phase \in {"drain", "wait", "cycle"}
Steady  == phase \in {"wait", "cycle"}

\* A file is in a directory that is there, and was written at some time.
DiskOK == \A f \in File : Exists(f) => Present(Parent[f]) /\ disk[f].m > 0

\* Nothing bears a later time than the file it was read from.
TimesOK ==
    \A f \in File :
        /\ disk[f].m <= clock
        /\ files[f].m <= clock
        /\ \A i \in DOMAIN drive[f] : drive[f][i].m <= clock
        /\ Exists(f) => /\ files[f].m <= disk[f].m
                        /\ \A i \in DOMAIN drive[f] : drive[f][i].m <= disk[f].m

\* The main goroutine's variables fit the phase it is in.
MainOK ==
    /\ phase = "down" => files = [f \in File |-> Blank]
    /\ phase \in {"down", "wait"} => job = Idle /\ walk = {}
    /\ phase \notin {"wait", "cycle"} => touched = {}
    /\ \A d \in Dir : d \in walk => phase = "new"

\* The watcher's variables fit what it is doing.
WatcherOK ==
    /\ watches \subseteq dirs \cup {Top}
    /\ ~Running => /\ watches = {} /\ wtodo = {} /\ wname = NoPath
                   /\ events = << >> /\ filech = << >>
    /\ WatchCovers

\* A job is for a file that savepath had reason to read or to trash, and the
\* time in it is the one its content was read at, or an earlier one.
JobOK ==
    /\ job.at = "idle" => job = Idle
    /\ job.at # "idle" =>
         LET f == job.f IN
         /\ f \in File
         /\ files[f].st # "none" => files[f].id # 0
         /\ job.at # "send" \/ job.c # Gone =>
              /\ f \notin Ignored
              /\ job.m > 0 /\ job.m <= clock
              /\ files[f].st = "trashed" \/ files[f].m < job.m
              /\ Exists(f) => job.m <= disk[f].m
              /\ job.m = disk[f].m =>
                   \/ job.at = "send" /\ job.c = disk[f].c
                   \/ job.at = "read" /\ disk[f].c \notin Link
                   \/ job.at = "readlink" /\ disk[f].c \in Link
         /\ job.at = "send" /\ job.c = Gone => Listed(f) /\ job.m = 0

\* A live object with the time of the file has the content of the file.
DriveOK ==
    \A f \in File : \A i \in DOMAIN drive[f] :
        /\ drive[f][i].c = Gone => drive[f][i].m = 0
        /\ Exists(f) /\ drive[f][i].m = disk[f].m => drive[f][i].c = disk[f].c

\* An entry of gs.files with an ID names an object, and one with the time of
\* the file is right about it.
CacheOK ==
    \A f \in File :
        /\ files[f].st # "none" /\ files[f].id # 0 => files[f].id \in DOMAIN drive[f]
        /\ files[f].st = "none" => files[f] = Blank
        /\ Exists(f) /\ Listed(f) /\ files[f].m = disk[f].m =>
              \E i \in DOMAIN drive[f] : drive[f][i].c = disk[f].c

\* What gs.files says of f is still what the listing said, or is nothing of a
\* file that is there and will be uploaded for that.
Fresh(f) == files[f] \in Listing(f) \/ (files[f] = Blank /\ ~NeedsTrashing(f))

\* The news of a later change of f will come in a later cycle.
Ahead(f) ==
    /\ Steady
    /\ \/ \E p \in Names(f) : Coming(p) \/ (phase = "wait" /\ p \in touched)
       \/ f \in wtodo
       \/ Exists(f) /\ wtodo \cap {Parent[f], Top} # {}

Excused(f) == missed[f] # "no"

\* When gs.files no longer says what is on Drive, Drive has what it should,
\* or the news is on its way.
StaleOK ==
    phase # "down" =>
        \A f \in File : Fresh(f) \/ InSync(f) \/ Ahead(f) \/ Excused(f)

\* The disk is still as the job found it, or the news is on its way.
JobMatches ==
    IF job.at = "send" /\ job.c = Gone THEN NeedsTrashing(job.f)
    ELSE Exists(job.f) /\ disk[job.f].m = job.m

JobStaleOK ==
    job.at # "idle" => JobMatches \/ Ahead(job.f) \/ Excused(job.f)

\* Until the main loop is entered, a file that is gone was trashed or is
\* accounted for.
BootOK ==
    ~Steady =>
        \A f \in File : ~Exists(f) => InSync(f) \/ Excused(f)

IInv == /\ TypeOK /\ DiskOK /\ TimesOK /\ MainOK /\ WatcherOK /\ JobOK
        /\ DriveOK /\ CacheOK /\ StaleOK /\ JobStaleOK /\ BootOK
        /\ NoLostChange
=============================================================================
