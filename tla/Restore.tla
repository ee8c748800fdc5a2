------------------------------- MODULE Restore -------------------------------
(***************************************************************************)
(* gdsnap save, restore, diff and cat (gdsnap/gdsnap.go): a tree, the      *)
(* revisions Drive keeps of its files, and the subcommands that carry      *)
(* contents from one to the other, one file at a time.                     *)
(***************************************************************************)
EXTENDS Globs, FiniteSets

CONSTANTS
    Name,        \* relative paths, sequences of characters; some are below others
    NameOrder,   \* Name in the order of sort.Strings
    Content,     \* contents of files and targets of links
    DirLink,     \* the targets that are directories, all of them outside the tree
    Globs,       \* the arguments restore is called with
    Cwd,         \* the working directories it is called from
    Faults,      \* of "dies" (no answer, an interrupt) and "refused" (an HTTP error)
    ErrorPage,   \* the body of an HTTP error
    MaxRevs,     \* how many revisions Drive keeps of a file (100)
    MaxClock     \* bound on the clock: changes of the tree and restores

ASSUME RestoreAssumption ==
    /\ NameOrder \in Seq(Name) /\ Range(NameOrder) = Name
    /\ \A i, j \in DOMAIN NameOrder : NameOrder[i] = NameOrder[j] => i = j
    /\ Name \subseteq Seq(STRING) /\ Globs \subseteq Seq(STRING) /\ Cwd \subseteq Seq(STRING)
    /\ \A i, j \in DOMAIN NameOrder :    \* what sort.Strings does with prefixes
         IsStrictPrefix(NameOrder[i], NameOrder[j]) => i < j
    /\ DirLink \subseteq Content /\ ErrorPage \notin Content
    /\ Faults \subseteq {"dies", "refused"}
    /\ MaxRevs \in Nat \ {0} /\ MaxClock \in Nat \ {0}

VARIABLES
    disk,     \* path -> what is there
    rev,      \* path -> its revisions on Drive, oldest first; <<>> is not there
    now,      \* the clock; a change of the tree bears the time it was made at
    past,     \* ghost: the tree at the end of each earlier tick
    kept,     \* ghost: path -> the times of the versions that savepath has handled
              \* and that Drive has kept since
    backdated,\* ghost: the paths where a file was given a time other than the clock's
    phase,    \* of the restore: "idle", "remove", "fetch", "done"
    request,  \* its arguments, working directory, the time of -t, and the paths that
              \* filterfiles picked from the answer to its listing
    todo,     \* those it has yet to visit
    spoilt,   \* ghost: those for which it took an error for an answer
    astray    \* ghost: the paths that a restore has followed out of the tree, through
              \* a link above them

vars == <<disk, rev, now, past, kept, backdated, phase, request, todo, spoilt, astray>>
treevars == <<disk, now, past>>

None == [kind |-> "none", content |-> ErrorPage, time |-> 0]
ADir == [None EXCEPT !.kind = "dir"]
Deleted == None
Kinds == {"file", "link"}
NoTime == MaxClock + 1      \* -t is not given: the head revision
NoRequest == [args |-> {}, cwd |-> <<>>, t |-> NoTime, files |-> {}]

Above(n) == {m \in Name : IsStrictPrefix(m \o <<Slash>>, n)}
Beneath(n) == {m \in Name : n \in Above(m)}
Exists(n) == disk[n].kind # "none"

Node == [kind : {"none", "dir"} \cup Kinds, content : Content \cup {ErrorPage}, time : 0..MaxClock]

TypeOK ==
    /\ disk \in [Name -> Node]
    /\ \A n \in Name : \A i \in DOMAIN rev[n] : rev[n][i] \in Node
    /\ now \in 1..MaxClock
    /\ phase \in {"idle", "remove", "fetch", "done"}
    /\ \A n \in todo : rev[n] # <<>>
    /\ spoilt \cup astray \subseteq Name

Init ==
    /\ disk = [n \in Name |-> None] /\ rev = [n \in Name |-> <<>>]
    /\ now = 1 /\ past = <<>> /\ backdated = {}
    /\ kept = [n \in Name |-> {}]
    /\ phase = "idle" /\ request = NoRequest /\ todo = {} /\ spoilt = {} /\ astray = {}

-----------------------------------------------------------------------------
(***************************************************************************)
(* The tree.                                                               *)
(***************************************************************************)
\* No restore runs any more, and what it had in memory is gone.
NoRestore == phase' = "idle" /\ request' = NoRequest /\ todo' = {} /\ spoilt' = {} /\ astray' = {}

Tick == now < MaxClock /\ now' = now + 1 /\ past' = Append(past, disk)

Reachable(d, n) == \A m \in Above(n) : d[m].kind \in {"none", "dir"}

\* The kernel follows a link above a path; what it finds is not in the tree.
LeadsOut(d, n) == \E m \in Above(n) : d[m].kind = "link" /\ d[m].content \in DirLink

\* d with n at path p, directories above it and nothing below.
Put(d, p, n) ==
    [m \in Name |-> CASE m = p           -> n
                      [] m \in Above(p)   -> ADir
                      [] m \in Beneath(p) -> None
                      [] OTHER            -> d[m]]

\* The user puts a file or a link in the place of what is there, which bears
\* the time of the clock or, moved, copied or touched, an earlier one, be it that
\* of what is there; or removes a path with all below it.
Change(n) ==
    /\ phase \in {"idle", "done"} /\ Tick
    /\ \/ \E k \in Kinds, c \in Content, time \in 1..now + 1 :
            /\ disk' = Put(disk, n, [kind |-> k, content |-> c, time |-> time])
            /\ backdated' = IF time <= now THEN backdated \cup {n} ELSE backdated
       \/ /\ Exists(n)
          /\ disk' = [m \in Name |-> IF m = n \/ m \in Beneath(n) THEN None ELSE disk[m]]
          /\ UNCHANGED backdated
    /\ NoRestore
    /\ UNCHANGED <<rev, kept>>

-----------------------------------------------------------------------------
(***************************************************************************)
(* save: savepath of one path, of what lies below a directory, or of what  *)
(* Drive has below a path that is gone (as in Gdsnap, in one step: nobody  *)
(* else acts).  A trashed file has a head of kind none; its time is given  *)
(* by Drive.                                                               *)
(***************************************************************************)
Stored(n) == rev[n] # <<>>
HeadOf(n) == Last(rev[n])
Trashed(n) == HeadOf(n).kind = "none"

UnchangedText(n) ==
    Stored(n) /\ ~Trashed(n) /\ (HeadOf(n).time = disk[n].time \/ HeadOf(n).content = disk[n].content)
Unchanged(n) ==
    /\ Stored(n) /\ ~Trashed(n)
    /\ \/ HeadOf(n).time = disk[n].time
       \/ disk[n].kind = "file" /\ HeadOf(n).kind = "file" /\ HeadOf(n).content = disk[n].content

Archived(n) ==
    IF ~Exists(n)
    THEN IF Stored(n) /\ ~Trashed(n) THEN Append(rev[n], [Deleted EXCEPT !.time = now]) ELSE rev[n]
    ELSE IF Unchanged(n) THEN rev[n] ELSE Append(rev[n], disk[n])

SaveTargets(n) ==
    IF disk[n].kind = "dir" THEN {m \in Beneath(n) : disk[m].kind \in Kinds}
    ELSE IF ~Exists(n) /\ (~Stored(n) \/ Trashed(n)) THEN {m \in Beneath(n) : Stored(m)}
    ELSE {n}

Save(n) ==
    /\ phase \in {"idle", "done"} /\ ~LeadsOut(disk, n)
    /\ rev' = [m \in Name |-> IF m \in SaveTargets(n) THEN Archived(m) ELSE rev[m]]
    /\ kept' = [m \in Name |-> IF m \in SaveTargets(n) THEN kept[m] \cup {disk[m].time} ELSE kept[m]]
    /\ NoRestore
    /\ UNCHANGED <<treevars, backdated>>

\* Drive drops the oldest of more than MaxRevs revisions, and a file that is in
\* the trash, with all its revisions (gdsnap.go:94-99).
Forget(n) ==
    /\ phase \in {"idle", "done"}
    /\ \/ /\ Len(rev[n]) > MaxRevs
          /\ rev' = [rev EXCEPT ![n] = Tail(rev[n])]
          /\ kept' = [kept EXCEPT ![n] = {time \in kept[n] : rev[n][2].time <= time}]
       \/ /\ Stored(n) /\ Trashed(n)
          /\ rev' = [rev EXCEPT ![n] = <<>>]
          /\ kept' = [kept EXCEPT ![n] = {}]
    /\ NoRestore
    /\ UNCHANGED <<treevars, backdated>>

-----------------------------------------------------------------------------
(***************************************************************************)
(* revfetch: the head if it is old enough, else the latest revision that   *)
(* is, the first of equals, else a deleted file.                           *)
(***************************************************************************)
IsHead(n, t) == HeadOf(n).time <= t

RevAtFirst(n, t) ==
    LET old == {i \in DOMAIN rev[n] : rev[n][i].time <= t}
    IN  IF old = {} THEN Deleted ELSE rev[n][CHOOSE i \in old : \A j \in old : i <= j]

RevAt(n, t) ==
    LET old == {i \in DOMAIN rev[n] : rev[n][i].time <= t}
        latest == {i \in old : \A j \in old : rev[n][j].time <= rev[n][i].time}
    IN  IF IsHead(n, t) THEN HeadOf(n)
        ELSE IF old = {} THEN Deleted
        ELSE rev[n][CHOOSE i \in latest : \A j \in latest : i <= j]

\* What revfetch may return.  The status of an answer is not looked at: an
\* error page is taken for a content (decrypt returns it as it is), and in
\* the place of the list of revisions for an empty list.
Fetched(n, t) ==
    {RevAt(n, t)} \cup
    IF "refused" \notin Faults THEN {}
    ELSE {[RevAt(n, t) EXCEPT !.content = ErrorPage]} \cup IF IsHead(n, t) THEN {} ELSE {Deleted}

-----------------------------------------------------------------------------
(***************************************************************************)
(* restore.                                                                *)
(***************************************************************************)
Listed == {n \in Name : Stored(n)}

\* What listfiles may take from the answer: an error in the place of a page has
\* no files and names no next page, so that the list ends there.
Answers == IF "refused" \in Faults THEN SUBSET Listed ELSE {Listed}

\* The files are visited in the order they are listed in.
First(names) ==
    NameOrder[CHOOSE i \in DOMAIN NameOrder :
                  NameOrder[i] \in names /\ \A j \in 1..i - 1 : NameOrder[j] \notin names]

\* The command is given, the first time or again.
StartRestore ==
    /\ phase \in {"idle", "done"} /\ Tick
    /\ \E g \in Globs, c \in Cwd, t \in 1..now \cup {NoTime}, ls \in Answers :
         /\ request' = [args |-> {g}, cwd |-> c, t |-> t, files |-> FilterFiles(ls, c, {g})]
         /\ todo' = FilterFiles(ls, c, {g})
    /\ spoilt' = {} /\ astray' = {}
    /\ phase' = "remove"
    /\ UNCHANGED <<disk, rev, kept, backdated>>

RemoveNothing ==
    /\ phase = "remove" /\ todo # {}
    /\ LET n == First(todo) IN
         disk' = IF Reachable(disk, n) THEN [m \in Name |-> IF m \in Above(n) THEN ADir ELSE disk[m]] ELSE disk
    /\ phase' = "fetch"
    /\ UNCHANGED <<rev, now, past, kept, backdated, request, todo, spoilt, astray>>

Astray(n) == IF LeadsOut(disk, n) THEN astray \cup {n} ELSE astray

\* os.Remove, which leaves a directory that is not empty, and MkdirAll, which
\* does not get past a file; neither result is looked at, and a link above to a
\* directory takes both there.
RemoveOld ==
    /\ phase = "remove" /\ todo # {}
    /\ LET n    == First(todo)
           gone == IF \E m \in Beneath(n) : Exists(m) THEN disk ELSE [disk EXCEPT ![n] = None]
       IN  /\ disk' = IF Reachable(gone, n)
                      THEN [m \in Name |-> IF m \in Above(n) THEN ADir ELSE gone[m]]
                      ELSE gone
           /\ astray' = Astray(n)
    /\ phase' = "fetch"
    /\ UNCHANGED <<rev, now, past, kept, backdated, request, todo, spoilt>>

WriteNew ==
    /\ phase = "fetch"
    /\ LET n == First(todo)
           writable == Reachable(disk, n) /\ disk[n].kind # "dir"
       IN  /\ \E r \in Fetched(n, request.t) :
                /\ disk' = IF r.kind \in Kinds /\ writable THEN [disk EXCEPT ![n] = [r EXCEPT !.time = now]] ELSE disk
                /\ spoilt' = IF r # RevAt(n, request.t) THEN spoilt \cup {n} ELSE spoilt
           /\ astray' = Astray(n)
    /\ todo' = todo \ {First(todo)}
    /\ phase' = "remove"
    /\ UNCHANGED <<rev, now, past, kept, backdated, request>>

RestoreDone ==
    /\ phase = "remove" /\ todo = {}
    /\ phase' = "done"
    /\ UNCHANGED <<treevars, rev, kept, backdated, request, todo, spoilt, astray>>

\* The network fails (log.Fatal), or the user interrupts.
Dies ==
    /\ "dies" \in Faults /\ phase = "fetch"
    /\ NoRestore
    /\ UNCHANGED <<treevars, rev, kept, backdated>>

RestoreStep == RemoveOld \/ WriteNew \/ RestoreDone

Next ==
    \/ \E n \in Name : Change(n) \/ Save(n) \/ Forget(n)
    \/ StartRestore \/ RestoreStep \/ Dies

Spec == Init /\ [][Next]_vars

-----------------------------------------------------------------------------
(***************************************************************************)
(* diff: what it says of a path for which revfetch has returned r.         *)
(***************************************************************************)
DiffSaysHead(n, r) ==
    IF ~Exists(n) THEN "unstatable"
    ELSE IF disk[n].time = HeadOf(n).time \/ disk[n].content = r.content THEN "nothing" ELSE "text"

DiffSays(n, r) ==
    LET d == disk[n]
    IN  IF ~Exists(n) THEN IF r.kind = "none" THEN "nothing" ELSE "unstatable"
        ELSE IF r.kind = "none" THEN "trashed"
        ELSE IF d.time = r.time THEN "nothing"
        ELSE IF d.kind = "dir" THEN "irregular"
        ELSE IF d.kind # r.kind THEN "type"
        ELSE IF d.content = r.content THEN "nothing" ELSE "text"

-----------------------------------------------------------------------------
(***************************************************************************)
(* Properties.                                                             *)
(***************************************************************************)
Same(d, r) == d.kind = r.kind /\ (d.kind \in Kinds => d.content = r.content)

\* -t (gdsnap.go:136) gives back what was there, as far as Drive keeps it: a
\* version that was there at the end of tick t and that savepath has handled, at
\* once or later, is the one revfetch picks for t, whatever was saved, skipped as
\* equal, deleted and saved since, unless Drive has dropped the revision that
\* stood for it. (What is older than all that Drive keeps is taken for a deleted
\* file.) The exception is a path where a file was given another time than the
\* clock's: a head that bears an old time is taken for what was there ever since.
PointInTime ==
    \A n \in Name \ backdated, t \in DOMAIN past :
        LET was == past[t][n] IN
        was.kind \in Kinds /\ was.time \in kept[n] => Same(RevAt(n, t), was)

\* What a restore that got through leaves (gdsnap.go:1069-1104), the first or
\* one after others that died: each path that its listing has and its globs match
\* is as its revision says. It is not when another path in its way is left: a file
\* or a link above it that is live in the archive too or not in the list, or a
\* directory that was not empty, which is removed only after its turn; nor when
\* the answer for it was an error. A path that the answer to the listing leaves
\* out, which may be all when that is an error, is left as it was without a word.
Wanted(n) == RevAt(n, request.t)
InList(n) == n \in request.files
Before == past[now - 1]
Obstructed(n) ==
    \/ \E m \in Above(n) : IF InList(m) THEN Wanted(m).kind # "none" ELSE Before[m].kind \in Kinds
    \/ \E m \in Beneath(n) : Before[m].kind # "none" \/ (InList(m) /\ Wanted(m).kind # "none")
RestoreExact ==
    phase = "done" =>
        /\ \A n \in request.files : n \notin spoilt /\ ~Obstructed(n) =>
               Same(disk[n], Wanted(n)) \/ (Wanted(n).kind = "none" /\ disk[n].kind = "dir")
        /\ \A n \in Name \ request.files : disk[n] = Before[n] \/ disk[n] = ADir

\* A restore touches nothing that its globs do not mean (gdsnap.go:170-172),
\* but for the directories above what it restores; it is out of the tree only
\* for a path that they mean and that has a link to a directory above it.
IsMeant(n) == Stored(n) /\ \E g \in request.args : Means(FullGlob(request.cwd, g), n)
OnlyWhatIsMeant ==
    [][RestoreStep =>
        /\ \A n \in Name : disk'[n] = disk[n] \/ IsMeant(n) \/ (disk[n].kind = "none" /\ disk'[n].kind = "dir")
        /\ \A n \in astray' \ astray : IsMeant(n) /\ LeadsOut(disk, n)]_vars

\* diff is silent only about paths that are as the revision says
\* (gdsnap.go:1001-1065), although it compares times first. It is wrongly silent
\* when a file was given the time of the revision; when the answer is an error, and
\* the path is gone or holds just this error, from a restore; when a link above
\* shows it another file; and it knows of no path that its listing leaves out.
SilentMeansSame ==
    \A n \in Listed, t \in 1..now \cup {NoTime} : \A r \in Fetched(n, t) :
        DiffSays(n, r) = "nothing" /\ ~LeadsOut(disk, n) =>
            \/ Same(disk[n], RevAt(n, t))
            \/ n \in backdated /\ disk[n].time = RevAt(n, t).time
            \/ r # RevAt(n, t) /\ (Exists(n) => disk[n].content = ErrorPage)

\* After a save and until the tree changes, a restore without -t gives the
\* same tree back (gdsnap.go:44-48): the head revision of every path handled is
\* what is there.
SavedIsHead ==
    TypeOK /\ \A n \in Name : Exists(n) /\ disk[n].kind \in Kinds /\ disk[n].time \in kept[n] /\ n \notin backdated =>
        Stored(n) /\ Same(RevAt(n, NoTime), disk[n])

\* "* matches everything except /, ** matches / too" (gdsnap.go:172): restore
\* visits every path of the archive that its globs mean.
AllThatIsMeant ==
    phase = "done" =>
        \A n \in Listed : (\E g \in request.args : Means(FullGlob(request.cwd, g), n)) => InList(n)
=============================================================================
