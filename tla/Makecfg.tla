------------------------------ MODULE Makecfg ------------------------------
(***************************************************************************)
(* makecfg/makecfg.go: it installs the repository into a home directory.   *)
(* A run goes through its sections in order and stops at the first error,  *)
(* at a prompt that is not answered with y, or when it is interrupted; it  *)
(* keeps no record of what it has done, and is run again.                  *)
(*                                                                         *)
(* A path is a name in ~/.bin or a dotfile of that name in the home        *)
(* directory; both go to the same trash.  Modification times are ticks of  *)
(* the user's clock: what the run writes within a tick is later than what  *)
(* the user wrote at its start.                                            *)
(***************************************************************************)
EXTENDS Integers, FiniteSets

CONSTANTS
    Name,       \* the names of utils, tools and dotfiles
    DotName,    \* those a dotfile may have
    NoName,
    Cpus,       \* runtime.NumCPU()
    MaxClock,   \* bound: how many things the user changes
    MaxStops    \* bound: how many runs end early

ASSUME SizesAssumption ==
    /\ NoName \notin Name /\ DotName \subseteq Name
    /\ Cpus \in Nat \ {0} /\ MaxClock \in Nat /\ MaxStops \in Nat

VARIABLES
    fs,         \* Path -> what stands there
    trash,      \* Name -> what ~/cfgtrash has under that name
    kind,       \* Name -> a ybb tool, a script, a source to compile, or none
    src,        \* Name -> when the source was saved
    dots,       \* DotName -> the versions of dotfiles/name and dotfiles/name.gen
    clock,      \* the last tick
    pc,         \* the section the run is in
    todo,       \* what the section has yet to visit
    hand,       \* the name moved out of the way, to be linked next
    jobs,       \* buildcmds
    building,   \* Name -> the version of the source a compiler has read
    ybb,        \* when the ybb binary was built
    stops,      \* how many runs have ended early
    raced,      \* ghost: the sources saved while they were being compiled
    since       \* ghost: what has been since the user's last change

repo  == <<kind, src, dots>>
home  == <<fs, trash>>
run   == <<pc, todo, hand, jobs, building, ybb>>
ghost == <<stops, raced, since>>
vars  == <<repo, home, clock, run, ghost>>

-----------------------------------------------------------------------------
(* The home directory.                                                     *)

Path == ({"bin"} \X Name) \cup ({"home"} \X DotName)
Bin(n) == <<"bin", n>>
Dot(n) == <<"home", n>>

\* A file is the user's own (m tells which), built or generated (ver tells
\* from what).  A link leads to the ybb binary, the util or the dotfile of
\* its name, to something else (away) or to nothing (dead).
Entry == [k : {"none", "file", "link"},
          v : {"none", "own", "built", "gen", "ybb", "util", "dot", "away", "dead"},
          ver : Int, m : Nat]
Nothing   == [k |-> "none", v |-> "none", ver |-> 0, m |-> 0]
LinkTo(v) == [k |-> "link", v |-> v, ver |-> 0, m |-> 0]

Kinds == {"none", "tool", "script", "source"}

\* exists: os.Stat follows a link.
Exists(p) ==
    \/ fs[p].k = "file"
    \/ fs[p].v \in {"ybb", "away"}
    \/ fs[p].v = "util" /\ kind[p[2]] = "script"
    \/ fs[p].v = "dot" /\ dots[p[2]].plain >= 0

Dangles(p) == fs[p].k = "link" /\ ~Exists(p)

\* What ReadFile returns of a dotfile; -1 is what no generator prints.
ReadDot(n) ==
    CASE fs[Dot(n)].v = "dot"           -> dots[n].plain
      [] fs[Dot(n)].v \in {"gen", "away"} -> fs[Dot(n)].ver
      [] OTHER                          -> -1

\* The modification time Stat returns of a binary.
ModTime(n) == IF fs[Bin(n)].v = "ybb" THEN ybb ELSE fs[Bin(n)].m

-----------------------------------------------------------------------------
(* The user, between two runs; a source may be saved during one.           *)

Resting == pc \in {"idle", "done"}

Change ==
    /\ clock < MaxClock
    /\ clock' = clock + 1
    /\ since' = "changed"
    /\ pc' = IF pc = "done" THEN "idle" ELSE pc

PullUtil(n, k) ==
    /\ Resting /\ Change
    /\ kind[n] # k
    /\ kind' = [kind EXCEPT ![n] = k]
    /\ src' = [src EXCEPT ![n] = clock + 1]
    /\ UNCHANGED <<dots, home, todo, hand, jobs, building, ybb, stops, raced>>

\* dotfiles/name and dotfiles/name.gen come, change or go; a file that a run
\* has written there is the user's to remove.
PullDot(n, g, p) ==
    /\ Resting /\ Change
    /\ dots' = [dots EXCEPT ![n] =
                  [gen   |-> IF g THEN clock + 1 ELSE 0,
                   plain |-> IF dots[n].plain > 0 THEN dots[n].plain ELSE p]]
    /\ UNCHANGED <<kind, src, home, todo, hand, jobs, building, ybb, stops, raced>>

Own == [k : {"file"}, v : {"own"}, ver : {-1}, m : {clock + 1}]
           \cup [k : {"link"}, v : {"away"}, ver : {-1}, m : {clock + 1}]
           \cup {LinkTo("dead")}

PutOwn(p, e) ==
    /\ Resting /\ Change
    /\ fs[p] = Nothing
    /\ fs' = [fs EXCEPT ![p] = e]
    /\ UNCHANGED <<repo, trash, todo, hand, jobs, building, ybb, stops, raced>>

Save(n) ==
    /\ Change
    /\ kind[n] = "source"
    /\ src' = [src EXCEPT ![n] = clock + 1]
    /\ raced' = IF building[n] > 0 THEN raced \cup {n} ELSE raced
    /\ UNCHANGED <<kind, dots, home, todo, hand, jobs, building, ybb, stops>>

User ==
    \/ \E n \in Name :
         \/ \E k \in Kinds : PullUtil(n, k)
         \/ Save(n)
    \/ \E n \in DotName, g \in BOOLEAN, p \in {-1, 0} : PullDot(n, g, p)
    \/ \E p \in Path, e \in Own : PutOwn(p, e)

-----------------------------------------------------------------------------
(* The sections that link: SetupYBB, LinkDotfiles, and BuildUtils for the  *)
(* utils without an extension.                                             *)

Place(n) == IF pc = "dots" THEN Dot(n) ELSE Bin(n)
Target   == CASE pc = "ybb" -> "ybb" [] pc = "dots" -> "dot" [] OTHER -> "util"

Linking(n) == \/ pc \in {"ybb", "dots"}
              \/ pc = "build" /\ kind[n] = "script"

\* Mutation: a link that is right is not told from others.
LinkedNever(n) == FALSE

\* Readlink returns the target already.
Linked(n) == fs[Place(n)].k = "link" /\ fs[Place(n)].v = Target

\* Mutation: what is in the way is removed.
DisplacedGone(p) ==
    IF Exists(p) THEN /\ fs' = [fs EXCEPT ![p] = Nothing]
                      /\ trash' = trash
    ELSE UNCHANGED home

\* Mutation: the test for what is in the way is the wrong way round.
DisplacedIfDangling(p) ==
    IF Dangles(p) THEN /\ fs' = [fs EXCEPT ![p] = Nothing]
                       /\ trash' = [trash EXCEPT ![p[2]] = fs[p]]
    ELSE UNCHANGED home

\* What is in the way goes to the trash, in the place of its namesake there.
Displaced(p) ==
    IF Exists(p) THEN /\ fs' = [fs EXCEPT ![p] = Nothing]
                      /\ trash' = [trash EXCEPT ![p[2]] = fs[p]]
    ELSE UNCHANGED home

VisitLink(n) ==
    /\ hand = NoName /\ n \in todo /\ Linking(n)
    /\ todo' = todo \ {n}
    /\ IF Linked(n) THEN hand' = NoName /\ UNCHANGED home
                    ELSE hand' = n /\ Displaced(Place(n))
    /\ UNCHANGED <<repo, clock, pc, jobs, building, ybb, ghost>>

Symlink ==
    /\ hand # NoName
    /\ fs[Place(hand)] = Nothing
    /\ fs' = [fs EXCEPT ![Place(hand)] = LinkTo(Target)]
    /\ hand' = NoName
    /\ UNCHANGED <<repo, trash, clock, pc, todo, jobs, building, ybb, ghost>>

\* The run is over and nothing of it is left but what it did to the files.
Ends(how) ==
    /\ pc' = how
    /\ todo' = {} /\ hand' = NoName /\ jobs' = {}
    /\ building' = [n \in Name |-> 0]

\* A link that dangles was not moved, and is in the way.
SymlinkFails ==
    /\ hand # NoName
    /\ fs[Place(hand)] # Nothing
    /\ Ends("idle")
    /\ since' = IF since = "running" THEN "changed" ELSE since
    /\ UNCHANGED <<repo, home, clock, ybb, stops, raced>>

-----------------------------------------------------------------------------
(* RegenDotfiles and ClearUtils.                                           *)

\* WriteFile follows a link, into the repository if it leads there; one that
\* exists is written to after a y.
RegenDot(n) ==
    /\ pc = "regen" /\ n \in todo
    /\ todo' = todo \ {n}
    /\ IF ReadDot(n) = dots[n].gen THEN UNCHANGED <<fs, dots>>
       ELSE CASE fs[Dot(n)].v = "dot" ->
                   /\ dots' = [dots EXCEPT ![n].plain = dots[n].gen]
                   /\ fs' = fs
              [] fs[Dot(n)].k = "link" /\ fs[Dot(n)].v # "dot" ->
                   /\ fs' = [fs EXCEPT ![Dot(n)] =
                               [k |-> "link", v |-> "away", ver |-> dots[n].gen, m |-> clock]]
                   /\ dots' = dots
              [] OTHER ->
                   /\ fs' = [fs EXCEPT ![Dot(n)] =
                               [k |-> "file", v |-> "gen", ver |-> dots[n].gen, m |-> clock]]
                   /\ dots' = dots
    /\ UNCHANGED <<kind, src, trash, clock, pc, hand, jobs, building, ybb, ghost>>

Unwanted == {n \in Name : kind[n] = "none" /\ fs[Bin(n)] # Nothing}

\* Rename does not care where a link leads.
TrashBin(n) ==
    /\ pc = "clear" /\ n \in todo
    /\ todo' = todo \ {n}
    /\ fs' = [fs EXCEPT ![Bin(n)] = Nothing]
    /\ trash' = [trash EXCEPT ![n] = fs[Bin(n)]]
    /\ UNCHANGED <<repo, clock, pc, hand, jobs, building, ybb, ghost>>

-----------------------------------------------------------------------------
(* BuildUtils: which sources need compiling, and the compilers.            *)

\* Mutation: any binary will do.
UpToDateIfThere(n) == Exists(Bin(n))

UpToDate(n) == Exists(Bin(n)) /\ ModTime(n) >= src[n]

VisitSource(n) ==
    /\ pc = "build" /\ hand = NoName
    /\ n \in todo /\ kind[n] = "source"
    /\ todo' = todo \ {n}
    /\ jobs' = IF UpToDate(n) THEN jobs ELSE jobs \cup {n}
    /\ UNCHANGED <<repo, home, clock, pc, hand, building, ybb, ghost>>

Busy == {n \in Name : building[n] > 0}

Compile(n) ==
    /\ pc = "compile" /\ n \in todo
    /\ Cardinality(Busy) < Cpus
    /\ todo' = todo \ {n}
    /\ building' = [building EXCEPT ![n] = src[n]]
    /\ raced' = raced \ {n}
    /\ UNCHANGED <<repo, home, clock, pc, hand, jobs, ybb, stops, since>>

\* The compiler replaces what stands at its output.
Compiled(n) ==
    /\ n \in Busy
    /\ fs' = [fs EXCEPT ![Bin(n)] =
                [k |-> "file", v |-> "built", ver |-> building[n], m |-> clock]]
    /\ building' = [building EXCEPT ![n] = 0]
    /\ UNCHANGED <<repo, trash, clock, pc, todo, hand, jobs, ybb, ghost>>

-----------------------------------------------------------------------------
(* The run.                                                                *)

Begin ==
    /\ Resting
    /\ pc' = "ybb"
    /\ ybb' = clock
    /\ todo' = {n \in Name : kind[n] = "tool"}
    /\ since' = IF since = "changed" THEN "running" ELSE since
    /\ UNCHANGED <<repo, home, clock, hand, jobs, building, stops, raced>>

\* The sections in the order of the workflow's fields.
After == [ybb |-> "dots", dots |-> "regen", regen |-> "clear",
          clear |-> "build", build |-> "compile", compile |-> "trash"]

Items == [dots    |-> {n \in DotName : dots[n].plain >= 0},
          regen   |-> {n \in DotName : dots[n].gen > 0},
          clear   |-> Unwanted,
          build   |-> {n \in Name : kind[n] \in {"script", "source"}},
          compile |-> jobs,
          trash   |-> {}]

NextSection ==
    /\ pc \in DOMAIN After
    /\ todo = {} /\ hand = NoName /\ Busy = {}
    /\ pc' = After[pc]
    /\ todo' = Items[After[pc]]
    /\ UNCHANGED <<repo, home, clock, hand, jobs, building, ybb, ghost>>

\* After a y, unless it is empty already.
ClearTrash ==
    /\ pc = "trash"
    /\ trash' = [n \in Name |-> Nothing]
    /\ Ends("done")
    /\ since' = IF since = "running" THEN "settled" ELSE since
    /\ UNCHANGED <<repo, fs, clock, ybb, stops, raced>>

\* A prompt is not answered with y, a compiler fails, the run is interrupted.
Stop ==
    /\ ~Resting
    /\ stops < MaxStops
    /\ stops' = stops + 1
    /\ Ends("idle")
    /\ since' = IF since = "running" THEN "changed" ELSE since
    /\ UNCHANGED <<repo, home, clock, ybb, raced>>

Run ==
    \/ Begin \/ NextSection \/ Symlink \/ SymlinkFails \/ ClearTrash
    \/ \E n \in Name : \/ VisitLink(n) \/ RegenDot(n) \/ TrashBin(n)
                       \/ VisitSource(n) \/ Compile(n) \/ Compiled(n)

-----------------------------------------------------------------------------

Init ==
    /\ fs = [p \in Path |-> Nothing]
    /\ trash = [n \in Name |-> Nothing]
    /\ kind \in [Name -> Kinds]
    /\ src = [n \in Name |-> 1]
    /\ dots \in [DotName -> [gen : {0, 1}, plain : {-1, 0}]]
    /\ clock = 1
    /\ pc = "idle" /\ todo = {} /\ hand = NoName /\ jobs = {}
    /\ building = [n \in Name |-> 0]
    /\ ybb = 0
    /\ stops = 0 /\ raced = {} /\ since = "changed"

Next == User \/ Run \/ Stop

Spec == Init /\ [][Next]_vars /\ WF_vars(Run)

-----------------------------------------------------------------------------
(* Properties.                                                             *)

\* Every variable keeps its type, and no more compilers run than there are
\* processors.
TypeOK ==
    /\ fs \in [Path -> Entry] /\ trash \in [Name -> Entry]
    /\ kind \in [Name -> Kinds]
    /\ src \in [Name -> Nat]
    /\ dots \in [DotName -> [gen : Nat, plain : Int]]
    /\ clock \in Nat /\ ybb \in Nat /\ stops \in 0..MaxStops
    /\ pc \in {"idle", "ybb", "dots", "regen", "clear", "build", "compile", "trash", "done"}
    /\ todo \subseteq Name /\ jobs \subseteq Name /\ raced \subseteq Name
    /\ hand \in Name \cup {NoName}
    /\ building \in [Name -> Nat] /\ Cardinality(Busy) <= Cpus
    /\ since \in {"changed", "running", "settled"}

\* The binary of n is not what the source says, and the run cannot tell: the
\* source was saved while it was being compiled, or what stands there is no
\* binary of it but is newer.
Fooled(n) == n \in raced \/ (fs[Bin(n)].v # "built" /\ ModTime(n) >= src[n])

\* When a run is through, everything is what the repository has, whatever
\* the runs before it left half-done and whatever was there of an earlier
\* repository; a source saved during the run is left to the next one.
Installed ==
    TypeOK /\ (pc = "done" => \A n \in Name :
        /\ kind[n] = "none"   => fs[Bin(n)] = Nothing
        /\ kind[n] = "tool"   => fs[Bin(n)] = LinkTo("ybb")
        /\ kind[n] = "script" => fs[Bin(n)] = LinkTo("util")
        /\ kind[n] = "source" => \/ fs[Bin(n)].v = "built" /\ fs[Bin(n)].ver = src[n]
                                 \/ since = "changed" /\ ModTime(n) < src[n]
                                 \/ Fooled(n)
        /\ n \in DotName =>
             /\ dots[n].plain >= 0 => fs[Dot(n)] = LinkTo("dot")
             /\ dots[n].gen > 0    => ReadDot(n) = dots[n].gen)

Mine(e, t) == e.v = "own" /\ e.m = t
Have(t) == (\E p \in Path : Mine(fs[p], t)) \/ (\E n \in Name : Mine(trash[n], t))

\* A file of the user's own is destroyed by four steps only: the two that
\* ask, the one that trashes a namesake of it, and a compiler whose output
\* it stands in the way of, being older than the source.
OwnFilesKept ==
    [][\A t \in 1..clock : Have(t) =>
         \/ Have(t)'
         \/ pc = "trash"
         \/ pc = "regen" /\ \E n \in todo : Mine(fs[Dot(n)], t)
         \/ \E n \in Name : Mine(trash[n], t) /\ trash'[n] \notin {trash[n], Nothing}
         \/ \E n \in Busy : Mine(fs[Bin(n)], t) /\ t < building[n]]_vars

\* Once a run is through, further ones change nothing until the user does,
\* whether they get to their end or not.
SecondRunIdle ==
    [][since = "settled" /\ since' = "settled" => UNCHANGED <<home, dots>>]_vars

\* A link that dangles is where a link is to be made.
Stuck ==
    \/ \E n \in Name : kind[n] \in {"tool", "script"} /\ Dangles(Bin(n))
    \/ \E n \in DotName : dots[n].plain >= 0 /\ Dangles(Dot(n))

\* Wherever runs are cut off, one gets through in the end, unless a dangling
\* link is in its way.
Converges == []<>(pc = "done" \/ Stuck)
=============================================================================
