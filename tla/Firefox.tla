------------------------------- MODULE Firefox -------------------------------
(***************************************************************************)
(* The wrapper around firefox (utils/firefox.go): the profile lives in     *)
(* memory while firefox runs, and is synced from and to the disk by rsync, *)
(* file by file.  A profile is a version that firefox has made, good when  *)
(* all its files are of one moment.                                        *)
(***************************************************************************)
EXTENDS Integers, FiniteSets

CONSTANTS
    Wrapper,      \* runs of the wrapper
    Faults,       \* of "kill" (of a wrapper), "reboot", "rsync" (it fails)
    MaxVersion    \* bound on what firefox writes

ASSUME FirefoxAssumption == MaxVersion \in Nat /\ Faults \subseteq {"kill", "reboot", "rsync"}

VARIABLES
    disk, mem,  \* the profile there
    pc,         \* wrapper -> "off", "lock", "tomem", "loading", "select", "kill", "todisk", "saving"
    started,    \* wrapper -> its goroutine has started firefox
    done,       \* wrapper -> the loop ends after this sync
    left,       \* killed wrappers whose rsync goes on
    firefox,    \* the wrappers whose firefox runs
    source,     \* wrapper -> what rsync found when it began
    hurt,       \* ghost: what is in memory has not been synced by the end of a run
    bad         \* ghost: it left no good copy on the disk

vars == <<disk, mem, pc, started, done, left, firefox, source, hurt, bad>>

None == [v |-> -1, good |-> FALSE]
Profile == [v : 0..MaxVersion, good : BOOLEAN]
Torn(p) == [p EXCEPT !.good = FALSE]

\* The descriptor of the lock is inherited by rsync and firefox, for Open is
\* given no O_CLOEXEC: the lock is held as long as one of them is there.
LockedByWrapper == {w \in Wrapper : pc[w] \notin {"off", "lock"}}
Locked == LockedByWrapper \cup firefox

TypeOK ==
    /\ disk \in Profile /\ mem \in Profile \cup {None}
    /\ pc \in [Wrapper -> {"off", "lock", "tomem", "loading", "select", "kill", "todisk", "saving"}]
    /\ firefox \subseteq {w \in Wrapper : started[w]}
    /\ left \subseteq {w \in Wrapper : pc[w] \in {"loading", "saving"}}
    /\ mem = None => firefox = {} /\ \A w \in Wrapper : pc[w] = "off"

Init ==
    /\ disk = [v |-> 0, good |-> TRUE] /\ mem = None
    /\ pc = [w \in Wrapper |-> "off"]
    /\ started = [w \in Wrapper |-> FALSE] /\ done = started
    /\ firefox = {} /\ left = {} /\ source = [w \in Wrapper |-> None]
    /\ hurt = FALSE /\ bad = FALSE

Goto(w, s) == pc' = [pc EXCEPT ![w] = s]

(***************************************************************************)
(* Firefox itself.                                                         *)
(***************************************************************************)
FirefoxStarts(w) ==
    /\ pc[w] \in {"select", "todisk", "saving"} /\ ~started[w]
    /\ started' = [started EXCEPT ![w] = TRUE] /\ firefox' = firefox \cup {w}
    /\ UNCHANGED <<left, disk, mem, pc, done, source, hurt, bad>>

FirefoxWrites(w) ==
    /\ w \in firefox /\ mem.v < MaxVersion
    /\ mem' = [mem EXCEPT !.v = @ + 1]
    /\ UNCHANGED <<left, disk, pc, started, done, firefox, source, hurt, bad>>

\* It quits; when no wrapper is left, what it wrote is in memory only.
FirefoxQuits(w) ==
    /\ w \in firefox
    /\ firefox' = firefox \ {w}
    /\ UNCHANGED <<left, disk, mem, pc, started, done, source, hurt, bad>>

(***************************************************************************)
(* The wrapper.                                                            *)
(***************************************************************************)
StartNoMkdir(w) ==
    /\ pc[w] = "off" /\ w \notin firefox
    /\ started' = [started EXCEPT ![w] = FALSE] /\ done' = [done EXCEPT ![w] = FALSE]
    /\ Goto(w, "lock") /\ UNCHANGED <<left, disk, mem, firefox, source, hurt, bad>>
Start(w) ==
    /\ pc[w] = "off" /\ w \notin firefox
    /\ mem' = IF mem = None THEN [v |-> 0, good |-> FALSE] ELSE mem
    /\ hurt' = (hurt \/ mem = None)
    /\ started' = [started EXCEPT ![w] = FALSE] /\ done' = [done EXCEPT ![w] = FALSE]
    /\ Goto(w, "lock")
    /\ UNCHANGED <<left, disk, firefox, source, bad>>

Lock(w) ==
    /\ pc[w] = "lock"
    /\ Goto(w, IF Locked = {} THEN "tomem" ELSE "off")
    /\ UNCHANGED <<left, disk, mem, started, done, firefox, source, hurt, bad>>

LoadStart(w) ==
    /\ pc[w] = "tomem"
    /\ mem' = IF mem = disk THEN mem ELSE Torn(disk)
    /\ source' = [source EXCEPT ![w] = disk]
    /\ hurt' = TRUE
    /\ Goto(w, "loading")
    /\ UNCHANGED <<left, disk, started, done, firefox, bad>>

LoadEnd(w) ==
    /\ pc[w] = "loading"
    /\ mem' = source[w]
    /\ source' = [source EXCEPT ![w] = None]
    /\ Goto(w, IF w \in left THEN "off" ELSE "select")
    /\ left' = left \ {w}
    /\ UNCHANGED <<disk, started, done, firefox, hurt, bad>>

LoadFails(w) ==
    /\ "rsync" \in Faults /\ pc[w] = "loading"
    /\ source' = [source EXCEPT ![w] = None] /\ left' = left \ {w}
    /\ Goto(w, "off")
    /\ UNCHANGED <<disk, mem, started, done, firefox, hurt, bad>>

\* Four hours, the end of firefox, or a signal.  A signal before firefox has
\* been started finds no process to kill, and ends the wrapper there.
Timer(w) ==
    /\ pc[w] = "select" /\ Goto(w, "todisk")
    /\ UNCHANGED <<left, disk, mem, started, done, firefox, source, hurt, bad>>

FirefoxDoneGoesOn(w) ==
    /\ pc[w] = "select" /\ started[w] /\ w \notin firefox
    /\ Goto(w, "todisk")
    /\ UNCHANGED <<left, disk, mem, started, done, firefox, source, hurt, bad>>
FirefoxDone(w) ==
    /\ pc[w] = "select" /\ started[w] /\ w \notin firefox
    /\ done' = [done EXCEPT ![w] = TRUE]
    /\ Goto(w, "todisk")
    /\ UNCHANGED <<left, disk, mem, started, firefox, source, hurt, bad>>

Signal(w) ==
    /\ pc[w] = "select" /\ started[w]
    /\ Goto(w, "kill")
    /\ UNCHANGED <<left, disk, mem, started, done, firefox, source, hurt, bad>>

SignalEarly(w) ==
    /\ pc[w] = "select" /\ ~started[w]
    /\ Goto(w, "off")
    /\ started' = [started EXCEPT ![w] = TRUE] /\ firefox' \in {firefox, firefox \cup {w}}
    /\ bad' = ~disk.good
    /\ UNCHANGED <<left, disk, mem, done, source, hurt>>

KillFirefox(w) ==
    /\ pc[w] = "kill"
    /\ firefox' = firefox \ {w}
    /\ done' = [done EXCEPT ![w] = TRUE]
    /\ Goto(w, "todisk")
    /\ UNCHANGED <<left, disk, mem, started, source, hurt, bad>>

SaveStart(w) ==
    /\ pc[w] = "todisk"
    /\ source' = [source EXCEPT ![w] = mem]
    /\ disk' = IF disk = mem THEN disk ELSE Torn(disk)
    /\ Goto(w, "saving")
    /\ UNCHANGED <<left, mem, started, done, firefox, hurt, bad>>

\* What firefox writes meanwhile may be in the copy in part.
SaveEndIgnoringDone(w) ==
    /\ pc[w] = "saving"
    /\ disk' = IF mem = source[w] THEN mem ELSE Torn(mem)
    /\ source' = [source EXCEPT ![w] = None] /\ left' = left \ {w}
    /\ Goto(w, IF w \in left \/ w \notin firefox THEN "off" ELSE "select")
    /\ hurt' = (hurt /\ (w \in left \/ w \in firefox)) /\ bad' = ((bad \/ w \in left) /\ ~disk'.good)
    /\ UNCHANGED <<mem, started, done, firefox>>
SaveEnd(w) ==
    /\ pc[w] = "saving"
    /\ disk' = IF mem = source[w] THEN mem ELSE Torn(mem)
    /\ source' = [source EXCEPT ![w] = None] /\ left' = left \ {w}
    /\ Goto(w, IF w \in left \/ done[w] THEN "off" ELSE "select")
    /\ hurt' = (hurt /\ (w \in left \/ ~done[w])) /\ bad' = ((bad \/ w \in left) /\ ~disk'.good)
    /\ UNCHANGED <<mem, started, done, firefox>>

SaveFailsEnds(w) ==
    /\ "rsync" \in Faults /\ pc[w] = "saving"
    /\ source' = [source EXCEPT ![w] = None] /\ left' = left \ {w} /\ Goto(w, "off")
    /\ bad' = IF done[w] \/ w \in left THEN ~disk.good ELSE bad
    /\ UNCHANGED <<disk, mem, started, done, firefox, hurt>>
\* The error is logged only.
SaveFails(w) ==
    /\ "rsync" \in Faults /\ pc[w] = "saving"
    /\ source' = [source EXCEPT ![w] = None] /\ left' = left \ {w}
    /\ Goto(w, IF w \in left \/ done[w] THEN "off" ELSE "select")
    /\ bad' = IF done[w] \/ w \in left THEN ~disk.good ELSE bad
    /\ UNCHANGED <<disk, mem, started, done, firefox, hurt>>

(***************************************************************************)
(* Faults.  A wrapper that is killed leaves firefox running, and its rsync *)
(* unless that is killed too.                                              *)
(***************************************************************************)
Kill(w) ==
    /\ "kill" \in Faults /\ pc[w] \notin {"off", "lock"}
    /\ \/ Goto(w, "off") /\ source' = [source EXCEPT ![w] = None] /\ left' = left \ {w}
       \/ pc[w] \in {"loading", "saving"} /\ left' = left \cup {w} /\ UNCHANGED <<pc, source>>
    /\ started' = [started EXCEPT ![w] = TRUE]
    /\ bad' = (bad \/ ~disk.good)
    /\ UNCHANGED <<disk, mem, done, firefox, hurt>>

Reboot ==
    /\ "reboot" \in Faults
    /\ mem' = None /\ firefox' = {} /\ left' = {}
    /\ pc' = [w \in Wrapper |-> "off"] /\ source' = [w \in Wrapper |-> None]
    /\ bad' = ~disk.good
    /\ UNCHANGED <<disk, started, done, hurt>>

Saves(w) == SaveStart(w) \/ SaveEnd(w) \/ SaveFails(w)
Loads(w) == LoadStart(w) \/ LoadEnd(w) \/ LoadFails(w)
Runs(w) == Lock(w) \/ Loads(w) \/ FirefoxDone(w) \/ KillFirefox(w) \/ Saves(w)
Next ==
    \/ Reboot
    \/ \E w \in Wrapper :
         \/ Start(w) \/ Runs(w) \/ Timer(w) \/ Signal(w) \/ SignalEarly(w) \/ Kill(w)
         \/ FirefoxStarts(w) \/ FirefoxWrites(w) \/ FirefoxQuits(w)

\* The program runs; of the cases of a select that are ready each is taken in
\* the end.
Fairness == \A w \in Wrapper : WF_vars(Runs(w)) /\ SF_vars(FirefoxDone(w)) /\ WF_vars(FirefoxStarts(w))

Spec == Init /\ [][Next]_vars /\ Fairness

-----------------------------------------------------------------------------
(***************************************************************************)
(* Properties.                                                             *)
(***************************************************************************)
\* The profile in memory is not replaced while a firefox uses it
\* (firefox.go:48-63), also when its wrapper has been killed, and only one
\* wrapper is past the lock.
OneUser ==
    /\ \A w \in Wrapper : pc[w] \in {"tomem", "loading"} => firefox = {}
    /\ Cardinality(LockedByWrapper) <= 1

\* When no one uses the profile and the last run ended in a sync, the disk has
\* what firefox wrote last (firefox.go:91-99): what the periodic syncs mixed up
\* is made good.
CleanExit == LockedByWrapper \cup firefox = {} /\ ~hurt /\ mem # None => disk = mem

\* A good copy of the profile exists at any moment, on the disk or in memory,
\* also in the middle of a sync, unless a run ended before its sync while the
\* disk was not good: the next start then syncs that over what is in memory.
SomeGoodCopy == disk.good \/ mem.good \/ bad

\* After firefox has ended the wrapper ends.
WrapperEnds ==
    \A w \in Wrapper : (pc[w] = "select" /\ started[w] /\ w \notin firefox) ~> (pc[w] = "off")
=============================================================================
