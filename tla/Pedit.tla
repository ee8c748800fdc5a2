-------------------------------- MODULE Pedit --------------------------------
(***************************************************************************)
(* pedit (pedit/pedit.go): encrypted files, each edited through one        *)
(* temporary file that all runs share, saved in place and copied away.     *)
(* A text is the set of the entries that sessions have added to it; the    *)
(* cipher is left out, but that a file cut off is not one any more.        *)
(***************************************************************************)
EXTENDS Integers, FiniteSets

CONSTANTS
    Proc,       \* runs of pedit, each in a terminal of its own
    File,       \* the files they are called with
    Copied,     \* those whose .backup names a destination
    MaxEdits    \* bound on the entries

Entry == 1..MaxEdits

Broken == {0}     \* part of a ciphertext, no set of entries
NoFile == {-1}    \* no file

ASSUME PeditAssumption == MaxEdits \in Nat /\ Copied \subseteq File

VARIABLES
    file,     \* file -> its text, {} when it is empty, or Broken
    tmp,      \* /dev/shm/peditdata
    remote,   \* file -> its copy at a destination of scp
    pc,       \* run -> "idle", "password", "write", "vim", "read", "remove",
              \*        "save", "saving", "backup", "copying"
    on,       \* run -> its file, NoFile for none
    old, new, \* run -> the plaintext loaded, and what vim left
    buffer,   \* run -> the text in vim
    carry,    \* run -> what its scp has read
    entries,  \* the number of entries written
    crossed,  \* ghost: the runs that were in vim at the same time as another
    raced,    \* ghost: the runs whose copying meets a save or another copy of the file
    damaged,  \* ghost: the files where a save was cut off or wrote another's text over it
    unsent,   \* ghost: the files changed, or their copy spoilt, since the last copy
              \*        that went well and was not raced
    killed    \* ghost: a run was killed in vim, and none has been since

vars == <<file, tmp, remote, pc, on, old, new, buffer, carry, entries, crossed, raced, damaged, unsent, killed>>
local == <<on, old, new, buffer, carry>>
ghosts == <<crossed, raced, damaged, unsent, killed>>

Text == SUBSET Entry
InEdit == {p \in Proc : pc[p] \in {"vim", "read", "remove"}}

TypeOK ==
    /\ file \in [File -> Text \cup {Broken}] /\ remote \in [File -> Text \cup {Broken}]
    /\ tmp \in Text \cup {NoFile} /\ entries \in 0..MaxEdits
    /\ pc \in [Proc -> {"idle", "password", "write", "vim", "read", "remove", "save", "saving", "backup", "copying"}]
    /\ \A p \in Proc : pc[p] \in {"write", "vim", "read", "remove", "save", "saving"} => old[p] \in Text /\ new[p] \in Text

Init ==
    /\ file = [f \in File |-> {}] /\ remote = file
    /\ tmp = NoFile
    /\ pc = [p \in Proc |-> "idle"] /\ on = [p \in Proc |-> NoFile]
    /\ old = [p \in Proc |-> {}] /\ new = old /\ buffer = old /\ carry = old
    /\ entries = 0 /\ crossed = {} /\ raced = {} /\ damaged = {} /\ unsent = {} /\ killed = FALSE

Goto(p, s) == pc' = [pc EXCEPT ![p] = s]

\* What the runs ps had in memory is gone.
Forget(ps) ==
    /\ pc' = [p \in Proc |-> IF p \in ps THEN "idle" ELSE pc[p]]
    /\ on' = [p \in Proc |-> IF p \in ps THEN NoFile ELSE on[p]]
    /\ old' = [p \in Proc |-> IF p \in ps THEN {} ELSE old[p]]
    /\ new' = [p \in Proc |-> IF p \in ps THEN {} ELSE new[p]]
    /\ buffer' = [p \in Proc |-> IF p \in ps THEN {} ELSE buffer[p]]
    /\ carry' = [p \in Proc |-> IF p \in ps THEN {} ELSE carry[p]]
    /\ crossed' = crossed \ ps
    /\ raced' = raced \ ps

End(p) == Forget({p})

(***************************************************************************)
(* Load, Getpass and Decrypt, or with -b the backup only.                  *)
(***************************************************************************)
Load(p) ==
    /\ pc[p] = "idle"
    /\ \E f \in File :
         /\ on' = [on EXCEPT ![p] = f]
         /\ old' = [old EXCEPT ![p] = file[f]]
    /\ Goto(p, "password") \/ Goto(p, "backup")
    /\ UNCHANGED <<file, tmp, remote, new, buffer, carry, entries, ghosts>>

DecryptAnything(p) ==
    /\ pc[p] = "password" /\ UNCHANGED <<file, tmp, remote, entries, damaged, unsent, killed>>
    /\ Goto(p, "write") /\ UNCHANGED <<local, crossed, raced>>
\* The wrong password, ^C, or a file that does not decrypt: an error.  An
\* empty file is not decrypted.
Decrypt(p) ==
    /\ pc[p] = "password"
    /\ \/ old[p] # Broken /\ Goto(p, "write") /\ UNCHANGED <<local, crossed, raced>>
       \/ old[p] # {} /\ End(p)
    /\ UNCHANGED <<file, tmp, remote, entries, damaged, unsent, killed>>

(***************************************************************************)
(* Edit.                                                                   *)
(***************************************************************************)
WriteTmpfileEmpty(p) ==
    /\ pc[p] = "write" /\ tmp' = {} /\ buffer' = [buffer EXCEPT ![p] = {}]
    /\ Goto(p, "vim") /\ crossed' = IF InEdit = {} THEN crossed ELSE crossed \cup InEdit \cup {p}
    /\ UNCHANGED <<file, remote, on, old, new, carry, entries, raced, damaged, unsent, killed>>

WriteTmpfile(p) ==
    /\ pc[p] = "write"
    /\ tmp' = old[p]
    /\ Goto(p, "vim") /\ buffer' = [buffer EXCEPT ![p] = old[p]]
    /\ crossed' = IF InEdit = {} THEN crossed ELSE crossed \cup InEdit \cup {p}
    /\ UNCHANGED <<file, remote, on, old, new, carry, entries, raced, damaged, unsent, killed>>

\* vim reads the file when it starts, which another run may have done
\* something to by then.
VimReads(p) ==
    /\ pc[p] = "vim" /\ p \in crossed /\ buffer[p] = old[p] /\ tmp # NoFile /\ buffer[p] # tmp
    /\ buffer' = [buffer EXCEPT ![p] = tmp]
    /\ UNCHANGED <<file, tmp, remote, pc, on, old, new, carry, entries, ghosts>>

VimWrites(p) ==
    /\ pc[p] = "vim" /\ entries < MaxEdits
    /\ entries' = entries + 1
    /\ buffer' = [buffer EXCEPT ![p] = @ \cup {entries + 1}]
    /\ tmp' = buffer'[p]
    /\ Goto(p, "read")
    /\ UNCHANGED <<file, remote, on, old, new, carry, ghosts>>

VimQuits(p) ==
    /\ pc[p] = "vim"
    /\ Goto(p, "read")
    /\ UNCHANGED <<file, tmp, remote, local, entries, ghosts>>

\* vim ends with an error (:cq).
VimFails(p) ==
    /\ pc[p] = "vim"
    /\ Goto(p, "remove") /\ new' = [new EXCEPT ![p] = old[p]]
    /\ UNCHANGED <<file, tmp, remote, on, old, buffer, carry, entries, ghosts>>

\* A file that is gone is an error, which ends the run as no change does.
ReadTmpfile(p) ==
    /\ pc[p] = "read"
    /\ new' = [new EXCEPT ![p] = IF tmp = NoFile THEN old[p] ELSE tmp]
    /\ Goto(p, "remove")
    /\ UNCHANGED <<file, tmp, remote, on, old, buffer, carry, entries, ghosts>>

RemoveTmpfileChanged(p) ==
    /\ pc[p] = "remove" /\ UNCHANGED <<file, remote, entries, damaged, unsent, killed>>
    /\ IF new[p] = old[p]
       THEN End(p) /\ UNCHANGED tmp
       ELSE tmp' = NoFile /\ Goto(p, "save") /\ UNCHANGED <<local, crossed, raced>>

\* Whatever came of it, the temporary file is removed.
RemoveTmpfile(p) ==
    /\ pc[p] = "remove"
    /\ tmp' = NoFile /\ killed' = FALSE
    /\ \/ new[p] = old[p] /\ End(p)
       \/ /\ new[p] # old[p]
          /\ Goto(p, "save") /\ buffer' = [buffer EXCEPT ![p] = {}]
          /\ UNCHANGED <<on, old, new, carry, crossed, raced>>
    /\ UNCHANGED <<file, remote, entries, damaged, unsent>>

(***************************************************************************)
(* Save: WriteFile empties the file first.                                 *)
(***************************************************************************)
\* The text of a file, which is the new one from the truncation on.
Savers(f) == {p \in Proc : pc[p] = "saving" /\ on[p] = f}
Copiers(f) == {p \in Proc : pc[p] = "copying" /\ on[p] = f}
Shown(f) == IF Savers(f) # {} THEN new[CHOOSE p \in Savers(f) : TRUE] ELSE file[f]

\* What p loaded is not what it writes over, or not what it gave to vim.
LostUpdate(p) == p \in crossed \/ Savers(on[p]) # {} \/ file[on[p]] # old[p]

Truncate(p) ==
    /\ pc[p] = "save"
    /\ file' = [file EXCEPT ![on[p]] = {}]
    /\ damaged' = IF LostUpdate(p) THEN damaged \cup {on[p]} ELSE damaged
    /\ unsent' = unsent \cup {on[p]}
    /\ raced' = raced \cup Copiers(on[p])
    /\ Goto(p, "saving")
    /\ UNCHANGED <<tmp, remote, local, entries, crossed, killed>>

Save(p) ==
    /\ pc[p] = "saving"
    /\ file' = [file EXCEPT ![on[p]] = new[p]]
    /\ new' = [new EXCEPT ![p] = {}]
    /\ Goto(p, "backup")
    /\ UNCHANGED <<tmp, remote, on, old, buffer, carry, entries, ghosts>>

(***************************************************************************)
(* Backup: scp reads the file, and some time later the copy is written.    *)
(***************************************************************************)
ScpReadsLoaded(p) ==
    /\ pc[p] = "backup" /\ on[p] \in Copied /\ Goto(p, "copying")
    /\ carry' = [carry EXCEPT ![p] = old[p]]
    /\ raced' = raced \cup (IF Savers(on[p]) \cup Copiers(on[p]) = {} THEN {} ELSE Copiers(on[p]) \cup {p})
    /\ UNCHANGED <<file, tmp, remote, on, old, new, buffer, entries, crossed, damaged, unsent, killed>>

\* While the file is being saved this is nothing, or a part.
ScpReads(p) ==
    LET f == on[p] IN
    /\ pc[p] = "backup" /\ f \in Copied
    /\ \E t \in {file[f]} \cup (IF Savers(f) = {} THEN {} ELSE {Broken}) : carry' = [carry EXCEPT ![p] = t]
    /\ raced' = raced \cup (IF Savers(f) \cup Copiers(f) = {} THEN {} ELSE Copiers(f) \cup {p})
    /\ Goto(p, "copying")
    /\ UNCHANGED <<file, tmp, remote, on, old, new, buffer, entries, crossed, damaged, unsent, killed>>

ScpWrites(p) ==
    /\ pc[p] = "copying"
    /\ remote' = [remote EXCEPT ![on[p]] = carry[p]]
    /\ unsent' = IF p \in raced THEN unsent ELSE unsent \ {on[p]}
    /\ End(p)
    /\ UNCHANGED <<file, tmp, entries, damaged, killed>>

\* The copies at fs are cut off.
Spoil(fs) ==
    /\ remote' = [f \in File |-> IF f \in fs THEN Broken ELSE remote[f]]
    /\ unsent' = unsent \cup fs

\* There is no destination, or scp fails at the start or on its way: the run
\* ends all the same.
ScpFails(p) ==
    /\ pc[p] \in {"backup", "copying"}
    /\ Spoil({}) \/ (pc[p] = "copying" /\ Spoil({on[p]}))
    /\ End(p)
    /\ UNCHANGED <<file, tmp, entries, damaged, killed>>

(***************************************************************************)
(* A terminal is closed, and its run with it; or the machine goes down,    *)
(* and /dev/shm with it.  What is being written stays in parts.            *)
(***************************************************************************)
Cut(ps) ==
    LET torn == {on[p] : p \in {q \in ps : pc[q] = "saving"}}
        sent == {on[p] : p \in {q \in ps : pc[q] = "copying"}} IN
    /\ \E t \in [torn -> {{}, Broken}] : file' = [f \in File |-> IF f \in torn THEN t[f] ELSE file[f]]
    /\ damaged' = damaged \cup torn
    /\ \E fs \in SUBSET sent : Spoil(fs)
    /\ Forget(ps)
    /\ UNCHANGED entries

Kill(p) ==
    /\ pc[p] # "idle"
    /\ Cut({p})
    /\ killed' = (killed \/ p \in InEdit)
    /\ UNCHANGED tmp

Reboot ==
    /\ Cut(Proc)
    /\ tmp' = NoFile /\ killed' = FALSE

Step(p) ==
    \/ Load(p) \/ Decrypt(p) \/ WriteTmpfile(p) \/ VimReads(p) \/ VimWrites(p) \/ VimQuits(p)
    \/ VimFails(p) \/ ReadTmpfile(p) \/ RemoveTmpfile(p) \/ Truncate(p) \/ Save(p)
    \/ ScpReads(p) \/ ScpWrites(p) \/ ScpFails(p)

Next == Reboot \/ \E p \in Proc : Step(p) \/ Kill(p)

Spec == Init /\ [][Next]_vars

-----------------------------------------------------------------------------
(***************************************************************************)
(* Properties.                                                             *)
(***************************************************************************)
\* A session adds its entry to its file at once and loses none
\* (pedit.go:132-191), whatever is killed, as long as no save is cut off, no
\* other run is in vim at the same time, and none saves the same file between
\* load and save.
N == INSTANCE Notebook WITH text <- [f \in File |-> Shown(f)]
ImplementsNotebook == N!Spec

\* No plaintext is left in /dev/shm (pedit.go:137) when no one is in vim, but
\* by a run that was killed there, until the next one ends.
NoPlaintextLeft == InEdit = {} /\ ~killed => tmp = NoFile

\* A copy (pedit.go:193-213) that went well and on its way met no save and no
\* other copy of its file is the file, until the next save, whatever is saved,
\* copied or cut off besides.  Copies that do meet each other end in any order.
BackedUp == \A f \in File \ unsent : remote[f] = file[f]

=============================================================================
