----------------------------- MODULE PeditProofs -----------------------------
(***************************************************************************)
(* Proofs about Pedit, for any number of runs, files and entries: its      *)
(* three invariants, and that it implements Notebook.  The inductive       *)
(* invariant says what a session relies on without looking: that the       *)
(* temporary file is its own while no other run is in vim.                 *)
(***************************************************************************)
EXTENDS Pedit, TLAPS

Place == {"idle", "password", "write", "vim", "read", "remove", "save", "saving", "backup", "copying"}

Shape ==
    /\ file \in [File -> SUBSET Int] /\ remote \in [File -> SUBSET Int]
    /\ tmp \in SUBSET Int
    /\ pc \in [Proc -> Place] /\ on \in [Proc -> File \cup {NoFile}]
    /\ old \in [Proc -> SUBSET Int] /\ new \in [Proc -> SUBSET Int] /\ buffer \in [Proc -> SUBSET Int]
    /\ carry \in [Proc -> SUBSET Int] /\ raced \subseteq Proc
    /\ entries \in 0..MaxEdits
    /\ crossed \subseteq Proc /\ damaged \subseteq File /\ unsent \subseteq File /\ killed \in BOOLEAN
    /\ \A p \in Proc : pc[p] # "idle" => on[p] \in File

\* A text has entries that were written, and one that went past the password
\* is a text.
Written == SUBSET (1..entries)
TextsOK ==
    /\ \A f \in File : file[f] \in Written \cup {Broken} /\ remote[f] \in Written \cup {Broken}
    /\ tmp \in Written \cup {NoFile}
    /\ \A p \in Proc : /\ old[p] \in Written \cup {Broken}
                       /\ new[p] \in Written /\ buffer[p] \in Written
                       /\ carry[p] \in Written \cup {Broken}
                       /\ pc[p] \notin {"idle", "password", "backup", "copying"} => old[p] \in Written

\* A run that is not crossed is alone in vim, and what it has is what it
\* loaded, with at most one entry more.
Grown(a, b) == \E e \in Entry \ a : b = a \cup {e}
SessionOK ==
    /\ \A p, q \in InEdit : p # q => p \in crossed
    /\ \A p \in Proc \ crossed :
         /\ pc[p] = "vim"  => tmp = old[p] /\ buffer[p] = old[p]
         /\ pc[p] = "read" => tmp = old[p] \/ Grown(old[p], tmp)
         /\ pc[p] = "remove" => new[p] = old[p] \/ Grown(old[p], new[p])
         /\ pc[p] = "save" => Grown(old[p], new[p])

\* Two runs save one file at once only when it is damaged, and it has not been
\* copied since.
SavingOK ==
    \A p \in Proc : pc[p] = "saving" =>
        /\ on[p] \in unsent
        /\ \A q \in Savers(on[p]) : q = p \/ on[p] \in damaged

\* A copy that is not raced is alone on its way, and what scp has read is the
\* file; and so it is for every copy of a file that has not changed since.
CopyingOK ==
    \A p \in Proc : pc[p] = "copying" =>
        /\ p \notin raced => Copiers(on[p]) = {p} /\ Savers(on[p]) = {} /\ carry[p] = file[on[p]]
        /\ on[p] \notin unsent => carry[p] = file[on[p]]

PInv == Shape /\ TextsOK /\ SessionOK /\ SavingOK /\ CopyingOK /\ NoPlaintextLeft /\ BackedUp

-----------------------------------------------------------------------------
(* The lemmas.                                                             *)

USE PeditAssumption

\* The mark of no file has the type of a text.
LEMMA NoFileType == NoFile \in SUBSET Int
  BY DEF NoFile

\* The end of runs touches what they have in memory and nothing else.
LEMMA ForgetEffect ==
    ASSUME Shape, NEW ps \in SUBSET Proc, Forget(ps)
    PROVE  /\ pc' \in [Proc -> Place] /\ on' \in [Proc -> File \cup {NoFile}]
           /\ old' \in [Proc -> SUBSET Int] /\ new' \in [Proc -> SUBSET Int] /\ buffer' \in [Proc -> SUBSET Int]
           /\ carry' \in [Proc -> SUBSET Int]
           /\ crossed' = crossed \ ps /\ raced' = raced \ ps
           /\ \A p \in ps : pc'[p] = "idle" /\ old'[p] = {} /\ new'[p] = {} /\ buffer'[p] = {} /\ carry'[p] = {}
           /\ \A p \in Proc \ ps : /\ pc'[p] = pc[p] /\ on'[p] = on[p] /\ old'[p] = old[p]
                                   /\ new'[p] = new[p] /\ buffer'[p] = buffer[p] /\ carry'[p] = carry[p]
  BY DEF Shape, Forget, Place

\* A copy that is cut off is Broken, and not counted as sent.
LEMMA SpoilEffect ==
    ASSUME Shape, NEW fs \in SUBSET File, Spoil(fs)
    PROVE  /\ remote' \in [File -> SUBSET Int]
           /\ \A f \in File : remote'[f] \in {remote[f], Broken}
           /\ unsent \subseteq unsent' /\ unsent' \subseteq File
           /\ \A f \in File \ unsent' : remote'[f] = remote[f]
  BY DEF Shape, Spoil, Broken

\* What was being saved when runs are cut off is torn and damaged.
LEMMA CutEffect ==
    ASSUME Shape, NEW ps \in SUBSET Proc, Cut(ps)
    PROVE  /\ file' \in [File -> SUBSET Int]
           /\ \A f \in File : file'[f] \in {file[f], {}, Broken}
           /\ damaged \subseteq damaged' /\ damaged' \subseteq File
           /\ \A f \in File : f \notin damaged' \/ Savers(f) = {} => file'[f] = file[f] /\ Savers(f) \cap ps = {}
           /\ Forget(ps)
           /\ remote' \in [File -> SUBSET Int]
           /\ \A f \in File : remote'[f] \in {remote[f], Broken}
           /\ unsent \subseteq unsent' /\ unsent' \subseteq File
           /\ \A f \in File \ unsent' : remote'[f] = remote[f]
           /\ UNCHANGED entries
<1> DEFINE torn == {on[p] : p \in {q \in ps : pc[q] = "saving"}}
<1> DEFINE sent == {on[p] : p \in {q \in ps : pc[q] = "copying"}}
<1>1. PICK t \in [torn -> {{}, Broken}] : file' = [f \in File |-> IF f \in torn THEN t[f] ELSE file[f]]
  BY DEF Cut
<1>2. torn \subseteq File /\ sent \subseteq File
  BY DEF Shape
<1>3. damaged' = damaged \cup torn /\ Forget(ps) /\ UNCHANGED entries
  BY DEF Cut
<1>4. \A f \in File : f \notin torn => Savers(f) \cap ps = {}
  BY DEF Savers
<1>5. \A f \in File : f \in torn => Savers(f) # {}
  BY DEF Savers
<1>6. /\ file' \in [File -> SUBSET Int]
      /\ \A f \in File : file'[f] \in {file[f], {}, Broken} /\ (f \notin torn => file'[f] = file[f])
  BY <1>1 DEF Shape, Broken
<1>7. PICK fs \in SUBSET sent : Spoil(fs)
  BY DEF Cut
<1>8. /\ remote' \in [File -> SUBSET Int]
      /\ \A f \in File : remote'[f] \in {remote[f], Broken}
      /\ unsent \subseteq unsent' /\ unsent' \subseteq File
      /\ \A f \in File \ unsent' : remote'[f] = remote[f]
  BY <1>2, <1>7, SpoilEffect
<1> HIDE DEF torn, sent
<1> QED
  BY <1>2, <1>3, <1>4, <1>5, <1>6, <1>8 DEF Shape

\* The types hold on.
LEMMA ShapeStep ==
    ASSUME Shape, [Next]_vars
    PROVE  Shape'
<1>1. ASSUME NEW p \in Proc, Load(p)
      PROVE  Shape'
  BY <1>1 DEF Load, Goto, ghosts, Shape, Place
<1>2. ASSUME NEW p \in Proc, Decrypt(p)
      PROVE  Shape'
  BY <1>2, ForgetEffect DEF Decrypt, End, Goto, local, Shape, Place
<1>3. ASSUME NEW p \in Proc, WriteTmpfile(p)
      PROVE  Shape'
  BY <1>3 DEF WriteTmpfile, Goto, InEdit, Shape, Place
<1>4. ASSUME NEW p \in Proc, VimReads(p)
      PROVE  Shape'
  BY <1>4 DEF VimReads, ghosts, Shape
<1>5. ASSUME NEW p \in Proc, VimWrites(p)
      PROVE  Shape'
  BY <1>5 DEF VimWrites, Goto, ghosts, Shape, Place
<1>6. ASSUME NEW p \in Proc, VimQuits(p)
      PROVE  Shape'
  BY <1>6 DEF VimQuits, Goto, local, ghosts, Shape, Place
<1>7. ASSUME NEW p \in Proc, VimFails(p)
      PROVE  Shape'
  BY <1>7 DEF VimFails, Goto, ghosts, Shape, Place
<1>8. ASSUME NEW p \in Proc, ReadTmpfile(p)
      PROVE  Shape'
  BY <1>8 DEF ReadTmpfile, Goto, ghosts, Shape, Place
<1>9. ASSUME NEW p \in Proc, Truncate(p)
      PROVE  Shape'
  BY <1>9 DEF Truncate, Goto, Copiers, local, Shape, Place
<1>10. ASSUME NEW p \in Proc, Save(p)
      PROVE  Shape'
  BY <1>10 DEF Save, Goto, ghosts, Shape, Place
<1>11. ASSUME NEW p \in Proc, ScpWrites(p)
      PROVE  Shape'
  BY <1>11, ForgetEffect DEF ScpWrites, End, Shape
<1>12. ASSUME NEW p \in Proc, Kill(p)
      PROVE  Shape'
  BY <1>12, ForgetEffect, CutEffect DEF Kill, Shape
<1>13. CASE Reboot
  <2>1. Cut(Proc) /\ tmp' = NoFile /\ killed' = FALSE
    BY <1>13 DEF Reboot
  <2>2. Forget(Proc)
    BY <2>1, CutEffect
  <2>3. /\ file' \in [File -> SUBSET Int] /\ damaged' \subseteq File
        /\ remote' \in [File -> SUBSET Int] /\ unsent' \subseteq File
        /\ UNCHANGED entries /\ tmp' = NoFile /\ killed' = FALSE
    BY <2>1, CutEffect
  <2> QED
    <3>1. Proc \in SUBSET Proc /\ \A p \in Proc : pc'[p] = "idle"
      BY <2>2, ForgetEffect
    <3>2. /\ pc' \in [Proc -> Place] /\ on' \in [Proc -> File \cup {NoFile}]
          /\ old' \in [Proc -> SUBSET Int] /\ new' \in [Proc -> SUBSET Int] /\ buffer' \in [Proc -> SUBSET Int]
          /\ carry' \in [Proc -> SUBSET Int]
          /\ crossed' \subseteq Proc /\ raced' \subseteq Proc
      BY <2>2, <3>1, ForgetEffect DEF Shape
    <3>3. remote' \in [File -> SUBSET Int] /\ tmp' \in SUBSET Int /\ entries' \in 0..MaxEdits /\ unsent' \subseteq File
      BY <2>3, NoFileType DEF Shape
    <3>4. killed' \in BOOLEAN
      BY <2>3
    <3> QED
      BY <2>3, <3>1, <3>2, <3>3, <3>4 DEF Shape
<1>14. CASE UNCHANGED vars
  BY <1>14 DEF vars, Shape
<1>15. ASSUME NEW p \in Proc, RemoveTmpfile(p)
      PROVE  Shape'
  <2>1. tmp' = NoFile /\ killed' = FALSE /\ UNCHANGED <<file, remote, entries, damaged, unsent>>
    BY <1>15 DEF RemoveTmpfile
  <2>2. CASE End(p)
    BY <2>1, <2>2, ForgetEffect, NoFileType DEF End, Shape
  <2>3. CASE ~End(p)
    BY <1>15, <2>1, <2>3, NoFileType DEF RemoveTmpfile, Goto, Shape, Place
  <2> QED
    BY <2>2, <2>3
<1>16. ASSUME NEW p \in Proc, ScpReads(p)
      PROVE  Shape'
  BY <1>16 DEF ScpReads, Goto, Copiers, Broken, Shape, Place
<1>17. ASSUME NEW p \in Proc, ScpFails(p)
      PROVE  Shape'
  BY <1>17, ForgetEffect, SpoilEffect DEF ScpFails, End, Shape
<1> QED
  BY <1>1, <1>2, <1>3, <1>4, <1>5, <1>6, <1>7, <1>8, <1>9, <1>10, <1>11, <1>12, <1>13, <1>14, <1>15, <1>16, <1>17 DEF Next, Step

\* No text comes from nowhere.
LEMMA TextsStep ==
    ASSUME Shape, TextsOK, [Next]_vars
    PROVE  TextsOK'
<1>1. ASSUME NEW p \in Proc, Load(p)
      PROVE  TextsOK'
  BY <1>1 DEF Load, Goto, Shape, TextsOK, Written
<1>2. ASSUME NEW p \in Proc, Decrypt(p)
      PROVE  TextsOK'
  BY <1>2, ForgetEffect DEF Decrypt, End, Goto, local, Shape, TextsOK, Written
<1>3. ASSUME NEW p \in Proc, WriteTmpfile(p)
      PROVE  TextsOK'
  BY <1>3 DEF WriteTmpfile, Goto, TextsOK, Written
<1>4. ASSUME NEW p \in Proc, VimReads(p)
      PROVE  TextsOK'
  BY <1>4 DEF VimReads, TextsOK, Written
<1>5. ASSUME NEW p \in Proc, VimWrites(p)
      PROVE  TextsOK'
  BY <1>5 DEF VimWrites, Goto, Shape, TextsOK, Written
<1>6. ASSUME NEW p \in Proc, VimQuits(p)
      PROVE  TextsOK'
  BY <1>6 DEF VimQuits, Goto, local, TextsOK, Written
<1>7. ASSUME NEW p \in Proc, VimFails(p)
      PROVE  TextsOK'
  BY <1>7 DEF VimFails, Goto, Shape, TextsOK, Written
<1>8. ASSUME NEW p \in Proc, ReadTmpfile(p)
      PROVE  TextsOK'
  BY <1>8 DEF ReadTmpfile, Goto, Shape, TextsOK, Written
<1>9. ASSUME NEW p \in Proc, Truncate(p)
      PROVE  TextsOK'
  BY <1>9 DEF Truncate, Goto, local, TextsOK, Written
<1>10. ASSUME NEW p \in Proc, Save(p)
      PROVE  TextsOK'
  BY <1>10 DEF Save, Goto, TextsOK, Written
<1>11. ASSUME NEW p \in Proc, ScpWrites(p)
      PROVE  TextsOK'
  BY <1>11, ForgetEffect DEF ScpWrites, End, Shape, TextsOK, Written
<1>12. ASSUME NEW p \in Proc, Kill(p)
      PROVE  TextsOK'
  BY <1>12, ForgetEffect, CutEffect DEF Kill, TextsOK, Written
<1>13. CASE Reboot
  BY <1>13, ForgetEffect, CutEffect DEF Reboot, TextsOK, Written
<1>14. CASE UNCHANGED vars
  BY <1>14 DEF vars, TextsOK, Written
<1>15. ASSUME NEW p \in Proc, RemoveTmpfile(p)
      PROVE  TextsOK'
  <2>1. tmp' = NoFile /\ UNCHANGED <<file, remote, entries>>
    BY <1>15 DEF RemoveTmpfile
  <2>2. CASE End(p)
    BY <2>1, <2>2, ForgetEffect DEF End, TextsOK, Written
  <2>3. CASE ~End(p)
    BY <1>15, <2>1, <2>3 DEF RemoveTmpfile, Goto, Shape, TextsOK, Written
  <2> QED
    BY <2>2, <2>3
<1>16. ASSUME NEW p \in Proc, ScpReads(p)
      PROVE  TextsOK'
  BY <1>16 DEF ScpReads, Goto, Shape, TextsOK, Written
<1>17. ASSUME NEW p \in Proc, ScpFails(p)
      PROVE  TextsOK'
  BY <1>17, ForgetEffect, SpoilEffect DEF ScpFails, End, Shape, TextsOK, Written
<1> QED
  BY <1>1, <1>2, <1>3, <1>4, <1>5, <1>6, <1>7, <1>8, <1>9, <1>10, <1>11, <1>12, <1>13, <1>14, <1>15, <1>16, <1>17 DEF Next, Step

\* A run that is alone in vim finds there what it put there.
LEMMA SessionStep ==
    ASSUME Shape, TextsOK, SessionOK, [Next]_vars
    PROVE  SessionOK'
<1>1. ASSUME NEW p \in Proc, Load(p)
      PROVE  SessionOK'
  BY <1>1 DEF Load, Goto, ghosts, Shape, SessionOK, InEdit
<1>2. ASSUME NEW p \in Proc, Decrypt(p)
      PROVE  SessionOK'
  BY <1>2, ForgetEffect DEF Decrypt, End, Goto, local, Shape, SessionOK, InEdit
<1>3. ASSUME NEW p \in Proc, WriteTmpfile(p)
      PROVE  SessionOK'
  BY <1>3 DEF WriteTmpfile, Goto, Shape, SessionOK, InEdit
<1>4. ASSUME NEW p \in Proc, VimReads(p)
      PROVE  SessionOK'
  BY <1>4 DEF VimReads, ghosts, SessionOK, InEdit
<1>5. ASSUME NEW p \in Proc, VimWrites(p)
      PROVE  SessionOK'
  BY <1>5 DEF VimWrites, Goto, ghosts, Shape, SessionOK, InEdit, Grown, Entry
<1>6. ASSUME NEW p \in Proc, VimQuits(p)
      PROVE  SessionOK'
  BY <1>6 DEF VimQuits, Goto, local, ghosts, SessionOK, InEdit
<1>7. ASSUME NEW p \in Proc, VimFails(p)
      PROVE  SessionOK'
  BY <1>7 DEF VimFails, Goto, ghosts, Shape, SessionOK, InEdit
<1>8. ASSUME NEW p \in Proc, ReadTmpfile(p)
      PROVE  SessionOK'
  BY <1>8 DEF ReadTmpfile, Goto, ghosts, Shape, SessionOK, InEdit
<1>9. ASSUME NEW p \in Proc, Truncate(p)
      PROVE  SessionOK'
  BY <1>9 DEF Truncate, Goto, local, SessionOK, InEdit
<1>10. ASSUME NEW p \in Proc, Save(p)
      PROVE  SessionOK'
  BY <1>10 DEF Save, Goto, ghosts, SessionOK, InEdit
<1>11. ASSUME NEW p \in Proc, ScpWrites(p)
      PROVE  SessionOK'
  BY <1>11, ForgetEffect DEF ScpWrites, End, SessionOK, InEdit
<1>12. ASSUME NEW p \in Proc, Kill(p)
      PROVE  SessionOK'
  BY <1>12, ForgetEffect, CutEffect DEF Kill, SessionOK, InEdit
<1>13. CASE Reboot
  BY <1>13, ForgetEffect, CutEffect DEF Reboot, SessionOK, InEdit
<1>14. CASE UNCHANGED vars
  BY <1>14 DEF vars, SessionOK, InEdit
<1>15. ASSUME NEW p \in Proc, RemoveTmpfile(p)
      PROVE  SessionOK'
  BY <1>15, ForgetEffect DEF RemoveTmpfile, End, Goto, Shape, SessionOK, InEdit
<1>16. ASSUME NEW p \in Proc, ScpReads(p)
      PROVE  SessionOK'
  BY <1>16 DEF ScpReads, Goto, Shape, SessionOK, InEdit
<1>17. ASSUME NEW p \in Proc, ScpFails(p)
      PROVE  SessionOK'
  BY <1>17, ForgetEffect DEF ScpFails, End, SessionOK, InEdit
<1> QED
  BY <1>1, <1>2, <1>3, <1>4, <1>5, <1>6, <1>7, <1>8, <1>9, <1>10, <1>11, <1>12, <1>13, <1>14, <1>15, <1>16, <1>17 DEF Next, Step

\* Two saves of one file at once damage it.
LEMMA SavingStep ==
    ASSUME Shape, SavingOK, CopyingOK, [Next]_vars
    PROVE  SavingOK'
<1>1. ASSUME NEW p \in Proc, Load(p)
      PROVE  SavingOK'
  BY <1>1 DEF Load, Goto, ghosts, Shape, SavingOK, Savers
<1>2. ASSUME NEW p \in Proc, Decrypt(p)
      PROVE  SavingOK'
  BY <1>2, ForgetEffect DEF Decrypt, End, Goto, local, Shape, SavingOK, Savers
<1>3. ASSUME NEW p \in Proc, WriteTmpfile(p)
      PROVE  SavingOK'
  BY <1>3 DEF WriteTmpfile, Goto, SavingOK, Savers
<1>4. ASSUME NEW p \in Proc, VimReads(p)
      PROVE  SavingOK'
  BY <1>4 DEF VimReads, ghosts, SavingOK, Savers
<1>5. ASSUME NEW p \in Proc, VimWrites(p)
      PROVE  SavingOK'
  BY <1>5 DEF VimWrites, Goto, ghosts, SavingOK, Savers
<1>6. ASSUME NEW p \in Proc, VimQuits(p)
      PROVE  SavingOK'
  BY <1>6 DEF VimQuits, Goto, local, ghosts, SavingOK, Savers
<1>7. ASSUME NEW p \in Proc, VimFails(p)
      PROVE  SavingOK'
  BY <1>7 DEF VimFails, Goto, ghosts, Shape, SavingOK, Savers
<1>8. ASSUME NEW p \in Proc, ReadTmpfile(p)
      PROVE  SavingOK'
  BY <1>8 DEF ReadTmpfile, Goto, ghosts, Shape, SavingOK, Savers
<1>9. ASSUME NEW p \in Proc, Truncate(p)
      PROVE  SavingOK'
  BY <1>9 DEF Truncate, Goto, local, SavingOK, Savers, LostUpdate
<1>10. ASSUME NEW p \in Proc, Save(p)
      PROVE  SavingOK'
  BY <1>10 DEF Save, Goto, ghosts, SavingOK, Savers
<1>11. ASSUME NEW p \in Proc, ScpWrites(p)
      PROVE  SavingOK'
  BY <1>11, ForgetEffect DEF ScpWrites, End, Shape, CopyingOK, SavingOK, Savers
<1>12. ASSUME NEW p \in Proc, Kill(p)
      PROVE  SavingOK'
  BY <1>12, ForgetEffect, CutEffect DEF Kill, SavingOK, Savers
<1>13. CASE Reboot
  BY <1>13, ForgetEffect, CutEffect DEF Reboot, SavingOK
<1>14. CASE UNCHANGED vars
  BY <1>14 DEF vars, SavingOK, Savers
<1>15. ASSUME NEW p \in Proc, RemoveTmpfile(p)
      PROVE  SavingOK'
  BY <1>15, ForgetEffect DEF RemoveTmpfile, End, Goto, Shape, SavingOK, Savers
<1>16. ASSUME NEW p \in Proc, ScpReads(p)
      PROVE  SavingOK'
  BY <1>16 DEF ScpReads, Goto, Shape, SavingOK, Savers
<1>17. ASSUME NEW p \in Proc, ScpFails(p)
      PROVE  SavingOK'
  BY <1>17, ForgetEffect, SpoilEffect DEF ScpFails, End, Shape, SavingOK, Savers
<1> QED
  BY <1>1, <1>2, <1>3, <1>4, <1>5, <1>6, <1>7, <1>8, <1>9, <1>10, <1>11, <1>12, <1>13, <1>14, <1>15, <1>16, <1>17 DEF Next, Step

\* The temporary file is removed by the last who leaves vim.
LEMMA PlaintextStep ==
    ASSUME Shape, NoPlaintextLeft, [Next]_vars
    PROVE  NoPlaintextLeft'
<1>1. ASSUME NEW p \in Proc, Load(p)
      PROVE  NoPlaintextLeft'
  BY <1>1 DEF Load, Goto, ghosts, Shape, NoPlaintextLeft, InEdit
<1>2. ASSUME NEW p \in Proc, Decrypt(p)
      PROVE  NoPlaintextLeft'
  BY <1>2, ForgetEffect DEF Decrypt, End, Goto, Shape, NoPlaintextLeft, InEdit
<1>3. ASSUME NEW p \in Proc, WriteTmpfile(p)
      PROVE  NoPlaintextLeft'
  BY <1>3 DEF WriteTmpfile, Goto, Shape, NoPlaintextLeft, InEdit
<1>4. ASSUME NEW p \in Proc, VimReads(p)
      PROVE  NoPlaintextLeft'
  BY <1>4 DEF VimReads, NoPlaintextLeft, InEdit
<1>5. ASSUME NEW p \in Proc, VimWrites(p)
      PROVE  NoPlaintextLeft'
  BY <1>5 DEF VimWrites, Goto, NoPlaintextLeft, InEdit
<1>6. ASSUME NEW p \in Proc, VimQuits(p)
      PROVE  NoPlaintextLeft'
  BY <1>6 DEF VimQuits, Goto, NoPlaintextLeft, InEdit
<1>7. ASSUME NEW p \in Proc, VimFails(p)
      PROVE  NoPlaintextLeft'
  BY <1>7 DEF VimFails, Goto, Shape, NoPlaintextLeft, InEdit
<1>8. ASSUME NEW p \in Proc, ReadTmpfile(p)
      PROVE  NoPlaintextLeft'
  BY <1>8 DEF ReadTmpfile, Goto, Shape, NoPlaintextLeft, InEdit
<1>9. ASSUME NEW p \in Proc, Truncate(p)
      PROVE  NoPlaintextLeft'
  BY <1>9 DEF Truncate, Goto, NoPlaintextLeft, InEdit
<1>10. ASSUME NEW p \in Proc, Save(p)
      PROVE  NoPlaintextLeft'
  BY <1>10 DEF Save, Goto, ghosts, NoPlaintextLeft, InEdit
<1>11. ASSUME NEW p \in Proc, ScpWrites(p)
      PROVE  NoPlaintextLeft'
  BY <1>11, ForgetEffect DEF ScpWrites, End, NoPlaintextLeft, InEdit
<1>12. ASSUME NEW p \in Proc, Kill(p)
      PROVE  NoPlaintextLeft'
  <2>1. Cut({p}) /\ UNCHANGED tmp /\ killed' = (killed \/ p \in InEdit)
    BY <1>12 DEF Kill
  <2>2. p \notin InEdit => InEdit' = InEdit
    BY <2>1, ForgetEffect, CutEffect DEF InEdit
  <2> QED
    BY <2>1, <2>2 DEF NoPlaintextLeft
<1>13. CASE Reboot
  BY <1>13, ForgetEffect, CutEffect DEF Reboot, NoPlaintextLeft
<1>14. CASE UNCHANGED vars
  BY <1>14 DEF vars, NoPlaintextLeft, InEdit
<1>15. ASSUME NEW p \in Proc, RemoveTmpfile(p)
      PROVE  NoPlaintextLeft'
  BY <1>15, ForgetEffect DEF RemoveTmpfile, NoPlaintextLeft
<1>16. ASSUME NEW p \in Proc, ScpReads(p)
      PROVE  NoPlaintextLeft'
  BY <1>16 DEF ScpReads, Goto, Shape, NoPlaintextLeft, InEdit
<1>17. ASSUME NEW p \in Proc, ScpFails(p)
      PROVE  NoPlaintextLeft'
  BY <1>17, ForgetEffect DEF ScpFails, End, NoPlaintextLeft, InEdit
<1> QED
  BY <1>1, <1>2, <1>3, <1>4, <1>5, <1>6, <1>7, <1>8, <1>9, <1>10, <1>11, <1>12, <1>13, <1>14, <1>15, <1>16, <1>17 DEF Next, Step

\* Runs that are cut off leave what other runs copy as it was.
LEMMA CutKeepsCopies ==
    ASSUME Shape, SavingOK, CopyingOK, NEW ps \in SUBSET Proc, Cut(ps)
    PROVE  CopyingOK'
<1>1. /\ \A f \in File : Savers(f) = {} => file'[f] = file[f]
      /\ unsent \subseteq unsent' /\ raced' = raced \ ps
      /\ \A p \in ps : pc'[p] = "idle"
      /\ \A p \in Proc \ ps : pc'[p] = pc[p] /\ on'[p] = on[p] /\ carry'[p] = carry[p]
  BY CutEffect, ForgetEffect
<1> SUFFICES ASSUME NEW p \in Proc, pc'[p] = "copying"
             PROVE  /\ p \notin raced' => Copiers(on[p])' = {p} /\ Savers(on[p])' = {} /\ carry'[p] = file'[on[p]]
                    /\ on[p] \notin unsent' => carry'[p] = file'[on[p]]
  BY <1>1 DEF CopyingOK, Copiers, Savers
<1>2. p \notin ps /\ pc[p] = "copying" /\ on[p] \in File /\ on'[p] = on[p] /\ carry'[p] = carry[p]
  BY <1>1 DEF Shape
<1>3. Copiers(on[p])' \subseteq Copiers(on[p]) /\ Savers(on[p])' \subseteq Savers(on[p]) /\ p \in Copiers(on[p])'
  BY <1>1, <1>2 DEF Copiers, Savers
<1>4. on[p] \notin unsent' => Savers(on[p]) = {}
  BY <1>1 DEF SavingOK, Savers
<1> QED
  BY <1>1, <1>2, <1>3, <1>4 DEF CopyingOK

\* While a copy is on its way, it carries the file as it is, or it is raced.
LEMMA CopyingStep ==
    ASSUME Shape, SavingOK, CopyingOK, [Next]_vars
    PROVE  CopyingOK'
<1>1. ASSUME NEW p \in Proc, Load(p)
      PROVE  CopyingOK'
  BY <1>1 DEF Load, Goto, ghosts, Shape, CopyingOK, Savers, Copiers
<1>2. ASSUME NEW p \in Proc, Decrypt(p)
      PROVE  CopyingOK'
  BY <1>2, ForgetEffect DEF Decrypt, End, Goto, local, Shape, CopyingOK, Savers, Copiers
<1>3. ASSUME NEW p \in Proc, WriteTmpfile(p)
      PROVE  CopyingOK'
  BY <1>3 DEF WriteTmpfile, Goto, Shape, CopyingOK, Savers, Copiers
<1>4. ASSUME NEW p \in Proc, VimReads(p)
      PROVE  CopyingOK'
  BY <1>4 DEF VimReads, ghosts, CopyingOK, Savers, Copiers
<1>5. ASSUME NEW p \in Proc, VimWrites(p)
      PROVE  CopyingOK'
  BY <1>5 DEF VimWrites, Goto, ghosts, Shape, CopyingOK, Savers, Copiers
<1>6. ASSUME NEW p \in Proc, VimQuits(p)
      PROVE  CopyingOK'
  BY <1>6 DEF VimQuits, Goto, local, ghosts, Shape, CopyingOK, Savers, Copiers
<1>7. ASSUME NEW p \in Proc, VimFails(p)
      PROVE  CopyingOK'
  BY <1>7 DEF VimFails, Goto, ghosts, Shape, CopyingOK, Savers, Copiers
<1>8. ASSUME NEW p \in Proc, ReadTmpfile(p)
      PROVE  CopyingOK'
  BY <1>8 DEF ReadTmpfile, Goto, ghosts, Shape, CopyingOK, Savers, Copiers
<1>9. ASSUME NEW p \in Proc, Truncate(p)
      PROVE  CopyingOK'
  BY <1>9 DEF Truncate, Goto, local, Shape, CopyingOK, Savers, Copiers
<1>10. ASSUME NEW p \in Proc, Save(p)
      PROVE  CopyingOK'
  BY <1>10 DEF Save, Goto, ghosts, Shape, SavingOK, CopyingOK, Savers, Copiers
<1>11. ASSUME NEW p \in Proc, ScpWrites(p)
      PROVE  CopyingOK'
  BY <1>11, ForgetEffect DEF ScpWrites, End, Shape, CopyingOK, Savers, Copiers
<1>12. ASSUME NEW p \in Proc, Kill(p)
      PROVE  CopyingOK'
  <2>1. Cut({p})
    BY <1>12 DEF Kill
  <2> QED
    BY <2>1, CutKeepsCopies
<1>13. CASE Reboot
  BY <1>13, CutKeepsCopies DEF Reboot
<1>14. CASE UNCHANGED vars
  BY <1>14 DEF vars, CopyingOK, Savers, Copiers
<1>15. ASSUME NEW p \in Proc, RemoveTmpfile(p)
      PROVE  CopyingOK'
  BY <1>15, ForgetEffect DEF RemoveTmpfile, End, Goto, Shape, CopyingOK, Savers, Copiers
<1>16. ASSUME NEW p \in Proc, ScpReads(p)
      PROVE  CopyingOK'
  BY <1>16 DEF ScpReads, Goto, Shape, SavingOK, CopyingOK, Savers, Copiers
<1>17. ASSUME NEW p \in Proc, ScpFails(p)
      PROVE  CopyingOK'
  BY <1>17, ForgetEffect, SpoilEffect DEF ScpFails, End, Shape, CopyingOK, Savers, Copiers
<1> QED
  BY <1>1, <1>2, <1>3, <1>4, <1>5, <1>6, <1>7, <1>8, <1>9, <1>10, <1>11, <1>12, <1>13, <1>14, <1>15, <1>16, <1>17 DEF Next, Step

\* A copy that goes well is of the file as it is.
LEMMA BackedUpStep ==
    ASSUME Shape, SavingOK, CopyingOK, BackedUp, [Next]_vars
    PROVE  BackedUp'
<1>1. ASSUME NEW p \in Proc, Load(p)
      PROVE  BackedUp'
  BY <1>1 DEF Load, ghosts, BackedUp
<1>2. ASSUME NEW p \in Proc, Decrypt(p)
      PROVE  BackedUp'
  BY <1>2, ForgetEffect DEF Decrypt, BackedUp
<1>3. ASSUME NEW p \in Proc, WriteTmpfile(p)
      PROVE  BackedUp'
  BY <1>3 DEF WriteTmpfile, BackedUp
<1>4. ASSUME NEW p \in Proc, VimReads(p)
      PROVE  BackedUp'
  BY <1>4 DEF VimReads, ghosts, BackedUp
<1>5. ASSUME NEW p \in Proc, VimWrites(p)
      PROVE  BackedUp'
  BY <1>5 DEF VimWrites, ghosts, BackedUp
<1>6. ASSUME NEW p \in Proc, VimQuits(p)
      PROVE  BackedUp'
  BY <1>6 DEF VimQuits, ghosts, BackedUp
<1>7. ASSUME NEW p \in Proc, VimFails(p)
      PROVE  BackedUp'
  BY <1>7 DEF VimFails, ghosts, BackedUp
<1>8. ASSUME NEW p \in Proc, ReadTmpfile(p)
      PROVE  BackedUp'
  BY <1>8 DEF ReadTmpfile, ghosts, BackedUp
<1>9. ASSUME NEW p \in Proc, Truncate(p)
      PROVE  BackedUp'
  BY <1>9 DEF Truncate, BackedUp
<1>10. ASSUME NEW p \in Proc, Save(p)
      PROVE  BackedUp'
  BY <1>10 DEF Save, ghosts, SavingOK, BackedUp
<1>11. ASSUME NEW p \in Proc, ScpWrites(p)
      PROVE  BackedUp'
  BY <1>11 DEF ScpWrites, Shape, CopyingOK, BackedUp
<1>12. ASSUME NEW p \in Proc, Kill(p)
      PROVE  BackedUp'
  BY <1>12, CutEffect DEF Kill, SavingOK, Savers, BackedUp
<1>13. CASE Reboot
  BY <1>13, CutEffect DEF Reboot, SavingOK, Savers, BackedUp
<1>14. CASE UNCHANGED vars
  BY <1>14 DEF vars, BackedUp
<1>15. ASSUME NEW p \in Proc, RemoveTmpfile(p)
      PROVE  BackedUp'
  BY <1>15, ForgetEffect DEF RemoveTmpfile, BackedUp
<1>16. ASSUME NEW p \in Proc, ScpReads(p)
      PROVE  BackedUp'
  BY <1>16 DEF ScpReads, BackedUp
<1>17. ASSUME NEW p \in Proc, ScpFails(p)
      PROVE  BackedUp'
  BY <1>17, SpoilEffect DEF ScpFails, Shape, BackedUp
<1> QED
  BY <1>1, <1>2, <1>3, <1>4, <1>5, <1>6, <1>7, <1>8, <1>9, <1>10, <1>11, <1>12, <1>13, <1>14, <1>15, <1>16, <1>17 DEF Next, Step

-----------------------------------------------------------------------------
(* The invariants.                                                         *)

\* The invariant holds at first.
LEMMA Start == Init => PInv
<1> SUFFICES ASSUME Init PROVE PInv
  OBVIOUS
<1>1. Shape
  <2>1. file \in [File -> SUBSET Int] /\ remote \in [File -> SUBSET Int] /\ tmp \in SUBSET Int
    BY NoFileType DEF Init
  <2>2. /\ pc \in [Proc -> Place] /\ on \in [Proc -> File \cup {NoFile}]
        /\ \A p \in Proc : pc[p] = "idle"
    BY DEF Init, Place
  <2>3. /\ old \in [Proc -> SUBSET Int] /\ new \in [Proc -> SUBSET Int] /\ buffer \in [Proc -> SUBSET Int]
        /\ carry \in [Proc -> SUBSET Int]
    BY DEF Init
  <2>4. entries \in 0..MaxEdits /\ crossed = {} /\ raced = {} /\ damaged = {} /\ unsent = {}
    BY DEF Init
  <2>5. killed \in BOOLEAN
    BY DEF Init
  <2> QED
    BY <2>1, <2>2, <2>3, <2>4, <2>5 DEF Shape
<1>2. TextsOK /\ SessionOK /\ SavingOK /\ CopyingOK
  BY DEF Init, TextsOK, Written, SessionOK, InEdit, SavingOK, CopyingOK
<1>3. NoPlaintextLeft /\ BackedUp
  BY DEF Init, NoPlaintextLeft, BackedUp
<1> QED
  BY <1>1, <1>2, <1>3 DEF PInv

\* Every step keeps it.
LEMMA Kept == PInv /\ [Next]_vars => PInv'
  BY ShapeStep, TextsStep, SessionStep, SavingStep, CopyingStep, PlaintextStep, BackedUpStep DEF PInv

\* So it holds always.
LEMMA Inductive == Spec => []PInv
  BY Start, Kept, PTL DEF Spec

\* What is loaded, edited, saved and copied is at each place a text that
\* sessions have written, or where the code has not decrypted it yet a file
\* cut off (pedit.go:75-233).
THEOREM TypesHold == Spec => []TypeOK
<1>1. PInv => TypeOK
  <2> SUFFICES ASSUME PInv PROVE TypeOK
    OBVIOUS
  <2>1. Written \subseteq Text
    BY DEF PInv, Shape, Written, Text, Entry
  <2> QED
    BY <2>1 DEF PInv, Shape, Place, TextsOK, TypeOK
<1> QED
  BY <1>1, Inductive, PTL

\* When no run is in vim, no plaintext is left in /dev/shm (pedit.go:137) but
\* by a run that was killed there.
THEOREM PlaintextRemoved == Spec => []NoPlaintextLeft
  BY Inductive, PTL DEF PInv

\* A file whose last copy went well, and met no save and no other copy of the
\* file on its way, is its copy until it is saved again (pedit.go:193-213).
THEOREM CopyIsCurrent == Spec => []BackedUp
  BY Inductive, PTL DEF PInv

-----------------------------------------------------------------------------
(* Pedit implements Notebook.                                              *)

\* A file is shown as before when its bytes, the runs that are saving it and
\* what they are saving are as before.
LEMMA SameShown ==
    ASSUME NEW f \in File,
           file'[f] = file[f], Savers(f)' = Savers(f),
           \A q \in Savers(f) : new'[q] = new[q]
    PROVE  Shown(f)' = Shown(f)
  BY DEF Shown

\* The only saver of a file shows what it is saving.
LEMMA OneSaver ==
    ASSUME NEW f \in File, NEW p, Savers(f) = {p}
    PROVE  Shown(f) = new[p]
  BY DEF Shown

\* A step that neither saves nor cuts a save off shows each file as before.
LEMMA Quiet ==
    ASSUME Shape, UNCHANGED <<file, damaged>>,
           \A q \in Proc : /\ (pc'[q] = "saving") <=> (pc[q] = "saving")
                           /\ pc[q] = "saving" => on'[q] = on[q] /\ new'[q] = new[q]
    PROVE  UNCHANGED <<[f \in File |-> Shown(f)], damaged>>
<1>1. \A f \in File : Savers(f)' = Savers(f)
  BY DEF Savers
<1>2. \A f \in File : Shown(f)' = Shown(f)
  BY <1>1, SameShown DEF Savers
<1> QED
  BY <1>2

\* The end of a run that is not saving changes no save.
LEMMA EndQuiet ==
    ASSUME Shape, UNCHANGED <<file, damaged>>, NEW p \in Proc, End(p), pc[p] # "saving"
    PROVE  UNCHANGED <<[f \in File |-> Shown(f)], damaged>>
  BY ForgetEffect, Quiet DEF End

\* From the truncation on the new text is shown.
LEMMA TruncateAdds ==
    ASSUME PInv, NEW p \in Proc, Truncate(p)
    PROVE  N!Next
<1> DEFINE g == on[p]
<1>1. /\ g \in File /\ pc[p] = "save" /\ old[p] \in Written /\ damaged \subseteq File
      /\ damaged' = (IF LostUpdate(p) THEN damaged \cup {g} ELSE damaged)
      /\ file' = [file EXCEPT ![g] = {}]
      /\ UNCHANGED <<on, new>>
      /\ pc' = [pc EXCEPT ![p] = "saving"]
  BY DEF PInv, Shape, TextsOK, Truncate, Goto, local
<1>2. Savers(g)' = Savers(g) \cup {p} /\ \A f \in File \ {g} : Savers(f)' = Savers(f)
  BY <1>1 DEF PInv, Shape, Savers
<1>3. \A f \in File \ {g} : Shown(f)' = Shown(f)
  BY <1>1, <1>2, SameShown
<1>4. CASE LostUpdate(p) \/ g \in damaged
  <2>1. damaged' = damaged \cup {g}
    BY <1>1, <1>4
  <2>2. N!Damage({g})
    BY <1>1, <1>3, <2>1 DEF N!Damage
  <2> QED
    BY <1>1, <2>2 DEF N!Next
<1>5. CASE ~LostUpdate(p) /\ g \notin damaged
  <2>1. p \notin crossed /\ Savers(g) = {} /\ file[g] = old[p] /\ damaged' = damaged
    BY <1>1, <1>5 DEF LostUpdate
  <2>2. PICK e \in Entry \ old[p] : new[p] = old[p] \cup {e}
    BY <1>1, <2>1 DEF PInv, SessionOK, Grown
  <2>3. Shown(g) = old[p]
    BY <2>1 DEF Shown
  <2>4. Shown(g)' = new[p]
    <3>1. Savers(g)' = {p}
      BY <1>2, <2>1
    <3> QED
      BY <1>1, <3>1 DEF Shown
  <2>5. [f \in File |-> Shown(f)]' = [[f \in File |-> Shown(f)] EXCEPT ![g] = @ \cup {e}]
    BY <1>1, <1>3, <2>2, <2>3, <2>4
  <2>6. N!Add(g)
    BY <1>1, <1>5, <2>1, <2>2, <2>3, <2>5 DEF N!Add
  <2> QED
    BY <1>1, <2>6 DEF N!Next
<1> QED
  BY <1>4, <1>5

\* The end of a save changes nothing that is shown, but in a damaged file.
LEMMA SaveDamages ==
    ASSUME PInv, NEW p \in Proc, Save(p)
    PROVE  N!Next
<1> DEFINE g == on[p]
<1>1. /\ g \in File /\ pc[p] = "saving" /\ damaged \subseteq File
      /\ file' = [file EXCEPT ![g] = new[p]]
      /\ new' = [new EXCEPT ![p] = {}]
      /\ UNCHANGED <<on, damaged>>
      /\ pc' = [pc EXCEPT ![p] = "backup"]
  BY DEF PInv, Shape, Save, Goto, ghosts
<1>2. /\ p \in Savers(g) /\ Savers(g)' = Savers(g) \ {p}
      /\ \A f \in File \ {g} : Savers(f)' = Savers(f) /\ p \notin Savers(f)
  BY <1>1 DEF PInv, Shape, Savers
<1>3. \A f \in File \ {g} : Shown(f)' = Shown(f)
  BY <1>1, <1>2, SameShown
<1>4. g \in damaged \/ Shown(g)' = Shown(g)
  <2> SUFFICES ASSUME g \notin damaged PROVE Shown(g)' = Shown(g)
    OBVIOUS
  <2>1. Savers(g) = {p}
    BY <1>1, <1>2 DEF PInv, SavingOK
  <2>2. Shown(g) = new[p]
    BY <1>1, <2>1, OneSaver
  <2>3. Shown(g)' = file'[g]
    <3>1. Savers(g)' = {}
      BY <1>2, <2>1
    <3> QED
      BY <1>1, <3>1 DEF Shown
  <2> QED
    BY <1>1, <2>2, <2>3 DEF PInv, Shape
<1>5. N!Damage({}) \/ N!Damage({g})
  BY <1>1, <1>3, <1>4 DEF N!Damage
<1> QED
  BY <1>1, <1>5 DEF N!Next

\* Runs that are cut off damage what they were saving and nothing else.
LEMMA CutDamages ==
    ASSUME PInv, NEW ps \in SUBSET Proc, Cut(ps)
    PROVE  N!Next
<1>1. Shape
  BY DEF PInv
<1>2. /\ damaged \subseteq damaged' /\ damaged' \subseteq File
      /\ \A f \in File \ damaged' : file'[f] = file[f] /\ Savers(f) \cap ps = {}
      /\ Forget(ps)
  BY <1>1, CutEffect
<1>3. \A f \in File \ damaged' : Savers(f)' = Savers(f)
  BY <1>1, <1>2, ForgetEffect DEF Savers
<1>4. \A f \in File \ damaged' : \A q \in Savers(f) : new'[q] = new[q]
  BY <1>1, <1>2, ForgetEffect DEF Savers
<1>5. \A f \in File \ damaged' : Shown(f)' = Shown(f)
  BY <1>2, <1>3, <1>4, SameShown
<1>6. N!Damage(damaged')
  BY <1>2, <1>5 DEF N!Damage
<1> QED
  BY <1>2, <1>6 DEF N!Next

\* Every step of Pedit is one of Notebook, or shows nothing.
LEMMA Refines ==
    ASSUME PInv, [Next]_vars
    PROVE  N!Next \/ UNCHANGED <<[f \in File |-> Shown(f)], damaged>>
<1> USE DEF PInv
<1>1. CASE Reboot
  BY <1>1, CutDamages DEF Reboot
<1>2. ASSUME NEW p \in Proc, Kill(p)
      PROVE  N!Next
  BY <1>2, CutDamages DEF Kill
<1>3. ASSUME NEW p \in Proc, Step(p), ~Truncate(p), ~Save(p)
      PROVE  UNCHANGED <<[f \in File |-> Shown(f)], damaged>>
  <2>1. CASE Load(p)
    BY <2>1, Quiet DEF Load, Goto, ghosts, Shape
  <2>2. CASE Decrypt(p)
    BY <2>2, Quiet, EndQuiet DEF Decrypt, Goto, local, Shape
  <2>3. CASE WriteTmpfile(p)
    BY <2>3, Quiet DEF WriteTmpfile, Goto
  <2>4. CASE VimReads(p) \/ VimWrites(p) \/ VimQuits(p)
    BY <2>4, Quiet DEF VimReads, VimWrites, VimQuits, Goto, local, ghosts, Shape
  <2>5. CASE VimFails(p)
    BY <2>5, Quiet DEF VimFails, Goto, ghosts, Shape
  <2>6. CASE ReadTmpfile(p)
    BY <2>6, Quiet DEF ReadTmpfile, Goto, ghosts, Shape
  <2>7. CASE ScpWrites(p) \/ ScpFails(p)
    BY <2>7, EndQuiet DEF ScpWrites, ScpFails
  <2>8. CASE ScpReads(p)
    BY <2>8, Quiet DEF ScpReads, Goto, Shape
  <2>9. CASE RemoveTmpfile(p)
    BY <2>9, Quiet, EndQuiet DEF RemoveTmpfile, Goto, Shape
  <2> QED
    BY <1>3, <2>1, <2>2, <2>3, <2>4, <2>5, <2>6, <2>7, <2>8, <2>9 DEF Step
<1>4. CASE UNCHANGED vars
  BY <1>4, Quiet DEF vars
<1> QED
  BY <1>1, <1>2, <1>3, <1>4, TruncateAdds, SaveDamages DEF Next

\* Pedit starts as Notebook does.
LEMMA StartsEmpty == Init => N!Init
<1> SUFFICES ASSUME Init PROVE N!Init
  OBVIOUS
<1>1. \A f \in File : Savers(f) = {}
  BY DEF Init, Savers
<1>2. \A f \in File : Shown(f) = {}
  BY <1>1 DEF Init, Shown
<1> QED
  BY <1>2 DEF Init, N!Init

\* A session adds its entry to its file at once and loses none, whatever is
\* killed, but in a file where a save was cut off or wrote over another's
\* (pedit.go:132-191).
THEOREM Implements == Spec => ImplementsNotebook
<1>1. PInv /\ [Next]_vars => [N!Next]_<<[f \in File |-> Shown(f)], damaged>>
  BY Refines
<1> QED
  BY <1>1, StartsEmpty, Inductive, PTL DEF Spec, ImplementsNotebook, N!Spec
=============================================================================
