---------------------------- MODULE FirefoxProofs ----------------------------
(***************************************************************************)
(* Proofs about Firefox, for any number of wrappers and versions and any   *)
(* faults: its invariants.  The inductive invariant says what the lock and *)
(* the flag done give to the wrapper that is past the lock: the profile is *)
(* its own, and nothing is written to it during the last sync.             *)
(***************************************************************************)
EXTENDS Firefox, FiniteSetTheorems, TLAPS

Place == {"off", "lock", "tomem", "loading", "select", "kill", "todisk", "saving"}
Synced == {"select", "kill", "todisk", "saving"}    \* the profile has been loaded

Shape ==
    /\ disk \in Profile /\ mem \in Profile \cup {None}
    /\ pc \in [Wrapper -> Place]
    /\ started \in [Wrapper -> BOOLEAN] /\ done \in [Wrapper -> BOOLEAN]
    /\ source \in [Wrapper -> Profile \cup {None}]
    /\ hurt \in BOOLEAN /\ bad \in BOOLEAN
    /\ firefox \subseteq {w \in Wrapper : started[w]}
    /\ left \subseteq {w \in Wrapper : pc[w] \in {"loading", "saving"}}
    /\ mem = None => firefox = {} /\ \A w \in Wrapper : pc[w] = "off"

\* Who is past the lock is alone there, and a firefox that runs is its own.
Alone ==
    \A w \in LockedByWrapper :
        /\ \A x \in LockedByWrapper : x = w
        /\ firefox \subseteq {w}
        /\ pc[w] \in {"tomem", "loading"} => firefox = {}
        /\ pc[w] = "loading" => source[w] = disk

\* The loop ends with a sync, after firefox has ended, of all that is in memory.
LastSync ==
    \A w \in Wrapper :
        /\ pc[w] = "kill" => started[w]
        /\ pc[w] \notin {"off", "todisk", "saving"} => ~done[w]
        /\ pc[w] # "off" /\ done[w] => started[w] /\ w \notin firefox
        /\ pc[w] = "saving" /\ done[w] => mem = source[w]

\* What was loaded is hurt until the last sync has come to its end, and what is
\* not hurt is on the disk.
HurtOK ==
    /\ firefox # {} \/ (\E w \in Wrapper : pc[w] \in Synced \cup {"loading"}) => hurt
    /\ ~hurt /\ mem # None => disk = mem

\* The good copy is the one on the disk until it has been loaded, and then the
\* one in memory.
GoodOK ==
    \/ bad
    \/ disk.good /\ \A w \in Wrapper : pc[w] \notin Synced
    \/ mem.good /\ \E w \in Wrapper : pc[w] \in Synced

FInv == Shape /\ Alone /\ LastSync /\ HurtOK /\ GoodOK
-----------------------------------------------------------------------------
(* The lemmas.                                                             *)

\* A copy cut off is a profile that is not good; None is none.
LEMMA TornProfile ==
    ASSUME NEW p \in Profile
    PROVE  Torn(p) \in Profile /\ ~Torn(p).good
  BY DEF Profile, Torn

\* Two users that are one.
LEMMA NoneApart == None \notin Profile
  BY DEF None, Profile

\* What mkdir makes, and what firefox writes, is a profile.
LEMMA NewProfile ==
    /\ [v |-> 0, good |-> FALSE] \in Profile
    /\ \A p \in Profile : p.v < MaxVersion =>
         /\ [p EXCEPT !.v = @ + 1] \in Profile
         /\ [p EXCEPT !.v = @ + 1].good = p.good
  BY FirefoxAssumption DEF Profile

\* The types hold on.
LEMMA ShapeStep ==
    ASSUME Shape, Alone, LastSync, [Next]_vars
    PROVE  Shape'
<1>1. ASSUME NEW w \in Wrapper, Start(w)
      PROVE  Shape'
  <2>1. mem' \in Profile /\ UNCHANGED <<left, disk, firefox, source, bad>> /\ hurt' \in BOOLEAN
    BY <1>1, NewProfile DEF Start, Shape
  <2>2. /\ pc' \in [Wrapper -> Place] /\ started' \in [Wrapper -> BOOLEAN] /\ done' \in [Wrapper -> BOOLEAN]
        /\ w \notin left /\ w \notin firefox /\ \A x \in Wrapper : x # w => pc'[x] = pc[x] /\ started'[x] = started[x]
    BY <1>1 DEF Start, Goto, Shape, Place
  <2> QED
    BY <2>1, <2>2, NoneApart DEF Shape
<1>2. ASSUME NEW w \in Wrapper, Lock(w)
      PROVE  Shape'
  BY <1>2, TornProfile, NoneApart, NewProfile DEF Lock, Goto, Locked, Shape, Place, Alone, LockedByWrapper
<1>3. ASSUME NEW w \in Wrapper, LoadStart(w)
      PROVE  Shape'
  BY <1>3, TornProfile, NoneApart, NewProfile DEF LoadStart, Goto, Shape, Place, Alone, LockedByWrapper
<1>4. ASSUME NEW w \in Wrapper, LoadEnd(w)
      PROVE  Shape'
  BY <1>4, TornProfile, NoneApart, NewProfile DEF LoadEnd, Goto, Shape, Place, Alone, LockedByWrapper
<1>5. ASSUME NEW w \in Wrapper, LoadFails(w)
      PROVE  Shape'
  BY <1>5, TornProfile, NoneApart, NewProfile DEF LoadFails, Goto, Shape, Place, Alone, LockedByWrapper
<1>6. ASSUME NEW w \in Wrapper, Timer(w)
      PROVE  Shape'
  BY <1>6, TornProfile, NoneApart, NewProfile DEF Timer, Goto, Shape, Place, Alone, LockedByWrapper
<1>7. ASSUME NEW w \in Wrapper, FirefoxDone(w)
      PROVE  Shape'
  BY <1>7, TornProfile, NoneApart, NewProfile DEF FirefoxDone, Goto, Shape, Place, Alone, LockedByWrapper
<1>8. ASSUME NEW w \in Wrapper, Signal(w)
      PROVE  Shape'
  BY <1>8, TornProfile, NoneApart, NewProfile DEF Signal, Goto, Shape, Place, Alone, LockedByWrapper
<1>9. ASSUME NEW w \in Wrapper, SignalEarly(w)
      PROVE  Shape'
  BY <1>9, TornProfile, NoneApart, NewProfile DEF SignalEarly, Goto, Shape, Place, Alone, LockedByWrapper
<1>10. ASSUME NEW w \in Wrapper, KillFirefox(w)
      PROVE  Shape'
  BY <1>10, TornProfile, NoneApart, NewProfile DEF KillFirefox, Goto, Shape, Place, Alone, LockedByWrapper
<1>11. ASSUME NEW w \in Wrapper, SaveStart(w)
      PROVE  Shape'
  BY <1>11, TornProfile, NoneApart, NewProfile DEF SaveStart, Goto, Shape, Place, Alone, LockedByWrapper
<1>12. ASSUME NEW w \in Wrapper, SaveEnd(w)
      PROVE  Shape'
  BY <1>12, TornProfile, NoneApart, NewProfile DEF SaveEnd, Goto, Shape, Place, Alone, LockedByWrapper
<1>13. ASSUME NEW w \in Wrapper, SaveFails(w)
      PROVE  Shape'
  BY <1>13, TornProfile, NoneApart, NewProfile DEF SaveFails, Goto, Shape, Place, Alone, LockedByWrapper
<1>14. ASSUME NEW w \in Wrapper, Kill(w)
      PROVE  Shape'
  BY <1>14, TornProfile, NoneApart, NewProfile DEF Kill, Goto, Shape, Place, Alone, LockedByWrapper
<1>15. ASSUME NEW w \in Wrapper, FirefoxStarts(w)
      PROVE  Shape'
  BY <1>15, TornProfile, NoneApart, NewProfile DEF FirefoxStarts, Shape, Place, Alone, LockedByWrapper
<1>16. ASSUME NEW w \in Wrapper, FirefoxWrites(w)
      PROVE  Shape'
  BY <1>16, TornProfile, NoneApart, NewProfile DEF FirefoxWrites, Shape, Place, Alone, LockedByWrapper
<1>17. ASSUME NEW w \in Wrapper, FirefoxQuits(w)
      PROVE  Shape'
  BY <1>17, TornProfile, NoneApart, NewProfile DEF FirefoxQuits, Shape, Place, Alone, LockedByWrapper
<1>18. CASE Reboot
  BY <1>18, TornProfile, NoneApart, NewProfile DEF Reboot, Shape, Place, Alone, LockedByWrapper
<1>19. CASE UNCHANGED vars
  BY <1>19 DEF vars, Shape, Place, Alone, LockedByWrapper
<1> QED
  BY <1>1, <1>2, <1>3, <1>4, <1>5, <1>6, <1>7, <1>8, <1>9, <1>10, <1>11, <1>12, <1>13, <1>14, <1>15, <1>16, <1>17, <1>18, <1>19 DEF Next, Runs, Loads, Saves

\* The lock is held by one.
LEMMA AloneStep ==
    ASSUME Shape, Alone, LastSync, [Next]_vars
    PROVE  Alone'
<1>1. ASSUME NEW w \in Wrapper, Start(w)
      PROVE  Alone'
  BY <1>1 DEF Start, Goto, Shape, Place, Alone, LockedByWrapper, Locked
<1>2. ASSUME NEW w \in Wrapper, Lock(w)
      PROVE  Alone'
  BY <1>2 DEF Lock, Goto, Locked, Shape, Place, Alone, LockedByWrapper, Locked
<1>3. ASSUME NEW w \in Wrapper, LoadStart(w)
      PROVE  Alone'
  BY <1>3 DEF LoadStart, Goto, Shape, Place, Alone, LockedByWrapper, Locked
<1>4. ASSUME NEW w \in Wrapper, LoadEnd(w)
      PROVE  Alone'
  BY <1>4 DEF LoadEnd, Goto, Shape, Place, Alone, LockedByWrapper, Locked
<1>5. ASSUME NEW w \in Wrapper, LoadFails(w)
      PROVE  Alone'
  BY <1>5 DEF LoadFails, Goto, Shape, Place, Alone, LockedByWrapper, Locked
<1>6. ASSUME NEW w \in Wrapper, Timer(w)
      PROVE  Alone'
  BY <1>6 DEF Timer, Goto, Shape, Place, Alone, LockedByWrapper, Locked
<1>7. ASSUME NEW w \in Wrapper, FirefoxDone(w)
      PROVE  Alone'
  BY <1>7 DEF FirefoxDone, Goto, Shape, Place, Alone, LockedByWrapper, Locked
<1>8. ASSUME NEW w \in Wrapper, Signal(w)
      PROVE  Alone'
  BY <1>8 DEF Signal, Goto, Shape, Place, Alone, LockedByWrapper, Locked
<1>9. ASSUME NEW w \in Wrapper, SignalEarly(w)
      PROVE  Alone'
  BY <1>9 DEF SignalEarly, Goto, Shape, Place, Alone, LockedByWrapper, Locked
<1>10. ASSUME NEW w \in Wrapper, KillFirefox(w)
      PROVE  Alone'
  BY <1>10 DEF KillFirefox, Goto, Shape, Place, Alone, LockedByWrapper, Locked
<1>11. ASSUME NEW w \in Wrapper, SaveStart(w)
      PROVE  Alone'
  BY <1>11 DEF SaveStart, Goto, Shape, Place, Alone, LockedByWrapper, Locked
<1>12. ASSUME NEW w \in Wrapper, SaveEnd(w)
      PROVE  Alone'
  BY <1>12 DEF SaveEnd, Goto, Shape, Place, Alone, LockedByWrapper, Locked
<1>13. ASSUME NEW w \in Wrapper, SaveFails(w)
      PROVE  Alone'
  BY <1>13 DEF SaveFails, Goto, Shape, Place, Alone, LockedByWrapper, Locked
<1>14. ASSUME NEW w \in Wrapper, Kill(w)
      PROVE  Alone'
  BY <1>14 DEF Kill, Goto, Shape, Place, Alone, LockedByWrapper, Locked
<1>15. ASSUME NEW w \in Wrapper, FirefoxStarts(w)
      PROVE  Alone'
  BY <1>15 DEF FirefoxStarts, Shape, Place, Alone, LockedByWrapper, Locked
<1>16. ASSUME NEW w \in Wrapper, FirefoxWrites(w)
      PROVE  Alone'
  BY <1>16 DEF FirefoxWrites, Shape, Place, Alone, LockedByWrapper, Locked
<1>17. ASSUME NEW w \in Wrapper, FirefoxQuits(w)
      PROVE  Alone'
  BY <1>17 DEF FirefoxQuits, Shape, Place, Alone, LockedByWrapper, Locked
<1>18. CASE Reboot
  BY <1>18 DEF Reboot, Shape, Place, Alone, LockedByWrapper, Locked
<1>19. CASE UNCHANGED vars
  BY <1>19 DEF vars, Shape, Place, Alone, LockedByWrapper, Locked
<1> QED
  BY <1>1, <1>2, <1>3, <1>4, <1>5, <1>6, <1>7, <1>8, <1>9, <1>10, <1>11, <1>12, <1>13, <1>14, <1>15, <1>16, <1>17, <1>18, <1>19 DEF Next, Runs, Loads, Saves

\* Nothing is written during the last sync.
LEMMA LastSyncStep ==
    ASSUME Shape, Alone, LastSync, [Next]_vars
    PROVE  LastSync'
<1>1. ASSUME NEW w \in Wrapper, Start(w)
      PROVE  LastSync'
  BY <1>1 DEF Start, Goto, Shape, Place, Alone, LockedByWrapper, Locked, LastSync
<1>2. ASSUME NEW w \in Wrapper, Lock(w)
      PROVE  LastSync'
  BY <1>2 DEF Lock, Goto, Locked, Shape, Place, Alone, LockedByWrapper, Locked, LastSync
<1>3. ASSUME NEW w \in Wrapper, LoadStart(w)
      PROVE  LastSync'
  BY <1>3 DEF LoadStart, Goto, Shape, Place, Alone, LockedByWrapper, Locked, LastSync
<1>4. ASSUME NEW w \in Wrapper, LoadEnd(w)
      PROVE  LastSync'
  BY <1>4 DEF LoadEnd, Goto, Shape, Place, Alone, LockedByWrapper, Locked, LastSync
<1>5. ASSUME NEW w \in Wrapper, LoadFails(w)
      PROVE  LastSync'
  BY <1>5 DEF LoadFails, Goto, Shape, Place, Alone, LockedByWrapper, Locked, LastSync
<1>6. ASSUME NEW w \in Wrapper, Timer(w)
      PROVE  LastSync'
  BY <1>6 DEF Timer, Goto, Shape, Place, Alone, LockedByWrapper, Locked, LastSync
<1>7. ASSUME NEW w \in Wrapper, FirefoxDone(w)
      PROVE  LastSync'
  BY <1>7 DEF FirefoxDone, Goto, Shape, Place, Alone, LockedByWrapper, Locked, LastSync
<1>8. ASSUME NEW w \in Wrapper, Signal(w)
      PROVE  LastSync'
  BY <1>8 DEF Signal, Goto, Shape, Place, Alone, LockedByWrapper, Locked, LastSync
<1>9. ASSUME NEW w \in Wrapper, SignalEarly(w)
      PROVE  LastSync'
  BY <1>9 DEF SignalEarly, Goto, Shape, Place, Alone, LockedByWrapper, Locked, LastSync
<1>10. ASSUME NEW w \in Wrapper, KillFirefox(w)
      PROVE  LastSync'
  BY <1>10 DEF KillFirefox, Goto, Shape, Place, Alone, LockedByWrapper, Locked, LastSync
<1>11. ASSUME NEW w \in Wrapper, SaveStart(w)
      PROVE  LastSync'
  BY <1>11 DEF SaveStart, Goto, Shape, Place, Alone, LockedByWrapper, Locked, LastSync
<1>12. ASSUME NEW w \in Wrapper, SaveEnd(w)
      PROVE  LastSync'
  BY <1>12 DEF SaveEnd, Goto, Shape, Place, Alone, LockedByWrapper, Locked, LastSync
<1>13. ASSUME NEW w \in Wrapper, SaveFails(w)
      PROVE  LastSync'
  BY <1>13 DEF SaveFails, Goto, Shape, Place, Alone, LockedByWrapper, Locked, LastSync
<1>14. ASSUME NEW w \in Wrapper, Kill(w)
      PROVE  LastSync'
  BY <1>14 DEF Kill, Goto, Shape, Place, Alone, LockedByWrapper, Locked, LastSync
<1>15. ASSUME NEW w \in Wrapper, FirefoxStarts(w)
      PROVE  LastSync'
  BY <1>15 DEF FirefoxStarts, Shape, Place, Alone, LockedByWrapper, Locked, LastSync
<1>16. ASSUME NEW w \in Wrapper, FirefoxWrites(w)
      PROVE  LastSync'
  BY <1>16 DEF FirefoxWrites, Shape, Place, Alone, LockedByWrapper, Locked, LastSync
<1>17. ASSUME NEW w \in Wrapper, FirefoxQuits(w)
      PROVE  LastSync'
  BY <1>17 DEF FirefoxQuits, Shape, Place, Alone, LockedByWrapper, Locked, LastSync
<1>18. CASE Reboot
  BY <1>18 DEF Reboot, Shape, Place, Alone, LockedByWrapper, Locked, LastSync
<1>19. CASE UNCHANGED vars
  BY <1>19 DEF vars, Shape, Place, Alone, LockedByWrapper, Locked, LastSync
<1> QED
  BY <1>1, <1>2, <1>3, <1>4, <1>5, <1>6, <1>7, <1>8, <1>9, <1>10, <1>11, <1>12, <1>13, <1>14, <1>15, <1>16, <1>17, <1>18, <1>19 DEF Next, Runs, Loads, Saves

\* A run that ends well leaves what is in memory on the disk.
LEMMA HurtStep ==
    ASSUME Shape, Alone, LastSync, HurtOK, [Next]_vars
    PROVE  HurtOK'
<1>1. ASSUME NEW w \in Wrapper, Start(w)
      PROVE  HurtOK'
  <2>1. /\ hurt' = (hurt \/ mem = None) /\ disk' = disk /\ firefox' = firefox
        /\ mem # None => mem' = mem
    BY <1>1 DEF Start
  <2>2. \A x \in Wrapper : x # w => pc'[x] = pc[x]
    BY <1>1 DEF Start, Goto, Shape
  <2>3. pc'[w] = "lock"
    BY <1>1 DEF Start, Goto, Shape
  <2> QED
    BY <2>1, <2>2, <2>3 DEF HurtOK, Synced
<1>2. ASSUME NEW w \in Wrapper, Lock(w)
      PROVE  HurtOK'
  BY <1>2 DEF Lock, Goto, Locked, Shape, Place, Alone, LockedByWrapper, LastSync, HurtOK, Synced
<1>3. ASSUME NEW w \in Wrapper, LoadStart(w)
      PROVE  HurtOK'
  BY <1>3 DEF LoadStart, Goto, Shape, Place, Alone, LockedByWrapper, LastSync, HurtOK, Synced
<1>4. ASSUME NEW w \in Wrapper, LoadEnd(w)
      PROVE  HurtOK'
  BY <1>4 DEF LoadEnd, Goto, Shape, Place, Alone, LockedByWrapper, LastSync, HurtOK, Synced
<1>5. ASSUME NEW w \in Wrapper, LoadFails(w)
      PROVE  HurtOK'
  BY <1>5 DEF LoadFails, Goto, Shape, Place, Alone, LockedByWrapper, LastSync, HurtOK, Synced
<1>6. ASSUME NEW w \in Wrapper, Timer(w)
      PROVE  HurtOK'
  BY <1>6 DEF Timer, Goto, Shape, Place, Alone, LockedByWrapper, LastSync, HurtOK, Synced
<1>7. ASSUME NEW w \in Wrapper, FirefoxDone(w)
      PROVE  HurtOK'
  BY <1>7 DEF FirefoxDone, Goto, Shape, Place, Alone, LockedByWrapper, LastSync, HurtOK, Synced
<1>8. ASSUME NEW w \in Wrapper, Signal(w)
      PROVE  HurtOK'
  BY <1>8 DEF Signal, Goto, Shape, Place, Alone, LockedByWrapper, LastSync, HurtOK, Synced
<1>9. ASSUME NEW w \in Wrapper, SignalEarly(w)
      PROVE  HurtOK'
  BY <1>9 DEF SignalEarly, Goto, Shape, Place, Alone, LockedByWrapper, LastSync, HurtOK, Synced
<1>10. ASSUME NEW w \in Wrapper, KillFirefox(w)
      PROVE  HurtOK'
  BY <1>10 DEF KillFirefox, Goto, Shape, Place, Alone, LockedByWrapper, LastSync, HurtOK, Synced
<1>11. ASSUME NEW w \in Wrapper, SaveStart(w)
      PROVE  HurtOK'
  BY <1>11 DEF SaveStart, Goto, Shape, Place, Alone, LockedByWrapper, LastSync, HurtOK, Synced
<1>12. ASSUME NEW w \in Wrapper, SaveEnd(w)
      PROVE  HurtOK'
  BY <1>12 DEF SaveEnd, Goto, Shape, Place, Alone, LockedByWrapper, LastSync, HurtOK, Synced
<1>13. ASSUME NEW w \in Wrapper, SaveFails(w)
      PROVE  HurtOK'
  BY <1>13 DEF SaveFails, Goto, Shape, Place, Alone, LockedByWrapper, LastSync, HurtOK, Synced
<1>14. ASSUME NEW w \in Wrapper, Kill(w)
      PROVE  HurtOK'
  BY <1>14 DEF Kill, Goto, Shape, Place, Alone, LockedByWrapper, LastSync, HurtOK, Synced
<1>15. ASSUME NEW w \in Wrapper, FirefoxStarts(w)
      PROVE  HurtOK'
  BY <1>15 DEF FirefoxStarts, Shape, Place, Alone, LockedByWrapper, LastSync, HurtOK, Synced
<1>16. ASSUME NEW w \in Wrapper, FirefoxWrites(w)
      PROVE  HurtOK'
  BY <1>16 DEF FirefoxWrites, Shape, Place, Alone, LockedByWrapper, LastSync, HurtOK, Synced
<1>17. ASSUME NEW w \in Wrapper, FirefoxQuits(w)
      PROVE  HurtOK'
  BY <1>17 DEF FirefoxQuits, Shape, Place, Alone, LockedByWrapper, LastSync, HurtOK, Synced
<1>18. CASE Reboot
  BY <1>18 DEF Reboot, Shape, Place, Alone, LockedByWrapper, LastSync, HurtOK, Synced
<1>19. CASE UNCHANGED vars
  BY <1>19 DEF vars, Shape, Place, Alone, LockedByWrapper, LastSync, HurtOK, Synced
<1> QED
  BY <1>1, <1>2, <1>3, <1>4, <1>5, <1>6, <1>7, <1>8, <1>9, <1>10, <1>11, <1>12, <1>13, <1>14, <1>15, <1>16, <1>17, <1>18, <1>19 DEF Next, Runs, Loads, Saves

\* The good copy is not overwritten.
LEMMA GoodStep ==
    ASSUME Shape, Alone, LastSync, GoodOK, [Next]_vars
    PROVE  GoodOK'
<1>1. ASSUME NEW w \in Wrapper, Start(w)
      PROVE  GoodOK'
  BY <1>1, TornProfile DEF Start, Goto, Shape, Place, Alone, LockedByWrapper, LastSync, GoodOK, Synced
<1>2. ASSUME NEW w \in Wrapper, Lock(w)
      PROVE  GoodOK'
  BY <1>2, TornProfile DEF Lock, Goto, Locked, Shape, Place, Alone, LockedByWrapper, LastSync, GoodOK, Synced
<1>3. ASSUME NEW w \in Wrapper, LoadStart(w)
      PROVE  GoodOK'
  BY <1>3, TornProfile DEF LoadStart, Goto, Shape, Place, Alone, LockedByWrapper, LastSync, GoodOK, Synced
<1>4. ASSUME NEW w \in Wrapper, LoadEnd(w)
      PROVE  GoodOK'
  BY <1>4, TornProfile DEF LoadEnd, Goto, Shape, Place, Alone, LockedByWrapper, LastSync, GoodOK, Synced
<1>5. ASSUME NEW w \in Wrapper, LoadFails(w)
      PROVE  GoodOK'
  BY <1>5, TornProfile DEF LoadFails, Goto, Shape, Place, Alone, LockedByWrapper, LastSync, GoodOK, Synced
<1>6. ASSUME NEW w \in Wrapper, Timer(w)
      PROVE  GoodOK'
  BY <1>6, TornProfile DEF Timer, Goto, Shape, Place, Alone, LockedByWrapper, LastSync, GoodOK, Synced
<1>7. ASSUME NEW w \in Wrapper, FirefoxDone(w)
      PROVE  GoodOK'
  BY <1>7, TornProfile DEF FirefoxDone, Goto, Shape, Place, Alone, LockedByWrapper, LastSync, GoodOK, Synced
<1>8. ASSUME NEW w \in Wrapper, Signal(w)
      PROVE  GoodOK'
  BY <1>8, TornProfile DEF Signal, Goto, Shape, Place, Alone, LockedByWrapper, LastSync, GoodOK, Synced
<1>9. ASSUME NEW w \in Wrapper, SignalEarly(w)
      PROVE  GoodOK'
  BY <1>9, TornProfile DEF SignalEarly, Goto, Shape, Place, Alone, LockedByWrapper, LastSync, GoodOK, Synced
<1>10. ASSUME NEW w \in Wrapper, KillFirefox(w)
      PROVE  GoodOK'
  BY <1>10, TornProfile DEF KillFirefox, Goto, Shape, Place, Alone, LockedByWrapper, LastSync, GoodOK, Synced
<1>11. ASSUME NEW w \in Wrapper, SaveStart(w)
      PROVE  GoodOK'
  BY <1>11, TornProfile DEF SaveStart, Goto, Shape, Place, Alone, LockedByWrapper, LastSync, GoodOK, Synced
<1>12. ASSUME NEW w \in Wrapper, SaveEnd(w)
      PROVE  GoodOK'
  <2>1. /\ pc[w] = "saving" /\ mem' = mem /\ pc' \in [Wrapper -> Place]
        /\ pc' = [pc EXCEPT ![w] = IF w \in left \/ done[w] THEN "off" ELSE "select"]
        /\ bad' = ((bad \/ w \in left) /\ ~disk'.good)
        /\ mem \in Profile \/ mem = None
    BY <1>12 DEF SaveEnd, Goto, Shape, Place
  <2>2. \A x \in Wrapper : x # w => pc'[x] \notin Synced
    BY <2>1 DEF Alone, LockedByWrapper, Synced, Shape
  <2>3. mem # None /\ mem \in Profile
    BY <2>1 DEF Shape
  <2>4. disk' = mem \/ (~disk'.good /\ mem # source[w])
    BY <1>12, <2>3, TornProfile DEF SaveEnd
  <2>5. bad \/ mem.good
    BY <2>1 DEF GoodOK, Synced
  <2>6. w \in left \/ done[w] => pc'[w] = "off"
    BY <2>1 DEF Shape
  <2>7. ~(w \in left \/ done[w]) => pc'[w] = "select"
    BY <2>1 DEF Shape
  <2>8. CASE disk'.good
    BY <2>1, <2>2, <2>4, <2>6, <2>7, <2>8 DEF GoodOK, Synced
  <2>9. CASE ~disk'.good
    <3>1. done[w] => mem = source[w]
      BY <2>1 DEF LastSync
    <3> QED
      BY <2>1, <2>4, <2>5, <2>7, <2>9, <3>1 DEF GoodOK, Synced
  <2> QED
    BY <2>8, <2>9
<1>13. ASSUME NEW w \in Wrapper, SaveFails(w)
      PROVE  GoodOK'
  <2>1. /\ pc[w] = "saving" /\ mem' = mem /\ disk' = disk /\ disk.good \in BOOLEAN
        /\ pc' = [pc EXCEPT ![w] = IF w \in left \/ done[w] THEN "off" ELSE "select"]
        /\ bad' = IF done[w] \/ w \in left THEN ~disk.good ELSE bad
    BY <1>13 DEF SaveFails, Goto, Shape, Profile
  <2>2. \A x \in Wrapper : x # w => pc'[x] \notin Synced
    BY <2>1 DEF Alone, LockedByWrapper, Synced, Shape
  <2>3. bad \/ mem.good
    BY <2>1 DEF GoodOK, Synced
  <2>4. CASE w \in left \/ done[w]
    <3>1. pc'[w] = "off"
      BY <2>1, <2>4 DEF Shape
    <3> QED
      BY <2>1, <2>2, <2>4, <3>1 DEF GoodOK, Synced
  <2>5. CASE ~(w \in left \/ done[w])
    <3>1. pc'[w] = "select"
      BY <2>1, <2>5 DEF Shape
    <3> QED
      BY <2>1, <2>3, <2>5, <3>1 DEF GoodOK, Synced
  <2> QED
    BY <2>4, <2>5
<1>14. ASSUME NEW w \in Wrapper, Kill(w)
      PROVE  GoodOK'
  <2>1. disk.good \/ bad'
    BY <1>14 DEF Kill, Shape
  <2>2. \/ pc' = [pc EXCEPT ![w] = "off"]
        \/ pc' = pc
    BY <1>14 DEF Kill, Goto
  <2>3. bad => bad'
    BY <1>14 DEF Kill
  <2>4. disk' = disk /\ mem' = mem /\ pc[w] \notin {"off", "lock"}
    BY <1>14 DEF Kill
  <2> QED
    BY <2>1, <2>2, <2>3, <2>4 DEF Shape, Alone, LockedByWrapper, GoodOK, Synced
<1>15. ASSUME NEW w \in Wrapper, FirefoxStarts(w)
      PROVE  GoodOK'
  BY <1>15, TornProfile DEF FirefoxStarts, Shape, Place, Alone, LockedByWrapper, LastSync, GoodOK, Synced
<1>16. ASSUME NEW w \in Wrapper, FirefoxWrites(w)
      PROVE  GoodOK'
  BY <1>16, TornProfile, NewProfile DEF FirefoxWrites, Shape, Place, Alone, LockedByWrapper, LastSync, GoodOK, Synced
<1>17. ASSUME NEW w \in Wrapper, FirefoxQuits(w)
      PROVE  GoodOK'
  BY <1>17, TornProfile DEF FirefoxQuits, Shape, Place, Alone, LockedByWrapper, LastSync, GoodOK, Synced
<1>18. CASE Reboot
  BY <1>18, TornProfile DEF Reboot, Shape, Place, Alone, LockedByWrapper, LastSync, GoodOK, Synced
<1>19. CASE UNCHANGED vars
  BY <1>19 DEF vars, Shape, Place, Alone, LockedByWrapper, LastSync, GoodOK, Synced
<1> QED
  BY <1>1, <1>2, <1>3, <1>4, <1>5, <1>6, <1>7, <1>8, <1>9, <1>10, <1>11, <1>12, <1>13, <1>14, <1>15, <1>16, <1>17, <1>18, <1>19 DEF Next, Runs, Loads, Saves

-----------------------------------------------------------------------------
(* The invariants.                                                         *)

\* The invariant holds at first.
LEMMA InitHolds == Init => FInv
<1> SUFFICES ASSUME Init PROVE FInv
  OBVIOUS
<1>1. disk \in Profile /\ mem = None /\ source \in [Wrapper -> Profile \cup {None}]
  BY NewProfile, FirefoxAssumption DEF Init, Profile
<1>2. Shape
  BY <1>1 DEF Init, Shape, Place
<1>3. Alone /\ LastSync /\ HurtOK
  BY DEF Init, Alone, LockedByWrapper, LastSync, HurtOK, Synced
<1>4. GoodOK
  BY DEF Init, GoodOK, Synced
<1> QED
  BY <1>2, <1>3, <1>4 DEF FInv

\* Every step keeps it.
LEMMA Kept == FInv /\ [Next]_vars => FInv'
  BY ShapeStep, AloneStep, LastSyncStep, HurtStep, GoodStep DEF FInv

\* So it holds always.
LEMMA Inductive == Spec => []FInv
  BY InitHolds, Kept, PTL DEF Spec

\* A firefox runs, and an rsync goes on without its wrapper, only where the
\* wrapper could leave them; the profile is in memory when someone is past the
\* lock (firefox.go:40-125).
THEOREM TypesHold == Spec => []TypeOK
<1>1. FInv => TypeOK
  BY DEF FInv, Shape, Place, TypeOK
<1> QED
  BY <1>1, Inductive, PTL

\* Only one wrapper is past the lock, and the profile is not replaced while a
\* firefox uses it (firefox.go:48-63), whoever is killed.
THEOREM LockHeldByOne == Spec => []OneUser
<1>1. FInv => OneUser
  <2> SUFFICES ASSUME FInv PROVE OneUser
    OBVIOUS
  <2>1. \A w \in Wrapper : pc[w] \in {"tomem", "loading"} => firefox = {}
    BY DEF FInv, Alone, LockedByWrapper
  <2>2. LockedByWrapper = {} \/ \E w \in Wrapper : LockedByWrapper = {w}
    BY DEF FInv, Alone, LockedByWrapper
  <2>3. Cardinality(LockedByWrapper) \in {0, 1}
    BY <2>2, FS_EmptySet, FS_Singleton
  <2> QED
    BY <2>1, <2>3 DEF OneUser
<1> QED
  BY <1>1, Inductive, PTL

\* After a run that ended in a sync the disk has what firefox wrote last
\* (firefox.go:91-99).
THEOREM SyncedAtExit == Spec => []CleanExit
  BY Inductive, PTL DEF FInv, HurtOK, CleanExit

\* In the middle of any sync there is a good copy of the profile, but after a
\* run that ended before its sync while the disk was not good (firefox.go:65-99).
THEOREM GoodCopyKept == Spec => []SomeGoodCopy
  BY Inductive, PTL DEF FInv, GoodOK, SomeGoodCopy
==============================================================================
