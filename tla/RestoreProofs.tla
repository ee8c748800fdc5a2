---------------------------- MODULE RestoreProofs ----------------------------
(***************************************************************************)
(* Proofs about Restore, for any names, contents, globs and number of      *)
(* changes: what -t gives back, what diff is silent about, what a save     *)
(* leaves at the head, and what a restore that gets through has restored.  *)
(***************************************************************************)
EXTENDS Restore, SequenceTheorems, WellFoundedInduction, TLAPS

Restoring == phase \in {"remove", "fetch"}

Typed ==
    /\ disk \in [Name -> Node] /\ rev \in [Name -> Seq(Node)]
    /\ now \in 1..MaxClock
    /\ past \in Seq([Name -> Node]) /\ Len(past) = now - 1
    /\ kept \in [Name -> SUBSET (0..MaxClock)] /\ backdated \subseteq Name
    /\ phase \in {"idle", "remove", "fetch", "done"}
    /\ todo \subseteq request.files /\ request.files \subseteq Listed
    /\ spoilt \subseteq Name /\ astray \subseteq Name
    /\ request.t \in Nat

\* What is below a path is below a directory.
Tree == \A n \in Name : Exists(n) => \A m \in Above(n) : disk[m].kind = "dir"

\* Files bear the times they came at, and a restore has a tick to itself.
Times == \A n \in Name :
    /\ disk[n].time <= now /\ (disk[n].kind \in Kinds <=> disk[n].time > 0)
    /\ \A i \in DOMAIN past : past[i][n].time <= i /\ (past[i][n].kind \in Kinds => past[i][n].time > 0)
    /\ \A i \in DOMAIN rev[n] : rev[n][i].kind # "dir" /\ rev[n][i].time > 0 /\ rev[n][i].time <= now
    /\ \A k \in kept[n] : k <= now
    /\ Restoring => now \notin kept[n] /\ \A i \in DOMAIN rev[n] : rev[n][i].time < now

\* A time tells which version of a path it is, where no file was given another
\* time than the clock's.
Versions(n) ==
    {disk[n]} \cup {past[i][n] : i \in DOMAIN past} \cup {rev[n][i] : i \in DOMAIN rev[n]}
Told == \A n \in Name \ backdated : \A a, b \in Versions(n) :
    a.kind \in Kinds /\ b.kind \in Kinds /\ a.time = b.time => a = b

\* Of such a path: what is there has been there
\* since its time, and the revisions are in the order of their times.
Lasts(n) == disk[n].kind \in Kinds =>
    \A i \in DOMAIN past : disk[n].time <= i => past[i][n] = disk[n]
Ascending(n) == \A i, j \in DOMAIN rev[n] : i < j => rev[n][i].time < rev[n][j].time
HeadBefore(n) == Stored(n) =>
    IF disk[n].kind \in Kinds
    THEN HeadOf(n).time < disk[n].time \/ HeadOf(n) = disk[n]
    ELSE HeadOf(n).kind \in Kinds => HeadOf(n).time < now
HeadKept(n) == disk[n].kind \in Kinds /\ disk[n].time \in kept[n] =>
    Stored(n) /\ Same(HeadOf(n), disk[n])

\* Revision i is the last of the path at t.
LastAt(n, t, i) ==
    /\ i \in DOMAIN rev[n] /\ rev[n][i].time <= t
    /\ \A j \in DOMAIN rev[n] : j > i => rev[n][j].time > t
Recorded(n) == \A t \in DOMAIN past :
    past[t][n].kind \in Kinds /\ past[t][n].time \in kept[n] =>
        \E i \in DOMAIN rev[n] : LastAt(n, t, i) /\ Same(rev[n][i], past[t][n])

Straight == \A n \in Name \ backdated :
    Lasts(n) /\ Ascending(n) /\ HeadBefore(n) /\ HeadKept(n) /\ Recorded(n)

HInv == Typed /\ Tree /\ Times /\ Told /\ Straight

-----------------------------------------------------------------------------
\* The paths of the list that are visited already, in the order of the list.
Visited(n) == InList(n) /\ n \notin todo
InOrder == \A i, j \in DOMAIN NameOrder :
    Visited(NameOrder[i]) /\ NameOrder[j] \in todo => i < j

Free(n) == InList(n) /\ ~Obstructed(n)
Restored(n) == Same(disk[n], Wanted(n)) \/ (Wanted(n).kind = "none" /\ disk[n].kind = "dir")
Live(n) == Wanted(n).kind \in Kinds

\* While a restore goes on: it makes no files but those of its list, and
\* nothing below them; what was in the way is gone when its turn is over.
OnlyListed == \A m \in Name :
    disk[m].kind \in Kinds => Before[m].kind \in Kinds \/ (InList(m) /\ Live(m))
NothingBelow == \A n \in Name : Free(n) /\ Live(n) /\ n \notin spoilt =>
    \A m \in Beneath(n) : ~Exists(m)
OldGone == \A m \in Name :
    /\ InList(m) /\ ~Live(m)
    /\ m \notin todo \/ (phase = "fetch" /\ m = First(todo))
    => disk[m].kind \notin Kinds
WayIsClear == LET n == First(todo) IN
    /\ todo # {}
    /\ Reachable(disk, n) => \A m \in Above(n) : disk[m].kind = "dir"
    /\ Free(n) => Reachable(disk, n) /\ (Live(n) /\ n \notin spoilt => ~Exists(n))
Untouched == \A m \in Name \ request.files : disk[m] = Before[m] \/ disk[m] = ADir
AllDone == \A n \in Name : Free(n) /\ n \notin todo /\ n \notin spoilt => Restored(n)

RInv ==
    /\ Restoring => now > 1 /\ OnlyListed /\ NothingBelow /\ InOrder /\ OldGone
    /\ phase = "fetch" => WayIsClear
    /\ phase # "idle" => AllDone /\ Untouched
    /\ phase = "done" => todo = {}

-----------------------------------------------------------------------------
(* Paths, and the order they are listed in.                                *)

\* A set of numbers has a least one.
LEMMA Least ==
    ASSUME NEW S \in SUBSET Nat, S # {}
    PROVE  \E i \in S : \A j \in S : i <= j
<1>1. \E i \in S : \A j \in S : ~(<<j, i>> \in OpToRel(<, Nat))
  BY NatLessThanWellFounded, WFMin
<1> QED
  <2>1. PICK i \in S : \A j \in S : ~(<<j, i>> \in OpToRel(<, Nat))
    BY <1>1
  <2>2. ASSUME NEW j \in S
        PROVE  ~(j < i)
    BY <2>1, Zenon DEF OpToRel
  <2> QED
    BY <2>2

\* What it is for a path to be above another one.
LEMMA AboveMeans ==
    ASSUME NEW m \in Name, NEW n \in Name, m \in Above(n)
    PROVE  /\ Len(m) \in Nat /\ Len(n) \in Nat /\ Len(m) + 1 < Len(n)
           /\ \A i \in 1..Len(m) : m[i] = n[i]
           /\ n[Len(m) + 1] = Slash
<1> DEFINE s == m \o <<Slash>>
           Char == STRING \cup {Slash}
<1>1. m \in Seq(Char) /\ n \in Seq(Char) /\ Slash \in Char
  BY RestoreAssumption, SeqMonotonic
<1> HIDE DEF Char
<1>2. /\ s \in Seq(Char) /\ Len(s) = Len(m) + 1 /\ s[Len(m) + 1] = Slash
      /\ \A i \in 1..Len(m) : s[i] = m[i]
  BY <1>1
<1>3. Len(s) <= Len(n) /\ SubSeq(s, 1, Len(s)) = SubSeq(n, 1, Len(s)) /\ s # n
  BY DEF Above, IsStrictPrefix, IsPrefix
<1>4. \A i \in 1..Len(s) : s[i] = n[i]
  <2> SUFFICES ASSUME NEW i \in 1..Len(s)
               PROVE  s[i] = n[i]
    OBVIOUS
  <2>1. SubSeq(s, 1, Len(s))[i] = s[i] /\ SubSeq(n, 1, Len(s))[i] = n[i]
    BY <1>1, <1>2, <1>3
  <2> QED
    BY <1>3, <2>1
<1>5. Len(s) # Len(n)
  BY <1>1, <1>2, <1>3, <1>4, SeqEqual
<1>6. Len(m) + 1 < Len(n)
  BY <1>1, <1>2, <1>3, <1>5
<1>7. \A i \in 1..Len(m) : i \in 1..Len(s)
  BY <1>1, <1>2
<1>8. n[Len(m) + 1] = Slash
  <2>1. Len(m) + 1 \in 1..Len(s)
    BY <1>1, <1>2
  <2> QED
    BY <1>2, <1>4, <2>1
<1> QED
  BY <1>1, <1>2, <1>4, <1>6, <1>7, <1>8

\* When a name begins with another and a slash, it is below it.
LEMMA AboveIf ==
    ASSUME NEW m \in Name, NEW n \in Name, Len(m) + 1 < Len(n), n[Len(m) + 1] = Slash,
           \A i \in 1..Len(m) : m[i] = n[i]
    PROVE  m \in Above(n)
<1> DEFINE s == m \o <<Slash>>
           Char == STRING \cup {Slash}
<1>1. m \in Seq(Char) /\ n \in Seq(Char) /\ Slash \in Char
  BY RestoreAssumption, SeqMonotonic
<1> HIDE DEF Char
<1>2. /\ s \in Seq(Char) /\ Len(s) = Len(m) + 1 /\ s[Len(m) + 1] = Slash
      /\ \A i \in 1..Len(m) : s[i] = m[i]
  BY <1>1
<1>3. /\ SubSeq(s, 1, Len(s)) \in Seq(Char) /\ SubSeq(n, 1, Len(s)) \in Seq(Char)
      /\ Len(SubSeq(s, 1, Len(s))) = Len(s) /\ Len(SubSeq(n, 1, Len(s))) = Len(s)
      /\ \A i \in 1..Len(s) : SubSeq(s, 1, Len(s))[i] = s[i] /\ SubSeq(n, 1, Len(s))[i] = n[i]
  BY <1>1, <1>2
<1>4. \A i \in 1..Len(s) : s[i] = n[i]
  BY <1>1, <1>2
<1>5. SubSeq(s, 1, Len(s)) = SubSeq(n, 1, Len(s))
  BY <1>3, <1>4, SeqEqual
<1> QED
  BY <1>1, <1>2, <1>5 DEF Above, IsStrictPrefix, IsPrefix

\* Being above is a strict order, and the list goes from above to below.
LEMMA PathFacts ==
    /\ \A m, n \in Name : m \in Beneath(n) <=> n \in Above(m)
    /\ \A n : Above(n) \subseteq Name /\ Beneath(n) \subseteq Name
    /\ \A n \in Name : n \notin Above(n)
    /\ \A k, m, n \in Name : k \in Above(m) /\ m \in Above(n) => k \in Above(n)
    /\ \A i, j \in DOMAIN NameOrder : NameOrder[i] \in Above(NameOrder[j]) => i < j
<1>1. /\ \A m, n \in Name : m \in Beneath(n) <=> n \in Above(m)
      /\ \A n : Above(n) \subseteq Name /\ Beneath(n) \subseteq Name
  BY DEF Above, Beneath
<1>2. \A n \in Name : n \notin Above(n)
  BY AboveMeans
<1>3. ASSUME NEW k \in Name, NEW m \in Name, NEW n \in Name, k \in Above(m), m \in Above(n)
      PROVE  k \in Above(n)
  <2>1. /\ Len(k) \in Nat /\ Len(m) \in Nat /\ Len(k) + 1 < Len(m) /\ m[Len(k) + 1] = Slash
        /\ \A i \in 1..Len(k) : k[i] = m[i]
    BY <1>3, AboveMeans
  <2>2. /\ Len(n) \in Nat /\ Len(m) + 1 < Len(n)
        /\ \A i \in 1..Len(m) : m[i] = n[i]
    BY <1>3, AboveMeans
  <2>3. /\ Len(k) + 1 < Len(n) /\ n[Len(k) + 1] = Slash
        /\ \A i \in 1..Len(k) : k[i] = n[i]
    BY <2>1, <2>2
  <2> QED
    BY <2>3, AboveIf
<1>4. ASSUME NEW i \in DOMAIN NameOrder, NEW j \in DOMAIN NameOrder, NameOrder[i] \in Above(NameOrder[j])
      PROVE  i < j
  <2> DEFINE m == NameOrder[i]
             n == NameOrder[j]
  <2>1. m \in Name /\ n \in Name /\ m \in Seq(STRING) /\ n \in Seq(STRING)
    BY RestoreAssumption
  <2>2. /\ Len(m) \in Nat /\ Len(n) \in Nat /\ Len(m) + 1 < Len(n)
        /\ \A l \in 1..Len(m) : m[l] = n[l]
    BY <1>4, <2>1, AboveMeans
  <2>3. SubSeq(m, 1, Len(m)) = SubSeq(n, 1, Len(m))
    <3> HIDE DEF m, n
    <3>1. /\ SubSeq(m, 1, Len(m)) \in Seq(STRING) /\ SubSeq(n, 1, Len(m)) \in Seq(STRING)
          /\ Len(SubSeq(m, 1, Len(m))) = Len(m) /\ Len(SubSeq(n, 1, Len(m))) = Len(m)
          /\ \A l \in 1..Len(m) : SubSeq(m, 1, Len(m))[l] = m[l] /\ SubSeq(n, 1, Len(m))[l] = n[l]
      BY <2>1, <2>2
    <3> QED
      BY <2>2, <3>1, SeqEqual
  <2>4. IsStrictPrefix(m, n)
    BY <2>2, <2>3 DEF IsStrictPrefix, IsPrefix
  <2> QED
    BY <2>4, RestoreAssumption
<1> QED
  BY <1>1, <1>2, <1>3, <1>4

\* The first of some paths is one of them, and none of them is listed before.
LEMMA FirstFacts ==
    ASSUME NEW S \in SUBSET Name, S # {}
    PROVE  /\ First(S) \in S
           /\ \A i, j \in DOMAIN NameOrder :
                NameOrder[i] = First(S) /\ NameOrder[j] \in S => i <= j
<1> DEFINE T == {i \in DOMAIN NameOrder : NameOrder[i] \in S}
           f == CHOOSE i \in DOMAIN NameOrder :
                  NameOrder[i] \in S /\ \A j \in 1..i - 1 : NameOrder[j] \notin S
<1>1. DOMAIN NameOrder = 1..Len(NameOrder) /\ Len(NameOrder) \in Nat
  BY RestoreAssumption
<1>2. T \in SUBSET Nat /\ T # {}
  BY <1>1, RestoreAssumption DEF Range
<1>3. PICK i \in T : \A j \in T : i <= j
  BY <1>2, Least
<1>4. i \in DOMAIN NameOrder /\ NameOrder[i] \in S /\ \A j \in 1..i - 1 : NameOrder[j] \notin S
  BY <1>1, <1>3
<1>5. f \in DOMAIN NameOrder /\ NameOrder[f] \in S /\ \A j \in 1..f - 1 : NameOrder[j] \notin S
  BY <1>4
<1>6. First(S) = NameOrder[f]
  BY DEF First
<1> HIDE DEF f
<1>7. \A j \in DOMAIN NameOrder : NameOrder[j] \in S => f <= j
  BY <1>1, <1>5
<1> QED
  BY <1>5, <1>6, <1>7, RestoreAssumption

\* What is above a path is listed before it: it is no longer to be visited
\* when the path is the first.
LEMMA AboveFirst ==
    ASSUME NEW S \in SUBSET Name, S # {}, NEW m \in Name, m \in Above(First(S))
    PROVE  m \notin S
<1>1. PICK i \in DOMAIN NameOrder : NameOrder[i] = m
  BY RestoreAssumption DEF Range
<1>2. First(S) \in S /\ First(S) \in Name
  BY FirstFacts
<1>3. PICK j \in DOMAIN NameOrder : NameOrder[j] = First(S)
  BY <1>2, RestoreAssumption DEF Range
<1>4. i < j /\ i \in Nat /\ j \in Nat
  BY <1>1, <1>3, PathFacts, RestoreAssumption
<1> QED
  BY <1>1, <1>3, <1>4, FirstFacts

-----------------------------------------------------------------------------
(* Revisions.                                                              *)

\* Times and kinds are what they should be.
LEMMA Fields ==
    ASSUME Typed
    PROVE  /\ \A n \in Name : disk[n] \in Node /\ disk[n].time \in Nat
           /\ \A n \in Name : rev[n] \in Seq(Node) /\ Len(rev[n]) \in Nat /\ DOMAIN rev[n] = 1..Len(rev[n])
           /\ \A n \in Name : \A i \in DOMAIN rev[n] : rev[n][i] \in Node /\ rev[n][i].time \in Nat
           /\ DOMAIN past = 1..now - 1
           /\ \A n \in Name : \A i \in DOMAIN past : past[i][n] \in Node /\ past[i][n].time \in Nat
           /\ now \in Nat /\ now <= MaxClock /\ MaxClock \in Nat
           /\ None \in Node /\ ADir \in Node /\ None.time = 0 /\ ADir.time = 0
           /\ None.kind = "none" /\ ADir.kind = "dir"
           /\ \A d \in Node : d.kind \in {"none", "dir"} \cup Kinds /\ d.time \in 0..MaxClock
<1>1. MaxClock \in Nat /\ now \in 1..MaxClock
  BY RestoreAssumption DEF Typed
<1>2. \A d \in Node : d.kind \in {"none", "dir"} \cup Kinds /\ d.time \in 0..MaxClock
  BY DEF Node
<1>3. None \in Node /\ ADir \in Node /\ None.time = 0 /\ ADir.time = 0
      /\ None.kind = "none" /\ ADir.kind = "dir"
  BY <1>1 DEF None, ADir, Node
<1>4. \A n \in Name : disk[n] \in Node /\ rev[n] \in Seq(Node)
  BY DEF Typed
<1>5. \A n \in Name : \A i \in DOMAIN rev[n] : rev[n][i] \in Node
  BY <1>4
<1>6. \A n \in Name : Len(rev[n]) \in Nat /\ DOMAIN rev[n] = 1..Len(rev[n])
  BY <1>4
<1>7. DOMAIN past = 1..now - 1 /\ \A i \in DOMAIN past : past[i] \in [Name -> Node]
  BY DEF Typed
<1> QED
  BY <1>1, <1>2, <1>3, <1>4, <1>5, <1>6, <1>7

\* The head is one of the revisions.
LEMMA HeadFacts ==
    ASSUME Typed, NEW n \in Name, Stored(n)
    PROVE  /\ Len(rev[n]) \in DOMAIN rev[n] /\ Len(rev[n]) \in Nat
           /\ HeadOf(n) = rev[n][Len(rev[n])] /\ HeadOf(n) \in Node
           /\ \A j \in DOMAIN rev[n] : j \in Nat /\ j <= Len(rev[n])
<1>1. rev[n] \in Seq(Node) /\ rev[n] # <<>>
  BY DEF Typed, Stored
<1> QED
  BY <1>1 DEF HeadOf, Last

\* revfetch gives back a revision that is old enough, or a deleted file.
LEMMA RevAtFacts ==
    ASSUME Typed, Times, NEW n \in Name, Stored(n), NEW t \in Nat
    PROVE  /\ \/ RevAt(n, t) = Deleted
              \/ \E i \in DOMAIN rev[n] : RevAt(n, t) = rev[n][i] /\ rev[n][i].time <= t
           /\ RevAt(n, t) \in Node /\ RevAt(n, t).kind \in Kinds \cup {"none"}
<1> DEFINE old == {i \in DOMAIN rev[n] : rev[n][i].time <= t}
           latest == {i \in old : \A j \in old : rev[n][j].time <= rev[n][i].time}
           c == CHOOSE i \in latest : \A j \in latest : i <= j
<1>0. \A i \in DOMAIN rev[n] : rev[n][i].time \in Nat /\ i \in Nat
  BY Fields
<1>4. \/ RevAt(n, t) = Deleted
      \/ \E i \in DOMAIN rev[n] : RevAt(n, t) = rev[n][i] /\ rev[n][i].time <= t
  <2>1. CASE IsHead(n, t)
    <3>1. RevAt(n, t) = HeadOf(n) /\ HeadOf(n).time <= t
      BY <2>1 DEF IsHead, RevAt
    <3> QED
      BY <3>1, HeadFacts
  <2>2. CASE ~IsHead(n, t) /\ old = {}
    BY <2>2 DEF RevAt
  <2>3. CASE ~IsHead(n, t) /\ old # {}
    <3> DEFINE ages == {t - rev[n][i].time : i \in old}
    <3>0. \A i \in old : rev[n][i].time \in Nat /\ rev[n][i].time <= t /\ t - rev[n][i].time \in Nat
      BY <1>0
    <3>1. ages \in SUBSET Nat /\ ages # {}
      <4> HIDE DEF old
      <4> QED
        BY <2>3, <3>0
    <3>2. PICK a \in ages : \A b \in ages : a <= b
      BY <3>1, Least
    <3>3. PICK i \in old : a = t - rev[n][i].time
      BY <3>2
    <3>4. i \in latest
      <4>1. \A j \in old : t - rev[n][i].time <= t - rev[n][j].time
        BY <3>2, <3>3
      <4>2. \A j \in old : rev[n][j].time <= rev[n][i].time
        BY <3>0, <4>1
      <4> QED
        BY <4>2
    <3>5. latest \in SUBSET Nat /\ latest # {}
      BY <1>0, <3>4
    <3>6. \E k \in latest : \A j \in latest : k <= j
      BY <3>5, Least
    <3>7. c \in latest
      BY <3>6
    <3>8. RevAt(n, t) = rev[n][c]
      BY <2>3 DEF RevAt
    <3> HIDE DEF c
    <3> QED
      BY <3>7, <3>8
  <2> QED
    BY <2>1, <2>2, <2>3
<1>5. Deleted.kind = "none" /\ Deleted \in Node
  BY Fields DEF Deleted
<1>6. \A i \in DOMAIN rev[n] : rev[n][i] \in Node /\ rev[n][i].kind \in Kinds \cup {"none"}
  BY Fields DEF Times
<1> HIDE DEF old, latest, c
<1> QED
  BY <1>4, <1>5, <1>6

\* Where the revisions are in the order of their times it is the last one.
LEMMA RevAtLast ==
    ASSUME Typed, NEW n \in Name, Stored(n), Ascending(n), NEW t \in Nat, NEW i, LastAt(n, t, i)
    PROVE  RevAt(n, t) = rev[n][i]
<1> DEFINE old == {k \in DOMAIN rev[n] : rev[n][k].time <= t}
           latest == {k \in old : \A j \in old : rev[n][j].time <= rev[n][k].time}
           c == CHOOSE k \in latest : \A j \in latest : k <= j
<1>0. \A k \in DOMAIN rev[n] : rev[n][k].time \in Nat /\ k \in Nat
  BY Fields
<1>1. i \in DOMAIN rev[n] /\ i \in old /\ \A j \in old : j <= i
  BY <1>0 DEF LastAt
<1>2. CASE IsHead(n, t)
  <2>1. Len(rev[n]) \in old
    BY <1>2, HeadFacts DEF IsHead
  <2>2. Len(rev[n]) = i
    BY <1>1, <2>1, HeadFacts
  <2> QED
    BY <1>2, <2>2, HeadFacts DEF RevAt
<1>3. CASE ~IsHead(n, t)
  <2>1. \A j \in old : j = i \/ rev[n][j].time < rev[n][i].time
    BY <1>0, <1>1 DEF Ascending
  <2>2. latest = {i}
    BY <1>0, <1>1, <2>1
  <2>3. c = i
    BY <1>0, <1>1, <2>2
  <2>4. RevAt(n, t) = rev[n][c]
    BY <1>1, <1>3 DEF RevAt
  <2> QED
    BY <2>3, <2>4
<1> QED
  BY <1>2, <1>3

\* Without -t, and for any time from now on, it is the head.
LEMMA RevAtHead ==
    ASSUME Typed, Times, NEW n \in Name, Stored(n), NEW t \in Nat, now <= t
    PROVE  RevAt(n, t) = HeadOf(n)
  BY HeadFacts, Fields DEF Times, RevAt, IsHead

\* A step keeps the versions of a path apart that adds none to what there was,
\* but a file that bears a time of its own.
LEMMA ToldStep ==
    ASSUME Told, backdated \subseteq backdated',
           ASSUME NEW n \in Name, n \notin backdated'
           PROVE  /\ \A v \in Versions(n)' : v = disk'[n] \/ v \in Versions(n) \/ v.kind \notin Kinds
                  /\ \/ disk'[n] \in Versions(n)
                     \/ disk'[n].kind \notin Kinds
                     \/ \A v \in Versions(n)' : v.kind \in Kinds /\ v # disk'[n] => v.time # disk'[n].time
    PROVE  Told'
<1> SUFFICES ASSUME NEW n \in Name, n \notin backdated', NEW a \in Versions(n)', NEW b \in Versions(n)',
                    a.kind \in Kinds, b.kind \in Kinds, a.time = b.time
             PROVE  a = b
  BY DEF Told
<1>0. \A c, d \in Versions(n) : c.kind \in Kinds /\ d.kind \in Kinds /\ c.time = d.time => c = d
  BY DEF Told
<1>1. /\ \A v \in Versions(n)' : v = disk'[n] \/ v \in Versions(n) \/ v.kind \notin Kinds
      /\ \/ disk'[n] \in Versions(n)
         \/ disk'[n].kind \notin Kinds
         \/ \A v \in Versions(n)' : v.kind \in Kinds /\ v # disk'[n] => v.time # disk'[n].time
  OBVIOUS
<1>2. CASE disk'[n] \in Versions(n)
  BY <1>0, <1>1, <1>2
<1>3. CASE disk'[n].kind \notin Kinds
  BY <1>0, <1>1, <1>3
<1>4. CASE \A v \in Versions(n)' : v.kind \in Kinds /\ v # disk'[n] => v.time # disk'[n].time
  BY <1>0, <1>1, <1>4
<1> QED
  BY <1>1, <1>2, <1>3, <1>4

\* When no restore runs any more, nothing is left of it.
LEMMA Ended ==
    ASSUME NoRestore
    PROVE  /\ phase' = "idle" /\ todo' \subseteq request'.files /\ request'.files \subseteq Listed'
           /\ spoilt' \subseteq Name /\ astray' \subseteq Name
           /\ (MaxClock \in Nat => request'.t \in Nat) /\ RInv'
<1>1. phase' = "idle" /\ request' = NoRequest /\ todo' = {} /\ spoilt' = {} /\ astray' = {}
  BY DEF NoRestore
<1>2. RInv'
  BY <1>1 DEF RInv, Restoring
<1> QED
  BY <1>1, <1>2 DEF NoRequest, NoTime

-----------------------------------------------------------------------------
(* The steps of the user.                                                  *)

\* A change of the tree: what is put there bears the next tick, or an earlier
\* time, and the path is then no longer straight.
LEMMA ChangeSafe ==
    ASSUME HInv, NEW n \in Name, Change(n)
    PROVE  HInv' /\ RInv'
<1>0. Typed /\ Tree /\ Times /\ Told /\ Straight
  BY DEF HInv
<1>1. /\ phase' = "idle" /\ NoRestore /\ now' = now + 1 /\ now < MaxClock /\ past' = Append(past, disk)
      /\ UNCHANGED <<rev, kept>>
      /\ backdated \subseteq backdated' /\ backdated' \subseteq Name
  BY <1>0 DEF Change, Tick, Typed, NoRestore
<1> DEFINE New(k, c, time) == [kind |-> k, content |-> c, time |-> time]
           Removed == [m \in Name |-> IF m = n \/ m \in Beneath(n) THEN None ELSE disk[m]]
<1>2. \/ \E d \in Node : /\ d.kind \in Kinds
                         /\ disk' = Put(disk, n, d)
                         /\ d.time = now + 1 \/ (n \in backdated' /\ d.time > 0 /\ d.time <= now)
      \/ disk' = Removed
  <2>1. \A k \in Kinds, c \in Content, time \in 1..now + 1 :
          /\ New(k, c, time) \in Node /\ New(k, c, time).kind \in Kinds /\ New(k, c, time).time = time
          /\ time = now + 1 \/ (time > 0 /\ time <= now)
    BY <1>0, <1>1, Fields DEF Node
  <2>2. ASSUME NEW k \in Kinds, NEW c \in Content, NEW time \in 1..now + 1,
               disk' = Put(disk, n, New(k, c, time)), time <= now => n \in backdated'
        PROVE  \E d \in Node : /\ d.kind \in Kinds
                               /\ disk' = Put(disk, n, d)
                               /\ d.time = now + 1 \/ (n \in backdated' /\ d.time > 0 /\ d.time <= now)
    <3>1. /\ New(k, c, time) \in Node /\ New(k, c, time).kind \in Kinds
          /\ New(k, c, time).time = now + 1
             \/ (n \in backdated' /\ New(k, c, time).time > 0 /\ New(k, c, time).time <= now)
      BY <2>1, <2>2
    <3> HIDE DEF New
    <3> QED
      BY <2>2, <3>1
  <2>3. CASE disk' = Removed
    BY <2>3
  <2> QED
    BY <2>2, <2>3 DEF Change
<1>3. /\ disk' \in [Name -> Node]
      /\ \A m \in Name :
           \/ disk'[m] = disk[m]
           \/ disk'[m].kind \notin Kinds /\ disk'[m].time = 0
           \/ disk'[m].kind \in Kinds /\ disk'[m].time = now + 1
           \/ disk'[m].kind \in Kinds /\ m \in backdated' /\ disk'[m].time > 0 /\ disk'[m].time <= now
  <2>1. disk \in [Name -> Node] /\ None \in Node /\ ADir \in Node /\ "none" \notin Kinds /\ "dir" \notin Kinds
        /\ None.kind = "none" /\ ADir.kind = "dir" /\ None.time = 0 /\ ADir.time = 0
    BY <1>0, Fields DEF Typed, Kinds
  <2> QED
    BY <1>2, <2>1 DEF Put
<1>4. Typed'
  <2>1. past' \in Seq([Name -> Node]) /\ Len(past') = now' - 1 /\ now' \in 1..MaxClock
    BY <1>0, <1>1, RestoreAssumption DEF Typed
  <2> QED
    BY <1>0, <1>1, <1>3, <2>1, Ended, RestoreAssumption DEF Typed
<1>5. Tree'
  <2> SUFFICES ASSUME NEW q \in Name, disk'[q].kind # "none", NEW k \in Above(q)
               PROVE  disk'[k].kind = "dir"
    BY DEF Tree, Exists
  <2>0. k \in Name /\ None.kind = "none" /\ ADir.kind = "dir"
        /\ (disk[q].kind # "none" => disk[k].kind = "dir")
    BY <1>0, PathFacts, Fields DEF Tree, Exists
  <2>1. CASE disk' = Removed
    <3>1. q # n /\ q \notin Beneath(n) /\ disk[q].kind # "none"
      BY <2>0, <2>1
    <3>2. k # n /\ k \notin Beneath(n)
      BY <2>0, <3>1, PathFacts
    <3> QED
      BY <2>0, <2>1, <3>1, <3>2
  <2>2. ASSUME NEW d, disk' = Put(disk, n, d)
        PROVE  disk'[k].kind = "dir"
    <3>1. \A m \in Name : disk'[m] = CASE m = n           -> d
                                       [] m \in Above(n)   -> ADir
                                       [] m \in Beneath(n) -> None
                                       [] OTHER            -> disk[m]
      BY <2>2 DEF Put
    <3>2. \A m \in Name : m \in Above(n) => disk'[m] = ADir
      BY <3>1, PathFacts
    <3>3. q = n \/ q \in Above(n) \/ (q \notin Beneath(n) /\ disk'[q] = disk[q])
      BY <2>0, <3>1
    <3>4. CASE q = n \/ q \in Above(n)
      BY <2>0, <3>2, <3>4, PathFacts
    <3>5. CASE q \notin Beneath(n) /\ disk'[q] = disk[q]
      <4>1. k # n /\ k \notin Beneath(n) /\ disk[k].kind = "dir"
        BY <2>0, <3>5, PathFacts
      <4>2. disk'[k] = ADir \/ disk'[k] = disk[k]
        BY <2>0, <3>1, <4>1
      <4> QED
        BY <2>0, <4>1, <4>2
    <3> QED
      BY <3>3, <3>4, <3>5
  <2> QED
    BY <1>2, <2>1, <2>2
<1>6. DOMAIN past = 1..now - 1 /\ DOMAIN past' = 1..now /\ now \in Nat
      /\ past'[now] = disk /\ \A i \in DOMAIN past : past'[i] = past[i]
  BY <1>0, <1>1 DEF Typed
<1>7. Times'
  <2> SUFFICES ASSUME NEW m \in Name
               PROVE  /\ disk'[m].time <= now' /\ (disk'[m].kind \in Kinds <=> disk'[m].time > 0)
                      /\ \A i \in DOMAIN past' :
                           past'[i][m].time <= i /\ (past'[i][m].kind \in Kinds => past'[i][m].time > 0)
                      /\ \A i \in DOMAIN rev[m] : rev[m][i].kind # "dir" /\ rev[m][i].time > 0 /\ rev[m][i].time <= now'
                      /\ \A k \in kept[m] : k <= now'
    BY <1>1 DEF Times, Restoring
  <2>1. /\ disk[m].time \in Nat /\ disk[m].time <= now /\ (disk[m].kind \in Kinds <=> disk[m].time > 0)
        /\ \A i \in DOMAIN past : past[i][m].time \in Nat /\ past[i][m].time <= i /\ i < now
                                  /\ (past[i][m].kind \in Kinds => past[i][m].time > 0)
    BY <1>0, <1>6, Fields DEF Times
  <2>2. /\ \A i \in DOMAIN rev[m] : rev[m][i].time \in Nat /\ rev[m][i].kind # "dir"
                                    /\ rev[m][i].time > 0 /\ rev[m][i].time <= now
        /\ \A k \in kept[m] : k \in Nat /\ k <= now
    BY <1>0, Fields DEF Times, Typed
  <2>3. /\ disk'[m].time <= now' /\ (disk'[m].kind \in Kinds <=> disk'[m].time > 0)
    <3>1. disk'[m].time \in Nat
      BY <1>0, <1>3, Fields
    <3>2. \/ disk'[m] = disk[m]
          \/ disk'[m].kind \notin Kinds /\ disk'[m].time = 0
          \/ disk'[m].kind \in Kinds /\ disk'[m].time = now + 1
          \/ disk'[m].kind \in Kinds /\ disk'[m].time > 0 /\ disk'[m].time <= now
      BY <1>3
    <3> QED
      BY <1>1, <1>6, <2>1, <3>1, <3>2
  <2>4. \A i \in DOMAIN past' :
           past'[i][m].time <= i /\ (past'[i][m].kind \in Kinds => past'[i][m].time > 0)
    BY <1>6, <2>1
  <2> QED
    BY <1>1, <1>6, <2>2, <2>3, <2>4
<1>8. Told'
  <2>1. ASSUME NEW m \in Name, m \notin backdated'
        PROVE  /\ \A v \in Versions(m)' : v = disk'[m] \/ v \in Versions(m) \/ v.kind \notin Kinds
               /\ \/ disk'[m] \in Versions(m)
                  \/ disk'[m].kind \notin Kinds
                  \/ \A v \in Versions(m)' : v.kind \in Kinds /\ v # disk'[m] => v.time # disk'[m].time
    <3>1. \A v \in Versions(m)' : v = disk'[m] \/ v \in Versions(m)
      BY <1>1, <1>6 DEF Versions
    <3>2. \A v \in Versions(m) : v.time \in Nat /\ v.time <= now
      BY <1>0, <1>6, Fields DEF Versions, Times
    <3>3. CASE disk'[m] = disk[m] \/ disk'[m].kind \notin Kinds
      BY <3>1, <3>3 DEF Versions
    <3>4. CASE disk'[m].time = now + 1
      BY <1>6, <3>1, <3>2, <3>4
    <3> QED
      BY <1>3, <2>1, <3>3, <3>4
  <2> QED
    BY <1>0, <1>1, <2>1, ToldStep
<1>9. Straight'
  <2> SUFFICES ASSUME NEW m \in Name, m \notin backdated'
               PROVE  Lasts(m)' /\ Ascending(m)' /\ HeadBefore(m)' /\ HeadKept(m)' /\ Recorded(m)'
    BY DEF Straight
  <2>0. Lasts(m) /\ Ascending(m) /\ HeadBefore(m) /\ HeadKept(m) /\ Recorded(m)
    BY <1>0, <1>1 DEF Straight
  <2>1. /\ Stored(m)' = Stored(m) /\ HeadOf(m)' = HeadOf(m)
        /\ disk[m].time \in Nat /\ disk[m].time <= now
        /\ \A k \in kept[m] : k \in Nat /\ k <= now
        /\ Stored(m) => HeadOf(m).time \in Nat /\ HeadOf(m).time <= now
    <3>1. Stored(m)' = Stored(m) /\ HeadOf(m)' = HeadOf(m)
      BY <1>1 DEF Stored, HeadOf
    <3>2. \A k \in kept[m] : k \in Nat /\ k <= now
      BY <1>0 DEF Typed, Times
    <3> QED
      BY <1>0, <3>1, <3>2, HeadFacts, Fields DEF Times
  <2>2. \/ disk'[m] = disk[m]
        \/ disk'[m].kind \notin Kinds
        \/ disk'[m].kind \in Kinds /\ disk'[m].time = now + 1
    BY <1>3
  <2>3. Lasts(m)'
    BY <1>6, <2>0, <2>1, <2>2 DEF Lasts
  <2>4. Ascending(m)'
    BY <1>1, <2>0 DEF Ascending
  <2>5. HeadBefore(m)'
    BY <1>1, <1>6, <2>0, <2>1, <2>2 DEF HeadBefore
  <2>6. HeadKept(m)'
    BY <1>1, <1>6, <2>0, <2>1, <2>2 DEF HeadKept, Same
  <2>7. Recorded(m)'
    <3> SUFFICES ASSUME NEW t \in DOMAIN past', past'[t][m].kind \in Kinds, past'[t][m].time \in kept[m]
                 PROVE  \E i \in DOMAIN rev[m] : LastAt(m, t, i) /\ Same(rev[m][i], past'[t][m])
      BY <1>1 DEF Recorded, LastAt, Same
    <3>1. CASE t \in DOMAIN past
      BY <1>6, <2>0, <3>1 DEF Recorded
    <3>2. CASE t = now
      <4>1. Stored(m) /\ Same(HeadOf(m), disk[m]) /\ past'[t][m] = disk[m] /\ HeadOf(m).time <= t
        BY <1>6, <2>0, <2>1, <3>2 DEF HeadKept
      <4> QED
        BY <1>0, <4>1, HeadFacts DEF LastAt
    <3> QED
      BY <1>6, <3>1, <3>2
  <2> QED
    BY <2>3, <2>4, <2>5, <2>6, <2>7
<1> QED
  BY <1>1, <1>4, <1>5, <1>7, <1>8, <1>9, Ended DEF HInv

\* A save: each path it handles has what is there, or that nothing is, at its
\* head, or had it there before.
LEMMA SaveSafe ==
    ASSUME HInv, NEW n \in Name, Save(n)
    PROVE  HInv' /\ RInv'
<1>0. Typed /\ Tree /\ Times /\ Told /\ Straight
  BY DEF HInv
<1> DEFINE T == SaveTargets(n)
           Grave == [Deleted EXCEPT !.time = now]
<1>1. /\ phase' = "idle" /\ NoRestore /\ UNCHANGED <<disk, now, past, backdated>>
      /\ rev' = [m \in Name |-> IF m \in T THEN Archived(m) ELSE rev[m]]
      /\ kept' = [m \in Name |-> IF m \in T THEN kept[m] \cup {disk[m].time} ELSE kept[m]]
  BY DEF Save, treevars, NoRestore
<1>2. ASSUME NEW m \in T
      PROVE  m \in Name /\ (disk[m].kind = "none" \/ disk[m].kind \in Kinds)
  <2>1. CASE disk[n].kind = "dir"
    BY <2>1, PathFacts DEF SaveTargets
  <2>2. CASE disk[n].kind # "dir" /\ ~Exists(n) /\ (~Stored(n) \/ Trashed(n))
    <3>1. m \in Name /\ n \in Above(m)
      BY <2>2, PathFacts DEF SaveTargets
    <3> QED
      BY <1>0, <2>2, <3>1 DEF Tree, Exists
  <2>3. CASE disk[n].kind # "dir" /\ ~(~Exists(n) /\ (~Stored(n) \/ Trashed(n)))
    <3>1. m = n
      BY <2>3 DEF SaveTargets
    <3> QED
      BY <1>0, <2>3, <3>1, Fields
  <2> QED
    BY <2>1, <2>2, <2>3
<1>3. /\ Grave \in Node /\ Grave.kind = "none" /\ Grave.time = now
      /\ now \in Nat /\ now > 0 /\ "none" \notin Kinds /\ "dir" \notin Kinds
  BY <1>0, Fields DEF Deleted, None, Node, Kinds, Typed
<1>4. ASSUME NEW m \in Name
      PROVE  \/ rev'[m] = rev[m]
             \/ /\ m \in T /\ disk[m].kind = "none" /\ Stored(m) /\ HeadOf(m).kind \in Kinds
                /\ rev'[m] = Append(rev[m], Grave)
             \/ /\ m \in T /\ disk[m].kind \in Kinds /\ ~Unchanged(m)
                /\ rev'[m] = Append(rev[m], disk[m])
  <2>1. rev'[m] = IF m \in T THEN Archived(m) ELSE rev[m]
    BY <1>1
  <2>2. Stored(m) /\ ~Trashed(m) => HeadOf(m).kind \in Kinds
    BY <1>0, HeadFacts, Fields DEF Times, Trashed
  <2> QED
    BY <1>2, <2>1, <2>2 DEF Archived, Exists
<1>5. ASSUME NEW m \in Name, m \notin backdated, m \in T, disk[m].kind \in Kinds, Unchanged(m)
      PROVE  Stored(m) /\ Same(HeadOf(m), disk[m])
  <2>1. Stored(m) /\ HeadOf(m).kind # "none"
    BY <1>5 DEF Unchanged, Trashed
  <2>2. CASE HeadOf(m).time = disk[m].time
    <3>1. HeadOf(m).kind \in Kinds
      BY <1>0, <2>1, HeadFacts, Fields DEF Times
    <3>2. HeadOf(m) \in Versions(m) /\ disk[m] \in Versions(m)
      BY <1>0, <2>1, HeadFacts DEF Versions
    <3>3. HeadOf(m) = disk[m]
      BY <1>0, <1>5, <2>2, <3>1, <3>2 DEF Told
    <3> QED
      BY <2>1, <3>3 DEF Same
  <2>3. CASE disk[m].kind = "file" /\ HeadOf(m).kind = "file" /\ HeadOf(m).content = disk[m].content
    BY <2>1, <2>3 DEF Same
  <2> QED
    BY <1>5, <2>2, <2>3 DEF Unchanged
<1>6. ASSUME NEW m \in Name
      PROVE  /\ rev'[m] \in Seq(Node)
             /\ DOMAIN rev[m] \subseteq DOMAIN rev'[m]
             /\ \A i \in DOMAIN rev[m] : rev'[m][i] = rev[m][i]
             /\ \/ rev'[m] = rev[m]
                \/ /\ DOMAIN rev'[m] = DOMAIN rev[m] \cup {Len(rev[m]) + 1}
                   /\ Len(rev'[m]) = Len(rev[m]) + 1
                   /\ rev'[m][Len(rev[m]) + 1] \in {Grave, disk[m]}
                   /\ rev'[m] # <<>>
  <2>1. rev[m] \in Seq(Node) /\ Grave \in Node /\ disk[m] \in Node
    BY <1>0, <1>3, Fields
  <2>2. ASSUME NEW d \in Node, rev'[m] = Append(rev[m], d)
        PROVE  /\ rev'[m] \in Seq(Node) /\ Len(rev'[m]) = Len(rev[m]) + 1
               /\ DOMAIN rev'[m] = DOMAIN rev[m] \cup {Len(rev[m]) + 1}
               /\ rev'[m][Len(rev[m]) + 1] = d /\ rev'[m] # <<>>
               /\ \A i \in DOMAIN rev[m] : rev'[m][i] = rev[m][i]
    BY <2>1, <2>2
  <2> HIDE DEF Grave
  <2> QED
    BY <1>4, <2>1, <2>2
<1>8. Typed'
  <2>1. rev' \in [Name -> Seq(Node)]
    BY <1>1, <1>6
  <2>2. kept' \in [Name -> SUBSET (0..MaxClock)]
    BY <1>0, <1>1, Fields DEF Typed
  <2> QED
    BY <1>0, <1>1, <2>1, <2>2, Ended, RestoreAssumption DEF Typed
<1>9. Tree'
  BY <1>0, <1>1 DEF Tree, Exists
<1>10. Times'
  <2> SUFFICES ASSUME NEW m \in Name
               PROVE  /\ \A i \in DOMAIN rev'[m] : rev'[m][i].kind # "dir" /\ rev'[m][i].time > 0 /\ rev'[m][i].time <= now
                      /\ \A k \in kept'[m] : k <= now
    BY <1>0, <1>1 DEF Times, Restoring
  <2>1. \A i \in DOMAIN rev[m] : rev[m][i].kind # "dir" /\ rev[m][i].time > 0 /\ rev[m][i].time <= now
    BY <1>0 DEF Times
  <2>2. disk[m].kind \in Kinds => disk[m].time > 0 /\ disk[m].time <= now
    BY <1>0 DEF Times
  <2>3. ASSUME NEW i \in DOMAIN rev'[m]
        PROVE  rev'[m][i].kind # "dir" /\ rev'[m][i].time > 0 /\ rev'[m][i].time <= now
    <3>1. CASE i \in DOMAIN rev[m]
      BY <1>6, <2>1, <3>1
    <3>2. CASE i \notin DOMAIN rev[m]
      <4>1. i = Len(rev[m]) + 1 /\ rev'[m] # rev[m]
        BY <1>6, <3>2
      <4>2. rev'[m][i] = Grave \/ (disk[m].kind \in Kinds /\ rev'[m][i] = disk[m])
        BY <1>0, <1>3, <1>4, <4>1, Fields
      <4> HIDE DEF Grave
      <4> QED
        BY <1>3, <2>2, <4>2
    <3> QED
      BY <3>1, <3>2
  <2>4. \A k \in kept'[m] : k <= now
    BY <1>0, <1>1 DEF Times
  <2> QED
    BY <2>3, <2>4
<1>11. Told'
  <2>1. ASSUME NEW m \in Name
        PROVE  /\ \A v \in Versions(m)' : v = disk'[m] \/ v \in Versions(m) \/ v.kind \notin Kinds
               /\ disk'[m] \in Versions(m)
    <3>1. ASSUME NEW i \in DOMAIN rev'[m]
          PROVE  rev'[m][i] = disk[m] \/ rev'[m][i] \in Versions(m) \/ rev'[m][i].kind \notin Kinds
      <4> HIDE DEF Grave
      <4>1. CASE i \in DOMAIN rev[m]
        BY <1>6, <4>1 DEF Versions
      <4>2. CASE i \notin DOMAIN rev[m]
        BY <1>3, <1>6, <4>2
      <4> QED
        BY <4>1, <4>2
    <3>2. disk'[m] \in Versions(m) /\ \A i \in DOMAIN past' : past'[i][m] \in Versions(m)
      BY <1>1 DEF Versions
    <3>3. \A v \in Versions(m)' : \/ v = disk'[m]
                                  \/ \E i \in DOMAIN past' : v = past'[i][m]
                                  \/ \E i \in DOMAIN rev'[m] : v = rev'[m][i]
      BY DEF Versions
    <3> QED
      BY <1>1, <3>1, <3>2, <3>3
  <2> QED
    BY <1>0, <1>1, <2>1, ToldStep
<1>12. Straight'
  <2> SUFFICES ASSUME NEW m \in Name, m \notin backdated
               PROVE  Lasts(m)' /\ Ascending(m)' /\ HeadBefore(m)' /\ HeadKept(m)' /\ Recorded(m)'
    BY <1>1 DEF Straight
  <2>0. Lasts(m) /\ Ascending(m) /\ HeadBefore(m) /\ HeadKept(m) /\ Recorded(m)
    BY <1>0 DEF Straight
  <2>1. /\ disk[m].time \in Nat /\ (disk[m].kind \in Kinds <=> disk[m].time > 0) /\ disk[m].time <= now
        /\ rev[m] \in Seq(Node) /\ Len(rev[m]) \in Nat /\ DOMAIN rev[m] = 1..Len(rev[m])
        /\ \A i \in DOMAIN rev[m] : rev[m][i].time \in Nat
    BY <1>0, Fields DEF Times
  <2>2. Stored(m)' => HeadOf(m)' = rev'[m][Len(rev'[m])]
    BY DEF HeadOf, Last
  <2>3. Lasts(m)'
    BY <1>1, <2>0 DEF Lasts
  <2>4. CASE rev'[m] = rev[m]
    <3>1. Stored(m)' = Stored(m) /\ HeadOf(m)' = HeadOf(m)
      BY <2>4 DEF Stored, HeadOf
    <3>2. Ascending(m)' /\ HeadBefore(m)'
      BY <1>1, <2>0, <2>4, <3>1 DEF Ascending, HeadBefore
    <3>3. ASSUME disk[m].kind \in Kinds, disk[m].time \in kept'[m]
          PROVE  Stored(m) /\ Same(HeadOf(m), disk[m])
      <4>1. CASE disk[m].time \in kept[m]
        BY <2>0, <3>3, <4>1 DEF HeadKept
      <4>2. CASE m \in T
        <5>1. Append(rev[m], disk[m]) # rev[m] /\ disk[m].kind # "none"
          <6>1. Len(Append(rev[m], disk[m])) = Len(rev[m]) + 1
            BY <2>1
          <6> QED
            BY <1>3, <2>1, <3>3, <6>1
        <5>2. Archived(m) = rev[m]
          BY <1>1, <2>4, <4>2
        <5>3. Unchanged(m)
          BY <5>1, <5>2 DEF Archived, Exists
        <5> QED
          BY <1>5, <3>3, <4>2, <5>3
      <4> QED
        BY <1>1, <3>3, <4>1, <4>2
    <3>4. HeadKept(m)'
      BY <1>1, <3>1, <3>3 DEF HeadKept, Same
    <3>5. ASSUME NEW t \in DOMAIN past, past[t][m].kind \in Kinds, past[t][m].time \in kept'[m]
          PROVE  \E i \in DOMAIN rev[m] : LastAt(m, t, i) /\ Same(rev[m][i], past[t][m])
      <4>1. CASE past[t][m].time \in kept[m]
        BY <2>0, <3>5, <4>1 DEF Recorded
      <4>2. CASE past[t][m].time \notin kept[m]
        <5>1. past[t][m].time = disk[m].time /\ disk[m].time \in kept'[m]
          BY <1>1, <3>5, <4>2
        <5>2. past[t][m].time > 0 /\ past[t][m].time <= t /\ t \in Nat
          BY <1>0, <3>5, Fields DEF Times
        <5>3. past[t][m] = disk[m]
          BY <1>0, <2>1, <3>5, <5>1, <5>2 DEF Told, Versions
        <5>4. Stored(m) /\ Same(HeadOf(m), disk[m]) /\ disk[m].kind \in Kinds
          BY <3>3, <3>5, <5>1, <5>3
        <5>5. HeadOf(m).time <= t /\ HeadOf(m) = rev[m][Len(rev[m])] /\ Len(rev[m]) \in DOMAIN rev[m]
          BY <1>0, <2>0, <2>1, <5>1, <5>2, <5>4, HeadFacts, Fields DEF HeadBefore
        <5> QED
          BY <2>1, <5>3, <5>4, <5>5 DEF LastAt
      <4> QED
        BY <4>1, <4>2
    <3>6. Recorded(m)'
      BY <1>1, <2>4, <3>5 DEF Recorded, LastAt, Same
    <3> QED
      BY <2>3, <3>2, <3>4, <3>6
  <2>5. CASE rev'[m] # rev[m]
    <3> DEFINE last == Len(rev[m]) + 1
               e == rev'[m][last]
    <3>1. /\ m \in T /\ Len(rev'[m]) = last /\ DOMAIN rev'[m] = DOMAIN rev[m] \cup {last}
          /\ last \notin DOMAIN rev[m] /\ last \in Nat /\ \A i \in DOMAIN rev[m] : i < last
          /\ Stored(m)' /\ HeadOf(m)' = e
          /\ \A i \in DOMAIN rev[m] : rev'[m][i] = rev[m][i]
      BY <1>4, <1>6, <2>1, <2>2, <2>5 DEF Stored
    <3>2. \/ disk[m].kind = "none" /\ e = Grave /\ Stored(m) /\ HeadOf(m).kind \in Kinds
          \/ disk[m].kind \in Kinds /\ e = disk[m] /\ ~Unchanged(m)
      BY <1>4, <2>1, <2>5
    <3> HIDE DEF Grave, e
    <3>3. Stored(m) => HeadOf(m).time < e.time
      <4>1. CASE disk[m].kind = "none" /\ e = Grave /\ HeadOf(m).kind \in Kinds
        BY <1>3, <2>0, <4>1 DEF HeadBefore
      <4>2. CASE disk[m].kind \in Kinds /\ e = disk[m] /\ ~Unchanged(m)
        <5>1. Stored(m) => HeadOf(m) # disk[m]
          BY <1>3, <4>2 DEF Unchanged, Trashed
        <5> QED
          BY <2>0, <4>2, <5>1 DEF HeadBefore
      <4> QED
        BY <3>2, <4>1, <4>2
    <3>4. /\ e.time \in Nat
          /\ \A i \in DOMAIN rev[m] : rev[m][i].time < e.time
      <4>1. e.time \in Nat
        BY <1>3, <2>1, <3>2
      <4>2. ASSUME NEW i \in DOMAIN rev[m]
            PROVE  rev[m][i].time < e.time
        <5>1. Stored(m)
          BY <2>1 DEF Stored
        <5>2. i = Len(rev[m]) \/ i < Len(rev[m])
          BY <2>1
        <5>3. HeadOf(m) = rev[m][Len(rev[m])] /\ Len(rev[m]) \in DOMAIN rev[m]
          BY <1>0, <5>1, HeadFacts
        <5>4. rev[m][i].time <= HeadOf(m).time
          BY <2>0, <2>1, <5>2, <5>3 DEF Ascending
        <5> QED
          BY <2>1, <3>3, <4>1, <5>1, <5>3, <5>4
      <4> QED
        BY <4>1, <4>2
    <3>5. Ascending(m)'
      <4> SUFFICES ASSUME NEW i \in DOMAIN rev'[m], NEW j \in DOMAIN rev'[m], i < j
                   PROVE  rev'[m][i].time < rev'[m][j].time
        BY DEF Ascending
      <4>1. i \in DOMAIN rev[m]
        BY <2>1, <3>1
      <4>2. CASE j \in DOMAIN rev[m]
        BY <2>0, <3>1, <4>1, <4>2 DEF Ascending
      <4>3. CASE j = last
        BY <3>1, <3>4, <4>1, <4>3 DEF e
      <4> QED
        BY <3>1, <4>2, <4>3
    <3>6. HeadBefore(m)'
      BY <1>1, <1>3, <3>1, <3>2 DEF HeadBefore
    <3>7. HeadKept(m)'
      BY <1>1, <1>3, <3>1, <3>2 DEF HeadKept, Same
    <3>8. ASSUME NEW t \in DOMAIN past, past[t][m].kind \in Kinds, past[t][m].time \in kept'[m]
          PROVE  \E i \in DOMAIN rev'[m] : LastAt(m, t, i)' /\ Same(rev'[m][i], past[t][m])
      <4>1. t \in Nat /\ t < now /\ past[t][m].time > 0 /\ past[t][m].time <= t
        BY <1>0, <3>8, Fields DEF Times
      <4>2. CASE e.time <= t
        <5>1. disk[m].kind \in Kinds /\ e = disk[m]
          BY <1>3, <3>2, <4>1, <4>2
        <5>2. past[t][m] = disk[m]
          BY <2>0, <3>8, <4>2, <5>1 DEF Lasts
        <5>3. PICK l \in DOMAIN rev'[m] : rev'[m][l] = disk[m] /\ \A j \in DOMAIN rev'[m] : j <= l
          BY <2>1, <3>1, <5>1 DEF e
        <5>4. \A j \in DOMAIN rev'[m] : j \in Nat
          BY <2>1, <3>1
        <5>5. LastAt(m, t, l)'
          BY <4>2, <5>1, <5>3, <5>4 DEF LastAt
        <5>6. Same(rev'[m][l], past[t][m])
          BY <5>2, <5>3 DEF Same
        <5> QED
          BY <5>5, <5>6
      <4>3. CASE ~(e.time <= t)
        <5>1. past[t][m].time \in kept[m]
          <6> SUFFICES ASSUME past[t][m].time \notin kept[m]
                       PROVE  FALSE
            OBVIOUS
          <6>1. past[t][m].time = disk[m].time /\ disk[m].kind \in Kinds
            BY <1>1, <2>1, <3>8, <4>1
          <6>2. e = disk[m]
            BY <1>3, <3>2, <6>1
          <6> QED
            BY <4>1, <4>3, <6>1, <6>2
        <5>2. PICK i \in DOMAIN rev[m] : LastAt(m, t, i) /\ Same(rev[m][i], past[t][m])
          BY <2>0, <3>8, <5>1 DEF Recorded
        <5>3. rev'[m][last].time > t
          BY <3>4, <4>1, <4>3 DEF e
        <5>4. LastAt(m, t, i)'
          BY <3>1, <5>2, <5>3 DEF LastAt
        <5> QED
          BY <3>1, <5>2, <5>4
      <4> QED
        BY <4>2, <4>3
    <3>9. Recorded(m)'
      BY <1>1, <3>8 DEF Recorded, Same
    <3> QED
      BY <2>3, <3>5, <3>6, <3>7, <3>9
  <2> QED
    BY <2>4, <2>5
<1> QED
  BY <1>1, <1>8, <1>9, <1>10, <1>11, <1>12, Ended DEF HInv

\* A sequence of more than one without its first.
LEMMA TailFacts ==
    ASSUME NEW S, NEW s \in Seq(S), Len(s) > 1
    PROVE  /\ Tail(s) \in Seq(S) /\ Len(Tail(s)) = Len(s) - 1
           /\ \A i \in DOMAIN Tail(s) : i \in Nat /\ i + 1 \in DOMAIN s /\ Tail(s)[i] = s[i + 1]
           /\ \A i \in DOMAIN s : i \in Nat /\ (i # 1 => i - 1 \in DOMAIN Tail(s) /\ Tail(s)[i - 1] = s[i])
           /\ 2 \in DOMAIN s /\ Tail(s) # <<>> /\ s # <<>>
           /\ Tail(s)[Len(Tail(s))] = s[Len(s)]
<1> DEFINE r == Tail(s)
           k == Len(s)
<1>1. k \in Nat /\ k > 1 /\ DOMAIN s = 1..k /\ s # <<>>
  OBVIOUS
<1>2. r \in Seq(S) /\ Len(r) = k - 1 /\ \A i \in 1..Len(r) : r[i] = s[i + 1]
  BY <1>1, HeadTailProperties
<1> HIDE DEF r, k
<1>3. DOMAIN r = 1..k - 1 /\ r # <<>>
  <2>1. DOMAIN r = 1..Len(r)
    BY <1>2
  <2>2. 1 \in DOMAIN r
    BY <1>1, <1>2, <2>1
  <2> QED
    BY <1>2, <2>1, <2>2
<1>4. \A i \in DOMAIN r : i \in Nat /\ i + 1 \in DOMAIN s /\ r[i] = s[i + 1]
  BY <1>1, <1>2, <1>3
<1>5. \A i \in DOMAIN s : i \in Nat /\ (i # 1 => i - 1 \in DOMAIN r /\ r[i - 1] = s[i])
  <2> SUFFICES ASSUME NEW i \in DOMAIN s
               PROVE  i \in Nat /\ (i # 1 => i - 1 \in DOMAIN r /\ r[i - 1] = s[i])
    OBVIOUS
  <2>1. i \in Nat /\ i <= k /\ i >= 1
    BY <1>1
  <2>2. i # 1 => i - 1 \in DOMAIN r /\ (i - 1) + 1 = i
    BY <1>1, <1>3, <2>1
  <2>3. i # 1 => r[i - 1] = s[(i - 1) + 1]
    BY <1>4, <2>2
  <2> QED
    BY <2>1, <2>2, <2>3
<1>6. 2 \in DOMAIN s /\ k \in DOMAIN s /\ k # 1
  BY <1>1
<1>7. r[Len(r)] = s[k]
  BY <1>2, <1>5, <1>6
<1> QED
  BY <1>1, <1>2, <1>3, <1>4, <1>5, <1>6, <1>7 DEF r, k

\* Drive forgets revisions of a path: the versions that are still kept are the
\* ones that the revisions left stand for.
LEMMA ForgetSafe ==
    ASSUME HInv, NEW n \in Name, Forget(n)
    PROVE  HInv' /\ RInv'
<1>0. Typed /\ Tree /\ Times /\ Told /\ Straight
  BY DEF HInv
<1>1. /\ phase' = "idle" /\ NoRestore /\ UNCHANGED <<disk, now, past, backdated>>
      /\ rev[n] \in Seq(Node) /\ Len(rev[n]) \in Nat /\ DOMAIN rev[n] = 1..Len(rev[n])
      /\ rev \in [Name -> Seq(Node)] /\ kept \in [Name -> SUBSET (0..MaxClock)]
  BY <1>0, Fields DEF Forget, treevars, NoRestore, Typed
<1>2. \/ /\ Len(rev[n]) > 1 /\ rev' = [rev EXCEPT ![n] = Tail(rev[n])]
         /\ kept' = [kept EXCEPT ![n] = {time \in kept[n] : rev[n][2].time <= time}]
      \/ rev' = [rev EXCEPT ![n] = <<>>] /\ kept' = [kept EXCEPT ![n] = {}]
  BY <1>1, RestoreAssumption DEF Forget
<1>3. \/ /\ Len(rev[n]) > 1 /\ rev'[n] = Tail(rev[n])
         /\ kept'[n] = {time \in kept[n] : rev[n][2].time <= time}
      \/ rev'[n] = <<>> /\ kept'[n] = {}
  BY <1>1, <1>2
<1>4. /\ rev' \in [Name -> Seq(Node)] /\ kept' \in [Name -> SUBSET (0..MaxClock)]
      /\ \A m \in Name : m # n => rev'[m] = rev[m] /\ kept'[m] = kept[m]
      /\ \A m \in Name : kept'[m] \subseteq kept[m]
      /\ \A m \in Name : \A i \in DOMAIN rev'[m] : \E j \in DOMAIN rev[m] : rev'[m][i] = rev[m][j]
  <2>1. rev'[n] \in Seq(Node) /\ kept'[n] \in SUBSET (0..MaxClock) /\ kept'[n] \subseteq kept[n]
    <3>1. kept[n] \in SUBSET (0..MaxClock)
      BY <1>1
    <3>2. rev'[n] \in Seq(Node)
      <4>1. CASE Len(rev[n]) > 1 /\ rev'[n] = Tail(rev[n])
        BY <1>1, <4>1, TailFacts
      <4>2. CASE rev'[n] = <<>>
        BY <4>2
      <4> QED
        BY <1>3, <4>1, <4>2
    <3>3. kept'[n] \subseteq kept[n]
      BY <1>3
    <3> QED
      BY <3>1, <3>2, <3>3
  <2>2. rev' = [rev EXCEPT ![n] = rev'[n]] /\ kept' = [kept EXCEPT ![n] = kept'[n]]
    BY <1>1, <1>2
  <2>3. \A i \in DOMAIN rev'[n] : \E j \in DOMAIN rev[n] : rev'[n][i] = rev[n][j]
    <3>1. CASE Len(rev[n]) > 1 /\ rev'[n] = Tail(rev[n])
      BY <1>1, <3>1, TailFacts
    <3>2. CASE rev'[n] = <<>>
      BY <3>2
    <3> QED
      BY <1>3, <3>1, <3>2
  <2> QED
    BY <1>1, <2>1, <2>2, <2>3
<1>5. Typed'
  BY <1>0, <1>1, <1>4, Ended, RestoreAssumption DEF Typed
<1>6. Tree'
  BY <1>0, <1>1 DEF Tree, Exists
<1>7. Times'
  <2> SUFFICES ASSUME NEW m \in Name
               PROVE  /\ \A i \in DOMAIN rev'[m] : rev'[m][i].kind # "dir" /\ rev'[m][i].time > 0 /\ rev'[m][i].time <= now
                      /\ \A k \in kept'[m] : k <= now
    BY <1>0, <1>1 DEF Times, Restoring
  <2> QED
    BY <1>0, <1>4 DEF Times
<1>8. Told'
  <2>1. ASSUME NEW m \in Name
        PROVE  (\A v \in Versions(m)' : v \in Versions(m)) /\ disk'[m] \in Versions(m)
    BY <1>1, <1>4 DEF Versions
  <2> QED
    BY <1>0, <1>1, <2>1, ToldStep
<1>9. Straight'
  <2> SUFFICES ASSUME NEW m \in Name, m \notin backdated
               PROVE  Lasts(m)' /\ Ascending(m)' /\ HeadBefore(m)' /\ HeadKept(m)' /\ Recorded(m)'
    BY <1>1 DEF Straight
  <2>0. Lasts(m) /\ Ascending(m) /\ HeadBefore(m) /\ HeadKept(m) /\ Recorded(m)
    BY <1>0 DEF Straight
  <2>1. Lasts(m)'
    BY <1>1, <2>0 DEF Lasts
  <2>2. CASE m # n
    <3>1. rev'[m] = rev[m] /\ kept'[m] = kept[m]
      BY <1>4, <2>2
    <3>2. Stored(m)' = Stored(m) /\ HeadOf(m)' = HeadOf(m)
      BY <3>1 DEF Stored, HeadOf
    <3>3. Ascending(m)' /\ HeadBefore(m)' /\ HeadKept(m)'
      BY <1>1, <2>0, <3>1, <3>2 DEF Ascending, HeadBefore, HeadKept, Same
    <3>4. Recorded(m)'
      BY <1>1, <2>0, <3>1 DEF Recorded, LastAt, Same
    <3> QED
      BY <2>1, <3>3, <3>4
  <2>3. CASE m = n /\ rev'[n] = <<>> /\ kept'[n] = {}
    BY <2>1, <2>3 DEF Ascending, HeadBefore, HeadKept, Recorded, Stored
  <2>4. CASE /\ m = n /\ Len(rev[n]) > 1 /\ rev'[n] = Tail(rev[n])
             /\ kept'[n] = {time \in kept[n] : rev[n][2].time <= time}
    <3> DEFINE s == rev[n]
    <3>1. /\ Stored(n) /\ Stored(n)' /\ HeadOf(n) = s[Len(s)]
          /\ HeadOf(n)' = rev'[n][Len(rev'[n])]
      BY <1>1, <2>4, TailFacts DEF Stored, HeadOf, Last
    <3>2. HeadOf(n)' = HeadOf(n)
      BY <1>1, <2>4, <3>1, TailFacts
    <3>0. /\ \A i \in DOMAIN rev'[n] : i \in Nat /\ i + 1 \in DOMAIN s /\ rev'[n][i] = s[i + 1]
          /\ \A i \in DOMAIN s : i \in Nat /\ (i # 1 => i - 1 \in DOMAIN rev'[n] /\ rev'[n][i - 1] = s[i])
          /\ 2 \in DOMAIN s /\ \A i \in DOMAIN s : s[i].time \in Nat
      <4>1. \A i \in DOMAIN s : s[i].time \in Nat
        BY <1>0, <2>4, Fields
      <4> QED
        BY <1>1, <2>4, <4>1, TailFacts
    <3> HIDE DEF s
    <3>3. Ascending(n)'
      <4> SUFFICES ASSUME NEW i \in DOMAIN rev'[n], NEW j \in DOMAIN rev'[n], i < j
                   PROVE  rev'[n][i].time < rev'[n][j].time
        BY DEF Ascending
      <4>1. i + 1 \in DOMAIN s /\ j + 1 \in DOMAIN s /\ i + 1 < j + 1
        BY <3>0
      <4>2. s[i + 1].time < s[j + 1].time
        BY <2>0, <2>4, <4>1 DEF Ascending, s
      <4> QED
        BY <3>0, <4>2
    <3>4. HeadBefore(n)' /\ HeadKept(n)'
      BY <1>1, <2>0, <2>4, <3>1, <3>2 DEF HeadBefore, HeadKept, Same
    <3>5. Recorded(n)'
      <4> SUFFICES ASSUME NEW t \in DOMAIN past, past[t][n].kind \in Kinds, past[t][n].time \in kept'[n]
                   PROVE  \E i \in DOMAIN rev'[n] : LastAt(n, t, i)' /\ Same(rev'[n][i], past[t][n])
        BY <1>1 DEF Recorded, Same
      <4>1. /\ past[t][n].time \in kept[n] /\ s[2].time <= past[t][n].time /\ past[t][n].time <= t
            /\ past[t][n].time \in Nat /\ t \in Nat
        <5>1. past[t][n].time \in kept[n] /\ s[2].time <= past[t][n].time
          BY <2>4 DEF s
        <5>2. past[t][n].time <= t /\ past[t][n].time \in Nat /\ t \in Nat
          BY <1>0, Fields DEF Times
        <5> QED
          BY <5>1, <5>2
      <4>2. PICK i \in DOMAIN s : LastAt(n, t, i) /\ Same(s[i], past[t][n])
        BY <2>0, <2>4, <4>1 DEF Recorded, s
      <4>3. s[i].time <= t /\ \A j \in DOMAIN s : j > i => s[j].time > t
        BY <4>2 DEF LastAt, s
      <4>4. i # 1
        BY <3>0, <4>1, <4>3
      <4>5. i - 1 \in DOMAIN rev'[n] /\ rev'[n][i - 1] = s[i]
        BY <3>0, <4>4
      <4>6. ASSUME NEW j \in DOMAIN rev'[n], j > i - 1
            PROVE  rev'[n][j].time > t
        BY <3>0, <4>3, <4>6
      <4>7. LastAt(n, t, i - 1)'
        BY <4>3, <4>5, <4>6 DEF LastAt
      <4> QED
        BY <4>2, <4>5, <4>7
    <3> QED
      BY <2>1, <2>4, <3>3, <3>4, <3>5
  <2> QED
    BY <1>3, <2>2, <2>3, <2>4
<1> QED
  BY <1>1, <1>5, <1>6, <1>7, <1>8, <1>9, Ended DEF HInv

-----------------------------------------------------------------------------
(* The steps of a restore.                                                 *)

\* What a restore compares with stays what it is while it goes on.
LEMMA Frame ==
    ASSUME UNCHANGED <<rev, request, past, now>>
    PROVE  /\ Before' = Before /\ Listed' = Listed
           /\ \A n \in Name : /\ Stored(n)' = Stored(n) /\ HeadOf(n)' = HeadOf(n)
                              /\ InList(n)' = InList(n) /\ Wanted(n)' = Wanted(n)
                              /\ Obstructed(n)' = Obstructed(n) /\ Free(n)' = Free(n)
                              /\ Live(n)' = Live(n)
<1>1. Before' = Before
  BY DEF Before
<1>2. \A n : Stored(n)' = Stored(n) /\ HeadOf(n)' = HeadOf(n)
  BY DEF Stored, HeadOf
<1>3. Listed' = Listed
  BY DEF Listed, Stored
<1>5. \A n : InList(n)' = InList(n)
  BY DEF InList
<1>6. \A n : Wanted(n)' = Wanted(n)
  BY <1>2 DEF Wanted, RevAt, IsHead, HeadOf
<1>7. \A n : Obstructed(n)' = Obstructed(n)
  BY <1>1, <1>5, <1>6 DEF Obstructed
<1> QED
  BY <1>1, <1>2, <1>3, <1>5, <1>6, <1>7 DEF Free, Live

\* What is wanted at a path of the list.
LEMMA WantedFacts ==
    ASSUME Typed, Times
    PROVE  /\ request.files \subseteq Listed /\ Listed \subseteq Name
           /\ \A n \in Name : InList(n) <=> n \in request.files
           /\ \A n \in Name : InList(n) => /\ Stored(n) /\ Wanted(n) \in Node
                                           /\ Wanted(n).kind = "none" <=> ~Live(n)
                                           /\ Live(n) <=> Wanted(n).kind \in Kinds
<1>1. request.files \subseteq Listed /\ Listed \subseteq Name
  BY DEF Typed, Listed
<1>2. \A n \in Name : InList(n) <=> n \in request.files
  BY DEF InList
<1>3. ASSUME NEW n \in Name, InList(n)
      PROVE  /\ Stored(n) /\ Wanted(n) \in Node
             /\ Wanted(n).kind = "none" <=> ~Live(n)
             /\ Live(n) <=> Wanted(n).kind \in Kinds
  <2>1. Stored(n)
    BY <1>1, <1>2, <1>3 DEF Listed
  <2>2. request.t \in Nat
    BY DEF Typed
  <2>3. Wanted(n) \in Node /\ Wanted(n).kind \in Kinds \cup {"none"}
    BY <2>1, <2>2, RevAtFacts DEF Wanted
  <2> QED
    BY <2>1, <2>3 DEF Live, Kinds
<1> QED
  BY <1>1, <1>2, <1>3

\* A step of a restore that changes no path but by removing it, making it a
\* directory or writing it at this tick keeps what save and revfetch rely on.
LEMMA TickSafe ==
    ASSUME HInv, Restoring, UNCHANGED <<rev, now, past, kept, backdated>>,
           phase' \in {"idle", "remove", "fetch", "done"}, request'.t \in Nat,
           todo' \subseteq request'.files, request'.files \subseteq Listed, spoilt' \subseteq Name, astray' \subseteq Name,
           disk' \in [Name -> Node],
           \A m \in Name : \/ disk'[m] = disk[m]
                           \/ disk'[m].kind \notin Kinds /\ disk'[m].time = 0
                           \/ disk'[m].kind \in Kinds /\ disk'[m].time = now
    PROVE  Typed' /\ Times' /\ Told' /\ Straight'
<1>0. Typed /\ Times /\ Told /\ Straight
  BY DEF HInv
<1>1. Listed' = Listed /\ \A m : Stored(m)' = Stored(m) /\ HeadOf(m)' = HeadOf(m)
  BY DEF Listed, Stored, HeadOf
<1>2. now \in Nat /\ now > 0 /\ DOMAIN past = 1..now - 1
      /\ \A m \in Name : disk[m].time \in Nat
  BY <1>0, Fields DEF Typed
<1>3. Typed'
  BY <1>0, <1>1 DEF Typed
<1>4. Times'
  <2> SUFFICES ASSUME NEW m \in Name
               PROVE  disk'[m].time <= now /\ (disk'[m].kind \in Kinds <=> disk'[m].time > 0)
    BY <1>0 DEF Times, Restoring
  <2> QED
    BY <1>0, <1>2 DEF Times
<1>5. Told'
  <2>1. ASSUME NEW m \in Name
        PROVE  /\ \A v \in Versions(m)' : v = disk'[m] \/ v \in Versions(m) \/ v.kind \notin Kinds
               /\ \/ disk'[m] \in Versions(m)
                  \/ disk'[m].kind \notin Kinds
                  \/ \A v \in Versions(m)' : v.kind \in Kinds /\ v # disk'[m] => v.time # disk'[m].time
    <3>1. \A v \in Versions(m)' : v = disk'[m] \/ (v \in Versions(m) /\ v.time \in Nat /\ v.time < now)
      <4>1. \A i \in DOMAIN past : past[i][m].time \in Nat /\ past[i][m].time < now
        BY <1>0, <1>2, Fields DEF Times
      <4>2. \A i \in DOMAIN rev[m] : rev[m][i].time \in Nat /\ rev[m][i].time < now
        BY <1>0, Fields DEF Times
      <4> QED
        BY <4>1, <4>2 DEF Versions
    <3>2. disk[m] \in Versions(m)
      BY DEF Versions
    <3>3. \A v \in Versions(m)' : v # disk'[m] => v.time # now
      BY <1>2, <3>1
    <3> QED
      BY <3>1, <3>2, <3>3
  <2> QED
    BY <1>0, <2>1, ToldStep
<1>6. Straight'
  <2> SUFFICES ASSUME NEW m \in Name, m \notin backdated
               PROVE  Lasts(m)' /\ Ascending(m)' /\ HeadBefore(m)' /\ HeadKept(m)' /\ Recorded(m)'
    BY DEF Straight
  <2>0. Lasts(m) /\ Ascending(m) /\ HeadBefore(m) /\ HeadKept(m) /\ Recorded(m)
    BY <1>0 DEF Straight
  <2>1. now \notin kept[m] /\ (Stored(m) => HeadOf(m).time < now)
    BY <1>0, HeadFacts DEF Times
  <2>2. Lasts(m)'
    BY <1>2, <2>0 DEF Lasts
  <2>3. Ascending(m)' /\ Recorded(m)'
    BY <2>0 DEF Ascending, Recorded, LastAt, Same
  <2>4. HeadBefore(m)'
    BY <1>1, <2>0, <2>1 DEF HeadBefore
  <2>5. HeadKept(m)'
    BY <1>1, <2>0, <2>1 DEF HeadKept, Same
  <2> QED
    BY <2>2, <2>3, <2>4, <2>5
<1> QED
  BY <1>3, <1>4, <1>5, <1>6

\* A restore starts at a tick of its own.
LEMMA StartSafe ==
    ASSUME HInv, StartRestore
    PROVE  HInv' /\ RInv'
<1>0. Typed /\ Tree /\ Times /\ Told /\ Straight
  BY DEF HInv
<1>1. /\ phase' = "remove" /\ now' = now + 1 /\ now < MaxClock /\ past' = Append(past, disk)
      /\ UNCHANGED <<disk, rev, kept, backdated>> /\ spoilt' = {} /\ astray' = {}
  BY DEF StartRestore, Tick
<1>2. request'.t \in Nat /\ todo' = request'.files /\ request'.files \subseteq Listed
  <2>1. PICK g \in Globs, c \in Cwd, t \in 1..now \cup {NoTime}, ls \in Answers :
          /\ request' = [args |-> {g}, cwd |-> c, t |-> t, files |-> FilterFiles(ls, c, {g})]
          /\ todo' = FilterFiles(ls, c, {g})
    BY DEF StartRestore
  <2>2. t \in Nat
    BY <1>0, Fields DEF NoTime
  <2>3. FilterFiles(ls, c, {g}) \subseteq Listed
    BY DEF Answers, FilterFiles
  <2> QED
    BY <2>1, <2>2, <2>3
<1>3. Listed' = Listed /\ \A m : Stored(m)' = Stored(m) /\ HeadOf(m)' = HeadOf(m)
  BY <1>1 DEF Listed, Stored, HeadOf
<1>4. DOMAIN past = 1..now - 1 /\ DOMAIN past' = 1..now /\ now \in Nat /\ now > 0
      /\ past'[now] = disk /\ \A i \in DOMAIN past : past'[i] = past[i]
  BY <1>0, <1>1 DEF Typed
<1>5. Typed'
  <2>1. past' \in Seq([Name -> Node]) /\ Len(past') = now' - 1 /\ now' \in 1..MaxClock
    BY <1>0, <1>1, RestoreAssumption DEF Typed
  <2> QED
    BY <1>0, <1>1, <1>2, <1>3, <2>1 DEF Typed
<1>6. Tree'
  BY <1>0, <1>1 DEF Tree, Exists
<1>7. Times'
  <2> SUFFICES ASSUME NEW m \in Name
               PROVE  /\ disk[m].time <= now' /\ (disk[m].kind \in Kinds <=> disk[m].time > 0)
                      /\ \A i \in DOMAIN past' :
                           past'[i][m].time <= i /\ (past'[i][m].kind \in Kinds => past'[i][m].time > 0)
                      /\ \A i \in DOMAIN rev[m] : rev[m][i].kind # "dir" /\ rev[m][i].time > 0 /\ rev[m][i].time < now'
                      /\ now' \notin kept[m] /\ \A k \in kept[m] : k <= now'
    <3>1. \A m \in Name : \A i \in DOMAIN rev[m] : rev[m][i].time \in Nat
      BY <1>0, Fields
    <3>2. \A m \in Name : \A i \in DOMAIN rev[m] : rev[m][i].time < now' => rev[m][i].time <= now'
      BY <1>1, <1>4, <3>1
    <3> QED
      BY <1>1, <3>2 DEF Times, Restoring
  <2>1. /\ disk[m].time \in Nat /\ disk[m].time <= now /\ (disk[m].kind \in Kinds <=> disk[m].time > 0)
        /\ \A i \in DOMAIN past : past[i][m].time <= i /\ (past[i][m].kind \in Kinds => past[i][m].time > 0)
    BY <1>0, Fields DEF Times
  <2>2. /\ \A i \in DOMAIN rev[m] : rev[m][i].time \in Nat /\ rev[m][i].kind # "dir"
                                    /\ rev[m][i].time > 0 /\ rev[m][i].time <= now
        /\ \A k \in kept[m] : k \in Nat /\ k <= now
    BY <1>0, Fields DEF Times, Typed
  <2>3. \A i \in DOMAIN past' :
           past'[i][m].time <= i /\ (past'[i][m].kind \in Kinds => past'[i][m].time > 0)
    BY <1>4, <2>1
  <2> QED
    BY <1>1, <1>4, <2>1, <2>2, <2>3
<1>8. Told'
  <2>1. ASSUME NEW m \in Name
        PROVE  /\ \A v \in Versions(m)' : v = disk'[m] \/ v \in Versions(m) \/ v.kind \notin Kinds
               /\ disk'[m] \in Versions(m)
    BY <1>1, <1>4 DEF Versions
  <2> QED
    BY <1>0, <1>1, <2>1, ToldStep
<1>9. Straight'
  <2> SUFFICES ASSUME NEW m \in Name, m \notin backdated
               PROVE  Lasts(m)' /\ Ascending(m)' /\ HeadBefore(m)' /\ HeadKept(m)' /\ Recorded(m)'
    BY <1>1 DEF Straight
  <2>0. Lasts(m) /\ Ascending(m) /\ HeadBefore(m) /\ HeadKept(m) /\ Recorded(m)
    BY <1>0 DEF Straight
  <2>1. Stored(m) => HeadOf(m).time \in Nat /\ HeadOf(m).time <= now
    BY <1>0, HeadFacts, Fields DEF Times
  <2>2. Lasts(m)'
    BY <1>1, <1>4, <2>0 DEF Lasts
  <2>3. Ascending(m)' /\ HeadKept(m)'
    BY <1>1, <1>3, <2>0 DEF Ascending, HeadKept, Same
  <2>4. HeadBefore(m)'
    BY <1>1, <1>3, <1>4, <2>0, <2>1 DEF HeadBefore
  <2>5. Recorded(m)'
    <3> SUFFICES ASSUME NEW t \in DOMAIN past', past'[t][m].kind \in Kinds, past'[t][m].time \in kept[m]
                 PROVE  \E i \in DOMAIN rev[m] : LastAt(m, t, i) /\ Same(rev[m][i], past'[t][m])
      BY <1>1 DEF Recorded, LastAt, Same
    <3>1. CASE t \in DOMAIN past
      BY <1>4, <2>0, <3>1 DEF Recorded
    <3>2. CASE t = now
      <4>1. disk[m].time \in Nat /\ disk[m].time <= now
        BY <1>0, Fields DEF Times
      <4>2. Stored(m) /\ Same(HeadOf(m), disk[m]) /\ past'[t][m] = disk[m] /\ HeadOf(m).time <= t
        BY <1>4, <2>0, <2>1, <3>2 DEF HeadKept
      <4> QED
        BY <1>0, <4>2, HeadFacts DEF LastAt
    <3> QED
      BY <1>4, <3>1, <3>2
  <2> QED
    BY <2>2, <2>3, <2>4, <2>5
<1>10. Before' = disk'
  BY <1>1, <1>4 DEF Before
<1>11. /\ \A m : InList(m)' <=> m \in todo'
       /\ \A m : Free(m)' => m \in todo'
  BY <1>2 DEF InList, Free
<1>12. OnlyListed'
  BY <1>10 DEF OnlyListed
<1>13. NothingBelow'
  BY <1>1, <1>10 DEF NothingBelow, Free, Obstructed, Exists
<1>14. Untouched'
  BY <1>10 DEF Untouched
<1>15. InOrder' /\ OldGone' /\ AllDone'
  BY <1>1, <1>11 DEF InOrder, OldGone, AllDone, Visited
<1> QED
  BY <1>1, <1>2, <1>4, <1>5, <1>6, <1>7, <1>8, <1>9, <1>12, <1>13, <1>14, <1>15 DEF HInv, RInv, Restoring

\* The turn of a path begins: what is there is removed, and the directories
\* above it are made.
LEMMA RemoveSafe ==
    ASSUME HInv, RInv, RemoveOld
    PROVE  HInv' /\ RInv'
<1> DEFINE n == First(todo)
           gone == IF \E m \in Beneath(n) : Exists(m) THEN disk ELSE [disk EXCEPT ![n] = None]
<1>0. /\ Typed /\ Tree /\ Times /\ Told /\ Straight
      /\ Restoring /\ phase = "remove" /\ phase' = "fetch" /\ todo # {}
      /\ UNCHANGED <<rev, now, past, kept, backdated, request, todo, spoilt>>
      /\ now > 1 /\ OnlyListed /\ NothingBelow /\ InOrder /\ OldGone /\ AllDone /\ Untouched
      /\ todo \subseteq request.files
  BY DEF HInv, RInv, Restoring, RemoveOld, Typed
<1>1. /\ n \in todo /\ n \in Name /\ InList(n)
      /\ \A m \in Above(n) : m \in Name /\ m # n /\ m \notin todo
  <2>1. todo \in SUBSET Name /\ todo # {}
    BY <1>0, WantedFacts
  <2>2. n \in todo
    BY <2>1, FirstFacts
  <2> QED
    BY <1>0, <2>1, <2>2, AboveFirst, PathFacts, WantedFacts
<1>2. disk' = IF Reachable(gone, n) THEN [m \in Name |-> IF m \in Above(n) THEN ADir ELSE gone[m]] ELSE gone
  BY DEF RemoveOld
<1>20. astray' \subseteq Name
  <2>1. astray' = Astray(n) /\ astray \subseteq Name
    BY <1>0 DEF RemoveOld, Typed
  <2> QED
    BY <1>1, <2>1 DEF Astray
<1>3. /\ disk \in [Name -> Node] /\ None \in Node /\ ADir \in Node /\ "none" \notin Kinds /\ "dir" \notin Kinds
      /\ None.kind = "none" /\ ADir.kind = "dir" /\ None.time = 0 /\ ADir.time = 0
      /\ \A d \in Node : d.kind \in {"none", "dir"} \/ d.kind \in Kinds
  BY <1>0, Fields DEF Typed, Kinds
<1>4. /\ gone \in [Name -> Node] /\ \A m \in Name : m # n => gone[m] = disk[m]
      /\ \/ gone[n] = None /\ \A m \in Beneath(n) : disk[m].kind = "none"
         \/ gone[n] = disk[n] /\ \E m \in Beneath(n) : disk[m].kind # "none"
  BY <1>1, <1>3 DEF Exists
<1> HIDE DEF n, gone
<1>5. /\ disk' \in [Name -> Node]
      /\ \A m \in Name :
           \/ disk'[m] = disk[m]
           \/ m = n /\ disk'[m] = None /\ gone[n] = None
           \/ m \in Above(n) /\ disk'[m] = ADir /\ disk[m].kind \in {"none", "dir"} /\ Reachable(gone, n)
      /\ disk'[n] = gone[n]
      /\ Reachable(gone, n) => \A m \in Above(n) : disk'[m] = ADir
      /\ ~Reachable(gone, n) => disk' = gone
  <2>1. CASE Reachable(gone, n)
    <3>1. disk' = [m \in Name |-> IF m \in Above(n) THEN ADir ELSE gone[m]]
      BY <1>2, <2>1
    <3>2. \A m \in Above(n) : disk[m].kind \in {"none", "dir"} /\ m \in Name
      BY <1>1, <1>4, <2>1 DEF Reachable
    <3> QED
      BY <1>1, <1>3, <1>4, <2>1, <3>1, <3>2
  <2>2. CASE ~Reachable(gone, n)
    <3>1. disk' = gone
      BY <1>2, <2>2
    <3> QED
      BY <1>1, <1>3, <1>4, <2>2, <3>1
  <2> QED
    BY <2>1, <2>2
<1>6. Typed' /\ Times' /\ Told' /\ Straight'
  <2>1. \A m \in Name : disk'[m] = disk[m] \/ (disk'[m].kind \notin Kinds /\ disk'[m].time = 0)
    BY <1>3, <1>5
  <2> QED
    BY <1>0, <1>5, <1>20, <2>1, TickSafe DEF Typed, HInv
<1>7. Tree'
  <2> SUFFICES ASSUME NEW q \in Name, disk'[q].kind # "none", NEW k \in Above(q)
               PROVE  disk'[k].kind = "dir"
    BY DEF Tree, Exists
  <2>0. k \in Name
    BY PathFacts
  <2>1. CASE disk'[q] = disk[q]
    <3>1. disk[q].kind # "none" /\ disk[k].kind = "dir"
      BY <1>0, <2>1 DEF Tree, Exists
    <3>2. k = n => gone[n] = disk[n]
      BY <1>4, <2>0, <3>1, PathFacts
    <3> QED
      BY <1>3, <1>4, <1>5, <2>0, <3>1, <3>2
  <2>2. CASE q \in Above(n) /\ Reachable(gone, n)
    <3>1. k \in Above(n)
      BY <1>1, <2>0, <2>2, PathFacts
    <3> QED
      BY <1>3, <1>5, <2>2, <3>1
  <2> QED
    BY <1>3, <1>5, <2>1, <2>2
<1>8. /\ Before' = Before
      /\ \A m \in Name : /\ InList(m)' = InList(m) /\ Wanted(m)' = Wanted(m)
                         /\ Obstructed(m)' = Obstructed(m) /\ Free(m)' = Free(m) /\ Live(m)' = Live(m)
  BY <1>0, Frame
<1>9. \A m \in Name : InList(m) => /\ Live(m) <=> Wanted(m).kind \in Kinds
                                   /\ Wanted(m).kind = "none" <=> ~Live(m)
  BY <1>0, WantedFacts
<1>10. \A m \in Name : disk'[m].kind \in Kinds => disk'[m] = disk[m]
  BY <1>3, <1>5
<1>11. disk'[n].kind \notin Kinds
  <2>1. disk[n].kind \in Kinds => \A m \in Beneath(n) : disk[m].kind = "none"
    <3> SUFFICES ASSUME NEW m \in Beneath(n), disk[m].kind # "none"
                 PROVE  disk[n].kind = "dir"
      BY <1>3
    <3>1. m \in Name /\ n \in Above(m)
      BY <1>1, PathFacts
    <3> QED
      BY <1>0, <3>1 DEF Tree, Exists
  <2> QED
    BY <1>3, <1>4, <1>5, <2>1
<1>12. OnlyListed'
  BY <1>0, <1>8, <1>10 DEF OnlyListed
<1>13. NothingBelow'
  <2> SUFFICES ASSUME NEW q \in Name, Free(q), Live(q), q \notin spoilt, NEW m \in Beneath(q), disk'[m].kind # "none"
               PROVE  FALSE
    BY <1>0, <1>8 DEF NothingBelow, Exists
  <2>1. disk[m].kind = "none" /\ m \in Name /\ q \in Above(m)
    BY <1>0, PathFacts DEF NothingBelow, Exists
  <2>2. m \in Above(n) /\ Reachable(gone, n)
    BY <1>3, <1>5, <2>1
  <2>3. q \in Above(n)
    BY <1>1, <2>1, <2>2, PathFacts
  <2>4. disk[q].kind \in {"none", "dir"}
    BY <1>1, <1>4, <2>2, <2>3 DEF Reachable
  <2>5. Restored(q)
    BY <1>0, <1>1, <2>3 DEF AllDone
  <2>6. Live(q) /\ Wanted(q).kind \in Kinds
    BY DEF Live
  <2> QED
    BY <1>3, <2>4, <2>5, <2>6 DEF Restored, Same
<1>14. InOrder'
  BY <1>0, <1>8, RestoreAssumption DEF InOrder, Visited
<1>15. OldGone'
  <2>1. First(todo)' = n
    BY <1>0 DEF n
  <2> QED
    BY <1>0, <1>8, <1>10, <1>11, <2>1 DEF OldGone
<1>16. ASSUME Free(n)
       PROVE  Reachable(gone, n)
  <2> SUFFICES ASSUME NEW m \in Above(n)
               PROVE  disk[m].kind \in {"none", "dir"}
    BY <1>1, <1>4 DEF Reachable
  <2>1. m \in Name /\ m \notin todo
    BY <1>1
  <2>2. CASE InList(m)
    <3>1. Wanted(m).kind = "none"
      BY <1>16, <2>2 DEF Free, Obstructed
    <3>2. ~Live(m)
      BY <1>9, <2>1, <2>2, <3>1
    <3>3. disk[m].kind \notin Kinds
      BY <1>0, <2>1, <2>2, <3>2 DEF OldGone
    <3> QED
      BY <1>3, <2>1, <3>3
  <2>3. CASE ~InList(m)
    <3>1. Before[m].kind \notin Kinds
      BY <1>16, <2>3 DEF Free, Obstructed
    <3>2. disk[m].kind \notin Kinds
      BY <1>0, <2>1, <2>3, <3>1 DEF OnlyListed
    <3> QED
      BY <1>3, <2>1, <3>2
  <2> QED
    BY <2>2, <2>3
<1>17. WayIsClear'
  <2>0. PICK q \in Name : q = n
    BY <1>1
  <2>1. First(todo)' = q /\ q \in todo
    BY <1>0, <1>1, <2>0 DEF n
  <2>2. (\A m \in Above(q) : disk'[m].kind \in {"none", "dir"}) => \A m \in Above(q) : disk'[m].kind = "dir"
    <3>1. CASE Reachable(gone, q)
      BY <1>3, <1>5, <2>0, <3>1
    <3>2. CASE ~Reachable(gone, q)
      BY <1>5, <2>0, <3>2 DEF Reachable
    <3> QED
      BY <3>1, <3>2
  <2>3. Free(q) => \A m \in Above(q) : disk'[m].kind \in {"none", "dir"}
    BY <1>3, <1>5, <1>16, <2>0
  <2>4. Free(q) /\ Live(q) /\ q \notin spoilt => disk'[q].kind = "none"
    BY <1>0, <1>1, <1>3, <1>4, <1>5, <2>0 DEF NothingBelow, Exists
  <2>5. todo' # {} /\ (Free(q)' <=> Free(q)) /\ (Live(q)' <=> Live(q)) /\ spoilt' = spoilt
    <3>1. Free(q)' = Free(q) /\ Live(q)' = Live(q)
      BY <1>8
    <3> QED
      BY <1>0, <3>1
  <2>6. WayIsClear' <=>
          /\ todo' # {}
          /\ (\A m \in Above(q) : disk'[m].kind \in {"none", "dir"}) => \A m \in Above(q) : disk'[m].kind = "dir"
          /\ Free(q)' => /\ \A m \in Above(q) : disk'[m].kind \in {"none", "dir"}
                         /\ Live(q)' /\ q \notin spoilt' => ~Exists(q)'
    BY <2>1 DEF WayIsClear, Reachable
  <2> QED
    BY <2>2, <2>3, <2>4, <2>5, <2>6 DEF Exists
<1>18. AllDone'
  <2> SUFFICES ASSUME NEW q \in Name, Free(q), q \notin todo, q \notin spoilt
               PROVE  Restored(q)'
    BY <1>0, <1>8 DEF AllDone
  <2>1. Restored(q) /\ q # n
    BY <1>0, <1>1 DEF AllDone
  <2>2. CASE disk'[q] = disk[q]
    BY <1>8, <2>1, <2>2 DEF Restored, Same
  <2>3. CASE disk'[q] = ADir /\ disk[q].kind \in {"none", "dir"}
    <3>1. Wanted(q).kind \in Kinds \/ Wanted(q).kind = "none"
      BY <1>9 DEF Free
    <3>2. Wanted(q).kind = "none"
      BY <1>3, <2>1, <2>3, <3>1 DEF Restored, Same
    <3> QED
      BY <1>3, <1>8, <2>3, <3>2 DEF Restored
  <2> QED
    BY <1>5, <2>1, <2>2, <2>3
<1>19. Untouched'
  <2> SUFFICES ASSUME NEW q \in Name \ request.files
               PROVE  disk'[q] = Before[q] \/ disk'[q] = ADir
    BY <1>0, <1>8 DEF Untouched
  <2>1. q # n
    BY <1>0, <1>1
  <2>2. disk'[q] = disk[q] \/ disk'[q] = ADir
    BY <1>5, <2>1
  <2> QED
    BY <1>0, <2>2 DEF Untouched
<1> QED
  BY <1>0, <1>6, <1>7, <1>12, <1>13, <1>14, <1>15, <1>17, <1>18, <1>19 DEF HInv, RInv, Restoring

\* What is fetched is of the kind that is wanted, or of none.
LEMMA FetchedFacts ==
    ASSUME Typed, Times, NEW n \in Name, InList(n), NEW r \in Fetched(n, request.t)
    PROVE  r \in Node /\ (r.kind = Wanted(n).kind \/ r.kind = "none")
<1>1. Wanted(n) \in Node /\ Wanted(n) = RevAt(n, request.t)
  BY WantedFacts DEF Wanted
<1>2. r \in {Wanted(n), [Wanted(n) EXCEPT !.content = ErrorPage], Deleted}
  BY <1>1 DEF Fetched
<1>3. Deleted \in Node /\ Deleted.kind = "none"
  BY Fields DEF Deleted
<1>4. [Wanted(n) EXCEPT !.content = ErrorPage] \in Node
      /\ [Wanted(n) EXCEPT !.content = ErrorPage].kind = Wanted(n).kind
  BY <1>1 DEF Node
<1> QED
  BY <1>1, <1>2, <1>3, <1>4

\* The turn of a path ends: what was fetched is written, where that is possible.
LEMMA WriteSafe ==
    ASSUME HInv, RInv, WriteNew
    PROVE  HInv' /\ RInv'
<1> DEFINE n == First(todo)
           writable == Reachable(disk, n) /\ disk[n].kind # "dir"
<1>0. /\ Typed /\ Tree /\ Times /\ Told /\ Straight
      /\ Restoring /\ phase = "fetch" /\ phase' = "remove"
      /\ UNCHANGED <<rev, now, past, kept, backdated, request>> /\ todo' = todo \ {n}
      /\ now > 1 /\ OnlyListed /\ NothingBelow /\ InOrder /\ OldGone /\ AllDone /\ Untouched /\ WayIsClear
      /\ todo \subseteq request.files /\ todo # {}
  BY DEF HInv, RInv, Restoring, WriteNew, WayIsClear, Typed
<1>1. /\ n \in todo /\ n \in Name /\ InList(n)
      /\ \A i, j \in DOMAIN NameOrder : NameOrder[i] = n /\ NameOrder[j] \in todo => i <= j
      /\ \A m \in Above(n) : m \in Name /\ m # n
  <2>1. todo \in SUBSET Name
    BY <1>0, WantedFacts
  <2>2. /\ n \in todo
        /\ \A i, j \in DOMAIN NameOrder : NameOrder[i] = n /\ NameOrder[j] \in todo => i <= j
    BY <1>0, <2>1, FirstFacts
  <2> QED
    BY <1>0, <2>1, <2>2, PathFacts, WantedFacts
<1>2. /\ Free(n) => Reachable(disk, n) /\ (Live(n) /\ n \notin spoilt => disk[n].kind = "none")
      /\ Reachable(disk, n) => \A m \in Above(n) : disk[m].kind = "dir"
      /\ ~Live(n) => disk[n].kind \notin Kinds
  BY <1>0, <1>1 DEF WayIsClear, OldGone, Exists
<1>3. PICK r \in Fetched(n, request.t) :
        /\ disk' = IF r.kind \in Kinds /\ writable THEN [disk EXCEPT ![n] = [r EXCEPT !.time = now]] ELSE disk
        /\ spoilt' = IF r # RevAt(n, request.t) THEN spoilt \cup {n} ELSE spoilt
  BY DEF WriteNew
<1>20. astray' \subseteq Name
  <2>1. astray' = Astray(n) /\ astray \subseteq Name
    BY <1>0 DEF WriteNew, Typed
  <2> QED
    BY <1>1, <2>1 DEF Astray
<1>4. r \in Node /\ (r.kind = Wanted(n).kind \/ r.kind = "none") /\ Wanted(n) = RevAt(n, request.t)
  BY <1>0, <1>1, <1>3, FetchedFacts DEF Wanted
<1>5. /\ disk \in [Name -> Node] /\ "none" \notin Kinds /\ "dir" \notin Kinds
      /\ \A d \in Node : d.kind \in {"none", "dir"} \/ d.kind \in Kinds
      /\ now \in 0..MaxClock
  BY <1>0, Fields DEF Typed, Kinds
<1> HIDE DEF n, writable
<1>6. \/ disk' = disk /\ ~(r.kind \in Kinds /\ writable)
      \/ /\ r.kind \in Kinds /\ writable /\ disk' \in [Name -> Node]
         /\ disk'[n] = [r EXCEPT !.time = now]
         /\ disk'[n].kind = r.kind /\ disk'[n].content = r.content /\ disk'[n].time = now
         /\ \A m \in Name : m # n => disk'[m] = disk[m]
  <2>1. /\ [r EXCEPT !.time = now] \in Node /\ [r EXCEPT !.time = now].kind = r.kind
        /\ [r EXCEPT !.time = now].content = r.content /\ [r EXCEPT !.time = now].time = now
    BY <1>4, <1>5 DEF Node
  <2> QED
    BY <1>1, <1>3, <1>5, <2>1
<1>7. writable => Reachable(disk, n) /\ disk[n].kind # "dir" /\ \A m \in Beneath(n) : disk[m].kind = "none"
  <2> SUFFICES ASSUME writable, NEW m \in Beneath(n)
               PROVE  disk[m].kind = "none"
    BY DEF writable
  <2>1. m \in Name /\ n \in Above(m) /\ disk[n].kind # "dir"
    BY <1>1, PathFacts DEF writable
  <2> QED
    BY <1>0, <2>1 DEF Tree, Exists
<1>8. /\ Before' = Before
      /\ \A m \in Name : /\ InList(m)' = InList(m) /\ Wanted(m)' = Wanted(m)
                         /\ Obstructed(m)' = Obstructed(m) /\ Free(m)' = Free(m) /\ Live(m)' = Live(m)
  BY <1>0, Frame
<1>9. \A m \in Name : InList(m) => /\ Live(m) <=> Wanted(m).kind \in Kinds
                                   /\ Wanted(m).kind = "none" <=> ~Live(m)
  BY <1>0, WantedFacts
<1>10. Typed' /\ Times' /\ Told' /\ Straight'
  <2>1. todo' \subseteq request'.files /\ spoilt' \subseteq Name
    BY <1>0, <1>1, <1>3 DEF Typed
  <2>2. /\ disk' \in [Name -> Node]
        /\ \A m \in Name : disk'[m] = disk[m] \/ (disk'[m].kind \in Kinds /\ disk'[m].time = now)
    BY <1>5, <1>6
  <2> QED
    BY <1>0, <1>20, <2>1, <2>2, TickSafe DEF Typed, HInv
<1>11. Tree'
  <2> SUFFICES ASSUME NEW q \in Name, disk'[q].kind # "none", NEW k \in Above(q)
               PROVE  disk'[k].kind = "dir"
    BY DEF Tree, Exists
  <2>0. k \in Name
    BY PathFacts
  <2>1. CASE disk' = disk
    BY <1>0, <2>1 DEF Tree, Exists
  <2>2. CASE writable /\ q = n /\ \A m \in Name : m # n => disk'[m] = disk[m]
    BY <1>1, <1>2, <1>7, <2>2
  <2>3. CASE writable /\ q # n /\ \A m \in Name : m # n => disk'[m] = disk[m]
    <3>1. disk[k].kind = "dir"
      BY <1>0, <2>3 DEF Tree, Exists
    <3> QED
      BY <1>7, <2>0, <2>3, <3>1
  <2> QED
    BY <1>6, <2>1, <2>2, <2>3
<1>12. OnlyListed'
  <2> SUFFICES ASSUME NEW m \in Name, disk'[m].kind \in Kinds
               PROVE  Before[m].kind \in Kinds \/ (InList(m) /\ Live(m))
    BY <1>8 DEF OnlyListed
  <2>1. CASE disk'[m] = disk[m]
    BY <1>0, <2>1 DEF OnlyListed
  <2>2. CASE m = n /\ r.kind \in Kinds
    BY <1>1, <1>4, <1>5, <2>2 DEF Live
  <2> QED
    BY <1>6, <2>1, <2>2
<1>13. NothingBelow'
  <2> SUFFICES ASSUME NEW q \in Name, Free(q), Live(q), q \notin spoilt', NEW m \in Beneath(q)
               PROVE  disk'[m].kind = "none"
    BY <1>8 DEF NothingBelow, Exists
  <2>1. m \in Name /\ q \in Above(m) /\ m # q
    BY PathFacts
  <2>2. disk[m].kind = "none"
    <3>1. q \notin spoilt
      BY <1>3
    <3> QED
      BY <1>0, <3>1 DEF NothingBelow, Exists
  <2>3. m = n => ~(r.kind \in Kinds)
    <3> SUFFICES ASSUME m = n, r.kind \in Kinds
                 PROVE  FALSE
      OBVIOUS
    <3>1. Wanted(m).kind # "none" /\ InList(m)
      BY <1>1, <1>4, <1>5
    <3> QED
      BY <2>1, <3>1 DEF Free, Obstructed
  <2> QED
    BY <1>6, <2>1, <2>2, <2>3
<1>14. InOrder'
  <2> SUFFICES ASSUME NEW i \in DOMAIN NameOrder, NEW j \in DOMAIN NameOrder,
                      InList(NameOrder[i]), NameOrder[i] \notin todo', NameOrder[j] \in todo'
               PROVE  i < j
    BY <1>8, RestoreAssumption DEF InOrder, Visited
  <2>1. NameOrder[j] \in todo /\ NameOrder[j] # n /\ i \in Nat /\ j \in Nat
    BY <1>0, RestoreAssumption
  <2>2. CASE NameOrder[i] \notin todo
    BY <1>0, <2>1, <2>2 DEF InOrder, Visited
  <2>3. CASE NameOrder[i] = n
    BY <1>1, <2>1, <2>3
  <2> QED
    BY <1>0, <2>2, <2>3
<1>15. OldGone'
  <2> SUFFICES ASSUME NEW m \in Name, InList(m), ~Live(m), m \notin todo'
               PROVE  disk'[m].kind \notin Kinds
    BY <1>0, <1>8 DEF OldGone
  <2>1. m \notin todo \/ m = n
    BY <1>0
  <2>2. disk[m].kind \notin Kinds
    BY <1>0, <1>2, <2>1 DEF OldGone
  <2>3. m = n => ~(r.kind \in Kinds)
    BY <1>4, <1>5, <1>9
  <2> QED
    BY <1>6, <2>2, <2>3
<1>16. AllDone'
  <2> SUFFICES ASSUME NEW q \in Name, Free(q), q \notin todo', q \notin spoilt'
               PROVE  Restored(q)'
    BY <1>8 DEF AllDone
  <2>1. CASE q # n
    <3>1. Restored(q) /\ disk'[q] = disk[q]
      BY <1>0, <1>3, <1>6, <2>1 DEF AllDone
    <3> QED
      BY <1>8, <3>1 DEF Restored, Same
  <2>2. CASE q = n
    <3>1. r = Wanted(n) /\ n \notin spoilt
      BY <1>3, <1>4, <2>2
    <3>2. CASE Live(n)
      <4>1. r.kind \in Kinds
        BY <3>1, <3>2 DEF Live
      <4>2. writable
        BY <1>2, <2>2, <3>1, <3>2 DEF writable
      <4>3. Same(disk'[n], Wanted(n))
        BY <1>5, <1>6, <3>1, <4>1, <4>2 DEF Same
      <4> QED
        BY <1>1, <1>8, <2>2, <4>3 DEF Restored, Same
    <3>3. CASE ~Live(n)
      <4>1. Wanted(n).kind = "none"
        BY <1>1, <1>9, <3>3
      <4>2. disk'[q] = disk[q] /\ disk[q] \in Node /\ disk[q].kind \notin Kinds
        BY <1>2, <1>5, <1>6, <2>2, <3>1, <3>3, <4>1
      <4>3. disk[q].kind \in {"none", "dir"}
        BY <1>5, <4>2
      <4> QED
        BY <1>5, <1>8, <2>2, <4>1, <4>2, <4>3 DEF Restored, Same
    <3> QED
      BY <3>2, <3>3
  <2> QED
    BY <2>1, <2>2
<1>17. Untouched'
  <2> SUFFICES ASSUME NEW q \in Name \ request.files
               PROVE  disk'[q] = Before[q] \/ disk'[q] = ADir
    BY <1>0, <1>8 DEF Untouched
  <2>1. disk'[q] = disk[q]
    BY <1>0, <1>1, <1>6
  <2> QED
    BY <1>0, <2>1 DEF Untouched
<1> QED
  BY <1>0, <1>10, <1>11, <1>12, <1>13, <1>14, <1>15, <1>16, <1>17 DEF HInv, RInv, Restoring

\* It gets through, or it dies.
LEMMA PhaseSafe ==
    ASSUME HInv, RInv, RestoreDone \/ Dies
    PROVE  HInv' /\ RInv'
<1>0. /\ Typed /\ Tree /\ Times /\ Told /\ Straight /\ Restoring
      /\ UNCHANGED <<disk, rev, now, past, kept, backdated>>
  BY DEF HInv, Restoring, RestoreDone, Dies, treevars
<1>1. Listed' = Listed
  BY <1>0 DEF Listed, Stored
<1>2. /\ phase' \in {"idle", "done"} /\ request'.t \in Nat
      /\ todo' \subseteq request'.files /\ request'.files \subseteq Listed
      /\ spoilt' \subseteq Name /\ astray' \subseteq Name
  BY <1>0, <1>1, Ended, RestoreAssumption DEF RestoreDone, Dies, Typed
<1>3. Typed' /\ Times' /\ Told' /\ Straight'
  BY <1>0, <1>2, TickSafe DEF Typed, HInv
<1>4. Tree'
  BY <1>0 DEF Tree, Exists
<1>5. CASE RestoreDone
  <2>1. phase' = "done" /\ todo = {} /\ todo' = todo /\ AllDone /\ Untouched /\ UNCHANGED <<request, spoilt>>
    BY <1>0, <1>5 DEF RestoreDone, RInv, Restoring
  <2>2. AllDone' /\ Untouched'
    BY <1>0, <2>1, Frame DEF AllDone, Restored, Same, Untouched
  <2> QED
    BY <1>3, <1>4, <2>1, <2>2 DEF HInv, RInv, Restoring
<1>6. CASE Dies
  BY <1>3, <1>4, <1>6, Ended DEF Dies, HInv
<1> QED
  BY <1>5, <1>6

\* A step that changes nothing.
LEMMA StutterSafe ==
    ASSUME HInv, RInv, UNCHANGED vars
    PROVE  HInv' /\ RInv'
<1>0. UNCHANGED <<disk, rev, now, past, kept, backdated, phase, request, todo, spoilt, astray>>
  BY DEF vars
<1>1. /\ Before' = Before /\ Listed' = Listed
      /\ \A m \in Name : /\ InList(m)' = InList(m) /\ Wanted(m)' = Wanted(m) /\ Free(m)' = Free(m)
                         /\ Live(m)' = Live(m) /\ Stored(m)' = Stored(m) /\ HeadOf(m)' = HeadOf(m)
  BY <1>0, Frame
<1>2. Typed' /\ Tree' /\ Times' /\ Told'
  BY <1>0, <1>1 DEF HInv, Typed, Tree, Exists, Times, Restoring, Told, Versions
<1>3. Straight'
  <2> SUFFICES ASSUME NEW m \in Name, m \notin backdated
               PROVE  Lasts(m)' /\ Ascending(m)' /\ HeadBefore(m)' /\ HeadKept(m)' /\ Recorded(m)'
    BY <1>0 DEF Straight
  <2>1. Lasts(m) /\ Ascending(m) /\ HeadBefore(m) /\ HeadKept(m) /\ Recorded(m)
    BY DEF HInv, Straight
  <2> QED
    BY <1>0, <1>1, <2>1 DEF Lasts, Ascending, HeadBefore, HeadKept, Recorded, LastAt, Same
<1>4. RInv'
  <2>1. /\ OnlyListed => OnlyListed'
        /\ NothingBelow => NothingBelow'
        /\ AllDone => AllDone'
        /\ Untouched => Untouched'
    BY <1>0, <1>1 DEF Untouched, OnlyListed, NothingBelow, AllDone, Restored, Exists, Same
  <2>2. /\ InOrder => InOrder'
        /\ OldGone => OldGone'
    BY <1>0, <1>1, RestoreAssumption DEF InOrder, OldGone, Visited
  <2>3. phase = "fetch" /\ WayIsClear => WayIsClear'
    <3> SUFFICES ASSUME phase = "fetch", WayIsClear
                 PROVE  WayIsClear'
      OBVIOUS
    <3>1. todo # {} /\ todo \subseteq Name
      BY WantedFacts DEF WayIsClear, HInv, Typed
    <3>2. PICK q \in Name : q = First(todo)
      BY <3>1, FirstFacts
    <3>3. First(todo)' = q /\ Free(q)' = Free(q) /\ Live(q)' = Live(q)
      BY <1>0, <1>1, <3>2
    <3> QED
      BY <1>0, <3>2, <3>3 DEF WayIsClear, Reachable, Exists
  <2> QED
    BY <1>0, <1>1, <2>1, <2>2, <2>3 DEF RInv, Restoring
<1> QED
  BY <1>2, <1>3, <1>4 DEF HInv


-----------------------------------------------------------------------------
(***************************************************************************)
(* The scanner of Globs matches no more than a glob means.  Both are       *)
(* recursive functions: that there is one with the defining equation is    *)
(* shown for longer and longer parts of its domain.                        *)
(***************************************************************************)
EndsOf(pattern, name, f, i) ==
    IF i > Len(pattern) THEN {Len(name) + 1}
    ELSE IF pattern[i] # Star
    THEN {j \in 1..Len(name) : name[j] = pattern[i] /\ j + 1 \in f[i + 1]}
    ELSE LET q == AfterStars(pattern, i) IN
         {j \in 1..Len(name) + 1 :
            \E k \in j..Len(name) + 1 :
               /\ q - i = 1 => \A x \in j..k - 1 : name[x] # Slash
               /\ k \in f[q]}
EndsIs(pattern, name, f) == f = [i \in 1..Len(pattern) + 1 |-> EndsOf(pattern, name, f, i)]
Ends(pattern, name) == CHOOSE f : EndsIs(pattern, name, f)

MatchOf(pattern, name, f, s) ==
    IF s.n > Len(name) THEN AfterStars(pattern, s.p) > Len(pattern)
    ELSE \E t \in Iterate(pattern, name, s) : f[t]
MatchIs(pattern, name, f) == f = [s \in Scan(pattern, name) |-> MatchOf(pattern, name, f, s)]
Match(pattern, name) == CHOOSE f : MatchIs(pattern, name, f)

\* What is left to do goes down with every iteration.
Rank(pattern, name, s) == (Len(name) + 1 - s.n) * (Len(pattern) + 2) + (Len(pattern) + 1 - s.p)
Steps(pattern, name) == (Len(name) + 1) * (Len(pattern) + 2) + (Len(pattern) + 2)

\* AfterStars goes over stars, and over all of them.
LEMMA AfterStarsFacts ==
    ASSUME NEW pattern, Len(pattern) \in Nat, NEW p \in 1..Len(pattern) + 1
    PROVE  /\ AfterStars(pattern, p) \in p..Len(pattern) + 1
           /\ \A i \in p..AfterStars(pattern, p) - 1 : pattern[i] = Star
           /\ p <= Len(pattern) /\ pattern[p] = Star => AfterStars(pattern, p) > p
<1> DEFINE S == {q \in p..Len(pattern) + 1 : q <= Len(pattern) => pattern[q] # Star}
           Ok(q) == /\ \A i \in p..q - 1 : pattern[i] = Star
                    /\ q <= Len(pattern) => pattern[q] # Star
<1>1. PICK q \in S : \A j \in S : q <= j
  <2>1. S \in SUBSET Nat /\ Len(pattern) + 1 \in S
    OBVIOUS
  <2>. HIDE DEF S
  <2>. QED  BY <2>1, Least
<1>2. q \in p..Len(pattern) + 1 /\ Ok(q)
  <2>1. ASSUME NEW i \in p..q - 1
        PROVE  pattern[i] = Star
    BY <1>1, <2>1
  <2>. QED  BY <1>1, <2>1
<1>3. AfterStars(pattern, p) = CHOOSE r \in p..Len(pattern) + 1 : Ok(r)
  BY DEF AfterStars
<1>4. AfterStars(pattern, p) \in p..Len(pattern) + 1 /\ Ok(AfterStars(pattern, p))
  <2>. HIDE DEF Ok
  <2>. QED  BY <1>2, <1>3
<1>. QED  BY <1>4

\* Ends has its equation at every position of the pattern.
LEMMA EndsFacts ==
    ASSUME NEW pattern, Len(pattern) \in Nat, NEW name, Len(name) \in Nat
    PROVE  /\ \A i \in 1..Len(pattern) + 1 :
                Ends(pattern, name)[i] = EndsOf(pattern, name, Ends(pattern, name), i)
           /\ Means(pattern, name) <=> 1 \in Ends(pattern, name)[1]
<1> DEFINE L == Len(pattern)
           D(k) == {i \in 1..L + 1 : i + k > L + 1}
           Is(f, k) == f = [i \in D(k) |-> EndsOf(pattern, name, f, i)]
           Bad == {k \in 0..L + 1 : \A f : ~Is(f, k)}
<1>1. Bad = {}
  <2>. SUFFICES ASSUME Bad # {} PROVE FALSE
    OBVIOUS
  <2>1. PICK k \in Bad : \A j \in Bad : k <= j
    <3>1. Bad \in SUBSET Nat
      OBVIOUS
    <3>. QED  BY <3>1, Least
  <2>2. CASE k = 0
    <3>1. D(k) = {}
      BY <2>2
    <3>2. Is([i \in {} |-> {}], k)
      BY <3>1
    <3>. QED  BY <2>1, <3>2
  <2>3. CASE k # 0
    <3>1. k \in 0..L + 1 /\ k - 1 \in 0..L + 1 /\ k - 1 \notin Bad
      <4>. HIDE DEF Is
      <4>1. k \in 0..L + 1 /\ k - 1 \in 0..L + 1
        BY <2>3
      <4>2. k - 1 \in Bad => k <= k - 1
        BY <2>1
      <4>. HIDE DEF Bad
      <4>. QED  BY <4>1, <4>2
    <3>2. PICK f : Is(f, k - 1)
      BY <3>1
    <3> DEFINE g == [i \in D(k) |-> EndsOf(pattern, name, f, i)]
    <3>3. \A i \in D(k - 1) : g[i] = f[i]
      BY <3>1, <3>2
    <3>4. ASSUME NEW i \in D(k)
          PROVE  EndsOf(pattern, name, f, i) = EndsOf(pattern, name, g, i)
      <4>1. CASE i <= L /\ pattern[i] # Star
        <5>1. i + 1 \in D(k - 1)
          BY <3>1, <4>1
        <5>. QED  BY <3>3, <4>1, <5>1 DEF EndsOf
      <4>2. CASE i <= L /\ pattern[i] = Star
        <5>1. AfterStars(pattern, i) \in D(k - 1)
          <6>1. AfterStars(pattern, i) \in i..L + 1 /\ AfterStars(pattern, i) > i
            BY <4>2, AfterStarsFacts
          <6>. QED  BY <3>1, <6>1
        <5>2. g[AfterStars(pattern, i)] = f[AfterStars(pattern, i)]
          BY <3>3, <5>1
        <5>. HIDE DEF g
        <5>. QED  BY <4>2, <5>2 DEF EndsOf
      <4>3. CASE i > L
        BY <4>3 DEF EndsOf
      <4>. QED  BY <4>1, <4>2, <4>3
    <3>5. Is(g, k)
      BY <3>4
    <3>. QED  BY <2>1, <3>5
  <2>. QED  BY <2>2, <2>3
<1>2. PICK f : Is(f, L + 1)
  <2>1. L + 1 \in 0..L + 1
    OBVIOUS
  <2>. HIDE DEF Is
  <2>. QED  BY <1>1, <2>1
<1>3. D(L + 1) = 1..L + 1
  OBVIOUS
<1>4. EndsIs(pattern, name, f)
  BY <1>2, <1>3 DEF EndsIs
<1>5. EndsIs(pattern, name, Ends(pattern, name))
  BY <1>4 DEF Ends
<1>6. Means(pattern, name) <=> 1 \in Ends(pattern, name)[1]
  BY DEF Means, Ends, EndsIs, EndsOf
<1>. QED  BY <1>5, <1>6 DEF EndsIs

\* A step of the scan goes on in the name, or in the pattern.
LEMMA IterateFacts ==
    ASSUME NEW pattern, Len(pattern) \in Nat, NEW name, Len(name) \in Nat,
           NEW s \in Scan(pattern, name), s.n <= Len(name), NEW t \in Iterate(pattern, name, s)
    PROVE  /\ t \in Scan(pattern, name)
           /\ t.n = s.n + 1 \/ (t.n = s.n /\ t.p > s.p)
<1> DEFINE q == AfterStars(pattern, s.p)
           here == [s EXCEPT !.laststar = IF name[s.n] = Slash THEN 0 ELSE @]
<1>1. /\ s.p \in 1..Len(pattern) + 1 /\ s.n \in 1..Len(name) + 1
      /\ s.laststar \in 0..Len(pattern) + 1 /\ s.lastdstar \in 0..Len(pattern) + 1
  BY DEF Scan
<1>2. here \in Scan(pattern, name) /\ here.n = s.n /\ here.p = s.p
  BY <1>1 DEF Scan
<1>3. ASSUME NEW u \in Scan(pattern, name), u.n = s.n, t \in Restart(u)
      PROVE  t \in Scan(pattern, name) /\ t.n = s.n + 1
  <2>1. /\ u = [p |-> u.p, n |-> u.n, laststar |-> u.laststar, lastdstar |-> u.lastdstar]
        /\ u.laststar \in 0..Len(pattern) + 1 /\ u.lastdstar \in 0..Len(pattern) + 1
    BY DEF Scan
  <2>2. CASE u.laststar # 0 /\ t = [u EXCEPT !.p = u.laststar, !.n = @ + 1]
    <3>1. t = [p |-> u.laststar, n |-> u.n + 1, laststar |-> u.laststar, lastdstar |-> u.lastdstar]
      BY <2>1, <2>2
    <3>. QED  BY <1>1, <1>3, <2>1, <2>2, <3>1 DEF Scan
  <2>3. CASE u.lastdstar # 0 /\ t = [u EXCEPT !.p = u.lastdstar, !.laststar = u.lastdstar, !.n = @ + 1]
    <3>1. t = [p |-> u.lastdstar, n |-> u.n + 1, laststar |-> u.lastdstar, lastdstar |-> u.lastdstar]
      BY <2>1, <2>3
    <3>. QED  BY <1>1, <1>3, <2>1, <2>3, <3>1 DEF Scan
  <2>. QED  BY <1>3, <2>2, <2>3 DEF Restart
<1>4. CASE t \in Restart(here) \/ t \in Restart(s)
  <2>. HIDE DEF here
  <2>. QED  BY <1>2, <1>3, <1>4
<1>5. CASE s.p <= Len(pattern) /\ pattern[s.p] = Star
  <2>1. q \in s.p..Len(pattern) + 1 /\ q > s.p
    BY <1>1, <1>5, AfterStarsFacts
  <2>2. t = [s EXCEPT !.p = q, !.laststar = q, !.lastdstar = IF q - s.p >= 2 THEN q ELSE @]
    BY <1>1, <1>5 DEF Iterate
  <2>. HIDE DEF q
  <2>3. s = [p |-> s.p, n |-> s.n, laststar |-> s.laststar, lastdstar |-> s.lastdstar]
    BY DEF Scan
  <2>4. t = [p |-> q, n |-> s.n, laststar |-> q, lastdstar |-> IF q - s.p >= 2 THEN q ELSE s.lastdstar]
    BY <2>2, <2>3
  <2>. QED  BY <1>1, <2>1, <2>4 DEF Scan
<1>6. CASE s.p <= Len(pattern) /\ t = [here EXCEPT !.p = @ + 1, !.n = @ + 1]
  <2>. HIDE DEF here
  <2>1. here = [p |-> here.p, n |-> here.n, laststar |-> here.laststar, lastdstar |-> here.lastdstar]
    BY <1>2 DEF Scan
  <2>2. t = [p |-> here.p + 1, n |-> here.n + 1, laststar |-> here.laststar, lastdstar |-> here.lastdstar]
    BY <1>6, <2>1
  <2>. QED  BY <1>1, <1>2, <1>6, <2>2 DEF Scan
<1>. QED  BY <1>1, <1>4, <1>5, <1>6 DEF Iterate

\* So the scan ends: its measure grows less, a restart included.
LEMMA RankFacts ==
    ASSUME NEW pattern, Len(pattern) \in Nat, NEW name, Len(name) \in Nat
    PROVE  /\ Steps(pattern, name) \in Nat
           /\ \A s \in Scan(pattern, name) :
                Rank(pattern, name, s) \in Nat /\ Rank(pattern, name, s) < Steps(pattern, name)
           /\ \A s \in Scan(pattern, name) : s.n <= Len(name) =>
                \A t \in Iterate(pattern, name, s) :
                    t \in Scan(pattern, name) /\ Rank(pattern, name, t) < Rank(pattern, name, s)
<1> DEFINE L == Len(pattern)
           W == L + 2
           N == Len(name)
           R(s) == (N + 1 - s.n) * W + (L + 1 - s.p)
<1>1. \A s \in Scan(pattern, name) : s.p \in 1..L + 1 /\ s.n \in 1..N + 1
  BY DEF Scan
<1>2. \A s \in Scan(pattern, name) : R(s) \in Nat
  <2>. SUFFICES ASSUME NEW s \in Scan(pattern, name) PROVE R(s) \in Nat
    OBVIOUS
  <2>1. N + 1 - s.n \in Nat /\ W \in Nat /\ L + 1 - s.p \in Nat
    BY <1>1
  <2>2. \A a, w, b \in Nat : a * w + b \in Nat
    OBVIOUS
  <2>. HIDE DEF W, N, L
  <2>. QED  BY <2>1, <2>2
<1>3. ASSUME NEW s \in Scan(pattern, name), s.n <= N, NEW t \in Iterate(pattern, name, s)
      PROVE  t \in Scan(pattern, name) /\ R(t) < R(s)
  <2>1. t \in Scan(pattern, name) /\ (t.n = s.n + 1 \/ (t.n = s.n /\ t.p > s.p))
    BY <1>3, IterateFacts
  <2>2. /\ s.p \in 1..L + 1 /\ s.n \in 1..N + 1 /\ t.p \in 1..L + 1 /\ t.n \in 1..N + 1
    BY <1>1, <2>1
  <2> DEFINE a == N + 1 - s.n
             b == L + 1 - s.p
             c == L + 1 - t.p
  <2>3. a \in Nat /\ b \in Nat /\ c \in Nat /\ c < W /\ W \in Nat
    BY <2>2, SMTT(30)
  <2>4. CASE t.n = s.n /\ t.p > s.p
    <3>1. c < b /\ R(s) = a * W + b /\ R(t) = a * W + c
      BY <2>2, <2>4
    <3>2. a * W \in Nat
      <4>. HIDE DEF a, W
      <4>. QED  BY <2>3
    <3>3. \A x \in Nat : x + c < x + b
      <4>. HIDE DEF b, c
      <4>. QED  BY <2>3, <3>1
    <3>. QED  BY <2>1, <3>1, <3>2, <3>3
  <2>5. CASE t.n = s.n + 1
    <3>1. R(s) = a * W + b /\ R(t) = (N + 1 - t.n) * W + c /\ N + 1 - t.n = a - 1
      BY <2>2, <2>5
    <3>2. (a - 1) * W + c < a * W + b
      <4>. HIDE DEF a, b, c, W
      <4>1. \A x \in Nat, w \in Nat : (x - 1) * w = x * w - w /\ x * w \in Nat
        OBVIOUS
      <4>. QED  BY <2>3, <4>1
    <3>. QED  BY <2>1, <3>1, <3>2
  <2>. QED  BY <2>1, <2>4, <2>5
<1> DEFINE K == (N + 1) * W + W
<1>4. K \in Nat /\ \A s \in Scan(pattern, name) : R(s) < K
  <2>1. K \in Nat
    OBVIOUS
  <2>2. ASSUME NEW s \in Scan(pattern, name)
        PROVE  R(s) < K
    <3>1. s.p \in 1..L + 1 /\ s.n \in 1..N + 1
      BY <1>1
    <3>2. (N + 1 - s.n) * W <= (N + 1) * W
      <4>1. N + 1 - s.n \in 0..N + 1 /\ N + 1 \in Nat /\ W \in Nat
        BY <3>1
      <4>. HIDE DEF W
      <4>2. \A a, b, w \in Nat : a <= b => a * w <= b * w
        OBVIOUS
      <4>. QED  BY <4>1, <4>2
    <3>3. L + 1 - s.p < W /\ L + 1 - s.p \in Nat
      BY <3>1
    <3>4. (N + 1 - s.n) * W \in Nat /\ (N + 1) * W \in Nat
      <4>1. N + 1 - s.n \in Nat
        BY <3>1
      <4>. HIDE DEF W
      <4>2. \A a, w \in Nat : a * w \in Nat
        OBVIOUS
      <4>3. W \in Nat
        BY DEF W
      <4>. QED  BY <4>1, <4>2, <4>3
    <3> DEFINE x == (N + 1 - s.n) * W
               y == (N + 1) * W
               r == L + 1 - s.p
    <3>5. R(s) = x + r /\ K = y + W /\ W \in Nat
      OBVIOUS
    <3>. HIDE DEF x, y, r, W, R, K
    <3>6. x \in Nat /\ y \in Nat /\ x <= y
      BY <3>2, <3>4 DEF x, y
    <3>7. r < W /\ r \in Nat
      BY <3>3 DEF r
    <3>. QED  BY <3>5, <3>6, <3>7
  <2>. QED  BY <2>1, <2>2
<1>. QED  BY <1>2, <1>3, <1>4 DEF Rank, Steps

\* Match has its equation at every state of the scan.
LEMMA MatchFacts ==
    ASSUME NEW pattern, Len(pattern) \in Nat, NEW name, Len(name) \in Nat
    PROVE  /\ \A s \in Scan(pattern, name) :
                Match(pattern, name)[s] = MatchOf(pattern, name, Match(pattern, name), s)
           /\ Matchglob(pattern, name) = Match(pattern, name)[Start]
<1> DEFINE L == Len(pattern)
           N == Len(name)
           D(k) == {s \in Scan(pattern, name) : Rank(pattern, name, s) < k}
           Is(f, k) == f = [s \in D(k) |-> MatchOf(pattern, name, f, s)]
           Bad == {k \in Nat : \A f : ~Is(f, k)}
           K == Steps(pattern, name)
<1>1. \A s \in Scan(pattern, name) : s.p \in 1..L + 1 /\ s.n \in 1..N + 1
  BY DEF Scan
<1>2. \A s \in Scan(pattern, name) : Rank(pattern, name, s) \in Nat /\ Rank(pattern, name, s) < K
  BY RankFacts
<1>3. \A s \in Scan(pattern, name) : s.n <= N =>
        \A t \in Iterate(pattern, name, s) :
            t \in Scan(pattern, name) /\ Rank(pattern, name, t) < Rank(pattern, name, s)
  BY RankFacts
<1>4. Bad = {}
  <2>. SUFFICES ASSUME Bad # {} PROVE FALSE
    OBVIOUS
  <2>1. PICK k \in Bad : \A j \in Bad : k <= j
    <3>1. Bad \in SUBSET Nat
      OBVIOUS
    <3>. QED  BY <3>1, Least
  <2>2. CASE k = 0
    <3>1. D(k) = {}
      BY <1>2, <2>2
    <3>2. Is([s \in {} |-> TRUE], k)
      BY <3>1
    <3>. QED  BY <2>1, <3>2
  <2>3. CASE k # 0
    <3>1. k \in Nat /\ k - 1 \in Nat /\ k - 1 \notin Bad
      <4>. HIDE DEF Is
      <4>1. k \in Nat /\ k - 1 \in Nat
        BY <2>3
      <4>2. k - 1 \in Bad => k <= k - 1
        BY <2>1
      <4>. HIDE DEF Bad
      <4>. QED  BY <4>1, <4>2
    <3>2. PICK f : Is(f, k - 1)
      BY <3>1
    <3> DEFINE g == [s \in D(k) |-> MatchOf(pattern, name, f, s)]
    <3>3. \A s \in D(k - 1) : g[s] = f[s]
      <4>1. \A s \in D(k - 1) : s \in D(k)
        BY <1>2, <3>1
      <4>. HIDE DEF D
      <4>. QED  BY <3>2, <4>1
    <3>4. ASSUME NEW s \in D(k)
          PROVE  MatchOf(pattern, name, f, s) = MatchOf(pattern, name, g, s)
      <4>1. CASE s.n <= N
        <5>1. \A t \in Iterate(pattern, name, s) : t \in D(k - 1)
          BY <1>2, <1>3, <3>1, <4>1
        <5>2. \A t \in Iterate(pattern, name, s) : g[t] = f[t]
          BY <3>3, <5>1
        <5>. HIDE DEF g
        <5>. QED  BY <4>1, <5>2 DEF MatchOf
      <4>2. CASE s.n > N
        BY <4>2 DEF MatchOf
      <4>. QED  BY <1>1, <4>1, <4>2
    <3>5. Is(g, k)
      BY <3>4
    <3>. QED  BY <2>1, <3>5
  <2>. QED  BY <2>2, <2>3
<1>5. PICK f : Is(f, K)
  <2>1. K \in Nat
    BY RankFacts
  <2>. HIDE DEF Is, K
  <2>. QED  BY <1>4, <2>1
<1>6. D(K) = Scan(pattern, name)
  BY <1>2
<1>7. MatchIs(pattern, name, f)
  BY <1>5, <1>6 DEF MatchIs
<1>8. MatchIs(pattern, name, Match(pattern, name))
  BY <1>7 DEF Match
<1>9. Matchglob(pattern, name) = Match(pattern, name)[Start]
  BY DEF Matchglob, Match, MatchIs, MatchOf
<1>. QED  BY <1>8, <1>9 DEF MatchIs

\* What the scanner matches a glob means: from any state of the scan what is
\* left of the name is matched by what is left of the pattern, or from one of
\* the two restart points on.
LEMMA Sound ==
    ASSUME NEW pattern, Len(pattern) \in Nat, NEW name, Len(name) \in Nat, Matchglob(pattern, name)
    PROVE  Means(pattern, name)
<1> DEFINE L == Len(pattern)
           N == Len(name)
           E == Ends(pattern, name)
           M == Match(pattern, name)
           Near(p, n) == \E k \in n..N + 1 : k \in E[p] /\ \A x \in n..k - 1 : name[x] # Slash
           Far(p, n) == \E k \in n..N + 1 : k \in E[p]
           Claim(s) == \/ s.n \in E[s.p]
                       \/ s.laststar # 0 /\ Near(s.laststar, s.n)
                       \/ s.lastdstar # 0 /\ Far(s.lastdstar, s.n)
           Bad == {k \in Nat : \E s \in Scan(pattern, name) : M[s] /\ ~Claim(s) /\ Rank(pattern, name, s) = k}
<1>1. /\ \A i \in 1..L + 1 : E[i] = EndsOf(pattern, name, E, i)
      /\ Means(pattern, name) <=> 1 \in E[1]
  BY EndsFacts
<1>2. /\ \A s \in Scan(pattern, name) : M[s] = MatchOf(pattern, name, M, s)
      /\ M[Start]
  BY MatchFacts
<1>3. \A s \in Scan(pattern, name) :
        /\ s.p \in 1..L + 1 /\ s.n \in 1..N + 1
        /\ s.laststar \in 0..L + 1 /\ s.lastdstar \in 0..L + 1
  BY DEF Scan
<1>. HIDE DEF E, M
\* A run of stars, and the part after it.
<1>4. ASSUME NEW p \in 1..L, pattern[p] = Star, NEW n \in 1..N + 1,
             LET q == AfterStars(pattern, p) IN Near(q, n) \/ (q - p # 1 /\ Far(q, n))
      PROVE  n \in E[p]
  <2> DEFINE q == AfterStars(pattern, p)
  <2>1. PICK k \in n..N + 1 : k \in E[q] /\ (q - p = 1 => \A x \in n..k - 1 : name[x] # Slash)
    BY <1>4
  <2>. HIDE DEF q
  <2>2. E[p] = {j \in 1..N + 1 :
                  \E h \in j..N + 1 :
                     /\ q - p = 1 => \A x \in j..h - 1 : name[x] # Slash
                     /\ h \in E[q]}
    <3>1. E[p] = EndsOf(pattern, name, E, p)
      BY <1>1
    <3>. QED  BY <1>4, <3>1 DEF EndsOf, q
  <2>. QED  BY <2>1, <2>2
\* One that the name is at the end for.
<1>5. ASSUME NEW s \in Scan(pattern, name), s.n = N + 1, M[s]
      PROVE  Claim(s)
  <2>1. AfterStars(pattern, s.p) = L + 1
    <3>1. MatchOf(pattern, name, M, s)
      BY <1>2, <1>5
    <3>. QED  BY <1>3, <1>5, <3>1, AfterStarsFacts DEF MatchOf
  <2>2. E[L + 1] = {N + 1}
    <3>1. E[L + 1] = EndsOf(pattern, name, E, L + 1)
      BY <1>1
    <3>. QED  BY <3>1 DEF EndsOf
  <2>3. CASE s.p = L + 1
    BY <1>5, <2>2, <2>3
  <2>4. CASE s.p # L + 1
    <3>1. s.p \in 1..L /\ pattern[s.p] = Star
      BY <1>3, <2>1, <2>4, AfterStarsFacts
    <3>2. Near(L + 1, s.n)
      BY <1>5, <2>2
    <3>. QED  BY <1>4, <1>5, <2>1, <3>1, <3>2
  <2>. QED  BY <2>3, <2>4
\* One iteration.
<1>6. ASSUME NEW s \in Scan(pattern, name), s.n <= N, NEW t \in Iterate(pattern, name, s),
             t \in Scan(pattern, name), Claim(t)
      PROVE  Claim(s)
  <2> DEFINE q == AfterStars(pattern, s.p)
             here == [s EXCEPT !.laststar = IF name[s.n] = Slash THEN 0 ELSE @]
  <2>1. s = [p |-> s.p, n |-> s.n, laststar |-> s.laststar, lastdstar |-> s.lastdstar]
    BY DEF Scan
  <2>2. /\ here = [p |-> s.p, n |-> s.n, lastdstar |-> s.lastdstar,
                   laststar |-> IF name[s.n] = Slash THEN 0 ELSE s.laststar]
        /\ here.laststar # 0 => here.laststar = s.laststar /\ name[s.n] # Slash
        /\ here.lastdstar = s.lastdstar /\ here.n = s.n
    BY <2>1
  <2>3. \A p \in 1..L + 1 : Far(p, s.n + 1) => Far(p, s.n)
    BY <1>3, <1>6
  <2>4. \A p \in 1..L + 1 : Near(p, s.n + 1) /\ name[s.n] # Slash => Near(p, s.n)
    <3>. SUFFICES ASSUME NEW p \in 1..L + 1, Near(p, s.n + 1), name[s.n] # Slash
                  PROVE  Near(p, s.n)
      OBVIOUS
    <3>1. PICK k \in s.n + 1..N + 1 : k \in E[p] /\ \A x \in s.n + 1..k - 1 : name[x] # Slash
      OBVIOUS
    <3>2. \A x \in s.n..k - 1 : x = s.n \/ x \in s.n + 1..k - 1
      BY <1>3
    <3>3. k \in s.n..N + 1
      BY <1>3
    <3>. QED  BY <3>1, <3>2, <3>3
  <2>5. \A p \in 1..L + 1 : Near(p, s.n + 1) => Far(p, s.n + 1)
    OBVIOUS
  <2>6. \A p \in 1..L + 1 : s.n + 1 \in E[p] => Near(p, s.n + 1) /\ Far(p, s.n + 1)
    <3>1. \A x : x \notin s.n + 1..(s.n + 1) - 1
      BY <1>3
    <3>2. s.n + 1 \in s.n + 1..N + 1
      BY <1>3, <1>6
    <3>. QED  BY <3>1, <3>2
  <2>7. \A p \in 1..L + 1 : s.n \in E[p] => Near(p, s.n) /\ Far(p, s.n)
    <3>1. \A x : x \notin s.n..s.n - 1
      BY <1>3
    <3>2. s.n \in s.n..N + 1
      BY <1>3, <1>6
    <3>. QED  BY <3>1, <3>2
  <2>. HIDE DEF Near, Far
  <2>8. ASSUME NEW u, u \in {s, here}, t \in Restart(u), u.laststar # 0 => name[s.n] # Slash
        PROVE  Claim(s)
    <3>. HIDE DEF here
    <3>1. /\ u.laststar # 0 => u.laststar = s.laststar /\ name[s.n] # Slash
          /\ u.lastdstar = s.lastdstar /\ u.n = s.n
          /\ u = [p |-> u.p, n |-> u.n, laststar |-> u.laststar, lastdstar |-> u.lastdstar]
      BY <2>1, <2>2, <2>8
    <3>2. CASE u.laststar # 0 /\ t = [u EXCEPT !.p = u.laststar, !.n = @ + 1]
      <4>1. /\ t.p = s.laststar /\ t.n = s.n + 1 /\ t.laststar = s.laststar /\ t.lastdstar = s.lastdstar
            /\ s.laststar \in 1..L + 1 /\ name[s.n] # Slash /\ s.lastdstar \in 0..L + 1
        BY <1>3, <3>1, <3>2
      <4>. QED  BY <1>6, <2>3, <2>4, <2>6, <4>1
    <3>3. CASE u.lastdstar # 0 /\ t = [u EXCEPT !.p = u.lastdstar, !.laststar = u.lastdstar, !.n = @ + 1]
      <4>1. /\ t.p = s.lastdstar /\ t.n = s.n + 1 /\ t.laststar = s.lastdstar /\ t.lastdstar = s.lastdstar
            /\ s.lastdstar \in 1..L + 1
        BY <1>3, <3>1, <3>3
      <4>. QED  BY <1>6, <2>3, <2>5, <2>6, <4>1
    <3>. QED  BY <2>8, <3>2, <3>3 DEF Restart
  <2>9. CASE s.p <= L /\ pattern[s.p] = Star
    <3>1. t = [s EXCEPT !.p = q, !.laststar = q, !.lastdstar = IF q - s.p >= 2 THEN q ELSE @]
      BY <1>3, <2>9 DEF Iterate
    <3>2. q \in 1..L + 1 /\ s.p \in 1..L
      BY <1>3, <2>9, AfterStarsFacts
    <3>3. Near(q, s.n) \/ (q - s.p # 1 /\ Far(q, s.n)) => s.n \in E[s.p]
      BY <1>3, <1>4, <2>9, <3>2
    <3>. HIDE DEF q
    <3>4. /\ t.p = q /\ t.n = s.n /\ t.laststar = q
          /\ t.lastdstar = IF q - s.p >= 2 THEN q ELSE s.lastdstar
      BY <2>1, <3>1
    <3>5. CASE t.n \in E[t.p] \/ Near(t.laststar, t.n)
      BY <2>7, <3>2, <3>3, <3>4, <3>5
    <3>6. CASE t.lastdstar # 0 /\ Far(t.lastdstar, t.n)
      BY <3>2, <3>3, <3>4, <3>6
    <3>. QED  BY <1>6, <3>5, <3>6
  <2>10. CASE s.p <= L /\ pattern[s.p] # Star /\ name[s.n] = pattern[s.p] /\ t = [here EXCEPT !.p = @ + 1, !.n = @ + 1]
    <3>1. /\ t.p = s.p + 1 /\ t.n = s.n + 1 /\ t.lastdstar = s.lastdstar
          /\ t.laststar # 0 => t.laststar = s.laststar /\ name[s.n] # Slash
      BY <2>2, <2>10
    <3>2. s.n + 1 \in E[s.p + 1] => s.n \in E[s.p]
      <4>1. E[s.p] = EndsOf(pattern, name, E, s.p)
        BY <1>1, <1>3
      <4>. QED  BY <1>3, <1>6, <2>10, <4>1 DEF EndsOf
    <3>3. s.laststar # 0 => s.laststar \in 1..L + 1
      BY <1>3
    <3>4. s.lastdstar # 0 => s.lastdstar \in 1..L + 1
      BY <1>3
    <3>. QED  BY <1>6, <2>3, <2>4, <3>1, <3>2, <3>3, <3>4
  <2>11. \/ \E u \in {s, here} : t \in Restart(u) /\ (u.laststar # 0 => name[s.n] # Slash)
         \/ s.p <= L /\ pattern[s.p] = Star
         \/ s.p <= L /\ pattern[s.p] # Star /\ name[s.n] = pattern[s.p] /\ t = [here EXCEPT !.p = @ + 1, !.n = @ + 1]
    <3>1. CASE s.p > L /\ name[s.n] = Slash
      BY <1>3, <2>2, <3>1 DEF Iterate
    <3>2. CASE s.p > L /\ name[s.n] # Slash
      BY <1>3, <3>2 DEF Iterate
    <3>3. CASE s.p <= L
      BY <1>3, <2>2, <3>3 DEF Iterate
    <3>. QED  BY <1>3, <3>1, <3>2, <3>3
  <2>. QED  BY <2>8, <2>9, <2>10, <2>11
<1>7. Bad = {}
  <2>. SUFFICES ASSUME Bad # {} PROVE FALSE
    OBVIOUS
  <2>. HIDE DEF Claim
  <2>1. PICK k \in Bad : \A j \in Bad : k <= j
    <3>1. Bad \in SUBSET Nat
      OBVIOUS
    <3>. HIDE DEF Bad
    <3>. QED  BY <3>1, Least
  <2>2. PICK s \in Scan(pattern, name) : M[s] /\ ~Claim(s) /\ Rank(pattern, name, s) = k
    BY <2>1
  <2>3. s.n <= N /\ \E t \in Iterate(pattern, name, s) : M[t]
    <3>1. s.n # N + 1
      BY <1>5, <2>2
    <3>2. MatchOf(pattern, name, M, s)
      BY <1>2, <2>2
    <3>. QED  BY <1>3, <3>1, <3>2 DEF MatchOf
  <2>4. PICK t \in Iterate(pattern, name, s) : M[t]
    BY <2>3
  <2>5. /\ t \in Scan(pattern, name)
        /\ Rank(pattern, name, t) < Rank(pattern, name, s) /\ Rank(pattern, name, t) \in Nat
    BY <2>3, RankFacts
  <2>6. Claim(t)
    <3>1. Rank(pattern, name, t) \notin Bad
      BY <2>1, <2>2, <2>5
    <3>. QED  BY <2>4, <2>5, <3>1
  <2>. QED  BY <1>6, <2>2, <2>3, <2>5, <2>6
<1>8. Claim(Start)
  <2>1. Start \in Scan(pattern, name)
    BY DEF Start, Scan
  <2>2. Rank(pattern, name, Start) \in Nat
    BY <2>1, RankFacts
  <2>. HIDE DEF Claim
  <2>. QED  BY <1>2, <1>7, <2>1, <2>2
<1>. QED  BY <1>1, <1>8 DEF Start

-----------------------------------------------------------------------------
(***************************************************************************)
(* The theorems.                                                           *)
(***************************************************************************)
LEMMA InitSafe ==
    ASSUME Init
    PROVE  HInv /\ RInv
<1>1. /\ MaxClock \in Nat /\ MaxClock >= 1 /\ now = 1 /\ past = <<>> /\ phase = "idle"
      /\ \A n \in Name : disk[n] = None /\ rev[n] = <<>> /\ kept[n] = {}
      /\ DOMAIN past = {} /\ \A n \in Name : DOMAIN rev[n] = {}
  BY RestoreAssumption DEF Init
<1>2. None \in Node /\ None.kind = "none" /\ None.time = 0
  BY <1>1 DEF None, Node
<1>3. Typed
  <2>1. past \in Seq([Name -> Node]) /\ Len(past) = now - 1
    BY <1>1
  <2>2. rev \in [Name -> Seq(Node)] /\ disk \in [Name -> Node] /\ kept \in [Name -> SUBSET (0..MaxClock)]
    BY <1>2 DEF Init
  <2>3. request.t \in Nat /\ now \in 1..MaxClock
    BY <1>1 DEF Init, NoTime, NoRequest
  <2>4. todo = {} /\ request.files = {} /\ spoilt = {} /\ astray = {}
    BY DEF Init, NoRequest
  <2>. QED  BY <1>1, <2>1, <2>2, <2>3, <2>4 DEF Init, Typed
<1>4. Tree
  BY <1>1, <1>2 DEF Tree, Exists
<1>5. Times
  BY <1>1, <1>2 DEF Times, Restoring, Kinds
<1>6. Told
  BY <1>1, <1>2 DEF Told, Versions, Kinds
<1>7. ASSUME NEW n \in Name
      PROVE  Lasts(n) /\ Ascending(n) /\ HeadBefore(n) /\ HeadKept(n) /\ Recorded(n)
  BY <1>1, <1>2 DEF Lasts, Ascending, HeadBefore, HeadKept, Recorded, Stored, Kinds
<1>8. HInv
  BY <1>3, <1>4, <1>5, <1>6, <1>7 DEF HInv, Straight
<1>9. RInv
  BY <1>1 DEF RInv, Restoring
<1>. QED  BY <1>8, <1>9

\* Every step keeps both invariants.
LEMMA Inductive == Spec => [](HInv /\ RInv)
<1>1. Init => HInv /\ RInv
  BY InitSafe
<1>2. HInv /\ RInv /\ [Next]_vars => (HInv /\ RInv)'
  <2>. SUFFICES ASSUME HInv, RInv, [Next]_vars PROVE HInv' /\ RInv'
    OBVIOUS
  <2>1. ASSUME NEW n \in Name, Change(n) PROVE HInv' /\ RInv'
    BY <2>1, ChangeSafe
  <2>2. ASSUME NEW n \in Name, Save(n) PROVE HInv' /\ RInv'
    BY <2>2, SaveSafe
  <2>3. CASE StartRestore
    BY <2>3, StartSafe
  <2>4. CASE RemoveOld
    BY <2>4, RemoveSafe
  <2>5. CASE WriteNew
    BY <2>5, WriteSafe
  <2>6. CASE RestoreDone \/ Dies
    BY <2>6, PhaseSafe
  <2>8. ASSUME NEW n \in Name, Forget(n) PROVE HInv' /\ RInv'
    BY <2>8, ForgetSafe
  <2>7. CASE UNCHANGED vars
    BY <2>7, StutterSafe
  <2>. QED  BY <2>1, <2>2, <2>3, <2>4, <2>5, <2>6, <2>7, <2>8 DEF Next, RestoreStep
<1>. QED  BY <1>1, <1>2, PTL DEF Spec

\* The tree, the revisions and the place of a restore stay what the code can
\* make of them (gdsnap.go:1011-1104): only paths of the archive are visited.
THEOREM TypesHold == Spec => []TypeOK
<1>1. HInv => TypeOK
  <2>. SUFFICES ASSUME HInv PROVE TypeOK
    OBVIOUS
  <2>1. Typed
    BY DEF HInv
  <2>2. \A n \in Name : \A i \in DOMAIN rev[n] : rev[n][i] \in Node
    BY <2>1, Fields
  <2>3. (\A n \in todo : rev[n] # <<>>) /\ spoilt \cup astray \subseteq Name
    BY <2>1 DEF Typed, Listed, Stored
  <2>. QED  BY <2>1, <2>2, <2>3 DEF TypeOK, Typed
<1>. QED  BY <1>1, Inductive, PTL

\* -t (gdsnap.go:136) gives back what was there at the end of every earlier
\* tick, of a path that savepath handled, at once or later, while Drive keeps the
\* revision, and where no file was given a time other than the clock's.
THEOREM PointKept == Spec => []PointInTime
<1>1. HInv => PointInTime
  <2>. SUFFICES ASSUME HInv, NEW n \in Name \ backdated, NEW t \in DOMAIN past,
                       past[t][n].kind \in Kinds, past[t][n].time \in kept[n]
                PROVE  Same(RevAt(n, t), past[t][n])
    BY DEF PointInTime
  <2>1. Typed /\ Ascending(n) /\ Recorded(n)
    BY DEF HInv, Straight
  <2>2. PICK i \in DOMAIN rev[n] : LastAt(n, t, i) /\ Same(rev[n][i], past[t][n])
    BY <2>1 DEF Recorded
  <2>3. Stored(n)
    BY <2>2 DEF Stored
  <2>4. t \in Nat
    BY <2>1, Fields
  <2>5. RevAt(n, t) = rev[n][i]
    BY <2>1, <2>2, <2>3, <2>4, RevAtLast
  <2>. QED  BY <2>2, <2>5
<1>. QED  BY <1>1, Inductive, PTL

\* diff compares times before it compares contents (gdsnap.go:1001-1065), and
\* whatever it is answered is silent for no path that differs from the revision
\* at t, but for the ones that the property names.
THEOREM SilenceTrue == Spec => []SilentMeansSame
<1>1. HInv => SilentMeansSame
  <2>. SUFFICES ASSUME HInv, NEW n \in Listed, NEW t \in 1..now \cup {NoTime}, NEW r \in Fetched(n, t),
                       DiffSays(n, r) = "nothing"
                PROVE  \/ Same(disk[n], RevAt(n, t))
                       \/ n \in backdated /\ disk[n].time = RevAt(n, t).time
                       \/ r # RevAt(n, t) /\ (Exists(n) => disk[n].content = ErrorPage)
    BY DEF SilentMeansSame
  <2>1. Typed /\ Times /\ Told /\ n \in Name /\ Stored(n)
    BY DEF HInv, Listed
  <2>2. t \in Nat
    BY <2>1, Fields DEF NoTime
  <2> DEFINE d == disk[n]
             w == RevAt(n, t)
  <2>3. \/ w = Deleted
        \/ \E i \in DOMAIN rev[n] : w = rev[n][i] /\ rev[n][i].time <= t
    BY <2>1, <2>2, RevAtFacts
  <2>4. w \in Node /\ w.kind \in Kinds \cup {"none"} /\ d \in Node
    BY <2>1, <2>2, RevAtFacts, Fields
  <2>5. \/ r = w
        \/ r # w /\ r.kind = w.kind /\ r.time = w.time /\ r.content = ErrorPage
        \/ r # w /\ r.kind = "none"
    <3>1. r \in {w, [w EXCEPT !.content = ErrorPage], Deleted}
      BY DEF Fetched
    <3>2. Deleted.kind = "none"
      BY <2>1, Fields DEF Deleted
    <3>3. /\ [w EXCEPT !.content = ErrorPage].kind = w.kind
          /\ [w EXCEPT !.content = ErrorPage].time = w.time
          /\ [w EXCEPT !.content = ErrorPage].content = ErrorPage
      BY <2>4 DEF Node
    <3>. HIDE DEF w
    <3>. QED  BY <3>1, <3>2, <3>3
  <2>6. CASE ~Exists(n)
    BY <2>4, <2>5, <2>6 DEF DiffSays, Exists, Same, Kinds
  <2>7. CASE Exists(n) /\ r.kind # "none" /\ d.time = r.time /\ n \notin backdated
    <3>1. w.kind # "none" /\ d.time = w.time
      BY <2>5, <2>7
    <3>2. PICK i \in DOMAIN rev[n] : w = rev[n][i]
      BY <2>1, <2>3, <3>1, Fields DEF Deleted
    <3>3. w.time > 0 /\ w.kind \in Kinds
      BY <2>1, <2>4, <3>1, <3>2 DEF Times
    <3>4. d.kind \in Kinds
      BY <2>1, <3>1, <3>3 DEF Times
    <3>5. d \in Versions(n) /\ w \in Versions(n)
      BY <3>2 DEF Versions
    <3>6. d = w
      BY <2>1, <2>7, <3>1, <3>3, <3>4, <3>5 DEF Told
    <3>. QED  BY <3>6 DEF Same
  <2>8. CASE Exists(n) /\ r.kind # "none" /\ d.time = r.time /\ n \in backdated
    BY <2>5, <2>8
  <2>9. CASE Exists(n) /\ r.kind # "none" /\ d.time # r.time
    <3>1. d.kind = r.kind /\ d.content = r.content
      BY <2>9 DEF DiffSays
    <3>. QED  BY <2>5, <2>9, <3>1 DEF Same
  <2>10. CASE Exists(n) /\ r.kind = "none"
    BY <2>10 DEF DiffSays
  <2>. QED  BY <2>6, <2>7, <2>8, <2>9, <2>10
<1>. QED  BY <1>1, Inductive, PTL

\* The head revision of a path that savepath has handled is what is there
\* until the tree changes (gdsnap.go:44-48): restore without -t gives it back.
THEOREM HeadSaved == Spec => []SavedIsHead
<1>1. HInv /\ TypeOK => SavedIsHead
  <2>. SUFFICES ASSUME HInv, NEW n \in Name, disk[n].kind \in Kinds, disk[n].time \in kept[n],
                       n \notin backdated
                PROVE  Stored(n) /\ Same(RevAt(n, NoTime), disk[n])
    BY DEF SavedIsHead
  <2>1. Typed /\ Times /\ HeadKept(n)
    BY DEF HInv, Straight
  <2>2. Stored(n) /\ Same(HeadOf(n), disk[n])
    BY <2>1 DEF HeadKept
  <2>3. NoTime \in Nat /\ now <= NoTime
    BY <2>1, Fields DEF NoTime
  <2>4. RevAt(n, NoTime) = HeadOf(n)
    BY <2>1, <2>2, <2>3, RevAtHead
  <2>. QED  BY <2>2, <2>4
<1>. QED  BY <1>1, Inductive, TypesHold, PTL

\* A restore that gets to its end (gdsnap.go:1069-1104), the first one or one
\* after others that died, leaves each path that its listing has and its globs
\* match as the revision says, but for those that another path was in the way of
\* or that an error was the answer for; and all others as they were.
THEOREM Exact == Spec => []RestoreExact
<1>1. HInv /\ RInv => RestoreExact
  <2>. SUFFICES ASSUME HInv, RInv, phase = "done"
                PROVE  /\ \A n \in request.files : n \notin spoilt /\ ~Obstructed(n) => Restored(n)
                       /\ Untouched
    BY DEF RestoreExact, Restored, Untouched
  <2>1. AllDone /\ Untouched /\ todo = {}
    BY DEF RInv
  <2>2. request.files \subseteq Name
    BY WantedFacts DEF HInv
  <2>. QED  BY <2>1, <2>2 DEF AllDone, Free, InList
<1>. QED  BY <1>1, Inductive, PTL

\* What is no file is as it was made, and what restore was asked for is known.
Asked == Restoring =>
    /\ request.args \subseteq Globs /\ request.cwd \in Cwd
    /\ \A n \in request.files : \E g \in request.args : Matchglob(FullGlob(request.cwd, g), n)
Plain == \A n \in Name : disk[n].kind \in Kinds \/ disk[n] \in {None, ADir}

\* What is on the disk is of the kinds there are.
LEMMA PlainStep ==
    ASSUME Plain, HInv, RInv, [Next]_vars
    PROVE  Plain'
<1>1. Typed /\ Times /\ disk \in [Name -> Node]
  BY DEF HInv, Typed
<1>2. ASSUME NEW n \in Name, NEW e, disk' = Put(disk, n, e), e.kind \in Kinds
      PROVE  Plain'
  BY <1>2 DEF Plain, Put
<1>3. ASSUME NEW n \in Name, Change(n)
      PROVE  Plain'
  <2>1. CASE \E e : disk' = Put(disk, n, e) /\ e.kind \in Kinds
    BY <1>2, <2>1
  <2>2. CASE disk' = [m \in Name |-> IF m = n \/ m \in Beneath(n) THEN None ELSE disk[m]]
    BY <2>2 DEF Plain
  <2>3. ASSUME NEW k \in Kinds, NEW c \in Content, NEW time,
               disk' = Put(disk, n, [kind |-> k, content |-> c, time |-> time])
        PROVE  Plain'
    <3>1. [kind |-> k, content |-> c, time |-> time].kind \in Kinds
      OBVIOUS
    <3>. QED  BY <2>1, <2>3, <3>1
  <2>. QED  BY <1>3, <2>2, <2>3 DEF Change
<1>4. CASE RemoveOld
  <2> DEFINE n == First(todo)
             gone == IF \E m \in Beneath(n) : Exists(m) THEN disk ELSE [disk EXCEPT ![n] = None]
  <2>1. \A m \in Name : gone[m] \in {disk[m], None}
    BY <1>1
  <2>2. \A m \in Name : disk'[m] \in {ADir, gone[m]}
    <3>1. gone \in [Name -> Node] /\ disk' = IF Reachable(gone, n) THEN [m \in Name |-> IF m \in Above(n) THEN ADir ELSE gone[m]] ELSE gone
      BY <1>1, <1>4, Fields DEF RemoveOld
    <3>. HIDE DEF gone
    <3>. QED  BY <3>1
  <2>. HIDE DEF gone
  <2>. QED  BY <2>1, <2>2 DEF Plain
<1>5. CASE WriteNew
  <2>1. PICK r \in Fetched(First(todo), request.t) :
            \/ disk' = disk
            \/ r.kind \in Kinds /\ disk' = [disk EXCEPT ![First(todo)] = [r EXCEPT !.time = now]]
    BY <1>5 DEF WriteNew
  <2>2. First(todo) \in Name /\ InList(First(todo))
    <3>1. todo # {} /\ todo \subseteq request.files
      BY <1>1, <1>5 DEF WriteNew, RInv, WayIsClear, Typed
    <3>. QED  BY <1>1, <3>1, FirstFacts, WantedFacts
  <2>3. r \in Node
    BY <1>1, <2>2, FetchedFacts
  <2>4. [r EXCEPT !.time = now].kind = r.kind
    BY <2>3 DEF Node
  <2>. QED  BY <1>1, <2>1, <2>2, <2>4 DEF Plain
<1>6. CASE disk' = disk
  BY <1>6 DEF Plain
<1>7. ASSUME NEW n \in Name, Save(n) \/ Forget(n)
      PROVE  disk' = disk
  BY <1>7 DEF Save, Forget, treevars
<1>8. StartRestore \/ RestoreDone \/ Dies \/ UNCHANGED vars => disk' = disk
  BY DEF StartRestore, RestoreDone, Dies, vars, treevars
<1>. QED  BY <1>3, <1>4, <1>5, <1>6, <1>7, <1>8 DEF Next, RestoreStep

\* What was asked for does not change during a restore.
LEMMA AskedStep ==
    ASSUME Asked, [Next]_vars
    PROVE  Asked'
<1>1. CASE UNCHANGED request /\ (Restoring' => Restoring)
  BY <1>1 DEF Asked
<1>2. CASE StartRestore
  <2>1. PICK g \in Globs, c \in Cwd, t \in 1..now \cup {NoTime}, ls \in Answers :
          request' = [args |-> {g}, cwd |-> c, t |-> t, files |-> FilterFiles(ls, c, {g})]
    BY <1>2 DEF StartRestore
  <2>2. \A n \in FilterFiles(ls, c, {g}) : Matchglob(FullGlob(c, g), n)
    BY DEF FilterFiles
  <2>. QED  BY <2>1, <2>2 DEF Asked
<1>3. ASSUME NEW n \in Name, Change(n) \/ Save(n) \/ Forget(n)
      PROVE  ~Restoring'
  BY <1>3 DEF Change, Save, Forget, NoRestore, Restoring
<1>4. RestoreStep \/ Dies \/ UNCHANGED vars => ~Restoring' \/ (UNCHANGED request /\ (Restoring' => Restoring))
  BY DEF RestoreStep, RemoveOld, WriteNew, RestoreDone, Dies, NoRestore, vars, Restoring
<1>5. CASE ~Restoring'
  BY <1>5 DEF Asked
<1>. QED  BY <1>1, <1>2, <1>3, <1>4, <1>5 DEF Next

\* A restore (gdsnap.go:1069-1104) touches nothing that its globs do not mean,
\* whatever the patterns, the names and the working directory, but for the
\* directories above what it restores, and nothing out of the tree but by a path
\* that they mean and that has a link to a directory above it.
THEOREM OnlyMeant == Spec => OnlyWhatIsMeant
<1> DEFINE Only == RestoreStep =>
        /\ \A n \in Name : disk'[n] = disk[n] \/ IsMeant(n) \/ (disk[n].kind = "none" /\ disk'[n].kind = "dir")
        /\ \A n \in astray' \ astray : IsMeant(n) /\ LeadsOut(disk, n)
<1>1. ASSUME HInv, RInv, Asked, Plain, RestoreStep, NEW n \in Name
      PROVE  /\ disk'[n] = disk[n] \/ IsMeant(n) \/ (disk[n].kind = "none" /\ disk'[n].kind = "dir")
             /\ n \in astray' \ astray => IsMeant(n) /\ LeadsOut(disk, n)
  <2> DEFINE f == First(todo)
  <2>1. /\ Typed /\ Times /\ disk \in [Name -> Node]
        /\ None.kind = "none" /\ ADir.kind = "dir"
    BY <1>1, Fields DEF HInv, Typed
  <2>2. ASSUME n \in todo, phase \in {"remove", "fetch"}
        PROVE  IsMeant(n)
    <3>1. /\ n \in request.files /\ request.files \subseteq Listed
          /\ request.args \subseteq Globs /\ request.cwd \in Cwd
          /\ \E g \in request.args : Matchglob(FullGlob(request.cwd, g), n)
      BY <1>1, <2>1, <2>2 DEF Asked, Restoring, Typed
    <3>2. PICK g \in request.args : Matchglob(FullGlob(request.cwd, g), n)
      BY <3>1
    <3>3. Len(FullGlob(request.cwd, g)) \in Nat
      <4> DEFINE Char == STRING \cup {Slash}
      <4>1. Seq(STRING) \subseteq Seq(Char)
        BY SeqMonotonic
      <4>2. g \in Seq(Char) /\ request.cwd \in Seq(Char) /\ <<Slash>> \in Seq(Char)
        BY <3>1, <4>1, RestoreAssumption
      <4>. HIDE DEF Char
      <4>3. FullGlob(request.cwd, g) \in Seq(Char)
        BY <4>2 DEF FullGlob
      <4>. QED  BY <4>3
    <3>4. Len(n) \in Nat
      BY RestoreAssumption
    <3>5. Stored(n)
      BY <3>1 DEF Listed
    <3>. QED  BY <3>2, <3>3, <3>4, <3>5, Sound DEF IsMeant
  <2>3. CASE RemoveOld
    <3> DEFINE gone == IF \E m \in Beneath(f) : Exists(m) THEN disk ELSE [disk EXCEPT ![f] = None]
    <3>0. todo \subseteq Name
      BY <2>1, WantedFacts DEF Typed
    <3>1. f \in todo /\ f \in Name /\ phase = "remove"
      BY <2>3, <3>0, FirstFacts DEF RemoveOld
    <3>6. n \in astray' \ astray => n = f /\ LeadsOut(disk, n)
      BY <2>3 DEF RemoveOld, Astray
    <3>2. n # f => gone[n] = disk[n]
      BY <2>1
    <3>3. \/ disk'[n] = gone[n]
          \/ n \in Above(f) /\ disk'[n] = ADir /\ gone[n].kind \in {"none", "dir"}
      <4>1. disk' = IF Reachable(gone, f) THEN [m \in Name |-> IF m \in Above(f) THEN ADir ELSE gone[m]] ELSE gone
        BY <2>3 DEF RemoveOld
      <4>. HIDE DEF gone
      <4>. QED  BY <4>1 DEF Reachable
    <3>4. CASE n = f
      BY <2>2, <3>1, <3>4, <3>6
    <3>5. CASE n # f
      <4>. HIDE DEF gone
      <4>. QED  BY <1>1, <2>1, <3>2, <3>3, <3>5, <3>6 DEF Plain, Kinds
    <3>. QED  BY <3>4, <3>5
  <2>4. CASE WriteNew
    <3>1. f \in todo /\ phase = "fetch"
      BY <1>1, <2>1, <2>4, FirstFacts, WantedFacts DEF WriteNew, RInv, WayIsClear, Typed
    <3>2. n # f => disk'[n] = disk[n]
      BY <2>1, <2>4 DEF WriteNew
    <3>3. n \in astray' \ astray => n = f /\ LeadsOut(disk, n)
      BY <2>4 DEF WriteNew, Astray
    <3>. QED  BY <2>2, <3>1, <3>2, <3>3
  <2>5. CASE RestoreDone
    BY <2>5 DEF RestoreDone, treevars
  <2>. QED  BY <1>1, <2>3, <2>4, <2>5 DEF RestoreStep
<1>2. ASSUME HInv, RInv, Asked, Plain, [Next]_vars
      PROVE  Only
  <2>1. RestoreStep => astray' \subseteq Name
    BY <1>2, RemoveSafe, WriteSafe, PhaseSafe DEF RestoreStep, HInv, Typed
  <2>. QED  BY <1>1, <1>2, <2>1
<1>3. Init => Asked /\ Plain
  BY DEF Init, Asked, Plain, Restoring
<1>4. HInv /\ RInv /\ Asked /\ Plain /\ [Next]_vars => (Asked /\ Plain)'
  BY PlainStep, AskedStep
<1>5. Spec => []Asked /\ []Plain
  BY <1>3, <1>4, Inductive, PTL DEF Spec
<1>6. Only => [RestoreStep =>
        /\ \A n \in Name : disk'[n] = disk[n] \/ IsMeant(n) \/ (disk[n].kind = "none" /\ disk'[n].kind = "dir")
        /\ \A n \in astray' \ astray : IsMeant(n) /\ LeadsOut(disk, n)]_vars
  OBVIOUS
<1>. HIDE DEF Only
<1>. QED  BY <1>2, <1>5, <1>6, Inductive, PTL DEF Spec, OnlyWhatIsMeant
==============================================================================
